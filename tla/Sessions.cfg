CONSTANTS
    a = a
    b = b
    c = c
    None = None
    Ticket = {a, b}
    Session = {s1, s2, s3}
    Loop = {l1, l2}
    Manual = {}
    blockers <- MCBlockers
    rank <- MCRank
    Migration = {b}
    NeedsLocal = {}
    Slots = 2
    MaxWaiting = 1
    MaxErrors = 2
    HumanMoves <- Rework
    CrashAt <- Tick
    PreflightFails = TRUE
    RacingStarts = FALSE
SPECIFICATION Spec
SYMMETRY Symmetry
INVARIANTS TypeOK RegistryInv OneSessionPerTicket
PROPERTIES StopKillsNobody DoneLeavesOnlyResumed DoneForgetsNoTicket MigrationStartsAlone
