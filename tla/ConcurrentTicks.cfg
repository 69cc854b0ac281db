CONSTANTS
    a = a
    b = b
    c = c
    None = None
    Ticket = {a, b}
    Session = {s1, s2, s3}
    Loop = {l1}
    Manual = {m1}
    blockers <- MCBlockers
    rank <- MCRank
    Migration = {}
    NeedsLocal = {}
    Slots = 2
    MaxWaiting = 1
    MaxErrors = 2
    HumanMoves <- Forward
    CrashAt = {}
    PreflightFails = FALSE
    RacingStarts = FALSE
SPECIFICATION Spec
INVARIANT OneSessionPerTicket
