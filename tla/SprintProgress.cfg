CONSTANTS
    a = a
    b = b
    c = c
    None = None
    Ticket = {a, b}
    Session = {s1, s2, s3}
    Loop = {l1}
    Manual = {}
    blockers <- NoBlockers
    rank <- MCRank
    Migration = {}
    NeedsLocal = {}
    Slots = 1
    MaxWaiting = 1
    MaxErrors = 2
    HumanMoves = {}
    CrashAt <- Dispatching
    PreflightFails = FALSE
    RacingStarts = FALSE
SPECIFICATION FairSpec
PROPERTIES FreeTicketStarts
