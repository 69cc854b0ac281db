CONSTANTS
    u1 = u1
    u2 = u2
    i1 = i1
    i2 = i2
    u3 = u3
    g1 = g1
    g2 = g2
    first = first
    second = second
    Callers = {u1, u2}
    Agents = {u1, u2}
    Clerks = {u1, u2}
    Issuers = {u1, u2, u3}
    Reporters = {u1, u2, u3}
    Wrappers = {u1, u2, u3}
    Sprints = {i1, i2}
    Jobs = {i1, i2}
    Bills = {i1, i2}
    Cards = {g1, g2}
    Works = {g1}
    Papers = {u3}
    Steps = {first}
    StepOf <- MCStepOf
    NoSprint = NoSprint
    Nobody = Nobody
    NoWrapper = NoWrapper
    Keep = Keep
    MaxNumber = 2
    Unchanged = "unchanged"
    Derived = "derived"
    AskedStatuses = {"pending", "running", "success", "failed"}
    ClosingStatuses = {"derived"}
    NoBill = NoBill
    MaxBills = 4
    MaxEvents = 5
    Pages = {i1, i2}
    Projects = {first, second}
    Titles = {g1, g2}
    Editors = {u1, u2}
    NoPage = NoPage
    NoSlug = NoSlug
    Same = Same
    MaxRequests = 3
    RacingRenames = FALSE
SPECIFICATION Spec
SYMMETRY Symmetry
INVARIANTS
    ServicesTypeOK
    NumberFree
    StepFollowsJobs
    StampsAgree
    RowHasFile
    RefusedOnlyByThree
    CountWithinEvents
    CommandsExclusive
    NoteNamesHolder
    ShowsWhatWasSaved
PROPERTIES
    ActiveOnlyAlone
    SprintsOnlyAdvance
    CompletionKeepsFinished
    EndedStaysEnded
    SealHolds
CHECK_DEADLOCK FALSE
