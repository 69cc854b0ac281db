CONSTANTS
    Sprints = {s1, s2}
    Cards = {c1}
    Callers = {p, q}
    NoSprint = NoSprint
    Nobody = Nobody
    Keep = Keep
    MaxNumber = 1
SPECIFICATION BoardSpec
INVARIANT AtMostOneActive
CHECK_DEADLOCK FALSE
