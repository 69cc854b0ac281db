CONSTANTS
    t1 = t1
    t2 = t2
    t3 = t3
    u1 = u1
    p1 = p1
    p2 = p2
    Ticket = {t1, t2}
    Project = {p1}
    Txn = {x1, x2}
    None = None
    projectOf <- MCProjectOf
    declared <- MCDeclared
    BlockerLists <- OneOrNone
    Scopes = {{t1, t2}}
SPECIFICATION FairSpec
PROPERTY RequestEnds
