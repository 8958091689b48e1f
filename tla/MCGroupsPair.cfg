CONSTANTS
    u1 = u1
    u2 = u2
    stranger = stranger
    s1 = s1
    s2 = s2
    s3 = s3
    Nobody = Nobody
    Users = {u1, u2}
    Ids = {u1, u2, stranger}
    Sessions = {s1, s3}
    UserOf <- MCUserOfPair
    MaxGroups = 1
    MaxEntries = 2
SPECIFICATION FairSpec
PROPERTIES
    EveryCommandAnswered
INVARIANTS
    ApplicationIsListed
