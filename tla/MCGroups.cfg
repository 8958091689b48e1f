CONSTANTS
    u1 = u1
    u2 = u2
    stranger = stranger
    s1 = s1
    s2 = s2
    s3 = s3
    Nobody = Nobody
    Users = {u1, u2}
    Ids = {u1, u2}
    Sessions = {s1, s2, s3}
    UserOf <- MCUserOf
    MaxGroups = 1
    MaxEntries = 1
SPECIFICATION Spec
SYMMETRY MCSymmetry
VIEW MCView
INVARIANTS
    TypeOK
    MembersSeeGroup
    VerifiedIsBeingAccepted
PROPERTIES
    MembershipSpec
