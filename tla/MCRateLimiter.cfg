CONSTANTS
    Threads = {t1, t2}
    Addrs = {a1, a2}
    Capacity = 1
    GlobalFactor = 1
    Cost = 2
    CleanAge = 5
    MaxStall = 1
    MaxTime = 6
    MaxDebt = 1
SPECIFICATION Spec
INVARIANTS TypeOK AddressLimit GlobalLimit
SYMMETRY MCSymmetry
