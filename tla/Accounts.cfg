SPECIFICATION Spec
CONSTANTS
    s1 = s1
    s2 = s2
    a = a
    n = n
    k1 = k1
    k2 = k2
    k3 = k3
    n1 = n1
    n2 = n2
    p1 = p1
    p2 = p2
    Users = {s1, s2, a, n}
    Supers = {s1, s2}
    Admins = {a}
    Members = {}
    Registered = {s1, a}
    Groups = {1, 2}
    Open = {1}
    Keys = {k1, k2, k3}
    Owned = {k1}
    Names = {n1, n2}
    AccountOf <- MCAccountOf
    Procs = {p1, p2}
    KeyLimit = 1
    MaxFailures = 2
    MaxTracked = 1
    MaxRequests = 3
    MaxBegun = 2
SYMMETRY Sym
INVARIANTS
    SuperLossHasCause
    KeysBounded
    GuessesBounded
    AuditTells
