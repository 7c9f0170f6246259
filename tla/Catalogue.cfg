SPECIFICATION CatalogueSpec
CONSTANTS
    m1 = m1
    m2 = m2
    r1 = r1
    r2 = r2
    a1 = a1
    c1 = c1
    c2 = c2
    g = g
    u1 = u1
    p1 = p1
    p2 = p2
    Keep = Keep
    Empty = Empty
    Global = Global
    ModelNames = {m1, m2}
    Asked = m1
    Prices = {r1, r2}
    Mappings = {a1}
    ChannelIds = {c1, c2}
    Groups = {g}
    Upstreams = {u1}
    Days = {1, 2, 3}
    Today = 2
    PriceForms <- Forms
    Rates <- MCRates
    TokenCounts <- Counts
    Procs = {p1, p2}
    MaxBegun = 3
    MaxKeys = 2
SYMMETRY Sym
INVARIANTS
    DeletedIsUnbound
    PatchKeepsOthers
    CostSound
