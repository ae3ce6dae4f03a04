CONSTANTS
    g1 = g1
    g2 = g2
    a = a
    b = b
    NaN = NaN
    Strange = Strange
    Goroutines = {g1, g2}
    Values = {a, b, NaN, Strange}
    Maps = {m1, m2, m3}
    m1 = m1
    m2 = m2
    m3 = m3
    Lists <- MCLists
SPECIFICATION Spec
INVARIANTS PoolClean VerdictExact
