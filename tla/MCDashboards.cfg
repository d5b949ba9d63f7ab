CONSTANTS
    ali = ali
    bea = bea
    r1 = r1
    r2 = r2
    Readers = {r1, r2}
    Pupils = {ali, bea}
    a1 = a1
    Attempts = {a1}
    By <- MCBy
    Lists <- MCLists
    TTL = 1
    MaxClock = 2
SPECIFICATION Spec
SYMMETRY Interchangeable
INVARIANTS DashboardsAddUp
PROPERTIES NeverGoesBack FreshStays
CHECK_DEADLOCK FALSE
