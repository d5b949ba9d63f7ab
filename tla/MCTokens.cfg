CONSTANTS
    NoUser = NoUser
    c1 = c1
    c2 = c2
    Clients = {c1, c2}
    Users = {alice}
    Asked = {"login", "refresh", "logout"}
    MaxPairs = 3
    MaxExpired = 1
SPECIFICATION TokensSpec
SYMMETRY Swaps
INVARIANTS TradedOnce
PROPERTIES RevokedNeverAccepted
CHECK_DEADLOCK FALSE
