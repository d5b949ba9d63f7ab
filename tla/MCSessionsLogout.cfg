CONSTANTS
    alice = alice
    bob = bob
    page = page
    r1 = r1
    r2 = r2
    NoRequest = NoRequest
    NoUser = NoUser
    Pages = {page}
    Clients = {r1, r2}
    Users = {alice, bob}
    PageOf <- MCPageOf
    Asked = {"login", "refresh", "logout"}
    MaxPairs = 2
    MaxExpired = 1
SPECIFICATION Spec
INVARIANTS LogoutCarriesBearer
CHECK_DEADLOCK FALSE
