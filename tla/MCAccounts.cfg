CONSTANTS
    ann = ann
    bob = bob
    pam = pam
    Kim = Kim
    kim = kim
    NoRequest = NoRequest
    Requests = {q1, q2}
    Pseudos <- MCPseudos
    Lower <- MCLower
    Calls <- MCCalls
    Accounts0 <- MCAccounts0
SPECIFICATION Spec
INVARIANTS TypeOK UniquePseudos AdminRemains
PROPERTIES AnswersAreTrue EveryRequestAnswered
CHECK_DEADLOCK FALSE
