\* One request, every route and every input class.
CONSTANTS
    r1 = r1
    Requests <- MCRequests
SPECIFICATION Spec
\* The server is idle once every request is answered.
CHECK_DEADLOCK FALSE
INVARIANTS
    TypeOK
    FirstResponseMatchesInput
PROPERTIES
    EveryRequestAnswered
