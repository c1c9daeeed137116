\* One request with a valid ?unanchored; checks that no handler sends a
\* second response.
CONSTANTS
    r1 = r1
    Requests <- MCRequests
    Inputs <- MCInputsValidUnanchored
SPECIFICATION Spec
CHECK_DEADLOCK FALSE
INVARIANT
    AtMostOneResponse
