--------------------------- MODULE MCAddressRoutes ---------------------------
(* Requests share nothing but the store, so one request, interleaved with *)
(* the ingestion of the first block, shows every handler behaviour.       *)
EXTENDS AddressRoutes

CONSTANTS r1

MCRequests == {r1}

(* Requests whose ?unanchored isUnanchoredRequest accepts, so that a      *)
(* second response can only come from the handler's own steps.            *)
MCInputsValidUnanchored ==
    [address    : BOOLEAN,
     height     : {"absent", "nonint", "nonpos", "ok"},
     unanchored : {"boolean"},
     paging     : BOOLEAN]

=============================================================================
