---------------------------- MODULE AddressRoutes ----------------------------
(***************************************************************************)
(* The /address/* REST handlers of createAddressRouter                     *)
(* (src/src/api/routes/address.ts).  Each handler is an async function     *)
(* that validates its request, awaits store queries and sends one          *)
(* response; it may also return early after a response, throw, or reject. *)
(* addAsync routes a rejection to next(err), Express's error path, which   *)
(* answers only if no header has been sent yet.                            *)
(*                                                                         *)
(* A handler is modelled as the table of its steps in source order;        *)
(* requests are independent processes whose steps interleave with the     *)
(* ingestion of the first block, which decides getCurrentBlockHeight's     *)
(* "found".  A request's inputs (address validity, query parameters) are   *)
(* chosen from small sets on arrival; each awaited query may succeed or    *)
(* reject.  Response bodies, formatting and the store's rows are left out. *)
(***************************************************************************)
EXTENDS Integers, Sequences, FiniteSets

CONSTANTS
    Requests        \* the HTTP requests that reach the router

(* The routes of createAddressRouter. *)
Routes == {"stx", "balances", "transactions", "transactions_with_transfers",
           "assets", "stx_inbound", "nft_events", "mempool", "nonces"}

(* What a handler reads of its request: isValidPrincipal /                 *)
(* isValidC32Address of the address, the ?height parameter, what          *)
(* isUnanchoredRequest makes of ?unanchored, and whether parseLimitQuery   *)
(* and parsePagingQueryInput accept ?limit and ?offset.                    *)
Inputs == [address    : BOOLEAN,
           height     : {"absent", "nonint", "nonpos", "ok"},
           unanchored : {"boolean", "bad"},
           paging     : BOOLEAN]

(* What is sent: the handler's res.json(result), its own 400 or 500, and  *)
(* the error path's answer to a rejected handler.                          *)
Kinds == {"ok", "bad", "server", "error"}

VARIABLES
    route,        \* route[r]: the route request r was sent to, "none" before
    input,        \* input[r]: what request r carries
    pc,           \* pc[r]: index of the handler step request r is at
    state,        \* "idle", "running", "thrown" (rejected) or "done"
    sent,         \* sent[r]: the send attempts of request r, in order
    hasBlock,     \* a block has been ingested: getCurrentBlockHeight finds one
    sendManyOk    \* getSendManyContract(chainId) yields a valid principal

vars == <<route, input, pc, state, sent, hasBlock, sendManyOk>>

-----------------------------------------------------------------------------
(* The handlers, step by step.  "principal": isValidPrincipal check that   *)
(* returns 400; "c32": isValidC32Address check that sends 400 without      *)
(* returning; "unanchored": isUnanchoredRequest; "heightOrUnanchored": the *)
(* ?height filter, else isUnanchoredRequest; "paging": parse limit and     *)
(* offset; "current": getCurrentBlockHeight; "sendMany": the contract-id   *)
(* check; "query": an awaited store call (or schema validation, or a tx    *)
(* lookup of Bluebird.mapSeries); "json": res.json(result).                *)

HandlerStx == <<"principal", "current", "query", "query", "json">>

HandlerBalances ==
    <<"principal", "unanchored", "current", "query", "query", "query", "query", "json">>

HandlerTransactions == <<"principal", "heightOrUnanchored", "paging", "query", "query", "json">>

HandlerTransactionsWithTransfers ==
    <<"principal", "heightOrUnanchored", "paging", "query", "query", "json">>

HandlerAssets == <<"principal", "unanchored", "paging", "query", "json">>

HandlerStxInbound == <<"sendMany", "principal", "paging", "heightOrUnanchored", "query", "json">>

HandlerNftEvents == <<"principal", "paging", "unanchored", "query", "json">>

HandlerMempool == <<"paging", "c32", "unanchored", "query", "query", "json">>

HandlerNonces == <<"principal", "query", "json">>

Handler ==
    [x \in Routes |->
        CASE x = "stx"                         -> HandlerStx
          [] x = "balances"                    -> HandlerBalances
          [] x = "transactions"                -> HandlerTransactions
          [] x = "transactions_with_transfers" -> HandlerTransactionsWithTransfers
          [] x = "assets"                      -> HandlerAssets
          [] x = "stx_inbound"                 -> HandlerStxInbound
          [] x = "nft_events"                  -> HandlerNftEvents
          [] x = "mempool"                     -> HandlerMempool
          [] x = "nonces"                      -> HandlerNonces]

(* The step request r is at. *)
StepOf(r) == Handler[route[r]][pc[r]]

At(r, step) == state[r] = "running" /\ StepOf(r) = step

-----------------------------------------------------------------------------
(* Sending a response.  Express sets the headers on the first send; a     *)
(* later send throws ERR_HTTP_HEADERS_SENT, which rejects the handler.     *)
SendAndReturn(r, kind) ==
    /\ sent' = [sent EXCEPT ![r] = Append(@, kind)]
    /\ state' = [state EXCEPT ![r] = IF sent[r] = <<>> THEN "done" ELSE "thrown"]
    /\ UNCHANGED pc

(* Moving on to the handler's next step. *)
Continue(r) ==
    /\ pc' = [pc EXCEPT ![r] = @ + 1]
    /\ UNCHANGED <<state, sent>>

(* The handler throws or an awaited promise rejects. *)
Throw(r) ==
    /\ state' = [state EXCEPT ![r] = "thrown"]
    /\ UNCHANGED <<pc, sent>>

-----------------------------------------------------------------------------
Init ==
    /\ route = [r \in Requests |-> "none"]
    /\ input = [r \in Requests |-> [address |-> TRUE, height |-> "absent",
                                    unanchored |-> "boolean", paging |-> TRUE]]
    /\ pc = [r \in Requests |-> 1]
    /\ state = [r \in Requests |-> "idle"]
    /\ sent = [r \in Requests |-> <<>>]
    /\ hasBlock = FALSE
    /\ sendManyOk \in BOOLEAN

(* A request reaches the router. *)
Arrive(r) ==
    /\ state[r] = "idle"
    /\ \E x \in Routes, i \in Inputs :
         /\ route' = [route EXCEPT ![r] = x]
         /\ input' = [input EXCEPT ![r] = i]
    /\ state' = [state EXCEPT ![r] = "running"]
    /\ UNCHANGED <<pc, sent, hasBlock, sendManyOk>>

(* if (!isValidPrincipal(stxAddress)) return res.status(400).json(...) *)
PrincipalCheck(r) ==
    /\ At(r, "principal")
    /\ IF input[r].address THEN Continue(r) ELSE SendAndReturn(r, "bad")
    /\ UNCHANGED <<route, input, hasBlock, sendManyOk>>

(* /mempool: if (!isValidC32Address(address)) res.status(400).json(...),   *)
(* with no return: the handler goes on to its next step either way.        *)
C32Check(r) ==
    /\ At(r, "c32")
    /\ pc' = [pc EXCEPT ![r] = @ + 1]
    /\ IF input[r].address
         THEN UNCHANGED <<state, sent>>
         ELSE /\ sent' = [sent EXCEPT ![r] = Append(@, "bad")]
              /\ state' = [state EXCEPT ![r] = IF sent[r] = <<>> THEN "running"
                                                                  ELSE "thrown"]
    /\ UNCHANGED <<route, input, hasBlock, sendManyOk>>

(* isUnanchoredRequest(req, res, next): a boolean, or, for an unexpected   *)
(* ?unanchored value, a 400 it sends itself, after which the handler       *)
(* returns (typeof includeUnanchored !== 'boolean').                       *)
UnanchoredCheck(r) ==
    /\ At(r, "unanchored")
    /\ IF input[r].unanchored = "boolean" THEN Continue(r) ELSE SendAndReturn(r, "bad")
    /\ UNCHANGED <<route, input, hasBlock, sendManyOk>>

(* Mutant: the ?height filter without the heightFilter < 1 check. *)
HeightOrUnanchoredNoPositiveCheck(r) ==
    /\ At(r, "heightOrUnanchored")
    /\ CASE input[r].height = "nonint"           -> SendAndReturn(r, "bad")
         [] input[r].height \in {"nonpos", "ok"} -> Continue(r)
         [] input[r].height = "absent" ->
              IF input[r].unanchored = "boolean" THEN Continue(r)
              ELSE SendAndReturn(r, "bad")
    /\ UNCHANGED <<route, input, hasBlock, sendManyOk>>

(* if ('height' in req.query): parseInt, then 400 unless an integer, then *)
(* 400 unless >= 1; otherwise isUnanchoredRequest.                         *)
HeightOrUnanchored(r) ==
    /\ At(r, "heightOrUnanchored")
    /\ CASE input[r].height \in {"nonint", "nonpos"} -> SendAndReturn(r, "bad")
         [] input[r].height = "ok"                   -> Continue(r)
         [] input[r].height = "absent" ->
              IF input[r].unanchored = "boolean" THEN Continue(r)
              ELSE SendAndReturn(r, "bad")
    /\ UNCHANGED <<route, input, hasBlock, sendManyOk>>

(* parseLimitQuery / parsePagingQueryInput throw on a bad ?limit/?offset. *)
PagingParse(r) ==
    /\ At(r, "paging")
    /\ IF input[r].paging THEN Continue(r) ELSE Throw(r)
    /\ UNCHANGED <<route, input, hasBlock, sendManyOk>>

(* Mutant: "if (!currentBlockHeight.found) return;" with no 500 sent. *)
CurrentBlockNoResponse(r) ==
    /\ At(r, "current")
    /\ \/ Throw(r)
       \/ /\ hasBlock
          /\ Continue(r)
       \/ /\ ~hasBlock
          /\ state' = [state EXCEPT ![r] = "done"]
          /\ UNCHANGED <<pc, sent>>
    /\ UNCHANGED <<route, input, hasBlock, sendManyOk>>

(* const currentBlockHeight = await db.getCurrentBlockHeight();            *)
(* if (!currentBlockHeight.found) return res.status(500).json(...)         *)
CurrentBlock(r) ==
    /\ At(r, "current")
    /\ \/ Throw(r)
       \/ /\ hasBlock
          /\ Continue(r)
       \/ /\ ~hasBlock
          /\ SendAndReturn(r, "server")
    /\ UNCHANGED <<route, input, hasBlock, sendManyOk>>

(* /stx_inbound: 500 unless the send-many contract id is a principal. *)
SendManyCheck(r) ==
    /\ At(r, "sendMany")
    /\ IF sendManyOk THEN Continue(r) ELSE SendAndReturn(r, "server")
    /\ UNCHANGED <<route, input, hasBlock, sendManyOk>>

(* An awaited store call resolves or rejects. *)
Query(r) ==
    /\ At(r, "query")
    /\ Continue(r) \/ Throw(r)
    /\ UNCHANGED <<route, input, hasBlock, sendManyOk>>

(* Mutant: the handler goes on past res.json(response). *)
RespondNoReturn(r) ==
    /\ At(r, "json")
    /\ sent' = [sent EXCEPT ![r] = Append(@, "ok")]
    /\ pc' = [pc EXCEPT ![r] = @ + 1]
    /\ UNCHANGED <<state, route, input, hasBlock, sendManyOk>>

(* res.json(response) *)
Respond(r) ==
    /\ At(r, "json")
    /\ SendAndReturn(r, "ok")
    /\ UNCHANGED <<route, input, hasBlock, sendManyOk>>

(* next(err): the error path answers unless headers were sent, in which   *)
(* case it can only close the connection.                                  *)
ErrorPath(r) ==
    /\ state[r] = "thrown"
    /\ state' = [state EXCEPT ![r] = "done"]
    /\ sent' = [sent EXCEPT ![r] = IF @ = <<>> THEN <<"error">> ELSE @]
    /\ UNCHANGED <<route, input, pc, hasBlock, sendManyOk>>

(* The indexer commits the first block. *)
IngestBlock ==
    /\ ~hasBlock
    /\ hasBlock' = TRUE
    /\ UNCHANGED <<route, input, pc, state, sent, sendManyOk>>

(* A handler step of request r. *)
HandlerStep(r) ==
    \/ PrincipalCheck(r) \/ C32Check(r) \/ UnanchoredCheck(r)
    \/ HeightOrUnanchored(r) \/ PagingParse(r) \/ CurrentBlock(r)
    \/ SendManyCheck(r) \/ Query(r) \/ Respond(r) \/ ErrorPath(r)

Next ==
    \/ \E r \in Requests : Arrive(r) \/ HandlerStep(r)
    \/ IngestBlock

(* Every awaited promise settles and Node runs every ready continuation:  *)
(* a started handler is weakly fair.  Arrival and ingestion are not.       *)
Spec == Init /\ [][Next]_vars /\ \A r \in Requests : WF_vars(HandlerStep(r))

-----------------------------------------------------------------------------
(* Properties                                                              *)

(* Whether input i passes the validation a handler step makes. *)
Passes(step, i) ==
    CASE step \in {"principal", "c32"}     -> i.address
      [] step = "unanchored"               -> i.unanchored = "boolean"
      [] step = "heightOrUnanchored"       -> \/ i.height = "ok"
                                              \/ i.height = "absent" /\ i.unanchored = "boolean"
      [] step = "paging"                   -> i.paging
      [] OTHER                             -> TRUE

(* Request r passes every validation its route makes. *)
ValidRequest(r) ==
    \A k \in 1..Len(Handler[route[r]]) : Passes(Handler[route[r]][k], input[r])

TypeOK ==
    /\ route \in [Requests -> Routes \cup {"none"}]
    /\ input \in [Requests -> Inputs]
    /\ \A r \in Requests : route[r] # "none" => pc[r] \in 1..Len(Handler[route[r]])
    /\ state \in [Requests -> {"idle", "running", "thrown", "done"}]
    /\ sent \in [Requests -> Seq(Kinds)]
    /\ hasBlock \in BOOLEAN
    /\ sendManyOk \in BOOLEAN

(* Spec section 7: a validation error is answered with a 4xx and a query  *)
(* never runs on its behalf to produce a 2xx; so the response a client    *)
(* gets is "ok" only for a request that passes every check of its route,  *)
(* and "bad" (400) only for one that fails some check, whatever the order *)
(* the handler makes them in and whatever its queries return.             *)
FirstResponseMatchesInput ==
    \A r \in Requests :
        sent[r] # <<>> =>
            /\ sent[r][1] = "ok"  => ValidRequest(r)
            /\ sent[r][1] = "bad" => ~ValidRequest(r)

(* Every request a handler starts is eventually answered, by the handler  *)
(* or by the error path: no early return leaves the client hanging.       *)
EveryRequestAnswered ==
    \A r \in Requests : state[r] = "running" ~> sent[r] # <<>>

(* Each request gets at most one response: after a handler has sent one,  *)
(* it returns, so it never tries to send another (which Express refuses   *)
(* with ERR_HTTP_HEADERS_SENT).                                            *)
AtMostOneResponse ==
    \A r \in Requests : Len(sent[r]) <= 1

=============================================================================
