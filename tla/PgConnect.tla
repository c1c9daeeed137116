------------------------------ MODULE PgConnect ------------------------------
(***************************************************************************)
(* PgDataStore.connect() and runMigrations() (src/src/datastore/          *)
(* postgres-store.ts): probe the server with a fresh Client until it      *)
(* answers, retrying ECONNREFUSED and "Connection terminated              *)
(* unexpectedly" every two seconds while less than ten seconds have       *)
(* passed; then run the migrations on a Client of their own and check a   *)
(* Pool connection.  The server goes down and comes back as it likes (a   *)
(* container starting, a restart), a bounded number of times.  Time is in *)
(* seconds; a connection attempt takes one of AttemptTimes.                *)
(***************************************************************************)
EXTENDS Naturals

CONSTANTS
    RetryWindow,    \* initTimer.getElapsed() < 10000: 10 s
    RetryDelay,     \* await timeout(2000): 2 s
    AttemptTimes,   \* how long client.connect() may take to settle
    MaxFlips        \* bound on the server's changes of state

(* error.code / error.message of a failed connect: the two the loop        *)
(* retries, and any other (authentication, DNS, a bad port).               *)
Retryable == {"ECONNREFUSED", "terminated"}
Errors == Retryable \cup {"other", "migration"}

VARIABLES
    pc,         \* where connect() is
    elapsed,    \* initTimer.getElapsed()
    lastError,  \* connectionError, or "none"
    thrown,     \* the error connect() rejected with, or "none"
    server,     \* "up" or "down"
    flips       \* changes of the server's state so far

vars == <<pc, elapsed, lastError, thrown, server, flips>>

Init ==
    /\ pc = "probe"
    /\ elapsed = 0
    /\ lastError = "none"
    /\ thrown = "none"
    /\ server \in {"up", "down"}
    /\ flips = 0

(* The errors a connection attempt may fail with: a server that is down   *)
(* refuses or drops the connection; any attempt may fail otherwise.        *)
ConnectErrors == IF server = "down" THEN Retryable \cup {"other"} ELSE {"other"}

(* initTimer.getElapsed() after d more seconds.  Only elapsed < 10 s is   *)
(* ever asked of it, so the clock stops at RetryWindow: every later        *)
(* instant answers the same.                                               *)
Elapse(t, d) == IF t + d < RetryWindow THEN t + d ELSE RetryWindow

Throw(e) == /\ pc' = "thrown"
            /\ thrown' = e

-----------------------------------------------------------------------------
(* Mutant: every connect error is retried (the error.code / message      *)
(* classification dropped), so an authentication error waits and retries  *)
(* like a refused connection.                                              *)
ProbeRetriesAnyError ==
    /\ pc = "probe"
    /\ \E d \in AttemptTimes :
         /\ elapsed' = Elapse(elapsed, d)
         /\ \/ /\ server = "up"
               /\ pc' = "migrate"
               /\ UNCHANGED <<lastError, thrown>>
            \/ \E e \in ConnectErrors :
                 /\ lastError' = e
                 /\ pc' = "wait"
                 /\ UNCHANGED thrown
    /\ UNCHANGED <<server, flips>>

(* The do-while body: new Client and await client.connect(); finally      *)
(* client.end().  Success breaks out of the loop; a retryable error is     *)
(* kept and the loop waits; any other error is rethrown.                   *)
Probe ==
    /\ pc = "probe"
    /\ \E d \in AttemptTimes :
         /\ elapsed' = Elapse(elapsed, d)
         /\ \/ /\ server = "up"
               /\ pc' = "migrate"
               /\ UNCHANGED <<lastError, thrown>>
            \/ \E e \in ConnectErrors :
                 IF e \in Retryable
                 THEN /\ lastError' = e
                      /\ pc' = "wait"
                      /\ UNCHANGED thrown
                 ELSE /\ Throw(e)
                      /\ UNCHANGED lastError
    /\ UNCHANGED <<server, flips>>

(* Mutant: the loop runs while (!connectionOkay) instead of while less   *)
(* than ten seconds have passed.                                           *)
RetryWaitUntilConnected ==
    /\ pc = "wait"
    /\ elapsed' = Elapse(elapsed, RetryDelay)
    /\ pc' = "probe"
    /\ UNCHANGED <<lastError, thrown, server, flips>>

(* await timeout(2000), then the loop condition: another attempt while    *)
(* less than ten seconds have passed, else throw the last error.           *)
RetryWait ==
    /\ pc = "wait"
    /\ elapsed' = Elapse(elapsed, RetryDelay)
    /\ IF elapsed' < RetryWindow THEN pc' = "probe" /\ UNCHANGED thrown
       ELSE Throw(lastError)
    /\ UNCHANGED <<lastError, server, flips>>

(* runMigrations: a new Client, connect, PgMigrate; any error is logged   *)
(* and rethrown (the Client ended in finally), and connect() rethrows it.  *)
Migrate ==
    /\ pc = "migrate"
    /\ \/ /\ server = "up"
          /\ pc' = "pool"
          /\ UNCHANGED thrown
       \/ \E e \in ConnectErrors : Throw(e)
       \/ /\ server = "up"
          /\ Throw("migration")
    /\ UNCHANGED <<elapsed, lastError, server, flips>>

(* new Pool, await pool.connect(): success returns the PgDataStore (the   *)
(* client released in finally); an error is logged and rethrown.           *)
PoolConnect ==
    /\ pc = "pool"
    /\ \/ /\ server = "up"
          /\ pc' = "returned"
          /\ UNCHANGED thrown
       \/ \E e \in ConnectErrors : Throw(e)
    /\ UNCHANGED <<elapsed, lastError, server, flips>>

(* The database server stops or starts. *)
ServerFlip ==
    /\ flips < MaxFlips
    /\ server' = IF server = "up" THEN "down" ELSE "up"
    /\ flips' = flips + 1
    /\ UNCHANGED <<pc, elapsed, lastError, thrown>>

Connect == Probe \/ RetryWait \/ Migrate \/ PoolConnect

Next == Connect \/ ServerFlip

(* Each awaited step of connect() is resumed by the event loop once its   *)
(* promise settles: weak fairness on connect()'s steps, none on the server.*)
Spec == Init /\ [][Next]_vars /\ WF_vars(Connect)

-----------------------------------------------------------------------------
(* connect()'s state; in particular connectionError only ever holds an    *)
(* error the loop retried: authentication or DNS errors are rethrown at    *)
(* once, never waited on.                                                  *)
TypeOK ==
    /\ pc \in {"probe", "wait", "migrate", "pool", "returned", "thrown"}
    /\ elapsed \in 0..RetryWindow
    /\ lastError \in Retryable \cup {"none"}
    /\ thrown \in Errors \cup {"none"}
    /\ server \in {"up", "down"}
    /\ flips \in 0..MaxFlips

(* connect() settles: it returns a store or rejects, however long the     *)
(* server stays down, because the do-while loop is bounded by the clock   *)
(* (initTimer.getElapsed() < 10000), not by the connection succeeding.     *)
(* Each awaited connect, PgMigrate and pool.connect is assumed to settle.  *)
EventuallySettles == <>(pc \in {"returned", "thrown"})

(* Spec section 4.2: connection-establishment failures are retried for up *)
(* to ten seconds, so connect() rejects with ECONNREFUSED or "terminated" *)
(* only after ten seconds of retrying.                                     *)
RetriesForTheWholeWindow ==
    thrown \in Retryable => elapsed >= RetryWindow

====
