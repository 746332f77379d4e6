--------------------------- MODULE ConnectionPool ---------------------------
(***************************************************************************)
(* Requests and the connections of one API process: query() and            *)
(* transaction() of pool.ts.  A statement outside a transaction has a      *)
(* connection for as long as it lasts; a transaction keeps one until its   *)
(* work is done or has failed.  Most work asks for nothing else, but a     *)
(* registration that resembles somebody raises an alert inside its         *)
(* transaction, and the alert's reference is a statement outside it.       *)
(*                                                                         *)
(* External, from the driver: connections are handed out in the order they *)
(* were asked for, and whoever asks waits for as long as it takes.  What   *)
(* the server does to a transaction that waits for longer than             *)
(* idle_in_transaction_session_timeout is left out: it ends the session,   *)
(* and no code here says what becomes of the request.                      *)
(***************************************************************************)
EXTENDS Naturals, Sequences, FiniteSets

CONSTANTS Requests,
          PoolMax     \* DATABASE_POOL_MAX

VARIABLES
    at,      \* "idle", "asks" for its connection, "works", "asks_again", "works_twice"
    nested,  \* whether the work is one that asks for a second connection
    queue,   \* who waits, in order
    held     \* connections that each request has

vars == <<at, nested, queue, held>>

TypeOK ==
    /\ at \in [Requests -> {"idle", "asks", "works", "asks_again", "works_twice"}]
    /\ nested \in [Requests -> BOOLEAN]
    /\ queue \in Seq(Requests)
    /\ held \in [Requests -> 0..2]

Init ==
    /\ at = [r \in Requests |-> "idle"]
    /\ nested = [r \in Requests |-> FALSE]
    /\ queue = <<>>
    /\ held = [r \in Requests |-> 0]

\* Who has n connections or more; nobody has more than two.
Having(n) == {r \in Requests : held[r] >= n}

InUse == Cardinality(Having(1)) + Cardinality(Having(2))

\* connect(): the request joins the queue, and is served at once if there is room.
Begin(r, second) ==
    /\ at[r] = "idle"
    /\ at' = [at EXCEPT ![r] = "asks"]
    /\ nested' = [nested EXCEPT ![r] = second]
    /\ queue' = Append(queue, r)
    /\ UNCHANGED held

Serve ==
    /\ queue # <<>> /\ InUse < PoolMax
    /\ LET r == Head(queue) IN
       /\ held' = [held EXCEPT ![r] = @ + 1]
       /\ at' = [at EXCEPT ![r] = IF @ = "asks" THEN "works" ELSE "works_twice"]
    /\ queue' = Tail(queue)
    /\ UNCHANGED nested

\* raiseIdentityIntegrityAlert(): nextReference(), with the transaction open.
AskAgain(r) ==
    /\ at[r] = "works" /\ nested[r]
    /\ at' = [at EXCEPT ![r] = "asks_again"]
    /\ queue' = Append(queue, r)
    /\ UNCHANGED <<nested, held>>

\* The reference is there, or the statement failed, and its connection goes back.
Answered(r) ==
    /\ at[r] = "works_twice"
    /\ at' = [at EXCEPT ![r] = "works"]
    /\ nested' = [nested EXCEPT ![r] = FALSE]
    /\ held' = [held EXCEPT ![r] = @ - 1]
    /\ UNCHANGED queue

Ends(r) ==
    /\ at' = [at EXCEPT ![r] = "idle"]
    /\ nested' = [nested EXCEPT ![r] = FALSE]
    /\ UNCHANGED queue

\* COMMIT, or the end of the one statement.
Commit(r) ==
    /\ at[r] = "works" /\ ~nested[r]
    /\ held' = [held EXCEPT ![r] = 0]
    /\ Ends(r)

\* Mutation of AfterFailure: only a transaction that commits gives its connection back.
AfterFailureKept(r) == held

\* "finally { client.release() }"
AfterFailure(r) == [held EXCEPT ![r] = 0]

\* A statement of the work fails: ROLLBACK, and the error goes on to the caller.
Fail(r) ==
    /\ at[r] = "works"
    /\ held' = AfterFailure(r)
    /\ Ends(r)

Next ==
    \/ Serve
    \/ \E r \in Requests :
          \/ \E second \in BOOLEAN : Begin(r, second)
          \/ AskAgain(r) \/ Answered(r) \/ Commit(r) \/ Fail(r)

Spec == Init /\ [][Next]_vars

\* Statements come to an end (statement_timeout), and so does the work between them.
Fairness ==
    /\ WF_vars(Serve)
    /\ \A r \in Requests : WF_vars(AskAgain(r) \/ Answered(r) \/ Commit(r) \/ Fail(r))

FairSpec == Spec /\ Fairness

\* As many transactions wait for a second connection as there are connections: each
\* of them waits for another, and nothing in the process ends the circle.
Circle == Cardinality({r \in Requests : at[r] = "asks_again"}) >= PoolMax

\* Something in the process can happen without anybody else's: a statement runs, or a
\* connection is free for whoever is first in the queue.
SomethingGoesOn ==
    \/ \E r \in Requests : at[r] \in {"works", "works_twice"}
    \/ queue # <<>> /\ InUse < PoolMax

\* max, and "finally { client.release() }": there are never more connections than the pool
\* may have, none is lost to a request that has ended, and as long as anybody is under
\* way something goes on, but for that circle - which only nested work closes, as many
\* at once as there are connections.
OnlyCircleBlocks ==
    /\ InUse <= PoolMax
    /\ \A r \in Requests : at[r] = "idle" => held[r] = 0
    /\ (\E r \in Requests : at[r] # "idle") => SomethingGoesOn \/ Circle
    /\ Circle => Cardinality({r \in Requests : nested[r]}) >= PoolMax

\* A request has its connections and ends, whatever fails, but for that circle.
IsServed(r) == at[r] # "idle" ~> at[r] = "idle" \/ Circle
EveryRequestIsServed == \A r \in Requests : IsServed(r)
=============================================================================
