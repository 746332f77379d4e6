---------------------------- MODULE MCBackground ----------------------------
(***************************************************************************)
(* What goes on beside the requests and has to end, for TLC: the           *)
(* notification queue with sweeps of any length, the retention sweep, and  *)
(* the connections that requests wait for.  They share no state here, so   *)
(* each is checked in an area of its own, and each has its own fairness.   *)
(***************************************************************************)
EXTENDS NotificationQueue

CONSTANTS
    sms, email, inbox, w1, w2,
    Sweepers, Schedule, Notices, Rows, Batch, MaxStops, MaxRequeued,   \* Retention
    Requests, PoolMax                                                  \* ConnectionPool

\* Tables are apart and finite; bounds and limits are numbers.
ASSUME BackgroundAssumption ==
    /\ IsFiniteSet(Notices) /\ IsFiniteSet(Rows) /\ Notices \cap Rows = {}
    /\ IsFiniteSet(Requests)
    /\ {Batch, MaxStops, MaxRequeued, PoolMax} \subseteq Nat

VARIABLES
    area,
    past, gone, moving, run, ledger, sweep, overlapped, stops, requeued,
    at, nested, queue, connections

retentionVars == <<past, gone, moving, run, ledger, sweep, overlapped, stops, requeued>>
poolVars == <<at, nested, queue, connections>>
allVars == <<area, vars, retentionVars, poolVars>>

R == INSTANCE Retention WITH MaxRetries <- MaxRequeued, retries <- requeued
L == INSTANCE ConnectionPool WITH held <- connections

MCInit ==
    /\ area \in {"queue", "retention", "pool"}
    /\ Init /\ R!Init /\ L!Init

InQueue(A)     == area = "queue" /\ A /\ UNCHANGED <<area, retentionVars, poolVars>>
InRetention(A) == area = "retention" /\ A /\ UNCHANGED <<area, vars, poolVars>>
InPool(A)      == area = "pool" /\ A /\ UNCHANGED <<area, vars, retentionVars>>

MCNext == InQueue(Next) \/ InRetention(R!Next) \/ InPool(L!Next)

\* Fairness of NotificationQueue, Retention and ConnectionPool, each in its area.
MCFairness ==
    /\ \A w \in Workers : WF_allVars(InQueue(Sweeps(w)))
    /\ \A m \in Messages : WF_allVars(InQueue(Elapse(m)))
    /\ WF_allVars(InRetention(R!OpenRun(Schedule, FALSE)))
    /\ WF_allVars(InRetention(R!Find(Schedule)))
    /\ WF_allVars(InRetention(R!Finish(Schedule)))
    /\ \A rule \in R!Rules : SF_allVars(InRetention(R!Erase(Schedule, rule)))
    /\ \A n \in Notices : WF_allVars(InRetention(R!Settle(n)))
    /\ WF_allVars(InPool(L!Serve))
    /\ \A r \in Requests :
          WF_allVars(InPool(L!AskAgain(r) \/ L!Answered(r) \/ L!Commit(r) \/ L!Fail(r)))

MCSpec == MCInit /\ [][MCNext]_allVars /\ MCFairness

\* The ledger of erasures is what was erased (retention.worker.ts), in states of the
\* right type.
LedgerIsTrue == R!TypeOK /\ L!TypeOK /\ R!LedgerIsTrue

\* The pool is never overdrawn, loses no connection, and stands still in the circle only
\* (pool.ts).
OnlyCircleBlocks == L!OnlyCircleBlocks

\* What is past its period is erased in the end (retention.scheduler.ts).
BacklogDrains == R!BacklogDrains

\* Every request gets its connections and ends (pool.ts), but for the circle that
\* raiseIdentityIntegrityAlert() can close.  Requests differ in nothing but their names,
\* so that one of them stands for all.
EveryRequestIsServed == L!IsServed(CHOOSE r \in Requests : TRUE)
=============================================================================
