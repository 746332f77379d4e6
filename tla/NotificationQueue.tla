-------------------------- MODULE NotificationQueue -------------------------
(***************************************************************************)
(* The notification queue: notifications.service.ts enqueue(),             *)
(* delivery.worker.ts sweep(), operations.service.ts retry() and the       *)
(* retention rule that redacts notifications.                              *)
(*                                                                         *)
(* Each worker process runs one sweep at a time: it claims a batch in one  *)
(* transaction, then hands the messages over one after the other and       *)
(* records each outcome in a transaction of its own.  What it claimed      *)
(* lives in its memory only; the row in the table moves on without it.     *)
(*                                                                         *)
(* Time is abstracted to `due': next_attempt_at <= now().  Elapse is the   *)
(* clock passing the backoff or the visibility timeout.                    *)
(***************************************************************************)
EXTENDS Naturals, FiniteSets

CONSTANTS Messages,        \* one per event and channel
          External,        \* those on SMS, EMAIL or PUSH
          Aged,            \* those that stay until their retention period is over
          Workers,
          MaxAttempts,     \* NOTIFICATION_MAX_ATTEMPTS
          BatchSize,       \* NOTIFICATION_WORKER_BATCH_SIZE
          MaxAborts,       \* bound: sweeps that die
          MaxRetries,      \* bound: operator retries of one message
          NoClaim

Statuses == {"NONE", "QUEUED", "SENDING", "SENT", "FAILED", "SUPPRESSED"}
Waiting  == {"QUEUED", "SENDING"}
Stopped  == {"SENT", "FAILED", "SUPPRESSED"}
Outcomes == {"SENT", "TRANSIENT_FAILURE", "PERMANENT_FAILURE"}

\* RETURNING id, recipient_address, attempts: a claim is a copy of the row.
Claims == [msg : Messages, attempts : Nat, address : BOOLEAN]
Held   == [claim : Claims, outcome : Outcomes]

ASSUME QueueAssumption ==
    /\ External \subseteq Messages /\ Aged \subseteq Messages
    /\ MaxAttempts \in Nat \ {0}
    /\ BatchSize \in Nat \ {0}
    /\ MaxAborts \in Nat /\ MaxRetries \in Nat
    /\ NoClaim \notin Held

VARIABLES
    status,      \* notification.status
    attempts,    \* notification.attempts
    due,         \* next_attempt_at <= now()
    erased,      \* content_erased_at: body emptied, recipient_address NULL
    log,         \* notification_delivery_attempt rows: <<attempt, outcome>>
    batch,       \* claimed and not yet handed over, per worker
    held,        \* handed over and not yet recorded, per worker
    handed,      \* how often each message was handed to a gateway
    told,        \* how often its recipient received it
    aborts,      \* sweeps that died
    retries,     \* operator retries of each message
    found,       \* messages retention has found and not yet emptied
    crossed      \* history: those put back in the queue at that moment

rowVars    == <<status, attempts, due, erased, log>>
workerVars == <<batch, held>>
countVars  == <<handed, told, aborts, retries>>
erasureVars == <<found, crossed>>
vars       == <<rowVars, workerVars, countVars, erasureVars>>

Numbered(rows) == {row[1] : row \in rows}

TypeOK ==
    /\ status \in [Messages -> Statuses]
    /\ attempts \in [Messages -> 0..MaxAttempts]
    /\ due \in [Messages -> BOOLEAN]
    /\ erased \in [Messages -> BOOLEAN]
    /\ log \in [Messages -> SUBSET ((1..MaxAttempts) \X {"SENT", "FAILED"})]
    /\ batch \in [Workers -> SUBSET Claims]
    /\ held \in [Workers -> Held \cup {NoClaim}]
    /\ handed \in [Messages -> Nat]
    /\ told \in [Messages -> Nat]
    /\ aborts \in 0..MaxAborts
    /\ retries \in [Messages -> 0..MaxRetries]
    /\ found \subseteq Messages
    /\ crossed \subseteq Messages

Init ==
    /\ status = [m \in Messages |-> "NONE"]
    /\ attempts = [m \in Messages |-> 0]
    /\ due = [m \in Messages |-> FALSE]
    /\ erased = [m \in Messages |-> FALSE]
    /\ log = [m \in Messages |-> {}]
    /\ batch = [w \in Workers |-> {}]
    /\ held = [w \in Workers |-> NoClaim]
    /\ handed = [m \in Messages |-> 0]
    /\ told = [m \in Messages |-> 0]
    /\ aborts = 0
    /\ retries = [m \in Messages |-> 0]
    /\ found = {}
    /\ crossed = {}

(***************************************************************************)
(* enqueue(): a second enqueue under the same dedupe key writes nothing.   *)
(* A recipient without an address on an external channel is recorded as    *)
(* suppressed, under the same key.                                         *)
(***************************************************************************)
Enqueue(m) ==
    /\ status[m] = "NONE"
    /\ status' = [status EXCEPT ![m] = "QUEUED"]
    /\ due' = [due EXCEPT ![m] = TRUE]
    /\ UNCHANGED <<attempts, erased, log, workerVars, countVars, erasureVars>>

Suppress(m) ==
    /\ m \in External
    /\ status[m] = "NONE"
    /\ status' = [status EXCEPT ![m] = "SUPPRESSED"]
    /\ UNCHANGED <<attempts, due, erased, log, workerVars, countVars, erasureVars>>

(***************************************************************************)
(* claim(): rows that are due, QUEUED or left in SENDING.  SKIP LOCKED may *)
(* leave some of them to another worker.                                   *)
(***************************************************************************)
\* Mutations of Claimable: whether it is time is not asked; what a dead
\* worker left behind is not taken up again.
ClaimableEarly  == {m \in Messages : status[m] \in Waiting}
ClaimableQueued == {m \in Messages : status[m] = "QUEUED" /\ due[m]}

Claimable == {m \in Messages : status[m] \in Waiting /\ due[m]}

Claim(w, taken) ==
    /\ batch[w] = {} /\ held[w] = NoClaim
    /\ taken # {} /\ taken \subseteq Claimable
    /\ Cardinality(taken) <= BatchSize
    /\ status' = [m \in Messages |-> IF m \in taken THEN "SENDING" ELSE status[m]]
    /\ due' = [m \in Messages |-> due[m] /\ m \notin taken]
    /\ batch' = [batch EXCEPT ![w] =
         {[msg |-> m, attempts |-> attempts[m], address |-> ~erased[m]] : m \in taken}]
    /\ UNCHANGED <<attempts, erased, log, held, countVars, erasureVars>>

(***************************************************************************)
(* deliver(): a message inside the platform is delivered by existing; one  *)
(* without an address fails for good; any other is handed to its gateway,  *)
(* which may have passed it on although the answer is a timeout.           *)
(***************************************************************************)
Answered(w, c, o) ==
    /\ c \in batch[w] /\ held[w] = NoClaim
    /\ batch' = [batch EXCEPT ![w] = @ \ {c}]
    /\ held' = [held EXCEPT ![w] = [claim |-> c, outcome |-> o]]
    /\ UNCHANGED <<rowVars, aborts, retries, erasureVars>>

DeliverInside(w, c) ==
    /\ c.msg \notin External
    /\ Answered(w, c, "SENT")
    /\ told' = [told EXCEPT ![c.msg] = @ + 1]
    /\ UNCHANGED handed

RefuseUnaddressed(w, c) ==
    /\ c.msg \in External /\ ~c.address
    /\ Answered(w, c, "PERMANENT_FAILURE")
    /\ UNCHANGED <<handed, told>>

HandOver(w, c, o, received) ==
    /\ c.msg \in External /\ c.address
    /\ o = "SENT" => received
    /\ o = "PERMANENT_FAILURE" => ~received
    /\ Answered(w, c, o)
    /\ handed' = [handed EXCEPT ![c.msg] = @ + 1]
    /\ told' = [told EXCEPT ![c.msg] = IF received THEN @ + 1 ELSE @]

Deliver(w, c) ==
    \/ DeliverInside(w, c)
    \/ RefuseUnaddressed(w, c)
    \/ \E o \in Outcomes, received \in BOOLEAN : HandOver(w, c, o, received)

(***************************************************************************)
(* recordSent(), recordFailure(): by id alone, from the claimed copy.      *)
(***************************************************************************)
\* Mutation of Logged: one row per message, overwritten.
LoggedOver(m, n, outcome) == log' = [log EXCEPT ![m] = {<<n, outcome>>}]

\* ON CONFLICT (notification_id, attempt) DO NOTHING
Logged(m, n, outcome) ==
    log' = [log EXCEPT ![m] = IF n \in Numbered(@) THEN @ ELSE @ \cup {<<n, outcome>>}]

Record(w, s, outcome) ==
    LET m == held[w].claim.msg
        n == held[w].claim.attempts + 1
    IN /\ status' = [status EXCEPT ![m] = s]
       /\ attempts' = [attempts EXCEPT ![m] = n]
       /\ Logged(m, n, outcome)
       /\ due' = [due EXCEPT ![m] = @ /\ s # "QUEUED"]
       /\ held' = [held EXCEPT ![w] = NoClaim]
       /\ UNCHANGED <<erased, batch, countVars, erasureVars>>

\* Mutation of Final: one attempt too many.
FinalLate(h) == \/ h.outcome = "PERMANENT_FAILURE"
                \/ h.claim.attempts + 1 > MaxAttempts

Final(h) == \/ h.outcome = "PERMANENT_FAILURE"
            \/ h.claim.attempts + 1 >= MaxAttempts

RecordSent(w) ==
    /\ held[w] # NoClaim
    /\ held[w].outcome = "SENT"
    /\ Record(w, "SENT", "SENT")

RecordFailure(w) ==
    /\ held[w] # NoClaim
    /\ held[w].outcome # "SENT"
    /\ Record(w, IF Final(held[w]) THEN "FAILED" ELSE "QUEUED", "FAILED")

\* The process dies, or an error ends the sweep: its batch is forgotten.
Abort(w) ==
    /\ batch[w] # {} \/ held[w] # NoClaim
    /\ aborts < MaxAborts
    /\ aborts' = aborts + 1
    /\ batch' = [batch EXCEPT ![w] = {}]
    /\ held' = [held EXCEPT ![w] = NoClaim]
    /\ UNCHANGED <<rowVars, handed, told, retries, erasureVars>>

Elapse(m) ==
    /\ status[m] \in Waiting
    /\ ~due[m]
    /\ due' = [due EXCEPT ![m] = TRUE]
    /\ UNCHANGED <<status, attempts, erased, log, workerVars, countVars, erasureVars>>

\* Mutation of Retry: a message that was sent may be retried.
RetryStopped(m) ==
    /\ status[m] \in Stopped
    /\ retries[m] < MaxRetries
    /\ status' = [status EXCEPT ![m] = "QUEUED"]
    /\ attempts' = [attempts EXCEPT ![m] = 0]
    /\ due' = [due EXCEPT ![m] = TRUE]
    /\ retries' = [retries EXCEPT ![m] = @ + 1]
    /\ crossed' = IF m \in found THEN crossed \cup {m} ELSE crossed
    /\ UNCHANGED <<erased, log, workerVars, handed, told, aborts, found>>

\* operations.service retry()
Retry(m) ==
    /\ status[m] = "FAILED"
    /\ retries[m] < MaxRetries
    /\ status' = [status EXCEPT ![m] = "QUEUED"]
    /\ attempts' = [attempts EXCEPT ![m] = 0]
    /\ due' = [due EXCEPT ![m] = TRUE]
    /\ retries' = [retries EXCEPT ![m] = @ + 1]
    /\ crossed' = IF m \in found THEN crossed \cup {m} ELSE crossed
    /\ UNCHANGED <<erased, log, workerVars, handed, told, aborts, found>>

(***************************************************************************)
(* Retention empties only a message "that has stopped moving", but its     *)
(* statement finds the messages first (doomed) and writes them later (gone)*)
(* by their ids: under READ COMMITTED nobody looks at the status again, so *)
(* that an operator may have put one back meanwhile.  A second sweep that  *)
(* has found the same message writes it over with the same.                *)
(***************************************************************************)
\* Mutation of FindErasable: a message still on its way is found too.
FindMoving(m) ==
    /\ m \in Aged
    /\ status[m] # "NONE"
    /\ ~erased[m]
    /\ found' = found \cup {m}
    /\ UNCHANGED <<rowVars, workerVars, countVars, crossed>>

FindErasable(m) ==
    /\ m \in Aged
    /\ status[m] \in Stopped
    /\ ~erased[m]
    /\ found' = found \cup {m}
    /\ UNCHANGED <<rowVars, workerVars, countVars, crossed>>

Erase(m) ==
    /\ m \in found
    /\ erased' = [erased EXCEPT ![m] = TRUE]
    /\ found' = found \ {m}
    /\ UNCHANGED <<status, attempts, due, log, workerVars, countVars, crossed>>

\* The sweep stops or its statement fails: rolled back, nothing is emptied.
LeaveUnerased(m) ==
    /\ m \in found
    /\ found' = found \ {m}
    /\ UNCHANGED <<rowVars, workerVars, countVars, crossed>>

Retains(m) == FindErasable(m) \/ Erase(m) \/ LeaveUnerased(m)

Sweeps(w) ==
    \/ \E taken \in SUBSET Claimable : Claim(w, taken)
    \/ \E c \in batch[w] : Deliver(w, c)
    \/ RecordSent(w)
    \/ RecordFailure(w)

Next ==
    \/ \E m \in Messages : Enqueue(m) \/ Suppress(m) \/ Elapse(m) \/ Retry(m) \/ Retains(m)
    \/ \E w \in Workers : Sweeps(w) \/ Abort(w)

Spec == Init /\ [][Next]_vars

(***************************************************************************)
(* The queue when the visibility timeout outlasts every sweep: no message  *)
(* becomes due while a live worker still has it.  The defaults (25 messages*)
(* of at most 10 seconds against 300) aim at it; nothing enforces it.      *)
(***************************************************************************)
Carried(w) == {c.msg : c \in batch[w]} \cup
              (IF held[w] = NoClaim THEN {} ELSE {held[w].claim.msg})

TimelyElapse(m) == Elapse(m) /\ \A w \in Workers : m \notin Carried(w)

TimelyNext ==
    \/ \E m \in Messages :
         Enqueue(m) \/ Suppress(m) \/ TimelyElapse(m) \/ Retry(m) \/ Retains(m)
    \/ \E w \in Workers : Sweeps(w) \/ Abort(w)

TimelySpec == Init /\ [][TimelyNext]_vars

\* The scheduler sweeps for ever and the clock does not stop.
Fairness == /\ \A w \in Workers : WF_vars(Sweeps(w))
            /\ \A m \in Messages : WF_vars(Elapse(m))

FairSpec == Spec /\ Fairness

-----------------------------------------------------------------------------
(***************************************************************************)
(* Whatever the timeouts.                                                  *)
(***************************************************************************)

\* A message marked sent reached its recipient.
SentWasTold == \A m \in Messages : status[m] = "SENT" => told[m] > 0

\* A message that is still tried has attempts left: the queue gives up.
WaitingHasAttempts ==
    /\ \A m \in Messages : status[m] \in Waiting => attempts[m] < MaxAttempts
    /\ \A w \in Workers : \A c \in batch[w] : c.attempts < MaxAttempts

\* Whatever the timeouts, an outcome rests on a hand-over and the attempts run out
\* (recordSent, recordFailure, claim).
OutcomesAreEarned == SentWasTold /\ WaitingHasAttempts

\* In the end nothing is waiting any more: every message is sent, given up or
\* was suppressed, whatever the gateways answer, as long as sweeps do not die
\* and operators do not retry for ever.
QueueDrains == <>[](\A m \in Messages : status[m] \notin Waiting)

(***************************************************************************)
(* With a visibility timeout that outlasts the sweep.                      *)
(***************************************************************************)

\* "Two workers never take the same message."
NeverTakenTwice ==
    /\ \A v, w \in Workers : Carried(v) \cap Carried(w) # {} => v = w
    /\ \A w \in Workers :
         /\ \A b, c \in batch[w] : b.msg = c.msg => b = c
         /\ held[w] # NoClaim => \A c \in batch[w] : c.msg # held[w].claim.msg

\* "It gives up": no more hand-overs than attempts, except one for every sweep
\* that died and a new series for every retry an operator asked for.
HandOversBounded ==
    \A m \in Messages : handed[m] <= MaxAttempts * (1 + retries[m]) + aborts

\* notification_delivery_attempt: until an operator retries it, a message has
\* one row for each of its attempts, all failed but the last of a sent one.
AttemptsOnRecord ==
    \A m \in Messages : retries[m] = 0 =>
        log[m] = {<<n, IF status[m] = "SENT" /\ n = attempts[m] THEN "SENT" ELSE "FAILED">> :
                  n \in 1..attempts[m]}

\* The attempts of a message are bounded and on record (claim, recordFailure).
AttemptsAccounted == HandOversBounded /\ AttemptsOnRecord

\* A worker still has a copy of the message that carries its address.
StillAddressed(m) == \E w \in Workers : \E c \in batch[w] : c.msg = m /\ c.address

\* Retention: "only a message that has stopped moving".  A message whose content has
\* been erased is handed to no gateway any more, not even after a retry - but for one an
\* operator put back between retention's finding it and writing it: a worker that
\* claimed it in that moment hands its copy over, once, and no other copy is left.
ErasedIsNeverSent ==
    [][ \A m \in Messages : erased[m] /\ handed'[m] # handed[m] =>
          m \in crossed /\ ~StillAddressed(m)' ]_vars

\* The queue as senders and recipients see it.
Abstract == INSTANCE Mailbox WITH
    state <- [m \in Messages |-> IF status[m] \in Waiting THEN "WAITING" ELSE status[m]],
    told  <- [m \in Messages |-> told[m] > 0]

\* Sent is final and follows telling; nobody is told of a message that has
\* been sent, given up or suppressed.
MailboxSpec == Abstract!Spec
=============================================================================
