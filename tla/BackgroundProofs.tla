--------------------------- MODULE BackgroundProofs --------------------------
(***************************************************************************)
(* Theorems about NotificationQueue, Retention and ConnectionPool, for any *)
(* messages, workers, sweepers, notices, rows and requests, any attempts,  *)
(* batch sizes and size of the pool, and any bounds.                       *)
(***************************************************************************)
EXTENDS MCBackground, Sequences, FiniteSetTheorems, TLAPS

\* A worker that waits for nothing but the record has something to record.
HeldFresh ==
    \A w \in Workers : held[w] # NoClaim =>
        /\ held[w].claim.attempts < MaxAttempts
        /\ held[w].outcome = "SENT" => told[held[w].claim.msg] > 0

Untried == \A m \in Messages : status[m] = "NONE" => attempts[m] = 0

QueueInv == TypeOK /\ WaitingHasAttempts /\ Untried /\ HeldFresh /\ SentWasTold

\* The claims a worker takes are copies of rows.
LEMMA ClaimCopies ==
    ASSUME TypeOK, NEW taken, taken \subseteq Messages
    PROVE  {[msg |-> m, attempts |-> attempts[m], address |-> ~erased[m]] : m \in taken}
             \in SUBSET Claims
<1> SUFFICES ASSUME NEW m \in taken
             PROVE  [msg |-> m, attempts |-> attempts[m], address |-> ~erased[m]] \in Claims
  OBVIOUS
<1>1. m \in Messages /\ attempts[m] \in Nat
  BY QueueAssumption DEF TypeOK
<1>2. (~erased[m]) \in BOOLEAN
  OBVIOUS
<1> QED  BY <1>1, <1>2 DEF Claims

\* What a worker holds has a number of its own in the attempt table.
LEMMA HeldShape ==
    ASSUME QueueInv, NEW w \in Workers, held[w] # NoClaim
    PROVE  /\ held[w] \in Held
           /\ held[w].claim.msg \in Messages
           /\ held[w].claim.attempts \in Nat
           /\ held[w].claim.attempts + 1 \in 1..MaxAttempts
           /\ held[w].outcome \in Outcomes
BY QueueAssumption DEF QueueInv, TypeOK, HeldFresh, Held, Claims

LEMMA QueueInit == Init => QueueInv
<1> SUFFICES ASSUME Init PROVE QueueInv
  OBVIOUS
<1> USE QueueAssumption
<1>1. TypeOK
  BY DEF Init, TypeOK, Statuses
<1>2. WaitingHasAttempts /\ Untried /\ HeldFresh /\ SentWasTold
  BY DEF Init, WaitingHasAttempts, Untried, HeldFresh, SentWasTold, Waiting
<1> QED  BY <1>1, <1>2 DEF QueueInv

-----------------------------------------------------------------------------

LEMMA ClaimStep ==
    ASSUME QueueInv, NEW w \in Workers, NEW taken, Claim(w, taken)
    PROVE  QueueInv'
<1> USE QueueAssumption DEF QueueInv
<1>1. taken \subseteq Messages /\ \A m \in taken : status[m] \in Waiting
  BY DEF Claim, Claimable
<1>2. batch' \in [Workers -> SUBSET Claims]
  BY <1>1, ClaimCopies DEF Claim, TypeOK
<1>3. TypeOK'
  BY <1>1, <1>2 DEF Claim, TypeOK, Statuses, countVars, erasureVars
<1>4. WaitingHasAttempts'
  <2>1. \A m \in Messages : status'[m] \in Waiting => attempts'[m] < MaxAttempts
    BY <1>1 DEF Claim, WaitingHasAttempts, TypeOK
  <2>2. ASSUME NEW v \in Workers, NEW c \in batch'[v] PROVE c.attempts < MaxAttempts
    <3>1. CASE v # w
      BY <3>1, <2>2 DEF Claim, WaitingHasAttempts, TypeOK
    <3>2. CASE v = w
      <4>1. PICK m \in taken : c = [msg |-> m, attempts |-> attempts[m], address |-> ~erased[m]]
        BY <3>2, <2>2 DEF Claim, TypeOK
      <4> QED  BY <4>1, <1>1 DEF WaitingHasAttempts
    <3> QED  BY <3>1, <3>2
  <2> QED  BY <2>1, <2>2 DEF WaitingHasAttempts
<1>5. HeldFresh'
  BY DEF Claim, HeldFresh, countVars
<1>6. SentWasTold' /\ Untried'
  BY <1>1 DEF Claim, SentWasTold, Untried, countVars, TypeOK
<1> QED  BY <1>3, <1>4, <1>5, <1>6

\* The three ways of delivering differ in what they count.
LEMMA DeliverKinds ==
    ASSUME QueueInv, NEW w \in Workers, NEW c \in batch[w], Deliver(w, c)
    PROVE  /\ c \in Claims /\ c.msg \in Messages
           /\ \E o \in Outcomes : /\ Answered(w, c, o)
                                  /\ o = "SENT" => told'[c.msg] > 0
           /\ told' \in [Messages -> Nat] /\ handed' \in [Messages -> Nat]
           /\ \A m \in Messages : told'[m] >= told[m]
           /\ \A m \in Messages : m # c.msg => told'[m] = told[m]
<1>1. c \in Claims /\ c.msg \in Messages
  BY DEF QueueInv, TypeOK, Claims
<1>t. told \in [Messages -> Nat] /\ handed \in [Messages -> Nat]
  BY DEF QueueInv, TypeOK
<1>2. CASE DeliverInside(w, c)
  BY <1>1, <1>2, <1>t DEF DeliverInside, Outcomes
<1>3. CASE RefuseUnaddressed(w, c)
  BY <1>1, <1>3, <1>t DEF RefuseUnaddressed, Outcomes
<1>4. CASE \E o \in Outcomes, received \in BOOLEAN : HandOver(w, c, o, received)
  <2>1. PICK o \in Outcomes, received \in BOOLEAN : HandOver(w, c, o, received)
    BY <1>4
  <2>2. /\ Answered(w, c, o)
        /\ o = "SENT" => received
        /\ handed' = [handed EXCEPT ![c.msg] = @ + 1]
        /\ told' = [told EXCEPT ![c.msg] = IF received THEN @ + 1 ELSE @]
    BY <2>1 DEF HandOver
  <2>3. /\ handed' \in [Messages -> Nat] /\ told' \in [Messages -> Nat]
        /\ \A m \in Messages : told'[m] >= told[m]
        /\ \A m \in Messages : m # c.msg => told'[m] = told[m]
        /\ o = "SENT" => told'[c.msg] > 0
    BY <1>1, <1>t, <2>2
  <2> QED  BY <1>1, <2>2, <2>3
<1> QED  BY <1>2, <1>3, <1>4 DEF Deliver

LEMMA DeliverStep ==
    ASSUME QueueInv, NEW w \in Workers, NEW c \in batch[w], Deliver(w, c)
    PROVE  QueueInv'
<1> USE QueueAssumption DEF QueueInv
<1>1. PICK o \in Outcomes : Answered(w, c, o) /\ (o = "SENT" => told'[c.msg] > 0)
  BY DeliverKinds
<1>2. /\ c \in Claims /\ c.msg \in Messages
      /\ told' \in [Messages -> Nat] /\ handed' \in [Messages -> Nat]
      /\ \A m \in Messages : told'[m] >= told[m]
  BY DeliverKinds
<1>3. /\ UNCHANGED <<status, attempts, due, erased, log, aborts, retries, found, crossed>>
      /\ batch' = [batch EXCEPT ![w] = @ \ {c}]
      /\ held' = [held EXCEPT ![w] = [claim |-> c, outcome |-> o]]
  BY <1>1 DEF Answered, rowVars, erasureVars
<1>4. [claim |-> c, outcome |-> o] \in Held
  BY <1>2 DEF Held
<1>5. TypeOK'
  BY <1>2, <1>3, <1>4 DEF TypeOK
<1>6. WaitingHasAttempts'
  BY <1>3 DEF WaitingHasAttempts, TypeOK
<1>7. HeldFresh'
  <2> SUFFICES ASSUME NEW v \in Workers, held'[v] # NoClaim
               PROVE  /\ held'[v].claim.attempts < MaxAttempts
                      /\ held'[v].outcome = "SENT" => told'[held'[v].claim.msg] > 0
    BY DEF HeldFresh
  <2>1. CASE v = w
    BY <2>1, <1>1, <1>3 DEF WaitingHasAttempts, TypeOK
  <2>2. CASE v # w
    <3>1. held'[v] = held[v] /\ held[v].claim.msg \in Messages
      BY <2>2, <1>3, HeldShape DEF TypeOK
    <3>2. told[held[v].claim.msg] \in Nat
      BY <3>1 DEF TypeOK
    <3> QED  BY <3>1, <3>2, <1>2 DEF HeldFresh
  <2> QED  BY <2>1, <2>2
<1>8. SentWasTold' /\ Untried'
  BY <1>2, <1>3 DEF SentWasTold, Untried, TypeOK
<1> QED  BY <1>5, <1>6, <1>7, <1>8

LEMMA RecordStep ==
    ASSUME QueueInv, NEW w \in Workers, RecordSent(w) \/ RecordFailure(w)
    PROVE  QueueInv'
<1> USE QueueAssumption DEF QueueInv
<1> DEFINE m == held[w].claim.msg
           n == held[w].claim.attempts + 1
<1>1. held[w] # NoClaim
  BY DEF RecordSent, RecordFailure
<1>2. m \in Messages /\ n \in 1..MaxAttempts
  BY <1>1, HeldShape
\* What is written.
<1>3. \E s \in {"SENT", "FAILED", "QUEUED"}, outcome \in {"SENT", "FAILED"} :
        /\ Record(w, s, outcome)
        /\ s = "SENT" => told[m] > 0
        /\ s = "QUEUED" => n < MaxAttempts
  <2>1. CASE RecordSent(w)
    BY <2>1, <1>1 DEF RecordSent, HeldFresh
  <2>2. CASE RecordFailure(w)
    <3>1. ~Final(held[w]) => n < MaxAttempts
      BY <1>2 DEF Final
    <3> QED  BY <2>2, <3>1 DEF RecordFailure
  <2> QED  BY <2>1, <2>2
<1>4. PICK s \in {"SENT", "FAILED", "QUEUED"}, outcome \in {"SENT", "FAILED"} :
        /\ Record(w, s, outcome)
        /\ s = "SENT" => told[m] > 0
        /\ s = "QUEUED" => n < MaxAttempts
  BY <1>3
<1>5. /\ status' = [status EXCEPT ![m] = s]
      /\ attempts' = [attempts EXCEPT ![m] = n]
      /\ log' = [log EXCEPT ![m] = IF n \in Numbered(@) THEN @ ELSE @ \cup {<<n, outcome>>}]
      /\ due' = [due EXCEPT ![m] = @ /\ s # "QUEUED"]
      /\ held' = [held EXCEPT ![w] = NoClaim]
      /\ UNCHANGED <<erased, batch, handed, told, aborts, retries, found, crossed>>
  BY <1>4 DEF Record, Logged, countVars, erasureVars
<1> HIDE DEF m, n
<1>6. TypeOK'
  <2>1. /\ status' \in [Messages -> Statuses] /\ attempts' \in [Messages -> 0..MaxAttempts]
        /\ held' \in [Workers -> Held \cup {NoClaim}]
    BY <1>2, <1>5 DEF TypeOK, Statuses
  <2>2. log' \in [Messages -> SUBSET ((1..MaxAttempts) \X {"SENT", "FAILED"})]
    <3>1. <<n, outcome>> \in (1..MaxAttempts) \X {"SENT", "FAILED"}
      BY <1>2
    <3> QED  BY <1>2, <1>5, <3>1 DEF TypeOK
  <2>3. due' \in [Messages -> BOOLEAN]
    <3>1. (due[m] /\ s # "QUEUED") \in BOOLEAN
      OBVIOUS
    <3> QED  BY <1>2, <1>5, <3>1 DEF TypeOK
  <2> QED  BY <2>1, <2>2, <2>3, <1>5 DEF TypeOK
<1>7. WaitingHasAttempts'
  BY <1>2, <1>4, <1>5 DEF WaitingHasAttempts, TypeOK, Waiting
<1>8. HeldFresh'
  BY <1>5 DEF HeldFresh, TypeOK
<1>9. SentWasTold' /\ Untried'
  BY <1>2, <1>4, <1>5 DEF SentWasTold, Untried, TypeOK, m
<1> QED  BY <1>6, <1>7, <1>8, <1>9

\* Retention's steps touch nothing but what it has found and what it empties.
LEMMA RetainsEffect ==
    ASSUME TypeOK, NEW m \in Messages, Retains(m)
    PROVE  /\ UNCHANGED <<status, attempts, due, log, batch, held, handed, told, aborts,
                          retries, crossed>>
           /\ erased' \in [Messages -> BOOLEAN] /\ found' \subseteq Messages
           /\ \A x \in Messages : erased'[x] # erased[x] => x \in found
           /\ \A x \in found' \ found : status[x] \in Stopped
<1>1. CASE FindErasable(m) \/ LeaveUnerased(m)
  BY <1>1 DEF FindErasable, LeaveUnerased, rowVars, workerVars, countVars, TypeOK
<1>2. CASE Erase(m)
  BY <1>2 DEF Erase, workerVars, countVars, TypeOK
<1> QED  BY <1>1, <1>2 DEF Retains

\* The steps that are not a worker's, and a sweep that dies.
LEMMA OtherStep ==
    ASSUME QueueInv,
           \/ \E m \in Messages : Enqueue(m) \/ Suppress(m) \/ Elapse(m) \/ Retry(m) \/ Retains(m)
           \/ \E w \in Workers : Abort(w)
    PROVE  QueueInv'
<1> USE QueueAssumption DEF QueueInv
<1>1. ASSUME NEW w \in Workers, Abort(w) PROVE QueueInv'
  <2>1. TypeOK'
    BY <1>1 DEF Abort, TypeOK, rowVars, erasureVars
  <2>2. WaitingHasAttempts' /\ Untried' /\ HeldFresh' /\ SentWasTold'
    BY <1>1 DEF Abort, rowVars, WaitingHasAttempts, Untried, HeldFresh, SentWasTold, TypeOK
  <2> QED  BY <2>1, <2>2
<1>2. ASSUME NEW m \in Messages, Enqueue(m) \/ Suppress(m) \/ Elapse(m) \/ Retry(m) \/ Retains(m)
      PROVE  QueueInv'
  <2>1. UNCHANGED <<batch, held, handed, told, log, aborts>>
    BY <1>2, RetainsEffect DEF Enqueue, Suppress, Elapse, Retry, workerVars, countVars
  <2>2. TypeOK'
    <3>1. CASE Enqueue(m)
      BY <3>1 DEF Enqueue, TypeOK, Statuses, workerVars, countVars, erasureVars
    <3>2. CASE Suppress(m)
      BY <3>2 DEF Suppress, TypeOK, Statuses, workerVars, countVars, erasureVars
    <3>3. CASE Elapse(m)
      BY <3>3 DEF Elapse, TypeOK, workerVars, countVars, erasureVars
    <3>4. CASE Retry(m)
      <4>1. retries[m] + 1 \in 0..MaxRetries
        <5>1. retries[m] \in 0..MaxRetries /\ retries[m] < MaxRetries
          BY <3>4 DEF Retry, TypeOK
        <5> QED  BY <5>1
      <4>2. /\ UNCHANGED <<erased, log, batch, held, handed, told, aborts>>
            /\ status' = [status EXCEPT ![m] = "QUEUED"]
            /\ attempts' = [attempts EXCEPT ![m] = 0]
            /\ due' = [due EXCEPT ![m] = TRUE]
            /\ retries' = [retries EXCEPT ![m] = retries[m] + 1]
            /\ found' = found /\ crossed' \subseteq crossed \cup {m}
        BY <3>4 DEF Retry, workerVars
      <4> QED  BY <4>1, <4>2 DEF TypeOK, Statuses
    <3>5. CASE Retains(m)
      BY <3>5, RetainsEffect DEF TypeOK
    <3> QED  BY <1>2, <3>1, <3>2, <3>3, <3>4, <3>5
  <2>3. WaitingHasAttempts'
    <3>1. CASE Enqueue(m)
      BY <3>1, <2>1 DEF Enqueue, WaitingHasAttempts, Untried, TypeOK, Waiting
    <3>2. CASE ~Enqueue(m)
      BY <3>2, <1>2, <2>1, RetainsEffect DEF Suppress, Elapse, Retry, WaitingHasAttempts, TypeOK, Waiting
    <3> QED  BY <3>1, <3>2
  <2>4. HeldFresh'
    BY <2>1 DEF HeldFresh
  <2>5. SentWasTold' /\ Untried'
    BY <1>2, <2>1, RetainsEffect DEF Enqueue, Suppress, Elapse, Retry, SentWasTold, Untried, TypeOK
  <2> QED  BY <2>2, <2>3, <2>4, <2>5
<1> QED  BY <1>1, <1>2

LEMMA QueueStep == QueueInv /\ [Next]_vars => QueueInv'
<1> SUFFICES ASSUME QueueInv, [Next]_vars PROVE QueueInv'
  OBVIOUS
<1>1. ASSUME NEW w \in Workers, Sweeps(w) PROVE QueueInv'
  BY <1>1, ClaimStep, DeliverStep, RecordStep DEF Sweeps
<1>2. CASE UNCHANGED vars
  BY <1>2 DEF vars, rowVars, workerVars, countVars, erasureVars, QueueInv, TypeOK, WaitingHasAttempts,
              Untried, HeldFresh, SentWasTold
<1> QED  BY <1>1, <1>2, OtherStep DEF Next

\* TypeOK of NotificationQueue.
THEOREM TypeCorrect == Spec => []TypeOK
<1>1. QueueInv => TypeOK
  BY DEF QueueInv
<1> QED  BY <1>1, QueueInit, QueueStep, PTL DEF Spec

\* However stale the claims, a message marked sent reached its recipient.
THEOREM SentReachedRecipient == Spec => []SentWasTold
<1>1. QueueInv => SentWasTold
  BY DEF QueueInv
<1> QED  BY <1>1, QueueInit, QueueStep, PTL DEF Spec

\* However stale the claims, no message is tried beyond its attempts.
THEOREM AttemptsRunOut == Spec => []WaitingHasAttempts
<1>1. QueueInv => WaitingHasAttempts
  BY DEF QueueInv
<1> QED  BY <1>1, QueueInit, QueueStep, PTL DEF Spec

\* OutcomesAreEarned of NotificationQueue: both of them.
THEOREM QueueKeepsAccount == Spec => []OutcomesAreEarned
BY SentReachedRecipient, AttemptsRunOut, PTL DEF OutcomesAreEarned

-----------------------------------------------------------------------------
(***************************************************************************)
(* With a visibility timeout that outlasts the sweep, a claim is the row:  *)
(* nobody else has it, and the row does not move until it is recorded.     *)
(***************************************************************************)
ClaimsOf(w) == batch[w] \cup (IF held[w] = NoClaim THEN {} ELSE {held[w].claim})

Mirrors(c) == /\ status[c.msg] = "SENDING"
              /\ ~due[c.msg]
              /\ c.attempts = attempts[c.msg]
              /\ c.address /\ erased[c.msg] => c.msg \in crossed

Mine == \A w \in Workers : \A c \in ClaimsOf(w) : Mirrors(c)

Exclusive ==
    /\ \A v, w \in Workers : \A b \in ClaimsOf(v), c \in ClaimsOf(w) :
         b.msg = c.msg => v = w /\ b = c
    /\ \A w \in Workers : held[w] # NoClaim => held[w].claim \notin batch[w]

\* What retention has found and not yet emptied has stopped moving, or was put back.
FoundStopped == \A m \in found : status[m] \in Stopped \/ m \in crossed

TimelyInv == QueueInv /\ Mine /\ Exclusive /\ FoundStopped

LEMMA ClaimTypes ==
    ASSUME QueueInv, NEW w \in Workers, NEW c \in ClaimsOf(w)
    PROVE  c \in Claims /\ c.msg \in Messages
<1>1. CASE c \in batch[w]
  BY <1>1 DEF QueueInv, TypeOK, Claims
<1>2. CASE held[w] # NoClaim /\ c = held[w].claim
  BY <1>2 DEF QueueInv, TypeOK, Held, Claims
<1> QED  BY <1>1, <1>2 DEF ClaimsOf

LEMMA TimelyInit == Init => TimelyInv
<1> SUFFICES ASSUME Init PROVE TimelyInv
  OBVIOUS
<1>1. \A w \in Workers : ClaimsOf(w) = {}
  BY DEF Init, ClaimsOf
<1> QED  BY <1>1, QueueInit DEF TimelyInv, Mine, Exclusive, FoundStopped, Init

\* A claim takes only what nobody carries.
LEMMA TimelyClaim ==
    ASSUME TimelyInv, NEW w \in Workers, NEW taken, Claim(w, taken)
    PROVE  Mine' /\ Exclusive'
<1> DEFINE Copy(m) == [msg |-> m, attempts |-> attempts[m], address |-> ~erased[m]]
<1>t. /\ status \in [Messages -> Statuses] /\ due \in [Messages -> BOOLEAN]
      /\ batch \in [Workers -> SUBSET Claims]
      /\ QueueInv
  BY DEF TimelyInv, QueueInv, TypeOK
<1>1. /\ taken \subseteq Messages /\ \A m \in taken : due[m]
      /\ status' = [m \in Messages |-> IF m \in taken THEN "SENDING" ELSE status[m]]
      /\ due' = [m \in Messages |-> due[m] /\ m \notin taken]
      /\ batch' = [batch EXCEPT ![w] = {Copy(m) : m \in taken}]
      /\ UNCHANGED <<attempts, erased, held, crossed>>
      /\ batch[w] = {} /\ held[w] = NoClaim
  BY DEF Claim, Claimable, erasureVars
<1>2. \A v \in Workers : \A c \in ClaimsOf(v) :
        c.msg \in Messages /\ c.msg \notin taken /\ Mirrors(c)
  BY <1>1, <1>t, ClaimTypes DEF TimelyInv, Mine, Mirrors
<1>3. \A v \in Workers : v # w => ClaimsOf(v)' = ClaimsOf(v)
  BY <1>1, <1>t DEF ClaimsOf
<1>4. ClaimsOf(w)' = {Copy(m) : m \in taken}
  BY <1>1, <1>t DEF ClaimsOf
<1>5. \A m \in taken : /\ Copy(m).msg = m /\ Copy(m).attempts = attempts[m]
                       /\ Copy(m).address <=> ~erased[m]
  OBVIOUS
<1> HIDE DEF Copy
<1>6. Mine'
  <2>1. ASSUME NEW v \in Workers, v # w, NEW c \in ClaimsOf(v)' PROVE Mirrors(c)'
    BY <2>1, <1>1, <1>2, <1>3 DEF Mirrors
  <2>2. ASSUME NEW c \in ClaimsOf(w)' PROVE Mirrors(c)'
    <3>1. PICK m \in taken : c = Copy(m)
      BY <1>4, <2>2
    <3>2. c.msg = m /\ c.attempts = attempts[m]
      BY <3>1, <1>5
    <3>3. c.address <=> ~erased[m]
      BY <3>1, <1>5
    <3>4. m \in Messages /\ status'[m] = "SENDING" /\ ~due'[m]
      BY <1>1
    <3>5. attempts'[m] = attempts[m] /\ erased'[m] = erased[m] /\ crossed' = crossed
      BY <1>1
    <3> QED  BY <3>2, <3>3, <3>4, <3>5 DEF Mirrors
  <2> QED  BY <2>1, <2>2 DEF Mine
<1>7. Exclusive'
  <2>1. ASSUME NEW u \in Workers, NEW v \in Workers,
               NEW b \in ClaimsOf(u)', NEW c \in ClaimsOf(v)', b.msg = c.msg
        PROVE  u = v /\ b = c
    <3>1. CASE u # w /\ v # w
      BY <3>1, <2>1, <1>3 DEF TimelyInv, Exclusive
    <3>2. CASE u = w /\ v = w
      BY <3>2, <2>1, <1>4, <1>5
    <3>3. CASE (u = w /\ v # w) \/ (u # w /\ v = w)
      BY <3>3, <2>1, <1>2, <1>3, <1>4, <1>5
    <3> QED  BY <3>1, <3>2, <3>3
  <2>2. ASSUME NEW v \in Workers, held'[v] # NoClaim PROVE held'[v].claim \notin batch'[v]
    BY <2>2, <1>1, <1>t DEF TimelyInv, Exclusive
  <2> QED  BY <2>1, <2>2 DEF Exclusive
<1> QED  BY <1>6, <1>7

\* Handing over moves a claim from the batch to the hand.
LEMMA TimelyDeliver ==
    ASSUME TimelyInv, NEW w \in Workers, NEW c \in batch[w], Deliver(w, c)
    PROVE  Mine' /\ Exclusive'
<1>1. PICK o \in Outcomes : Answered(w, c, o)
  BY DeliverKinds DEF TimelyInv
<1>2. /\ UNCHANGED <<status, attempts, due, erased, crossed>>
      /\ batch' = [batch EXCEPT ![w] = @ \ {c}]
      /\ held' = [held EXCEPT ![w] = [claim |-> c, outcome |-> o]]
      /\ held[w] = NoClaim
      /\ c \in Claims
  BY <1>1, DeliverKinds DEF Answered, rowVars, erasureVars, TimelyInv
<1>3. [claim |-> c, outcome |-> o] # NoClaim
  BY <1>2, QueueAssumption DEF Held
<1>4. \A v \in Workers : ClaimsOf(v)' = ClaimsOf(v)
  BY <1>2, <1>3 DEF ClaimsOf, TimelyInv, QueueInv, TypeOK
<1>5. Mine'
  BY <1>2, <1>4 DEF Mine, Mirrors, TimelyInv
<1>6. Exclusive'
  <2>1. \A v \in Workers : held'[v] # NoClaim => held'[v].claim \notin batch'[v]
    BY <1>2 DEF Exclusive, TimelyInv, QueueInv, TypeOK
  <2> QED  BY <1>4, <2>1 DEF Exclusive, TimelyInv
<1> QED  BY <1>5, <1>6

\* What changes only rows nobody carries disturbs no claim.
LEMMA TimelyRows ==
    ASSUME TimelyInv, NEW m \in Messages,
           \A v \in Workers : ClaimsOf(v)' \subseteq ClaimsOf(v),
           \A v \in Workers : \A c \in ClaimsOf(v)' : c.msg # m,
           \A x \in Messages : x # m => /\ status'[x] = status[x] /\ due'[x] = due[x]
                                        /\ attempts'[x] = attempts[x] /\ erased'[x] = erased[x],
           \A v \in Workers : held'[v] # NoClaim => held'[v].claim \notin batch'[v],
           crossed \subseteq crossed'
    PROVE  Mine' /\ Exclusive'
<1>1. Mine'
  <2> SUFFICES ASSUME NEW v \in Workers, NEW c \in ClaimsOf(v)' PROVE Mirrors(c)'
    BY DEF Mine
  <2>1. c \in ClaimsOf(v) /\ c.msg \in Messages /\ c.msg # m
    BY ClaimTypes DEF TimelyInv
  <2>2. Mirrors(c)
    BY <2>1 DEF TimelyInv, Mine
  <2> QED  BY <2>1, <2>2 DEF Mirrors
<1>2. Exclusive'
  BY DEF TimelyInv, Exclusive
<1> QED  BY <1>1, <1>2

LEMMA TimelyRecord ==
    ASSUME TimelyInv, NEW w \in Workers, RecordSent(w) \/ RecordFailure(w)
    PROVE  Mine' /\ Exclusive'
<1> DEFINE m == held[w].claim.msg
<1>1. held[w] # NoClaim /\ \E s, outcome : Record(w, s, outcome)
  BY DEF RecordSent, RecordFailure
<1>2. /\ batch' = batch /\ erased' = erased /\ crossed' = crossed
      /\ held' = [held EXCEPT ![w] = NoClaim]
      /\ \A x \in Messages : x # m => /\ status'[x] = status[x] /\ due'[x] = due[x]
                                      /\ attempts'[x] = attempts[x]
  BY <1>1 DEF Record, erasureVars, TimelyInv, QueueInv, TypeOK
<1>t. /\ held \in [Workers -> Held \cup {NoClaim}]
      /\ m \in Messages
      /\ held[w].claim \in ClaimsOf(w)
  BY <1>1, HeldShape DEF TimelyInv, QueueInv, TypeOK, ClaimsOf
<1>3. \A v \in Workers : ClaimsOf(v)' \subseteq ClaimsOf(v)
  BY <1>2, <1>t DEF ClaimsOf
<1>4. ASSUME NEW v \in Workers, NEW c \in ClaimsOf(v)' PROVE c.msg # m
  <2>1. c \in ClaimsOf(v)
    BY <1>3
  <2>2. CASE v # w
    BY <2>1, <2>2, <1>t DEF TimelyInv, Exclusive
  <2>3. CASE v = w
    <3>1. c \in batch[w]
      BY <2>3, <1>2, <1>t DEF ClaimsOf
    <3>2. c # held[w].claim
      BY <3>1, <1>1 DEF TimelyInv, Exclusive
    <3> QED  BY <3>2, <2>1, <2>3, <1>t DEF TimelyInv, Exclusive
  <2> QED  BY <2>2, <2>3
<1>5. \A v \in Workers : held'[v] # NoClaim => held'[v].claim \notin batch'[v]
  BY <1>2, <1>t DEF TimelyInv, Exclusive
<1> HIDE DEF m
<1> QED  BY <1>2, <1>t, <1>3, <1>4, <1>5, TimelyRows

LEMMA TimelyOther ==
    ASSUME TimelyInv, NEW m \in Messages,
           Enqueue(m) \/ Suppress(m) \/ TimelyElapse(m) \/ Retry(m)
    PROVE  Mine' /\ Exclusive'
<1>1. /\ UNCHANGED <<batch, held>> /\ crossed \subseteq crossed'
      /\ \A x \in Messages : x # m => /\ status'[x] = status[x] /\ due'[x] = due[x]
                                      /\ attempts'[x] = attempts[x] /\ erased'[x] = erased[x]
      /\ status[m] # "SENDING" \/ \A w \in Workers : m \notin Carried(w)
  BY DEF Enqueue, Suppress, TimelyElapse, Elapse, Retry, workerVars, erasureVars,
         Waiting, TimelyInv, QueueInv, TypeOK
<1>2. \A v \in Workers : ClaimsOf(v)' = ClaimsOf(v)
  BY <1>1 DEF ClaimsOf
<1>3. ASSUME NEW v \in Workers, NEW c \in ClaimsOf(v)', c.msg = m PROVE FALSE
  <2>1. c \in ClaimsOf(v) /\ status[m] = "SENDING"
    BY <1>2, <1>3 DEF TimelyInv, Mine, Mirrors
  <2>2. c.msg \in Carried(v)
    BY <2>1 DEF ClaimsOf, Carried
  <2> QED  BY <2>1, <2>2, <1>1, <1>3
<1> QED  BY <1>1, <1>2, <1>3, TimelyRows DEF TimelyInv, Exclusive

\* What retention finds nobody carries; what was put back since, somebody may.
LEMMA TimelyRetains ==
    ASSUME TimelyInv, NEW m \in Messages, Retains(m)
    PROVE  Mine' /\ Exclusive'
<1>1. /\ UNCHANGED <<status, attempts, due, batch, held, crossed>>
      /\ \A x \in Messages : erased'[x] # erased[x] => x \in found
  BY RetainsEffect DEF TimelyInv, QueueInv, TypeOK
<1>2. \A v \in Workers : ClaimsOf(v)' = ClaimsOf(v)
  BY <1>1 DEF ClaimsOf
<1>3. ASSUME NEW v \in Workers, NEW c \in ClaimsOf(v) PROVE Mirrors(c)'
  <2>1. Mirrors(c) /\ c.msg \in Messages
    BY ClaimTypes DEF TimelyInv, Mine
  <2>2. c.msg \in found => c.msg \in crossed
    BY <2>1 DEF TimelyInv, FoundStopped, Mirrors, Stopped
  <2> QED  BY <2>1, <2>2, <1>1 DEF Mirrors
<1> QED  BY <1>1, <1>2, <1>3 DEF Mine, Exclusive, TimelyInv

\* A message leaves rest by Retry only, which notes that retention had found it.
LEMMA FoundStep ==
    ASSUME TimelyInv, TimelyNext
    PROVE  FoundStopped'
<1>t. status \in [Messages -> Statuses] /\ found \subseteq Messages
  BY DEF TimelyInv, QueueInv, TypeOK
<1>1. ASSUME UNCHANGED <<found, crossed>>,
             \A m \in Messages : status[m] \in Stopped => status'[m] = status[m]
      PROVE  FoundStopped'
  BY <1>1, <1>t DEF FoundStopped, TimelyInv
<1>2. ASSUME NEW w \in Workers, Sweeps(w) PROVE FoundStopped'
  <2>1. ASSUME NEW taken \in SUBSET Claimable, Claim(w, taken) PROVE FoundStopped'
    BY <2>1, <1>1, <1>t DEF Claim, Claimable, Waiting, Stopped, erasureVars
  <2>2. ASSUME NEW c \in batch[w], Deliver(w, c) PROVE FoundStopped'
    <3>1. \E o \in Outcomes : Answered(w, c, o)
      BY <2>2, DeliverKinds DEF TimelyInv
    <3> QED  BY <3>1, <1>1 DEF Answered, rowVars, erasureVars
  <2>3. CASE RecordSent(w) \/ RecordFailure(w)
    <3>1. held[w] # NoClaim /\ \E s, outcome : Record(w, s, outcome)
      BY <2>3 DEF RecordSent, RecordFailure
    <3>2. held[w].claim.msg \in Messages /\ status[held[w].claim.msg] = "SENDING"
      BY <3>1, HeldShape DEF TimelyInv, Mine, Mirrors, ClaimsOf
    <3> QED  BY <3>1, <3>2, <1>1, <1>t DEF Record, Stopped, erasureVars
  <2> QED  BY <1>2, <2>1, <2>2, <2>3 DEF Sweeps
<1>3. ASSUME NEW w \in Workers, Abort(w) PROVE FoundStopped'
  BY <1>3, <1>1 DEF Abort, rowVars, erasureVars
<1>4. ASSUME NEW m \in Messages, Enqueue(m) \/ Suppress(m) \/ TimelyElapse(m)
      PROVE  FoundStopped'
  BY <1>4, <1>1, <1>t DEF Enqueue, Suppress, TimelyElapse, Elapse, Stopped, erasureVars
<1>5. ASSUME NEW m \in Messages, Retry(m) PROVE FoundStopped'
  BY <1>5, <1>t DEF Retry, FoundStopped, TimelyInv
<1>6. ASSUME NEW m \in Messages, Retains(m) PROVE FoundStopped'
  BY <1>6, <1>t, RetainsEffect DEF FoundStopped, TimelyInv, QueueInv
<1> QED  BY <1>2, <1>3, <1>4, <1>5, <1>6 DEF TimelyNext

LEMMA TimelyAbort ==
    ASSUME TimelyInv, NEW w \in Workers, Abort(w)
    PROVE  Mine' /\ Exclusive'
<1>1. /\ UNCHANGED <<status, due, attempts, erased, crossed>>
      /\ batch' = [batch EXCEPT ![w] = {}]
      /\ held' = [held EXCEPT ![w] = NoClaim]
  BY DEF Abort, rowVars, erasureVars
<1>2. \A v \in Workers : v # w => ClaimsOf(v)' = ClaimsOf(v)
  BY <1>1 DEF ClaimsOf, TimelyInv, QueueInv, TypeOK
<1>3. ClaimsOf(w)' = {}
  BY <1>1 DEF ClaimsOf, TimelyInv, QueueInv, TypeOK
<1>4. Mine'
  BY <1>1, <1>2, <1>3 DEF Mine, Mirrors, TimelyInv
<1>5. \A v \in Workers : held'[v] # NoClaim => held'[v].claim \notin batch'[v]
  BY <1>1 DEF TimelyInv, Exclusive, QueueInv, TypeOK
<1>6. Exclusive'
  BY <1>2, <1>3, <1>5 DEF Exclusive, TimelyInv
<1> QED  BY <1>4, <1>6

LEMMA TimelyIsNext == TimelyNext => Next
  BY DEF TimelyNext, Next, TimelyElapse

LEMMA TimelyStep == TimelyInv /\ [TimelyNext]_vars => TimelyInv'
<1> SUFFICES ASSUME TimelyInv, [TimelyNext]_vars PROVE TimelyInv'
  OBVIOUS
<1>1. QueueInv'
  BY QueueStep, TimelyIsNext DEF TimelyInv
<1>2. ASSUME NEW w \in Workers, Sweeps(w) PROVE Mine' /\ Exclusive'
  BY <1>2, TimelyClaim, TimelyDeliver, TimelyRecord DEF Sweeps
<1>3. CASE UNCHANGED vars
  <2>1. \A v \in Workers : ClaimsOf(v)' = ClaimsOf(v)
    BY <1>3 DEF vars, workerVars, ClaimsOf
  <2>2. UNCHANGED <<status, due, attempts, erased, batch, held, crossed>>
    BY <1>3 DEF vars, rowVars, workerVars, erasureVars
  <2>3. FoundStopped'
    BY <1>3 DEF vars, rowVars, erasureVars, TimelyInv, FoundStopped
  <2> QED  BY <1>1, <2>1, <2>2, <2>3 DEF TimelyInv, Mine, Mirrors, Exclusive
<1> QED  BY <1>1, <1>2, <1>3, TimelyOther, TimelyRetains, TimelyAbort, FoundStep
         DEF TimelyInv, TimelyNext

\* NeverTakenTwice: provided the visibility timeout outlasts every sweep, two
\* workers never carry the same message, and no worker carries it twice.
THEOREM TakenOnce == TimelySpec => []NeverTakenTwice
<1>1. TimelyInv => NeverTakenTwice
  <2> SUFFICES ASSUME TimelyInv PROVE NeverTakenTwice
    OBVIOUS
  <2>1. \A w \in Workers : Carried(w) = {c.msg : c \in ClaimsOf(w)}
    BY DEF Carried, ClaimsOf
  <2>2. \A v, w \in Workers : Carried(v) \cap Carried(w) # {} => v = w
    BY <2>1 DEF TimelyInv, Exclusive
  <2>3. ASSUME NEW w \in Workers
        PROVE  /\ \A b, c \in batch[w] : b.msg = c.msg => b = c
               /\ held[w] # NoClaim => \A c \in batch[w] : c.msg # held[w].claim.msg
    <3>1. batch[w] \subseteq ClaimsOf(w)
      BY DEF ClaimsOf
    <3>2. held[w] # NoClaim => held[w].claim \in ClaimsOf(w) /\ held[w].claim \notin batch[w]
      BY DEF ClaimsOf, TimelyInv, Exclusive
    <3> QED  BY <3>1, <3>2 DEF TimelyInv, Exclusive
  <2> QED  BY <2>2, <2>3 DEF NeverTakenTwice
<1> QED  BY <1>1, TimelyInit, TimelyStep, PTL DEF TimelySpec

\* ErasedIsNeverSent: a message whose content retention has erased is not
\* handed to a gateway, not even when an operator retries it; unless the retry came
\* between retention's finding it and its writing, and then at most once.
THEOREM ErasedNeverSent == TimelySpec => ErasedIsNeverSent
<1>1. TimelyInv /\ [TimelyNext]_vars =>
        [\A m \in Messages : erased[m] /\ handed'[m] # handed[m] =>
           m \in crossed /\ ~StillAddressed(m)']_vars
  <2> SUFFICES ASSUME TimelyInv, TimelyNext, NEW m \in Messages, erased[m], handed'[m] # handed[m]
               PROVE  m \in crossed /\ ~StillAddressed(m)'
    OBVIOUS
  <2>1. ASSUME NEW w \in Workers, NEW c \in batch[w], NEW o \in Outcomes,
               NEW received \in BOOLEAN, HandOver(w, c, o, received)
        PROVE  m \in crossed /\ ~StillAddressed(m)'
    <3>1. c \in ClaimsOf(w) /\ c.msg \in Messages
      BY ClaimTypes DEF ClaimsOf, TimelyInv
    <3>2. c.address /\ handed' = [handed EXCEPT ![c.msg] = @ + 1]
      BY <2>1 DEF HandOver
    <3>3. c.msg = m
      BY <3>1, <3>2 DEF TimelyInv, QueueInv, TypeOK
    <3>4. m \in crossed
      BY <3>1, <3>2, <3>3 DEF TimelyInv, Mine, Mirrors
    <3>5. batch' = [batch EXCEPT ![w] = @ \ {c}]
      BY <2>1 DEF HandOver, Answered
    <3>6. ASSUME NEW v \in Workers, NEW d \in batch'[v] PROVE d.msg # m
      <4>1. d \in ClaimsOf(v) /\ ~(v = w /\ d = c)
        BY <3>5, <3>6 DEF ClaimsOf, TimelyInv, QueueInv, TypeOK
      <4> QED  BY <4>1, <3>1, <3>3 DEF TimelyInv, Exclusive
    <3> QED  BY <3>4, <3>6 DEF StillAddressed
  <2>2. ASSUME NEW w \in Workers, NEW c \in batch[w], Deliver(w, c)
        PROVE  m \in crossed /\ ~StillAddressed(m)'
    BY <2>1, <2>2 DEF Deliver, DeliverInside, RefuseUnaddressed
  <2>3. ASSUME NEW w \in Workers, Sweeps(w)
        PROVE  m \in crossed /\ ~StillAddressed(m)'
    BY <2>2, <2>3 DEF Sweeps, Claim, RecordSent, RecordFailure, Record, countVars
  <2>4. \A w \in Workers : ~Abort(w)
    BY DEF Abort
  <2>5. \A x \in Messages : ~(Enqueue(x) \/ Suppress(x) \/ Elapse(x) \/ Retry(x) \/ Retains(x))
    BY RetainsEffect DEF Enqueue, Suppress, Elapse, Retry, countVars, TimelyInv, QueueInv
  <2> QED  BY <2>3, <2>4, <2>5, TimelyIsNext DEF Next
<1> QED  BY <1>1, TimelyInit, TimelyStep, PTL DEF TimelySpec, ErasedIsNeverSent

-----------------------------------------------------------------------------
(***************************************************************************)
(* The queue implements the mailbox: every step moves one message as the   *)
(* mailbox allows, or shows nothing.                                       *)
(***************************************************************************)
Shown == [m \in Messages |-> IF status[m] \in Waiting THEN "WAITING" ELSE status[m]]
Heard == [m \in Messages |-> told[m] > 0]

LEMMA MailOther ==
    ASSUME QueueInv, NEW m \in Messages,
           Enqueue(m) \/ Suppress(m) \/ Elapse(m) \/ Retry(m) \/ Retains(m)
    PROVE  [Abstract!Next]_(Abstract!mailVars)
<1>0. Next
  BY DEF Next
<1>t. /\ status \in [Messages -> Statuses] /\ told \in [Messages -> Nat]
  BY DEF QueueInv, TypeOK
<1>1. UNCHANGED told
  BY RetainsEffect DEF Enqueue, Suppress, Elapse, Retry, countVars, QueueInv
<1>2. Heard' = Heard
  BY <1>1 DEF Heard
<1>3. CASE Elapse(m) \/ Retains(m)
  <2>1. UNCHANGED status
    BY <1>3, RetainsEffect DEF Elapse, QueueInv
  <2> QED  BY <2>1, <1>2 DEF Abstract!mailVars, Shown, Heard
<1>4. CASE Enqueue(m)
  <2>1. Shown[m] = "NONE" /\ Shown' = [Shown EXCEPT ![m] = "WAITING"]
    BY <1>4, <1>t DEF Enqueue, Shown, Waiting
  <2>2. Abstract!Accept(m)
    BY <2>1, <1>2 DEF Abstract!Accept, Abstract!Become, Shown, Heard
  <2> QED  BY <2>2 DEF Abstract!Next
<1>5. CASE Suppress(m)
  <2>1. Shown[m] = "NONE" /\ Shown' = [Shown EXCEPT ![m] = "SUPPRESSED"]
    BY <1>5, <1>t DEF Suppress, Shown, Waiting
  <2>2. Abstract!Suppress(m)
    BY <2>1, <1>2 DEF Abstract!Suppress, Abstract!Become, Shown, Heard
  <2> QED  BY <2>2 DEF Abstract!Next
<1>6. CASE Retry(m)
  <2>1. Shown[m] = "FAILED" /\ Shown' = [Shown EXCEPT ![m] = "WAITING"]
    BY <1>6, <1>t DEF Retry, Shown, Waiting
  <2>2. Abstract!PutBack(m)
    BY <2>1, <1>2 DEF Abstract!PutBack, Abstract!Become, Shown, Heard
  <2> QED  BY <2>2 DEF Abstract!Next
<1> QED  BY <1>3, <1>4, <1>5, <1>6

\* A claim shows nothing: what it takes was waiting and is still waiting.
LEMMA MailClaim ==
    ASSUME QueueInv, NEW w \in Workers, NEW taken, Claim(w, taken)
    PROVE  Shown' = Shown /\ Heard' = Heard
BY DEF Claim, Claimable, Shown, Heard, Waiting, countVars, QueueInv, TypeOK

\* A worker tells the recipient of a message that is still waiting.
LEMMA MailDeliver ==
    ASSUME TimelyInv, NEW w \in Workers, NEW c \in batch[w], Deliver(w, c)
    PROVE  [Abstract!Next]_(Abstract!mailVars)
<1>t. /\ status \in [Messages -> Statuses] /\ told \in [Messages -> Nat]
  BY DEF TimelyInv, QueueInv, TypeOK
<1>1. c \in ClaimsOf(w) /\ c.msg \in Messages
  BY ClaimTypes DEF ClaimsOf, TimelyInv
<1>2. status[c.msg] = "SENDING"
  BY <1>1 DEF TimelyInv, Mine, Mirrors
<1>3. UNCHANGED status /\ (UNCHANGED told \/ told' = [told EXCEPT ![c.msg] = @ + 1])
  <2>1. CASE DeliverInside(w, c)
    BY <2>1 DEF DeliverInside, Answered, rowVars
  <2>2. CASE RefuseUnaddressed(w, c)
    BY <2>2 DEF RefuseUnaddressed, Answered, rowVars
  <2>3. ASSUME NEW o \in Outcomes, NEW received \in BOOLEAN, HandOver(w, c, o, received)
        PROVE  UNCHANGED status /\ (UNCHANGED told \/ told' = [told EXCEPT ![c.msg] = @ + 1])
    BY <2>3, <1>t DEF HandOver, Answered, rowVars
  <2> QED  BY <2>1, <2>2, <2>3 DEF Deliver
<1>4. Shown' = Shown /\ Shown[c.msg] = "WAITING"
  BY <1>1, <1>2, <1>3 DEF Shown, Waiting
<1>5. CASE UNCHANGED told
  BY <1>4, <1>5 DEF Abstract!mailVars, Shown, Heard
<1>6. CASE told' = [told EXCEPT ![c.msg] = @ + 1]
  <2>1. Heard' = [Heard EXCEPT ![c.msg] = TRUE]
    <3>1. told'[c.msg] > 0
      BY <1>6, <1>1, <1>t
    <3>2. \A x \in Messages : x # c.msg => told'[x] = told[x]
      BY <1>6, <1>1, <1>t
    <3>3. \A x \in Messages : (told'[x] > 0) = (IF x = c.msg THEN TRUE ELSE Heard[x])
      BY <3>1, <3>2 DEF Heard
    <3>4. Heard' = [x \in Messages |-> IF x = c.msg THEN TRUE ELSE Heard[x]]
      BY <3>3, Zenon DEF Heard
    <3>5. [Heard EXCEPT ![c.msg] = TRUE] = [x \in Messages |-> IF x = c.msg THEN TRUE ELSE Heard[x]]
      BY Zenon DEF Heard
    <3> QED  BY <3>4, <3>5
  <2>2. Abstract!Tell(c.msg)
    BY <2>1, <1>4 DEF Abstract!Tell, Shown, Heard
  <2> QED  BY <2>2, <1>1 DEF Abstract!Next
<1> QED  BY <1>3, <1>5, <1>6

\* Recording decides a message that is still waiting, and calls it sent only
\* when its recipient was told.
LEMMA MailRecord ==
    ASSUME TimelyInv, NEW w \in Workers, RecordSent(w) \/ RecordFailure(w)
    PROVE  [Abstract!Next]_(Abstract!mailVars)
<1>t. /\ status \in [Messages -> Statuses] /\ told \in [Messages -> Nat]
  BY DEF TimelyInv, QueueInv, TypeOK
<1>1. held[w] # NoClaim
  BY DEF RecordSent, RecordFailure
<1>m. PICK m \in Messages : m = held[w].claim.msg
  BY <1>1, HeldShape DEF TimelyInv
<1>2. status[m] = "SENDING" /\ (held[w].outcome = "SENT" => told[m] > 0)
  BY <1>1, <1>m, HeldShape DEF TimelyInv, QueueInv, HeldFresh, Mine, Mirrors, ClaimsOf
<1>3. UNCHANGED told
  BY DEF RecordSent, RecordFailure, Record, countVars
<1>s. \/ status' = [status EXCEPT ![m] = "SENT"] /\ held[w].outcome = "SENT"
      \/ status' = [status EXCEPT ![m] = "FAILED"]
      \/ status' = [status EXCEPT ![m] = "QUEUED"]
  BY <1>m DEF RecordSent, RecordFailure, Record
<1>4. Heard' = Heard
  BY <1>3 DEF Heard
<1>5. Shown[m] = "WAITING"
  BY <1>2 DEF Shown, Waiting
<1>6. CASE status' = [status EXCEPT ![m] = "SENT"] /\ held[w].outcome = "SENT"
  <2>1. Shown' = [Shown EXCEPT ![m] = "SENT"] /\ Heard[m]
    BY <1>6, <1>2, <1>t DEF Shown, Heard, Waiting
  <2>2. Abstract!Sent(m)
    BY <2>1, <1>4, <1>5 DEF Abstract!Sent, Abstract!Become, Shown, Heard
  <2> QED  BY <2>2 DEF Abstract!Next
<1>7. CASE status' = [status EXCEPT ![m] = "FAILED"]
  <2>1. Shown' = [Shown EXCEPT ![m] = "FAILED"]
    BY <1>7, <1>2, <1>t DEF Shown, Waiting
  <2>2. Abstract!GiveUp(m)
    BY <2>1, <1>4, <1>5 DEF Abstract!GiveUp, Abstract!Become, Shown, Heard
  <2> QED  BY <2>2 DEF Abstract!Next
<1>8. CASE status' = [status EXCEPT ![m] = "QUEUED"]
  <2>1. Shown' = Shown
    BY <1>8, <1>2, <1>t DEF Shown, Waiting
  <2> QED  BY <2>1, <1>4 DEF Abstract!mailVars, Shown, Heard
<1> QED  BY <1>s, <1>6, <1>7, <1>8

\* MailboxSpec: provided the visibility timeout outlasts every sweep, the
\* queue keeps the mailbox's promises.
THEOREM QueueImplementsMailbox == TimelySpec => MailboxSpec
<1>1. Init => Abstract!Init
  <2> SUFFICES ASSUME Init PROVE Abstract!Init
    OBVIOUS
  <2>1. Shown = [m \in Messages |-> "NONE"]
    BY DEF Init, Shown, Waiting
  <2>2. \A m \in Messages : (told[m] > 0) = FALSE
    BY DEF Init
  <2>3. Heard = [m \in Messages |-> FALSE]
    BY <2>2, Zenon DEF Heard
  <2> QED  BY <2>1, <2>3 DEF Abstract!Init, Shown, Heard
<1>2. TimelyInv /\ [TimelyNext]_vars => [Abstract!Next]_(Abstract!mailVars)
  <2> SUFFICES ASSUME TimelyInv, [TimelyNext]_vars PROVE [Abstract!Next]_(Abstract!mailVars)
    OBVIOUS
  <2>1. CASE UNCHANGED <<status, told>>
    BY <2>1 DEF Abstract!mailVars
  <2>2. ASSUME NEW w \in Workers, NEW taken, Claim(w, taken)
        PROVE  [Abstract!Next]_(Abstract!mailVars)
    <3>1. Shown' = Shown /\ Heard' = Heard
      BY <2>2, MailClaim DEF TimelyInv
    <3> QED  BY <3>1 DEF Abstract!mailVars, Shown, Heard
  <2>3. ASSUME NEW w \in Workers, Abort(w) PROVE UNCHANGED <<status, told>>
    BY <2>3 DEF Abort, rowVars
  <2>4. UNCHANGED vars => UNCHANGED <<status, told>>
    BY DEF vars, rowVars, countVars
  <2>5. ASSUME NEW w \in Workers, Sweeps(w) PROVE [Abstract!Next]_(Abstract!mailVars)
    BY <2>5, <2>2, MailDeliver, MailRecord DEF Sweeps
  <2>6. QueueInv
    BY DEF TimelyInv
  <2>7. ASSUME NEW m \in Messages,
               Enqueue(m) \/ Suppress(m) \/ Elapse(m) \/ Retry(m) \/ Retains(m)
        PROVE  [Abstract!Next]_(Abstract!mailVars)
    BY <2>6, <2>7, MailOther
  <2> QED  BY <2>1, <2>3, <2>4, <2>5, <2>7, TimelyIsNext DEF Next
<1> QED  BY <1>1, <1>2, TimelyInit, TimelyStep, PTL DEF TimelySpec, MailboxSpec, Abstract!Spec

-----------------------------------------------------------------------------
(***************************************************************************)
(* The account of the attempts: what was handed over and is not recorded   *)
(* yet, or was lost with a sweep that died, is all that the attempts and   *)
(* the retries do not explain.                                             *)
(***************************************************************************)
Pending(m) == \E w \in Workers : held[w] # NoClaim /\ held[w].claim.msg = m

HandOversExplained ==
    \A m \in Messages :
        handed[m] <= MaxAttempts * retries[m] + attempts[m] + aborts
                       + (IF Pending(m) THEN 1 ELSE 0)

AccountInv == TimelyInv /\ HandOversExplained /\ AttemptsOnRecord

\* What the account is made of.
LEMMA AccountTypes ==
    ASSUME AccountInv, NEW m \in Messages
    PROVE  /\ handed[m] \in Nat /\ attempts[m] \in Nat /\ attempts[m] <= MaxAttempts
           /\ retries[m] \in Nat /\ aborts \in Nat /\ MaxAttempts * retries[m] \in Nat
           /\ handed[m] <= MaxAttempts * retries[m] + attempts[m] + aborts
                             + (IF Pending(m) THEN 1 ELSE 0)
<1>1. handed[m] \in Nat /\ attempts[m] \in 0..MaxAttempts /\ retries[m] \in 0..MaxRetries
  BY DEF AccountInv, TimelyInv, QueueInv, TypeOK
<1>2. MaxAttempts \in Nat /\ MaxRetries \in Nat /\ MaxAborts \in Nat /\ aborts \in 0..MaxAborts
  BY QueueAssumption DEF AccountInv, TimelyInv, QueueInv, TypeOK
<1>3. \A i, j \in Nat : i * j \in Nat
  OBVIOUS
<1> QED  BY <1>1, <1>2, <1>3 DEF AccountInv, HandOversExplained

LEMMA AccountInit == Init => HandOversExplained /\ AttemptsOnRecord
<1> SUFFICES ASSUME Init PROVE HandOversExplained /\ AttemptsOnRecord
  OBVIOUS
<1>1. HandOversExplained
  <2> SUFFICES ASSUME NEW m \in Messages
               PROVE  handed[m] <= MaxAttempts * retries[m] + attempts[m] + aborts
                                     + (IF Pending(m) THEN 1 ELSE 0)
    BY DEF HandOversExplained
  <2>1. handed[m] = 0 /\ retries[m] = 0 /\ attempts[m] = 0 /\ aborts = 0 /\ ~Pending(m)
    BY DEF Init, Pending
  <2> QED BY <2>1, QueueAssumption
<1>2. AttemptsOnRecord
  BY DEF Init, AttemptsOnRecord
<1> QED BY <1>1, <1>2

\* A step that hands nothing over and records nothing leaves both accounts.
LEMMA AccountKept ==
    ASSUME AccountInv, UNCHANGED <<handed, attempts, log, held, aborts, retries>>,
           \A m \in Messages : status'[m] = "SENT" <=> status[m] = "SENT"
    PROVE  HandOversExplained' /\ AttemptsOnRecord'
<1>1. \A m \in Messages : Pending(m)' <=> Pending(m)
  BY DEF Pending
<1>2. HandOversExplained'
  BY <1>1 DEF HandOversExplained, AccountInv
<1>3. AttemptsOnRecord'
  BY DEF AttemptsOnRecord, AccountInv
<1> QED BY <1>2, <1>3

\* Nobody has handed over what a worker still has in its batch.
LEMMA AccountDeliver ==
    ASSUME AccountInv, NEW w \in Workers, NEW c \in batch[w], Deliver(w, c)
    PROVE  HandOversExplained' /\ AttemptsOnRecord'
<1>1. QueueInv /\ c \in Claims /\ c.msg \in Messages /\ c \in ClaimsOf(w)
  BY ClaimTypes DEF AccountInv, TimelyInv, ClaimsOf
<1>2. PICK o \in Outcomes : Answered(w, c, o)
  BY <1>1, DeliverKinds
<1>3. /\ UNCHANGED <<status, attempts, log, aborts, retries>> /\ held[w] = NoClaim
      /\ held' = [held EXCEPT ![w] = [claim |-> c, outcome |-> o]]
  BY <1>2 DEF Answered, rowVars
<1>t. /\ held \in [Workers -> Held \cup {NoClaim}] /\ handed \in [Messages -> Nat]
      /\ [claim |-> c, outcome |-> o] \in Held /\ NoClaim \notin Held
  BY <1>1, QueueAssumption DEF QueueInv, TypeOK, Held
<1>4. ~Pending(c.msg)
  <2> SUFFICES ASSUME NEW v \in Workers, held[v] # NoClaim, held[v].claim.msg = c.msg
               PROVE  FALSE
    BY DEF Pending
  <2>1. held[v].claim \in ClaimsOf(v)
    BY DEF ClaimsOf
  <2>2. v = w
    BY <1>1, <2>1 DEF AccountInv, TimelyInv, Exclusive
  <2> QED BY <1>3, <2>2
<1>5. Pending(c.msg)' /\ \A m \in Messages : m # c.msg => (Pending(m)' <=> Pending(m))
  <2>1. held'[w].claim = c /\ held'[w] # NoClaim /\ \A v \in Workers : v # w => held'[v] = held[v]
    BY <1>3, <1>t
  <2> QED BY <1>3, <2>1 DEF Pending
<1>6. /\ handed'[c.msg] \in {handed[c.msg], handed[c.msg] + 1}
      /\ \A m \in Messages : m # c.msg => handed'[m] = handed[m]
  BY <1>1, <1>t DEF Deliver, DeliverInside, RefuseUnaddressed, HandOver
<1>7. HandOversExplained'
  <2> SUFFICES ASSUME NEW m \in Messages
               PROVE  handed'[m] <= MaxAttempts * retries[m] + attempts[m] + aborts
                                      + (IF Pending(m)' THEN 1 ELSE 0)
    BY <1>3 DEF HandOversExplained
  <2>1. CASE m = c.msg
    BY <2>1, <1>4, <1>5, <1>6, AccountTypes
  <2>2. CASE m # c.msg
    BY <2>2, <1>5, <1>6, AccountTypes
  <2> QED BY <2>1, <2>2
<1>8. AttemptsOnRecord'
  BY <1>3 DEF AttemptsOnRecord, AccountInv
<1> QED BY <1>7, <1>8

\* What is recorded was pending, and its number is the next.
LEMMA AccountRecord ==
    ASSUME AccountInv, NEW w \in Workers, RecordSent(w) \/ RecordFailure(w)
    PROVE  HandOversExplained' /\ AttemptsOnRecord'
<1>1. held[w] # NoClaim /\ QueueInv
  BY DEF RecordSent, RecordFailure, AccountInv, TimelyInv
<1>2. PICK m \in Messages : m = held[w].claim.msg
  BY <1>1, HeldShape
<1>3. status[m] = "SENDING" /\ held[w].claim.attempts = attempts[m] /\ Pending(m)
  BY <1>1, <1>2 DEF AccountInv, TimelyInv, Mine, Mirrors, ClaimsOf, Pending
<1>4. PICK s \in {"SENT", "FAILED", "QUEUED"}, outcome \in {"SENT", "FAILED"} :
        Record(w, s, outcome) /\ (s = "SENT" <=> outcome = "SENT")
  BY DEF RecordSent, RecordFailure
<1> DEFINE n == attempts[m] + 1
<1>5. /\ status' = [status EXCEPT ![m] = s]
      /\ attempts' = [attempts EXCEPT ![m] = n]
      /\ log' = [log EXCEPT ![m] = IF n \in Numbered(@) THEN @ ELSE @ \cup {<<n, outcome>>}]
      /\ held' = [held EXCEPT ![w] = NoClaim]
      /\ UNCHANGED <<handed, aborts, retries>>
  BY <1>2, <1>3, <1>4 DEF Record, Logged, countVars
<1>t. /\ held \in [Workers -> Held \cup {NoClaim}]
      /\ attempts \in [Messages -> 0..MaxAttempts] /\ status \in [Messages -> Statuses]
      /\ DOMAIN log = Messages
      /\ attempts[m] \in Nat /\ n \in Nat
  BY <1>1, QueueAssumption DEF QueueInv, TypeOK
<1>6. \A x \in Messages : x # m => (Pending(x)' <=> Pending(x))
  BY <1>1, <1>2, <1>5, <1>t DEF Pending
<1>7. /\ status'[m] = s /\ attempts'[m] = n
      /\ log'[m] = IF n \in Numbered(log[m]) THEN log[m] ELSE log[m] \cup {<<n, outcome>>}
      /\ \A x \in Messages : x # m =>
            status'[x] = status[x] /\ attempts'[x] = attempts[x] /\ log'[x] = log[x]
  BY <1>5, <1>t
<1>8. HandOversExplained'
  <2> SUFFICES ASSUME NEW x \in Messages
               PROVE  handed[x] <= MaxAttempts * retries[x] + attempts'[x] + aborts
                                     + (IF Pending(x)' THEN 1 ELSE 0)
    BY <1>5 DEF HandOversExplained
  <2>1. CASE x = m
    BY <2>1, <1>3, <1>7, AccountTypes
  <2>2. CASE x # m
    BY <2>2, <1>6, <1>7, AccountTypes
  <2> QED BY <2>1, <2>2
<1>9. AttemptsOnRecord'
  <2> SUFFICES ASSUME NEW x \in Messages, retries[x] = 0
               PROVE  log'[x] = {<<k, IF status'[x] = "SENT" /\ k = attempts'[x]
                                      THEN "SENT" ELSE "FAILED">> : k \in 1..attempts'[x]}
    BY <1>5 DEF AttemptsOnRecord
  <2>1. log[x] = {<<k, IF status[x] = "SENT" /\ k = attempts[x] THEN "SENT" ELSE "FAILED">> :
                  k \in 1..attempts[x]}
    BY DEF AttemptsOnRecord, AccountInv
  <2>2. CASE x # m
    BY <2>1, <2>2, <1>7
  <2>3. CASE x = m
    <3>1. log[m] = {<<k, "FAILED">> : k \in 1..attempts[m]}
      BY <2>1, <2>3, <1>3
    <3>2. n \notin Numbered(log[m])
      <4>1. \A row \in log[m] : row[1] \in 1..attempts[m]
        BY <3>1
      <4>2. n \notin 1..attempts[m]
        BY <1>t
      <4> QED BY <4>1, <4>2 DEF Numbered
    <3>3. log'[m] = {<<k, "FAILED">> : k \in 1..attempts[m]} \cup {<<n, outcome>>}
      BY <1>7, <3>1, <3>2
    <3>4. 1..n = 1..attempts[m] \cup {n} /\ \A k \in 1..attempts[m] : k # n
      BY <1>t
    <3>5. (IF s = "SENT" THEN "SENT" ELSE "FAILED") = outcome
      BY <1>4
    <3> HIDE DEF n
    <3>6. {<<k, IF s = "SENT" /\ k = n THEN "SENT" ELSE "FAILED">> : k \in 1..n}
            = {<<k, "FAILED">> : k \in 1..attempts[m]} \cup {<<n, outcome>>}
      BY <3>4, <3>5
    <3> QED BY <2>3, <3>3, <3>6, <1>7
  <2> QED BY <2>2, <2>3
<1> QED BY <1>8, <1>9

\* A sweep that dies forgets one hand-over at most.
LEMMA AccountAbort ==
    ASSUME AccountInv, NEW w \in Workers, Abort(w)
    PROVE  HandOversExplained' /\ AttemptsOnRecord'
<1>1. UNCHANGED <<status, attempts, log, handed, retries>> /\ aborts' = aborts + 1
  BY DEF Abort, rowVars
<1>2. HandOversExplained'
  <2> SUFFICES ASSUME NEW m \in Messages
               PROVE  handed[m] <= MaxAttempts * retries[m] + attempts[m] + (aborts + 1)
                                     + (IF Pending(m)' THEN 1 ELSE 0)
    BY <1>1 DEF HandOversExplained
  <2> QED BY AccountTypes
<1>3. AttemptsOnRecord'
  BY <1>1 DEF AttemptsOnRecord, AccountInv
<1> QED BY <1>2, <1>3

\* An operator asks for a new series.
LEMMA AccountRetry ==
    ASSUME AccountInv, NEW m \in Messages, Retry(m)
    PROVE  HandOversExplained' /\ AttemptsOnRecord'
<1>t. /\ attempts \in [Messages -> 0..MaxAttempts] /\ retries \in [Messages -> 0..MaxRetries]
      /\ status \in [Messages -> Statuses] /\ MaxRetries \in Nat /\ MaxAttempts \in Nat
  BY QueueAssumption DEF AccountInv, TimelyInv, QueueInv, TypeOK
<1>1. /\ UNCHANGED <<log, held, handed, aborts>>
      /\ attempts'[m] = 0 /\ retries'[m] = retries[m] + 1
      /\ \A x \in Messages : x # m => /\ status'[x] = status[x] /\ attempts'[x] = attempts[x]
                                      /\ retries'[x] = retries[x]
  BY <1>t DEF Retry, workerVars
<1>2. \A x \in Messages : Pending(x)' <=> Pending(x)
  BY <1>1 DEF Pending
<1>3. HandOversExplained'
  <2> SUFFICES ASSUME NEW x \in Messages
               PROVE  handed[x] <= MaxAttempts * retries'[x] + attempts'[x] + aborts
                                     + (IF Pending(x) THEN 1 ELSE 0)
    BY <1>1, <1>2 DEF HandOversExplained
  <2>1. CASE x # m
    BY <2>1, <1>1, AccountTypes
  <2>2. CASE x = m
    <3>1. MaxAttempts * (retries[m] + 1) = MaxAttempts * retries[m] + MaxAttempts
      BY <1>t
    <3>2. /\ handed[m] \in Nat /\ attempts[m] \in Nat /\ attempts[m] <= MaxAttempts
          /\ aborts \in Nat /\ MaxAttempts * retries[m] \in Nat
          /\ handed[m] <= MaxAttempts * retries[m] + attempts[m] + aborts
                            + (IF Pending(m) THEN 1 ELSE 0)
      BY AccountTypes
    <3> DEFINE before == MaxAttempts * retries[m]
               after  == MaxAttempts * (retries[m] + 1)
    <3> HIDE DEF before, after
    <3>3. after = before + MaxAttempts  BY <3>1 DEF before, after
    <3>4. before \in Nat /\ handed[m] <= before + attempts[m] + aborts
                                            + (IF Pending(m) THEN 1 ELSE 0)
      BY <3>2 DEF before
    <3>5. handed[m] <= after + 0 + aborts + (IF Pending(m) THEN 1 ELSE 0)
      BY <3>2, <3>3, <3>4, <1>t
    <3>6. MaxAttempts * retries'[m] = after
      BY <1>1 DEF after
    <3> QED BY <2>2, <3>5, <3>6, <1>1
  <2> QED BY <2>1, <2>2
<1>4. AttemptsOnRecord'
  <2>1. retries'[m] # 0
    BY <1>1, <1>t
  <2> QED BY <2>1, <1>1 DEF AttemptsOnRecord, AccountInv
<1> QED BY <1>3, <1>4

LEMMA AccountStep == AccountInv /\ [TimelyNext]_vars => AccountInv'
<1> SUFFICES ASSUME AccountInv, [TimelyNext]_vars PROVE HandOversExplained' /\ AttemptsOnRecord'
  BY TimelyStep DEF AccountInv
<1>t. status \in [Messages -> Statuses]
  BY DEF AccountInv, TimelyInv, QueueInv, TypeOK
<1>1. ASSUME NEW w \in Workers, NEW taken \in SUBSET Claimable, Claim(w, taken)
      PROVE  HandOversExplained' /\ AttemptsOnRecord'
  <2>1. UNCHANGED <<handed, attempts, log, held, aborts, retries>>
    BY <1>1 DEF Claim, countVars
  <2>2. \A m \in Messages : status'[m] = "SENT" <=> status[m] = "SENT"
    BY <1>1, <1>t DEF Claim, Claimable, Waiting
  <2> QED BY <2>1, <2>2, AccountKept
<1>2. ASSUME NEW m \in Messages, Enqueue(m) \/ Suppress(m) \/ TimelyElapse(m) \/ Retains(m)
      PROVE  HandOversExplained' /\ AttemptsOnRecord'
  <2>1. UNCHANGED <<handed, attempts, log, held, aborts, retries>>
    BY <1>2, RetainsEffect DEF Enqueue, Suppress, TimelyElapse, Elapse, workerVars, countVars,
                               AccountInv, TimelyInv, QueueInv
  <2>2. \A x \in Messages : status'[x] = "SENT" <=> status[x] = "SENT"
    BY <1>2, <1>t, RetainsEffect DEF Enqueue, Suppress, TimelyElapse, Elapse,
                                     AccountInv, TimelyInv, QueueInv
  <2> QED BY <2>1, <2>2, AccountKept
<1>3. CASE UNCHANGED vars
  BY <1>3, AccountKept DEF vars, rowVars, workerVars, countVars, erasureVars
<1> QED BY <1>1, <1>2, <1>3, AccountDeliver, AccountRecord, AccountAbort, AccountRetry
        DEF TimelyNext, Sweeps

\* AttemptsAccounted: provided the visibility timeout outlasts every sweep, the hand-overs
\* of a message are bounded by its attempts, its retries and the sweeps that died, and
\* every attempt is on record.
THEOREM AttemptsAreAccounted == TimelySpec => []AttemptsAccounted
<1>1. Init => AccountInv
  BY TimelyInit, AccountInit DEF AccountInv
<1>2. AccountInv => AttemptsAccounted
  <2> SUFFICES ASSUME AccountInv PROVE HandOversBounded
    BY DEF AttemptsAccounted, AccountInv
  <2> SUFFICES ASSUME NEW m \in Messages
               PROVE  handed[m] <= MaxAttempts * (1 + retries[m]) + aborts
    BY DEF HandOversBounded
  <2>1. /\ handed[m] \in Nat /\ attempts[m] \in Nat /\ attempts[m] <= MaxAttempts
        /\ retries[m] \in Nat /\ aborts \in Nat /\ MaxAttempts * retries[m] \in Nat
        /\ handed[m] <= MaxAttempts * retries[m] + attempts[m] + aborts
                          + (IF Pending(m) THEN 1 ELSE 0)
    BY AccountTypes
  <2>2. Pending(m) => attempts[m] < MaxAttempts
    BY DEF Pending, AccountInv, TimelyInv, QueueInv, HeldFresh, Mine, Mirrors, ClaimsOf
  <2>3. MaxAttempts \in Nat
    BY QueueAssumption
  <2>4. MaxAttempts * (1 + retries[m]) = MaxAttempts + MaxAttempts * retries[m]
    BY <2>1, <2>3
  <2> DEFINE series == MaxAttempts * retries[m]
  <2> HIDE DEF series
  <2>5. series \in Nat /\ handed[m] <= series + attempts[m] + aborts
                                          + (IF Pending(m) THEN 1 ELSE 0)
    BY <2>1 DEF series
  <2>6. handed[m] <= MaxAttempts + series + aborts
    BY <2>1, <2>2, <2>3, <2>5
  <2> QED BY <2>4, <2>6 DEF series
<1> QED BY <1>1, <1>2, AccountStep, PTL DEF TimelySpec

-----------------------------------------------------------------------------
(***************************************************************************)
(* The retention sweep.  The ledger follows the table of a rule because a  *)
(* sweep counts what it is about to make gone: of rows, those that are     *)
(* still there; of notices, all it found, which is the same as long as no  *)
(* two sweeps found one.                                                   *)
(***************************************************************************)
Found(s) == sweep[s].doomed

SweepOf(s) ==
    /\ sweep[s].at = "erase" => /\ sweep[s].rule \in R!Rules /\ ~sweep[s].dry
                                /\ Found(s) \subseteq R!Table(sweep[s].rule) \cap past
    /\ sweep[s].at # "erase" => Found(s) = {}
    /\ sweep[s].at \in {"find", "erase"} =>
          /\ run[s] = "RUNNING"
          /\ ~sweep[s].failed => /\ sweep[s].rule = "delete" => "redact" \in sweep[s].ledgered
                                 /\ sweep[s].rule = "none" => sweep[s].ledgered = R!Rules
    /\ run[s] = "COMPLETED" => sweep[s].ledgered = R!Rules

Apart == ~overlapped =>
    /\ \A s \in Sweepers : Found(s) \cap gone \cap Notices = {}
    /\ \A s, t \in Sweepers : s # t => Found(s) \cap Found(t) \cap Notices = {}

RetentionInv ==
    /\ R!TypeOK
    /\ \A s \in Sweepers : SweepOf(s)
    /\ Apart
    /\ R!LedgerCountsErasures

LEMMA CountIs == \A set : R!Cardinality(set) = Cardinality(set)
BY DEF R!Cardinality, Cardinality

LEMMA RetentionInit == R!Init => RetentionInv
<1> SUFFICES ASSUME R!Init PROVE RetentionInv
  OBVIOUS
<1> USE BackgroundAssumption
<1>1. R!TypeOK
  <2>1. R!Idle \in R!Sweep
    BY DEF R!Idle, R!Sweep
  <2>2. 0 \in 0..MaxStops /\ 0 \in 0..MaxRequeued
    OBVIOUS
  <2> QED BY <2>1, <2>2 DEF R!Init, R!TypeOK
<1>2. (\A s \in Sweepers : SweepOf(s)) /\ Apart
  BY DEF R!Init, R!Idle, SweepOf, Found, Apart
<1>3. R!LedgerCountsErasures
  <2>1. Cardinality({}) = 0 /\ \A set : {} \cap set = {}
    BY FS_EmptySet
  <2> QED BY <2>1, CountIs DEF R!Init, R!LedgerCountsErasures
<1> QED BY <1>1, <1>2, <1>3 DEF RetentionInv

\* What is gone is finite, table by table.
LEMMA GoneIsFinite ==
    ASSUME R!TypeOK, NEW set, set \subseteq Notices \cup Rows
    PROVE  IsFiniteSet(set)
<1>1. IsFiniteSet(Notices \cup Rows)
  BY BackgroundAssumption, FS_Union
<1> QED BY <1>1, FS_Subset

RunStatuses == {"none", "RUNNING", "COMPLETED", "FAILED"}

\* The memory of a sweep becomes m, which holds nothing found, and its run r.
Moves(s, m, r) ==
    /\ sweep' = [sweep EXCEPT ![s] = m] /\ run' = [run EXCEPT ![s] = r] /\ past' = past
    /\ m.at \in {"idle", "find"} /\ m.doomed = {}
    /\ m.at = "find" =>
          /\ r = "RUNNING"
          /\ ~m.failed => /\ m.rule = "delete" => "redact" \in m.ledgered
                          /\ m.rule = "none" => m.ledgered = R!Rules
    /\ r = "COMPLETED" => m.ledgered = R!Rules

LEMMA SweepMoves ==
    ASSUME RetentionInv, NEW s \in Sweepers, NEW m \in R!Sweep, NEW r \in RunStatuses,
           Moves(s, m, r)
    PROVE  /\ sweep' \in [Sweepers -> R!Sweep] /\ run' \in [Sweepers -> RunStatuses]
           /\ \A t \in Sweepers : SweepOf(t)'
           /\ Found(s)' = {} /\ \A t \in Sweepers : t # s => Found(t)' = Found(t)
<1>t. sweep \in [Sweepers -> R!Sweep] /\ run \in [Sweepers -> RunStatuses]
  BY DEF RetentionInv, R!TypeOK, RunStatuses
<1>1. /\ sweep'[s] = m /\ run'[s] = r
      /\ \A t \in Sweepers : t # s => sweep'[t] = sweep[t] /\ run'[t] = run[t]
  BY <1>t DEF Moves
<1>2. sweep' \in [Sweepers -> R!Sweep] /\ run' \in [Sweepers -> RunStatuses]
  BY <1>t DEF Moves
<1>3. ASSUME NEW t \in Sweepers PROVE SweepOf(t)'
  <2>1. CASE t # s
    BY <2>1, <1>1 DEF RetentionInv, SweepOf, Found, Moves
  <2>2. CASE t = s
    BY <2>2, <1>1 DEF SweepOf, Found, Moves
  <2> QED BY <2>1, <2>2
<1> QED BY <1>1, <1>2, <1>3 DEF Found, Moves

\* A sweep that moves on while nothing is erased.
LEMMA MovesOn ==
    ASSUME RetentionInv, NEW s \in Sweepers, NEW m \in R!Sweep, NEW r \in RunStatuses,
           Moves(s, m, r), UNCHANGED <<gone, moving, ledger, overlapped, requeued>>,
           stops' \in 0..MaxStops
    PROVE  RetentionInv'
<1>1. R!TypeOK'
  BY SweepMoves DEF RetentionInv, R!TypeOK, Moves, RunStatuses
<1>2. Apart'
  BY SweepMoves DEF RetentionInv, Apart
<1>3. R!LedgerCountsErasures'
  BY DEF RetentionInv, R!LedgerCountsErasures
<1> QED BY <1>1, <1>2, <1>3, SweepMoves DEF RetentionInv

\* On to the next rule: with one more row in the ledger, or with a failure.
LEMMA NextRule ==
    ASSUME RetentionInv, NEW s \in Sweepers, sweep[s].at \in {"find", "erase"},
           sweep[s].rule \in R!Rules, NEW failed \in BOOLEAN, NEW ledgered \in SUBSET R!Rules,
           R!Continues(s, failed, ledgered), UNCHANGED <<past, run>>,
           ~failed => ~sweep[s].failed /\ ledgered = sweep[s].ledgered \cup {sweep[s].rule}
    PROVE  \E m \in R!Sweep : Moves(s, m, "RUNNING")
<1> DEFINE m == [sweep[s] EXCEPT !.at = "find", !.rule = R!Following(sweep[s].rule),
                                 !.doomed = {}, !.failed = failed, !.ledgered = ledgered]
<1>1. sweep' = [sweep EXCEPT ![s] = m]
  BY DEF R!Continues
<1>2. /\ sweep[s] \in R!Sweep /\ run[s] = "RUNNING" /\ SweepOf(s)
      /\ run \in [Sweepers -> RunStatuses]
  BY DEF RetentionInv, SweepOf, R!TypeOK, RunStatuses
<1>3. /\ m \in R!Sweep
      /\ m.at = "find" /\ m.doomed = {} /\ m.failed = failed /\ m.ledgered = ledgered
      /\ m.rule = R!Following(sweep[s].rule)
  BY <1>2 DEF R!Sweep, R!Following, R!Rules
<1> HIDE DEF m
<1>4. run' = [run EXCEPT ![s] = "RUNNING"]
  BY <1>2
<1>5. ~failed => /\ m.rule = "delete" => "redact" \in ledgered
                 /\ m.rule = "none" => ledgered = R!Rules
  BY <1>2, <1>3 DEF SweepOf, R!Following, R!Rules
<1>6. Moves(s, m, "RUNNING")
  BY <1>1, <1>3, <1>4, <1>5 DEF Moves
<1> QED BY <1>3, <1>6

\* sweep(): it opens, it passes a rule over or fails at it, it closes, or it dies.
LEMMA SweepStep ==
    ASSUME RetentionInv, NEW s \in Sweepers,
           \/ \E dry \in BOOLEAN : R!OpenRun(s, dry)
           \/ R!CountDue(s) \/ R!Fails(s) \/ R!Finish(s) \/ R!Stops(s)
    PROVE  RetentionInv'
<1>t. /\ sweep[s] \in R!Sweep /\ run \in [Sweepers -> RunStatuses] /\ SweepOf(s)
      /\ stops \in 0..MaxStops /\ MaxStops \in Nat
  BY BackgroundAssumption DEF RetentionInv, R!TypeOK, RunStatuses
<1>1. ASSUME NEW dry \in BOOLEAN, R!OpenRun(s, dry) PROVE RetentionInv'
  <2> DEFINE m == [R!Idle EXCEPT !.at = "find", !.rule = "redact", !.dry = dry]
  <2>1. m \in R!Sweep /\ m.at = "find" /\ m.doomed = {} /\ m.rule = "redact"
    BY DEF R!Idle, R!Sweep, R!Rules
  <2>2. /\ UNCHANGED <<past, gone, moving, ledger, overlapped, stops, requeued>>
        /\ sweep' = [sweep EXCEPT ![s] = m] /\ run' = [run EXCEPT ![s] = "RUNNING"]
    BY <1>1 DEF R!OpenRun
  <2> HIDE DEF m
  <2>3. Moves(s, m, "RUNNING")  BY <2>1, <2>2 DEF Moves
  <2> QED BY <2>1, <2>2, <2>3, <1>t, MovesOn DEF RunStatuses
<1>2. CASE R!CountDue(s)
  <2>1. /\ sweep[s].at = "find" /\ sweep[s].rule \in R!Rules
        /\ R!Continues(s, sweep[s].failed, sweep[s].ledgered \cup {sweep[s].rule})
        /\ UNCHANGED <<past, gone, moving, run, ledger, overlapped, stops, requeued>>
    BY <1>2, <1>t DEF R!CountDue, R!Sweep
  <2>2. sweep[s].failed \in BOOLEAN /\ sweep[s].ledgered \cup {sweep[s].rule} \in SUBSET R!Rules
    BY <2>1, <1>t DEF R!Sweep
  <2>3. PICK m \in R!Sweep : Moves(s, m, "RUNNING")
    BY <2>1, <2>2, NextRule
  <2> QED BY <2>1, <2>3, <1>t, MovesOn DEF RunStatuses
<1>3. CASE R!Fails(s)
  <2>1. /\ sweep[s].at \in {"find", "erase"} /\ sweep[s].rule \in R!Rules
        /\ R!Continues(s, TRUE, sweep[s].ledgered)
        /\ UNCHANGED <<past, gone, moving, run, ledger, overlapped, stops, requeued>>
    BY <1>3, <1>t DEF R!Fails, R!Sweep
  <2>2. sweep[s].ledgered \in SUBSET R!Rules
    BY <1>t DEF R!Sweep
  <2>3. PICK m \in R!Sweep : Moves(s, m, "RUNNING")
    BY <2>1, <2>2, NextRule
  <2> QED BY <2>1, <2>3, <1>t, MovesOn DEF RunStatuses
<1>4. CASE R!Finish(s)
  <2>1. /\ sweep[s].at = "find" /\ sweep[s].rule = "none"
        /\ UNCHANGED <<past, gone, moving, ledger, overlapped, stops, requeued>>
    BY <1>4 DEF R!Finish
  <2>2. R!Idle \in R!Sweep /\ R!Idle.at = "idle" /\ R!Idle.doomed = {}
    BY DEF R!Idle, R!Sweep
  <2>3. CASE sweep[s].failed
    <3>1. sweep' = [sweep EXCEPT ![s] = R!Idle] /\ run' = [run EXCEPT ![s] = "FAILED"]
      BY <1>4, <2>3 DEF R!Finish
    <3>2. Moves(s, R!Idle, "FAILED")  BY <2>1, <2>2, <3>1 DEF Moves
    <3> QED BY <2>1, <2>2, <3>2, <1>t, MovesOn DEF RunStatuses
  <2>4. CASE ~sweep[s].failed
    <3> DEFINE m == [R!Idle EXCEPT !.ledgered = sweep[s].ledgered]
    <3>1. sweep' = [sweep EXCEPT ![s] = m] /\ run' = [run EXCEPT ![s] = "COMPLETED"]
      BY <1>4, <2>4 DEF R!Finish
    <3>2. sweep[s].ledgered = R!Rules
      BY <2>1, <2>4, <1>t DEF SweepOf
    <3>3. m \in R!Sweep /\ m.at = "idle" /\ m.doomed = {} /\ m.ledgered = R!Rules
      BY <3>2 DEF R!Idle, R!Sweep
    <3> HIDE DEF m
    <3>4. Moves(s, m, "COMPLETED")  BY <2>1, <3>1, <3>3 DEF Moves
    <3> QED BY <2>1, <3>3, <3>4, <1>t, MovesOn DEF RunStatuses
  <2> QED BY <2>3, <2>4
<1>5. CASE R!Stops(s)
  <2>1. /\ sweep[s].at \in {"find", "erase"} /\ stops < MaxStops /\ stops' = stops + 1
        /\ UNCHANGED <<past, gone, moving, run, ledger, overlapped, requeued>>
        /\ sweep' = [sweep EXCEPT ![s] = [R!Idle EXCEPT !.at = R!Freed]]
    BY <1>5, <1>t DEF R!Stops, R!Sweep
  <2>2. [R!Idle EXCEPT !.at = R!Freed] = R!Idle
    BY DEF R!Idle, R!Freed
  <2>3. R!Idle \in R!Sweep /\ R!Idle.at = "idle" /\ R!Idle.doomed = {}
    BY DEF R!Idle, R!Sweep
  <2>4. run[s] = "RUNNING" /\ run' = [run EXCEPT ![s] = "RUNNING"]
    BY <2>1, <1>t DEF SweepOf
  <2>5. Moves(s, R!Idle, "RUNNING")  BY <2>1, <2>2, <2>3, <2>4 DEF Moves
  <2>6. stops' \in 0..MaxStops  BY <2>1, <1>t
  <2> QED BY <2>1, <2>3, <2>5, <2>6, <1>t, MovesOn DEF RunStatuses
<1> QED BY <1>1, <1>2, <1>3, <1>4, <1>5

\* What a sweep finds is not gone yet, and is written down if somebody else has it too.
LEMMA FindStep ==
    ASSUME RetentionInv, NEW s \in Sweepers, R!Find(s)
    PROVE  RetentionInv'
<1>t. /\ sweep \in [Sweepers -> R!Sweep] /\ SweepOf(s) /\ overlapped \in BOOLEAN
      /\ gone \subseteq past /\ past \subseteq Notices \cup Rows
  BY DEF RetentionInv, R!TypeOK
<1>1. /\ sweep[s].at = "find" /\ sweep[s].rule \in R!Rules /\ ~sweep[s].dry
      /\ UNCHANGED <<past, gone, moving, run, ledger, stops, requeued>>
  BY <1>t DEF R!Find, R!Sweep
<1>2. PICK doomed \in R!Limited(R!Due(sweep[s].rule)) :
        /\ sweep' = [sweep EXCEPT ![s] = [@ EXCEPT !.at = "erase", !.doomed = doomed]]
        /\ overlapped' = (overlapped \/ \E t \in Sweepers \ {s} :
                             sweep[t].doomed \cap doomed \cap Notices # {})
  BY DEF R!Find
<1>3. doomed \subseteq R!Table(sweep[s].rule) \cap past /\ doomed \cap gone = {}
  BY DEF R!Limited, R!Due
<1>4. doomed \subseteq Notices \cup Rows
  BY <1>3, <1>t
<1>5. /\ sweep'[s] = [sweep[s] EXCEPT !.at = "erase", !.doomed = doomed]
      /\ \A t \in Sweepers : t # s => sweep'[t] = sweep[t]
      /\ sweep' \in [Sweepers -> R!Sweep]
  <2>1. [sweep[s] EXCEPT !.at = "erase", !.doomed = doomed] \in R!Sweep
    BY <1>4, <1>t DEF R!Sweep
  <2> QED BY <2>1, <1>2, <1>t
<1>6. /\ sweep'[s].at = "erase" /\ sweep'[s].doomed = doomed /\ sweep'[s].rule = sweep[s].rule
      /\ sweep'[s].dry = sweep[s].dry /\ sweep'[s].failed = sweep[s].failed
      /\ sweep'[s].ledgered = sweep[s].ledgered
  BY <1>5, <1>t DEF R!Sweep
<1>7. R!TypeOK'
  <2>1. overlapped' \in BOOLEAN  BY <1>2, <1>t
  <2> QED BY <1>1, <1>5, <2>1 DEF RetentionInv, R!TypeOK
<1>8. ASSUME NEW t \in Sweepers PROVE SweepOf(t)'
  <2>1. CASE t # s
    BY <2>1, <1>1, <1>5 DEF RetentionInv, SweepOf, Found
  <2>2. CASE t = s
    BY <2>2, <1>1, <1>3, <1>6, <1>t DEF SweepOf, Found, R!Table
  <2> QED BY <2>1, <2>2
<1>9. Apart'
  <2> SUFFICES ASSUME ~overlapped'
               PROVE  /\ \A t \in Sweepers : Found(t)' \cap gone \cap Notices = {}
                      /\ \A t, u \in Sweepers : t # u => Found(t)' \cap Found(u)' \cap Notices = {}
    BY <1>1 DEF Apart
  <2>1. Found(s)' = doomed /\ \A t \in Sweepers : t # s => Found(t)' = Found(t)
    BY <1>5, <1>6 DEF Found
  <2>2. ~overlapped /\ \A t \in Sweepers : t # s => Found(t) \cap doomed \cap Notices = {}
    BY <1>2 DEF Found
  <2> QED BY <2>1, <2>2, <1>3 DEF RetentionInv, Apart
<1>10. R!LedgerCountsErasures'
  BY <1>1, <1>2, <1>t DEF RetentionInv, R!LedgerCountsErasures
<1> QED BY <1>7, <1>8, <1>9, <1>10 DEF RetentionInv

\* applyRule(): what is made gone is what the ledger counts.
LEMMA EraseStep ==
    ASSUME RetentionInv, NEW s \in Sweepers, NEW rule \in R!Rules, R!Erase(s, rule)
    PROVE  RetentionInv'
<1>t. /\ sweep[s] \in R!Sweep /\ SweepOf(s) /\ overlapped \in BOOLEAN
      /\ gone \subseteq past /\ past \subseteq Notices \cup Rows
      /\ ledger \in [R!Rules -> Nat]
  BY DEF RetentionInv, R!TypeOK
<1>1. /\ sweep[s].at = "erase" /\ sweep[s].rule = rule
      /\ gone' = gone \cup Found(s)
      /\ ledger' = [ledger EXCEPT ![rule] = @ + Cardinality(R!Counted(s))]
      /\ R!Continues(s, sweep[s].failed, sweep[s].ledgered \cup {rule})
      /\ UNCHANGED <<past, moving, run, overlapped, stops, requeued>>
  BY CountIs DEF R!Erase, Found
<1>2. sweep[s].failed \in BOOLEAN /\ sweep[s].ledgered \cup {sweep[s].rule} \in SUBSET R!Rules
  BY <1>1, <1>t DEF R!Sweep
<1>3. PICK m \in R!Sweep : Moves(s, m, "RUNNING")
  BY <1>1, <1>2, NextRule
<1>4. /\ sweep' \in [Sweepers -> R!Sweep] /\ run' \in [Sweepers -> RunStatuses]
      /\ \A t \in Sweepers : SweepOf(t)'
      /\ Found(s)' = {} /\ \A t \in Sweepers : t # s => Found(t)' = Found(t)
  BY <1>3, SweepMoves DEF RunStatuses
<1>5. Found(s) \subseteq R!Table(rule) \cap past /\ Found(s) \subseteq Notices \cup Rows
  BY <1>1, <1>t DEF SweepOf
<1>6. /\ IsFiniteSet(Found(s)) /\ IsFiniteSet(gone)
      /\ IsFiniteSet(R!Counted(s)) /\ Cardinality(R!Counted(s)) \in Nat
  <2>1. R!Counted(s) \subseteq Notices \cup Rows
    BY <1>5 DEF R!Counted, Found
  <2>2. R!TypeOK  BY DEF RetentionInv
  <2>3. IsFiniteSet(Notices \cup Rows)
    BY BackgroundAssumption, FS_Union
  <2>4. IsFiniteSet(R!Counted(s)) /\ IsFiniteSet(Found(s)) /\ IsFiniteSet(gone)
    BY <2>1, <2>3, <1>5, <1>t, FS_Subset
  <2> QED BY <2>4, FS_CardinalityType
<1>7. /\ ledger'[rule] = ledger[rule] + Cardinality(R!Counted(s)) /\ ledger' \in [R!Rules -> Nat]
      /\ \A q \in R!Rules : q # rule => ledger'[q] = ledger[q]
  <2>1. ledger[rule] + Cardinality(R!Counted(s)) \in Nat  BY <1>6, <1>t
  <2> QED BY <2>1, <1>1, <1>t
<1>8. R!TypeOK'
  BY <1>1, <1>4, <1>5, <1>7, <1>t DEF RetentionInv, R!TypeOK, RunStatuses
<1>9. Apart'
  <2>1. Apart  BY DEF RetentionInv
  <2> QED BY <2>1, <1>1, <1>4 DEF Apart
<1>10. R!LedgerCountsErasures'
  <2> SUFFICES ASSUME NEW q \in R!Rules, ~(q = "redact" /\ overlapped)
               PROVE  ledger'[q] = Cardinality(gone' \cap R!Table(q))
    BY <1>1, CountIs DEF R!LedgerCountsErasures
  <2>1. ledger[q] = Cardinality(gone \cap R!Table(q))
    BY CountIs DEF RetentionInv, R!LedgerCountsErasures
  <2>2. CASE q # rule
    <3>1. Found(s) \cap R!Table(q) = {}
      BY <2>2, <1>5, BackgroundAssumption DEF R!Table, R!Rules
    <3>2. gone' \cap R!Table(q) = gone \cap R!Table(q)
      BY <3>1, <1>1
    <3> QED BY <2>1, <2>2, <3>2, <1>7
  <2>3. CASE q = rule
    <3> DEFINE old == gone \cap R!Table(q)
    <3>1. R!Counted(s) \cap old = {}
      <4>1. CASE rule = "redact"
        <5>1. Found(s) \cap gone \cap Notices = {}
          BY <4>1, <2>3 DEF RetentionInv, Apart
        <5> QED BY <5>1, <4>1, <2>3, <1>1 DEF R!Counted, R!Table, Found
      <4>2. CASE rule # "redact"
        BY <4>2, <1>1 DEF R!Counted
      <4> QED BY <4>1, <4>2
    <3>2. gone' \cap R!Table(q) = old \cup R!Counted(s)
      BY <2>3, <1>1, <1>5 DEF R!Counted, Found
    <3>3. IsFiniteSet(old)
      BY <1>6, FS_Subset
    <3> HIDE DEF old
    <3>4. Cardinality(old \cup R!Counted(s))
            = Cardinality(old) + Cardinality(R!Counted(s)) - Cardinality(old \cap R!Counted(s))
      BY <3>3, <1>6, FS_Union
    <3>5. Cardinality(old \cap R!Counted(s)) = 0
      BY <3>1, FS_EmptySet
    <3>6. Cardinality(old) \in Nat
      BY <3>3, FS_CardinalityType
    <3>7. ledger[q] = Cardinality(old)
      BY <2>1 DEF old
    <3>8. Cardinality(old \cup R!Counted(s)) = ledger[q] + Cardinality(R!Counted(s))
      BY <3>4, <3>5, <3>6, <3>7, <1>6
    <3>9. ledger'[q] = ledger[q] + Cardinality(R!Counted(s))
      BY <1>7, <2>3
    <3> QED BY <3>2, <3>8, <3>9
  <2> QED BY <2>2, <2>3
<1> QED BY <1>4, <1>8, <1>9, <1>10 DEF RetentionInv

\* The rest of the platform touches neither what is found nor what is gone.
LEMMA RestStep ==
    ASSUME RetentionInv,
           \/ \E n \in Notices \cup Rows : R!Age(n)
           \/ \E n \in Notices : R!Retry(n) \/ R!Settle(n)
    PROVE  RetentionInv'
<1>t. MaxRequeued \in Nat /\ requeued \in 0..MaxRequeued /\ R!TypeOK
  BY BackgroundAssumption DEF RetentionInv, R!TypeOK
<1>1. UNCHANGED <<gone, run, ledger, sweep, overlapped, stops>> /\ past \subseteq past'
  BY DEF R!Age, R!Retry, R!Settle
<1>2. R!TypeOK'
  <2>1. ASSUME NEW n \in Notices \cup Rows, R!Age(n) PROVE R!TypeOK'
    BY <2>1, <1>t DEF R!Age, R!TypeOK
  <2>2. ASSUME NEW n \in Notices, R!Retry(n) PROVE R!TypeOK'
    <3>1. requeued' \in 0..MaxRequeued  BY <2>2, <1>t DEF R!Retry
    <3> QED BY <2>2, <3>1, <1>t DEF R!Retry, R!TypeOK
  <2>3. ASSUME NEW n \in Notices, R!Settle(n) PROVE R!TypeOK'
    BY <2>3, <1>t DEF R!Settle, R!TypeOK
  <2> QED BY <2>1, <2>2, <2>3
<1>3. \A s \in Sweepers : SweepOf(s)'
  BY <1>1 DEF RetentionInv, SweepOf, Found
<1>4. Apart' /\ R!LedgerCountsErasures'
  BY <1>1 DEF RetentionInv, Apart, Found, R!LedgerCountsErasures
<1> QED BY <1>2, <1>3, <1>4 DEF RetentionInv

LEMMA RetentionStep == ASSUME RetentionInv, [R!Next]_(R!vars) PROVE RetentionInv'
<1>1. CASE UNCHANGED R!vars
  BY <1>1 DEF R!vars, RetentionInv, R!TypeOK, SweepOf, Found, Apart, R!LedgerCountsErasures
<1> QED BY <1>1, SweepStep, FindStep, EraseStep, RestStep DEF R!Next

-----------------------------------------------------------------------------
(***************************************************************************)
(* The pool: what a request has follows from how far it is, and only who   *)
(* asks is in the queue, once.                                             *)
(***************************************************************************)
Asking(r) == at[r] \in {"asks", "asks_again"}

PoolInv ==
    /\ L!TypeOK
    /\ \A r \in Requests :
          connections[r] = CASE at[r] \in {"idle", "asks"} -> 0
                             [] at[r] \in {"works", "asks_again"} -> 1
                             [] at[r] = "works_twice" -> 2
    /\ \A i \in 1..Len(queue) : Asking(queue[i])
    /\ \A i, j \in 1..Len(queue) : queue[i] = queue[j] => i = j

LEMMA PoolInit == L!Init => PoolInv
<1> SUFFICES ASSUME L!Init PROVE PoolInv
  OBVIOUS
<1>1. L!TypeOK
  BY DEF L!Init, L!TypeOK
<1>2. Len(queue) = 0
  BY DEF L!Init
<1> QED BY <1>1, <1>2 DEF L!Init, PoolInv

\* One request moves on, and the queue is what it was.
LEMMA PoolMoves ==
    ASSUME PoolInv, NEW r \in Requests, ~Asking(r), queue' = queue, nested' \in [Requests -> BOOLEAN],
           NEW a \in {"idle", "works"}, at' = [at EXCEPT ![r] = a],
           connections' = [connections EXCEPT ![r] = IF a = "idle" THEN 0 ELSE 1]
    PROVE  PoolInv'
<1>t. /\ at \in [Requests -> {"idle", "asks", "works", "asks_again", "works_twice"}]
      /\ connections \in [Requests -> 0..2] /\ queue \in Seq(Requests)
  BY DEF PoolInv, L!TypeOK
<1>1. /\ at'[r] = a /\ connections'[r] = IF a = "idle" THEN 0 ELSE 1
      /\ \A q \in Requests : q # r => at'[q] = at[q] /\ connections'[q] = connections[q]
  BY <1>t
<1>2. L!TypeOK'
  <2>1. (IF a = "idle" THEN 0 ELSE 1) \in 0..2  OBVIOUS
  <2> QED BY <1>t, <2>1 DEF PoolInv, L!TypeOK
<1>3. ASSUME NEW i \in 1..Len(queue') PROVE Asking(queue[i])'
  <2>1. queue'[i] \in Requests /\ Asking(queue[i])  BY <1>t DEF PoolInv
  <2> QED BY <2>1, <1>1 DEF Asking
<1>4. \A q \in Requests :
          connections'[q] = CASE at'[q] \in {"idle", "asks"} -> 0
                              [] at'[q] \in {"works", "asks_again"} -> 1
                              [] at'[q] = "works_twice" -> 2
  BY <1>1 DEF PoolInv
<1> QED BY <1>2, <1>3, <1>4 DEF PoolInv

\* A request that was not asking joins the queue.
LEMMA PoolAsks ==
    ASSUME PoolInv, NEW r \in Requests, nested' \in [Requests -> BOOLEAN],
           NEW a \in {"asks", "asks_again"},
           at[r] = IF a = "asks" THEN "idle" ELSE "works",
           at' = [at EXCEPT ![r] = a], queue' = Append(queue, r), connections' = connections
    PROVE  PoolInv'
<1>t. /\ at \in [Requests -> {"idle", "asks", "works", "asks_again", "works_twice"}]
      /\ connections \in [Requests -> 0..2] /\ queue \in Seq(Requests) /\ ~Asking(r)
  BY DEF PoolInv, L!TypeOK, Asking
<1>1. at'[r] = a /\ \A q \in Requests : q # r => at'[q] = at[q]
  BY <1>t
<1>2. /\ Len(queue') = Len(queue) + 1 /\ queue'[Len(queue) + 1] = r /\ Len(queue) \in Nat
      /\ \A i \in 1..Len(queue) : queue'[i] = queue[i] /\ queue[i] \in Requests /\ queue[i] # r
      /\ queue' \in Seq(Requests)
  BY <1>t DEF PoolInv
<1>3. L!TypeOK'
  BY <1>t, <1>2 DEF PoolInv, L!TypeOK
<1>4. \A i \in 1..Len(queue') : i \in 1..Len(queue) \/ i = Len(queue) + 1
  BY <1>2
<1>5. \A i \in 1..Len(queue') : Asking(queue[i])'
  BY <1>1, <1>2, <1>4 DEF PoolInv, Asking
<1>6. \A i, j \in 1..Len(queue') : queue'[i] = queue'[j] => i = j
  BY <1>2, <1>4 DEF PoolInv
<1>7. \A q \in Requests :
          connections'[q] = CASE at'[q] \in {"idle", "asks"} -> 0
                              [] at'[q] \in {"works", "asks_again"} -> 1
                              [] at'[q] = "works_twice" -> 2
  BY <1>1 DEF PoolInv
<1> QED BY <1>3, <1>5, <1>6, <1>7 DEF PoolInv

LEMMA PoolServe == ASSUME PoolInv, L!Serve PROVE PoolInv'
<1>t. /\ at \in [Requests -> {"idle", "asks", "works", "asks_again", "works_twice"}]
      /\ connections \in [Requests -> 0..2] /\ queue \in Seq(Requests) /\ queue # <<>>
      /\ nested' = nested
  BY DEF PoolInv, L!TypeOK, L!Serve
<1>1. PICK r \in Requests : r = Head(queue)
  BY <1>t
<1>2. Len(queue) \in Nat /\ Len(queue) > 0 /\ r = queue[1] /\ Asking(r)
  BY <1>t, <1>1 DEF PoolInv
<1>3. /\ connections' = [connections EXCEPT ![r] = @ + 1]
      /\ at' = [at EXCEPT ![r] = IF @ = "asks" THEN "works" ELSE "works_twice"]
      /\ queue' = Tail(queue)
  BY <1>1 DEF L!Serve
<1>4. /\ at'[r] = IF at[r] = "asks" THEN "works" ELSE "works_twice"
      /\ connections'[r] = connections[r] + 1
      /\ \A q \in Requests : q # r => at'[q] = at[q] /\ connections'[q] = connections[q]
      /\ connections[r] = IF at[r] = "asks" THEN 0 ELSE 1
  BY <1>2, <1>3, <1>t DEF PoolInv, Asking
<1>5. /\ Len(queue') = Len(queue) - 1 /\ queue' \in Seq(Requests)
      /\ \A i \in 1..Len(queue') : queue'[i] = queue[i + 1] /\ i + 1 \in 1..Len(queue) /\ i + 1 # 1
  BY <1>2, <1>3, <1>t
<1>6. \A i \in 1..Len(queue') : queue'[i] \in Requests /\ queue'[i] # r /\ Asking(queue'[i])
  BY <1>2, <1>5, <1>t DEF PoolInv
<1>7. L!TypeOK'
  <2>1. connections[r] + 1 \in 0..2  BY <1>4
  <2>2. connections' \in [Requests -> 0..2]  BY <2>1, <1>3, <1>t
  <2> QED BY <2>2, <1>3, <1>5, <1>t DEF PoolInv, L!TypeOK
<1>8. \A i \in 1..Len(queue') : Asking(queue[i])'
  BY <1>4, <1>6 DEF Asking
<1>9. \A i, j \in 1..Len(queue') : queue'[i] = queue'[j] => i = j
  <2> SUFFICES ASSUME NEW i \in 1..Len(queue'), NEW j \in 1..Len(queue'), queue'[i] = queue'[j]
               PROVE  i = j
    OBVIOUS
  <2>1. i + 1 = j + 1  BY <1>5 DEF PoolInv
  <2> QED BY <2>1
<1>10. ASSUME NEW q \in Requests
       PROVE  connections'[q] = CASE at'[q] \in {"idle", "asks"} -> 0
                                  [] at'[q] \in {"works", "asks_again"} -> 1
                                  [] at'[q] = "works_twice" -> 2
  <2>1. CASE q # r
    BY <2>1, <1>4 DEF PoolInv
  <2>2. CASE q = r
    BY <2>2, <1>2, <1>4 DEF Asking
  <2> QED BY <2>1, <2>2
<1> QED BY <1>7, <1>8, <1>9, <1>10 DEF PoolInv

LEMMA PoolStep == ASSUME PoolInv, [L!Next]_(L!vars) PROVE PoolInv'
<1>t. nested \in [Requests -> BOOLEAN] /\ connections \in [Requests -> 0..2] /\ L!TypeOK
  BY DEF PoolInv, L!TypeOK
<1>1. CASE UNCHANGED L!vars
  BY <1>1 DEF L!vars, PoolInv, L!TypeOK, Asking
<1>2. ASSUME NEW r \in Requests, NEW second \in BOOLEAN, L!Begin(r, second) PROVE PoolInv'
  BY <1>2, <1>t, PoolAsks DEF L!Begin
<1>3. ASSUME NEW r \in Requests, L!AskAgain(r) PROVE PoolInv'
  BY <1>3, <1>t, PoolAsks DEF L!AskAgain
<1>4. ASSUME NEW r \in Requests, L!Answered(r) PROVE PoolInv'
  <2>1. /\ at[r] = "works_twice" /\ at' = [at EXCEPT ![r] = "works"] /\ queue' = queue
        /\ nested' \in [Requests -> BOOLEAN] /\ connections' = [connections EXCEPT ![r] = @ - 1]
    BY <1>4, <1>t DEF L!Answered
  <2>2. connections[r] = 2 /\ ~Asking(r)
    BY <2>1 DEF PoolInv, Asking
  <2>3. connections' = [connections EXCEPT ![r] = 1]
    BY <2>1, <2>2
  <2> QED BY <2>1, <2>2, <2>3, PoolMoves
<1>5. ASSUME NEW r \in Requests, L!Commit(r) \/ L!Fail(r) PROVE PoolInv'
  <2>1. /\ at[r] = "works" /\ at' = [at EXCEPT ![r] = "idle"] /\ queue' = queue
        /\ nested' \in [Requests -> BOOLEAN] /\ connections' = [connections EXCEPT ![r] = 0]
    BY <1>5, <1>t DEF L!Commit, L!Fail, L!Ends, L!AfterFailure
  <2> QED BY <2>1, PoolMoves DEF Asking
<1> QED BY <1>1, <1>2, <1>3, <1>4, <1>5, PoolServe DEF L!Next

(***************************************************************************)
(* What the pool has given out is counted by who has one connection and    *)
(* who has two.                                                            *)
(***************************************************************************)
LEMMA PoolCountIs == \A set : L!Cardinality(set) = Cardinality(set)
BY DEF L!Cardinality, Cardinality

LEMMA HavingIsFinite ==
    /\ \A n : IsFiniteSet(L!Having(n)) /\ Cardinality(L!Having(n)) \in Nat
    /\ \A set \in SUBSET Requests : IsFiniteSet(set) /\ Cardinality(set) \in Nat
<1>1. ASSUME NEW set \in SUBSET Requests PROVE IsFiniteSet(set) /\ Cardinality(set) \in Nat
  BY BackgroundAssumption, FS_Subset, FS_CardinalityType
<1>2. \A n : L!Having(n) \in SUBSET Requests
  BY DEF L!Having
<1> QED BY <1>1, <1>2

\* Giving connections back never leaves more of them in use.
LEMMA FewerInUse ==
    ASSUME connections \in [Requests -> 0..2], connections' \in [Requests -> 0..2],
           \A r \in Requests : connections'[r] <= connections[r]
    PROVE  L!InUse' <= L!InUse
<1>1. ASSUME NEW n \in {1, 2}
      PROVE  /\ Cardinality(L!Having(n)') <= Cardinality(L!Having(n))
             /\ Cardinality(L!Having(n)') \in Nat
  <2>1. L!Having(n)' \in SUBSET L!Having(n)
    BY DEF L!Having
  <2> QED BY <2>1, HavingIsFinite, FS_Subset, FS_CardinalityType
<1> QED BY <1>1, HavingIsFinite, PoolCountIs DEF L!InUse

\* Whoever is served has one more.
LEMMA OneMoreInUse ==
    ASSUME connections \in [Requests -> 0..2], NEW r \in Requests, connections[r] # 2,
           connections' = [connections EXCEPT ![r] = @ + 1]
    PROVE  L!InUse' = L!InUse + 1
<1>1. connections'[r] = connections[r] + 1 /\ \A q \in Requests : q # r => connections'[q] = connections[q]
  OBVIOUS
<1>2. CASE connections[r] = 0
  <2>1. /\ L!Having(1)' = L!Having(1) \cup {r} /\ r \notin L!Having(1)
        /\ L!Having(2)' = L!Having(2)
    BY <1>1, <1>2 DEF L!Having
  <2>2. Cardinality(L!Having(1)') = Cardinality(L!Having(1)) + 1
    BY <2>1, HavingIsFinite, FS_AddElement
  <2> QED BY <2>1, <2>2, HavingIsFinite, PoolCountIs DEF L!InUse
<1>3. CASE connections[r] = 1
  <2>1. /\ L!Having(2)' = L!Having(2) \cup {r} /\ r \notin L!Having(2)
        /\ L!Having(1)' = L!Having(1)
    BY <1>1, <1>3 DEF L!Having
  <2>2. Cardinality(L!Having(2)') = Cardinality(L!Having(2)) + 1
    BY <2>1, HavingIsFinite, FS_AddElement
  <2> QED BY <2>1, <2>2, HavingIsFinite, PoolCountIs DEF L!InUse
<1> QED BY <1>2, <1>3

LEMMA NoneInUse == L!Init => L!InUse = 0
<1> SUFFICES ASSUME L!Init PROVE L!InUse = 0
  OBVIOUS
<1>1. L!Having(1) = {} /\ L!Having(2) = {}
  BY DEF L!Init, L!Having
<1> QED BY <1>1, PoolCountIs, FS_EmptySet DEF L!InUse

\* Who asks for the second connection is at work that is nested.
NestedAsks == \A r \in Requests : at[r] \in {"asks_again", "works_twice"} => nested[r]

\* Everybody who asks is in the queue.
AskersQueue == \A r \in Requests : Asking(r) => \E i \in 1..Len(queue) : queue[i] = r

NotOverdrawn == L!InUse <= PoolMax

LEMMA NestedStep == ASSUME PoolInv, NestedAsks, [L!Next]_(L!vars) PROVE NestedAsks'
<1>t. /\ at \in [Requests -> {"idle", "asks", "works", "asks_again", "works_twice"}]
      /\ nested \in [Requests -> BOOLEAN] /\ queue \in Seq(Requests)
  BY DEF PoolInv, L!TypeOK
<1>1. CASE UNCHANGED L!vars
  BY <1>1 DEF L!vars, NestedAsks
<1>2. CASE L!Serve
  <2>1. PICK r \in Requests : r = Head(queue)
    BY <1>2, <1>t DEF L!Serve
  <2>2. r = queue[1] /\ 1 \in 1..Len(queue)
    BY <2>1, <1>2, <1>t DEF L!Serve
  <2>3. at[r] # "asks" => nested[r]
    BY <2>2 DEF PoolInv, Asking, NestedAsks
  <2> QED BY <2>1, <2>3, <1>2, <1>t DEF L!Serve, NestedAsks
<1>3. ASSUME NEW r \in Requests, NEW second \in BOOLEAN, L!Begin(r, second) PROVE NestedAsks'
  BY <1>3, <1>t DEF L!Begin, NestedAsks
<1>4. ASSUME NEW r \in Requests, L!AskAgain(r) PROVE NestedAsks'
  BY <1>4, <1>t DEF L!AskAgain, NestedAsks
<1>5. ASSUME NEW r \in Requests, L!Answered(r) PROVE NestedAsks'
  BY <1>5, <1>t DEF L!Answered, NestedAsks
<1>6. ASSUME NEW r \in Requests, L!Commit(r) \/ L!Fail(r) PROVE NestedAsks'
  BY <1>6, <1>t DEF L!Commit, L!Fail, L!Ends, NestedAsks
<1> QED BY <1>1, <1>2, <1>3, <1>4, <1>5, <1>6 DEF L!Next

LEMMA AskersStep == ASSUME PoolInv, AskersQueue, [L!Next]_(L!vars) PROVE AskersQueue'
<1>t. /\ at \in [Requests -> {"idle", "asks", "works", "asks_again", "works_twice"}]
      /\ queue \in Seq(Requests)
  BY DEF PoolInv, L!TypeOK
<1>1. CASE UNCHANGED L!vars
  BY <1>1 DEF L!vars, AskersQueue, Asking
<1>2. CASE L!Serve
  <2>1. PICK r \in Requests : r = Head(queue)
    BY <1>2, <1>t DEF L!Serve
  <2>2. /\ r = queue[1] /\ queue' = Tail(queue) /\ Len(queue) \in Nat \ {0}
        /\ at' = [at EXCEPT ![r] = IF @ = "asks" THEN "works" ELSE "works_twice"]
    BY <2>1, <1>2, <1>t DEF L!Serve
  <2>3. ASSUME NEW q \in Requests, Asking(q)' PROVE \E i \in 1..Len(queue') : queue'[i] = q
    <3>1. q # r /\ Asking(q)
      BY <2>2, <2>3, <1>t DEF Asking
    <3>2. PICK i \in 1..Len(queue) : queue[i] = q
      BY <3>1 DEF AskersQueue
    <3>3. i # 1 /\ i - 1 \in 1..Len(queue') /\ queue'[i - 1] = q
      BY <3>1, <3>2, <2>2, <1>t
    <3> QED BY <3>3
  <2> QED BY <2>3 DEF AskersQueue
<1>3. ASSUME NEW r \in Requests, queue' = Append(queue, r), NEW a, at' = [at EXCEPT ![r] = a]
      PROVE  AskersQueue'
  <2>1. /\ Len(queue') = Len(queue) + 1 /\ Len(queue) \in Nat /\ queue'[Len(queue')] = r
        /\ \A i \in 1..Len(queue) : i \in 1..Len(queue') /\ queue'[i] = queue[i]
    BY <1>3, <1>t
  <2>2. \A q \in Requests : q # r => at'[q] = at[q]
    BY <1>3, <1>t
  <2>3. Len(queue') \in 1..Len(queue')
    BY <2>1
  <2> QED BY <2>1, <2>2, <2>3 DEF AskersQueue, Asking
<1>4. ASSUME NEW r \in Requests, L!Answered(r) \/ L!Commit(r) \/ L!Fail(r) PROVE AskersQueue'
  <2>1. queue' = queue /\ \E a \in {"idle", "works"} : at' = [at EXCEPT ![r] = a]
    BY <1>4 DEF L!Answered, L!Commit, L!Fail, L!Ends
  <2>2. \A q \in Requests : Asking(q)' => Asking(q)
    BY <2>1, <1>t DEF Asking
  <2> QED BY <2>1, <2>2 DEF AskersQueue
<1> QED BY <1>1, <1>2, <1>3, <1>4 DEF L!Next, L!Begin, L!AskAgain

LEMMA OverdraftStep == ASSUME PoolInv, NotOverdrawn, [L!Next]_(L!vars) PROVE NotOverdrawn'
<1> USE BackgroundAssumption
<1>t. connections \in [Requests -> 0..2] /\ L!InUse \in Nat
  BY HavingIsFinite, PoolCountIs DEF PoolInv, L!TypeOK, L!InUse
<1>n. connections' \in [Requests -> 0..2] /\ L!InUse' \in Nat
  <2>1. connections' \in [Requests -> 0..2]
    BY PoolStep DEF PoolInv, L!TypeOK
  <2>2. \A n : L!Having(n)' \in SUBSET Requests
    BY DEF L!Having
  <2> QED BY <2>1, <2>2, HavingIsFinite, PoolCountIs DEF L!InUse
<1>1. CASE \A r \in Requests : connections'[r] <= connections[r]
  BY <1>1, <1>t, <1>n, FewerInUse DEF NotOverdrawn
<1>2. CASE L!Serve
  <2>1. PICK r \in Requests : r = Head(queue)
    BY <1>2 DEF L!Serve, PoolInv, L!TypeOK
  <2>2. r = queue[1] /\ 1 \in 1..Len(queue)
    BY <2>1, <1>2 DEF L!Serve, PoolInv, L!TypeOK
  <2>3. connections[r] # 2
    BY <2>2 DEF PoolInv, Asking
  <2>4. L!InUse' = L!InUse + 1
    BY <2>1, <2>3, <1>2, <1>t, OneMoreInUse DEF L!Serve
  <2> QED BY <2>4, <1>2, <1>t DEF L!Serve, NotOverdrawn
<1>3. ASSUME NEW r \in Requests,
             \/ \E second \in BOOLEAN : L!Begin(r, second)
             \/ L!AskAgain(r) \/ L!Answered(r) \/ L!Commit(r) \/ L!Fail(r)
      PROVE  \A q \in Requests : connections'[q] <= connections[q]
  BY <1>3, <1>t DEF L!Begin, L!AskAgain, L!Answered, L!Commit, L!Fail, L!AfterFailure
<1>4. CASE UNCHANGED L!vars
  BY <1>4, <1>t DEF L!vars, NotOverdrawn, L!InUse, L!Having
<1> QED BY <1>1, <1>2, <1>3, <1>4 DEF L!Next

LEMMA PoolGoesOn == ASSUME PoolInv, NestedAsks, AskersQueue, NotOverdrawn PROVE L!OnlyCircleBlocks
<1> USE BackgroundAssumption
<1>t. /\ at \in [Requests -> {"idle", "asks", "works", "asks_again", "works_twice"}]
      /\ connections \in [Requests -> 0..2] /\ queue \in Seq(Requests) /\ L!InUse \in Nat
  BY HavingIsFinite, PoolCountIs DEF PoolInv, L!TypeOK, L!InUse
<1>1. \A r \in Requests : at[r] = "idle" => connections[r] = 0
  BY DEF PoolInv
<1> DEFINE Again == {r \in Requests : at[r] = "asks_again"}
           Nested == {r \in Requests : nested[r]}
<1>2. ASSUME NEW r \in Requests, at[r] # "idle", ~L!SomethingGoesOn PROVE L!Circle
  <2>1. \A q \in Requests : at[q] \notin {"works", "works_twice"}
    BY <1>2 DEF L!SomethingGoesOn
  <2>2. queue # <<>>
    <3>1. Asking(r)
      BY <1>2, <2>1, <1>t DEF Asking
    <3>2. PICK i \in 1..Len(queue) : queue[i] = r
      BY <3>1 DEF AskersQueue
    <3> QED BY <3>2
  <2>3. L!InUse >= PoolMax
    BY <2>2, <1>2, <1>t DEF L!SomethingGoesOn
  <2>4. L!Having(1) = Again /\ L!Having(2) = {}
    BY <2>1, <1>t DEF PoolInv, L!Having
  <2>5. L!InUse = Cardinality(Again)
    BY <2>4, PoolCountIs, FS_EmptySet, HavingIsFinite DEF L!InUse
  <2> QED BY <2>3, <2>5, PoolCountIs DEF L!Circle
<1>3. ASSUME L!Circle PROVE L!Cardinality(Nested) >= PoolMax
  <2>1. Again \in SUBSET Nested /\ Nested \in SUBSET Requests
    BY DEF NestedAsks
  <2>2. Cardinality(Again) <= Cardinality(Nested) /\ Cardinality(Again) \in Nat
        /\ Cardinality(Nested) \in Nat
    BY <2>1, HavingIsFinite, FS_Subset
  <2> QED BY <2>2, <1>3, PoolCountIs DEF L!Circle
<1> QED BY <1>1, <1>2, <1>3 DEF L!OnlyCircleBlocks, NotOverdrawn

\* OnlyCircleBlocks of MCBackground, for a pool of any size and any number of requests:
\* as long as fewer registrations that resemble somebody are under way than the pool has
\* connections, it never stands still (pool.ts, registration.service.ts).
THEOREM PoolNeverStandsStill == L!Spec => []OnlyCircleBlocks
<1> DEFINE Inv == PoolInv /\ NestedAsks /\ AskersQueue /\ NotOverdrawn
<1>1. L!Init => Inv
  BY PoolInit, NoneInUse, BackgroundAssumption DEF L!Init, NestedAsks, AskersQueue, Asking, NotOverdrawn
<1>2. Inv /\ [L!Next]_(L!vars) => Inv'
  BY PoolStep, NestedStep, AskersStep, OverdraftStep
<1>3. Inv => OnlyCircleBlocks
  BY PoolGoesOn DEF OnlyCircleBlocks
<1> QED BY <1>1, <1>2, <1>3, PTL DEF L!Spec

\* LedgerIsTrue of MCBackground: what the ledger of erasures counts is what is gone, a run
\* called complete went through every rule, and the pool never gives a request more
\* connections than the two that it asks for.
THEOREM LedgerCanBeTrusted == R!Spec /\ L!Spec => []LedgerIsTrue
<1>1. RetentionInv /\ [R!Next]_(R!vars) => RetentionInv'
  BY RetentionStep
<1>2. PoolInv /\ [L!Next]_(L!vars) => PoolInv'
  BY PoolStep
<1>3. RetentionInv /\ PoolInv => LedgerIsTrue
  BY DEF RetentionInv, PoolInv, LedgerIsTrue, R!LedgerIsTrue, R!CompletedIsWhole, SweepOf
<1> QED BY <1>1, <1>2, <1>3, RetentionInit, PoolInit, PTL DEF R!Spec, L!Spec

\* The run of MCBackground is a run of each of its three areas.
THEOREM BackgroundAreas == MCSpec => Spec /\ R!Spec /\ L!Spec
<1>1. MCInit => Init /\ R!Init /\ L!Init
  BY DEF MCInit
<1>2. [MCNext]_allVars => [Next]_vars /\ [R!Next]_(R!vars) /\ [L!Next]_(L!vars)
  BY DEF MCNext, InQueue, InRetention, InPool, allVars, vars, retentionVars, poolVars,
         rowVars, workerVars, countVars, R!vars, L!vars
<1> QED BY <1>1, <1>2, PTL DEF MCSpec, Spec, R!Spec, L!Spec
=============================================================================
