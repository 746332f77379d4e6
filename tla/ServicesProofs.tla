---------------------------- MODULE ServicesProofs ----------------------------
(***************************************************************************)
(* Theorems about the records that officers, crews and other agencies work *)
(* on, for any number of requests, tabs, syncs and records: the copies of  *)
(* what agencies hold, the packs a device carries, the registers of        *)
(* missing and unidentified persons, and investigation cases.              *)
(***************************************************************************)
EXTENDS MCServices, Sequences, FiniteSetTheorems, TLAPS

-----------------------------------------------------------------------------
(***************************************************************************)
(* Integration.  The invariant follows a change through a sync: what is    *)
(* not settled is ahead of the watermark, then of what the sync read of    *)
(* it, then in the answer.                                                 *)
(***************************************************************************)

\* What a sync knows, field by field.
LEMMA CallIs ==
    ASSUME NEW c \in Call
    PROVE  /\ c.at \in At /\ c.since \in Nat \cup {Never}
           /\ c.answer \in [Records -> Nat \cup {Never}] /\ c.conflicted \in BOOLEAN
           /\ \A a \in At : [c EXCEPT !.at = a] \in Call
           /\ \A a \in At, t \in Nat \cup {Never} : [c EXCEPT !.at = a, !.since = t] \in Call
           /\ \A a \in At, f \in [Records -> Nat \cup {Never}] :
                 [c EXCEPT !.at = a, !.answer = f] \in Call
           /\ \A a \in At, b \in BOOLEAN : [c EXCEPT !.at = a, !.conflicted = b] \in Call
  BY DEF Call

LEMMA RowIs ==
    ASSUME NEW row \in Row
    PROVE  /\ row.finished \in Nat
           /\ [row EXCEPT !.status = "RUNNING"] \in Row
           /\ \A n \in Nat, s \in {"SUCCEEDED", "PARTIAL", "FAILED"} :
                 [status |-> s, finished |-> n] \in Row
  BY DEF Row

LEMMA WatermarksAreTimes == ASSUME TypeOK PROVE Watermarks \subseteq Nat \cup {Never}
  BY RowIs DEF TypeOK, Watermarks, Done

LEMMA TypeStep == TypeOK /\ [Next]_vars => TypeOK'
<1> SUFFICES ASSUME TypeOK, [Next]_vars PROVE TypeOK'
  OBVIOUS
<1>0. /\ \A k \in Jobs : sync[k] \in Call /\ job[k] \in Row
      /\ {"read", "started", "knows", "fetched", "written", "finished", "failing", "failed", "over"}
            \subseteq At
  BY DEF TypeOK, At
<1>1. ASSUME NEW m \in Mode, registerDataSource(m) PROVE TypeOK'
  BY <1>1 DEF registerDataSource, TypeOK
<1>2. ASSUME NEW k \in Jobs, Open(k) PROVE TypeOK'
  <2>1. sync' = [sync EXCEPT ![k] = [sync[k] EXCEPT !.at = "started"]]
    BY <1>2 DEF Open, Step
  <2>2. job' = [job EXCEPT ![k] = [job[k] EXCEPT !.status = "RUNNING"]]
    BY <1>2 DEF Open
  <2>3. sync' \in [Jobs -> Call] /\ job' \in [Jobs -> Row]
    BY <1>0, <2>1, <2>2, CallIs, RowIs DEF TypeOK
  <2> QED BY <1>2, <2>3 DEF Open, TypeOK
<1>3. ASSUME NEW k \in Jobs, ReadWatermark(k) PROVE TypeOK'
  <2>1. PICK t \in Watermarks : sync' = [sync EXCEPT ![k].at = "knows", ![k].since = t]
    BY <1>3 DEF ReadWatermark
  <2>2. sync' = [sync EXCEPT ![k] = [sync[k] EXCEPT !.at = "knows", !.since = t]]
    BY <2>1 DEF TypeOK
  <2>3. sync' \in [Jobs -> Call]
    BY <1>0, <2>2, CallIs, WatermarksAreTimes DEF TypeOK
  <2> QED BY <1>3, <2>3 DEF ReadWatermark, TypeOK
<1>4. ASSUME NEW k \in Jobs, changedSince(k) PROVE TypeOK'
  <2> DEFINE got(S) == [r \in Records |-> IF r \in S THEN source[r] ELSE Never]
  <2>1. PICK S \in SUBSET ChangedSince(sync[k].since) :
           /\ sync' = [sync EXCEPT ![k].at = "fetched", ![k].answer = got(S)]
           /\ slipped' = slipped \cup
                {<<r, source[r]>> : r \in ChangedSince(sync[k].since) \ S}
    BY <1>4 DEF changedSince, kSubset
  <2>2. sync' = [sync EXCEPT ![k] = [sync[k] EXCEPT !.at = "fetched", !.answer = got(S)]]
    BY <2>1 DEF TypeOK
  <2>3. got(S) \in [Records -> Nat \cup {Never}]
    BY DEF TypeOK
  <2>4. sync' \in [Jobs -> Call]
    <3> HIDE DEF got
    <3> QED BY <1>0, <2>2, <2>3, CallIs DEF TypeOK
  <2>5. slipped' \subseteq Records \X Nat
    BY <2>1 DEF ChangedSince, TypeOK
  <2> QED BY <1>4, <2>4, <2>5 DEF changedSince, TypeOK
<1>5. ASSUME NEW k \in Jobs, writeProjection(k) PROVE TypeOK'
  <2> DEFINE got == sync[k].answer
             odd == {r \in unknown : got[r] # Never}
  <2>1. got \in [Records -> Nat \cup {Never}]
    BY <1>0, CallIs
  <2>2. sync' = [sync EXCEPT ![k] = [sync[k] EXCEPT !.at = "written", !.conflicted = (odd # {})]]
    BY <1>5 DEF writeProjection, TypeOK
  <2>3. sync' \in [Jobs -> Call]
    BY <1>0, <2>2, CallIs DEF TypeOK
  <2>4. projected' \in [Records -> Nat \cup {Never}] /\ conflicts' \subseteq Records \X Nat
    BY <1>5, <2>1 DEF writeProjection, TypeOK
  <2> QED BY <1>5, <2>3, <2>4 DEF writeProjection, TypeOK
<1>6. ASSUME NEW k \in Jobs, Finish(k) \/ RecordFailure(k) PROVE TypeOK'
  <2>1. PICK a \in {"finished", "failed"}, s \in {"SUCCEEDED", "PARTIAL", "FAILED"} :
           /\ sync' = [sync EXCEPT ![k].at = a]
           /\ Ended(k, s)
    BY <1>6 DEF Finish, RecordFailure, Step
  <2>2. sync' = [sync EXCEPT ![k] = [sync[k] EXCEPT !.at = a]]
    BY <2>1
  <2>3. clock' \in Nat /\ job' = [job EXCEPT ![k] = [status |-> s, finished |-> clock']]
    BY <2>1 DEF Ended, TypeOK
  <2>4. [status |-> s, finished |-> clock'] \in Row
    BY <2>3 DEF Row
  <2>5. job' \in [Jobs -> Row]
    BY <2>3, <2>4 DEF TypeOK
  <2>6. a \in At
    BY <1>0
  <2>7. [sync[k] EXCEPT !.at = a] \in Call
    BY <1>0, <2>6, CallIs
  <2>8. sync' \in [Jobs -> Call]
    BY <2>2, <2>7 DEF TypeOK
  <2> QED BY <2>1, <2>3, <2>5, <2>8 DEF Ended, TypeOK
<1>7. ASSUME NEW k \in Jobs, NEW failed \in BOOLEAN,
             Report(k, "finished", failed) \/ Report(k, "failed", failed)
      PROVE TypeOK'
  <2>1. sync' = [sync EXCEPT ![k] = [sync[k] EXCEPT !.at = "over"]]
    BY <1>7 DEF Report, Step
  <2>2. sync' \in [Jobs -> Call]
    BY <1>0, <2>1, CallIs DEF TypeOK
  <2> QED BY <1>7, <2>2 DEF Report, TypeOK
<1>8. ASSUME NEW k \in Jobs, Start(k) \/ Fail(k) \/ Stop(k) PROVE TypeOK'
  <2>1. PICK a \in {"read", "failing", "over"} :
           sync' = [sync EXCEPT ![k] = [sync[k] EXCEPT !.at = a]]
    BY <1>8 DEF Start, Step, Fail, Stop
  <2>2. sync' \in [Jobs -> Call]
    BY <1>0, <2>1, CallIs DEF TypeOK
  <2> QED BY <1>8, <2>2 DEF Start, Fail, Stop, TypeOK
<1>9. ASSUME NEW r \in Records, Change(r) PROVE TypeOK'
  BY <1>9 DEF Change, TypeOK
<1>10. ASSUME NEW r \in Records, Allocate(r) PROVE TypeOK'
  BY <1>10 DEF Allocate, TypeOK
<1>11. CASE UNCHANGED vars
  BY <1>11 DEF vars, TypeOK
<1> QED
  BY <1>1, <1>2, <1>3, <1>4, <1>5, <1>6, <1>7, <1>8, <1>9, <1>10, <1>11 DEF Next

\* Every state has the shape the module gives it (the columns of data_sync_job).
THEOREM SyncTypeCorrect == Spec => []TypeOK
<1>1. ASSUME Init PROVE TypeOK
  <2>1. [status |-> "NONE", finished |-> 0] \in Row
    BY DEF Row
  <2>2. [at |-> "idle", since |-> Never, answer |-> Nothing, conflicted |-> FALSE] \in Call
    BY DEF Call, At, Nothing
  <2> QED BY <1>1, <2>1, <2>2 DEF Init, TypeOK, Mode
<1> QED BY <1>1, TypeStep, PTL DEF Spec

-----------------------------------------------------------------------------
\* Nothing more is owed to a record: it agrees, or why it does not is known.
Slipped(r) == <<r, source[r]>> \in slipped
Settled(r) == ~Disagrees(r) \/ OnRecord(r) \/ Slipped(r)

\* Changes and finishes are in the past.
InThePast ==
    /\ \A r \in Records : source[r] <= clock
    /\ \A k \in Jobs : job[k].finished <= clock /\ sync[k].since <= clock

\* A sync that knows where to start from will ask for whatever is owed.
AsksForAll ==
    \A k \in Jobs : sync[k].at = "knows" =>
        \A r \in Records : Settled(r) \/ source[r] > sync[k].since

\* A sync that has its answer has all that is owed in it, and no stale version of a
\* record that has not slipped.
HoldsAll ==
    \A k \in Jobs : sync[k].at = "fetched" =>
        \A r \in Records :
            IF sync[k].answer[r] = Never THEN Settled(r)
            ELSE sync[k].answer[r] = source[r] \/ Slipped(r)

\* A sync that has written owes nothing.
WroteAll == \A k \in Jobs : sync[k].at = "written" => \A r \in Records : Settled(r)

SyncInv == InThePast /\ NothingIsPassedOver /\ AsksForAll /\ HoldsAll /\ WroteAll

\* A record stays settled unless it changes or a sync overwrites it.
LEMMA StaysSettled ==
    ASSUME NEW r \in Records, Settled(r), source'[r] = source[r],
           projected'[r] = projected[r] \/ projected'[r] = source[r],
           conflicts \subseteq conflicts', slipped \subseteq slipped'
    PROVE  Settled(r)'
  BY DEF Settled, Disagrees, OnRecord, Slipped

\* A record is ahead of fewer instants if it is of more.
LEMMA StaysAhead ==
    ASSUME TypeOK, TypeOK', NEW r \in Records, Ahead(r), source'[r] >= source[r], Done' \subseteq Done,
           \A k \in Done' : job'[k].finished = job[k].finished
    PROVE  Ahead(r)'
<1>1. source'[r] \in Nat /\ source[r] \in Nat
  BY DEF TypeOK
<1>2. ASSUME NEW t \in Watermarks' PROVE source'[r] > t
  <2>1. CASE Done' = {}
    BY <1>1, <1>2, <2>1 DEF Watermarks, Never
  <2>2. CASE Done' # {}
    <3>1. PICK k \in Done' : t = job[k].finished
      BY <1>2, <2>2 DEF Watermarks
    <3>2. k \in Jobs /\ t \in Nat /\ t \in Watermarks
      BY <3>1, RowIs DEF Watermarks, Done, TypeOK
    <3> QED BY <1>1, <3>2 DEF Ahead
  <2> QED BY <2>1, <2>2
<1> QED BY <1>2 DEF Ahead

\* A step that changes no record at its source, overwrites none and finishes no job keeps
\* the invariant for every sync but the one that takes it.
LEMMA OthersKeep ==
    ASSUME TypeOK, TypeOK', SyncInv, NEW k \in Jobs,
           clock' \in {clock, clock + 1}, source' = source,
           \A r \in Records : Settled(r) => Settled(r)',
           \A r \in Records : Slipped(r) => Slipped(r)',
           \A l \in Jobs \ {k} : sync'[l] = sync[l] /\ job'[l] = job[l],
           job'[k].finished \in {job[k].finished, clock'}, sync'[k].since \in {sync[k].since} \cup Watermarks,
           job'[k].status \in {"SUCCEEDED", "PARTIAL"} =>
              job'[k] = job[k] \/ \A r \in Records : Settled(r),
           sync'[k].at = "knows" => \A r \in Records : Settled(r)' \/ source[r] > sync'[k].since,
           sync'[k].at = "fetched" => \A r \in Records :
              IF sync'[k].answer[r] = Never THEN Settled(r)'
              ELSE sync'[k].answer[r] = source[r] \/ Slipped(r)',
           sync'[k].at = "written" => \A r \in Records : Settled(r)'
    PROVE  SyncInv'
<1>1. InThePast'
  <2>1. \A t \in Watermarks : t <= clock
    BY RowIs DEF SyncInv, InThePast, Watermarks, Done, TypeOK, Never
  <2>2. clock \in Nat /\ clock' \in Nat /\ clock <= clock'
    BY DEF TypeOK
  <2>3. ASSUME NEW r \in Records PROVE source'[r] <= clock'
    BY <2>2 DEF SyncInv, InThePast, TypeOK
  <2>4. ASSUME NEW l \in Jobs PROVE job'[l].finished <= clock' /\ sync'[l].since <= clock'
    <3>1. /\ job[l].finished \in Nat /\ sync[l].since \in Nat \cup {Never}
          /\ job[l].finished <= clock /\ sync[l].since <= clock
      BY RowIs, CallIs DEF SyncInv, InThePast, TypeOK
    <3>2. job'[l].finished \in {job[l].finished, clock'}
      OBVIOUS
    <3>3. sync'[l].since \in {sync[l].since} \cup Watermarks
      OBVIOUS
    <3> QED BY <2>1, <2>2, <3>1, <3>2, <3>3, WatermarksAreTimes DEF Never
  <2> QED BY <2>3, <2>4 DEF InThePast
<1>2. NothingIsPassedOver'
  <2>1. SUFFICES ASSUME NEW r \in Records, ~Settled(r)' PROVE Ahead(r)'
    BY DEF NothingIsPassedOver, Settled, Slipped
  <2>2. ~Settled(r) /\ Ahead(r)
    BY <2>1 DEF SyncInv, NothingIsPassedOver, Settled, Slipped
  <2>3. \A l \in Done' : l \in Done /\ job'[l].finished = job[l].finished
    BY <2>2 DEF Done
  <2> QED BY <2>2, <2>3, StaysAhead DEF TypeOK
<1>3. AsksForAll' /\ HoldsAll' /\ WroteAll'
  BY DEF SyncInv, AsksForAll, HoldsAll, WroteAll
<1> QED BY <1>1, <1>2, <1>3 DEF SyncInv

\* A change is ahead of every instant on record; if a sync had its answer, it slipped.
LEMMA ChangeKeeps ==
    ASSUME TypeOK, TypeOK', SyncInv, NEW q \in Records, Change(q)
    PROVE  SyncInv'
<1>1. /\ clock \in Nat /\ clock' = clock + 1
      /\ source'[q] = clock' /\ \A r \in Records \ {q} : source'[r] = source[r]
      /\ sync' = sync /\ job' = job /\ projected' = projected /\ conflicts' = conflicts
      /\ slipped \subseteq slipped' /\ (Answered # {} => Slipped(q)')
  BY DEF Change, TypeOK, Slipped
<1>2. \A r \in Records \ {q} : (Settled(r) => Settled(r)') /\ (Slipped(r) => Slipped(r)')
  <2>1. SUFFICES ASSUME NEW r \in Records \ {q}
                 PROVE  (Settled(r) => Settled(r)') /\ (Slipped(r) => Slipped(r)')
    OBVIOUS
  <2>2. source'[r] = source[r] /\ projected'[r] = projected[r] /\ conflicts' = conflicts
    BY <1>1
  <2>3. Slipped(r) => Slipped(r)'
    BY <1>1, <2>2 DEF Slipped
  <2>4. Settled(r) => Settled(r)'
    BY <2>2, <2>3 DEF Settled, Disagrees, OnRecord
  <2> QED BY <2>3, <2>4
<1>3. InThePast'
  <2>1. ASSUME NEW r \in Records PROVE source'[r] <= clock'
    <3>1. source[r] \in Nat /\ source[r] <= clock
      BY DEF TypeOK, SyncInv, InThePast
    <3> QED BY <1>1, <3>1
  <2>2. ASSUME NEW l \in Jobs PROVE job'[l].finished <= clock' /\ sync'[l].since <= clock'
    <3>1. /\ job[l].finished \in Nat /\ sync[l].since \in Nat \cup {Never}
          /\ job[l].finished <= clock /\ sync[l].since <= clock
      BY RowIs, CallIs DEF SyncInv, InThePast, TypeOK
    <3> QED BY <1>1, <3>1 DEF Never
  <2> QED BY <2>1, <2>2 DEF InThePast
<1>4. NothingIsPassedOver'
  <2>1. SUFFICES ASSUME NEW r \in Records, ~Settled(r)' PROVE Ahead(r)'
    BY DEF NothingIsPassedOver, Settled, Slipped
  <2>2. CASE r = q
    <3>1. ASSUME NEW t \in Watermarks' PROVE source'[q] > t
      <4>1. Watermarks' = Watermarks
        BY <1>1 DEF Watermarks, Done
      <4>2. t = Never \/ (t \in Nat /\ t <= clock)
        <5>1. \A l \in Jobs : job[l].finished \in Nat /\ job[l].finished <= clock
          BY RowIs DEF SyncInv, InThePast, TypeOK
        <5> QED BY <3>1, <4>1, <5>1 DEF Watermarks, Done
      <4> QED BY <1>1, <4>2 DEF Never
    <3> QED BY <2>2, <3>1 DEF Ahead
  <2>3. CASE r # q
    <3>1. Ahead(r)
      BY <1>2, <2>1, <2>3 DEF SyncInv, NothingIsPassedOver, Settled, Slipped
    <3>2. source'[r] = source[r] /\ Watermarks' = Watermarks
      BY <1>1, <2>3 DEF Watermarks, Done
    <3> QED BY <3>1, <3>2 DEF Ahead
  <2> QED BY <2>2, <2>3
<1>5. AsksForAll'
  <2>1. SUFFICES ASSUME NEW k \in Jobs, sync[k].at = "knows", NEW r \in Records
                 PROVE  Settled(r)' \/ source'[r] > sync[k].since
    BY <1>1 DEF AsksForAll
  <2>2. sync[k].since \in Nat \cup {Never} /\ sync[k].since <= clock
    BY CallIs DEF SyncInv, InThePast, TypeOK
  <2> QED BY <1>1, <1>2, <2>1, <2>2 DEF SyncInv, AsksForAll, Never
<1>6. HoldsAll' /\ WroteAll'
  <2>1. SUFFICES ASSUME NEW k \in Jobs, sync[k].at \in {"fetched", "written"}
                 PROVE  /\ sync[k].at = "written" => \A r \in Records : Settled(r)'
                        /\ sync[k].at = "fetched" => \A r \in Records :
                              IF sync[k].answer[r] = Never THEN Settled(r)'
                              ELSE sync[k].answer[r] = source'[r] \/ Slipped(r)'
    BY <1>1 DEF HoldsAll, WroteAll
  <2>2. Slipped(q)' /\ Settled(q)'
    <3>1. k \in Answered
      BY <2>1 DEF Answered
    <3>2. Slipped(q)'
      BY <1>1, <3>1
    <3> QED BY <3>2 DEF Settled
  <2> QED BY <1>1, <1>2, <2>2 DEF SyncInv, HoldsAll, WroteAll
<1> QED BY <1>3, <1>4, <1>5, <1>6 DEF SyncInv

\* What a sync holds overwrites a record only with what the source holds, or one that has
\* slipped; what it raises a conflict for is on record.
LEMMA WriteKeeps ==
    ASSUME TypeOK, TypeOK', SyncInv, NEW k \in Jobs, writeProjection(k)
    PROVE  SyncInv'
<1> DEFINE got == sync[k].answer
<1>1. /\ clock' = clock /\ source' = source /\ slipped' = slipped /\ job' = job
      /\ conflicts \subseteq conflicts'
      /\ \A l \in Jobs \ {k} : sync'[l] = sync[l]
      /\ sync'[k].at = "written" /\ sync'[k].since = sync[k].since
  <2>1. sync[k] \in Call
    BY DEF TypeOK
  <2> QED BY <2>1 DEF writeProjection, TypeOK, Call
<1>2. ASSUME NEW r \in Records, got[r] = Never PROVE Settled(r) => Settled(r)'
  <2>1. projected'[r] = projected[r]
    BY <1>2 DEF writeProjection, TypeOK
  <2> QED BY <1>1, <2>1, StaysSettled
<1>3. ASSUME NEW r \in Records, got[r] # Never PROVE Settled(r)'
  <2>1. got[r] = source[r] \/ Slipped(r)
    BY <1>3 DEF SyncInv, HoldsAll, writeProjection
  <2>2. CASE Slipped(r)
    BY <1>1, <2>2 DEF Settled, Slipped
  <2>3. CASE got[r] = source[r] /\ r \in unknown
    <3>1. <<r, source[r]>> \in conflicts'
      BY <1>3, <2>3 DEF writeProjection
    <3> QED BY <1>1, <3>1 DEF Settled, OnRecord
  <2>4. CASE got[r] = source[r] /\ r \notin unknown
    <3>1. projected'[r] = source[r]
      BY <1>3, <2>4 DEF writeProjection
    <3> QED BY <1>1, <3>1 DEF Settled, Disagrees
  <2> QED BY <2>1, <2>2, <2>3, <2>4
<1>4. \A r \in Records : Settled(r)'
  <2>1. \A r \in Records : got[r] = Never => Settled(r)
    BY DEF SyncInv, HoldsAll, writeProjection
  <2> QED BY <1>2, <1>3, <2>1
<1>5. \A r \in Records : (Settled(r) => Settled(r)') /\ (Slipped(r) => Slipped(r)')
  BY <1>1, <1>4 DEF Slipped
<1> QED
  <2>1. job'[k] = job[k] /\ \A l \in Jobs \ {k} : sync'[l] = sync[l] /\ job'[l] = job[l]
    BY <1>1
  <2>2. sync'[k].at # "knows" /\ sync'[k].at # "fetched"
    BY <1>1
  <2> QED BY <1>1, <1>4, <1>5, <2>1, <2>2, OthersKeep

\* The answer holds what changed since the instant the sync knew; the rest slipped.
LEMMA AnswerKeeps ==
    ASSUME TypeOK, TypeOK', SyncInv, NEW k \in Jobs, changedSince(k)
    PROVE  SyncInv'
<1> DEFINE changed == ChangedSince(sync[k].since)
           got(S) == [r \in Records |-> IF r \in S THEN source[r] ELSE Never]
<1>1. PICK S \in SUBSET changed :
         /\ sync' = [sync EXCEPT ![k].at = "fetched", ![k].answer = got(S)]
         /\ slipped' = slipped \cup {<<r, source[r]>> : r \in changed \ S}
  BY DEF changedSince, kSubset
<1>2. /\ sync'[k].at = "fetched" /\ sync'[k].answer = got(S) /\ sync'[k].since = sync[k].since
      /\ \A l \in Jobs \ {k} : sync'[l] = sync[l]
  <2>1. sync[k] \in Call
    BY DEF TypeOK
  <2> HIDE DEF got
  <2> QED BY <1>1, <2>1 DEF TypeOK, Call
<1>3. clock' = clock /\ source' = source /\ projected' = projected /\ conflicts' = conflicts
      /\ job' = job /\ slipped \subseteq slipped'
  BY <1>1 DEF changedSince
<1>4. \A r \in Records : (Settled(r) => Settled(r)') /\ (Slipped(r) => Slipped(r)')
  BY <1>3 DEF Settled, Disagrees, OnRecord, Slipped
<1>5. ASSUME NEW r \in Records
      PROVE  IF got(S)[r] = Never THEN Settled(r)' ELSE got(S)[r] = source[r] \/ Slipped(r)'
  <2>1. source[r] \in Nat /\ sync[k].since \in Nat \cup {Never}
    BY CallIs DEF TypeOK
  <2>2. CASE r \in S
    BY <2>1, <2>2 DEF Never
  <2>3. CASE r \in changed \ S
    <3>1. Slipped(r)'
      BY <1>1, <1>3, <2>3 DEF Slipped
    <3> QED BY <3>1 DEF Settled
  <2>4. CASE r \notin changed
    <3>1. ~(source[r] > sync[k].since)
      BY <2>4 DEF ChangedSince
    <3>2. Settled(r)
      BY <3>1 DEF SyncInv, AsksForAll, changedSince
    <3> QED BY <1>1, <1>4, <2>4, <3>2
  <2> QED BY <2>2, <2>3, <2>4
<1> HIDE DEF got
<1> QED
  <2>1. job'[k] = job[k] /\ \A l \in Jobs \ {k} : sync'[l] = sync[l] /\ job'[l] = job[l]
    BY <1>2, <1>3
  <2> QED BY <1>2, <1>3, <1>4, <1>5, <2>1, OthersKeep

LEMMA SyncStep == TypeOK /\ TypeOK' /\ SyncInv /\ [Next]_vars => SyncInv'
<1> SUFFICES ASSUME TypeOK, TypeOK', SyncInv, [Next]_vars PROVE SyncInv'
  OBVIOUS
<1> DEFINE Same == /\ source' = source /\ projected' = projected
                   /\ conflicts' = conflicts /\ slipped' = slipped
<1>0. /\ \A k \in Jobs : sync[k] \in Call /\ sync'[k] \in Call /\ job[k] \in Row
      /\ Same => \A r \in Records : (Settled(r) <=> Settled(r)') /\ (Slipped(r) <=> Slipped(r)')
  BY DEF TypeOK, Settled, Disagrees, OnRecord, Slipped
<1>1. ASSUME UNCHANGED <<clock, source, projected, conflicts, job, sync, slipped>> PROVE SyncInv'
  BY <1>1 DEF SyncInv, InThePast, NothingIsPassedOver, AsksForAll, HoldsAll, WroteAll,
     Settled, Disagrees, Ahead, OnRecord, Slipped, Watermarks, Done
<1>2. ASSUME NEW m \in Mode, registerDataSource(m) PROVE SyncInv'
  BY <1>1, <1>2 DEF registerDataSource
<1>3. ASSUME NEW k \in Jobs, Open(k) PROVE SyncInv'
  <2>1. /\ Same /\ clock' = clock
        /\ \A l \in Jobs \ {k} : sync'[l] = sync[l] /\ job'[l] = job[l]
        /\ job'[k].finished = job[k].finished /\ job'[k].status = "RUNNING"
        /\ sync'[k].at = "started" /\ sync'[k].since = sync[k].since
    BY <1>0, <1>3 DEF Open, Step, TypeOK, Call, Row
  <2> QED BY <1>0, <2>1, OthersKeep
<1>4. ASSUME NEW k \in Jobs, ReadWatermark(k) PROVE SyncInv'
  <2>1. PICK t \in Watermarks : /\ \A u \in Watermarks : u <= t
                                /\ sync' = [sync EXCEPT ![k].at = "knows", ![k].since = t]
    BY <1>4 DEF ReadWatermark
  <2>2. /\ Same /\ clock' = clock /\ job' = job
        /\ \A l \in Jobs \ {k} : sync'[l] = sync[l]
        /\ sync'[k].at = "knows" /\ sync'[k].since = t
    BY <1>0, <1>4, <2>1 DEF ReadWatermark, TypeOK, Call
  <2>3. \A r \in Records : Settled(r) \/ source[r] > t
    BY <2>1 DEF SyncInv, NothingIsPassedOver, Settled, Slipped, Ahead
  <2> QED BY <1>0, <2>2, <2>3, OthersKeep
<1>5. ASSUME NEW k \in Jobs, Finish(k) PROVE SyncInv'
  <2>1. /\ Same /\ clock' = clock + 1
        /\ \A l \in Jobs \ {k} : sync'[l] = sync[l] /\ job'[l] = job[l]
        /\ job'[k].finished = clock'
        /\ sync'[k].at = "finished" /\ sync'[k].since = sync[k].since
    BY <1>0, <1>5 DEF Finish, Step, Ended, TypeOK, Call
  <2>2. \A r \in Records : Settled(r)
    BY <1>5 DEF Finish, Step, SyncInv, WroteAll
  <2> QED BY <1>0, <2>1, <2>2, OthersKeep
<1>6. ASSUME NEW k \in Jobs, RecordFailure(k) PROVE SyncInv'
  <2>1. /\ Same /\ clock' = clock + 1
        /\ \A l \in Jobs \ {k} : sync'[l] = sync[l] /\ job'[l] = job[l]
        /\ job'[k].finished = clock' /\ job'[k].status = "FAILED"
        /\ sync'[k].at = "failed" /\ sync'[k].since = sync[k].since
    BY <1>0, <1>6 DEF RecordFailure, Step, Ended, TypeOK, Call
  <2> QED BY <1>0, <2>1, OthersKeep
<1>7. ASSUME NEW k \in Jobs, NEW failed \in BOOLEAN,
             \/ Report(k, "finished", failed) \/ Report(k, "failed", failed)
             \/ Start(k) \/ Fail(k) \/ Stop(k)
      PROVE SyncInv'
  <2>1. PICK a \in {"read", "over", "failing"} : sync' = [sync EXCEPT ![k].at = a]
    BY <1>7 DEF Report, Step, Start, Fail, Stop
  <2>2. Same /\ clock' = clock /\ job' = job
    BY <1>7 DEF Report, Start, Fail, Stop
  <2>3. /\ \A l \in Jobs \ {k} : sync'[l] = sync[l]
        /\ sync'[k].at \in {"read", "over", "failing"} /\ sync'[k].since = sync[k].since
    BY <1>0, <2>1 DEF TypeOK, Call
  <2> QED BY <1>0, <2>2, <2>3, OthersKeep
<1>8. ASSUME NEW r \in Records, Allocate(r) PROVE SyncInv'
  BY <1>1, <1>8 DEF Allocate
<1>9. CASE UNCHANGED vars
  BY <1>1, <1>9 DEF vars
<1> QED
  BY <1>2, <1>3, <1>4, <1>5, <1>6, <1>7, <1>8, <1>9, AnswerKeeps, WriteKeeps, ChangeKeeps DEF Next

\* However many syncs of however many records fail, stop or overlap: what the platform
\* serves is what the source holds, or the next sync will ask for it, or the conflict is on
\* record, or the change slipped between an answer and the end of a sync or past the limit
\* (sync() and the adapters' changedSince()).
THEOREM NothingPassedOver == Spec => []NothingIsPassedOver
<1>1. ASSUME Init PROVE SyncInv
  <2>1. \A r \in Records : Ahead(r)
    BY <1>1 DEF Init, Ahead, Watermarks, Done, Never
  <2> QED BY <1>1, <2>1 DEF Init, SyncInv, InThePast, NothingIsPassedOver, AsksForAll, HoldsAll,
                            WroteAll, Never
<1>2. SyncInv => NothingIsPassedOver
  BY DEF SyncInv
<1> QED BY <1>1, <1>2, SyncTypeCorrect, SyncStep, PTL DEF Spec

-----------------------------------------------------------------------------
(***************************************************************************)
(* Offline.  Who is carried is on record because a request adds a row for  *)
(* each person it read before it writes the release, and rows stay: what   *)
(* has been read and is not left to do is on record at every step between. *)
(***************************************************************************)

LEMMA Bounded == MaxReleases \in Nat /\ MaxKeys \in Nat
  BY ServicesAssumption

\* Of the people a request has read, those not left to do are on record.
DoneAreOnRecord ==
    \A t \in Jobs : O!At(t, "profiles") =>
        \A p \in tab[t].people \ tab[t].left : <<tab[t].incident, p>> \in carried

\* A tab that waits for an answer asked while the device was live.
AskedWhileLive == \A t \in Jobs : O!At(t, "answer") => tab[t].since = "live"

RecordInv == /\ O!TypeOK /\ DoneAreOnRecord /\ AskedWhileLive
             /\ O!CarriedIsOnRecord /\ O!NoYesAfterRevocation

-----------------------------------------------------------------------------
(***************************************************************************)
(* What a tab remembers, by what it is at.                                 *)
(***************************************************************************)
LEMMA StepIs ==
  ASSUME NEW x \in O!Steps
  PROVE  /\ x.at \in {"register", "told", "authorise", "people", "drop"} => x.incident \in Incidents
         /\ x.at = "profiles" => x.incident \in Incidents /\ x.people \in SUBSET People
                                 /\ x.left \in SUBSET People
         /\ x.at \in {"keep", "make", "ask"} =>
                x.incident \in Incidents /\ x.release \in 1..MaxReleases
         /\ x.at = "seal" => /\ x.incident \in Incidents /\ x.release \in 1..MaxReleases
                             /\ x.key \in 1..MaxKeys
         /\ x.at = "answer" => x.incident \in Incidents /\ x.release \in 1..MaxReleases
  BY DEF O!Steps, O!Idle

LEMMA GoesIs ==
  ASSUME O!TypeOK, NEW t \in Jobs, NEW step \in O!Steps, O!Goes(t, step)
  PROVE  /\ tab' \in [Jobs -> O!Steps] /\ tab'[t] = step
         /\ \A u \in Jobs \ {t} : tab'[u] = tab[u]
  BY DEF O!TypeOK, O!Goes

\* A tab that is at neither of the two steps the invariant speaks of.
LEMMA TabKeeps ==
  ASSUME DoneAreOnRecord, AskedWhileLive, NEW t \in Jobs, carried \subseteq carried',
         \A u \in Jobs \ {t} : tab'[u] = tab[u],
         tab'[t].at \notin {"profiles", "answer"}
  PROVE  DoneAreOnRecord' /\ AskedWhileLive'
  BY DEF DoneAreOnRecord, AskedWhileLive, O!At

\* The steps after which a tab is at neither, and that leave the releases alone.
LEMMA PlainKeeps ==
  ASSUME RecordInv, NEW t \in Jobs, NEW step \in O!Steps, O!Goes(t, step),
         step.at \notin {"profiles", "answer"}, releases' = releases, carried' = carried,
         late' = late
  PROVE  /\ tab' \in [Jobs -> O!Steps]
         /\ DoneAreOnRecord' /\ AskedWhileLive' /\ O!CarriedIsOnRecord' /\ O!NoYesAfterRevocation'
<1>1. /\ tab' \in [Jobs -> O!Steps] /\ tab'[t] = step
      /\ \A u \in Jobs \ {t} : tab'[u] = tab[u]
  BY GoesIs DEF RecordInv
<1>2. DoneAreOnRecord' /\ AskedWhileLive'
  BY <1>1, TabKeeps DEF RecordInv
<1>3. O!CarriedIsOnRecord' /\ O!NoYesAfterRevocation'
  BY DEF RecordInv, O!CarriedIsOnRecord, O!NoYesAfterRevocation
<1> QED BY <1>1, <1>2, <1>3

\* The steps of the platform and of time, which no tab takes.
LEMMA TabsStay ==
  ASSUME RecordInv, tab' = tab, carried' = carried, late' = late
  PROVE  /\ tab' \in [Jobs -> O!Steps]
         /\ DoneAreOnRecord' /\ AskedWhileLive' /\ O!NoYesAfterRevocation'
  BY DEF RecordInv, O!TypeOK, DoneAreOnRecord, AskedWhileLive, O!NoYesAfterRevocation, O!At

-----------------------------------------------------------------------------
(***************************************************************************)
(* The request that keeps a pack, on the platform.                         *)
(***************************************************************************)
LEMMA OnKeeps ==
  ASSUME NEW at \in {"register", "told", "authorise", "people", "drop"}, NEW i \in Incidents
  PROVE  O!On(at, i) \in O!Steps /\ O!On(at, i).at = at
  BY DEF O!On, O!Steps

LEMMA TakeKeeps ==
  ASSUME RecordInv, NEW t \in Jobs, NEW i \in Incidents, O!Take(t, i)
  PROVE  RecordInv'
<1> DEFINE at == IF token THEN "authorise" ELSE "register"
<1>1. O!Goes(t, O!On(at, i)) /\ UNCHANGED <<O!platform, O!store, late>>
  BY DEF O!Take
<1>2. O!On(at, i) \in O!Steps /\ O!On(at, i).at \notin {"profiles", "answer"}
  BY OnKeeps
<1>3. /\ tab' \in [Jobs -> O!Steps]
      /\ DoneAreOnRecord' /\ AskedWhileLive' /\ O!CarriedIsOnRecord' /\ O!NoYesAfterRevocation'
  BY <1>1, <1>2, PlainKeeps DEF O!platform
<1> QED BY <1>1, <1>3 DEF RecordInv, O!TypeOK, O!platform, O!store

LEMMA RegisterKeeps ==
  ASSUME RecordInv, NEW t \in Jobs, O!Register(t) \/ O!WriteToken(t) \/ O!Authorise(t)
  PROVE  RecordInv'
<1>1. tab[t].incident \in Incidents
  BY StepIs DEF O!Register, O!WriteToken, O!Authorise, O!At, RecordInv, O!TypeOK
<1>2. PICK at \in {"told", "authorise", "people"} : O!Goes(t, O!On(at, tab[t].incident))
  BY DEF O!Register, O!WriteToken, O!Authorise
<1>3. UNCHANGED <<releases, attached, open, carried, key, keys, packs, late>>
  BY DEF O!Register, O!WriteToken, O!Authorise, O!platform, O!store
<1>4. O!On(at, tab[t].incident) \in O!Steps
      /\ O!On(at, tab[t].incident).at \notin {"profiles", "answer"}
  BY <1>1, OnKeeps
<1>5. /\ tab' \in [Jobs -> O!Steps]
      /\ DoneAreOnRecord' /\ AskedWhileLive' /\ O!CarriedIsOnRecord' /\ O!NoYesAfterRevocation'
  BY <1>2, <1>3, <1>4, PlainKeeps
<1>6. device' \in {"none", "live", "revoked"} /\ token' \in BOOLEAN
  BY DEF O!Register, O!WriteToken, O!Authorise, O!platform, O!store, RecordInv, O!TypeOK
<1> QED BY <1>3, <1>5, <1>6 DEF RecordInv, O!TypeOK

\* Nobody is done when the people are read.
LEMMA ReadPeopleKeeps ==
  ASSUME RecordInv, NEW t \in Jobs, O!ReadPeople(t)
  PROVE  RecordInv'
<1> DEFINE i == tab[t].incident
           read == [at |-> "profiles", incident |-> i, people |-> attached[i], left |-> attached[i]]
<1>1. /\ O!Goes(t, read) /\ UNCHANGED <<O!platform, O!store, late>> /\ i \in Incidents
  BY StepIs DEF O!ReadPeople, O!At, RecordInv, O!TypeOK
<1>2. read \in O!Steps
  <2>1. attached[i] \in SUBSET People
    BY <1>1 DEF RecordInv, O!TypeOK
  <2>2. read \in [at : {"profiles"}, incident : Incidents, people : SUBSET People,
                  left : SUBSET People]
    BY <1>1, <2>1
  <2> QED BY <2>2 DEF O!Steps
<1>3. /\ tab' \in [Jobs -> O!Steps] /\ tab'[t] = read
      /\ \A u \in Jobs \ {t} : tab'[u] = tab[u]
  <2> HIDE DEF read
  <2> QED BY <1>1, <1>2, GoesIs DEF RecordInv
<1>4. DoneAreOnRecord'
  BY <1>1, <1>3 DEF RecordInv, DoneAreOnRecord, O!At, O!platform
<1>5. AskedWhileLive'
  BY <1>3 DEF RecordInv, AskedWhileLive, O!At
<1>6. O!CarriedIsOnRecord' /\ O!NoYesAfterRevocation'
  BY <1>1 DEF RecordInv, O!CarriedIsOnRecord, O!NoYesAfterRevocation, O!platform
<1>7. O!TypeOK'
  BY <1>1, <1>3 DEF RecordInv, O!TypeOK, O!platform, O!store
<1> QED BY <1>4, <1>5, <1>6, <1>7 DEF RecordInv

\* One more person is done, and has a row.
LEMMA ReadProfileKeeps ==
  ASSUME RecordInv, NEW t \in Jobs, O!ReadProfile(t)
  PROVE  RecordInv'
<1>1. PICK p \in tab[t].left :
        /\ carried' = carried \cup {<<tab[t].incident, p>>}
        /\ tab' = [tab EXCEPT ![t].left = @ \ {p}]
  BY DEF O!ReadProfile, O!Recorded
<1>2. /\ O!At(t, "profiles") /\ tab[t] \in O!Steps
      /\ UNCHANGED <<device, releases, attached, open, O!store, late>>
  BY DEF O!ReadProfile, RecordInv, O!TypeOK
<1>3. /\ tab[t].incident \in Incidents /\ tab[t].people \in SUBSET People
      /\ tab[t].left \in SUBSET People
  BY <1>2, StepIs DEF O!At
<1> DEFINE next == [at |-> "profiles", incident |-> tab[t].incident, people |-> tab[t].people,
                    left |-> tab[t].left \ {p}]
<1>4. next \in O!Steps
  <2>1. next \in [at : {"profiles"}, incident : Incidents, people : SUBSET People,
                  left : SUBSET People]
    BY <1>3
  <2> QED BY <2>1 DEF O!Steps
<1>5. tab' = [tab EXCEPT ![t] = next]
  <2>1. tab[t] \in [at : {"profiles"}, incident : Incidents, people : SUBSET People,
                    left : SUBSET People]
    BY <1>2 DEF O!Steps, O!At, O!Idle
  <2>2. [tab[t] EXCEPT !.left = tab[t].left \ {p}] = next
    BY <2>1
  <2> QED BY <1>1, <2>2
<1>6. /\ tab' \in [Jobs -> O!Steps] /\ tab'[t] = next
      /\ \A u \in Jobs \ {t} : tab'[u] = tab[u]
  <2> HIDE DEF next
  <2> QED BY <1>4, <1>5 DEF RecordInv, O!TypeOK
<1>7. DoneAreOnRecord'
  <2>1. ASSUME NEW q \in tab[t].people \ (tab[t].left \ {p})
        PROVE  <<tab[t].incident, q>> \in carried'
    BY <1>1, <1>2 DEF RecordInv, DoneAreOnRecord
  <2>2. ASSUME NEW u \in Jobs \ {t}, O!At(u, "profiles")'
        PROVE  \A q \in (tab[u].people \ tab[u].left)' : <<tab[u].incident, q>>' \in carried'
    BY <1>1, <1>6, <2>2 DEF RecordInv, DoneAreOnRecord, O!At
  <2> QED BY <1>6, <2>1, <2>2 DEF DoneAreOnRecord
<1>8. AskedWhileLive'
  BY <1>6 DEF RecordInv, AskedWhileLive, O!At
<1>9. O!CarriedIsOnRecord' /\ O!NoYesAfterRevocation'
  BY <1>1, <1>2 DEF RecordInv, O!CarriedIsOnRecord, O!NoYesAfterRevocation
<1>10. O!TypeOK'
  BY <1>1, <1>2, <1>3, <1>6 DEF RecordInv, O!TypeOK, O!store
<1> QED BY <1>7, <1>8, <1>9, <1>10 DEF RecordInv

\* Everybody the request read is done, and the release names them.
LEMMA InsertReleaseKeeps ==
  ASSUME RecordInv, NEW t \in Jobs, O!InsertRelease(t)
  PROVE  RecordInv'
<1> DEFINE row == [incident |-> tab[t].incident, people |-> tab[t].people, valid |-> TRUE]
           keep == [at |-> "keep", incident |-> tab[t].incident, release |-> Len(releases) + 1]
<1>1. /\ O!At(t, "profiles") /\ tab[t].left = {} /\ Len(releases) < MaxReleases
      /\ releases' = Append(releases, row) /\ O!Goes(t, keep)
      /\ UNCHANGED <<device, attached, open, carried, O!store, late>>
  BY DEF O!InsertRelease
<1>2. /\ tab[t].incident \in Incidents /\ tab[t].people \in SUBSET People
      /\ releases \in Seq(O!Release)
  BY <1>1, StepIs DEF O!At, RecordInv, O!TypeOK
<1>3. row \in O!Release /\ keep \in O!Steps
  <2>1. Len(releases) + 1 \in 1..MaxReleases
    BY <1>1, <1>2, Bounded
  <2> QED BY <1>2, <2>1 DEF O!Release, O!Steps
<1>4. /\ releases' \in Seq(O!Release) /\ Len(releases') = Len(releases) + 1
      /\ \A r \in DOMAIN releases' :
            \/ releases'[r] = row
            \/ r \in DOMAIN releases /\ releases'[r] = releases[r]
  <2> HIDE DEF row
  <2>1. /\ releases' \in Seq(O!Release) /\ Len(releases') = Len(releases) + 1
    BY <1>1, <1>2, <1>3
  <2>2. ASSUME NEW r \in 1..Len(releases')
        PROVE  releases'[r] = row \/ (r \in 1..Len(releases) /\ releases'[r] = releases[r])
    <3>1. CASE r = Len(releases) + 1
      BY <1>1, <1>2, <1>3, <3>1
    <3>2. CASE r # Len(releases) + 1
      <4>1. r \in 1..Len(releases)
        BY <1>2, <2>1, <3>2
      <4> QED BY <1>1, <1>2, <1>3, <4>1
    <3> QED BY <3>1, <3>2
  <2>3. DOMAIN releases = 1..Len(releases) /\ DOMAIN releases' = 1..Len(releases')
    BY <1>2, <2>1
  <2> QED BY <2>1, <2>2, <2>3
<1>5. /\ tab' \in [Jobs -> O!Steps] /\ tab'[t] = keep
      /\ \A u \in Jobs \ {t} : tab'[u] = tab[u]
  <2> HIDE DEF keep
  <2> QED BY <1>1, <1>3, GoesIs DEF RecordInv
<1>6. DoneAreOnRecord' /\ AskedWhileLive'
  BY <1>1, <1>5, TabKeeps DEF RecordInv
<1>7. O!CarriedIsOnRecord'
  <2>1. \A p \in row.people : <<row.incident, p>> \in carried
    BY <1>1 DEF RecordInv, DoneAreOnRecord
  <2> HIDE DEF row
  <2> QED BY <1>1, <1>4, <2>1 DEF RecordInv, O!CarriedIsOnRecord
<1>8. O!NoYesAfterRevocation'
  BY <1>1 DEF RecordInv, O!NoYesAfterRevocation
<1>9. O!TypeOK'
  BY <1>1, <1>2, <1>4, <1>5, Bounded DEF RecordInv, O!TypeOK, O!store
<1> QED BY <1>6, <1>7, <1>8, <1>9 DEF RecordInv

-----------------------------------------------------------------------------
(***************************************************************************)
(* Refusals, and the store of the device.                                  *)
(***************************************************************************)
LEMMA RefusedKeeps ==
  ASSUME RecordInv, NEW t \in Jobs, O!Refused(t)
  PROVE  RecordInv'
<1> DEFINE erase == [at |-> "erase", device |-> device]
<1>1. O!Goes(t, erase) /\ UNCHANGED <<O!platform, O!store, late>>
  BY DEF O!Refused
<1>2. erase \in O!Steps /\ erase.at = "erase"
  BY DEF O!Steps, RecordInv, O!TypeOK
<1>3. /\ tab' \in [Jobs -> O!Steps]
      /\ DoneAreOnRecord' /\ AskedWhileLive' /\ O!CarriedIsOnRecord' /\ O!NoYesAfterRevocation'
  <2> HIDE DEF erase
  <2> QED BY <1>1, <1>2, PlainKeeps DEF O!platform
<1> QED BY <1>1, <1>3 DEF RecordInv, O!TypeOK, O!platform, O!store

LEMMA IdleKeeps ==
  ASSUME RecordInv, NEW t \in Jobs,
         O!EraseEverything(t) \/ O!Keep(t) \/ O!Drop(t) \/ O!Leave(t)
  PROVE  RecordInv'
<1>1. O!Goes(t, O!Idle) /\ UNCHANGED <<device, releases, attached, open, carried, keys, late>>
  BY DEF O!EraseEverything, O!Keep, O!Drop, O!Leave, O!platform, O!store
<1>2. O!Idle \in O!Steps /\ O!Idle.at \notin {"profiles", "answer"}
  BY DEF O!Idle, O!Steps
<1>3. /\ tab' \in [Jobs -> O!Steps]
      /\ DoneAreOnRecord' /\ AskedWhileLive' /\ O!CarriedIsOnRecord' /\ O!NoYesAfterRevocation'
  BY <1>1, <1>2, PlainKeeps
<1>4. packs' \in [Incidents -> O!Pack \cup {NoPack}]
  <2>1. CASE O!EraseEverything(t) \/ O!Drop(t) \/ O!Leave(t)
    BY <2>1 DEF O!EraseEverything, O!Drop, O!Leave, O!store, RecordInv, O!TypeOK
  <2>2. CASE O!Keep(t)
    <3>1. tab[t].release \in 1..MaxReleases /\ tab[t].key \in 1..MaxKeys
      BY <2>2, StepIs DEF O!Keep, O!At, RecordInv, O!TypeOK
    <3>2. [release |-> tab[t].release, key |-> tab[t].key, expired |-> FALSE] \in O!Pack
      BY <3>1 DEF O!Pack
    <3> QED BY <2>2, <3>2 DEF O!Keep, RecordInv, O!TypeOK
  <2> QED BY <2>1, <2>2
<1>5. token' \in BOOLEAN /\ key' \in 0..MaxKeys
  <2>1. CASE O!EraseEverything(t)
    <3>1. 0 \in 0..MaxKeys
      BY Bounded
    <3> QED BY <2>1, <3>1 DEF O!EraseEverything, RecordInv, O!TypeOK
  <2> QED BY <2>1 DEF O!Keep, O!Drop, O!Leave, O!store, RecordInv, O!TypeOK
<1> QED BY <1>1, <1>3, <1>4, <1>5 DEF RecordInv, O!TypeOK

\* keep() reads the key, or makes one, and seals with it.
LEMMA KeyKeeps ==
  ASSUME RecordInv, NEW t \in Jobs, O!ReadKey(t) \/ O!MakeKey(t)
  PROVE  RecordInv'
<1>1. /\ tab[t].incident \in Incidents /\ tab[t].release \in 1..MaxReleases
      /\ tab[t].at \in {"keep", "make"} /\ tab[t] \in O!Steps
  BY StepIs DEF O!ReadKey, O!MakeKey, O!At, RecordInv, O!TypeOK
<1>2. /\ UNCHANGED <<O!platform, token, packs, late>>
      /\ key' \in 0..MaxKeys /\ keys' \in 0..MaxKeys
      /\ \/ \E k \in 1..MaxKeys : O!Goes(t, O!SealedWith(t, k))
         \/ O!Goes(t, [tab[t] EXCEPT !.at = "make"])
  <2>1. CASE O!ReadKey(t) /\ key # 0
    BY <2>1, Bounded DEF O!ReadKey, O!store, RecordInv, O!TypeOK
  <2>2. CASE O!ReadKey(t) /\ key = 0
    <3>1. /\ O!Goes(t, [tab[t] EXCEPT !.at = "make"]) /\ UNCHANGED <<O!platform, O!store, late>>
      BY <2>2 DEF O!ReadKey
    <3> QED BY <3>1 DEF O!store, RecordInv, O!TypeOK
  <2>3. CASE O!MakeKey(t)
    BY <2>3, Bounded DEF O!MakeKey, RecordInv, O!TypeOK
  <2> QED BY <2>1, <2>2, <2>3
<1>3. PICK step \in O!Steps : O!Goes(t, step) /\ step.at \notin {"profiles", "answer"}
  <2>1. \A k \in 1..MaxKeys : O!SealedWith(t, k) \in O!Steps /\ O!SealedWith(t, k).at = "seal"
    BY <1>1 DEF O!SealedWith, O!Steps
  <2>2. [tab[t] EXCEPT !.at = "make"] \in O!Steps /\ [tab[t] EXCEPT !.at = "make"].at = "make"
    <3>1. tab[t] \in [at : {"keep", "make", "ask"}, incident : Incidents,
                      release : 1..MaxReleases]
      BY <1>1 DEF O!Steps, O!Idle
    <3> QED BY <3>1 DEF O!Steps
  <2> QED BY <1>2, <2>1, <2>2
<1>4. /\ tab' \in [Jobs -> O!Steps]
      /\ DoneAreOnRecord' /\ AskedWhileLive' /\ O!CarriedIsOnRecord' /\ O!NoYesAfterRevocation'
  BY <1>2, <1>3, PlainKeeps DEF O!platform
<1> QED BY <1>2, <1>4 DEF RecordInv, O!TypeOK, O!platform

-----------------------------------------------------------------------------
(***************************************************************************)
(* A page that opens a pack.                                               *)
(***************************************************************************)
LEMMA OpenKeeps ==
  ASSUME RecordInv, NEW t \in Jobs, NEW i \in Incidents, O!Open(t, i)
  PROVE  RecordInv'
<1> DEFINE ask == [at |-> "ask", incident |-> i, release |-> packs[i].release]
<1>1. PICK step \in {O!On("drop", i), ask, O!Idle} : O!Goes(t, step)
  BY DEF O!Open
<1>2. ask \in O!Steps /\ ask.at = "ask"
  <2>1. packs[i].release \in 1..MaxReleases
    BY DEF O!Open, O!Pack, RecordInv, O!TypeOK
  <2> QED BY <2>1 DEF O!Steps
<1>3. step \in O!Steps /\ step.at \notin {"profiles", "answer"}
  <2>1. O!Idle \in O!Steps /\ O!Idle.at = "idle"
    BY DEF O!Idle, O!Steps
  <2> HIDE DEF ask
  <2> QED BY <1>2, <2>1, OnKeeps
<1>4. UNCHANGED <<O!platform, token, packs, late>>
  BY DEF O!Open
<1>5. /\ tab' \in [Jobs -> O!Steps]
      /\ DoneAreOnRecord' /\ AskedWhileLive' /\ O!CarriedIsOnRecord' /\ O!NoYesAfterRevocation'
  BY <1>1, <1>3, <1>4, PlainKeeps DEF O!platform
<1>6. key' \in 0..MaxKeys /\ keys' \in 0..MaxKeys
  <2>1. CASE key' = key /\ keys' = keys
    BY <2>1 DEF RecordInv, O!TypeOK
  <2>2. CASE key = 0 /\ key' = keys + 1 /\ keys' = keys + 1
    BY <2>2, Bounded DEF O!Open, RecordInv, O!TypeOK
  <2> QED BY <2>1, <2>2 DEF O!Open
<1> QED BY <1>4, <1>5, <1>6 DEF RecordInv, O!TypeOK, O!platform

\* The device is asked for first, so who has no live one gets no yes later.
LEMMA AskKeeps ==
  ASSUME RecordInv, NEW t \in Jobs, O!Ask(t)
  PROVE  RecordInv'
<1>1. /\ tab[t].incident \in Incidents /\ tab[t].release \in 1..MaxReleases
      /\ UNCHANGED <<O!platform, O!store, late>>
  BY StepIs DEF O!Ask, O!At, RecordInv, O!TypeOK
<1>2. CASE O!Goes(t, O!On("drop", tab[t].incident))
  <2>1. O!On("drop", tab[t].incident) \in O!Steps /\ O!On("drop", tab[t].incident).at = "drop"
    BY <1>1, OnKeeps
  <2>2. /\ tab' \in [Jobs -> O!Steps]
        /\ DoneAreOnRecord' /\ AskedWhileLive' /\ O!CarriedIsOnRecord' /\ O!NoYesAfterRevocation'
    BY <1>1, <1>2, <2>1, PlainKeeps DEF O!platform
  <2> QED BY <1>1, <2>2 DEF RecordInv, O!TypeOK, O!platform, O!store
<1> DEFINE answer == [at |-> "answer", incident |-> tab[t].incident, release |-> tab[t].release,
                      since |-> device]
<1>3. CASE O!LiveDevice /\ O!Goes(t, answer)
  <2>1. answer \in O!Steps /\ answer.at = "answer" /\ answer.since = "live"
    BY <1>1, <1>3 DEF O!Steps, O!LiveDevice
  <2>2. /\ tab' \in [Jobs -> O!Steps] /\ tab'[t] = answer
        /\ \A u \in Jobs \ {t} : tab'[u] = tab[u]
    <3> HIDE DEF answer
    <3> QED BY <1>3, <2>1, GoesIs DEF RecordInv
  <2>3. DoneAreOnRecord'
    BY <1>1, <2>2 DEF RecordInv, DoneAreOnRecord, O!At, O!platform
  <2>4. AskedWhileLive'
    <3> HIDE DEF answer
    <3> QED BY <2>1, <2>2 DEF RecordInv, AskedWhileLive, O!At
  <2>5. O!CarriedIsOnRecord' /\ O!NoYesAfterRevocation'
    BY <1>1 DEF RecordInv, O!CarriedIsOnRecord, O!NoYesAfterRevocation, O!platform
  <2> QED BY <1>1, <2>2, <2>3, <2>4, <2>5 DEF RecordInv, O!TypeOK, O!platform, O!store
<1> QED BY <1>2, <1>3 DEF O!Ask

LEMMA AnsweredKeeps ==
  ASSUME RecordInv, NEW t \in Jobs, O!Answer(t)
  PROVE  RecordInv'
<1>1. tab[t].incident \in Incidents /\ tab[t].since = "live"
  BY StepIs DEF O!Answer, O!At, RecordInv, O!TypeOK, AskedWhileLive
<1>2. UNCHANGED <<O!platform, O!store>> /\ late' = late
  BY <1>1 DEF O!Answer, RecordInv, O!TypeOK
<1>3. PICK step \in {O!Idle, O!On("drop", tab[t].incident)} : O!Goes(t, step)
  BY DEF O!Answer
<1>4. step \in O!Steps /\ step.at \notin {"profiles", "answer"}
  <2>1. O!Idle \in O!Steps /\ O!Idle.at = "idle"
    BY DEF O!Idle, O!Steps
  <2> QED BY <1>1, <2>1, OnKeeps
<1>5. /\ tab' \in [Jobs -> O!Steps]
      /\ DoneAreOnRecord' /\ AskedWhileLive' /\ O!CarriedIsOnRecord' /\ O!NoYesAfterRevocation'
  BY <1>2, <1>3, <1>4, PlainKeeps DEF O!platform
<1> QED BY <1>2, <1>5 DEF RecordInv, O!TypeOK, O!platform, O!store

-----------------------------------------------------------------------------
(***************************************************************************)
(* The platform and time.                                                  *)
(***************************************************************************)
LEMMA RevokeKeeps ==
  ASSUME RecordInv, O!RevokeDevice
  PROVE  RecordInv'
<1>1. /\ device' = "revoked" /\ UNCHANGED <<attached, open, carried, O!store, tab, late>>
      /\ releases' = [r \in DOMAIN releases |-> [releases[r] EXCEPT !.valid = FALSE]]
  BY DEF O!RevokeDevice
<1>2. releases \in Seq(O!Release) /\ Len(releases) <= MaxReleases
  BY DEF RecordInv, O!TypeOK
<1>3. \A r \in DOMAIN releases :
        /\ [releases[r] EXCEPT !.valid = FALSE] \in O!Release
        /\ [releases[r] EXCEPT !.valid = FALSE].people = releases[r].people
        /\ [releases[r] EXCEPT !.valid = FALSE].incident = releases[r].incident
  <2>1. ASSUME NEW x \in O!Release
        PROVE  /\ [x EXCEPT !.valid = FALSE] \in O!Release
               /\ [x EXCEPT !.valid = FALSE].people = x.people
               /\ [x EXCEPT !.valid = FALSE].incident = x.incident
    BY DEF O!Release
  <2> QED BY <1>2, <2>1
<1>4. releases' \in Seq(O!Release) /\ Len(releases') = Len(releases)
  <2> DEFINE ended(r) == [releases[r] EXCEPT !.valid = FALSE]
  <2>1. /\ releases' = [r \in 1..Len(releases) |-> ended(r)]
        /\ \A r \in 1..Len(releases) : ended(r) \in O!Release /\ Len(releases) \in Nat
    BY <1>1, <1>2, <1>3
  <2> HIDE DEF ended
  <2> QED BY <1>2, <2>1
<1>5. O!CarriedIsOnRecord'
  <2>1. DOMAIN releases' = DOMAIN releases
    BY <1>1
  <2>2. ASSUME NEW r \in DOMAIN releases
        PROVE  /\ releases'[r].people = releases[r].people
               /\ releases'[r].incident = releases[r].incident
    BY <1>1, <1>3, <2>2
  <2> QED BY <1>1, <2>1, <2>2 DEF RecordInv, O!CarriedIsOnRecord
<1>6. /\ tab' \in [Jobs -> O!Steps]
      /\ DoneAreOnRecord' /\ AskedWhileLive' /\ O!NoYesAfterRevocation'
  BY <1>1, TabsStay
<1>7. O!TypeOK'
  BY <1>1, <1>2, <1>4, <1>6 DEF RecordInv, O!TypeOK, O!store
<1> QED BY <1>5, <1>6, <1>7 DEF RecordInv

LEMMA TimeKeeps ==
  ASSUME RecordInv, NEW i \in Incidents, O!Expire(i) \/ O!Stand(i)
  PROVE  RecordInv'
<1>1. UNCHANGED <<device, releases, attached, carried, token, key, keys, tab, late>>
  BY DEF O!Expire, O!Stand, O!platform, O!store
<1>2. packs' \in [Incidents -> O!Pack \cup {NoPack}] /\ open' \in SUBSET Incidents
  <2>1. CASE O!Expire(i)
    <3>1. packs[i] \in O!Pack
      BY <2>1 DEF O!Expire, RecordInv, O!TypeOK
    <3>2. packs' = [packs EXCEPT ![i] = [packs[i] EXCEPT !.expired = TRUE]]
      BY <2>1 DEF O!Expire
    <3>3. [packs[i] EXCEPT !.expired = TRUE] \in O!Pack
      BY <3>1 DEF O!Pack
    <3> QED BY <2>1, <3>2, <3>3 DEF O!Expire, O!platform, RecordInv, O!TypeOK
  <2>2. CASE O!Stand(i)
    BY <2>2 DEF O!Stand, O!store, RecordInv, O!TypeOK
  <2> QED BY <2>1, <2>2
<1>3. O!CarriedIsOnRecord'
  BY <1>1 DEF RecordInv, O!CarriedIsOnRecord
<1>4. /\ tab' \in [Jobs -> O!Steps]
      /\ DoneAreOnRecord' /\ AskedWhileLive' /\ O!NoYesAfterRevocation'
  BY <1>1, TabsStay
<1> QED BY <1>1, <1>2, <1>3, <1>4 DEF RecordInv, O!TypeOK

-----------------------------------------------------------------------------
LEMMA RecordInit == ASSUME O!Init PROVE RecordInv
<1>1. O!Idle \in O!Steps /\ O!Idle.at = "idle"
  BY DEF O!Idle, O!Steps
<1>2. O!TypeOK
  <2>1. <<>> \in Seq(O!Release) /\ Len(<<>>) <= MaxReleases /\ 0 \in 0..MaxKeys
    BY Bounded
  <2>2. [i \in Incidents |-> NoPack] \in [Incidents -> O!Pack \cup {NoPack}]
    OBVIOUS
  <2>3. [t \in Jobs |-> O!Idle] \in [Jobs -> O!Steps]
    BY <1>1
  <2> QED BY <2>1, <2>2, <2>3 DEF O!Init, O!TypeOK
<1>3. DoneAreOnRecord /\ AskedWhileLive
  BY <1>1 DEF O!Init, DoneAreOnRecord, AskedWhileLive, O!At
<1> QED BY <1>2, <1>3 DEF O!Init, RecordInv, O!CarriedIsOnRecord, O!NoYesAfterRevocation

LEMMA RecordStep == ASSUME RecordInv, [O!Next]_(O!vars) PROVE RecordInv'
<1>1. CASE UNCHANGED O!vars
  <2>1. UNCHANGED <<device, releases, attached, open, carried, token, key, keys, packs, tab, late>>
    BY <1>1 DEF O!vars
  <2>2. O!CarriedIsOnRecord'
    BY <2>1 DEF RecordInv, O!CarriedIsOnRecord
  <2>3. /\ tab' \in [Jobs -> O!Steps]
        /\ DoneAreOnRecord' /\ AskedWhileLive' /\ O!NoYesAfterRevocation'
    BY <2>1, TabsStay
  <2> QED BY <2>1, <2>2, <2>3 DEF RecordInv, O!TypeOK
<1>2. ASSUME NEW t \in Jobs, NEW i \in Incidents, O!Take(t, i) \/ O!Open(t, i) PROVE RecordInv'
  BY <1>2, TakeKeeps, OpenKeeps
<1>3. ASSUME NEW t \in Jobs, \/ O!Register(t) \/ O!WriteToken(t) \/ O!Authorise(t)
                             \/ O!ReadPeople(t) \/ O!ReadProfile(t) \/ O!InsertRelease(t)
      PROVE  RecordInv'
  BY <1>3, RegisterKeeps, ReadPeopleKeeps, ReadProfileKeeps, InsertReleaseKeeps
<1>4. ASSUME NEW t \in Jobs, \/ O!Refused(t) \/ O!EraseEverything(t) \/ O!Keep(t) \/ O!Drop(t)
                             \/ O!Leave(t) \/ O!ReadKey(t) \/ O!MakeKey(t)
      PROVE  RecordInv'
  BY <1>4, RefusedKeeps, IdleKeeps, KeyKeeps
<1>5. ASSUME NEW t \in Jobs, O!Ask(t) \/ O!Answer(t) PROVE RecordInv'
  BY <1>5, AskKeeps, AnsweredKeeps
<1>6. ASSUME NEW i \in Incidents, O!Expire(i) \/ O!Stand(i) PROVE RecordInv'
  BY <1>6, TimeKeeps
<1> QED BY <1>1, <1>2, <1>3, <1>4, <1>5, <1>6, RevokeKeeps DEF O!Next

\* The device, the platform's rows and what each tab remembers have the right types.
THEOREM OfflineTypeCorrect == O!Spec => []O!TypeOK
<1>1. O!Init => RecordInv
  BY RecordInit
<1>2. RecordInv /\ [O!Next]_(O!vars) => RecordInv'
  BY RecordStep
<1>3. RecordInv => O!TypeOK
  BY DEF RecordInv
<1> QED BY <1>1, <1>2, <1>3, PTL DEF O!Spec

\* Wherever the request that keeps a pack stops, and whoever is attached to the incident
\* or signs the device out meanwhile, nobody is carried without a row against their name
\* (incidentProfiles() and release() of offline.service.ts), and no question asked after
\* the revocation is answered yes (releaseStanding()).
THEOREM CarriedOnRecord ==
  O!Spec => [](O!CarriedIsOnRecord /\ O!NoYesAfterRevocation)
<1>1. O!Init => RecordInv
  BY RecordInit
<1>2. RecordInv /\ [O!Next]_(O!vars) => RecordInv'
  BY RecordStep
<1>3. RecordInv => O!CarriedIsOnRecord /\ O!NoYesAfterRevocation
  BY DEF RecordInv
<1> QED BY <1>1, <1>2, <1>3, PTL DEF O!Spec

-----------------------------------------------------------------------------
(***************************************************************************)
(* MatchingEngine.  No weight reaches the threshold alone, and a pairing   *)
(* for which one attribute speaks has nothing but that weight to its name. *)
(***************************************************************************)
LEMMA WeightsAre ==
  ASSUME NEW p \in Pairings
  PROVE  /\ Weights(p).sex \in {15, -25, 0} /\ Weights(p).age \in {25, 10, -20, 0}
         /\ Weights(p).location \in {25, 15, 0} /\ Weights(p).timing \in {20, 10, 0}
         /\ Weights(p).distinguishingFeatures \in 0..30
<1>1. /\ p.sex \in {"same", "differs", "unknown"}
      /\ p.age \in {"inside", "near", "far", "unknown"}
      /\ p.location \in {"ward", "lga", "elsewhere"}
      /\ p.timing \in {"days", "weeks", "later"}
      /\ p.features \in {0} \cup 11..30
  BY DEF Pairings
<1>2. Weights(p).sex \in {15, -25, 0}
  BY <1>1 DEF Weights
<1>3. Weights(p).age \in {25, 10, -20, 0}
  BY <1>1 DEF Weights
<1>4. Weights(p).location \in {25, 15, 0} /\ Weights(p).timing \in {20, 10, 0}
  BY <1>1 DEF Weights
<1>5. Weights(p).distinguishingFeatures \in 0..30
  BY <1>1 DEF Weights
<1> QED BY <1>2, <1>3, <1>4, <1>5

LEMMA CandidatesAreSeveral == Candidates \subseteq {TRUE}
<1>1. ASSUME NEW p \in Pairings, Score(p) >= CANDIDATE_THRESHOLD PROVE Several(p)
  <2> DEFINE a == Weights(p).sex
             b == Weights(p).age
             c == Weights(p).location
             d == Weights(p).timing
             e == Weights(p).distinguishingFeatures
  <2>1. /\ a \in Int /\ b \in Int /\ c \in Int /\ d \in Int /\ e \in Int
        /\ a <= 15 /\ b <= 25 /\ c <= 25 /\ d <= 20 /\ e <= 30
    BY WeightsAre
  <2>2. a + b + c + d + e >= 45
    <3>1. Score(p) = Clamp(a + b + c + d + e)
      BY DEF Score
    <3> HIDE DEF a, b, c, d, e
    <3> QED BY <1>1, <2>1, <3>1 DEF Clamp, CANDIDATE_THRESHOLD
  <2>3. /\ Weights(p)["sex"] = a /\ Weights(p)["age"] = b /\ Weights(p)["location"] = c
        /\ Weights(p)["timing"] = d /\ Weights(p)["distinguishingFeatures"] = e
    OBVIOUS
  <2> HIDE DEF a, b, c, d, e
  <2>4. \/ a > 0 /\ (b > 0 \/ c > 0 \/ d > 0 \/ e > 0)
        \/ b > 0 /\ (c > 0 \/ d > 0 \/ e > 0)
        \/ c > 0 /\ (d > 0 \/ e > 0)
        \/ d > 0 /\ e > 0
    BY <2>1, <2>2
  <2> QED BY <2>3, <2>4 DEF Several, Attributes
<1> QED BY <1>1 DEF Candidates, Several

-----------------------------------------------------------------------------
(***************************************************************************)
(* MissingPersons.  Matches are never removed, keep the two people they    *)
(* join and stay reviewed once they were; and a run of the engine that is  *)
(* under way holds only pairings for which several attributes speak.       *)
(***************************************************************************)
Raised == [found : Found, several : BOOLEAN]

\* The match an officer is asked about is there.
ReviewsExist == \A r \in Jobs : serving[r].at = "review" => serving[r].match \in DOMAIN matches

\* What a run of the engine has yet to write has several attributes behind it.
RaisedAreSeveral ==
    \A r \in Jobs : serving[r].at = "matching" =>
        \A i \in DOMAIN serving[r].found : serving[r].found[i].several

MatchingInv == M!TypeOK /\ ReviewsExist /\ RaisedAreSeveral /\ M!NamedOnEvidence

LEMMA ServingIs ==
  ASSUME NEW x \in M!Request
  PROVE  /\ x.at \in {"update", "profile"} => x.who \in Missing
         /\ x.at = "describe" => x.who \in Found
         /\ x.at = "review" => x.match \in 1..MaxMatches
         /\ x.at = "matching" => /\ x \in [at : {"matching"}, who : Missing, found : Seq(Raised)]
                                 /\ x.who \in Missing /\ x.found \in Seq(Raised)
  BY DEF M!Request, M!Idle, Raised

LEMMA ServingGoes ==
  ASSUME serving \in [Jobs -> M!Request], NEW r \in Jobs, NEW step \in M!Request,
         serving' = [serving EXCEPT ![r] = step]
  PROVE  /\ serving' \in [Jobs -> M!Request] /\ serving'[r] = step
         /\ \A q \in Jobs \ {r} : serving'[q] = serving[q]
  OBVIOUS

LEMMA RequestsBegin ==
  /\ M!Idle \in M!Request /\ M!Idle.at = "idle"
  /\ \A p \in Missing : /\ \A seen \in BOOLEAN :
                              [at |-> "update", who |-> p, seen |-> seen] \in M!Request
                        /\ [at |-> "profile", who |-> p] \in M!Request
  /\ \A u \in Found, seen \in M!FoundStatus :
        [at |-> "describe", who |-> u, seen |-> seen] \in M!Request
  /\ \A m \in 1..MaxMatches, seen \in M!MatchStatus :
        [at |-> "review", match |-> m, seen |-> seen] \in M!Request
  BY DEF M!Request, M!Idle

\* A step that writes no match and names nobody keeps all but the types, whatever it
\* makes of a request that is not about matches afterwards.
LEMMA MatchesStay ==
  ASSUME MatchingInv, matches' = matches,
         \A u \in Found : found'[u].identity = found[u].identity,
         \A q \in Jobs : serving'[q] = serving[q] \/ serving'[q].at \notin {"review", "matching"}
  PROVE  ReviewsExist' /\ RaisedAreSeveral' /\ M!NamedOnEvidence'
<1>1. ReviewsExist' /\ RaisedAreSeveral'
  BY DEF MatchingInv, ReviewsExist, RaisedAreSeveral
<1>2. M!IdentityRestsOnReview'
  BY DEF MatchingInv, M!NamedOnEvidence, M!IdentityRestsOnReview
<1>3. M!CandidateRestsOnSeveral'
  BY DEF MatchingInv, M!NamedOnEvidence, M!CandidateRestsOnSeveral
<1> QED BY <1>1, <1>2, <1>3 DEF M!NamedOnEvidence

\* A request that begins with a look at a row, or ends.
LEMMA LooksKeep ==
  ASSUME MatchingInv, NEW r \in Jobs, NEW step \in M!Request,
         serving' = [serving EXCEPT ![r] = step], step.at # "matching",
         step.at = "review" => step.match \in DOMAIN matches,
         UNCHANGED <<missing, found, matches, sightings>>
  PROVE  MatchingInv'
<1>1. /\ serving' \in [Jobs -> M!Request] /\ serving'[r] = step
      /\ \A q \in Jobs \ {r} : serving'[q] = serving[q]
  BY ServingGoes DEF MatchingInv, M!TypeOK
<1>2. ReviewsExist' /\ RaisedAreSeveral'
  BY <1>1 DEF MatchingInv, ReviewsExist, RaisedAreSeveral
<1>3. M!IdentityRestsOnReview'
  BY DEF MatchingInv, M!NamedOnEvidence, M!IdentityRestsOnReview
<1>4. M!CandidateRestsOnSeveral'
  BY DEF MatchingInv, M!NamedOnEvidence, M!CandidateRestsOnSeveral
<1> QED BY <1>1, <1>2, <1>3, <1>4 DEF MatchingInv, M!TypeOK, M!NamedOnEvidence

LEMMA LookStep ==
  ASSUME MatchingInv, NEW r \in Jobs,
         \/ \E p \in Missing : M!ReadForUpdate(r, p) \/ M!ReadProfile(r, p)
         \/ \E u \in Found : M!ReadToDescribe(r, u)
         \/ \E m \in 1..MaxMatches : M!ReadMatch(r, m)
         \/ M!MatchingEnds(r) \/ M!Stops(r)
  PROVE  MatchingInv'
<1>1. UNCHANGED <<missing, found, matches, sightings>>
  BY DEF M!ReadForUpdate, M!ReadProfile, M!ReadToDescribe, M!ReadMatch, M!MatchingEnds, M!Stops
<1>2. /\ \A p \in Missing : missing[p].resolved \in BOOLEAN
      /\ \A u \in Found : found[u].status \in M!FoundStatus
      /\ \A m \in DOMAIN matches : matches[m].status \in M!MatchStatus
  <2>1. /\ \A p \in Missing : missing[p] \in M!MissingPerson
        /\ \A u \in Found : found[u] \in M!UnidentifiedPerson
        /\ \A m \in DOMAIN matches : matches[m] \in M!Match
    BY DEF MatchingInv, M!TypeOK
  <2> QED BY <2>1 DEF M!MissingPerson, M!UnidentifiedPerson, M!FoundStatus, M!Match, M!MatchStatus
<1>3. PICK step \in M!Request :
        /\ serving' = [serving EXCEPT ![r] = step] /\ step.at # "matching"
        /\ step.at = "review" => step.match \in DOMAIN matches
  BY <1>2, RequestsBegin DEF M!ReadForUpdate, M!ReadProfile, M!ReadToDescribe, M!ReadMatch,
     M!MatchingEnds, M!Stops, M!Begins, M!Ends
<1> QED BY <1>1, <1>3, LooksKeep

\* The rows of the registers.
LEMMA MissingRow ==
  ASSUME NEW x \in M!MissingPerson
  PROVE  /\ \A s \in M!Outcome \cup {"ACTIVE"} : [x EXCEPT !.status = s] \in M!MissingPerson
         /\ \A s \in M!Outcome : [status |-> s, resolved |-> TRUE] \in M!MissingPerson
  BY DEF M!MissingPerson, M!Outcome

LEMMA FoundRow ==
  ASSUME NEW y \in M!UnidentifiedPerson, NEW s \in M!Unnamed \cup {"CLOSED"}
  PROVE  /\ [y EXCEPT !.status = s] \in M!UnidentifiedPerson
         /\ [y EXCEPT !.status = s].identity = y.identity
  BY DEF M!UnidentifiedPerson, M!FoundStatus, M!Unnamed

LEMMA MissingRowStep ==
  ASSUME MatchingInv, NEW r \in Jobs,
         \/ \E p \in Missing : M!CreateMissingPerson(r, p)
         \/ \E p \in Missing, o \in M!Outcome : M!ResolveMissingPerson(r, p, o)
         \/ \E s \in {"ACTIVE", "CLOSED"} : M!UpdateMissingPerson(r, s)
  PROVE  MatchingInv'
<1>1. PICK p \in Missing, row \in M!MissingPerson :
        /\ missing' = [missing EXCEPT ![p] = row]
        /\ UNCHANGED <<found, matches, sightings>>
        /\ serving' = serving \/ serving' = [serving EXCEPT ![r] = M!Idle]
  <2>0. \A p \in Missing : missing[p] \in M!MissingPerson
    BY DEF MatchingInv, M!TypeOK
  <2>1. CASE \E p \in Missing : M!CreateMissingPerson(r, p)
    <3>1. PICK p \in Missing : M!CreateMissingPerson(r, p)
      BY <2>1
    <3>2. [missing[p] EXCEPT !.status = "ACTIVE"] \in M!MissingPerson
      BY <2>0, MissingRow
    <3> QED BY <3>1, <3>2 DEF M!CreateMissingPerson
  <2>2. CASE \E p \in Missing, o \in M!Outcome : M!ResolveMissingPerson(r, p, o)
    <3>1. PICK p \in Missing, o \in M!Outcome : M!ResolveMissingPerson(r, p, o)
      BY <2>2
    <3>2. [status |-> o, resolved |-> TRUE] \in M!MissingPerson
      BY <2>0, MissingRow
    <3> QED BY <3>1, <3>2 DEF M!ResolveMissingPerson
  <2>3. CASE \E s \in {"ACTIVE", "CLOSED"} : M!UpdateMissingPerson(r, s)
    <3>1. serving[r].who \in Missing
      BY <2>3, ServingIs DEF M!UpdateMissingPerson, M!At, MatchingInv, M!TypeOK
    <3>2. PICK s \in M!Outcome \cup {"ACTIVE"} : M!UpdateMissingPerson(r, s)
      BY <2>3 DEF M!Outcome
    <3>3. [missing[serving[r].who] EXCEPT !.status = s] \in M!MissingPerson
      BY <2>0, <3>1, MissingRow
    <3> QED BY <3>1, <3>2, <3>3 DEF M!UpdateMissingPerson, M!Ends
  <2> QED BY <2>1, <2>2, <2>3
<1>2. /\ serving' \in [Jobs -> M!Request]
      /\ \A q \in Jobs : serving'[q] = serving[q] \/ serving'[q].at \notin {"review", "matching"}
  BY <1>1, RequestsBegin DEF MatchingInv, M!TypeOK
<1>3. ReviewsExist' /\ RaisedAreSeveral' /\ M!NamedOnEvidence'
  BY <1>1, <1>2, MatchesStay
<1> QED BY <1>1, <1>2, <1>3 DEF MatchingInv, M!TypeOK

LEMMA FoundRowStep ==
  ASSUME MatchingInv, NEW r \in Jobs,
         \/ \E u \in Found : M!CreateUnidentifiedPerson(r, u)
         \/ \E s \in M!Unnamed \cup {"CLOSED"} : M!UpdateUnidentifiedPerson(r, s)
  PROVE  MatchingInv'
<1>0. \A u \in Found : found[u] \in M!UnidentifiedPerson
  BY DEF MatchingInv, M!TypeOK
<1>1. PICK u \in Found, row \in M!UnidentifiedPerson :
        /\ found' = [found EXCEPT ![u] = row] /\ row.identity = found[u].identity
        /\ UNCHANGED <<missing, matches, sightings>>
        /\ serving' = serving \/ serving' = [serving EXCEPT ![r] = M!Idle]
  <2>1. CASE \E u \in Found : M!CreateUnidentifiedPerson(r, u)
    <3>1. PICK u \in Found : M!CreateUnidentifiedPerson(r, u)
      BY <2>1
    <3>2. /\ [found[u] EXCEPT !.status = "UNIDENTIFIED"] \in M!UnidentifiedPerson
          /\ [found[u] EXCEPT !.status = "UNIDENTIFIED"].identity = found[u].identity
      BY <1>0, FoundRow DEF M!Unnamed
    <3> QED BY <3>1, <3>2 DEF M!CreateUnidentifiedPerson
  <2>2. CASE \E s \in M!Unnamed \cup {"CLOSED"} : M!UpdateUnidentifiedPerson(r, s)
    <3>1. serving[r].who \in Found
      BY <2>2, ServingIs DEF M!UpdateUnidentifiedPerson, M!At, MatchingInv, M!TypeOK
    <3>2. PICK s \in M!Unnamed \cup {"CLOSED"} : M!UpdateUnidentifiedPerson(r, s)
      BY <2>2
    <3> DEFINE u == serving[r].who
    <3>3. /\ [found[u] EXCEPT !.status = s] \in M!UnidentifiedPerson
          /\ [found[u] EXCEPT !.status = s].identity = found[u].identity
      BY <1>0, <3>1, FoundRow
    <3> QED BY <3>1, <3>2, <3>3 DEF M!UpdateUnidentifiedPerson, M!Ends
  <2> QED BY <2>1, <2>2
<1>2. /\ serving' \in [Jobs -> M!Request]
      /\ \A q \in Jobs : serving'[q] = serving[q] \/ serving'[q].at \notin {"review", "matching"}
  BY <1>1, RequestsBegin DEF MatchingInv, M!TypeOK
<1>3. \A v \in Found : found'[v].identity = found[v].identity
  BY <1>0, <1>1 DEF MatchingInv, M!TypeOK
<1>4. ReviewsExist' /\ RaisedAreSeveral' /\ M!NamedOnEvidence'
  BY <1>1, <1>2, <1>3, MatchesStay
<1> QED BY <1>1, <1>2, <1>4 DEF MatchingInv, M!TypeOK

LEMMA SightingStep ==
  ASSUME MatchingInv, NEW r \in Jobs,
         \/ \E p \in Missing : M!ReportSighting(r, p)
         \/ \E s \in 1..MaxSightings, v \in {"VERIFIED", "DISCOUNTED"} : M!ReviewSighting(r, s, v)
  PROVE  MatchingInv'
<1>1. UNCHANGED <<missing, found, matches, serving>>
  BY DEF M!ReportSighting, M!ReviewSighting
<1>2. sightings' \in Seq(M!Sighting) /\ Len(sightings') <= MaxSightings
  <2>1. sightings \in Seq(M!Sighting) /\ Len(sightings) <= MaxSightings /\ MaxSightings \in Nat
    BY ServicesAssumption DEF MatchingInv, M!TypeOK
  <2>2. CASE \E p \in Missing : M!ReportSighting(r, p)
    <3>1. sightings' = Append(sightings, "UNVERIFIED") /\ Len(sightings) < MaxSightings
      BY <2>2 DEF M!ReportSighting
    <3>2. "UNVERIFIED" \in M!Sighting
      BY DEF M!Sighting
    <3> QED BY <2>1, <3>1, <3>2
  <2>3. CASE \E s \in 1..MaxSightings, v \in {"VERIFIED", "DISCOUNTED"} : M!ReviewSighting(r, s, v)
    <3>1. PICK s \in DOMAIN sightings, v \in M!Sighting : sightings' = [sightings EXCEPT ![s] = v]
      BY <2>3 DEF M!ReviewSighting, M!Sighting
    <3> QED BY <2>1, <3>1
  <2> QED BY <2>2, <2>3
<1>3. ReviewsExist' /\ RaisedAreSeveral' /\ M!NamedOnEvidence'
  BY <1>1, MatchesStay
<1> QED BY <1>1, <1>2, <1>3 DEF MatchingInv, M!TypeOK

\* What the engine says of the candidates it found.
LEMMA FindStep ==
  ASSUME MatchingInv, NEW r \in Jobs, M!FindCandidates(r)
  PROVE  MatchingInv'
<1>0. PICK someone \in SUBSET M!Considered :
        \E raised \in [someone -> Candidates], order \in [1..M!Cardinality(someone) -> someone] :
           serving' = [serving EXCEPT ![r] =
              [at |-> "matching", who |-> serving[r].who,
               found |-> [i \in DOMAIN order |-> [found |-> order[i], several |-> raised[order[i]]]]]]
  BY DEF M!FindCandidates
<1>1. PICK raised \in [someone -> Candidates], order \in [1..M!Cardinality(someone) -> someone] :
        serving' = [serving EXCEPT ![r] =
              [at |-> "matching", who |-> serving[r].who,
               found |-> [i \in DOMAIN order |-> [found |-> order[i], several |-> raised[order[i]]]]]]
  BY <1>0
<1>2. UNCHANGED <<missing, found, matches, sightings>> /\ serving[r].at = "profile"
  BY DEF M!FindCandidates, M!At
<1> DEFINE pairs == [i \in 1..M!Cardinality(someone) |->
                        [found |-> order[i], several |-> raised[order[i]]]]
           step == [at |-> "matching", who |-> serving[r].who, found |-> pairs]
<1>3. M!Cardinality(someone) \in Nat
  <2>1. someone \subseteq Found
    BY DEF M!Considered
  <2>2. IsFiniteSet(someone)
    BY <2>1, ServicesAssumption, FS_Subset
  <2> QED BY <2>2, FS_CardinalityType DEF M!Cardinality, Cardinality
<1>4. /\ pairs \in Seq(Raised) /\ DOMAIN pairs = 1..M!Cardinality(someone)
      /\ \A i \in DOMAIN pairs : pairs[i].several
  <2>1. \A i \in 1..M!Cardinality(someone) :
          [found |-> order[i], several |-> raised[order[i]]] \in Raised
          /\ raised[order[i]] = TRUE
    BY CandidatesAreSeveral DEF M!Considered, Raised
  <2>2. pairs \in Seq(Raised)
    BY <1>3, <2>1
  <2> QED BY <2>1, <2>2
<1>5. step \in M!Request
  <2>1. serving[r].who \in Missing
    BY <1>2, ServingIs DEF MatchingInv, M!TypeOK
  <2> HIDE DEF pairs
  <2>2. step \in [at : {"matching"}, who : Missing, found : Seq(Raised)]
    BY <1>4, <2>1
  <2> QED BY <2>2 DEF M!Request, Raised
<1>6. /\ serving' \in [Jobs -> M!Request] /\ serving'[r] = step
      /\ \A q \in Jobs \ {r} : serving'[q] = serving[q]
  <2>1. serving' = [serving EXCEPT ![r] = step]
    BY <1>1
  <2> HIDE DEF step
  <2> QED BY <1>5, <2>1, ServingGoes DEF MatchingInv, M!TypeOK
<1>7. step.at = "matching" /\ step.found = pairs
  OBVIOUS
<1> HIDE DEF step, pairs
<1>8. ReviewsExist' /\ RaisedAreSeveral'
  BY <1>2, <1>4, <1>6, <1>7 DEF MatchingInv, ReviewsExist, RaisedAreSeveral
<1>9. M!IdentityRestsOnReview' /\ M!CandidateRestsOnSeveral'
  BY <1>2 DEF MatchingInv, M!NamedOnEvidence, M!IdentityRestsOnReview, M!CandidateRestsOnSeveral
<1> QED BY <1>2, <1>6, <1>8, <1>9 DEF MatchingInv, M!TypeOK, M!NamedOnEvidence

\* A candidate is a new row, after all there are.
LEMMA InsertStep ==
  ASSUME MatchingInv, NEW r \in Jobs, M!InsertCandidate(r)
  PROVE  MatchingInv'
<1> DEFINE left == serving[r].found
           row == [missing |-> serving[r].who, found |-> Head(left).found,
                   several |-> Head(left).several, status |-> "CANDIDATE", reviewed |-> FALSE]
           step == [serving[r] EXCEPT !.found = Tail(left)]
<1>1. /\ serving[r].at = "matching" /\ left # <<>> /\ Len(matches) < MaxMatches
      /\ matches' = Append(matches, row) /\ serving' = [serving EXCEPT ![r].found = Tail(left)]
      /\ UNCHANGED <<missing, found, sightings>>
  BY DEF M!InsertCandidate, M!At
<1>2. /\ serving[r] \in [at : {"matching"}, who : Missing, found : Seq(Raised)]
      /\ serving[r].who \in Missing /\ left \in Seq(Raised)
  BY <1>1, ServingIs DEF MatchingInv, M!TypeOK
<1>3. /\ Head(left) \in Raised /\ Head(left).several
      /\ Tail(left) \in Seq(Raised) /\ \A i \in DOMAIN Tail(left) : Tail(left)[i].several
  <2>1. \A i \in DOMAIN left : left[i].several
    BY <1>1 DEF MatchingInv, RaisedAreSeveral
  <2> HIDE DEF left
  <2> QED BY <1>1, <1>2, <2>1
<1>4. row \in M!Match /\ row.several /\ row.reviewed = FALSE
  BY <1>2, <1>3 DEF M!Match, M!MatchStatus, Raised
<1>5. step \in M!Request /\ step.at = "matching" /\ step.found = Tail(left)
  <2>1. step \in [at : {"matching"}, who : Missing, found : Seq(Raised)]
        /\ step.at = "matching" /\ step.found = Tail(left)
    BY <1>2, <1>3
  <2> QED BY <2>1 DEF M!Request, Raised
<1>6. /\ serving' \in [Jobs -> M!Request] /\ serving'[r] = step
      /\ \A q \in Jobs \ {r} : serving'[q] = serving[q]
  <2>1. serving' = [serving EXCEPT ![r] = step]
    BY <1>1
  <2> HIDE DEF step
  <2> QED BY <1>5, <2>1, ServingGoes DEF MatchingInv, M!TypeOK
<1>7. /\ matches' \in Seq(M!Match) /\ Len(matches') <= MaxMatches
      /\ DOMAIN matches \subseteq DOMAIN matches'
      /\ \A m \in DOMAIN matches : matches'[m] = matches[m]
      /\ \A m \in DOMAIN matches' : m \in DOMAIN matches \/ matches'[m] = row
  <2>1. matches \in Seq(M!Match) /\ MaxMatches \in Nat
    BY ServicesAssumption DEF MatchingInv, M!TypeOK
  <2> HIDE DEF row
  <2>2. matches' \in Seq(M!Match) /\ Len(matches') = Len(matches) + 1
    BY <1>1, <1>4, <2>1
  <2>3. \A m \in 1..Len(matches) : matches'[m] = matches[m]
    BY <1>1, <1>4, <2>1
  <2>4. matches'[Len(matches) + 1] = row
    BY <1>1, <1>4, <2>1
  <2> QED BY <1>1, <2>1, <2>2, <2>3, <2>4
<1> HIDE DEF row, step, left
<1>8. ReviewsExist' /\ RaisedAreSeveral'
  BY <1>3, <1>5, <1>6, <1>7 DEF MatchingInv, ReviewsExist, RaisedAreSeveral
<1>9. M!IdentityRestsOnReview'
  BY <1>1, <1>7 DEF MatchingInv, M!NamedOnEvidence, M!IdentityRestsOnReview
<1>10. M!CandidateRestsOnSeveral'
  BY <1>4, <1>7 DEF MatchingInv, M!NamedOnEvidence, M!CandidateRestsOnSeveral
<1> QED BY <1>1, <1>6, <1>7, <1>8, <1>9, <1>10 DEF MatchingInv, M!TypeOK, M!NamedOnEvidence

\* A decision rewrites rows in place: who they join and what speaks for them stays, and
\* what was reviewed is.
LEMMA DecisionKeeps ==
  ASSUME MatchingInv, NEW r \in Jobs, serving' = [serving EXCEPT ![r] = M!Idle],
         matches' \in Seq(M!Match), DOMAIN matches' = DOMAIN matches,
         \A m \in DOMAIN matches :
            /\ matches'[m].missing = matches[m].missing /\ matches'[m].found = matches[m].found
            /\ matches'[m].several = matches[m].several
            /\ matches[m].reviewed => matches'[m].reviewed,
         missing' \in [Missing -> M!MissingPerson], found' \in [Found -> M!UnidentifiedPerson],
         sightings' = sightings,
         \A u \in Found : \/ found'[u].identity \in {NoOne, found[u].identity}
                          \/ \E m \in DOMAIN matches' :
                                /\ matches'[m].found = u
                                /\ matches'[m].missing = found'[u].identity /\ matches'[m].reviewed
  PROVE  MatchingInv'
<1>1. /\ serving' \in [Jobs -> M!Request] /\ serving'[r].at = "idle"
      /\ \A q \in Jobs \ {r} : serving'[q] = serving[q]
  BY ServingGoes, RequestsBegin DEF MatchingInv, M!TypeOK
<1>2. Len(matches') <= MaxMatches
  <2>1. matches \in Seq(M!Match) /\ Len(matches) <= MaxMatches
    BY DEF MatchingInv, M!TypeOK
  <2>2. 1..Len(matches') = 1..Len(matches)
    BY <2>1
  <2>3. Len(matches') \in Nat /\ Len(matches) \in Nat
    BY <2>1
  <2>4. Len(matches') = Len(matches)
    BY <2>2, <2>3
  <2> QED BY <2>1, <2>4
<1>3. ReviewsExist' /\ RaisedAreSeveral'
  BY <1>1 DEF MatchingInv, ReviewsExist, RaisedAreSeveral
<1>4. M!IdentityRestsOnReview'
  <2>1. SUFFICES ASSUME NEW u \in Found, found'[u].identity # NoOne
                 PROVE  \E m \in DOMAIN matches' :
                           /\ matches'[m].found = u /\ matches'[m].missing = found'[u].identity
                           /\ matches'[m].reviewed
    BY DEF M!IdentityRestsOnReview
  <2>2. CASE found'[u].identity = found[u].identity
    BY <2>1, <2>2 DEF MatchingInv, M!NamedOnEvidence, M!IdentityRestsOnReview
  <2> QED BY <2>1, <2>2
<1>5. M!CandidateRestsOnSeveral'
  BY DEF MatchingInv, M!NamedOnEvidence, M!CandidateRestsOnSeveral
<1> QED BY <1>1, <1>2, <1>3, <1>4, <1>5 DEF MatchingInv, M!TypeOK, M!NamedOnEvidence

LEMMA MatchReviewed ==
  ASSUME NEW x \in M!Match, NEW s \in {"CONFIRMED", "REJECTED"}
  PROVE  /\ [x EXCEPT !.status = s, !.reviewed = TRUE] \in M!Match
         /\ [x EXCEPT !.status = s, !.reviewed = TRUE].reviewed
         /\ [x EXCEPT !.status = s, !.reviewed = TRUE].missing = x.missing
         /\ [x EXCEPT !.status = s, !.reviewed = TRUE].found = x.found
         /\ [x EXCEPT !.status = s, !.reviewed = TRUE].several = x.several
  BY DEF M!Match, M!MatchStatus

LEMMA MatchSuperseded ==
  ASSUME NEW x \in M!Match
  PROVE  /\ [x EXCEPT !.status = "SUPERSEDED"] \in M!Match
         /\ [x EXCEPT !.status = "SUPERSEDED"].reviewed = x.reviewed
         /\ [x EXCEPT !.status = "SUPERSEDED"].missing = x.missing
         /\ [x EXCEPT !.status = "SUPERSEDED"].found = x.found
         /\ [x EXCEPT !.status = "SUPERSEDED"].several = x.several
  BY DEF M!Match, M!MatchStatus

LEMMA RejectStep ==
  ASSUME MatchingInv, NEW r \in Jobs, M!Reject(r)
  PROVE  MatchingInv'
<1> DEFINE m == serving[r].match
<1>1. /\ matches' = [matches EXCEPT ![m] = [matches[m] EXCEPT !.status = "REJECTED", !.reviewed = TRUE]]
      /\ serving' = [serving EXCEPT ![r] = M!Idle] /\ UNCHANGED <<missing, found, sightings>>
  BY DEF M!Reject, M!Ends
<1>2. m \in DOMAIN matches /\ matches \in Seq(M!Match) /\ DOMAIN matches = 1..Len(matches)
  BY DEF M!Reject, M!At, MatchingInv, M!TypeOK, ReviewsExist
<1>3. PICK row \in M!Match : /\ row = [matches[m] EXCEPT !.status = "REJECTED", !.reviewed = TRUE]
                             /\ row.missing = matches[m].missing /\ row.found = matches[m].found
                             /\ row.several = matches[m].several /\ row.reviewed
  <2>1. matches[m] \in M!Match
    BY <1>2
  <2> HIDE DEF m
  <2> QED BY <2>1, MatchReviewed
<1>4. matches' = [matches EXCEPT ![m] = row]
  BY <1>1, <1>3
<1> HIDE DEF m
<1>5. matches' \in Seq(M!Match) /\ DOMAIN matches' = DOMAIN matches
  BY <1>2, <1>4
<1>6. \A n \in DOMAIN matches :
         /\ matches'[n].missing = matches[n].missing /\ matches'[n].found = matches[n].found
         /\ matches'[n].several = matches[n].several
         /\ matches[n].reviewed => matches'[n].reviewed
  BY <1>2, <1>3, <1>4
<1>7. missing' \in [Missing -> M!MissingPerson] /\ found' \in [Found -> M!UnidentifiedPerson]
      /\ \A u \in Found : found'[u].identity \in {NoOne, found[u].identity}
  BY <1>1 DEF MatchingInv, M!TypeOK
<1> QED BY <1>1, <1>5, <1>6, <1>7, DecisionKeeps

\* The name a confirmation writes is that of the match it confirms.
LEMMA ConfirmStep ==
  ASSUME MatchingInv, NEW r \in Jobs, M!Confirm(r)
  PROVE  MatchingInv'
<1> DEFINE m == serving[r].match
           row(n) == IF n = m THEN [matches[n] EXCEPT !.status = "CONFIRMED", !.reviewed = TRUE]
                     ELSE IF n \in M!Superseded(m) THEN [matches[n] EXCEPT !.status = "SUPERSEDED"]
                     ELSE matches[n]
           p == matches[m].missing
           named == M!Identified(m)
<1>1. /\ matches' = [n \in DOMAIN matches |-> row(n)]
      /\ found' = [found EXCEPT ![matches[m].found] = named]
      /\ missing' = [missing EXCEPT ![p].status =
                        IF missing[p].status = "REUNITED" THEN missing[p].status ELSE "LOCATED"]
      /\ serving' = [serving EXCEPT ![r] = M!Idle] /\ sightings' = sightings
  BY DEF M!Confirm, M!Ends
<1>2. m \in DOMAIN matches /\ matches \in Seq(M!Match) /\ DOMAIN matches = 1..Len(matches)
      /\ Len(matches) \in Nat
  <2>1. serving[r].at = "review" /\ matches \in Seq(M!Match) /\ m \in DOMAIN matches
    BY DEF M!Confirm, M!At, MatchingInv, M!TypeOK, ReviewsExist
  <2> QED BY <2>1
<1>3. /\ \A n \in DOMAIN matches :
            /\ row(n) \in M!Match /\ row(n).missing = matches[n].missing
            /\ row(n).found = matches[n].found /\ row(n).several = matches[n].several
            /\ matches[n].reviewed => row(n).reviewed
      /\ row(m).reviewed
  <2>1. \A n \in DOMAIN matches : matches[n] \in M!Match
    BY <1>2
  <2>2. ASSUME NEW n \in DOMAIN matches
        PROVE  /\ row(n) \in M!Match /\ row(n).missing = matches[n].missing
               /\ row(n).found = matches[n].found /\ row(n).several = matches[n].several
               /\ matches[n].reviewed => row(n).reviewed
               /\ n = m => row(n).reviewed
    <3>1. CASE n = m
      <4>1. row(n) = [matches[n] EXCEPT !.status = "CONFIRMED", !.reviewed = TRUE]
        BY <3>1
      <4> HIDE DEF row
      <4> QED BY <2>1, <4>1, MatchReviewed
    <3>2. CASE n # m /\ n \in M!Superseded(m)
      <4>1. row(n) = [matches[n] EXCEPT !.status = "SUPERSEDED"]
        BY <3>2
      <4> HIDE DEF row
      <4> QED BY <2>1, <3>2, <4>1, MatchSuperseded
    <3>3. CASE n # m /\ n \notin M!Superseded(m)
      BY <2>1, <3>3
    <3> QED BY <3>1, <3>2, <3>3
  <2> HIDE DEF row
  <2> QED BY <1>2, <2>2
<1>4. matches[m].found \in Found /\ p \in Missing
  <2>1. matches[m] \in M!Match
    BY <1>2
  <2> HIDE DEF m
  <2> QED BY <2>1 DEF M!Match, M!MatchStatus
<1>5. named \in M!UnidentifiedPerson /\ named.identity \in {NoOne, p}
  BY <1>4 DEF M!Identified, M!UnidentifiedPerson, M!FoundStatus, M!Named
<1>6. missing' \in [Missing -> M!MissingPerson]
  <2>0. missing \in [Missing -> M!MissingPerson]
    BY DEF MatchingInv, M!TypeOK
  <2>1. PICK s \in M!Outcome : missing' = [missing EXCEPT ![p] = [missing[p] EXCEPT !.status = s]]
    BY <1>1 DEF M!Outcome
  <2>2. [missing[p] EXCEPT !.status = s] \in M!MissingPerson
    BY <1>4, <2>0, MissingRow
  <2> HIDE DEF p
  <2> QED BY <1>4, <2>0, <2>1, <2>2
<1> HIDE DEF row, named
<1>7. matches' \in Seq(M!Match) /\ DOMAIN matches' = DOMAIN matches
  BY <1>1, <1>2, <1>3
<1>8. /\ \A n \in DOMAIN matches :
            /\ matches'[n].missing = matches[n].missing /\ matches'[n].found = matches[n].found
            /\ matches'[n].several = matches[n].several
            /\ matches[n].reviewed => matches'[n].reviewed
      /\ matches'[m].reviewed
  BY <1>1, <1>2, <1>3
<1>9. /\ found' \in [Found -> M!UnidentifiedPerson]
      /\ \A u \in Found : \/ found'[u].identity \in {NoOne, found[u].identity}
                          \/ u = matches[m].found /\ found'[u].identity = p
  <2>1. found \in [Found -> M!UnidentifiedPerson]
    BY DEF MatchingInv, M!TypeOK
  <2> HIDE DEF p, m
  <2> QED BY <1>1, <1>4, <1>5, <2>1
<1>10. \A u \in Found : \/ found'[u].identity \in {NoOne, found[u].identity}
                        \/ \E n \in DOMAIN matches' :
                              /\ matches'[n].found = u
                              /\ matches'[n].missing = found'[u].identity /\ matches'[n].reviewed
  BY <1>2, <1>7, <1>8, <1>9
<1> QED BY <1>1, <1>6, <1>7, <1>8, <1>9, <1>10, DecisionKeeps

LEMMA MatchingStarts == ASSUME M!Init PROVE MatchingInv
<1>1. M!TypeOK
  <2>1. <<>> \in Seq(M!Match) /\ Len(<<>>) = 0 /\ <<>> \in Seq(M!Sighting)
    OBVIOUS
  <2>2. missing \in [Missing -> M!MissingPerson] /\ found \in [Found -> M!UnidentifiedPerson]
    BY DEF M!Init, M!MissingPerson, M!UnidentifiedPerson, M!FoundStatus
  <2> QED BY <2>1, <2>2, RequestsBegin, ServicesAssumption DEF M!Init, M!TypeOK
<1>2. ReviewsExist /\ RaisedAreSeveral
  BY RequestsBegin DEF M!Init, ReviewsExist, RaisedAreSeveral
<1>3. M!IdentityRestsOnReview /\ M!CandidateRestsOnSeveral
  BY DEF M!Init, M!IdentityRestsOnReview, M!CandidateRestsOnSeveral
<1> QED BY <1>1, <1>2, <1>3 DEF MatchingInv, M!NamedOnEvidence

LEMMA MatchingStep == ASSUME MatchingInv, [M!Next]_(M!vars) PROVE MatchingInv'
<1>1. CASE UNCHANGED M!vars
  <2>1. UNCHANGED <<missing, found, matches, sightings, serving>>
    BY <1>1 DEF M!vars
  <2>2. ReviewsExist' /\ RaisedAreSeveral' /\ M!NamedOnEvidence'
    BY <2>1, MatchesStay
  <2> QED BY <2>1, <2>2 DEF MatchingInv, M!TypeOK
<1>2. CASE M!Next
  <2>1. PICK r \in Jobs :
       \/ \E p \in Missing :
             \/ M!CreateMissingPerson(r, p) \/ M!ReadForUpdate(r, p)
             \/ M!ReportSighting(r, p) \/ M!ReadProfile(r, p)
             \/ \E outcome \in M!Outcome : M!ResolveMissingPerson(r, p, outcome)
       \/ \E u \in Found : M!CreateUnidentifiedPerson(r, u) \/ M!ReadToDescribe(r, u)
       \/ \E s \in {"ACTIVE", "CLOSED"} : M!UpdateMissingPerson(r, s)
       \/ \E s \in 1..MaxSightings, v \in {"VERIFIED", "DISCOUNTED"} : M!ReviewSighting(r, s, v)
       \/ \E s \in M!Unnamed \cup {"CLOSED"} : M!UpdateUnidentifiedPerson(r, s)
       \/ M!FindCandidates(r) \/ M!InsertCandidate(r) \/ M!MatchingEnds(r)
       \/ \E m \in 1..MaxMatches : M!ReadMatch(r, m)
       \/ M!Reject(r) \/ M!Confirm(r) \/ M!Stops(r)
    BY <1>2 DEF M!Next
  <2>2. CASE \/ \E p \in Missing : M!ReadForUpdate(r, p) \/ M!ReadProfile(r, p)
             \/ \E u \in Found : M!ReadToDescribe(r, u)
             \/ \E m \in 1..MaxMatches : M!ReadMatch(r, m)
             \/ M!MatchingEnds(r) \/ M!Stops(r)
    BY <2>2, LookStep
  <2>3. CASE \/ \E p \in Missing : M!CreateMissingPerson(r, p)
             \/ \E p \in Missing, o \in M!Outcome : M!ResolveMissingPerson(r, p, o)
             \/ \E s \in {"ACTIVE", "CLOSED"} : M!UpdateMissingPerson(r, s)
    BY <2>3, MissingRowStep
  <2>4. CASE \/ \E u \in Found : M!CreateUnidentifiedPerson(r, u)
             \/ \E s \in M!Unnamed \cup {"CLOSED"} : M!UpdateUnidentifiedPerson(r, s)
    BY <2>4, FoundRowStep
  <2>5. CASE \/ \E p \in Missing : M!ReportSighting(r, p)
             \/ \E s \in 1..MaxSightings, v \in {"VERIFIED", "DISCOUNTED"} :
                   M!ReviewSighting(r, s, v)
    BY <2>5, SightingStep
  <2>6. CASE M!FindCandidates(r) \/ M!InsertCandidate(r) \/ M!Reject(r) \/ M!Confirm(r)
    BY <2>6, FindStep, InsertStep, RejectStep, ConfirmStep
  <2> QED BY <2>1, <2>2, <2>3, <2>4, <2>5, <2>6
<1> QED BY <1>1, <1>2

\* Whatever order officers, runs of the engine and failures come in, and however many
\* people are in the registers: nobody who was found is named but by an officer who
\* reviewed the match that joins the two (reviewMatch()), and no match rests on a single
\* attribute (scorePair()).
THEOREM NamedOnEvidenceHolds == M!Spec => [](M!TypeOK /\ M!NamedOnEvidence)
<1>1. M!Init => MatchingInv
  BY MatchingStarts
<1>2. MatchingInv /\ [M!Next]_(M!vars) => MatchingInv'
  BY MatchingStep
<1>3. MatchingInv => M!TypeOK /\ M!NamedOnEvidence
  BY DEF MatchingInv
<1> QED BY <1>1, <1>2, <1>3, PTL DEF M!Spec

(***************************************************************************)
(* Who is to write a row has seen it unsettled.                            *)
(***************************************************************************)
SawItUnsettled ==
    \A r \in Jobs : /\ serving[r].at = "update" => ~serving[r].seen
                    /\ serving[r].at = "describe" => serving[r].seen \notin M!Named
                    /\ serving[r].at = "review" => serving[r].seen = "CANDIDATE"

\* A step that begins no request to write a row.
LEMMA NobodyBegins ==
  ASSUME SawItUnsettled,
         \A q \in Jobs : serving'[q] = serving[q]
                           \/ serving'[q].at \notin {"update", "describe", "review"}
  PROVE  SawItUnsettled'
  BY DEF SawItUnsettled

LEMMA NobodyElseBegins ==
  ASSUME MatchingInv, SawItUnsettled, NEW r \in Jobs, NEW step,
         serving' = [serving EXCEPT ![r] = step],
         /\ step.at = "update" => ~step.seen
         /\ step.at = "describe" => step.seen \notin M!Named
         /\ step.at = "review" => step.seen = "CANDIDATE"
  PROVE  SawItUnsettled'
  BY DEF SawItUnsettled, MatchingInv, M!TypeOK

\* A step that leaves the rows there are alone.
LEMMA RowsSettled ==
  ASSUME UNCHANGED <<missing, found>>,
         \A m \in DOMAIN matches : matches'[m].status = matches[m].status
  PROVE  M!SettledUnlessOverlapped
  BY DEF M!SettledUnlessOverlapped

LEMMA SettledLook ==
  ASSUME MatchingInv, SawItUnsettled, NEW r \in Jobs,
         \/ \E p \in Missing : M!ReadForUpdate(r, p) \/ M!ReadProfile(r, p)
         \/ \E u \in Found : M!ReadToDescribe(r, u)
         \/ \E m \in 1..MaxMatches : M!ReadMatch(r, m)
         \/ M!MatchingEnds(r) \/ M!Stops(r) \/ M!FindCandidates(r)
  PROVE  SawItUnsettled' /\ M!SettledUnlessOverlapped
<1>1. UNCHANGED <<missing, found, matches>>
  BY DEF M!ReadForUpdate, M!ReadProfile, M!ReadToDescribe, M!ReadMatch, M!MatchingEnds, M!Stops,
     M!FindCandidates
<1>2. ASSUME NEW step, serving' = [serving EXCEPT ![r] = step],
             /\ step.at = "update" => ~step.seen
             /\ step.at = "describe" => step.seen \notin M!Named
             /\ step.at = "review" => step.seen = "CANDIDATE"
      PROVE  SawItUnsettled'
  BY <1>2, NobodyElseBegins
<1>3. SawItUnsettled'
  <2>1. CASE \E p \in Missing : M!ReadForUpdate(r, p)
    <3>1. PICK p \in Missing : M!ReadForUpdate(r, p)
      BY <2>1
    <3> DEFINE step == [at |-> "update", who |-> p, seen |-> missing[p].resolved]
    <3>2. serving' = [serving EXCEPT ![r] = step] /\ ~missing[p].resolved
      BY <3>1 DEF M!ReadForUpdate, M!Begins
    <3>3. step.at = "update" /\ step.seen = missing[p].resolved
      OBVIOUS
    <3> HIDE DEF step
    <3> QED BY <1>2, <3>2, <3>3
  <2>2. CASE \E u \in Found : M!ReadToDescribe(r, u)
    <3>1. PICK u \in Found : M!ReadToDescribe(r, u)
      BY <2>2
    <3> DEFINE step == [at |-> "describe", who |-> u, seen |-> found[u].status]
    <3>2. serving' = [serving EXCEPT ![r] = step] /\ found[u].status \notin M!Named
      BY <3>1 DEF M!ReadToDescribe, M!Begins, M!Unnamed, M!Named
    <3>3. step.at = "describe" /\ step.seen = found[u].status
      OBVIOUS
    <3> HIDE DEF step
    <3> QED BY <1>2, <3>2, <3>3
  <2>3. CASE \E m \in 1..MaxMatches : M!ReadMatch(r, m)
    <3>1. PICK m \in 1..MaxMatches : M!ReadMatch(r, m)
      BY <2>3
    <3> DEFINE step == [at |-> "review", match |-> m, seen |-> matches[m].status]
    <3>2. serving' = [serving EXCEPT ![r] = step] /\ matches[m].status = "CANDIDATE"
      BY <3>1 DEF M!ReadMatch, M!Begins
    <3>3. step.at = "review" /\ step.seen = matches[m].status
      OBVIOUS
    <3> HIDE DEF step
    <3> QED BY <1>2, <3>2, <3>3
  <2>4. CASE \E p \in Missing : M!ReadProfile(r, p)
    <3>1. PICK p \in Missing : serving' = [serving EXCEPT ![r] = [at |-> "profile", who |-> p]]
      BY <2>4 DEF M!ReadProfile, M!Begins
    <3> QED BY <1>2, <3>1
  <2>5. CASE M!MatchingEnds(r) \/ M!Stops(r)
    BY <1>2, <2>5 DEF M!MatchingEnds, M!Stops, M!Ends, M!Idle
  <2>6. CASE M!FindCandidates(r)
    <3>1. PICK pairs : serving' = [serving EXCEPT ![r] =
                           [at |-> "matching", who |-> serving[r].who, found |-> pairs]]
      BY <2>6 DEF M!FindCandidates
    <3> QED BY <1>2, <3>1
  <2> QED BY <2>1, <2>2, <2>3, <2>4, <2>5, <2>6
<1> QED BY <1>1, <1>3, RowsSettled

LEMMA SettledReports ==
  ASSUME MatchingInv, SawItUnsettled, NEW r \in Jobs,
         \/ \E p \in Missing : M!CreateMissingPerson(r, p)
         \/ \E p \in Missing, o \in M!Outcome : M!ResolveMissingPerson(r, p, o)
         \/ \E s \in {"ACTIVE", "CLOSED"} : M!UpdateMissingPerson(r, s)
  PROVE  SawItUnsettled' /\ M!SettledUnlessOverlapped
<1>0. /\ missing \in [Missing -> M!MissingPerson] /\ UNCHANGED <<found, matches>>
      /\ \A p \in Missing : missing[p] \in M!MissingPerson
  BY DEF MatchingInv, M!TypeOK, M!CreateMissingPerson, M!ResolveMissingPerson, M!UpdateMissingPerson
<1>1. SawItUnsettled'
  <2>1. serving' = serving \/ serving' = [serving EXCEPT ![r] = M!Idle]
    BY DEF M!CreateMissingPerson, M!ResolveMissingPerson, M!UpdateMissingPerson, M!Ends
  <2> QED BY <2>1, NobodyBegins, NobodyElseBegins DEF M!Idle
<1>2. ASSUME NEW q \in Missing, missing[q].resolved
      PROVE  /\ missing'[q].resolved
             /\ \/ missing[q].status \in M!Outcome => missing'[q].status \in M!Outcome
                \/ \E k \in Jobs : M!Writes(k, "update") /\ serving[k].who = q /\ ~serving[k].seen
  <2>1. CASE \E p \in Missing : M!CreateMissingPerson(r, p)
    <3>1. PICK p \in Missing : /\ missing' = [missing EXCEPT ![p].status = "ACTIVE"]
                              /\ missing[p].status = "NONE"
      BY <2>1 DEF M!CreateMissingPerson
    <3> QED BY <1>0, <1>2, <3>1 DEF M!MissingPerson, M!Outcome
  <2>2. CASE \E p \in Missing, o \in M!Outcome : M!ResolveMissingPerson(r, p, o)
    <3>1. PICK p \in Missing, o \in M!Outcome :
             missing' = [missing EXCEPT ![p] = [status |-> o, resolved |-> TRUE]]
      BY <2>2 DEF M!ResolveMissingPerson
    <3> QED BY <1>0, <1>2, <3>1
  <2>3. CASE \E s \in {"ACTIVE", "CLOSED"} : M!UpdateMissingPerson(r, s)
    <3>1. PICK s \in {"ACTIVE", "CLOSED"} :
             missing' = [missing EXCEPT ![serving[r].who].status = s]
      BY <2>3 DEF M!UpdateMissingPerson
    <3>2. M!Writes(r, "update") /\ ~serving[r].seen
      BY <2>3 DEF M!UpdateMissingPerson, M!Writes, M!At, M!Ends, SawItUnsettled, MatchingInv, M!TypeOK
    <3>3. missing'[q].resolved
      BY <1>0, <1>2, <3>1 DEF M!MissingPerson
    <3>4. CASE serving[r].who = q
      BY <3>2, <3>3, <3>4
    <3>5. CASE serving[r].who # q
      BY <1>0, <3>1, <3>3, <3>5
    <3> QED BY <3>4, <3>5
  <2> QED BY <2>1, <2>2, <2>3
<1> QED BY <1>0, <1>1, <1>2 DEF M!SettledUnlessOverlapped

LEMMA SettledFound ==
  ASSUME MatchingInv, SawItUnsettled, NEW r \in Jobs,
         \/ \E u \in Found : M!CreateUnidentifiedPerson(r, u)
         \/ \E s \in M!Unnamed \cup {"CLOSED"} : M!UpdateUnidentifiedPerson(r, s)
  PROVE  SawItUnsettled' /\ M!SettledUnlessOverlapped
<1>0. found \in [Found -> M!UnidentifiedPerson] /\ UNCHANGED <<missing, matches>>
  BY DEF MatchingInv, M!TypeOK, M!CreateUnidentifiedPerson, M!UpdateUnidentifiedPerson
<1>1. SawItUnsettled'
  <2>1. serving' = serving \/ serving' = [serving EXCEPT ![r] = M!Idle]
    BY DEF M!CreateUnidentifiedPerson, M!UpdateUnidentifiedPerson, M!Ends
  <2> QED BY <2>1, NobodyBegins, NobodyElseBegins DEF M!Idle
<1>2. ASSUME NEW v \in Found, found[v].status \in M!Named
      PROVE  \/ found'[v].status \in M!Named
             \/ \E k \in Jobs : /\ M!Writes(k, "describe") /\ serving[k].who = v
                                /\ serving[k].seen \notin M!Named
  <2>1. CASE \E u \in Found : M!CreateUnidentifiedPerson(r, u)
    <3>1. PICK u \in Found : /\ found' = [found EXCEPT ![u].status = "UNIDENTIFIED"]
                            /\ found[u].status = "NONE"
      BY <2>1 DEF M!CreateUnidentifiedPerson
    <3> QED BY <1>0, <1>2, <3>1 DEF M!Named
  <2>2. CASE \E s \in M!Unnamed \cup {"CLOSED"} : M!UpdateUnidentifiedPerson(r, s)
    <3>1. PICK s : found' = [found EXCEPT ![serving[r].who].status = s]
      BY <2>2 DEF M!UpdateUnidentifiedPerson
    <3>2. M!Writes(r, "describe") /\ serving[r].seen \notin M!Named
      BY <2>2 DEF M!UpdateUnidentifiedPerson, M!Writes, M!At, M!Ends, SawItUnsettled, MatchingInv,
         M!TypeOK
    <3>3. CASE serving[r].who = v
      BY <3>2, <3>3
    <3>4. CASE serving[r].who # v
      BY <1>0, <1>2, <3>1, <3>4
    <3> QED BY <3>3, <3>4
  <2> QED BY <2>1, <2>2
<1> QED BY <1>0, <1>1, <1>2 DEF M!SettledUnlessOverlapped

LEMMA SettledMatches ==
  ASSUME MatchingInv, SawItUnsettled, NEW r \in Jobs,
         M!InsertCandidate(r) \/ M!Reject(r) \/ M!Confirm(r)
  PROVE  SawItUnsettled' /\ M!SettledUnlessOverlapped
<1>0. /\ matches \in Seq(M!Match) /\ DOMAIN matches = 1..Len(matches) /\ Len(matches) \in Nat
      /\ serving \in [Jobs -> M!Request]
      /\ missing \in [Missing -> M!MissingPerson] /\ found \in [Found -> M!UnidentifiedPerson]
  BY DEF MatchingInv, M!TypeOK
<1>1. CASE M!InsertCandidate(r)
  <2>1. \E c : matches' = Append(matches, c)
    BY <1>1 DEF M!InsertCandidate
  <2>2. \A m \in DOMAIN matches : matches'[m].status = matches[m].status
    BY <1>0, <2>1
  <2>3. UNCHANGED <<missing, found>>
    BY <1>1 DEF M!InsertCandidate
  <2>4. \A q \in Jobs : serving'[q] = serving[q] \/ serving'[q].at \notin {"update", "describe", "review"}
    <3>1. serving' = [serving EXCEPT ![r].found = Tail(@)] /\ serving[r].at = "matching"
      BY <1>1 DEF M!InsertCandidate, M!At
    <3>2. serving[r] \in [at : {"matching"}, who : Missing, found : Seq(Raised)]
      BY <1>0, <3>1, ServingIs
    <3>3. [serving[r] EXCEPT !.found = Tail(serving[r].found)].at = "matching"
      BY <3>2
    <3> QED BY <1>0, <3>1, <3>3
  <2> QED BY <2>2, <2>3, <2>4, NobodyBegins, RowsSettled
<1>2. CASE M!Reject(r) \/ M!Confirm(r)
  <2> DEFINE d == serving[r].match
  <2>1. /\ serving' = [serving EXCEPT ![r] = M!Idle] /\ serving[r].at = "review"
        /\ serving[r].seen = "CANDIDATE" /\ M!Writes(r, "review")
    BY <1>0, <1>2 DEF M!Reject, M!Confirm, M!Ends, M!At, M!Writes, SawItUnsettled
  <2>2. SawItUnsettled'
    BY <2>1, NobodyElseBegins DEF M!Idle
  <2>3. ASSUME NEW n \in DOMAIN matches, matches[n].status # "CANDIDATE"
        PROVE  \/ matches'[n].status = matches[n].status
               \/ \E k \in Jobs : /\ M!Writes(k, "review") /\ serving[k].match = n
                                  /\ serving[k].seen = "CANDIDATE"
    <3>1. CASE n = d
      BY <2>1, <3>1
    <3>2. CASE n # d
      <4>1. matches'[n] = matches[n]
        BY <1>0, <1>2, <2>3, <3>2 DEF M!Reject, M!Confirm, M!Superseded
      <4> QED BY <4>1
    <3> QED BY <3>1, <3>2
  <2>4. \A p \in Missing : missing[p].resolved =>
          /\ missing'[p].resolved
          /\ missing[p].status \in M!Outcome => missing'[p].status \in M!Outcome
    <3>1. CASE M!Reject(r)
      BY <3>1 DEF M!Reject
    <3>2. CASE M!Confirm(r)
      <4> DEFINE p == matches[d].missing
                 s == IF missing[p].status = "REUNITED" THEN missing[p].status ELSE "LOCATED"
      <4>1. missing' = [missing EXCEPT ![p].status = s] /\ s \in M!Outcome
        BY <3>2 DEF M!Confirm, M!Outcome
      <4> HIDE DEF p, s
      <4> QED BY <1>0, <4>1 DEF M!MissingPerson
    <3> QED BY <1>2, <3>1, <3>2
  <2>5. \A u \in Found : found[u].status \in M!Named => found'[u].status \in M!Named
    <3>1. CASE M!Reject(r)
      BY <3>1 DEF M!Reject
    <3>2. CASE M!Confirm(r)
      <4>1. M!Identified(d).status \in M!Named
        BY DEF M!Identified, M!Named
      <4>2. found' = [found EXCEPT ![matches[d].found] = M!Identified(d)]
        BY <3>2 DEF M!Confirm
      <4> QED BY <1>0, <4>1, <4>2
    <3> QED BY <1>2, <3>1, <3>2
  <2> QED BY <2>2, <2>3, <2>4, <2>5 DEF M!SettledUnlessOverlapped
<1> QED BY <1>1, <1>2

LEMMA SettledStarts == ASSUME M!Init PROVE SawItUnsettled
  BY DEF M!Init, M!Idle, SawItUnsettled

LEMMA SettledStep ==
  ASSUME MatchingInv, SawItUnsettled, [M!Next]_(M!vars)
  PROVE  SawItUnsettled' /\ [M!SettledUnlessOverlapped]_missingVars
<1>1. CASE UNCHANGED M!vars
  BY <1>1 DEF M!vars, missingVars, SawItUnsettled
<1>2. ASSUME NEW r \in Jobs,
             \/ \E p \in Missing : M!ReportSighting(r, p)
             \/ \E s \in 1..MaxSightings, v \in {"VERIFIED", "DISCOUNTED"} :
                   M!ReviewSighting(r, s, v)
      PROVE  SawItUnsettled' /\ M!SettledUnlessOverlapped
  <2>1. UNCHANGED <<missing, found, matches, serving>>
    BY <1>2 DEF M!ReportSighting, M!ReviewSighting
  <2> QED BY <2>1, NobodyBegins, RowsSettled
<1> QED BY <1>1, <1>2, SettledLook, SettledReports, SettledFound, SettledMatches DEF M!Next

-----------------------------------------------------------------------------
(***************************************************************************)
(* Cases.  Whoever was authorised saw the case live, so what reopens a     *)
(* closed case is a request that was under way when it was closed.         *)
(***************************************************************************)
Authorised == [act : C!Acts, on : Case, seen : C!CaseStatus]

\* The gate let nobody in but on a case that was live.
SawItLive == \A r \in Jobs : working[r] # C!Idle => working[r].seen \in C!ACTIVE_CASE_STATUSES

CaseInv == C!TypeOK /\ SawItLive

LEMMA WorkingIs ==
  ASSUME NEW x \in {C!Idle} \cup Authorised, NEW act \in C!Acts, x.act = act
  PROVE  x # C!Idle /\ x \in Authorised /\ x.on \in Case
  BY DEF C!Idle, C!Acts, Authorised

\* A request that is through, and has done no more than its statement.
LEMMA DoingIs ==
  ASSUME CaseInv, NEW r \in Jobs, NEW act \in C!Acts, C!Doing(r, act)
  PROVE  /\ working[r] # C!Idle /\ working[r].on \in Case
         /\ working[r].seen \in C!ACTIVE_CASE_STATUSES
         /\ working' \in [Jobs -> {C!Idle} \cup Authorised] /\ working'[r] = C!Idle
         /\ SawItLive'
<1>1. working[r].act = act /\ working' = [working EXCEPT ![r] = C!Idle]
  BY DEF C!Doing
<1>2. working \in [Jobs -> {C!Idle} \cup Authorised]
  BY DEF CaseInv, C!TypeOK, Authorised
<1>3. working[r] # C!Idle /\ working[r].on \in Case
  BY <1>1, <1>2, WorkingIs
<1>4. SawItLive'
  BY <1>1, <1>2 DEF CaseInv, SawItLive
<1> QED BY <1>1, <1>2, <1>3, <1>4 DEF CaseInv, SawItLive

LEMMA CaseStarts == ASSUME C!Init PROVE CaseInv
<1>1. 0 \in 0..MaxNotes
  BY ServicesAssumption
<1> QED BY <1>1 DEF C!Init, CaseInv, C!TypeOK, SawItLive, C!CaseStatus

LEMMA CaseStep == ASSUME CaseInv, [C!Next]_(C!vars) PROVE CaseInv' /\ [C!OverlapReopens]_caseVars
<1>0. /\ status \in [Case -> C!CaseStatus] /\ closed \in [Case -> BOOLEAN]
      /\ assigned \in [Case -> SUBSET Officers] /\ subjects \in [Case -> SUBSET Subjects]
      /\ notes \in [Case -> 0..MaxNotes] /\ MaxNotes \in Nat
      /\ working \in [Jobs -> {C!Idle} \cup Authorised]
  BY ServicesAssumption DEF CaseInv, C!TypeOK, Authorised
<1>1. CASE UNCHANGED C!vars
  <2>1. UNCHANGED <<status, closed, assigned, subjects, notes, working>>
    BY <1>1 DEF C!vars
  <2> QED BY <2>1 DEF CaseInv, C!TypeOK, SawItLive, caseVars
<1>2. ASSUME NEW c \in Case, NEW o \in Officers, C!Create(c, o)
      PROVE  CaseInv' /\ C!OverlapReopens
  <2>1. CaseInv'
    BY <1>0, <1>2 DEF C!Create, C!CaseStatus, C!Editable, C!ACTIVE_CASE_STATUSES, CaseInv,
       C!TypeOK, SawItLive
  <2>2. C!OverlapReopens
    BY <1>0, <1>2, ServicesAssumption DEF C!Create, C!OverlapReopens
  <2> QED BY <2>1, <2>2
<1>3. ASSUME NEW r \in Jobs, NEW o \in Officers, NEW act \in C!Acts, NEW c \in Case,
             C!Authorise(r, o, act, c)
      PROVE  CaseInv' /\ C!OverlapReopens
  <2> DEFINE ask == [act |-> act, on |-> c, seen |-> status[c]]
  <2>1. /\ working' = [working EXCEPT ![r] = ask] /\ status[c] \in C!ACTIVE_CASE_STATUSES
        /\ UNCHANGED <<status, closed, assigned, subjects, notes>>
    BY <1>3 DEF C!Authorise, C!CaseBindingGate
  <2>2. ask \in Authorised /\ ask.seen \in C!ACTIVE_CASE_STATUSES
    BY <1>0, <2>1 DEF Authorised
  <2> HIDE DEF ask
  <2>3. working' \in [Jobs -> {C!Idle} \cup Authorised] /\ SawItLive'
    BY <1>0, <2>1, <2>2 DEF CaseInv, SawItLive
  <2> QED BY <2>1, <2>3 DEF CaseInv, C!TypeOK, C!OverlapReopens, Authorised
<1>4. ASSUME NEW r \in Jobs, NEW s \in C!Editable, C!Update(r, s)
      PROVE  CaseInv' /\ C!OverlapReopens
  <2>1. /\ C!Doing(r, "CASE_UPDATE") /\ status' = [status EXCEPT ![working[r].on] = s]
        /\ UNCHANGED <<closed, assigned, subjects, notes>>
    BY <1>4 DEF C!Update
  <2>2. /\ working[r] # C!Idle /\ working[r].on \in Case
        /\ working[r].seen \in C!ACTIVE_CASE_STATUSES
        /\ working' \in [Jobs -> {C!Idle} \cup Authorised] /\ working'[r] = C!Idle /\ SawItLive'
    BY <2>1, DoingIs DEF C!Acts
  <2>3. s \in C!CaseStatus
    BY DEF C!CaseStatus
  <2>4. CaseInv'
    BY <1>0, <2>1, <2>2, <2>3 DEF CaseInv, C!TypeOK, Authorised
  <2>5. C!OverlapReopens
    BY <1>0, <2>1, <2>2 DEF C!OverlapReopens
  <2> QED BY <2>4, <2>5
<1>5. ASSUME NEW r \in Jobs, C!Close(r) PROVE CaseInv' /\ C!OverlapReopens
  <2>1. /\ C!Doing(r, "CASE_CLOSE") /\ status' = [status EXCEPT ![working[r].on] = "CLOSED"]
        /\ closed' = [closed EXCEPT ![working[r].on] = TRUE]
        /\ UNCHANGED <<assigned, subjects, notes>>
    BY <1>5 DEF C!Close
  <2>2. /\ working[r].on \in Case
        /\ working' \in [Jobs -> {C!Idle} \cup Authorised] /\ SawItLive'
    BY <2>1, DoingIs DEF C!Acts
  <2>3. "CLOSED" \in C!CaseStatus
    BY DEF C!CaseStatus
  <2>4. CaseInv'
    BY <1>0, <2>1, <2>2, <2>3 DEF CaseInv, C!TypeOK, Authorised
  <2>5. C!OverlapReopens
    BY <1>0, <2>1, <2>2 DEF C!OverlapReopens
  <2> QED BY <2>4, <2>5
<1>6. ASSUME NEW r \in Jobs, \/ C!AddNote(r) \/ \E s \in Subjects : C!LinkSubject(r, s)
                             \/ \E o \in Officers : C!Assign(r, o)
      PROVE  CaseInv' /\ C!OverlapReopens
  <2>1. PICK act \in C!Acts : C!Doing(r, act)
    BY <1>6 DEF C!AddNote, C!LinkSubject, C!Assign, C!Acts
  <2>2. /\ working[r].on \in Case
        /\ working' \in [Jobs -> {C!Idle} \cup Authorised] /\ SawItLive'
    BY <2>1, DoingIs
  <2>3. status' = status /\ closed' = closed
    BY <1>6 DEF C!AddNote, C!LinkSubject, C!Assign
  <2>4. notes' \in [Case -> 0..MaxNotes] /\ assigned' \in [Case -> SUBSET Officers]
        /\ subjects' \in [Case -> SUBSET Subjects]
    <3>1. CASE C!AddNote(r)
      BY <1>0, <2>2, <3>1 DEF C!AddNote
    <3>2. CASE \E s \in Subjects : C!LinkSubject(r, s)
      BY <1>0, <2>2, <3>2 DEF C!LinkSubject
    <3>3. CASE \E o \in Officers : C!Assign(r, o)
      BY <1>0, <2>2, <3>3 DEF C!Assign
    <3> QED BY <1>6, <3>1, <3>2, <3>3
  <2>5. CaseInv'
    BY <1>0, <2>2, <2>3, <2>4 DEF CaseInv, C!TypeOK, Authorised
  <2> QED BY <2>3, <2>5 DEF C!OverlapReopens
<1>7. ASSUME NEW r \in Jobs, C!Stops(r) PROVE CaseInv' /\ C!OverlapReopens
  BY <1>0, <1>7 DEF C!Stops, CaseInv, C!TypeOK, SawItLive, C!OverlapReopens, Authorised
<1> QED BY <1>1, <1>2, <1>3, <1>4, <1>5, <1>6, <1>7 DEF C!Next, caseVars, C!vars

\* However many officers and supervisors go about however many cases: what reopens a
\* closed one is a request that was authorised while it was live and ends with this step
\* (updateCase() after caseBindingGate()).
LEMMA OnlyOverlapReopens == C!Spec => []C!TypeOK /\ [][C!OverlapReopens]_caseVars
<1>1. C!Init => CaseInv
  BY CaseStarts
<1>2. CaseInv /\ [C!Next]_(C!vars) => CaseInv' /\ [C!OverlapReopens]_caseVars
  BY CaseStep
<1>3. CaseInv => C!TypeOK
  BY DEF CaseInv
<1> QED BY <1>1, <1>2, <1>3, PTL DEF C!Spec

\* However many officers go about however many cases, reports, found persons and matches:
\* what was settled is written over by those only who had read it before it was (update();
\* updateMissingPerson(), updateUnidentifiedPerson(), reviewMatch()).
THEOREM OverlapAloneUndoes == C!Spec /\ M!Spec => OnlyOverlapUndoes
<1>1. M!Init => MatchingInv /\ SawItUnsettled
  BY MatchingStarts, SettledStarts
<1>2. MatchingInv /\ SawItUnsettled /\ [M!Next]_(M!vars)
        => MatchingInv' /\ SawItUnsettled' /\ [M!SettledUnlessOverlapped]_missingVars
  BY MatchingStep, SettledStep
<1> QED BY <1>1, <1>2, OnlyOverlapReopens, PTL DEF M!Spec, OnlyOverlapUndoes

-----------------------------------------------------------------------------
(***************************************************************************)
(* The services side by side.  In the run one of them moves at a time;     *)
(* what is proved of each holds whatever the others do.                    *)
(***************************************************************************)
\* Every behaviour the run explores is one of each component, which stands still while
\* another has the area.
THEOREM AreasAreComponents == MCSpec => Spec /\ M!Spec /\ C!Spec /\ O!Spec
<1>1. MCInit => Init /\ M!Init /\ C!Init /\ O!Init
  BY DEF MCInit
<1>2. [MCNext]_allVars => /\ [Next]_vars /\ [M!Next]_(M!vars)
                          /\ [C!Next]_(C!vars) /\ [O!Next]_(O!vars)
  BY DEF MCNext, allVars, missingVars, caseVars, deviceVars, vars, M!vars, C!vars, O!vars
<1> QED BY <1>1, <1>2, PTL DEF MCSpec, Spec, M!Spec, C!Spec, O!Spec

\* What officers and crews work on stays of the right type; a name rests on an officer's
\* decision and a candidate on several attributes (missing-persons.service.ts); who a
\* device carries is on record, and it is never told yes once revoked
\* (offline.service.ts); with all of them under way at once.
THEOREM FieldRecords == M!Spec /\ C!Spec /\ O!Spec => []FieldRecordsHold
<1>1. (M!TypeOK /\ M!NamedOnEvidence) /\ C!TypeOK /\ O!TypeOK
         /\ (O!CarriedIsOnRecord /\ O!NoYesAfterRevocation) => FieldRecordsHold
  BY DEF FieldRecordsHold
<1> QED
  BY <1>1, NamedOnEvidenceHolds, OnlyOverlapReopens, OfflineTypeCorrect, CarriedOnRecord, PTL
=============================================================================
