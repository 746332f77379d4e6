----------------------------- MODULE Integration -----------------------------
(***************************************************************************)
(* Copying what an agency's system holds into the platform's projection:   *)
(* integration.service.ts and the two adapters.  A sync reads how far the  *)
(* last successful one came, asks the source for what changed since,       *)
(* writes it in one transaction and records that it finished, each in a    *)
(* statement of its own; it may fail or stop at any of them, and nothing   *)
(* keeps two syncs of one source apart.                                    *)
(***************************************************************************)
EXTENDS Integers, FiniteSets, FiniteSetsExt

CONSTANTS Records,    \* of one data source
          Jobs,       \* rows of data_sync_job, one to a call of sync()
          Limit,      \* 500: what one sync asks for at most
          MaxClock    \* bound: changes at the source and finished jobs

VARIABLES
    clock,       \* one tick to every instant that is compared: changes and finishes
    source,      \* sourceUpdatedAt of each record, at the agency
    projected,   \* the version of each that the platform serves, Never if none
    unknown,     \* records that cite a PCID nobody was allocated so far
    conflicts,   \* data_conflict: the record and the version that raised it
    job,         \* the row
    sync,        \* the call that works on it
    mode, lastError,
    slipped      \* history: changes made between an answer and the end of its sync, or left
                 \* out of an answer at the limit

vars == <<clock, source, projected, unknown, conflicts, job, sync, mode, lastError, slipped>>

Never == -1
Mode == {"ENABLED", "DISABLED"}   \* PRODUCTION and SANDBOX differ in the adapter only

Row == [status : {"NONE", "RUNNING", "SUCCEEDED", "PARTIAL", "FAILED"}, finished : Nat]

At == {"idle", "read", "started", "knows", "fetched", "written", "finished", "failing", "failed", "over"}
\* The version of each record that the source answered with, Never if it left it out.
Nothing == [r \in Records |-> Never]
Call == [at : At, since : Nat \cup {Never},
         answer : [Records -> Nat \cup {Never}], conflicted : BOOLEAN]

TypeOK ==
    /\ clock \in Nat
    /\ source \in [Records -> Nat] /\ projected \in [Records -> Nat \cup {Never}]
    /\ unknown \subseteq Records
    /\ conflicts \subseteq Records \X Nat /\ slipped \subseteq Records \X Nat
    /\ job \in [Jobs -> Row] /\ sync \in [Jobs -> Call]
    /\ mode \in Mode /\ lastError \in BOOLEAN

Init ==
    /\ clock = 0
    /\ source = [r \in Records |-> 0] /\ projected = [r \in Records |-> Never]
    /\ unknown \in SUBSET Records
    /\ conflicts = {} /\ slipped = {}
    /\ job = [k \in Jobs |-> [status |-> "NONE", finished |-> 0]]
    /\ sync = [k \in Jobs |->
          [at |-> "idle", since |-> Never, answer |-> Nothing, conflicted |-> FALSE]]
    /\ mode = "ENABLED" /\ lastError = FALSE

-----------------------------------------------------------------------------
\* An upsert on the agency, the domain and the name of the system.
registerDataSource(m) ==
    /\ mode' = m
    /\ UNCHANGED <<clock, source, projected, unknown, conflicts, job, sync, lastError, slipped>>

Step(k, from, to) == sync[k].at = from /\ sync' = [sync EXCEPT ![k].at = to]

\* A disabled source is refused.
Start(k) ==
    /\ mode # "DISABLED"
    /\ Step(k, "idle", "read")
    /\ UNCHANGED <<clock, source, projected, unknown, conflicts, job, mode, lastError, slipped>>

\* The row is inserted whatever has become of the source since.
Open(k) ==
    /\ Step(k, "read", "started")
    /\ job' = [job EXCEPT ![k].status = "RUNNING"]
    /\ UNCHANGED <<clock, source, projected, unknown, conflicts, mode, lastError, slipped>>

\* Mutation of Done: a sync that failed counts.
DoneOrFailed == {k \in Jobs : job[k].status \in {"SUCCEEDED", "PARTIAL", "FAILED"}}

Done == {k \in Jobs : job[k].status \in {"SUCCEEDED", "PARTIAL"}}

\* The instants a sync came to an end at; of these the latest is read.
Watermarks == IF Done = {} THEN {Never} ELSE {job[k].finished : k \in Done}

ReadWatermark(k) ==
    /\ sync[k].at = "started"
    /\ \E t \in Watermarks :
          /\ \A u \in Watermarks : u <= t
          /\ sync' = [sync EXCEPT ![k].at = "knows", ![k].since = t]
    /\ UNCHANGED <<clock, source, projected, unknown, conflicts, job, mode, lastError, slipped>>

ChangedSince(t) == {r \in Records : source[r] > t}

\* The source answers with what changed since, as far as the limit goes.
changedSince(k) ==
    /\ sync[k].at = "knows"
    /\ LET changed == ChangedSince(sync[k].since)
       IN  \E S \in kSubset(Min({Limit, Cardinality(changed)}), changed) :
              /\ sync' = [sync EXCEPT ![k].at = "fetched",
                                      ![k].answer = [r \in Records |->
                                          IF r \in S THEN source[r] ELSE Never]]
              /\ slipped' = slipped \cup {<<r, source[r]>> : r \in changed \ S}
    /\ UNCHANGED <<clock, source, projected, unknown, conflicts, job, mode, lastError>>

\* One transaction: a record of somebody nobody knows raises a conflict, every other
\* one overwrites what is held, whatever its age (ON CONFLICT DO UPDATE).
writeProjection(k) ==
    /\ sync[k].at = "fetched"
    /\ LET got == sync[k].answer
           odd == {r \in unknown : got[r] # Never}
       IN  /\ projected' = [r \in Records |->
                 IF got[r] # Never /\ r \notin odd THEN got[r] ELSE projected[r]]
           /\ conflicts' = conflicts \cup {<<r, got[r]>> : r \in odd}
           /\ sync' = [sync EXCEPT ![k].at = "written", ![k].conflicted = odd # {}]
    /\ UNCHANGED <<clock, source, unknown, job, mode, lastError, slipped>>

Ended(k, status) ==
    /\ clock < MaxClock
    /\ clock' = clock + 1
    /\ job' = [job EXCEPT ![k] = [status |-> status, finished |-> clock + 1]]
    /\ UNCHANGED <<source, projected, unknown, conflicts, mode, lastError, slipped>>

Finish(k) ==
    /\ Step(k, "written", "finished")
    /\ Ended(k, IF sync[k].conflicted THEN "PARTIAL" ELSE "SUCCEEDED")

Report(k, from, failed) ==
    /\ Step(k, from, "over")
    /\ lastError' = failed
    /\ UNCHANGED <<clock, source, projected, unknown, conflicts, job, mode, slipped>>

\* The source does not answer, answers what does not match the schema, or a statement
\* fails.  A transaction that fails writes nothing.
Fail(k) ==
    /\ sync[k].at \in {"knows", "fetched", "written", "finished"}
    /\ sync' = [sync EXCEPT ![k].at = "failing"]
    /\ UNCHANGED <<clock, source, projected, unknown, conflicts, job, mode, lastError, slipped>>

RecordFailure(k) == Step(k, "failing", "failed") /\ Ended(k, "FAILED")

\* The process stops: the row stays as it is, RUNNING for good if it was.
Stop(k) ==
    /\ sync[k].at \notin {"idle", "over"}
    /\ sync' = [sync EXCEPT ![k].at = "over"]
    /\ UNCHANGED <<clock, source, projected, unknown, conflicts, job, mode, lastError, slipped>>

-----------------------------------------------------------------------------
Answered == {k \in Jobs : sync[k].at \in {"fetched", "written"}}

\* The agency changes a record.
Change(r) ==
    /\ clock < MaxClock
    /\ clock' = clock + 1
    /\ source' = [source EXCEPT ![r] = clock + 1]
    /\ slipped' = IF Answered # {} THEN slipped \cup {<<r, clock + 1>>} ELSE slipped
    /\ UNCHANGED <<projected, unknown, conflicts, job, sync, mode, lastError>>

\* The person a record cites is registered.
Allocate(r) ==
    /\ r \in unknown
    /\ unknown' = unknown \ {r}
    /\ UNCHANGED <<clock, source, projected, conflicts, job, sync, mode, lastError, slipped>>

Next ==
    \/ \E m \in Mode : registerDataSource(m)
    \/ \E k \in Jobs :
          \/ Start(k) \/ Open(k) \/ ReadWatermark(k) \/ changedSince(k) \/ writeProjection(k)
          \/ Finish(k) \/ Report(k, "finished", FALSE)
          \/ Fail(k) \/ RecordFailure(k) \/ Report(k, "failed", TRUE)
          \/ Stop(k)
    \/ \E r \in Records : Change(r) \/ Allocate(r)

Spec == Init /\ [][Next]_vars

-----------------------------------------------------------------------------
Disagrees(r) == projected[r] # source[r]

\* The next sync asks for it.
Ahead(r) == \A t \in Watermarks : source[r] > t

OnRecord(r) == <<r, source[r]>> \in conflicts

\* Whatever fails, stops or overlaps, a record that is not what the source holds is one
\* the next sync will ask for, or a conflict on record, or was changed while a sync had
\* its answer and had not finished, or did not fit into an answer (sync(), its
\* watermark).
NothingIsPassedOver ==
    \A r \in Records : Disagrees(r) => Ahead(r) \/ OnRecord(r) \/ <<r, source[r]>> \in slipped

\* "A field the platform holds that disagrees with the source raises a data conflict for
\* review; the platform never wins silently" (integration.service.ts:60-62).  The
\* watermark is the instant a sync finished and not the one it asked at.
DisagreementIsSeen == \A r \in Records : Disagrees(r) => Ahead(r) \/ OnRecord(r)
=============================================================================
