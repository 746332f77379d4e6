----------------------------- MODULE Retention -----------------------------
(***************************************************************************)
(* The retention sweep: retention.worker.ts, retention.rules.ts and the    *)
(* schedule of retention.scheduler.ts.  Of the eight rules the model keeps *)
(* the two dispositions, each with a table of its own: "redact" empties a  *)
(* notice, "delete" removes a row.                                         *)
(*                                                                         *)
(* A rule is one statement, but the statement first finds the rows it is   *)
(* about to erase and then writes them one by one.  External, from         *)
(* PostgreSQL at READ COMMITTED: a row that another transaction changed in *)
(* between is written all the same if it still has its id, because the     *)
(* condition was in the part of the statement that found it; a row that    *)
(* was deleted in between is passed over.                                  *)
(***************************************************************************)
EXTENDS Naturals, FiniteSets

CONSTANTS Sweepers,       \* the processes that sweep: the schedule, the command, the office
          Schedule,     \* the one that the timer starts
          Notices, Rows,
          Batch,        \* RETENTION_BATCH_SIZE
          MaxStops,     \* bound: sweeps that die
          MaxRetries    \* bound: notices that an operator puts back in the queue

VARIABLES
    past,        \* rows past their period
    gone,        \* rows erased
    moving,      \* notices that are queued or being sent
    run,         \* retention_run: the status of the last run of each sweep
    ledger,      \* retention_erasure: rows_affected, summed over runs that are not dry
    sweep,       \* what each sweep remembers
    overlapped,  \* whether two sweeps had found the same notice at the same time
    stops, retries

vars == <<past, gone, moving, run, ledger, sweep, overlapped, stops, retries>>

Rules == {"redact", "delete"}
Table(rule) == IF rule = "redact" THEN Notices ELSE Rows
\* The rule that comes after; "none" ends the list.
Following(rule) == IF rule = "redact" THEN "delete" ELSE "none"

Sweep == [at : {"idle", "find", "erase", "stuck"}, rule : Rules \cup {"none"}, dry : BOOLEAN,
          doomed : SUBSET (Notices \cup Rows), failed : BOOLEAN, ledgered : SUBSET Rules]
Idle == [at |-> "idle", rule |-> "none", dry |-> FALSE, doomed |-> {}, failed |-> FALSE,
         ledgered |-> {}]

TypeOK ==
    /\ past \in SUBSET (Notices \cup Rows)
    /\ gone \in SUBSET past
    /\ moving \in SUBSET Notices
    /\ run \in [Sweepers -> {"none", "RUNNING", "COMPLETED", "FAILED"}]
    /\ ledger \in [Rules -> Nat]
    /\ sweep \in [Sweepers -> Sweep]
    /\ overlapped \in BOOLEAN
    /\ stops \in 0..MaxStops /\ retries \in 0..MaxRetries

Init ==
    /\ past = {} /\ gone = {} /\ moving = {}
    /\ run = [s \in Sweepers |-> "none"]
    /\ ledger = [rule \in Rules |-> 0]
    /\ sweep = [s \in Sweepers |-> Idle]
    /\ overlapped = FALSE
    /\ stops = 0 /\ retries = 0

\* The predicate of a rule: only a message that has stopped moving.
Due(rule) == {n \in Table(rule) \cap past : n \notin gone \cup moving}

\* LIMIT: as many of them as there are, up to the batch.
Limited(set) == {some \in SUBSET set :
                    Cardinality(some) = IF Cardinality(set) < Batch THEN Cardinality(set) ELSE Batch}

(***************************************************************************)
(* sweep(): the run is opened, each rule is applied, the run is closed.    *)
(***************************************************************************)
OpenRun(s, dry) ==
    /\ sweep[s].at = "idle"
    /\ dry => s # Schedule
    /\ run' = [run EXCEPT ![s] = "RUNNING"]
    /\ sweep' = [sweep EXCEPT ![s] = [Idle EXCEPT !.at = "find", !.rule = "redact", !.dry = dry]]
    /\ UNCHANGED <<past, gone, moving, ledger, overlapped, stops, retries>>

\* The part of the statement that finds the rows.
Find(s) ==
    /\ sweep[s].at = "find" /\ sweep[s].rule # "none" /\ ~sweep[s].dry
    /\ \E doomed \in Limited(Due(sweep[s].rule)) :
          /\ sweep' = [sweep EXCEPT ![s] = [@ EXCEPT !.at = "erase", !.doomed = doomed]]
          /\ overlapped' = (overlapped \/ \E t \in Sweepers \ {s} :
                               sweep[t].doomed \cap doomed \cap Notices # {})
    /\ UNCHANGED <<past, gone, moving, run, ledger, stops, retries>>

\* Mutation of Counted: the rows that were found, and not those that went.
CountedFound(s) == sweep[s].doomed

\* SELECT count(*) FROM gone: an emptied notice is still there to be emptied again.
Counted(s) == IF sweep[s].rule = "redact" THEN sweep[s].doomed ELSE sweep[s].doomed \ gone

Continues(s, failed, ledgered) ==
    sweep' = [sweep EXCEPT ![s] = [@ EXCEPT !.at = "find", !.rule = Following(sweep[s].rule),
                                            !.doomed = {}, !.failed = failed,
                                            !.ledgered = ledgered]]

\* A dry run counts what is due, and enters that in the ledger as its own.
CountDue(s) ==
    /\ sweep[s].at = "find" /\ sweep[s].rule # "none" /\ sweep[s].dry
    /\ Continues(s, sweep[s].failed, sweep[s].ledgered \cup {sweep[s].rule})
    /\ UNCHANGED <<past, gone, moving, run, ledger, overlapped, stops, retries>>

\* applyRule(): "The erasure and its ledger row commit together".
Erase(s, rule) ==
    /\ sweep[s].at = "erase" /\ sweep[s].rule = rule
    /\ gone' = gone \cup sweep[s].doomed
    /\ ledger' = [ledger EXCEPT ![rule] = @ + Cardinality(Counted(s))]
    /\ Continues(s, sweep[s].failed, sweep[s].ledgered \cup {rule})
    /\ UNCHANGED <<past, moving, run, overlapped, stops, retries>>

\* The transaction is rolled back, and the sweep goes on to the next rule.
Fails(s) ==
    /\ sweep[s].at = IF sweep[s].dry THEN "find" ELSE "erase"
    /\ sweep[s].rule # "none"
    /\ Continues(s, TRUE, sweep[s].ledgered)
    /\ UNCHANGED <<past, gone, moving, run, ledger, overlapped, stops, retries>>

Finish(s) ==
    /\ sweep[s].at = "find" /\ sweep[s].rule = "none"
    /\ run' = [run EXCEPT ![s] = IF sweep[s].failed THEN "FAILED" ELSE "COMPLETED"]
    /\ sweep' = [sweep EXCEPT ![s] =
                    IF @.failed THEN Idle ELSE [Idle EXCEPT !.ledgered = sweep[s].ledgered]]
    /\ UNCHANGED <<past, gone, moving, ledger, overlapped, stops, retries>>

\* Mutation of Freed: the guard of the schedule is only reset by a sweep that ends well.
FreedNot == "stuck"

\* "finally { this.running = false }"
Freed == "idle"

\* The sweep dies: its process, or the statement that opens or closes the run.
Stops(s) ==
    /\ sweep[s].at # "idle" /\ sweep[s].at # "stuck" /\ stops < MaxStops
    /\ stops' = stops + 1
    /\ sweep' = [sweep EXCEPT ![s] = [Idle EXCEPT !.at = Freed]]
    /\ UNCHANGED <<past, gone, moving, run, ledger, overlapped, retries>>

(***************************************************************************)
(* The rest of the platform.                                               *)
(***************************************************************************)
Age(n) ==
    /\ n \notin past
    /\ past' = past \cup {n}
    /\ UNCHANGED <<gone, moving, run, ledger, sweep, overlapped, stops, retries>>

\* operations.service.ts retry(): a notice that had failed is queued again.
Retry(n) ==
    /\ n \notin moving /\ retries < MaxRetries
    /\ moving' = moving \cup {n} /\ retries' = retries + 1
    /\ UNCHANGED <<past, gone, run, ledger, sweep, overlapped, stops>>

\* The delivery worker sends it, or gives it up.
Settle(n) ==
    /\ n \in moving
    /\ moving' = moving \ {n}
    /\ UNCHANGED <<past, gone, run, ledger, sweep, overlapped, stops, retries>>

Next ==
    \/ \E s \in Sweepers :
          \/ \E dry \in BOOLEAN : OpenRun(s, dry)
          \/ Find(s) \/ CountDue(s) \/ Fails(s) \/ Finish(s) \/ Stops(s)
          \/ \E rule \in Rules : Erase(s, rule)
    \/ \E n \in Notices \cup Rows : Age(n)
    \/ \E n \in Notices : Retry(n) \/ Settle(n)

Spec == Init /\ [][Next]_vars

\* The timer goes on, each rule goes through now and then, and a queued notice
\* comes to rest (QueueDrains of NotificationQueue).
Fairness ==
    /\ WF_vars(OpenRun(Schedule, FALSE)) /\ WF_vars(Find(Schedule)) /\ WF_vars(Finish(Schedule))
    /\ \A rule \in Rules : SF_vars(Erase(Schedule, rule))
    /\ \A n \in Notices : WF_vars(Settle(n))

FairSpec == Spec /\ Fairness

(***************************************************************************)
(* Properties                                                              *)
(***************************************************************************)
\* What the ledger says was erased is what is gone, also where a rule failed or the
\* sweep died, and however many sweeps there are at once; only a notice that two of them
\* had found is emptied and counted by both.
LedgerCountsErasures ==
    \A rule \in Rules :
        \/ ledger[rule] = Cardinality(gone \cap Table(rule))
        \/ rule = "redact" /\ overlapped

\* A run that is COMPLETED has a row in the ledger for every rule.
CompletedIsWhole ==
    \A s \in Sweepers : run[s] = "COMPLETED" => sweep[s].ledgered = Rules

\* The ledger of erasures can be relied on (applyRule() and sweep()).
LedgerIsTrue == LedgerCountsErasures /\ CompletedIsWhole

\* Whatever is past its period is erased in the end, more than a batch at a time or not,
\* though rules fail, sweeps die, and notices are put back in the queue.  What is gone
\* stays gone and nothing more comes of age after the last, so this is: in the end, all.
BacklogDrains == <>[](past \subseteq gone)

\* "Only a message that has stopped moving": a notice that was queued again after a sweep
\* had found it loses its words and its address on the way.
OnlyStoppedAreEmptied ==
    [][\A n \in Notices : n \in gone' \ gone => n \notin moving]_vars

\* "a row two sweeps both try to erase is simply erased once"
ErasedOnce == \A rule \in Rules : ledger[rule] <= Cardinality(gone \cap Table(rule))
=============================================================================
