------------------------------ MODULE AuditLog ------------------------------
(***************************************************************************)
(* What the audit trail promises its readers: one growing list of entries, *)
(* in which every access and every change is preceded by the decision that *)
(* permitted it, and a transactional change appears together with its      *)
(* entry.  No locks, no hashes, no transactions.                           *)
(***************************************************************************)
EXTENDS Sequences, Naturals

CONSTANTS Requests,
          Detached         \* requests whose change and entry commit apart

VARIABLES log,             \* the entries, oldest first
          changed          \* requests whose change is in the database

logVars == <<log, changed>>

Decision(r, v) == [req |-> r, what |-> "DECISION", verdict |-> v]
Change(r)      == [req |-> r, what |-> "CHANGE", verdict |-> "PERMITTED"]

Listed(e) == \E n \in 1..Len(log) : log[n] = e

Init == log = <<>> /\ changed = {}

Decide(r, v) ==
    /\ \A w \in {"PERMITTED", "DENIED"} : ~Listed(Decision(r, w))
    /\ log' = Append(log, Decision(r, v))
    /\ UNCHANGED changed

\* The change and its entry in one step.
ChangeRecorded(r) ==
    /\ r \notin Detached
    /\ Listed(Decision(r, "PERMITTED"))
    /\ r \notin changed
    /\ log' = Append(log, Change(r))
    /\ changed' = changed \cup {r}

\* The change first, its entry later or never.
ChangeAlone(r) ==
    /\ r \in Detached
    /\ Listed(Decision(r, "PERMITTED"))
    /\ r \notin changed
    /\ changed' = changed \cup {r}
    /\ UNCHANGED log

RecordLate(r) ==
    /\ r \in Detached \cap changed
    /\ ~Listed(Change(r))
    /\ log' = Append(log, Change(r))
    /\ UNCHANGED changed

Next ==
    \E r \in Requests :
        \/ \E v \in {"PERMITTED", "DENIED"} : Decide(r, v)
        \/ ChangeRecorded(r)
        \/ ChangeAlone(r)
        \/ RecordLate(r)

Spec == Init /\ [][Next]_logVars
=============================================================================
