------------------------------- MODULE Cases -------------------------------
(***************************************************************************)
(* Investigation cases: cases.service.ts, under the case-binding gate that *)
(* every act on a case passes.  The gate looks at the case as it is when   *)
(* the officer is authorised; the statement that follows names the row and *)
(* nothing else.                                                           *)
(***************************************************************************)
EXTENDS Naturals, FiniteSets

CONSTANTS Case,
          Officers,      \* of the agency that owns the cases
          Supervisors,   \* who hold CASE_ASSIGN and CASE_CLOSE, and not CASE_UPDATE
          Subjects,
          Requests,
          NoStatus,
          MaxNotes       \* bound: notes of a case

VARIABLES
    status,
    closed,    \* closed_at and the closure note are set
    assigned,  \* case_assignment; no statement sets released_at
    subjects,  \* case_subject; no statement sets unlinked_at
    notes,
    request

vars == <<status, closed, assigned, subjects, notes, request>>

ACTIVE_CASE_STATUSES == {"OPEN", "ACTIVE", "PENDING_REVIEW"}
Editable == ACTIVE_CASE_STATUSES \cup {"DRAFT", "SUSPENDED"}   \* caseUpdateSchema
CaseStatus == Editable \cup {"CLOSED", NoStatus}

Acts == {"CASE_UPDATE", "CASE_NOTE", "CASE_LINK_SUBJECT", "CASE_ASSIGN", "CASE_CLOSE"}
Idle == [act |-> "idle"]

TypeOK ==
    /\ status \in [Case -> CaseStatus]
    /\ closed \in [Case -> BOOLEAN]
    /\ assigned \in [Case -> SUBSET Officers]
    /\ subjects \in [Case -> SUBSET Subjects]
    /\ notes \in [Case -> 0..MaxNotes]
    /\ request \in [Requests -> {Idle} \cup [act : Acts, on : Case, seen : CaseStatus]]

Init ==
    /\ status = [c \in Case |-> NoStatus]
    /\ closed = [c \in Case |-> FALSE]
    /\ assigned = [c \in Case |-> {}]
    /\ subjects = [c \in Case |-> {}]
    /\ notes = [c \in Case |-> 0]
    /\ request = [r \in Requests |-> Idle]

\* create(): the officer who opens a case is assigned to it in the same transaction.
Create(c, o) ==
    /\ status[c] = NoStatus
    /\ o \notin Supervisors
    /\ status' = [status EXCEPT ![c] = "OPEN"]
    /\ assigned' = [assigned EXCEPT ![c] = {o}]
    /\ UNCHANGED <<closed, subjects, notes, request>>

\* Who holds the entitlement: SUPERVISOR assigns and closes, INVESTIGATOR does the rest.
Entitled(o, act) == (act \in {"CASE_ASSIGN", "CASE_CLOSE"}) = (o \in Supervisors)

(***************************************************************************)
(* caseBindingGate().  The service's own refusal of a closed case, and of  *)
(* a case that is not active, comes after the gate has refused it.         *)
(***************************************************************************)
\* Mutation of CaseBindingGate: the status is left to the service, which forgets it.
CaseBindingGateUnread(o, act, c) ==
    /\ status[c] # NoStatus
    /\ act = "CASE_ASSIGN" \/ o \in assigned[c]

CaseBindingGate(o, act, c) ==
    /\ status[c] \in ACTIVE_CASE_STATUSES
    /\ act = "CASE_ASSIGN" \/ o \in assigned[c]

Authorise(r, o, act, c) ==
    /\ request[r] = Idle
    /\ Entitled(o, act) /\ CaseBindingGate(o, act, c)
    /\ request' = [request EXCEPT ![r] = [act |-> act, on |-> c, seen |-> status[c]]]
    /\ UNCHANGED <<status, closed, assigned, subjects, notes>>

Doing(r, act) == request[r].act = act /\ request' = [request EXCEPT ![r] = Idle]

Update(r, s) ==
    /\ Doing(r, "CASE_UPDATE")
    /\ status' = [status EXCEPT ![request[r].on] = s]
    /\ UNCHANGED <<closed, assigned, subjects, notes>>

AddNote(r) ==
    /\ Doing(r, "CASE_NOTE")
    /\ notes[request[r].on] < MaxNotes
    /\ notes' = [notes EXCEPT ![request[r].on] = @ + 1]
    /\ UNCHANGED <<status, closed, assigned, subjects>>

LinkSubject(r, s) ==
    /\ Doing(r, "CASE_LINK_SUBJECT")
    /\ subjects' = [subjects EXCEPT ![request[r].on] = @ \cup {s}]
    /\ UNCHANGED <<status, closed, assigned, notes>>

Assign(r, o) ==
    /\ Doing(r, "CASE_ASSIGN")
    /\ assigned' = [assigned EXCEPT ![request[r].on] = @ \cup {o}]
    /\ UNCHANGED <<status, closed, subjects, notes>>

Close(r) ==
    /\ Doing(r, "CASE_CLOSE")
    /\ status' = [status EXCEPT ![request[r].on] = "CLOSED"]
    /\ closed' = [closed EXCEPT ![request[r].on] = TRUE]
    /\ UNCHANGED <<assigned, subjects, notes>>

\* The request fails between its authorisation and its statement.
Stops(r) ==
    /\ request[r] # Idle
    /\ request' = [request EXCEPT ![r] = Idle]
    /\ UNCHANGED <<status, closed, assigned, subjects, notes>>

Next ==
    \/ \E c \in Case, o \in Officers : Create(c, o)
    \/ \E r \in Requests :
          \/ \E o \in Officers, act \in Acts, c \in Case : Authorise(r, o, act, c)
          \/ \E s \in Editable : Update(r, s)
          \/ AddNote(r) \/ Close(r) \/ Stops(r)
          \/ \E s \in Subjects : LinkSubject(r, s)
          \/ \E o \in Officers : Assign(r, o)

Spec == Init /\ [][Next]_vars

\* Every officer on every case keeps asking, and goes through with what is granted.
Persistence ==
    /\ \A r \in Requests, o \in Officers, act \in Acts, c \in Case : WF_vars(Authorise(r, o, act, c))
    /\ \A r \in Requests : SF_vars(Update(r, "ACTIVE"))
PersistentSpec == Spec /\ Persistence

-----------------------------------------------------------------------------
\* A case that was closed is open again only where an officer was authorised on it while
\* it still was: nobody who comes to a closed case reopens it, whatever the order in
\* which two officers and a supervisor go about one case.
OverlapReopens ==
    \A c \in Case : (status[c] = "CLOSED" /\ status'[c] # "CLOSED") =>
        \E r \in Requests : /\ request[r] # Idle /\ request'[r] = Idle
                            /\ request[r].on = c /\ request[r].seen \in ACTIVE_CASE_STATUSES

\* "a case could not be moved from DRAFT to ACTIVE" is what CASE_UPDATE is there to end.
DraftCanStart == \A c \in Case : status[c] = "DRAFT" ~> status[c] # "DRAFT"
=============================================================================
