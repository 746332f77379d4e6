----------------------------- MODULE Corrections -----------------------------
(***************************************************************************)
(* Corrections to a citizen's record, and alerts: corrections.service.ts,  *)
(* alerts.service.ts and citizen-portal.service.ts.  A decision is one     *)
(* transaction that holds the lock on its row from the check of the status *)
(* to the commit.  Raising is a sequence of statements, and the process    *)
(* may stop between two of them.                                           *)
(***************************************************************************)
EXTENDS Sequences, FiniteSets

CONSTANTS Catalogue,    \* field-catalogue.ts
          Fields,       \* the fields in play
          Requests,     \* references drawn by nextReference()
          Alerts,
          Officers,     \* those who decide, one request at a time each
          Values, Unset

VARIABLES record, request, todo, trail, told, alert, review

vars == <<record, request, todo, trail, told, alert, review>>

-----------------------------------------------------------------------------
\* Read by resource type: fieldsForResource() and the filter on the flag.
selfServiceEditableFields ==
    {f \in DOMAIN Catalogue :
        Catalogue[f].resourceType = "CITIZEN" /\ Catalogue[f].selfServiceEditable}

APPLICABLE_COLUMNS ==
    {"citizen.givenName", "citizen.middleName", "citizen.familyName", "citizen.dateOfBirth",
     "citizen.sex", "citizen.registeredAddress", "citizen.lgaCode", "citizen.wardCode",
     "citizen.phonePrimary", "citizen.phoneSecondary", "citizen.email"}

\* What a resident may ask for, and what an officer may ask for in their name.
Correctable ==
    selfServiceEditableFields \cup
    {"citizen.givenName", "citizen.middleName", "citizen.familyName", "citizen.dateOfBirth",
     "citizen.registeredAddress", "citizen.lgaCode", "citizen.wardCode", "citizen.sex"}

MayBeAsked(by) == IF by = "CITIZEN" THEN Correctable ELSE APPLICABLE_COLUMNS

\* The three checks of apply(), the last point before the register changes.
CanApply(f) == f \in APPLICABLE_COLUMNS \cap DOMAIN Catalogue \cap selfServiceEditableFields

-----------------------------------------------------------------------------
Decision == {"APPROVE", "REJECT", "REQUEST_EVIDENCE"}
Outcome == [APPROVE |-> "APPLIED", REJECT |-> "REJECTED", REQUEST_EVIDENCE |-> "EVIDENCE_REQUIRED"]
Final == {"APPLIED", "REJECTED"}

AlertDecision == {"ACTIONED", "DISMISSED_FALSE_POSITIVE", "CLOSED"}

Request ==
    [status : {"NONE", "DRAWN", "SUBMITTED", "EVIDENCE_REQUIRED"} \cup Final,
     by : {"CITIZEN", "GOVERNMENT_USER"}, field : Fields,
     current : Values \cup {Unset}, wanted : Values]

Entry == [about : Requests, decision : Decision, previous : Values \cup {Unset},
          replaced : Values, new : Values \cup {Unset}]

Idle == [on |-> "nothing"]

Review ==
    {Idle} \cup [on : {"correction"}, about : Requests, decision : Decision]
           \cup [on : {"alert"}, about : Alerts, decision : AlertDecision]

TypeOK ==
    /\ record \in [Fields -> Values]
    /\ request \in [Requests -> Request]
    /\ todo \in [Requests -> Seq({"insert", "audit", "tell"})]
    /\ trail \subseteq Entry
    /\ told \in [Requests -> [raised : BOOLEAN, decided : {"NONE"} \cup {Outcome[d] : d \in Decision}]]
    /\ alert \in [Alerts -> {"OPEN"} \cup AlertDecision]
    /\ review \in [Officers -> Review]

Init ==
    \E v \in Values, first \in Fields :
        /\ record = [f \in Fields |-> v]
        /\ request = [q \in Requests |->
              [status |-> "NONE", by |-> "CITIZEN", field |-> first,
               current |-> Unset, wanted |-> v]]
        /\ todo = [q \in Requests |-> <<>>]
        /\ trail = {}
        /\ told = [q \in Requests |-> [raised |-> FALSE, decided |-> "NONE"]]
        /\ alert = [a \in Alerts |-> "OPEN"]
        /\ review = [o \in Officers |-> Idle]

-----------------------------------------------------------------------------
(***************************************************************************)
(* Raising.                                                                *)
(***************************************************************************)
Raise(q, by, f, v, current, rest) ==
    /\ request[q].status = "NONE"
    /\ f \in MayBeAsked(by)
    /\ request' = [request EXCEPT
          ![q] = [status |-> "DRAWN", by |-> by, field |-> f, current |-> current, wanted |-> v]]
    /\ todo' = [todo EXCEPT ![q] = rest]
    /\ UNCHANGED <<record, trail, told, alert, review>>

\* The resident's own request carries no current value and tells nobody.
createCorrectionRequest(q, f, v) == Raise(q, "CITIZEN", f, v, Unset, <<"insert", "audit">>)

\* The current value is read here and inserted in a statement of its own.
createOnBehalf(q, f, v) ==
    Raise(q, "GOVERNMENT_USER", f, v, record[f], <<"insert", "audit", "tell">>)

NextOf(q, statement) ==
    /\ todo[q] # <<>> /\ Head(todo[q]) = statement
    /\ todo' = [todo EXCEPT ![q] = Tail(@)]
    /\ UNCHANGED <<record, trail, alert, review>>

\* The columns that a request is inserted with; the row is visible from here on.
Insert(q) ==
    /\ NextOf(q, "insert")
    /\ request' = [request EXCEPT ![q].status = "SUBMITTED"]
    /\ UNCHANGED told

RecordRaised(q) == NextOf(q, "audit") /\ UNCHANGED <<request, told>>

TellRaised(q) ==
    /\ NextOf(q, "tell")
    /\ told' = [told EXCEPT ![q].raised = TRUE]
    /\ UNCHANGED request

\* The process stops, or a statement fails: those after it never run.
StopRaising(q) ==
    /\ todo[q] # <<>>
    /\ todo' = [todo EXCEPT ![q] = <<>>]
    /\ UNCHANGED <<record, request, trail, told, alert, review>>

-----------------------------------------------------------------------------
(***************************************************************************)
(* Deciding.                                                               *)
(***************************************************************************)
\* Mutation: FOR UPDATE forgotten.
UnlockedAlways(on, x) == TRUE

Unlocked(on, x) ==
    \A o \in Officers : review[o] # Idle => review[o].on # on \/ review[o].about # x

Lock(o, on, x, d) ==
    /\ review[o] = Idle
    /\ Unlocked(on, x)
    /\ review' = [review EXCEPT ![o] = [on |-> on, about |-> x, decision |-> d]]
    /\ UNCHANGED <<record, request, todo, trail, told, alert>>

\* SELECT ... FOR UPDATE OF cr, and the refusal of a request already decided.
decide(o, q, d) ==
    /\ request[q].status \in {"SUBMITTED", "EVIDENCE_REQUIRED"}
    /\ Lock(o, "correction", q, d)

\* SELECT ... FOR UPDATE OF a, and the refusal of an alert already closed.
reviewAlert(o, a, d) ==
    /\ alert[a] = "OPEN"
    /\ Lock(o, "alert", a, d)

Release(o) == review' = [review EXCEPT ![o] = Idle]

\* An approval that apply() refuses leaves no trace: Abandon is what becomes of it.  The
\* row of evidence it adds leaves the verification level as it was.
apply(q, d) ==
    IF d = "APPROVE"
    THEN /\ CanApply(request[q].field)
         /\ record' = [record EXCEPT ![request[q].field] = request[q].wanted]
    ELSE UNCHANGED record

\* enqueue() under a key made of the reference alone: ON CONFLICT DO NOTHING.
Tell(q, status) ==
    told' = [told EXCEPT ![q].decided = IF @ = "NONE" THEN status ELSE @]

CommitCorrection(o) ==
    /\ review[o] # Idle /\ review[o].on = "correction"
    /\ LET q == review[o].about
           d == review[o].decision
       IN  /\ apply(q, d)
           /\ request' = [request EXCEPT ![q].status = Outcome[d]]
           /\ trail' = trail \cup
                 {[about |-> q, decision |-> d, previous |-> request[q].current,
                   replaced |-> record[request[q].field],
                   new |-> IF d = "APPROVE" THEN request[q].wanted ELSE Unset]}
           /\ Tell(q, Outcome[d])
    /\ Release(o)
    /\ UNCHANGED <<todo, alert>>

CommitAlert(o) ==
    /\ review[o] # Idle /\ review[o].on = "alert"
    /\ alert' = [alert EXCEPT ![review[o].about] = review[o].decision]
    /\ Release(o)
    /\ UNCHANGED <<record, request, todo, trail, told>>

\* The transaction is rolled back: apply() refused, the connection was lost.
Abandon(o) ==
    /\ review[o] # Idle
    /\ Release(o)
    /\ UNCHANGED <<record, request, todo, trail, told, alert>>

Next ==
    \/ \E q \in Requests :
          \/ \E f \in Fields, v \in Values : createCorrectionRequest(q, f, v) \/ createOnBehalf(q, f, v)
          \/ Insert(q) \/ RecordRaised(q) \/ TellRaised(q) \/ StopRaising(q)
    \/ \E o \in Officers :
          \/ \E q \in Requests, d \in Decision : decide(o, q, d)
          \/ \E a \in Alerts, d \in AlertDecision : reviewAlert(o, a, d)
          \/ CommitCorrection(o) \/ CommitAlert(o) \/ Abandon(o)

Spec == Init /\ [][Next]_vars
-----------------------------------------------------------------------------
Entries(q, decisions) == {e \in trail : e.about = q /\ e.decision \in decisions}

\* However two officers meet on one request, it is decided once: the trail holds one
\* final decision, the one the request shows, and none while it is open (decide()).
DecidedOnce ==
    \A q \in Requests :
        IF request[q].status \in Final
        THEN \E e \in trail : /\ Entries(q, {"APPROVE", "REJECT"}) = {e}
                             /\ Outcome[e.decision] = request[q].status
        ELSE Entries(q, {"APPROVE", "REJECT"}) = {}

\* What a resident reads of a request that was never returned for evidence is how it
\* was decided, and nothing before it was (the enqueue() of decide()).
ToldUnlessAskedFirst ==
    \A q \in Requests :
        Entries(q, {"REQUEST_EVIDENCE"}) = {} =>
            told[q].decided = IF request[q].status \in Final THEN request[q].status ELSE "NONE"

\* The extent to which corrections are answered.
CorrectionsAreAnswered == DecidedOnce /\ ToldUnlessAskedFirst

(***************************************************************************)
(* What the comments of the service say and the code does not keep.        *)
(***************************************************************************)
\* "tells the resident it happened" (corrections.service.ts:74): the notice of a
\* decision after a return for evidence has the key of the first, and is dropped.
ToldOfDecision ==
    \A q \in Requests : request[q].status \in Final => told[q].decided = request[q].status

\* "the before and the after" (corrections.service.ts:328-329): the value on the trail
\* is the one at the time of asking, or none.
BeforeIsWhatWas == \A e \in trail : e.decision = "APPROVE" => e.previous = e.replaced

\* "before it is changed" (corrections.service.ts:228-230): the notice is a statement
\* after the insert, and a decision may come between.
ToldBeforeChanged ==
    \A q \in Requests :
        request[q].status = "APPLIED" /\ request[q].by = "GOVERNMENT_USER" => told[q].raised

\* "a register that accepts a correction and then does not make it is worse than one
\* that refuses" (corrections.service.ts:74-75): of what may be asked, names, birth,
\* sex and address among it, apply() makes the telephone numbers and the e-mail only.
AcceptedCanBeMade == \A q \in Requests : request[q].status # "NONE" => CanApply(request[q].field)
=============================================================================
