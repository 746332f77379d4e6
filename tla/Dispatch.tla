------------------------------ MODULE Dispatch ------------------------------
(***************************************************************************)
(* Incidents, response units and dispatches                                *)
(* (services/api/src/emergency/incidents.service.ts, dispatch.service.ts). *)
(*                                                                         *)
(* Every handler runs in the same two stages: it reads a row and asks the  *)
(* policy engine about it, each in a transaction of its own, and only then *)
(* opens the transaction that writes.  `pending' holds what each handler   *)
(* has decided to write in between; other handlers may commit meanwhile.   *)
(* The writing transaction is one action: its row locks make it atomic to  *)
(* the other writers, and Fail is the rollback or the lost process.        *)
(***************************************************************************)
CONSTANTS Units, Incidents, Agencies,
          Officers,        \* government accounts that may act on incidents
          Persons,         \* casualties, witnesses, subjects attached to one
          Handlers,        \* HTTP requests being served at the same time
          UnitAgency,      \* response_unit.agency_id
          OfficerAgency,   \* the agency of each account
          StatusRequests   \* incident statuses a caller asks for

IncidentStatus == {"REPORTED", "VERIFIED", "DISPATCHED", "ON_SCENE",
                   "CONTAINED", "RESOLVED", "CLOSED", "CANCELLED"}
ActiveStatus   == {"REPORTED", "VERIFIED", "DISPATCHED", "ON_SCENE", "CONTAINED"}
ClosingStatus  == {"CLOSED", "RESOLVED", "CANCELLED"}

DispatchStatus == {"ASSIGNED", "ACKNOWLEDGED", "EN_ROUTE", "ON_SCENE",
                   "COMPLETED", "STOOD_DOWN"}
LiveStatus     == {"ASSIGNED", "ACKNOWLEDGED", "EN_ROUTE", "ON_SCENE"}

UnitStatus     == {"AVAILABLE", "DISPATCHED", "EN_ROUTE", "ON_SCENE", "BUSY", "OFFLINE"}
Administrable  == {"AVAILABLE", "OFFLINE", "BUSY"}
Operational    == {"DISPATCHED", "EN_ROUTE", "ON_SCENE"}

ASSUME DispatchAssumption ==
    /\ UnitAgency \in [Units -> Agencies]
    /\ OfficerAgency \in [Officers -> Agencies]
    /\ StatusRequests \subseteq IncidentStatus

\* Mutations of Transitions: a stood-down unit can be sent back; a crew can
\* report its arrival without ever having set off.
TransitionsSentBack(s) ==
    CASE s = "ASSIGNED"     -> {"ACKNOWLEDGED", "EN_ROUTE", "STOOD_DOWN"}
      [] s = "ACKNOWLEDGED" -> {"EN_ROUTE", "STOOD_DOWN"}
      [] s = "EN_ROUTE"     -> {"ON_SCENE", "STOOD_DOWN"}
      [] s = "ON_SCENE"     -> {"COMPLETED", "STOOD_DOWN"}
      [] s = "STOOD_DOWN"   -> {"ASSIGNED"}
      [] OTHER              -> {}

TransitionsSkipping(s) ==
    CASE s \in {"ASSIGNED", "ACKNOWLEDGED"} -> {"EN_ROUTE", "ON_SCENE", "STOOD_DOWN"}
      [] s = "EN_ROUTE"     -> {"ON_SCENE", "STOOD_DOWN"}
      [] s = "ON_SCENE"     -> {"COMPLETED", "STOOD_DOWN"}
      [] OTHER              -> {}

\* DISPATCH_TRANSITIONS
Transitions(s) ==
    CASE s = "ASSIGNED"     -> {"ACKNOWLEDGED", "EN_ROUTE", "STOOD_DOWN"}
      [] s = "ACKNOWLEDGED" -> {"EN_ROUTE", "STOOD_DOWN"}
      [] s = "EN_ROUTE"     -> {"ON_SCENE", "STOOD_DOWN"}
      [] s = "ON_SCENE"     -> {"COMPLETED", "STOOD_DOWN"}
      [] OTHER              -> {}

\* Mutation of UnitStatusFor: a stood-down unit left on its job.
UnitStatusKeptOut(s) ==
    CASE s \in {"ASSIGNED", "ACKNOWLEDGED", "STOOD_DOWN"} -> "DISPATCHED"
      [] s = "COMPLETED"                                  -> "AVAILABLE"
      [] OTHER                                            -> s

\* UNIT_STATUS_FOR_DISPATCH
UnitStatusFor(s) ==
    CASE s \in {"ASSIGNED", "ACKNOWLEDGED"}  -> "DISPATCHED"
      [] s \in {"COMPLETED", "STOOD_DOWN"}   -> "AVAILABLE"
      [] OTHER                               -> s

VARIABLES
    incident,         \* status of each incident row, "NONE" before it exists
    firstDispatched,  \* first_dispatched_at IS NOT NULL
    firstArrival,     \* first_arrival_at IS NOT NULL
    agencyRole,       \* incident_agency rows: "NONE", "LEAD" or "RESPONDING"
    officers,         \* incident_officer rows
    persons,          \* incident_person rows
    unit,             \* status of each response_unit row
    dispatch,         \* status of the dispatch row UNIQUE (incident, unit)
    pending           \* what each handler has been authorised to write

incidentVars == <<incident, firstDispatched, firstArrival>>
rosterVars   == <<agencyRole, officers, persons>>
fleetVars    == <<unit, dispatch>>
vars         == <<incidentVars, rosterVars, fleetVars, pending>>

(***************************************************************************)
(* What a handler carries from its authorisation to its transaction.       *)
(***************************************************************************)
Idle == [op |-> "IDLE"]

DispatchRequests == [op : {"DISPATCH"}, inc : Incidents, unit : Units]
MoveRequests     == [op : {"MOVE"}, inc : Incidents, unit : Units, to : DispatchStatus]
UnitRequests     == [op : {"UNIT"}, unit : Units, to : {"AVAILABLE", "OFFLINE"}]
StatusChanges    == [op : {"STATUS"}, inc : Incidents, to : StatusRequests]
OfficerRequests  == [op : {"OFFICER"}, inc : Incidents, who : Officers]
PersonRequests   == [op : {"PERSON"}, inc : Incidents, who : Persons]

Requests == {Idle} \cup DispatchRequests \cup MoveRequests \cup UnitRequests
                   \cup StatusChanges \cup OfficerRequests \cup PersonRequests

TypeOK ==
    /\ incident \in [Incidents -> IncidentStatus \cup {"NONE"}]
    /\ firstDispatched \in [Incidents -> BOOLEAN]
    /\ firstArrival \in [Incidents -> BOOLEAN]
    /\ agencyRole \in [Incidents -> [Agencies -> {"NONE", "LEAD", "RESPONDING"}]]
    /\ officers \in [Incidents -> SUBSET Officers]
    /\ persons \in [Incidents -> SUBSET Persons]
    /\ unit \in [Units -> UnitStatus \cup {"NONE"}]
    /\ dispatch \in [Incidents -> [Units -> DispatchStatus \cup {"NONE"}]]
    /\ pending \in [Handlers -> Requests]

Init ==
    /\ incident = [i \in Incidents |-> "NONE"]
    /\ firstDispatched = [i \in Incidents |-> FALSE]
    /\ firstArrival = [i \in Incidents |-> FALSE]
    /\ agencyRole = [i \in Incidents |-> [a \in Agencies |-> "NONE"]]
    /\ officers = [i \in Incidents |-> {}]
    /\ persons = [i \in Incidents |-> {}]
    /\ unit = [u \in Units |-> "NONE"]
    /\ dispatch = [i \in Incidents |-> [u \in Units |-> "NONE"]]
    /\ pending = [h \in Handlers |-> Idle]

(***************************************************************************)
(* incidentBindingGate: closing is admitted on a finished incident, every  *)
(* other act on the record needs an active one; both need an officer who   *)
(* is on the incident or whose agency is.                                  *)
(***************************************************************************)
Assigned(i, o) == o \in officers[i] \/ agencyRole[i][OfficerAgency[o]] # "NONE"

\* Mutation of MayUpdate: the incident no longer has to be active.
MayUpdateFinished(i) == incident[i] # "NONE" /\ \E o \in Officers : Assigned(i, o)

MayUpdate(i) == incident[i] \in ActiveStatus /\ \E o \in Officers : Assigned(i, o)
MayClose(i)  == incident[i] # "NONE" /\ \E o \in Officers : Assigned(i, o)

Authorised(h, request) ==
    /\ pending[h] = Idle
    /\ pending' = [pending EXCEPT ![h] = request]
    /\ UNCHANGED <<incidentVars, rosterVars, fleetVars>>

Answer(h) == pending' = [pending EXCEPT ![h] = Idle]

(***************************************************************************)
(* incidents.service create(): the lead agency is the one named or the     *)
(* reporting officer's own; a citizen's report has neither lead agency     *)
(* (unless one is named) nor officer.  One transaction, nothing read.      *)
(***************************************************************************)
CreateIncident(i, lead, reporter) ==
    /\ incident[i] = "NONE"
    /\ incident' = [incident EXCEPT ![i] = "REPORTED"]
    /\ agencyRole' = [agencyRole EXCEPT ![i] =
                        [a \in Agencies |-> IF a \in lead THEN "LEAD" ELSE "NONE"]]
    /\ officers' = [officers EXCEPT ![i] = reporter]
    /\ UNCHANGED <<firstDispatched, firstArrival, persons, fleetVars, pending>>

ReportedByOfficer(i, o, a) == CreateIncident(i, {a}, {o})
ReportedByCitizen(i, lead) == CreateIncident(i, lead, {})

\* createUnit(): registered out of service unless put straight into it.
CreateUnit(u, s) ==
    /\ unit[u] = "NONE"
    /\ unit' = [unit EXCEPT ![u] = s]
    /\ UNCHANGED <<incidentVars, rosterVars, dispatch, pending>>

(***************************************************************************)
(* dispatch(): DISPATCH_CREATE is not bound to the incident, and of the    *)
(* incident only its existence is checked.                                 *)
(***************************************************************************)
AuthoriseDispatch(h, i, u) ==
    /\ incident[i] # "NONE"
    /\ Authorised(h, [op |-> "DISPATCH", inc |-> i, unit |-> u])

\* Mutation of RosterWith: only when the dispatch moves the incident on.
RosterWithMove(i, a) ==
    IF incident[i] \in {"REPORTED", "VERIFIED"} /\ agencyRole[i][a] = "NONE"
    THEN [agencyRole EXCEPT ![i][a] = "RESPONDING"] ELSE agencyRole

\* The agency joins, unless it is on the roster: ON CONFLICT DO NOTHING.
RosterWith(i, a) == [agencyRole EXCEPT ![i][a] = IF @ = "NONE" THEN "RESPONDING" ELSE @]

CommitDispatch(h) ==
    /\ pending[h].op = "DISPATCH"
    /\ LET i == pending[h].inc
           u == pending[h].unit
       IN /\ unit[u] = "AVAILABLE"
          /\ dispatch[i][u] = "NONE"
          /\ dispatch' = [dispatch EXCEPT ![i][u] = "ASSIGNED"]
          /\ unit' = [unit EXCEPT ![u] = "DISPATCHED"]
          /\ agencyRole' = RosterWith(i, UnitAgency[u])
          /\ incident' = [incident EXCEPT ![i] =
                            IF @ \in {"REPORTED", "VERIFIED"} THEN "DISPATCHED" ELSE @]
          /\ firstDispatched' = [firstDispatched EXCEPT ![i] = TRUE]
    /\ Answer(h)
    /\ UNCHANGED <<firstArrival, officers, persons>>

\* Mutation of RefuseDispatch: the agency has joined before the unit is looked at.
RefuseDispatchJoined(h) ==
    /\ pending[h].op = "DISPATCH"
    /\ \/ unit[pending[h].unit] # "AVAILABLE"
       \/ dispatch[pending[h].inc][pending[h].unit] # "NONE"
    /\ agencyRole' = RosterWith(pending[h].inc, UnitAgency[pending[h].unit])
    /\ Answer(h)
    /\ UNCHANGED <<incidentVars, officers, persons, fleetVars>>

\* The two 409s of dispatch(): the unit is not free, or was sent here before.
RefuseDispatch(h) ==
    /\ pending[h].op = "DISPATCH"
    /\ \/ unit[pending[h].unit] # "AVAILABLE"
       \/ dispatch[pending[h].inc][pending[h].unit] # "NONE"
    /\ Answer(h)
    /\ UNCHANGED <<incidentVars, rosterVars, fleetVars>>

(***************************************************************************)
(* updateDispatch(): the transition is checked against the status read     *)
(* before the authorisation; the transaction then writes without looking.  *)
(***************************************************************************)
AuthoriseMove(h, i, u, to) ==
    /\ to \in Transitions(dispatch[i][u])
    /\ Authorised(h, [op |-> "MOVE", inc |-> i, unit |-> u, to |-> to])

CommitMove(h) ==
    /\ pending[h].op = "MOVE"
    /\ LET i == pending[h].inc
           u == pending[h].unit
           to == pending[h].to
       IN /\ dispatch' = [dispatch EXCEPT ![i][u] = to]
          /\ unit' = [unit EXCEPT ![u] = UnitStatusFor(to)]
          /\ firstArrival' = [firstArrival EXCEPT ![i] = @ \/ to = "ON_SCENE"]
          /\ incident' = [incident EXCEPT ![i] =
                IF to = "ON_SCENE" /\ @ \in {"REPORTED", "VERIFIED", "DISPATCHED"}
                THEN "ON_SCENE" ELSE @]
    /\ Answer(h)
    /\ UNCHANGED <<firstDispatched, rosterVars>>

\* Mutation of AuthoriseUnit: a unit on a job may be administered.
AuthoriseUnitOnJob(h, u, to) ==
    /\ unit[u] # "NONE"
    /\ Authorised(h, [op |-> "UNIT", unit |-> u, to |-> to])

\* updateUnit(): same shape, the check on the row read first.
AuthoriseUnit(h, u, to) ==
    /\ unit[u] \in Administrable
    /\ Authorised(h, [op |-> "UNIT", unit |-> u, to |-> to])

CommitUnit(h) ==
    /\ pending[h].op = "UNIT"
    /\ unit' = [unit EXCEPT ![pending[h].unit] = pending[h].to]
    /\ Answer(h)
    /\ UNCHANGED <<incidentVars, rosterVars, dispatch>>

(***************************************************************************)
(* updateStatus(): any status may be asked for; which gate applies depends *)
(* on whether the status asked for is a closing one.                       *)
(***************************************************************************)
AuthoriseStatus(h, i, to) ==
    /\ IF to \in ClosingStatus THEN MayClose(i) ELSE MayUpdate(i)
    /\ Authorised(h, [op |-> "STATUS", inc |-> i, to |-> to])

CommitStatus(h) ==
    /\ pending[h].op = "STATUS"
    /\ incident' = [incident EXCEPT ![pending[h].inc] = pending[h].to]
    /\ Answer(h)
    /\ UNCHANGED <<firstDispatched, firstArrival, rosterVars, fleetVars>>

(***************************************************************************)
(* attachOfficer(), attachPerson().                                        *)
(***************************************************************************)
AuthoriseOfficer(h, i, o) ==
    /\ MayUpdate(i)
    /\ Authorised(h, [op |-> "OFFICER", inc |-> i, who |-> o])

CommitOfficer(h) ==
    /\ pending[h].op = "OFFICER"
    /\ officers' = [officers EXCEPT ![pending[h].inc] = @ \cup {pending[h].who}]
    /\ Answer(h)
    /\ UNCHANGED <<incidentVars, agencyRole, persons, fleetVars>>

AuthorisePerson(h, i, p) ==
    /\ MayUpdate(i)
    /\ Authorised(h, [op |-> "PERSON", inc |-> i, who |-> p])

CommitPerson(h) ==
    /\ pending[h].op = "PERSON"
    /\ persons' = [persons EXCEPT ![pending[h].inc] = @ \cup {pending[h].who}]
    /\ Answer(h)
    /\ UNCHANGED <<incidentVars, agencyRole, officers, fleetVars>>

\* The transaction rolls back (an error, an officer no longer ACTIVE, a lost
\* connection, a stopped process): nothing of it remains.
Fail(h) ==
    /\ pending[h] # Idle
    /\ Answer(h)
    /\ UNCHANGED <<incidentVars, rosterVars, fleetVars>>

Registers ==
    \/ \E i \in Incidents, o \in Officers, a \in Agencies : ReportedByOfficer(i, o, a)
    \/ \E i \in Incidents, lead \in {{}} \cup {{a} : a \in Agencies} : ReportedByCitizen(i, lead)
    \/ \E u \in Units, s \in {"AVAILABLE", "OFFLINE"} : CreateUnit(u, s)

Authorises(h) ==
    \/ \E i \in Incidents, u \in Units : AuthoriseDispatch(h, i, u)
    \/ \E i \in Incidents, u \in Units, to \in DispatchStatus : AuthoriseMove(h, i, u, to)
    \/ \E u \in Units, to \in {"AVAILABLE", "OFFLINE"} : AuthoriseUnit(h, u, to)
    \/ \E i \in Incidents, to \in StatusRequests : AuthoriseStatus(h, i, to)
    \/ \E i \in Incidents, o \in Officers : AuthoriseOfficer(h, i, o)
    \/ \E i \in Incidents, p \in Persons : AuthorisePerson(h, i, p)

Commits(h) ==
    \/ CommitDispatch(h)
    \/ RefuseDispatch(h)
    \/ CommitMove(h)
    \/ CommitUnit(h)
    \/ CommitStatus(h)
    \/ CommitOfficer(h)
    \/ CommitPerson(h)
    \/ Fail(h)

Next ==
    \/ Registers
    \/ \E h \in Handlers : Authorises(h) \/ Commits(h)

Spec == Init /\ [][Next]_vars

(***************************************************************************)
(* The same service when no two requests about one row are ever in flight  *)
(* together.  Nothing in the code enforces this (the rows are not locked   *)
(* when they are read), so it separates what the handlers' own checks      *)
(* guarantee from what needs a re-check inside the transaction.            *)
(***************************************************************************)
OnUnit(r)     == r.op \in {"DISPATCH", "MOVE", "UNIT"}
OnIncident(r) == r.op \in {"STATUS", "OFFICER", "PERSON"}

SameRow(r, s) == \/ OnUnit(r) /\ OnUnit(s) /\ r.unit = s.unit
                 \/ OnIncident(r) /\ OnIncident(s) /\ r.inc = s.inc

Disjoint == \A g, h \in Handlers : SameRow(pending[g], pending[h]) => g = h

DisjointNext ==
    \/ Registers
    \/ \E h \in Handlers : (Authorises(h) /\ Disjoint') \/ Commits(h)

DisjointSpec == Init /\ [][DisjointNext]_vars

-----------------------------------------------------------------------------
(***************************************************************************)
(* What holds however the requests interleave.                             *)
(***************************************************************************)

\* A unit shown as out on a job has a live dispatch at the same stage, so there
\* is always a dispatch through which it can be stood down: updateUnit() and
\* dispatch() refuse such a unit, so without one it could never be used again.
OperationalUnitHasLiveDispatch ==
    \A u \in Units : unit[u] \in Operational =>
        \E i \in Incidents : /\ dispatch[i][u] \in LiveStatus
                             /\ unit[u] = UnitStatusFor(dispatch[i][u])

\* Whoever has a unit on an incident is on the incident's roster: the roster
\* row, written by the same transaction as the dispatch row, is what opens the
\* incident's record to the crew; and the incident counts as dispatched to.
DispatchedAgencyOnRoster ==
    \A i \in Incidents, u \in Units : dispatch[i][u] # "NONE" =>
        /\ agencyRole[i][UnitAgency[u]] # "NONE"
        /\ firstDispatched[i]
        /\ incident[i] # "NONE"

\* And no agency joins an incident but by being sent there: what a refused or failed
\* dispatch did is rolled back.  (The row outlives the dispatch: see
\* RespondingAgencyHasLiveDispatch below.)
RespondingAgencyWasSent ==
    \A i \in Incidents, a \in Agencies : agencyRole[i][a] = "RESPONDING" =>
        \E u \in Units : UnitAgency[u] = a /\ dispatch[i][u] # "NONE"

\* The response times of toIncidentSummary() are differences of these two
\* instants: an arrival is never recorded on an incident nobody was sent to.
ArrivalFollowsDispatch ==
    \A i \in Incidents : firstArrival[i] =>
        firstDispatched[i] /\ \E u \in Units : dispatch[i][u] # "NONE"

\* Who joined an incident, and the recorded instants, follow from who was sent there
\* (dispatch, updateDispatch).
RosterFollowsDispatch ==
    DispatchedAgencyOnRoster /\ RespondingAgencyWasSent /\ ArrivalFollowsDispatch

(***************************************************************************)
(* What holds as long as requests about one row do not overlap.            *)
(***************************************************************************)

\* A unit is never on two jobs at once.
OneLiveDispatchPerUnit ==
    \A i, j \in Incidents, u \in Units :
        dispatch[i][u] \in LiveStatus /\ dispatch[j][u] \in LiveStatus => i = j

\* While a dispatch is live the control room sees its unit at that stage; in
\* particular an ambulance is not available while it is carrying a patient
\* (comment of updateUnit()).
LiveDispatchShownOnUnit ==
    \A i \in Incidents, u \in Units :
        dispatch[i][u] \in LiveStatus => unit[u] = UnitStatusFor(dispatch[i][u])

\* A unit has one job, and is shown at the stage of that job (dispatch,
\* updateDispatch, updateUnit).
UnitShowsItsJob == OneLiveDispatchPerUnit /\ LiveDispatchShownOnUnit

\* incidentBindingGate: "nothing reopens".
NothingReopens ==
    [][ \A i \in Incidents : incident[i] \in ClosingStatus => incident'[i] \in ClosingStatus ]_vars

\* incidentBindingGate: "nobody is added to a job that is over" - no officer
\* and no person (an agency still is, by dispatch()).
NobodyJoinsFinished ==
    [][ \A i \in Incidents : incident[i] \in ClosingStatus =>
          officers'[i] = officers[i] /\ persons'[i] = persons[i] ]_vars

\* incidentBindingGate, whole: a finished incident stays finished, and as it was.
FinishedStays == NothingReopens /\ NobodyJoinsFinished

\* The fleet as its users see it.
Abstract == INSTANCE Fleet WITH
    duty   <- unit,
    job    <- [u \in Units |-> {<<i, dispatch[i][u]>> :
                                 i \in {j \in Incidents : dispatch[j][u] \in LiveStatus}}],
    served <- [u \in Units |-> {i \in Incidents : dispatch[i][u] # "NONE"}]

\* Every step of the service is a step of the fleet: a unit is administered
\* only off a job, sent once per incident, and its job runs in order.
FleetSpec == Abstract!Spec

(***************************************************************************)
(* What the comments of the code promise and the code does not do.         *)
(***************************************************************************)

\* incidentBindingGate on a finished incident: "Everything else - updating,
\* attaching, dispatching - is refused".
NoDispatchToFinished ==
    [][ \A i \in Incidents : incident[i] \in ClosingStatus =>
          \A u \in Units : dispatch[i][u] = "NONE" => dispatch'[i][u] = "NONE" ]_vars

\* DispatchService: "Assigning a unit also assigns its agency to the incident
\* [...] - and closing the dispatch closes it again."
RespondingAgencyHasLiveDispatch ==
    \A i \in Incidents, a \in Agencies : agencyRole[i][a] = "RESPONDING" =>
        \E u \in Units : UnitAgency[u] = a /\ dispatch[i][u] \in LiveStatus
=============================================================================
