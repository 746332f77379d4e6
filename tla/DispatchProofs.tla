--------------------------- MODULE DispatchProofs ---------------------------
(***************************************************************************)
(* Theorems about Dispatch, for every fleet and any number of requests.    *)
(***************************************************************************)
EXTENDS Dispatch, TLAPS

USE DispatchAssumption

\* What a handler holds is determined by the operation it is in.
LEMMA RequestShape ==
    ASSUME NEW r \in Requests
    PROVE  /\ r.op = "DISPATCH" => r \in DispatchRequests
           /\ r.op = "MOVE" => r \in MoveRequests
           /\ r.op = "UNIT" => r \in UnitRequests
           /\ r.op = "STATUS" => r \in StatusChanges
           /\ r.op = "OFFICER" => r \in OfficerRequests
           /\ r.op = "PERSON" => r \in PersonRequests
           /\ Idle.op = "IDLE"
  BY DEF Requests, Idle, DispatchRequests, MoveRequests, UnitRequests,
         StatusChanges, OfficerRequests, PersonRequests

\* The stages of DISPATCH_TRANSITIONS and UNIT_STATUS_FOR_DISPATCH.
LEMMA StageTables ==
    /\ \A s \in DispatchStatus : UnitStatusFor(s) \in UnitStatus
    /\ \A s \in DispatchStatus : UnitStatusFor(s) \in Operational <=> s \in LiveStatus
    /\ \A s \in DispatchStatus : s \notin LiveStatus => UnitStatusFor(s) = "AVAILABLE"
    /\ \A s \in DispatchStatus \cup {"NONE"} : Transitions(s) \subseteq DispatchStatus
    /\ \A s \in DispatchStatus \cup {"NONE"} : Transitions(s) # {} => s \in LiveStatus
    /\ Transitions("NONE") = {}
    /\ UnitStatusFor("ASSIGNED") = "DISPATCHED"
  BY DEF DispatchStatus, LiveStatus, UnitStatus, Operational, Transitions, UnitStatusFor

THEOREM TypeCorrect == Spec => []TypeOK
<1>1. Init => TypeOK
  BY DEF Init, TypeOK, Requests
<1>2. TypeOK /\ [Next]_vars => TypeOK'
  <2> SUFFICES ASSUME TypeOK, [Next]_vars PROVE TypeOK'
    OBVIOUS
  <2> USE DEF TypeOK, incidentVars, rosterVars, fleetVars, IncidentStatus
  <2>1. ASSUME NEW i \in Incidents, NEW lead \in SUBSET Agencies, NEW rep \in SUBSET Officers,
               CreateIncident(i, lead, rep)
        PROVE  TypeOK'
    BY <2>1 DEF CreateIncident
  <2>2. ASSUME NEW u \in Units, NEW s \in {"AVAILABLE", "OFFLINE"}, CreateUnit(u, s)
        PROVE  TypeOK'
    BY <2>2 DEF CreateUnit, UnitStatus
  <2>3. ASSUME NEW h \in Handlers, NEW r \in Requests, Authorised(h, r)
        PROVE  TypeOK'
    BY <2>3 DEF Authorised
  <2>4. ASSUME NEW h \in Handlers, Authorises(h)
        PROVE  TypeOK'
    <3>1. \E r \in Requests : Authorised(h, r)
      BY <2>4 DEF Authorises, AuthoriseDispatch, AuthoriseMove, AuthoriseUnit, AuthoriseStatus,
                  AuthoriseOfficer, AuthorisePerson, Requests, DispatchRequests, MoveRequests,
                  UnitRequests, StatusChanges, OfficerRequests, PersonRequests
    <3> QED BY <3>1, <2>3
  <2>5. ASSUME NEW h \in Handlers, Commits(h)
        PROVE  TypeOK'
    <3> pending[h] \in Requests
      OBVIOUS
    <3> Idle \in Requests
      BY DEF Requests
    <3>1. CASE CommitDispatch(h)
      BY <3>1, RequestShape DEF CommitDispatch, RosterWith, Answer, DispatchRequests, DispatchStatus, UnitStatus
    <3>2. CASE RefuseDispatch(h)
      BY <3>2 DEF RefuseDispatch, Answer
    <3>3. CASE CommitMove(h)
      BY <3>3, RequestShape, StageTables DEF CommitMove, Answer, MoveRequests
    <3>4. CASE CommitUnit(h)
      BY <3>4, RequestShape DEF CommitUnit, Answer, UnitRequests, UnitStatus
    <3>5. CASE CommitStatus(h)
      BY <3>5, RequestShape DEF CommitStatus, Answer, StatusChanges
    <3>6. CASE CommitOfficer(h)
      BY <3>6, RequestShape DEF CommitOfficer, Answer, OfficerRequests
    <3>7. CASE CommitPerson(h)
      BY <3>7, RequestShape DEF CommitPerson, Answer, PersonRequests
    <3>8. CASE Fail(h)
      BY <3>8 DEF Fail, Answer
    <3> QED BY <2>5, <3>1, <3>2, <3>3, <3>4, <3>5, <3>6, <3>7, <3>8 DEF Commits
  <2>6. CASE UNCHANGED vars
    BY <2>6 DEF vars
  <2> HIDE DEF TypeOK
  <2>7. CASE Registers
    <3>1. CASE \E i \in Incidents, o \in Officers, a \in Agencies : ReportedByOfficer(i, o, a)
      BY <3>1, <2>1 DEF ReportedByOfficer
    <3>2. CASE \E i \in Incidents, lead \in {{}} \cup {{a} : a \in Agencies} : ReportedByCitizen(i, lead)
      BY <3>2, <2>1 DEF ReportedByCitizen
    <3>3. CASE \E u \in Units, s \in {"AVAILABLE", "OFFLINE"} : CreateUnit(u, s)
      BY <3>3, <2>2
    <3> QED BY <2>7, <3>1, <3>2, <3>3 DEF Registers
  <2> QED
    BY <2>4, <2>5, <2>6, <2>7 DEF Next
<1> QED BY <1>1, <1>2, PTL DEF Spec

-----------------------------------------------------------------------------
(***************************************************************************)
(* What holds however requests interleave.                                 *)
(***************************************************************************)

\* An authorisation writes nothing but the handler's own decision.
LEMMA AuthorisesWritesNothing ==
    ASSUME NEW h \in Handlers, Authorises(h)
    PROVE  UNCHANGED <<incidentVars, rosterVars, fleetVars>>
  BY DEF Authorises, Authorised, AuthoriseDispatch, AuthoriseMove, AuthoriseUnit,
         AuthoriseStatus, AuthoriseOfficer, AuthorisePerson

\* Every step is the registration of an incident or a unit, an authorisation,
\* one of the writing transactions, or writes no row.
LEMMA StepKinds ==
    ASSUME TypeOK, [Next]_vars
    PROVE  \/ \E i \in Incidents, lead \in SUBSET Agencies, rep \in SUBSET Officers :
                  CreateIncident(i, lead, rep)
           \/ \E u \in Units, s \in {"AVAILABLE", "OFFLINE"} : CreateUnit(u, s)
           \/ \E h \in Handlers : Authorises(h)
           \/ \E h \in Handlers : CommitDispatch(h)
           \/ \E h \in Handlers : CommitMove(h)
           \/ \E h \in Handlers : CommitUnit(h)
           \/ \E h \in Handlers : CommitStatus(h)
           \/ \E h \in Handlers : CommitOfficer(h)
           \/ \E h \in Handlers : CommitPerson(h)
           \/ /\ UNCHANGED <<incidentVars, rosterVars, fleetVars>>
              /\ \A h \in Handlers : pending'[h] \in {pending[h], Idle}
<1>1. CASE Registers
  <2>1. CASE \E i \in Incidents, o \in Officers, a \in Agencies : ReportedByOfficer(i, o, a)
    BY <2>1 DEF ReportedByOfficer
  <2>2. CASE \E i \in Incidents, lead \in {{}} \cup {{a} : a \in Agencies} : ReportedByCitizen(i, lead)
    BY <2>2 DEF ReportedByCitizen
  <2> QED BY <1>1, <2>1, <2>2 DEF Registers
<1>2. ASSUME NEW h \in Handlers, RefuseDispatch(h) \/ Fail(h)
      PROVE  /\ UNCHANGED <<incidentVars, rosterVars, fleetVars>>
             /\ \A g \in Handlers : pending'[g] \in {pending[g], Idle}
  BY <1>2 DEF RefuseDispatch, Fail, Answer, TypeOK
<1>3. CASE UNCHANGED vars
  BY <1>3 DEF vars
<1>4. CASE \E h \in Handlers : Commits(h)
  BY <1>4, <1>2 DEF Commits
<1> QED BY <1>1, <1>3, <1>4 DEF Next

\* A unit shown as out on a job has a live dispatch at that stage: every write
\* of an operational status goes with a write of a live dispatch, and every
\* later write of that dispatch with a write of the unit.
THEOREM OperationalUnits == Spec => []OperationalUnitHasLiveDispatch
<1>1. Init => OperationalUnitHasLiveDispatch
  BY DEF Init, OperationalUnitHasLiveDispatch, Operational
<1>2. TypeOK /\ OperationalUnitHasLiveDispatch /\ [Next]_vars => OperationalUnitHasLiveDispatch'
  <2> SUFFICES ASSUME TypeOK, OperationalUnitHasLiveDispatch, [Next]_vars,
                      NEW v \in Units, unit'[v] \in Operational
               PROVE  \E i \in Incidents : /\ dispatch'[i][v] \in LiveStatus
                                           /\ unit'[v] = UnitStatusFor(dispatch'[i][v])
    BY DEF OperationalUnitHasLiveDispatch
  <2> USE DEF OperationalUnitHasLiveDispatch
  <2>1. CASE UNCHANGED fleetVars
    BY <2>1 DEF fleetVars
  <2>2. ASSUME NEW u \in Units, NEW s \in {"AVAILABLE", "OFFLINE"}, CreateUnit(u, s)
        PROVE  v # u /\ unit'[v] = unit[v] /\ dispatch' = dispatch
    BY <2>2 DEF CreateUnit, TypeOK, Operational
  <2>3. ASSUME NEW h \in Handlers, CommitDispatch(h)
        PROVE  \E i \in Incidents : /\ dispatch'[i][v] \in LiveStatus
                                    /\ unit'[v] = UnitStatusFor(dispatch'[i][v])
    <3> pending[h] \in Requests
      BY DEF TypeOK
    <3>1. pending[h].inc \in Incidents /\ pending[h].unit \in Units
      BY <2>3, RequestShape DEF CommitDispatch, DispatchRequests
    <3>2. CASE v = pending[h].unit
      <4> dispatch'[pending[h].inc][v] = "ASSIGNED" /\ unit'[v] = "DISPATCHED"
        BY <2>3, <3>1, <3>2 DEF CommitDispatch, TypeOK
      <4> QED BY <3>1, StageTables DEF LiveStatus
    <3>3. CASE v # pending[h].unit
      <4> unit'[v] = unit[v] /\ \A i \in Incidents : dispatch'[i][v] = dispatch[i][v]
        BY <2>3, <3>1, <3>3 DEF CommitDispatch, TypeOK
      <4> QED OBVIOUS
    <3> QED BY <3>2, <3>3
  <2>4. ASSUME NEW h \in Handlers, CommitMove(h)
        PROVE  \E i \in Incidents : /\ dispatch'[i][v] \in LiveStatus
                                    /\ unit'[v] = UnitStatusFor(dispatch'[i][v])
    <3> pending[h] \in Requests
      BY DEF TypeOK
    <3>1. pending[h].inc \in Incidents /\ pending[h].unit \in Units /\ pending[h].to \in DispatchStatus
      BY <2>4, RequestShape DEF CommitMove, MoveRequests
    <3>2. CASE v = pending[h].unit
      <4> dispatch'[pending[h].inc][v] = pending[h].to /\ unit'[v] = UnitStatusFor(pending[h].to)
        BY <2>4, <3>1, <3>2 DEF CommitMove, TypeOK
      <4> QED BY <3>1, StageTables
    <3>3. CASE v # pending[h].unit
      <4> unit'[v] = unit[v] /\ \A i \in Incidents : dispatch'[i][v] = dispatch[i][v]
        BY <2>4, <3>1, <3>3 DEF CommitMove, TypeOK
      <4> QED OBVIOUS
    <3> QED BY <3>2, <3>3
  <2>5. ASSUME NEW h \in Handlers, CommitUnit(h)
        PROVE  unit'[v] = unit[v] /\ dispatch' = dispatch
    <3> pending[h] \in UnitRequests
      BY <2>5, RequestShape DEF CommitUnit, TypeOK
    <3> QED BY <2>5 DEF CommitUnit, TypeOK, UnitRequests, Operational
  <2>6. ASSUME NEW h \in Handlers, CommitStatus(h) \/ CommitOfficer(h) \/ CommitPerson(h)
        PROVE  UNCHANGED fleetVars
    BY <2>6 DEF CommitStatus, CommitOfficer, CommitPerson
  <2>7. ASSUME NEW i \in Incidents, NEW lead \in SUBSET Agencies, NEW rep \in SUBSET Officers,
               CreateIncident(i, lead, rep)
        PROVE  UNCHANGED fleetVars
    BY <2>7 DEF CreateIncident
  <2> QED
    BY <2>1, <2>2, <2>3, <2>4, <2>5, <2>6, <2>7, StepKinds, AuthorisesWritesNothing
<1> QED BY <1>1, <1>2, TypeCorrect, PTL DEF Spec

(***************************************************************************)
(* The roster and the response times: what is carried from an              *)
(* authorisation to its transaction must still make sense then.            *)
(***************************************************************************)
PendingKnown ==
    \A h \in Handlers :
        /\ pending[h].op = "DISPATCH" => incident[pending[h].inc] # "NONE"
        /\ pending[h].op = "MOVE" => dispatch[pending[h].inc][pending[h].unit] # "NONE"
        /\ pending[h].op = "STATUS" => incident[pending[h].inc] # "NONE"

RosterInv == RosterFollowsDispatch /\ PendingKnown

\* Rows are never deleted and their statuses never go back to "no row".
LEMMA RowsStay ==
    ASSUME TypeOK, PendingKnown, [Next]_vars
    PROVE  /\ \A i \in Incidents : incident[i] # "NONE" => incident'[i] # "NONE"
           /\ \A i \in Incidents : firstDispatched[i] => firstDispatched'[i]
           /\ \A i \in Incidents, u \in Units : dispatch[i][u] # "NONE" => dispatch'[i][u] # "NONE"
<1> USE DEF TypeOK
<1>1. CASE UNCHANGED <<incidentVars, fleetVars>>
  BY <1>1 DEF incidentVars, fleetVars
<1>2. ASSUME NEW i \in Incidents, NEW lead \in SUBSET Agencies, NEW rep \in SUBSET Officers,
             CreateIncident(i, lead, rep)
      PROVE  /\ \A j \in Incidents : incident[j] # "NONE" => incident'[j] # "NONE"
             /\ UNCHANGED <<firstDispatched, dispatch>>
  BY <1>2 DEF CreateIncident, fleetVars
<1>3. ASSUME NEW u \in Units, NEW s \in {"AVAILABLE", "OFFLINE"}, CreateUnit(u, s)
      PROVE  UNCHANGED <<incidentVars, dispatch>>
  BY <1>3 DEF CreateUnit
<1>4. ASSUME NEW h \in Handlers, CommitDispatch(h)
      PROVE  /\ \A i \in Incidents : incident[i] # "NONE" => incident'[i] # "NONE"
             /\ \A i \in Incidents : firstDispatched[i] => firstDispatched'[i]
             /\ \A i \in Incidents, u \in Units : dispatch[i][u] # "NONE" => dispatch'[i][u] # "NONE"
  <2> pending[h] \in DispatchRequests
    BY <1>4, RequestShape DEF CommitDispatch
  <2> QED BY <1>4 DEF CommitDispatch, DispatchRequests
<1>5. ASSUME NEW h \in Handlers, CommitMove(h)
      PROVE  /\ \A i \in Incidents : incident[i] # "NONE" => incident'[i] # "NONE"
             /\ firstDispatched' = firstDispatched
             /\ \A i \in Incidents, u \in Units : dispatch[i][u] # "NONE" => dispatch'[i][u] # "NONE"
  <2> pending[h] \in MoveRequests
    BY <1>5, RequestShape DEF CommitMove
  <2> QED BY <1>5 DEF CommitMove, MoveRequests, DispatchStatus
<1>6. ASSUME NEW h \in Handlers, CommitUnit(h)
      PROVE  UNCHANGED <<incidentVars, dispatch>>
  BY <1>6 DEF CommitUnit
<1>7. ASSUME NEW h \in Handlers, CommitStatus(h)
      PROVE  /\ \A i \in Incidents : incident[i] # "NONE" => incident'[i] # "NONE"
             /\ UNCHANGED <<firstDispatched, dispatch>>
  <2> pending[h] \in StatusChanges
    BY <1>7, RequestShape DEF CommitStatus
  <2> QED BY <1>7 DEF CommitStatus, StatusChanges, fleetVars, IncidentStatus
<1>8. ASSUME NEW h \in Handlers, CommitOfficer(h) \/ CommitPerson(h)
      PROVE  UNCHANGED <<incidentVars, fleetVars>>
  BY <1>8 DEF CommitOfficer, CommitPerson
<1> HIDE DEF TypeOK
<1> QED
  BY <1>1, <1>2, <1>3, <1>4, <1>5, <1>6, <1>7, <1>8, StepKinds, AuthorisesWritesNothing
     DEF incidentVars, fleetVars

\* A handler's decision is taken by its own authorisation and by nothing else.
LEMMA DecisionStep ==
    ASSUME TypeOK, [Next]_vars, NEW g \in Handlers
    PROVE  pending'[g] \in {pending[g], Idle} \/ (Authorises(g) /\ pending[g] = Idle)
<1> USE DEF TypeOK
<1>1. ASSUME NEW h \in Handlers, Authorises(h)
      PROVE  pending'[g] = pending[g] \/ (g = h /\ pending[g] = Idle)
  BY <1>1 DEF Authorises, Authorised, AuthoriseDispatch, AuthoriseMove, AuthoriseUnit,
              AuthoriseStatus, AuthoriseOfficer, AuthorisePerson
<1>2. ASSUME NEW h \in Handlers, Answer(h)
      PROVE  pending'[g] \in {pending[g], Idle}
  BY <1>2 DEF Answer
<1>3. ASSUME NEW h \in Handlers, \/ CommitDispatch(h) \/ CommitMove(h) \/ CommitUnit(h)
                                 \/ CommitStatus(h) \/ CommitOfficer(h) \/ CommitPerson(h)
      PROVE  Answer(h)
  BY <1>3 DEF CommitDispatch, CommitMove, CommitUnit, CommitStatus, CommitOfficer, CommitPerson
<1>4. ASSUME NEW i \in Incidents, NEW lead \in SUBSET Agencies, NEW rep \in SUBSET Officers,
             CreateIncident(i, lead, rep)
      PROVE  pending' = pending
  BY <1>4 DEF CreateIncident
<1>5. ASSUME NEW u \in Units, NEW s \in {"AVAILABLE", "OFFLINE"}, CreateUnit(u, s)
      PROVE  pending' = pending
  BY <1>5 DEF CreateUnit
<1> HIDE DEF TypeOK
<1>6. CASE \E h \in Handlers : \/ CommitDispatch(h) \/ CommitMove(h) \/ CommitUnit(h)
                              \/ CommitStatus(h) \/ CommitOfficer(h) \/ CommitPerson(h)
  BY <1>2, <1>3, <1>6
<1>7. CASE \E h \in Handlers : Authorises(h)
  BY <1>1, <1>7
<1>8. CASE \A h \in Handlers : pending'[h] \in {pending[h], Idle}
  BY <1>8
<1>9. CASE \E i \in Incidents, lead \in SUBSET Agencies, rep \in SUBSET Officers :
               CreateIncident(i, lead, rep)
  BY <1>4, <1>9
<1>10. CASE \E u \in Units, s \in {"AVAILABLE", "OFFLINE"} : CreateUnit(u, s)
  BY <1>5, <1>10
<1> QED BY <1>6, <1>7, <1>8, <1>9, <1>10, StepKinds

\* Whoever has a unit on an incident is on its roster, the incident counts as
\* dispatched to, nobody joins the roster without having been sent, and no arrival is
\* recorded on an incident nobody was sent to.
THEOREM RosterKept == Spec => []RosterFollowsDispatch
<1> USE DEF RosterFollowsDispatch
<1>1. Init => RosterInv
  BY DEF Init, Idle, RosterInv, DispatchedAgencyOnRoster, RespondingAgencyWasSent,
         ArrivalFollowsDispatch, PendingKnown
<1>2. TypeOK /\ TypeOK' /\ RosterInv /\ [Next]_vars => RosterInv'
  <2> SUFFICES ASSUME TypeOK, TypeOK', RosterInv, [Next]_vars PROVE RosterInv'
    OBVIOUS
  <2>1. PendingKnown /\ DispatchedAgencyOnRoster /\ RespondingAgencyWasSent /\ ArrivalFollowsDispatch
    BY DEF RosterInv
  <2>2. PendingKnown'
    <3> SUFFICES ASSUME NEW g \in Handlers
                 PROVE  /\ pending'[g].op = "DISPATCH" => incident'[pending'[g].inc] # "NONE"
                        /\ pending'[g].op = "MOVE" =>
                              dispatch'[pending'[g].inc][pending'[g].unit] # "NONE"
                        /\ pending'[g].op = "STATUS" => incident'[pending'[g].inc] # "NONE"
      BY DEF PendingKnown
    <3>1. CASE pending'[g] = pending[g]
      <4> pending[g] \in Requests
        BY DEF TypeOK
      <4> QED BY <3>1, <2>1, RowsStay, RequestShape
                 DEF PendingKnown, DispatchRequests, MoveRequests, StatusChanges
    <3>2. CASE pending'[g] = Idle
      BY <3>2 DEF Idle
    <3>3. CASE Authorises(g)
      <4>1. UNCHANGED <<incidentVars, fleetVars>>
        BY <3>3, AuthorisesWritesNothing
      <4>2. CASE \E i \in Incidents, u \in Units : AuthoriseDispatch(g, i, u)
        BY <4>1, <4>2 DEF AuthoriseDispatch, Authorised, TypeOK, incidentVars
      <4>3. CASE \E i \in Incidents, u \in Units, to \in DispatchStatus : AuthoriseMove(g, i, u, to)
        BY <4>1, <4>3, StageTables DEF AuthoriseMove, Authorised, TypeOK, fleetVars
      <4>4. CASE \E u \in Units, to \in {"AVAILABLE", "OFFLINE"} : AuthoriseUnit(g, u, to)
        BY <4>4 DEF AuthoriseUnit, Authorised, TypeOK
      <4>5. CASE \E i \in Incidents, to \in StatusRequests : AuthoriseStatus(g, i, to)
        BY <4>1, <4>5 DEF AuthoriseStatus, Authorised, TypeOK, incidentVars, MayUpdate, MayClose,
                          ActiveStatus
      <4>6. CASE \/ \E i \in Incidents, o \in Officers : AuthoriseOfficer(g, i, o)
                 \/ \E i \in Incidents, p \in Persons : AuthorisePerson(g, i, p)
        BY <4>6 DEF AuthoriseOfficer, AuthorisePerson, Authorised, TypeOK
      <4> QED BY <3>3, <4>2, <4>3, <4>4, <4>5, <4>6 DEF Authorises
    <3> QED BY <3>1, <3>2, <3>3, DecisionStep
  <2>3. DispatchedAgencyOnRoster'
    <3> SUFFICES ASSUME NEW i \in Incidents, NEW u \in Units, dispatch'[i][u] # "NONE"
                 PROVE  /\ agencyRole'[i][UnitAgency[u]] # "NONE"
                        /\ firstDispatched'[i]
                        /\ incident'[i] # "NONE"
      BY DEF DispatchedAgencyOnRoster
    <3>1. CASE dispatch[i][u] # "NONE" /\ agencyRole' = agencyRole
      BY <3>1, <2>1, RowsStay DEF DispatchedAgencyOnRoster
    <3>2. ASSUME NEW h \in Handlers, CommitDispatch(h)
          PROVE  /\ agencyRole'[i][UnitAgency[u]] # "NONE"
                 /\ firstDispatched'[i]
                 /\ incident'[i] # "NONE"
      <4>1. pending[h] \in DispatchRequests /\ incident[pending[h].inc] # "NONE"
        BY <3>2, <2>1, RequestShape DEF CommitDispatch, TypeOK, PendingKnown
      <4>2. CASE i = pending[h].inc /\ u = pending[h].unit
        BY <3>2, <4>1, <4>2, RowsStay, <2>1 DEF CommitDispatch, RosterWith, TypeOK, DispatchRequests
      <4>3. CASE ~(i = pending[h].inc /\ u = pending[h].unit)
        <5>1. dispatch[i][u] # "NONE"
          BY <3>2, <4>1, <4>3 DEF CommitDispatch, TypeOK, DispatchRequests
        <5>2. agencyRole[i][UnitAgency[u]] # "NONE" => agencyRole'[i][UnitAgency[u]] # "NONE"
          BY <3>2, <4>1 DEF CommitDispatch, RosterWith, TypeOK, DispatchRequests
        <5> QED BY <5>1, <5>2, <2>1, RowsStay DEF DispatchedAgencyOnRoster
      <4> QED BY <4>2, <4>3
    <3>3. ASSUME NEW h \in Handlers, CommitMove(h)
          PROVE  dispatch[i][u] # "NONE" /\ agencyRole' = agencyRole
      <4> pending[h] \in MoveRequests /\ dispatch[pending[h].inc][pending[h].unit] # "NONE"
        BY <3>3, <2>1, RequestShape DEF CommitMove, TypeOK, PendingKnown
      <4> QED BY <3>3 DEF CommitMove, TypeOK, MoveRequests, rosterVars
    <3>4. ASSUME NEW j \in Incidents, NEW lead \in SUBSET Agencies, NEW rep \in SUBSET Officers,
                 CreateIncident(j, lead, rep)
          PROVE  /\ agencyRole'[i][UnitAgency[u]] # "NONE"
                 /\ firstDispatched'[i]
                 /\ incident'[i] # "NONE"
      <4>1. dispatch[i][u] # "NONE" /\ i # j
        BY <3>4, <2>1 DEF CreateIncident, fleetVars, DispatchedAgencyOnRoster
      <4>2. agencyRole'[i] = agencyRole[i]
        BY <3>4, <4>1 DEF CreateIncident, TypeOK
      <4> QED BY <4>1, <4>2, <2>1, RowsStay DEF DispatchedAgencyOnRoster
    <3>5. ASSUME NEW h \in Handlers, \/ CommitUnit(h) \/ CommitStatus(h)
                                     \/ CommitOfficer(h) \/ CommitPerson(h)
          PROVE  dispatch' = dispatch /\ agencyRole' = agencyRole
      BY <3>5 DEF CommitUnit, CommitStatus, CommitOfficer, CommitPerson, fleetVars, rosterVars
    <3>6. ASSUME NEW v \in Units, NEW s \in {"AVAILABLE", "OFFLINE"}, CreateUnit(v, s)
          PROVE  dispatch' = dispatch /\ agencyRole' = agencyRole
      BY <3>6 DEF CreateUnit, rosterVars
    <3>7. CASE UNCHANGED <<incidentVars, rosterVars, fleetVars>>
      BY <3>7, <3>1 DEF rosterVars, fleetVars
    <3> QED BY <3>1, <3>2, <3>3, <3>4, <3>5, <3>6, <3>7, StepKinds, AuthorisesWritesNothing
  <2>4. ArrivalFollowsDispatch'
    <3> SUFFICES ASSUME NEW i \in Incidents, firstArrival'[i]
                 PROVE  \E u \in Units : dispatch'[i][u] # "NONE"
      BY <2>3 DEF ArrivalFollowsDispatch, DispatchedAgencyOnRoster
    <3>1. CASE firstArrival[i]
      BY <3>1, <2>1, RowsStay DEF ArrivalFollowsDispatch
    <3>2. CASE ~firstArrival[i]
      <4>1. PICK h \in Handlers : CommitMove(h)
        BY <3>2, StepKinds, AuthorisesWritesNothing
           DEF incidentVars, CreateIncident, CreateUnit, CommitDispatch, CommitUnit, CommitStatus,
               CommitOfficer, CommitPerson
      <4>2. pending[h] \in MoveRequests /\ dispatch[pending[h].inc][pending[h].unit] # "NONE"
        BY <4>1, <2>1, RequestShape DEF CommitMove, TypeOK, PendingKnown
      <4>3. i = pending[h].inc
        BY <3>2, <4>1, <4>2 DEF CommitMove, TypeOK, MoveRequests
      <4> QED BY <4>2, <4>3, RowsStay, <2>1 DEF MoveRequests
    <3> QED BY <3>1, <3>2
  <2>5. RespondingAgencyWasSent'
    <3> SUFFICES ASSUME NEW i \in Incidents, NEW a \in Agencies, agencyRole'[i][a] = "RESPONDING"
                 PROVE  \E u \in Units : UnitAgency[u] = a /\ dispatch'[i][u] # "NONE"
      BY DEF RespondingAgencyWasSent
    <3>1. CASE agencyRole[i][a] = "RESPONDING"
      BY <3>1, <2>1, RowsStay DEF RespondingAgencyWasSent
    <3>2. CASE agencyRole[i][a] # "RESPONDING"
      <4>1. ASSUME NEW j \in Incidents, NEW lead \in SUBSET Agencies, NEW rep \in SUBSET Officers,
                   CreateIncident(j, lead, rep)
            PROVE  FALSE
        BY <3>2, <4>1 DEF CreateIncident, TypeOK
      <4>2. PICK h \in Handlers : CommitDispatch(h)
        BY <3>2, <4>1, StepKinds, AuthorisesWritesNothing
           DEF rosterVars, CreateUnit, CommitMove, CommitUnit, CommitStatus, CommitOfficer,
               CommitPerson
      <4>3. pending[h] \in DispatchRequests
        BY <4>2, RequestShape DEF CommitDispatch, TypeOK
      <4>4. i = pending[h].inc /\ a = UnitAgency[pending[h].unit]
        BY <3>2, <4>2, <4>3 DEF CommitDispatch, RosterWith, TypeOK, DispatchRequests
      <4>5. dispatch'[i][pending[h].unit] # "NONE"
        BY <4>2, <4>3, <4>4 DEF CommitDispatch, TypeOK, DispatchRequests
      <4> QED BY <4>3, <4>4, <4>5 DEF DispatchRequests
    <3> QED BY <3>1, <3>2
  <2> QED BY <2>2, <2>3, <2>4, <2>5 DEF RosterInv
<1>3. RosterInv => RosterFollowsDispatch
  BY DEF RosterInv
<1> QED BY <1>1, <1>2, <1>3, TypeCorrect, PTL DEF Spec

-----------------------------------------------------------------------------
(***************************************************************************)
(* What holds as long as requests about one row do not overlap.  The       *)
(* inductive invariant adds that what was checked when a request was       *)
(* authorised is still true when its transaction starts.                   *)
(***************************************************************************)
FreshDecisions ==
    \A h \in Handlers :
        /\ pending[h].op = "MOVE" =>
              pending[h].to \in Transitions(dispatch[pending[h].inc][pending[h].unit])
        /\ pending[h].op = "UNIT" => unit[pending[h].unit] \in Administrable
        /\ pending[h].op = "STATUS" =>
              pending[h].to \in ClosingStatus \/ incident[pending[h].inc] \in ActiveStatus
        /\ pending[h].op \in {"OFFICER", "PERSON"} => incident[pending[h].inc] \in ActiveStatus

DisjointInv ==
    /\ OneLiveDispatchPerUnit
    /\ LiveDispatchShownOnUnit
    /\ FreshDecisions
    /\ Disjoint

\* A unit and its dispatches are written by its registration or by a
\* transaction about that unit.
LEMMA UnitRowStep ==
    ASSUME TypeOK, [Next]_vars, NEW v \in Units
    PROVE  \/ unit'[v] = unit[v] /\ \A i \in Incidents : dispatch'[i][v] = dispatch[i][v]
           \/ \E s \in {"AVAILABLE", "OFFLINE"} : CreateUnit(v, s)
           \/ \E h \in Handlers : /\ pending[h].unit = v
                                  /\ CommitDispatch(h) \/ CommitMove(h) \/ CommitUnit(h)
<1>1. CASE UNCHANGED fleetVars
  BY <1>1 DEF fleetVars
<1>2. ASSUME NEW u \in Units, NEW s \in {"AVAILABLE", "OFFLINE"}, CreateUnit(u, s), u # v
      PROVE  unit'[v] = unit[v] /\ dispatch' = dispatch
  BY <1>2 DEF CreateUnit, TypeOK
<1>3. ASSUME NEW h \in Handlers, CommitDispatch(h) \/ CommitMove(h), pending[h].unit # v
      PROVE  unit'[v] = unit[v] /\ \A i \in Incidents : dispatch'[i][v] = dispatch[i][v]
  <2> pending[h].inc \in Incidents /\ pending[h].unit \in Units
    BY <1>3, RequestShape
       DEF TypeOK, CommitDispatch, CommitMove, DispatchRequests, MoveRequests
  <2>1. CASE CommitDispatch(h)
    BY <1>3, <2>1 DEF CommitDispatch, TypeOK
  <2>2. CASE CommitMove(h)
    BY <1>3, <2>2 DEF CommitMove, TypeOK
  <2> QED BY <1>3, <2>1, <2>2
<1>4. ASSUME NEW h \in Handlers, CommitUnit(h), pending[h].unit # v
      PROVE  unit'[v] = unit[v] /\ dispatch' = dispatch
  BY <1>4 DEF CommitUnit, TypeOK
<1>5. ASSUME NEW h \in Handlers, CommitStatus(h) \/ CommitOfficer(h) \/ CommitPerson(h)
      PROVE  UNCHANGED fleetVars
  BY <1>5 DEF CommitStatus, CommitOfficer, CommitPerson
<1>6. ASSUME NEW i \in Incidents, NEW lead \in SUBSET Agencies, NEW rep \in SUBSET Officers,
             CreateIncident(i, lead, rep)
      PROVE  UNCHANGED fleetVars
  BY <1>6 DEF CreateIncident
<1> QED
  BY <1>1, <1>2, <1>3, <1>4, <1>5, <1>6, StepKinds, AuthorisesWritesNothing

\* Only updateStatus() moves an incident that exists out of the active or out
\* of the closing statuses.
LEMMA IncidentRowStep ==
    ASSUME TypeOK, [Next]_vars, NEW j \in Incidents
    PROVE  \/ incident'[j] = incident[j]
           \/ incident[j] = "NONE"
           \/ incident[j] \in ActiveStatus /\ incident'[j] \in ActiveStatus
           \/ \E h \in Handlers : CommitStatus(h) /\ pending[h].inc = j
<1>1. CASE UNCHANGED incidentVars
  BY <1>1 DEF incidentVars
<1>2. ASSUME NEW i \in Incidents, NEW lead \in SUBSET Agencies, NEW rep \in SUBSET Officers,
             CreateIncident(i, lead, rep)
      PROVE  incident'[j] = incident[j] \/ incident[j] = "NONE"
  BY <1>2 DEF CreateIncident, TypeOK
<1>3. ASSUME NEW h \in Handlers, CommitDispatch(h)
      PROVE  \/ incident'[j] = incident[j]
             \/ incident[j] \in ActiveStatus /\ incident'[j] \in ActiveStatus
  <2> pending[h].inc \in Incidents
    BY <1>3, RequestShape DEF TypeOK, CommitDispatch, DispatchRequests
  <2> QED BY <1>3 DEF CommitDispatch, TypeOK, ActiveStatus
<1>4. ASSUME NEW h \in Handlers, CommitMove(h)
      PROVE  \/ incident'[j] = incident[j]
             \/ incident[j] \in ActiveStatus /\ incident'[j] \in ActiveStatus
  <2> pending[h].inc \in Incidents
    BY <1>4, RequestShape DEF TypeOK, CommitMove, MoveRequests
  <2> QED BY <1>4 DEF CommitMove, TypeOK, ActiveStatus
<1>5. ASSUME NEW h \in Handlers, CommitStatus(h), pending[h].inc # j
      PROVE  incident'[j] = incident[j]
  BY <1>5 DEF CommitStatus, TypeOK
<1>6. ASSUME NEW h \in Handlers, CommitUnit(h) \/ CommitOfficer(h) \/ CommitPerson(h)
      PROVE  UNCHANGED incidentVars
  BY <1>6 DEF CommitUnit, CommitOfficer, CommitPerson
<1>7. ASSUME NEW u \in Units, NEW s \in {"AVAILABLE", "OFFLINE"}, CreateUnit(u, s)
      PROVE  UNCHANGED incidentVars
  BY <1>7 DEF CreateUnit
<1> QED
  BY <1>1, <1>2, <1>3, <1>4, <1>5, <1>6, <1>7, StepKinds, AuthorisesWritesNothing

\* A unit out on a live dispatch is operational, hence neither available, nor
\* administrable, nor unregistered.
LEMMA LiveUnitIsOperational ==
    ASSUME TypeOK, LiveDispatchShownOnUnit, NEW i \in Incidents, NEW u \in Units,
           dispatch[i][u] \in LiveStatus
    PROVE  unit[u] \in Operational /\ unit[u] \notin Administrable /\ unit[u] # "NONE"
  BY StageTables DEF LiveDispatchShownOnUnit, LiveStatus, DispatchStatus, Operational, Administrable

\* A transaction ends its request.
LEMMA CommitAnswers ==
    ASSUME TypeOK, NEW h \in Handlers,
           \/ CommitDispatch(h) \/ CommitMove(h) \/ CommitUnit(h)
           \/ CommitStatus(h) \/ CommitOfficer(h) \/ CommitPerson(h)
    PROVE  pending'[h] = Idle /\ pending[h] # Idle
<1>1. Answer(h)
  BY DEF CommitDispatch, CommitMove, CommitUnit, CommitStatus, CommitOfficer, CommitPerson
<1>2. pending[h].op # "IDLE"
  BY DEF CommitDispatch, CommitMove, CommitUnit, CommitStatus, CommitOfficer, CommitPerson
<1> QED BY <1>1, <1>2 DEF Answer, TypeOK, Idle

\* What a request was authorised on is still so while the request waits.
LEMMA DecisionsStayFresh ==
    ASSUME TypeOK, DisjointInv, [Next]_vars
    PROVE  FreshDecisions'
<1> SUFFICES ASSUME NEW g \in Handlers
             PROVE  /\ pending'[g].op = "MOVE" =>
                         pending'[g].to \in Transitions(dispatch'[pending'[g].inc][pending'[g].unit])
                    /\ pending'[g].op = "UNIT" => unit'[pending'[g].unit] \in Administrable
                    /\ pending'[g].op = "STATUS" =>
                         \/ pending'[g].to \in ClosingStatus
                         \/ incident'[pending'[g].inc] \in ActiveStatus
                    /\ pending'[g].op \in {"OFFICER", "PERSON"} =>
                         incident'[pending'[g].inc] \in ActiveStatus
  BY DEF FreshDecisions
<1> DEFINE r == pending[g]
<1>1. CASE pending'[g] = Idle
  BY <1>1 DEF Idle
<1>2. CASE pending'[g] = pending[g] /\ pending[g] # Idle
  <2>1. r \in Requests
    BY DEF TypeOK
  <2>2. FreshDecisions /\ Disjoint /\ LiveDispatchShownOnUnit
    BY DEF DisjointInv
  <2>3. ASSUME NEW h \in Handlers,
               \/ CommitDispatch(h) \/ CommitMove(h) \/ CommitUnit(h)
               \/ CommitStatus(h) \/ CommitOfficer(h) \/ CommitPerson(h)
        PROVE  ~SameRow(pending[h], r)
    BY <1>2, <2>2, <2>3, CommitAnswers DEF Disjoint
  <2>4. CASE r.op = "MOVE"
    <3>1. r.inc \in Incidents /\ r.unit \in Units /\ r.to \in Transitions(dispatch[r.inc][r.unit])
      BY <2>1, <2>2, <2>4, RequestShape DEF MoveRequests, FreshDecisions
    <3>2. dispatch'[r.inc][r.unit] = dispatch[r.inc][r.unit]
      <4>1. ASSUME NEW h \in Handlers, pending[h].unit = r.unit,
                   CommitDispatch(h) \/ CommitMove(h) \/ CommitUnit(h)
            PROVE  FALSE
        BY <4>1, <2>3, <2>4 DEF SameRow, OnUnit, CommitDispatch, CommitMove, CommitUnit
      <4>2. ASSUME NEW s \in {"AVAILABLE", "OFFLINE"}, CreateUnit(r.unit, s)
            PROVE  dispatch' = dispatch
        BY <4>2 DEF CreateUnit
      <4> QED BY <4>1, <4>2, <3>1, UnitRowStep
    <3> QED BY <1>2, <2>4, <3>1, <3>2
  <2>5. CASE r.op = "UNIT"
    <3>1. r.unit \in Units /\ unit[r.unit] \in Administrable
      BY <2>1, <2>2, <2>5, RequestShape DEF UnitRequests, FreshDecisions
    <3>2. unit'[r.unit] = unit[r.unit]
      <4>1. ASSUME NEW h \in Handlers, pending[h].unit = r.unit,
                   CommitDispatch(h) \/ CommitMove(h) \/ CommitUnit(h)
            PROVE  FALSE
        BY <4>1, <2>3, <2>5 DEF SameRow, OnUnit, CommitDispatch, CommitMove, CommitUnit
      <4>2. ASSUME NEW s \in {"AVAILABLE", "OFFLINE"}, CreateUnit(r.unit, s)
            PROVE  FALSE
        BY <4>2, <3>1 DEF CreateUnit, Administrable
      <4> QED BY <4>1, <4>2, <3>1, UnitRowStep
    <3> QED BY <1>2, <2>5, <3>1, <3>2
  <2>6. CASE OnIncident(r)
    <3>1. r.inc \in Incidents
      <4>1. r \in StatusChanges \/ r \in OfficerRequests \/ r \in PersonRequests
        BY <2>1, <2>6, RequestShape DEF OnIncident
      <4> QED BY <4>1 DEF StatusChanges, OfficerRequests, PersonRequests
    <3>2. ASSUME NEW h \in Handlers, CommitStatus(h), pending[h].inc = r.inc
          PROVE  FALSE
      BY <3>2, <2>3, <2>6 DEF SameRow, OnIncident, CommitStatus
    <3>3. incident[r.inc] \in ActiveStatus => incident'[r.inc] \in ActiveStatus
      BY <3>1, <3>2, IncidentRowStep DEF ActiveStatus
    <3> QED BY <1>2, <2>2, <2>6, <3>3 DEF OnIncident, FreshDecisions
  <2> QED BY <1>2, <2>4, <2>5, <2>6 DEF OnIncident
<1>3. CASE Authorises(g)
  <2>1. UNCHANGED <<incidentVars, fleetVars>>
    BY <1>3, AuthorisesWritesNothing
  <2>2. CASE \E i \in Incidents, u \in Units : AuthoriseDispatch(g, i, u)
    BY <2>2 DEF AuthoriseDispatch, Authorised, TypeOK
  <2>3. CASE \E i \in Incidents, u \in Units, to \in DispatchStatus : AuthoriseMove(g, i, u, to)
    BY <2>1, <2>3 DEF AuthoriseMove, Authorised, TypeOK, fleetVars
  <2>4. CASE \E u \in Units, to \in {"AVAILABLE", "OFFLINE"} : AuthoriseUnit(g, u, to)
    BY <2>1, <2>4 DEF AuthoriseUnit, Authorised, TypeOK, fleetVars
  <2>5. CASE \E i \in Incidents, to \in StatusRequests : AuthoriseStatus(g, i, to)
    BY <2>1, <2>5 DEF AuthoriseStatus, Authorised, TypeOK, incidentVars, MayUpdate
  <2>6. CASE \/ \E i \in Incidents, o \in Officers : AuthoriseOfficer(g, i, o)
             \/ \E i \in Incidents, p \in Persons : AuthorisePerson(g, i, p)
    BY <2>1, <2>6 DEF AuthoriseOfficer, AuthorisePerson, Authorised, TypeOK, incidentVars, MayUpdate
  <2> QED BY <1>3, <2>2, <2>3, <2>4, <2>5, <2>6 DEF Authorises
<1> QED BY <1>1, <1>2, <1>3, DecisionStep

\* One unit and its dispatches, over one step: still at most one live dispatch,
\* still shown at its stage.
LEMMA OneUnitStep ==
    ASSUME TypeOK, DisjointInv, [Next]_vars, NEW v \in Units
    PROVE  \A i, j \in Incidents :
             dispatch'[i][v] \in LiveStatus =>
                /\ unit'[v] = UnitStatusFor(dispatch'[i][v])
                /\ dispatch'[j][v] \in LiveStatus => i = j
<1> DEFINE Live(i) == dispatch[i][v] \in LiveStatus
<1>1. /\ \A i \in Incidents : Live(i) => unit[v] = UnitStatusFor(dispatch[i][v])
      /\ \A i, j \in Incidents : Live(i) /\ Live(j) => i = j
      /\ FreshDecisions
  BY DEF DisjointInv, OneLiveDispatchPerUnit, LiveDispatchShownOnUnit
<1>2. \A i \in Incidents : Live(i) => unit[v] \in Operational /\ unit[v] \notin Administrable /\ unit[v] # "NONE"
  BY LiveUnitIsOperational DEF DisjointInv
<1>3. CASE unit'[v] = unit[v] /\ \A i \in Incidents : dispatch'[i][v] = dispatch[i][v]
  BY <1>1, <1>3
<1>4. ASSUME NEW s \in {"AVAILABLE", "OFFLINE"}, CreateUnit(v, s)
      PROVE  \A i \in Incidents : dispatch'[i][v] \notin LiveStatus
  BY <1>2, <1>4 DEF CreateUnit
<1>5. ASSUME NEW h \in Handlers, CommitUnit(h), pending[h].unit = v
      PROVE  \A i \in Incidents : dispatch'[i][v] \notin LiveStatus
  BY <1>1, <1>2, <1>5 DEF CommitUnit, FreshDecisions
<1>6. ASSUME NEW h \in Handlers, CommitDispatch(h), pending[h].unit = v
      PROVE  \A i, j \in Incidents :
               dispatch'[i][v] \in LiveStatus =>
                  /\ unit'[v] = UnitStatusFor(dispatch'[i][v])
                  /\ dispatch'[j][v] \in LiveStatus => i = j
  <2>1. pending[h].inc \in Incidents
    BY <1>6, RequestShape DEF CommitDispatch, TypeOK, DispatchRequests
  <2>2. \A i \in Incidents : ~Live(i)
    BY <1>2, <1>6 DEF CommitDispatch, Administrable
  <2>3. /\ unit'[v] = "DISPATCHED" /\ dispatch'[pending[h].inc][v] = "ASSIGNED"
        /\ \A i \in Incidents : i # pending[h].inc => dispatch'[i][v] = dispatch[i][v]
    BY <1>6, <2>1 DEF CommitDispatch, TypeOK
  <2> QED BY <2>2, <2>3, StageTables
<1>7. ASSUME NEW h \in Handlers, CommitMove(h), pending[h].unit = v
      PROVE  \A i, j \in Incidents :
               dispatch'[i][v] \in LiveStatus =>
                  /\ unit'[v] = UnitStatusFor(dispatch'[i][v])
                  /\ dispatch'[j][v] \in LiveStatus => i = j
  <2>1. pending[h].inc \in Incidents
    BY <1>7, RequestShape DEF CommitMove, TypeOK, MoveRequests
  <2>2. Live(pending[h].inc)
    <3>1. pending[h].to \in Transitions(dispatch[pending[h].inc][v])
      BY <1>1, <1>7 DEF CommitMove, FreshDecisions
    <3>2. dispatch[pending[h].inc][v] \in DispatchStatus \cup {"NONE"}
      BY <2>1 DEF TypeOK
    <3> QED BY <3>1, <3>2, StageTables
  <2>3. /\ unit'[v] = UnitStatusFor(pending[h].to) /\ dispatch'[pending[h].inc][v] = pending[h].to
        /\ \A i \in Incidents : i # pending[h].inc => dispatch'[i][v] = dispatch[i][v]
    BY <1>7, <2>1 DEF CommitMove, TypeOK
  <2> QED BY <1>1, <2>1, <2>2, <2>3
<1> QED BY <1>3, <1>4, <1>5, <1>6, <1>7, UnitRowStep

LEMMA DisjointIsNext == [DisjointNext]_vars => [Next]_vars
  BY DEF DisjointNext, Next

\* Requests about different rows stay about different rows: a request enters
\* only beside such requests, and a transaction only takes one away.
LEMMA DisjointStays ==
    ASSUME TypeOK, Disjoint, [DisjointNext]_vars
    PROVE  Disjoint'
<1>1. ASSUME NEW h \in Handlers, Commits(h)
      PROVE  pending' = [pending EXCEPT ![h] = Idle]
  BY <1>1 DEF Commits, CommitDispatch, RefuseDispatch, CommitMove, CommitUnit, CommitStatus,
              CommitOfficer, CommitPerson, Fail, Answer
<1>2. CASE \E h \in Handlers : Commits(h)
  <2>1. PICK h \in Handlers : pending' = [pending EXCEPT ![h] = Idle]
    BY <1>1, <1>2
  <2>2. \A g \in Handlers : pending'[g] \in {pending[g], Idle}
    BY <2>1 DEF TypeOK
  <2>3. \A r : ~SameRow(r, Idle) /\ ~SameRow(Idle, r)
    BY DEF SameRow, OnUnit, OnIncident, Idle
  <2> QED BY <2>2, <2>3 DEF Disjoint
<1>3. CASE Registers
  <2>1. pending' = pending
    BY <1>3 DEF Registers, ReportedByOfficer, ReportedByCitizen, CreateIncident, CreateUnit
  <2> QED BY <2>1 DEF Disjoint
<1>4. CASE UNCHANGED vars
  BY <1>4 DEF vars, Disjoint
<1> QED BY <1>2, <1>3, <1>4 DEF DisjointNext

\* The service keeps its invariant as long as requests about one row do not
\* overlap.
LEMMA DisjointInvariant == DisjointSpec => [](TypeOK /\ DisjointInv)
<1>1. Init => DisjointInv
  BY DEF Init, Idle, DisjointInv, OneLiveDispatchPerUnit, LiveDispatchShownOnUnit, FreshDecisions,
         Disjoint, SameRow, OnUnit, OnIncident, LiveStatus
<1>2. TypeOK /\ DisjointInv /\ [DisjointNext]_vars => DisjointInv'
  <2> SUFFICES ASSUME TypeOK, DisjointInv, [DisjointNext]_vars PROVE DisjointInv'
    OBVIOUS
  <2>1. [Next]_vars
    BY DisjointIsNext
  <2>2. Disjoint'
    BY DisjointStays DEF DisjointInv
  <2>3. OneLiveDispatchPerUnit' /\ LiveDispatchShownOnUnit'
    BY <2>1, OneUnitStep DEF OneLiveDispatchPerUnit, LiveDispatchShownOnUnit
  <2>4. FreshDecisions'
    BY <2>1, DecisionsStayFresh
  <2> QED BY <2>2, <2>3, <2>4 DEF DisjointInv
<1>3. DisjointSpec => Spec
  <2>1. [DisjointNext]_vars => [Next]_vars
    BY DisjointIsNext
  <2> QED BY <2>1, PTL DEF DisjointSpec, Spec
<1> QED BY <1>1, <1>2, <1>3, TypeCorrect, PTL DEF DisjointSpec

\* A unit is never on two jobs, and while it is on one the control room sees it
\* at the stage of that job: never available while carrying a patient.
THEOREM UnitOnOneJob == DisjointSpec => []UnitShowsItsJob
<1>1. DisjointInv => UnitShowsItsJob
  BY DEF DisjointInv, UnitShowsItsJob
<1> QED BY <1>1, DisjointInvariant, PTL

\* Nothing reopens a finished incident, and no officer or person joins it.
THEOREM FinishedStaysFinished == DisjointSpec => FinishedStays
<1>1. ASSUME TypeOK, DisjointInv, [Next]_vars, NEW i \in Incidents, incident[i] \in ClosingStatus
      PROVE  /\ incident'[i] \in ClosingStatus
             /\ officers'[i] = officers[i] /\ persons'[i] = persons[i]
  <2>1. incident[i] \notin ActiveStatus /\ incident[i] # "NONE"
    BY <1>1 DEF ActiveStatus, ClosingStatus
  <2>2. FreshDecisions
    BY <1>1 DEF DisjointInv
  <2>3. ASSUME NEW h \in Handlers, CommitStatus(h), pending[h].inc = i
        PROVE  incident'[i] \in ClosingStatus
    BY <1>1, <2>1, <2>2, <2>3 DEF CommitStatus, FreshDecisions, TypeOK
  <2>4. incident'[i] \in ClosingStatus
    BY <1>1, <2>1, <2>3, IncidentRowStep
  <2>5. ASSUME NEW h \in Handlers, CommitOfficer(h) \/ CommitPerson(h)
        PROVE  officers'[i] = officers[i] /\ persons'[i] = persons[i]
    <3>1. pending[h].inc # i
      BY <2>1, <2>2, <2>5 DEF CommitOfficer, CommitPerson, FreshDecisions
    <3> QED BY <1>1, <2>5, <3>1 DEF CommitOfficer, CommitPerson, TypeOK
  <2>6. ASSUME NEW j \in Incidents, NEW lead \in SUBSET Agencies, NEW rep \in SUBSET Officers,
               CreateIncident(j, lead, rep)
        PROVE  officers'[i] = officers[i] /\ persons'[i] = persons[i]
    BY <1>1, <2>1, <2>6 DEF CreateIncident, TypeOK
  <2>7. ASSUME NEW h \in Handlers,
               CommitDispatch(h) \/ CommitMove(h) \/ CommitUnit(h) \/ CommitStatus(h)
        PROVE  UNCHANGED <<officers, persons>>
    BY <2>7 DEF CommitDispatch, CommitMove, CommitUnit, CommitStatus, rosterVars
  <2>8. ASSUME NEW u \in Units, NEW s \in {"AVAILABLE", "OFFLINE"}, CreateUnit(u, s)
        PROVE  UNCHANGED <<officers, persons>>
    BY <2>8 DEF CreateUnit, rosterVars
  <2>9. UNCHANGED rosterVars => UNCHANGED <<officers, persons>>
    BY DEF rosterVars
  <2>10. officers'[i] = officers[i] /\ persons'[i] = persons[i]
    <3>1. CASE \E h \in Handlers : Authorises(h)
      BY <3>1, <2>9, AuthorisesWritesNothing
    <3>2. CASE \E h \in Handlers : CommitOfficer(h) \/ CommitPerson(h)
      BY <3>2, <2>5
    <3>3. CASE \E h \in Handlers : CommitDispatch(h) \/ CommitMove(h) \/ CommitUnit(h) \/ CommitStatus(h)
      BY <3>3, <2>7
    <3> QED BY <1>1, <2>6, <2>8, <2>9, <3>1, <3>2, <3>3, StepKinds
  <2> QED BY <2>4, <2>10
<1>2. TypeOK /\ DisjointInv /\ [DisjointNext]_vars =>
        [\A i \in Incidents : incident[i] \in ClosingStatus => incident'[i] \in ClosingStatus]_vars
  BY <1>1, DisjointIsNext
<1>3. TypeOK /\ DisjointInv /\ [DisjointNext]_vars =>
        [\A i \in Incidents : incident[i] \in ClosingStatus =>
            officers'[i] = officers[i] /\ persons'[i] = persons[i]]_vars
  BY <1>1, DisjointIsNext
<1> QED BY <1>2, <1>3, DisjointInvariant, PTL
    DEF DisjointSpec, FinishedStays, NothingReopens, NobodyJoinsFinished

(***************************************************************************)
(* The refinement.  JobsOf and SentTo are the abstract state of one unit.  *)
(***************************************************************************)
JobsOf(u) == {<<i, dispatch[i][u]>> : i \in {j \in Incidents : dispatch[j][u] \in LiveStatus}}
SentTo(u) == {i \in Incidents : dispatch[i][u] # "NONE"}

jobs   == [u \in Units |-> JobsOf(u)]
sentTo == [u \in Units |-> SentTo(u)]

LEMMA UnitAbstraction ==
    ASSUME NEW u \in Units
    PROVE  /\ (\A i \in Incidents : dispatch[i][u] \notin LiveStatus) => JobsOf(u) = {}
           /\ \A i \in Incidents :
                 /\ dispatch[i][u] \in LiveStatus
                 /\ \A j \in Incidents : dispatch[j][u] \in LiveStatus => i = j
                 => JobsOf(u) = {<<i, dispatch[i][u]>>}
  BY DEF JobsOf

\* A unit whose dispatches did not change has the same abstract state.
LEMMA OtherUnits ==
    ASSUME TypeOK, NEW v \in Units,
           \A u \in Units : u # v => \A i \in Incidents : dispatch'[i][u] = dispatch[i][u]
    PROVE  /\ jobs' = [jobs EXCEPT ![v] = JobsOf(v)']
           /\ sentTo' = [sentTo EXCEPT ![v] = SentTo(v)']
<1>1. ASSUME NEW u \in Units, u # v
      PROVE  JobsOf(u)' = JobsOf(u) /\ SentTo(u)' = SentTo(u)
  BY <1>1 DEF JobsOf, SentTo
<1> QED BY <1>1 DEF jobs, sentTo

LEMMA RefinementStep ==
    ASSUME TypeOK, TypeOK', DisjointInv, DisjointInv', [Next]_vars
    PROVE  [Abstract!Next]_<<unit, jobs, sentTo>>
<1> SUFFICES ASSUME NEW v \in Units,
                    ~(unit'[v] = unit[v] /\ \A i \in Incidents : dispatch'[i][v] = dispatch[i][v])
             PROVE  Abstract!Next
  <2>1. CASE \A v \in Units : /\ unit'[v] = unit[v]
                             /\ \A i \in Incidents : dispatch'[i][v] = dispatch[i][v]
    <3>1. unit' = unit
      BY <2>1 DEF TypeOK
    <3>2. \A u \in Units : JobsOf(u)' = JobsOf(u) /\ SentTo(u)' = SentTo(u)
      BY <2>1 DEF JobsOf, SentTo
    <3> QED BY <3>1, <3>2 DEF jobs, sentTo
  <2> QED BY <2>1
<1>1. /\ FreshDecisions
      /\ \A i \in Incidents : dispatch[i][v] \in LiveStatus =>
            unit[v] \in Operational /\ unit[v] \notin Administrable /\ unit[v] # "NONE"
      /\ \A i, j \in Incidents : dispatch[i][v] \in LiveStatus /\ dispatch[j][v] \in LiveStatus => i = j
  BY LiveUnitIsOperational DEF DisjointInv, OneLiveDispatchPerUnit
<1>2. /\ (\A i \in Incidents : dispatch[i][v] \notin LiveStatus) => jobs[v] = {}
      /\ \A i \in Incidents : dispatch[i][v] \in LiveStatus => jobs[v] = {<<i, dispatch[i][v]>>}
  BY <1>1, UnitAbstraction DEF jobs
<1>3. ASSUME NEW s \in {"AVAILABLE", "OFFLINE"}, unit' = [unit EXCEPT ![v] = s], dispatch' = dispatch,
             unit[v] \notin Operational
      PROVE  Abstract!Next
  <2>1. jobs[v] = {}
    BY <1>1, <1>2, <1>3
  <2>2. jobs' = jobs /\ sentTo' = sentTo
    BY <1>3 DEF jobs, sentTo, JobsOf, SentTo
  <2>3. Abstract!Administer(v, s)
    BY <1>3, <2>1, <2>2 DEF Abstract!Administer, jobs, sentTo, JobsOf, SentTo
  <2> QED BY <2>3 DEF Abstract!Next
<1>4. ASSUME NEW s \in {"AVAILABLE", "OFFLINE"}, CreateUnit(v, s)
      PROVE  Abstract!Next
  BY <1>3, <1>4 DEF CreateUnit, Operational
<1>5. ASSUME NEW h \in Handlers, CommitUnit(h), pending[h].unit = v
      PROVE  Abstract!Next
  <2>1. pending[h].to \in {"AVAILABLE", "OFFLINE"}
    BY <1>5, RequestShape DEF CommitUnit, TypeOK, UnitRequests
  <2>2. unit[v] \notin Operational
    BY <1>1, <1>5 DEF CommitUnit, FreshDecisions, Administrable, Operational
  <2> QED BY <1>3, <1>5, <2>1, <2>2 DEF CommitUnit
<1>6. ASSUME NEW h \in Handlers, CommitDispatch(h), pending[h].unit = v
      PROVE  Abstract!Next
  <2>1. PICK i \in Incidents : i = pending[h].inc
    BY <1>6, RequestShape DEF CommitDispatch, TypeOK, DispatchRequests
  <2>2. /\ unit[v] = "AVAILABLE" /\ unit' = [unit EXCEPT ![v] = "DISPATCHED"]
        /\ dispatch[i][v] = "NONE" /\ dispatch' = [dispatch EXCEPT ![i][v] = "ASSIGNED"]
    BY <1>6, <2>1 DEF CommitDispatch
  <2>3. jobs[v] = {} /\ i \notin sentTo[v]
    BY <1>1, <1>2, <2>2 DEF Operational, sentTo, SentTo
  <2>4. dispatch'[i][v] = "ASSIGNED" /\ \A j \in Incidents : j # i => dispatch'[j][v] = dispatch[j][v]
    BY <2>1, <2>2 DEF TypeOK
  <2>5. JobsOf(v)' = {<<i, "ASSIGNED">>}
    <3>1. \A j \in Incidents : dispatch[j][v] \notin LiveStatus
      BY <1>1, <2>2 DEF Operational
    <3> QED BY <2>1, <2>4, <3>1 DEF JobsOf, LiveStatus
  <2>6. SentTo(v)' = sentTo[v] \cup {i}
    BY <2>1, <2>4 DEF sentTo, SentTo
  <2>7. jobs' = [jobs EXCEPT ![v] = JobsOf(v)'] /\ sentTo' = [sentTo EXCEPT ![v] = SentTo(v)']
    BY <2>1, <2>2, OtherUnits DEF TypeOK
  <2>8. Abstract!Send(v, i)
    BY <2>2, <2>3, <2>5, <2>6, <2>7 DEF Abstract!Send, jobs, sentTo, JobsOf, SentTo
  <2> QED BY <2>8 DEF Abstract!Next
<1>7. ASSUME NEW h \in Handlers, CommitMove(h), pending[h].unit = v
      PROVE  Abstract!Next
  <2>0. PICK i \in Incidents, t \in DispatchStatus : i = pending[h].inc /\ t = pending[h].to
    BY <1>7, RequestShape DEF CommitMove, TypeOK, MoveRequests
  <2>1. PICK s \in DispatchStatus \cup {"NONE"} : s = dispatch[i][v] /\ t \in Transitions(s)
    BY <1>1, <1>7, <2>0 DEF CommitMove, FreshDecisions, TypeOK
  <2>2. s \in LiveStatus /\ jobs[v] = {<<i, s>>}
    BY <1>2, <2>1, StageTables
  <2>3. unit' = [unit EXCEPT ![v] = UnitStatusFor(t)] /\ dispatch' = [dispatch EXCEPT ![i][v] = t]
    BY <1>7, <2>0 DEF CommitMove
  <2>4. dispatch'[i][v] = t /\ \A j \in Incidents : j # i => dispatch'[j][v] = dispatch[j][v]
    BY <2>1, <2>3 DEF TypeOK
  <2>5. SentTo(v)' = SentTo(v)
    BY <2>1, <2>2, <2>4 DEF SentTo, LiveStatus, DispatchStatus
  <2>6. jobs' = [jobs EXCEPT ![v] = JobsOf(v)'] /\ sentTo' = sentTo
    <3>1. jobs' = [jobs EXCEPT ![v] = JobsOf(v)'] /\ sentTo' = [sentTo EXCEPT ![v] = SentTo(v)']
      BY <2>1, <2>3, OtherUnits DEF TypeOK
    <3> QED BY <3>1, <2>5 DEF sentTo
  <2>7. \A j \in Incidents : j # i => dispatch[j][v] \notin LiveStatus
    BY <1>1, <2>1, <2>2
  <2>8. CASE t \in LiveStatus
    <3>1. JobsOf(v)' = {<<i, t>>}
      BY <2>1, <2>4, <2>7, <2>8 DEF JobsOf
    <3>2. <<s, t>> \in Abstract!Follows /\ UnitStatusFor(t) = Abstract!Shown[t]
      BY <2>1, <2>2, <2>8 DEF Abstract!Follows, Abstract!Shown, Abstract!Stage, LiveStatus,
                              Transitions, UnitStatusFor
    <3>3. Abstract!Advance(v, i, s, t)
      BY <2>2, <2>3, <2>6, <3>1, <3>2 DEF Abstract!Advance, jobs, sentTo, JobsOf, SentTo
    <3>4. s \in Abstract!Stage /\ t \in Abstract!Stage
      BY <2>2, <2>8 DEF Abstract!Stage, LiveStatus
    <3> QED BY <3>3, <3>4 DEF Abstract!Next
  <2>9. CASE t \notin LiveStatus
    <3>1. JobsOf(v)' = {} /\ UnitStatusFor(t) = "AVAILABLE"
      BY <2>1, <2>4, <2>7, <2>9, StageTables DEF JobsOf
    <3>2. Abstract!Release(v)
      BY <2>2, <2>3, <2>6, <3>1 DEF Abstract!Release, jobs, sentTo, JobsOf, SentTo
    <3> QED BY <3>2 DEF Abstract!Next
  <2> QED BY <2>8, <2>9
<1> QED BY <1>4, <1>5, <1>6, <1>7, UnitRowStep

\* Every behaviour of the service is one of the fleet its users rely on.
THEOREM ServiceImplementsFleet == DisjointSpec => FleetSpec
<1>1. Init => Abstract!Init
  <2> SUFFICES ASSUME Init PROVE Abstract!Init
    OBVIOUS
  <2>1. \A u \in Units, i \in Incidents : dispatch[i][u] = "NONE"
    BY DEF Init
  <2>2. \A u \in Units : JobsOf(u) = {} /\ SentTo(u) = {}
    BY <2>1 DEF JobsOf, SentTo, LiveStatus
  <2> QED BY <2>2 DEF Init, Abstract!Init, JobsOf, SentTo
<1>2. /\ TypeOK /\ DisjointInv /\ TypeOK' /\ DisjointInv'
      /\ [DisjointNext]_vars
      => [Abstract!Next]_Abstract!fleet
  BY RefinementStep, DisjointIsNext DEF Abstract!fleet, jobs, sentTo, JobsOf, SentTo
<1> QED BY <1>1, <1>2, DisjointInvariant, PTL DEF DisjointSpec, FleetSpec, Abstract!Spec
=============================================================================
