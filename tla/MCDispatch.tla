----------------------------- MODULE MCDispatch -----------------------------
(***************************************************************************)
(* Small fleets for TLC.                                                   *)
(***************************************************************************)
EXTENDS Dispatch, TLC

CONSTANTS u1, u2, i1, i2, police, ambulance, o1, p1, h1, h2

\* Both units belong to the ambulance service; the officer is police.
MCUnitAgency    == [u \in Units |-> ambulance]
MCOfficerAgency == [o \in Officers |-> police]

\* One status that finishes an incident, one that keeps it open.
MCStatusRequests == {"REPORTED", "RESOLVED"}

\* One agency: the officer belongs to the service that sends the units.
MCSameAgency == [o \in Officers |-> ambulance]

\* Requests, incidents and (same agency) units are interchangeable.
Symmetry == Permutations(Handlers) \cup Permutations(Incidents) \cup Permutations(Units)
=============================================================================
