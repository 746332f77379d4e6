----------------------------- MODULE MCServices -----------------------------
(***************************************************************************)
(* Records that officers, crews and other agencies work on, for TLC: the   *)
(* registers of missing and unidentified persons, investigation cases, the *)
(* packs a device carries offline, and the copies of what agencies hold.   *)
(* They share no state, so each is checked in an area of its own.          *)
(***************************************************************************)
EXTENDS Integration, MatchingEngine, TLC

CONSTANTS
    Missing, Found, Known, NoOne, MaxMatches, MaxSightings,    \* MissingPersons
    Case, Officers, Supervisors, Subjects, NoStatus, MaxNotes,  \* Cases
    Incidents, People, NoPack, MaxReleases, MaxKeys             \* Offline

\* Bounds are numbers, a register is finite, and no status of a case stands for none.
ASSUME ServicesAssumption ==
    /\ {Limit, MaxClock, MaxMatches, MaxSightings, MaxNotes, MaxReleases, MaxKeys} \subseteq Nat
    /\ IsFiniteSet(Found)
    /\ NoStatus # "CLOSED"

\* Requests, tabs and calls of sync(): two of whatever is in flight.
Symmetry == Permutations(Jobs)

VARIABLES
    area,
    missing, found, matches, sightings, serving,
    status, closed, assigned, subjects, notes, working,
    device, releases, attached, open, carried, token, key, keys, packs, tab, late

missingVars == <<missing, found, matches, sightings, serving>>
caseVars == <<status, closed, assigned, subjects, notes, working>>
deviceVars == <<device, releases, attached, open, carried, token, key, keys, packs, tab, late>>
allVars == <<area, vars, missingVars, caseVars, deviceVars>>

M == INSTANCE MissingPersons WITH Requests <- Jobs, request <- serving
C == INSTANCE Cases WITH Requests <- Jobs, request <- working
O == INSTANCE Offline WITH Tabs <- Jobs

MCInit ==
    /\ area \in {"missing", "cases", "offline", "sources"}
    /\ Init /\ M!Init /\ C!Init /\ O!Init
    /\ area # "sources" => unknown = {}
    /\ area # "offline" => attached = [i \in Incidents |-> {}]

MCNext ==
    \/ area = "missing" /\ M!Next /\ UNCHANGED <<area, vars, caseVars, deviceVars>>
    \/ area = "cases" /\ C!Next /\ UNCHANGED <<area, vars, missingVars, deviceVars>>
    \/ area = "offline" /\ O!Next /\ UNCHANGED <<area, vars, missingVars, caseVars>>
    \/ area = "sources" /\ Next /\ UNCHANGED <<area, missingVars, caseVars, deviceVars>>

MCSpec == MCInit /\ [][MCNext]_allVars

\* A name rests on an officer's decision and a candidate on several attributes
\* (missing-persons.service.ts); what a device carries is on record, and no question
\* asked after a revocation is answered yes (offline.service.ts); in states of the
\* right type.
FieldRecordsHold ==
    /\ area = "missing" => M!TypeOK /\ M!NamedOnEvidence
    /\ area = "cases" => C!TypeOK
    /\ area = "offline" => O!TypeOK /\ O!CarriedIsOnRecord /\ O!NoYesAfterRevocation

\* A closed case is reopened, a resolved report and a reviewed match are written over, by
\* requests that had read them before, and by nothing else (cases.service.ts: update;
\* missing-persons.service.ts: updateMissingPerson, updateUnidentifiedPerson, reviewMatch).
OnlyOverlapUndoes == [][C!OverlapReopens]_caseVars /\ [][M!SettledUnlessOverlapped]_missingVars
=============================================================================
