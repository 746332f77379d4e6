--------------------------- MODULE MCRegistration ---------------------------
(***************************************************************************)
(* The register of citizens, corrections to it, and the pages of the       *)
(* portals that lead to them, for TLC.  They share no state here, so each  *)
(* is checked in an area of its own: area says which a behaviour is about. *)
(***************************************************************************)
EXTENDS Registration, TLC

CONSTANTS
    a1, a2, a3, p1, p2, p3, p4, n1, v1, v2, None,
    Fields, Requests, Alerts, Values, Unset          \* Corrections

\* a1 and a2 were given the same national number and nothing else in common;
\* a3 agrees with both.
MCNinOf     == [a \in Applications |-> IF a = a3 THEN NoNin ELSE n1]
MCResembles == {<<a3, a1>>, <<a3, a2>>, <<a1, a3>>, <<a2, a3>>}

\* The officers who decide on corrections are reviews as well.
Symmetry == Permutations(Pcids) \cup Permutations(Reviews)

VARIABLES
    area,
    role, portal, at, proving, reach, been, left, level, lapses, told, done, toured, lost,
    record, asked, todo, trail, heard, alert, deciding

pageVars == <<role, portal, at, proving, reach, been, left, level, lapses, told, done, toured, lost>>
correctionVars == <<record, asked, todo, trail, heard, alert, deciding>>

\* The seeded roles and the whole field catalogue.
W == INSTANCE FieldCatalogue
S == INSTANCE Surface WITH Catalogue <- W!FIELD_CATALOGUE, BREAK_GLASS_MAX_TTL <- 1, MaxLapses <- 2
C == INSTANCE Corrections WITH Catalogue <- W!FIELD_CATALOGUE,
        Officers <- Reviews, request <- asked, told <- heard, review <- deciding

\* What belongs to another area starts in one state only.
MCInit ==
    /\ area \in {"register", "pages", "corrections"}
    /\ Init /\ S!Init /\ C!Init
    /\ area # "pages" => role = "CITIZEN"
    /\ area # "corrections" => \A f \in Fields : record[f] = CHOOSE v \in Values : TRUE
    /\ \A q \in Requests : asked[q].field = CHOOSE f \in Fields : TRUE

MCNext ==
    \/ area = "register" /\ Next /\ UNCHANGED <<area, pageVars, correctionVars>>
    \/ area = "pages" /\ S!Next /\ UNCHANGED <<area, vars, correctionVars>>
    \/ area = "corrections" /\ C!Next /\ UNCHANGED <<area, vars, pageVars>>

MCSpec == MCInit /\ [][MCNext]_<<area, vars, pageVars, correctionVars>>

\* Pages, documentation, routes and roles agree, and what a role may do is offered to it
\* on some page (roles.ts, the controllers and the four portals), in states of the right
\* type.
PagesAreSound == area = "pages" => S!TypeOK /\ S!SurfaceAgrees /\ S!GrantsAreExercised

\* A correction is decided once, and the resident reads how unless it was returned for
\* evidence before (corrections.service.ts), in states of the right type.
CorrectionsAreAnswered == area = "corrections" => C!TypeOK /\ C!CorrectionsAreAnswered
=============================================================================
