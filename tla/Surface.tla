------------------------------- MODULE Surface -------------------------------
(***************************************************************************)
(* Somebody with one role at the portals: every page the menu and the      *)
(* links lead to is opened, every form on it is submitted under every      *)
(* purpose it offers, and the policy engine answers each call behind them. *)
(*                                                                         *)
(* The evidence is the best there is: the account and its agency are in    *)
(* good standing and cleared for everything, and a case or an incident     *)
(* that is named is active and the officer is on it.  What is refused is   *)
(* refused because of what the pages, the routes, the vocabulary and the   *)
(* roles say.  No call changes what another is answered, so one order of   *)
(* visits stands for all of them; what comes at any time is the end of the *)
(* recent second factor.                                                   *)
(***************************************************************************)
EXTENDS SecurityPages, GovernmentPages, EmergencyPages, CitizenPages

CONSTANTS MaxLapses   \* bound on how often the second factor is no longer recent

VARIABLES
    role,     \* of the account
    portal,   \* the portal signed in at; None before the first
    at,       \* the page shown
    proving,  \* a form has led to the step-up page, which returns to the page
    reach,    \* what can be opened: pages, with the purpose a link carries
    been,     \* what of it has been
    left,     \* forms of the page still to submit, with a purpose
    level,    \* authentication level of the session
    lapses,   \* how often the level has dropped
    told,     \* history: the calls of the last step, with their answers
    done,     \* history: actions that were granted
    toured,   \* history: portals left with nothing more to do
    lost      \* history: calls refused for want of a second factor, and only shown

placeVars   == <<portal, at, proving, reach, been, left>>
levelVars   == <<level, lapses>>
historyVars == <<told, done, toured, lost>>
vars == <<role, placeVars, levelVars, historyVars>>

Roles == DOMAIN ROLE_DEFINITIONS
Held  == ROLE_DEFINITIONS[role]

Sections ==
    [security |-> SecuritySections, government |-> GovernmentSections,
     emergency |-> EmergencySections, citizen |-> CitizenSections]

Pages ==
    [security |-> SecurityPages, government |-> GovernmentPages,
     emergency |-> EmergencyPages, citizen |-> CitizenPages]

\* An officer may sign in at each of the officers' portals.
PortalsOf(r) == IF r = "CITIZEN" THEN {"citizen"} ELSE DOMAIN Sections \ {"citizen"}

-----------------------------------------------------------------------------
(***************************************************************************)
(* What the actor of the session is, and what the engine says to a call.   *)
(***************************************************************************)
\* loadGovernmentActor(), loadCitizenActor()
Subject ==
    LET officer == role # "CITIZEN"
        ceiling == IF officer THEN "LAW_ENFORCEMENT_RESTRICTED" ELSE "HIGHLY_RESTRICTED"
    IN  [actorType             |-> IF officer THEN "GOVERNMENT_USER" ELSE "CITIZEN",
         userId                |-> "self",
         agencyId              |-> IF officer THEN "agency" ELSE None,
         accountStatus         |-> "ACTIVE",
         agencyStatus          |-> IF officer THEN "ACTIVE" ELSE None,
         dataSharingAgreement  |-> IF officer THEN "SIGNED" ELSE None,
         clearance             |-> ceiling,
         agencyMaxClassification |-> ceiling,
         compartments          |-> IF officer THEN Compartmented ELSE {},
         jurisdiction          |-> [scope |-> "STATE", lgaCodes |-> {}, wardCodes |-> {}],
         authenticationLevel   |-> level,
         mfaEnrolled           |-> officer,
         accessWindow          |-> None,
         actions               |-> Held,
         subjectPcid           |-> IF officer THEN None ELSE "own"]

CaseWorked ==
    [caseId |-> "case", classification |-> "CONFIDENTIAL", agencyId |-> "agency",
     status |-> "ACTIVE",
     assignedUserIds   |-> IF role = "SUPERVISOR" THEN {} ELSE {"self"},
     supervisorUserIds |-> IF role = "SUPERVISOR" THEN {"self"} ELSE {}]

IncidentAttended ==
    [status |-> "ON_SCENE", assignedUserIds |-> {"self"}, assignedAgencyIds |-> {"agency"}]

Asks(ask, purpose, refs) ==
    [subject  |-> Subject,
     action   |-> ask.action,
     purpose  |-> purpose,
     resource |-> [type |-> ask.type, id |-> None, classification |-> "CONFIDENTIAL",
                   subjectPcid |-> IF role = "CITIZEN" THEN "own" ELSE "other",
                   lgaCode |-> None, wardCode |-> None, linkedCaseIds |-> {"case"},
                   requestedFields |-> None],
     caseContext     |-> IF "case" \in refs THEN CaseWorked ELSE None,
     incidentContext |-> IF "incident" \in refs THEN IncidentAttended ELSE None,
     breakGlass |-> None, approvals |-> {}, now |-> 0, hour |-> 12, weekday |-> 1]

RouteOf(c) == Api[c.of][c.to]

\* The purposes a call is made with: a resident acts for themselves, an officer
\* never does.
PurposesOf(c) ==
    LET r   == RouteOf(c)
        own == IF role = "CITIZEN" THEN SELF ELSE PURPOSES \ SELF
    IN  IF r.must \cup r.may = {} THEN {None}
        ELSE UNION {a.purposes : a \in r.must \cup r.may} \cap c.purposes \cap own

MayAsk(c, ask, purpose) ==
    purpose \in ask.purposes /\ Permits(Asks(ask, purpose, c.refs \cup RouteOf(c).names))

\* What a route leaves out when it is refused may leave nothing.
Permitted(c, purpose) ==
    LET r == RouteOf(c) IN
    /\ \A a \in r.must : MayAsk(c, a, purpose)
    /\ r.must = {} /\ r.may # {} => \E a \in r.may : MayAsk(c, a, purpose)

\* The guard's @RequiresStepUp(), and the gate of the engine.
NeedsSecondFactor(c) ==
    /\ level # "AAL2"
    /\ RouteOf(c).fresh \/ \E a \in RouteOf(c).must : a.action \in STEP_UP_ACTIONS

Outcome(c, purpose) ==
    IF NeedsSecondFactor(c) THEN "stepUp"
    ELSE IF Permitted(c, purpose) THEN "granted" ELSE "refused"

Exercised(c, purpose) ==
    IF Outcome(c, purpose) # "granted" THEN {}
    ELSE {a.action : a \in {b \in RouteOf(c).must \cup RouteOf(c).may : MayAsk(c, b, purpose)}}

-----------------------------------------------------------------------------
(***************************************************************************)
(* Pages.                                                                  *)
(***************************************************************************)
\* canAny() on an entry of the menu.
InMenu(section) == section = {} \/ section \cap Held # {}

Menu(p) == {<<s, None>> : s \in {t \in DOMAIN Sections[p] : InMenu(Sections[p][t])}}

\* can(), on the page.
Shown(calls) == {n \in DOMAIN calls : calls[n].held \subseteq Held}

\* A form that lets the purpose be chosen passes it on to the page it leads to.
Carried(c, purpose) == IF c.purposes = PURPOSES THEN None ELSE purpose

Narrowed(c, carried) ==
    IF carried = None THEN PurposesOf(c) ELSE PurposesOf(c) \cap {carried}

\* The calls made when a page is opened: a load, a purpose.
Loads(page, carried) ==
    {l \in Shown(page.loads) \X (PURPOSES \cup {None}) :
        l[2] \in Narrowed(page.loads[l[1]], carried)}

Loaded(page, carried, n) ==
    \E l \in Loads(page, carried) : l[1] = n /\ Outcome(page.loads[n], l[2]) = "granted"

Stands(page, carried) == \A n \in page.rests : Loaded(page, carried, n)

Answers(calls, pairs) ==
    {[call |-> calls[x[1]], purpose |-> x[2], outcome |-> Outcome(calls[x[1]], x[2])] : x \in pairs}

Granted(answers) == {a \in answers : a.outcome = "granted"}

\* Where a page leads after the answers to the calls of the given names.
LinksAfter(page, names, answers) ==
    {<<x[1], Carried(x[2].call, x[2].purpose)>> :
        x \in {y \in (DOMAIN page.leads) \X Granted(answers) : page.leads[y[1]] \cap names # {}}}

\* Pages linked to whatever has been answered.
Signposts(page) == {<<p, None>> : p \in {q \in DOMAIN page.leads : page.leads[q] = {}}}

Init ==
    /\ role \in Roles
    /\ portal = None /\ at = None /\ proving = FALSE
    /\ reach = {} /\ been = {} /\ left = {}
    /\ level = "AAL2" /\ lapses = 0
    /\ told = {} /\ done = {} /\ toured = {} /\ lost = {}

TypeOK ==
    /\ role \in Roles
    /\ portal \in PortalsOf(role) \cup {None}
    /\ proving \in BOOLEAN
    /\ portal # None => /\ at \in DOMAIN Pages[portal] \cup {None}
                        /\ been \subseteq reach
                        /\ {r[1] : r \in reach} \subseteq DOMAIN Pages[portal]
    /\ level \in {"AAL1", "AAL2"} /\ lapses \in 0..MaxLapses
    /\ done \subseteq Held
    /\ toured \subseteq PortalsOf(role)

Heard(answers) ==
    /\ told' = answers
    /\ done' = done \cup UNION {Exercised(a.call, a.purpose) : a \in answers}
    /\ lost' = lost \cup {a.call : a \in {b \in answers : b.outcome = "stepUp" /\ ~b.call.returns}}

Silent == told' = {} /\ UNCHANGED <<done, lost>>

\* Signing in with the second factor, at the first portal or at the next.
SignIn ==
    /\ portal = None /\ toured # PortalsOf(role)
    /\ portal' = CHOOSE p \in PortalsOf(role) \ toured : TRUE
    /\ reach' = Menu(portal')
    /\ level' = "AAL2"
    /\ Silent
    /\ UNCHANGED <<role, at, proving, been, left, lapses, toured>>

\* A page with everything it loads.
Open ==
    LET visit   == CHOOSE v \in reach \ been : TRUE
        page    == Pages[portal][visit[1]]
        pairs   == Loads(page, visit[2])
        stands  == Stands(page, visit[2])
        links   == UNION {LinksAfter(page, {l[1]}, Answers(page.loads, {l})) : l \in pairs}
    IN  /\ portal # None /\ left = {} /\ reach # been
        /\ at' = visit[1]
        /\ been' = been \cup {visit}
        /\ reach' = reach \cup Signposts(page) \cup (IF stands THEN links ELSE {})
        /\ left' = {f \in Shown(page.forms) \X (PURPOSES \cup {None}) :
                        /\ stands
                        /\ \A n \in page.forms[f[1]].from : Loaded(page, visit[2], n)
                        /\ f[2] \in Narrowed(page.forms[f[1]], visit[2])}
        /\ Heard(Answers(page.loads, pairs))
        /\ UNCHANGED <<role, portal, proving, level, lapses, toured>>

\* A form; one that leads to the step-up page has still to be submitted after it.
Submit ==
    LET form    == CHOOSE f \in left : TRUE
        page    == Pages[portal][at]
        answers == Answers(page.forms, {form})
        sent    == \E a \in answers : a.outcome = "stepUp" /\ a.call.returns
    IN  /\ left # {} /\ ~proving
        /\ reach' = reach \cup LinksAfter(page, {form[1]}, answers)
        /\ left' = IF sent THEN left ELSE left \ {form}
        /\ proving' = sent
        /\ Heard(answers)
        /\ UNCHANGED <<role, portal, at, been, level, lapses, toured>>

\* stepUp(): the code again, and back to where one was.
StepUp ==
    /\ proving
    /\ proving' = FALSE /\ level' = "AAL2"
    /\ Silent
    /\ UNCHANGED <<role, portal, at, reach, been, left, lapses, toured>>

\* Nothing is left to open.
Leave ==
    /\ portal # None /\ left = {} /\ reach = been
    /\ toured' = toured \cup {portal}
    /\ portal' = None /\ at' = None /\ reach' = {} /\ been' = {}
    /\ Silent
    /\ UNCHANGED <<role, proving, left, level, lapses>>

\* The step-up is no longer recent.
Lapse ==
    /\ portal # None /\ level = "AAL2" /\ lapses < MaxLapses
    /\ level' = "AAL1" /\ lapses' = lapses + 1
    /\ Silent
    /\ UNCHANGED <<role, placeVars, toured>>

Next == SignIn \/ Open \/ Submit \/ StepUp \/ Leave \/ Lapse

Spec == Init /\ [][Next]_vars

-----------------------------------------------------------------------------
\* What can() was asked about before it was shown is not refused by the engine:
\* page, server action, route, vocabulary, purposes, role and field catalogue agree.
CheckedIsGranted == \A a \in told : a.outcome = "refused" => a.call.held = {}

\* No page offers these, or none that their holders come to: the answers about
\* programmes release no field, and who may confirm a match may see no enquiry.
NotOffered ==
    {"PROGRAMME_VIEW", "MATCH_CONFIRM", "VEHICLE_SEARCH", "PROPERTY_SEARCH",
     "ANALYTICS_VIEW", "ADMIN_POLICY_MANAGE"}

\* The routes and roles the repository itself lists as seeded ahead of their surface.
AWAITING_A_SURFACE ==
    {"RELATIONSHIP_VIEW", "IMPORT_RUN", "ADMIN_ROLE_MANAGE", "ADMIN_REFERENCE_DATA_MANAGE",
     "ADMIN_NOTIFICATION_RULE_MANAGE"}

TouredUndisturbed == toured = PortalsOf(role) /\ lost = {}

\* Whoever has been everywhere has exercised every other action of the role.
GrantsAreExercised ==
    TouredUndisturbed => Held \subseteq done \cup AWAITING_A_SURFACE \cup NotOffered

\* What a handler asks for is what its route documents, except that devices and
\* messages are anybody's who is signed in, and a resident reads their own record
\* with its cards, and their requests as part of it.
Undocumented ==
    {<<"device", "list">>, <<"device", "register">>, <<"device", "revoke">>,
     <<"device", "releaseStanding">>, <<"ownAccount", "notifications">>,
     <<"ownAccount", "markRead">>, <<"ownRecord", "record">>, <<"ownRecord", "listCorrections">>}

Asked(c) == {a.action : a \in RouteOf(c).must \cup RouteOf(c).may}

\* What each route asks the engine is what its documentation names, as far as it names any.
AsDocumented ==
    \A a \in told : \/ Asked(a.call) = Documentation[a.call.of][a.call.to]
                    \/ <<a.call.of, a.call.to>> \in Undocumented

\* What a page asks can() about, what a route documents and what the engine asks agree.
SurfaceAgrees == CheckedIsGranted /\ AsDocumented

\* "Every entitlement a role grants must be one somebody can exercise"
\* (action-coverage.test.ts): violated, by what NotOffered lists.
EveryGrantIsExercised == TouredUndisturbed => Held \subseteq done \cup AWAITING_A_SURFACE

\* "an officer sent to re-authenticate mid-task comes back to the task" (session.ts):
\* violated, the queue of an approver who is no longer fresh is shown as empty.
StepUpIsOffered == lost = {}
=============================================================================
