------------------------------- MODULE Access -------------------------------
(***************************************************************************)
(* Access to one person's record: PolicyService.authorize() and            *)
(* evaluateOnly() gathering evidence row by row, the views of the record   *)
(* that rest on them, the access-request workflow and break glass          *)
(* (AccessService), and the changes elsewhere that withdraw the evidence.  *)
(*                                                                         *)
(* Every query commits by itself and is one step; what a call does between *)
(* two queries is local and belongs to the step before.  One person, one   *)
(* case, one incident and one agency stand for all: calls about different  *)
(* ones share nothing.                                                     *)
(***************************************************************************)
EXTENDS PolicyEngine, FiniteSets

CONSTANTS
    Users, Profile,      \* accounts; what their rows say that does not change here
    Person, PersonArea,  \* the person the record is about and where they live
    CaseFile,            \* id, classification and agency of the case
    LinkedCases,         \* the cases the person is linked to
    Intents,             \* what a call may ask for
    GateSets,            \* the gates an emergency grant may be asked for
    Calls, Requests, Grants,
    Verdicts,            \* REVIEWED_JUSTIFIED, REVIEWED_UNJUSTIFIED
    APPROVAL_MAX_TTL,    \* the longest an approval lives
    MaxTime,             \* bounds: on the clock,
    MaxUses,             \*         on the calls that rely on one grant,
    MaxChanges,          \*         on the changes of case, incident and agency
    Idle                 \* a call that is not under way

VARIABLES
    now,
    agreement,       \* agency.data_sharing_agreement
    caseStatus,      \* investigation_case.status
    caseTeam,        \* case_assignment with released_at NULL: role by user
    incidentStatus,  \* incident.status
    crew,            \* incident_officer with released_at NULL
    roster,          \* incident_agency
    changes,         \* how often one of these has changed
    request,         \* access_request
    hand,            \* approvers that have read a request and not written yet
    grant,           \* break_glass_grant
    alerts,          \* alert rows per grant
    call,            \* calls under way
    unseen,          \* history: facts that have not held since the call began
    audited,         \* history: audit rows with the grant's break_glass_id
    answered,        \* history: answers of the views that relied on the grant
    answered360      \* history: answers of Citizen 360 that relied on it

placeVars   == <<agreement, caseStatus, caseTeam, incidentStatus, crew, roster, changes>>
workVars    == <<request, hand, grant, alerts>>
historyVars == <<audited, answered, answered360>>
vars == <<now, placeVars, workVars, call, unseen, historyVars>>

Fields    == DOMAIN Catalogue
Askers    == {i.user : i \in Intents}
Agencies  == {Profile[u].agencyId : u \in Users}
Purposes  == {i.purpose : i \in Intents}
CaseRoles == {"INVESTIGATOR", "SUPERVISOR"}

\* The rows of access_request and break_glass_grant.
RequestRows ==
    [by : Askers, purpose : Purposes, fields : {i.fields : i \in Intents},
     status : {"AUTO_DENIED", "PENDING_APPROVAL", "APPROVED", "DENIED", "EXPIRED"},
     approved : SUBSET Fields, decidedBy : Users \cup {None}, expiresAt : Nat \cup {None}]

GrantRows ==
    [userId : Users, type : {"CITIZEN"}, gates : GateSets,
     status : {"ACTIVE", "EXPIRED"} \cup Verdicts, expiresAt : Nat, count : Nat]

\* null is no account, no grant, no time, no row and no status.
ASSUME AccessAssumption ==
    /\ None \notin Users \cup Askers \cup Grants
    /\ None \notin Nat \cup RequestRows \cup GrantRows
    /\ {"ACTIVE", "EXPIRED"} \cap Verdicts = {}
    /\ None \notin CaseRoles \cup ACTIVE_CASE_STATUSES \cup ACTIVE_INCIDENT_STATUSES
    /\ IsFiniteSet(Calls)
    /\ {APPROVAL_MAX_TTL, BREAK_GLASS_MAX_TTL, MaxTime, MaxChanges} \subseteq Nat

\* Calls ask for a person's data, and the row of who asks says who that is.
ASSUME IntentAssumption ==
    \A i \in Intents :
        /\ i.action \in CITIZEN_DATA_ACTIONS
        /\ {"userId", "agencyId", "dataSharingAgreement"} \subseteq DOMAIN Profile[i.user]
        /\ Profile[i.user].userId = i.user

-----------------------------------------------------------------------------
(***************************************************************************)
(* Facts an access may rest on, as the rows have them.                     *)
(***************************************************************************)
LiveApproval(r) ==
    /\ request[r] # None
    /\ request[r].status = "APPROVED"
    /\ request[r].expiresAt > now

LiveGrant(g) ==
    /\ grant[g] # None
    /\ grant[g].status = "ACTIVE"
    /\ grant[g].expiresAt > now

Reviewed(g) == grant[g] # None /\ grant[g].status \in Verdicts

\* How often a grant has been used, as its row says.
CountOf(g) == IF grant[g] = None THEN 0 ELSE grant[g].count

\* A colleague has approved this field for this officer and purpose.
ApprovedByColleague(u, purpose, f) ==
    \E r \in Requests :
        /\ LiveApproval(r)
        /\ request[r].by = u
        /\ request[r].purpose = purpose
        /\ f \in request[r].fields \cap request[r].approved
        /\ request[r].decidedBy # u

\* The facts a call may come to rest on.
Relevant(c) ==
    LET i == c.intent IN
    {<<"agreement">>}
        \cup (IF i.case THEN {<<"case">>, <<"team", i.user>>} ELSE {})
        \cup (IF i.incident THEN {<<"incident">>, <<"crew", i.user>>,
                                  <<"roster", Profile[i.user].agencyId>>} ELSE {})
        \cup (IF c.grantRef # None THEN {<<"grant", c.grantRef>>} ELSE {})
        \cup {<<"approval", i.user, i.purpose, f>> :
                 f \in {h \in Fields : Catalogue[h].requiresApproval}}

Holds(x) ==
    CASE x[1] = "agreement" -> agreement = "SIGNED"
      [] x[1] = "case"      -> caseStatus \in ACTIVE_CASE_STATUSES
      [] x[1] = "incident"  -> incidentStatus \in ACTIVE_INCIDENT_STATUSES
      [] x[1] = "team"      -> caseTeam[x[2]] # None
      [] x[1] = "crew"      -> x[2] \in crew
      [] x[1] = "roster"    -> x[2] \in roster
      [] x[1] = "grant"     -> LiveGrant(x[2])
      [] x[1] = "approval"  -> ApprovedByColleague(x[2], x[3], x[4])

\* Keeps unseen: a call that begins has seen the facts that hold as it begins,
\* and every step may make others hold.
Watch ==
    unseen' = [p \in Calls |->
        IF call'[p] = Idle THEN {}
        ELSE {x \in IF call[p] = Idle THEN Relevant(call'[p]) ELSE unseen[p] : ~Holds(x)'}]

-----------------------------------------------------------------------------
(***************************************************************************)
(* The request put to the engine, from what a call has loaded.             *)
(***************************************************************************)
NoCase     == [status |-> None, team |-> [u \in Askers |-> None]]
NoIncident == [status |-> None, crew |-> {}, roster |-> {}]

\* The views look the person up; an access request names them only, and a
\* linked card is about what they own.
LookedUp(c) == c.card = "CITIZEN" /\ c.intent.op # "REQUEST"

ResourceOf(c) ==
    [type            |-> c.card,
     id              |-> IF LookedUp(c) THEN Person ELSE None,
     classification  |-> "CONFIDENTIAL",
     subjectPcid     |-> Person,
     lgaCode         |-> IF LookedUp(c) THEN PersonArea ELSE None,
     wardCode        |-> None,
     linkedCaseIds   |-> IF c.intent.op = "REQUEST" THEN {} ELSE LinkedCases,
     requestedFields |-> IF c.intent.op = "REQUEST" THEN c.intent.fields ELSE None]

InRole(team, roles) == {u \in Askers : team[u] \in roles}

CaseContext(c) ==
    IF ~c.intent.case THEN None
    ELSE [caseId            |-> CaseFile.id,
          classification    |-> CaseFile.classification,
          agencyId          |-> CaseFile.agency,
          status            |-> c.case.status,
          assignedUserIds   |-> InRole(c.case.team, CaseRoles \ {"SUPERVISOR"}),
          supervisorUserIds |-> InRole(c.case.team, {"SUPERVISOR"})]

IncidentContext(c) ==
    IF ~c.intent.incident THEN None
    ELSE [status            |-> c.incident.status,
          assignedUserIds   |-> c.incident.crew,
          assignedAgencyIds |-> c.incident.roster]

\* The officer is the one the guard loaded when the call began.
PolicyRequest(c) ==
    [subject  |-> [Profile[c.intent.user] EXCEPT !.dataSharingAgreement = c.agreement],
     action   |-> IF c.card = "VEHICLE" THEN "VEHICLE_VIEW" ELSE c.intent.action,
     purpose  |-> c.intent.purpose,
     resource |-> ResourceOf(c),
     caseContext     |-> CaseContext(c),
     incidentContext |-> IncidentContext(c),
     breakGlass      |-> c.grant,
     approvals       |-> c.approvals,
     now |-> now, hour |-> 12, weekday |-> 1]

\* What a permitted access rests on: the officer's own standing where a gate
\* binds it, the grant where a gate is relaxed or a field is released by it.
Reliance(c) ==
    LET r == PolicyRequest(c)
        u == c.intent.user
        byGrant == {<<"grant", c.grantRef>>}
    IN  (IF OfAnAgency(r) THEN {<<"agreement">>} ELSE {})
        \cup (IF ~CaseBound(r) THEN {}
              ELSE IF CaseBindingGate(r) THEN {<<"case">>, <<"team", u>>} ELSE byGrant)
        \cup (IF ~IncidentBound(r) THEN {}
              ELSE IF ~IncidentBindingGate(r) THEN byGrant
              ELSE {<<"incident">>,
                    IF u \in c.incident.crew THEN <<"crew", u>>
                    ELSE <<"roster", Profile[u].agencyId>>})
        \cup (IF JurisdictionGate(r) /\ GrantedFields(r) = {} THEN {} ELSE byGrant)
        \cup {<<"approval", u, r.purpose, f>> :
                 f \in {h \in AllowedFields(r) : NeedsApproval(r, h)} \ GrantedFields(r)}

\* An action that no case, incident or field is asked about: it rests on the
\* account alone.
AccountMay(u, action, purpose, type, id, classification) ==
    Permits([subject  |-> Profile[u],
             action   |-> action,
             purpose  |-> purpose,
             resource |-> [type |-> type, id |-> id, classification |-> classification,
                           subjectPcid |-> None, lgaCode |-> None, wardCode |-> None,
                           linkedCaseIds |-> {}, requestedFields |-> None],
             caseContext |-> None, incidentContext |-> None, breakGlass |-> None,
             approvals |-> {}, now |-> now, hour |-> 12, weekday |-> 1])

-----------------------------------------------------------------------------
\* The case, the incident and the agency are found in good standing; an officer
\* is on both the case and the incident, or on neither.
Init ==
    /\ now = 0
    /\ agreement = "SIGNED"
    /\ caseStatus = "ACTIVE" /\ incidentStatus = "VERIFIED"
    /\ crew \in SUBSET Askers /\ roster = {}
    /\ caseTeam = [u \in Askers |-> IF u \in crew THEN "INVESTIGATOR" ELSE None]
    /\ changes = 0
    /\ request = [r \in Requests |-> None] /\ hand = [r \in Requests |-> {}]
    /\ grant = [g \in Grants |-> None] /\ alerts = [g \in Grants |-> 0]
    /\ call = [p \in Calls |-> Idle] /\ unseen = [p \in Calls |-> {}]
    /\ audited = [g \in Grants |-> 0]
    /\ answered = [g \in Grants |-> 0] /\ answered360 = [g \in Grants |-> 0]

(***************************************************************************)
(* Gathering the evidence.  authorize() and evaluateOnly() load everything *)
(* at once over a pool, so the queries run in any order.                   *)
(***************************************************************************)
\* A reference that is not given is answered without a query.
ToLoad(i, g) ==
    {"approvals"} \cup (IF i.case THEN {"case", "team"} ELSE {})
                  \cup (IF i.incident THEN {"incident", "crew", "roster"} ELSE {})
                  \cup (IF g # None THEN {"grant"} ELSE {})

\* A call about to load what it asks the engine with.
Loading(c, card) ==
    [c EXCEPT !.card = card, !.stage = "LOAD", !.todo = ToLoad(c.intent, c.grantRef),
              !.case = NoCase, !.incident = NoIncident, !.grant = None, !.approvals = {}]

\* A call that has its decision keeps nothing of what it loaded.
Decided(c, stage) ==
    [c EXCEPT !.stage = stage, !.todo = {}, !.case = NoCase, !.incident = NoIncident,
              !.grant = None, !.approvals = {}]

UsesUnderWay(g) == {p \in Calls : call[p] # Idle /\ call[p].grantRef = g}

\* Somebody asks, by a grant of their own or by none.
Begin(p, i, g) ==
    /\ call[p] = Idle
    /\ i.op = "REQUEST" => /\ g = None
                           /\ AccountMay(i.user, "ACCESS_REQUEST_CREATE", i.purpose,
                                         "ACCESS_REQUEST", None, "INTERNAL")
    /\ g # None => /\ grant[g] # None
                   /\ grant[g].userId = i.user
                   /\ audited[g] + answered360[g] + Cardinality(UsesUnderWay(g)) < MaxUses
    /\ call' = [call EXCEPT ![p] =
         Loading([intent |-> i, grantRef |-> g, agreement |-> agreement, card |-> "CITIZEN",
                  stage |-> "LOAD", todo |-> {}, case |-> NoCase, incident |-> NoIncident,
                  grant |-> None, approvals |-> {}, relied |-> {}, used |-> FALSE], "CITIZEN")]
    /\ UNCHANGED <<now, placeVars, workVars, historyVars>>
    /\ Watch

Load(p, what, first, loaded) ==
    /\ call[p] # Idle
    /\ what \in call[p].todo
    /\ call[p].todo \cap first = {}
    /\ call' = [call EXCEPT ![p] = [loaded EXCEPT !.todo = @ \ {what}]]
    /\ UNCHANGED <<now, placeVars, workVars, historyVars>>
    /\ Watch

\* loadCase(): the row, then its assignments.
LoadCase(p) == Load(p, "case", {}, [call[p] EXCEPT !.case.status = caseStatus])
LoadTeam(p) == Load(p, "team", {"case"}, [call[p] EXCEPT !.case.team = caseTeam])

\* loadIncident(): the row, then agencies and officers.
LoadIncident(p) == Load(p, "incident", {}, [call[p] EXCEPT !.incident.status = incidentStatus])
LoadCrew(p)   == Load(p, "crew", {"incident"}, [call[p] EXCEPT !.incident.crew = crew])
LoadRoster(p) == Load(p, "roster", {"incident"}, [call[p] EXCEPT !.incident.roster = roster])

\* loadBreakGlass(): whatever its status, for the engine to judge.
GrantRow(g) ==
    [status |-> grant[g].status, userId |-> grant[g].userId, expiresAt |-> grant[g].expiresAt,
     resourceType |-> grant[g].type, subjectPcid |-> Person, gates |-> grant[g].gates]

LoadGrant(p) == Load(p, "grant", {}, [call[p] EXCEPT !.grant = GrantRow(call[p].grantRef)])

\* loadApprovals(): the officer's live approvals for the purpose and the type.
ApprovalsFor(c) ==
    {[userId |-> request[r].by, expiresAt |-> request[r].expiresAt,
      resourceType |-> "CITIZEN", purpose |-> request[r].purpose,
      subjectPcid |-> Person, approvedFields |-> request[r].approved] :
        r \in {s \in Requests : /\ LiveApproval(s)
                                /\ request[s].by = c.intent.user
                                /\ request[s].purpose = c.intent.purpose
                                /\ c.card = "CITIZEN"}}

LoadApprovals(p) ==
    Load(p, "approvals", {}, [call[p] EXCEPT !.approvals = ApprovalsFor(call[p])])

-----------------------------------------------------------------------------
(***************************************************************************)
(* authorize() for the two views of the record that go through it: decide, *)
(* audit, then discharge the obligations, each in a statement of its own.  *)
(***************************************************************************)
Loaded(p, op) ==
    /\ call[p] # Idle
    /\ call[p].stage = "LOAD" /\ call[p].todo = {}
    /\ call[p].intent.op = op

Outcome(p) == Evaluate(PolicyRequest(call[p]))
Permitted(p) == Outcome(p).effect = "PERMIT"

\* The audit row names the grant only when it was needed.
Decide(p) ==
    /\ Loaded(p, "VIEW")
    /\ LET c == call[p]
           notify == "NOTIFY_SUPERVISOR" \in Outcome(p).obligations
       IN  IF Permitted(p)
           THEN /\ call' = [call EXCEPT ![p] =
                     [Decided(c, IF notify THEN "COUNT" ELSE "ANSWER")
                        EXCEPT !.relied = Reliance(c), !.used = Outcome(p).breakGlassUsed]]
                /\ audited' = IF Outcome(p).breakGlassUsed
                              THEN [audited EXCEPT ![c.grantRef] = @ + 1] ELSE audited
           ELSE /\ call' = [call EXCEPT ![p] = Idle]
                /\ UNCHANGED audited
    /\ UNCHANGED <<now, placeVars, workVars, answered, answered360>>
    /\ Watch

\* Mutation of Count: nobody is alerted.
CountWithoutAlert(p) ==
    /\ call[p] # Idle /\ call[p].stage = "COUNT"
    /\ grant' = [grant EXCEPT ![call[p].grantRef].count = @ + 1]
    /\ call' = [call EXCEPT ![p].stage = "ANSWER"]
    /\ UNCHANGED <<now, placeVars, request, hand, alerts, historyVars>>
    /\ Watch

\* dischargeObligations(): first the count, then the alert.
Count(p) ==
    /\ call[p] # Idle /\ call[p].stage = "COUNT"
    /\ grant' = [grant EXCEPT ![call[p].grantRef].count = @ + 1]
    /\ call' = [call EXCEPT ![p].stage = "ALERT"]
    /\ UNCHANGED <<now, placeVars, request, hand, alerts, historyVars>>
    /\ Watch

Alert(p) ==
    /\ call[p] # Idle /\ call[p].stage = "ALERT"
    /\ alerts' = [alerts EXCEPT ![call[p].grantRef] = @ + 1]
    /\ call' = [call EXCEPT ![p].stage = "ANSWER"]
    /\ UNCHANGED <<now, placeVars, request, hand, grant, historyVars>>
    /\ Watch

Answer(p) ==
    /\ call[p] # Idle /\ call[p].stage = "ANSWER" /\ call[p].intent.op = "VIEW"
    /\ answered' = IF call[p].used
                   THEN [answered EXCEPT ![call[p].grantRef] = @ + 1] ELSE answered
    /\ call' = [call EXCEPT ![p] = Idle]
    /\ UNCHANGED <<now, placeVars, workVars, audited, answered360>>
    /\ Watch

-----------------------------------------------------------------------------
(***************************************************************************)
(* Citizen 360: evaluateOnly() once for the identity and once for each     *)
(* linked card.  One card stands for them all.                             *)
(***************************************************************************)
\* The record is refused altogether where the identity is.
DecideIdentity(p) ==
    /\ Loaded(p, "VIEW_360") /\ call[p].card = "CITIZEN"
    /\ call' = [call EXCEPT ![p] =
         IF Permitted(p)
         THEN [Loading(call[p], "VEHICLE") EXCEPT !.relied = Reliance(call[p]),
                                                  !.used = Outcome(p).breakGlassUsed]
         ELSE Idle]
    /\ UNCHANGED <<now, placeVars, workVars, historyVars>>
    /\ Watch

\* A card that is refused is shown as restricted.
DecideCard(p) ==
    /\ Loaded(p, "VIEW_360") /\ call[p].card = "VEHICLE"
    /\ LET c == call[p] IN
       call' = [call EXCEPT ![p] =
         IF Permitted(p)
         THEN [Decided(c, "ANSWER") EXCEPT !.relied = @ \cup Reliance(c),
                                           !.used = @ \/ Outcome(p).breakGlassUsed]
         ELSE Decided(c, "ANSWER")]
    /\ UNCHANGED <<now, placeVars, workVars, historyVars>>
    /\ Watch

\* The audit row of the view, which names no grant, and the answer.
Answer360(p) ==
    /\ call[p] # Idle /\ call[p].stage = "ANSWER" /\ call[p].intent.op = "VIEW_360"
    /\ answered360' = IF call[p].used
                      THEN [answered360 EXCEPT ![call[p].grantRef] = @ + 1] ELSE answered360
    /\ call' = [call EXCEPT ![p] = Idle]
    /\ UNCHANGED <<now, placeVars, workVars, audited, answered>>
    /\ Watch

-----------------------------------------------------------------------------
(***************************************************************************)
(* Access requests.                                                        *)
(***************************************************************************)
\* createRequest(): what the engine would say today decides whether anybody
\* has to.
InsertRequest(p, r) ==
    /\ Loaded(p, "REQUEST")
    /\ request[r] = None
    /\ LET i == call[p].intent IN
       request' = [request EXCEPT ![r] =
         [by |-> i.user, purpose |-> i.purpose, fields |-> i.fields,
          status |-> IF Permitted(p) /\ i.fields \subseteq Outcome(p).allowedFields
                     THEN "AUTO_DENIED" ELSE "PENDING_APPROVAL",
          approved |-> {}, decidedBy |-> None, expiresAt |-> None]]
    /\ call' = [call EXCEPT ![p] = Idle]
    /\ UNCHANGED <<now, placeVars, hand, grant, alerts, historyVars>>
    /\ Watch

Undecided == {"SUBMITTED", "PENDING_APPROVAL"}

\* Mutation of ReadRequest: a request that was decided may be taken up again.
ReadRequestDecided(u, r) ==
    /\ request[r] # None
    /\ request[r].by # u
    /\ AccountMay(u, "ACCESS_REQUEST_APPROVE", "SERVICE_DELIVERY", "ACCESS_REQUEST", r, "INTERNAL")
    /\ hand' = [hand EXCEPT ![r] = @ \cup {u}]
    /\ UNCHANGED <<now, placeVars, request, grant, alerts, call, historyVars>>
    /\ Watch

\* decide() reads the request ...
ReadRequest(u, r) ==
    /\ request[r] # None
    /\ request[r].status \in Undecided
    /\ request[r].by # u
    /\ AccountMay(u, "ACCESS_REQUEST_APPROVE", "SERVICE_DELIVERY", "ACCESS_REQUEST", r, "INTERNAL")
    /\ hand' = [hand EXCEPT ![r] = @ \cup {u}]
    /\ UNCHANGED <<now, placeVars, request, grant, alerts, call, historyVars>>
    /\ Watch

\* ... and writes without looking again.
WriteDecision(u, r, fields, ttl) ==
    /\ u \in hand[r]
    /\ fields \subseteq request[r].fields
    /\ request' = [request EXCEPT
         ![r].status    = IF fields = {} THEN "DENIED" ELSE "APPROVED",
         ![r].approved  = fields,
         ![r].decidedBy = u,
         ![r].expiresAt = IF fields = {} THEN None ELSE now + ttl]
    /\ hand' = [hand EXCEPT ![r] = @ \ {u}]
    /\ UNCHANGED <<now, placeVars, grant, alerts, call, historyVars>>
    /\ Watch

-----------------------------------------------------------------------------
(***************************************************************************)
(* Break glass.                                                            *)
(***************************************************************************)
InitiateBreakGlass(u, g, gates, ttl) ==
    /\ grant[g] = None
    /\ AccountMay(u, "BREAK_GLASS_INITIATE", "EMERGENCY_RESPONSE", "CITIZEN", None, "CONFIDENTIAL")
    /\ grant' = [grant EXCEPT ![g] =
         [userId |-> u, type |-> "CITIZEN", gates |-> gates, status |-> "ACTIVE",
          expiresAt |-> now + ttl, count |-> 0]]
    /\ UNCHANGED <<now, placeVars, request, hand, alerts, call, historyVars>>
    /\ Watch

\* reviewBreakGlass() reads only whose the grant is, which never changes; it
\* asks neither whether the grant is still in use nor whether it was reviewed,
\* so that a later verdict is written over an earlier one.
ReviewBreakGlass(u, g) ==
    /\ grant[g] # None
    /\ grant[g].userId # u
    /\ AccountMay(u, "BREAK_GLASS_REVIEW", "AUDIT_REVIEW", "ACCESS_REQUEST", g, "INTERNAL")
    /\ \E verdict \in Verdicts : grant' = [grant EXCEPT ![g].status = verdict]
    /\ UNCHANGED <<now, placeVars, request, hand, alerts, call, historyVars>>
    /\ Watch

\* Mutation of GrantIsStale: what was reviewed expires as well.
GrantIsStaleReviewed(g) == grant[g] # None /\ grant[g].expiresAt <= now

\* expireStaleGrants(): two statements; nothing in the service runs them.
GrantIsStale(g) == grant[g] # None /\ grant[g].status = "ACTIVE" /\ grant[g].expiresAt <= now

ExpireGrants ==
    /\ \E g \in Grants : GrantIsStale(g)
    /\ grant' = [g \in Grants |->
         IF GrantIsStale(g) THEN [grant[g] EXCEPT !.status = "EXPIRED"] ELSE grant[g]]
    /\ UNCHANGED <<now, placeVars, request, hand, alerts, call, historyVars>>
    /\ Watch

RequestIsStale(r) ==
    request[r] # None /\ request[r].status = "APPROVED" /\ request[r].expiresAt <= now

ExpireRequests ==
    /\ \E r \in Requests : RequestIsStale(r)
    /\ request' = [r \in Requests |->
         IF RequestIsStale(r) THEN [request[r] EXCEPT !.status = "EXPIRED"] ELSE request[r]]
    /\ UNCHANGED <<now, placeVars, hand, grant, alerts, call, historyVars>>
    /\ Watch

-----------------------------------------------------------------------------
(***************************************************************************)
(* Elsewhere: cases, incidents and agencies change under other requests.   *)
(* Nothing ever takes an officer off a case or an incident.                *)
(***************************************************************************)
Elsewhere == UNCHANGED <<now, workVars, call, historyVars>> /\ Watch

\* close() and update() write the status they were asked for.
CaseMoves(status) ==
    /\ changes < MaxChanges /\ changes' = changes + 1
    /\ status # caseStatus /\ caseStatus' = status
    /\ UNCHANGED <<agreement, caseTeam, incidentStatus, crew, roster>>
    /\ Elsewhere

\* assign(): somebody already on the case changes role.
JoinsCase(u, role) ==
    /\ changes < MaxChanges /\ changes' = changes + 1
    /\ caseTeam[u] # role /\ caseTeam' = [caseTeam EXCEPT ![u] = role]
    /\ UNCHANGED <<agreement, caseStatus, incidentStatus, crew, roster>>
    /\ Elsewhere

IncidentMoves(status) ==
    /\ changes < MaxChanges /\ changes' = changes + 1
    /\ status # incidentStatus /\ incidentStatus' = status
    /\ UNCHANGED <<agreement, caseStatus, caseTeam, crew, roster>>
    /\ Elsewhere

\* attachOfficer(), and dispatching a unit of an agency.
JoinsIncident(u, agency) ==
    /\ changes < MaxChanges /\ changes' = changes + 1
    /\ \/ u \notin crew /\ crew' = crew \cup {u} /\ UNCHANGED roster
       \/ agency \notin roster /\ roster' = roster \cup {agency} /\ UNCHANGED crew
    /\ UNCHANGED <<agreement, caseStatus, caseTeam, incidentStatus>>
    /\ Elsewhere

\* updateAgencyStatus(); an agreement that lapses is read as one.
AgreementChanges(state) ==
    /\ changes < MaxChanges /\ changes' = changes + 1
    /\ state # agreement /\ agreement' = state
    /\ UNCHANGED <<caseStatus, caseTeam, incidentStatus, crew, roster>>
    /\ Elsewhere

Tick ==
    /\ now < MaxTime
    /\ now' = now + 1
    /\ UNCHANGED <<placeVars, workVars, call, historyVars>>
    /\ Watch

\* A statement fails or the process ends: what has been committed stays.
Fail(p) ==
    /\ call[p] # Idle
    /\ call' = [call EXCEPT ![p] = Idle]
    /\ UNCHANGED <<now, placeVars, workVars, historyVars>>
    /\ Watch

FailDecision(u, r) ==
    /\ u \in hand[r]
    /\ hand' = [hand EXCEPT ![r] = @ \ {u}]
    /\ UNCHANGED <<now, placeVars, request, grant, alerts, call, historyVars>>
    /\ Watch

Asks(p) ==
    \/ \E i \in Intents, g \in Grants \cup {None} : Begin(p, i, g)
    \/ LoadCase(p) \/ LoadTeam(p)
    \/ LoadIncident(p) \/ LoadCrew(p) \/ LoadRoster(p)
    \/ LoadGrant(p) \/ LoadApprovals(p)
    \/ Decide(p) \/ Count(p) \/ Alert(p) \/ Answer(p)
    \/ DecideIdentity(p) \/ DecideCard(p) \/ Answer360(p)
    \/ \E r \in Requests : InsertRequest(p, r)
    \/ Fail(p)

Decides(u, r) ==
    \/ ReadRequest(u, r)
    \/ \E fields \in SUBSET Fields, ttl \in 1..APPROVAL_MAX_TTL : WriteDecision(u, r, fields, ttl)
    \/ FailDecision(u, r)

BreakGlass(u, g) ==
    \/ \E gates \in GateSets, ttl \in 1..BREAK_GLASS_MAX_TTL : InitiateBreakGlass(u, g, gates, ttl)
    \/ ReviewBreakGlass(u, g)

Changes ==
    \/ \E status \in {"ACTIVE", "CLOSED"} : CaseMoves(status)
    \/ \E u \in Askers, role \in CaseRoles : JoinsCase(u, role)
    \/ \E status \in {"VERIFIED", "RESOLVED"} : IncidentMoves(status)
    \/ \E u \in Askers, a \in Agencies : JoinsIncident(u, a)
    \/ \E state \in {"SIGNED", "SUSPENDED"} : AgreementChanges(state)

Next ==
    \/ \E p \in Calls : Asks(p)
    \/ \E u \in Users, r \in Requests : Decides(u, r)
    \/ \E u \in Users, g \in Grants : BreakGlass(u, g)
    \/ ExpireGrants \/ ExpireRequests
    \/ Changes
    \/ Tick

Spec == Init /\ [][Next]_vars

-----------------------------------------------------------------------------
(***************************************************************************)
(* Properties.                                                             *)
(***************************************************************************)
Stages == {"LOAD", "COUNT", "ALERT", "ANSWER"}

\* What each table holds (migration 0007, its CHECKs included) and what each
\* call remembers.
TypeOK ==
    /\ now \in 0..MaxTime /\ changes \in 0..MaxChanges
    /\ caseTeam \in [Askers -> CaseRoles \cup {None}]
    /\ crew \subseteq Askers /\ roster \subseteq Agencies
    /\ request \in [Requests -> RequestRows \cup {None}]
    /\ hand \in [Requests -> SUBSET Users]
    /\ grant \in [Grants -> GrantRows \cup {None}]
    /\ \A r \in Requests : request[r] # None =>
            /\ request[r].approved \subseteq request[r].fields
            /\ request[r].decidedBy # request[r].by
            /\ request[r].status = "APPROVED" => request[r].expiresAt # None
    /\ \A p \in Calls : call[p] # Idle =>
            /\ call[p].intent \in Intents /\ call[p].grantRef \in Grants \cup {None}
            /\ call[p].stage \in Stages
            /\ call[p].used => call[p].grantRef # None

\* Every fact a permitted call rests on was the case at some moment while the
\* call was under way: the agreement, the officer's place on an active case or
\* incident, a grant of their own that was live and not reviewed, a colleague's
\* unexpired approval of that field for that purpose.
\* (authorize, evaluateOnly: evidence is loaded row by row, and judged later.)
ReliedOnWhatHeld ==
    \A p \in Calls : call[p] # Idle => call[p].relied \cap unseen[p] = {}

\* A view that needed a grant is answered only after it was audited under the
\* grant, counted on it and put before a supervisor, in this order.
\* (authorize: "the audit record is written before the caller is told".)
CountedBeforeAnswered ==
    \A g \in Grants :
        /\ answered[g] <= alerts[g]
        /\ alerts[g] <= CountOf(g)
        /\ CountOf(g) <= audited[g]

\* What became of a grant, and the calls that found it good.
PhaseOf(g) ==
    CASE grant[g] = None -> "NONE"
      [] LiveGrant(g) -> "LIVE"
      [] Reviewed(g) -> "REVIEWED"
      [] OTHER -> "LAPSED"

Trusting(g) ==
    {p \in Calls : /\ call[p] # Idle /\ call[p].grantRef = g /\ call[p].grant # None
                   /\ call[p].grant.status = "ACTIVE" /\ call[p].grant.expiresAt > now}

Glass == INSTANCE EmergencyGrant
    WITH phase <- [g \in Grants |-> PhaseOf(g)], trusting <- [g \in Grants |-> Trusting(g)],
         counted <- [g \in Grants |-> CountOf(g)], alerted <- alerts

\* The service keeps the promise of break glass: whoever reads, decides, reviews and
\* waits in between, a grant is used by a call that found it alive and unreviewed, and
\* each use goes its way to a supervisor before it is answered.
\* (authorize, dischargeObligations, reviewBreakGlass; docs/architecture.md:111.)
BreakGlassSpec == Glass!Spec

\* Review is the end of a grant: nothing makes it usable again, and expiry does not write
\* over the verdict.  A later review may overturn an earlier one: then the row has the
\* later verdict only, and the earlier is in the audit trail.
\* (reviewBreakGlass, expireStaleGrants.)
ReviewStands ==
    [][\A g \in Grants : Reviewed(g)
            => Reviewed(g)' /\ grant'[g].expiresAt = grant[g].expiresAt]_vars

\* Once a request is decided nobody takes it up to decide it, and it stays as it was
\* decided, but for expiring in its time; unless several approvers had read it before.
\* Then the later one writes over the earlier, the whole decision at once, and no
\* approver more than once.  (decide: "That request has already been decided.")
DecisionStands ==
    [][\A r \in Requests :
        request[r] # None /\ request[r].status \notin Undecided
            => /\ hand'[r] \subseteq hand[r]
               /\ \/ request'[r] = request[r]
                  \/ /\ request[r].status = "APPROVED" /\ request[r].expiresAt <= now
                     /\ request'[r] = [request[r] EXCEPT !.status = "EXPIRED"]
                  \/ /\ request'[r].decidedBy \in (hand[r] \ hand'[r]) \ {request[r].by}
                     /\ \E fields \in SUBSET request[r].fields :
                          request'[r] = [request[r] EXCEPT
                             !.status = IF fields = {} THEN "DENIED" ELSE "APPROVED",
                             !.approved = fields, !.decidedBy = request'[r].decidedBy,
                             !.expiresAt = request'[r].expiresAt]]_vars

\* What of a reviewer's and of an approver's ruling stands (reviewBreakGlass, decide).
RulingsStand == DecisionStands /\ ReviewStands

\* The documentation: every answer that relied on a grant is counted on it.
\* (docs/architecture.md:111-115; not so of Citizen 360.)
EveryUseIsCounted ==
    \A g \in Grants :
        answered[g] + answered360[g] <= CountOf(g)
=============================================================================
