---------------------------- MODULE AccessProofs ----------------------------
(***************************************************************************)
(* Theorems about PolicyEngine and Access, for any accounts, catalogue,    *)
(* intents, calls, requests and grants.                                    *)
(***************************************************************************)
EXTENDS Access, FiniteSetTheorems, TLAPS

(***************************************************************************)
(* The engine.                                                             *)
(***************************************************************************)

\* A decision that relied on a grant had one in scope: of the person who asks,
\* active, alive, about this record (breakGlassSatisfies,
\* breakGlassCoversFieldApproval).
THEOREM UsedGrantIsInScope ==
    ASSUME NEW r, Evaluate(r).breakGlassUsed
    PROVE  GrantInScope(r.breakGlass, r)
<1>1. Permits(r) /\ BreakGlassUsed(r)
  BY DEF Evaluate
<1>2. CASE RelaxedGates(r) # {}
  BY <1>1, <1>2 DEF Permits, Bound, BreakGlassSatisfies
<1>3. CASE GrantedFields(r) # {}
  <2>1. PICK f \in GrantedFields(r) : TRUE
    BY <1>3
  <2>2. BreakGlassCoversFieldApproval(r)
    BY <2>1 DEF GrantedFields, AllowedFields
  <2> QED  BY <2>2 DEF BreakGlassCoversFieldApproval
<1> QED  BY <1>1, <1>2, <1>3 DEF BreakGlassUsed

\* Two requests that differ at most in the grant.
SameButGrant(q, r) ==
    /\ q.subject = r.subject /\ q.action = r.action /\ q.purpose = r.purpose
    /\ q.resource = r.resource
    /\ q.caseContext = r.caseContext /\ q.incidentContext = r.incidentContext
    /\ q.approvals = r.approvals
    /\ q.now = r.now /\ q.hour = r.hour /\ q.weekday = r.weekday

LEMMA SameHardGates ==
    ASSUME NEW q, NEW r, SameButGrant(q, r)
    PROVE  HardGates(q) = HardGates(r)
<1> USE DEF SameButGrant, IsCitizen, OfAnAgency
<1>1. /\ AccountStandingGate(q) = AccountStandingGate(r)
      /\ AgencyStandingGate(q) = AgencyStandingGate(r)
      /\ DataSharingAgreementGate(q) = DataSharingAgreementGate(r)
      /\ AuthenticationGate(q) = AuthenticationGate(r)
  BY DEF AccountStandingGate, AgencyStandingGate, DataSharingAgreementGate, AuthenticationGate
<1>2. /\ StepUpGate(q) = StepUpGate(r)
      /\ RbacGate(q) = RbacGate(r)
      /\ ResourceTypeGate(q) = ResourceTypeGate(r)
      /\ AccessWindowGate(q) = AccessWindowGate(r)
  BY DEF StepUpGate, RbacGate, ResourceTypeGate, AccessWindowGate
<1>3. /\ SeparationOfDutyGate(q) = SeparationOfDutyGate(r)
      /\ SelfServiceScopeGate(q) = SelfServiceScopeGate(r)
      /\ PurposeGate(q) = PurposeGate(r)
      /\ CompartmentGate(q) = CompartmentGate(r)
      /\ ClassificationRankGate(q) = ClassificationRankGate(r)
  BY DEF SeparationOfDutyGate, SelfServiceScopeGate, PurposeGate, CompartmentGate,
         ClassificationRankGate
<1> QED  BY <1>1, <1>2, <1>3 DEF HardGates

LEMMA SameBindingGates ==
    ASSUME NEW q, NEW r, SameButGrant(q, r)
    PROVE  /\ RelaxedGates(q) = RelaxedGates(r)
           /\ CaseAboveClearance(q) = CaseAboveClearance(r)
<1> USE DEF SameButGrant, IsCitizen, OfAnAgency
<1>1. JurisdictionGate(q) = JurisdictionGate(r)
  BY DEF JurisdictionGate
<1>2. /\ CaseBound(q) = CaseBound(r)
      /\ CaseAuthority(q) = CaseAuthority(r)
      /\ CaseWithinClearance(q) = CaseWithinClearance(r)
      /\ CaseLinkage(q) = CaseLinkage(r)
  BY DEF CaseBound, CaseAuthority, MayWorkCase, InOwningAgency, CaseWithinClearance, CaseLinkage
<1>3. IncidentBindingGate(q) = IncidentBindingGate(r)
  BY DEF IncidentBindingGate, IncidentBound
<1>4. CaseBindingGate(q) = CaseBindingGate(r)
  BY <1>2 DEF CaseBindingGate
<1>5. ASSUME NEW g \in BindingGates
      PROVE  BindingGate(q, g) = BindingGate(r, g)
  BY <1>1, <1>3, <1>4 DEF BindingGates, BindingGate
<1> QED  BY <1>2, <1>5 DEF RelaxedGates, CaseAboveClearance

LEMMA SameFields ==
    ASSUME NEW q, NEW r, SameButGrant(q, r)
    PROVE  /\ Candidates(q) = Candidates(r)
           /\ \A f : Releasable(q, f) = Releasable(r, f)
           /\ \A f : NeedsApproval(q, f) = NeedsApproval(r, f)
           /\ \A f : Approved(q, f) = Approved(r, f)
<1> USE DEF SameButGrant, IsCitizen
<1>1. Candidates(q) = Candidates(r)
  BY DEF Candidates
<1>2. ASSUME NEW f
      PROVE  Releasable(q, f) = Releasable(r, f) /\ NeedsApproval(q, f) = NeedsApproval(r, f)
  BY DEF Releasable, NeedsApproval
<1>3. ASSUME NEW f
      PROVE  Approved(q, f) = Approved(r, f)
  BY DEF Approved, ApprovalCovers
<1> QED  BY <1>1, <1>2, <1>3

\* A grant of somebody else, reviewed, expired or about another record changes
\* nothing: not the effect, not a field, not an obligation.
THEOREM OutOfScopeGrantIsNothing ==
    ASSUME NEW q, NEW r, SameButGrant(q, r), q.breakGlass = None,
           ~GrantInScope(r.breakGlass, r)
    PROVE  Evaluate(r) = Evaluate(q)
<1>1. ~GrantInScope(q.breakGlass, q)
  BY DEF GrantInScope
<1>2. \A g : ~BreakGlassSatisfies(q, g) /\ ~BreakGlassSatisfies(r, g)
  BY <1>1 DEF BreakGlassSatisfies
<1>3. ~BreakGlassCoversFieldApproval(q) /\ ~BreakGlassCoversFieldApproval(r)
  BY <1>1 DEF BreakGlassCoversFieldApproval
<1>4. Bound(q) = Bound(r)
  BY <1>2, SameBindingGates DEF Bound
<1>5. AllowedFields(q) = AllowedFields(r)
  BY <1>3, SameFields DEF AllowedFields
<1>6. GrantedFields(q) = GrantedFields(r)
  BY <1>5, SameFields DEF GrantedFields
<1>7. Permits(q) = Permits(r)
  BY <1>4, <1>5, SameHardGates DEF Permits, SameButGrant
<1>8. BreakGlassUsed(q) = BreakGlassUsed(r)
  BY <1>6, SameBindingGates DEF BreakGlassUsed
<1> QED  BY <1>5, <1>7, <1>8 DEF Evaluate

\* What a grant can do: it takes nothing away, and it makes up for bindings and
\* approvals alone, never for a hard gate, the clearance a case asks for, or
\* anything else a field must pass.
THEOREM GrantIsBounded ==
    ASSUME NEW q, NEW r, SameButGrant(q, r), q.breakGlass = None
    PROVE  /\ Permits(q) => Permits(r) /\ AllowedFields(q) \subseteq AllowedFields(r)
           /\ Permits(r) => /\ HardGates(q) /\ ~CaseAboveClearance(q)
                            /\ \A f \in AllowedFields(r) : f \in Candidates(q) /\ Releasable(q, f)
<1>1. ~GrantInScope(q.breakGlass, q)
  BY DEF GrantInScope
<1>2. AllowedFields(q) \subseteq AllowedFields(r)
  BY <1>1, SameFields DEF AllowedFields, BreakGlassCoversFieldApproval
<1>3. ASSUME Permits(q)
      PROVE  Permits(r)
  <2>1. RelaxedGates(q) = {}
    BY <1>1, <1>3 DEF Permits, Bound, BreakGlassSatisfies
  <2>2. Bound(r)
    BY <1>3, <2>1, SameBindingGates DEF Permits, Bound
  <2> QED  BY <1>2, <1>3, <2>2, SameHardGates DEF Permits, SameButGrant
<1>4. ASSUME Permits(r)
      PROVE  HardGates(q) /\ ~CaseAboveClearance(q)
  BY <1>4, SameHardGates, SameBindingGates DEF Permits, Bound
<1>5. \A f \in AllowedFields(r) : f \in Candidates(q) /\ Releasable(q, f)
  BY SameFields DEF AllowedFields
<1> QED  BY <1>2, <1>3, <1>4, <1>5

-----------------------------------------------------------------------------
(***************************************************************************)
(* The inductive invariant.                                                *)
(***************************************************************************)
CallFields == {"intent", "grantRef", "agreement", "card", "stage", "todo", "case",
               "incident", "grant", "approvals", "relied", "used"}

\* A call names a grant that exists, and has read one only if it names it.
GoodCall(c) ==
    /\ DOMAIN c = CallFields
    /\ c.intent \in Intents
    /\ c.grantRef # None => c.grantRef \in Grants /\ grant[c.grantRef] # None
    /\ c.stage \in Stages
    /\ "grant" \in c.todo => c.grantRef # None
    /\ c.grant # None => c.grantRef # None
    /\ c.stage \in {"COUNT", "ALERT"} \/ c.used => c.grantRef # None

CallsGood ==
    /\ DOMAIN call = Calls /\ DOMAIN unseen = Calls
    /\ \A p \in Calls : call[p] # Idle => GoodCall(call[p])

PlaceTypes ==
    /\ now \in 0..MaxTime /\ changes \in 0..MaxChanges
    /\ caseTeam \in [Askers -> CaseRoles \cup {None}]
    /\ crew \subseteq Askers /\ roster \subseteq Agencies

\* An approver holds a request of somebody else's.
RequestTypes ==
    /\ request \in [Requests -> RequestRows \cup {None}]
    /\ hand \in [Requests -> SUBSET Users]
    /\ \A r \in Requests : request[r] # None =>
            /\ request[r].approved \subseteq request[r].fields
            /\ request[r].decidedBy # request[r].by
            /\ request[r].status = "APPROVED" => request[r].expiresAt # None
    /\ \A r \in Requests : hand[r] # {} => request[r] # None /\ request[r].by \notin hand[r]

GrantTypes ==
    /\ grant \in [Grants -> GrantRows \cup {None}]
    /\ alerts \in [Grants -> Nat] /\ audited \in [Grants -> Nat]
    /\ answered \in [Grants -> Nat] /\ answered360 \in [Grants -> Nat]

TypeInv == PlaceTypes /\ RequestTypes /\ GrantTypes /\ CallsGood

LEMMA TypeInvImpliesTypeOK == TypeInv => TypeOK
BY DEF TypeInv, PlaceTypes, RequestTypes, GrantTypes, CallsGood, GoodCall, TypeOK

LEMMA TypeInvInit == Init => TypeInv
<1> SUFFICES ASSUME Init PROVE TypeInv
  OBVIOUS
<1> USE AccessAssumption DEF Init
<1>1. PlaceTypes
  BY DEF PlaceTypes, CaseRoles
<1>2. RequestTypes /\ GrantTypes /\ CallsGood
  BY DEF RequestTypes, GrantTypes, CallsGood
<1> QED  BY <1>1, <1>2 DEF TypeInv

\* A step that starts, moves or ends one call and leaves the grants in place.
LEMMA OneCall ==
    ASSUME CallsGood, NEW p \in Calls, NEW c,
           call' = [call EXCEPT ![p] = c], c # Idle => GoodCall(c),
           \A g \in Grants : grant[g] # None => grant'[g] # None,
           Watch
    PROVE  CallsGood'
<1>1. DOMAIN call' = Calls /\ DOMAIN unseen' = Calls
  BY DEF CallsGood, Watch
<1>2. ASSUME NEW q \in Calls, call'[q] # Idle
      PROVE  GoodCall(call[q])'
  BY <1>2 DEF CallsGood, GoodCall
<1> QED  BY <1>1, <1>2 DEF CallsGood

\* A step that touches no call.
LEMMA NoCallTouched ==
    ASSUME CallsGood, UNCHANGED call, Watch,
           \A g \in Grants : grant[g] # None => grant'[g] # None
    PROVE  CallsGood'
<1>1. DOMAIN call' = Calls /\ DOMAIN unseen' = Calls
  BY DEF CallsGood, Watch
<1> QED  BY <1>1 DEF CallsGood, GoodCall

\* The calls' own steps, up to the decision.
LEMMA BeginGood ==
    ASSUME TypeInv, NEW p \in Calls, NEW i \in Intents, NEW g \in Grants \cup {None},
           Begin(p, i, g)
    PROVE  CallsGood'
<1> DEFINE c == Loading([intent |-> i, grantRef |-> g, agreement |-> agreement, card |-> "CITIZEN",
                  stage |-> "LOAD", todo |-> {}, case |-> NoCase, incident |-> NoIncident,
                  grant |-> None, approvals |-> {}, relied |-> {}, used |-> FALSE], "CITIZEN")
<1>1. call' = [call EXCEPT ![p] = c] /\ Watch /\ UNCHANGED grant
  BY DEF Begin, workVars
<1>2. g # None => g \in Grants /\ grant[g] # None
  BY DEF Begin
<1>3. "grant" \in ToLoad(i, g) => g # None
  BY DEF ToLoad
<1>4. GoodCall(c)
  BY <1>2, <1>3 DEF GoodCall, Loading, CallFields, Stages
<1> QED  BY <1>1, <1>4, OneCall DEF TypeInv

LEMMA LoadGood ==
    ASSUME TypeInv, NEW p \in Calls,
           \/ LoadCase(p) \/ LoadTeam(p) \/ LoadIncident(p) \/ LoadCrew(p) \/ LoadRoster(p)
           \/ LoadGrant(p) \/ LoadApprovals(p)
    PROVE  CallsGood'
<1>0. call[p] # Idle /\ GoodCall(call[p]) /\ Watch /\ UNCHANGED grant
  BY DEF TypeInv, CallsGood, Load, LoadCase, LoadTeam, LoadIncident, LoadCrew, LoadRoster, LoadGrant,
         LoadApprovals, workVars
<1>1. ASSUME NEW what, NEW loaded, GoodCall(loaded),
             call' = [call EXCEPT ![p] = [loaded EXCEPT !.todo = @ \ {what}]]
      PROVE  CallsGood'
  <2>1. GoodCall([loaded EXCEPT !.todo = @ \ {what}])
    BY <1>1 DEF GoodCall, CallFields
  <2> QED  BY <1>0, <1>1, <2>1, OneCall DEF TypeInv
<1>2. CASE LoadCase(p)
  <2>1. GoodCall([call[p] EXCEPT !.case.status = caseStatus])
    BY <1>0 DEF GoodCall, CallFields
  <2> QED  BY <1>2, <1>1, <2>1 DEF LoadCase, Load
<1>3. CASE LoadTeam(p)
  <2>1. GoodCall([call[p] EXCEPT !.case.team = caseTeam])
    BY <1>0 DEF GoodCall, CallFields
  <2> QED  BY <1>3, <1>1, <2>1 DEF LoadTeam, Load
<1>4. CASE LoadIncident(p)
  <2>1. GoodCall([call[p] EXCEPT !.incident.status = incidentStatus])
    BY <1>0 DEF GoodCall, CallFields
  <2> QED  BY <1>4, <1>1, <2>1 DEF LoadIncident, Load
<1>5. CASE LoadCrew(p)
  <2>1. GoodCall([call[p] EXCEPT !.incident.crew = crew])
    BY <1>0 DEF GoodCall, CallFields
  <2> QED  BY <1>5, <1>1, <2>1 DEF LoadCrew, Load
<1>6. CASE LoadRoster(p)
  <2>1. GoodCall([call[p] EXCEPT !.incident.roster = roster])
    BY <1>0 DEF GoodCall, CallFields
  <2> QED  BY <1>6, <1>1, <2>1 DEF LoadRoster, Load
<1>7. CASE LoadGrant(p)
  <2>1. "grant" \in call[p].todo
    BY <1>7 DEF LoadGrant, Load
  <2>2. GoodCall([call[p] EXCEPT !.grant = GrantRow(call[p].grantRef)])
    BY <1>0, <2>1 DEF GoodCall, CallFields
  <2> QED  BY <1>7, <1>1, <2>2 DEF LoadGrant, Load
<1>8. CASE LoadApprovals(p)
  <2>1. GoodCall([call[p] EXCEPT !.approvals = ApprovalsFor(call[p])])
    BY <1>0 DEF GoodCall, CallFields
  <2> QED  BY <1>8, <1>1, <2>1 DEF LoadApprovals, Load
<1> QED  BY <1>2, <1>3, <1>4, <1>5, <1>6, <1>7, <1>8

\* An outcome that used a grant, or asks for a supervisor, is of a call that
\* named one.
LEMMA UsedIsNamed ==
    ASSUME TypeInv, NEW p \in Calls, call[p] # Idle
    PROVE  /\ Outcome(p).breakGlassUsed => call[p].grantRef # None
           /\ "NOTIFY_SUPERVISOR" \in Outcome(p).obligations => Outcome(p).breakGlassUsed
           /\ Outcome(p).breakGlassUsed \in BOOLEAN
<1>1. ASSUME Outcome(p).breakGlassUsed
      PROVE  call[p].grantRef # None
  <2>1. GrantInScope(PolicyRequest(call[p]).breakGlass, PolicyRequest(call[p]))
    BY <1>1, UsedGrantIsInScope DEF Outcome
  <2>2. call[p].grant # None
    BY <2>1 DEF GrantInScope, PolicyRequest
  <2> QED  BY <2>2 DEF TypeInv, CallsGood, GoodCall
<1>2. "NOTIFY_SUPERVISOR" \in Outcome(p).obligations => Outcome(p).breakGlassUsed
  BY DEF Outcome, Evaluate
<1>3. Outcome(p).breakGlassUsed \in BOOLEAN
  BY DEF Outcome, Evaluate, BreakGlassUsed
<1> QED  BY <1>1, <1>2, <1>3

LEMMA DecideGood ==
    ASSUME TypeInv, NEW p \in Calls, Decide(p)
    PROVE  CallsGood'
<1> DEFINE c == [Decided(call[p], IF "NOTIFY_SUPERVISOR" \in Outcome(p).obligations
                                  THEN "COUNT" ELSE "ANSWER")
                   EXCEPT !.relied = Reliance(call[p]), !.used = Outcome(p).breakGlassUsed]
<1>0. call[p] # Idle /\ GoodCall(call[p]) /\ Watch /\ UNCHANGED grant
  BY DEF TypeInv, CallsGood, Decide, Loaded, workVars
<1>1. CASE Permitted(p)
  <2>1. call' = [call EXCEPT ![p] = c]
    BY <1>1 DEF Decide
  <2>2. GoodCall(c)
    BY <1>0, UsedIsNamed DEF GoodCall, Decided, CallFields, Stages
  <2> QED  BY <1>0, <2>1, <2>2, OneCall DEF TypeInv
<1>2. CASE ~Permitted(p)
  <2>1. call' = [call EXCEPT ![p] = Idle]
    BY <1>2 DEF Decide
  <2> QED  BY <1>0, <2>1, OneCall DEF TypeInv
<1> QED  BY <1>1, <1>2

LEMMA DischargeGood ==
    ASSUME TypeInv, NEW p \in Calls, Count(p) \/ Alert(p)
    PROVE  CallsGood'
<1>0. call[p] # Idle /\ GoodCall(call[p]) /\ Watch
  BY DEF TypeInv, CallsGood, Count, Alert
<1>1. CASE Count(p)
  <2> DEFINE c == [call[p] EXCEPT !.stage = "ALERT"]
             g0 == call[p].grantRef
  <2>1. call' = [call EXCEPT ![p] = c] /\ g0 \in Grants /\ grant[g0] # None
    BY <1>0, <1>1 DEF Count, GoodCall
  <2>2. GoodCall(c)
    BY <1>0, <1>1 DEF GoodCall, CallFields, Stages, Count
  <2>3. grant[g0] \in GrantRows
    BY <2>1 DEF TypeInv, GrantTypes
  <2>4. [grant[g0] EXCEPT !.count = @ + 1] \in GrantRows
    BY <2>3 DEF GrantRows
  <2>5. \A g \in Grants : grant[g] # None => grant'[g] # None
    BY <1>1, <2>4, AccessAssumption DEF Count, TypeInv, GrantTypes
  <2> QED  BY <1>0, <2>1, <2>2, <2>5, OneCall DEF TypeInv
<1>2. CASE Alert(p)
  <2> DEFINE c == [call[p] EXCEPT !.stage = "ANSWER"]
  <2>1. call' = [call EXCEPT ![p] = c] /\ UNCHANGED grant
    BY <1>2 DEF Alert
  <2>2. GoodCall(c)
    BY <1>0 DEF GoodCall, CallFields, Stages
  <2> QED  BY <1>0, <2>1, <2>2, OneCall DEF TypeInv
<1> QED  BY <1>1, <1>2

LEMMA Answer360Good ==
    ASSUME TypeInv, NEW p \in Calls, DecideIdentity(p) \/ DecideCard(p)
    PROVE  CallsGood'
<1>0. call[p] # Idle /\ GoodCall(call[p]) /\ Watch /\ UNCHANGED grant
  BY DEF TypeInv, CallsGood, DecideIdentity, DecideCard, Loaded, workVars
<1>1. "grant" \in ToLoad(call[p].intent, call[p].grantRef) => call[p].grantRef # None
  BY DEF ToLoad
<1>2. CASE DecideIdentity(p)
  <2> DEFINE c == [Loading(call[p], "VEHICLE") EXCEPT !.relied = Reliance(call[p]),
                                                      !.used = Outcome(p).breakGlassUsed]
  <2>1. call' = [call EXCEPT ![p] = IF Permitted(p) THEN c ELSE Idle]
    BY <1>2 DEF DecideIdentity
  <2>2. GoodCall(c)
    BY <1>0, <1>1, UsedIsNamed DEF GoodCall, Loading, CallFields, Stages
  <2> QED  BY <1>0, <2>1, <2>2, OneCall DEF TypeInv
<1>3. CASE DecideCard(p)
  <2> DEFINE c == [Decided(call[p], "ANSWER") EXCEPT !.relied = @ \cup Reliance(call[p]),
                                                     !.used = @ \/ Outcome(p).breakGlassUsed]
             d == Decided(call[p], "ANSWER")
  <2>1. call' = [call EXCEPT ![p] = IF Permitted(p) THEN c ELSE d]
    BY <1>3 DEF DecideCard
  <2>2. GoodCall(c)
    BY <1>0, UsedIsNamed DEF GoodCall, Decided, CallFields, Stages
  <2>3. GoodCall(d)
    BY <1>0 DEF GoodCall, Decided, CallFields, Stages
  <2> QED  BY <1>0, <2>1, <2>2, <2>3, OneCall DEF TypeInv
<1> QED  BY <1>2, <1>3

LEMMA EndGood ==
    ASSUME TypeInv, NEW p \in Calls,
           Answer(p) \/ Answer360(p) \/ Fail(p) \/ \E r \in Requests : InsertRequest(p, r)
    PROVE  CallsGood'
<1>1. call' = [call EXCEPT ![p] = Idle] /\ UNCHANGED grant /\ Watch
  BY DEF Answer, Answer360, Fail, InsertRequest, workVars
<1> QED  BY <1>1, OneCall DEF TypeInv

\* A step that changes one request, or none, and keeps who holds it.
LEMMA OneRequest ==
    ASSUME RequestTypes, NEW r \in Requests, NEW row \in RequestRows,
           request' = [request EXCEPT ![r] = row], UNCHANGED hand,
           row.approved \subseteq row.fields, row.decidedBy # row.by,
           row.status = "APPROVED" => row.expiresAt # None,
           hand[r] # {} => row.by \notin hand[r]
    PROVE  RequestTypes'
<1> USE AccessAssumption
<1>1. row # None
  OBVIOUS
<1> QED  BY <1>1 DEF RequestTypes

LEMMA InsertedRequest ==
    ASSUME TypeInv, NEW p \in Calls, NEW r \in Requests, InsertRequest(p, r)
    PROVE  RequestTypes'
<1> DEFINE i == call[p].intent
           row == [by |-> i.user, purpose |-> i.purpose, fields |-> i.fields,
                   status |-> IF Permitted(p) /\ i.fields \subseteq Outcome(p).allowedFields
                              THEN "AUTO_DENIED" ELSE "PENDING_APPROVAL",
                   approved |-> {}, decidedBy |-> None, expiresAt |-> None]
<1>1. i \in Intents
  BY DEF InsertRequest, Loaded, TypeInv, CallsGood, GoodCall
<1>2. row \in RequestRows
  BY <1>1 DEF RequestRows, Askers, Purposes
<1>3. row.decidedBy # row.by
  BY <1>1, AccessAssumption DEF Askers
<1>4. request' = [request EXCEPT ![r] = row] /\ UNCHANGED hand /\ hand[r] = {}
  BY DEF InsertRequest, TypeInv, RequestTypes
<1>5. row.approved \subseteq row.fields /\ row.status # "APPROVED"
  OBVIOUS
<1> HIDE DEF row
<1> QED  BY <1>2, <1>3, <1>4, <1>5, OneRequest DEF TypeInv

LEMMA DecidedRequest ==
    ASSUME TypeInv, NEW u \in Users, NEW r \in Requests, NEW fields \in SUBSET Fields,
           NEW ttl \in 1..APPROVAL_MAX_TTL, WriteDecision(u, r, fields, ttl)
    PROVE  RequestTypes'
<1> DEFINE old == request[r]
           row == [old EXCEPT !.status = IF fields = {} THEN "DENIED" ELSE "APPROVED",
                              !.approved = fields, !.decidedBy = u,
                              !.expiresAt = IF fields = {} THEN None ELSE now + ttl]
<1>1. old \in RequestRows /\ u # old.by /\ fields \subseteq old.fields
  BY DEF WriteDecision, TypeInv, RequestTypes
<1>2. (IF fields = {} THEN None ELSE now + ttl) \in Nat \cup {None}
  BY AccessAssumption DEF TypeInv, PlaceTypes
<1>3. row \in RequestRows
  BY <1>1, <1>2 DEF RequestRows
<1>4. /\ row.approved = fields /\ row.fields = old.fields
      /\ row.decidedBy = u /\ row.by = old.by
      /\ row.status = "APPROVED" => fields # {}
      /\ row.expiresAt = IF fields = {} THEN None ELSE now + ttl
  BY <1>1 DEF RequestRows
<1>5. row.status = "APPROVED" => row.expiresAt # None
  BY <1>4, AccessAssumption DEF TypeInv, PlaceTypes
<1>6. row.approved \subseteq row.fields /\ row.decidedBy # row.by
  BY <1>1, <1>4
<1> DEFINE held == [hand EXCEPT ![r] = @ \ {u}]
<1>7. request' = [request EXCEPT ![r] = row] /\ hand' = held
  BY DEF WriteDecision
<1>8. \A s \in Requests : held[s] \subseteq hand[s] /\ held \in [Requests -> SUBSET Users]
  BY DEF TypeInv, RequestTypes
<1> HIDE DEF row, held
<1> QED  BY <1>1, <1>3, <1>4, <1>5, <1>6, <1>7, <1>8, AccessAssumption DEF TypeInv, RequestTypes

LEMMA HeldRequest ==
    ASSUME TypeInv, NEW u \in Users, NEW r \in Requests, ReadRequest(u, r) \/ FailDecision(u, r)
    PROVE  RequestTypes'
BY DEF ReadRequest, FailDecision, TypeInv, RequestTypes

LEMMA ExpiredRequests == TypeInv /\ ExpireRequests => RequestTypes'
<1> SUFFICES ASSUME TypeInv, ExpireRequests PROVE RequestTypes'
  OBVIOUS
<1>1. ASSUME NEW r \in Requests, RequestIsStale(r)
      PROVE  LET row == [request[r] EXCEPT !.status = "EXPIRED"] IN
             /\ row \in RequestRows
             /\ row.approved = request[r].approved /\ row.fields = request[r].fields
             /\ row.decidedBy = request[r].decidedBy /\ row.by = request[r].by
             /\ row.status = "EXPIRED"
  <2>1. request[r] \in RequestRows
    BY <1>1 DEF RequestIsStale, TypeInv, RequestTypes
  <2> QED  BY <2>1 DEF RequestRows
<1>2. /\ request' = [r \in Requests |->
            IF RequestIsStale(r) THEN [request[r] EXCEPT !.status = "EXPIRED"] ELSE request[r]]
      /\ UNCHANGED hand
  BY DEF ExpireRequests
<1>3. \A r \in Requests : request[r] = None => ~RequestIsStale(r)
  BY DEF RequestIsStale
<1> QED  BY <1>1, <1>2, <1>3, AccessAssumption DEF TypeInv, RequestTypes

\* Steps that write a grant keep it a grant, and every other one as it is.
LEMMA GrantWritten ==
    ASSUME TypeInv,
           \/ \E p \in Calls : Count(p)
           \/ \E u \in Users, g \in Grants :
                \/ ReviewBreakGlass(u, g)
                \/ \E gates \in GateSets, ttl \in 1..BREAK_GLASS_MAX_TTL :
                     InitiateBreakGlass(u, g, gates, ttl)
           \/ ExpireGrants
    PROVE  /\ grant' \in [Grants -> GrantRows \cup {None}]
           /\ \A g \in Grants : grant[g] # None => grant'[g] # None
<1> USE AccessAssumption
<1>1. ASSUME NEW g \in Grants, NEW row \in GrantRows, grant' = [grant EXCEPT ![g] = row]
      PROVE  /\ grant' \in [Grants -> GrantRows \cup {None}]
             /\ \A h \in Grants : grant[h] # None => grant'[h] # None
  BY <1>1 DEF TypeInv, GrantTypes
<1>2. ASSUME NEW p \in Calls, Count(p)
      PROVE  /\ grant' \in [Grants -> GrantRows \cup {None}]
             /\ \A h \in Grants : grant[h] # None => grant'[h] # None
  <2> DEFINE g == call[p].grantRef
             row == [grant[g] EXCEPT !.count = @ + 1]
  <2>1. g \in Grants /\ grant[g] # None
    BY <1>2 DEF Count, TypeInv, CallsGood, GoodCall
  <2>2. grant[g] \in GrantRows
    BY <2>1 DEF TypeInv, GrantTypes
  <2>3. row \in GrantRows
    BY <2>2 DEF GrantRows
  <2>4. grant' = [grant EXCEPT ![g] = row]
    BY <1>2 DEF Count
  <2> QED  BY <1>1, <2>1, <2>3, <2>4
<1>3. ASSUME NEW u \in Users, NEW g \in Grants, ReviewBreakGlass(u, g)
      PROVE  /\ grant' \in [Grants -> GrantRows \cup {None}]
             /\ \A h \in Grants : grant[h] # None => grant'[h] # None
  <2>0. PICK verdict \in Verdicts : grant' = [grant EXCEPT ![g].status = verdict]
    BY <1>3 DEF ReviewBreakGlass
  <2> DEFINE row == [grant[g] EXCEPT !.status = verdict]
  <2>1. grant[g] \in GrantRows
    BY <1>3 DEF ReviewBreakGlass, TypeInv, GrantTypes
  <2>2. row \in GrantRows
    BY <2>1 DEF GrantRows
  <2>3. grant' = [grant EXCEPT ![g] = row]
    BY <2>0
  <2> QED  BY <1>1, <2>2, <2>3
<1>4. ASSUME NEW u \in Users, NEW g \in Grants, NEW gates \in GateSets,
             NEW ttl \in 1..BREAK_GLASS_MAX_TTL, InitiateBreakGlass(u, g, gates, ttl)
      PROVE  /\ grant' \in [Grants -> GrantRows \cup {None}]
             /\ \A h \in Grants : grant[h] # None => grant'[h] # None
  <2> DEFINE row == [userId |-> u, type |-> "CITIZEN", gates |-> gates, status |-> "ACTIVE",
                     expiresAt |-> now + ttl, count |-> 0]
  <2>1. now + ttl \in Nat
    BY DEF TypeInv, PlaceTypes
  <2>2. row \in GrantRows
    BY <2>1 DEF GrantRows
  <2>3. grant' = [grant EXCEPT ![g] = row]
    BY <1>4 DEF InitiateBreakGlass
  <2> QED  BY <1>1, <2>2, <2>3
<1>5. ASSUME ExpireGrants
      PROVE  /\ grant' \in [Grants -> GrantRows \cup {None}]
             /\ \A h \in Grants : grant[h] # None => grant'[h] # None
  <2>1. ASSUME NEW g \in Grants, GrantIsStale(g)
        PROVE  [grant[g] EXCEPT !.status = "EXPIRED"] \in GrantRows
    <3>1. grant[g] \in GrantRows
      BY <2>1 DEF GrantIsStale, TypeInv, GrantTypes
    <3> QED  BY <3>1 DEF GrantRows
  <2> QED  BY <1>5, <2>1 DEF ExpireGrants, TypeInv, GrantTypes
<1> QED  BY <1>2, <1>3, <1>4, <1>5

LEMMA GrantTypesStep == TypeInv /\ [Next]_vars => GrantTypes'
<1> SUFFICES ASSUME TypeInv, [Next]_vars PROVE GrantTypes'
  OBVIOUS
<1> USE AccessAssumption
<1>1. ASSUME NEW p \in Calls,
             \/ \E i \in Intents, g \in Grants \cup {None} : Begin(p, i, g)
             \/ LoadCase(p) \/ LoadTeam(p) \/ LoadIncident(p) \/ LoadCrew(p) \/ LoadRoster(p)
             \/ LoadGrant(p) \/ LoadApprovals(p)
             \/ DecideIdentity(p) \/ DecideCard(p) \/ Fail(p)
             \/ \E r \in Requests : InsertRequest(p, r)
      PROVE  UNCHANGED <<grant, alerts, historyVars>>
  BY <1>1 DEF Begin, LoadCase, LoadTeam, LoadIncident, LoadCrew, LoadRoster, LoadGrant,
              LoadApprovals, Load, DecideIdentity, DecideCard, Fail, InsertRequest, workVars
<1>2. ASSUME UNCHANGED <<grant, alerts, historyVars>>
      PROVE  GrantTypes'
  BY <1>2 DEF TypeInv, GrantTypes, historyVars
<1>3. ASSUME grant' \in [Grants -> GrantRows \cup {None}], UNCHANGED <<alerts, historyVars>>
      PROVE  GrantTypes'
  BY <1>3 DEF TypeInv, GrantTypes, historyVars
<1>4. ASSUME NEW p \in Calls, Decide(p)
      PROVE  GrantTypes'
  <2>1. UNCHANGED <<grant, alerts, answered, answered360>>
    BY <1>4 DEF Decide, workVars
  <2>2. \/ audited' = audited
        \/ audited' = [audited EXCEPT ![call[p].grantRef] = @ + 1]
    BY <1>4 DEF Decide
  <2> QED  BY <2>1, <2>2 DEF TypeInv, GrantTypes
<1>5. ASSUME NEW p \in Calls, Alert(p) \/ Answer(p) \/ Answer360(p)
      PROVE  GrantTypes'
  <2>1. UNCHANGED <<grant, audited>>
    BY <1>5 DEF Alert, Answer, Answer360, workVars, historyVars
  <2>2. /\ alerts' = alerts \/ alerts' = [alerts EXCEPT ![call[p].grantRef] = @ + 1]
        /\ answered' = answered \/ answered' = [answered EXCEPT ![call[p].grantRef] = @ + 1]
        /\ \/ answered360' = answered360
           \/ answered360' = [answered360 EXCEPT ![call[p].grantRef] = @ + 1]
    BY <1>5 DEF Alert, Answer, Answer360, workVars, historyVars
  <2> QED  BY <2>1, <2>2 DEF TypeInv, GrantTypes
<1>6. ASSUME NEW p \in Calls, Count(p)
      PROVE  GrantTypes'
  BY <1>6, <1>3, GrantWritten DEF Count
<1>7. ASSUME NEW u \in Users, NEW r \in Requests, Decides(u, r)
      PROVE  GrantTypes'
  BY <1>7, <1>2 DEF Decides, ReadRequest, WriteDecision, FailDecision
<1>8. ASSUME NEW u \in Users, NEW g \in Grants, BreakGlass(u, g)
      PROVE  GrantTypes'
  BY <1>8, <1>3, GrantWritten DEF BreakGlass, InitiateBreakGlass, ReviewBreakGlass
<1>9. CASE ExpireGrants
  BY <1>9, <1>3, GrantWritten DEF ExpireGrants
<1>10. CASE ExpireRequests \/ Changes \/ Tick \/ UNCHANGED vars
  BY <1>10, <1>2 DEF ExpireRequests, Changes, CaseMoves, JoinsCase, IncidentMoves, JoinsIncident,
                     AgreementChanges, Elsewhere, Tick, vars, workVars
<1> QED  BY <1>1, <1>2, <1>4, <1>5, <1>6, <1>7, <1>8, <1>9, <1>10 DEF Next, Asks

LEMMA RequestTypesStep == TypeInv /\ [Next]_vars => RequestTypes'
<1> SUFFICES ASSUME TypeInv, [Next]_vars PROVE RequestTypes'
  OBVIOUS
<1>1. ASSUME UNCHANGED <<request, hand>>
      PROVE  RequestTypes'
  BY <1>1 DEF TypeInv, RequestTypes
<1>2. ASSUME NEW p \in Calls, Asks(p)
      PROVE  RequestTypes'
  <2>1. CASE \E r \in Requests : InsertRequest(p, r)
    BY <2>1, InsertedRequest
  <2>2. CASE ~ \E r \in Requests : InsertRequest(p, r)
    BY <1>2, <2>2, <1>1
       DEF Asks, Begin, LoadCase, LoadTeam, LoadIncident, LoadCrew, LoadRoster, LoadGrant,
           LoadApprovals, Load, Decide, Count, Alert, Answer, DecideIdentity, DecideCard,
           Answer360, Fail, workVars
  <2> QED  BY <2>1, <2>2
<1>3. ASSUME NEW u \in Users, NEW r \in Requests, Decides(u, r)
      PROVE  RequestTypes'
  BY <1>3, DecidedRequest, HeldRequest DEF Decides
<1>4. ASSUME NEW u \in Users, NEW g \in Grants, BreakGlass(u, g)
      PROVE  RequestTypes'
  BY <1>4, <1>1 DEF BreakGlass, InitiateBreakGlass, ReviewBreakGlass
<1>5. CASE ExpireGrants \/ Changes \/ Tick \/ UNCHANGED vars
  BY <1>5, <1>1 DEF ExpireGrants, Changes, CaseMoves, JoinsCase, IncidentMoves, JoinsIncident,
                    AgreementChanges, Elsewhere, Tick, vars, workVars
<1> QED  BY <1>2, <1>3, <1>4, <1>5, ExpiredRequests DEF Next

LEMMA PlaceTypesStep == TypeInv /\ [Next]_vars => PlaceTypes'
<1> SUFFICES ASSUME TypeInv, [Next]_vars PROVE PlaceTypes'
  OBVIOUS
<1> USE AccessAssumption
<1>1. ASSUME UNCHANGED <<now, placeVars>>
      PROVE  PlaceTypes'
  BY <1>1 DEF TypeInv, PlaceTypes, placeVars
<1>2. ASSUME NEW p \in Calls, Asks(p)
      PROVE  PlaceTypes'
  BY <1>2, <1>1
     DEF Asks, Begin, LoadCase, LoadTeam, LoadIncident, LoadCrew, LoadRoster, LoadGrant,
         LoadApprovals, Load, Decide, Count, Alert, Answer, DecideIdentity, DecideCard,
         Answer360, Fail, InsertRequest
<1>3. ASSUME NEW u \in Users, NEW r \in Requests, Decides(u, r)
      PROVE  PlaceTypes'
  BY <1>3, <1>1 DEF Decides, ReadRequest, WriteDecision, FailDecision
<1>4. ASSUME NEW u \in Users, NEW g \in Grants, BreakGlass(u, g)
      PROVE  PlaceTypes'
  BY <1>4, <1>1 DEF BreakGlass, InitiateBreakGlass, ReviewBreakGlass
<1>5. CASE Changes
  BY <1>5 DEF Changes, CaseMoves, JoinsCase, IncidentMoves, JoinsIncident, AgreementChanges,
              Elsewhere, TypeInv, PlaceTypes
<1>6. CASE Tick
  BY <1>6 DEF Tick, TypeInv, PlaceTypes, placeVars
<1>7. CASE ExpireGrants \/ ExpireRequests \/ UNCHANGED vars
  BY <1>7, <1>1 DEF ExpireGrants, ExpireRequests, vars
<1> QED  BY <1>2, <1>3, <1>4, <1>5, <1>6, <1>7 DEF Next

LEMMA CallsGoodStep == TypeInv /\ [Next]_vars => CallsGood'
<1> SUFFICES ASSUME TypeInv, [Next]_vars PROVE CallsGood'
  OBVIOUS
<1>1. ASSUME NEW p \in Calls, Asks(p)
      PROVE  CallsGood'
  BY <1>1, BeginGood, LoadGood, DecideGood, DischargeGood, Answer360Good, EndGood DEF Asks
<1>2. ASSUME UNCHANGED call, Watch, UNCHANGED grant
      PROVE  CallsGood'
  BY <1>2, NoCallTouched DEF TypeInv
<1>3. ASSUME NEW u \in Users, NEW r \in Requests, Decides(u, r)
      PROVE  CallsGood'
  BY <1>3, <1>2 DEF Decides, ReadRequest, WriteDecision, FailDecision
<1>4. ASSUME NEW u \in Users, NEW g \in Grants, BreakGlass(u, g)
      PROVE  CallsGood'
  <2>1. UNCHANGED call /\ Watch
    BY <1>4 DEF BreakGlass, InitiateBreakGlass, ReviewBreakGlass
  <2>2. \A h \in Grants : grant[h] # None => grant'[h] # None
    BY <1>4, GrantWritten DEF BreakGlass
  <2> QED  BY <2>1, <2>2, NoCallTouched DEF TypeInv
<1>5. CASE ExpireGrants
  BY <1>5, GrantWritten, NoCallTouched DEF ExpireGrants, TypeInv
<1>6. CASE ExpireRequests \/ Changes \/ Tick
  BY <1>6, <1>2 DEF ExpireRequests, Changes, CaseMoves, JoinsCase, IncidentMoves, JoinsIncident,
                    AgreementChanges, Elsewhere, Tick, workVars
<1>7. CASE UNCHANGED vars
  BY <1>7 DEF vars, workVars, TypeInv, CallsGood, GoodCall
<1> QED  BY <1>1, <1>3, <1>4, <1>5, <1>6, <1>7 DEF Next

LEMMA TypeInvStep == TypeInv /\ [Next]_vars => TypeInv'
BY PlaceTypesStep, RequestTypesStep, GrantTypesStep, CallsGoodStep DEF TypeInv

LEMMA TypeInvariant == Spec => []TypeInv
BY TypeInvInit, TypeInvStep, PTL DEF Spec

\* Every table holds what its columns and CHECKs allow, a decision is of
\* somebody else and approves no more than was asked for (decide), and a call
\* that used a grant named it.
THEOREM TypeCorrect == Spec => []TypeOK
BY TypeInvariant, TypeInvImpliesTypeOK, PTL

-----------------------------------------------------------------------------
(***************************************************************************)
(* What was decided stays decided.                                         *)
(***************************************************************************)

\* Nothing makes a reviewed grant usable again, whatever is under way: the
\* counts of calls that still rely on it leave its status alone, and a later
\* review leaves another verdict
\* (reviewBreakGlass, expireStaleGrants, dischargeObligations).
THEOREM ReviewIsFinal == Spec => ReviewStands
<1> DEFINE Stays(g) == Reviewed(g)' /\ grant'[g].expiresAt = grant[g].expiresAt
<1>1. ASSUME TypeInv, [Next]_vars, NEW g \in Grants, Reviewed(g)
      PROVE  Stays(g)
  <2> USE <1>1 DEF Reviewed
  <2>0. /\ grant[g] \in GrantRows /\ DOMAIN grant = Grants
        /\ grant[g].status \notin {"ACTIVE", "EXPIRED"}
    BY AccessAssumption DEF TypeInv, GrantTypes
  <2>1. CASE UNCHANGED grant
    BY <2>1
  <2>2. ASSUME NEW p \in Calls, Count(p)
        PROVE  Stays(g)
    BY <2>0, <2>2, GrantWritten DEF Count, GrantRows
  <2>3. ASSUME NEW u \in Users, NEW h \in Grants, BreakGlass(u, h)
        PROVE  Stays(g)
    BY <2>0, <2>3, GrantWritten DEF BreakGlass, InitiateBreakGlass, ReviewBreakGlass, GrantRows
  <2>4. CASE ExpireGrants
    BY <2>0, <2>4, GrantWritten DEF ExpireGrants, GrantIsStale
  <2>5. ASSUME NEW p \in Calls, Asks(p), ~Count(p)
        PROVE  UNCHANGED grant
    BY <2>5 DEF Asks, Begin, LoadCase, LoadTeam, LoadIncident, LoadCrew, LoadRoster, LoadGrant,
                LoadApprovals, Load, Decide, Alert, Answer, DecideIdentity, DecideCard,
                Answer360, Fail, InsertRequest, workVars
  <2>6. ASSUME NEW u \in Users, NEW r \in Requests, Decides(u, r)
        PROVE  UNCHANGED grant
    BY <2>6 DEF Decides, ReadRequest, WriteDecision, FailDecision
  <2>7. CASE ExpireRequests \/ Changes \/ Tick \/ UNCHANGED vars
    BY <2>1, <2>7 DEF ExpireRequests, Changes, CaseMoves, JoinsCase, IncidentMoves,
                      JoinsIncident, AgreementChanges, Elsewhere, Tick, vars, workVars
  <2> QED  BY <2>1, <2>2, <2>3, <2>4, <2>5, <2>6, <2>7 DEF Next
<1>2. TypeInv /\ [Next]_vars =>
        [\A g \in Grants : Reviewed(g)
            => Reviewed(g)' /\ grant'[g].expiresAt = grant[g].expiresAt]_vars
  BY <1>1
<1> QED  BY <1>2, TypeInvariant, PTL DEF Spec, ReviewStands

\* What comes after the first decision on a request: its expiry, or the whole
\* decision of an approver who had read the request before, each of them once
\* (decide).
THEOREM DecisionIsFinal == Spec => DecisionStands
<1> DEFINE Rewritten(r, by) ==
             /\ by \in (hand[r] \ hand'[r]) \ {request[r].by}
             /\ \E fields \in SUBSET request[r].fields :
                  request'[r] = [request[r] EXCEPT
                     !.status = IF fields = {} THEN "DENIED" ELSE "APPROVED",
                     !.approved = fields, !.decidedBy = by,
                     !.expiresAt = request'[r].expiresAt]
           Stays(r) ==
             /\ hand'[r] \subseteq hand[r]
             /\ \/ request'[r] = request[r]
                \/ /\ request[r].status = "APPROVED" /\ request[r].expiresAt <= now
                   /\ request'[r] = [request[r] EXCEPT !.status = "EXPIRED"]
                \/ Rewritten(r, request'[r].decidedBy)
<1>1. ASSUME TypeInv, [Next]_vars, NEW r \in Requests,
             request[r] # None, request[r].status \notin Undecided
      PROVE  Stays(r)
  <2> USE <1>1
  <2>0. DOMAIN request = Requests /\ DOMAIN hand = Requests
    BY DEF TypeInv, RequestTypes
  <2>1. CASE UNCHANGED <<request, hand>>
    BY <2>1
  <2>2. ASSUME NEW p \in Calls, NEW s \in Requests, InsertRequest(p, s)
        PROVE  Stays(r)
    <3>1. s # r
      BY <2>2 DEF InsertRequest
    <3>2. request'[r] = request[r] /\ hand' = hand
      BY <2>0, <2>2, <3>1 DEF InsertRequest
    <3> QED  BY <3>2
  <2>3. ASSUME NEW u \in Users, NEW s \in Requests, Decides(u, s), s # r
        PROVE  Stays(r)
    BY <2>0, <2>3 DEF Decides, ReadRequest, WriteDecision, FailDecision
  <2>8. ASSUME NEW u \in Users, FailDecision(u, r)
        PROVE  Stays(r)
    BY <2>0, <2>8 DEF FailDecision
  <2>9. ASSUME NEW u \in Users, NEW fields \in SUBSET Fields, NEW ttl \in 1..APPROVAL_MAX_TTL,
               WriteDecision(u, r, fields, ttl)
        PROVE  Stays(r)
    <3> DEFINE until == IF fields = {} THEN None ELSE now + ttl
               row == [request[r] EXCEPT
                         !.status = IF fields = {} THEN "DENIED" ELSE "APPROVED",
                         !.approved = fields, !.decidedBy = u, !.expiresAt = until]
    <3>1. request[r] \in RequestRows
      BY DEF TypeInv, RequestTypes
    <3>2. request' = [request EXCEPT ![r] = row]
      BY <2>0, <2>9 DEF WriteDecision
    <3>3. row.decidedBy = u /\ row.expiresAt = until
      BY <3>1 DEF RequestRows
    <3> HIDE DEF until
    <3>4. u \in hand[r] \ hand'[r] /\ hand'[r] \subseteq hand[r] /\ u # request[r].by
      BY <2>0, <2>9 DEF WriteDecision, TypeInv, RequestTypes
    <3>5. request'[r] = row
      BY <2>0, <3>2
    <3>6. fields \in SUBSET request[r].fields
      BY <2>9 DEF WriteDecision
    <3>7. Rewritten(r, u)
      BY <3>3, <3>4, <3>5, <3>6
    <3> QED  BY <3>3, <3>4, <3>5, <3>7
  <2>4. CASE ExpireRequests
    BY <2>4 DEF ExpireRequests, RequestIsStale
  <2>5. ASSUME NEW p \in Calls, Asks(p), ~ \E s \in Requests : InsertRequest(p, s)
        PROVE  UNCHANGED <<request, hand>>
    BY <2>5 DEF Asks, Begin, LoadCase, LoadTeam, LoadIncident, LoadCrew, LoadRoster, LoadGrant,
                LoadApprovals, Load, Decide, Count, Alert, Answer, DecideIdentity, DecideCard,
                Answer360, Fail, workVars
  <2>6. ASSUME NEW u \in Users, NEW g \in Grants, BreakGlass(u, g)
        PROVE  UNCHANGED <<request, hand>>
    BY <2>6 DEF BreakGlass, InitiateBreakGlass, ReviewBreakGlass
  <2>7. CASE ExpireGrants \/ Changes \/ Tick \/ UNCHANGED vars
    BY <2>1, <2>7 DEF ExpireGrants, Changes, CaseMoves, JoinsCase, IncidentMoves,
                      JoinsIncident, AgreementChanges, Elsewhere, Tick, vars, workVars
  <2>10. ASSUME NEW u \in Users, Decides(u, r)
         PROVE  Stays(r)
    BY <2>8, <2>9, <2>10 DEF Decides, ReadRequest
  <2> QED  BY <2>1, <2>2, <2>3, <2>4, <2>5, <2>6, <2>7, <2>10 DEF Next
<1>2. TypeInv /\ [Next]_vars =>
        [\A r \in Requests :
            request[r] # None /\ request[r].status \notin Undecided => Stays(r)]_vars
  BY <1>1
<1> QED  BY <1>2, TypeInvariant, PTL DEF Spec, DecisionStands

\* RulingsStand of Access: the reviewer's and the approver's.
THEOREM RulingsAreKept == Spec => RulingsStand
BY DecisionIsFinal, ReviewIsFinal DEF RulingsStand

-----------------------------------------------------------------------------
(***************************************************************************)
(* Every use of a grant in a view is audited, counted and alerted before   *)
(* it is answered.  The invariant adds the calls on their way from one of  *)
(* these to the next.                                                      *)
(***************************************************************************)
At(g, stage)  == {p \in Calls : call[p] # Idle /\ call[p].grantRef = g /\ call[p].stage = stage}
Answering(g)  == {p \in At(g, "ANSWER") : call[p].intent.op = "VIEW" /\ call[p].used}

UsesOf(g) ==
    /\ CountOf(g) + Cardinality(At(g, "COUNT")) <= audited[g]
    /\ alerts[g] + Cardinality(At(g, "ALERT")) <= CountOf(g)
    /\ answered[g] + Cardinality(Answering(g)) <= alerts[g]

UsesInv == \A g \in Grants : UsesOf(g)

LEMMA UsesAreFinite ==
    ASSUME NEW g
    PROVE  /\ IsFiniteSet(At(g, "COUNT")) /\ IsFiniteSet(At(g, "ALERT"))
           /\ IsFiniteSet(Answering(g))
           /\ Cardinality(At(g, "COUNT")) \in Nat /\ Cardinality(At(g, "ALERT")) \in Nat
           /\ Cardinality(Answering(g)) \in Nat
<1>1. At(g, "COUNT") \subseteq Calls /\ At(g, "ALERT") \subseteq Calls /\ Answering(g) \subseteq Calls
  BY DEF At, Answering
<1> QED  BY <1>1, AccessAssumption, FS_Subset, FS_CardinalityType

LEMMA CountIsNat ==
    ASSUME GrantTypes, NEW g \in Grants
    PROVE  /\ CountOf(g) \in Nat /\ alerts[g] \in Nat /\ audited[g] \in Nat /\ answered[g] \in Nat
BY DEF GrantTypes, GrantRows, CountOf

LEMMA UsesImplyOrder == TypeInv /\ UsesInv => CountedBeforeAnswered
<1> SUFFICES ASSUME TypeInv, UsesInv, NEW g \in Grants
             PROVE  answered[g] <= alerts[g] /\ alerts[g] <= CountOf(g) /\ CountOf(g) <= audited[g]
  BY DEF CountedBeforeAnswered, CountOf
<1> QED  BY UsesAreFinite, CountIsNat DEF TypeInv, UsesInv, UsesOf

LEMMA UsesInit == Init => UsesInv
<1> SUFFICES ASSUME Init, NEW g \in Grants PROVE UsesOf(g)
  BY DEF UsesInv
<1>1. At(g, "COUNT") = {} /\ At(g, "ALERT") = {} /\ Answering(g) = {}
  BY DEF Init, At, Answering
<1>2. CountOf(g) = 0 /\ alerts[g] = 0 /\ audited[g] = 0 /\ answered[g] = 0
  BY DEF Init, CountOf
<1> QED  BY <1>1, <1>2, FS_EmptySet DEF UsesOf

\* A step that brings no call nearer to its answer.
LEMMA NoUse ==
    ASSUME TypeInv, TypeInv', UsesInv,
           \A g \in Grants : /\ At(g, "COUNT")' \subseteq At(g, "COUNT")
                             /\ At(g, "ALERT")' \subseteq At(g, "ALERT")
                             /\ Answering(g)' \subseteq Answering(g)
                             /\ CountOf(g)' = CountOf(g) /\ alerts'[g] = alerts[g]
                             /\ audited'[g] = audited[g] /\ answered'[g] = answered[g]
    PROVE  UsesInv'
<1> SUFFICES ASSUME NEW g \in Grants PROVE UsesOf(g)'
  BY DEF UsesInv
<1>1. /\ Cardinality(At(g, "COUNT")') <= Cardinality(At(g, "COUNT"))
      /\ Cardinality(At(g, "COUNT")') \in Nat
  BY UsesAreFinite, FS_Subset, FS_CardinalityType
<1>2. /\ Cardinality(At(g, "ALERT")') <= Cardinality(At(g, "ALERT"))
      /\ Cardinality(At(g, "ALERT")') \in Nat
  BY UsesAreFinite, FS_Subset, FS_CardinalityType
<1>3. /\ Cardinality(Answering(g)') <= Cardinality(Answering(g))
      /\ Cardinality(Answering(g)') \in Nat
  BY UsesAreFinite, FS_Subset, FS_CardinalityType
<1> QED  BY <1>1, <1>2, <1>3, UsesAreFinite, CountIsNat DEF TypeInv, UsesInv, UsesOf

\* What one call's step does to the sets.
LEMMA OneMoves ==
    ASSUME TypeInv, NEW p \in Calls, NEW c, call' = [call EXCEPT ![p] = c], NEW g, NEW stage
    PROVE  /\ At(g, stage)' = IF c # Idle /\ c.grantRef = g /\ c.stage = stage
                              THEN At(g, stage) \cup {p} ELSE At(g, stage) \ {p}
           /\ Answering(g)' = IF c # Idle /\ c.grantRef = g /\ c.stage = "ANSWER"
                                 /\ c.intent.op = "VIEW" /\ c.used
                              THEN Answering(g) \cup {p} ELSE Answering(g) \ {p}
BY DEF TypeInv, CallsGood, At, Answering

LEMMA UseDecided ==
    ASSUME TypeInv, TypeInv', UsesInv, NEW p \in Calls, Decide(p)
    PROVE  UsesInv'
<1> DEFINE notify == "NOTIFY_SUPERVISOR" \in Outcome(p).obligations
           used == Outcome(p).breakGlassUsed
           c == [Decided(call[p], IF notify THEN "COUNT" ELSE "ANSWER")
                   EXCEPT !.relied = Reliance(call[p]), !.used = used]
           d == IF Permitted(p) THEN c ELSE Idle
<1>1. /\ call' = [call EXCEPT ![p] = d]
      /\ audited' = IF Permitted(p) /\ used
                    THEN [audited EXCEPT ![call[p].grantRef] = @ + 1] ELSE audited
      /\ UNCHANGED <<grant, alerts, answered>>
  BY DEF Decide, workVars
<1>2. notify <=> used
  BY DEF Outcome, Evaluate
<1>3. call[p] # Idle /\ call[p].stage = "LOAD" /\ DOMAIN call[p] = CallFields
  BY DEF Decide, Loaded, TypeInv, CallsGood, GoodCall
<1>4. /\ c.grantRef = call[p].grantRef /\ c.used = used
      /\ c.stage = IF notify THEN "COUNT" ELSE "ANSWER"
  BY <1>3 DEF Decided, CallFields
<1>5. /\ d # Idle => Permitted(p) /\ d = c
      /\ ~Permitted(p) => d = Idle
  OBVIOUS
<1> HIDE DEF c, d, notify, used
<1> SUFFICES ASSUME NEW g \in Grants PROVE UsesOf(g)'
  BY DEF UsesInv
<1>m. /\ At(g, "COUNT")' = IF d # Idle /\ d.grantRef = g /\ d.stage = "COUNT"
                           THEN At(g, "COUNT") \cup {p} ELSE At(g, "COUNT")
      /\ At(g, "ALERT")' = IF d # Idle /\ d.grantRef = g /\ d.stage = "ALERT"
                           THEN At(g, "ALERT") \cup {p} ELSE At(g, "ALERT")
      /\ Answering(g)' = IF d # Idle /\ d.grantRef = g /\ d.stage = "ANSWER"
                            /\ d.intent.op = "VIEW" /\ d.used
                         THEN Answering(g) \cup {p} ELSE Answering(g)
  <2>1. p \notin At(g, "COUNT") /\ p \notin At(g, "ALERT") /\ p \notin Answering(g)
    BY <1>3 DEF At, Answering
  <2>2. /\ At(g, "COUNT")' = IF d # Idle /\ d.grantRef = g /\ d.stage = "COUNT"
                             THEN At(g, "COUNT") \cup {p} ELSE At(g, "COUNT") \ {p}
        /\ At(g, "ALERT")' = IF d # Idle /\ d.grantRef = g /\ d.stage = "ALERT"
                             THEN At(g, "ALERT") \cup {p} ELSE At(g, "ALERT") \ {p}
    BY <1>1 DEF TypeInv, CallsGood, At
  <2>3. Answering(g)' = IF d # Idle /\ d.grantRef = g /\ d.stage = "ANSWER"
                            /\ d.intent.op = "VIEW" /\ d.used
                         THEN Answering(g) \cup {p} ELSE Answering(g) \ {p}
    BY <1>1, OneMoves
  <2>4. /\ At(g, "COUNT") \ {p} = At(g, "COUNT") /\ At(g, "ALERT") \ {p} = At(g, "ALERT")
        /\ Answering(g) \ {p} = Answering(g)
    BY <2>1
  <2> QED  BY <2>2, <2>3, <2>4
<1>6. Answering(g)' = Answering(g) /\ At(g, "ALERT")' = At(g, "ALERT")
  <2>1. ~ (d # Idle /\ d.stage = "ANSWER" /\ d.used) /\ ~ (d # Idle /\ d.stage = "ALERT")
    BY <1>2, <1>4, <1>5
  <2> QED  BY <1>m, <2>1
<1>7. CASE Permitted(p) /\ used /\ call[p].grantRef = g
  <2>1. Cardinality(At(g, "COUNT")') = Cardinality(At(g, "COUNT")) + 1
          \/ Cardinality(At(g, "COUNT")') = Cardinality(At(g, "COUNT"))
    BY <1>m, UsesAreFinite, FS_AddElement
  <2>2. audited'[g] = audited[g] + 1
    BY <1>1, <1>7 DEF TypeInv, GrantTypes
  <2> QED  BY <1>1, <1>6, <2>1, <2>2, UsesAreFinite, CountIsNat
           DEF TypeInv, UsesInv, UsesOf, CountOf
<1>8. CASE ~ (Permitted(p) /\ used /\ call[p].grantRef = g)
  <2>1. At(g, "COUNT")' = At(g, "COUNT")
    <3>1. ~ (d # Idle /\ d.grantRef = g /\ d.stage = "COUNT")
      BY <1>2, <1>4, <1>5, <1>8
    <3> QED  BY <1>m, <3>1
  <2>2. audited'[g] = audited[g]
    BY <1>1, <1>8 DEF TypeInv, GrantTypes
  <2> QED  BY <1>1, <1>6, <2>1, <2>2 DEF UsesInv, UsesOf, CountOf
<1> QED  BY <1>7, <1>8

LEMMA UseDischarged ==
    ASSUME TypeInv, TypeInv', UsesInv, NEW p \in Calls, Count(p) \/ Alert(p) \/ Answer(p)
    PROVE  UsesInv'
<1> DEFINE b == call[p].grantRef
<1>0. /\ call[p] # Idle /\ DOMAIN call[p] = CallFields /\ DOMAIN call = Calls
      /\ call[p].stage \in {"COUNT", "ALERT"} \/ call[p].used => b \in Grants /\ grant[b] # None
  BY DEF Count, Alert, Answer, TypeInv, CallsGood, GoodCall
<1> SUFFICES ASSUME NEW g \in Grants PROVE UsesOf(g)'
  BY DEF UsesInv
<1>1. /\ CountOf(g) \in Nat /\ alerts[g] \in Nat /\ audited[g] \in Nat /\ answered[g] \in Nat
      /\ CountOf(g)' \in Nat /\ alerts'[g] \in Nat /\ audited'[g] \in Nat /\ answered'[g] \in Nat
  BY DEF TypeInv, GrantTypes, GrantRows, CountOf
<1>2. CASE Count(p)
  <2> DEFINE c == [call[p] EXCEPT !.stage = "ALERT"]
  <2>0. call' = [call EXCEPT ![p] = c] /\ c.grantRef = b /\ c.stage = "ALERT"
    BY <1>0, <1>2 DEF Count, CallFields
  <2> HIDE DEF c
  <2>1. /\ UNCHANGED <<alerts, audited, answered>>
        /\ At(g, "COUNT")' = At(g, "COUNT") \ {p}
        /\ \/ b = g /\ At(g, "ALERT")' = At(g, "ALERT") \cup {p}
           \/ At(g, "ALERT")' = At(g, "ALERT")
        /\ Answering(g)' = Answering(g)
        /\ p \in At(g, "COUNT") <=> b = g
    <3>1. At(g, "COUNT")' = At(g, "COUNT") \ {p} /\ (p \in At(g, "COUNT") <=> b = g)
      BY <1>0, <1>2, <2>0 DEF Count, At
    <3>2. p \notin At(g, "ALERT") /\ p \notin Answering(g)
      BY <1>2 DEF Count, At, Answering
    <3>3. \/ b = g /\ At(g, "ALERT")' = At(g, "ALERT") \cup {p}
          \/ At(g, "ALERT")' = At(g, "ALERT")
      BY <1>0, <2>0, <3>2 DEF At
    <3>4. Answering(g)' = Answering(g)
      BY <1>0, <2>0, <3>2 DEF At, Answering
    <3> QED  BY <1>2, <3>1, <3>3, <3>4 DEF Count, historyVars
  <2>2. CountOf(g)' = IF b = g THEN CountOf(g) + 1 ELSE CountOf(g)
    <3>1. b \in Grants /\ grant[b] # None /\ grant[b] \in GrantRows
      BY <1>0, <1>2 DEF Count, TypeInv, GrantTypes
    <3>2. grant' = [grant EXCEPT ![b].count = @ + 1] /\ DOMAIN grant = Grants
      BY <1>2 DEF Count, TypeInv, GrantTypes
    <3>3. [grant[b] EXCEPT !.count = @ + 1] \in GrantRows
      BY <3>1 DEF GrantRows
    <3>4. [grant[b] EXCEPT !.count = @ + 1].count = grant[b].count + 1
      BY <3>1 DEF GrantRows
    <3>5. CASE b = g
      BY <3>1, <3>2, <3>3, <3>4, <3>5, AccessAssumption DEF CountOf
    <3>6. CASE b # g
      BY <3>2, <3>6 DEF CountOf
    <3> QED  BY <3>5, <3>6
  <2>3. Cardinality(At(g, "COUNT")') = IF b = g THEN Cardinality(At(g, "COUNT")) - 1
                                       ELSE Cardinality(At(g, "COUNT"))
    BY <2>1, UsesAreFinite, FS_RemoveElement
  <2>4. \/ Cardinality(At(g, "ALERT")') = Cardinality(At(g, "ALERT"))
        \/ b = g /\ Cardinality(At(g, "ALERT")') = Cardinality(At(g, "ALERT")) + 1
    BY <2>1, UsesAreFinite, FS_AddElement
  <2> QED  BY <1>1, <2>1, <2>2, <2>3, <2>4, UsesAreFinite DEF UsesInv, UsesOf
<1>3. CASE Alert(p)
  <2>1. /\ UNCHANGED <<audited, answered>>
        /\ CountOf(g)' = CountOf(g)
        /\ At(g, "COUNT")' = At(g, "COUNT")
        /\ At(g, "ALERT")' = At(g, "ALERT") \ {p}
        /\ \/ b = g /\ Answering(g)' = Answering(g) \cup {p}
           \/ Answering(g)' = Answering(g)
        /\ p \in At(g, "ALERT") <=> b = g
    BY <1>0, <1>3 DEF Alert, CallFields, At, Answering, CountOf, historyVars
  <2>2. alerts'[g] = IF b = g THEN alerts[g] + 1 ELSE alerts[g]
    BY <1>3 DEF Alert, TypeInv, GrantTypes
  <2>3. Cardinality(At(g, "ALERT")') = IF b = g THEN Cardinality(At(g, "ALERT")) - 1
                                       ELSE Cardinality(At(g, "ALERT"))
    BY <2>1, UsesAreFinite, FS_RemoveElement
  <2>4. \/ Cardinality(Answering(g)') = Cardinality(Answering(g))
        \/ b = g /\ Cardinality(Answering(g)') = Cardinality(Answering(g)) + 1
    BY <2>1, UsesAreFinite, FS_AddElement
  <2> QED  BY <1>1, <2>1, <2>2, <2>3, <2>4, UsesAreFinite DEF UsesInv, UsesOf
<1>4. CASE Answer(p)
  <2>1. /\ audited' = audited /\ alerts' = alerts
        /\ CountOf(g)' = CountOf(g)
        /\ At(g, "COUNT")' = At(g, "COUNT") /\ At(g, "ALERT")' = At(g, "ALERT")
        /\ Answering(g)' = Answering(g) \ {p}
        /\ p \in Answering(g) <=> b = g /\ call[p].used
    BY <1>0, <1>4 DEF Answer, CallFields, At, Answering, CountOf, workVars
  <2>2. answered'[g] = IF b = g /\ call[p].used THEN answered[g] + 1 ELSE answered[g]
    BY <1>4 DEF Answer, TypeInv, GrantTypes
  <2>3. Cardinality(Answering(g)') = IF b = g /\ call[p].used
                                     THEN Cardinality(Answering(g)) - 1
                                     ELSE Cardinality(Answering(g))
    BY <2>1, UsesAreFinite, FS_RemoveElement
  <2> QED  BY <1>1, <2>1, <2>2, <2>3, UsesAreFinite DEF UsesInv, UsesOf
<1> QED  BY <1>2, <1>3, <1>4

LEMMA UsesStep ==
    ASSUME TypeInv, TypeInv', UsesInv, [Next]_vars
    PROVE  UsesInv'
<1> DEFINE Steady == UNCHANGED <<alerts, audited, answered>> /\ \A g \in Grants : CountOf(g)' = CountOf(g)
           Quiet(c) == c = Idle \/ c.stage = "LOAD" \/ (c.stage = "ANSWER" /\ c.intent.op # "VIEW")
<1>1. ASSUME Steady, call' = call
      PROVE  UsesInv'
  BY <1>1, NoUse DEF At, Answering
<1>2. ASSUME Steady, NEW p \in Calls, NEW c, call' = [call EXCEPT ![p] = c], Quiet(c)
      PROVE  UsesInv'
  <2>1. ASSUME NEW g
        PROVE  /\ At(g, "COUNT")' \subseteq At(g, "COUNT")
               /\ At(g, "ALERT")' \subseteq At(g, "ALERT")
               /\ Answering(g)' \subseteq Answering(g)
    BY <1>2 DEF At, Answering, TypeInv, CallsGood
  <2> QED  BY <1>2, <2>1, NoUse
<1>3. ASSUME UNCHANGED <<grant, alerts, audited, answered>>
      PROVE  Steady
  BY <1>3 DEF CountOf
<1>i. Quiet(Idle)
  OBVIOUS
<1> HIDE DEF Steady, Quiet
<1>4. ASSUME NEW p \in Calls, Asks(p)
      PROVE  UsesInv'
  <2>1. ASSUME NEW i \in Intents, NEW g \in Grants \cup {None}, Begin(p, i, g)
        PROVE  UsesInv'
    <3> DEFINE c == Loading([intent |-> i, grantRef |-> g, agreement |-> agreement,
                  card |-> "CITIZEN", stage |-> "LOAD", todo |-> {}, case |-> NoCase,
                  incident |-> NoIncident, grant |-> None, approvals |-> {}, relied |-> {},
                  used |-> FALSE], "CITIZEN")
    <3>1. call' = [call EXCEPT ![p] = c] /\ Steady
      BY <2>1, <1>3 DEF Begin, workVars, historyVars
    <3>2. Quiet(c)
      BY DEF Loading, Quiet
    <3> HIDE DEF c
    <3> QED  BY <1>2, <3>1, <3>2
  <2>2. ASSUME NEW what, NEW first, NEW loaded, Load(p, what, first, loaded),
               loaded.stage = call[p].stage, DOMAIN loaded = CallFields,
               loaded.intent = call[p].intent, loaded.used = call[p].used,
               loaded.grantRef = call[p].grantRef
        PROVE  UsesInv'
    <3> DEFINE c == [loaded EXCEPT !.todo = @ \ {what}]
    <3>1. call' = [call EXCEPT ![p] = c] /\ Steady /\ call[p] # Idle
      BY <2>2, <1>3 DEF Load, workVars, historyVars
    <3>2. /\ c.stage = call[p].stage /\ c.intent = call[p].intent /\ c.used = call[p].used
          /\ c.grantRef = call[p].grantRef
      BY <2>2 DEF CallFields
    <3> HIDE DEF c
    <3>3. ASSUME NEW g
          PROVE  /\ At(g, "COUNT")' \subseteq At(g, "COUNT")
                 /\ At(g, "ALERT")' \subseteq At(g, "ALERT")
                 /\ Answering(g)' \subseteq Answering(g)
      BY <3>1, <3>2 DEF At, Answering, TypeInv, CallsGood
    <3> QED  BY <3>1, <3>3, NoUse DEF Steady
  <2>3. ASSUME \/ LoadCase(p) \/ LoadTeam(p) \/ LoadIncident(p) \/ LoadCrew(p) \/ LoadRoster(p)
               \/ LoadGrant(p) \/ LoadApprovals(p)
        PROVE  UsesInv'
    <3>1. DOMAIN call[p] = CallFields
      BY <2>3 DEF LoadCase, LoadTeam, LoadIncident, LoadCrew, LoadRoster, LoadGrant,
                  LoadApprovals, Load, TypeInv, CallsGood, GoodCall
    <3>2. CASE LoadCase(p)
      BY <2>2, <3>1, <3>2 DEF LoadCase, CallFields
    <3>3. CASE LoadTeam(p)
      BY <2>2, <3>1, <3>3 DEF LoadTeam, CallFields
    <3>4. CASE LoadIncident(p)
      BY <2>2, <3>1, <3>4 DEF LoadIncident, CallFields
    <3>5. CASE LoadCrew(p)
      BY <2>2, <3>1, <3>5 DEF LoadCrew, CallFields
    <3>6. CASE LoadRoster(p)
      BY <2>2, <3>1, <3>6 DEF LoadRoster, CallFields
    <3>7. CASE LoadGrant(p)
      BY <2>2, <3>1, <3>7 DEF LoadGrant, CallFields
    <3>8. CASE LoadApprovals(p)
      BY <2>2, <3>1, <3>8 DEF LoadApprovals, CallFields
    <3> QED  BY <2>3, <3>2, <3>3, <3>4, <3>5, <3>6, <3>7, <3>8
  <2>4. ASSUME DecideIdentity(p) \/ DecideCard(p)
        PROVE  UsesInv'
    <3>1. /\ Steady /\ DOMAIN call[p] = CallFields
          /\ call[p].intent.op # "VIEW"
      BY <2>4, <1>3 DEF DecideIdentity, DecideCard, Loaded, workVars, historyVars, TypeInv,
                        CallsGood, GoodCall
    <3> DEFINE i == IF Permitted(p)
                    THEN [Loading(call[p], "VEHICLE") EXCEPT !.relied = Reliance(call[p]),
                                                             !.used = Outcome(p).breakGlassUsed]
                    ELSE Idle
               d == IF Permitted(p)
                    THEN [Decided(call[p], "ANSWER") EXCEPT
                            !.relied = @ \cup Reliance(call[p]),
                            !.used = @ \/ Outcome(p).breakGlassUsed]
                    ELSE Decided(call[p], "ANSWER")
    <3>2. Quiet(i) /\ Quiet(d)
      BY <3>1 DEF Quiet, Loading, Decided, CallFields
    <3>3. call' = [call EXCEPT ![p] = i] \/ call' = [call EXCEPT ![p] = d]
      BY <2>4 DEF DecideIdentity, DecideCard
    <3> HIDE DEF i, d
    <3> QED  BY <1>2, <3>1, <3>2, <3>3
  <2>5. ASSUME Answer360(p) \/ Fail(p) \/ \E r \in Requests : InsertRequest(p, r)
        PROVE  UsesInv'
    <3>1. call' = [call EXCEPT ![p] = Idle] /\ Steady
      BY <2>5, <1>3 DEF Answer360, Fail, InsertRequest, workVars, historyVars
    <3> QED  BY <1>2, <1>i, <3>1
  <2> QED  BY <1>4, <2>1, <2>3, <2>4, <2>5, UseDecided, UseDischarged DEF Asks
<1>5. ASSUME NEW u \in Users, NEW r \in Requests, Decides(u, r)
      PROVE  UsesInv'
  BY <1>5, <1>1, <1>3 DEF Decides, ReadRequest, WriteDecision, FailDecision, historyVars
<1>6. ASSUME NEW u \in Users, NEW g \in Grants, BreakGlass(u, g)
      PROVE  UsesInv'
  <2>1. UNCHANGED <<call, alerts, audited, answered>>
    BY <1>6 DEF BreakGlass, InitiateBreakGlass, ReviewBreakGlass, historyVars
  <2>2. \A h \in Grants : CountOf(h)' = CountOf(h)
    BY <1>6, AccessAssumption DEF BreakGlass, InitiateBreakGlass, ReviewBreakGlass, CountOf,
                           TypeInv, GrantTypes, GrantRows
  <2> QED  BY <1>1, <2>1, <2>2 DEF Steady
<1>7. CASE ExpireGrants
  <2>1. UNCHANGED <<call, alerts, audited, answered>>
    BY <1>7 DEF ExpireGrants, historyVars
  <2>2. \A h \in Grants : CountOf(h)' = CountOf(h)
    BY <1>7, AccessAssumption DEF ExpireGrants, GrantIsStale, CountOf,
                           TypeInv, GrantTypes, GrantRows
  <2> QED  BY <1>1, <2>1, <2>2 DEF Steady
<1>8. CASE ExpireRequests \/ Changes \/ Tick \/ UNCHANGED vars
  BY <1>8, <1>1, <1>3 DEF ExpireRequests, Changes, CaseMoves, JoinsCase, IncidentMoves,
                    JoinsIncident, AgreementChanges, Elsewhere, Tick, vars, workVars, historyVars
<1> QED  BY <1>4, <1>5, <1>6, <1>7, <1>8 DEF Next

\* A view that needed a grant is answered only after it was audited under the
\* grant, counted on it and put before a supervisor, whatever other calls, failed
\* statements and reviews come between (authorize, dischargeObligations).
THEOREM UsesAreCounted == Spec => []CountedBeforeAnswered
<1>1. TypeInv /\ TypeInv' /\ UsesInv /\ [Next]_vars => UsesInv'
  BY UsesStep
<1>2. Spec => []UsesInv
  BY <1>1, UsesInit, TypeInvariant, PTL DEF Spec
<1> QED  BY <1>2, TypeInvariant, UsesImplyOrder, PTL

-----------------------------------------------------------------------------
(***************************************************************************)
(* A permitted access rests on what held.  The invariant says of each call *)
(* that what it has loaded and would count in its favour held at some      *)
(* moment since it began.                                                  *)
(***************************************************************************)

\* Of a call c, when the facts of u have not held since it began and t is the time.
Seen(c, u, t) ==
    LET user == c.intent.user IN
    /\ DOMAIN c.case = {"status", "team"} /\ DOMAIN c.incident = {"status", "crew", "roster"}
    /\ c.agreement = "SIGNED" => <<"agreement">> \notin u
    /\ c.case.status \in ACTIVE_CASE_STATUSES => <<"case">> \notin u
    /\ c.case.team[user] # None => <<"team", user>> \notin u
    /\ c.incident.status \in ACTIVE_INCIDENT_STATUSES => <<"incident">> \notin u
    /\ user \in c.incident.crew => <<"crew", user>> \notin u
    /\ \A a \in c.incident.roster : <<"roster", a>> \notin u
    /\ c.grant # None =>
         /\ c.grant.expiresAt \in Nat
         /\ c.grant.status = "ACTIVE" /\ c.grant.expiresAt > t => <<"grant", c.grantRef>> \notin u
    /\ \A a \in c.approvals : \A f \in a.approvedFields :
         <<"approval", user, c.intent.purpose, f>> \notin u
    /\ c.relied \cap u = {}

SeenInv == \A p \in Calls : call[p] # Idle => Seen(call[p], unseen[p], now)

\* The facts after a step.
LEMMA FactsAfter ==
    /\ Holds(<<"agreement">>)' <=> agreement' = "SIGNED"
    /\ Holds(<<"case">>)' <=> caseStatus' \in ACTIVE_CASE_STATUSES
    /\ Holds(<<"incident">>)' <=> incidentStatus' \in ACTIVE_INCIDENT_STATUSES
    /\ \A u : Holds(<<"team", u>>)' <=> caseTeam'[u] # None
    /\ \A u : Holds(<<"crew", u>>)' <=> u \in crew'
    /\ \A a : Holds(<<"roster", a>>)' <=> a \in roster'
    /\ \A g : Holds(<<"grant", g>>)' <=> LiveGrant(g)'
    /\ \A u, purpose, f :
         Holds(<<"approval", u, purpose, f>>)' <=> ApprovedByColleague(u, purpose, f)'
<1>1. Holds(<<"agreement">>)' <=> agreement' = "SIGNED"
  BY DEF Holds
<1>2. Holds(<<"case">>)' <=> caseStatus' \in ACTIVE_CASE_STATUSES
  BY DEF Holds
<1>3. Holds(<<"incident">>)' <=> incidentStatus' \in ACTIVE_INCIDENT_STATUSES
  BY DEF Holds
<1>4. ASSUME NEW u PROVE Holds(<<"team", u>>)' <=> caseTeam'[u] # None
  BY DEF Holds
<1>5. ASSUME NEW u PROVE Holds(<<"crew", u>>)' <=> u \in crew'
  BY DEF Holds
<1>6. ASSUME NEW a PROVE Holds(<<"roster", a>>)' <=> a \in roster'
  BY DEF Holds
<1>7. ASSUME NEW g PROVE Holds(<<"grant", g>>)' <=> LiveGrant(g)'
  BY DEF Holds
<1>8. ASSUME NEW u, NEW purpose, NEW f
      PROVE  Holds(<<"approval", u, purpose, f>>)' <=> ApprovedByColleague(u, purpose, f)'
  BY DEF Holds
<1> QED  BY <1>1, <1>2, <1>3, <1>4, <1>5, <1>6, <1>7, <1>8

\* A fact that holds after a step has been seen; one that was seen stays so.
LEMMA WatchKeeps ==
    ASSUME Watch, NEW p \in Calls
    PROVE  /\ \A x : Holds(x)' => x \notin unseen'[p]
           /\ call[p] # Idle => unseen'[p] \subseteq unseen[p]
BY DEF Watch

LEMMA SeenLater ==
    ASSUME NEW c, NEW u, NEW v, NEW t \in Nat, NEW s \in Nat, Seen(c, u, t), v \subseteq u, t <= s
    PROVE  Seen(c, v, s)
BY DEF Seen

LEMMA NothingLoadedIsSeen ==
    ASSUME NEW c, NEW u, NEW t, c.intent \in Intents,
           c.agreement = "SIGNED" => <<"agreement">> \notin u,
           c.case = NoCase, c.incident = NoIncident, c.grant = None, c.approvals = {},
           c.relied \cap u = {}
    PROVE  Seen(c, u, t)
BY AccessAssumption DEF Seen, NoCase, NoIncident, Askers

\* What a permitted call comes to rest on has been seen: of every gate that
\* passed by itself the officer's own standing, of every other one the grant
\* (evaluate, caseBinding, incidentBinding, computeFieldRelease).
LEMMA RelianceSeen ==
    ASSUME TypeInv, NEW p \in Calls, call[p] # Idle, NEW u, Seen(call[p], u, now), Permitted(p)
    PROVE  Reliance(call[p]) \cap u = {}
<1> DEFINE c == call[p]
           i == c.intent
           r == PolicyRequest(c)
           byGrant == {<<"grant", c.grantRef>>}
<1>1. /\ i \in Intents /\ i.user \in Askers
      /\ r.action \in CITIZEN_DATA_ACTIONS
      /\ r.subject.userId = i.user /\ r.subject.agencyId = Profile[i.user].agencyId
      /\ r.subject.dataSharingAgreement = c.agreement
  <2>1. i \in Intents /\ i.user \in Askers
    BY DEF TypeInv, CallsGood, GoodCall, Askers
  <2>2. r.action \in CITIZEN_DATA_ACTIONS
    BY <2>1, IntentAssumption DEF PolicyRequest, CITIZEN_DATA_ACTIONS
  <2>3. r.subject = [Profile[i.user] EXCEPT !.dataSharingAgreement = c.agreement]
    BY DEF PolicyRequest
  <2> QED  BY <2>1, <2>2, <2>3, IntentAssumption
<1>2. Permits(r)
  BY DEF Permitted, Outcome, Evaluate
<1>3. GrantInScope(c.grant, r) => byGrant \cap u = {}
  BY DEF GrantInScope, PolicyRequest, Seen
<1>4. RelaxedGates(r) # {} => byGrant \cap u = {}
  BY <1>2, <1>3 DEF Permits, Bound, BreakGlassSatisfies, PolicyRequest
<1>5. GrantedFields(r) # {} => byGrant \cap u = {}
  <2>1. ASSUME NEW f \in GrantedFields(r)
        PROVE  GrantInScope(c.grant, r)
    BY DEF GrantedFields, AllowedFields, BreakGlassCoversFieldApproval, PolicyRequest
  <2> QED  BY <2>1, <1>3
<1>6. OfAnAgency(r) => <<"agreement">> \notin u
  BY <1>1, <1>2 DEF Permits, HardGates, DataSharingAgreementGate, Seen
<1>7. ASSUME CaseBound(r), CaseBindingGate(r)
      PROVE  {<<"case">>, <<"team", i.user>>} \cap u = {}
  <2>1. r.caseContext # None /\ r.caseContext.status \in ACTIVE_CASE_STATUSES /\ MayWorkCase(r)
    BY <1>7 DEF CaseBindingGate, CaseAuthority
  <2>2. /\ r.caseContext.status = c.case.status
        /\ r.caseContext.assignedUserIds = InRole(c.case.team, CaseRoles \ {"SUPERVISOR"})
        /\ r.caseContext.supervisorUserIds = InRole(c.case.team, {"SUPERVISOR"})
    BY <2>1 DEF PolicyRequest, CaseContext
  <2>3. r.action # "CASE_ASSIGN"
    BY <1>1 DEF CITIZEN_DATA_ACTIONS
  <2>4. i.user \in r.caseContext.assignedUserIds \cup r.caseContext.supervisorUserIds
    BY <1>1, <2>1, <2>3 DEF MayWorkCase
  <2>5. c.case.team[i.user] # None
    BY <2>2, <2>4, AccessAssumption DEF InRole, CaseRoles
  <2> QED  BY <2>1, <2>2, <2>5 DEF Seen
<1>8. ASSUME IncidentBound(r), IncidentBindingGate(r)
      PROVE  {<<"incident">>, IF i.user \in c.incident.crew THEN <<"crew", i.user>>
                              ELSE <<"roster", Profile[i.user].agencyId>>} \cap u = {}
  <2>1. /\ r.incidentContext # None
        /\ r.incidentContext.status \in ACTIVE_INCIDENT_STATUSES
        /\ \/ i.user \in r.incidentContext.assignedUserIds
           \/ Profile[i.user].agencyId \in r.incidentContext.assignedAgencyIds
    BY <1>1, <1>8 DEF IncidentBindingGate, CITIZEN_DATA_ACTIONS
  <2>2. /\ r.incidentContext.status = c.incident.status
        /\ r.incidentContext.assignedUserIds = c.incident.crew
        /\ r.incidentContext.assignedAgencyIds = c.incident.roster
    BY <2>1 DEF PolicyRequest, IncidentContext
  <2> QED  BY <2>1, <2>2 DEF Seen
<1>9. ASSUME NEW f \in {h \in AllowedFields(r) : NeedsApproval(r, h)} \ GrantedFields(r)
      PROVE  <<"approval", i.user, r.purpose, f>> \notin u
  <2>1. PICK a \in r.approvals : ApprovalCovers(a, r, f)
    BY DEF GrantedFields, Approved
  <2>2. f \in a.approvedFields /\ r.purpose = i.purpose /\ r.approvals = c.approvals
    BY <2>1 DEF ApprovalCovers, PolicyRequest
  <2> QED  BY <2>1, <2>2 DEF Seen
<1>10. ~CaseBindingGate(r) \/ ~IncidentBindingGate(r) \/ ~JurisdictionGate(r) => RelaxedGates(r) # {}
  BY DEF RelaxedGates, BindingGates, BindingGate
<1> HIDE DEF r
<1> QED  BY <1>4, <1>5, <1>6, <1>7, <1>8, <1>9, <1>10 DEF Reliance, r

LEMMA OneSeen ==
    ASSUME TypeInv, SeenInv, NEW p \in Calls, NEW c, call' = [call EXCEPT ![p] = c],
           c # Idle => Seen(c, unseen'[p], now), Watch, UNCHANGED now
    PROVE  SeenInv'
<1> SUFFICES ASSUME NEW q \in Calls, call'[q] # Idle PROVE Seen(call'[q], unseen'[q], now)
  BY DEF SeenInv
<1>1. CASE q = p
  BY <1>1 DEF TypeInv, CallsGood
<1>2. CASE q # p
  <2>1. call'[q] = call[q] /\ now \in Nat
    BY <1>2, AccessAssumption DEF TypeInv, PlaceTypes
  <2> QED  BY <2>1, WatchKeeps, SeenLater DEF SeenInv
<1> QED  BY <1>1, <1>2

LEMMA NoneSeen ==
    ASSUME TypeInv, TypeInv', SeenInv, UNCHANGED call, Watch, now <= now'
    PROVE  SeenInv'
<1> SUFFICES ASSUME NEW q \in Calls, call[q] # Idle PROVE Seen(call[q], unseen'[q], now')
  BY DEF SeenInv
<1>1. now \in Nat /\ now' \in Nat
  BY AccessAssumption DEF TypeInv, PlaceTypes
<1> QED  BY <1>1, WatchKeeps, SeenLater DEF SeenInv

LEMMA SeenByLoading ==
    ASSUME TypeInv, SeenInv, NEW p \in Calls,
           \/ LoadCase(p) \/ LoadTeam(p) \/ LoadIncident(p) \/ LoadCrew(p) \/ LoadRoster(p)
           \/ LoadGrant(p) \/ LoadApprovals(p)
    PROVE  SeenInv'
<1> DEFINE b == call[p]
           u == unseen'[p]
<1>0. /\ b # Idle /\ DOMAIN b = CallFields /\ b.intent \in Intents
      /\ Watch /\ UNCHANGED <<now, placeVars, workVars>>
      /\ "grant" \in b.todo => b.grantRef \in Grants /\ grant[b.grantRef] # None
  BY DEF TypeInv, CallsGood, GoodCall, Load, LoadCase, LoadTeam, LoadIncident, LoadCrew,
         LoadRoster, LoadGrant, LoadApprovals
<1>1. Seen(b, u, now)
  BY <1>0, WatchKeeps, SeenLater, AccessAssumption DEF SeenInv, TypeInv, PlaceTypes
<1>2. \A x : Holds(x)' => x \notin u
  BY <1>0, WatchKeeps
<1>3. ASSUME NEW what, NEW loaded, DOMAIN loaded = CallFields,
             call' = [call EXCEPT ![p] = [loaded EXCEPT !.todo = @ \ {what}]],
             Seen(loaded, u, now)
      PROVE  SeenInv'
  <2>1. Seen([loaded EXCEPT !.todo = @ \ {what}], u, now)
    BY <1>3 DEF Seen, CallFields
  <2> QED  BY <1>0, <1>3, <2>1, OneSeen
<1>4. CASE LoadCase(p)
  <2> DEFINE d == [b EXCEPT !.case.status = caseStatus]
  <2>1. caseStatus \in ACTIVE_CASE_STATUSES => <<"case">> \notin u
    BY <1>0, <1>2, FactsAfter DEF placeVars
  <2>2. DOMAIN d = CallFields /\ Seen(d, u, now)
    BY <1>0, <1>1, <2>1 DEF Seen, CallFields
  <2> QED  BY <1>4, <1>3, <2>2 DEF LoadCase, Load
<1>5. CASE LoadTeam(p)
  <2> DEFINE d == [b EXCEPT !.case.team = caseTeam]
  <2>1. \A o : caseTeam[o] # None => <<"team", o>> \notin u
    BY <1>0, <1>2, FactsAfter DEF placeVars
  <2>2. DOMAIN d = CallFields /\ Seen(d, u, now)
    BY <1>0, <1>1, <2>1 DEF Seen, CallFields
  <2> QED  BY <1>5, <1>3, <2>2 DEF LoadTeam, Load
<1>6. CASE LoadIncident(p)
  <2> DEFINE d == [b EXCEPT !.incident.status = incidentStatus]
  <2>1. incidentStatus \in ACTIVE_INCIDENT_STATUSES => <<"incident">> \notin u
    BY <1>0, <1>2, FactsAfter DEF placeVars
  <2>2. DOMAIN d = CallFields /\ Seen(d, u, now)
    BY <1>0, <1>1, <2>1 DEF Seen, CallFields
  <2> QED  BY <1>6, <1>3, <2>2 DEF LoadIncident, Load
<1>7. CASE LoadCrew(p)
  <2> DEFINE d == [b EXCEPT !.incident.crew = crew]
  <2>1. \A o : o \in crew => <<"crew", o>> \notin u
    BY <1>0, <1>2, FactsAfter DEF placeVars
  <2>2. DOMAIN d = CallFields /\ Seen(d, u, now)
    BY <1>0, <1>1, <2>1 DEF Seen, CallFields
  <2> QED  BY <1>7, <1>3, <2>2 DEF LoadCrew, Load
<1>8. CASE LoadRoster(p)
  <2> DEFINE d == [b EXCEPT !.incident.roster = roster]
  <2>1. \A a : a \in roster => <<"roster", a>> \notin u
    BY <1>0, <1>2, FactsAfter DEF placeVars
  <2>2. DOMAIN d = CallFields /\ Seen(d, u, now)
    BY <1>0, <1>1, <2>1 DEF Seen, CallFields
  <2> QED  BY <1>8, <1>3, <2>2 DEF LoadRoster, Load
<1>9. CASE LoadGrant(p)
  <2> DEFINE g == b.grantRef
             row == GrantRow(g)
             d == [b EXCEPT !.grant = row]
  <2>1. g \in Grants /\ grant[g] # None /\ grant[g] \in GrantRows
    BY <1>0, <1>9 DEF LoadGrant, Load, TypeInv, GrantTypes
  <2>2. \A h : LiveGrant(h)' => <<"grant", h>> \notin u
    BY <1>2, FactsAfter
  <2>l. LiveGrant(g) => <<"grant", g>> \notin u
    BY <1>0, <2>2 DEF LiveGrant, workVars
  <2>3. /\ row.expiresAt \in Nat
        /\ row.status = "ACTIVE" /\ row.expiresAt > now => <<"grant", g>> \notin u
    BY <2>1, <2>l DEF GrantRow, GrantRows, LiveGrant
  <2> HIDE DEF row
  <2>4. DOMAIN d = CallFields /\ Seen(d, u, now)
    BY <1>0, <1>1, <2>3 DEF Seen, CallFields
  <2> HIDE DEF d
  <2>5. call' = [call EXCEPT ![p] = [d EXCEPT !.todo = @ \ {"grant"}]]
    BY <1>9 DEF LoadGrant, Load, d, row
  <2> QED  BY <1>3, <2>4, <2>5
<1>10. CASE LoadApprovals(p)
  <2> DEFINE approvals == ApprovalsFor(b)
             d == [b EXCEPT !.approvals = approvals]
  <2>1. ASSUME NEW a \in approvals, NEW f \in a.approvedFields
        PROVE  <<"approval", b.intent.user, b.intent.purpose, f>> \notin u
    <3>1. PICK r \in Requests :
             /\ LiveApproval(r) /\ request[r].by = b.intent.user
             /\ request[r].purpose = b.intent.purpose /\ a.approvedFields = request[r].approved
      BY DEF ApprovalsFor
    <3>2. /\ request[r] # None /\ request[r].approved \subseteq request[r].fields
          /\ request[r].decidedBy # request[r].by
      BY <3>1 DEF LiveApproval, TypeInv, RequestTypes
    <3>3. ApprovedByColleague(b.intent.user, b.intent.purpose, f)
      BY <3>1, <3>2 DEF ApprovedByColleague
    <3>4. \A o, purpose : ApprovedByColleague(o, purpose, f) => ApprovedByColleague(o, purpose, f)'
      BY <1>0 DEF ApprovedByColleague, LiveApproval, workVars
    <3>5. \A o, purpose : ApprovedByColleague(o, purpose, f)' => <<"approval", o, purpose, f>> \notin u
      BY <1>2, FactsAfter
    <3> QED  BY <3>3, <3>4, <3>5
  <2> HIDE DEF approvals
  <2>2. DOMAIN d = CallFields /\ Seen(d, u, now)
    BY <1>0, <1>1, <2>1 DEF Seen, CallFields
  <2> HIDE DEF d
  <2>3. call' = [call EXCEPT ![p] = [d EXCEPT !.todo = @ \ {"approvals"}]]
    BY <1>10 DEF LoadApprovals, Load, d, approvals
  <2> QED  BY <1>3, <2>2, <2>3
<1> QED  BY <1>4, <1>5, <1>6, <1>7, <1>8, <1>9, <1>10

LEMMA SeenByCalls ==
    ASSUME TypeInv, SeenInv, NEW p \in Calls, Asks(p)
    PROVE  SeenInv'
<1> DEFINE b == call[p]
           u == unseen'[p]
<1>0. Watch /\ UNCHANGED now
  BY DEF Asks, Begin, LoadCase, LoadTeam, LoadIncident, LoadCrew, LoadRoster, LoadGrant,
         LoadApprovals, Load, Decide, Count, Alert, Answer, DecideIdentity, DecideCard,
         Answer360, Fail, InsertRequest
<1>1. ASSUME b # Idle
      PROVE  /\ Seen(b, u, now) /\ DOMAIN b = CallFields /\ b.intent \in Intents
             /\ Permitted(p) => Reliance(b) \cap u = {}
  <2>1. Seen(b, unseen[p], now) /\ DOMAIN b = CallFields /\ b.intent \in Intents
    BY <1>1 DEF SeenInv, TypeInv, CallsGood, GoodCall
  <2>2. Seen(b, u, now)
    BY <1>0, <1>1, <2>1, WatchKeeps, SeenLater, AccessAssumption DEF TypeInv, PlaceTypes
  <2> QED  BY <1>1, <2>1, <2>2, RelianceSeen
<1>2. ASSUME NEW i \in Intents, NEW g \in Grants \cup {None}, Begin(p, i, g)
      PROVE  SeenInv'
  <2> DEFINE c == Loading([intent |-> i, grantRef |-> g, agreement |-> agreement,
                  card |-> "CITIZEN", stage |-> "LOAD", todo |-> {}, case |-> NoCase,
                  incident |-> NoIncident, grant |-> None, approvals |-> {}, relied |-> {},
                  used |-> FALSE], "CITIZEN")
  <2>1. call' = [call EXCEPT ![p] = c] /\ UNCHANGED agreement
    BY <1>2 DEF Begin, placeVars
  <2>2. agreement = "SIGNED" => <<"agreement">> \notin u
    BY <1>0, <2>1, WatchKeeps, FactsAfter
  <2>3. /\ c.intent = i /\ c.agreement = agreement /\ c.case = NoCase
        /\ c.incident = NoIncident /\ c.grant = None /\ c.approvals = {} /\ c.relied = {}
    BY DEF Loading
  <2> HIDE DEF c
  <2>4. Seen(c, u, now)
    BY <2>2, <2>3, NothingLoadedIsSeen
  <2> QED  BY <1>0, <2>1, <2>4, OneSeen
<1>3. ASSUME NEW c, c.intent = b.intent, c.agreement = b.agreement, b # Idle,
             c.case = NoCase, c.incident = NoIncident, c.grant = None, c.approvals = {},
             \/ c.relied \subseteq b.relied
             \/ Permitted(p) /\ c.relied \subseteq b.relied \cup Reliance(b)
      PROVE  Seen(c, u, now)
  <2>1. c.relied \cap u = {} /\ (c.agreement = "SIGNED" => <<"agreement">> \notin u)
    BY <1>1, <1>3 DEF Seen
  <2> QED  BY <1>1, <1>3, <2>1, NothingLoadedIsSeen
<1>4. ASSUME DecideIdentity(p) \/ DecideCard(p) \/ Decide(p)
      PROVE  SeenInv'
  <2>0. b # Idle /\ DOMAIN b = CallFields
    BY <1>1, <1>4 DEF Decide, DecideIdentity, DecideCard, Loaded
  <2> DEFINE identity == [Loading(b, "VEHICLE") EXCEPT !.relied = Reliance(b),
                                                       !.used = Outcome(p).breakGlassUsed]
             card == [Decided(b, "ANSWER") EXCEPT !.relied = @ \cup Reliance(b),
                                                  !.used = @ \/ Outcome(p).breakGlassUsed]
             refused == Decided(b, "ANSWER")
             view == [Decided(b, IF "NOTIFY_SUPERVISOR" \in Outcome(p).obligations
                                 THEN "COUNT" ELSE "ANSWER")
                        EXCEPT !.relied = Reliance(b), !.used = Outcome(p).breakGlassUsed]
  <2>1. CASE DecideIdentity(p)
    <3>1. call' = [call EXCEPT ![p] = IF Permitted(p) THEN identity ELSE Idle]
      BY <2>1 DEF DecideIdentity
    <3>2. Permitted(p) => Seen(identity, u, now)
      BY <2>0, <1>3 DEF Loading, CallFields
    <3> HIDE DEF identity
    <3> QED  BY <1>0, <3>1, <3>2, OneSeen
  <2>2. CASE DecideCard(p)
    <3>1. call' = [call EXCEPT ![p] = IF Permitted(p) THEN card ELSE refused]
      BY <2>2 DEF DecideCard
    <3>2. (Permitted(p) => Seen(card, u, now)) /\ Seen(refused, u, now)
      BY <2>0, <1>3 DEF Decided, CallFields
    <3> HIDE DEF card, refused
    <3> QED  BY <1>0, <3>1, <3>2, OneSeen
  <2>3. CASE Decide(p)
    <3>1. call' = [call EXCEPT ![p] = IF Permitted(p) THEN view ELSE Idle]
      BY <2>3 DEF Decide
    <3>2. Permitted(p) => Seen(view, u, now)
      BY <2>0, <1>3 DEF Decided, CallFields
    <3> HIDE DEF view
    <3> QED  BY <1>0, <3>1, <3>2, OneSeen
  <2> QED  BY <1>4, <2>1, <2>2, <2>3
<1>5. ASSUME Count(p) \/ Alert(p)
      PROVE  SeenInv'
  <2> DEFINE d(stage) == [b EXCEPT !.stage = stage]
  <2>1. \A stage : Seen(d(stage), u, now)
    BY <1>1, <1>5 DEF Count, Alert, Seen, CallFields
  <2>2. call' = [call EXCEPT ![p] = d("ALERT")] \/ call' = [call EXCEPT ![p] = d("ANSWER")]
    BY <1>5 DEF Count, Alert
  <2> HIDE DEF d
  <2> QED  BY <1>0, <2>1, <2>2, OneSeen
<1>6. ASSUME Answer(p) \/ Answer360(p) \/ Fail(p) \/ \E r \in Requests : InsertRequest(p, r)
      PROVE  SeenInv'
  <2>1. call' = [call EXCEPT ![p] = Idle]
    BY <1>6 DEF Answer, Answer360, Fail, InsertRequest
  <2> QED  BY <1>0, <2>1, OneSeen
<1> QED  BY <1>2, <1>4, <1>5, <1>6, SeenByLoading DEF Asks

\* Whatever a permitted call rests on was the case at some moment while the call
\* was under way, in whichever order its queries ran and whatever changed between
\* them (authorize, evaluateOnly).
THEOREM RelianceHeld == Spec => []ReliedOnWhatHeld
<1>1. Init => SeenInv
  BY DEF Init, SeenInv
<1>2. TypeInv /\ TypeInv' /\ SeenInv /\ [Next]_vars => SeenInv'
  <2> SUFFICES ASSUME TypeInv, TypeInv', SeenInv, [Next]_vars PROVE SeenInv'
    OBVIOUS
  <2>0. now \in Nat /\ (now' = now => now <= now') /\ now <= now + 1
    BY AccessAssumption DEF TypeInv, PlaceTypes
  <2>1. ASSUME NEW p \in Calls, Asks(p) PROVE SeenInv'
    BY <2>1, SeenByCalls
  <2>2. ASSUME NEW u \in Users, NEW r \in Requests, Decides(u, r) PROVE SeenInv'
    BY <2>0, <2>2, NoneSeen DEF Decides, ReadRequest, WriteDecision, FailDecision
  <2>3. ASSUME NEW u \in Users, NEW g \in Grants, BreakGlass(u, g) PROVE SeenInv'
    BY <2>0, <2>3, NoneSeen DEF BreakGlass, InitiateBreakGlass, ReviewBreakGlass
  <2>4. CASE ExpireGrants \/ ExpireRequests \/ Changes
    BY <2>0, <2>4, NoneSeen DEF ExpireGrants, ExpireRequests, Changes, CaseMoves, JoinsCase,
                                IncidentMoves, JoinsIncident, AgreementChanges, Elsewhere
  <2>5. CASE Tick
    BY <2>0, <2>5, NoneSeen DEF Tick
  <2>6. CASE UNCHANGED vars
    BY <2>6 DEF vars, SeenInv, Seen
  <2> QED  BY <2>1, <2>2, <2>3, <2>4, <2>5, <2>6 DEF Next
<1>3. Spec => []SeenInv
  BY <1>1, <1>2, TypeInvariant, PTL DEF Spec
<1>4. SeenInv => ReliedOnWhatHeld
  BY DEF SeenInv, Seen, ReliedOnWhatHeld
<1> QED  BY <1>3, <1>4, PTL

-----------------------------------------------------------------------------
(***************************************************************************)
(* The refinement.  What a call has read of a grant is a copy, which stays *)
(* true of the grant's time, and is gone once the call has decided.        *)
(***************************************************************************)
TrueCopy(c, rows) ==
    /\ c.stage # "LOAD" => c.grant = None /\ c.todo = {}
    /\ c.grant # None => c.grant.expiresAt = rows[c.grantRef].expiresAt

CopiesInv == \A p \in Calls : call[p] # Idle => TrueCopy(call[p], grant)

phases == [g \in Grants |-> PhaseOf(g)]
trust  == [g \in Grants |-> Trusting(g)]
counts == [g \in Grants |-> CountOf(g)]

\* A copy that counts in the call's favour.
Good(c) == c # Idle /\ c.grant # None /\ c.grant.status = "ACTIVE" /\ c.grant.expiresAt > now

\* No step moves the time of a grant.
LEMMA TimeIsFixed ==
    ASSUME TypeInv, [Next]_vars, NEW g \in Grants, grant[g] # None
    PROVE  grant'[g].expiresAt = grant[g].expiresAt
<1>0. grant[g] \in GrantRows /\ DOMAIN grant = Grants
  BY DEF TypeInv, GrantTypes
<1>1. CASE UNCHANGED grant
  BY <1>1
<1>2. ASSUME NEW p \in Calls, Count(p)
      PROVE  grant'[g].expiresAt = grant[g].expiresAt
  BY <1>0, <1>2 DEF Count, GrantRows
<1>3. ASSUME NEW u \in Users, NEW h \in Grants, BreakGlass(u, h)
      PROVE  grant'[g].expiresAt = grant[g].expiresAt
  BY <1>0, <1>3 DEF BreakGlass, InitiateBreakGlass, ReviewBreakGlass, GrantRows
<1>4. CASE ExpireGrants
  BY <1>0, <1>4 DEF ExpireGrants, GrantIsStale, GrantRows
<1>5. ASSUME NEW p \in Calls, Asks(p), ~Count(p)
      PROVE  UNCHANGED grant
  BY <1>5 DEF Asks, Begin, LoadCase, LoadTeam, LoadIncident, LoadCrew, LoadRoster, LoadGrant,
              LoadApprovals, Load, Decide, Alert, Answer, DecideIdentity, DecideCard,
              Answer360, Fail, InsertRequest, workVars
<1>6. ASSUME NEW u \in Users, NEW r \in Requests, Decides(u, r)
      PROVE  UNCHANGED grant
  BY <1>6 DEF Decides, ReadRequest, WriteDecision, FailDecision
<1>7. CASE ExpireRequests \/ Changes \/ Tick \/ UNCHANGED vars
  BY <1>7, <1>1 DEF ExpireRequests, Changes, CaseMoves, JoinsCase, IncidentMoves,
                    JoinsIncident, AgreementChanges, Elsewhere, Tick, vars, workVars
<1> QED  BY <1>1, <1>2, <1>3, <1>4, <1>5, <1>6, <1>7 DEF Next

\* What one call's own step makes of its copy.
LEMMA CopyOfOne ==
    ASSUME TypeInv, [Next]_vars, CopiesInv, NEW p \in Calls, NEW c,
           call' = [call EXCEPT ![p] = c],
           c # Idle => /\ TrueCopy(c, grant)
                       /\ c.grant # None => c.grantRef \in Grants /\ grant[c.grantRef] # None
    PROVE  CopiesInv'
<1> SUFFICES ASSUME NEW q \in Calls, call'[q] # Idle PROVE TrueCopy(call'[q], grant')
  BY DEF CopiesInv
<1>1. DOMAIN call = Calls
  BY DEF TypeInv, CallsGood
<1>2. ASSUME NEW d, TrueCopy(d, grant), d.grant # None => d.grantRef \in Grants /\ grant[d.grantRef] # None
      PROVE  TrueCopy(d, grant')
  BY <1>2, TimeIsFixed DEF TrueCopy
<1>3. CASE q = p
  BY <1>1, <1>2, <1>3
<1>4. CASE q # p
  <2>1. call'[q] = call[q] /\ TrueCopy(call[q], grant)
    BY <1>1, <1>4 DEF CopiesInv
  <2>2. call[q].grant # None => call[q].grantRef \in Grants /\ grant[call[q].grantRef] # None
    BY <2>1 DEF TypeInv, CallsGood, GoodCall
  <2> QED  BY <1>2, <2>1, <2>2
<1> QED  BY <1>3, <1>4

LEMMA CopiesUntouched ==
    ASSUME TypeInv, [Next]_vars, CopiesInv, UNCHANGED call
    PROVE  CopiesInv'
<1> SUFFICES ASSUME NEW q \in Calls, call[q] # Idle PROVE TrueCopy(call[q], grant')
  BY DEF CopiesInv
<1>1. call[q].grant # None => call[q].grantRef \in Grants /\ grant[call[q].grantRef] # None
  BY DEF TypeInv, CallsGood, GoodCall
<1> QED  BY <1>1, TimeIsFixed DEF CopiesInv, TrueCopy

LEMMA CopiesStep ==
    ASSUME TypeInv, [Next]_vars, CopiesInv
    PROVE  CopiesInv'
<1>1. ASSUME NEW p \in Calls, Asks(p)
      PROVE  CopiesInv'
  <2> DEFINE b == call[p]
  <2>0. b # Idle => /\ DOMAIN b = CallFields /\ TrueCopy(b, grant)
                    /\ b.grant # None \/ "grant" \in b.todo
                         => b.grantRef \in Grants /\ grant[b.grantRef] # None
    BY DEF TypeInv, CallsGood, GoodCall, CopiesInv
  <2>1. ASSUME NEW c, call' = [call EXCEPT ![p] = c],
               c # Idle => c.grant = None /\ (c.stage = "LOAD" \/ c.todo = {})
        PROVE  CopiesInv'
    BY <2>1, CopyOfOne DEF TrueCopy
  <2>2. ASSUME NEW c, call' = [call EXCEPT ![p] = c], b # Idle,
               c.grant = b.grant, c.grantRef = b.grantRef,
               c.todo \subseteq b.todo, c.stage = b.stage \/ b.stage # "LOAD"
        PROVE  CopiesInv'
    BY <2>0, <2>2, CopyOfOne DEF TrueCopy
  <2>3. ASSUME NEW i \in Intents, NEW g \in Grants \cup {None}, Begin(p, i, g)
        PROVE  CopiesInv'
    <3> DEFINE c == Loading([intent |-> i, grantRef |-> g, agreement |-> agreement,
                    card |-> "CITIZEN", stage |-> "LOAD", todo |-> {}, case |-> NoCase,
                    incident |-> NoIncident, grant |-> None, approvals |-> {}, relied |-> {},
                    used |-> FALSE], "CITIZEN")
    <3>1. c.grant = None /\ c.stage = "LOAD"
      BY DEF Loading
    <3>2. call' = [call EXCEPT ![p] = c]
      BY <2>3 DEF Begin
    <3> HIDE DEF c
    <3> QED  BY <2>1, <3>1, <3>2
  <2>4. ASSUME NEW what, NEW first, NEW loaded, Load(p, what, first, loaded),
               DOMAIN loaded = CallFields, loaded.stage = b.stage, loaded.todo = b.todo,
               loaded.grantRef = b.grantRef, loaded.grant = b.grant
        PROVE  CopiesInv'
    <3> DEFINE c == [loaded EXCEPT !.todo = @ \ {what}]
    <3>1. call' = [call EXCEPT ![p] = c] /\ b # Idle
      BY <2>4 DEF Load
    <3>2. /\ c.stage = b.stage /\ c.grant = b.grant /\ c.grantRef = b.grantRef
          /\ c.todo \subseteq b.todo
      BY <2>4 DEF CallFields
    <3> HIDE DEF c
    <3> QED  BY <2>2, <3>1, <3>2
  <2>5. ASSUME \/ LoadCase(p) \/ LoadTeam(p) \/ LoadIncident(p) \/ LoadCrew(p) \/ LoadRoster(p)
               \/ LoadApprovals(p)
        PROVE  CopiesInv'
    <3>1. DOMAIN b = CallFields
      BY <2>0, <2>5 DEF LoadCase, LoadTeam, LoadIncident, LoadCrew, LoadRoster, LoadApprovals, Load
    <3>2. CASE LoadCase(p)
      BY <2>4, <3>1, <3>2 DEF LoadCase, CallFields
    <3>3. CASE LoadTeam(p)
      BY <2>4, <3>1, <3>3 DEF LoadTeam, CallFields
    <3>4. CASE LoadIncident(p)
      BY <2>4, <3>1, <3>4 DEF LoadIncident, CallFields
    <3>5. CASE LoadCrew(p)
      BY <2>4, <3>1, <3>5 DEF LoadCrew, CallFields
    <3>6. CASE LoadRoster(p)
      BY <2>4, <3>1, <3>6 DEF LoadRoster, CallFields
    <3>7. CASE LoadApprovals(p)
      BY <2>4, <3>1, <3>7 DEF LoadApprovals, CallFields
    <3> QED  BY <2>5, <3>2, <3>3, <3>4, <3>5, <3>6, <3>7
  <2>6. CASE LoadGrant(p)
    <3> DEFINE c == [[b EXCEPT !.grant = GrantRow(b.grantRef)] EXCEPT !.todo = @ \ {"grant"}]
    <3>1. call' = [call EXCEPT ![p] = c] /\ b # Idle /\ "grant" \in b.todo
      BY <2>6 DEF LoadGrant, Load
    <3>2. /\ c.stage = b.stage /\ c.grant = GrantRow(b.grantRef) /\ c.grantRef = b.grantRef
      BY <2>0, <3>1 DEF CallFields
    <3>3. b.stage = "LOAD"
      BY <2>0, <3>1 DEF TrueCopy
    <3> HIDE DEF c
    <3>4. c.grant.expiresAt = grant[c.grantRef].expiresAt
      BY <3>2 DEF GrantRow
    <3>5. TrueCopy(c, grant) /\ c.grantRef \in Grants /\ grant[c.grantRef] # None
      BY <2>0, <3>1, <3>2, <3>3, <3>4 DEF TrueCopy
    <3> QED  BY <3>1, <3>5, CopyOfOne
  <2>7. CASE Count(p) \/ Alert(p)
    <3> DEFINE d(stage) == [b EXCEPT !.stage = stage]
    <3>1. \A stage : /\ d(stage).grant = b.grant /\ d(stage).grantRef = b.grantRef
                   /\ d(stage).todo = b.todo
      BY <2>0, <2>7 DEF Count, Alert, CallFields
    <3>2. /\ b # Idle /\ b.stage # "LOAD"
          /\ call' = [call EXCEPT ![p] = d("ALERT")] \/ call' = [call EXCEPT ![p] = d("ANSWER")]
      BY <2>7 DEF Count, Alert
    <3> HIDE DEF d
    <3> QED  BY <2>2, <3>1, <3>2
  <2>8. CASE Decide(p) \/ DecideIdentity(p) \/ DecideCard(p)
    <3>0. b # Idle /\ DOMAIN b = CallFields
      BY <2>0, <2>8 DEF Decide, DecideIdentity, DecideCard, Loaded
    <3> DEFINE identity == [Loading(b, "VEHICLE") EXCEPT !.relied = Reliance(b),
                                                         !.used = Outcome(p).breakGlassUsed]
               card == [Decided(b, "ANSWER") EXCEPT !.relied = @ \cup Reliance(b),
                                                    !.used = @ \/ Outcome(p).breakGlassUsed]
               refused == Decided(b, "ANSWER")
               view == [Decided(b, IF "NOTIFY_SUPERVISOR" \in Outcome(p).obligations
                                   THEN "COUNT" ELSE "ANSWER")
                          EXCEPT !.relied = Reliance(b), !.used = Outcome(p).breakGlassUsed]
    <3>1. /\ identity.grant = None /\ card.grant = None /\ refused.grant = None /\ view.grant = None
          /\ identity.stage = "LOAD" /\ card.todo = {} /\ refused.todo = {} /\ view.todo = {}
      BY <3>0 DEF Loading, Decided, CallFields
    <3>2. \/ call' = [call EXCEPT ![p] = identity] \/ call' = [call EXCEPT ![p] = card]
          \/ call' = [call EXCEPT ![p] = refused] \/ call' = [call EXCEPT ![p] = view]
          \/ call' = [call EXCEPT ![p] = Idle]
      BY <2>8 DEF Decide, DecideIdentity, DecideCard
    <3> HIDE DEF identity, card, refused, view
    <3> QED  BY <2>1, <3>1, <3>2
  <2>9. CASE Answer(p) \/ Answer360(p) \/ Fail(p) \/ \E r \in Requests : InsertRequest(p, r)
    <3>1. call' = [call EXCEPT ![p] = Idle]
      BY <2>9 DEF Answer, Answer360, Fail, InsertRequest
    <3> QED  BY <2>1, <3>1
  <2> QED  BY <1>1, <2>3, <2>5, <2>6, <2>7, <2>8, <2>9 DEF Asks
<1>2. ASSUME NEW u \in Users, NEW r \in Requests, Decides(u, r)
      PROVE  UNCHANGED call
  BY <1>2 DEF Decides, ReadRequest, WriteDecision, FailDecision
<1>3. ASSUME NEW u \in Users, NEW g \in Grants, BreakGlass(u, g)
      PROVE  UNCHANGED call
  BY <1>3 DEF BreakGlass, InitiateBreakGlass, ReviewBreakGlass
<1>4. ASSUME ExpireGrants \/ ExpireRequests \/ Changes \/ Tick \/ UNCHANGED vars
      PROVE  UNCHANGED call
  BY <1>4 DEF ExpireGrants, ExpireRequests, Changes, CaseMoves, JoinsCase, IncidentMoves,
              JoinsIncident, AgreementChanges, Elsewhere, Tick, vars
<1> QED  BY <1>1, <1>2, <1>3, <1>4, CopiesUntouched DEF Next

\* What a step of one call does to who trusts which grant.
LEMMA OneTrusts ==
    ASSUME TypeInv, NEW p \in Calls, NEW c, call' = [call EXCEPT ![p] = c], UNCHANGED now,
           NEW g
    PROVE  Trusting(g)' = IF Good(c) /\ c.grantRef = g THEN Trusting(g) \cup {p}
                          ELSE Trusting(g) \ {p}
BY DEF TypeInv, CallsGood, Trusting, Good

\* A call trusts no grant but the one it names.
LEMMA TrustsItsOwn ==
    ASSUME NEW p \in Calls, NEW g, p \in Trusting(g)
    PROVE  call[p] # Idle /\ call[p].grantRef = g /\ Good(call[p])
BY DEF Trusting, Good

LEMMA GrantsUntouched ==
    ASSUME UNCHANGED <<grant, now>>
    PROVE  phases' = phases /\ counts' = counts
<1>1. \A g \in Grants : PhaseOf(g)' = PhaseOf(g) /\ CountOf(g)' = CountOf(g)
  BY DEF PhaseOf, Reviewed, CountOf, LiveGrant
<1> QED  BY <1>1 DEF phases, counts

\* A call that goes on with the copy it has, or without one.
LEMMA KeepsTrust ==
    ASSUME TypeInv, NEW p \in Calls, NEW c, call' = [call EXCEPT ![p] = c], UNCHANGED now,
           \/ c # Idle /\ call[p] # Idle /\ c.grant = call[p].grant /\ c.grantRef = call[p].grantRef
           \/ ~Good(c) /\ ~Good(call[p])
    PROVE  trust' = trust
<1>1. ASSUME NEW g \in Grants
      PROVE  Trusting(g)' = Trusting(g)
  <2>1. p \in Trusting(g) <=> Good(call[p]) /\ call[p].grantRef = g
    BY DEF Trusting, Good
  <2>2. Good(c) /\ c.grantRef = g <=> Good(call[p]) /\ call[p].grantRef = g
    BY DEF Good
  <2>3. Trusting(g)' = IF Good(c) /\ c.grantRef = g THEN Trusting(g) \cup {p}
                       ELSE Trusting(g) \ {p}
    BY OneTrusts
  <2>4. p \in Trusting(g) => Trusting(g) \cup {p} = Trusting(g)
    OBVIOUS
  <2>5. p \notin Trusting(g) => Trusting(g) \ {p} = Trusting(g)
    OBVIOUS
  <2> QED  BY <2>1, <2>2, <2>3, <2>4, <2>5
<1> QED  BY <1>1 DEF trust

\* A call that parts with its copy.
LEMMA PartsWithTrust ==
    ASSUME TypeInv, NEW p \in Calls, NEW c, call' = [call EXCEPT ![p] = c], UNCHANGED now, ~Good(c)
    PROVE  /\ \A g \in Grants : p \notin Trusting(g) => Trusting(g)' = Trusting(g)
           /\ \A g \in Grants : p \in Trusting(g) => trust' = [trust EXCEPT ![g] = @ \ {p}]
<1>1. \A g \in Grants : Trusting(g)' = Trusting(g) \ {p}
  BY OneTrusts
<1>2. ASSUME NEW g \in Grants, p \in Trusting(g)
      PROVE  trust' = [trust EXCEPT ![g] = @ \ {p}]
  <2>1. \A h \in Grants : h # g => Trusting(h)' = Trusting(h)
    BY <1>1, <1>2, TrustsItsOwn
  <2> QED  BY <1>1, <2>1 DEF trust
<1> QED  BY <1>1, <1>2

LetsGo == trust' = trust \/ \E p \in Calls, g \in Grants : trust' = [trust EXCEPT ![g] = @ \ {p}]

LEMMA CallLetsGo ==
    ASSUME TypeInv, NEW p \in Calls, NEW c, call' = [call EXCEPT ![p] = c], UNCHANGED now, ~Good(c)
    PROVE  LetsGo
<1>1. CASE \E g \in Grants : p \in Trusting(g)
  BY <1>1, PartsWithTrust DEF LetsGo
<1>2. CASE \A g \in Grants : p \notin Trusting(g)
  <2>1. \A g \in Grants : Trusting(g)' = Trusting(g)
    BY <1>2, PartsWithTrust
  <2> QED  BY <2>1 DEF LetsGo, trust
<1> QED  BY <1>1, <1>2

abstract == <<phases, trust, audited, counts, alerts, answered>>

LEMMA LettingGo ==
    ASSUME LetsGo, UNCHANGED <<grant, now, audited, alerts, answered>>
    PROVE  [Glass!Next]_abstract
<1>1. phases' = phases /\ counts' = counts
  BY GrantsUntouched
<1>2. CASE trust' = trust
  BY <1>1, <1>2 DEF abstract
<1>3. ASSUME NEW p \in Calls, NEW g \in Grants, trust' = [trust EXCEPT ![g] = @ \ {p}]
      PROVE  Glass!Next
  <2>1. Glass!LetGo(p, g)
    BY <1>1, <1>3 DEF Glass!LetGo, Glass!uses, phases, trust, counts
  <2> QED  BY <2>1 DEF Glass!Next
<1> QED  BY <1>2, <1>3 DEF LetsGo

\* Loading: of all rows only the grant's makes a call trust it, if it is alive and
\* unreviewed as it is read.
LEMMA LoadingGrant ==
    ASSUME TypeInv, NEW p \in Calls, LoadGrant(p)
    PROVE  [Glass!Next]_abstract
<1>g. PICK g : g = call[p].grantRef
  OBVIOUS
<1> DEFINE b == call[p]
           row == GrantRow(g)
           c == [[b EXCEPT !.grant = row] EXCEPT !.todo = @ \ {"grant"}]
<1>1. /\ b # Idle /\ DOMAIN b = CallFields
      /\ g \in Grants /\ grant[g] # None
      /\ call' = [call EXCEPT ![p] = c]
      /\ UNCHANGED <<grant, now, audited, alerts, answered>>
  BY <1>g, AccessAssumption DEF LoadGrant, Load, TypeInv, CallsGood, GoodCall, workVars, historyVars
<1>2. /\ c # Idle => c.grant = row /\ c.grantRef = g
      /\ row.status = grant[g].status /\ row.expiresAt = grant[g].expiresAt
  BY <1>g, <1>1 DEF CallFields, GrantRow
<1>3. phases' = phases /\ counts' = counts
  BY <1>1, GrantsUntouched
<1> HIDE DEF c, row
<1>4. CASE Good(c)
  <2>0. LiveGrant(g) /\ ~Reviewed(g)
    BY <1>1, <1>2, <1>4, AccessAssumption DEF LiveGrant, Reviewed, Good
  <2>1. PhaseOf(g) = "LIVE"
    BY <2>0 DEF PhaseOf, LiveGrant
  <2>2. Trusting(g)' = Trusting(g) \cup {p}
    BY <1>1, <1>2, <1>4, OneTrusts DEF Good
  <2>3. ASSUME NEW h \in Grants, h # g
        PROVE  Trusting(h)' = Trusting(h)
    <3>0. Trusting(h)' = IF Good(c) /\ c.grantRef = h THEN Trusting(h) \cup {p}
                         ELSE Trusting(h) \ {p}
      BY <1>1, OneTrusts
    <3>1. Trusting(h)' = Trusting(h) \ {p}
      BY <1>2, <1>4, <2>3, <3>0 DEF Good
    <3>2. p \notin Trusting(h)
      BY <1>g, <2>3, TrustsItsOwn
    <3>3. p \notin Trusting(h) => Trusting(h) \ {p} = Trusting(h)
      OBVIOUS
    <3> QED  BY <3>1, <3>2, <3>3
  <2>4. trust' = [trust EXCEPT ![g] = @ \cup {p}]
    BY <1>1, <2>2, <2>3 DEF trust
  <2>5. Glass!Find(p, g)
    BY <1>1, <1>3, <2>1, <2>4 DEF Glass!Find, Glass!uses, phases, trust, counts
  <2> QED  BY <1>1, <2>5 DEF Glass!Next
<1>5. CASE ~Good(c)
  BY <1>1, <1>5, CallLetsGo, LettingGo
<1> QED  BY <1>4, <1>5

\* The decision: a call that needs its grant has found it good.
LEMMA DecidingUse ==
    ASSUME TypeInv, NEW p \in Calls, Decide(p)
    PROVE  [Glass!Next]_abstract
<1>g. PICK g : g = call[p].grantRef
  OBVIOUS
<1> DEFINE b == call[p]
           c == [Decided(b, IF "NOTIFY_SUPERVISOR" \in Outcome(p).obligations
                            THEN "COUNT" ELSE "ANSWER")
                   EXCEPT !.relied = Reliance(b), !.used = Outcome(p).breakGlassUsed]
           d == IF Permitted(p) THEN c ELSE Idle
<1>1. /\ b # Idle /\ DOMAIN b = CallFields
      /\ call' = [call EXCEPT ![p] = d]
      /\ UNCHANGED <<grant, now, alerts, answered>>
  BY DEF Decide, Loaded, TypeInv, CallsGood, GoodCall, workVars
<1>2. c.grant = None
  BY <1>1 DEF Decided, CallFields
<1>3. ~Good(d)
  <2> HIDE DEF c
  <2> QED  BY <1>2 DEF Good
<1> HIDE DEF c, d
<1>4. phases' = phases /\ counts' = counts
  BY <1>1, GrantsUntouched
<1>5. CASE Permitted(p) /\ Outcome(p).breakGlassUsed
  <2>1. audited' = [audited EXCEPT ![g] = @ + 1]
    BY <1>g, <1>5 DEF Decide
  <2>2. GrantInScope(PolicyRequest(b).breakGlass, PolicyRequest(b))
    BY <1>5, UsedGrantIsInScope DEF Outcome
  <2>3. Good(b)
    BY <1>1, <2>2 DEF GrantInScope, PolicyRequest, Good
  <2>4. g \in Grants
    BY <1>g, <1>1, <2>3 DEF Good, TypeInv, CallsGood, GoodCall
  <2>5. p \in Trusting(g)
    BY <1>g, <1>1, <2>3 DEF Good, Trusting
  <2>6. trust' = [trust EXCEPT ![g] = @ \ {p}]
    BY <1>1, <1>3, <2>4, <2>5, PartsWithTrust
  <2>7. Glass!Use(p, g)
    BY <1>1, <1>4, <2>1, <2>4, <2>5, <2>6 DEF Glass!Use, phases, trust, counts
  <2> QED  BY <2>4, <2>7 DEF Glass!Next
<1>6. CASE ~(Permitted(p) /\ Outcome(p).breakGlassUsed)
  <2>1. audited' = audited
    BY <1>6 DEF Decide
  <2> QED  BY <1>1, <1>3, <2>1, CallLetsGo, LettingGo
<1> QED  BY <1>5, <1>6

\* The way of a use to its answer.
LEMMA DischargingUse ==
    ASSUME TypeInv, TypeInv', UsesInv', CopiesInv, NEW p \in Calls,
           Count(p) \/ Alert(p) \/ Answer(p)
    PROVE  [Glass!Next]_abstract
<1>g. PICK g : g = call[p].grantRef
  OBVIOUS
<1> DEFINE b == call[p]
<1>1. /\ b # Idle /\ DOMAIN b = CallFields /\ DOMAIN call = Calls
      /\ b.stage # "LOAD" => b.grant = None
      /\ b.stage \in {"COUNT", "ALERT"} \/ b.used => g \in Grants /\ grant[g] # None
      /\ UNCHANGED <<now, audited>>
  BY <1>g DEF Count, Alert, Answer, TypeInv, CallsGood, GoodCall, CopiesInv, TrueCopy, historyVars
<1>2. ASSUME NEW h \in Grants
      PROVE  answered'[h] <= alerts'[h] /\ alerts'[h] <= CountOf(h)' /\ CountOf(h)' <= audited'[h]
  <2>1. CountedBeforeAnswered'
    BY UsesImplyOrder, PTL
  <2> QED  BY <2>1 DEF CountedBeforeAnswered
<1>3. ASSUME NEW h \in Grants
      PROVE  /\ CountOf(h) \in Nat /\ alerts[h] \in Nat /\ audited[h] \in Nat /\ answered[h] \in Nat
             /\ DOMAIN alerts = Grants /\ DOMAIN answered = Grants
  BY CountIsNat DEF TypeInv, GrantTypes
<1>4. CASE Count(p)
  <2> DEFINE c == [b EXCEPT !.stage = "ALERT"]
  <2>1. call' = [call EXCEPT ![p] = c] /\ c.grant = b.grant /\ c.grantRef = g /\ c.grant = None
    BY <1>g, <1>1, <1>4 DEF Count, CallFields
  <2> HIDE DEF c
  <2>2. trust' = trust
    BY <1>g, <1>1, <2>1, KeepsTrust DEF Good
  <2>3. /\ g \in Grants /\ grant[g] \in GrantRows
        /\ grant' = [grant EXCEPT ![g].count = @ + 1] /\ DOMAIN grant = Grants
        /\ UNCHANGED <<alerts, answered>>
    BY <1>g, <1>1, <1>4 DEF Count, TypeInv, GrantTypes, historyVars
  <2>4. [grant[g] EXCEPT !.count = @ + 1] \in GrantRows
    BY <2>3 DEF GrantRows
  <2>5. /\ grant'[g] # None /\ grant'[g].count = grant[g].count + 1
        /\ grant'[g].status = grant[g].status /\ grant'[g].expiresAt = grant[g].expiresAt
        /\ \A h \in Grants : h # g => grant'[h] = grant[h]
    BY <2>3, <2>4, AccessAssumption DEF GrantRows
  <2>6. CountOf(g)' = CountOf(g) + 1 /\ \A h \in Grants : h # g => CountOf(h)' = CountOf(h)
    BY <1>g, <1>1, <1>4, <2>5 DEF CountOf, Count
  <2>7. \A h \in Grants : PhaseOf(h)' = PhaseOf(h)
    BY <1>1, <1>4, <2>5 DEF PhaseOf, Reviewed, LiveGrant, Count
  <2>8. counts' = [counts EXCEPT ![g] = @ + 1] /\ phases' = phases
    BY <2>3, <2>6, <2>7 DEF counts, phases
  <2>9. CountOf(g) < audited[g]
    BY <1>1, <1>2, <1>3, <2>3, <2>6
  <2>10. Glass!Count(g)
    BY <1>1, <2>2, <2>3, <2>8, <2>9 DEF Glass!Count, phases, trust, counts
  <2> QED  BY <2>3, <2>10 DEF Glass!Next
<1>5. CASE Alert(p)
  <2> DEFINE c == [b EXCEPT !.stage = "ANSWER"]
  <2>1. call' = [call EXCEPT ![p] = c] /\ c.grant = b.grant /\ c.grantRef = g /\ c.grant = None
    BY <1>g, <1>1, <1>5 DEF Alert, CallFields
  <2> HIDE DEF c
  <2>2. trust' = trust
    BY <1>g, <1>1, <2>1, KeepsTrust DEF Good
  <2>3. /\ g \in Grants /\ alerts' = [alerts EXCEPT ![g] = @ + 1]
        /\ UNCHANGED <<grant, answered>>
    BY <1>g, <1>1, <1>5 DEF Alert, historyVars
  <2>4. phases' = phases /\ counts' = counts /\ CountOf(g)' = CountOf(g)
    BY <1>1, <2>3, GrantsUntouched DEF CountOf
  <2>5. alerts[g] < CountOf(g)
    BY <1>2, <1>3, <2>3, <2>4
  <2>6. Glass!Alert(g)
    BY <1>1, <2>2, <2>3, <2>4, <2>5 DEF Glass!Alert, phases, trust, counts
  <2> QED  BY <2>3, <2>6 DEF Glass!Next
<1>6. CASE Answer(p)
  <2>1. call' = [call EXCEPT ![p] = Idle] /\ UNCHANGED <<grant, alerts>> /\ ~Good(Idle) /\ ~Good(b)
    BY <1>g, <1>1, <1>6 DEF Answer, workVars, Good
  <2>2. trust' = trust
    BY <1>1, <2>1, KeepsTrust
  <2>3. phases' = phases /\ counts' = counts
    BY <1>1, <2>1, GrantsUntouched
  <2>4. CASE b.used
    <3>1. g \in Grants /\ answered' = [answered EXCEPT ![g] = @ + 1]
      BY <1>g, <1>1, <1>6, <2>4 DEF Answer
    <3>2. answered[g] < alerts[g]
      BY <1>2, <1>3, <2>1, <3>1
    <3>3. Glass!Answer(g)
      BY <1>1, <2>1, <2>2, <2>3, <3>1, <3>2 DEF Glass!Answer, phases, trust, counts
    <3> QED  BY <3>1, <3>3 DEF Glass!Next
  <2>5. CASE ~b.used
    BY <1>1, <1>6, <2>1, <2>2, <2>3, <2>5 DEF Answer, abstract
  <2> QED  BY <2>4, <2>5
<1> QED  BY <1>4, <1>5, <1>6

\* Nobody trusts a grant that does not exist, or whose time is over.
LEMMA NobodyTrusts ==
    ASSUME TypeInv, CopiesInv, NEW g \in Grants, grant[g] = None \/ grant[g].expiresAt <= now
    PROVE  Trusting(g) = {}
<1> SUFFICES ASSUME NEW p \in Trusting(g) PROVE FALSE
  OBVIOUS
<1>1. /\ p \in Calls /\ call[p] # Idle /\ call[p].grantRef = g /\ call[p].grant # None
      /\ call[p].grant.expiresAt > now
  BY DEF Trusting
<1>2. grant[g] # None
  BY <1>1 DEF TypeInv, CallsGood, GoodCall
<1>3. call[p].grant.expiresAt = grant[g].expiresAt
  BY <1>1 DEF CopiesInv, TrueCopy
<1>4. grant[g].expiresAt \in Nat /\ now \in Nat
  BY <1>2, AccessAssumption DEF TypeInv, GrantTypes, GrantRows, PlaceTypes
<1> QED  BY <1>1, <1>2, <1>3, <1>4

\* Taking a grant, ruling on it, and its time.
LEMMA GrantsMove ==
    ASSUME TypeInv, CopiesInv, NEW u \in Users, NEW g \in Grants, BreakGlass(u, g)
    PROVE  [Glass!Next]_abstract
<1> USE AccessAssumption
<1>0. /\ UNCHANGED <<now, call, audited, alerts, answered>>
      /\ now \in Nat /\ DOMAIN grant = Grants
  BY DEF BreakGlass, InitiateBreakGlass, ReviewBreakGlass, historyVars, TypeInv, PlaceTypes, GrantTypes
<1>1. trust' = trust
  BY <1>0 DEF trust, Trusting
<1>2. ASSUME NEW row \in GrantRows, NEW phase, grant' = [grant EXCEPT ![g] = row],
             row.count = CountOf(g), PhaseOf(g)' = phase
      PROVE  counts' = counts /\ phases' = [phases EXCEPT ![g] = phase]
  <2>1. ASSUME NEW h \in Grants, h # g
        PROVE  CountOf(h)' = CountOf(h) /\ PhaseOf(h)' = PhaseOf(h)
    BY <1>0, <1>2, <2>1 DEF CountOf, PhaseOf, Reviewed, LiveGrant
  <2>2. CountOf(g)' = CountOf(g)
    <3>1. grant'[g] = row /\ row # None
      BY <1>0, <1>2
    <3> QED  BY <1>2, <3>1 DEF CountOf
  <2> QED  BY <1>2, <2>1, <2>2 DEF counts, phases
<1>3. ASSUME NEW gates \in GateSets, NEW ttl \in 1..BREAK_GLASS_MAX_TTL,
             InitiateBreakGlass(u, g, gates, ttl)
      PROVE  Glass!Take(g)
  <2> DEFINE row == [userId |-> u, type |-> "CITIZEN", gates |-> gates, status |-> "ACTIVE",
                     expiresAt |-> now + ttl, count |-> 0]
  <2>1. grant[g] = None /\ grant' = [grant EXCEPT ![g] = row]
    BY <1>3 DEF InitiateBreakGlass
  <2>2. row \in GrantRows /\ row.count = 0 /\ row.status = "ACTIVE" /\ row.expiresAt > now
    <3>1. now + ttl \in Nat /\ now + ttl > now
      BY <1>0
    <3> QED  BY <3>1 DEF GrantRows
  <2> HIDE DEF row
  <2>3. PhaseOf(g) = "NONE" /\ PhaseOf(g)' = "LIVE" /\ CountOf(g) = 0
    <3>1. grant'[g] = row /\ row # None
      BY <1>0, <2>1, <2>2
    <3> QED  BY <1>0, <2>1, <2>2, <3>1 DEF PhaseOf, Reviewed, LiveGrant, CountOf
  <2>4. counts' = counts /\ phases' = [phases EXCEPT ![g] = "LIVE"]
    BY <1>2, <2>1, <2>2, <2>3
  <2>5. Trusting(g) = {}
    BY <2>1, NobodyTrusts
  <2> QED  BY <1>0, <1>1, <2>3, <2>4, <2>5 DEF Glass!Take, Glass!uses, phases, trust, counts
<1>4. ASSUME ReviewBreakGlass(u, g)
      PROVE  Glass!Review(g)
  <2>0. PICK verdict \in Verdicts : grant' = [grant EXCEPT ![g].status = verdict]
    BY <1>4 DEF ReviewBreakGlass
  <2> DEFINE row == [grant[g] EXCEPT !.status = verdict]
  <2>1. grant[g] # None /\ grant[g] \in GrantRows /\ grant' = [grant EXCEPT ![g] = row]
    BY <1>4, <2>0 DEF ReviewBreakGlass, TypeInv, GrantTypes
  <2>2. row \in GrantRows /\ row.count = grant[g].count /\ row.status \in Verdicts
    BY <2>1 DEF GrantRows
  <2> HIDE DEF row
  <2>3. PhaseOf(g) # "NONE" /\ PhaseOf(g)' = "REVIEWED" /\ CountOf(g) = row.count
    <3>1. grant'[g] = row /\ row # None /\ row.status # "ACTIVE"
      BY <1>0, <2>1, <2>2, AccessAssumption
    <3>2. Reviewed(g)' /\ ~LiveGrant(g)'
      BY <2>2, <3>1 DEF Reviewed, LiveGrant
    <3>3. PhaseOf(g)' = "REVIEWED"
      BY <3>1, <3>2 DEF PhaseOf
    <3> QED  BY <2>1, <2>2, <3>3 DEF PhaseOf, CountOf
  <2>4. counts' = counts /\ phases' = [phases EXCEPT ![g] = "REVIEWED"]
    BY <1>2, <2>1, <2>2, <2>3
  <2> QED  BY <1>0, <1>1, <2>3, <2>4 DEF Glass!Review, Glass!uses, phases, trust, counts
<1> QED  BY <1>3, <1>4 DEF BreakGlass, Glass!Next

LEMMA GrantsExpire ==
    ASSUME TypeInv, ExpireGrants
    PROVE  UNCHANGED abstract
<1>0. UNCHANGED <<now, call, audited, alerts, answered>>
  BY DEF ExpireGrants, historyVars
<1>1. ASSUME NEW g \in Grants
      PROVE  CountOf(g)' = CountOf(g) /\ PhaseOf(g)' = PhaseOf(g)
  <2>1. CASE GrantIsStale(g)
    <3> DEFINE row == [grant[g] EXCEPT !.status = "EXPIRED"]
    <3>1. grant[g] # None /\ grant[g] \in GrantRows /\ grant'[g] = row
      BY <2>1 DEF GrantIsStale, ExpireGrants, TypeInv, GrantTypes
    <3>2. /\ row \in GrantRows /\ row.count = grant[g].count /\ row.status = "EXPIRED"
          /\ row # None
      BY <3>1, AccessAssumption DEF GrantRows
    <3>3. grant[g].status = "ACTIVE" /\ ~(grant[g].expiresAt > now)
      <4>1. grant[g].expiresAt \in Nat /\ now \in Nat
        BY <3>1, AccessAssumption DEF GrantRows, TypeInv, PlaceTypes
      <4> QED  BY <2>1, <4>1 DEF GrantIsStale
    <3> HIDE DEF row
    <3>4. ~LiveGrant(g) /\ ~LiveGrant(g)' /\ ~Reviewed(g) /\ ~Reviewed(g)'
      BY <3>1, <3>2, <3>3, AccessAssumption DEF LiveGrant, Reviewed
    <3> QED  BY <3>1, <3>2, <3>4 DEF CountOf, PhaseOf
  <2>2. CASE ~GrantIsStale(g)
    <3>1. grant'[g] = grant[g]
      BY <2>2 DEF ExpireGrants
    <3> QED  BY <1>0, <3>1 DEF CountOf, PhaseOf, Reviewed, LiveGrant
  <2> QED  BY <2>1, <2>2
<1>2. trust' = trust
  BY <1>0 DEF trust, Trusting
<1> QED  BY <1>0, <1>1, <1>2 DEF abstract, phases, counts

\* The clock: grants whose time is up lapse, and so does every copy of them.
LEMMA GrantsLapse ==
    ASSUME TypeInv, TypeInv', CopiesInv, CopiesInv', Tick
    PROVE  [Glass!Next]_abstract
<1> DEFINE gone == {g \in Grants : grant[g] # None /\ grant[g].expiresAt <= now + 1}
<1>0. /\ now' = now + 1 /\ now \in Nat
      /\ UNCHANGED <<grant, call, audited, alerts, answered>>
  BY AccessAssumption DEF Tick, workVars, historyVars, TypeInv, PlaceTypes
<1>1. \A g \in Grants : grant[g] # None => grant[g].expiresAt \in Nat
  BY DEF TypeInv, GrantTypes, GrantRows
<1>2. counts' = counts
  BY <1>0 DEF counts, CountOf
<1>3. \A g \in gone : PhaseOf(g) # "NONE"
  BY DEF PhaseOf
<1>4. ASSUME NEW g \in Grants
      PROVE  PhaseOf(g)' = IF g \in gone /\ PhaseOf(g) = "LIVE" THEN "LAPSED" ELSE PhaseOf(g)
  BY <1>0, <1>1 DEF PhaseOf, Reviewed, LiveGrant
<1>5. ASSUME NEW g \in gone
      PROVE  Trusting(g)' = {}
  <2> SUFFICES ASSUME NEW p \in Calls, call[p] # Idle, call[p].grantRef = g, call[p].grant # None,
                      call[p].grant.expiresAt > now + 1
               PROVE  FALSE
    BY <1>0 DEF Trusting
  <2>1. call[p].grant.expiresAt = grant[g].expiresAt
    BY DEF CopiesInv, TrueCopy
  <2> QED  BY <1>0, <1>1, <2>1
<1>6. ASSUME NEW g \in Grants, g \notin gone
      PROVE  Trusting(g)' = Trusting(g)
  <2>1. CASE grant[g] = None
    <3>1. Trusting(g) = {}
      BY <2>1, NobodyTrusts
    <3>2. Trusting(g)' = {}
      <4>1. ASSUME NEW p \in Calls, call[p] # Idle, call[p].grantRef = g, call[p].grant # None
            PROVE  FALSE
        BY <2>1, <4>1 DEF TypeInv, CallsGood, GoodCall
      <4> QED  BY <1>0, <4>1 DEF Trusting
    <3> QED  BY <3>1, <3>2
  <2>2. CASE grant[g] # None
    <3>1. grant[g].expiresAt > now + 1 /\ grant[g].expiresAt > now
      BY <1>0, <1>1, <1>6, <2>2
    <3>2. ASSUME NEW p \in Calls, call[p] # Idle, call[p].grantRef = g, call[p].grant # None
          PROVE  call[p].grant.expiresAt = grant[g].expiresAt
      BY <3>2 DEF CopiesInv, TrueCopy
    <3> QED  BY <1>0, <3>1, <3>2 DEF Trusting
  <2> QED  BY <2>1, <2>2
<1> HIDE DEF gone
<1>7. Glass!Lapse(gone) /\ gone \in SUBSET Grants
  <2>1. gone \subseteq Grants
    BY DEF gone
  <2> QED  BY <1>0, <1>2, <1>3, <1>4, <1>5, <1>6, <2>1
           DEF Glass!Lapse, Glass!uses, phases, trust, counts
<1> QED  BY <1>7 DEF Glass!Next

LEMMA BreakGlassStep ==
    ASSUME TypeInv, TypeInv', UsesInv', CopiesInv, CopiesInv', [Next]_vars
    PROVE  [Glass!Next]_abstract
<1>1. ASSUME NEW p \in Calls, Asks(p)
      PROVE  [Glass!Next]_abstract
  <2> DEFINE b == call[p]
  <2>0. b # Idle => DOMAIN b = CallFields
    BY DEF TypeInv, CallsGood, GoodCall
  <2>1. ASSUME NEW i \in Intents, NEW g \in Grants \cup {None}, Begin(p, i, g)
        PROVE  [Glass!Next]_abstract
    <3> DEFINE c == Loading([intent |-> i, grantRef |-> g, agreement |-> agreement,
                    card |-> "CITIZEN", stage |-> "LOAD", todo |-> {}, case |-> NoCase,
                    incident |-> NoIncident, grant |-> None, approvals |-> {}, relied |-> {},
                    used |-> FALSE], "CITIZEN")
    <3>1. /\ call' = [call EXCEPT ![p] = c]
          /\ UNCHANGED <<grant, now, audited, alerts, answered>>
      BY <2>1 DEF Begin, workVars, historyVars
    <3>2. ~Good(c)
      BY DEF Loading, Good
    <3> HIDE DEF c
    <3> QED  BY <3>1, <3>2, CallLetsGo, LettingGo
  <2>2. ASSUME NEW what, NEW first, NEW loaded, Load(p, what, first, loaded),
               DOMAIN loaded = CallFields, loaded.grantRef = b.grantRef, loaded.grant = b.grant
        PROVE  [Glass!Next]_abstract
    <3> DEFINE c == [loaded EXCEPT !.todo = @ \ {what}]
    <3>1. /\ call' = [call EXCEPT ![p] = c] /\ b # Idle
          /\ UNCHANGED <<grant, now, audited, alerts, answered>>
      BY <2>2 DEF Load, workVars, historyVars
    <3>2. c.grant = b.grant /\ c.grantRef = b.grantRef
      BY <2>2 DEF CallFields
    <3> HIDE DEF c
    <3>3. CASE c = Idle
      BY <3>1, <3>3, CallLetsGo, LettingGo DEF Good
    <3>4. CASE c # Idle
      <4>1. trust' = trust
        BY <3>1, <3>2, <3>4, KeepsTrust
      <4> QED  BY <3>1, <4>1, LettingGo DEF LetsGo
    <3> QED  BY <3>3, <3>4
  <2>3. ASSUME \/ LoadCase(p) \/ LoadTeam(p) \/ LoadIncident(p) \/ LoadCrew(p) \/ LoadRoster(p)
               \/ LoadApprovals(p)
        PROVE  [Glass!Next]_abstract
    <3>1. DOMAIN b = CallFields
      BY <2>0, <2>3 DEF LoadCase, LoadTeam, LoadIncident, LoadCrew, LoadRoster, LoadApprovals, Load
    <3>2. CASE LoadCase(p)
      BY <2>2, <3>1, <3>2 DEF LoadCase, CallFields
    <3>3. CASE LoadTeam(p)
      BY <2>2, <3>1, <3>3 DEF LoadTeam, CallFields
    <3>4. CASE LoadIncident(p)
      BY <2>2, <3>1, <3>4 DEF LoadIncident, CallFields
    <3>5. CASE LoadCrew(p)
      BY <2>2, <3>1, <3>5 DEF LoadCrew, CallFields
    <3>6. CASE LoadRoster(p)
      BY <2>2, <3>1, <3>6 DEF LoadRoster, CallFields
    <3>7. CASE LoadApprovals(p)
      BY <2>2, <3>1, <3>7 DEF LoadApprovals, CallFields
    <3> QED  BY <2>3, <3>2, <3>3, <3>4, <3>5, <3>6, <3>7
  <2>4. CASE DecideIdentity(p) \/ DecideCard(p)
    <3>0. /\ b # Idle /\ DOMAIN b = CallFields
          /\ UNCHANGED <<grant, now, audited, alerts, answered>>
      BY <2>0, <2>4 DEF DecideIdentity, DecideCard, Loaded, workVars, historyVars
    <3> DEFINE identity == [Loading(b, "VEHICLE") EXCEPT !.relied = Reliance(b),
                                                         !.used = Outcome(p).breakGlassUsed]
               card == [Decided(b, "ANSWER") EXCEPT !.relied = @ \cup Reliance(b),
                                                    !.used = @ \/ Outcome(p).breakGlassUsed]
               refused == Decided(b, "ANSWER")
    <3>1. identity.grant = None /\ card.grant = None /\ refused.grant = None
      BY <3>0 DEF Loading, Decided, CallFields
    <3>2. \/ call' = [call EXCEPT ![p] = identity] \/ call' = [call EXCEPT ![p] = card]
          \/ call' = [call EXCEPT ![p] = refused] \/ call' = [call EXCEPT ![p] = Idle]
      BY <2>4 DEF DecideIdentity, DecideCard
    <3> HIDE DEF identity, card, refused
    <3>3. ~Good(identity) /\ ~Good(card) /\ ~Good(refused) /\ ~Good(Idle)
      BY <3>1 DEF Good
    <3>4. LetsGo
      BY <3>0, <3>2, <3>3, CallLetsGo
    <3> QED  BY <3>0, <3>4, LettingGo
  <2>5. CASE Answer360(p) \/ Fail(p) \/ \E r \in Requests : InsertRequest(p, r)
    <3>1. /\ call' = [call EXCEPT ![p] = Idle] /\ ~Good(Idle)
          /\ UNCHANGED <<grant, now, audited, alerts, answered>>
      BY <2>5 DEF Answer360, Fail, InsertRequest, workVars, historyVars, Good
    <3> QED  BY <3>1, CallLetsGo, LettingGo
  <2> QED  BY <1>1, <2>1, <2>3, <2>4, <2>5, LoadingGrant, DecidingUse, DischargingUse DEF Asks
<1>2. ASSUME UNCHANGED <<grant, now, call, audited, alerts, answered>>
      PROVE  UNCHANGED abstract
  BY <1>2, GrantsUntouched DEF abstract, trust, Trusting
<1>3. ASSUME NEW u \in Users, NEW r \in Requests, Decides(u, r)
      PROVE  UNCHANGED abstract
  BY <1>2, <1>3 DEF Decides, ReadRequest, WriteDecision, FailDecision, historyVars
<1>4. CASE ExpireRequests \/ Changes \/ UNCHANGED vars
  BY <1>2, <1>4 DEF ExpireRequests, Changes, CaseMoves, JoinsCase, IncidentMoves, JoinsIncident,
                    AgreementChanges, Elsewhere, vars, workVars, historyVars
<1> QED  BY <1>1, <1>3, <1>4, GrantsMove, GrantsExpire, GrantsLapse DEF Next

\* Every behaviour of the service is one that break glass promises: a grant is used
\* only by a call that found it alive and unreviewed, never after its time, and each
\* use is audited, counted, put before a supervisor and then answered, whatever other
\* calls, reviews, failures and expiries come between (authorize,
\* dischargeObligations, reviewBreakGlass, expireStaleGrants).
THEOREM ServiceKeepsBreakGlass == Spec => BreakGlassSpec
<1>1. Init => Glass!Init
  <2> SUFFICES ASSUME Init PROVE Glass!Init
    OBVIOUS
  <2>1. ASSUME NEW g \in Grants
        PROVE  PhaseOf(g) = "NONE" /\ Trusting(g) = {} /\ CountOf(g) = 0
    <3>1. grant[g] = None
      BY DEF Init
    <3>2. \A p \in Calls : call[p] = Idle
      BY DEF Init
    <3>3. PhaseOf(g) = "NONE"
      BY <3>1 DEF PhaseOf, Reviewed, LiveGrant
    <3> QED  BY <3>1, <3>2, <3>3 DEF Trusting, CountOf
  <2> QED  BY <2>1 DEF Init, Glass!Init
<1>2. Init => CopiesInv
  BY DEF Init, CopiesInv
<1>3. /\ TypeInv /\ TypeInv' /\ UsesInv /\ CopiesInv /\ [Next]_vars => CopiesInv'
      /\ TypeInv /\ TypeInv' /\ UsesInv /\ [Next]_vars => UsesInv'
  BY CopiesStep, UsesStep
<1>4. TypeInv /\ TypeInv' /\ UsesInv' /\ CopiesInv /\ CopiesInv' /\ [Next]_vars
        => [Glass!Next]_Glass!glassVars
  BY BreakGlassStep DEF Glass!glassVars, abstract, phases, trust, counts
<1> QED  BY <1>1, <1>2, <1>3, <1>4, UsesInit, TypeInvariant, PTL
         DEF Spec, BreakGlassSpec, Glass!Spec
==============================================================================
