---------------------------- MODULE PolicyEngine ----------------------------
(***************************************************************************)
(* The policy engine (packages/policy): evaluate() is a pure function from *)
(* a request, with the evidence the caller has gathered for it, to a       *)
(* decision.  A gate is a predicate; the code of a refusal and its wording *)
(* are left out, and of the order of the gates only what it decides: which *)
(* refusals of the case gate come before the one no grant can relax.       *)
(***************************************************************************)
EXTENDS Vocabulary, Integers

CONSTANTS
    Catalogue,            \* field -> its definition in the field catalogue
    BREAK_GLASS_MAX_TTL,  \* one hour, in the units of the clock of the requests
    None                  \* null

RANKS == [PUBLIC |-> 0, INTERNAL |-> 1, CONFIDENTIAL |-> 2, SENSITIVE |-> 3,
          HIGHLY_RESTRICTED |-> 4, LAW_ENFORCEMENT_RESTRICTED |-> 5]

\* What a resident may report about somebody else.
CITIZEN_THIRD_PARTY_REPORT_ACTIONS == {"INCIDENT_CREATE", "MISSING_PERSON_CREATE"}

Compartmented == {"LAW_ENFORCEMENT_RESTRICTED"}

ACTIVE_CASE_STATUSES     == {"OPEN", "ACTIVE", "PENDING_REVIEW"}
ACTIVE_INCIDENT_STATUSES == {"REPORTED", "VERIFIED", "DISPATCHED", "ON_SCENE", "CONTAINED"}

-----------------------------------------------------------------------------
(***************************************************************************)
(* The gates that nothing relaxes.                                         *)
(***************************************************************************)
RankDominates(clearance, required) == RANKS[clearance] >= RANKS[required]

\* The lower of what the person and what the agency is cleared for.
EffectiveClearance(s) ==
    IF RANKS[s.agencyMaxClassification] < RANKS[s.clearance]
    THEN s.agencyMaxClassification ELSE s.clearance

IsCitizen(r)  == r.subject.actorType = "CITIZEN"
OfAnAgency(r) == r.subject.actorType \notin {"CITIZEN", "SYSTEM"}

AccountStandingGate(r) == r.subject.accountStatus = "ACTIVE"

AgencyStandingGate(r) ==
    OfAnAgency(r) => r.subject.agencyId # None /\ r.subject.agencyStatus = "ACTIVE"

DataSharingAgreementGate(r) ==
    OfAnAgency(r) /\ r.action \in CITIZEN_DATA_ACTIONS
        => r.subject.dataSharingAgreement = "SIGNED"

AuthenticationGate(r) ==
    /\ r.subject.actorType = "GOVERNMENT_USER" => r.subject.mfaEnrolled
    /\ r.subject.actorType \in {"API_CLIENT", "INTEGRATION"}
           => r.subject.authenticationLevel = "AAL2"

StepUpGate(r) == r.action \in STEP_UP_ACTIONS => r.subject.authenticationLevel = "AAL2"

RbacGate(r) == r.action \in r.subject.actions

ResourceTypeGate(r) == r.resource.type \in ACTION_RESOURCE_TYPES[r.action]

\* A window whose end is before its start crosses midnight; the day is that of
\* the hour asked about, not that of the shift's start.
AccessWindowGate(r) ==
    LET w == r.subject.accessWindow IN
    w # None =>
        /\ r.weekday \in w.daysOfWeek
        /\ IF w.startHour <= w.endHour
           THEN r.hour >= w.startHour /\ r.hour < w.endHour
           ELSE r.hour >= w.startHour \/ r.hour < w.endHour

SeparationOfDutyGate(r) ==
    r.action \in SELF_ADMINISTRATION_SENSITIVE_ACTIONS /\ r.resource.type = "GOVERNMENT_USER"
        => r.resource.id # r.subject.userId

\* What a resident may do: under two purposes, under the emergency one only
\* report, and to their own record unless they report about somebody else.
SelfServiceScopeGate(r) ==
    IsCitizen(r) =>
        /\ r.purpose \in SELF \cup {"EMERGENCY_RESPONSE"}
        /\ r.purpose \in EMERGENCY => r.action = "INCIDENT_CREATE"
        /\ r.subject.subjectPcid # None
        /\ \/ r.resource.subjectPcid \in {None, r.subject.subjectPcid}
           \/ r.action \in CITIZEN_THIRD_PARTY_REPORT_ACTIONS /\ r.resource.id = None

PurposeGate(r) == r.purpose \in ACTION_PURPOSES[r.action]

CompartmentGate(r) ==
    r.resource.classification \in Compartmented
        => r.resource.classification \in r.subject.compartments

ClassificationRankGate(r) ==
    RankDominates(EffectiveClearance(r.subject), r.resource.classification)

HardGates(r) ==
    /\ AccountStandingGate(r)
    /\ AgencyStandingGate(r)
    /\ DataSharingAgreementGate(r)
    /\ AuthenticationGate(r)
    /\ StepUpGate(r)
    /\ RbacGate(r)
    /\ ResourceTypeGate(r)
    /\ AccessWindowGate(r)
    /\ SeparationOfDutyGate(r)
    /\ SelfServiceScopeGate(r)
    /\ PurposeGate(r)
    /\ CompartmentGate(r)
    /\ ClassificationRankGate(r)

-----------------------------------------------------------------------------
(***************************************************************************)
(* The binding gates, which a grant in scope may stand in for.             *)
(***************************************************************************)
JurisdictionGate(r) ==
    LET j == r.subject.jurisdiction
        k == r.resource
    IN  OfAnAgency(r) /\ j.scope # "STATE" /\ k.lgaCode # None =>
            /\ k.lgaCode \in j.lgaCodes
            /\ j.scope = "WARD" /\ k.wardCode # None => k.wardCode \in j.wardCodes

\* A case record action addresses one case only when it names one.
CaseBound(r) ==
    /\ r.purpose \in INVESTIGATION
    /\ r.action \notin BINDING_EXEMPT_ACTIONS
    /\ \/ r.action \in CITIZEN_DATA_ACTIONS \cup {"CASE_LINK_SUBJECT"}
       \/ /\ r.action \in CASE_RECORD_ACTIONS
          /\ r.caseContext # None \/ r.resource.id # None
    /\ ~IsCitizen(r)

InOwningAgency(r) == r.caseContext.agencyId = r.subject.agencyId

\* Assigning takes the authority of the agency, everything else an assignment
\* of one's own; a supervisor of another agency has none.
MayWorkCase(r) ==
    LET c == r.caseContext
        u == r.subject.userId
    IN  IF r.action = "CASE_ASSIGN" THEN InOwningAgency(r)
        ELSE \/ u \in c.assignedUserIds
             \/ u \in c.supervisorUserIds /\ InOwningAgency(r)

\* What is looked at before the classification of the case.
CaseAuthority(r) ==
    /\ r.caseContext # None
    /\ r.caseContext.status \in ACTIVE_CASE_STATUSES
    /\ MayWorkCase(r)

CaseWithinClearance(r) ==
    RankDominates(EffectiveClearance(r.subject), r.caseContext.classification)

CaseLinkage(r) ==
    r.action \in CASE_LINKAGE_REQUIRED_ACTIONS
        => r.caseContext.caseId \in r.resource.linkedCaseIds

CaseBindingGate(r) ==
    CaseBound(r) => CaseAuthority(r) /\ CaseWithinClearance(r) /\ CaseLinkage(r)

\* The one refusal of the gate that a grant cannot stand in for, given when the
\* case would otherwise have carried the access.
CaseAboveClearance(r) == CaseBound(r) /\ CaseAuthority(r) /\ ~CaseWithinClearance(r)

IncidentBound(r) ==
    /\ r.purpose \in EMERGENCY
    /\ r.action \notin BINDING_EXEMPT_ACTIONS
    /\ \/ r.action \in CITIZEN_DATA_ACTIONS
       \/ /\ r.action \in INCIDENT_RECORD_ACTIONS
          /\ r.incidentContext # None \/ r.resource.id # None
    /\ ~IsCitizen(r)

IncidentBindingGate(r) ==
    LET i == r.incidentContext IN
    IncidentBound(r) =>
        /\ i # None
        /\ \/ r.action \in {"INCIDENT_CLOSE", "INCIDENT_VIEW"}
           \/ i.status \in ACTIVE_INCIDENT_STATUSES
        /\ \/ r.subject.userId \in i.assignedUserIds
           \/ r.subject.agencyId # None /\ r.subject.agencyId \in i.assignedAgencyIds

BindingGate(r, g) ==
    CASE g = "JURISDICTION"     -> JurisdictionGate(r)
      [] g = "CASE_BINDING"     -> CaseBindingGate(r)
      [] g = "INCIDENT_BINDING" -> IncidentBindingGate(r)

BindingGates == {"JURISDICTION", "CASE_BINDING", "INCIDENT_BINDING"}

\* Mutation of GrantInScope: a grant that was reviewed or ran out still counts.
GrantInScopeReviewed(grant, r) ==
    /\ grant # None
    /\ grant.userId = r.subject.userId
    /\ grant.expiresAt > r.now
    /\ grant.resourceType = r.resource.type
    /\ grant.subjectPcid \in {None, r.resource.subjectPcid}

\* The grant is this person's, alive, and about this record.
GrantInScope(grant, r) ==
    /\ grant # None
    /\ grant.status = "ACTIVE"
    /\ grant.userId = r.subject.userId
    /\ grant.expiresAt > r.now
    /\ grant.resourceType = r.resource.type
    /\ grant.subjectPcid \in {None, r.resource.subjectPcid}

BreakGlassSatisfies(r, g) ==
    /\ GrantInScope(r.breakGlass, r)
    /\ r.breakGlass.expiresAt - r.now <= BREAK_GLASS_MAX_TTL
    /\ g \in r.breakGlass.gates

\* The gates the request fails by itself.
RelaxedGates(r) == {g \in BindingGates : ~BindingGate(r, g)}

Bound(r) ==
    /\ ~CaseAboveClearance(r)
    /\ \A g \in RelaxedGates(r) : BreakGlassSatisfies(r, g)

-----------------------------------------------------------------------------
(***************************************************************************)
(* computeFieldRelease().                                                  *)
(***************************************************************************)
Candidates(r) ==
    {f \in DOMAIN Catalogue :
        /\ Catalogue[f].resourceType = r.resource.type
        /\ r.resource.requestedFields # None => f \in r.resource.requestedFields}

\* Everything that must hold of a field but the approval.
Releasable(r, f) ==
    LET d == Catalogue[f] IN
    /\ r.purpose \in d.purposes
    /\ RankDominates(EffectiveClearance(r.subject), d.classification)
    /\ d.classification \in Compartmented => d.classification \in r.subject.compartments
    /\ IsCitizen(r) =>
           IF r.action \in MUTATING_ACTIONS THEN d.selfServiceEditable ELSE d.selfServiceVisible
    /\ r.action = "EMERGENCY_PROFILE_VIEW" => d.emergencyProfile
    /\ r.action \in SEARCH_ACTIONS => RANKS[d.classification] <= RANKS["INTERNAL"]

NeedsApproval(r, f) == Catalogue[f].requiresApproval /\ ~IsCitizen(r)

ApprovalCovers(a, r, f) ==
    /\ a.userId = r.subject.userId
    /\ a.expiresAt > r.now
    /\ a.resourceType = r.resource.type
    /\ a.purpose = r.purpose
    /\ a.subjectPcid \in {None, r.resource.subjectPcid}
    /\ f \in a.approvedFields

Approved(r, f) == \E a \in r.approvals : ApprovalCovers(a, r, f)

BreakGlassCoversFieldApproval(r) ==
    GrantInScope(r.breakGlass, r) /\ "FIELD_APPROVAL" \in r.breakGlass.gates

AllowedFields(r) ==
    {f \in Candidates(r) :
        /\ Releasable(r, f)
        /\ NeedsApproval(r, f) => Approved(r, f) \/ BreakGlassCoversFieldApproval(r)}

\* The fields that only the grant releases.
GrantedFields(r) == {f \in AllowedFields(r) : NeedsApproval(r, f) /\ ~Approved(r, f)}

-----------------------------------------------------------------------------
(***************************************************************************)
(* evaluate().                                                             *)
(***************************************************************************)
Permits(r) ==
    /\ HardGates(r)
    /\ Bound(r)
    /\ r.action \in CITIZEN_DATA_ACTIONS => AllowedFields(r) # {}

BreakGlassUsed(r) == RelaxedGates(r) # {} \/ GrantedFields(r) # {}

\* Of the obligations, those somebody acts on.
Evaluate(r) ==
    IF Permits(r)
    THEN [effect         |-> "PERMIT",
          allowedFields  |-> AllowedFields(r),
          breakGlassUsed |-> BreakGlassUsed(r),
          obligations    |-> {"AUDIT"} \cup (IF BreakGlassUsed(r) THEN {"NOTIFY_SUPERVISOR"} ELSE {})]
    ELSE [effect         |-> "DENY",
          allowedFields  |-> {},
          breakGlassUsed |-> FALSE,
          obligations    |-> {"AUDIT"}]
=============================================================================
