------------------------------- MODULE Routes -------------------------------
(***************************************************************************)
(* The surface of the API: the routes of every controller, the actions     *)
(* each documents (documentRoute) and what its handler asks the policy     *)
(* engine for: functions of the handler's name, in ...Docs the one and in  *)
(* ...Routes the other.                                                    *)
(*                                                                         *)
(* What a handler validates and answers is left out: the modules of the    *)
(* services are about that.  Kept are the questions it puts to the engine, *)
(* with the purpose and the type of record, whether the route demands a    *)
(* recent second factor, and the case or incident the path names.          *)
(***************************************************************************)
EXTENDS PolicyEngine

Ask(action, purposes, type) == [action |-> action, purposes |-> purposes, type |-> type]

\* The purpose is the caller's, out of all there are.
Stated(action, type) == Ask(action, PURPOSES, type)

\* A route nobody has to hold an action for; an account is enough.
AccountOnly == [must |-> {}, may |-> {}, fresh |-> FALSE, names |-> {}]

Needs(ask)      == [AccountOnly EXCEPT !.must = {ask}]
With(r, asks)   == [r EXCEPT !.may = asks]
Fresh(r)        == [r EXCEPT !.fresh = TRUE]
Naming(ref, r)  == [r EXCEPT !.names = {ref}]

Administers(action, type) == Needs(Ask(action, ADMIN, type))
ForReview(action, type)   == Needs(Ask(action, {"AUDIT_REVIEW"}, type))
OwnRecord(action, type)   == Needs(Ask(action, SELF, type))
Responds(action, type)    == Needs(Ask(action, {"EMERGENCY_RESPONSE"}, type))

-----------------------------------------------------------------------------
(***************************************************************************)
(* Cases and missing persons.  A case of the type MISSING_PERSON is worked *)
(* under the purpose of that name, every other under the criminal one.     *)
(***************************************************************************)
Works(action) == Naming("case", Needs(Ask(action, INVESTIGATION, "CASE")))

CaseDocs ==
    [create      |-> {"CASE_CREATE"},
     list        |-> {"CASE_VIEW"},
     view        |-> {"CASE_VIEW"},
     update      |-> {"CASE_UPDATE"},
     addNote     |-> {"CASE_UPDATE"},
     linkSubject |-> {"CASE_LINK_SUBJECT"},
     assign      |-> {"CASE_ASSIGN"},
     close       |-> {"CASE_CLOSE"}]

CaseRoutes ==
    [create      |-> Needs(Ask("CASE_CREATE", INVESTIGATION, "CASE")),
     list        |-> Needs(Ask("CASE_VIEW", {"CRIMINAL_INVESTIGATION"}, "CASE")),
     view        |-> Works("CASE_VIEW"),
     update      |-> Works("CASE_UPDATE"),
     addNote     |-> Works("CASE_UPDATE"),
     linkSubject |-> Works("CASE_LINK_SUBJECT"),
     assign      |-> Works("CASE_ASSIGN"),
     close       |-> Works("CASE_CLOSE")]

Searches(action)   == Needs(Ask(action, {"MISSING_PERSON_INVESTIGATION"}, "MISSING_PERSON"))
Identifies(action) == Needs(Ask(action, {"EMERGENCY_IDENTIFICATION"}, "UNIDENTIFIED_PERSON"))

EnquiryDocs ==
    [create         |-> {"MISSING_PERSON_CREATE"},
     list           |-> {"MISSING_PERSON_VIEW"},
     view           |-> {"MISSING_PERSON_VIEW"},
     update         |-> {"MISSING_PERSON_UPDATE"},
     reportSighting |-> {"MISSING_PERSON_UPDATE"},
     reviewSighting |-> {"MISSING_PERSON_UPDATE"}]

\* A resident reports under self-service, an officer under the enquiry.
EnquiryRoutes ==
    [create         |-> Needs(Ask("MISSING_PERSON_CREATE",
                                  SELF \cup {"MISSING_PERSON_INVESTIGATION"}, "MISSING_PERSON")),
     list           |-> Searches("MISSING_PERSON_VIEW"),
     view           |-> Searches("MISSING_PERSON_VIEW"),
     update         |-> Searches("MISSING_PERSON_UPDATE"),
     reportSighting |-> Searches("MISSING_PERSON_UPDATE"),
     reviewSighting |-> Searches("MISSING_PERSON_UPDATE")]

FoundPersonDocs ==
    [list   |-> {"UNIDENTIFIED_PERSON_VIEW"},
     view   |-> {"UNIDENTIFIED_PERSON_VIEW"},
     update |-> {"UNIDENTIFIED_PERSON_UPDATE"}]

FoundPersonRoutes ==
    [list   |-> Identifies("UNIDENTIFIED_PERSON_VIEW"),
     view   |-> Identifies("UNIDENTIFIED_PERSON_VIEW"),
     update |-> Identifies("UNIDENTIFIED_PERSON_UPDATE")]

MatchingDocs ==
    [runMatching |-> {"MATCH_RUN"},
     reviewMatch |-> {"MATCH_CONFIRM"},
     resolve     |-> {"MISSING_PERSON_RESOLVE"},
     recordFound |-> {"UNIDENTIFIED_PERSON_CREATE"}]

MatchingRoutes ==
    [runMatching |-> Searches("MATCH_RUN"),
     reviewMatch |-> Searches("MATCH_CONFIRM"),
     resolve     |-> Searches("MISSING_PERSON_RESOLVE"),
     recordFound |-> Identifies("UNIDENTIFIED_PERSON_CREATE")]

-----------------------------------------------------------------------------
(***************************************************************************)
(* Emergency response.                                                     *)
(***************************************************************************)
Attends(action) == Naming("incident", Responds(action, "INCIDENT"))

IncidentDocs ==
    [create        |-> {"INCIDENT_CREATE"},
     list          |-> {"INCIDENT_VIEW"},
     view          |-> {"INCIDENT_VIEW"},
     updateStatus  |-> {"INCIDENT_UPDATE"},
     finish        |-> {"INCIDENT_CLOSE"},
     attachPerson  |-> {"INCIDENT_UPDATE"},
     attachOfficer |-> {"INCIDENT_UPDATE"}]

\* One handler moves an incident to every status, and asks for the authority to
\* close it when the status is one that ends it.
IncidentRoutes ==
    [create        |-> Needs(Ask("INCIDENT_CREATE", SELF \cup {"EMERGENCY_RESPONSE"}, "INCIDENT")),
     list          |-> Responds("INCIDENT_VIEW", "INCIDENT"),
     view          |-> Attends("INCIDENT_VIEW"),
     updateStatus  |-> Attends("INCIDENT_UPDATE"),
     finish        |-> Attends("INCIDENT_CLOSE"),
     attachPerson  |-> Attends("INCIDENT_UPDATE"),
     attachOfficer |-> Attends("INCIDENT_UPDATE")]

FleetDocs ==
    [dispatch       |-> {"DISPATCH_CREATE"},
     updateDispatch |-> {"DISPATCH_UPDATE"},
     listUnits      |-> {"RESPONSE_UNIT_VIEW"},
     createUnit     |-> {"RESPONSE_UNIT_MANAGE"},
     updateUnit     |-> {"RESPONSE_UNIT_MANAGE"},
     reportPosition |-> {"DISPATCH_UPDATE"}]

FleetRoutes ==
    [dispatch       |-> Naming("incident", Responds("DISPATCH_CREATE", "DISPATCH")),
     updateDispatch |-> Naming("incident", Responds("DISPATCH_UPDATE", "DISPATCH")),
     listUnits      |-> Responds("RESPONSE_UNIT_VIEW", "RESPONSE_UNIT"),
     createUnit     |-> Administers("RESPONSE_UNIT_MANAGE", "RESPONSE_UNIT"),
     updateUnit     |-> Administers("RESPONSE_UNIT_MANAGE", "RESPONSE_UNIT"),
     reportPosition |-> Responds("DISPATCH_UPDATE", "DISPATCH")]

MapDocs == [situation |-> {"INCIDENT_VIEW", "RESPONSE_UNIT_VIEW"}]

\* Each layer is authorised by itself and left out when it is refused.
MapRoutes ==
    [situation |-> With(AccountOnly,
                        {Ask("INCIDENT_VIEW", {"EMERGENCY_RESPONSE"}, "INCIDENT"),
                         Ask("RESPONSE_UNIT_VIEW", {"EMERGENCY_RESPONSE"}, "RESPONSE_UNIT")})]

-----------------------------------------------------------------------------
(***************************************************************************)
(* The register.                                                           *)
(***************************************************************************)
CitizenRecordDocs ==
    [search           |-> {"CITIZEN_SEARCH"},
     view             |-> {"CITIZEN_VIEW"},
     view360          |-> {"CITIZEN_VIEW", "PROPERTY_VIEW", "VEHICLE_VIEW", "BUSINESS_VIEW",
                           "LICENCE_VIEW", "REVENUE_VIEW", "PROGRAMME_VIEW", "CASE_VIEW",
                           "MISSING_PERSON_VIEW"},
     emergencyProfile |-> {"EMERGENCY_PROFILE_VIEW"}]

RegisterDocs ==
    [verifyPcid      |-> {"CITIZEN_VERIFY"},
     verifyToken     |-> {"CITIZEN_VERIFY"},
     register        |-> {"CITIZEN_CREATE"},
     portalAccount   |-> {"CITIZEN_UPDATE"},
     listDuplicates  |-> {"DUPLICATE_REVIEW"},
     reviewDuplicate |-> {"DUPLICATE_REVIEW"}]

\* The cards beside the identity: a refused one is shown as withheld.
Cards ==
    {Stated("PROPERTY_VIEW", "PROPERTY"), Stated("VEHICLE_VIEW", "VEHICLE"),
     Stated("BUSINESS_VIEW", "BUSINESS"), Stated("LICENCE_VIEW", "LICENCE"),
     Stated("REVENUE_VIEW", "REVENUE_PROFILE"), Stated("PROGRAMME_VIEW", "GOVERNMENT_PROGRAMME"),
     Stated("MISSING_PERSON_VIEW", "MISSING_PERSON"), Stated("CASE_VIEW", "CASE")}

CitizenRecordRoutes ==
    [search           |-> Needs(Stated("CITIZEN_SEARCH", "CITIZEN")),
     view             |-> Needs(Stated("CITIZEN_VIEW", "CITIZEN")),
     view360          |-> With(Needs(Stated("CITIZEN_VIEW", "CITIZEN")), Cards),
     emergencyProfile |-> Responds("EMERGENCY_PROFILE_VIEW", "CITIZEN")]

\* Mutation of DuplicateQueue: asked for under the purpose of the rest of the register.
DuplicateQueueAsService == Needs(Ask("DUPLICATE_REVIEW", {"SERVICE_DELIVERY"}, "CITIZEN"))

\* Of the register as well, though it stands among the routes of the record.
DuplicateQueue == Needs(Ask("DUPLICATE_REVIEW", {"IDENTITY_INTEGRITY_REVIEW"}, "CITIZEN"))

RegisterRoutes ==
    [verifyPcid      |-> Needs(Ask("CITIZEN_VERIFY", {"IDENTITY_VERIFICATION"}, "CITIZEN")),
     verifyToken     |-> Needs(Ask("CITIZEN_VERIFY", {"IDENTITY_VERIFICATION"}, "CITIZEN")),
     register        |-> Needs(Ask("CITIZEN_CREATE", {"SERVICE_DELIVERY"}, "CITIZEN")),
     portalAccount   |-> Needs(Ask("CITIZEN_UPDATE", {"SERVICE_DELIVERY"}, "CITIZEN")),
     listDuplicates  |-> DuplicateQueue,
     reviewDuplicate |-> Needs(Ask("DUPLICATE_REVIEW", {"IDENTITY_INTEGRITY_REVIEW"}, "CITIZEN"))]

AssetDocs ==
    [searchVehicles   |-> {"VEHICLE_SEARCH"},
     viewVehicle      |-> {"VEHICLE_VIEW"},
     searchProperties |-> {"PROPERTY_SEARCH"},
     viewProperty     |-> {"PROPERTY_VIEW"}]

AssetRoutes ==
    [searchVehicles   |-> Needs(Stated("VEHICLE_SEARCH", "VEHICLE")),
     viewVehicle      |-> Needs(Stated("VEHICLE_VIEW", "VEHICLE")),
     searchProperties |-> Needs(Stated("PROPERTY_SEARCH", "PROPERTY")),
     viewProperty     |-> Needs(Stated("PROPERTY_VIEW", "PROPERTY"))]

-----------------------------------------------------------------------------
(***************************************************************************)
(* A resident's own record, and the phone it is carried on.                *)
(***************************************************************************)
OwnRecordDocs ==
    [record           |-> {"CITIZEN_VIEW"},
     listContacts     |-> {"CITIZEN_VIEW"},
     addContact       |-> {"CITIZEN_UPDATE"},
     removeContact    |-> {"CITIZEN_UPDATE"},
     accessHistory    |-> {"AUDIT_VIEW"},
     createCorrection |-> {"CORRECTION_REQUEST_CREATE"},
     listCorrections  |-> {"CORRECTION_REQUEST_CREATE"},
     updateContact    |-> {"CITIZEN_UPDATE"}]

OwnAccountDocs ==
    [credential          |-> {"CREDENTIAL_VIEW"},
     reportLost          |-> {"CREDENTIAL_REVOKE"},
     verificationHistory |-> {"AUDIT_VIEW"},
     password            |-> {},
     enrol               |-> {},
     confirm             |-> {},
     sessions            |-> {},
     endSession          |-> {},
     notifications       |-> {"CITIZEN_VIEW"},
     markRead            |-> {"CITIZEN_VIEW"},
     emergency           |-> {"INCIDENT_CREATE"},
     identityFraud       |-> {"CORRECTION_REQUEST_CREATE"},
     unauthorisedAccess  |-> {"CORRECTION_REQUEST_CREATE"}]

OwnCards == {Ask(a.action, SELF, a.type) : a \in Cards}

OwnRecordRoutes ==
    [record           |-> With(OwnRecord("CITIZEN_VIEW", "CITIZEN"), OwnCards),
     listContacts     |-> OwnRecord("CITIZEN_VIEW", "CITIZEN"),
     addContact       |-> OwnRecord("CITIZEN_UPDATE", "CITIZEN"),
     updateContact    |-> OwnRecord("CITIZEN_UPDATE", "CITIZEN"),
     removeContact    |-> OwnRecord("CITIZEN_UPDATE", "CITIZEN"),
     accessHistory    |-> OwnRecord("AUDIT_VIEW", "AUDIT_EVENT"),
     createCorrection |-> OwnRecord("CORRECTION_REQUEST_CREATE", "CORRECTION_REQUEST"),
     listCorrections  |-> OwnRecord("CITIZEN_VIEW", "CITIZEN")]

\* The messages of an account are read and marked without asking the engine.
OwnAccountRoutes ==
    [credential          |-> OwnRecord("CREDENTIAL_VIEW", "CREDENTIAL"),
     reportLost          |-> OwnRecord("CREDENTIAL_REVOKE", "CREDENTIAL"),
     verificationHistory |-> OwnRecord("AUDIT_VIEW", "AUDIT_EVENT"),
     password            |-> AccountOnly,
     enrol               |-> AccountOnly,
     confirm             |-> AccountOnly,
     sessions            |-> AccountOnly,
     endSession          |-> AccountOnly,
     notifications       |-> AccountOnly,
     markRead            |-> AccountOnly,
     emergency           |-> OwnRecord("INCIDENT_CREATE", "INCIDENT"),
     identityFraud       |-> OwnRecord("CORRECTION_REQUEST_CREATE", "CORRECTION_REQUEST"),
     unauthorisedAccess  |-> OwnRecord("CORRECTION_REQUEST_CREATE", "CORRECTION_REQUEST")]

DeviceDocs ==
    [register        |-> {"OFFLINE_ACCESS"},
     list            |-> {"OFFLINE_ACCESS"},
     revoke          |-> {"OFFLINE_ACCESS"},
     citizenCard     |-> {"OFFLINE_ACCESS"},
     offlineBundle   |-> {"OFFLINE_ACCESS", "EMERGENCY_PROFILE_VIEW"},
     releaseStanding |-> {"OFFLINE_ACCESS"}]

\* Only what a device is given to hold is asked for, not the device itself; in a
\* bundle everybody on the incident is asked for one by one.
DeviceRoutes ==
    [register        |-> AccountOnly,
     list            |-> AccountOnly,
     revoke          |-> AccountOnly,
     citizenCard     |-> OwnRecord("OFFLINE_ACCESS", "CITIZEN"),
     offlineBundle   |-> With(Attends("OFFLINE_ACCESS"),
                              {Ask("EMERGENCY_PROFILE_VIEW", {"EMERGENCY_RESPONSE"}, "CITIZEN")}),
     releaseStanding |-> AccountOnly]

-----------------------------------------------------------------------------
(***************************************************************************)
(* Standing requests, oversight and administration.                        *)
(***************************************************************************)
AccessDocs ==
    [createRequest |-> {"ACCESS_REQUEST_CREATE"},
     listOwn       |-> {"ACCESS_REQUEST_CREATE"},
     listToDecide  |-> {"ACCESS_REQUEST_APPROVE"},
     decide        |-> {"ACCESS_REQUEST_APPROVE"},
     breakGlass    |-> {"BREAK_GLASS_INITIATE"},
     reviewQueue   |-> {"BREAK_GLASS_REVIEW"},
     reviewGrant   |-> {"BREAK_GLASS_REVIEW"}]

Approves == Needs(Ask("ACCESS_REQUEST_APPROVE", {"SERVICE_DELIVERY"}, "ACCESS_REQUEST"))

\* One handler lists a person's own requests and those awaiting a decision.
AccessRoutes ==
    [createRequest |-> Needs(Stated("ACCESS_REQUEST_CREATE", "ACCESS_REQUEST")),
     listOwn       |-> Needs(Ask("ACCESS_REQUEST_CREATE", {"SERVICE_DELIVERY"}, "ACCESS_REQUEST")),
     listToDecide  |-> Approves,
     decide        |-> Fresh(Approves),
     breakGlass    |-> Fresh(Responds("BREAK_GLASS_INITIATE", "CITIZEN")),
     reviewQueue   |-> ForReview("BREAK_GLASS_REVIEW", "ACCESS_REQUEST"),
     reviewGrant   |-> ForReview("BREAK_GLASS_REVIEW", "ACCESS_REQUEST")]

OversightDocs ==
    [listCorrections  |-> {"CORRECTION_REQUEST_REVIEW"},
     decideCorrection |-> {"CORRECTION_REQUEST_REVIEW"},
     createOnBehalf   |-> {"CORRECTION_REQUEST_CREATE"},
     listAlerts       |-> {"ALERT_VIEW"},
     viewAlert        |-> {"ALERT_VIEW"},
     reviewAlert      |-> {"ALERT_REVIEW"}]

Corrects(action) == Needs(Ask(action, {"CORRECTION_REVIEW"}, "CORRECTION_REQUEST"))

OversightRoutes ==
    [listCorrections  |-> Corrects("CORRECTION_REQUEST_REVIEW"),
     decideCorrection |-> Fresh(Corrects("CORRECTION_REQUEST_REVIEW")),
     createOnBehalf   |-> Corrects("CORRECTION_REQUEST_CREATE"),
     listAlerts       |-> ForReview("ALERT_VIEW", "ALERT"),
     viewAlert        |-> ForReview("ALERT_VIEW", "ALERT"),
     reviewAlert      |-> ForReview("ALERT_REVIEW", "ALERT")]

AuditDocs   == [search |-> {"AUDIT_VIEW"}, verify |-> {"AUDIT_VERIFY"}]
AuditRoutes == [search |-> ForReview("AUDIT_VIEW", "AUDIT_EVENT"),
                verify |-> ForReview("AUDIT_VERIFY", "AUDIT_EVENT")]

AnalyticsDocs ==
    [h \in {"incidents", "hotspots", "responseUnits", "missingPersons"} |-> {"ANALYTICS_VIEW"}]

AnalyticsRoutes ==
    [h \in {"incidents", "hotspots", "responseUnits", "missingPersons"} |->
       Needs(Ask("ANALYTICS_VIEW", {"STATISTICAL_ANALYSIS"}, "ANALYTICS_AGGREGATE"))]

RetentionDocs ==
    [schedule |-> {"RETENTION_VIEW"}, history |-> {"RETENTION_VIEW"}, run |-> {"RETENTION_RUN"}]

RetentionRoutes ==
    [schedule |-> ForReview("RETENTION_VIEW", "SYSTEM"),
     history  |-> ForReview("RETENTION_VIEW", "SYSTEM"),
     run      |-> Fresh(ForReview("RETENTION_RUN", "SYSTEM"))]

NotificationDocs == [h \in {"queue", "sweep", "retry"} |-> {"ADMIN_SYSTEM_MANAGE"}]

NotificationRoutes ==
    [h \in {"queue", "sweep", "retry"} |-> Administers("ADMIN_SYSTEM_MANAGE", "SYSTEM")]

IntegrationDocs == [h \in {"status", "register", "sync"} |-> {"ADMIN_INTEGRATION_MANAGE"}]

IntegrationRoutes ==
    LET Manages == Administers("ADMIN_INTEGRATION_MANAGE", "SYSTEM")
    IN  [status |-> Manages, register |-> Fresh(Manages), sync |-> Fresh(Manages)]

AdminDocs ==
    [listAgencies     |-> {"ADMIN_AGENCY_MANAGE"},
     createAgency     |-> {"ADMIN_AGENCY_MANAGE"},
     agencyStatus     |-> {"ADMIN_AGENCY_MANAGE"},
     grantCompartment |-> {"ADMIN_POLICY_MANAGE"},
     listUsers        |-> {"ADMIN_USER_MANAGE"},
     createUser       |-> {"ADMIN_USER_MANAGE"},
     confirmMfa       |-> {},
     password         |-> {},
     sessions         |-> {},
     endSession       |-> {}]

AdminRoutes ==
    [listAgencies     |-> Administers("ADMIN_AGENCY_MANAGE", "AGENCY"),
     createAgency     |-> Fresh(Administers("ADMIN_AGENCY_MANAGE", "AGENCY")),
     agencyStatus     |-> Fresh(Administers("ADMIN_AGENCY_MANAGE", "AGENCY")),
     grantCompartment |-> Fresh(Administers("ADMIN_POLICY_MANAGE", "SYSTEM")),
     password         |-> AccountOnly,
     sessions         |-> AccountOnly,
     endSession       |-> AccountOnly,
     listUsers        |-> Administers("ADMIN_USER_MANAGE", "GOVERNMENT_USER"),
     createUser       |-> Fresh(Administers("ADMIN_USER_MANAGE", "GOVERNMENT_USER")),
     confirmMfa       |-> AccountOnly]

AuthDocs ==
    [h \in {"login", "citizenLogin", "verifyMfa", "refresh", "logout", "me"} |-> {}]

\* Whoever signs in holds nothing yet; "me" is what tells an account what it holds.
AuthRoutes == [h \in DOMAIN AuthDocs |-> AccountOnly]

-----------------------------------------------------------------------------
(***************************************************************************)
(* All of it, by controller.                                               *)
(***************************************************************************)
Api ==
    [auth |-> AuthRoutes, case |-> CaseRoutes, enquiry |-> EnquiryRoutes,
     found |-> FoundPersonRoutes, matching |-> MatchingRoutes,
     incident |-> IncidentRoutes, fleet |-> FleetRoutes, map |-> MapRoutes,
     citizen |-> CitizenRecordRoutes, register |-> RegisterRoutes,
     asset |-> AssetRoutes, ownRecord |-> OwnRecordRoutes,
     ownAccount |-> OwnAccountRoutes, device |-> DeviceRoutes,
     access |-> AccessRoutes, oversight |-> OversightRoutes, audit |-> AuditRoutes,
     analytics |-> AnalyticsRoutes, retention |-> RetentionRoutes,
     notification |-> NotificationRoutes, integration |-> IntegrationRoutes,
     admin |-> AdminRoutes]

Documentation ==
    [auth |-> AuthDocs, case |-> CaseDocs, enquiry |-> EnquiryDocs,
     found |-> FoundPersonDocs, matching |-> MatchingDocs,
     incident |-> IncidentDocs, fleet |-> FleetDocs, map |-> MapDocs,
     citizen |-> CitizenRecordDocs, register |-> RegisterDocs, asset |-> AssetDocs,
     ownRecord |-> OwnRecordDocs, ownAccount |-> OwnAccountDocs,
     device |-> DeviceDocs, access |-> AccessDocs, oversight |-> OversightDocs,
     audit |-> AuditDocs, analytics |-> AnalyticsDocs, retention |-> RetentionDocs,
     notification |-> NotificationDocs, integration |-> IntegrationDocs,
     admin |-> AdminDocs]

-----------------------------------------------------------------------------
(***************************************************************************)
(* How a page of a portal calls it: a handler, behind the actions the page *)
(* asks can() about, with the purposes its form offers and the case or the *)
(* incident it passes along; returns: a refusal for want of a recent second*)
(* factor sends to the step-up page and back, and is not just shown.  A    *)
(* page rests on the loads without which it shows neither form nor link,   *)
(* and leads to a page from what the calls named there have returned.      *)
(***************************************************************************)
To(controller, handler) ==
    [of |-> controller, to |-> handler, held |-> {}, purposes |-> PURPOSES, refs |-> {},
     returns |-> FALSE, from |-> {}]

If(action, call)    == [call EXCEPT !.held = @ \cup {action}]
For(purposes, call) == [call EXCEPT !.purposes = purposes]
Under(ref, call)    == [call EXCEPT !.refs = {ref}]
Returning(call)     == [call EXCEPT !.returns = TRUE]
From(load, call)    == [call EXCEPT !.from = {load}]

Page(loads, forms, rests, leads) ==
    [loads |-> loads, forms |-> forms, rests |-> rests, leads |-> leads]

NoCalls == [n \in {} |-> To("auth", "me")]
NoLinks == [p \in {} |-> {}]
=============================================================================
