----------------------------- MODULE Vocabulary -----------------------------
(***************************************************************************)
(* What the platform can be asked: actions, the purposes each may be       *)
(* invoked for and the types of record each may be pointed at              *)
(* (packages/policy/src/action-metadata.ts), and the roles, which are bags *)
(* of actions (packages/contracts/src/roles.ts).                           *)
(***************************************************************************)

\* What an access can be for.
PURPOSES == {"CITIZEN_SELF_SERVICE", "IDENTITY_VERIFICATION", "SERVICE_DELIVERY",
             "REVENUE_ADMINISTRATION", "EMERGENCY_RESPONSE", "EMERGENCY_IDENTIFICATION",
             "DISASTER_RESPONSE", "PUBLIC_HEALTH_RESPONSE", "MISSING_PERSON_INVESTIGATION",
             "CRIMINAL_INVESTIGATION", "IDENTITY_INTEGRITY_REVIEW", "CORRECTION_REVIEW",
             "AUDIT_REVIEW", "STATISTICAL_ANALYSIS", "SYSTEM_ADMINISTRATION"}

EMERGENCY     == {"EMERGENCY_RESPONSE", "EMERGENCY_IDENTIFICATION", "DISASTER_RESPONSE"}
INVESTIGATION == {"CRIMINAL_INVESTIGATION", "MISSING_PERSON_INVESTIGATION"}
SERVICE       == {"IDENTITY_VERIFICATION", "SERVICE_DELIVERY", "REVENUE_ADMINISTRATION",
                  "PUBLIC_HEALTH_RESPONSE"}
SELF          == {"CITIZEN_SELF_SERVICE"}
ADMIN         == {"SYSTEM_ADMINISTRATION"}
REVIEW        == {"IDENTITY_INTEGRITY_REVIEW", "CORRECTION_REVIEW"}

\* Whoever works on people's records, for whichever reason.
RECORDS == SERVICE \cup EMERGENCY \cup INVESTIGATION \cup REVIEW

ACTION_PURPOSES ==
    [CITIZEN_SEARCH             |-> SELF \cup RECORDS,
     CITIZEN_VIEW               |-> SELF \cup RECORDS,
     CITIZEN_CREATE             |-> {"SERVICE_DELIVERY", "IDENTITY_VERIFICATION"},
     CITIZEN_UPDATE             |-> SELF \cup {"CORRECTION_REVIEW", "SERVICE_DELIVERY"},
     CITIZEN_VERIFY             |-> EMERGENCY \cup {"IDENTITY_VERIFICATION", "SERVICE_DELIVERY"},
     CITIZEN_EXPORT             |-> {"STATISTICAL_ANALYSIS", "AUDIT_REVIEW"},
     EMERGENCY_PROFILE_VIEW     |-> EMERGENCY,
     CREDENTIAL_VIEW            |-> SELF \cup {"IDENTITY_VERIFICATION"},
     CREDENTIAL_REVOKE          |-> SELF,
     RELATIONSHIP_VIEW          |-> SELF \cup INVESTIGATION \cup EMERGENCY \cup {"SERVICE_DELIVERY"},
     CORRECTION_REQUEST_CREATE  |-> SELF \cup {"CORRECTION_REVIEW", "SERVICE_DELIVERY"},
     CORRECTION_REQUEST_REVIEW  |-> {"CORRECTION_REVIEW"},
     DUPLICATE_REVIEW           |-> {"IDENTITY_INTEGRITY_REVIEW"},
     OFFLINE_ACCESS             |-> SELF \cup EMERGENCY,
     VEHICLE_SEARCH             |-> INVESTIGATION \cup EMERGENCY \cup {"REVENUE_ADMINISTRATION"},
     VEHICLE_VIEW               |-> SELF \cup INVESTIGATION \cup EMERGENCY
                                        \cup {"REVENUE_ADMINISTRATION", "SERVICE_DELIVERY"},
     PROPERTY_SEARCH            |-> INVESTIGATION \cup EMERGENCY \cup {"REVENUE_ADMINISTRATION"},
     PROPERTY_VIEW              |-> SELF \cup INVESTIGATION \cup EMERGENCY
                                        \cup {"REVENUE_ADMINISTRATION", "SERVICE_DELIVERY"},
     BUSINESS_VIEW              |-> SELF \cup INVESTIGATION
                                        \cup {"REVENUE_ADMINISTRATION", "SERVICE_DELIVERY"},
     LICENCE_VIEW               |-> SELF \cup INVESTIGATION
                                        \cup {"IDENTITY_VERIFICATION", "SERVICE_DELIVERY"},
     REVENUE_VIEW               |-> SELF \cup {"REVENUE_ADMINISTRATION", "SERVICE_DELIVERY"},
     PROGRAMME_VIEW             |-> SELF \cup {"SERVICE_DELIVERY", "PUBLIC_HEALTH_RESPONSE"},
     INCIDENT_CREATE            |-> EMERGENCY \cup SELF \cup {"CRIMINAL_INVESTIGATION"},
     INCIDENT_VIEW              |-> EMERGENCY \cup INVESTIGATION \cup {"STATISTICAL_ANALYSIS"},
     INCIDENT_UPDATE            |-> EMERGENCY,
     INCIDENT_CLOSE             |-> EMERGENCY,
     DISPATCH_CREATE            |-> EMERGENCY,
     DISPATCH_UPDATE            |-> EMERGENCY,
     RESPONSE_UNIT_VIEW         |-> EMERGENCY \cup ADMIN \cup {"STATISTICAL_ANALYSIS"},
     RESPONSE_UNIT_MANAGE       |-> ADMIN,
     CASE_CREATE                |-> INVESTIGATION,
     CASE_VIEW                  |-> INVESTIGATION \cup {"AUDIT_REVIEW"},
     CASE_UPDATE                |-> INVESTIGATION,
     CASE_ASSIGN                |-> INVESTIGATION,
     CASE_CLOSE                 |-> INVESTIGATION,
     CASE_LINK_SUBJECT          |-> INVESTIGATION,
     MISSING_PERSON_CREATE      |-> SELF \cup {"MISSING_PERSON_INVESTIGATION"},
     MISSING_PERSON_VIEW        |-> INVESTIGATION \cup EMERGENCY,
     MISSING_PERSON_UPDATE      |-> {"MISSING_PERSON_INVESTIGATION"},
     MISSING_PERSON_RESOLVE     |-> {"MISSING_PERSON_INVESTIGATION"},
     UNIDENTIFIED_PERSON_CREATE |-> EMERGENCY \cup {"MISSING_PERSON_INVESTIGATION"},
     UNIDENTIFIED_PERSON_VIEW   |-> EMERGENCY \cup INVESTIGATION,
     UNIDENTIFIED_PERSON_UPDATE |-> EMERGENCY \cup {"MISSING_PERSON_INVESTIGATION"},
     MATCH_RUN                  |-> {"MISSING_PERSON_INVESTIGATION"},
     MATCH_CONFIRM              |-> {"MISSING_PERSON_INVESTIGATION"},
     ACCESS_REQUEST_CREATE      |-> RECORDS,
     ACCESS_REQUEST_APPROVE     |-> RECORDS,
     BREAK_GLASS_INITIATE       |-> EMERGENCY,
     BREAK_GLASS_REVIEW         |-> {"AUDIT_REVIEW"},
     AUDIT_VIEW                 |-> SELF \cup {"AUDIT_REVIEW"},
     AUDIT_VERIFY               |-> {"AUDIT_REVIEW"},
     ALERT_VIEW                 |-> EMERGENCY \cup INVESTIGATION
                                        \cup {"IDENTITY_INTEGRITY_REVIEW", "AUDIT_REVIEW"},
     ALERT_REVIEW               |-> {"IDENTITY_INTEGRITY_REVIEW", "AUDIT_REVIEW"},
     RETENTION_VIEW             |-> {"AUDIT_REVIEW"},
     RETENTION_RUN              |-> {"AUDIT_REVIEW"},
     ANALYTICS_VIEW             |-> EMERGENCY \cup {"STATISTICAL_ANALYSIS"},
     ADMIN_AGENCY_MANAGE            |-> ADMIN,
     ADMIN_USER_MANAGE              |-> ADMIN,
     ADMIN_ROLE_MANAGE              |-> ADMIN,
     ADMIN_POLICY_MANAGE            |-> ADMIN,
     ADMIN_REFERENCE_DATA_MANAGE    |-> ADMIN,
     ADMIN_INTEGRATION_MANAGE       |-> ADMIN,
     ADMIN_NOTIFICATION_RULE_MANAGE |-> ADMIN,
     ADMIN_SYSTEM_MANAGE            |-> ADMIN,
     IMPORT_RUN                 |-> ADMIN \cup {"SERVICE_DELIVERY", "IDENTITY_VERIFICATION"}]

Actions == DOMAIN ACTION_PURPOSES

ACTION_RESOURCE_TYPES ==
    [a \in Actions |->
       CASE a \in {"CITIZEN_SEARCH", "CITIZEN_VIEW", "CITIZEN_CREATE", "CITIZEN_UPDATE",
                   "CITIZEN_VERIFY", "CITIZEN_EXPORT", "EMERGENCY_PROFILE_VIEW",
                   "DUPLICATE_REVIEW"}                     -> {"CITIZEN"}
         [] a \in {"CREDENTIAL_VIEW", "CREDENTIAL_REVOKE"} -> {"CREDENTIAL"}
         [] a = "RELATIONSHIP_VIEW"                        -> {"CITIZEN", "RELATIONSHIP"}
         [] a = "CORRECTION_REQUEST_CREATE"                -> {"CORRECTION_REQUEST", "CITIZEN"}
         [] a = "CORRECTION_REQUEST_REVIEW"                -> {"CORRECTION_REQUEST"}
         [] a = "OFFLINE_ACCESS"                           -> {"CITIZEN", "INCIDENT"}
         [] a \in {"VEHICLE_SEARCH", "VEHICLE_VIEW"}       -> {"VEHICLE"}
         [] a \in {"PROPERTY_SEARCH", "PROPERTY_VIEW"}     -> {"PROPERTY"}
         [] a = "BUSINESS_VIEW"                            -> {"BUSINESS"}
         [] a = "LICENCE_VIEW"                             -> {"LICENCE"}
         [] a = "REVENUE_VIEW"                             -> {"REVENUE_PROFILE"}
         [] a = "PROGRAMME_VIEW"                           -> {"GOVERNMENT_PROGRAMME"}
         [] a \in {"INCIDENT_CREATE", "INCIDENT_VIEW", "INCIDENT_UPDATE",
                   "INCIDENT_CLOSE"}                       -> {"INCIDENT"}
         [] a = "DISPATCH_CREATE"                          -> {"DISPATCH", "INCIDENT"}
         [] a = "DISPATCH_UPDATE"                          -> {"DISPATCH"}
         [] a \in {"RESPONSE_UNIT_VIEW", "RESPONSE_UNIT_MANAGE"} -> {"RESPONSE_UNIT"}
         [] a \in {"CASE_CREATE", "CASE_VIEW", "CASE_UPDATE", "CASE_ASSIGN",
                   "CASE_CLOSE"}                           -> {"CASE"}
         [] a = "CASE_LINK_SUBJECT"                        -> {"CASE", "CITIZEN", "VEHICLE", "PROPERTY"}
         [] a \in {"MISSING_PERSON_CREATE", "MISSING_PERSON_VIEW", "MISSING_PERSON_UPDATE",
                   "MISSING_PERSON_RESOLVE"}               -> {"MISSING_PERSON"}
         [] a \in {"UNIDENTIFIED_PERSON_CREATE", "UNIDENTIFIED_PERSON_VIEW",
                   "UNIDENTIFIED_PERSON_UPDATE"}           -> {"UNIDENTIFIED_PERSON"}
         [] a \in {"MATCH_RUN", "MATCH_CONFIRM"}           -> {"MISSING_PERSON", "UNIDENTIFIED_PERSON"}
         [] a \in {"ACCESS_REQUEST_CREATE", "ACCESS_REQUEST_APPROVE"} -> {"ACCESS_REQUEST"}
         [] a = "BREAK_GLASS_INITIATE"                     -> {"CITIZEN", "VEHICLE", "PROPERTY",
                                                               "MISSING_PERSON", "UNIDENTIFIED_PERSON"}
         [] a = "BREAK_GLASS_REVIEW"                       -> {"ACCESS_REQUEST", "AUDIT_EVENT"}
         [] a \in {"AUDIT_VIEW", "AUDIT_VERIFY"}           -> {"AUDIT_EVENT"}
         [] a \in {"ALERT_VIEW", "ALERT_REVIEW"}           -> {"ALERT"}
         [] a = "ANALYTICS_VIEW"                           -> {"ANALYTICS_AGGREGATE"}
         [] a = "ADMIN_AGENCY_MANAGE"                      -> {"AGENCY"}
         [] a = "ADMIN_USER_MANAGE"                        -> {"GOVERNMENT_USER"}
         [] a = "ADMIN_ROLE_MANAGE"                        -> {"GOVERNMENT_USER", "SYSTEM"}
         [] a = "IMPORT_RUN"                               -> {"IMPORT_JOB"}
         [] OTHER                                          -> {"SYSTEM"}]

\* Reads of what an agency may see only under a data-sharing agreement.
CITIZEN_DATA_ACTIONS ==
    {"CITIZEN_SEARCH", "CITIZEN_VIEW", "CITIZEN_UPDATE", "CITIZEN_VERIFY", "CITIZEN_EXPORT",
     "EMERGENCY_PROFILE_VIEW", "RELATIONSHIP_VIEW", "VEHICLE_SEARCH", "VEHICLE_VIEW",
     "PROPERTY_SEARCH", "PROPERTY_VIEW", "BUSINESS_VIEW", "LICENCE_VIEW", "REVENUE_VIEW",
     "PROGRAMME_VIEW", "MISSING_PERSON_VIEW", "UNIDENTIFIED_PERSON_VIEW"}

CASE_RECORD_ACTIONS     == {"CASE_VIEW", "CASE_UPDATE", "CASE_ASSIGN", "CASE_CLOSE"}
INCIDENT_RECORD_ACTIONS == {"INCIDENT_VIEW", "INCIDENT_UPDATE", "INCIDENT_CLOSE", "OFFLINE_ACCESS"}
BINDING_EXEMPT_ACTIONS  == {"MISSING_PERSON_VIEW", "UNIDENTIFIED_PERSON_VIEW"}
SEARCH_ACTIONS          == {"CITIZEN_SEARCH", "VEHICLE_SEARCH", "PROPERTY_SEARCH"}

CASE_LINKAGE_REQUIRED_ACTIONS ==
    {"CITIZEN_VIEW", "VEHICLE_VIEW", "PROPERTY_VIEW", "BUSINESS_VIEW", "LICENCE_VIEW",
     "REVENUE_VIEW", "RELATIONSHIP_VIEW"}

MUTATING_ACTIONS ==
    Actions \ {"CITIZEN_SEARCH", "CITIZEN_VIEW", "CITIZEN_VERIFY", "CITIZEN_EXPORT",
               "EMERGENCY_PROFILE_VIEW", "CREDENTIAL_VIEW", "RELATIONSHIP_VIEW", "OFFLINE_ACCESS",
               "VEHICLE_SEARCH", "VEHICLE_VIEW", "PROPERTY_SEARCH", "PROPERTY_VIEW",
               "BUSINESS_VIEW", "LICENCE_VIEW", "REVENUE_VIEW", "PROGRAMME_VIEW",
               "INCIDENT_VIEW", "RESPONSE_UNIT_VIEW", "CASE_VIEW", "MISSING_PERSON_VIEW",
               "UNIDENTIFIED_PERSON_VIEW", "MATCH_RUN", "AUDIT_VIEW", "AUDIT_VERIFY",
               "ALERT_VIEW", "ANALYTICS_VIEW", "RETENTION_VIEW"}

STEP_UP_ACTIONS ==
    {"CITIZEN_EXPORT", "RETENTION_RUN", "BREAK_GLASS_INITIATE", "ACCESS_REQUEST_APPROVE",
     "ADMIN_ROLE_MANAGE", "ADMIN_POLICY_MANAGE", "ADMIN_USER_MANAGE", "ADMIN_AGENCY_MANAGE",
     "ADMIN_SYSTEM_MANAGE", "IMPORT_RUN"}

SELF_ADMINISTRATION_SENSITIVE_ACTIONS ==
    {"ADMIN_USER_MANAGE", "ADMIN_ROLE_MANAGE", "ADMIN_POLICY_MANAGE"}

-----------------------------------------------------------------------------
(***************************************************************************)
(* The seeded roles.                                                       *)
(***************************************************************************)
ROLE_DEFINITIONS ==
    [PLATFORM_ADMINISTRATOR |->
       {"ADMIN_AGENCY_MANAGE", "ADMIN_USER_MANAGE", "ADMIN_ROLE_MANAGE", "ADMIN_POLICY_MANAGE",
        "ADMIN_REFERENCE_DATA_MANAGE", "ADMIN_INTEGRATION_MANAGE",
        "ADMIN_NOTIFICATION_RULE_MANAGE", "ADMIN_SYSTEM_MANAGE",
        "RESPONSE_UNIT_MANAGE", "RESPONSE_UNIT_VIEW"},
     SECURITY_ADMINISTRATOR |->
       {"ADMIN_USER_MANAGE", "RESPONSE_UNIT_MANAGE", "RESPONSE_UNIT_VIEW", "ALERT_VIEW"},
     AGENCY_ADMINISTRATOR |-> {"ADMIN_USER_MANAGE"},
     SUPERVISOR |->
       {"ACCESS_REQUEST_APPROVE", "BREAK_GLASS_REVIEW", "CASE_VIEW", "CASE_ASSIGN", "CASE_CLOSE",
        "INCIDENT_VIEW", "ALERT_VIEW", "ALERT_REVIEW", "ANALYTICS_VIEW", "MATCH_CONFIRM"},
     INVESTIGATOR |->
       {"CITIZEN_SEARCH", "CITIZEN_VIEW", "RELATIONSHIP_VIEW", "VEHICLE_SEARCH", "VEHICLE_VIEW",
        "PROPERTY_SEARCH", "PROPERTY_VIEW", "BUSINESS_VIEW", "CASE_CREATE", "CASE_VIEW",
        "CASE_UPDATE", "CASE_LINK_SUBJECT", "INCIDENT_VIEW", "ACCESS_REQUEST_CREATE",
        "MISSING_PERSON_VIEW", "UNIDENTIFIED_PERSON_VIEW", "MATCH_RUN"},
     INCIDENT_OFFICER |->
       {"INCIDENT_CREATE", "INCIDENT_VIEW", "INCIDENT_UPDATE", "INCIDENT_CLOSE", "CITIZEN_SEARCH",
        "EMERGENCY_PROFILE_VIEW", "RESPONSE_UNIT_VIEW", "DISPATCH_UPDATE",
        "UNIDENTIFIED_PERSON_CREATE", "UNIDENTIFIED_PERSON_VIEW", "UNIDENTIFIED_PERSON_UPDATE",
        "ACCESS_REQUEST_CREATE", "BREAK_GLASS_INITIATE"},
     DISPATCHER |->
       {"INCIDENT_CREATE", "INCIDENT_VIEW", "INCIDENT_UPDATE", "DISPATCH_CREATE",
        "DISPATCH_UPDATE", "RESPONSE_UNIT_VIEW", "CITIZEN_SEARCH", "EMERGENCY_PROFILE_VIEW",
        "UNIDENTIFIED_PERSON_VIEW", "ANALYTICS_VIEW"},
     EMERGENCY_RESPONDER |->
       {"INCIDENT_VIEW", "INCIDENT_UPDATE", "EMERGENCY_PROFILE_VIEW", "DISPATCH_UPDATE",
        "UNIDENTIFIED_PERSON_CREATE", "BREAK_GLASS_INITIATE", "OFFLINE_ACCESS"},
     MISSING_PERSON_OFFICER |->
       {"MISSING_PERSON_CREATE", "MISSING_PERSON_VIEW", "MISSING_PERSON_UPDATE",
        "MISSING_PERSON_RESOLVE", "UNIDENTIFIED_PERSON_CREATE", "UNIDENTIFIED_PERSON_VIEW",
        "UNIDENTIFIED_PERSON_UPDATE", "MATCH_RUN", "CITIZEN_SEARCH", "CITIZEN_VIEW",
        "CASE_CREATE", "CASE_VIEW", "CASE_UPDATE", "CASE_LINK_SUBJECT", "ACCESS_REQUEST_CREATE"},
     ANALYST |-> {"ANALYTICS_VIEW", "ALERT_VIEW"},
     AUDITOR |-> {"AUDIT_VIEW", "AUDIT_VERIFY", "ALERT_VIEW", "BREAK_GLASS_REVIEW"},
     DATA_PROTECTION_OFFICER |->
       {"AUDIT_VIEW", "AUDIT_VERIFY", "CORRECTION_REQUEST_REVIEW", "ALERT_VIEW", "ALERT_REVIEW",
        "BREAK_GLASS_REVIEW", "RETENTION_VIEW", "RETENTION_RUN"},
     REGISTRATION_OFFICER |->
       {"CITIZEN_CREATE", "CITIZEN_SEARCH", "CITIZEN_VIEW", "CITIZEN_UPDATE", "DUPLICATE_REVIEW",
        "CORRECTION_REQUEST_REVIEW", "IMPORT_RUN"},
     VERIFICATION_OFFICER |-> {"CITIZEN_VERIFY", "CITIZEN_SEARCH"},
     MDA_OFFICER |->
       {"CITIZEN_SEARCH", "CITIZEN_VIEW", "CITIZEN_VERIFY", "PROGRAMME_VIEW", "PROPERTY_VIEW",
        "PROPERTY_SEARCH", "BUSINESS_VIEW", "LICENCE_VIEW", "ACCESS_REQUEST_CREATE",
        "CORRECTION_REQUEST_CREATE"},
     REVENUE_OFFICER |->
       {"CITIZEN_SEARCH", "CITIZEN_VIEW", "CITIZEN_VERIFY", "REVENUE_VIEW", "PROPERTY_VIEW",
        "PROPERTY_SEARCH", "BUSINESS_VIEW", "ACCESS_REQUEST_CREATE", "CORRECTION_REQUEST_CREATE"},
     CITIZEN |->
       {"CITIZEN_VIEW", "CITIZEN_UPDATE", "CREDENTIAL_VIEW", "CREDENTIAL_REVOKE",
        "RELATIONSHIP_VIEW", "VEHICLE_VIEW", "PROPERTY_VIEW", "BUSINESS_VIEW", "LICENCE_VIEW",
        "REVENUE_VIEW", "PROGRAMME_VIEW", "CORRECTION_REQUEST_CREATE", "AUDIT_VIEW",
        "INCIDENT_CREATE", "MISSING_PERSON_CREATE", "OFFLINE_ACCESS"}]
=============================================================================
