------------------------------ MODULE MCAccess ------------------------------
(* Instances of Access for TLC: one officer who asks, two supervisors.      *)
EXTENDS Access, TLC

CONSTANTS officer, chief, deputy, justified, unjustified
MCUsers == {officer, chief, deputy}
\* Nothing in the service treats one supervisor, or one verdict, unlike the other.
Alike == Permutations({chief, deputy}) \cup Permutations({justified, unjustified})

Roles(u) ==
    IF u = officer
    THEN {"CITIZEN_VIEW", "VEHICLE_VIEW", "EMERGENCY_PROFILE_VIEW",
          "ACCESS_REQUEST_CREATE", "BREAK_GLASS_INITIATE"}
    ELSE {"ACCESS_REQUEST_APPROVE", "BREAK_GLASS_REVIEW"}

MCProfile ==
    [u \in MCUsers |->
       [userId |-> u, actorType |-> "GOVERNMENT_USER", accountStatus |-> "ACTIVE",
        agencyId |-> "police", agencyStatus |-> "ACTIVE", dataSharingAgreement |-> "SIGNED",
        agencyMaxClassification |-> "HIGHLY_RESTRICTED", compartments |-> {},
        actions |-> Roles(u), clearance |-> "SENSITIVE",
        jurisdiction |-> [scope |-> "LGA", lgaCodes |-> {"JOS"}, wardCodes |-> {}],
        authenticationLevel |-> "AAL2", mfaEnrolled |-> TRUE, accessWindow |-> None,
        subjectPcid |-> None]]

Field(type, classification, purposes, approval, emergency) ==
    [resourceType |-> type, classification |-> classification, purposes |-> purposes,
     requiresApproval |-> approval, selfServiceVisible |-> TRUE, selfServiceEditable |-> FALSE,
     emergencyProfile |-> emergency]

MCCatalogue ==
    [name  |-> Field("CITIZEN", "INTERNAL", EMERGENCY \cup INVESTIGATION, FALSE, TRUE),
     flags |-> Field("CITIZEN", "SENSITIVE", INVESTIGATION, TRUE, FALSE),
     plate |-> Field("VEHICLE", "INTERNAL", EMERGENCY \cup INVESTIGATION, FALSE, FALSE)]

MCCaseFile == [id |-> "case", classification |-> "SENSITIVE", agency |-> "police"]
MCLinkedCases == {"case"}

Intent(op, action, purpose, onCase, fields) ==
    [user |-> officer, op |-> op, action |-> action, purpose |-> purpose,
     case |-> onCase, incident |-> ~onCase, fields |-> fields]

MCIntents ==
    {Intent("VIEW", "CITIZEN_VIEW", "CRIMINAL_INVESTIGATION", TRUE, {}),
     Intent("VIEW", "EMERGENCY_PROFILE_VIEW", "EMERGENCY_RESPONSE", FALSE, {}),
     Intent("VIEW_360", "CITIZEN_VIEW", "EMERGENCY_RESPONSE", FALSE, {}),
     Intent("REQUEST", "CITIZEN_VIEW", "CRIMINAL_INVESTIGATION", TRUE, {"flags"})}

\* Citizen 360 alone.
MCView360 == {i \in MCIntents : i.op = "VIEW_360"}

MCGateSets == {{"CASE_BINDING", "INCIDENT_BINDING", "FIELD_APPROVAL"}}
=============================================================================
