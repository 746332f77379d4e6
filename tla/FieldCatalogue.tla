--------------------------- MODULE FieldCatalogue ---------------------------
(***************************************************************************)
(* packages/contracts/src/field-catalogue.ts: every field the platform can *)
(* release, with its classification, the purposes it may be released for   *)
(* and what else its release asks for.  Fields with the same definition    *)
(* are stated together.                                                    *)
(***************************************************************************)
EXTENDS Vocabulary

LOCAL INSTANCE TLC

ALL_SERVICE_PURPOSES        == SELF \cup RECORDS
INVESTIGATIVE_AND_EMERGENCY == EMERGENCY \cup INVESTIGATION
EMERGENCY_ONLY              == EMERGENCY

\* FieldDefinition; a flag that is not set is false.
FieldDefinition(type, classification, purposes, flags) ==
    [resourceType        |-> type,
     classification      |-> classification,
     purposes            |-> purposes,
     requiresApproval    |-> "approval" \in flags,
     emergencyProfile    |-> "emergency" \in flags,
     selfServiceVisible  |-> "visible" \in flags,
     selfServiceEditable |-> "editable" \in flags]

Each(fields, definition) == [f \in fields |-> definition]

CITIZEN_FIELDS ==
    LET Of(c, p, flags) == FieldDefinition("CITIZEN", c, p, flags) IN
    Each({"citizen.pcid", "citizen.displayName", "citizen.approximateAge", "citizen.lgaCode"},
         Of("INTERNAL", ALL_SERVICE_PURPOSES, {"emergency", "visible"}))
    @@ Each({"citizen.status", "citizen.givenName", "citizen.middleName", "citizen.familyName",
             "citizen.wardCode", "citizen.verificationLevel", "citizen.sourceAgencyId"},
            Of("INTERNAL", ALL_SERVICE_PURPOSES, {"visible"}))
    @@ Each({"citizen.sex"}, Of("CONFIDENTIAL", ALL_SERVICE_PURPOSES, {"emergency", "visible"}))
    @@ Each({"citizen.dateOfBirth"}, Of("CONFIDENTIAL", ALL_SERVICE_PURPOSES, {"visible"}))
    @@ Each({"citizen.phonePrimary", "citizen.phoneSecondary", "citizen.email"},
            Of("CONFIDENTIAL", ALL_SERVICE_PURPOSES, {"visible", "editable"}))
    @@ Each({"citizen.registeredAddress"}, Of("SENSITIVE", ALL_SERVICE_PURPOSES, {"visible"}))
    @@ Each({"citizen.photographUri"},
            Of("SENSITIVE", SELF \cup INVESTIGATIVE_AND_EMERGENCY
                                 \cup {"IDENTITY_VERIFICATION", "CORRECTION_REVIEW"},
               {"emergency", "visible"}))
    @@ Each({"citizen.emergencyContacts"},
            Of("SENSITIVE", SELF \cup INVESTIGATIVE_AND_EMERGENCY \cup {"PUBLIC_HEALTH_RESPONSE"},
               {"emergency", "visible", "editable"}))
    @@ Each({"citizen.bloodGroup", "citizen.emergencyMedicalNotes"},
            Of("HIGHLY_RESTRICTED", EMERGENCY_ONLY, {"emergency", "visible", "editable"}))
    @@ Each({"citizen.nin"}, Of("HIGHLY_RESTRICTED", SELF \cup REVIEW, {"approval", "visible"}))
    @@ Each({"citizen.identityIntegrityFlags"},
            Of("SENSITIVE", REVIEW \cup {"CRIMINAL_INVESTIGATION"}, {"approval"}))
    @@ Each({"citizen.lawEnforcementMarkers"},
            Of("LAW_ENFORCEMENT_RESTRICTED", INVESTIGATION, {"approval"}))

VEHICLE_FIELDS ==
    LET Of(c, p, flags) == FieldDefinition("VEHICLE", c, p, flags) IN
    Each({"vehicle.registrationNumber", "vehicle.make", "vehicle.model", "vehicle.colour",
          "vehicle.registrationStatus", "vehicle.sourceAgencyId"},
         Of("INTERNAL", ALL_SERVICE_PURPOSES, {"visible"}))
    @@ Each({"vehicle.alertStatus"},
            Of("LAW_ENFORCEMENT_RESTRICTED", INVESTIGATIVE_AND_EMERGENCY, {}))
    @@ Each({"vehicle.ownerPcid"},
            Of("SENSITIVE", SELF \cup INVESTIGATION
                                 \cup {"EMERGENCY_RESPONSE", "REVENUE_ADMINISTRATION"}, {"visible"}))
    @@ Each({"vehicle.ownerName"}, Of("SENSITIVE", SELF \cup INVESTIGATION, {"visible"}))
    @@ Each({"vehicle.ownerContact"},
            Of("HIGHLY_RESTRICTED", SELF \cup INVESTIGATION, {"approval", "visible"}))

PROPERTY_FIELDS ==
    LET Of(c, p, flags) == FieldDefinition("PROPERTY", c, p, flags)
        Owners          == SELF \cup INVESTIGATION \cup {"REVENUE_ADMINISTRATION"}
    IN  Each({"property.propertyId", "property.lgaCode", "property.wardCode", "property.useType",
              "property.sourceAgencyId"},
             Of("INTERNAL", ALL_SERVICE_PURPOSES, {"visible"}))
        @@ Each({"property.address"}, Of("CONFIDENTIAL", ALL_SERVICE_PURPOSES, {"visible"}))
        @@ Each({"property.emergencyAccessNotes", "property.occupantCountEstimate"},
                Of("SENSITIVE", EMERGENCY_ONLY, {"emergency"}))
        @@ Each({"property.ownerPcid"},
                Of("SENSITIVE", Owners \cup {"EMERGENCY_RESPONSE", "DISASTER_RESPONSE"}, {"visible"}))
        @@ Each({"property.ownerName"}, Of("SENSITIVE", Owners, {"visible"}))

REVENUE_FIELDS ==
    LET Of(c, p)   == FieldDefinition("REVENUE_PROFILE", c, p, {"visible"})
        Collectors == SELF \cup {"REVENUE_ADMINISTRATION"}
    IN  Each({"revenue.taxpayerId"}, Of("CONFIDENTIAL", Collectors))
        @@ Each({"revenue.complianceStatus"},
                Of("CONFIDENTIAL", Collectors \cup {"SERVICE_DELIVERY"}))
        @@ Each({"revenue.outstandingBalanceMinor"}, Of("SENSITIVE", Collectors))
        @@ Each({"revenue.sourceAgencyId"}, Of("INTERNAL", Collectors \cup {"SERVICE_DELIVERY"}))

BUSINESS_FIELDS ==
    LET Of(c, p) == FieldDefinition("BUSINESS", c, p, {"visible"}) IN
    Each({"business.businessId", "business.name", "business.status"},
         Of("PUBLIC", ALL_SERVICE_PURPOSES))
    @@ Each({"business.address", "business.sourceAgencyId"}, Of("INTERNAL", ALL_SERVICE_PURPOSES))
    @@ Each({"business.proprietorPcid"},
            Of("SENSITIVE", SELF \cup {"REVENUE_ADMINISTRATION", "CRIMINAL_INVESTIGATION",
                                       "SERVICE_DELIVERY"}))

LICENCE_FIELDS ==
    LET Of(c, p) == FieldDefinition("LICENCE", c, p, {"visible"}) IN
    Each({"licence.licenceId", "licence.type", "licence.status", "licence.validFrom",
          "licence.validTo", "licence.sourceAgencyId"},
         Of("INTERNAL", ALL_SERVICE_PURPOSES))
    @@ Each({"licence.holderPcid"},
            Of("SENSITIVE", SELF \cup {"IDENTITY_VERIFICATION", "SERVICE_DELIVERY",
                                       "CRIMINAL_INVESTIGATION"}))

MISSING_PERSON_FIELDS ==
    LET Of(c, p) == FieldDefinition("MISSING_PERSON", c, p, {}) IN
    Each({"missingPerson.caseReference", "missingPerson.status", "missingPerson.fullName",
          "missingPerson.ageYears", "missingPerson.sex"},
         Of("INTERNAL", INVESTIGATIVE_AND_EMERGENCY))
    @@ Each({"missingPerson.citizenPcid", "missingPerson.photographUri", "missingPerson.lastSeen",
             "missingPerson.circumstances"},
            Of("SENSITIVE", INVESTIGATIVE_AND_EMERGENCY))
    @@ Each({"missingPerson.physicalDescription", "missingPerson.clothingDescription",
             "missingPerson.distinguishingFeatures", "missingPerson.resolution"},
            Of("CONFIDENTIAL", INVESTIGATIVE_AND_EMERGENCY))
    @@ Each({"missingPerson.reporter"}, Of("HIGHLY_RESTRICTED", INVESTIGATION))

UNIDENTIFIED_PERSON_FIELDS ==
    LET Of(c, p, flags) == FieldDefinition("UNIDENTIFIED_PERSON", c, p, flags) IN
    Each({"unidentifiedPerson.reference", "unidentifiedPerson.status",
          "unidentifiedPerson.estimatedAgeRange", "unidentifiedPerson.apparentSex"},
         Of("INTERNAL", INVESTIGATIVE_AND_EMERGENCY, {}))
    @@ Each({"unidentifiedPerson.condition", "unidentifiedPerson.photographUri",
             "unidentifiedPerson.identityClues", "unidentifiedPerson.found",
             "unidentifiedPerson.identifiedPcid"},
            Of("SENSITIVE", INVESTIGATIVE_AND_EMERGENCY, {}))
    @@ Each({"unidentifiedPerson.physicalDescription", "unidentifiedPerson.clothingDescription",
             "unidentifiedPerson.distinguishingFeatures"},
            Of("CONFIDENTIAL", INVESTIGATIVE_AND_EMERGENCY, {}))
    @@ Each({"unidentifiedPerson.biometricCustody"},
            Of("LAW_ENFORCEMENT_RESTRICTED", INVESTIGATION, {"approval"}))

CREDENTIAL_FIELDS ==
    LET Of(c, p, flags) == FieldDefinition("CREDENTIAL", c, p, flags)
        Holders         == SELF \cup {"IDENTITY_VERIFICATION"}
    IN  Each({"credential.serial", "credential.format", "credential.issuedAt",
              "credential.expiresAt"}, Of("INTERNAL", Holders, {"visible"}))
        @@ Each({"credential.status"}, Of("INTERNAL", Holders, {"visible", "editable"}))
        @@ Each({"credential.verificationUrl"}, Of("CONFIDENTIAL", SELF, {"visible"}))

FIELD_CATALOGUE ==
    CITIZEN_FIELDS @@ VEHICLE_FIELDS @@ PROPERTY_FIELDS @@ REVENUE_FIELDS @@ BUSINESS_FIELDS
    @@ LICENCE_FIELDS @@ MISSING_PERSON_FIELDS @@ UNIDENTIFIED_PERSON_FIELDS @@ CREDENTIAL_FIELDS
=============================================================================
