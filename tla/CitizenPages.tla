---------------------------- MODULE CitizenPages ----------------------------
(***************************************************************************)
(* The portal of the residents (apps/portal): menu, pages and server       *)
(* actions, as in SecurityPages.  A resident holds the same entitlements   *)
(* as every other, so nothing on these pages is hidden behind one.         *)
(***************************************************************************)
EXTENDS Routes
LOCAL INSTANCE TLC

CitizenSections ==
    [s \in {"dashboard", "identity", "records", "emergencyContacts", "accessHistory",
            "corrections", "notifications", "report", "security"} |-> {}]

DashboardPage ==
    Page([me       |-> To("auth", "me"),
          record   |-> To("ownRecord", "record"),
          contacts |-> To("ownRecord", "listContacts"),
          access   |-> To("ownRecord", "accessHistory"),
          inbox    |-> To("ownAccount", "notifications")],
         NoCalls, {}, NoLinks)

-----------------------------------------------------------------------------
(***************************************************************************)
(* The identity, and its card on the resident's own phone.                 *)
(***************************************************************************)
CredentialActions == [reportLost |-> To("ownAccount", "reportLost")]

CardActions ==
    [registerDevice |-> To("device", "register"),
     takeCard       |-> To("device", "citizenCard"),
     stillStands    |-> To("device", "releaseStanding")]

IdentityPage ==
    Page([record     |-> To("ownRecord", "record"),
          credential |-> To("ownAccount", "credential"),
          history    |-> To("ownAccount", "verificationHistory")],
         CredentialActions @@ CardActions, {}, NoLinks)

RecordsPage == Page([record |-> To("ownRecord", "record")], NoCalls, {}, NoLinks)

HistoryPage == Page([history |-> To("ownRecord", "accessHistory")], NoCalls, {}, NoLinks)

-----------------------------------------------------------------------------
(***************************************************************************)
(* What a resident changes, asks for and reports.                          *)
(***************************************************************************)
ContactActions ==
    [add    |-> To("ownRecord", "addContact"),
     update |-> From("list", To("ownRecord", "updateContact")),
     remove |-> From("list", To("ownRecord", "removeContact"))]

\* A contact is changed and removed where it is listed.
ContactsPage ==
    Page([list |-> To("ownRecord", "listContacts")], ContactActions, {}, NoLinks)

AskActions == [ask |-> To("ownRecord", "createCorrection")]

AskPage == Page([list |-> To("ownRecord", "listCorrections")], AskActions, {}, NoLinks)

MessageActions == [markRead |-> To("ownAccount", "markRead")]

MessagesPage ==
    Page([inbox |-> To("ownAccount", "notifications")], MessageActions, {"inbox"}, NoLinks)

AlarmActions ==
    [emergency          |-> To("ownAccount", "emergency"),
     missingPerson      |-> To("enquiry", "create"),
     identityFraud      |-> To("ownAccount", "identityFraud"),
     unauthorisedAccess |-> To("ownAccount", "unauthorisedAccess")]

ReportPage == Page(NoCalls, AlarmActions, {}, NoLinks)

-----------------------------------------------------------------------------
(***************************************************************************)
(* The resident's own account.                                             *)
(***************************************************************************)
SafetyActions ==
    [enrol      |-> To("ownAccount", "enrol"),
     confirm    |-> To("ownAccount", "confirm"),
     endSession |-> From("sessions", To("ownAccount", "endSession"))]

SafetyPage ==
    Page([me |-> To("auth", "me"), sessions |-> To("ownAccount", "sessions")],
         SafetyActions, {}, NoLinks)

CitizenPages ==
    [dashboard |-> DashboardPage, identity |-> IdentityPage, records |-> RecordsPage,
     emergencyContacts |-> ContactsPage, accessHistory |-> HistoryPage, corrections |-> AskPage,
     notifications |-> MessagesPage, report |-> ReportPage, security |-> SafetyPage]
=============================================================================
