--------------------------- MODULE GovernmentPages ---------------------------
(***************************************************************************)
(* The portal of the ministries and of oversight (apps/government): menu,  *)
(* pages and server actions, as in SecurityPages.                          *)
(***************************************************************************)
EXTENDS Routes
LOCAL INSTANCE TLC

GovernmentSections ==
    [home           |-> {},
     verify         |-> {"CITIZEN_VERIFY"},
     find           |-> {"CITIZEN_SEARCH"},
     register       |-> {"CITIZEN_CREATE"},
     duplicates     |-> {"DUPLICATE_REVIEW"},
     corrections    |-> {"CORRECTION_REQUEST_REVIEW"},
     alerts         |-> {"ALERT_VIEW"},
     accessRequests |-> {"ACCESS_REQUEST_CREATE", "ACCESS_REQUEST_APPROVE"},
     audit          |-> {"AUDIT_VIEW"},
     retention      |-> {"RETENTION_VIEW"},
     administration |-> {"ADMIN_AGENCY_MANAGE", "ADMIN_USER_MANAGE", "ADMIN_INTEGRATION_MANAGE"},
     account        |-> {}]

SERVICE_PURPOSES ==
    {"SERVICE_DELIVERY", "IDENTITY_VERIFICATION", "REVENUE_ADMINISTRATION", "CORRECTION_REVIEW"}

\* A queue is linked to from its own count: the menu is not the only way to a page.
GovernmentHome ==
    Page([duplicates  |-> If("DUPLICATE_REVIEW", To("register", "listDuplicates")),
          corrections |-> If("CORRECTION_REQUEST_REVIEW", To("oversight", "listCorrections")),
          alerts      |-> If("ALERT_VIEW", To("oversight", "listAlerts")),
          approvals   |-> If("ACCESS_REQUEST_APPROVE", To("access", "listToDecide")),
          breakGlass  |-> If("BREAK_GLASS_REVIEW", To("access", "reviewQueue"))],
         NoCalls, {},
         [duplicates |-> {"duplicates"}, corrections |-> {"corrections"}, alerts |-> {"alerts"},
          accessRequests |-> {"approvals", "breakGlass"}])

-----------------------------------------------------------------------------
(***************************************************************************)
(* Residents: verifying, finding, reading and registering them.            *)
(***************************************************************************)
VerifyActions ==
    [verifyPcid |-> To("register", "verifyPcid"), verifyToken |-> To("register", "verifyToken")]

VerifyPage == Page(NoCalls, VerifyActions, {}, NoLinks)

GovernmentFind ==
    Page(NoCalls, [search |-> For(SERVICE_PURPOSES, To("citizen", "search"))], {},
         [person |-> {"search"}])

RecordLoads == [record |-> For(SERVICE_PURPOSES, To("citizen", "view360"))]

RecordActions ==
    [requestAccess   |-> For(SERVICE_PURPOSES, To("access", "createRequest")),
     raiseCorrection |-> To("oversight", "createOnBehalf")]

\* Access is asked for wherever a card is withheld, by whoever reads the page.
RecordForms ==
    [requestAccess   |-> RecordActions.requestAccess,
     raiseCorrection |-> If("CORRECTION_REQUEST_CREATE", RecordActions.raiseCorrection)]

RecordPage == Page(RecordLoads, RecordForms, {"record"}, NoLinks)

RegisterActions ==
    [registerResident       |-> To("register", "register"),
     issuePortalCredentials |-> To("register", "portalAccount")]

RegisterPage == Page(NoCalls, RegisterActions, {}, [duplicates |-> {"registerResident"}])

-----------------------------------------------------------------------------
(***************************************************************************)
(* The queues.                                                             *)
(***************************************************************************)
DuplicateActions == [decide |-> To("register", "reviewDuplicate")]

DuplicatesPage ==
    Page([list |-> To("register", "listDuplicates")], DuplicateActions, {"list"}, NoLinks)

CorrectionActions == [decide |-> Returning(To("oversight", "decideCorrection"))]

CorrectionsPage ==
    Page([list |-> To("oversight", "listCorrections")], CorrectionActions, {"list"}, NoLinks)

AlertActions == [review |-> To("oversight", "reviewAlert")]

AlertsPage ==
    Page([list |-> To("oversight", "listAlerts")],
         [review |-> If("ALERT_REVIEW", AlertActions.review)], {"list"}, NoLinks)

ApprovalActions ==
    [decide           |-> Returning(To("access", "decide")),
     reviewBreakGlass |-> To("access", "reviewGrant")]

AccessRequestsPage ==
    Page([mine   |-> To("access", "listOwn"),
          queue  |-> If("ACCESS_REQUEST_APPROVE", To("access", "listToDecide")),
          grants |-> If("BREAK_GLASS_REVIEW", To("access", "reviewQueue"))],
         [decide           |-> If("ACCESS_REQUEST_APPROVE", From("queue", ApprovalActions.decide)),
          reviewBreakGlass |-> If("BREAK_GLASS_REVIEW",
                                 From("grants", ApprovalActions.reviewBreakGlass))],
         {}, NoLinks)

-----------------------------------------------------------------------------
(***************************************************************************)
(* Oversight and administration.                                           *)
(***************************************************************************)
AuditPage ==
    Page([events |-> To("audit", "search"), chain |-> If("AUDIT_VERIFY", To("audit", "verify"))],
         NoCalls, {}, NoLinks)

RetentionActions == [run |-> To("retention", "run")]

RetentionPage ==
    Page([schedule |-> To("retention", "schedule"), runs |-> To("retention", "history")],
         [run |-> If("RETENTION_RUN", RetentionActions.run)], {"schedule"}, NoLinks)

AdministrationActions ==
    [retry |-> To("notification", "retry"), sweep |-> To("notification", "sweep")]

AdministrationLoads ==
    [agencies |-> If("ADMIN_AGENCY_MANAGE", To("admin", "listAgencies")),
     users    |-> If("ADMIN_USER_MANAGE", To("admin", "listUsers")),
     sources  |-> If("ADMIN_INTEGRATION_MANAGE", To("integration", "status")),
     queue    |-> If("ADMIN_SYSTEM_MANAGE", To("notification", "queue"))]

\* What has been abandoned is retried where it is listed.
AdministrationForms ==
    [sweep |-> If("ADMIN_SYSTEM_MANAGE", AdministrationActions.sweep),
     retry |-> If("ADMIN_SYSTEM_MANAGE", From("queue", AdministrationActions.retry))]

AdministrationPage == Page(AdministrationLoads, AdministrationForms, {}, NoLinks)

OwnSessionActions == [endSession |-> From("sessions", To("admin", "endSession"))]

GovernmentAccount ==
    Page([me |-> To("auth", "me"), sessions |-> To("admin", "sessions")], OwnSessionActions, {},
         NoLinks)

GovernmentPages ==
    [home |-> GovernmentHome, verify |-> VerifyPage, find |-> GovernmentFind,
     person |-> RecordPage, register |-> RegisterPage, duplicates |-> DuplicatesPage,
     corrections |-> CorrectionsPage, alerts |-> AlertsPage,
     accessRequests |-> AccessRequestsPage, audit |-> AuditPage, retention |-> RetentionPage,
     administration |-> AdministrationPage, account |-> GovernmentAccount]
=============================================================================
