--------------------------- MODULE EmergencyPages ---------------------------
(***************************************************************************)
(* The portal of the emergency services (apps/emergency): menu, pages and  *)
(* server actions, as in SecurityPages.                                    *)
(***************************************************************************)
EXTENDS Routes
LOCAL INSTANCE TLC

EmergencySections ==
    [home           |-> {},
     incidents      |-> {"INCIDENT_VIEW", "INCIDENT_CREATE"},
     map            |-> {"INCIDENT_VIEW", "RESPONSE_UNIT_VIEW"},
     identify       |-> {"EMERGENCY_PROFILE_VIEW"},
     units          |-> {"RESPONSE_UNIT_VIEW", "RESPONSE_UNIT_MANAGE"},
     somebodyFound  |-> {"UNIDENTIFIED_PERSON_CREATE", "UNIDENTIFIED_PERSON_VIEW"},
     breakGlass     |-> {"BREAK_GLASS_INITIATE", "BREAK_GLASS_REVIEW"},
     account        |-> {}]

BoardPage ==
    Page([live    |-> If("INCIDENT_VIEW", To("incident", "list")),
          units   |-> If("RESPONSE_UNIT_VIEW", To("fleet", "listUnits")),
          reviews |-> If("BREAK_GLASS_REVIEW", To("access", "reviewQueue"))],
         NoCalls, {}, [incident |-> {"live"}, breakGlass |-> {"reviews"}])

-----------------------------------------------------------------------------
(***************************************************************************)
(* Incidents.                                                              *)
(***************************************************************************)
ReportActions == [report |-> To("incident", "create")]

IncidentsPage ==
    Page([list |-> If("INCIDENT_VIEW", To("incident", "list"))],
         [report |-> If("INCIDENT_CREATE", ReportActions.report)],
         {}, [incident |-> {"list", "report"}])

DispatchActions ==
    [dispatchUnit   |-> To("fleet", "dispatch"),
     updateDispatch |-> To("fleet", "updateDispatch"),
     updateStatus   |-> To("incident", "updateStatus"),
     finish         |-> To("incident", "finish")]

PeopleActions ==
    [attachOfficer |-> To("incident", "attachOfficer"),
     attachPerson  |-> To("incident", "attachPerson")]

IncidentLoads ==
    [view   |-> To("incident", "view"),
     nearby |-> If("DISPATCH_CREATE", To("fleet", "listUnits"))]

ProgressForms ==
    [updateStatus   |-> If("INCIDENT_UPDATE", DispatchActions.updateStatus),
     updateDispatch |-> If("DISPATCH_UPDATE", DispatchActions.updateDispatch)]

\* A unit is sent from the list of those nearby.
AttendanceForms ==
    [dispatchUnit  |-> If("DISPATCH_CREATE", From("nearby", DispatchActions.dispatchUnit)),
     attachOfficer |-> If("INCIDENT_UPDATE", PeopleActions.attachOfficer),
     attachPerson  |-> If("INCIDENT_UPDATE", PeopleActions.attachPerson),
     finish        |-> If("INCIDENT_CLOSE", DispatchActions.finish)]

BundleActions ==
    [registerDevice |-> To("device", "register"),
     takeIncident   |-> To("device", "offlineBundle"),
     stillStands    |-> To("device", "releaseStanding")]

\* Offered to whoever may hold something offline, on an incident that is live.
KeepOffline ==
    [registerDevice |-> If("OFFLINE_ACCESS", BundleActions.registerDevice),
     takeIncident   |-> If("OFFLINE_ACCESS", BundleActions.takeIncident),
     stillStands    |-> If("OFFLINE_ACCESS", BundleActions.stillStands)]

IncidentPage ==
    Page(IncidentLoads, ProgressForms @@ AttendanceForms @@ KeepOffline, {"view"}, NoLinks)

MapLoads == [situation |-> To("map", "situation")]

\* The incidents of the table beside the plot.
MapPage == Page(MapLoads, NoCalls, {"situation"}, [incident |-> {"situation"}])

-----------------------------------------------------------------------------
(***************************************************************************)
(* People and units.                                                       *)
(***************************************************************************)

IdentifyPage == Page(NoCalls, NoCalls, {}, [profile |-> {}])

ProfilePage ==
    Page([profile |-> Under("incident", To("citizen", "emergencyProfile"))],
         NoCalls, {"profile"}, [incident |-> {"profile"}])

UnitActions ==
    [registerUnit   |-> To("fleet", "createUnit"),
     setUnitService |-> To("fleet", "updateUnit"),
     reportPosition |-> To("fleet", "reportPosition")]

UnitsPage ==
    Page([units |-> If("RESPONSE_UNIT_VIEW", To("fleet", "listUnits"))],
         [registerUnit   |-> If("RESPONSE_UNIT_MANAGE", UnitActions.registerUnit),
          setUnitService |-> If("RESPONSE_UNIT_VIEW",
                                If("RESPONSE_UNIT_MANAGE",
                                   From("units", UnitActions.setUnitService))),
          reportPosition |-> If("DISPATCH_UPDATE", UnitActions.reportPosition)],
         {}, NoLinks)

SomebodyFoundActions == [record |-> Under("incident", To("matching", "recordFound"))]

SomebodyFoundPage ==
    Page([list |-> If("UNIDENTIFIED_PERSON_VIEW", To("found", "list"))],
         [record |-> If("UNIDENTIFIED_PERSON_CREATE", SomebodyFoundActions.record)],
         {}, NoLinks)

-----------------------------------------------------------------------------
(***************************************************************************)
(* Break glass and the responder's own account.                            *)
(***************************************************************************)
GlassActions ==
    [breakGlass |-> Under("incident", Returning(To("access", "breakGlass"))),
     review     |-> To("access", "reviewGrant")]

GlassPage ==
    Page([grants |-> If("BREAK_GLASS_REVIEW", To("access", "reviewQueue"))],
         [breakGlass |-> If("BREAK_GLASS_INITIATE", GlassActions.breakGlass),
          review     |-> If("BREAK_GLASS_REVIEW", From("grants", GlassActions.review))],
         {}, [profile |-> {"breakGlass"}])

DutyActions ==
    [endSession    |-> From("sessions", To("admin", "endSession")),
     signOutDevice |-> From("devices", To("device", "revoke"))]

DutyLoads ==
    [me |-> To("auth", "me"), sessions |-> To("admin", "sessions"), devices |-> To("device", "list")]

\* A session is ended in the list of sessions, a device in that of devices.
DutyPage == Page(DutyLoads, DutyActions, {}, NoLinks)

EmergencyPages ==
    [home |-> BoardPage, incidents |-> IncidentsPage, incident |-> IncidentPage, map |-> MapPage,
     identify |-> IdentifyPage, profile |-> ProfilePage, units |-> UnitsPage,
     somebodyFound |-> SomebodyFoundPage, breakGlass |-> GlassPage, account |-> DutyPage]
=============================================================================
