---------------------------- MODULE SecurityPages ----------------------------
(***************************************************************************)
(* The portal of the security services (apps/security): the entries of its *)
(* menu, its pages with what they load, offer and link to, and the server  *)
(* actions behind their forms.  Forms that only change the session cookie  *)
(* (the case an officer works under) are left out.                         *)
(***************************************************************************)
EXTENDS Routes
LOCAL INSTANCE TLC

\* The menu: the actions one of which an entry is shown for; no action, always.
SecuritySections ==
    [home                 |-> {},
     cases                |-> {"CASE_VIEW", "CASE_CREATE"},
     find                 |-> {"CITIZEN_SEARCH"},
     missingPersons       |-> {"MISSING_PERSON_VIEW", "MISSING_PERSON_CREATE"},
     unidentifiedPersons  |-> {"UNIDENTIFIED_PERSON_VIEW", "UNIDENTIFIED_PERSON_CREATE"},
     authorisation        |-> {"ACCESS_REQUEST_CREATE", "ACCESS_REQUEST_APPROVE",
                               "BREAK_GLASS_INITIATE", "BREAK_GLASS_REVIEW"},
     account              |-> {}]

INVESTIGATION_PURPOSES ==
    {"CRIMINAL_INVESTIGATION", "MISSING_PERSON_INVESTIGATION", "EMERGENCY_IDENTIFICATION"}

SecurityHome ==
    Page([cases     |-> If("CASE_VIEW", To("case", "list")),
          enquiries |-> If("MISSING_PERSON_VIEW", To("enquiry", "list")),
          grants    |-> If("BREAK_GLASS_REVIEW", To("access", "reviewQueue"))],
         NoCalls, {},
         [case |-> {"cases"}, enquiry |-> {"enquiries"}, authorisation |-> {"grants"}])

-----------------------------------------------------------------------------
(***************************************************************************)
(* Cases.                                                                  *)
(***************************************************************************)
CasesActions ==
    [openCase   |-> To("case", "create"),
     takeCaseOn |-> To("case", "assign")]

CasesPage ==
    Page([list |-> To("case", "list"), me |-> If("CASE_ASSIGN", To("auth", "me"))],
         [openCase   |-> If("CASE_CREATE", CasesActions.openCase),
          takeCaseOn |-> If("CASE_ASSIGN", CasesActions.takeCaseOn)],
         {}, [case |-> {"list", "openCase", "takeCaseOn"}])

NoteActions == [addNote |-> To("case", "addNote"), updateCase |-> To("case", "update")]

SubjectActions ==
    [linkSubject   |-> To("case", "linkSubject"),
     assignOfficer |-> To("case", "assign"),
     closeCase     |-> To("case", "close")]

\* The file and its status; what is said about a subject is on the next page.
CaseForms ==
    [updateCase  |-> If("CASE_UPDATE", NoteActions.updateCase),
     linkSubject |-> If("CASE_LINK_SUBJECT", SubjectActions.linkSubject)]

\* Mutation of CaseWorkForms: the file has no form to close it.
CaseWorkFormsOpen ==
    [assignOfficer |-> If("CASE_ASSIGN", SubjectActions.assignOfficer),
     addNote       |-> If("CASE_UPDATE", NoteActions.addNote)]

CaseWorkForms ==
    [assignOfficer |-> If("CASE_ASSIGN", SubjectActions.assignOfficer),
     addNote       |-> If("CASE_UPDATE", NoteActions.addNote),
     closeCase     |-> If("CASE_CLOSE", SubjectActions.closeCase)]

CasePage ==
    Page([view |-> To("case", "view")], CaseForms @@ CaseWorkForms, {"view"},
         [person |-> {"view"}])

FindPage ==
    Page(NoCalls,
         [search |-> For(INVESTIGATION_PURPOSES, Under("case", To("citizen", "search")))],
         {}, [case |-> {"search"}])

\* Reached from a subject of a case, under that case; the purpose can be changed.
PersonPage ==
    Page([record |-> For({"CRIMINAL_INVESTIGATION"}, Under("case", To("citizen", "view360")))],
         NoCalls, {"record"}, [case |-> {"record"}, authorisation |-> {"record"}])

-----------------------------------------------------------------------------
(***************************************************************************)
(* Missing persons, and the people found.                                  *)
(***************************************************************************)
ReportMissing == [report |-> To("enquiry", "create")]

MissingPersonsPage ==
    Page([list |-> To("enquiry", "list")],
         [report |-> If("MISSING_PERSON_CREATE", ReportMissing.report)],
         {}, [enquiry |-> {"list", "report"}])

EnquiryActions ==
    [revise         |-> To("enquiry", "update"),
     reportSighting |-> To("enquiry", "reportSighting"),
     reviewSighting |-> To("enquiry", "reviewSighting"),
     runMatching    |-> To("matching", "runMatching")]

DecisionActions ==
    [decideMatch |-> To("matching", "reviewMatch"), resolve |-> To("matching", "resolve")]

EnquiryForms ==
    [revise         |-> If("MISSING_PERSON_UPDATE", EnquiryActions.revise),
     reviewSighting |-> If("MISSING_PERSON_UPDATE", EnquiryActions.reviewSighting),
     reportSighting |-> If("MISSING_PERSON_UPDATE", EnquiryActions.reportSighting)]

\* What the answer says of a candidate match.
CandidateAnswer == {"id", "score", "status", "engineVersion", "unidentifiedPersonId", "explanation"}

\* A candidate is drawn with its factors; an answer without them breaks the page.
CandidateForms ==
    IF "factors" \in CandidateAnswer
    THEN [decideMatch |-> If("MATCH_CONFIRM", DecisionActions.decideMatch)]
    ELSE NoCalls

MatchingForms ==
    [runMatching |-> If("MATCH_RUN", EnquiryActions.runMatching),
     resolve     |-> If("MISSING_PERSON_RESOLVE", DecisionActions.resolve)]

EnquiryPage ==
    Page([view |-> To("enquiry", "view")], EnquiryForms @@ CandidateForms @@ MatchingForms, {"view"},
         NoLinks)

FoundPersonActions ==
    [record |-> To("matching", "recordFound"), revise |-> To("found", "update")]

UnidentifiedPersonsPage ==
    Page([list |-> To("found", "list")],
         [record |-> If("UNIDENTIFIED_PERSON_CREATE", FoundPersonActions.record)],
         {}, [foundPerson |-> {"list", "record"}])

FoundPersonPage ==
    Page([view |-> To("found", "view")],
         [revise |-> If("UNIDENTIFIED_PERSON_UPDATE", FoundPersonActions.revise)],
         {"view"}, [enquiry |-> {"view"}])

-----------------------------------------------------------------------------
(***************************************************************************)
(* Access requests, break glass, and the officer's own account.            *)
(***************************************************************************)
RequestActions ==
    [raise  |-> Under("case", To("access", "createRequest")),
     decide |-> Returning(To("access", "decide"))]

BreakGlassActions ==
    [breakGlass |-> Returning(To("access", "breakGlass")), review |-> To("access", "reviewGrant")]

AuthorisationLoads ==
    [mine   |-> To("access", "listOwn"),
     queue  |-> If("ACCESS_REQUEST_APPROVE", To("access", "listToDecide")),
     grants |-> If("BREAK_GLASS_REVIEW", To("access", "reviewQueue"))]

RaiseForms ==
    [raise |-> If("ACCESS_REQUEST_CREATE", For(INVESTIGATION_PURPOSES, RequestActions.raise))]

BreakGlassForms ==
    [breakGlass |-> If("BREAK_GLASS_INITIATE", BreakGlassActions.breakGlass),
     review     |-> If("BREAK_GLASS_REVIEW", From("grants", BreakGlassActions.review))]

\* Decided from the queue, which only an approver has.
DecideForms == [decide |-> If("ACCESS_REQUEST_APPROVE", From("queue", RequestActions.decide))]

AuthorisationPage ==
    Page(AuthorisationLoads, RaiseForms @@ BreakGlassForms @@ DecideForms, {}, NoLinks)

AccountActions == [endSession |-> From("sessions", To("admin", "endSession"))]

SecurityAccount ==
    Page([me |-> To("auth", "me"), sessions |-> To("admin", "sessions")], AccountActions, {},
         [cases |-> {"me"}])

SecurityPassphrase == Page(NoCalls, [change |-> To("admin", "password")], {}, NoLinks)

SecurityPages ==
    [home |-> SecurityHome, cases |-> CasesPage, case |-> CasePage, find |-> FindPage,
     person |-> PersonPage, missingPersons |-> MissingPersonsPage, enquiry |-> EnquiryPage,
     unidentifiedPersons |-> UnidentifiedPersonsPage, foundPerson |-> FoundPersonPage,
     authorisation |-> AuthorisationPage, account |-> SecurityAccount]
=============================================================================
