------------------------------- MODULE Portal -------------------------------
(***************************************************************************)
(* A portal in front of the sessions of one account: createApiClient() of  *)
(* portal-kit/src/api.ts, the cookie of portal-kit/src/session.ts and the  *)
(* server actions that rewrite it.  The portal keeps the tokens of the     *)
(* session in one cookie.  A call reads the cookie, refreshes the access   *)
(* token if it is about to end, and rewrites the cookie before it sends;   *)
(* pages, layouts and actions of one browser call at the same time.        *)
(*                                                                         *)
(* External, from Next.js: a cookie can be set by a server action and not  *)
(* while a page is rendered, where the attempt throws.                     *)
(***************************************************************************)
EXTENDS Sessions

CONSTANT Causes    \* the causes a browser is signed out for

ASSUME PortalAssumption ==
    /\ MaxSessions # 0
    /\ {"overlap", "page", "outage"} \subseteq Causes

VARIABLES
    cookie,     \* the session whose tokens the browser holds
    call,       \* what each call remembers
    ending,     \* sessions whose access token ends within 30 seconds
    signedOut,  \* a call answered that the session has ended
    causes      \* what has happened to the cookie that may explain it

portalVars == <<cookie, call, ending, signedOut, causes>>
serverOther == <<passphrase, changer, device, late>>

Kinds == {"page", "action", "copy"}
Call == [at : {"idle", "read", "refresh", "write", "send"}, token : Ids, kind : Kinds]

PortalTypeOK ==
    /\ TypeOK
    /\ cookie \in Ids
    /\ call \in [Requests -> Call]
    /\ ending \in SUBSET Ids
    /\ signedOut \in BOOLEAN
    /\ causes \in SUBSET Causes

PortalInit ==
    /\ Init
    /\ cookie = 1
    /\ call = [r \in Requests |-> [at |-> "idle", token |-> 1, kind |-> "page"]]
    /\ ending = {}
    /\ signedOut = FALSE
    /\ causes = {}

Calls(r, at) == call' = [call EXCEPT ![r].at = at]
InFlight(r) == call[r].at # "idle"

\* The officer has signed in; the passphrase and second-factor steps are done.
OpenSession(r) ==
    /\ rows = <<>>
    /\ \/ SignIn(r) /\ \A q \in Requests : request[q] = Idle
       \/ CreateSession(r)
    /\ UNCHANGED portalVars

(***************************************************************************)
(* A call reads the cookie once.  "copy" is an action that only changes    *)
(* what the cookie says besides the tokens, as setWorkingIncident() does.  *)
(***************************************************************************)
ReadCookie(r, kind) ==
    /\ rows # <<>>
    /\ call[r].at = "idle" /\ ~signedOut
    /\ call' = [call EXCEPT ![r] = [at |-> IF kind = "copy" THEN "write" ELSE "read",
                                    token |-> cookie, kind |-> kind]]
    /\ causes' = causes \cup (IF \E q \in Requests : InFlight(q) THEN {"overlap"} ELSE {})
    /\ UNCHANGED <<vars, cookie, ending, signedOut>>

Fresh(s) == s \notin ending

UseToken(r) ==
    /\ call[r].at = "read" /\ Fresh(call[r].token)
    /\ Calls(r, "send")
    /\ UNCHANGED <<vars, cookie, ending, signedOut, causes>>

(***************************************************************************)
(* ensureFreshToken(): the server's side is refresh() of Sessions.         *)
(***************************************************************************)
AskRefresh(r) ==
    /\ call[r].at = "read" /\ ~Fresh(call[r].token)
    /\ ReadRefreshToken(r, call[r].token)
    /\ Calls(r, "refresh")
    /\ UNCHANGED <<cookie, ending, signedOut, causes>>

ServerInserts(r) == InsertSuccessor(r) /\ UNCHANGED portalVars

\* Mutation of Refreshed: the tokens of the session are spread over the new ones.
RefreshedOld(r) == call[r].token

Refreshed(r) == request[r].next

ServerRotates(r) ==
    /\ MarkRotated(r)
    /\ call' = [call EXCEPT ![r] = [@ EXCEPT !.at = "write", !.token = Refreshed(r)]]
    /\ UNCHANGED <<cookie, ending, signedOut, causes>>

\* 401: "Your session has ended".
ServerRefuses(r) ==
    /\ RevokeChain(r)
    /\ Calls(r, "idle")
    /\ signedOut' = TRUE
    /\ UNCHANGED <<cookie, ending, causes>>

\* Any failure of the refresh is answered in the same way, an outage too; the
\* server may have rotated the token all the same.
NoAnswer(r) ==
    /\ \/ call[r].at = "read" /\ ~Fresh(call[r].token)
       \/ call[r].at = "write" /\ call[r].kind # "copy"
    /\ Calls(r, "idle")
    /\ signedOut' = TRUE
    /\ causes' = causes \cup {"outage"}
    /\ UNCHANGED <<vars, cookie, ending>>

WriteCookie(r) ==
    /\ call[r].at = "write" /\ call[r].kind # "page"
    /\ cookie' = call[r].token
    /\ Calls(r, IF call[r].kind = "copy" THEN "idle" ELSE "send")
    /\ UNCHANGED <<vars, ending, signedOut, causes>>

\* The page fails with the error of the refused cookie, and the new token is lost.
WriteFromPage(r) ==
    /\ call[r].at = "write" /\ call[r].kind = "page"
    /\ Calls(r, "idle")
    /\ causes' = causes \cup {"page"}
    /\ UNCHANGED <<vars, cookie, ending, signedOut>>

\* The guard admits the session or answers 401.
Send(r) ==
    /\ call[r].at = "send"
    /\ Calls(r, "idle")
    /\ signedOut' = (signedOut \/ ~Admissible(call[r].token))
    /\ UNCHANGED <<vars, cookie, ending, causes>>

TokenEnds(s) ==
    /\ s \in DOMAIN rows /\ s \notin ending
    /\ ending' = ending \cup {s}
    /\ UNCHANGED <<vars, cookie, call, signedOut, causes>>

PortalNext ==
    \/ \E r \in Requests :
          \/ OpenSession(r)
          \/ \E kind \in Kinds : ReadCookie(r, kind)
          \/ UseToken(r) \/ AskRefresh(r) \/ ServerInserts(r) \/ ServerRotates(r)
          \/ ServerRefuses(r) \/ NoAnswer(r) \/ WriteCookie(r) \/ WriteFromPage(r) \/ Send(r)
    \/ \E s \in Ids : TokenEnds(s)

PortalSpec == PortalInit /\ [][PortalNext]_<<vars, portalVars>>

\* While nobody ends the session elsewhere, a browser is signed out only because two
\* of its calls overlapped, because a page refreshed and could not keep the token, or
\* because the refresh was not answered; one action at a time keeps it signed in.
SignedOutHasACause == signedOut => causes # {}

\* What createApiClient() says of the refresh: "so nobody is signed out mid-task by a
\* fifteen-minute token".  With a server that answers, and calls one after the other.
NobodySignedOutMidTask == causes \cap {"overlap", "outage"} = {} => ~signedOut
=============================================================================
