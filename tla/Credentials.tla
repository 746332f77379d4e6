---------------------------- MODULE Credentials ----------------------------
(***************************************************************************)
(* The digital credential of one resident: credential.service.ts.  A view  *)
(* of the credential page finds the active credential or issues one, and   *)
(* mints a token for its QR code; an officer's scan reads the token with   *)
(* its credential, is authorised, and answers on what it read; a report of *)
(* loss revokes the active credentials and deletes the tokens of the       *)
(* revoked ones in two statements.                                         *)
(***************************************************************************)
EXTENDS Naturals, Sequences, FiniteSets

CONSTANTS Requests,
          MaxCredentials,  \* bound: rows of credential
          MaxTokens        \* bound: rows of credential_verification_token

VARIABLES
    credentials,  \* in order of issue
    holder,       \* whether the resident's record is ACTIVE
    tokens,       \* in order of minting
    request,      \* what each request remembers
    reported,     \* credentials the resident had when a loss was reported
    answers       \* of the valid answers, whether the scan came after such a report

vars == <<credentials, holder, tokens, request, reported, answers>>

Status == {"ACTIVE", "REVOKED"}
Credential == [status : Status, expired : BOOLEAN]
Token == [credential : 1..MaxCredentials, state : {"live", "expired", "deleted"}]
Request == [at : {"idle", "issue", "mint", "answer", "forget"},
            credential : 0..MaxCredentials, valid : BOOLEAN, lost : BOOLEAN]
Idle == [at |-> "idle", credential |-> 0, valid |-> FALSE, lost |-> FALSE]

TypeOK ==
    /\ credentials \in Seq(Credential) /\ Len(credentials) <= MaxCredentials
    /\ holder \in BOOLEAN
    /\ tokens \in Seq(Token) /\ Len(tokens) <= MaxTokens
    /\ request \in [Requests -> Request]
    /\ reported \subseteq DOMAIN credentials
    /\ answers \in SUBSET BOOLEAN

Init ==
    /\ credentials = <<>> /\ tokens = <<>>
    /\ holder = TRUE
    /\ request = [r \in Requests |-> Idle]
    /\ reported = {} /\ answers = {}

At(r, at) == request[r].at = at
Becomes(r, at, c) == request' = [request EXCEPT ![r] = [Idle EXCEPT !.at = at, !.credential = c]]
Ends(r) == request' = [request EXCEPT ![r] = Idle]

Active == {c \in DOMAIN credentials : credentials[c].status = "ACTIVE"}
Newest(set) == CHOOSE c \in set : \A d \in set : d <= c

\* isCredentialUsable()
Usable(c) == credentials[c].status = "ACTIVE" /\ ~credentials[c].expired

(***************************************************************************)
(* currentForCitizen(): the newest active credential, expired or not.      *)
(***************************************************************************)
View(r) ==
    /\ At(r, "idle")
    /\ IF Active = {} THEN Becomes(r, "issue", 0) ELSE Becomes(r, "mint", Newest(Active))
    /\ UNCHANGED <<credentials, holder, tokens, reported, answers>>

Issue(r) ==
    /\ At(r, "issue")
    /\ Len(credentials) < MaxCredentials
    /\ credentials' = Append(credentials, [status |-> "ACTIVE", expired |-> FALSE])
    /\ Becomes(r, "mint", Len(credentials) + 1)
    /\ UNCHANGED <<holder, tokens, reported, answers>>

\* mintDisplayToken(); tokens that expired an hour ago are deleted on the way.
Mint(r, housekeeping) ==
    /\ At(r, "mint")
    /\ Len(tokens) < MaxTokens
    /\ LET c == request[r].credential IN
       tokens' = Append([t \in DOMAIN tokens |->
                            IF housekeeping /\ tokens[t] = [credential |-> c, state |-> "expired"]
                            THEN [tokens[t] EXCEPT !.state = "deleted"] ELSE tokens[t]],
                        [credential |-> c, state |-> "live"])
    /\ Ends(r)
    /\ UNCHANGED <<credentials, holder, reported, answers>>

(***************************************************************************)
(* verifyByToken(): one read, the authorisation, and the answer.           *)
(***************************************************************************)
\* Mutation of Accepts: the tokens of a revoked credential are deleted anyway.
AcceptsToken(t) == tokens[t].state = "live" /\ ~credentials[tokens[t].credential].expired /\ holder

Accepts(t) == tokens[t].state = "live" /\ Usable(tokens[t].credential) /\ holder

Scan(r, t) ==
    /\ At(r, "idle")
    /\ t \in DOMAIN tokens /\ tokens[t].state # "deleted"
    /\ LET c == tokens[t].credential IN
       request' = [request EXCEPT ![r] =
                      [at |-> "answer", credential |-> c, valid |-> Accepts(t),
                       lost |-> c \in reported]]
    /\ UNCHANGED <<credentials, holder, tokens, reported, answers>>

Answer(r) ==
    /\ At(r, "answer")
    /\ answers' = IF request[r].valid
                  THEN answers \cup {request[r].lost} ELSE answers
    /\ Ends(r)
    /\ UNCHANGED <<credentials, holder, tokens, reported>>

(***************************************************************************)
(* revokeOwn(): what is reported is all the resident has, whichever of it  *)
(* the portal shows.                                                       *)
(***************************************************************************)
\* Mutation of Revoke: only the credential the portal shows.
RevokeShown(r) ==
    /\ At(r, "idle")
    /\ Active # {}
    /\ credentials' = [credentials EXCEPT ![Newest(Active)].status = "REVOKED"]
    /\ reported' = DOMAIN credentials
    /\ Becomes(r, "forget", 0)
    /\ UNCHANGED <<holder, tokens, answers>>

Revoke(r) ==
    /\ At(r, "idle")
    /\ Active # {}
    /\ credentials' = [c \in DOMAIN credentials |->
                          [credentials[c] EXCEPT !.status = "REVOKED"]]
    /\ reported' = DOMAIN credentials
    /\ Becomes(r, "forget", 0)
    /\ UNCHANGED <<holder, tokens, answers>>

Forget(r) ==
    /\ At(r, "forget")
    /\ tokens' = [t \in DOMAIN tokens |->
                     IF credentials[tokens[t].credential].status = "REVOKED"
                     THEN [tokens[t] EXCEPT !.state = "deleted"] ELSE tokens[t]]
    /\ Ends(r)
    /\ UNCHANGED <<credentials, holder, reported, answers>>

TokenExpires(t) ==
    /\ t \in DOMAIN tokens /\ tokens[t].state = "live"
    /\ tokens' = [tokens EXCEPT ![t].state = "expired"]
    /\ UNCHANGED <<credentials, holder, request, reported, answers>>

CredentialExpires(c) ==
    /\ c \in DOMAIN credentials /\ ~credentials[c].expired
    /\ credentials' = [credentials EXCEPT ![c].expired = TRUE]
    /\ UNCHANGED <<holder, tokens, request, reported, answers>>

HolderChanges ==
    /\ holder' = ~holder
    /\ UNCHANGED <<credentials, tokens, request, reported, answers>>

Next ==
    \/ \E r \in Requests :
          \/ View(r) \/ Issue(r) \/ Answer(r) \/ Revoke(r) \/ Forget(r)
          \/ \E housekeeping \in BOOLEAN : Mint(r, housekeeping)
          \/ \E t \in 1..MaxTokens : Scan(r, t)
    \/ \E t \in 1..MaxTokens : TokenExpires(t)
    \/ \E c \in 1..MaxCredentials : CredentialExpires(c)
    \/ HolderChanges

Spec == Init /\ [][Next]_vars

\* Once a resident has reported a loss, no scan confirms a credential issued before the
\* report: although two first views may have issued two active credentials, of which the
\* portal shows one, and a page that was opened before the report may mint its token
\* after the tokens were deleted.  (revokeOwn, verifyByToken: "Revoking invalidates every
\* token issued against it at once".)
LostIsNeverConfirmed == TRUE \notin answers
=============================================================================
