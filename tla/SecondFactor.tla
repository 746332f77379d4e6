---------------------------- MODULE SecondFactor ----------------------------
(***************************************************************************)
(* The second factor of one account: auth.service.ts verifyMfa() and       *)
(* consumeRecoveryCode(), totp.service.ts verify(), and the enrolment of   *)
(* citizen-security.service.ts (admin.service.ts confirmMfa() is the same  *)
(* for officers, whose first credential comes with the account).           *)
(*                                                                         *)
(* Every enrolment makes a credential and a batch of recovery codes, here  *)
(* one code.  A code is the pair of a credential and a time step.  The     *)
(* counter of a credential is read before a code is verified against it    *)
(* and written afterwards, in another statement.                           *)
(***************************************************************************)
EXTENDS Naturals, Sequences, FiniteSets

CONSTANTS Requests,
          Sessions,
          MaxEnrolments,   \* bound: calls of beginMfaEnrolment()
          MaxStep,         \* bound: time steps of 30 seconds
          MaxTries         \* the budget mfa:<session>, which is 6 in 300 seconds

VARIABLES
    credentials,  \* citizen_mfa_credential of kind TOTP, in order of creation
    recovery,     \* of kind RECOVERY_CODE: the code that came with each
    enrolled,     \* mfa_enrolled
    step,         \* the current time step
    tries,        \* the counter mfa:<session>
    raised,       \* sessions at AAL2
    request,      \* what each request in flight remembers
    accepted,     \* how often each code was accepted
    overwrote     \* whether a write went over something its request had not read

vars == <<credentials, recovery, enrolled, step, tries, raised, request, accepted, overwrote>>

Rows == 1..MaxEnrolments
StepsOfTime == 0..MaxStep
RecoveryCode == MaxStep + 1
\* last is last_used_counter + 1, and 0 where there is none.
Credential == [confirmed : BOOLEAN, last : 0..MaxStep + 1, exists : BOOLEAN]
Request == [at : {"idle", "verify", "write", "recover", "consume", "raise", "begin", "insert", "confirm"},
            session : Sessions, row : 0..MaxEnrolments, last : 0..MaxStep + 1, code : 0..MaxStep]

TypeOK ==
    /\ credentials \in Seq(Credential) /\ Len(credentials) <= MaxEnrolments
    /\ DOMAIN recovery = DOMAIN credentials
    /\ \A n \in DOMAIN recovery : recovery[n] \in {"unused", "consumed", "deleted"}
    /\ enrolled \in BOOLEAN
    /\ step \in StepsOfTime
    /\ tries \in [Sessions -> 0..MaxTries]
    /\ raised \in SUBSET Sessions
    /\ request \in [Requests -> Request]
    /\ accepted \in [Rows \X (StepsOfTime \cup {RecoveryCode}) -> Nat]
    /\ overwrote \in BOOLEAN

Init ==
    /\ credentials = <<>> /\ recovery = <<>>
    /\ enrolled = FALSE
    /\ step = 0
    /\ tries = [s \in Sessions |-> 0]
    /\ raised = {}
    /\ \E s \in Sessions :
          request = [r \in Requests |->
                        [at |-> "idle", session |-> s, row |-> 0, last |-> 0, code |-> 0]]
    /\ accepted = [c \in Rows \X (StepsOfTime \cup {RecoveryCode}) |-> 0]
    /\ overwrote = FALSE

At(r, at) == request[r].at = at
Goes(r, at) == request' = [request EXCEPT ![r].at = at]
Ends(r) == request' = [request EXCEPT ![r] = [@ EXCEPT !.at = "idle", !.row = 0, !.last = 0, !.code = 0]]
Accepts(n, code) == accepted' = [accepted EXCEPT ![<<n, code>>] = @ + 1]

\* ORDER BY created_at DESC LIMIT 1
Latest(confirmed) ==
    LET found == {n \in DOMAIN credentials :
                     credentials[n].exists /\ credentials[n].confirmed = confirmed} IN
    IF found = {} THEN 0 ELSE CHOOSE n \in found : \A m \in found : m <= n

\* Mutation of Verifies: the step that was used last may be used again.
VerifiesAgain(c, last) == c + 1 \in step .. step + 2 /\ c + 1 >= last

\* totp.verify(): the code is of a step in the window and after the last one used.
Verifies(c, last) == c + 1 \in step .. step + 2 /\ c + 1 > last

\* What a transaction has deleted is locked until it commits.
Deleting(n) == \E q \in Requests : At(q, "insert") /\ n <= request[q].row

(***************************************************************************)
(* verifyMfa()                                                             *)
(***************************************************************************)
ReadCredential(r, s) ==
    /\ At(r, "idle")
    /\ tries[s] < MaxTries
    /\ tries' = [tries EXCEPT ![s] = @ + 1]
    /\ LET n == Latest(TRUE) IN
       /\ n # 0
       /\ request' = [request EXCEPT ![r] = [@ EXCEPT !.at = "verify", !.session = s, !.row = n,
                                                      !.last = credentials[n].last]]
    /\ UNCHANGED <<credentials, recovery, enrolled, step, raised, accepted, overwrote>>

VerifyCode(r, c) ==
    /\ At(r, "verify")
    /\ IF Verifies(c, request[r].last)
       THEN request' = [request EXCEPT ![r] = [@ EXCEPT !.at = "write", !.code = c]]
       ELSE Goes(r, "recover")
    /\ UNCHANGED <<credentials, recovery, enrolled, step, tries, raised, accepted, overwrote>>

\* UPDATE .. SET last_used_counter WHERE id: also over a later counter.
WriteCounter(r) ==
    LET n == request[r].row IN
    /\ At(r, "write")
    /\ credentials' = [credentials EXCEPT ![n].last = request[r].code + 1]
    /\ overwrote' = (overwrote \/ credentials[n].last # request[r].last)
    /\ Accepts(n, request[r].code)
    /\ Goes(r, "raise")
    /\ UNCHANGED <<recovery, enrolled, step, tries, raised>>

\* consumeRecoveryCode(): of the unused codes, whatever enrolment they came with.
FindRecovery(r, n) ==
    /\ At(r, "recover")
    /\ n \in DOMAIN recovery
    /\ IF recovery[n] = "unused"
       THEN request' = [request EXCEPT ![r] = [@ EXCEPT !.at = "consume", !.row = n, !.last = 0]]
       ELSE Ends(r)
    /\ UNCHANGED <<credentials, recovery, enrolled, step, tries, raised, accepted, overwrote>>

ConsumeRecovery(r) ==
    LET n == request[r].row IN
    /\ At(r, "consume")
    /\ Deleting(n) => recovery[n] = "deleted"
    /\ recovery' = [recovery EXCEPT ![n] = IF @ = "deleted" THEN @ ELSE "consumed"]
    /\ overwrote' = (overwrote \/ recovery[n] # "unused")
    /\ Accepts(n, RecoveryCode)
    /\ Goes(r, "raise")
    /\ UNCHANGED <<credentials, enrolled, step, tries, raised>>

Raise(r) ==
    /\ At(r, "raise")
    /\ raised' = raised \cup {request[r].session}
    /\ Ends(r)
    /\ UNCHANGED <<credentials, recovery, enrolled, step, tries, accepted, overwrote>>

(***************************************************************************)
(* Enrolment                                                               *)
(***************************************************************************)
Begin(r) ==
    /\ At(r, "idle")
    /\ ~enrolled
    /\ Goes(r, "begin")
    /\ UNCHANGED <<credentials, recovery, enrolled, step, tries, raised, accepted, overwrote>>

\* The transaction's DELETE .. WHERE confirmed_at IS NULL finds what is committed, so
\* that of two enrolments that overlap neither deletes what the other inserts.
DeletePending(r) ==
    /\ At(r, "begin")
    /\ request' = [request EXCEPT ![r].at = "insert", ![r].row = Len(credentials)]
    /\ UNCHANGED <<credentials, recovery, enrolled, step, tries, raised, accepted, overwrote>>

\* Recovery codes are never confirmed.
Kept(n) == credentials[n].exists /\ credentials[n].confirmed

\* The insertions, and the commit.
InsertPending(r) ==
    /\ At(r, "insert")
    /\ Len(credentials) < MaxEnrolments
    /\ credentials' = Append([n \in DOMAIN credentials |->
                                 IF n <= request[r].row
                                 THEN [credentials[n] EXCEPT !.exists = Kept(n)]
                                 ELSE credentials[n]],
                             [confirmed |-> FALSE, last |-> 0, exists |-> TRUE])
    /\ recovery' = Append([n \in DOMAIN recovery |->
                              IF n <= request[r].row THEN "deleted" ELSE recovery[n]], "unused")
    /\ Ends(r)
    /\ UNCHANGED <<enrolled, step, tries, raised, accepted, overwrote>>

\* The pending credential is read and the code verified, without a last counter.
ReadPending(r, c) ==
    LET n == Latest(FALSE) IN
    /\ At(r, "idle")
    /\ n # 0
    /\ Verifies(c, 0)
    /\ request' = [request EXCEPT ![r] = [@ EXCEPT !.at = "confirm", !.row = n, !.code = c]]
    /\ UNCHANGED <<credentials, recovery, enrolled, step, tries, raised, accepted, overwrote>>

Confirmed(n, c) == [credentials EXCEPT ![n].confirmed = TRUE, ![n].last = c + 1]

Confirm(r) ==
    LET n == request[r].row IN
    /\ At(r, "confirm")
    /\ Deleting(n) => Kept(n)
    /\ credentials' = Confirmed(n, request[r].code)
    /\ enrolled' = TRUE
    /\ overwrote' = (overwrote \/ credentials[n].confirmed \/ ~credentials[n].exists)
    /\ Accepts(n, request[r].code)
    /\ Ends(r)
    /\ UNCHANGED <<recovery, step, tries, raised>>

Tick ==
    /\ step < MaxStep
    /\ step' = step + 1
    /\ UNCHANGED <<credentials, recovery, enrolled, tries, raised, request, accepted, overwrote>>

StepUpEnds(s) ==
    /\ s \in raised
    /\ raised' = raised \ {s}
    /\ UNCHANGED <<credentials, recovery, enrolled, step, tries, request, accepted, overwrote>>

Next ==
    \/ \E r \in Requests :
          \/ \E s \in Sessions : ReadCredential(r, s)
          \/ \E c \in StepsOfTime : VerifyCode(r, c) \/ ReadPending(r, c)
          \/ \E n \in Rows : FindRecovery(r, n)
          \/ WriteCounter(r) \/ ConsumeRecovery(r) \/ Raise(r)
          \/ Begin(r) \/ DeletePending(r) \/ InsertPending(r) \/ Confirm(r)
    \/ Tick
    \/ \E s \in Sessions : StepUpEnds(s)

Spec == Init /\ [][Next]_vars

(***************************************************************************)
(* Properties                                                              *)
(***************************************************************************)
\* A code is accepted once, be it to confirm an authenticator, to step up or to
\* recover, as long as no request wrote over a counter or a code that another
\* one had changed since it read it (verifyMfa() reads first and writes last).
CodeOnce == ~overwrote => \A c \in DOMAIN accepted : accepted[c] <= 1

\* An account that is marked as enrolled has a confirmed authenticator, also when
\* another enrolment was begun before it was marked: starting over deletes what is
\* not confirmed (beginMfaEnrolment()) and nothing else.  The same exception holds:
\* a request may confirm a credential that was deleted since it was read.
EnrolledHasAuthenticator == enrolled /\ ~overwrote => Latest(TRUE) # 0

\* Two requests at a time cost at most what the code they share allows: the second factor
\* is there when the account says so, and a code is good for one request.
SecondFactorHolds == CodeOnce /\ EnrolledHasAuthenticator

\* What verifyMfa() promises: "the time step that matched is stored so the same
\* code cannot be replayed".
NoReplay == \A c \in DOMAIN accepted : accepted[c] <= 1
=============================================================================
