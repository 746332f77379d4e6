------------------------------ MODULE Sessions ------------------------------
(***************************************************************************)
(* Sessions of one account: auth.service.ts refresh(), logout(),           *)
(* createSession() and revokeChain(), account.service.ts changePassword()  *)
(* and revokeSession(), devices.service.ts register() and revoke(), and    *)
(* the session check of auth.guard.ts.                                     *)
(*                                                                         *)
(* No handler but the last two writes in one transaction: a request reads  *)
(* a row, decides, and writes one statement at a time, and what it read    *)
(* may be out of date when it writes.  request[r] is what a request in     *)
(* flight remembers.  Nothing obliges a request to go on: one whose        *)
(* process dies between two statements takes no further step.              *)
(*                                                                         *)
(* line, knew, raced and given are not columns: they record where a row    *)
(* came from, so that properties can speak of families of sessions: the    *)
(* rows it descends from and itself, the passphrase it was opened under,   *)
(* whether the passphrase changed while it was being opened, and whether   *)
(* its token was handed to anybody.                                        *)
(***************************************************************************)
EXTENDS Naturals, Sequences, FiniteSets

CONSTANTS Requests,
          Devices,
          MaxSessions,    \* bound: rows of user_session
          MaxChanges,     \* bound: passphrase changes
          None

ASSUME SessionsAssumption ==
    /\ MaxSessions \in Nat /\ MaxChanges \in Nat
    /\ None \notin Devices

VARIABLES
    rows,        \* user_session, in the order of insertion
    passphrase,  \* which passphrase the account has: the n-th
    changer,     \* the session that set it
    device,      \* registered_device: "none", "live" or "revoked"
    late,        \* devices a session was bound to after their revocation
    overlapped,  \* rows that two refreshes rotated at the same time
    request      \* what each request remembers

vars == <<rows, passphrase, changer, device, late, overlapped, request>>

Ids == 1..MaxSessions
Row == [live : BOOLEAN, expired : BOOLEAN, replacedBy : 0..MaxSessions,
        device : Devices \cup {None},
        line : SUBSET Ids, knew : 0..MaxChanges, raced : BOOLEAN, given : BOOLEAN]
Steps == {"idle", "sign_in", "reuse", "rotate", "mark", "admitted", "bind"}
Request == [at : Steps, row : 0..MaxSessions, next : 0..MaxSessions, device : Devices \cup {None},
            knew : 0..MaxChanges]

Idle == [at |-> "idle", row |-> 0, next |-> 0, device |-> None, knew |-> 0]

TypeOK ==
    /\ rows \in Seq(Row) /\ Len(rows) <= MaxSessions
    /\ passphrase \in 0..MaxChanges
    /\ changer \in 0..MaxSessions
    /\ device \in [Devices -> {"none", "live", "revoked"}]
    /\ late \in SUBSET Devices
    /\ overlapped \in SUBSET Ids
    /\ request \in [Requests -> Request]

Init ==
    /\ rows = <<>>
    /\ passphrase = 0 /\ changer = 0
    /\ device = [d \in Devices |-> "none"]
    /\ late = {} /\ overlapped = {}
    /\ request = [r \in Requests |-> Idle]

IsLive(s) == rows[s].live

\* UPDATE user_session SET revoked_at .. AND revoked_at IS NULL; the reason is left out.
Revoke(set) == [s \in DOMAIN rows |-> [rows[s] EXCEPT !.live = @ /\ s \notin set]]

\* The session check of the guard, and of refresh() and verifyMfa().
Admissible(s) == IsLive(s) /\ ~rows[s].expired

Becomes(r, at, s, next, d) ==
    request' = [request EXCEPT ![r] =
                    [at |-> at, row |-> s, next |-> next, device |-> d,
                     knew |-> IF at \in {"sign_in", "rotate"} THEN passphrase ELSE 0]]
Ends(r) == request' = [request EXCEPT ![r] = Idle]

(***************************************************************************)
(* Sign-in: the passphrase is verified, then createSession() inserts.      *)
(***************************************************************************)
\* createSession() copies nothing from the row a token is rotated from.
NewRow(r, parent) ==
    [live |-> TRUE, expired |-> FALSE, replacedBy |-> 0, device |-> None,
     line |-> {Len(rows) + 1} \cup (IF parent = 0 THEN {} ELSE rows[parent].line),
     knew |-> IF parent = 0 THEN request[r].knew ELSE rows[parent].knew,
     raced |-> request[r].knew # passphrase,
     given |-> parent = 0]

SignIn(r) ==
    /\ request[r] = Idle
    /\ Becomes(r, "sign_in", 0, 0, None)
    /\ UNCHANGED <<overlapped, rows, passphrase, changer, device, late>>

CreateSession(r) ==
    /\ request[r].at = "sign_in"
    /\ Len(rows) < MaxSessions
    /\ rows' = Append(rows, NewRow(r, 0))
    /\ Ends(r)
    /\ UNCHANGED <<overlapped, passphrase, changer, device, late>>

(***************************************************************************)
(* refresh(): the row is read once.  A token that was replaced or revoked  *)
(* revokes its family; a live one gets a successor, which is inserted      *)
(* first and recorded on the old row afterwards, whatever that has become. *)
(***************************************************************************)
Spent(s) == rows[s].replacedBy # 0 \/ ~IsLive(s)

Rotating(q, s) == request[q].at \in {"rotate", "mark"} /\ request[q].row = s

ReadRefreshToken(r, s) ==
    /\ request[r] = Idle
    /\ s \in DOMAIN rows /\ rows[s].given
    /\ \/ Spent(s) /\ Becomes(r, "reuse", s, 0, None) /\ UNCHANGED overlapped
       \/ /\ ~Spent(s) /\ ~rows[s].expired
          /\ Becomes(r, "rotate", s, 0, None)
          /\ overlapped' = IF \E q \in Requests : Rotating(q, s)
                           THEN overlapped \cup {s} ELSE overlapped
    /\ UNCHANGED <<rows, passphrase, changer, device, late>>

InsertSuccessor(r) ==
    /\ request[r].at = "rotate"
    /\ Len(rows) < MaxSessions
    /\ rows' = Append(rows, NewRow(r, request[r].row))
    /\ Becomes(r, "mark", request[r].row, Len(rows) + 1, None)
    /\ UNCHANGED <<overlapped, passphrase, changer, device, late>>

\* Mutation of Rotated: the old row is only given its successor.
RotatedLive(s, next) ==
    [rows EXCEPT ![s] = [@ EXCEPT !.replacedBy = next], ![next].given = TRUE]

\* The UPDATE has no condition: it also overwrites an earlier revocation.
Rotated(s, next) ==
    [rows EXCEPT ![s] = [@ EXCEPT !.replacedBy = next, !.live = FALSE],
                 ![next].given = TRUE]

MarkRotated(r) ==
    /\ request[r].at = "mark"
    /\ rows' = Rotated(request[r].row, request[r].next)
    /\ Ends(r)
    /\ UNCHANGED <<overlapped, passphrase, changer, device, late>>

\* Mutation of Family: the row alone.
FamilyAlone(s) == {s}

\* revokeChain(): the row and, along replaced_by, all that follow it: the least
\* set with the row in it that goes on to the successor of each of its rows.
Family(s) ==
    {t \in DOMAIN rows :
        \A set \in SUBSET DOMAIN rows :
            s \in set /\ (\A u \in set : rows[u].replacedBy \in set \cup {0}) => t \in set}

RevokeChain(r) ==
    /\ request[r].at = "reuse"
    /\ rows' = Revoke(Family(request[r].row))
    /\ Ends(r)
    /\ UNCHANGED <<overlapped, passphrase, changer, device, late>>

(***************************************************************************)
(* Requests under an access token: the guard reads the session first.      *)
(***************************************************************************)
Admit(r, s) ==
    /\ request[r] = Idle
    /\ s \in DOMAIN rows /\ Admissible(s)
    /\ Becomes(r, "admitted", s, 0, None)
    /\ UNCHANGED <<overlapped, rows, passphrase, changer, device, late>>

SignOut(r) ==
    /\ request[r].at = "admitted"
    /\ rows' = Revoke({request[r].row})
    /\ Ends(r)
    /\ UNCHANGED <<overlapped, passphrase, changer, device, late>>

EndSession(r, s) ==
    /\ request[r].at = "admitted"
    /\ s \in DOMAIN rows
    /\ rows' = Revoke({s})
    /\ Ends(r)
    /\ UNCHANGED <<overlapped, passphrase, changer, device, late>>

(***************************************************************************)
(* changePassword(): the current passphrase is verified, then one          *)
(* transaction sets the new one and ends every other session.              *)
(***************************************************************************)
\* Mutation of Others: only the sessions opened before this one.
OthersKnown(s) == {t \in DOMAIN rows : t < s}

Others(s) == DOMAIN rows \ {s}

ChangePassphrase(r) ==
    /\ request[r].at = "admitted"
    /\ passphrase < MaxChanges
    /\ passphrase' = passphrase + 1
    /\ changer' = request[r].row
    /\ rows' = Revoke(Others(request[r].row))
    /\ Ends(r)
    /\ UNCHANGED <<overlapped, device, late>>

(***************************************************************************)
(* Devices.  register() inserts the device and then binds the session, if  *)
(* that is still live; revoke() ends the device and its sessions together. *)
(***************************************************************************)
RegisterDevice(r, d) ==
    /\ request[r].at = "admitted"
    /\ device[d] = "none"
    /\ device' = [device EXCEPT ![d] = "live"]
    /\ Becomes(r, "bind", request[r].row, 0, d)
    /\ UNCHANGED <<overlapped, rows, passphrase, changer, late>>

BindSession(r) ==
    LET s == request[r].row
        d == request[r].device IN
    /\ request[r].at = "bind"
    /\ rows' = IF IsLive(s) THEN [rows EXCEPT ![s].device = d] ELSE rows
    /\ late' = IF device[d] = "revoked" THEN late \cup {d} ELSE late
    /\ Ends(r)
    /\ UNCHANGED <<overlapped, passphrase, changer, device>>

Bound(d) == {s \in DOMAIN rows : rows[s].device = d}

RevokeDevice(r, d) ==
    /\ request[r].at = "admitted"
    /\ device[d] = "live"
    /\ device' = [device EXCEPT ![d] = "revoked"]
    /\ rows' = Revoke(Bound(d))
    /\ Ends(r)
    /\ UNCHANGED <<overlapped, passphrase, changer, late>>

(***************************************************************************)
(* Time.  All sessions have the same length: the first to be opened is the *)
(* first to expire.                                                        *)
(***************************************************************************)
Expire(s) ==
    /\ s \in DOMAIN rows /\ ~rows[s].expired
    /\ \A t \in DOMAIN rows : t < s => rows[t].expired
    /\ rows' = [rows EXCEPT ![s].expired = TRUE]
    /\ UNCHANGED <<overlapped, passphrase, changer, device, late, request>>

Next ==
    \/ \E r \in Requests :
          \/ SignIn(r) \/ CreateSession(r)
          \/ InsertSuccessor(r) \/ MarkRotated(r) \/ RevokeChain(r)
          \/ SignOut(r) \/ ChangePassphrase(r) \/ BindSession(r)
          \/ \E s \in Ids : ReadRefreshToken(r, s) \/ Admit(r, s) \/ EndSession(r, s)
          \/ \E d \in Devices : RegisterDevice(r, d) \/ RevokeDevice(r, d)
    \/ \E s \in Ids : Expire(s)

Spec == Init /\ [][Next]_vars

(***************************************************************************)
(* Properties                                                              *)
(***************************************************************************)
\* The rows a row descends from, and the row itself.
Lineage(s) == rows[s].line

Held(s) == IsLive(s) /\ rows[s].given

\* Rotation keeps one holder: of the sessions that came out of one sign-in at
\* most one is live in somebody's hands, unless two refreshes of one of their
\* common predecessors overlapped (refresh() reads first and marks last).
OneHolder ==
    \A s, t \in DOMAIN rows :
        Held(s) /\ Held(t) /\ s # t /\ Lineage(s) \cap Lineage(t) # {}
            => Lineage(s) \cap Lineage(t) \cap overlapped # {}

\* A spent token presented again ends every session that was rotated out of it
\* (revokeChain()), except what an overlap of refreshes has put outside the chain.
ReuseEndsFamily ==
    [][\A r \in Requests :
          RevokeChain(r) =>
              \A t \in DOMAIN rows :
                  /\ request[r].row \in Lineage(t)
                  /\ Lineage(t) \cap overlapped = {}
                  /\ rows[t].given
                  => ~rows'[t].live]_vars

\* A passphrase change ends what was opened under an older passphrase, except
\* the session that changed it, what a request opened while it was being
\* changed, and what was rotated out of either (changePassword()).
OlderSessionsEnd ==
    \A s \in DOMAIN rows :
        IsLive(s) /\ rows[s].knew < passphrase
            => \E t \in Lineage(s) : t = changer \/ rows[t].raced

\* A session that is bound to a device ends with it (devices.service.ts
\* revoke()), unless it was bound when the device was already revoked.
RevokedDeviceEndsBound ==
    \A s \in DOMAIN rows : \A d \in Devices \ late :
        IsLive(s) /\ rows[s].device = d => device[d] # "revoked"

\* Nothing that was opened before outlives a change of the passphrase or the end of its
\* device, whatever was being opened, rotated or bound at the time.
SessionsEnd == OlderSessionsEnd /\ RevokedDeviceEndsBound

\* What devices.service.ts register() promises: "ending the device ends the
\* session it was registered from rather than leaving a signed-in browser
\* behind".  A session keeps no device through refresh().
DeviceEndsItsSession ==
    \A s \in DOMAIN rows : Held(s) =>
        \A t \in Lineage(s) : rows[t].device # None => device[rows[t].device] # "revoked"
=============================================================================
