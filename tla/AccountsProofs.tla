--------------------------- MODULE AccountsProofs ---------------------------
(***************************************************************************)
(* Theorems about one account, for any number of requests, devices,        *)
(* sessions and credentials.                                               *)
(*                                                                         *)
(* Sessions of one sign-in form a tree, and nothing but an overlap of two  *)
(* refreshes makes it branch: a row that nobody rotated twice has at most  *)
(* one successor, which is recorded on it unless the request that made it  *)
(* has still to write.  The holder and the reach of a revocation follow.   *)
(***************************************************************************)
EXTENDS MCAccounts, FiniteSetTheorems, WellFoundedInduction, TLAPS

-----------------------------------------------------------------------------
(***************************************************************************)
(* Sessions.                                                               *)
(***************************************************************************)
Open(r) == request[r].at \in {"rotate", "mark"}

\* A row is in its own line, which consists of rows.
Lines == \A t \in DOMAIN rows : t \in rows[t].line /\ rows[t].line \subseteq DOMAIN rows

\* A request in flight is about a row there is.  One that rotates a row was given its
\* token, and is alone with a row that has no successor on record, unless refreshes of
\* the row overlapped.  The successor it inserted is its own until it is recorded.
Flight ==
    /\ \A r \in Requests :
          /\ request[r].at \in {"rotate", "mark", "reuse", "admitted", "bind"}
                => request[r].row \in DOMAIN rows
          /\ request[r].at = "bind" => request[r].device \in Devices
          /\ Open(r) => rows[request[r].row].given
          /\ Open(r) /\ request[r].row \notin overlapped => rows[request[r].row].replacedBy = 0
          /\ request[r].at = "mark" =>
                /\ request[r].next \in DOMAIN rows
                /\ ~rows[request[r].next].given
                /\ rows[request[r].next].line = {request[r].next} \cup rows[request[r].row].line
    /\ \A q, r \in Requests : q # r /\ Open(q) /\ Open(r) =>
          /\ request[q].row = request[r].row => request[q].row \in overlapped
          /\ request[q].at = "mark" /\ request[r].at = "mark" => request[q].next # request[r].next

\* A request is about to record t as the successor of p.
Marking(p, t) == \E q \in Requests : request[q].at = "mark" /\ request[q].row = p /\ request[q].next = t

\* What descends from a row that was not rotated twice came out of its one rotation.
Successors ==
    \A t \in DOMAIN rows : \A p \in rows[t].line :
        p # t /\ p \notin overlapped => rows[p].replacedBy # 0 \/ Marking(p, t)

\* Two rows of one sign-in, neither of which descends from the other, part at an overlap.
Kin ==
    \A s, t \in DOMAIN rows :
        /\ s \notin rows[t].line /\ t \notin rows[s].line
        /\ rows[s].line \cap rows[t].line # {}
        => rows[s].line \cap rows[t].line \cap overlapped # {}

\* Where no refreshes overlapped, the successors on record lead from any row to each row
\* that descends from it and was handed out.
Chains ==
    \A t \in DOMAIN rows : rows[t].given /\ rows[t].line \cap overlapped = {} =>
        \A set \in SUBSET DOMAIN rows :
            /\ set \cap rows[t].line # {}
            /\ \A u \in set \cap rows[t].line : u # t => rows[u].replacedBy \in set
            => t \in set

\* A successor on record is a row, and ends the row it succeeds.
ReplacedEnded ==
    \A s \in DOMAIN rows : rows[s].replacedBy # 0 =>
        rows[s].replacedBy \in DOMAIN rows /\ ~rows[s].live

TreeInv == Lines /\ Flight /\ Successors /\ Kin /\ Chains /\ ReplacedEnded

\* Rows are what they are to the tree of sessions.
SameShape(R) ==
    /\ DOMAIN R = DOMAIN rows
    /\ \A s \in DOMAIN rows : /\ R[s].line = rows[s].line
                              /\ R[s].given = rows[s].given
                              /\ R[s].replacedBy = rows[s].replacedBy
                              /\ R[s].live => rows[s].live

LEMMA RowIs ==
  ASSUME NEW row \in Row
  PROVE  /\ row.live \in BOOLEAN /\ row.expired \in BOOLEAN /\ row.given \in BOOLEAN
         /\ row.raced \in BOOLEAN /\ row.replacedBy \in 0..MaxSessions
         /\ row.device \in Devices \cup {None} /\ row.line \in SUBSET Ids
         /\ row.knew \in 0..MaxChanges
  BY DEF Row

LEMMA TypedRows ==
  ASSUME TypeOK
  PROVE  /\ rows \in [1..Len(rows) -> Row] /\ Len(rows) \in Nat /\ DOMAIN rows = 1..Len(rows)
         /\ DOMAIN rows \subseteq Ids
         /\ \A s \in DOMAIN rows : rows[s] \in Row
  BY SessionsAssumption DEF TypeOK, Ids

LEMMA TypedRequests ==
  ASSUME TypeOK, NEW r \in Requests
  PROVE  /\ request[r] \in Request
         /\ request[r].at \in Steps /\ request[r].row \in 0..MaxSessions
         /\ request[r].next \in 0..MaxSessions /\ request[r].device \in Devices \cup {None}
         /\ request[r].knew \in 0..MaxChanges
  BY DEF TypeOK, Request

LEMMA RevokeIs ==
  ASSUME TypeOK, NEW set
  PROVE  /\ Revoke(set) \in Seq(Row) /\ Len(Revoke(set)) = Len(rows)
         /\ SameShape(Revoke(set))
         /\ \A s \in DOMAIN rows :
               /\ Revoke(set)[s].live <=> rows[s].live /\ s \notin set
               /\ Revoke(set)[s].expired = rows[s].expired
               /\ Revoke(set)[s].device = rows[s].device
               /\ Revoke(set)[s].knew = rows[s].knew
               /\ Revoke(set)[s].raced = rows[s].raced
<1>1. \A s \in DOMAIN rows : rows[s] \in Row  BY TypedRows
<1>2. \A s \in DOMAIN rows : [rows[s] EXCEPT !.live = @ /\ s \notin set] \in Row
  BY <1>1 DEF Row
<1>3. DOMAIN rows = 1..Len(rows) /\ Len(rows) \in Nat  BY TypedRows
<1>4. Revoke(set) \in [1..Len(rows) -> Row]  BY <1>2, <1>3 DEF Revoke
<1>5. Revoke(set) \in Seq(Row) /\ Len(Revoke(set)) = Len(rows)  BY <1>3, <1>4
<1>6. ASSUME NEW s \in DOMAIN rows
      PROVE  Revoke(set)[s] = [rows[s] EXCEPT !.live = (rows[s].live /\ s \notin set)]
  BY DEF Revoke
<1>7. ASSUME NEW row \in Row, NEW b \in BOOLEAN, NEW new, new = [row EXCEPT !.live = b]
      PROVE  /\ new.line = row.line /\ new.given = row.given /\ new.replacedBy = row.replacedBy
             /\ new.expired = row.expired /\ new.device = row.device /\ new.knew = row.knew
             /\ new.raced = row.raced /\ new.live = b
  BY <1>7 DEF Row
<1>8. \A s \in DOMAIN rows : rows[s].live \in BOOLEAN  BY <1>1, RowIs
<1>9. ASSUME NEW s \in DOMAIN rows
      PROVE  /\ Revoke(set)[s].line = rows[s].line /\ Revoke(set)[s].given = rows[s].given
             /\ Revoke(set)[s].replacedBy = rows[s].replacedBy
             /\ Revoke(set)[s].live = (rows[s].live /\ s \notin set)
             /\ Revoke(set)[s].expired = rows[s].expired
             /\ Revoke(set)[s].device = rows[s].device
             /\ Revoke(set)[s].knew = rows[s].knew
             /\ Revoke(set)[s].raced = rows[s].raced
  <2>1. rows[s] \in Row /\ (rows[s].live /\ s \notin set) \in BOOLEAN  BY <1>1, <1>8
  <2> DEFINE new == Revoke(set)[s]
             b == rows[s].live /\ s \notin set
  <2>2. new = [rows[s] EXCEPT !.live = b]  BY <1>6
  <2>3. b \in BOOLEAN /\ rows[s] \in Row  BY <2>1
  <2> HIDE DEF new, b
  <2>4. /\ new.line = rows[s].line /\ new.given = rows[s].given
        /\ new.replacedBy = rows[s].replacedBy
        /\ new.expired = rows[s].expired /\ new.device = rows[s].device
        /\ new.knew = rows[s].knew /\ new.raced = rows[s].raced /\ new.live = b
    BY <2>2, <2>3, <1>7
  <2> QED BY <2>4 DEF new, b
<1> QED BY <1>5, <1>9 DEF SameShape, Revoke

LEMMA AppendIs ==
  ASSUME TypeOK, NEW row \in Row, Len(rows) < MaxSessions, rows' = Append(rows, row)
  PROVE  /\ rows' \in Seq(Row) /\ Len(rows') = Len(rows) + 1 /\ Len(rows) + 1 \in Ids
         /\ DOMAIN rows' = DOMAIN rows \cup {Len(rows) + 1} /\ Len(rows) + 1 \notin DOMAIN rows
         /\ rows'[Len(rows) + 1] = row /\ \A s \in DOMAIN rows : rows'[s] = rows[s]
  BY SessionsAssumption DEF TypeOK, Ids

LEMMA NewRowIs ==
  ASSUME TypeOK, Len(rows) < MaxSessions, NEW r \in Requests, NEW parent \in {0} \cup DOMAIN rows
  PROVE  /\ NewRow(r, parent) \in Row
         /\ NewRow(r, parent).live = TRUE /\ NewRow(r, parent).replacedBy = 0
         /\ NewRow(r, parent).expired = FALSE
         /\ NewRow(r, parent).device = None
         /\ NewRow(r, parent).raced = (request[r].knew # passphrase)
         /\ parent = 0 => /\ NewRow(r, parent).line = {Len(rows) + 1}
                          /\ NewRow(r, parent).knew = request[r].knew
                          /\ NewRow(r, parent).given = TRUE
         /\ parent # 0 => /\ NewRow(r, parent).line = {Len(rows) + 1} \cup rows[parent].line
                          /\ NewRow(r, parent).knew = rows[parent].knew
                          /\ NewRow(r, parent).given = FALSE
<1>1. Len(rows) + 1 \in Ids /\ Len(rows) \in Nat  BY SessionsAssumption DEF TypeOK, Ids
<1>2. ({Len(rows) + 1} \cup (IF parent = 0 THEN {} ELSE rows[parent].line)) \in SUBSET Ids
  BY <1>1, TypedRows, RowIs
<1>3. (IF parent = 0 THEN request[r].knew ELSE rows[parent].knew) \in 0..MaxChanges
  BY TypedRequests, TypedRows, RowIs
<1>4. 0 \in 0..MaxSessions /\ None \in Devices \cup {None}  BY SessionsAssumption
<1> QED BY <1>2, <1>3, <1>4 DEF NewRow, Row

LEMMA RotatedIs ==
  ASSUME TypeOK, NEW p \in DOMAIN rows, NEW n \in DOMAIN rows,
         rows' = Rotated(p, n)
  PROVE  /\ rows' \in Seq(Row) /\ Len(rows') = Len(rows) /\ DOMAIN rows' = DOMAIN rows
         /\ \A t \in DOMAIN rows :
               /\ rows'[t].line = rows[t].line /\ rows'[t].knew = rows[t].knew
               /\ rows'[t].raced = rows[t].raced /\ rows'[t].device = rows[t].device
               /\ rows'[t].expired = rows[t].expired
               /\ t # p => rows'[t].replacedBy = rows[t].replacedBy /\ (rows'[t].live <=> rows[t].live)
               /\ t # n => (rows'[t].given <=> rows[t].given)
         /\ rows'[p].replacedBy = n /\ ~rows'[p].live /\ rows'[n].given
<1> DEFINE A == [rows EXCEPT ![p] = [rows[p] EXCEPT !.replacedBy = n, !.live = FALSE]]
<1>0. /\ rows \in [1..Len(rows) -> Row] /\ Len(rows) \in Nat /\ DOMAIN rows = 1..Len(rows)
      /\ n \in 0..MaxSessions
  BY TypedRows, SessionsAssumption DEF Ids
<1>1. [rows[p] EXCEPT !.replacedBy = n, !.live = FALSE] \in Row
  BY <1>0, TypedRows DEF Row
<1>2. /\ A \in [1..Len(rows) -> Row]
      /\ A[p] = [rows[p] EXCEPT !.replacedBy = n, !.live = FALSE]
      /\ \A t \in DOMAIN rows : t # p => A[t] = rows[t]
  BY <1>0, <1>1
<1>3. rows' = [A EXCEPT ![n] = [A[n] EXCEPT !.given = TRUE]]
  BY <1>0, <1>1 DEF Rotated
<1> HIDE DEF A
<1>4. \A t \in DOMAIN rows : A[t] \in Row  BY <1>0, <1>2
<1>5. [A[n] EXCEPT !.given = TRUE] \in Row  BY <1>4 DEF Row
<1>6. /\ rows' \in [1..Len(rows) -> Row]
      /\ rows'[n] = [A[n] EXCEPT !.given = TRUE]
      /\ \A t \in DOMAIN rows : t # n => rows'[t] = A[t]
  BY <1>0, <1>2, <1>3, <1>5
<1>7. rows' \in Seq(Row) /\ Len(rows') = Len(rows) /\ DOMAIN rows' = DOMAIN rows  BY <1>0, <1>6
<1>8. ASSUME NEW t \in DOMAIN rows
      PROVE  /\ A[t].line = rows[t].line /\ A[t].knew = rows[t].knew
             /\ A[t].raced = rows[t].raced /\ A[t].device = rows[t].device
             /\ A[t].expired = rows[t].expired /\ A[t].given = rows[t].given
             /\ A[t].replacedBy = (IF t = p THEN n ELSE rows[t].replacedBy)
             /\ A[t].live = (IF t = p THEN FALSE ELSE rows[t].live)
  <2>1. rows[t] \in Row  BY TypedRows
  <2> QED BY <2>1, <1>2 DEF Row
<1>9. ASSUME NEW t \in DOMAIN rows
      PROVE  /\ rows'[t].line = A[t].line /\ rows'[t].knew = A[t].knew
             /\ rows'[t].raced = A[t].raced /\ rows'[t].device = A[t].device
             /\ rows'[t].expired = A[t].expired
             /\ rows'[t].replacedBy = A[t].replacedBy /\ rows'[t].live = A[t].live
             /\ rows'[t].given = (IF t = n THEN TRUE ELSE A[t].given)
  <2>1. A[t] \in Row /\ A[n] \in Row  BY <1>4
  <2>2. CASE t = n  BY <2>1, <2>2, <1>6 DEF Row
  <2>3. CASE t # n  BY <2>1, <2>3, <1>6
  <2> QED BY <2>2, <2>3
<1>10. ASSUME NEW t \in DOMAIN rows
       PROVE  /\ rows'[t].line = rows[t].line /\ rows'[t].knew = rows[t].knew
              /\ rows'[t].raced = rows[t].raced /\ rows'[t].device = rows[t].device
              /\ rows'[t].expired = rows[t].expired
              /\ t # p => rows'[t].replacedBy = rows[t].replacedBy /\ (rows'[t].live <=> rows[t].live)
              /\ t # n => (rows'[t].given <=> rows[t].given)
  <2>1. /\ A[t].line = rows[t].line /\ A[t].knew = rows[t].knew
        /\ A[t].raced = rows[t].raced /\ A[t].device = rows[t].device
        /\ A[t].expired = rows[t].expired /\ A[t].given = rows[t].given
        /\ t # p => A[t].replacedBy = rows[t].replacedBy /\ A[t].live = rows[t].live
    BY <1>8
  <2>2. /\ rows'[t].line = A[t].line /\ rows'[t].knew = A[t].knew
        /\ rows'[t].raced = A[t].raced /\ rows'[t].device = A[t].device
        /\ rows'[t].expired = A[t].expired
        /\ rows'[t].replacedBy = A[t].replacedBy /\ rows'[t].live = A[t].live
        /\ t # n => rows'[t].given = A[t].given
    BY <1>9
  <2> QED BY <2>1, <2>2, Zenon
<1>11. rows'[p].replacedBy = n /\ rows'[p].live = FALSE /\ rows'[n].given = TRUE
  BY <1>8, <1>9
<1> QED BY <1>7, <1>10, <1>11

\* What a request remembers after a step, field by field.
Remembers(r, at, s, next, d) ==
    /\ request' \in [Requests -> Request]
    /\ \A q \in Requests : q # r => request'[q] = request[q]
    /\ request'[r].at = at /\ request'[r].row = s /\ request'[r].next = next
    /\ request'[r].device = d
    /\ request'[r].knew = IF at \in {"sign_in", "rotate"} THEN passphrase ELSE 0

LEMMA BecomesIs ==
  ASSUME TypeOK, NEW r \in Requests, NEW at \in Steps, NEW s \in 0..MaxSessions,
         NEW next \in 0..MaxSessions, NEW d \in Devices \cup {None}, Becomes(r, at, s, next, d)
  PROVE  Remembers(r, at, s, next, d)
<1> DEFINE new == [at |-> at, row |-> s, next |-> next, device |-> d,
                   knew |-> IF at \in {"sign_in", "rotate"} THEN passphrase ELSE 0]
<1>1. new \in Request  BY SessionsAssumption DEF Request, TypeOK
<1>2. request' = [request EXCEPT ![r] = new]  BY DEF Becomes
<1>3. request \in [Requests -> Request]  BY DEF TypeOK
<1>4. /\ request' \in [Requests -> Request] /\ request'[r] = new
      /\ \A q \in Requests : q # r => request'[q] = request[q]
  <2> HIDE DEF new
  <2> QED BY <1>1, <1>2, <1>3
<1> QED BY <1>4 DEF Remembers

LEMMA EndsIs ==
  ASSUME TypeOK, NEW r \in Requests, Ends(r)
  PROVE  Remembers(r, "idle", 0, 0, None)
<1>1. Idle \in Request /\ request \in [Requests -> Request]
  BY SessionsAssumption DEF Idle, Request, Steps, TypeOK
<1>2. /\ request' \in [Requests -> Request] /\ request'[r] = Idle
      /\ \A q \in Requests : q # r => request'[q] = request[q]
  BY <1>1 DEF Ends
<1> QED BY <1>2 DEF Remembers, Idle

\* Steps that rotate nothing.
Quiet ==
    /\ SameShape(rows')
    /\ overlapped' = overlapped
    /\ \A q \in Requests : request'[q] # request[q] =>
          /\ ~Open(q) /\ request'[q].at \notin {"rotate", "mark"}
          /\ request'[q].at \in {"reuse", "admitted", "bind"} => request'[q].row \in DOMAIN rows
          /\ request'[q].at = "bind" => request'[q].device \in Devices

LEMMA QuietKeepsTree == ASSUME TypeOK, TreeInv, Quiet PROVE TreeInv'
<1>1. /\ DOMAIN rows' = DOMAIN rows
      /\ \A s \in DOMAIN rows : /\ rows'[s].line = rows[s].line
                                /\ rows'[s].given = rows[s].given
                                /\ rows'[s].replacedBy = rows[s].replacedBy
                                /\ rows'[s].live => rows[s].live
  BY DEF Quiet, SameShape
<1>2. Lines'  BY <1>1 DEF Lines, TreeInv
<1>3. \A q \in Requests : Open(q)' => request'[q] = request[q] /\ Open(q)
  BY DEF Quiet, Open
<1>4. Flight'
  <2>1. ASSUME NEW r \in Requests
        PROVE  /\ request'[r].at \in {"rotate", "mark", "reuse", "admitted", "bind"}
                    => request'[r].row \in DOMAIN rows'
               /\ request'[r].at = "bind" => request'[r].device \in Devices
    <3>1. CASE request'[r] = request[r]  BY <1>1, <3>1 DEF TreeInv, Flight
    <3>2. CASE request'[r] # request[r]  BY <1>1, <3>2 DEF Quiet
    <3> QED BY <3>1, <3>2
  <2>2. ASSUME NEW r \in Requests, Open(r)'
        PROVE  /\ rows'[request'[r].row].given
               /\ request'[r].row \notin overlapped' => rows'[request'[r].row].replacedBy = 0
    <3>1. request'[r] = request[r] /\ Open(r) /\ request[r].row \in DOMAIN rows
      BY <1>3, <2>2 DEF TreeInv, Flight, Open
    <3> QED BY <1>1, <3>1 DEF TreeInv, Flight, Quiet
  <2>3. ASSUME NEW r \in Requests, request'[r].at = "mark"
        PROVE  /\ request'[r].next \in DOMAIN rows'
               /\ ~rows'[request'[r].next].given
               /\ rows'[request'[r].next].line
                     = {request'[r].next} \cup rows'[request'[r].row].line
    <3>1. request'[r] = request[r] /\ request[r].row \in DOMAIN rows
      BY <1>3, <2>3 DEF TreeInv, Flight, Open
    <3> QED BY <1>1, <2>3, <3>1 DEF TreeInv, Flight
  <2>4. ASSUME NEW q \in Requests, NEW r \in Requests, q # r, Open(q)', Open(r)'
        PROVE  /\ request'[q].row = request'[r].row => request'[q].row \in overlapped'
               /\ request'[q].at = "mark" /\ request'[r].at = "mark"
                    => request'[q].next # request'[r].next
    BY <1>3, <2>4 DEF TreeInv, Flight, Quiet
  <2> QED BY <2>1, <2>2, <2>3, <2>4 DEF Flight
<1>5. Successors'
  <2>1. \A p, t : Marking(p, t) => Marking(p, t)'
    BY DEF Marking, Quiet, Open
  <2> QED BY <1>1, <2>1 DEF TreeInv, Successors, Quiet, Lines
<1>6. Kin'  BY <1>1 DEF TreeInv, Kin, Quiet
<1>7. Chains'
  <2> SUFFICES ASSUME NEW t \in DOMAIN rows, rows[t].given, rows[t].line \cap overlapped = {},
                      NEW set \in SUBSET DOMAIN rows,
                      set \cap rows[t].line # {},
                      \A u \in set \cap rows[t].line : u # t => rows'[u].replacedBy \in set
               PROVE  t \in set
    BY <1>1 DEF Chains, Quiet
  <2>1. \A u \in set \cap rows[t].line : u # t => rows[u].replacedBy \in set
    BY <1>1
  <2> QED BY <2>1 DEF TreeInv, Chains
<1>8. ReplacedEnded'  BY <1>1 DEF TreeInv, ReplacedEnded
<1> QED BY <1>2, <1>4, <1>5, <1>6, <1>7, <1>8 DEF TreeInv

LEMMA CreateKeepsTree ==
  ASSUME TypeOK, TreeInv, NEW r \in Requests, CreateSession(r) PROVE TreeInv'
<1> DEFINE n == Len(rows) + 1
<1>1. /\ DOMAIN rows' = DOMAIN rows \cup {n} /\ n \notin DOMAIN rows
      /\ \A s \in DOMAIN rows : rows'[s] = rows[s]
      /\ rows'[n].replacedBy = 0 /\ rows'[n].line = {n} /\ rows'[n].given = TRUE
  <2>1. Len(rows) < MaxSessions /\ rows' = Append(rows, NewRow(r, 0))  BY DEF CreateSession
  <2>2. 0 \in {0} \cup DOMAIN rows  OBVIOUS
  <2>3. /\ NewRow(r, 0) \in Row /\ NewRow(r, 0).replacedBy = 0
        /\ NewRow(r, 0).line = {n} /\ NewRow(r, 0).given = TRUE
    BY <2>1, <2>2, NewRowIs
  <2> QED BY <2>1, <2>3, AppendIs
<1>2. /\ \A q \in Requests : q # r => request'[q] = request[q]
      /\ ~Open(r) /\ ~Open(r)' /\ request'[r].at = "idle"
  BY EndsIs DEF CreateSession, Remembers, Open
<1>3. overlapped' = overlapped  BY DEF CreateSession
<1> HIDE DEF n
<1>4. Lines'  BY <1>1 DEF TreeInv, Lines
<1>5. \A s \in DOMAIN rows : rows[s].line \subseteq DOMAIN rows  BY DEF TreeInv, Lines
<1>6. \A q \in Requests : Open(q)' => q # r /\ request'[q] = request[q] /\ Open(q)
  BY <1>2 DEF Open
<1>7. Flight'
  <2>1. ASSUME NEW q \in Requests
        PROVE  /\ request'[q].at \in {"rotate", "mark", "reuse", "admitted", "bind"}
                    => request'[q].row \in DOMAIN rows'
               /\ request'[q].at = "bind" => request'[q].device \in Devices
    BY <1>1, <1>2 DEF TreeInv, Flight
  <2>2. ASSUME NEW q \in Requests, Open(q)'
        PROVE  /\ rows'[request'[q].row].given
               /\ request'[q].row \notin overlapped' => rows'[request'[q].row].replacedBy = 0
    <3>1. request'[q] = request[q] /\ Open(q) /\ request[q].row \in DOMAIN rows
      BY <1>6, <2>2 DEF TreeInv, Flight, Open
    <3> QED BY <1>1, <1>3, <3>1 DEF TreeInv, Flight
  <2>3. ASSUME NEW q \in Requests, request'[q].at = "mark"
        PROVE  /\ request'[q].next \in DOMAIN rows'
               /\ ~rows'[request'[q].next].given
               /\ rows'[request'[q].next].line
                     = {request'[q].next} \cup rows'[request'[q].row].line
    <3>1. request'[q] = request[q] /\ request[q].row \in DOMAIN rows
      BY <1>6, <2>3 DEF TreeInv, Flight, Open
    <3> QED BY <1>1, <2>3, <3>1 DEF TreeInv, Flight
  <2>4. ASSUME NEW p \in Requests, NEW q \in Requests, p # q, Open(p)', Open(q)'
        PROVE  /\ request'[p].row = request'[q].row => request'[p].row \in overlapped'
               /\ request'[p].at = "mark" /\ request'[q].at = "mark"
                    => request'[p].next # request'[q].next
    BY <1>3, <1>6, <2>4 DEF TreeInv, Flight
  <2> QED BY <2>1, <2>2, <2>3, <2>4 DEF Flight
<1>8. Successors'
  <2>1. \A p, t : Marking(p, t) => Marking(p, t)'  BY <1>2 DEF Marking, Open
  <2> QED BY <1>1, <1>3, <1>5, <2>1 DEF TreeInv, Successors
<1>9. Kin'  BY <1>1, <1>3, <1>5 DEF TreeInv, Kin
<1>10. Chains'
  <2> SUFFICES ASSUME NEW t \in DOMAIN rows', rows'[t].given, rows'[t].line \cap overlapped' = {},
                      NEW set \in SUBSET DOMAIN rows',
                      set \cap rows'[t].line # {},
                      \A u \in set \cap rows'[t].line : u # t => rows'[u].replacedBy \in set
               PROVE  t \in set
    BY DEF Chains
  <2>1. CASE t = n  BY <1>1, <2>1
  <2>2. CASE t \in DOMAIN rows
    <3> DEFINE old == set \cap DOMAIN rows
    <3>1. rows'[t] = rows[t] /\ rows[t].line \subseteq DOMAIN rows  BY <1>1, <1>5, <2>2
    <3>2. old \in SUBSET DOMAIN rows /\ old \cap rows[t].line # {}  BY <3>1
    <3>3. ASSUME NEW u \in old \cap rows[t].line, u # t PROVE rows[u].replacedBy \in old
      <4>1. rows[u].replacedBy \in set  BY <1>1, <3>1, <3>3
      <4>2. rows[u].replacedBy # 0 \/ Marking(u, t)
        BY <1>3, <2>2, <3>1, <3>3 DEF TreeInv, Successors
      <4>3. ~Marking(u, t)  BY <1>1, <2>2 DEF TreeInv, Flight, Marking
      <4>4. rows[u].replacedBy \in DOMAIN rows
        BY <3>3, <4>2, <4>3 DEF TreeInv, ReplacedEnded
      <4> QED BY <4>1, <4>4
    <3> QED BY <1>3, <2>2, <3>1, <3>2, <3>3 DEF TreeInv, Chains
  <2> QED BY <1>1, <2>1, <2>2
<1>11. ReplacedEnded'  BY <1>1 DEF TreeInv, ReplacedEnded
<1> QED BY <1>4, <1>7, <1>8, <1>9, <1>10, <1>11 DEF TreeInv

LEMMA ReadKeepsTree ==
  ASSUME TypeOK, TreeInv, NEW r \in Requests, NEW s \in DOMAIN rows,
         request[r] = Idle, rows[s].given, ~Spent(s), Remembers(r, "rotate", s, 0, None),
         overlapped' = IF \E q \in Requests : Rotating(q, s) THEN overlapped \cup {s} ELSE overlapped,
         rows' = rows
  PROVE  TreeInv'
<1>1. /\ \A q \in Requests : q # r => request'[q] = request[q]
      /\ request'[r].at = "rotate" /\ request'[r].row = s
      /\ ~Open(r) /\ Open(r)'
  BY DEF Remembers, Open, Idle
<1>2. /\ overlapped \subseteq overlapped'
      /\ \A q \in Requests : Open(q) /\ request[q].row = s => s \in overlapped'
  BY DEF Rotating, Open
<1>3. Lines'  BY DEF TreeInv, Lines
<1>4. Flight'
  <2>1. ASSUME NEW q \in Requests
        PROVE  /\ request'[q].at \in {"rotate", "mark", "reuse", "admitted", "bind"}
                    => request'[q].row \in DOMAIN rows'
               /\ request'[q].at = "bind" => request'[q].device \in Devices
    BY <1>1 DEF TreeInv, Flight
  <2>2. ASSUME NEW q \in Requests, Open(q)'
        PROVE  /\ rows'[request'[q].row].given
               /\ request'[q].row \notin overlapped' => rows'[request'[q].row].replacedBy = 0
    <3>1. CASE q = r  BY <1>1, <3>1 DEF Spent
    <3>2. CASE q # r
      <4>1. request'[q] = request[q] /\ Open(q)  BY <1>1, <2>2, <3>2 DEF Open
      <4> QED BY <1>2, <4>1 DEF TreeInv, Flight
    <3> QED BY <3>1, <3>2
  <2>3. ASSUME NEW q \in Requests, request'[q].at = "mark"
        PROVE  /\ request'[q].next \in DOMAIN rows'
               /\ ~rows'[request'[q].next].given
               /\ rows'[request'[q].next].line
                     = {request'[q].next} \cup rows'[request'[q].row].line
    BY <1>1, <2>3 DEF TreeInv, Flight
  <2>4. ASSUME NEW p \in Requests, NEW q \in Requests, p # q, Open(p)', Open(q)'
        PROVE  /\ request'[p].row = request'[q].row => request'[p].row \in overlapped'
               /\ request'[p].at = "mark" /\ request'[q].at = "mark"
                    => request'[p].next # request'[q].next
    <3>1. \A u \in Requests : u # r /\ Open(u)' => request'[u] = request[u] /\ Open(u)
      BY <1>1 DEF Open
    <3>2. CASE p = r \/ q = r  BY <1>1, <1>2, <2>4, <3>1, <3>2
    <3>3. CASE p # r /\ q # r  BY <1>2, <2>4, <3>1, <3>3 DEF TreeInv, Flight
    <3> QED BY <3>2, <3>3
  <2> QED BY <2>1, <2>2, <2>3, <2>4 DEF Flight
<1>5. Successors'
  <2>1. \A p, t : Marking(p, t) => Marking(p, t)'  BY <1>1 DEF Marking, Open
  <2> QED BY <1>2, <2>1 DEF TreeInv, Successors
<1>6. Kin'  BY <1>2 DEF TreeInv, Kin
<1>7. Chains'
  <2> SUFFICES ASSUME NEW t \in DOMAIN rows, rows[t].given, rows[t].line \cap overlapped' = {},
                      NEW set \in SUBSET DOMAIN rows,
                      set \cap rows[t].line # {},
                      \A u \in set \cap rows[t].line : u # t => rows[u].replacedBy \in set
               PROVE  t \in set
    BY DEF Chains
  <2>1. rows[t].line \cap overlapped = {}  BY <1>2
  <2> QED BY <2>1 DEF TreeInv, Chains
<1>8. ReplacedEnded'  BY DEF TreeInv, ReplacedEnded
<1> QED BY <1>3, <1>4, <1>5, <1>6, <1>7, <1>8 DEF TreeInv

LEMMA InsertKeepsTree ==
  ASSUME TypeOK, TreeInv, NEW r \in Requests, InsertSuccessor(r) PROVE TreeInv'
<1> DEFINE n == Len(rows) + 1
           p == request[r].row
<1>1. p \in DOMAIN rows /\ rows[p].given /\ Open(r)
      /\ (p \notin overlapped => rows[p].replacedBy = 0)
  BY DEF InsertSuccessor, TreeInv, Flight, Open
<1>2. /\ DOMAIN rows' = DOMAIN rows \cup {n} /\ n \notin DOMAIN rows /\ n \in Ids
      /\ \A s \in DOMAIN rows : rows'[s] = rows[s]
      /\ rows'[n].replacedBy = 0 /\ rows'[n].line = {n} \cup rows[p].line /\ rows'[n].given = FALSE
  <2>1. Len(rows) < MaxSessions /\ rows' = Append(rows, NewRow(r, p))  BY DEF InsertSuccessor
  <2>2. p \in {0} \cup DOMAIN rows /\ p # 0  BY <1>1, TypedRows
  <2>3. /\ NewRow(r, p) \in Row /\ NewRow(r, p).replacedBy = 0
        /\ NewRow(r, p).line = {n} \cup rows[p].line /\ NewRow(r, p).given = FALSE
    BY <2>1, <2>2, NewRowIs
  <2> HIDE DEF p
  <2>4. /\ n \in Ids /\ DOMAIN rows' = DOMAIN rows \cup {n} /\ n \notin DOMAIN rows
        /\ rows'[n] = NewRow(r, p) /\ \A s \in DOMAIN rows : rows'[s] = rows[s]
    BY <2>1, <2>3, AppendIs
  <2> QED BY <2>3, <2>4
<1>3. /\ \A q \in Requests : q # r => request'[q] = request[q]
      /\ request'[r].at = "mark" /\ request'[r].row = p /\ request'[r].next = n
      /\ request[r].at = "rotate" /\ Open(r)'
  <2>1. Remembers(r, "mark", p, n, None)
    <3>1. n \in 0..MaxSessions /\ p \in 0..MaxSessions /\ "mark" \in Steps
      BY <1>1, <1>2, TypedRows DEF Ids, Steps
    <3> QED BY <3>1, BecomesIs DEF InsertSuccessor
  <2> QED BY <2>1 DEF Remembers, InsertSuccessor, Open
<1>4. overlapped' = overlapped  BY DEF InsertSuccessor
<1> HIDE DEF n, p
<1>5. \A s \in DOMAIN rows : s \in rows[s].line /\ rows[s].line \subseteq DOMAIN rows
  BY DEF TreeInv, Lines
<1>6. Lines'  BY <1>1, <1>2, <1>5 DEF Lines
<1>7. \A q \in Requests : q # r /\ Open(q)' => request'[q] = request[q] /\ Open(q)
  BY <1>3 DEF Open
<1>8. \A q \in Requests : Open(q) => /\ request[q].row \in DOMAIN rows
                                     /\ request[q].at = "mark" => request[q].next \in DOMAIN rows
  BY DEF TreeInv, Flight, Open
<1>9. Flight'
  <2>1. ASSUME NEW q \in Requests
        PROVE  /\ request'[q].at \in {"rotate", "mark", "reuse", "admitted", "bind"}
                    => request'[q].row \in DOMAIN rows'
               /\ request'[q].at = "bind" => request'[q].device \in Devices
    BY <1>1, <1>2, <1>3 DEF TreeInv, Flight
  <2>2. ASSUME NEW q \in Requests, Open(q)'
        PROVE  /\ rows'[request'[q].row].given
               /\ request'[q].row \notin overlapped' => rows'[request'[q].row].replacedBy = 0
    <3>1. CASE q = r  BY <1>1, <1>2, <1>3, <1>4, <3>1
    <3>2. CASE q # r  BY <1>2, <1>4, <1>7, <1>8, <2>2, <3>2 DEF TreeInv, Flight
    <3> QED BY <3>1, <3>2
  <2>3. ASSUME NEW q \in Requests, request'[q].at = "mark"
        PROVE  /\ request'[q].next \in DOMAIN rows'
               /\ ~rows'[request'[q].next].given
               /\ rows'[request'[q].next].line
                     = {request'[q].next} \cup rows'[request'[q].row].line
    <3>1. CASE q = r  BY <1>1, <1>2, <1>3, <3>1
    <3>2. CASE q # r
      <4>1. request'[q] = request[q] /\ Open(q) /\ request[q].at = "mark"
        BY <1>3, <2>3, <3>2 DEF Open
      <4> QED BY <1>2, <1>8, <4>1 DEF TreeInv, Flight
    <3> QED BY <3>1, <3>2
  <2>4. ASSUME NEW t \in Requests, NEW q \in Requests, t # q, Open(t)', Open(q)'
        PROVE  /\ request'[t].row = request'[q].row => request'[t].row \in overlapped'
               /\ request'[t].at = "mark" /\ request'[q].at = "mark"
                    => request'[t].next # request'[q].next
    <3>1. Open(t) /\ Open(q) /\ request'[t].row = request[t].row /\ request'[q].row = request[q].row
      BY <1>1, <1>3, <1>7, <2>4 DEF p
    <3>2. request'[t].row = request'[q].row => request'[t].row \in overlapped'
      BY <1>4, <2>4, <3>1 DEF TreeInv, Flight
    <3>3. CASE t = r \/ q = r  BY <1>2, <1>3, <1>7, <1>8, <2>4, <3>2, <3>3
    <3>4. CASE t # r /\ q # r  BY <1>7, <2>4, <3>2, <3>4 DEF TreeInv, Flight
    <3> QED BY <3>3, <3>4
  <2> QED BY <2>1, <2>2, <2>3, <2>4 DEF Flight
\* Nothing descends from the row yet, unless its refreshes overlapped.
<1>10. ASSUME p \notin overlapped, NEW t \in DOMAIN rows, p \in rows[t].line PROVE t = p
  <2>1. SUFFICES ASSUME t # p PROVE FALSE  OBVIOUS
  <2>2. rows[p].replacedBy # 0 \/ Marking(p, t)
    BY <1>10, <2>1 DEF TreeInv, Successors
  <2>3. PICK q \in Requests : request[q].at = "mark" /\ request[q].row = p
    BY <1>1, <1>10, <2>2 DEF Marking
  <2> QED BY <1>1, <1>3, <1>10, <2>3 DEF TreeInv, Flight, Open, p
<1>11. \A u, t : Marking(u, t) => Marking(u, t)'  BY <1>3 DEF Marking
<1>12. Successors'
  <2> SUFFICES ASSUME NEW t \in DOMAIN rows', NEW u \in rows'[t].line, u # t, u \notin overlapped'
               PROVE  rows'[u].replacedBy # 0 \/ Marking(u, t)'
    BY DEF Successors
  <2>1. CASE t \in DOMAIN rows
    BY <1>2, <1>4, <1>5, <1>11, <2>1 DEF TreeInv, Successors
  <2>2. CASE t = n /\ u = p  BY <1>3, <2>2 DEF Marking
  <2>3. CASE t = n /\ u # p
    <3>1. u \in rows[p].line /\ u \in DOMAIN rows  BY <1>1, <1>2, <1>5, <2>3
    <3>2. rows[u].replacedBy # 0 \/ Marking(u, p)
      BY <1>1, <1>4, <2>3, <3>1 DEF TreeInv, Successors
    <3>3. ~Marking(u, p)  BY <1>1 DEF TreeInv, Flight, Marking
    <3> QED BY <1>2, <3>1, <3>2, <3>3
  <2> QED BY <1>2, <2>1, <2>2, <2>3
\* Of a row of the same sign-in that neither descends from the new row nor it from it.
<1>13. ASSUME NEW t \in DOMAIN rows, t \notin rows'[n].line, rows[t].line \cap rows'[n].line # {}
       PROVE  rows[t].line \cap rows'[n].line \cap overlapped # {}
  <2>1. rows[t].line \cap rows'[n].line = rows[t].line \cap rows[p].line /\ t \notin rows[p].line
    BY <1>2, <1>5, <1>13
  <2>2. CASE p \in rows[t].line
    <3>1. t # p  BY <1>1, <1>5, <2>1
    <3>2. p \in overlapped  BY <1>10, <2>2, <3>1
    <3> QED BY <1>1, <1>5, <2>1, <2>2, <3>2
  <2>3. CASE p \notin rows[t].line
    BY <1>1, <1>13, <2>1, <2>3 DEF TreeInv, Kin
  <2> QED BY <2>2, <2>3
<1>14. Kin'
  <2> SUFFICES ASSUME NEW s \in DOMAIN rows', NEW t \in DOMAIN rows',
                      s \notin rows'[t].line, t \notin rows'[s].line,
                      rows'[s].line \cap rows'[t].line # {}
               PROVE  rows'[s].line \cap rows'[t].line \cap overlapped' # {}
    BY DEF Kin
  <2>1. CASE s \in DOMAIN rows /\ t \in DOMAIN rows
    BY <1>2, <1>4, <2>1 DEF TreeInv, Kin
  <2>2. CASE s = n /\ t = n  BY <1>2, <2>2
  <2>3. CASE s = n /\ t \in DOMAIN rows  BY <1>2, <1>4, <1>13, <2>3
  <2>4. CASE t = n /\ s \in DOMAIN rows  BY <1>2, <1>4, <1>13, <2>4
  <2> QED BY <1>2, <2>1, <2>2, <2>3, <2>4
<1>15. Chains'
  <2> SUFFICES ASSUME NEW t \in DOMAIN rows', rows'[t].given, rows'[t].line \cap overlapped' = {},
                      NEW set \in SUBSET DOMAIN rows',
                      set \cap rows'[t].line # {},
                      \A u \in set \cap rows'[t].line : u # t => rows'[u].replacedBy \in set
               PROVE  t \in set
    BY DEF Chains
  <2> DEFINE old == set \cap DOMAIN rows
  <2>1. t \in DOMAIN rows  BY <1>2
  <2>2. rows'[t] = rows[t] /\ rows[t].line \subseteq DOMAIN rows  BY <1>2, <1>5, <2>1
  <2>3. old \in SUBSET DOMAIN rows /\ old \cap rows[t].line # {}  BY <2>2
  <2>4. ASSUME NEW u \in old \cap rows[t].line, u # t PROVE rows[u].replacedBy \in old
    <3>1. rows[u].replacedBy \in set  BY <1>2, <2>2, <2>4
    <3>2. rows[u].replacedBy # 0 \/ Marking(u, t)
      BY <1>4, <2>1, <2>2, <2>4 DEF TreeInv, Successors
    <3>3. ~Marking(u, t)  BY <1>2, <2>1 DEF TreeInv, Flight, Marking
    <3>4. rows[u].replacedBy \in DOMAIN rows
      BY <2>4, <3>2, <3>3 DEF TreeInv, ReplacedEnded
    <3> QED BY <3>1, <3>4
  <2> QED BY <1>4, <2>1, <2>2, <2>3, <2>4 DEF TreeInv, Chains
<1>16. ReplacedEnded'  BY <1>2 DEF TreeInv, ReplacedEnded
<1> QED BY <1>6, <1>9, <1>12, <1>14, <1>15, <1>16 DEF TreeInv

LEMMA MarkKeepsTree ==
  ASSUME TypeOK, TreeInv, NEW r \in Requests, MarkRotated(r) PROVE TreeInv'
<1> DEFINE p == request[r].row
           n == request[r].next
<1>1. /\ p \in DOMAIN rows /\ n \in DOMAIN rows /\ rows[p].given /\ ~rows[n].given
      /\ rows[n].line = {n} \cup rows[p].line
      /\ Open(r) /\ request[r].at = "mark"
      /\ (p \notin overlapped => rows[p].replacedBy = 0)
  BY DEF MarkRotated, TreeInv, Flight, Open
<1>2. /\ DOMAIN rows' = DOMAIN rows /\ n # 0
      /\ \A t \in DOMAIN rows :
            /\ rows'[t].line = rows[t].line
            /\ t # p => rows'[t].replacedBy = rows[t].replacedBy /\ (rows'[t].live <=> rows[t].live)
            /\ t # n => (rows'[t].given <=> rows[t].given)
      /\ rows'[p].replacedBy = n /\ ~rows'[p].live /\ rows'[n].given
  <2>1. rows' = Rotated(p, n)  BY DEF MarkRotated
  <2>2. n # 0  BY <1>1, TypedRows
  <2>3. p \in DOMAIN rows /\ n \in DOMAIN rows  BY <1>1
  <2> HIDE DEF p, n
  <2> QED BY <2>1, <2>2, <2>3, RotatedIs
<1>3. /\ \A q \in Requests : q # r => request'[q] = request[q]
      /\ request'[r].at = "idle" /\ ~Open(r)'
  <2>1. Remembers(r, "idle", 0, 0, None)  BY EndsIs DEF MarkRotated
  <2> QED BY <2>1 DEF Remembers, Open
<1>4. overlapped' = overlapped  BY DEF MarkRotated
<1>5. \A q \in Requests : q # r /\ Open(q) =>
         /\ request[q].row = p => p \in overlapped
         /\ request[q].at = "mark" => request[q].next # n
  BY <1>1 DEF TreeInv, Flight
<1> HIDE DEF n, p
<1>6. \A s \in DOMAIN rows : s \in rows[s].line /\ rows[s].line \subseteq DOMAIN rows
  BY DEF TreeInv, Lines
<1>7. Lines'  BY <1>2, <1>6 DEF Lines
<1>8. \A q \in Requests : Open(q)' => q # r /\ request'[q] = request[q] /\ Open(q)
  BY <1>3 DEF Open
<1>9. Flight'
  <2>1. ASSUME NEW q \in Requests
        PROVE  /\ request'[q].at \in {"rotate", "mark", "reuse", "admitted", "bind"}
                    => request'[q].row \in DOMAIN rows'
               /\ request'[q].at = "bind" => request'[q].device \in Devices
    BY <1>2, <1>3 DEF TreeInv, Flight
  <2>2. ASSUME NEW q \in Requests, Open(q)'
        PROVE  /\ rows'[request'[q].row].given
               /\ request'[q].row \notin overlapped' => rows'[request'[q].row].replacedBy = 0
    <3>1. q # r /\ request'[q] = request[q] /\ Open(q) /\ request[q].row \in DOMAIN rows
      BY <1>8, <2>2 DEF TreeInv, Flight, Open
    <3>2. rows[request[q].row].given
          /\ (request[q].row \notin overlapped => rows[request[q].row].replacedBy = 0)
      BY <3>1 DEF TreeInv, Flight
    <3> QED BY <1>2, <1>4, <1>5, <3>1, <3>2
  <2>3. ASSUME NEW q \in Requests, request'[q].at = "mark"
        PROVE  /\ request'[q].next \in DOMAIN rows'
               /\ ~rows'[request'[q].next].given
               /\ rows'[request'[q].next].line
                     = {request'[q].next} \cup rows'[request'[q].row].line
    <3>1. q # r /\ request'[q] = request[q] /\ Open(q) /\ request[q].row \in DOMAIN rows
          /\ request[q].at = "mark"
      BY <1>8, <2>3 DEF TreeInv, Flight, Open
    <3>2. /\ request[q].next \in DOMAIN rows /\ ~rows[request[q].next].given
          /\ rows[request[q].next].line = {request[q].next} \cup rows[request[q].row].line
      BY <3>1 DEF TreeInv, Flight
    <3>3. request[q].next # n  BY <1>5, <3>1
    <3>4. \A t \in DOMAIN rows :
             rows'[t].line = rows[t].line /\ (t # n => (rows'[t].given <=> rows[t].given))
      BY <1>2
    <3> QED BY <1>2, <3>1, <3>2, <3>3, <3>4
  <2>4. ASSUME NEW t \in Requests, NEW q \in Requests, t # q, Open(t)', Open(q)'
        PROVE  /\ request'[t].row = request'[q].row => request'[t].row \in overlapped'
               /\ request'[t].at = "mark" /\ request'[q].at = "mark"
                    => request'[t].next # request'[q].next
    BY <1>4, <1>8, <2>4 DEF TreeInv, Flight
  <2> QED BY <2>1, <2>2, <2>3, <2>4 DEF Flight
<1>10. \A u, t : Marking(u, t) => (u = p /\ t = n) \/ Marking(u, t)'
  BY <1>3 DEF Marking, n, p
<1>11. Successors'
  <2> SUFFICES ASSUME NEW t \in DOMAIN rows, NEW u \in rows[t].line, u # t, u \notin overlapped
               PROVE  rows'[u].replacedBy # 0 \/ Marking(u, t)'
    BY <1>2, <1>4 DEF Successors
  <2>1. u \in DOMAIN rows  BY <1>6
  <2>2. rows[u].replacedBy # 0 \/ Marking(u, t)  BY DEF TreeInv, Successors
  <2> QED BY <1>2, <1>10, <2>1, <2>2
<1>12. Kin'
  <2>1. \A t \in DOMAIN rows : rows'[t].line = rows[t].line  BY <1>2
  <2> QED BY <1>2, <1>4, <2>1 DEF TreeInv, Kin
<1>13. Chains'
  <2> SUFFICES ASSUME NEW t \in DOMAIN rows, rows'[t].given, rows[t].line \cap overlapped = {},
                      NEW set \in SUBSET DOMAIN rows,
                      set \cap rows[t].line # {},
                      \A u \in set \cap rows[t].line : u # t => rows'[u].replacedBy \in set
               PROVE  t \in set
    BY <1>2, <1>4 DEF Chains
  <2>1. CASE t = n
    <3>1. SUFFICES ASSUME n \notin set PROVE FALSE  BY <2>1
    <3>2. set \cap rows[p].line # {} /\ rows[p].line \subseteq rows[t].line
      BY <1>1, <2>1, <3>1
    <3>3. \A u \in set \cap rows[p].line : u # p => rows[u].replacedBy \in set
      <4>1. ASSUME NEW u \in set \cap rows[p].line, u # p PROVE rows[u].replacedBy \in set
        <5>1. u \in DOMAIN rows /\ u \in rows[t].line /\ u # t  BY <2>1, <3>1, <3>2, <4>1
        <5> QED BY <1>2, <4>1, <5>1
      <4> QED BY <4>1
    <3>4. p \in set
      BY <1>1, <3>2, <3>3 DEF TreeInv, Chains
    <3>5. p \in rows[t].line /\ p # t  BY <1>1, <1>6, <2>1, <3>2
    <3> QED BY <1>1, <1>2, <3>1, <3>4, <3>5
  <2>2. CASE t # n
    <3>1. rows[t].given  BY <1>2, <2>2
    <3>2. p \in rows[t].line => p = t
      <4>1. SUFFICES ASSUME p \in rows[t].line, p # t PROVE FALSE  OBVIOUS
      <4>2. p \notin overlapped /\ rows[p].replacedBy = 0  BY <1>1, <4>1
      <4>3. Marking(p, t)  BY <1>1, <4>1, <4>2 DEF TreeInv, Successors
      <4> QED BY <3>1, <4>3 DEF TreeInv, Flight, Marking
    <3>3. \A u \in set \cap rows[t].line : u # t => rows[u].replacedBy \in set
      BY <1>2, <3>2
    <3> QED BY <3>1, <3>3 DEF TreeInv, Chains
  <2> QED BY <2>1, <2>2
<1>14. ReplacedEnded'  BY <1>1, <1>2 DEF TreeInv, ReplacedEnded
<1> QED BY <1>7, <1>9, <1>11, <1>12, <1>13, <1>14 DEF TreeInv

\* Steps that open no session and hand out none: rows keep what they descend from, and
\* none comes to life.
SameAge ==
    /\ DOMAIN rows' = DOMAIN rows
    /\ \A s \in DOMAIN rows : /\ rows'[s].line = rows[s].line
                              /\ rows'[s].knew = rows[s].knew
                              /\ rows'[s].raced = rows[s].raced
                              /\ rows'[s].live => rows[s].live

\* What a row may be bound to after a step: what it was, or a device that is not revoked
\* or was bound late.
SameBinding ==
    \A s \in DOMAIN rows : \A d \in Devices \ late' :
        rows'[s].live /\ rows'[s].device = d /\ device'[d] = "revoked"
            => rows[s].device = d /\ device[d] = "revoked" /\ d \notin late

Kept == TypeOK' /\ Quiet /\ SameAge /\ SameBinding

LEMMA SameRows ==
  ASSUME TypeOK, rows' = rows
  PROVE  rows' \in Seq(Row) /\ Len(rows') <= MaxSessions /\ SameShape(rows') /\ SameAge
  BY DEF TypeOK, SameShape, SameAge

LEMMA RevokeRows ==
  ASSUME TypeOK, NEW set, rows' = Revoke(set)
  PROVE  /\ rows' \in Seq(Row) /\ Len(rows') <= MaxSessions /\ SameShape(rows') /\ SameAge
         /\ \A s \in DOMAIN rows : rows'[s].device = rows[s].device
         /\ \A s \in DOMAIN rows : rows'[s].live => rows[s].live /\ s \notin set
<1>1. /\ Revoke(set) \in Seq(Row) /\ Len(Revoke(set)) = Len(rows)
      /\ SameShape(Revoke(set))
      /\ \A s \in DOMAIN rows :
            /\ Revoke(set)[s].live <=> rows[s].live /\ s \notin set
            /\ Revoke(set)[s].expired = rows[s].expired
            /\ Revoke(set)[s].device = rows[s].device
            /\ Revoke(set)[s].knew = rows[s].knew
            /\ Revoke(set)[s].raced = rows[s].raced
  BY RevokeIs
<1> QED BY <1>1 DEF SameShape, SameAge, TypeOK

LEMMA QuietRequests ==
  ASSUME TypeOK, NEW r \in Requests, NEW at, NEW s, NEW next, NEW d,
         Remembers(r, at, s, next, d), ~Open(r), at \notin {"rotate", "mark"},
         at \in {"reuse", "admitted", "bind"} => s \in DOMAIN rows,
         at = "bind" => d \in Devices,
         SameShape(rows'), overlapped' = overlapped
  PROVE  Quiet /\ request' \in [Requests -> Request]
  BY DEF Remembers, Quiet

LEMMA FoundRow ==
  ASSUME TypeOK, TreeInv, NEW r \in Requests,
         request[r].at \in {"rotate", "mark", "reuse", "admitted", "bind"}
  PROVE  request[r].row \in DOMAIN rows /\ request[r].row \in Ids /\ request[r].row \in 0..MaxSessions
  BY TypedRows, TypedRequests DEF TreeInv, Flight

LEMMA ReadingKeeps ==
  ASSUME TypeOK, TreeInv, NEW r \in Requests, NEW s \in DOMAIN rows \cup {0},
         NEW at \in {"sign_in", "reuse", "admitted"},
         at \in {"reuse", "admitted"} => s \in DOMAIN rows,
         request[r] = Idle, Becomes(r, at, s, 0, None),
         UNCHANGED <<overlapped, rows, passphrase, changer, device, late>>
  PROVE  Kept
<1>1. s \in 0..MaxSessions /\ at \in Steps /\ 0 \in 0..MaxSessions /\ None \in Devices \cup {None}
  BY TypedRows, SessionsAssumption DEF Steps, Ids
<1>2. Remembers(r, at, s, 0, None)  BY <1>1, BecomesIs
<1>3. ~Open(r)  BY DEF Open, Idle
<1>4. Quiet /\ request' \in [Requests -> Request]  BY <1>2, <1>3, SameRows, QuietRequests
<1>5. TypeOK'  BY <1>4 DEF TypeOK
<1>6. SameBinding  BY DEF SameBinding
<1> QED BY <1>4, <1>5, <1>6, SameRows DEF Kept

LEMMA RevokingKeeps ==
  ASSUME TypeOK, TreeInv, NEW r \in Requests, NEW set,
         request[r].at \in {"reuse", "admitted"}, rows' = Revoke(set), Ends(r),
         UNCHANGED <<overlapped, passphrase, changer, device, late>>
  PROVE  Kept
<1>1. Remembers(r, "idle", 0, 0, None)  BY EndsIs
<1>2. ~Open(r)  BY DEF Open
<1>3. Quiet /\ request' \in [Requests -> Request]  BY <1>1, <1>2, RevokeRows, QuietRequests
<1>4. TypeOK'  BY <1>3, RevokeRows DEF TypeOK
<1>5. SameBinding  BY RevokeRows DEF SameBinding
<1> QED BY <1>3, <1>4, <1>5, RevokeRows DEF Kept

LEMMA ChangeKeeps ==
  ASSUME TypeOK, TreeInv, NEW r \in Requests, ChangePassphrase(r)
  PROVE  /\ Kept /\ passphrase' = passphrase + 1 /\ changer' = request[r].row
         /\ \A s \in DOMAIN rows : rows'[s].live => s = changer'
         /\ request'[r].knew = 0 /\ \A q \in Requests : q # r => request'[q] = request[q]
<1>1. Remembers(r, "idle", 0, 0, None)  BY EndsIs DEF ChangePassphrase
<1>2. ~Open(r) /\ rows' = Revoke(Others(request[r].row))  BY DEF Open, ChangePassphrase
<1>3. Quiet /\ request' \in [Requests -> Request]
  BY <1>1, <1>2, RevokeRows, QuietRequests DEF ChangePassphrase
<1>4. changer' \in 0..MaxSessions /\ passphrase' \in 0..MaxChanges
  BY FoundRow, SessionsAssumption DEF ChangePassphrase, TypeOK
<1>5. TypeOK'  BY <1>2, <1>3, <1>4, RevokeRows DEF ChangePassphrase, TypeOK
<1>6. SameBinding  BY <1>2, RevokeRows DEF SameBinding, ChangePassphrase
<1>7. ASSUME NEW s \in DOMAIN rows, rows'[s].live PROVE s = request[r].row
  <2>1. s \notin Others(request[r].row)  BY <1>2, <1>7, RevokeRows
  <2> QED BY <2>1 DEF Others
<1> QED BY <1>1, <1>2, <1>3, <1>5, <1>6, <1>7, RevokeRows DEF ChangePassphrase, Kept, Remembers

LEMMA RegisterKeeps ==
  ASSUME TypeOK, TreeInv, NEW r \in Requests, NEW d \in Devices, RegisterDevice(r, d)
  PROVE  Kept
<1>1. request[r].row \in DOMAIN rows /\ request[r].row \in 0..MaxSessions
  BY FoundRow DEF RegisterDevice
<1>2. Remembers(r, "bind", request[r].row, 0, d)
  <2>1. "bind" \in Steps /\ 0 \in 0..MaxSessions  BY SessionsAssumption DEF Steps
  <2> QED BY <1>1, <2>1, BecomesIs DEF RegisterDevice
<1>3. ~Open(r)  BY DEF Open, RegisterDevice
<1>4. Quiet /\ request' \in [Requests -> Request]
  <2>1. SameShape(rows') /\ overlapped' = overlapped  BY SameRows DEF RegisterDevice
  <2>2. "bind" \notin {"rotate", "mark"}  OBVIOUS
  <2> QED BY <1>1, <1>2, <1>3, <2>1, <2>2, QuietRequests
<1>5. TypeOK'  BY <1>4 DEF TypeOK, RegisterDevice
<1>6. SameBinding
  <2>1. \A e \in Devices : device'[e] = "revoked" => device[e] = "revoked"
    BY DEF RegisterDevice, TypeOK
  <2> QED BY <2>1 DEF SameBinding, RegisterDevice
<1> QED BY <1>4, <1>5, <1>6, SameRows DEF Kept, RegisterDevice

LEMMA BindKeeps ==
  ASSUME TypeOK, TreeInv, NEW r \in Requests, BindSession(r) PROVE Kept
<1> DEFINE s == request[r].row
           d == request[r].device
<1>1. s \in DOMAIN rows /\ d \in Devices
  BY DEF BindSession, TreeInv, Flight
<1>2. Remembers(r, "idle", 0, 0, None)  BY EndsIs DEF BindSession
<1>3. ~Open(r)  BY DEF Open, BindSession
<1>4. /\ rows' = (IF rows[s].live THEN [rows EXCEPT ![s].device = d] ELSE rows)
      /\ late' = (IF device[d] = "revoked" THEN late \cup {d} ELSE late)
      /\ UNCHANGED <<overlapped, passphrase, changer, device>>
  BY DEF BindSession, IsLive
<1> HIDE DEF s, d
<1>5. /\ rows \in [1..Len(rows) -> Row] /\ Len(rows) \in Nat /\ DOMAIN rows = 1..Len(rows)
      /\ rows[s] \in Row
  BY <1>1, TypedRows
<1>6. /\ [rows[s] EXCEPT !.device = d] \in Row
      /\ [rows[s] EXCEPT !.device = d].live = rows[s].live
      /\ [rows[s] EXCEPT !.device = d].line = rows[s].line
      /\ [rows[s] EXCEPT !.device = d].given = rows[s].given
      /\ [rows[s] EXCEPT !.device = d].replacedBy = rows[s].replacedBy
      /\ [rows[s] EXCEPT !.device = d].knew = rows[s].knew
      /\ [rows[s] EXCEPT !.device = d].raced = rows[s].raced
      /\ [rows[s] EXCEPT !.device = d].device = d
  BY <1>1, <1>5 DEF Row
<1>7. /\ rows' \in [1..Len(rows) -> Row]
      /\ \A t \in DOMAIN rows : t # s => rows'[t] = rows[t]
      /\ rows'[s] = rows[s] \/ rows'[s] = [rows[s] EXCEPT !.device = d]
  BY <1>1, <1>4, <1>5, <1>6
<1>8. rows' \in Seq(Row) /\ Len(rows') = Len(rows)  BY <1>5, <1>7
<1>9. SameShape(rows') /\ SameAge
  BY <1>5, <1>6, <1>7 DEF SameShape, SameAge
<1>10. Quiet /\ request' \in [Requests -> Request]
  <2>1. SameShape(rows') /\ overlapped' = overlapped  BY <1>4, <1>9
  <2>2. "idle" \notin {"rotate", "mark", "reuse", "admitted", "bind"}  OBVIOUS
  <2> QED BY <1>2, <1>3, <2>1, <2>2, QuietRequests
<1>11. TypeOK'  BY <1>1, <1>4, <1>8, <1>10 DEF TypeOK
<1>12. SameBinding
  <2> SUFFICES ASSUME NEW t \in DOMAIN rows, NEW e \in Devices \ late', rows'[t].live,
                      rows'[t].device = e, device'[e] = "revoked"
               PROVE  rows[t].device = e /\ device[e] = "revoked" /\ e \notin late
    BY DEF SameBinding
  <2>1. device[e] = "revoked" /\ e \notin late  BY <1>4
  <2>2. rows[t].device = e
    <3>1. CASE t = s /\ rows'[s] = [rows[s] EXCEPT !.device = d]
      <4>1. e = d  BY <1>6, <3>1
      <4> QED BY <1>4, <2>1, <4>1
    <3>2. CASE rows'[t] = rows[t]  BY <3>2
    <3> QED BY <1>7, <3>1, <3>2
  <2> QED BY <2>1, <2>2
<1> QED BY <1>9, <1>10, <1>11, <1>12 DEF Kept

LEMMA RevokeDeviceKeeps ==
  ASSUME TypeOK, TreeInv, NEW r \in Requests, NEW d \in Devices, RevokeDevice(r, d) PROVE Kept
<1>1. Remembers(r, "idle", 0, 0, None)  BY EndsIs DEF RevokeDevice
<1>2. ~Open(r) /\ rows' = Revoke(Bound(d))  BY DEF Open, RevokeDevice
<1>3. Quiet /\ request' \in [Requests -> Request]
  BY <1>1, <1>2, RevokeRows, QuietRequests DEF RevokeDevice
<1>4. TypeOK'  BY <1>2, <1>3, RevokeRows DEF TypeOK, RevokeDevice
<1>5. SameBinding
  <2> SUFFICES ASSUME NEW t \in DOMAIN rows, NEW e \in Devices \ late', rows'[t].live,
                      rows'[t].device = e, device'[e] = "revoked"
               PROVE  rows[t].device = e /\ device[e] = "revoked" /\ e \notin late
    BY DEF SameBinding
  <2>1. rows[t].device = e /\ t \notin Bound(d)  BY <1>2, RevokeRows
  <2>2. e # d  BY <2>1 DEF Bound
  <2> QED BY <2>1, <2>2 DEF RevokeDevice, TypeOK
<1> QED BY <1>2, <1>3, <1>4, <1>5, RevokeRows DEF Kept

LEMMA ExpireKeeps ==
  ASSUME TypeOK, TreeInv, NEW s \in Ids, Expire(s) PROVE Kept
<1>1. s \in DOMAIN rows /\ rows' = [rows EXCEPT ![s].expired = TRUE]
      /\ UNCHANGED <<overlapped, passphrase, changer, device, late, request>>
  BY DEF Expire
<1>2. /\ rows \in [1..Len(rows) -> Row] /\ Len(rows) \in Nat /\ DOMAIN rows = 1..Len(rows)
      /\ rows[s] \in Row
  BY <1>1, TypedRows
<1>3. /\ [rows[s] EXCEPT !.expired = TRUE] \in Row
      /\ [rows[s] EXCEPT !.expired = TRUE].live = rows[s].live
      /\ [rows[s] EXCEPT !.expired = TRUE].line = rows[s].line
      /\ [rows[s] EXCEPT !.expired = TRUE].given = rows[s].given
      /\ [rows[s] EXCEPT !.expired = TRUE].replacedBy = rows[s].replacedBy
      /\ [rows[s] EXCEPT !.expired = TRUE].knew = rows[s].knew
      /\ [rows[s] EXCEPT !.expired = TRUE].raced = rows[s].raced
      /\ [rows[s] EXCEPT !.expired = TRUE].device = rows[s].device
  BY <1>2 DEF Row
<1>4. /\ rows' \in [1..Len(rows) -> Row]
      /\ \A t \in DOMAIN rows : t # s => rows'[t] = rows[t]
      /\ rows'[s] = [rows[s] EXCEPT !.expired = TRUE]
  BY <1>1, <1>2, <1>3
<1>5. rows' \in Seq(Row) /\ Len(rows') = Len(rows)  BY <1>2, <1>4
<1>6. SameShape(rows') /\ SameAge /\ \A t \in DOMAIN rows : rows'[t].device = rows[t].device
  BY <1>2, <1>3, <1>4 DEF SameShape, SameAge
<1>7. Quiet  BY <1>1, <1>6 DEF Quiet
<1>8. TypeOK'  BY <1>1, <1>5 DEF TypeOK
<1>9. SameBinding  BY <1>1, <1>6 DEF SameBinding
<1> QED BY <1>6, <1>7, <1>8, <1>9 DEF Kept

\* What a passphrase change leaves of a row that was opened under an older one.
Excused(s) == \E t \in Lineage(s) : t = changer \/ rows[t].raced

\* A request remembers a passphrase the account has had.  One that has read a row under the
\* present passphrase may insert its successor: what excuses the row excuses that too.
Remembered ==
    \A r \in Requests :
        /\ request[r].knew <= passphrase
        /\ request[r].at = "rotate" /\ request[r].knew = passphrase
              /\ rows[request[r].row].knew < passphrase => Excused(request[r].row)

SessionInv == TypeOK /\ TreeInv /\ Remembered /\ SessionsEnd

LEMMA KeptKeepsAge ==
  ASSUME SessionInv, Kept, passphrase' = passphrase, changer' = changer,
         \A q \in Requests : request'[q] # request[q] =>
             request'[q].at # "rotate" /\ request'[q].knew <= passphrase
  PROVE  Remembered' /\ SessionsEnd'
<1>1. /\ DOMAIN rows' = DOMAIN rows
      /\ \A s \in DOMAIN rows : /\ rows'[s].line = rows[s].line
                                /\ rows'[s].knew = rows[s].knew
                                /\ rows'[s].raced = rows[s].raced
                                /\ rows'[s].live => rows[s].live
  BY DEF Kept, SameAge
<1>2. \A s \in DOMAIN rows : s \in rows[s].line /\ rows[s].line \subseteq DOMAIN rows
  BY DEF SessionInv, TreeInv, Lines
<1>3. \A s \in DOMAIN rows : Excused(s) => Excused(s)'
  BY <1>1, <1>2 DEF Excused, Lineage
<1>4. OlderSessionsEnd'
  BY <1>1, <1>3 DEF OlderSessionsEnd, SessionInv, SessionsEnd, IsLive, Excused
<1>5. RevokedDeviceEndsBound'
  BY <1>1 DEF RevokedDeviceEndsBound, SessionInv, SessionsEnd, IsLive, Kept, SameBinding
<1>6. Remembered'
  <2>1. ASSUME NEW r \in Requests
        PROVE  /\ request'[r].knew <= passphrase
               /\ request'[r].at = "rotate" /\ request'[r].knew = passphrase
                     /\ rows'[request'[r].row].knew < passphrase => Excused(request[r].row)'
    <3>1. CASE request'[r] = request[r]
      <4>1. request[r].knew <= passphrase  BY DEF SessionInv, Remembered
      <4>2. ASSUME request[r].at = "rotate", request[r].knew = passphrase,
                   rows'[request[r].row].knew < passphrase
            PROVE  Excused(request[r].row)'
        <5>0. PICK s : s = request[r].row  OBVIOUS
        <5>1. s \in DOMAIN rows  BY <4>2, <5>0 DEF SessionInv, TreeInv, Flight
        <5>2. rows[s].knew < passphrase  BY <1>1, <4>2, <5>0, <5>1
        <5>3. Excused(s)  BY <4>2, <5>0, <5>2 DEF SessionInv, Remembered
        <5>4. Excused(s)'  BY <1>3, <5>1, <5>3
        <5> QED BY <3>1, <5>0, <5>4 DEF Excused, Lineage
      <4> QED BY <3>1, <4>1, <4>2
    <3>2. CASE request'[r] # request[r]  BY <3>2
    <3> QED BY <3>1, <3>2
  <2> QED BY <2>1 DEF Remembered
<1> QED BY <1>4, <1>5, <1>6 DEF SessionsEnd

LEMMA KeptKeepsInv ==
  ASSUME SessionInv, Kept, passphrase' = passphrase, changer' = changer,
         \A q \in Requests : request'[q] # request[q] =>
             request'[q].at # "rotate" /\ request'[q].knew <= passphrase
  PROVE  SessionInv'
<1>1. TreeInv'  BY QuietKeepsTree DEF SessionInv, Kept
<1>2. Remembered' /\ SessionsEnd'  BY KeptKeepsAge
<1> QED BY <1>1, <1>2 DEF SessionInv, Kept

LEMMA RemembersKnew ==
  ASSUME TypeOK, NEW r \in Requests, NEW at, at # "rotate", NEW s, NEW next, NEW d,
         Remembers(r, at, s, next, d)
  PROVE  \A q \in Requests : request'[q] # request[q] =>
             request'[q].at # "rotate" /\ request'[q].knew <= passphrase
<1>1. passphrase \in Nat  BY SessionsAssumption DEF TypeOK
<1> QED BY <1>1 DEF Remembers

LEMMA SignInStep == ASSUME SessionInv, NEW r \in Requests, SignIn(r) PROVE SessionInv'
<1>1. TypeOK /\ TreeInv  BY DEF SessionInv
<1>2. Kept  BY <1>1, ReadingKeeps DEF SignIn
<1>3. Remembers(r, "sign_in", 0, 0, None)
  <2>1. "sign_in" \in Steps /\ 0 \in 0..MaxSessions  BY SessionsAssumption DEF Steps
  <2> QED BY <1>1, <2>1, BecomesIs DEF SignIn
<1> QED BY <1>1, <1>2, <1>3, RemembersKnew, KeptKeepsInv DEF SignIn

LEMMA AdmitStep == ASSUME SessionInv, NEW r \in Requests, NEW s \in Ids, Admit(r, s) PROVE SessionInv'
<1>1. TypeOK /\ TreeInv  BY DEF SessionInv
<1>2. Kept  BY <1>1, ReadingKeeps DEF Admit
<1>3. Remembers(r, "admitted", s, 0, None)
  <2>1. "admitted" \in Steps /\ 0 \in 0..MaxSessions /\ s \in 0..MaxSessions
    BY SessionsAssumption DEF Steps, Ids
  <2> QED BY <1>1, <2>1, BecomesIs DEF Admit
<1> QED BY <1>1, <1>2, <1>3, RemembersKnew, KeptKeepsInv DEF Admit

LEMMA RevokingStep ==
  ASSUME SessionInv, NEW r \in Requests, NEW set,
         request[r].at \in {"reuse", "admitted"}, rows' = Revoke(set), Ends(r),
         UNCHANGED <<overlapped, passphrase, changer, device, late>>
  PROVE  SessionInv'
<1>1. TypeOK /\ TreeInv  BY DEF SessionInv
<1>2. Kept  BY <1>1, RevokingKeeps
<1>3. Remembers(r, "idle", 0, 0, None)  BY <1>1, EndsIs
<1> QED BY <1>1, <1>2, <1>3, RemembersKnew, KeptKeepsInv

LEMMA DeviceStep ==
  ASSUME SessionInv, NEW r \in Requests, NEW d \in Devices,
         RegisterDevice(r, d) \/ BindSession(r) \/ RevokeDevice(r, d)
  PROVE  SessionInv'
<1>1. TypeOK /\ TreeInv  BY DEF SessionInv
<1>2. CASE RegisterDevice(r, d)
  <2>1. Kept  BY <1>1, <1>2, RegisterKeeps
  <2>2. request[r].row \in 0..MaxSessions  BY <1>1, TypedRequests
  <2>3. Remembers(r, "bind", request[r].row, 0, d)
    <3>1. "bind" \in Steps /\ 0 \in 0..MaxSessions  BY SessionsAssumption DEF Steps
    <3> QED BY <1>1, <1>2, <2>2, <3>1, BecomesIs DEF RegisterDevice
  <2> QED BY <1>1, <1>2, <2>1, <2>3, RemembersKnew, KeptKeepsInv DEF RegisterDevice
<1>3. CASE BindSession(r)
  <2>1. Kept  BY <1>1, <1>3, BindKeeps
  <2>2. Remembers(r, "idle", 0, 0, None)  BY <1>1, <1>3, EndsIs DEF BindSession
  <2> QED BY <1>1, <1>3, <2>1, <2>2, RemembersKnew, KeptKeepsInv DEF BindSession
<1>4. CASE RevokeDevice(r, d)
  <2>1. Kept  BY <1>1, <1>4, RevokeDeviceKeeps
  <2>2. Remembers(r, "idle", 0, 0, None)  BY <1>1, <1>4, EndsIs DEF RevokeDevice
  <2> QED BY <1>1, <1>4, <2>1, <2>2, RemembersKnew, KeptKeepsInv DEF RevokeDevice
<1> QED BY <1>2, <1>3, <1>4

LEMMA ExpireStep == ASSUME SessionInv, NEW s \in Ids, Expire(s) PROVE SessionInv'
  BY ExpireKeeps, KeptKeepsInv DEF SessionInv, Expire

LEMMA ChangeStep == ASSUME SessionInv, NEW r \in Requests, ChangePassphrase(r) PROVE SessionInv'
<1>1. TypeOK /\ TreeInv  BY DEF SessionInv
<1>2. /\ Kept /\ passphrase' = passphrase + 1 /\ changer' = request[r].row
      /\ \A s \in DOMAIN rows : rows'[s].live => s = changer'
      /\ request'[r].knew = 0 /\ \A q \in Requests : q # r => request'[q] = request[q]
  BY <1>1, ChangeKeeps
<1>3. TreeInv' /\ TypeOK'  BY <1>1, <1>2, QuietKeepsTree DEF Kept
<1>4. DOMAIN rows' = DOMAIN rows  BY <1>2 DEF Kept, SameAge
<1>5. passphrase \in Nat /\ \A q \in Requests : request[q].knew \in Nat
  BY <1>1, TypedRequests, SessionsAssumption DEF TypeOK
<1>6. Remembered'
  <2>1. \A q \in Requests : request'[q].knew <= passphrase /\ request'[q].knew \in Nat
    BY <1>2, <1>5 DEF SessionInv, Remembered
  <2> QED BY <1>2, <1>5, <2>1 DEF Remembered
<1>7. OlderSessionsEnd'
  <2>1. \A s \in DOMAIN rows' : s \in rows'[s].line  BY <1>3 DEF TreeInv, Lines
  <2> QED BY <1>2, <1>4, <2>1 DEF OlderSessionsEnd, IsLive, Lineage
<1>8. RevokedDeviceEndsBound'
  BY <1>2, <1>4 DEF RevokedDeviceEndsBound, SessionInv, SessionsEnd, IsLive, Kept, SameBinding,
                    SameAge
<1> QED BY <1>3, <1>6, <1>7, <1>8 DEF SessionInv, SessionsEnd

\* A row is added; the others stay what they are.
LEMMA AddedKeepsAge ==
  ASSUME SessionInv, TreeInv', NEW n, n \notin DOMAIN rows,
         DOMAIN rows' = DOMAIN rows \cup {n},
         \A s \in DOMAIN rows : rows'[s] = rows[s],
         rows'[n].device = None,
         rows'[n].knew < passphrase => Excused(n)',
         UNCHANGED <<overlapped, passphrase, changer, device, late>>,
         NEW r \in Requests, request'[r].at # "rotate", request'[r].knew = 0,
         \A q \in Requests : q # r => request'[q] = request[q]
  PROVE  Remembered' /\ SessionsEnd'
<1>1. \A s \in DOMAIN rows : s \in rows[s].line /\ rows[s].line \subseteq DOMAIN rows
  BY DEF SessionInv, TreeInv, Lines
<1>2. \A s \in DOMAIN rows : Excused(s) => Excused(s)'
  BY <1>1 DEF Excused, Lineage
<1>3. OlderSessionsEnd'
  <2> SUFFICES ASSUME NEW s \in DOMAIN rows', rows'[s].live, rows'[s].knew < passphrase
               PROVE  Excused(s)'
    BY DEF OlderSessionsEnd, IsLive, Excused
  <2>1. CASE s = n  BY <2>1
  <2>2. CASE s \in DOMAIN rows
    <3>1. Excused(s)
      BY <2>2 DEF SessionInv, SessionsEnd, OlderSessionsEnd, IsLive, Excused
    <3> QED BY <1>2, <2>2, <3>1
  <2> QED BY <2>1, <2>2
<1>4. RevokedDeviceEndsBound'
  BY SessionsAssumption DEF RevokedDeviceEndsBound, SessionInv, SessionsEnd, IsLive
<1>5. Remembered'
  <2>1. passphrase \in Nat  BY SessionsAssumption DEF SessionInv, TypeOK
  <2>2. ASSUME NEW q \in Requests
        PROVE  /\ request'[q].knew <= passphrase
               /\ request'[q].at = "rotate" /\ request'[q].knew = passphrase
                     /\ rows'[request'[q].row].knew < passphrase => Excused(request[q].row)'
    <3>1. CASE q = r  BY <2>1, <3>1
    <3>2. CASE q # r
      <4>1. request[q].knew <= passphrase /\ request'[q] = request[q]
        BY <3>2 DEF SessionInv, Remembered
      <4>2. ASSUME request[q].at = "rotate", request[q].knew = passphrase,
                   rows'[request[q].row].knew < passphrase
            PROVE  Excused(request[q].row)'
        <5>0. PICK s : s = request[q].row  OBVIOUS
        <5>1. s \in DOMAIN rows  BY <4>2, <5>0 DEF SessionInv, TreeInv, Flight
        <5>2. Excused(s)  BY <4>2, <5>0, <5>1 DEF SessionInv, Remembered
        <5>3. Excused(s)'  BY <1>2, <5>1, <5>2
        <5> QED BY <4>1, <5>0, <5>3 DEF Excused, Lineage
      <4> QED BY <4>1, <4>2
    <3> QED BY <3>1, <3>2
  <2> QED BY <2>2 DEF Remembered
<1> QED BY <1>3, <1>4, <1>5 DEF SessionsEnd

LEMMA CreateStep == ASSUME SessionInv, NEW r \in Requests, CreateSession(r) PROVE SessionInv'
<1>n. PICK n : n = Len(rows) + 1  OBVIOUS
<1>0. TypeOK /\ TreeInv  BY DEF SessionInv
<1>1. Len(rows) < MaxSessions /\ rows' = Append(rows, NewRow(r, 0))
      /\ UNCHANGED <<overlapped, passphrase, changer, device, late>>
  BY DEF CreateSession
<1>2. /\ NewRow(r, 0) \in Row /\ NewRow(r, 0).device = None /\ NewRow(r, 0).line = {n}
      /\ NewRow(r, 0).raced = (request[r].knew # passphrase) /\ NewRow(r, 0).knew = request[r].knew
  <2>1. 0 \in {0} \cup DOMAIN rows  OBVIOUS
  <2> QED BY <1>n, <1>0, <1>1, <2>1, NewRowIs
<1>3. /\ rows' \in Seq(Row) /\ Len(rows') = n /\ n \in Ids
      /\ DOMAIN rows' = DOMAIN rows \cup {n} /\ n \notin DOMAIN rows
      /\ rows'[n] = NewRow(r, 0) /\ \A s \in DOMAIN rows : rows'[s] = rows[s]
  BY <1>n, <1>0, <1>1, <1>2, AppendIs
<1>4. Remembers(r, "idle", 0, 0, None)  BY <1>0, EndsIs DEF CreateSession
<1>5. TypeOK'
  BY <1>0, <1>1, <1>3, <1>4, SessionsAssumption DEF TypeOK, Remembers, Ids
<1>6. TreeInv'  BY <1>0, CreateKeepsTree
<1>7. rows'[n].knew < passphrase => Excused(n)'
  <2>1. passphrase \in Nat /\ request[r].knew \in Nat
    BY <1>0, TypedRequests, SessionsAssumption DEF TypeOK
  <2>2. n \in rows'[n].line /\ rows'[n].knew = request[r].knew
        /\ rows'[n].raced = (request[r].knew # passphrase)
    BY <1>2, <1>3
  <2>3. rows'[n].knew < passphrase => request[r].knew # passphrase  BY <2>1, <2>2
  <2> QED BY <2>2, <2>3 DEF Excused, Lineage
<1>8. rows'[n].device = None  BY <1>2, <1>3
<1>9. request'[r].at # "rotate" /\ request'[r].knew = 0
      /\ \A q \in Requests : q # r => request'[q] = request[q]
  BY <1>4 DEF Remembers
<1>10. Remembered' /\ SessionsEnd'
  BY <1>1, <1>3, <1>6, <1>7, <1>8, <1>9, AddedKeepsAge
<1> QED BY <1>5, <1>6, <1>10 DEF SessionInv

LEMMA InsertStep == ASSUME SessionInv, NEW r \in Requests, InsertSuccessor(r) PROVE SessionInv'
<1>n. PICK n, p : n = Len(rows) + 1 /\ p = request[r].row  OBVIOUS
<1>0. TypeOK /\ TreeInv  BY DEF SessionInv
<1>1. Len(rows) < MaxSessions /\ rows' = Append(rows, NewRow(r, p)) /\ request[r].at = "rotate"
      /\ UNCHANGED <<overlapped, passphrase, changer, device, late>>
  BY <1>n DEF InsertSuccessor
<1>2. p \in DOMAIN rows /\ p # 0 /\ p \in 0..MaxSessions  BY <1>n, <1>0, <1>1, FoundRow, TypedRows
<1>3. /\ NewRow(r, p) \in Row /\ NewRow(r, p).device = None
      /\ NewRow(r, p).line = {n} \cup rows[p].line
      /\ NewRow(r, p).raced = (request[r].knew # passphrase) /\ NewRow(r, p).knew = rows[p].knew
  <2>1. p \in {0} \cup DOMAIN rows  BY <1>2
  <2> QED BY <1>n, <1>0, <1>1, <1>2, <2>1, NewRowIs
<1>4. /\ rows' \in Seq(Row) /\ Len(rows') = n /\ n \in Ids
      /\ DOMAIN rows' = DOMAIN rows \cup {n} /\ n \notin DOMAIN rows
      /\ rows'[n] = NewRow(r, p) /\ \A s \in DOMAIN rows : rows'[s] = rows[s]
  BY <1>n, <1>0, <1>1, <1>3, AppendIs
<1>5. Remembers(r, "mark", p, n, None)
  <2>1. n \in 0..MaxSessions /\ "mark" \in Steps  BY <1>4 DEF Ids, Steps
  <2> QED BY <1>n, <1>0, <1>2, <2>1, BecomesIs DEF InsertSuccessor
<1>6. TypeOK'
  BY <1>0, <1>1, <1>4, <1>5, SessionsAssumption DEF TypeOK, Remembers, Ids
<1>7. TreeInv'  BY <1>0, InsertKeepsTree
<1>8. request[r].knew = passphrase /\ rows[p].knew < passphrase => Excused(p)
  BY <1>n, <1>1 DEF SessionInv, Remembered, Excused, Lineage
<1>9. rows'[n].knew < passphrase => Excused(n)'
  <2> SUFFICES ASSUME rows'[n].knew < passphrase PROVE Excused(n)'  OBVIOUS
  <2>1. CASE request[r].knew # passphrase
    <3>1. rows'[n].raced /\ n \in rows'[n].line  BY <1>3, <1>4, <2>1
    <3> QED BY <3>1 DEF Excused, Lineage
  <2>2. CASE request[r].knew = passphrase
    <3>1. rows[p].knew < passphrase  BY <1>3, <1>4
    <3>2. PICK t \in rows[p].line : t = changer \/ rows[t].raced
      BY <1>8, <2>2, <3>1 DEF Excused, Lineage
    <3>3. t \in DOMAIN rows /\ t \in rows'[n].line  BY <1>0, <1>2, <1>3, <1>4, <3>2 DEF TreeInv, Lines
    <3> QED BY <1>1, <1>4, <3>2, <3>3 DEF Excused, Lineage
  <2> QED BY <2>1, <2>2
<1>10. rows'[n].device = None  BY <1>3, <1>4
<1>11. request'[r].at # "rotate" /\ request'[r].knew = 0
       /\ \A q \in Requests : q # r => request'[q] = request[q]
  BY <1>5 DEF Remembers
<1>12. Remembered' /\ SessionsEnd'
  BY <1>1, <1>4, <1>7, <1>9, <1>10, <1>11, AddedKeepsAge
<1> QED BY <1>6, <1>7, <1>12 DEF SessionInv

LEMMA MarkStep == ASSUME SessionInv, NEW r \in Requests, MarkRotated(r) PROVE SessionInv'
<1> DEFINE p == request[r].row
           n == request[r].next
<1>0. TypeOK /\ TreeInv  BY DEF SessionInv
<1>1. rows' = Rotated(p, n) /\ p \in DOMAIN rows /\ n \in DOMAIN rows
      /\ UNCHANGED <<overlapped, passphrase, changer, device, late>>
  BY <1>0 DEF MarkRotated, TreeInv, Flight
<1>2. Remembers(r, "idle", 0, 0, None)  BY <1>0, EndsIs DEF MarkRotated
<1> HIDE DEF p, n
<1>3. /\ rows' \in Seq(Row) /\ Len(rows') = Len(rows) /\ DOMAIN rows' = DOMAIN rows
      /\ \A t \in DOMAIN rows :
            /\ rows'[t].line = rows[t].line /\ rows'[t].knew = rows[t].knew
            /\ rows'[t].raced = rows[t].raced /\ rows'[t].device = rows[t].device
            /\ t # p => (rows'[t].live <=> rows[t].live)
      /\ ~rows'[p].live
  BY <1>0, <1>1, RotatedIs
<1>4. TypeOK'  BY <1>0, <1>1, <1>2, <1>3 DEF TypeOK, Remembers
<1>5. TreeInv'  BY <1>0, MarkKeepsTree
<1>6. SameAge  BY <1>3 DEF SameAge
<1>7. \A s \in DOMAIN rows : s \in rows[s].line /\ rows[s].line \subseteq DOMAIN rows
  BY <1>0 DEF TreeInv, Lines
<1>8. \A s \in DOMAIN rows : Excused(s) => Excused(s)'
  BY <1>1, <1>3, <1>7 DEF Excused, Lineage
<1>9. OlderSessionsEnd'
  <2> SUFFICES ASSUME NEW s \in DOMAIN rows, rows'[s].live, rows'[s].knew < passphrase
               PROVE  Excused(s)'
    BY <1>1, <1>3 DEF OlderSessionsEnd, IsLive, Excused
  <2>1. rows[s].live /\ rows[s].knew < passphrase  BY <1>3
  <2>2. Excused(s)  BY <2>1 DEF SessionInv, SessionsEnd, OlderSessionsEnd, IsLive, Excused
  <2> QED BY <1>8, <2>2
<1>10. RevokedDeviceEndsBound'
  BY <1>1, <1>3 DEF RevokedDeviceEndsBound, SessionInv, SessionsEnd, IsLive
<1>11. Remembered'
  <2>1. passphrase \in Nat  BY <1>0, SessionsAssumption DEF TypeOK
  <2>2. ASSUME NEW q \in Requests
        PROVE  /\ request'[q].knew <= passphrase
               /\ request'[q].at = "rotate" /\ request'[q].knew = passphrase
                     /\ rows'[request'[q].row].knew < passphrase => Excused(request[q].row)'
    <3>1. CASE q = r  BY <1>2, <2>1, <3>1 DEF Remembers
    <3>2. CASE q # r
      <4>1. request[q].knew <= passphrase /\ request'[q] = request[q]
        BY <1>2, <3>2 DEF SessionInv, Remembered, Remembers
      <4>2. ASSUME request[q].at = "rotate", request[q].knew = passphrase,
                   rows'[request[q].row].knew < passphrase
            PROVE  Excused(request[q].row)'
        <5>0. PICK s : s = request[q].row  OBVIOUS
        <5>1. s \in DOMAIN rows  BY <1>0, <4>2, <5>0 DEF TreeInv, Flight
        <5>2. rows[s].knew < passphrase  BY <1>3, <4>2, <5>0, <5>1
        <5>3. Excused(s)  BY <4>2, <5>0, <5>2 DEF SessionInv, Remembered
        <5>4. Excused(s)'  BY <1>8, <5>1, <5>3
        <5> QED BY <4>1, <5>0, <5>4 DEF Excused, Lineage
      <4> QED BY <4>1, <4>2
    <3> QED BY <3>1, <3>2
  <2> QED BY <1>1, <2>2 DEF Remembered
<1> QED BY <1>4, <1>5, <1>9, <1>10, <1>11 DEF SessionInv, SessionsEnd

LEMMA ReadStep ==
  ASSUME SessionInv, NEW r \in Requests, NEW s \in Ids, ReadRefreshToken(r, s) PROVE SessionInv'
<1>0. TypeOK /\ TreeInv  BY DEF SessionInv
<1>1. /\ request[r] = Idle /\ s \in DOMAIN rows /\ rows[s].given
      /\ UNCHANGED <<rows, passphrase, changer, device, late>>
      /\ s \in 0..MaxSessions /\ 0 \in 0..MaxSessions
  BY SessionsAssumption DEF ReadRefreshToken, Ids
<1>2. CASE Becomes(r, "reuse", s, 0, None) /\ UNCHANGED overlapped
  <2>1. Kept  BY <1>0, <1>1, <1>2, ReadingKeeps
  <2>2. Remembers(r, "reuse", s, 0, None)
    <3>1. "reuse" \in Steps  BY DEF Steps
    <3> QED BY <1>0, <1>1, <1>2, <3>1, BecomesIs
  <2> QED BY <1>0, <1>1, <2>1, <2>2, RemembersKnew, KeptKeepsInv
<1>3. CASE /\ ~Spent(s) /\ Becomes(r, "rotate", s, 0, None)
           /\ overlapped' = IF \E q \in Requests : Rotating(q, s)
                            THEN overlapped \cup {s} ELSE overlapped
  <2>1. Remembers(r, "rotate", s, 0, None)
    <3>1. "rotate" \in Steps  BY DEF Steps
    <3> QED BY <1>0, <1>1, <1>3, <3>1, BecomesIs
  <2>2. TreeInv'  BY <1>0, <1>1, <1>3, <2>1, ReadKeepsTree
  <2>3. overlapped' \in SUBSET Ids
    BY <1>0, <1>3 DEF TypeOK
  <2>4. TypeOK'  BY <1>0, <1>1, <2>1, <2>3 DEF TypeOK, Remembers
  <2>5. SessionsEnd'
    BY <1>1 DEF SessionInv, SessionsEnd, OlderSessionsEnd, RevokedDeviceEndsBound, IsLive, Lineage
  <2>6. Remembered'
    <3>1. passphrase \in Nat  BY <1>0, SessionsAssumption DEF TypeOK
    <3>2. rows[s].live  BY <1>3 DEF Spent, IsLive
    <3>3. rows[s].knew < passphrase => Excused(s)
      BY <1>1, <3>2 DEF SessionInv, SessionsEnd, OlderSessionsEnd, IsLive, Excused
    <3>4. ASSUME NEW q \in Requests
          PROVE  /\ request'[q].knew <= passphrase
                 /\ request'[q].at = "rotate" /\ request'[q].knew = passphrase
                       /\ rows[request'[q].row].knew < passphrase => Excused(request[q].row)'
      <4>1. CASE q = r
        BY <1>1, <2>1, <3>1, <3>3, <4>1 DEF Remembers, Excused, Lineage
      <4>2. CASE q # r
        BY <1>1, <2>1, <4>2 DEF Remembers, SessionInv, Remembered, Excused, Lineage
      <4> QED BY <4>1, <4>2
    <3> QED BY <1>1, <3>4 DEF Remembered
  <2> QED BY <2>2, <2>4, <2>5, <2>6 DEF SessionInv
<1> QED BY <1>2, <1>3 DEF ReadRefreshToken

LEMMA SessionsInit == Init => SessionInv
<1> SUFFICES ASSUME Init PROVE SessionInv  OBVIOUS
<1>1. rows = <<>> /\ DOMAIN rows = {}  BY DEF Init
<1>2. \A r \in Requests : request[r] = Idle  BY DEF Init
<1>3. Idle \in Request  BY SessionsAssumption DEF Idle, Request, Steps
<1>4. TypeOK  BY <1>1, <1>3, SessionsAssumption DEF Init, TypeOK, Ids
<1>5. TreeInv
  <2>1. \A r \in Requests : request[r].at = "idle"  BY <1>2 DEF Idle
  <2>2. Flight  BY <2>1 DEF Flight, Open
  <2> QED BY <1>1, <2>2 DEF TreeInv, Lines, Successors, Kin, Chains, ReplacedEnded
<1>6. Remembered  BY <1>2 DEF Remembered, Idle, Init
<1>7. SessionsEnd  BY <1>1 DEF SessionsEnd, OlderSessionsEnd, RevokedDeviceEndsBound
<1> QED BY <1>4, <1>5, <1>6, <1>7 DEF SessionInv

LEMMA SessionsStep == SessionInv /\ [Next]_vars => SessionInv'
<1> SUFFICES ASSUME SessionInv, [Next]_vars PROVE SessionInv'  OBVIOUS
<1>1. ASSUME NEW r \in Requests, SignIn(r) PROVE SessionInv'  BY <1>1, SignInStep
<1>2. ASSUME NEW r \in Requests, CreateSession(r) PROVE SessionInv'  BY <1>2, CreateStep
<1>3. ASSUME NEW r \in Requests, InsertSuccessor(r) PROVE SessionInv'  BY <1>3, InsertStep
<1>4. ASSUME NEW r \in Requests, MarkRotated(r) PROVE SessionInv'  BY <1>4, MarkStep
<1>5. ASSUME NEW r \in Requests, RevokeChain(r) PROVE SessionInv'
  BY <1>5, RevokingStep DEF RevokeChain
<1>6. ASSUME NEW r \in Requests, SignOut(r) PROVE SessionInv'  BY <1>6, RevokingStep DEF SignOut
<1>7. ASSUME NEW r \in Requests, ChangePassphrase(r) PROVE SessionInv'  BY <1>7, ChangeStep
<1>8. ASSUME NEW r \in Requests, NEW s \in Ids, ReadRefreshToken(r, s) PROVE SessionInv'
  BY <1>8, ReadStep
<1>9. ASSUME NEW r \in Requests, NEW s \in Ids, Admit(r, s) PROVE SessionInv'  BY <1>9, AdmitStep
<1>10. ASSUME NEW r \in Requests, NEW s \in Ids, EndSession(r, s) PROVE SessionInv'
  BY <1>10, RevokingStep DEF EndSession
<1>11. ASSUME NEW r \in Requests, NEW d \in Devices, RegisterDevice(r, d) \/ RevokeDevice(r, d)
       PROVE SessionInv'
  BY <1>11, DeviceStep
<1>12. ASSUME NEW r \in Requests, BindSession(r) PROVE SessionInv'
  <2>1. request[r].device \in Devices
    BY <1>12 DEF BindSession, SessionInv, TreeInv, Flight
  <2> QED BY <1>12, <2>1, DeviceStep
<1>13. ASSUME NEW s \in Ids, Expire(s) PROVE SessionInv'  BY <1>13, ExpireStep
<1>14. CASE UNCHANGED vars
  <2>1. TypeOK'  BY <1>14 DEF vars, SessionInv, TypeOK
  <2>2. Quiet /\ SameAge /\ SameBinding
    BY <1>14 DEF vars, Quiet, SameShape, SameAge, SameBinding
  <2> QED BY <1>14, <2>1, <2>2, KeptKeepsInv DEF vars, Kept
<1> QED BY <1>1, <1>2, <1>3, <1>4, <1>5, <1>6, <1>7, <1>8, <1>9, <1>10, <1>11, <1>12, <1>13, <1>14
        DEF Next

LEMMA TreeHasOneHolder == SessionInv => OneHolder
<1> SUFFICES ASSUME SessionInv, NEW s \in DOMAIN rows, NEW t \in DOMAIN rows, Held(s), Held(t),
                    s # t, Lineage(s) \cap Lineage(t) # {}
             PROVE  Lineage(s) \cap Lineage(t) \cap overlapped # {}
  BY DEF OneHolder
<1>1. s \in rows[s].line /\ t \in rows[t].line  BY DEF SessionInv, TreeInv, Lines
<1>2. ASSUME NEW u \in DOMAIN rows, NEW v \in DOMAIN rows, u # v, Held(u), Held(v),
             u \in rows[v].line
      PROVE  u \in overlapped
  <2>1. SUFFICES ASSUME u \notin overlapped PROVE FALSE  OBVIOUS
  <2>2. rows[u].replacedBy # 0 \/ Marking(u, v)
    BY <1>2, <2>1 DEF SessionInv, TreeInv, Successors
  <2>3. ~Marking(u, v)  BY <1>2 DEF SessionInv, TreeInv, Flight, Marking, Held
  <2> QED BY <1>2, <2>2, <2>3 DEF SessionInv, TreeInv, ReplacedEnded, Held, IsLive
<1>3. CASE s \in rows[t].line  BY <1>1, <1>2, <1>3 DEF Lineage
<1>4. CASE t \in rows[s].line  BY <1>1, <1>2, <1>4 DEF Lineage
<1>5. CASE s \notin rows[t].line /\ t \notin rows[s].line
  BY <1>5 DEF SessionInv, TreeInv, Kin, Lineage
<1> QED BY <1>3, <1>4, <1>5

LEMMA ReuseReachesFamily ==
  ASSUME SessionInv, NEW r \in Requests, RevokeChain(r), NEW t \in DOMAIN rows,
         request[r].row \in Lineage(t), Lineage(t) \cap overlapped = {}, rows[t].given
  PROVE  ~rows'[t].live
<1> DEFINE s == request[r].row
<1>1. TypeOK /\ s \in DOMAIN rows /\ rows' = Revoke(Family(s))
  BY FoundRow DEF SessionInv, RevokeChain
<1> HIDE DEF s
<1>2. t \in Family(s)
  <2> SUFFICES ASSUME NEW set \in SUBSET DOMAIN rows, s \in set,
                      \A u \in set : rows[u].replacedBy \in set \cup {0}
               PROVE  t \in set
    BY DEF Family
  <2>1. set \cap rows[t].line # {}  BY DEF Lineage, s
  <2>2. ASSUME NEW u \in set \cap rows[t].line, u # t PROVE rows[u].replacedBy \in set
    <3>1. rows[u].replacedBy # 0 \/ Marking(u, t)
      BY <2>2 DEF Lineage, SessionInv, TreeInv, Successors
    <3>2. ~Marking(u, t)  BY DEF SessionInv, TreeInv, Flight, Marking
    <3> QED BY <2>2, <3>1, <3>2
  <2> QED BY <2>1, <2>2 DEF Lineage, SessionInv, TreeInv, Chains
<1> QED BY <1>1, <1>2, RevokeRows

\* Rows, requests and what is remembered of them have the types they are declared with.
THEOREM SessionsTypeCorrect == Spec => []TypeOK
<1>1. SessionInv => TypeOK  BY DEF SessionInv
<1> QED BY <1>1, SessionsInit, SessionsStep, PTL DEF Spec

\* Rotation keeps one holder: of the sessions that came out of one sign-in at most one is
\* live in somebody's hands, unless refreshes of a common predecessor overlapped, however
\* many requests refresh, sign out, change the passphrase or stop half-way (refresh()).
THEOREM OneHolderHolds == Spec => []OneHolder
  BY SessionsInit, SessionsStep, TreeHasOneHolder, PTL DEF Spec

\* Nothing that was opened before outlives a change of the passphrase or the end of its
\* device, but for what was being opened meanwhile (changePassword(), revoke()).
THEOREM SessionsEndHolds == Spec => []SessionsEnd
<1>1. SessionInv => SessionsEnd  BY DEF SessionInv
<1> QED BY <1>1, SessionsInit, SessionsStep, PTL DEF Spec

\* A spent token presented again ends every session that was rotated out of it, except
\* what an overlap of refreshes has put outside the chain (revokeChain()).
THEOREM ReuseEndsFamilyHolds == Spec => ReuseEndsFamily
<1>1. SessionInv => [\A r \in Requests :
          RevokeChain(r) =>
              \A t \in DOMAIN rows :
                  /\ request[r].row \in Lineage(t)
                  /\ Lineage(t) \cap overlapped = {}
                  /\ rows[t].given
                  => ~rows'[t].live]_vars
  BY ReuseReachesFamily
<1>2. []SessionInv => ReuseEndsFamily  BY <1>1, PTL DEF ReuseEndsFamily
<1> QED BY <1>2, SessionsInit, SessionsStep, PTL DEF Spec

-----------------------------------------------------------------------------
(***************************************************************************)
(* The portal in front of the sessions.                                    *)
(***************************************************************************)
\* What the portal does to the sessions is what requests do to them.
LEMMA PortalIsSessions == ASSUME PortalTypeOK, [PortalNext]_<<vars, portalVars>> PROVE [Next]_vars
<1>1. CASE UNCHANGED <<vars, portalVars>>  BY <1>1
<1>2. ASSUME NEW r \in Requests, OpenSession(r) PROVE [Next]_vars
  BY <1>2 DEF OpenSession, Next
<1>3. ASSUME NEW r \in Requests, AskRefresh(r) PROVE [Next]_vars
  <2>1. call[r].token \in Ids  BY DEF PortalTypeOK, Call
  <2> QED BY <1>3, <2>1 DEF AskRefresh, Next
<1>4. ASSUME NEW r \in Requests, ServerInserts(r) \/ ServerRotates(r) \/ ServerRefuses(r)
      PROVE  [Next]_vars
  BY <1>4 DEF ServerInserts, ServerRotates, ServerRefuses, Next
<1>5. ASSUME NEW r \in Requests, \/ \E kind \in Kinds : ReadCookie(r, kind)
                                 \/ UseToken(r) \/ NoAnswer(r) \/ WriteCookie(r)
                                 \/ WriteFromPage(r) \/ Send(r)
      PROVE  [Next]_vars
  BY <1>5 DEF ReadCookie, UseToken, NoAnswer, WriteCookie, WriteFromPage, Send
<1>6. ASSUME NEW s \in Ids, TokenEnds(s) PROVE [Next]_vars  BY <1>6 DEF TokenEnds
<1> QED BY <1>1, <1>2, <1>3, <1>4, <1>5, <1>6 DEF PortalNext

\* A session that a call can go on with.
Usable(s) == /\ s \in DOMAIN rows /\ rows[s].live /\ rows[s].given
             /\ ~rows[s].expired /\ rows[s].replacedBy = 0

\* Nobody calls before the officer has signed in, which is done once.
BeforeSignIn ==
    rows = <<>> =>
        /\ cookie = 1 /\ ~signedOut
        /\ \A r \in Requests : call[r].at = "idle" /\ request[r].at \in {"idle", "sign_in"}
        /\ \A q, r \in Requests : request[q].at = "sign_in" /\ request[r].at = "sign_in" => q = r

\* A call that has refreshed holds a token the cookie does not have yet.
Writes(r) == call[r].at = "write" /\ call[r].kind # "copy"

\* While nothing has happened to the cookie, one call at a time is under way: it holds the
\* tokens of the cookie, or newer ones that it is about to write there.
Calm ==
    causes = {} =>
        /\ ~signedOut
        /\ \A q, r \in Requests : InFlight(q) /\ InFlight(r) => q = r
        /\ rows # <<>> =>
              /\ \A r \in Requests :
                    /\ request[r].at # "idle" =>
                          /\ call[r].at = "refresh" /\ request[r].at \in {"rotate", "mark"}
                          /\ request[r].row = cookie
                    /\ request[r].at = "mark" =>
                          /\ request[r].next \in DOMAIN rows /\ rows[request[r].next].live
                          /\ ~rows[request[r].next].expired
                          /\ rows[request[r].next].replacedBy = 0
                    /\ call[r].at \in {"read", "refresh"} => call[r].kind # "copy"
                    /\ InFlight(r) /\ ~Writes(r) => call[r].token = cookie
                    /\ Writes(r) => Usable(call[r].token)
              /\ (\A r \in Requests : ~Writes(r)) => Usable(cookie)

PortalInv == SessionInv /\ PortalTypeOK /\ BeforeSignIn /\ Calm

LEMMA CallIs ==
  ASSUME PortalTypeOK, NEW r \in Requests
  PROVE  /\ call[r] \in Call /\ call[r].token \in Ids /\ call[r].kind \in Kinds
         /\ call[r].at \in {"idle", "read", "refresh", "write", "send"}
  BY DEF PortalTypeOK, Call

LEMMA CallsIs ==
  ASSUME PortalTypeOK, NEW r \in Requests,
         NEW at \in {"idle", "read", "refresh", "write", "send"}, Calls(r, at)
  PROVE  /\ call' \in [Requests -> Call]
         /\ \A q \in Requests : q # r => call'[q] = call[q]
         /\ call'[r].at = at /\ call'[r].token = call[r].token /\ call'[r].kind = call[r].kind
<1>1. [call[r] EXCEPT !.at = at] \in Call  BY CallIs DEF Call
<1>2. call' = [call EXCEPT ![r] = [call[r] EXCEPT !.at = at]]  BY DEF Calls
<1>3. call \in [Requests -> Call]  BY DEF PortalTypeOK
<1> QED BY <1>1, <1>2, <1>3 DEF Call

LEMMA OpenKeepsCalm ==
  ASSUME PortalInv, TypeOK', NEW r \in Requests, OpenSession(r)
  PROVE  PortalTypeOK' /\ BeforeSignIn' /\ Calm'
<1>0. TypeOK /\ PortalTypeOK /\ rows = <<>> /\ UNCHANGED portalVars
  BY DEF PortalInv, PortalTypeOK, OpenSession
<1>1. PortalTypeOK'  BY <1>0 DEF PortalTypeOK, portalVars
<1>2. /\ cookie = 1 /\ ~signedOut
      /\ \A q \in Requests : call[q].at = "idle" /\ request[q].at \in {"idle", "sign_in"}
      /\ \A p, q \in Requests : request[p].at = "sign_in" /\ request[q].at = "sign_in" => p = q
  BY <1>0 DEF PortalInv, BeforeSignIn
<1>3. CASE SignIn(r) /\ \A q \in Requests : request[q] = Idle
  <2>1. rows' = rows  BY <1>3 DEF SignIn
  <2>2. Remembers(r, "sign_in", 0, 0, None)
    <3>1. "sign_in" \in Steps /\ 0 \in 0..MaxSessions /\ None \in Devices \cup {None}
      BY SessionsAssumption DEF Steps
    <3> QED BY <1>0, <1>3, <3>1, BecomesIs DEF SignIn
  <2>3. BeforeSignIn'
    BY <1>0, <1>2, <1>3, <2>1, <2>2 DEF BeforeSignIn, Remembers, portalVars, Idle
  <2>4. Calm'  BY <1>0, <1>2, <2>1 DEF Calm, portalVars, InFlight
  <2> QED BY <1>1, <2>3, <2>4
<1>4. CASE CreateSession(r)
  <2>1. rows' = Append(rows, NewRow(r, 0)) /\ Len(rows) < MaxSessions /\ request[r].at = "sign_in"
    BY <1>4 DEF CreateSession
  <2>2. /\ NewRow(r, 0) \in Row /\ NewRow(r, 0).live = TRUE /\ NewRow(r, 0).expired = FALSE
        /\ NewRow(r, 0).given = TRUE /\ NewRow(r, 0).replacedBy = 0
    <3>1. 0 \in {0} \cup DOMAIN rows  OBVIOUS
    <3> QED BY <1>0, <2>1, <3>1, NewRowIs
  <2>3. Len(rows) + 1 = 1 /\ DOMAIN rows' = {1} /\ rows'[1] = NewRow(r, 0)
    BY <1>0, <2>1, <2>2, AppendIs
  <2>4. rows' # <<>> /\ Usable(cookie)'  BY <1>0, <1>2, <2>2, <2>3 DEF Usable, portalVars
  <2>5. \A q \in Requests : request'[q].at = "idle"
    <3>1. Remembers(r, "idle", 0, 0, None)  BY <1>0, <1>4, EndsIs DEF CreateSession
    <3> QED BY <1>2, <2>1, <3>1 DEF Remembers
  <2>6. \A q \in Requests : call'[q].at = "idle"  BY <1>0, <1>2 DEF portalVars
  <2>7. Calm'
    BY <1>0, <1>2, <2>4, <2>5, <2>6 DEF Calm, portalVars, InFlight, Writes
  <2> QED BY <1>1, <2>4, <2>7 DEF BeforeSignIn
<1> QED BY <1>3, <1>4 DEF OpenSession

LEMMA UnderWay ==
  ASSUME PortalInv, NEW r \in Requests, InFlight(r) \/ request[r].at \notin {"idle", "sign_in"}
  PROVE  rows # <<>>
  BY DEF PortalInv, BeforeSignIn, InFlight

\* What Calm says, conjunct by conjunct, of a state with an open session.
LEMMA CalmIs ==
  ASSUME PortalInv, causes = {}, rows # <<>>
  PROVE  /\ ~signedOut
         /\ \A q, r \in Requests : InFlight(q) /\ InFlight(r) => q = r
         /\ \A r \in Requests :
               /\ request[r].at # "idle" =>
                     /\ call[r].at = "refresh" /\ request[r].at \in {"rotate", "mark"}
                     /\ request[r].row = cookie
               /\ request[r].at = "mark" =>
                     /\ request[r].next \in DOMAIN rows /\ rows[request[r].next].live
                     /\ ~rows[request[r].next].expired
                     /\ rows[request[r].next].replacedBy = 0
               /\ call[r].at \in {"read", "refresh"} => call[r].kind # "copy"
               /\ InFlight(r) /\ ~Writes(r) => call[r].token = cookie
               /\ Writes(r) => Usable(call[r].token)
         /\ (\A r \in Requests : ~Writes(r)) => Usable(cookie)
  BY DEF PortalInv, Calm

\* Steps of the portal alone, which leave the sessions as they are.
LEMMA BrowserKeepsCalm ==
  ASSUME PortalInv, UNCHANGED vars, NEW r \in Requests, rows # <<>>,
         PortalTypeOK', causes \subseteq causes',
         \A q \in Requests : q # r => call'[q] = call[q],
         causes' = {} =>
             /\ signedOut' = FALSE
             /\ request[r].at = "idle"
             /\ \A q \in Requests : InFlight(q)' /\ q # r => ~InFlight(r)'
             /\ call'[r].at \in {"read", "refresh"} => call'[r].kind # "copy"
             /\ InFlight(r)' /\ ~Writes(r)' => call'[r].token = cookie'
             /\ ~Writes(r)'
             /\ (\A q \in Requests : q # r => ~InFlight(q)) \/ cookie' = cookie
             /\ (\A q \in Requests : ~Writes(q)') => Usable(cookie')
  PROVE  PortalTypeOK' /\ BeforeSignIn' /\ Calm'
<1>1. BeforeSignIn'  BY DEF BeforeSignIn, vars
<1>2. SUFFICES ASSUME causes' = {} PROVE Calm'  BY <1>1 DEF Calm
<1>3. causes = {}  BY <1>2
<1>4. /\ \A q \in Requests : q # r => /\ InFlight(q)' <=> InFlight(q)
                                      /\ Writes(q)' <=> Writes(q)
      /\ \A s : Usable(s)' <=> Usable(s)
  BY DEF vars, InFlight, Writes, Usable
<1>5. \A q \in Requests : request[q].at # "idle" => InFlight(q) /\ ~Writes(q) /\ q # r
  BY <1>2, <1>3, CalmIs DEF InFlight, Writes
<1>6. \A p, q \in Requests : InFlight(p)' /\ InFlight(q)' => p = q
  BY <1>2, <1>3, <1>4, CalmIs
<1>7. ASSUME NEW q \in Requests
      PROVE  /\ request[q].at # "idle" =>
                   /\ call'[q].at = "refresh" /\ request[q].at \in {"rotate", "mark"}
                   /\ request[q].row = cookie'
             /\ request[q].at = "mark" =>
                   /\ request[q].next \in DOMAIN rows /\ rows[request[q].next].live
                   /\ ~rows[request[q].next].expired
                   /\ rows[request[q].next].replacedBy = 0
             /\ call'[q].at \in {"read", "refresh"} => call'[q].kind # "copy"
             /\ InFlight(q)' /\ ~Writes(q)' => call'[q].token = cookie'
             /\ Writes(q)' => Usable(call'[q].token)
  <2>1. CASE q = r  BY <1>2, <2>1
  <2>2. CASE q # r
    <3>1. InFlight(q) => cookie' = cookie  BY <1>2, <2>2
    <3>2. /\ request[q].at # "idle" =>
                /\ call[q].at = "refresh" /\ request[q].at \in {"rotate", "mark"}
                /\ request[q].row = cookie
          /\ request[q].at = "mark" =>
                /\ request[q].next \in DOMAIN rows /\ rows[request[q].next].live
                /\ ~rows[request[q].next].expired
                /\ rows[request[q].next].replacedBy = 0
          /\ call[q].at \in {"read", "refresh"} => call[q].kind # "copy"
          /\ InFlight(q) /\ ~Writes(q) => call[q].token = cookie
          /\ Writes(q) => Usable(call[q].token)
      BY <1>3, CalmIs
    <3>3. call'[q] = call[q] /\ (InFlight(q)' <=> InFlight(q)) /\ (Writes(q)' <=> Writes(q))
      BY <1>4, <2>2
    <3> QED BY <1>5, <3>1, <3>2, <3>3
  <2> QED BY <2>1, <2>2
<1>8. UNCHANGED <<rows, request>>  BY DEF vars
<1> QED BY <1>2, <1>4, <1>6, <1>7, <1>8 DEF Calm, InFlight, Writes, Usable

LEMMA ReadCookieKeeps ==
  ASSUME PortalInv, NEW r \in Requests, NEW kind \in Kinds, ReadCookie(r, kind)
  PROVE  PortalTypeOK' /\ BeforeSignIn' /\ Calm'
<1> DEFINE new == [at |-> IF kind = "copy" THEN "write" ELSE "read", token |-> cookie, kind |-> kind]
<1>0. PortalTypeOK  BY DEF PortalInv
<1>1. /\ UNCHANGED <<vars, cookie, ending, signedOut>> /\ rows # <<>>
      /\ call[r].at = "idle" /\ ~signedOut /\ call' = [call EXCEPT ![r] = new]
      /\ causes' = causes \cup (IF \E q \in Requests : InFlight(q) THEN {"overlap"} ELSE {})
  BY DEF ReadCookie
<1>2. new \in Call /\ call \in [Requests -> Call]  BY <1>0 DEF Call, PortalTypeOK
<1>3. /\ call' \in [Requests -> Call] /\ call'[r].token = cookie /\ call'[r].kind = kind
      /\ call'[r].at = (IF kind = "copy" THEN "write" ELSE "read")
      /\ \A q \in Requests : q # r => call'[q] = call[q]
  BY <1>1, <1>2
<1>4. PortalTypeOK'
  <2>1. causes' \in SUBSET Causes  BY <1>0, <1>1, PortalAssumption DEF PortalTypeOK
  <2> QED BY <1>0, <1>1, <1>3, <2>1 DEF PortalTypeOK, TypeOK, vars
<1>5. ASSUME causes' = {}
      PROVE  /\ signedOut' = FALSE
             /\ request[r].at = "idle"
             /\ \A q \in Requests : InFlight(q)' /\ q # r => ~InFlight(r)'
             /\ call'[r].at \in {"read", "refresh"} => call'[r].kind # "copy"
             /\ InFlight(r)' /\ ~Writes(r)' => call'[r].token = cookie'
             /\ ~Writes(r)'
             /\ (\A q \in Requests : q # r => ~InFlight(q)) \/ cookie' = cookie
             /\ (\A q \in Requests : ~Writes(q)') => Usable(cookie')
  <2>1. causes = {} /\ \A q \in Requests : ~InFlight(q)  BY <1>1, <1>5
  <2>2. request[r].at = "idle" /\ ~signedOut /\ Usable(cookie)
    BY <1>1, <2>1, CalmIs DEF InFlight, Writes
  <2>3. ~Writes(r)'  BY <1>3 DEF Writes
  <2>4. \A q \in Requests : q # r => ~InFlight(q)'  BY <1>3, <2>1 DEF InFlight
  <2> QED BY <1>1, <1>3, <2>2, <2>3, <2>4 DEF vars, Usable, PortalTypeOK
<1> QED BY <1>1, <1>3, <1>4, <1>5, BrowserKeepsCalm

LEMMA BrowserSteps ==
  ASSUME PortalInv, NEW r \in Requests,
         UseToken(r) \/ NoAnswer(r) \/ WriteCookie(r) \/ WriteFromPage(r) \/ Send(r)
  PROVE  PortalTypeOK' /\ BeforeSignIn' /\ Calm'
<1>0. PortalTypeOK /\ TypeOK /\ signedOut \in BOOLEAN  BY DEF PortalInv, PortalTypeOK
<1>1. UNCHANGED <<vars, ending>> /\ InFlight(r)
  BY DEF UseToken, NoAnswer, WriteCookie, WriteFromPage, Send, InFlight
<1>2. rows # <<>>  BY <1>1, UnderWay
<1>3. PICK at \in {"idle", "read", "refresh", "write", "send"} :
          Calls(r, at) /\ at \in {"idle", "send"}
  BY DEF UseToken, NoAnswer, WriteCookie, WriteFromPage, Send
<1>4. /\ call' \in [Requests -> Call]
      /\ \A q \in Requests : q # r => call'[q] = call[q]
      /\ call'[r].at = at /\ call'[r].token = call[r].token /\ call'[r].kind = call[r].kind
  BY <1>0, <1>3, CallsIs
<1>5. PortalTypeOK'
  <2>1. causes' \in SUBSET Causes /\ cookie' \in Ids /\ signedOut' \in BOOLEAN
    BY <1>0, CallIs, PortalAssumption
       DEF PortalTypeOK, UseToken, NoAnswer, WriteCookie, WriteFromPage, Send
  <2> QED BY <1>0, <1>1, <1>4, <2>1 DEF PortalTypeOK, TypeOK, vars
<1>6. causes \subseteq causes'
  BY DEF UseToken, NoAnswer, WriteCookie, WriteFromPage, Send
<1>7. ASSUME causes' = {}
      PROVE  /\ signedOut' = FALSE
             /\ request[r].at = "idle"
             /\ \A q \in Requests : InFlight(q)' /\ q # r => ~InFlight(r)'
             /\ call'[r].at \in {"read", "refresh"} => call'[r].kind # "copy"
             /\ InFlight(r)' /\ ~Writes(r)' => call'[r].token = cookie'
             /\ ~Writes(r)'
             /\ (\A q \in Requests : q # r => ~InFlight(q)) \/ cookie' = cookie
             /\ (\A q \in Requests : ~Writes(q)') => Usable(cookie')
  <2>1. causes = {}  BY <1>6, <1>7
  <2>2. ~NoAnswer(r) /\ ~WriteFromPage(r)  BY <1>7 DEF NoAnswer, WriteFromPage
  <2>3. /\ ~signedOut
        /\ \A q \in Requests : q # r => ~InFlight(q)
        /\ request[r].at # "idle" => call[r].at = "refresh"
        /\ ~Writes(r) => call[r].token = cookie
        /\ Writes(r) => Usable(call[r].token)
        /\ (\A q \in Requests : ~Writes(q)) => Usable(cookie)
    BY <1>1, <1>2, <2>1, CalmIs
  <2>4. \A q \in Requests : q # r => ~Writes(q)  BY <2>3 DEF Writes, InFlight
  <2>5. ~Writes(r)'  BY <1>3, <1>4 DEF Writes
  <2>6. \A q \in Requests : q # r => ~InFlight(q)'  BY <1>4, <2>3 DEF InFlight
  <2>7. ~Writes(r) => Usable(cookie) /\ call[r].token = cookie  BY <2>3, <2>4
  <2>8. /\ signedOut' = FALSE /\ request[r].at = "idle" /\ call'[r].token = cookie'
        /\ Usable(cookie')
    <3>1. CASE UseToken(r)
      <4>1. ~Writes(r)  BY <3>1 DEF UseToken, Writes
      <4> QED BY <1>4, <2>3, <2>7, <3>1, <4>1 DEF UseToken
    <3>2. CASE WriteCookie(r)
      BY <1>4, <2>3, <2>7, <3>2 DEF WriteCookie, Writes
    <3>3. CASE Send(r)
      <4>1. ~Writes(r)  BY <3>3 DEF Send, Writes
      <4>2. Admissible(call[r].token)  BY <2>7, <4>1 DEF Usable, Admissible, IsLive
      <4> QED BY <1>4, <2>3, <2>7, <3>3, <4>1, <4>2 DEF Send
    <3> QED BY <2>2, <3>1, <3>2, <3>3
  <2> QED BY <1>3, <1>4, <2>3, <2>5, <2>6, <2>8
<1> QED BY <1>1, <1>2, <1>4, <1>5, <1>6, <1>7, BrowserKeepsCalm

LEMMA TokenEndsKeeps ==
  ASSUME PortalInv, NEW s \in Ids, TokenEnds(s)
  PROVE  PortalTypeOK' /\ BeforeSignIn' /\ Calm'
<1>1. UNCHANGED <<vars, cookie, call, signedOut, causes>>  BY DEF TokenEnds
<1>2. PortalTypeOK'
  <2>1. ending' \in SUBSET Ids  BY DEF TokenEnds, PortalInv, PortalTypeOK
  <2> QED BY <1>1, <2>1 DEF PortalInv, PortalTypeOK, TypeOK, vars
<1>3. BeforeSignIn'  BY <1>1 DEF PortalInv, BeforeSignIn, vars
<1>4. Calm'  BY <1>1 DEF PortalInv, Calm, vars, InFlight, Writes, Usable
<1> QED BY <1>2, <1>3, <1>4

\* A step of the server, while the other calls rest, needs to be looked at for one call.
LEMMA ServerKeepsCalm ==
  ASSUME NEW r \in Requests, signedOut' = FALSE,
         \A q \in Requests : q # r => ~InFlight(q)' /\ ~Writes(q)' /\ request'[q].at = "idle",
         request'[r].at # "idle" =>
             /\ call'[r].at = "refresh" /\ request'[r].at \in {"rotate", "mark"}
             /\ request'[r].row = cookie',
         request'[r].at = "mark" =>
             /\ request'[r].next \in DOMAIN rows' /\ rows'[request'[r].next].live
             /\ ~rows'[request'[r].next].expired
             /\ rows'[request'[r].next].replacedBy = 0,
         call'[r].at \in {"read", "refresh"} => call'[r].kind # "copy",
         ~Writes(r)' => call'[r].token = cookie',
         Writes(r)' => Usable(call[r].token)',
         Writes(r)' \/ Usable(cookie)'
  PROVE  Calm'
<1>1. \A p, q \in Requests : InFlight(p)' /\ InFlight(q)' => p = q  OBVIOUS
<1>2. ASSUME NEW q \in Requests
      PROVE  /\ request'[q].at # "idle" =>
                   /\ call'[q].at = "refresh" /\ request'[q].at \in {"rotate", "mark"}
                   /\ request'[q].row = cookie'
             /\ request'[q].at = "mark" =>
                   /\ request'[q].next \in DOMAIN rows' /\ rows'[request'[q].next].live
                   /\ ~rows'[request'[q].next].expired
                   /\ rows'[request'[q].next].replacedBy = 0
             /\ call'[q].at \in {"read", "refresh"} => call'[q].kind # "copy"
             /\ InFlight(q)' /\ ~Writes(q)' => call'[q].token = cookie'
             /\ Writes(q)' => Usable(call[q].token)'
  <2>1. CASE q = r  BY <2>1
  <2>2. CASE q # r
    <3>1. call'[q].at = "idle" /\ request'[q].at = "idle"  BY <2>2 DEF InFlight
    <3>2. ~InFlight(q)' /\ ~Writes(q)'  BY <2>2
    <3> QED BY <3>1, <3>2
  <2> QED BY <2>1, <2>2
<1>3. (\A q \in Requests : ~Writes(q)') => Usable(cookie)'  OBVIOUS
<1> QED BY <1>1, <1>2, <1>3 DEF Calm

LEMMA AskKeeps ==
  ASSUME PortalInv, TypeOK', NEW r \in Requests, AskRefresh(r)
  PROVE  PortalTypeOK' /\ BeforeSignIn' /\ Calm'
<1>0. PortalTypeOK /\ TypeOK  BY DEF PortalInv, PortalTypeOK
<1>1. /\ UNCHANGED <<cookie, ending, signedOut, causes, rows>> /\ InFlight(r)
      /\ ReadRefreshToken(r, call[r].token) /\ Calls(r, "refresh")
      /\ call[r].at = "read"
  BY DEF AskRefresh, InFlight, ReadRefreshToken
<1>2. rows # <<>>  BY <1>1, UnderWay
<1>3. /\ call' \in [Requests -> Call]
      /\ \A q \in Requests : q # r => call'[q] = call[q]
      /\ call'[r].at = "refresh" /\ call'[r].token = call[r].token /\ call'[r].kind = call[r].kind
  BY <1>0, <1>1, CallsIs
<1>4. PortalTypeOK'  BY <1>0, <1>1, <1>3 DEF PortalTypeOK
<1>5. BeforeSignIn'  BY <1>1, <1>2 DEF BeforeSignIn
<1>6. SUFFICES ASSUME causes = {} PROVE Calm'  BY <1>1, <1>4, <1>5 DEF Calm
<1>7. /\ ~signedOut
      /\ \A q \in Requests : q # r => ~InFlight(q) /\ ~Writes(q) /\ request[q].at = "idle"
      /\ call[r].kind # "copy" /\ ~Writes(r) /\ call[r].token = cookie /\ Usable(cookie)
  BY <1>1, <1>2, <1>6, CalmIs DEF InFlight, Writes
<1>8. Remembers(r, "rotate", cookie, 0, None)
  <2>1. ~Spent(cookie)  BY <1>7 DEF Usable, Spent, IsLive
  <2>2. Becomes(r, "rotate", cookie, 0, None)  BY <1>1, <1>7, <2>1 DEF ReadRefreshToken
  <2>3. "rotate" \in Steps /\ cookie \in 0..MaxSessions /\ 0 \in 0..MaxSessions
    BY <1>0, SessionsAssumption DEF Steps, PortalTypeOK, Ids
  <2> QED BY <1>0, <2>2, <2>3, BecomesIs
<1>9. \A q \in Requests : q # r => ~InFlight(q)' /\ ~Writes(q)' /\ request'[q].at = "idle"
  BY <1>3, <1>7, <1>8 DEF InFlight, Writes, Remembers
<1>10. request'[r].at = "rotate" /\ request'[r].row = cookie  BY <1>8 DEF Remembers
<1>11. ~Writes(r)' /\ Usable(cookie)'  BY <1>1, <1>3, <1>7 DEF Writes, Usable
<1>12. /\ signedOut' = FALSE /\ cookie' = cookie /\ call'[r].kind # "copy"
       /\ call'[r].at = "refresh" /\ call'[r].token = cookie
  BY <1>0, <1>1, <1>3, <1>7 DEF PortalTypeOK
<1> QED BY <1>9, <1>10, <1>11, <1>12, ServerKeepsCalm

LEMMA InsertsKeeps ==
  ASSUME PortalInv, TypeOK', NEW r \in Requests, ServerInserts(r)
  PROVE  PortalTypeOK' /\ BeforeSignIn' /\ Calm'
<1>0. PortalTypeOK /\ TypeOK /\ TreeInv  BY DEF PortalInv, PortalTypeOK, SessionInv
<1>1. UNCHANGED portalVars /\ InsertSuccessor(r) /\ request[r].at = "rotate"
  BY DEF ServerInserts, InsertSuccessor
<1>2. rows # <<>>  BY <1>1, UnderWay
<1>n. PICK n, p : n = Len(rows) + 1 /\ p = request[r].row  OBVIOUS
<1>3. p \in DOMAIN rows /\ p # 0 /\ p \in 0..MaxSessions
  BY <1>n, <1>0, <1>1, FoundRow, TypedRows
<1>4. /\ n \in Ids /\ DOMAIN rows' = DOMAIN rows \cup {n} /\ n \notin DOMAIN rows
      /\ rows'[n].live = TRUE /\ rows'[n].expired = FALSE /\ rows'[n].replacedBy = 0
      /\ \A s \in DOMAIN rows : rows'[s] = rows[s]
  <2>1. Len(rows) < MaxSessions /\ rows' = Append(rows, NewRow(r, p))
    BY <1>n, <1>1 DEF InsertSuccessor
  <2>2. p \in {0} \cup DOMAIN rows  BY <1>3
  <2>3. /\ NewRow(r, p) \in Row /\ NewRow(r, p).live = TRUE /\ NewRow(r, p).expired = FALSE
        /\ NewRow(r, p).replacedBy = 0
    BY <1>0, <2>1, <2>2, NewRowIs
  <2> QED BY <1>n, <1>0, <2>1, <2>3, AppendIs
<1>5. Remembers(r, "mark", p, n, None)
  <2>1. n \in 0..MaxSessions /\ "mark" \in Steps  BY <1>4 DEF Ids, Steps
  <2> QED BY <1>n, <1>0, <1>1, <1>3, <2>1, BecomesIs DEF InsertSuccessor
<1>6. PortalTypeOK'  BY <1>0, <1>1 DEF PortalTypeOK, portalVars
<1>7. BeforeSignIn'
  <2>1. rows' # <<>>  BY <1>4
  <2> QED BY <2>1 DEF BeforeSignIn
<1>8. SUFFICES ASSUME causes = {} PROVE Calm'  BY <1>1, <1>6, <1>7 DEF Calm, portalVars
<1>9. /\ ~signedOut
      /\ \A q, t \in Requests : InFlight(q) /\ InFlight(t) => q = t
      /\ call[r].at = "refresh" /\ p = cookie /\ call[r].kind # "copy" /\ call[r].token = cookie
      /\ \A q \in Requests : q # r => ~InFlight(q) /\ ~Writes(q) /\ request[q].at = "idle"
      /\ Usable(cookie)
  BY <1>n, <1>1, <1>2, <1>8, CalmIs DEF InFlight, Writes
<1>10. /\ ~Writes(r)' /\ Usable(cookie)'
       /\ \A q \in Requests : q # r => ~InFlight(q)' /\ ~Writes(q)' /\ request'[q].at = "idle"
  BY <1>1, <1>4, <1>5, <1>9 DEF portalVars, Writes, InFlight, Usable, Remembers
<1>11. request'[r].at = "mark" /\ request'[r].row = p /\ request'[r].next = n
  BY <1>5 DEF Remembers
<1>12. /\ signedOut' = FALSE /\ cookie' = cookie /\ call'[r].kind # "copy"
       /\ call'[r].at = "refresh" /\ call'[r].token = cookie /\ n \in DOMAIN rows'
       /\ rows'[n].live /\ ~rows'[n].expired /\ rows'[n].replacedBy = 0
  BY <1>0, <1>1, <1>4, <1>9 DEF PortalTypeOK, portalVars
<1> QED BY <1>9, <1>10, <1>11, <1>12, ServerKeepsCalm

LEMMA RotatesKeeps ==
  ASSUME PortalInv, TypeOK', NEW r \in Requests, ServerRotates(r)
  PROVE  PortalTypeOK' /\ BeforeSignIn' /\ Calm'
<1>0. PortalTypeOK /\ TypeOK /\ TreeInv  BY DEF PortalInv, PortalTypeOK, SessionInv
<1>1. /\ UNCHANGED <<cookie, ending, signedOut, causes>> /\ MarkRotated(r) /\ request[r].at = "mark"
      /\ call' = [call EXCEPT ![r] = [call[r] EXCEPT !.at = "write", !.token = request[r].next]]
  BY DEF ServerRotates, MarkRotated, Refreshed
<1>2. rows # <<>>  BY <1>1, UnderWay
<1>n. PICK n, p : n = request[r].next /\ p = request[r].row  OBVIOUS
<1>3. p \in DOMAIN rows /\ n \in DOMAIN rows /\ ~rows[n].given /\ rows[p].given /\ n \in Ids
  BY <1>n, <1>0, <1>1, TypedRows DEF TreeInv, Flight, Open
<1>4. /\ DOMAIN rows' = DOMAIN rows
      /\ \A t \in DOMAIN rows :
            /\ rows'[t].expired = rows[t].expired
            /\ t # p => rows'[t].replacedBy = rows[t].replacedBy /\ (rows'[t].live <=> rows[t].live)
      /\ rows'[n].given
  <2>1. rows' = Rotated(p, n)  BY <1>n, <1>1 DEF MarkRotated
  <2> QED BY <1>0, <1>3, <2>1, RotatedIs
<1>5. Remembers(r, "idle", 0, 0, None)  BY <1>0, <1>1, EndsIs DEF MarkRotated
<1>6. /\ call' \in [Requests -> Call]
      /\ \A q \in Requests : q # r => call'[q] = call[q]
      /\ call'[r].at = "write" /\ call'[r].token = n /\ call'[r].kind = call[r].kind
  <2>1. [call[r] EXCEPT !.at = "write", !.token = n] \in Call  BY <1>0, <1>3, CallIs DEF Call
  <2>2. call \in [Requests -> Call]  BY <1>0 DEF PortalTypeOK
  <2> QED BY <1>n, <1>1, <2>1, <2>2 DEF Call
<1>7. PortalTypeOK'  BY <1>0, <1>1, <1>6 DEF PortalTypeOK
<1>8. BeforeSignIn'
  <2>1. rows' # <<>>  BY <1>3, <1>4
  <2> QED BY <2>1 DEF BeforeSignIn
<1>9. SUFFICES ASSUME causes = {} PROVE Calm'  BY <1>1, <1>7, <1>8 DEF Calm
<1>10. /\ ~signedOut
       /\ call[r].at = "refresh" /\ call[r].kind # "copy"
       /\ \A q \in Requests : q # r => ~InFlight(q) /\ ~Writes(q) /\ request[q].at = "idle"
       /\ rows[n].live /\ ~rows[n].expired /\ rows[n].replacedBy = 0
  BY <1>n, <1>1, <1>2, <1>9, CalmIs DEF InFlight, Writes
<1>11. Usable(n)'  BY <1>3, <1>4, <1>10 DEF Usable
<1>12. Usable(call[r].token)'  BY <1>6, <1>11 DEF Usable
<1>13. \A q \in Requests : q # r => ~InFlight(q)' /\ ~Writes(q)' /\ request'[q].at = "idle"
  BY <1>5, <1>6, <1>10 DEF InFlight, Writes, Remembers
<1>14. request'[r].at = "idle" /\ Writes(r)'  BY <1>5, <1>6, <1>10 DEF Remembers, Writes
<1>15. signedOut' = FALSE /\ call'[r].at = "write"  BY <1>0, <1>1, <1>6, <1>10 DEF PortalTypeOK
<1> QED BY <1>12, <1>13, <1>14, <1>15, ServerKeepsCalm

LEMMA RefusesKeeps ==
  ASSUME PortalInv, TypeOK', NEW r \in Requests, ServerRefuses(r)
  PROVE  PortalTypeOK' /\ BeforeSignIn' /\ Calm'
<1>0. PortalTypeOK /\ TypeOK  BY DEF PortalInv, PortalTypeOK
<1>1. UNCHANGED <<cookie, ending, causes>> /\ RevokeChain(r) /\ Calls(r, "idle")
      /\ request[r].at = "reuse" /\ signedOut' = TRUE
  BY DEF ServerRefuses, RevokeChain
<1>2. rows # <<>>  BY <1>1, UnderWay
<1>3. causes # {}  BY <1>1, <1>2, CalmIs
<1>4. call' \in [Requests -> Call]  BY <1>0, <1>1, CallsIs
<1>5. PortalTypeOK'  BY <1>0, <1>1, <1>4 DEF PortalTypeOK
<1>6. BeforeSignIn'
  <2>1. DOMAIN rows' = DOMAIN rows  BY <1>0, <1>1, RevokeRows DEF RevokeChain, SameAge
  <2> QED BY <1>0, <1>2, <2>1, TypedRows DEF BeforeSignIn
<1> QED BY <1>1, <1>3, <1>5, <1>6 DEF Calm

LEMMA PortalStep == PortalInv /\ [PortalNext]_<<vars, portalVars>> => PortalInv'
<1> SUFFICES ASSUME PortalInv, [PortalNext]_<<vars, portalVars>> PROVE PortalInv'  OBVIOUS
<1>1. SessionInv' /\ TypeOK'
  <2>1. [Next]_vars  BY PortalIsSessions DEF PortalInv
  <2>2. SessionInv'  BY <2>1, SessionsStep DEF PortalInv
  <2> QED BY <2>2 DEF SessionInv
<1>2. PortalTypeOK' /\ BeforeSignIn' /\ Calm'
  <2>1. CASE UNCHANGED <<vars, portalVars>>
    BY <2>1 DEF vars, portalVars, PortalInv, PortalTypeOK, TypeOK, BeforeSignIn, Calm, InFlight,
                Writes, Usable
  <2>2. ASSUME NEW r \in Requests, OpenSession(r) PROVE PortalTypeOK' /\ BeforeSignIn' /\ Calm'
    BY <1>1, <2>2, OpenKeepsCalm
  <2>3. ASSUME NEW r \in Requests, NEW kind \in Kinds, ReadCookie(r, kind)
        PROVE  PortalTypeOK' /\ BeforeSignIn' /\ Calm'
    BY <2>3, ReadCookieKeeps
  <2>4. ASSUME NEW r \in Requests,
               UseToken(r) \/ NoAnswer(r) \/ WriteCookie(r) \/ WriteFromPage(r) \/ Send(r)
        PROVE  PortalTypeOK' /\ BeforeSignIn' /\ Calm'
    BY <2>4, BrowserSteps
  <2>5. ASSUME NEW r \in Requests, AskRefresh(r) PROVE PortalTypeOK' /\ BeforeSignIn' /\ Calm'
    BY <1>1, <2>5, AskKeeps
  <2>6. ASSUME NEW r \in Requests, ServerInserts(r) PROVE PortalTypeOK' /\ BeforeSignIn' /\ Calm'
    BY <1>1, <2>6, InsertsKeeps
  <2>7. ASSUME NEW r \in Requests, ServerRotates(r) PROVE PortalTypeOK' /\ BeforeSignIn' /\ Calm'
    BY <1>1, <2>7, RotatesKeeps
  <2>8. ASSUME NEW r \in Requests, ServerRefuses(r) PROVE PortalTypeOK' /\ BeforeSignIn' /\ Calm'
    BY <1>1, <2>8, RefusesKeeps
  <2>9. ASSUME NEW s \in Ids, TokenEnds(s) PROVE PortalTypeOK' /\ BeforeSignIn' /\ Calm'
    BY <2>9, TokenEndsKeeps
  <2> QED BY <2>1, <2>2, <2>3, <2>4, <2>5, <2>6, <2>7, <2>8, <2>9 DEF PortalNext
<1> QED BY <1>1, <1>2 DEF PortalInv

LEMMA PortalStarts == PortalInit => PortalInv
<1> SUFFICES ASSUME PortalInit PROVE PortalInv  OBVIOUS
<1>1. SessionInv /\ TypeOK  BY SessionsInit DEF PortalInit, SessionInv
<1>2. 1 \in Ids  BY PortalAssumption, SessionsAssumption DEF Ids
<1>3. [at |-> "idle", token |-> 1, kind |-> "page"] \in Call  BY <1>2 DEF Call, Kinds
<1>4. PortalTypeOK  BY <1>1, <1>2, <1>3 DEF PortalInit, PortalTypeOK
<1>5. rows = <<>> /\ \A r \in Requests : call[r].at = "idle" /\ request[r].at = "idle"
  BY DEF PortalInit, Init, Idle
<1>6. BeforeSignIn /\ Calm  BY <1>5 DEF PortalInit, BeforeSignIn, Calm, InFlight
<1> QED BY <1>1, <1>4, <1>6 DEF PortalInv

\* A portal in front of the sessions does nothing to them that requests could not do: what
\* holds of the sessions of an account holds behind a portal (createApiClient()).
THEOREM PortalImplementsSessions == PortalSpec => Spec
<1>1. PortalInv => PortalTypeOK  BY DEF PortalInv
<1>2. PortalInit => Init  BY DEF PortalInit
<1> QED BY <1>1, <1>2, PortalStarts, PortalStep, PortalIsSessions, PTL DEF PortalSpec, Spec

\* A browser is signed out for a cause only: two of its calls overlapped, a page refreshed
\* and could not keep the token, or a refresh was not answered (api.ts, session.ts).
THEOREM SignedOutIsExplainedHolds == PortalSpec => []SignedOutIsExplained
<1>1. PortalInv => SignedOutIsExplained
  BY DEF PortalInv, Calm, SignedOutIsExplained, SignedOutHasACause
<1> QED BY <1>1, PortalStarts, PortalStep, PTL DEF PortalSpec

(***************************************************************************)
(* The passphrase                                                          *)
(***************************************************************************)
\* Attempts whose failure is not counted yet.
Pending == {a \in Requests : attempt[a].at \in {"spend", "count"}}

\* What makes the lock come in time.  While no lock was set the guesses are the failures
\* counted and those under way; after a lock has ended the next failure sets one again.
LockInTime ==
    /\ locked = "never" =>
          failures < MaxFailures /\ guesses <= failures + Cardinality(Pending)
    /\ locked = "over" => failures >= MaxFailures /\ guesses <= Cardinality(Pending)
    /\ locked = "running" =>
          /\ failures >= MaxFailures
          /\ guesses <= MaxFailures - 1 + Cardinality(Requests)

PassphraseInv == P!TypeOK /\ P!OnlyFailuresCloseAddress /\ LockInTime

LEMMA PendingCounts ==
  /\ IsFiniteSet(Pending) /\ Cardinality(Pending) \in Nat
  /\ Cardinality(Requests) \in Nat /\ Cardinality(Pending) <= Cardinality(Requests)
<1>1. IsFiniteSet(Requests)  BY AccountsAssumption
<1>2. Pending \in SUBSET Requests  BY DEF Pending
<1> QED BY <1>1, <1>2, FS_Subset, FS_CardinalityType

LEMMA PassphraseNumbers ==
  ASSUME P!TypeOK
  PROVE  /\ failures \in Nat /\ byAddress \in Nat /\ wrong \in Nat /\ guesses \in Nat
         /\ MaxFailures \in Nat /\ MaxFailures > 0
         /\ \A a \in Requests : attempt[a] \in P!Attempt
  BY AccountsAssumption DEF P!TypeOK

LEMMA AttemptBecomes ==
  ASSUME P!TypeOK, NEW a \in Requests, NEW at \in P!Steps, P!Becomes(a, at)
  PROVE  /\ attempt' \in [Requests -> P!Attempt]
         /\ attempt'[a].at = at
         /\ \A b \in Requests : b # a => attempt'[b] = attempt[b]
<1>1. [attempt[a] EXCEPT !.at = at] \in P!Attempt  BY DEF P!TypeOK, P!Attempt
<1>2. attempt \in [Requests -> P!Attempt]  BY DEF P!TypeOK
<1> QED BY <1>1, <1>2 DEF P!Becomes, P!Attempt

\* An attempt enters or leaves the failures under way, or does neither.
LEMMA PendingMoves ==
  ASSUME NEW a \in Requests, \A b \in Requests : b # a => attempt'[b] = attempt[b]
  PROVE  /\ attempt'[a].at \in {"spend", "count"} /\ a \in Pending => Pending' = Pending
         /\ attempt'[a].at \notin {"spend", "count"} /\ a \notin Pending => Pending' = Pending
         /\ attempt'[a].at \in {"spend", "count"} /\ a \notin Pending =>
               Cardinality(Pending') = Cardinality(Pending) + 1
         /\ attempt'[a].at \notin {"spend", "count"} /\ a \in Pending =>
               Cardinality(Pending') = Cardinality(Pending) - 1
<1>1. ASSUME attempt'[a].at \in {"spend", "count"}, a \in Pending PROVE Pending' = Pending
  BY <1>1 DEF Pending
<1>2. ASSUME attempt'[a].at \notin {"spend", "count"}, a \notin Pending PROVE Pending' = Pending
  BY <1>2 DEF Pending
<1>3. ASSUME attempt'[a].at \in {"spend", "count"}, a \notin Pending
      PROVE  Cardinality(Pending') = Cardinality(Pending) + 1
  <2>1. Pending' = Pending \cup {a}  BY <1>3 DEF Pending
  <2> QED BY <1>3, <2>1, PendingCounts, FS_AddElement
<1>4. ASSUME attempt'[a].at \notin {"spend", "count"}, a \in Pending
      PROVE  Cardinality(Pending') = Cardinality(Pending) - 1
  <2>1. Pending' = Pending \ {a}  BY <1>4 DEF Pending
  <2> QED BY <1>4, <2>1, PendingCounts, FS_RemoveElement
<1> QED BY <1>1, <1>2, <1>3, <1>4

\* Steps that leave the count, the lock and the failures under way as they are.
LEMMA LockStays ==
  ASSUME LockInTime, UNCHANGED <<failures, locked, guesses>>, Pending' = Pending
  PROVE  LockInTime'
  BY DEF LockInTime

LEMMA PassphraseBudgets ==
  ASSUME PassphraseInv, NEW a \in Requests,
         \/ \E i \in Identifiers : P!SpendIdentifier(a, i)
         \/ P!ReadAddress(a)
         \/ P!ResetIdentifier(a)
  PROVE  PassphraseInv'
<1>1. /\ P!TypeOK /\ byAddress <= wrong /\ LockInTime
      /\ attempt \in [Requests -> P!Attempt] /\ byIdentifier \in [Identifiers -> 0..MaxCounted]
  BY DEF PassphraseInv, P!TypeOK, P!OnlyFailuresCloseAddress
<1>2. UNCHANGED <<citizen, status, failures, locked, store, wrong, guesses>>
  BY DEF P!SpendIdentifier, P!ReadAddress, P!ResetIdentifier
<1>3. /\ attempt' \in [Requests -> P!Attempt]
      /\ byIdentifier' \in [Identifiers -> 0..MaxCounted]
      /\ byAddress' = byAddress
      /\ Pending' = Pending
  <2>1. ASSUME NEW i \in Identifiers, P!SpendIdentifier(a, i)
        PROVE  /\ attempt' \in [Requests -> P!Attempt]
               /\ byIdentifier' \in [Identifiers -> 0..MaxCounted]
               /\ byAddress' = byAddress
               /\ Pending' = Pending
    <3>1. byIdentifier' \in [Identifiers -> 0..MaxCounted] /\ byAddress' = byAddress
      <4>1. byIdentifier[i] + 1 \in 0..MaxCounted
        BY <1>1, <2>1, AccountsAssumption DEF P!SpendIdentifier
      <4> QED BY <1>1, <2>1, <4>1 DEF P!SpendIdentifier
    <3>2. CASE UNCHANGED attempt  BY <1>1, <3>1, <3>2 DEF Pending
    <3>3. CASE attempt' = [attempt EXCEPT ![a] = [at |-> "identified", identifier |-> i]]
      <4>1. [at |-> "identified", identifier |-> i] \in P!Attempt  BY DEF P!Attempt, P!Steps
      <4>2. /\ attempt' \in [Requests -> P!Attempt] /\ attempt'[a].at = "identified"
            /\ \A b \in Requests : b # a => attempt'[b] = attempt[b]
        BY <1>1, <3>3, <4>1
      <4>3. a \notin Pending  BY <2>1 DEF P!SpendIdentifier, P!Idle, Pending
      <4> QED BY <3>1, <4>2, <4>3, PendingMoves
    <3> QED BY <2>1, <3>2, <3>3 DEF P!SpendIdentifier
  <2>2. ASSUME P!ReadAddress(a)
        PROVE  /\ attempt' \in [Requests -> P!Attempt]
               /\ byIdentifier' \in [Identifiers -> 0..MaxCounted]
               /\ byAddress' = byAddress
               /\ Pending' = Pending
    <3>1. byIdentifier' = byIdentifier /\ byAddress' = byAddress /\ a \notin Pending
      BY <2>2 DEF P!ReadAddress, P!AddressAfter, Pending
    <3>2. PICK at \in {"admitted", "idle"} : P!Becomes(a, at)  BY <2>2 DEF P!ReadAddress
    <3>3. at \in P!Steps  BY DEF P!Steps
    <3> QED BY <1>1, <3>1, <3>2, <3>3, AttemptBecomes, PendingMoves
  <2>3. ASSUME P!ResetIdentifier(a)
        PROVE  /\ attempt' \in [Requests -> P!Attempt]
               /\ byIdentifier' \in [Identifiers -> 0..MaxCounted]
               /\ byAddress' = byAddress
               /\ Pending' = Pending
    <3>1. P!Becomes(a, "idle") /\ byAddress' = byAddress /\ a \notin Pending
      BY <2>3 DEF P!ResetIdentifier, Pending
    <3>2. byIdentifier' \in [Identifiers -> 0..MaxCounted]
      <4>1. 0 \in 0..MaxCounted  BY AccountsAssumption
      <4> QED BY <1>1, <2>3, <4>1 DEF P!ResetIdentifier
    <3>3. "idle" \in P!Steps  BY DEF P!Steps
    <3> QED BY <1>1, <3>1, <3>2, <3>3, AttemptBecomes, PendingMoves
  <2> QED BY <2>1, <2>2, <2>3
<1>4. P!TypeOK'  BY <1>1, <1>2, <1>3 DEF P!TypeOK
<1>5. LockInTime'  BY <1>1, <1>2, <1>3, LockStays
<1> QED BY <1>1, <1>2, <1>3, <1>4, <1>5 DEF PassphraseInv, P!OnlyFailuresCloseAddress

LEMMA CompareKeeps ==
  ASSUME PassphraseInv, NEW a \in Requests, NEW right \in BOOLEAN, P!Compare(a, right)
  PROVE  PassphraseInv'
<1>1. /\ P!TypeOK /\ byAddress <= wrong /\ LockInTime /\ a \notin Pending
      /\ UNCHANGED <<citizen, status, failures, locked, byIdentifier, byAddress, store, wrong>>
  BY DEF PassphraseInv, P!OnlyFailuresCloseAddress, P!Compare, Pending
<1>2. PICK at : at = P!Outcome(right)  OBVIOUS
<1>3. /\ at \in {"spend", "idle", "clear"}
      /\ ~right => at = "spend"
  BY <1>2 DEF P!Outcome
<1>4. /\ attempt' \in [Requests -> P!Attempt] /\ attempt'[a].at = at
      /\ \A b \in Requests : b # a => attempt'[b] = attempt[b]
  <2>1. at \in P!Steps /\ P!Becomes(a, at)  BY <1>2, <1>3 DEF P!Steps, P!Compare
  <2> QED BY <1>1, <2>1, AttemptBecomes
<1>5. /\ guesses' \in 0..MaxCounted
      /\ right \/ locked = "running" => guesses' = guesses
      /\ ~right => guesses' = guesses \/ guesses' = guesses + 1
  BY <1>1, AccountsAssumption DEF P!Compare, P!TypeOK
<1>6. P!TypeOK'  BY <1>1, <1>4, <1>5 DEF P!TypeOK
<1>7. LockInTime'
  <2>1. /\ Cardinality(Pending) \in Nat
        /\ failures \in Nat /\ guesses \in Nat /\ guesses' \in Nat
    BY <1>1, <1>5, PendingCounts, PassphraseNumbers
  <2>2. CASE locked = "running"  BY <1>1, <1>5, <2>2 DEF LockInTime
  <2>3. CASE locked # "running" /\ at = "spend"
    <3>1. Cardinality(Pending') = Cardinality(Pending) + 1
      BY <1>1, <1>4, <2>3, PendingMoves
    <3>2. guesses' <= guesses + 1  BY <1>5, <2>1
    <3>3. locked' = locked /\ failures' = failures  BY <1>1
    <3>4. CASE locked = "never"
      <4>1. failures < MaxFailures /\ guesses <= failures + Cardinality(Pending)
        BY <1>1, <3>4 DEF LockInTime
      <4>2. guesses' <= failures + Cardinality(Pending')  BY <2>1, <3>1, <3>2, <4>1
      <4> QED BY <3>3, <3>4, <4>1, <4>2 DEF LockInTime
    <3>5. CASE locked = "over"
      <4>1. failures >= MaxFailures /\ guesses <= Cardinality(Pending)
        BY <1>1, <3>5 DEF LockInTime
      <4>2. guesses' <= Cardinality(Pending')  BY <2>1, <3>1, <3>2, <4>1
      <4> QED BY <3>3, <3>5, <4>1, <4>2 DEF LockInTime
    <3> QED BY <1>1, <2>3, <3>4, <3>5 DEF P!TypeOK
  <2>4. CASE at # "spend"
    <3>1. Pending' = Pending  BY <1>1, <1>3, <1>4, <2>4, PendingMoves
    <3>2. guesses' = guesses  BY <1>3, <1>5, <2>4
    <3> QED BY <1>1, <3>1, <3>2, LockStays
  <2> QED BY <2>2, <2>3, <2>4
<1> QED BY <1>1, <1>6, <1>7 DEF PassphraseInv, P!OnlyFailuresCloseAddress

LEMMA FailureKeeps ==
  ASSUME PassphraseInv, NEW a \in Requests, P!SpendAddress(a) \/ P!CountFailure(a) \/ P!Clear(a)
  PROVE  PassphraseInv'
<1>1. P!TypeOK /\ byAddress <= wrong /\ LockInTime
  BY DEF PassphraseInv, P!OnlyFailuresCloseAddress
<1>2. /\ failures \in Nat /\ byAddress \in Nat /\ wrong \in Nat /\ guesses \in Nat
      /\ MaxFailures \in Nat /\ MaxFailures > 0 /\ MaxCounted \in Nat
  BY <1>1, PassphraseNumbers, AccountsAssumption
<1>3. CASE P!SpendAddress(a)
  <2>1. /\ attempt' \in [Requests -> P!Attempt] /\ attempt'[a].at = "count" /\ a \in Pending
        /\ \A b \in Requests : b # a => attempt'[b] = attempt[b]
    <3>1. "count" \in P!Steps  BY DEF P!Steps
    <3> QED BY <1>1, <1>3, <3>1, AttemptBecomes DEF P!SpendAddress, Pending
  <2>2. /\ wrong' = wrong + 1 /\ (byAddress' = byAddress \/ byAddress' = byAddress + 1)
        /\ wrong < MaxCounted /\ byAddress < MaxCounted
        /\ UNCHANGED <<citizen, status, failures, locked, byIdentifier, store, guesses>>
    BY <1>3 DEF P!SpendAddress
  <2>3. wrong' \in 0..MaxCounted /\ byAddress' \in 0..MaxCounted /\ byAddress' <= wrong'
    BY <1>1, <1>2, <2>2
  <2>4. P!TypeOK'  BY <1>1, <2>1, <2>2, <2>3 DEF P!TypeOK
  <2>5. LockInTime'  BY <1>1, <2>1, <2>2, PendingMoves, LockStays
  <2> QED BY <2>3, <2>4, <2>5 DEF PassphraseInv, P!OnlyFailuresCloseAddress
<1>4. CASE P!CountFailure(a)
  <2>1. /\ attempt' \in [Requests -> P!Attempt] /\ attempt'[a].at = "idle" /\ a \in Pending
        /\ \A b \in Requests : b # a => attempt'[b] = attempt[b]
    <3>1. "idle" \in P!Steps  BY DEF P!Steps
    <3> QED BY <1>1, <1>4, <3>1, AttemptBecomes DEF P!CountFailure, Pending
  <2>2. /\ failures' = failures + 1 /\ failures < MaxCounted
        /\ failures + 1 >= MaxFailures => locked' = "running"
        /\ failures + 1 < MaxFailures => locked' = locked
        /\ UNCHANGED <<citizen, status, byIdentifier, byAddress, store, wrong, guesses>>
    BY <1>2, <1>4 DEF P!CountFailure, P!LockFrom
  <2>3. /\ Cardinality(Pending') = Cardinality(Pending) - 1
        /\ Cardinality(Pending) \in Nat /\ Cardinality(Requests) \in Nat
        /\ Cardinality(Pending) <= Cardinality(Requests)
    BY <2>1, PendingMoves, PendingCounts
  <2>4. locked' \in {"never", "running", "over"} /\ failures' \in 0..MaxCounted
    BY <1>1, <1>2, <2>2 DEF P!TypeOK
  <2>5. P!TypeOK'  BY <1>1, <2>1, <2>2, <2>4 DEF P!TypeOK
  <2>6. LockInTime'
    <3>1. CASE failures + 1 >= MaxFailures
      <4>1. guesses <= MaxFailures - 1 + Cardinality(Requests)
        BY <1>1, <1>2, <2>3, <3>1 DEF LockInTime, P!TypeOK
      <4> QED BY <2>2, <3>1, <4>1 DEF LockInTime
    <3>2. CASE failures + 1 < MaxFailures
      <4>1. locked = "never" /\ guesses <= failures + Cardinality(Pending)
        BY <1>1, <1>2, <3>2 DEF LockInTime, P!TypeOK
      <4>2. guesses' <= failures' + Cardinality(Pending')  BY <1>2, <2>2, <2>3, <4>1
      <4> QED BY <2>2, <3>2, <4>1, <4>2 DEF LockInTime
    <3> QED BY <1>2, <3>1, <3>2
  <2> QED BY <1>1, <2>2, <2>5, <2>6 DEF PassphraseInv, P!OnlyFailuresCloseAddress
<1>5. CASE P!Clear(a)
  <2>1. PICK at \in {"idle", "reset"} : P!Becomes(a, at)  BY <1>5 DEF P!Clear
  <2>2. attempt' \in [Requests -> P!Attempt]
    <3>1. at \in P!Steps  BY DEF P!Steps
    <3> QED BY <1>1, <2>1, <3>1, AttemptBecomes
  <2>3. /\ failures' = 0 /\ locked' = "never" /\ guesses' = 0
        /\ UNCHANGED <<citizen, status, byIdentifier, byAddress, store, wrong>>
    BY <1>5 DEF P!Clear
  <2>4. P!TypeOK'
    <3>1. 0 \in 0..MaxCounted  BY <1>2
    <3> QED BY <1>1, <2>2, <2>3, <3>1 DEF P!TypeOK
  <2>5. LockInTime'
    <3>1. Cardinality(Pending)' \in Nat
      <4>1. Pending' \in SUBSET Requests  BY DEF Pending
      <4> QED BY <4>1, AccountsAssumption, FS_Subset, FS_CardinalityType
    <3> QED BY <1>2, <2>3, <3>1 DEF LockInTime
  <2> QED BY <1>1, <2>3, <2>4, <2>5 DEF PassphraseInv, P!OnlyFailuresCloseAddress
<1> QED BY <1>3, <1>4, <1>5

LEMMA PassphraseWorld ==
  ASSUME PassphraseInv,
         \/ \E s \in {"ACTIVE", "SUSPENDED"} : P!SetStatus(s)
         \/ P!LockEnds
         \/ \E i \in Identifiers : P!IdentifierExpires(i)
         \/ P!AddressExpires
         \/ P!StoreChanges
  PROVE  PassphraseInv'
<1>1. P!TypeOK /\ byAddress <= wrong /\ LockInTime
  BY DEF PassphraseInv, P!OnlyFailuresCloseAddress
<1>2. /\ UNCHANGED <<citizen, failures, attempt>> /\ Pending' = Pending
      /\ Cardinality(Pending) \in Nat /\ 0 \in 0..MaxCounted
  BY PendingCounts, AccountsAssumption
     DEF P!SetStatus, P!LockEnds, P!IdentifierExpires, P!AddressExpires, P!StoreChanges, Pending
<1>3. P!TypeOK'
  <2>1. byIdentifier \in [Identifiers -> 0..MaxCounted]  BY <1>1 DEF P!TypeOK
  <2> QED BY <1>1, <1>2, <2>1
     DEF P!TypeOK, P!SetStatus, P!LockEnds, P!IdentifierExpires, P!AddressExpires, P!StoreChanges
<1>4. byAddress' <= wrong'
  BY <1>1 DEF P!SetStatus, P!LockEnds, P!IdentifierExpires, P!AddressExpires, P!StoreChanges
<1>5. LockInTime'
  <2>1. CASE P!LockEnds
    <3>1. locked = "running" /\ locked' = "over" /\ guesses' = 0  BY <2>1 DEF P!LockEnds
    <3> QED BY <1>1, <1>2, <3>1 DEF LockInTime
  <2>2. CASE ~P!LockEnds
    <3>1. UNCHANGED <<locked, guesses>>
      BY <2>2 DEF P!SetStatus, P!IdentifierExpires, P!AddressExpires, P!StoreChanges
    <3> QED BY <1>1, <1>2, <3>1, LockStays
  <2> QED BY <2>1, <2>2
<1> QED BY <1>3, <1>4, <1>5 DEF PassphraseInv, P!OnlyFailuresCloseAddress

LEMMA PassphraseStep ==
  ASSUME PassphraseInv, [P!Next]_(P!vars)
  PROVE  PassphraseInv'
<1>1. CASE UNCHANGED P!vars
  BY <1>1 DEF P!vars, PassphraseInv, P!TypeOK, P!OnlyFailuresCloseAddress, LockInTime, Pending
<1>2. ASSUME NEW a \in Requests, NEW right \in BOOLEAN, P!Compare(a, right) PROVE PassphraseInv'
  BY <1>2, CompareKeeps
<1>3. ASSUME NEW a \in Requests,
             \/ \E i \in Identifiers : P!SpendIdentifier(a, i)
             \/ P!ReadAddress(a)
             \/ P!ResetIdentifier(a)
      PROVE  PassphraseInv'
  BY <1>3, PassphraseBudgets
<1>4. ASSUME NEW a \in Requests, P!SpendAddress(a) \/ P!CountFailure(a) \/ P!Clear(a)
      PROVE  PassphraseInv'
  BY <1>4, FailureKeeps
<1> QED BY <1>1, <1>2, <1>3, <1>4, PassphraseWorld DEF P!Next

LEMMA PassphraseStarts == P!Init => PassphraseInv
<1> SUFFICES ASSUME P!Init PROVE PassphraseInv  OBVIOUS
<1>1. P!TypeOK
  <2>1. 0 \in 0..MaxCounted  BY AccountsAssumption
  <2>2. PICK i \in Identifiers : attempt = [a \in Requests |-> [at |-> "idle", identifier |-> i]]
    BY DEF P!Init
  <2>3. [at |-> "idle", identifier |-> i] \in P!Attempt  BY DEF P!Attempt, P!Steps
  <2> QED BY <2>1, <2>2, <2>3 DEF P!Init, P!TypeOK
<1>2. LockInTime  BY PendingCounts, AccountsAssumption DEF P!Init, LockInTime
<1> QED BY <1>1, <1>2 DEF P!Init, PassphraseInv, P!OnlyFailuresCloseAddress

\* However many colleagues sign in correctly from one address, its counter never exceeds
\* the failures on record from there, and passphrases compared without a lock are fewer
\* than the limit and the attempts under way together, whatever the limit and however
\* many attempts run (login(), recordFailure(), enforceLoginRateLimit()).
THEOREM GuessesAreBoundedHolds == P!Spec => []GuessesAreBounded
<1>1. PassphraseInv => GuessesAreBounded
  <2> SUFFICES ASSUME PassphraseInv PROVE GuessesAreBounded  OBVIOUS
  <2>1. P!TypeOK /\ LockInTime  BY DEF PassphraseInv
  <2>2. guesses <= MaxFailures - 1 + Cardinality(Requests)
    BY <2>1, PendingCounts, PassphraseNumbers DEF LockInTime, P!TypeOK
  <2>3. P!Cardinality(Requests) = Cardinality(Requests)  BY DEF P!Cardinality, Cardinality
  <2>4. P!GuessesBeforeLock  BY <2>2, <2>3 DEF P!GuessesBeforeLock
  <2> QED BY <2>1, <2>4 DEF PassphraseInv, GuessesAreBounded
<1>2. PassphraseInv /\ [P!Next]_(P!vars) => PassphraseInv'  BY PassphraseStep
<1> QED BY <1>1, <1>2, PassphraseStarts, PTL DEF P!Spec

(***************************************************************************)
(* Greatest elements and sequences rewritten in place                      *)
(***************************************************************************)
\* A set of numbers with a bound has a greatest one: what ORDER BY .. DESC LIMIT 1 finds.
LEMMA GreatestNat ==
  ASSUME NEW N \in Nat, NEW S, S \subseteq 0..N, S # {}
  PROVE  \E n \in S : \A m \in S : m <= n
<1> DEFINE Above(n) == {m \in S : m > n}
           All == {Above(n) : n \in S}
<1>1. IsFiniteSet(S)
  <2>1. IsFiniteSet(0..N)  BY FS_Interval
  <2>2. S \in SUBSET (0..N)  OBVIOUS
  <2> QED BY <2>1, <2>2, FS_Subset
<1>2. All \subseteq FiniteSubsetsOf(S) /\ All # {}
  <2>1. \A n \in S : Above(n) \in SUBSET S  OBVIOUS
  <2>2. All \subseteq SUBSET S  BY <2>1
  <2>3. All # {}  OBVIOUS
  <2> HIDE DEF All
  <2> QED  BY <1>1, <2>2, <2>3, FS_FiniteSubsetsOfFinite
<1>3. \E x \in All : \A y \in All : ~ (<<y, x>> \in StrictSubsetOrdering(S))
  <2> HIDE DEF All
  <2> QED BY <1>2, FS_StrictSubsetOrderingWellFounded, WFMin, Zenon
<1>4. PICK x \in All : \A y \in All : ~ (<<y, x>> \in StrictSubsetOrdering(S))
  BY <1>3
<1>5. PICK n \in S : x = Above(n)  BY <1>4
<1>6. ASSUME NEW m \in S, m > n PROVE FALSE
  <2>0. S \subseteq Int  OBVIOUS
  <2>1. Above(m) \subseteq Above(n)
    <3>1. ASSUME NEW k \in S, k > m PROVE k > n  BY <1>6, <2>0, <3>1
    <3> QED BY <3>1
  <2>2. m \in Above(n) /\ m \notin Above(m) BY <1>6, <2>0
  <2>4. Above(m) \in SUBSET S /\ Above(n) \in SUBSET S OBVIOUS
  <2>3. Above(m) \in All  OBVIOUS
  <2>5. Above(m) # Above(n)  BY <2>2
  <2>6. <<Above(m), Above(n)>> \in StrictSubsetOrdering(S)
    <3> HIDE DEF Above
    <3> QED BY <2>1, <2>4, <2>5 DEF StrictSubsetOrdering
  <2> QED BY <2>3, <2>6, <1>4, <1>5
<1> QED BY <1>6

LEMMA RewrittenSeq ==
  ASSUME NEW S, NEW T, NEW s \in Seq(S), NEW t, t = [n \in DOMAIN s |-> t[n]],
         \A n \in DOMAIN s : t[n] \in T
  PROVE  t \in Seq(T) /\ Len(t) = Len(s) /\ DOMAIN t = DOMAIN s
<1>1. DOMAIN s = 1..Len(s) /\ Len(s) \in Nat  OBVIOUS
<1>2. t \in [1..Len(s) -> T]  BY <1>1
<1> QED BY <1>1, <1>2

LEMMA AppendedSeq ==
  ASSUME NEW T, NEW s \in Seq(T), NEW x \in T, NEW t, t = Append(s, x)
  PROVE  /\ t \in Seq(T) /\ Len(t) = Len(s) + 1 /\ DOMAIN t = DOMAIN s \cup {Len(s) + 1}
         /\ t[Len(s) + 1] = x /\ \A n \in DOMAIN s : t[n] = s[n]
         /\ Len(s) + 1 \notin DOMAIN s
<1>1. t \in Seq(T) /\ Len(t) = Len(s) + 1  OBVIOUS
<1>2. DOMAIN t = 1..Len(s) + 1 /\ DOMAIN s = 1..Len(s) /\ Len(s) \in Nat  BY <1>1
<1> QED BY <1>1, <1>2

(***************************************************************************)
(* The credential                                                          *)
(***************************************************************************)
\* Requests and tokens name credentials that were issued; of what a resident had when a
\* loss was reported nothing is active again, and what a scan found valid was not among
\* it when it was read.
CredentialInv ==
    /\ C!TypeOK
    /\ \A r \in Requests : viewing[r].at = "mint" => viewing[r].credential \in DOMAIN credentials
    /\ \A r \in Requests : viewing[r].valid => ~viewing[r].lost
    /\ \A c \in reported : credentials[c].status = "REVOKED"
    /\ \A t \in DOMAIN tokens : tokens[t].credential \in DOMAIN credentials
    /\ TRUE \notin answers

LEMMA CredentialRows ==
  ASSUME C!TypeOK
  PROVE  /\ DOMAIN credentials = 1..Len(credentials) /\ Len(credentials) \in 0..MaxCredentials
         /\ DOMAIN tokens = 1..Len(tokens) /\ Len(tokens) \in 0..MaxTokens
         /\ \A c \in DOMAIN credentials : credentials[c] \in C!Credential
         /\ \A t \in DOMAIN tokens : tokens[t] \in C!Token
         /\ \A r \in Requests : viewing[r] \in C!Request
         /\ DOMAIN credentials \subseteq 1..MaxCredentials
         /\ MaxCredentials \in Nat /\ MaxTokens \in Nat
<1>1. credentials \in Seq(C!Credential) /\ tokens \in Seq(C!Token)  BY DEF C!TypeOK
<1>2. Len(credentials) \in 0..MaxCredentials /\ Len(tokens) \in 0..MaxTokens
  BY <1>1, AccountsAssumption DEF C!TypeOK
<1> QED BY <1>1, <1>2, AccountsAssumption DEF C!TypeOK

LEMMA NewestIsActive ==
  ASSUME C!TypeOK, C!Active # {}
  PROVE  C!Newest(C!Active) \in C!Active
<1>1. C!Active \subseteq 0..MaxCredentials /\ MaxCredentials \in Nat
  BY CredentialRows DEF C!Active
<1>2. \E c \in C!Active : \A d \in C!Active : d <= c  BY <1>1, GreatestNat
<1> QED BY <1>2 DEF C!Newest

LEMMA ViewingIs ==
  ASSUME C!TypeOK, NEW r \in Requests, NEW q \in C!Request, viewing' = [viewing EXCEPT ![r] = q]
  PROVE  /\ viewing' \in [Requests -> C!Request] /\ viewing'[r] = q
         /\ \A p \in Requests : p # r => viewing'[p] = viewing[p]
  BY DEF C!TypeOK

LEMMA IdleIs == C!Idle \in C!Request /\ ~C!Idle.valid /\ C!Idle.at = "idle"
<1>1. 0 \in 0..MaxCredentials  BY AccountsAssumption
<1> QED BY <1>1 DEF C!Request, C!Idle

LEMMA IdleRequests ==
  ASSUME NEW r \in Requests, NEW at \in {"idle", "issue", "mint", "answer", "forget"},
         NEW c \in 0..MaxCredentials, C!Becomes(r, at, c)
  PROVE  \E q \in C!Request : /\ viewing' = [viewing EXCEPT ![r] = q]
                              /\ ~q.valid /\ q.at = at /\ q.credential = c
<1>1. PICK i : i = C!Idle  OBVIOUS
<1>2. i \in C!Request /\ ~i.valid  BY <1>1, IdleIs
<1>3. PICK q : q = [i EXCEPT !.at = at, !.credential = c]  OBVIOUS
<1>4. viewing' = [viewing EXCEPT ![r] = q]  BY <1>1, <1>3 DEF C!Becomes
<1>5. q \in C!Request /\ ~q.valid /\ q.at = at /\ q.credential = c
  BY <1>2, <1>3 DEF C!Request
<1> QED BY <1>4, <1>5

\* A request starts, goes on or ends, and its row is the only one that changes.
LEMMA ViewingKeeps ==
  ASSUME CredentialInv, NEW r \in Requests, NEW q \in C!Request, viewing' = [viewing EXCEPT ![r] = q],
         q.valid => ~q.lost,
         q.at = "mint" => q.credential \in DOMAIN credentials',
         DOMAIN credentials \subseteq DOMAIN credentials',
         credentials' \in Seq(C!Credential), Len(credentials') <= MaxCredentials,
         tokens' \in Seq(C!Token), Len(tokens') <= MaxTokens,
         \A t \in DOMAIN tokens' : tokens'[t].credential \in DOMAIN credentials',
         reported' \subseteq DOMAIN credentials',
         \A c \in reported' : credentials'[c].status = "REVOKED",
         holder' = holder, answers' \subseteq BOOLEAN, TRUE \notin answers'
  PROVE  CredentialInv'
<1>1. /\ viewing' \in [Requests -> C!Request] /\ viewing'[r] = q
      /\ \A p \in Requests : p # r => viewing'[p] = viewing[p]
  BY ViewingIs DEF CredentialInv
<1>2. C!TypeOK'  BY <1>1 DEF CredentialInv, C!TypeOK
<1>3. ASSUME NEW p \in Requests
      PROVE  /\ viewing'[p].at = "mint" => viewing'[p].credential \in DOMAIN credentials'
             /\ viewing'[p].valid => ~viewing'[p].lost
  BY <1>1 DEF CredentialInv
<1> QED BY <1>2, <1>3 DEF CredentialInv

LEMMA CredentialRequests ==
  ASSUME CredentialInv, NEW r \in Requests,
         \/ C!View(r) \/ C!Issue(r) \/ C!Answer(r) \/ C!Revoke(r) \/ C!Forget(r)
         \/ \E housekeeping \in BOOLEAN : C!Mint(r, housekeeping)
         \/ \E t \in 1..MaxTokens : C!Scan(r, t)
  PROVE  CredentialInv'
<1>1. /\ C!TypeOK /\ credentials \in Seq(C!Credential) /\ Len(credentials) <= MaxCredentials
      /\ tokens \in Seq(C!Token) /\ Len(tokens) <= MaxTokens
      /\ \A t \in DOMAIN tokens : tokens[t].credential \in DOMAIN credentials
      /\ answers \subseteq BOOLEAN /\ TRUE \notin answers
      /\ reported \subseteq DOMAIN credentials
      /\ \A c \in reported : credentials[c].status = "REVOKED"
  BY DEF CredentialInv, C!TypeOK
<1>2. 0 \in 0..MaxCredentials  BY AccountsAssumption
<1>3. CASE C!View(r)
  <2>1. UNCHANGED <<credentials, holder, tokens, reported, answers>>  BY <1>3 DEF C!View
  <2>2. PICK at \in {"issue", "mint"}, c \in 0..MaxCredentials :
           C!Becomes(r, at, c) /\ (at = "mint" => c \in DOMAIN credentials)
    <3>1. CASE C!Active = {}  BY <1>2, <1>3, <3>1 DEF C!View
    <3>2. CASE C!Active # {}
      <4>1. C!Newest(C!Active) \in DOMAIN credentials  BY <1>1, <3>2, NewestIsActive DEF C!Active
      <4>2. C!Newest(C!Active) \in 0..MaxCredentials  BY <1>1, <4>1, CredentialRows
      <4> QED BY <1>3, <3>2, <4>1, <4>2 DEF C!View
    <3> QED BY <3>1, <3>2
  <2>3. PICK q \in C!Request : /\ viewing' = [viewing EXCEPT ![r] = q]
                               /\ ~q.valid /\ q.at = at /\ q.credential = c
    BY <2>2, IdleRequests
  <2> QED BY <1>1, <2>1, <2>2, <2>3, ViewingKeeps
<1>4. CASE C!Issue(r)
  <2>1. PICK new : new = [status |-> "ACTIVE", expired |-> FALSE]  OBVIOUS
  <2>2. new \in C!Credential  BY <2>1 DEF C!Credential, C!Status
  <2>3. /\ Len(credentials) < MaxCredentials /\ credentials' = Append(credentials, new)
        /\ C!Becomes(r, "mint", Len(credentials) + 1)
        /\ UNCHANGED <<holder, tokens, reported, answers>>
    BY <1>4, <2>1 DEF C!Issue
  <2>4. /\ credentials' \in Seq(C!Credential) /\ Len(credentials') = Len(credentials) + 1
        /\ DOMAIN credentials' = DOMAIN credentials \cup {Len(credentials) + 1}
        /\ \A c \in DOMAIN credentials : credentials'[c] = credentials[c]
    BY <1>1, <2>2, <2>3, AppendedSeq
  <2>5. Len(credentials) + 1 \in 0..MaxCredentials  BY <1>1, <2>3, CredentialRows
  <2>6. PICK q \in C!Request : /\ viewing' = [viewing EXCEPT ![r] = q]
                               /\ ~q.valid /\ q.credential = Len(credentials) + 1
    BY <2>3, <2>5, IdleRequests
  <2>7. Len(credentials') <= MaxCredentials  BY <1>1, <2>3, <2>4, CredentialRows
  <2>8. q.credential \in DOMAIN credentials'  BY <2>4, <2>6
  <2>9. reported' \subseteq DOMAIN credentials' /\ \A c \in reported' : credentials'[c].status = "REVOKED"
    BY <1>1, <2>3, <2>4
  <2> QED BY <1>1, <2>3, <2>4, <2>6, <2>7, <2>8, <2>9, ViewingKeeps
<1>5. CASE C!Answer(r)
  <2>1. /\ UNCHANGED <<credentials, holder, tokens, reported>>
        /\ viewing' = [viewing EXCEPT ![r] = C!Idle]
        /\ answers' = IF viewing[r].valid THEN answers \cup {viewing[r].lost} ELSE answers
    BY <1>5 DEF C!Answer, C!Ends
  <2>2. viewing[r].lost \in BOOLEAN /\ (viewing[r].valid => ~viewing[r].lost)
    BY <1>1, CredentialRows DEF CredentialInv, C!Request
  <2>3. answers' \subseteq BOOLEAN /\ TRUE \notin answers'  BY <1>1, <2>1, <2>2
  <2> QED BY <1>1, <2>1, <2>3, IdleIs, ViewingKeeps
<1>6. CASE C!Revoke(r)
  <2>1. /\ UNCHANGED <<holder, tokens, answers>>
        /\ credentials' = [c \in DOMAIN credentials |->
                              [credentials[c] EXCEPT !.status = "REVOKED"]]
        /\ reported' = DOMAIN credentials
        /\ C!Becomes(r, "forget", 0)
    BY <1>6 DEF C!Revoke
  <2>2. \A c \in DOMAIN credentials :
           credentials'[c] \in C!Credential /\ credentials'[c].status = "REVOKED"
    BY <1>1, <2>1, CredentialRows DEF C!Credential, C!Status
  <2>3. credentials' = [c \in DOMAIN credentials |-> credentials'[c]]  BY <2>1
  <2>4. /\ credentials' \in Seq(C!Credential) /\ Len(credentials') = Len(credentials)
        /\ DOMAIN credentials' = DOMAIN credentials
    BY <1>1, <2>2, <2>3, RewrittenSeq
  <2>5. PICK q \in C!Request : /\ viewing' = [viewing EXCEPT ![r] = q]
                               /\ ~q.valid /\ q.at = "forget"
    BY <1>2, <2>1, IdleRequests
  <2> QED BY <1>1, <2>1, <2>2, <2>4, <2>5, ViewingKeeps
<1>7. CASE C!Forget(r)
  <2>1. /\ UNCHANGED <<credentials, holder, reported, answers>>
        /\ viewing' = [viewing EXCEPT ![r] = C!Idle]
        /\ tokens' = [t \in DOMAIN tokens |->
                         IF credentials[tokens[t].credential].status = "REVOKED"
                         THEN [tokens[t] EXCEPT !.state = "deleted"] ELSE tokens[t]]
    BY <1>7 DEF C!Forget, C!Ends
  <2>2. \A t \in DOMAIN tokens : tokens'[t] \in C!Token /\ tokens'[t].credential = tokens[t].credential
    BY <1>1, <2>1, CredentialRows DEF C!Token
  <2>3. tokens' = [t \in DOMAIN tokens |-> tokens'[t]]  BY <2>1
  <2>4. tokens' \in Seq(C!Token) /\ Len(tokens') = Len(tokens) /\ DOMAIN tokens' = DOMAIN tokens
    BY <1>1, <2>2, <2>3, RewrittenSeq
  <2> QED BY <1>1, <2>1, <2>2, <2>4, IdleIs, ViewingKeeps
<1>8. ASSUME NEW housekeeping \in BOOLEAN, C!Mint(r, housekeeping) PROVE CredentialInv'
  <2>1. PICK c : c = viewing[r].credential  OBVIOUS
  <2>2. PICK kept : kept = [t \in DOMAIN tokens |->
                              IF housekeeping /\ tokens[t] = [credential |-> c, state |-> "expired"]
                              THEN [tokens[t] EXCEPT !.state = "deleted"] ELSE tokens[t]]
    OBVIOUS
  <2>3. PICK new : new = [credential |-> c, state |-> "live"]  OBVIOUS
  <2>4. /\ Len(tokens) < MaxTokens /\ tokens' = Append(kept, new) /\ c \in DOMAIN credentials
        /\ viewing' = [viewing EXCEPT ![r] = C!Idle]
        /\ UNCHANGED <<credentials, holder, reported, answers>>
    BY <1>8, <2>1, <2>2, <2>3 DEF C!Mint, C!At, C!Ends, CredentialInv
  <2>5. new \in C!Token  BY <1>1, <2>3, <2>4, CredentialRows DEF C!Token
  <2>6. \A t \in DOMAIN tokens : kept[t] \in C!Token /\ kept[t].credential = tokens[t].credential
    BY <1>1, <2>2, CredentialRows DEF C!Token
  <2>7. kept = [t \in DOMAIN tokens |-> kept[t]]  BY <2>2
  <2>8. kept \in Seq(C!Token) /\ Len(kept) = Len(tokens) /\ DOMAIN kept = DOMAIN tokens
    BY <1>1, <2>6, <2>7, RewrittenSeq
  <2>9. /\ tokens' \in Seq(C!Token) /\ Len(tokens') = Len(kept) + 1 /\ tokens'[Len(kept) + 1] = new
        /\ DOMAIN tokens' = DOMAIN tokens \cup {Len(kept) + 1}
        /\ \A t \in DOMAIN tokens : tokens'[t] = kept[t]
    BY <2>4, <2>5, <2>8, AppendedSeq
  <2>10. \A t \in DOMAIN tokens' : tokens'[t].credential \in DOMAIN credentials'
    BY <1>1, <2>3, <2>4, <2>6, <2>9
  <2>11. Len(tokens') <= MaxTokens  BY <1>1, <2>4, <2>8, <2>9, CredentialRows
  <2> QED BY <1>1, <2>4, <2>9, <2>10, <2>11, IdleIs, ViewingKeeps
<1>9. ASSUME NEW t \in 1..MaxTokens, C!Scan(r, t) PROVE CredentialInv'
  <2>1. PICK c : c = tokens[t].credential  OBVIOUS
  <2>2. PICK q : q = [at |-> "answer", credential |-> c, valid |-> C!Accepts(t),
                      lost |-> c \in reported]
    OBVIOUS
  <2>3. /\ t \in DOMAIN tokens /\ viewing' = [viewing EXCEPT ![r] = q]
        /\ UNCHANGED <<credentials, holder, tokens, reported, answers>>
    BY <1>9, <2>1, <2>2 DEF C!Scan
  <2>4. c \in 0..MaxCredentials /\ (C!Accepts(t) \in BOOLEAN)
    BY <1>1, <2>1, <2>3, CredentialRows DEF C!Accepts, C!Token
  <2>5. q \in C!Request  BY <2>2, <2>4 DEF C!Request
  <2>6. q.valid => ~q.lost
    <3>1. ASSUME q.valid PROVE credentials[c].status = "ACTIVE"
      BY <2>1, <2>2, <3>1 DEF C!Accepts, C!Usable
    <3> QED BY <1>1, <2>2, <3>1
  <2>7. q.at # "mint"  BY <2>2
  <2> QED BY <1>1, <2>3, <2>5, <2>6, <2>7, ViewingKeeps
<1> QED BY <1>3, <1>4, <1>5, <1>6, <1>7, <1>8, <1>9

LEMMA CredentialWorld ==
  ASSUME CredentialInv,
         \/ \E t \in 1..MaxTokens : C!TokenExpires(t)
         \/ \E c \in 1..MaxCredentials : C!CredentialExpires(c)
         \/ C!HolderChanges
  PROVE  CredentialInv'
<1>1. /\ C!TypeOK /\ credentials \in Seq(C!Credential) /\ Len(credentials) <= MaxCredentials
      /\ tokens \in Seq(C!Token) /\ Len(tokens) <= MaxTokens
      /\ reported \subseteq DOMAIN credentials
      /\ \A c \in reported : credentials[c].status = "REVOKED"
  BY DEF CredentialInv, C!TypeOK
<1>2. ASSUME NEW t \in 1..MaxTokens, C!TokenExpires(t) PROVE CredentialInv'
  <2>1. [tokens[t] EXCEPT !.state = "expired"] \in C!Token
    BY <1>1, <1>2, CredentialRows DEF C!TokenExpires, C!Token
  <2>2. \A u \in DOMAIN tokens : tokens'[u] \in C!Token /\ tokens'[u].credential = tokens[u].credential
    BY <1>1, <1>2, <2>1, CredentialRows DEF C!TokenExpires, C!Token
  <2>3. tokens' = [u \in DOMAIN tokens |-> tokens'[u]]  BY <1>2 DEF C!TokenExpires
  <2>4. tokens' \in Seq(C!Token) /\ Len(tokens') = Len(tokens) /\ DOMAIN tokens' = DOMAIN tokens
    BY <1>1, <2>2, <2>3, RewrittenSeq
  <2> QED BY <1>1, <1>2, <2>2, <2>4 DEF CredentialInv, C!TypeOK, C!TokenExpires
<1>3. ASSUME NEW c \in 1..MaxCredentials, C!CredentialExpires(c) PROVE CredentialInv'
  <2>1. \A d \in DOMAIN credentials :
           credentials'[d] \in C!Credential /\ credentials'[d].status = credentials[d].status
    BY <1>1, <1>3, CredentialRows DEF C!CredentialExpires, C!Credential
  <2>2. credentials' = [d \in DOMAIN credentials |-> credentials'[d]]
    BY <1>3 DEF C!CredentialExpires
  <2>3. /\ credentials' \in Seq(C!Credential) /\ Len(credentials') = Len(credentials)
        /\ DOMAIN credentials' = DOMAIN credentials
    BY <1>1, <2>1, <2>2, RewrittenSeq
  <2>4. reported' = reported /\ \A d \in reported : credentials'[d].status = "REVOKED"
    BY <1>1, <1>3, <2>1 DEF C!CredentialExpires
  <2> QED BY <1>1, <1>3, <2>3, <2>4 DEF CredentialInv, C!TypeOK, C!CredentialExpires
<1>4. CASE C!HolderChanges
  BY <1>4 DEF CredentialInv, C!TypeOK, C!HolderChanges
<1> QED BY <1>2, <1>3, <1>4

LEMMA CredentialStep ==
  ASSUME CredentialInv, [C!Next]_(C!vars)
  PROVE  CredentialInv'
<1>1. CASE UNCHANGED C!vars  BY <1>1 DEF C!vars, CredentialInv, C!TypeOK
<1>2. CASE C!Next  BY <1>2, CredentialRequests, CredentialWorld DEF C!Next
<1> QED BY <1>1, <1>2

LEMMA CredentialStarts == C!Init => CredentialInv
<1> SUFFICES ASSUME C!Init PROVE CredentialInv  OBVIOUS
<1>1. credentials = <<>> /\ tokens = <<>> /\ answers = {} /\ reported = {} /\ holder = TRUE
  BY DEF C!Init
<1>2. \A r \in Requests : viewing[r] = C!Idle  BY DEF C!Init
<1>3. C!Idle \in C!Request /\ ~C!Idle.valid /\ C!Idle.at = "idle"  BY IdleIs
<1>4. C!TypeOK  BY <1>1, <1>3, AccountsAssumption DEF C!Init, C!TypeOK
<1> QED BY <1>1, <1>2, <1>3, <1>4 DEF CredentialInv

\* What a resident had when a loss was reported is never confirmed by a scan after the
\* report, whatever pages are open, however many credentials were issued at once: the
\* report revokes every active one, and nothing makes a revoked one active
\* (credential.service.ts).
THEOREM LostIsNeverConfirmedHolds == C!Spec => []LostIsNeverConfirmed
<1>1. CredentialInv => LostIsNeverConfirmed
  BY DEF CredentialInv, LostIsNeverConfirmed, C!LostIsNeverConfirmed
<1>2. CredentialInv /\ [C!Next]_(C!vars) => CredentialInv'  BY CredentialStep
<1> QED BY <1>1, <1>2, CredentialStarts, PTL DEF C!Spec

(***************************************************************************)
(* The second factor                                                       *)
(***************************************************************************)
Codes == F!StepsOfTime \cup {F!RecoveryCode}

\* Requests name credentials that were created; the counter of one that is verified is that
\* of a confirmed credential, and the code that matched is later than the counter it read.
CheckingInv ==
    \A r \in Requests :
       /\ checking[r].at \in {"verify", "write"} =>
             checking[r].row \in DOMAIN codes /\ codes[checking[r].row].confirmed
       /\ checking[r].at \in {"consume", "confirm"} => checking[r].row \in DOMAIN codes
       /\ checking[r].at = "write" => checking[r].code + 1 > checking[r].last

\* What the counters and the recovery codes say of the codes accepted so far, as long as no
\* request wrote over what it had not read.
CodesInv ==
    ~overwrote =>
        /\ \A n \in DOMAIN codes :
              /\ \A c \in F!StepsOfTime :
                    /\ accepted[<<n, c>>] <= 1
                    /\ accepted[<<n, c>>] # 0 => codes[n].last >= c + 1
              /\ ~codes[n].confirmed => codes[n].last = 0
              /\ accepted[<<n, F!RecoveryCode>>] <= 1
              /\ recovery[n] = "unused" => accepted[<<n, F!RecoveryCode>>] = 0
        /\ \A n \in F!Rows, c \in Codes : n \notin DOMAIN codes => accepted[<<n, c>>] = 0
        /\ enrolled => \E n \in DOMAIN codes : codes[n].exists /\ codes[n].confirmed

SecondFactorInv == F!TypeOK /\ CheckingInv /\ CodesInv

LEMMA SecondFactorRows ==
  ASSUME F!TypeOK
  PROVE  /\ codes \in Seq(F!Credential) /\ Len(codes) \in 0..MaxEnrolments
         /\ DOMAIN codes = 1..Len(codes) /\ DOMAIN recovery = DOMAIN codes
         /\ DOMAIN codes \subseteq F!Rows
         /\ \A n \in DOMAIN codes : /\ codes[n] \in F!Credential
                                    /\ recovery[n] \in {"unused", "consumed", "deleted"}
         /\ \A r \in Requests : checking[r] \in F!Request
         /\ \A n \in F!Rows, c \in Codes : accepted[<<n, c>>] \in Nat
         /\ MaxEnrolments \in Nat /\ MaxStep \in Nat
         /\ F!StepsOfTime \subseteq Codes /\ F!RecoveryCode \in Codes
         /\ F!RecoveryCode \notin F!StepsOfTime /\ F!StepsOfTime \subseteq Nat
<1>1. MaxEnrolments \in Nat /\ MaxStep \in Nat  BY AccountsAssumption
<1>2. /\ codes \in Seq(F!Credential) /\ Len(codes) \in 0..MaxEnrolments
      /\ DOMAIN recovery = DOMAIN codes
      /\ \A n \in DOMAIN recovery : recovery[n] \in {"unused", "consumed", "deleted"}
      /\ checking \in [Requests -> F!Request] /\ accepted \in [F!Rows \X Codes -> Nat]
  BY <1>1 DEF F!TypeOK, Codes
<1>3. DOMAIN codes = 1..Len(codes) /\ DOMAIN codes \subseteq F!Rows
  BY <1>1, <1>2 DEF F!Rows
<1>4. /\ F!StepsOfTime \subseteq Codes /\ F!RecoveryCode \in Codes
      /\ F!RecoveryCode \notin F!StepsOfTime /\ F!StepsOfTime \subseteq Nat
  BY <1>1 DEF Codes, F!StepsOfTime, F!RecoveryCode
<1> QED BY <1>1, <1>2, <1>3, <1>4

LEMMA LatestIs ==
  ASSUME F!TypeOK, NEW confirmed \in BOOLEAN
  PROVE  /\ F!Latest(confirmed) \in 0..MaxEnrolments
         /\ F!Latest(confirmed) # 0 =>
               /\ F!Latest(confirmed) \in DOMAIN codes
               /\ codes[F!Latest(confirmed)].exists
               /\ codes[F!Latest(confirmed)].confirmed = confirmed
         /\ (\E n \in DOMAIN codes : codes[n].exists /\ codes[n].confirmed = confirmed) =>
               F!Latest(confirmed) # 0
<1>1. PICK found : found = {n \in DOMAIN codes : codes[n].exists /\ codes[n].confirmed = confirmed}
  OBVIOUS
<1>2. CASE found = {}
  <2>1. F!Latest(confirmed) = 0  BY <1>1, <1>2 DEF F!Latest
  <2>2. ~\E n \in DOMAIN codes : codes[n].exists /\ codes[n].confirmed = confirmed  BY <1>1, <1>2
  <2> QED BY <2>1, <2>2, SecondFactorRows
<1>3. CASE found # {}
  <2>1. found \subseteq 0..MaxEnrolments /\ MaxEnrolments \in Nat  BY <1>1, SecondFactorRows
  <2>2. \E n \in found : \A m \in found : m <= n  BY <1>3, <2>1, GreatestNat
  <2>3. PICK n : n = CHOOSE top \in found : \A m \in found : m <= top  OBVIOUS
  <2>4. n \in found  BY <2>2, <2>3
  <2>5. F!Latest(confirmed) = n  BY <1>1, <1>3, <2>3 DEF F!Latest
  <2>6. n # 0  BY <1>1, <2>4, SecondFactorRows
  <2> QED BY <1>1, <2>1, <2>4, <2>5, <2>6
<1> QED BY <1>2, <1>3

LEMMA CheckingIs ==
  ASSUME F!TypeOK, NEW r \in Requests, NEW q \in F!Request, checking' = [checking EXCEPT ![r] = q]
  PROVE  /\ checking' \in [Requests -> F!Request] /\ checking'[r] = q
         /\ \A p \in Requests : p # r => checking'[p] = checking[p]
  BY DEF F!TypeOK

LEMMA ChecksIs ==
  ASSUME F!TypeOK, NEW r \in Requests
  PROVE  /\ \A at \in {"idle", "verify", "write", "recover", "consume", "raise", "begin", "insert", "confirm"} :
               F!Goes(r, at) => \E q \in F!Request :
                  /\ checking' = [checking EXCEPT ![r] = q] /\ q.at = at
         /\ F!Ends(r) => \E q \in F!Request :
               checking' = [checking EXCEPT ![r] = q] /\ q.at = "idle"
<1>1. checking[r] \in F!Request /\ MaxEnrolments \in Nat /\ MaxStep \in Nat  BY SecondFactorRows
<1>2. ASSUME NEW at \in {"idle", "verify", "write", "recover", "consume", "raise", "begin", "insert", "confirm"},
             F!Goes(r, at)
      PROVE  \E q \in F!Request : checking' = [checking EXCEPT ![r] = q] /\ q.at = at
  <2>1. PICK q : q = [checking[r] EXCEPT !.at = at]  OBVIOUS
  <2>2. q \in F!Request /\ q.at = at  BY <1>1, <2>1 DEF F!Request
  <2>3. checking' = [checking EXCEPT ![r] = q]  BY <1>2, <2>1 DEF F!Goes
  <2> QED BY <2>2, <2>3
<1>3. ASSUME F!Ends(r)
      PROVE  \E q \in F!Request : checking' = [checking EXCEPT ![r] = q] /\ q.at = "idle"
  <2>1. PICK q : q = [checking[r] EXCEPT !.at = "idle", !.row = 0, !.last = 0, !.code = 0]  OBVIOUS
  <2>2. q \in F!Request /\ q.at = "idle"
    <3>1. 0 \in 0..MaxEnrolments /\ 0 \in 0..MaxStep + 1 /\ 0 \in 0..MaxStep  BY <1>1
    <3> QED BY <1>1, <2>1, <3>1 DEF F!Request
  <2>3. checking' = [checking EXCEPT ![r] = q]  BY <1>3, <2>1 DEF F!Ends
  <2> QED BY <2>2, <2>3
<1> QED BY <1>2, <1>3

\* A request is over or waits without a row: the other requests are as they were.
LEMMA OthersCheck ==
  ASSUME F!TypeOK, CheckingInv, NEW r \in Requests, NEW q \in F!Request,
         checking' = [checking EXCEPT ![r] = q],
         q.at \in {"verify", "write"} => q.row \in DOMAIN codes' /\ codes'[q.row].confirmed,
         q.at \in {"consume", "confirm"} => q.row \in DOMAIN codes',
         q.at = "write" => q.code + 1 > q.last,
         DOMAIN codes \subseteq DOMAIN codes',
         \A n \in DOMAIN codes : codes[n].confirmed => codes'[n].confirmed
  PROVE  CheckingInv'
<1>1. /\ checking'[r] = q
      /\ \A p \in Requests : p # r => checking'[p] = checking[p]
  BY CheckingIs
<1>2. ASSUME NEW p \in Requests
      PROVE  /\ checking'[p].at \in {"verify", "write"} =>
                   checking'[p].row \in DOMAIN codes' /\ codes'[checking'[p].row].confirmed
             /\ checking'[p].at \in {"consume", "confirm"} => checking'[p].row \in DOMAIN codes'
             /\ checking'[p].at = "write" => checking'[p].code + 1 > checking'[p].last
  <2>1. CASE p = r  BY <1>1, <2>1
  <2>2. CASE p # r  BY <1>1, <2>2 DEF CheckingInv
  <2> QED BY <2>1, <2>2
<1> QED BY <1>2 DEF CheckingInv

\* Steps that read only.
LEMMA ReadsKeep ==
  ASSUME SecondFactorInv, NEW r \in Requests, NEW q \in F!Request,
         checking' = [checking EXCEPT ![r] = q],
         q.at \in {"verify", "write"} => q.row \in DOMAIN codes /\ codes[q.row].confirmed,
         q.at \in {"consume", "confirm"} => q.row \in DOMAIN codes,
         q.at = "write" => q.code + 1 > q.last,
         UNCHANGED <<codes, recovery, enrolled, step, accepted, overwrote>>,
         tries' \in [Sessions -> 0..MaxTries], raised' \in SUBSET Sessions
  PROVE  SecondFactorInv'
<1>1. F!TypeOK /\ CheckingInv /\ CodesInv  BY DEF SecondFactorInv
<1>2. checking' \in [Requests -> F!Request]  BY <1>1, CheckingIs
<1>3. F!TypeOK'  BY <1>1, <1>2 DEF F!TypeOK
<1>4. CheckingInv'  BY <1>1, OthersCheck
<1>5. CodesInv'  BY <1>1 DEF CodesInv
<1> QED BY <1>3, <1>4, <1>5 DEF SecondFactorInv

LEMMA AcceptsIs ==
  ASSUME F!TypeOK, NEW n \in F!Rows, NEW c \in Codes, F!Accepts(n, c)
  PROVE  /\ accepted' \in [F!Rows \X Codes -> Nat]
         /\ accepted'[<<n, c>>] = accepted[<<n, c>>] + 1
         /\ \A m \in F!Rows, d \in Codes :
               m # n \/ d # c => accepted'[<<m, d>>] = accepted[<<m, d>>]
<1>1. accepted \in [F!Rows \X Codes -> Nat]  BY DEF F!TypeOK, Codes
<1>2. <<n, c>> \in F!Rows \X Codes  OBVIOUS
<1>3. accepted' = [accepted EXCEPT ![<<n, c>>] = accepted[<<n, c>>] + 1]  BY DEF F!Accepts
<1>4. accepted[<<n, c>>] + 1 \in Nat  BY <1>1, <1>2
<1>5. ASSUME NEW m \in F!Rows, NEW d \in Codes, m # n \/ d # c
      PROVE  accepted'[<<m, d>>] = accepted[<<m, d>>]
  <2>1. <<m, d>> # <<n, c>>  BY <1>5
  <2>2. <<m, d>> \in F!Rows \X Codes  OBVIOUS
  <2> QED BY <1>1, <1>3, <2>1, <2>2
<1> QED BY <1>1, <1>2, <1>3, <1>4, <1>5

LEMMA SecondFactorReads ==
  ASSUME SecondFactorInv, NEW r \in Requests,
         \/ \E s \in Sessions : F!ReadCredential(r, s)
         \/ \E c \in F!StepsOfTime : F!VerifyCode(r, c) \/ F!ReadPending(r, c)
         \/ \E n \in F!Rows : F!FindRecovery(r, n)
         \/ F!Raise(r) \/ F!Begin(r) \/ F!DeletePending(r)
  PROVE  SecondFactorInv'
<1>1. /\ F!TypeOK /\ CheckingInv /\ checking[r] \in F!Request
      /\ tries \in [Sessions -> 0..MaxTries] /\ raised \in SUBSET Sessions
      /\ MaxEnrolments \in Nat /\ MaxStep \in Nat /\ MaxTries \in Nat
  BY SecondFactorRows, AccountsAssumption DEF SecondFactorInv, F!TypeOK
<1>2. ASSUME NEW s \in Sessions, F!ReadCredential(r, s) PROVE SecondFactorInv'
  <2>1. PICK n : n = F!Latest(TRUE)  OBVIOUS
  <2>2. PICK q : q = [checking[r] EXCEPT !.at = "verify", !.session = s, !.row = n,
                                         !.last = codes[n].last]
    OBVIOUS
  <2>3. n \in DOMAIN codes /\ codes[n].confirmed /\ n \in 0..MaxEnrolments
    BY <1>1, <1>2, <2>1, LatestIs DEF F!ReadCredential
  <2>4. codes[n].last \in 0..MaxStep + 1  BY <1>1, <2>3, SecondFactorRows DEF F!Credential
  <2>5. q \in F!Request /\ q.at = "verify" /\ q.row = n  BY <1>1, <2>2, <2>3, <2>4 DEF F!Request
  <2>6. /\ checking' = [checking EXCEPT ![r] = q]
        /\ UNCHANGED <<codes, recovery, enrolled, step, accepted, overwrote>>
    BY <1>2, <2>1, <2>2 DEF F!ReadCredential
  <2>7. tries' \in [Sessions -> 0..MaxTries] /\ raised' \in SUBSET Sessions
    <3>1. tries[s] + 1 \in 0..MaxTries
      <4>1. tries[s] \in 0..MaxTries /\ tries[s] < MaxTries  BY <1>1, <1>2 DEF F!ReadCredential
      <4> QED BY <1>1, <4>1
    <3> QED BY <1>1, <1>2, <3>1 DEF F!ReadCredential
  <2> QED BY <2>3, <2>5, <2>6, <2>7, ReadsKeep
<1>3. ASSUME NEW c \in F!StepsOfTime, F!VerifyCode(r, c) PROVE SecondFactorInv'
  <2>1. UNCHANGED <<codes, recovery, enrolled, step, tries, raised, accepted, overwrote>>
    BY <1>3 DEF F!VerifyCode
  <2>2. CASE F!Verifies(c, checking[r].last)
    <3>1. PICK q : q = [checking[r] EXCEPT !.at = "write", !.code = c]  OBVIOUS
    <3>2. /\ q \in F!Request /\ q.at = "write" /\ q.row = checking[r].row
          /\ q.code = c /\ q.last = checking[r].last
      BY <1>1, <3>1 DEF F!Request, F!StepsOfTime
    <3>3. c + 1 > checking[r].last  BY <2>2 DEF F!Verifies
    <3>4. checking[r].row \in DOMAIN codes /\ codes[checking[r].row].confirmed
      BY <1>1, <1>3 DEF CheckingInv, F!VerifyCode, F!At
    <3>5. checking' = [checking EXCEPT ![r] = q]  BY <1>3, <2>2, <3>1 DEF F!VerifyCode
    <3> QED BY <1>1, <2>1, <3>2, <3>3, <3>4, <3>5, ReadsKeep
  <2>3. CASE ~F!Verifies(c, checking[r].last)
    <3>1. F!Goes(r, "recover")  BY <1>3, <2>3 DEF F!VerifyCode
    <3>2. PICK q \in F!Request : checking' = [checking EXCEPT ![r] = q] /\ q.at = "recover"
      BY <1>1, <3>1, ChecksIs
    <3> QED BY <1>1, <2>1, <3>2, ReadsKeep
  <2> QED BY <2>2, <2>3
<1>4. ASSUME NEW c \in F!StepsOfTime, F!ReadPending(r, c) PROVE SecondFactorInv'
  <2>1. PICK n : n = F!Latest(FALSE)  OBVIOUS
  <2>2. PICK q : q = [checking[r] EXCEPT !.at = "confirm", !.row = n, !.code = c]  OBVIOUS
  <2>3. n \in DOMAIN codes /\ n \in 0..MaxEnrolments
    BY <1>1, <1>4, <2>1, LatestIs DEF F!ReadPending
  <2>4. q \in F!Request /\ q.at = "confirm" /\ q.row = n
    BY <1>1, <2>2, <2>3 DEF F!Request, F!StepsOfTime
  <2>5. /\ checking' = [checking EXCEPT ![r] = q]
        /\ UNCHANGED <<codes, recovery, enrolled, step, tries, raised, accepted, overwrote>>
    BY <1>4, <2>1, <2>2 DEF F!ReadPending
  <2> QED BY <1>1, <2>3, <2>4, <2>5, ReadsKeep
<1>5. ASSUME NEW n \in F!Rows, F!FindRecovery(r, n) PROVE SecondFactorInv'
  <2>1. /\ UNCHANGED <<codes, recovery, enrolled, step, tries, raised, accepted, overwrote>>
        /\ n \in DOMAIN codes
    BY <1>1, <1>5, SecondFactorRows DEF F!FindRecovery
  <2>2. CASE recovery[n] = "unused"
    <3>1. PICK q : q = [checking[r] EXCEPT !.at = "consume", !.row = n, !.last = 0]  OBVIOUS
    <3>2. q \in F!Request /\ q.at = "consume" /\ q.row = n
      <4>1. 0 \in 0..MaxStep + 1 /\ n \in 0..MaxEnrolments  BY <1>1 DEF F!Rows
      <4> QED BY <1>1, <3>1, <4>1 DEF F!Request
    <3>3. checking' = [checking EXCEPT ![r] = q]  BY <1>5, <2>2, <3>1 DEF F!FindRecovery
    <3> QED BY <1>1, <2>1, <3>2, <3>3, ReadsKeep
  <2>3. CASE recovery[n] # "unused"
    <3>1. F!Ends(r)  BY <1>5, <2>3 DEF F!FindRecovery
    <3>2. PICK q \in F!Request : checking' = [checking EXCEPT ![r] = q] /\ q.at = "idle"
      BY <1>1, <3>1, ChecksIs
    <3> QED BY <1>1, <2>1, <3>2, ReadsKeep
  <2> QED BY <2>2, <2>3
<1>6. CASE F!Raise(r)
  <2>1. /\ UNCHANGED <<codes, recovery, enrolled, step, tries, accepted, overwrote>>
        /\ F!Ends(r) /\ raised' \in SUBSET Sessions
    BY <1>1, <1>6 DEF F!Raise, F!Request
  <2>2. PICK q \in F!Request : checking' = [checking EXCEPT ![r] = q] /\ q.at = "idle"
    BY <1>1, <2>1, ChecksIs
  <2> QED BY <1>1, <2>1, <2>2, ReadsKeep
<1>7. CASE F!Begin(r)
  <2>1. /\ UNCHANGED <<codes, recovery, enrolled, step, tries, raised, accepted, overwrote>>
        /\ F!Goes(r, "begin")
    BY <1>7 DEF F!Begin
  <2>2. PICK q \in F!Request : checking' = [checking EXCEPT ![r] = q] /\ q.at = "begin"
    BY <1>1, <2>1, ChecksIs
  <2> QED BY <1>1, <2>1, <2>2, ReadsKeep
<1>8. CASE F!DeletePending(r)
  <2>1. PICK q : q = [checking[r] EXCEPT !.at = "insert", !.row = Len(codes)]  OBVIOUS
  <2>2. q \in F!Request /\ q.at = "insert"
    <3>1. Len(codes) \in 0..MaxEnrolments  BY <1>1, SecondFactorRows
    <3> QED BY <1>1, <2>1, <3>1 DEF F!Request
  <2>3. /\ checking' = [checking EXCEPT ![r] = q]
        /\ UNCHANGED <<codes, recovery, enrolled, step, tries, raised, accepted, overwrote>>
    BY <1>1, <1>8, <2>1 DEF F!DeletePending, F!TypeOK
  <2> QED BY <1>1, <2>2, <2>3, ReadsKeep
<1> QED BY <1>2, <1>3, <1>4, <1>5, <1>6, <1>7, <1>8

\* A credential's row is written: the others are as they were.
LEMMA RowWritten ==
  ASSUME F!TypeOK, NEW n \in DOMAIN codes, NEW x \in F!Credential, codes' = [codes EXCEPT ![n] = x]
  PROVE  /\ codes' \in Seq(F!Credential) /\ Len(codes') = Len(codes) /\ DOMAIN codes' = DOMAIN codes
         /\ codes'[n] = x /\ \A m \in DOMAIN codes : m # n => codes'[m] = codes[m]
<1>1. codes \in Seq(F!Credential) /\ DOMAIN codes = 1..Len(codes)  BY SecondFactorRows
<1>2. /\ codes' = [m \in DOMAIN codes |-> codes'[m]] /\ codes'[n] = x
      /\ \A m \in DOMAIN codes : m # n => codes'[m] = codes[m]
  BY <1>1
<1>3. \A m \in DOMAIN codes : codes'[m] \in F!Credential  BY <1>2, SecondFactorRows
<1> QED BY <1>1, <1>2, <1>3, RewrittenSeq

LEMMA WriteCounterKeeps ==
  ASSUME SecondFactorInv, NEW r \in Requests, F!WriteCounter(r)
  PROVE  SecondFactorInv'
<1>1. F!TypeOK /\ CheckingInv /\ CodesInv  BY DEF SecondFactorInv
<1>2. PICK n, c : n = checking[r].row /\ c = checking[r].code  OBVIOUS
<1>3. /\ n \in DOMAIN codes /\ codes[n].confirmed /\ c + 1 > checking[r].last
      /\ n \in F!Rows /\ c \in F!StepsOfTime /\ c \in Codes /\ c \in 0..MaxStep /\ MaxStep \in Nat
      /\ codes[n] \in F!Credential
  BY <1>1, <1>2, SecondFactorRows
     DEF CheckingInv, F!WriteCounter, F!At, F!Request, F!StepsOfTime
<1>4. PICK x : x = [codes[n] EXCEPT !.last = c + 1]  OBVIOUS
<1>5. x \in F!Credential /\ x.last = c + 1 /\ x.confirmed = TRUE /\ x.exists = codes[n].exists
  BY <1>3, <1>4 DEF F!Credential
<1>6. /\ codes' = [codes EXCEPT ![n] = x] /\ F!Accepts(n, c) /\ F!Goes(r, "raise")
      /\ overwrote' = (overwrote \/ codes[n].last # checking[r].last)
      /\ UNCHANGED <<recovery, enrolled, step, tries, raised>>
  BY <1>2, <1>4 DEF F!WriteCounter
<1>7. /\ codes' \in Seq(F!Credential) /\ Len(codes') = Len(codes) /\ DOMAIN codes' = DOMAIN codes
      /\ codes'[n] = x /\ \A m \in DOMAIN codes : m # n => codes'[m] = codes[m]
  BY <1>1, <1>3, <1>5, <1>6, RowWritten
<1>8. /\ accepted' \in [F!Rows \X Codes -> Nat]
      /\ accepted'[<<n, c>>] = accepted[<<n, c>>] + 1
      /\ \A m \in F!Rows, d \in Codes :
            m # n \/ d # c => accepted'[<<m, d>>] = accepted[<<m, d>>]
  BY <1>1, <1>3, <1>6, AcceptsIs
<1>9. PICK q \in F!Request : checking' = [checking EXCEPT ![r] = q] /\ q.at = "raise"
  BY <1>1, <1>6, ChecksIs
<1>10. F!TypeOK'
  <2>1. checking' \in [Requests -> F!Request]  BY <1>1, <1>9, CheckingIs
  <2>2. overwrote' \in BOOLEAN  BY <1>1, <1>6 DEF F!TypeOK
  <2> QED BY <1>1, <1>6, <1>7, <1>8, <2>1, <2>2 DEF F!TypeOK, Codes
<1>11. CheckingInv'
  BY <1>1, <1>5, <1>7, <1>9, OthersCheck
<1>12. CodesInv'
  <2> SUFFICES ASSUME ~overwrote' PROVE CodesInv'  BY DEF CodesInv
  <2>1. ~overwrote /\ codes[n].last = checking[r].last  BY <1>1, <1>6 DEF F!TypeOK
  <2>2. codes[n].last \in Nat /\ c + 1 > codes[n].last  BY <1>3, <2>1 DEF F!Credential
  <2>3. ASSUME NEW m \in DOMAIN codes
        PROVE  /\ \A d \in F!StepsOfTime :
                     /\ accepted'[<<m, d>>] <= 1
                     /\ accepted'[<<m, d>>] # 0 => codes'[m].last >= d + 1
               /\ ~codes'[m].confirmed => codes'[m].last = 0
               /\ accepted'[<<m, F!RecoveryCode>>] <= 1
               /\ recovery[m] = "unused" => accepted'[<<m, F!RecoveryCode>>] = 0
    <3>1. /\ \A d \in F!StepsOfTime :
                /\ accepted[<<m, d>>] <= 1
                /\ accepted[<<m, d>>] # 0 => codes[m].last >= d + 1
          /\ ~codes[m].confirmed => codes[m].last = 0
          /\ accepted[<<m, F!RecoveryCode>>] <= 1
          /\ recovery[m] = "unused" => accepted[<<m, F!RecoveryCode>>] = 0
      BY <1>1, <2>1 DEF CodesInv
    <3>2. accepted'[<<m, F!RecoveryCode>>] = accepted[<<m, F!RecoveryCode>>]
      BY <1>1, <1>3, <1>8, SecondFactorRows
    <3>3. ~codes'[m].confirmed => codes'[m].last = 0  BY <1>5, <1>7, <3>1
    <3>4. ASSUME NEW d \in F!StepsOfTime
          PROVE  accepted'[<<m, d>>] <= 1 /\ (accepted'[<<m, d>>] # 0 => codes'[m].last >= d + 1)
      <4>1. d \in Nat /\ d \in Codes /\ m \in F!Rows /\ accepted[<<m, d>>] \in Nat
        BY <1>1, SecondFactorRows
      <4>2. CASE m = n /\ d = c
        <5>1. accepted[<<m, d>>] = 0  BY <2>2, <3>1, <4>1, <4>2
        <5> QED BY <1>5, <1>7, <1>8, <4>1, <4>2, <5>1
      <4>3. CASE m = n /\ d # c
        <5>1. accepted'[<<m, d>>] = accepted[<<m, d>>]  BY <1>8, <4>1, <4>3
        <5>2. codes'[m].last = c + 1  BY <1>5, <1>7, <4>3
        <5>3. accepted[<<m, d>>] # 0 => codes[n].last >= d + 1  BY <3>1, <4>3
        <5> QED BY <1>3, <2>2, <3>1, <4>1, <5>1, <5>2, <5>3
      <4>4. CASE m # n  BY <1>7, <1>8, <3>1, <4>1, <4>4
      <4> QED BY <4>2, <4>3, <4>4
    <3> QED BY <3>1, <3>2, <3>3, <3>4
  <2>4. \A m \in F!Rows, d \in Codes : m \notin DOMAIN codes => accepted'[<<m, d>>] = 0
    BY <1>1, <1>3, <1>8, <2>1 DEF CodesInv
  <2>5. enrolled => \E m \in DOMAIN codes : codes'[m].exists /\ codes'[m].confirmed
    BY <1>1, <1>5, <1>7, <2>1 DEF CodesInv
  <2> QED BY <1>6, <1>7, <2>3, <2>4, <2>5 DEF CodesInv
<1> QED BY <1>10, <1>11, <1>12 DEF SecondFactorInv

LEMMA ConsumeKeeps ==
  ASSUME SecondFactorInv, NEW r \in Requests, F!ConsumeRecovery(r)
  PROVE  SecondFactorInv'
<1>1. F!TypeOK /\ CheckingInv /\ CodesInv  BY DEF SecondFactorInv
<1>2. PICK n, c : n = checking[r].row /\ c = F!RecoveryCode  OBVIOUS
<1>3. n \in DOMAIN codes /\ n \in DOMAIN recovery /\ n \in F!Rows /\ c \in Codes
  BY <1>1, <1>2, SecondFactorRows DEF CheckingInv, F!ConsumeRecovery, F!At
<1>4. /\ recovery' = [recovery EXCEPT ![n] = IF @ = "deleted" THEN @ ELSE "consumed"]
      /\ F!Accepts(n, c) /\ F!Goes(r, "raise")
      /\ overwrote' = (overwrote \/ recovery[n] # "unused")
      /\ UNCHANGED <<codes, enrolled, step, tries, raised>>
  BY <1>2 DEF F!ConsumeRecovery
<1>5. /\ DOMAIN recovery' = DOMAIN codes /\ recovery'[n] \in {"consumed", "deleted"}
      /\ \A m \in DOMAIN codes : m # n => recovery'[m] = recovery[m]
  BY <1>1, <1>3, <1>4, SecondFactorRows
<1>6. /\ accepted' \in [F!Rows \X Codes -> Nat]
      /\ accepted'[<<n, c>>] = accepted[<<n, c>>] + 1
      /\ \A m \in F!Rows, d \in Codes :
            m # n \/ d # c => accepted'[<<m, d>>] = accepted[<<m, d>>]
  BY <1>1, <1>3, <1>4, AcceptsIs
<1>7. PICK q \in F!Request : checking' = [checking EXCEPT ![r] = q] /\ q.at = "raise"
  BY <1>1, <1>4, ChecksIs
<1>8. F!TypeOK'
  <2>1. checking' \in [Requests -> F!Request]  BY <1>1, <1>7, CheckingIs
  <2>2. overwrote' \in BOOLEAN  BY <1>1, <1>4 DEF F!TypeOK
  <2>3. \A m \in DOMAIN recovery' : recovery'[m] \in {"unused", "consumed", "deleted"}
    BY <1>1, <1>5, SecondFactorRows
  <2> QED BY <1>1, <1>4, <1>5, <1>6, <2>1, <2>2, <2>3 DEF F!TypeOK, Codes
<1>9. CheckingInv'  BY <1>1, <1>4, <1>7, OthersCheck
<1>10. CodesInv'
  <2> SUFFICES ASSUME ~overwrote' PROVE CodesInv'  BY DEF CodesInv
  <2>1. ~overwrote /\ recovery[n] = "unused"  BY <1>1, <1>4 DEF F!TypeOK
  <2>2. ASSUME NEW m \in DOMAIN codes
        PROVE  /\ \A d \in F!StepsOfTime :
                     /\ accepted'[<<m, d>>] <= 1
                     /\ accepted'[<<m, d>>] # 0 => codes[m].last >= d + 1
               /\ ~codes[m].confirmed => codes[m].last = 0
               /\ accepted'[<<m, F!RecoveryCode>>] <= 1
               /\ recovery'[m] = "unused" => accepted'[<<m, F!RecoveryCode>>] = 0
    <3>1. /\ \A d \in F!StepsOfTime :
                /\ accepted[<<m, d>>] <= 1
                /\ accepted[<<m, d>>] # 0 => codes[m].last >= d + 1
          /\ ~codes[m].confirmed => codes[m].last = 0
          /\ accepted[<<m, F!RecoveryCode>>] <= 1
          /\ recovery[m] = "unused" => accepted[<<m, F!RecoveryCode>>] = 0
      BY <1>1, <2>1 DEF CodesInv
    <3>2. m \in F!Rows /\ \A d \in F!StepsOfTime : d \in Codes /\ d # c
      BY <1>1, <1>2, SecondFactorRows
    <3>3. \A d \in F!StepsOfTime : accepted'[<<m, d>>] = accepted[<<m, d>>]  BY <1>6, <3>2
    <3>4. CASE m = n
      <4>1. accepted[<<m, c>>] = 0  BY <1>2, <2>1, <3>1, <3>4
      <4>2. accepted'[<<m, F!RecoveryCode>>] = 1  BY <1>2, <1>6, <3>4, <4>1
      <4> QED BY <1>5, <3>1, <3>3, <3>4, <4>2
    <3>5. CASE m # n
      <4>1. accepted'[<<m, F!RecoveryCode>>] = accepted[<<m, F!RecoveryCode>>]
        BY <1>2, <1>3, <1>6, <3>2, <3>5
      <4> QED BY <1>5, <3>1, <3>3, <3>5, <4>1
    <3> QED BY <3>4, <3>5
  <2>3. \A m \in F!Rows, d \in Codes : m \notin DOMAIN codes => accepted'[<<m, d>>] = 0
    BY <1>1, <1>3, <1>6, <2>1 DEF CodesInv
  <2> QED BY <1>1, <1>4, <2>1, <2>2, <2>3 DEF CodesInv
<1> QED BY <1>8, <1>9, <1>10 DEF SecondFactorInv

LEMMA InsertPendingKeeps ==
  ASSUME SecondFactorInv, NEW r \in Requests, F!InsertPending(r)
  PROVE  SecondFactorInv'
<1>1. F!TypeOK /\ CheckingInv /\ CodesInv  BY DEF SecondFactorInv
<1>2. PICK kept : kept = [n \in DOMAIN codes |->
                             IF n <= checking[r].row
                             THEN [codes[n] EXCEPT !.exists = F!Kept(n)] ELSE codes[n]]
  OBVIOUS
<1>3. PICK new : new = [confirmed |-> FALSE, last |-> 0, exists |-> TRUE]  OBVIOUS
<1>4. PICK gone : gone = [n \in DOMAIN recovery |->
                             IF n <= checking[r].row THEN "deleted" ELSE recovery[n]]
  OBVIOUS
<1>5. /\ Len(codes) < MaxEnrolments /\ codes' = Append(kept, new)
      /\ recovery' = Append(gone, "unused") /\ F!Ends(r)
      /\ UNCHANGED <<enrolled, step, tries, raised, accepted, overwrote>>
  BY <1>2, <1>3, <1>4 DEF F!InsertPending
<1>6. new \in F!Credential /\ ~new.confirmed /\ new.last = 0
  <2>1. 0 \in 0..MaxStep + 1  BY <1>1, SecondFactorRows
  <2> QED BY <1>3, <2>1 DEF F!Credential
<1>7. \A n \in DOMAIN codes : /\ kept[n] \in F!Credential
                              /\ kept[n].confirmed = codes[n].confirmed
                              /\ kept[n].last = codes[n].last
                              /\ F!Kept(n) => kept[n].exists
  <2> SUFFICES ASSUME NEW n \in DOMAIN codes
               PROVE  /\ kept[n] \in F!Credential
                      /\ kept[n].confirmed = codes[n].confirmed
                      /\ kept[n].last = codes[n].last
                      /\ F!Kept(n) => kept[n].exists
    OBVIOUS
  <2>1. codes[n] \in F!Credential  BY <1>1, SecondFactorRows
  <2>2. F!Kept(n) \in BOOLEAN  BY <2>1 DEF F!Kept, F!Credential
  <2>3. CASE n <= checking[r].row
    <3>1. kept[n] = [codes[n] EXCEPT !.exists = F!Kept(n)]  BY <1>2, <2>3
    <3> QED BY <2>1, <2>2, <3>1 DEF F!Credential
  <2>4. CASE ~(n <= checking[r].row)
    <3>1. kept[n] = codes[n]  BY <1>2, <2>4
    <3> QED BY <2>1, <3>1 DEF F!Kept
  <2> QED BY <2>3, <2>4
<1>8. kept \in Seq(F!Credential) /\ Len(kept) = Len(codes) /\ DOMAIN kept = DOMAIN codes
  <2>1. kept = [n \in DOMAIN codes |-> kept[n]]  BY <1>2
  <2> QED BY <1>1, <1>7, <2>1, SecondFactorRows, RewrittenSeq
<1> DEFINE States == {"unused", "consumed", "deleted"}
<1>9. gone \in Seq(States) /\ Len(gone) = Len(codes) /\ DOMAIN gone = DOMAIN codes
  <2>1. DOMAIN recovery = DOMAIN codes /\ codes \in Seq(F!Credential)  BY <1>1, SecondFactorRows
  <2>2. /\ gone = [n \in DOMAIN codes |-> gone[n]]
        /\ \A n \in DOMAIN codes : gone[n] \in {"deleted", recovery[n]}
    BY <1>4, <2>1
  <2>3. \A n \in DOMAIN codes : gone[n] \in States  BY <1>1, <2>2, SecondFactorRows
  <2> QED BY <2>1, <2>2, <2>3, RewrittenSeq
<1>10. PICK n : n = Len(codes) + 1  OBVIOUS
<1>11. /\ codes' \in Seq(F!Credential) /\ Len(codes') = Len(codes) + 1 /\ codes'[n] = new
       /\ DOMAIN codes' = DOMAIN codes \cup {n} /\ n \notin DOMAIN codes
       /\ \A m \in DOMAIN codes : codes'[m] = kept[m]
  BY <1>5, <1>6, <1>8, <1>10, AppendedSeq
<1>12. /\ DOMAIN recovery' = DOMAIN codes \cup {n} /\ recovery'[n] = "unused"
       /\ \A m \in DOMAIN codes : recovery'[m] \in {"deleted", recovery[m]}
  <2>1. "unused" \in States  OBVIOUS
  <2>2. /\ DOMAIN recovery' = DOMAIN gone \cup {Len(gone) + 1}
        /\ recovery'[Len(gone) + 1] = "unused"
        /\ \A m \in DOMAIN gone : recovery'[m] = gone[m]
    BY <1>5, <1>9, <2>1, AppendedSeq
  <2>3. \A m \in DOMAIN codes : gone[m] \in {"deleted", recovery[m]}
    BY <1>1, <1>4, SecondFactorRows
  <2> QED BY <1>9, <1>10, <2>2, <2>3
<1>13. n \in F!Rows  BY <1>1, <1>5, <1>10, SecondFactorRows DEF F!Rows
<1>14. PICK q \in F!Request : checking' = [checking EXCEPT ![r] = q] /\ q.at = "idle"
  BY <1>1, <1>5, ChecksIs
<1>15. F!TypeOK'
  <2>1. checking' \in [Requests -> F!Request]  BY <1>1, <1>14, CheckingIs
  <2>2. Len(codes') <= MaxEnrolments  BY <1>1, <1>5, <1>11, SecondFactorRows
  <2>3. \A m \in DOMAIN recovery' : recovery'[m] \in {"unused", "consumed", "deleted"}
    BY <1>1, <1>12, SecondFactorRows
  <2> QED BY <1>1, <1>5, <1>11, <1>12, <2>1, <2>2, <2>3 DEF F!TypeOK
<1>16. CheckingInv'
  <2>1. \A m \in DOMAIN codes : codes[m].confirmed => codes'[m].confirmed  BY <1>7, <1>11
  <2> QED BY <1>1, <1>11, <1>14, <2>1, OthersCheck
<1>17. CodesInv'
  <2> SUFFICES ASSUME ~overwrote' PROVE CodesInv'  BY DEF CodesInv
  <2>1. ~overwrote  BY <1>5
  <2>2. \A c \in Codes : accepted[<<n, c>>] = 0  BY <1>1, <1>11, <1>13, <2>1 DEF CodesInv
  <2>3. ASSUME NEW m \in DOMAIN codes'
        PROVE  /\ \A d \in F!StepsOfTime :
                     /\ accepted[<<m, d>>] <= 1
                     /\ accepted[<<m, d>>] # 0 => codes'[m].last >= d + 1
               /\ ~codes'[m].confirmed => codes'[m].last = 0
               /\ accepted[<<m, F!RecoveryCode>>] <= 1
               /\ recovery'[m] = "unused" => accepted[<<m, F!RecoveryCode>>] = 0
    <3>1. CASE m = n  BY <1>1, <1>6, <1>11, <2>2, <3>1, SecondFactorRows
    <3>2. CASE m \in DOMAIN codes
      <4>1. codes'[m].last = codes[m].last /\ codes'[m].confirmed = codes[m].confirmed
        BY <1>7, <1>11, <3>2
      <4>2. recovery'[m] = "unused" => recovery[m] = "unused"  BY <1>12, <3>2
      <4> QED BY <1>1, <2>1, <3>2, <4>1, <4>2 DEF CodesInv
    <3> QED BY <1>11, <3>1, <3>2
  <2>4. \A m \in F!Rows, d \in Codes : m \notin DOMAIN codes' => accepted[<<m, d>>] = 0
    BY <1>1, <1>11, <2>1 DEF CodesInv
  <2>5. enrolled => \E m \in DOMAIN codes' : codes'[m].exists /\ codes'[m].confirmed
    <3>1. HAVE enrolled
    <3>2. PICK m \in DOMAIN codes : codes[m].exists /\ codes[m].confirmed
      BY <1>1, <2>1, <3>1 DEF CodesInv
    <3>3. F!Kept(m)  BY <3>2 DEF F!Kept
    <3> QED BY <1>7, <1>11, <3>2, <3>3
  <2> QED BY <1>5, <2>3, <2>4, <2>5 DEF CodesInv
<1> QED BY <1>15, <1>16, <1>17 DEF SecondFactorInv

LEMMA ConfirmKeeps ==
  ASSUME SecondFactorInv, NEW r \in Requests, F!Confirm(r)
  PROVE  SecondFactorInv'
<1>1. F!TypeOK /\ CheckingInv /\ CodesInv  BY DEF SecondFactorInv
<1>2. PICK n, c : n = checking[r].row /\ c = checking[r].code  OBVIOUS
<1>3. /\ n \in DOMAIN codes /\ n \in F!Rows /\ codes[n] \in F!Credential
      /\ c \in F!StepsOfTime /\ c \in Codes /\ c \in 0..MaxStep /\ MaxStep \in Nat
  BY <1>1, <1>2, SecondFactorRows DEF CheckingInv, F!Confirm, F!At, F!Request, F!StepsOfTime
<1>4. PICK x : x = [codes[n] EXCEPT !.confirmed = TRUE, !.last = c + 1]  OBVIOUS
<1>5. x \in F!Credential /\ x.last = c + 1 /\ x.confirmed = TRUE /\ x.exists = codes[n].exists
  <2>1. c + 1 \in 0..MaxStep + 1  BY <1>3
  <2> QED BY <1>3, <1>4, <2>1 DEF F!Credential
<1>6. /\ codes' = [codes EXCEPT ![n] = x]
      /\ F!Accepts(n, c) /\ F!Ends(r) /\ enrolled' = TRUE
      /\ overwrote' = (overwrote \/ codes[n].confirmed \/ ~codes[n].exists)
      /\ UNCHANGED <<recovery, step, tries, raised>>
  <2>1. codes' = [codes EXCEPT ![n].confirmed = TRUE, ![n].last = c + 1]
    BY <1>2 DEF F!Confirm, F!Confirmed
  <2>2. codes' = [codes EXCEPT ![n] = x]  BY <1>3, <1>4, <2>1
  <2> QED BY <1>2, <2>2 DEF F!Confirm
<1>7. /\ codes' \in Seq(F!Credential) /\ Len(codes') = Len(codes) /\ DOMAIN codes' = DOMAIN codes
      /\ codes'[n] = x /\ \A m \in DOMAIN codes : m # n => codes'[m] = codes[m]
  BY <1>1, <1>3, <1>5, <1>6, RowWritten
<1>8. /\ accepted' \in [F!Rows \X Codes -> Nat]
      /\ accepted'[<<n, c>>] = accepted[<<n, c>>] + 1
      /\ \A m \in F!Rows, d \in Codes :
            m # n \/ d # c => accepted'[<<m, d>>] = accepted[<<m, d>>]
  BY <1>1, <1>3, <1>6, AcceptsIs
<1>9. PICK q \in F!Request : checking' = [checking EXCEPT ![r] = q] /\ q.at = "idle"
  BY <1>1, <1>6, ChecksIs
<1>10. F!TypeOK'
  <2>1. checking' \in [Requests -> F!Request]  BY <1>1, <1>9, CheckingIs
  <2>2. overwrote' \in BOOLEAN  BY <1>1, <1>3, <1>6 DEF F!TypeOK, F!Credential
  <2> QED BY <1>1, <1>6, <1>7, <1>8, <2>1, <2>2 DEF F!TypeOK, Codes
<1>11. CheckingInv'
  BY <1>1, <1>5, <1>7, <1>9, OthersCheck
<1>12. CodesInv'
  <2> SUFFICES ASSUME ~overwrote' PROVE CodesInv'  BY DEF CodesInv
  <2>1. ~overwrote /\ ~codes[n].confirmed /\ codes[n].exists  BY <1>6
  <2>2. codes[n].last = 0  BY <1>1, <1>3, <2>1 DEF CodesInv
  <2>3. \A d \in F!StepsOfTime : accepted[<<n, d>>] = 0
    <3>1. ASSUME NEW d \in F!StepsOfTime PROVE accepted[<<n, d>>] = 0
      <4>1. accepted[<<n, d>>] # 0 => 0 >= d + 1  BY <1>1, <1>3, <2>1, <2>2 DEF CodesInv
      <4> QED BY <1>1, <4>1, SecondFactorRows
    <3> QED BY <3>1
  <2>4. ASSUME NEW m \in DOMAIN codes
        PROVE  /\ \A d \in F!StepsOfTime :
                     /\ accepted'[<<m, d>>] <= 1
                     /\ accepted'[<<m, d>>] # 0 => codes'[m].last >= d + 1
               /\ ~codes'[m].confirmed => codes'[m].last = 0
               /\ accepted'[<<m, F!RecoveryCode>>] <= 1
               /\ recovery[m] = "unused" => accepted'[<<m, F!RecoveryCode>>] = 0
    <3>1. /\ \A d \in F!StepsOfTime :
                /\ accepted[<<m, d>>] <= 1
                /\ accepted[<<m, d>>] # 0 => codes[m].last >= d + 1
          /\ ~codes[m].confirmed => codes[m].last = 0
          /\ accepted[<<m, F!RecoveryCode>>] <= 1
          /\ recovery[m] = "unused" => accepted[<<m, F!RecoveryCode>>] = 0
      BY <1>1, <2>1 DEF CodesInv
    <3>2. accepted'[<<m, F!RecoveryCode>>] = accepted[<<m, F!RecoveryCode>>]
      BY <1>1, <1>3, <1>8, SecondFactorRows
    <3>3. ~codes'[m].confirmed => codes'[m].last = 0  BY <1>5, <1>7, <3>1
    <3>4. ASSUME NEW d \in F!StepsOfTime
          PROVE  accepted'[<<m, d>>] <= 1 /\ (accepted'[<<m, d>>] # 0 => codes'[m].last >= d + 1)
      <4>1. d \in Nat /\ d \in Codes /\ m \in F!Rows /\ accepted[<<m, d>>] \in Nat
        BY <1>1, SecondFactorRows
      <4>2. CASE m = n /\ d = c
        <5>1. accepted'[<<m, d>>] = 1  BY <1>8, <2>3, <4>2
        <5>2. codes'[m].last = d + 1  BY <1>5, <1>7, <4>2
        <5> QED BY <4>1, <5>1, <5>2
      <4>3. CASE m = n /\ d # c
        <5>1. accepted'[<<m, d>>] = 0  BY <1>8, <2>3, <4>1, <4>3
        <5> QED BY <5>1
      <4>4. CASE m # n  BY <1>7, <1>8, <3>1, <4>1, <4>4
      <4> QED BY <4>2, <4>3, <4>4
    <3> QED BY <3>1, <3>2, <3>3, <3>4
  <2>5. \A m \in F!Rows, d \in Codes : m \notin DOMAIN codes => accepted'[<<m, d>>] = 0
    BY <1>1, <1>3, <1>8, <2>1 DEF CodesInv
  <2>6. \E m \in DOMAIN codes : codes'[m].exists /\ codes'[m].confirmed
    BY <1>3, <1>5, <1>7, <2>1
  <2> QED BY <1>6, <1>7, <2>4, <2>5, <2>6 DEF CodesInv
<1> QED BY <1>10, <1>11, <1>12 DEF SecondFactorInv

LEMMA SecondFactorWorld ==
  ASSUME SecondFactorInv, F!Tick \/ \E s \in Sessions : F!StepUpEnds(s)
  PROVE  SecondFactorInv'
<1>1. UNCHANGED <<codes, recovery, enrolled, checking, accepted, overwrote, tries>>
  BY DEF F!Tick, F!StepUpEnds
<1>2. F!TypeOK /\ CheckingInv /\ CodesInv  BY DEF SecondFactorInv
<1>3. step' \in F!StepsOfTime /\ raised' \in SUBSET Sessions
  BY <1>2, AccountsAssumption DEF F!Tick, F!StepUpEnds, F!TypeOK, F!StepsOfTime
<1>4. F!TypeOK'  BY <1>1, <1>2, <1>3 DEF F!TypeOK
<1> QED BY <1>1, <1>2, <1>4 DEF SecondFactorInv, CheckingInv, CodesInv

LEMMA SecondFactorStep ==
  ASSUME SecondFactorInv, [F!Next]_(F!vars)
  PROVE  SecondFactorInv'
<1>1. CASE UNCHANGED F!vars
  BY <1>1 DEF F!vars, SecondFactorInv, F!TypeOK, CheckingInv, CodesInv
<1>2. ASSUME NEW r \in Requests,
             \/ \E s \in Sessions : F!ReadCredential(r, s)
             \/ \E c \in F!StepsOfTime : F!VerifyCode(r, c) \/ F!ReadPending(r, c)
             \/ \E n \in F!Rows : F!FindRecovery(r, n)
             \/ F!Raise(r) \/ F!Begin(r) \/ F!DeletePending(r)
      PROVE  SecondFactorInv'
  BY <1>2, SecondFactorReads
<1>3. ASSUME NEW r \in Requests,
             F!WriteCounter(r) \/ F!ConsumeRecovery(r) \/ F!InsertPending(r) \/ F!Confirm(r)
      PROVE  SecondFactorInv'
  BY <1>3, WriteCounterKeeps, ConsumeKeeps, InsertPendingKeeps, ConfirmKeeps
<1> QED BY <1>1, <1>2, <1>3, SecondFactorWorld DEF F!Next

LEMMA SecondFactorStarts == F!Init => SecondFactorInv
<1> SUFFICES ASSUME F!Init PROVE SecondFactorInv  OBVIOUS
<1>1. /\ MaxEnrolments \in Nat /\ MaxStep \in Nat /\ MaxTries \in Nat
      /\ codes = <<>> /\ recovery = <<>> /\ enrolled = FALSE
  BY AccountsAssumption DEF F!Init
<1>2. PICK s \in Sessions :
         checking = [r \in Requests |->
                        [at |-> "idle", session |-> s, row |-> 0, last |-> 0, code |-> 0]]
  BY DEF F!Init
<1>3. [at |-> "idle", session |-> s, row |-> 0, last |-> 0, code |-> 0] \in F!Request
  BY <1>1 DEF F!Request
<1>4. checking \in [Requests -> F!Request] /\ \A r \in Requests : checking[r].at = "idle"
  BY <1>2, <1>3
<1>5. /\ accepted \in [F!Rows \X (F!StepsOfTime \cup {F!RecoveryCode}) -> Nat]
      /\ \A n \in F!Rows, c \in Codes : accepted[<<n, c>>] = 0
  BY DEF F!Init, Codes
<1>6. F!TypeOK
  <2>1. 0 \in F!StepsOfTime /\ 0 \in 0..MaxTries  BY <1>1 DEF F!StepsOfTime
  <2>2. codes \in Seq(F!Credential) /\ Len(codes) <= MaxEnrolments /\ DOMAIN recovery = DOMAIN codes
    BY <1>1
  <2>3. \A n \in DOMAIN recovery : recovery[n] \in {"unused", "consumed", "deleted"}  BY <1>1
  <2>4. tries \in [Sessions -> 0..MaxTries]  BY <2>1 DEF F!Init
  <2> QED BY <1>1, <1>4, <1>5, <2>1, <2>2, <2>3, <2>4 DEF F!Init, F!TypeOK
<1>7. CheckingInv  BY <1>4 DEF CheckingInv
<1>8. CodesInv  BY <1>1, <1>5 DEF CodesInv
<1> QED BY <1>6, <1>7, <1>8 DEF SecondFactorInv

\* A code of the authenticator or a recovery code is accepted once, and the enrolled have a
\* confirmed authenticator, as long as no request writes over what it had not read
\* (verifyMfa(), consumeRecoveryCode(), beginMfaEnrolment(), confirmMfaEnrolment()).
THEOREM SecondFactorIsKept == F!Spec => []SecondFactorHolds
<1>1. SecondFactorInv => SecondFactorHolds
  <2> SUFFICES ASSUME SecondFactorInv PROVE SecondFactorHolds  OBVIOUS
  <2>1. F!TypeOK /\ CodesInv  BY DEF SecondFactorInv
  <2>2. F!EnrolledHasAuthenticator
    <3>1. SUFFICES ASSUME enrolled, ~overwrote PROVE F!Latest(TRUE) # 0
      BY DEF F!EnrolledHasAuthenticator
    <3>2. PICK n \in DOMAIN codes : codes[n].exists /\ codes[n].confirmed
      BY <2>1, <3>1 DEF CodesInv
    <3>3. codes[n].confirmed = TRUE  BY <2>1, <3>2, SecondFactorRows DEF F!Credential
    <3> QED BY <2>1, <3>2, <3>3, LatestIs
  <2>3. F!CodeOnce
    <3>1. SUFFICES ASSUME ~overwrote, NEW x \in DOMAIN accepted PROVE accepted[x] <= 1
      BY DEF F!CodeOnce
    <3>2. x \in F!Rows \X Codes  BY <2>1 DEF F!TypeOK, Codes
    <3>3. PICK n \in F!Rows, c \in Codes : x = <<n, c>>  BY <3>2
    <3>4. CASE n \in DOMAIN codes  BY <2>1, <3>1, <3>3, <3>4 DEF CodesInv, Codes
    <3>5. CASE n \notin DOMAIN codes
      <4>1. accepted[x] = 0  BY <2>1, <3>1, <3>3, <3>5 DEF CodesInv
      <4> QED BY <4>1
    <3> QED BY <3>4, <3>5
  <2> QED BY <2>1, <2>2, <2>3 DEF SecondFactorHolds, F!SecondFactorHolds
<1>2. SecondFactorInv /\ [F!Next]_(F!vars) => SecondFactorInv'  BY SecondFactorStep
<1> QED BY <1>1, <1>2, SecondFactorStarts, PTL DEF F!Spec

(***************************************************************************)
(* The areas of the run                                                    *)
(***************************************************************************)
\* The run of MCAccounts is a run of each part: of the sessions with a portal in front of
\* them or without, of the passphrase, of the second factor and of the credential.
THEOREM AccountsAreas == MCSpec => Spec /\ P!Spec /\ F!Spec /\ C!Spec
<1> DEFINE Behind == area # "sessions" => PortalInv
<1>1. MCInit => Init /\ Behind /\ P!Init /\ F!Init /\ C!Init
  BY PortalStarts DEF MCInit, PortalInit
<1>2. ASSUME Behind, [MCNext]_allVars PROVE Behind' /\ [Next]_vars
  <2>1. area' = area
    BY <1>2 DEF MCNext, allVars
  <2>2. CASE area = "sessions"
    BY <1>2, <2>1, <2>2 DEF MCNext, allVars, sessionVars
  <2>3. CASE area # "sessions"
    <3>1. PortalInv /\ [PortalNext]_<<vars, portalVars>>
      BY <1>2, <2>3 DEF MCNext, allVars, sessionVars
    <3> QED BY <2>1, <3>1, PortalStep, PortalIsSessions DEF PortalInv
  <2> QED BY <2>2, <2>3
<1>3. [MCNext]_allVars => [P!Next]_(P!vars) /\ [F!Next]_(F!vars) /\ [C!Next]_(C!vars)
  BY DEF MCNext, allVars, passphraseVars, codeVars, credentialVars, P!vars, F!vars, C!vars
<1> HIDE DEF Behind
<1>4. Behind /\ [MCNext]_allVars => Behind' /\ [Next]_vars
  BY <1>2
<1> QED BY <1>1, <1>3, <1>4, PTL DEF MCSpec, Spec, P!Spec, F!Spec, C!Spec
=============================================================================
