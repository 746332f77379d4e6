-------------------------- MODULE AuditChainProofs --------------------------
(***************************************************************************)
(* Theorems about AuditChain, for any requests, rows and ranges, any hash  *)
(* function and any payload, injective or not.                             *)
(***************************************************************************)
EXTENDS AuditChain, Sequences, TLAPS

(***************************************************************************)
(* The head's lock holder, and nobody else, has a row that continues the   *)
(* chain; its content is the one its phase is about to commit.             *)
(***************************************************************************)
OwnedBy(r) ==
    /\ phase[r] \in {"DECIDING", "RECORDING"} <=> headLock = r
    /\ headLock = r => draft[r] = Chained(draft[r].about)
    /\ phase[r] = "DECIDING" => \E v \in Verdicts : draft[r].about = Decision(r, v)
    /\ phase[r] = "RECORDING" => draft[r].about = Change(r)

Owned == \A r \in Requests : OwnedBy(r)

TypeInv == TypeOK /\ Owned

-----------------------------------------------------------------------------

\* A request's decisions and change are entries.
LEMMA EntryTypes ==
    ASSUME NEW r \in Requests
    PROVE  /\ \A v \in Verdicts : Decision(r, v) \in Entries
           /\ Change(r) \in Entries
BY DEF Decision, Change, Entries, Verdicts

\* Every step of the protocol moves the chain in one of four ways.
LEMMA ChainSteps ==
    ASSUME [Next]_vars
    PROVE  \/ UNCHANGED chainVars
           \/ \E r \in Requests :
                \/ /\ phase[r] = "NEW"
                   /\ \E v \in Verdicts : Insert(r, Decision(r, v))
                   /\ Goto(r, "DECIDING")
                \/ /\ phase[r] \in {"WRITING", "WRITTEN"}
                   /\ Insert(r, Change(r))
                   /\ Goto(r, "RECORDING")
                \/ CommitDecision(r)
                \/ Commit(r)
                \/ Fail(r)
<1>1. CASE UNCHANGED vars
  BY <1>1 DEF vars, chainVars
<1>2. CASE Verify
  BY <1>2 DEF Verify, VerifyStart, VerifyWalk
<1>3. ASSUME NEW r \in Requests, Progress(r)
      PROVE  \/ UNCHANGED chainVars
             \/ /\ phase[r] = "NEW"
                /\ \E v \in Verdicts : Insert(r, Decision(r, v))
                /\ Goto(r, "DECIDING")
             \/ /\ phase[r] \in {"WRITING", "WRITTEN"}
                /\ Insert(r, Change(r))
                /\ Goto(r, "RECORDING")
             \/ CommitDecision(r)
             \/ Commit(r)
  BY <1>3 DEF Progress, Decide, Answer, BeginWrite, WriteAlone, Record
<1> QED  BY <1>1, <1>2, <1>3 DEF Next

\* A row continuing the chain is a well-formed one.
LEMMA ChainedType ==
    ASSUME TypeOK, NEW e \in Entries
    PROVE  IsEvent(Chained(e))
<1>1. e = [req |-> e.req, what |-> e.what, verdict |-> e.verdict] /\ e.req \in Requests
  BY DEF Entries
<1> QED  BY <1>1, ChainAssumption DEF TypeOK, IsEvent, Chained

\* What the chain's variables look like after a commit by the lock's holder.
LEMMA PublishEffect ==
    ASSUME TypeOK, Owned, NEW r \in Requests, headLock = r, Publish(r)
    PROVE  /\ draft[r] = Chained(draft[r].about)
           /\ draft[r].about \in Entries
           /\ IsEvent(draft[r])
           /\ draft[r].seq = head.next
           /\ events' = events \cup {draft[r]}
           /\ head' = [next |-> head.next + 1, hash |-> draft[r].hash]
           /\ headLock' = NoOne
           /\ draft' = [draft EXCEPT ![r] = NoRow]
<1>1. phase[r] \in {"DECIDING", "RECORDING"} /\ draft[r] = Chained(draft[r].about)
  BY DEF Owned, OwnedBy
<1>2. draft[r].about \in Entries
  BY <1>1, EntryTypes DEF Owned, OwnedBy
<1>3. IsEvent(draft[r])
  BY <1>1, <1>2, ChainedType
<1>4. draft[r].seq = head.next
  BY <1>1 DEF Chained
<1> QED  BY <1>1, <1>2, <1>3, <1>4 DEF Publish

-----------------------------------------------------------------------------
(***************************************************************************)
(* Type correctness.                                                       *)
(***************************************************************************)

LEMMA TypeInit == Init => TypeInv
<1> SUFFICES ASSUME Init PROVE TypeInv
  OBVIOUS
<1> USE ChainAssumption
<1>1. TypeOK
  BY DEF Init, TypeOK, Phases
<1>2. Owned
  BY DEF Init, Owned, OwnedBy
<1> QED  BY <1>1, <1>2 DEF TypeInv

LEMMA OwnedStep == TypeInv /\ [Next]_vars => Owned'
<1> SUFFICES ASSUME TypeInv, [Next]_vars PROVE Owned'
  OBVIOUS
<1> USE ChainAssumption DEF TypeInv
<1>t. /\ phase \in [Requests -> Phases]
      /\ draft = [r \in Requests |-> draft[r]]
      /\ headLock \in Requests \cup {NoOne}
  BY DEF TypeOK
<1>1. ASSUME NEW r \in Requests, NEW e, NEW p \in {"DECIDING", "RECORDING"},
             phase[r] \notin {"DECIDING", "RECORDING"},
             Insert(r, e), Goto(r, p),
             p = "DECIDING" => \E v \in Verdicts : e = Decision(r, v),
             p = "RECORDING" => e = Change(r)
      PROVE  Owned'
  <2> SUFFICES ASSUME NEW s \in Requests PROVE OwnedBy(s)'
    BY DEF Owned
  <2>1. /\ headLock = NoOne /\ headLock' = r /\ head' = head
        /\ draft'[r] = Chained(e)
        /\ phase' = [phase EXCEPT ![r] = p]
    BY <1>1, <1>t DEF Insert, Goto
  <2>2. phase[s] \notin {"DECIDING", "RECORDING"}
    BY <2>1 DEF Owned, OwnedBy
  <2>3. CASE s = r
    <3>1. draft'[s] = Chained(e) /\ draft'[s].about = e
      BY <2>1, <2>3, <1>t DEF Chained
    <3>2. phase'[s] = p /\ headLock' = s
      BY <2>1, <2>3, <1>t
    <3> QED  BY <3>1, <3>2, <2>1, <2>3, <1>1 DEF OwnedBy, Chained
  <2>4. CASE s # r
    BY <2>1, <2>2, <2>4, <1>t DEF OwnedBy
  <2> QED  BY <2>3, <2>4
<1>2. ASSUME NEW r \in Requests, NEW p \in Phases \ {"DECIDING", "RECORDING"},
             phase[r] \in {"DECIDING", "RECORDING"}, headLock' = NoOne,
             draft' = [draft EXCEPT ![r] = NoRow], Goto(r, p)
      PROVE  Owned'
  <2>1. headLock = r
    BY <1>2 DEF Owned, OwnedBy
  <2>2. \A s \in Requests : phase'[s] \notin {"DECIDING", "RECORDING"}
    BY <1>2, <2>1, <1>t DEF Owned, OwnedBy, Goto
  <2> QED  BY <2>2, <1>2 DEF Owned, OwnedBy
<1>3. ASSUME NEW r \in Requests, NEW p \in Phases \ {"DECIDING", "RECORDING"},
             phase[r] \notin {"DECIDING", "RECORDING"}, headLock' = headLock, head' = head,
             draft' = [draft EXCEPT ![r] = NoRow] \/ draft' = draft, Goto(r, p)
      PROVE  Owned'
  <2>1. headLock # r
    BY <1>3 DEF Owned, OwnedBy
  <2>2. \A s \in Requests : s # r => phase'[s] = phase[s] /\ draft'[s] = draft[s]
    BY <1>3, <1>t DEF Goto
  <2>3. phase'[r] = p
    BY <1>3, <1>t DEF Goto
  <2> SUFFICES ASSUME NEW s \in Requests PROVE OwnedBy(s)'
    BY DEF Owned
  <2>4. CASE s = r
    BY <2>1, <2>3, <2>4, <1>3 DEF OwnedBy
  <2>5. CASE s # r
    BY <2>2, <2>5, <1>3 DEF Owned, OwnedBy, Chained, Decision, Change
  <2> QED  BY <2>4, <2>5
<1>4. ASSUME UNCHANGED <<chainVars, phase>>
      PROVE  Owned'
  BY <1>4 DEF chainVars, Owned, OwnedBy, Chained, Decision, Change
<1>5. ASSUME NEW r \in Requests, Progress(r)
      PROVE  Owned'
  <2>1. CASE \E v \in Verdicts : Decide(r, v)
    <3>1. PICK v \in Verdicts : Decide(r, v)
      BY <2>1
    <3> QED  BY <3>1, <1>1 DEF Decide
  <2>2. CASE CommitDecision(r)
    BY <2>2, <1>2 DEF CommitDecision, Publish, Phases
  <2>3. CASE Answer(r)
    BY <2>3, <1>3 DEF Answer, chainVars, Phases
  <2>4. CASE BeginWrite(r)
    BY <2>4, <1>3 DEF BeginWrite, chainVars, Phases
  <2>5. CASE WriteAlone(r)
    BY <2>5, <1>3 DEF WriteAlone, chainVars, Phases
  <2>6. CASE Record(r)
    BY <2>6, <1>1 DEF Record
  <2>7. CASE Commit(r)
    BY <2>7, <1>2 DEF Commit, Publish, Phases
  <2> QED  BY <1>5, <2>1, <2>2, <2>3, <2>4, <2>5, <2>6, <2>7 DEF Progress
<1>6. ASSUME NEW r \in Requests, Fail(r)
      PROVE  Owned'
  <2>1. CASE phase[r] \in {"DECIDING", "RECORDING"}
    <3>1. headLock = r
      BY <2>1 DEF Owned, OwnedBy
    <3> QED  BY <3>1, <2>1, <1>6, <1>2 DEF Fail, Phases
  <2>2. CASE phase[r] \notin {"DECIDING", "RECORDING"}
    <3>1. headLock # r
      BY <2>2 DEF Owned, OwnedBy
    <3> QED  BY <3>1, <2>2, <1>6, <1>3 DEF Fail, Phases
  <2> QED  BY <2>1, <2>2
<1>7. CASE Verify
  BY <1>7, <1>4 DEF Verify, VerifyStart, VerifyWalk
<1>8. CASE UNCHANGED vars
  BY <1>8, <1>4 DEF vars
<1> QED  BY <1>5, <1>6, <1>7, <1>8 DEF Next

LEMMA TypeStep == TypeInv /\ [Next]_vars => TypeInv'
<1> SUFFICES ASSUME TypeInv, [Next]_vars PROVE TypeInv'
  OBVIOUS
<1> USE ChainAssumption DEF TypeInv
<1>o. Owned'
  BY OwnedStep
<1>t. /\ phase \in [Requests -> Phases]
      /\ draft = [r \in Requests |-> draft[r]]
      /\ rowLock \in [Rows -> Requests \cup {NoOne}]
      /\ changed \subseteq Requests
  BY DEF TypeOK
\* The chain's variables.
<1>1. /\ \A e \in events' : IsEvent(e)
      /\ head' = [next |-> head'.next, hash |-> head'.hash]
      /\ head'.next \in Nat \ {0}
      /\ headLock' \in Requests \cup {NoOne}
      /\ draft' = [r \in Requests |-> draft'[r]]
      /\ \A r \in Requests : draft'[r] = NoRow \/ IsEvent(draft'[r])
  <2>1. CASE UNCHANGED chainVars
    BY <2>1 DEF chainVars, TypeOK
  <2>2. ASSUME NEW r \in Requests, NEW e \in Entries, Insert(r, e)
        PROVE  <1>1!:
    <3>1. IsEvent(Chained(e))
      BY ChainedType
    <3>2. draft' = [draft EXCEPT ![r] = Chained(e)]
      BY <2>2 DEF Insert
    <3>3. \A s \in Requests : draft'[s] = NoRow \/ IsEvent(draft'[s])
      BY <3>1, <3>2, <1>t DEF TypeOK
    <3> QED  BY <3>2, <3>3, <2>2, <1>t DEF Insert, TypeOK
  <2>3. ASSUME NEW r \in Requests, headLock = r, Publish(r)
        PROVE  <1>1!:
    <3>1. /\ IsEvent(draft[r])
          /\ events' = events \cup {draft[r]}
          /\ head' = [next |-> head.next + 1, hash |-> draft[r].hash]
          /\ headLock' = NoOne
          /\ draft' = [draft EXCEPT ![r] = NoRow]
      BY <2>3, PublishEffect
    <3>2. \A s \in Requests : draft'[s] = NoRow \/ IsEvent(draft'[s])
      BY <3>1, <1>t DEF TypeOK
    <3> QED  BY <3>1, <3>2, <1>t DEF TypeOK
  <2>4. ASSUME NEW r \in Requests, Fail(r)
        PROVE  <1>1!:
    <3>1. draft' = [draft EXCEPT ![r] = NoRow]
      BY <2>4 DEF Fail
    <3>2. \A s \in Requests : draft'[s] = NoRow \/ IsEvent(draft'[s])
      BY <3>1, <1>t DEF TypeOK
    <3> QED  BY <3>1, <3>2, <2>4, <1>t DEF Fail, TypeOK
  <2>5. \A r \in Requests : CommitDecision(r) \/ Commit(r) => headLock = r /\ Publish(r)
    BY DEF CommitDecision, Commit, Owned, OwnedBy
  <2> QED  BY <2>1, <2>2, <2>3, <2>4, <2>5, ChainSteps, EntryTypes
\* The others.
<1>2. /\ rowLock' \in [Rows -> Requests \cup {NoOne}]
      /\ changed' \subseteq Requests
      /\ phase' \in [Requests -> Phases]
      /\ verifier'.stage \in {"IDLE", "READ", "DONE"}
  <2>1. ASSUME NEW r \in Requests, Progress(r)
        PROVE  <1>2!:
    <3>1. rowLock' \in [Rows -> Requests \cup {NoOne}]
      BY <2>1, <1>t DEF Progress, Decide, CommitDecision, Answer, BeginWrite, WriteAlone,
                        Record, Commit, Release
    <3>2. changed' \subseteq Requests
      BY <2>1, <1>t DEF Progress, Decide, CommitDecision, Answer, BeginWrite, WriteAlone,
                        Record, Commit
    <3>3. phase' \in [Requests -> Phases]
      BY <2>1, <1>t DEF Progress, Decide, CommitDecision, Answer, BeginWrite, WriteAlone,
                        Record, Commit, Goto, Phases
    <3>4. UNCHANGED verifier
      BY <2>1 DEF Progress, Decide, CommitDecision, Answer, BeginWrite, WriteAlone,
                  Record, Commit
    <3> QED  BY <3>1, <3>2, <3>3, <3>4 DEF TypeOK
  <2>2. ASSUME NEW r \in Requests, Fail(r)
        PROVE  <1>2!:
    BY <2>2, <1>t DEF Fail, Release, Goto, Phases, TypeOK
  <2>3. CASE Verify
    BY <2>3, <1>t DEF Verify, VerifyStart, VerifyWalk
  <2>4. CASE UNCHANGED vars
    BY <2>4 DEF vars, TypeOK
  <2> QED  BY <2>1, <2>2, <2>3, <2>4 DEF Next
<1> QED  BY <1>1, <1>2, <1>o DEF TypeOK

\* TypeOK of AuditChain, for any number of requests and rows.
THEOREM TypeCorrect == Spec => []TypeOK
<1>1. Init => TypeInv
  BY TypeInit
<1>2. TypeInv /\ [Next]_vars => TypeInv'
  BY TypeStep
<1>3. TypeInv => TypeOK
  BY DEF TypeInv
<1> QED  BY <1>1, <1>2, <1>3, PTL DEF Spec

-----------------------------------------------------------------------------
(***************************************************************************)
(* Nobody stands still.  A row is held from the change until the entry is  *)
(* committed, by the request it is the row of; the head is held by whom    *)
(* OwnedBy says.  So a request that waits has somebody to wait for, and    *)
(* that one either waits for nothing or for the head alone.                *)
(***************************************************************************)
RowsHeld ==
    \A x \in Rows : rowLock[x] # NoOne =>
        /\ phase[rowLock[x]] \in {"WRITING", "RECORDING"}
        /\ x = RowOf[rowLock[x]]

LEMMA RowsHeldStep == TypeInv /\ RowsHeld /\ [Next]_vars => RowsHeld'
<1> SUFFICES ASSUME TypeInv, RowsHeld, [Next]_vars PROVE RowsHeld'
  OBVIOUS
<1> USE ChainAssumption
<1>t. rowLock \in [Rows -> Requests \cup {NoOne}] /\ phase \in [Requests -> Phases]
  BY DEF TypeInv, TypeOK
<1>1. CASE Verify \/ UNCHANGED vars
  BY <1>1 DEF Verify, VerifyStart, VerifyWalk, vars, RowsHeld
\* A request without a row moves on, and takes none.
<1>2. ASSUME NEW r \in Requests, phase[r] \in {"NEW", "DECIDING", "PERMITTED", "WRITTEN"},
             NEW p, Goto(r, p), rowLock' = rowLock
      PROVE  RowsHeld'
  <2>1. \A x \in Rows : rowLock[x] # r
    BY <1>2, <1>t DEF RowsHeld
  <2> QED  BY <2>1, <1>2, <1>t DEF Goto, RowsHeld
<1>3. ASSUME NEW r \in Requests,
             (\E v \in Verdicts : Decide(r, v)) \/ CommitDecision(r) \/ Answer(r) \/ WriteAlone(r)
      PROVE  RowsHeld'
  <2>1. /\ phase[r] \in {"NEW", "DECIDING", "PERMITTED", "WRITTEN"} /\ rowLock' = rowLock
        /\ \E p \in Phases : Goto(r, p)
    BY <1>3 DEF Decide, CommitDecision, Answer, WriteAlone, Phases
  <2> QED  BY <2>1, <1>2
<1>4. ASSUME NEW r \in Requests, BeginWrite(r) PROVE RowsHeld'
  <2>1. \A x \in Rows : rowLock[x] # r
    BY <1>4, <1>t DEF RowsHeld, BeginWrite
  <2> QED  BY <2>1, <1>4, <1>t DEF BeginWrite, Goto, RowsHeld
<1>5. ASSUME NEW r \in Requests, Record(r) PROVE RowsHeld'
  BY <1>5, <1>t DEF Record, Goto, RowsHeld
<1>6. ASSUME NEW r \in Requests, Release(r), NEW p, Goto(r, p) PROVE RowsHeld'
  <2>1. \A x \in Rows : rowLock'[x] # NoOne => rowLock'[x] = rowLock[x] /\ rowLock[x] # r
    BY <1>6, <1>t DEF Release
  <2> QED  BY <2>1, <1>6, <1>t DEF Goto, RowsHeld
<1> QED  BY <1>1, <1>3, <1>4, <1>5, <1>6 DEF Next, Progress, Commit, Fail

LEMMA SomebodyCanGoOn == TypeInv /\ RowsHeld => NobodyStandsStill
<1> SUFFICES ASSUME TypeInv, RowsHeld PROVE NobodyStandsStill
  OBVIOUS
<1> USE ChainAssumption
<1>t. /\ rowLock \in [Rows -> Requests \cup {NoOne}] /\ phase \in [Requests -> Phases]
      /\ headLock \in Requests \cup {NoOne} /\ Owned
  BY DEF TypeInv, TypeOK
<1>1. headLock # NoOne => headLock \in Requests /\ CanGoOn(headLock)
  BY <1>t DEF Owned, OwnedBy, CanGoOn
<1>2. ASSUME NEW x \in Rows, rowLock[x] # NoOne
      PROVE  \/ CanGoOn(rowLock[x])
             \/ phase[rowLock[x]] = "WRITING" /\ headLock # NoOne
  BY <1>2, <1>t DEF RowsHeld, CanGoOn
<1>3. ASSUME NEW r \in Requests, phase[r] \notin Ended PROVE \E q \in Requests : CanGoOn(q)
  <2>1. CASE headLock # NoOne
    BY <2>1, <1>1
  <2>2. CASE headLock = NoOne /\ phase[r] = "PERMITTED"
    <3>1. CASE rowLock[RowOf[r]] = NoOne
      BY <3>1, <2>2 DEF CanGoOn
    <3>2. CASE rowLock[RowOf[r]] # NoOne
      BY <3>2, <2>2, <1>2, <1>t
    <3> QED  BY <3>1, <3>2
  <2>3. CASE headLock = NoOne /\ phase[r] # "PERMITTED"
    BY <2>3, <1>3, <1>t DEF CanGoOn, Phases, Ended
  <2> QED  BY <2>1, <2>2, <2>3
<1> QED  BY <1>1, <1>2, <1>3 DEF NobodyStandsStill

\* NobodyStandsStill: however many requests queue for however few rows, the head is the
\* last lock anybody takes (audit.service.ts record(), the trigger of migration 0011),
\* so that no two of them wait for each other and somebody can always go on.
THEOREM NoCircleOfWaiting == Spec => []NobodyStandsStill
<1>1. Init => TypeInv /\ RowsHeld
  BY TypeInit DEF Init, RowsHeld
<1>2. TypeInv /\ RowsHeld /\ [Next]_vars => TypeInv' /\ RowsHeld'
  BY TypeStep, RowsHeldStep
<1> QED  BY <1>1, <1>2, SomebodyCanGoOn, PTL DEF Spec

\* How far a request is, as a number.
Distance ==
    [NEW |-> 0, DECIDING |-> 1, PERMITTED |-> 2, WRITING |-> 3, WRITTEN |-> 3,
     RECORDING |-> 4, REFUSED |-> 5, DONE |-> 5, FAILED |-> 5]

\* A request only ever gets on, and has ended after at most five steps: what remains of
\* EveryRequestEnds is that a request that can go on for good is let go on.
THEOREM RequestsGetOn ==
    Spec => [][\A r \in Requests : phase'[r] # phase[r] => Distance[phase[r]] < Distance[phase'[r]]]_vars
<1>1. TypeInv /\ [Next]_vars =>
        [\A r \in Requests : phase'[r] # phase[r] => Distance[phase[r]] < Distance[phase'[r]]]_vars
  <2> SUFFICES ASSUME TypeInv, [Next]_vars, NEW r \in Requests, phase'[r] # phase[r]
               PROVE  Distance[phase[r]] < Distance[phase'[r]]
    OBVIOUS
  <2>t. phase \in [Requests -> Phases]
    BY DEF TypeInv, TypeOK
  <2>1. Progress(r) \/ Fail(r)
    BY <2>t DEF Next, Progress, Fail, Verify, VerifyStart, VerifyWalk, vars, Goto, Decide,
                CommitDecision, Answer, BeginWrite, WriteAlone, Record, Commit
  <2>2. CASE Fail(r)
    BY <2>2, <2>t DEF Fail, Goto, Distance, Ended, Phases
  <2>3. CASE Progress(r)
    BY <2>3, <2>t DEF Progress, Goto, Distance, Decide, CommitDecision, Answer, BeginWrite,
                      WriteAlone, Record, Commit
  <2> QED  BY <2>1, <2>2, <2>3
<1> QED  BY <1>1, TypeInit, TypeStep, PTL DEF Spec

-----------------------------------------------------------------------------
(***************************************************************************)
(* The chain.                                                              *)
(***************************************************************************)

\* Last is the row no other row is numbered above.
LEMMA LastIs ==
    ASSUME NEW rows, NEW e \in rows,
           \A d \in rows : d.seq \in Nat /\ d.seq <= e.seq,
           \A c, d \in rows : c.seq = d.seq => c = d
    PROVE  Last(rows) = e
<1>1. \E x \in rows : \A d \in rows : d.seq <= x.seq
  OBVIOUS
<1>2. PICK x \in rows : x = Last(rows) /\ \A d \in rows : d.seq <= x.seq
  BY <1>1 DEF Last
<1>3. x.seq = e.seq
  BY <1>2
<1> QED  BY <1>2, <1>3

\* A commit by the lock's holder prolongs the chain by one link.
LEMMA PublishProlongs ==
    ASSUME TypeInv, ChainIntact, NEW r \in Requests, headLock = r, Publish(r)
    PROVE  ChainIntact'
<1> DEFINE d == draft[r]
<1>1. /\ d = Chained(d.about) /\ d.about \in Entries
      /\ IsEvent(d) /\ d.seq = head.next
      /\ events' = events \cup {d}
      /\ head' = [next |-> head.next + 1, hash |-> d.hash]
  BY PublishEffect DEF TypeInv
<1>2. /\ d.prev = head.hash
      /\ d.hash = Hash(d.prev, Payload(d.about))
  BY <1>1 DEF Chained
<1>t. /\ head.next \in Nat \ {0}
      /\ \A e \in events' : e.seq \in Nat \ {0}
      /\ \A e \in events : e.seq \in 1..(head.next - 1)
      /\ head'.next = head.next + 1 /\ head'.hash = d.hash
  BY <1>1 DEF TypeInv, TypeOK, IsEvent, ChainIntact
<1> HIDE DEF d
<1>3. \A c, e \in events' : c.seq = e.seq => c = e
  BY <1>1, <1>t DEF ChainIntact
<1>4. {e.seq : e \in events'} = 1..(head'.next - 1)
  <2>1. \A n \in 1..(head.next - 1) : \E e \in events : e.seq = n
    BY DEF ChainIntact
  <2>2. \A n \in 1..head.next : \E e \in events' : e.seq = n
    BY <2>1, <1>1, <1>t
  <2>3. \A e \in events' : e.seq \in 1..head.next
    BY <1>1, <1>t
  <2> QED  BY <2>2, <2>3, <1>t
<1>5. \A e \in events' : e.hash = Hash(e.prev, Payload(e.about))
  BY <1>1, <1>2 DEF ChainIntact
<1>6. \A e \in events' : e.seq = 1 => e.prev = Genesis
  <2>1. ASSUME d.seq = 1 PROVE d.prev = Genesis
    <3>1. events = {}
      BY <2>1, <1>1, <1>t
    <3> QED  BY <3>1, <1>2 DEF ChainIntact, LastHash
  <2> QED  BY <2>1, <1>1 DEF ChainIntact
<1>7. \A c, e \in events' : e.seq = c.seq + 1 => e.prev = c.hash
  <2>1. ASSUME NEW c \in events, d.seq = c.seq + 1 PROVE d.prev = c.hash
    <3>1. \A e \in events : e.seq \in Nat /\ e.seq <= c.seq
      BY <2>1, <1>1, <1>t
    <3>2. Last(events) = c
      BY <3>1, LastIs DEF ChainIntact
    <3> QED  BY <3>2, <1>2 DEF ChainIntact, LastHash
  <2>2. \A e \in events' : e.seq # d.seq + 1
    BY <1>1, <1>t
  <2> QED  BY <2>1, <2>2, <1>1 DEF ChainIntact
<1>8. head'.hash = LastHash(events', Genesis)
  <2>1. \A e \in events' : e.seq \in Nat /\ e.seq <= d.seq
    BY <1>1, <1>t
  <2>2. Last(events') = d
    BY <2>1, <1>1, <1>3, LastIs
  <2> QED  BY <2>2, <1>1, <1>t DEF LastHash
<1> QED  BY <1>3, <1>4, <1>5, <1>6, <1>7, <1>8 DEF ChainIntact, LastHash, Last

LEMMA ChainInit == Init => ChainIntact
<1> SUFFICES ASSUME Init PROVE ChainIntact
  OBVIOUS
<1>1. events = {} /\ head.next = 1 /\ head.hash = Genesis
  BY DEF Init
<1>2. {e.seq : e \in events} = 1..(head.next - 1)
  BY <1>1
<1> QED  BY <1>1, <1>2 DEF ChainIntact, LastHash

LEMMA ChainStep == TypeInv /\ ChainIntact /\ [Next]_vars => ChainIntact'
<1> SUFFICES ASSUME TypeInv, ChainIntact, [Next]_vars PROVE ChainIntact'
  OBVIOUS
<1>1. CASE UNCHANGED <<events, head>>
  BY <1>1 DEF ChainIntact, LastHash, Last
<1>2. ASSUME NEW r \in Requests, CommitDecision(r) \/ Commit(r)
      PROVE  ChainIntact'
  <2>1. headLock = r /\ Publish(r)
    BY <1>2 DEF CommitDecision, Commit, TypeInv, Owned, OwnedBy
  <2> QED  BY <2>1, PublishProlongs
<1>3. \/ UNCHANGED <<events, head>>
      \/ \E r \in Requests : CommitDecision(r) \/ Commit(r)
  BY ChainSteps DEF chainVars, Insert, Fail
<1> QED  BY <1>1, <1>2, <1>3

\* The hash chain never forks and never skips (migration 0011).
THEOREM ChainHolds == Spec => []ChainIntact
<1>1. Init => TypeInv /\ ChainIntact
  BY TypeInit, ChainInit
<1>2. TypeInv /\ ChainIntact /\ [Next]_vars => (TypeInv /\ ChainIntact)'
  BY TypeStep, ChainStep
<1> QED  BY <1>1, <1>2, PTL DEF Spec

\* Rows become visible in the order of their numbers and stay as they are.
THEOREM NumberedInCommitOrder == Spec => AppendedInOrder
<1>1. ASSUME TypeInv, ChainIntact, [Next]_vars
      PROVE  /\ events \subseteq events'
             /\ \A e \in events' \ events : \A d \in events : d.seq < e.seq
  <2>1. ASSUME NEW r \in Requests, CommitDecision(r) \/ Commit(r)
        PROVE  /\ events \subseteq events'
               /\ \A e \in events' \ events : \A d \in events : d.seq < e.seq
    <3>1. headLock = r /\ Publish(r)
      BY <1>1, <2>1 DEF CommitDecision, Commit, TypeInv, Owned, OwnedBy
    <3>2. draft[r].seq = head.next /\ events' = events \cup {draft[r]}
      BY <3>1, <1>1, PublishEffect DEF TypeInv
    <3>3. \A d \in events : d.seq \in 1..(head.next - 1)
      BY <1>1 DEF ChainIntact
    <3> QED  BY <3>2, <3>3, <1>1 DEF TypeInv, TypeOK
  <2>2. \/ UNCHANGED events
        \/ \E r \in Requests : CommitDecision(r) \/ Commit(r)
    BY <1>1, ChainSteps DEF chainVars, Insert, Fail
  <2> QED  BY <2>1, <2>2
<1>2. Init => TypeInv /\ ChainIntact
  BY TypeInit, ChainInit
<1>3. TypeInv /\ ChainIntact /\ [Next]_vars => (TypeInv /\ ChainIntact)'
  BY TypeStep, ChainStep
<1>4. TypeInv /\ ChainIntact /\ [Next]_vars =>
        [ /\ events \subseteq events'
          /\ \A e \in events' \ events : \A d \in events : d.seq < e.seq ]_vars
  BY <1>1
<1> QED  BY <1>2, <1>3, <1>4, PTL DEF Spec, AppendedInOrder

-----------------------------------------------------------------------------
(***************************************************************************)
(* The log accounts for what was done.  Where a request is says which of   *)
(* its two entries are committed and whether its change is.                *)
(***************************************************************************)
StagesOf(r) ==
    /\ phase[r] = "WRITING" => r \notin Detached \cup Reads
    /\ phase[r] = "WRITTEN" => r \in Detached
    /\ phase[r] = "RECORDING" => r \notin Reads
    /\ phase[r] = "WRITTEN" \/ (phase[r] = "RECORDING" /\ r \in Detached) => r \in changed
    /\ r \in changed => IF r \in Detached
                         THEN phase[r] \in {"WRITTEN", "RECORDING", "DONE", "FAILED"}
                         ELSE phase[r] = "DONE"
    /\ \A e \in events : e.about.req = r => phase[r] \notin {"NEW", "DECIDING"}
    /\ \A e \in events : e.about = Change(r) => phase[r] = "DONE"

Stages == \A r \in Requests : StagesOf(r)

AccountInv == TypeInv /\ ChainIntact /\ Stages /\ Accounted

LEMMA AccountInit == Init => AccountInv
<1> SUFFICES ASSUME Init PROVE AccountInv
  OBVIOUS
<1>1. /\ events = {} /\ changed = {}
      /\ \A r \in Requests : phase[r] = "NEW"
  BY DEF Init
<1>2. Stages
  BY <1>1 DEF Stages, StagesOf
<1>3. Accounted
  BY <1>1 DEF Accounted
<1> QED  BY <1>2, <1>3, TypeInit, ChainInit DEF AccountInv

\* The two commits, and what a step that is neither does to the phases.
LEMMA CommitsPublish ==
    ASSUME TypeInv, NEW r \in Requests
    PROVE  /\ CommitDecision(r) =>
                 /\ headLock = r /\ Publish(r)
                 /\ events' = events \cup {draft[r]}
                 /\ \E v \in Verdicts :
                      /\ draft[r].about = Decision(r, v)
                      /\ phase' = [phase EXCEPT ![r] =
                                     IF v = "PERMITTED" THEN "PERMITTED" ELSE "REFUSED"]
           /\ Commit(r) =>
                 /\ headLock = r /\ Publish(r)
                 /\ events' = events \cup {draft[r]}
                 /\ draft[r].about = Change(r)
                 /\ phase' = [phase EXCEPT ![r] = "DONE"]
           /\ draft[r].seq = head.next \/ headLock # r
<1>1. ASSUME CommitDecision(r)
      PROVE  \E v \in Verdicts :
                 /\ draft[r].about = Decision(r, v)
                 /\ phase' = [phase EXCEPT ![r] =
                                IF v = "PERMITTED" THEN "PERMITTED" ELSE "REFUSED"]
  <2>1. PICK v \in Verdicts : draft[r].about = Decision(r, v)
    BY <1>1 DEF CommitDecision, TypeInv, Owned, OwnedBy
  <2>2. draft[r].about.verdict = v
    BY <2>1 DEF Decision
  <2> QED  BY <2>1, <2>2, <1>1 DEF CommitDecision, Goto
<1>2. ASSUME headLock = r PROVE draft[r].seq = head.next
  <2>1. draft[r] = Chained(draft[r].about)
    BY <1>2 DEF TypeInv, Owned, OwnedBy
  <2> QED  BY <2>1 DEF Chained
<1> QED  BY <1>1, <1>2 DEF CommitDecision, Commit, Goto, Publish, TypeInv, Owned, OwnedBy

LEMMA StagesStep == AccountInv /\ [Next]_vars => Stages'
<1> SUFFICES ASSUME AccountInv, [Next]_vars, NEW s \in Requests
             PROVE  StagesOf(s)'
  BY DEF Stages
<1> USE ChainAssumption
<1>t. /\ TypeInv /\ StagesOf(s)
      /\ phase \in [Requests -> Phases]
  BY DEF AccountInv, TypeInv, TypeOK, Stages
\* The steps of another request.
<1>1. ASSUME NEW r \in Requests, r # s, Progress(r) \/ Fail(r)
      PROVE  StagesOf(s)'
  <2>1. phase'[s] = phase[s]
    BY <1>1, <1>t DEF Progress, Decide, CommitDecision, Answer, BeginWrite, WriteAlone,
                      Record, Commit, Fail, Goto
  <2>2. (s \in changed') <=> (s \in changed)
    BY <1>1 DEF Progress, Decide, CommitDecision, Answer, BeginWrite, WriteAlone,
                Record, Commit, Fail
  <2>3. \A e \in events' \ events : e.about.req = r
    <3>1. CASE CommitDecision(r)
      <4>1. events' = events \cup {draft[r]} /\ \E v \in Verdicts : draft[r].about = Decision(r, v)
        BY <3>1, <1>t, CommitsPublish
      <4> QED  BY <4>1 DEF Decision
    <3>2. CASE Commit(r)
      <4>1. events' = events \cup {draft[r]} /\ draft[r].about = Change(r)
        BY <3>2, <1>t, CommitsPublish
      <4> QED  BY <4>1 DEF Change
    <3>3. CASE ~(CommitDecision(r) \/ Commit(r))
      BY <3>3, <1>1 DEF Progress, Decide, Answer, BeginWrite, WriteAlone, Record, Fail,
                        Insert, chainVars
    <3> QED  BY <3>1, <3>2, <3>3
  <2>4. \A e \in events' : e.about.req = s \/ e.about = Change(s) => e \in events
    BY <2>3, <1>1 DEF Change
  <2> QED  BY <2>1, <2>2, <2>4, <1>t DEF StagesOf, Change
\* Its own steps.
<1>2. CASE \E v \in Verdicts : Decide(s, v)
  BY <1>2, <1>t DEF Decide, Insert, Goto, StagesOf, Change
<1>3. CASE CommitDecision(s)
  <2>1. PICK v \in Verdicts :
          /\ draft[s].about = Decision(s, v)
          /\ phase' = [phase EXCEPT ![s] = IF v = "PERMITTED" THEN "PERMITTED" ELSE "REFUSED"]
    BY <1>3, <1>t, CommitsPublish
  <2>2. events' = events \cup {draft[s]} /\ changed' = changed /\ phase[s] = "DECIDING"
    BY <1>3, <1>t, CommitsPublish DEF CommitDecision
  <2>3. draft[s].about # Change(s)
    BY <2>1 DEF Decision, Change
  <2>4. phase'[s] \in {"PERMITTED", "REFUSED"}
    BY <2>1, <1>t
  <2> QED  BY <2>2, <2>3, <2>4, <1>t DEF StagesOf, Change
<1>4. CASE Answer(s)
  BY <1>4, <1>t DEF Answer, Goto, chainVars, StagesOf, Change
<1>5. CASE BeginWrite(s)
  BY <1>5, <1>t DEF BeginWrite, Goto, chainVars, StagesOf, Change
<1>6. CASE WriteAlone(s)
  BY <1>6, <1>t DEF WriteAlone, Goto, chainVars, StagesOf, Change
<1>7. CASE Record(s)
  BY <1>7, <1>t DEF Record, Insert, Goto, StagesOf, Change
<1>8. CASE Commit(s)
  <2>1. /\ phase'[s] = "DONE" /\ phase[s] = "RECORDING"
        /\ changed' = changed \cup {s}
    BY <1>8, <1>t DEF Commit, Goto
  <2> QED  BY <2>1, <1>t DEF StagesOf, Change
<1>9. CASE Fail(s)
  BY <1>9, <1>t DEF Fail, Goto, Ended, StagesOf, Change
<1>10. CASE Verify \/ UNCHANGED vars
  BY <1>10, <1>t DEF Verify, VerifyStart, VerifyWalk, vars, chainVars, StagesOf, Change
<1> QED  BY <1>1, <1>2, <1>3, <1>4, <1>5, <1>6, <1>7, <1>8, <1>9, <1>10 DEF Next, Progress

LEMMA AccountedStep == AccountInv /\ [Next]_vars => Accounted'
<1> SUFFICES ASSUME AccountInv, [Next]_vars PROVE Accounted'
  OBVIOUS
<1> USE ChainAssumption
<1> DEFINE Past(r) == phase[r] \in {"PERMITTED", "WRITING", "WRITTEN", "RECORDING", "DONE"}
           Permitted(r) == \E e \in events : e.about = Decision(r, "PERMITTED")
           Entered(r) == \E d, e \in events : /\ d.about = Decision(r, "PERMITTED")
                                             /\ e.about = Change(r)
                                             /\ d.seq < e.seq
<1>t. /\ TypeInv /\ Stages
      /\ phase \in [Requests -> Phases]
      /\ changed \subseteq Requests
      /\ events \subseteq events'
      /\ head.next \in Nat /\ \A e \in events : e.seq \in 1..(head.next - 1)
  <2>1. events \subseteq events'
    BY ChainSteps, CommitsPublish DEF AccountInv, chainVars, Insert, Fail
  <2> QED  BY <2>1 DEF AccountInv, TypeInv, TypeOK, ChainIntact
<1>a. /\ \A r \in Requests : Past(r) \/ r \in changed => Permitted(r)
      /\ \A r \in changed \ Detached : Entered(r)
      /\ \A e \in events : e.about.what = "CHANGE" => e.about.req \in changed
  BY DEF AccountInv, Accounted
<1>k. \A r \in Requests : (Permitted(r) => Permitted(r)') /\ (Entered(r) => Entered(r)')
  BY <1>t DEF Decision, Change
\* Nothing new is claimed of a request unless a commit backs it.
<1>1. ASSUME NEW r \in Requests, Past(r)' \/ r \in changed'
      PROVE  Permitted(r)'
  <2>1. CASE Past(r) \/ r \in changed
    BY <2>1, <1>a, <1>k
  <2>2. CASE CommitDecision(r)
    <3>1. PICK v \in Verdicts :
            /\ draft[r].about = Decision(r, v)
            /\ phase' = [phase EXCEPT ![r] = IF v = "PERMITTED" THEN "PERMITTED" ELSE "REFUSED"]
      BY <2>2, <1>t, CommitsPublish
    <3>2. events' = events \cup {draft[r]} /\ changed' = changed
      BY <2>2, <1>t, CommitsPublish DEF CommitDecision
    <3>3. CASE v = "PERMITTED"
      <4>1. draft[r] \in events' /\ draft[r].about = Decision(r, "PERMITTED")
        BY <3>1, <3>2, <3>3
      <4>2. \E e \in events' : e.about = Decision(r, "PERMITTED")
        BY <4>1
      <4> QED  BY <4>2 DEF Decision
    <3>4. CASE v # "PERMITTED"
      BY <3>1, <3>2, <3>4, <2>1, <1>1, <1>t
    <3> QED  BY <3>3, <3>4
  <2>3. CASE ~(Past(r) \/ r \in changed) /\ ~CommitDecision(r)
    <3>1. ~Past(r)' /\ r \notin changed'
      BY <2>3, <1>t DEF Next, Progress, Decide, CommitDecision, Answer, BeginWrite, WriteAlone,
                        Record, Commit, Fail, Goto, Verify, VerifyStart, VerifyWalk, vars
    <3> QED  BY <3>1, <1>1
  <2> QED  BY <2>1, <2>2, <2>3
<1>2. ASSUME NEW r \in changed' \ Detached
      PROVE  Entered(r)'
  <2>1. CASE r \in changed
    BY <2>1, <1>2, <1>a, <1>k, <1>t
  <2>2. CASE r \notin changed
    <3>1. r \in Requests /\ Commit(r)
      BY <2>2, <1>2 DEF Next, Progress, Decide, CommitDecision, Answer, BeginWrite, WriteAlone,
                        Record, Commit, Fail, Verify, VerifyStart, VerifyWalk, vars
    <3>2. /\ events' = events \cup {draft[r]}
          /\ draft[r].about = Change(r)
          /\ draft[r].seq = head.next
      BY <3>1, <1>t, CommitsPublish
    <3>3. PICK d \in events : d.about = Decision(r, "PERMITTED")
      BY <3>1, <1>a DEF Commit
    <3>4. d.seq < draft[r].seq
      BY <3>2, <3>3, <1>t
    <3>5. \E c, e \in events' : /\ c.about = Decision(r, "PERMITTED")
                               /\ e.about = Change(r)
                               /\ c.seq < e.seq
      BY <3>2, <3>3, <3>4
    <3> QED  BY <3>5 DEF Decision, Change
  <2> QED  BY <2>1, <2>2
<1>3. ASSUME NEW e \in events', e.about.what = "CHANGE"
      PROVE  e.about.req \in changed'
  <2>1. changed \subseteq changed'
    BY DEF Next, Progress, Decide, CommitDecision, Answer, BeginWrite, WriteAlone,
           Record, Commit, Fail, Verify, VerifyStart, VerifyWalk, vars
  <2>2. CASE e \in events
    BY <2>1, <2>2, <1>3, <1>a
  <2>3. CASE e \notin events
    <3>1. PICK r \in Requests : CommitDecision(r) \/ Commit(r)
      BY <2>3, ChainSteps DEF chainVars, Insert, Fail
    <3>2. e = draft[r]
      BY <3>1, <2>3, <1>t, CommitsPublish
    <3>3. ~CommitDecision(r)
      <4>1. ASSUME CommitDecision(r) PROVE FALSE
        <5>1. PICK v \in Verdicts : e.about = Decision(r, v)
          BY <4>1, <3>2, <1>t, CommitsPublish
        <5>2. e.about.what = "DECISION"
          BY <5>1 DEF Decision
        <5> QED  BY <5>2, <1>3
      <4> QED  BY <4>1
    <3>4. e.about = Change(r)
      BY <3>1, <3>2, <3>3, <1>t, CommitsPublish
    <3>5. e.about.req = r
      BY <3>4 DEF Change
    <3> QED  BY <3>1, <3>3, <3>5 DEF Commit
  <2> QED  BY <2>2, <2>3
<1> QED  BY <1>1, <1>2, <1>3 DEF Accounted, Decision, Change

LEMMA AccountStep == AccountInv /\ [Next]_vars => AccountInv'
BY TypeStep, ChainStep, StagesStep, AccountedStep DEF AccountInv

\* No unaudited access, no unaudited change, no entry for a change not made.
THEOREM LogAccounts == Spec => []Accounted
<1>1. AccountInv => Accounted
  BY DEF AccountInv
<1> QED  BY <1>1, AccountInit, AccountStep, PTL DEF Spec

-----------------------------------------------------------------------------
(***************************************************************************)
(* Verification.                                                           *)
(***************************************************************************)

\* What a verification that has read its predecessor knows of the chain.
Anchored ==
    /\ verifier.stage # "IDLE" =>
         /\ verifier.from \in Nat \ {0}
         /\ verifier.tail \in Nat
         /\ verifier.tail < head.next
    /\ verifier.stage = "READ" /\ verifier.from <= verifier.tail + 1 =>
         IF verifier.from = 1 THEN verifier.prev = Genesis
         ELSE \E d \in events : d.seq = verifier.from - 1 /\ verifier.prev = d.hash

VerifierInv == TypeInv /\ ChainIntact /\ Anchored /\ AlarmOnlyBeyondTail

\* The last row of a stretch of the chain that ends just before number n.
LEMMA LastBefore ==
    ASSUME TypeOK, ChainIntact, NEW rows \in SUBSET events, NEW c \in rows, NEW n \in Nat,
           c.seq = n - 1, \A d \in rows : d.seq < n
    PROVE  LastHash(rows, Genesis) = c.hash /\ \A x : LastHash(rows, x) = c.hash
<1>1. \A d \in rows : d.seq \in Nat /\ d.seq <= c.seq
  BY DEF TypeOK, IsEvent
<1>2. \A d, e \in rows : d.seq = e.seq => d = e
  BY DEF ChainIntact
<1>3. Last(rows) = c
  BY <1>1, <1>2, LastIs
<1> QED  BY <1>3 DEF LastHash

LEMMA AnchorStart ==
    ASSUME TypeInv, ChainIntact, NEW from \in Nat \ {0}, VerifyStart(from)
    PROVE  Anchored'
<1>1. /\ verifier'.stage = "READ" /\ verifier'.from = from /\ verifier'.tail = head.next - 1
      /\ verifier'.prev = LastHash(Before(from), Genesis)
      /\ events' = events /\ head' = head
  BY DEF VerifyStart, chainVars
<1>t. /\ head.next \in Nat \ {0}
      /\ \A e \in events : e.seq \in Nat \ {0}
      /\ \A n \in 1..(head.next - 1) : \E e \in events : e.seq = n
  BY DEF TypeInv, TypeOK, IsEvent, ChainIntact
<1>2. ASSUME from = 1 PROVE verifier'.prev = Genesis
  <2>1. Before(from) = {}
    BY <1>2, <1>t DEF Before
  <2> QED  BY <2>1, <1>1 DEF LastHash
<1>3. ASSUME from # 1, from <= head.next
      PROVE  \E d \in events : d.seq = from - 1 /\ verifier'.prev = d.hash
  <2>1. PICK d \in events : d.seq = from - 1
    BY <1>3, <1>t
  <2>2. d \in Before(from) /\ Before(from) \in SUBSET events /\ \A e \in Before(from) : e.seq < from
    BY <2>1, <1>t DEF Before
  <2>3. LastHash(Before(from), Genesis) = d.hash
    BY <2>1, <2>2, LastBefore DEF TypeInv
  <2> QED  BY <2>1, <2>3, <1>1
<1> QED  BY <1>1, <1>2, <1>3, <1>t DEF Anchored

\* A range that starts at a link that exists verifies.
LEMMA RangeVerifies ==
    ASSUME TypeInv, ChainIntact, Anchored, verifier.stage = "READ",
           verifier.from <= verifier.tail + 1, NEW to \in Nat
    PROVE  Problems({e \in events : e.seq \in verifier.from..to}, verifier.prev) = {}
<1> DEFINE rows == {e \in events : e.seq \in verifier.from..to}
<1>t. /\ verifier.from \in Nat \ {0}
      /\ head.next \in Nat \ {0}
      /\ \A e \in events : e.seq \in 1..(head.next - 1)
      /\ \A n \in 1..(head.next - 1) : \E e \in events : e.seq = n
  BY DEF Anchored, TypeInv, TypeOK, ChainIntact
<1> SUFFICES ASSUME NEW e \in rows
             PROVE  /\ e.prev = LastHash({d \in rows : d.seq < e.seq}, verifier.prev)
                    /\ e.hash = Hash(e.prev, Payload(e.about))
  BY DEF Problems
<1> DEFINE below == {d \in rows : d.seq < e.seq}
<1>1. e.hash = Hash(e.prev, Payload(e.about))
  BY DEF ChainIntact
<1>2. CASE e.seq = verifier.from
  <2>1. below = {}
    BY <1>2, <1>t
  <2>2. e.prev = verifier.prev
    BY <1>2, <1>t DEF Anchored, ChainIntact
  <2> QED  BY <2>1, <2>2, <1>1 DEF LastHash
<1>3. CASE e.seq > verifier.from
  <2>1. PICK c \in events : c.seq = e.seq - 1
    BY <1>3, <1>t
  <2>2. c \in below
    BY <2>1, <1>3, <1>t
  <2>3. e.prev = c.hash
    <3>1. e.seq = c.seq + 1
      BY <2>1, <1>t
    <3> QED  BY <3>1 DEF ChainIntact
  <2>4. LastHash(below, verifier.prev) = c.hash
    <3>1. below \in SUBSET events /\ \A d \in below : d.seq < e.seq
      OBVIOUS
    <3>2. e.seq \in Nat
      BY <1>t
    <3> QED  BY <3>1, <3>2, <2>1, <2>2, LastBefore DEF TypeInv
  <2> QED  BY <2>3, <2>4, <1>1
<1> QED  BY <1>2, <1>3, <1>t

LEMMA VerifierStep == VerifierInv /\ [Next]_vars => VerifierInv'
<1> SUFFICES ASSUME VerifierInv, [Next]_vars PROVE Anchored' /\ AlarmOnlyBeyondTail'
  BY TypeStep, ChainStep DEF VerifierInv
<1> USE ChainAssumption DEF VerifierInv
<1>1. CASE \E from \in Starts : VerifyStart(from)
  <2>1. PICK from \in Starts : VerifyStart(from)
    BY <1>1
  <2> QED  BY <2>1, AnchorStart DEF AlarmOnlyBeyondTail, VerifyStart
<1>2. CASE \E to \in Ends : VerifyWalk(to)
  <2>1. PICK to \in Ends : VerifyWalk(to)
    BY <1>2
  <2>2. /\ verifier.stage = "READ" /\ verifier'.stage = "DONE"
        /\ verifier'.from = verifier.from /\ verifier'.tail = verifier.tail
        /\ verifier'.intact = (Problems({e \in events : e.seq \in verifier.from..to},
                                       verifier.prev) = {})
        /\ head' = head
    BY <2>1 DEF VerifyWalk, chainVars
  <2>3. verifier.from <= verifier.tail + 1 => verifier'.intact
    BY <2>2, RangeVerifies
  <2> QED  BY <2>2, <2>3 DEF Anchored, AlarmOnlyBeyondTail
<1>3. CASE UNCHANGED verifier
  <2>1. events \subseteq events' /\ head'.next \in Nat /\ head.next \in Nat /\ head.next <= head'.next
    <3>1. ASSUME NEW r \in Requests, headLock = r, Publish(r)
          PROVE  events \subseteq events' /\ head'.next = head.next + 1
      BY <3>1, PublishEffect DEF TypeInv
    <3>2. ASSUME NEW r \in Requests, CommitDecision(r) \/ Commit(r)
          PROVE  headLock = r /\ Publish(r)
      BY <3>2, CommitsPublish
    <3>3. head.next \in Nat
      BY DEF TypeInv, TypeOK
    <3> QED  BY <3>1, <3>2, <3>3, ChainSteps DEF chainVars, Insert, Fail
  <2> QED  BY <2>1, <1>3 DEF Anchored, AlarmOnlyBeyondTail
<1>4. \/ UNCHANGED verifier
      \/ \E from \in Starts : VerifyStart(from)
      \/ \E to \in Ends : VerifyWalk(to)
  BY DEF Next, Progress, Decide, CommitDecision, Answer, BeginWrite, WriteAlone,
         Record, Commit, Fail, Verify, vars
<1> QED  BY <1>1, <1>2, <1>3, <1>4

\* verify_audit_chain() raises no false alarm for a range that starts at a link
\* that existed when it was called, in particular for the whole chain.
THEOREM VerificationSound == Spec => []AlarmOnlyBeyondTail
<1>1. Init => VerifierInv
  <2>1. Init => Anchored /\ AlarmOnlyBeyondTail
    BY DEF Init, Anchored, AlarmOnlyBeyondTail
  <2> QED  BY <2>1, TypeInit, ChainInit DEF VerifierInv
<1>2. VerifierInv => AlarmOnlyBeyondTail
  BY DEF VerifierInv
<1> QED  BY <1>1, <1>2, VerifierStep, PTL DEF Spec

\* A set of rows that is numbered without gap or repetition, linked and hashed has no
\* problem.
LEMMA LinkedVerifies ==
    ASSUME NEW rows, NEW N \in Nat,
           \A d \in rows : d.seq \in 1..N,
           \A n \in 1..N : \E d \in rows : d.seq = n,
           \A c, d \in rows : c.seq = d.seq => c = d,
           \A d \in rows : d.hash = Hash(d.prev, Payload(d.about)),
           \A d \in rows : d.seq = 1 => d.prev = Genesis,
           \A c, d \in rows : d.seq = c.seq + 1 => d.prev = c.hash
    PROVE  Problems(rows, Genesis) = {}
<1> SUFFICES ASSUME NEW e \in rows
             PROVE  e.prev = LastHash({d \in rows : d.seq < e.seq}, Genesis)
  BY DEF Problems
<1> DEFINE below == {d \in rows : d.seq < e.seq}
<1>1. CASE e.seq = 1
  <2>1. below = {}
    BY <1>1
  <2> QED  BY <2>1, <1>1 DEF LastHash
<1>2. CASE e.seq # 1
  <2>1. PICK c \in rows : c.seq = e.seq - 1
    BY <1>2
  <2>2. c \in below /\ e.prev = c.hash
    <3>1. e.seq = c.seq + 1 /\ c.seq < e.seq
      BY <2>1
    <3> QED  BY <3>1
  <2>3. /\ \A d \in below : d.seq \in Nat /\ d.seq <= c.seq
        /\ \A d, g \in below : d.seq = g.seq => d = g
    BY <2>1
  <2> HIDE DEF below
  <2>4. Last(below) = c
    BY <2>2, <2>3, LastIs
  <2>5. LastHash(below, Genesis) = c.hash
    BY <2>2, <2>4 DEF LastHash
  <2> QED  BY <2>2, <2>5 DEF below
<1> QED  BY <1>1, <1>2

\* An altered row keeps its number and its link; its hash is whatever it was given.
LEMMA AlteredRow ==
    ASSUME TypeInv, ChainIntact, NEW e \in events, NEW f,
           f.seq = e.seq, f.prev = e.prev
    PROVE  /\ \A d \in Altered(e, f) : d.seq \in 1..(head.next - 1)
           /\ \A n \in 1..(head.next - 1) : \E d \in Altered(e, f) : d.seq = n
           /\ \A c, d \in Altered(e, f) : c.seq = d.seq => c = d
           /\ f \in Altered(e, f)
<1>1. /\ \A d \in events : d.seq \in 1..(head.next - 1)
      /\ \A n \in 1..(head.next - 1) : \E d \in events : d.seq = n
      /\ \A c, d \in events : c.seq = d.seq => c = d
  BY DEF ChainIntact
<1> QED  BY <1>1 DEF Altered

\* An alteration that leaves the hashed text and the hash as they are is not reported.
LEMMA HiddenAlteration ==
    ASSUME TypeInv, ChainIntact, NEW e \in events, NEW f,
           f.seq = e.seq, f.prev = e.prev, f.hash = e.hash,
           Payload(f.about) = Payload(e.about)
    PROVE  Problems(Altered(e, f), Genesis) = {}
<1> DEFINE rows == Altered(e, f)
           N == head.next - 1
<1>1. N \in Nat
  BY DEF TypeInv, TypeOK
<1>2. /\ \A d \in rows : d.seq \in 1..N
      /\ \A n \in 1..N : \E d \in rows : d.seq = n
      /\ \A c, d \in rows : c.seq = d.seq => c = d
  BY AlteredRow
<1>3. \A d \in rows : \E c \in events :
        /\ d.seq = c.seq /\ d.prev = c.prev /\ d.hash = c.hash
        /\ Payload(d.about) = Payload(c.about)
  BY DEF Altered
<1>4. \A d \in rows : d.hash = Hash(d.prev, Payload(d.about))
  <2>1. \A c \in events : c.hash = Hash(c.prev, Payload(c.about))
    BY DEF ChainIntact
  <2> QED  BY <2>1, <1>3
<1>5. \A d \in rows : d.seq = 1 => d.prev = Genesis
  <2>1. \A c \in events : c.seq = 1 => c.prev = Genesis
    BY DEF ChainIntact
  <2> QED  BY <2>1, <1>3
<1>6. \A c, d \in rows : d.seq = c.seq + 1 => d.prev = c.hash
  <2>1. \A c, d \in events : d.seq = c.seq + 1 => d.prev = c.hash
    BY DEF ChainIntact
  <2> QED  BY <2>1, <1>3
<1> HIDE DEF rows, N
<1>7. Problems(rows, Genesis) = {}
  BY <1>1, <1>2, <1>4, <1>5, <1>6, LinkedVerifies
<1> QED  BY <1>7 DEF rows

\* Of the hash function it is enough that it never returns its first argument
\* and that it tells two payloads after the same hash apart.  Nothing is assumed of the
\* payload: what it leaves out, or joins to one text, the verification cannot see.
THEOREM DamageReported ==
    ASSUME \A p, x : Hash(p, x) # p,
           \A p, x, y : Hash(p, x) = Hash(p, y) => x = y
    PROVE  Spec => []DamageShows
<1>1. ASSUME TypeInv, ChainIntact, NEW e \in events, e.seq < head.next - 1
      PROVE  Problems(events \ {e}, Genesis) # {}
  <2>t. /\ head.next \in Nat \ {0}
        /\ IsEvent(e) /\ \A d \in events : d.seq \in 1..(head.next - 1)
        /\ \A n \in 1..(head.next - 1) : \E d \in events : d.seq = n
        /\ e.hash = Hash(e.prev, Payload(e.about))
    BY <1>1 DEF TypeInv, TypeOK, ChainIntact
  <2> DEFINE left == events \ {e}
  <2>1. PICK f \in events : f.seq = e.seq + 1
    BY <1>1, <2>t
  <2>2. f.prev = e.hash /\ f \in left
    BY <2>1, <1>1, <2>t DEF ChainIntact
  <2> DEFINE below == {d \in left : d.seq < f.seq}
  <2>3. LastHash(below, Genesis) = e.prev
    <3>1. \A d \in below : d.seq < e.seq
      BY <2>1, <2>t, <1>1 DEF ChainIntact
    <3>2. CASE e.seq = 1
      <4>1. below = {}
        BY <3>1, <3>2, <2>t
      <4> QED  BY <4>1, <3>2, <1>1 DEF LastHash, ChainIntact
    <3>3. CASE e.seq # 1
      <4>1. PICK c \in events : c.seq = e.seq - 1
        BY <3>3, <2>t
      <4>2. c \in below /\ e.prev = c.hash
        <5>1. e.seq = c.seq + 1 /\ c # e /\ c.seq < f.seq
          BY <4>1, <2>1, <2>t
        <5> QED  BY <5>1, <1>1 DEF ChainIntact
      <4>3. below \in SUBSET events /\ e.seq \in Nat
        BY <2>t
      <4> HIDE DEF below
      <4> QED  BY <4>1, <4>2, <4>3, <3>1, <1>1, LastBefore DEF TypeInv
    <3> QED  BY <3>2, <3>3
  <2>4. f.prev # LastHash(below, Genesis)
    BY <2>2, <2>3, <2>t
  <2> QED  BY <2>2, <2>4 DEF Problems
<1>2. ASSUME TypeInv, ChainIntact, NEW e \in events, NEW about \in Entries, NEW aside \in Asides
      PROVE  Problems(Altered(e, [e EXCEPT !.about = about, !.aside = aside]), Genesis) # {}
               <=> Payload(about) # Payload(e.about)
  <2> DEFINE f == [e EXCEPT !.about = about, !.aside = aside]
  <2>1. IsEvent(e) /\ e.hash = Hash(e.prev, Payload(e.about))
    BY <1>2 DEF TypeInv, TypeOK, ChainIntact
  <2>2. f.seq = e.seq /\ f.prev = e.prev /\ f.hash = e.hash /\ f.about = about
    BY <2>1 DEF IsEvent
  <2> HIDE DEF f
  <2>3. CASE Payload(about) = Payload(e.about)
    BY <2>2, <2>3, <1>2, HiddenAlteration DEF f
  <2>4. CASE Payload(about) # Payload(e.about)
    <3>1. f.hash # Hash(f.prev, Payload(f.about))
      BY <2>1, <2>2, <2>4
    <3>2. f \in Problems(Altered(e, f), Genesis)
      BY <3>1 DEF Problems, Altered
    <3> QED  BY <3>2, <2>4 DEF f
  <2> QED  BY <2>3, <2>4
<1>3. ASSUME TypeInv, ChainIntact, NEW e \in events, e.seq < head.next - 1,
             NEW about \in Entries, Payload(about) # Payload(e.about)
      PROVE  Problems(Altered(e, [e EXCEPT !.about = about,
                                           !.hash = Hash(e.prev, Payload(about))]), Genesis) # {}
  <2> DEFINE f == [e EXCEPT !.about = about, !.hash = Hash(e.prev, Payload(about))]
             rows == Altered(e, f)
  <2>t. /\ head.next \in Nat \ {0}
        /\ IsEvent(e) /\ e.seq \in 1..(head.next - 1)
        /\ \A n \in 1..(head.next - 1) : \E d \in events : d.seq = n
        /\ e.hash = Hash(e.prev, Payload(e.about))
    BY <1>3 DEF TypeInv, TypeOK, ChainIntact
  <2>1. f.seq = e.seq /\ f.prev = e.prev /\ f.hash = Hash(e.prev, Payload(about))
    BY <2>t DEF IsEvent
  <2>2. f.hash # e.hash
    BY <2>1, <2>t, <1>3
  <2>3. PICK g \in events : g.seq = e.seq + 1
    BY <2>t, <1>3
  <2>4. g.prev = e.hash /\ g # e
    BY <2>3, <2>t, <1>3 DEF ChainIntact
  <2> HIDE DEF f
  <2>5. g \in rows /\ f \in rows
    BY <2>4 DEF Altered
  <2>6. /\ \A d \in rows : d.seq \in 1..(head.next - 1)
        /\ \A c, d \in rows : c.seq = d.seq => c = d
    BY <2>1, <1>3, AlteredRow
  <2> HIDE DEF rows
  <2> DEFINE below == {d \in rows : d.seq < g.seq}
  <2>7. LastHash(below, Genesis) = f.hash
    <3>1. f \in below
      BY <2>1, <2>3, <2>5, <2>t
    <3>2. /\ \A d \in below : d.seq \in Nat /\ d.seq <= f.seq
          /\ \A c, d \in below : c.seq = d.seq => c = d
      BY <2>1, <2>3, <2>6, <2>t
    <3> HIDE DEF below
    <3>3. Last(below) = f
      BY <3>1, <3>2, LastIs
    <3> QED  BY <3>1, <3>3 DEF LastHash
  <2>8. g.prev # LastHash(below, Genesis)
    BY <2>7, <2>4, <2>2
  <2>9. g \in Problems(rows, Genesis)
    BY <2>8, <2>5 DEF Problems
  <2> QED  BY <2>9 DEF rows, f
<1>4. TypeInv /\ ChainIntact => DamageShows
  BY <1>1, <1>2, <1>3 DEF DamageShows
<1>5. Init => TypeInv /\ ChainIntact
  BY TypeInit, ChainInit
<1>6. TypeInv /\ ChainIntact /\ [Next]_vars => (TypeInv /\ ChainIntact)'
  BY TypeStep, ChainStep
<1> QED  BY <1>4, <1>5, <1>6, PTL DEF Spec

\* Under the same assumptions on the hash function, verify_audit_chain() is right either
\* way: what it reports is there, and it reports every lost row and exactly the
\* alterations that show in the hashed text.
THEOREM VerifierCanBeBelieved ==
    ASSUME \A p, x : Hash(p, x) # p,
           \A p, x, y : Hash(p, x) = Hash(p, y) => x = y
    PROVE  Spec => []VerifierIsRight
<1>1. Spec => []DamageShows
  BY DamageReported
<1> QED  BY <1>1, VerificationSound, PTL DEF VerifierIsRight

-----------------------------------------------------------------------------
(***************************************************************************)
(* The trail implements the list of module AuditLog.                       *)
(***************************************************************************)
About(n) == (CHOOSE e \in events : e.seq = n).about

Trail == [n \in 1..(head.next - 1) |-> About(n)]

\* The list has one entry per number, each committed row's own.
Listing ==
    /\ Trail \in Seq(Entries)
    /\ Len(Trail) = head.next - 1
    /\ \A e \in events : e.seq \in 1..(head.next - 1) /\ Trail[e.seq] = e.about
    /\ \A x : (\E n \in 1..Len(Trail) : Trail[n] = x) <=> (\E e \in events : e.about = x)

LEMMA TrailShape == TypeInv /\ ChainIntact => Listing
<1> SUFFICES ASSUME TypeInv, ChainIntact PROVE Listing
  OBVIOUS
<1>t. /\ head.next - 1 \in Nat
      /\ \A e \in events : e.about \in Entries /\ e.seq \in 1..(head.next - 1)
      /\ \A n \in 1..(head.next - 1) : \E e \in events : e.seq = n
      /\ \A d, e \in events : d.seq = e.seq => d = e
  BY DEF TypeInv, TypeOK, IsEvent, ChainIntact
<1>1. \A n \in 1..(head.next - 1) :
        \E e \in events : e.seq = n /\ About(n) = e.about
  BY <1>t DEF About
<1>2. \A e \in events : About(e.seq) = e.about
  BY <1>1, <1>t
<1>3. Trail \in [1..(head.next - 1) -> Entries]
  BY <1>1, <1>t DEF Trail
<1>4. Trail \in Seq(Entries) /\ Len(Trail) = head.next - 1
  BY <1>3, <1>t
<1>5. \A e \in events : e.seq \in 1..(head.next - 1) /\ Trail[e.seq] = e.about
  BY <1>2, <1>t DEF Trail
<1>6. \A n \in 1..(head.next - 1) : \E e \in events : Trail[n] = e.about
  BY <1>1 DEF Trail
<1> QED  BY <1>4, <1>5, <1>6 DEF Listing

\* A commit appends the entry it carries.
LEMMA PublishAppends ==
    ASSUME TypeInv, ChainIntact, TypeInv', ChainIntact',
           NEW r \in Requests, headLock = r, Publish(r)
    PROVE  Trail' = Append(Trail, draft[r].about)
<1> DEFINE d == draft[r]
           N == head.next - 1
<1>1. /\ d.about \in Entries /\ d.seq = head.next
      /\ events' = events \cup {d}
      /\ head'.next = head.next + 1
  BY PublishEffect DEF TypeInv
<1>2. /\ Trail \in Seq(Entries) /\ Len(Trail) = N
      /\ \A e \in events : e.seq \in 1..N /\ Trail[e.seq] = e.about
  BY TrailShape DEF Listing
<1>3. /\ Trail' \in Seq(Entries) /\ Len(Trail') = head'.next - 1
      /\ \A e \in events' : e.seq \in 1..(head'.next - 1) /\ Trail'[e.seq] = e.about
  <2>1. TypeInv' /\ ChainIntact' => Listing'
    BY TrailShape, PTL
  <2> QED  BY <2>1 DEF Listing
<1>t. N \in Nat /\ head.next \in Nat /\ \A n \in 1..N : \E e \in events : e.seq = n
  BY DEF TypeInv, TypeOK, ChainIntact
<1> HIDE DEF d, N
<1>4. \A n \in 1..N : Trail'[n] = Trail[n]
  BY <1>1, <1>2, <1>3, <1>t
<1>5. Len(Trail') = N + 1 /\ Trail'[N + 1] = d.about
  BY <1>1, <1>3, <1>t DEF N
<1> DEFINE T == Trail
           U == Trail'
<1>6. T \in Seq(Entries) /\ U \in Seq(Entries) /\ Len(T) = N /\ Len(U) = N + 1
  BY <1>2, <1>3, <1>5
<1>7. (\A n \in 1..N : U[n] = T[n]) /\ U[N + 1] = d.about
  BY <1>4, <1>5
<1> HIDE DEF T, U
<1>8. U = Append(T, d.about)
  BY <1>1, <1>6, <1>7, <1>t
<1> QED  BY <1>8 DEF T, U, d

LEMMA LogStep == AccountInv /\ AccountInv' /\ [Next]_vars => [Abstract!Next]_(Abstract!logVars)
<1> SUFFICES ASSUME AccountInv, AccountInv', [Next]_vars
             PROVE  [Abstract!Next]_(Abstract!logVars)
  OBVIOUS
<1> USE ChainAssumption
<1>t. /\ TypeInv /\ ChainIntact /\ Stages /\ TypeInv' /\ ChainIntact'
      /\ phase \in [Requests -> Phases]
  BY DEF AccountInv, TypeInv, TypeOK
<1>l. \A x : (\E n \in 1..Len(Trail) : Trail[n] = x) <=> (\E e \in events : e.about = x)
  BY <1>t, TrailShape DEF Listing
<1>p. \A r \in Requests : phase[r] \in {"PERMITTED", "RECORDING"} =>
        \E e \in events : e.about = Decision(r, "PERMITTED")
  BY DEF AccountInv, Accounted
<1>m. Abstract!logVars = <<Trail, changed>>
  BY DEF Abstract!logVars, Trail, About
<1>1. ASSUME NEW r \in Requests, CommitDecision(r)
      PROVE  Abstract!Next
  <2>1. PICK v \in Verdicts : draft[r].about = Decision(r, v)
    BY <1>1, <1>t, CommitsPublish
  <2>2. Trail' = Append(Trail, Decision(r, v)) /\ changed' = changed
    BY <2>1, <1>1, <1>t, CommitsPublish, PublishAppends DEF CommitDecision
  <2>3. \A e \in events : e.about.req # r
    BY <1>1, <1>t DEF CommitDecision, Stages, StagesOf
  <2>4. \A w : ~\E e \in events : e.about = Decision(r, w)
    BY <2>3 DEF Decision
  <2>5. Abstract!Decide(r, v)
    BY <2>2, <2>4, <1>l DEF Abstract!Decide, Abstract!Listed, Abstract!Decision, Decision,
                            Trail, About
  <2> QED  BY <2>5 DEF Abstract!Next, Verdicts
<1>2. ASSUME NEW r \in Requests, Commit(r)
      PROVE  Abstract!Next
  <2>1. /\ Trail' = Append(Trail, Change(r))
        /\ changed' = changed \cup {r}
        /\ phase[r] = "RECORDING"
    BY <1>2, <1>t, CommitsPublish, PublishAppends DEF Commit
  <2>2. /\ \E e \in events : e.about = Decision(r, "PERMITTED")
        /\ ~\E e \in events : e.about = Change(r)
        /\ r \in changed <=> r \in Detached
    BY <2>1, <1>p, <1>t DEF Stages, StagesOf
  <2>3. CASE r \in Detached
    <3>1. changed' = changed
      BY <2>1, <2>2, <2>3
    <3>2. Abstract!RecordLate(r)
      BY <3>1, <2>1, <2>2, <2>3, <1>l DEF Abstract!RecordLate, Abstract!Listed,
            Abstract!Change, Change, Trail, About
    <3> QED  BY <3>2 DEF Abstract!Next
  <2>4. CASE r \notin Detached
    <3>1. Abstract!ChangeRecorded(r)
      BY <2>1, <2>2, <2>4, <1>l DEF Abstract!ChangeRecorded, Abstract!Listed,
            Abstract!Decision, Decision, Abstract!Change, Change, Trail, About
    <3> QED  BY <3>1 DEF Abstract!Next
  <2> QED  BY <2>3, <2>4
<1>3. ASSUME NEW r \in Requests, WriteAlone(r)
      PROVE  Abstract!Next
  <2>1. /\ r \in Detached /\ r \notin changed
        /\ changed' = changed \cup {r}
        /\ \E e \in events : e.about = Decision(r, "PERMITTED")
    BY <1>3, <1>p, <1>t DEF WriteAlone, Stages, StagesOf
  <2>2. Trail' = Trail
    BY <1>3 DEF WriteAlone, chainVars, Trail, About
  <2>3. Abstract!ChangeAlone(r)
    BY <2>1, <2>2, <1>l DEF Abstract!ChangeAlone, Abstract!Listed, Abstract!Decision,
                            Decision, Trail, About
  <2> QED  BY <2>3 DEF Abstract!Next
<1>4. CASE UNCHANGED <<events, head, changed>>
  BY <1>4, <1>m DEF Trail, About, Abstract!logVars
<1>5. \/ UNCHANGED <<events, head, changed>>
      \/ \E r \in Requests : CommitDecision(r) \/ Commit(r) \/ WriteAlone(r)
  BY DEF Next, Progress, Decide, Answer, BeginWrite, Record, Fail, Insert,
         Verify, VerifyStart, VerifyWalk, chainVars, vars
<1> QED  BY <1>1, <1>2, <1>3, <1>4, <1>5

\* Whatever locks, rollbacks and verifications happen, the committed trail is
\* one growing list in which permission precedes change.
THEOREM TrailImplementsLog == Spec => LogSpec
<1>1. Init => Abstract!Init
  <2>1. Init => Trail = <<>> /\ changed = {}
    BY DEF Init, Trail
  <2> QED  BY <2>1 DEF Abstract!Init, Trail, About
<1>2. AccountInv /\ [Next]_vars => AccountInv'
  BY AccountStep
<1> QED  BY <1>1, <1>2, AccountInit, LogStep, PTL DEF Spec, LogSpec, Abstract!Spec
=============================================================================
