-------------------------- MODULE CorrectionsProofs --------------------------
(***************************************************************************)
(* Theorems about Corrections, for any number of requests, officers and    *)
(* fields.  What carries them is the lock on the row: whoever decides on a *)
(* request found it open, is alone with it, and it is open until they      *)
(* commit.                                                                 *)
(***************************************************************************)
EXTENDS MCRegistration, Sequences, TLAPS

Open == {"SUBMITTED", "EVIDENCE_REQUIRED"}

\* What is left to do of raising a request.
Rest == {<<>>, <<"insert", "audit">>, <<"insert", "audit", "tell">>,
         <<"audit">>, <<"audit", "tell">>, <<"tell">>}

Decides(o, q) == deciding[o] # C!Idle /\ deciding[o].on = "correction" /\ deciding[o].about = q

\* A request is inserted once, before anybody can find it.
RaisedInOrder ==
    \A q \in Requests :
        /\ todo[q] \in Rest
        /\ todo[q] # <<>> /\ Head(todo[q]) = "insert" => asked[q].status = "DRAWN"

\* Whoever decides on a request is alone with it, and it is open.
Locked ==
    \A q \in Requests, o \in Reviews : Decides(o, q) =>
        /\ asked[q].status \in Open
        /\ \A p \in Reviews : Decides(p, q) => p = o

AnswerInv == C!TypeOK /\ RaisedInOrder /\ Locked /\ C!CorrectionsAreAnswered

-----------------------------------------------------------------------------
LEMMA RequestIs ==
  ASSUME NEW r \in C!Request
  PROVE  /\ r = [status |-> r.status, by |-> r.by, field |-> r.field,
                 current |-> r.current, wanted |-> r.wanted]
         /\ r.status \in {"NONE", "DRAWN", "SUBMITTED", "EVIDENCE_REQUIRED"} \cup C!Final
         /\ r.by \in {"CITIZEN", "GOVERNMENT_USER"} /\ r.field \in Fields
         /\ r.current \in Values \cup {Unset} /\ r.wanted \in Values
  BY DEF C!Request

LEMMA RestIs ==
  /\ Rest \subseteq Seq({"insert", "audit", "tell"})
  /\ \A s \in Rest : s # <<>> => Tail(s) \in Rest /\ (Tail(s) # <<>> => Head(Tail(s)) # "insert")
<1>1. Rest \subseteq Seq({"insert", "audit", "tell"})
  BY DEF Rest
<1>2. ASSUME NEW s \in Rest, s # <<>>
      PROVE  Tail(s) \in Rest /\ (Tail(s) # <<>> => Head(Tail(s)) # "insert")
  <2>1. CASE s = <<"insert", "audit">>
    BY <2>1 DEF Rest
  <2>2. CASE s = <<"insert", "audit", "tell">>
    BY <2>2 DEF Rest
  <2>3. CASE s = <<"audit">>
    BY <2>3 DEF Rest
  <2>4. CASE s = <<"audit", "tell">>
    BY <2>4 DEF Rest
  <2>5. CASE s = <<"tell">>
    BY <2>5 DEF Rest
  <2> QED BY <1>2, <2>1, <2>2, <2>3, <2>4, <2>5 DEF Rest
<1> QED BY <1>1, <1>2

-----------------------------------------------------------------------------
(***************************************************************************)
(* What each step leaves as it was.                                        *)
(***************************************************************************)
LEMMA AnswersKeep ==
  ASSUME C!CorrectionsAreAnswered, trail' = trail,
         \A q \in Requests : /\ heard'[q].decided = heard[q].decided
                             /\ \/ asked'[q].status = asked[q].status
                                \/ asked[q].status \notin C!Final /\ asked'[q].status \notin C!Final
  PROVE  C!CorrectionsAreAnswered'
  BY DEF C!CorrectionsAreAnswered, C!DecidedOnce, C!ToldUnlessAskedFirst, C!Entries

LEMMA LockKeeps ==
  ASSUME Locked,
         \A o \in Reviews : deciding'[o] = deciding[o] \/ deciding'[o] = C!Idle,
         \A q \in Requests : \/ asked'[q].status = asked[q].status
                             \/ asked[q].status \notin Open
                             \/ \A o \in Reviews : ~Decides(o, q)'
  PROVE  Locked'
  BY DEF Locked, Decides

\* A request that is about to be inserted cannot be found yet, so nobody decides on it.
LEMMA DrawnIsClosed ==
  /\ "DRAWN" \notin Open \cup C!Final /\ "NONE" \notin Open \cup C!Final
  /\ "SUBMITTED" \notin C!Final /\ "EVIDENCE_REQUIRED" \notin C!Final
  /\ Open \cap C!Final = {}
  BY DEF Open, C!Final

-----------------------------------------------------------------------------
(***************************************************************************)
(* Raising.                                                                *)
(***************************************************************************)
LEMMA RaiseKeeps ==
  ASSUME AnswerInv, NEW q \in Requests, NEW f \in Fields, NEW v \in Values,
         C!createCorrectionRequest(q, f, v) \/ C!createOnBehalf(q, f, v)
  PROVE  AnswerInv'
<1>1. PICK by \in {"CITIZEN", "GOVERNMENT_USER"}, current \in Values \cup {Unset},
           rest \in {<<"insert", "audit">>, <<"insert", "audit", "tell">>} :
         C!Raise(q, by, f, v, current, rest)
  BY DEF C!createCorrectionRequest, C!createOnBehalf, AnswerInv, C!TypeOK
<1> DEFINE drawn == [status |-> "DRAWN", by |-> by, field |-> f,
                     current |-> current, wanted |-> v]
<1>2. /\ asked[q].status = "NONE" /\ asked' = [asked EXCEPT ![q] = drawn]
      /\ todo' = [todo EXCEPT ![q] = rest]
      /\ UNCHANGED <<record, trail, heard, alert, deciding>>
  BY <1>1 DEF C!Raise
<1>3. drawn \in C!Request /\ rest \in Seq({"insert", "audit", "tell"}) /\ rest \in Rest
  BY RestIs DEF C!Request, Rest
<1>4. C!TypeOK'
  BY <1>2, <1>3 DEF AnswerInv, C!TypeOK
<1>5. /\ asked'[q].status = "DRAWN" /\ todo'[q] = rest
      /\ \A x \in Requests \ {q} : asked'[x] = asked[x] /\ todo'[x] = todo[x]
  BY <1>2 DEF AnswerInv, C!TypeOK
<1>6. RaisedInOrder'
  BY <1>3, <1>5 DEF AnswerInv, RaisedInOrder
<1>7. Locked'
  BY <1>2, <1>5, LockKeeps, DrawnIsClosed DEF AnswerInv
<1>8. C!CorrectionsAreAnswered'
  BY <1>2, <1>5, AnswersKeep, DrawnIsClosed DEF AnswerInv
<1> QED BY <1>4, <1>6, <1>7, <1>8 DEF AnswerInv

LEMMA StatementKeeps ==
  ASSUME AnswerInv, NEW q \in Requests,
         C!Insert(q) \/ C!RecordRaised(q) \/ C!TellRaised(q) \/ C!StopRaising(q)
  PROVE  AnswerInv'
<1>1. /\ todo' \in [Requests -> Seq({"insert", "audit", "tell"})]
      /\ \A x \in Requests \ {q} : todo'[x] = todo[x]
      /\ todo'[q] \in Rest /\ (todo'[q] # <<>> => Head(todo'[q]) # "insert")
      /\ UNCHANGED <<record, trail, alert, deciding>>
  <2>1. todo[q] \in Rest /\ todo[q] # <<>>
    BY DEF C!Insert, C!RecordRaised, C!TellRaised, C!StopRaising, C!NextOf, AnswerInv, RaisedInOrder
  <2>2. PICK rest \in {<<>>, Tail(todo[q])} : todo' = [todo EXCEPT ![q] = rest]
    BY DEF C!Insert, C!RecordRaised, C!TellRaised, C!StopRaising, C!NextOf
  <2>3. rest \in Rest /\ (rest # <<>> => Head(rest) # "insert")
    BY <2>1, <2>2, RestIs DEF Rest
  <2>4. rest \in Seq({"insert", "audit", "tell"})
    BY <2>3, RestIs
  <2>5. UNCHANGED <<record, trail, alert, deciding>>
    BY DEF C!Insert, C!RecordRaised, C!TellRaised, C!StopRaising, C!NextOf
  <2> QED BY <2>2, <2>3, <2>4, <2>5 DEF AnswerInv, C!TypeOK
<1>2. /\ asked' \in [Requests -> C!Request]
      /\ \A x \in Requests \ {q} : asked'[x] = asked[x]
      /\ \/ asked'[q] = asked[q]
         \/ asked[q].status = "DRAWN" /\ asked'[q].status = "SUBMITTED"
  <2>1. CASE C!Insert(q)
    <3>1. asked[q].status = "DRAWN"
      BY <2>1 DEF C!Insert, C!NextOf, AnswerInv, RaisedInOrder
    <3>2. asked' = [asked EXCEPT ![q] = [asked[q] EXCEPT !.status = "SUBMITTED"]]
      BY <2>1 DEF C!Insert
    <3>3. asked[q] \in C!Request
      BY DEF AnswerInv, C!TypeOK
    <3>4. [asked[q] EXCEPT !.status = "SUBMITTED"] \in C!Request
      BY <3>3, RequestIs DEF C!Request
    <3>5. [asked[q] EXCEPT !.status = "SUBMITTED"].status = "SUBMITTED"
      BY <3>3, RequestIs
    <3> QED BY <3>1, <3>2, <3>4, <3>5 DEF AnswerInv, C!TypeOK
  <2>2. CASE asked' = asked
    BY <2>2 DEF AnswerInv, C!TypeOK
  <2> QED BY <2>1, <2>2 DEF C!RecordRaised, C!TellRaised, C!StopRaising
<1>3. /\ heard' \in [Requests -> [raised : BOOLEAN,
                                 decided : {"NONE"} \cup {C!Outcome[d] : d \in C!Decision}]]
      /\ \A x \in Requests : heard'[x].decided = heard[x].decided
  <2>1. CASE heard' = heard
    BY <2>1 DEF AnswerInv, C!TypeOK
  <2>2. CASE heard' = [heard EXCEPT ![q].raised = TRUE]
    BY <2>2 DEF AnswerInv, C!TypeOK
  <2> QED BY <2>1, <2>2 DEF C!Insert, C!RecordRaised, C!TellRaised, C!StopRaising
<1>4. C!TypeOK'
  BY <1>1, <1>2, <1>3 DEF AnswerInv, C!TypeOK
<1>5. RaisedInOrder'
  BY <1>1, <1>2 DEF AnswerInv, RaisedInOrder
<1>6. Locked'
  BY <1>1, <1>2, LockKeeps, DrawnIsClosed DEF AnswerInv
<1>7. C!CorrectionsAreAnswered'
  BY <1>1, <1>2, <1>3, AnswersKeep, DrawnIsClosed DEF AnswerInv
<1> QED BY <1>4, <1>5, <1>6, <1>7 DEF AnswerInv

-----------------------------------------------------------------------------
(***************************************************************************)
(* Deciding.                                                               *)
(***************************************************************************)
LEMMA LockingKeeps ==
  ASSUME AnswerInv, NEW o \in Reviews, NEW on \in {"correction", "alert"}, NEW x, NEW d,
         C!Lock(o, on, x, d), [on |-> on, about |-> x, decision |-> d] \in C!Review,
         on = "correction" => x \in Requests /\ asked[x].status \in Open
  PROVE  AnswerInv'
<1> DEFINE taken == [on |-> on, about |-> x, decision |-> d]
<1>1. /\ deciding[o] = C!Idle /\ C!Unlocked(on, x) /\ deciding' = [deciding EXCEPT ![o] = taken]
      /\ UNCHANGED <<record, asked, todo, trail, heard, alert>>
  BY DEF C!Lock
<1>2. \A p \in Reviews : deciding'[p] = deciding[p] \/ (p = o /\ deciding'[p] = taken)
  BY <1>1
<1>3. C!TypeOK'
  BY <1>1 DEF AnswerInv, C!TypeOK
<1>4. RaisedInOrder'
  BY <1>1 DEF AnswerInv, RaisedInOrder
<1>5. Locked'
  <2>1. ASSUME NEW q \in Requests, NEW p \in Reviews, Decides(p, q)'
        PROVE  /\ asked[q].status \in Open
               /\ Decides(p, q) \/ (p = o /\ on = "correction" /\ x = q)
    BY <1>2, <2>1 DEF Decides, AnswerInv, Locked
  <2>2. ASSUME NEW q \in Requests, on = "correction", x = q
        PROVE  \A p \in Reviews : ~Decides(p, q)
    BY <1>1, <2>2 DEF C!Unlocked, Decides
  <2>3. ASSUME NEW q \in Requests, NEW p \in Reviews, NEW r \in Reviews,
               Decides(p, q)', Decides(r, q)'
        PROVE  p = r
    BY <2>1, <2>2, <2>3 DEF AnswerInv, Locked
  <2> QED BY <1>1, <2>1, <2>3 DEF Locked
<1>6. C!CorrectionsAreAnswered'
  BY <1>1, AnswersKeep DEF AnswerInv
<1> QED BY <1>3, <1>4, <1>5, <1>6 DEF AnswerInv

LEMMA LetGoKeeps ==
  ASSUME AnswerInv, NEW o \in Reviews, C!CommitAlert(o) \/ C!Abandon(o)
  PROVE  AnswerInv'
<1>1. /\ deciding' = [deciding EXCEPT ![o] = C!Idle]
      /\ UNCHANGED <<record, asked, todo, trail, heard>>
  BY DEF C!CommitAlert, C!Abandon, C!Release
<1>2. \A p \in Reviews : deciding'[p] = deciding[p] \/ deciding'[p] = C!Idle
  BY <1>1
<1>3. alert' \in [Alerts -> {"OPEN"} \cup C!AlertDecision]
  <2>1. CASE alert' = alert
    BY <2>1 DEF AnswerInv, C!TypeOK
  <2>2. CASE C!CommitAlert(o)
    <3>1. deciding[o].decision \in C!AlertDecision
      BY <2>2 DEF C!CommitAlert, AnswerInv, C!TypeOK, C!Review, C!Idle
    <3> QED BY <2>2, <3>1 DEF C!CommitAlert, AnswerInv, C!TypeOK
  <2> QED BY <2>1, <2>2 DEF C!Abandon
<1>4. C!TypeOK'
  BY <1>1, <1>3 DEF AnswerInv, C!TypeOK, C!Review
<1>5. RaisedInOrder'
  BY <1>1 DEF AnswerInv, RaisedInOrder
<1>6. Locked'
  BY <1>1, <1>2, LockKeeps DEF AnswerInv
<1>7. C!CorrectionsAreAnswered'
  BY <1>1, AnswersKeep DEF AnswerInv
<1> QED BY <1>4, <1>5, <1>6, <1>7 DEF AnswerInv

LEMMA CommitKeeps ==
  ASSUME AnswerInv, NEW o \in Reviews, C!CommitCorrection(o),
         NEW q, q = deciding[o].about, NEW d, d = deciding[o].decision
  PROVE  AnswerInv'
<1> DEFINE status == C!Outcome[d]
           entry == [about |-> q, decision |-> d, previous |-> asked[q].current,
                     replaced |-> record[asked[q].field],
                     new |-> IF d = "APPROVE" THEN asked[q].wanted ELSE Unset]
<1>1. /\ C!apply(q, d) /\ asked' = [asked EXCEPT ![q].status = status]
      /\ trail' = trail \cup {entry} /\ C!Tell(q, status)
      /\ deciding' = [deciding EXCEPT ![o] = C!Idle] /\ UNCHANGED <<todo, alert>>
      /\ deciding[o] # C!Idle /\ deciding[o].on = "correction"
  BY DEF C!CommitCorrection, C!Release
<1>2. q \in Requests /\ d \in C!Decision /\ Decides(o, q)
  BY <1>1 DEF AnswerInv, C!TypeOK, C!Review, Decides
<1>3. asked[q] \in C!Request /\ asked[q].status \in Open
  BY <1>2 DEF AnswerInv, C!TypeOK, Locked
<1>4. /\ status \in {"APPLIED", "REJECTED", "EVIDENCE_REQUIRED"}
      /\ status \in {C!Outcome[e] : e \in C!Decision}
      /\ status \in C!Final <=> d \in {"APPROVE", "REJECT"}
  BY <1>2 DEF C!Outcome, C!Decision, C!Final
<1>5. entry \in C!Entry
  BY <1>2, <1>3 DEF C!Entry, AnswerInv, C!TypeOK, C!Request
<1>6. record' \in [Fields -> Values]
  BY <1>1, <1>3 DEF C!apply, AnswerInv, C!TypeOK, C!Request
<1>7. /\ asked' \in [Requests -> C!Request]
      /\ asked'[q].status = status
      /\ \A x \in Requests \ {q} : asked'[x] = asked[x]
  <2>1. asked' = [asked EXCEPT ![q] = [asked[q] EXCEPT !.status = status]]
    BY <1>1
  <2>2. /\ [asked[q] EXCEPT !.status = status] \in C!Request
        /\ [asked[q] EXCEPT !.status = status].status = status
    BY <1>3, <1>4, RequestIs DEF C!Request, C!Final
  <2> QED BY <1>2, <2>1, <2>2 DEF AnswerInv, C!TypeOK
<1>8. /\ heard' \in [Requests -> [raised : BOOLEAN,
                                 decided : {"NONE"} \cup {C!Outcome[e] : e \in C!Decision}]]
      /\ heard'[q].decided = IF heard[q].decided = "NONE" THEN status ELSE heard[q].decided
      /\ \A x \in Requests \ {q} : heard'[x] = heard[x]
  <2> DEFINE Notice == [raised : BOOLEAN, decided : {"NONE"} \cup {C!Outcome[e] : e \in C!Decision}]
             now == IF heard[q].decided = "NONE" THEN status ELSE heard[q].decided
  <2>1. heard' = [heard EXCEPT ![q] = [heard[q] EXCEPT !.decided = now]]
    BY <1>1 DEF C!Tell
  <2>2. heard \in [Requests -> Notice] /\ heard[q] \in Notice
    BY <1>2 DEF AnswerInv, C!TypeOK
  <2>3. [heard[q] EXCEPT !.decided = now] \in Notice
        /\ [heard[q] EXCEPT !.decided = now].decided = now
    BY <1>4, <2>2
  <2> QED BY <1>2, <2>1, <2>2, <2>3
<1>9. \A p \in Reviews : deciding'[p] = deciding[p] \/ deciding'[p] = C!Idle
  BY <1>1
<1>10. C!TypeOK'
  BY <1>1, <1>5, <1>6, <1>7, <1>8 DEF AnswerInv, C!TypeOK, C!Review
<1>11. RaisedInOrder'
  BY <1>1, <1>3, <1>7, DrawnIsClosed DEF AnswerInv, RaisedInOrder, Open
<1>12. Locked'
  <2>1. \A p \in Reviews : ~Decides(p, q)'
    <3>1. deciding'[o] = C!Idle
      BY <1>1 DEF AnswerInv, C!TypeOK
    <3>2. \A p \in Reviews : p # o => deciding'[p] = deciding[p] /\ ~Decides(p, q)
      BY <1>1, <1>2 DEF AnswerInv, Locked
    <3> QED BY <1>1, <3>1, <3>2 DEF Decides
  <2> QED BY <1>7, <1>9, <2>1, LockKeeps DEF AnswerInv
<1>13. C!CorrectionsAreAnswered'
  <2>1. \A x \in Requests \ {q}, D \in SUBSET C!Decision : C!Entries(x, D)' = C!Entries(x, D)
    BY <1>1 DEF C!Entries
  <2>2. \A D \in SUBSET C!Decision :
          C!Entries(q, D)' = IF d \in D THEN C!Entries(q, D) \cup {entry} ELSE C!Entries(q, D)
    BY <1>1 DEF C!Entries
  <2>3. C!Entries(q, {"APPROVE", "REJECT"}) = {} /\ asked[q].status \notin C!Final
    BY <1>2, <1>3, DrawnIsClosed DEF AnswerInv, C!CorrectionsAreAnswered, C!DecidedOnce
  <2>4. C!DecidedOnce'
    <3>1. IF status \in C!Final
          THEN C!Entries(q, {"APPROVE", "REJECT"})' = {entry} /\ C!Outcome[entry.decision] = status
          ELSE C!Entries(q, {"APPROVE", "REJECT"})' = {}
      BY <1>4, <2>2, <2>3 DEF C!Decision
    <3>2. entry \in trail'
      BY <1>1
    <3>3. ASSUME NEW x \in Requests \ {q}
          PROVE  IF asked'[x].status \in C!Final
                 THEN \E e \in trail' : /\ C!Entries(x, {"APPROVE", "REJECT"})' = {e}
                                       /\ C!Outcome[e.decision] = asked'[x].status
                 ELSE C!Entries(x, {"APPROVE", "REJECT"})' = {}
      <4>1. C!Entries(x, {"APPROVE", "REJECT"})' = C!Entries(x, {"APPROVE", "REJECT"})
        BY <2>1 DEF C!Decision
      <4>2. asked'[x] = asked[x] /\ trail \subseteq trail'
        BY <1>1, <1>7
      <4> QED BY <4>1, <4>2 DEF AnswerInv, C!CorrectionsAreAnswered, C!DecidedOnce
    <3> QED BY <1>7, <3>1, <3>2, <3>3 DEF C!DecidedOnce
  <2>5. C!ToldUnlessAskedFirst'
    <3>1. ASSUME C!Entries(q, {"REQUEST_EVIDENCE"})' = {}
          PROVE  heard'[q].decided = status /\ status \in C!Final
      <4>1. d # "REQUEST_EVIDENCE" /\ C!Entries(q, {"REQUEST_EVIDENCE"}) = {}
        BY <2>2, <3>1 DEF C!Decision
      <4>2. heard[q].decided = "NONE"
        BY <1>2, <2>3, <4>1 DEF AnswerInv, C!CorrectionsAreAnswered, C!ToldUnlessAskedFirst
      <4> QED BY <1>2, <1>4, <1>8, <4>1, <4>2 DEF C!Decision
    <3> QED BY <1>7, <1>8, <2>1, <3>1
            DEF AnswerInv, C!CorrectionsAreAnswered, C!ToldUnlessAskedFirst, C!Decision
  <2> QED BY <2>4, <2>5 DEF C!CorrectionsAreAnswered
<1> QED BY <1>10, <1>11, <1>12, <1>13 DEF AnswerInv

-----------------------------------------------------------------------------
LEMMA AnswerInit == C!Init => AnswerInv
<1> SUFFICES ASSUME C!Init PROVE AnswerInv
  OBVIOUS
<1>1. C!TypeOK
  BY DEF C!Init, C!TypeOK, C!Request, C!Review
<1>2. RaisedInOrder
  BY DEF C!Init, RaisedInOrder, Rest
<1>3. Locked
  BY DEF C!Init, Locked, Decides
<1>4. C!CorrectionsAreAnswered
  BY DEF C!Init, C!CorrectionsAreAnswered, C!DecidedOnce, C!ToldUnlessAskedFirst, C!Entries, C!Final
<1> QED BY <1>1, <1>2, <1>3, <1>4 DEF AnswerInv

LEMMA AnswerStep == ASSUME AnswerInv, [C!Next]_(C!vars) PROVE AnswerInv'
<1>1. CASE UNCHANGED C!vars
  <2>1. C!TypeOK'
    BY <1>1 DEF C!vars, AnswerInv, C!TypeOK
  <2>2. RaisedInOrder'
    BY <1>1 DEF C!vars, AnswerInv, RaisedInOrder
  <2>3. Locked'
    BY <1>1, LockKeeps DEF C!vars, AnswerInv
  <2>4. C!CorrectionsAreAnswered'
    BY <1>1, AnswersKeep DEF C!vars, AnswerInv
  <2> QED BY <2>1, <2>2, <2>3, <2>4 DEF AnswerInv
<1>2. ASSUME NEW q \in Requests, NEW f \in Fields, NEW v \in Values,
             C!createCorrectionRequest(q, f, v) \/ C!createOnBehalf(q, f, v)
      PROVE  AnswerInv'
  BY <1>2, RaiseKeeps
<1>3. ASSUME NEW q \in Requests,
             C!Insert(q) \/ C!RecordRaised(q) \/ C!TellRaised(q) \/ C!StopRaising(q)
      PROVE  AnswerInv'
  BY <1>3, StatementKeeps
<1>4. ASSUME NEW o \in Reviews, NEW q \in Requests, NEW d \in C!Decision, C!decide(o, q, d)
      PROVE  AnswerInv'
  <2>1. [on |-> "correction", about |-> q, decision |-> d] \in C!Review
    BY DEF C!Review
  <2> QED BY <1>4, <2>1, LockingKeeps DEF C!decide, Open
<1>5. ASSUME NEW o \in Reviews, NEW a \in Alerts, NEW d \in C!AlertDecision, C!reviewAlert(o, a, d)
      PROVE  AnswerInv'
  <2>1. [on |-> "alert", about |-> a, decision |-> d] \in C!Review
    BY DEF C!Review
  <2> QED BY <1>5, <2>1, LockingKeeps DEF C!reviewAlert
<1>6. ASSUME NEW o \in Reviews, C!CommitCorrection(o) PROVE AnswerInv'
  BY <1>6, CommitKeeps
<1>7. ASSUME NEW o \in Reviews, C!CommitAlert(o) \/ C!Abandon(o) PROVE AnswerInv'
  BY <1>7, LetGoKeeps
<1> QED BY <1>1, <1>2, <1>3, <1>4, <1>5, <1>6, <1>7 DEF C!Next

\* Every state of corrections and alerts has the right type.
THEOREM TypeCorrect == C!Spec => []C!TypeOK
<1>1. AnswerInv => C!TypeOK
  BY DEF AnswerInv
<1>2. AnswerInv /\ [C!Next]_(C!vars) => AnswerInv'
  BY AnswerStep
<1> QED BY AnswerInit, <1>1, <1>2, PTL DEF C!Spec

\* CorrectionsAreAnswered of MCRegistration: however many officers meet on a request,
\* decide() of corrections.service.ts decides it once, the trail holds that decision and
\* no other, and the resident reads it unless the request was returned for evidence before.
THEOREM AnsweredOnce == C!Spec => []CorrectionsAreAnswered
<1>1. AnswerInv => CorrectionsAreAnswered
  BY DEF AnswerInv, CorrectionsAreAnswered
<1>2. AnswerInv /\ [C!Next]_(C!vars) => AnswerInv'
  BY AnswerStep
<1> QED BY AnswerInit, <1>1, <1>2, PTL DEF C!Spec

\* The run of MCRegistration is a run of each of its three areas.
THEOREM RegistrationAreas == MCSpec => Spec /\ S!Spec /\ C!Spec
<1>1. MCInit => Init /\ S!Init /\ C!Init
  BY DEF MCInit
<1>2. [MCNext]_<<area, vars, pageVars, correctionVars>>
        => [Next]_vars /\ [S!Next]_(S!vars) /\ [C!Next]_(C!vars)
  BY DEF MCNext, pageVars, correctionVars, S!vars, S!placeVars, S!levelVars, S!historyVars, C!vars
<1> QED BY <1>1, <1>2, PTL DEF MCSpec, Spec, S!Spec, C!Spec
=============================================================================
