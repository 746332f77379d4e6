-------------------------- MODULE RegistrationProofs -------------------------
(***************************************************************************)
(* Theorems about Registration, for any number of applicants, reviewers    *)
(* and identifiers and any resemblance.  First what holds however the      *)
(* calls interleave, then what holds of applications whose reviews do not. *)
(***************************************************************************)
EXTENDS Registration, TLAPS

\* The types a step leaves a review call or a desk in.
ReviewRecords ==
    [stage : {"READ"}, app : Applications, pcid : Pcids, decision : Decisions]
    \cup [stage : {"COUNTED"}, app : Applications, pcid : Pcids, decision : Decisions,
          remaining : SUBSET Pcids]

LEMMA InFlightShape ==
    ASSUME TypeOK, NEW v \in Reviews, review[v] # Idle
    PROVE  /\ review[v].app \in Applications
           /\ review[v].pcid \in Pcids
           /\ review[v].decision \in Decisions
           /\ review[v].stage = "COUNTED" => review[v].remaining \subseteq Pcids
  BY DEF TypeOK

LEMMA DeskShape ==
    ASSUME TypeOK, NEW a \in Applications, desk[a] # Idle
    PROVE  desk[a].found \subseteq Pcids
  BY DEF TypeOK

\* Type correctness of the register, the queue and the calls in flight.
THEOREM TypeCorrect == Spec => []TypeOK
<1>1. Init => TypeOK
  BY RegistrationAssumption DEF Init, TypeOK, Statuses, Reviewed
<1>2. TypeOK /\ [Next]_vars => TypeOK'
  <2> SUFFICES ASSUME TypeOK, [Next]_vars PROVE TypeOK'
    OBVIOUS
  <2>1. ASSUME NEW a \in Applications, NEW p \in Pcids, NEW nin \in Nins \cup {NoNin}, Issue(a, p, nin)
        PROVE  /\ citizens' \subseteq Citizens
               /\ allocated' \subseteq Pcids
               /\ issued' \in [Applications -> Pcids \cup {NoPcid}]
    BY <2>1 DEF Issue, TypeOK, Citizens
  <2>2. ASSUME NEW a \in Applications, Search(a) PROVE TypeOK'
    <3>1. {c.pcid : c \in Matches(a)} \subseteq Pcids
      <4>1. \A c \in citizens : c.pcid \in Pcids
        BY DEF TypeOK, Citizens
      <4> QED BY <4>1 DEF Matches
    <3> DEFINE d == [stage |-> "SEARCHED", found |-> {c.pcid : c \in Matches(a)}]
    <3>2. d \in [stage : {"SEARCHED"}, found : SUBSET Pcids]
      BY <3>1
    <3>3. desk' = [desk EXCEPT ![a] = d] /\ known' = [known EXCEPT ![a] = allocated]
      BY <2>2 DEF Search
    <3> HIDE DEF d
    <3>4. desk' \in [Applications -> {Idle} \cup [stage : {"SEARCHED"}, found : SUBSET Pcids]]
      BY <3>2, <3>3 DEF TypeOK
    <3>5. known' \in [Applications -> SUBSET Pcids]
      BY <3>3 DEF TypeOK
    <3> QED BY <2>2, <3>4, <3>5 DEF TypeOK, Search, registerVars, queueVars
  <2>3. ASSUME NEW a \in Applications, Queue(a) PROVE TypeOK'
    BY <2>3 DEF TypeOK, Queue, registerVars, historyVars, Reviewed, Statuses
  <2>4. ASSUME NEW a \in Applications, NEW p \in Pcids, IssueAtDesk(a, p) PROVE TypeOK'
    <3>1. NinOf[a] \in Nins \cup {NoNin}
      BY RegistrationAssumption
    <3>2. Issue(a, p, NinOf[a])
      BY <2>4 DEF IssueAtDesk
    <3> QED BY <2>1, <2>4, <3>1, <3>2 DEF TypeOK, IssueAtDesk, Statuses, historyVars
  <2>5. ASSUME NEW a \in Applications, AbandonDesk(a) PROVE TypeOK'
    BY <2>5 DEF TypeOK, AbandonDesk, registerVars, queueVars, historyVars
  <2>6. ASSUME NEW v \in Reviews, NEW a \in Applications, NEW p \in Pcids, NEW d \in Decisions,
               Read(v, a, p, d)
        PROVE TypeOK'
    BY <2>6 DEF TypeOK, Read, registerVars, queueVars
  <2>7. ASSUME NEW v \in Reviews, Decide(v) PROVE TypeOK'
    <3>1. PendingBut(review[v].app, review[v].pcid) \subseteq Pcids
      BY DEF PendingBut
    <3>2. review[v] # Idle
      BY <2>7 DEF Decide
    <3> QED BY <2>7, <3>1, <3>2, InFlightShape DEF TypeOK, Decide, registerVars, queueVars, historyVars
  <2>8. ASSUME NEW v \in Reviews, Decided(v), Counted(v)
        PROVE  /\ candidate' \in [Applications -> [Pcids -> Reviewed]]
               /\ review[v].app \in Applications
               /\ UNCHANGED <<alerts, desk, known, overlapped>>
               /\ review' = [review EXCEPT ![v] = Idle]
    BY <2>8, InFlightShape DEF TypeOK, Decided, Counted, Reviewed, historyVars
  <2>9. ASSUME NEW v \in Reviews, Confirm(v) \/ Distinguish(v) PROVE TypeOK'
    <3>1. Counted(v) /\ Decided(v)
      BY <2>9 DEF Confirm, Distinguish
    <3>2. request' \in [Applications -> Statuses] /\ UNCHANGED <<issued, citizens, allocated>>
      BY <2>8, <2>9, <3>1 DEF TypeOK, Confirm, Distinguish, registerVars, Statuses
    <3>3. /\ candidate' \in [Applications -> [Pcids -> Reviewed]]
          /\ UNCHANGED <<alerts, desk, known, overlapped>>
          /\ review' = [review EXCEPT ![v] = Idle]
      BY <2>8, <3>1
    <3> QED BY <3>2, <3>3 DEF TypeOK
  <2>10. ASSUME NEW v \in Reviews, NEW p \in Pcids, Clear(v, p) PROVE TypeOK'
    <3>1. Counted(v) /\ Decided(v) /\ Issue(review[v].app, p, NoNin)
      BY <2>10 DEF Clear
    <3>2. /\ citizens' \subseteq Citizens
          /\ allocated' \subseteq Pcids
          /\ issued' \in [Applications -> Pcids \cup {NoPcid}]
      BY <2>1, <2>8, <3>1
    <3>3. request' \in [Applications -> Statuses]
      BY <2>8, <2>10, <3>1 DEF TypeOK, Clear, Statuses
    <3>4. /\ candidate' \in [Applications -> [Pcids -> Reviewed]]
          /\ UNCHANGED <<alerts, desk, known, overlapped>>
          /\ review' = [review EXCEPT ![v] = Idle]
      BY <2>8, <3>1
    <3> QED BY <3>2, <3>3, <3>4 DEF TypeOK
  <2>11. ASSUME NEW v \in Reviews, AbandonReview(v) PROVE TypeOK'
    BY <2>11 DEF TypeOK, AbandonReview, registerVars, queueVars, historyVars
  <2>12. CASE UNCHANGED vars
    BY <2>12 DEF TypeOK, vars, registerVars, queueVars, historyVars
  <2> QED BY <2>2, <2>3, <2>4, <2>5, <2>6, <2>7, <2>9, <2>10, <2>11, <2>12
          DEF Next, Registers, ReviewsOne
<1> QED BY <1>1, <1>2, PTL DEF Spec

-----------------------------------------------------------------------------
(***************************************************************************)
(* However the calls interleave.  What an application was found to resemble *)
(* is first in the desk's hands and then among its candidates, so nobody    *)
(* on the register at the search can be skipped by the reviewers.          *)
(***************************************************************************)

\* Somebody on the register when a's search was made, whom a resembles.
Known(a, d) == d.pcid \in known[a] /\ <<a, d.of>> \in Resembles

\* Before its desk commits, an application has left no trace.
FreshHasNothing ==
    \A a \in Applications : request[a] = "NONE" =>
        /\ RecordsOf(a) = {}
        /\ \A p \in Pcids : candidate[a][p] = "NONE"

\* A search sees only what is on the register.
KnownIsOld == \A a \in Applications : known[a] \subseteq allocated

FoundAtDesk ==
    \A a \in Applications : desk[a] # Idle =>
        /\ request[a] = "NONE"
        /\ \A d \in citizens : Known(a, d) => d.pcid \in desk[a].found

FoundInQueue ==
    \A a \in Applications : request[a] # "NONE" =>
        \A d \in citizens : Known(a, d) => candidate[a][d.pcid] # "NONE"

InFlightIsCandidate ==
    \A v \in Reviews : review[v] # Idle =>
        candidate[review[v].app][review[v].pcid] # "NONE"

\* A reviewer's count covers what is still pending: candidates are only ever
\* decided after it.
CountCovers ==
    \A v \in Reviews : Counted(v) =>
        PendingBut(review[v].app, review[v].pcid) \subseteq review[v].remaining

AskedInv ==
    /\ TypeOK /\ IdentifierNamesOne
    /\ FreshHasNothing /\ KnownIsOld /\ FoundAtDesk /\ FoundInQueue
    /\ InFlightIsCandidate /\ CountCovers /\ IssuedIsReviewed

(***************************************************************************)
(* While the reviews of an application do not overlap.                     *)
(***************************************************************************)
OneReview ==
    \A a \in Applications \ overlapped : \A v, w \in About(a) : v = w

ReviewIsPending ==
    \A v \in Reviews : review[v] # Idle /\ review[v].app \notin overlapped =>
        candidate[review[v].app][review[v].pcid] = "PENDING_REVIEW"

CountIsExact ==
    \A v \in Reviews : Counted(v) /\ review[v].app \notin overlapped =>
        review[v].remaining = PendingBut(review[v].app, review[v].pcid)

AloneInv ==
    /\ OneReview /\ ReviewIsPending /\ CountIsExact
    /\ OnePcidPerApplication /\ QueuedCanBeFound

-----------------------------------------------------------------------------
\* What allocate() and the insert of the citizen add to the register.
LEMMA IssueAdds ==
    ASSUME NEW a, NEW p, NEW nin, Issue(a, p, nin)
    PROVE  \E c : /\ c.pcid = p /\ c.of = a
                  /\ p \notin allocated
                  /\ citizens' = citizens \cup {c}
                  /\ allocated' = allocated \cup {p}
                  /\ issued' = [issued EXCEPT ![a] = p]
<1> DEFINE c == [pcid |-> p, of |-> a, nin |-> nin]
<1>1. c.pcid = p /\ c.of = a
  OBVIOUS
<1>2. citizens' = citizens \cup {c}
  BY DEF Issue
<1> HIDE DEF c
<1> QED BY <1>1, <1>2 DEF Issue

\* What the commit of a review writes to the candidates.
LEMMA DecidedWrites ==
    ASSUME TypeOK, NEW v \in Reviews, Counted(v), Decided(v)
    PROVE  \A a \in Applications, p \in Pcids : candidate'[a][p] =
             IF a = review[v].app /\ p = review[v].pcid
             THEN review[v].decision ELSE candidate[a][p]
  BY InFlightShape DEF TypeOK, Decided, Counted

\* What queueForReview() writes to them.
LEMMA QueueWrites ==
    ASSUME TypeOK, NEW b \in Applications, Queue(b)
    PROVE  \A a \in Applications, p \in Pcids : candidate'[a][p] =
             IF a = b THEN IF p \in desk[b].found THEN "PENDING_REVIEW" ELSE "NONE"
                      ELSE candidate[a][p]
  BY DEF TypeOK, Queue

\* The records of the other applications are not touched by an issue.
LEMMA IssueKeepsOthers ==
    ASSUME NEW a, NEW p, NEW nin, Issue(a, p, nin), NEW b, b # a
    PROVE  RecordsOf(b)' = RecordsOf(b)
<1>1. PICK c : c.of = a /\ citizens' = citizens \cup {c}
  BY IssueAdds
<1> QED BY <1>1 DEF RecordsOf

\* Somebody whom a was known to resemble is not the one just registered.
LEMMA KnownBeforeIssue ==
    ASSUME KnownIsOld, NEW a, NEW p, NEW nin, Issue(a, p, nin), known' = known,
           NEW b \in Applications, NEW d \in citizens', Known(b, d)'
    PROVE  d \in citizens /\ Known(b, d)
<1>1. PICK c : c.pcid = p /\ p \notin allocated /\ citizens' = citizens \cup {c}
  BY IssueAdds
<1>2. d.pcid \in known[b]
  BY DEF Known
<1>3. d.pcid # p
  BY <1>1, <1>2 DEF KnownIsOld
<1> QED BY <1>1, <1>3 DEF Known

LEMMA IdentifierStep ==
    ASSUME TypeOK, IdentifierNamesOne, [Next]_vars
    PROVE  IdentifierNamesOne'
<1>1. ASSUME NEW a \in Applications, NEW p \in Pcids, NEW nin, Issue(a, p, nin)
      PROVE  IdentifierNamesOne'
  <2>1. PICK c : /\ c.pcid = p /\ c.of = a /\ p \notin allocated
                 /\ citizens' = citizens \cup {c}
                 /\ allocated' = allocated \cup {p}
                 /\ issued' = [issued EXCEPT ![a] = p]
    BY <1>1, IssueAdds
  <2>2. \A d \in citizens : d.pcid # p
    BY <2>1 DEF IdentifierNamesOne
  <2>3. \A d, e \in citizens' : d.pcid = e.pcid => d = e
    BY <2>1, <2>2 DEF IdentifierNamesOne
  <2>4. {d.pcid : d \in citizens'} = allocated'
    BY <2>1 DEF IdentifierNamesOne
  <2>5. ASSUME NEW b \in Applications, issued'[b] # NoPcid
        PROVE  \E d \in citizens' : d.pcid = issued'[b] /\ d.of = b
    <3>1. CASE b = a
      BY <2>1, <3>1 DEF TypeOK
    <3>2. CASE b # a
      BY <2>1, <2>5, <3>2 DEF TypeOK, IdentifierNamesOne
    <3> QED BY <3>1, <3>2
  <2> QED BY <2>3, <2>4, <2>5 DEF IdentifierNamesOne
<1>2. CASE UNCHANGED <<citizens, allocated, issued>>
  BY <1>2 DEF IdentifierNamesOne
<1>3. ASSUME NEW a \in Applications, Registers(a) PROVE IdentifierNamesOne'
  <2>1. CASE \E p \in Pcids : IssueAtDesk(a, p)
    BY <1>1, <2>1 DEF IssueAtDesk
  <2>2. CASE Search(a) \/ Queue(a) \/ AbandonDesk(a)
    BY <1>2, <2>2 DEF Search, Queue, AbandonDesk, registerVars, queueVars
  <2> QED BY <1>3, <2>1, <2>2 DEF Registers
<1>4. ASSUME NEW v \in Reviews, ReviewsOne(v) PROVE IdentifierNamesOne'
  <2>1. ASSUME NEW p \in Pcids, Clear(v, p) PROVE IdentifierNamesOne'
    BY <1>1, <2>1, InFlightShape DEF Clear, Counted
  <2>2. CASE \/ \E a \in Applications, p \in Pcids, d \in Decisions : Read(v, a, p, d)
             \/ Decide(v) \/ Confirm(v) \/ Distinguish(v) \/ AbandonReview(v)
    BY <1>2, <2>2 DEF Read, Decide, Confirm, Distinguish, AbandonReview, registerVars, queueVars
  <2> QED BY <1>4, <2>1, <2>2 DEF ReviewsOne
<1>5. CASE UNCHANGED vars
  BY <1>2, <1>5 DEF vars, registerVars, queueVars
<1> QED BY <1>3, <1>4, <1>5 DEF Next

\* An identifier names one person, whatever happens to the calls.
THEOREM IdentifiersUnique == Spec => []IdentifierNamesOne
<1>1. Init => IdentifierNamesOne
  BY DEF Init, IdentifierNamesOne
<1>2. TypeOK /\ IdentifierNamesOne /\ [Next]_vars => IdentifierNamesOne'
  BY IdentifierStep
<1> QED BY <1>1, <1>2, TypeCorrect, PTL DEF Spec

-----------------------------------------------------------------------------
LEMMA AskedAtFirst == ASSUME Init PROVE AskedInv
<1>1. TypeOK
  BY RegistrationAssumption DEF Init, TypeOK, Statuses, Reviewed
<1>2. IdentifierNamesOne
  BY DEF Init, IdentifierNamesOne
<1>3. FreshHasNothing /\ IssuedIsReviewed
  BY DEF Init, FreshHasNothing, IssuedIsReviewed, RecordsOf
<1>4. KnownIsOld /\ FoundAtDesk /\ FoundInQueue
  BY DEF Init, KnownIsOld, FoundAtDesk, FoundInQueue
<1>5. InFlightIsCandidate /\ CountCovers
  BY DEF Init, InFlightIsCandidate, CountCovers, Counted
<1> QED BY <1>1, <1>2, <1>3, <1>4, <1>5 DEF AskedInv

\* A desk's step.
LEMMA AskedByDesk ==
    ASSUME AskedInv, TypeOK', IdentifierNamesOne', NEW b \in Applications, Registers(b)
    PROVE  AskedInv'
<1> USE DEF AskedInv
<1>1. ASSUME Search(b) PROVE AskedInv'
  <2>1. FreshHasNothing' /\ InFlightIsCandidate' /\ CountCovers' /\ IssuedIsReviewed'
    BY <1>1 DEF Search, registerVars, queueVars, FreshHasNothing, RecordsOf, InFlightIsCandidate,
                CountCovers, Counted, PendingBut, IssuedIsReviewed
  <2>2. KnownIsOld'
    BY <1>1 DEF Search, registerVars, KnownIsOld, TypeOK
  <2>3. \A a \in Applications : a # b => known'[a] = known[a] /\ desk'[a] = desk[a]
    BY <1>1 DEF Search, TypeOK
  <2>4. /\ desk'[b].found = {c.pcid : c \in Matches(b)}
        /\ request' = request /\ citizens' = citizens /\ candidate' = candidate
        /\ request[b] = "NONE"
    BY <1>1 DEF Search, registerVars, queueVars, TypeOK
  <2>5. FoundAtDesk'
    <3> SUFFICES ASSUME NEW a \in Applications, desk'[a] # Idle
                 PROVE  /\ request[a] = "NONE"
                        /\ \A d \in citizens : Known(a, d)' => d.pcid \in desk'[a].found
      BY <2>4 DEF FoundAtDesk
    <3>1. CASE a = b
      BY <2>4, <3>1 DEF Known, Matches
    <3>2. CASE a # b
      BY <2>3, <3>2 DEF FoundAtDesk, Known
    <3> QED BY <3>1, <3>2
  <2>6. FoundInQueue'
    BY <2>3, <2>4 DEF FoundInQueue, Known
  <2> QED BY <2>1, <2>2, <2>5, <2>6
<1>2. ASSUME Queue(b) PROVE AskedInv'
  <2>1. /\ request[b] = "NONE" /\ desk[b] # Idle /\ desk[b].found \subseteq Pcids
        /\ citizens' = citizens /\ allocated' = allocated /\ known' = known /\ review' = review
    BY <1>2, DeskShape DEF Queue, registerVars, historyVars, FoundAtDesk
  <2>2. \A a \in Applications : a # b => request'[a] = request[a] /\ desk'[a] = desk[a]
    BY <1>2 DEF Queue, TypeOK
  <2>3. request'[b] # "NONE" /\ desk'[b] = Idle
    BY <1>2 DEF Queue, TypeOK
  <2>4. \A a \in Applications, p \in Pcids : candidate'[a][p] =
             IF a = b THEN IF p \in desk[b].found THEN "PENDING_REVIEW" ELSE "NONE"
                      ELSE candidate[a][p]
    BY <1>2, QueueWrites
  <2>5. \A v \in Reviews : review[v] # Idle =>
           review[v].app \in Applications /\ review[v].pcid \in Pcids /\ review[v].app # b
    BY <2>1, InFlightShape DEF InFlightIsCandidate, FreshHasNothing
  <2>6. FreshHasNothing'
    BY <2>1, <2>2, <2>3, <2>4 DEF FreshHasNothing, RecordsOf
  <2>7. KnownIsOld' /\ FoundAtDesk'
    BY <2>1, <2>2, <2>3 DEF KnownIsOld, FoundAtDesk, Known
  <2>8. FoundInQueue'
    <3> SUFFICES ASSUME NEW a \in Applications, request'[a] # "NONE",
                        NEW d \in citizens, Known(a, d)
                 PROVE  candidate'[a][d.pcid] # "NONE"
      BY <2>1 DEF FoundInQueue, Known
    <3>1. d.pcid \in Pcids
      BY DEF TypeOK, Citizens
    <3>2. CASE a = b
      BY <2>1, <2>4, <3>1, <3>2 DEF FoundAtDesk
    <3>3. CASE a # b
      BY <2>2, <2>4, <3>1, <3>3 DEF FoundInQueue
    <3> QED BY <3>2, <3>3
  <2>9. InFlightIsCandidate'
    BY <2>1, <2>4, <2>5 DEF InFlightIsCandidate
  <2>10. CountCovers'
    <3>1. \A v \in Reviews : Counted(v) => PendingBut(review[v].app, review[v].pcid)'
                                             = PendingBut(review[v].app, review[v].pcid)
      BY <2>1, <2>4, <2>5 DEF PendingBut, Counted
    <3> QED BY <2>1, <3>1 DEF CountCovers, Counted
  <2>11. IssuedIsReviewed'
    <3>1. \A c \in citizens : c.of \in Applications /\ c.of # b
      BY <2>1 DEF FreshHasNothing, RecordsOf, TypeOK, Citizens
    <3> QED BY <2>1, <2>4, <3>1 DEF IssuedIsReviewed
  <2> QED BY <2>6, <2>7, <2>8, <2>9, <2>10, <2>11
<1>3. ASSUME NEW p \in Pcids, IssueAtDesk(b, p) PROVE AskedInv'
  <2>1. PICK c : /\ c.pcid = p /\ c.of = b /\ p \notin allocated
                 /\ citizens' = citizens \cup {c}
                 /\ allocated' = allocated \cup {p}
    BY <1>3, IssueAdds DEF IssueAtDesk
  <2>2. /\ desk[b] # Idle /\ desk[b].found = {} /\ request[b] = "NONE"
        /\ candidate' = candidate /\ review' = review /\ known' = known
    BY <1>3 DEF IssueAtDesk, historyVars, FoundAtDesk
  <2>3. \A a \in Applications : a # b => request'[a] = request[a] /\ desk'[a] = desk[a]
    BY <1>3 DEF IssueAtDesk, TypeOK
  <2>4. request'[b] # "NONE" /\ desk'[b] = Idle
    BY <1>3 DEF IssueAtDesk, TypeOK
  <2>5. \A a \in Applications, d \in citizens' : Known(a, d)' => d \in citizens /\ Known(a, d)
    BY <1>3, <2>2, KnownBeforeIssue DEF IssueAtDesk
  <2>6. FreshHasNothing'
    BY <2>1, <2>2, <2>3, <2>4 DEF FreshHasNothing, RecordsOf
  <2>7. KnownIsOld'
    BY <2>1, <2>2 DEF KnownIsOld
  <2>8. FoundAtDesk'
    BY <2>3, <2>4, <2>5 DEF FoundAtDesk
  <2>9. FoundInQueue'
    <3> SUFFICES ASSUME NEW a \in Applications, request'[a] # "NONE",
                        NEW d \in citizens', Known(a, d)'
                 PROVE  candidate[a][d.pcid] # "NONE"
      BY <2>2 DEF FoundInQueue
    <3>1. d \in citizens /\ Known(a, d)
      BY <2>5
    <3>2. a # b
      BY <2>2, <3>1 DEF FoundAtDesk
    <3> QED BY <2>3, <3>1, <3>2 DEF FoundInQueue
  <2>10. InFlightIsCandidate' /\ CountCovers'
    BY <2>2 DEF InFlightIsCandidate, CountCovers, Counted, PendingBut
  <2>11. IssuedIsReviewed'
    BY <2>1, <2>2 DEF IssuedIsReviewed, FreshHasNothing
  <2> QED BY <2>6, <2>7, <2>8, <2>9, <2>10, <2>11
<1>4. ASSUME AbandonDesk(b) PROVE AskedInv'
  <2>1. \A a \in Applications : desk'[a] # Idle => desk'[a] = desk[a]
    BY <1>4 DEF AbandonDesk, TypeOK
  <2>2. UNCHANGED <<request, issued, candidate, alerts, citizens, allocated, review, known>>
    BY <1>4 DEF AbandonDesk, registerVars, queueVars, historyVars
  <2> QED BY <2>1, <2>2 DEF FreshHasNothing, RecordsOf, KnownIsOld, FoundAtDesk, FoundInQueue, Known,
             InFlightIsCandidate, CountCovers, Counted, PendingBut, IssuedIsReviewed
<1> QED BY <1>1, <1>2, <1>3, <1>4 DEF Registers

\* The commit of a review, apart from what Clear adds to the register: what it
\* keeps of the invariant.
LEMMA AskedByDecision ==
    ASSUME AskedInv, NEW v \in Reviews, Counted(v), Decided(v)
    PROVE  /\ InFlightIsCandidate' /\ CountCovers'
           /\ \A a \in Applications, p \in Pcids :
                 /\ candidate[a][p] # "NONE" => candidate'[a][p] # "NONE"
                 /\ candidate[a][p] = "NONE" => candidate'[a][p] = "NONE"
                 /\ candidate[a][p] # "PENDING_REVIEW" => candidate'[a][p] # "PENDING_REVIEW"
           /\ request[review[v].app] # "NONE"
<1> USE DEF AskedInv
<1>1. /\ review[v].app \in Applications /\ review[v].pcid \in Pcids
      /\ review[v].decision \in Decisions /\ review[v] # Idle
  BY InFlightShape DEF Counted
<1>2. \A a \in Applications, p \in Pcids : candidate'[a][p] =
             IF a = review[v].app /\ p = review[v].pcid
             THEN review[v].decision ELSE candidate[a][p]
  BY DecidedWrites
<1>3. candidate[review[v].app][review[v].pcid] # "NONE"
  BY <1>1 DEF InFlightIsCandidate
<1>4. \A a \in Applications, p \in Pcids :
         /\ candidate[a][p] # "NONE" => candidate'[a][p] # "NONE"
         /\ candidate[a][p] = "NONE" => candidate'[a][p] = "NONE"
         /\ candidate[a][p] # "PENDING_REVIEW" => candidate'[a][p] # "PENDING_REVIEW"
  BY <1>1, <1>2, <1>3 DEF Decisions
<1>5. \A w \in Reviews : review'[w] # Idle =>
         review'[w] = review[w] /\ review[w].app \in Applications /\ review[w].pcid \in Pcids
  BY InFlightShape DEF Decided, TypeOK
<1>6. InFlightIsCandidate'
  BY <1>4, <1>5 DEF InFlightIsCandidate
<1>7. CountCovers'
  <2> SUFFICES ASSUME NEW w \in Reviews, Counted(w)',
                      NEW q \in Pcids \ {review'[w].pcid},
                      candidate'[review'[w].app][q] = "PENDING_REVIEW"
               PROVE  q \in review'[w].remaining
    BY DEF CountCovers, PendingBut
  <2>1. Counted(w) /\ review'[w] = review[w] /\ review[w].app \in Applications
    BY <1>5 DEF Counted
  <2>2. candidate[review[w].app][q] = "PENDING_REVIEW"
    BY <1>4, <2>1
  <2> QED BY <2>1, <2>2 DEF PendingBut, CountCovers
<1>8. request[review[v].app] # "NONE"
  BY <1>1, <1>3 DEF FreshHasNothing
<1> QED BY <1>4, <1>6, <1>7, <1>8

\* A reviewer's step.
LEMMA AskedByReview ==
    ASSUME AskedInv, TypeOK', IdentifierNamesOne', NEW v \in Reviews, ReviewsOne(v)
    PROVE  AskedInv'
<1> USE DEF AskedInv
<1>1. ASSUME UNCHANGED <<citizens, allocated, request, candidate, desk, known>>,
             InFlightIsCandidate', CountCovers'
      PROVE  AskedInv'
  BY <1>1 DEF FreshHasNothing, RecordsOf, KnownIsOld, FoundAtDesk, FoundInQueue, Known, IssuedIsReviewed
<1>2. ASSUME NEW a \in Applications, NEW p \in Pcids, NEW d \in Decisions, Read(v, a, p, d)
      PROVE  AskedInv'
  <2>1. candidate' = candidate /\ candidate[a][p] = "PENDING_REVIEW"
    BY <1>2 DEF Read, queueVars
  <2>2. /\ review'[v].app = a /\ review'[v].pcid = p /\ ~ Counted(v)'
        /\ \A w \in Reviews : w # v => review'[w] = review[w]
    BY <1>2 DEF Read, TypeOK, Counted
  <2>3. InFlightIsCandidate'
    BY <2>1, <2>2 DEF InFlightIsCandidate
  <2>4. CountCovers'
    BY <2>1, <2>2 DEF CountCovers, Counted, PendingBut
  <2> QED BY <1>1, <1>2, <2>3, <2>4 DEF Read, registerVars, queueVars
<1>3. ASSUME Decide(v) PROVE AskedInv'
  <2>1. candidate' = candidate /\ review[v] # Idle
    BY <1>3 DEF Decide, queueVars
  <2>2. /\ review'[v].app = review[v].app /\ review'[v].pcid = review[v].pcid
        /\ review'[v].remaining = PendingBut(review[v].app, review[v].pcid)
        /\ \A w \in Reviews : w # v => review'[w] = review[w]
    BY <1>3 DEF Decide, TypeOK
  <2>3. InFlightIsCandidate'
    BY <2>1, <2>2 DEF InFlightIsCandidate
  <2>4. CountCovers'
    BY <2>1, <2>2 DEF CountCovers, Counted, PendingBut
  <2> QED BY <1>1, <1>3, <2>3, <2>4 DEF Decide, registerVars, queueVars, historyVars
<1>4. ASSUME AbandonReview(v) PROVE AskedInv'
  <2>1. candidate' = candidate /\ \A w \in Reviews : review'[w] # Idle => review'[w] = review[w]
    BY <1>4 DEF AbandonReview, TypeOK, queueVars
  <2>2. InFlightIsCandidate' /\ CountCovers'
    BY <2>1 DEF InFlightIsCandidate, CountCovers, Counted, PendingBut
  <2> QED BY <1>1, <1>4, <2>2 DEF AbandonReview, registerVars, queueVars, historyVars
<1>5. ASSUME Confirm(v) \/ Distinguish(v) PROVE AskedInv'
  <2>1. Counted(v) /\ Decided(v)
    BY <1>5 DEF Confirm, Distinguish
  <2>2. UNCHANGED <<citizens, allocated, desk, known>>
    BY <1>5, <2>1 DEF Confirm, Distinguish, registerVars, Decided, historyVars
  <2>3. \A a \in Applications : request'[a] = "NONE" <=> request[a] = "NONE"
    BY <1>5, <2>1, AskedByDecision DEF Confirm, Distinguish, TypeOK
  <2>4. FreshHasNothing'
    BY <2>1, <2>2, <2>3, AskedByDecision DEF FreshHasNothing, RecordsOf
  <2>5. KnownIsOld' /\ FoundAtDesk'
    BY <2>2, <2>3 DEF KnownIsOld, FoundAtDesk, Known
  <2>6. FoundInQueue'
    <3>1. \A d \in citizens : d.pcid \in Pcids
      BY DEF TypeOK, Citizens
    <3> QED BY <2>1, <2>2, <2>3, <3>1, AskedByDecision DEF FoundInQueue, Known
  <2>7. IssuedIsReviewed'
    <3>1. \A c \in citizens : c.of \in Applications
      BY DEF TypeOK, Citizens
    <3> QED BY <2>1, <2>2, <3>1, AskedByDecision DEF IssuedIsReviewed
  <2> QED BY <2>1, <2>4, <2>5, <2>6, <2>7, AskedByDecision
<1>6. ASSUME NEW p \in Pcids, Clear(v, p) PROVE AskedInv'
  <2> DEFINE b == review[v].app
  <2>1. Counted(v) /\ Decided(v) /\ Issue(b, p, NoNin) /\ b \in Applications
    BY <1>6, InFlightShape DEF Clear, Counted
  <2>2. PICK c : /\ c.pcid = p /\ c.of = b /\ p \notin allocated
                 /\ citizens' = citizens \cup {c}
                 /\ allocated' = allocated \cup {p}
    BY <2>1, IssueAdds
  <2>3. UNCHANGED <<desk, known>>
    BY <2>1 DEF Decided, historyVars
  <2>4. request[b] # "NONE" /\ request' = [request EXCEPT ![b] = "ISSUED"]
    BY <1>6, <2>1, AskedByDecision DEF Clear
  <2>5. \A a \in Applications : request'[a] = "NONE" <=> request[a] = "NONE"
    BY <2>1, <2>4 DEF TypeOK
  <2>6. \A a \in Applications, d \in citizens' : Known(a, d)' => d \in citizens /\ Known(a, d)
    BY <2>1, <2>3, KnownBeforeIssue
  <2>7. FreshHasNothing'
    BY <2>1, <2>2, <2>4, <2>5, AskedByDecision DEF FreshHasNothing, RecordsOf
  <2>8. KnownIsOld'
    BY <2>2, <2>3 DEF KnownIsOld
  <2>9. FoundAtDesk'
    BY <2>3, <2>5, <2>6 DEF FoundAtDesk
  <2>10. FoundInQueue'
    <3>1. \A d \in citizens : d.pcid \in Pcids
      BY DEF TypeOK, Citizens
    <3> QED BY <2>1, <2>5, <2>6, <3>1, AskedByDecision DEF FoundInQueue
  <2>11. IssuedIsReviewed'
    <3>1. \A d \in citizens : d.of \in Applications
      BY DEF TypeOK, Citizens
    <3>2. \A d \in citizens, q \in Pcids : candidate'[d.of][q] # "PENDING_REVIEW"
      BY <2>1, <3>1, AskedByDecision DEF IssuedIsReviewed
    <3>3. \A q \in Pcids : candidate'[b][q] # "PENDING_REVIEW"
      <4>1. PendingBut(b, review[v].pcid) = {}
        BY <1>6, <2>1 DEF Clear, CountCovers
      <4>2. candidate'[b][review[v].pcid] \in Decisions
        BY <2>1, DecidedWrites, InFlightShape DEF Counted
      <4>3. \A q \in Pcids \ {review[v].pcid} : candidate[b][q] # "PENDING_REVIEW"
        BY <4>1 DEF PendingBut
      <4>4. \A q \in Pcids \ {review[v].pcid} : candidate'[b][q] # "PENDING_REVIEW"
        BY <2>1, <4>3, AskedByDecision
      <4> QED BY <4>2, <4>4 DEF Decisions
    <3> QED BY <2>2, <3>2, <3>3 DEF IssuedIsReviewed
  <2> QED BY <2>1, <2>7, <2>8, <2>9, <2>10, <2>11, AskedByDecision
<1> QED BY <1>2, <1>3, <1>4, <1>5, <1>6 DEF ReviewsOne

THEOREM AskedIsInvariant == Spec => []AskedInv
<1>1. Init => AskedInv
  BY AskedAtFirst
<1>2. AskedInv /\ TypeOK' /\ [Next]_vars => AskedInv'
  <2> SUFFICES ASSUME AskedInv, TypeOK', [Next]_vars PROVE AskedInv'
    OBVIOUS
  <2>1. IdentifierNamesOne'
    BY IdentifierStep DEF AskedInv
  <2>2. CASE UNCHANGED vars
    BY <2>1, <2>2 DEF AskedInv, vars, registerVars, queueVars, historyVars, FreshHasNothing, RecordsOf,
       KnownIsOld, FoundAtDesk, FoundInQueue, Known, InFlightIsCandidate, CountCovers, Counted,
       PendingBut, IssuedIsReviewed
  <2> QED BY <2>1, <2>2, AskedByDesk, AskedByReview DEF Next
<1> QED BY <1>1, <1>2, TypeCorrect, PTL DEF Spec

\* Nothing is issued while one of its candidates waits.
THEOREM NothingIssuedUnreviewed == Spec => []IssuedIsReviewed
<1>1. AskedInv => IssuedIsReviewed
  BY DEF AskedInv
<1> QED BY <1>1, AskedIsInvariant, PTL

\* Whoever was on the register when the search was made, and is resembled, was
\* decided on by a reviewer before anything was issued.
THEOREM KnownPersonsDecided == Spec => []KnownIsDecided
<1>1. AskedInv => KnownIsDecided
  <2> SUFFICES ASSUME AskedInv, NEW c \in citizens, NEW d \in citizens,
                      d.pcid \in known[c.of], <<c.of, d.of>> \in Resembles
               PROVE  candidate[c.of][d.pcid] \in Decisions
    BY DEF KnownIsDecided
  <2>1. c.of \in Applications /\ d.pcid \in Pcids
    BY DEF AskedInv, TypeOK, Citizens
  <2>2. request[c.of] # "NONE"
    BY <2>1 DEF AskedInv, FreshHasNothing, RecordsOf
  <2>3. candidate[c.of][d.pcid] # "NONE"
    BY <2>1, <2>2 DEF AskedInv, FoundInQueue, Known
  <2>4. candidate[c.of][d.pcid] # "PENDING_REVIEW"
    BY <2>1 DEF AskedInv, IssuedIsReviewed
  <2>5. candidate[c.of][d.pcid] \in Reviewed
    BY <2>1 DEF AskedInv, TypeOK
  <2> QED BY <2>3, <2>4, <2>5 DEF Reviewed
<1> QED BY <1>1, AskedIsInvariant, PTL

-----------------------------------------------------------------------------
\* An application whose reviews are not in flight has nothing to answer for.
LEMMA NoReviewAtDesk ==
    ASSUME AskedInv, NEW a \in Applications, request[a] = "NONE"
    PROVE  /\ RecordsOf(a) = {}
           /\ \A v \in Reviews : review[v] # Idle => review[v].app # a
  BY InFlightShape DEF AskedInv, InFlightIsCandidate, FreshHasNothing

LEMMA PendingHasNoRecord ==
    ASSUME AskedInv, NEW a \in Applications, NEW p \in Pcids, candidate[a][p] = "PENDING_REVIEW"
    PROVE  RecordsOf(a) = {}
  BY DEF AskedInv, IssuedIsReviewed, RecordsOf

LEMMA AloneByDesk ==
    ASSUME AskedInv, AloneInv, NEW b \in Applications, Registers(b)
    PROVE  AloneInv'
<1> USE DEF AloneInv
<1>1. /\ review' = review /\ overlapped' = overlapped
      /\ \A a \in Applications : a # b => request'[a] = request[a] /\ issued'[a] = issued[a]
  BY DEF Registers, Search, Queue, IssueAtDesk, Issue, AbandonDesk, registerVars, queueVars,
         historyVars, AskedInv, TypeOK
<1>2. OneReview'
  BY <1>1 DEF OneReview, About
<1>3. CASE Search(b) \/ AbandonDesk(b)
  <2>1. UNCHANGED <<request, issued, candidate, citizens>>
    BY <1>3 DEF Search, AbandonDesk, registerVars, queueVars
  <2> QED BY <1>1, <1>2, <2>1 DEF ReviewIsPending, CountIsExact, Counted, PendingBut,
             OnePcidPerApplication, RecordsOf, QueuedCanBeFound
<1>4. CASE Queue(b)
  <2>1. /\ request[b] = "NONE" /\ desk[b].found # {} /\ desk[b].found \subseteq Pcids
        /\ citizens' = citizens
        /\ request'[b] = "DUPLICATE_REVIEW"
    BY <1>4, DeskShape DEF Queue, registerVars, AskedInv, FoundAtDesk, TypeOK
  <2>2. \A a \in Applications, p \in Pcids : candidate'[a][p] =
             IF a = b THEN IF p \in desk[b].found THEN "PENDING_REVIEW" ELSE "NONE"
                      ELSE candidate[a][p]
    BY <1>4, QueueWrites DEF AskedInv
  <2>3. \A v \in Reviews : review[v] # Idle =>
           review[v].app \in Applications /\ review[v].pcid \in Pcids /\ review[v].app # b
    BY <2>1, NoReviewAtDesk, InFlightShape DEF AskedInv
  <2>4. ReviewIsPending'
    BY <1>1, <2>2, <2>3 DEF ReviewIsPending
  <2>5. CountIsExact'
    <3>1. \A v \in Reviews : Counted(v) => PendingBut(review[v].app, review[v].pcid)'
                                             = PendingBut(review[v].app, review[v].pcid)
      BY <1>1, <2>2, <2>3 DEF PendingBut, Counted
    <3> QED BY <1>1, <3>1 DEF CountIsExact, Counted
  <2>6. OnePcidPerApplication'
    <3> SUFFICES ASSUME NEW a \in Applications \ overlapped
                 PROVE  IF request'[a] = "ISSUED"
                        THEN \E c \in citizens : c.pcid = issued'[a] /\ RecordsOf(a) = {c}
                        ELSE RecordsOf(a) = {}
      BY <1>1, <2>1 DEF OnePcidPerApplication, RecordsOf
    <3>1. CASE a = b
      BY <2>1, <3>1, NoReviewAtDesk
    <3>2. CASE a # b
      BY <1>1, <3>2 DEF OnePcidPerApplication
    <3> QED BY <3>1, <3>2
  <2>7. QueuedCanBeFound'
    <3> SUFFICES ASSUME NEW a \in Applications \ overlapped, request'[a] = "DUPLICATE_REVIEW"
                 PROVE  \E p \in Pcids : candidate'[a][p] = "PENDING_REVIEW"
      BY <1>1 DEF QueuedCanBeFound
    <3>1. CASE a = b
      <4>1. PICK p \in Pcids : p \in desk[b].found
        BY <2>1
      <4> QED BY <2>2, <3>1, <4>1
    <3>2. CASE a # b
      BY <1>1, <2>2, <3>2 DEF QueuedCanBeFound
    <3> QED BY <3>1, <3>2
  <2> QED BY <1>2, <2>4, <2>5, <2>6, <2>7
<1>5. ASSUME NEW p \in Pcids, IssueAtDesk(b, p) PROVE AloneInv'
  <2>1. PICK c : /\ c.pcid = p /\ c.of = b
                 /\ citizens' = citizens \cup {c}
                 /\ issued' = [issued EXCEPT ![b] = p]
    BY <1>5, IssueAdds DEF IssueAtDesk
  <2>2. /\ request[b] = "NONE" /\ request'[b] = "ISSUED" /\ candidate' = candidate
        /\ issued'[b] = p
    BY <1>5, <2>1 DEF IssueAtDesk, AskedInv, FoundAtDesk, TypeOK
  <2>3. ReviewIsPending' /\ CountIsExact'
    BY <1>1, <2>2 DEF ReviewIsPending, CountIsExact, Counted, PendingBut
  <2>4. OnePcidPerApplication'
    <3> SUFFICES ASSUME NEW a \in Applications \ overlapped
                 PROVE  IF request'[a] = "ISSUED"
                        THEN \E e \in citizens' : e.pcid = issued'[a] /\ RecordsOf(a)' = {e}
                        ELSE RecordsOf(a)' = {}
      BY <1>1 DEF OnePcidPerApplication
    <3>1. CASE a = b
      <4>1. RecordsOf(b)' = {c}
        BY <2>1, <2>2, NoReviewAtDesk DEF RecordsOf
      <4> QED BY <2>1, <2>2, <3>1, <4>1
    <3>2. CASE a # b
      <4>1. RecordsOf(a)' = RecordsOf(a)
        BY <2>1, <3>2 DEF RecordsOf
      <4> QED BY <1>1, <2>1, <3>2, <4>1 DEF OnePcidPerApplication
    <3> QED BY <3>1, <3>2
  <2>5. QueuedCanBeFound'
    BY <1>1, <2>2 DEF QueuedCanBeFound
  <2> QED BY <1>2, <2>3, <2>4, <2>5
<1> QED BY <1>3, <1>4, <1>5 DEF Registers

\* The commit of a review, apart from what each kind of decision writes to the
\* request: reviews of other applications are where they were, and of its own,
\* if it was alone, none is left.
LEMMA AloneByDecision ==
    ASSUME AskedInv, AloneInv, NEW v \in Reviews, Counted(v), Decided(v)
    PROVE  /\ OneReview' /\ ReviewIsPending' /\ CountIsExact'
           /\ overlapped' = overlapped
           /\ \A a \in Applications, p \in Pcids :
                a # review[v].app => candidate'[a][p] = candidate[a][p]
           /\ review[v].app \notin overlapped =>
                /\ RecordsOf(review[v].app) = {}
                /\ \A p \in Pcids \ {review[v].pcid} :
                     candidate'[review[v].app][p] = candidate[review[v].app][p]
                /\ review[v].remaining = PendingBut(review[v].app, review[v].pcid)
<1> USE DEF AloneInv
<1>1. TypeOK /\ review[v] # Idle
  BY DEF AskedInv, Counted
<1>2. /\ review[v].app \in Applications /\ review[v].pcid \in Pcids
      /\ overlapped' = overlapped
  BY <1>1, InFlightShape DEF Decided, historyVars
<1>3. \A a \in Applications, p \in Pcids : candidate'[a][p] =
             IF a = review[v].app /\ p = review[v].pcid
             THEN review[v].decision ELSE candidate[a][p]
  BY <1>1, DecidedWrites
<1>4. \A w \in Reviews : review'[w] # Idle =>
         /\ review'[w] = review[w] /\ w # v
         /\ review[w].app \in Applications /\ review[w].pcid \in Pcids
  BY <1>1, InFlightShape DEF Decided, TypeOK
<1>5. \A w \in Reviews : review'[w] # Idle /\ review[w].app \notin overlapped =>
         review[w].app # review[v].app
  BY <1>1, <1>2, <1>4 DEF OneReview, About
<1>6. OneReview'
  BY <1>2, <1>4 DEF OneReview, About
<1>7. ReviewIsPending'
  BY <1>2, <1>3, <1>4, <1>5 DEF ReviewIsPending
<1>8. CountIsExact'
  <2> SUFFICES ASSUME NEW w \in Reviews, Counted(w)', review'[w].app \notin overlapped
               PROVE  review'[w].remaining =
                        {q \in Pcids \ {review'[w].pcid} :
                            candidate'[review'[w].app][q] = "PENDING_REVIEW"}
    BY <1>2 DEF CountIsExact, PendingBut
  <2>1. /\ Counted(w) /\ review'[w] = review[w] /\ review[w].app \in Applications
        /\ review[w].app # review[v].app
    BY <1>4, <1>5 DEF Counted
  <2>2. review[w].remaining = PendingBut(review[w].app, review[w].pcid)
    BY <2>1 DEF CountIsExact
  <2> QED BY <1>3, <2>1, <2>2 DEF PendingBut
<1>9. ASSUME review[v].app \notin overlapped
      PROVE  /\ RecordsOf(review[v].app) = {}
             /\ review[v].remaining = PendingBut(review[v].app, review[v].pcid)
  <2>1. candidate[review[v].app][review[v].pcid] = "PENDING_REVIEW"
    BY <1>1, <1>9 DEF ReviewIsPending
  <2> QED BY <1>2, <1>9, <2>1, PendingHasNoRecord DEF CountIsExact
<1> QED BY <1>2, <1>3, <1>6, <1>7, <1>8, <1>9

LEMMA AloneByReview ==
    ASSUME AskedInv, AloneInv, NEW v \in Reviews, ReviewsOne(v)
    PROVE  AloneInv'
<1> USE DEF AloneInv
<1>1. TypeOK
  BY DEF AskedInv
<1>2. ASSUME UNCHANGED <<request, issued, candidate, citizens>>, overlapped \subseteq overlapped'
      PROVE  OnePcidPerApplication' /\ QueuedCanBeFound'
  BY <1>2 DEF OnePcidPerApplication, RecordsOf, QueuedCanBeFound
<1>3. ASSUME NEW a \in Applications, NEW p \in Pcids, NEW d \in Decisions, Read(v, a, p, d)
      PROVE  AloneInv'
  <2>1. /\ candidate' = candidate /\ candidate[a][p] = "PENDING_REVIEW" /\ review[v] = Idle
        /\ overlapped' = IF About(a) = {} THEN overlapped ELSE overlapped \cup {a}
    BY <1>3 DEF Read, queueVars
  <2>2. /\ review'[v].app = a /\ review'[v].pcid = p /\ ~ Counted(v)'
        /\ \A w \in Reviews : w # v => review'[w] = review[w]
    BY <1>1, <1>3 DEF Read, TypeOK, Counted
  <2>3. OneReview'
    BY <2>1, <2>2 DEF OneReview, About
  <2>4. ReviewIsPending'
    BY <2>1, <2>2 DEF ReviewIsPending
  <2>5. CountIsExact'
    BY <2>1, <2>2 DEF CountIsExact, Counted, PendingBut
  <2>6. OnePcidPerApplication' /\ QueuedCanBeFound'
    BY <1>2, <1>3, <2>1 DEF Read, registerVars, queueVars
  <2> QED BY <2>3, <2>4, <2>5, <2>6
<1>4. ASSUME Decide(v) PROVE AloneInv'
  <2>1. candidate' = candidate /\ review[v] # Idle /\ overlapped' = overlapped
    BY <1>4 DEF Decide, queueVars, historyVars
  <2>2. /\ review'[v] # Idle
        /\ review'[v].app = review[v].app /\ review'[v].pcid = review[v].pcid
        /\ review'[v].remaining = PendingBut(review[v].app, review[v].pcid)
        /\ \A w \in Reviews : w # v => review'[w] = review[w]
    BY <1>1, <1>4 DEF Decide, TypeOK, Idle
  <2>3. OneReview'
    BY <2>1, <2>2 DEF OneReview, About
  <2>4. ReviewIsPending'
    BY <2>1, <2>2 DEF ReviewIsPending
  <2>5. CountIsExact'
    BY <2>1, <2>2 DEF CountIsExact, Counted, PendingBut
  <2>6. OnePcidPerApplication' /\ QueuedCanBeFound'
    BY <1>2, <1>4, <2>1 DEF Decide, registerVars, queueVars
  <2> QED BY <2>3, <2>4, <2>5, <2>6
<1>5. ASSUME AbandonReview(v) PROVE AloneInv'
  <2>1. /\ candidate' = candidate /\ overlapped' = overlapped
        /\ \A w \in Reviews : review'[w] # Idle => review'[w] = review[w]
    BY <1>1, <1>5 DEF AbandonReview, TypeOK, queueVars, historyVars
  <2>2. OneReview' /\ ReviewIsPending' /\ CountIsExact'
    BY <2>1 DEF OneReview, About, ReviewIsPending, CountIsExact, Counted, PendingBut
  <2>3. OnePcidPerApplication' /\ QueuedCanBeFound'
    BY <1>2, <1>5, <2>1 DEF AbandonReview, registerVars, queueVars
  <2> QED BY <2>2, <2>3
<1>6. ASSUME Confirm(v) \/ Distinguish(v) PROVE AloneInv'
  <2> DEFINE b == review[v].app
  <2>1. Counted(v) /\ Decided(v) /\ issued' = issued /\ citizens' = citizens
    BY <1>6 DEF Confirm, Distinguish, registerVars
  <2>2. /\ b \in Applications
        /\ \A a \in Applications : a # b => request'[a] = request[a]
        /\ Confirm(v) => request'[b] = "REJECTED"
        /\ Distinguish(v) => request'[b] = request[b]
    BY <1>1, <1>6, <2>1, InFlightShape DEF Confirm, Distinguish, Counted, TypeOK
  <2>3. OnePcidPerApplication'
    <3> SUFFICES ASSUME NEW a \in Applications \ overlapped
                 PROVE  IF request'[a] = "ISSUED"
                        THEN \E c \in citizens : c.pcid = issued[a] /\ RecordsOf(a) = {c}
                        ELSE RecordsOf(a) = {}
      BY <2>1, AloneByDecision DEF OnePcidPerApplication, RecordsOf
    <3>1. CASE a = b
      <4>1. RecordsOf(b) = {}
        BY <2>1, <3>1, AloneByDecision
      <4>2. request[b] # "ISSUED"
        BY <3>1, <4>1 DEF OnePcidPerApplication
      <4> QED BY <1>6, <2>2, <3>1, <4>1, <4>2
    <3>2. CASE a # b
      BY <2>2, <3>2 DEF OnePcidPerApplication
    <3> QED BY <3>1, <3>2
  <2>4. QueuedCanBeFound'
    <3> SUFFICES ASSUME NEW a \in Applications \ overlapped, request'[a] = "DUPLICATE_REVIEW"
                 PROVE  \E p \in Pcids : candidate'[a][p] = "PENDING_REVIEW"
      BY <2>1, AloneByDecision DEF QueuedCanBeFound
    <3>1. CASE a = b
      <4>1. Distinguish(v)
        BY <1>6, <2>2, <3>1
      <4>2. PendingBut(b, review[v].pcid) # {}
        BY <2>1, <3>1, <4>1, AloneByDecision DEF Distinguish
      <4>3. PICK p \in Pcids \ {review[v].pcid} : candidate[b][p] = "PENDING_REVIEW"
        BY <4>2 DEF PendingBut
      <4> QED BY <2>1, <3>1, <4>3, AloneByDecision
    <3>2. CASE a # b
      BY <2>1, <2>2, <3>2, AloneByDecision DEF QueuedCanBeFound
    <3> QED BY <3>1, <3>2
  <2> QED BY <2>1, <2>3, <2>4, AloneByDecision
<1>7. ASSUME NEW p \in Pcids, Clear(v, p) PROVE AloneInv'
  <2> DEFINE b == review[v].app
  <2>1. Counted(v) /\ Decided(v) /\ Issue(b, p, NoNin) /\ b \in Applications
    BY <1>1, <1>7, InFlightShape DEF Clear, Counted
  <2>2. PICK c : /\ c.pcid = p /\ c.of = b
                 /\ citizens' = citizens \cup {c}
                 /\ issued' = [issued EXCEPT ![b] = p]
    BY <2>1, IssueAdds
  <2>3. /\ request'[b] = "ISSUED" /\ issued'[b] = p
        /\ \A a \in Applications : a # b => request'[a] = request[a] /\ issued'[a] = issued[a]
    BY <1>1, <1>7, <2>1, <2>2 DEF Clear, TypeOK
  <2>4. OnePcidPerApplication'
    <3> SUFFICES ASSUME NEW a \in Applications \ overlapped
                 PROVE  IF request'[a] = "ISSUED"
                        THEN \E e \in citizens' : e.pcid = issued'[a] /\ RecordsOf(a)' = {e}
                        ELSE RecordsOf(a)' = {}
      BY <2>1, AloneByDecision DEF OnePcidPerApplication
    <3>1. CASE a = b
      <4>1. RecordsOf(b) = {}
        BY <2>1, <3>1, AloneByDecision
      <4>2. RecordsOf(a)' = {c}
        BY <2>2, <3>1, <4>1 DEF RecordsOf
      <4> QED BY <2>2, <2>3, <3>1, <4>2
    <3>2. CASE a # b
      <4>1. RecordsOf(a)' = RecordsOf(a)
        BY <2>1, <3>2, IssueKeepsOthers
      <4> QED BY <2>2, <2>3, <3>2, <4>1 DEF OnePcidPerApplication
    <3> QED BY <3>1, <3>2
  <2>5. QueuedCanBeFound'
    BY <2>1, <2>3, AloneByDecision DEF QueuedCanBeFound
  <2> QED BY <2>1, <2>4, <2>5, AloneByDecision
<1> QED BY <1>3, <1>4, <1>5, <1>6, <1>7 DEF ReviewsOne

THEOREM AloneIsInvariant == Spec => []AloneInv
<1>1. Init => AloneInv
  BY DEF Init, AloneInv, OneReview, About, ReviewIsPending, CountIsExact, Counted,
         OnePcidPerApplication, RecordsOf, QueuedCanBeFound
<1>2. AskedInv /\ AloneInv /\ [Next]_vars => AloneInv'
  <2> SUFFICES ASSUME AskedInv, AloneInv, [Next]_vars PROVE AloneInv'
    OBVIOUS
  <2>1. CASE UNCHANGED vars
    BY <2>1 DEF AloneInv, vars, registerVars, queueVars, historyVars, OneReview, About,
       ReviewIsPending, CountIsExact, Counted, PendingBut, OnePcidPerApplication, RecordsOf,
       QueuedCanBeFound
  <2> QED BY <2>1, AloneByDesk, AloneByReview DEF Next
<1> QED BY <1>1, <1>2, AskedIsInvariant, PTL DEF Spec

\* An application whose reviews never overlapped has at most the one identifier
\* its request names.
THEOREM OnePcid == Spec => []OnePcidPerApplication
<1>1. AloneInv => OnePcidPerApplication
  BY DEF AloneInv
<1> QED BY <1>1, AloneIsInvariant, PTL

\* IdentifiersAreUnique of Registration: one person's identifier, one identifier a request.
THEOREM IdentifiersAreKept == Spec => []IdentifiersAreUnique
BY IdentifiersUnique, OnePcid, PTL DEF IdentifiersAreUnique

\* IssuedIsDecided of Registration: whoever was issued an identifier was decided on.
THEOREM IssuedAfterDecision == Spec => []IssuedIsDecided
BY KnownPersonsDecided, NothingIssuedUnreviewed, PTL DEF IssuedIsDecided

\* And while it is under review, the reviewers' queue shows it.
THEOREM QueuedIsVisible == Spec => []QueuedCanBeFound
<1>1. AloneInv => QueuedCanBeFound
  BY DEF AloneInv
<1> QED BY <1>1, AloneIsInvariant, PTL

\* And a decision on one of its candidates is never changed, nor what came of the last.
THEOREM DecisionsAreKept == Spec => DecisionsStand
<1> DEFINE CandidateStands(a, p) ==
               candidate[a][p] \in Decisions => candidate'[a][p] = candidate[a][p]
           OutcomeStands(a) ==
               /\ request[a] = "ISSUED" => request'[a] = "ISSUED" /\ issued'[a] = issued[a]
               /\ request[a] = "REJECTED" /\ (\A p \in Pcids : candidate[a][p] # "PENDING_REVIEW")
                    => request'[a] = "REJECTED"
           Stands == \A a \in Applications \ overlapped' :
                        /\ \A p \in Pcids : CandidateStands(a, p)
                        /\ OutcomeStands(a)
<1>1. ASSUME AskedInv, AloneInv, Next, NEW a \in Applications \ overlapped', NEW p \in Pcids
      PROVE  CandidateStands(a, p)
  <2> SUFFICES ASSUME candidate[a][p] \in Decisions PROVE candidate'[a][p] = candidate[a][p]
    OBVIOUS
  <2>1. CASE candidate' = candidate
    BY <2>1
  <2>2. ASSUME NEW b \in Applications, Registers(b) PROVE candidate'[a][p] = candidate[a][p]
    <3>1. CASE Queue(b)
      <4>1. request[b] = "NONE"
        BY <3>1, <1>1 DEF Queue, AskedInv, FoundAtDesk
      <4>2. a # b
        BY <4>1, <1>1 DEF AskedInv, FreshHasNothing, Decisions
      <4> QED BY <3>1, <4>2, <1>1, QueueWrites DEF AskedInv
    <3> QED BY <2>1, <2>2, <3>1 DEF Registers, Search, IssueAtDesk, AbandonDesk, queueVars
  <2>3. ASSUME NEW v \in Reviews, ReviewsOne(v) PROVE candidate'[a][p] = candidate[a][p]
    <3>1. CASE Counted(v) /\ Decided(v)
      <4>1. a \notin overlapped /\ TypeOK /\ review[v] # Idle
        BY <3>1, <1>1 DEF Decided, historyVars, AskedInv, Counted
      <4>2. ~ (a = review[v].app /\ p = review[v].pcid)
        BY <4>1, <1>1 DEF AloneInv, ReviewIsPending, Decisions
      <4> QED BY <3>1, <4>1, <4>2, DecidedWrites
    <3> QED BY <2>1, <2>3, <3>1 DEF ReviewsOne, Read, Decide, Confirm, Distinguish, Clear,
               AbandonReview, queueVars
  <2> QED BY <2>2, <2>3, <1>1 DEF Next
<1>2. ASSUME AskedInv, AloneInv, Next, NEW a \in Applications \ overlapped'
      PROVE  OutcomeStands(a)
  <2>t. /\ request \in [Applications -> Statuses]
        /\ issued \in [Applications -> Pcids \cup {NoPcid}]
    BY <1>2 DEF AskedInv, TypeOK
  <2>1. CASE request'[a] = request[a] /\ issued'[a] = issued[a]
    BY <2>1
  <2>2. ASSUME NEW b \in Applications, Registers(b) PROVE OutcomeStands(a)
    <3>1. CASE Queue(b) \/ \E p \in Pcids : IssueAtDesk(b, p)
      <4>1. request[b] = "NONE"
        BY <3>1, <1>2 DEF Queue, IssueAtDesk, AskedInv, FoundAtDesk
      <4>2. CASE a = b
        BY <4>1, <4>2
      <4>3. CASE a # b
        BY <3>1, <4>3, <2>1, <2>t DEF Queue, IssueAtDesk, Issue
      <4> QED BY <4>2, <4>3
    <3> QED BY <2>1, <2>2, <3>1 DEF Registers, Search, AbandonDesk, queueVars
  <2>3. ASSUME NEW v \in Reviews, ReviewsOne(v) PROVE OutcomeStands(a)
    <3>1. CASE Counted(v) /\ Decided(v) /\ review[v].app = a
      <4>1. a \notin overlapped /\ TypeOK /\ review[v] # Idle
        BY <3>1, <1>2 DEF Decided, historyVars, AskedInv, Counted
      <4>2. PICK p \in Pcids : candidate[a][p] = "PENDING_REVIEW"
        BY <4>1, <3>1, <1>2, InFlightShape DEF AloneInv, ReviewIsPending
      <4>3. request[a] # "ISSUED"
        BY <4>1, <4>2, <1>2 DEF AloneInv, OnePcidPerApplication, RecordsOf, AskedInv,
              IssuedIsReviewed
      <4> QED BY <4>2, <4>3
    <3>2. CASE Counted(v) /\ Decided(v) /\ review[v].app # a
      BY <2>1, <2>3, <3>2, <2>t DEF ReviewsOne, Read, Decide, Confirm, Distinguish, Clear,
               AbandonReview, queueVars, Issue
    <3> QED BY <2>1, <2>3, <3>1, <3>2 DEF ReviewsOne, Read, Decide, Confirm, Distinguish, Clear,
               AbandonReview, queueVars
  <2> QED BY <2>2, <2>3, <1>2 DEF Next
<1>3. AskedInv /\ AloneInv /\ [Next]_vars => [Stands]_vars
  BY <1>1, <1>2
<1> HIDE DEF Stands
<1>4. ASSUME [Stands]_vars
      PROVE  [\A a \in Applications \ overlapped' :
                /\ \A p \in Pcids :
                     candidate[a][p] \in Decisions => candidate'[a][p] = candidate[a][p]
                /\ request[a] = "ISSUED" => request'[a] = "ISSUED" /\ issued'[a] = issued[a]
                /\ request[a] = "REJECTED" /\ (\A p \in Pcids : candidate[a][p] # "PENDING_REVIEW")
                     => request'[a] = "REJECTED" ]_vars
  BY <1>4 DEF Stands
<1>5. [][Stands]_vars => DecisionsStand
  BY <1>4, PTL DEF DecisionsStand
<1> QED BY <1>3, <1>5, AskedIsInvariant, AloneIsInvariant, PTL DEF Spec
=============================================================================
