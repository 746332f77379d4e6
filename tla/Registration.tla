---------------------------- MODULE Registration ----------------------------
(***************************************************************************)
(* Registration, duplicate review and the issue of identifiers             *)
(* (services/api/src/identity/registration.service.ts, pcid.service.ts,    *)
(* duplicate-detection.ts).                                                *)
(*                                                                         *)
(* register() searches the register and issues, or queues one candidate    *)
(* for every person found, in one transaction at READ COMMITTED: the search*)
(* sees what is committed when it starts, the inserts come later.          *)
(* reviewDuplicate() reads the candidate, overwrites its status (which     *)
(* locks the row), counts what is left, and acts on the count.  What a     *)
(* transaction has written and not committed is in its own record only     *)
(* (`desk', `review').                                                     *)
(***************************************************************************)
CONSTANTS Applications,    \* registration_request rows, one per applicant at a desk
          Reviews,         \* requests to POST /citizens/duplicates/:id
          Pcids,           \* identifiers generatePcid() can draw
          Nins, NoNin,
          NinOf,           \* the national number an applicant supplies, or NoNin
          Resembles,       \* <<a, b>>: a scores REVIEW_THRESHOLD or more against b's
                           \* record, the national number left aside
          NoPcid

Statuses  == {"NONE", "DUPLICATE_REVIEW", "REJECTED", "ISSUED"}
Decisions == {"CONFIRMED_DUPLICATE", "DISTINCT_PERSON"}
Reviewed  == {"NONE", "PENDING_REVIEW"} \cup Decisions

ASSUME RegistrationAssumption ==
    /\ NinOf \in [Applications -> Nins \cup {NoNin}]
    /\ NoNin \notin Nins
    /\ Resembles \subseteq Applications \X Applications
    /\ NoPcid \notin Pcids

Citizens == [pcid : Pcids, of : Applications, nin : Nins \cup {NoNin}]
Idle     == [stage |-> "IDLE"]

VARIABLES
    request,     \* registration_request.status
    issued,      \* registration_request.issued_pcid
    candidate,   \* duplicate_candidate.status per application and person found
    alerts,      \* applications an identity-integrity alert was raised for
    citizens,    \* citizen rows
    allocated,   \* pcid_allocation
    desk,        \* register() calls in flight
    review,      \* reviewDuplicate() calls in flight
    known,       \* history: the identifiers on the register when each search was made
    overlapped   \* history: applications two reviews of which were in flight at once

registerVars == <<citizens, allocated>>
queueVars    == <<request, issued, candidate, alerts>>
historyVars  == <<known, overlapped>>
vars         == <<registerVars, queueVars, desk, review, historyVars>>

TypeOK ==
    /\ request \in [Applications -> Statuses]
    /\ issued \in [Applications -> Pcids \cup {NoPcid}]
    /\ candidate \in [Applications -> [Pcids -> Reviewed]]
    /\ alerts \subseteq Applications
    /\ citizens \subseteq Citizens
    /\ allocated \subseteq Pcids
    /\ desk \in [Applications -> {Idle} \cup [stage : {"SEARCHED"}, found : SUBSET Pcids]]
    /\ review \in [Reviews -> {Idle}
         \cup [stage : {"READ"}, app : Applications, pcid : Pcids, decision : Decisions]
         \cup [stage : {"COUNTED"}, app : Applications, pcid : Pcids, decision : Decisions,
               remaining : SUBSET Pcids]]
    /\ known \in [Applications -> SUBSET Pcids]
    /\ overlapped \subseteq Applications

Init ==
    /\ request = [a \in Applications |-> "NONE"]
    /\ issued = [a \in Applications |-> NoPcid]
    /\ candidate = [a \in Applications |-> [p \in Pcids |-> "NONE"]]
    /\ alerts = {}
    /\ citizens = {}
    /\ allocated = {}
    /\ desk = [a \in Applications |-> Idle]
    /\ review = [v \in Reviews |-> Idle]
    /\ known = [a \in Applications |-> {}]
    /\ overlapped = {}

(***************************************************************************)
(* register().                                                             *)
(***************************************************************************)

\* Mutation of Matches: the national number alone.
MatchesByNin(a) == {c \in citizens : NinOf[a] # NoNin /\ c.nin = NinOf[a]}

\* findCandidates(): the same national number, or enough agreement.  (The query
\* ranks at most fifty records; a search meets no more than that here.)
Matches(a) ==
    {c \in citizens : \/ <<a, c.of>> \in Resembles
                      \/ NinOf[a] # NoNin /\ c.nin = NinOf[a]}

Search(a) ==
    /\ request[a] = "NONE" /\ desk[a] = Idle
    /\ desk' = [desk EXCEPT ![a] = [stage |-> "SEARCHED",
                                    found |-> {c.pcid : c \in Matches(a)}]]
    /\ known' = [known EXCEPT ![a] = allocated]
    /\ UNCHANGED <<registerVars, queueVars, review, overlapped>>

\* queueForReview(), raiseIdentityIntegrityAlert(), COMMIT.
Queue(a) ==
    /\ desk[a] # Idle
    /\ desk[a].found # {}
    /\ candidate' = [candidate EXCEPT ![a] =
         [p \in Pcids |-> IF p \in desk[a].found THEN "PENDING_REVIEW" ELSE "NONE"]]
    /\ request' = [request EXCEPT ![a] = "DUPLICATE_REVIEW"]
    /\ alerts' = alerts \cup {a}
    /\ desk' = [desk EXCEPT ![a] = Idle]
    /\ UNCHANGED <<issued, registerVars, review, historyVars>>

\* Mutation of Issue: the number drawn is taken as it comes.
IssueAsDrawn(a, p, nin) ==
    /\ nin # NoNin => \A c \in citizens : c.nin # nin
    /\ allocated' = allocated \cup {p}
    /\ citizens' = citizens \cup {[pcid |-> p, of |-> a, nin |-> nin]}
    /\ issued' = [issued EXCEPT ![a] = p]

\* allocate() and the citizen row: the draw must be new (the primary key of
\* pcid_allocation), and so must the national number (citizen_nin_key).
Issue(a, p, nin) ==
    /\ p \notin allocated
    /\ nin # NoNin => \A c \in citizens : c.nin # nin
    /\ allocated' = allocated \cup {p}
    /\ citizens' = citizens \cup {[pcid |-> p, of |-> a, nin |-> nin]}
    /\ issued' = [issued EXCEPT ![a] = p]

IssueAtDesk(a, p) ==
    /\ desk[a] # Idle
    /\ desk[a].found = {}
    /\ Issue(a, p, NinOf[a])
    /\ request' = [request EXCEPT ![a] = "ISSUED"]
    /\ desk' = [desk EXCEPT ![a] = Idle]
    /\ UNCHANGED <<candidate, alerts, review, historyVars>>

\* Rolled back: the number drawn or the national number is taken (after a
\* unique violation the transaction accepts no further draw), or any error.
AbandonDesk(a) ==
    /\ desk[a] # Idle
    /\ desk' = [desk EXCEPT ![a] = Idle]
    /\ UNCHANGED <<registerVars, queueVars, review, historyVars>>

(***************************************************************************)
(* reviewDuplicate().                                                      *)
(***************************************************************************)
About(a) == {v \in Reviews : review[v] # Idle /\ review[v].app = a}

\* Mutation of Read: a candidate that was reviewed may be reviewed again.
ReadAnyStatus(v, a, p, d) ==
    /\ review[v] = Idle
    /\ candidate[a][p] # "NONE"
    /\ review' = [review EXCEPT ![v] = [stage |-> "READ", app |-> a, pcid |-> p, decision |-> d]]
    /\ overlapped' = IF About(a) = {} THEN overlapped ELSE overlapped \cup {a}
    /\ UNCHANGED <<registerVars, queueVars, desk, known>>

\* The candidate is read without a lock and must be pending.
Read(v, a, p, d) ==
    /\ review[v] = Idle
    /\ candidate[a][p] = "PENDING_REVIEW"
    /\ review' = [review EXCEPT ![v] = [stage |-> "READ", app |-> a, pcid |-> p, decision |-> d]]
    /\ overlapped' = IF About(a) = {} THEN overlapped ELSE overlapped \cup {a}
    /\ UNCHANGED <<registerVars, queueVars, desk, known>>

\* Mutation of PendingBut: the count is made before the update.
PendingAll(a, p) == {q \in Pcids : candidate[a][q] = "PENDING_REVIEW"}

\* Pending candidates of an application, as a transaction sees them that has
\* itself decided candidate p.
PendingBut(a, p) == {q \in Pcids \ {p} : candidate[a][q] = "PENDING_REVIEW"}

\* UPDATE duplicate_candidate WHERE id = $1 waits for another transaction that
\* has written the row, and does not look at its status again; then the count.
Decide(v) ==
    LET r == review[v] IN
    /\ r # Idle
    /\ r.stage = "READ"
    /\ \A w \in About(r.app) : review[w].stage = "COUNTED" => review[w].pcid # r.pcid
    /\ review' = [review EXCEPT ![v] =
         [stage |-> "COUNTED", app |-> r.app, pcid |-> r.pcid, decision |-> r.decision,
          remaining |-> PendingBut(r.app, r.pcid)]]
    /\ UNCHANGED <<registerVars, queueVars, desk, historyVars>>

Counted(v) == review[v] # Idle /\ review[v].stage = "COUNTED"

\* COMMIT of the decision on the candidate.
Decided(v) ==
    /\ candidate' = [candidate EXCEPT ![review[v].app][review[v].pcid] = review[v].decision]
    /\ review' = [review EXCEPT ![v] = Idle]
    /\ UNCHANGED <<alerts, desk, historyVars>>

Confirm(v) ==
    /\ Counted(v)
    /\ review[v].decision = "CONFIRMED_DUPLICATE"
    /\ request' = [request EXCEPT ![review[v].app] = "REJECTED"]
    /\ Decided(v)
    /\ UNCHANGED <<issued, registerVars>>

\* A distinct person, and other candidates are still to be reviewed.
Distinguish(v) ==
    /\ Counted(v)
    /\ review[v].decision = "DISTINCT_PERSON"
    /\ review[v].remaining # {}
    /\ Decided(v)
    /\ UNCHANGED <<request, issued, registerVars>>

\* issueFromRequest(): the stored payload has no national number.
Clear(v, p) ==
    /\ Counted(v)
    /\ review[v].decision = "DISTINCT_PERSON"
    /\ review[v].remaining = {}
    /\ Issue(review[v].app, p, NoNin)
    /\ request' = [request EXCEPT ![review[v].app] = "ISSUED"]
    /\ Decided(v)

AbandonReview(v) ==
    /\ review[v] # Idle
    /\ review' = [review EXCEPT ![v] = Idle]
    /\ UNCHANGED <<registerVars, queueVars, desk, historyVars>>

Registers(a) ==
    \/ Search(a)
    \/ Queue(a)
    \/ \E p \in Pcids : IssueAtDesk(a, p)
    \/ AbandonDesk(a)

ReviewsOne(v) ==
    \/ \E a \in Applications, p \in Pcids, d \in Decisions : Read(v, a, p, d)
    \/ Decide(v)
    \/ Confirm(v)
    \/ Distinguish(v)
    \/ \E p \in Pcids : Clear(v, p)
    \/ AbandonReview(v)

Next ==
    \/ \E a \in Applications : Registers(a)
    \/ \E v \in Reviews : ReviewsOne(v)

Spec == Init /\ [][Next]_vars

-----------------------------------------------------------------------------
(***************************************************************************)
(* However the calls interleave.                                           *)
(***************************************************************************)

\* An identifier names one person and is never handed out again, whatever
\* became of the call that drew it; a request that has one has that person's.
IdentifierNamesOne ==
    /\ \A c, d \in citizens : c.pcid = d.pcid => c = d
    /\ {c.pcid : c \in citizens} = allocated
    /\ \A a \in Applications : issued[a] # NoPcid =>
         \E c \in citizens : c.pcid = issued[a] /\ c.of = a

\* RegistrationService: no second identifier for "someone who may already hold
\* one without a decision being recorded" - of everybody who was on the
\* register when the search was made.
KnownIsDecided ==
    \A c, d \in citizens :
        /\ d.pcid \in known[c.of]
        /\ <<c.of, d.of>> \in Resembles
        => candidate[c.of][d.pcid] \in Decisions

\* Nothing is issued while a candidate waits for its reviewer.
IssuedIsReviewed ==
    \A c \in citizens, p \in Pcids : candidate[c.of][p] # "PENDING_REVIEW"

\* Whoever was issued an identifier was decided on first: nobody known to resemble
\* them, and no candidate of theirs, is left open (register, reviewDuplicate).
IssuedIsDecided == KnownIsDecided /\ IssuedIsReviewed

(***************************************************************************)
(* As long as no two reviews of one application are in flight together.    *)
(***************************************************************************)

RecordsOf(a) == {c \in citizens : c.of = a}

\* An application that was issued has one citizen record, the one its request
\* names; any other has none.
OnePcidPerApplication ==
    \A a \in Applications \ overlapped :
        IF request[a] = "ISSUED"
        THEN \E c \in citizens : c.pcid = issued[a] /\ RecordsOf(a) = {c}
        ELSE RecordsOf(a) = {}

\* An identifier is one person's, and a person's application has one.
IdentifiersAreUnique == IdentifierNamesOne /\ OnePcidPerApplication

\* An application under review is in the queue reviewers list (PENDING_REVIEW
\* candidates): it can still be decided.
QueuedCanBeFound ==
    \A a \in Applications \ overlapped : request[a] = "DUPLICATE_REVIEW" =>
        \E p \in Pcids : candidate[a][p] = "PENDING_REVIEW"

\* "Already reviewed": a decision on a candidate is never changed.  An application keeps
\* the identifier it was issued, and one that was rejected stays so once no candidate of
\* its is left open.
DecisionsStand ==
    [][ \A a \in Applications \ overlapped' :
          /\ \A p \in Pcids :
               candidate[a][p] \in Decisions => candidate'[a][p] = candidate[a][p]
          /\ request[a] = "ISSUED" => request'[a] = "ISSUED" /\ issued'[a] = issued[a]
          /\ request[a] = "REJECTED" /\ (\A p \in Pcids : candidate[a][p] # "PENDING_REVIEW")
               => request'[a] = "REJECTED" ]_vars

(***************************************************************************)
(* What the comments promise and the code does not do.                     *)
(***************************************************************************)

\* RegistrationService: the platform "never issues a second PCID to someone who
\* may already hold one without a decision being recorded".
ResemblanceIsDecided ==
    \A c, d \in citizens : c # d /\ <<c.of, d.of>> \in Resembles =>
        candidate[c.of][d.pcid] \in Decisions \/ candidate[d.of][c.pcid] \in Decisions

\* The page of the reviewer, of "the same person": "the new registration is rejected"
\* (apps/government, duplicates/page.tsx) - and has no identifier, at least where nobody
\* else was at work on it.
ConfirmedGetsNothing ==
    \A c \in citizens, p \in Pcids :
        c.of \notin overlapped => candidate[c.of][p] # "CONFIRMED_DUPLICATE"
=============================================================================
