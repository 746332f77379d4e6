----------------------------- MODULE AuditChain -----------------------------
(***************************************************************************)
(* The audit trail: audit.service.ts record(), policy.service.ts           *)
(* authorize(), and the database functions behind them, audit_event_chain()*)
(* (migration 0011) and verify_audit_chain() (migration 0003).             *)
(*                                                                         *)
(* Every request first has its policy decision recorded, in a transaction  *)
(* of its own; only then does it answer, or open the transaction that      *)
(* changes a row and records the change.  The trigger that chains a row    *)
(* locks audit_chain_head, and PostgreSQL keeps the lock until the         *)
(* transaction ends; a row written but not committed is the writer's       *)
(* draft, invisible to everybody else.                                     *)
(***************************************************************************)
EXTENDS Naturals

CONSTANTS Requests,
          Rows,            \* business rows the requests change
          RowOf,           \* the row each request locks
          Detached,        \* createUnit(), updateUnit(), attachPerson(): change, then record
          Reads,           \* requests that only read
          Starts,          \* p_from of the verifications that are run
          Ends,            \* p_to of the verifications that are run
          Payload(_),      \* audit_event_payload(): the text the hash covers
          Asides,          \* what the columns it leaves out may hold
          AsideOf,         \* what they hold in the rows of each request
          Hash(_, _),      \* sha256 over the previous hash and the payload
          Genesis,         \* repeat('0', 64)
          NoOne, NoRow

ASSUME ChainAssumption ==
    /\ RowOf \in [Requests -> Rows]
    /\ AsideOf \in [Requests -> Asides]
    /\ Detached \subseteq Requests /\ Reads \subseteq Requests
    /\ Detached \cap Reads = {}
    /\ NoOne \notin Requests
    /\ Starts \subseteq Nat \ {0}
    /\ Ends \subseteq Nat

Verdicts == {"PERMITTED", "DENIED"}
Phases   == {"NEW", "DECIDING", "PERMITTED", "REFUSED", "WRITING", "WRITTEN",
             "RECORDING", "DONE", "FAILED"}
Ended    == {"REFUSED", "DONE", "FAILED"}

Decision(r, v) == [req |-> r, what |-> "DECISION", verdict |-> v]
Change(r)      == [req |-> r, what |-> "CHANGE", verdict |-> "PERMITTED"]

(***************************************************************************)
(* What the columns of a row hold that audit_event_payload() joins into    *)
(* the hashed text.  They are joined by a '|' that is not escaped, so that *)
(* different entries may give one text: nothing is assumed of Payload.     *)
(* The roles, the actor's name, the agency's code, the case's and the      *)
(* incident's number, the address, the browser and the device are not      *)
(* among them: they are the row's aside.  Nor is the row's number.         *)
(***************************************************************************)
Entries == [req : Requests, what : {"DECISION", "CHANGE"}, verdict : Verdicts]

VARIABLES
    events,     \* committed audit_event rows
    head,       \* committed audit_chain_head row
    headLock,   \* the transaction holding that row FOR UPDATE
    draft,      \* the uncommitted audit_event row of each request
    rowLock,    \* the transaction holding each business row
    changed,    \* requests whose change is committed
    phase,      \* where each request is
    verifier    \* a run of verify_audit_chain()

chainVars == <<events, head, headLock, draft>>
vars      == <<chainVars, rowLock, changed, phase, verifier>>

IsEvent(e) ==
    /\ e = [seq |-> e.seq, about |-> e.about, aside |-> e.aside,
            prev |-> e.prev, hash |-> e.hash]
    /\ e.seq \in Nat \ {0}
    /\ e.about \in Entries
    /\ e.aside \in Asides

TypeOK ==
    /\ \A e \in events : IsEvent(e)
    /\ head = [next |-> head.next, hash |-> head.hash]
    /\ head.next \in Nat \ {0}
    /\ headLock \in Requests \cup {NoOne}
    /\ draft = [r \in Requests |-> draft[r]]
    /\ \A r \in Requests : draft[r] = NoRow \/ IsEvent(draft[r])
    /\ rowLock \in [Rows -> Requests \cup {NoOne}]
    /\ changed \subseteq Requests
    /\ phase \in [Requests -> Phases]
    /\ verifier.stage \in {"IDLE", "READ", "DONE"}

Init ==
    /\ events = {}
    /\ head = [next |-> 1, hash |-> Genesis]
    /\ headLock = NoOne
    /\ draft = [r \in Requests |-> NoRow]
    /\ rowLock = [x \in Rows |-> NoOne]
    /\ changed = {}
    /\ phase = [r \in Requests |-> "NEW"]
    /\ verifier = [stage |-> "IDLE"]

(***************************************************************************)
(* The trigger: wait for the head, take number and predecessor from it,    *)
(* hash the predecessor's hash and the row's payload.                      *)
(***************************************************************************)
Chained(e) == [seq |-> head.next, about |-> e, aside |-> AsideOf[e.req],
               prev |-> head.hash, hash |-> Hash(head.hash, Payload(e))]

Insert(r, e) ==
    /\ headLock = NoOne
    /\ headLock' = r
    /\ draft' = [draft EXCEPT ![r] = Chained(e)]
    /\ UNCHANGED <<events, head>>

\* Mutation of Publish: the head keeps its number.
PublishSameNumber(r) ==
    /\ events' = events \cup {draft[r]}
    /\ head' = [head EXCEPT !.hash = draft[r].hash]
    /\ headLock' = NoOne
    /\ draft' = [draft EXCEPT ![r] = NoRow]

\* COMMIT: the row and the advanced head become visible, the lock is gone.
Publish(r) ==
    /\ events' = events \cup {draft[r]}
    /\ head' = [next |-> draft[r].seq + 1, hash |-> draft[r].hash]
    /\ headLock' = NoOne
    /\ draft' = [draft EXCEPT ![r] = NoRow]

\* Mutation of Release: the lock outlives its transaction.
ReleaseNothing(r) == UNCHANGED rowLock

Release(r) == rowLock' = [x \in Rows |-> IF rowLock[x] = r THEN NoOne ELSE rowLock[x]]

Goto(r, p) == phase' = [phase EXCEPT ![r] = p]

(***************************************************************************)
(* authorize(): evaluate, record the decision, throw if it is a denial.    *)
(***************************************************************************)
Decide(r, v) ==
    /\ phase[r] = "NEW"
    /\ Insert(r, Decision(r, v))
    /\ Goto(r, "DECIDING")
    /\ UNCHANGED <<rowLock, changed, verifier>>

\* Mutation of CommitDecision: a denial recorded and not thrown.
CommitDecisionNotThrown(r) ==
    /\ phase[r] = "DECIDING"
    /\ Publish(r)
    /\ Goto(r, "PERMITTED")
    /\ UNCHANGED <<rowLock, changed, verifier>>

CommitDecision(r) ==
    /\ phase[r] = "DECIDING"
    /\ Publish(r)
    /\ Goto(r, IF draft[r].about.verdict = "PERMITTED" THEN "PERMITTED" ELSE "REFUSED")
    /\ UNCHANGED <<rowLock, changed, verifier>>

\* A read needs no more than the decision.
Answer(r) ==
    /\ r \in Reads
    /\ phase[r] = "PERMITTED"
    /\ Goto(r, "DONE")
    /\ UNCHANGED <<chainVars, rowLock, changed, verifier>>

\* db.transaction(): the row is locked and changed, nothing is visible yet.
BeginWrite(r) ==
    /\ r \notin Reads \cup Detached
    /\ phase[r] = "PERMITTED"
    /\ rowLock[RowOf[r]] = NoOne
    /\ rowLock' = [rowLock EXCEPT ![RowOf[r]] = r]
    /\ Goto(r, "WRITING")
    /\ UNCHANGED <<chainVars, changed, verifier>>

\* The change as a statement of its own, committed at once.
WriteAlone(r) ==
    /\ r \in Detached
    /\ phase[r] = "PERMITTED"
    /\ rowLock[RowOf[r]] = NoOne
    /\ changed' = changed \cup {r}
    /\ Goto(r, "WRITTEN")
    /\ UNCHANGED <<chainVars, rowLock, verifier>>

\* Mutation of Record: the change is committed before its entry.
RecordAfterwards(r) ==
    /\ phase[r] \in {"WRITING", "WRITTEN"}
    /\ Insert(r, Change(r))
    /\ Goto(r, "RECORDING")
    /\ changed' = changed \cup {r}
    /\ UNCHANGED <<rowLock, verifier>>

\* audit.record(), the last statement before COMMIT that takes a lock.
Record(r) ==
    /\ phase[r] \in {"WRITING", "WRITTEN"}
    /\ Insert(r, Change(r))
    /\ Goto(r, "RECORDING")
    /\ UNCHANGED <<rowLock, changed, verifier>>

Commit(r) ==
    /\ phase[r] = "RECORDING"
    /\ Publish(r)
    /\ Release(r)
    /\ changed' = changed \cup {r}
    /\ Goto(r, "DONE")
    /\ UNCHANGED verifier

\* Mutation of Fail: no ROLLBACK, so that the transaction stays open.
FailOpen(r) ==
    /\ phase[r] \notin Ended
    /\ Goto(r, "FAILED")
    /\ UNCHANGED <<chainVars, rowLock, changed, verifier>>

\* An error or a lost connection before COMMIT: the transaction is rolled
\* back, its locks are released and the request fails.
Fail(r) ==
    /\ phase[r] \notin Ended
    /\ draft' = [draft EXCEPT ![r] = NoRow]
    /\ headLock' = IF headLock = r THEN NoOne ELSE headLock
    /\ Release(r)
    /\ Goto(r, "FAILED")
    /\ UNCHANGED <<events, head, changed, verifier>>

(***************************************************************************)
(* verify_audit_chain(p_from, p_to) runs two statements under READ         *)
(* COMMITTED: each sees what is committed when it starts.                  *)
(***************************************************************************)
\* Mutation of Before: off by one.
BeforeOrAt(n) == {e \in events : e.seq <= n}

Before(n) == {e \in events : e.seq < n}

Last(rows) == CHOOSE e \in rows : \A d \in rows : d.seq <= e.seq

LastHash(rows, default) == IF rows = {} THEN default ELSE Last(rows).hash

VerifyStart(from) ==
    /\ verifier.stage # "READ"
    /\ verifier' = [stage |-> "READ", from |-> from, tail |-> head.next - 1,
                    prev |-> LastHash(Before(from), Genesis)]
    /\ UNCHANGED <<chainVars, rowLock, changed, phase>>

\* Mutation of Problems: the links are followed, no hash is computed again.
ProblemsOfLinks(rows, prev) ==
    {e \in rows : e.prev # LastHash({d \in rows : d.seq < e.seq}, prev)}

\* The rows of the range whose link or content does not verify.
Problems(rows, prev) ==
    {e \in rows : \/ e.prev # LastHash({d \in rows : d.seq < e.seq}, prev)
                  \/ e.hash # Hash(e.prev, Payload(e.about))}

VerifyWalk(to) ==
    /\ verifier.stage = "READ"
    /\ verifier' = [stage |-> "DONE", from |-> verifier.from, tail |-> verifier.tail,
                    intact |-> Problems({e \in events : e.seq \in verifier.from..to},
                                        verifier.prev) = {}]
    /\ UNCHANGED <<chainVars, rowLock, changed, phase>>

Progress(r) ==
    \/ \E v \in Verdicts : Decide(r, v)
    \/ CommitDecision(r)
    \/ Answer(r)
    \/ BeginWrite(r)
    \/ WriteAlone(r)
    \/ Record(r)
    \/ Commit(r)

Verify ==
    \/ \E from \in Starts : VerifyStart(from)
    \/ \E to \in Ends : VerifyWalk(to)

Next ==
    \/ \E r \in Requests : Progress(r) \/ Fail(r)
    \/ Verify

Spec == Init /\ [][Next]_vars

\* PostgreSQL queues the waiters of a lock and Node serves every request: a
\* request that can go on does.  No transaction is assumed to fail.
FairSpec == Spec /\ \A r \in Requests : WF_vars(Progress(r))

-----------------------------------------------------------------------------
(***************************************************************************)
(* Properties.                                                             *)
(***************************************************************************)

\* The chain never forks and never skips (migration 0011, points 1 and 2): the
\* numbers run from 1 without gap or repetition, each row carries the hash of
\* the row numbered just before it, and the head names the last link.
ChainIntact ==
    /\ \A d, e \in events : d.seq = e.seq => d = e
    /\ {e.seq : e \in events} = 1..(head.next - 1)
    /\ \A e \in events : e.hash = Hash(e.prev, Payload(e.about))
    /\ \A e \in events : e.seq = 1 => e.prev = Genesis
    /\ \A d, e \in events : e.seq = d.seq + 1 => e.prev = d.hash
    /\ head.hash = LastHash(events, Genesis)

\* The order rows become visible in is the order they are numbered in, and a
\* row never changes or goes: a reader who has seen number n has seen all
\* numbers below it.
AppendedInOrder ==
    [][ /\ events \subseteq events'
        /\ \A e \in events' \ events : \A d \in events : d.seq < e.seq ]_vars

\* AuditService: "No unaudited access".  A request that got past its
\* authorisation, and a change that is in the database, has its permission in
\* the log; a change made in a transaction has its own entry too, later than
\* the permission; and no entry is there for a change that was not made.
Accounted ==
    /\ \A r \in Requests :
         phase[r] \in {"PERMITTED", "WRITING", "WRITTEN", "RECORDING", "DONE"} \/ r \in changed
           => \E e \in events : e.about = Decision(r, "PERMITTED")
    /\ \A r \in changed \ Detached :
         \E d, e \in events : /\ d.about = Decision(r, "PERMITTED")
                              /\ e.about = Change(r)
                              /\ d.seq < e.seq
    /\ \A e \in events : e.about.what = "CHANGE" => e.about.req \in changed

\* A verification reports a problem only when it was asked to start beyond
\* the end of the chain; whole-chain verification, and a range that starts at a
\* link that exists, never raise a false alarm, whatever commits meanwhile.
AlarmOnlyBeyondTail ==
    verifier.stage = "DONE" /\ ~verifier.intact => verifier.from > verifier.tail + 1

\* The committed trail with one row replaced by an altered one.
Altered(e, f) == (events \ {e}) \cup {f}

\* What verifying the whole chain says of damage.  A lost row is reported (the last
\* one once another row follows).  An altered row is reported if the alteration shows in
\* the hashed text, and only then: an alteration of the columns audit_event_payload()
\* leaves out, or one the unescaped '|' hides, is not, although migration 0003 says that
\* "any alteration ... of a historical row breaks the chain".  And giving the altered
\* row the hash that fits does not help whoever altered it: the next row shows it.
DamageShows ==
    \A e \in events :
        /\ e.seq < head.next - 1 => Problems(events \ {e}, Genesis) # {}
        /\ \A about \in Entries, aside \in Asides :
             Problems(Altered(e, [e EXCEPT !.about = about, !.aside = aside]), Genesis) # {}
               <=> Payload(about) # Payload(e.about)
        /\ e.seq < head.next - 1 =>
             \A about \in Entries : Payload(about) # Payload(e.about) =>
               Problems(Altered(e, [e EXCEPT !.about = about,
                                             !.hash = Hash(e.prev, Payload(about))]), Genesis) # {}

\* verify_audit_chain() can be believed, whether it reports a problem or none: no false
\* alarm, no lost row and no alteration of the hashed text unreported.
VerifierIsRight == AlarmOnlyBeyondTail /\ DamageShows

\* What the request needs for its next step is free.
CanGoOn(r) ==
    \/ phase[r] \in {"NEW", "WRITING", "WRITTEN"} /\ headLock = NoOne
    \/ phase[r] \in {"DECIDING", "RECORDING"}
    \/ phase[r] = "PERMITTED" /\ (r \in Reads \/ rowLock[RowOf[r]] = NoOne)

\* Requests wait for rows and for the head, and never for each other in a circle: who has
\* the head waits for nothing, who has a row for nothing but the head ("the last
\* statement before COMMIT"), and who has ended has neither.  So as long as anybody is
\* under way, somebody can go on.
NobodyStandsStill ==
    /\ headLock # NoOne => CanGoOn(headLock)
    /\ \A x \in Rows : rowLock[x] # NoOne =>
         \/ CanGoOn(rowLock[x])
         \/ phase[rowLock[x]] = "WRITING" /\ headLock # NoOne
    /\ (\E r \in Requests : phase[r] \notin Ended) => \E r \in Requests : CanGoOn(r)

\* Every request is answered, although all of them queue for one row.
EveryRequestEnds == \A r \in Requests : <>(phase[r] \in Ended)

\* Readers of the trail see one growing list (module AuditLog).
Abstract == INSTANCE AuditLog WITH
    log <- [n \in 1..(head.next - 1) |-> (CHOOSE e \in events : e.seq = n).about],
    changed <- changed

LogSpec == Abstract!Spec

=============================================================================
