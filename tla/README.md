# A verification development for PCID

PCID is the Plateau State citizen identity platform: one service
(`src/services/api`, NestJS over PostgreSQL), a policy engine
(`src/packages/policy`), shared types (`src/packages/contracts`) and four web
front ends (`src/apps`). This directory holds TLA+ modules that model the parts
of the service whose correctness depends on the order in which things happen,
the TLC configurations that check them on small instances, and TLAPS proofs of
the properties that matter most for instances of every size.

Paths below are relative to the repository; `api/` stands for
`src/services/api/src/`.

## 1. Inventory

What each component keeps, does, and has to get right. "Hard" names the
behaviours that a unit test hardly reaches; PROJECT.json lists each at its line
under `hazards`, and every component with its modules and what is left out.

| Component | State | Operations | Interacts with | Hard | Correct when |
|---|---|---|---|---|---|
| Incidents and dispatch (`api/emergency`) | `incident`, `incident_agency`, `incident_officer`, `incident_person`, `response_unit`, `dispatch` | report, register and administer units, dispatch, crew updates, status, attach | policy engine (reads the roster), audit | every handler decides on rows read before its transaction | a unit is on one job and shown at its stage; a finished incident stays finished; who is sent is on the roster |
| Audit trail (`api/audit`, migrations 0003, 0011) | `audit_event`, `audit_chain_head` | record, record a decision, verify | every other component records through it | all writers serialise on one row; verification runs beside them | the chain does not fork; nothing is unaudited; no false alarm; a lost row, or one altered in what the hash covers, shows |
| Notifications (`api/notifications`, migration 0012) | `notification`, `notification_delivery_attempt`, each worker's memory | enqueue, claim, deliver, record, retry | gateways, retention | two workers, dying sweeps, visibility timeout, late answers | nobody takes a message twice; sent means told; the queue drains; attempts are bounded and on record |
| Retention (`api/retention`, migration 0016) | `retention_run`, `retention_erasure`, the rows it empties | open a run, erase by rule, dry run, close | notifications | two sweeps at once, failing rules, a sweep that dies | the ledger says what is gone; the backlog drains |
| Database access (`api/database/pool.ts`) | the pool's connections | query, transaction | everything | a second connection asked for while one is held | every request is served |
| Registration and duplicates (`api/identity/registration.service.ts`, `pcid.service.ts`) | `registration_request`, `duplicate_candidate`, `pcid_allocation`, `citizen` | register, review a candidate, issue | alerts, audit, pool | two reviewers at once, two registrations of one person, retry inside a transaction | one identifier per person; nothing issued before the candidates known are decided |
| Corrections and alerts (`api/oversight`, `citizen-portal.service.ts`) | `correction_request`, `citizen`, `alert` | raise (resident, officer), decide, apply, review | notifications, audit | two officers on one row, a second decision after a return, notices under one key | decided once; the resident reads how |
| Sessions and sign-in (`api/iam`) | `user_session`, failed logins and locks, `citizen_mfa_credential`, limiter's counters | sign in, second factor, refresh, log out, change passphrase, enrol | every request's guard, portals | check and write in two statements everywhere | a session has one holder; reuse ends the family; guesses are bounded; a code is good once |
| Portal kit and portals (`src/packages/portal-kit`, `src/apps`) | the session cookie; the sealed offline store | call with refresh, pages, forms, offline panels | API | a page cannot set a cookie; tabs share one store; four places say who may do what | nobody is signed out without cause; what is offered is granted |
| Policy engine (`src/packages/policy`) and vocabulary (`src/packages/contracts`) | none | evaluate an action against gates, grants and the field catalogue | every handler | which refusals a grant stands in for | deny by default; a grant relaxes bindings and nothing else |
| Policy enforcement (`api/policy`), access requests and break glass (`api/access`), Citizen 360 | `access_request`, `break_glass_grant`, `alert` | gather evidence, evaluate, record, discharge obligations; ask, decide, take a grant, expire, review | policy engine, audit | evidence is loaded by independent queries; approver racing approver | what an access rests on held; every use counted and put before a supervisor; decisions stand |
| Credentials (`api/identity/credential.service.ts`) | `credential`, `credential_verification_token` | issue, show, scan, revoke, expire | citizen portal | two first views, a report of loss beside a page | what was reported lost is not confirmed |
| Devices and offline packs (`api/devices`, migration 0015) | `registered_device`, `offline_release`, the device's store | enrol, release, keep, ask, revoke, erase | sessions, policy engine | revocation between two statements of a release | what is carried is on record; no yes after a revocation |
| Cases (`api/cases`) | `investigation_case`, assignments, subjects, notes | open, update, note, link, assign, close | policy engine's case gate | a write that follows an old authorisation | a closed case is reopened by overlap only |
| Missing persons (`api/missing-persons`) | `missing_person`, `unidentified_person`, `person_match`, sightings | report, revise, resolve, match, review, confirm | notifications | two officers on one pair, a run beside a review | a name rests on a review, a candidate on several attributes |
| Integration (`api/integration`) | `data_source`, `data_sync_job`, `data_conflict`, projections | register a source, sync | agencies' systems | overlapping, failing and dying syncs; the watermark | no change is passed over unnoticed |
| Assets, analytics, citizen services, health, load harness, configuration | their tables, or none | mostly reads | policy engine | – | what their routes ask is in `Routes`; see section 8 |

A request enters through the guard (session), is authorised by
`PolicyService.authorize()` in a transaction of its own that records the
decision, and is then served in a second transaction (`api/database/pool.ts:79`)
that ends with its audit record. Almost every hazard of this code sits between
those two: the handler decides on what it read before, and writes later,
usually without a condition on the row. The modules therefore model a handler as
at least two actions, one for what it read and decided, one for what it commits.
Where a handler uses no transaction at all, each statement is an action.

## 2. Modules

| Module | What it is |
|---|---|
| `Dispatch` | incidents, units, dispatches: one action per handler and stage, requests in flight in `pending` |
| `Fleet` | abstract: what the users of the fleet see; `Dispatch` implements it as long as requests about one row do not overlap |
| `AuditChain` | the chained audit trail with its head lock, the requests that write to it, and the verifier |
| `AuditLog` | abstract: a growing list in which every change follows its permission |
| `NotificationQueue` | the queue table, the workers' memory, retries, erasure |
| `Mailbox` | abstract: what senders and recipients see of a message |
| `Retention`, `ConnectionPool` | the retention sweep; the connections that requests wait for |
| `Registration` | desks, the reviewers' queue, identifiers: each call as what it reads and what it commits |
| `PolicyEngine` | the engine as operators: gates, grants, release of fields, `Evaluate` |
| `Vocabulary`, `FieldCatalogue` | roles, actions, purposes, types of record; every field with its rules |
| `Access` | calls that gather evidence and ask the engine, the views that rest on it, access requests, break glass |
| `EmergencyGrant` | abstract: what break glass promises of a grant; `Access` implements it |
| `Routes` | what each route documents and what its handler asks the engine |
| `SecurityPages`, `GovernmentPages`, `EmergencyPages`, `CitizenPages` | the four portals: menu, pages, loads, forms, links |
| `Surface` | somebody with one role who walks through all of it |
| `Sessions`, `Portal` | sessions of one account; the cookie and the refresh in front of them |
| `SignIn`, `SecondFactor` | passphrase, lock and budgets; codes, recovery and enrolment |
| `Credentials` | the digital credential, its tokens and scans |
| `MissingPersons`, `MatchingEngine` | the registers of missing and found persons; the weights that make a candidate |
| `Cases`, `Offline` | investigation cases; what a device carries |
| `Corrections`, `Integration` | corrections and alerts; copies of what other agencies hold |
| `DispatchProofs`, `AuditChainProofs`, `BackgroundProofs`, `RegistrationProofs`, `AccessProofs`, `CorrectionsProofs`, `AccountsProofs`, `ServicesProofs` | theorems |
| `MCDispatch`, `MCAuditChain`, `MCAccess` | instances of one component; `queue_timely` runs `NotificationQueue` itself |
| `MCBackground`, `MCAccounts`, `MCServices`, `MCRegistration` | instances of several components that share no state |

`Access` and `Routes` extend `PolicyEngine`, `Surface` all pages, `Portal` extends
`Sessions`. The other specifications are independent state machines: they share
no variable in the code either, except through the audit trail, whose lock every
transaction takes last (`AuditChain` models the requests of all components by
their shape: transactional, detached, reading). `RECURSIVE` is used nowhere.

The last four MC modules put several machines side by side. Their variable
`area` says which of them a behaviour is about; the others stand still in their
initial state, so the states of the run are the sum of the parts, not the
product. Each property is a property of its area. These modules are
parameterised like the components they put together, and the theorem modules
extend them: a theorem about one part is about that part's own specification,
and one theorem per MC module (`BackgroundAreas`, `RegistrationAreas`,
`AccountsAreas`, `AreasAreComponents`) says that every behaviour of the composed
machine is one of each part, so that nothing the run checks is about something
else than the theorems are.

### Dispatch

`incident`, `unit` and `dispatch` are the status columns; `firstDispatched` and
`firstArrival` say whether the instants `first_dispatched_at` and
`first_arrival_at` are set; `agencyRole`, `officers`, `persons` are the three
link tables. `pending[h]` is what handler `h` has been authorised to write.
`AuthoriseX(h, ..)` is everything up to and including `policy.authorize()`,
`CommitX(h)` the transaction, `Fail(h)` its rollback or the process's end,
`RefuseDispatch(h)` the two conflicts the transaction itself detects.
`Assigned`, `MayUpdate` and `MayClose` are `incidentBindingGate`
(`src/packages/policy/src/gates.ts:433`). Abstracted: who the caller is, beyond
what the gates ask; messages, locations, classification.

`DisjointSpec` is the same system restricted to behaviours in which no two requests
about one row are in flight together. Nothing in the code enforces it. It is there
because it separates what the handlers' own checks achieve (all of `FinishedStays`,
both parts of `UnitShowsItsJob`, `FleetSpec`) from what holds under any interleaving
(`OperationalUnitHasLiveDispatch` and the three parts of `RosterFollowsDispatch`: who
has a unit out is on the roster, who responds was sent, an arrival follows a dispatch;
when a row ends is in section 7). Replacing `DisjointSpec` by `Spec` in
`MCDispatchDisjoint.cfg` shows each of the first group failing, because
`updateUnit()`, `updateDispatch()` and `updateStatus()` write without a condition on
the row they had read.

### AuditChain

`events` are the committed rows, `draft[r]` the uncommitted one of request `r`,
`head` and `headLock` the row `audit_chain_head` and the transaction holding it,
`rowLock` the business rows, `changed` the requests whose change is committed.
A row holds `about`, the columns
`audit_event_payload()` joins into a text, and `aside`, the columns it leaves out (roles,
actor's name, agency code, case and incident numbers, address, browser, device).
`Payload` is that text, and nothing is assumed of it: columns are joined by a '|' that
is not escaped, so different entries may give one text. In TLC's instance two rows that
differ in a column do. The hash is a parameter too; TLC's instance makes it injective in
the text, the proofs assume nothing about it except in `DamageReported`, which says what
it needs. `DamageShows` is what then remains of tamper evidence: a lost row is reported;
an altered one if and only if its text differs; and giving it the hash that fits moves
the report to the next row.
`Detached` are the three handlers that commit the change first and record it
afterwards. `VerifyStart` and `VerifyWalk` are the two statements of
`verify_audit_chain()`; each sees a snapshot of its own, and requests commit in
between. A range that begins beyond the end of the chain can then be reported
although nothing is wrong, so `AlarmOnlyBeyondTail` excludes exactly that case;
the service itself always verifies from 1 (`api/audit/audit.service.ts:314`).

### NotificationQueue

The row (`status`, `attempts`, `due`, `erased`, `log`) and the worker's memory
(`batch`, `held`) are separate: a claim is a copy. `due` abstracts
`next_attempt_at <= now()`, and `Elapse` is the clock passing the back-off or the
visibility timeout. `handed` and `told` count what left the platform and what
arrived, which need not be the same: a gateway may pass a message on and answer
too late. `TimelySpec` assumes that the visibility timeout outlasts every sweep,
which the defaults aim at and nothing enforces.

Retention's statement is two steps, as PostgreSQL runs it at READ COMMITTED:
`FindErasable` (`doomed`) looks at the status, `Erase` (`gone`) writes by id and looks
no more; `LeaveUnerased` is its rollback. `crossed` is history: the messages an operator
put back in between. `ErasedIsNeverSent` says that of the erased messages only those
are handed over, and that the copy with which it happens is the last one: a worker that
claims the message later finds no address. `Retention` looks at the
same statement from the ledger's side.

### Registration

`request`, `issued`, `candidate`, `citizens` and `allocated` are the tables;
`desk[a]` is a `register()` call that has made its search and not committed,
`review[v]` a `reviewDuplicate()` call that has read its candidate (`READ`) or
updated and counted (`COUNTED`). A transaction's uncommitted writes are in these
two only, and `PendingBut` is the count as such a transaction sees it. `known`
and `overlapped` are history: who was on the register when a search was made,
and which applications two reviews of which were in flight at once. `Issue` is
`PcidService.allocate()` with the insert of the citizen: both the identifier and
the national number are unique keys. The number is asked for at the desk and is
not stored with a queued request (`redactForStorage`), so `Clear` issues without
one.

### PolicyEngine and Access

`PolicyEngine` has one operator per gate, over the record that `evaluate()` is
given. `HardGates` are those nothing relaxes; `RelaxedGates` the binding gates a
request fails by itself; `CaseAboveClearance` is the one refusal of the case gate
that carries no `relaxableBy`, and `Bound` says that every failed gate must have
a grant in scope. `AllowedFields` is `computeFieldRelease()`, with the catalogue
a parameter. Of the vocabulary, the 18 actions are kept that some gate treats in
a way of its own; every purpose occurs.

`Access` puts requests to it. `call[p]` is one call: `todo` are the queries it has
still to make, in any order but that a case or an incident is read before its team
(`authorize()` loads over a pool, without a transaction); `case`, `incident`, `grant`,
`approvals` and `agreement` are what it has read. `Decide` is `evaluate()` with the
audit row, `Count` and `Alert` the two obligations, `Answer` the view itself. Citizen
360 asks once for the identity and once for a card (`DecideIdentity`, `DecideCard`,
`Answer360`) through `evaluateOnly()`. `InsertRequest` is `createRequest()`,
`ReadRequest` and `WriteDecision` the two halves of `decide()`; `hand[r]` are the
approvers between them. One person, one case, one incident and one agency stand for
all. `unseen[p]` is history: the facts that have not held at any moment since the call
began; `Watch` keeps it in every action. `audited`, `answered` and `answered360` count
for the properties. `ReviewBreakGlass` writes one of the two `Verdicts` over whatever
is there, an earlier one included.

`CaseMoves`, `IncidentMoves`, `JoinsCase`, `JoinsIncident` and
`AgreementChanges` are the writes of other components to the rows a call reads,
made at any moment: their own authorisation is not asked for here.

`EmergencyGrant` is what remains of all this for somebody who answers for a
grant: it is taken, lapses or is reviewed (`phase`); a call that has found it
good may use it until it lets go of it, a review notwithstanding, but never after
the grant's time (`trusting`); and each use is audited, counted, put before a
supervisor and answered, in this order. `Glass` of `Access` reads `phase` off the
row and the clock, `trusting` off what the calls have loaded. Citizen 360 uses a
grant outside of this: it asks without authorising, so it lets go of what it found
and answers (`access_uncounted` is the run about that).

### Surface

`Api[controller][handler]` of `Routes` holds the questions a handler puts to the
engine (`must`, or `may` where a refusal only leaves something out), their
purposes and types of record, whether a recent second factor is demanded;
`Documentation` what `documentRoute` says. A page is its guard, its loads, its
forms under what `can()` says, and its links. `Surface` opens every page the menu
and the links lead to, submits every form, and takes the engine's answer to each
call, with the best evidence there can be; the role is any of the seeded ones.
`Lapse` ends the recent second factor at any moment. `told` are the calls of the
last step with their answers, `done` the actions granted so far.

### Sessions, Portal, SignIn, SecondFactor, Credentials

`rows` is `user_session` in order of insertion. `refresh()`, sign-in and device
registration are one action per statement, `request[r]` what a request remembers
between two; passphrase change and device revocation are transactions. `line` (a row
and everything it was rotated out of), `knew`, `raced` and `given` are history, so
that properties can speak of families of sessions. `Portal` is the cookie of one
browser: a page can refresh but not set it (external, Next.js), an action can.
`SignIn` keeps the counters of the limiter with their windows, the account's count and
lock. A code of `SecondFactor` is a credential and a time step; its counter is read
before a code is verified and written afterwards. An enrolment's transaction is two
steps (`DeletePending`, `InsertPending`), since a second enrolment between them sees
neither. `Credentials` has the page (find or issue, then mint), the scan (read, then
answer) and the report of loss (revoke, then delete the tokens); `reported` is what
its holder had when they reported the loss, which is not read off the rows.

### MissingPersons, Cases, Offline

Each is what a request reads, what it was authorised on, and the statement that
follows. `MissingPersons` takes from `MatchingEngine`, which computes the scores of
`matching.engine.ts` from five attributes, what the engine may say of a pairing. The
case gate in `Cases` looks at the row as it is when the officer is authorised.
`Offline` has the platform's side (device, releases, the trigger that ends a device's
releases) and the device's: tabs share one store, each of whose operations is a
transaction.

### Retention, ConnectionPool

A rule of `Retention` is one statement in two steps, finding and writing, as
PostgreSQL runs it at READ COMMITTED; of the eight rules one of each disposition
is kept. `ConnectionPool` is the queue for connections. Only
`raiseIdentityIntegrityAlert()` asks for a second one while it holds the first,
and enough of them at once close a circle (`Circle`) that nothing in the process
opens; what the server does to idle transactions is left out.

### Corrections, Integration

`todo[q]` are the statements of a request to correct that have still to run: it is
inserted, audited and told of one after the other, and the process may stop
between. `review[o]` is a transaction that holds its row's lock from the check of
the status to the commit (`FOR UPDATE`), of a correction or of an alert. `trail`
is the audited decisions; `replaced` in them is history: what the register held.
`told` is the notice under its key.

`sync[k]` is a call of `sync()` and how far it has come: source read, job opened,
watermark read, answer taken, projection written, end recorded. Each is a
statement of its own but the writing, which is one transaction. One clock ticks
for changes at the agency and ends of syncs, the only instants compared.
`slipped` is history: the changes made after an answer and before the end of its
sync, and those the limit left out. A record cites the same person throughout.

### Mutations

Beside some definitions stands a variant marked "Mutation of ...": the same
operation with a plausible bug (a dropped check, an off-by-one, a lock not
waited for). They belong to no specification. For each property of a passing run
PROJECT.json names one whose substitution makes TLC find the property violated,
so that every property is known to be able to fail; those that join several parts
have more than one.

## 3. Runs

Each run is one configuration file; `PROJECT.json` lists its properties.

| Run | Configuration | Question | Outcome |
|---|---|---|---|
| `fleet` | MCDispatchFleet | What holds of units, rosters and recorded instants however requests overlap? | holds (2.2 million states) |
| `disjoint` | MCDispatchDisjoint | What do the handlers' own checks achieve when requests about one row do not overlap, and does the service then implement `Fleet`? | holds (0.6 million) |
| `audit` | MCAudit | Does the chain stay whole and complete, is it the abstract log, does verification tell damage from concurrency, and which damage, can somebody always go on, is everybody answered? | holds (119 000) |
| `queue_timely` | MCQueueTimely | With a visibility timeout longer than every sweep: is a message taken once, are hand-overs bounded and on record, is the queue a `Mailbox`, and is an emptied message sent no more? | holds (0.67 million) |
| `background` | MCBackground | With sweeps of any length: does sent mean told, does the queue drain? Is retention's ledger true, and does its backlog drain? Is every request served a connection, and does the pool stand still for nothing but a circle? | holds (399 000) |
| `registration` | MCRegistration | Are identifiers unique, is everybody known at the search decided on, do decisions stand? Do pages, routes and roles agree, for every role? Are corrections decided once and told? | holds (28 000) |
| `access` | MCAccess | Did everything a permitted access rests on hold while it was under way, does the service keep the promise of `EmergencyGrant`, do reviews and decisions stand? | holds (0.7 million) |
| `accounts` | MCAccounts | Has a session one holder, does reuse end its family, does a change of passphrase or device end what it should? Is a browser signed out for a cause only? Are guesses bounded, codes good once, lost credentials never confirmed? | holds (1.72 million) |
| `services` | MCServices | Does a name rest on a review, is what a device carries on record, are a closed case, a resolved report and a decided match undone by overlap only? Does a sync pass over anything? | holds (1.58 million) |
| `finished` | MCDispatchFinished | Can a unit be dispatched to a job that is over? | violated: see section 7 |
| `access_uncounted` | MCAccessUncounted | Is every answer that relied on a grant counted on it? | violated |
| `signed_out` | MCAccountsSignedOut | Is nobody signed out mid-task? | violated |

Deadlock is not looked for (`CHECK_DEADLOCK FALSE`) where the system really comes
to rest: the queue when every message has stopped, the register when every
identifier has been drawn, a role when it has been everywhere, an account, a case
or a source when the rows of the bound are used up.

## 4. Bounds

Every bound is a constant of a configuration, or a value in an INSTANCE of an MC
module.

- *Dispatch.* Two requests in flight are the least that can overlap, and every
  hazard listed is a race of two. Two incidents let a unit be wanted twice, two
  agencies let a roster row outlive another agency's dispatch; one unit is
  enough because no handler reads two units. `StatusRequests` limits the
  statuses that `updateStatus()` is asked for to one active and one finished.
  `disjoint` has one agency and a person to attach, so that every handler fires
  in one of the two runs.
- *Audit.* Three requests, one of each shape, give the head of the chain two waiters;
  up to five rows. Two values of the columns that are not hashed, and the verdict of a
  decision hashed, that of a change not: an alteration may show or not. Ranges of
  verification are all of `MCStarts` to `MCEnds`, including one that starts beyond the
  end.
- *Queue.* In `queue_timely` one message that leaves the platform and one that does
  not, both old enough for retention, batches of two, `MaxAttempts` 3 in place of 5
  (failures that are retried and a last one), and two of the operator's retries and
  two dying sweeps: a retry before retention finds a message and one after. They count
  what happens at most, never what must happen. `background` has less of each, and
  none of the operator's retries, since a queue retried for ever does not drain.
- *Retention, pool.* The schedule's sweep and an operator's; one notice and two
  rows with a batch of one, so that a rule has to come again; one sweep that dies
  and one retry. Three requests on two connections close the circle and have one
  that waits beside it.
- *Registration.* Three applicants, of whom one resembles the other two and
  those two share a national number; two reviewers; one identifier more than
  applicants, so that a draw can collide and be tried anew.
- *Surface.* All roles, pages, routes and fields. `MaxLapses` 2: once before and
  once after a proof of the second factor.
- *Corrections.* One request, since requests meet in nothing but the field they ask
  for; three fields, one that can be asked for and applied, one that can be asked for
  and never applied, one that only a resident can ask for; two officers, one alert.
- *Integration.* Two records with a limit of one, so that an answer leaves one
  out; two syncs of one source; `MaxClock` 2 changes and ends (3 and 4 were
  checked as well; the theorem of section 6 is for any).
- *Access.* One call at a time: calls write no row that another one reads, so two of
  them meet only in the counters; the theorems of section 6 are for any number of
  calls. One officer and two supervisors are the least for a decision and a review to
  have somebody else to make them, twice. `MaxChanges` 1 and `MaxTime` 1: a fact that
  was lost cannot come back, and one change between any two queries is what takes an
  access its ground; `MaxUses` 1 bounds the counters. Two verdicts, so that one can
  overturn the other. The three fields and three intents are chosen so that an access
  is permitted by a case, by an incident, by an approval and by a grant alone.
- *Accounts.* Two requests; three sessions, so that a session has a successor
  and a rival; one device, one change of passphrase. `MaxFailures` 1 and budgets
  of 2 reach lock and closure with two attempts; three tries, two enrolments,
  three time steps; two credentials and two tokens.
- *Services.* Two requests or tabs; two missing persons and one found, so that
  two pairs compete; one case, an investigator and a supervisor; two releases
  and two keys.

The theorems of section 6 hold for every value of the constants of their modules,
any number of requests, workers, rows and instants; the bounds matter only for
what is model-checked alone, which is liveness and `PagesAreSound`.

## 5. Fairness

Four specifications state fairness, for the liveness properties.

- `AuditChain!FairSpec`: weak fairness of `Progress(r)` for each request. A
  request runs in a process whose event loop keeps turning, and the transaction
  that holds the head row commits or is rolled back: `pool.ts` sets
  `statement_timeout` and `idle_in_transaction_session_timeout`, and `Fail` is
  one way to progress. Weak is enough because the lock is only ever waited for
  in order: whoever holds it can always end. Nothing forces a request to begin.
- `NotificationQueue!FairSpec`: weak fairness of each worker's sweep and of the
  clock (`Elapse`). `worker.scheduler.ts:52` sweeps on an interval for as long
  as the process lives; back-offs and visibility timeouts are finite. Nothing is
  assumed of the gateways, of dying processes (at most `MaxAborts`) or of
  operators.
- `Retention!FairSpec`: weak fairness of the schedule's steps
  (`retention.scheduler.ts` ticks on an interval, and a statement ends); strong
  fairness of each rule's success, since a rule may fail at any run but one that
  fails at every run erases nothing and no code can make it; weak fairness of a
  queued notice coming to rest, which is `QueueDrains`.
- `ConnectionPool!FairSpec`: weak fairness of handing out a connection (the
  driver serves in order) and of the work of whoever has one (`statement_timeout`).

`MCBackground` states the last three with each part's area as a guard. All other
properties are safety properties and assume nothing.

## 6. Proofs

TLAPS proves the theorems PROJECT.json lists, each for every value of the
constants, from the ASSUMEs in the modules (shapes of constants only) and what
the theorem itself states. They are of three kinds.

*Invariants.* None of the properties is inductive as it stands.

- `DispatchProofs`. `OperationalUnitHasLiveDispatch` needs only types: every handler
  writes unit and dispatch in one transaction, and the lemma `StepKinds` reduces
  `Next` to the writes. `RosterInv` adds to `RosterFollowsDispatch` `PendingKnown`,
  that a request in flight names an incident its caller could see. `DisjointInv` adds
  `FreshDecisions`, that what was checked at authorisation is still so when the
  transaction starts; it is this conjunct that overlapping requests break.
- `AuditChainProofs`. `Owned` says who holds which lock at which stage;
  `ChainIntact` and `Stages` (which of a request's entries are committed at each
  stage) are then inductive together with `Accounted`. `Anchored` says what a
  verifier that has read its predecessor row knows; appended rows do not change
  it. `DamageReported` assumes of the hash that it never returns its first
  argument and separates texts after the same predecessor; of the text it assumes
  nothing.
  `NoCircleOfWaiting` is what liveness rests on that is not fairness: locks are taken
  in one order, business rows before the head, so whoever holds the head waits for
  nobody, and as long as a request has not ended one can go on
  (`NobodyStandsStill`); `RequestsGetOn` adds that a request ends after at most five
  steps of its own.
- `BackgroundProofs`. `QueueInv` (a claim in memory has attempts left, a held `SENT`
  outcome was told) holds of `Spec`; `TimelyInv` adds `Mine` (a claim mirrors its row)
  and `Exclusive` (no two claims of one message), which are what the visibility
  timeout buys, and for `ErasedIsNeverSent` that a message retention has found has
  stopped unless it was put back since (`FoundStopped`). `AccountInv` adds for
  `AttemptsAccounted` what the hand-overs of a message are made of: attempts recorded,
  attempts a retry has set back, sweeps that died, and at most one that is with a
  gateway now (`Pending`); since claims are exclusive it counts per message, not over
  workers. `RetentionInv` says of a sweep (`SweepOf`) that what it has found lies in
  the table of the rule it is at and that the rules behind it are in the ledger, and
  (`Apart`) that what it has found is not gone yet unless two sweeps overlapped, which
  is the one way a row is counted twice. `PoolInv` reads the connections of a request
  off where it is, and says that the queue holds only those who ask, each once;
  `OnlyCircleBlocks` follows by counting: if nobody can move, every connection is with
  somebody who waits for a second one. `BackgroundAssumption`: the tables of two rules
  share no row and are finite, the requests are finite, bounds are numbers.
- `RegistrationProofs`. `AskedInv` follows a person found to resemble an
  applicant from the desk (`FoundAtDesk`) to the queue (`FoundInQueue`), and
  says that a reviewer's count covers whatever is still pending
  (`CountCovers`); it holds under every interleaving. `AloneInv` adds, for
  applications whose reviews have never overlapped, that the one review in
  flight is of a pending candidate and its count exact. `DecisionsAreKept` rests on
  this: a decision on a candidate is final, what was issued stays, and an application
  that was rejected stays so once none of its candidates is left open.
- `CorrectionsProofs`. The lock on the row carries the argument: `Locked` says that
  whoever decides on a request is alone with it and that it is open, so the trail
  holds no final decision on it before the commit; `RaisedInOrder` says that a
  request is inserted once, before anybody can find it. `CorrectionsAreAnswered`
  is itself part of the invariant. No assumption on the constants is needed.
- `AccountsProofs`, one invariant per part.
  *Sessions.* `OneHolder` compares two live rows of one sign-in, and whether they
  may both be live depends on every refresh that led to them. `TreeInv` therefore
  describes the tree that rotations make. A row that no two refreshes overlapped on
  has one successor, which is on record or about to be recorded (`Successors`), and
  whoever is between reading it and recording is alone with it (`Flight`). Two rows
  of which neither descends from the other part at a row on which refreshes
  overlapped (`Kin`), and a row with a successor is ended (`ReplacedEnded`). For
  `ReuseEndsFamily`, `Chains` says that the successors on record lead from any row
  to every one that descends from it and was handed out; it is stated with closed
  sets, since following the successors step by step would be an induction. For
  `SessionsEnd`, `Remembered` says what a refresh that read its row before the
  passphrase changed may still insert.
  *Portal.* `Calm` says that until something has happened to the cookie one call at
  a time is under way and holds the cookie's tokens or newer ones.
  *Passphrase.* `LockInTime` relates the wrong guesses made, the count on the account
  and the attempts that have read the count and not written it.
  *Second factor.* `CheckingInv` says which row each request is about and what it read
  there, `CodesInv` that a counter is beyond every code accepted, as long as nobody wrote
  over a counter read earlier. *Credentials.* What its holder reported lost is
  revoked, whichever credentials there were (`CredentialInv`), and stays so; a scan that
  read a credential before the report is not one after it.
  `AccountsAssumption`: the requests in flight are finite, there is an identifier and
  a session, bounds are numbers and at least one failure is allowed.
- `ServicesProofs`. `SyncInv` follows a record that is not what the source holds
  through a sync: while the sync asks it is ahead of what is asked from
  (`AsksForAll`), once it is answered it is in the answer (`HoldsAll`), once it is
  written it is settled (`WroteAll`), unless it slipped. The watermark is any latest
  end, stated with quantifiers, because that a finite set has a maximum is an
  induction. `RecordInv` says of a request for a pack under way that the people it has
  read and is done with are on record (`DoneAreOnRecord`), which is what the release
  then names, and that a tab waits only for answers to questions asked while the
  device was live. `MatchingInv` adds to `NamedOnEvidence` that a review and a match
  in hand are of a row there is, and that a candidate on its way from the engine into
  the table rests on several attributes (`RaisedAreSeveral`). `CaseInv` says that an
  officer who was authorised saw an active case (`SawItLive`), so that whoever finds
  it closed when writing overlapped with the closing. `SawItUnsettled` says the same
  of the registers: a request that is to write a report, a found person or a match has
  seen it unsettled, which is what the refusals before the transaction achieve and all
  that they do. `ServicesAssumption`: bounds are numbers, the found persons are
  finite, and the null of a status is none.
- `AccessProofs`. `TypeInv` adds to the types that a call names a grant before it
  has read or used one, which `UsedGrantIsInScope` gives, and that an approver
  holds a request of somebody else's. `UsesInv` adds to each inequality of
  `CountedBeforeAnswered` the calls on their way between the two counts (`At`,
  `Answering`), whose sets are finite. `SeenInv` says of what a call has loaded,
  in whichever order, that every fact it would count in the officer's favour is
  out of `unseen`; `RelianceSeen` then goes through the gates of `Evaluate` and
  shows that a permit rests on nothing else. `AccessAssumption` says that null is
  no row, account or status, `IntentAssumption` that calls ask for a person's
  data and that a profile names its account. Three theorems are about the engine
  alone, for any request and catalogue: `UsedGrantIsInScope`,
  `OutOfScopeGrantIsNothing`, `GrantIsBounded`.

*Action properties.* `AppendedInOrder` (a theorem only: `LogSpec` implies it),
`FinishedStays`, `ErasedIsNeverSent`, `DecisionsStand`, `RulingsStand`,
`ReuseEndsFamily`, `OnlyOverlapUndoes`, each from the invariant of its module.

*Refinement.* `DisjointSpec => FleetSpec`, `Spec => LogSpec`, `TimelySpec =>
MailboxSpec`, `Spec => BreakGlassSpec`: initial states map to initial states and each
step to a step of the abstract specification or a stutter, one lemma per kind of step.
`PortalSpec => Spec` (`PortalImplementsSessions`): the cookie in front of the sessions
only restricts who asks when, so what holds of sessions holds behind it. For break
glass the mapping is not inductive by itself: `CopiesInv` says that what a call has
read of a grant agrees with the row on its time, and is let go of when the call
decides, so that a lapse seen in the table is one for every copy; `UsesInv` gives the
order of the counts; and that a use was of a grant that was found good is
`UsedGrantIsInScope`, a theorem about the engine. The four theorems of section 2 say
the same of the composed machines.

Every safety invariant, action property and refinement that a run checks is
stated by a theorem, with one exception. Model-checked only:

- liveness (`EveryRequestEnds`, `QueueDrains`, `BacklogDrains`,
  `EveryRequestIsServed`), which rests on fairness and `ENABLED`, out of the
  prover's reach;
- `PagesAreSound`, a question about the roles, pages and routes the repository
  seeds: apart from `MaxLapses` nothing in it has another size, and TLC goes
  through all of it.

## 7. Disagreements met while modelling

Three of these are runs of their own; PROJECT.json quotes the line.

- *A job that is over* (`finished`). `dispatch()` asks of the incident only that
  it exists, and `DISPATCH_CREATE` is not among the actions the incident gate
  binds, although the gate's comment says dispatching to a finished incident is
  refused.
- *Uses nobody counts* (`access_uncounted`). Citizen 360 asks the engine without
  authorising, so an answer that only an emergency grant made possible is neither
  counted on it nor alerted, and its audit row names no grant.
- *Signed out mid-task* (`signed_out`). A page that refreshes the session while it
  renders cannot keep the new token; the next call presents the spent one, and the
  service takes it for a stolen one.

Others are stated in the modules and have no run. Where a definition is named,
put it in place of the property of the component's run (as an INVARIANT, or as a
PROPERTY where it is temporal; through the INSTANCE of an MC module where there
is one) and TLC finds it violated, unless said otherwise.

- *What the hash covers.* "any alteration or deletion of a historical row breaks the
  chain" (migration 0003, line 3): `audit_event_payload()` leaves out roles, actor's
  name, agency code, case and incident numbers, address, browser and device, and joins the
  rest by a '|' that is not escaped. An alteration that does not change that text is not
  reported; `DamageShows` says so in both directions.
- *A second verdict.* A review is written over an earlier one
  (`access.service.ts:508`), which only the audit trail then still shows.
  `ReviewStands` says what survives: the grant stays reviewed, and its time.
- *Two enrolments at once* of one account leave two pending authenticators and the
  recovery codes of both: neither transaction's DELETE finds what the other inserts
  (`citizen-security.service.ts:152`).
- *The roster* (`Dispatch!RespondingAgencyHasLiveDispatch`). Closing a dispatch
  does not close the agency's access to the incident, which the class comment of
  `dispatch.service.ts` says it does.
- *Duplicates* (`Registration!ResemblanceIsDecided`, `ConfirmedGetsNothing`). Two
  desks at once see nothing of each other. A reviewer who confirms one candidate leaves
  the others open, and clearing the last of them issues an identifier to the rejected
  application, also when one reviewer works alone.
- *Corrections.* "a register that accepts a correction and then does not make it
  is worse" (`corrections.service.ts:74`): names, birth, sex, address, LGA and ward
  can be asked for, and `apply()` makes the telephone numbers and the e-mail only
  (`AcceptedCanBeMade`); the one test uses `citizen.phonePrimary`, and the code
  that rebuilds the display name is never reached. "tells the resident it happened"
  (line 74): after a return for evidence the notice of the decision has a key that
  is taken, and is dropped (`ToldOfDecision`). "before it is changed" (line 229): the
  notice of a request is the last statement, and a decision may come first
  (`ToldBeforeChanged`). "the before and the after" (line 329): the value on the
  trail is the one at the time of asking, none for a resident's own request
  (`BeforeIsWhatWas`).
- *Integration.* "A field the platform holds that disagrees with the source raises
  a data conflict" (`integration.service.ts:61`): only an unknown person does, and
  the next sync asks from the instant the last one *finished*, so that a change
  made after its answer, or beyond the 500 records of one answer, is neither asked
  for again nor on record (`DisagreementIsSeen`). A record in conflict is not
  retried when its person is registered, and a job whose process died stays
  `RUNNING`.
- *Grants nobody can exercise* (`Surface!EveryGrantIsExercised`, from
  `action-coverage.test.ts:12`): six actions, listed in `NotOffered`. *Step-up*
  (`StepUpIsOffered`): the queue of an approver whose second factor is no longer
  recent is shown as empty (security portal, authorisation page).
- *Cases.* "a case could not be moved from DRAFT to ACTIVE" is what `CASE_UPDATE` is
  said to end (`cases.service.ts:397`), and the case gate refuses it on a draft
  (`gates.ts:366`); `DraftCanStart`, under `PersistentSpec`.
- *Offline.* The pack of a live device is erased when the answer fails for another
  reason (`ErasedOnlyWhenSignedOut`). `eraseEverything()` is not called on
  sign-out.
- *Sessions.* Ending a device ends the session it was registered from
  (`devices.service.ts:85`); not what was rotated out of it, which is bound to
  none (`DeviceEndsItsSession`). *Codes* (`SecondFactor!NoReplay`): two requests that
  read the counter together both accept one code.
- *Missing persons.* A resolved report can be written over by a revision read
  before, and a candidate decided twice (`ResolvedStaysResolved`, `DecidedOnce`);
  nothing but such an overlap undoes either (`OnlyOverlapUndoes`, proved);
  `person_match` has no unique index, so a run raises rejected pairs again.
- *Retention* (`OnlyStoppedAreEmptied`, `ErasedOnce`). A notice queued again between
  the finding and the writing is emptied on its way - a worker that has claimed it in
  time still hands its copy over, everybody later finds no address - and two sweeps count
  one notice twice (`retention.rules.ts:141`).
- A verification officer is linked to a person page that asks for `CITIZEN_VIEW`,
  which the role has not; the form of requests on the government person page is
  shown without `can()`; the enquiry page reads `match.factors`, which the service
  does not return; blood group and medical notes are the resident's to edit, but
  released for emergencies only; an expired credential that is still `ACTIVE` is
  never replaced.
- *Taken twice.* The visibility timeout of a claim (300 s) is not related to the
  batch size (up to 500) and the gateway timeout (10 s per message), so a worker
  still at work can lose its messages to another, although
  `delivery.worker.ts:36` says two workers never take the same message. With
  `Spec` in place of `TimelySpec` TLC finds `NeverTakenTwice` violated.
- *The attempt table* is "what happened on each attempt" (migration 0012, line
  42). After an operator's retry the numbering starts again and the rows of the
  new attempts are dropped (`delivery.worker.ts:232`); `AttemptsOnRecord` is
  therefore about messages that were not retried.
- `decide()` refuses a request that "has already been decided"
  (`access.service.ts:223`), but an approver who read it earlier still overwrites the
  decision; `DecisionStands` says that it takes an approver who had it in hand
  already, that nobody takes a decided one in hand, and that the decision is then
  replaced as a whole.
- "Clearance is never relaxable, including through a case" (`gates.ts:413`), yet
  the clearance for the case is asked only of those assigned to it: an officer
  who is not, and whose grant stands in for the case, is not asked
  (`CaseAboveClearance` in `PolicyEngine`). The clearance for the record and its
  fields is always asked.
- `expireStaleGrants()` is "run on a schedule" (`access.service.ts:582`), and
  nothing in the repository calls it. The engine looks at `expires_at` itself, so
  nothing but the listings depends on it.
- `docs/security.md:129` has supervisors notified on first use of a grant; the
  code notifies them when the grant is taken and raises an alert at every use.
- With `Spec` in place of `DisjointSpec`, every property of `disjoint` fails: a
  status change authorised while an incident was active is written after it was
  resolved; a unit is put out of service by a request authorised before it was
  dispatched; of two crew updates of one dispatch the one authorised earlier can
  overwrite a closed status.
- `verify_audit_chain()` from a number beyond the end of the chain can report
  rows that commit between its two statements (`AlarmOnlyBeyondTail` leaves out
  just this case).
- A gateway that passes a message on and answers too late makes the recipient
  hear it twice without any process dying; a process that dies between hand-over
  and record makes more hand-overs than attempts. `HandOversBounded` states the
  bound that is left.
- `PcidService.allocate()` "simply draws again" (`pcid.service.ts:13`) inside the
  transaction whose insert failed. PostgreSQL refuses every further statement of
  that transaction, so a collision ends the call; the model rolls it back.
- Two reviews of one application at once can leave it in `DUPLICATE_REVIEW` with
  no pending candidate, or reviewed twice; the properties of `registration` that
  say so are about applications whose reviews do not overlap.
- `raiseIdentityIntegrityAlert()` takes a second pool connection inside a
  transaction (`registration.service.ts:531`, `policy.service.ts:461`), the only
  such place in the code: `Circle` in `ConnectionPool`.

## 8. Not modelled

Components with status `not_modelled` or `partly` are listed in PROJECT.json
with the reason.

- Health probes, configuration, logging and validation keep no state; the load
  harness and the demonstration data generate calls and rows and are run by hand;
  so are the migrator and the seeds.
- Administration of accounts and agencies (`admin.service.ts`): single upserts,
  whose effects are what the environment of `Access` and `SignIn` may do. Of citizen
  services, contacts and reports are single inserts; assets' ownership and flags
  are single updates of one row with no guard on its state.
- Reads and projections (the contents of Citizen 360's cards, analytics, map,
  listings): no state of their own. Which actions they ask for is in `Routes`.
- Cryptography (hashing, encryption, one-time passwords, token signatures):
  parameters, where a module needs their outcome.
- The service worker, layout and wording of the front ends.

Abstractions inside the modules, beside those named in section 2: identifiers
are model values; addresses and message bodies are present or erased; the
agreement of two people's attributes is one relation, decided once
(`Resembles`), and a search meets fewer records than the fifty it ranks;
national numbers are the only attribute kept apart because the schema makes them
unique; the agency's clock and the platform's are one; the statements of one
transaction are one step except where another request can see between them.

## 9. Plan

Every component that keeps state over several steps has its module, and every
safety property its theorem. What would add most from here, in order:

1. The administration of accounts beside sessions and access: an abstract
   directory that both read, so that what ends with an account is one property.
2. Restrictions under which the statements of section 7 hold, as `DisjointSpec`
   is for `Dispatch` and `OnlyOverlapUndoes` for cases and missing persons,
   starting with the second sweep of `Retention`.
