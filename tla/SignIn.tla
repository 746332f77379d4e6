------------------------------- MODULE SignIn -------------------------------
(***************************************************************************)
(* Signing in to one account with a passphrase: auth.service.ts            *)
(* loginGovernmentUser(), loginCitizen(), enforceLoginRateLimit() and      *)
(* recordFailure(), with the counters of rate-limit.ts.                    *)
(*                                                                         *)
(* Every attempt comes from one address, as from behind an office gateway. *)
(* An attempt that gets past the two budgets reads the account once and    *)
(* acts on what it read; each write is a statement of its own.             *)
(***************************************************************************)
EXTENDS Naturals, FiniteSets

CONSTANTS Requests,
          Identifiers,       \* the ways to name the account: address, PCID
          MaxFailures,       \* LOGIN_MAX_FAILURES
          IdentifierBudget,  \* bound: stands for 3 * LOGIN_MAX_FAILURES
          AddressBudget,     \* bound: stands for 10 * LOGIN_MAX_FAILURES
          MaxCounted         \* bound: failures, and attempts under one identifier

VARIABLES
    citizen,       \* whether the account is a citizen's
    status,        \* "ACTIVE" or "SUSPENDED"; no statement of the code sets it
    failures,      \* failed_login_count
    locked,        \* locked_until: "never", "running" or "over"
    byIdentifier,  \* the counter login:<identifier>
    byAddress,     \* the counter login-ip-failures:<address>
    store,         \* whether the counter store answers
    attempt,       \* what each attempt in flight remembers
    wrong,         \* failures on record since the address counter last expired
    guesses        \* wrong passphrases compared while no lock was running, since the
                   \* count was last cleared or a lock last ended

vars == <<citizen, status, failures, locked, byIdentifier, byAddress, store, attempt,
          wrong, guesses>>

Steps == {"idle", "identified", "admitted", "spend", "count", "clear", "reset"}
Attempt == [at : Steps, identifier : Identifiers]
Idle(a) == attempt[a].at = "idle"

TypeOK ==
    /\ citizen \in BOOLEAN
    /\ status \in {"ACTIVE", "SUSPENDED"}
    /\ failures \in 0..MaxCounted
    /\ locked \in {"never", "running", "over"}
    /\ byIdentifier \in [Identifiers -> 0..MaxCounted]
    /\ byAddress \in 0..MaxCounted
    /\ store \in BOOLEAN
    /\ attempt \in [Requests -> Attempt]
    /\ wrong \in 0..MaxCounted
    /\ guesses \in 0..MaxCounted

Init ==
    /\ citizen \in BOOLEAN
    /\ status = "ACTIVE"
    /\ failures = 0 /\ locked = "never"
    /\ byIdentifier = [i \in Identifiers |-> 0]
    /\ byAddress = 0
    /\ store = TRUE
    /\ \E i \in Identifiers : attempt = [a \in Requests |-> [at |-> "idle", identifier |-> i]]
    /\ wrong = 0 /\ guesses = 0

\* A citizen signs in under either identifier, an officer under the address alone.
Names == IF citizen THEN Identifiers ELSE {CHOOSE i \in Identifiers : TRUE}

Becomes(a, at) == attempt' = [attempt EXCEPT ![a].at = at]

(***************************************************************************)
(* enforceLoginRateLimit(): the identifier's counter is spent by the       *)
(* attempt, the address's only read.  Both refuse when the store is down.  *)
(***************************************************************************)
SpendIdentifier(a, i) ==
    /\ Idle(a)
    /\ i \in Names
    /\ byIdentifier[i] < MaxCounted
    /\ IF store
       THEN /\ byIdentifier' = [byIdentifier EXCEPT ![i] = @ + 1]
            /\ IF byIdentifier[i] < IdentifierBudget
               THEN attempt' = [attempt EXCEPT ![a] = [at |-> "identified", identifier |-> i]]
               ELSE UNCHANGED attempt
       ELSE UNCHANGED <<byIdentifier, attempt>>
    /\ UNCHANGED <<citizen, status, failures, locked, byAddress, store, wrong, guesses>>

\* Mutation of AddressAfter: the attempt is counted, not the failure.
AddressAfterAttempt(count) == count + 1

\* consume(.., amount: 0)
AddressAfter(count) == count

ReadAddress(a) ==
    /\ attempt[a].at = "identified"
    /\ byAddress < MaxCounted
    /\ IF store
       THEN /\ byAddress' = AddressAfter(byAddress)
            /\ Becomes(a, IF AddressAfter(byAddress) <= AddressBudget THEN "admitted" ELSE "idle")
       ELSE Becomes(a, "idle") /\ UNCHANGED byAddress
    /\ UNCHANGED <<citizen, status, failures, locked, byIdentifier, store, wrong, guesses>>

(***************************************************************************)
(* The account is read and the passphrase compared.  A citizen who is      *)
(* locked out is refused without a failure on record.                      *)
(***************************************************************************)
Outcome(right) ==
    CASE ~right \/ status # "ACTIVE" -> "spend"
      [] right /\ status = "ACTIVE" /\ locked = "running" ->
            IF citizen THEN "idle" ELSE "spend"
      [] OTHER -> "clear"

Compare(a, right) ==
    /\ attempt[a].at = "admitted"
    /\ guesses < MaxCounted
    /\ Becomes(a, Outcome(right))
    /\ guesses' = IF right \/ locked = "running" THEN guesses ELSE guesses + 1
    /\ UNCHANGED <<citizen, status, failures, locked, byIdentifier, byAddress, store, wrong>>

(***************************************************************************)
(* recordFailure(): the row of login_attempt and the address's counter,    *)
(* which lets the failure pass uncounted when the store is down, then the  *)
(* account's count and, from the limit on, its lock.                       *)
(***************************************************************************)
SpendAddress(a) ==
    /\ attempt[a].at = "spend"
    /\ wrong < MaxCounted /\ byAddress < MaxCounted
    /\ wrong' = wrong + 1
    /\ byAddress' = IF store THEN byAddress + 1 ELSE byAddress
    /\ Becomes(a, "count")
    /\ UNCHANGED <<citizen, status, failures, locked, byIdentifier, store, guesses>>

\* Mutation of LockFrom: the limit itself is still allowed.
LockFromBeyond == MaxFailures + 1

LockFrom == MaxFailures

CountFailure(a) ==
    /\ attempt[a].at = "count"
    /\ failures < MaxCounted
    /\ failures' = failures + 1
    /\ locked' = IF failures + 1 >= LockFrom THEN "running" ELSE locked
    /\ Becomes(a, "idle")
    /\ UNCHANGED <<citizen, status, byIdentifier, byAddress, store, wrong, guesses>>

(***************************************************************************)
(* Success: the count and the lock are cleared, and for a government       *)
(* account the identifier's counter after them.                            *)
(***************************************************************************)
Clear(a) ==
    /\ attempt[a].at = "clear"
    /\ failures' = 0 /\ locked' = "never" /\ guesses' = 0
    /\ Becomes(a, IF citizen THEN "idle" ELSE "reset")
    /\ UNCHANGED <<citizen, status, byIdentifier, byAddress, store, wrong>>

ResetIdentifier(a) ==
    /\ attempt[a].at = "reset"
    /\ byIdentifier' = IF store THEN [byIdentifier EXCEPT ![attempt[a].identifier] = 0]
                       ELSE byIdentifier
    /\ Becomes(a, "idle")
    /\ UNCHANGED <<citizen, status, failures, locked, byAddress, store, wrong, guesses>>

(***************************************************************************)
(* The rest of the world.                                                  *)
(***************************************************************************)
\* External: accounts are suspended in the database.
SetStatus(s) ==
    /\ status # s
    /\ status' = s
    /\ UNCHANGED <<citizen, failures, locked, byIdentifier, byAddress, store, attempt,
                   wrong, guesses>>

LockEnds ==
    /\ locked = "running"
    /\ locked' = "over" /\ guesses' = 0
    /\ UNCHANGED <<citizen, status, failures, byIdentifier, byAddress, store, attempt, wrong>>

IdentifierExpires(i) ==
    /\ byIdentifier[i] > 0
    /\ byIdentifier' = [byIdentifier EXCEPT ![i] = 0]
    /\ UNCHANGED <<citizen, status, failures, locked, byAddress, store, attempt, wrong, guesses>>

AddressExpires ==
    /\ byAddress > 0
    /\ byAddress' = 0 /\ wrong' = 0
    /\ UNCHANGED <<citizen, status, failures, locked, byIdentifier, store, attempt, guesses>>

StoreChanges ==
    /\ store' = ~store
    /\ UNCHANGED <<citizen, status, failures, locked, byIdentifier, byAddress, attempt,
                   wrong, guesses>>

Next ==
    \/ \E a \in Requests :
          \/ \E i \in Identifiers : SpendIdentifier(a, i)
          \/ ReadAddress(a)
          \/ \E right \in BOOLEAN : Compare(a, right)
          \/ SpendAddress(a) \/ CountFailure(a) \/ Clear(a) \/ ResetIdentifier(a)
    \/ \E s \in {"ACTIVE", "SUSPENDED"} : SetStatus(s)
    \/ LockEnds
    \/ \E i \in Identifiers : IdentifierExpires(i)
    \/ AddressExpires
    \/ StoreChanges

Spec == Init /\ [][Next]_vars

(***************************************************************************)
(* Properties                                                              *)
(***************************************************************************)
\* A shared address is closed by failures only: however many colleagues sign in
\* correctly, its counter never exceeds the failures on record
\* (enforceLoginRateLimit() counted attempts once, and locked an office out).
OnlyFailuresCloseAddress == byAddress <= wrong

\* The lock comes in time: between two clearances of the count, or since a lock
\* ended, at most MaxFailures - 1 wrong passphrases are compared without a lock
\* running, and one more for each attempt under way, because the UPDATE of
\* recordFailure() counts on what the row holds and not on what was read.
GuessesBeforeLock == guesses <= MaxFailures - 1 + Cardinality(Requests)
=============================================================================
