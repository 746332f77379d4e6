----------------------------- MODULE MCAccounts -----------------------------
(***************************************************************************)
(* One person's account, for TLC: the sessions of the account, the portal  *)
(* in front of them, the passphrase, the second factor and the credential. *)
(* The five share nothing but the account, so each is checked in an area   *)
(* of its own: area says which of them a behaviour is about.               *)
(***************************************************************************)
EXTENDS Portal, TLC

CONSTANTS
    q1, q2, d1,
    Identifiers, MaxFailures, IdentifierBudget, AddressBudget, MaxCounted,   \* SignIn
    Sessions, MaxEnrolments, MaxStep, MaxTries,                             \* SecondFactor
    MaxCredentials, MaxTokens                                               \* Credentials

\* Limits and bounds are numbers; the requests in flight at a time can be counted.
ASSUME AccountsAssumption ==
    /\ IsFiniteSet(Requests)
    /\ Identifiers # {} /\ Sessions # {}
    /\ MaxFailures \in Nat \ {0}
    /\ {IdentifierBudget, AddressBudget, MaxCounted, MaxEnrolments, MaxStep, MaxTries,
        MaxCredentials, MaxTokens} \subseteq Nat

Symmetry == Permutations(Requests)

VARIABLES
    area,
    citizen, status, failures, locked, byIdentifier, byAddress, store, attempt, wrong, guesses,
    codes, recovery, enrolled, step, tries, raised, checking, accepted, overwrote,
    credentials, holder, tokens, viewing, reported, answers

passphraseVars == <<citizen, status, failures, locked, byIdentifier, byAddress, store, attempt,
                    wrong, guesses>>
codeVars == <<codes, recovery, enrolled, step, tries, raised, checking, accepted, overwrote>>
credentialVars == <<credentials, holder, tokens, viewing, reported, answers>>
sessionVars == <<vars, portalVars>>
allVars == <<area, sessionVars, passphraseVars, codeVars, credentialVars>>

P == INSTANCE SignIn
F == INSTANCE SecondFactor WITH credentials <- codes, request <- checking
C == INSTANCE Credentials WITH request <- viewing

MCInit ==
    /\ area \in {"sessions", "portal", "passphrase", "codes", "credential"}
    /\ PortalInit /\ P!Init /\ F!Init /\ C!Init
    \* An area starts once: what another part chooses at its start is fixed.
    /\ area # "passphrase" => citizen /\ \A a \in Requests : attempt[a].identifier = CHOOSE i \in Identifiers : TRUE

MCNext ==
    \/ /\ area = "sessions" /\ Next
       /\ UNCHANGED <<area, portalVars, passphraseVars, codeVars, credentialVars>>
    \/ /\ area = "portal" /\ PortalNext
       /\ UNCHANGED <<area, passphraseVars, codeVars, credentialVars>>
    \/ /\ area = "passphrase" /\ P!Next
       /\ UNCHANGED <<area, sessionVars, codeVars, credentialVars>>
    \/ /\ area = "codes" /\ F!Next
       /\ UNCHANGED <<area, sessionVars, passphraseVars, credentialVars>>
    \/ /\ area = "credential" /\ C!Next
       /\ UNCHANGED <<area, sessionVars, passphraseVars, codeVars>>

MCSpec == MCInit /\ [][MCNext]_allVars

\* What the parts keep, in states of the right type.  A browser is signed out for a
\* cause (portal-kit: api.ts, session.ts).
SignedOutIsExplained == PortalTypeOK /\ SignedOutHasACause

\* What bounds guessing bounds nothing else: an address is closed by what failed from
\* it, and the passphrases guessed wrong before the lock are bounded (login(),
\* recordFailure(), enforceLoginRateLimit()).
GuessesAreBounded == P!TypeOK /\ P!OnlyFailuresCloseAddress /\ P!GuessesBeforeLock

\* A code is used once and the enrolled have an authenticator (verifyMfa(), enrolment).
SecondFactorHolds == F!TypeOK /\ F!SecondFactorHolds

\* A credential reported lost is never confirmed to an officer (credential.service.ts).
LostIsNeverConfirmed == C!TypeOK /\ C!LostIsNeverConfirmed
=============================================================================
