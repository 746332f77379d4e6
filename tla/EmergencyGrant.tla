----------------------------- MODULE EmergencyGrant --------------------------
(***************************************************************************)
(* What break glass promises about each grant, whoever asks for what: it   *)
(* is found good only while it is alive and not reviewed; who did not find *)
(* it so before its review cannot use it, and nobody uses it after its     *)
(* time; and every use of it in a view is audited, then counted, then put  *)
(* before a supervisor, and only then answered.                            *)
(***************************************************************************)
EXTENDS Naturals

CONSTANTS Grants, Calls

VARIABLES phase,     \* "NONE", "LIVE", "LAPSED", "REVIEWED"
          trusting,  \* the calls that found the grant good and have not decided yet
          audited, counted, alerted, answered   \* how many uses got so far

glassVars == <<phase, trusting, audited, counted, alerted, answered>>
uses == <<audited, counted, alerted, answered>>

Init ==
    /\ phase = [g \in Grants |-> "NONE"]
    /\ trusting = [g \in Grants |-> {}]
    /\ audited = [g \in Grants |-> 0] /\ counted = [g \in Grants |-> 0]
    /\ alerted = [g \in Grants |-> 0] /\ answered = [g \in Grants |-> 0]

Take(g) ==
    /\ phase[g] = "NONE" /\ trusting[g] = {}
    /\ phase' = [phase EXCEPT ![g] = "LIVE"]
    /\ UNCHANGED <<trusting, uses>>

Review(g) ==
    /\ phase[g] # "NONE"
    /\ phase' = [phase EXCEPT ![g] = "REVIEWED"]
    /\ UNCHANGED <<trusting, uses>>

\* The time of some grants is up: a verdict stays, and nobody trusts them any more.
Lapse(gone) ==
    /\ \A g \in gone : phase[g] # "NONE"
    /\ phase' = [g \in Grants |->
          IF g \in gone /\ phase[g] = "LIVE" THEN "LAPSED" ELSE phase[g]]
    /\ trusting' = [g \in Grants |-> IF g \in gone THEN {} ELSE trusting[g]]
    /\ UNCHANGED uses

Find(c, g) ==
    /\ phase[g] = "LIVE"
    /\ trusting' = [trusting EXCEPT ![g] = @ \cup {c}]
    /\ UNCHANGED <<phase, uses>>

\* A call is refused, fails, or needs no grant.
LetGo(c, g) ==
    /\ trusting' = [trusting EXCEPT ![g] = @ \ {c}]
    /\ UNCHANGED <<phase, uses>>

Use(c, g) ==
    /\ c \in trusting[g]
    /\ trusting' = [trusting EXCEPT ![g] = @ \ {c}]
    /\ audited' = [audited EXCEPT ![g] = @ + 1]
    /\ UNCHANGED <<phase, counted, alerted, answered>>

Count(g) ==
    /\ counted[g] < audited[g]
    /\ counted' = [counted EXCEPT ![g] = @ + 1]
    /\ UNCHANGED <<phase, trusting, audited, alerted, answered>>

Alert(g) ==
    /\ alerted[g] < counted[g]
    /\ alerted' = [alerted EXCEPT ![g] = @ + 1]
    /\ UNCHANGED <<phase, trusting, audited, counted, answered>>

Answer(g) ==
    /\ answered[g] < alerted[g]
    /\ answered' = [answered EXCEPT ![g] = @ + 1]
    /\ UNCHANGED <<phase, trusting, audited, counted, alerted>>

Next ==
    \/ \E g \in Grants :
          \/ Take(g) \/ Review(g) \/ Count(g) \/ Alert(g) \/ Answer(g)
          \/ \E c \in Calls : Find(c, g) \/ LetGo(c, g) \/ Use(c, g)
    \/ \E gone \in SUBSET Grants : Lapse(gone)

Spec == Init /\ [][Next]_glassVars
==============================================================================
