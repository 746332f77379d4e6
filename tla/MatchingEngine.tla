--------------------------- MODULE MatchingEngine ---------------------------
(***************************************************************************)
(* The weights of matching.engine.ts: what the records of a missing and of *)
(* a found person say of one attribute earns a weight for the pairing, and *)
(* a pairing of enough weight is put before an officer.                    *)
(***************************************************************************)
EXTENDS Integers

Attributes == {"sex", "age", "location", "timing", "distinguishingFeatures"}
Pairings == [sex : {"same", "differs", "unknown"}, age : {"inside", "near", "far", "unknown"},
             location : {"ward", "lga", "elsewhere"}, timing : {"days", "weeks", "later"},
             features : {0} \cup 11..30]   \* round(30 * similarity) above 0.35, else none

Weights(p) ==
    [sex |-> CASE p.sex = "same" -> 15 [] p.sex = "differs" -> -25 [] OTHER -> 0,
     age |-> CASE p.age = "inside" -> 25 [] p.age = "near" -> 10
               [] p.age = "far" -> -20 [] OTHER -> 0,
     location |-> CASE p.location = "ward" -> 25 [] p.location = "lga" -> 15 [] OTHER -> 0,
     timing |-> CASE p.timing = "days" -> 20 [] p.timing = "weeks" -> 10 [] OTHER -> 0,
     distinguishingFeatures |-> p.features]

Clamp(n) == IF n < 0 THEN 0 ELSE IF n > 100 THEN 100 ELSE n
Score(p) ==
    LET w == Weights(p)
    IN  Clamp(w.sex + w.age + w.location + w.timing + w.distinguishingFeatures)
Several(p) == \E a, b \in Attributes : a # b /\ Weights(p)[a] > 0 /\ Weights(p)[b] > 0

CANDIDATE_THRESHOLD == 45

\* What the factors of a candidate that is worth an officer's attention may be.
Candidates == {Several(p) : p \in {q \in Pairings : Score(q) >= CANDIDATE_THRESHOLD}}
=============================================================================
