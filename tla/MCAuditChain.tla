---------------------------- MODULE MCAuditChain ----------------------------
(***************************************************************************)
(* Instances of AuditChain for TLC.  A hash is the pair of what it was     *)
(* computed from: equal hashes mean equal inputs.  The payload is not      *)
(* injective: two entries about one change join to the same text, as two   *)
(* rows do that differ in where a '|' stands.                              *)
(***************************************************************************)
EXTENDS AuditChain, TLC

CONSTANTS r1, r2, r3, x1, x2, a1, a2

MCAsideOf  == r1 :> a1 @@ r2 :> a2 @@ r3 :> a1
MCPayload(e) == IF e.what = "CHANGE" THEN <<e.req, e.what>> ELSE <<e.req, e.what, e.verdict>>
MCRowOf    == r1 :> x1 @@ r2 :> x1 @@ r3 :> x2
MCHash(prev, payload) == <<prev, payload>>
MCStarts   == 1..6
MCEnds     == {2, 6}
=============================================================================
