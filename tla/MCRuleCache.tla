---------------------------- MODULE MCRuleCache ----------------------------
(***************************************************************************)
(* Instances of RuleCache for TLC.                                         *)
(***************************************************************************)
EXTENDS RuleCache, TLC

CONSTANTS a, b, t1, t2

OneEach == (t1 :> a) @@ (t2 :> b)
TwoInOne == (t1 :> a) @@ (t2 :> a)

TokensAlike == Permutations(Token)
=============================================================================
