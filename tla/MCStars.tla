------------------------------ MODULE MCStars ------------------------------
(* Instances of Stars for TLC.                                             *)
EXTENDS Stars, TLC

CONSTANTS ann, bob, ann1, ann2, bob1

\* Ann has the page open twice, Bob once.
MCWho == (ann1 :> ann) @@ (ann2 :> ann) @@ (bob1 :> bob)

Symmetry == Permutations({ann1, ann2})
=============================================================================
