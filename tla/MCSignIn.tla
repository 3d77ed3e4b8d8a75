------------------------------ MODULE MCSignIn -----------------------------
(* The instance of SignIn for TLC.                                         *)
EXTENDS SignIn, TLC

Symmetry == Permutations(Sessions) \cup Permutations(Tabs)
=============================================================================
