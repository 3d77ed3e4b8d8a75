-------------------------- MODULE MCRepoLifecycle --------------------------
(* Instances of RepoLifecycle for TLC.                                     *)
EXTENDS RepoLifecycle, TLC

\* Two spellings of one name and a third name.
MCNames == {"wiki", "Wiki", "docs"}
MCCanon == [n \in MCNames |-> IF n = "Wiki" THEN "wiki" ELSE n]

\* The same names when every request is spelt as stored.
MCExact == [n \in MCNames |-> n]

HandlerSymmetry == Permutations(Handlers)
IdSymmetry == Permutations(Ids)
Symmetry == HandlerSymmetry \cup IdSymmetry
=============================================================================
