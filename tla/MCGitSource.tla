---------------------------- MODULE MCGitSource ----------------------------
(* GitSource for TLC.                                                      *)
EXTENDS GitSource, TLC

CONSTANTS p1, p2

Symmetry == Permutations(Proc)
====
