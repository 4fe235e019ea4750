-------------------------- MODULE MCChecksumCache --------------------------
(* An instance of ChecksumCache for TLC.                                   *)
EXTENDS ChecksumCache, TLC

CONSTANTS p1, p2

ProcSymmetry == Permutations(Proc)
====
