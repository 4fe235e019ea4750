--------------------------- MODULE MCChrootBuild ---------------------------
(* Instances of ChrootBuild for TLC.                                       *)
EXTENDS ChrootBuild, TLC

CONSTANTS p1, p2, p3, r1, r2

\* One chroot that three processes compete for.
OneJobs == {<<r1>>}
OneDepends == [r \in {r1} |-> {}]

\* r2 depends on r1.
TwoJobs == {<<r1, r2>>}
TwoDepends == (r1 :> {}) @@ (r2 :> {r1})

ProcSymmetry == Permutations(Proc)
====
