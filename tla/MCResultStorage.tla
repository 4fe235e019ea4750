-------------------------- MODULE MCResultStorage --------------------------
(* Instances of ResultStorage for TLC.                                     *)
EXTENDS ResultStorage, TLC

CONSTANTS c1, c2

TwoFiles == <<"a", "b">>

\* c1 caches both servers, c2 has no cache.
MixedCaches == (c1 :> Server) @@ (c2 :> {})
OneCache == c1 :> {"results"}

RsyncScp == [s \in Server |-> IF s = "results" THEN "rsync+ssh" ELSE "scp"]
AllRsync == [s \in Server |-> "rsync+ssh"]
AllFile == [s \in Server |-> "file"]
====
