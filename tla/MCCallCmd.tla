----------------------------- MODULE MCCallCmd -----------------------------
(* An instance of CallCmd for TLC: a descriptor with lines, and two more.  *)
EXTENDS CallCmd

LinesAndTwo == <<3, 0, 1>>
====
