-------------------------- MODULE ChrootProtocol ---------------------------
(***************************************************************************)
(* What the chroot lock promises, for one result's chroot at a time: the   *)
(* chroot belongs to one process at most, only its owner makes or removes  *)
(* the marker and the chroot directory, and the directory never exists     *)
(* without the marker.  An owner that is killed, or that cannot remove its *)
(* lock, leaves a stale lock behind, which only the user can take away.    *)
(* ChrootBuild implements this specification.                              *)
(***************************************************************************)
CONSTANTS Proc, Result,
    Nobody, Stale       \* two values that are not processes

VARIABLES
    owner,      \* owner[r]: the process the chroot of r belongs to
    marked,     \* results whose chroot is marked for removal
    present     \* results whose chroot directory exists

vars == <<owner, marked, present>>

Init ==
    /\ owner = [r \in Result |-> Nobody]
    /\ marked = {}
    /\ present = {}

SetOwner(r, o) ==
    /\ owner' = [owner EXCEPT ![r] = o]
    /\ UNCHANGED <<marked, present>>

Acquire(p, r) == owner[r] = Nobody /\ SetOwner(r, p)

Release(p, r) == owner[r] = p /\ SetOwner(r, Nobody)

\* The process dies: all its chroots lose their owner at once.
Die(p) ==
    /\ owner' = [r \in Result |-> IF owner[r] = p THEN Stale ELSE owner[r]]
    /\ UNCHANGED <<marked, present>>

\* A process gives up a chroot whose lock it cannot take away.
Abandon(p, r) == owner[r] = p /\ SetOwner(r, Stale)

Reclaim(r) == owner[r] = Stale /\ SetOwner(r, Nobody)

Mark(p, r) ==
    /\ owner[r] = p
    /\ marked' = marked \cup {r}
    /\ UNCHANGED <<owner, present>>

Make(p, r) ==
    /\ owner[r] = p
    /\ r \in marked
    /\ present' = present \cup {r}
    /\ UNCHANGED <<owner, marked>>

Remove(p, r) ==
    /\ owner[r] = p
    /\ present' = present \ {r}
    /\ UNCHANGED <<owner, marked>>

Unmark(p, r) ==
    /\ owner[r] = p
    /\ r \notin present
    /\ marked' = marked \ {r}
    /\ UNCHANGED <<owner, present>>

Next ==
    \/ \E p \in Proc, r \in Result :
          \/ Acquire(p, r) \/ Release(p, r) \/ Abandon(p, r)
          \/ Mark(p, r) \/ Make(p, r) \/ Remove(p, r) \/ Unmark(p, r)
    \/ \E p \in Proc : Die(p)
    \/ \E r \in Result : Reclaim(r)

Spec == Init /\ [][Next]_vars
====
