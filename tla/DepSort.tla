------------------------------ MODULE DepSort ------------------------------
(***************************************************************************)
(* The sorted dependency list of results (e2tool.dlist_recursive), the     *)
(* order in which e2-build works through a project.  A depth-first search  *)
(* with the recursion made explicit: path is the stack of visit() calls,   *)
(* rest[r] are the dependencies that the loop in visit(r) has yet to visit.*)
(* String lists are iterated in sorted order (local/sl.lua): names are     *)
(* numbers, ordered as in the alphabet.                                    *)
(***************************************************************************)
EXTENDS Integers, Sequences, FiniteSets

CONSTANTS
    Name,       \* names a user can ask for
    Result      \* the results of the project

ASSUME NameAssumption == Name \subseteq Int /\ Result \subseteq Name

VARIABLES
    depends,    \* depends[r]: the depends_list of r
    wanted,     \* the names asked for
    roots,      \* the ones the loop over them has yet to visit
    path,       \* the visit() calls in progress; seen[r] is r's position here
    rest,       \* rest[r]: the dependencies visit(r) has yet to visit
    col,        \* the results visited or being visited
    t,          \* the sorted list
    status,     \* "running", or how the call returned
    cycle       \* the cycle in the error message

vars == <<depends, wanted, roots, path, rest, col, t, status, cycle>>

Elems(s) == {s[i] : i \in DOMAIN s}

\* The next entry of a string list.
First(S, x) == x \in S /\ \A y \in S : x <= y

Init ==
    /\ depends \in [Result -> SUBSET Result]
    /\ wanted \in SUBSET Name
    /\ roots = wanted
    /\ path = <<>>
    /\ rest = [r \in Result |-> {}]
    /\ col = {}
    /\ t = <<>>
    /\ status = "running"
    /\ cycle = <<>>

\* Fault: the path is not cleared of what does not belong to the cycle.
on_path_whole(r) ==
    /\ status' = "cyclic"
    /\ cycle' = Append(path, r)
    /\ UNCHANGED <<path, col, t>>

\* visit() finds r in seen: the path from its first occurrence on, and r.
on_path(r) ==
    /\ status' = "cyclic"
    /\ \E i \in DOMAIN path :
          /\ path[i] = r
          /\ cycle' = Append(SubSeq(path, i, Len(path)), r)
    /\ UNCHANGED <<path, col, t>>

\* visit() goes into r: r is on the path, and it has its colour.
enter(r) ==
    /\ path' = Append(path, r)
    /\ col' = col \cup {r}
    /\ UNCHANGED <<t, status, cycle>>

\* Fault: a result that is being visited counts as done.
visit_ignores_path(r, left) ==
    \/ /\ r \in col
       /\ rest' = left
       /\ UNCHANGED <<path, col, t, status, cycle>>
    \/ /\ r \notin col
       /\ enter(r)
       /\ rest' = [left EXCEPT ![r] = depends[r]]

\* Fault: the loop does not go on after a result that is listed already.
visit_stays(r, left) ==
    \/ /\ r \in Elems(path)
       /\ on_path(r)
       /\ rest' = left
    \/ /\ r \notin Elems(path)
       /\ r \in col
       /\ UNCHANGED <<rest, path, col, t, status, cycle>>
    \/ /\ r \notin Elems(path)
       /\ r \notin col
       /\ enter(r)
       /\ rest' = [left EXCEPT ![r] = depends[r]]

\* A call of visit(r); left is what remains of the loops around it.
visit(r, left) ==
    \/ /\ r \in Elems(path)
       /\ on_path(r)
       /\ rest' = left
    \/ /\ r \notin Elems(path)
       /\ r \in col
       /\ rest' = left
       /\ UNCHANGED <<path, col, t, status, cycle>>
    \/ /\ r \notin Elems(path)
       /\ r \notin col
       /\ enter(r)
       /\ rest' = [left EXCEPT ![r] = depends[r]]

\* Fault: a name is not looked up in the results.
next_root_unchecked ==
    /\ status = "running"
    /\ path = <<>>
    /\ \E n \in roots :
          /\ First(roots, n)
          /\ roots' = roots \ {n}
          /\ \/ /\ n \in Result
                /\ visit(n, rest)
             \/ /\ n \notin Result
                /\ enter(n)
                /\ UNCHANGED rest
    /\ UNCHANGED <<depends, wanted>>

\* Fault: all the results of the project are listed.
next_root_all ==
    /\ status = "running"
    /\ path = <<>>
    /\ \E n \in roots \cup Result :
          /\ First((roots \cup Result) \ col, n)
          /\ roots' = roots \ {n}
          /\ n \in Result
          /\ visit(n, rest)
    /\ UNCHANGED <<depends, wanted>>

\* The loop over the names asked for.
next_root ==
    /\ status = "running"
    /\ path = <<>>
    /\ \E n \in roots :
          /\ First(roots, n)
          /\ roots' = roots \ {n}
          /\ \/ /\ n \in Result
                /\ visit(n, rest)
             \/ /\ n \notin Result
                /\ status' = "invalid"
                /\ UNCHANGED <<path, rest, col, t, cycle>>
    /\ UNCHANGED <<depends, wanted>>

\* The loop over the dependencies in the innermost visit().
next_dependency ==
    /\ status = "running"
    /\ path # <<>>
    /\ LET r == path[Len(path)] IN
          \E d \in rest[r] :
              /\ First(rest[r], d)
              /\ visit(d, [rest EXCEPT ![r] = @ \ {d}])
    /\ UNCHANGED <<depends, wanted, roots>>

\* The innermost visit() returns.
leave ==
    /\ status = "running"
    /\ path # <<>>
    /\ rest[path[Len(path)]] = {}
    /\ t' = Append(t, path[Len(path)])
    /\ path' = SubSeq(path, 1, Len(path) - 1)
    /\ UNCHANGED <<depends, wanted, roots, rest, col, status, cycle>>

\* Fault: the search ends with the first name.
return_early ==
    /\ status = "running"
    /\ path = <<>>
    /\ t # <<>>
    /\ status' = "sorted"
    /\ UNCHANGED <<depends, wanted, roots, path, rest, col, t, cycle>>

return ==
    /\ status = "running"
    /\ path = <<>>
    /\ roots = {}
    /\ status' = "sorted"
    /\ UNCHANGED <<depends, wanted, roots, path, rest, col, t, cycle>>

Next == next_root \/ next_dependency \/ leave \/ return

Fairness == WF_vars(Next)

Spec == Init /\ [][Next]_vars /\ Fairness

-----------------------------------------------------------------------------
TypeOK ==
    /\ depends \in [Result -> SUBSET Result]
    /\ wanted \subseteq Name
    /\ roots \subseteq Name
    /\ path \in Seq(Result)
    /\ rest \in [Result -> SUBSET Result]
    /\ col \subseteq Result
    /\ t \in Seq(Result)
    /\ status \in {"running", "sorted", "cyclic", "invalid"}
    /\ cycle \in Seq(Result)

\* The list is in dependency order at any time: all dependencies of a result
\* come before it, which is what build_set:build() relies on.
Sorted ==
    \A i \in DOMAIN t : depends[t[i]] \subseteq {t[k] : k \in 1 .. i - 1}

\* A list that is returned has everything that was asked for, and (since it
\* is sorted) all the indirect dependencies; no result is built twice.
Complete ==
    /\ status = "sorted" => wanted \subseteq Elems(t)
    /\ \A i, j \in DOMAIN t : t[i] = t[j] => i = j

\* The results that can be reached from a set of results, as a reference.
Reachable(S) ==
    LET step[n \in 0 .. Cardinality(Result)] ==
            IF n = 0 THEN S
            ELSE step[n - 1] \cup UNION {depends[r] : r \in step[n - 1]}
    IN  step[Cardinality(Result)]

\* Nothing is built that was not asked for, directly or indirectly.
OnlyWanted == Elems(t) \subseteq Reachable(wanted \cap Result)

\* The cycle in the error message is a cycle of the project: every result on
\* it depends on the next one, and the last one is the first one.
CycleIsReal ==
    status = "cyclic" =>
        /\ Len(cycle) > 1
        /\ cycle[1] = cycle[Len(cycle)]
        /\ \A i \in 1 .. Len(cycle) - 1 : cycle[i + 1] \in depends[cycle[i]]

\* The search comes to an end on every project, cyclic ones included.
Terminates == <>(status # "running")
====
