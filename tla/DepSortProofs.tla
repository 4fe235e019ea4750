--------------------------- MODULE DepSortProofs ---------------------------
(***************************************************************************)
(* Proofs about DepSort, for every project: the list is in dependency      *)
(* order, it is complete and without repetition when it is returned, and a *)
(* reported cycle is one.                                                  *)
(***************************************************************************)
EXTENDS DepSort, TLAPS, SequenceTheorems

\* The search has listed, or is in, exactly the results it has coloured.
ColInv ==
    /\ col = Elems(t) \cup Elems(path)
    /\ Elems(t) \cap Elems(path) = {}
    /\ \A i, j \in DOMAIN t : t[i] = t[j] => i = j
    /\ \A i, j \in DOMAIN path : path[i] = path[j] => i = j

\* Each result on the path depends on the next one, and what its loop has
\* been through is listed, or is that next one.
PathInv ==
    /\ \A r \in Result : rest[r] \subseteq depends[r]
    /\ \A i \in DOMAIN path : i < Len(path) => path[i + 1] \in depends[path[i]]
    /\ status \in {"running", "sorted"} =>
          \A i \in DOMAIN path : \A d \in depends[path[i]] :
              \/ d \in rest[path[i]]
              \/ d \in Elems(t)
              \/ i < Len(path) /\ d = path[i + 1]

\* The same for the loop over the names.
RootInv ==
    /\ status \in {"running", "sorted"} =>
          \A n \in wanted :
              \/ n \in roots
              \/ n \in Elems(t)
              \/ path # <<>> /\ n = path[1]
    /\ status = "sorted" => roots = {} /\ path = <<>>

IInv == TypeOK /\ ColInv /\ PathInv /\ RootInv /\ Sorted /\ CycleIsReal

-----------------------------------------------------------------------------
(* Facts about sequences.                                                  *)

\* Indices and elements of a sequence of results.
LEMMA SeqFacts ==
    ASSUME NEW s \in Seq(Result)
    PROVE  /\ Len(s) \in Nat /\ DOMAIN s = 1 .. Len(s)
           /\ \A i \in DOMAIN s : s[i] \in Result
           /\ Elems(s) \subseteq Result
           /\ s = <<>> <=> Len(s) = 0
  BY LenProperties, ElementOfSeq, EmptySeq DEF Elems

\* What an insertion at the end of a sequence does to its elements.
LEMMA AppendFacts ==
    ASSUME NEW s \in Seq(Result), NEW x \in Result
    PROVE  /\ Append(s, x) \in Seq(Result)
           /\ Len(Append(s, x)) = Len(s) + 1
           /\ DOMAIN Append(s, x) = 1 .. Len(s) + 1
           /\ \A i \in DOMAIN s : Append(s, x)[i] = s[i]
           /\ Append(s, x)[Len(s) + 1] = x
           /\ Elems(Append(s, x)) = Elems(s) \cup {x}
           /\ Append(s, x) # <<>>
  <1> DEFINE a == Append(s, x)
  <1>1. /\ a \in Seq(Result) /\ Len(a) = Len(s) + 1 /\ a # <<>>
        /\ \A i \in 1 .. Len(s) : a[i] = s[i]
        /\ a[Len(s) + 1] = x
    BY AppendProperties
  <1>2. Len(s) \in Nat /\ DOMAIN s = 1 .. Len(s) /\ DOMAIN a = 1 .. Len(s) + 1
    BY <1>1, SeqFacts
  <1> HIDE DEF a
  <1>3. Elems(a) = Elems(s) \cup {x}
    <2>1. ASSUME NEW y \in Elems(a) PROVE y \in Elems(s) \cup {x}
      BY <1>1, <1>2, <2>1 DEF Elems
    <2>2. ASSUME NEW y \in Elems(s) PROVE y \in Elems(a)
      <3>1. PICK i \in DOMAIN s : y = s[i]
        BY DEF Elems
      <3>2. i \in DOMAIN a /\ a[i] = y
        BY <1>1, <1>2, <3>1
      <3>3. QED
        BY <3>2 DEF Elems
    <2>3. x \in Elems(a)
      <3>1. Len(s) + 1 \in DOMAIN a
        BY <1>2
      <3>2. QED
        BY <1>1, <3>1 DEF Elems
    <2>4. QED
      BY <2>1, <2>2, <2>3
  <1>4. QED
    BY <1>1, <1>2, <1>3 DEF a

\* The path without its last entry.
LEMMA FrontFacts ==
    ASSUME NEW s \in Seq(Result), s # <<>>
    PROVE  /\ SubSeq(s, 1, Len(s) - 1) \in Seq(Result)
           /\ Len(SubSeq(s, 1, Len(s) - 1)) = Len(s) - 1
           /\ DOMAIN SubSeq(s, 1, Len(s) - 1) = 1 .. Len(s) - 1
           /\ \A i \in 1 .. Len(s) - 1 : SubSeq(s, 1, Len(s) - 1)[i] = s[i]
           /\ Elems(s) = Elems(SubSeq(s, 1, Len(s) - 1)) \cup {s[Len(s)]}
           /\ Len(s) \in DOMAIN s
  <1> DEFINE f == SubSeq(s, 1, Len(s) - 1)
  <1>1. /\ Len(s) \in Nat /\ Len(s) # 0 /\ DOMAIN s = 1 .. Len(s)
        /\ \A i \in DOMAIN s : s[i] \in Result
    BY SeqFacts
  <1>2. /\ f \in Seq(Result) /\ Len(f) = Len(s) - 1
        /\ \A i \in 1 .. Len(s) - 1 : f[i] = s[i]
    BY <1>1, SubSeqProperties
  <1>3. DOMAIN f = 1 .. Len(s) - 1
    BY <1>2, SeqFacts
  <1> HIDE DEF f
  <1>4. Elems(s) = Elems(f) \cup {s[Len(s)]}
    BY <1>1, <1>2, <1>3 DEF Elems
  <1>5. QED
    BY <1>1, <1>2, <1>3, <1>4 DEF f

\* The path from position i on, and r.
LEMMA SuffixFacts ==
    ASSUME NEW s \in Seq(Result), NEW i \in DOMAIN s, NEW r \in Result
    PROVE  LET c == Append(SubSeq(s, i, Len(s)), r) IN
           /\ c \in Seq(Result)
           /\ Len(c) = Len(s) - i + 2
           /\ \A k \in 1 .. Len(s) - i + 1 : c[k] = s[i + k - 1]
           /\ c[Len(c)] = r
  <1> DEFINE f == SubSeq(s, i, Len(s))
             c == Append(f, r)
  <1>1. Len(s) \in Nat /\ i \in 1 .. Len(s) /\ \A k \in 1 .. Len(s) : s[k] \in Result
    BY SeqFacts
  <1>2. /\ f \in Seq(Result) /\ Len(f) = Len(s) - i + 1
        /\ \A k \in 1 .. Len(s) - i + 1 : f[k] = s[i + k - 1]
    BY <1>1, SubSeqProperties
  <1>3. DOMAIN f = 1 .. Len(s) - i + 1
    BY <1>2, SeqFacts
  <1> HIDE DEF f
  <1>4. /\ c \in Seq(Result) /\ Len(c) = Len(f) + 1
        /\ \A k \in DOMAIN f : c[k] = f[k]
        /\ c[Len(f) + 1] = r
    BY <1>2, AppendFacts
  <1> HIDE DEF c
  <1>5. /\ c \in Seq(Result) /\ Len(c) = Len(s) - i + 2
        /\ \A k \in 1 .. Len(s) - i + 1 : c[k] = s[i + k - 1]
        /\ c[Len(c)] = r
    BY <1>1, <1>2, <1>3, <1>4
  <1>6. QED
    BY <1>5 DEF c, f

-----------------------------------------------------------------------------
(* The three outcomes of visit().                                          *)

\* Before the first call nothing is coloured, listed or on the path.
LEMMA InitIInv == Init => IInv
  <1> SUFFICES ASSUME Init PROVE IInv
    OBVIOUS
  <1>1. <<>> \in Seq(Result) /\ Elems(<<>>) = {} /\ DOMAIN <<>> = {}
    BY EmptySeq DEF Elems
  <1>2. TypeOK
    BY <1>1, NameAssumption DEF Init, TypeOK
  <1>3. ColInv /\ PathInv /\ RootInv /\ Sorted /\ CycleIsReal
    BY <1>1 DEF Init, ColInv, PathInv, RootInv, Sorted, CycleIsReal
  <1>4. QED
    BY <1>2, <1>3 DEF IInv

\* What the two loops that call visit(d) have in common: left is rest without
\* d, and so is roots.
Calls(d, left) ==
    /\ status = "running"
    /\ left \in [Result -> SUBSET Result]
    /\ \A r \in Result : left[r] \subseteq rest[r]
    /\ \A i \in DOMAIN path : \A x \in rest[path[i]] :
          x \in left[path[i]] \/ (i = Len(path) /\ x = d)
    /\ path # <<>> => d \in depends[path[Len(path)]]
    /\ roots' \subseteq Name
    /\ \A n \in roots : n \in roots' \/ (path = <<>> /\ n = d)
    /\ UNCHANGED <<depends, wanted>>

\* d is on the path: the error names a cycle.
LEMMA CyclicCall ==
    ASSUME IInv, NEW d \in Result, NEW left, Calls(d, left),
           d \in Elems(path), on_path(d), rest' = left
    PROVE  IInv'
  <1>1. PICK i \in DOMAIN path : path[i] = d /\ cycle' = Append(SubSeq(path, i, Len(path)), d)
    BY DEF on_path
  <1>2. /\ path \in Seq(Result) /\ Len(path) \in Nat /\ DOMAIN path = 1 .. Len(path)
        /\ i \in 1 .. Len(path)
    BY <1>1, SeqFacts DEF IInv, TypeOK
  <1>3. /\ cycle' \in Seq(Result)
        /\ Len(cycle') = Len(path) - i + 2
        /\ \A k \in 1 .. Len(path) - i + 1 : cycle'[k] = path[i + k - 1]
        /\ cycle'[Len(cycle')] = d
    BY <1>1, <1>2, SuffixFacts
  <1>4. path # <<>> /\ d \in depends[path[Len(path)]]
    BY <1>1, <1>2, SeqFacts DEF Calls
  <1>5. status' = "cyclic" /\ UNCHANGED <<depends, wanted, path, col, t>>
    BY DEF on_path, Calls
  <1>6. TypeOK'
    BY <1>3, <1>5 DEF IInv, TypeOK, Calls
  <1>7. ColInv' /\ Sorted' /\ RootInv'
    BY <1>5 DEF IInv, ColInv, Sorted, RootInv
  <1>8. PathInv'
    BY <1>5 DEF IInv, PathInv, Calls
  <1>9. CycleIsReal'
    <2>1. Len(cycle') > 1 /\ cycle'[1] = d
      BY <1>1, <1>2, <1>3
    <2>2. ASSUME NEW k \in 1 .. Len(cycle') - 1
          PROVE  cycle'[k + 1] \in depends[cycle'[k]]
      <3>1. CASE k < Len(path) - i + 1
        <4>1. cycle'[k] = path[i + k - 1] /\ cycle'[k + 1] = path[i + k]
          <5>1. /\ k \in 1 .. Len(path) - i + 1 /\ k + 1 \in 1 .. Len(path) - i + 1
                /\ i + (k + 1) - 1 = i + k
            BY <1>2, <1>3, <2>2, <3>1
          <5>2. cycle'[k + 1] = path[i + (k + 1) - 1]
            BY <1>3, <5>1
          <5>3. QED
            BY <1>3, <5>1, <5>2
        <4>2. i + k - 1 \in DOMAIN path /\ i + k - 1 < Len(path) /\ (i + k - 1) + 1 = i + k
          BY <1>2, <1>3, <2>2, <3>1
        <4>3. path[(i + k - 1) + 1] \in depends[path[i + k - 1]]
          BY <4>2 DEF IInv, PathInv
        <4>4. QED
          BY <4>1, <4>2, <4>3
      <3>2. CASE k = Len(path) - i + 1
        <4>1. k + 1 = Len(cycle') /\ i + k - 1 = Len(path) /\ k \in 1 .. Len(path) - i + 1
          BY <1>2, <1>3, <3>2
        <4>2. QED
          BY <1>3, <1>4, <4>1
      <3>3. QED
        BY <1>2, <1>3, <2>2, <3>1, <3>2
    <2>3. QED
      BY <1>3, <1>5, <2>1, <2>2 DEF CycleIsReal
  <1>10. QED
    BY <1>6, <1>7, <1>8, <1>9 DEF IInv

\* d has been listed before: nothing but the loop variables changes.
LEMMA ListedCall ==
    ASSUME IInv, NEW d \in Result, NEW left, Calls(d, left), d \notin Elems(path),
           d \in col, rest' = left, UNCHANGED <<path, col, t, status, cycle>>
    PROVE  IInv'
  <1>1. d \in Elems(t) /\ UNCHANGED <<depends, wanted>>
    BY DEF IInv, ColInv, Calls
  <1>2. TypeOK'
    BY DEF IInv, TypeOK, Calls
  <1>3. ColInv' /\ Sorted' /\ CycleIsReal'
    BY <1>1 DEF IInv, ColInv, Sorted, CycleIsReal
  <1>4. PathInv'
    BY <1>1 DEF IInv, PathInv, Calls, TypeOK
  <1>5. RootInv'
    BY <1>1 DEF IInv, RootInv, Calls
  <1>6. QED
    BY <1>2, <1>3, <1>4, <1>5 DEF IInv

\* d is new: the path grows by d, whose dependencies are all to be visited.
LEMMA NewCall ==
    ASSUME IInv, NEW d \in Result, NEW left, Calls(d, left), d \notin Elems(path),
           d \notin col, enter(d), rest' = [left EXCEPT ![d] = depends[d]]
    PROVE  IInv'
  <1>1. /\ path' = Append(path, d) /\ col' = col \cup {d}
        /\ UNCHANGED <<depends, wanted, t, status, cycle>>
        /\ status = "running"
    BY DEF enter, Calls
  <1>2. /\ path \in Seq(Result) /\ Len(path) \in Nat /\ DOMAIN path = 1 .. Len(path)
        /\ \A i \in DOMAIN path : path[i] \in Elems(path)
        /\ path = <<>> <=> Len(path) = 0
    BY SeqFacts DEF IInv, TypeOK, Elems
  <1>3. /\ path' \in Seq(Result) /\ Len(path') = Len(path) + 1
        /\ DOMAIN path' = 1 .. Len(path) + 1
        /\ \A i \in DOMAIN path : path'[i] = path[i]
        /\ path'[Len(path) + 1] = d
        /\ Elems(path') = Elems(path) \cup {d} /\ path' # <<>>
    BY <1>1, <1>2, AppendFacts
  <1>4. /\ rest' \in [Result -> SUBSET Result] /\ rest'[d] = depends[d]
        /\ \A r \in Result : r # d => rest'[r] = left[r]
        /\ \A r \in Result : rest'[r] \subseteq depends[r]
    BY DEF IInv, TypeOK, Calls, PathInv
  <1>5. TypeOK'
    BY <1>1, <1>3, <1>4 DEF IInv, TypeOK, Calls
  <1>6. ColInv'
    <2>1. \A i, j \in DOMAIN path' : path'[i] = path'[j] => i = j
      BY <1>2, <1>3 DEF IInv, ColInv
    <2>2. QED
      BY <1>1, <1>3, <2>1 DEF IInv, ColInv
  <1>7. Sorted' /\ CycleIsReal'
    BY <1>1 DEF IInv, Sorted, CycleIsReal
  <1>8. PathInv'
    <2>1. ASSUME NEW i \in DOMAIN path', i < Len(path')
          PROVE  path'[i + 1] \in depends[path'[i]]
      <3>1. i \in DOMAIN path /\ path'[i] = path[i]
        BY <1>2, <1>3, <2>1
      <3>2. CASE i < Len(path)
        BY <1>2, <1>3, <3>1, <3>2 DEF IInv, PathInv
      <3>3. CASE i = Len(path)
        BY <1>2, <1>3, <3>1, <3>3 DEF Calls
      <3>4. QED
        BY <1>2, <3>1, <3>2, <3>3
    <2>2. ASSUME NEW i \in DOMAIN path', NEW x \in depends[path'[i]]
          PROVE  \/ x \in rest'[path'[i]] \/ x \in Elems(t)
                 \/ i < Len(path') /\ x = path'[i + 1]
      <3>1. CASE i = Len(path) + 1
        BY <1>3, <1>4, <2>2, <3>1
      <3>2. CASE i \in DOMAIN path
        <4>1. path'[i] = path[i] /\ path[i] \in Result /\ path[i] # d
          BY <1>2, <1>3, <3>2, SeqFacts
        <4>2. rest'[path[i]] = left[path[i]]
          BY <1>4, <4>1
        <4>3. \/ x \in rest[path[i]] \/ x \in Elems(t)
              \/ i < Len(path) /\ x = path[i + 1]
          BY <1>1, <2>2, <3>2, <4>1 DEF IInv, PathInv
        <4>4. CASE x \in rest[path[i]]
          <5>1. x \in left[path[i]] \/ (i = Len(path) /\ x = d)
            BY <3>2, <4>4 DEF Calls
          <5>2. QED
            BY <1>2, <1>3, <3>2, <4>1, <4>2, <5>1
        <4>5. CASE i < Len(path) /\ x = path[i + 1]
          <5>1. i + 1 \in DOMAIN path
            BY <1>2, <3>2, <4>5
          <5>2. QED
            BY <1>2, <1>3, <3>2, <4>5, <5>1
        <4>6. QED
          BY <4>3, <4>4, <4>5
      <3>3. QED
        BY <1>2, <1>3, <2>2, <3>1, <3>2
    <2>3. QED
      BY <1>1, <1>4, <2>1, <2>2 DEF PathInv
  <1>9. RootInv'
    <2>1. ASSUME NEW n \in wanted
          PROVE  n \in roots' \/ n \in Elems(t) \/ n = path'[1]
      <3>1. n \in roots \/ n \in Elems(t) \/ (path # <<>> /\ n = path[1])
        BY <1>1, <2>1 DEF IInv, RootInv
      <3>2. n \in roots => n \in roots' \/ (path = <<>> /\ n = d)
        BY DEF Calls
      <3>3. path = <<>> => path'[1] = d
        BY <1>2, <1>3
      <3>4. path # <<>> => path'[1] = path[1]
        BY <1>2, <1>3
      <3>5. QED
        BY <3>1, <3>2, <3>3, <3>4
    <2>2. QED
      BY <1>1, <1>3, <2>1 DEF RootInv
  <1>10. QED
    BY <1>5, <1>6, <1>7, <1>8, <1>9 DEF IInv

\* A call of visit() in any of its three cases.
LEMMA AnyCall ==
    ASSUME IInv, NEW d \in Result, NEW left, Calls(d, left), visit(d, left)
    PROVE  IInv'
  BY CyclicCall, ListedCall, NewCall DEF visit

-----------------------------------------------------------------------------
(* The steps.                                                              *)

\* dlist_recursive() calls visit() for a name it was asked for.
LEMMA RootIInv == IInv /\ next_root => IInv'
  <1> SUFFICES ASSUME IInv, next_root PROVE IInv'
    OBVIOUS
  <1>1. PICK n \in roots :
            /\ roots' = roots \ {n}
            /\ \/ n \in Result /\ visit(n, rest)
               \/ /\ n \notin Result /\ status' = "invalid"
                  /\ UNCHANGED <<path, rest, col, t, cycle>>
    BY DEF next_root
  <1>2. path = <<>> /\ status = "running" /\ UNCHANGED <<depends, wanted>>
    BY DEF next_root
  <1>3. CASE n \in Result /\ visit(n, rest)
    <2>1. DOMAIN path = {}
      BY <1>2
    <2>2. Calls(n, rest)
      BY <1>1, <1>2, <2>1 DEF Calls, IInv, TypeOK
    <2>3. QED
      BY <1>3, <2>2, AnyCall
  <1>4. CASE status' = "invalid" /\ UNCHANGED <<path, rest, col, t, cycle>>
    <2>1. TypeOK'
      BY <1>1, <1>2, <1>4 DEF IInv, TypeOK
    <2>2. ColInv' /\ PathInv' /\ RootInv' /\ Sorted' /\ CycleIsReal'
      BY <1>1, <1>2, <1>4 DEF IInv, ColInv, PathInv, RootInv, Sorted, CycleIsReal
    <2>3. QED
      BY <2>1, <2>2 DEF IInv
  <1>5. QED
    BY <1>1, <1>3, <1>4

\* visit() calls itself for a dependency.
LEMMA DependencyIInv == IInv /\ next_dependency => IInv'
  <1> SUFFICES ASSUME IInv, next_dependency PROVE IInv'
    OBVIOUS
  <1>1. /\ path # <<>> /\ status = "running" /\ UNCHANGED <<depends, wanted, roots>>
        /\ path \in Seq(Result) /\ rest \in [Result -> SUBSET Result] /\ roots \subseteq Name
    BY DEF next_dependency, IInv, TypeOK
  <1>2. PICK r : r = path[Len(path)]
    OBVIOUS
  <1>3. PICK d \in rest[r] : visit(d, [rest EXCEPT ![r] = @ \ {d}])
    BY <1>2 DEF next_dependency
  <1>4. /\ Len(path) \in DOMAIN path /\ r \in Result
        /\ \A i \in DOMAIN path : path[i] \in Result /\ (path[i] = r => i = Len(path))
    BY <1>1, <1>2, SeqFacts DEF IInv, ColInv
  <1>5. d \in Result /\ d \in depends[r]
    BY <1>1, <1>3, <1>4 DEF IInv, PathInv
  <1> DEFINE left == [rest EXCEPT ![r] = @ \ {d}]
  <1>6. /\ left \in [Result -> SUBSET Result]
        /\ left[r] = rest[r] \ {d}
        /\ \A x \in Result : x # r => left[x] = rest[x]
    BY <1>1, <1>4
  <1>7. visit(d, left)
    BY <1>3
  <1> HIDE DEF left
  <1>8. Calls(d, left)
    BY <1>1, <1>2, <1>4, <1>5, <1>6 DEF Calls
  <1>9. QED
    BY <1>5, <1>7, <1>8, AnyCall

\* visit() puts a result on the list when its dependencies are there.
LEMMA LeaveIInv == IInv /\ leave => IInv'
  <1> SUFFICES ASSUME IInv, leave PROVE IInv'
    OBVIOUS
  <1>1. PICK r : r = path[Len(path)]
    OBVIOUS
  <1>2. /\ path # <<>> /\ status = "running" /\ rest[r] = {}
        /\ path \in Seq(Result) /\ t \in Seq(Result)
        /\ t' = Append(t, r) /\ path' = SubSeq(path, 1, Len(path) - 1)
        /\ UNCHANGED <<depends, wanted, roots, rest, col, status, cycle>>
    BY <1>1 DEF leave, IInv, TypeOK
  <1>3. /\ Len(path) \in Nat /\ Len(path) > 0 /\ DOMAIN path = 1 .. Len(path)
        /\ \A i \in DOMAIN path : path[i] \in Result /\ path[i] \in Elems(path)
        /\ r \in Result /\ Len(path) \in DOMAIN path /\ r \in Elems(path)
    BY <1>1, <1>2, SeqFacts DEF Elems
  <1>4. /\ path' \in Seq(Result) /\ Len(path') = Len(path) - 1
        /\ DOMAIN path' = 1 .. Len(path) - 1
        /\ \A i \in DOMAIN path' : path'[i] = path[i]
    BY <1>2, <1>3, FrontFacts
  <1>5. /\ t' \in Seq(Result) /\ Len(t') = Len(t) + 1 /\ Len(t) \in Nat
        /\ DOMAIN t = 1 .. Len(t) /\ DOMAIN t' = 1 .. Len(t) + 1
        /\ \A i \in DOMAIN t : t'[i] = t[i] /\ t[i] \in Elems(t)
        /\ t'[Len(t) + 1] = r
        /\ Elems(t') = Elems(t) \cup {r}
    <2>1. \A i \in DOMAIN t : t[i] \in Elems(t)
      BY DEF Elems
    <2>2. QED
      BY <1>2, <1>3, <2>1, SeqFacts, AppendFacts
  <1>6. Elems(path') = Elems(path) \ {r}
    <2>1. ASSUME NEW i \in DOMAIN path' PROVE path'[i] \in Elems(path) /\ path'[i] # r
      BY <1>1, <1>3, <1>4, <2>1 DEF IInv, ColInv
    <2>2. ASSUME NEW i \in DOMAIN path, path[i] # r PROVE i \in DOMAIN path' /\ path'[i] = path[i]
      BY <1>1, <1>3, <1>4, <2>2
    <2>3. QED
      BY <2>1, <2>2 DEF Elems
  <1>7. TypeOK'
    BY <1>2, <1>4, <1>5 DEF IInv, TypeOK
  <1>8. r \notin Elems(t)
    BY <1>3 DEF IInv, ColInv
  <1>9. ColInv'
    <2>1. col' = Elems(t)' \cup Elems(path)' /\ Elems(t)' \cap Elems(path)' = {}
      BY <1>2, <1>3, <1>5, <1>6 DEF IInv, ColInv
    <2>2. \A i, j \in DOMAIN t' : t'[i] = t'[j] => i = j
      BY <1>5, <1>8 DEF IInv, ColInv
    <2>3. \A i, j \in DOMAIN path' : path'[i] = path'[j] => i = j
      BY <1>3, <1>4 DEF IInv, ColInv
    <2>4. QED
      BY <2>1, <2>2, <2>3 DEF ColInv
  <1>10. depends[r] \subseteq Elems(t)
    BY <1>1, <1>2, <1>3 DEF IInv, PathInv
  <1>11. Sorted'
    <2>1. ASSUME NEW i \in DOMAIN t', NEW x \in depends[t'[i]]
          PROVE  \E k \in 1 .. i - 1 : x = t'[k]
      <3>1. CASE i \in DOMAIN t
        <4>1. \E k \in 1 .. i - 1 : x = t[k]
          BY <1>5, <2>1, <3>1 DEF IInv, Sorted
        <4>2. QED
          BY <1>5, <3>1, <4>1
      <3>2. CASE i = Len(t) + 1
        <4>1. x \in Elems(t)
          BY <1>5, <1>10, <2>1, <3>2
        <4>2. PICK k \in DOMAIN t : x = t[k]
          BY <4>1 DEF Elems
        <4>3. QED
          BY <1>5, <3>2, <4>2
      <3>3. QED
        BY <1>5, <2>1, <3>1, <3>2
    <2>2. QED
      BY <1>2, <2>1 DEF Sorted
  <1>12. PathInv'
    <2>1. \A i \in DOMAIN path' : i < Len(path') => path'[i + 1] \in depends[path'[i]]
      <3>1. ASSUME NEW i \in DOMAIN path', i < Len(path')
            PROVE  path'[i + 1] \in depends[path'[i]]
        <4>1. i \in DOMAIN path /\ i < Len(path) /\ i + 1 \in DOMAIN path'
          BY <1>3, <1>4, <3>1
        <4>2. QED
          BY <1>4, <4>1 DEF IInv, PathInv
      <3>2. QED
        BY <3>1
    <2>2. ASSUME NEW i \in DOMAIN path', NEW x \in depends[path'[i]]
          PROVE  \/ x \in rest[path'[i]] \/ x \in Elems(t')
                 \/ i < Len(path') /\ x = path'[i + 1]
      <3>1. i \in DOMAIN path /\ path'[i] = path[i] /\ i < Len(path)
        BY <1>3, <1>4, <2>2
      <3>2. x \in rest[path[i]] \/ x \in Elems(t) \/ x = path[i + 1]
        BY <1>2, <2>2, <3>1 DEF IInv, PathInv
      <3>3. CASE i = Len(path) - 1
        BY <1>1, <1>3, <1>5, <3>1, <3>2, <3>3
      <3>4. CASE i < Len(path) - 1
        <4>1. i + 1 \in DOMAIN path' /\ i < Len(path')
          BY <1>3, <1>4, <3>1, <3>4
        <4>2. QED
          BY <1>4, <1>5, <3>1, <3>2, <4>1
      <3>5. QED
        BY <1>3, <1>4, <2>2, <3>3, <3>4
    <2>3. QED
      BY <1>2, <2>1, <2>2 DEF IInv, PathInv
  <1>13. RootInv'
    <2>1. ASSUME NEW n \in wanted
          PROVE  n \in roots \/ n \in Elems(t') \/ (path' # <<>> /\ n = path'[1])
      <3>1. n \in roots \/ n \in Elems(t) \/ n = path[1]
        BY <1>2, <2>1 DEF IInv, RootInv
      <3>2. CASE Len(path) = 1
        BY <1>1, <1>5, <3>1, <3>2
      <3>3. CASE Len(path) # 1
        <4>1. 1 \in DOMAIN path' /\ path' # <<>>
          BY <1>3, <1>4, <3>3
        <4>2. QED
          BY <1>4, <1>5, <3>1, <4>1
      <3>4. QED
        BY <3>2, <3>3
    <2>2. QED
      BY <1>2, <2>1 DEF RootInv
  <1>14. CycleIsReal'
    BY <1>2 DEF CycleIsReal
  <1>15. QED
    BY <1>7, <1>9, <1>11, <1>12, <1>13, <1>14 DEF IInv

\* dlist_recursive() returns when nothing is left to visit.
LEMMA ReturnIInv == IInv /\ return => IInv'
  <1> SUFFICES ASSUME IInv, return PROVE IInv'
    OBVIOUS
  <1>1. /\ path = <<>> /\ roots = {} /\ status = "running" /\ status' = "sorted"
        /\ UNCHANGED <<depends, wanted, roots, path, rest, col, t, cycle>>
    BY DEF return
  <1>2. TypeOK'
    BY <1>1 DEF IInv, TypeOK
  <1>3. ColInv' /\ PathInv' /\ RootInv' /\ Sorted' /\ CycleIsReal'
    BY <1>1 DEF IInv, ColInv, PathInv, RootInv, Sorted, CycleIsReal
  <1>4. QED
    BY <1>2, <1>3 DEF IInv

\* Every step keeps the invariant.
LEMMA NextIInv == IInv /\ [Next]_vars => IInv'
  <1> SUFFICES ASSUME IInv, [Next]_vars PROVE IInv'
    OBVIOUS
  <1>1. CASE Next
    BY <1>1, RootIInv, DependencyIInv, LeaveIInv, ReturnIInv DEF Next
  <1>2. CASE UNCHANGED vars
    <2>1. TypeOK'
      BY <1>2 DEF vars, IInv, TypeOK
    <2>2. ColInv' /\ PathInv' /\ RootInv' /\ Sorted' /\ CycleIsReal'
      BY <1>2 DEF vars, IInv, ColInv, PathInv, RootInv, Sorted, CycleIsReal
    <2>3. QED
      BY <2>1, <2>2 DEF IInv
  <1>3. QED
    BY <1>1, <1>2

-----------------------------------------------------------------------------
\* The inductive invariant of dlist_recursive() holds on every project.
THEOREM Invariance == Spec => []IInv
  BY InitIInv, NextIInv, PTL DEF Spec

\* In the list of dlist_recursive() every result comes after all of its
\* dependencies, whatever the project and whatever was asked for.
THEOREM ListIsSorted == Spec => []Sorted
  <1>1. IInv => Sorted
    BY DEF IInv
  <1>2. QED
    BY <1>1, Invariance, PTL

\* The list that dlist_recursive() returns has all that was asked for, and
\* nothing twice.
THEOREM ListIsComplete == Spec => []Complete
  <1>1. IInv => Complete
    BY DEF IInv, ColInv, RootInv, Complete
  <1>2. QED
    BY <1>1, Invariance, PTL

\* When dlist_recursive() reports a cycle, the results that it names are one.
THEOREM ReportedCycleIsReal == Spec => []CycleIsReal
  <1>1. IInv => CycleIsReal
    BY DEF IInv
  <1>2. QED
    BY <1>1, Invariance, PTL
====
