------------------------ MODULE ChecksumCacheProofs ------------------------
(***************************************************************************)
(* AnswersTrue and ReleaseOnItsOwn for any number of invocations, files    *)
(* and edits.  The inductive invariant says that an entry which matches    *)
(* the stat() of its file holds the checksums of what the file holds now,  *)
(* or the file is on record as changed during a computation, and that this *)
(* is so for the tables in memory, for .e2/hashcache, and for a checksum   *)
(* on its way into a table.                                                *)
(***************************************************************************)
EXTENDS ChecksumCache, TLAPS

\* Which invocations can be the cause of a wrong entry in the table of p.
Blame(p) == IF p \in release THEN {p} ELSE Proc

\* The entry e, for a file with the stat s and the data c.
Honest(e, s, c, excused) ==
    /\ e.stat <= s
    /\ e.stat = s /\ c # Absent =>
          excused \/ \A d \in Digest : e.sums[d] = None \/ e.sums[d] = <<c, c>>

TablesHonest ==
    /\ hashcache # None => \A f \in Path :
          Honest(hashcache[f], stat[f], content[f], Raced(Proc, f, hashcache[f].stat))
    /\ \A p \in Proc : csdict[p] # None => \A f \in Path :
          Honest(csdict[p][f], stat[f], content[f], Raced(Blame(p), f, csdict[p][f].stat))

\* What a step of an invocation can rely on.
StepsOK ==
    \A p \in Proc :
        /\ step[p] \in {"compute", "read", "insert"} => job[p] # None /\ csdict[p] # None
        /\ step[p] \in {"read", "insert"} => begun[p] # None
        /\ step[p] = "insert" => sum[p] # None
        /\ step[p] = "store" => csdict[p] # None /\ p \notin release
        /\ step[p] = "exited" => csdict[p] = None /\ answer[p] = None

\* What was read so far is what the file holds, if it was not changed since.
ReadsHonest ==
    \A p \in Proc :
        /\ step[p] \in {"read", "insert"} =>
              /\ begun[p].stat <= stat[job[p].file]
              /\ begun[p].stat = stat[job[p].file] => begun[p].data = content[job[p].file]
        /\ step[p] = "insert" /\ begun[p].stat = stat[job[p].file] =>
              sum[p] = <<content[job[p].file], content[job[p].file]>>

AnswersHonest ==
    \A p \in Proc : answer[p] # None =>
        \/ answer[p].sum = <<answer[p].data, answer[p].data>>
        \/ Raced(Blame(p), answer[p].file, answer[p].stat)

Inv == TypeOK /\ StepsOK /\ ReadsHonest /\ TablesHonest /\ AnswersHonest

USE ChecksumAssumption

\* No tables, no computations and no answers: the invariant holds.
LEMMA InitInv == Init => Inv
  <1> SUFFICES ASSUME Init PROVE Inv
    OBVIOUS
  <1>1. TypeOK
    BY DEF Init, TypeOK
  <1>2. StepsOK /\ ReadsHonest
    BY DEF Init, StepsOK, ReadsHonest
  <1>3. TablesHonest /\ AnswersHonest
    BY DEF Init, TablesHonest, AnswersHonest
  <1> QED
    BY <1>1, <1>2, <1>3 DEF Inv

\* start: an invocation that has exited has no table, so its mode may change.
LEMMA StartInv == ASSUME Inv, NEW p \in Proc, start(p) PROVE Inv'
  <1> USE DEF Inv
  <1>1. TypeOK'
    BY DEF start, Goto, TypeOK, files
  <1>2. StepsOK'
    BY DEF start, Goto, TypeOK, StepsOK, files
  <1>3. ReadsHonest'
    BY DEF start, Goto, TypeOK, ReadsHonest, files
  <1>4. csdict[p] = None /\ answer[p] = None
    BY DEF start, StepsOK
  <1>5. \A q \in Proc : q # p => Blame(q)' = Blame(q)
    BY DEF start, Blame
  <1>6. TablesHonest'
    <2>1. UNCHANGED <<content, stat, hashcache, csdict, raced>>
      BY DEF start, files
    <2>2. ASSUME NEW q \in Proc, csdict'[q] # None, NEW f \in Path
          PROVE  Honest(csdict[q][f], stat[f], content[f], Raced(Blame(q), f, csdict[q][f].stat))'
      <3>1. q # p /\ csdict[q] # None
        BY <1>4, <2>1, <2>2
      <3>2. Honest(csdict[q][f], stat[f], content[f], Raced(Blame(q), f, csdict[q][f].stat))
        BY <3>1 DEF TablesHonest
      <3> QED
        BY <1>5, <2>1, <3>1, <3>2 DEF Raced
    <2>3. ASSUME hashcache' # None, NEW f \in Path
          PROVE  Honest(hashcache[f], stat[f], content[f], Raced(Proc, f, hashcache[f].stat))'
      BY <2>1, <2>3 DEF TablesHonest, Raced
    <2> QED
      BY <2>2, <2>3 DEF TablesHonest
  <1>7. AnswersHonest'
    BY <1>4, <1>5 DEF start, TypeOK, AnswersHonest, files, Raced
  <1> QED
    BY <1>1, <1>2, <1>3, <1>6, <1>7

\* A table without entries is a table.
LEMMA EmptyTable == Empty \in Table /\ NoEntry \in Entry
  BY DEF Empty, Table, NoEntry, Entry

\* load_cache: the table p works with is honest.
LEMMA LoadFacts ==
    ASSUME Inv, NEW p \in Proc
    PROVE  /\ load_cache(p) \in Table
           /\ \A f \in Path : Honest(load_cache(p)[f], stat[f], content[f],
                                     Raced(Blame(p), f, load_cache(p)[f].stat))
  <1> USE DEF Inv
  <1>1. CASE csdict[p] # None
    <2>1. load_cache(p) = csdict[p]
      BY <1>1 DEF load_cache
    <2>2. csdict[p] \in Table
      BY <1>1 DEF TypeOK
    <2> QED
      BY <1>1, <2>1, <2>2 DEF TablesHonest
  <1>2. CASE csdict[p] = None /\ (p \in release \/ hashcache = None)
    <2>1. load_cache(p) = Empty
      BY <1>2 DEF load_cache
    <2>2. \A f \in Path : Empty[f].stat = 0 /\ stat[f] \in 1 .. MaxStat
      BY DEF Empty, NoEntry, TypeOK
    <2> QED
      BY <2>1, <2>2, EmptyTable DEF Honest
  <1>3. CASE csdict[p] = None /\ p \notin release /\ hashcache # None
    <2>1. load_cache(p) = hashcache
      BY <1>3 DEF load_cache
    <2>2. hashcache \in Table /\ Blame(p) = Proc
      BY <1>3 DEF TypeOK, Blame
    <2> QED
      BY <1>3, <2>1, <2>2 DEF TablesHonest
  <1> QED
    BY <1>1, <1>2, <1>3

\* lookup() keeps an entry as it is or drops it.
LEMMA LookupFacts ==
    ASSUME NEW t \in Table, NEW f \in Path, NEW d \in Digest
    PROVE  /\ AfterLookup(t, f, d) \in Table
           /\ \A g \in Path : AfterLookup(t, f, d)[g] = t[g] \/ AfterLookup(t, f, d)[g] = NoEntry
  BY EmptyTable DEF AfterLookup, Table

\* What was dropped says nothing about its file.
LEMMA NoEntryHonest ==
    ASSUME NEW s \in 1 .. MaxStat, NEW c, NEW b \in BOOLEAN
    PROVE  Honest(NoEntry, s, c, b)
  BY DEF Honest, NoEntry

\* compute_sha1_checksum_once: what is found is honest, and it is for the
\* file as it is.
LEMMA OnceInv == ASSUME Inv, NEW p \in Proc, compute_checksum_once(p) PROVE Inv'
  <1> USE DEF Inv
  <1> DEFINE t == load_cache(p)
  <1>0. /\ t \in Table
        /\ \A f \in Path : Honest(t[f], stat[f], content[f], Raced(Blame(p), f, t[f].stat))
    BY LoadFacts
  <1> HIDE DEF t
  <1>1. PICK f \in Path, d \in Digest :
          /\ csdict' = [csdict EXCEPT ![p] = AfterLookup(t, f, d)]
          /\ \/ /\ Found(t, f, d)
                /\ answer' = [answer EXCEPT ![p] =
                                 [file |-> f, stat |-> stat[f], sum |-> t[f].sums[d],
                                  data |-> content[f]]]
                /\ UNCHANGED <<step, job>>
             \/ /\ ~ Found(t, f, d)
                /\ answer' = [answer EXCEPT ![p] = None]
                /\ job' = [job EXCEPT ![p] = [file |-> f, digest |-> d]]
                /\ Goto(p, "compute")
    BY DEF compute_checksum_once, t
  <1>2. /\ UNCHANGED <<content, stat, hashcache, release, begun, sum, raced>>
        /\ step[p] = "ready"
    BY DEF compute_checksum_once, files
  <1>3. /\ AfterLookup(t, f, d) \in Table
        /\ \A g \in Path : AfterLookup(t, f, d)[g] = t[g] \/ AfterLookup(t, f, d)[g] = NoEntry
    BY <1>0, <1>1, LookupFacts
  <1>4. t[f].sums[d] \in Sum \cup {None} /\ t[f].stat \in 0 .. MaxStat
    BY <1>0, <1>1 DEF Table, Entry
  <1>5. ASSUME Found(t, f, d)
        PROVE  [file |-> f, stat |-> stat[f], sum |-> t[f].sums[d], data |-> content[f]] \in Answer
    BY <1>1, <1>4, <1>5 DEF Found, Answer, TypeOK
  <1>6. TypeOK'
    <2>1. csdict' \in [Proc -> Table \cup {None}]
      BY <1>1, <1>3 DEF TypeOK
    <2>2. answer' \in [Proc -> Answer \cup {None}]
      BY <1>1, <1>5 DEF TypeOK
    <2>3. [file |-> f, digest |-> d] \in Job
      BY <1>1 DEF Job
    <2>4. job' \in [Proc -> Job \cup {None}]
      BY <1>1, <2>3 DEF TypeOK
    <2>5. step' \in [Proc -> {"exited", "ready", "compute", "read", "insert", "store"}]
      BY <1>1 DEF TypeOK, Goto
    <2> QED
      BY <1>2, <2>1, <2>2, <2>4, <2>5 DEF TypeOK
  <1>7. csdict'[p] # None /\ step'[p] \in {"ready", "compute"}
    <2>1. None \notin Table
      OBVIOUS
    <2>2. csdict'[p] = AfterLookup(t, f, d)
      BY <1>1 DEF TypeOK
    <2> QED
      BY <1>1, <1>2, <1>3, <2>1, <2>2 DEF TypeOK, Goto
  <1>8. \A q \in Proc : q # p => /\ csdict'[q] = csdict[q] /\ answer'[q] = answer[q]
                                 /\ job'[q] = job[q] /\ step'[q] = step[q]
    BY <1>1 DEF TypeOK, Goto
  <1>9. StepsOK'
    <2>1. step'[p] = "compute" => job'[p] # None
      <3>1. [file |-> f, digest |-> d] \in Job
        BY <1>1 DEF Job
      <3> QED
        BY <1>1, <1>2, <3>1 DEF TypeOK, Goto
    <2> QED
      BY <1>2, <1>7, <1>8, <2>1 DEF StepsOK
  <1>10. ReadsHonest'
    BY <1>2, <1>7, <1>8 DEF ReadsHonest
  <1>11. \A q \in Proc : Blame(q)' = Blame(q)
    BY <1>2 DEF Blame
  <1>12. TablesHonest'
    <2>1. ASSUME NEW g \in Path
          PROVE  Honest(AfterLookup(t, f, d)[g], stat[g], content[g],
                        Raced(Blame(p), g, AfterLookup(t, f, d)[g].stat))
      <3>1. stat[g] \in 1 .. MaxStat
        BY DEF TypeOK
      <3> QED
        BY <1>0, <1>3, <3>1, NoEntryHonest DEF Raced
    <2>2. csdict'[p] = AfterLookup(t, f, d)
      BY <1>1 DEF TypeOK
    <2>3. \A q \in Proc, g \in Path : \A s : Raced(Blame(q), g, s)' = Raced(Blame(q), g, s)
      BY <1>2, <1>11 DEF Raced
    <2>4. ASSUME NEW q \in Proc, csdict'[q] # None, NEW g \in Path
          PROVE  Honest(csdict'[q][g], stat[g], content[g], Raced(Blame(q), g, csdict'[q][g].stat))
      BY <1>8, <2>1, <2>2, <2>4 DEF TablesHonest
    <2> QED
      BY <1>2, <1>11, <2>4 DEF TablesHonest, Raced
  <1>13. AnswersHonest'
    <2>1. ASSUME Found(t, f, d)
          PROVE  \/ t[f].sums[d] = <<content[f], content[f]>>
                 \/ Raced(Blame(p), f, stat[f])
      BY <1>0, <1>1, <2>1 DEF Found, Honest
    <2>2. answer'[p] # None =>
            /\ Found(t, f, d)
            /\ answer'[p] = [file |-> f, stat |-> stat[f], sum |-> t[f].sums[d], data |-> content[f]]
      BY <1>1 DEF TypeOK
    <2>3. answer'[p] # None =>
            \/ answer'[p].sum = <<answer'[p].data, answer'[p].data>>
            \/ Raced(Blame(p), answer'[p].file, answer'[p].stat)
      BY <2>1, <2>2
    <2>4. ASSUME NEW q \in Proc, q # p, answer'[q] # None
          PROVE  \/ answer'[q].sum = <<answer'[q].data, answer'[q].data>>
                 \/ Raced(Blame(q), answer'[q].file, answer'[q].stat)
      BY <1>8, <2>4 DEF AnswersHonest
    <2>5. \A q \in Proc : Raced(Blame(q), answer'[q].file, answer'[q].stat) =>
                             Raced(Blame(q), answer[q].file, answer[q].stat)'
      BY <1>2, <1>11 DEF Raced
    <2> QED
      BY <2>3, <2>4, <2>5 DEF AnswersHonest
  <1> QED
    BY <1>6, <1>9, <1>10, <1>12, <1>13

\* Steps that change no table, no answer, no file and no record of a race.
LEMMA QuietTables ==
    ASSUME Inv, UNCHANGED <<content, stat, hashcache, csdict, release, answer, raced>>
    PROVE  TablesHonest' /\ AnswersHonest'
  <1>1. \A q \in Proc : Blame(q)' = Blame(q)
    BY DEF Blame
  <1> QED
    BY <1>1 DEF Inv, TablesHonest, AnswersHonest, Raced

\* compute_sha1_checksum opens the file: what it begins with is the file.
LEMMA ComputeInv == ASSUME Inv, NEW p \in Proc, compute_checksum(p) PROVE Inv'
  <1> USE DEF Inv
  <1>1. step[p] = "compute" /\ job[p] \in Job /\ csdict[p] # None
    BY DEF compute_checksum, StepsOK, TypeOK
  <1>2. job[p].file \in Path
    BY <1>1 DEF Job
  <1>3. UNCHANGED <<content, stat, hashcache, csdict, release, answer, raced>>
    BY DEF compute_checksum, files
  <1>4. CASE /\ Goto(p, "ready") /\ JobDone(p)
    <2>1. TypeOK'
      BY <1>3, <1>4 DEF TypeOK, Goto, JobDone
    <2>2. StepsOK'
      BY <1>3, <1>4 DEF TypeOK, StepsOK, Goto, JobDone
    <2>3. ReadsHonest'
      BY <1>3, <1>4 DEF TypeOK, ReadsHonest, Goto, JobDone
    <2> QED
      BY <1>3, <2>1, <2>2, <2>3, QuietTables
  <1>5. CASE /\ content[job[p].file] # Absent
             /\ begun' = [begun EXCEPT ![p] = [stat |-> stat[job[p].file],
                                               data |-> content[job[p].file]]]
             /\ Goto(p, "read")
             /\ UNCHANGED <<job, sum>>
    <2>0. [stat |-> stat[job[p].file], data |-> content[job[p].file]] \in Begun
      BY <1>2, <1>5 DEF TypeOK, Begun
    <2>1. TypeOK'
      BY <1>3, <1>5, <2>0 DEF TypeOK, Goto
    <2>2. /\ begun'[p] = [stat |-> stat[job[p].file], data |-> content[job[p].file]]
          /\ begun'[p] # None
          /\ step'[p] = "read"
      BY <1>5, <2>0 DEF TypeOK, Goto
    <2>3. \A q \in Proc : q # p => begun'[q] = begun[q] /\ step'[q] = step[q]
      BY <1>5 DEF TypeOK, Goto
    <2>4. StepsOK'
      BY <1>1, <1>3, <1>5, <2>2, <2>3 DEF StepsOK
    <2>5. ReadsHonest'
      <3>1. /\ begun'[p].stat = stat[job[p].file] /\ begun'[p].data = content[job[p].file]
            /\ stat[job[p].file] \in 1 .. MaxStat
        BY <1>2, <2>2 DEF TypeOK
      <3>2. UNCHANGED <<content, stat, job, sum>>
        BY <1>3, <1>5
      <3> SUFFICES ASSUME NEW q \in Proc
                   PROVE  /\ step'[q] \in {"read", "insert"} =>
                              /\ begun'[q].stat <= stat[job[q].file]
                              /\ begun'[q].stat = stat[job[q].file] =>
                                    begun'[q].data = content[job[q].file]
                          /\ step'[q] = "insert" /\ begun'[q].stat = stat[job[q].file] =>
                              sum[q] = <<content[job[q].file], content[job[q].file]>>
        BY <3>2 DEF ReadsHonest
      <3>3. CASE q = p
        BY <2>2, <3>1, <3>3
      <3>4. CASE q # p
        BY <2>3, <3>4 DEF ReadsHonest
      <3> QED
        BY <3>3, <3>4
    <2> QED
      BY <1>3, <2>1, <2>4, <2>5, QuietTables
  <1> QED
    BY <1>4, <1>5 DEF compute_checksum

\* read: the second half is the file's, or the file has another stat by now.
LEMMA ReadInv == ASSUME Inv, NEW p \in Proc, read(p) PROVE Inv'
  <1> USE DEF Inv
  <1> DEFINE f == job[p].file
             rest == IF content[f] = Absent THEN begun[p].data ELSE content[f]
  <1>1. step[p] = "read" /\ job[p] \in Job /\ csdict[p] # None /\ begun[p] \in Begun
    BY DEF read, StepsOK, TypeOK
  <1>2. f \in Path /\ begun[p].data \in Data
    BY <1>1 DEF Job, Begun
  <1>3. /\ UNCHANGED <<content, stat, hashcache, csdict, release, answer, raced>>
        /\ UNCHANGED <<job, begun>>
    BY DEF read, files
  <1>4. sum' = [sum EXCEPT ![p] = <<begun[p].data, rest>>] /\ Goto(p, "insert")
    BY DEF read
  <1>5. <<begun[p].data, rest>> \in Sum
    BY <1>2 DEF TypeOK, Sum
  <1>6. begun[p].stat = stat[f] => begun[p].data = content[f] /\ rest = content[f]
    BY <1>1, <1>2 DEF ReadsHonest
  <1> HIDE DEF rest
  <1>7. TypeOK'
    BY <1>3, <1>4, <1>5 DEF TypeOK, Goto
  <1>8. /\ sum'[p] = <<begun[p].data, rest>> /\ sum'[p] # None /\ step'[p] = "insert"
        /\ \A q \in Proc : q # p => sum'[q] = sum[q] /\ step'[q] = step[q]
    BY <1>4, <1>5 DEF TypeOK, Goto
  <1>9. StepsOK'
    BY <1>1, <1>3, <1>8 DEF StepsOK
  <1>10. ReadsHonest'
    BY <1>1, <1>3, <1>6, <1>8 DEF ReadsHonest
  <1> QED
    BY <1>3, <1>7, <1>9, <1>10, QuietTables

\* What insert() puts into the table: the checksum of a file that kept its
\* stat is the file's, and one that did not is on record as raced.
LEMMA InsertEntry ==
    ASSUME Inv, NEW p \in Proc, step[p] = "insert", NEW f \in Path, f = job[p].file,
           NEW e \in Entry, NEW d \in Digest, content[f] # Absent,
           e = [stat |-> stat[f],
                sums |-> [x \in Digest |-> IF x = d THEN sum[p] ELSE OtherSum(csdict[p], f, d)]]
    PROVE  \/ \A x \in Digest : e.sums[x] = None \/ e.sums[x] = <<content[f], content[f]>>
           \/ Raced(Blame(p), f, stat[f])
           \/ stat[f] # begun[p].stat
  <1> USE DEF Inv
  <1>1. begun[p].stat = stat[f] => sum[p] = <<content[f], content[f]>>
    BY DEF ReadsHonest
  <1>2. csdict[p] # None
    BY DEF StepsOK
  <1>3. Honest(csdict[p][f], stat[f], content[f], Raced(Blame(p), f, csdict[p][f].stat))
    BY <1>2 DEF TablesHonest
  <1>4. Other(d) \in Digest
    BY DEF Other, Digest
  <1>5. \/ OtherSum(csdict[p], f, d) = None
        \/ OtherSum(csdict[p], f, d) = <<content[f], content[f]>>
        \/ Raced(Blame(p), f, stat[f])
    BY <1>3, <1>4 DEF OtherSum, Found, Honest
  <1>6. \A x \in Digest : e.sums[x] = IF x = d THEN sum[p] ELSE OtherSum(csdict[p], f, d)
    OBVIOUS
  <1> QED
    BY <1>1, <1>5, <1>6

\* insert: the new entry is honest, and the others stay so.
LEMMA InsertInv == ASSUME Inv, NEW p \in Proc, insert(p) PROVE Inv'
  <1> USE DEF Inv
  <1> DEFINE f == job[p].file
             d == job[p].digest
             t == csdict[p]
             e == [stat |-> stat[f],
                   sums |-> [x \in Digest |-> IF x = d THEN sum[p] ELSE OtherSum(t, f, d)]]
             races == {<<f, s>> : s \in {stat[f]} \ {begun[p].stat}}
  <1>1. /\ step[p] = "insert" /\ job[p] \in Job /\ t \in Table
        /\ begun[p] \in Begun /\ sum[p] \in Sum
    BY DEF insert, StepsOK, TypeOK
  <1>2. f \in Path /\ d \in Digest /\ Other(d) \in Digest
    BY <1>1 DEF Job, Other, Digest
  <1>3. /\ UNCHANGED <<content, stat, hashcache, release, answer>>
        /\ Goto(p, "ready") /\ JobDone(p)
    BY DEF insert, files
  <1>4. e \in Entry
    <2>1. OtherSum(t, f, d) \in Sum \cup {None}
      BY <1>1, <1>2 DEF OtherSum, Table, Entry
    <2>2. stat[f] \in 0 .. MaxStat
      BY <1>2 DEF TypeOK
    <2> QED
      BY <1>1, <2>1, <2>2 DEF Entry
  <1>5. races \subseteq Path \X (1 .. MaxStat)
    BY <1>2 DEF TypeOK
  \* The new table n, and what is on record afterwards.
  <1>6. PICK n \in Table :
          /\ csdict' = [csdict EXCEPT ![p] = n]
          /\ raced' = raced \/ raced' = [raced EXCEPT ![p] = @ \cup races]
          /\ \A g \in Path :
                \/ n[g] = t[g]
                \/ n[g] = NoEntry
                \/ /\ g = f /\ n[g] = e /\ content[f] # Absent
                   /\ raced' = [raced EXCEPT ![p] = @ \cup races]
    <2>1. CASE /\ content[f] = Absent
               /\ csdict' = [csdict EXCEPT ![p] = AfterLookup(t, f, Other(d))]
               /\ UNCHANGED raced
      <3>1. /\ AfterLookup(t, f, Other(d)) \in Table
            /\ \A g \in Path : \/ AfterLookup(t, f, Other(d))[g] = t[g]
                               \/ AfterLookup(t, f, Other(d))[g] = NoEntry
        BY <1>1, <1>2, LookupFacts
      <3> HIDE DEF e, races, f, d
      <3> QED
        BY <2>1, <3>1
    <2>2. CASE /\ content[f] # Absent
               /\ csdict' = [csdict EXCEPT ![p] = [t EXCEPT ![f] = e]]
               /\ raced' = [raced EXCEPT ![p] = @ \cup races]
      <3> HIDE DEF e, races, f
      <3>1. [t EXCEPT ![f] = e] \in Table
        BY <1>1, <1>2, <1>4 DEF Table
      <3>2. \A g \in Path : [t EXCEPT ![f] = e][g] = IF g = f THEN e ELSE t[g]
        BY <1>1 DEF Table
      <3> QED
        BY <2>2, <3>1, <3>2
    <2> QED
      BY <2>1, <2>2 DEF insert
  <1>7. \/ \A x \in Digest : e.sums[x] = None \/ e.sums[x] = <<content[f], content[f]>>
        \/ Raced(Blame(p), f, stat[f])
        \/ stat[f] # begun[p].stat
        \/ content[f] = Absent
    BY <1>1, <1>2, <1>4, InsertEntry
  <1>8. stat[f] # begun[p].stat => <<f, stat[f]>> \in races
    OBVIOUS
  <1>9. e.stat = stat[f] /\ stat[f] \in 1 .. MaxStat
    BY <1>2 DEF TypeOK
  <1> HIDE DEF e, races, f, d, t
  <1>10. \A q \in Proc : raced[q] \subseteq raced'[q]
    BY <1>6 DEF TypeOK
  <1>11. TypeOK'
    <2>1. csdict' \in [Proc -> Table \cup {None}]
      BY <1>6 DEF TypeOK
    <2>2. raced' \in [Proc -> SUBSET (Path \X (1 .. MaxStat))]
      BY <1>5, <1>6 DEF TypeOK
    <2> QED
      BY <1>3, <2>1, <2>2 DEF TypeOK, Goto, JobDone
  <1>12. /\ csdict'[p] = n /\ step'[p] = "ready"
         /\ \A q \in Proc : q # p => /\ csdict'[q] = csdict[q] /\ step'[q] = step[q]
                                     /\ job'[q] = job[q] /\ begun'[q] = begun[q]
                                     /\ sum'[q] = sum[q]
    BY <1>3, <1>6 DEF TypeOK, Goto, JobDone
  <1>13. StepsOK'
    BY <1>3, <1>12 DEF StepsOK
  <1>14. ReadsHonest'
    BY <1>3, <1>12 DEF ReadsHonest
  <1>15. /\ \A q \in Proc : Blame(q)' = Blame(q)
         /\ p \in Blame(p) /\ \A q \in Proc : Blame(q) \subseteq Proc
    BY <1>3 DEF Blame
  <1>16. \A q \in Proc, g \in Path : \A s : Raced(Blame(q), g, s) => Raced(Blame(q), g, s)'
    BY <1>10, <1>15 DEF Raced
  <1>17. ASSUME NEW g \in Path
         PROVE  Honest(n[g], stat[g], content[g], Raced(Blame(p), g, n[g].stat)')
    <2>1. CASE n[g] = NoEntry
      <3>1. stat[g] \in 1 .. MaxStat
        BY DEF TypeOK
      <3> QED
        BY <2>1, <3>1 DEF Honest, NoEntry
    <2>2. CASE n[g] = t[g]
      <3>1. Honest(t[g], stat[g], content[g], Raced(Blame(p), g, t[g].stat))
        BY <1>1 DEF TablesHonest, t
      <3>2. Raced(Blame(p), g, n[g].stat) => Raced(Blame(p), g, n[g].stat)'
        BY <1>10, <1>15, <1>12 DEF Raced
      <3> QED
        BY <2>2, <3>1, <3>2 DEF Honest
    <2>3. CASE /\ g = f /\ n[g] = e /\ content[f] # Absent
               /\ raced' = [raced EXCEPT ![p] = @ \cup races]
      <3>1. stat[f] # begun[p].stat => <<f, stat[f]>> \in raced'[p]
        BY <1>8, <2>3 DEF TypeOK
      <3>2. \/ \A x \in Digest : e.sums[x] = None \/ e.sums[x] = <<content[f], content[f]>>
            \/ \E q \in Blame(p) : <<f, stat[f]>> \in raced'[q]
        BY <1>7, <1>10, <1>15, <2>3, <3>1 DEF Raced
      <3>3. n[g].stat = stat[g] /\ stat[g] <= stat[g] /\ n[g].sums = e.sums
        BY <1>9, <2>3
      <3>4. (\E q \in Blame(p) : <<f, stat[f]>> \in raced'[q]) => Raced(Blame(p), g, n[g].stat)'
        BY <1>12, <1>15, <2>3, <3>3 DEF Raced
      <3> QED
        BY <2>3, <3>2, <3>3, <3>4 DEF Honest
    <2> QED
      BY <1>6, <2>1, <2>2, <2>3
  <1>18. TablesHonest'
    <2>1. ASSUME NEW q \in Proc, q # p, csdict[q] # None, NEW g \in Path
          PROVE  Honest(csdict[q][g], stat[g], content[g], Raced(Blame(q), g, csdict[q][g].stat)')
      <3>1. Honest(csdict[q][g], stat[g], content[g], Raced(Blame(q), g, csdict[q][g].stat))
        BY <2>1 DEF TablesHonest
      <3> QED
        BY <1>10, <1>12, <1>15, <2>1, <3>1 DEF Honest, Raced
    <2>2. ASSUME NEW q \in Proc, csdict'[q] # None, NEW g \in Path
          PROVE  Honest(csdict'[q][g], stat'[g], content'[g],
                        Raced(Blame(q), g, csdict[q][g].stat)')
      <3>1. CASE q = p
        <4>1. Honest(n[g], stat[g], content[g], \E r \in Blame(p) : <<g, n[g].stat>> \in raced'[r])
          BY <1>15, <1>17 DEF Raced
        <4> QED
          BY <1>3, <1>12, <1>15, <3>1, <4>1 DEF Raced
      <3>2. CASE q # p
        <4>1. csdict'[q] = csdict[q] /\ csdict[q] # None
          BY <1>12, <2>2, <3>2
        <4>2. Honest(csdict[q][g], stat[g], content[g],
                     \E r \in Blame(q) : <<g, csdict'[q][g].stat>> \in raced'[r])
          BY <1>15, <2>1, <3>2, <4>1 DEF Raced
        <4> QED
          BY <1>3, <1>15, <4>1, <4>2 DEF Raced
      <3> QED
        BY <3>1, <3>2
    <2>3. ASSUME hashcache' # None, NEW g \in Path
          PROVE  Honest(hashcache'[g], stat'[g], content'[g],
                        Raced(Proc, g, hashcache[g].stat)')
      <3>1. Honest(hashcache[g], stat[g], content[g], Raced(Proc, g, hashcache[g].stat))
        BY <1>3, <2>3 DEF TablesHonest
      <3>2. hashcache' = hashcache /\ stat' = stat /\ content' = content
        BY <1>3
      <3> QED
        BY <1>10, <3>1, <3>2 DEF Honest, Raced
    <2> QED
      BY <2>2, <2>3 DEF TablesHonest
  <1>19. AnswersHonest'
    BY <1>3, <1>10, <1>15 DEF AnswersHonest, Raced
  <1> QED
    BY <1>11, <1>13, <1>14, <1>18, <1>19

\* The end of an invocation: its table and its answer are gone.
LEMMA ExitedInv ==
    ASSUME Inv, NEW p \in Proc, Exited(p), hashcache' \in Table \cup {None},
           hashcache' # None => \A f \in Path :
              Honest(hashcache'[f], stat[f], content[f], Raced(Proc, f, hashcache[f].stat)')
    PROVE  Inv'
  <1> USE DEF Inv
  <1>1. UNCHANGED <<content, stat, release, raced>>
    BY DEF Exited, files
  <1>2. TypeOK'
    BY DEF Exited, Goto, JobDone, TypeOK, files
  <1>3. /\ csdict'[p] = None /\ answer'[p] = None /\ step'[p] = "exited"
        /\ \A q \in Proc : q # p => /\ csdict'[q] = csdict[q] /\ step'[q] = step[q]
                                    /\ job'[q] = job[q] /\ begun'[q] = begun[q]
                                    /\ sum'[q] = sum[q] /\ answer'[q] = answer[q]
    BY DEF Exited, Goto, JobDone, TypeOK
  <1>4. StepsOK'
    <2> SUFFICES ASSUME NEW q \in Proc
                 PROVE  /\ step'[q] \in {"compute", "read", "insert"} =>
                              job'[q] # None /\ csdict'[q] # None
                        /\ step'[q] \in {"read", "insert"} => begun'[q] # None
                        /\ step'[q] = "insert" => sum'[q] # None
                        /\ step'[q] = "store" => csdict'[q] # None /\ q \notin release
                        /\ step'[q] = "exited" => csdict'[q] = None /\ answer'[q] = None
      BY <1>1 DEF StepsOK
    <2>1. CASE q = p
      BY <1>3, <2>1
    <2>2. CASE q # p
      BY <1>3, <2>2 DEF StepsOK
    <2> QED
      BY <2>1, <2>2
  <1>5. ReadsHonest'
    <2> SUFFICES ASSUME NEW q \in Proc
                 PROVE  /\ step'[q] \in {"read", "insert"} =>
                            /\ begun'[q].stat <= stat[job'[q].file]
                            /\ begun'[q].stat = stat[job'[q].file] =>
                                  begun'[q].data = content[job'[q].file]
                        /\ step'[q] = "insert" /\ begun'[q].stat = stat[job'[q].file] =>
                            sum'[q] = <<content[job'[q].file], content[job'[q].file]>>
      BY <1>1 DEF ReadsHonest
    <2>1. CASE q = p
      BY <1>3, <2>1
    <2>2. CASE q # p
      <3>1. /\ step'[q] = step[q] /\ job'[q] = job[q]
            /\ begun'[q] = begun[q] /\ sum'[q] = sum[q]
        BY <1>3, <2>2
      <3>2. /\ step[q] \in {"read", "insert"} =>
                /\ begun[q].stat <= stat[job[q].file]
                /\ begun[q].stat = stat[job[q].file] =>
                      begun[q].data = content[job[q].file]
            /\ step[q] = "insert" /\ begun[q].stat = stat[job[q].file] =>
                sum[q] = <<content[job[q].file], content[job[q].file]>>
        BY DEF ReadsHonest
      <3> QED
        BY <3>1, <3>2, Zenon
    <2> QED
      BY <2>1, <2>2
  <1>6. \A q \in Proc : Blame(q)' = Blame(q)
    BY <1>1 DEF Blame
  <1>7. TablesHonest'
    <2>1. ASSUME NEW q \in Proc, csdict'[q] # None, NEW f \in Path
          PROVE  Honest(csdict[q][f], stat[f], content[f], Raced(Blame(q), f, csdict[q][f].stat))'
      <3>1. csdict'[q] = csdict[q]
        BY <1>3, <2>1
      <3>2. Honest(csdict[q][f], stat[f], content[f], Raced(Blame(q), f, csdict[q][f].stat))
        BY <2>1, <3>1 DEF TablesHonest
      <3> QED
        BY <1>1, <1>6, <3>1, <3>2 DEF Raced
    <2>2. ASSUME hashcache' # None, NEW f \in Path
          PROVE  Honest(hashcache[f], stat[f], content[f], Raced(Proc, f, hashcache[f].stat))'
      BY <1>1, <2>2
    <2> QED
      BY <2>1, <2>2 DEF TablesHonest
  <1>8. AnswersHonest'
    <2> SUFFICES ASSUME NEW q \in Proc, answer'[q] # None
                 PROVE  \/ answer'[q].sum = <<answer'[q].data, answer'[q].data>>
                        \/ Raced(Blame(q), answer[q].file, answer[q].stat)'
      BY DEF AnswersHonest
    <2>1. answer'[q] = answer[q]
      BY <1>3
    <2>2. \/ answer[q].sum = <<answer[q].data, answer[q].data>>
          \/ Raced(Blame(q), answer[q].file, answer[q].stat)
      BY <2>1 DEF AnswersHonest
    <2> QED
      BY <1>1, <1>6, <2>1, <2>2 DEF Raced
  <1> QED
    BY <1>2, <1>4, <1>5, <1>7, <1>8

\* An invocation that ends without a write leaves .e2/hashcache alone.
LEMMA UnchangedHashcache ==
    ASSUME Inv, NEW p \in Proc, Exited(p), UNCHANGED hashcache PROVE Inv'
  <1> USE DEF Inv
  <1>1. UNCHANGED <<content, stat, raced>>
    BY DEF Exited, files
  <1>2. hashcache' \in Table \cup {None}
    BY DEF TypeOK
  <1>3. hashcache' # None => \A f \in Path :
          Honest(hashcache'[f], stat[f], content[f], Raced(Proc, f, hashcache[f].stat)')
    BY <1>1 DEF TablesHonest, Raced
  <1> QED
    BY <1>2, <1>3, ExitedInv

\* store_cache truncates the file first, and an unreadable file says nothing.
LEMMA StoreInv == ASSUME Inv, NEW p \in Proc, store_cache(p) PROVE Inv'
  <1> USE DEF Inv
  <1>1. CASE Exited(p) /\ UNCHANGED hashcache
    BY <1>1, UnchangedHashcache
  <1>2. CASE /\ csdict[p] # None /\ p \notin release
             /\ hashcache' = None
             /\ Goto(p, "store")
             /\ UNCHANGED <<files, csdict, release, job, begun, sum, answer, raced>>
    <2>1. TypeOK'
      BY <1>2 DEF TypeOK, Goto, files
    <2>2. /\ step'[p] = "store" /\ \A q \in Proc : q # p => step'[q] = step[q]
      BY <1>2 DEF TypeOK, Goto
    <2>3. StepsOK'
      BY <1>2, <2>2 DEF StepsOK
    <2>4. ReadsHonest'
      BY <1>2, <2>2 DEF ReadsHonest, files
    <2>5. \A q \in Proc : Blame(q)' = Blame(q)
      BY <1>2 DEF Blame
    <2>6. TablesHonest' /\ AnswersHonest'
      BY <1>2, <2>5 DEF TablesHonest, AnswersHonest, Raced, files
    <2> QED
      BY <2>1, <2>3, <2>4, <2>6
  <1> QED
    BY <1>1, <1>2 DEF store_cache

\* store_cache writes only what is in the table of an invocation that is not
\* in release mode.
LEMMA StoreWriteInv == ASSUME Inv, NEW p \in Proc, store_cache_write(p) PROVE Inv'
  <1> USE DEF Inv
  <1>1. Exited(p) /\ UNCHANGED <<content, stat, release, raced>> /\ step[p] = "store"
    BY DEF store_cache_write, Exited, files
  <1>2. csdict[p] \in Table /\ csdict[p] # None /\ Blame(p) = Proc
    BY <1>1 DEF StepsOK, TypeOK, Blame
  <1>3. CASE hashcache' = None
    BY <1>1, <1>3, ExitedInv
  <1>4. ASSUME NEW k, hashcache' = [f \in Path |-> IF f \in k THEN csdict[p][f] ELSE NoEntry]
        PROVE  Inv'
    <2>1. hashcache' \in Table
      BY <1>2, <1>4, EmptyTable DEF Table
    <2>2. ASSUME NEW f \in Path
          PROVE  Honest(hashcache'[f], stat[f], content[f], Raced(Proc, f, hashcache[f].stat)')
      <3>1. CASE hashcache'[f] = NoEntry
        <4>1. stat[f] \in 1 .. MaxStat
          BY DEF TypeOK
        <4> QED
          BY <3>1, <4>1 DEF Honest, NoEntry
      <3>2. CASE hashcache'[f] = csdict[p][f]
        <4>1. Honest(csdict[p][f], stat[f], content[f], Raced(Proc, f, csdict[p][f].stat))
          BY <1>2 DEF TablesHonest
        <4> QED
          BY <1>1, <3>2, <4>1 DEF Raced
      <3> QED
        BY <1>4, <3>1, <3>2
    <2> QED
      BY <1>1, <2>1, <2>2, ExitedInv
  <1> QED
    BY <1>3, <1>4 DEF store_cache_write

\* edit: the file has a stat that no entry has.
LEMMA EditInv == ASSUME Inv, NEW f \in Path, edit(f) PROVE Inv'
  <1> USE DEF Inv
  <1>1. /\ UNCHANGED <<hashcache, csdict, release, step, job, begun, sum, answer, raced>>
        /\ stat[f] < MaxStat /\ stat' = [stat EXCEPT ![f] = @ + 1]
    BY DEF edit
  <1>2. /\ stat' \in [Path -> 1 .. MaxStat]
        /\ content' \in [Path -> Data \cup {Absent}]
    BY DEF edit, TypeOK
  <1>3. \A g \in Path : \/ stat'[g] = stat[g] /\ content'[g] = content[g]
                        \/ stat'[g] = stat[g] + 1
    BY DEF edit, TypeOK
  <1>4. TypeOK'
    BY <1>1, <1>2 DEF TypeOK
  <1>5. StepsOK'
    BY <1>1 DEF StepsOK
  <1>6. ReadsHonest'
    <2> SUFFICES ASSUME NEW p \in Proc, step[p] \in {"read", "insert"}
                 PROVE  /\ begun[p].stat <= stat'[job[p].file]
                        /\ begun[p].stat = stat'[job[p].file] =>
                              begun[p].data = content'[job[p].file]
                        /\ step[p] = "insert" /\ begun[p].stat = stat'[job[p].file] =>
                              sum[p] = <<content'[job[p].file], content'[job[p].file]>>
      BY <1>1 DEF ReadsHonest
    <2>1. job[p].file \in Path /\ begun[p].stat \in 1 .. MaxStat
      BY DEF StepsOK, TypeOK, Job, Begun
    <2>2. stat[job[p].file] \in 1 .. MaxStat
      BY <2>1 DEF TypeOK
    <2>3. begun[p].stat <= stat[job[p].file]
      BY DEF ReadsHonest
    <2>4. CASE stat'[job[p].file] = stat[job[p].file] /\ content'[job[p].file] = content[job[p].file]
      BY <2>4 DEF ReadsHonest
    <2>5. CASE stat'[job[p].file] = stat[job[p].file] + 1
      BY <2>1, <2>2, <2>3, <2>5
    <2> QED
      BY <1>3, <2>1, <2>4, <2>5
  <1>7. ASSUME NEW e \in Entry, NEW g \in Path, NEW b \in BOOLEAN,
               Honest(e, stat[g], content[g], b)
        PROVE  Honest(e, stat'[g], content'[g], b)
    <2>1. e.stat \in 0 .. MaxStat /\ stat[g] \in 1 .. MaxStat
      BY DEF Entry, TypeOK
    <2> QED
      BY <1>3, <1>7, <2>1 DEF Honest
  <1>8. \A q \in Proc : Blame(q)' = Blame(q)
    BY <1>1 DEF Blame
  <1>9. ASSUME hashcache # None, NEW g \in Path
        PROVE  Honest(hashcache[g], stat'[g], content'[g], Raced(Proc, g, hashcache[g].stat))
    <2>1. hashcache[g] \in Entry /\ Raced(Proc, g, hashcache[g].stat) \in BOOLEAN
      BY <1>9 DEF TypeOK, Table, Raced
    <2> QED
      BY <1>7, <1>9, <2>1 DEF TablesHonest
  <1>10. ASSUME NEW p \in Proc, csdict[p] # None, NEW g \in Path
         PROVE  Honest(csdict[p][g], stat'[g], content'[g],
                       Raced(Blame(p), g, csdict[p][g].stat))
    <2>1. csdict[p][g] \in Entry /\ Raced(Blame(p), g, csdict[p][g].stat) \in BOOLEAN
      BY <1>10 DEF TypeOK, Table, Raced
    <2> QED
      BY <1>7, <1>10, <2>1 DEF TablesHonest
  <1>11. TablesHonest'
    BY <1>1, <1>8, <1>9, <1>10 DEF TablesHonest, Raced
  <1>12. AnswersHonest'
    BY <1>1, <1>8 DEF AnswersHonest, Raced
  <1> QED
    BY <1>4, <1>5, <1>6, <1>11, <1>12

\* Every step of every invocation, and every edit, keeps the invariant.
THEOREM Invariance == Spec => []Inv
  <1>1. ASSUME Inv, [Next]_vars PROVE Inv'
    <2>1. CASE UNCHANGED vars
      <3>1. TypeOK'
        BY <1>1, <2>1 DEF vars, files, Inv, TypeOK
      <3>2. StepsOK' /\ ReadsHonest'
        BY <1>1, <2>1 DEF vars, files, Inv, StepsOK, ReadsHonest
      <3>3. TablesHonest' /\ AnswersHonest'
        BY <1>1, <2>1, QuietTables DEF vars, files
      <3> QED
        BY <3>1, <3>2, <3>3 DEF Inv
    <2>2. ASSUME NEW p \in Proc, kill(p) PROVE Inv'
      BY <1>1, <2>2, UnchangedHashcache DEF kill
    <2> QED
      BY <1>1, <2>1, <2>2, StartInv, OnceInv, ComputeInv, ReadInv, InsertInv, StoreInv,
         StoreWriteInv, EditInv DEF Next
  <1> QED
    BY <1>1, InitInv, PTL DEF Spec

\* The state of the invocations and the tables stay well-formed, for any
\* number of invocations, files and edits.
THEOREM TypeCorrect == Spec => []TypeOK
  BY Invariance, PTL DEF Inv

\* A checksum that lookup() returns is the one of the file, unless the file
\* was changed during a computation.
THEOREM AnswersAreTrue == Spec => []AnswersTrue
  <1>1. Inv => AnswersTrue
    <2>1. Inv => \A p \in Proc : Blame(p) \subseteq Proc
      BY DEF Inv, TypeOK, Blame
    <2> QED
      BY <2>1 DEF Inv, AnswersHonest, AnswersTrue, Raced
  <1> QED
    BY <1>1, Invariance, PTL

\* In release mode, only the invocation's own computations can mislead it.
THEOREM ReleaseIsOnItsOwn == Spec => []ReleaseOnItsOwn
  <1>1. Inv => ReleaseOnItsOwn
    BY DEF Inv, TypeOK, AnswersHonest, ReleaseOnItsOwn, Blame
  <1> QED
    BY <1>1, Invariance, PTL
====
