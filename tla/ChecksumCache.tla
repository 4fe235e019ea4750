--------------------------- MODULE ChecksumCache ---------------------------
(***************************************************************************)
(* The checksum cache of a project (local/cscache.lua) as the checksum     *)
(* functions use it (local/digest.lua).  Invocations of the tools in one   *)
(* project run one after the other or at the same time, and share the file *)
(* .e2/hashcache.  Files are edited, removed and made again while they do. *)
(*                                                                         *)
(* A file has two halves that are read one after the other, and a checksum *)
(* is the pair of what was read, so that equal checksums mean equal data.  *)
(* What stat() says about a file is a number, and every change of the file *)
(* takes a new one (ctime and mtime have nanoseconds).                     *)
(***************************************************************************)
EXTENDS Naturals, FiniteSets

CONSTANTS
    Proc,       \* invocations
    Path,       \* files
    Temp,       \* the ones with "/e2tmp." in their path
    Data,       \* what a half of a file may hold
    MaxStore,   \* entries that store_cache() writes (1001 in the code)
    MaxStat,    \* bound: changes of a file
    Absent,     \* instead of data: there is no such file
    None        \* instead of a table, an entry of it, or a checksum

Digest == {"sha1", "sha256"}
Sum == Data \X Data

Entry == [stat : 0 .. MaxStat, sums : [Digest -> Sum \cup {None}]]

NoEntry == [stat |-> 0, sums |-> [d \in Digest |-> None]]

Table == [Path -> Entry]

Empty == [f \in Path |-> NoEntry]

Job == [file : Path, digest : Digest]
Begun == [stat : 1 .. MaxStat, data : Data]
Answer == [file : Path, stat : 1 .. MaxStat, sum : Sum, data : Data]

ASSUME ChecksumAssumption ==
    /\ Temp \subseteq Path
    /\ Absent \notin Data
    /\ None \notin Table /\ None \notin Sum
    /\ None \notin Job /\ None \notin Begun /\ None \notin Answer
    /\ MaxStore \in Nat
    /\ MaxStat \in Nat \ {0}

VARIABLES
    content,    \* content[f]: the data of f, or Absent
    stat,       \* stat[f]: what stat() returns
    hashcache,  \* the table in .e2/hashcache, or None if it cannot be loaded
    csdict,     \* csdict[p]: the table of an invocation, or None
    release,    \* invocations in release mode
    step,       \* step[p]: where an invocation is
    job,        \* job[p]: the file and the digest it wants
    begun,      \* begun[p]: stat and data of the file when it was opened
    sum,        \* sum[p]: the checksum that was computed
    answer,     \* answer[p]: what the last lookup found, and the data it is for
    raced       \* raced[p]: what was changed while p computed its checksum

files == <<content, stat>>
vars == <<files, hashcache, csdict, release, step, job, begun, sum, answer, raced>>

Init ==
    /\ content \in [Path -> Data \cup {Absent}]
    /\ stat = [f \in Path |-> 1]
    /\ hashcache = None
    /\ csdict = [p \in Proc |-> None]
    /\ release = {}
    /\ step = [p \in Proc |-> "exited"]
    /\ job = [p \in Proc |-> None]
    /\ begun = [p \in Proc |-> None]
    /\ sum = [p \in Proc |-> None]
    /\ answer = [p \in Proc |-> None]
    /\ raced = [p \in Proc |-> {}]

Goto(p, s) == step' = [step EXCEPT ![p] = s]

-----------------------------------------------------------------------------
start(p) ==
    /\ step[p] = "exited"
    /\ Goto(p, "ready")
    /\ release' \in {release \cup {p}, release \ {p}}
    /\ UNCHANGED <<files, hashcache, csdict, job, begun, sum, answer, raced>>

\* Nothing is left of a computation, or of an invocation.
JobDone(p) ==
    /\ job' = [job EXCEPT ![p] = None]
    /\ begun' = [begun EXCEPT ![p] = None]
    /\ sum' = [sum EXCEPT ![p] = None]

Exited(p) ==
    /\ Goto(p, "exited")
    /\ JobDone(p)
    /\ csdict' = [csdict EXCEPT ![p] = None]
    /\ answer' = [answer EXCEPT ![p] = None]
    /\ UNCHANGED <<files, release, raced>>

\* Fault: release mode loads the table as well.
load_cache_always(p) ==
    IF csdict[p] # None THEN csdict[p]
    ELSE IF hashcache = None THEN Empty ELSE hashcache

\* The table of p, which the first lookup loads.
load_cache(p) ==
    IF csdict[p] # None THEN csdict[p]
    ELSE IF p \in release \/ hashcache = None THEN Empty ELSE hashcache

\* lookup() in the table t: the file is there and unchanged.
Found(t, f, d) ==
    /\ t[f].sums[d] # None
    /\ content[f] # Absent
    /\ t[f].stat = stat[f]

\* The table after it: an entry that does not match is dropped.
AfterLookup(t, f, d) ==
    IF t[f].sums[d] = None \/ Found(t, f, d) THEN t
    ELSE [t EXCEPT ![f] = NoEntry]

\* compute_sha1_checksum_once() and its twin for sha256, up to the lookup.
compute_checksum_once(p) ==
    /\ step[p] = "ready"
    /\ \E f \in Path, d \in Digest :
          LET t == load_cache(p) IN
          /\ csdict' = [csdict EXCEPT ![p] = AfterLookup(t, f, d)]
          /\ \/ /\ Found(t, f, d)
                /\ answer' = [answer EXCEPT ![p] =
                                 [file |-> f, stat |-> stat[f], sum |-> t[f].sums[d],
                                  data |-> content[f]]]
                /\ UNCHANGED <<step, job>>
             \/ /\ ~ Found(t, f, d)
                /\ answer' = [answer EXCEPT ![p] = None]
                /\ job' = [job EXCEPT ![p] = [file |-> f, digest |-> d]]
                /\ Goto(p, "compute")
    /\ UNCHANGED <<files, hashcache, release, begun, sum, raced>>

\* compute_sha1_checksum(): a file that cannot be opened is an error.
compute_checksum(p) ==
    /\ step[p] = "compute"
    /\ LET f == job[p].file IN
       \/ /\ content[f] = Absent
          /\ Goto(p, "ready")
          /\ JobDone(p)
       \/ /\ content[f] # Absent
          /\ begun' = [begun EXCEPT ![p] = [stat |-> stat[f], data |-> content[f]]]
          /\ Goto(p, "read")
          /\ UNCHANGED <<job, sum>>
    /\ UNCHANGED <<files, hashcache, csdict, release, answer, raced>>

\* Fault: the end of a file that was removed is taken for its data.
read_removed(p) ==
    /\ step[p] = "read"
    /\ sum' = [sum EXCEPT ![p] = <<begun[p].data, content[job[p].file]>>]
    /\ Goto(p, "insert")
    /\ UNCHANGED <<files, hashcache, csdict, release, job, begun, answer, raced>>

\* The rest of the file; one that was removed is still read to its end.
read(p) ==
    /\ step[p] = "read"
    /\ LET c == content[job[p].file]
           rest == IF c = Absent THEN begun[p].data ELSE c
       IN  sum' = [sum EXCEPT ![p] = <<begun[p].data, rest>>]
    /\ Goto(p, "insert")
    /\ UNCHANGED <<files, hashcache, csdict, release, job, begun, answer, raced>>

Other(d) == CHOOSE e \in Digest : e # d

\* Fault: the other digest is kept without a look at the file.
OtherSum_kept(t, f, d) == t[f].sums[Other(d)]

\* The checksum of the other digest, which the entry keeps.
OtherSum(t, f, d) ==
    IF Found(t, f, Other(d)) THEN t[f].sums[Other(d)] ELSE None

\* The entry gets the checksum of what was read and the stat of now.
insert(p) ==
    /\ step[p] = "insert"
    /\ LET f == job[p].file
           d == job[p].digest
           t == csdict[p]
       IN  \/ /\ content[f] = Absent
              /\ csdict' = [csdict EXCEPT ![p] = AfterLookup(t, f, Other(d))]
              /\ UNCHANGED raced
           \/ /\ content[f] # Absent
              /\ csdict' = [csdict EXCEPT ![p] = [t EXCEPT ![f] =
                     [stat |-> stat[f],
                      sums |-> [e \in Digest |->
                                   IF e = d THEN sum[p] ELSE OtherSum(t, f, d)]]]]
              /\ raced' = [raced EXCEPT ![p] =
                     @ \cup {<<f, s>> : s \in {stat[f]} \ {begun[p].stat}}]
    /\ Goto(p, "ready")
    /\ JobDone(p)
    /\ UNCHANGED <<files, hashcache, release, answer>>

-----------------------------------------------------------------------------
\* store_cache(), which load_cache() registers for the end of an invocation
\* that is not in release mode: opening the file truncates it.
store_cache(p) ==
    /\ step[p] = "ready"
    /\ \/ /\ csdict[p] = None \/ p \in release
          /\ Exited(p)
          /\ UNCHANGED hashcache
       \/ /\ csdict[p] # None /\ p \notin release
          /\ hashcache' = None
          /\ Goto(p, "store")
          /\ UNCHANGED <<files, csdict, release, job, begun, sum, answer, raced>>

\* The entries that are worth keeping: not of temporary files, and if there
\* are too many of them, the ones used last.
Kept(t) ==
    LET known == {f \in Path \ Temp : t[f] # NoEntry} IN
    IF Cardinality(known) <= MaxStore THEN {known}
    ELSE {k \in SUBSET known : Cardinality(k) = MaxStore}

\* The file is written, or what comes out cannot be loaded: a full disk, or
\* two invocations that write at the same time.
store_cache_write(p) ==
    /\ step[p] = "store"
    /\ \/ \E k \in Kept(csdict[p]) :
             hashcache' = [f \in Path |-> IF f \in k THEN csdict[p][f] ELSE NoEntry]
       \/ hashcache' = None
    /\ Exited(p)

kill(p) ==
    /\ step[p] # "exited"
    /\ Exited(p)
    /\ UNCHANGED hashcache

\* Someone edits, removes or makes a file.
edit(f) ==
    /\ stat[f] < MaxStat
    /\ stat' = [stat EXCEPT ![f] = @ + 1]
    /\ content' \in {[content EXCEPT ![f] = c] : c \in Data \cup {Absent}}
    /\ UNCHANGED <<hashcache, csdict, release, step, job, begun, sum, answer, raced>>

Next ==
    \/ \E p \in Proc :
          \/ start(p) \/ compute_checksum_once(p) \/ compute_checksum(p) \/ read(p)
          \/ insert(p) \/ store_cache(p) \/ store_cache_write(p) \/ kill(p)
    \/ \E f \in Path : edit(f)

Spec == Init /\ [][Next]_vars

-----------------------------------------------------------------------------
TypeOK ==
    /\ content \in [Path -> Data \cup {Absent}]
    /\ stat \in [Path -> 1 .. MaxStat]
    /\ hashcache \in Table \cup {None}
    /\ csdict \in [Proc -> Table \cup {None}]
    /\ release \subseteq Proc
    /\ step \in [Proc -> {"exited", "ready", "compute", "read", "insert", "store"}]
    /\ job \in [Proc -> Job \cup {None}]
    /\ begun \in [Proc -> Begun \cup {None}]
    /\ sum \in [Proc -> Sum \cup {None}]
    /\ answer \in [Proc -> Answer \cup {None}]
    /\ raced \in [Proc -> SUBSET (Path \X (1 .. MaxStat))]

\* The file was changed while an invocation of Q computed its checksum.
Raced(Q, f, s) == \E q \in Q : <<f, s>> \in raced[q]

\* A checksum from the cache is the one of the file as it is, across edits,
\* invocations, kills and concurrent writers of .e2/hashcache, unless the file
\* was changed while its checksum was computed (cs_cache_class:lookup).
AnswersTrue ==
    \A p \in Proc : answer[p] # None =>
        \/ answer[p].sum = <<answer[p].data, answer[p].data>>
        \/ Raced(Proc, answer[p].file, answer[p].stat)

\* "Does not populate the cache in release mode": what is wrong in the tables
\* of other invocations does not reach an invocation in release mode.
ReleaseOnItsOwn ==
    \A p \in release : answer[p] # None =>
        \/ answer[p].sum = <<answer[p].data, answer[p].data>>
        \/ Raced({p}, answer[p].file, answer[p].stat)
====
