------------------------ MODULE ResultStorageProofs ------------------------
(***************************************************************************)
(* Proofs about ResultStorage, for any set of users with any caches, any   *)
(* transports and any list of files: a release with checksums is whole, no *)
(* stored file is partial, a build that succeeded has stored what it       *)
(* built, and the release of a single user is of one build.                *)
(***************************************************************************)
EXTENDS ResultStorage, TLAPS, SequenceTheorems

PushSteps == {"push_cache", "link_cache", "push_server", "link_server", "scp_server"}

ServerSteps == {"push_server", "link_server", "scp_server"}

\* What c pushes ends up on server s.
Reaches(c, s) == s \in opts[c].writeback \/ s \notin CacheOn[c]

\* The files before f in the list are on the server.
Before(f) ==
    \A i, j \in DOMAIN DeployList :
        f = DeployList[i] /\ j < i => server[DeployList[j]] # Absent

\* What an invocation has done so far when it is in a step.
Progress(c) ==
    /\ at[c][1] \in PushSteps \cup {"helper_deploy"} => built[c] # 0
    /\ at[c][1] \in {"push_cache", "link_cache"} => ServerOf(FileOf(c)) \in CacheOn[c]
    /\ at[c][1] \in ServerSteps =>
          /\ Reaches(c, ServerOf(FileOf(c)))
          /\ ServerOf(FileOf(c)) \in CacheOn[c] => cached[c][FileOf(c)] = built[c]
    /\ at[c][1] \in PushSteps /\ Reaches(c, "releases") => Before(FileOf(c))
    /\ at[c][1] = "link_server" => Hardlinks(FileOf(c))

IInv == TypeOK /\ ReleaseComplete /\ \A c \in Client : Progress(c)

-----------------------------------------------------------------------------
\* The list ends with checksums, and none of its files is a result.tar.
LEMMA DeployFacts ==
    /\ Len(DeployList) \in Nat /\ Len(DeployList) >= 1
    /\ DOMAIN DeployList = 1 .. Len(DeployList)
    /\ DeployList[Len(DeployList)] = "checksums"
    /\ \A i \in DOMAIN DeployList : DeployList[i] = "checksums" => i = Len(DeployList)
    /\ \A i, j \in DOMAIN DeployList : DeployList[i] = DeployList[j] => i = j
    /\ ReleaseFile \subseteq File /\ "result.tar" \in File
    /\ "checksums" \in ReleaseFile
    /\ \A i \in DOMAIN DeployList : DeployList[i] \in ReleaseFile
    /\ \A f \in ReleaseFile : f # "result.tar" /\ ServerOf(f) = "releases" /\ ~Hardlinks(f)
  <1> DEFINE A == STRING \ {"result.tar", "checksums"}
             S == A \cup {"checksums"}
             n == Len(Files)
  <1>1. n \in Nat /\ DOMAIN Files = 1 .. n /\ \A i \in 1 .. n : Files[i] \in A
    BY StorageAssumption, LenProperties, ElementOfSeq
  <1>2. Files \in Seq(S)
    BY <1>1, StorageAssumption, SeqDef
  <1>3. /\ DeployList \in Seq(S) /\ Len(DeployList) = n + 1
        /\ \A i \in 1 .. n : DeployList[i] = Files[i]
        /\ DeployList[n + 1] = "checksums"
    BY <1>2, AppendProperties DEF DeployList
  <1>4. DOMAIN DeployList = 1 .. n + 1
    BY <1>3, LenProperties
  <1>5. \A i \in 1 .. n + 1 : DeployList[i] # "result.tar"
    BY <1>1, <1>3
  <1>6. \A i \in 1 .. n + 1 : i # n + 1 => DeployList[i] # "checksums"
    BY <1>1, <1>3
  <1>7. \A i, j \in 1 .. n + 1 : DeployList[i] = DeployList[j] => i = j
    <2>1. \A i, j \in 1 .. n : Files[i] = Files[j] => i = j
      BY <1>1, StorageAssumption
    <2>2. \A i, j \in 1 .. n : DeployList[i] = DeployList[j] => i = j
      BY <1>3, <2>1
    <2>3. \A i \in 1 .. n + 1 : i = n + 1 \/ i \in 1 .. n
      BY <1>1
    <2> HIDE DEF A, S, n
    <2>4. QED
      BY <1>3, <1>6, <2>2, <2>3
  <1>8. \A f \in ReleaseFile : f # "result.tar"
    BY <1>4, <1>5 DEF ReleaseFile
  <1>9. n + 1 \in DOMAIN DeployList
    BY <1>1, <1>4
  <1> HIDE DEF A, S, n
  <1>10. QED
    BY <1>1, <1>3, <1>4, <1>6, <1>7, <1>8, <1>9
    DEF ReleaseFile, File, ServerOf, Hardlinks, TryHardlink, n

\* Nothing is stored, deployed or on its way.
LEMMA InitIInv == Init => IInv
  <1>1. SUFFICES ASSUME Init PROVE IInv
    OBVIOUS
  <1>2. "result.tar" \in File /\ Absent \in Content /\ 0 \in 0 .. MaxBuild /\ "idle" \in Steps
    BY DeployFacts, StorageAssumption DEF Absent, Content, Partial, Steps
  <1>3. /\ [force |-> FALSE, writeback |-> {}] \in Options
        /\ NoTmpfile \in [of : Content, whole : BOOLEAN]
    BY <1>2 DEF Options, NoTmpfile
  <1>4. TypeOK
    BY <1>1, <1>2, <1>3, Zenon DEF Init, TypeOK
  <1>5. ReleaseComplete
    BY <1>1, DeployFacts DEF Init, ReleaseComplete
  <1>6. ASSUME NEW c \in Client PROVE Progress(c)
    BY <1>1 DEF Init, Progress, PushSteps, ServerSteps
  <1>7. QED
    BY <1>4, <1>5, <1>6 DEF IInv

-----------------------------------------------------------------------------
(* Facts about the steps.                                                  *)

\* What is on the release server stays there.
Kept == \A f \in ReleaseFile : server[f] # Absent => server'[f] # Absent

\* An invocation is not disturbed by what another one does.
LEMMA OthersProgress ==
    ASSUME IInv, NEW d \in Client, Kept, at'[d] = at[d], opts'[d] = opts[d],
           built'[d] = built[d], cached'[d] = cached[d]
    PROVE  Progress(d)'
  <1>1. \A f : Before(f) => Before(f)'
    BY DeployFacts DEF Kept, Before
  <1>2. Reaches(d, "releases")' <=> Reaches(d, "releases")
    BY DEF Reaches
  <1>3. Progress(d)
    BY DEF IInv
  <1>4. QED
    BY <1>1, <1>2, <1>3 DEF Progress, FileOf, Reaches, Hardlinks

\* A user who goes on changes no other user.
LEMMA GotoFacts ==
    ASSUME IInv, NEW c \in Client, NEW s \in Steps, NEW f \in File, Goto(c, s, f)
    PROVE  /\ at' \in [Client -> Steps \X File]
           /\ \A d \in Client : d # c => at'[d] = at[d]
           /\ at'[c] = <<s, f>>
  BY DEF IInv, TypeOK, Goto

\* A push starts in the cache if there is one, on the server if not.
LEMMA PushStartFacts ==
    ASSUME IInv, NEW c \in Client, NEW f \in File, PushStart(c, f)
    PROVE  /\ at' \in [Client -> Steps \X File]
           /\ \A d \in Client : d # c => at'[d] = at[d]
           /\ \/ at'[c] = <<"push_cache", f>> /\ ServerOf(f) \in CacheOn[c]
              \/ at'[c] = <<"push_server", f>> /\ ServerOf(f) \notin CacheOn[c]
  <1>1. "push_cache" \in Steps /\ "push_server" \in Steps
    BY DEF Steps
  <1>2. CASE ServerOf(f) \in CacheOn[c]
    <2>1. Goto(c, "push_cache", f)
      BY <1>2 DEF PushStart
    <2>2. QED
      BY <1>1, <1>2, <2>1, GotoFacts
  <1>3. CASE ServerOf(f) \notin CacheOn[c]
    <2>1. Goto(c, "push_server", f)
      BY <1>3 DEF PushStart
    <2>2. QED
      BY <1>1, <1>3, <2>1, GotoFacts
  <1>4. QED
    BY <1>2, <1>3

\* Outside of a push nothing is known of an invocation.
LEMMA QuietProgress ==
    ASSUME NEW c \in Client, NEW f,
           \/ at'[c] = <<"idle", f>> \/ at'[c] = <<"success", f>>
           \/ at'[c] = <<"result_available", f>> \/ at'[c] = <<"build", f>>
           \/ at'[c] = <<"linklast", f>> \/ at'[c] = <<"fetch", f>> \/ at'[c] = <<"rename", f>>
    PROVE  Progress(c)'
  BY DEF Progress, PushSteps, ServerSteps

\* The start of a push, with the files before f on the server.
LEMMA PushStartProgress ==
    ASSUME IInv, NEW c \in Client, NEW f \in File, PushStart(c, f),
           built'[c] # 0, Reaches(c, "releases")' => Before(f)'
    PROVE  Progress(c)'
  <1>1. CASE at'[c] = <<"push_cache", f>> /\ ServerOf(f) \in CacheOn[c]
    BY <1>1 DEF Progress, PushSteps, ServerSteps, FileOf
  <1>2. CASE at'[c] = <<"push_server", f>> /\ ServerOf(f) \notin CacheOn[c]
    BY <1>2 DEF Progress, PushSteps, ServerSteps, FileOf, Reaches
  <1>3. QED
    BY <1>1, <1>2, PushStartFacts

\* The end of a push: the file has reached the server, if files get there.
LEMMA PushDoneProgress ==
    ASSUME IInv, NEW c \in Client, NEW f \in File, PushDone(c, f), built'[c] # 0,
           Reaches(c, "releases")' /\ f \in ReleaseFile =>
               Before(f)' /\ server'[f] # Absent
    PROVE  /\ at' \in [Client -> Steps \X File]
           /\ \A d \in Client : d # c => at'[d] = at[d]
           /\ Progress(c)'
  <1>1. CASE Goto(c, "helper_deploy", f)
    <2>1. "helper_deploy" \in Steps
      BY DEF Steps
    <2>2. QED
      BY <1>1, <2>1, GotoFacts DEF Progress, PushSteps, ServerSteps
  <1>2. CASE Goto(c, "linklast", "result.tar")
    <2>1. "linklast" \in Steps /\ "result.tar" \in File
      BY DeployFacts DEF Steps
    <2>2. QED
      BY <1>2, <2>1, GotoFacts, QuietProgress, Zenon
  <1>3. ASSUME NEW i \in DOMAIN DeployList, f = DeployList[i], i < Len(DeployList),
               PushStart(c, DeployList[i + 1])
        PROVE  /\ at' \in [Client -> Steps \X File]
               /\ \A d \in Client : d # c => at'[d] = at[d]
               /\ Progress(c)'
    <2>1. i + 1 \in DOMAIN DeployList /\ DeployList[i + 1] \in File /\ f \in ReleaseFile
      BY <1>3, DeployFacts
    <2>2. Reaches(c, "releases")' => Before(DeployList[i + 1])'
      <3>1. SUFFICES ASSUME Reaches(c, "releases")',
                            NEW k \in DOMAIN DeployList, NEW j \in DOMAIN DeployList,
                            DeployList[i + 1] = DeployList[k], j < k
                     PROVE  server'[DeployList[j]] # Absent
        BY DEF Before, Absent
      <3>2. k = i + 1
        BY <2>1, <3>1, DeployFacts
      <3>3. j < i \/ j = i
        BY <3>1, <3>2, DeployFacts
      <3>4. QED
        BY <1>3, <2>1, <3>1, <3>3 DEF Before, Absent
    <2>3. QED
      BY <1>3, <2>1, <2>2, PushStartFacts, PushStartProgress
  <1>4. QED
    BY <1>1, <1>2, <1>3 DEF PushDone

-----------------------------------------------------------------------------
(* The steps that write to a cache or to a server.                         *)

\* The file of a step is one of the files; a build has a number.
LEMMA StepFacts ==
    ASSUME IInv, NEW c \in Client
    PROVE  /\ FileOf(c) \in File /\ built[c] \in Content
           /\ ServerOf(FileOf(c)) \in Server
           /\ FileOf(c) \notin ReleaseFile => FileOf(c) = "result.tar"
  BY StorageAssumption
  DEF IInv, TypeOK, FileOf, Content, Partial, ServerOf, Server, File

\* A push to the cache: the server comes next, or the push is done.
LEMMA PushCacheIInv ==
    ASSUME IInv, NEW c \in Client, push_cache(c) \/ link_cache(c)
    PROVE  IInv'
  <1> DEFINE f == FileOf(c)
  <1>1. /\ f \in File /\ built[c] # 0 /\ ServerOf(f) \in CacheOn[c]
        /\ Reaches(c, "releases") => Before(f)
        /\ UNCHANGED <<server, opts, built, tmpfile, builds>>
    BY StepFacts, Zenon DEF IInv, Progress, push_cache, link_cache, At, PushSteps
  <1>2. ASSUME NEW x \in Content, PutCache(c, f, x),
               at' \in [Client -> Steps \X File],
               \A d \in Client : d # c => at'[d] = at[d], Progress(c)'
        PROVE  IInv'
    <2>1. cached' \in [Client -> [File -> Content]] /\ \A d \in Client : d # c => cached'[d] = cached[d]
      BY <1>1, <1>2, Zenon DEF IInv, TypeOK, PutCache
    <2>2. TypeOK' /\ ReleaseComplete' /\ Kept
      BY <1>1, <1>2, <2>1 DEF IInv, TypeOK, ReleaseComplete, Kept
    <2>3. \A d \in Client : d # c => Progress(d)'
      BY <1>1, <1>2, <2>1, <2>2, OthersProgress, Zenon
    <2>4. QED
      BY <1>2, <2>2, <2>3 DEF IInv
  <1>3. CASE PutCache(c, f, Absent) /\ Goto(c, "link_cache", f)
    <2>1. "link_cache" \in Steps /\ Absent \in Content
      BY StorageAssumption DEF Steps, Absent, Content, Partial
    <2>2. /\ at' \in [Client -> Steps \X File] /\ at'[c] = <<"link_cache", f>>
          /\ \A d \in Client : d # c => at'[d] = at[d]
      BY <1>1, <1>3, <2>1, GotoFacts, Zenon
    <2>3. Progress(c)'
      BY <1>1, <2>2, SMTT(30) DEF Progress, PushSteps, ServerSteps, FileOf, Reaches, Before
    <2>4. QED
      BY <1>2, <1>3, <2>1, <2>2, <2>3
  <1>4. CASE PutCache(c, f, built[c]) /\ CacheDone(c, f)
    <2>1. built[c] \in Content /\ cached'[c][f] = built[c]
      BY <1>1, <1>4, StepFacts, Zenon DEF PutCache, IInv, TypeOK
    <2>2. CASE ServerOf(f) \in opts[c].writeback /\ Goto(c, "push_server", f)
      <3>1. "push_server" \in Steps
        BY DEF Steps
      <3>2. /\ at' \in [Client -> Steps \X File] /\ at'[c] = <<"push_server", f>>
            /\ \A d \in Client : d # c => at'[d] = at[d]
        BY <1>1, <2>2, <3>1, GotoFacts, Zenon
      <3>3. Progress(c)'
        BY <1>1, <2>1, <2>2, <3>2, SMTT(30)
        DEF Progress, PushSteps, ServerSteps, FileOf, Reaches, Before
      <3>4. QED
        BY <1>2, <1>4, <2>1, <3>2, <3>3, Zenon
    <2>3. CASE ServerOf(f) \notin opts[c].writeback /\ PushDone(c, f)
      <3>1. f \in ReleaseFile => ~ Reaches(c, "releases")'
        BY <1>1, <2>3, DeployFacts DEF Reaches
      <3>2. /\ at' \in [Client -> Steps \X File] /\ Progress(c)'
            /\ \A d \in Client : d # c => at'[d] = at[d]
        BY <1>1, <2>3, <3>1, PushDoneProgress, Zenon
      <3>3. QED
        BY <1>2, <1>4, <2>1, <3>2, Zenon
    <2>4. QED
      BY <1>4, <2>2, <2>3 DEF CacheDone
  <1>5. QED
    BY <1>3, <1>4 DEF push_cache, link_cache

\* A write to a server leaves no release without its files.
LEMMA ServerWrite ==
    ASSUME IInv, NEW c \in Client, at[c][1] \in ServerSteps, NEW x \in Content,
           PutServer(FileOf(c), x), FileOf(c) \in ReleaseFile => x # Absent
    PROVE  /\ server' \in [File -> Content] /\ ReleaseComplete' /\ Kept
           /\ server'[FileOf(c)] = x
  <1> DEFINE f == FileOf(c)
  <1>1. f \in File /\ Progress(c) /\ server \in [File -> Content]
    BY StepFacts DEF IInv, TypeOK
  <1>2. server' \in [File -> Content] /\ server'[f] = x /\ \A g \in File : g # f => server'[g] = server[g]
    BY <1>1, Zenon DEF PutServer
  <1>3. Kept
    BY <1>2, DeployFacts DEF Kept
  <1>4. CASE f # "checksums"
    BY <1>2, <1>3, <1>4, DeployFacts DEF IInv, ReleaseComplete, Kept
  <1>5. CASE f = "checksums"
    <2>1. Reaches(c, "releases") /\ f \in ReleaseFile
      <3>1. f \in ReleaseFile /\ ServerOf(f) = "releases"
        BY <1>5, DeployFacts, Zenon
      <3>2. Reaches(c, ServerOf(f))
        BY <1>1, Zenon DEF Progress
      <3>3. QED
        BY <3>1, <3>2
    <2>2. Before(f)
      BY <1>1, <2>1, Zenon DEF Progress, PushSteps, ServerSteps
    <2>3. \A g \in ReleaseFile : g # f => server[g] # Absent
      <3>1. SUFFICES ASSUME NEW j \in DOMAIN DeployList, DeployList[j] # f
                     PROVE  server[DeployList[j]] # Absent
        BY DEF ReleaseFile
      <3>2. Len(DeployList) \in DOMAIN DeployList /\ f = DeployList[Len(DeployList)] /\ j < Len(DeployList)
        BY <1>5, <3>1, DeployFacts
      <3>3. QED
        BY <2>2, <3>2 DEF Before
    <2>4. \A g \in ReleaseFile : server'[g] # Absent
      BY <1>2, <2>1, <2>3, DeployFacts, Zenon
    <2>5. QED
      BY <2>4, <1>2, <1>3 DEF ReleaseComplete, Absent
  <1>6. QED
    BY <1>2, <1>3, <1>4, <1>5

\* What is pushed to a server comes from a build.
LEMMA SourceFacts ==
    ASSUME IInv, NEW c \in Client, at[c][1] \in ServerSteps
    PROVE  Source(c, FileOf(c)) = built[c] /\ built[c] # Absent
  <1>1. Progress(c)
    BY DEF IInv
  <1>2. QED
    BY <1>1, Zenon DEF Progress, ServerSteps, PushSteps, Source, Absent

\* The write of a file, and what the invocation does next.
LEMMA ServerWriteIInv ==
    ASSUME IInv, NEW c \in Client, at[c][1] \in ServerSteps, NEW f, f = FileOf(c),
           NEW x \in Content, PutServer(f, x), f \in ReleaseFile => x # Absent,
           UNCHANGED <<cached, opts, built, tmpfile, builds>>,
           \/ PushDone(c, f)
           \/ Goto(c, "link_server", f) /\ Hardlinks(f)
           \/ Goto(c, "scp_server", f)
    PROVE  IInv'
  <1>1. server' \in [File -> Content] /\ ReleaseComplete' /\ Kept /\ server'[f] = x
    BY ServerWrite, Zenon
  <1>2. /\ f \in File /\ built[c] # 0 /\ Reaches(c, ServerOf(f))
        /\ ServerOf(f) \in CacheOn[c] => cached[c][f] = built[c]
        /\ Reaches(c, "releases") => Before(f)
    <2>1. Progress(c) /\ at[c][1] \in PushSteps
      BY Zenon DEF IInv, ServerSteps, PushSteps
    <2>2. QED
      BY <2>1, StepFacts, Zenon DEF Progress
  <1>3. Before(f) => Before(f)'
    BY <1>1, DeployFacts, Zenon DEF Kept, Before
  <1>4. /\ at' \in [Client -> Steps \X File] /\ Progress(c)'
        /\ \A d \in Client : d # c => at'[d] = at[d]
    <2>1. CASE PushDone(c, f)
      <3>1. Reaches(c, "releases")' => Reaches(c, "releases")
        BY Zenon DEF Reaches
      <3>2. f \in ReleaseFile => server'[f] # Absent
        BY <1>1, Zenon
      <3>3. built'[c] # 0
        BY <1>2, Zenon
      <3>4. QED
        BY <1>2, <1>3, <2>1, <3>1, <3>2, <3>3, PushDoneProgress, Zenon
    <2>2. ASSUME NEW s \in {"link_server", "scp_server"}, Goto(c, s, f),
                 s = "link_server" => Hardlinks(f)
          PROVE  /\ at' \in [Client -> Steps \X File] /\ Progress(c)'
                 /\ \A d \in Client : d # c => at'[d] = at[d]
      <3>1. s \in Steps
        BY Zenon DEF Steps
      <3>2. /\ at' \in [Client -> Steps \X File] /\ at'[c] = <<s, f>>
            /\ \A d \in Client : d # c => at'[d] = at[d]
        BY <1>2, <2>2, <3>1, GotoFacts, Zenon
      <3>3. FileOf(c)' = f
        BY <3>2, SMTT(30) DEF FileOf
      <3>4. Progress(c)'
        <4>1. at'[c][1] = s /\ s \in ServerSteps /\ s \notin {"push_cache", "link_cache"}
          BY <3>2, SMTT(30) DEF ServerSteps
        <4>2. \A v \in Server : Reaches(c, v)' <=> Reaches(c, v)
          BY Zenon DEF Reaches
        <4>3. "releases" \in Server /\ ServerOf(f) \in Server
          BY Zenon DEF Server, ServerOf
        <4>4. /\ built'[c] # 0 /\ Reaches(c, ServerOf(f))'
              /\ ServerOf(f) \in CacheOn[c] => cached'[c][f] = built'[c]
              /\ Reaches(c, "releases")' => Before(f)'
          BY <1>2, <1>3, <4>2, <4>3, Zenon
        <4>5. QED
          BY <2>2, <3>3, <4>1, <4>4, Zenon DEF Progress
      <3>5. QED
        BY <3>2, <3>4
    <2>3. QED
      BY <2>1, <2>2, Zenon
  <1>5. TypeOK'
    BY <1>1, <1>4, Zenon DEF IInv, TypeOK
  <1>6. \A d \in Client : d # c => Progress(d)'
    BY <1>1, <1>4, OthersProgress, Zenon
  <1>7. QED
    BY <1>1, <1>4, <1>5, <1>6, Zenon DEF IInv

\* A push to a server, in one piece or in two.
LEMMA PushServerIInv ==
    ASSUME IInv, NEW c \in Client, push_server(c) \/ complete_push(c)
    PROVE  IInv'
  <1>1. at[c][1] \in ServerSteps /\ UNCHANGED <<cached, opts, built, tmpfile, builds>>
    BY Zenon DEF push_server, complete_push, At, ServerSteps
  <1> PICK f : f = FileOf(c)
    OBVIOUS
  <1>2. Absent \in Content /\ Partial \in Content /\ Partial # Absent
    BY StorageAssumption DEF Absent, Partial, Content
  <1>3. CASE /\ Hardlinks(f) /\ PutServer(f, Absent)
             /\ Goto(c, "link_server", f)
    <2>1. f \notin ReleaseFile
      BY <1>3, DeployFacts
    <2>2. QED
      BY <1>1, <1>2, <1>3, <2>1, ServerWriteIInv, Zenon
  <1>4. CASE PutServer(f, Source(c, f)) /\ PushDone(c, f)
    <2>1. Source(c, f) \in Content /\ Source(c, f) # Absent
      BY <1>1, SourceFacts, StepFacts, Zenon
    <2>2. QED
      BY <1>1, <1>4, <2>1, ServerWriteIInv, Zenon
  <1>5. CASE PutServer(f, Partial) /\ Goto(c, "scp_server", f)
    BY <1>1, <1>2, <1>5, ServerWriteIInv, Zenon
  <1>6. QED
    BY <1>3, <1>4, <1>5, Zenon DEF push_server, complete_push

-----------------------------------------------------------------------------
(* The steps that leave the servers alone.                                 *)

\* Whatever else an invocation does, it is not in a push afterwards.
LEMMA QuietStep ==
    ASSUME IInv, NEW c \in Client, UNCHANGED server, TypeOK', Progress(c)',
           \A d \in Client : d # c =>
               /\ at'[d] = at[d] /\ opts'[d] = opts[d]
               /\ built'[d] = built[d] /\ cached'[d] = cached[d]
    PROVE  IInv'
  <1>1. Kept /\ ReleaseComplete'
    BY DEF Kept, IInv, ReleaseComplete
  <1>2. \A d \in Client : d # c => Progress(d)'
    BY <1>1, OthersProgress, Zenon
  <1>3. QED
    BY <1>1, <1>2 DEF IInv

\* A new invocation forgets what the one before it built.
LEMMA StartIInv ==
    ASSUME IInv, NEW c \in Client, start(c)
    PROVE  IInv'
  <1>1. "result_available" \in Steps /\ "result.tar" \in File
    BY DeployFacts DEF Steps
  <1>2. PICK o \in Options : opts' = [opts EXCEPT ![c] = o]
    BY Zenon DEF start
  <1>3. /\ at' \in [Client -> Steps \X File] /\ at'[c] = <<"result_available", "result.tar">>
        /\ \A d \in Client : d # c => at'[d] = at[d]
    BY <1>1, GotoFacts, SMTT(30) DEF start
  <1>4. Progress(c)'
    BY <1>3, QuietProgress
  <1>5. /\ TypeOK' /\ UNCHANGED server
        /\ \A d \in Client : d # c =>
               /\ at'[d] = at[d] /\ opts'[d] = opts[d]
               /\ built'[d] = built[d] /\ cached'[d] = cached[d]
    <2>1. /\ built' = [built EXCEPT ![c] = 0] /\ tmpfile' = [tmpfile EXCEPT ![c] = NoTmpfile]
          /\ UNCHANGED <<server, cached, builds>>
      BY Zenon DEF start
    <2>2. 0 \in 0 .. MaxBuild /\ NoTmpfile \in [of : Content, whole : BOOLEAN]
      BY StorageAssumption DEF Absent, Partial, Content, NoTmpfile
    <2>3. TypeOK'
      BY <1>2, <1>3, <2>1, <2>2 DEF IInv, TypeOK
    <2>4. QED
      BY <1>2, <1>3, <2>1, <2>3, Zenon DEF IInv, TypeOK
  <1>6. QED
    BY <1>4, <1>5, QuietStep

\* A build ends with the first file to be pushed.
LEMMA BuildIInv ==
    ASSUME IInv, NEW c \in Client, build(c)
    PROVE  IInv'
  <1>1. /\ built' = [built EXCEPT ![c] = builds + 1] /\ builds' = builds + 1
        /\ builds + 1 \in 1 .. MaxBuild /\ built \in [Client -> 0 .. MaxBuild]
        /\ UNCHANGED <<server, cached, opts, tmpfile>>
    BY StorageAssumption, SMTT(30) DEF build, IInv, TypeOK
  <1>2. built' \in [Client -> 0 .. MaxBuild] /\ built'[c] # 0
        /\ \A d \in Client : d # c => built'[d] = built[d]
    BY <1>1, StorageAssumption, SMTT(30)
  <1>3. PushStart(c, "result.tar") /\ "result.tar" \in File
    BY DeployFacts DEF build
  <1>4. /\ at' \in [Client -> Steps \X File]
        /\ \A d \in Client : d # c => at'[d] = at[d]
    BY <1>3, PushStartFacts, Zenon
  <1>5. Before("result.tar")'
    BY DeployFacts, SMTT(30) DEF Before
  <1>6. Progress(c)'
    BY <1>2, <1>3, <1>5, PushStartProgress
  <1>7. TypeOK'
    BY <1>1, <1>2, <1>4, Zenon DEF IInv, TypeOK
  <1>8. QED
    BY <1>1, <1>2, <1>4, <1>6, <1>7, QuietStep, Zenon

\* helper_deploy goes on with the next file, or it has none to deploy.
LEMMA DeployIInv ==
    ASSUME IInv, NEW c \in Client, helper_deploy(c)
    PROVE  IInv'
  <1>1. UNCHANGED <<server, cached, opts, built, tmpfile, builds>> /\ built[c] # 0
    BY Zenon DEF helper_deploy, IInv, Progress, At
  <1>2. /\ at' \in [Client -> Steps \X File] /\ Progress(c)'
        /\ \A d \in Client : d # c => at'[d] = at[d]
    <2>1. CASE Goto(c, "linklast", "result.tar")
      <3>1. "linklast" \in Steps /\ "result.tar" \in File
        BY DeployFacts, Zenon DEF Steps
      <3>2. QED
        BY <2>1, <3>1, GotoFacts, QuietProgress, Zenon
    <2>2. CASE PushStart(c, DeployList[1])
      <3>1. 1 \in DOMAIN DeployList /\ DeployList[1] \in File
        BY DeployFacts
      <3>2. Before(DeployList[1])'
        BY <3>1, DeployFacts DEF Before
      <3>3. QED
        BY <1>1, <2>2, <3>1, <3>2, PushStartFacts, PushStartProgress, Zenon
    <2>3. QED
      BY <2>1, <2>2, Zenon DEF helper_deploy
  <1>3. QED
    BY <1>1, <1>2, QuietStep, Zenon DEF IInv, TypeOK

\* What a download reads and leaves is a content.
LEMMA TmpfileFacts ==
    ASSUME TypeOK, NEW c \in Client
    PROVE  Sent(c) \in Content /\ Received(c) \in Content
  <1>1. tmpfile[c] \in [of : Content, whole : BOOLEAN] /\ Partial \in Content
    BY StorageAssumption, SMTT(30) DEF TypeOK, Content, Partial
  <1>2. QED
    BY <1>1, SMTT(30) DEF Sent, Received

\* Steps that store nothing.
LEMMA QuietIInv ==
    ASSUME IInv, NEW c \in Client,
           result_available(c) \/ linklast(c) \/ fetch(c) \/ rename(c) \/ stop(c)
    PROVE  IInv'
  <1>1. PICK s \in {"build", "linklast", "success", "fetch", "rename", "idle"} :
            Goto(c, s, "result.tar")
    BY Zenon DEF result_available, linklast, fetch, rename, stop
  <1>2. s \in Steps /\ "result.tar" \in File
    BY DeployFacts, Zenon DEF Steps
  <1>3. /\ at' \in [Client -> Steps \X File] /\ at'[c] = <<s, "result.tar">>
        /\ \A d \in Client : d # c => at'[d] = at[d]
    BY <1>1, <1>2, GotoFacts, Zenon
  <1>4. Progress(c)'
    BY <1>3, QuietProgress, Zenon
  <1>5. /\ UNCHANGED <<server, opts, built, builds>>
        /\ tmpfile' \in [Client -> [of : Content, whole : BOOLEAN]]
        /\ cached' \in [Client -> [File -> Content]]
        /\ \A d \in Client : d # c => cached'[d] = cached[d]
    <2>1. TypeOK
      BY DEF IInv
    <2>2. CASE result_available(c) \/ stop(c)
      BY <2>1, <2>2, Zenon DEF result_available, stop, TypeOK
    <2>3. CASE linklast(c)
      <3>1. [of |-> server["result.tar"], whole |-> FALSE] \in [of : Content, whole : BOOLEAN]
        BY <1>2, <2>1, SMTT(30) DEF TypeOK
      <3>2. UNCHANGED <<server, cached, opts, built, builds>>
        BY <2>3, Zenon DEF linklast
      <3>3. CASE UNCHANGED tmpfile
        BY <2>1, <3>2, <3>3, Zenon DEF TypeOK
      <3>4. CASE tmpfile' = [tmpfile EXCEPT ![c] =
                                [of |-> server["result.tar"], whole |-> FALSE]]
        <4>1. tmpfile' \in [Client -> [of : Content, whole : BOOLEAN]]
          BY <2>1, <3>1, <3>4, Zenon DEF TypeOK
        <4>2. QED
          BY <2>1, <3>2, <4>1, Zenon DEF TypeOK
      <3>5. QED
        BY <2>3, <3>3, <3>4, Zenon DEF linklast
    <2>4. CASE fetch(c)
      <3>1. [of |-> Sent(c), whole |-> TRUE] \in [of : Content, whole : BOOLEAN]
        BY <2>1, TmpfileFacts, SMTT(30)
      <3>2. QED
        BY <2>1, <2>4, <3>1, Zenon DEF fetch, TypeOK
    <2>5. CASE rename(c)
      <3>1. Received(c) \in Content
        BY <2>1, TmpfileFacts, Zenon
      <3>2. QED
        BY <1>2, <2>1, <2>5, <3>1, Zenon DEF rename, TypeOK, PutCache
    <2>6. QED
      BY <2>2, <2>3, <2>4, <2>5, Zenon
  <1>6. QED
    BY <1>3, <1>4, <1>5, QuietStep, Zenon DEF IInv, TypeOK

\* Every step keeps the invariant.
LEMMA NextIInv ==
    ASSUME IInv, [Next]_vars
    PROVE  IInv'
  <1>1. CASE UNCHANGED vars
    <2>1. TypeOK' /\ ReleaseComplete' /\ Kept
      BY <1>1, Zenon DEF vars, IInv, TypeOK, ReleaseComplete, Kept
    <2>2. \A d \in Client : Progress(d)'
      BY <1>1, <2>1, OthersProgress, Zenon DEF vars
    <2>3. QED
      BY <2>1, <2>2, Zenon DEF IInv
  <1>2. CASE Next
    BY <1>2, StartIInv, BuildIInv, DeployIInv, QuietIInv, PushCacheIInv, PushServerIInv, Zenon
    DEF Next
  <1>3. QED
    BY <1>1, <1>2, Zenon

\* No step takes away a file that is not replaced by a hardlink.
LEMMA NextStays ==
    ASSUME IInv, [Next]_vars, NEW f \in File, server[f] # Absent, ~ Hardlinks(f)
    PROVE  server'[f] # Absent
  <1>1. CASE UNCHANGED server
    BY <1>1, Zenon
  <1>2. ASSUME NEW c \in Client, push_server(c) \/ complete_push(c)
        PROVE  server'[f] # Absent
    <2>1. at[c][1] \in ServerSteps
      BY <1>2, Zenon DEF push_server, complete_push, At, ServerSteps
    <2>2. Source(c, FileOf(c)) # Absent /\ Partial # Absent
      BY <2>1, SourceFacts, SMTT(30) DEF Partial, Absent
    <2>3. \/ PutServer(FileOf(c), Absent) /\ Hardlinks(FileOf(c))
          \/ PutServer(FileOf(c), Source(c, FileOf(c)))
          \/ PutServer(FileOf(c), Partial)
      BY <1>2, Zenon DEF push_server, complete_push
    <2>4. server \in [File -> Content]
      BY Zenon DEF IInv, TypeOK
    <2>5. QED
      BY <2>2, <2>3, <2>4, Zenon DEF PutServer
  <1>3. QED
    BY <1>1, <1>2, Zenon
    DEF Next, vars, start, result_available, build, push_cache, link_cache,
        helper_deploy, linklast, fetch, rename, stop

-----------------------------------------------------------------------------
(* What the steps do to the servers and the caches.                        *)

\* A push to a server writes the build, or an unfinished file, or unlinks the
\* file that a hardlink will replace.
LEMMA PushActs ==
    ASSUME IInv, NEW c \in Client, push_server(c) \/ complete_push(c), NEW f, f = FileOf(c)
    PROVE  /\ at[c][1] \in ServerSteps /\ f \in File
           /\ UNCHANGED <<cached, opts, built, tmpfile, builds>>
           /\ \A g \in File : g # f => server'[g] = server[g]
           /\ \/ /\ server'[f] = Absent /\ f = "result.tar" /\ Hardlinks(f)
                 /\ Goto(c, "link_server", f)
              \/ server'[f] = built[c] /\ PushDone(c, f)
              \/ /\ server'[f] = Partial /\ Transport[ServerOf(f)] = "scp"
                 /\ Goto(c, "scp_server", f)
  <1>1. /\ at[c][1] \in ServerSteps
        /\ UNCHANGED <<cached, opts, built, tmpfile, builds>>
    BY Zenon DEF push_server, complete_push, At, ServerSteps
  <1>2. f \in File /\ server \in [File -> Content] /\ Source(c, f) = built[c]
    BY <1>1, StepFacts, SourceFacts, Zenon DEF IInv, TypeOK
  <1>3. \/ PutServer(f, Absent) /\ Hardlinks(f) /\ Goto(c, "link_server", f)
        \/ PutServer(f, built[c]) /\ PushDone(c, f)
        \/ /\ PutServer(f, Partial) /\ Transport[ServerOf(f)] = "scp"
           /\ Goto(c, "scp_server", f)
    BY <1>2, Zenon DEF push_server, complete_push
  <1>4. Hardlinks(f) => f = "result.tar"
    BY Zenon DEF Hardlinks, TryHardlink
  <1>5. QED
    BY <1>1, <1>2, <1>3, <1>4, Zenon DEF PutServer

\* A push to a cache does the same there; writeback decides what follows.
LEMMA CacheActs ==
    ASSUME IInv, NEW c \in Client, push_cache(c) \/ link_cache(c), NEW f, f = FileOf(c)
    PROVE  /\ at[c][1] \in {"push_cache", "link_cache"} /\ f \in File
           /\ ServerOf(f) \in CacheOn[c]
           /\ UNCHANGED <<server, opts, built, tmpfile, builds>>
           /\ \E x \in {Absent, built[c]} : PutCache(c, f, x)
           /\ \/ Goto(c, "link_cache", f)
              \/ ServerOf(f) \in opts[c].writeback /\ Goto(c, "push_server", f)
              \/ ServerOf(f) \notin opts[c].writeback /\ PushDone(c, f)
  <1>1. at[c][1] \in {"push_cache", "link_cache"}
    BY Zenon DEF push_cache, link_cache, At
  <1>2. f \in File /\ ServerOf(f) \in CacheOn[c]
    BY <1>1, StepFacts, Zenon DEF IInv, Progress
  <1>3. QED
    BY <1>1, <1>2, Zenon DEF push_cache, link_cache, CacheDone

\* After a file comes the deployment, the next file, or the end.
LEMMA PushDoneCases ==
    ASSUME IInv, NEW c \in Client, NEW f \in File, PushDone(c, f)
    PROVE  /\ \A d \in Client : d # c => at'[d] = at[d]
           /\ \/ f = "result.tar" /\ at'[c] = <<"helper_deploy", "result.tar">>
              \/ f = "checksums" /\ at'[c] = <<"linklast", "result.tar">>
              \/ \E i \in DOMAIN DeployList :
                    /\ f = DeployList[i] /\ i + 1 \in DOMAIN DeployList
                    /\ \/ at'[c] = <<"push_cache", DeployList[i + 1]>>
                       \/ at'[c] = <<"push_server", DeployList[i + 1]>>
  <1>1. "helper_deploy" \in Steps /\ "linklast" \in Steps /\ "result.tar" \in File
    BY DeployFacts, Zenon DEF Steps
  <1>2. CASE f = "result.tar" /\ Goto(c, "helper_deploy", f)
    BY <1>1, <1>2, GotoFacts, Zenon
  <1>3. ASSUME NEW i \in DOMAIN DeployList, f = DeployList[i], i = Len(DeployList),
               Goto(c, "linklast", "result.tar")
        PROVE  /\ \A d \in Client : d # c => at'[d] = at[d]
               /\ f = "checksums" /\ at'[c] = <<"linklast", "result.tar">>
    BY <1>1, <1>3, GotoFacts, DeployFacts, SMTT(30)
  <1>4. ASSUME NEW i \in DOMAIN DeployList, f = DeployList[i], i < Len(DeployList),
               PushStart(c, DeployList[i + 1])
        PROVE  /\ \A d \in Client : d # c => at'[d] = at[d]
               /\ i + 1 \in DOMAIN DeployList
               /\ \/ at'[c] = <<"push_cache", DeployList[i + 1]>>
                  \/ at'[c] = <<"push_server", DeployList[i + 1]>>
    <2>1. i + 1 \in DOMAIN DeployList /\ DeployList[i + 1] \in File
      BY <1>4, DeployFacts, SMTT(30)
    <2>2. QED
      BY <1>4, <2>1, PushStartFacts, Zenon
  <1>5. QED
    BY <1>2, <1>3, <1>4, Zenon DEF PushDone

\* Where the other steps go: none of them pushes a file of the release, and
\* none writes to a server.
LEMMA QuietActs ==
    ASSUME IInv, NEW c \in Client,
           \/ start(c) \/ result_available(c) \/ build(c)
           \/ linklast(c) \/ fetch(c) \/ rename(c) \/ stop(c)
    PROVE  /\ UNCHANGED server
           /\ \A d \in Client : d # c =>
                 at'[d] = at[d] /\ opts'[d] = opts[d] /\ built'[d] = built[d]
           /\ \E s \in Steps : at'[c] = <<s, "result.tar">>
  <1>1. "result.tar" \in File /\ TypeOK
    BY DeployFacts, SMTT(30) DEF IInv
  <1>2. UNCHANGED server
    BY Zenon DEF start, result_available, build, linklast, fetch, rename, stop
  <1>3. \A d \in Client : d # c => opts'[d] = opts[d] /\ built'[d] = built[d]
    BY <1>1, Zenon DEF start, result_available, build, linklast, fetch, rename, stop, TypeOK
  <1>4. CASE build(c)
    <2>1. PushStart(c, "result.tar")
      BY <1>4 DEF build
    <2>2. "push_cache" \in Steps /\ "push_server" \in Steps
      BY DEF Steps
    <2>3. QED
      BY <1>1, <1>2, <1>3, <2>1, <2>2, PushStartFacts, Zenon
  <1>5. CASE \/ start(c) \/ result_available(c) \/ linklast(c)
             \/ fetch(c) \/ rename(c) \/ stop(c)
    <2>1. PICK s \in {"result_available", "build", "linklast", "success",
                      "fetch", "rename", "idle"} :
              Goto(c, s, "result.tar")
      BY <1>5, Zenon DEF start, result_available, linklast, fetch, rename, stop
    <2>2. s \in Steps
      BY DEF Steps
    <2>3. QED
      BY <1>1, <1>2, <1>3, <2>1, <2>2, GotoFacts, Zenon
  <1>6. QED
    BY <1>4, <1>5, Zenon

\* A step of one user leaves the invocations of the others alone.
LEMMA OthersAlone ==
    ASSUME IInv, NEW c \in Client,
           \/ start(c) \/ result_available(c) \/ build(c)
           \/ push_cache(c) \/ link_cache(c) \/ push_server(c) \/ complete_push(c)
           \/ helper_deploy(c) \/ linklast(c) \/ fetch(c) \/ rename(c) \/ stop(c),
           NEW d \in Client, d # c
    PROVE  at'[d] = at[d] /\ opts'[d] = opts[d] /\ built'[d] = built[d]
  <1>1. CASE \/ start(c) \/ result_available(c) \/ build(c)
             \/ linklast(c) \/ fetch(c) \/ rename(c) \/ stop(c)
    BY <1>1, QuietActs, Zenon
  <1>2. PICK f : f = FileOf(c)
    BY SMTT(30)
  <1>3. TypeOK
    BY DEF IInv
  <1>4. CASE push_cache(c) \/ link_cache(c)
    <2>1. /\ f \in File /\ UNCHANGED <<opts, built>>
          /\ (\E s : Goto(c, s, f)) \/ PushDone(c, f)
      BY <1>2, <1>4, CacheActs, Zenon
    <2>2. QED
      BY <1>3, <2>1, PushDoneCases, Zenon DEF Goto, TypeOK
  <1>5. CASE push_server(c) \/ complete_push(c)
    <2>1. /\ f \in File /\ UNCHANGED <<opts, built>>
          /\ (\E s : Goto(c, s, f)) \/ PushDone(c, f)
      BY <1>2, <1>5, PushActs, Zenon
    <2>2. QED
      BY <1>3, <2>1, PushDoneCases, Zenon DEF Goto, TypeOK
  <1>6. CASE helper_deploy(c)
    <2>1. /\ UNCHANGED <<opts, built>>
          /\ Goto(c, "linklast", "result.tar") \/ PushStart(c, DeployList[1])
      BY <1>6, Zenon DEF helper_deploy
    <2>2. DeployList[1] \in File
      BY DeployFacts, SMTT(30)
    <2>3. QED
      BY <1>3, <2>1, <2>2, PushStartFacts, Zenon DEF Goto, TypeOK
  <1>7. QED
    BY <1>1, <1>4, <1>5, <1>6, Zenon

-----------------------------------------------------------------------------
(* Files that are not whole.                                               *)

\* Half a file comes from scp: on the server, in a download, in a cache.  What
\* is about to be renamed has arrived.
WholeInv ==
    /\ NeverPartial
    /\ \A c \in Client : tmpfile[c].of = Partial => Transport["results"] = "scp"
    /\ \A c \in Client : At(c, "rename") => tmpfile[c].whole

\* Only a transfer that has ended well is followed by the rename.
LEMMA ToRename ==
    ASSUME IInv, NEW c \in Client,
           \/ start(c) \/ result_available(c) \/ build(c)
           \/ push_cache(c) \/ link_cache(c) \/ push_server(c) \/ complete_push(c)
           \/ helper_deploy(c) \/ linklast(c) \/ rename(c) \/ stop(c)
    PROVE  ~ At(c, "rename")'
  <1>1. TypeOK /\ "result.tar" \in File /\ DeployList[1] \in File
    <2>1. 1 \in DOMAIN DeployList
      BY DeployFacts, SMTT(30)
    <2>2. QED
      BY <2>1, DeployFacts, Zenon DEF IInv
  <1>2. ASSUME NEW s, NEW f, s # "rename", at'[c] = <<s, f>> PROVE ~ At(c, "rename")'
    BY <1>2, SMTT(30) DEF At
  <1>3. ASSUME NEW s, NEW f, s # "rename", Goto(c, s, f) PROVE ~ At(c, "rename")'
    <2>1. at'[c] = <<s, f>>
      BY <1>1, <1>3, Zenon DEF Goto, TypeOK
    <2>2. QED
      BY <1>2, <1>3, <2>1, Zenon
  <1>4. ASSUME NEW f \in File, PushStart(c, f) PROVE ~ At(c, "rename")'
    BY <1>2, <1>4, PushStartFacts, ZenonT(30)
  <1>5. ASSUME NEW f \in File, PushDone(c, f) PROVE ~ At(c, "rename")'
    <2>1. \/ at'[c] = <<"helper_deploy", "result.tar">>
          \/ at'[c] = <<"linklast", "result.tar">>
          \/ \E g : at'[c] = <<"push_cache", g>> \/ at'[c] = <<"push_server", g>>
      BY <1>5, PushDoneCases, Zenon
    <2>2. QED
      BY <1>2, <2>1, Zenon
  <1>6. CASE start(c) \/ result_available(c) \/ linklast(c) \/ rename(c) \/ stop(c)
    <2>1. PICK s \in {"result_available", "build", "linklast", "success", "fetch", "idle"} :
              Goto(c, s, "result.tar")
      BY <1>6, Zenon DEF start, result_available, linklast, rename, stop
    <2>2. s # "rename"
      BY Zenon
    <2>3. QED
      BY <1>3, <2>1, <2>2, Zenon
  <1>7. CASE build(c) \/ helper_deploy(c)
    <2>1. \/ PushStart(c, "result.tar") \/ PushStart(c, DeployList[1])
          \/ Goto(c, "linklast", "result.tar")
      BY <1>7, Zenon DEF build, helper_deploy
    <2>2. QED
      BY <1>1, <1>3, <1>4, <2>1, Zenon
  <1>8. CASE push_cache(c) \/ link_cache(c) \/ push_server(c) \/ complete_push(c)
    <2>1. PICK f : f = FileOf(c)
      BY Zenon
    <2>2. f \in File
      BY <2>1, StepFacts, Zenon
    <2>3. \/ PushDone(c, f)
          \/ \E s \in {"link_cache", "push_server", "link_server", "scp_server"} : Goto(c, s, f)
      BY <1>8, <2>1, Zenon DEF push_cache, link_cache, push_server, complete_push, CacheDone
    <2>4. QED
      BY <1>3, <1>5, <2>2, <2>3, Zenon
  <1>9. QED
    BY <1>6, <1>7, <1>8, Zenon

\* A step leaves the temporary files of the other users alone, and moves one
\* file of one cache or of one server.
LEMMA WholeParts ==
    ASSUME IInv, WholeInv
    PROVE  /\ TypeOK /\ "result.tar" \in File /\ ServerOf("result.tar") = "results"
           /\ Absent # Partial /\ \A c \in Client : built[c] # Partial
           /\ \A f \in File : server[f] = Partial => Transport[ServerOf(f)] = "scp"
           /\ \A c \in Client, f \in File :
                 cached[c][f] = Partial => Transport[ServerOf(f)] = "scp"
           /\ \A c \in Client : tmpfile[c].of = Partial => Transport["results"] = "scp"
           /\ \A c \in Client : At(c, "rename") => tmpfile[c].whole
  <1>1. \A c \in Client : built[c] # Partial
    BY StorageAssumption, SMTT(30) DEF IInv, TypeOK, Partial
  <1>2. Absent # Partial
    BY SMTT(30) DEF Absent, Partial
  <1>3. "result.tar" \in File /\ ServerOf("result.tar") = "results" /\ TypeOK
    BY DeployFacts, Zenon DEF ServerOf, IInv
  <1>4. QED
    BY <1>1, <1>2, <1>3, Zenon DEF WholeInv, NeverPartial

\* The temporary files, whatever is done.
LEMMA NextTmpfile ==
    ASSUME IInv, WholeInv, [Next]_vars
    PROVE  /\ \A c \in Client : tmpfile'[c].of = Partial => Transport["results"] = "scp"
           /\ \A c \in Client : At(c, "rename")' => tmpfile'[c].whole
  <1> DEFINE Good(c) == /\ tmpfile'[c].of = Partial => Transport["results"] = "scp"
                        /\ At(c, "rename")' => tmpfile'[c].whole
  <1>1. TypeOK /\ Absent # Partial
    BY WholeParts, Zenon
  <1>2. ASSUME NEW c \in Client, tmpfile'[c] = tmpfile[c],
               at'[c] = at[c] \/ ~ At(c, "rename")'
        PROVE  Good(c)
    BY <1>2, WholeParts, Zenon DEF At
  <1>3. CASE UNCHANGED vars
    BY <1>2, <1>3, Zenon DEF vars
  <1>4. ASSUME NEW c \in Client,
               \/ start(c) \/ result_available(c) \/ build(c)
               \/ push_cache(c) \/ link_cache(c) \/ push_server(c) \/ complete_push(c)
               \/ helper_deploy(c) \/ linklast(c) \/ fetch(c) \/ rename(c) \/ stop(c),
               NEW d \in Client
        PROVE  Good(d)
    <2>1. CASE d # c
      <3>1. tmpfile'[d] = tmpfile[d]
        BY <1>1, <1>4, <2>1, Zenon
        DEF TypeOK, start, result_available, build, push_cache, link_cache, push_server,
            complete_push, helper_deploy, linklast, fetch, rename, stop
      <3>2. at'[d] = at[d]
        BY <1>4, <2>1, OthersAlone, Zenon
      <3>3. QED
        BY <1>2, <3>1, <3>2, Zenon
    <2>2. CASE fetch(c) /\ d = c
      <3>1. tmpfile'[c] = [of |-> Sent(c), whole |-> TRUE]
        BY <1>1, <2>2, Zenon DEF fetch, TypeOK
      <3>2. Sent(c) = Partial => Transport["results"] = "scp"
        BY WholeParts, Zenon DEF Sent
      <3>3. tmpfile'[c].of = Sent(c) /\ tmpfile'[c].whole = TRUE
        BY <3>1, SMTT(30)
      <3>4. QED
        BY <2>2, <3>2, <3>3, Zenon
    <2>3. CASE d = c /\ ~ fetch(c)
      <3>1. ~ At(c, "rename")'
        BY <1>4, <2>3, ToRename, Zenon
      <3>2. \/ tmpfile'[c] = tmpfile[c]
            \/ tmpfile'[c] = NoTmpfile
            \/ tmpfile'[c] = [of |-> server["result.tar"], whole |-> FALSE]
        BY <1>1, <1>4, <2>3, Zenon
        DEF TypeOK, start, result_available, build, push_cache, link_cache, push_server,
            complete_push, helper_deploy, linklast, rename, stop
      <3>3. CASE tmpfile'[c] = tmpfile[c]
        BY <1>2, <2>3, <3>1, <3>3, Zenon
      <3>4. CASE tmpfile'[c] = NoTmpfile
        <4>1. tmpfile'[c].of = Absent
          BY <3>4, SMTT(30) DEF NoTmpfile
        <4>2. QED
          BY <1>1, <2>3, <3>1, <4>1, Zenon
      <3>5. CASE tmpfile'[c] = [of |-> server["result.tar"], whole |-> FALSE]
        <4>1. tmpfile'[c].of = server["result.tar"]
          BY <3>5, SMTT(30)
        <4>2. QED
          BY <2>3, <3>1, <4>1, WholeParts, Zenon
      <3>6. QED
        BY <3>2, <3>3, <3>4, <3>5, Zenon
    <2>4. QED
      BY <2>1, <2>2, <2>3, Zenon
  <1>5. QED
    BY <1>3, <1>4, Zenon DEF Next

\* Every step keeps the files whole.
LEMMA NextWhole ==
    ASSUME IInv, WholeInv, [Next]_vars
    PROVE  WholeInv'
  <1> DEFINE ServerWhole == \A f \in File : server[f] = Partial => Transport[ServerOf(f)] = "scp"
             CacheWhole == \A c \in Client, f \in File :
                 cached[c][f] = Partial => Transport[ServerOf(f)] = "scp"
  <1>1. /\ ServerWhole /\ CacheWhole /\ TypeOK
        /\ "result.tar" \in File /\ ServerOf("result.tar") = "results"
        /\ Absent # Partial /\ \A c \in Client : built[c] # Partial
    BY WholeParts, Zenon
  <1>2. SUFFICES ServerWhole' /\ CacheWhole'
    BY NextTmpfile, Zenon DEF WholeInv, NeverPartial
  <1>3. ASSUME NEW c \in Client, push_server(c) \/ complete_push(c)
        PROVE  ServerWhole' /\ CacheWhole'
    <2>1. PICK f : f = FileOf(c)
      OBVIOUS
    <2>2. /\ f \in File /\ UNCHANGED cached
          /\ \A g \in File : g # f => server'[g] = server[g]
          /\ \/ server'[f] \in {Absent, built[c]}
             \/ Transport[ServerOf(f)] = "scp"
      BY <1>3, <2>1, PushActs, Zenon
    <2>3. ServerWhole'
      BY <1>1, <2>2, Zenon
    <2>4. QED
      BY <1>1, <2>2, <2>3, Zenon
  <1>4. ASSUME NEW c \in Client, push_cache(c) \/ link_cache(c)
        PROVE  ServerWhole' /\ CacheWhole'
    <2>1. PICK f : f = FileOf(c)
      OBVIOUS
    <2>2. PICK x \in {Absent, built[c]} : PutCache(c, f, x)
      BY <1>4, <2>1, CacheActs, Zenon
    <2>3. UNCHANGED server
      BY <1>4, Zenon DEF push_cache, link_cache
    <2>4. CacheWhole'
      BY <1>1, <2>2, Zenon DEF PutCache, TypeOK
    <2>5. QED
      BY <1>1, <2>3, <2>4, Zenon
  <1>5. ASSUME NEW c \in Client, rename(c)
        PROVE  ServerWhole' /\ CacheWhole'
    <2>1. UNCHANGED server /\ PutCache(c, "result.tar", Received(c)) /\ At(c, "rename")
      BY <1>5, Zenon DEF rename
    <2>2. Received(c) = Partial => Transport["results"] = "scp"
      BY <2>1, WholeParts, Zenon DEF Received
    <2>3. CacheWhole'
      BY <1>1, <2>1, <2>2, Zenon DEF PutCache, TypeOK
    <2>4. QED
      BY <1>1, <2>1, <2>3, Zenon
  <1>6. ASSUME UNCHANGED <<server, cached>>
        PROVE  ServerWhole' /\ CacheWhole'
    BY <1>1, <1>6, Zenon
  <1>7. QED
    BY <1>3, <1>4, <1>5, <1>6, Zenon
    DEF Next, vars, start, result_available, build, helper_deploy, linklast, fetch, stop

-----------------------------------------------------------------------------
(* What an invocation has stored.                                          *)

\* A file of the release is being pushed.
Deploying(c) == at[c][1] \in PushSteps /\ FileOf(c) \in ReleaseFile

\* The result has been pushed.
Pushed(c) ==
    \/ Deploying(c)
    \/ at[c][1] \in {"helper_deploy", "linklast", "fetch", "rename", "success"}

\* The release has been deployed, now or earlier.
Deployed(c) == at[c][1] \in {"linklast", "fetch", "rename", "success"}

\* What an invocation that made a build has stored when it is in a step.
Stored(c) ==
    /\ at[c][1] \in {"result_available", "build"} => built[c] = 0
    /\ built[c] # 0 /\ Pushed(c) /\ "results" \in opts[c].writeback
          /\ ~ Hardlinks("result.tar") => server["result.tar"] # Absent
    /\ built[c] # 0 /\ Deployed(c) /\ "releases" \in opts[c].writeback
          /\ Deploy => server["checksums"] # Absent

\* The same in the next state.
LEMMA ReleaseNamesNext ==
    ASSUME NEW c \in Client, NEW s, NEW f, at'[c] = <<s, f>>
    PROVE  /\ Deploying(c)' <=> s \in PushSteps /\ f \in ReleaseFile
           /\ FileOf(c)' = f
  BY DEF Deploying, PushSteps, FileOf

\* What is stored for one invocation is not taken away by another one.
LEMMA OthersStored ==
    ASSUME IInv, [Next]_vars, NEW d \in Client, Stored(d),
           at'[d] = at[d], opts'[d] = opts[d], built'[d] = built[d]
    PROVE  Stored(d)'
  <1>1. /\ Pushed(d)' <=> Pushed(d)
        /\ Deployed(d)' <=> Deployed(d)
    BY Zenon DEF Pushed, Deployed, Deploying, FileOf
  <1>2. server["result.tar"] # Absent /\ ~ Hardlinks("result.tar") => server'["result.tar"] # Absent
    BY NextStays, DeployFacts, Zenon
  <1>3. server["checksums"] # Absent => server'["checksums"] # Absent
    BY NextStays, DeployFacts, Zenon
  <1>4. Hardlinks("result.tar")' <=> Hardlinks("result.tar")
    BY Zenon DEF Hardlinks
  <1>5. QED
    BY <1>1, <1>2, <1>3, <1>4, Zenon DEF Stored, Absent

\* Before the result is pushed, or without a build, there is nothing to store.
LEMMA NothingStored ==
    ASSUME NEW c \in Client,
           \/ built'[c] = 0
           \/ \E s, x : /\ at'[c] = <<s, x>>
                        /\ s \in PushSteps \cup {"idle"}
                        /\ x \notin ReleaseFile
    PROVE  Stored(c)'
  <1>1. CASE built'[c] = 0
    BY <1>1, Zenon DEF Stored
  <1>2. ASSUME NEW s, NEW x, at'[c] = <<s, x>>, s \in PushSteps \cup {"idle"}, x \notin ReleaseFile
        PROVE  Stored(c)'
    <2>1. ~ Deploying(c)'
      BY <1>2, ReleaseNamesNext, Zenon
    <2>2. at'[c][1] \notin {"helper_deploy", "linklast", "fetch", "rename", "success",
                            "result_available", "build"}
      BY <1>2, SMTT(30) DEF PushSteps
    <2>3. QED
      BY <2>1, <2>2, Zenon DEF Stored, Pushed, Deployed
  <1>3. QED
    BY <1>1, <1>2, Zenon

\* An invocation that has pushed the result and goes on.
LEMMA GoesOnStored ==
    ASSUME NEW c \in Client, NEW s, NEW x, at'[c] = <<s, x>>,
           s \notin {"result_available", "build"}, UNCHANGED <<opts, built>>,
           "results" \in opts[c].writeback /\ ~ Hardlinks("result.tar")
              /\ built[c] # 0 => server'["result.tar"] # Absent,
           s \in {"linklast", "fetch", "rename", "success"} /\ "releases" \in opts[c].writeback
              /\ built[c] # 0 /\ Deploy => server'["checksums"] # Absent
    PROVE  Stored(c)'
  <1>1. at'[c][1] = s
    BY SMTT(30)
  <1>2. Hardlinks("result.tar")' <=> Hardlinks("result.tar")
    BY Zenon DEF Hardlinks
  <1>3. QED
    BY <1>1, <1>2, Zenon DEF Stored, Deployed, Absent

\* The steps outside of a push.
LEMMA QuietStored ==
    ASSUME IInv, NEW c \in Client, Stored(c),
           \/ start(c) \/ result_available(c) \/ build(c)
           \/ helper_deploy(c) \/ linklast(c) \/ fetch(c) \/ rename(c) \/ stop(c)
    PROVE  Stored(c)'
  <1>1. TypeOK /\ "result.tar" \in File /\ "result.tar" \notin ReleaseFile
    BY DeployFacts, Zenon DEF IInv
  <1>2. CASE start(c)
    <2>1. built'[c] = 0
      BY <1>1, <1>2, Zenon DEF start, TypeOK
    <2>2. QED
      BY <2>1, NothingStored, SMTT(30)
  <1>3. CASE result_available(c)
    <2>1. built'[c] = 0
      BY <1>3, Zenon DEF result_available, At, Stored
    <2>2. QED
      BY <2>1, NothingStored
  <1>4. CASE build(c)
    <2>1. at'[c] = <<"push_cache", "result.tar">> \/ at'[c] = <<"push_server", "result.tar">>
      BY <1>1, <1>4, PushStartFacts, Zenon DEF build
    <2>2. QED
      BY <1>1, <2>1, NothingStored, Zenon DEF PushSteps
  <1>5. CASE stop(c)
    <2>1. "idle" \in Steps
      BY DEF Steps
    <2>2. at'[c] = <<"idle", "result.tar">>
      BY <1>1, <1>5, <2>1, GotoFacts, Zenon DEF stop
    <2>3. QED
      BY <1>1, <2>2, NothingStored, Zenon
  <1>6. CASE linklast(c) \/ fetch(c) \/ rename(c)
    <2>1. /\ UNCHANGED <<server, opts, built>> /\ Pushed(c) /\ Deployed(c)
          /\ \E s \in {"success", "fetch", "rename"} : Goto(c, s, "result.tar")
      BY <1>6, Zenon DEF linklast, fetch, rename, At, Pushed, Deployed
    <2>2. PICK s \in {"success", "fetch", "rename"} : at'[c] = <<s, "result.tar">>
      BY <1>1, <2>1, Zenon DEF Goto, TypeOK
    <2>3. QED
      BY <2>1, <2>2, GoesOnStored, Zenon DEF Stored
  <1>7. CASE helper_deploy(c)
    <2>1. UNCHANGED <<server, opts, built>> /\ Pushed(c)
      BY <1>7, Zenon DEF helper_deploy, At, Pushed
    <2>2. CASE (Deploy => server["checksums"] # Absent) /\ Goto(c, "linklast", "result.tar")
      <3>1. at'[c] = <<"linklast", "result.tar">>
        BY <1>1, <2>2, Zenon DEF Goto, TypeOK
      <3>2. "results" \in opts[c].writeback /\ ~ Hardlinks("result.tar")
               /\ built[c] # 0 => server'["result.tar"] # Absent
        BY <2>1, Zenon DEF Stored
      <3>3. "linklast" \in {"linklast", "fetch", "rename", "success"} /\ "releases" \in opts[c].writeback
               /\ built[c] # 0 /\ Deploy => server'["checksums"] # Absent
        BY <2>1, <2>2, Zenon
      <3>4. "linklast" \notin {"result_available", "build"} /\ UNCHANGED <<opts, built>>
        BY <2>1, Zenon
      <3>5. QED
        BY ZenonT(30), <3>1, <3>2, <3>3, <3>4, GoesOnStored
    <2>3. CASE PushStart(c, DeployList[1])
      <3>1. DeployList[1] \in File
        BY DeployFacts, SMTT(30)
      <3>2. \/ at'[c] = <<"push_cache", DeployList[1]>>
            \/ at'[c] = <<"push_server", DeployList[1]>>
        BY <2>3, <3>1, PushStartFacts, Zenon
      <3>3. PICK s \in {"push_cache", "push_server"} : at'[c] = <<s, DeployList[1]>>
        BY <3>2, Zenon
      <3>4. "results" \in opts[c].writeback /\ ~ Hardlinks("result.tar")
               /\ built[c] # 0 => server'["result.tar"] # Absent
        BY <2>1, Zenon DEF Stored
      <3>5. /\ s \notin {"result_available", "build"} /\ UNCHANGED <<opts, built>>
            /\ s \in {"linklast", "fetch", "rename", "success"} /\ "releases" \in opts[c].writeback
                  /\ built[c] # 0 /\ Deploy => server'["checksums"] # Absent
        BY <2>1, Zenon
      <3>6. QED
        BY ZenonT(30), <3>3, <3>4, <3>5, GoesOnStored
    <2>4. QED
      BY <1>7, <2>2, <2>3, Zenon DEF helper_deploy
  <1>8. QED
    BY <1>2, <1>3, <1>4, <1>5, <1>6, <1>7, Zenon

\* When a file has been pushed: it is on the server if it should be.
LEMMA PushDoneStored ==
    ASSUME IInv, NEW c \in Client, Stored(c), NEW f \in File, f = FileOf(c),
           at[c][1] \in PushSteps, PushDone(c, f), UNCHANGED <<opts, built>>,
           ServerOf(f) \in opts[c].writeback => server'[f] # Absent,
           f # "result.tar" => server'["result.tar"] = server["result.tar"]
    PROVE  Stored(c)'
  <1>1. CASE f = "result.tar"
    <2>1. at'[c] = <<"helper_deploy", "result.tar">>
      <3>1. f # "checksums" /\ \A i \in DOMAIN DeployList : f # DeployList[i]
        BY <1>1, DeployFacts, Zenon
      <3>2. QED
        BY <3>1, PushDoneCases, Zenon
    <2>2. ServerOf(f) = "results"
      BY <1>1, Zenon DEF ServerOf
    <2>3. "results" \in opts[c].writeback => server'["result.tar"] # Absent
      BY <1>1, <2>2, Zenon
    <2>4. "helper_deploy" \notin {"result_available", "build", "linklast", "fetch", "rename", "success"}
      BY Zenon
    <2>5. QED
      BY <2>1, <2>3, <2>4, GoesOnStored, Zenon
  <1>2. CASE f # "result.tar"
    <2>1. f \in ReleaseFile /\ ServerOf(f) = "releases"
      BY <1>2, StepFacts, DeployFacts, Zenon
    <2>2. Pushed(c)
      BY <2>1, Zenon DEF Pushed, Deploying, PushSteps
    <2>3. "results" \in opts[c].writeback /\ ~ Hardlinks("result.tar") /\ built[c] # 0
              => server'["result.tar"] # Absent
      BY <1>2, <2>2, Zenon DEF Stored
    <2>4. CASE f = "checksums" /\ at'[c] = <<"linklast", "result.tar">>
      BY <2>1, <2>3, <2>4, GoesOnStored, SMTT(30)
    <2>5. ASSUME NEW i \in DOMAIN DeployList,
                 \/ at'[c] = <<"push_cache", DeployList[i + 1]>>
                 \/ at'[c] = <<"push_server", DeployList[i + 1]>>
          PROVE  Stored(c)'
      BY <2>3, <2>5, GoesOnStored, SMTT(30)
    <2>6. QED
      BY <1>2, <2>4, <2>5, PushDoneCases, Zenon
  <1>3. QED
    BY <1>1, <1>2, ZenonT(30)

\* A push goes on with the same file.
LEMMA SameFileStored ==
    ASSUME IInv, NEW c \in Client, Stored(c), NEW f \in File, f = FileOf(c),
           at[c][1] \in PushSteps, NEW s \in PushSteps, Goto(c, s, f), UNCHANGED <<opts, built>>,
           f # "result.tar" => server'["result.tar"] = server["result.tar"]
    PROVE  Stored(c)'
  <1>1. at'[c] = <<s, f>>
    BY Zenon DEF Goto, IInv, TypeOK
  <1>2. CASE f \notin ReleaseFile
    BY <1>1, <1>2, NothingStored, Zenon
  <1>3. CASE f \in ReleaseFile
    <2>1. Pushed(c) /\ f # "result.tar"
      BY <1>3, DeployFacts, Zenon DEF Pushed, Deploying, PushSteps
    <2>2. s \notin {"linklast", "fetch", "rename", "success", "result_available", "build"}
      BY Zenon DEF PushSteps
    <2>3. QED
      BY <1>1, <2>1, <2>2, GoesOnStored, Zenon DEF Stored
  <1>4. QED
    BY <1>2, <1>3, Zenon

\* The steps of a push.
LEMMA PushStored ==
    ASSUME IInv, NEW c \in Client, Stored(c),
           push_cache(c) \/ link_cache(c) \/ push_server(c) \/ complete_push(c)
    PROVE  Stored(c)'
  <1>1. PICK f : f = FileOf(c)
    BY Zenon
  <1>2. {"link_cache", "push_server", "link_server", "scp_server"} \subseteq PushSteps
    BY Zenon DEF PushSteps
  <1>3. "result.tar" \in File
    BY DeployFacts, Zenon
  <1>4. CASE push_cache(c) \/ link_cache(c)
    <2>1. /\ at[c][1] \in PushSteps /\ f \in File /\ UNCHANGED <<server, opts, built>>
          /\ \/ Goto(c, "link_cache", f)
             \/ Goto(c, "push_server", f)
             \/ ServerOf(f) \notin opts[c].writeback /\ PushDone(c, f)
      BY <1>1, <1>4, CacheActs, Zenon DEF PushSteps
    <2>2. QED
      BY <1>1, <1>2, <2>1, SameFileStored, PushDoneStored, Zenon
  <1>5. CASE push_server(c) \/ complete_push(c)
    <2>1. /\ at[c][1] \in ServerSteps /\ f \in File /\ UNCHANGED <<opts, built>>
          /\ \A g \in File : g # f => server'[g] = server[g]
          /\ \/ Goto(c, "link_server", f)
             \/ server'[f] = built[c] /\ PushDone(c, f)
             \/ Goto(c, "scp_server", f)
      BY <1>1, <1>5, PushActs, Zenon
    <2>2. at[c][1] \in PushSteps /\ built[c] # Absent
      BY <2>1, SourceFacts, Zenon DEF ServerSteps, PushSteps
    <2>3. f # "result.tar" => server'["result.tar"] = server["result.tar"]
      BY <1>3, <2>1, Zenon
    <2>4. QED
      BY <1>1, <1>2, <2>1, <2>2, <2>3, SameFileStored, PushDoneStored, Zenon
  <1>6. QED
    BY <1>4, <1>5, SMTT(30)

\* Every step keeps what the invocations have stored.
LEMMA NextStored ==
    ASSUME IInv, [Next]_vars, \A c \in Client : Stored(c)
    PROVE  \A c \in Client : Stored(c)'
  <1>1. CASE UNCHANGED vars
    BY <1>1, OthersStored, Zenon DEF vars
  <1>2. ASSUME NEW c \in Client,
               \/ start(c) \/ result_available(c) \/ build(c)
               \/ push_cache(c) \/ link_cache(c) \/ push_server(c) \/ complete_push(c)
               \/ helper_deploy(c) \/ linklast(c) \/ fetch(c) \/ rename(c) \/ stop(c)
        PROVE  \A d \in Client : Stored(d)'
    <2>1. Stored(c)'
      BY <1>2, QuietStored, PushStored, Zenon
    <2>2. ASSUME NEW d \in Client, d # c PROVE Stored(d)'
      <3>1. at'[d] = at[d] /\ opts'[d] = opts[d] /\ built'[d] = built[d]
        BY <1>2, <2>2, OthersAlone, Zenon
      <3>2. QED
        BY <3>1, OthersStored, Zenon
    <2>3. QED
      BY <2>1, <2>2, Zenon
  <1>3. QED
    BY <1>1, <1>2, Zenon DEF Next

-----------------------------------------------------------------------------
(* Which build the files of a release come from.                           *)

\* The files before f in the list come from the build of c.
SameBuild(c, f) ==
    \A i, j \in DOMAIN DeployList :
        f = DeployList[i] /\ j < i => server[DeployList[j]] = built[c]

\* One user deploys, and sees what is on the server; files appear there whole.
OneUser ==
    /\ \A c, d \in Client : c = d
    /\ ~ NetworkFails
    /\ Transport["releases"] # "scp"

\* What c has deployed so far.
SoFar(c) ==
    /\ server["checksums"] = Absent
    /\ Reaches(c, "releases") => SameBuild(c, FileOf(c))

\* What has been pushed comes from one build, finished or not.
ReleaseInv ==
    /\ ReleaseConsistent
    /\ \A c \in Client : Deploying(c) => SoFar(c)

\* A step of the user.
LEMMA ReleaseStep ==
    ASSUME OneUser, NEW c \in Client, ReleaseConsistent', Deploying(c)' => SoFar(c)'
    PROVE  ReleaseInv'
  BY Zenon DEF ReleaseInv, OneUser

\* The release is as consistent as it was when its files do not change.
LEMMA ConsistentStays ==
    ASSUME \A f \in ReleaseFile : server'[f] = server[f], ReleaseInv
    PROVE  ReleaseConsistent'
  BY DeployFacts, Zenon DEF ReleaseInv, ReleaseConsistent, Absent

\* A step that neither pushes a file of the release nor begins to.
LEMMA QuietRelease ==
    ASSUME OneUser, NEW c \in Client, ReleaseInv, ~ Deploying(c)',
           \A f \in ReleaseFile : server'[f] = server[f]
    PROVE  ReleaseInv'
  BY ConsistentStays, ReleaseStep, Zenon

\* The next file of the list: what comes before it now includes f.
LEMMA NextFileSameBuild ==
    ASSUME NEW c \in Client, NEW i \in DOMAIN DeployList, i + 1 \in DOMAIN DeployList,
           SameBuild(c, DeployList[i]), UNCHANGED built, server'[DeployList[i]] = built[c],
           \A g \in File : g # DeployList[i] => server'[g] = server[g]
    PROVE  SameBuild(c, DeployList[i + 1])'
  <1>1. SUFFICES ASSUME NEW k \in DOMAIN DeployList, NEW j \in DOMAIN DeployList,
                        DeployList[i + 1] = DeployList[k], j < k
                 PROVE  server'[DeployList[j]] = built'[c]
    BY Zenon DEF SameBuild
  <1>2. k = i + 1
    BY <1>1, DeployFacts, Zenon
  <1>3. j < i \/ j = i
    BY <1>1, <1>2, DeployFacts, SMTT(30)
  <1>4. CASE j = i
    BY <1>4, Zenon
  <1>5. CASE j < i
    <2>1. server[DeployList[j]] = built[c]
      BY <1>5, Zenon DEF SameBuild
    <2>2. j # i
      BY <1>5, DeployFacts, SMTT(30)
    <2>3. DeployList[j] # DeployList[i] /\ DeployList[j] \in File
      BY <2>2, DeployFacts, Zenon
    <2>4. QED
      BY <2>1, <2>3, Zenon
  <1>6. QED
    BY <1>3, <1>4, <1>5, Zenon

\* A push goes on with the same file, of which nothing comes before.
LEMMA SameFileSameBuild ==
    ASSUME NEW c \in Client, NEW f \in ReleaseFile, SameBuild(c, f), UNCHANGED built,
           \A g \in File : g # f => server'[g] = server[g]
    PROVE  SameBuild(c, f)'
  <1>1. SUFFICES ASSUME NEW i \in DOMAIN DeployList, NEW j \in DOMAIN DeployList,
                        f = DeployList[i], j < i
                 PROVE  server'[DeployList[j]] = built'[c]
    BY Zenon DEF SameBuild
  <1>2. j # i
    BY <1>1, DeployFacts, SMTT(30)
  <1>3. DeployList[j] # f /\ DeployList[j] \in File
    BY <1>1, <1>2, DeployFacts, ZenonT(30)
  <1>4. server[DeployList[j]] = built[c]
    BY <1>1, SMTT(30) DEF SameBuild
  <1>5. QED
    BY <1>3, <1>4, Zenon

\* A push of a file of the release to the server.
LEMMA PushServerRelease ==
    ASSUME OneUser, IInv, NEW c \in Client, ReleaseInv, push_server(c) \/ complete_push(c)
    PROVE  ReleaseInv'
  <1>1. PICK f : f = FileOf(c)
    OBVIOUS
  <1>2. /\ at[c][1] \in ServerSteps /\ f \in File /\ UNCHANGED <<opts, built>>
        /\ \A g \in File : g # f => server'[g] = server[g]
        /\ \/ f = "result.tar" /\ Goto(c, "link_server", f)
           \/ server'[f] = built[c] /\ PushDone(c, f)
           \/ Transport[ServerOf(f)] = "scp" /\ Goto(c, "scp_server", f)
    BY <1>1, PushActs, Zenon
  <1>3. TypeOK /\ ReleaseFile \subseteq File /\ "checksums" \in ReleaseFile
    BY DeployFacts, SMTT(30) DEF IInv
  <1>4. CASE f = "result.tar"
    <2>1. \A g \in ReleaseFile : server'[g] = server[g]
      BY <1>2, <1>4, DeployFacts, Zenon
    <2>2. \E s : at'[c] = <<s, "result.tar">>
      <3>1. f # "checksums" /\ \A i \in DOMAIN DeployList : f # DeployList[i]
        BY <1>4, DeployFacts, Zenon
      <3>2. CASE PushDone(c, f)
        BY <1>2, <3>1, <3>2, PushDoneCases, SMTT(30)
      <3>3. CASE Goto(c, "link_server", f) \/ Goto(c, "scp_server", f)
        BY <1>3, <1>4, <3>3, SMTT(30) DEF Goto, TypeOK
      <3>4. QED
        BY <1>2, <3>2, <3>3, Zenon
    <2>3. ~ Deploying(c)'
      BY <2>2, ReleaseNamesNext, DeployFacts, Zenon
    <2>4. QED
      BY <2>1, <2>3, QuietRelease, Zenon
  <1>5. CASE f # "result.tar"
    <2>1. f \in ReleaseFile /\ Deploying(c) /\ ServerOf(f) = "releases"
      <3>1. f \in ReleaseFile /\ ServerOf(f) = "releases"
        BY <1>1, <1>5, StepFacts, DeployFacts, Zenon
      <3>2. QED
        BY <1>1, <1>2, <3>1, Zenon DEF Deploying, ServerSteps, PushSteps
    <2>2. Reaches(c, "releases")
      BY <1>1, <1>2, <2>1, Zenon DEF IInv, Progress
    <2>3. SUFFICES ReleaseConsistent' /\ (Deploying(c)' => SoFar(c)')
      BY ReleaseStep, Zenon
    <2>4. server["checksums"] = Absent /\ SameBuild(c, f)
      BY <1>1, <2>1, <2>2, Zenon DEF ReleaseInv, SoFar
    <2>5. f # "checksums" => server'["checksums"] = Absent
      BY <1>2, <1>3, <2>4, Zenon
    <2>6. server'[f] = built[c] /\ PushDone(c, f)
      BY <1>2, <1>5, <2>1, Zenon DEF OneUser
    <2>7. CASE f = "checksums" /\ at'[c] = <<"linklast", "result.tar">>
      <3>1. ~ Deploying(c)'
        <4>1. "linklast" \notin PushSteps
          BY DEF PushSteps
        <4>2. at'[c] = <<"linklast", "result.tar">>
          BY <2>7, ZenonT(30)
        <4>3. QED
          BY <4>1, <4>2, ReleaseNamesNext, Zenon
      <3>2. ASSUME NEW j \in DOMAIN DeployList PROVE server'[DeployList[j]] = built[c]
        <4>1. CASE j = Len(DeployList)
          BY <2>6, <2>7, <4>1, DeployFacts, Zenon
        <4>2. CASE j # Len(DeployList)
          <5>1. /\ j < Len(DeployList) /\ Len(DeployList) \in DOMAIN DeployList
                /\ f = DeployList[Len(DeployList)]
            BY <2>7, <4>2, DeployFacts, SMTT(30)
          <5>2. server[DeployList[j]] = built[c]
            BY <2>4, <5>1, Zenon DEF SameBuild
          <5>3. DeployList[j] # f /\ DeployList[j] \in File
            BY <2>7, <4>2, DeployFacts, Zenon
          <5>4. QED
            BY <1>2, <5>2, <5>3, Zenon
        <4>3. QED
          BY <4>1, <4>2, Zenon
      <3>3. \A g \in ReleaseFile : server'[g] = built[c]
        BY <3>2, SMTT(30) DEF ReleaseFile
      <3>4. ReleaseConsistent'
        BY <1>3, <3>3, SMTT(30) DEF ReleaseConsistent
      <3>5. QED
        BY <3>1, <3>4
    <2>8. ASSUME NEW i \in DOMAIN DeployList, f = DeployList[i], i + 1 \in DOMAIN DeployList,
                 \/ at'[c] = <<"push_cache", DeployList[i + 1]>>
                 \/ at'[c] = <<"push_server", DeployList[i + 1]>>
          PROVE  ReleaseConsistent' /\ (Deploying(c)' => SoFar(c)')
      <3>1. FileOf(c)' = DeployList[i + 1]
        BY <2>8, SMTT(30) DEF FileOf
      <3>2. f # "checksums"
        BY <2>8, DeployFacts, SMTT(30)
      <3>3. SameBuild(c, DeployList[i + 1])'
        BY <1>2, <2>4, <2>6, <2>8, NextFileSameBuild, Zenon
      <3>4. SoFar(c)'
        BY <2>5, <3>1, <3>2, <3>3, Zenon DEF SoFar, Absent
      <3>5. ReleaseConsistent'
        BY <2>5, <3>2, Zenon DEF ReleaseConsistent, Absent
      <3>6. QED
        BY <3>4, <3>5, Zenon
    <2>9. QED
      BY <1>2, <1>5, <2>6, <2>7, <2>8, PushDoneCases, Zenon
  <1>6. QED
    BY <1>4, <1>5, Zenon

\* A push to the cache of the user.
LEMMA PushCacheRelease ==
    ASSUME OneUser, IInv, NEW c \in Client, ReleaseInv, push_cache(c) \/ link_cache(c)
    PROVE  ReleaseInv'
  <1>1. PICK f : f = FileOf(c)
    OBVIOUS
  <1>2. /\ at[c][1] \in {"push_cache", "link_cache"} /\ f \in File
        /\ ServerOf(f) \in CacheOn[c] /\ UNCHANGED <<server, opts, built>>
        /\ \/ Goto(c, "link_cache", f)
           \/ Goto(c, "push_server", f)
           \/ ServerOf(f) \notin opts[c].writeback /\ PushDone(c, f)
    BY <1>1, CacheActs, Zenon
  <1>3. TypeOK /\ \A g \in ReleaseFile : server'[g] = server[g]
    BY <1>2, Zenon DEF IInv
  <1>4. CASE f = "result.tar"
    <2>1. \E s : at'[c] = <<s, "result.tar">>
      <3>1. f # "checksums" /\ \A i \in DOMAIN DeployList : f # DeployList[i]
        BY <1>4, DeployFacts, Zenon
      <3>2. CASE PushDone(c, f)
        BY <1>2, <3>1, <3>2, PushDoneCases, SMTT(30)
      <3>3. CASE Goto(c, "link_cache", f) \/ Goto(c, "push_server", f)
        BY <1>3, <1>4, <3>3, Zenon DEF Goto, TypeOK
      <3>4. QED
        BY <1>2, <3>2, <3>3, Zenon
    <2>2. ~ Deploying(c)'
      BY <2>1, ReleaseNamesNext, DeployFacts, Zenon
    <2>3. QED
      BY <1>3, <2>2, QuietRelease, Zenon
  <1>5. CASE f # "result.tar"
    <2>1. f \in ReleaseFile /\ Deploying(c) /\ ServerOf(f) = "releases"
      <3>1. f \in ReleaseFile /\ ServerOf(f) = "releases"
        BY <1>1, <1>5, StepFacts, DeployFacts, Zenon
      <3>2. QED
        BY <1>1, <1>2, <3>1, Zenon DEF Deploying, PushSteps
    <2>2. SUFFICES SoFar(c)'
      BY <1>3, ConsistentStays, ReleaseStep, Zenon
    <2>3. SoFar(c)
      BY <2>1, Zenon DEF ReleaseInv
    <2>4. Reaches(c, "releases")' <=> Reaches(c, "releases")
      BY <1>2, Zenon DEF Reaches
    <2>5. CASE Goto(c, "link_cache", f) \/ Goto(c, "push_server", f)
      <3>1. FileOf(c)' = f
        BY <1>3, <2>5, SMTT(30) DEF Goto, TypeOK, FileOf
      <3>2. SameBuild(c, f) => SameBuild(c, f)'
        BY <1>2, <2>1, SameFileSameBuild, Zenon
      <3>3. QED
        BY <1>1, <1>2, <2>3, <2>4, <3>1, <3>2, Zenon DEF SoFar, Absent
    <2>6. CASE ServerOf(f) \notin opts[c].writeback
      <3>1. ~ Reaches(c, "releases")'
        BY <1>2, <2>1, <2>6, Zenon DEF Reaches
      <3>2. QED
        BY <1>2, <2>3, <3>1, Zenon DEF SoFar, Absent
    <2>7. QED
      BY <1>2, <2>5, <2>6, Zenon
  <1>6. QED
    BY <1>4, <1>5

\* helper_deploy begins with the first file when there are no checksums.
LEMMA DeployRelease ==
    ASSUME OneUser, IInv, NEW c \in Client, ReleaseInv, helper_deploy(c)
    PROVE  ReleaseInv'
  <1>1. UNCHANGED <<server, opts, built>> /\ \A g \in ReleaseFile : server'[g] = server[g]
    BY SMTT(30) DEF helper_deploy
  <1>2. CASE Goto(c, "linklast", "result.tar")
    <2>1. at'[c] = <<"linklast", "result.tar">>
      BY <1>2, Zenon DEF Goto, IInv, TypeOK
    <2>2. ~ Deploying(c)'
      BY <2>1, ReleaseNamesNext, DeployFacts, Zenon
    <2>3. QED
      BY <1>1, <2>2, QuietRelease, Zenon
  <1>3. CASE PushStart(c, DeployList[1]) /\ server["checksums"] = Absent
    <2>1. 1 \in DOMAIN DeployList /\ DeployList[1] \in File
      BY DeployFacts, SMTT(30)
    <2>2. \/ at'[c] = <<"push_cache", DeployList[1]>>
          \/ at'[c] = <<"push_server", DeployList[1]>>
      BY <1>3, <2>1, PushStartFacts, Zenon
    <2>3. SameBuild(c, FileOf(c))'
      <3>1. FileOf(c)' = DeployList[1]
        BY <2>2, SMTT(30) DEF FileOf
      <3>2. SUFFICES ASSUME NEW i \in DOMAIN DeployList, NEW j \in DOMAIN DeployList,
                            DeployList[1] = DeployList[i], j < i
                     PROVE  FALSE
        BY <3>1, Zenon DEF SameBuild
      <3>3. i = 1
        BY <2>1, <3>2, DeployFacts, Zenon
      <3>4. QED
        BY <3>2, <3>3, DeployFacts, SMTT(30)
    <2>4. SoFar(c)'
      BY <1>1, <1>3, <2>3, Zenon DEF SoFar, Absent
    <2>5. QED
      BY <1>1, <2>4, ConsistentStays, ReleaseStep, Zenon
  <1>4. QED
    BY <1>2, <1>3, Zenon DEF helper_deploy, OneUser

\* Every step keeps the release of one build.
LEMMA NextRelease ==
    ASSUME OneUser, IInv, ReleaseInv, [Next]_vars
    PROVE  ReleaseInv'
  <1>1. CASE UNCHANGED vars
    <2>1. /\ \A c \in Client : Deploying(c)' <=> Deploying(c)
          /\ \A c \in Client : SoFar(c)' <=> SoFar(c)
          /\ ReleaseConsistent' <=> ReleaseConsistent
      BY <1>1, Zenon DEF vars, Deploying, FileOf, SoFar, SameBuild, Reaches, ReleaseConsistent
    <2>2. QED
      BY <1>1, <2>1, Zenon DEF vars, ReleaseInv
  <1>2. ASSUME NEW c \in Client,
               \/ start(c) \/ result_available(c) \/ build(c)
               \/ linklast(c) \/ fetch(c) \/ rename(c) \/ stop(c)
        PROVE  ReleaseInv'
    <2>1. UNCHANGED server /\ \E s \in Steps : at'[c] = <<s, "result.tar">>
      BY <1>2, QuietActs, Zenon
    <2>2. ~ Deploying(c)'
      BY <2>1, ReleaseNamesNext, DeployFacts, ZenonT(30)
    <2>3. QED
      BY <2>1, <2>2, QuietRelease, Zenon
  <1>3. QED
    BY <1>1, <1>2, PushCacheRelease, PushServerRelease, DeployRelease, Zenon DEF Next

-----------------------------------------------------------------------------
(* The theorems.                                                           *)

\* The invariant holds for any number of users, files and builds.
THEOREM Invariance == Spec => []IInv
  <1>1. IInv /\ [Next]_vars => IInv'
    BY NextIInv, SMTT(30)
  <1>2. QED
    BY InitIInv, <1>1, PTL DEF Spec

\* Whoever deploys, and whatever fails or is killed: a release that has its
\* checksums has all its files (helper_deploy).
THEOREM ReleaseIsComplete == Spec => []ReleaseComplete
  BY Invariance, PTL DEF IInv

\* Every variable keeps its type, for any users, files and caches.
THEOREM TypeCorrect == Spec => []TypeOK
  BY Invariance, PTL DEF IInv

\* Whatever is killed and whenever, and whatever transfer breaks: nobody finds
\* half a file where files are not written with scp (transport.fetch_file).
THEOREM StoredIsWhole == Spec => []NeverPartial
  <1>1. Init => WholeInv
    <2>1. SUFFICES ASSUME Init PROVE WholeInv
      OBVIOUS
    <2>2. Absent # Partial /\ NoTmpfile.of = Absent
      BY SMTT(30) DEF Absent, Partial, NoTmpfile
    <2>3. NeverPartial
      BY <2>1, <2>2, Zenon DEF Init, NeverPartial
    <2>4. \A c \in Client : ~ At(c, "rename")
      BY <2>1, SMTT(30) DEF Init, At
    <2>5. QED
      BY <2>1, <2>2, <2>3, <2>4, Zenon DEF Init, WholeInv
  <1>2. IInv /\ WholeInv /\ [Next]_vars => WholeInv'
    BY NextWhole, SMTT(30)
  <1>3. WholeInv => NeverPartial
    BY Zenon DEF WholeInv
  <1>4. QED
    BY <1>1, <1>2, <1>3, Invariance, PTL DEF Spec

\* Where results are not hardlinked, a build that succeeded is stored and
\* deployed where writeback is on, and stays so whatever the other users do
\* (_store_result, helper_deploy).
THEOREM SuccessMeansStored ==
    ASSUME ~ Hardlinks("result.tar")
    PROVE  Spec => []BuiltMeansStored
  <1> DEFINE AllStored == \A c \in Client : Stored(c)
  <1>1. Init => AllStored
    <2>1. SUFFICES ASSUME Init, NEW c \in Client PROVE Stored(c)
      BY Zenon
    <2>2. built[c] = 0
      BY <2>1, Zenon DEF Init
    <2>3. QED
      BY <2>2, Zenon DEF Stored
  <1>2. IInv /\ AllStored /\ [Next]_vars => AllStored'
    BY NextStored, Zenon
  <1>3. AllStored => BuiltMeansStored
    BY Zenon DEF Stored, Pushed, Deployed, BuiltMeansStored, At
  <1> HIDE DEF AllStored
  <1>4. QED
    BY <1>1, <1>2, <1>3, Invariance, PTL DEF Spec

\* The files of a release and its checksums come from the same build, wherever
\* the deployments of a single user stop and however often they begin again,
\* for any files, caches and builds (helper_deploy).
THEOREM ReleaseFromOneBuild ==
    ASSUME OneUser
    PROVE  Spec => []ReleaseConsistent
  <1>1. Init => ReleaseInv
    <2>1. SUFFICES ASSUME Init PROVE ReleaseInv
      OBVIOUS
    <2>2. \A c \in Client : ~ Deploying(c)
      BY <2>1, Zenon DEF Init, Deploying, PushSteps
    <2>3. ReleaseConsistent
      BY <2>1, DeployFacts, Zenon DEF Init, ReleaseConsistent
    <2>4. QED
      BY <2>2, <2>3 DEF ReleaseInv
  <1>2. IInv /\ ReleaseInv /\ [Next]_vars => ReleaseInv'
    BY NextRelease
  <1>3. ReleaseInv => ReleaseConsistent
    BY Zenon DEF ReleaseInv
  <1>4. QED
    BY <1>1, <1>2, <1>3, Invariance, PTL DEF Spec
====
