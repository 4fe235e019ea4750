--------------------------- MODULE ResultStorage ---------------------------
(***************************************************************************)
(* Where built results go: the cache of a user and the servers "results"   *)
(* and "releases" (generic/cache.lua, generic/transport.lua), as used by   *)
(* release-mode builds of one result (local/e2build.lua).                  *)
(*                                                                         *)
(* A client is a user with a cache of their own and a configuration of     *)
(* their own; they invoke e2-build again and again.  A build is not        *)
(* reproducible bit by bit, so the content of a file is the number of the  *)
(* build it comes from.  Every action is one file operation that becomes   *)
(* visible, and an invocation may fail or be killed between any two.       *)
(***************************************************************************)
EXTENDS Integers, Sequences, FiniteSets

CONSTANTS
    Client,         \* the users
    Files,          \* the files a build leaves in out/, in directory order
    CacheOn,        \* CacheOn[c]: the servers for which c has a cache
    Transport,      \* Transport[s]: the scheme of the url of server s
    Permissions,    \* the servers with push_permissions
    Deploy,         \* the result is one of deploy_results
    NetworkFails,   \* a server may be out of reach for one request
    MaxBuild        \* bound: the number of builds

Server == {"results", "releases"}

\* Fault: the checksums go first.
DeployList_checksums_first == <<"checksums">> \o Files

\* What helper_deploy pushes, in this order.
DeployList == Append(Files, "checksums")

ReleaseFile == {DeployList[i] : i \in DOMAIN DeployList}

File == {"result.tar"} \cup ReleaseFile

ASSUME StorageAssumption ==
    /\ Files \in Seq(STRING \ {"result.tar", "checksums"})
    /\ \A i, j \in DOMAIN Files : Files[i] = Files[j] => i = j
    /\ CacheOn \in [Client -> SUBSET Server]
    /\ Transport \in [Server -> {"file", "rsync+ssh", "scp"}]
    /\ Permissions \subseteq Server
    /\ Deploy \in BOOLEAN
    /\ NetworkFails \in BOOLEAN
    /\ MaxBuild \in Nat

VARIABLES
    server,     \* server[f]: the content of f on its server
    cached,     \* cached[c][f]: the content of f in the cache of c
    at,         \* at[c]: the step c's invocation is in, and its file
    opts,       \* opts[c]: its options
    built,      \* built[c]: the build it made, 0 if it made none
    tmpfile,    \* tmpfile[c]: the temporary file of a download: the content it
                \* is a copy of, and whether all of it has arrived
    builds      \* the number of builds so far

vars == <<server, cached, at, opts, built, tmpfile, builds>>

Absent == 0
Partial == -1
Content == Partial .. MaxBuild

ServerOf(f) == IF f = "result.tar" THEN "results" ELSE "releases"

\* The flags of cache.push_file: try_hardlink is set for result.tar only.
TryHardlink(f) == f = "result.tar"

Steps ==
    {"idle", "success", "result_available", "build", "push_cache", "link_cache",
     "push_server", "link_server", "scp_server", "helper_deploy", "linklast",
     "fetch", "rename"}

Options == [force : BOOLEAN, writeback : SUBSET Server]

At(c, s) == at[c][1] = s

FileOf(c) == at[c][2]

Goto(c, s, f) == at' = [at EXCEPT ![c] = <<s, f>>]

NoTmpfile == [of |-> Absent, whole |-> FALSE]

PutServer(f, x) == server' = [server EXCEPT ![f] = x]

PutCache(c, f, x) == cached' = [cached EXCEPT ![c][f] = x]

-----------------------------------------------------------------------------
Init ==
    /\ server = [f \in File |-> Absent]
    /\ cached = [c \in Client |-> [f \in File |-> Absent]]
    /\ at = [c \in Client |-> <<"idle", "result.tar">>]
    /\ opts = [c \in Client |-> [force |-> FALSE, writeback |-> {}]]
    /\ built = [c \in Client |-> 0]
    /\ tmpfile = [c \in Client |-> NoTmpfile]
    /\ builds = 0

\* policy.init refuses a server with neither cache nor writeback.
start(c) ==
    /\ at[c][1] \in {"idle", "success"}
    /\ \E o \in Options :
          /\ Server \subseteq o.writeback \cup CacheOn[c]
          /\ opts' = [opts EXCEPT ![c] = o]
    /\ Goto(c, "result_available", "result.tar")
    /\ built' = [built EXCEPT ![c] = 0]
    /\ tmpfile' = [tmpfile EXCEPT ![c] = NoTmpfile]
    /\ UNCHANGED <<server, cached, builds>>

\* cache.file_in_cache.
InCache(c, f) == ServerOf(f) \in CacheOn[c] /\ cached[c][f] # Absent

\* cache.file_exists asks the cache, then the server.  With rsync+ssh a
\* connection problem and a missing file look the same.
result_available(c) ==
    /\ At(c, "result_available")
    /\ \/ /\ opts[c].force
          /\ Goto(c, "build", "result.tar")
       \/ /\ ~ opts[c].force
          /\ InCache(c, "result.tar") \/ server["result.tar"] # Absent
          /\ Goto(c, "linklast", "result.tar")
       \/ /\ ~ opts[c].force
          /\ ~ InCache(c, "result.tar")
          /\ \/ server["result.tar"] = Absent
             \/ NetworkFails /\ Transport["results"] = "rsync+ssh"
          /\ Goto(c, "build", "result.tar")
    /\ UNCHANGED <<server, cached, opts, built, tmpfile, builds>>

\* Where cache.push_file starts: with a cache, the file goes there first.
PushStart(c, f) ==
    IF ServerOf(f) \in CacheOn[c] THEN Goto(c, "push_cache", f)
                                  ELSE Goto(c, "push_server", f)

\* What follows when a file has been pushed: result.tar is deployed, and the
\* loop in helper_deploy takes the next file.
PushDone(c, f) ==
    \/ f = "result.tar" /\ Goto(c, "helper_deploy", f)
    \/ \E i \in DOMAIN DeployList :
          /\ f = DeployList[i]
          /\ \/ i < Len(DeployList) /\ PushStart(c, DeployList[i + 1])
             \/ i = Len(DeployList) /\ Goto(c, "linklast", "result.tar")

\* cache_writeback does nothing when writeback is off.
CacheDone(c, f) ==
    \/ ServerOf(f) \in opts[c].writeback /\ Goto(c, "push_server", f)
    \/ ServerOf(f) \notin opts[c].writeback /\ PushDone(c, f)

\* The build in the chroot and the packing of result.tar.
build(c) ==
    /\ At(c, "build")
    /\ builds < MaxBuild
    /\ builds' = builds + 1
    /\ built' = [built EXCEPT ![c] = builds + 1]
    /\ PushStart(c, "result.tar")
    /\ UNCHANGED <<server, cached, opts, tmpfile>>

-----------------------------------------------------------------------------
(* cache.push_file and transport.push_file.                                *)

\* The cache is local: hardlink, if asked for, or rsync.
push_cache(c) ==
    /\ At(c, "push_cache")
    /\ \/ /\ TryHardlink(FileOf(c))
          /\ PutCache(c, FileOf(c), Absent)
          /\ Goto(c, "link_cache", FileOf(c))
       \/ /\ ~ TryHardlink(FileOf(c))
          /\ PutCache(c, FileOf(c), built[c])
          /\ CacheDone(c, FileOf(c))
    /\ UNCHANGED <<server, opts, built, tmpfile, builds>>

link_cache(c) ==
    /\ At(c, "link_cache")
    /\ PutCache(c, FileOf(c), built[c])
    /\ CacheDone(c, FileOf(c))
    /\ UNCHANGED <<server, opts, built, tmpfile, builds>>

\* The cached file is pushed if there is a cache, the built one if not.
Source(c, f) == IF ServerOf(f) \in CacheOn[c] THEN cached[c][f] ELSE built[c]

\* Hardlinks are for url scheme file:// without push_permissions.
Hardlinks(f) ==
    /\ TryHardlink(f)
    /\ Transport[ServerOf(f)] = "file"
    /\ ServerOf(f) \notin Permissions

\* Fault: the upload is not waited for.
push_server_not_waited(c) ==
    /\ At(c, "push_server")
    /\ PushDone(c, FileOf(c))
    /\ UNCHANGED <<server, cached, opts, built, tmpfile, builds>>

\* rsync replaces a file atomically; scp writes in place; a hardlink can only
\* be made when the old file is gone.
push_server(c) ==
    /\ At(c, "push_server")
    /\ \/ /\ Hardlinks(FileOf(c))
          /\ PutServer(FileOf(c), Absent)
          /\ Goto(c, "link_server", FileOf(c))
       \/ /\ ~ Hardlinks(FileOf(c))
          /\ Transport[ServerOf(FileOf(c))] # "scp"
          /\ PutServer(FileOf(c), Source(c, FileOf(c)))
          /\ PushDone(c, FileOf(c))
       \/ /\ Transport[ServerOf(FileOf(c))] = "scp"
          /\ PutServer(FileOf(c), Partial)
          /\ Goto(c, "scp_server", FileOf(c))
    /\ UNCHANGED <<cached, opts, built, tmpfile, builds>>

\* The hardlink is made, or rsync copies instead; scp completes the file.
complete_push(c) ==
    /\ At(c, "link_server") \/ At(c, "scp_server")
    /\ PutServer(FileOf(c), Source(c, FileOf(c)))
    /\ PushDone(c, FileOf(c))
    /\ UNCHANGED <<cached, opts, built, tmpfile, builds>>

-----------------------------------------------------------------------------
\* Fault: an earlier release is not looked for.
helper_deploy_always(c) ==
    /\ At(c, "helper_deploy")
    /\ Deploy
    /\ PushStart(c, DeployList[1])
    /\ UNCHANGED <<server, cached, opts, built, tmpfile, builds>>

\* A release that can be fetched is not deployed again; any error while
\* fetching is taken for "not yet deployed".
helper_deploy(c) ==
    /\ At(c, "helper_deploy")
    /\ \/ /\ Deploy => server["checksums"] # Absent
          /\ Goto(c, "linklast", "result.tar")
       \/ /\ Deploy
          /\ server["checksums"] = Absent \/ NetworkFails
          /\ PushStart(c, DeployList[1])
    /\ UNCHANGED <<server, cached, opts, built, tmpfile, builds>>

\* The result must be at hand: in the cache, or to be fetched into it, or on
\* the server when there is no cache.  A download begins with a temporary file
\* that is not whole yet.
linklast(c) ==
    /\ At(c, "linklast")
    /\ \/ /\ InCache(c, "result.tar")
          /\ Goto(c, "success", "result.tar")
          /\ UNCHANGED tmpfile
       \/ /\ ~ InCache(c, "result.tar")
          /\ server["result.tar"] # Absent
          /\ \/ /\ "results" \in CacheOn[c]
                /\ tmpfile' = [tmpfile EXCEPT ![c] =
                      [of |-> server["result.tar"], whole |-> FALSE]]
                /\ Goto(c, "fetch", "result.tar")
             \/ /\ "results" \notin CacheOn[c]
                /\ Goto(c, "success", "result.tar")
                /\ UNCHANGED tmpfile
    /\ UNCHANGED <<server, cached, opts, built, builds>>

\* What arrives: the file that was opened; scp pushes write into that file.
Sent(c) ==
    IF Transport["results"] = "scp" /\ server["result.tar"] # tmpfile[c].of
    THEN Partial ELSE tmpfile[c].of

\* Fault: the status of the transfer is not looked at.
fetch_unchecked(c) ==
    /\ At(c, "fetch")
    /\ \E all \in BOOLEAN :
          tmpfile' = [tmpfile EXCEPT ![c] = [of |-> Sent(c), whole |-> all]]
    /\ Goto(c, "rename", "result.tar")
    /\ UNCHANGED <<server, cached, opts, built, builds>>

\* The transfer ends well.  One that does not is an error (stop), and leaves
\* what has arrived under the temporary name.
fetch(c) ==
    /\ At(c, "fetch")
    /\ tmpfile' = [tmpfile EXCEPT ![c] = [of |-> Sent(c), whole |-> TRUE]]
    /\ Goto(c, "rename", "result.tar")
    /\ UNCHANGED <<server, cached, opts, built, builds>>

\* What is in the temporary file.
Received(c) == IF tmpfile[c].whole THEN tmpfile[c].of ELSE Partial

\* Fault: the download keeps its temporary name.
rename_forgotten(c) ==
    /\ At(c, "rename")
    /\ cached' = [cached EXCEPT ![c] = [f \in File \cup {"result.tar.XXXXXX"} |->
                     IF f \in File THEN @[f] ELSE Received(c)]]
    /\ Goto(c, "success", "result.tar")
    /\ UNCHANGED <<server, opts, built, tmpfile, builds>>

\* transport.fetch_file moves the downloaded file into place.
rename(c) ==
    /\ At(c, "rename")
    /\ PutCache(c, "result.tar", Received(c))
    /\ Goto(c, "success", "result.tar")
    /\ UNCHANGED <<server, opts, built, tmpfile, builds>>

\* An error, a signal or a crash ends the invocation where it is.
stop(c) ==
    /\ at[c][1] \notin {"idle", "success"}
    /\ Goto(c, "idle", "result.tar")
    /\ UNCHANGED <<server, cached, opts, built, tmpfile, builds>>

Next ==
    \E c \in Client :
        \/ start(c) \/ result_available(c) \/ build(c)
        \/ push_cache(c) \/ link_cache(c) \/ push_server(c) \/ complete_push(c)
        \/ helper_deploy(c) \/ linklast(c) \/ fetch(c) \/ rename(c) \/ stop(c)

Spec == Init /\ [][Next]_vars

-----------------------------------------------------------------------------
TypeOK ==
    /\ server \in [File -> Content]
    /\ cached \in [Client -> [File -> Content]]
    /\ at \in [Client -> Steps \X File]
    /\ opts \in [Client -> Options]
    /\ built \in [Client -> 0 .. MaxBuild]
    /\ tmpfile \in [Client -> [of : Content, whole : BOOLEAN]]
    /\ builds \in 0 .. MaxBuild

\* The release of a result is whole once its checksums file is there, whoever
\* pushed it and whatever failed meanwhile: helper_deploy pushes it last.
ReleaseComplete ==
    server["checksums"] # Absent => \A f \in ReleaseFile : server[f] # Absent

\* Nobody finds half a file, in a cache or on a server that is not written
\* with scp, whenever a transfer breaks or an invocation is killed:
\* transport.fetch_file renames only what a transfer without error has left.
NeverPartial ==
    /\ \A f \in File : server[f] = Partial => Transport[ServerOf(f)] = "scp"
    /\ \A c \in Client, f \in File :
          cached[c][f] = Partial => Transport[ServerOf(f)] = "scp"

\* An invocation that built the result and succeeded has stored it where
\* writeback was on, and has deployed it.
BuiltMeansStored ==
    \A c \in Client : At(c, "success") /\ built[c] # 0 =>
        /\ "results" \in opts[c].writeback => server["result.tar"] # Absent
        /\ Deploy /\ "releases" \in opts[c].writeback => server["checksums"] # Absent

\* The files of a release and its checksums come from the same build.
ReleaseConsistent ==
    server["checksums"] # Absent =>
        \A f \in ReleaseFile : server[f] = server["checksums"]

\* "do not re-deploy if this release was already done earlier": a deployed
\* release does not change any more (helper_deploy).
ReleaseUnchanged ==
    [][server["checksums"] # Absent =>
          \A f \in ReleaseFile : server'[f] = server[f]]_vars
====
