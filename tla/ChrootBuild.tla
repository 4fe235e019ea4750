---------------------------- MODULE ChrootBuild ----------------------------
(***************************************************************************)
(* The build process of e2factory (local/e2build.lua) with the chroot lock *)
(* (generic/lock.lua) and the exit path of a tool (generic/e2lib.lua).     *)
(*                                                                         *)
(* A process is one invocation of e2-build or e2-playground.  The chroot   *)
(* of a result lives in a directory named after the user, the project and  *)
(* the result (result.lua build_config), so all invocations of a user meet *)
(* there: a lock directory, a marker file and the chroot directory itself. *)
(* Every action is one system call or one external command that changes    *)
(* this shared state, so that other processes, and SIGKILL, can come       *)
(* between any two of them.                                                *)
(***************************************************************************)
EXTENDS Naturals, Sequences, FiniteSets

CONSTANTS
    Proc,           \* invocations of the tools
    Result,         \* results of the project
    Jobs,           \* the sorted result lists a build may be asked for
    Depends,        \* Depends[r]: the results that r depends on
    ExecFails       \* a forked child may fail before it has become the tool

ASSUME JobsAssumption ==
    /\ Jobs \subseteq Seq(Result) \ {<<>>}
    /\ Depends \in [Result -> SUBSET Result]
    /\ \A j \in Jobs : \A i \in DOMAIN j :
          Depends[j[i]] \subseteq {j[k] : k \in 1 .. i - 1}
    /\ ExecFails \in BOOLEAN

\* The two values that Owner has when no process owns a chroot.
ASSUME ProcAssumption == "nobody" \notin Proc /\ "stale" \notin Proc

VARIABLES
    lockdir,    \* results whose lock directory exists
    marker,     \* results whose chroot marker file exists
    chroot,     \* results whose chroot directory exists
    files,      \* files[r]: the builds that put files into r's chroot
    profile,    \* results whose chroot holds a playground's profile
    stored,     \* results whose result.tar is in the result storage
    tmpdirs,    \* running processes with a temporary directory in globals.tmpdirs
    tmpfiles,   \* running processes with a temporary file in globals.tmpfiles
    unremoved,  \* results whose lock directory is there after a failed rmdir()
    at,         \* at[p]: the step p is in, and how far into it
    todo,       \* todo[p]: the results left to do, the current one first
    settings,   \* settings[p]: the build settings of the invocation
    locks,      \* locks[p]: l.locks, the lock directories p has to remove
    child       \* child[p]: the copy of l.locks in a child of p that aborts

\* The lock directories, and the temporary files the processes leave.
dirs == <<lockdir, unremoved>>
temps == <<tmpdirs, tmpfiles>>
disk == <<dirs, marker, chroot, files, profile, stored, temps>>
proc == <<at, todo, settings, locks, child>>
vars == <<disk, proc>>

-----------------------------------------------------------------------------
(* The steps, and the order in which initialize() adds them.               *)

\* The steps that only put files into the chroot, below bc.T.
InstallSteps ==
    {"install_directory_structure", "install_build_script", "install_env",
     "install_init_files", "install_build_driver", "install_sources",
     "fix_permissions"}

\* The steps from _chroot_lock, when it is done, to _chroot_unlock.
LockedSteps ==
    InstallSteps \cup
    {"chroot_cleanup_if_exists", "setup_chroot",
     "install_build_time_dependencies", "build_playground", "runbuild",
     "store_result", "linklast", "chroot_cleanup", "chroot_unlock"}

BuildSteps == LockedSteps \cup {"result_available", "chroot_lock"}

PlaygroundSteps == {"chroot_exists", "enter_playground"}

\* _next_step(): the step after each step of a mode.
next_step ==
    [result_available |-> "chroot_lock",
     chroot_lock |-> "chroot_cleanup_if_exists",
     chroot_cleanup_if_exists |-> "setup_chroot",
     setup_chroot |-> "install_directory_structure",
     install_directory_structure |-> "install_build_script",
     install_build_script |-> "install_env",
     install_env |-> "install_init_files",
     install_init_files |-> "install_build_driver",
     install_build_driver |-> "install_build_time_dependencies",
     install_build_time_dependencies |-> "install_sources",
     install_sources |-> "fix_permissions",
     fix_permissions |-> "build_playground",
     build_playground |-> "runbuild",
     runbuild |-> "store_result",
     store_result |-> "linklast",
     linklast |-> "chroot_cleanup",
     chroot_cleanup |-> "chroot_unlock",
     chroot_exists |-> "enter_playground"]

\* Where a process can be; a number counts the calls a step has made, 3 when
\* it waits for a child that aborts.
Positions ==
    ({"none", "finish", "exited", "killed"} \cup BuildSteps \cup PlaygroundSteps)
        \X (0 .. 3)

\* The results each build setting is set for.
Settings == [keep : SUBSET Result, force : SUBSET Result, prep : SUBSET Result]

DefaultSettings == [keep |-> {}, force |-> {}, prep |-> {}]

Cur(p) == Head(todo[p])

Alive(p) == at[p][1] \notin {"none", "exited", "killed"}

At(p, s, k) == at[p] = <<s, k>>

Goto(p, s, k) == at' = [at EXCEPT ![p] = <<s, k>>]

StepDone(p, s) ==
    /\ Goto(p, next_step[s], 0)
    /\ UNCHANGED <<todo, settings>>

\* Fault: the end of the list of results is missed by one.
NextResult_one_more(p) ==
    /\ todo' = [todo EXCEPT ![p] = Tail(@)]
    /\ \/ /\ Len(todo[p]) >= 1
          /\ Goto(p, "result_available", 0)
       \/ /\ Len(todo[p]) = 0
          /\ Goto(p, "finish", 0)
    /\ UNCHANGED settings

\* build_set:build() goes on with the next result, or the tool is done.
NextResult(p) ==
    /\ todo' = [todo EXCEPT ![p] = Tail(@)]
    /\ \/ /\ Len(todo[p]) > 1
          /\ Goto(p, "result_available", 0)
       \/ /\ Len(todo[p]) = 1
          /\ Goto(p, "finish", 0)
    /\ UNCHANGED settings

\* Fault: a failed result does not stop the build set.
StepFailed_goes_on(p) == NextResult(p)

\* build_process_class:build() stops at the first step that fails, and so
\* do build_set:build() and the tool.
StepFailed(p) ==
    /\ Goto(p, "finish", 0)
    /\ UNCHANGED <<todo, settings>>

-----------------------------------------------------------------------------
Init ==
    /\ lockdir = {}
    /\ marker = {}
    /\ chroot = {}
    /\ files = [r \in Result |-> {}]
    /\ profile = {}
    /\ stored = {}
    /\ tmpdirs = {}
    /\ tmpfiles = {}
    /\ unremoved = {}
    /\ at = [p \in Proc |-> <<"none", 0>>]
    /\ todo = [p \in Proc |-> <<>>]
    /\ settings = [p \in Proc |-> DefaultSettings]
    /\ locks = [p \in Proc |-> {}]
    /\ child = [p \in Proc |-> {}]

ResultsOf(j) == {j[i] : i \in DOMAIN j}

\* build_results: the results given to e2-build, selected or with a build mode
\* of their own, whose sorted dependencies are j; none when the defaults of the
\* project are built.
Given(j) ==
    {S \in SUBSET ResultsOf(j) :
        S # {} => \A r \in ResultsOf(j) \ S : \E q \in ResultsOf(j) : r \in Depends[q]}

\* e2-build: --keep, --force-rebuild and --playground hold for every result that
\* was given, whatever its build mode.  A result in working-copy mode (some of
\* them, or all of the list with --working-copy) is built like a forced one.
\* For a playground --keep and --force-rebuild are never looked at.
StartBuild(p) ==
    /\ At(p, "none", 0)
    /\ \E j \in Jobs : \E S \in Given(j) :
          /\ todo' = [todo EXCEPT ![p] = j]
          /\ \E keep, prep \in {{}, S}, force \in (SUBSET S) \cup {ResultsOf(j)} :
                settings' = [settings EXCEPT ![p] =
                    [keep |-> keep \ prep, force |-> force \ prep, prep |-> prep]]
    /\ Goto(p, "result_available", 0)
    /\ UNCHANGED <<disk, locks, child>>

\* e2-playground: every other result of the list is skipped at once.
StartPlayground(p) ==
    /\ At(p, "none", 0)
    /\ \E r \in Result : todo' = [todo EXCEPT ![p] = <<r>>]
    /\ Goto(p, "chroot_exists", 0)
    /\ UNCHANGED <<disk, settings, locks, child>>

-----------------------------------------------------------------------------
(* The steps of process mode "build".                                      *)

\* A result that is already stored is linked and skipped, unless it was
\* asked to be built anyway.  (A working-copy build behaves like force.)
result_available(p) ==
    /\ At(p, "result_available", 0)
    /\ \/ /\ Cur(p) \in settings[p].prep \cup settings[p].force
          /\ StepDone(p, "result_available")
       \/ /\ Cur(p) \notin settings[p].prep \cup settings[p].force
          /\ Cur(p) \notin stored
          /\ StepDone(p, "result_available")
       \/ /\ Cur(p) \notin settings[p].prep \cup settings[p].force
          /\ Cur(p) \in stored
          /\ NextResult(p)
    /\ UNCHANGED <<disk, locks, child>>

\* Fault: EEXIST is taken for success.
chroot_lock_eexist_ok(p) ==
    /\ At(p, "chroot_lock", 0)
    /\ lockdir' = lockdir \cup {Cur(p)}
    /\ locks' = [locks EXCEPT ![p] = @ \cup {Cur(p)}]
    /\ StepDone(p, "chroot_lock")
    /\ UNCHANGED <<unremoved, marker, chroot, files, profile, stored, temps, child>>

\* mkdir() either makes the lock directory or fails with EEXIST.
chroot_lock(p) ==
    /\ At(p, "chroot_lock", 0)
    /\ \/ /\ Cur(p) \notin lockdir
          /\ lockdir' = lockdir \cup {Cur(p)}
          /\ locks' = [locks EXCEPT ![p] = @ \cup {Cur(p)}]
          /\ StepDone(p, "chroot_lock")
       \/ /\ Cur(p) \in lockdir
          /\ StepFailed(p)
          /\ UNCHANGED <<lockdir, locks>>
    /\ UNCHANGED <<unremoved, marker, chroot, files, profile, stored, temps, child>>

\* A chroot without a marker is not touched.
chroot_cleanup_if_exists(p) ==
    /\ At(p, "chroot_cleanup_if_exists", 0)
    /\ \/ /\ Cur(p) \notin marker
          /\ Cur(p) \notin chroot
          /\ StepDone(p, "chroot_cleanup_if_exists")
       \/ /\ Cur(p) \notin marker
          /\ Cur(p) \in chroot
          /\ StepFailed(p)
       \/ /\ Cur(p) \in marker
          /\ Goto(p, "chroot_cleanup_if_exists", 1)
          /\ UNCHANGED <<todo, settings>>
    /\ UNCHANGED <<disk, locks, child>>

\* Fault: the directory is renewed, what was put into it stays.
remove_chroot_keeps_files(p) ==
    /\ \E s \in {"chroot_cleanup_if_exists", "chroot_cleanup"} :
          /\ At(p, s, 1)
          /\ chroot' = chroot \ {Cur(p)}
          /\ Goto(p, s, 2)
    /\ UNCHANGED <<dirs, marker, files, profile, stored, temps, todo, settings, locks, child>>

\* helper_chroot_remove, first half: e2-su removes the chroot, if it finds
\* the marker.
remove_chroot(p) ==
    /\ \E s \in {"chroot_cleanup_if_exists", "chroot_cleanup"} :
          /\ At(p, s, 1)
          /\ \/ /\ Cur(p) \in marker
                /\ chroot' = chroot \ {Cur(p)}
                /\ files' = [files EXCEPT ![Cur(p)] = {}]
                /\ profile' = profile \ {Cur(p)}
                /\ Goto(p, s, 2)
                /\ UNCHANGED <<todo, settings>>
             \/ /\ Cur(p) \notin marker
                /\ StepFailed(p)
                /\ UNCHANGED <<chroot, files, profile>>
    /\ UNCHANGED <<dirs, marker, stored, temps, locks, child>>

\* helper_chroot_remove, second half: then the marker is unlinked.
unlink_marker(p) ==
    /\ \E s \in {"chroot_cleanup_if_exists", "chroot_cleanup"} :
          /\ At(p, s, 2)
          /\ \/ /\ Cur(p) \in marker
                /\ marker' = marker \ {Cur(p)}
                /\ StepDone(p, s)
             \/ /\ Cur(p) \notin marker
                /\ StepFailed(p)
                /\ UNCHANGED marker
    /\ UNCHANGED <<dirs, chroot, files, profile, stored, temps, locks, child>>

\* Fault: the marker is left for later.
create_marker_late(p) ==
    /\ At(p, "setup_chroot", 0)
    /\ Goto(p, "setup_chroot", 1)
    /\ UNCHANGED <<disk, todo, settings, locks, child>>

\* _setup_chroot: the marker first, then the directory, then its content.
create_marker(p) ==
    /\ At(p, "setup_chroot", 0)
    /\ marker' = marker \cup {Cur(p)}
    /\ Goto(p, "setup_chroot", 1)
    /\ UNCHANGED <<dirs, chroot, files, profile, stored, temps, todo, settings, locks, child>>

mkdir_chroot(p) ==
    /\ At(p, "setup_chroot", 1)
    /\ \/ /\ Cur(p) \notin chroot
          /\ chroot' = chroot \cup {Cur(p)}
          /\ Goto(p, "setup_chroot", 2)
          /\ UNCHANGED <<todo, settings>>
       \/ /\ Cur(p) \in chroot
          /\ StepFailed(p)
          /\ UNCHANGED chroot
    /\ UNCHANGED <<dirs, marker, files, profile, stored, temps, locks, child>>

\* set_permissions and one tar file after the other of the chroot groups.
extract_tar(p) ==
    /\ At(p, "setup_chroot", 2)
    /\ files' = [files EXCEPT ![Cur(p)] = @ \cup {p}]
    /\ StepDone(p, "setup_chroot")
    /\ UNCHANGED <<dirs, marker, chroot, profile, stored, temps, locks, child>>

install_step(p) ==
    /\ \E s \in InstallSteps :
          /\ At(p, s, 0)
          /\ StepDone(p, s)
    /\ files' = [files EXCEPT ![Cur(p)] = @ \cup {p}]
    /\ UNCHANGED <<dirs, marker, chroot, profile, stored, temps, locks, child>>

\* A dependency that is not in the storage cannot be unpacked.
install_build_time_dependencies(p) ==
    /\ At(p, "install_build_time_dependencies", 0)
    /\ \/ /\ Depends[Cur(p)] \subseteq stored
          /\ files' = [files EXCEPT ![Cur(p)] = @ \cup {p}]
          /\ StepDone(p, "install_build_time_dependencies")
       \/ /\ ~ Depends[Cur(p)] \subseteq stored
          /\ StepFailed(p)
          /\ UNCHANGED files
    /\ UNCHANGED <<dirs, marker, chroot, profile, stored, temps, locks, child>>

\* A playground is left as it is: the lock is kept until the tool ends.
build_playground(p) ==
    /\ At(p, "build_playground", 0)
    /\ \/ Cur(p) \in settings[p].prep /\ NextResult(p)
       \/ Cur(p) \notin settings[p].prep /\ StepDone(p, "build_playground")
    /\ UNCHANGED <<disk, locks, child>>

runbuild(p) ==
    /\ At(p, "runbuild", 0)
    /\ StepDone(p, "runbuild")
    /\ UNCHANGED <<disk, locks, child>>

store_result(p) ==
    /\ At(p, "store_result", 0)
    /\ stored' = stored \cup {Cur(p)}
    /\ StepDone(p, "store_result")
    /\ UNCHANGED <<dirs, marker, chroot, files, profile, temps, locks, child>>

\* The link out/<result>/last concerns this checkout only.
linklast(p) ==
    /\ At(p, "linklast", 0)
    /\ StepDone(p, "linklast")
    /\ UNCHANGED <<disk, locks, child>>

chroot_cleanup(p) ==
    /\ At(p, "chroot_cleanup", 0)
    /\ \/ Cur(p) \in settings[p].keep /\ StepDone(p, "chroot_cleanup")
       \/ /\ Cur(p) \notin settings[p].keep
          /\ Goto(p, "chroot_cleanup", 1)
          /\ UNCHANGED <<todo, settings>>
    /\ UNCHANGED <<disk, locks, child>>

\* rmdir() removes the lock directory, whoever made it, or fails: the directory
\* is not there, or it cannot be removed and stays.
rmdir_done(r) ==
    /\ r \in lockdir
    /\ lockdir' = lockdir \ {r}
    /\ unremoved' = unremoved \ {r}

rmdir_failed(r) ==
    /\ unremoved' = unremoved \cup ({r} \cap lockdir)
    /\ UNCHANGED lockdir

\* Fault: the entry stays in the list, so that exit removes the directory again.
unlock_keeps_entry(p, r) ==
    /\ r \in locks[p]
    /\ locks' = [locks EXCEPT ![p] = IF at[p][1] = "finish" THEN @ \ {r} ELSE @]

\* lock.unlock: the entry leaves the list before rmdir() is tried.
unlock(p, r) ==
    /\ r \in locks[p]
    /\ locks' = [locks EXCEPT ![p] = @ \ {r}]

\* _chroot_unlock fails when rmdir() does; the lock is off the list all the same.
chroot_unlock(p) ==
    /\ At(p, "chroot_unlock", 0)
    /\ \/ /\ unlock(p, Cur(p))
          /\ \/ rmdir_done(Cur(p)) /\ NextResult(p)
             \/ rmdir_failed(Cur(p)) /\ StepFailed(p)
       \/ /\ Cur(p) \notin locks[p]
          /\ NextResult(p)
          /\ UNCHANGED <<dirs, locks>>
    /\ UNCHANGED <<marker, chroot, files, profile, stored, temps, child>>

-----------------------------------------------------------------------------
(* The steps of process mode "playground": no lock is taken.               *)

chroot_exists(p) ==
    /\ At(p, "chroot_exists", 0)
    /\ \/ /\ Cur(p) \in marker
          /\ StepDone(p, "chroot_exists")
       \/ Cur(p) \notin marker /\ StepFailed(p)
    /\ UNCHANGED <<disk, locks, child>>

\* The profile goes into a directory that an unpacked chroot has.
write_profile(p) ==
    /\ At(p, "enter_playground", 0)
    /\ \/ /\ files[Cur(p)] # {}
          /\ profile' = profile \cup {Cur(p)}
          /\ Goto(p, "enter_playground", 1)
          /\ UNCHANGED <<todo, settings>>
       \/ /\ files[Cur(p)] = {}
          /\ StepFailed(p)
          /\ UNCHANGED profile
    /\ UNCHANGED <<dirs, marker, chroot, files, stored, temps, locks, child>>

\* The user leaves the shell; what it returned is ignored.
leave_playground(p) ==
    /\ At(p, "enter_playground", 1)
    /\ NextResult(p)
    /\ UNCHANGED <<disk, locks, child>>

-----------------------------------------------------------------------------
(* Errors, the exit path, and what happens from outside.                   *)

\* The points at which a call may fail (a full disk, a server out of reach,
\* a failing tool or build script, a signal) before it changed anything.
MayFail ==
    {<<s, 0>> : s \in {"result_available", "chroot_lock", "setup_chroot",
                       "install_build_time_dependencies", "runbuild",
                       "store_result", "linklast", "enter_playground"}
                     \cup InstallSteps}
    \cup {<<"chroot_cleanup_if_exists", 1>>, <<"chroot_cleanup_if_exists", 2>>,
          <<"setup_chroot", 1>>, <<"setup_chroot", 2>>,
          <<"chroot_cleanup", 1>>, <<"chroot_cleanup", 2>>,
          <<"enter_playground", 1>>}

\* The steps that work in a temporary directory, or with a temporary file, which
\* an error leaves behind.
UsesTmpdir == {"install_build_time_dependencies", "install_sources", "store_result"}
UsesTmpfile == {"install_sources"}

step_fails(p) ==
    /\ at[p] \in MayFail
    /\ StepFailed(p)
    /\ tmpdirs' \in {tmpdirs, tmpdirs \cup {q \in {p} : at[q][1] \in UsesTmpdir}}
    /\ tmpfiles' \in {tmpfiles, tmpfiles \cup {q \in {p} : at[q][1] \in UsesTmpfile}}
    /\ UNCHANGED <<dirs, marker, chroot, files, profile, stored, locks, child>>

\* The points at which a step forks a child to run an external command.
Forks ==
    {<<"chroot_cleanup_if_exists", 1>>, <<"setup_chroot", 2>>,
     <<"install_build_time_dependencies", 0>>, <<"install_sources", 0>>,
     <<"fix_permissions", 0>>, <<"runbuild", 0>>, <<"store_result", 0>>,
     <<"chroot_cleanup", 1>>}

\* do_fork: a child that cannot chdir(), exec() or reach its parent calls
\* e2lib.abort().  It has a copy of the parent's lists, and its e2lib.cleanup()
\* removes the parent's temporary files and then the lock directories, unless
\* it is cut short by a temporary directory that cannot be removed.
child_aborts(p) ==
    /\ ExecFails
    /\ at[p] \in Forks
    /\ Goto(p, at[p][1], 3)
    /\ \/ child' = [child EXCEPT ![p] = locks[p]] /\ UNCHANGED tmpdirs
       \/ /\ at[p][1] \in UsesTmpdir
          /\ tmpdirs' = tmpdirs \cup {p}
          /\ UNCHANGED child
    /\ UNCHANGED <<dirs, marker, chroot, files, profile, stored, tmpfiles, todo,
                   settings, locks>>

\* lock.cleanup in the child.
child_unlocks(p) ==
    /\ \E r \in child[p] :
          /\ child' = [child EXCEPT ![p] = @ \ {r}]
          /\ rmdir_done(r) \/ rmdir_failed(r)
    /\ UNCHANGED <<marker, chroot, files, profile, stored, temps, at, todo, settings,
                   locks>>

\* The parent, which still has the locks in its list, sees exit status 1.
child_failed(p) ==
    /\ at[p][2] = 3
    /\ child[p] = {}
    /\ StepFailed(p)
    /\ UNCHANGED <<disk, locks, child>>

\* The process ends, and what it kept in memory is gone: its cleanup was complete
\* (k = 0) or cut short (k = 1).
Ended(p, s, k) ==
    /\ Goto(p, s, k)
    /\ tmpdirs' = tmpdirs \ {p}
    /\ tmpfiles' = tmpfiles \ {p}
    /\ todo' = [todo EXCEPT ![p] = <<>>]
    /\ settings' = [settings EXCEPT ![p] = DefaultSettings]
    /\ locks' = [locks EXCEPT ![p] = {}]
    /\ child' = [child EXCEPT ![p] = {}]

\* e2lib.finish and e2lib.cleanup.  The plugins' exit functions and the cleanup
\* callback (the checksum cache is stored) touch nothing of this; temporary
\* directories are next.  If one cannot be removed, warnf(3, ...) raises an error
\* and nothing else is cleaned up.
rmtempdirs(p) ==
    /\ At(p, "finish", 0)
    /\ \/ /\ Goto(p, "finish", 1)
          /\ tmpdirs' = tmpdirs \ {p}
          /\ UNCHANGED <<tmpfiles, todo, settings, locks, child>>
       \/ p \in tmpdirs /\ Ended(p, "exited", 1)
    /\ UNCHANGED <<dirs, marker, chroot, files, profile, stored>>

\* Then temporary files, with the same warnf(3, ...).
rmtempfiles(p) ==
    /\ At(p, "finish", 1)
    /\ \/ /\ Goto(p, "finish", 2)
          /\ tmpfiles' = tmpfiles \ {p}
          /\ UNCHANGED <<tmpdirs, todo, settings, locks, child>>
       \/ p \in tmpfiles /\ Ended(p, "exited", 1)
    /\ UNCHANGED <<dirs, marker, chroot, files, profile, stored>>

\* Fault: the tool exits without lock.cleanup.
lock_cleanup_missing(p) ==
    /\ At(p, "finish", 2)
    /\ Ended(p, "exited", 0)
    /\ UNCHANGED <<dirs, marker, chroot, files, profile, stored>>

\* lock.cleanup: one lock after the other; a failed rmdir() is logged only.
lock_cleanup(p) ==
    /\ At(p, "finish", 2)
    /\ \/ /\ \E r \in locks[p] : unlock(p, r) /\ (rmdir_done(r) \/ rmdir_failed(r))
          /\ UNCHANGED <<temps, at, todo, settings, child>>
       \/ /\ locks[p] = {}
          /\ Ended(p, "exited", 0)
          /\ UNCHANGED dirs
    /\ UNCHANGED <<marker, chroot, files, profile, stored>>

\* SIGKILL to the tool and its children, a power failure.
kill(p) ==
    /\ Alive(p)
    /\ Ended(p, "killed", 1)
    /\ UNCHANGED <<dirs, marker, chroot, files, profile, stored>>

Holders(r) == {p \in Proc : r \in locks[p]}

\* The user follows the hint of lock.lock, 'if this is an error, try rmdir'.
rmdir_stale_lock(r) ==
    /\ r \in lockdir
    /\ Holders(r) = {}
    /\ lockdir' = lockdir \ {r}
    /\ unremoved' = unremoved \ {r}
    /\ UNCHANGED <<marker, chroot, files, profile, stored, temps, proc>>

-----------------------------------------------------------------------------
build_step(p) ==
    \/ result_available(p) \/ chroot_lock(p) \/ chroot_cleanup_if_exists(p)
    \/ remove_chroot(p) \/ unlink_marker(p) \/ create_marker(p)
    \/ mkdir_chroot(p) \/ extract_tar(p) \/ install_step(p)
    \/ install_build_time_dependencies(p) \/ build_playground(p)
    \/ runbuild(p) \/ store_result(p) \/ linklast(p) \/ chroot_cleanup(p)
    \/ chroot_unlock(p)

playground_step(p) ==
    chroot_exists(p) \/ write_profile(p) \/ leave_playground(p)

run(p) ==
    \/ build_step(p) \/ playground_step(p) \/ step_fails(p)
    \/ child_aborts(p) \/ child_unlocks(p) \/ child_failed(p)
    \/ rmtempdirs(p) \/ rmtempfiles(p) \/ lock_cleanup(p)

Next ==
    \/ \E p \in Proc : StartBuild(p) \/ StartPlayground(p) \/ run(p) \/ kill(p)
    \/ \E r \in Result : rmdir_stale_lock(r)

\* A started tool is scheduled; commands, build scripts and shells end.
Fairness == \A p \in Proc : WF_vars(run(p))

Spec == Init /\ [][Next]_vars /\ Fairness

-----------------------------------------------------------------------------
Typed ==
    /\ lockdir \subseteq Result
    /\ marker \subseteq Result
    /\ chroot \subseteq Result
    /\ files \in [Result -> SUBSET Proc]
    /\ profile \subseteq Result
    /\ stored \subseteq Result
    /\ tmpdirs \subseteq Proc
    /\ tmpfiles \subseteq Proc
    /\ unremoved \subseteq lockdir
    /\ at \in [Proc -> Positions]
    /\ todo \in [Proc -> Seq(Result)]
    /\ settings \in [Proc -> Settings]
    /\ locks \in [Proc -> SUBSET Result]
    /\ child \in [Proc -> SUBSET Result]

\* The state is well formed: the variables have their types, and a process in a
\* step of a build or a playground has a result to work on (build_set:build()).
TypeOK ==
    /\ Typed
    /\ \A p \in Proc : at[p][1] \in BuildSteps \cup PlaygroundSteps => todo[p] # <<>>

\* p works in the chroot of r; it does not when it only waits for a child that
\* aborted.
InChroot(p, r) ==
    /\ at[p][1] \in LockedSteps
    /\ at[p][2] # 3
    /\ Cur(p) = r

\* Two processes never work in the chroot of the same result: lock.lock
\* refuses the second one with 'chroot already in use!'.
MutualExclusion ==
    \A r \in Result : \A p, q \in Proc :
        InChroot(p, r) /\ InChroot(q, r) => p = q

\* A chroot directory always has its marker, whenever a process dies: the
\* marker is made before the directory and removed after it, so that
\* _chroot_cleanup_if_exists can always get rid of what is left over.
MarkerGuardsChroot == chroot \subseteq marker

\* The build script runs in a chroot that no other build put files into:
\* nothing is left of an earlier, killed or failed build of the result, and
\* nothing comes from a concurrent one (_chroot_cleanup_if_exists, the lock).
FreshChroot ==
    \A p \in Proc : at[p][1] = "runbuild" =>
        files[Cur(p)] = {p}

\* A build starts in a chroot of its own that can always be removed again:
\* _chroot_cleanup_if_exists, e2-build's lock and the order of the marker.
ChrootOfOneBuild == MarkerGuardsChroot /\ FreshChroot

\* build_set:build() works through a sorted list and stops at the first failure:
\* when a build unpacks its dependencies they are all stored, but for those that
\* the same invocation only prepared as a playground (--playground holds for the
\* results with a build mode of their own, too).
DependenciesStored ==
    \A p \in Proc : at[p][1] = "install_build_time_dependencies" =>
        Depends[Cur(p)] \ settings[p].prep \subseteq stored

\* The process is killed, or its exit stopped at a temporary directory or file
\* that cannot be removed.
CleanupCutShort(p) == at[p] \in {<<"killed", 1>>, <<"exited", 1>>}

\* A lock directory that is still there loses the process that has to remove it
\* in three cases only: the process is killed, its exit stops at a temporary
\* directory or file it cannot remove (rmtempdir, rmtempfile), or rmdir() itself
\* failed, after lock.unlock had taken the lock off its list.  On every other way
\* out lock.cleanup removes it ("remove all remaining lock directories").
OrphanedOnlyByFault ==
    [][\A r \in lockdir \cap lockdir' :
          Holders(r) # {} /\ Holders(r)' = {} =>
              r \in unremoved' \/ \E p \in Holders(r) : CleanupCutShort(p)']_vars

\* A lock is not kept for good: its holder removes it, by _chroot_unlock or
\* at exit, unless its cleanup is cut short or rmdir() fails.
LockReleased ==
    \A p \in Proc, r \in Result :
        r \in locks[p] ~> (r \notin lockdir \/ r \in unremoved \/ CleanupCutShort(p))

-----------------------------------------------------------------------------
\* The owner of a chroot is the process with the lock directory in its list.
Owner(r) ==
    CASE r \notin lockdir -> "nobody"
      [] r \in lockdir /\ Holders(r) = {} -> "stale"
      [] OTHER -> CHOOSE p \in Proc : r \in locks[p]

Protocol ==
    INSTANCE ChrootProtocol WITH
        Nobody <- "nobody", Stale <- "stale",
        owner <- [r \in Result |-> Owner(r)],
        marked <- marker, present <- chroot

\* The steps of the build processes, in any interleaving and with kills at any
\* point, implement the protocol: one owner at a time, and only the owner
\* makes, marks, removes and unmarks the chroot.
ImplementsProtocol == Protocol!Spec
====
