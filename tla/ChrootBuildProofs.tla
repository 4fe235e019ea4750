------------------------- MODULE ChrootBuildProofs -------------------------
(***************************************************************************)
(* Proofs about ChrootBuild, for any number of processes and results: the  *)
(* chroot lock excludes, a chroot always has its marker, a build runs in a *)
(* fresh chroot, with everything it depends on stored, and what the tools  *)
(* do to the chroots is what ChrootProtocol promises.  They hold as long   *)
(* as a forked child becomes the tool it was forked for (~ExecFails).      *)
(***************************************************************************)
EXTENDS ChrootBuild, TLAPS, SequenceTheorems

USE DEF dirs, temps

\* The steps in which the chroot is set up and has files of this build.
FilledSteps ==
    InstallSteps \cup
    {"install_build_time_dependencies", "build_playground", "runbuild"}

\* What a process knows while it works on a result: it has one to work on, in
\* the locked steps the lock is in its list, and it knows how far the chroot
\* has been removed or set up.
Local(p) ==
    /\ at[p][1] \in BuildSteps \cup PlaygroundSteps => todo[p] # <<>>
    /\ at[p][1] \in LockedSteps => Cur(p) \in locks[p]
    /\ \/ at[p] = <<"chroot_cleanup_if_exists", 2>>
       \/ at[p] = <<"chroot_cleanup", 2>>
       \/ at[p] = <<"setup_chroot", 0>>
       \/ at[p] = <<"setup_chroot", 1>>
       => Cur(p) \notin chroot
    /\ at[p] = <<"setup_chroot", 1>> => Cur(p) \in marker
    /\ at[p] = <<"setup_chroot", 2>> => Cur(p) \in chroot /\ files[Cur(p)] = {}
    /\ at[p][1] \in FilledSteps => Cur(p) \in chroot /\ files[Cur(p)] = {p}

\* What is in a lock list exists on disk, no lock is in two lists, and no child
\* works on a copy of one.
LockInv ==
    /\ \A p \in Proc : locks[p] \subseteq lockdir
    /\ \A p, q \in Proc : p # q => locks[p] \cap locks[q] = {}
    /\ \A p \in Proc : child[p] = {}

\* A chroot has its marker, and without a chroot there are no files.
DiskInv ==
    /\ chroot \subseteq marker
    /\ \A r \in Result : r \notin chroot => files[r] = {}

IInv == Typed /\ LockInv /\ DiskInv /\ \A p \in Proc : Local(p)

-----------------------------------------------------------------------------
(* Facts about the list of results and the order of the steps.             *)

\* build_set:build() takes results off a list of results.
LEMMA TodoFacts ==
    ASSUME NEW s \in Seq(Result), s # <<>>
    PROVE  /\ Head(s) \in Result
           /\ Tail(s) \in Seq(Result)
           /\ Len(s) > 1 => Tail(s) # <<>>
  <1>1. Head(s) \in Result /\ Tail(s) \in Seq(Result) /\ Len(Tail(s)) = Len(s) - 1
    BY HeadTailProperties
  <1>2. Len(s) > 1 => Len(Tail(s)) # 0
    BY <1>1, LenProperties
  <1>3. QED
    BY <1>1, <1>2, EmptySeq

\* Every list of sorted results that a build is given names a result.
LEMMA JobFacts ==
    ASSUME NEW j \in Jobs
    PROVE  j \in Seq(Result) /\ j # <<>>
  BY JobsAssumption

\* The results given to e2-build are results of its list.
LEMMA GivenFacts ==
    ASSUME NEW j \in Jobs, NEW S \in Given(j)
    PROVE  S \subseteq Result /\ ResultsOf(j) \subseteq Result
  <1>1. j \in Seq(Result)
    BY JobFacts
  <1>2. ResultsOf(j) \subseteq Result
    BY <1>1 DEF ResultsOf
  <1>3. S \subseteq ResultsOf(j)
    BY Zenon DEF Given
  <1>4. QED
    BY <1>2, <1>3

\* _next_step goes through the locked steps after _chroot_lock.
LEMMA NextStepFacts ==
    /\ next_step["result_available"] = "chroot_lock"
    /\ next_step["chroot_lock"] = "chroot_cleanup_if_exists"
    /\ next_step["chroot_cleanup_if_exists"] = "setup_chroot"
    /\ next_step["setup_chroot"] = "install_directory_structure"
    /\ next_step["install_build_time_dependencies"] = "install_sources"
    /\ next_step["build_playground"] = "runbuild"
    /\ next_step["runbuild"] = "store_result"
    /\ next_step["store_result"] = "linklast"
    /\ next_step["linklast"] = "chroot_cleanup"
    /\ next_step["chroot_cleanup"] = "chroot_unlock"
    /\ next_step["chroot_exists"] = "enter_playground"
    /\ \A s \in InstallSteps : next_step[s] \in FilledSteps
  BY DEF next_step, InstallSteps, FilledSteps

-----------------------------------------------------------------------------
\* In the initial state nothing is locked, marked or set up.
LEMMA InitIInv == Init => IInv
  BY DEF Init, IInv, Typed, LockInv, DiskInv, Local, Positions,
         DefaultSettings, Settings, LockedSteps, BuildSteps, PlaygroundSteps,
         InstallSteps, FilledSteps

\* A process only changes the chroots it holds the lock of, so the others
\* still know what they knew.
LEMMA OthersLocal ==
    ASSUME IInv, NEW p \in Proc, NEW q \in Proc, q # p,
           at'[q] = at[q], todo'[q] = todo[q], locks'[q] = locks[q],
           \A r \in Result \ locks[p] :
              /\ r \in marker' <=> r \in marker
              /\ r \in chroot' <=> r \in chroot
              /\ files'[r] = files[r]
    PROVE  Local(q)'
  <1>1. CASE at[q][1] \in LockedSteps
    <2>1. Cur(q) \in Result /\ Cur(q) \notin locks[p] /\ Cur(q)' = Cur(q)
      BY <1>1, TodoFacts DEF IInv, Typed, Local, LockInv, Cur, BuildSteps
    <2>2. QED
      BY <1>1, <2>1 DEF IInv, Local
  <1>2. CASE at[q][1] \notin LockedSteps
    BY <1>2 DEF IInv, Local, LockedSteps, FilledSteps, InstallSteps
  <1>3. QED
    BY <1>1, <1>2

-----------------------------------------------------------------------------
(* How the control of a process moves.                                     *)

\* Only the control of p changes, and it stays well typed.
OnlyMoves(p) ==
    /\ at' \in [Proc -> Positions]
    /\ todo' \in [Proc -> Seq(Result)]
    /\ settings' \in [Proc -> Settings]
    /\ \A q \in Proc : q # p => at'[q] = at[q] /\ todo'[q] = todo[q]

Steps == {"none", "finish", "exited", "killed"} \cup BuildSteps \cup PlaygroundSteps

\* The steps that the moves below go to.
LEMMA StepsFacts ==
    /\ {"finish", "setup_chroot", "chroot_unlock", "install_directory_structure",
        "chroot_cleanup", "runbuild"} \subseteq Steps
    /\ FilledSteps \subseteq Steps
  BY DEF Steps, BuildSteps, LockedSteps, FilledSteps, InstallSteps

\* A move inside a step, or to the next one, keeps the result.
LEMMA GotoFacts ==
    ASSUME Typed, NEW p \in Proc, NEW s \in Steps, NEW k \in 0 .. 3,
           Goto(p, s, k), UNCHANGED <<todo, settings>>
    PROVE  OnlyMoves(p) /\ at'[p] = <<s, k>> /\ Cur(p)' = Cur(p)
  BY DEF Typed, Steps, Positions, Goto, OnlyMoves, Cur

\* The step after a step of a mode is a step.
LEMMA DoneFacts ==
    ASSUME Typed, NEW p \in Proc, NEW s, next_step[s] \in Steps, StepDone(p, s)
    PROVE  OnlyMoves(p) /\ at'[p] = <<next_step[s], 0>> /\ Cur(p)' = Cur(p)
  BY GotoFacts DEF StepDone

\* After a failed step the process finishes.
LEMMA FailedFacts ==
    ASSUME Typed, NEW p \in Proc, StepFailed(p)
    PROVE  OnlyMoves(p) /\ at'[p] = <<"finish", 0>>
  BY GotoFacts DEF StepFailed, Steps

\* When a result is done the process takes the next one or finishes.
LEMMA NextResultFacts ==
    ASSUME Typed, NEW p \in Proc, todo[p] # <<>>, NextResult(p)
    PROVE  /\ OnlyMoves(p)
           /\ \/ at'[p] = <<"finish", 0>>
              \/ at'[p] = <<"result_available", 0>> /\ todo'[p] # <<>>
  <1>1. /\ todo[p] \in Seq(Result)
        /\ Tail(todo[p]) \in Seq(Result)
        /\ Len(todo[p]) > 1 => Tail(todo[p]) # <<>>
    BY TodoFacts DEF Typed
  <1>2. /\ todo' \in [Proc -> Seq(Result)]
        /\ todo'[p] = Tail(todo[p])
        /\ \A q \in Proc : q # p => todo'[q] = todo[q]
    BY <1>1 DEF Typed, NextResult
  <1>3. CASE Len(todo[p]) > 1 /\ Goto(p, "result_available", 0)
    BY <1>1, <1>2, <1>3 DEF Typed, NextResult, Goto, OnlyMoves, Positions, BuildSteps
  <1>4. CASE Goto(p, "finish", 0)
    BY <1>2, <1>4 DEF Typed, NextResult, Goto, OnlyMoves, Positions
  <1>5. QED
    BY <1>3, <1>4 DEF NextResult

\* A process that has ended has no locks in its list.
LEMMA EndedFacts ==
    ASSUME Typed, NEW p \in Proc, NEW s \in {"exited", "killed"}, NEW k \in {0, 1},
           Ended(p, s, k)
    PROVE  /\ OnlyMoves(p) /\ at'[p] = <<s, k>>
           /\ locks' \in [Proc -> SUBSET Result] /\ locks'[p] = {}
           /\ \A q \in Proc : q # p => locks'[q] = locks[q]
  BY DEF Typed, Ended, Goto, OnlyMoves, Positions, Settings, DefaultSettings

\* Outside the steps there is nothing a process has to know.
LEMMA IdleLocal ==
    ASSUME NEW p \in Proc, at'[p][1] \in {"none", "finish", "exited", "killed"}
    PROVE  Local(p)'
  BY DEF Local, LockedSteps, BuildSteps, PlaygroundSteps, InstallSteps, FilledSteps

\* Before the lock is taken, and in a playground, it needs a result only.
LEMMA UnlockedLocal ==
    ASSUME NEW p \in Proc, todo'[p] # <<>>,
           at'[p][1] \in PlaygroundSteps \cup {"result_available", "chroot_lock"}
    PROVE  Local(p)'
  BY DEF Local, LockedSteps, BuildSteps, PlaygroundSteps, InstallSteps, FilledSteps

\* A step that changes neither the disk nor a lock list keeps the invariant if
\* the process still knows what it has to know.
LEMMA QuietStep ==
    ASSUME IInv, NEW p \in Proc, OnlyMoves(p), Local(p)',
           UNCHANGED <<lockdir, unremoved, marker, chroot, files, locks, child>>,
           profile' \subseteq Result, stored' \subseteq Result,
           tmpdirs' \subseteq Proc, tmpfiles' \subseteq Proc
    PROVE  IInv'
  <1>1. Typed' /\ LockInv' /\ DiskInv'
    BY DEF IInv, Typed, LockInv, DiskInv, OnlyMoves
  <1>2. \A q \in Proc : q # p => Local(q)'
    BY OthersLocal DEF OnlyMoves
  <1>3. QED
    BY <1>1, <1>2 DEF IInv

-----------------------------------------------------------------------------
(* Every action preserves the invariant.                                   *)

\* A started tool has a result to work on, and no lock yet.
LEMMA StartIInv ==
    ASSUME IInv, NEW p \in Proc, StartBuild(p) \/ StartPlayground(p)
    PROVE  IInv'
  <1>1. CASE StartBuild(p)
    <2>0. PICK j \in Jobs : \E S \in Given(j) :
             /\ todo' = [todo EXCEPT ![p] = j]
             /\ \E keep, prep \in {{}, S}, force \in (SUBSET S) \cup {ResultsOf(j)} :
                   settings' = [settings EXCEPT ![p] =
                       [keep |-> keep \ prep, force |-> force \ prep, prep |-> prep]]
      BY <1>1, Zenon DEF StartBuild
    <2>1. PICK S \in Given(j) :
             /\ todo' = [todo EXCEPT ![p] = j]
             /\ \E keep, prep \in {{}, S}, force \in (SUBSET S) \cup {ResultsOf(j)} :
                   settings' = [settings EXCEPT ![p] =
                       [keep |-> keep \ prep, force |-> force \ prep, prep |-> prep]]
      BY <2>0, Zenon
    <2>2. j \in Seq(Result) /\ j # <<>>
      BY JobFacts
    <2>3. settings' \in [Proc -> Settings]
      <3>1. S \subseteq Result /\ ResultsOf(j) \subseteq Result
        BY <2>1, GivenFacts
      <3>2. PICK keep \in {{}, S}, prep \in {{}, S}, force \in (SUBSET S) \cup {ResultsOf(j)} :
               settings' = [settings EXCEPT ![p] =
                   [keep |-> keep \ prep, force |-> force \ prep, prep |-> prep]]
        BY <2>1, Zenon
      <3>3. [keep |-> keep \ prep, force |-> force \ prep, prep |-> prep] \in Settings
        <4>1. keep \subseteq Result /\ prep \subseteq Result
          BY <3>1, <3>2
        <4>2. force \subseteq Result
          BY <3>1, <3>2
        <4>3. QED
          BY <4>1, <4>2 DEF Settings
      <3>4. QED
        BY <3>2, <3>3 DEF IInv, Typed
    <2>4. /\ todo' \in [Proc -> Seq(Result)] /\ todo'[p] = j
          /\ \A q \in Proc : q # p => todo'[q] = todo[q]
      BY <2>1, <2>2 DEF IInv, Typed
    <2>5. /\ at' \in [Proc -> Positions] /\ at'[p] = <<"result_available", 0>>
          /\ \A q \in Proc : q # p => at'[q] = at[q]
      BY <1>1 DEF IInv, Typed, StartBuild, Goto, Positions, BuildSteps
    <2>6. OnlyMoves(p) /\ Local(p)'
      BY <2>2, <2>3, <2>4, <2>5, UnlockedLocal DEF OnlyMoves
    <2>7. UNCHANGED <<disk, locks, child>>
      BY <1>1 DEF StartBuild
    <2>8. QED
      BY <2>6, <2>7, QuietStep DEF disk, IInv, Typed
  <1>2. CASE StartPlayground(p)
    <2>1. OnlyMoves(p) /\ todo'[p] # <<>> /\ at'[p] = <<"chroot_exists", 0>>
      BY <1>2
      DEF IInv, Typed, StartPlayground, Goto, OnlyMoves, Positions, PlaygroundSteps
    <2>2. UNCHANGED <<disk, locks, child>> /\ Local(p)'
      BY <1>2, <2>1, UnlockedLocal DEF StartPlayground, PlaygroundSteps
    <2>3. QED
      BY <2>1, <2>2, QuietStep, Zenon DEF disk, IInv, Typed
  <1>3. QED
    BY <1>1, <1>2

\* A result is skipped or the build goes on to take the lock.
LEMMA ResultAvailableIInv ==
    ASSUME IInv, NEW p \in Proc, result_available(p)
    PROVE  IInv'
  <1>1. Typed /\ todo[p] # <<>>
    BY DEF IInv, Local, result_available, At, BuildSteps
  <1>2. OnlyMoves(p) /\ Local(p)'
    <2>1. CASE StepDone(p, "result_available")
      BY <1>1, <2>1, DoneFacts, NextStepFacts, UnlockedLocal DEF StepDone, Steps, BuildSteps
    <2>2. CASE NextResult(p)
      BY <1>1, <2>2, NextResultFacts, UnlockedLocal, IdleLocal
    <2>3. QED
      BY <2>1, <2>2 DEF result_available
  <1>3. QED
    BY <1>2, QuietStep, Zenon DEF result_available, disk, IInv, Typed

\* mkdir() makes a lock directory that was in no list, or the step fails.
LEMMA ChrootLockIInv ==
    ASSUME IInv, NEW p \in Proc, chroot_lock(p)
    PROVE  IInv'
  <1>1. Typed /\ todo[p] # <<>> /\ Cur(p) \in Result
    BY TodoFacts DEF IInv, Typed, Local, chroot_lock, At, BuildSteps, Cur
  <1>2. CASE Cur(p) \notin lockdir
    <2>1. /\ lockdir' = lockdir \cup {Cur(p)}
          /\ locks' = [locks EXCEPT ![p] = @ \cup {Cur(p)}]
          /\ UNCHANGED <<unremoved, marker, chroot, files, profile, stored, temps, child>>
          /\ StepDone(p, "chroot_lock")
      BY <1>2 DEF chroot_lock
    <2>2. /\ OnlyMoves(p) /\ at'[p] = <<"chroot_cleanup_if_exists", 0>>
          /\ Cur(p)' = Cur(p) /\ todo'[p] = todo[p]
      BY <1>1, <2>1, DoneFacts, NextStepFacts
      DEF StepDone, Steps, BuildSteps, LockedSteps
    <2>3. Typed'
      BY <1>1, <2>1, <2>2, Zenon DEF Typed, OnlyMoves
    <2>4. LockInv'
      BY <1>1, <1>2, <2>1 DEF IInv, Typed, LockInv
    <2>5. Local(p)'
      BY <1>1, <2>1, <2>2 DEF Local, Typed, FilledSteps, InstallSteps
    <2>6. \A q \in Proc : q # p => Local(q)'
      BY <1>1, <2>1, <2>2, OthersLocal, Zenon DEF OnlyMoves, Typed
    <2>7. QED
      BY <2>1, <2>3, <2>4, <2>5, <2>6 DEF IInv, DiskInv
  <1>3. CASE Cur(p) \in lockdir
    <2>1. /\ StepFailed(p)
          /\ UNCHANGED <<lockdir, unremoved, marker, chroot, files, profile, stored, temps,
                         locks, child>>
      BY <1>3, Zenon DEF chroot_lock
    <2>2. OnlyMoves(p) /\ at'[p] = <<"finish", 0>>
      BY <1>1, <2>1, FailedFacts, Zenon
    <2>3. Local(p)'
      BY <2>2, IdleLocal, SMTT(30)
    <2>4. QED
      BY <1>1, <2>1, <2>2, <2>3, QuietStep, Zenon DEF Typed
  <1>4. QED
    BY <1>2, <1>3

\* The first look at a chroot: gone, without marker, or to be removed.
LEMMA CleanupIfExistsIInv ==
    ASSUME IInv, NEW p \in Proc, chroot_cleanup_if_exists(p)
    PROVE  IInv'
  <1>1. Typed /\ todo[p] # <<>> /\ Cur(p) \in locks[p]
    BY DEF IInv, Local, chroot_cleanup_if_exists, At, BuildSteps, LockedSteps
  <1>2. OnlyMoves(p) /\ Local(p)'
    <2>1. CASE Cur(p) \notin chroot /\ StepDone(p, "chroot_cleanup_if_exists")
      <3>1. OnlyMoves(p) /\ at'[p] = <<"setup_chroot", 0>> /\ Cur(p)' = Cur(p)
        BY <1>1, <2>1, DoneFacts, NextStepFacts DEF Steps, BuildSteps, LockedSteps
      <3>2. UNCHANGED <<locks, chroot, todo>>
        BY <2>1 DEF chroot_cleanup_if_exists, disk, StepDone
      <3>3. QED
        BY <1>1, <2>1, <3>1, <3>2 DEF Local, FilledSteps, InstallSteps
    <2>2. CASE StepFailed(p)
      BY <1>1, <2>2, FailedFacts, IdleLocal
    <2>3. CASE Goto(p, "chroot_cleanup_if_exists", 1) /\ UNCHANGED <<todo, settings>>
      <3>1. /\ OnlyMoves(p) /\ at'[p] = <<"chroot_cleanup_if_exists", 1>>
            /\ Cur(p)' = Cur(p)
        BY <1>1, <2>3, GotoFacts DEF Steps, BuildSteps, LockedSteps
      <3>2. UNCHANGED <<locks, todo>>
        BY <2>3 DEF chroot_cleanup_if_exists, disk
      <3>3. QED
        BY <1>1, <3>1, <3>2, SMTT(30) DEF Local, FilledSteps, InstallSteps
    <2>4. QED
      BY <2>1, <2>2, <2>3 DEF chroot_cleanup_if_exists
  <1>3. QED
    BY <1>2, QuietStep, Zenon DEF chroot_cleanup_if_exists, disk, IInv, Typed

\* A step that fails before it changed anything.
LEMMA FailStep ==
    ASSUME IInv, NEW p \in Proc, StepFailed(p),
           UNCHANGED <<lockdir, unremoved, marker, chroot, files, profile, stored, locks,
                       child>>,
           tmpdirs' \subseteq Proc, tmpfiles' \subseteq Proc
    PROVE  IInv'
  <1>1. OnlyMoves(p) /\ Local(p)'
    BY FailedFacts, IdleLocal, SMTT(30) DEF IInv
  <1>2. QED
    BY <1>1, QuietStep, Zenon DEF IInv, Typed

\* A step that changes the chroot of the current result only.
LEMMA DiskStep ==
    ASSUME IInv, NEW p \in Proc, OnlyMoves(p), Local(p)', DiskInv',
           NEW r \in locks[p],
           UNCHANGED <<lockdir, unremoved, profile, stored, tmpdirs, tmpfiles, locks,
                       child>>,
           marker' \subseteq Result, chroot' \subseteq Result,
           files' \in [Result -> SUBSET Proc],
           \A x \in Result \ {r} :
              /\ x \in marker' <=> x \in marker
              /\ x \in chroot' <=> x \in chroot
              /\ files'[x] = files[x]
    PROVE  IInv'
  <1>1. Typed' /\ LockInv'
    BY DEF IInv, Typed, LockInv, OnlyMoves
  <1>2. \A q \in Proc : q # p => Local(q)'
    BY OthersLocal, Zenon DEF OnlyMoves
  <1>3. QED
    BY <1>1, <1>2 DEF IInv

\* e2-su removes the chroot and with it its files.
LEMMA RemoveChrootIInv ==
    ASSUME IInv, NEW p \in Proc, remove_chroot(p)
    PROVE  IInv'
  <1>1. PICK s \in {"chroot_cleanup_if_exists", "chroot_cleanup"} :
          /\ At(p, s, 1)
          /\ \/ /\ chroot' = chroot \ {Cur(p)}
                /\ files' = [files EXCEPT ![Cur(p)] = {}]
                /\ profile' = profile \ {Cur(p)}
                /\ Goto(p, s, 2)
                /\ UNCHANGED <<todo, settings>>
             \/ /\ StepFailed(p)
                /\ UNCHANGED <<chroot, files, profile>>
    BY DEF remove_chroot
  <1>2. UNCHANGED <<lockdir, unremoved, marker, stored, tmpdirs, tmpfiles, locks, child>>
    BY DEF remove_chroot
  <1>3. Typed /\ todo[p] # <<>> /\ Cur(p) \in locks[p] /\ Cur(p) \in Result
    BY <1>1, TodoFacts, SMTT(30) DEF IInv, Typed, Local, At, BuildSteps, LockedSteps, Cur
  <1>4. CASE chroot' = chroot \ {Cur(p)}
             /\ files' = [files EXCEPT ![Cur(p)] = {}]
             /\ profile' = profile \ {Cur(p)}
             /\ Goto(p, s, 2) /\ UNCHANGED <<todo, settings>>
    <2>1. OnlyMoves(p) /\ at'[p] = <<s, 2>> /\ Cur(p)' = Cur(p)
      BY <1>1, <1>3, <1>4, GotoFacts, SMTT(30) DEF Steps, BuildSteps, LockedSteps
    <2>2. Local(p)'
      BY <1>1, <1>2, <1>3, <1>4, <2>1, SMTT(30) DEF Local, FilledSteps, InstallSteps
    <2>3. Typed' /\ LockInv' /\ DiskInv'
      BY <1>2, <1>3, <1>4, <2>1, Zenon DEF IInv, Typed, LockInv, DiskInv, OnlyMoves
    <2>4. \A q \in Proc : q # p => Local(q)'
      BY <1>2, <1>3, <1>4, <2>1, OthersLocal, Zenon DEF OnlyMoves, Typed
    <2>5. QED
      BY <2>2, <2>3, <2>4 DEF IInv
  <1>5. CASE StepFailed(p) /\ UNCHANGED <<chroot, files, profile>>
    BY <1>2, <1>3, <1>5, FailStep DEF Typed
  <1>6. QED
    BY <1>1, <1>4, <1>5

\* The marker is unlinked when the chroot is gone.
LEMMA UnlinkMarkerIInv ==
    ASSUME IInv, NEW p \in Proc, unlink_marker(p)
    PROVE  IInv'
  <1>1. PICK s \in {"chroot_cleanup_if_exists", "chroot_cleanup"} :
          /\ At(p, s, 2)
          /\ \/ marker' = marker \ {Cur(p)} /\ StepDone(p, s)
             \/ StepFailed(p) /\ UNCHANGED marker
    BY DEF unlink_marker
  <1>2. UNCHANGED <<lockdir, unremoved, chroot, files, profile, stored, tmpdirs,
                    tmpfiles, locks, child>>
    BY DEF unlink_marker
  <1>3. /\ Typed /\ todo[p] # <<>> /\ Cur(p) \in locks[p] /\ Cur(p) \in Result
        /\ Cur(p) \notin chroot
    <2>1. \/ at[p] = <<"chroot_cleanup_if_exists", 2>>
          \/ at[p] = <<"chroot_cleanup", 2>>
      BY <1>1 DEF At
    <2>2. at[p][1] \in LockedSteps
      BY <2>1 DEF LockedSteps
    <2>3. todo[p] # <<>> /\ Cur(p) \in locks[p] /\ Cur(p) \notin chroot
      BY <2>1, <2>2, Zenon DEF IInv, Local, BuildSteps
    <2>4. QED
      BY <2>3, TodoFacts DEF IInv, Typed, Cur
  <1>4. CASE marker' = marker \ {Cur(p)} /\ StepDone(p, s)
    <2>1. /\ OnlyMoves(p) /\ Cur(p)' = Cur(p) /\ todo'[p] = todo[p]
          /\ at'[p] \in {<<"setup_chroot", 0>>, <<"chroot_unlock", 0>>}
      <3>1. next_step[s] \in {"setup_chroot", "chroot_unlock"}
        BY NextStepFacts
      <3>2. next_step[s] \in Steps
        BY <3>1, StepsFacts
      <3>3. OnlyMoves(p) /\ at'[p] = <<next_step[s], 0>> /\ Cur(p)' = Cur(p)
        BY <1>3, <1>4, <3>2, DoneFacts
      <3>4. QED
        BY <1>4, <3>1, <3>3, Zenon DEF StepDone
    <2>2. Local(p)'
      <3>1. at'[p] = <<"setup_chroot", 0>> \/ at'[p] = <<"chroot_unlock", 0>>
        BY <2>1
      <3>2. Cur(p)' \in locks'[p] /\ Cur(p)' \notin chroot' /\ todo'[p] # <<>>
        BY <1>2, <1>3, <2>1
      <3>3. QED
        BY <3>1, <3>2 DEF Local, FilledSteps, InstallSteps
    <2>3. DiskInv'
      BY <1>2, <1>3, <1>4 DEF IInv, DiskInv
    <2>4. QED
      BY <1>2, <1>3, <1>4, <2>1, <2>2, <2>3, DiskStep, Zenon DEF Typed
  <1>5. CASE StepFailed(p) /\ UNCHANGED marker
    BY <1>2, <1>3, <1>5, FailStep DEF Typed
  <1>6. QED
    BY <1>1, <1>4, <1>5

\* _setup_chroot: the marker, then the directory, then its content.
LEMMA SetupChrootIInv ==
    ASSUME IInv, NEW p \in Proc,
           create_marker(p) \/ mkdir_chroot(p) \/ extract_tar(p)
    PROVE  IInv'
  <1>1. /\ Typed /\ todo[p] # <<>> /\ Cur(p) \in locks[p] /\ Cur(p) \in Result
        /\ at[p] \in {<<"setup_chroot", 0>>, <<"setup_chroot", 1>>}
              => Cur(p) \notin chroot
        /\ at[p] = <<"setup_chroot", 1>> => Cur(p) \in marker
        /\ at[p] = <<"setup_chroot", 2>> => Cur(p) \in chroot /\ files[Cur(p)] = {}
    BY TodoFacts, SMTT(30) DEF IInv, Typed, Local, create_marker, mkdir_chroot, extract_tar,
                     At, BuildSteps, LockedSteps, Cur
  <1>2. CASE create_marker(p)
    <2>1. OnlyMoves(p) /\ at'[p] = <<"setup_chroot", 1>> /\ Cur(p)' = Cur(p)
      BY <1>1, <1>2, GotoFacts, StepsFacts, SMTT(30) DEF create_marker
    <2>2. /\ at[p] = <<"setup_chroot", 0>> /\ marker' = marker \cup {Cur(p)}
          /\ UNCHANGED <<lockdir, unremoved, chroot, files, profile, stored, tmpdirs,
                         tmpfiles, todo, locks, child>>
      BY <1>2, Zenon DEF create_marker, At
    <2>3. /\ Cur(p)' \in locks'[p] /\ Cur(p)' \notin chroot' /\ Cur(p)' \in marker'
          /\ todo'[p] # <<>>
      BY <1>1, <2>1, <2>2, Zenon
    <2>4. Local(p)'
      BY <2>1, <2>3, SMTT(30) DEF Local, FilledSteps, InstallSteps
    <2>5. DiskInv'
      BY <2>2 DEF IInv, DiskInv
    <2>6. QED
      BY <1>1, <2>1, <2>2, <2>4, <2>5, DiskStep, Zenon DEF Typed
  <1>3. CASE mkdir_chroot(p)
    <2>1. At(p, "setup_chroot", 1) /\ Cur(p) \notin chroot
      BY <1>1, <1>3, Zenon DEF mkdir_chroot, At
    <2>2. /\ chroot' = chroot \cup {Cur(p)} /\ Goto(p, "setup_chroot", 2)
          /\ UNCHANGED <<todo, settings, dirs, marker, files, profile, stored,
                         tmpdirs, tmpfiles, locks, child>>
      BY <1>3, <2>1 DEF mkdir_chroot
    <2>3. OnlyMoves(p) /\ at'[p] = <<"setup_chroot", 2>> /\ Cur(p)' = Cur(p)
      BY <1>1, <2>2, GotoFacts, StepsFacts, SMTT(30)
    <2>4. files[Cur(p)] = {} /\ Cur(p) \in marker
      BY <1>1, <2>1, Zenon DEF IInv, DiskInv, At
    <2>5. /\ Cur(p)' \in locks'[p] /\ Cur(p)' \in chroot' /\ files'[Cur(p)'] = {}
          /\ todo'[p] # <<>>
      BY <1>1, <2>2, <2>3, <2>4, Zenon
    <2>6. Local(p)'
      BY <2>3, <2>5, SMTT(30) DEF Local, FilledSteps, InstallSteps
    <2>7. DiskInv'
      BY <2>2, <2>4, Zenon DEF IInv, DiskInv
    <2>8. QED
      BY <1>1, <2>2, <2>3, <2>6, <2>7, DiskStep, Zenon DEF Typed
  <1>4. CASE extract_tar(p)
    <2>1. /\ OnlyMoves(p) /\ at'[p] = <<"install_directory_structure", 0>>
          /\ Cur(p)' = Cur(p) /\ todo'[p] = todo[p]
      <3>1. StepDone(p, "setup_chroot")
        BY <1>4 DEF extract_tar
      <3>2. next_step["setup_chroot"] \in Steps
        BY NextStepFacts, StepsFacts
      <3>3. QED
        BY <1>1, <3>1, <3>2, DoneFacts, NextStepFacts, SMTT(30) DEF StepDone
    <2>2. /\ files' = [files EXCEPT ![Cur(p)] = {p}] /\ Cur(p) \in chroot
          /\ UNCHANGED <<lockdir, unremoved, marker, chroot, profile, stored, tmpdirs,
                         tmpfiles, locks, child>>
      BY <1>1, <1>4, Zenon DEF extract_tar, At, Typed
    <2>3. /\ Cur(p)' \in locks'[p] /\ Cur(p)' \in chroot' /\ files'[Cur(p)'] = {p}
          /\ todo'[p] # <<>>
      BY <1>1, <2>1, <2>2, Zenon DEF Typed
    <2>4. Local(p)'
      BY <2>1, <2>3, SMTT(30) DEF Local, FilledSteps, InstallSteps
    <2>5. DiskInv'
      BY <1>1, <2>2, Zenon DEF Typed, IInv, DiskInv
    <2>6. QED
      BY <1>1, <2>1, <2>2, <2>4, <2>5, DiskStep, Zenon DEF Typed
  <1>5. QED
    BY <1>2, <1>3, <1>4

\* The install steps put files into a chroot that has this build's files.
LEMMA InstallIInv ==
    ASSUME IInv, NEW p \in Proc,
           install_step(p) \/ install_build_time_dependencies(p)
    PROVE  IInv'
  <1>1. /\ Typed /\ todo[p] # <<>> /\ Cur(p) \in locks[p] /\ Cur(p) \in Result
        /\ Cur(p) \in chroot /\ files[Cur(p)] = {p}
    <2>1. at[p][1] \in InstallSteps \cup {"install_build_time_dependencies"}
      BY SMTT(30) DEF install_step, install_build_time_dependencies, At
    <2>2. at[p][1] \in BuildSteps /\ at[p][1] \in LockedSteps /\ at[p][1] \in FilledSteps
      BY <2>1, Zenon DEF BuildSteps, LockedSteps, FilledSteps
    <2>3. /\ Typed /\ todo[p] # <<>> /\ Cur(p) \in locks[p]
          /\ Cur(p) \in chroot /\ files[Cur(p)] = {p}
      BY <2>2, Zenon DEF IInv, Local
    <2>4. QED
      BY <2>3, Zenon DEF Typed
  <1>2. CASE /\ files' = [files EXCEPT ![Cur(p)] = @ \cup {p}]
             /\ \E s \in InstallSteps \cup {"install_build_time_dependencies"} :
                   StepDone(p, s)
    <2>1. /\ files' = files
          /\ UNCHANGED <<lockdir, unremoved, marker, chroot, profile, stored, tmpdirs,
                         tmpfiles, locks, child>>
      BY <1>1, <1>2, Zenon DEF install_step, install_build_time_dependencies, Typed
    <2>2. PICK s \in InstallSteps \cup {"install_build_time_dependencies"} :
             StepDone(p, s) /\ next_step[s] \in FilledSteps
      BY <1>2, NextStepFacts DEF FilledSteps, InstallSteps
    <2>3. /\ OnlyMoves(p) /\ at'[p] = <<next_step[s], 0>>
          /\ Cur(p)' = Cur(p) /\ todo'[p] = todo[p]
      BY <1>1, <2>2, DoneFacts, StepsFacts, Zenon DEF StepDone
    <2>4. Local(p)'
      <3>1. /\ Cur(p)' \in locks'[p] /\ Cur(p)' \in chroot' /\ files'[Cur(p)'] = {p}
            /\ todo'[p] # <<>>
        BY <1>1, <2>1, <2>3, Zenon
      <3>2. /\ at'[p][1] \in FilledSteps /\ at'[p][2] = 0
            /\ at'[p][1] \notin {"setup_chroot", "chroot_cleanup", "chroot_cleanup_if_exists"}
        BY <2>2, <2>3, SMTT(30) DEF FilledSteps, InstallSteps
      <3>3. QED
        BY <3>1, <3>2, SMTT(30) DEF Local
    <2>5. QED
      BY <2>1, <2>3, <2>4, QuietStep, Zenon DEF IInv, Typed
  <1>3. CASE install_build_time_dependencies(p) /\ StepFailed(p) /\ UNCHANGED files
    BY <1>1, <1>3, FailStep, Zenon DEF install_build_time_dependencies, Typed
  <1>4. QED
    BY <1>2, <1>3, Zenon DEF install_step, install_build_time_dependencies

\* A playground is left locked; otherwise the build goes on.
LEMMA BuildPlaygroundIInv ==
    ASSUME IInv, NEW p \in Proc, build_playground(p)
    PROVE  IInv'
  <1>1. /\ Typed /\ todo[p] # <<>> /\ Cur(p) \in locks[p]
        /\ Cur(p) \in chroot /\ files[Cur(p)] = {p}
    <2>1. at[p][1] = "build_playground"
      BY DEF build_playground, At
    <2>2. at[p][1] \in BuildSteps /\ at[p][1] \in LockedSteps /\ at[p][1] \in FilledSteps
      BY <2>1, Zenon DEF BuildSteps, LockedSteps, FilledSteps
    <2>3. QED
      BY <2>2, Zenon DEF IInv, Local
  <1>2. UNCHANGED <<disk, locks, child>>
    BY Zenon DEF build_playground
  <1>3. OnlyMoves(p) /\ Local(p)'
    <2>1. CASE NextResult(p)
      BY <1>1, <2>1, NextResultFacts, UnlockedLocal, IdleLocal, SMTT(30)
    <2>2. CASE StepDone(p, "build_playground")
      <3>1. /\ OnlyMoves(p) /\ at'[p] = <<"runbuild", 0>>
            /\ Cur(p)' = Cur(p) /\ todo'[p] = todo[p]
        <4>1. next_step["build_playground"] \in Steps
          BY NextStepFacts, StepsFacts
        <4>2. QED
          BY <1>1, <2>2, <4>1, DoneFacts, NextStepFacts, SMTT(30) DEF StepDone
      <3>2. /\ Cur(p)' \in locks'[p] /\ Cur(p)' \in chroot' /\ files'[Cur(p)'] = {p}
            /\ todo'[p] # <<>>
        BY <1>1, <1>2, <3>1, Zenon DEF disk
      <3>3. QED
        BY <3>1, <3>2, SMTT(30) DEF Local, FilledSteps, InstallSteps
    <2>3. QED
      BY <2>1, <2>2, Zenon DEF build_playground
  <1>4. QED
    BY <1>2, <1>3, QuietStep, Zenon DEF disk, IInv, Typed

\* The steps that leave the chroot alone and keep the lock.
LEMMA RunStoreLinkIInv ==
    ASSUME IInv, NEW p \in Proc,
           runbuild(p) \/ store_result(p) \/ linklast(p) \/ chroot_cleanup(p)
    PROVE  IInv'
  <1>1. Typed /\ todo[p] # <<>> /\ Cur(p) \in locks[p] /\ Cur(p) \in Result
    <2>1. at[p][1] \in {"runbuild", "store_result", "linklast", "chroot_cleanup"}
      BY SMTT(30) DEF runbuild, store_result, linklast, chroot_cleanup, At
    <2>2. at[p][1] \in BuildSteps /\ at[p][1] \in LockedSteps
      BY <2>1 DEF BuildSteps, LockedSteps
    <2>3. Typed /\ todo[p] # <<>> /\ Cur(p) \in locks[p]
      BY <2>2, Zenon DEF IInv, Local
    <2>4. QED
      BY <2>3 DEF Typed
  <1>2. /\ UNCHANGED <<lockdir, unremoved, marker, chroot, files, profile, tmpdirs,
                       tmpfiles, locks, child>>
        /\ stored' \subseteq Result
    BY <1>1, Zenon DEF runbuild, store_result, linklast, chroot_cleanup, disk, Typed
  <1> DEFINE Kept ==
          /\ OnlyMoves(p) /\ Cur(p)' = Cur(p) /\ todo'[p] = todo[p]
          /\ \/ at'[p] = <<"chroot_cleanup", 1>>
             \/ at'[p][1] \in {"store_result", "linklast", "chroot_cleanup",
                               "chroot_unlock"} /\ at'[p][2] = 0
  <1>3. Kept
    <2>1. CASE Goto(p, "chroot_cleanup", 1) /\ UNCHANGED <<todo, settings>>
      <3>1. "chroot_cleanup" \in Steps
        BY DEF Steps, BuildSteps, LockedSteps
      <3>2. QED
        BY <1>1, <2>1, <3>1, GotoFacts, SMTT(30)
    <2>2. ASSUME NEW s \in {"runbuild", "store_result", "linklast", "chroot_cleanup"},
                 StepDone(p, s)
          PROVE  Kept
      <3>1. next_step[s] \in {"store_result", "linklast", "chroot_cleanup",
                               "chroot_unlock"}
        BY NextStepFacts
      <3>2. next_step[s] \in Steps
        BY <3>1 DEF Steps, BuildSteps, LockedSteps
      <3>3. OnlyMoves(p) /\ at'[p] = <<next_step[s], 0>> /\ Cur(p)' = Cur(p)
        BY <1>1, <2>2, <3>2, DoneFacts, Zenon
      <3>4. todo'[p] = todo[p]
        BY <2>2 DEF StepDone
      <3>5. at'[p][1] = next_step[s] /\ at'[p][2] = 0
        BY <3>3, SMTT(30)
      <3>6. QED
        BY <3>1, <3>3, <3>4, <3>5, Zenon
    <2>3. QED
      BY <2>1, <2>2, Zenon DEF runbuild, store_result, linklast, chroot_cleanup
  <1>4. Local(p)'
    <2>1. /\ at'[p][1] \in {"store_result", "linklast", "chroot_cleanup", "chroot_unlock"}
          /\ at'[p] # <<"chroot_cleanup", 2>>
      BY <1>3, SMTT(30)
    <2>2. at'[p][1] \notin FilledSteps
      BY <2>1 DEF FilledSteps, InstallSteps
    <2>3. todo'[p] # <<>> /\ Cur(p)' \in locks'[p]
      BY <1>1, <1>2, <1>3, Zenon
    <2>4. QED
      BY <2>1, <2>2, <2>3, SMTT(30) DEF Local
  <1>5. QED
    BY <1>2, <1>3, <1>4, QuietStep, Zenon DEF IInv, Typed

\* A process that takes a lock out of its list, and off the disk if it can, and is
\* then in no locked step, leaves the locks of the others alone.
LEMMA UnlockStep ==
    ASSUME IInv, NEW p \in Proc, NEW L \in SUBSET locks[p], OnlyMoves(p), Local(p)',
           locks' = [locks EXCEPT ![p] = @ \ L],
           lockdir' = lockdir \ L \/ UNCHANGED lockdir, unremoved' \subseteq lockdir',
           UNCHANGED <<marker, chroot, files, profile, stored, temps, child>>
    PROVE  IInv'
  <1>1. Typed' /\ DiskInv'
    BY DEF IInv, Typed, DiskInv, OnlyMoves
  <1>2. LockInv'
    BY DEF IInv, Typed, LockInv
  <1>3. \A q \in Proc : q # p => Local(q)'
    BY OthersLocal, Zenon DEF OnlyMoves, IInv, Typed
  <1>4. QED
    BY <1>1, <1>2, <1>3 DEF IInv

\* rmdir() takes the lock directory away, or leaves it there.
LEMMA RmdirFacts ==
    ASSUME Typed, NEW r, rmdir_done(r) \/ rmdir_failed(r)
    PROVE  /\ lockdir' = lockdir \ {r} \/ UNCHANGED lockdir
           /\ unremoved' \subseteq lockdir'
  <1>1. unremoved \subseteq lockdir
    BY Zenon DEF Typed
  <1>2. QED
    BY <1>1, Zenon DEF rmdir_done, rmdir_failed

\* The lock of the current result is released, then the next one is taken on.
LEMMA ChrootUnlockIInv ==
    ASSUME IInv, NEW p \in Proc, chroot_unlock(p)
    PROVE  IInv'
  <1>1. Typed /\ todo[p] # <<>> /\ Cur(p) \in locks[p]
    BY SMTT(30) DEF IInv, Local, chroot_unlock, At, BuildSteps, LockedSteps
  <1>2. OnlyMoves(p) /\ Local(p)'
    <2>1. CASE NextResult(p)
      BY <1>1, <2>1, NextResultFacts, UnlockedLocal, IdleLocal, SMTT(30)
    <2>2. CASE StepFailed(p)
      BY <1>1, <2>2, FailedFacts, IdleLocal
    <2>3. QED
      BY <2>1, <2>2, Zenon DEF chroot_unlock
  <1>3. /\ locks' = [locks EXCEPT ![p] = @ \ {Cur(p)}]
        /\ rmdir_done(Cur(p)) \/ rmdir_failed(Cur(p))
        /\ UNCHANGED <<marker, chroot, files, profile, stored, temps, child>>
    BY <1>1, Zenon DEF chroot_unlock, unlock
  <1>4. /\ lockdir' = lockdir \ {Cur(p)} \/ UNCHANGED lockdir
        /\ unremoved' \subseteq lockdir'
    BY <1>1, <1>3, RmdirFacts, Zenon
  <1>5. {Cur(p)} \in SUBSET locks[p]
    BY <1>1
  <1>6. QED
    BY <1>2, <1>3, <1>4, <1>5, UnlockStep, Zenon

\* A playground takes no lock and changes nothing but its profile.
LEMMA PlaygroundIInv ==
    ASSUME IInv, NEW p \in Proc, playground_step(p)
    PROVE  IInv'
  <1>1. Typed /\ todo[p] # <<>> /\ Cur(p) \in Result
    BY TodoFacts, SMTT(30) DEF IInv, Typed, Local, playground_step, chroot_exists, write_profile,
                     leave_playground, At, PlaygroundSteps, Cur
  <1>2. /\ UNCHANGED <<lockdir, unremoved, marker, chroot, files, stored, tmpdirs,
                       tmpfiles, locks, child>>
        /\ profile' \subseteq Result
    BY <1>1, Zenon DEF playground_step, chroot_exists, write_profile, leave_playground, disk, Typed
  <1>3. OnlyMoves(p) /\ Local(p)'
    <2>1. CASE StepDone(p, "chroot_exists")
      <3>1. OnlyMoves(p) /\ at'[p] = <<"enter_playground", 0>>
        BY <1>1, <2>1, DoneFacts, NextStepFacts, Zenon DEF Steps, PlaygroundSteps
      <3>2. QED
        BY <1>1, <2>1, <3>1, UnlockedLocal DEF StepDone, PlaygroundSteps
    <2>2. CASE Goto(p, "enter_playground", 1) /\ UNCHANGED <<todo, settings>>
      <3>1. OnlyMoves(p) /\ at'[p] = <<"enter_playground", 1>>
        BY <1>1, <2>2, GotoFacts DEF Steps, PlaygroundSteps
      <3>2. QED
        BY <1>1, <2>2, <3>1, UnlockedLocal DEF PlaygroundSteps
    <2>3. CASE StepFailed(p)
      BY <1>1, <2>3, FailedFacts, IdleLocal, SMTT(30)
    <2>4. CASE NextResult(p)
      BY <1>1, <2>4, NextResultFacts, UnlockedLocal, IdleLocal, SMTT(30)
    <2>5. QED
      BY <2>1, <2>2, <2>3, <2>4, Zenon
      DEF playground_step, chroot_exists, write_profile, leave_playground
  <1>4. QED
    BY <1>2, <1>3, QuietStep, Zenon DEF IInv, Typed

\* A process that ends without removing its locks only forgets them.
LEMMA EndedStep ==
    ASSUME IInv, NEW p \in Proc, NEW s \in {"exited", "killed"}, NEW k \in {0, 1},
           Ended(p, s, k), UNCHANGED <<dirs, marker, chroot, files, profile, stored>>
    PROVE  IInv'
  <1>1. /\ OnlyMoves(p) /\ at'[p] = <<s, k>>
        /\ locks' \in [Proc -> SUBSET Result] /\ locks'[p] = {}
        /\ \A q \in Proc : q # p => locks'[q] = locks[q]
    BY EndedFacts, Zenon DEF IInv
  <1>a. UNCHANGED child
    <2>1. child \in [Proc -> SUBSET Result] /\ child[p] = {}
      BY Zenon DEF IInv, Typed, LockInv
    <2>2. child' = [child EXCEPT ![p] = {}]
      BY Zenon DEF Ended
    <2>3. QED
      BY <2>1, <2>2
  <1>b. tmpdirs' \subseteq Proc /\ tmpfiles' \subseteq Proc
    BY Zenon DEF IInv, Typed, Ended
  <1>2. Typed' /\ DiskInv'
    BY <1>1, <1>a, <1>b, Zenon DEF IInv, Typed, DiskInv, OnlyMoves
  <1>3. LockInv'
    BY <1>1, <1>a, Zenon DEF IInv, LockInv
  <1>4. Local(p)'
    BY <1>1, IdleLocal
  <1>5. \A q \in Proc : q # p => Local(q)'
    BY <1>1, OthersLocal, Zenon DEF OnlyMoves
  <1>6. QED
    BY <1>2, <1>3, <1>4, <1>5 DEF IInv

\* The exit path: temporary directories and files, then one lock after the other.
LEMMA FinishIInv ==
    ASSUME IInv, NEW p \in Proc,
           rmtempdirs(p) \/ rmtempfiles(p) \/ lock_cleanup(p) \/ kill(p)
    PROVE  IInv'
  <1>1. ASSUME NEW k \in {1, 2}, Goto(p, "finish", k), rmtempdirs(p) \/ rmtempfiles(p),
               UNCHANGED <<todo, settings, locks, child>>,
               tmpdirs' \subseteq Proc, tmpfiles' \subseteq Proc
        PROVE  IInv'
    <2>1. OnlyMoves(p) /\ at'[p] = <<"finish", k>>
      <3>1. Typed /\ "finish" \in Steps
        BY StepsFacts DEF IInv
      <3>2. k \in 0 .. 3 /\ Goto(p, "finish", k) /\ UNCHANGED <<todo, settings>>
        BY <1>1
      <3>3. QED
        BY <3>1, <3>2, GotoFacts, Zenon
    <2>2. UNCHANGED <<dirs, marker, chroot, files, profile, stored, locks, child>>
      BY <1>1, Zenon DEF rmtempdirs, rmtempfiles
    <2>4. Local(p)'
      <3>1. at'[p][1] \in {"none", "finish", "exited", "killed"}
        BY <2>1, SMTT(30)
      <3>2. QED
        BY <3>1, IdleLocal, Zenon
    <2>5. QED
      BY <1>1, <2>1, <2>2, <2>4, QuietStep, Zenon DEF IInv, Typed
  <1>2. CASE (rmtempdirs(p) \/ rmtempfiles(p)) /\ Ended(p, "exited", 1)
    BY <1>2, EndedStep, Zenon DEF rmtempdirs, rmtempfiles
  <1>3. ASSUME lock_cleanup(p), NEW r \in locks[p], unlock(p, r),
               rmdir_done(r) \/ rmdir_failed(r), UNCHANGED <<temps, at, todo, settings,
                                                             child>>
        PROVE  IInv'
    <2>1. OnlyMoves(p) /\ Local(p)'
      BY <1>3, IdleLocal, SMTT(30) DEF IInv, Typed, OnlyMoves, lock_cleanup, At
    <2>2. /\ locks' = [locks EXCEPT ![p] = @ \ {r}]
          /\ UNCHANGED <<marker, chroot, files, profile, stored, temps, child>>
      BY <1>3, Zenon DEF lock_cleanup, unlock
    <2>3. /\ lockdir' = lockdir \ {r} \/ UNCHANGED lockdir
          /\ unremoved' \subseteq lockdir'
      BY <1>3, RmdirFacts, Zenon DEF IInv
    <2>4. {r} \in SUBSET locks[p]
      BY <1>3
    <2>5. QED
      BY <2>1, <2>2, <2>3, <2>4, UnlockStep, Zenon
  <1>4. CASE lock_cleanup(p) /\ Ended(p, "exited", 0) /\ UNCHANGED dirs
    BY <1>4, EndedStep, Zenon DEF lock_cleanup
  <1>5. CASE kill(p)
    BY <1>5, EndedStep, Zenon DEF kill
  <1>6. CASE rmtempdirs(p)
    <2>1. ASSUME Goto(p, "finish", 1), tmpdirs' = tmpdirs \ {p},
                 UNCHANGED <<tmpfiles, todo, settings, locks, child>>
          PROVE  IInv'
      <3>1. tmpdirs' \subseteq Proc /\ tmpfiles' \subseteq Proc
        BY <2>1, Zenon DEF IInv, Typed
      <3>2. QED
        BY <1>1, <1>6, <2>1, <3>1, Zenon
    <2>2. QED
      BY <1>2, <1>6, <2>1, Zenon DEF rmtempdirs
  <1>7. CASE rmtempfiles(p)
    <2>1. ASSUME Goto(p, "finish", 2), tmpfiles' = tmpfiles \ {p},
                 UNCHANGED <<tmpdirs, todo, settings, locks, child>>
          PROVE  IInv'
      <3>1. tmpdirs' \subseteq Proc /\ tmpfiles' \subseteq Proc
        BY <2>1, Zenon DEF IInv, Typed
      <3>2. QED
        BY <1>1, <1>7, <2>1, <3>1, Zenon
    <2>2. QED
      BY <1>2, <1>7, <2>1, Zenon DEF rmtempfiles
  <1>8. CASE lock_cleanup(p)
    BY <1>3, <1>4, <1>8, Zenon DEF lock_cleanup
  <1>9. QED
    BY <1>5, <1>6, <1>7, <1>8, Zenon

\* No child removes locks.
LEMMA NoChildUnlocks ==
    ASSUME IInv, NEW p \in Proc PROVE ~child_unlocks(p)
  BY Zenon DEF child_unlocks, IInv, LockInv

\* As long as forked children become the tools they were forked for, every
\* step keeps the invariant.
LEMMA NextIInv ==
    ASSUME ~ExecFails, IInv, [Next]_vars
    PROVE  IInv'
  <1>1. ASSUME NEW p \in Proc, step_fails(p) PROVE IInv'
    <2>1. tmpdirs' \subseteq Proc /\ tmpfiles' \subseteq Proc
      BY <1>1, Zenon DEF step_fails, IInv, Typed
    <2>2. QED
      BY <1>1, <2>1, FailStep, Zenon DEF step_fails
  <1>a. ASSUME NEW p \in Proc, child_failed(p) PROVE IInv'
    BY <1>a, FailStep, Zenon DEF child_failed, disk, IInv, Typed
  <1>2. ASSUME NEW p \in Proc, run(p) PROVE IInv'
    BY <1>1, <1>2, <1>a, NoChildUnlocks, ResultAvailableIInv, ChrootLockIInv, CleanupIfExistsIInv,
       RemoveChrootIInv, UnlinkMarkerIInv, SetupChrootIInv, InstallIInv,
       BuildPlaygroundIInv, RunStoreLinkIInv, ChrootUnlockIInv, PlaygroundIInv,
       FinishIInv, Zenon
    DEF run, build_step, child_aborts
  <1>3. ASSUME NEW r \in Result, rmdir_stale_lock(r) PROVE IInv'
    <2>1. /\ lockdir' = lockdir \ {r} /\ \A p \in Proc : r \notin locks[p]
          /\ unremoved' = unremoved \ {r}
          /\ UNCHANGED <<marker, chroot, files, profile, stored, temps,
                         at, todo, settings, locks, child>>
      BY <1>3 DEF rmdir_stale_lock, Holders, proc
    <2>2. Typed' /\ LockInv' /\ DiskInv'
      BY <2>1, Zenon DEF IInv, Typed, LockInv, DiskInv
    <2>3. \A p \in Proc : Local(p)'
      BY <2>1, Zenon DEF IInv, Local, Cur
    <2>4. QED
      BY <2>2, <2>3 DEF IInv
  <1>4. CASE UNCHANGED vars
    BY <1>4, Zenon DEF IInv, Typed, LockInv, DiskInv, Local, Cur, vars, disk, proc
  <1>5. QED
    BY <1>2, <1>3, <1>4, StartIInv, FinishIInv DEF Next

-----------------------------------------------------------------------------
(* The list of results that a build works through.                         *)

\* A sorted list, or what is left of one: each result depends on results that are
\* ready or come before it.
InOrder(s, ready) ==
    /\ s # <<>>
    /\ \A i \in DOMAIN s : Depends[s[i]] \subseteq ready \cup {s[k] : k \in 1 .. i - 1}

\* The steps after _store_result.
StoredSteps == {"linklast", "chroot_cleanup", "chroot_unlock"}

\* What a build need not wait for: stored results, and its own playgrounds, which
\* the build set goes past without storing them.
Ready(p) == stored \cup settings[p].prep

\* What a build knows of its list.
JobInv(p) ==
    /\ at[p][1] \in BuildSteps => InOrder(todo[p], Ready(p))
    /\ at[p][1] \in StoredSteps => Cur(p) \in stored
    /\ at[p][1] \in PlaygroundSteps => Len(todo[p]) = 1

\* The rest of a list is in order when its first result is ready.
LEMMA TailInOrder ==
    ASSUME NEW s \in Seq(Result), NEW ready, InOrder(s, ready), Len(s) > 1,
           Head(s) \in ready
    PROVE  InOrder(Tail(s), ready)
  <1> DEFINE n == Len(s)
             t == Tail(s)
  <1>1. n \in Nat /\ DOMAIN s = 1 .. n /\ Head(s) = s[1]
    BY LenProperties
  <1>2. /\ t \in Seq(Result) /\ Len(t) = n - 1 /\ DOMAIN t = 1 .. n - 1
        /\ \A i \in 1 .. n - 1 : t[i] = s[i + 1]
    BY <1>1, HeadTailProperties, LenProperties
  <1>3. t # <<>>
    <2>1. Len(t) # 0
      BY <1>1, <1>2
    <2>2. QED
      BY <1>2, <2>1, EmptySeq, Zenon
  <1>5. ASSUME NEW i \in DOMAIN t
        PROVE  Depends[t[i]] \subseteq ready \cup {t[k] : k \in 1 .. i - 1}
    <2>1. i \in 1 .. n - 1 /\ i + 1 \in DOMAIN s /\ t[i] = s[i + 1]
      BY <1>1, <1>2
    <2>2. Depends[s[i + 1]] \subseteq ready \cup {s[k] : k \in 1 .. (i + 1) - 1}
      BY <2>1, Zenon DEF InOrder
    <2>3. ASSUME NEW k \in 1 .. (i + 1) - 1
          PROVE  s[k] \in ready \cup {t[m] : m \in 1 .. i - 1}
      <3>1. CASE k = 1
        BY <1>1, <3>1, Zenon
      <3>2. CASE k # 1
        <4>1. k - 1 \in 1 .. i - 1 /\ k - 1 \in 1 .. n - 1 /\ t[k - 1] = s[(k - 1) + 1]
          BY <1>1, <1>2, <2>1, <3>2, SMTT(30)
        <4>2. t[k - 1] = s[k]
          BY <4>1
        <4>3. QED
          BY <4>1, <4>2, Zenon
      <3>3. QED
        BY <3>1, <3>2, Zenon
    <2>4. SUFFICES ASSUME NEW d \in Depends[t[i]], d \notin ready
                   PROVE  d \in {t[m] : m \in 1 .. i - 1}
      BY Zenon
    <2>5. PICK k \in 1 .. (i + 1) - 1 : d = s[k]
      BY <2>1, <2>2, <2>4, Zenon
    <2>6. QED
      BY <2>3, <2>4, <2>5, Zenon
  <1>6. QED
    BY <1>3, <1>5, Zenon DEF InOrder

\* What is ready stays so, and a list in order stays in order.
LEMMA StillInOrder ==
    ASSUME NEW s, NEW ready, NEW more, ready \subseteq more, InOrder(s, ready)
    PROVE  InOrder(s, more)
  <1>1. ASSUME NEW i \in DOMAIN s
        PROVE  Depends[s[i]] \subseteq more \cup {s[k] : k \in 1 .. i - 1}
    <2>1. Depends[s[i]] \subseteq ready \cup {s[k] : k \in 1 .. i - 1}
      BY DEF InOrder
    <2>2. QED
      BY <2>1, Zenon
  <1>2. QED
    BY <1>1, Zenon DEF InOrder

\* A process that keeps its list and is not past _store_result too early.
LEMMA StaysJobInv ==
    ASSUME NEW q \in Proc, JobInv(q), stored \subseteq stored',
           todo'[q] = todo[q], settings'[q] = settings[q],
           at'[q][1] \in BuildSteps => at[q][1] \in BuildSteps,
           at'[q][1] \in PlaygroundSteps => at[q][1] \in PlaygroundSteps,
           at'[q][1] \in StoredSteps => at[q][1] \in StoredSteps \/ Cur(q) \in stored'
    PROVE  JobInv(q)'
  <1>1. Cur(q)' = Cur(q)
    BY Zenon DEF Cur
  <1>2. at'[q][1] \in StoredSteps => Cur(q)' \in stored'
    BY <1>1, Zenon DEF JobInv
  <1>3. at'[q][1] \in BuildSteps => InOrder(todo'[q], Ready(q)')
    <2>1. SUFFICES ASSUME at'[q][1] \in BuildSteps PROVE InOrder(todo'[q], Ready(q)')
      BY Zenon
    <2>2. InOrder(todo[q], Ready(q))
      BY <2>1, Zenon DEF JobInv
    <2>3. Ready(q) \subseteq Ready(q)'
      BY Zenon DEF Ready
    <2>4. InOrder(todo[q], Ready(q)')
      BY <2>2, <2>3, StillInOrder, Zenon
    <2>5. QED
      BY <2>4, Zenon
  <1>4. QED
    BY <1>2, <1>3, Zenon DEF JobInv

\* A process that is in none of the steps has no list.
LEMMA IdleJobInv ==
    ASSUME NEW p \in Proc, at'[p][1] \in {"none", "finish", "exited", "killed"}
    PROVE  JobInv(p)'
  BY Zenon DEF JobInv, BuildSteps, LockedSteps, InstallSteps, PlaygroundSteps, StoredSteps

\* The head of a list of results is its first one.
LEMMA HeadFacts ==
    ASSUME NEW s \in Seq(Result), s # <<>>
    PROVE  1 \in DOMAIN s /\ Head(s) = s[1]
  <1>1. Len(s) \in Nat /\ Len(s) # 0 /\ DOMAIN s = 1 .. Len(s)
    BY LenProperties, EmptySeq
  <1>2. \A n \in Nat : n # 0 => 1 \in 1 .. n
    OBVIOUS
  <1>3. QED
    BY <1>1, <1>2

\* A list of results has one or more than one.
LEMMA LenCases ==
    ASSUME NEW s \in Seq(Result), s # <<>>
    PROVE  Len(s) # 1 <=> Len(s) > 1
  <1>1. Len(s) \in Nat /\ Len(s) # 0
    BY LenProperties, EmptySeq
  <1>2. \A n \in Nat : n # 0 => (n # 1 <=> n > 1)
    OBVIOUS
  <1>3. QED
    BY <1>1, <1>2, Zenon

\* build_set:build() goes on with the next result: this one is stored, or it was
\* only prepared as a playground.
LEMMA NextJobInv ==
    ASSUME IInv, NEW p \in Proc, JobInv(p), NextResult(p), UNCHANGED stored,
           at[p][1] \in BuildSteps \cup PlaygroundSteps,
           at[p][1] \in BuildSteps => Cur(p) \in stored \/ Cur(p) \in settings[p].prep
    PROVE  JobInv(p)'
  <1> DEFINE s == todo[p]
  <1>1. Typed /\ s # <<>> /\ s \in Seq(Result)
    BY Zenon DEF IInv, Typed, Local
  <1>2. Len(s) \in Nat /\ DOMAIN s = 1 .. Len(s) /\ Len(s) >= 1 /\ Head(s) = s[1]
    BY <1>1, LenProperties, EmptySeq, SMTT(30)
  <1>3. CASE Len(s) = 1
    <2>1. Goto(p, "finish", 0)
      BY <1>3, SMTT(30) DEF NextResult
    <2>2. at'[p][1] = "finish"
      BY <1>1, <2>1, Zenon DEF Typed, Goto
    <2>3. QED
      BY <2>2, IdleJobInv, Zenon
  <1>4. CASE Len(s) > 1
    <2>1. at[p][1] \in BuildSteps
      <3>1. Len(todo[p]) # 1
        BY <1>1, <1>4, LenCases, Zenon
      <3>2. QED
        BY <3>1, Zenon DEF JobInv
    <2>2. InOrder(s, Ready(p)) /\ Head(s) \in Ready(p)
      BY <2>1, Zenon DEF JobInv, Ready, Cur
    <2>4. InOrder(Tail(s), Ready(p))
      BY <1>1, <1>4, <2>2, TailInOrder, Zenon
    <2>5. todo'[p] = Tail(s) /\ settings' = settings /\ at'[p] = <<"result_available", 0>>
      BY <1>1, <1>4, SMTT(30) DEF NextResult, Typed, Goto
    <2>6. InOrder(todo'[p], Ready(p)')
      <3>1. Ready(p)' = Ready(p)
        BY <2>5, Zenon DEF Ready
      <3>2. QED
        BY <2>4, <2>5, <3>1, Zenon
    <2>7. at'[p][1] \notin StoredSteps /\ at'[p][1] \notin PlaygroundSteps
      BY <2>5, SMTT(30) DEF StoredSteps, PlaygroundSteps
    <2>8. QED
      BY <2>6, <2>7, Zenon DEF JobInv
  <1>5. Len(s) = 1 \/ Len(s) > 1
    BY <1>1, LenCases, Zenon
  <1>6. QED
    BY <1>3, <1>4, <1>5, Zenon

\* Only the control of p changes, its settings included.
OnlyJob(p) ==
    \A q \in Proc : q # p =>
        at'[q] = at[q] /\ todo'[q] = todo[q] /\ settings'[q] = settings[q]

\* A move leaves the other processes alone.
LEMMA MovesOnlyJob ==
    ASSUME Typed, NEW p \in Proc,
           \/ NextResult(p)
           \/ StepFailed(p)
           \/ \E s : StepDone(p, s)
           \/ \E s, k : Goto(p, s, k) /\ UNCHANGED <<todo, settings>>
           \/ \E s, k : Ended(p, s, k)
           \/ UNCHANGED <<at, todo, settings>>
    PROVE  OnlyJob(p)
  <1>1. CASE NextResult(p)
    BY <1>1, Zenon DEF NextResult, Goto, Typed, OnlyJob
  <1>2. CASE StepFailed(p) \/ \E s : StepDone(p, s)
    BY <1>2, Zenon DEF StepFailed, StepDone, Goto, Typed, OnlyJob
  <1>3. CASE \E s, k : Goto(p, s, k) /\ UNCHANGED <<todo, settings>>
    BY <1>3, Zenon DEF Goto, Typed, OnlyJob
  <1>4. CASE \E s, k : Ended(p, s, k)
    BY <1>4, Zenon DEF Ended, Goto, Typed, OnlyJob
  <1>5. CASE UNCHANGED <<at, todo, settings>>
    BY <1>5, Zenon DEF OnlyJob
  <1>6. QED
    BY <1>1, <1>2, <1>3, <1>4, <1>5, Zenon

\* A started tool has a sorted list, as dlist_recursive() gives it.
LEMMA StartJobInv ==
    ASSUME IInv, NEW p \in Proc, StartBuild(p) \/ StartPlayground(p)
    PROVE  JobInv(p)' /\ OnlyJob(p) /\ UNCHANGED stored
  <1>1. CASE StartBuild(p)
    <2>1. PICK j \in Jobs : todo' = [todo EXCEPT ![p] = j]
      BY <1>1, Zenon DEF StartBuild
    <2>2. /\ todo'[p] = j /\ at'[p] = <<"result_available", 0>> /\ UNCHANGED stored
          /\ \A q \in Proc : q # p => at'[q] = at[q] /\ todo'[q] = todo[q]
      BY <1>1, <2>1, Zenon DEF StartBuild, IInv, Typed, Goto, disk
    <2>3. OnlyJob(p)
      <3>1. \E new : settings' = [settings EXCEPT ![p] = new]
        BY <1>1, Zenon DEF StartBuild
      <3>2. \A q \in Proc : q # p => settings'[q] = settings[q]
        BY <3>1, Zenon DEF IInv, Typed
      <3>3. QED
        BY <2>2, <3>2, Zenon DEF OnlyJob
    <2>4. InOrder(todo'[p], Ready(p)')
      <3>1. InOrder(j, {})
        <4>1. \A i \in DOMAIN j : Depends[j[i]] \subseteq {j[k] : k \in 1 .. i - 1}
          BY JobsAssumption, Zenon
        <4>2. QED
          BY <4>1, JobFacts, Zenon DEF InOrder
      <3>2. InOrder(j, Ready(p)')
        BY <3>1, StillInOrder, Zenon
      <3>3. QED
        BY <2>2, <3>2, Zenon
    <2>5. at'[p][1] \notin StoredSteps /\ at'[p][1] \notin PlaygroundSteps
      BY <2>2 DEF StoredSteps, PlaygroundSteps
    <2>6. QED
      BY <2>2, <2>3, <2>4, <2>5, Zenon DEF JobInv
  <1>2. CASE StartPlayground(p)
    <2>1. PICK r \in Result : todo' = [todo EXCEPT ![p] = <<r>>]
      BY <1>2, Zenon DEF StartPlayground
    <2>2. /\ todo'[p] = <<r>> /\ at'[p] = <<"chroot_exists", 0>> /\ OnlyJob(p)
          /\ UNCHANGED stored
      BY <1>2, <2>1, Zenon DEF StartPlayground, IInv, Typed, Goto, OnlyJob, disk
    <2>3. Len(todo'[p]) = 1
      BY <2>2
    <2>4. QED
      BY <2>2, <2>3, SMTT(30)
      DEF JobInv, StoredSteps, BuildSteps, LockedSteps, InstallSteps
  <1>3. QED
    BY <1>1, <1>2

\* _next_step() stays in the list of steps of a build, and only _store_result
\* leads to the steps after it.
LEMMA NextStepJob ==
    ASSUME NEW s \in BuildSteps \ {"chroot_unlock"}
    PROVE  /\ next_step[s] \in BuildSteps
           /\ next_step[s] \in StoredSteps => s \in StoredSteps \cup {"store_result"}
  <1>1. CASE s \in InstallSteps
    <2>1. next_step[s] \in InstallSteps \cup {"install_build_time_dependencies", "build_playground"}
      <3>1. CASE s \in {"install_directory_structure", "install_build_script", "install_env"}
        BY <3>1, SMTT(30) DEF next_step, InstallSteps
      <3>2. CASE s \in {"install_init_files", "install_build_driver", "install_sources"}
        BY <3>2, SMTT(30) DEF next_step, InstallSteps
      <3>3. CASE s = "fix_permissions"
        BY <3>3, Zenon DEF next_step
      <3>4. QED
        BY <1>1, <3>1, <3>2, <3>3 DEF InstallSteps
    <2>2. QED
      BY <2>1 DEF BuildSteps, LockedSteps, InstallSteps, StoredSteps
  <1>2. CASE s \in {"result_available", "chroot_lock", "chroot_cleanup_if_exists",
                   "setup_chroot", "install_build_time_dependencies", "build_playground"}
    <2>1. next_step[s] \in {"chroot_lock", "chroot_cleanup_if_exists", "setup_chroot",
                            "install_directory_structure", "install_sources", "runbuild"}
      <3>1. CASE s \in {"result_available", "chroot_lock", "chroot_cleanup_if_exists"}
        BY <3>1, SMTT(30) DEF next_step
      <3>2. CASE s = "setup_chroot"
        BY <3>2, Zenon DEF next_step
      <3>3. CASE s \in {"install_build_time_dependencies", "build_playground"}
        BY <3>3, SMTT(30) DEF next_step
      <3>4. QED
        BY <1>2, <3>1, <3>2, <3>3
    <2>2. QED
      BY <2>1 DEF BuildSteps, LockedSteps, InstallSteps, StoredSteps
  <1>3. CASE s \in {"runbuild", "store_result", "linklast", "chroot_cleanup"}
    <2>1. /\ next_step[s] \in {"store_result", "linklast", "chroot_cleanup", "chroot_unlock"}
          /\ s = "runbuild" => next_step[s] = "store_result"
      BY <1>3, SMTT(30) DEF next_step
    <2>2. QED
      BY <1>3, <2>1 DEF BuildSteps, LockedSteps, StoredSteps
  <1>4. QED
    BY <1>1, <1>2, <1>3, Zenon DEF BuildSteps, LockedSteps

\* A step of a build is done, or goes on inside itself.
LEMMA DoneJobInv ==
    ASSUME Typed, NEW p \in Proc, JobInv(p), stored \subseteq stored',
           NEW s \in BuildSteps, at[p][1] = s,
           \/ /\ s # "chroot_unlock"
              /\ StepDone(p, s)
              /\ s = "store_result" => Cur(p) \in stored'
           \/ \E k : Goto(p, s, k) /\ UNCHANGED <<todo, settings>>
    PROVE  JobInv(p)' /\ OnlyJob(p)
  <1>1. OnlyJob(p)
    BY MovesOnlyJob, Zenon
  <1>2. todo'[p] = todo[p] /\ settings'[p] = settings[p]
    BY Zenon DEF StepDone
  <1>3. s \notin PlaygroundSteps
    BY Zenon DEF BuildSteps, LockedSteps, InstallSteps, PlaygroundSteps
  <1>4. /\ at'[p][1] \in BuildSteps
        /\ at'[p][1] \in StoredSteps => s \in StoredSteps \/ Cur(p) \in stored'
    <2>1. CASE \E k : Goto(p, s, k)
      BY <2>1, SMTT(30) DEF Goto, Typed
    <2>2. CASE StepDone(p, s) /\ s # "chroot_unlock" /\ (s = "store_result" => Cur(p) \in stored')
      <3>1. at'[p][1] = next_step[s]
        BY <2>2, Zenon DEF StepDone, Goto, Typed
      <3>2. QED
        BY <2>2, <3>1, NextStepJob, Zenon
    <2>3. QED
      BY <2>1, <2>2, Zenon
  <1>5. at'[p][1] \notin PlaygroundSteps
    BY <1>4, Zenon DEF BuildSteps, LockedSteps, InstallSteps, PlaygroundSteps
  <1>6. QED
    BY <1>1, <1>2, <1>4, <1>5, StaysJobInv, Zenon

\* A step has failed.
LEMMA FailedJobInv ==
    ASSUME Typed, NEW p \in Proc, StepFailed(p)
    PROVE  JobInv(p)' /\ OnlyJob(p)
  <1>1. OnlyJob(p)
    BY MovesOnlyJob
  <1>2. JobInv(p)'
    BY FailedFacts, IdleJobInv, SMTT(30)
  <1>3. QED
    BY <1>1, <1>2

\* The step a process is at.
LEMMA AtStep ==
    ASSUME NEW p, NEW s, NEW k, At(p, s, k)
    PROVE  at[p][1] = s
  BY SMTT(30) DEF At

\* What a step of a build may do to its control.
JobMove(p, s) ==
    /\ at[p][1] = s
    /\ \/ /\ StepDone(p, s)
          /\ s # "chroot_unlock"
          /\ s = "store_result" => Cur(p) \in stored'
       \/ StepFailed(p)
       \/ /\ Goto(p, s, 1) \/ Goto(p, s, 2)
          /\ UNCHANGED <<todo, settings>>
       \/ /\ NextResult(p)
          /\ UNCHANGED stored
          /\ Cur(p) \in stored \cup settings[p].prep

\* All of that keeps the list in order.
LEMMA MoveJobInv ==
    ASSUME IInv, NEW p \in Proc, JobInv(p), stored \subseteq stored',
           NEW s \in BuildSteps, JobMove(p, s)
    PROVE  JobInv(p)' /\ OnlyJob(p)
  <1>1. Typed /\ at[p][1] = s
    BY Zenon DEF IInv, JobMove
  <1>2. CASE StepDone(p, s) /\ s # "chroot_unlock" /\ (s = "store_result" => Cur(p) \in stored')
    BY <1>1, <1>2, DoneJobInv, Zenon
  <1>3. CASE StepFailed(p)
    BY <1>1, <1>3, FailedJobInv, Zenon
  <1>4. CASE (Goto(p, s, 1) \/ Goto(p, s, 2)) /\ UNCHANGED <<todo, settings>>
    BY <1>1, <1>4, DoneJobInv, Zenon
  <1>5. CASE NextResult(p) /\ UNCHANGED stored /\ Cur(p) \in stored \cup settings[p].prep
    BY <1>1, <1>5, NextJobInv, MovesOnlyJob, Zenon
  <1>6. QED
    BY <1>2, <1>3, <1>4, <1>5, Zenon DEF JobMove

\* The steps up to the lock, and removing and setting up the chroot.
LEMMA SetupJobInv ==
    ASSUME IInv, NEW p \in Proc, JobInv(p),
           \/ result_available(p) \/ chroot_lock(p) \/ chroot_cleanup_if_exists(p)
           \/ remove_chroot(p) \/ unlink_marker(p) \/ create_marker(p)
           \/ mkdir_chroot(p) \/ extract_tar(p)
    PROVE  JobInv(p)' /\ OnlyJob(p) /\ stored \subseteq stored'
  <1>1. UNCHANGED stored /\ stored \subseteq stored'
    BY Zenon DEF result_available, chroot_lock, chroot_cleanup_if_exists, remove_chroot,
           unlink_marker, create_marker, mkdir_chroot, extract_tar, disk
  <1>2. CASE result_available(p)
    <2>1. at[p][1] = "result_available"
      <3>1. At(p, "result_available", 0)
        BY <1>2, Zenon DEF result_available
      <3>2. QED
        BY <3>1, AtStep, Zenon
    <2>2. JobMove(p, "result_available")
      BY <1>2, <2>1, <1>1, Zenon DEF result_available, JobMove
    <2>3. QED
      BY <1>1, <2>2, MoveJobInv, Zenon DEF BuildSteps, LockedSteps
  <1>3. CASE chroot_lock(p)
    <2>1. at[p][1] = "chroot_lock"
      <3>1. At(p, "chroot_lock", 0)
        BY <1>3, Zenon DEF chroot_lock
      <3>2. QED
        BY <3>1, AtStep, Zenon
    <2>2. JobMove(p, "chroot_lock")
      BY <1>3, <2>1, Zenon DEF chroot_lock, JobMove
    <2>3. QED
      BY <1>1, <2>2, MoveJobInv, Zenon DEF BuildSteps, LockedSteps
  <1>4. CASE chroot_cleanup_if_exists(p)
    <2>1. at[p][1] = "chroot_cleanup_if_exists"
      <3>1. At(p, "chroot_cleanup_if_exists", 0)
        BY <1>4, Zenon DEF chroot_cleanup_if_exists
      <3>2. QED
        BY <3>1, AtStep, Zenon
    <2>2. JobMove(p, "chroot_cleanup_if_exists")
      BY <1>4, <2>1, Zenon DEF chroot_cleanup_if_exists, JobMove
    <2>3. QED
      BY <1>1, <2>2, MoveJobInv, Zenon DEF BuildSteps, LockedSteps
  <1>5. CASE remove_chroot(p)
    <2>1. PICK s \in {"chroot_cleanup_if_exists", "chroot_cleanup"} :
             At(p, s, 1) /\ ((Goto(p, s, 2) /\ UNCHANGED <<todo,
                                                           settings>>) \/ StepFailed(p))
      BY <1>5, Zenon DEF remove_chroot
    <2>2. JobMove(p, s)
      BY <2>1, AtStep, Zenon DEF JobMove
    <2>3. QED
      BY <1>1, <2>2, MoveJobInv, Zenon DEF BuildSteps, LockedSteps
  <1>6. CASE unlink_marker(p)
    <2>1. PICK s \in {"chroot_cleanup_if_exists", "chroot_cleanup"} :
             At(p, s, 2) /\ (StepDone(p, s) \/ StepFailed(p))
      BY <1>6, Zenon DEF unlink_marker
    <2>2. JobMove(p, s)
      BY <2>1, AtStep, Zenon DEF JobMove
    <2>3. QED
      BY <1>1, <2>2, MoveJobInv DEF BuildSteps, LockedSteps
  <1>7. CASE create_marker(p)
    <2>1. at[p][1] = "setup_chroot"
      <3>1. At(p, "setup_chroot", 0)
        BY <1>7, Zenon DEF create_marker
      <3>2. QED
        BY <3>1, AtStep, Zenon
    <2>2. JobMove(p, "setup_chroot")
      BY <1>7, <2>1, Zenon DEF create_marker, JobMove
    <2>3. QED
      BY <1>1, <2>2, MoveJobInv, Zenon DEF BuildSteps, LockedSteps
  <1>8. CASE mkdir_chroot(p)
    <2>1. at[p][1] = "setup_chroot"
      <3>1. At(p, "setup_chroot", 1)
        BY <1>8, Zenon DEF mkdir_chroot
      <3>2. QED
        BY <3>1, AtStep, Zenon
    <2>2. JobMove(p, "setup_chroot")
      BY <1>8, <2>1, Zenon DEF mkdir_chroot, JobMove
    <2>3. QED
      BY <1>1, <2>2, MoveJobInv DEF BuildSteps, LockedSteps
  <1>9. CASE extract_tar(p)
    <2>1. at[p][1] = "setup_chroot"
      <3>1. At(p, "setup_chroot", 2)
        BY <1>9, Zenon DEF extract_tar
      <3>2. QED
        BY <3>1, AtStep, Zenon
    <2>2. JobMove(p, "setup_chroot")
      BY <1>9, <2>1, Zenon DEF extract_tar, JobMove
    <2>3. QED
      BY <1>1, <2>2, MoveJobInv DEF BuildSteps, LockedSteps
  <1>10. QED
    BY <1>1, <1>2, <1>3, <1>4, <1>5, <1>6, <1>7, <1>8, <1>9, Zenon

\* The steps from the installation of files to the unlock.
LEMMA BuildJobInv ==
    ASSUME IInv, NEW p \in Proc, JobInv(p),
           \/ install_step(p) \/ install_build_time_dependencies(p)
           \/ build_playground(p) \/ runbuild(p) \/ store_result(p)
           \/ linklast(p) \/ chroot_cleanup(p) \/ chroot_unlock(p)
    PROVE  JobInv(p)' /\ OnlyJob(p) /\ stored \subseteq stored'
  <1>1. stored \subseteq stored'
    BY Zenon DEF install_step, install_build_time_dependencies, build_playground, runbuild,
           store_result, linklast, chroot_cleanup, chroot_unlock, disk
  <1>2. CASE install_step(p)
    <2>1. PICK s \in InstallSteps : At(p, s, 0) /\ StepDone(p, s)
      BY <1>2, Zenon DEF install_step
    <2>2. s \in BuildSteps /\ s # "chroot_unlock" /\ s # "store_result"
      BY DEF BuildSteps, LockedSteps, InstallSteps
    <2>3. JobMove(p, s)
      BY <2>1, <2>2, AtStep, Zenon DEF JobMove
    <2>4. QED
      BY <1>1, <2>2, <2>3, MoveJobInv
  <1>3. CASE install_build_time_dependencies(p)
    <2>1. at[p][1] = "install_build_time_dependencies"
      <3>1. At(p, "install_build_time_dependencies", 0)
        BY <1>3, Zenon DEF install_build_time_dependencies
      <3>2. QED
        BY <3>1, AtStep, Zenon
    <2>2. JobMove(p, "install_build_time_dependencies")
      BY <1>3, <2>1, Zenon DEF install_build_time_dependencies, JobMove
    <2>3. QED
      BY <1>1, <2>2, MoveJobInv DEF BuildSteps, LockedSteps
  <1>4. CASE build_playground(p)
    <2>1. at[p][1] = "build_playground"
      <3>1. At(p, "build_playground", 0)
        BY <1>4, Zenon DEF build_playground
      <3>2. QED
        BY <3>1, AtStep, Zenon
    <2>2. JobMove(p, "build_playground")
      BY <1>4, <2>1, Zenon DEF build_playground, JobMove, disk
    <2>3. QED
      BY <1>1, <2>2, MoveJobInv, Zenon DEF BuildSteps, LockedSteps
  <1>5. CASE runbuild(p)
    <2>1. at[p][1] = "runbuild"
      <3>1. At(p, "runbuild", 0)
        BY <1>5, Zenon DEF runbuild
      <3>2. QED
        BY <3>1, AtStep, Zenon
    <2>2. JobMove(p, "runbuild")
      BY <1>5, <2>1, Zenon DEF runbuild, JobMove
    <2>3. QED
      BY <1>1, <2>2, MoveJobInv, Zenon DEF BuildSteps, LockedSteps
  <1>6. CASE store_result(p)
    <2>1. at[p][1] = "store_result"
      <3>1. At(p, "store_result", 0)
        BY <1>6, Zenon DEF store_result
      <3>2. QED
        BY <3>1, AtStep, Zenon
    <2>2. JobMove(p, "store_result")
      BY <1>6, <2>1, Zenon DEF store_result, JobMove
    <2>3. QED
      BY <1>1, <2>2, MoveJobInv, Zenon DEF BuildSteps, LockedSteps
  <1>7. CASE linklast(p)
    <2>1. at[p][1] = "linklast"
      <3>1. At(p, "linklast", 0)
        BY <1>7, Zenon DEF linklast
      <3>2. QED
        BY <3>1, AtStep, Zenon
    <2>2. JobMove(p, "linklast")
      BY <1>7, <2>1, Zenon DEF linklast, JobMove
    <2>3. QED
      BY <1>1, <2>2, MoveJobInv, Zenon DEF BuildSteps, LockedSteps
  <1>8. CASE chroot_cleanup(p)
    <2>1. at[p][1] = "chroot_cleanup"
      <3>1. At(p, "chroot_cleanup", 0)
        BY <1>8, Zenon DEF chroot_cleanup
      <3>2. QED
        BY <3>1, AtStep, Zenon
    <2>2. JobMove(p, "chroot_cleanup")
      BY <1>8, <2>1, Zenon DEF chroot_cleanup, JobMove
    <2>3. QED
      BY <1>1, <2>2, MoveJobInv DEF BuildSteps, LockedSteps
  <1>9. CASE chroot_unlock(p)
    <2>1. at[p][1] = "chroot_unlock"
      <3>1. At(p, "chroot_unlock", 0)
        BY <1>9, Zenon DEF chroot_unlock
      <3>2. QED
        BY <3>1, AtStep, Zenon
    <2>2. Cur(p) \in stored
      BY <2>1, Zenon DEF JobInv, StoredSteps
    <2>3. JobMove(p, "chroot_unlock")
      BY <1>9, <2>1, <2>2, Zenon DEF chroot_unlock, JobMove
    <2>4. QED
      BY <1>1, <2>3, MoveJobInv, Zenon DEF BuildSteps, LockedSteps
  <1>10. QED
    BY <1>1, <1>2, <1>3, <1>4, <1>5, <1>6, <1>7, <1>8, <1>9, Zenon

\* A playground works on one result only.
LEMMA PlaygroundJobInv ==
    ASSUME IInv, NEW p \in Proc, JobInv(p), playground_step(p)
    PROVE  JobInv(p)' /\ OnlyJob(p) /\ stored \subseteq stored'
  <1>1. Typed /\ UNCHANGED stored /\ at[p][1] \in PlaygroundSteps
    <2>1. at[p][1] \in {"chroot_exists", "enter_playground"}
      <3>1. \E s \in {"chroot_exists", "enter_playground"} : At(p, s, 0) \/ At(p, s, 1)
        BY Zenon DEF playground_step, chroot_exists, write_profile, leave_playground
      <3>2. QED
        BY <3>1, AtStep, Zenon
    <2>2. UNCHANGED stored
      BY Zenon DEF playground_step, chroot_exists, write_profile, leave_playground, disk
    <2>3. QED
      BY <2>1, <2>2, Zenon DEF IInv, PlaygroundSteps
  <1>2. at[p][1] \notin BuildSteps
    BY <1>1, Zenon DEF BuildSteps, LockedSteps, InstallSteps, PlaygroundSteps
  <1>3. CASE StepFailed(p)
    BY <1>1, <1>3, FailedJobInv, Zenon
  <1>4. CASE NextResult(p)
    BY <1>1, <1>2, <1>4, NextJobInv, MovesOnlyJob, Zenon
  <1>5. CASE StepDone(p, "chroot_exists")
             \/ (Goto(p, "enter_playground", 1) /\ UNCHANGED <<todo, settings>>)
    <2>1. /\ at'[p][1] = "enter_playground"
          /\ todo'[p] = todo[p] /\ settings'[p] = settings[p]
      BY <1>1, <1>5, NextStepFacts, SMTT(30) DEF StepDone, Goto, Typed
    <2>2. at'[p][1] \notin BuildSteps /\ at'[p][1] \notin StoredSteps
      BY <2>1, Zenon DEF BuildSteps, LockedSteps, InstallSteps, StoredSteps
    <2>3. QED
      BY <1>1, <1>5, <2>1, <2>2, StaysJobInv, MovesOnlyJob, Zenon
  <1>6. QED
    BY <1>3, <1>4, <1>5, Zenon DEF playground_step, chroot_exists, write_profile, leave_playground

\* A process that finishes, or is killed, has nothing left to build.
LEMMA FinishJobInv ==
    ASSUME IInv, NEW p \in Proc, JobInv(p),
           \/ rmtempdirs(p) \/ rmtempfiles(p) \/ lock_cleanup(p) \/ kill(p)
           \/ step_fails(p) \/ child_failed(p)
    PROVE  JobInv(p)' /\ OnlyJob(p) /\ stored \subseteq stored'
  <1>1. Typed /\ UNCHANGED stored
    BY Zenon DEF IInv, rmtempdirs, rmtempfiles, lock_cleanup, kill, step_fails,
                 child_failed, disk
  <1>2. CASE step_fails(p) \/ child_failed(p)
    BY <1>1, <1>2, FailedJobInv, Zenon DEF step_fails, child_failed
  <1>3. CASE \E s \in {"exited", "killed"}, k \in {0, 1} : Ended(p, s, k)
    <2>1. at'[p][1] \in {"exited", "killed"}
      BY <1>1, <1>3, SMTT(30) DEF Ended, Goto, Typed
    <2>2. QED
      BY <1>1, <1>3, <2>1, IdleJobInv, MovesOnlyJob, Zenon
  <1>4. CASE (Goto(p, "finish", 1) \/ Goto(p, "finish", 2)) /\ UNCHANGED <<todo, settings>>
    <2>1. at'[p][1] = "finish"
      BY <1>1, <1>4, SMTT(30) DEF Goto, Typed
    <2>2. QED
      BY <1>1, <1>4, <2>1, IdleJobInv, MovesOnlyJob, Zenon
  <1>5. CASE UNCHANGED <<at, todo, settings>> /\ lock_cleanup(p)
    <2>1. at'[p][1] = "finish"
      <3>1. At(p, "finish", 2)
        BY <1>5, Zenon DEF lock_cleanup
      <3>2. QED
        BY <1>5, <3>1, AtStep, Zenon
    <2>2. QED
      BY <1>1, <1>5, <2>1, IdleJobInv, MovesOnlyJob, Zenon
  <1>6. QED
    BY <1>2, <1>3, <1>4, <1>5, Zenon DEF rmtempdirs, rmtempfiles, lock_cleanup, kill

\* The invariant that says that a build works through its list in order.
JInv == IInv /\ \A p \in Proc : JobInv(p)

\* Every step keeps it.
LEMMA NextJInv ==
    ASSUME ~ExecFails, JInv, [Next]_vars
    PROVE  JInv'
  <1>1. IInv /\ IInv'
    BY NextIInv DEF JInv
  <1>2. ASSUME NEW p \in Proc, JobInv(p)', OnlyJob(p), stored \subseteq stored'
        PROVE  \A q \in Proc : JobInv(q)'
    <2>1. ASSUME NEW q \in Proc, q # p PROVE JobInv(q)'
      BY <1>2, <2>1, StaysJobInv, Zenon DEF OnlyJob, JInv
    <2>2. QED
      BY <1>2, <2>1, Zenon
  <1>3. ASSUME NEW p \in Proc, StartBuild(p) \/ StartPlayground(p) \/ run(p) \/ kill(p)
        PROVE  \A q \in Proc : JobInv(q)'
    <2>1. JobInv(p)' /\ OnlyJob(p) /\ stored \subseteq stored'
      <3>1. JobInv(p)
        BY DEF JInv
      <3>2. CASE StartBuild(p) \/ StartPlayground(p)
        BY <1>1, <3>2, StartJobInv
      <3>3. CASE run(p) \/ kill(p)
        <4>1. ~child_unlocks(p)
          BY <1>1, NoChildUnlocks, Zenon
        <4>2. QED
          BY <1>1, <3>1, <3>3, <4>1, SetupJobInv, BuildJobInv, PlaygroundJobInv,
             FinishJobInv, Zenon
          DEF run, build_step, child_aborts
      <3>4. QED
        BY <1>3, <3>2, <3>3
    <2>2. QED
      BY <1>2, <2>1
  <1>4. ASSUME UNCHANGED <<at, todo, settings, stored>>
        PROVE  \A q \in Proc : JobInv(q)'
    BY <1>4, StaysJobInv, Zenon DEF JInv
  <1>5. ASSUME NEW r \in Result, rmdir_stale_lock(r) PROVE UNCHANGED <<at, todo,
                                                                       settings, stored>>
    BY <1>5, Zenon DEF rmdir_stale_lock, proc
  <1>6. CASE UNCHANGED vars
    BY <1>4, <1>6, <1>1, Zenon DEF vars, disk, proc, JInv
  <1>7. QED
    BY <1>1, <1>3, <1>4, <1>5, <1>6, Zenon DEF Next, JInv

-----------------------------------------------------------------------------
(* The owner of a chroot, for the refinement of ChrootProtocol.            *)

\* Who has the lock directory in its list is the owner, and there is one.
OwnerIsHolder ==
    \A r \in Result :
       /\ r \notin lockdir => Owner(r) = "nobody"
       /\ r \in lockdir /\ (\A q \in Proc : r \notin locks[q]) => Owner(r) = "stale"
       /\ \A p \in Proc : Owner(r) = p <=> r \in locks[p]

\* This follows from the lock lists alone.
LEMMA OwnerFacts == LockInv => OwnerIsHolder
  <1>1. SUFFICES ASSUME LockInv, NEW r \in Result
                 PROVE  /\ r \notin lockdir => Owner(r) = "nobody"
                        /\ r \in lockdir /\ (\A q \in Proc : r \notin locks[q])
                              => Owner(r) = "stale"
                        /\ \A p \in Proc : Owner(r) = p <=> r \in locks[p]
    BY Zenon DEF OwnerIsHolder
  <1>2. r \notin lockdir => Owner(r) = "nobody" /\ \A p \in Proc : r \notin locks[p]
    BY <1>1 DEF Owner, LockInv
  <1>3. r \in lockdir /\ (\A q \in Proc : r \notin locks[q]) => Owner(r) = "stale"
    BY DEF Owner, Holders
  <1>4. ASSUME NEW p \in Proc, r \in locks[p] PROVE Owner(r) = p
    <2>1. r \in lockdir /\ \A q \in Proc : r \in locks[q] => q = p
      BY <1>1, <1>4, Zenon DEF LockInv
    <2>2. p \in Holders(r)
      BY <1>4 DEF Holders
    <2>3. Owner(r) = CHOOSE q \in Proc : r \in locks[q]
      BY <2>1, <2>2 DEF Owner
    <2>4. QED
      BY <1>4, <2>1, <2>3, Zenon
  <1>5. ASSUME NEW p \in Proc, Owner(r) = p PROVE r \in locks[p]
    <2>1. PICK q \in Proc : r \in locks[q]
      BY <1>2, <1>3, <1>5, ProcAssumption, Zenon
    <2>2. QED
      BY <1>4, <1>5, <2>1, Zenon
  <1>6. QED
    BY <1>2, <1>3, <1>4, <1>5, Zenon

\* A lock that a step leaves alone keeps its owner.
LEMMA OwnerKept ==
    ASSUME OwnerIsHolder, OwnerIsHolder', NEW r \in Result,
           r \in lockdir' <=> r \in lockdir,
           \A q \in Proc : r \in locks'[q] <=> r \in locks[q]
    PROVE  Owner(r)' = Owner(r)
  <1>1. CASE r \notin lockdir
    BY <1>1, SMTT(30) DEF OwnerIsHolder
  <1>2. CASE r \in lockdir /\ \A q \in Proc : r \notin locks[q]
    BY <1>2, SMTT(30) DEF OwnerIsHolder
  <1>3. CASE \E q \in Proc : r \in locks[q]
    BY <1>3, SMTT(30) DEF OwnerIsHolder
  <1>4. QED
    BY <1>1, <1>2, <1>3, Zenon

\* What a step has to do to the owners, for each kind of step.
LEMMA OwnersSame ==
    ASSUME UNCHANGED <<lockdir, locks>>
    PROVE  [r \in Result |-> Owner(r)]' = [r \in Result |-> Owner(r)]
  BY DEF Owner, Holders

\* When one result's lock changes hands, the owner of that result alone does.
LEMMA OwnerSet ==
    ASSUME OwnerIsHolder, OwnerIsHolder', NEW r \in Result, NEW o, Owner(r)' = o,
           \A x \in Result \ {r} :
              /\ x \in lockdir' <=> x \in lockdir
              /\ \A q \in Proc : x \in locks'[q] <=> x \in locks[q]
    PROVE  [x \in Result |-> Owner(x)]' = [[x \in Result |-> Owner(x)] EXCEPT ![r] = o]
  <1>1. \A x \in Result \ {r} : Owner(x)' = Owner(x)
    BY OwnerKept, Zenon
  <1>2. QED
    BY <1>1, Zenon

\* A lock is taken, given back, given up or taken away by the user.
LEMMA LockStep ==
    ASSUME IInv, OwnerIsHolder, OwnerIsHolder', NEW r \in Result,
           UNCHANGED <<marker, chroot>>,
           \A x \in Result \ {r} :
              /\ x \in lockdir' <=> x \in lockdir
              /\ \A q \in Proc : x \in locks'[q] <=> x \in locks[q],
           \/ \E p \in Proc : r \notin lockdir /\ r \in locks'[p]
           \/ \E p \in Proc : r \in locks[p] /\ r \notin lockdir'
           \/ /\ \E p \in Proc : r \in locks[p]
              /\ r \in lockdir' /\ \A q \in Proc : r \notin locks'[q]
           \/ r \in lockdir /\ (\A q \in Proc : r \notin locks[q]) /\ r \notin lockdir'
    PROVE  Protocol!Next
  <1>1. CASE \E p \in Proc : r \notin lockdir /\ r \in locks'[p]
    <2>1. PICK p \in Proc : r \notin lockdir /\ r \in locks'[p]
      BY <1>1, Zenon
    <2>2. Owner(r) = "nobody" /\ Owner(r)' = p
      BY <2>1, Zenon DEF OwnerIsHolder
    <2>3. Protocol!Acquire(p, r)
      BY <2>2, OwnerSet, Zenon DEF Protocol!Acquire, Protocol!SetOwner
    <2>4. QED
      BY <2>3, Zenon DEF Protocol!Next
  <1>2. CASE \E p \in Proc : r \in locks[p] /\ r \notin lockdir'
    <2>1. PICK p \in Proc : r \in locks[p] /\ r \notin lockdir'
      BY <1>2, Zenon
    <2>2. Owner(r) = p /\ Owner(r)' = "nobody"
      BY <2>1, Zenon DEF OwnerIsHolder
    <2>3. Protocol!Release(p, r)
      BY <2>2, OwnerSet, Zenon DEF Protocol!Release, Protocol!SetOwner
    <2>4. QED
      BY <2>3, Zenon DEF Protocol!Next
  <1>3. CASE r \in lockdir /\ (\A q \in Proc : r \notin locks[q]) /\ r \notin lockdir'
    <2>1. Owner(r) = "stale" /\ Owner(r)' = "nobody"
      BY <1>3, Zenon DEF OwnerIsHolder
    <2>2. Protocol!Reclaim(r)
      BY <2>1, OwnerSet, Zenon DEF Protocol!Reclaim, Protocol!SetOwner
    <2>3. QED
      BY <2>2, Zenon DEF Protocol!Next
  <1>4. ASSUME NEW p \in Proc, r \in locks[p], r \in lockdir', \A q \in Proc : r \notin locks'[q]
        PROVE  Protocol!Next
    <2>1. Owner(r) = p /\ Owner(r)' = "stale"
      BY <1>4, Zenon DEF OwnerIsHolder
    <2>2. Protocol!Abandon(p, r)
      BY <2>1, OwnerSet, Zenon DEF Protocol!Abandon, Protocol!SetOwner
    <2>3. QED
      BY <2>2, Zenon DEF Protocol!Next
  <1>5. QED
    BY <1>1, <1>2, <1>3, <1>4, Zenon

\* A process that ends without removing its locks leaves them stale.
LEMMA DieStep ==
    ASSUME IInv, OwnerIsHolder, OwnerIsHolder', NEW p \in Proc,
           NEW s \in {"exited", "killed"}, NEW k \in {0, 1}, Ended(p, s, k),
           UNCHANGED <<dirs, marker, chroot>>
    PROVE  Protocol!Next
  <1>1. locks'[p] = {} /\ \A q \in Proc : q # p => locks'[q] = locks[q]
    BY EndedFacts, Zenon DEF IInv
  <1>2. ASSUME NEW r \in Result
        PROVE  Owner(r)' = IF Owner(r) = p THEN "stale" ELSE Owner(r)
    <2>1. CASE Owner(r) = p
      <3>1. r \in locks[p] /\ r \in lockdir'
        BY <2>1, Zenon DEF OwnerIsHolder, IInv, LockInv
      <3>2. \A q \in Proc : r \notin locks'[q]
        BY <1>1, <3>1, Zenon DEF IInv, LockInv
      <3>3. QED
        BY <2>1, <3>1, <3>2, Zenon DEF OwnerIsHolder
    <2>2. CASE Owner(r) # p
      <3>1. r \notin locks[p]
        BY <2>2, Zenon DEF OwnerIsHolder
      <3>2. \A q \in Proc : r \in locks'[q] <=> r \in locks[q]
        BY <1>1, <3>1, Zenon
      <3>3. QED
        BY <2>2, <3>2, OwnerKept, Zenon
    <2>3. QED
      BY <2>1, <2>2, Zenon
  <1>3. Protocol!Die(p)
    BY <1>2 DEF Protocol!Die
  <1>4. QED
    BY <1>3, Zenon DEF Protocol!Next

\* The marker and the chroot directory are made and removed by the owner.
LEMMA ChrootStep ==
    ASSUME IInv, OwnerIsHolder, OwnerIsHolder', NEW p \in Proc,
           remove_chroot(p) \/ unlink_marker(p) \/ create_marker(p) \/ mkdir_chroot(p)
    PROVE  Protocol!Next \/ UNCHANGED Protocol!vars
  <1> DEFINE r == Cur(p)
  <1>1. UNCHANGED <<lockdir, locks>>
    BY Zenon DEF remove_chroot, unlink_marker, create_marker, mkdir_chroot
  <1>2. [x \in Result |-> Owner(x)]' = [x \in Result |-> Owner(x)]
    BY <1>1, OwnersSame
  <1>3. at[p][1] \in {"chroot_cleanup_if_exists", "chroot_cleanup", "setup_chroot"}
    <2>1. CASE remove_chroot(p) \/ unlink_marker(p)
      <3>1. \E s \in {"chroot_cleanup_if_exists", "chroot_cleanup"} : At(p, s, 1) \/ At(p, s, 2)
        BY <2>1, Zenon DEF remove_chroot, unlink_marker
      <3>2. QED
        BY <3>1, AtStep, Zenon
    <2>2. CASE create_marker(p) \/ mkdir_chroot(p)
      <3>1. At(p, "setup_chroot", 0) \/ At(p, "setup_chroot", 1)
        BY <2>2, Zenon DEF create_marker, mkdir_chroot
      <3>2. QED
        BY <3>1, AtStep, Zenon
    <2>3. QED
      BY <2>1, <2>2, Zenon
  <1>4. at[p][1] \in LockedSteps
    BY <1>3, Zenon DEF LockedSteps
  <1>5. r \in locks[p] /\ r \in Result
    BY <1>4, Zenon DEF IInv, Local, Typed
  <1>6. Owner(r) = p
    BY <1>5, Zenon DEF OwnerIsHolder
  <1>7. CASE remove_chroot(p)
    <2>1. UNCHANGED marker /\ (chroot' = chroot \ {r} \/ UNCHANGED chroot)
      BY <1>7, Zenon DEF remove_chroot
    <2>2. CASE chroot' = chroot \ {r}
      BY <1>2, <1>5, <1>6, <2>1, <2>2, Zenon DEF Protocol!Remove, Protocol!Next
    <2>3. CASE UNCHANGED chroot
      BY <1>2, <2>1, <2>3, Zenon DEF Protocol!vars
    <2>4. QED
      BY <2>1, <2>2, <2>3
  <1>8. CASE unlink_marker(p)
    <2>1. UNCHANGED chroot /\ (marker' = marker \ {r} \/ UNCHANGED marker)
      BY <1>8, Zenon DEF unlink_marker
    <2>2. r \notin chroot
      BY <1>8, Zenon DEF unlink_marker, At, IInv, Local
    <2>3. CASE marker' = marker \ {r}
      BY <1>2, <1>5, <1>6, <2>1, <2>2, <2>3, Zenon DEF Protocol!Unmark, Protocol!Next
    <2>4. CASE UNCHANGED marker
      BY <1>2, <2>1, <2>4, Zenon DEF Protocol!vars
    <2>5. QED
      BY <2>1, <2>3, <2>4
  <1>9. CASE create_marker(p)
    BY <1>2, <1>5, <1>6, <1>9, Zenon DEF create_marker, Protocol!Mark, Protocol!Next
  <1>10. CASE mkdir_chroot(p)
    <2>1. UNCHANGED marker /\ (chroot' = chroot \cup {r} \/ UNCHANGED chroot)
      BY <1>10, Zenon DEF mkdir_chroot
    <2>2. r \in marker
      BY <1>10, Zenon DEF mkdir_chroot, At, IInv, Local
    <2>3. CASE chroot' = chroot \cup {r}
      BY <1>2, <1>5, <1>6, <2>1, <2>2, <2>3, Zenon DEF Protocol!Make, Protocol!Next
    <2>4. CASE UNCHANGED chroot
      BY <1>2, <2>1, <2>4, Zenon DEF Protocol!vars
    <2>5. QED
      BY <2>1, <2>3, <2>4
  <1>11. QED
    BY <1>7, <1>8, <1>9, <1>10

\* Taking the lock, and the two ways of giving it back.
LEMMA OwnStep ==
    ASSUME IInv, OwnerIsHolder, OwnerIsHolder', NEW p \in Proc,
           chroot_lock(p) \/ chroot_unlock(p) \/ (lock_cleanup(p) /\ locks[p] # {})
    PROVE  Protocol!Next \/ UNCHANGED Protocol!vars
  <1>1. Typed /\ UNCHANGED <<marker, chroot>>
    BY Zenon DEF IInv, chroot_lock, chroot_unlock, lock_cleanup
  <1>2. CASE chroot_lock(p)
    <2>1. CASE Cur(p) \notin lockdir
      <3>1. Cur(p) \in Result
        <4>1. at[p][1] \in BuildSteps
          BY <1>2, AtStep, Zenon DEF chroot_lock, BuildSteps
        <4>2. todo[p] # <<>> /\ todo[p] \in Seq(Result)
          BY <4>1, Zenon DEF IInv, Local, Typed
        <4>3. QED
          BY <4>2, TodoFacts, Zenon DEF Cur
      <3>2. /\ lockdir' = lockdir \cup {Cur(p)}
            /\ locks' = [locks EXCEPT ![p] = @ \cup {Cur(p)}]
        BY <1>2, <2>1, Zenon DEF chroot_lock
      <3>3. Cur(p) \in locks'[p]
        BY <1>1, <3>2, Zenon DEF Typed
      <3>4. \A x \in Result \ {Cur(p)} :
              /\ x \in lockdir' <=> x \in lockdir
              /\ \A q \in Proc : x \in locks'[q] <=> x \in locks[q]
        BY <1>1, <3>2, Zenon DEF Typed
      <3>5. QED
        BY <1>1, <2>1, <3>1, <3>3, <3>4, LockStep, Zenon
    <2>2. CASE Cur(p) \in lockdir
      BY <1>1, <1>2, <2>2, OwnersSame, Zenon DEF chroot_lock, Protocol!vars
    <2>3. QED
      BY <2>1, <2>2, Zenon
  <1>3. ASSUME NEW r \in locks[p], unlock(p, r), rmdir_done(r) \/ rmdir_failed(r)
        PROVE  Protocol!Next
    <2>1. r \in Result /\ \A q \in Proc : r \notin locks'[q]
      <3>1. r \in Result /\ \A q \in Proc : q # p => r \notin locks[q]
        BY <1>1, Zenon DEF Typed, IInv, LockInv
      <3>2. QED
        BY <1>1, <1>3, <3>1, Zenon DEF Typed, unlock
    <2>2. \A x \in Result \ {r} : \A q \in Proc : x \in locks'[q] <=> x \in locks[q]
      BY <1>1, <1>3, Zenon DEF Typed, unlock
    <2>3. \A x \in Result \ {r} : x \in lockdir' <=> x \in lockdir
      BY <1>3, Zenon DEF rmdir_done, rmdir_failed
    <2>4. QED
      BY <1>1, <1>3, <2>1, <2>2, <2>3, LockStep, Zenon
  <1>4. CASE chroot_unlock(p)
    <2>1. Cur(p) \in locks[p]
      <3>1. at[p][1] = "chroot_unlock"
        BY <1>4, AtStep, Zenon DEF chroot_unlock
      <3>2. at[p][1] \in LockedSteps
        BY <3>1, Zenon DEF LockedSteps
      <3>3. QED
        BY <3>2, Zenon DEF IInv, Local
    <2>2. unlock(p, Cur(p)) /\ (rmdir_done(Cur(p)) \/ rmdir_failed(Cur(p)))
      BY <1>4, <2>1, Zenon DEF chroot_unlock
    <2>3. QED
      BY <1>3, <2>1, <2>2, Zenon
  <1>5. CASE lock_cleanup(p) /\ locks[p] # {}
    BY <1>3, <1>5, Zenon DEF lock_cleanup
  <1>6. QED
    BY <1>2, <1>4, <1>5, Zenon

\* Everything else leaves the locks, the markers and the directories alone.
LEMMA NoOwnStep ==
    ASSUME NEW p \in Proc,
           \/ StartBuild(p) \/ StartPlayground(p)
           \/ result_available(p) \/ chroot_cleanup_if_exists(p)
           \/ extract_tar(p) \/ install_step(p)
           \/ install_build_time_dependencies(p) \/ build_playground(p)
           \/ runbuild(p) \/ store_result(p) \/ linklast(p) \/ chroot_cleanup(p)
           \/ playground_step(p) \/ step_fails(p) \/ child_failed(p)
           \/ (rmtempdirs(p) \/ rmtempfiles(p)) /\ UNCHANGED locks
    PROVE  UNCHANGED <<lockdir, locks, marker, chroot>>
  BY Zenon DEF StartBuild, StartPlayground, result_available, chroot_cleanup_if_exists,
         extract_tar, install_step, install_build_time_dependencies, build_playground,
         runbuild, store_result, linklast, chroot_cleanup, playground_step,
         chroot_exists, write_profile, leave_playground, step_fails, child_failed,
         rmtempdirs, rmtempfiles, disk

\* Every step of the build processes is a step of the protocol, or none.
LEMMA NextProtocol ==
    ASSUME ~ExecFails, IInv, OwnerIsHolder, OwnerIsHolder', [Next]_vars
    PROVE  Protocol!Next \/ UNCHANGED Protocol!vars
  <1>1. ASSUME UNCHANGED <<lockdir, locks, marker, chroot>>
        PROVE  UNCHANGED Protocol!vars
    BY <1>1, OwnersSame, Zenon DEF Protocol!vars
  <1>2. ASSUME NEW p \in Proc,
               rmtempdirs(p) \/ rmtempfiles(p) \/ lock_cleanup(p) \/ kill(p)
        PROVE  Protocol!Next \/ UNCHANGED Protocol!vars
    <2>1. CASE (rmtempdirs(p) \/ rmtempfiles(p)) /\ UNCHANGED locks
      BY <1>1, <2>1, NoOwnStep, Zenon
    <2>2. CASE (rmtempdirs(p) \/ rmtempfiles(p)) /\ Ended(p, "exited", 1)
      BY <2>2, DieStep, Zenon DEF rmtempdirs, rmtempfiles
    <2>3. CASE lock_cleanup(p) /\ locks[p] # {}
      BY <2>3, OwnStep, Zenon
    <2>4. CASE lock_cleanup(p) /\ locks[p] = {}
      BY <2>4, DieStep, Zenon DEF lock_cleanup
    <2>5. CASE kill(p)
      BY <2>5, DieStep, Zenon DEF kill, disk
    <2>6. QED
      BY <1>2, <2>1, <2>2, <2>3, <2>4, <2>5, Zenon DEF rmtempdirs, rmtempfiles
  <1>3. ASSUME NEW p \in Proc, StartBuild(p) \/ StartPlayground(p) \/ run(p) \/ kill(p)
        PROVE  Protocol!Next \/ UNCHANGED Protocol!vars
    <2>1. ~child_unlocks(p)
      BY NoChildUnlocks, Zenon
    <2>2. QED
      BY <1>1, <1>2, <1>3, <2>1, NoOwnStep, OwnStep, ChrootStep, Zenon
      DEF run, build_step, child_aborts
  <1>4. ASSUME NEW r \in Result, rmdir_stale_lock(r)
        PROVE  Protocol!Next
    <2>1. /\ r \in lockdir /\ \A q \in Proc : r \notin locks[q]
          /\ lockdir' = lockdir \ {r} /\ UNCHANGED <<locks, marker, chroot>>
      BY <1>4, Zenon DEF rmdir_stale_lock, Holders, proc
    <2>2. QED
      BY <2>1, LockStep, Zenon
  <1>5. CASE UNCHANGED vars
    BY <1>1, <1>5 DEF vars, disk, proc
  <1>6. QED
    BY <1>3, <1>4, <1>5 DEF Next

\* No process owns a chroot at the start.
LEMMA InitProtocol == Init => Protocol!Init
  <1>1. SUFFICES ASSUME Init PROVE Protocol!Init
    OBVIOUS
  <1>2. \A r \in Result : Owner(r) = "nobody"
    BY <1>1 DEF Init, Owner
  <1>3. QED
    BY <1>1, <1>2 DEF Init, Protocol!Init

\* A lock directory loses its holders only when their cleanup is cut short or it
\* could not be removed.
LEMMA NextOrphans ==
    ASSUME ~ExecFails, IInv, [Next]_vars,
           NEW r \in lockdir \cap lockdir', Holders(r) # {}, Holders(r)' = {}
    PROVE  r \in unremoved' \/ \E p \in Holders(r) : CleanupCutShort(p)'
  <1>1. PICK h \in Proc : r \in locks[h] /\ h \in Holders(r)
    BY Zenon DEF Holders
  <1>2. \A q \in Proc : r \notin locks'[q]
    BY Zenon DEF Holders
  <1>3. Typed
    BY DEF IInv
  <1>4. ASSUME UNCHANGED locks PROVE FALSE
    BY <1>1, <1>2, <1>4, Zenon
  <1>5. ASSUME NEW p \in Proc, NEW x, unlock(p, x), rmdir_done(x) \/ rmdir_failed(x)
        PROVE  r \in unremoved'
    <2>1. CASE r = x
      <3>1. rmdir_failed(r)
        BY <1>5, <2>1, Zenon DEF rmdir_done
      <3>2. QED
        BY <3>1, Zenon DEF rmdir_failed
    <2>2. CASE r # x
      <3>1. r \in locks'[h]
        BY <1>1, <1>3, <1>5, <2>2, Zenon DEF unlock, Typed
      <3>2. QED
        BY <1>2, <3>1, Zenon
    <2>3. QED
      BY <2>1, <2>2, Zenon
  <1>6. ASSUME NEW p \in Proc, NEW s, NEW k, Ended(p, s, k) PROVE h = p /\ at'[p] = <<s, k>>
    BY <1>1, <1>2, <1>3, <1>6, Zenon DEF Ended, Goto, Typed
  <1>7. ASSUME NEW p \in Proc, StartBuild(p) \/ StartPlayground(p) \/ run(p) \/ kill(p)
        PROVE  r \in unremoved' \/ \E q \in Holders(r) : CleanupCutShort(q)'
    <2>1. CASE chroot_lock(p)
      BY <1>1, <1>2, <1>3, <2>1, Zenon DEF chroot_lock, Typed
    <2>2. CASE chroot_unlock(p)
      BY <1>4, <1>5, <2>2, Zenon DEF chroot_unlock
    <2>3. CASE rmtempdirs(p) \/ rmtempfiles(p)
      <3>1. Ended(p, "exited", 1)
        BY <1>4, <2>3, Zenon DEF rmtempdirs, rmtempfiles
      <3>2. QED
        BY <1>1, <1>6, <3>1, Zenon DEF CleanupCutShort
    <2>4. CASE lock_cleanup(p)
      <3>1. CASE locks[p] = {} /\ Ended(p, "exited", 0)
        BY <1>1, <1>6, <3>1, Zenon
      <3>2. QED
        BY <1>5, <2>4, <3>1, Zenon DEF lock_cleanup
    <2>5. CASE kill(p)
      BY <1>1, <1>6, <2>5, Zenon DEF kill, CleanupCutShort
    <2>6. CASE remove_chroot(p) \/ unlink_marker(p) \/ create_marker(p) \/ mkdir_chroot(p)
      BY <1>4, <2>6, Zenon DEF remove_chroot, unlink_marker, create_marker, mkdir_chroot
    <2>7. QED
      BY <1>4, <1>7, <2>1, <2>2, <2>3, <2>4, <2>5, <2>6, NoOwnStep, NoChildUnlocks, Zenon
      DEF run, build_step, child_aborts
  <1>8. ASSUME NEW x \in Result, rmdir_stale_lock(x) PROVE FALSE
    BY <1>4, <1>8, Zenon DEF rmdir_stale_lock, proc
  <1>9. CASE UNCHANGED vars
    BY <1>4, <1>9, Zenon DEF vars, proc
  <1>10. QED
    BY <1>7, <1>8, <1>9, Zenon DEF Next

-----------------------------------------------------------------------------
(* The theorems.                                                           *)

\* The invariant holds in every state of every behaviour.
THEOREM Invariance == ASSUME ~ExecFails PROVE Spec => []IInv
  <1>1. IInv /\ [Next]_vars => IInv'
    BY NextIInv
  <1>2. QED
    BY InitIInv, <1>1, PTL DEF Spec

\* Every variable keeps its type, and a process in a step has a result to work
\* on, whatever is killed and whenever (build_set:build()).
THEOREM TypeCorrect == ASSUME ~ExecFails PROVE Spec => []TypeOK
  <1>1. IInv => TypeOK
    BY Zenon DEF IInv, Local, TypeOK
  <1>2. QED
    BY <1>1, Invariance, PTL

\* Two processes never work in the chroot of the same result (_chroot_lock).
THEOREM LockExcludes == ASSUME ~ExecFails PROVE Spec => []MutualExclusion
  <1>1. IInv => MutualExclusion
    BY Zenon DEF IInv, Local, LockInv, MutualExclusion, InChroot
  <1>2. QED
    BY <1>1, Invariance, PTL

\* A chroot directory always has its marker (_setup_chroot,
\* helper_chroot_remove), so a crash never leaves one that cannot be removed.
THEOREM ChrootIsMarked == ASSUME ~ExecFails PROVE Spec => []MarkerGuardsChroot
  <1>1. IInv => MarkerGuardsChroot
    BY Zenon DEF IInv, DiskInv, MarkerGuardsChroot
  <1>2. QED
    BY <1>1, Invariance, PTL

\* The build script runs in a chroot with the files of this build only.
THEOREM BuildsAreFresh == ASSUME ~ExecFails PROVE Spec => []FreshChroot
  <1>1. IInv => FreshChroot
    BY Zenon DEF IInv, Local, FreshChroot, FilledSteps
  <1>2. QED
    BY <1>1, Invariance, PTL

\* A build starts in a chroot of its own that can always be removed again.
THEOREM OneBuildPerChroot == ASSUME ~ExecFails PROVE Spec => []ChrootOfOneBuild
  BY ChrootIsMarked, BuildsAreFresh, PTL DEF ChrootOfOneBuild

\* A build works through its list in order (build_set:build()).
THEOREM JobInvariance == ASSUME ~ExecFails PROVE Spec => []JInv
  <1>1. Init => JInv
    <2>1. SUFFICES ASSUME Init PROVE JInv
      OBVIOUS
    <2>2. \A p \in Proc : at[p][1] = "none"
      BY <2>1 DEF Init
    <2>3. \A p \in Proc : JobInv(p)
      BY <2>2, Zenon
      DEF JobInv, BuildSteps, LockedSteps, InstallSteps, PlaygroundSteps, StoredSteps
    <2>4. QED
      BY <2>1, <2>3, InitIInv DEF JInv
  <1>2. JInv /\ [Next]_vars => JInv'
    BY NextJInv
  <1>3. QED
    BY <1>1, <1>2, PTL DEF Spec

\* When a build unpacks its dependencies they are all stored, but for its own
\* playgrounds: build_set:build() goes through a sorted list and stops at the
\* first failure.
THEOREM DependenciesAreStored == ASSUME ~ExecFails PROVE Spec => []DependenciesStored
  <1>1. JInv => DependenciesStored
    <2>1. SUFFICES ASSUME JInv, NEW p \in Proc,
                          at[p][1] = "install_build_time_dependencies"
                   PROVE  Depends[Cur(p)] \ settings[p].prep \subseteq stored
      BY Zenon DEF DependenciesStored
    <2>2. InOrder(todo[p], Ready(p)) /\ todo[p] \in Seq(Result)
      BY <2>1, Zenon DEF JInv, JobInv, BuildSteps, LockedSteps, IInv, Typed
    <2>3. 1 \in DOMAIN todo[p] /\ Cur(p) = todo[p][1]
      BY <2>2, HeadFacts, Zenon DEF InOrder, Cur
    <2>4. Depends[todo[p][1]] \subseteq Ready(p) \cup {todo[p][k] : k \in 1 .. 1 - 1}
      BY <2>2, <2>3, Zenon DEF InOrder
    <2>5. Depends[Cur(p)] \subseteq Ready(p)
      BY <2>3, <2>4, SMTT(30)
    <2>6. QED
      BY <2>5, Zenon DEF Ready
  <1>2. QED
    BY <1>1, JobInvariance, PTL

\* A lock directory loses the process that has to remove it only when that process
\* is killed, cannot remove a temporary directory or file, or could not remove
\* the lock directory itself (lock.unlock, lock.cleanup).
THEOREM LocksOrphanedOnlyByFault == ASSUME ~ExecFails PROVE Spec => OrphanedOnlyByFault
  <1>1. IInv /\ [Next]_vars =>
            [\A r \in lockdir \cap lockdir' :
                Holders(r) # {} /\ Holders(r)' = {} =>
                    r \in unremoved' \/ \E p \in Holders(r) : CleanupCutShort(p)']_vars
    BY NextOrphans, Zenon
  <1>2. QED
    BY <1>1, Invariance, PTL DEF Spec, OrphanedOnlyByFault

\* The build processes, in any interleaving and with kills at any point,
\* implement the protocol of the chroot lock.
THEOREM BuildsImplementProtocol == ASSUME ~ExecFails PROVE Spec => ImplementsProtocol
  <1>1. IInv => OwnerIsHolder
    BY OwnerFacts DEF IInv
  <1>2. IInv /\ OwnerIsHolder /\ OwnerIsHolder' /\ [Next]_vars
            => [Protocol!Next]_(Protocol!vars)
    BY NextProtocol
  <1>3. QED
    BY <1>1, <1>2, InitProtocol, Invariance, PTL DEF Spec, ImplementsProtocol, Protocol!Spec
====
