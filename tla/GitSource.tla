----------------------------- MODULE GitSource -----------------------------
(***************************************************************************)
(* A source of type git (plugins/git.lua on top of generic/generic_git.lua)*)
(* from the side of the tools: e2-fetch-sources clones it and updates it,  *)
(* e2-build names the commit in the sourceid and unpacks it later.  The    *)
(* tools take no lock on the working copy, so the steps of two of them,    *)
(* the work of the user in the working copy and the pushes of others to    *)
(* the server interleave between any two git commands.                     *)
(*                                                                         *)
(* A commit is the sequence of the changes that led to it, each by "us" or *)
(* by "them".  The source has one tag and the branch "devel"; the default  *)
(* branch of the server is "devel" or "master".                            *)
(***************************************************************************)
EXTENDS Naturals, Sequences

CONSTANTS
    Proc,           \* invocations
    Options,        \* the sets of options e2-build is called with
    MaxEdits,       \* bound: actions of the user and of others
    None            \* instead of a commit or a remote

Branch == {"master", "devel"}
get_branch == "devel"
Commit == Seq({"us", "them"})
Refs == [Branch -> Commit \cup {None}]
Sourceset == {"tag", "branch", "working-copy"}

ASSUME GitAssumption ==
    /\ Options \subseteq SUBSET {"check", "check-remote"}
    /\ MaxEdits \in Nat
    /\ None \notin Commit /\ None \notin STRING

VARIABLES
    server,     \* refs/heads, the tag, and the default branch
    wc,         \* the working copy: see WorkingCopy
    at,         \* at[p]: where an invocation is
    cmd,        \* cmd[p]: the git command that comes next in what reads several
    todo,       \* todo[p]: what e2-fetch-sources still has to do
    set,        \* set[p]: the sourceset of a build
    opts,       \* opts[p]: its options
    failed,     \* failed[p]: an error was reported
    id,         \* id[p]: the commit that git_commit_id() found
    rid,        \* rid[p]: the commit of the tag on the server
    ref,        \* ref[p]: the ref to unpack
    named,      \* named[p]: the commit in the sourceid
    built,      \* built[p]: the commit that was unpacked
    edits,      \* actions of the user and of others so far
    moved,      \* history: the ref of p was moved after p began to look it up
    elsewhere,  \* history: p asked another server than the one of the source
    served,     \* history: what the tag on the server has been
    cut         \* history: a clone was killed

git == <<server, wc>>
local == <<cmd, todo, set, opts, failed, id, rid, ref, named, built>>
history == <<moved, elsewhere, served>>
vars == <<git, at, local, edits, history, cut>>

Server == [heads : Refs, tag : Commit \cup {None}, head : Branch]

\* dir is "partial" while a clone is made, and when that was killed.  head is
\* the current branch, or "HEAD" if it is detached; remote is the value of
\* branch.<get_branch>.remote, and url says that remote.origin.url is right.
WorkingCopy ==
    [dir : {"absent", "partial", "repo"}, heads : Refs, remotes : Refs,
     tag : Commit \cup {None}, head : Branch \cup {"HEAD"},
     remote : {None, "origin", "other"}, url : BOOLEAN]

NoRefs == [b \in Branch |-> None]
NoCopy == [dir |-> "absent", heads |-> NoRefs, remotes |-> NoRefs, tag |-> None,
           head |-> "master", remote |-> None, url |-> TRUE]

Init ==
    /\ server \in {[heads |-> [b \in Branch |-> IF b \in have THEN <<>> ELSE None],
                    tag |-> None, head |-> h] : have \in SUBSET Branch, h \in Branch}
    /\ server.heads["master"] # None
    /\ wc = NoCopy
    /\ at = [p \in Proc |-> "idle"]
    /\ cmd = [p \in Proc |-> "heads"]
    /\ todo = [p \in Proc |-> {}]
    /\ set = [p \in Proc |-> "working-copy"]
    /\ opts = [p \in Proc |-> {}]
    /\ failed = [p \in Proc |-> FALSE]
    /\ id = [p \in Proc |-> None]
    /\ rid = [p \in Proc |-> None]
    /\ ref = [p \in Proc |-> None]
    /\ named = [p \in Proc |-> None]
    /\ built = [p \in Proc |-> None]
    /\ edits = 0
    /\ moved = [p \in Proc |-> FALSE]
    /\ elsewhere = [p \in Proc |-> FALSE]
    /\ served = {}
    /\ cut = FALSE

Goto(p, s) == at' = [at EXCEPT ![p] = s]

-----------------------------------------------------------------------------
(* What the tools read.                                                    *)

\* list_refs() fails on a repository without refs.
HasRefs ==
    /\ wc.dir = "repo"
    /\ wc.tag # None \/ \E b \in Branch : wc.heads[b] # None \/ wc.remotes[b] # None

\* The commit of a ref, or None.
lookup_id(r) ==
    CASE r = "heads" -> wc.heads[get_branch]
      [] r = "remotes" -> wc.remotes[get_branch]
      [] r = "tag" -> wc.tag

\* What _refs_prefered_local_remote_branch() would find if it were one step:
\* the local branch before the remote one.
Prefered == IF wc.heads[get_branch] # None THEN "heads" ELSE "remotes"

\* c is d or one of the commits that d is based on.
Ancestor(c, d) == Len(c) <= Len(d) /\ \A i \in DOMAIN c : d[i] = c[i]

-----------------------------------------------------------------------------
(* e2-fetch-sources and e2-build as a whole.                               *)

start(p) ==
    /\ at[p] = "idle"
    /\ \/ \E t \in {{"fetch"}, {"update"}, {"fetch", "update"}} :
             /\ todo' = [todo EXCEPT ![p] = t]
             /\ Goto(p, IF "fetch" \in t THEN "fetch" ELSE "update")
             /\ UNCHANGED <<set, opts>>
       \/ \E s \in Sourceset, o \in Options :
             /\ set' = [set EXCEPT ![p] = s]
             /\ opts' = [opts EXCEPT ![p] = o]
             /\ Goto(p, CASE s = "working-copy" -> "prepare"
                          [] s # "working-copy" /\ o # {} -> "check"
                          [] OTHER -> "commit_id")
             /\ UNCHANGED todo
    /\ UNCHANGED <<git, cmd, failed, id, rid, ref, named, built, edits, cut>>

\* fetch_sources() goes on with the update of a source that was not fetched.
FetchReturns(p, ok) ==
    /\ failed' = [failed EXCEPT ![p] = @ \/ ~ ok]
    /\ Goto(p, IF at[p] \in {"fetch", "clone", "cloning", "lookup", "branch", "checkout"}
                  /\ "update" \in todo[p] THEN "update" ELSE "done")
    /\ cmd' = [cmd EXCEPT ![p] = "heads"]
    /\ UNCHANGED <<todo, set, opts, id, rid, ref, named, built>>

\* Nothing is left of an invocation that was killed, or of a failed build.
Exited(p) ==
    /\ Goto(p, "idle")
    /\ cmd' = [cmd EXCEPT ![p] = "heads"]
    /\ todo' = [todo EXCEPT ![p] = {}]
    /\ set' = [set EXCEPT ![p] = "working-copy"]
    /\ opts' = [opts EXCEPT ![p] = {}]
    /\ failed' = [failed EXCEPT ![p] = FALSE]
    /\ id' = [id EXCEPT ![p] = None]
    /\ rid' = [rid EXCEPT ![p] = None]
    /\ ref' = [ref EXCEPT ![p] = None]
    /\ named' = [named EXCEPT ![p] = None]
    /\ built' = [built EXCEPT ![p] = None]

exit(p) ==
    /\ at[p] = "done"
    /\ Exited(p)
    /\ UNCHANGED <<git, edits, cut>>

\* A kill; git removes what it has cloned if it gets a chance to.
kill(p) ==
    /\ at[p] \notin {"idle", "done"}
    /\ Exited(p)
    /\ \/ wc' = wc /\ cut' = (cut \/ at[p] = "cloning")
       \/ at[p] = "cloning" /\ wc' = NoCopy /\ UNCHANGED cut
    /\ UNCHANGED <<server, edits>>

-----------------------------------------------------------------------------
(* git_source:fetch_source                                                 *)

fetch_source(p) ==
    /\ at[p] = "fetch"
    /\ \/ wc.dir # "absent" /\ FetchReturns(p, TRUE)
       \/ wc.dir = "absent" /\ Goto(p, "clone") /\ UNCHANGED local
    /\ UNCHANGED <<git, edits, cut>>

\* git clone makes the directory, and it refuses one that is there.
git_clone(p) ==
    /\ at[p] = "clone"
    /\ \/ FetchReturns(p, FALSE) /\ UNCHANGED wc
       \/ /\ wc.dir = "absent"
          /\ wc' = [wc EXCEPT !.dir = "partial"]
          /\ Goto(p, "cloning")
          /\ UNCHANGED local
    /\ UNCHANGED <<server, edits, cut>>

\* The clone has a branch for the default branch of the server, and tracks it.
Clone ==
    LET b == server.head IN
    [dir |-> "repo", heads |-> [NoRefs EXCEPT ![b] = server.heads[b]],
     remotes |-> server.heads, tag |-> server.tag, head |-> b,
     remote |-> IF b = get_branch /\ server.heads[b] # None THEN "origin" ELSE None,
     url |-> TRUE]

\* Fault: a clone that fails is not reported.
git_clone_done_ignored(p) ==
    /\ at[p] = "cloning"
    /\ \/ wc' = Clone /\ Goto(p, "lookup") /\ UNCHANGED local
       \/ wc' = NoCopy /\ FetchReturns(p, TRUE)
    /\ UNCHANGED <<server, edits, cut>>

git_clone_done(p) ==
    /\ at[p] = "cloning"
    /\ \/ wc' = Clone /\ Goto(p, "lookup") /\ UNCHANGED local
       \/ wc' = NoCopy /\ FetchReturns(p, FALSE)
    /\ UNCHANGED <<server, edits, cut>>

lookup(p) ==
    /\ at[p] = "lookup"
    /\ \/ ~ HasRefs /\ FetchReturns(p, FALSE)
       \/ HasRefs /\ wc.heads[get_branch] # None /\ FetchReturns(p, TRUE)
       \/ HasRefs /\ wc.heads[get_branch] = None /\ Goto(p, "branch") /\ UNCHANGED local
    /\ UNCHANGED <<git, edits, cut>>

git_branch_new1(p) ==
    /\ at[p] = "branch"
    /\ \/ FetchReturns(p, FALSE) /\ UNCHANGED wc
       \/ /\ wc.dir = "repo" /\ wc.heads[get_branch] = None /\ wc.remotes[get_branch] # None
          /\ wc' = [wc EXCEPT !.heads[get_branch] = wc.remotes[get_branch], !.remote = "origin"]
          /\ Goto(p, "checkout")
          /\ UNCHANGED local
    /\ UNCHANGED <<server, edits, cut>>

\* The branch is given as refs/heads/<branch>, which detaches HEAD.
git_checkout1(p) ==
    /\ at[p] = "checkout"
    /\ \/ FetchReturns(p, FALSE) /\ UNCHANGED wc
       \/ /\ wc.dir = "repo" /\ wc.heads[get_branch] # None
          /\ wc' = [wc EXCEPT !.head = "HEAD"]
          /\ FetchReturns(p, TRUE)
    /\ UNCHANGED <<server, edits, cut>>

-----------------------------------------------------------------------------
(* git_source:update_source                                                *)

\* Without a remote "origin" that is the server there is only a warning.  In
\* what a killed clone has left the remote may be there or not.
update_source(p) ==
    /\ at[p] = "update"
    /\ \/ wc.dir = "absent" /\ FetchReturns(p, FALSE)
       \/ wc.dir = "partial" /\ \E ok \in BOOLEAN : FetchReturns(p, ok)
       \/ wc.dir = "repo" /\ ~ wc.url /\ FetchReturns(p, TRUE)
       \/ wc.dir = "repo" /\ wc.url /\ Goto(p, "fetch_tags") /\ UNCHANGED local
    /\ UNCHANGED <<git, edits, cut>>

\* refs/remotes after git fetch, which keeps what the server has no more.
Fetched == [b \in Branch |-> IF server.heads[b] # None THEN server.heads[b] ELSE wc.remotes[b]]

\* Fault: what is fetched goes into a repository that is not there any more.
fetch_tags_anywhere(p) ==
    /\ at[p] = "fetch_tags"
    /\ wc' = [wc EXCEPT !.remotes = Fetched, !.tag = IF @ = None THEN server.tag ELSE @]
    /\ Goto(p, "git_fetch")
    /\ UNCHANGED <<server, local, edits, cut>>

\* git fetch --tags: a tag that is there is not overwritten, that is an error.
fetch_tags(p) ==
    /\ at[p] = "fetch_tags"
    /\ \/ FetchReturns(p, FALSE) /\ UNCHANGED wc
       \/ /\ wc.dir = "repo"
          /\ wc' = [wc EXCEPT !.remotes = Fetched,
                              !.tag = IF @ = None THEN server.tag ELSE @]
          /\ IF wc.tag # None /\ server.tag \notin {None, wc.tag}
             THEN FetchReturns(p, FALSE)
             ELSE Goto(p, "git_fetch") /\ UNCHANGED local
    /\ UNCHANGED <<server, edits, cut>>

\* git fetch also brings a new tag if it is on what was fetched.
git_fetch(p) ==
    /\ at[p] = "git_fetch"
    /\ \/ FetchReturns(p, FALSE) /\ UNCHANGED wc
       \/ /\ wc.dir = "repo"
          /\ LET follow == /\ wc.tag = None /\ server.tag # None
                           /\ \E b \in Branch : /\ Fetched[b] # None
                                               /\ Ancestor(server.tag, Fetched[b])
             IN  wc' = [wc EXCEPT !.remotes = Fetched, !.tag = IF follow THEN server.tag ELSE @]
          /\ Goto(p, "select")
          /\ UNCHANGED local
    /\ UNCHANGED <<server, edits, cut>>

\* There is something to merge into only if there is a local branch.
select_branch(p, r) ==
    \/ r = "remotes" /\ FetchReturns(p, TRUE)
    \/ /\ r = "heads" /\ Goto(p, "current")
       /\ UNCHANGED local

current_branch(p) ==
    /\ at[p] = "current"
    /\ \/ wc.dir # "repo" /\ FetchReturns(p, FALSE)
       \/ wc.dir = "repo" /\ wc.head # get_branch /\ FetchReturns(p, TRUE)
       \/ wc.dir = "repo" /\ wc.head = get_branch /\ Goto(p, "config") /\ UNCHANGED local
    /\ UNCHANGED <<git, edits, cut>>

branch_remote(p) ==
    /\ at[p] = "config"
    /\ \/ wc.remote # "origin" /\ FetchReturns(p, TRUE)
       \/ wc.remote = "origin" /\ Goto(p, "merge") /\ UNCHANGED local
    /\ UNCHANGED <<git, edits, cut>>

\* Fault: the branch is reset to what the server has, whatever it was.
merge_resets(p) ==
    /\ at[p] = "merge"
    /\ \/ UNCHANGED wc
       \/ /\ wc.dir = "repo" /\ wc.head \in Branch
          /\ wc.heads[wc.head] # None /\ wc.remotes[get_branch] # None
          /\ wc' = [wc EXCEPT !.heads[wc.head] = wc.remotes[get_branch]]
    /\ FetchReturns(p, TRUE)
    /\ UNCHANGED <<server, edits, cut>>

\* git merge --ff-only into what is checked out by now; if that fails there is
\* only a warning.
merge(p) ==
    /\ at[p] = "merge"
    /\ \/ UNCHANGED wc
       \/ /\ wc.dir = "repo" /\ wc.head \in Branch
          /\ wc.heads[wc.head] # None /\ wc.remotes[get_branch] # None
          /\ Ancestor(wc.heads[wc.head], wc.remotes[get_branch])
          /\ wc' = [wc EXCEPT !.heads[wc.head] = wc.remotes[get_branch]]
    /\ FetchReturns(p, TRUE)
    /\ UNCHANGED <<server, edits, cut>>

-----------------------------------------------------------------------------
(* git_source:sourceid and git_source:prepare_source                       *)

\* sourceid() hashes the commit that git_commit_id() has found.
sourceid(p, c) ==
    /\ named' = [named EXCEPT ![p] = c]
    /\ Goto(p, "prepare")
    /\ cmd' = [cmd EXCEPT ![p] = "heads"]

\* git_commit_id() has found the commit of a branch.
CommitOfBranch(p, r) ==
    \/ /\ at[p] = "commit_id"
       /\ id' = [id EXCEPT ![p] = lookup_id(r)]
       /\ sourceid(p, lookup_id(r))
       /\ UNCHANGED <<todo, set, opts, failed, rid, ref, built>>
    \/ /\ at[p] = "again"
       /\ Goto(p, "ref")
       /\ cmd' = [cmd EXCEPT ![p] = "heads"]
       /\ UNCHANGED <<todo, set, opts, failed, id, rid, ref, named, built>>

\* Fault: the tag is not compared with the one on the server.
CommitOfTag_unchecked(p) ==
    /\ at[p] = "commit_id" /\ set[p] = "tag"
    /\ \/ (~ HasRefs \/ wc.tag = None) /\ Exited(p)
       \/ /\ HasRefs /\ wc.tag # None
          /\ id' = [id EXCEPT ![p] = wc.tag]
          /\ sourceid(p, wc.tag)
          /\ UNCHANGED <<todo, set, opts, failed, rid, ref, built>>
    /\ UNCHANGED <<git, edits, cut>>

\* git_commit_id() looks up the tag, and then on the server with --check-remote.
CommitOfTag(p) ==
    /\ at[p] = "commit_id" /\ set[p] = "tag"
    /\ \/ (~ HasRefs \/ wc.tag = None) /\ Exited(p)
       \/ /\ HasRefs /\ wc.tag # None
          /\ id' = [id EXCEPT ![p] = wc.tag]
          /\ \/ "check-remote" \in opts[p] /\ Goto(p, "verify") /\ UNCHANGED <<cmd, named>>
             \/ "check-remote" \notin opts[p] /\ sourceid(p, wc.tag)
          /\ UNCHANGED <<todo, set, opts, failed, rid, ref, built>>
    /\ UNCHANGED <<git, edits, cut>>

\* The tag on the server, if that can be reached.  If the url of origin was
\* changed after the check of it, another server is asked, which may have the
\* tag as the working copy has it.
verify_remote_tag(p) ==
    /\ at[p] = "verify"
    /\ \/ Exited(p)
       \/ LET tag == IF wc.url THEN server.tag ELSE wc.tag IN
          /\ wc.dir = "repo" /\ tag # None
          /\ rid' = [rid EXCEPT ![p] = tag]
          /\ Goto(p, "compare")
          /\ UNCHANGED <<cmd, todo, set, opts, failed, id, ref, named, built>>
    /\ UNCHANGED <<git, edits, cut>>

\* ... is compared with the tag of the working copy, which is read again.
compare_tags(p) ==
    /\ at[p] = "compare"
    /\ \/ ~ (HasRefs /\ wc.tag = rid[p]) /\ Exited(p)
       \/ /\ HasRefs /\ wc.tag = rid[p]
          /\ rid' = [rid EXCEPT ![p] = None]
          /\ sourceid(p, id[p])
          /\ UNCHANGED <<todo, set, opts, failed, id, ref, built>>
    /\ UNCHANGED <<git, edits, cut>>

\* What follows when the working copy is, or need not be, set up properly.
Checked(p) ==
    CASE at[p] = "check" -> "commit_id"
      [] at[p] = "recheck" -> "again"
      [] set[p] = "working-copy" -> "done"
      [] at[p] = "precheck" -> "recheck"
      [] OTHER -> "again"

prepare_source(p) ==
    /\ at[p] = "prepare"
    /\ \/ wc.dir = "absent" /\ Exited(p)
       \/ /\ wc.dir # "absent"
          /\ Goto(p, IF opts[p] # {} THEN "precheck" ELSE Checked(p))
          /\ UNCHANGED local
    /\ UNCHANGED <<git, edits, cut>>

\* git_commit_id() is called again, for its errors only.
TagAgain(p) ==
    /\ at[p] = "again" /\ set[p] = "tag"
    /\ \/ (~ HasRefs \/ wc.tag = None) /\ Exited(p)
       \/ /\ HasRefs /\ wc.tag # None
          /\ ref' = [ref EXCEPT ![p] = "tag"]
          /\ Goto(p, "archive")
          /\ UNCHANGED <<cmd, todo, set, opts, failed, id, rid, named, built>>
    /\ UNCHANGED <<git, edits, cut>>

\* Fault: what is unpacked is the branch as the server has it.
select_ref_remotes(p, r) ==
    /\ ref' = [ref EXCEPT ![p] = "remotes"]
    /\ Goto(p, "archive")
    /\ cmd' = [cmd EXCEPT ![p] = "heads"]
    /\ UNCHANGED <<todo, set, opts, failed, id, rid, named, built>>

select_ref(p, r) ==
    /\ ref' = [ref EXCEPT ![p] = r]
    /\ Goto(p, "archive")
    /\ cmd' = [cmd EXCEPT ![p] = "heads"]
    /\ UNCHANGED <<todo, set, opts, failed, id, rid, named, built>>

-----------------------------------------------------------------------------
(* check_workingcopy(), of git_commit_id() and of prepare_source(), and    *)
(* _refs_prefered_local_remote_branch(), git command by git command.  A    *)
(* check of which the outcome would only be a warning is left out.         *)

Checks == {"check", "precheck", "recheck"}
Prefering(p) ==
    \/ at[p] \in Checks \cup {"select", "ref"}
    \/ at[p] \in {"commit_id", "again"} /\ set[p] = "branch"

Then(p, c) ==
    /\ cmd' = [cmd EXCEPT ![p] = c]
    /\ UNCHANGED <<at, todo, set, opts, failed, id, rid, ref, named, built>>

\* The branch is r: what the caller does with it.
Found(p, r) ==
    \/ at[p] \in Checks /\ Then(p, IF r = "heads" THEN "config" ELSE "url")
    \/ at[p] = "select" /\ select_branch(p, r)
    \/ at[p] \in {"commit_id", "again"} /\ CommitOfBranch(p, r)
    \/ at[p] = "ref" /\ select_ref(p, r)

NotFound(p) == IF at[p] = "select" THEN FetchReturns(p, FALSE) ELSE Exited(p)

prefered_local(p) ==
    /\ Prefering(p) /\ cmd[p] = "heads"
    /\ \/ ~ HasRefs /\ NotFound(p)
       \/ HasRefs /\ wc.heads[get_branch] # None /\ Found(p, "heads")
       \/ HasRefs /\ wc.heads[get_branch] = None /\ Then(p, "remotes")
    /\ UNCHANGED <<git, edits, cut>>

\* ... if there was no local branch a step ago.
prefered_remote(p) ==
    /\ Prefering(p) /\ cmd[p] = "remotes"
    /\ \/ ~ (HasRefs /\ wc.remotes[get_branch] # None) /\ NotFound(p)
       \/ HasRefs /\ wc.remotes[get_branch] # None /\ Found(p, "remotes")
    /\ UNCHANGED <<git, edits, cut>>

\* git config branch.<branch>.remote; there may be one in what a clone makes.
check_branch_remote(p) ==
    /\ cmd[p] = "config"
    /\ \/ (wc.dir # "repo" \/ wc.remote # "origin") /\ Exited(p)
       \/ (wc.dir = "partial" \/ wc.remote = "origin") /\ Then(p, "url")
    /\ UNCHANGED <<git, edits, cut>>

check_git_remote(p) ==
    /\ cmd[p] = "url"
    /\ \/ (wc.dir # "repo" \/ ~ wc.url) /\ Exited(p)
       \/ /\ wc.dir = "partial" \/ (wc.dir = "repo" /\ wc.url)
          /\ cmd' = [cmd EXCEPT ![p] = "heads"]
          /\ Goto(p, Checked(p))
          /\ UNCHANGED <<todo, set, opts, failed, id, rid, ref, named, built>>
    /\ UNCHANGED <<git, edits, cut>>

-----------------------------------------------------------------------------
(* git archive, and what else goes on.                                     *)

\* git archive looks the ref up for itself.
git_archive(p) ==
    /\ at[p] = "archive"
    /\ \/ Exited(p)
       \/ /\ wc.dir = "repo" /\ lookup_id(ref[p]) # None
          /\ built' = [built EXCEPT ![p] = lookup_id(ref[p])]
          /\ Goto(p, "done")
          /\ UNCHANGED <<cmd, todo, set, opts, failed, id, rid, ref, named>>
    /\ UNCHANGED <<git, edits, cut>>

-----------------------------------------------------------------------------
(* The user in the working copy, and others on the server.                 *)

user_commit ==
    /\ wc.head \in Branch /\ wc.heads[wc.head] # None
    /\ wc' = [wc EXCEPT !.heads[wc.head] = Append(@, "us")]
    /\ UNCHANGED <<server, cut>>

\* git checkout <branch> makes a local branch for a remote one.
user_checkout ==
    /\ \/ \E b \in Branch : wc.heads[b] # None /\ wc' = [wc EXCEPT !.head = b]
       \/ /\ wc.heads[get_branch] = None /\ wc.remotes[get_branch] # None
          /\ wc' = [wc EXCEPT !.head = get_branch, !.remote = "origin",
                              !.heads[get_branch] = wc.remotes[get_branch]]
       \/ wc' = [wc EXCEPT !.head = "HEAD"]
    /\ UNCHANGED <<server, cut>>

user_tag ==
    /\ wc' \in {[wc EXCEPT !.tag = c] : c \in {None, lookup_id(Prefered)}}
    /\ UNCHANGED <<server, cut>>

user_reset ==
    /\ wc.heads[get_branch] # None /\ wc.remotes[get_branch] # None
    /\ wc' = [wc EXCEPT !.heads[get_branch] = wc.remotes[get_branch]]
    /\ UNCHANGED <<server, cut>>

user_config ==
    /\ \/ wc' = [wc EXCEPT !.url = ~ @]
       \/ \E r \in {None, "origin", "other"} : wc' = [wc EXCEPT !.remote = r]
    /\ UNCHANGED <<server, cut>>

\* git push --tags; the server refuses what is no fast forward.
user_push ==
    /\ wc.url
    /\ LET new == wc.heads[get_branch]
           old == server.heads[get_branch]
           push == new # None /\ (old = None \/ (old # None /\ Ancestor(old, new)))
       IN  server' = [server EXCEPT !.heads[get_branch] = IF push THEN new ELSE old,
                                    !.tag = IF @ = None THEN wc.tag ELSE @]
    /\ UNCHANGED <<wc, cut>>

user_remove ==
    /\ \A p \in Proc : at[p] # "cloning"
    /\ wc' = NoCopy
    /\ cut' = FALSE
    /\ UNCHANGED server

others_push ==
    /\ \/ /\ server.heads[get_branch] # None
          /\ server' = [server EXCEPT !.heads[get_branch] = Append(@, "them")]
       \/ server' = [server EXCEPT !.heads[get_branch] = <<>>]
       \/ server' = [server EXCEPT !.heads[get_branch] = None]
       \/ server' = [server EXCEPT !.tag = server.heads[get_branch]]
    /\ UNCHANGED <<wc, cut>>

edit ==
    /\ edits < MaxEdits
    /\ edits' = edits + 1
    /\ \/ others_push
       \/ wc.dir # "absent" /\ user_remove
       \/ /\ wc.dir = "repo"
          /\ \/ user_commit \/ user_checkout \/ user_tag \/ user_reset \/ user_config
             \/ user_push
    /\ UNCHANGED <<at, local>>

\* What the sourceset of p stands for: a ref and its commit.
Meaning(p) ==
    LET r == IF set[p] = "tag" THEN "tag" ELSE Prefered IN <<r, lookup_id(r)>>

\* git_commit_id() has begun to look the ref up.
Looked(p) == id[p] # None \/ (at[p] = "commit_id" /\ cmd[p] = "remotes")

\* What has been, for the properties.
Record ==
    /\ served' = served \cup ({server'.tag} \ {None})
    /\ moved' = [p \in Proc |->
                    Looked(p)' /\ (moved[p] \/ (Looked(p) /\ Meaning(p)' # Meaning(p)))]
    /\ elsewhere' = [p \in Proc |->
                        /\ Looked(p)'
                        /\ elsewhere[p] \/ (at[p] = "verify" /\ at'[p] = "compare" /\ ~ wc.url)]

Tool(p) ==
    \/ start(p) \/ exit(p) \/ kill(p)
    \/ fetch_source(p) \/ git_clone(p) \/ git_clone_done(p) \/ lookup(p)
    \/ git_branch_new1(p) \/ git_checkout1(p)
    \/ update_source(p) \/ fetch_tags(p) \/ git_fetch(p)
    \/ current_branch(p) \/ branch_remote(p) \/ merge(p)
    \/ CommitOfTag(p) \/ verify_remote_tag(p) \/ compare_tags(p)
    \/ prepare_source(p) \/ TagAgain(p)
    \/ prefered_local(p) \/ prefered_remote(p)
    \/ check_branch_remote(p) \/ check_git_remote(p)
    \/ git_archive(p)

Next == (edit \/ \E p \in Proc : Tool(p)) /\ Record

Spec == Init /\ [][Next]_vars

-----------------------------------------------------------------------------
FetchSteps == {"fetch", "clone", "cloning", "lookup", "branch", "checkout"}
UpdateSteps == {"update", "fetch_tags", "git_fetch", "select", "current", "config", "merge"}
BuildSteps == {"check", "commit_id", "verify", "compare", "prepare", "precheck", "recheck",
               "again", "ref", "archive"}

TypeOK ==
    /\ server \in Server
    /\ wc \in WorkingCopy
    /\ wc.dir # "repo" => wc.heads = NoRefs /\ wc.remotes = NoRefs /\ wc.tag = None
    /\ at \in [Proc -> {"idle", "done"} \cup FetchSteps \cup UpdateSteps \cup BuildSteps]
    /\ cmd \in [Proc -> {"heads", "remotes", "config", "url"}]
    /\ \A p \in Proc : cmd[p] # "heads" => Prefering(p)
    /\ todo \in [Proc -> SUBSET {"fetch", "update"}]
    /\ set \in [Proc -> Sourceset]
    /\ opts \in [Proc -> SUBSET {"check", "check-remote"}]
    /\ failed \in [Proc -> BOOLEAN]
    /\ \A x \in {id, rid, named, built} : x \in [Proc -> Commit \cup {None}]
    /\ ref \in [Proc -> {None, "heads", "remotes", "tag"}]
    /\ edits \in 0 .. MaxEdits
    /\ moved \in [Proc -> BOOLEAN] /\ elsewhere \in [Proc -> BOOLEAN]
    /\ served \subseteq Commit
    /\ cut \in BOOLEAN

\* "That way additional tags from the server side repository become available
\* while users work is preserved.": no step of a tool takes a commit away from
\* a local branch or moves a tag, also if the user works while it runs.
UsersWorkStays ==
    [][at' # at =>
        /\ \A b \in Branch : wc.heads[b] # None =>
              wc'.heads[b] # None /\ Ancestor(wc.heads[b], wc'.heads[b])
        /\ wc.tag # None => wc'.tag = wc.tag]_vars

\* prepare_source() unpacks the commit that the sourceid names, and with it
\* the BuildID, unless the ref changed since git_commit_id() began to look it
\* up: the four lookups of a build, each of one or two git commands, agree on
\* the ref when the working copy rests, whatever else goes on.
BuiltAsNamed ==
    \A p \in Proc : built[p] # None => built[p] = named[p] \/ moved[p]

\* "in tag mode: make sure the tag is available remote": with --check-remote a
\* sourceid never names a commit that the tag on the server was not, unless
\* the user moved the tag after it was looked up, or gave origin another url
\* after that was checked.
CheckedTagOnServer ==
    \A p \in Proc : "check-remote" \in opts[p] /\ set[p] = "tag" /\ named[p] # None =>
        named[p] \in served \/ moved[p] \/ elsewhere[p]

\* e2-fetch-sources reports a source as fetched only if its clone is complete,
\* unless a clone was killed earlier or another invocation is at it.
FetchedIsComplete ==
    [][\A p \in Proc :
        /\ at[p] \in FetchSteps /\ at'[p] \in {"update", "done"} /\ ~ failed'[p]
        => wc'.dir = "repo" \/ cut \/ \E q \in Proc \ {p} : at[q] = "cloning"]_vars

\* "switch to new tracking branch": after git_checkout1() in fetch_source()
\* the branch of the source is checked out.
SwitchedToBranch ==
    [][\A p \in Proc :
        at[p] = "checkout" /\ at'[p] \in {"update", "done"} /\ ~ failed'[p]
        => wc'.head = get_branch]_vars
====
