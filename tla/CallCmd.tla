------------------------------ MODULE CallCmd ------------------------------
(***************************************************************************)
(* One call of e2lib.callcmd(): the tool forks a child with pipes for its  *)
(* output, synchronises with it, serves the pipes in a poll loop, and      *)
(* waits for the child.  Meanwhile the child writes and exits, processes   *)
(* it leaves behind keep its output open, and a signal asks the tool to    *)
(* shut down.                                                              *)
(*                                                                         *)
(* The handler of the signal only sets a hook, which runs before the next  *)
(* instruction of the Lua program.  poll(2) and waitpid(2) may block, so   *)
(* that there is none: a signal that finds the tool blocked makes the call *)
(* return EINTR, to be repeated by e2lib.poll() and e2lib.wait(); one that *)
(* comes just before the call blocks does not.                             *)
(***************************************************************************)
EXTENDS Integers, Sequences, FiniteSets

CONSTANTS
    NFd,        \* the number of writefunc entries of fdctv
    Linebuffer, \* the ones with linebuffer set
    ReadSize,   \* bytes that a read asks for (4096 in the code)
    Capacity,   \* bytes that fit into a pipe
    MaxOut,     \* bound: MaxOut[f] bytes are written to f
    Failures    \* poll, read and close may fail

ASSUME CallAssumption ==
    /\ NFd \in Nat
    /\ Linebuffer \subseteq 1 .. NFd
    /\ ReadSize \in Nat \ {0}
    /\ Capacity \in Nat \ {0}
    /\ MaxOut \in [1 .. NFd -> Nat]
    /\ Failures \in BOOLEAN

Fd == 1 .. NFd

Newline == "n"
Byte == {Newline, "x"}

VARIABLES
    pc,         \* where the tool is in callcmd()
    fdvec,      \* descriptors in the poll loop
    pollvec,    \* entries of the last poll that are yet to be served
    buffer,     \* buffer[f]: the start of a line (fdct._p.buffer)
    out,        \* out[f]: the bytes handed to callfn
    cuts,       \* cuts[f]: the lengths of out[f] at which a call of callfn ended
    registered, \* the child is in _children
    wfd,        \* the tool has the write ends of the pipes open
    child,      \* the state of the child
    ping,       \* ends of the sync pipes that have been written to
    wopen,      \* descriptors open in the child, or in what it left behind
    pipe,       \* pipe[f]: bytes in the pipe
    written,    \* written[f]: all the bytes ever written to it
    blocked,    \* signals are blocked in the tool
    pending,    \* a blocked signal waits
    shutdown,   \* signal_received(): the handler has run
    hook,       \* the hook that it set has not run yet
    sigint,     \* SIGINT was sent to the child
    default     \* the child has the default handlers

parent == <<pc, fdvec, pollvec, buffer, out, cuts, registered, wfd>>
childs == <<child, wopen, written, default>>
signal == <<blocked, pending, shutdown, hook, sigint>>
vars == <<parent, childs, ping, pipe, signal>>

Alive == {"forked", "setup", "sync", "wait_parent", "unblock", "exec", "running", "abort"}

Init ==
    /\ pc = "callcmd"
    /\ fdvec = [i \in Fd |-> i]
    /\ pollvec = <<>>
    /\ buffer = [f \in Fd |-> <<>>]
    /\ out = [f \in Fd |-> <<>>]
    /\ cuts = [f \in Fd |-> {}]
    /\ registered = FALSE
    /\ wfd = FALSE
    /\ child = "none"
    /\ ping = {}
    /\ wopen = {}
    /\ pipe = [f \in Fd |-> <<>>]
    /\ written = [f \in Fd |-> <<>>]
    /\ blocked = FALSE
    /\ pending = FALSE
    /\ shutdown = FALSE
    /\ hook = FALSE
    /\ sigint = FALSE
    /\ default = FALSE

Serving == <<fdvec, pollvec, buffer, out, cuts>>

-----------------------------------------------------------------------------
(* Signals.                                                                *)

\* What signal_handler() does: the hook is set once.
sethook ==
    /\ shutdown' = TRUE
    /\ hook' = (hook \/ ~ shutdown)
    /\ pending' = FALSE

\* A call that blocks ends with EINTR, unless the signal came just before.
Interrupted ==
    \/ pc' = pc
    \/ pc = "polling" /\ pc' = "poll"
    \/ pc = "waiting" /\ pc' = "wait"

\* The user interrupts the tool, or it is asked to terminate.
signal_handler ==
    /\ ~ shutdown /\ ~ pending
    /\ pc \notin {"returned", "failed", "crashed"}
    /\ \/ /\ blocked
          /\ pending' = TRUE
          /\ UNCHANGED <<pc, shutdown, hook>>
       \/ /\ ~ blocked
          /\ sethook
          /\ Interrupted
    /\ UNCHANGED <<Serving, registered, wfd, childs, ping, pipe, blocked, sigint>>

\* The end of the critical section; sigpipe: the section raised SIGPIPE.
signal_unblock(sigpipe) ==
    /\ blocked' = FALSE
    /\ \/ /\ pending \/ sigpipe
          /\ sethook
       \/ /\ ~ (pending \/ sigpipe)
          /\ UNCHANGED <<pending, shutdown, hook>>
    /\ UNCHANGED sigint

\* SIGINT to all children.
children_send_sigint == sigint' = (sigint \/ registered)

\* The program goes on at pc: a hook that is set has to run first.
At(l) == pc = l /\ ~ hook

\* The hook runs when the program does.
interrupt_hook ==
    /\ hook
    /\ pc \notin {"polling", "waiting"}
    /\ hook' = FALSE
    /\ children_send_sigint
    /\ UNCHANGED <<parent, childs, ping, pipe, blocked, pending, shutdown>>

-----------------------------------------------------------------------------
(* The tool: fork and synchronise.                                         *)

\* Fault: an earlier signal is not looked for.
do_fork_unchecked ==
    /\ At("callcmd")
    /\ pc' = "fork"
    /\ blocked' = TRUE
    /\ UNCHANGED <<Serving, registered, wfd, childs, ping, pipe, pending,
                   shutdown, hook, sigint>>

\* signal_block(), and do_fork() up to the fork.
do_fork ==
    /\ At("callcmd")
    /\ \/ /\ shutdown
          /\ pc' = "failed"
          /\ UNCHANGED blocked
       \/ /\ ~ shutdown
          /\ pc' = "fork"
          /\ blocked' = TRUE
    /\ UNCHANGED <<Serving, registered, wfd, childs, ping, pipe, pending,
                   shutdown, hook, sigint>>

\* The pipes and the child; without them callcmd() fails, with no pid.
fork ==
    /\ At("fork")
    /\ \/ /\ pc' = "failed"
          /\ signal_unblock(FALSE)
          /\ UNCHANGED <<registered, wfd, child, wopen>>
       \/ /\ pc' = "after_fork"
          /\ child' = "forked"
          /\ wopen' = Fd
          /\ wfd' = TRUE
          /\ registered' = TRUE
          /\ UNCHANGED signal
    /\ UNCHANGED <<Serving, ping, pipe, written, default>>

\* The tool closes its copies of the write ends, and the ends of the sync
\* pipes that it does not use.
fd_parent_after_fork ==
    /\ At("after_fork")
    /\ wfd' = FALSE
    /\ \/ /\ pc' = "sync_write"
          /\ UNCHANGED signal
       \/ /\ Failures
          /\ pc' = "retrieve"
          /\ signal_unblock(FALSE)
    /\ UNCHANGED <<Serving, registered, childs, ping, pipe>>

\* sync_parent() pings the child, which fails with EPIPE if it is gone.
sync_write ==
    /\ At("sync_write")
    /\ \/ /\ child \in Alive
          /\ ping' = ping \cup {"p"}
          /\ pc' = "sync_read"
          /\ UNCHANGED signal
       \/ /\ child \notin Alive
          /\ pc' = "retrieve"
          /\ signal_unblock(TRUE)
          /\ UNCHANGED ping
    /\ UNCHANGED <<Serving, registered, wfd, childs, pipe>>


\* sync_parent() waits for the child; the end of the critical section.
sync_read ==
    /\ At("sync_read")
    /\ \/ "c" \in ping /\ pc' = "poll"
       \/ "c" \in ping /\ Failures /\ pc' = "retrieve"
       \/ "c" \notin ping /\ child \notin Alive /\ pc' = "retrieve"
    /\ signal_unblock(FALSE)
    /\ UNCHANGED <<Serving, registered, wfd, childs, ping, pipe>>

-----------------------------------------------------------------------------
(* The tool: the poll loop, and the end.                                   *)

Closed(f) == f \notin wopen /\ ~ wfd

Ready == {i \in DOMAIN fdvec : pipe[fdvec[i]] # <<>> \/ Closed(fdvec[i])}

\* The i-th largest and the i-th smallest of a set of positions.
Descending(R, i) == CHOOSE k \in R : Cardinality({j \in R : j >= k}) = i
Ascending(R, i) == CHOOSE k \in R : Cardinality({j \in R : j <= k}) = i

Entry(k) == [fd |-> fdvec[k], fdvecpos |-> k, pollin |-> pipe[fdvec[k]] # <<>>]

\* The loop ends when no descriptor is left; poll(2) waits for one.
poll ==
    /\ At("poll")
    /\ pc' = IF fdvec = <<>> THEN "cleanup" ELSE "polling"
    /\ UNCHANGED <<Serving, registered, wfd, childs, ping, pipe, signal>>

\* Every 10 seconds, a loop that is to shut down tells the children again.
ping_10s ==
    \/ UNCHANGED sigint
    \/ shutdown /\ children_send_sigint

\* Fault: the entries are in the order of the descriptors.
poll_fd_ascending ==
    /\ pc = "polling"
    /\ Ready # {}
    /\ pollvec' = [i \in 1 .. Cardinality(Ready) |-> Entry(Ascending(Ready, i))]
    /\ pc' = "serve"
    /\ ping_10s
    /\ UNCHANGED <<fdvec, buffer, out, cuts, registered, wfd, childs, ping, pipe,
                   blocked, pending, shutdown, hook>>

\* poll_fd() lists what is ready, the last descriptor first.
poll_fd ==
    /\ pc = "polling"
    /\ \/ /\ Ready # {}
          /\ pollvec' = [i \in 1 .. Cardinality(Ready) |-> Entry(Descending(Ready, i))]
          /\ pc' = "serve"
       \/ /\ Failures
          /\ pc' = "failed"
          /\ UNCHANGED pollvec
    /\ ping_10s
    /\ UNCHANGED <<fdvec, buffer, out, cuts, registered, wfd, childs, ping, pipe,
                   blocked, pending, shutdown, hook>>

\* Hand the bytes s to callfn, in calls that end where s has a cut.
callfn(f, s, ends) ==
    /\ out' = [out EXCEPT ![f] = @ \o s]
    /\ cuts' = [cuts EXCEPT ![f] = @ \cup {Len(out[f]) + k : k \in ends}]

Newlines(s) == {k \in DOMAIN s : s[k] = Newline}

\* The length of the complete lines at the start of s.
Lines(s) ==
    CHOOSE k \in Newlines(s) \cup {0} : \A j \in Newlines(s) : j <= k

\* Fault: the bytes read are handed on as a line.
fd_linebuffer_unbuffered(f, data) ==
    /\ callfn(f, data, {Len(data)})
    /\ UNCHANGED buffer

\* Fault: what follows the last newline is dropped.
fd_linebuffer_drops(f, data) ==
    LET s == buffer[f] \o data IN
    /\ callfn(f, SubSeq(s, 1, Lines(s)), Newlines(s))
    /\ buffer' = [buffer EXCEPT ![f] = IF Lines(s) = 0 THEN s ELSE <<>>]

\* Every complete line is handed on, the rest kept.
fd_linebuffer(f, data) ==
    LET s == buffer[f] \o data IN
    /\ callfn(f, SubSeq(s, 1, Lines(s)), Newlines(s))
    /\ buffer' = [buffer EXCEPT ![f] = SubSeq(s, Lines(s) + 1, Len(s))]

\* Fault: an empty rest is handed on as well.
fd_linebuffer_final_empty(f) ==
    /\ callfn(f, buffer[f], {Len(buffer[f])})
    /\ buffer' = [buffer EXCEPT ![f] = <<>>]

\* What remains of a last line without a newline.
fd_linebuffer_final(f) ==
    \/ /\ f \in Linebuffer /\ buffer[f] # <<>>
       /\ callfn(f, buffer[f], {Len(buffer[f])})
       /\ buffer' = [buffer EXCEPT ![f] = <<>>]
    \/ /\ f \notin Linebuffer \/ buffer[f] = <<>>
       /\ UNCHANGED <<buffer, out, cuts>>

Least(a, b) == IF a <= b THEN a ELSE b

\* An entry with POLLIN: one read.
serve_read(f) ==
    LET k == Least(ReadSize, Len(pipe[f]))
        data == SubSeq(pipe[f], 1, k)
    IN  /\ pipe' = [pipe EXCEPT ![f] = SubSeq(@, k + 1, Len(@))]
        /\ \/ f \in Linebuffer /\ fd_linebuffer(f, data)
           \/ f \notin Linebuffer /\ callfn(f, data, {k}) /\ UNCHANGED buffer
        /\ UNCHANGED fdvec

\* table.remove: the entries behind position k move up.
Remove(s, k) ==
    IF k \in DOMAIN s
    THEN [i \in 1 .. Len(s) - 1 |-> IF i < k THEN s[i] ELSE s[i + 1]]
    ELSE s

\* An entry without: the descriptor was closed.
serve_closed(e) ==
    /\ fd_linebuffer_final(e.fd)
    /\ fdvec' = Remove(fdvec, e.fdvecpos)
    /\ UNCHANGED pipe

serve ==
    /\ At("serve")
    /\ LET e == Head(pollvec) IN
       \/ /\ \/ e.pollin /\ serve_read(e.fd)
             \/ ~ e.pollin /\ serve_closed(e)
          /\ pollvec' = Tail(pollvec)
          /\ pc' = IF Len(pollvec) = 1 THEN "poll" ELSE "serve"
       \/ /\ Failures /\ e.pollin
          /\ pc' = "retrieve"
          /\ UNCHANGED <<fdvec, pollvec, buffer, out, cuts, pipe>>
    /\ UNCHANGED <<registered, wfd, childs, ping, signal>>

callcmd_cleanup ==
    /\ At("cleanup")
    /\ \/ pc' = "wait"
       \/ Failures /\ Fd # {} /\ pc' = "retrieve"
    /\ UNCHANGED <<Serving, registered, wfd, childs, ping, pipe, signal>>

\* waitpid() has the status of the child, and its pid leaves _children.
Reap ==
    /\ child' = "reaped"
    /\ registered' = FALSE

\* waitpid(2) waits for the child.
wait ==
    /\ At("wait")
    /\ pc' = "waiting"
    /\ UNCHANGED <<Serving, registered, wfd, childs, ping, pipe, signal>>

wait_pid_delete ==
    /\ pc = "waiting"
    /\ child = "zombie"
    /\ Reap
    /\ pc' = "returned"
    /\ UNCHANGED <<Serving, wfd, wopen, written, default, ping, pipe, signal>>

\* _retrieve_status_kill(): wait_pid_delete() with WNOHANG.  For a running
\* child waitpid() returns 0, and children_remove(0) ends in an assertion;
\* the code that would send SIGINT and wait is never reached.
retrieve_status_kill ==
    /\ At("retrieve")
    /\ \/ /\ child = "zombie"
          /\ Reap
          /\ pc' = "failed"
       \/ /\ child # "zombie"
          /\ pc' = "crashed"
          /\ UNCHANGED <<child, registered>>
    /\ UNCHANGED <<Serving, wfd, wopen, written, default, ping, pipe, signal>>

-----------------------------------------------------------------------------
(* The child.                                                              *)

Step(from, to) ==
    /\ child = from
    /\ child' = to
    /\ UNCHANGED <<parent, wopen, written, pipe, signal>>

\* Fault: the child keeps the handlers of the tool.
signal_reset_missing ==
    Step("forked", "setup") /\ UNCHANGED <<default, ping>>

\* The child has the handlers of the tool, and its signals blocked.
signal_reset ==
    Step("forked", "setup") /\ default' = TRUE /\ UNCHANGED ping

\* fd_child_setup(), chdir() and setenv(): an error makes the child abort.
child_setup ==
    /\ \/ Step("setup", "sync")
       \/ Step("setup", "abort")
    /\ UNCHANGED <<ping, default>>

sync_child_ping ==
    Step("sync", "wait_parent") /\ ping' = ping \cup {"c"} /\ UNCHANGED default

sync_child_wait ==
    "p" \in ping /\ Step("wait_parent", "unblock") /\ UNCHANGED <<ping, default>>

\* SIGINT ends a child with default handlers when it is not blocked.  The
\* handler of the tool would only set a hook, and the child goes on.
Killed == sigint /\ default

child_unblock == Step("unblock", "exec") /\ UNCHANGED <<ping, default>>

execvp ==
    /\ ~ Killed
    /\ \/ Step("exec", "running")
       \/ Step("exec", "abort")
    /\ UNCHANGED <<ping, default>>

\* The command ends, or is ended by SIGINT; processes that it leaves behind
\* may have its descriptors open.  A child that aborts leaves none.
exit ==
    /\ \/ /\ child = "running"
          /\ wopen' \in SUBSET wopen
       \/ /\ child = "exec" /\ Killed
          /\ wopen' = {}
       \/ /\ child = "abort"
          /\ wopen' = {}
    /\ child' = "exiting"
    /\ UNCHANGED <<parent, written, default, ping, pipe, signal>>

\* The kernel closes the descriptors first, and then the child is a zombie.
zombie == Step("exiting", "zombie") /\ UNCHANGED <<ping, default>>

HasCommand == child \in {"running", "exiting", "zombie", "reaped"}

write(f) ==
    /\ HasCommand
    /\ f \in wopen
    /\ Len(pipe[f]) < Capacity
    /\ Len(written[f]) < MaxOut[f]
    /\ \E b \in Byte :
          /\ pipe' = [pipe EXCEPT ![f] = Append(@, b)]
          /\ written' = [written EXCEPT ![f] = Append(@, b)]
    /\ UNCHANGED <<parent, child, wopen, default, ping, signal>>

close(f) ==
    /\ HasCommand
    /\ f \in wopen
    /\ wopen' = wopen \ {f}
    /\ UNCHANGED <<parent, child, written, default, ping, pipe, signal>>

-----------------------------------------------------------------------------
Tool ==
    \/ do_fork \/ fork \/ fd_parent_after_fork \/ sync_write \/ sync_read
    \/ poll \/ poll_fd \/ serve \/ callcmd_cleanup \/ wait \/ wait_pid_delete
    \/ retrieve_status_kill \/ interrupt_hook

Child ==
    \/ signal_reset \/ child_setup \/ sync_child_ping \/ sync_child_wait
    \/ child_unblock \/ execvp \/ exit \/ zombie

Next ==
    \/ Tool
    \/ Child
    \/ \E f \in Fd : write(f) \/ close(f)
    \/ signal_handler

\* The processes are scheduled, and commands come to an end.
Fairness ==
    /\ WF_vars(Tool)
    /\ WF_vars(Child)
    /\ \A f \in Fd : WF_vars(close(f))

Spec == Init /\ [][Next]_vars /\ Fairness

-----------------------------------------------------------------------------
TypeOK ==
    /\ pc \in {"callcmd", "fork", "after_fork", "sync_write", "sync_read", "poll",
               "polling", "serve", "cleanup", "wait", "waiting", "retrieve",
               "returned", "failed", "crashed"}
    /\ fdvec \in Seq(Fd)
    /\ \A i, j \in DOMAIN fdvec : fdvec[i] = fdvec[j] => i = j
    /\ pollvec \in Seq([fd : Fd, fdvecpos : Fd, pollin : BOOLEAN])
    /\ {buffer, out, pipe, written} \subseteq [Fd -> Seq(Byte)]
    /\ \A f \in Fd : cuts[f] \subseteq 1 .. MaxOut[f]
    /\ child \in Alive \cup {"none", "exiting", "zombie", "reaped"}
    /\ ping \subseteq {"p", "c"}
    /\ wopen \subseteq Fd
    /\ {registered, wfd, blocked, pending, shutdown, hook, sigint, default} \subseteq BOOLEAN

\* When callcmd() returns a status, the callbacks got every byte that the
\* command and the processes it left behind have written, in order, and none
\* of them can write any more (callcmd_poll ends when fdvec is empty).
OutputComplete ==
    pc = "returned" => wopen = {} /\ out = written /\ child = "reaped"

\* No byte is lost, doubled or swapped on the way: what callbacks got, what
\* waits for the end of its line and what is in the pipe is what was written.
NothingLost ==
    \A f \in Fd : written[f] = out[f] \o buffer[f] \o pipe[f]

\* A callback of a line-buffered descriptor gets exactly one line, whatever
\* the pieces in which the line was read; only what comes last, once the
\* descriptor is closed, may lack its newline (fd_linebuffer).
LinesWhole ==
    \A f \in Linebuffer :
        /\ Newlines(out[f]) \subseteq cuts[f]
        /\ \A k \in cuts[f] \ Newlines(out[f]) :
              k = Len(out[f]) /\ f \notin wopen /\ pipe[f] = <<>>

\* A shutdown never misses the child: from when the hook of a signal has run,
\* the child is gone or was sent SIGINT.  A signal that comes between the check
\* in do_fork() and the entry in _children is held back by signal_block().
\* Until the hook runs nothing is promised: a signal just before poll(2) or
\* waitpid(2) blocks waits for what the child does next.
InterruptReachesChild ==
    shutdown /\ ~ hook /\ child \in Alive => sigint

\* A child that was sent SIGINT before it has become the command never does:
\* the signal is blocked from before the fork until the child has reset the
\* handlers it shares with the tool, and then ends it (do_fork).
InterruptedNeverRuns ==
    [][child # "running" /\ child' = "running" => ~ sigint]_vars

====
