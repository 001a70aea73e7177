--------------------------- MODULE PersistentShell ---------------------------
(***************************************************************************)
(* PersistentShell of GeneralAgent/eval_scripts/unified_runner/            *)
(* tool_layer.py: one long-lived bash behind a lock, a reader thread per   *)
(* bash that pushes its output lines into one shared queue, and exec       *)
(* calls that end at a sentinel line of their own.                         *)
(*                                                                         *)
(* exec() and close() run under the lock from beginning to end, so pc is   *)
(* the position of the thread that holds it.  Concurrent with it are the   *)
(* reader threads (one per bash ever started: an old one keeps reading     *)
(* until the end of its pipe) and the bash processes, each with the        *)
(* command in its foreground.  In host mode that command is a child that   *)
(* outlives a killed bash and still holds the pipe.  In docker mode what   *)
(* can be killed is the `docker exec` client: the bash in the container,   *)
(* and its command, may run on without it.  The calls of all threads are   *)
(* numbered in the order they get the lock.                                *)
(***************************************************************************)
EXTENDS Integers, Sequences, FiniteSets

CONSTANTS
    Modes,        \* the modes a shell is opened in
    MaxStarts,    \* attempts of _start (30 in the code)
    MaxExecs,     \* bound: exec calls
    MaxLines,     \* bound: output lines of one command
    MaxProcs      \* bound: processes ever started

ASSUME PersistentShellAssumption ==
    /\ Modes \subseteq {"host", "docker"}
    /\ MaxStarts \in Nat \ {0}
    /\ MaxExecs \in Nat
    /\ MaxLines \in Nat
    /\ MaxProcs \in Nat

Calls == 1..MaxExecs
Procs == 1..MaxProcs

VARIABLES
    mode,       \* self.mode
    pc,         \* position of the holder of _lock, "free" if there is none
    goal,       \* what _start is for: "new", "exec" or "restart"
    tries,      \* attempts of the running _start
    proc,       \* self._proc, 0 if None
    nproc,      \* processes started so far
    up,         \* processes alive: bash, or the docker exec in front of it
    input,      \* text written to a bash and not read: InitText or calls
    fg,         \* the command a bash runs, 0 if none
    pipe,       \* output of a process that no reader has taken
    queue,      \* self._queue, shared by all readers
    execs,      \* exec calls so far
    buf,        \* lines the running exec has taken
    result,     \* what the last exec returned
    emitted,    \* history: lines each call's command has written
    ended,      \* history: calls whose sentinel went into a pipe
    closed,     \* close() has returned
    gone        \* the container has been removed

vars == <<mode, pc, goal, tries, proc, nproc, up, input, fg, pipe, queue,
          execs, buf, result, emitted, ended, closed, gone>>

startVars == <<goal, tries, proc, nproc>>
shellVars == <<up, input, fg, pipe>>
histVars == <<mode, emitted, ended, closed, gone>>

InitText == 0
NoResult == [kind |-> "none", call |-> 0, out |-> <<>>]
Line(kind, of) == <<kind, of>>

Init ==
    /\ mode \in Modes
    /\ pc = "start"
    /\ goal = "new"
    /\ tries = 1
    /\ proc = 0
    /\ nproc = 0
    /\ up = {}
    /\ input = [p \in Procs |-> <<>>]
    /\ fg = [p \in Procs |-> 0]
    /\ pipe = [p \in Procs |-> <<>>]
    /\ queue = <<>>
    /\ execs = 0
    /\ buf = <<>>
    /\ result = NoResult
    /\ emitted = [c \in Calls |-> 0]
    /\ ended = {}
    /\ closed = FALSE
    /\ gone = FALSE

-----------------------------------------------------------------------------
(* _start and _start_once.                                                 *)

\* Popen, drain the queue, start a reader, write the init text.  The process
\* may be dead on arrival, and is when there is no container to enter.  The
\* process of a failed attempt is neither killed nor remembered.
StartOnce ==
    /\ pc = "start"
    /\ nproc < MaxProcs
    /\ nproc' = nproc + 1
    /\ proc' = nproc + 1
    /\ \/ /\ ~gone
          /\ up' = up \cup {nproc + 1}
          /\ input' = [input EXCEPT ![nproc + 1] = <<InitText>>]
       \/ UNCHANGED <<up, input>>
    /\ queue' = <<>>
    /\ pc' = "init"
    /\ UNCHANGED <<goal, tries, fg, pipe, execs, buf, result, histVars>>

\* Wait for the init sentinel of this process; other lines are discarded.
InitLine ==
    /\ pc = "init"
    /\ queue # <<>>
    /\ queue' = Tail(queue)
    /\ pc' = IF Head(queue) # Line("init", proc) THEN "init"
             ELSE IF goal = "exec" THEN "write" ELSE "free"
    /\ UNCHANGED <<startVars, shellVars, execs, buf, result, histVars>>

\* (As in AgentEnv, no action uses the definitions named Faulty: each is a
\* plausible bug that breaks the properties the README names for it.)
\* The attempts are not limited.
FaultyNextTry == tries' = tries + 1 /\ pc' = "start" /\ UNCHANGED result

\* _start raises: so does the constructor, exec reports it, _kill_and_restart
\* swallows it.
GiveUp ==
    /\ pc' = IF goal = "new" THEN "raised" ELSE "free"
    /\ result' = IF goal = "exec"
                 THEN [kind |-> "restart failed", call |-> execs, out |-> <<>>]
                 ELSE result
    /\ UNCHANGED tries

\* After an attempt that failed with a RuntimeError: another one, or give up.
NextTry ==
    \/ /\ tries < MaxStarts
       /\ tries' = tries + 1
       /\ pc' = "start"
       /\ UNCHANGED result
    \/ /\ tries = MaxStarts
       /\ GiveUp

\* The process is found dead, or SHELL_INIT_TIMEOUT passes.
InitFail ==
    /\ pc = "init"
    /\ NextTry
    /\ UNCHANGED <<goal, proc, nproc, shellVars, queue, execs, buf, histVars>>

\* Popen raises (no fork, no docker client): not a RuntimeError, so there is no
\* other attempt, and _proc and the queue stay what they were.
PopenFails ==
    /\ pc = "start"
    /\ GiveUp
    /\ UNCHANGED <<goal, proc, nproc, shellVars, queue, execs, buf, histVars>>

-----------------------------------------------------------------------------
(* exec.                                                                   *)

\* A thread gets the lock.
Exec ==
    /\ pc = "free"
    /\ execs < MaxExecs
    /\ execs' = execs + 1
    /\ buf' = <<>>
    /\ IF proc \in up
       THEN pc' = "write" /\ UNCHANGED <<goal, tries>>
       ELSE pc' = "start" /\ goal' = "exec" /\ tries' = 1
    /\ UNCHANGED <<proc, nproc, shellVars, queue, result, histVars>>

Return(kind) == result' = [kind |-> kind, call |-> execs, out |-> buf]

\* The old bash is left running when a new one is started.
FaultyKill == proc' = 0 /\ UNCHANGED <<up, input>>

\* terminate(), then kill().  On the host what the bash has not read is lost
\* with it; in a container it may still be read.
Kill ==
    /\ proc' = 0
    /\ up' = up \ {proc}
    /\ input' = [p \in Procs |-> IF p = proc /\ mode = "host" THEN <<>>
                                 ELSE input[p]]

\* _kill_and_restart.  (What _cleanup_timeout_children's pkill ends before it,
\* a few kinds of command, has ended by EndCommand.)
KillAndRestart ==
    /\ Kill
    /\ pc' = "start"
    /\ goal' = "restart"
    /\ tries' = 1
    /\ buf' = <<>>
    /\ UNCHANGED <<nproc, fg, pipe, queue, execs, histVars>>

\* Write the command, followed by the printf of its sentinel.
Write ==
    /\ pc = "write"
    /\ proc \in up
    /\ input' = [input EXCEPT ![proc] = Append(@, execs)]
    /\ pc' = "wait"
    /\ UNCHANGED <<startVars, up, fg, pipe, queue, execs, buf, result, histVars>>

WriteFails ==
    /\ pc = "write"
    /\ proc \notin up
    /\ Return("write failed")
    /\ KillAndRestart

\* One sentinel for all calls.
FaultyIsSentinel(line) == line[1] = "end"
IsSentinel(line) == line = Line("end", execs)

\* Take a line from the queue; the sentinel of this call ends it.
TakeLine ==
    /\ pc = "wait"
    /\ queue # <<>>
    /\ queue' = Tail(queue)
    /\ IF IsSentinel(Head(queue))
       THEN Return("ok") /\ buf' = <<>> /\ pc' = "free"
       ELSE buf' = Append(buf, Head(queue)) /\ UNCHANGED <<pc, result>>
    /\ UNCHANGED <<startVars, shellVars, execs, histVars>>

\* The queue stays empty and the bash has exited.
ShellDied ==
    /\ pc = "wait"
    /\ queue = <<>>
    /\ proc \notin up
    /\ Return("died")
    /\ KillAndRestart

\* The deadline only returns: the command keeps the bash.
FaultyTimeout ==
    /\ pc = "wait"
    /\ Return("timeout")
    /\ pc' = "free"
    /\ buf' = <<>>
    /\ UNCHANGED <<startVars, shellVars, queue, execs, histVars>>

\* The deadline is looked at only once the bash has exited.
FaultyDeadline ==
    /\ proc \notin up
    /\ FaultyTimeout

\* The deadline of the call passes.
Timeout ==
    /\ pc = "wait"
    /\ Return("timeout")
    /\ KillAndRestart

\* close(): exit, terminate or kill, whichever works.
Close ==
    /\ pc = "free"
    /\ Kill
    /\ closed' = TRUE
    /\ UNCHANGED <<pc, goal, tries, nproc, fg, pipe, queue, execs,
                   buf, result, mode, emitted, ended, gone>>

\* launcher.teardown() follows close() without taking the lock: stop_container,
\* which ends every process in the container.
StopContainer ==
    /\ closed
    /\ ~gone
    /\ mode = "docker"
    /\ gone' = TRUE
    /\ up' = {}
    /\ input' = [p \in Procs |-> <<>>]
    /\ fg' = [p \in Procs |-> 0]
    /\ UNCHANGED <<pc, startVars, pipe, queue, execs, buf, result, mode,
                   emitted, ended, closed>>

Holder ==
    \/ StartOnce \/ PopenFails \/ InitLine \/ InitFail \/ Write \/ WriteFails
    \/ TakeLine \/ ShellDied \/ Timeout

-----------------------------------------------------------------------------
(* The bash processes and their readers.                                   *)

\* The bash in the container of a docker exec that was killed: it may run on,
\* but nothing it prints reaches a pipe.
Detached(p) == mode = "docker" /\ ~gone /\ p \notin up

\* It prints a line.
Prints(p, line) ==
    pipe' = IF p \in up THEN [pipe EXCEPT ![p] = Append(@, line)] ELSE pipe

RunInit(p) ==
    /\ p \in up \/ Detached(p)
    /\ fg[p] = 0
    /\ input[p] # <<>>
    /\ Head(input[p]) = InitText
    /\ input' = [input EXCEPT ![p] = Tail(@)]
    /\ Prints(p, Line("init", p))
    /\ UNCHANGED <<pc, startVars, up, fg, queue, execs, buf, result, histVars>>

RunCommand(p) ==
    /\ p \in up \/ Detached(p)
    /\ fg[p] = 0
    /\ input[p] # <<>>
    /\ Head(input[p]) # InitText
    /\ input' = [input EXCEPT ![p] = Tail(@)]
    /\ fg' = [fg EXCEPT ![p] = Head(input[p])]
    /\ UNCHANGED <<pc, startVars, up, pipe, queue, execs, buf, result, histVars>>

\* A command whose bash is gone goes on writing to its pipe in host mode only.
WriteLine(p) ==
    /\ fg[p] # 0
    /\ p \in up \/ mode = "host"
    /\ emitted[fg[p]] < MaxLines
    /\ emitted' = [emitted EXCEPT ![fg[p]] = @ + 1]
    /\ pipe' = [pipe EXCEPT ![p] = Append(@, Line("out", fg[p]))]
    /\ UNCHANGED <<pc, startVars, up, input, fg, queue, execs, buf, result,
                   mode, ended, closed, gone>>

\* The command ends and bash prints the sentinel; or it was `exit`, or its bash
\* is gone; or its bash goes on in the container.
EndCommand(p) ==
    /\ fg[p] # 0
    /\ fg' = [fg EXCEPT ![p] = 0]
    /\ \/ /\ p \in up
          /\ pipe' = [pipe EXCEPT ![p] = Append(@, Line("end", fg[p]))]
          /\ ended' = ended \cup {fg[p]}
          /\ UNCHANGED <<up, input>>
       \/ /\ up' = up \ {p}
          /\ input' = [input EXCEPT ![p] = <<>>]
          /\ UNCHANGED <<pipe, ended>>
       \/ /\ Detached(p)
          /\ UNCHANGED <<pipe, ended, up, input>>
    /\ UNCHANGED <<pc, startVars, queue, execs, buf, result,
                   mode, emitted, closed, gone>>

\* _read_loop: pass a line on.  A reader outlives its bash until the pipe is
\* empty and closed.
Read(p) ==
    /\ pipe[p] # <<>>
    /\ queue' = Append(queue, Head(pipe[p]))
    /\ pipe' = [pipe EXCEPT ![p] = Tail(@)]
    /\ UNCHANGED <<pc, startVars, up, input, fg, execs, buf, result, histVars>>

Bash(p) == RunInit(p) \/ RunCommand(p) \/ WriteLine(p) \/ EndCommand(p)

Next ==
    \/ Exec
    \/ Close
    \/ StopContainer
    \/ Holder
    \/ \E p \in Procs : Bash(p) \/ Read(p)

Spec == Init /\ [][Next]_vars

\* The waits of the holder all have deadlines.  Nothing is assumed of the
\* commands, nor that anybody calls.
FairSpec == Spec /\ WF_vars(Holder)

-----------------------------------------------------------------------------
(* Properties.                                                             *)

Kinds == {"none", "ok", "timeout", "died", "write failed", "restart failed"}

\* Every variable keeps its type.
TypeOK ==
    /\ mode \in Modes
    /\ pc \in {"start", "init", "write", "wait", "free", "raised"}
    /\ goal \in {"new", "exec", "restart"}
    /\ tries \in 1..MaxStarts
    /\ proc \in 0..nproc
    /\ nproc \in 0..MaxProcs
    /\ up \subseteq 1..nproc
    /\ \A p \in Procs : \A k \in DOMAIN input[p] : input[p][k] \in {InitText} \cup Calls
    /\ fg \in [Procs -> {0} \cup Calls]
    /\ execs \in 0..MaxExecs
    /\ result.kind \in Kinds
    /\ emitted \in [Calls -> 0..MaxLines]
    /\ ended \subseteq Calls
    /\ closed \in BOOLEAN
    /\ gone \in BOOLEAN

OwnLines(out, c) == Cardinality({k \in DOMAIN out : out[k] = Line("out", c)})

\* A call that returns an exit code returns that of its own command, which has
\* ended, with every line the command wrote: a sentinel still in flight from a
\* call that timed out is not taken for it.
AnswerComplete ==
    result.kind = "ok" =>
        /\ result.call \in ended
        /\ OwnLines(result.out, result.call) = emitted[result.call]

\* The bash that the next call will be written to runs no command of an earlier
\* one, so a call never queues behind a command that timed out.
NextShellIdle ==
    pc \in {"free", "write"} /\ proc \in up =>
        fg[proc] = 0 /\ \A k \in DOMAIN input[proc] : input[proc][k] = InitText

\* A command may outlive its call, on the host and in the container (there with
\* the bash of a killed docker exec).  But a command that runs while no call
\* waits for it never gave its call an exit code, and no live process of the
\* shell is in front of it: it cannot hold up, or speak into, a later bash.
OrphanIsCutOff ==
    \A p \in Procs : fg[p] # 0 =>
        /\ fg[p] \notin ended
        /\ p \notin up \/ (p = proc /\ pc = "wait" /\ fg[p] = execs)

\* A call returns whatever its command, its bash or the container do (unless the
\* model is out of processes).
ExecReturns ==
    pc \in {"start", "init", "write", "wait"} ~>
        pc \in {"free", "raised"} \/ (pc = "start" /\ nproc = MaxProcs)

\* "Everything before [the sentinel] is the output" (tool_layer.py, line 74):
\* no line of another call, and no init sentinel.
OutputIsOwn == result.kind = "ok" =>
    \A k \in DOMAIN result.out : result.out[k] = Line("out", result.call)

=============================================================================
