------------------------------ MODULE AgentEnv ------------------------------
(***************************************************************************)
(* One agent rollout of the RL environment, from generate() in             *)
(* Relax/examples/agent_bench/rollout.py through AgentBenchEnv.reset, step *)
(* and close in env_agent_bench.py down to the sandbox launcher            *)
(* (launchers/harbor_launcher.py), for a set of samples that share one     *)
(* rollout worker process.                                                 *)
(*                                                                         *)
(* Three kinds of process meet here.                                       *)
(*   - co[s], the coroutine of sample s: at most ActiveCap of them are     *)
(*     between acquiring and releasing _ACTIVE_ENV_SEMAPHORE.              *)
(*   - wk[s], the thread asyncio.to_thread gives to env.reset and then to  *)
(*     each env.step.  A coroutine whose wait_for expires, or that is      *)
(*     cancelled, goes on to env.close while that thread keeps running.    *)
(*   - cl[s], the thread of env.close, which a cancelled coroutine does    *)
(*     not wait for either.                                                *)
(* The threads in container set-up are at most SetupCap inside             *)
(* _DOCKER_START_SEMAPHORE.                                                *)
(***************************************************************************)
EXTENDS Integers, FiniteSets

CONSTANTS
    Samples,      \* the samples of the batch
    Tasks,        \* the benchmark tasks
    TaskOf,       \* the task of each sample (GRPO groups share one)
    ActiveCap,    \* AGENT_BENCH_ACTIVE_ENV_CONCURRENCY
    SetupCap,     \* AGENT_BENCH_DOCKER_START_CONCURRENCY
    MaxAttempts,  \* AGENT_BENCH_SETUP_ATTEMPTS
    MaxTurns,     \* args.max_turns
    MaxCalls,     \* bound: tool calls of one assistant turn
    Shadow,       \* samples whose trajectory is cleaned before training
    MayTimeout,   \* samples whose env.step may outlive the wallclock budget
    MayCancel,    \* samples whose rollout task abort() may cancel
    RmMayFail     \* samples whose docker rm may fail

ASSUME AgentEnvAssumption ==
    /\ IsFiniteSet(Samples)
    /\ TaskOf \in [Samples -> Tasks]
    /\ ActiveCap \in Nat \ {0}
    /\ SetupCap \in Nat \ {0}
    /\ MaxAttempts \in Nat \ {0}
    /\ MaxTurns \in Nat \ {0}
    /\ MaxCalls \in Nat \ {0}
    /\ {Shadow, MayTimeout, MayCancel, RmMayFail} \subseteq SUBSET Samples

VARIABLES
    co,           \* position of the coroutine of each sample
    wk,           \* position of its reset/step thread
    cl,           \* position of its env.close thread
    activeFree,   \* permits left in _ACTIVE_ENV_SEMAPHORE
    setupFree,    \* permits left in _DOCKER_START_SEMAPHORE
    attempt,      \* launcher._start_attempt_idx
    cname,        \* attempt named by launcher._container_name, 0 if None
    tornDown,     \* launcher._teardown_called
    containers,   \* containers alive on the Docker host: <<sample, attempt>>
    tools,        \* is env.tool_layer set?
    turn,         \* env.turn
    left,         \* tool calls of this turn still to dispatch
    status,       \* sample.status
    score,        \* env._final_score
    stash,        \* sample.metadata["final_score"]
    skip,         \* env._skip_close_terminal_grade_reason is set
    infraTasks,   \* _TERMINAL_GRADE_INFRA_FAIL_TASKS
    outcome,      \* what training makes of the sample
    grades,       \* history: launcher.grade calls of each sample
    infraHit,     \* history: a failed grade the coroutine or close() saw
    realInfra     \* history: tasks whose grade failed on a live container

vars == <<co, wk, cl, activeFree, setupFree, attempt, cname, tornDown, containers,
          tools, turn, left, status, score, stash, skip, infraTasks, outcome,
          grades, infraHit, realInfra>>

setupVars == <<activeFree, setupFree>>
launcherVars == <<attempt, cname, tornDown, containers>>
envVars == <<tools, turn, left, score, skip>>
sampleVars == <<status, stash, outcome>>
gradeVars == <<infraTasks, grades, infraHit, realInfra>>

CoPos == {"idle", "reset", "turn", "step", "clean", "close", "collect", "done"}
ResetPos == {"resetQ", "attempt", "start", "build", "undo", "retry",
             "ready", "gaveUp"}
StepPos == {"stepQ", "tools", "exec", "shell", "file", "gradeFinal", "gradeState",
            "more", "over", "skipped"}
WkPos == {"none"} \cup ResetPos \cup StepPos
ClPos == {"none", "grade", "tools", "teardown", "ended"}

\* Coroutines inside the _active_env_slot context, threads inside
\* _docker_setup_slot.
Running == CoPos \ {"idle", "collect", "done"}
ActiveHolders == {s \in Samples : co[s] \in Running}
SetupHolders == {s \in Samples : wk[s] \in {"start", "build"}}

Scores == {"verdict", "zero"}
Alive(s) == <<s, cname[s]>> \in containers

Init ==
    /\ co = [s \in Samples |-> "idle"]
    /\ wk = [s \in Samples |-> "none"]
    /\ cl = [s \in Samples |-> "none"]
    /\ activeFree = ActiveCap
    /\ setupFree = SetupCap
    /\ attempt = [s \in Samples |-> 0]
    /\ cname = [s \in Samples |-> 0]
    /\ tornDown = [s \in Samples |-> FALSE]
    /\ containers = {}
    /\ tools = [s \in Samples |-> FALSE]
    /\ turn = [s \in Samples |-> 0]
    /\ left = [s \in Samples |-> 0]
    /\ status = [s \in Samples |-> "pending"]
    /\ score = [s \in Samples |-> "none"]
    /\ stash = [s \in Samples |-> "none"]
    /\ skip = [s \in Samples |-> FALSE]
    /\ infraTasks = {}
    /\ outcome = [s \in Samples |-> "open"]
    /\ grades = [s \in Samples |-> 0]
    /\ infraHit = [s \in Samples |-> FALSE]
    /\ realInfra = {}

-----------------------------------------------------------------------------
(* The two semaphores.  A definition whose name begins with Faulty is a    *)
(* plausible bug that no action uses: substituted for the definition that  *)
(* follows it, it breaks the properties the README names for it.           *)

FaultyTakeActiveSlot == activeFree' = activeFree - 1
TakeActiveSlot == activeFree > 0 /\ activeFree' = activeFree - 1

\* The permit of an aborted sample is never released.
FaultyGiveActiveSlot(s) ==
    activeFree' = activeFree + (IF status[s] = "aborted" THEN 0 ELSE 1)
GiveActiveSlot(s) == activeFree' = activeFree + 1

FaultyTakeSetupSlot == setupFree' = setupFree - 1
TakeSetupSlot == setupFree > 0 /\ setupFree' = setupFree - 1

\* The slot is not released on the way out of the with block.
FaultyGiveSetupSlot == UNCHANGED setupFree
GiveSetupSlot == setupFree' = setupFree + 1

-----------------------------------------------------------------------------
(* The coroutine up to env.reset.                                          *)

\* generate(): wait for an active-environment slot, then hand env.reset to a
\* thread.
AcquireSlot(s) ==
    /\ co[s] = "idle"
    /\ TakeActiveSlot
    /\ co' = [co EXCEPT ![s] = "reset"]
    /\ wk' = [wk EXCEPT ![s] = "resetQ"]
    /\ UNCHANGED <<cl, setupFree, launcherVars, envVars, sampleVars, gradeVars>>

\* The executor picks env.reset up.
ResetBegin(s) ==
    /\ wk[s] = "resetQ"
    /\ wk' = [wk EXCEPT ![s] = "attempt"]
    /\ turn' = [turn EXCEPT ![s] = 0]
    /\ UNCHANGED <<cl, co, setupVars, launcherVars, tools, left, score, skip,
                   sampleVars, gradeVars>>

\* Top of the attempt loop: enter the docker set-up slot.
SetupAcquire(s) ==
    /\ wk[s] = "attempt"
    /\ attempt[s] < MaxAttempts
    /\ TakeSetupSlot
    /\ attempt' = [attempt EXCEPT ![s] = @ + 1]
    /\ tools' = [tools EXCEPT ![s] = FALSE]
    /\ wk' = [wk EXCEPT ![s] = "start"]
    /\ UNCHANGED <<cl, co, activeFree, cname, tornDown, containers, turn, left,
                   score, skip, sampleVars, gradeVars>>

\* launcher.start(): docker run under a name of its own per attempt, then
\* copy_tests.  It can fail before the container exists, or after it: then
\* _container_name is set but the handle never reaches env.reset.
LauncherStart(s) ==
    /\ wk[s] = "start"
    /\ \/ /\ containers' = containers \cup {<<s, attempt[s]>>}
          /\ cname' = [cname EXCEPT ![s] = attempt[s]]
          /\ wk' = [wk EXCEPT ![s] = "build"]
          /\ UNCHANGED setupFree
       \/ /\ containers' = containers \cup {<<s, attempt[s]>>}
          /\ cname' = [cname EXCEPT ![s] = attempt[s]]
          /\ wk' = [wk EXCEPT ![s] = "retry"]
          /\ GiveSetupSlot
       \/ /\ wk' = [wk EXCEPT ![s] = "retry"]
          /\ GiveSetupSlot
          /\ UNCHANGED <<containers, cname>>
    /\ UNCHANGED <<cl, co, activeFree, attempt, tornDown, envVars, sampleVars,
                   gradeVars>>

\* _build_tool_layer and the skill injection, still inside the slot.
BuildTools(s) ==
    /\ wk[s] = "build"
    /\ GiveSetupSlot
    /\ \/ /\ Alive(s)
          /\ tools' = [tools EXCEPT ![s] = TRUE]
          /\ wk' = [wk EXCEPT ![s] = "ready"]
       \/ /\ wk' = [wk EXCEPT ![s] = "undo"]
          /\ UNCHANGED tools
    /\ UNCHANGED <<cl, co, activeFree, launcherVars, turn, left, score, skip,
                   sampleVars, gradeVars>>

\* The containers of aborted samples are kept.
FaultyTeardown(s) ==
    /\ tornDown' = [tornDown EXCEPT ![s] = TRUE]
    /\ containers' = IF tornDown[s] \/ status[s] = "aborted"
                     THEN containers ELSE containers \ {<<s, cname[s]>>}

\* launcher.teardown(): one shot per launcher, whatever it is that docker rm
\* returns, and never re-armed by a later start().
Teardown(s) ==
    /\ tornDown' = [tornDown EXCEPT ![s] = TRUE]
    /\ \/ /\ ~tornDown[s]
          /\ containers' = containers \ {<<s, cname[s]>>}
       \/ /\ tornDown[s] \/ s \in RmMayFail
          /\ UNCHANGED containers

\* The except branch of the attempt loop: tear the attempt down if its handle
\* is known, drop the tool layer, sleep, go round again.
SetupRetry(s) ==
    /\ wk[s] \in {"undo", "retry"}
    /\ IF wk[s] = "undo" THEN Teardown(s) ELSE UNCHANGED <<tornDown, containers>>
    /\ tools' = [tools EXCEPT ![s] = FALSE]
    /\ wk' = [wk EXCEPT ![s] = "attempt"]
    /\ UNCHANGED <<cl, co, setupVars, attempt, cname, turn, left, score, skip,
                   sampleVars, gradeVars>>

\* Out of attempts, or past the set-up deadline: env.reset reports skipped.
SetupGiveUp(s) ==
    /\ wk[s] = "attempt"
    /\ attempt[s] > 0
    /\ skip' = [skip EXCEPT ![s] = TRUE]
    /\ wk' = [wk EXCEPT ![s] = "gaveUp"]
    /\ UNCHANGED <<cl, co, setupVars, launcherVars, tools, turn, left, score,
                   sampleVars, gradeVars>>

\* The coroutine receives the result of env.reset.
ResetReturn(s) ==
    /\ co[s] = "reset"
    /\ \/ /\ wk[s] = "ready"
          /\ co' = [co EXCEPT ![s] = "turn"]
          /\ UNCHANGED status
       \/ /\ wk[s] = "gaveUp"
          /\ co' = [co EXCEPT ![s] = "close"]
          /\ status' = [status EXCEPT ![s] = "aborted"]
    /\ wk' = [wk EXCEPT ![s] = "none"]
    /\ UNCHANGED <<cl, setupVars, launcherVars, envVars, stash, outcome, gradeVars>>

-----------------------------------------------------------------------------
(* The turn loop.                                                          *)

\* The context budget is spent right after env.reset (an early return that
\* skips the cleaning step), or the wallclock deadline at the top of a later turn.
StopAtBudget(s) ==
    /\ co[s] = "turn"
    /\ status' = [status EXCEPT ![s] = "truncated"]
    /\ co' = [co EXCEPT ![s] = IF turn[s] = 0 THEN "close" ELSE "clean"]
    /\ UNCHANGED <<cl, wk, setupVars, launcherVars, envVars, stash, outcome,
                   gradeVars>>

\* _run_inference_step: finish_reason length (or the budget) truncates, abort
\* aborts, an HTTP failure leaves the loop by an exception, and otherwise the
\* answer is handed to env.step in a thread.
Infer(s) ==
    /\ co[s] = "turn"
    /\ \/ /\ co' = [co EXCEPT ![s] = "step"]
          /\ wk' = [wk EXCEPT ![s] = "stepQ"]
          /\ UNCHANGED <<status, outcome>>
       \/ /\ \E st \in {"truncated", "aborted"} :
                status' = [status EXCEPT ![s] = st]
          /\ co' = [co EXCEPT ![s] = "clean"]
          /\ UNCHANGED <<wk, outcome>>
       \/ /\ outcome' = [outcome EXCEPT ![s] = "lost"]
          /\ co' = [co EXCEPT ![s] = "close"]
          /\ UNCHANGED <<wk, status>>
    /\ UNCHANGED <<cl, setupVars, launcherVars, envVars, stash, gradeVars>>

\* env.step begins: no tool call means a final answer, which is graded at once;
\* otherwise the calls of the turn are dispatched one by one.
StepBegin(s) ==
    /\ wk[s] = "stepQ"
    /\ turn' = [turn EXCEPT ![s] = @ + 1]
    /\ \/ /\ wk' = [wk EXCEPT ![s] = "gradeFinal"]
          /\ grades' = [grades EXCEPT ![s] = @ + 1]
          /\ UNCHANGED left
       \/ /\ wk' = [wk EXCEPT ![s] = "tools"]
          /\ \E n \in 1..MaxCalls : left' = [left EXCEPT ![s] = n]
          /\ UNCHANGED grades
    /\ UNCHANGED <<cl, co, setupVars, launcherVars, tools, score, skip, sampleVars,
                   infraTasks, infraHit, realInfra>>

\* ToolLayer.dispatch.  An exec call asks for the lock of the persistent shell, a
\* file or web call does not; a tool layer close() has set to None raises, and
\* the error becomes the text of the observation.
DispatchBegin(s) ==
    /\ wk[s] = "tools"
    /\ left[s] > 0
    /\ left' = [left EXCEPT ![s] = @ - 1]
    /\ \/ /\ tools[s]
          /\ \E kind \in {"exec", "file"} : wk' = [wk EXCEPT ![s] = kind]
       \/ /\ ~tools[s]
          /\ UNCHANGED wk
    /\ UNCHANGED <<cl, co, setupVars, launcherVars, tools, turn, score, skip,
                   sampleVars, gradeVars>>

\* PersistentShell.exec has the lock: the command runs, in a new shell if close()
\* got there first, unless the shell cannot be started again.
ShellEnter(s) ==
    /\ wk[s] = "exec"
    /\ \/ Alive(s) /\ wk' = [wk EXCEPT ![s] = "shell"]
       \/ wk' = [wk EXCEPT ![s] = "tools"]
    /\ UNCHANGED <<cl, co, setupVars, launcherVars, envVars, sampleVars, gradeVars>>

\* The call returns, or times out.
DispatchEnd(s) ==
    /\ wk[s] \in {"shell", "file"}
    /\ wk' = [wk EXCEPT ![s] = "tools"]
    /\ UNCHANGED <<cl, co, setupVars, launcherVars, envVars, sampleVars, gradeVars>>

\* All calls of the turn are done: out of turns, grade the container state.
CallsDone(s) ==
    /\ wk[s] = "tools"
    /\ left[s] = 0
    /\ \/ /\ turn[s] < MaxTurns
          /\ wk' = [wk EXCEPT ![s] = "more"]
          /\ UNCHANGED grades
       \/ /\ turn[s] >= MaxTurns
          /\ wk' = [wk EXCEPT ![s] = "gradeState"]
          /\ grades' = [grades EXCEPT ![s] = @ + 1]
    /\ UNCHANGED <<cl, co, setupVars, launcherVars, envVars, sampleVars,
                   infraTasks, infraHit, realInfra>>

\* launcher.grade() returns a score or raises something else (which scores 0).
\* The score and its stash are adjacent statements of the thread with no I/O
\* between them: one step.
GradeOk(s) ==
    /\ Alive(s)
    /\ \E v \in Scores :
          /\ score' = [score EXCEPT ![s] = v]
          /\ stash' = [stash EXCEPT ![s] = v]

\* launcher.grade() raises LauncherError: the verifier failed, or there is no
\* container (any more) to run it in.
GradeInfra(s, remember, seen) ==
    /\ infraTasks' = infraTasks \cup (IF remember THEN {TaskOf[s]} ELSE {})
    /\ realInfra' = realInfra \cup (IF Alive(s) THEN {TaskOf[s]} ELSE {})
    /\ infraHit' = [infraHit EXCEPT ![s] = @ \/ seen]

\* The coroutine, or the close() it awaits, has still to look at the environment.
Watched(s) == co[s] \in {"step", "clean"} \/ (co[s] = "close" /\ cl[s] = "none")

\* The end of a grade called by env.step.  Only the out-of-turns path records
\* the failure for the whole task.
StepGraded(s) ==
    /\ wk[s] \in {"gradeFinal", "gradeState"}
    /\ \/ /\ GradeOk(s)
          /\ wk' = [wk EXCEPT ![s] = "over"]
          /\ UNCHANGED <<skip, infraTasks, realInfra, infraHit>>
       \/ /\ GradeInfra(s, wk[s] = "gradeState", Watched(s))
          /\ skip' = [skip EXCEPT ![s] = TRUE]
          /\ wk' = [wk EXCEPT ![s] = "skipped"]
          /\ UNCHANGED <<score, stash>>
    /\ UNCHANGED <<cl, co, setupVars, launcherVars, tools, turn, left, status,
                   outcome, grades>>

\* The coroutine receives the result of env.step: the observation fits the
\* budget or truncates the sample, a graded episode is completed, a grader
\* failure aborts it.
StepReturn(s) ==
    /\ co[s] = "step"
    /\ \/ /\ wk[s] = "more"
          /\ co' = [co EXCEPT ![s] = "turn"]
          /\ UNCHANGED status
       \/ /\ wk[s] = "more"
          /\ co' = [co EXCEPT ![s] = "clean"]
          /\ status' = [status EXCEPT ![s] = "truncated"]
       \/ /\ wk[s] = "over"
          /\ co' = [co EXCEPT ![s] = "clean"]
          /\ status' = [status EXCEPT ![s] = "completed"]
       \/ /\ wk[s] = "skipped"
          /\ co' = [co EXCEPT ![s] = "clean"]
          /\ status' = [status EXCEPT ![s] = "aborted"]
    /\ wk' = [wk EXCEPT ![s] = "none"]
    /\ UNCHANGED <<cl, setupVars, launcherVars, envVars, stash, outcome, gradeVars>>

\* What becomes of the thread when its coroutine stops waiting for it: a call
\* the executor has not begun is dropped, a running one keeps running.
Orphan(s) ==
    wk' = IF wk[s] \in {"resetQ", "stepQ"} THEN [wk EXCEPT ![s] = "none"] ELSE wk

\* asyncio.wait_for gives up on env.step.
StepTimeout(s) ==
    /\ s \in MayTimeout
    /\ co[s] = "step"
    /\ status' = [status EXCEPT ![s] = "truncated"]
    /\ co' = [co EXCEPT ![s] = "clean"]
    /\ Orphan(s)
    /\ UNCHANGED <<cl, setupVars, launcherVars, envVars, stash, outcome, gradeVars>>

\* _cancel_leftovers of abort() cancels the rollout task, and once more when
\* CANCEL_WAIT seconds later it has not ended: CancelledError leaves the await it
\* interrupts.  In front of the finally block that leads to env.close; inside it
\* the coroutine gives the slot back and env.close goes on alone, or never
\* begins if the executor has not picked it up.
Cancel(s) ==
    /\ s \in MayCancel
    /\ \/ /\ co[s] = "idle"
          /\ co' = [co EXCEPT ![s] = "collect"]
          /\ UNCHANGED activeFree
       \/ /\ co[s] \in {"reset", "turn", "step"}
          /\ co' = [co EXCEPT ![s] = "close"]
          /\ UNCHANGED activeFree
       \/ /\ co[s] = "close"
          /\ co' = [co EXCEPT ![s] = "collect"]
          /\ GiveActiveSlot(s)
    /\ outcome' = [outcome EXCEPT ![s] = "lost"]
    /\ Orphan(s)
    /\ UNCHANGED <<cl, setupFree, launcherVars, envVars, status, stash, gradeVars>>

\* An abandoned call still reports its result on the sample.
FaultyOrphanExit(s) ==
    /\ co[s] # "step" /\ wk[s] \in {"more", "over", "skipped"}
    /\ wk' = [wk EXCEPT ![s] = "none"]
    /\ status' = [status EXCEPT ![s] = "completed"]
    /\ UNCHANGED <<cl, co, setupVars, launcherVars, envVars, stash, outcome, gradeVars>>

\* The thread of an abandoned call runs to its end; nobody takes the result.
OrphanExit(s) ==
    /\ \/ co[s] # "reset" /\ wk[s] \in {"ready", "gaveUp"}
       \/ co[s] # "step" /\ wk[s] \in {"more", "over", "skipped"}
    /\ wk' = [wk EXCEPT ![s] = "none"]
    /\ UNCHANGED <<cl, co, setupVars, launcherVars, envVars, sampleVars, gradeVars>>

\* Cleaning of a skill-free shadow trajectory, which may reject the sample.
Clean(s) ==
    /\ co[s] = "clean"
    /\ \/ UNCHANGED status
       \/ s \in Shadow /\ status' = [status EXCEPT ![s] = "aborted"]
    /\ co' = [co EXCEPT ![s] = "close"]
    /\ UNCHANGED <<cl, wk, setupVars, launcherVars, envVars, stash, outcome,
                   gradeVars>>

-----------------------------------------------------------------------------
(* env.close().                                                            *)

\* _mark_sample_aborted.
FaultyMarkAborted(s) == UNCHANGED status
MarkAborted(s) == status' = [status EXCEPT ![s] = "aborted"]

\* Only the failures recorded for the task count, not the sample's own.
FaultySkipGrading(s) ==
    TaskOf[s] \in infraTasks /\ status[s] \in {"aborted", "truncated"}

\* Should close() leave the sample ungraded?  Its own set-up or grader failed,
\* or the task is known to fail and the sample did not complete.  (The opt-in
\* AGENT_BENCH_SKIP_CLOSE_GRADING_ON_ABORT, off by default, is left out.)
SkipGrading(s) ==
    skip[s] \/ (TaskOf[s] \in infraTasks /\ status[s] \in {"aborted", "truncated"})

CloseCheck(s) ==
    /\ co[s] = "close"
    /\ cl[s] = "none"
    /\ \/ /\ score[s] = "none"
          /\ SkipGrading(s)
          /\ MarkAborted(s)
          /\ cl' = [cl EXCEPT ![s] = "tools"]
          /\ UNCHANGED grades
       \/ /\ score[s] = "none"
          /\ ~SkipGrading(s)
          /\ cl' = [cl EXCEPT ![s] = "grade"]
          /\ grades' = [grades EXCEPT ![s] = @ + 1]
          /\ UNCHANGED status
       \/ /\ score[s] # "none"
          /\ cl' = [cl EXCEPT ![s] = "tools"]
          /\ UNCHANGED <<status, grades>>
    /\ UNCHANGED <<co, wk, setupVars, launcherVars, envVars, stash, outcome,
                   infraTasks, infraHit, realInfra>>

\* The grade that close() runs itself.
CloseGraded(s) ==
    /\ cl[s] = "grade"
    /\ \/ /\ GradeOk(s)
          /\ UNCHANGED <<status, infraTasks, realInfra, infraHit>>
       \/ /\ GradeInfra(s, TRUE, TRUE)
          /\ MarkAborted(s)
          /\ UNCHANGED <<score, stash>>
    /\ cl' = [cl EXCEPT ![s] = "tools"]
    /\ UNCHANGED <<co, wk, setupVars, launcherVars, tools, turn, left, skip, outcome,
                   grades>>

\* tool_layer.close() needs the lock of the persistent shell, so it waits for a
\* command that is still running there; then the layer is dropped.
ShellLockFree(s) == wk[s] # "shell"

CloseTools(s) ==
    /\ cl[s] = "tools"
    /\ tools[s] => ShellLockFree(s)
    /\ tools' = [tools EXCEPT ![s] = FALSE]
    /\ cl' = [cl EXCEPT ![s] = "teardown"]
    /\ UNCHANGED <<co, wk, setupVars, launcherVars, turn, left, score, skip,
                   sampleVars, gradeVars>>

CloseTeardown(s) ==
    /\ cl[s] = "teardown"
    /\ Teardown(s)
    /\ cl' = [cl EXCEPT ![s] = "ended"]
    /\ UNCHANGED <<co, wk, setupVars, attempt, cname, envVars, sampleVars, gradeVars>>

\* The coroutine receives the end of env.close; the slot is released as
\* generate() returns.
CloseReturn(s) ==
    /\ co[s] = "close"
    /\ cl[s] = "ended"
    /\ GiveActiveSlot(s)
    /\ co' = [co EXCEPT ![s] = "collect"]
    /\ UNCHANGED <<wk, cl, setupFree, launcherVars, envVars, sampleVars, gradeVars>>

\* generate_and_rm: an ABORTED sample goes back without a reward and its group
\* is dropped; any other is rewarded with what reward_func finds in the
\* metadata, a missing score counting 0.
Collect(s) ==
    /\ co[s] = "collect"
    /\ outcome' = [outcome EXCEPT ![s] =
          IF @ = "lost" THEN "lost"
          ELSE IF status[s] = "aborted" THEN "dropped"
          ELSE IF stash[s] = "none" THEN "missing" ELSE stash[s]]
    /\ co' = [co EXCEPT ![s] = "done"]
    /\ UNCHANGED <<wk, cl, setupVars, launcherVars, envVars, status, stash, gradeVars>>

-----------------------------------------------------------------------------
Coroutine(s) ==
    \/ AcquireSlot(s) \/ ResetReturn(s) \/ StopAtBudget(s) \/ Infer(s)
    \/ StepReturn(s) \/ Clean(s) \/ CloseReturn(s) \/ Collect(s)

Worker(s) ==
    \/ ResetBegin(s) \/ SetupAcquire(s) \/ LauncherStart(s) \/ BuildTools(s)
    \/ SetupRetry(s) \/ SetupGiveUp(s) \/ StepBegin(s) \/ DispatchBegin(s)
    \/ ShellEnter(s) \/ DispatchEnd(s) \/ CallsDone(s) \/ StepGraded(s) \/ OrphanExit(s)

Closer(s) ==
    \/ CloseCheck(s) \/ CloseGraded(s) \/ CloseTools(s) \/ CloseTeardown(s)

Next == \E s \in Samples :
    Coroutine(s) \/ Worker(s) \/ Closer(s) \/ StepTimeout(s) \/ Cancel(s)

Spec == Init /\ [][Next]_vars

\* Every await ends: inference and HTTP calls return, grading and docker calls
\* run under timeouts of their own, the executor runs what it is given.
\* Timeouts and cancellations need not happen.
FairSpec ==
    /\ Spec
    /\ \A s \in Samples :
          WF_vars(Coroutine(s)) /\ WF_vars(Worker(s)) /\ WF_vars(Closer(s))

-----------------------------------------------------------------------------
(* Properties.                                                             *)

\* Every variable keeps its type: the semaphores never go below zero or above
\* their initial value, positions stay in the code's control flow.
TypeOK ==
    /\ co \in [Samples -> CoPos]
    /\ wk \in [Samples -> WkPos]
    /\ cl \in [Samples -> ClPos]
    /\ activeFree \in 0..ActiveCap
    /\ setupFree \in 0..SetupCap
    /\ attempt \in [Samples -> 0..MaxAttempts]
    /\ cname \in [Samples -> 0..MaxAttempts]
    /\ tornDown \in [Samples -> BOOLEAN]
    /\ containers \subseteq Samples \X (1..MaxAttempts)
    /\ tools \in [Samples -> BOOLEAN]
    /\ turn \in [Samples -> Nat]
    /\ left \in [Samples -> 0..MaxCalls]
    /\ status \in [Samples -> {"pending", "completed", "truncated", "aborted"}]
    /\ score \in [Samples -> Scores \cup {"none"}]
    /\ stash \in [Samples -> Scores \cup {"none"}]
    /\ skip \in [Samples -> BOOLEAN]
    /\ infraTasks \subseteq Tasks
    /\ outcome \in [Samples -> {"open", "lost", "dropped", "missing"} \cup Scores]
    /\ grades \in [Samples -> Nat]
    /\ infraHit \in [Samples -> BOOLEAN]
    /\ realInfra \subseteq Tasks

\* However calls time out, are cancelled or fail halfway, no more samples hold
\* an environment and no more threads are in container set-up (abandoned ones
\* included) than the two semaphores admit.
CapsRespected ==
    /\ Cardinality(ActiveHolders) <= ActiveCap
    /\ Cardinality(SetupHolders) <= SetupCap

Trained == Scores \cup {"missing"}
Finished(s) == co[s] = "done" /\ wk[s] = "none" /\ cl[s] \in {"none", "ended"}

\* One launcher.grade call per rollout (reward_agent_bench.py, line 12):
\* whichever of the final answer, the turn limit and close() ends the episode.
AtMostOneGrade == \A s \in Samples : grades[s] <= 1

\* A sample that reaches training carries a score a grade produced: the 0.0
\* that reward_func substitutes for a missing score is never trained on.
TrainedIsGraded == \A s \in Samples : outcome[s] # "missing"

\* A verifier failure the rollout knew of before it closed never turns into a
\* reward, of 0 or of anything else (env_agent_bench.py, lines 641-645).
InfraNeverTrains ==
    \A s \in Samples : infraHit[s] => outcome[s] \notin Trained

\* A task enters the process-wide set of known verifier failures, which aborts
\* its truncated siblings ungraded, only if its verifier really failed in a
\* container that was there (env_agent_bench.py, lines 50-57).
PoisonIsReal == infraTasks \subseteq realInfra

\* A sample that needed one set-up attempt leaves no container behind, even if
\* that attempt failed after docker run.
OneAttemptLeavesNothing ==
    \A s \in Samples :
        Finished(s) /\ attempt[s] = 1 => \A k \in 1..MaxAttempts : <<s, k>> \notin containers

\* teardown() removes the containers of the sample (launchers/base.py, line 12).
NothingLeft ==
    \A s \in Samples :
        Finished(s) => \A k \in 1..MaxAttempts : <<s, k>> \notin containers

\* Once generate() has returned nothing, not even a thread left behind, changes
\* the status of the sample, so the decision to train on it or to drop it is taken
\* on its final value.  (A cancelled call raises: it returns no sample.)
StatusSettled ==
    [][\A s \in Samples :
          co[s] \in {"collect", "done"} /\ outcome[s] # "lost" => status'[s] = status[s]]_vars

\* Where the contract sees a sample whose coroutine is at c.
PlaceAt(c) ==
    CASE c = "idle" -> "outside"
      [] c \in Running -> "inside"
      [] c = "collect" -> "left"
      [] c = "done" -> "settled"

\* RolloutContract, kept with two semaphores, a coroutine and two threads for
\* each sample.
Contract == INSTANCE RolloutContract WITH
    EnvCap <- ActiveCap,
    StartCap <- SetupCap,
    place <- [s \in Samples |-> PlaceAt(co[s])],
    setUp <- SetupHolders,
    failed <- infraHit,
    rejected <- [s \in Samples |-> status[s] = "aborted"],
    grade <- stash,
    fate <- outcome

\* Whatever is timed out, cancelled or left behind, a rollout does to its sample
\* only what the contract allows: it enters and sets up within the caps, is
\* never un-rejected, leaves rejected or graded without a known verifier failure,
\* is not judged after that, and is trained with a grade or not at all.
KeepsContract == Contract!Spec

\* Every rollout ends, and every permit of both semaphores comes back.
AllReturn == \A s \in Samples : <>(co[s] = "done")
PermitsReturn == <>[](activeFree = ActiveCap /\ setupFree = SetupCap)

=============================================================================
