# A verification project for SkillGate

TLA+ models of the parts of SkillGate whose correctness depends on the order in
which things happen, the TLC runs that check them, and proofs of the properties that matter
most for every size of the system. Paths below are relative to the
repository, except for the files of this directory.

    tlc -config MCAgentEnvShared.cfg MCAgentEnv.tla      # any run of PROJECT.json
    tlapm AgentEnvProofs.tla                             # the proofs, any ...Proofs.tla

## 1. The system

SkillGate collects agent trajectories on Docker benchmarks (Harbor-style tasks, SWE,
Claw), builds SFT data from them, and trains a model by RL in the same environments.
The code of its own is in `Relax/examples/agent_bench`, `GeneralAgent`, `ops`, `tools`
and `skill_libraries`; `Relax` (the rest), `sglang`, `slime`, `Megatron-LM` and
`GeneralAgent/third_party` are vendored.

| Component | State it keeps | Operations | What is hard |
| --- | --- | --- | --- |
| Rollout and environment: `rollout.py`, `env_agent_bench.py` | two semaphores, a process-wide set of tasks with a broken verifier, per sample: turn, score, skip flag, status | `generate`, `reset`, `step`, `close` | a coroutine leaves `reset`/`step` threads behind when it times out or is cancelled; permits on every exit path; who grades |
| Launchers: `launchers/*.py` | container name, attempt number, `_teardown_called` | `start`, `grade`, `teardown` | half-failed set-up, use after teardown |
| Rollout engine: `Relax/relax`, `sglang_rollout.py` with `data_source.py`, `components/rollout.py` | capacity counter, pending tasks, prefetched and requeued groups, the caches of pairs, transfers, the train partition, lock, flags and counter of evaluations | the step loop, `generate_rollout_async`, `abort`, `eval_rollout`, `get_samples` | slots and groups across refills, arms of a pair decided late, aborts beside evaluations, tasks and transfers that fail |
| Persistent shell: `tool_layer.py` | bash process, reader thread, line queue, lock | `_start`, `exec`, `_kill_and_restart`, `close` | sentinels and lines of dead shells, deadlines |
| Trial launcher: `launch_trials.py` | queues, window, active futures, stop event; on disk trajectory, result row, status rows, `.claw_global.lock` | select, schedule, run, retry, resume | locks inside and across processes, kills, torn rows |
| Streaming pipeline: `run_sft_pipeline.sh`, `watch_phase1_teacher_queue.py`, `make_teacher_fallback_plan.py` | queue/running/done directories, STOP, PHASE1_DONE, `.skipped.txt` files | wrapper, watcher, worker | three processes, `ERR` trap, resumption from files |
| Run manifest: `run_manifest.py` | `run.json` | start, finalize | unlocked read-modify-write |
| Docker start gate: `docker_start_gate.py` | flock slots | acquire, release | a killed holder |
| Slate credit: `skill_group_reward.py`, `slate_regret_gating.py`, `slate_regret_stratified_gating.py` | the rewards of a group | three post-processors, one around the other | shrinkage, re-centring and clipping of fractions |
| Span credit and losses: `hard_span_mask.py`, `selector_action_credit.py`, `*_loss.py` | none | pure functions on tokens and tensors | alignment of spans and tokens |
| Evaluation watcher, GPU keepalive, stale-container watcher (`ops/`) | files, processes | poll, act | stale observations, restarts |
| Collection, export, plans, retrieval, command line | files | sequential filters | (pure I/O) |

Interaction. The pipeline starts one Phase 1 launcher, the watcher and the worker; the
launcher's trials leave the rows the watcher polls; the watcher queues teacher files,
which the worker hands to further launchers. A trial is a runner subprocess that drives
the agent loop, whose tools go through the persistent shell into a container. In RL the
engine keeps a number of groups of samples running and calls `generate` for each sample,
which drives an environment, whose launcher starts the container and whose tool layer is
the same persistent shell. The accepted groups of a step go to the trainer through the
train partition, their rewards through the post-processors.

What makes each correct: every rollout ends and returns its permits; a sample trains
only on a score its verifier gave; a step hands over exactly its batch, each group once, and
leaves nothing behind that is used again; evaluations and aborts do not meet; what a sample reads never
outweighs its verifier; containers do not outlive their rollout; a tool call
returns the output of its own command; a task owed to the teacher is queued once and
survives failures; a trial is reported done only with its files on disk and is not run
again. PROJECT.json lists the hazards, each at its line.

## 2. Modules

| Module | Models | Composes |
| --- | --- | --- |
| `AgentEnv` | a rollout: coroutine `co`, `reset`/`step` thread `wk`, `close` thread `cl` of each sample, both semaphores, launcher, containers, grading, what training makes of the sample | rollout, environment, Harbor launcher, the edge of the engine; the shell only as the lock that `close` waits for |
| `RolloutContract` | what a rollout promises the trainer: its place, its set-up, its grades, its rejection and its fate | refined by `AgentEnv` (`KeepsContract`) |
| `AgentEnvProofs` | the theorems about it; its second half is about rollouts nobody cancels or times out | |
| `PersistentShell` | one shell object: caller, successive bash processes, their reader threads, one line queue | |
| `TeacherQueue` | wrapper, watchers and worker over the directories | the Phase 1 launcher as what it leaves on disk |
| `LaunchTrials` | main thread, worker threads, runners, locks and files of one or several launchers | the runner as three writes |
| `RolloutBatch` | the step loop, the rollout coroutine from refill to abort, tasks of groups, transfers, evaluations, data source | engine; a group's task as its result (what happens in it is `AgentEnv`) |
| `AbortGate` | what the engine promises about evaluations and aborts | refined by `RolloutBatch` (`KeepsGate`) |
| `PersistentShellProofs`, `TeacherQueueProofs`, `LaunchTrialsProofs`, `RolloutBatchProofs`, `RolloutGroupProofs`, `RolloutSlotProofs` | the theorems about these modules | |
| `SlateCredit` | the three post-processors over one group, in exact fractions | |
| `SlateCreditProofs` | a theory of finite sums, and the theorems about the credit | |
| `MC...` | instances for TLC (`PersistentShell` is run as it is) | |

Definitions carry the names of the functions they follow; PROJECT.json's `map` gives the
lines. An operator `Faulty...` before a definition is the mistake that the
comment above it describes: in the place of that definition it breaks the property that the table
`mutants` of PROJECT.json names. These operators are used by nothing else.

**AgentEnv.** One action per segment of code between two points where another thread or
coroutine can be seen: awaits, semaphore and lock operations, calls into Docker. `wk` and
`cl` outlive `co`: `StepTimeout` and `Cancel` let the coroutine go on without its thread.
The content of turns is abstracted to the number of tool calls and whether the answer is
final; a grade is a verdict, or one of two infrastructure failures (container gone, verifier
failed). `outcome` is what `generate_and_rm` does with the sample. `grades`, `infraHit` and
`realInfra` are history variables.

**PersistentShell.** `proc` is the bash the object points to; every earlier one may still
run (`up`), hold text in its pipe and have a reader thread. Lines are tagged with their
call, so that whose output a call returns can be said at all. A command is external: it may
write up to `MaxLines` lines, end, hang or die with its bash at any time. A command may outlive
its call. On the host it keeps the pipe of its dead bash and goes on writing. In Docker mode what
`_kill_and_restart` kills is the `docker exec` client: the bash in the container may run on
(`Detached`), read what it was sent, and run it, but nothing it prints arrives; the `pkill` of
`_cleanup_timeout_children` (`tool_layer.py:225-265`), for a few kinds of command and best effort,
is one of the ways a command may end. A `Popen` that raises (`PopenFails`) ends `_start` without another try, since it is no
`RuntimeError`; a bash whose init timed out is neither killed nor remembered (`InitFail`).

**TeacherQueue.** A rename is one step, as it is on the file system; a Python
`write_text` followed by another file is two, because a kill fits in between. The wrapper
runs under `set -Eeuo pipefail` with an `ERR` trap that `set +e` does not disable, so a
failing launcher ends in `on_error`; the branches after it that inspect the return code
are never reached, and are not in the model.

**LaunchTrials.** The two versions of `submit_ready` share their actions; `Windowed`
tells them apart. Round-robin order is abstracted: any admitted record may be next. The
runner follows `run_unified_harbor.py`: trajectory, then row, then exit. A kill leaves
runners behind (`strays`); a crash of the host takes them along and may tear a row.

**RolloutBatch.** A group is its `group_index` and what its task returns is the number of its
samples that pass (or "an ABORTED sample", or an exception). The rollout coroutine yields to
tasks, transfers and evaluations only where the code awaits: filling and judging
are split into actions that nothing comes between (`Yields`). `remaining` is the code's
counter, kept apart from the tasks it is meant to count. Left out: partial rollout and its
protected tasks, the skill-read gate (off in all profiles), OPSD scoring and metrics,
multimodal data, the pause for weight updates, requeueing in fully-async mode (groups put
back enlarge the next fetch there). Between two steps the loop may wait for the trainer to use up
old partitions (`components/rollout.py:454-476`): a delay before `StartStep` that is taken to end.
`dropAllPass` is `RELAX_PAIR_ORACLE_GRPO_DROP_ALL_PASS`, off by default. A missing reward counts as an ABORTED sample. A late
task is seen to end in the drain, the first place that reads it. The drain returns only when
the cancelled tasks have ended: `wait_for` around their gather awaits its cancellation,
whatever the log line after it says; with `RELAX_ABORT_CANCEL_WAIT_SEC` of zero or less
(`sglang_rollout.py:1080-1086`, the setting `waits`) it returns at once, and leaves them behind
(`abandoned`). The task of a group is not the tasks of its samples: their gather has no
`return_exceptions` (line 1026), so the first sample that raises or is cancelled ends the
group's task while its siblings run on, past the end of the step (`strays`; nobody reads when they end, so a
group once in `strays` stays there). `MinDelta` is in passes.

**SlateCredit.** A group is a bag of samples with a score and the kinds of skill files read.
Fractions are exact: numerators over a denominator common to the group, so rounding and the
epsilon 1e-6 beside the standard deviation are not in the model. Scores are in [0, 1], which
makes the clip of the regret idle. Only skill files that were advertised count, which is part
of a sample's `reads`; a group without gold metadata raises and is not a state. The skill-group
bonus is off in every profile. The text of a turn in which reads are found is abstracted.

## 3. Runs

All bounds are CONSTANTS named in the module; counters that the code leaves unbounded
are bounded in guards and named `Max...`.

| Run | Instance | Shows |
| --- | --- | --- |
| `env_shared` | 2 samples of a task, 2 permits, 1 set-up permit, 2 attempts, 2 turns | TypeOK, AtMostOneGrade, InfraNeverTrains, PoisonIsReal, OneAttemptLeavesNothing |
| `env_live` | 2 samples, 1 permit each; one may be cancelled, the other may time out and fail its `docker rm` | KeepsContract (refinement of `RolloutContract`), TrainedIsGraded, StatusSettled, AllReturn, PermitsReturn |
| `env_leak` | 1 sample, 2 attempts | **violated**: NothingLeft |
| `shell` | host and Docker mode, 2 calls, 2 start tries, 3 processes | TypeOK, AnswerComplete, NextShellIdle, OrphanIsCutOff, ExecReturns |
| `shell_stale` | the same | **violated**: OutputIsOwn |
| `queue` | 2 tasks (symmetric), 2 invocations, 1 fault | TypeOK, OnePlace, NothingLost, SuccessIsComplete |
| `queue_live` | 1 task, 3 invocations, 2 faults | PipelineEnds |
| `queue_stop` | 1 task, no fault | **violated**: WorkerDrains |
| `launch` | 2 launchers, tasks {a1,a2}, {c1}, {c2}, 2 workers, window 1 | TypeOK, OneClaw, NoSlotBlocked, NoneDropped |
| `launch_resume` | 1 launcher, 2 tasks, 1 retry round, 2 invocations, 1 signal, one thread may raise | OkIsBacked, FinalNeverRerun, LauncherEnds |
| `batch` | 4 rows of 2 tasks, groups of 2, batches of 2, seven settings, 2 groups without a mixed outcome, 1 fault, 1 evaluation | TypeOK, SlotPerGroup, NeverWaitsOnNothing, NoGroupTwice, PartitionWhole, ArmsAgree, LeftoversUnused, KeepsGate (refinement of `AbortGate`), EverythingEnds |
| `credit` | 6 samples with scores 0, 1/2 or 1, 4 ways to read, a no-skill arm with scores of 5/2 in all, or none | TypeOK, OnlyRegretMovesGroup, BetterStratumGainsMore, VerifierDecides |

Why the bounds suffice. Two samples are enough for every interaction through a semaphore
of size one and through the shared set of tasks; two attempts are enough for "start after
teardown"; two turns for a grade in a turn that is not the first. Two calls and three
processes give a call that follows a restart that needed a second try. Two tasks and two
invocations give a batch that fails while another task is queued and is requeued later.
In `launch`, a window of one makes a task wait for another's end, two trials of a task
compete for its lock, and the two Claw trials belong to different launchers; the bench
caps (1 and 2) are part of the guard but never the reason a record waits there.
`ExecReturns` excuses the model's own limit on processes (`nproc = MaxProcs`).
In `batch` a batch of two, one speculative group and fetches of three force a refill, a
backlog of ready groups and a group that ends too late; two bad groups give a rescue by an
oracle arm after another drop, and exceed the limits of one dropped and one rejected group;
the setting without a filter runs two steps, requeues and does not wait for cancelled tasks. A
requeued group gets as far as the prefetch of the second step; that it is run again, and once, is
beyond these bounds and the matter of `NoGroupTwiceHolds`. The settings have `dropAllPass` on and off. One
evaluation meets an abort at every position of both. In `credit` six samples are the fewest
in which three strata of different sizes get out of balance; the clip is 1/3 because 1/2 (the
profile's, for eight samples) is out of reach of six.

Deadlock checking is off everywhere: batches, shells and launchers end.

Symmetry is used in `queue` only, which has no temporal property.

Fairness. `AgentEnv`: weak fairness of each coroutine and thread, since every await has
a bound of its own (HTTP and Docker timeouts, `wait_for`); none for timeouts and
cancellations, which need not happen. `PersistentShell`: weak fairness of the thread that
holds the lock, whose waits all have deadlines; none for commands. `TeacherQueue`: weak
fairness of the wrapper, the worker and each watcher; a launcher's trials all have
timeouts. `LaunchTrials`: weak fairness of the main thread, of each worker thread, and of
the end of a runner, which `--per-trial-timeout-sec` enforces. Nothing is assumed of the
operator. `RolloutBatch`: the event loop does not idle while any coroutine can go on, one weak
fairness over rollout, tasks, transfers and evaluations together; `generate` has its own time
limits (`AllReturn` of `AgentEnv`). Nobody has to ask for an evaluation.

## 4. What the violated runs say

* `env_leak`: `start()` sets the container name (`harbor_launcher.py:122`) and then may fail, when
  the tests are not copied (132-136). `reset` has no handle then, so it retries without a teardown
  (`env_agent_bench.py:408`), and the next `start()` overwrites the name. In the run both attempts
  fail in this way. The only teardown is that of `close()`; it removes the container of the
  second, and that of the first stays. (There is a second way, not this trace: if the tools fail
  after `start()`, `reset` does tear down, and teardown, which works once, is used up for the next
  attempt, line 189.)
* `shell_stale`: a bash whose init times out is not killed, and its reader goes on. In the run it
  answers late, and its reader puts the line into the shared queue after the next try drained the
  queue and started a bash of its own. The first call returns that line, the init sentinel of the
  first bash, as its output. Its exit code and its own lines are still right (AnswerComplete).
* `queue_stop`: the worker looks for files first and for STOP second; a file queued in
  between is left in the queue of a pipeline that reports success.

Known divergences that are not runs of their own (each can be seen by adding the named
definition as an INVARIANT to a cfg of its module):

* `TeacherQueue!NothingLostEver`: `.skipped.txt` is written before the queue file and is what
  the next watcher goes by; a kill in between loses the task's teacher records
  (`watch_phase1_teacher_queue.py:163`; lines 11-12 call the queue resumable from disk).
* `LaunchTrials!HolesRetried`, with a retry round: a retry round skips every trial with a final
  row, and the runner writes that row for trials that have no trajectory
  (`launch_trials.py:1086`; lines 31-33 promise them a retry).
* `RolloutBatch!FailFastLeavesNothing`, with the setting `OneSetting`: a step that fails over
  aborted groups, "failing fast instead of leaving a partial train partition"
  (`sglang_rollout.py:2043-2048`), has put its earlier transfers into the partition by then.
* "A stratum only wins when its observed task outcome is better in the same prompt group"
  (`slate_regret_stratified_gating.py:33-34`). With six samples, one of them no_read (1 of 1
  passes), two oracle (0 of 2), three misleading (1 of 3): misleading is at the average of the
  group (2 of 6), not better, and gets +1/54, because shrinkage unbalances the strata and
  re-centring lifts all of them.
  What does hold is BetterStratumGainsMore.
* With `MayTimeout` not empty, AtMostOneGrade of `AgentEnv` fails, because `close` asks for a
  grade while the abandoned step thread is in one.

## 5. Proofs

The theorems hold for every value of the constants that the modules' assumptions
(`...Assumption`) admit: any finite number of samples, tasks, trials, groups, evaluations,
calls, any caps and any bounds. None of the properties is inductive as it stands; each table
names the invariant that is, defined in the module of the proofs. Every step of an invariant's
proof is one action of the module.

| `AgentEnvProofs` | States | By |
| --- | --- | --- |
| `TypeCorrect`, `CapsHold` | `Spec => []TypeOK`, `[]CapsRespected` | `CapsInv` |
| `InfraNeverTrainsHolds` | `Spec => []InfraNeverTrains` | `FailureInv` |
| `TrainedIsGradedHolds` | `Spec => []TrainedIsGraded` | `Scored` |
| `StatusSettledHolds` | `Spec => StatusSettled`, an action property | `CapsInv` |
| `KeepsContractHolds` | `Spec => KeepsContract`: a rollout implements `RolloutContract` | all of them, and `UnjudgedInv` |

That a semaphore is not released beyond its initial value follows
from who holds it. `CapsInv` adds `Accounting` (permits left plus holders is the cap) and,
because a permit's holder is a position of a thread, `Handoff` (where the thread is while
the coroutine waits for it), `Counted` and `Closing` (when `close` runs). `ActiveStep` and
`SetupStep` show the accounting step by step from the lemma `SemStepAccounting` on one
semaphore, `TypeStep` and `HandoffStep` the rest. `FailureInv` and the invariant of
`ScoredStep` follow a sample from a failed or missing grade, position by position, to the
status `aborted`, which `Collect` drops; `RewardFinal` is needed because an abandoned
thread may still write the score. `SettledStep` shows that a thread that may write the
status is not the thread of a coroutine that returned a sample.

`RolloutContract` knows no semaphore, thread, container or call. Under the mapping in
`AgentEnv` most actions are stutters (`AsideStep`), and each of the others is one action of
the contract: `EnterStep` and `AsideStep` take the caps from `Accounting`, `LeaveStep` (a
sample leaves lost, rejected, or graded without a known failure) and `SettleStep` rest on
`ScoredInv` and `FailureInv`, `InsideStep` (no rejection is taken back) on `UnjudgedInv`: the turn
loop gives its verdict only as it ends. The contract lets a thread that was left behind
set a sandbox up, or write a grade, after its sample has left; it does not let it change the verdict.

| `AgentEnvProofs`, second half | States | Assumes |
| --- | --- | --- |
| `AtMostOneGradeHolds` | `Spec => []AtMostOneGrade` | `MayCancel = {}`, `MayTimeout = {}` |
| `PoisonIsRealHolds` | `Spec => []PoisonIsReal` | the same |
| `OneAttemptHolds` | `Spec => []OneAttemptLeavesNothing` | `MayCancel = {}`, `RmMayFail = {}` |

These are the assumptions of the run `env_shared`, as weak as the code allows: an abandoned step
may grade beside `close`, and may do so when the container is gone; a reset that was cancelled
may start a container after teardown. `Attached` and `Awaited` say that a thread has its
coroutine; on them rest `OneGrade`, `Here` (where the container is certain to be alive) and
`OneContainer`.

| `PersistentShellProofs` | States | By |
| --- | --- | --- |
| `TypeCorrect` | `Spec => []TypeOK` | `NumbersInv` |
| `NextShellIdleHolds` | `Spec => []NextShellIdle` | `WorkInv` |
| `OrphanIsCutOffHolds` | `Spec => []OrphanIsCutOff` | `WorkInv`, `TextInv` |
| `AnswerCompleteHolds` | `Spec => []AnswerComplete` | `SentinelInv`, `OutputInv` |

A sentinel carries the number of its call and passes from the input of a bash through its pipe
and its reader into the queue: `SentinelInv` says at each of these places whose sentinel may be
there and that its command has ended. `WorkInv` says what a live bash can be doing, `TextInv` that
no bash, dead or alive, has the command of a call that has its exit code, not even a bash in a
container whose `docker exec` is gone. `OutputInv`
counts the lines of a call along the same path: `Flow` says that what the command has written is
what the caller has, plus what is in the queue, in the reader's hands and in the pipe, in this
order, and that its sentinel comes after all of them. It starts when the call's text is read by the one bash that
can run it (`OwnBash`) and is cut only where the call ends or a restart drops it. The lemmas
`FlowOut` to `FlowLast` follow one line from place to place; lines are counted by the
cardinality of a set of positions, so that no recursion over sequences is needed.

| `TeacherQueueProofs` | States | By |
| --- | --- | --- |
| `TypeCorrect` | `Spec => []TypeOK` | `RunInv` |
| `OnePlaceHolds` | `Spec => []OnePlace` | `PlaceInv` |
| `NothingLostHolds` | `Spec => []NothingLost` | `KeptInv` |
| `SuccessIsCompleteHolds` | `Spec => []SuccessIsComplete` | `DoneInv` |

The watcher moves a task in several writes, so the invariants say for each task what the watcher
is about to write, and what a snapshot it has taken earlier still allows it to write.

| `LaunchTrialsProofs` | States | By |
| --- | --- | --- |
| `TypeCorrect` | `Spec => []TypeOK` | `TypeInv` |
| `OneClawHolds` | `Spec => []OneClaw` | `ClawInv` |
| `NoSlotBlockedHolds` | `Spec => []NoSlotBlocked` | `TypeInv` (`ActiveInv`) |
| `OkIsBackedHolds`, `FinalNeverRerunHolds` | `Spec => []OkIsBacked`, `Spec => FinalNeverRerun` | `DiskInv` |
| `NoneDroppedHolds` | `Spec => []NoneDropped` | `SchedInv` |

`ActiveInv` ties a thread's position to the launcher's table of active futures, `DiskInv` the
files to what each thread and runner has written so far, `SchedInv` says that a selected record
is in the window, in the queue, active or finished, in every phase of every round.

| `RolloutBatchProofs` | States | By |
| --- | --- | --- |
| `ImplementsGate`, `EvalNeverAborted` | `Spec => KeepsGate`: the engine implements `AbortGate` | `GateInv` |
| `PartitionWholeHolds` | `Spec => []PartitionWhole` | `DataInv` |

`GateInv` says what lock, flags and counter are at every position of a step; initial states map
to initial states and every action to an action of `AbortGate` or to a stutter (`NextKeeps`).
`DataInv` follows the accepted groups through batch, transfer and partition.

| `RolloutGroupProofs`, `RolloutSlotProofs` | States | By |
| --- | --- | --- |
| `NoGroupTwiceHolds` | `Spec => []NoGroupTwice` | `PlaceInv` |
| `LeftoversUnusedHolds` | `Spec => []LeftoversUnused` | `StrayInv`, `StepInv`, `PlaceInv` |
| `SlotPerGroupHolds`, `NeverWaitsOnNothingHolds` | `Spec => []SlotPerGroup`, `[]NeverWaitsOnNothing` | `SlotInv` |
| `TypeCorrect` | `Spec => []TypeOK` | `GateInv`, `CountTypes`, `GroupTypes`, `SlotInv` |
| `ArmsAgreeHolds` | `Spec => []ArmsAgree` | `ArmInv` |

Every action is first reduced to what it moves (`Moves`). `PlaceInv` is NoGroupTwice with what
keeps it through a fetch: the buffer repeats nothing, two pairs share no group (`PairsSeparate`:
rows of one task have different ranks), transfers carry accepted groups only. `StrayInv` is about the groups whose tasks
may go on: none is in a place from which a group is submitted, put back or trained, and one that the loop
has still to judge is one that raised. Being apart makes
the slots a sum of three cardinalities, which `SlotInv` equates with the counter; a filter step
that is full keeps slots of groups it skips, so there the counter is only an upper bound. A step
waits only with its capacity counted and its batch not full: one of those slots is a task's.
`ArmInv` rests on `NeverBack`: in the pair modes a judged group is in none of the places again,
so what was true of the no-skill group when its arm was submitted stays true. The type of the
counter (never negative) needs `SlotInv`.

| `SlateCreditProofs` | States | By |
| --- | --- | --- |
| `TypeCorrect` | `Spec => []TypeOK` | `CreditInv` |
| `BetterStratumHolds` | `Spec => []BetterStratumGainsMore` | the same |
| `OnlyRegretHolds` | `Spec => []OnlyRegretMovesGroup`, if `Coef.num > 0` | the same |
| `VerifierHolds` | `Spec => []VerifierDecides`, if `ClipIsSmall` | the same |

The sums of the model are the library's `SumFunctionOnSet`, a recursive function that takes the
members of a set in an order of its own. The first half of the module shows that the function
exists (`Recursion`), that its value does not depend on that order (`SumRemove`), and then
linearity, additivity over disjoint sets and monotonicity. The induction is `SetInduction`, stated
for a set of subsets, and not for an operator, and derived from the well-foundedness of `<`.
`CreditInv` says what each term of the credit is as a function of the
group; from there on it is algebra: `PerStratum` and `CentredCancel` for the sum of the credits,
`WithinClip` for the bound of each, `GapOrdersGain` for the order of two strata, `VarianceBound`
and `Outweighs` for the verifier. Two hypotheses are not in the module's assumption, because the
code takes the two numbers from environment variables as they are. With a coefficient of zero
or less the shift cannot have the sign of the regret. `ClipIsSmall` (clip² · Top² · N < N − 1) is
a sufficient condition: with scores that pass or fail it holds for the profile's clip of 1/2 and
every N from 2 on; with finer grades it asks for a smaller clip, as a loss of two clips may then
outweigh one step of the grading. The run satisfies it.

Only model-checked: all liveness (AllReturn, PermitsReturn, ExecReturns, PipelineEnds,
LauncherEnds, EverythingEnds), which needs fairness and ENABLED and is out of the prover's reach.
Every invariant and action property of a passing run has its theorem.

## 6. Not modelled

Inside modelled components: `--concurrent-trials`, `--allow-concurrent-claw` and
`--rerun-completed` of the launcher; `refresh_existing_teacher_queue` and the chunked order of
the pipeline; token work in the rollout (M1 cleaning is one step whose failure falls back);
`AGENT_BENCH_SKIP_CLOSE_GRADING_ON_ABORT` (`env_agent_bench.py:589-605`, off by default: with it an
aborted or truncated sample leaves `close` without a grade, and the reward function makes a zero of
that), and the default of its neighbour `..._ON_KNOWN_INFRA_TASK` is taken; a coefficient of the
stratum advantage other than 1 (`RELAX_SLATE_STRATIFIED_ADV_COEF`,
`slate_regret_stratified_gating.py:94-95`) and a clip of zero or less, which switches it off
(line 206): `VerifierDecides` rests on both, and on a training score that is the verifier's; the
staleness wait between two steps of the engine, which is a delay;
partial rollout, OPSD scoring and requeueing in fully-async mode of the engine.

Whole components, with the reasons in PROJECT.json's `components`. The Docker start gate is a
try-lock whose exclusion is the kernel's, and its hazard (the daemon still works for a dead
client) lies in the daemon. `run.json` is rewritten without a lock, which can lose an update, and
nothing is decided from it. The evaluation watcher and the GPU keepalive are single processes
that poll and act; the stale-container watcher decides by wall-clock age. The Claw services
are child processes and ports. The training losses are real arithmetic; the alignment of spans
with tokens is the tokenizer's. Collection, export, plans, retrieval and command line are
sequential filters over files. The vendored frameworks (nearly all of the repository's lines) are
third-party; of `Relax` only the engine that SkillGate changed is modelled.

What would come next: an abstract queue of tasks refined by `TeacherQueue`, and
requeueing in fully-async mode, which enlarges the next batch.
