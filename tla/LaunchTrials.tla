---------------------------- MODULE LaunchTrials ----------------------------
(***************************************************************************)
(* GeneralAgent/sft_data_collection/launch_trials.py: launchers that run   *)
(* the trials of a plan as subprocesses, with a scheduling loop            *)
(* (execute_pass), a worker thread per submitted trial (run_record), retry *)
(* rounds, and resumption after a kill.                                    *)
(*                                                                         *)
(* A trial leaves two things on disk: a trajectory file and a row in its   *)
(* incremental.jsonl.  They are written by the runner subprocess           *)
(* (run_unified_harbor.py is the one followed here), which a killed        *)
(* launcher leaves running.  Several launchers of one run share the        *)
(* .claw_global.lock and nothing else.                                     *)
(*                                                                         *)
(* The round-robin orders of the queues are abstracted: any record that    *)
(* the code would find submittable may be submitted next.                  *)
(***************************************************************************)
EXTENDS Integers, FiniteSets

CONSTANTS
    Launchers,
    Trials,
    OwnerOf,       \* the launcher whose plan holds the trial
    TaskOf,        \* the task of a trial
    Claw,          \* the trials of bench claw, serialized
    BenchOf,       \* the bench of a trial
    BenchCap,      \* --bench-cap of each bench
    Workers,       \* --workers
    TaskWindow,    \* --task-window, 0 for the legacy order
    RetryRounds,   \* --retry-rounds
    MaxLaunches,   \* bound: invocations of a launcher
    MaxSignals,    \* bound: Ctrl-C and kills of a launcher
    MayRaise       \* trials whose log or status file may not be writable

ASSUME LaunchTrialsAssumption ==
    /\ IsFiniteSet(Trials)
    /\ OwnerOf \in [Trials -> Launchers]
    /\ DOMAIN TaskOf = Trials /\ DOMAIN BenchOf = Trials
    /\ BenchCap \in [{BenchOf[t] : t \in Trials} -> Nat \ {0}]
    /\ Claw \subseteq Trials
    /\ \A t \in Claw, u \in Trials : BenchOf[u] = BenchOf[t] <=> u \in Claw
    /\ \A t, u \in Trials : TaskOf[t] = TaskOf[u] => BenchOf[t] = BenchOf[u]
    /\ MayRaise \subseteq Trials
    /\ Workers \in Nat \ {0}
    /\ {TaskWindow, RetryRounds, MaxLaunches, MaxSignals} \subseteq Nat

Tasks == {TaskOf[t] : t \in Trials}
Plan(l) == {t \in Trials : OwnerOf[t] = l}

VARIABLES
    launches,   \* invocations so far
    signals,    \* signals so far
    pc,         \* position of the main thread of each launcher
    stop,       \* stop_event
    round,      \* retry round, 0 in the main pass
    selected,   \* records this invocation selected
    todo,       \* records of this pass not submitted yet
    waiting,    \* pending_tasks
    open,       \* open_tasks
    th,         \* position of the worker thread of a submitted trial
    rc,         \* did its attempt end with return code 0?
    res,        \* statuses[trial_id]
    runner,     \* position of the runner the thread of a trial waits for
    strays,     \* runners a killed launcher left: trial, launch, position
    orphaned,   \* history: trials that ever had such a runner
    traj,       \* trials whose trajectory file exists
    row         \* last line of the trial's incremental.jsonl

schedVars == <<selected, todo, waiting, open>>
threadVars == <<th, rc, res>>
runVars == <<runner, strays, orphaned>>
diskVars == <<traj, row>>
vars == <<launches, signals, pc, stop, round, schedVars, threadVars, runVars, diskVars>>

Active(l) == {t \in Plan(l) : th[t] # "none"}

Init ==
    /\ launches = [l \in Launchers |-> 0]
    /\ signals = [l \in Launchers |-> 0]
    /\ pc = [l \in Launchers |-> "off"]
    /\ stop = [l \in Launchers |-> FALSE]
    /\ round = [l \in Launchers |-> 0]
    /\ selected = [l \in Launchers |-> {}]
    /\ todo = [l \in Launchers |-> {}]
    /\ waiting = [l \in Launchers |-> {}]
    /\ open = [l \in Launchers |-> {}]
    /\ th = [t \in Trials |-> "none"]
    /\ rc = [t \in Trials |-> FALSE]
    /\ res = [t \in Trials |-> "none"]
    /\ runner = [t \in Trials |-> "off"]
    /\ strays = {}
    /\ orphaned = {}
    /\ traj = {}
    /\ row = [t \in Trials |-> "none"]

-----------------------------------------------------------------------------
(* The main thread.                                                        *)

\* filter_records: skip the trials whose last incremental line parses.
Selection(l) == {t \in Plan(l) : row[t] # "final"}

\* A task that is opened stays pending.
FaultyFillWindow(l, w, o) ==
    \E f \in SUBSET w :
        /\ Cardinality(f) <= TaskWindow - Cardinality(o)
        /\ waiting' = [waiting EXCEPT ![l] = w]
        /\ open' = [open EXCEPT ![l] = o \cup f]
\* fill_task_window of execute_pass.
FillWindow(l, w, o) ==
    \E f \in SUBSET w :
        /\ Cardinality(f) = IF Cardinality(w) < TaskWindow - Cardinality(o)
                            THEN Cardinality(w) ELSE TaskWindow - Cardinality(o)
        /\ waiting' = [waiting EXCEPT ![l] = w \ f]
        /\ open' = [open EXCEPT ![l] = o \cup f]

Windowed(l) == TaskWindow > 0 /\ round[l] = 0

Launch(l) ==
    /\ pc[l] \in {"off", "ended", "failed"}
    /\ launches[l] < MaxLaunches
    /\ launches' = [launches EXCEPT ![l] = @ + 1]
    /\ stop' = [stop EXCEPT ![l] = FALSE]
    /\ round' = [round EXCEPT ![l] = 0]
    /\ selected' = [selected EXCEPT ![l] = Selection(l)]
    /\ todo' = [todo EXCEPT ![l] = Selection(l)]
    /\ IF TaskWindow > 0
       THEN FillWindow(l, {TaskOf[t] : t \in Selection(l)}, {})
       ELSE UNCHANGED <<waiting, open>>
    /\ res' = [t \in Trials |-> IF OwnerOf[t] = l THEN "none" ELSE res[t]]
    /\ pc' = [pc EXCEPT ![l] = IF Selection(l) = {} THEN "ended" ELSE "enter"]
    /\ UNCHANGED <<signals, th, rc, runVars, diskVars>>

\* submit_ready looks at stop_event once, as it is entered.
SubmitEnter(l) ==
    /\ pc[l] = "enter"
    /\ IF stop[l]
       THEN /\ todo' = [todo EXCEPT ![l] = {}]
            /\ waiting' = [waiting EXCEPT ![l] = {}]
            /\ open' = [open EXCEPT ![l] = {}]
            /\ pc' = [pc EXCEPT ![l] = "wait"]
       ELSE /\ pc' = [pc EXCEPT ![l] = "submit"]
            /\ UNCHANGED <<todo, waiting, open>>
    /\ UNCHANGED <<launches, signals, stop, round, selected, threadVars, runVars,
                   diskVars>>

Busy(l, k) == \E t \in Active(l) : TaskOf[t] = k

\* Is the bench below its cap and, in a window, the task of the trial open?
Admitted(l, t) ==
    /\ Cardinality({u \in Active(l) : BenchOf[u] = BenchOf[t]}) < BenchCap[BenchOf[t]]
    /\ Windowed(l) => TaskOf[t] \in open[l]

\* A sibling may be submitted while a trial of the task is active.
FaultyReady(l) == {t \in todo[l] : Admitted(l, t)}
\* The records submit_ready may submit: no trial of their task is active.
Ready(l) == {t \in todo[l] : Admitted(l, t) /\ ~Busy(l, TaskOf[t])}

Submit(l, t) ==
    /\ pc[l] = "submit"
    /\ Cardinality(Active(l)) < Workers
    /\ t \in Ready(l)
    /\ todo' = [todo EXCEPT ![l] = @ \ {t}]
    /\ th' = [th EXCEPT ![t] = "queued"]
    /\ UNCHANGED <<launches, signals, pc, stop, round, selected, waiting, open, rc, res,
                   runVars, diskVars>>

\* A task leaves the window between two of its trials.
FaultyExhausted(l) == {k \in open[l] : ~Busy(l, k)}
\* The open tasks that have neither queued nor active trials.
Exhausted(l) ==
    {k \in open[l] : ~Busy(l, k) /\ \A t \in todo[l] : TaskOf[t] # k}

CloseTask(l, k) ==
    /\ pc[l] = "submit"
    /\ Windowed(l)
    /\ Cardinality(Active(l)) < Workers
    /\ k \in Exhausted(l)
    /\ FillWindow(l, waiting[l], open[l] \ {k})
    /\ UNCHANGED <<launches, signals, pc, stop, round, selected, todo, threadVars,
                   runVars, diskVars>>

SubmitEnd(l) ==
    /\ pc[l] = "submit"
    /\ \/ Cardinality(Active(l)) >= Workers
       \/ Ready(l) = {} /\ (Windowed(l) => Exhausted(l) = {})
    /\ pc' = [pc EXCEPT ![l] = "wait"]
    /\ UNCHANGED <<launches, signals, stop, round, schedVars, threadVars, runVars,
                   diskVars>>

\* A future that ended with an exception is left in the active set.
FaultyCollect(l) ==
    LET ready == {t \in Active(l) : th[t] = "done"} IN
    /\ pc[l] = "wait"
    /\ ready # {}
    /\ th' = [t \in Trials |-> IF t \in ready THEN "none" ELSE th[t]]
    /\ pc' = [pc EXCEPT ![l] = "enter"]
    /\ UNCHANGED <<launches, signals, stop, round, schedVars, rc, res, runVars,
                   diskVars>>
\* wait(FIRST_COMPLETED): all futures that are done leave the active set.  The
\* exception of one of them ends the loop; leaving the executor's block waits
\* for the rest.
Collect(l) ==
    LET ready == {t \in Active(l) : th[t] \in {"done", "raised"}} IN
    /\ pc[l] = "wait"
    /\ ready # {}
    /\ th' = [t \in Trials |-> IF t \in ready THEN "none" ELSE th[t]]
    /\ pc' = [pc EXCEPT ![l] = IF \E t \in ready : th[t] = "raised" THEN "draining"
                               ELSE "enter"]
    /\ UNCHANGED <<launches, signals, stop, round, schedVars, rc, res, runVars,
                   diskVars>>

Drained(l) ==
    /\ pc[l] = "draining"
    /\ \A t \in Active(l) : th[t] \in {"done", "raised"}
    /\ th' = [t \in Trials |-> IF OwnerOf[t] = l THEN "none" ELSE th[t]]
    /\ pc' = [pc EXCEPT ![l] = "failed"]
    /\ UNCHANGED <<launches, signals, stop, round, schedVars, rc, res, runVars,
                   diskVars>>

\* Whatever failed is tried again.
FaultyRetryable(l) == {t \in selected[l] : res[t] = "failed"}
\* retryable_records.
Retryable(l) == {t \in selected[l] : res[t] = "failed" /\ row[t] # "final"}

\* The pass is over: one more round, in the legacy order, or the end.
PassEnd(l) ==
    /\ pc[l] = "wait"
    /\ Active(l) = {}
    /\ IF round[l] < RetryRounds /\ ~stop[l] /\ Retryable(l) # {}
       THEN /\ round' = [round EXCEPT ![l] = @ + 1]
            /\ todo' = [todo EXCEPT ![l] = Retryable(l)]
            /\ pc' = [pc EXCEPT ![l] = "enter"]
       ELSE /\ pc' = [pc EXCEPT ![l] = "ended"]
            /\ UNCHANGED <<round, todo>>
    /\ UNCHANGED <<launches, signals, stop, selected, waiting, open, threadVars,
                   runVars, diskVars>>

\* The first Ctrl-C sets stop_event.  The second raises SystemExit in the main
\* thread, which still waits for the threads of the executor.
Sigint(l) ==
    /\ signals[l] < MaxSignals
    /\ signals' = [signals EXCEPT ![l] = @ + 1]
    /\ pc[l] \in {"enter", "submit", "wait"}
    /\ stop' = [stop EXCEPT ![l] = TRUE]
    /\ pc' = IF stop[l] THEN [pc EXCEPT ![l] = "draining"] ELSE pc
    /\ UNCHANGED <<launches, round, schedVars, threadVars, runVars, diskVars>>

\* The launcher is killed.
Killed(l) ==
    /\ signals[l] < MaxSignals
    /\ signals' = [signals EXCEPT ![l] = @ + 1]
    /\ pc[l] \in {"enter", "submit", "wait", "draining"}
    /\ pc' = [pc EXCEPT ![l] = "off"]
    /\ th' = [t \in Trials |-> IF OwnerOf[t] = l THEN "none" ELSE th[t]]
    /\ runner' = [t \in Trials |-> IF OwnerOf[t] = l THEN "off" ELSE runner[t]]
    /\ UNCHANGED <<launches, stop, round, schedVars, rc, res, traj>>

StillRunning(l) == {t \in Plan(l) : runner[t] # "off"}

\* Alone: its runners go on.
Kill(l) ==
    /\ Killed(l)
    /\ strays' = strays \cup {<<t, launches[l], runner[t]>> : t \in StillRunning(l)}
    /\ orphaned' = orphaned \cup StillRunning(l)
    /\ UNCHANGED row

\* With its runners, in the middle of a write perhaps.
Crash(l) ==
    /\ Killed(l)
    /\ \E torn \in SUBSET {t \in Plan(l) : runner[t] = "saved"} :
          row' = [t \in Trials |-> IF t \in torn THEN "torn" ELSE row[t]]
    /\ UNCHANGED <<strays, orphaned>>

-----------------------------------------------------------------------------
(* run_record, in the worker thread of trial t.                            *)

Holding == {"flock", "run"}

\* claw_lock or the lock of the task, within one launcher.
SameLock(t, u) == {t, u} \subseteq Claw \/ TaskOf[t] = TaskOf[u]
LockFree(t) ==
    \A u \in Active(OwnerOf[t]) \ {t} : th[u] \in Holding => ~SameLock(t, u)

\* Each launcher has a lock file of its own.
FaultyFileLockFree(t) ==
    \A u \in Claw : th[u] = "run" => OwnerOf[u] # OwnerOf[t]
\* .claw_global.lock, across the launchers of the run.
FileLockFree(t) == \A u \in Claw : th[u] # "run"

\* stop_event is looked at before the lock is asked for...
RecordBegin(t) ==
    /\ th[t] = "queued"
    /\ IF stop[OwnerOf[t]]
       THEN th' = [th EXCEPT ![t] = "done"] /\ res' = [res EXCEPT ![t] = "skipped"]
       ELSE th' = [th EXCEPT ![t] = "lock"] /\ UNCHANGED res
    /\ UNCHANGED <<launches, signals, pc, stop, round, schedVars, rc, runVars,
                   diskVars>>

RecordLock(t) ==
    /\ th[t] = "lock"
    /\ LockFree(t)
    /\ th' = [th EXCEPT ![t] = "flock"]
    /\ UNCHANGED <<launches, signals, pc, stop, round, schedVars, rc, res, runVars,
                   diskVars>>

\* ...and again once both locks are held.  Docker may be unavailable for longer
\* than wait_for_docker waits: then no runner is started.
RecordStart(t) ==
    /\ th[t] = "flock"
    /\ t \in Claw => FileLockFree(t)
    /\ \/ /\ stop[OwnerOf[t]]
          /\ th' = [th EXCEPT ![t] = "done"]
          /\ res' = [res EXCEPT ![t] = "skipped"]
          /\ UNCHANGED runner
       \/ /\ ~stop[OwnerOf[t]]
          /\ th' = [th EXCEPT ![t] = "check"]
          /\ UNCHANGED <<res, runner>>
       \/ /\ ~stop[OwnerOf[t]]
          /\ th' = [th EXCEPT ![t] = "run"]
          /\ runner' = [runner EXCEPT ![t] = "agent"]
          /\ UNCHANGED res
    /\ UNCHANGED <<launches, signals, pc, stop, round, schedVars, rc, strays, orphaned,
                   diskVars>>

\* The return code alone is believed.
FaultyVerdict(t) == IF rc[t] THEN "ok" ELSE "failed"
\* Return code 0 without a trajectory or a final row is a failure.
Verdict(t) == IF rc[t] /\ t \in traj /\ row[t] = "final" THEN "ok" ELSE "failed"

\* Classify the attempt and append a row to status.jsonl.
RecordStatus(t) ==
    /\ th[t] = "check"
    /\ th' = [th EXCEPT ![t] = "done"]
    /\ res' = [res EXCEPT ![t] = Verdict(t)]
    /\ rc' = [rc EXCEPT ![t] = FALSE]
    /\ UNCHANGED <<launches, signals, pc, stop, round, schedVars, runVars, diskVars>>

\* The log or the status file cannot be written: run_record raises.
RecordRaise(t) ==
    /\ t \in MayRaise
    /\ \/ th[t] = "check"
       \/ th[t] = "flock" /\ ~stop[OwnerOf[t]] /\ (t \in Claw => FileLockFree(t))
    /\ th' = [th EXCEPT ![t] = "raised"]
    /\ rc' = [rc EXCEPT ![t] = FALSE]
    /\ UNCHANGED <<launches, signals, pc, stop, round, schedVars, res, runVars,
                   diskVars>>

-----------------------------------------------------------------------------
(* The runner: first the agent works, then the trajectory is written, then *)
(* the row is appended, then it exits with return code 0.                  *)

\* Write the trajectory, if the agent got to run: a task that fails before has
\* none, and is a result like another.
SaveTrajectory(t) == traj' \in {traj, traj \cup {t}}

\* After a torn line the two make one that does not parse.
AppendRow(t) == row' = [row EXCEPT ![t] = IF @ = "torn" THEN "none" ELSE "final"]

RunnerSave(t) ==
    /\ runner[t] = "agent"
    /\ runner' = [runner EXCEPT ![t] = "saved"]
    /\ SaveTrajectory(t)
    /\ UNCHANGED <<launches, signals, pc, stop, round, schedVars, threadVars, strays,
                   orphaned, row>>

RunnerRow(t) ==
    /\ runner[t] = "saved"
    /\ runner' = [runner EXCEPT ![t] = "rowed"]
    /\ AppendRow(t)
    /\ UNCHANGED <<launches, signals, pc, stop, round, schedVars, threadVars, strays,
                   orphaned, traj>>

\* The thread that waits for the runner learns how it ended.
Reap(t, zero) ==
    /\ runner' = [runner EXCEPT ![t] = "off"]
    /\ th' = [th EXCEPT ![t] = "check"]
    /\ rc' = [rc EXCEPT ![t] = zero]
    /\ UNCHANGED <<launches, signals, pc, stop, round, schedVars, res, strays, orphaned,
                   traj>>

RunnerExit(t) ==
    /\ runner[t] = "rowed"
    /\ Reap(t, TRUE)
    /\ UNCHANGED row

\* It dies of an error of its own, of the Ctrl-C, or because subprocess.run kills
\* it after --per-trial-timeout-sec; perhaps while it writes the row.
RunnerDie(t) ==
    /\ runner[t] # "off"
    /\ Reap(t, FALSE)
    /\ \/ runner[t] = "saved" /\ row' = [row EXCEPT ![t] = "torn"]
       \/ UNCHANGED row

\* A runner nobody waits for goes the same way, without a timeout.
Stray(t, n, at) ==
    LET moved(to) == strays' = (strays \ {<<t, n, at>>}) \cup {<<t, n, to>>}
        gone == strays' = strays \ {<<t, n, at>>} IN
    /\ <<t, n, at>> \in strays
    /\ \/ at = "agent" /\ moved("saved") /\ SaveTrajectory(t) /\ UNCHANGED row
       \/ at = "saved" /\ moved("rowed") /\ AppendRow(t) /\ UNCHANGED traj
       \/ at = "saved" /\ gone /\ row' = [row EXCEPT ![t] = "torn"] /\ UNCHANGED traj
       \/ gone /\ UNCHANGED diskVars
    /\ UNCHANGED <<launches, signals, pc, stop, round, schedVars, threadVars, runner,
                   orphaned>>

-----------------------------------------------------------------------------
Main(l) ==
    \/ SubmitEnter(l) \/ SubmitEnd(l) \/ Collect(l) \/ Drained(l) \/ PassEnd(l)
    \/ \E t \in Plan(l) : Submit(l, t)
    \/ \E k \in Tasks : CloseTask(l, k)

Thread(t) == RecordBegin(t) \/ RecordLock(t) \/ RecordStart(t) \/ RecordStatus(t)

Runner(t) == RunnerSave(t) \/ RunnerRow(t) \/ RunnerExit(t) \/ RunnerDie(t)

Next ==
    \/ \E l \in Launchers : Launch(l) \/ Main(l) \/ Sigint(l) \/ Kill(l) \/ Crash(l)
    \/ \E t \in Trials : Thread(t) \/ RecordRaise(t) \/ Runner(t)
    \/ \E s \in strays : Stray(s[1], s[2], s[3])

Spec == Init /\ [][Next]_vars

\* Threads are scheduled, and a runner ends: its timeout kills it.  Nothing makes an
\* operator start a launcher.
FairSpec ==
    /\ Spec
    /\ \A l \in Launchers : WF_vars(Main(l))
    /\ \A t \in Trials : WF_vars(Thread(t)) /\ WF_vars(RunnerExit(t) \/ RunnerDie(t))

-----------------------------------------------------------------------------
(* Properties.                                                             *)

RunnerPos == {"agent", "saved", "rowed"}
ThPos == {"none", "queued", "lock", "flock", "run", "check", "done", "raised"}

\* Every variable keeps its type.
TypeOK ==
    /\ launches \in [Launchers -> 0..MaxLaunches]
    /\ signals \in [Launchers -> 0..MaxSignals]
    /\ pc \in [Launchers -> {"off", "enter", "submit", "wait", "draining", "ended", "failed"}]
    /\ stop \in [Launchers -> BOOLEAN]
    /\ round \in [Launchers -> 0..RetryRounds]
    /\ \A l \in Launchers : todo[l] \subseteq selected[l] /\ selected[l] \subseteq Plan(l)
    /\ {waiting, open} \subseteq [Launchers -> SUBSET Tasks]
    /\ \A l \in Launchers : open[l] \cap waiting[l] = {}
    /\ th \in [Trials -> ThPos]
    /\ rc \in [Trials -> BOOLEAN]
    /\ res \in [Trials -> {"none", "ok", "failed", "skipped"}]
    /\ \A t \in Trials : IF th[t] = "run" THEN runner[t] \in RunnerPos
                                             ELSE runner[t] = "off"
    /\ strays \subseteq Trials \X (1..MaxLaunches) \X RunnerPos
    /\ {s[1] : s \in strays} \subseteq orphaned
    /\ {orphaned, traj} \subseteq SUBSET Trials
    /\ row \in [Trials -> {"none", "torn", "final"}]

\* Two launchers of one run never wait for Claw runners at the same time.  (The
\* runner of a killed launcher goes on without the lock: it is in strays.)
OneClaw == Cardinality({t \in Claw : th[t] = "run"}) <= 1

\* The scheduler never lets a worker wait for the lock of a task: only the one
\* lock of all Claw trials is ever contended.
NoSlotBlocked == \A t \in Trials : th[t] = "lock" /\ t \notin Claw => LockFree(t)

\* A launcher that was not interrupted has tried every record it selected: none is
\* stranded in the window or in the queue of a pass.
NoneDropped ==
    \A l \in Launchers :
        pc[l] = "ended" /\ ~stop[l] => \A t \in selected[l] : res[t] \in {"ok", "failed"}

\* A trial reported as done has a trajectory and a final row on disk (unless a runner
\* of a killed launcher writes to the same files).
OkIsBacked ==
    \A t \in Trials :
        res[t] = "ok" /\ t \notin orphaned => t \in traj /\ row[t] = "final"

\* No launcher, resumed or in a retry round, runs a trial again whose final row
\* exists: pass@k counts one row for each trial.
FinalNeverRerun ==
    [][\A t \in Trials :
          runner[t] = "off" /\ runner'[t] # "off" /\ t \notin orphaned =>
              row[t] # "final"]_vars

\* A launcher that is not killed ends.
LauncherEnds ==
    \A l \in Launchers : pc[l] \in {"enter", "submit", "wait", "draining"} ~>
        pc[l] \in {"ended", "failed", "off"}

\* "trials that failed at the launcher level AND left no trajectory on disk ... are
\* requeued for up to N extra rounds" (launch_trials.py, lines 31-33).
HolesRetried ==
    \A l \in Launchers :
        pc[l] = "ended" /\ ~stop[l] /\ round[l] < RetryRounds =>
            \A t \in selected[l] : res[t] = "failed" => t \in traj

=============================================================================
