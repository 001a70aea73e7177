---------------------------- MODULE TeacherQueue ----------------------------
(***************************************************************************)
(* The streaming SFT collection pipeline: the wrapper                      *)
(* ops/workflows/sft_data_collection/run_sft_pipeline.sh, the watcher      *)
(* GeneralAgent/sft_data_collection/watch_phase1_teacher_queue.py and the  *)
(* wrapper's background phase2_worker, which pass one file per task        *)
(* through the directories queue, running and done.                        *)
(*                                                                         *)
(* The Phase 1 launcher is seen through what it leaves on disk (p1); the   *)
(* launcher itself is LaunchTrials.  An invocation of the wrapper ends,    *)
(* fails or is killed with all its children, and may be started again with *)
(* the same RUN_ID.                                                        *)
(*                                                                         *)
(* The script runs under `set -Eeuo pipefail` with an ERR trap that exits. *)
(* `set +e` does not disable that trap, so a failing launcher, in Phase 1  *)
(* or in a batch of the worker, ends in on_error: the branch that would    *)
(* move a failed batch to FAILED_DIR is never reached, and the directory   *)
(* is always empty.                                                        *)
(***************************************************************************)
EXTENDS Integers, FiniteSets

CONSTANTS
    Tasks,
    BatchTasks,     \* PHASE2_BATCH_TASKS
    MaxRuns,        \* bound: invocations of the wrapper
    MaxFailures,    \* bound: launchers of Phase 1 that exit with an error
    MaxCrashes,     \* bound: invocations killed
    MaxFaults       \* bound: both together

ASSUME TeacherQueueAssumption ==
    /\ IsFiniteSet(Tasks)
    /\ BatchTasks \in Nat \ {0}
    /\ MaxRuns \in Nat
    /\ {MaxFailures, MaxCrashes, MaxFaults} \subseteq Nat

Runs == 1..MaxRuns

VARIABLES
    p1,          \* what Phase 1 has left on disk of each task
    skipped,     \* tasks with a .skipped.txt file
    reflection,  \* tasks with a teacher file in REFLECTION_DIR
    queue,       \* tasks with a file in QUEUE_DIR
    running,     \* ... in RUNNING_DIR
    done,        \* ... in DONE_DIR
    stop,        \* QUEUE_DIR/STOP exists
    p1done,      \* PHASE1_DONE exists
    run,         \* invocations so far
    crashes,     \* invocations killed so far
    orphans,     \* history: invocations that ended without their watcher
    pc,          \* position of the wrapper
    wat,         \* position of the watcher of each invocation
    processed,   \* its processed set
    seen,        \* its last snapshot: tasks with a status row for every trial
    sweep,       \* tasks its sweep has still to visit
    cur,         \* the tasks it is handling: at most one
    progress,    \* its made_progress
    kpc,         \* position of the worker
    found,       \* files its find listed
    claimed,     \* files it has moved to RUNNING_DIR
    owed         \* history: tasks judged to need the teacher

diskVars == <<skipped, reflection, queue, running, done>>
watVars == <<wat, processed, seen, sweep, cur, progress>>
workVars == <<kpc, found, claimed>>
runVars == <<run, crashes, orphans>>
vars == <<p1, diskVars, stop, p1done, runVars, pc, watVars, workVars, owed>>

\* open: a trial has no status row.  hole: all have, one left no trajectory.
\* partial: all left a trajectory, none resolved, one without a final row.
Phase1 == {"open", "hole", "partial", "resolved", "unresolved"}
Terminal == {"partial", "resolved", "unresolved"}

Init ==
    /\ p1 = [t \in Tasks |-> "open"]
    /\ skipped = {} /\ reflection = {}
    /\ queue = {} /\ running = {} /\ done = {}
    /\ stop = FALSE
    /\ p1done = FALSE
    /\ run = 0
    /\ crashes = 0
    /\ orphans = {}
    /\ pc = "off"
    /\ wat = [i \in Runs |-> "off"]
    /\ processed = [i \in Runs |-> {}]
    /\ seen = [i \in Runs |-> {}]
    /\ sweep = [i \in Runs |-> {}]
    /\ cur = [i \in Runs |-> {}]
    /\ progress = [i \in Runs |-> FALSE]
    /\ kpc = "off"
    /\ found = {}
    /\ claimed = {}
    /\ owed = {}

-----------------------------------------------------------------------------
(* The wrapper.                                                            *)

Start ==
    /\ pc \in {"off", "failure"}
    /\ run < MaxRuns
    /\ run' = run + 1
    /\ stop' = FALSE
    /\ pc' = "requeue"
    /\ UNCHANGED <<p1, diskVars, p1done, crashes, orphans, watVars, workVars, owed>>

\* Files an earlier invocation left in RUNNING_DIR.
Stale == running \ (done \cup queue)

RequeueRunning(t) ==
    /\ pc = "requeue"
    /\ t \in Stale
    /\ running' = running \ {t}
    /\ queue' = queue \cup {t}
    /\ UNCHANGED <<p1, skipped, reflection, done, stop, p1done, runVars, pc,
                   watVars, workVars, owed>>

\* A new watcher looks only at the files still to be launched.
FaultyKnown == queue \cup running
\* A new watcher skips the tasks that have a file anywhere.
Known == queue \cup running \cup done \cup reflection \cup skipped

\* Start the worker, the watcher and the launcher.
BeginPhases ==
    /\ pc = "requeue"
    /\ Stale = {}
    /\ kpc' = "find"
    /\ p1done' = FALSE
    /\ wat' = [wat EXCEPT ![run] = "sleep"]
    /\ processed' = [processed EXCEPT ![run] = Known]
    /\ pc' = "phase1"
    /\ UNCHANGED <<p1, diskVars, stop, runVars, seen, sweep, cur, progress, found,
                   claimed, owed>>

\* The launcher attempts trials of t, the first time or in a retry round; a
\* trial without a final row is attempted again even if it left a trajectory.
Attempt(t) ==
    /\ pc = "phase1"
    /\ \/ p1[t] \in {"open", "hole"} /\ \E x \in Phase1 \ {"open"} : p1' = [p1 EXCEPT ![t] = x]
       \/ p1[t] = "partial" /\ \E x \in {"resolved", "unresolved"} : p1' = [p1 EXCEPT ![t] = x]
    /\ UNCHANGED <<diskVars, stop, p1done, runVars, pc, watVars, workVars, owed>>

\* The launcher exits, whether or not every trial has succeeded.
LaunchEnd ==
    /\ pc = "phase1"
    /\ p1done' = TRUE
    /\ pc' = "waitWatcher"
    /\ UNCHANGED <<p1, diskVars, stop, runVars, watVars, workVars, owed>>

MayFault == Cardinality(orphans) + crashes < MaxFaults

\* on_error in the middle of Phase 1: the watcher is not told.
LaunchFail ==
    /\ Cardinality(orphans) < MaxFailures
    /\ MayFault
    /\ pc = "phase1"
    /\ stop' = TRUE
    /\ orphans' = orphans \cup {run}
    /\ pc' = "errWait"
    /\ UNCHANGED <<p1, diskVars, p1done, run, crashes, watVars, workVars, owed>>

\* The trap exits without telling the worker.
FaultyWatcherEnded ==
    /\ pc = "waitWatcher"
    /\ \/ wat[run] = "ended" /\ pc' = "waitWorker" /\ stop' = TRUE
       \/ wat[run] = "gaveUp" /\ pc' = "errWait" /\ UNCHANGED stop
    /\ UNCHANGED <<p1, diskVars, p1done, runVars, watVars, workVars, owed>>

\* The exit status of the watcher is lost in the pipe to tee.
FaultyWatcherStatus ==
    /\ pc = "waitWatcher"
    /\ wat[run] \in {"ended", "gaveUp"}
    /\ pc' = "waitWorker"
    /\ stop' = TRUE
    /\ UNCHANGED <<p1, diskVars, p1done, runVars, watVars, workVars, owed>>

\* wait for the watcher, then touch STOP; exit status 2 goes to on_error, which
\* touches it too.
WatcherEnded ==
    /\ pc = "waitWatcher"
    /\ \/ wat[run] = "ended" /\ pc' = "waitWorker"
       \/ wat[run] = "gaveUp" /\ pc' = "errWait"
    /\ stop' = TRUE
    /\ UNCHANGED <<p1, diskVars, p1done, runVars, watVars, workVars, owed>>

WorkerEnded ==
    /\ pc \in {"waitWorker", "errWait"}
    /\ kpc \in {"ended", "failed"}
    /\ pc' = IF pc = "waitWorker" /\ kpc = "ended" THEN "success" ELSE "failure"
    /\ UNCHANGED <<p1, diskVars, stop, p1done, runVars, watVars, workVars, owed>>

\* The host or the session dies with every process of the pipeline.
Crash ==
    /\ crashes < MaxCrashes
    /\ MayFault
    /\ pc \notin {"off", "success"}
    /\ crashes' = crashes + 1
    /\ pc' = "off"
    /\ wat' = [i \in Runs |-> "off"]
    /\ processed' = [i \in Runs |-> {}]
    /\ seen' = [i \in Runs |-> {}]
    /\ sweep' = [i \in Runs |-> {}]
    /\ cur' = [i \in Runs |-> {}]
    /\ progress' = [i \in Runs |-> FALSE]
    /\ kpc' = "off"
    /\ found' = {}
    /\ claimed' = {}
    /\ UNCHANGED <<p1, diskVars, stop, p1done, run, orphans, owed>>

-----------------------------------------------------------------------------
(* The watcher of invocation i.                                            *)

\* Read status.jsonl and start a sweep over the plan.
WatchPoll(i) ==
    /\ wat[i] = "sleep"
    /\ seen' = [seen EXCEPT ![i] = {t \in Tasks : p1[t] # "open"}]
    /\ sweep' = [sweep EXCEPT ![i] = Tasks]
    /\ progress' = [progress EXCEPT ![i] = FALSE]
    /\ wat' = [wat EXCEPT ![i] = "sweep"]
    /\ UNCHANGED <<p1, diskVars, stop, p1done, runVars, pc, processed, cur, workVars,
                   owed>>

\* build_teacher_records looks at the trajectories and results of the task now.
WatchVisit(i, t) ==
    /\ wat[i] = "sweep"
    /\ t \in sweep[i]
    /\ sweep' = [sweep EXCEPT ![i] = @ \ {t}]
    /\ IF t \in seen[i] \ processed[i] /\ p1[t] \in Terminal
       THEN /\ cur' = [cur EXCEPT ![i] = {t}]
            /\ wat' = [wat EXCEPT ![i] = IF p1[t] = "resolved" THEN "skip" ELSE "judge"]
       ELSE UNCHANGED <<cur, wat>>
    /\ UNCHANGED <<p1, diskVars, stop, p1done, runVars, pc, processed, seen, progress,
                   workVars, owed>>

\* The task is dealt with.
Processed(i) ==
    /\ processed' = [processed EXCEPT ![i] = @ \cup cur[i]]
    /\ progress' = [progress EXCEPT ![i] = TRUE]
    /\ cur' = [cur EXCEPT ![i] = {}]
    /\ wat' = [wat EXCEPT ![i] = "sweep"]

\* The .skipped.txt file comes first, with or without teacher records.
WatchSkip(i) ==
    /\ \/ wat[i] = "skip" /\ Processed(i) /\ UNCHANGED owed
       \/ /\ wat[i] = "judge"
          /\ wat' = [wat EXCEPT ![i] = "reflect"]
          /\ owed' = owed \cup cur[i]
          /\ UNCHANGED <<processed, progress, cur>>
    /\ skipped' = skipped \cup cur[i]
    /\ UNCHANGED <<p1, reflection, queue, running, done, stop, p1done, runVars, pc,
                   seen, sweep, workVars>>

WatchReflect(i) ==
    /\ wat[i] = "reflect"
    /\ reflection' = reflection \cup cur[i]
    /\ wat' = [wat EXCEPT ![i] = "enqueue"]
    /\ UNCHANGED <<p1, skipped, queue, running, done, stop, p1done, runVars, pc,
                   processed, seen, sweep, cur, progress, workVars, owed>>

\* Write a .tmp file, then os.replace: the worker sees the file appear whole.
WatchEnqueue(i) ==
    /\ wat[i] = "enqueue"
    /\ queue' = queue \cup cur[i]
    /\ Processed(i)
    /\ UNCHANGED <<p1, skipped, reflection, running, done, stop, p1done, runVars, pc,
                   seen, sweep, workVars, owed>>

WatchSwept(i) ==
    /\ wat[i] = "sweep"
    /\ sweep[i] = {}
    /\ wat' = [wat EXCEPT ![i] =
                  IF processed[i] = Tasks THEN "ended"
                  ELSE IF p1done /\ ~progress[i] THEN "gaveUp" ELSE "sleep"]
    /\ UNCHANGED <<p1, diskVars, stop, p1done, runVars, pc, processed, seen, sweep,
                   cur, progress, workVars, owed>>

Watcher(i) ==
    \/ WatchPoll(i) \/ (\E t \in Tasks : WatchVisit(i, t)) \/ WatchSkip(i)
    \/ WatchReflect(i) \/ WatchEnqueue(i) \/ WatchSwept(i)

-----------------------------------------------------------------------------
(* phase2_worker.                                                          *)

WorkerFind ==
    /\ kpc = "find"
    /\ found' = queue
    /\ kpc' = IF queue = {} THEN "empty" ELSE "claim"
    /\ UNCHANGED <<p1, diskVars, stop, p1done, runVars, pc, watVars, claimed, owed>>

\* Nothing claimed: look for STOP, else sleep.
WorkerEmpty ==
    /\ kpc = "empty"
    /\ kpc' = IF stop THEN "ended" ELSE "find"
    /\ UNCHANGED <<p1, diskVars, stop, p1done, runVars, pc, watVars, found, claimed,
                   owed>>

\* The file is claimed before the move that can fail.
FaultyClaim(t) ==
    /\ kpc = "claim"
    /\ t \in found
    /\ Cardinality(claimed) < BatchTasks
    /\ found' = found \ {t}
    /\ queue' = queue \ {t}
    /\ claimed' = claimed \cup {t}
    /\ UNCHANGED <<p1, skipped, reflection, running, done, stop, p1done, runVars, pc,
                   watVars, kpc, owed>>

\* A batch takes every listed file.
FaultyClaimAll(t) ==
    /\ kpc = "claim"
    /\ t \in found
    /\ found' = found \ {t}
    /\ queue' = queue \ {t}
    /\ running' = running \cup (queue \cap {t})
    /\ claimed' = claimed \cup (queue \cap {t})
    /\ UNCHANGED <<p1, skipped, reflection, done, stop, p1done, runVars, pc, watVars,
                   kpc, owed>>

\* mv one listed file to RUNNING_DIR, if it is still there.
Claim(t) ==
    /\ kpc = "claim"
    /\ t \in found
    /\ Cardinality(claimed) < BatchTasks
    /\ found' = found \ {t}
    /\ queue' = queue \ {t}
    /\ running' = running \cup (queue \cap {t})
    /\ claimed' = claimed \cup (queue \cap {t})
    /\ UNCHANGED <<p1, skipped, reflection, done, stop, p1done, runVars, pc, watVars,
                   kpc, owed>>

\* Concatenate the claimed files and launch the batch.
WorkerLaunch ==
    /\ kpc = "claim"
    /\ found = {} \/ Cardinality(claimed) >= BatchTasks
    /\ kpc' = IF claimed = {} THEN "empty" ELSE "launch"
    /\ found' = {}
    /\ UNCHANGED <<p1, diskVars, stop, p1done, runVars, pc, watVars, claimed, owed>>

\* The batch ends.  If it failed, on_error runs in the worker's subshell: it
\* touches STOP and exits, and the files stay in RUNNING_DIR.
WorkerBatch ==
    /\ kpc = "launch"
    /\ \/ kpc' = "file" /\ UNCHANGED <<stop, claimed>>
       \/ kpc' = "failed" /\ stop' = TRUE /\ claimed' = {}
    /\ UNCHANGED <<p1, diskVars, p1done, runVars, pc, watVars, found, owed>>

\* The batch succeeded: move its files to DONE_DIR one by one.
FileDone(t) ==
    /\ kpc = "file"
    /\ t \in claimed
    /\ running' = running \ {t}
    /\ done' = done \cup {t}
    /\ claimed' = claimed \ {t}
    /\ kpc' = IF claimed = {t} THEN "find" ELSE "file"
    /\ UNCHANGED <<p1, skipped, reflection, queue, stop, p1done, runVars, pc, watVars,
                   found, owed>>

Worker ==
    \/ WorkerFind \/ WorkerEmpty \/ WorkerLaunch \/ WorkerBatch
    \/ \E t \in Tasks : Claim(t) \/ FileDone(t)

Wrapper ==
    \/ BeginPhases \/ LaunchEnd \/ WatcherEnded \/ WorkerEnded
    \/ \E t \in Tasks : RequeueRunning(t)

Next ==
    \/ Start \/ LaunchFail \/ Crash
    \/ Wrapper
    \/ Worker
    \/ \E t \in Tasks : Attempt(t)
    \/ \E i \in Runs : Watcher(i)

Spec == Init /\ [][Next]_vars

\* Every process that is not killed goes on: a sleep ends, a launcher whose
\* trials all have timeouts exits.  Starting again is up to the operator.
FairSpec ==
    /\ Spec
    /\ WF_vars(Wrapper)
    /\ WF_vars(Worker)
    /\ \A i \in Runs : WF_vars(Watcher(i))

-----------------------------------------------------------------------------
(* Properties.                                                             *)

WatPos == {"off", "sleep", "sweep", "skip", "judge", "reflect", "enqueue",
           "ended", "gaveUp"}

\* Every variable keeps its type.
TypeOK ==
    /\ p1 \in [Tasks -> Phase1]
    /\ \A d \in {skipped, reflection, queue, running, done, found, claimed, owed} :
          d \subseteq Tasks
    /\ {stop, p1done} \subseteq BOOLEAN
    /\ run \in 0..MaxRuns
    /\ crashes \in 0..MaxCrashes
    /\ orphans \subseteq 1..run
    /\ pc \in {"off", "requeue", "phase1", "waitWatcher", "waitWorker", "errWait",
               "success", "failure"}
    /\ wat \in [Runs -> WatPos]
    /\ \A f \in {processed, seen, sweep, cur} : f \in [Runs -> SUBSET Tasks]
    /\ progress \in [Runs -> BOOLEAN]
    /\ kpc \in {"off", "find", "empty", "claim", "launch", "file", "ended", "failed"}
    /\ Cardinality(claimed) <= BatchTasks

\* The file of a task is in one directory: what is queued is not already running
\* or done, so no teacher batch is launched twice, across failed batches, killed
\* invocations and later ones.  (Not once an invocation has left its watcher
\* behind: two watchers queue the same task.)
OnePlace ==
    orphans = {} =>
        /\ queue \cap running = {}
        /\ queue \cap done = {}
        /\ running \cap done = {}

\* A task whose rollouts all failed, once the watcher has dealt with it, is
\* queued, running or done; a failing launcher or batch loses none.
Kept ==
    \A t \in owed :
        (\A i \in Runs : t \notin cur[i]) => t \in queue \cup running \cup done

NothingLost == crashes = 0 => Kept

\* The same across crashes: the queue "remains resumable/debuggable from
\* artifacts on disk" (watch_phase1_teacher_queue.py, lines 11-12).
NothingLostEver == Kept

\* The wrapper reports success only when the watcher has judged every task of
\* the plan and no batch is unfinished.
SuccessIsComplete ==
    pc = "success" => skipped = Tasks /\ (orphans = {} => running = {})

\* The worker stops on an empty queue: it reports "phase2_worker_stop
\* queue_empty" (run_sft_pipeline.sh, line 249).
WorkerDrains == [][kpc' = "ended" /\ kpc # "ended" => queue = {}]_vars

\* An invocation that is not killed ends: wrapper, watcher and worker never wait
\* for one another for ever.
PipelineEnds ==
    pc \in {"requeue", "phase1", "waitWatcher", "waitWorker", "errWait"} ~>
        pc \in {"success", "failure", "off"}

=============================================================================
