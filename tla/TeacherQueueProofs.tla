------------------------- MODULE TeacherQueueProofs -------------------------
(***************************************************************************)
(* The safety properties of TeacherQueue, for every plan, batch size,      *)
(* number of invocations, and pattern of failures and crashes.             *)
(***************************************************************************)
EXTENDS TeacherQueue, FiniteSetTheorems, TLAPS

Busy == {"skip", "judge", "reflect", "enqueue"}
Alive == {"sleep", "sweep"} \cup Busy
Phases == {"phase1", "waitWatcher"}

\* Which processes exist at a position of the wrapper, and what they hold.
RunInv ==
    /\ pc # "off" => run \in Runs
    /\ \A i \in Runs : i > run \/ (i = run /\ pc = "requeue") => wat[i] = "off"
    /\ pc \in {"off", "requeue"} => kpc \in {"off", "ended", "failed"}
    /\ pc \in {"success", "failure"} => kpc \in {"ended", "failed"}
    /\ kpc \notin {"claim", "launch", "file"} => claimed = {}
    /\ \A i \in Runs : wat[i] \notin Busy => cur[i] = {}

TypeInv == TypeOK /\ RunInv

\* While no invocation has left its watcher behind, only the watcher of the
\* current one works, and it skips every task that has a file.
PlaceInv ==
    orphans = {} =>
        /\ \A i \in Runs : wat[i] \in Alive => i = run /\ pc \in Phases
        /\ pc \in Phases => queue \cup running \cup done \subseteq processed[run]
        /\ \A i \in Runs : cur[i] \cap processed[i] = {}
        /\ claimed \subseteq running
        /\ queue \cap running = {} /\ queue \cap done = {} /\ running \cap done = {}

\* Until the first crash a task that is owed to the teacher has a file, or is
\* in the hands of a watcher.
KeptInv ==
    crashes = 0 =>
        \A t \in owed :
            \/ t \in queue \cup running \cup done
            \/ \E i \in Runs : wat[i] \in {"reflect", "enqueue"} /\ t \in cur[i]

\* Every task dealt with has its .skipped.txt file; a batch that did not fail
\* leaves no file in RUNNING_DIR but those of the worker.
DoneInv ==
    /\ queue \cup running \cup done \cup reflection \cup claimed \subseteq skipped
    /\ \A i \in Runs :
          /\ processed[i] \subseteq skipped
          /\ wat[i] \in {"reflect", "enqueue"} => cur[i] \subseteq skipped
          /\ wat[i] = "ended" => processed[i] = Tasks
    /\ pc \in {"waitWorker", "success"} => skipped = Tasks
    /\ pc = "success" => kpc = "ended"
    /\ orphans = {} /\ pc \in Phases \cup {"waitWorker", "success"} /\ kpc # "failed"
          => running = claimed

USE TeacherQueueAssumption DEF Busy, Alive, Phases

LEMMA InitInv == Init => TypeInv /\ PlaceInv /\ KeptInv /\ DoneInv
  <1>1. Cardinality({}) = 0
    BY FS_EmptySet
  <1> SUFFICES ASSUME Init PROVE TypeInv /\ PlaceInv /\ KeptInv /\ DoneInv
    OBVIOUS
  <1> USE DEF Init
  <1>2. TypeOK
    <2>1. Cardinality(claimed) <= BatchTasks
      BY <1>1
    <2>2. \A d \in {skipped, reflection, queue, running, done, found, claimed, owed} :
             d \subseteq Tasks
      OBVIOUS
    <2>3. /\ run \in 0..MaxRuns /\ crashes \in 0..MaxCrashes
          /\ orphans \subseteq 1..run
      OBVIOUS
    <2>4. /\ \A f \in {processed, seen, sweep, cur} : f \in [Runs -> SUBSET Tasks]
          /\ wat \in [Runs -> WatPos]
          /\ progress \in [Runs -> BOOLEAN]
      BY DEF WatPos
    <2> QED
      BY <2>1, <2>2, <2>3, <2>4 DEF TypeOK, Phase1
  <1>3. RunInv /\ PlaceInv /\ KeptInv
    BY DEF RunInv, PlaceInv, KeptInv, Runs
  <1>4. DoneInv
    BY DEF DoneInv, Runs
  <1> QED
    BY <1>2, <1>3, <1>4 DEF TypeInv

-----------------------------------------------------------------------------
(* Types.                                                                  *)

LEMMA ClaimedCard ==
    ASSUME TypeInv
    PROVE  /\ Cardinality(claimed) \in Nat /\ Cardinality({}) = 0
           /\ \A t \in Tasks : Cardinality(claimed \ {t}) <= Cardinality(claimed)
           /\ \A S : Cardinality(claimed) < BatchTasks =>
                 \A t \in Tasks : Cardinality(claimed \cup (S \cap {t})) <= BatchTasks
  <1>1. IsFiniteSet(claimed)
    BY FS_Subset DEF TypeInv, TypeOK
  <1>2. Cardinality(claimed) \in Nat /\ Cardinality({}) = 0
    BY <1>1, FS_CardinalityType, FS_EmptySet
  <1>3. ASSUME NEW t \in Tasks
        PROVE  Cardinality(claimed \ {t}) <= Cardinality(claimed)
    BY <1>1, FS_Subset
  <1>4. ASSUME NEW S, NEW t \in Tasks, Cardinality(claimed) < BatchTasks
        PROVE  Cardinality(claimed \cup (S \cap {t})) <= BatchTasks
    <2>1. CASE t \in S
      <3>1. claimed \cup (S \cap {t}) = claimed \cup {t}
        BY <2>1
      <3>2. Cardinality(claimed \cup {t}) =
                IF t \in claimed THEN Cardinality(claimed) ELSE Cardinality(claimed) + 1
        BY <1>1, FS_AddElement
      <3>3. Cardinality(claimed \cup {t}) <= BatchTasks
        BY <1>2, <1>4, <3>2
      <3> QED  BY <3>1, <3>3
    <2>2. CASE t \notin S
      <3>1. claimed \cup (S \cap {t}) = claimed
        BY <2>2
      <3>2. Cardinality(claimed) <= BatchTasks
        BY <1>2, <1>4
      <3> QED  BY <3>1, <3>2
    <2> QED  BY <2>1, <2>2
  <1> QED
    BY <1>2, <1>3, <1>4

LEMMA WrapperTypes ==
    ASSUME TypeInv, Start \/ LaunchFail \/ Crash \/ Wrapper
    PROVE  TypeInv'
  <1> USE DEF TypeInv, TypeOK, RunInv, Runs, WatPos
  <1>1. ASSUME Start PROVE TypeInv'
    <2>1. TypeOK'
      <3>1. /\ run' \in 0..MaxRuns /\ orphans' \subseteq 1..run'
            /\ crashes' \in 0..MaxCrashes
        BY <1>1 DEF Start
      <3>2. pc' = "requeue" /\ stop' = FALSE
        BY <1>1 DEF Start
      <3> QED
        BY <1>1, <3>1, <3>2 DEF Start, diskVars, watVars, workVars
    <2>2. RunInv'
      BY <1>1 DEF Start, diskVars, watVars, workVars
    <2> QED  BY <2>1, <2>2
  <1>2. ASSUME LaunchFail PROVE TypeInv'
    BY <1>2 DEF LaunchFail, diskVars, watVars, workVars
  <1>3. ASSUME Crash PROVE TypeInv'
    BY <1>3, ClaimedCard DEF Crash, diskVars
  <1>4. ASSUME BeginPhases PROVE TypeInv'
    <2>1. /\ wat' \in [Runs -> WatPos]
          /\ processed' \in [Runs -> SUBSET Tasks]
      BY <1>4 DEF BeginPhases, Known
    <2>3. TypeOK'
      <3>1. UNCHANGED <<p1, skipped, reflection, queue, running, done, stop, run,
                        crashes, orphans, seen, sweep, cur, progress, found,
                        claimed, owed>>
        BY <1>4 DEF BeginPhases, diskVars, runVars
      <3>2. p1done' = FALSE /\ kpc' = "find" /\ pc' = "phase1"
        BY <1>4 DEF BeginPhases
      <3> QED
        BY <2>1, <3>1, <3>2
    <2>2. RunInv'
      BY <1>4 DEF BeginPhases, diskVars, runVars
    <2> QED  BY <2>2, <2>3
  <1>5. ASSUME LaunchEnd PROVE TypeInv'
    BY <1>5 DEF LaunchEnd, diskVars, runVars, watVars, workVars
  <1>6. ASSUME WatcherEnded PROVE TypeInv'
    BY <1>6 DEF WatcherEnded, diskVars, runVars, watVars, workVars
  <1>7. ASSUME WorkerEnded PROVE TypeInv'
    BY <1>7 DEF WorkerEnded, diskVars, runVars, watVars, workVars
  <1>8. ASSUME NEW t \in Tasks, RequeueRunning(t) PROVE TypeInv'
    BY <1>8 DEF RequeueRunning, runVars, watVars, workVars
  <1> QED
    BY <1>1, <1>2, <1>3, <1>4, <1>5, <1>6, <1>7, <1>8 DEF Wrapper

LEMMA WatcherTypes ==
    ASSUME TypeInv, NEW i \in Runs, Watcher(i)
    PROVE  TypeInv'
  <1> USE DEF TypeInv, TypeOK, RunInv, WatPos
  <1>1. ASSUME WatchPoll(i) PROVE TypeInv'
    BY <1>1 DEF WatchPoll, diskVars, runVars, workVars
  <1>2. ASSUME NEW t \in Tasks, WatchVisit(i, t) PROVE TypeInv'
    <2>1. TypeOK'
      BY <1>2 DEF WatchVisit, diskVars, runVars, workVars
    <2>2. RunInv'
      BY <1>2 DEF WatchVisit, diskVars, runVars, workVars
    <2> QED  BY <2>1, <2>2
  <1>3. ASSUME WatchSkip(i) PROVE TypeInv'
    <2>1. /\ wat' \in [Runs -> WatPos]
          /\ {processed', cur'} \subseteq [Runs -> SUBSET Tasks]
          /\ progress' \in [Runs -> BOOLEAN]
          /\ skipped' \subseteq Tasks /\ owed' \subseteq Tasks
      <3>1. CASE wat[i] = "skip" /\ Processed(i) /\ UNCHANGED owed
        BY <1>3, <3>1 DEF WatchSkip, Processed
      <3>2. CASE wat[i] = "judge" /\ wat' = [wat EXCEPT ![i] = "reflect"]
        BY <1>3, <3>2 DEF WatchSkip
      <3> QED
        BY <1>3, <3>1, <3>2 DEF WatchSkip
    <2>3. TypeOK'
      BY <1>3, <2>1 DEF WatchSkip, runVars, workVars
    <2>2. RunInv'
      BY <1>3 DEF WatchSkip, Processed, runVars, workVars
    <2> QED  BY <2>2, <2>3
  <1>4. ASSUME WatchReflect(i) PROVE TypeInv'
    BY <1>4 DEF WatchReflect, runVars, workVars
  <1>5. ASSUME WatchEnqueue(i) PROVE TypeInv'
    <2>1. TypeOK'
      BY <1>5 DEF WatchEnqueue, Processed, runVars, workVars
    <2>2. RunInv'
      BY <1>5 DEF WatchEnqueue, Processed, runVars, workVars
    <2> QED  BY <2>1, <2>2
  <1>6. ASSUME WatchSwept(i) PROVE TypeInv'
    BY <1>6 DEF WatchSwept, diskVars, runVars, workVars
  <1> QED
    BY <1>1, <1>2, <1>3, <1>4, <1>5, <1>6 DEF Watcher

LEMMA WorkerTypes ==
    ASSUME TypeInv, Worker
    PROVE  TypeInv'
  <1> USE DEF TypeInv, TypeOK, RunInv
  <1>1. ASSUME WorkerFind \/ WorkerEmpty \/ WorkerLaunch PROVE TypeInv'
    BY <1>1 DEF WorkerFind, WorkerEmpty, WorkerLaunch, diskVars, runVars, watVars
  <1>2. ASSUME WorkerBatch PROVE TypeInv'
    <2>1. claimed' \subseteq Tasks /\ Cardinality(claimed') <= BatchTasks
      <3>1. claimed' = claimed \/ claimed' = {}
        BY <1>2 DEF WorkerBatch
      <3>2. Cardinality({}) = 0
        BY FS_EmptySet
      <3>3. CASE claimed' = claimed
        BY <3>3
      <3>4. CASE claimed' = {}
        BY <3>2, <3>4
      <3> QED
        BY <3>1, <3>3, <3>4
    <2>2. TypeOK'
      <3>1. /\ kpc' \in {"file", "failed"} /\ stop' \in {stop, TRUE}
            /\ UNCHANGED <<p1, skipped, reflection, queue, running, done, p1done, run,
                           crashes, orphans, pc, wat, processed, seen, sweep, cur,
                           progress, found, owed>>
        BY <1>2 DEF WorkerBatch, diskVars, runVars, watVars
      <3>2. {stop, p1done}' \subseteq BOOLEAN
        BY <3>1
      <3> QED
        BY <2>1, <3>1, <3>2
    <2>3. RunInv'
      BY <1>2 DEF WorkerBatch, diskVars, runVars, watVars
    <2> QED
      BY <2>2, <2>3
  <1>3. ASSUME NEW t \in Tasks, Claim(t) PROVE TypeInv'
    <2>1. Cardinality(claimed') <= BatchTasks
      BY <1>3, ClaimedCard DEF Claim
    <2> QED
      BY <1>3, <2>1 DEF Claim, runVars, watVars
  <1>4. ASSUME NEW t \in Tasks, FileDone(t) PROVE TypeInv'
    <2>1. Cardinality(claimed') <= BatchTasks
      <3>1. Cardinality(claimed') <= Cardinality(claimed)
        BY <1>4, ClaimedCard DEF FileDone
      <3>2. Cardinality(claimed') \in Nat /\ Cardinality(claimed) \in Nat
        BY <1>4, FS_Subset, FS_CardinalityType DEF FileDone
      <3> QED  BY <3>1, <3>2
    <2> QED
      BY <1>4, <2>1 DEF FileDone, runVars, watVars
  <1> QED
    BY <1>1, <1>2, <1>3, <1>4 DEF Worker

LEMMA TypeStep == TypeInv /\ [Next]_vars => TypeInv'
  <1> SUFFICES ASSUME TypeInv, [Next]_vars PROVE TypeInv'
    OBVIOUS
  <1>1. ASSUME NEW t \in Tasks, Attempt(t) PROVE TypeInv'
    BY <1>1 DEF Attempt, TypeInv, TypeOK, RunInv, Phase1, diskVars, runVars,
                watVars, workVars
  <1>2. CASE UNCHANGED vars
    BY <1>2 DEF vars, TypeInv, TypeOK, RunInv, diskVars, runVars, watVars, workVars
  <1> QED
    BY <1>1, <1>2, WrapperTypes, WatcherTypes, WorkerTypes DEF Next

THEOREM TypeCorrect == Spec => []TypeOK
  <1>1. TypeInv => TypeOK
    BY DEF TypeInv
  <1> QED
    BY <1>1, InitInv, TypeStep, PTL DEF Spec

-----------------------------------------------------------------------------
(* One place for the file of a task.                                       *)

LEMMA WrapperPlace ==
    ASSUME TypeInv, PlaceInv, Start \/ LaunchFail \/ Crash \/ Wrapper
    PROVE  PlaceInv'
  <1> SUFFICES ASSUME orphans' = {} PROVE PlaceInv'
    BY DEF PlaceInv
  <1>0. /\ run \in 0..MaxRuns
        /\ orphans \subseteq 1..run
        /\ wat \in [Runs -> WatPos]
        /\ processed \in [Runs -> SUBSET Tasks]
        /\ RunInv
    BY DEF TypeInv, TypeOK
  <1> USE DEF PlaceInv, Runs
  <1>1. ASSUME Start PROVE PlaceInv'
    BY <1>0, <1>1 DEF Start, diskVars, watVars, workVars
  <1>2. ASSUME LaunchFail PROVE PlaceInv'
    BY <1>0, <1>2 DEF LaunchFail
  <1>3. ASSUME Crash PROVE PlaceInv'
    BY <1>0, <1>3 DEF Crash, diskVars
  <1>4. ASSUME BeginPhases PROVE PlaceInv'
    <2>1. /\ wat' = [wat EXCEPT ![run] = "sleep"]
          /\ processed' = [processed EXCEPT ![run] = Known]
          /\ pc' = "phase1" /\ pc = "requeue" /\ run \in Runs
          /\ UNCHANGED <<queue, running, done, run, cur, claimed, orphans>>
      BY <1>0, <1>4 DEF BeginPhases, diskVars, runVars, RunInv
    <2>2. cur[run] = {}
      BY <1>0, <2>1 DEF RunInv
    <2>3. processed'[run] = Known
      BY <1>0, <2>1
    <2>4. \A i \in Runs : cur'[i] \cap processed'[i] = {}
      BY <1>0, <2>1, <2>2
    <2>5. \A i \in Runs : wat'[i] \in Alive => i = run'
      BY <1>0, <2>1
    <2> QED
      BY <2>1, <2>3, <2>4, <2>5 DEF Known
  <1>5. ASSUME LaunchEnd \/ WatcherEnded \/ WorkerEnded PROVE PlaceInv'
    BY <1>0, <1>5 DEF LaunchEnd, WatcherEnded, WorkerEnded, diskVars, runVars,
                      watVars, workVars, RunInv
  <1>6. ASSUME NEW t \in Tasks, RequeueRunning(t) PROVE PlaceInv'
    <2>1. claimed = {}
      BY <1>0, <1>6 DEF RequeueRunning, RunInv
    <2> QED
      BY <1>6, <2>1 DEF RequeueRunning, Stale, runVars, watVars, workVars
  <1> QED
    BY <1>1, <1>2, <1>3, <1>4, <1>5, <1>6 DEF Wrapper

LEMMA WatcherPlace ==
    ASSUME TypeInv, PlaceInv, NEW i \in Runs, Watcher(i)
    PROVE  PlaceInv'
  <1> SUFFICES ASSUME orphans' = {} PROVE PlaceInv'
    BY DEF PlaceInv
  <1>0. /\ wat \in [Runs -> WatPos]
        /\ {processed, cur, seen} \subseteq [Runs -> SUBSET Tasks]
        /\ RunInv
    BY DEF TypeInv, TypeOK
  <1>1. /\ i = run /\ pc \in Phases /\ orphans = {}
        /\ UNCHANGED <<orphans, run, pc, running, done, claimed>>
    BY DEF Watcher, WatchPoll, WatchVisit, WatchSkip, WatchReflect, WatchEnqueue,
           WatchSwept, Processed, PlaceInv, diskVars, runVars, workVars
  <1>2. ASSUME UNCHANGED <<queue, processed>>,
               \A j \in Runs : j # i => wat'[j] = wat[j] /\ cur'[j] = cur[j],
               cur'[i] \cap processed[i] = {}
        PROVE  PlaceInv'
    BY <1>1, <1>2 DEF PlaceInv
  <1>3. ASSUME WatchPoll(i) \/ WatchReflect(i) \/ WatchSwept(i) PROVE PlaceInv'
    BY <1>0, <1>1, <1>2, <1>3
    DEF WatchPoll, WatchReflect, WatchSwept, diskVars, PlaceInv
  <1>4. ASSUME NEW t \in Tasks, WatchVisit(i, t) PROVE PlaceInv'
    BY <1>0, <1>1, <1>2, <1>4 DEF WatchVisit, diskVars, PlaceInv
  <1>5. ASSUME Processed(i), queue' \in {queue, queue \cup cur[i]} PROVE PlaceInv'
    <2>1. /\ processed' = [processed EXCEPT ![i] = @ \cup cur[i]]
          /\ cur' = [cur EXCEPT ![i] = {}]
          /\ wat' = [wat EXCEPT ![i] = "sweep"]
      BY <1>5 DEF Processed
    <2>2. /\ processed'[i] = processed[i] \cup cur[i] /\ cur'[i] = {}
          /\ \A j \in Runs : j # i => /\ wat'[j] = wat[j] /\ cur'[j] = cur[j]
                                      /\ processed'[j] = processed[j]
      BY <1>0, <2>1
    <2>3. /\ queue \cup running \cup done \subseteq processed[i]
          /\ cur[i] \cap processed[i] = {}
      BY <1>1 DEF PlaceInv
    <2> QED
      BY <1>1, <1>5, <2>2, <2>3 DEF PlaceInv
  <1>6. ASSUME WatchSkip(i), ~Processed(i) PROVE PlaceInv'
    BY <1>0, <1>1, <1>2, <1>6 DEF WatchSkip, PlaceInv
  <1>7. ASSUME WatchSkip(i), Processed(i) PROVE PlaceInv'
    BY <1>5, <1>7 DEF WatchSkip
  <1>8. ASSUME WatchEnqueue(i) PROVE PlaceInv'
    BY <1>5, <1>8 DEF WatchEnqueue
  <1> QED
    BY <1>3, <1>4, <1>6, <1>7, <1>8 DEF Watcher

LEMMA WorkerPlace ==
    ASSUME TypeInv, PlaceInv, Worker
    PROVE  PlaceInv'
  <1> SUFFICES ASSUME orphans' = {} PROVE PlaceInv'
    BY DEF PlaceInv
  <1>1. UNCHANGED <<orphans, run, pc, watVars>>
    BY DEF Worker, WorkerFind, WorkerEmpty, WorkerLaunch, WorkerBatch, Claim,
           FileDone, runVars
  <1> USE DEF PlaceInv, watVars
  <1>2. ASSUME WorkerFind \/ WorkerEmpty \/ WorkerLaunch \/ WorkerBatch
        PROVE  PlaceInv'
    BY <1>1, <1>2 DEF WorkerFind, WorkerEmpty, WorkerLaunch, WorkerBatch, diskVars
  <1>3. ASSUME NEW t \in Tasks, Claim(t) PROVE PlaceInv'
    BY <1>1, <1>3 DEF Claim
  <1>4. ASSUME NEW t \in Tasks, FileDone(t) PROVE PlaceInv'
    BY <1>1, <1>4 DEF FileDone
  <1> QED
    BY <1>2, <1>3, <1>4 DEF Worker

LEMMA PlaceStep == TypeInv /\ PlaceInv /\ [Next]_vars => PlaceInv'
  <1> SUFFICES ASSUME TypeInv, PlaceInv, [Next]_vars PROVE PlaceInv'
    OBVIOUS
  <1>1. ASSUME (\E t \in Tasks : Attempt(t)) \/ UNCHANGED vars PROVE PlaceInv'
    BY <1>1 DEF Attempt, vars, PlaceInv, diskVars, runVars, watVars, workVars
  <1> QED
    BY <1>1, WrapperPlace, WatcherPlace, WorkerPlace DEF Next

\* No teacher batch is launched twice for a task.
THEOREM OnePlaceHolds == Spec => []OnePlace
  <1>1. PlaceInv => OnePlace
    BY DEF PlaceInv, OnePlace
  <1> QED
    BY <1>1, InitInv, TypeStep, PlaceStep, PTL DEF Spec

-----------------------------------------------------------------------------
(* No task is lost.                                                        *)

LEMMA KeptStep == TypeInv /\ KeptInv /\ [Next]_vars => KeptInv'
  <1> SUFFICES ASSUME TypeInv, KeptInv, [Next]_vars, crashes' = 0 PROVE KeptInv'
    BY DEF KeptInv
  <1>0. /\ wat \in [Runs -> WatPos] /\ cur \in [Runs -> SUBSET Tasks]
        /\ crashes \in Nat
        /\ RunInv
    BY DEF TypeInv, TypeOK
  <1> DEFINE Files == queue \cup running \cup done
             Held(t) == \E i \in Runs : wat[i] \in {"reflect", "enqueue"} /\ t \in cur[i]
  <1>1. ASSUME crashes = 0, owed' = owed, Files \subseteq Files',
               \A t \in owed : Held(t) => Held(t)' \/ t \in Files'
        PROVE  KeptInv'
    BY <1>1 DEF KeptInv
  <1>2. CASE Start \/ LaunchFail \/ LaunchEnd \/ WatcherEnded \/ WorkerEnded
             \/ (\E t \in Tasks : RequeueRunning(t) \/ Attempt(t)) \/ UNCHANGED vars
    <2>1. /\ UNCHANGED <<crashes, owed, wat, cur>>
          /\ Files \subseteq Files'
      BY <1>2
      DEF Start, LaunchFail, LaunchEnd, WatcherEnded, WorkerEnded, RequeueRunning,
          Attempt, vars, diskVars, runVars, watVars, workVars
    <2> QED
      BY <1>1, <2>1
  <1>3. CASE BeginPhases
    <2>1. run \in Runs /\ wat[run] = "off"
      BY <1>0, <1>3 DEF BeginPhases, RunInv
    <2>2. /\ UNCHANGED <<crashes, owed, cur, queue, running, done>>
          /\ \A i \in Runs : wat[i] \in {"reflect", "enqueue"} => wat'[i] = wat[i]
      BY <1>0, <1>3, <2>1 DEF BeginPhases, diskVars, runVars
    <2> QED
      BY <1>1, <2>2
  <1>4. CASE Crash
    BY <1>0, <1>4 DEF Crash
  <1>5. ASSUME NEW i \in Runs, Watcher(i) PROVE KeptInv'
    <2>0. UNCHANGED <<crashes, running, done>>
      BY <1>5 DEF Watcher, WatchPoll, WatchVisit, WatchSkip, WatchReflect,
                  WatchEnqueue, WatchSwept, diskVars, runVars
    <2>1. CASE WatchPoll(i) \/ WatchSwept(i) \/ \E t \in Tasks : WatchVisit(i, t)
      <3>1. /\ wat[i] = "sleep" \/ wat[i] = "sweep"
            /\ UNCHANGED <<owed, queue>>
            /\ \A j \in Runs : j # i => wat'[j] = wat[j] /\ cur'[j] = cur[j]
        BY <1>0, <2>1 DEF WatchPoll, WatchSwept, WatchVisit, diskVars
      <3> QED
        BY <1>1, <2>0, <3>1
    <2>2. CASE WatchReflect(i)
      BY <1>0, <1>1, <2>0, <2>2 DEF WatchReflect
    <2>3. CASE WatchEnqueue(i)
      BY <1>0, <1>1, <2>0, <2>3 DEF WatchEnqueue, Processed
    <2>4. CASE WatchSkip(i) /\ wat[i] = "skip"
      <3>1. /\ UNCHANGED <<owed, queue>>
            /\ \A j \in Runs : j # i => wat'[j] = wat[j] /\ cur'[j] = cur[j]
        BY <1>0, <2>4 DEF WatchSkip, Processed
      <3> QED
        BY <1>1, <2>0, <2>4, <3>1
    <2>5. CASE WatchSkip(i) /\ wat[i] = "judge"
      <3>1. /\ owed' = owed \cup cur[i] /\ UNCHANGED <<queue, cur>>
            /\ wat' = [wat EXCEPT ![i] = "reflect"]
        BY <2>5 DEF WatchSkip
      <3>2. /\ wat'[i] = "reflect"
            /\ \A j \in Runs : wat[j] \in {"reflect", "enqueue"} => wat'[j] = wat[j]
        BY <1>0, <2>5, <3>1
      <3> QED
        BY <2>0, <3>1, <3>2 DEF KeptInv
    <2> QED
      BY <1>5, <2>1, <2>2, <2>3, <2>4, <2>5 DEF Watcher, WatchSkip
  <1>6. CASE Worker
    <2>1. /\ UNCHANGED <<crashes, owed, wat, cur>>
          /\ Files \subseteq Files'
      BY <1>6
      DEF Worker, WorkerFind, WorkerEmpty, WorkerLaunch, WorkerBatch, Claim,
          FileDone, diskVars, runVars, watVars
    <2> QED
      BY <1>1, <2>1
  <1> QED
    BY <1>2, <1>3, <1>4, <1>5, <1>6 DEF Next, Wrapper

\* Without a crash no task that needs the teacher is lost.
THEOREM NothingLostHolds == Spec => []NothingLost
  <1>1. KeptInv => NothingLost
    BY DEF KeptInv, NothingLost, Kept
  <1> QED
    BY <1>1, InitInv, TypeStep, KeptStep, PTL DEF Spec

-----------------------------------------------------------------------------
(* Success.                                                                *)

LEMMA WrapperDone ==
    ASSUME TypeInv, PlaceInv, DoneInv, Start \/ LaunchFail \/ Crash \/ Wrapper
    PROVE  DoneInv'
  <1>0. /\ run \in 0..MaxRuns /\ orphans \subseteq 1..run
        /\ wat \in [Runs -> WatPos]
        /\ {processed, cur} \subseteq [Runs -> SUBSET Tasks]
        /\ RunInv
    BY DEF TypeInv, TypeOK
  <1> USE DEF DoneInv
  <1>1. ASSUME Start PROVE DoneInv'
    BY <1>1 DEF Start, diskVars, watVars, workVars
  <1>2. ASSUME LaunchFail PROVE DoneInv'
    BY <1>0, <1>2 DEF LaunchFail, diskVars, watVars, workVars
  <1>3. ASSUME Crash PROVE DoneInv'
    BY <1>3 DEF Crash, diskVars
  <1>4. ASSUME BeginPhases PROVE DoneInv'
    <2>1. /\ wat' = [wat EXCEPT ![run] = "sleep"]
          /\ processed' = [processed EXCEPT ![run] = Known]
          /\ pc' = "phase1" /\ kpc' = "find" /\ run \in Runs /\ wat[run] = "off"
          /\ UNCHANGED <<skipped, reflection, queue, running, done, cur, claimed,
                         orphans>>
      BY <1>0, <1>4 DEF BeginPhases, diskVars, runVars, RunInv
    <2>2. orphans = {} => running = claimed
      BY <1>0, <1>4 DEF BeginPhases, Stale, PlaceInv, RunInv
    <2>3. Known \subseteq skipped
      BY DEF Known
    <2>4. \A i \in Runs : /\ processed'[i] \subseteq skipped
                          /\ wat'[i] \in {"reflect", "enqueue"} => cur[i] \subseteq skipped
                          /\ wat'[i] = "ended" => processed'[i] = Tasks
      BY <1>0, <2>1, <2>3
    <2> QED
      BY <2>1, <2>2, <2>4
  <1>5. ASSUME LaunchEnd PROVE DoneInv'
    BY <1>5 DEF LaunchEnd, diskVars, runVars, watVars, workVars
  <1>6. ASSUME WatcherEnded PROVE DoneInv'
    <2>1. skipped \subseteq Tasks /\ run \in Runs
      BY <1>0, <1>6 DEF TypeInv, TypeOK, RunInv, WatcherEnded
    <2>2. pc' = "waitWorker" => skipped = Tasks
      BY <1>6, <2>1 DEF WatcherEnded
    <2> QED
      BY <1>6, <2>2 DEF WatcherEnded, diskVars, runVars, watVars, workVars
  <1>7. ASSUME WorkerEnded PROVE DoneInv'
    BY <1>7 DEF WorkerEnded, diskVars, runVars, watVars, workVars
  <1>8. ASSUME NEW t \in Tasks, RequeueRunning(t) PROVE DoneInv'
    BY <1>8 DEF RequeueRunning, Stale, runVars, watVars, workVars
  <1> QED
    BY <1>1, <1>2, <1>3, <1>4, <1>5, <1>6, <1>7, <1>8 DEF Wrapper

LEMMA WatcherDone ==
    ASSUME TypeInv, DoneInv, NEW i \in Runs, Watcher(i)
    PROVE  DoneInv'
  <1>0. /\ wat \in [Runs -> WatPos]
        /\ {processed, cur} \subseteq [Runs -> SUBSET Tasks]
        /\ skipped \subseteq Tasks /\ RunInv
        /\ cur' \in [Runs -> SUBSET Tasks]
    BY WatcherTypes DEF TypeInv, TypeOK
  <1>1. UNCHANGED <<running, done, orphans, pc, kpc, claimed>>
    BY DEF Watcher, WatchPoll, WatchVisit, WatchSkip, WatchReflect, WatchEnqueue,
           WatchSwept, diskVars, runVars, workVars
  \* What a step of the watcher i may change.
  <1>2. ASSUME skipped \subseteq skipped', skipped' \subseteq Tasks,
               queue' \cup reflection' \subseteq skipped',
               \A j \in Runs : j # i => /\ wat'[j] = wat[j] /\ cur'[j] = cur[j]
                                        /\ processed'[j] = processed[j],
               /\ processed'[i] \subseteq skipped'
               /\ wat'[i] \in {"reflect", "enqueue"} => cur'[i] \subseteq skipped'
               /\ wat'[i] = "ended" => processed'[i] = Tasks
        PROVE  DoneInv'
    BY <1>1, <1>2 DEF DoneInv
  <1>3. ASSUME WatchPoll(i) PROVE DoneInv'
    BY <1>0, <1>2, <1>3 DEF WatchPoll, diskVars, DoneInv
  <1>4. ASSUME NEW t \in Tasks, WatchVisit(i, t) PROVE DoneInv'
    <2>1. /\ UNCHANGED <<skipped, queue, reflection, processed>>
          /\ \A j \in Runs : j # i => wat'[j] = wat[j] /\ cur'[j] = cur[j]
          /\ wat'[i] \in {"sweep", "skip", "judge"}
      BY <1>0, <1>4 DEF WatchVisit, diskVars
    <2> QED
      BY <1>0, <1>2, <2>1 DEF DoneInv
  <1>5. ASSUME WatchSkip(i) PROVE DoneInv'
    <2>1. /\ skipped' = skipped \cup cur[i]
          /\ UNCHANGED <<queue, reflection>>
          /\ \A j \in Runs : j # i => /\ wat'[j] = wat[j] /\ cur'[j] = cur[j]
                                      /\ processed'[j] = processed[j]
          /\ processed'[i] \subseteq processed[i] \cup cur[i]
          /\ cur'[i] \subseteq cur[i]
          /\ wat'[i] \in {"sweep", "reflect"}
      BY <1>0, <1>5 DEF WatchSkip, Processed
    <2> QED
      BY <1>0, <1>2, <2>1 DEF DoneInv
  <1>6. ASSUME WatchReflect(i) \/ WatchEnqueue(i) PROVE DoneInv'
    <2>1. /\ cur[i] \subseteq skipped
          /\ UNCHANGED skipped
          /\ queue' \cup reflection' \subseteq queue \cup reflection \cup cur[i]
          /\ \A j \in Runs : j # i => /\ wat'[j] = wat[j] /\ cur'[j] = cur[j]
                                      /\ processed'[j] = processed[j]
          /\ processed'[i] \subseteq processed[i] \cup cur[i]
          /\ cur'[i] \subseteq cur[i]
          /\ wat'[i] \in {"sweep", "enqueue"}
      BY <1>0, <1>6 DEF WatchReflect, WatchEnqueue, Processed, DoneInv
    <2> QED
      BY <1>0, <1>2, <2>1 DEF DoneInv
  <1>7. ASSUME WatchSwept(i) PROVE DoneInv'
    <2>1. /\ UNCHANGED <<skipped, queue, reflection, processed, cur>>
          /\ \A j \in Runs : j # i => wat'[j] = wat[j]
          /\ wat'[i] \in {"ended", "gaveUp", "sleep"}
          /\ wat'[i] = "ended" => processed[i] = Tasks
      BY <1>0, <1>7 DEF WatchSwept, diskVars
    <2> QED
      BY <1>0, <1>2, <2>1 DEF DoneInv
  <1> QED
    BY <1>3, <1>4, <1>5, <1>6, <1>7 DEF Watcher

LEMMA WorkerDone ==
    ASSUME TypeInv, PlaceInv, DoneInv, Worker
    PROVE  DoneInv'
  <1>0. RunInv
    BY DEF TypeInv
  <1>1. UNCHANGED <<skipped, reflection, orphans, run, pc, watVars>>
    BY DEF Worker, WorkerFind, WorkerEmpty, WorkerLaunch, WorkerBatch, Claim,
           FileDone, diskVars, runVars
  <1> USE DEF DoneInv, watVars
  <1>2. ASSUME WorkerFind \/ WorkerEmpty \/ WorkerLaunch \/ WorkerBatch
        PROVE  DoneInv'
    BY <1>1, <1>2 DEF WorkerFind, WorkerEmpty, WorkerLaunch, WorkerBatch, diskVars
  <1>3. ASSUME NEW t \in Tasks, Claim(t) PROVE DoneInv'
    BY <1>1, <1>3 DEF Claim
  <1>4. ASSUME NEW t \in Tasks, FileDone(t) PROVE DoneInv'
    BY <1>0, <1>1, <1>4 DEF FileDone, RunInv, PlaceInv
  <1> QED
    BY <1>2, <1>3, <1>4 DEF Worker

LEMMA DoneStep == TypeInv /\ PlaceInv /\ DoneInv /\ [Next]_vars => DoneInv'
  <1> SUFFICES ASSUME TypeInv, PlaceInv, DoneInv, [Next]_vars PROVE DoneInv'
    OBVIOUS
  <1>1. ASSUME (\E t \in Tasks : Attempt(t)) \/ UNCHANGED vars PROVE DoneInv'
    BY <1>1 DEF Attempt, vars, DoneInv, diskVars, runVars, watVars, workVars
  <1> QED
    BY <1>1, WrapperDone, WatcherDone, WorkerDone DEF Next

\* Success is reported only when every task has been judged and no batch is
\* unfinished.
THEOREM SuccessIsCompleteHolds == Spec => []SuccessIsComplete
  <1>1. TypeInv /\ DoneInv => SuccessIsComplete
    BY DEF TypeInv, RunInv, DoneInv, SuccessIsComplete
  <1> QED
    BY <1>1, InitInv, TypeStep, PlaceStep, DoneStep, PTL DEF Spec

=============================================================================
