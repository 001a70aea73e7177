------------------------- MODULE LaunchTrialsProofs -------------------------
(***************************************************************************)
(* The safety properties of LaunchTrials, for every plan, every number of  *)
(* launchers and workers, every window, and whatever is interrupted,       *)
(* killed or restarted.                                                    *)
(***************************************************************************)
EXTENDS LaunchTrials, FiniteSetTheorems, TLAPS

Over == {"off", "ended", "failed"}

\* Who is active: nothing of a launcher that is over, nothing that is still
\* queued, one trial of a task.
ActiveInv ==
    /\ {todo, selected} \subseteq [Launchers -> SUBSET Trials]
    /\ runner \in [Trials -> RunnerPos \cup {"off"}]
    /\ \A l \in Launchers : pc[l] # "off" => launches[l] >= 1
    /\ \A t \in Trials : pc[OwnerOf[t]] \in Over => th[t] = "none"
    /\ \A t \in Trials : t \in todo[OwnerOf[t]] => th[t] = "none"
    /\ \A t, u \in Trials :
          /\ OwnerOf[t] = OwnerOf[u] /\ TaskOf[t] = TaskOf[u]
          /\ th[t] # "none" /\ th[u] # "none"
          => t = u

\* The runners that launchers wait for under .claw_global.lock.
ClawInv == \A t, u \in Claw : th[t] = "run" /\ th[u] = "run" => t = u

\* What is on disk of a trial that is yet to run, runs, or has succeeded.
DiskInv ==
    \A t \in Trials :
        /\ th[t] \in ThPos \ {"none", "done"} \/ t \in todo[OwnerOf[t]]
               => res[t] # "ok"
        /\ t \notin orphaned =>
              /\ res[t] = "ok" => t \in traj /\ row[t] = "final"
              /\ th[t] \in {"queued", "lock", "flock"} \/ t \in todo[OwnerOf[t]]
                     => row[t] # "final"

TypeInv == TypeOK /\ ActiveInv

USE LaunchTrialsAssumption

LEMMA InitInv == Init => TypeInv /\ ClawInv /\ DiskInv
  BY DEF Init, TypeInv, TypeOK, ActiveInv, ClawInv, DiskInv, Plan, ThPos, Over, RunnerPos

\* fill_task_window moves tasks from the pending to the open ones.
LEMMA FillWindowTypes ==
    ASSUME {waiting, open} \subseteq [Launchers -> SUBSET Tasks],
           \A k \in Launchers : open[k] \cap waiting[k] = {},
           NEW l \in Launchers, NEW w \in SUBSET Tasks, NEW o \in SUBSET Tasks,
           o \cap w = {}, FillWindow(l, w, o)
    PROVE  /\ {waiting, open}' \subseteq [Launchers -> SUBSET Tasks]
           /\ \A k \in Launchers : open'[k] \cap waiting'[k] = {}
  <1>1. PICK f \in SUBSET w : /\ waiting' = [waiting EXCEPT ![l] = w \ f]
                              /\ open' = [open EXCEPT ![l] = o \cup f]
    BY DEF FillWindow
  <1> QED
    BY <1>1

\* The steps of the main thread are those of a launcher l, and touch the
\* threads and records of no other one.
LEMMA MainTypes ==
    ASSUME TypeInv, NEW l \in Launchers, Main(l) \/ Launch(l) \/ Sigint(l)
    PROVE  TypeInv'
  <1> USE DEF TypeInv, TypeOK, ActiveInv, Over, ThPos, RunnerPos
  <1>1. ASSUME Launch(l) PROVE TypeInv'
    <2>1. /\ Selection(l) \subseteq Plan(l) /\ Plan(l) \subseteq Trials
          /\ {TaskOf[t] : t \in Selection(l)} \subseteq Tasks
      BY DEF Selection, Plan, Tasks
    <2>2. /\ {waiting, open}' \subseteq [Launchers -> SUBSET Tasks]
          /\ \A k \in Launchers : open'[k] \cap waiting'[k] = {}
      <3>1. CASE TaskWindow > 0
        <4>1. FillWindow(l, {TaskOf[t] : t \in Selection(l)}, {})
          BY <1>1, <3>1 DEF Launch
        <4>2. /\ {TaskOf[t] : t \in Selection(l)} \in SUBSET Tasks
              /\ {} \in SUBSET Tasks
              /\ {} \cap {TaskOf[t] : t \in Selection(l)} = {}
          BY <2>1
        <4>3. /\ {waiting, open} \subseteq [Launchers -> SUBSET Tasks]
              /\ \A k \in Launchers : open[k] \cap waiting[k] = {}
          OBVIOUS
        <4> HIDE DEF TypeInv, TypeOK, ActiveInv
        <4> QED  BY <4>1, <4>2, <4>3, FillWindowTypes
      <3>2. CASE ~(TaskWindow > 0)
        BY <1>1, <3>2 DEF Launch
      <3> QED  BY <3>1, <3>2
    <2>3. \A k \in Launchers : /\ todo'[k] \subseteq selected'[k]
                               /\ selected'[k] \subseteq Plan(k)
      BY <1>1, <2>1 DEF Launch
    <2>4. /\ launches' \in [Launchers -> 0..MaxLaunches]
          /\ round' \in [Launchers -> 0..RetryRounds]
          /\ stop' \in [Launchers -> BOOLEAN]
      BY <1>1 DEF Launch
    <2>5. TypeOK'
      BY <1>1, <2>2, <2>3, <2>4 DEF Launch, runVars, diskVars
    <2>6. ActiveInv'
      BY <1>1, <2>1 DEF Launch, Selection, FillWindow, Plan, Tasks, runVars, diskVars
    <2> QED  BY <2>5, <2>6
  <1>2. ASSUME SubmitEnter(l) PROVE TypeInv'
    <2>1. /\ pc[l] = "enter"
          /\ \E at \in {"wait", "submit"} : pc' = [pc EXCEPT ![l] = at]
          /\ UNCHANGED <<launches, signals, stop, round, selected, th, rc, res, runner,
                         strays, orphaned, traj, row>>
      BY <1>2 DEF SubmitEnter, threadVars, runVars, diskVars
    <2>2. \/ UNCHANGED <<todo, waiting, open>>
          \/ /\ todo' = [todo EXCEPT ![l] = {}]
             /\ waiting' = [waiting EXCEPT ![l] = {}]
             /\ open' = [open EXCEPT ![l] = {}]
      BY <1>2 DEF SubmitEnter
    <2>0. /\ todo \in [Launchers -> SUBSET Trials]
          /\ waiting \in [Launchers -> SUBSET Tasks]
          /\ open \in [Launchers -> SUBSET Tasks]
          /\ \A k \in Launchers : open[k] \cap waiting[k] = {}
      OBVIOUS
    <2>3. /\ todo' \in [Launchers -> SUBSET Trials]
          /\ \A k \in Launchers : todo'[k] \subseteq todo[k]
      <3> HIDE DEF TypeInv, TypeOK, ActiveInv
      <3>1. {} \in SUBSET Trials
        OBVIOUS
      <3>2. todo' = todo \/ todo' = [todo EXCEPT ![l] = {}]
        BY <2>2
      <3> QED  BY <2>0, <3>1, <3>2
    <2>4. {waiting, open}' \subseteq [Launchers -> SUBSET Tasks]
      <3> HIDE DEF TypeInv, TypeOK, ActiveInv
      <3>1. {} \in SUBSET Tasks
        OBVIOUS
      <3>2. waiting' = waiting \/ waiting' = [waiting EXCEPT ![l] = {}]
        BY <2>2
      <3>3. open' = open \/ open' = [open EXCEPT ![l] = {}]
        BY <2>2
      <3>4. waiting' \in [Launchers -> SUBSET Tasks]
        BY <2>0, <3>1, <3>2
      <3>5. open' \in [Launchers -> SUBSET Tasks]
        BY <2>0, <3>1, <3>3
      <3> QED  BY <3>4, <3>5
    <2>5. \A k \in Launchers : open'[k] \cap waiting'[k] = {}
      <3> HIDE DEF TypeInv, TypeOK, ActiveInv
      <3> QED  BY <2>0, <2>2
    <2>6. /\ pc' \in [Launchers -> {"off", "enter", "submit", "wait", "draining", "ended", "failed"}]
          /\ \A k \in Launchers : pc'[k] \in Over => pc'[k] = pc[k]
          /\ pc[l] \notin Over
          /\ \A k \in Launchers : pc'[k] # "off" => pc[k] # "off"
      BY <2>1
    <2>7. TypeOK'
      BY <2>1, <2>3, <2>4, <2>5, <2>6
    <2>8. ActiveInv'
      BY <2>1, <2>3, <2>6
    <2> QED  BY <2>7, <2>8
  <1>3. ASSUME SubmitEnd(l) PROVE TypeInv'
    BY <1>3 DEF SubmitEnd, schedVars, threadVars, runVars, diskVars
  <1>4. ASSUME Collect(l) PROVE TypeInv'
    BY <1>4 DEF Collect, Active, schedVars, runVars, diskVars
  <1>5. ASSUME Drained(l) PROVE TypeInv'
    <2>1. /\ pc[l] = "draining" /\ pc' = [pc EXCEPT ![l] = "failed"]
          /\ \A t \in Plan(l) : th[t] \in {"none", "done", "raised"}
          /\ th' = [t \in Trials |-> IF OwnerOf[t] = l THEN "none" ELSE th[t]]
          /\ UNCHANGED <<launches, signals, stop, round, selected, todo, waiting, open,
                         rc, res, runner, strays, orphaned, traj, row>>
      BY <1>5 DEF Drained, Active, schedVars, runVars, diskVars
    <2>2. th' \in [Trials -> ThPos]
      BY <2>1
    <2>3. \A t \in Trials : th'[t] = th[t] \/ (OwnerOf[t] = l /\ th'[t] = "none" /\ th[t] # "run")
      BY <2>1 DEF Plan
    <2>4. /\ pc' \in [Launchers -> {"off", "enter", "submit", "wait", "draining", "ended", "failed"}]
          /\ \A k \in Launchers \ {l} : pc'[k] = pc[k]
          /\ pc'[l] # "off" /\ pc[l] # "off"
          /\ \A t \in Trials : OwnerOf[t] = l => th'[t] = "none"
      BY <2>1
    <2>5. TypeOK'
      BY <2>1, <2>2, <2>3, <2>4
    <2>6. ActiveInv'
      BY <2>1, <2>3, <2>4
    <2> QED  BY <2>5, <2>6
  <1>6. ASSUME PassEnd(l) PROVE TypeInv'
    <2>1. /\ pc[l] = "wait"
          /\ \E at \in {"enter", "ended"} : pc' = [pc EXCEPT ![l] = at]
          /\ \A t \in Plan(l) : th[t] = "none"
          /\ UNCHANGED <<launches, signals, stop, selected, waiting, open, th,
                         rc, res, runner, strays, orphaned, traj, row>>
      BY <1>6 DEF PassEnd, Active, threadVars, runVars, diskVars
    <2>2. \/ UNCHANGED <<round, todo>>
          \/ /\ round[l] < RetryRounds
             /\ round' = [round EXCEPT ![l] = @ + 1]
             /\ todo' = [todo EXCEPT ![l] = Retryable(l)]
      BY <1>6 DEF PassEnd
    <2>3. Retryable(l) \subseteq selected[l] /\ selected[l] \subseteq Trials
      BY DEF Retryable, Plan
    <2>4. /\ todo' \in [Launchers -> SUBSET Trials]
          /\ \A k \in Launchers : todo'[k] \subseteq selected[k]
          /\ \A k \in Launchers \ {l} : todo'[k] = todo[k]
      <3>0. /\ todo \in [Launchers -> SUBSET Trials]
            /\ \A k \in Launchers : todo[k] \subseteq selected[k]
        OBVIOUS
      <3>1. todo' = todo \/ todo' = [todo EXCEPT ![l] = Retryable(l)]
        BY <2>2
      <3> HIDE DEF TypeInv, TypeOK, ActiveInv
      <3>2. Retryable(l) \in SUBSET Trials
        BY <2>3
      <3>3. todo' \in [Launchers -> SUBSET Trials]
        BY <3>0, <3>1, <3>2
      <3>4. \A k \in Launchers : k # l => todo'[k] = todo[k]
        BY <3>0, <3>1
      <3>5. todo'[l] = todo[l] \/ todo'[l] = Retryable(l)
        BY <3>0, <3>1
      <3>6. \A k \in Launchers : todo'[k] \subseteq selected[k]
        BY <2>3, <3>0, <3>4, <3>5
      <3> QED  BY <3>3, <3>4, <3>6
    <2>5. round' \in [Launchers -> 0..RetryRounds]
      BY <2>2
    <2>6. /\ pc' \in [Launchers -> {"off", "enter", "submit", "wait", "draining", "ended", "failed"}]
          /\ \A k \in Launchers \ {l} : pc'[k] = pc[k]
          /\ pc[l] # "off"
      BY <2>1
    <2>7. TypeOK'
      BY <2>1, <2>4, <2>5, <2>6
    <2>8. \A t \in Trials : OwnerOf[t] = l => th'[t] = "none"
      BY <2>1 DEF Plan
    <2>9. ActiveInv'
      BY <2>1, <2>4, <2>6, <2>8
    <2> QED  BY <2>7, <2>9
  <1>7. ASSUME NEW t \in Plan(l), Submit(l, t) PROVE TypeInv'
    <2>1. TypeOK'
      BY <1>7 DEF Submit, Ready, Busy, Active, Plan, runVars, diskVars
    <2>2. ActiveInv'
      BY <1>7 DEF Submit, Ready, Busy, Active, Plan, runVars, diskVars
    <2> QED  BY <2>1, <2>2
  <1>8. ASSUME NEW k \in Tasks, CloseTask(l, k) PROVE TypeInv'
    BY <1>8 DEF CloseTask, FillWindow, threadVars, runVars, diskVars
  <1>9. ASSUME Sigint(l) PROVE TypeInv'
    BY <1>9 DEF Sigint, schedVars, threadVars, runVars, diskVars
  <1> QED
    BY <1>1, <1>2, <1>3, <1>4, <1>5, <1>6, <1>7, <1>8, <1>9 DEF Main

LEMMA KillTypes ==
    ASSUME TypeInv, NEW l \in Launchers, Kill(l) \/ Crash(l)
    PROVE  TypeInv'
  <1> USE DEF TypeInv, TypeOK, ActiveInv, Over, ThPos, RunnerPos
  <1>1. ASSUME Kill(l) PROVE TypeInv'
    BY <1>1 DEF Kill, Killed, StillRunning, Plan, schedVars
  <1>2. ASSUME Crash(l) PROVE TypeInv'
    BY <1>2 DEF Crash, Killed, Plan, schedVars
  <1> QED  BY <1>1, <1>2

\* The steps of a worker thread, of its runner and of a stray runner.
LEMMA ThreadTypes ==
    ASSUME TypeInv, NEW t \in Trials, Thread(t) \/ RecordRaise(t)
    PROVE  TypeInv'
  <1> USE DEF TypeInv, TypeOK, ActiveInv, Over, ThPos, RunnerPos
  <1>1. ASSUME RecordBegin(t) PROVE TypeInv'
    <2>1. /\ th[t] = "queued"
          /\ \/ th' = [th EXCEPT ![t] = "done"] /\ res' = [res EXCEPT ![t] = "skipped"]
             \/ th' = [th EXCEPT ![t] = "lock"] /\ res' = res
          /\ UNCHANGED <<launches, signals, pc, stop, round, selected, todo, waiting, open,
                         rc, runner, strays, orphaned, traj, row>>
      BY <1>1 DEF RecordBegin, schedVars, runVars, diskVars
    <2>2. /\ th' \in [Trials -> ThPos]
          /\ \A u \in Trials : th'[u] = "none" <=> th[u] = "none"
          /\ \A u \in Trials : th'[u] = "run" <=> th[u] = "run"
      BY <2>1
    <2>3. res' \in [Trials -> {"none", "ok", "failed", "skipped"}]
      BY <2>1
    <2>4. TypeOK'
      BY <2>1, <2>2, <2>3
    <2>5. ActiveInv'
      BY <2>1, <2>2
    <2> QED  BY <2>4, <2>5
  <1>2. ASSUME RecordLock(t) PROVE TypeInv'
    BY <1>2 DEF RecordLock, schedVars, runVars, diskVars
  <1>3. ASSUME RecordStart(t) PROVE TypeInv'
    <2>1. TypeOK'
      <3>1. /\ th[t] = "flock"
            /\ \/ th' = [th EXCEPT ![t] = "done"] /\ res' = [res EXCEPT ![t] = "skipped"]
                  /\ runner' = runner
               \/ th' = [th EXCEPT ![t] = "check"] /\ res' = res /\ runner' = runner
               \/ th' = [th EXCEPT ![t] = "run"] /\ res' = res
                  /\ runner' = [runner EXCEPT ![t] = "agent"]
            /\ UNCHANGED <<launches, signals, pc, stop, round, selected, todo, waiting, open,
                           rc, strays, orphaned, traj, row>>
        BY <1>3 DEF RecordStart, schedVars, diskVars
      <3>2. th' \in [Trials -> ThPos]
        <4>1. th \in [Trials -> ThPos]
          OBVIOUS
        <4>2. \E at \in ThPos : th' = [th EXCEPT ![t] = at]
          BY <3>1
        <4> HIDE DEF TypeInv, TypeOK, ActiveInv
        <4> QED  BY <4>1, <4>2
      <3>3. res' \in [Trials -> {"none", "ok", "failed", "skipped"}]
        <4>1. res \in [Trials -> {"none", "ok", "failed", "skipped"}]
          OBVIOUS
        <4>2. res' = res \/ res' = [res EXCEPT ![t] = "skipped"]
          BY <3>1
        <4> HIDE DEF TypeInv, TypeOK, ActiveInv
        <4> QED  BY <4>1, <4>2
      <3>4. \A u \in Trials : IF th'[u] = "run" THEN runner'[u] \in RunnerPos
                                                ELSE runner'[u] = "off"
        BY <3>1
      <3> QED  BY <3>1, <3>2, <3>3, <3>4
    <2>2. /\ th[t] # "none"
          /\ \A u \in Trials : th'[u] = "none" <=> th[u] = "none"
          /\ UNCHANGED <<launches, pc, todo, selected>>
      BY <1>3 DEF RecordStart, schedVars
    <2>3. runner' \in [Trials -> RunnerPos \cup {"off"}]
      BY <1>3 DEF RecordStart
    <2>4. ActiveInv'
      BY <2>2, <2>3
    <2> QED  BY <2>1, <2>4
  <1>4. ASSUME RecordStatus(t) PROVE TypeInv'
    BY <1>4 DEF RecordStatus, Verdict, schedVars, runVars, diskVars
  <1>5. ASSUME RecordRaise(t) PROVE TypeInv'
    BY <1>5 DEF RecordRaise, schedVars, runVars, diskVars
  <1> QED
    BY <1>1, <1>2, <1>3, <1>4, <1>5 DEF Thread

LEMMA RunnerTypes ==
    ASSUME TypeInv, NEW t \in Trials, Runner(t)
    PROVE  TypeInv'
  <1> USE DEF TypeInv, TypeOK, ActiveInv, Over, ThPos, RunnerPos
  <1>1. ASSUME RunnerSave(t) PROVE TypeInv'
    BY <1>1 DEF RunnerSave, SaveTrajectory, schedVars, threadVars
  <1>2. ASSUME RunnerRow(t) PROVE TypeInv'
    BY <1>2 DEF RunnerRow, AppendRow, schedVars, threadVars
  <1>3. ASSUME RunnerExit(t) PROVE TypeInv'
    <2>1. TypeOK'
      BY <1>3, SMTT(60) DEF RunnerExit, Reap, schedVars
    <2>2. ActiveInv'
      BY <1>3 DEF RunnerExit, Reap, schedVars
    <2> QED  BY <2>1, <2>2
  <1>4. ASSUME RunnerDie(t) PROVE TypeInv'
    <2>1. TypeOK'
      BY <1>4, SMTT(60) DEF RunnerDie, Reap, schedVars
    <2>2. ActiveInv'
      BY <1>4 DEF RunnerDie, Reap, schedVars
    <2> QED  BY <2>1, <2>2
  <1> QED
    BY <1>1, <1>2, <1>3, <1>4 DEF Runner

\* A stray runner writes to the files of a trial that is orphaned.
LEMMA StraySteps ==
    ASSUME TypeOK, NEW s \in strays, Stray(s[1], s[2], s[3])
    PROVE  /\ s[1] \in Trials \cap orphaned
           /\ UNCHANGED <<launches, signals, pc, stop, round, schedVars,
                          threadVars, runner, orphaned>>
           /\ strays' \subseteq Trials \X (1..MaxLaunches) \X RunnerPos
           /\ {x[1] : x \in strays'} \subseteq orphaned
           /\ traj' \subseteq Trials
           /\ row' \in [Trials -> {"none", "torn", "final"}]
           /\ \A t \in Trials \ {s[1]} :
                 row'[t] = row[t] /\ (t \in traj' <=> t \in traj)
  <1>1. /\ s[1] \in Trials /\ s[2] \in 1..MaxLaunches /\ s[3] \in RunnerPos
        /\ s[1] \in orphaned
    BY DEF TypeOK
  <1>2. /\ UNCHANGED <<launches, signals, pc, stop, round, schedVars,
                       threadVars, runner, orphaned>>
        /\ \E to \in RunnerPos :
              strays' \subseteq strays \cup {<<s[1], s[2], to>>}
    BY <1>1 DEF Stray, RunnerPos
  <1>3. /\ traj' = traj \/ traj' = traj \cup {s[1]}
        /\ \E x \in {"none", "torn", "final"} :
              row' = row \/ row' = [row EXCEPT ![s[1]] = x]
    BY DEF Stray, SaveTrajectory, AppendRow, diskVars
  <1> QED
    BY <1>1, <1>2, <1>3 DEF TypeOK

LEMMA StrayTypes ==
    ASSUME TypeInv, NEW s \in strays, Stray(s[1], s[2], s[3])
    PROVE  TypeInv'
  BY StraySteps DEF TypeInv, TypeOK, ActiveInv, schedVars, threadVars

LEMMA TypeStep == TypeInv /\ [Next]_vars => TypeInv'
  <1>1. TypeInv /\ UNCHANGED vars => TypeInv'
    BY DEF vars, schedVars, threadVars, runVars, diskVars, TypeInv, TypeOK,
           ActiveInv
  <1> QED
    BY <1>1, MainTypes, KillTypes, ThreadTypes, RunnerTypes, StrayTypes
    DEF Next

\* Every variable keeps its type.
THEOREM TypeCorrect == Spec => []TypeOK
  <1>1. Spec => []TypeInv
    BY InitInv, TypeStep, PTL DEF Spec
  <1>2. TypeInv => TypeOK
    BY DEF TypeInv
  <1> QED
    BY <1>1, <1>2, PTL

-----------------------------------------------------------------------------
(* Locks.                                                                  *)

LEMMA ClawStep == TypeInv /\ ClawInv /\ [Next]_vars => ClawInv'
  <1> SUFFICES ASSUME TypeInv, ClawInv, [Next]_vars PROVE ClawInv'
    OBVIOUS
  <1>1. /\ th \in [Trials -> ThPos]
        /\ Claw \subseteq Trials
    BY DEF TypeInv, TypeOK
  \* A thread that starts its runner has found the file lock free.
  <1>2. ASSUME NEW t \in Trials, RecordStart(t)
        PROVE  ClawInv'
    BY <1>1, <1>2 DEF RecordStart, FileLockFree, ClawInv, ThPos
  \* No other step starts a runner.
  <1>3. ASSUME \A t \in Trials : th'[t] = "run" => th[t] = "run"
        PROVE  ClawInv'
    BY <1>1, <1>3 DEF ClawInv
  <1>4. ASSUME NEW l \in Launchers,
               Launch(l) \/ Main(l) \/ Sigint(l) \/ Kill(l) \/ Crash(l)
        PROVE  ClawInv'
    <2>1. ASSUME \/ Launch(l) \/ SubmitEnter(l) \/ SubmitEnd(l) \/ PassEnd(l)
                 \/ Sigint(l) \/ \E k \in Tasks : CloseTask(l, k)
          PROVE  th' = th
      BY <2>1 DEF Launch, SubmitEnter, SubmitEnd, PassEnd, Sigint, CloseTask,
                  threadVars
    <2>2. ASSUME Collect(l) \/ Drained(l) \/ Kill(l) \/ Crash(l)
          PROVE  \A t \in Trials : th'[t] \in {"none", th[t]}
      BY <2>2 DEF Collect, Drained, Kill, Crash, Killed
    <2>3. ASSUME NEW t \in Plan(l), Submit(l, t)
          PROVE  th' = [th EXCEPT ![t] = "queued"]
      BY <2>3 DEF Submit
    <2> QED
      BY <1>1, <1>3, <1>4, <2>1, <2>2, <2>3 DEF Main, Plan
  <1>5. ASSUME NEW t \in Trials, Thread(t) \/ RecordRaise(t) \/ Runner(t)
        PROVE  ClawInv'
    BY <1>1, <1>2, <1>3, <1>5
    DEF Thread, RecordBegin, RecordLock, RecordStatus, RecordRaise, Runner,
        RunnerSave, RunnerRow, RunnerExit, RunnerDie, Reap, threadVars, ThPos
  <1>6. ASSUME NEW s \in strays, Stray(s[1], s[2], s[3]) PROVE ClawInv'
    BY <1>3, <1>6 DEF Stray, threadVars
  <1>7. CASE UNCHANGED vars
    BY <1>3, <1>7 DEF vars, threadVars
  <1> QED
    BY <1>4, <1>5, <1>6, <1>7 DEF Next

\* .claw_global.lock: at most one Claw runner is waited for, by any launcher.
THEOREM OneClawHolds == Spec => []OneClaw
  <1>1. TypeInv /\ ClawInv => OneClaw
    <2> SUFFICES ASSUME ClawInv PROVE OneClaw
      OBVIOUS
    <2> DEFINE R == {t \in Claw : th[t] = "run"}
    <2>1. R = {} => Cardinality(R) = 0
      BY FS_EmptySet
    <2>2. ASSUME NEW t \in R PROVE Cardinality(R) = 1
      <3>1. R = {t}
        BY DEF ClawInv
      <3> QED  BY <3>1, FS_Singleton
    <2> QED
      BY <2>1, <2>2 DEF OneClaw
  <1>2. Spec => [](TypeInv /\ ClawInv)
    BY InitInv, TypeStep, ClawStep, PTL DEF Spec
  <1> QED
    BY <1>1, <1>2, PTL

\* The scheduler submits no record while another one of its task is active, so
\* no worker ever waits for the lock of a task.
THEOREM NoSlotBlockedHolds == Spec => []NoSlotBlocked
  <1>1. TypeInv => NoSlotBlocked
    <2> SUFFICES ASSUME TypeInv, NEW t \in Trials, th[t] = "lock", t \notin Claw,
                        NEW u \in Active(OwnerOf[t]) \ {t}, SameLock(t, u)
                 PROVE  FALSE
      BY DEF NoSlotBlocked, LockFree
    <2> QED
      BY DEF SameLock, Active, Plan, TypeInv, ActiveInv
  <1>2. Spec => []TypeInv
    BY InitInv, TypeStep, PTL DEF Spec
  <1> QED
    BY <1>1, <1>2, PTL

-----------------------------------------------------------------------------
(* What is on disk.                                                        *)

\* What a step may change of a trial that the disk invariant speaks of.
LEMMA DiskStep == TypeInv /\ DiskInv /\ [Next]_vars => DiskInv'
  <1> SUFFICES ASSUME TypeInv, DiskInv, [Next]_vars PROVE DiskInv'
    OBVIOUS
  <1> USE DEF DiskInv, ThPos
  <1>0. /\ th \in [Trials -> ThPos]
        /\ res \in [Trials -> {"none", "ok", "failed", "skipped"}]
        /\ row \in [Trials -> {"none", "torn", "final"}]
        /\ rc \in [Trials -> BOOLEAN]
        /\ {todo, selected} \subseteq [Launchers -> SUBSET Trials]
        /\ \A t \in Trials : /\ OwnerOf[t] \in Launchers
                             /\ runner[t] # "off" => th[t] = "run"
    BY DEF TypeInv, TypeOK, ActiveInv
  \* Steps that neither submit nor queue a record nor touch a file.
  <1>1. ASSUME \A t \in Trials :
                  /\ th'[t] \in {"none", th[t]}
                  /\ t \in todo'[OwnerOf[t]] => t \in todo[OwnerOf[t]],
               UNCHANGED <<res, traj, row>>, orphaned \subseteq orphaned'
        PROVE  DiskInv'
    BY <1>1
  <1>2. ASSUME NEW l \in Launchers, Main(l) \/ Launch(l) \/ Sigint(l)
        PROVE  DiskInv'
    <2>1. ASSUME \/ SubmitEnter(l) \/ SubmitEnd(l) \/ Collect(l) \/ Drained(l)
                 \/ Sigint(l) \/ \E k \in Tasks : CloseTask(l, k)
          PROVE  DiskInv'
      <3>1. \A t \in Trials : th'[t] \in {"none", th[t]}
        <4>1. ASSUME ~Collect(l), ~Drained(l) PROVE th' = th
          BY <2>1, <4>1
          DEF SubmitEnter, SubmitEnd, Sigint, CloseTask, threadVars
        <4>2. ASSUME Collect(l) \/ Drained(l)
              PROVE  \A t \in Trials : th'[t] \in {"none", th[t]}
          BY <4>2 DEF Collect, Drained
        <4> QED  BY <4>1, <4>2
      <3>2. \A t \in Trials : t \in todo'[OwnerOf[t]] => t \in todo[OwnerOf[t]]
        <4>1. todo' = todo \/ todo' = [todo EXCEPT ![l] = {}]
          BY <2>1
          DEF SubmitEnter, SubmitEnd, Collect, Drained, Sigint, CloseTask,
              schedVars
        <4> QED  BY <1>0, <4>1
      <3>3. UNCHANGED <<res, traj, row, orphaned>>
        BY <2>1
        DEF SubmitEnter, SubmitEnd, Collect, Drained, Sigint, CloseTask,
            threadVars, diskVars, runVars
      <3> QED
        BY <1>1, <3>1, <3>2, <3>3
    <2>2. ASSUME Launch(l) PROVE DiskInv'
      BY <1>0, <2>2, SMTT(30)
      DEF Launch, Selection, Plan, TypeInv, ActiveInv, Over, runVars, diskVars
    <2>3. ASSUME PassEnd(l) PROVE DiskInv'
      BY <1>0, <2>3, SMTT(30)
      DEF PassEnd, Retryable, Active, Plan, threadVars, runVars, diskVars
    <2>4. ASSUME NEW t \in Plan(l), Submit(l, t) PROVE DiskInv'
      BY <1>0, <2>4 DEF Submit, Ready, Plan, runVars, diskVars
    <2> QED
      BY <1>2, <2>1, <2>2, <2>3, <2>4 DEF Main
  <1>3. ASSUME NEW l \in Launchers, Kill(l) PROVE DiskInv'
    BY <1>0, <1>1, <1>3 DEF Kill, Killed, schedVars
  <1>4. ASSUME NEW l \in Launchers, Crash(l) PROVE DiskInv'
    BY <1>0, <1>4, SMTT(30) DEF Crash, Killed, Plan, schedVars
  <1>5. ASSUME NEW t \in Trials, Thread(t) \/ RecordRaise(t) PROVE DiskInv'
    <2>1. ASSUME RecordBegin(t) \/ RecordLock(t) PROVE DiskInv'
      BY <1>0, <2>1, SMTT(30)
      DEF RecordBegin, RecordLock, schedVars, runVars, diskVars
    <2>2. ASSUME RecordStart(t) \/ RecordRaise(t) PROVE DiskInv'
      BY <1>0, <2>2, SMTT(30)
      DEF RecordStart, RecordRaise, schedVars, runVars, diskVars
    <2>3. ASSUME RecordStatus(t) PROVE DiskInv'
      <3>1. t \notin todo[OwnerOf[t]]
        BY <2>3 DEF RecordStatus, TypeInv, ActiveInv
      <3> QED
        BY <1>0, <2>3, <3>1, SMTT(30)
        DEF RecordStatus, Verdict, schedVars, runVars, diskVars
    <2> QED
      BY <1>5, <2>1, <2>2, <2>3 DEF Thread
  \* A runner works for a trial that has not succeeded and is not queued.
  <1>6. ASSUME NEW t \in Trials, Runner(t) PROVE DiskInv'
    <2>1. /\ th[t] = "run" /\ t \notin todo[OwnerOf[t]]
          /\ \A u \in Trials \ {t} : row'[u] = row[u] /\ th'[u] = th[u]
          /\ th'[t] \in {"run", "check"}
          /\ traj \subseteq traj'
          /\ UNCHANGED <<todo, res, orphaned>>
      BY <1>0, <1>6
      DEF Runner, RunnerSave, RunnerRow, RunnerExit, RunnerDie, SaveTrajectory,
          AppendRow, Reap, schedVars, threadVars, TypeInv, ActiveInv
    <2> QED
      BY <1>0, <2>1
  <1>7. ASSUME NEW s \in strays, Stray(s[1], s[2], s[3]) PROVE DiskInv'
    BY <1>0, <1>7, StraySteps DEF TypeInv, schedVars, threadVars
  <1>8. CASE UNCHANGED vars
    BY <1>8 DEF vars, schedVars, threadVars, runVars, diskVars
  <1> QED
    BY <1>2, <1>3, <1>4, <1>5, <1>6, <1>7, <1>8 DEF Next

\* "ok" is believed only of a trial with a trajectory and a final row, and
\* stays true of it: its files are written by no later attempt.
THEOREM OkIsBackedHolds == Spec => []OkIsBacked
  <1>1. TypeInv /\ DiskInv => OkIsBacked
    BY DEF DiskInv, OkIsBacked
  <1>2. Spec => [](TypeInv /\ DiskInv)
    BY InitInv, TypeStep, DiskStep, PTL DEF Spec
  <1> QED
    BY <1>1, <1>2, PTL

\* A runner is started only by the thread of a trial without a final row.
THEOREM FinalNeverRerunHolds == Spec => FinalNeverRerun
  <1> DEFINE Rerun == \A t \in Trials :
                          runner[t] = "off" /\ runner'[t] # "off" /\ t \notin orphaned =>
                              row[t] # "final"
  <1>1. TypeInv /\ DiskInv /\ [Next]_vars => Rerun
    <2> SUFFICES ASSUME TypeInv, DiskInv, [Next]_vars,
                        NEW t \in Trials, runner[t] = "off", runner'[t] # "off",
                        t \notin orphaned
                 PROVE  row[t] # "final"
      OBVIOUS
    <2>0. runner \in [Trials -> RunnerPos \cup {"off"}]
      BY DEF TypeInv, ActiveInv
    <2>1. ASSUME NEW u \in Trials, RecordStart(u) PROVE row[t] # "final"
      BY <2>0, <2>1 DEF RecordStart, DiskInv
    <2>2. ASSUME NEW l \in Launchers, Main(l) \/ Launch(l) \/ Sigint(l)
          PROVE  FALSE
      BY <2>2
      DEF Main, Launch, SubmitEnter, SubmitEnd, Collect, Drained, PassEnd, Submit,
          CloseTask, Sigint, runVars
    <2>3. ASSUME NEW l \in Launchers, Kill(l) \/ Crash(l) PROVE FALSE
      BY <2>3 DEF Kill, Crash, Killed
    <2>4. ASSUME NEW u \in Trials, ~RecordStart(u), Thread(u) \/ RecordRaise(u)
          PROVE  FALSE
      BY <2>4 DEF Thread, RecordBegin, RecordLock, RecordStatus, RecordRaise,
                  runVars
    <2>5. ASSUME NEW u \in Trials, Runner(u) PROVE FALSE
      BY <2>0, <2>5
      DEF Runner, RunnerSave, RunnerRow, RunnerExit, RunnerDie, Reap, RunnerPos
    <2>6. ASSUME NEW s \in strays, Stray(s[1], s[2], s[3]) PROVE FALSE
      BY <2>6 DEF Stray
    <2>7. CASE UNCHANGED vars
      BY <2>7 DEF vars, runVars
    <2> QED
      BY <2>1, <2>2, <2>3, <2>4, <2>5, <2>6, <2>7 DEF Next
  <1>2. Spec => [](TypeInv /\ DiskInv)
    BY InitInv, TypeStep, DiskStep, PTL DEF Spec
  <1>3. TypeInv /\ DiskInv /\ [Next]_vars => [Rerun]_vars
    BY <1>1
  <1> QED
    BY <1>2, <1>3, PTL DEF Spec, FinalNeverRerun

-----------------------------------------------------------------------------
(* The schedule.                                                           *)

InPass == {"enter", "submit", "wait"}

\* In the windowed pass every queued record is of an open or a pending task,
\* and the window is not empty while a task is pending.  The main thread waits
\* with nothing active only when nothing is queued.  A selected record is
\* queued, active, or has been tried.
SchedInv ==
    \A l \in Launchers :
        /\ TaskWindow > 0 /\ round[l] = 0 /\ pc[l] \in InPass =>
              /\ \A t \in todo[l] : TaskOf[t] \in open[l] \cup waiting[l]
              /\ open[l] = {} => waiting[l] = {}
        /\ pc[l] = "wait" /\ ~stop[l] /\ Active(l) = {} => todo[l] = {}
        /\ ~stop[l] /\ pc[l] \in InPass \cup {"ended"} =>
              \A t \in selected[l] :
                  \/ t \in todo[l] /\ pc[l] # "ended"
                  \/ th[t] \notin {"none", "done"}
                  \/ res[t] \in {"ok", "failed"}

LEMMA FiniteTasks == IsFiniteSet(Tasks)
  <1> DEFINE f == [t \in Trials |-> TaskOf[t]]
  <1>1. f \in Surjection(Trials, Tasks)
    BY DEF Surjection, Tasks
  <1> QED
    BY <1>1, FS_Surjection

\* fill_task_window leaves no task pending beside an empty window.
LEMMA FillWindowOpens ==
    ASSUME TypeOK, TaskWindow > 0, NEW l \in Launchers,
           NEW w \in SUBSET Tasks, NEW o \in SUBSET Tasks, FillWindow(l, w, o)
    PROVE  /\ open'[l] \cup waiting'[l] = o \cup w
           /\ open'[l] = {} => waiting'[l] = {}
           /\ \A k \in Launchers \ {l} : open'[k] = open[k] /\ waiting'[k] = waiting[k]
  <1>1. PICK f \in SUBSET w :
            /\ Cardinality(f) = IF Cardinality(w) < TaskWindow - Cardinality(o)
                                THEN Cardinality(w) ELSE TaskWindow - Cardinality(o)
            /\ waiting' = [waiting EXCEPT ![l] = w \ f]
            /\ open' = [open EXCEPT ![l] = o \cup f]
    BY DEF FillWindow
  <1>2. {waiting, open} \subseteq [Launchers -> SUBSET Tasks]
    BY DEF TypeOK
  <1>3. ASSUME o \cup f = {} PROVE w = {}
    <2>1. Cardinality(o) = 0 /\ Cardinality(f) = 0
      BY <1>3, FS_EmptySet
    <2>2. IsFiniteSet(w) /\ Cardinality(w) \in Nat
      BY FiniteTasks, FS_Subset, FS_CardinalityType
    <2>3. Cardinality(w) = 0
      BY <1>1, <2>1, <2>2
    <2> QED
      BY <2>2, <2>3, FS_EmptySet
  <1> QED
    BY <1>1, <1>2, <1>3

\* With nothing active, submit_ready stops only when nothing is queued.
LEMMA SubmitEndStep ==
    ASSUME TypeInv, SchedInv, NEW l \in Launchers, SubmitEnd(l), Active(l) = {}
    PROVE  todo[l] = {}
  <1>1. Cardinality(Active(l)) = 0
    BY FS_EmptySet
  <1>2. /\ pc[l] = "submit" /\ Ready(l) = {}
        /\ Windowed(l) => Exhausted(l) = {}
    BY <1>1 DEF SubmitEnd
  <1>3. \A k : ~Busy(l, k)
    BY DEF Busy
  <1>4. ASSUME NEW t \in todo[l] PROVE Windowed(l) /\ TaskOf[t] \notin open[l]
    <2>1. t \in Trials
      BY DEF TypeInv, ActiveInv
    <2>2. {u \in Active(l) : BenchOf[u] = BenchOf[t]} = {}
      OBVIOUS
    <2>3. /\ Cardinality({u \in Active(l) : BenchOf[u] = BenchOf[t]}) = 0
          /\ BenchCap[BenchOf[t]] \in Nat \ {0}
      BY <2>1, <2>2, FS_EmptySet
    <2> QED
      BY <1>2, <1>3, <2>3 DEF Ready, Admitted
  <1>5. ASSUME NEW t \in todo[l] PROVE FALSE
    <2>1. /\ TaskWindow > 0 /\ round[l] = 0
          /\ TaskOf[t] \in waiting[l]
      BY <1>2, <1>4, <1>5 DEF SchedInv, Windowed, InPass
    <2>2. PICK k \in open[l] : TRUE
      BY <1>2, <2>1 DEF SchedInv, InPass
    <2>3. PICK u \in todo[l] : TaskOf[u] = k
      BY <1>2, <1>3, <1>4, <1>5 DEF Exhausted
    <2> QED
      BY <1>4, <2>3
  <1> QED
    BY <1>5

LEMMA InitSched == Init => SchedInv
  BY DEF Init, SchedInv, InPass

\* The main thread of l; another launcher's records are not concerned.
LEMMA SchedMain ==
    ASSUME TypeInv, SchedInv, NEW l \in Launchers,
           Main(l) \/ Launch(l) \/ Sigint(l)
    PROVE  SchedInv'
  <1> DEFINE Kept(k) ==
        /\ TaskWindow > 0 /\ round[k] = 0 /\ pc[k] \in InPass =>
              /\ \A t \in todo[k] : TaskOf[t] \in open[k] \cup waiting[k]
              /\ open[k] = {} => waiting[k] = {}
        /\ pc[k] = "wait" /\ ~stop[k] /\ Active(k) = {} => todo[k] = {}
        /\ ~stop[k] /\ pc[k] \in InPass \cup {"ended"} =>
              \A t \in selected[k] :
                  \/ t \in todo[k] /\ pc[k] # "ended"
                  \/ th[t] \notin {"none", "done"}
                  \/ res[t] \in {"ok", "failed"}
  <1>0. /\ pc \in [Launchers -> Over \cup InPass \cup {"draining"}]
        /\ stop \in [Launchers -> BOOLEAN]
        /\ round \in [Launchers -> 0..RetryRounds] /\ RetryRounds \in Nat
        /\ {todo, selected} \subseteq [Launchers -> SUBSET Trials]
        /\ {open, waiting} \subseteq [Launchers -> SUBSET Tasks]
        /\ \A k \in Launchers : todo[k] \subseteq selected[k] /\ selected[k] \subseteq Plan(k)
        /\ th \in [Trials -> ThPos]
        /\ res \in [Trials -> {"none", "ok", "failed", "skipped"}]
    BY DEF TypeInv, TypeOK, ActiveInv, Over, InPass
  <1>1. \A k \in Launchers : Kept(k)
    BY DEF SchedInv
  <1> SUFFICES \A k \in Launchers : Kept(k)'
    BY DEF SchedInv
  <1> USE DEF InPass
  \* What another launcher sees.
  <1>2. ASSUME NEW k \in Launchers \ {l},
               /\ pc'[k] = pc[k] /\ stop'[k] = stop[k] /\ round'[k] = round[k]
               /\ todo'[k] = todo[k] /\ selected'[k] = selected[k]
               /\ open'[k] = open[k] /\ waiting'[k] = waiting[k],
               \A t \in Plan(k) : th'[t] = th[t] /\ res'[t] = res[t]
        PROVE  Kept(k)'
    <2>1. Active(k)' = Active(k)
      BY <1>2 DEF Active
    <2> QED
      BY <1>0, <1>1, <1>2, <2>1
  <1>3. ASSUME Launch(l) PROVE \A k \in Launchers : Kept(k)'
    <2>1. Kept(l)'
      <3>1. /\ todo'[l] = Selection(l) /\ selected'[l] = Selection(l)
            /\ Selection(l) \subseteq Trials
            /\ pc'[l] = IF Selection(l) = {} THEN "ended" ELSE "enter"
        BY <1>0, <1>3 DEF Launch, Selection, Plan
      <3>2. ASSUME TaskWindow > 0
            PROVE  /\ \A t \in todo'[l] : TaskOf[t] \in open'[l] \cup waiting'[l]
                   /\ open'[l] = {} => waiting'[l] = {}
        <4> DEFINE W == {TaskOf[t] : t \in Selection(l)}
        <4>1. FillWindow(l, W, {}) /\ W \in SUBSET Tasks /\ {} \in SUBSET Tasks
          BY <1>3, <3>1, <3>2 DEF Launch, Tasks
        <4>2. /\ open'[l] \cup waiting'[l] = {} \cup W
              /\ open'[l] = {} => waiting'[l] = {}
          BY <3>2, <4>1, FillWindowOpens DEF TypeInv
        <4> QED  BY <3>1, <4>2
      <3> QED  BY <3>1, <3>2
    <2>2. ASSUME NEW k \in Launchers \ {l} PROVE Kept(k)'
      <3>1. open'[k] = open[k] /\ waiting'[k] = waiting[k]
        BY <1>0, <1>3 DEF Launch, FillWindow
      <3>2. /\ pc'[k] = pc[k] /\ stop'[k] = stop[k] /\ round'[k] = round[k]
            /\ todo'[k] = todo[k] /\ selected'[k] = selected[k]
        BY <1>0, <1>3, <2>2 DEF Launch
      <3>3. \A t \in Plan(k) : th'[t] = th[t] /\ res'[t] = res[t]
        BY <1>3, <2>2 DEF Launch, Plan
      <3> QED
        BY <1>2, <2>2, <3>1, <3>2, <3>3
    <2> QED  BY <2>1, <2>2
  <1>4. ASSUME SubmitEnter(l) PROVE \A k \in Launchers : Kept(k)'
    <2>1. ASSUME NEW k \in Launchers \ {l} PROVE Kept(k)'
      BY <1>0, <1>2, <1>4, <2>1 DEF SubmitEnter, threadVars
    <2>2. Kept(l)'
      BY <1>0, <1>1, <1>4 DEF SubmitEnter, threadVars
    <2> QED  BY <2>1, <2>2
  <1>5. ASSUME SubmitEnd(l) PROVE \A k \in Launchers : Kept(k)'
    <2>1. ASSUME NEW k \in Launchers \ {l} PROVE Kept(k)'
      BY <1>0, <1>2, <1>5, <2>1 DEF SubmitEnd, schedVars, threadVars
    <2>2. Active(l)' = Active(l)
      BY <1>5 DEF SubmitEnd, Active, threadVars
    <2>3. Kept(l)'
      BY <1>0, <1>1, <1>5, <2>2, SubmitEndStep
      DEF SubmitEnd, schedVars, threadVars
    <2> QED  BY <2>1, <2>3
  <1>6. ASSUME Collect(l) \/ Drained(l) PROVE \A k \in Launchers : Kept(k)'
    <2>1. ASSUME NEW k \in Launchers \ {l} PROVE Kept(k)'
      <3>1. \A t \in Plan(k) : t \in Trials /\ OwnerOf[t] # l
        BY <2>1 DEF Plan
      <3>2. \A t \in Plan(k) : th'[t] = th[t] /\ res'[t] = res[t]
        BY <1>6, <3>1 DEF Collect, Drained, Active, Plan
      <3>3. /\ UNCHANGED <<stop, round, schedVars>>
            /\ pc'[k] = pc[k]
        BY <1>0, <1>6, <2>1 DEF Collect, Drained
      <3> QED
        BY <1>2, <2>1, <3>2, <3>3 DEF schedVars
    <2>2. Kept(l)'
      BY <1>0, <1>1, <1>6 DEF Collect, Drained, schedVars, Active, ThPos
    <2> QED  BY <2>1, <2>2
  <1>7. ASSUME PassEnd(l) PROVE \A k \in Launchers : Kept(k)'
    <2>1. ASSUME NEW k \in Launchers \ {l} PROVE Kept(k)'
      BY <1>0, <1>2, <1>7, <2>1 DEF PassEnd, threadVars
    <2>2. ~stop[l] => \A t \in selected[l] : res[t] \in {"ok", "failed"}
      BY <1>0, <1>1, <1>7 DEF PassEnd, Active
    <2>3. Kept(l)'
      BY <1>0, <1>1, <1>7, <2>2 DEF PassEnd, threadVars
    <2> QED  BY <2>1, <2>3
  <1>8. ASSUME NEW t \in Plan(l), Submit(l, t) PROVE \A k \in Launchers : Kept(k)'
    <2>1. ASSUME NEW k \in Launchers \ {l} PROVE Kept(k)'
      BY <1>0, <1>2, <1>8, <2>1 DEF Submit, Plan
    <2>2. Kept(l)'
      BY <1>0, <1>1, <1>8 DEF Submit, Plan
    <2> QED  BY <2>1, <2>2
  <1>9. ASSUME NEW k \in Tasks, CloseTask(l, k)
        PROVE  \A j \in Launchers : Kept(j)'
    <2>1. /\ open[l] \ {k} \in SUBSET Tasks /\ waiting[l] \in SUBSET Tasks
          /\ TaskWindow > 0 /\ TypeOK
          /\ FillWindow(l, waiting[l], open[l] \ {k})
      BY <1>0, <1>9 DEF CloseTask, Windowed, TypeInv
    <2>2. /\ open'[l] \cup waiting'[l] = (open[l] \ {k}) \cup waiting[l]
          /\ open'[l] = {} => waiting'[l] = {}
          /\ \A j \in Launchers \ {l} : open'[j] = open[j] /\ waiting'[j] = waiting[j]
      BY <2>1, FillWindowOpens
    <2>3. \A t \in todo[l] : TaskOf[t] # k
      BY <1>9 DEF CloseTask, Exhausted
    <2>4. ASSUME NEW j \in Launchers \ {l} PROVE Kept(j)'
      BY <1>0, <1>2, <1>9, <2>2, <2>4 DEF CloseTask, threadVars
    <2>5. Kept(l)'
      BY <1>0, <1>1, <1>9, <2>2, <2>3 DEF CloseTask, threadVars
    <2> QED  BY <2>4, <2>5
  <1>10. ASSUME Sigint(l) PROVE \A k \in Launchers : Kept(k)'
    <2>1. ASSUME NEW k \in Launchers \ {l} PROVE Kept(k)'
      BY <1>0, <1>2, <1>10, <2>1 DEF Sigint, schedVars, threadVars
    <2>2. Kept(l)'
      BY <1>0, <1>1, <1>10 DEF Sigint, schedVars, threadVars
    <2> QED  BY <2>1, <2>2
  <1> QED
    BY <1>3, <1>4, <1>5, <1>6, <1>7, <1>8, <1>9, <1>10 DEF Main

\* The other steps leave the queues alone; a thread stays active, and when it
\* ends its trial has been tried unless the launcher was interrupted.
LEMMA SchedOther ==
    ASSUME TypeInv, SchedInv,
           \/ \E l \in Launchers : Kill(l) \/ Crash(l)
           \/ \E t \in Trials : Thread(t) \/ RecordRaise(t) \/ Runner(t)
           \/ \E s \in strays : Stray(s[1], s[2], s[3])
           \/ UNCHANGED vars
    PROVE  SchedInv'
  <1>0. /\ pc \in [Launchers -> Over \cup InPass \cup {"draining"}]
        /\ th \in [Trials -> ThPos]
        /\ res \in [Trials -> {"none", "ok", "failed", "skipped"}]
        /\ runner \in [Trials -> RunnerPos \cup {"off"}]
        /\ \A t \in Trials : /\ OwnerOf[t] \in Launchers
                             /\ runner[t] # "off" => th[t] = "run"
        /\ \A k \in Launchers : selected[k] \subseteq Plan(k)
    BY DEF TypeInv, TypeOK, ActiveInv, Over, InPass
  <1>1. ASSUME NEW l \in Launchers, Kill(l) \/ Crash(l) PROVE SchedInv'
    <2>1. /\ pc' = [pc EXCEPT ![l] = "off"]
          /\ \A t \in Trials : OwnerOf[t] # l => th'[t] = th[t]
          /\ UNCHANGED <<stop, round, schedVars, res>>
      BY <1>1 DEF Kill, Crash, Killed
    <2>2. \A k \in Launchers \ {l} : Active(k)' = Active(k)
      BY <2>1 DEF Active, Plan
    <2> QED
      BY <1>0, <2>1, <2>2 DEF SchedInv, InPass, schedVars, Plan
  <1>2. ASSUME UNCHANGED <<pc, stop, round, schedVars>>,
               th' \in [Trials -> ThPos],
               \A t \in Trials : th'[t] = "none" <=> th[t] = "none",
               \A t \in Trials : ~stop[OwnerOf[t]] =>
                   /\ th'[t] = "done" => th[t] = "done" \/ res'[t] \in {"ok", "failed"}
                   /\ res[t] \in {"ok", "failed"} => res'[t] \in {"ok", "failed"}
        PROVE  SchedInv'
    <2>1. \A k \in Launchers : Active(k)' = Active(k)
      BY <1>2 DEF Active, Plan
    <2> QED
      BY <1>0, <1>2, <2>1 DEF SchedInv, InPass, schedVars, Plan
  <1>3. ASSUME NEW t \in Trials, Thread(t) \/ RecordRaise(t) PROVE SchedInv'
    <2>1. /\ UNCHANGED <<pc, stop, round, schedVars>>
          /\ th[t] # "none"
          /\ \E to \in ThPos \ {"none"}, r \in {"ok", "failed", "skipped"} :
                /\ th' = [th EXCEPT ![t] = to]
                /\ res' = res \/ (res' = [res EXCEPT ![t] = r] /\ to = "done")
                /\ to = "done" => res' = [res EXCEPT ![t] = r]
                /\ r = "skipped" => stop[OwnerOf[t]]
      BY <1>3
      DEF Thread, RecordBegin, RecordLock, RecordStart, RecordStatus, RecordRaise,
          Verdict, ThPos
    <2>2. PICK to \in ThPos \ {"none"}, r \in {"ok", "failed", "skipped"} :
             /\ th' = [th EXCEPT ![t] = to]
             /\ res' = res \/ (res' = [res EXCEPT ![t] = r] /\ to = "done")
             /\ to = "done" => res' = [res EXCEPT ![t] = r]
             /\ r = "skipped" => stop[OwnerOf[t]]
      BY <2>1
    <2>3. th' \in [Trials -> ThPos]
      BY <1>0, <2>2
    <2>4. \A u \in Trials : th'[u] = "none" <=> th[u] = "none"
      BY <1>0, <2>1, <2>2
    <2>5. ASSUME NEW u \in Trials, ~stop[OwnerOf[u]]
          PROVE  /\ th'[u] = "done" => th[u] = "done" \/ res'[u] \in {"ok", "failed"}
                 /\ res[u] \in {"ok", "failed"} => res'[u] \in {"ok", "failed"}
      <3>1. CASE u = t
        BY <1>0, <2>2, <2>5, <3>1
      <3>2. CASE u # t
        BY <1>0, <2>2, <3>2
      <3> QED  BY <3>1, <3>2
    <2> QED
      BY <1>2, <2>1, <2>3, <2>4, <2>5
  <1>4. ASSUME NEW t \in Trials, Runner(t) PROVE SchedInv'
    <2>1. /\ UNCHANGED <<pc, stop, round, schedVars, res>>
          /\ th[t] = "run"
          /\ th' = th \/ th' = [th EXCEPT ![t] = "check"]
      BY <1>0, <1>4
      DEF Runner, RunnerSave, RunnerRow, RunnerExit, RunnerDie, Reap, threadVars,
          RunnerPos
    <2> QED
      BY <1>0, <1>2, <2>1 DEF ThPos
  <1>5. ASSUME UNCHANGED <<pc, stop, round, schedVars, threadVars>> PROVE SchedInv'
    BY <1>0, <1>2, <1>5 DEF threadVars
  <1> QED
    BY <1>1, <1>3, <1>4, <1>5 DEF Stray, vars

\* No selected record is stranded in the window or in a queue.
THEOREM NoneDroppedHolds == Spec => []NoneDropped
  <1>1. TypeInv /\ SchedInv => NoneDropped
    BY DEF TypeInv, ActiveInv, TypeOK, SchedInv, NoneDropped, Over, Plan
  <1>2. TypeInv /\ SchedInv /\ [Next]_vars => SchedInv'
    BY SchedMain, SchedOther DEF Next
  <1>3. Spec => [](TypeInv /\ SchedInv)
    BY InitInv, InitSched, TypeStep, <1>2, PTL DEF Spec
  <1> QED
    BY <1>1, <1>3, PTL

=============================================================================
