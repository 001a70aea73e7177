------------------------- MODULE RolloutBatchProofs -------------------------
(***************************************************************************)
(* The rollout engine keeps the gate of AbortGate, leaves no task behind   *)
(* between two steps, and hands over whole batches: for every data set,    *)
(* batch size, setting and number of evaluations.                          *)
(***************************************************************************)
EXTENDS RolloutBatch, FiniteSetTheorems, TLAPS

AbortPos == {"evalwait", "http", "drain"}
EvalPos == {"off", "want", "gate", "run", "over", "raised"}

\* What the lock, the two flags and the counter say at every position of the
\* step: the flags follow the position, the counter counts the evaluations
\* that run, and none runs once the workers are told.
GateInv ==
    /\ pc \in Positions
    /\ inProgress \in BOOLEAN /\ (inProgress <=> pc \in AbortPos)
    /\ aborted \in BOOLEAN /\ (aborted <=> pc \in {"http", "drain"})
    /\ epc \in [Evals -> EvalPos]
    /\ evaluating = {e \in Evals : epc[e] = "run"}
    /\ aborted => evaluating = {}

\* Steps that concern neither evaluations nor the abort.
GateView == <<inProgress, aborted, epc, evaluating>>
Aside == /\ UNCHANGED GateView
         /\ pc \in Positions \ AbortPos /\ pc' \in Positions \ AbortPos

USE DEF Positions

LEMMA InitGate == Init => GateInv
  BY DEF Init, GateInv, AbortPos, EvalPos

LEMMA StepLoopAside == StepLoop => Aside
  BY DEF StepLoop, StartStep, StepLoopFails, Fail, Aside, GateView, AbortPos,
         abortVars, evalVars

LEMMA FillAside == Fill => Aside
  <1>1. FillDone => Aside
    BY DEF FillDone, Aside, GateView, AbortPos, abortVars, evalVars
  <1>2. FillFromReady => Aside
    BY DEF FillFromReady, Aside, GateView, AbortPos, abortVars, evalVars,
           stepVars
  <1>3. FillFetches => Aside
    BY DEF FillFetches, Aside, GateView, AbortPos, abortVars, evalVars
  <1>4. FetchAll => Aside
    BY DEF FetchAll, Aside, GateView, AbortPos, abortVars, evalVars
  <1>5. FetchPairs => Aside
    BY DEF FetchPairs, Aside, GateView, AbortPos, abortVars, evalVars
  <1> QED
    BY <1>1, <1>2, <1>3, <1>4, <1>5 DEF Fill

LEMMA JudgeAside == ASSUME NEW g, JudgeGroup(g) PROVE Aside
  <1>1. /\ pc = "process"
        /\ UNCHANGED <<evalVars, abortVars>>
    BY DEF JudgeGroup, JudgeError, DropLate, DropRejected, DropAborted,
           KeepFiltered, KeepGroup, RefuseGroup, Rescue, JudgePair, Judge
  <1>2. pc' \in {"process", "failed"}
    BY <1>1 DEF JudgeGroup, JudgeError, DropLate, DropRejected, DropAborted,
           KeepFiltered, KeepGroup, RefuseGroup, Rescue, JudgePair, Stay
  <1> QED
    BY <1>1, <1>2 DEF Aside, GateView, AbortPos, abortVars, evalVars

LEMMA CollectingAside == Collecting => Aside
  <1>1. Collect => Aside
    BY DEF Collect, Aside, GateView, AbortPos, abortVars, evalVars
  <1>2. JudgedAll => Aside
    BY DEF JudgedAll, Aside, GateView, AbortPos, abortVars, evalVars
  <1> QED
    BY <1>1, <1>2, JudgeAside DEF Collecting

\* A task or a transfer that ends changes neither the position nor the gate.
LEMMA BackgroundSteps ==
    ASSUME Task \/ Transfer
    PROVE  UNCHANGED <<pc, GateView>>
  <1>1. Task => UNCHANGED <<pc, GateView>>
    BY DEF Task, Succeed, EndBadly, Break, BreakLate, Finish, FinishLate, EndsLate, GateView,
           stepVars, abortVars, evalVars
  <1>2. Transfer => UNCHANGED <<pc, GateView>>
    BY DEF Transfer, PutDone, PutRaises, Put, GateView, stepVars, abortVars,
           evalVars
  <1> QED
    BY <1>1, <1>2

LEMMA AsideKeeps == ASSUME GateInv, Aside PROVE GateInv' /\ UNCHANGED Gate!vars
  BY DEF GateInv, Aside, GateView, AbortPos, Gate!vars

\* The steps of the rollout coroutine from the last transfer to its return.
LEMMA EndingKeeps ==
    ASSUME GateInv, Ending
    PROVE  GateInv' /\ [Gate!Next]_Gate!vars
  <1> USE DEF AbortPos
  <1>1. ASSUME Gathered \/ GatherRaises PROVE Aside
    BY <1>1 DEF Gathered, GatherRaises, Fail, Aside, GateView, abortVars,
                evalVars
  <1>2. ASSUME AbortBegins PROVE GateInv' /\ Gate!Close
    BY <1>2 DEF AbortBegins, GateInv, Gate!Close, evalVars
  <1>3. ASSUME AbortRequests PROVE GateInv' /\ Gate!Abort
    <2>1. GateInv'
      BY <1>3 DEF AbortRequests, EvalsOver, GateInv, evalVars
    <2>2. Gate!Running = {}
      BY <1>3 DEF AbortRequests, EvalsOver, GateInv, Gate!Running, EvalPos
    <2> QED
      BY <1>3, <2>1, <2>2 DEF AbortRequests, GateInv, Gate!Abort, evalVars
  <1>4. ASSUME AbortSent PROVE GateInv' /\ UNCHANGED Gate!vars
    BY <1>4 DEF AbortSent, GateInv, Gate!vars, abortVars, evalVars
  <1>5. ASSUME AbortRaises \/ StepReturns PROVE GateInv' /\ Gate!Reopen
    <2>1. /\ pc = "http" \/ pc = "drain"
          /\ pc' = "failed" \/ pc' = "idle"
          /\ ~inProgress' /\ ~aborted'
          /\ inProgress' \in BOOLEAN /\ aborted' \in BOOLEAN
          /\ epc' = epc /\ evaluating' = evaluating
      BY <1>5 DEF AbortRaises, StepReturns, Fail, Reset, evalVars
    <2> QED
      BY <2>1 DEF GateInv, Gate!Reopen
  <1> QED
    BY <1>1, <1>2, <1>3, <1>4, <1>5, AsideKeeps DEF Ending, Gate!Next

\* An evaluation passes the lock or waits behind it; it runs only while no
\* abort is on.
LEMMA EvalKeeps ==
    ASSUME GateInv, NEW e \in Evals, Evaluate(e) \/ Eval(e)
    PROVE  GateInv' /\ [Gate!Next]_Gate!vars
  <1> USE DEF AbortPos, EvalPos
  <1>1. ASSUME Evaluate(e) PROVE GateInv' /\ Gate!Ask(e)
    <2>1. GateInv'
      BY <1>1 DEF Evaluate, GateInv, stepVars, abortVars
    <2>2. Gate!Ask(e)
      BY <1>1 DEF Evaluate, GateInv, Gate!Ask, stepVars, abortVars
    <2> QED  BY <2>1, <2>2
  <1>2. ASSUME EvalLock(e), AbortOn PROVE GateInv' /\ UNCHANGED Gate!vars
    <2>1. epc' = [epc EXCEPT ![e] = "gate"] /\ evaluating' = evaluating
      BY <1>2 DEF EvalLock, Counted
    <2>2. GateInv'
      BY <1>2, <2>1 DEF EvalLock, GateInv, stepVars, abortVars
    <2>3. UNCHANGED Gate!vars
      BY <1>2, <2>1 DEF EvalLock, GateInv, Gate!vars, stepVars, abortVars
    <2> QED  BY <2>2, <2>3
  <1>3. ASSUME (EvalLock(e) /\ ~AbortOn) \/ EvalGate(e)
        PROVE  GateInv' /\ Gate!Enter(e)
    <2>1. /\ epc' = [epc EXCEPT ![e] = "run"]
          /\ evaluating' = evaluating \cup {e}
          /\ epc[e] \in {"want", "gate"}
          /\ ~inProgress /\ ~aborted
          /\ UNCHANGED <<pc, inProgress, aborted>>
      BY <1>3 DEF EvalLock, EvalGate, Counted, AbortOn, stepVars, abortVars
    <2>2. GateInv'
      BY <2>1 DEF GateInv
    <2>3. Gate!Enter(e)
      BY <2>1 DEF GateInv, Gate!Enter
    <2> QED  BY <2>2, <2>3
  <1>4. ASSUME EvalReturns(e) \/ EvalRaises(e) PROVE GateInv' /\ Gate!Leave(e)
    <2>1. PICK how \in {"over", "raised"} : EvalEnds(e, how)
      BY <1>4 DEF EvalReturns, EvalRaises
    <2>2. GateInv'
      BY <2>1 DEF EvalEnds, GateInv, stepVars, abortVars
    <2>3. Gate!Leave(e)
      BY <2>1 DEF EvalEnds, GateInv, Gate!Leave, stepVars, abortVars
    <2> QED  BY <2>2, <2>3
  <1> QED
    BY <1>1, <1>2, <1>3, <1>4 DEF Eval, Gate!Next

LEMMA NextKeeps ==
    ASSUME GateInv, [Next]_vars
    PROVE  GateInv' /\ [Gate!Next]_Gate!vars
  <1>1. ASSUME UNCHANGED <<pc, GateView>>
        PROVE  GateInv' /\ UNCHANGED Gate!vars
    BY <1>1 DEF GateInv, GateView, Gate!vars
  <1>2. CASE StepLoop \/ Fill \/ Collecting
    BY <1>2, StepLoopAside, FillAside, CollectingAside, AsideKeeps
  <1>3. CASE Ending
    BY <1>3, EndingKeeps
  <1>4. CASE Task \/ Transfer
    BY <1>1, <1>4, BackgroundSteps
  <1>5. CASE \E e \in Evals : Evaluate(e) \/ Eval(e)
    BY <1>5, EvalKeeps
  <1>6. CASE UNCHANGED vars
    BY <1>1, <1>6 DEF vars, GateView, stepVars, abortVars, evalVars
  <1> QED
    BY <1>2, <1>3, <1>4, <1>5, <1>6 DEF Next, Rollout

\* generate_rollout_async, abort and eval_rollout, with their lock, flags and
\* counter, implement the abstract gate.
THEOREM ImplementsGate == Spec => KeepsGate
  <1>1. Init => Gate!Init
    BY DEF Init, Gate!Init
  <1>2. Spec => []GateInv
    BY InitGate, NextKeeps, PTL DEF Spec
  <1> QED
    BY <1>1, <1>2, NextKeeps, PTL DEF Spec, KeepsGate, Gate!Spec

\* No evaluation runs while abort_all is sent and the tasks are drained.
NoEvalAborted == aborted => \A e \in Evals : epc[e] # "run"

THEOREM EvalNeverAborted == Spec => []NoEvalAborted
  <1>1. Spec => []GateInv
    BY InitGate, NextKeeps, PTL DEF Spec
  <1>2. GateInv => NoEvalAborted
    BY DEF GateInv, NoEvalAborted
  <1> QED
    BY <1>1, <1>2, PTL

----------------------------------------------------------------------------
(* The batch of a step.                                                    *)

Looping == {"fill", "fetch", "wait", "process"}
Closing == {"abort", "evalwait", "http", "drain"}
Between == {"idle", "over"}

\* A task that has not ended is pending, a group is judged only while the loop
\* processes, and a transfer is awaited before the step closes.
StepInv ==
    /\ cfg \in Configs
    /\ pc \in Positions
    /\ rid \in Nat
    /\ pc \in Looping \cup {"gather"} \cup Closing => rid \in Steps
    /\ pc # "failed" => live \subseteq pendings
    /\ pc \notin {"process", "failed"} => done = {}
    /\ pc \in Closing \cup Between => puts = {} /\ ~putFailed
    /\ pc \in Between => pendings = {}

\* Every accepted group is in the next transfer, under way, or in the partition
\* of the step, which is whole when the step closes.
DataInv ==
    /\ IsFiniteSet(data) /\ Cardinality(data) <= BatchSize
    /\ DOMAIN partition = Steps
    /\ pc \in Looping \cup {"gather"} =>
           LET sent == batch \cup (UNION puts) \cup partition[rid]
           IN  sent \subseteq data /\ (~putFailed => sent = data)
    /\ pc = "gather" => Full /\ batch = {}
    /\ pc \in Closing => Cardinality(data) = BatchSize /\ partition[rid] = data
    /\ pc \in Between => data = {} /\ batch = {}
    /\ \A r \in Steps :
           /\ r > rid \/ (r = rid /\ pc \in Between) => partition[r] = {}
           /\ r < rid => Cardinality(partition[r]) = BatchSize

BatchInv == StepInv /\ DataInv

LEMMA Numbers ==
    /\ BatchSize \in Nat \ {0}
    /\ \A c \in Configs : c.rollouts \in Nat
  BY RolloutBatchAssumption DEF Settings

LEMMA InitBatch == Init => BatchInv
  <1> SUFFICES ASSUME Init PROVE BatchInv
    OBVIOUS
  <1>1. IsFiniteSet({}) /\ Cardinality({}) = 0
    BY FS_EmptySet
  <1>2. StepInv
    BY DEF Init, StepInv, Looping, Closing
  <1>3. DataInv
    <2>1. /\ pc = "idle" /\ rid = 0 /\ data = {} /\ batch = {}
          /\ partition = [r \in Steps |-> {}]
      BY DEF Init
    <2>2. \A r \in Steps : r >= 0
      BY DEF Steps
    <2>3. IsFiniteSet(data) /\ Cardinality(data) <= BatchSize
      <3>1. 0 <= BatchSize
        BY Numbers
      <3> QED  BY <1>1, <2>1, <3>1
    <2>4. /\ DOMAIN partition = Steps
          /\ \A r \in Steps : partition[r] = {} /\ ~(r < rid)
      BY <2>1, <2>2 DEF Steps
    <2> QED
      BY <2>1, <2>3, <2>4 DEF DataInv, Looping, Closing
  <1> QED
    BY <1>2, <1>3 DEF BatchInv

\* Steps that leave the batch alone.
BatchView == <<cfg, rid, data, batch, puts, putFailed, partition>>
LEMMA BatchAside ==
    ASSUME DataInv, UNCHANGED BatchView,
           \/ pc' = pc
           \/ pc' = "failed"
           \/ pc \in Looping /\ pc' \in Looping
           \/ pc \in Closing /\ pc' \in Closing
    PROVE  DataInv'
  BY DEF DataInv, BatchView, Steps, Full, Looping, Closing, Between

LEMMA StepLoopBatch == ASSUME BatchInv, StepLoop PROVE BatchInv'
  <1> USE DEF BatchInv, sourceVars, cacheVars, taskVars, judgeVars, putVars
  <1>1. ASSUME StartStep PROVE BatchInv'
    <2>1. /\ UNCHANGED <<BatchView, live, pendings, done>>
          /\ pc = "idle" /\ pc' \in {"fill", "over"}
          /\ pc' = "fill" => rid < cfg.rollouts
      BY <1>1 DEF StartStep, BatchView
    <2>2. StepInv'
      BY <2>1, Numbers DEF BatchView, StepInv, Steps, Looping, Closing, Between
    <2>3. pc' = "fill" => rid \in Steps /\ partition[rid] = {}
      BY <2>1, Numbers DEF StepInv, DataInv, Steps, Between
    <2>4. DataInv'
      BY <2>1, <2>3 DEF BatchView, StepInv, DataInv, Steps, Looping, Closing, Between
    <2> QED  BY <2>2, <2>4
  <1>2. ASSUME StepLoopFails PROVE BatchInv'
    <2>1. UNCHANGED <<BatchView, live, pendings, done>> /\ pc' = "failed"
      BY <1>2 DEF StepLoopFails, Fail, BatchView
    <2> QED
      BY <2>1, BatchAside DEF BatchView, StepInv, Looping, Closing, Between
  <1> QED
    BY <1>1, <1>2 DEF StepLoop

LEMMA FillBatch == ASSUME BatchInv, Fill PROVE BatchInv'
  <1>1. /\ UNCHANGED <<BatchView, done>>
        /\ pc \in {"fill", "fetch"} /\ pc' \in {"fill", "fetch", "wait"}
    <2> USE DEF judgeVars, putVars, stepVars, BatchView
    <2>1. CASE FillDone \/ FillFetches
      BY <2>1 DEF FillDone, FillFetches
    <2>2. CASE FillFromReady
      BY <2>2 DEF FillFromReady
    <2>3. CASE FetchAll \/ FetchPairs
      BY <2>3 DEF FetchAll, FetchPairs
    <2> QED
      BY <2>1, <2>2, <2>3 DEF Fill
  <1>2. live \subseteq pendings => live' \subseteq pendings'
    BY DEF Fill, FillDone, FillFetches, FillFromReady, FetchAll, FetchPairs,
           Prepare, Submit, taskVars
  <1> QED
    BY <1>1, <1>2, BatchAside
    DEF BatchInv, BatchView, StepInv, Steps, Looping, Closing, Between

\* An accepted group finds room in the batch.
LEMMA AcceptBatch ==
    ASSUME BatchInv, NEW g, Accept(g), ~Full, pc = "process", pc' = "process",
           UNCHANGED <<cfg, rid, puts, putFailed, partition>>
    PROVE  DataInv'
  <1>1. Cardinality(data) \in Nat /\ Cardinality(data) < BatchSize
    BY FS_CardinalityType, Numbers DEF BatchInv, DataInv, Full
  <1>2. IsFiniteSet(data \cup {g}) /\ Cardinality(data \cup {g}) <= BatchSize
    <2>1. /\ IsFiniteSet(data \cup {g})
          /\ Cardinality(data \cup {g}) =
                 IF g \in data THEN Cardinality(data) ELSE Cardinality(data) + 1
      BY FS_AddElement DEF BatchInv, DataInv
    <2> QED
      BY <1>1, <2>1, Numbers
  <1> QED
    BY <1>2 DEF BatchInv, DataInv, Accept, Steps, Looping, Closing, Between

LEMMA JudgeBatch == ASSUME BatchInv, NEW g, JudgeGroup(g) PROVE BatchInv'
  <1>1. /\ pc = "process" /\ pc' \in {"process", "failed"}
        /\ UNCHANGED <<cfg, rid, puts, putFailed, partition>>
    <2>1. pc = "process" /\ UNCHANGED <<cfg, rid, putVars>>
      BY DEF JudgeGroup, JudgeError, DropLate, DropRejected, DropAborted,
             KeepFiltered, KeepGroup, RefuseGroup, Rescue, JudgePair, Judge
    <2>2. pc' \in {"process", "failed"}
      BY <2>1 DEF JudgeGroup, JudgeError, DropLate, DropRejected, DropAborted,
             KeepFiltered, KeepGroup, RefuseGroup, Rescue, JudgePair, Stay
    <2> QED  BY <2>1, <2>2 DEF putVars
  <1>2. live \subseteq pendings => live' \subseteq pendings'
    BY DEF JudgeGroup, JudgeError, DropLate, DropRejected, DropAborted,
           KeepFiltered, KeepGroup, RefuseGroup, Rescue, SubmitArms, Submit
  <1>3. StepInv'
    BY <1>1, <1>2 DEF BatchInv, StepInv, Steps, Looping, Closing, Between
  <1>4. \/ UNCHANGED <<data, batch>>
        \/ Accept(g) /\ ~Full /\ pc' = "process"
    BY <1>1 DEF JudgeGroup, JudgeError, DropLate, DropRejected, DropAborted,
           KeepFiltered, KeepGroup, RefuseGroup, Rescue, JudgePair, Stay, Forget,
           AcceptIfRoom
  <1>5. DataInv'
    BY <1>1, <1>4, AcceptBatch, BatchAside DEF BatchInv, BatchView
  <1> QED
    BY <1>3, <1>5 DEF BatchInv

LEMMA CollectingBatch == ASSUME BatchInv, Collecting PROVE BatchInv'
  <1>1. ASSUME Collect PROVE BatchInv'
    <2>1. /\ UNCHANGED <<BatchView, live>> /\ pc = "wait" /\ pc' = "process"
          /\ pendings' = pendings \cap live
      BY <1>1 DEF Collect, BatchView, putVars
    <2> QED
      BY <2>1, BatchAside
      DEF BatchInv, BatchView, StepInv, Steps, Looping, Closing, Between
  <1>2. ASSUME JudgedAll PROVE BatchInv'
    <2>1. /\ pc = "process" /\ done = {} /\ pc' = IF Full THEN "gather" ELSE "fill"
          /\ UNCHANGED <<cfg, rid, data, done, live, pendings, putFailed, partition>>
          /\ \/ puts' = puts \cup {batch} /\ batch' = {}
             \/ UNCHANGED <<puts, batch>> /\ (Full => batch = {})
      BY <1>2 DEF JudgedAll, taskVars
    <2>2. StepInv'
      BY <2>1 DEF BatchInv, StepInv, Steps, Looping, Closing, Between
    <2>3. batch' \cup (UNION puts') = batch \cup (UNION puts)
      BY <2>1
    <2>4. DataInv'
      BY <2>1, <2>3 DEF BatchInv, DataInv, Full, Steps, Looping, Closing, Between
    <2> QED  BY <2>2, <2>4 DEF BatchInv
  <1> QED
    BY <1>1, <1>2, JudgeBatch DEF Collecting

LEMMA BackgroundBatch == ASSUME BatchInv, Task \/ Transfer PROVE BatchInv'
  <1>1. ASSUME Task PROVE BatchInv'
    <2>1. /\ UNCHANGED <<BatchView, pc, pendings, done>> /\ live' \subseteq live
      BY <1>1 DEF Task, Succeed, EndBadly, Break, BreakLate, Finish, FinishLate, EndsLate, stepVars,
                  judgeVars, putVars, BatchView
    <2> QED
      BY <2>1, BatchAside DEF BatchInv, BatchView, StepInv, Steps
  <1>2. ASSUME NEW b \in puts, PutDone(b) \/ PutRaises(b) PROVE BatchInv'
    <2>1. /\ UNCHANGED <<cfg, pc, rid, data, batch, pendings, live, done>>
          /\ puts' = puts \ {b}
          /\ \E S \in {{}, b} : partition' = [partition EXCEPT ![rid] = @ \cup S]
          /\ putFailed' \/ (/\ putFailed' = putFailed
                            /\ partition' = [partition EXCEPT ![rid] = @ \cup b])
      BY <1>2 DEF PutDone, PutRaises, Put, stepVars, taskVars, judgeVars
    <2>2. pc \notin Closing \cup Between
      BY <1>2 DEF BatchInv, StepInv
    <2>3. StepInv'
      BY <2>1, <2>2 DEF BatchInv, StepInv, Steps
    <2>4. PICK S \in {{}, b} : partition' = [partition EXCEPT ![rid] = @ \cup S]
      BY <2>1
    <2>5. DOMAIN partition' = Steps
          /\ \A r \in Steps : r # rid => partition'[r] = partition[r]
      BY <2>4 DEF BatchInv, DataInv
    <2>6. ASSUME pc \in Looping \cup {"gather"}
          PROVE  LET sent == batch \cup (UNION puts') \cup partition'[rid]
                 IN  sent \subseteq data /\ (~putFailed' => sent = data)
      <3>1. rid \in Steps
        BY <2>6 DEF BatchInv, StepInv
      <3>2. partition'[rid] = partition[rid] \cup S
        BY <2>4, <3>1 DEF BatchInv, DataInv
      <3>3. ~putFailed' => partition'[rid] = partition[rid] \cup b /\ ~putFailed
        BY <2>1, <3>1 DEF BatchInv, DataInv
      <3>4. (UNION puts') \cup b = UNION puts
        BY <1>2, <2>1
      <3>6. S \subseteq b /\ batch' = batch
        BY <2>1
      <3>5. LET sent == batch \cup (UNION puts) \cup partition[rid]
            IN  sent \subseteq data /\ (~putFailed => sent = data)
        BY <2>6 DEF BatchInv, DataInv
      <3> QED
        BY <3>2, <3>3, <3>4, <3>5, <3>6
    <2>7. \A r \in Steps : /\ r > rid => partition'[r] = {}
                           /\ r < rid => Cardinality(partition'[r]) = BatchSize
      BY <2>5, Numbers DEF BatchInv, StepInv, DataInv, Steps
    <2>8. DataInv'
      BY <2>1, <2>2, <2>5, <2>6, <2>7
      DEF BatchInv, DataInv, Steps, Full, Looping, Closing, Between
    <2> QED  BY <2>3, <2>8 DEF BatchInv
  <1> QED
    BY <1>1, <1>2 DEF Transfer

LEMMA EndingBatch == ASSUME BatchInv, Ending PROVE BatchInv'
  <1> USE DEF sourceVars, taskVars, judgeVars, putVars
  <1>1. ASSUME Gathered PROVE BatchInv'
    <2>1. /\ UNCHANGED <<BatchView, live, pendings, done>>
          /\ pc = "gather" /\ pc' = "abort" /\ puts = {} /\ ~putFailed
      BY <1>1 DEF Gathered, BatchView
    <2>2. StepInv'
      BY <2>1 DEF BatchInv, BatchView, StepInv, Steps, Looping, Closing, Between
    <2>3. Cardinality(data) = BatchSize /\ partition[rid] = data
      <3>1. partition[rid] = data /\ Full
        <4>1. batch = {} /\ Full /\ batch \cup (UNION puts) \cup partition[rid] = data
          BY <2>1 DEF BatchInv, DataInv
        <4>2. UNION puts = {}
          BY <2>1
        <4> QED
          BY <4>1, <4>2
      <3> QED
        BY <3>1, FS_CardinalityType, Numbers DEF BatchInv, DataInv, Full
    <2>4. DataInv'
      BY <2>1, <2>3 DEF BatchInv, BatchView, DataInv, Steps, Looping, Closing, Between
    <2> QED  BY <2>2, <2>4 DEF BatchInv
  <1>2. ASSUME GatherRaises \/ AbortRaises PROVE BatchInv'
    <2>1. UNCHANGED <<BatchView, done>> /\ pc' = "failed"
      BY <1>2 DEF GatherRaises, AbortRaises, Fail, BatchView
    <2> QED
      BY <2>1, BatchAside
      DEF BatchInv, BatchView, StepInv, Looping, Closing, Between
  <1>3. ASSUME AbortBegins \/ AbortRequests \/ AbortSent PROVE BatchInv'
    <2>1. /\ UNCHANGED <<BatchView, live, pendings, done>>
          /\ pc \in Closing /\ pc' \in Closing
      BY <1>3 DEF AbortBegins, AbortRequests, AbortSent, BatchView, Closing
    <2> QED
      BY <2>1, BatchAside
      DEF BatchInv, BatchView, StepInv, Steps, Looping, Closing, Between
  <1>4. ASSUME StepReturns PROVE BatchInv'
    <2>1. /\ UNCHANGED <<cfg, done, puts, putFailed, partition>>
          /\ pc = "drain" /\ pc' = "idle" /\ live' = live \ pendings
          /\ data' = {} /\ batch' = {} /\ rid' = rid + 1 /\ pendings' = {}
      BY <1>4 DEF StepReturns, Reset
    <2>2. live' = {}
      BY <2>1 DEF BatchInv, StepInv
    <2>3. StepInv'
      BY <2>1, <2>2 DEF BatchInv, StepInv, Looping, Closing, Between
    <2>4. /\ rid \in Nat /\ Steps \subseteq Int
          /\ Cardinality(partition[rid]) = BatchSize
          /\ \A r \in Steps : r > rid => partition[r] = {}
          /\ \A r \in Steps : r < rid => Cardinality(partition[r]) = BatchSize
      BY <2>1, Numbers DEF BatchInv, StepInv, DataInv, Closing, Steps
    <2>5. \A r \in Steps :
              /\ r > rid + 1 \/ r = rid + 1 => partition[r] = {}
              /\ r < rid + 1 => Cardinality(partition[r]) = BatchSize
      BY <2>4
    <2>6. IsFiniteSet({}) /\ Cardinality({}) <= BatchSize
      BY FS_EmptySet, Numbers
    <2>7. Steps' = Steps /\ DOMAIN partition = Steps
      BY <2>1 DEF Steps, BatchInv, DataInv
    <2>8. DataInv'
      BY <2>1, <2>5, <2>6, <2>7 DEF DataInv, Looping, Closing, Between
    <2> QED  BY <2>3, <2>8 DEF BatchInv
  <1> QED
    BY <1>1, <1>2, <1>3, <1>4 DEF Ending

LEMMA NextBatch == BatchInv /\ [Next]_vars => BatchInv'
  <1> SUFFICES ASSUME BatchInv, [Next]_vars PROVE BatchInv'
    OBVIOUS
  <1>1. ASSUME UNCHANGED <<BatchView, pc, live, pendings, done>> PROVE BatchInv'
    BY <1>1, BatchAside DEF BatchInv, BatchView, StepInv, Steps
  <1>2. ASSUME NEW e \in Evals, Evaluate(e) \/ Eval(e) PROVE BatchInv'
    BY <1>1, <1>2
    DEF Evaluate, Eval, EvalLock, EvalGate, EvalReturns, EvalRaises, EvalEnds,
        BatchView, stepVars, taskVars, judgeVars, putVars
  <1>3. CASE UNCHANGED vars
    BY <1>1, <1>3 DEF vars, BatchView, stepVars, taskVars, judgeVars, putVars
  <1> QED
    BY <1>2, <1>3, StepLoopBatch, FillBatch, CollectingBatch, EndingBatch,
       BackgroundBatch DEF Next, Rollout

LEMMA BatchHolds == Spec => []BatchInv
  BY InitBatch, NextBatch, PTL DEF Spec

\* The trainer gets whole batches, and every accepted group is in one.
THEOREM PartitionWholeHolds == Spec => []PartitionWhole
  <1>1. BatchInv => PartitionWhole
    BY DEF BatchInv, StepInv, DataInv, PartitionWhole, InLoop, Looping
  <1> QED
    BY <1>1, BatchHolds, PTL

=============================================================================
