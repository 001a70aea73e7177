------------------------- MODULE RolloutSlotProofs --------------------------
(***************************************************************************)
(* What rests on the places of RolloutGroupProofs: every slot of the       *)
(* capacity belongs to one group, the step never waits for nothing, the    *)
(* variables keep their types, and the accepted arms of a pair agree.      *)
(*                                                                         *)
(* SlotInv accounts for the counter of slots: it is the number of running, *)
(* ended and accepted groups, which is a sum of cardinalities because      *)
(* these sets are disjoint.  ArmInv follows the outcome of a no-skill      *)
(* group to the arm it decides: a group that is judged never comes back,   *)
(* so what its arm was submitted for stays true.                           *)
(***************************************************************************)
EXTENDS RolloutGroupProofs

USE DEF Positions

----------------------------------------------------------------------------
(* The capacity of the step.                                               *)

SlotsUsed == Cardinality(pendings) + Cardinality(done) + Cardinality(data)

\* The slots that are counted cover the groups that hold one, exactly while
\* the batch has room; a full filter step no longer counts them down.
SlotInv ==
    /\ remaining \in Nat
    /\ pc \in Looping => SlotsUsed <= remaining
    /\ pc \in Looping /\ (PairMode \/ ~Full) => remaining = SlotsUsed
    /\ pc \in {"fill", "fetch", "wait"} => ~Full
    /\ pc = "wait" => remaining >= Capacity
    /\ pc \in Between => remaining = 0

LEMMA Sizes ==
    ASSUME GroupTypes
    PROVE  /\ \A S : S \subseteq Groups => IsFiniteSet(S) /\ Cardinality(S) \in Nat
           /\ {Cardinality(pendings), Cardinality(done), Cardinality(data), SlotsUsed} \subseteq Nat
  <1>1. IsFiniteSet(Groups)
    BY FS_Interval DEF GroupTypes, Groups
  <1>2. \A S : S \subseteq Groups => IsFiniteSet(S) /\ Cardinality(S) \in Nat
    BY <1>1, FS_Subset, FS_CardinalityType
  <1>3. Cardinality(pendings) \in Nat /\ Cardinality(done) \in Nat /\ Cardinality(data) \in Nat
    BY <1>2 DEF GroupTypes
  <1> QED
    BY <1>2, <1>3 DEF SlotsUsed

LEMMA Disjoint ==
    ASSUME NEW S, NEW T, IsFiniteSet(S), IsFiniteSet(T), S \cap T = {}
    PROVE  Cardinality(S \cup T) = Cardinality(S) + Cardinality(T)
  <1>1. Cardinality(S \cup T) = Cardinality(S) + Cardinality(T) - Cardinality(S \cap T)
    BY FS_Union
  <1>2. Cardinality(S) \in Nat /\ Cardinality(T) \in Nat /\ Cardinality({}) = 0
    BY FS_CardinalityType, FS_EmptySet
  <1>3. Cardinality(S \cap T) = 0
    BY <1>2
  <1> QED
    BY <1>1, <1>2, <1>3

\* What is submitted was nobody's task before, and is finite.
LEMMA Submitted ==
    ASSUME PlaceInv, GroupTypes, FillFromReady \/ FetchAll \/ FetchPairs
    PROVE  \E first : /\ IsFiniteSet(first) /\ first \cap pendings = {}
                      /\ pendings' = pendings \cup first
                      /\ remaining' = remaining + Cardinality(first)
                      /\ pc \in {"fill", "fetch"} /\ pc' = "fill"
                      /\ UNCHANGED <<cfg, done, data>>
  <1> USE DEF judgeVars, stepVars, PlaceInv
  <1>1. CASE FillFromReady
    <2> DEFINE first == FirstReady(ready, deferred, Capacity - remaining)
    <2>1. first \subseteq ready
      BY FirstAreCandidates
    <2>2. IsFiniteSet(first) /\ first \cap pendings = {}
      BY <2>1, Sizes DEF GroupTypes, Apart
    <2>3. /\ pendings' = pendings \cup first
          /\ remaining' = remaining + Cardinality(first)
          /\ pc = "fill" /\ pc' = pc
          /\ UNCHANGED <<cfg, done, data>>
      BY <1>1 DEF FillFromReady, Submit
    <2> QED  BY <2>2, <2>3
  <1>2. CASE FetchAll \/ FetchPairs
    <2>1. /\ fetched' \in Nat /\ Groups \subseteq Groups' /\ Taken \subseteq Groups'
          /\ Taken \subseteq Buffered \cup prefetched \cup (Groups' \ Groups)
      <3>1. TakeSamples
        BY <1>2 DEF FetchAll, FetchPairs
      <3>2. IsInjective(buffer) /\ Buffered \cap prefetched = {}
        BY DEF NoRepeat, Apart
      <3> QED
        BY <3>1, <3>2, Take DEF GroupTypes, Buffered
    <2>2. pendings \subseteq Groups
      BY DEF GroupTypes
    <2>3. Taken \cap pendings = {} /\ parked \cap pendings = {}
      BY <2>1, <2>2 DEF Apart
    <2>4. \A S : S \subseteq Groups' => IsFiniteSet(S)
      <3>1. IsFiniteSet(1..fetched')
        BY <2>1, FS_Interval
      <3>2. Groups' = 1..fetched'
        BY DEF Groups
      <3> HIDE DEF Groups
      <3> QED  BY <3>1, <3>2, FS_Subset
    <2>5. CASE FetchAll
      <3>1. IsFiniteSet(Taken)
        BY <2>1, <2>4
      <3>2. /\ pendings' = pendings \cup Taken
            /\ remaining' = remaining + Cardinality(Taken)
            /\ pc = "fetch" /\ pc' = "fill"
            /\ UNCHANGED <<cfg, done, data>>
        BY <2>5 DEF FetchAll, Submit
      <3> QED  BY <2>3, <3>1, <3>2
    <2>6. CASE FetchPairs
      <3> DEFINE S == Taken
                 rows == parked \cup {g \in S : IsNoSkill(g) \/ IsArm(g)}
                 pairs == IF PairsOn THEN Pairing(rows) ELSE {}
                 plain == {g \in S : ~IsNoSkill(g) /\ ~IsArm(g)}
                 candidates == plain \cup IF PairsOn THEN {p[1] : p \in pairs}
                                          ELSE {g \in S : IsNoSkill(g)}
                 first == FirstReady(candidates, pairs, Capacity - remaining)
      <3>1. \A p \in pairs : p[1] \in rows
        BY DEF Pairing
      <3>2. candidates \subseteq Taken \cup parked
        <4> HIDE DEF pairs
        <4> QED  BY <3>1
      <3>3. first \subseteq candidates
        BY FirstAreCandidates
      <3>4. /\ pendings' = pendings \cup first
            /\ remaining' = remaining + Cardinality(first)
            /\ pc = "fetch" /\ pc' = "fill"
            /\ UNCHANGED <<cfg, done, data>>
        BY <2>6 DEF FetchPairs, Prepare, Submit
      <3> HIDE DEF first, candidates
      <3>5. first \cap pendings = {}
        BY <2>3, <3>2, <3>3
      <3>6. parked \subseteq Groups'
        BY <2>1 DEF GroupTypes
      <3>7. IsFiniteSet(first)
        BY <2>1, <2>4, <3>2, <3>3, <3>6
      <3> QED  BY <3>4, <3>5, <3>7
    <2> QED  BY <1>2, <2>5, <2>6
  <1> QED  BY <1>1, <1>2

LEMMA Lose ==
    ASSUME NEW S, IsFiniteSet(S), NEW g \in S
    PROVE  Cardinality(S) >= 1 /\ Cardinality(S \ {g}) = Cardinality(S) - 1
  <1>1. Cardinality(S \ {g}) = Cardinality(S) - 1
    BY FS_RemoveElement
  <1>2. Cardinality(S) \in Nat /\ Cardinality(S \ {g}) \in Nat
    BY FS_RemoveElement, FS_CardinalityType
  <1> QED  BY <1>1, <1>2

LEMMA Gain ==
    ASSUME NEW S, IsFiniteSet(S), NEW g, g \notin S
    PROVE  Cardinality(S \cup {g}) = Cardinality(S) + 1
  BY FS_AddElement

\* The oracle arm of a no-skill group is one group.
LEMMA OneArm ==
    ASSUME PairInv, NEW g, OracleArm(g) # {}
    PROVE  Cardinality(OracleArm(g)) = 1
  <1>1. PICK a : a \in OracleArm(g)
    OBVIOUS
  <1>2. OracleArm(g) = ArmOf(g)
    BY <1>1 DEF OracleArm
  <1>3. PICK p \in deferred : p[1] = g /\ p[2] = a
    BY <1>1, <1>2 DEF ArmOf
  <1>4. \A q \in deferred : q[1] = g => q = p
    BY <1>3 DEF PairInv
  <1>5. ArmOf(g) = {a}
    BY <1>3, <1>4 DEF ArmOf
  <1> QED
    BY <1>2, <1>5, FS_Singleton

\* Judging leaves every group that holds a slot with one.
LEMMA JudgeKeepsSlots ==
    ASSUME NEW g, JudgeGroup(g), GroupTypes, PlaceInv, SlotInv
    PROVE  SlotInv'
  <1> USE DEF PlaceInv
  <1>1. PICK arms : JudgeMove(g, arms) /\ JudgeSlots(g, arms)
    BY Judging
  <1>2. /\ pc = "process" /\ pc' \in {"process", "failed"}
        /\ g \in done /\ done' = done \ {g} /\ pendings' = pendings \cup arms
        /\ cfg' = cfg /\ arms \subseteq ArmOf(g)
    BY <1>1 DEF JudgeMove
  <1> DEFINE np == Cardinality(pendings)
             nd == Cardinality(done)
             na == Cardinality(data)
             k == Cardinality(arms)
  <1>3. np \in Nat /\ nd \in Nat /\ na \in Nat /\ remaining \in Nat
    BY Sizes DEF SlotInv
  <1>4. arms \subseteq Arms /\ arms \subseteq Groups
    BY <1>2 DEF ArmOf, Arms, GroupTypes
  <1>5. k \in Nat /\ (arms = {} => k = 0)
    BY <1>4, Sizes, FS_EmptySet
  <1>6. Cardinality(pendings') = np + k
    <2>1. IsFiniteSet(pendings) /\ IsFiniteSet(arms) /\ pendings \cap arms = {}
      BY <1>4, Sizes DEF GroupTypes, Apart
    <2> QED
      BY <1>2, <2>1, Disjoint
  <1>7. nd >= 1 /\ Cardinality(done') = nd - 1
    <2>1. IsFiniteSet(done)
      BY Sizes DEF GroupTypes
    <2> QED
      BY <1>2, <2>1, Lose
  <1>8. Cardinality(data \cup {g}) = na + 1
    <2>1. IsFiniteSet(data) /\ g \notin data
      BY <1>2, Sizes DEF GroupTypes, Apart
    <2> QED
      BY <2>1, Gain
  <1>9. arms = OracleArm(g) /\ arms # {} => k = 1
    BY OneArm
  <1>10. /\ np + nd + na <= remaining
         /\ PairMode \/ ~Full => remaining = np + nd + na
    BY <1>2 DEF SlotInv, SlotsUsed, Looping
  <1>11. PairMode' = PairMode
    BY <1>2 DEF PairMode
  <1>12. remaining >= 1 /\ Max({0, remaining - 1}) = remaining - 1
    <2> DEFINE m == remaining - 1
    <2>1. m \in Int /\ m >= 0
      BY <1>3, <1>7, <1>10
    <2> HIDE DEF m
    <2>2. /\ \A x \in {0, m} : m >= x
          /\ \A x \in {0, m} : (\A y \in {0, m} : x >= y) => x = m
      BY <2>1
    <2>3. Max({0, m}) = m
      BY <2>2 DEF Max
    <2> QED  BY <1>3, <2>1, <2>3 DEF m
  <1>13. \/ pc' = "failed" /\ remaining' = remaining
         \/ /\ k = 0 /\ data' = data
            /\ remaining' = remaining - 1 \/ (~PairMode /\ Full /\ remaining' = remaining)
         \/ ~Full /\ data' = data \cup {g} /\ remaining' = remaining + k
         \/ ~Full /\ data' = data /\ remaining' = remaining - 1 + k
    <2>1. remaining + 0 = remaining /\ remaining - 1 + 1 = remaining
      BY <1>3
    <2>2. CASE pc' = "failed" /\ UNCHANGED remaining
      BY <2>2
    <2>3. CASE /\ arms = {} /\ UNCHANGED data
               /\ \/ remaining' = remaining - 1
                  \/ PairMode /\ remaining' = Max({0, remaining - 1})
                  \/ ~PairMode /\ Full /\ UNCHANGED remaining
      BY <1>5, <1>12, <2>3
    <2>4. CASE /\ ~Full /\ data' = data \cup {g}
               /\ \/ remaining' = remaining + Cardinality(arms)
                  \/ arms = {} /\ UNCHANGED remaining
      BY <1>5, <2>1, <2>4
    <2>5. CASE /\ ~Full /\ UNCHANGED data
               /\ \/ remaining' = remaining - 1 + Cardinality(arms)
                  \/ arms = OracleArm(g) /\ arms # {} /\ UNCHANGED remaining
      BY <1>9, <2>1, <2>5
    <2> QED
      BY <1>1, <2>2, <2>3, <2>4, <2>5 DEF JudgeSlots
  <1> HIDE DEF np, nd, na, k
  <1>15. remaining' \in Nat
    BY <1>3, <1>5, <1>12, <1>13
  <1>14. ASSUME pc' = "process"
         PROVE  /\ SlotsUsed' <= remaining'
                /\ PairMode \/ ~Full' => remaining' = SlotsUsed'
    <2>1. SlotsUsed' = (np + k) + (nd - 1) + Cardinality(data')
      BY <1>6, <1>7 DEF SlotsUsed
    <2>2. CASE UNCHANGED data
      <3>1. Full' = Full /\ SlotsUsed' = (np + k) + (nd - 1) + na
        BY <2>1, <2>2 DEF Full, na
      <3>2. g \notin data
        BY <1>2 DEF Apart
      <3> QED
        BY <1>3, <1>5, <1>7, <1>10, <1>13, <1>14, <2>2, <3>1, <3>2
    <2>3. CASE data' = data \cup {g} /\ ~Full
      <3>1. SlotsUsed' = (np + k) + (nd - 1) + (na + 1)
        BY <1>8, <2>1, <2>3
      <3>2. g \notin data
        BY <1>2 DEF Apart
      <3> QED
        BY <1>3, <1>5, <1>7, <1>10, <1>13, <1>14, <2>3, <3>1, <3>2
    <2> QED
      BY <1>13, <1>14, <2>2, <2>3
  <1> QED
    BY <1>2, <1>11, <1>14, <1>15 DEF SlotInv, Looping, Between

\* Steps that leave the slots and their groups alone.
SlotView == <<cfg, pendings, done, data, remaining>>
LEMMA SlotAside ==
    ASSUME SlotInv, UNCHANGED SlotView,
           pc' \in {pc, "failed", "gather", "fetch"} \/ pc' \notin Looping \cup Between,
           pc' = "fetch" => pc \in {"fill", "fetch"},
           pc' = "gather" => pc \in {"process", "gather"}
    PROVE  SlotInv'
  BY DEF SlotInv, SlotView, SlotsUsed, Looping, Between, PairMode, Full, Capacity

LEMMA SlotStep ==
    ASSUME BatchInv, GroupTypes, PlaceInv, SlotInv, Next
    PROVE  SlotInv'
  <1> USE DEF sourceVars, cacheVars, taskVars, judgeVars, putVars, stepVars, SlotView
  <1>1. CASE StepLoop
    <2>1. CASE StartStep
      <3>1. /\ UNCHANGED SlotView /\ pc = "idle" /\ pc' \in {"fill", "over"}
        BY <2>1 DEF StartStep
      <3>2. pendings = {} /\ done = {} /\ data = {} /\ remaining = 0
        BY <3>1 DEF BatchInv, StepInv, DataInv, SlotInv, Between
      <3>3. SlotsUsed = 0 /\ ~Full
        BY <3>2, FS_EmptySet, Numbers DEF SlotsUsed, Full
      <3>4. SlotsUsed' = SlotsUsed /\ Full' = Full
        BY <3>1 DEF SlotsUsed, Full
      <3> QED
        BY <3>1, <3>2, <3>3, <3>4 DEF SlotInv, Looping, Between
    <2>2. CASE StepLoopFails
      BY <2>2, SlotAside DEF StepLoopFails, Fail
    <2> QED  BY <1>1, <2>1, <2>2 DEF StepLoop
  <1>2. CASE FillDone
    <2>1. UNCHANGED SlotView /\ pc = "fill" /\ pc' = "wait" /\ remaining >= Capacity
      BY <1>2 DEF FillDone
    <2> QED
      BY <2>1 DEF SlotInv, SlotsUsed, Looping, Between, PairMode, Full, Capacity
  <1>3. CASE FillFetches
    BY <1>3, SlotAside DEF FillFetches
  <1>4. CASE FillFromReady \/ FetchAll \/ FetchPairs
    <2>1. PICK first : /\ IsFiniteSet(first) /\ first \cap pendings = {}
                       /\ pendings' = pendings \cup first
                       /\ remaining' = remaining + Cardinality(first)
                       /\ pc \in {"fill", "fetch"} /\ pc' = "fill"
                       /\ UNCHANGED <<cfg, done, data>>
      BY <1>4, Submitted
    <2>2. Cardinality(pendings') = Cardinality(pendings) + Cardinality(first)
      BY <2>1, Sizes, Disjoint DEF GroupTypes
    <2>3. Cardinality(first) \in Nat
      BY <2>1, FS_CardinalityType
    <2>4. ~Full /\ remaining = SlotsUsed /\ remaining \in Nat
      BY <2>1 DEF SlotInv, Looping
    <2>5. remaining' = SlotsUsed'
      BY <2>1, <2>2, <2>3, <2>4, Sizes DEF SlotsUsed
    <2>6. remaining' \in Nat /\ ~Full'
      BY <2>1, <2>3, <2>4 DEF Full
    <2> QED
      BY <2>1, <2>5, <2>6 DEF SlotInv, Between
  <1>5. CASE Collect
    <2>1. /\ pc = "wait" /\ pc' = "process" /\ UNCHANGED <<cfg, data, remaining>>
          /\ done' = pendings \ live /\ pendings' = pendings \cap live
      BY <1>5 DEF Collect
    <2>2. Cardinality(done) = 0
      BY <2>1, FS_EmptySet DEF BatchInv, StepInv
    <2>3. Cardinality(pendings) = Cardinality(pendings') + Cardinality(done')
      <3>1. pendings = pendings' \cup done' /\ pendings' \cap done' = {}
        BY <2>1
      <3>2. pendings' \subseteq Groups /\ done' \subseteq Groups
        BY <2>1 DEF GroupTypes
      <3> QED
        BY <3>1, <3>2, Sizes, Disjoint
    <2>4. Cardinality(pendings') \in Nat /\ Cardinality(done') \in Nat
      <3>1. pendings' \subseteq Groups /\ done' \subseteq Groups
        BY <2>1 DEF GroupTypes
      <3> QED  BY <3>1, Sizes
    <2>5. SlotsUsed' = SlotsUsed
      BY <2>1, <2>2, <2>3, <2>4, Sizes DEF SlotsUsed
    <2> QED
      BY <2>1, <2>5 DEF SlotInv, Looping, Between, PairMode, Full
  <1>6. CASE \E g \in done : JudgeGroup(g)
    BY <1>6, JudgeKeepsSlots
  <1>7. CASE JudgedAll
    <2>1. UNCHANGED SlotView /\ pc = "process" /\ pc' = IF Full THEN "gather" ELSE "fill"
      BY <1>7 DEF JudgedAll
    <2> QED
      BY <2>1 DEF SlotInv, SlotsUsed, Looping, Between, PairMode, Full
  <1>8. CASE Gathered \/ GatherRaises \/ AbortBegins \/ AbortRequests \/ AbortSent
    BY <1>8, SlotAside DEF Gathered, GatherRaises, AbortBegins, AbortRequests, AbortSent, Fail,
       Looping, Between
  <1>9. CASE AbortRaises \/ StepReturns
    <2>1. remaining' = 0 /\ pc' \in {"failed", "idle"}
      BY <1>9 DEF AbortRaises, StepReturns, Fail, Reset
    <2> QED
      BY <2>1 DEF SlotInv, Looping
  <1>10. CASE Task
    <2>1. UNCHANGED <<SlotView, pc>>
      BY <1>10 DEF Task, Succeed, EndBadly, Break, BreakLate, Finish, FinishLate, EndsLate
    <2> QED  BY <2>1, SlotAside
  <1>11. CASE Transfer
    <2>1. UNCHANGED <<SlotView, pc>>
      BY <1>11 DEF Transfer, PutDone, PutRaises, Put
    <2> QED  BY <2>1, SlotAside
  <1>12. ASSUME NEW e \in Evals, Evaluate(e) \/ Eval(e) PROVE SlotInv'
    <2>1. UNCHANGED <<SlotView, pc>>
      BY <1>12 DEF Evaluate, Eval, EvalLock, EvalGate, EvalReturns, EvalRaises, EvalEnds
    <2> QED  BY <2>1, SlotAside
  <1> QED
    BY <1>1, <1>2, <1>3, <1>4, <1>5, <1>6, <1>7, <1>8, <1>9, <1>10, <1>11, <1>12
    DEF Next, Rollout, Fill, Collecting, Ending

LEMMA SlotHolds == Spec => [](BatchInv /\ WhereInv /\ SlotInv)
  <1>1. Init => SlotInv
    <2>1. Init => pc = "idle" /\ remaining = 0
      BY DEF Init
    <2> QED
      BY <2>1 DEF SlotInv, Looping
  <1>2. BatchInv /\ WhereInv /\ SlotInv /\ [Next]_vars => SlotInv'
    <2>1. ASSUME SlotInv, UNCHANGED vars PROVE SlotInv'
      BY <2>1, SlotAside DEF vars, stepVars, taskVars, judgeVars, SlotView
    <2> QED
      BY <2>1, SlotStep DEF WhereInv
  <1> QED
    BY <1>1, <1>2, BatchHolds, WhereHolds, PTL DEF Spec

\* Every running, ended and accepted group holds exactly one slot of the
\* capacity, through every refill, drop, retry as an arm and partial batch.
THEOREM SlotPerGroupHolds == Spec => []SlotPerGroup
  <1>1. SlotInv => SlotPerGroup
    BY DEF SlotInv, SlotPerGroup, InLoop, Looping, SlotsUsed
  <1> QED
    BY <1>1, SlotHolds, PTL

\* asyncio.wait is never called on an empty set: a step that waits has
\* room left in its batch, so a slot of its full capacity is a running task's.
THEOREM NeverWaitsOnNothingHolds == Spec => []NeverWaitsOnNothing
  <1>1. BatchInv /\ WhereInv /\ SlotInv => NeverWaitsOnNothing
    <2> SUFFICES ASSUME BatchInv, WhereInv, SlotInv, pc = "wait" PROVE pendings # {}
      BY DEF NeverWaitsOnNothing
    <2>1. SlotsUsed >= Capacity /\ ~Full
      BY DEF SlotInv, Looping
    <2>2. BatchSize \in Nat /\ Capacity \in Nat /\ Capacity >= BatchSize
      BY RolloutBatchAssumption DEF Capacity
    <2>3. Cardinality(data) < BatchSize
      BY <2>1, <2>2, Sizes DEF Full, WhereInv
    <2>4. Cardinality(done) = 0
      BY FS_EmptySet DEF BatchInv, StepInv
    <2>5. Cardinality(pendings) # 0
      BY <2>1, <2>2, <2>3, <2>4, Sizes DEF SlotsUsed, WhereInv
    <2> QED
      BY <2>5, FS_EmptySet
  <1> QED
    BY <1>1, SlotHolds, PTL

----------------------------------------------------------------------------
(* Types.                                                                  *)

Reasons == {"", "eval", "task", "aborted", "put", "http"}
ReasonInv == failure \in Reasons

LEMMA ReasonsStep == ASSUME ReasonInv, [Next]_vars PROVE ReasonInv'
  <1>1. "eval" \in Reasons /\ "task" \in Reasons /\ "aborted" \in Reasons
        /\ "put" \in Reasons /\ "http" \in Reasons
    BY Zenon DEF Reasons
  <1>2. \/ failure' = failure
        \/ failure' = "eval" \/ failure' = "task" \/ failure' = "aborted"
        \/ failure' = "put" \/ failure' = "http"
    <2> USE DEF stepVars
    <2>1. ASSUME NEW g, JudgeGroup(g) PROVE failure' \in {failure, "task", "aborted"}
      BY <2>1 DEF JudgeGroup, JudgeError, DropLate, DropRejected, DropAborted,
         KeepFiltered, KeepGroup, RefuseGroup, Rescue, JudgePair, Stay
    <2>2. Fill => failure' = failure
      BY DEF Fill, FillDone, FillFromReady, FillFetches, FetchAll, FetchPairs
    <2>3. StepLoop => failure' \in {failure, "eval"}
      BY DEF StepLoop, StartStep, StepLoopFails, Fail
    <2>4. Ending => failure' \in {failure, "put", "http"}
      BY DEF Ending, Gathered, GatherRaises, AbortBegins, AbortRequests, AbortSent,
             AbortRaises, StepReturns, Fail
    <2>5. Task => failure' = failure
      BY DEF Task, Succeed, EndBadly, Break, BreakLate, Finish, FinishLate, EndsLate
    <2>6. Transfer => failure' = failure
      BY DEF Transfer, PutDone, PutRaises, Put
    <2>7. ASSUME NEW e, Evaluate(e) \/ Eval(e) PROVE failure' = failure
      BY <2>7 DEF Evaluate, Eval, EvalLock, EvalGate, EvalReturns, EvalRaises, EvalEnds
    <2>8. Collect \/ JudgedAll => failure' = failure
      BY DEF Collect, JudgedAll
    <2>9. UNCHANGED vars => failure' = failure
      BY DEF vars
    <2> QED
      BY <2>1, <2>2, <2>3, <2>4, <2>5, <2>6, <2>7, <2>8, <2>9
      DEF Next, Rollout, Collecting
  <1> HIDE DEF Reasons
  <1> QED
    BY <1>1, <1>2 DEF ReasonInv

\* The variables of the engine keep their types: in particular the counter of
\* slots, which is only ever counted down for a group that holds one, never
\* becomes negative.
THEOREM TypeCorrect == Spec => []TypeOK
  <1>1. Spec => []GateInv
    BY InitGate, NextKeeps, PTL DEF Spec
  <1>2. Spec => []ReasonInv
    <2>1. Init => ReasonInv
      BY Zenon DEF Init, ReasonInv, Reasons
    <2> QED
      BY <2>1, ReasonsStep, PTL DEF Spec
  <1>3. GateInv /\ ReasonInv /\ BatchInv /\ WhereInv /\ StrayInv /\ SlotInv => TypeOK
    <2> SUFFICES ASSUME GateInv, ReasonInv, BatchInv, WhereInv, StrayInv, SlotInv
                 PROVE  TypeOK
      OBVIOUS
    <2> USE DEF WhereInv
    <2>1. cfg \in Configs /\ pc \in Positions /\ rid \in 0..cfg.rollouts
      BY Numbers DEF BatchInv, StepInv, CountTypes
    <2>2. failure \in {"", "eval", "task", "aborted", "put", "http"}
      BY Zenon DEF ReasonInv, Reasons
    <2>3. {parked, ready, pendings, live, done, data, batch} \subseteq SUBSET Groups
      BY DEF GroupTypes
    <2>4. ToSet(buffer) \cup prefetched \cup ToSet(requeued) \subseteq Groups
      BY LenProperties, ElementOfSeq DEF GroupTypes, ToSet
    <2>5. {remaining, dropped, rejects, bad, faults} \subseteq Nat
      BY DEF CountTypes, SlotInv
    <2>6. {putFailed, inProgress, aborted} \subseteq BOOLEAN
      BY Zenon DEF CountTypes, GateInv
    <2>7. epc \in [Evals -> {"off", "want", "gate", "run", "over", "raised"}]
      BY DEF GateInv, EvalPos
    <2>8. {lock, evaluating, handler} \subseteq SUBSET Evals
      BY DEF CountTypes
    <2>9. {strays, abandoned} \subseteq SUBSET Groups
      BY DEF StrayInv, Leftovers
    <2> HIDE DEF Positions
    <2> QED
      BY <2>1, <2>2, <2>3, <2>4, <2>5, <2>6, <2>7, <2>8, <2>9, Zenon DEF TypeOK, GroupTypes
  <1> QED
    BY <1>1, <1>2, <1>3, SlotHolds, StrayHolds, PTL

----------------------------------------------------------------------------
(* Arms agree with their partners.                                         *)

\* The groups that may still be accepted.
Held == Buffered \cup prefetched \cup parked \cup ready \cup Arms \cup pendings
            \cup done \cup GivenBack

\* The partner of a submitted arm is judged for good, and its outcome is the
\* one the arm was submitted for.
Agrees(a) ==
    /\ stamp[a].by \in Groups \ Held
    /\ IsNoSkill(stamp[a].by) /\ Key(stamp[a].by) = Key(a)
    /\ Role(a) = "slate" => (stamp[a].by \in data <=> Mixed(stamp[a].passes))
    /\ Role(a) # "slate" => stamp[a].passes = 0 /\ stamp[a].by \notin data

StampInv ==
    /\ \A a \in pendings \cup done \cup data : IsArm(a) => a \in DOMAIN stamp
    /\ \A g \in ready : ~IsArm(g)
    /\ \A a \in DOMAIN stamp : Agrees(a)

\* What has ended, and is not forgotten, has its result.
ResultInv ==
    /\ done \cup data \subseteq DOMAIN result
    /\ pc \in Looping => pendings \ live \subseteq DOMAIN result

KeptInv == \A g \in data : Keeps(g)

ArmInv == ResultInv /\ (PairMode => StampInv /\ KeptInv)

LEMMA InitArms == Init => ArmInv
  <1> SUFFICES ASSUME Init PROVE ArmInv
    OBVIOUS
  <1>1. /\ done = {} /\ data = {} /\ pendings = {} /\ ready = {} /\ stamp = << >>
    BY DEF Init
  <1>2. DOMAIN << >> = {}
    OBVIOUS
  <1> QED
    BY <1>1, <1>2 DEF ArmInv, ResultInv, StampInv, KeptInv

\* In the pair modes a group that is judged never comes back.
LEMMA NeverBack ==
    ASSUME PlaceInv, GroupTypes, BatchInv, PairMode, Move
    PROVE  Groups \subseteq Groups' /\ Held' \cap Groups \subseteq Held
  <1> USE DEF PlaceInv
  <1>1. CASE Still
    BY <1>1 DEF Still, GroupView, Groups, Held, Buffered, Arms, GivenBack
  <1>2. ASSUME NEW first, ReadyMove(first)
        PROVE  Groups \subseteq Groups' /\ Held' \cap Groups \subseteq Held
    BY <1>2 DEF ReadyMove, Groups, Held, Buffered, Arms, GivenBack
  <1>3. ASSUME NEW S, NEW first, FetchMove(S, first)
        PROVE  Groups \subseteq Groups' /\ Held' \cap Groups \subseteq Held
    <2>1. /\ Buffered' \subseteq Buffered /\ prefetched' = {}
          /\ S \subseteq Buffered \cup prefetched \cup (Groups' \ Groups)
          /\ Groups \subseteq Groups'
      <3>1. IsInjective(buffer) /\ Buffered \cap prefetched = {}
        BY DEF NoRepeat, Apart
      <3> QED
        BY <1>3, <3>1, Take DEF FetchMove, GroupTypes, Buffered
    <2> DEFINE rows == parked \cup {g \in S : IsNoSkill(g) \/ IsArm(g)}
               pairs == IF PairsOn THEN Pairing(rows) ELSE {}
               paired == {p[1] : p \in pairs} \cup {p[2] : p \in pairs}
               plain == {g \in S : ~IsNoSkill(g) /\ ~IsArm(g)}
               candidates == plain \cup IF PairsOn THEN {p[1] : p \in pairs}
                                        ELSE {g \in S : IsNoSkill(g)}
    <2>2. /\ first \subseteq candidates
          /\ parked' = IF PairsOn THEN rows \ paired ELSE parked
          /\ deferred' = deferred \cup pairs
          /\ ready' = candidates \ first
          /\ pendings' = pendings \cup first
      BY <1>3 DEF FetchMove
    <2>3. \A p \in pairs : p[1] \in rows /\ p[2] \in rows
      BY DEF Pairing
    <2>4. rows \subseteq parked \cup S /\ plain \subseteq S
      OBVIOUS
    <2> HIDE DEF rows, pairs, plain
    <2>5. /\ candidates \subseteq parked \cup S /\ parked' \subseteq parked \cup S
          /\ Arms' \subseteq Arms \cup parked \cup S
      BY <2>2, <2>3, <2>4 DEF Arms
    <2>6. GivenBack' = GivenBack /\ done' = done
      BY <1>3 DEF FetchMove, GivenBack
    <2> HIDE DEF candidates
    <2> QED
      BY <2>1, <2>2, <2>5, <2>6 DEF Held
  <1>4. ASSUME NEW g, EndMove(g)
        PROVE  Groups \subseteq Groups' /\ Held' \cap Groups \subseteq Held
    BY <1>4 DEF EndMove, GroupView, Groups, Held, Buffered, Arms, GivenBack
  <1>5. CASE Collect
    BY <1>5 DEF Collect, sourceVars, cacheVars, Groups, Held, Buffered, Arms, GivenBack
  <1>6. ASSUME NEW g, NEW arms, JudgeMove(g, arms)
        PROVE  Groups \subseteq Groups' /\ Held' \cap Groups \subseteq Held
    <2>1. /\ UNCHANGED <<fetched, buffer, prefetched, parked, ready, requeued>>
          /\ done' \subseteq done /\ deferred' \subseteq deferred
          /\ pendings' = pendings \cup arms /\ arms \subseteq Arms
      BY <1>6 DEF JudgeMove, ArmOf, Arms
    <2> QED
      BY <2>1 DEF Groups, Held, Buffered, Arms, GivenBack
  <1>7. CASE JudgedAll
    <2>1. UNCHANGED <<parked, ready, deferred, pendings, done, requeued>>
      BY <1>7 DEF JudgedAll, cacheVars, taskVars
    <2>2. CASE prefetched' = Samples /\ GetSamples
      <3>1. /\ Buffered' \subseteq Buffered /\ Groups \subseteq Groups'
            /\ prefetched' \subseteq Buffered \cup (Groups' \ Groups)
        BY <2>2, Get DEF GroupTypes, NoRepeat, Buffered
      <3> QED
        BY <2>1, <3>1 DEF Held, Arms, GivenBack
    <2>3. CASE UNCHANGED sourceVars
      BY <2>1, <2>3 DEF sourceVars, Groups, Held, Buffered, Arms, GivenBack
    <2> QED
      BY <1>7, <2>2, <2>3 DEF JudgedAll
  <1>8. ASSUME NEW b, NEW T, PutMove(b, T)
        PROVE  Groups \subseteq Groups' /\ Held' \cap Groups \subseteq Held
    BY <1>8 DEF PutMove, Groups, Held, Buffered, Arms, GivenBack
  <1>9. CASE AbortRaises
    BY <1>9 DEF AbortRaises, Reset, sourceVars, cacheVars, judgeVars, Groups, Held, Buffered,
                Arms, GivenBack
  <1>10. CASE StepReturns
    <2>1. /\ UNCHANGED <<fetched, prefetched, done>> /\ buffer' = buffer \o requeued
          /\ parked' = {} /\ ready' = {} /\ deferred' = {} /\ pendings' = {}
          /\ requeued' = << >>
      BY <1>10 DEF StepReturns, Reset
    <2>2. Buffered' = Buffered \cup GivenBack
      <3>1. buffer \in Seq(Groups) /\ requeued \in Seq(Groups)
        BY DEF GroupTypes
      <3>2. Buffered \cap GivenBack = {}
        BY DEF Apart
      <3> QED
        BY <2>1, <3>1, <3>2, Joined DEF Buffered, GivenBack, NoRepeat
    <2>3. DOMAIN << >> = {}
      OBVIOUS
    <2>4. GivenBack' = {} /\ Arms' = {}
      BY <2>1, <2>3 DEF GivenBack, Arms, ToSet
    <2> QED
      BY <2>1, <2>2, <2>4 DEF Groups, Held
  <1> QED
    BY <1>1, <1>2, <1>3, <1>4, <1>5, <1>6, <1>7, <1>8, <1>9, <1>10 DEF Move

LEMMA ResultStep ==
    ASSUME PlaceInv, StepInv, ResultInv, Move
    PROVE  ResultInv'
  <1> USE DEF ResultInv
  <1>1. CASE Still
    BY <1>1 DEF Still, GroupView, StepInv, Between
  <1>2. ASSUME NEW first, ReadyMove(first) PROVE ResultInv'
    BY <1>2 DEF ReadyMove, Looping
  <1>3. ASSUME NEW S, NEW first, FetchMove(S, first) PROVE ResultInv'
    BY <1>3 DEF FetchMove, Looping
  <1>4. ASSUME NEW g, EndMove(g) PROVE ResultInv'
    BY <1>4 DEF EndMove, GroupView, Looping
  <1>5. CASE Collect
    <2>1. /\ done' = pendings \ live /\ pendings' = pendings \cap live
          /\ UNCHANGED <<live, result, data>> /\ pc = "wait"
      BY <1>5 DEF Collect
    <2> QED
      BY <2>1 DEF Looping
  <1>6. ASSUME NEW g, NEW arms, JudgeMove(g, arms) PROVE ResultInv'
    <2>1. /\ g \in done /\ done' = done \ {g} /\ g \notin data /\ g \notin pendings
          /\ pendings' = pendings \cup arms /\ live' = live \cup arms /\ pc = "process"
          /\ data' = data \cup {g} \/ data' = data
          /\ data' = data \cup {g} => result' = result
          /\ result' = result \/ result' = Without(result, g)
      BY <1>6 DEF JudgeMove, Accept, PlaceInv, Apart
    <2>2. data' # data => result' = result
      BY <2>1
    <2>3. DOMAIN result \ {g} \subseteq DOMAIN result'
      BY <2>1 DEF Without
    <2>4. pendings' \ live' \subseteq pendings \ live
      BY <2>1
    <2>5. pendings \ live \subseteq DOMAIN result
      BY <2>1 DEF Looping
    <2> QED
      BY <2>1, <2>2, <2>3, <2>4, <2>5
  <1>7. CASE JudgedAll
    BY <1>7 DEF JudgedAll, taskVars, Looping
  <1>8. ASSUME NEW b, NEW T, PutMove(b, T) PROVE ResultInv'
    BY <1>8 DEF PutMove
  <1>9. CASE AbortRaises
    BY <1>9 DEF AbortRaises, Fail, Reset, judgeVars, Looping
  <1>10. CASE StepReturns
    <2>1. done = {} /\ done' = done /\ data' = {} /\ pc' = "idle"
      BY <1>10 DEF StepReturns, StepInv
    <2> QED
      BY <2>1 DEF Looping
  <1> QED
    BY <1>1, <1>2, <1>3, <1>4, <1>5, <1>6, <1>7, <1>8, <1>9, <1>10 DEF Move

\* A group whose result and stamp stay is judged the same again.
LEMMA SameVerdict ==
    ASSUME NEW g, UNCHANGED <<cfg, rid>>, result'[g] = result[g],
           IsArm(g) => stamp'[g] = stamp[g]
    PROVE  Keeps(g)' = Keeps(g) /\ Role(g)' = Role(g)
  <1>1. Role(g)' = Role(g) /\ PairsOn' = PairsOn /\ cfg'.sampling = cfg.sampling
    BY DEF Role, SlateKind, IsArm, Row, PairsOn
  <1>2. Role(g) = "slate" => IsArm(g)
    BY DEF Role, IsArm
  <1>3. Mixed(result'[g]) = Mixed(result[g]) /\ AllPass(result'[g]) = AllPass(result[g])
    BY DEF Mixed, AllPass
  <1>4. Role(g) = "slate" => LargeDelta(g)' = LargeDelta(g)
    BY <1>2 DEF LargeDelta
  <1> QED
    BY <1>1, <1>3, <1>4 DEF Keeps, DropsAllPass

\* An arm goes on agreeing with a partner that is judged for good.
LEMMA AgreesOn ==
    ASSUME NEW a, Agrees(a), UNCHANGED cfg, stamp'[a] = stamp[a],
           Groups \subseteq Groups', Held' \cap Groups \subseteq Held,
           \A h \in Groups \ Held : h \in data' <=> h \in data
    PROVE  Agrees(a)'
  <1>1. Role(a)' = Role(a) /\ Key(a)' = Key(a)
    BY DEF Role, SlateKind, IsArm, Row, Key
  <1> DEFINE by == stamp[a].by
  <1>2. /\ stamp'[a].by = by /\ stamp'[a].passes = stamp[a].passes
        /\ IsNoSkill(by)' = IsNoSkill(by) /\ Key(by)' = Key(by)
    BY DEF IsNoSkill, Key, Row
  <1>3. /\ by \in Groups \ Held /\ by \in Groups' \ Held'
        /\ by \in data' <=> by \in data
    BY DEF Agrees
  <1>4. /\ IsNoSkill(by) /\ Key(by) = Key(a)
        /\ Role(a) = "slate" => (by \in data <=> Mixed(stamp[a].passes))
        /\ Role(a) # "slate" => stamp[a].passes = 0 /\ by \notin data
    BY DEF Agrees
  <1>5. IsNoSkill(stamp[a].by)' /\ Key(stamp[a].by)' = Key(a)'
    BY <1>1, <1>2, <1>4 DEF IsNoSkill, Key, Row
  <1> QED
    BY <1>1, <1>2, <1>3, <1>4, <1>5 DEF Agrees, Mixed

\* Moves that neither judge a group nor submit an arm.
LEMMA NoArmMoves ==
    ASSUME ArmInv, PairMode, UNCHANGED <<cfg, rid, data, stamp>>,
           Groups \subseteq Groups', Held' \cap Groups \subseteq Held,
           \A g \in data : result'[g] = result[g],
           \A g \in pendings' \cup done' : g \in pendings \cup done \/ ~IsArm(g),
           \A g \in ready' : ~IsArm(g)
    PROVE  (StampInv /\ KeptInv)'
  <1>1. StampInv /\ KeptInv
    BY DEF ArmInv
  <1>2. \A g : IsArm(g)' = IsArm(g)
    BY SameRows
  <1>3. \A a \in pendings' \cup done' \cup data' : IsArm(a)' => a \in DOMAIN stamp'
    BY <1>1, <1>2 DEF StampInv
  <1>4. ASSUME NEW a \in DOMAIN stamp' PROVE Agrees(a)'
    <2>1. Agrees(a) /\ stamp'[a] = stamp[a]
      BY <1>1, <1>4 DEF StampInv
    <2> QED
      BY <2>1, AgreesOn
  <1>5. ASSUME NEW g \in data' PROVE Keeps(g)'
    <2>1. Keeps(g) /\ result'[g] = result[g] /\ stamp'[g] = stamp[g]
      BY <1>1, <1>5 DEF KeptInv
    <2> QED
      BY <2>1, SameVerdict
  <1> QED
    BY <1>2, <1>3, <1>4, <1>5 DEF StampInv, KeptInv

\* What a fetch submits or makes ready are no-skill groups and rows of no pair.
LEMMA NoArmFetched ==
    ASSUME PairMode, NEW S, NEW first, FetchMove(S, first)
    PROVE  \A g \in first \cup ready' : ~IsArm(g)
  <1> DEFINE rows == parked \cup {g \in S : IsNoSkill(g) \/ IsArm(g)}
             pairs == IF PairsOn THEN Pairing(rows) ELSE {}
             plain == {g \in S : ~IsNoSkill(g) /\ ~IsArm(g)}
             candidates == plain \cup IF PairsOn THEN {p[1] : p \in pairs}
                                      ELSE {g \in S : IsNoSkill(g)}
  <1>1. first \subseteq candidates /\ ready' = candidates \ first
    BY DEF FetchMove
  <1>2. \A p \in pairs : IsNoSkill(p[1])
    BY DEF Pairing
  <1>3. \A g \in plain : ~IsArm(g)
    OBVIOUS
  <1> HIDE DEF pairs, plain
  <1>4. \A g \in candidates : ~IsArm(g)
    BY <1>2, <1>3, Exclusive
  <1> HIDE DEF candidates
  <1> QED
    BY <1>1, <1>4

\* Judging stamps the arms it submits with the outcome it submits them for.
LEMMA JudgeArmsStep ==
    ASSUME PlaceInv, GroupTypes, BatchInv, ArmInv, PairMode,
           NEW g, NEW arms, JudgeMove(g, arms), JudgeArms(g, arms)
    PROVE  (StampInv /\ KeptInv)'
  <1> USE DEF PlaceInv
  <1>1. StampInv /\ KeptInv /\ ResultInv
    BY DEF ArmInv
  <1>2. /\ UNCHANGED <<cfg, rid, ready>>
        /\ g \in done /\ done' = done \ {g} /\ pendings' = pendings \cup arms
        /\ data' = data \/ data' = data \cup {g}
        /\ \/ arms = {} /\ stamp' = stamp
           \/ stamp' = [a \in DOMAIN stamp \cup arms |->
                            IF a \in arms THEN [by |-> g, passes |-> result[g]] ELSE stamp[a]]
    BY DEF JudgeMove, Accept
  <1>3. /\ DOMAIN stamp' = DOMAIN stamp \cup arms
        /\ \A a \in DOMAIN stamp \ arms : stamp'[a] = stamp[a]
        /\ \A a \in arms : stamp'[a] = [by |-> g, passes |-> result[g]]
    BY <1>2
  <1>4. /\ arms \subseteq Arms
        /\ \A a \in arms : IsNoSkill(g) /\ IsArm(a) /\ Key(g) = Key(a)
    BY DEF JudgeMove, ArmOf, Arms, PairInv, Paired
  <1>5. \A h : IsArm(h)' = IsArm(h) /\ IsNoSkill(h)' = IsNoSkill(h) /\ Key(h)' = Key(h)
    BY <1>2, SameRows
  <1>6. Groups \subseteq Groups' /\ Held' \cap Groups \subseteq Held
    <2>1. Move
      BY DEF Move
    <2> QED
      BY <2>1, NeverBack
  <1>7. g \in Groups /\ g \in Held /\ g \notin arms /\ g \notin data
    BY <1>2, <1>4 DEF GroupTypes, Held, Apart
  <1>8. g \notin Held'
    <2>1. UNCHANGED <<buffer, prefetched, parked, ready, requeued>> /\ deferred' \subseteq deferred
      BY DEF JudgeMove
    <2>2. Buffered' = Buffered /\ GivenBack' = GivenBack /\ Arms' \subseteq Arms
      BY <2>1 DEF Buffered, GivenBack, Arms
    <2>3. g \notin Buffered \cup prefetched \cup parked \cup ready \cup Arms \cup pendings
                   \cup GivenBack
      BY <1>2 DEF Apart
    <2> QED
      BY <1>2, <1>7, <2>1, <2>2, <2>3 DEF Held
  <1>9. \A a \in pendings' \cup done' \cup data' : IsArm(a)' => a \in DOMAIN stamp'
    BY <1>1, <1>2, <1>3, <1>5 DEF StampInv
  <1>10. \A h \in ready' : ~IsArm(h)'
    BY <1>1, <1>2, <1>5 DEF StampInv
  <1>11. ASSUME NEW a \in DOMAIN stamp \ arms PROVE Agrees(a)'
    <2>1. Agrees(a) /\ stamp'[a] = stamp[a]
      BY <1>1, <1>3, <1>11 DEF StampInv
    <2>2. \A h \in Groups \ Held : h \in data' <=> h \in data
      BY <1>2, <1>7
    <2> QED
      BY <1>2, <1>6, <2>1, <2>2, AgreesOn
  <1>12. ASSUME NEW a \in arms PROVE Agrees(a)'
    <2>1. stamp'[a].by = g /\ stamp'[a].passes = result[g]
      BY <1>3, <1>12
    <2>2. g \in Groups' \ Held' /\ IsNoSkill(g) /\ Key(g) = Key(a) /\ Role(g) = "no_skill"
      BY <1>4, <1>6, <1>7, <1>8, <1>12, Exclusive DEF Role, IsArm
    <2>3. Role(a)' = Role(a)
      BY <1>2 DEF Role, SlateKind, IsArm, Row
    <2>4. CASE arms = SlateArm(g)
      <3>1. Role(a) = "slate"
        BY <1>12, <2>4 DEF SlateArm, Role
      <3>2. g \in data' <=> Mixed(result[g])
        <4>1. CASE Keeps(g) /\ Accept(g)
          BY <2>2, <4>1 DEF Keeps, Accept
        <4>2. CASE ~Keeps(g) /\ data' = data
          BY <1>7, <2>2, <4>2 DEF Keeps
        <4>3. CASE arms = OracleArm(g)
          BY <1>12, <2>4, <3>1, <4>3 DEF OracleArm, SlateArm, SlateKind
        <4> QED
          BY <1>12, <4>1, <4>2, <4>3 DEF JudgeArms
      <3> QED
        BY <1>5, <2>1, <2>2, <2>3, <3>1, <3>2 DEF Agrees, Mixed
    <2>5. CASE arms = OracleArm(g) /\ data' = data
      <3>1. AllFail(result[g]) /\ cfg.sampling # "slate"
        BY <1>12, <2>5 DEF OracleArm
      <3>2. Role(a) # "slate"
        BY <3>1 DEF Role, SlateKind
      <3>3. result[g] = 0 /\ g \notin data'
        BY <1>7, <2>5, <3>1 DEF AllFail
      <3> QED
        BY <1>5, <2>1, <2>2, <2>3, <3>2, <3>3 DEF Agrees
    <2> QED
      BY <1>12, <2>4, <2>5 DEF JudgeArms
  <1>13. ASSUME NEW h \in data' PROVE Keeps(h)'
    <2>1. Keeps(h) /\ result'[h] = result[h]
      <3>1. CASE h = g
        BY <1>2, <1>7, <1>13, <3>1 DEF JudgeArms, Accept
      <3>2. CASE h # g
        <4>1. h \in data /\ h \in DOMAIN result
          BY <1>1, <1>2, <1>13, <3>2 DEF ResultInv
        <4>2. result' = result \/ result' = Without(result, g)
          BY DEF JudgeMove, Accept
        <4> QED
          BY <1>1, <3>2, <4>1, <4>2 DEF KeptInv, Without
      <3> QED  BY <3>1, <3>2
    <2>2. IsArm(h) => stamp'[h] = stamp[h]
      <3>1. h \in data \cup done
        BY <1>2, <1>13
      <3>2. h \notin arms
        BY <1>4, <3>1 DEF Apart
      <3> QED
        BY <1>1, <1>3, <3>1, <3>2 DEF StampInv
    <2> QED
      BY <1>2, <2>1, <2>2, SameVerdict
  <1> QED
    BY <1>3, <1>9, <1>10, <1>11, <1>12, <1>13 DEF StampInv, KeptInv

LEMMA ArmStep ==
    ASSUME PlaceInv, GroupTypes, BatchInv, ArmInv, Move
    PROVE  ArmInv'
  <1>1. ResultInv'
    BY ResultStep DEF ArmInv, BatchInv
  <1>2. ASSUME PairMode PROVE (StampInv /\ KeptInv)'
    <2>1. Groups \subseteq Groups' /\ Held' \cap Groups \subseteq Held
      BY <1>2, NeverBack
    <2>2. StampInv /\ ResultInv
      BY <1>2 DEF ArmInv
    <2>3. CASE Still
      BY <1>2, <2>1, <2>2, <2>3, NoArmMoves DEF Still, GroupView, StampInv
    <2>4. ASSUME NEW first, ReadyMove(first) PROVE (StampInv /\ KeptInv)'
      BY <1>2, <2>1, <2>2, <2>4, NoArmMoves DEF ReadyMove, StampInv
    <2>5. ASSUME NEW S, NEW first, FetchMove(S, first) PROVE (StampInv /\ KeptInv)'
      <3>1. /\ UNCHANGED <<cfg, rid, data, stamp, result, done>>
            /\ pendings' = pendings \cup first
        BY <2>5 DEF FetchMove
      <3>2. \A g \in first \cup ready' : ~IsArm(g)
        BY <1>2, <2>5, NoArmFetched
      <3> QED
        BY <1>2, <2>1, <2>2, <3>1, <3>2, NoArmMoves
    <2>6. ASSUME NEW g, EndMove(g) PROVE (StampInv /\ KeptInv)'
      <3>1. UNCHANGED <<cfg, rid, data, stamp, pendings, done, ready>>
        BY <2>6 DEF EndMove, GroupView
      <3>2. \A h \in data : result'[h] = result[h]
        <4>1. CASE UNCHANGED result
          BY <4>1
        <4>2. CASE pc \in {"fetch", "wait"}
          <5>1. g \in pendings /\ g \notin data
            BY <2>6, <4>2 DEF EndMove, BatchInv, StepInv, PlaceInv, Apart
          <5>2. data \subseteq DOMAIN result
            BY <2>2 DEF ResultInv
          <5>3. PICK r : \/ UNCHANGED result
                         \/ result' = [h \in DOMAIN result \cup {g} |->
                                           IF h = g THEN r ELSE result[h]]
            BY <2>6 DEF EndMove
          <5> QED
            BY <5>1, <5>2, <5>3
        <4> QED
          BY <2>6, <4>1, <4>2 DEF EndMove
      <3> QED
        BY <1>2, <2>1, <2>2, <3>1, <3>2, NoArmMoves DEF StampInv
    <2>7. CASE Collect
      <3>1. /\ UNCHANGED <<cfg, rid, data, stamp, result, ready>>
            /\ done' = pendings \ live /\ pendings' = pendings \cap live
        BY <2>7 DEF Collect, cacheVars
      <3> QED
        BY <1>2, <2>1, <2>2, <3>1, NoArmMoves DEF StampInv
    <2>8. ASSUME NEW g, NEW arms, JudgeMove(g, arms), JudgeArms(g, arms)
          PROVE  (StampInv /\ KeptInv)'
      BY <1>2, <2>8, JudgeArmsStep
    <2>9. CASE JudgedAll
      <3>1. UNCHANGED <<cfg, rid, data, stamp, result, ready, done, pendings>>
        BY <2>9 DEF JudgedAll, cacheVars, taskVars
      <3> QED
        BY <1>2, <2>1, <2>2, <3>1, NoArmMoves DEF StampInv
    <2>10. ASSUME NEW b, NEW T, PutMove(b, T) PROVE (StampInv /\ KeptInv)'
      <3>1. UNCHANGED <<cfg, rid, data, stamp, result, ready, done, pendings>>
        BY <2>10 DEF PutMove
      <3> QED
        BY <1>2, <2>1, <2>2, <3>1, NoArmMoves DEF StampInv
    <2>11. CASE AbortRaises
      <3>1. UNCHANGED <<cfg, rid, data, stamp, result, ready, done>> /\ pendings' = {}
        BY <2>11 DEF AbortRaises, Fail, Reset, cacheVars, judgeVars
      <3> QED
        BY <1>2, <2>1, <2>2, <3>1, NoArmMoves DEF StampInv
    <2>12. CASE StepReturns
      <3>1. /\ pendings' = {} /\ data' = {} /\ ready' = {} /\ stamp' = << >>
            /\ done' = done /\ done = {}
        BY <2>12 DEF StepReturns, Reset, BatchInv, StepInv
      <3>2. DOMAIN << >> = {}
        OBVIOUS
      <3> QED
        BY <3>1, <3>2 DEF StampInv, KeptInv
    <2> QED
      BY <1>2, <2>3, <2>4, <2>5, <2>6, <2>7, <2>8, <2>9, <2>10, <2>11, <2>12 DEF Move
  <1>3. PairMode' = PairMode
    <2>1. cfg' = cfg
      BY DEF Move, Still, GroupView, ReadyMove, FetchMove, EndMove, Collect, JudgeMove,
             JudgedAll, PutMove, AbortRaises, StepReturns
    <2> QED
      BY <2>1 DEF PairMode
  <1> QED
    BY <1>1, <1>2, <1>3 DEF ArmInv

LEMMA ArmsHold == Spec => []ArmInv
  <1>1. BatchInv /\ WhereInv /\ ArmInv /\ [Next]_vars => ArmInv'
    <2> SUFFICES ASSUME BatchInv, WhereInv, ArmInv, [Next]_vars PROVE ArmInv'
      OBVIOUS
    <2>1. UNCHANGED vars => Still
      BY DEF vars, Still, GroupView, stepVars, sourceVars, cacheVars, taskVars, judgeVars,
             putVars
    <2>2. Move
      BY <2>1, Moves DEF Move
    <2> QED
      BY <2>2, ArmStep DEF WhereInv
  <1> QED
    BY <1>1, InitArms, BatchHolds, WhereHolds, PTL DEF Spec

\* An oracle arm is trained only when its no-skill partner failed everywhere and
\* is not trained, a slate arm only together with a mixed partner or against one
\* that is forgotten, whenever the two end and whatever is judged between them.
THEOREM ArmsAgreeHolds == Spec => []ArmsAgree
  <1>1. WhereInv /\ ArmInv => ArmsAgree
    <2> SUFFICES ASSUME WhereInv, ArmInv, PairMode, NEW g \in data
                 PROVE  LET r == result[g]
                        IN  \/ Role(g) = "no_skill" /\ Mixed(r)
                            \/ /\ Role(g) = "oracle"
                               /\ stamp[g].passes = 0 /\ stamp[g].by \notin data /\ r > 0
                               /\ Key(stamp[g].by) = Key(g) /\ IsNoSkill(stamp[g].by)
                               /\ PairsOn /\ (DropsAllPass => r < N)
                            \/ /\ Role(g) = "slate"
                               /\ Mixed(r) \/ LargeDelta(g)
                               /\ (stamp[g].by \in data) <=> Mixed(stamp[g].passes)
                               /\ Key(stamp[g].by) = Key(g) /\ IsNoSkill(stamp[g].by)
      BY DEF ArmsAgree
    <2>1. Keeps(g)
      BY DEF ArmInv, KeptInv
    <2>2. Role(g) # "no_skill" => Agrees(g)
      BY DEF ArmInv, StampInv, Role, IsArm
    <2>3. N \in Nat \ {0}
      BY RolloutBatchAssumption
    <2>4. CASE Role(g) = "no_skill"
      BY <2>1, <2>4 DEF Keeps
    <2>5. CASE Role(g) = "oracle"
      <3>1. PairsOn /\ (Mixed(result[g]) \/ (AllPass(result[g]) /\ ~DropsAllPass))
        BY <2>1, <2>5 DEF Keeps
      <3>2. result[g] > 0 /\ (DropsAllPass => result[g] < N)
        BY <2>3, <3>1 DEF Mixed, AllPass
      <3> QED
        BY <2>2, <2>5, <3>1, <3>2 DEF Agrees
    <2>6. CASE Role(g) = "slate"
      BY <2>1, <2>2, <2>6 DEF Keeps, Agrees
    <2> QED
      BY <2>4, <2>5, <2>6 DEF Role
  <1> QED
    BY <1>1, WhereHolds, ArmsHold, PTL

=============================================================================
