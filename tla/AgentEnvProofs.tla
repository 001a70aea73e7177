--------------------------- MODULE AgentEnvProofs ---------------------------
(***************************************************************************)
(* Theorems about AgentEnv, for every finite set of samples and every      *)
(* value of the caps.                                                      *)
(*                                                                         *)
(* CapsInv makes the type invariant inductive: that a permit is given back *)
(* only by one who holds it follows from the accounting of the semaphores  *)
(* (permits left plus holders is the cap), which in turn needs to know     *)
(* where the thread of a sample is when its coroutine starts another.      *)
(* FailureInv strengthens InfraNeverTrains with what is known, position by *)
(* position, of a sample whose grade failed.  With them, AgentEnv is shown *)
(* to implement RolloutContract.                                           *)
(* The second half is about rollouts that nobody cancels or times out.     *)
(***************************************************************************)
EXTENDS AgentEnv, FiniteSetTheorems, TLAPS

\* TypeOK without the two semaphores.
TypeButPermits ==
    /\ co \in [Samples -> CoPos]
    /\ wk \in [Samples -> WkPos]
    /\ cl \in [Samples -> ClPos]
    /\ attempt \in [Samples -> 0..MaxAttempts]
    /\ cname \in [Samples -> 0..MaxAttempts]
    /\ tornDown \in [Samples -> BOOLEAN]
    /\ containers \subseteq Samples \X (1..MaxAttempts)
    /\ tools \in [Samples -> BOOLEAN]
    /\ turn \in [Samples -> Nat]
    /\ left \in [Samples -> 0..MaxCalls]
    /\ status \in [Samples -> {"pending", "completed", "truncated", "aborted"}]
    /\ score \in [Samples -> Scores \cup {"none"}]
    /\ stash \in [Samples -> Scores \cup {"none"}]
    /\ skip \in [Samples -> BOOLEAN]
    /\ infraTasks \subseteq Tasks
    /\ outcome \in [Samples -> {"open", "lost", "dropped", "missing"} \cup Scores]
    /\ grades \in [Samples -> Nat]
    /\ infraHit \in [Samples -> BOOLEAN]
    /\ realInfra \subseteq Tasks

\* Permits left plus holders is the cap.
Accounting ==
    /\ activeFree + Cardinality(ActiveHolders) = ActiveCap
    /\ setupFree + Cardinality(SetupHolders) = SetupCap

\* The coroutine waits for env.reset or env.step only while the thread runs it.
Handoff(s) ==
    /\ co[s] \in {"idle", "turn"} => wk[s] = "none"
    /\ co[s] = "reset" => wk[s] \in ResetPos
    /\ co[s] = "step" => wk[s] \in StepPos

\* A thread inside launcher.start() has counted its attempt.
Counted(s) == wk[s] = "start" => attempt[s] > 0

\* env.close runs for the coroutine that awaits it, or for a cancelled one; a
\* call of generate() that returns a sample has awaited it to the end.
Closing(s) ==
    /\ cl[s] # "none" => co[s] \in {"close", "collect", "done"}
    /\ co[s] \in {"collect", "done"} => cl[s] = "ended" \/ outcome[s] = "lost"

CapsInv ==
    /\ TypeOK
    /\ Accounting
    /\ \A s \in Samples : Handoff(s) /\ Counted(s) /\ Closing(s)

\* No score before the grade of the episode has returned.
Ungraded(s) ==
    /\ co[s] \in {"idle", "reset", "turn"} => score[s] = "none"
    /\ Watched(s) /\ wk[s] \in StepPos \ {"over"} => score[s] = "none"

\* A grade failed: while the coroutine runs the sample is unscored and flagged,
\* and its thread grades no more; once close() has decided it is aborted, unless
\* the call of generate() was cancelled.
FailureKept(s) ==
    infraHit[s] =>
        /\ Watched(s) => skip[s] /\ score[s] = "none" /\ wk[s] \in {"none", "skipped"}
        /\ cl[s] \in {"tools", "teardown", "ended"} => status[s] = "aborted"
        /\ cl[s] # "grade"
        /\ co[s] \notin {"idle", "reset", "turn"}

\* Training uses a sample only after generate() has returned it unaborted.
RewardFinal(s) ==
    outcome[s] \in Trained => co[s] = "done" /\ cl[s] = "ended" /\ status[s] # "aborted"

FailureInv ==
    \A s \in Samples : Ungraded(s) /\ FailureKept(s) /\ RewardFinal(s)

\* A score is stashed when it is set; a sample past close() is scored, aborted or lost.
Scored(s) ==
    /\ score[s] # "none" => stash[s] # "none"
    /\ cl[s] \in {"tools", "teardown", "ended"} =>
          stash[s] # "none" \/ status[s] = "aborted" \/ outcome[s] = "lost"
    /\ outcome[s] # "missing"

\* A step of sample s: the disjunct of Next.
StepOf(s) == Coroutine(s) \/ Worker(s) \/ Closer(s) \/ StepTimeout(s) \/ Cancel(s)

-----------------------------------------------------------------------------
(* The two semaphores.                                                     *)

\* The holders are some of the finitely many samples.
LEMMA HoldersFinite ==
    /\ IsFiniteSet(ActiveHolders)
    /\ IsFiniteSet(SetupHolders)
  <1>1. ActiveHolders \in SUBSET Samples /\ SetupHolders \in SUBSET Samples
    BY DEF ActiveHolders, SetupHolders
  <1>2. QED
    BY <1>1, FS_Subset, AgentEnvAssumption

\* What a step of sample s may do to a semaphore with cap c, f permits and
\* holders H: nothing, take a permit, or give one back.
SemStep(s, f, H, ff, HH) ==
    \/ ff = f /\ HH = H
    \/ f > 0 /\ ff = f - 1 /\ s \notin H /\ HH = H \cup {s}
    \/ ff = f + 1 /\ s \in H /\ HH = H \ {s}

\* Whichever it does, permits and holders keep adding up to the cap.
LEMMA SemStepAccounting ==
    ASSUME NEW s, NEW c \in Nat, NEW f \in 0..c, NEW ff, NEW H, NEW HH,
           IsFiniteSet(H), f + Cardinality(H) = c, SemStep(s, f, H, ff, HH)
    PROVE  ff \in 0..c /\ ff + Cardinality(HH) = c
  <1>1. Cardinality(H) \in Nat
    BY FS_CardinalityType
  <1>2. CASE ff = f /\ HH = H
    BY <1>2
  <1>3. CASE f > 0 /\ ff = f - 1 /\ s \notin H /\ HH = H \cup {s}
    <2>1. Cardinality(HH) = Cardinality(H) + 1
      BY <1>3, FS_AddElement
    <2>2. QED
      BY <1>1, <1>3, <2>1
  <1>4. CASE ff = f + 1 /\ s \in H /\ HH = H \ {s}
    <2>1. Cardinality(HH) = Cardinality(H) - 1 /\ Cardinality(HH) \in Nat
      BY <1>4, FS_RemoveElement, FS_CardinalityType
    <2>2. QED
      BY <1>1, <1>4, <2>1
  <1>5. QED
    BY <1>2, <1>3, <1>4 DEF SemStep

\* Every action moves the active-environment semaphore by a SemStep.
LEMMA ActiveStep ==
    ASSUME TypeOK, NEW s \in Samples, StepOf(s)
    PROVE  SemStep(s, activeFree, ActiveHolders, activeFree', ActiveHolders')
  <1> USE DEF SemStep, TypeOK, ActiveHolders, Running, CoPos, setupVars
  <1>1. CASE AcquireSlot(s)
    BY <1>1 DEF AcquireSlot, TakeActiveSlot
  <1>2. CASE ResetReturn(s)
    BY <1>2 DEF ResetReturn
  <1>3. CASE StopAtBudget(s)
    BY <1>3 DEF StopAtBudget
  <1>4. CASE Infer(s)
    BY <1>4 DEF Infer
  <1>5. CASE StepReturn(s)
    BY <1>5 DEF StepReturn
  <1>6. CASE Clean(s)
    BY <1>6 DEF Clean
  <1>7. CASE CloseCheck(s)
    BY <1>7 DEF CloseCheck, MarkAborted, SkipGrading
  <1>8. CASE CloseGraded(s)
    BY <1>8 DEF CloseGraded, GradeOk, GradeInfra, MarkAborted
  <1>9. CASE CloseTools(s)
    BY <1>9 DEF CloseTools
  <1>10. CASE CloseTeardown(s)
    BY <1>10 DEF CloseTeardown, Teardown
  <1>11. CASE Collect(s)
    BY <1>11 DEF Collect
  <1>12. CASE ResetBegin(s)
    BY <1>12 DEF ResetBegin
  <1>13. CASE SetupAcquire(s)
    BY <1>13 DEF SetupAcquire, TakeSetupSlot
  <1>14. CASE LauncherStart(s)
    BY <1>14 DEF LauncherStart, GiveSetupSlot
  <1>15. CASE BuildTools(s)
    BY <1>15 DEF BuildTools, GiveSetupSlot
  <1>16. CASE SetupRetry(s)
    BY <1>16 DEF SetupRetry, Teardown
  <1>17. CASE SetupGiveUp(s)
    BY <1>17 DEF SetupGiveUp
  <1>18. CASE StepBegin(s)
    BY <1>18 DEF StepBegin
  <1>19. CASE DispatchBegin(s)
    BY <1>19 DEF DispatchBegin
  <1>20. CASE ShellEnter(s)
    BY <1>20 DEF ShellEnter
  <1>21. CASE DispatchEnd(s)
    BY <1>21 DEF DispatchEnd
  <1>22. CASE CallsDone(s)
    BY <1>22 DEF CallsDone
  <1>23. CASE StepGraded(s)
    BY <1>23 DEF StepGraded, GradeOk, GradeInfra
  <1>24. CASE OrphanExit(s)
    BY <1>24 DEF OrphanExit
  <1>25. CASE StepTimeout(s)
    BY <1>25 DEF StepTimeout, Orphan
  <1>26. CASE Cancel(s)
    BY <1>26 DEF Cancel, Orphan, GiveActiveSlot
  <1>27. CASE CloseReturn(s)
    BY <1>27 DEF CloseReturn, GiveActiveSlot
  <1>28. QED
    BY <1>1, <1>2, <1>3, <1>4, <1>5, <1>6, <1>7, <1>8, <1>9, <1>10, <1>11, <1>12,
       <1>13, <1>14, <1>15, <1>16, <1>17, <1>18, <1>19, <1>20, <1>21, <1>22, <1>23, <1>24,
       <1>25, <1>26, <1>27
    DEF StepOf, Coroutine, Worker, Closer

\* So does every action with the set-up semaphore.
LEMMA SetupStep ==
    ASSUME TypeOK, NEW s \in Samples, Handoff(s), StepOf(s)
    PROVE  SemStep(s, setupFree, SetupHolders, setupFree', SetupHolders')
  <1> USE DEF SemStep, TypeOK, SetupHolders, setupVars, Handoff
  <1>1. CASE AcquireSlot(s)
    BY <1>1 DEF AcquireSlot, TakeActiveSlot
  <1>2. CASE ResetReturn(s)
    BY <1>2 DEF ResetReturn
  <1>3. CASE StopAtBudget(s)
    BY <1>3 DEF StopAtBudget
  <1>4. CASE Infer(s)
    BY <1>4 DEF Infer
  <1>5. CASE StepReturn(s)
    BY <1>5 DEF StepReturn
  <1>6. CASE Clean(s)
    BY <1>6 DEF Clean
  <1>7. CASE CloseCheck(s)
    BY <1>7 DEF CloseCheck, MarkAborted, SkipGrading
  <1>8. CASE CloseGraded(s)
    BY <1>8 DEF CloseGraded, GradeOk, GradeInfra, MarkAborted
  <1>9. CASE CloseTools(s)
    BY <1>9 DEF CloseTools
  <1>10. CASE CloseTeardown(s)
    BY <1>10 DEF CloseTeardown, Teardown
  <1>11. CASE Collect(s)
    BY <1>11 DEF Collect
  <1>12. CASE ResetBegin(s)
    BY <1>12 DEF ResetBegin
  <1>13. CASE SetupAcquire(s)
    BY <1>13 DEF SetupAcquire, TakeSetupSlot
  <1>14. CASE LauncherStart(s)
    BY <1>14 DEF LauncherStart, GiveSetupSlot
  <1>15. CASE BuildTools(s)
    BY <1>15 DEF BuildTools, GiveSetupSlot
  <1>16. CASE SetupRetry(s)
    BY <1>16 DEF SetupRetry, Teardown
  <1>17. CASE SetupGiveUp(s)
    BY <1>17 DEF SetupGiveUp
  <1>18. CASE StepBegin(s)
    BY <1>18 DEF StepBegin
  <1>19. CASE DispatchBegin(s)
    BY <1>19 DEF DispatchBegin
  <1>20. CASE ShellEnter(s)
    BY <1>20 DEF ShellEnter
  <1>21. CASE DispatchEnd(s)
    BY <1>21 DEF DispatchEnd
  <1>22. CASE CallsDone(s)
    BY <1>22 DEF CallsDone
  <1>23. CASE StepGraded(s)
    BY <1>23 DEF StepGraded, GradeOk, GradeInfra
  <1>24. CASE OrphanExit(s)
    BY <1>24 DEF OrphanExit
  <1>25. CASE StepTimeout(s)
    BY <1>25 DEF StepTimeout, Orphan
  <1>26. CASE Cancel(s)
    BY <1>26 DEF Cancel, Orphan, GiveActiveSlot
  <1>27. CASE CloseReturn(s)
    BY <1>27 DEF CloseReturn, GiveActiveSlot
  <1>28. QED
    BY <1>1, <1>2, <1>3, <1>4, <1>5, <1>6, <1>7, <1>8, <1>9, <1>10, <1>11, <1>12,
       <1>13, <1>14, <1>15, <1>16, <1>17, <1>18, <1>19, <1>20, <1>21, <1>22, <1>23, <1>24,
       <1>25, <1>26, <1>27
    DEF StepOf, Coroutine, Worker, Closer

-----------------------------------------------------------------------------
(* Types and positions.                                                    *)

\* So does what a failed grade records.
LEMMA GradeInfraTypes ==
    ASSUME TypeOK, NEW s \in Samples, NEW r, NEW w, GradeInfra(s, r, w)
    PROVE  /\ infraTasks' \subseteq Tasks /\ realInfra' \subseteq Tasks
           /\ infraHit' \in [Samples -> BOOLEAN]
  <1>1. /\ TaskOf[s] \in Tasks
        /\ infraTasks \subseteq Tasks /\ realInfra \subseteq Tasks
        /\ infraHit \in [Samples -> BOOLEAN]
    BY AgentEnvAssumption DEF TypeOK
  <1>2. infraTasks' \subseteq Tasks
    BY <1>1 DEF GradeInfra
  <1>3. realInfra' \subseteq Tasks
    BY <1>1 DEF GradeInfra
  <1>4. infraHit' \in [Samples -> BOOLEAN]
    <2>1. (infraHit[s] \/ w) \in BOOLEAN
      OBVIOUS
    <2> QED
      BY <1>1, <2>1 DEF GradeInfra
  <1> QED
    BY <1>2, <1>3, <1>4

\* Every action keeps the types of the other variables.
LEMMA TypeStep ==
    ASSUME TypeOK, \A q \in Samples : Counted(q), NEW s \in Samples, StepOf(s)
    PROVE  TypeButPermits'
  <1> USE DEF TypeOK, TypeButPermits, CoPos, WkPos, ClPos, ResetPos, StepPos, Scores, Counted,
         setupVars, launcherVars, envVars, sampleVars, gradeVars
  <1>1. CASE AcquireSlot(s)
    BY <1>1 DEF AcquireSlot, TakeActiveSlot
  <1>2. CASE ResetReturn(s)
    BY <1>2 DEF ResetReturn
  <1>3. CASE StopAtBudget(s)
    BY <1>3 DEF StopAtBudget
  <1>4. CASE Infer(s)
    BY <1>4 DEF Infer
  <1>5. CASE StepReturn(s)
    BY <1>5 DEF StepReturn
  <1>6. CASE Clean(s)
    BY <1>6 DEF Clean
  <1>7. CASE CloseCheck(s)
    BY <1>7 DEF CloseCheck, MarkAborted, SkipGrading
  <1>8. CASE CloseGraded(s)
    <2>1. \/ UNCHANGED <<infraTasks, realInfra, infraHit>>
          \/ GradeInfra(s, TRUE, TRUE)
      BY <1>8, Zenon DEF CloseGraded
    <2>2. infraTasks' \subseteq Tasks /\ realInfra' \subseteq Tasks /\ infraHit' \in [Samples -> BOOLEAN]
      BY <2>1, GradeInfraTypes
    <2>3. score' \in [Samples -> Scores \cup {"none"}] /\ stash' \in [Samples -> Scores \cup {"none"}]
      <3>1. CASE GradeOk(s)
        BY <3>1 DEF GradeOk
      <3>2. CASE UNCHANGED <<score, stash>>
        BY <3>2
      <3>3. QED
        BY <1>8, <3>1, <3>2 DEF CloseGraded
    <2>4. cl' \in [Samples -> ClPos] /\ skip' = skip
      BY <1>8 DEF CloseGraded
    <2>5. status' \in [Samples -> {"pending", "completed", "truncated", "aborted"}]
      BY <1>8 DEF CloseGraded, MarkAborted
    <2>6. QED
      BY <1>8, <2>2, <2>3, <2>4, <2>5 DEF CloseGraded
  <1>9. CASE CloseTools(s)
    BY <1>9 DEF CloseTools
  <1>10. CASE CloseTeardown(s)
    BY <1>10 DEF CloseTeardown, Teardown
  <1>11. CASE Collect(s)
    BY <1>11 DEF Collect
  <1>12. CASE ResetBegin(s)
    BY <1>12 DEF ResetBegin
  <1>13. CASE SetupAcquire(s)
    BY <1>13, AgentEnvAssumption DEF SetupAcquire, TakeSetupSlot
  <1>14. CASE LauncherStart(s)
    BY <1>14, AgentEnvAssumption DEF LauncherStart, GiveSetupSlot
  <1>15. CASE BuildTools(s)
    <2>1. \/ wk' = [wk EXCEPT ![s] = "ready"] /\ tools' = [tools EXCEPT ![s] = TRUE]
          \/ wk' = [wk EXCEPT ![s] = "undo"] /\ tools' = tools
      BY <1>15, Zenon DEF BuildTools
    <2>2. wk' \in [Samples -> WkPos]
      BY <2>1
    <2>3. tools' \in [Samples -> BOOLEAN]
      BY <2>1
    <2> QED
      BY <1>15, <2>2, <2>3 DEF BuildTools
  <1>16. CASE SetupRetry(s)
    <2>1. tornDown' \in [Samples -> BOOLEAN] /\ containers' \subseteq containers
      <3>1. \/ tornDown' = [tornDown EXCEPT ![s] = TRUE]
            \/ tornDown' = tornDown
        BY <1>16, Zenon DEF SetupRetry, Teardown
      <3>2. containers' = containers \/ containers' = containers \ {<<s, cname[s]>>}
        BY <1>16, Zenon DEF SetupRetry, Teardown
      <3>3. tornDown' \in [Samples -> BOOLEAN]
        BY <3>1
      <3> QED  BY <3>2, <3>3
    <2>2. wk' \in [Samples -> WkPos]
      BY <1>16 DEF SetupRetry
    <2>3. tools' \in [Samples -> BOOLEAN]
      BY <1>16 DEF SetupRetry
    <2> QED
      BY <1>16, <2>1, <2>2, <2>3 DEF SetupRetry
  <1>17. CASE SetupGiveUp(s)
    BY <1>17 DEF SetupGiveUp
  <1>18. CASE StepBegin(s)
    BY <1>18, AgentEnvAssumption DEF StepBegin
  <1>19. CASE DispatchBegin(s)
    <2>1. left[s] - 1 \in 0..MaxCalls
      BY <1>19, AgentEnvAssumption DEF DispatchBegin
    <2>2. left' \in [Samples -> 0..MaxCalls]
      BY <1>19, <2>1 DEF DispatchBegin
    <2>3. wk' \in [Samples -> WkPos]
      BY <1>19 DEF DispatchBegin
    <2>4. QED
      BY <1>19, <2>2, <2>3 DEF DispatchBegin
  <1>20. CASE ShellEnter(s)
    BY <1>20 DEF ShellEnter
  <1>21. CASE DispatchEnd(s)
    BY <1>21 DEF DispatchEnd
  <1>22. CASE CallsDone(s)
    BY <1>22 DEF CallsDone
  <1>23. CASE StepGraded(s)
    <2>1. \/ UNCHANGED <<infraTasks, realInfra, infraHit>>
          \/ GradeInfra(s, wk[s] = "gradeState", Watched(s))
      BY <1>23, Zenon DEF StepGraded
    <2>2. infraTasks' \subseteq Tasks /\ realInfra' \subseteq Tasks /\ infraHit' \in [Samples -> BOOLEAN]
      BY <2>1, GradeInfraTypes
    <2>3. score' \in [Samples -> Scores \cup {"none"}] /\ stash' \in [Samples -> Scores \cup {"none"}]
      BY <1>23 DEF StepGraded, GradeOk
    <2>4. wk' \in [Samples -> WkPos] /\ skip' \in [Samples -> BOOLEAN]
      <3>1. \/ wk' = [wk EXCEPT ![s] = "over"] /\ skip' = skip
            \/ wk' = [wk EXCEPT ![s] = "skipped"] /\ skip' = [skip EXCEPT ![s] = TRUE]
        BY <1>23, Zenon DEF StepGraded
      <3>2. wk' \in [Samples -> WkPos]
        BY <3>1
      <3>3. skip' \in [Samples -> BOOLEAN]
        BY <3>1
      <3> QED  BY <3>2, <3>3
    <2>5. QED
      BY <1>23, <2>2, <2>3, <2>4 DEF StepGraded
  <1>24. CASE OrphanExit(s)
    BY <1>24 DEF OrphanExit
  <1>25. CASE StepTimeout(s)
    BY <1>25 DEF StepTimeout, Orphan
  <1>26. CASE Cancel(s)
    BY <1>26 DEF Cancel, Orphan, GiveActiveSlot
  <1>27. CASE CloseReturn(s)
    BY <1>27 DEF CloseReturn, GiveActiveSlot
  <1>28. QED
    BY <1>1, <1>2, <1>3, <1>4, <1>5, <1>6, <1>7, <1>8, <1>9, <1>10, <1>11, <1>12,
       <1>13, <1>14, <1>15, <1>16, <1>17, <1>18, <1>19, <1>20, <1>21, <1>22, <1>23, <1>24,
       <1>25, <1>26, <1>27
    DEF StepOf, Coroutine, Worker, Closer

\* Every action of s keeps what CapsInv says of each sample.
LEMMA HandoffStep ==
    ASSUME TypeOK, NEW q \in Samples, Handoff(q), Counted(q), Closing(q),
           NEW s \in Samples, StepOf(s)
    PROVE  Handoff(q)' /\ Counted(q)' /\ Closing(q)'
  <1> USE DEF TypeOK, Handoff, Counted, Closing, WkPos, ResetPos, StepPos,
         setupVars, launcherVars, envVars, sampleVars, gradeVars
  <1>1. CASE AcquireSlot(s)
    BY <1>1 DEF AcquireSlot, TakeActiveSlot
  <1>2. CASE ResetReturn(s)
    BY <1>2 DEF ResetReturn
  <1>3. CASE StopAtBudget(s)
    BY <1>3 DEF StopAtBudget
  <1>4. CASE Infer(s)
    BY <1>4 DEF Infer
  <1>5. CASE StepReturn(s)
    BY <1>5 DEF StepReturn
  <1>6. CASE Clean(s)
    BY <1>6 DEF Clean
  <1>7. CASE CloseCheck(s)
    BY <1>7 DEF CloseCheck, MarkAborted, SkipGrading
  <1>8. CASE CloseGraded(s)
    BY <1>8 DEF CloseGraded, GradeOk, GradeInfra, MarkAborted
  <1>9. CASE CloseTools(s)
    BY <1>9 DEF CloseTools
  <1>10. CASE CloseTeardown(s)
    BY <1>10 DEF CloseTeardown, Teardown
  <1>11. CASE Collect(s)
    BY <1>11 DEF Collect
  <1>12. CASE ResetBegin(s)
    BY <1>12 DEF ResetBegin
  <1>13. CASE SetupAcquire(s)
    BY <1>13 DEF SetupAcquire, TakeSetupSlot
  <1>14. CASE LauncherStart(s)
    BY <1>14 DEF LauncherStart, GiveSetupSlot
  <1>15. CASE BuildTools(s)
    BY <1>15 DEF BuildTools, GiveSetupSlot
  <1>16. CASE SetupRetry(s)
    BY <1>16 DEF SetupRetry, Teardown
  <1>17. CASE SetupGiveUp(s)
    BY <1>17 DEF SetupGiveUp
  <1>18. CASE StepBegin(s)
    BY <1>18 DEF StepBegin
  <1>19. CASE DispatchBegin(s)
    BY <1>19 DEF DispatchBegin
  <1>20. CASE ShellEnter(s)
    BY <1>20 DEF ShellEnter
  <1>21. CASE DispatchEnd(s)
    BY <1>21 DEF DispatchEnd
  <1>22. CASE CallsDone(s)
    BY <1>22 DEF CallsDone
  <1>23. CASE StepGraded(s)
    BY <1>23 DEF StepGraded, GradeOk, GradeInfra
  <1>24. CASE OrphanExit(s)
    BY <1>24 DEF OrphanExit
  <1>25. CASE StepTimeout(s)
    BY <1>25 DEF StepTimeout, Orphan
  <1>26. CASE Cancel(s)
    BY <1>26 DEF Cancel, Orphan, GiveActiveSlot
  <1>27. CASE CloseReturn(s)
    BY <1>27 DEF CloseReturn, GiveActiveSlot
  <1>28. QED
    BY <1>1, <1>2, <1>3, <1>4, <1>5, <1>6, <1>7, <1>8, <1>9, <1>10, <1>11, <1>12,
       <1>13, <1>14, <1>15, <1>16, <1>17, <1>18, <1>19, <1>20, <1>21, <1>22, <1>23, <1>24,
       <1>25, <1>26, <1>27
    DEF StepOf, Coroutine, Worker, Closer

\* CapsInv holds before any rollout starts,
LEMMA InitCapsInv == Init => CapsInv
  <1> SUFFICES ASSUME Init PROVE CapsInv
    OBVIOUS
  <1>1. TypeOK
    BY AgentEnvAssumption DEF Init, TypeOK, CoPos, WkPos, ClPos, Scores
  <1>2. ActiveHolders = {} /\ SetupHolders = {}
    BY DEF Init, ActiveHolders, SetupHolders, Running
  <1>3. Accounting
    BY <1>2, FS_EmptySet, AgentEnvAssumption DEF Init, Accounting
  <1>4. \A s \in Samples : Handoff(s) /\ Counted(s) /\ Closing(s)
    BY DEF Init, Handoff, Counted, Closing
  <1>5. QED
    BY <1>1, <1>3, <1>4 DEF CapsInv

\* every step of any sample keeps it,
LEMMA NextCapsInv == CapsInv /\ [Next]_vars => CapsInv'
  <1> SUFFICES ASSUME CapsInv, [Next]_vars PROVE CapsInv'
    OBVIOUS
  <1>1. ASSUME NEW s \in Samples, StepOf(s) PROVE CapsInv'
    <2>1. activeFree' \in 0..ActiveCap /\ activeFree' + Cardinality(ActiveHolders') = ActiveCap
      <3>1. SemStep(s, activeFree, ActiveHolders, activeFree', ActiveHolders')
        BY <1>1, ActiveStep DEF CapsInv
      <3>2. QED
        BY <3>1, SemStepAccounting, HoldersFinite, AgentEnvAssumption
        DEF CapsInv, TypeOK, Accounting
    <2>2. setupFree' \in 0..SetupCap /\ setupFree' + Cardinality(SetupHolders') = SetupCap
      <3>1. SemStep(s, setupFree, SetupHolders, setupFree', SetupHolders')
        BY <1>1, SetupStep DEF CapsInv
      <3>2. QED
        BY <3>1, SemStepAccounting, HoldersFinite, AgentEnvAssumption
        DEF CapsInv, TypeOK, Accounting
    <2>3. TypeButPermits'
      BY <1>1, TypeStep DEF CapsInv
    <2>4. TypeOK'
      BY <2>1, <2>2, <2>3 DEF TypeOK, TypeButPermits
    <2>5. ASSUME NEW q \in Samples PROVE Handoff(q)' /\ Counted(q)' /\ Closing(q)'
      BY <1>1, HandoffStep DEF CapsInv
    <2>6. QED
      BY <2>1, <2>2, <2>4, <2>5 DEF CapsInv, Accounting
  <1>2. CASE UNCHANGED vars
    BY <1>2 DEF CapsInv, TypeOK, Accounting, ActiveHolders, SetupHolders, Handoff,
                Counted, Closing, vars
  <1>3. QED
    BY <1>1, <1>2 DEF Next, StepOf

\* and so it always holds.
LEMMA CapsInvariant == Spec => []CapsInv
  BY InitCapsInv, NextCapsInv, PTL DEF Spec

\* generate() and env.reset keep every variable in its type for any caps: in
\* particular neither semaphore is released above its initial value, whatever
\* timeout, cancellation or failed attempt interrupts the code that holds it.
THEOREM TypeCorrect == Spec => []TypeOK
  <1>1. CapsInv => TypeOK
    BY DEF CapsInv
  <1>2. QED
    BY <1>1, CapsInvariant, PTL

\* No more samples between entering and leaving _active_env_slot, and no more
\* threads inside _docker_setup_slot, than the two caps.
THEOREM CapsHold == Spec => []CapsRespected
  <1>1. CapsInv => CapsRespected
    <2> SUFFICES ASSUME CapsInv PROVE CapsRespected
      OBVIOUS
    <2>1. Cardinality(ActiveHolders) \in Nat /\ Cardinality(SetupHolders) \in Nat
      BY HoldersFinite, FS_CardinalityType
    <2>2. QED
      BY <2>1, AgentEnvAssumption DEF CapsInv, TypeOK, Accounting, CapsRespected
  <1>2. QED
    BY <1>1, CapsInvariant, PTL

-----------------------------------------------------------------------------
(* A failed grade never becomes a reward.                                  *)

\* Every action of s keeps FailureInv.
LEMMA FailureStep ==
    ASSUME CapsInv, NEW q \in Samples, FailureInv,
           NEW s \in Samples, StepOf(s)
    PROVE  Ungraded(q)' /\ FailureKept(q)' /\ RewardFinal(q)'
  <1> USE DEF CapsInv, TypeOK, Handoff, Closing, Watched, FailureInv, Ungraded, FailureKept, RewardFinal,
         ResetPos, StepPos, Trained, Scores, setupVars, launcherVars, envVars, sampleVars, gradeVars
  <1>1. CASE AcquireSlot(s)
    BY <1>1 DEF AcquireSlot, TakeActiveSlot
  <1>2. CASE ResetReturn(s)
    BY <1>2 DEF ResetReturn
  <1>3. CASE StopAtBudget(s)
    BY <1>3 DEF StopAtBudget
  <1>4. CASE Infer(s)
    BY <1>4 DEF Infer
  <1>5. CASE StepReturn(s)
    BY <1>5 DEF StepReturn
  <1>6. CASE Clean(s)
    BY <1>6 DEF Clean
  <1>7. CASE CloseCheck(s)
    BY <1>7 DEF CloseCheck, MarkAborted, SkipGrading
  <1>8. CASE CloseGraded(s)
    BY <1>8 DEF CloseGraded, GradeOk, GradeInfra, MarkAborted
  <1>9. CASE CloseTools(s)
    BY <1>9 DEF CloseTools
  <1>10. CASE CloseTeardown(s)
    BY <1>10 DEF CloseTeardown, Teardown
  <1>11. CASE Collect(s)
    BY <1>11 DEF Collect
  <1>12. CASE ResetBegin(s)
    BY <1>12 DEF ResetBegin
  <1>13. CASE SetupAcquire(s)
    BY <1>13 DEF SetupAcquire, TakeSetupSlot
  <1>14. CASE LauncherStart(s)
    BY <1>14 DEF LauncherStart, GiveSetupSlot
  <1>15. CASE BuildTools(s)
    BY <1>15 DEF BuildTools, GiveSetupSlot
  <1>16. CASE SetupRetry(s)
    BY <1>16 DEF SetupRetry, Teardown
  <1>17. CASE SetupGiveUp(s)
    BY <1>17 DEF SetupGiveUp
  <1>18. CASE StepBegin(s)
    BY <1>18 DEF StepBegin
  <1>19. CASE DispatchBegin(s)
    BY <1>19 DEF DispatchBegin
  <1>20. CASE ShellEnter(s)
    BY <1>20 DEF ShellEnter
  <1>21. CASE DispatchEnd(s)
    BY <1>21 DEF DispatchEnd
  <1>22. CASE CallsDone(s)
    BY <1>22 DEF CallsDone
  <1>23. CASE StepGraded(s)
    BY <1>23 DEF StepGraded, GradeOk, GradeInfra
  <1>24. CASE OrphanExit(s)
    BY <1>24 DEF OrphanExit
  <1>25. CASE StepTimeout(s)
    BY <1>25 DEF StepTimeout, Orphan
  <1>26. CASE Cancel(s)
    BY <1>26 DEF Cancel, Orphan, GiveActiveSlot
  <1>27. CASE CloseReturn(s)
    BY <1>27 DEF CloseReturn, GiveActiveSlot
  <1>28. QED
    BY <1>1, <1>2, <1>3, <1>4, <1>5, <1>6, <1>7, <1>8, <1>9, <1>10, <1>11, <1>12,
       <1>13, <1>14, <1>15, <1>16, <1>17, <1>18, <1>19, <1>20, <1>21, <1>22, <1>23, <1>24,
       <1>25, <1>26, <1>27
    DEF StepOf, Coroutine, Worker, Closer

\* So FailureInv always holds.
LEMMA FailureInvariant == Spec => []FailureInv
  <1>1. Init => FailureInv
    BY DEF Init, FailureInv, Watched, Ungraded, FailureKept, RewardFinal, Trained, Scores
  <1>2. CapsInv /\ FailureInv /\ [Next]_vars => FailureInv'
    <2> SUFFICES ASSUME CapsInv, FailureInv, [Next]_vars PROVE FailureInv'
      OBVIOUS
    <2>1. ASSUME NEW s \in Samples, StepOf(s) PROVE FailureInv'
      <3>1. ASSUME NEW q \in Samples
            PROVE  Ungraded(q)' /\ FailureKept(q)' /\ RewardFinal(q)'
        BY <2>1, FailureStep
      <3>2. QED
        BY <3>1 DEF FailureInv
    <2>2. CASE UNCHANGED vars
      BY <2>2 DEF FailureInv, Watched, Ungraded, FailureKept, RewardFinal, vars
    <2>3. QED
      BY <2>1, <2>2 DEF Next, StepOf
  <1>3. QED
    BY <1>1, <1>2, CapsInvariant, PTL DEF Spec

\* A verifier failure that the coroutine or close() saw never reaches training
\* as a reward, for any number of samples and under any interleaving with
\* abandoned threads: the sample ends aborted, and its group is dropped.
THEOREM InfraNeverTrainsHolds == Spec => []InfraNeverTrains
  <1>1. FailureInv => InfraNeverTrains
    BY DEF FailureInv, FailureKept, RewardFinal, InfraNeverTrains
  <1>2. QED
    BY <1>1, FailureInvariant, PTL

\* Every action of s keeps Scored.
LEMMA ScoredStep ==
    ASSUME TypeOK, NEW q \in Samples, Closing(q), Scored(q),
           NEW s \in Samples, StepOf(s)
    PROVE  Scored(q)'
  <1> USE DEF TypeOK, Closing, Scored, Scores, setupVars, launcherVars, envVars, sampleVars, gradeVars
  <1>1. CASE AcquireSlot(s)
    BY <1>1 DEF AcquireSlot, TakeActiveSlot
  <1>2. CASE ResetReturn(s)
    BY <1>2 DEF ResetReturn
  <1>3. CASE StopAtBudget(s)
    BY <1>3 DEF StopAtBudget
  <1>4. CASE Infer(s)
    BY <1>4 DEF Infer
  <1>5. CASE StepReturn(s)
    BY <1>5 DEF StepReturn
  <1>6. CASE Clean(s)
    BY <1>6 DEF Clean
  <1>7. CASE CloseCheck(s)
    BY <1>7 DEF CloseCheck, MarkAborted, SkipGrading
  <1>8. CASE CloseGraded(s)
    BY <1>8 DEF CloseGraded, GradeOk, GradeInfra, MarkAborted
  <1>9. CASE CloseTools(s)
    BY <1>9 DEF CloseTools
  <1>10. CASE CloseTeardown(s)
    BY <1>10 DEF CloseTeardown, Teardown
  <1>11. CASE Collect(s)
    BY <1>11 DEF Collect
  <1>12. CASE ResetBegin(s)
    BY <1>12 DEF ResetBegin
  <1>13. CASE SetupAcquire(s)
    BY <1>13 DEF SetupAcquire, TakeSetupSlot
  <1>14. CASE LauncherStart(s)
    BY <1>14 DEF LauncherStart, GiveSetupSlot
  <1>15. CASE BuildTools(s)
    BY <1>15 DEF BuildTools, GiveSetupSlot
  <1>16. CASE SetupRetry(s)
    BY <1>16 DEF SetupRetry, Teardown
  <1>17. CASE SetupGiveUp(s)
    BY <1>17 DEF SetupGiveUp
  <1>18. CASE StepBegin(s)
    BY <1>18 DEF StepBegin
  <1>19. CASE DispatchBegin(s)
    BY <1>19 DEF DispatchBegin
  <1>20. CASE ShellEnter(s)
    BY <1>20 DEF ShellEnter
  <1>21. CASE DispatchEnd(s)
    BY <1>21 DEF DispatchEnd
  <1>22. CASE CallsDone(s)
    BY <1>22 DEF CallsDone
  <1>23. CASE StepGraded(s)
    BY <1>23 DEF StepGraded, GradeOk, GradeInfra
  <1>24. CASE OrphanExit(s)
    BY <1>24 DEF OrphanExit
  <1>25. CASE StepTimeout(s)
    BY <1>25 DEF StepTimeout, Orphan
  <1>26. CASE Cancel(s)
    BY <1>26 DEF Cancel, Orphan, GiveActiveSlot
  <1>27. CASE CloseReturn(s)
    BY <1>27 DEF CloseReturn, GiveActiveSlot
  <1>28. QED
    BY <1>1, <1>2, <1>3, <1>4, <1>5, <1>6, <1>7, <1>8, <1>9, <1>10, <1>11, <1>12,
       <1>13, <1>14, <1>15, <1>16, <1>17, <1>18, <1>19, <1>20, <1>21, <1>22, <1>23, <1>24,
       <1>25, <1>26, <1>27
    DEF StepOf, Coroutine, Worker, Closer

\* So does the whole batch.
ScoredInv == \A s \in Samples : Scored(s)

LEMMA ScoredInvariant == Spec => []ScoredInv
  <1>1. Init => ScoredInv
    BY DEF Init, ScoredInv, Scored
  <1>2. CapsInv /\ ScoredInv /\ [Next]_vars => ScoredInv'
    <2> SUFFICES ASSUME CapsInv, ScoredInv, [Next]_vars PROVE ScoredInv'
      OBVIOUS
    <2>1. ASSUME NEW s \in Samples, StepOf(s) PROVE ScoredInv'
      BY <2>1, ScoredStep DEF CapsInv, ScoredInv
    <2>2. CASE UNCHANGED vars
      BY <2>2 DEF ScoredInv, Scored, vars
    <2>3. QED
      BY <2>1, <2>2 DEF Next, StepOf
  <1>3. QED
    BY <1>1, <1>2, CapsInvariant, PTL DEF Spec

\* What training receives has been graded: reward_func never falls back to the
\* 0.0 of a missing score, whichever path close() and the threads took.
THEOREM TrainedIsGradedHolds == Spec => []TrainedIsGraded
  <1>1. ScoredInv => TrainedIsGraded
    BY DEF ScoredInv, Scored, TrainedIsGraded
  <1>2. QED
    BY <1>1, ScoredInvariant, PTL

\* No action of s changes a status generate() has returned.
LEMMA SettledStep ==
    ASSUME TypeOK, NEW q \in Samples, Closing(q),
           NEW s \in Samples, StepOf(s)
    PROVE  co[q] \in {"collect", "done"} /\ outcome[q] # "lost" => status'[q] = status[q]
  <1> USE DEF TypeOK, Closing, setupVars, launcherVars, envVars, sampleVars, gradeVars
  <1>1. CASE AcquireSlot(s)
    BY <1>1 DEF AcquireSlot, TakeActiveSlot
  <1>2. CASE ResetReturn(s)
    BY <1>2 DEF ResetReturn
  <1>3. CASE StopAtBudget(s)
    BY <1>3 DEF StopAtBudget
  <1>4. CASE Infer(s)
    BY <1>4 DEF Infer
  <1>5. CASE StepReturn(s)
    BY <1>5 DEF StepReturn
  <1>6. CASE Clean(s)
    BY <1>6 DEF Clean
  <1>7. CASE CloseCheck(s)
    BY <1>7 DEF CloseCheck, MarkAborted, SkipGrading
  <1>8. CASE CloseGraded(s)
    BY <1>8 DEF CloseGraded, GradeOk, GradeInfra, MarkAborted
  <1>9. CASE CloseTools(s)
    BY <1>9 DEF CloseTools
  <1>10. CASE CloseTeardown(s)
    BY <1>10 DEF CloseTeardown, Teardown
  <1>11. CASE Collect(s)
    BY <1>11 DEF Collect
  <1>12. CASE ResetBegin(s)
    BY <1>12 DEF ResetBegin
  <1>13. CASE SetupAcquire(s)
    BY <1>13 DEF SetupAcquire, TakeSetupSlot
  <1>14. CASE LauncherStart(s)
    BY <1>14 DEF LauncherStart, GiveSetupSlot
  <1>15. CASE BuildTools(s)
    BY <1>15 DEF BuildTools, GiveSetupSlot
  <1>16. CASE SetupRetry(s)
    BY <1>16 DEF SetupRetry, Teardown
  <1>17. CASE SetupGiveUp(s)
    BY <1>17 DEF SetupGiveUp
  <1>18. CASE StepBegin(s)
    BY <1>18 DEF StepBegin
  <1>19. CASE DispatchBegin(s)
    BY <1>19 DEF DispatchBegin
  <1>20. CASE ShellEnter(s)
    BY <1>20 DEF ShellEnter
  <1>21. CASE DispatchEnd(s)
    BY <1>21 DEF DispatchEnd
  <1>22. CASE CallsDone(s)
    BY <1>22 DEF CallsDone
  <1>23. CASE StepGraded(s)
    BY <1>23 DEF StepGraded, GradeOk, GradeInfra
  <1>24. CASE OrphanExit(s)
    BY <1>24 DEF OrphanExit
  <1>25. CASE StepTimeout(s)
    BY <1>25 DEF StepTimeout, Orphan
  <1>26. CASE Cancel(s)
    BY <1>26 DEF Cancel, Orphan, GiveActiveSlot
  <1>27. CASE CloseReturn(s)
    BY <1>27 DEF CloseReturn, GiveActiveSlot
  <1>28. QED
    BY <1>1, <1>2, <1>3, <1>4, <1>5, <1>6, <1>7, <1>8, <1>9, <1>10, <1>11, <1>12,
       <1>13, <1>14, <1>15, <1>16, <1>17, <1>18, <1>19, <1>20, <1>21, <1>22, <1>23, <1>24,
       <1>25, <1>26, <1>27
    DEF StepOf, Coroutine, Worker, Closer

\* Nothing, a thread left behind by a timeout included, changes the status of a
\* sample that generate() has returned.
THEOREM StatusSettledHolds == Spec => StatusSettled
  <1>1. CapsInv /\ [Next]_vars =>
          [\A s \in Samples :
              co[s] \in {"collect", "done"} /\ outcome[s] # "lost" => status'[s] = status[s]]_vars
    <2> SUFFICES ASSUME CapsInv, Next, NEW q \in Samples,
                        co[q] \in {"collect", "done"}, outcome[q] # "lost"
                 PROVE  status'[q] = status[q]
      OBVIOUS
    <2>1. PICK s \in Samples : StepOf(s)
      BY DEF Next, StepOf
    <2>2. QED
      BY <2>1, SettledStep DEF CapsInv
  <1>2. QED
    BY <1>1, CapsInvariant, PTL DEF Spec, StatusSettled

-----------------------------------------------------------------------------
(***************************************************************************)
(* A rollout keeps RolloutContract.                                        *)
(*                                                                         *)
(* The contract does not see threads, containers or calls: most steps      *)
(* change nothing of it (Aside), the others change one or two of place,    *)
(* rejected, grade, failed and fate.  That no rejection is taken back      *)
(* needs Unjudged; that a sample leaves graded or rejected needs ScoredInv *)
(* and FailureInv; the two caps need Accounting.                           *)
(***************************************************************************)

\* The turn loop gives its verdict as it ends.
Unjudged(s) == co[s] \in {"idle", "reset", "turn", "step"} => status[s] = "pending"
UnjudgedInv == \A s \in Samples : Unjudged(s)

\* Every action of s keeps it.
LEMMA UnjudgedStep ==
    ASSUME TypeOK, NEW q \in Samples, Closing(q), Unjudged(q),
           NEW s \in Samples, StepOf(s)
    PROVE  Unjudged(q)'
  <1> USE DEF TypeOK, Closing, Unjudged, setupVars, launcherVars, envVars, sampleVars, gradeVars
  <1>1. CASE Coroutine(s)
    <2>1. CASE AcquireSlot(s)
      BY <2>1 DEF AcquireSlot
    <2>2. CASE ResetReturn(s)
      BY <2>2 DEF ResetReturn
    <2>3. CASE StopAtBudget(s) \/ Clean(s)
      BY <2>3 DEF StopAtBudget, Clean
    <2>4. CASE Infer(s)
      BY <2>4 DEF Infer
    <2>5. CASE StepReturn(s)
      BY <2>5 DEF StepReturn
    <2>6. CASE CloseReturn(s) \/ Collect(s)
      BY <2>6 DEF CloseReturn, Collect
    <2> QED
      BY <1>1, <2>1, <2>2, <2>3, <2>4, <2>5, <2>6 DEF Coroutine
  <1>2. CASE Worker(s)
    <2>1. UNCHANGED <<co, status>>
      BY <1>2 DEF Worker, ResetBegin, SetupAcquire, LauncherStart, BuildTools, SetupRetry,
         SetupGiveUp, StepBegin, DispatchBegin, ShellEnter, DispatchEnd, CallsDone,
         StepGraded, OrphanExit
    <2> QED
      BY <2>1
  <1>3. CASE Closer(s)
    BY <1>3 DEF Closer, CloseCheck, CloseGraded, CloseTools, CloseTeardown, MarkAborted
  <1>4. CASE StepTimeout(s)
    BY <1>4 DEF StepTimeout
  <1>5. CASE Cancel(s)
    BY <1>5 DEF Cancel
  <1>6. QED
    BY <1>1, <1>2, <1>3, <1>4, <1>5 DEF StepOf

\* So it always holds.
LEMMA UnjudgedInvariant == Spec => []UnjudgedInv
  <1>1. Init => UnjudgedInv
    BY DEF Init, UnjudgedInv, Unjudged
  <1>2. CapsInv /\ UnjudgedInv /\ [Next]_vars => UnjudgedInv'
    <2> SUFFICES ASSUME CapsInv, UnjudgedInv, [Next]_vars PROVE UnjudgedInv'
      OBVIOUS
    <2>1. ASSUME NEW s \in Samples, StepOf(s) PROVE UnjudgedInv'
      BY <2>1, UnjudgedStep DEF CapsInv, UnjudgedInv
    <2>2. CASE UNCHANGED vars
      BY <2>2 DEF UnjudgedInv, Unjudged, vars
    <2>3. QED
      BY <2>1, <2>2 DEF Next, StepOf
  <1>3. QED
    BY <1>1, <1>2, CapsInvariant, PTL DEF Spec

\* What the contract sees of co and status.
Places == [s \in Samples |-> PlaceAt(co[s])]
Rejections == [s \in Samples |-> status[s] = "aborted"]

\* A coroutine that moves to c moves its sample to PlaceAt(c).
LEMMA PlaceMoves ==
    ASSUME NEW s \in Samples, NEW c \in CoPos, co \in [Samples -> CoPos],
           co' = [co EXCEPT ![s] = c]
    PROVE  /\ Places' = [Places EXCEPT ![s] = PlaceAt(c)]
           /\ PlaceAt(c) = PlaceAt(co[s]) => Places' = Places
  <1>1. \A q \in Samples : co'[q] = IF q = s THEN c ELSE co[q]
    OBVIOUS
  <1>2. QED
    BY <1>1 DEF Places

\* A sample is rejected by setting its status to aborted, and by nothing else.
LEMMA RejectionMoves ==
    ASSUME NEW s \in Samples, NEW v,
           status \in [Samples -> {"pending", "completed", "truncated", "aborted"}],
           status' = [status EXCEPT ![s] = v]
    PROVE  /\ v = "aborted" => Rejections' = [Rejections EXCEPT ![s] = TRUE]
           /\ v # "aborted" /\ status[s] # "aborted" => Rejections' = Rejections
  <1>1. \A q \in Samples : status'[q] = IF q = s THEN v ELSE status[q]
    OBVIOUS
  <1>2. QED
    BY <1>1 DEF Rejections

\* The places the positions of a coroutine stand for.
LEMMA PlacesOfPositions ==
    /\ PlaceAt("idle") = "outside" /\ PlaceAt("collect") = "left" /\ PlaceAt("done") = "settled"
    /\ \A c \in Running : PlaceAt(c) = "inside"
    /\ Running = {"reset", "turn", "step", "clean", "close"}
    /\ Running \subseteq CoPos /\ {"idle", "collect", "done"} \subseteq CoPos
  <1>1. Running = {"reset", "turn", "step", "clean", "close"}
    BY DEF Running, CoPos
  <1>2. /\ PlaceAt("idle") = "outside" /\ PlaceAt("collect") = "left"
        /\ PlaceAt("done") = "settled"
    BY <1>1 DEF PlaceAt
  <1>3. \A c \in Running : PlaceAt(c) = "inside"
    BY <1>1 DEF PlaceAt
  <1>4. QED
    BY <1>1, <1>2, <1>3 DEF CoPos

\* The contract sees no step that leaves these alone.
LEMMA ContractStays ==
    ASSUME UNCHANGED <<Places, SetupHolders, infraHit, Rejections, stash, outcome>>
    PROVE  UNCHANGED Contract!vars
  BY DEF Contract!vars, Places, Rejections

\* The contract counts as the rollout does.
LEMMA SameCount == ASSUME NEW S PROVE Contract!Cardinality(S) = Cardinality(S)
  BY Zenon DEF Contract!Cardinality, Cardinality

\* A step that changes neither position, status, failure, grade nor outcome of a
\* sample is a step of its set-up, or none.
Aside == UNCHANGED <<co, status, infraHit, stash, outcome>>

LEMMA AsideStep ==
    ASSUME CapsInv, NEW s \in Samples, StepOf(s), Aside
    PROVE  Contract!StepOf(s) \/ UNCHANGED Contract!vars
  <1>1. UNCHANGED <<Places, infraHit, Rejections, stash, outcome>>
    BY DEF Aside, Places, Rejections
  <1>2. SemStep(s, setupFree, SetupHolders, setupFree', SetupHolders')
    BY SetupStep DEF CapsInv
  <1>3. CASE SetupHolders' = SetupHolders
    BY <1>1, <1>3, ContractStays
  <1>4. CASE setupFree > 0 /\ s \notin SetupHolders /\ SetupHolders' = SetupHolders \cup {s}
    <2>1. Cardinality(SetupHolders) < SetupCap
      <3>1. Cardinality(SetupHolders) \in Nat /\ setupFree \in Nat
        BY HoldersFinite, FS_CardinalityType DEF CapsInv, TypeOK
      <3>2. QED
        BY <1>4, <3>1, AgentEnvAssumption DEF CapsInv, Accounting
    <2>2. Contract!Cardinality(SetupHolders) < SetupCap
      BY <2>1, SameCount
    <2>3. Contract!BeginSetUp(s)
      BY <1>1, <1>4, <2>2 DEF Contract!BeginSetUp, Places, Rejections
    <2>4. QED
      BY <2>3 DEF Contract!StepOf
  <1>5. CASE s \in SetupHolders /\ SetupHolders' = SetupHolders \ {s}
    <2>1. Contract!EndSetUp(s)
      BY <1>1, <1>5 DEF Contract!EndSetUp, Places, Rejections
    <2>2. QED
      BY <2>1 DEF Contract!StepOf
  <1>6. QED
    BY <1>2, <1>3, <1>4, <1>5 DEF SemStep

\* Only a step that takes or gives a set-up permit moves the set-up holders.
LEMMA SetupStays ==
    ASSUME CapsInv, NEW s \in Samples, StepOf(s), UNCHANGED setupFree
    PROVE  SetupHolders' = SetupHolders
  <1>1. SemStep(s, setupFree, SetupHolders, setupFree', SetupHolders') /\ setupFree \in Int
    BY SetupStep DEF CapsInv, TypeOK
  <1>2. QED
    BY <1>1 DEF SemStep

\* A step of the coroutine inside, which leaves the status alone, sets it to v,
\* and does not touch the rest, is a rejection or nothing to the contract.
LEMMA InsideStep ==
    ASSUME CapsInv, NEW s \in Samples, NEW c \in Running, NEW v,
           co[s] \in Running, co' = [co EXCEPT ![s] = c],
           \/ UNCHANGED status
           \/ /\ status' = [status EXCEPT ![s] = v]
              /\ v = "aborted" \/ status[s] # "aborted",
           UNCHANGED <<SetupHolders, infraHit, stash, outcome>>
    PROVE  Contract!StepOf(s) \/ UNCHANGED Contract!vars
  <1>1. Places' = Places
    <2>1. c \in CoPos /\ PlaceAt(c) = "inside" /\ PlaceAt(co[s]) = "inside"
      BY PlacesOfPositions
    <2>2. co \in [Samples -> CoPos]
      BY DEF CapsInv, TypeOK
    <2>3. QED
      BY <2>1, <2>2, PlaceMoves
  <1>2. Rejections' = Rejections \/ Rejections' = [Rejections EXCEPT ![s] = TRUE]
    <2>1. CASE UNCHANGED status
      BY <2>1 DEF Rejections
    <2>2. CASE status' = [status EXCEPT ![s] = v] /\ (v = "aborted" \/ status[s] # "aborted")
      BY <2>2, RejectionMoves DEF CapsInv, TypeOK
    <2>3. QED
      BY <2>1, <2>2
  <1>3. CASE Rejections' = Rejections
    BY <1>1, <1>3, ContractStays
  <1>4. CASE Rejections' = [Rejections EXCEPT ![s] = TRUE]
    <2>1. Places[s] = "inside"
      BY PlacesOfPositions DEF Places
    <2>2. Contract!Reject(s)
      BY <1>1, <1>4, <2>1 DEF Contract!Reject, Contract!Judgeable, Places, Rejections
    <2>3. QED
      BY <2>2 DEF Contract!StepOf
  <1>5. QED
    BY <1>2, <1>3, <1>4

\* A thread that is told its grade, or of its failure.
LEMMA GradedStep ==
    ASSUME CapsInv, NEW s \in Samples, StepGraded(s)
    PROVE  Contract!StepOf(s) \/ UNCHANGED Contract!vars
  <1>1. UNCHANGED <<co, status, outcome, setupFree>>
    BY DEF StepGraded, setupVars
  <1>2. UNCHANGED <<Places, Rejections, outcome, SetupHolders>>
    BY <1>1, SetupStays DEF Places, Rejections, StepOf, Worker
  <1>3. CASE GradeOk(s) /\ UNCHANGED infraHit
    <2>1. Contract!Grade(s)
      BY <1>2, <1>3 DEF Contract!Grade, GradeOk, Places, Rejections
    <2>2. QED
      BY <2>1 DEF Contract!StepOf
  <1>4. CASE UNCHANGED stash /\ infraHit' = [infraHit EXCEPT ![s] = @ \/ Watched(s)]
    <2>1. CASE Watched(s)
      <3>1. Places[s] = "inside"
        BY <2>1, PlacesOfPositions DEF Places, Watched
      <3>2. infraHit' = [infraHit EXCEPT ![s] = TRUE]
        BY <1>4, <2>1
      <3>3. Contract!Fail(s)
        BY <1>2, <1>4, <3>1, <3>2
        DEF Contract!Fail, Contract!Judgeable, Places, Rejections
      <3>4. QED
        BY <3>3 DEF Contract!StepOf
    <2>2. CASE ~Watched(s)
      <3>1. infraHit' = infraHit
        BY <1>4, <2>2 DEF CapsInv, TypeOK
      <3>2. QED
        BY <1>2, <1>4, <3>1, ContractStays
    <2>3. QED
      BY <2>1, <2>2
  <1>5. QED
    BY <1>3, <1>4 DEF StepGraded, GradeInfra

\* close() is told its grade, or fails and rejects.
LEMMA CloseGradedStep ==
    ASSUME CapsInv, NEW s \in Samples, CloseGraded(s)
    PROVE  Contract!StepOf(s) \/ UNCHANGED Contract!vars
  <1>1. UNCHANGED <<co, outcome, setupFree>>
    BY DEF CloseGraded, setupVars
  <1>2. UNCHANGED <<Places, outcome, SetupHolders>>
    BY <1>1, SetupStays DEF Places, StepOf, Closer
  <1>3. CASE GradeOk(s) /\ UNCHANGED <<status, infraHit>>
    <2>1. Rejections' = Rejections
      BY <1>3 DEF Rejections
    <2>2. Contract!Grade(s)
      BY <1>2, <1>3, <2>1 DEF Contract!Grade, GradeOk, Places, Rejections
    <2>3. QED
      BY <2>2 DEF Contract!StepOf
  <1>4. CASE MarkAborted(s) /\ UNCHANGED stash /\ GradeInfra(s, TRUE, TRUE)
    <2>1. Places[s] = "inside" \/ outcome[s] = "lost"
      <3>1. co[s] = "close" \/ outcome[s] = "lost"
        BY DEF CloseGraded, CapsInv, Closing
      <3>2. QED
        BY <3>1, PlacesOfPositions DEF Places
    <2>2. infraHit' = [infraHit EXCEPT ![s] = TRUE]
      BY <1>4 DEF GradeInfra
    <2>3. Rejections' = [Rejections EXCEPT ![s] = TRUE]
      BY <1>4, RejectionMoves DEF MarkAborted, CapsInv, TypeOK
    <2>4. Contract!Fail(s)
      BY <1>2, <1>4, <2>1, <2>2, <2>3
      DEF Contract!Fail, Contract!Judgeable, Places, Rejections
    <2>5. QED
      BY <2>4 DEF Contract!StepOf
  <1>5. QED
    BY <1>3, <1>4 DEF CloseGraded

\* A place is taken only while one is free.
LEMMA EnterStep ==
    ASSUME CapsInv, NEW s \in Samples, AcquireSlot(s)
    PROVE  Contract!StepOf(s)
  <1>1. UNCHANGED <<setupFree, status, infraHit, stash, outcome>>
    BY DEF AcquireSlot, sampleVars, gradeVars
  <1>2. UNCHANGED <<Rejections, infraHit, stash, outcome, SetupHolders>>
    BY <1>1, SetupStays DEF Rejections, StepOf, Coroutine
  <1>3. co[s] = "idle" /\ co' = [co EXCEPT ![s] = "reset"] /\ activeFree > 0
    BY DEF AcquireSlot, TakeActiveSlot
  <1>4. Places[s] = "outside" /\ Places' = [Places EXCEPT ![s] = "inside"]
    BY <1>3, PlaceMoves, PlacesOfPositions DEF CapsInv, TypeOK, Places
  <1>5. Contract!Inside = ActiveHolders
    <2>1. \A q \in Samples : co[q] \in CoPos
      BY DEF CapsInv, TypeOK
    <2>2. \A q \in Samples : PlaceAt(co[q]) = "inside" <=> co[q] \in Running
      BY <2>1, PlacesOfPositions DEF CoPos
    <2>3. QED
      BY <2>2 DEF Contract!Inside, ActiveHolders
  <1>6. Contract!Cardinality(ActiveHolders) < ActiveCap
    <2>1. Cardinality(ActiveHolders) \in Nat /\ activeFree \in Nat
      BY HoldersFinite, FS_CardinalityType DEF CapsInv, TypeOK
    <2>2. QED
      BY <1>3, <2>1, SameCount, AgentEnvAssumption DEF CapsInv, Accounting
  <1>7. Contract!Enter(s)
    BY <1>2, <1>4, <1>5, <1>6 DEF Contract!Enter, Places, Rejections
  <1>8. QED
    BY <1>7 DEF Contract!StepOf

\* A call that raises or is cancelled loses its sample.
LEMMA LoseStep ==
    ASSUME CapsInv, NEW s \in Samples, NEW c \in Running \cup {"collect"},
           co[s] \in Running \cup {"idle"}, co[s] = "idle" => c = "collect",
           co' = [co EXCEPT ![s] = c], outcome' = [outcome EXCEPT ![s] = "lost"],
           UNCHANGED <<SetupHolders, status, infraHit, stash>>
    PROVE  Contract!StepOf(s)
  <1>1. Rejections' = Rejections
    BY DEF Rejections
  <1>2. Places[s] = PlaceAt(co[s]) /\ Places[s] \in {"outside", "inside"}
    BY PlacesOfPositions DEF Places
  <1>3. \/ Places' = [Places EXCEPT ![s] = "left"]
        \/ Places[s] = "inside" /\ Places' = Places
    <2>1. c \in CoPos /\ co \in [Samples -> CoPos]
      BY PlacesOfPositions DEF CapsInv, TypeOK
    <2>2. /\ Places' = [Places EXCEPT ![s] = PlaceAt(c)]
          /\ PlaceAt(c) = PlaceAt(co[s]) => Places' = Places
      BY <2>1, PlaceMoves
    <2>3. CASE c = "collect"
      BY <2>2, <2>3, PlacesOfPositions
    <2>4. CASE c # "collect"
      <3>1. PlaceAt(c) = "inside" /\ PlaceAt(co[s]) = "inside"
        BY <2>4, PlacesOfPositions
      <3>2. QED
        BY <1>2, <2>2, <3>1
    <2>5. QED
      BY <2>3, <2>4
  <1>4. Contract!Lose(s)
    BY <1>1, <1>2, <1>3 DEF Contract!Lose, Places, Rejections
  <1>5. QED
    BY <1>4 DEF Contract!StepOf

\* env.close has ended: the sample is lost, rejected, or graded without failure.
LEMMA LeaveStep ==
    ASSUME CapsInv, FailureInv, ScoredInv, NEW s \in Samples, CloseReturn(s)
    PROVE  Contract!StepOf(s)
  <1>1. UNCHANGED <<setupFree, status, infraHit, stash, outcome>>
    BY DEF CloseReturn, sampleVars, gradeVars
  <1>2. UNCHANGED <<Rejections, infraHit, stash, outcome, SetupHolders>>
    BY <1>1, SetupStays DEF Rejections, StepOf, Coroutine
  <1>3. co[s] = "close" /\ co' = [co EXCEPT ![s] = "collect"] /\ cl[s] = "ended"
    BY DEF CloseReturn
  <1>4. Places[s] = "inside" /\ Places' = [Places EXCEPT ![s] = "left"]
    BY <1>3, PlaceMoves, PlacesOfPositions DEF CapsInv, TypeOK, Places
  <1>5. outcome[s] = "lost" \/ status[s] = "aborted" \/ (stash[s] # "none" /\ ~infraHit[s])
    BY <1>3 DEF FailureInv, FailureKept, ScoredInv, Scored
  <1>6. outcome[s] = "lost" \/ Rejections[s] \/ (stash[s] # "none" /\ ~infraHit[s])
    BY <1>5 DEF Rejections
  <1>7. Contract!Leave(s)
    BY <1>2, <1>4, <1>6 DEF Contract!Leave, Places, Rejections
  <1>8. QED
    BY <1>7 DEF Contract!StepOf

\* generate_and_rm makes of the sample what the contract says: the default of a
\* missing score is out of reach.
LEMMA SettleStep ==
    ASSUME CapsInv, ScoredInv, NEW s \in Samples, Collect(s)
    PROVE  Contract!StepOf(s)
  <1>1. UNCHANGED <<setupFree, status, infraHit, stash>>
    BY DEF Collect, setupVars, gradeVars
  <1>2. UNCHANGED <<Rejections, infraHit, stash, SetupHolders>>
    BY <1>1, SetupStays DEF Rejections, StepOf, Coroutine
  <1>3. co[s] = "collect" /\ co' = [co EXCEPT ![s] = "done"]
    BY DEF Collect
  <1>4. Places[s] = "left" /\ Places' = [Places EXCEPT ![s] = "settled"]
    BY <1>3, PlaceMoves, PlacesOfPositions DEF CapsInv, TypeOK, Places
  <1>5. outcome[s] = "lost" \/ status[s] = "aborted" \/ stash[s] # "none"
    BY <1>3 DEF CapsInv, Closing, ScoredInv, Scored
  <1>6. outcome' = [outcome EXCEPT ![s] = IF @ = "lost" THEN "lost"
                                          ELSE IF Rejections[s] THEN "dropped" ELSE stash[s]]
    BY <1>5 DEF Collect, Rejections
  <1>7. Contract!Settle(s)
    BY <1>2, <1>4, <1>6 DEF Contract!Settle, Places, Rejections
  <1>8. QED
    BY <1>7 DEF Contract!StepOf

\* Whatever sample s does, the contract allows.
LEMMA ContractStep ==
    ASSUME CapsInv, FailureInv, ScoredInv, UnjudgedInv, NEW s \in Samples, StepOf(s)
    PROVE  Contract!StepOf(s) \/ UNCHANGED Contract!vars
  <1> USE DEF setupVars, launcherVars, envVars, sampleVars, gradeVars
  <1>1. CASE Coroutine(s)
    <2>1. CASE AcquireSlot(s)
      BY <2>1, EnterStep
    <2>2. CASE ResetReturn(s)
      <3>1. UNCHANGED <<setupFree, infraHit, stash, outcome>>
        BY <2>2 DEF ResetReturn
      <3>2. UNCHANGED <<SetupHolders, infraHit, stash, outcome>>
        BY <3>1, SetupStays
      <3>3. PICK c \in {"turn", "close"} : co[s] = "reset" /\ co' = [co EXCEPT ![s] = c]
        BY <2>2 DEF ResetReturn
      <3>4. UNCHANGED status \/ status' = [status EXCEPT ![s] = "aborted"]
        BY <2>2 DEF ResetReturn
      <3>5. QED
        BY <3>2, <3>3, <3>4, InsideStep, PlacesOfPositions
    <2>3. CASE StopAtBudget(s)
      <3>1. UNCHANGED <<setupFree, infraHit, stash, outcome>>
        BY <2>3 DEF StopAtBudget
      <3>2. UNCHANGED <<SetupHolders, infraHit, stash, outcome>>
        BY <3>1, SetupStays
      <3>3. PICK c \in {"clean", "close"} : co[s] = "turn" /\ co' = [co EXCEPT ![s] = c]
        BY <2>3 DEF StopAtBudget
      <3>4. status' = [status EXCEPT ![s] = "truncated"] /\ status[s] # "aborted"
        BY <2>3, <3>3 DEF StopAtBudget, UnjudgedInv, Unjudged
      <3>5. QED
        BY <3>2, <3>3, <3>4, InsideStep, PlacesOfPositions
    <2>4. CASE Infer(s)
      <3>1. UNCHANGED <<setupFree, infraHit, stash>>
        BY <2>4 DEF Infer
      <3>2. UNCHANGED <<SetupHolders, infraHit, stash>>
        BY <3>1, SetupStays
      <3>3. co[s] = "turn" /\ status[s] # "aborted"
        BY <2>4 DEF Infer, UnjudgedInv, Unjudged
      <3>4. CASE co' = [co EXCEPT ![s] = "step"] /\ UNCHANGED <<status, outcome>>
        BY <3>2, <3>3, <3>4, InsideStep, PlacesOfPositions
      <3>5. ASSUME NEW v, status' = [status EXCEPT ![s] = v],
                   co' = [co EXCEPT ![s] = "clean"], UNCHANGED outcome
            PROVE  Contract!StepOf(s) \/ UNCHANGED Contract!vars
        BY <3>2, <3>3, <3>5, InsideStep, PlacesOfPositions
      <3>6. CASE /\ outcome' = [outcome EXCEPT ![s] = "lost"]
                 /\ co' = [co EXCEPT ![s] = "close"] /\ UNCHANGED status
        BY <3>2, <3>3, <3>6, LoseStep, PlacesOfPositions
      <3>7. QED
        BY <2>4, <3>4, <3>5, <3>6 DEF Infer
    <2>5. CASE StepReturn(s)
      <3>1. UNCHANGED <<setupFree, infraHit, stash, outcome>>
        BY <2>5 DEF StepReturn
      <3>2. UNCHANGED <<SetupHolders, infraHit, stash, outcome>>
        BY <3>1, SetupStays
      <3>3. PICK c \in {"turn", "clean"} : co[s] = "step" /\ co' = [co EXCEPT ![s] = c]
        BY <2>5 DEF StepReturn
      <3>4. UNCHANGED status \/ \E v : status' = [status EXCEPT ![s] = v]
        BY <2>5 DEF StepReturn
      <3>5. status[s] # "aborted"
        BY <3>3 DEF UnjudgedInv, Unjudged
      <3>6. QED
        BY <3>2, <3>3, <3>4, <3>5, InsideStep, PlacesOfPositions
    <2>6. CASE Clean(s)
      <3>1. UNCHANGED <<setupFree, infraHit, stash, outcome>>
        BY <2>6 DEF Clean
      <3>2. UNCHANGED <<SetupHolders, infraHit, stash, outcome>>
        BY <3>1, SetupStays
      <3>3. co[s] = "clean" /\ co' = [co EXCEPT ![s] = "close"]
        BY <2>6 DEF Clean
      <3>4. UNCHANGED status \/ status' = [status EXCEPT ![s] = "aborted"]
        BY <2>6 DEF Clean
      <3>5. QED
        BY <3>2, <3>3, <3>4, InsideStep, PlacesOfPositions
    <2>7. CASE CloseReturn(s)
      BY <2>7, LeaveStep
    <2>8. CASE Collect(s)
      BY <2>8, SettleStep
    <2>9. QED
      BY <1>1, <2>1, <2>2, <2>3, <2>4, <2>5, <2>6, <2>7, <2>8 DEF Coroutine
  <1>2. CASE Worker(s)
    <2>1. CASE StepGraded(s)
      BY <2>1, GradedStep
    <2>2. CASE ~StepGraded(s)
      <3>1. Aside
        BY <1>2, <2>2 DEF Worker, ResetBegin, SetupAcquire, LauncherStart, BuildTools,
           SetupRetry, SetupGiveUp, StepBegin, DispatchBegin, ShellEnter, DispatchEnd,
           CallsDone, OrphanExit, Aside
      <3>2. QED
        BY <3>1, AsideStep
    <2>3. QED
      BY <2>1, <2>2
  <1>3. CASE Closer(s)
    <2>1. CASE CloseCheck(s)
      <3>1. UNCHANGED <<co, setupFree, infraHit, stash, outcome>> /\ co[s] = "close"
        BY <2>1 DEF CloseCheck
      <3>2. UNCHANGED <<SetupHolders, infraHit, stash, outcome>>
        BY <3>1, SetupStays
      <3>3. co' = [co EXCEPT ![s] = "close"]
        BY <3>1 DEF CapsInv, TypeOK
      <3>4. UNCHANGED status \/ status' = [status EXCEPT ![s] = "aborted"]
        BY <2>1 DEF CloseCheck, MarkAborted
      <3>5. QED
        BY <3>1, <3>2, <3>3, <3>4, InsideStep, PlacesOfPositions
    <2>2. CASE CloseGraded(s)
      BY <2>2, CloseGradedStep
    <2>3. CASE CloseTools(s) \/ CloseTeardown(s)
      <3>1. Aside
        BY <2>3 DEF CloseTools, CloseTeardown, Aside
      <3>2. QED
        BY <3>1, AsideStep
    <2>4. QED
      BY <1>3, <2>1, <2>2, <2>3 DEF Closer
  <1>4. CASE StepTimeout(s)
    <2>1. UNCHANGED <<setupFree, infraHit, stash, outcome>>
      BY <1>4 DEF StepTimeout
    <2>2. UNCHANGED <<SetupHolders, infraHit, stash, outcome>>
      BY <2>1, SetupStays
    <2>3. co[s] = "step" /\ co' = [co EXCEPT ![s] = "clean"]
      BY <1>4 DEF StepTimeout
    <2>4. status' = [status EXCEPT ![s] = "truncated"] /\ status[s] # "aborted"
      BY <1>4, <2>3 DEF StepTimeout, UnjudgedInv, Unjudged
    <2>5. QED
      BY <2>2, <2>3, <2>4, InsideStep, PlacesOfPositions
  <1>5. CASE Cancel(s)
    <2>1. UNCHANGED <<setupFree, status, infraHit, stash>>
      BY <1>5 DEF Cancel
    <2>2. UNCHANGED <<SetupHolders, status, infraHit, stash>>
      BY <2>1, SetupStays
    <2>3. outcome' = [outcome EXCEPT ![s] = "lost"]
      BY <1>5 DEF Cancel
    <2>4. PICK c \in {"close", "collect"} :
              /\ co' = [co EXCEPT ![s] = c]
              /\ co[s] \in {"idle", "reset", "turn", "step", "close"}
              /\ co[s] = "idle" => c = "collect"
      BY <1>5 DEF Cancel
    <2>5. QED
      BY <2>2, <2>3, <2>4, LoseStep, PlacesOfPositions
  <1>6. QED
    BY <1>1, <1>2, <1>3, <1>4, <1>5 DEF StepOf

\* Every rollout keeps RolloutContract, for any samples and caps and however
\* timeouts, cancellations and the threads they leave behind interleave.
THEOREM KeepsContractHolds == Spec => KeepsContract
  <1>1. Init => Contract!Init
    <2> SUFFICES ASSUME Init PROVE Contract!Init
      OBVIOUS
    <2>1. SetupHolders = {}
      BY DEF Init, SetupHolders
    <2>2. [s \in Samples |-> PlaceAt(co[s])] = [s \in Samples |-> "outside"]
      BY PlacesOfPositions DEF Init
    <2>3. [s \in Samples |-> status[s] = "aborted"] = [s \in Samples |-> FALSE]
      BY DEF Init
    <2>4. QED
      BY <2>1, <2>2, <2>3 DEF Init, Contract!Init
  <1>2. CapsInv /\ FailureInv /\ ScoredInv /\ UnjudgedInv /\ [Next]_vars
            => [Contract!Next]_(Contract!vars)
    <2> SUFFICES ASSUME CapsInv, FailureInv, ScoredInv, UnjudgedInv, [Next]_vars
                 PROVE  Contract!Next \/ UNCHANGED Contract!vars
      OBVIOUS
    <2>1. ASSUME NEW s \in Samples, StepOf(s)
          PROVE  Contract!Next \/ UNCHANGED Contract!vars
      BY <2>1, ContractStep DEF Contract!Next
    <2>2. CASE UNCHANGED vars
      <3>1. UNCHANGED <<Places, SetupHolders, infraHit, Rejections, stash, outcome>>
        BY <2>2 DEF vars, Places, Rejections, SetupHolders
      <3>2. QED
        BY <3>1, ContractStays
    <2>3. QED
      BY <2>1, <2>2 DEF Next, StepOf
  <1>3. QED
    BY <1>1, <1>2, CapsInvariant, FailureInvariant, ScoredInvariant, UnjudgedInvariant, PTL
    DEF Spec, KeepsContract, Contract!Spec

-----------------------------------------------------------------------------
(***************************************************************************)
(* Rollouts that nobody disturbs.                                          *)
(*                                                                         *)
(* Three properties hold only while a coroutine stays with its threads.    *)
(* Without cancellations (Uncancelled) the thread of env.reset belongs to  *)
(* a coroutine that waits for it, and generate() has seen env.close end:   *)
(* Attached.  Without timeouts (Untimed) the same holds of env.step.       *)
(* Three invariants rest on that: OneGrade follows the grade of an episode *)
(* from position to position, Here says where a container is certain to be *)
(* alive, and OneContainer what a first attempt may leave on the host.     *)
(***************************************************************************)

\* abort() cancels no rollout; no env.step outlives its budget; docker rm works.
Uncancelled == MayCancel = {}
Untimed == MayTimeout = {}
Removable == RmMayFail = {}

\* The thread of env.reset is waited for, and so is that of env.close.
Attached(s) ==
    /\ wk[s] \in ResetPos => co[s] = "reset"
    /\ co[s] \in {"collect", "done"} => cl[s] = "ended"

\* The thread of env.step is waited for.
Awaited(s) == wk[s] \in StepPos => co[s] = "step"

\* The grade of the episode has been started once at most, and when it is over
\* the sample is scored or flagged, so that close() grades no more.
OneGrade(s) ==
    /\ co[s] \in {"idle", "reset", "turn"} => grades[s] = 0
    /\ wk[s] \in StepPos \ {"gradeFinal", "gradeState", "over", "skipped"} => grades[s] = 0
    /\ cl[s] = "none" /\ grades[s] > 0 /\ wk[s] \notin {"gradeFinal", "gradeState"} =>
          score[s] # "none" \/ skip[s]
    /\ grades[s] <= 1

\* The container is alive from the end of env.reset until close() tears it down,
\* unless env.reset reported that it could not be set up.
Here(s) ==
    /\ \/ wk[s] = "ready"
       \/ co[s] \in {"turn", "step", "clean"}
       \/ co[s] = "close" /\ cl[s] = "none" /\ ~skip[s]
       \/ cl[s] = "grade"
       => Alive(s)
    /\ wk[s] = "gaveUp" => skip[s]

\* As long as there was one attempt only, the container it started is the one the
\* launcher names and has not torn down.
OneContainer(s) ==
    /\ attempt[s] = 0 => co[s] \in {"idle", "reset"} /\ wk[s] \in {"none", "resetQ", "attempt"}
    /\ attempt[s] = 0 \/ (attempt[s] = 1 /\ wk[s] = "start") =>
          ~tornDown[s] /\ \A k \in 1..MaxAttempts : <<s, k>> \notin containers
    /\ attempt[s] = 1 =>
          \A k \in 1..MaxAttempts : <<s, k>> \in containers => k = cname[s] /\ ~tornDown[s]
    /\ cl[s] = "ended" => tornDown[s]

-----------------------------------------------------------------------------
(* Coroutines and their threads.                                           *)

\* No action but a cancellation separates them.
LEMMA AttachedStep ==
    ASSUME TypeOK, NEW q \in Samples, NEW s \in Samples, StepOf(s),
           Uncancelled, Handoff(q), Closing(q), Attached(q)
    PROVE  Attached(q)'
  <1> USE DEF Uncancelled, Handoff, Closing, Attached, ResetPos, StepPos,
          TypeOK,
          setupVars, launcherVars, envVars, sampleVars, gradeVars
  <1>1. CASE AcquireSlot(s)
    BY <1>1 DEF AcquireSlot, TakeActiveSlot
  <1>2. CASE ResetReturn(s)
    BY <1>2 DEF ResetReturn
  <1>3. CASE StopAtBudget(s)
    BY <1>3 DEF StopAtBudget
  <1>4. CASE Infer(s)
    BY <1>4 DEF Infer
  <1>5. CASE StepReturn(s)
    BY <1>5 DEF StepReturn
  <1>6. CASE Clean(s)
    BY <1>6 DEF Clean
  <1>7. CASE CloseCheck(s)
    BY <1>7 DEF CloseCheck, MarkAborted, SkipGrading
  <1>8. CASE CloseGraded(s)
    BY <1>8 DEF CloseGraded, GradeOk, GradeInfra, MarkAborted
  <1>9. CASE CloseTools(s)
    BY <1>9 DEF CloseTools
  <1>10. CASE CloseTeardown(s)
    BY <1>10 DEF CloseTeardown, Teardown
  <1>11. CASE Collect(s)
    BY <1>11 DEF Collect
  <1>12. CASE ResetBegin(s)
    BY <1>12 DEF ResetBegin
  <1>13. CASE SetupAcquire(s)
    BY <1>13 DEF SetupAcquire, TakeSetupSlot
  <1>14. CASE LauncherStart(s)
    BY <1>14 DEF LauncherStart, GiveSetupSlot
  <1>15. CASE BuildTools(s)
    BY <1>15 DEF BuildTools, GiveSetupSlot
  <1>16. CASE SetupRetry(s)
    BY <1>16 DEF SetupRetry, Teardown
  <1>17. CASE SetupGiveUp(s)
    BY <1>17 DEF SetupGiveUp
  <1>18. CASE StepBegin(s)
    BY <1>18 DEF StepBegin
  <1>19. CASE DispatchBegin(s)
    BY <1>19 DEF DispatchBegin
  <1>20. CASE ShellEnter(s)
    BY <1>20 DEF ShellEnter
  <1>21. CASE DispatchEnd(s)
    BY <1>21 DEF DispatchEnd
  <1>22. CASE CallsDone(s)
    BY <1>22 DEF CallsDone
  <1>23. CASE StepGraded(s)
    BY <1>23 DEF StepGraded, GradeOk, GradeInfra
  <1>24. CASE OrphanExit(s)
    BY <1>24 DEF OrphanExit
  <1>25. CASE StepTimeout(s)
    BY <1>25 DEF StepTimeout, Orphan
  <1>26. CASE Cancel(s)
    BY <1>26 DEF Cancel, Orphan, GiveActiveSlot
  <1>27. CASE CloseReturn(s)
    BY <1>27 DEF CloseReturn, GiveActiveSlot
  <1> QED
    BY <1>1, <1>2, <1>3, <1>4, <1>5, <1>6, <1>7, <1>8, <1>9, <1>10, <1>11, <1>12,
       <1>13, <1>14, <1>15, <1>16, <1>17, <1>18, <1>19, <1>20, <1>21, <1>22, <1>23,
       <1>24, <1>25, <1>26, <1>27
    DEF StepOf, Coroutine, Worker, Closer

\* No action but a timeout or a cancellation leaves env.step alone.
LEMMA AwaitedStep ==
    ASSUME TypeOK, NEW q \in Samples, NEW s \in Samples, StepOf(s),
           Uncancelled, Untimed, Handoff(q), Awaited(q)
    PROVE  Awaited(q)'
  <1> USE DEF Uncancelled, Untimed, Handoff, Awaited, ResetPos, StepPos,
          TypeOK,
          setupVars, launcherVars, envVars, sampleVars, gradeVars
  <1>1. CASE AcquireSlot(s)
    BY <1>1 DEF AcquireSlot, TakeActiveSlot
  <1>2. CASE ResetReturn(s)
    BY <1>2 DEF ResetReturn
  <1>3. CASE StopAtBudget(s)
    BY <1>3 DEF StopAtBudget
  <1>4. CASE Infer(s)
    BY <1>4 DEF Infer
  <1>5. CASE StepReturn(s)
    BY <1>5 DEF StepReturn
  <1>6. CASE Clean(s)
    BY <1>6 DEF Clean
  <1>7. CASE CloseCheck(s)
    BY <1>7 DEF CloseCheck, MarkAborted, SkipGrading
  <1>8. CASE CloseGraded(s)
    BY <1>8 DEF CloseGraded, GradeOk, GradeInfra, MarkAborted
  <1>9. CASE CloseTools(s)
    BY <1>9 DEF CloseTools
  <1>10. CASE CloseTeardown(s)
    BY <1>10 DEF CloseTeardown, Teardown
  <1>11. CASE Collect(s)
    BY <1>11 DEF Collect
  <1>12. CASE ResetBegin(s)
    BY <1>12 DEF ResetBegin
  <1>13. CASE SetupAcquire(s)
    BY <1>13 DEF SetupAcquire, TakeSetupSlot
  <1>14. CASE LauncherStart(s)
    BY <1>14 DEF LauncherStart, GiveSetupSlot
  <1>15. CASE BuildTools(s)
    BY <1>15 DEF BuildTools, GiveSetupSlot
  <1>16. CASE SetupRetry(s)
    BY <1>16 DEF SetupRetry, Teardown
  <1>17. CASE SetupGiveUp(s)
    BY <1>17 DEF SetupGiveUp
  <1>18. CASE StepBegin(s)
    BY <1>18 DEF StepBegin
  <1>19. CASE DispatchBegin(s)
    BY <1>19 DEF DispatchBegin
  <1>20. CASE ShellEnter(s)
    BY <1>20 DEF ShellEnter
  <1>21. CASE DispatchEnd(s)
    BY <1>21 DEF DispatchEnd
  <1>22. CASE CallsDone(s)
    BY <1>22 DEF CallsDone
  <1>23. CASE StepGraded(s)
    BY <1>23 DEF StepGraded, GradeOk, GradeInfra
  <1>24. CASE OrphanExit(s)
    BY <1>24 DEF OrphanExit
  <1>25. CASE StepTimeout(s)
    BY <1>25 DEF StepTimeout, Orphan
  <1>26. CASE Cancel(s)
    BY <1>26 DEF Cancel, Orphan, GiveActiveSlot
  <1>27. CASE CloseReturn(s)
    BY <1>27 DEF CloseReturn, GiveActiveSlot
  <1> QED
    BY <1>1, <1>2, <1>3, <1>4, <1>5, <1>6, <1>7, <1>8, <1>9, <1>10, <1>11, <1>12,
       <1>13, <1>14, <1>15, <1>16, <1>17, <1>18, <1>19, <1>20, <1>21, <1>22, <1>23,
       <1>24, <1>25, <1>26, <1>27
    DEF StepOf, Coroutine, Worker, Closer

\* Without cancellations no thread of env.reset or env.close is left behind.
LEMMA AttachedHolds ==
    ASSUME Uncancelled
    PROVE  Spec => [](\A s \in Samples : Attached(s))
  <1> DEFINE Inv == \A s \in Samples : Attached(s)
  <1>1. Init => Inv
    BY DEF Init, Attached, ResetPos
  <1>2. CapsInv /\ Inv /\ [Next]_vars => Inv'
    <2> SUFFICES ASSUME CapsInv, Inv, [Next]_vars, NEW q \in Samples
                 PROVE  (Attached(q))'
      OBVIOUS
    <2>1. ASSUME NEW s \in Samples, StepOf(s) PROVE (Attached(q))'
      BY <2>1, AttachedStep DEF CapsInv
    <2>2. CASE UNCHANGED vars
      BY <2>2 DEF vars, Attached
    <2> QED
      BY <2>1, <2>2 DEF Next, StepOf
  <1> QED
    BY <1>1, <1>2, CapsInvariant, PTL DEF Spec

\* Without timeouts either, no thread at all is.
LEMMA AwaitedHolds ==
    ASSUME Uncancelled, Untimed
    PROVE  Spec => [](\A s \in Samples : Attached(s) /\ Awaited(s))
  <1> DEFINE Inv == \A s \in Samples : Attached(s) /\ Awaited(s)
  <1>1. Init => Inv
    BY DEF Init, Attached, Awaited, ResetPos, StepPos
  <1>2. CapsInv /\ Inv /\ [Next]_vars => Inv'
    <2> SUFFICES ASSUME CapsInv, Inv, [Next]_vars, NEW q \in Samples
                 PROVE  (Attached(q) /\ Awaited(q))'
      OBVIOUS
    <2>1. ASSUME NEW s \in Samples, StepOf(s) PROVE (Attached(q) /\ Awaited(q))'
      BY <2>1, AttachedStep, AwaitedStep DEF CapsInv
    <2>2. CASE UNCHANGED vars
      BY <2>2 DEF vars, Attached, Awaited
    <2> QED
      BY <2>1, <2>2 DEF Next, StepOf
  <1> QED
    BY <1>1, <1>2, CapsInvariant, PTL DEF Spec

-----------------------------------------------------------------------------
(* One grade per episode.                                                  *)

\* No action starts a second grade.
LEMMA OneGradeStep ==
    ASSUME TypeOK, NEW q \in Samples, NEW s \in Samples, StepOf(s),
           Handoff(q), Closing(q), Attached(q), Awaited(q), OneGrade(q)
    PROVE  OneGrade(q)'
  <1> USE DEF Handoff, Closing, Attached, Awaited, OneGrade, ResetPos, StepPos, Scores,
          TypeOK,
          setupVars, launcherVars, envVars, sampleVars, gradeVars
  <1>1. CASE AcquireSlot(s)
    BY <1>1 DEF AcquireSlot, TakeActiveSlot
  <1>2. CASE ResetReturn(s)
    BY <1>2 DEF ResetReturn
  <1>3. CASE StopAtBudget(s)
    BY <1>3 DEF StopAtBudget
  <1>4. CASE Infer(s)
    BY <1>4 DEF Infer
  <1>5. CASE StepReturn(s)
    BY <1>5 DEF StepReturn
  <1>6. CASE Clean(s)
    BY <1>6 DEF Clean
  <1>7. CASE CloseCheck(s)
    BY <1>7 DEF CloseCheck, MarkAborted, SkipGrading
  <1>8. CASE CloseGraded(s)
    BY <1>8 DEF CloseGraded, GradeOk, GradeInfra, MarkAborted
  <1>9. CASE CloseTools(s)
    BY <1>9 DEF CloseTools
  <1>10. CASE CloseTeardown(s)
    BY <1>10 DEF CloseTeardown, Teardown
  <1>11. CASE Collect(s)
    BY <1>11 DEF Collect
  <1>12. CASE ResetBegin(s)
    BY <1>12 DEF ResetBegin
  <1>13. CASE SetupAcquire(s)
    BY <1>13 DEF SetupAcquire, TakeSetupSlot
  <1>14. CASE LauncherStart(s)
    BY <1>14 DEF LauncherStart, GiveSetupSlot
  <1>15. CASE BuildTools(s)
    BY <1>15 DEF BuildTools, GiveSetupSlot
  <1>16. CASE SetupRetry(s)
    BY <1>16 DEF SetupRetry, Teardown
  <1>17. CASE SetupGiveUp(s)
    BY <1>17 DEF SetupGiveUp
  <1>18. CASE StepBegin(s)
    BY <1>18 DEF StepBegin
  <1>19. CASE DispatchBegin(s)
    BY <1>19 DEF DispatchBegin
  <1>20. CASE ShellEnter(s)
    BY <1>20 DEF ShellEnter
  <1>21. CASE DispatchEnd(s)
    BY <1>21 DEF DispatchEnd
  <1>22. CASE CallsDone(s)
    BY <1>22 DEF CallsDone
  <1>23. CASE StepGraded(s)
    BY <1>23 DEF StepGraded, GradeOk, GradeInfra
  <1>24. CASE OrphanExit(s)
    BY <1>24 DEF OrphanExit
  <1>25. CASE StepTimeout(s)
    BY <1>25 DEF StepTimeout, Orphan
  <1>26. CASE Cancel(s)
    BY <1>26 DEF Cancel, Orphan, GiveActiveSlot
  <1>27. CASE CloseReturn(s)
    BY <1>27 DEF CloseReturn, GiveActiveSlot
  <1> QED
    BY <1>1, <1>2, <1>3, <1>4, <1>5, <1>6, <1>7, <1>8, <1>9, <1>10, <1>11, <1>12,
       <1>13, <1>14, <1>15, <1>16, <1>17, <1>18, <1>19, <1>20, <1>21, <1>22, <1>23,
       <1>24, <1>25, <1>26, <1>27
    DEF StepOf, Coroutine, Worker, Closer

\* reward_agent_bench.py, line 12: an episode that is neither cancelled nor timed
\* out is graded once, by the step that ends it or by close().
THEOREM AtMostOneGradeHolds ==
    ASSUME Uncancelled, Untimed
    PROVE  Spec => []AtMostOneGrade
  <1> DEFINE Base == \A s \in Samples : Attached(s) /\ Awaited(s)
  <1> DEFINE Inv == \A s \in Samples : OneGrade(s)
  <1>1. Init => Inv
    BY DEF Init, OneGrade, StepPos
  <1>2. CapsInv /\ Base /\ Inv /\ [Next]_vars => Inv'
    <2> SUFFICES ASSUME CapsInv, Base, Inv, [Next]_vars, NEW q \in Samples
                 PROVE  OneGrade(q)'
      OBVIOUS
    <2>1. ASSUME NEW s \in Samples, StepOf(s) PROVE OneGrade(q)'
      BY <2>1, OneGradeStep DEF CapsInv
    <2>2. CASE UNCHANGED vars
      BY <2>2 DEF vars, OneGrade
    <2> QED
      BY <2>1, <2>2 DEF Next, StepOf
  <1>3. CapsInv /\ Base /\ Inv => AtMostOneGrade
    BY DEF AtMostOneGrade, OneGrade
  <1>4. Spec => []Base
    BY AwaitedHolds
  <1> QED
    BY <1>1, <1>2, <1>3, <1>4, CapsInvariant, PTL DEF Spec

-----------------------------------------------------------------------------
(* Verifier failures.                                                      *)

\* Only env.reset and close() remove the container.
LEMMA HereStep ==
    ASSUME TypeOK, NEW q \in Samples, NEW s \in Samples, StepOf(s),
           Uncancelled, Handoff(q), Closing(q), Attached(q), Awaited(q), Here(q)
    PROVE  Here(q)'
  <1> USE DEF Uncancelled, Handoff, Closing, Attached, Awaited, Here, Alive, ResetPos, StepPos,
          TypeOK,
          setupVars, launcherVars, envVars, sampleVars, gradeVars
  <1>1. CASE AcquireSlot(s)
    BY <1>1 DEF AcquireSlot, TakeActiveSlot
  <1>2. CASE ResetReturn(s)
    BY <1>2 DEF ResetReturn
  <1>3. CASE StopAtBudget(s)
    BY <1>3 DEF StopAtBudget
  <1>4. CASE Infer(s)
    BY <1>4 DEF Infer
  <1>5. CASE StepReturn(s)
    BY <1>5 DEF StepReturn
  <1>6. CASE Clean(s)
    BY <1>6 DEF Clean
  <1>7. CASE CloseCheck(s)
    BY <1>7 DEF CloseCheck, MarkAborted, SkipGrading
  <1>8. CASE CloseGraded(s)
    BY <1>8 DEF CloseGraded, GradeOk, GradeInfra, MarkAborted
  <1>9. CASE CloseTools(s)
    BY <1>9 DEF CloseTools
  <1>10. CASE CloseTeardown(s)
    BY <1>10 DEF CloseTeardown, Teardown
  <1>11. CASE Collect(s)
    BY <1>11 DEF Collect
  <1>12. CASE ResetBegin(s)
    BY <1>12 DEF ResetBegin
  <1>13. CASE SetupAcquire(s)
    BY <1>13 DEF SetupAcquire, TakeSetupSlot
  <1>14. CASE LauncherStart(s)
    BY <1>14 DEF LauncherStart, GiveSetupSlot
  <1>15. CASE BuildTools(s)
    BY <1>15 DEF BuildTools, GiveSetupSlot
  <1>16. CASE SetupRetry(s)
    BY <1>16 DEF SetupRetry, Teardown
  <1>17. CASE SetupGiveUp(s)
    BY <1>17 DEF SetupGiveUp
  <1>18. CASE StepBegin(s)
    BY <1>18 DEF StepBegin
  <1>19. CASE DispatchBegin(s)
    BY <1>19 DEF DispatchBegin
  <1>20. CASE ShellEnter(s)
    BY <1>20 DEF ShellEnter
  <1>21. CASE DispatchEnd(s)
    BY <1>21 DEF DispatchEnd
  <1>22. CASE CallsDone(s)
    BY <1>22 DEF CallsDone
  <1>23. CASE StepGraded(s)
    BY <1>23 DEF StepGraded, GradeOk, GradeInfra
  <1>24. CASE OrphanExit(s)
    BY <1>24 DEF OrphanExit
  <1>25. CASE StepTimeout(s)
    BY <1>25 DEF StepTimeout, Orphan
  <1>26. CASE Cancel(s)
    BY <1>26 DEF Cancel, Orphan, GiveActiveSlot
  <1>27. CASE CloseReturn(s)
    BY <1>27 DEF CloseReturn, GiveActiveSlot
  <1> QED
    BY <1>1, <1>2, <1>3, <1>4, <1>5, <1>6, <1>7, <1>8, <1>9, <1>10, <1>11, <1>12,
       <1>13, <1>14, <1>15, <1>16, <1>17, <1>18, <1>19, <1>20, <1>21, <1>22, <1>23,
       <1>24, <1>25, <1>26, <1>27
    DEF StepOf, Coroutine, Worker, Closer

\* A task is remembered only when its verifier failed in a live container.
LEMMA PoisonStep ==
    ASSUME TypeOK, NEW s \in Samples, StepOf(s),
           Awaited(s), Here(s), PoisonIsReal
    PROVE  PoisonIsReal'
  <1> USE DEF Awaited, Here, StepPos, PoisonIsReal,
          TypeOK,
          setupVars, launcherVars, envVars, sampleVars, gradeVars
  <1>1. CASE AcquireSlot(s)
    BY <1>1 DEF AcquireSlot, TakeActiveSlot
  <1>2. CASE ResetReturn(s)
    BY <1>2 DEF ResetReturn
  <1>3. CASE StopAtBudget(s)
    BY <1>3 DEF StopAtBudget
  <1>4. CASE Infer(s)
    BY <1>4 DEF Infer
  <1>5. CASE StepReturn(s)
    BY <1>5 DEF StepReturn
  <1>6. CASE Clean(s)
    BY <1>6 DEF Clean
  <1>7. CASE CloseCheck(s)
    BY <1>7 DEF CloseCheck, MarkAborted, SkipGrading
  <1>8. CASE CloseGraded(s)
    BY <1>8 DEF CloseGraded, GradeOk, GradeInfra, MarkAborted
  <1>9. CASE CloseTools(s)
    BY <1>9 DEF CloseTools
  <1>10. CASE CloseTeardown(s)
    BY <1>10 DEF CloseTeardown, Teardown
  <1>11. CASE Collect(s)
    BY <1>11 DEF Collect
  <1>12. CASE ResetBegin(s)
    BY <1>12 DEF ResetBegin
  <1>13. CASE SetupAcquire(s)
    BY <1>13 DEF SetupAcquire, TakeSetupSlot
  <1>14. CASE LauncherStart(s)
    BY <1>14 DEF LauncherStart, GiveSetupSlot
  <1>15. CASE BuildTools(s)
    BY <1>15 DEF BuildTools, GiveSetupSlot
  <1>16. CASE SetupRetry(s)
    BY <1>16 DEF SetupRetry, Teardown
  <1>17. CASE SetupGiveUp(s)
    BY <1>17 DEF SetupGiveUp
  <1>18. CASE StepBegin(s)
    BY <1>18 DEF StepBegin
  <1>19. CASE DispatchBegin(s)
    BY <1>19 DEF DispatchBegin
  <1>20. CASE ShellEnter(s)
    BY <1>20 DEF ShellEnter
  <1>21. CASE DispatchEnd(s)
    BY <1>21 DEF DispatchEnd
  <1>22. CASE CallsDone(s)
    BY <1>22 DEF CallsDone
  <1>23. CASE StepGraded(s)
    BY <1>23 DEF StepGraded, GradeOk, GradeInfra
  <1>24. CASE OrphanExit(s)
    BY <1>24 DEF OrphanExit
  <1>25. CASE StepTimeout(s)
    BY <1>25 DEF StepTimeout, Orphan
  <1>26. CASE Cancel(s)
    BY <1>26 DEF Cancel, Orphan, GiveActiveSlot
  <1>27. CASE CloseReturn(s)
    BY <1>27 DEF CloseReturn, GiveActiveSlot
  <1> QED
    BY <1>1, <1>2, <1>3, <1>4, <1>5, <1>6, <1>7, <1>8, <1>9, <1>10, <1>11, <1>12,
       <1>13, <1>14, <1>15, <1>16, <1>17, <1>18, <1>19, <1>20, <1>21, <1>22, <1>23,
       <1>24, <1>25, <1>26, <1>27
    DEF StepOf, Coroutine, Worker, Closer

\* env_agent_bench.py, lines 50-57: no task enters the process-wide set because a
\* container was missing, where no episode is cancelled or timed out.
THEOREM PoisonIsRealHolds ==
    ASSUME Uncancelled, Untimed
    PROVE  Spec => []PoisonIsReal
  <1> DEFINE Base == \A s \in Samples : Attached(s) /\ Awaited(s)
  <1> DEFINE Inv == PoisonIsReal /\ \A s \in Samples : Here(s)
  <1>1. Init => Inv
    BY DEF Init, Here, PoisonIsReal
  <1>2. CapsInv /\ Base /\ Inv /\ [Next]_vars => Inv'
    <2> SUFFICES ASSUME CapsInv, Base, Inv, [Next]_vars PROVE Inv'
      OBVIOUS
    <2>1. ASSUME NEW s \in Samples, StepOf(s) PROVE Inv'
      BY <2>1, HereStep, PoisonStep DEF CapsInv
    <2>2. CASE UNCHANGED vars
      BY <2>2 DEF vars, Here, Alive, PoisonIsReal
    <2> QED
      BY <2>1, <2>2 DEF Next, StepOf
  <1>3. Spec => []Base
    BY AwaitedHolds
  <1> QED
    BY <1>1, <1>2, <1>3, CapsInvariant, PTL DEF Spec

-----------------------------------------------------------------------------
(* Containers.                                                             *)

\* The container of a first attempt is removed when its handle, or the name the
\* launcher kept, is torn down.
LEMMA OneContainerStep ==
    ASSUME TypeOK, NEW q \in Samples, NEW s \in Samples, StepOf(s),
           Uncancelled, Removable, Handoff(q), Closing(q), Attached(q), OneContainer(q)
    PROVE  OneContainer(q)'
  <1> USE DEF Uncancelled, Removable, Handoff, Closing, Attached, OneContainer, ResetPos, StepPos,
          TypeOK,
          setupVars, launcherVars, envVars, sampleVars, gradeVars
  <1>1. CASE AcquireSlot(s)
    BY <1>1 DEF AcquireSlot, TakeActiveSlot
  <1>2. CASE ResetReturn(s)
    BY <1>2 DEF ResetReturn
  <1>3. CASE StopAtBudget(s)
    BY <1>3 DEF StopAtBudget
  <1>4. CASE Infer(s)
    BY <1>4 DEF Infer
  <1>5. CASE StepReturn(s)
    BY <1>5 DEF StepReturn
  <1>6. CASE Clean(s)
    BY <1>6 DEF Clean
  <1>7. CASE CloseCheck(s)
    BY <1>7 DEF CloseCheck, MarkAborted, SkipGrading
  <1>8. CASE CloseGraded(s)
    BY <1>8 DEF CloseGraded, GradeOk, GradeInfra, MarkAborted
  <1>9. CASE CloseTools(s)
    BY <1>9 DEF CloseTools
  <1>10. CASE CloseTeardown(s)
    BY <1>10 DEF CloseTeardown, Teardown
  <1>11. CASE Collect(s)
    BY <1>11 DEF Collect
  <1>12. CASE ResetBegin(s)
    BY <1>12 DEF ResetBegin
  <1>13. CASE SetupAcquire(s)
    BY <1>13 DEF SetupAcquire, TakeSetupSlot
  <1>14. CASE LauncherStart(s)
    BY <1>14 DEF LauncherStart, GiveSetupSlot
  <1>15. CASE BuildTools(s)
    BY <1>15 DEF BuildTools, GiveSetupSlot
  <1>16. CASE SetupRetry(s)
    BY <1>16 DEF SetupRetry, Teardown
  <1>17. CASE SetupGiveUp(s)
    BY <1>17 DEF SetupGiveUp
  <1>18. CASE StepBegin(s)
    BY <1>18 DEF StepBegin
  <1>19. CASE DispatchBegin(s)
    BY <1>19 DEF DispatchBegin
  <1>20. CASE ShellEnter(s)
    BY <1>20 DEF ShellEnter
  <1>21. CASE DispatchEnd(s)
    BY <1>21 DEF DispatchEnd
  <1>22. CASE CallsDone(s)
    BY <1>22 DEF CallsDone
  <1>23. CASE StepGraded(s)
    BY <1>23 DEF StepGraded, GradeOk, GradeInfra
  <1>24. CASE OrphanExit(s)
    BY <1>24 DEF OrphanExit
  <1>25. CASE StepTimeout(s)
    BY <1>25 DEF StepTimeout, Orphan
  <1>26. CASE Cancel(s)
    BY <1>26 DEF Cancel, Orphan, GiveActiveSlot
  <1>27. CASE CloseReturn(s)
    BY <1>27 DEF CloseReturn, GiveActiveSlot
  <1> QED
    BY <1>1, <1>2, <1>3, <1>4, <1>5, <1>6, <1>7, <1>8, <1>9, <1>10, <1>11, <1>12,
       <1>13, <1>14, <1>15, <1>16, <1>17, <1>18, <1>19, <1>20, <1>21, <1>22, <1>23,
       <1>24, <1>25, <1>26, <1>27
    DEF StepOf, Coroutine, Worker, Closer

\* A sample that needed one attempt leaves no container, wherever that attempt
\* failed, if it is not cancelled during env.reset and docker rm works.
THEOREM OneAttemptHolds ==
    ASSUME Uncancelled, Removable
    PROVE  Spec => []OneAttemptLeavesNothing
  <1> DEFINE Base == \A s \in Samples : Attached(s)
  <1> DEFINE Inv == \A s \in Samples : OneContainer(s)
  <1>1. Init => Inv
    BY DEF Init, OneContainer
  <1>2. CapsInv /\ Base /\ Inv /\ [Next]_vars => Inv'
    <2> SUFFICES ASSUME CapsInv, Base, Inv, [Next]_vars, NEW q \in Samples
                 PROVE  OneContainer(q)'
      OBVIOUS
    <2>1. ASSUME NEW s \in Samples, StepOf(s) PROVE OneContainer(q)'
      BY <2>1, OneContainerStep DEF CapsInv
    <2>2. CASE UNCHANGED vars
      BY <2>2 DEF vars, OneContainer
    <2> QED
      BY <2>1, <2>2 DEF Next, StepOf
  <1>3. CapsInv /\ Base /\ Inv => OneAttemptLeavesNothing
    BY DEF OneAttemptLeavesNothing, OneContainer, Attached, Finished
  <1>4. Spec => []Base
    BY AttachedHolds
  <1> QED
    BY <1>1, <1>2, <1>3, <1>4, CapsInvariant, PTL DEF Spec

=============================================================================
