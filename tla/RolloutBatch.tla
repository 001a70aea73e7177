---------------------------- MODULE RolloutBatch ----------------------------
(***************************************************************************)
(* One rollout step after another: Relax's generate_rollout_async and      *)
(* abort (relax/engine/rollout/sglang_rollout.py) under the step loop of   *)
(* relax/components/rollout.py, with the evaluations that run beside them  *)
(* on the same event loop.                                                 *)
(*                                                                         *)
(* A step fetches groups of N samples of one task, keeps enough of them    *)
(* running, judges each as it ends, and puts the accepted ones in batches  *)
(* into the step's train partition.  Once BatchSize are accepted it aborts *)
(* what still runs.  In the pair modes a task has two groups, its arms:    *)
(* the no-skill arm runs first, and its outcome decides whether the oracle *)
(* or slate arm runs.                                                      *)
(*                                                                         *)
(* The event loop interleaves tasks, transfers and evaluations only where  *)
(* the rollout coroutine awaits (Yields); between two awaits its steps are *)
(* split into actions nothing else can come between.  A group is its       *)
(* group_index; its result is the number of its samples that pass.  Its    *)
(* task may end before the tasks of its samples do.                        *)
(***************************************************************************)
EXTENDS Integers, FiniteSets, Sequences, SequencesExt, FiniteSetsExt, Functions

CONSTANTS
    Rows,          \* the data set: rows [kind, key], taken in a circle
    N,             \* n_samples_per_prompt
    BatchSize,     \* rollout_batch_size
    OverSampling,  \* over_sampling_batch_size
    Extra,         \* RELAX_PAIR_SPECULATIVE_EXTRA_GROUPS
    TransferSize,  \* groups in one transfer
    MinDelta,      \* RELAX_SLATE_UNIFORM_MIN_DELTA * N
    MaxDropped,    \* RELAX_MAX_DROPPED_ABORT_GROUPS_PER_ROLLOUT
    MaxRejects,    \* RELAX_DYNAMIC_FILTER_MAX_REJECTS_PER_ROLLOUT
    Configs,       \* settings to explore
    Evals,         \* bound: evaluations requested
    MaxBad,        \* bound: groups that end with no mixed outcome
    MaxFaults      \* bound: exceptions of tasks, transfers, requests, evals

FilterModes == {"all", "std"}
PairModes == {"bc", "grpo", "slate", "opsd"}

\* num_rollout, the first step without oracle arms (-1: none), fully_async,
\* RELAX_REQUEUE_ABORTED_GROUPS, RELAX_PAIR_ORACLE_GRPO_DROP_ALL_PASS, and
\* whether abort waits for what it cancels (RELAX_ABORT_CANCEL_WAIT_SEC > 0).
Settings == [sampling : FilterModes \cup PairModes, rollouts : Nat, until : Int,
             async : BOOLEAN, requeue : BOOLEAN, dropAllPass : BOOLEAN,
             waits : BOOLEAN]

ASSUME RolloutBatchAssumption ==
    /\ Rows \in Seq([kind : {"noskill", "oracle", "slate", "plain"},
                     key : STRING])
    /\ Rows # << >>
    /\ {N, BatchSize, OverSampling, TransferSize} \subseteq Nat \ {0}
    /\ {Extra, MinDelta, MaxDropped, MaxRejects} \subseteq Nat
    /\ {MaxBad, MaxFaults} \subseteq Nat
    /\ IsFiniteSet(Evals)
    /\ Configs \subseteq Settings
    \* Groups put back in fully-async mode enlarge the next batch: left out.
    /\ \A c \in Configs : ~(c.async /\ c.requeue)

VARIABLES
    cfg,          \* the settings of this run
    pc,           \* position of the step
    rid,          \* rollout_id
    failure,      \* history: what ended the rollout loop
    fetched,      \* sample_group_index
    buffer,       \* the data source's buffer
    prefetched,   \* state.prefetched_samples_ref; {} is None
    parked,       \* pending_no_skill and pending_oracle
    ready,        \* pair_atomic_ready_no_skill
    deferred,     \* pair_atomic_oracle_groups: <<no-skill group, its arm>>
    stamp,        \* of a submitted arm: its partner and the partner's result
    pendings,     \* state.pendings
    live,         \* groups whose task has not ended
    result,       \* of the groups that ended and are not dropped
    remaining,    \* state.remaining_batch_size
    strays,       \* groups whose task may have ended before its samples'
    abandoned,    \* groups whose cancelled task nobody waited for
    done,         \* ended groups the loop has still to judge
    data,         \* accepted groups
    batch,        \* batch_to_transfer
    dropped,      \* dropped_abort_groups
    rejects,      \* dynamic_filter_rejects, where it is read
    requeued,     \* aborted_samples
    puts,         \* transfers under way
    putFailed,    \* one of the step's transfers raised
    partition,    \* groups in the train partition of each step
    epc,          \* position of each evaluation
    lock,         \* holder of state.eval_abort_lock: at most one
    evaluating,   \* the evaluations counted in state.evaluating
    handler,      \* Rollout.eval_handler: at most one
    inProgress,   \* state.abort_in_progress
    aborted,      \* state.aborted
    bad, faults   \* bounds used up

stepVars == <<pc, rid, failure>>
sourceVars == <<fetched, buffer, prefetched>>
cacheVars == <<parked, ready, deferred, stamp>>
leftVars == <<strays, abandoned>>
taskVars == <<pendings, live, result, remaining, leftVars>>
judgeVars == <<done, data, batch, dropped, rejects, requeued>>
putVars == <<puts, putFailed, partition>>
evalVars == <<epc, lock, evaluating, handler>>
abortVars == <<inProgress, aborted>>
bounds == <<bad, faults>>
vars == <<cfg, stepVars, sourceVars, cacheVars, taskVars, judgeVars, putVars,
          evalVars, abortVars, bounds>>

----------------------------------------------------------------------------
(* Groups, rows and modes.                                                 *)

Steps == 0..(cfg.rollouts - 1)
Groups == 1..fetched

Row(g) == Rows[((g - 1) % Len(Rows)) + 1]
Key(g) == Row(g).key

PairMode == cfg.sampling \in PairModes

\* pair_oracle_bc_enabled_for_rollout
PairsOn == cfg.until < 0 \/ rid < cfg.until

SlateKind(g) == Row(g).kind = "slate" /\ cfg.sampling = "slate"
IsNoSkill(g) == Row(g).kind = "noskill"
IsArm(g) == Row(g).kind = "oracle" \/ SlateKind(g)

\* A row of another kind is a no-skill candidate of its own.
Role(g) ==
    IF SlateKind(g) THEN "slate" ELSE IF IsArm(g) THEN "oracle" ELSE "no_skill"

Capacity == BatchSize + IF PairMode THEN Extra ELSE 0
Full == Cardinality(data) >= BatchSize

AllPass(r) == r = N
AllFail(r) == r = 0
Mixed(r) == r \in 1..(N - 1)
Outcomes == 0..N

\* Results of a group with an ABORTED sample, of a task that raised.
Aborted == -1
Raised == -2

\* The event loop runs other coroutines.
Yields == pc \notin {"fill", "process"}

----------------------------------------------------------------------------
(* The data source.                                                        *)

\* get_samples: from the buffer first, then the next rows.
FromBuffer ==
    IF cfg.async THEN buffer
    ELSE SubSeq(buffer, 1, Min({Len(buffer), OverSampling}))
FreshCount == OverSampling - IF cfg.async THEN 0 ELSE Len(FromBuffer)
Samples == ToSet(FromBuffer) \cup ((fetched + 1)..(fetched + FreshCount))

\* (As in AgentEnv, no action uses the definitions named Faulty.)  The next
\* group gets an index that is taken.
FaultyGetSamples ==
    /\ buffer' = SubSeq(buffer, Len(FromBuffer) + 1, Len(buffer))
    /\ UNCHANGED fetched
GetSamples ==
    /\ buffer' = SubSeq(buffer, Len(FromBuffer) + 1, Len(buffer))
    /\ fetched' = fetched + FreshCount

----------------------------------------------------------------------------
(* Pairing and submission.                                                 *)

\* Rows of one task are paired in the order they come.
Rank(g, S) == Cardinality({h \in S : Key(h) = Key(g) /\ h <= g})

Pairing(S) ==
    LET noSkill == {g \in S : IsNoSkill(g)}
        arms == {g \in S : IsArm(g)}
    IN  {p \in noSkill \X arms : /\ Key(p[1]) = Key(p[2])
                                 /\ Rank(p[1], noSkill) = Rank(p[2], arms)}

ArmOf(g) == {p[2] : p \in {q \in deferred : q[1] = g}}

\* Ready groups are submitted in the order they became ready: a no-skill
\* group when the later of its two rows came.
ReadyAt(g, pairs) == Max({g} \cup {p[2] : p \in {q \in pairs : q[1] = g}})
FirstReady(S, pairs, k) ==
    {g \in S : Cardinality({h \in S : ReadyAt(h, pairs) < ReadyAt(g, pairs)})
                   < k}

Submit(S) ==
    /\ pendings' = pendings \cup S
    /\ live' = live \cup S

----------------------------------------------------------------------------
Init ==
    /\ cfg \in Configs
    /\ pc = "idle"
    /\ rid = 0
    /\ failure = ""
    /\ fetched = 0
    /\ buffer = << >>
    /\ prefetched = {}
    /\ parked = {}
    /\ ready = {}
    /\ deferred = {}
    /\ stamp = << >>
    /\ pendings = {}
    /\ live = {}
    /\ result = << >>
    /\ remaining = 0
    /\ strays = {}
    /\ abandoned = {}
    /\ done = {}
    /\ data = {}
    /\ batch = {}
    /\ dropped = 0
    /\ rejects = 0
    /\ requeued = << >>
    /\ puts = {}
    /\ putFailed = FALSE
    /\ partition = [r \in Steps |-> {}]
    /\ epc = [e \in Evals |-> "off"]
    /\ lock = {}
    /\ evaluating = {}
    /\ handler = {}
    /\ inProgress = FALSE
    /\ aborted = FALSE
    /\ bad = 0
    /\ faults = 0

Fail(why) ==
    /\ pc' = "failed"
    /\ failure' = why
    /\ UNCHANGED rid

Fault ==
    /\ faults < MaxFaults
    /\ faults' = faults + 1
    /\ UNCHANGED bad

----------------------------------------------------------------------------
(* The step loop (Rollout._async_run): await the requested evaluation,     *)
(* then generate.  Before a step it may wait for the trainer to use up old *)
(* partitions (max_staleness): a delay at "idle", taken to end.            *)

HandlerOver == \A e \in handler : epc[e] \in {"over", "raised"}
HandlerRaised == \E e \in handler : epc[e] = "raised"

StartStep ==
    /\ pc = "idle"
    /\ HandlerOver /\ ~HandlerRaised
    /\ pc' = IF rid < cfg.rollouts THEN "fill" ELSE "over"
    /\ handler' = {}
    /\ UNCHANGED <<cfg, rid, failure, sourceVars, cacheVars, taskVars,
                   judgeVars, putVars, epc, lock, evaluating, abortVars,
                   bounds>>

StepLoopFails ==
    /\ pc = "idle"
    /\ HandlerRaised
    /\ Fail("eval")
    /\ UNCHANGED <<cfg, sourceVars, cacheVars, taskVars, judgeVars, putVars,
                   evalVars, abortVars, bounds>>

----------------------------------------------------------------------------
(* Filling the capacity.                                                   *)

FillDone ==
    /\ pc = "fill"
    /\ remaining >= Capacity
    /\ pc' = "wait"
    /\ UNCHANGED <<cfg, rid, failure, sourceVars, cacheVars, taskVars,
                   judgeVars, putVars, evalVars, abortVars, bounds>>

FillFromReady ==
    /\ pc = "fill"
    /\ remaining < Capacity
    /\ ready # {}
    /\ LET S == FirstReady(ready, deferred, Capacity - remaining)
       IN  /\ Submit(S)
           /\ remaining' = remaining + Cardinality(S)
           /\ ready' = ready \ S
    /\ UNCHANGED <<cfg, stepVars, sourceVars, parked, deferred, stamp, result,
                   leftVars, judgeVars, putVars, evalVars, abortVars, bounds>>

FillFetches ==
    /\ pc = "fill"
    /\ remaining < Capacity
    /\ ready = {}
    /\ pc' = "fetch"
    /\ UNCHANGED <<cfg, rid, failure, sourceVars, cacheVars, taskVars,
                   judgeVars, putVars, evalVars, abortVars, bounds>>

\* The samples of the pre-fetched reference, or of a call made now.
Taken == IF prefetched # {} THEN prefetched ELSE Samples

\* The reference is used and kept.
FaultyTakeSamples ==
    IF prefetched # {} THEN UNCHANGED sourceVars
    ELSE GetSamples /\ UNCHANGED prefetched
TakeSamples ==
    \/ /\ prefetched # {}
       /\ prefetched' = {}
       /\ UNCHANGED <<fetched, buffer>>
    \/ /\ prefetched = {}
       /\ GetSamples
       /\ UNCHANGED prefetched

\* In a filter mode every group is submitted, over the capacity too.
FetchAll ==
    /\ pc = "fetch"
    /\ ~PairMode
    /\ TakeSamples
    /\ Submit(Taken)
    /\ remaining' = remaining + Cardinality(Taken)
    /\ pc' = "fill"
    /\ UNCHANGED <<cfg, rid, failure, cacheVars, result, leftVars, judgeVars,
                   putVars, evalVars, abortVars, bounds>>

\* The candidates of a fetch: pairs, or no-skill rows alone once oracle BC
\* has ended.  What found no partner stays parked for the rest of the step.
Prepare(S) ==
    LET rows == parked \cup {g \in S : IsNoSkill(g) \/ IsArm(g)}
        pairs == IF PairsOn THEN Pairing(rows) ELSE {}
        paired == {p[1] : p \in pairs} \cup {p[2] : p \in pairs}
        plain == {g \in S : ~IsNoSkill(g) /\ ~IsArm(g)}
        candidates == plain \cup IF PairsOn THEN {p[1] : p \in pairs}
                                 ELSE {g \in S : IsNoSkill(g)}
        first == FirstReady(candidates, pairs, Capacity - remaining)
    IN  /\ parked' = IF PairsOn THEN rows \ paired ELSE parked
        /\ deferred' = deferred \cup pairs
        /\ ready' = candidates \ first
        /\ Submit(first)
        /\ remaining' = remaining + Cardinality(first)

FetchPairs ==
    /\ pc = "fetch"
    /\ PairMode
    /\ TakeSamples
    /\ Prepare(Taken)
    /\ pc' = "fill"
    /\ UNCHANGED <<cfg, rid, failure, stamp, result, leftVars, judgeVars,
                   putVars, evalVars, abortVars, bounds>>

----------------------------------------------------------------------------
(* Tasks.                                                                  *)

\* generate_and_rm_group gathers the tasks of its samples; the first of them
\* that raises or is cancelled ends the gather, and the task of the group with
\* it, while its siblings may run on.  Nobody reads when they end, so a group
\* once in strays (or abandoned) stays there.
LeavesSiblings(g) == strays' = strays \cup {g}

\* The task of a group ends while the loop still wants the group.
Finish(g, r) ==
    /\ pc \in {"fetch", "wait"}
    /\ g \in live
    /\ live' = live \ {g}
    /\ result' = [h \in DOMAIN result \cup {g} |->
                     IF h = g THEN r ELSE result[h]]
    /\ UNCHANGED <<cfg, stepVars, sourceVars, cacheVars, pendings, remaining,
                   abandoned, judgeVars, putVars, evalVars, abortVars>>

Succeed(g) == /\ \E r \in Outcomes : Mixed(r) /\ Finish(g, r)
              /\ UNCHANGED <<strays, bounds>>

EndBadly(g) == /\ bad < MaxBad
               /\ bad' = bad + 1
               /\ \E r \in {0, N, Aborted} : Finish(g, r)
               /\ UNCHANGED <<strays, faults>>

Break(g) == Fault /\ Finish(g, Raised) /\ LeavesSiblings(g)

\* It ends after the loop: its result is read by nobody, and that it has ended
\* only by the drain, so one that ends earlier is seen to end there.
EndsLate(g) ==
    /\ pc = "drain"
    /\ g \in live
    /\ live' = live \ {g}
    /\ UNCHANGED <<cfg, stepVars, sourceVars, cacheVars, pendings, result,
                   remaining, abandoned, judgeVars, putVars, evalVars, abortVars>>

\* With all its samples, by itself or through abort_all.
FinishLate(g) == EndsLate(g) /\ UNCHANGED <<strays, bounds>>

\* With the first of its samples that raises, or that is cancelled with it at
\* the deadline of the drain: the others may still close their environments.
BreakLate(g) == Fault /\ EndsLate(g) /\ LeavesSiblings(g)

\* asyncio.wait(FIRST_COMPLETED) returns every task that has ended by now.
Collect ==
    /\ pc = "wait"
    /\ pendings \ live # {}
    /\ done' = pendings \ live
    /\ pendings' = pendings \cap live
    /\ pc' = "process"
    /\ UNCHANGED <<cfg, rid, failure, sourceVars, cacheVars, live, result,
                   remaining, leftVars, data, batch, dropped, rejects, requeued,
                   putVars, evalVars, abortVars, bounds>>

----------------------------------------------------------------------------
(* Judging an ended group.                                                 *)

Without(f, g) == [h \in DOMAIN f \ {g} |-> f[h]]

\* `for task in done`: one group at a time, in any order.
Judge(g) ==
    /\ pc = "process"
    /\ g \in done
    /\ done' = done \ {g}
    /\ UNCHANGED <<cfg, rid, sourceVars, parked, ready, leftVars, putVars,
                   evalVars, abortVars, bounds>>

Stay == UNCHANGED <<pc, failure>>

\* Not submitted as an arm, and forgotten.
Forget(g) ==
    /\ result' = Without(result, g)
    /\ UNCHANGED <<data, batch>>

Accept(g) ==
    /\ data' = data \cup {g}
    /\ batch' = batch \cup {g}
    /\ UNCHANGED result

\* task.result() raises: nothing resets the state.
JudgeError(g) ==
    /\ Judge(g)
    /\ result[g] = Raised
    /\ pc' = "failed"
    /\ failure' = "task"
    /\ UNCHANGED <<deferred, stamp, pendings, live, result, remaining, data,
                   batch, dropped, rejects, requeued>>

\* A speculative group that ends when the batch is full.
DropLate(g) ==
    /\ Judge(g) /\ Stay
    /\ result[g] # Raised
    /\ PairMode /\ Full
    /\ Forget(g)
    /\ remaining' = Max({0, remaining - 1})
    /\ UNCHANGED <<deferred, stamp, pendings, live, dropped, rejects, requeued>>

\* The zero-spread filter rejects what has no mixed rewards (an aborted
\* group has none at all) until it has rejected too many.
Rejected(g) == cfg.sampling = "std" /\ ~Mixed(result[g])
Forced == MaxRejects > 0 /\ rejects + 1 > MaxRejects

DropRejected(g) ==
    /\ Judge(g) /\ Stay
    /\ result[g] # Raised
    /\ Rejected(g) /\ ~Forced
    /\ Forget(g)
    /\ rejects' = rejects + 1
    /\ remaining' = remaining - 1
    /\ UNCHANGED <<deferred, stamp, pendings, live, dropped, requeued>>

CountReject(g) == rejects' = rejects + IF Rejected(g) THEN 1 ELSE 0

\* A sample of the group was aborted; the mutant takes a group that raised for
\* one of these.
FaultyWasAborted(g) == result[g] \in {Aborted, Raised}
WasAborted(g) == result[g] = Aborted

DropAborted(g) ==
    /\ Judge(g)
    /\ WasAborted(g)
    /\ PairMode => ~Full
    /\ Rejected(g) => Forced
    /\ CountReject(g)
    /\ Forget(g)
    /\ dropped' = dropped + 1
    /\ remaining' = remaining - 1
    /\ requeued' = IF cfg.requeue /\ ~PairMode THEN Append(requeued, g)
                   ELSE requeued
    /\ IF dropped' > MaxDropped
       THEN pc' = "failed" /\ failure' = "aborted"
       ELSE Stay
    /\ UNCHANGED <<deferred, stamp, pendings, live>>

\* The group goes to the transfer though the batch is full.
FaultyAcceptIfRoom(g) ==
    /\ batch' = batch \cup {g}
    /\ data' = data \cup IF Full THEN {} ELSE {g}
    /\ UNCHANGED result
AcceptIfRoom(g) == IF Full THEN Forget(g) ELSE Accept(g)

\* A filter mode keeps the group; one that comes too late for the batch is
\* skipped, its slot still counted.
KeepFiltered(g) ==
    /\ Judge(g) /\ Stay
    /\ ~PairMode
    /\ result[g] \in Outcomes
    /\ Rejected(g) => Forced
    /\ CountReject(g)
    /\ AcceptIfRoom(g)
    /\ UNCHANGED <<deferred, stamp, pendings, live, remaining, dropped,
                   requeued>>

\* |slate mean - no-skill mean| >= min_delta, in samples.
LargeDelta(g) == LET d == result[g] - stamp[g].passes
                 IN  d >= MinDelta \/ -d >= MinDelta

DropsAllPass == cfg.sampling = "grpo" /\ cfg.dropAllPass

Keeps(g) ==
    LET r == result[g]
    IN  \/ Role(g) = "no_skill" /\ Mixed(r)
        \/ /\ Role(g) = "oracle"
           /\ PairsOn
           /\ Mixed(r) \/ (AllPass(r) /\ ~DropsAllPass)
        \/ Role(g) = "slate" /\ (Mixed(r) \/ LargeDelta(g))

\* The slate arm runs after its no-skill arm whatever that one's outcome is
\* (_submit_slate_arm), the oracle arm only when it failed everywhere.
SlateArm(g) == {a \in ArmOf(g) : SlateKind(a)}

\* The oracle arm of every no-skill group, mixed ones too.
FaultyOracleArm(g) ==
    IF PairsOn /\ cfg.sampling \in {"bc", "grpo"} THEN ArmOf(g) ELSE {}
OracleArm(g) ==
    IF PairsOn /\ AllFail(result[g]) /\ cfg.sampling \in {"bc", "grpo"}
    THEN ArmOf(g) ELSE {}

SubmitArms(g, arms) ==
    /\ Submit(arms)
    /\ deferred' = {p \in deferred : p[1] # g}
    /\ stamp' = [a \in DOMAIN stamp \cup arms |->
                    IF a \in arms THEN [by |-> g, passes |-> result[g]]
                    ELSE stamp[a]]

JudgePair(g) ==
    /\ Judge(g) /\ Stay
    /\ PairMode /\ ~Full
    /\ result[g] \in Outcomes
    /\ UNCHANGED <<dropped, rejects, requeued>>

\* count_capacity=True; the mutant submits it without a slot.
FaultyArmSlots(g) == 0
ArmSlots(g) == Cardinality(SlateArm(g))

KeepGroup(g) ==
    /\ JudgePair(g)
    /\ Keeps(g)
    /\ Accept(g)
    /\ SubmitArms(g, SlateArm(g))
    /\ remaining' = remaining + ArmSlots(g)

\* The slot of a dropped group; the mutant keeps it.
FaultyFreedSlots == 0
FreedSlots == 1

RefuseGroup(g) ==
    /\ JudgePair(g)
    /\ ~Keeps(g)
    /\ OracleArm(g) = {}
    /\ Forget(g)
    /\ SubmitArms(g, SlateArm(g))
    /\ remaining' = remaining - FreedSlots + ArmSlots(g)

\* The oracle arm takes over the slot of its no-skill arm
\* (count_capacity=False).
Rescue(g) ==
    /\ JudgePair(g)
    /\ OracleArm(g) # {}
    /\ Forget(g)
    /\ SubmitArms(g, OracleArm(g))
    /\ UNCHANGED remaining

\* After the ended groups: a transfer is spawned when enough are accepted.
\* A full batch leaves the loop: the rest is transferred and, in the
\* lock-step mode, the next step's samples are asked for.
JudgedAll ==
    /\ pc = "process"
    /\ done = {}
    /\ pc' = IF Full THEN "gather" ELSE "fill"
    /\ IF batch # {} /\ (Full \/ Cardinality(batch) >= TransferSize)
       THEN puts' = puts \cup {batch} /\ batch' = {}
       ELSE UNCHANGED <<puts, batch>>
    /\ IF Full /\ ~cfg.async
       THEN prefetched' = Samples /\ GetSamples
       ELSE UNCHANGED sourceVars
    /\ UNCHANGED <<cfg, rid, failure, cacheVars, taskVars, done, data, dropped,
                   rejects, requeued, putFailed, partition, evalVars,
                   abortVars, bounds>>

----------------------------------------------------------------------------
(* Transfers (transfer_batch_to_data_system): background tasks, awaited    *)
(* only once the batch is full.                                            *)

\* They go on after the rollout coroutine has failed.
Put(b) ==
    /\ Yields
    /\ b \in puts
    /\ puts' = puts \ {b}
    /\ UNCHANGED <<cfg, stepVars, sourceVars, cacheVars, taskVars, judgeVars,
                   evalVars, abortVars>>

PutDone(b) ==
    /\ Put(b)
    /\ partition' = [partition EXCEPT ![rid] = @ \cup b]
    /\ UNCHANGED <<putFailed, bounds>>

\* async_put raises, or async_set_custom_meta after it.
PutRaises(b) ==
    /\ Fault
    /\ Put(b)
    /\ \E S \in {{}, b} : partition' = [partition EXCEPT ![rid] = @ \cup S]
    /\ putFailed' = TRUE

Gathered ==
    /\ pc = "gather"
    /\ puts = {} /\ ~putFailed
    /\ pc' = "abort"
    /\ UNCHANGED <<cfg, rid, failure, sourceVars, cacheVars, taskVars,
                   judgeVars, putVars, evalVars, abortVars, bounds>>

GatherRaises ==
    /\ pc = "gather"
    /\ putFailed
    /\ Fail("put")
    /\ UNCHANGED <<cfg, sourceVars, cacheVars, taskVars, judgeVars, putVars,
                   evalVars, abortVars, bounds>>

----------------------------------------------------------------------------
(* abort(): wait for the evaluations, tell the workers, drain the tasks.   *)

AbortBegins ==
    /\ pc = "abort"
    /\ lock = {}
    /\ inProgress' = TRUE
    /\ pc' = "evalwait"
    /\ UNCHANGED <<cfg, rid, failure, sourceVars, cacheVars, taskVars,
                   judgeVars, putVars, evalVars, aborted, bounds>>

\* state.evaluating is 0; the mutant does not wait for that.
FaultyEvalsOver == TRUE
EvalsOver == evaluating = {}

AbortRequests ==
    /\ pc = "evalwait"
    /\ EvalsOver
    /\ aborted' = TRUE
    /\ pc' = "http"
    /\ UNCHANGED <<cfg, rid, failure, sourceVars, cacheVars, taskVars,
                   judgeVars, putVars, evalVars, inProgress, bounds>>

\* The workers are listed; one that cannot be told is logged.
AbortSent ==
    /\ pc = "http"
    /\ pc' = "drain"
    /\ UNCHANGED <<cfg, rid, failure, sourceVars, cacheVars, taskVars,
                   judgeVars, putVars, evalVars, abortVars, bounds>>

\* GenerateState.reset(); the counter of evaluations survives it.
Reset ==
    /\ pendings' = {}
    /\ remaining' = 0
    /\ inProgress' = FALSE
    /\ aborted' = FALSE

\* The request for the list of workers raises: reset, and the loop fails
\* with its tasks still running.
AbortRaises ==
    /\ pc = "http"
    /\ Fault
    /\ Fail("http")
    /\ Reset
    /\ UNCHANGED <<cfg, sourceVars, cacheVars, live, result, leftVars,
                   judgeVars, putVars, evalVars>>

Drained == cfg.waits => pendings \cap live = {}

\* Every pending task has ended, in time or cancelled at the deadline: wait_for
\* on their gather returns only when the cancelled ones have.  Told not to
\* wait, the step leaves them behind.
\* The step returns: its local variables are gone, and what it collected
\* goes back to the data source.
StepReturns ==
    /\ pc = "drain"
    /\ Drained
    /\ live' = live \ pendings
    /\ abandoned' = abandoned \cup (live \cap pendings)
    /\ Reset
    /\ buffer' = buffer \o requeued
    /\ parked' = {} /\ ready' = {} /\ deferred' = {} /\ stamp' = << >>
    /\ data' = {} /\ batch' = {} /\ requeued' = << >>
    /\ result' = << >>
    /\ dropped' = 0 /\ rejects' = 0
    /\ rid' = rid + 1
    /\ pc' = "idle"
    /\ UNCHANGED <<cfg, failure, fetched, prefetched, strays, done, putVars,
                   evalVars, bounds>>

----------------------------------------------------------------------------
(* Evaluations (eval_rollout), requested by the trainer.                   *)

\* The endpoint keeps the handle of the last one only.
Evaluate(e) ==
    /\ Yields
    /\ epc[e] = "off"
    /\ epc' = [epc EXCEPT ![e] = "want"]
    /\ handler' = {e}
    /\ UNCHANGED <<cfg, stepVars, sourceVars, cacheVars, taskVars, judgeVars,
                   putVars, lock, evaluating, abortVars, bounds>>

AbortOn == inProgress \/ aborted

\* An evaluation is counted when it need not wait for an abort; the mutant
\* counts it before it waits.
FaultyCounted(e) == evaluating \cup {e}
Counted(e) == evaluating \cup IF AbortOn THEN {} ELSE {e}

\* Holding the lock, it waits for the end of an abort, if there is one.
EvalLock(e) ==
    /\ Yields
    /\ epc[e] = "want"
    /\ lock = {}
    /\ epc' = [epc EXCEPT ![e] = IF AbortOn THEN "gate" ELSE "run"]
    /\ lock' = IF AbortOn THEN {e} ELSE {}
    /\ evaluating' = Counted(e)
    /\ UNCHANGED <<cfg, stepVars, sourceVars, cacheVars, taskVars, judgeVars,
                   putVars, handler, abortVars, bounds>>

EvalGate(e) ==
    /\ Yields
    /\ epc[e] = "gate"
    /\ ~AbortOn
    /\ epc' = [epc EXCEPT ![e] = "run"]
    /\ evaluating' = evaluating \cup {e}
    /\ lock' = lock \ {e}
    /\ UNCHANGED <<cfg, stepVars, sourceVars, cacheVars, taskVars, judgeVars,
                   putVars, handler, abortVars, bounds>>

EvalEnds(e, how) ==
    /\ Yields
    /\ epc[e] = "run"
    /\ epc' = [epc EXCEPT ![e] = how]
    /\ evaluating' = evaluating \ {e}
    /\ UNCHANGED <<cfg, stepVars, sourceVars, cacheVars, taskVars, judgeVars,
                   putVars, lock, handler, abortVars>>

EvalReturns(e) == EvalEnds(e, "over") /\ UNCHANGED bounds
EvalRaises(e) == Fault /\ EvalEnds(e, "raised")

----------------------------------------------------------------------------
StepLoop == StartStep \/ StepLoopFails
Fill == FillDone \/ FillFromReady \/ FillFetches \/ FetchAll \/ FetchPairs
JudgeGroup(g) ==
    \/ JudgeError(g) \/ DropLate(g) \/ DropRejected(g) \/ DropAborted(g)
    \/ KeepFiltered(g) \/ KeepGroup(g) \/ RefuseGroup(g) \/ Rescue(g)
Collecting == Collect \/ (\E g \in done : JudgeGroup(g)) \/ JudgedAll
Ending == Gathered \/ GatherRaises \/ AbortBegins \/ AbortRequests
          \/ AbortSent \/ AbortRaises \/ StepReturns
Rollout == StepLoop \/ Fill \/ Collecting \/ Ending

Task == \E g \in live : \/ Succeed(g) \/ EndBadly(g) \/ Break(g)
                         \/ FinishLate(g) \/ BreakLate(g)
Transfer == \E b \in puts : PutDone(b) \/ PutRaises(b)
Eval(e) == EvalLock(e) \/ EvalGate(e) \/ EvalReturns(e) \/ EvalRaises(e)

Next ==
    \/ Rollout
    \/ Task
    \/ Transfer
    \/ \E e \in Evals : Evaluate(e) \/ Eval(e)

\* The event loop does not idle while a coroutine can go on (a task has time
\* limits of its own); nobody has to request an evaluation.
Fairness == WF_vars(Rollout \/ Task \/ Transfer \/ \E e \in Evals : Eval(e))

Spec == Init /\ [][Next]_vars
FairSpec == Spec /\ Fairness

----------------------------------------------------------------------------
(* Properties.                                                             *)

Positions == {"idle", "fill", "fetch", "wait", "process", "gather", "abort",
              "evalwait", "http", "drain", "over", "failed"}

TypeOK ==
    /\ cfg \in Configs
    /\ pc \in Positions
    /\ rid \in 0..cfg.rollouts
    /\ failure \in {"", "eval", "task", "aborted", "put", "http"}
    /\ fetched \in Nat
    /\ {parked, ready, pendings, live, done, data, batch} \subseteq SUBSET Groups
    /\ {strays, abandoned} \subseteq SUBSET Groups
    /\ ToSet(buffer) \cup prefetched \cup ToSet(requeued) \subseteq Groups
    /\ deferred \subseteq Groups \X Groups
    /\ puts \subseteq SUBSET Groups
    /\ partition \in [Steps -> SUBSET Groups]
    /\ DOMAIN result \subseteq Groups
    /\ \A g \in DOMAIN result : result[g] \in Outcomes \cup {Aborted, Raised}
    /\ DOMAIN stamp \subseteq Groups
    /\ {remaining, dropped, rejects, bad, faults} \subseteq Nat
    /\ {putFailed, inProgress, aborted} \subseteq BOOLEAN
    /\ epc \in [Evals -> {"off", "want", "gate", "run", "over", "raised"}]
    /\ {lock, evaluating, handler} \subseteq SUBSET Evals

InLoop == pc \in {"fill", "fetch", "wait", "process"}

\* Every running group and every accepted group holds exactly one slot of
\* the capacity: an arm takes its own slot or inherits its partner's, a
\* dropped group gives its slot back.  A slot lost or counted twice shows
\* only after many refills.
SlotPerGroup ==
    InLoop /\ (PairMode \/ ~Full) =>
        remaining = Cardinality(pendings) + Cardinality(done)
                        + Cardinality(data)

\* The step never waits for a task when none is left: asyncio.wait raises
\* on an empty set.
NeverWaitsOnNothing == pc = "wait" => pendings # {}

\* Where a fetched group can be: the data source, the caches of the step,
\* its tasks, what it gives back.
Places == << ToSet(buffer), prefetched, parked, ready,
             {p[2] : p \in deferred}, pendings, done, ToSet(requeued) >>

\* No group is in two of these places, or in one and accepted, in this step
\* or an earlier one: a row is never trained twice through the backlog, the
\* pre-fetch or the requeue.
NoGroupTwice ==
    LET places == Places
        trained == data \cup UNION {partition[r] : r \in Steps}
    IN  /\ \A i, j \in DOMAIN places :
               i < j => places[i] \cap places[j] = {}
        /\ \A i \in DOMAIN places : places[i] \cap trained = {}
        /\ \A r \in Steps :
               /\ r # rid => partition[r] \cap data = {}
               /\ \A s \in Steps : r # s => partition[r] \cap partition[s] = {}

\* The partition a finished step leaves to the trainer has exactly
\* BatchSize groups, and while the step runs every accepted group is in the
\* next transfer, under way, or in the partition, unless a transfer raised.
PartitionWhole ==
    /\ \A r \in Steps : r < rid => Cardinality(partition[r]) = BatchSize
    /\ InLoop \/ pc = "gather" =>
           LET sent == batch \cup (UNION puts) \cup partition[rid]
           IN  sent \subseteq data /\ (~putFailed => sent = data)

\* An oracle arm is trained only when its no-skill arm failed everywhere
\* (and is not trained itself) and the oracle arm passed somewhere; a slate
\* arm only when its spread or its difference to its no-skill arm says
\* something; of the no-skill groups only the mixed ones.
ArmsAgree ==
    PairMode => \A g \in data :
        LET r == result[g]
        IN  \/ Role(g) = "no_skill" /\ Mixed(r)
            \/ /\ Role(g) = "oracle"
               /\ stamp[g].passes = 0 /\ stamp[g].by \notin data /\ r > 0
               /\ Key(stamp[g].by) = Key(g) /\ IsNoSkill(stamp[g].by)
               /\ PairsOn /\ (DropsAllPass => r < N)
            \/ /\ Role(g) = "slate"
               /\ Mixed(r) \/ LargeDelta(g)
               /\ (stamp[g].by \in data) <=> Mixed(stamp[g].passes)
               /\ Key(stamp[g].by) = Key(g) /\ IsNoSkill(stamp[g].by)

\* Where a group is that has been trained or will be, or will run.
Used ==
    ToSet(buffer) \cup prefetched \cup parked \cup ready
        \cup {p[2] : p \in deferred} \cup ToSet(requeued)
        \cup data \cup UNION {partition[r] : r \in Steps}

\* What a step may leave behind it.  A transfer or an ended group never, the
\* task of a group only where abort was told not to wait for it.  Tasks of
\* samples may outlive the task of their group, and the step; they still write
\* to their Sample objects, so their group is not trained, not put back and not
\* submitted again, in this step or a later one.
LeftoversUnused ==
    /\ pc \in {"idle", "over"} => live = {} /\ done = {} /\ puts = {}
    /\ cfg.waits => abandoned = {}
    /\ (strays \cup abandoned) \cap (live \cup Used) = {}

\* The gate of AbortGate, kept with a lock, two flags and a counter.
Gate == INSTANCE AbortGate WITH
    phase <- IF aborted THEN "aborting"
             ELSE IF inProgress THEN "closed" ELSE "open",
    status <- [e \in Evals |->
                  CASE epc[e] = "off" -> "off"
                    [] epc[e] \in {"want", "gate"} -> "waiting"
                    [] epc[e] = "run" -> "running"
                    [] epc[e] \in {"over", "raised"} -> "over"]

\* No evaluation runs while the workers are told to abort all requests, and
\* none starts before the abort's cleanup ends.
KeepsGate == Gate!Spec

\* The rollout loop ends, and every evaluation requested is served, however
\* many aborts it waits for and however the loop ends: neither an abort that
\* waits for evaluations nor an evaluation that waits for an abort holds the
\* other up for ever, and no step waits for a task that cannot end.
EverythingEnds ==
    <>(/\ pc \in {"over", "failed"}
       /\ \A e \in Evals : epc[e] \in {"off", "over", "raised"})

\* "Failing fast instead of leaving a partial train partition": a step of a
\* filter mode that fails over its aborted groups leaves no group in its
\* partition.  Transfers made before the failure do.
FailFastLeavesNothing ==
    failure = "aborted" /\ ~PairMode => partition[rid] = {}

=============================================================================
