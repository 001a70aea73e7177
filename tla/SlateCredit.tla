---------------------------- MODULE SlateCredit -----------------------------
(***************************************************************************)
(* What a sample of a slate group is credited with: the three reward       *)
(* post-processors that wrap one another under the hybrid_slate profile,   *)
(* skill_group_reward, slate_regret_gating and                             *)
(* slate_regret_stratified_gating (Relax/examples/agent_bench).            *)
(*                                                                         *)
(* A sample has the score of the verifier and the kinds of skill files it  *)
(* read; the credit depends on nothing else, so a group is a bag of such   *)
(* samples.  Each post-processor adds one term to a sample's advantage:    *)
(*   outcome     its score, centred (and divided by the group's standard   *)
(*               deviation, a positive number common to the group);        *)
(*   shift       the group's mean against that of its no-skill arm;        *)
(*   behaviour   what its stratum scores against the others.               *)
(* Floats are exact fractions here: a numerator over a denominator common  *)
(* to the group.  Scores are multiples of 1/Top.                           *)
(***************************************************************************)
EXTENDS Integers, FiniteSets, FiniteSetsExt, Functions

CONSTANTS
    N,          \* n_samples_per_prompt
    Top,        \* the score of a sample that passes
    Reads,      \* sets of kinds of skill files a sample may read
    NoSkill,    \* sums of scores of the paired no-skill arm
    Shrinkage,  \* RELAX_SLATE_STRATIFIED_SHRINKAGE
    Clip,       \* RELAX_SLATE_STRATIFIED_ADV_CLIP, [num, den]
    Coef        \* RELAX_SLATE_REGRET_COEF, [num, den]

Kinds == {"oracle", "misleading", "relevant", "unadvertised"}
Fractions == [num : Int, den : Nat \ {0}]

ASSUME SlateCreditAssumption ==
    /\ {N, Top} \subseteq Nat \ {0}
    /\ Reads \subseteq SUBSET Kinds
    /\ NoSkill \subseteq 0..(N * Top)
    /\ Shrinkage \in Nat
    /\ {Clip, Coef} \subseteq Fractions /\ Clip.num > 0

Samples == [score : 0..Top, reads : Reads]

\* Not paired (no mean was stamped on the group).
Unpaired == -1

VARIABLES
    group,      \* how many samples there are of each kind
    noSkill,    \* the sum of scores stamped on the group, or Unpaired
    pc,         \* the post-processor to run next
    outcome,    \* of each sample, in 1/(N * Top) and standard deviations
    shift,      \* of all, in 1/(N * Top * Coef.den)
    behaviour   \* of each stratum: numerators and a denominator

vars == <<group, noSkill, pc, outcome, shift, behaviour>>

Size(S) == SumFunctionOnSet(group, S)
ScoreSum(S) == SumFunction([x \in S |-> group[x] * x.score])

----------------------------------------------------------------------------
(* Strata.                                                                 *)

Strata == {"no_read", "oracle", "misleading"}

\* behavior_stratum: the misleading files first, so that reading both is not
\* credited as a clean oracle choice.
Stratum(x) ==
    IF "misleading" \in x.reads THEN "misleading"
    ELSE IF "oracle" \in x.reads THEN "oracle"
    ELSE IF x.reads = {} THEN "no_read" ELSE "other"

In(s) == {x \in Samples : Stratum(x) = s}
Eligible == UNION {In(s) : s \in Strata}
Count(s) == Size(In(s))
Observed == {s \in Strata : Count(s) > 0}

----------------------------------------------------------------------------
Init ==
    /\ group = [x \in Samples |-> 0]
    /\ noSkill \in NoSkill \cup {Unpaired}
    /\ pc = "rollout"
    /\ outcome = [x \in Samples |-> 0]
    /\ shift = 0
    /\ behaviour = [num |-> [s \in Strata |-> 0], den |-> 1]

\* The engine delivers groups of N samples; the mutant's have one more.
FaultyFinish(x) ==
    /\ pc = "rollout"
    /\ group' = [group EXCEPT ![x] = @ + 1]
    /\ pc' = IF Size(Samples) = N THEN "center" ELSE "rollout"
    /\ UNCHANGED <<noSkill, outcome, shift, behaviour>>
Finish(x) ==
    /\ pc = "rollout"
    /\ group' = [group EXCEPT ![x] = @ + 1]
    /\ pc' = IF Size(Samples) = N - 1 THEN "center" ELSE "rollout"
    /\ UNCHANGED <<noSkill, outcome, shift, behaviour>>

\* The mutant subtracts the score from the mean.
FaultyCenter ==
    /\ pc = "center"
    /\ outcome' = [x \in Samples |-> ScoreSum(Samples) - N * x.score]
    /\ pc' = "regret"
    /\ UNCHANGED <<group, noSkill, shift, behaviour>>
\* _center
Center ==
    /\ pc = "center"
    /\ outcome' = [x \in Samples |-> N * x.score - ScoreSum(Samples)]
    /\ pc' = "regret"
    /\ UNCHANGED <<group, noSkill, shift, behaviour>>

\* The mutant forgets the no-skill arm.
FaultyDelta == ScoreSum(Samples)
\* The clip to [-1, 1] leaves it alone: scores are in [0, 1].
Delta == ScoreSum(Samples) - noSkill

Regret ==
    /\ pc = "regret"
    /\ shift' = IF noSkill = Unpaired THEN 0 ELSE Coef.num * Delta
    /\ pc' = "stratify"
    /\ UNCHANGED <<group, noSkill, outcome, behaviour>>

\* (n mu + tau mu_E) / (n + tau) - mu_E, over RawDen.
Weight(t, s) == IF t \in Observed \ {s} THEN Count(t) + Shrinkage ELSE 1
Others(s) ==
    Weight("no_read", s) * Weight("oracle", s) * Weight("misleading", s)
RawDen == Size(Eligible) * Others("other") * Top

\* The mutant shrinks towards the mean of the whole group.
FaultyRaw(s) ==
    (N * ScoreSum(In(s)) - Count(s) * ScoreSum(Samples)) * Others(s)
Raw(s) ==
    (Size(Eligible) * ScoreSum(In(s)) - Count(s) * ScoreSum(Eligible))
        * Others(s)

\* The mutant subtracts the mean of the strata, whatever their sizes.
FaultyCentred(s) ==
    Cardinality(Observed) * Raw(s)
        - SumFunction([t \in Observed |-> Raw(t)])
\* The mean over the samples, over RawDen * Size(Eligible).
Centred(s) ==
    Size(Eligible) * Raw(s)
        - SumFunction([t \in Observed |-> Count(t) * Raw(t)])

Abs(i) == IF i < 0 THEN -i ELSE i

\* The mutant looks at the gains only.
FaultyLargest == Max({Centred(s) : s \in Observed})
Largest == Max({Abs(Centred(s)) : s \in Observed})
TooLarge == Largest * Clip.den > Clip.num * RawDen * Size(Eligible)

\* _stratum_advantages, with the default RELAX_SLATE_STRATIFIED_ADV_COEF of 1
\* and a clip (it is off if not positive).
Stratify ==
    /\ pc = "stratify"
    /\ behaviour' =
          IF Cardinality(Observed) < 2 THEN behaviour
          ELSE [num |-> [s \in Strata |->
                            IF s \notin Observed THEN 0
                            ELSE IF TooLarge THEN Clip.num * Centred(s)
                            ELSE Centred(s)],
                den |-> IF TooLarge THEN Clip.den * Largest
                        ELSE RawDen * Size(Eligible)]
    /\ pc' = "done"
    /\ UNCHANGED <<group, noSkill, outcome, shift>>

Next == (\E x \in Samples : Finish(x)) \/ Center \/ Regret \/ Stratify

Spec == Init /\ [][Next]_vars

----------------------------------------------------------------------------
(* Properties.                                                             *)

Behaviour(x) == IF Stratum(x) = "other" THEN 0 ELSE behaviour.num[Stratum(x)]
Present == {x \in Samples : group[x] > 0}

TypeOK ==
    /\ group \in [Samples -> 0..N] /\ Size(Samples) <= N
    /\ noSkill \in NoSkill \cup {Unpaired}
    /\ pc \in {"rollout", "center", "regret", "stratify", "done"}
    /\ outcome \in [Samples -> Int]
    /\ shift \in Int
    /\ behaviour \in [num : [Strata -> Int], den : Nat \ {0}]

\* The terms of outcome and behaviour cancel over the group, so all that
\* moves the group as a whole is its regret, which has the sign of the better
\* arm.  Shrinkage takes the strata out of balance, the weighted mean brings
\* them back, and the clip neither undoes that nor is passed by any stratum.
OnlyRegretMovesGroup ==
    /\ SumFunction([x \in Samples |-> group[x] * outcome[x]]) = 0
    /\ SumFunction([x \in Samples |-> group[x] * Behaviour(x)]) = 0
    /\ \A x \in Samples :
          Abs(Behaviour(x)) * Clip.den <= Clip.num * behaviour.den
    /\ pc = "done" /\ noSkill # Unpaired =>
          /\ shift > 0 <=> ScoreSum(Samples) > noSkill
          /\ shift < 0 <=> ScoreSum(Samples) < noSkill

\* A stratum above the average of the eligible samples is credited more than
\* one below it, however small either is, and strata that do not differ are
\* credited alike: "No class gets an unconditional reward."
BetterStratumGainsMore ==
    LET Gap(s) == Size(Eligible) * ScoreSum(In(s))
                      - Count(s) * ScoreSum(Eligible)
    IN  pc = "done" => \A s, t \in Observed : Gap(s) >= 0 /\ Gap(t) <= 0 =>
            IF Gap(s) = Gap(t) THEN behaviour.num[s] = behaviour.num[t]
                               ELSE behaviour.num[s] > behaviour.num[t]

\* The verifier decides: of two samples of a group, the one with the higher
\* score has the higher advantage, whatever the two read.  (In the unit of
\* the standard deviation: the difference of outcomes, squared, exceeds that
\* of the behaviours.)
VerifierDecides ==
    LET total == ScoreSum(Samples)
        squares == SumFunction(
                       [x \in Samples |-> group[x] * x.score * x.score])
        variance == N * squares - total * total
    IN  pc = "done" => \A x, y \in Present : x.score > y.score =>
            LET lost == Behaviour(y) - Behaviour(x)
                won == (outcome[x] - outcome[y]) \div N
            IN  /\ won > 0
                /\ lost > 0 =>
                       lost * lost * variance
                           < won * won * N * (N - 1)
                                 * behaviour.den * behaviour.den

=============================================================================
