-------------------------- MODULE RolloutContract ---------------------------
(***************************************************************************)
(* What generate() and generate_and_rm promise the trainer, whatever       *)
(* semaphores, coroutines and threads they keep the promise with.  A       *)
(* sample waits for one of EnvCap places, is graded and perhaps rejected   *)
(* inside, leaves, and then meets its fate: it is lost (the call raised),  *)
(* dropped (its group is not trained on) or trained with a grade it got.   *)
(* Its rollout may set a sandbox up even after it has left, but never more *)
(* than StartCap at a time.                                                *)
(***************************************************************************)
EXTENDS Naturals, FiniteSets

CONSTANTS Samples, Scores, EnvCap, StartCap

VARIABLES
    place,      \* of each sample: "outside", "inside", "left" or "settled"
    setUp,      \* the samples whose sandbox is being set up
    failed,     \* did a verifier failure become known to its rollout?
    rejected,   \* is it marked as not to be trained on?
    grade,      \* the last grade of its sandbox, "none" before the first
    fate        \* "open", "lost", "dropped" or the grade it is trained with

vars == <<place, setUp, failed, rejected, grade, fate>>

Inside == {s \in Samples : place[s] = "inside"}

\* A verdict on the sample counts until it leaves; after that only a sample
\* that is lost anyway may be judged.
Judgeable(s) == place[s] = "inside" \/ fate[s] = "lost"

Init ==
    /\ place = [s \in Samples |-> "outside"]
    /\ setUp = {}
    /\ failed = [s \in Samples |-> FALSE]
    /\ rejected = [s \in Samples |-> FALSE]
    /\ grade = [s \in Samples |-> "none"]
    /\ fate = [s \in Samples |-> "open"]

Enter(s) ==
    /\ place[s] = "outside"
    /\ Cardinality(Inside) < EnvCap
    /\ place' = [place EXCEPT ![s] = "inside"]
    /\ UNCHANGED <<setUp, failed, rejected, grade, fate>>

BeginSetUp(s) ==
    /\ s \notin setUp
    /\ Cardinality(setUp) < StartCap
    /\ setUp' = setUp \cup {s}
    /\ UNCHANGED <<place, failed, rejected, grade, fate>>

EndSetUp(s) ==
    /\ s \in setUp
    /\ setUp' = setUp \ {s}
    /\ UNCHANGED <<place, failed, rejected, grade, fate>>

\* A verifier run ends with a score, perhaps one that nobody awaits any more.
Grade(s) ==
    /\ \E v \in Scores : grade' = [grade EXCEPT ![s] = v]
    /\ UNCHANGED <<place, setUp, failed, rejected, fate>>

\* A verifier run fails; the sample is rejected at once or before it leaves.
Fail(s) ==
    /\ Judgeable(s)
    /\ failed' = [failed EXCEPT ![s] = TRUE]
    /\ \/ rejected' = [rejected EXCEPT ![s] = TRUE]
       \/ UNCHANGED rejected
    /\ UNCHANGED <<place, setUp, grade, fate>>

\* There is no way back from a rejection.
Reject(s) ==
    /\ Judgeable(s)
    /\ rejected' = [rejected EXCEPT ![s] = TRUE]
    /\ UNCHANGED <<place, setUp, failed, grade, fate>>

\* The call raises or is cancelled, before it has a place, or inside, where it
\* may keep its place for a while.
Lose(s) ==
    /\ place[s] \in {"outside", "inside"}
    /\ fate' = [fate EXCEPT ![s] = "lost"]
    /\ \/ place' = [place EXCEPT ![s] = "left"]
       \/ place[s] = "inside" /\ UNCHANGED place
    /\ UNCHANGED <<setUp, failed, rejected, grade>>

\* generate() returns the sample: rejected, or with a grade and no failure.
Leave(s) ==
    /\ place[s] = "inside"
    /\ fate[s] = "lost" \/ rejected[s] \/ (grade[s] # "none" /\ ~failed[s])
    /\ place' = [place EXCEPT ![s] = "left"]
    /\ UNCHANGED <<setUp, failed, rejected, grade, fate>>

\* generate_and_rm hands it to the trainer, or does not.
Settle(s) ==
    /\ place[s] = "left"
    /\ place' = [place EXCEPT ![s] = "settled"]
    /\ fate' = [fate EXCEPT ![s] = IF @ = "lost" THEN "lost"
                                   ELSE IF rejected[s] THEN "dropped" ELSE grade[s]]
    /\ UNCHANGED <<setUp, failed, rejected, grade>>

StepOf(s) ==
    \/ Enter(s) \/ BeginSetUp(s) \/ EndSetUp(s) \/ Grade(s) \/ Fail(s)
    \/ Reject(s) \/ Lose(s) \/ Leave(s) \/ Settle(s)

Next == \E s \in Samples : StepOf(s)

Spec == Init /\ [][Next]_vars
=============================================================================
