--------------------------- MODULE MCLaunchTrials ---------------------------
(* Instances of LaunchTrials for TLC. *)
EXTENDS LaunchTrials

CONSTANTS p1, p2, a1, a2, b1, c1, c2, k1, k2, k3

\* Phase 1 with two trials of one task and one Claw trial; the teacher's Phase 2
\* with a Claw trial.
BothPhases == {p1, p2}
BothTrials == {a1, a2, c1, c2}
BothOwners == [t \in BothTrials |-> IF t = c2 THEN p2 ELSE p1]
BothTasks == [t \in BothTrials |-> IF t \in {a1, a2} THEN k1
                                   ELSE IF t = c1 THEN k2 ELSE k3]
BothClaw == {c1, c2}
BothBenches == [t \in BothTrials |-> IF t \in BothClaw THEN "claw" ELSE "tb2"]

\* One launcher, killed and started again: two trials of different tasks.
OnePhase == {p1}
OneTrials == {a1, b1}
OneOwner == [t \in OneTrials |-> p1]
OneBench == [t \in OneTrials |-> "tb2"]
Cap == [b \in {"claw", "tb2"} |-> IF b = "claw" THEN 1 ELSE 2]
OneCap == [b \in {"tb2"} |-> 2]
OneTasks == [t \in OneTrials |-> IF t = b1 THEN k2 ELSE k1]
=============================================================================
