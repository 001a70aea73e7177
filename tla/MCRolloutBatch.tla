--------------------------- MODULE MCRolloutBatch ---------------------------
(***************************************************************************)
(* A rollout loop of two steps of two groups of two samples.  The rows of  *)
(* task a are its no-skill and oracle arm, those of task b its no-skill    *)
(* and slate arm.                                                          *)
(***************************************************************************)
EXTENDS RolloutBatch

TwoTaskRows == << [kind |-> "noskill", key |-> "a"],
                  [kind |-> "noskill", key |-> "b"],
                  [kind |-> "oracle", key |-> "a"],
                  [kind |-> "slate", key |-> "b"] >>

Setting(sampling, rollouts, until, async) ==
    [sampling |-> sampling, rollouts |-> rollouts, until |-> until,
     async |-> async, requeue |-> FALSE, dropAllPass |-> FALSE, waits |-> TRUE]

\* With the default of dropAllPass "grpo" keeps what "bc" keeps; the last
\* setting gives aborted groups back and does not wait for cancelled tasks.
AllSettings == {Setting("slate", 1, -1, TRUE),
                Setting("bc", 1, 0, FALSE),
                Setting("grpo", 1, -1, TRUE),
                [Setting("grpo", 1, -1, FALSE) EXCEPT !.dropAllPass = TRUE],
                Setting("opsd", 1, -1, TRUE),
                Setting("std", 1, -1, TRUE),
                [Setting("all", 2, -1, FALSE) EXCEPT !.requeue = TRUE,
                                                     !.waits = FALSE]}

\* Fully asynchronous, no filter.
OneSetting == {Setting("all", 1, -1, TRUE)}
=============================================================================
