----------------------------- MODULE MCAgentEnv -----------------------------
(* Instances of AgentEnv for TLC. *)
EXTENDS AgentEnv

CONSTANTS s1, s2, t1

OneTask == {t1}
\* Two samples of the same GRPO group.
Siblings == {s1, s2}
SameTask == [s \in Siblings |-> t1]
Single == {s1}
Other == {s2}
SingleTask == [s \in Single |-> t1]
=============================================================================
