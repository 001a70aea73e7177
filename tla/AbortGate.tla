----------------------------- MODULE AbortGate ------------------------------
(***************************************************************************)
(* What the rollout engine promises about evaluation and abort, whatever   *)
(* lock, flags and counter it keeps the promise with: the abort of a       *)
(* rollout tells every inference worker to drop all its requests, so no    *)
(* evaluation runs while it is on.  An abort closes the gate, lets the     *)
(* evaluations that run leave, aborts, and opens the gate again.           *)
(***************************************************************************)
CONSTANT Evals   \* evaluations that may be requested

VARIABLES
    phase,   \* "open"; "closed": no evaluation enters; "aborting"
    status   \* of each evaluation

vars == <<phase, status>>

TypeOK ==
    /\ phase \in {"open", "closed", "aborting"}
    /\ status \in [Evals -> {"off", "waiting", "running", "over"}]

Running == {e \in Evals : status[e] = "running"}

Init ==
    /\ phase = "open"
    /\ status = [e \in Evals |-> "off"]

Ask(e) ==
    /\ status[e] = "off"
    /\ status' = [status EXCEPT ![e] = "waiting"]
    /\ UNCHANGED phase

Enter(e) ==
    /\ phase = "open"
    /\ status[e] = "waiting"
    /\ status' = [status EXCEPT ![e] = "running"]
    /\ UNCHANGED phase

Leave(e) ==
    /\ status[e] = "running"
    /\ status' = [status EXCEPT ![e] = "over"]
    /\ UNCHANGED phase

Close ==
    /\ phase = "open"
    /\ phase' = "closed"
    /\ UNCHANGED status

Abort ==
    /\ phase = "closed"
    /\ Running = {}
    /\ phase' = "aborting"
    /\ UNCHANGED status

Reopen ==
    /\ phase = "aborting"
    /\ phase' = "open"
    /\ UNCHANGED status

Next ==
    \/ \E e \in Evals : Ask(e) \/ Enter(e) \/ Leave(e)
    \/ Close
    \/ Abort
    \/ Reopen

Spec == Init /\ [][Next]_vars
=============================================================================
