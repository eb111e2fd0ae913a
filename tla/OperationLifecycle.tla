------------------------- MODULE OperationLifecycle -------------------------
(***************************************************************************)
(* What the durable operations of GroundControl promise an agent, with     *)
(* nothing of how: an operation is queued once, is started at most once,   *)
(* causes at most one mutation and only after it was started, never starts *)
(* after it was cancelled, and keeps the verdict it settled on, across any *)
(* crash of the control plane.  AgentOperations implements this.           *)
(***************************************************************************)
EXTENDS Naturals

CONSTANT Op      (* the operations *)

VARIABLES
  status,        (* the status column of each AgentOperation row           *)
  launches       (* how many mutations have been sent for it               *)

lifecycleVars == <<status, launches>>

Settled == {"success", "failed", "cancelled", "uncertain"}
Status == {"absent", "pending", "running", "verifying"} \cup Settled

LifecycleInit ==
  /\ status = [o \in Op |-> "absent"]
  /\ launches = [o \in Op |-> 0]

Become(o, from, to) ==
  /\ status[o] \in from
  /\ status' = [status EXCEPT ![o] = to]

Queue(o) == Become(o, {"absent"}, "pending") /\ UNCHANGED launches

Start(o) == Become(o, {"pending"}, "running") /\ UNCHANGED launches

\* Revocation cancels any set of operations that have not started.
Cancel(S) ==
  /\ \A o \in S : status[o] = "pending"
  /\ status' = [o \in Op |-> IF o \in S THEN "cancelled" ELSE status[o]]
  /\ UNCHANGED launches

Mutate(o) ==
  /\ status[o] = "running"
  /\ launches[o] = 0
  /\ launches' = [launches EXCEPT ![o] = 1]
  /\ UNCHANGED status

\* The mutation goes on detached; a verdict is still to come.
Detach(o) ==
  /\ launches[o] = 1
  /\ Become(o, {"running"}, "verifying")
  /\ UNCHANGED launches

\* "success" takes a mutation; "failed" may refuse one; "uncertain" may follow
\* a crash at any point after the start.
Settle(o, verdict) ==
  /\ verdict \in {"success", "failed", "uncertain"}
  /\ verdict = "success" => launches[o] = 1
  /\ Become(o, {"running", "verifying"}, verdict)
  /\ UNCHANGED launches

LifecycleNext ==
  \/ \E o \in Op :
        \/ Queue(o)
        \/ Start(o)
        \/ Mutate(o)
        \/ Detach(o)
        \/ \E verdict \in Settled : Settle(o, verdict)
  \/ \E S \in SUBSET Op : Cancel(S)

LifecycleSpec == LifecycleInit /\ [][LifecycleNext]_lifecycleVars

=============================================================================
