------------------------------ MODULE WorkerPool ------------------------------
(***************************************************************************)
(* What the worker side of the controller promises, with none of its       *)
(* steps: there is one target count, replaced as a whole by whoever sets   *)
(* it, and a pool of worker instances that grows one instance at a time    *)
(* and only while it is smaller than what its managers, who do not know of *)
(* each other, may make of the largest target ever set.                    *)
(* Instances may disappear at any time.  WorkerScaling is shown to         *)
(* implement this specification.                                           *)
(***************************************************************************)
EXTENDS Naturals

CONSTANTS
  Targets,     \* the values the target may be set to
  NoTarget,    \* no target is recorded
  Managers     \* the number of processes that make workers

VARIABLES
  target,      \* the recorded target, or NoTarget
  highest,     \* the largest target recorded so far
  pool         \* the number of worker instances

vars == <<target, highest, pool>>

Larger(m, n) == IF m >= n THEN m ELSE n

Init ==
  /\ \/ target \in Targets /\ highest = target
     \/ target = NoTarget /\ highest = 0
  /\ pool = 0

(***************************************************************************)
(* The target is an atomic register.                                       *)
(***************************************************************************)
SetTarget(n) ==
  /\ target' = n
  /\ highest' = Larger(highest, n)
  /\ UNCHANGED pool

(***************************************************************************)
(* One more worker, never beyond a pool of the largest target for each     *)
(* manager.                                                                *)
(***************************************************************************)
Grow ==
  /\ pool < Managers * highest
  /\ pool' = pool + 1
  /\ UNCHANGED <<target, highest>>

Shrink ==
  /\ pool > 0
  /\ pool' = pool - 1
  /\ UNCHANGED <<target, highest>>

Next == (\E n \in Targets : SetTarget(n)) \/ Grow \/ Shrink

Spec == Init /\ [][Next]_vars
===============================================================================
