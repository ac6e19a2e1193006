---------------------------- MODULE MCWorkerScaling ----------------------------
(* Instances of WorkerScaling for TLC.                                       *)
EXTENDS WorkerScaling

CONSTANTS c1, c2, r1, r2

OneController == {c1}
TwoControllers == {c1, c2}
OneRequest == {r1}
TwoRequests == {r1, r2}

Faults(failure, conflict, crash, loss, server) ==
  [k \in FaultKinds |->
     CASE k = "failure"  -> failure
       [] k = "conflict" -> conflict
       [] k = "crash"    -> crash
       [] k = "loss"     -> loss
       [] k = "server"   -> server]

(* Two errors, the most errCh holds, and a crash and a loss besides.        *)
TwoErrors == Faults(1, 1, 1, 1, 0)

(* Three errors, one of them the server's.                                  *)
ThreeErrors == Faults(1, 1, 1, 0, 1)

(* No call fails by itself; equal names do.                                 *)
ThreeConflicts == Faults(0, 3, 0, 0, 0)
================================================================================
