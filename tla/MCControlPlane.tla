----------------------------- MODULE MCControlPlane -----------------------------
(* Instances of ControlPlane for TLC.                                        *)
EXTENDS ControlPlane

Plain == [externalIP |-> FALSE, tailscale |-> FALSE, overwrite |-> FALSE,
          defaultIsFile |-> FALSE, pivot |-> FALSE]

(* The flags' defaults: external addresses, a kubeconfig file of its own,    *)
(* and the pivot into the cluster.                                          *)
Default == [Plain EXCEPT !.externalIP = TRUE, !.pivot = TRUE]

(* The local controller stays, with the floating IP as the only way in.     *)
Staying == Plain

(* It stays, every node has its own address, and $KUBECONFIG is its file.   *)
External == [Plain EXCEPT !.externalIP = TRUE, !.defaultIsFile = TRUE]

(* Over the tailnet, then into the cluster, replacing an old kubeconfig.    *)
Tailnet == [Plain EXCEPT !.tailscale = TRUE, !.pivot = TRUE,
                         !.overwrite = TRUE, !.defaultIsFile = TRUE]

(* With these, any two flags have every combination of their values.          *)
BothAddresses == [External EXCEPT !.tailscale = TRUE, !.overwrite = TRUE,
                                  !.defaultIsFile = FALSE]
TailnetOnly == [Plain EXCEPT !.tailscale = TRUE, !.pivot = TRUE]
Replacing == [External EXCEPT !.overwrite = TRUE, !.pivot = TRUE]

PairwiseCommands ==
  {Default, Staying, External, Tailnet, BothAddresses, TailnetOnly, Replacing}
DefaultCommand == {Default}
TailnetCommand == {TailnetOnly}

Faults(failure, crash, loss) ==
  [k \in FaultKinds |->
     CASE k = "failure" -> failure
       [] k = "crash"   -> crash
       [] k = "loss"    -> loss]

NoFault == Faults(0, 0, 0)
OneLoss == Faults(0, 0, 1)
EveryFault == Faults(2, 1, 3)
================================================================================
