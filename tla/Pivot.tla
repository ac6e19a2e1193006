--------------------------------- MODULE Pivot ---------------------------------
(***************************************************************************)
(* The pivot of a local controller into its cluster (cmd/root.go, copy.go, *)
(* helm.go): with a development image the binary is built and copied to    *)
(* the control plane nodes through the pods of a DaemonSet; then the chart *)
(* is installed or upgraded, and the local process ends.                   *)
(*                                                                         *)
(* Kubernetes and Helm appear as this code uses them.  Module Command      *)
(* composes these steps with the start of the command and of the pod.      *)
(***************************************************************************)
EXTENDS Integers, FiniteSets

CONSTANTS
  Servers,       \* control plane nodes
  Workers        \* worker nodes, on which the controller's pod may run too

Nodes == Servers \cup Workers

ASSUME NodeAssumption == Servers # {} /\ Servers \cap Workers = {}

VARIABLES
  pc,            \* where the local process and the pod are
  line,          \* the command line of the local process
  joined,        \* the nodes of the cluster
  binary,        \* /opt/bin/controller on each node
  daemonSet,     \* the preload-binary DaemonSet exists
  ready,         \* the nodes where its pod is ready
  targets,       \* podList: the nodes still to be copied to
  reader,        \* what is left to read of the built binary
  release,       \* the Helm release: its state and useHostBinary
  previous,      \* useHostBinary of the release before a pending upgrade
  podNode        \* the node the controller's pod is on

pivotVars == <<joined, binary, daemonSet, ready, targets, reader, release,
               previous, podNode>>

NoNode == "no node"
NoRelease == [status |-> "none", dev |-> FALSE]

PivotPoints == {"build", "deploy", "waitPods", "list", "copy", "remove", "helm", "helmWait"}

PivotTypeOK ==
  /\ joined \subseteq Nodes
  /\ binary \in [Nodes -> {"none", "broken", "whole"}]
  /\ daemonSet \in BOOLEAN
  /\ ready \subseteq Servers
  /\ targets \subseteq Servers
  /\ reader \in {"none", "whole", "end"}
  /\ release \in [status : {"none", "pending", "deployed"}, dev : BOOLEAN]
  /\ previous \in {"none", "image", "hostBinary"}
  /\ podNode \in Nodes \cup {NoNode}

PivotInit ==
  /\ joined = {}
  /\ binary = [n \in Nodes |-> "none"]
  /\ daemonSet = FALSE
  /\ ready = {}
  /\ targets = {}
  /\ reader = "none"
  /\ release = NoRelease
  /\ previous = "none"
  /\ podNode = NoNode

At(point) == pc["local"] = point
Local(from, to) == At(from) /\ pc' = [pc EXCEPT !["local"] = to]

(* RunE returns, with an error or, at the end of the pivot, without.       *)
End == pc' = [pc EXCEPT !["local"] = "down"]

----------------------------------------------------------------------------
(* The development image.                                                  *)

(* buildGoBinary, and the open file that is read by all the copies.        *)
Build ==
  /\ Local("build", "deploy")
  /\ reader' = "whole"
  /\ UNCHANGED <<line, joined, binary, daemonSet, ready, targets, release,
                 previous, podNode>>

(* Mutant: a DaemonSet that exists is used.                                 *)
ReuseDaemonSet ==
  /\ Local("deploy", "waitPods")
  /\ daemonSet' = TRUE
  /\ UNCHANGED <<line, joined, binary, ready, targets, reader, release,
                 previous, podNode>>

DeployDaemonSet ==
  /\ Local("deploy", "waitPods")
  /\ ~daemonSet
  /\ daemonSet' = TRUE
  /\ UNCHANGED <<line, joined, binary, ready, targets, reader, release,
                 previous, podNode>>

(* An earlier attempt has left it behind: it is neither used nor removed.  *)
DaemonSetTaken ==
  /\ At("deploy")
  /\ daemonSet
  /\ End
  /\ UNCHANGED <<line, pivotVars>>

Scheduled == joined \cap Servers

(* The wait has no bound: all pods of the moment are ready.                *)
WaitForPods ==
  /\ Local("waitPods", "list")
  /\ Scheduled # {} /\ Scheduled \subseteq ready
  /\ UNCHANGED <<line, pivotVars>>

ListPods ==
  /\ Local("list", "copy")
  /\ targets' = Scheduled
  /\ UNCHANGED <<line, joined, binary, daemonSet, ready, reader, release,
                 previous, podNode>>

(* The controller's pod is running the file.                               *)
Busy(n) == release.dev /\ podNode = n /\ pc["pod"] \notin {"off", "placed"}

Copied(n) == IF reader = "whole" THEN "whole" ELSE "broken"

(* Mutant: a stream that fails is skipped.                                  *)
CopyOrSkip(n) ==
  /\ At("copy")
  /\ n \in targets
  /\ \/ n \in ready /\ ~Busy(n) /\ binary' = [binary EXCEPT ![n] = Copied(n)]
     \/ binary' = [binary EXCEPT ![n] = "broken"]
  /\ reader' = "end"
  /\ targets' = targets \ {n}
  /\ pc' = [pc EXCEPT !["local"] = IF targets = {n} THEN "remove" ELSE "copy"]
  /\ UNCHANGED <<line, joined, daemonSet, ready, release, previous, podNode>>

(***************************************************************************)
(* streamToPod: cat > /host/opt/bin/controller.  All copies read the same  *)
(* open file, which the first leaves at its end.                           *)
(***************************************************************************)
Copy(n) ==
  /\ At("copy")
  /\ n \in targets
  /\ n \in ready /\ ~Busy(n)
  /\ binary' = [binary EXCEPT ![n] = Copied(n)]
  /\ reader' = "end"
  /\ targets' = targets \ {n}
  /\ pc' = [pc EXCEPT !["local"] = IF targets = {n} THEN "remove" ELSE "copy"]
  /\ UNCHANGED <<line, joined, daemonSet, ready, release, previous, podNode>>

(* A pod that does not run yet, or a file that is being executed.          *)
CopyRefused(n) ==
  /\ At("copy")
  /\ n \in targets
  /\ n \notin ready \/ Busy(n)
  /\ End
  /\ UNCHANGED <<line, pivotVars>>

RemoveDaemonSet ==
  /\ Local("remove", "helm")
  /\ daemonSet' = FALSE
  /\ ready' = {}
  /\ UNCHANGED <<line, joined, binary, targets, reader, release, previous, podNode>>

----------------------------------------------------------------------------
(* The chart.                                                              *)

(* The pod is put on any node; one that ran before is stopped.             *)
PlacePod ==
  /\ pc' = [pc EXCEPT !["local"] = "helmWait", !["pod"] = "placed"]
  /\ podNode' \in joined

(* A release with the same values leaves the pod alone.                    *)
KeepPod ==
  /\ line.dev = release.dev
  /\ pc' = [pc EXCEPT !["local"] = "helmWait"]
  /\ UNCHANGED podNode

(* The history has no release of this name: a new one is installed.        *)
Install ==
  /\ At("helm")
  /\ release.status = "none"
  /\ release' = [status |-> "pending", dev |-> line.dev]
  /\ previous' = "none"
  /\ PlacePod
  /\ UNCHANGED <<line, joined, binary, daemonSet, ready, targets, reader>>

Upgrade ==
  /\ At("helm")
  /\ release.status = "deployed"
  /\ release' = [status |-> "pending", dev |-> line.dev]
  /\ previous' = IF release.dev THEN "hostBinary" ELSE "image"
  /\ PlacePod \/ KeepPod
  /\ UNCHANGED <<line, joined, binary, daemonSet, ready, targets, reader>>

(* "another operation is in progress": a process that ended in the middle  *)
(* of its pivot has left the release so.                                   *)
ReleasePending ==
  /\ At("helm")
  /\ release.status = "pending"
  /\ End
  /\ UNCHANGED <<line, pivotVars>>

(* The container starts: with useHostBinary from the file of its node.     *)
Runnable == release.dev => binary[podNode] = "whole"

Deployed ==
  /\ At("helmWait")
  /\ pc["pod"] # "placed"
  /\ End
  /\ release' = [release EXCEPT !.status = "deployed"]
  /\ previous' = "none"
  /\ UNCHANGED <<line, joined, binary, daemonSet, ready, targets, reader, podNode>>

(* Atomic: when the wait for the chart fails, the install is undone ...    *)
Uninstall ==
  /\ At("helmWait")
  /\ previous = "none"
  /\ release' = NoRelease
  /\ podNode' = NoNode
  /\ pc' = [pc EXCEPT !["local"] = "down", !["pod"] = "off"]
  /\ UNCHANGED <<line, joined, binary, daemonSet, ready, targets, reader, previous>>

(* ... and an upgrade goes back to the release before, and its pod with it. *)
Rollback ==
  /\ At("helmWait")
  /\ previous # "none"
  /\ release' = [status |-> "deployed", dev |-> previous = "hostBinary"]
  /\ previous' = "none"
  /\ \/ /\ pc' = [pc EXCEPT !["local"] = "down", !["pod"] = "placed"]
        /\ podNode' \in joined
     \/ /\ release'.dev = release.dev
        /\ End
        /\ UNCHANGED podNode
  /\ UNCHANGED <<line, joined, binary, daemonSet, ready, targets, reader>>

Undo == Uninstall \/ Rollback

(* The pod never starts.                                                   *)
NeverReady == pc["pod"] = "placed" /\ ~Runnable /\ Undo

----------------------------------------------------------------------------
(* The cluster.                                                            *)

NodeJoins(n) ==
  /\ joined # {}
  /\ n \notin joined
  /\ joined' = joined \cup {n}
  /\ UNCHANGED <<pc, line, binary, daemonSet, ready, targets, reader, release,
                 previous, podNode>>

PreloadPodReady(n) ==
  /\ daemonSet
  /\ n \in Scheduled \ ready
  /\ ready' = ready \cup {n}
  /\ UNCHANGED <<pc, line, joined, binary, daemonSet, targets, reader, release,
                 previous, podNode>>

(* A stream breaks off in the middle of a file.                            *)
CopyBreaksOff(n) ==
  /\ At("copy")
  /\ n \in targets \cap ready
  /\ ~Busy(n)
  /\ binary' = [binary EXCEPT ![n] = "broken"]
  /\ End
  /\ UNCHANGED <<line, joined, daemonSet, ready, targets, reader, release,
                 previous, podNode>>

PivotStep ==
  \/ Build \/ DeployDaemonSet \/ DaemonSetTaken \/ WaitForPods \/ ListPods
  \/ (\E n \in Servers : Copy(n) \/ CopyRefused(n))
  \/ RemoveDaemonSet
  \/ Install \/ Upgrade \/ ReleasePending \/ Deployed \/ NeverReady

(* The nodes the copies have reached have the binary that was built.        *)
(* "LoadControllerToClusterNodes loads the controller binary to all         *)
(* control plane nodes in the cluster" (copy.go:28).                        *)
BinaryOnEveryNode ==
  At("remove") => \A n \in ready : binary[n] = "whole"

(* A chart that runs the host's binary is put in place only when a node has *)
(* it: no failed or refused copy, leftover DaemonSet or late pod lets the   *)
(* pivot go on without.                                                     *)
ChartAfterBinary ==
  At("helmWait") /\ release.dev => \E n \in Servers : binary[n] = "whole"
================================================================================
