----------------------------- MODULE Command_proofs -----------------------------
(***************************************************************************)
(* Proofs about modules Pivot and Command, for any nodes, settings and     *)
(* command lines and any number of faults and repetitions.                 *)
(***************************************************************************)
EXTENDS Command, FiniteSetTheorems, TLAPS

USE NodeAssumption, SpecAssumption, ScenarioAssumption

----------------------------------------------------------------------------
(* The inductive invariants.                                               *)

Points ==
  {"down", "off", "placed", "secret", "merge", "execute", "save", "loop"}
    \cup PivotPoints

(* A process that runs Execute has complete settings, and so has a cluster. *)
Complete(c) == c.spec # Unset

Settled(p) == pc[p] \in {"execute", "save", "loop"} => Complete(config[p])
Read(p) == pc[p] = "merge" => config[p] = NoConfig \/ Complete(config[p])

Basics ==
  /\ TypeOK
  /\ \A p \in Processes : Settled(p) /\ Read(p)
  /\ Cluster => Complete(stored)
  /\ pc["local"] \in {"save"} \cup PivotPoints => Cluster
  /\ pc["pod"] # "off" => Cluster
  /\ Cluster => joined # {}

(* The pod reads the stored settings and merges nothing into them.         *)
PodHasStored ==
  pc["pod"] \in {"merge", "execute", "loop"} => config["pod"] = stored

(* The settings that reach a node.                                         *)
SettingsOf(c) == [spec |-> c.spec, nodeKey |-> c.nodeKey]

(* A local process without the settings of the cluster cannot reach it.     *)
Apart(place) == ~kubeFile \/ stored.place # place

LocalSettings ==
  Cluster /\ ~altered =>
    /\ pc["local"] \in {"secret", "merge"} =>
         line.spec = Unset /\ ~line.key /\ ~line.tag
    /\ pc["local"] = "merge" =>
         config["local"] = stored \/ (config["local"] = NoConfig /\ Apart(line.place))
    /\ pc["local"] \in {"execute", "loop"} =>
         \/ SettingsOf(config["local"]) = SettingsOf(stored)
         \/ Apart(config["local"].place)

Alike ==
  /\ ~Cluster => built = {}
  /\ pc["local"] = "save" => config["local"] = stored
  /\ LocalSettings
  /\ Cluster /\ ~altered => built \subseteq {SettingsOf(stored)}

(* The first copy of a preload is whole, and nothing overwrites it.         *)
SomeWhole(S) == \E n \in S : binary[n] = "whole"

Preloaded ==
  /\ pc["local"] \in {"deploy", "waitPods", "list"} => reader = "whole"
  /\ pc["local"] = "list" => Scheduled # {}
  /\ pc["local"] = "copy" =>
       (reader = "whole" /\ targets # {}) \/ SomeWhole(Servers \ targets)
  /\ pc["local"] = "remove" \/ (pc["local"] = "helm" /\ line.dev) => SomeWhole(Servers)
  /\ ChartAfterBinary

----------------------------------------------------------------------------
(* The operators the actions share.                                        *)

LEMMA TwoProcesses == Processes = {"local", "pod"}
  BY DEF Processes

LEMMA GotoPoint ==
  ASSUME TypeOK, NEW p \in Processes, NEW from, NEW to \in Points, Goto(p, from, to)
  PROVE  /\ pc' \in [Processes -> Points]
         /\ pc[p] = from /\ pc'[p] = to
         /\ \A q \in Processes : q # p => pc'[q] = pc[q]
  BY DEF TypeOK, Points, Goto

LEMMA ExitPoint ==
  ASSUME TypeOK, NEW p \in Processes, Exit(p)
  PROVE  /\ pc' \in [Processes -> Points]
         /\ pc'[p] = IF p = "pod" THEN "placed" ELSE "down"
         /\ \A q \in Processes : q # p => pc'[q] = pc[q]
  BY DEF TypeOK, Points, Exit

LEMMA ChargeType ==
  ASSUME TypeOK, NEW k \in FaultKinds, Charge(k)
  PROVE  faults' \in [FaultKinds -> Nat]
  BY DEF TypeOK, Charge

LEMMA LocalPoint ==
  ASSUME TypeOK, NEW from, NEW to \in Points, Local(from, to)
  PROVE  /\ pc' \in [Processes -> Points]
         /\ pc["local"] = from /\ pc'["local"] = to /\ pc'["pod"] = pc["pod"]
  BY DEF TypeOK, Points, Local, At, Processes

LEMMA EndPoint ==
  ASSUME TypeOK, End
  PROVE  /\ pc' \in [Processes -> Points]
         /\ pc'["local"] = "down" /\ pc'["pod"] = pc["pod"]
  BY DEF TypeOK, Points, End, Processes

LEMMA CommandLines ==
  ASSUME TypeOK, NEW p \in Processes
  PROVE  Flags(p) \in Lines /\ scenario.lines \subseteq Lines /\ PodLine \in Lines
<1>1. PodLine \in Lines
  BY DEF PodLine, Lines
<1>2. scenario.lines \subseteq Lines
  BY DEF TypeOK
<1>. QED
  BY <1>1, <1>2 DEF Flags, TypeOK

----------------------------------------------------------------------------
(* The steps of the pivot.                                                 *)

(* Where the pivot takes the two processes.                                *)
PivotMoves ==
  /\ pc' \in [Processes -> Points]
  /\ pc["local"] \in PivotPoints
  /\ pc'["local"] \in PivotPoints \cup {"down"}
  /\ pc'["pod"] \in {pc["pod"], "placed", "off"}
  /\ UNCHANGED <<line, joined>>
  /\ PivotTypeOK'

LEMMA UndoMoves ==
  ASSUME TypeOK, Undo
  PROVE  /\ PivotMoves
         /\ pc["local"] = "helmWait" /\ pc'["local"] = "down"
         /\ UNCHANGED <<line, joined, binary, daemonSet>>
<1>. USE DEF PivotTypeOK, PivotMoves, pivotVars
<1>0. PivotTypeOK /\ PivotPoints \subseteq Points
  BY DEF TypeOK, Points
<1>1. CASE Uninstall
  <2>1. NoRelease \in [status : {"none", "pending", "deployed"}, dev : BOOLEAN]
    BY DEF NoRelease
  <2>2. pc' \in [Processes -> Points] /\ pc'["local"] = "down" /\ pc'["pod"] = "off"
    BY <1>1 DEF Uninstall, TypeOK, Points, Processes
  <2>. QED
    BY <1>0, <1>1, <2>1, <2>2 DEF Uninstall, At, PivotPoints
<1>2. CASE Rollback
  <2>1. release' \in [status : {"none", "pending", "deployed"}, dev : BOOLEAN]
    BY <1>2 DEF Rollback
  <2>2. podNode' \in Nodes \cup {NoNode}
    BY <1>0, <1>2 DEF Rollback
  <2>3. /\ pc' \in [Processes -> Points]
        /\ pc'["local"] = "down" /\ pc'["pod"] \in {pc["pod"], "placed"}
    BY <1>2, EndPoint DEF Rollback, TypeOK, Points, Processes
  <2>. QED
    BY <1>0, <1>2, <2>1, <2>2, <2>3 DEF Rollback, At, PivotPoints
<1>. QED
  BY <1>1, <1>2 DEF Undo

LEMMA PivotStepMoves == TypeOK /\ PivotStep => PivotMoves
<1>. SUFFICES ASSUME TypeOK, PivotStep PROVE PivotMoves
  OBVIOUS
<1>. USE DEF PivotTypeOK, PivotMoves, pivotVars
<1>0. PivotTypeOK /\ PivotPoints \subseteq Points /\ Servers \subseteq Nodes
  BY DEF TypeOK, Points, Nodes
<1>1. CASE Build \/ DeployDaemonSet
  BY <1>0, <1>1, LocalPoint DEF Build, DeployDaemonSet, PivotPoints
<1>2. CASE WaitForPods \/ ListPods \/ RemoveDaemonSet
  BY <1>0, <1>2, LocalPoint DEF WaitForPods, ListPods, RemoveDaemonSet, PivotPoints, Scheduled
<1>3. CASE DaemonSetTaken \/ ReleasePending
  BY <1>0, <1>3, EndPoint DEF DaemonSetTaken, ReleasePending, PivotPoints, At
<1>4. ASSUME NEW n \in Servers, Copy(n)
      PROVE  PivotMoves
  <2>1. pc' \in [Processes -> Points] /\ pc'["pod"] = pc["pod"]
        /\ pc'["local"] \in {"copy", "remove"}
    BY <1>4 DEF Copy, TypeOK, Points, PivotPoints, Processes
  <2>2. binary' \in [Nodes -> {"none", "broken", "whole"}]
    BY <1>0, <1>4 DEF Copy, Copied
  <2>. QED
    BY <1>0, <1>4, <2>1, <2>2 DEF Copy, At, PivotPoints
<1>5. ASSUME NEW n \in Servers, CopyRefused(n)
      PROVE  PivotMoves
  BY <1>0, <1>5, EndPoint DEF CopyRefused, PivotPoints, At
<1>6. ASSUME PlacePod \/ KeepPod
      PROVE  /\ pc' \in [Processes -> Points]
             /\ pc'["local"] = "helmWait" /\ pc'["pod"] \in {pc["pod"], "placed"}
             /\ podNode' \in Nodes \cup {NoNode}
  BY <1>0, <1>6 DEF PlacePod, KeepPod, TypeOK, Points, PivotPoints, Processes
<1>7. CASE Install \/ Upgrade
  <2>1. release' \in [status : {"none", "pending", "deployed"}, dev : BOOLEAN]
    <3>1. line.dev \in BOOLEAN
      BY DEF TypeOK, Lines
    <3>. QED
      BY <1>7, <3>1 DEF Install, Upgrade
  <2>2. previous' \in {"none", "image", "hostBinary"}
    BY <1>7 DEF Install, Upgrade
  <2>. QED
    BY <1>0, <1>6, <1>7, <2>1, <2>2 DEF Install, Upgrade, At, PivotPoints
<1>8. CASE Deployed
  <2>1. release' \in [status : {"none", "pending", "deployed"}, dev : BOOLEAN]
    BY <1>0, <1>8 DEF Deployed
  <2>. QED
    BY <1>0, <1>8, <2>1, EndPoint DEF Deployed, At, PivotPoints
<1>9. CASE NeverReady
  BY <1>9, UndoMoves DEF NeverReady
<1>. QED
  BY <1>1, <1>2, <1>3, <1>4, <1>5, <1>7, <1>8, <1>9 DEF PivotStep

----------------------------------------------------------------------------
(* The basic invariant.                                                    *)

LEMMA ConfigTypes ==
  ASSUME TypeOK, NEW p \in Processes
  PROVE  /\ NoConfig \in Configs /\ NoConfig.spec = Unset
         /\ Accepted(p) => Fresh(p) \in Configs /\ Complete(Fresh(p))
         /\ Accepted(p) => Merged(p) \in Configs
         /\ Complete(config[p]) => Complete(Merged(p))
<1>. DEFINE f == Flags(p)
<1>1. NoConfig \in Configs /\ NoConfig.spec = Unset
  BY DEF NoConfig, Configs, Tokens
<1>2. f \in Lines /\ config[p] \in Configs
  BY CommandLines DEF TypeOK
<1>3. Credentials(p) \in Tokens
  <2>1. config[p].token \in Tokens
    BY <1>2 DEF Configs
  <2>. QED
    BY <2>1 DEF Credentials, Tokens
<1>4. Fresh(p) \in Configs /\ Complete(Fresh(p))
  BY <1>2, <1>3 DEF Fresh, Configs, Lines, Complete
<1>5. Merged(p) \in Configs
  <2>1. /\ f.spec \in Specs \cup {Unset} /\ f.place \in {"default", "other"}
        /\ f.service \in {"default", "other"}
        /\ f.key \in BOOLEAN /\ f.tag \in BOOLEAN
    BY <1>2 DEF Lines
  <2>2. /\ config[p].spec \in Specs \cup {Unset} /\ config[p].place \in {"default", "other"}
        /\ config[p].service \in {"default", "other"}
        /\ config[p].key \in BOOLEAN /\ config[p].nodeKey \in BOOLEAN
    BY <1>2 DEF Configs
  <2>3. (f.key \/ config[p].key) \in BOOLEAN
    BY <2>1, <2>2
  <2>4. (IF f.tag THEN f.key ELSE config[p].nodeKey) \in BOOLEAN
    BY <2>1, <2>2
  <2>. QED
    BY <1>2, <1>3, <2>1, <2>2, <2>3, <2>4 DEF Merged, Configs
<1>6. Complete(config[p]) => Complete(Merged(p))
  BY <1>2 DEF Merged, Complete, Configs
<1>. QED
  BY <1>1, <1>4, <1>5, <1>6

LEMMA BasicsInit == Init => Basics
<1>. SUFFICES ASSUME Init PROVE Basics
  OBVIOUS
<1>1. NoConfig \in Configs
  BY DEF NoConfig, Configs, Tokens
<1>2. PodLine \in Lines
  BY DEF PodLine, Lines
<1>3. PivotTypeOK
  BY DEF Init, PivotInit, PivotTypeOK, NoRelease
<1>4. TypeOK
  BY <1>1, <1>2, <1>3 DEF Init, TypeOK, FaultKinds
<1>5. pc["local"] = "down" /\ pc["pod"] = "off"
  BY DEF Init, Processes
<1>6. ~Cluster
  BY DEF Init, Cluster
<1>. QED
  BY <1>4, <1>5, <1>6, TwoProcesses DEF Basics, Settled, Read, PivotPoints

(* A process that ends, whatever the reason, changes nothing else.         *)
LEMMA BasicsExit ==
  ASSUME Basics, NEW p \in Processes, Exit(p), p = "pod" => pc[p] # "off",
         UNCHANGED <<line, pivotVars, commandVars>>,
         faults' \in [FaultKinds -> Nat]
  PROVE  Basics'
<1>. USE DEF Basics, commandVars, pivotVars
<1>1. /\ pc' \in [Processes -> Points]
      /\ pc'[p] = IF p = "pod" THEN "placed" ELSE "down"
      /\ \A q \in Processes : q # p => pc'[q] = pc[q]
  BY ExitPoint
<1>2. TypeOK'
  BY <1>1 DEF TypeOK, PivotTypeOK, Points
<1>3. (Cluster' <=> Cluster) /\ stored' = stored /\ joined' = joined
  BY DEF Cluster
<1>4. \A q \in Processes : Settled(q)' /\ Read(q)'
  BY <1>1 DEF Settled, Read
<1>5. pc'["local"] \in {pc["local"], "down"} /\ (pc'["pod"] # "off" => pc["pod"] # "off")
  BY <1>1, TwoProcesses
<1>. QED
  BY <1>2, <1>3, <1>4, <1>5 DEF PivotPoints

LEMMA LaunchKeepsBasics ==
  ASSUME Basics, NEW l \in Lines, Launch(l), faults' \in [FaultKinds -> Nat]
  PROVE  Basics'
<1>. USE DEF Basics, pivotVars
<1>1. /\ pc' \in [Processes -> Points]
      /\ pc'["local"] = "secret" /\ pc'["pod"] = pc["pod"]
  BY GotoPoint, TwoProcesses DEF Launch, Points
<1>2. NoConfig \in Configs /\ config["local"] \in Configs
  BY ConfigTypes, TwoProcesses DEF TypeOK
<1>3. /\ config' \in [Processes -> Configs]
      /\ config'["pod"] = config["pod"]
  BY <1>2, TwoProcesses DEF Launch, TypeOK
<1>4. altered' \in BOOLEAN
  BY DEF Launch, TypeOK, Alters, Lines
<1>5. TypeOK'
  BY <1>1, <1>3, <1>4 DEF Launch, TypeOK, PivotTypeOK, Points
<1>6. \A q \in Processes : Settled(q)' /\ Read(q)'
  BY <1>1, <1>3, TwoProcesses DEF Settled, Read
<1>. QED
  BY <1>1, <1>5, <1>6 DEF Launch, Cluster, PivotPoints

LEMMA BasicsOfStep ==
  ASSUME Basics, NEW p \in Processes, Step(p)
  PROVE  Basics'
<1>. USE DEF Basics, pivotVars
<1>0. faults \in [FaultKinds -> Nat]
  BY DEF TypeOK
<1>1. CASE ReadSecret(p)
  <2>1. /\ pc' \in [Processes -> Points] /\ pc[p] = "secret" /\ pc'[p] = "merge"
        /\ \A q \in Processes : q # p => pc'[q] = pc[q]
    BY <1>1, GotoPoint DEF ReadSecret, Points
  <2>2. NoConfig \in Configs /\ stored \in Configs
    BY ConfigTypes DEF TypeOK
  <2>3. /\ config' \in [Processes -> Configs]
        /\ config'[p] \in {NoConfig, stored}
        /\ \A q \in Processes : q # p => config'[q] = config[q]
    BY <1>1, <2>2 DEF ReadSecret, TypeOK
  <2>4. TypeOK'
    BY <1>1, <2>1, <2>3 DEF ReadSecret, TypeOK, PivotTypeOK, Points
  <2>5. Cluster' = Cluster /\ stored' = stored /\ joined' = joined
    BY <1>1 DEF ReadSecret, Cluster
  <2>6. stored = NoConfig \/ Complete(stored)
    BY DEF Cluster
  <2>7. \A q \in Processes : Settled(q)' /\ Read(q)'
    BY <2>1, <2>3, <2>6 DEF Settled, Read
  <2>8. pc["pod"] # "off" <=> pc'["pod"] # "off"
    BY <2>1, TwoProcesses
  <2>9. pc'["local"] \in {pc["local"], "merge"}
    BY <2>1, TwoProcesses
  <2>. QED
    BY <2>4, <2>5, <2>7, <2>8, <2>9 DEF PivotPoints
<1>2. CASE Merge(p)
  <2>1. /\ pc' \in [Processes -> Points] /\ pc[p] = "merge" /\ pc'[p] = "execute"
        /\ \A q \in Processes : q # p => pc'[q] = pc[q]
    BY <1>2, GotoPoint DEF Merge, Points
  <2>2. config[p] = NoConfig \/ Complete(config[p])
    BY <2>1 DEF Read
  <2>3. /\ config' \in [Processes -> Configs]
        /\ Complete(config'[p])
        /\ \A q \in Processes : q # p => config'[q] = config[q]
    BY <1>2, <2>2, ConfigTypes DEF Merge, TypeOK
  <2>4. TypeOK'
    BY <1>2, <2>1, <2>3 DEF Merge, TypeOK, PivotTypeOK, Points
  <2>5. Cluster' = Cluster /\ stored' = stored /\ joined' = joined
    BY <1>2 DEF Merge, Cluster
  <2>6. \A q \in Processes : Settled(q)' /\ Read(q)'
    BY <2>1, <2>3 DEF Settled, Read
  <2>7. pc["pod"] # "off" <=> pc'["pod"] # "off"
    BY <2>1, TwoProcesses
  <2>8. pc'["local"] \in {pc["local"], "execute"}
    BY <2>1, TwoProcesses
  <2>. QED
    BY <2>4, <2>5, <2>6, <2>7, <2>8 DEF PivotPoints
<1>3. CASE MergeRefused(p) \/ ClusterOutOfReach(p)
  <2>1. Exit(p) /\ pc[p] # "off" /\ UNCHANGED <<line, pivotVars, commandVars, faults>>
    BY <1>3 DEF MergeRefused, ClusterOutOfReach, commandVars
  <2>. QED
    BY <1>0, <2>1, BasicsExit DEF commandVars
<1>4. CASE KeepCluster(p)
  <2>1. AfterExecute(p) \in {"build", "helm", "loop"}
    BY DEF AfterExecute
  <2>2. /\ pc' \in [Processes -> Points] /\ pc[p] \in {"execute", "loop"}
        /\ pc'[p] \in {"build", "helm", "loop"}
        /\ \A q \in Processes : q # p => pc'[q] = pc[q]
    <3>1. CASE Goto(p, "execute", AfterExecute(p))
      BY <2>1, <3>1, GotoPoint DEF Points, PivotPoints
    <3>2. CASE Goto(p, "loop", "loop")
      BY <3>2, GotoPoint DEF Points
    <3>. QED
      BY <1>4, <3>1, <3>2 DEF KeepCluster
  <2>3. config[p] \in Configs /\ Complete(config[p])
    BY <2>2 DEF Settled, TypeOK
  <2>4. built' \subseteq [spec : Specs, nodeKey : BOOLEAN]
    BY <1>4, <2>3 DEF KeepCluster, NodeSettings, Configs, Complete, TypeOK
  <2>5. TypeOK'
    BY <1>4, <2>2, <2>4 DEF KeepCluster, TypeOK, PivotTypeOK, Points
  <2>6. Cluster /\ stored' = stored /\ joined' = joined /\ config' = config
    BY <1>4 DEF KeepCluster
  <2>7. \A q \in Processes : Settled(q)' /\ Read(q)'
    BY <2>2, <2>3, <2>6 DEF Settled, Read
  <2>. QED
    BY <2>5, <2>6, <2>7 DEF Cluster
<1>. QED
  BY <1>1, <1>2, <1>3, <1>4 DEF Step

LEMMA BasicsOfPivot ==
  ASSUME Basics, PivotMoves, UNCHANGED commandVars, faults' \in [FaultKinds -> Nat]
  PROVE  Basics'
<1>. USE DEF Basics
<1>1. TypeOK'
  BY DEF TypeOK, PivotMoves, Points, commandVars
<1>2. Cluster /\ stored' = stored /\ joined' = joined /\ config' = config
  BY DEF PivotMoves, commandVars
<1>3. \A q \in Processes : Settled(q)' /\ Read(q)'
  BY <1>2, TwoProcesses DEF Settled, Read, PivotMoves, PivotPoints
<1>. QED
  BY <1>1, <1>2, <1>3 DEF Cluster

LEMMA BasicsLocal == Basics /\ LocalStep => Basics'
<1>. SUFFICES ASSUME Basics, LocalStep PROVE Basics'
  OBVIOUS
<1>. USE DEF Basics, pivotVars
<1>0. TypeOK /\ "local" \in Processes /\ "pod" \in Processes
  BY TwoProcesses
<1>1. ASSUME NEW l \in Lines, Launch(l), faults' \in [FaultKinds -> Nat]
      PROVE  Basics'
  BY <1>0, <1>1, LaunchKeepsBasics
<1>2. CASE Run
  BY <1>0, <1>1, <1>2, CommandLines DEF Run, TypeOK
<1>3. CASE Step("local")
  BY <1>0, <1>3, BasicsOfStep
<1>4. CASE MakeCluster
  <2>1. /\ pc' \in [Processes -> Points] /\ pc["local"] = "execute"
        /\ pc'["local"] = "save" /\ pc'["pod"] = pc["pod"]
    BY <1>0, <1>4, GotoPoint DEF MakeCluster, Points
  <2>2. Complete(config["local"]) /\ config["local"] \in Configs
    BY <1>0, <2>1 DEF Settled, TypeOK
  <2>3. stored' = config["local"] /\ config' = config /\ Cluster'
    BY <1>4, <2>2 DEF MakeCluster, Cluster, Complete, NoConfig
  <2>4. built' \subseteq [spec : Specs, nodeKey : BOOLEAN]
    BY <1>4, <2>2 DEF MakeCluster, NodeSettings, Complete, Configs
  <2>5. joined' \subseteq Nodes /\ joined' # {}
    BY <1>4 DEF MakeCluster, Nodes
  <2>6. TypeOK'
    BY <1>4, <2>1, <2>2, <2>3, <2>4, <2>5 DEF MakeCluster, TypeOK, PivotTypeOK, Points
  <2>7. \A q \in Processes : Settled(q)' /\ Read(q)'
    BY <2>1, <2>2, <2>3, TwoProcesses DEF Settled, Read
  <2>. QED
    BY <2>2, <2>3, <2>5, <2>6, <2>7
<1>5. CASE SaveKubeconfig
  <2>1. AfterExecute("local") \in {"build", "helm", "loop"}
    BY DEF AfterExecute
  <2>2. /\ pc' \in [Processes -> Points] /\ pc["local"] = "save"
        /\ pc'["local"] \in {"build", "helm", "loop"} /\ pc'["pod"] = pc["pod"]
    BY <1>0, <1>5, <2>1, GotoPoint DEF SaveKubeconfig, Points, PivotPoints
  <2>3. TypeOK'
    BY <1>5, <2>2 DEF SaveKubeconfig, TypeOK, PivotTypeOK, Points
  <2>4. \A q \in Processes : Settled(q)' /\ Read(q)'
    BY <1>5, <2>2, TwoProcesses DEF SaveKubeconfig, Settled, Read
  <2>. QED
    BY <1>5, <2>2, <2>3, <2>4 DEF SaveKubeconfig, Cluster
<1>6. CASE PivotStep /\ UNCHANGED <<commandVars, faults>>
  BY <1>0, <1>6, PivotStepMoves, BasicsOfPivot DEF TypeOK
<1>. QED
  BY <1>2, <1>3, <1>4, <1>5, <1>6 DEF LocalStep

LEMMA BasicsStep == Basics /\ [Next]_vars => Basics'
<1>. SUFFICES ASSUME Basics, [Next]_vars PROVE Basics'
  OBVIOUS
<1>. USE DEF Basics, pivotVars
<1>0. TypeOK /\ "local" \in Processes /\ "pod" \in Processes
      /\ faults \in [FaultKinds -> Nat] /\ "failure" \in FaultKinds
      /\ "crash" \in FaultKinds /\ "rerun" \in FaultKinds
  BY TwoProcesses DEF TypeOK, FaultKinds
<1>1. CASE LocalStep
  BY <1>1, BasicsLocal
<1>2. CASE PodStarts
  <2>1. /\ pc' \in [Processes -> Points] /\ pc["pod"] = "placed"
        /\ pc'["pod"] = "secret" /\ pc'["local"] = pc["local"]
    BY <1>0, <1>2, GotoPoint DEF PodStarts, Points
  <2>2. config' \in [Processes -> Configs] /\ config'["local"] = config["local"]
    BY <1>0, <1>2, ConfigTypes DEF PodStarts, TypeOK
  <2>3. TypeOK'
    BY <1>2, <2>1, <2>2 DEF PodStarts, TypeOK, PivotTypeOK, Points
  <2>4. \A q \in Processes : Settled(q)' /\ Read(q)'
    BY <2>1, <2>2, TwoProcesses DEF Settled, Read
  <2>. QED
    BY <1>2, <2>1, <2>3, <2>4 DEF PodStarts, Cluster
<1>3. CASE Step("pod")
  BY <1>0, <1>3, BasicsOfStep
<1>4. CASE SecretMissing
  BY <1>0, <1>4, BasicsExit DEF SecretMissing, commandVars
<1>5. ASSUME NEW n \in Nodes, NodeStep(n)
      PROVE  Basics'
  <2>1. /\ UNCHANGED <<pc, line, commandVars, faults>>
        /\ PivotTypeOK' /\ (joined # {} => joined' # {})
    BY <1>0, <1>5
       DEF NodeStep, NodeJoins, PreloadPodReady, Scheduled, TypeOK, PivotTypeOK
  <2>2. TypeOK'
    BY <1>0, <2>1 DEF TypeOK, commandVars
  <2>. QED
    BY <2>1, <2>2 DEF commandVars, Cluster, Settled, Read
<1>6. CASE RunAgain
  <2>1. faults' \in [FaultKinds -> Nat] /\ \E l \in Lines : Launch(l)
    BY <1>0, <1>6, ChargeType, CommandLines DEF RunAgain
  <2>. QED
    BY <2>1, LaunchKeepsBasics
<1>7. CASE SecretUnread
  <2>1. /\ pc' \in [Processes -> Points] /\ pc["local"] = "secret"
        /\ pc'["local"] = "merge" /\ pc'["pod"] = pc["pod"]
    BY <1>0, <1>7, GotoPoint DEF SecretUnread, Points
  <2>2. /\ config' \in [Processes -> Configs]
        /\ config'["local"] = NoConfig /\ config'["pod"] = config["pod"]
    BY <1>0, <1>7, ConfigTypes DEF SecretUnread, TypeOK
  <2>3. faults' \in [FaultKinds -> Nat]
    BY <1>0, <1>7, ChargeType DEF SecretUnread
  <2>4. TypeOK'
    BY <1>7, <2>1, <2>2, <2>3 DEF SecretUnread, TypeOK, PivotTypeOK, Points
  <2>5. \A q \in Processes : Settled(q)' /\ Read(q)'
    BY <2>1, <2>2, TwoProcesses DEF Settled, Read
  <2>. QED
    BY <1>7, <2>1, <2>4, <2>5 DEF SecretUnread, Cluster, PivotPoints
<1>8. ASSUME NEW n \in Servers, Break(n)
      PROVE  Basics'
  <2>1. /\ pc' \in [Processes -> Points]
        /\ pc'["local"] = "down" /\ pc'["pod"] = pc["pod"]
    BY <1>0, <1>8, EndPoint DEF Break, CopyBreaksOff
  <2>2. faults' \in [FaultKinds -> Nat]
    BY <1>0, <1>8, ChargeType DEF Break
  <2>3. PivotTypeOK' /\ UNCHANGED <<line, joined, commandVars>>
    BY <1>0, <1>8 DEF Break, CopyBreaksOff, TypeOK, PivotTypeOK
  <2>4. TypeOK'
    BY <1>0, <2>1, <2>2, <2>3 DEF TypeOK, commandVars, Points
  <2>5. \A q \in Processes : Settled(q)' /\ Read(q)'
    BY <2>1, <2>3, TwoProcesses DEF Settled, Read, commandVars
  <2>. QED
    BY <2>1, <2>3, <2>4, <2>5 DEF commandVars, Cluster, PivotPoints
<1>9. ASSUME NEW p \in Processes, Fail(p) \/ Crash(p)
      PROVE  Basics'
  <2>1. Exit(p) /\ pc[p] # "off" /\ UNCHANGED <<line, pivotVars, commandVars>>
    BY <1>9 DEF Fail, Crash, PivotPoints
  <2>2. faults' \in [FaultKinds -> Nat]
    BY <1>0, <1>9, ChargeType DEF Fail, Crash
  <2>. QED
    BY <2>1, <2>2, BasicsExit
<1>10. CASE ChartFails
  <2>1. PivotMoves /\ UNCHANGED commandVars
    BY <1>0, <1>10, UndoMoves DEF ChartFails
  <2>2. faults' \in [FaultKinds -> Nat]
    BY <1>0, <1>10, ChargeType DEF ChartFails
  <2>. QED
    BY <2>1, <2>2, BasicsOfPivot
<1>11. CASE UNCHANGED vars
  BY <1>11 DEF vars, TypeOK, PivotTypeOK, Cluster, Settled, Read
<1>. QED
  BY <1>1, <1>2, <1>3, <1>4, <1>5, <1>6, <1>7, <1>8, <1>9, <1>10, <1>11
     DEF Next, PodStep

LEMMA BasicsAlways == Spec => []Basics
  BY BasicsInit, BasicsStep, PTL DEF Spec

(* Every variable keeps its type, for any command lines, nodes and faults.  *)
THEOREM CommandTypeCorrect == Spec => []TypeOK
<1>1. Basics => TypeOK
  BY DEF Basics
<1>. QED
  BY <1>1, BasicsAlways, PTL

----------------------------------------------------------------------------
(* The pod.                                                                *)

LEMMA PodMergesNothing ==
  ASSUME TypeOK, Accepted("pod"), config["pod"] = stored, Complete(stored)
  PROVE  Merged("pod") = config["pod"] /\ config["pod"] # NoConfig
<1>. DEFINE c == config["pod"]
<1>1. Flags("pod") = PodLine /\ config["pod"] \in Configs
  BY TwoProcesses DEF Flags, TypeOK
<1>2. Credentials("pod") = config["pod"].token
  BY <1>1 DEF Credentials, Accepted, PodLine, HasProfile
<1>3. config["pod"].key \in BOOLEAN /\ config["pod"].nodeKey \in BOOLEAN
  BY <1>1 DEF Configs
<1>4. (FALSE \/ config["pod"].key) = config["pod"].key
  BY <1>3
<1>5. Merged("pod") = [c EXCEPT !.spec = c.spec, !.place = c.place,
                                !.service = c.service, !.token = c.token,
                                !.key = c.key, !.nodeKey = c.nodeKey]
  <2>1. /\ Flags("pod").spec = Unset /\ Flags("pod").place # "other"
        /\ Flags("pod").service # "other"
        /\ Flags("pod").key = FALSE /\ Flags("pod").tag = FALSE
    BY <1>1 DEF PodLine
  <2>2. (Flags("pod").key \/ c.key) = c.key
    BY <2>1, <1>4
  <2>. QED
    BY <1>2, <2>1, <2>2 DEF Merged
<1>6. c \in Configs
  BY <1>1
<1>7. [c EXCEPT !.spec = c.spec, !.place = c.place, !.service = c.service,
                !.token = c.token, !.key = c.key, !.nodeKey = c.nodeKey] = c
  <2>. HIDE DEF c
  <2>. QED
    BY <1>6 DEF Configs
<1>8. Merged("pod") = config["pod"]
  BY <1>5, <1>7
<1>. QED
  BY <1>8 DEF Complete, NoConfig

LEMMA PodHasStoredStep == Basics /\ PodHasStored /\ [Next]_vars => PodHasStored'
<1>. SUFFICES ASSUME Basics, PodHasStored, [Next]_vars PROVE PodHasStored'
  OBVIOUS
<1>. USE DEF PodHasStored
<1>0. TypeOK /\ "local" \in Processes /\ "pod" \in Processes
  BY TwoProcesses DEF Basics
<1>1. ASSUME UNCHANGED stored, config'["pod"] = config["pod"],
             pc'["pod"] \in {pc["pod"], "placed", "off"}
      PROVE  PodHasStored'
  BY <1>1
<1>2. ASSUME NEW p \in Processes, Exit(p), UNCHANGED <<stored, config>>
      PROVE  PodHasStored'
  BY <1>0, <1>1, <1>2, ExitPoint
<1>3. ASSUME NEW l, Launch(l)
      PROVE  PodHasStored'
  BY <1>0, <1>1, <1>3, GotoPoint DEF Launch, TypeOK, Points
<1>4. CASE Run \/ RunAgain
  BY <1>3, <1>4 DEF Run, RunAgain
<1>5. CASE Step("local")
  <2>1. CASE ReadSecret("local")
    BY <1>0, <1>1, <2>1, GotoPoint DEF ReadSecret, TypeOK, Points
  <2>2. CASE Merge("local")
    BY <1>0, <1>1, <2>2, GotoPoint DEF Merge, TypeOK, Points
  <2>3. CASE MergeRefused("local") \/ ClusterOutOfReach("local")
    BY <1>0, <1>2, <2>3 DEF MergeRefused, ClusterOutOfReach
  <2>4. CASE KeepCluster("local")
    BY <1>0, <1>1, <2>4 DEF KeepCluster, Goto, TypeOK
  <2>. QED
    BY <1>5, <2>1, <2>2, <2>3, <2>4 DEF Step
<1>6. CASE MakeCluster
  <2>1. pc["pod"] = "off" /\ pc'["pod"] = pc["pod"]
    BY <1>0, <1>6, GotoPoint DEF MakeCluster, Basics, Points
  <2>. QED
    BY <2>1
<1>7. CASE SaveKubeconfig
  BY <1>0, <1>1, <1>7 DEF SaveKubeconfig, Goto, TypeOK
<1>8. CASE PivotStep /\ UNCHANGED <<commandVars, faults>>
  BY <1>0, <1>1, <1>8, PivotStepMoves DEF PivotMoves, commandVars
<1>9. CASE PodStarts
  BY <1>0, <1>9, GotoPoint DEF PodStarts, Points
<1>10. CASE Step("pod")
  <2>1. CASE ReadSecret("pod")
    <3>1. config'["pod"] = stored /\ stored' = stored
      BY <1>0, <2>1 DEF ReadSecret, TypeOK
    <3>. QED
      BY <3>1
  <2>2. CASE Merge("pod")
    <3>1. pc["pod"] = "merge" /\ config["pod"] = stored /\ Complete(stored)
      BY <1>0, <2>2, GotoPoint DEF Merge, Basics, Points, Goto
    <3>2. config'["pod"] = stored /\ stored' = stored
      BY <1>0, <2>2, <3>1, PodMergesNothing DEF Merge, TypeOK
    <3>. QED
      BY <3>2
  <2>3. CASE MergeRefused("pod") \/ ClusterOutOfReach("pod")
    BY <1>0, <1>2, <2>3 DEF MergeRefused, ClusterOutOfReach
  <2>4. CASE KeepCluster("pod")
    <3>1. pc["pod"] \in {"execute", "loop"} /\ UNCHANGED <<config, stored>>
      BY <2>4 DEF KeepCluster, Goto
    <3>. QED
      BY <3>1
  <2>. QED
    BY <1>10, <2>1, <2>2, <2>3, <2>4 DEF Step
<1>11. CASE SecretMissing
  BY <1>0, <1>2, <1>11 DEF SecretMissing
<1>12. ASSUME NEW n \in Nodes, NodeStep(n)
       PROVE  PodHasStored'
  BY <1>12 DEF NodeStep, NodeJoins, PreloadPodReady, pivotVars, commandVars
<1>13. CASE SecretUnread
  BY <1>0, <1>1, <1>13, GotoPoint DEF SecretUnread, TypeOK, Points
<1>14. ASSUME NEW n \in Servers, Break(n)
       PROVE  PodHasStored'
  BY <1>0, <1>1, <1>14, EndPoint DEF Break, CopyBreaksOff, commandVars
<1>15. ASSUME NEW p \in Processes, Fail(p) \/ Crash(p)
       PROVE  PodHasStored'
  BY <1>2, <1>15 DEF Fail, Crash, commandVars
<1>16. CASE ChartFails
  BY <1>0, <1>1, <1>16, UndoMoves DEF ChartFails, PivotMoves, commandVars
<1>17. CASE UNCHANGED vars
  BY <1>17 DEF vars
<1>. QED
  BY <1>4, <1>5, <1>6, <1>7, <1>8, <1>9, <1>10, <1>11, <1>12, <1>13, <1>14,
     <1>15, <1>16, <1>17 DEF Next, LocalStep, PodStep

(* The pod works with what the secret holds, except that its loop interval  *)
(* and its address are those of its flags: neither the defaults of the      *)
(* other flags nor the absence of a profile changes a setting or the        *)
(* credentials, for any command run beside it and any faults.               *)
THEOREM PodKeepsStored == Spec => []PodKeepsSettings
<1>1. Init => PodHasStored
  BY TwoProcesses DEF Init, PodHasStored
<1>2. PodHasStored => PodKeepsSettings
  BY DEF PodHasStored, PodKeepsSettings, WorksWith, Flags
<1>. QED
  BY <1>1, <1>2, BasicsAlways, PodHasStoredStep, PTL DEF Spec

----------------------------------------------------------------------------
(* The settings of the nodes.                                              *)

(* What leaves the settings alone, and sends the local process nowhere but *)
(* to its pivot or its end.                                                *)
Unconcerned ==
  /\ UNCHANGED <<line, kubeFile, stored, built, altered>>
  /\ config'["local"] = config["local"]
  /\ pc'["local"] \in {pc["local"], "down"} \cup PivotPoints

LEMMA UnconcernedAlike == Alike /\ Unconcerned => Alike'
  BY DEF Alike, Unconcerned, LocalSettings, Apart, Cluster, PivotPoints

LEMMA ExitUnconcerned ==
  ASSUME TypeOK, NEW p \in Processes, Exit(p), UNCHANGED <<line, commandVars>>
  PROVE  Unconcerned
  BY ExitPoint, TwoProcesses DEF Unconcerned, commandVars

LEMMA LocalAlike ==
  ASSUME Basics, Alike, Step("local")
  PROVE  Alike'
<1>. USE DEF Alike
<1>0. TypeOK /\ "local" \in Processes /\ Flags("local") = line
  BY TwoProcesses DEF Basics, Flags
<1>1. CASE ReadSecret("local")
  <2>1. pc["local"] = "secret" /\ pc'["local"] = "merge"
    BY <1>0, <1>1, GotoPoint DEF ReadSecret, Points
  <2>2. UNCHANGED <<line, kubeFile, stored, built, altered>>
    BY <1>1 DEF ReadSecret
  <2>3. config'["local"] = IF SecretFound("local") THEN stored ELSE NoConfig
    BY <1>0, <1>1 DEF ReadSecret, TypeOK
  <2>4. Cluster /\ ~SecretFound("local") => Apart(line.place)
    BY <1>0 DEF SecretFound, HasAccess, Apart
  <2>5. LocalSettings'
    BY <2>1, <2>2, <2>3, <2>4 DEF LocalSettings, Cluster, Apart
  <2>. QED
    BY <2>1, <2>2, <2>5 DEF Cluster
<1>2. CASE Merge("local")
  <2>1. pc["local"] = "merge" /\ pc'["local"] = "execute"
    BY <1>0, <1>2, GotoPoint DEF Merge, Points
  <2>2. UNCHANGED <<line, kubeFile, stored, built, altered>>
    BY <1>2 DEF Merge
  <2>3. config'["local"] = IF config["local"] = NoConfig THEN Fresh("local")
                           ELSE Merged("local")
    BY <1>0, <1>2 DEF Merge, TypeOK
  <2>4. ASSUME Cluster, ~altered
        PROVE  \/ SettingsOf(config'["local"]) = SettingsOf(stored)
               \/ Apart(config'["local"].place)
    <3>1. line.spec = Unset /\ ~line.key /\ ~line.tag
      BY <2>1, <2>4 DEF LocalSettings
    <3>2. CASE config["local"] = NoConfig
      <4>1. Apart(line.place)
        BY <2>1, <2>4, <3>2 DEF LocalSettings, Cluster
      <4>2. config'["local"].place = line.place
        BY <1>0, <2>3, <3>2 DEF Fresh
      <4>. QED
        BY <4>1, <4>2
    <3>3. CASE config["local"] # NoConfig
      <4>1. config["local"] = stored /\ stored \in Configs
        BY <1>0, <2>1, <2>4, <3>3 DEF LocalSettings, TypeOK
      <4>2. Merged("local").spec = stored.spec
        BY <1>0, <3>1, <4>1 DEF Merged, Configs
      <4>3. Merged("local").nodeKey = stored.nodeKey
        BY <1>0, <3>1, <4>1 DEF Merged, Configs
      <4>. QED
        BY <2>3, <3>3, <4>2, <4>3 DEF SettingsOf
    <3>. QED
      BY <3>2, <3>3
  <2>5. LocalSettings'
    BY <2>1, <2>2, <2>4 DEF LocalSettings, Cluster, Apart
  <2>. QED
    BY <2>1, <2>2, <2>5 DEF Cluster
<1>3. CASE MergeRefused("local") \/ ClusterOutOfReach("local")
  <2>1. Exit("local") /\ UNCHANGED <<line, commandVars>>
    BY <1>3 DEF MergeRefused, ClusterOutOfReach, commandVars
  <2>. QED
    BY <1>0, <2>1, ExitUnconcerned, UnconcernedAlike
<1>4. CASE KeepCluster("local")
  <2>1. pc["local"] \in {"execute", "loop"} /\ pc'["local"] \in {"build", "helm", "loop"}
    BY <1>0, <1>4 DEF KeepCluster, Goto, AfterExecute, TypeOK
  <2>2. /\ UNCHANGED <<line, kubeFile, stored, config, altered>>
        /\ Cluster /\ ~Apart(config["local"].place)
    BY <1>4 DEF KeepCluster, Reaches, Apart
  <2>3. built' \subseteq built \cup {SettingsOf(config["local"])}
    BY <1>4 DEF KeepCluster, NodeSettings, SettingsOf
  <2>4. ~altered => SettingsOf(config["local"]) = SettingsOf(stored)
    BY <2>1, <2>2 DEF LocalSettings
  <2>5. ~altered' => built' \subseteq {SettingsOf(stored')}
    BY <2>2, <2>3, <2>4
  <2>6. LocalSettings'
    BY <2>1, <2>2, <2>4 DEF LocalSettings, Cluster, Apart
  <2>. QED
    BY <2>1, <2>2, <2>5, <2>6 DEF Cluster
<1>. QED
  BY <1>1, <1>2, <1>3, <1>4 DEF Step

LEMMA AlikeStep == Basics /\ PodHasStored /\ Alike /\ [Next]_vars => Alike'
<1>. SUFFICES ASSUME Basics, PodHasStored, Alike, [Next]_vars PROVE Alike'
  OBVIOUS
<1>0. TypeOK /\ "local" \in Processes /\ "pod" \in Processes
  BY TwoProcesses DEF Basics
<1>1. ASSUME NEW l \in Lines, Launch(l)
      PROVE  Alike'
  <2>1. pc'["local"] = "secret"
    BY <1>0, <1>1, GotoPoint DEF Launch, Points
  <2>2. /\ UNCHANGED <<kubeFile, stored, built>> /\ line' = l
        /\ altered' = (altered \/ Alters(l))
    BY <1>1 DEF Launch
  <2>3. Cluster /\ ~altered' => ~altered /\ l.spec = Unset /\ ~l.key /\ ~l.tag
    BY <2>2 DEF Alters
  <2>. QED
    BY <2>1, <2>2, <2>3 DEF Alike, LocalSettings, Cluster
<1>2. CASE Run \/ RunAgain
  BY <1>0, <1>1, <1>2, CommandLines DEF Run, RunAgain
<1>3. CASE Step("local")
  BY <1>3, LocalAlike
<1>4. CASE MakeCluster
  <2>1. pc["local"] = "execute" /\ pc'["local"] = "save"
    BY <1>0, <1>4, GotoPoint DEF MakeCluster, Points
  <2>2. /\ stored' = config["local"] /\ config' = config
        /\ built' = {SettingsOf(config["local"])}
    BY <1>4 DEF MakeCluster, NodeSettings, SettingsOf
  <2>3. Cluster'
    BY <1>0, <2>1, <2>2 DEF Basics, Settled, Cluster, Complete, NoConfig
  <2>. QED
    BY <2>1, <2>2, <2>3 DEF Alike, LocalSettings
<1>5. CASE SaveKubeconfig
  <2>1. pc["local"] = "save" /\ pc'["local"] \in {"build", "helm", "loop"}
    BY <1>0, <1>5 DEF SaveKubeconfig, Goto, AfterExecute, TypeOK
  <2>2. UNCHANGED <<stored, config, built, altered>>
    BY <1>5 DEF SaveKubeconfig
  <2>. QED
    BY <2>1, <2>2 DEF Alike, LocalSettings, Cluster
<1>6. CASE PivotStep /\ UNCHANGED <<commandVars, faults>>
  <2>1. Unconcerned
    BY <1>0, <1>6, PivotStepMoves DEF Unconcerned, PivotMoves, commandVars
  <2>. QED
    BY <2>1, UnconcernedAlike
<1>7. CASE PodStarts
  <2>1. Unconcerned
    BY <1>0, <1>7, GotoPoint DEF PodStarts, Unconcerned, TypeOK, Points
  <2>. QED
    BY <2>1, UnconcernedAlike
<1>8. CASE Step("pod")
  <2>1. CASE ReadSecret("pod") \/ Merge("pod")
    <3>1. Unconcerned
      BY <1>0, <2>1, GotoPoint DEF ReadSecret, Merge, Unconcerned, TypeOK, Points
    <3>. QED
      BY <3>1, UnconcernedAlike
  <2>2. CASE MergeRefused("pod") \/ ClusterOutOfReach("pod")
    <3>1. Exit("pod") /\ UNCHANGED <<line, commandVars>>
      BY <2>2 DEF MergeRefused, ClusterOutOfReach, commandVars
    <3>. QED
      BY <1>0, <3>1, ExitUnconcerned, UnconcernedAlike
  <2>3. CASE KeepCluster("pod")
    <3>1. pc["pod"] \in {"execute", "loop"} /\ pc'["local"] = pc["local"]
      BY <1>0, <2>3 DEF KeepCluster, Goto, TypeOK
    <3>2. UNCHANGED <<line, kubeFile, stored, config, altered>> /\ Cluster
      BY <2>3 DEF KeepCluster
    <3>3. built' \subseteq built \cup {SettingsOf(stored)}
      BY <2>3, <3>1 DEF KeepCluster, NodeSettings, SettingsOf, PodHasStored
    <3>. QED
      BY <3>1, <3>2, <3>3 DEF Alike, LocalSettings, Cluster, Apart
  <2>. QED
    BY <1>8, <2>1, <2>2, <2>3 DEF Step
<1>9. CASE SecretMissing
  BY <1>0, <1>9, ExitUnconcerned, UnconcernedAlike DEF SecretMissing, commandVars
<1>10. ASSUME NEW n \in Nodes, NodeStep(n)
       PROVE  Alike'
  <2>1. Unconcerned
    BY <1>10 DEF NodeStep, NodeJoins, PreloadPodReady, Unconcerned, commandVars
  <2>. QED
    BY <2>1, UnconcernedAlike
<1>11. CASE SecretUnread
  <2>1. pc'["local"] = "merge"
    BY <1>0, <1>11, GotoPoint DEF SecretUnread, Points
  <2>. QED
    BY <1>11, <2>1 DEF SecretUnread, Alike, LocalSettings, Cluster
<1>12. ASSUME NEW n \in Servers, Break(n)
       PROVE  Alike'
  <2>1. Unconcerned
    BY <1>0, <1>12, EndPoint DEF Break, CopyBreaksOff, Unconcerned, commandVars
  <2>. QED
    BY <2>1, UnconcernedAlike
<1>13. ASSUME NEW p \in Processes, Fail(p) \/ Crash(p)
       PROVE  Alike'
  BY <1>0, <1>13, ExitUnconcerned, UnconcernedAlike DEF Fail, Crash, commandVars
<1>14. CASE ChartFails
  <2>1. Unconcerned
    BY <1>0, <1>14, UndoMoves DEF ChartFails, Unconcerned, PivotMoves, commandVars
  <2>. QED
    BY <2>1, UnconcernedAlike
<1>15. CASE UNCHANGED vars
  <2>1. Unconcerned
    BY <1>15 DEF vars, Unconcerned
  <2>. QED
    BY <2>1, UnconcernedAlike
<1>. QED
  BY <1>2, <1>3, <1>4, <1>5, <1>6, <1>7, <1>8, <1>9, <1>10, <1>11, <1>12,
     <1>13, <1>14, <1>15 DEF Next, LocalStep, PodStep

(* No default of a flag ever gets into a node of a cluster that was made    *)
(* with other settings, whichever process creates the node, unless the      *)
(* operator gave other settings or the stored ones could not be read.       *)
THEOREM NodesMadeAlike == Spec => []NodesAlike
<1>1. Init => PodHasStored /\ Alike
  BY TwoProcesses DEF Init, PodHasStored, Alike, LocalSettings, Cluster
<1>2. Alike => NodesAlike
  <2>. SUFFICES ASSUME Alike, ~altered PROVE Cardinality(built) <= 1
    BY DEF NodesAlike
  <2>1. built \subseteq {SettingsOf(stored)}
    BY DEF Alike
  <2>2. built = {} \/ built = {SettingsOf(stored)}
    BY <2>1
  <2>3. Cardinality({}) = 0 /\ Cardinality({SettingsOf(stored)}) = 1
    BY FS_EmptySet, FS_Singleton
  <2>4. Cardinality(built) \in {0, 1}
    BY <2>2, <2>3, Zenon
  <2>. QED
    BY <2>4
<1>. QED
  BY <1>1, <1>2, BasicsAlways, PodHasStoredStep, AlikeStep, PTL DEF Spec

----------------------------------------------------------------------------
(* The preload.                                                            *)

(* What happens beside the pivot: nodes that join or start their pods, and *)
(* a local process that is not in its pivot.                               *)
Beside ==
  /\ UNCHANGED <<line, binary, targets, reader, release>>
  /\ pc'["local"] # "down" => pc'["local"] = pc["local"]
  /\ joined \subseteq joined'

LEMMA BesidePreloaded == Preloaded /\ Beside => Preloaded'
<1>. SUFFICES ASSUME Preloaded, Beside PROVE Preloaded'
  OBVIOUS
<1>1. Scheduled \subseteq Scheduled'
  BY DEF Scheduled, Beside
<1>2. SomeWhole(Servers)' = SomeWhole(Servers)
      /\ SomeWhole(Servers \ targets)' = SomeWhole(Servers \ targets)
  BY DEF SomeWhole, Beside
<1>3. ChartAfterBinary'
  BY DEF Preloaded, ChartAfterBinary, At, Beside
<1>. QED
  BY <1>1, <1>2, <1>3 DEF Preloaded, Beside

LEMMA ExitBeside ==
  ASSUME TypeOK, NEW p \in Processes, Exit(p), UNCHANGED <<line, pivotVars>>
  PROVE  Beside
  BY ExitPoint, TwoProcesses DEF Beside, pivotVars

(* Before its pivot a process owes the preload nothing.                    *)
LEMMA EarlyPreloaded ==
  ASSUME pc'["local"] \in {"secret", "merge", "execute", "save", "loop", "build", "down"}
  PROVE  Preloaded'
  BY DEF Preloaded, ChartAfterBinary, At

LEMMA PivotPreloaded ==
  ASSUME TypeOK, Preloaded, PivotStep
  PROVE  Preloaded'
<1>. USE DEF Preloaded, ChartAfterBinary, At
<1>0. PivotTypeOK
  BY DEF TypeOK
<1>1. CASE Build
  <2>1. pc'["local"] = "deploy" /\ reader' = "whole"
    BY <1>1, LocalPoint DEF Build, Points, PivotPoints
  <2>. QED
    BY <2>1
<1>2. CASE DeployDaemonSet
  <2>1. pc["local"] = "deploy" /\ pc'["local"] = "waitPods" /\ reader' = reader
    BY <1>2, LocalPoint DEF DeployDaemonSet, Points, PivotPoints
  <2>. QED
    BY <2>1
<1>3. CASE DaemonSetTaken \/ ReleasePending \/ Deployed
  <2>1. pc'["local"] = "down"
    BY <1>3, EndPoint DEF DaemonSetTaken, ReleasePending, Deployed
  <2>. QED
    BY <2>1
<1>4. CASE WaitForPods
  <2>1. pc["local"] = "waitPods" /\ pc'["local"] = "list" /\ Scheduled # {}
    BY <1>4, LocalPoint DEF WaitForPods, Points, PivotPoints
  <2>2. UNCHANGED <<reader, joined>>
    BY <1>4 DEF WaitForPods, pivotVars
  <2>. QED
    BY <2>1, <2>2 DEF Scheduled
<1>5. CASE ListPods
  <2>1. pc["local"] = "list" /\ pc'["local"] = "copy"
    BY <1>5, LocalPoint DEF ListPods, Points, PivotPoints
  <2>2. reader' = "whole" /\ targets' # {}
    BY <1>5, <2>1 DEF ListPods
  <2>. QED
    BY <2>1, <2>2
<1>6. ASSUME NEW n \in Servers, Copy(n)
      PROVE  Preloaded'
  <2>1. /\ pc["local"] = "copy" /\ n \in targets
        /\ pc'["local"] = IF targets = {n} THEN "remove" ELSE "copy"
    BY <1>6 DEF Copy, TypeOK, Processes
  <2>2. /\ targets' = targets \ {n}
        /\ binary' = [binary EXCEPT ![n] = Copied(n)]
    BY <1>6 DEF Copy
  <2>3. n \in Nodes /\ binary \in [Nodes -> {"none", "broken", "whole"}]
    BY <1>0 DEF PivotTypeOK, Nodes
  <2>4. SomeWhole(Servers \ targets)'
    <3>1. CASE reader = "whole"
      BY <2>2, <2>3, <3>1 DEF SomeWhole, Copied
    <3>2. CASE reader # "whole"
      <4>1. PICK m \in Servers \ targets : binary[m] = "whole"
        BY <2>1, <3>2 DEF SomeWhole
      <4>. QED
        BY <2>1, <2>2, <2>3, <4>1 DEF SomeWhole, Nodes
    <3>. QED
      BY <3>1, <3>2
  <2>5. SomeWhole(Servers)'
    BY <2>4 DEF SomeWhole
  <2>. QED
    BY <2>1, <2>4, <2>5
<1>7. ASSUME NEW n \in Servers, CopyRefused(n)
      PROVE  Preloaded'
  BY <1>7, EndPoint DEF CopyRefused
<1>8. CASE RemoveDaemonSet
  <2>1. pc["local"] = "remove" /\ pc'["local"] = "helm" /\ binary' = binary
    BY <1>8, LocalPoint DEF RemoveDaemonSet, Points, PivotPoints
  <2>. QED
    BY <2>1 DEF SomeWhole
<1>9. CASE Install \/ Upgrade
  <2>1. pc["local"] = "helm" /\ pc'["local"] = "helmWait"
    BY <1>9 DEF Install, Upgrade, PlacePod, KeepPod, TypeOK, Processes
  <2>2. release'.dev = line.dev /\ binary' = binary
    BY <1>9 DEF Install, Upgrade
  <2>. QED
    BY <2>1, <2>2 DEF SomeWhole
<1>10. CASE NeverReady
  <2>1. pc'["local"] = "down"
    BY <1>10, UndoMoves DEF NeverReady
  <2>. QED
    BY <2>1
<1>. QED
  BY <1>1, <1>2, <1>3, <1>4, <1>5, <1>6, <1>7, <1>8, <1>9, <1>10 DEF PivotStep

LEMMA PreloadedStep == Basics /\ Preloaded /\ [Next]_vars => Preloaded'
<1>. SUFFICES ASSUME Basics, Preloaded, [Next]_vars PROVE Preloaded'
  OBVIOUS
<1>0. TypeOK /\ "local" \in Processes /\ "pod" \in Processes
  BY TwoProcesses DEF Basics
<1>1. CASE Run \/ RunAgain
  BY <1>0, <1>1, GotoPoint, EarlyPreloaded DEF Run, RunAgain, Launch, Points
<1>2. ASSUME NEW p \in Processes, ReadSecret(p) \/ Merge(p)
      PROVE  Preloaded'
  <2>1. CASE p = "local"
    BY <1>0, <1>2, <2>1, GotoPoint, EarlyPreloaded DEF ReadSecret, Merge, Points
  <2>2. CASE p = "pod"
    <3>1. Beside
      BY <1>0, <1>2, <2>2, GotoPoint DEF ReadSecret, Merge, Points, Beside, pivotVars
    <3>. QED
      BY <3>1, BesidePreloaded
  <2>. QED
    BY <2>1, <2>2, TwoProcesses
<1>3. ASSUME NEW p \in Processes, Exit(p), UNCHANGED <<line, pivotVars>>
      PROVE  Preloaded'
  BY <1>0, <1>3, ExitBeside, BesidePreloaded
<1>4. ASSUME NEW p \in Processes, MergeRefused(p) \/ ClusterOutOfReach(p) \/ Fail(p) \/ Crash(p)
      PROVE  Preloaded'
  BY <1>3, <1>4 DEF MergeRefused, ClusterOutOfReach, Fail, Crash
<1>5. CASE KeepCluster("local") \/ SaveKubeconfig
  <2>1. pc'["local"] \in {"build", "helm", "loop"} /\ UNCHANGED line
    BY <1>0, <1>5 DEF KeepCluster, SaveKubeconfig, Goto, AfterExecute, TypeOK
  <2>2. pc'["local"] = "helm" => ~line'.dev
    BY <1>0, <1>5, <2>1 DEF KeepCluster, SaveKubeconfig, Goto, AfterExecute, TypeOK
  <2>. QED
    BY <2>1, <2>2, EarlyPreloaded DEF Preloaded, ChartAfterBinary, At
<1>6. CASE KeepCluster("pod")
  <2>1. Beside
    BY <1>0, <1>6 DEF KeepCluster, Goto, TypeOK, Beside, pivotVars
  <2>. QED
    BY <2>1, BesidePreloaded
<1>7. CASE MakeCluster \/ SecretUnread
  BY <1>0, <1>7, GotoPoint, EarlyPreloaded DEF MakeCluster, SecretUnread, Points
<1>8. CASE PivotStep
  BY <1>0, <1>8, PivotPreloaded
<1>9. CASE PodStarts
  <2>1. Beside
    BY <1>0, <1>9, GotoPoint DEF PodStarts, Points, Beside, pivotVars
  <2>. QED
    BY <2>1, BesidePreloaded
<1>10. CASE SecretMissing
  BY <1>0, <1>3, <1>10 DEF SecretMissing
<1>11. ASSUME NEW n \in Nodes, NodeStep(n)
       PROVE  Preloaded'
  <2>1. Beside
    BY <1>11 DEF NodeStep, NodeJoins, PreloadPodReady, Beside
  <2>. QED
    BY <2>1, BesidePreloaded
<1>12. ASSUME NEW n \in Servers, Break(n)
       PROVE  Preloaded'
  BY <1>0, <1>12, EndPoint, EarlyPreloaded DEF Break, CopyBreaksOff
<1>13. CASE ChartFails
  BY <1>0, <1>13, UndoMoves, EarlyPreloaded DEF ChartFails
<1>14. CASE UNCHANGED vars
  <2>1. Beside
    BY <1>14 DEF vars, pivotVars, Beside
  <2>. QED
    BY <2>1, BesidePreloaded
<1>. QED
  BY <1>0, <1>1, <1>2, <1>4, <1>5, <1>6, <1>7, <1>8, <1>9, <1>10, <1>11, <1>12, <1>13,
     <1>14 DEF Next, LocalStep, PodStep, Step

(* A chart that runs the host's binary is put in place only when a node of  *)
(* the control plane has a whole one, whatever failed in the preload of     *)
(* this or an earlier run.                                                  *)
THEOREM ChartFindsBinary == Spec => []ChartAfterBinary
<1>1. Init => Preloaded
  BY TwoProcesses DEF Init, Preloaded, ChartAfterBinary, At
<1>2. Preloaded => ChartAfterBinary
  BY DEF Preloaded
<1>. QED
  BY <1>1, <1>2, BasicsAlways, PreloadedStep, PTL DEF Spec

----------------------------------------------------------------------------
(* The cluster without its file.                                           *)

Outside == {"down", "secret", "merge", "execute", "save"}

(* Without the file no process has come as far as the loop or the pivot.    *)
Closed == ~kubeFile => pc["pod"] = "off" /\ pc["local"] \in Outside

(* What a step can do while the file is missing.                           *)
Shut ==
  /\ pc'["pod"] = "off"
  /\ pc'["local"] \in Outside \/ kubeFile'
  /\ kubeFile' => pc["local"] = "save"
  /\ Cluster => UNCHANGED <<stored, built>>
  /\ Cluster /\ pc'["local"] = "save" => pc["local"] = "save"

LEMMA ShutStep == Basics /\ Closed /\ ~kubeFile /\ [Next]_vars => Shut
<1>. SUFFICES ASSUME Basics, Closed, ~kubeFile, [Next]_vars PROVE Shut
  OBVIOUS
<1>0. /\ TypeOK /\ "local" \in Processes /\ "pod" \in Processes
      /\ pc["pod"] = "off" /\ pc["local"] \in Outside
  BY TwoProcesses DEF Basics, Closed
<1>1. ASSUME pc'["pod"] = pc["pod"], UNCHANGED <<kubeFile, stored, built>>,
             pc'["local"] \in {pc["local"], "down", "secret", "merge", "execute"}
      PROVE  Shut
  BY <1>0, <1>1 DEF Shut, Outside
<1>2. ASSUME NEW p \in Processes, Exit(p), pc[p] # "off",
             UNCHANGED <<kubeFile, stored, built>>
      PROVE  Shut
  BY <1>0, <1>1, <1>2, ExitPoint, TwoProcesses
<1>3. CASE Run \/ RunAgain
  BY <1>0, <1>1, <1>3, GotoPoint DEF Run, RunAgain, Launch, Points
<1>4. ASSUME NEW p \in Processes, Step(p)
      PROVE  Shut
  <2>1. CASE ReadSecret(p) \/ Merge(p)
    <3>1. p = "local"
      BY <1>0, <2>1, TwoProcesses DEF ReadSecret, Merge, Goto
    <3>. QED
      BY <1>0, <1>1, <2>1, <3>1, GotoPoint DEF ReadSecret, Merge, Points
  <2>2. CASE MergeRefused(p) \/ ClusterOutOfReach(p)
    BY <1>0, <1>2, <2>2 DEF MergeRefused, ClusterOutOfReach
  <2>3. CASE KeepCluster(p)
    BY <1>0, <2>3 DEF KeepCluster, Reaches, Goto
  <2>. QED
    BY <1>4, <2>1, <2>2, <2>3 DEF Step
<1>5. CASE MakeCluster
  <2>1. pc'["local"] = "save" /\ pc'["pod"] = "off" /\ ~Cluster /\ kubeFile' = kubeFile
    BY <1>0, <1>5, GotoPoint DEF MakeCluster, Points
  <2>. QED
    BY <2>1 DEF Shut, Outside
<1>6. CASE SaveKubeconfig
  <2>1. pc["local"] = "save" /\ pc'["pod"] = "off"
    BY <1>0, <1>6 DEF SaveKubeconfig, Goto, TypeOK
  <2>. QED
    BY <1>6, <2>1 DEF SaveKubeconfig, Shut
<1>7. CASE PivotStep
  BY <1>0, <1>7, PivotStepMoves DEF PivotMoves, PivotPoints, Outside
<1>8. CASE PodStarts \/ SecretMissing \/ ChartFails
  BY <1>0, <1>8, UndoMoves DEF PodStarts, SecretMissing, ChartFails, Goto, Outside
<1>9. ASSUME NEW n \in Nodes, NodeStep(n)
      PROVE  Shut
  BY <1>1, <1>9 DEF NodeStep, NodeJoins, PreloadPodReady, commandVars
<1>10. CASE SecretUnread
  BY <1>0, <1>1, <1>10, GotoPoint DEF SecretUnread, Points
<1>11. ASSUME NEW n \in Servers, Break(n)
       PROVE  Shut
  BY <1>0, <1>11 DEF Break, CopyBreaksOff, At, Outside
<1>12. ASSUME NEW p \in Processes, Fail(p) \/ Crash(p)
       PROVE  Shut
  <2>1. pc[p] # "off" /\ Exit(p) /\ UNCHANGED <<kubeFile, stored, built>>
    BY <1>12 DEF Fail, Crash, commandVars, PivotPoints
  <2>. QED
    BY <1>2, <2>1
<1>13. CASE UNCHANGED vars
  BY <1>1, <1>13 DEF vars
<1>. QED
  BY <1>0, <1>3, <1>4, <1>5, <1>6, <1>7, <1>8, <1>9, <1>10, <1>11, <1>12, <1>13
     DEF Next, LocalStep, PodStep

LEMMA FileStays == [Next]_vars /\ kubeFile => kubeFile'
<1>. SUFFICES ASSUME [Next]_vars, kubeFile PROVE kubeFile'
  OBVIOUS
<1>1. CASE LocalStep
  BY <1>1 DEF LocalStep, Run, Launch, Step, ReadSecret, Merge, MergeRefused, KeepCluster,
              ClusterOutOfReach, MakeCluster, SaveKubeconfig, commandVars
<1>2. CASE PodStep
  BY <1>2 DEF PodStep, PodStarts, SecretMissing, Step, ReadSecret, Merge, MergeRefused,
              KeepCluster, ClusterOutOfReach
<1>3. CASE RunAgain \/ SecretUnread
  BY <1>3 DEF RunAgain, Launch, SecretUnread
<1>4. ASSUME NEW n \in Nodes, NodeStep(n) \/ Break(n)
      PROVE  kubeFile'
  BY <1>4 DEF NodeStep, Break, commandVars
<1>5. ASSUME NEW p \in Processes, Fail(p) \/ Crash(p)
      PROVE  kubeFile'
  BY <1>5 DEF Fail, Crash, commandVars
<1>6. CASE ChartFails
  BY <1>6 DEF ChartFails, commandVars
<1>7. CASE UNCHANGED vars
  BY <1>7 DEF vars
<1>. QED
  BY <1>1, <1>2, <1>3, <1>4, <1>5, <1>6, <1>7 DEF Next, Nodes

LEMMA ClosedAlways == Spec => []Closed
<1>1. Init => Closed
  BY TwoProcesses DEF Init, Closed, Outside
<1>2. Basics /\ Closed /\ [Next]_vars => Closed'
  BY ShutStep, FileStays DEF Closed, Shut
<1>. QED
  BY <1>1, <1>2, BasicsAlways, PTL DEF Spec

LEMMA LockedOutStep ==
  Basics /\ Closed /\ [Next]_vars /\ Unpublished
    => Unpublished' /\ UNCHANGED <<stored, built>> /\ pc'["pod"] = "off"
  BY ShutStep DEF Unpublished, Shut, Cluster, At

(* A cluster whose kubeconfig was not saved stays out of the reach of every *)
(* later command and never gets its pod, whatever the operator repeats.     *)
THEOREM LockedOutForEver == Spec => LockedOut
<1>1. Basics /\ Closed /\ [Next]_vars =>
        [Unpublished => Unpublished' /\ UNCHANGED <<stored, built>>
                          /\ pc'["pod"] = "off"]_vars
  BY LockedOutStep
<1>. QED
  BY <1>1, BasicsAlways, ClosedAlways, PTL DEF Spec, LockedOut

----------------------------------------------------------------------------
(* What an interrupted pivot leaves.                                       *)

Preloading == {"waitPods", "list", "copy", "remove"}

(* A step that neither finishes the release nor uses the DaemonSet.         *)
PassesBy ==
  /\ Orphaned => UNCHANGED release /\ pc'["local"] # "helmWait"
  /\ LeftBehind => UNCHANGED <<daemonSet, binary>> /\ pc'["local"] \notin Preloading

LEMMA PassesByStays ==
  ASSUME PassesBy
  PROVE  /\ Orphaned => Orphaned'
         /\ LeftBehind => LeftBehind' /\ UNCHANGED binary
  BY DEF PassesBy, Preloading, Orphaned, LeftBehind, At

(* A step that has nothing to do with the pivot.                           *)
LEMMA ElsewherePassesBy ==
  ASSUME UNCHANGED <<release, daemonSet, binary>>,
         pc'["local"] \in {pc["local"]} \cup (Points \ (Preloading \cup {"helmWait"}))
  PROVE  PassesBy
  BY DEF PassesBy, Preloading, Orphaned, LeftBehind, At

LEMMA PivotPassesBy ==
  ASSUME TypeOK, PivotStep
  PROVE  PassesBy
<1>. USE DEF PassesBy, Preloading, Orphaned, LeftBehind, At
<1>1. CASE Build
  <2>1. pc["local"] = "build" /\ pc'["local"] = "deploy"
        /\ UNCHANGED <<release, daemonSet, binary>>
    BY <1>1, LocalPoint DEF Build, Points, PivotPoints
  <2>. QED
    BY <2>1
<1>2. CASE DeployDaemonSet
  <2>1. /\ pc["local"] = "deploy" /\ pc'["local"] = "waitPods" /\ ~daemonSet
        /\ UNCHANGED release
    BY <1>2, LocalPoint DEF DeployDaemonSet, Points, PivotPoints
  <2>. QED
    BY <2>1
<1>3. CASE DaemonSetTaken \/ ReleasePending
  BY <1>3, EndPoint DEF DaemonSetTaken, ReleasePending, pivotVars
<1>4. CASE WaitForPods \/ ListPods \/ RemoveDaemonSet
  BY <1>4, LocalPoint DEF WaitForPods, ListPods, RemoveDaemonSet, Points, PivotPoints,
                          pivotVars
<1>5. ASSUME NEW n \in Servers, Copy(n)
      PROVE  PassesBy
  <2>1. pc["local"] = "copy" /\ pc'["local"] \in {"copy", "remove"} /\ UNCHANGED release
    BY <1>5 DEF Copy, TypeOK, Processes
  <2>. QED
    BY <2>1
<1>6. ASSUME NEW n \in Servers, CopyRefused(n)
      PROVE  PassesBy
  BY <1>6, EndPoint DEF CopyRefused, pivotVars
<1>7. CASE Install \/ Upgrade
  <2>1. /\ pc'["local"] = "helmWait" /\ release.status # "pending"
        /\ UNCHANGED <<daemonSet, binary>>
    BY <1>7 DEF Install, Upgrade, PlacePod, KeepPod, TypeOK, Processes
  <2>. QED
    BY <2>1
<1>8. CASE Deployed
  <2>1. pc["local"] = "helmWait" /\ pc'["local"] = "down" /\ UNCHANGED <<daemonSet, binary>>
    BY <1>8, EndPoint DEF Deployed
  <2>. QED
    BY <2>1
<1>9. CASE NeverReady
  <2>1. pc["local"] = "helmWait" /\ pc'["local"] = "down" /\ UNCHANGED <<daemonSet, binary>>
    BY <1>9, UndoMoves DEF NeverReady
  <2>. QED
    BY <2>1
<1>. QED
  BY <1>1, <1>2, <1>3, <1>4, <1>5, <1>6, <1>7, <1>8, <1>9 DEF PivotStep

LEMMA NextPassesBy == Basics /\ [Next]_vars => PassesBy
<1>. SUFFICES ASSUME Basics, [Next]_vars PROVE PassesBy
  OBVIOUS
<1>0. TypeOK /\ "local" \in Processes /\ "pod" \in Processes
  BY TwoProcesses DEF Basics
<1>. DEFINE Aside == Points \ (Preloading \cup {"helmWait"})
<1>1. {"down", "secret", "merge", "execute", "save", "loop", "build", "helm"} \subseteq Aside
  BY DEF Points, PivotPoints, Preloading
<1>2. ASSUME UNCHANGED <<release, daemonSet, binary>>,
             pc'["local"] \in {pc["local"]} \cup Aside
      PROVE  PassesBy
  BY <1>2, ElsewherePassesBy
<1>. HIDE DEF Aside
<1>3. ASSUME NEW p \in Processes, Exit(p), UNCHANGED pivotVars
      PROVE  PassesBy
  BY <1>0, <1>1, <1>2, <1>3, ExitPoint, TwoProcesses DEF pivotVars
<1>4. CASE Run \/ RunAgain \/ SecretUnread
  BY <1>0, <1>1, <1>2, <1>4, GotoPoint
     DEF Run, RunAgain, Launch, SecretUnread, Points, pivotVars
<1>5. ASSUME NEW p \in Processes, ReadSecret(p) \/ Merge(p)
      PROVE  PassesBy
  BY <1>0, <1>1, <1>2, <1>5, GotoPoint, TwoProcesses DEF ReadSecret, Merge, Points, pivotVars
<1>6. ASSUME NEW p \in Processes,
             MergeRefused(p) \/ ClusterOutOfReach(p) \/ Fail(p) \/ Crash(p)
      PROVE  PassesBy
  BY <1>3, <1>6 DEF MergeRefused, ClusterOutOfReach, Fail, Crash
<1>7. ASSUME NEW p \in Processes, KeepCluster(p)
      PROVE  PassesBy
  <2>1. pc'["local"] \in {pc["local"], "build", "helm", "loop"}
    BY <1>0, <1>7, TwoProcesses DEF KeepCluster, Goto, AfterExecute, TypeOK
  <2>. QED
    BY <1>1, <1>2, <1>7, <2>1 DEF KeepCluster, pivotVars
<1>8. CASE MakeCluster
  BY <1>0, <1>1, <1>2, <1>8, GotoPoint DEF MakeCluster, Points
<1>9. CASE SaveKubeconfig
  <2>1. pc'["local"] \in {"build", "helm", "loop"}
    BY <1>0, <1>9 DEF SaveKubeconfig, Goto, AfterExecute, TypeOK
  <2>. QED
    BY <1>1, <1>2, <1>9, <2>1 DEF SaveKubeconfig, pivotVars
<1>10. CASE PivotStep
  BY <1>0, <1>10, PivotPassesBy
<1>11. CASE PodStarts
  BY <1>0, <1>2, <1>11, GotoPoint DEF PodStarts, Points, pivotVars
<1>12. CASE SecretMissing
  BY <1>0, <1>3, <1>12 DEF SecretMissing
<1>13. ASSUME NEW n \in Nodes, NodeStep(n)
       PROVE  PassesBy
  BY <1>2, <1>13 DEF NodeStep, NodeJoins, PreloadPodReady
<1>14. ASSUME NEW n \in Servers, Break(n)
       PROVE  PassesBy
  <2>1. pc["local"] = "copy" /\ pc'["local"] = "down" /\ UNCHANGED release
    BY <1>0, <1>14, EndPoint DEF Break, CopyBreaksOff, At
  <2>. QED
    BY <2>1 DEF PassesBy, Preloading, LeftBehind
<1>15. CASE ChartFails
  <2>1. /\ pc["local"] = "helmWait" /\ pc'["local"] = "down"
        /\ UNCHANGED <<daemonSet, binary>>
    BY <1>0, <1>15, UndoMoves DEF ChartFails
  <2>. QED
    BY <2>1 DEF PassesBy, Preloading, Orphaned, At
<1>16. CASE UNCHANGED vars
  BY <1>2, <1>16 DEF vars, pivotVars
<1>. QED
  BY <1>0, <1>4, <1>5, <1>6, <1>7, <1>8, <1>9, <1>10, <1>11, <1>12, <1>13, <1>14, <1>15,
     <1>16 DEF Next, LocalStep, PodStep, Step

(* No repetition of the command gets past a release that Helm left pending  *)
(* or brings a binary to a node past a leftover DaemonSet.                  *)
THEOREM ObstaclesNeverGo == Spec => ObstaclesStay
<1>1. Basics /\ [Next]_vars =>
        [/\ Orphaned => Orphaned'
         /\ LeftBehind => LeftBehind' /\ UNCHANGED binary]_vars
  BY NextPassesBy, PassesByStays
<1>. QED
  BY <1>1, BasicsAlways, PTL DEF Spec, ObstaclesStay

================================================================================
