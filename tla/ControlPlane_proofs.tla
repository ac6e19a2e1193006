-------------------------- MODULE ControlPlane_proofs --------------------------
(***************************************************************************)
(* Proofs about module ControlPlane, for any number of nodes, any command  *)
(* lines and any number of faults.  What is said about the number of nodes *)
(* and of clusters assumes, as a hypothesis of the theorem, that the       *)
(* control plane nodes asked for fit on the listed page.                   *)
(***************************************************************************)
EXTENDS ControlPlane, FiniteSetTheorems, TLAPS

USE CountAssumption, CommandAssumption, NodeAssumption, FaultAssumption

----------------------------------------------------------------------------
(* The inductive invariants.                                               *)

(* The first node is always number 0, since no host name gives a number.   *)
FirstNode == {"attach", "wait", "attachLate", "token"}

Numbered ==
  /\ pc = "init" => next = 0
  /\ pc \in FirstNode => next = 1 /\ clusters > 0
  /\ pc = "secret" => made > 0 /\ creds.cluster = made

Basics == TypeOK /\ Numbered /\ IsFiniteSet(Present)

(* What a pass still wants to create fits beside what there is.             *)
Room ==
  /\ NoOvershoot
  /\ pc \in Bootstrapping => Cardinality(Present) + missing <= Count
  /\ pc \in {"init", "create"} => missing > 0
  /\ pc = "init" => Present = {}

(* Joiners are made for the one cluster there is.                          *)
Joining ==
  /\ OneCluster
  /\ pc = "create" => \A i \in Present : nodes[i].cluster = creds.cluster

(* While no node is lost, a process knows the kubeconfig of a cluster from  *)
(* the reading of its token on, and has saved its secret before all else.  *)
Early == {"ip", "list", "init", "creds"} \cup FirstNode

Saved ==
  /\ PublishedAfterSecret
  /\ pc \in Early => made = NoCluster
  /\ faults["loss"] = 0 =>
       /\ pc # "secret" => made \in secrets \cup {NoCluster}
       /\ pc \in {"create", "save", "pivot"} => creds.cluster \in secrets

(* While no node is lost, the floating IP is on a running node before any   *)
(* secret exists.                                                          *)
IPServes == fip \in Ids /\ nodes[fip].stage = "up"

Attached ==
  faults["loss"] = 0 =>
    /\ pc = "wait" /\ ~command.externalIP => fip = 0
    /\ pc \in {"token", "secret"} => fip = 0
    /\ pc = "secret" => nodes[0].stage = "up"
    /\ secrets # {} => IPServes

(* A local controller whose default kubeconfig is another file has the      *)
(* credentials of the cluster it made.                                     *)
OwnCreds ==
  where = "local" /\ ~command.defaultIsFile =>
    /\ pc \in {"secret", "join", "create", "workers", "save", "pivot"} \/ looping
         => creds.source = "provided"
    /\ looping /\ ~command.overwrite => pc # "init"

----------------------------------------------------------------------------
(* The operators the actions share.                                        *)

(* An Execute that ends with an error, whatever the reason.                *)
Quiet == Abort /\ (UNCHANGED faults \/ Charge("failure"))

LEMMA AbortsAreQuiet ==
  ListRefused \/ AttachRefused \/ WaitTimeout \/ WaitInVain \/ TokenMissing
    \/ NoCredentials \/ NameTaken \/ Unreachable \/ PivotFails \/ Fail
  => Quiet
  BY DEF Quiet, ListRefused, AttachRefused, WaitTimeout, WaitInVain, TokenMissing,
     NoCredentials, NameTaken, Unreachable, PivotFails, Fail

LEMMA ChargeType ==
  ASSUME TypeOK, NEW k \in FaultKinds, Charge(k)
  PROVE  /\ faults' \in [FaultKinds -> Nat]
         /\ k = "loss" => faults'["loss"] # 0
         /\ k # "loss" => faults'["loss"] = faults["loss"]
  BY DEF TypeOK, Charge, FaultKinds

LEMMA NoErrors == 0 \in 0..ErrCap /\ 1 \in 0..ErrCap
  BY DEF ErrCap

LEMMA ReturnType ==
  ASSUME TypeOK, Return
  PROVE  errCh' \in 0..ErrCap /\ pc' \in {"exit", "sleep", "blocked"}
  BY DEF TypeOK, Return, ErrCap

LEMMA HighestIsNone == ASSUME NEW seen PROVE Highest(seen) = -1
<1>1. {NotANumber} \cup {Suffix(i) : i \in seen} = {-1}
  BY DEF NotANumber, Suffix
<1>. QED
  BY <1>1 DEF Highest, Max

LEMMA NothingHasType ==
  ASSUME NEW n \in Nat
  PROVE  /\ NoCluster \in 0..n
         /\ NoCreds \in [source : Sources, cluster : 0..n]
         /\ Absent \in [cluster : 0..n, first : BOOLEAN,
                       stage : {"absent", "boot", "tailnet", "up"}]
<1>1. 0 \in 0..n
  OBVIOUS
<1>. QED
  BY <1>1 DEF NoCreds, Absent, NoCluster, Sources

(* A node that is created is there, and nothing else changes.              *)
LEMMA NodeAdded ==
  ASSUME TypeOK, NEW i \in Ids, NEW k \in 0..clusters', NEW first \in BOOLEAN,
         clusters <= clusters', clusters' \in Nat, NewNode(i, k, first)
  PROVE  /\ nodes' \in [Ids -> [cluster : 0..clusters', first : BOOLEAN,
                               stage : {"absent", "boot", "tailnet", "up"}]]
         /\ nodes'[i] = [cluster |-> k, first |-> first, stage |-> "boot"]
         /\ \A j \in Ids : j # i => nodes'[j] = nodes[j]
         /\ Present' = Present \cup {i}
<1>1. /\ nodes'[i] = [cluster |-> k, first |-> first, stage |-> "boot"]
      /\ \A j \in Ids : j # i => nodes'[j] = nodes[j]
  BY DEF TypeOK, NewNode
<1>2. [cluster |-> k, first |-> first, stage |-> "boot"] # Absent
  BY DEF Absent
<1>3. nodes' \in [Ids -> [cluster : 0..clusters', first : BOOLEAN,
                        stage : {"absent", "boot", "tailnet", "up"}]]
  BY DEF TypeOK, NewNode
<1>. QED
  BY <1>1, <1>2, <1>3 DEF Present

(* A node that gets on keeps its cluster, and one that is up stays up.     *)
LEMMA NodeMoved ==
  ASSUME TypeOK, NEW i \in Ids, NodeStep(i)
  PROVE  /\ nodes' \in [Ids -> [cluster : 0..clusters, first : BOOLEAN,
                               stage : {"absent", "boot", "tailnet", "up"}]]
         /\ \A j \in Ids : /\ nodes'[j].cluster = nodes[j].cluster
                           /\ nodes[j].stage = "up" => nodes'[j].stage = "up"
         /\ Present' = Present
<1>1. PICK stage \in {"tailnet", "up"} :
        /\ nodes' = [nodes EXCEPT ![i].stage = stage]
        /\ nodes[i].stage \in {"boot", "tailnet"}
  BY DEF NodeStep, JoinTailnet, StartK3s
<1>2. /\ nodes'[i] = [nodes[i] EXCEPT !.stage = stage]
      /\ \A j \in Ids : j # i => nodes'[j] = nodes[j]
      /\ nodes' \in [Ids -> [cluster : 0..clusters, first : BOOLEAN,
                            stage : {"absent", "boot", "tailnet", "up"}]]
  BY <1>1 DEF TypeOK
<1>3. /\ nodes'[i].stage = stage
      /\ nodes'[i].cluster = nodes[i].cluster
  BY <1>1, <1>2 DEF TypeOK
<1>4. nodes[i] # Absent /\ nodes'[i] # Absent
  BY <1>1, <1>3 DEF Absent
<1>5. Present' = Present
  BY <1>2, <1>4 DEF Present
<1>6. nodes[i].stage # "up"
  BY <1>1
<1>. QED
  BY <1>2, <1>3, <1>5, <1>6

LEMMA NodeLost ==
  ASSUME TypeOK, NEW i \in Losable, LoseNode(i)
  PROVE  /\ nodes' \in [Ids -> [cluster : 0..clusters, first : BOOLEAN,
                               stage : {"absent", "boot", "tailnet", "up"}]]
         /\ \A j \in Ids : j # i => nodes'[j] = nodes[j]
         /\ Present' = Present \ {i}
<1>1. nodes'[i] = Absent /\ \A j \in Ids : j # i => nodes'[j] = nodes[j]
  BY DEF LoseNode, TypeOK
<1>2. Absent \in [cluster : 0..clusters, first : BOOLEAN,
                  stage : {"absent", "boot", "tailnet", "up"}]
  BY DEF Absent, NoCluster, TypeOK
<1>3. nodes' \in [Ids -> [cluster : 0..clusters, first : BOOLEAN,
                        stage : {"absent", "boot", "tailnet", "up"}]]
  BY <1>2 DEF LoseNode, TypeOK
<1>. QED
  BY <1>1, <1>3 DEF Present

----------------------------------------------------------------------------
(* Types and the number of the first node.                                 *)

LEMMA BasicsInit == Init => Basics
<1>. SUFFICES ASSUME Init PROVE Basics
  OBVIOUS
<1>1. TypeOK
  <2>1. /\ NoCluster \in 0..clusters
        /\ nodes \in [Ids -> [cluster : 0..clusters, first : BOOLEAN,
                            stage : {"absent", "boot", "tailnet", "up"}]]
        /\ creds \in [source : Sources, cluster : 0..clusters]
        /\ faults \in [FaultKinds -> Nat]
    BY NothingHasType DEF Init
  <2>. QED
    <3>1. looping \in BOOLEAN /\ interrupted \in BOOLEAN
      BY DEF Init
    <3>2. clusters \in Nat /\ next \in Nat /\ missing \in Int /\ secrets \subseteq 1..clusters
      BY DEF Init
    <3>3. /\ kubeFile \in 0..clusters /\ chart \in 0..clusters
          /\ made \in 0..clusters /\ loaded \in 0..clusters
      BY <2>1 DEF Init
    <3>. QED
      BY <2>1, <3>1, <3>2, <3>3, NoErrors DEF Init, TypeOK
<1>2. Present = {}
  BY DEF Init, Present
<1>. QED
  BY <1>1, <1>2, FS_EmptySet DEF Basics, Numbered, Init, FirstNode

(* Steps that leave the nodes alone only have the other variables to keep.  *)
LEMMA SameNodes == UNCHANGED nodes => Present' = Present
  BY DEF Present

LEMMA BasicsStep == Basics /\ [Next]_vars => Basics'
<1>. SUFFICES ASSUME Basics, [Next]_vars PROVE Basics'
  OBVIOUS
<1>. USE DEF Basics, Numbered, FirstNode, oxide, disk, process
<1>1. CASE Quiet
  <2>1. faults' \in [FaultKinds -> Nat]
    BY <1>1, ChargeType DEF Quiet, TypeOK, FaultKinds
  <2>2. TypeOK'
    BY <1>1, <2>1, ReturnType DEF Quiet, Abort, TypeOK, NoCluster, Executing, Sources
  <2>. QED
    BY <1>1, <2>2, SameNodes DEF Quiet, Abort, Return
<1>2. CASE Start
  <2>1. /\ NoCluster \in 0..clusters
        /\ NoCreds \in [source : Sources, cluster : 0..clusters]
    BY NothingHasType DEF TypeOK
  <2>2. loaded' \in 0..clusters
    BY <1>2, <2>1 DEF Start, TypeOK
  <2>. QED
    BY <1>2, <2>1, <2>2, SameNodes, NoErrors DEF Start, TypeOK, Executing
<1>3. CASE EnsureControlPlaneIP
  BY <1>3, SameNodes DEF EnsureControlPlaneIP, Goto, TypeOK, Executing
<1>4. CASE ListNodes
  <2>1. Seen \subseteq Present
    BY DEF Seen
  <2>2. Cardinality(Seen) \in Nat
    BY <2>1, FS_Subset, FS_CardinalityType
  <2>. QED
    BY <1>4, <2>2, HighestIsNone, SameNodes
       DEF ListNodes, Goto, TypeOK, Executing
<1>5. CASE CreateFirst
  <2>1. next = 0 /\ clusters' = clusters + 1 /\ NewNode(0, clusters + 1, TRUE)
    BY <1>5 DEF CreateFirst, Goto
  <2>2. /\ Present' = Present \cup {0}
        /\ nodes' \in [Ids -> [cluster : 0..clusters', first : BOOLEAN,
                              stage : {"absent", "boot", "tailnet", "up"}]]
    <3>1. /\ clusters' \in Nat /\ clusters <= clusters'
          /\ clusters + 1 \in 0..clusters'
      BY <2>1 DEF TypeOK
    <3>. QED
      BY <2>1, <3>1, NodeAdded
  <2>3. TypeOK'
    BY <1>5, <2>1, <2>2 DEF CreateFirst, Goto, TypeOK, Executing
  <2>. QED
    BY <1>5, <2>1, <2>2, <2>3, FS_AddElement DEF CreateFirst, Goto, TypeOK
<1>6. CASE AttachIP
  BY <1>6, SameNodes DEF AttachIP, Goto, TypeOK, Executing
<1>7. CASE WaitForFirst
  BY <1>7, SameNodes DEF WaitForFirst, Goto, TypeOK, Executing
<1>8. CASE ReadToken
  BY <1>8, SameNodes DEF ReadToken, Goto, TypeOK, Executing, Sources
<1>9. CASE SaveSecret
  <2>1. creds.cluster \in 1..clusters
    BY <1>9 DEF SaveSecret, Goto, TypeOK
  <2>. QED
    BY <1>9, <2>1, SameNodes DEF SaveSecret, Goto, TypeOK, Executing
<1>10. CASE SetClusterCreds
  BY <1>10, SameNodes
     DEF SetClusterCreds, DefaultCreds, NoCreds, Goto, TypeOK, Executing, Sources
<1>11. CASE GetJoinToken
  BY <1>11, SameNodes DEF GetJoinToken, Goto, TypeOK, Executing
<1>12. CASE CreateJoiner
  <2>1. next \in Ids /\ NewNode(next, creds.cluster, FALSE) /\ clusters' = clusters
    BY <1>12 DEF CreateJoiner
  <2>2. creds.cluster \in 0..clusters' /\ clusters' \in Nat /\ clusters <= clusters'
    BY <2>1 DEF TypeOK
  <2>3. /\ Present' = Present \cup {next}
        /\ nodes' \in [Ids -> [cluster : 0..clusters', first : BOOLEAN,
                              stage : {"absent", "boot", "tailnet", "up"}]]
    BY <2>1, <2>2, NodeAdded
  <2>4. TypeOK'
    BY <1>12, <2>1, <2>3 DEF CreateJoiner, TypeOK, Executing
  <2>. QED
    BY <1>12, <2>3, <2>4, FS_AddElement DEF CreateJoiner
<1>13. CASE EnsureWorkerNodes
  BY <1>13, SameNodes DEF EnsureWorkerNodes, Goto, TypeOK
<1>14. CASE SaveKubeconfig
  <2>1. kubeFile' \in 0..clusters
    BY <1>14 DEF SaveKubeconfig, TypeOK
  <2>2. pc' \in {"pivot", "ip"} /\ looping' \in BOOLEAN /\ made' \in {made, NoCluster}
    BY <1>14 DEF SaveKubeconfig, TypeOK
  <2>3. NoCluster \in 0..clusters
    BY NothingHasType DEF TypeOK
  <2>4. made' \in 0..clusters
    BY <2>2, <2>3 DEF TypeOK
  <2>. QED
    BY <1>14, <2>1, <2>2, <2>4, SameNodes, NoErrors DEF SaveKubeconfig, TypeOK, Executing
<1>15. CASE LoadHelmCharts
  BY <1>15, SameNodes DEF LoadHelmCharts, TypeOK
<1>16. CASE Wake
  BY <1>16, SameNodes DEF Wake, Goto, TypeOK, NoCluster, Executing
<1>17. CASE FirstUnanswered
  <2>1. next = 0 /\ clusters' = clusters + 1 /\ NewNode(0, clusters + 1, TRUE)
    BY <1>17 DEF FirstUnanswered
  <2>2. /\ Present' = Present \cup {0}
        /\ nodes' \in [Ids -> [cluster : 0..clusters', first : BOOLEAN,
                              stage : {"absent", "boot", "tailnet", "up"}]]
    <3>1. /\ clusters' \in Nat /\ clusters <= clusters'
          /\ clusters + 1 \in 0..clusters'
      BY <2>1 DEF TypeOK
    <3>. QED
      BY <2>1, <3>1, NodeAdded
  <2>3. faults' \in [FaultKinds -> Nat]
    BY <1>17, ChargeType DEF FirstUnanswered, FaultKinds
  <2>4. TypeOK'
    BY <1>17, <2>1, <2>2, <2>3, ReturnType DEF FirstUnanswered, TypeOK
  <2>. QED
    BY <1>17, <2>2, <2>4, FS_AddElement DEF FirstUnanswered, Return
<1>18. CASE JoinerUnanswered
  <2>1. next \in Ids /\ NewNode(next, creds.cluster, FALSE) /\ clusters' = clusters
    BY <1>18 DEF JoinerUnanswered
  <2>2. creds.cluster \in 0..clusters' /\ clusters' \in Nat /\ clusters <= clusters'
    BY <2>1 DEF TypeOK
  <2>3. /\ Present' = Present \cup {next}
        /\ nodes' \in [Ids -> [cluster : 0..clusters', first : BOOLEAN,
                              stage : {"absent", "boot", "tailnet", "up"}]]
    BY <2>1, <2>2, NodeAdded
  <2>4. faults' \in [FaultKinds -> Nat]
    BY <1>18, ChargeType DEF JoinerUnanswered, FaultKinds
  <2>5. TypeOK'
    BY <1>18, <2>1, <2>3, <2>4, ReturnType DEF JoinerUnanswered, TypeOK
  <2>. QED
    BY <1>18, <2>3, <2>5, FS_AddElement DEF JoinerUnanswered, Return
<1>19. CASE Crash
  <2>1. faults' \in [FaultKinds -> Nat]
    BY <1>19, ChargeType DEF Crash, FaultKinds
  <2>2. TypeOK'
    <3>1. /\ NoCluster \in 0..clusters
          /\ NoCreds \in [source : Sources, cluster : 0..clusters]
      BY NothingHasType DEF TypeOK
    <3>. QED
      BY <1>19, <2>1, <3>1, NoErrors DEF Crash, TypeOK
  <2>. QED
    BY <1>19, <2>2, SameNodes DEF Crash
<1>20. ASSUME NEW i \in Ids, NodeStep(i)
       PROVE  Basics'
  <2>1. UNCHANGED <<command, clusters, fip, disk, process, interrupted, faults>>
    BY <1>20 DEF NodeStep, JoinTailnet, StartK3s
  <2>2. TypeOK'
    BY <1>20, <2>1, NodeMoved DEF TypeOK
  <2>. QED
    BY <1>20, <2>1, <2>2, NodeMoved
<1>21. ASSUME NEW i \in Losable, LoseNode(i)
       PROVE  Basics'
  <2>1. faults' \in [FaultKinds -> Nat]
    BY <1>21, ChargeType DEF LoseNode, FaultKinds
  <2>2. UNCHANGED <<command, clusters, kubeFile, made, next, missing, loaded,
                    interrupted>>
    BY <1>21 DEF LoseNode
  <2>3. /\ fip' \in Ids \cup {NotFound, Detached}
        /\ secrets' \subseteq secrets
        /\ chart' \in {chart, NoCluster}
        /\ where' \in {"local", where}
        /\ pc' \in {"down", pc}
        /\ looping' \in BOOLEAN
        /\ errCh' \in 0..ErrCap
        /\ creds' \in {creds, NoCreds}
        /\ pc' # "down" => creds' = creds
    BY <1>21, NoErrors DEF LoseNode, TypeOK
  <2>4. TypeOK'
    BY <1>21, <2>1, <2>2, <2>3, NodeLost DEF TypeOK, NoCluster, NoCreds, Sources
  <2>5. IsFiniteSet(Present')
    BY <1>21, NodeLost, FS_Subset
  <2>. QED
    BY <2>2, <2>3, <2>4, <2>5
<1>22. CASE UNCHANGED vars
  BY <1>22, SameNodes DEF vars, TypeOK
<1>. QED
  BY <1>1, <1>2, <1>3, <1>4, <1>5, <1>6, <1>7, <1>8, <1>9, <1>10, <1>11, <1>12,
     <1>13, <1>14, <1>15, <1>16, <1>17, <1>18, <1>19, <1>20, <1>21, <1>22,
     AbortsAreQuiet DEF Next, ManagerStep, ManagerFault

(* Every variable of the control plane keeps its type: the nodes made, the  *)
(* floating IP and the numbers of the loop stay within their bounds, for    *)
(* every Count, set of command lines and budget of faults.                 *)
THEOREM ControlPlaneTypeCorrect == Spec => []TypeOK
<1>1. Spec => []Basics
  BY BasicsInit, BasicsStep, PTL DEF Spec
<1>2. Basics => TypeOK
  BY DEF Basics
<1>. QED
  BY <1>1, <1>2, PTL

----------------------------------------------------------------------------
(* The number of nodes.                                                    *)

LEMMA SeenIsPresent ==
  ASSUME Basics, NoOvershoot, Count <= Page
  PROVE  Seen = Present
<1>. SUFFICES ASSUME NEW i \in Present
              PROVE  Cardinality({j \in Present : j <= i}) <= Page
  BY DEF Seen
<1>1. /\ IsFiniteSet({j \in Present : j <= i})
      /\ Cardinality({j \in Present : j <= i}) <= Cardinality(Present)
  BY FS_Subset DEF Basics
<1>2. /\ Cardinality({j \in Present : j <= i}) \in Nat
      /\ Cardinality(Present) \in Nat
  BY <1>1, FS_CardinalityType DEF Basics
<1>. QED
  BY <1>1, <1>2 DEF NoOvershoot

LEMMA OneMore ==
  ASSUME Basics, NEW i \in Ids, nodes[i] = Absent, Present' = Present \cup {i}
  PROVE  Cardinality(Present') = Cardinality(Present) + 1
<1>1. i \notin Present
  BY DEF Present
<1>. QED
  BY <1>1, FS_AddElement DEF Basics

LEMMA RoomInit == Init => Room
  BY FS_EmptySet DEF Init, Room, NoOvershoot, Present, Bootstrapping, FirstNode

LEMMA RoomStep ==
  ASSUME Count <= Page
  PROVE  Basics /\ Room /\ [Next]_vars => Room'
<1>. SUFFICES ASSUME Basics, Room, [Next]_vars PROVE Room'
  OBVIOUS
<1>. USE DEF Bootstrapping, FirstNode, oxide, disk, process, NoOvershoot
<1>0. Cardinality(Present) \in Nat /\ missing \in Int
  BY FS_CardinalityType DEF Basics, TypeOK
<1>1. CASE Quiet
  BY <1>1, SameNodes DEF Quiet, Abort, Room, Return
<1>2. CASE Start \/ EnsureControlPlaneIP \/ AttachIP \/ WaitForFirst \/ ReadToken
  BY <1>2, SameNodes
     DEF Start, EnsureControlPlaneIP, AttachIP, WaitForFirst, ReadToken, Goto, Room
<1>3. CASE ListNodes
  <2>1. Seen = Present
    BY SeenIsPresent DEF Room
  <2>2. missing' = Count - Cardinality(Present) /\ pc' \in {"init", "creds"}
        /\ (pc' = "init" => Present = {}) /\ Present' = Present
    BY <1>3, <2>1, SameNodes DEF ListNodes, Goto
  <2>3. Present = {} => Cardinality(Present) = 0
    BY FS_EmptySet
  <2>. QED
    BY <1>0, <2>2, <2>3 DEF Room
<1>4. CASE CreateFirst
  <2>1. /\ next = 0 /\ nodes[0] = Absent /\ missing' = missing - 1
        /\ NewNode(0, clusters + 1, TRUE) /\ pc = "init"
        /\ pc' \in {"wait", "attach"} /\ clusters' = clusters + 1
    BY <1>4 DEF CreateFirst, Goto, Basics, Numbered
  <2>2. /\ clusters' \in Nat /\ clusters <= clusters' /\ clusters + 1 \in 0..clusters'
        /\ TypeOK
    BY <2>1 DEF Basics, TypeOK
  <2>3. Present' = Present \cup {0}
    BY <2>1, <2>2, NodeAdded
  <2>4. Cardinality(Present') = Cardinality(Present) + 1
    BY <2>1, <2>3, OneMore
  <2>. QED
    BY <1>0, <2>1, <2>4 DEF Room
<1>5. CASE SaveSecret \/ SetClusterCreds \/ GetJoinToken
  BY <1>0, <1>5, SameNodes DEF SaveSecret, SetClusterCreds, GetJoinToken, Goto, Room
<1>6. ASSUME pc = "create", next \in Ids, nodes[next] = Absent,
             NewNode(next, creds.cluster, FALSE), UNCHANGED clusters
      PROVE  Cardinality(Present') = Cardinality(Present) + 1
  <2>1. /\ creds.cluster \in 0..clusters' /\ clusters' \in Nat
        /\ clusters <= clusters' /\ TypeOK
    BY <1>6 DEF Basics, TypeOK
  <2>2. Present' = Present \cup {next}
    BY <1>6, <2>1, NodeAdded
  <2>. QED
    BY <1>6, <2>2, OneMore
<1>7. CASE CreateJoiner
  BY <1>0, <1>6, <1>7 DEF CreateJoiner, Room
<1>8. CASE EnsureWorkerNodes \/ SaveKubeconfig \/ LoadHelmCharts \/ Wake
  BY <1>8, SameNodes
     DEF EnsureWorkerNodes, SaveKubeconfig, LoadHelmCharts, Wake, Goto, Room
<1>9. CASE FirstUnanswered
  <2>1. /\ next = 0 /\ nodes[0] = Absent
        /\ pc = "init" /\ pc' \in {"sleep", "exit", "blocked"}
        /\ NewNode(0, clusters + 1, TRUE) /\ clusters' = clusters + 1
    BY <1>9 DEF FirstUnanswered, Basics, Numbered, Return
  <2>2. /\ clusters' \in Nat /\ clusters <= clusters' /\ clusters + 1 \in 0..clusters'
        /\ TypeOK
    BY <2>1 DEF Basics, TypeOK
  <2>3. Present' = Present \cup {0}
    BY <2>1, <2>2, NodeAdded
  <2>4. Cardinality(Present') = Cardinality(Present) + 1
    BY <2>1, <2>3, OneMore
  <2>. QED
    BY <1>0, <2>1, <2>4 DEF Room
<1>10. CASE JoinerUnanswered
  BY <1>0, <1>6, <1>10 DEF JoinerUnanswered, Room, Return
<1>11. CASE Crash
  BY <1>11, SameNodes DEF Crash, Room
<1>12. ASSUME NEW i \in Ids, NodeStep(i)
       PROVE  Room'
  <2>1. Present' = Present
    BY <1>12, NodeMoved DEF Basics
  <2>. QED
    BY <1>12, <2>1 DEF NodeStep, JoinTailnet, StartK3s, Room
<1>13. ASSUME NEW i \in Losable, LoseNode(i)
       PROVE  Room'
  <2>1. Present' = Present \ {i}
    BY <1>13, NodeLost DEF Basics
  <2>2. Cardinality(Present') \in Nat /\ Cardinality(Present') <= Cardinality(Present)
    BY <2>1, FS_Subset, FS_CardinalityType DEF Basics
  <2>3. pc' \in {"down", pc} /\ missing' = missing
    BY <1>13 DEF LoseNode
  <2>. QED
    BY <1>0, <2>1, <2>2, <2>3 DEF Room
<1>14. CASE UNCHANGED vars
  BY <1>14, SameNodes DEF vars, Room
<1>. QED
  BY <1>1, <1>2, <1>3, <1>4, <1>5, <1>7, <1>8, <1>9, <1>10, <1>11, <1>12, <1>13,
     <1>14, AbortsAreQuiet DEF Next, ManagerStep, ManagerFault

(* There are never more control plane nodes than asked for, however many    *)
(* Executes fail, lose an answer or are cut off, if that many fit on the    *)
(* page the code lists.                                                    *)
THEOREM NeverTooManyNodes ==
  ASSUME Count <= Page
  PROVE  Spec => []NoOvershoot
<1>1. Basics /\ Room /\ [Next]_vars => (Basics /\ Room)'
  BY BasicsStep, RoomStep
<1>2. Init => Basics /\ Room
  BY BasicsInit, RoomInit
<1>3. Room => NoOvershoot
  BY DEF Room
<1>. QED
  BY <1>1, <1>2, <1>3, PTL DEF Spec

----------------------------------------------------------------------------
(* The cluster of the nodes.                                               *)

(* Whoever can read the secret of a cluster reaches a node of it.          *)
LEMMA ReachedNode ==
  ASSUME TypeOK, Reaches(creds)
  PROVE  \E i \in Present : nodes[i].cluster = creds.cluster
<1>1. PICK i \in Ids : i \in Up(creds.cluster)
  <2>1. CASE creds.source = "incluster"
    BY <2>1 DEF Reaches, Up
  <2>2. CASE creds.source \in {"provided", "default"}
    BY <2>2 DEF Reaches, Answers
  <2>. QED
    BY <2>1, <2>2 DEF Reaches
<1>. QED
  BY <1>1 DEF Up, Present, Absent

LEMMA JoiningInit == Init => Joining
  BY DEF Init, Joining, OneCluster, Present

LEMMA JoiningStep == Basics /\ Room /\ Joining /\ [Next]_vars => Joining'
<1>. SUFFICES ASSUME Basics, Room, Joining, [Next]_vars PROVE Joining'
  OBVIOUS
<1>. USE DEF oxide, disk, process, OneCluster
<1>1. CASE Quiet
  BY <1>1, SameNodes DEF Quiet, Abort, Joining, Return
<1>2. CASE Start \/ EnsureControlPlaneIP \/ ListNodes \/ AttachIP \/ WaitForFirst
  BY <1>2, SameNodes
     DEF Start, EnsureControlPlaneIP, ListNodes, AttachIP, WaitForFirst, Goto, Joining
<1>3. CASE ReadToken \/ SaveSecret \/ SetClusterCreds
  BY <1>3, SameNodes DEF ReadToken, SaveSecret, SetClusterCreds, Goto, Joining
<1>4. ASSUME pc = "init", pc' # "create", next = 0, nodes[0] = Absent,
             NewNode(0, clusters + 1, TRUE), clusters' = clusters + 1
      PROVE  Joining'
  <2>1. /\ clusters' \in Nat /\ clusters <= clusters' /\ clusters + 1 \in 0..clusters'
        /\ TypeOK
    BY <1>4 DEF Basics, TypeOK
  <2>2. Present' = Present \cup {0}
    BY <1>4, <2>1, NodeAdded
  <2>3. Present' = {0}
    BY <1>4, <2>2 DEF Room
  <2>. QED
    BY <1>4, <2>3 DEF Joining
<1>5. CASE CreateFirst
  BY <1>4, <1>5 DEF CreateFirst, Goto, Basics, Numbered
<1>6. CASE GetJoinToken
  <2>1. PICK i \in Present : nodes[i].cluster = creds.cluster
    BY <1>6, ReachedNode DEF GetJoinToken, SecretReadable, Basics
  <2>. QED
    BY <1>6, <2>1, SameNodes DEF GetJoinToken, Goto, Joining
<1>7. ASSUME pc = "create", next \in Ids, nodes[next] = Absent,
             NewNode(next, creds.cluster, FALSE), UNCHANGED <<clusters, creds>>
      PROVE  Joining'
  <2>1. /\ creds.cluster \in 0..clusters' /\ clusters' \in Nat
        /\ clusters <= clusters' /\ TypeOK
    BY <1>7 DEF Basics, TypeOK
  <2>2. /\ Present' = Present \cup {next}
        /\ nodes'[next] = [cluster |-> creds.cluster, first |-> FALSE, stage |-> "boot"]
        /\ \A j \in Ids : j # next => nodes'[j] = nodes[j]
    BY <1>7, <2>1, NodeAdded
  <2>3. \A i \in Present' : nodes'[i].cluster = creds.cluster
    <3>1. nodes'[next].cluster = creds.cluster
      BY <2>2
    <3>2. \A i \in Present : i # next => nodes'[i].cluster = creds.cluster
      BY <1>7, <2>2 DEF Joining, Present
    <3>. QED
      BY <2>2, <3>1, <3>2
  <2>. QED
    BY <1>7, <2>3 DEF Joining
<1>8. CASE CreateJoiner
  BY <1>7, <1>8 DEF CreateJoiner
<1>9. CASE EnsureWorkerNodes \/ SaveKubeconfig \/ LoadHelmCharts \/ Wake
  BY <1>9, SameNodes
     DEF EnsureWorkerNodes, SaveKubeconfig, LoadHelmCharts, Wake, Goto, Joining
<1>10. CASE FirstUnanswered
  BY <1>4, <1>10 DEF FirstUnanswered, Basics, Numbered, Return
<1>11. CASE JoinerUnanswered
  BY <1>7, <1>11 DEF JoinerUnanswered
<1>12. CASE Crash
  BY <1>12, SameNodes DEF Crash, Joining
<1>13. ASSUME NEW i \in Ids, NodeStep(i)
       PROVE  Joining'
  <2>1. /\ Present' = Present
        /\ \A j \in Ids : nodes'[j].cluster = nodes[j].cluster
    BY <1>13, NodeMoved DEF Basics
  <2>. QED
    BY <1>13, <2>1 DEF NodeStep, JoinTailnet, StartK3s, Joining, Present
<1>14. ASSUME NEW i \in Losable, LoseNode(i)
       PROVE  Joining'
  <2>1. /\ Present' = Present \ {i}
        /\ \A j \in Ids : j # i => nodes'[j] = nodes[j]
    BY <1>14, NodeLost DEF Basics
  <2>2. pc' = "down" \/ (pc' = pc /\ creds' = creds)
    BY <1>14 DEF LoseNode
  <2>. QED
    BY <2>1, <2>2 DEF Joining, Present
<1>15. CASE UNCHANGED vars
  BY <1>15, SameNodes DEF vars, Joining
<1>. QED
  BY <1>1, <1>2, <1>3, <1>5, <1>6, <1>8, <1>9, <1>10, <1>11, <1>12, <1>13, <1>14,
     <1>15, AbortsAreQuiet DEF Next, ManagerStep, ManagerFault

(* Nodes of two clusters never exist at once, whatever was deleted, failed  *)
(* or restarted before, if the nodes asked for fit on the listed page.      *)
THEOREM NeverTwoClusters ==
  ASSUME Count <= Page
  PROVE  Spec => []OneCluster
<1>1. Basics /\ Room /\ Joining /\ [Next]_vars => (Basics /\ Room /\ Joining)'
  BY BasicsStep, RoomStep, JoiningStep
<1>2. Init => Basics /\ Room /\ Joining
  BY BasicsInit, RoomInit, JoiningInit
<1>3. Joining => OneCluster
  BY DEF Joining
<1>. QED
  BY <1>1, <1>2, <1>3, PTL DEF Spec

----------------------------------------------------------------------------
(* Secrets before whatever leads to the cluster.                           *)

LEMMA SavedInit == Init => Saved
  BY DEF Init, Saved, PublishedAfterSecret

LEMMA SavedStep == Basics /\ Saved /\ [Next]_vars => Saved'
<1>. SUFFICES ASSUME Basics, Saved, [Next]_vars PROVE Saved'
  OBVIOUS
<1>. USE DEF oxide, disk, process, PublishedAfterSecret, Early, FirstNode
<1>0. TypeOK
  BY DEF Basics
<1>1. CASE Quiet
  <2>1. faults'["loss"] = faults["loss"]
    BY <1>0, <1>1, ChargeType DEF Quiet, FaultKinds
  <2>. QED
    BY <1>1, <2>1 DEF Quiet, Abort, Saved, Return
<1>2. CASE Start \/ EnsureControlPlaneIP \/ ListNodes \/ Wake
  BY <1>2 DEF Start, EnsureControlPlaneIP, ListNodes, Wake, Goto, Saved
<1>3. CASE CreateFirst \/ AttachIP \/ WaitForFirst
  BY <1>3 DEF CreateFirst, AttachIP, WaitForFirst, Goto, Saved
<1>4. CASE ReadToken
  BY <1>4 DEF ReadToken, Goto, Saved
<1>5. CASE SaveSecret
  BY <1>5 DEF SaveSecret, Goto, Saved, Basics, Numbered
<1>6. CASE SetClusterCreds
  BY <1>6 DEF SetClusterCreds, Goto, Saved
<1>7. CASE GetJoinToken
  BY <1>7 DEF GetJoinToken, SecretReadable, Goto, Saved
<1>8. CASE CreateJoiner
  BY <1>8 DEF CreateJoiner, Saved
<1>9. CASE EnsureWorkerNodes
  BY <1>9 DEF EnsureWorkerNodes, SecretReadable, Goto, Saved
<1>10. CASE SaveKubeconfig
  BY <1>10 DEF SaveKubeconfig, Saved
<1>11. CASE LoadHelmCharts
  BY <1>11 DEF LoadHelmCharts, Saved
<1>12. CASE FirstUnanswered \/ JoinerUnanswered \/ Crash
  <2>1. faults'["loss"] = faults["loss"]
    BY <1>0, <1>12, ChargeType DEF FirstUnanswered, JoinerUnanswered, Crash, FaultKinds
  <2>. QED
    BY <1>12, <2>1 DEF FirstUnanswered, JoinerUnanswered, Crash, Saved, Return
<1>13. ASSUME NEW i \in Ids, NodeStep(i)
       PROVE  Saved'
  BY <1>13 DEF NodeStep, JoinTailnet, StartK3s, Saved
<1>14. ASSUME NEW i \in Losable, LoseNode(i)
       PROVE  Saved'
  <2>1. faults'["loss"] # 0
    BY <1>0, <1>14, ChargeType DEF LoseNode, FaultKinds
  <2>2. pc' \in {"down", pc} /\ made' = made
    BY <1>14 DEF LoseNode
  <2>. QED
    BY <2>1, <2>2 DEF Saved
<1>15. CASE UNCHANGED vars
  BY <1>15 DEF vars, Saved
<1>. QED
  BY <1>1, <1>2, <1>3, <1>4, <1>5, <1>6, <1>7, <1>8, <1>9, <1>10, <1>11, <1>12,
     <1>13, <1>14, <1>15, AbortsAreQuiet DEF Next, ManagerStep, ManagerFault

(* The kubeconfig file and the chart never lead to a cluster whose secret   *)
(* was not saved, while no node was deleted.                               *)
THEOREM SecretComesFirst == Spec => []PublishedAfterSecret
<1>1. Basics /\ Saved /\ [Next]_vars => (Basics /\ Saved)'
  BY BasicsStep, SavedStep
<1>2. Init => Basics /\ Saved
  BY BasicsInit, SavedInit
<1>3. Saved => PublishedAfterSecret
  BY DEF Saved
<1>. QED
  BY <1>1, <1>2, <1>3, PTL DEF Spec

----------------------------------------------------------------------------
(* What a joiner needs, while no node was deleted.                         *)

LEMMA AttachedInit == Init => Attached
  BY DEF Init, Attached

LEMMA AttachedStep == Basics /\ Attached /\ [Next]_vars => Attached'
<1>. SUFFICES ASSUME Basics, Attached, [Next]_vars PROVE Attached'
  OBVIOUS
<1>. USE DEF oxide, disk, process, IPServes
<1>0. TypeOK
  BY DEF Basics
<1>1. CASE Quiet
  <2>1. faults'["loss"] = faults["loss"]
    BY <1>0, <1>1, ChargeType DEF Quiet, FaultKinds
  <2>. QED
    BY <1>1, <2>1 DEF Quiet, Abort, Attached, Return
<1>2. CASE Start \/ ListNodes \/ Wake
  BY <1>2 DEF Start, ListNodes, Wake, Goto, Attached
<1>3. CASE EnsureControlPlaneIP
  BY <1>3 DEF EnsureControlPlaneIP, Goto, Attached, NotFound
<1>4. ASSUME NEW i \in Ids, NEW k \in 0..clusters', NEW first \in BOOLEAN,
             nodes[i] = Absent, clusters <= clusters', clusters' \in Nat,
             NewNode(i, k, first)
      PROVE  \A j \in Ids : nodes[j].stage = "up" => nodes'[j].stage = "up"
  <2>1. \A j \in Ids : j # i => nodes'[j] = nodes[j]
    BY <1>0, <1>4, NodeAdded
  <2>2. nodes[i].stage # "up"
    BY <1>4 DEF Absent
  <2>. QED
    BY <2>1, <2>2
<1>5. CASE CreateFirst
  <2>1. /\ clusters' \in Nat /\ clusters <= clusters' /\ clusters + 1 \in 0..clusters'
        /\ next \in Ids
    BY <1>0, <1>5 DEF CreateFirst, Goto, TypeOK, Basics, Numbered
  <2>2. \A j \in Ids : nodes[j].stage = "up" => nodes'[j].stage = "up"
    BY <1>4, <1>5, <2>1 DEF CreateFirst
  <2>. QED
    BY <1>5, <2>2 DEF CreateFirst, Goto, Attached
<1>6. CASE AttachIP
  BY <1>6 DEF AttachIP, Goto, Attached, Basics, Numbered, FirstNode, Detached
<1>7. CASE WaitForFirst
  BY <1>7 DEF WaitForFirst, Goto, Attached
<1>8. CASE ReadToken
  BY <1>8 DEF ReadToken, Goto, Attached, Basics, Numbered, FirstNode
<1>9. CASE SaveSecret
  BY <1>9 DEF SaveSecret, Goto, Attached
<1>10. CASE SetClusterCreds \/ GetJoinToken \/ EnsureWorkerNodes \/ SaveKubeconfig
              \/ LoadHelmCharts
  BY <1>10 DEF SetClusterCreds, GetJoinToken, EnsureWorkerNodes, SaveKubeconfig,
     LoadHelmCharts, Goto, Attached
<1>11. CASE CreateJoiner \/ JoinerUnanswered
  <2>1. /\ clusters' \in Nat /\ clusters <= clusters' /\ creds.cluster \in 0..clusters'
    <3>1. clusters' = clusters
      BY <1>11 DEF CreateJoiner, JoinerUnanswered
    <3>. QED
      BY <1>0, <3>1 DEF TypeOK
  <2>2. \A j \in Ids : nodes[j].stage = "up" => nodes'[j].stage = "up"
    BY <1>4, <1>11, <2>1 DEF CreateJoiner, JoinerUnanswered
  <2>3. faults'["loss"] = faults["loss"]
    BY <1>0, <1>11, ChargeType DEF CreateJoiner, JoinerUnanswered, FaultKinds
  <2>4. /\ pc' \in {"workers", "create", "sleep", "exit", "blocked"}
        /\ UNCHANGED <<fip, secrets>>
    BY <1>11 DEF CreateJoiner, JoinerUnanswered, Return
  <2>. QED
    BY <2>2, <2>3, <2>4 DEF Attached
<1>12. CASE FirstUnanswered
  <2>1. /\ clusters' \in Nat /\ clusters <= clusters' /\ clusters + 1 \in 0..clusters'
        /\ next \in Ids
    BY <1>0, <1>12 DEF FirstUnanswered, TypeOK, Basics, Numbered
  <2>2. \A j \in Ids : nodes[j].stage = "up" => nodes'[j].stage = "up"
    BY <1>4, <1>12, <2>1 DEF FirstUnanswered
  <2>3. faults'["loss"] = faults["loss"]
    BY <1>0, <1>12, ChargeType DEF FirstUnanswered, FaultKinds
  <2>. QED
    BY <1>12, <2>2, <2>3 DEF FirstUnanswered, Attached, Return
<1>13. CASE Crash
  <2>1. faults'["loss"] = faults["loss"]
    BY <1>0, <1>13, ChargeType DEF Crash, FaultKinds
  <2>. QED
    BY <1>13, <2>1 DEF Crash, Attached
<1>14. ASSUME NEW i \in Ids, NodeStep(i)
       PROVE  Attached'
  <2>1. \A j \in Ids : nodes[j].stage = "up" => nodes'[j].stage = "up"
    BY <1>0, <1>14, NodeMoved
  <2>2. UNCHANGED <<command, fip, disk, process, faults>>
    BY <1>14 DEF NodeStep, JoinTailnet, StartK3s
  <2>. QED
    BY <2>1, <2>2 DEF Attached
<1>15. ASSUME NEW i \in Losable, LoseNode(i)
       PROVE  Attached'
  BY <1>0, <1>15, ChargeType DEF LoseNode, FaultKinds, Attached
<1>16. CASE UNCHANGED vars
  BY <1>16 DEF vars, Attached
<1>. QED
  BY <1>1, <1>2, <1>3, <1>5, <1>6, <1>7, <1>8, <1>9, <1>10, <1>11, <1>12, <1>13,
     <1>14, <1>15, <1>16, AbortsAreQuiet DEF Next, ManagerStep, ManagerFault

(* The property's action, under the invariants.                            *)
JoinerCan(i) ==
  /\ faults["loss"] = 0
  /\ nodes[i] = Absent /\ nodes'[i] # Absent /\ ~nodes'[i].first
  => nodes'[i].cluster \in secrets /\ JoinPossible(nodes'[i].cluster)

LEMMA OnlyJoinersAppear ==
  ASSUME Basics, [Next]_vars, NEW i \in Ids,
         nodes[i] = Absent, nodes'[i] # Absent, ~nodes'[i].first
  PROVE  /\ pc = "create"
         /\ nodes'[i].cluster = creds.cluster
<1>. USE DEF oxide, disk, process
<1>0. TypeOK
  BY DEF Basics
<1>1. ~UNCHANGED nodes
  OBVIOUS
<1>2. ASSUME NEW j \in Ids, NEW k \in 0..clusters', clusters <= clusters',
             clusters' \in Nat, NewNode(j, k, TRUE)
      PROVE  FALSE
  <2>1. /\ nodes'[j] = [cluster |-> k, first |-> TRUE, stage |-> "boot"]
        /\ \A m \in Ids : m # j => nodes'[m] = nodes[m]
    BY <1>0, <1>2, NodeAdded
  <2>2. nodes'[j].first
    BY <2>1
  <2>. QED
    BY <2>1, <2>2
<1>3. ~CreateFirst /\ ~FirstUnanswered
  <2>1. CreateFirst \/ FirstUnanswered =>
          /\ next \in Ids /\ clusters + 1 \in 0..clusters' /\ clusters <= clusters'
          /\ clusters' \in Nat /\ NewNode(next, clusters + 1, TRUE)
    <3>1. clusters + 1 \in 0..(clusters + 1) /\ clusters <= clusters + 1
          /\ clusters + 1 \in Nat
      BY <1>0 DEF TypeOK
    <3>2. CreateFirst =>
            /\ clusters' = clusters + 1 /\ NewNode(next, clusters + 1, TRUE)
            /\ pc = "init"
      BY DEF CreateFirst, Goto
    <3>3. FirstUnanswered =>
            /\ clusters' = clusters + 1 /\ NewNode(next, clusters + 1, TRUE)
            /\ pc = "init"
      BY DEF FirstUnanswered
    <3>. QED
      BY <3>1, <3>2, <3>3 DEF Basics, Numbered
  <2>. QED
    BY <1>2, <2>1
<1>4. ASSUME NEW j \in Ids, NodeStep(j)
      PROVE  FALSE
  BY <1>0, <1>4, NodeMoved DEF Present
<1>5. ASSUME NEW j \in Losable, LoseNode(j)
      PROVE  FALSE
  BY <1>0, <1>5, NodeLost DEF Present
<1>6. CreateJoiner \/ JoinerUnanswered
  BY <1>1, <1>3, <1>4, <1>5, AbortsAreQuiet
     DEF Next, ManagerStep, ManagerFault, vars, Quiet, Abort, Start,
         EnsureControlPlaneIP, ListNodes, AttachIP, WaitForFirst, ReadToken,
         SaveSecret, SetClusterCreds, GetJoinToken, EnsureWorkerNodes,
         SaveKubeconfig, LoadHelmCharts, Wake, Crash
<1>7. /\ pc = "create" /\ next \in Ids /\ NewNode(next, creds.cluster, FALSE)
      /\ clusters' = clusters
  BY <1>6 DEF CreateJoiner, JoinerUnanswered
<1>8. creds.cluster \in 0..clusters' /\ clusters' \in Nat /\ clusters <= clusters'
  BY <1>0, <1>7 DEF TypeOK
<1>9. /\ \A j \in Ids : j # next => nodes'[j] = nodes[j]
      /\ nodes'[next].cluster = creds.cluster
  <2>1. /\ \A j \in Ids : j # next => nodes'[j] = nodes[j]
        /\ nodes'[next] = [cluster |-> creds.cluster, first |-> FALSE, stage |-> "boot"]
    BY <1>0, <1>7, <1>8, NodeAdded
  <2>2. nodes'[next].cluster = creds.cluster
    BY <2>1
  <2>. QED
    BY <2>1, <2>2, Zenon
<1>. QED
  BY <1>7, <1>9

LEMMA JoinersCan ==
  ASSUME Basics, Joining, Saved, Attached, [Next]_vars, NEW i \in Ids
  PROVE  JoinerCan(i)
<1>. SUFFICES ASSUME faults["loss"] = 0, nodes[i] = Absent, nodes'[i] # Absent,
                     ~nodes'[i].first
              PROVE  nodes'[i].cluster \in secrets /\ JoinPossible(nodes'[i].cluster)
  BY DEF JoinerCan
<1>1. pc = "create" /\ nodes'[i].cluster = creds.cluster
  BY OnlyJoinersAppear
<1>2. creds.cluster \in secrets
  BY <1>1 DEF Saved
<1>3. fip \in Ids /\ nodes[fip].stage = "up"
  BY <1>2 DEF Attached, IPServes
<1>4. fip \in Present
  BY <1>3 DEF Present, Absent
<1>5. nodes[fip].cluster = creds.cluster
  BY <1>1, <1>4 DEF Joining
<1>. QED
  BY <1>1, <1>2, <1>3, <1>5 DEF JoinPossible, Answers, Up

(* A joining node is only ever created when its token is stored and the     *)
(* floating IP leads to a running node of its cluster, while no node was    *)
(* deleted and all nodes asked for fit on the listed page.                 *)
THEOREM JoinersAlwaysCanJoin ==
  ASSUME Count <= Page
  PROVE  Spec => JoinersCanJoin
<1>. DEFINE Inv == Basics /\ Room /\ Joining /\ Saved /\ Attached
<1>1. Init => Inv
  BY BasicsInit, RoomInit, JoiningInit, SavedInit, AttachedInit
<1>2. Inv /\ [Next]_vars => Inv'
  BY BasicsStep, RoomStep, JoiningStep, SavedStep, AttachedStep
<1>3. Inv /\ [Next]_vars =>
        [\A i \in Ids :
           /\ faults["loss"] = 0
           /\ nodes[i] = Absent /\ nodes'[i] # Absent /\ ~nodes'[i].first
           => nodes'[i].cluster \in secrets /\ JoinPossible(nodes'[i].cluster)]_vars
  BY JoinersCan DEF JoinerCan
<1>. QED
  BY <1>1, <1>2, <1>3, PTL DEF Spec, JoinersCanJoin

----------------------------------------------------------------------------
(* A cluster that vanished.                                                *)

LEMMA OwnCredsInit == Init => OwnCreds
  BY DEF Init, OwnCreds

LEMMA OwnCredsStep == Basics /\ OwnCreds /\ [Next]_vars => OwnCreds'
<1>. SUFFICES ASSUME Basics, OwnCreds, [Next]_vars PROVE OwnCreds'
  OBVIOUS
<1>. USE DEF oxide, disk, process
<1>1. CASE Quiet
  BY <1>1 DEF Quiet, Abort, OwnCreds, Return
<1>2. CASE Start \/ EnsureControlPlaneIP \/ Wake
  BY <1>2 DEF Start, EnsureControlPlaneIP, Wake, Goto, OwnCreds
<1>3. CASE ListNodes
  BY <1>3 DEF ListNodes, Refused, Goto, OwnCreds
<1>4. CASE CreateFirst \/ AttachIP \/ WaitForFirst
  BY <1>4 DEF CreateFirst, AttachIP, WaitForFirst, Goto, OwnCreds
<1>5. CASE ReadToken \/ SaveSecret \/ GetJoinToken \/ CreateJoiner
  <2>1. CASE ReadToken
    BY <2>1 DEF ReadToken, Goto, OwnCreds
  <2>2. CASE SaveSecret \/ GetJoinToken \/ CreateJoiner
    BY <2>2 DEF SaveSecret, GetJoinToken, CreateJoiner, Goto, OwnCreds
  <2>. QED
    BY <1>5, <2>1, <2>2
<1>6. CASE SetClusterCreds
  BY <1>6 DEF SetClusterCreds, DefaultCreds, Goto, OwnCreds
<1>7. CASE EnsureWorkerNodes
  BY <1>7 DEF EnsureWorkerNodes, Goto, OwnCreds
<1>8. CASE SaveKubeconfig
  BY <1>8 DEF SaveKubeconfig, OwnCreds
<1>9. CASE LoadHelmCharts
  BY <1>9 DEF LoadHelmCharts, OwnCreds
<1>10. CASE FirstUnanswered \/ JoinerUnanswered \/ Crash
  BY <1>10 DEF FirstUnanswered, JoinerUnanswered, Crash, OwnCreds, Return
<1>11. ASSUME NEW i \in Ids, NodeStep(i)
       PROVE  OwnCreds'
  BY <1>11 DEF NodeStep, JoinTailnet, StartK3s, OwnCreds
<1>12. ASSUME NEW i \in Losable, LoseNode(i)
       PROVE  OwnCreds'
  BY <1>12 DEF LoseNode, OwnCreds
<1>13. CASE UNCHANGED vars
  BY <1>13 DEF vars, OwnCreds
<1>. QED
  BY <1>1, <1>2, <1>3, <1>4, <1>5, <1>6, <1>7, <1>8, <1>9, <1>10, <1>11, <1>12,
     <1>13, AbortsAreQuiet DEF Next, ManagerStep, ManagerFault

LEMMA OnlyFromInit ==
  ASSUME [Next]_vars, pc # "init"
  PROVE  clusters' = clusters
<1>. USE DEF oxide, disk, process
<1>1. CASE Quiet
  BY <1>1 DEF Quiet, Abort
<1>2. ASSUME NEW i \in Ids, NodeStep(i)
      PROVE  clusters' = clusters
  BY <1>2 DEF NodeStep, JoinTailnet, StartK3s
<1>3. ASSUME NEW i \in Losable, LoseNode(i)
      PROVE  clusters' = clusters
  BY <1>3 DEF LoseNode
<1>4. CASE UNCHANGED vars
  BY <1>4 DEF vars
<1>. QED
  BY <1>1, <1>2, <1>3, <1>4, AbortsAreQuiet
     DEF Next, ManagerStep, ManagerFault, Start, EnsureControlPlaneIP, ListNodes,
         CreateFirst, AttachIP, WaitForFirst, ReadToken, SaveSecret, SetClusterCreds,
         GetJoinToken, CreateJoiner, EnsureWorkerNodes, SaveKubeconfig,
         LoadHelmCharts, Wake, FirstUnanswered, JoinerUnanswered, Crash, Goto

(* A local loop does not put a new cluster in the place of the one it made, *)
(* unless its flags or its default kubeconfig let it, for every number of   *)
(* nodes and every page.                                                   *)
THEOREM MadeClusterStays == Spec => MadeClusterNotReplaced
<1>1. Basics /\ OwnCreds /\ [Next]_vars => (Basics /\ OwnCreds)'
  BY BasicsStep, OwnCredsStep
<1>2. Init => Basics /\ OwnCreds
  BY BasicsInit, OwnCredsInit
<1>3. OwnCreds /\ [Next]_vars =>
        [looping /\ where = "local" /\ ~command.overwrite /\ ~command.defaultIsFile
           => clusters' = clusters]_vars
  BY OnlyFromInit DEF OwnCreds
<1>. QED
  BY <1>1, <1>2, <1>3, PTL DEF Spec, MadeClusterNotReplaced

================================================================================
