---------------------- MODULE ControlPlane_members_proofs ----------------------
(***************************************************************************)
(* Proofs about the members of the control plane: ControlPlane implements  *)
(* ClusterMembers, and what is never repaired stays as it is.              *)
(***************************************************************************)
EXTENDS ControlPlane_proofs

USE CountAssumption, CommandAssumption, NodeAssumption, FaultAssumption

----------------------------------------------------------------------------
(* Every node belongs to the cluster made last, and so will the next one.  *)
Latest ==
  /\ \A i \in Ids : nodes[i] = Absent \/ (nodes[i].cluster = clusters /\ clusters > 0)
  /\ pc = "create" => creds.cluster = clusters /\ clusters > 0

(* What changes the nodes.                                                 *)
NodesChange ==
  \/ CreateFirst \/ FirstUnanswered
  \/ CreateJoiner \/ JoinerUnanswered
  \/ \E i \in Ids : NodeStep(i)
  \/ \E i \in Losable : LoseNode(i)

LEMMA OtherStepsKeepNodes ==
  ASSUME [Next]_vars, ~NodesChange
  PROVE  UNCHANGED <<nodes, clusters>>
<1>. USE DEF oxide
<1>1. CASE Quiet
  BY <1>1 DEF Quiet, Abort
<1>2. CASE UNCHANGED vars
  BY <1>2 DEF vars
<1>. QED
  BY <1>1, <1>2, AbortsAreQuiet
     DEF NodesChange, Next, ManagerStep, ManagerFault, Start, EnsureControlPlaneIP,
         ListNodes, AttachIP, WaitForFirst, ReadToken, SaveSecret, SetClusterCreds,
         GetJoinToken, EnsureWorkerNodes, SaveKubeconfig, LoadHelmCharts, Wake, Crash

(* An answer that is lost makes the node all the same.                     *)
LEMMA FirstMade ==
  ASSUME Basics, Room, CreateFirst \/ FirstUnanswered
  PROVE  /\ NewNode(0, clusters + 1, TRUE) /\ clusters' = clusters + 1
         /\ Present = {} /\ pc = "init"
         /\ pc' \in {"wait", "attach", "sleep", "exit", "blocked"}
         /\ nodes'[0].cluster = clusters + 1 /\ nodes'[0].first
         /\ nodes'[0].stage = "boot" /\ nodes'[0] # Absent
         /\ \A j \in Ids : j # 0 => nodes'[j] = nodes[j]
<1>1. /\ NewNode(0, clusters + 1, TRUE) /\ clusters' = clusters + 1 /\ pc = "init"
      /\ pc' \in {"wait", "attach", "sleep", "exit", "blocked"}
  BY DEF CreateFirst, FirstUnanswered, Return, Goto, Basics, Numbered
<1>2. TypeOK
  BY DEF Basics
<1>3. /\ clusters' \in Nat /\ clusters <= clusters' /\ clusters + 1 \in 0..clusters'
  BY <1>1, <1>2 DEF TypeOK
<1>4. /\ nodes'[0] = [cluster |-> clusters + 1, first |-> TRUE, stage |-> "boot"]
      /\ \A j \in Ids : j # 0 => nodes'[j] = nodes[j]
  BY <1>1, <1>2, <1>3, NodeAdded
<1>5. /\ nodes'[0].cluster = clusters + 1 /\ nodes'[0].first
      /\ nodes'[0].stage = "boot"
  BY <1>4
<1>6. nodes'[0] # Absent
  BY <1>5 DEF Absent
<1>. QED
  BY <1>1, <1>4, <1>5, <1>6, Zenon DEF Room

LEMMA JoinerMade ==
  ASSUME Basics, CreateJoiner \/ JoinerUnanswered
  PROVE  /\ NewNode(next, creds.cluster, FALSE)
         /\ UNCHANGED <<clusters, creds, where, kubeFile>>
         /\ pc = "create" /\ next \in Ids /\ nodes[next] = Absent
         /\ nodes'[next].cluster = creds.cluster /\ ~nodes'[next].first
         /\ nodes'[next].stage = "boot"
         /\ \A j \in Ids : j # next => nodes'[j] = nodes[j]
<1>1. /\ NewNode(next, creds.cluster, FALSE)
      /\ UNCHANGED <<clusters, creds, where, kubeFile>>
      /\ pc = "create" /\ next \in Ids /\ nodes[next] = Absent
  BY DEF CreateJoiner, JoinerUnanswered, disk
<1>2. TypeOK
  BY DEF Basics
<1>3. creds.cluster \in 0..clusters' /\ clusters' \in Nat /\ clusters <= clusters'
  BY <1>1, <1>2 DEF TypeOK
<1>4. /\ nodes'[next] = [cluster |-> creds.cluster, first |-> FALSE, stage |-> "boot"]
      /\ \A j \in Ids : j # next => nodes'[j] = nodes[j]
  BY <1>1, <1>2, <1>3, NodeAdded
<1>5. /\ nodes'[next].cluster = creds.cluster /\ ~nodes'[next].first
      /\ nodes'[next].stage = "boot"
  BY <1>4
<1>. QED
  BY <1>1, <1>4, <1>5, Zenon

LEMMA LatestInit == Init => Latest
  BY DEF Init, Latest

LEMMA LatestStep == Basics /\ Room /\ Latest /\ [Next]_vars => Latest'
<1>. SUFFICES ASSUME Basics, Room, Latest, [Next]_vars PROVE Latest'
  OBVIOUS
<1>. USE DEF oxide, process
<1>0. TypeOK /\ clusters \in Nat
  BY DEF Basics, TypeOK
<1>1. CASE ~NodesChange
  <2>1. UNCHANGED <<nodes, clusters>>
    BY <1>1, OtherStepsKeepNodes
  <2>2. CASE GetJoinToken
    <3>1. PICK i \in Present : nodes[i].cluster = creds.cluster
      BY <1>0, <2>2, ReachedNode DEF GetJoinToken, SecretReadable
    <3>2. creds.cluster = clusters /\ clusters > 0
      BY <3>1 DEF Latest, Present
    <3>. QED
      BY <2>1, <2>2, <3>2 DEF GetJoinToken, Latest
  <2>3. CASE Quiet
    BY <2>1, <2>3 DEF Quiet, Abort, Return, Latest
  <2>4. CASE UNCHANGED vars
    BY <2>1, <2>4 DEF vars, Latest
  <2>5. CASE ~GetJoinToken /\ ~Quiet /\ ~UNCHANGED vars
    <3>1. pc' # "create"
      BY <1>1, <2>5, AbortsAreQuiet
         DEF NodesChange, Next, ManagerStep, ManagerFault, Start, EnsureControlPlaneIP,
             ListNodes, AttachIP, WaitForFirst, ReadToken, SaveSecret,
             SetClusterCreds, EnsureWorkerNodes, SaveKubeconfig, LoadHelmCharts,
             Wake, Crash, Goto
    <3>. QED
      BY <2>1, <3>1 DEF Latest
  <2>. QED
    BY <2>2, <2>3, <2>4, <2>5
<1>2. CASE CreateFirst \/ FirstUnanswered
  <2>1. \A j \in Ids : j # 0 => nodes'[j] = Absent
    BY <1>2, FirstMade DEF Present
  <2>2. /\ nodes'[0].cluster = clusters + 1 /\ clusters' = clusters + 1
        /\ pc' \in {"wait", "attach", "sleep", "exit", "blocked"}
    BY <1>2, FirstMade
  <2>3. nodes'[0].cluster = clusters' /\ clusters' > 0 /\ pc' # "create"
    BY <1>0, <2>2
  <2>. QED
    BY <2>1, <2>3 DEF Latest
<1>3. CASE CreateJoiner \/ JoinerUnanswered
  <2>1. nodes'[next].cluster = creds.cluster /\ UNCHANGED <<clusters, creds>>
    BY <1>3, JoinerMade
  <2>2. creds.cluster = clusters /\ clusters > 0
    BY <1>3, JoinerMade DEF Latest
  <2>. QED
    BY <1>3, <2>1, <2>2, JoinerMade DEF Latest
<1>4. ASSUME NEW i \in Ids, NodeStep(i) PROVE Latest'
  <2>1. PICK stage \in {"tailnet", "up"} :
          /\ nodes' = [nodes EXCEPT ![i].stage = stage]
          /\ nodes[i].stage \in {"boot", "tailnet"}
    BY <1>4 DEF NodeStep, JoinTailnet, StartK3s
  <2>2. nodes[i] # Absent
    BY <2>1 DEF Absent
  <2>3. nodes'[i].cluster = nodes[i].cluster /\ \A j \in Ids : j # i => nodes'[j] = nodes[j]
    BY <1>0, <2>1 DEF TypeOK
  <2>4. UNCHANGED <<clusters, pc, creds>>
    BY <1>4 DEF NodeStep, JoinTailnet, StartK3s
  <2>. QED
    BY <2>2, <2>3, <2>4 DEF Latest
<1>5. ASSUME NEW i \in Losable, LoseNode(i) PROVE Latest'
  <2>1. nodes'[i] = Absent /\ \A j \in Ids : j # i => nodes'[j] = nodes[j]
    BY <1>0, <1>5 DEF LoseNode, TypeOK
  <2>2. clusters' = clusters /\ (pc' = "down" \/ (pc' = pc /\ creds' = creds))
    BY <1>5 DEF LoseNode
  <2>. QED
    BY <2>1, <2>2 DEF Latest
<1>. QED
  BY <1>1, <1>2, <1>3, <1>4, <1>5 DEF NodesChange

----------------------------------------------------------------------------
(***************************************************************************)
(* The refinement: CreateFirst is Found, CreateJoiner is Join, StartK3s is *)
(* Serve, LoseNode is Lose, with or without an answer; the rest stutters.  *)
(***************************************************************************)
LEMMA MembersArePresent ==
  ASSUME Latest
  PROVE  Plane!Members = Present
<1>1. \A i \in Ids : [j \in Ids |-> nodes[j].cluster][i] # 0 <=> nodes[i] # Absent
  <2>1. Absent.cluster = 0
    BY DEF Absent, NoCluster
  <2>. QED
    BY <2>1 DEF Latest
<1>. QED
  BY <1>1 DEF Plane!Members, Present

LEMMA SameCardinality == \A S : Plane!Cardinality(S) = Cardinality(S)
  BY DEF Plane!Cardinality, Cardinality

LEMMA PlaneInit == Init => Plane!Init
  BY DEF Init, Plane!Init, Absent, NoCluster

LEMMA FirstIsFound ==
  ASSUME Basics, Room, Latest, CreateFirst \/ FirstUnanswered
  PROVE  Plane!Found(0)
<1>1. \A j \in Ids : nodes[j] = Absent
  BY FirstMade DEF Present
<1>2. /\ clusters' = clusters + 1
      /\ nodes'[0].cluster = clusters + 1 /\ nodes'[0].first /\ nodes'[0].stage = "boot"
      /\ \A j \in Ids : j # 0 => nodes'[j] = nodes[j]
  BY FirstMade
<1>3. Plane!Members = {}
  BY FirstMade, MembersArePresent
<1>4. [j \in Ids |-> nodes'[j].cluster] =
        [[j \in Ids |-> nodes[j].cluster] EXCEPT ![0] = clusters + 1]
  BY <1>2
<1>5. /\ {j \in Ids : nodes'[j].first} = {0}
      /\ {j \in Ids : nodes'[j].stage = "up"} = {j \in Ids : nodes[j].stage = "up"}
  <2>1. Absent.first = FALSE /\ Absent.stage # "up"
    BY DEF Absent
  <2>2. \A j \in Ids : nodes'[j].first <=> j = 0
    BY <1>1, <1>2, <2>1
  <2>3. \A j \in Ids : nodes'[j].stage # "up" /\ nodes[j].stage # "up"
    BY <1>1, <1>2, <2>1
  <2>. QED
    BY <2>2, <2>3
<1>. QED
  BY <1>2, <1>3, <1>4, <1>5 DEF Plane!Found

LEMMA JoinerIsJoin ==
  ASSUME Basics, Room, Latest, CreateJoiner \/ JoinerUnanswered
  PROVE  \E n \in Ids : Plane!Join(n)
<1>0. PICK n \in Ids : n = next
  BY JoinerMade
<1>1. /\ clusters' = clusters /\ nodes[n] = Absent
      /\ nodes'[n].cluster = creds.cluster /\ ~nodes'[n].first
      /\ nodes'[n].stage = "boot"
      /\ \A j \in Ids : j # n => nodes'[j] = nodes[j]
  BY <1>0, JoinerMade
<1>2. creds.cluster = clusters /\ clusters > 0
  BY JoinerMade DEF Latest
<1>3. n \notin Plane!Members
  BY <1>1, MembersArePresent DEF Present
<1>4. Plane!Cardinality(Plane!Members) < Count
  <2>1. Cardinality(Present) + missing <= Count /\ missing > 0
    BY JoinerMade DEF Room, Bootstrapping
  <2>2. Cardinality(Present) \in Nat /\ missing \in Int
    BY FS_CardinalityType DEF Basics, TypeOK
  <2>. QED
    BY <2>1, <2>2, MembersArePresent, SameCardinality
<1>5. [j \in Ids |-> nodes'[j].cluster] =
        [[j \in Ids |-> nodes[j].cluster] EXCEPT ![n] = clusters]
  BY <1>1, <1>2
<1>6. /\ {j \in Ids : nodes'[j].first} = {j \in Ids : nodes[j].first}
      /\ {j \in Ids : nodes'[j].stage = "up"} = {j \in Ids : nodes[j].stage = "up"}
  <2>1. ~nodes[n].first /\ nodes[n].stage # "up"
    BY <1>1 DEF Absent
  <2>2. \A j \in Ids : nodes'[j].first <=> nodes[j].first
    BY <1>1, <2>1
  <2>3. \A j \in Ids : nodes'[j].stage = "up" <=> nodes[j].stage = "up"
    BY <1>1, <2>1
  <2>. QED
    BY <2>2, <2>3
<1>7. Plane!Join(n)
  BY <1>1, <1>2, <1>3, <1>4, <1>5, <1>6 DEF Plane!Join
<1>. QED
  BY <1>7

LEMMA NodeStepServes ==
  ASSUME Basics, Latest, NEW i \in Ids, NodeStep(i)
  PROVE  Plane!Serve(i) \/ UNCHANGED Plane!vars
<1>0. TypeOK
  BY DEF Basics
<1>1. PICK stage \in {"tailnet", "up"} :
        /\ nodes' = [nodes EXCEPT ![i].stage = stage]
        /\ nodes[i].stage \in {"boot", "tailnet"}
        /\ stage = "up" => nodes[i].first \/ JoinPossible(nodes[i].cluster)
  BY DEF NodeStep, JoinTailnet, StartK3s
<1>2. /\ \A j \in Ids : nodes'[j].cluster = nodes[j].cluster
      /\ \A j \in Ids : nodes'[j].first = nodes[j].first
      /\ \A j \in Ids : j # i => nodes'[j].stage = nodes[j].stage
      /\ nodes'[i].stage = stage
  BY <1>0, <1>1 DEF TypeOK
<1>3. clusters' = clusters
  BY DEF NodeStep, JoinTailnet, StartK3s
<1>4. /\ [j \in Ids |-> nodes'[j].cluster] = [j \in Ids |-> nodes[j].cluster]
      /\ {j \in Ids : nodes'[j].first} = {j \in Ids : nodes[j].first}
  BY <1>2
<1>5. CASE stage = "tailnet"
  <2>1. {j \in Ids : nodes'[j].stage = "up"} = {j \in Ids : nodes[j].stage = "up"}
    BY <1>1, <1>2, <1>5
  <2>. QED
    BY <1>3, <1>4, <2>1 DEF Plane!vars
<1>6. CASE stage = "up"
  <2>1. i \in Plane!Members /\ nodes[i].stage # "up"
    BY <1>1, MembersArePresent DEF Present, Absent
  <2>2. nodes[i].first \/ {j \in Ids : nodes[j].stage = "up"} # {}
    BY <1>1, <1>6 DEF JoinPossible, Answers, Up
  <2>3. {j \in Ids : nodes'[j].stage = "up"} = {j \in Ids : nodes[j].stage = "up"} \cup {i}
    BY <1>2, <1>6
  <2>. QED
    BY <1>3, <1>4, <2>1, <2>2, <2>3 DEF Plane!Serve
<1>. QED
  BY <1>5, <1>6

LEMMA LossIsLose ==
  ASSUME Basics, Latest, NEW i \in Losable, LoseNode(i)
  PROVE  Plane!Lose(i)
<1>1. /\ nodes'[i] = Absent /\ \A j \in Ids : j # i => nodes'[j] = nodes[j]
      /\ i \in Ids /\ i \in Present /\ clusters' = clusters
  BY DEF LoseNode, Basics, TypeOK
<1>2. nodes'[i].cluster = 0 /\ ~nodes'[i].first /\ nodes'[i].stage # "up"
  BY <1>1 DEF Absent, NoCluster
<1>3. [j \in Ids |-> nodes'[j].cluster] =
        [[j \in Ids |-> nodes[j].cluster] EXCEPT ![i] = 0]
  BY <1>1, <1>2
<1>4. /\ {j \in Ids : nodes'[j].first} = {j \in Ids : nodes[j].first} \ {i}
      /\ {j \in Ids : nodes'[j].stage = "up"} = {j \in Ids : nodes[j].stage = "up"} \ {i}
  BY <1>1, <1>2
<1>. QED
  BY <1>1, <1>3, <1>4, MembersArePresent DEF Plane!Lose

LEMMA PlaneStep == Basics /\ Room /\ Latest /\ [Next]_vars => [Plane!Next]_(Plane!vars)
<1>. SUFFICES ASSUME Basics, Room, Latest, [Next]_vars
              PROVE  [Plane!Next]_(Plane!vars)
  OBVIOUS
<1>1. CASE ~NodesChange
  BY <1>1, OtherStepsKeepNodes DEF Plane!vars
<1>2. CASE CreateFirst \/ FirstUnanswered
  BY <1>2, FirstIsFound DEF Plane!Next
<1>3. CASE CreateJoiner \/ JoinerUnanswered
  <2>1. \E n \in Ids : Plane!Join(n)
    BY <1>3, JoinerIsJoin
  <2>. QED
    BY <2>1 DEF Plane!Next
<1>4. ASSUME NEW i \in Ids, NodeStep(i) PROVE [Plane!Next]_(Plane!vars)
  BY <1>4, NodeStepServes DEF Plane!Next
<1>5. ASSUME NEW i \in Losable, LoseNode(i) PROVE [Plane!Next]_(Plane!vars)
  BY <1>5, LossIsLose DEF Plane!Next
<1>. QED
  BY <1>1, <1>2, <1>3, <1>4, <1>5 DEF NodesChange

(* ensureClusterExists, restarted at any point and with any of its calls    *)
(* failing, implements one control plane at a time of at most the size      *)
(* asked for, if that many nodes fit on the listed page.                   *)
THEOREM ImplementsClusterMembers ==
  ASSUME Count <= Page
  PROVE  Spec => ImplementsMembers
<1>. DEFINE Inv == Basics /\ Room /\ Latest
<1>1. Init => Inv
  BY BasicsInit, RoomInit, LatestInit
<1>2. Inv /\ [Next]_vars => Inv'
  BY BasicsStep, RoomStep, LatestStep
<1>3. Init => Plane!Init
  BY PlaneInit
<1>4. Inv /\ [Next]_vars => [Plane!Next]_(Plane!vars)
  BY PlaneStep
<1>. QED
  BY <1>1, <1>2, <1>3, <1>4, PTL DEF Spec, ImplementsMembers, Plane!Spec

----------------------------------------------------------------------------
(***************************************************************************)
(* What is never repaired.  A pass that counted after the loss has 0 for   *)
(* the number of the next node, whose name is taken; an abandoned          *)
(* bootstrap never gets beyond the credentials it looks for.               *)
(***************************************************************************)
LEMMA NoNodeForMissing ==
  ASSUME Basics, NEW i \in Ids, MissingJoiner(i)
  PROVE  ~CreateFirst /\ ~FirstUnanswered /\ ~CreateJoiner /\ ~JoinerUnanswered
  BY DEF MissingJoiner, Bootstrapping, CreateFirst, FirstUnanswered, CreateJoiner,
     JoinerUnanswered, Goto

LEMMA MissingStays ==
  ASSUME Basics, NEW i \in Ids, MissingJoiner(i), [Next]_vars, nodes'[0] # Absent
  PROVE  MissingJoiner(i)'
<1>. USE DEF oxide, disk, process
<1>0. TypeOK
  BY DEF Basics
<1>1. nodes'[i] = Absent
  <2>1. ASSUME NEW j \in Ids, NodeStep(j) PROVE nodes'[i] = Absent
    BY <1>0, <2>1, NodeMoved DEF MissingJoiner, Present
  <2>2. ASSUME NEW j \in Losable, LoseNode(j) PROVE nodes'[i] = Absent
    BY <1>0, <2>2, NodeLost DEF MissingJoiner, Present
  <2>. QED
    BY <2>1, <2>2, NoNodeForMissing, OtherStepsKeepNodes DEF NodesChange, MissingJoiner
<1>2. pc' \in Bootstrapping => next' = 0
  <2>1. CASE Quiet
    BY <2>1 DEF Quiet, Abort, Return, Bootstrapping
  <2>2. CASE ListNodes
    BY <2>2, HighestIsNone DEF ListNodes
  <2>3. CASE \/ Start \/ EnsureControlPlaneIP \/ AttachIP \/ WaitForFirst \/ ReadToken
             \/ SaveSecret \/ SetClusterCreds \/ GetJoinToken \/ EnsureWorkerNodes
             \/ SaveKubeconfig \/ LoadHelmCharts \/ Wake \/ Crash
    BY <2>3
    DEF MissingJoiner, Bootstrapping, Start, EnsureControlPlaneIP, AttachIP,
        WaitForFirst, ReadToken, SaveSecret, SetClusterCreds, GetJoinToken,
        EnsureWorkerNodes, SaveKubeconfig, LoadHelmCharts, Wake, Crash, Goto
  <2>4. ASSUME NEW j \in Ids, NodeStep(j) PROVE pc' \in Bootstrapping => next' = 0
    BY <2>4 DEF MissingJoiner, NodeStep, JoinTailnet, StartK3s
  <2>5. ASSUME NEW j \in Losable, LoseNode(j) PROVE pc' \in Bootstrapping => next' = 0
    BY <2>5 DEF MissingJoiner, Bootstrapping, LoseNode
  <2>6. CASE UNCHANGED vars
    BY <2>6 DEF MissingJoiner, vars
  <2>. QED
    BY <2>1, <2>2, <2>3, <2>4, <2>5, <2>6, NoNodeForMissing, AbortsAreQuiet
       DEF Next, ManagerStep, ManagerFault
<1>. QED
  BY <1>1, <1>2 DEF MissingJoiner

(* The command that replaces a lost joiner does not exist: whatever runs,   *)
(* fails or restarts, a joiner that is missing when a pass begins stays     *)
(* missing until the first node is lost too, for any number of nodes and   *)
(* any page.                                                               *)
THEOREM LostJoinersStayLost == Spec => LostJoinerStays
<1>1. Basics /\ [Next]_vars =>
        [\A i \in Ids :
           MissingJoiner(i) /\ nodes'[0] # Absent => MissingJoiner(i)']_vars
  BY MissingStays
<1>. QED
  BY <1>1, BasicsInit, BasicsStep, PTL DEF Spec, LostJoinerStays

LEMMA AbandonedKeeps ==
  ASSUME Count <= Page, Basics, Room, Abandoned, [Next]_vars, Present' # {}
  PROVE  Abandoned' /\ Present' \subseteq Present
<1>. USE DEF Abandoned, oxide, disk, process
<1>0. TypeOK /\ Seen = Present
  BY SeenIsPresent DEF Basics, Room
<1>1. CASE Quiet
  BY <1>1, SameNodes DEF Quiet, Abort, Return
<1>2. CASE Start \/ EnsureControlPlaneIP \/ Crash
  BY <1>2, SameNodes DEF Start, EnsureControlPlaneIP, Crash, Goto
<1>3. CASE ListNodes
  BY <1>0, <1>3, SameNodes DEF ListNodes, Goto
<1>4. ~SetClusterCreds
  BY DEF SetClusterCreds, DefaultCreds
<1>5. /\ ~CreateFirst /\ ~AttachIP /\ ~WaitForFirst /\ ~ReadToken /\ ~SaveSecret
      /\ ~GetJoinToken /\ ~CreateJoiner /\ ~EnsureWorkerNodes /\ ~SaveKubeconfig
      /\ ~LoadHelmCharts /\ ~Wake /\ ~FirstUnanswered /\ ~JoinerUnanswered
  BY DEF CreateFirst, AttachIP, WaitForFirst, ReadToken, SaveSecret, GetJoinToken,
     CreateJoiner, EnsureWorkerNodes, SaveKubeconfig, LoadHelmCharts, Wake,
     FirstUnanswered, JoinerUnanswered, Goto
<1>6. ASSUME NEW i \in Ids, NodeStep(i) PROVE Abandoned' /\ Present' \subseteq Present
  BY <1>0, <1>6, NodeMoved DEF NodeStep, JoinTailnet, StartK3s
<1>7. ASSUME NEW i \in Losable, LoseNode(i) PROVE Abandoned' /\ Present' \subseteq Present
  <2>1. Present' = Present \ {i}
    BY <1>0, <1>7, NodeLost
  <2>2. where' = "local" /\ ~looping' /\ kubeFile' = kubeFile /\ pc' = pc
    BY <1>7 DEF LoseNode
  <2>. QED
    BY <2>1, <2>2
<1>8. CASE UNCHANGED vars
  BY <1>8, SameNodes DEF vars
<1>. QED
  BY <1>1, <1>2, <1>3, <1>4, <1>5, <1>6, <1>7, <1>8, AbortsAreQuiet
     DEF Next, ManagerStep, ManagerFault

(* A bootstrap that ended before its kubeconfig was saved is never taken    *)
(* up again while one of its nodes is left, by any number of repetitions,  *)
(* if the nodes asked for fit on the listed page.                          *)
THEOREM AbandonedForEver ==
  ASSUME Count <= Page
  PROVE  Spec => AbandonedStays
<1>1. Basics /\ Room /\ [Next]_vars => (Basics /\ Room)'
  BY BasicsStep, RoomStep
<1>2. Init => Basics /\ Room
  BY BasicsInit, RoomInit
<1>3. Basics /\ Room /\ [Next]_vars =>
        [Abandoned /\ Present' # {} => Abandoned' /\ Present' \subseteq Present]_vars
  BY AbandonedKeeps
<1>. QED
  BY <1>1, <1>2, <1>3, PTL DEF Spec, AbandonedStays

----------------------------------------------------------------------------
(* A pass that has made a first node finds that one under its name, or none. *)
FirstOfPass == pc \in FirstNode /\ nodes[0] # Absent => nodes[0].first

LEMMA FirstKept ==
  ASSUME TypeOK, [Next]_vars, NEW i \in Ids, nodes[i] # Absent, nodes'[i] # Absent
  PROVE  nodes'[i].first = nodes[i].first
<1>1. ASSUME NEW j \in Ids, NodeStep(j) PROVE nodes'[i].first = nodes[i].first
  <2>1. PICK stage : nodes' = [nodes EXCEPT ![j].stage = stage]
    BY <1>1 DEF NodeStep, JoinTailnet, StartK3s
  <2>. QED
    BY <2>1 DEF TypeOK
<1>2. ASSUME NEW j \in Losable, LoseNode(j) PROVE nodes'[i].first = nodes[i].first
  BY <1>2 DEF LoseNode, TypeOK
<1>3. CASE CreateFirst \/ FirstUnanswered \/ CreateJoiner \/ JoinerUnanswered
  BY <1>3 DEF CreateFirst, FirstUnanswered, CreateJoiner, JoinerUnanswered,
     NewNode, TypeOK
<1>. QED
  BY <1>1, <1>2, <1>3, OtherStepsKeepNodes DEF NodesChange

LEMMA FirstOfPassStep ==
  ASSUME Basics, Room, FirstOfPass, [Next]_vars
  PROVE  FirstOfPass'
<1>. USE DEF oxide, disk, process
<1>0. TypeOK
  BY DEF Basics
<1>1. CASE CreateFirst \/ FirstUnanswered
  BY <1>1, FirstMade DEF FirstOfPass
<1>2. CASE pc' \in FirstNode /\ pc \in FirstNode
  <2>1. CASE nodes[0] = Absent /\ nodes'[0] # Absent
    <3>1. ~CreateJoiner /\ ~JoinerUnanswered
      BY <1>2 DEF FirstNode, CreateJoiner, JoinerUnanswered
    <3>2. ASSUME NEW j \in Ids, NodeStep(j) PROVE FALSE
      BY <1>0, <2>1, <3>2, NodeMoved, CountAssumption DEF Present
    <3>3. ASSUME NEW j \in Losable, LoseNode(j) PROVE FALSE
      BY <1>0, <2>1, <3>3, NodeLost, CountAssumption DEF Present
    <3>. QED
      BY <1>1, <2>1, <3>1, <3>2, <3>3, OtherStepsKeepNodes DEF NodesChange
  <2>. QED
    BY <1>0, <1>2, <2>1, FirstKept, CountAssumption DEF FirstOfPass
<1>3. CASE pc' \in FirstNode /\ pc \notin FirstNode
  <2>1. CASE Quiet
    BY <1>3, <2>1 DEF Quiet, Abort, Return, FirstNode
  <2>2. CASE UNCHANGED vars
    BY <1>3, <2>2 DEF vars
  <2>3. ASSUME NEW j \in Ids, NodeStep(j) PROVE FALSE
    BY <1>3, <2>3 DEF NodeStep, JoinTailnet, StartK3s
  <2>4. ASSUME NEW j \in Losable, LoseNode(j) PROVE FALSE
    BY <1>3, <2>4 DEF LoseNode, FirstNode
  <2>5. CASE CreateJoiner \/ JoinerUnanswered
    BY <1>3, <2>5 DEF CreateJoiner, JoinerUnanswered, Return, FirstNode
  <2>6. CASE \/ Start \/ EnsureControlPlaneIP \/ ListNodes \/ AttachIP
             \/ WaitForFirst \/ ReadToken \/ SaveSecret
    BY <1>3, <2>6 DEF Start, EnsureControlPlaneIP, ListNodes, AttachIP,
       WaitForFirst, ReadToken, SaveSecret, Goto, FirstNode
  <2>7. CASE \/ SetClusterCreds \/ GetJoinToken \/ EnsureWorkerNodes
             \/ SaveKubeconfig \/ LoadHelmCharts \/ Wake \/ Crash
    BY <1>3, <2>7 DEF SetClusterCreds, GetJoinToken, EnsureWorkerNodes,
       SaveKubeconfig, LoadHelmCharts, Wake, Crash, Goto, FirstNode
  <2>. QED
    BY <1>1, <2>1, <2>2, <2>3, <2>4, <2>5, <2>6, <2>7, AbortsAreQuiet
       DEF Next, ManagerStep, ManagerFault
<1>. QED
  BY <1>2, <1>3 DEF FirstOfPass

(* The address stays where it is: only a first node gets it.                *)
LEMMA AddressStays ==
  ASSUME Basics, FirstOfPass, Headless, [Next]_vars
  PROVE  fip' = Detached
<1>. USE DEF oxide, disk, process
<1>1. ~AttachIP
  <2>1. ASSUME AttachIP PROVE FALSE
    <3>1. pc \in FirstNode /\ next = 1 /\ nodes[0] # Absent
      BY <2>1 DEF AttachIP, Goto, Basics, Numbered, FirstNode
    <3>. QED
      BY <3>1, CountAssumption DEF FirstOfPass, Headless, Present
  <2>. QED
    BY <2>1
<1>2. CASE Quiet
  BY <1>2 DEF Quiet, Abort, Headless
<1>3. CASE UNCHANGED vars
  BY <1>3 DEF vars, Headless
<1>4. ASSUME NEW j \in Ids, NodeStep(j) PROVE fip' = Detached
  BY <1>4 DEF NodeStep, JoinTailnet, StartK3s, Headless
<1>5. ASSUME NEW j \in Losable, LoseNode(j) PROVE fip' = Detached
  BY <1>5 DEF LoseNode, Headless
<1>. QED
  BY <1>1, <1>2, <1>3, <1>4, <1>5, AbortsAreQuiet
     DEF Headless, NotFound, Detached, Next, ManagerStep, ManagerFault, Start,
         EnsureControlPlaneIP, ListNodes, CreateFirst, WaitForFirst, ReadToken,
         SaveSecret, SetClusterCreds, GetJoinToken, CreateJoiner,
         EnsureWorkerNodes, SaveKubeconfig, LoadHelmCharts, Wake,
         FirstUnanswered, JoinerUnanswered, Crash

LEMMA HeadlessKeeps ==
  ASSUME Basics, Room, FirstOfPass, Headless, [Next]_vars, Present' # {}
  PROVE  /\ Headless'
         /\ \A i \in Ids : nodes'[i].stage = "up" => nodes[i].stage = "up"
<1>0. TypeOK /\ Present # {} /\ fip' = Detached
  BY AddressStays DEF Basics, Headless
<1>1. ~CreateFirst /\ ~FirstUnanswered
  BY <1>0, FirstMade
<1>2. CASE CreateJoiner \/ JoinerUnanswered
  <2>1. /\ next \in Ids /\ ~nodes'[next].first /\ nodes'[next].stage = "boot"
        /\ \A j \in Ids : j # next => nodes'[j] = nodes[j]
    BY <1>2, JoinerMade
  <2>. QED
    BY <1>0, <2>1 DEF Headless, Present
<1>3. ASSUME NEW j \in Ids, NodeStep(j)
      PROVE  /\ Headless'
             /\ \A i \in Ids : nodes'[i].stage = "up" => nodes[i].stage = "up"
  <2>1. ~StartK3s(j)
    <3>1. ASSUME StartK3s(j) PROVE FALSE
      <4>1. j \in Present
        BY <3>1 DEF StartK3s, Present, Absent
      <4>2. Detached \notin Ids
        BY CountAssumption DEF Detached
      <4>. QED
        BY <3>1, <4>1, <4>2 DEF StartK3s, JoinPossible, Headless
    <3>. QED
      BY <3>1
  <2>2. nodes[j].stage = "boot" /\ nodes' = [nodes EXCEPT ![j].stage = "tailnet"]
    BY <1>3, <2>1 DEF NodeStep, JoinTailnet
  <2>3. /\ \A i \in Ids : i # j => nodes'[i] = nodes[i]
        /\ nodes'[j].stage = "tailnet"
    BY <2>2 DEF TypeOK, Basics
  <2>4. Present' = Present
    BY <1>0, <1>3, NodeMoved
  <2>5. \A i \in Present : ~nodes'[i].first
    BY <1>0, <2>4, FirstKept DEF Headless, Present
  <2>. QED
    BY <1>0, <2>3, <2>4, <2>5 DEF Headless
<1>4. ASSUME NEW j \in Losable, LoseNode(j)
      PROVE  /\ Headless'
             /\ \A i \in Ids : nodes'[i].stage = "up" => nodes[i].stage = "up"
  <2>1. /\ Present' = Present \ {j}
        /\ \A i \in Ids : i # j => nodes'[i] = nodes[i]
    BY <1>0, <1>4, NodeLost
  <2>2. nodes'[j] = Absent /\ Absent.stage # "up"
    BY <1>0, <1>4, NodeAssumption DEF LoseNode, TypeOK, Absent
  <2>3. \A i \in Present' : ~nodes'[i].first
    BY <2>1 DEF Headless, Present
  <2>. QED
    BY <1>0, <2>1, <2>2, <2>3 DEF Headless
<1>5. CASE UNCHANGED nodes
  BY <1>0, <1>5, SameNodes DEF Headless
<1>. QED
  BY <1>1, <1>2, <1>3, <1>4, <1>5, OtherStepsKeepNodes DEF NodesChange

(* A cluster without its first node never gets another server, by no pass   *)
(* and no restart, as long as a node of it is left: for any number of nodes *)
(* that fits on the listed page.                                           *)
THEOREM HeadlessForEver ==
  ASSUME Count <= Page
  PROVE  Spec => HeadlessStays
<1>. DEFINE Inv == Basics /\ Room /\ FirstOfPass
<1>1. Inv /\ [Next]_vars => Inv'
  BY BasicsStep, RoomStep, FirstOfPassStep
<1>2. Init => Inv
  BY BasicsInit, RoomInit DEF Init, FirstOfPass, FirstNode
<1>3. Inv /\ [Next]_vars =>
        [Headless /\ Present' # {} =>
           /\ Headless'
           /\ \A i \in Ids : nodes'[i].stage = "up" => nodes[i].stage = "up"]_vars
  BY HeadlessKeeps
<1>. QED
  BY <1>1, <1>2, <1>3, PTL DEF Spec, HeadlessStays

================================================================================
