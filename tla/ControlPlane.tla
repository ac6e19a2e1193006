------------------------------ MODULE ControlPlane ------------------------------
(***************************************************************************)
(* The control-plane side of oxide-controller: ensureClusterExists, called *)
(* by Execute, with the start of the process before it and the saving of   *)
(* the kubeconfig and the pivot into the cluster after it (cmd/root.go).   *)
(*                                                                         *)
(* One controller runs at a time: first on the operator's machine, and,    *)
(* once the chart is deployed, as a pod of the cluster it made.  A cluster *)
(* is named by a number: the k-th node started with --cluster-init forms   *)
(* cluster k.                                                              *)
(***************************************************************************)
EXTENDS Integers, FiniteSets, FiniteSetsExt

CONSTANTS
  Count,          \* --control-plane-count
  Ids,            \* the numbers a control plane node can have in its name
  Commands,       \* the command lines the operator may use
  Page,           \* how many control plane nodes fit on the listed page
  Losable,        \* nodes somebody may delete
  Allowed         \* how many faults of each kind one behaviour may have

FaultKinds == {"failure", "crash", "loss"}

ASSUME CountAssumption == Count \in Nat \ {0} /\ Ids \subseteq Nat /\ 0 \in Ids
(***************************************************************************)
(* What a command line decides: whether control plane nodes get external   *)
(* addresses, whether a tailscale API key is given, --kubeconfig-overwrite, *)
(* whether the default kubeconfig is the file named by --kubeconfig, and   *)
(* whether the local controller deploys the chart and ends.                *)
(***************************************************************************)
Flags == [externalIP : BOOLEAN, tailscale : BOOLEAN, overwrite : BOOLEAN,
          defaultIsFile : BOOLEAN, pivot : BOOLEAN]

ASSUME CommandAssumption == Commands \subseteq Flags
ASSUME NodeAssumption == Page \in Nat /\ Losable \subseteq Ids
ASSUME FaultAssumption == Allowed \in [FaultKinds -> Nat]

VARIABLES
  command,       \* the flags the operator runs the command with
  nodes,         \* the control plane instances
  clusters,      \* how many nodes were started with --cluster-init
  fip,           \* the floating IP: where it is attached
  secrets,       \* the clusters that hold the controller's secret
  kubeFile,      \* the cluster the --kubeconfig file leads to, 0 if no file
  chart,         \* the cluster the chart is deployed in, 0 if none
  where,         \* the controller runs locally or as a pod
  pc,            \* where the controller is
  looping,       \* its first Execute has succeeded
  errCh,         \* the errors in errCh, which nobody receives
  creds,         \* c.apiConfig: its source and the cluster it leads to
  made,          \* newKubeconfig: the cluster this Execute created, or 0
  next,          \* ensureClusterExists: the number of the next node
  missing,       \* ensureClusterExists: how many nodes are to be created
  loaded,        \* the cluster the kubeconfig read at the start leads to
  interrupted,   \* history: a first Execute failed after a node existed
  faults         \* the faults so far

oxide == <<nodes, clusters, fip>>
disk == <<secrets, kubeFile, chart>>
process == <<where, pc, looping, errCh, creds, made, next, missing, loaded>>
vars == <<command, oxide, disk, process, interrupted, faults>>

ErrCap == 2      \* make(chan error, 2)

NotFound == -1   \* no floating IP of the prefix exists
Detached == -2   \* it exists and is attached to no instance
NotANumber == -1 \* what strconv.Atoi leaves of highest

NoCluster == 0
Sources == {"none", "provided", "default", "incluster"}
NoCreds == [source |-> "none", cluster |-> NoCluster]

Absent == [cluster |-> NoCluster, first |-> FALSE, stage |-> "absent"]
Present == {i \in Ids : nodes[i] # Absent}
Up(k) == {i \in Ids : nodes[i].cluster = k /\ nodes[i].stage = "up"}

Executing == {"ip", "list", "init", "attach", "wait", "attachLate", "token",
              "secret", "creds", "join", "create", "workers"}

TypeOK ==
  /\ command \in Commands
  /\ nodes \in [Ids -> [cluster : 0..clusters, first : BOOLEAN,
                        stage : {"absent", "boot", "tailnet", "up"}]]
  /\ clusters \in Nat
  /\ fip \in Ids \cup {NotFound, Detached}
  /\ secrets \subseteq 1..clusters
  /\ kubeFile \in 0..clusters
  /\ chart \in 0..clusters
  /\ where \in {"local", "pod"}
  /\ pc \in Executing \cup {"down", "exit", "save", "pivot", "sleep",
                         "blocked"}
  /\ looping \in BOOLEAN
  /\ errCh \in 0..ErrCap
  /\ creds \in [source : Sources, cluster : 0..clusters]
  /\ made \in 0..clusters
  /\ next \in Nat
  /\ missing \in Int
  /\ loaded \in 0..clusters
  /\ interrupted \in BOOLEAN
  /\ faults \in [FaultKinds -> Nat]

Init ==
  /\ command \in Commands
  /\ nodes = [i \in Ids |-> Absent]
  /\ clusters = 0
  /\ fip = NotFound
  /\ secrets = {}
  /\ kubeFile = NoCluster
  /\ chart = NoCluster
  /\ where = "local"
  /\ pc = "down"
  /\ looping = FALSE
  /\ errCh = 0
  /\ creds = NoCreds
  /\ made = NoCluster
  /\ next = 0
  /\ missing = 0
  /\ loaded = NoCluster
  /\ interrupted = FALSE
  /\ faults = [k \in FaultKinds |-> 0]

Charge(kind) ==
  /\ faults[kind] < Allowed[kind]
  /\ faults' = [faults EXCEPT ![kind] = @ + 1]

(***************************************************************************)
(* The node a kubeconfig's server address is on.  The kubeconfig is made   *)
(* with the address the first node was reached at: its external or tailnet *)
(* address, which goes with that node, or the floating IP.                 *)
(***************************************************************************)
Answers(i, k) == i \in Up(k)

Reaches(c) ==
  CASE c.source = "incluster" -> Up(c.cluster) # {}
    [] c.source \in {"provided", "default"} ->
         IF command.externalIP \/ command.tailscale
           THEN Answers(0, c.cluster) /\ nodes[0].first
           ELSE fip \in Ids /\ Answers(fip, c.cluster)
    [] OTHER -> FALSE

SecretReadable == Reaches(creds) /\ creds.cluster \in secrets

----------------------------------------------------------------------------
(* The process.                                                            *)

Goto(from, to) == pc = from /\ pc' = to

(***************************************************************************)
(* The operator runs the command, and runs it again while it has not       *)
(* pivoted; the StatefulSet starts the pod, which must read the secret.    *)
(***************************************************************************)
Start ==
  /\ pc \in {"down", "exit"}
  /\ where = "pod" => chart \in secrets
  /\ pc' = "ip"
  /\ loaded' = IF where = "local" THEN kubeFile ELSE NoCluster
  /\ creds' = NoCreds
  /\ made' = NoCluster
  /\ looping' = FALSE
  /\ errCh' = 0
  /\ UNCHANGED <<command, oxide, disk, where, next, missing, interrupted,
                 faults>>

(***************************************************************************)
(* What becomes of an error of Execute: before the loop it ends the        *)
(* process; the loop sends it on errCh and sleeps, or, when errCh is full, *)
(* waits for ever to send it.                                              *)
(***************************************************************************)
Return ==
  \/ ~looping /\ pc' = "exit" /\ UNCHANGED errCh
  \/ looping /\ errCh < ErrCap /\ pc' = "sleep" /\ errCh' = errCh + 1
  \/ looping /\ errCh = ErrCap /\ pc' = "blocked" /\ UNCHANGED errCh

(* Execute returns an error.                                               *)
Abort ==
  /\ Return
  /\ made' = NoCluster
  /\ interrupted' =
       (interrupted \/ (where = "local" /\ ~looping /\ Present # {}))
  /\ UNCHANGED <<command, oxide, disk, where, looping, creds, next, missing,
                 loaded>>

(* ensureControlPlaneIP creates the floating IP when it finds none.        *)
EnsureControlPlaneIP ==
  /\ Goto("ip", "list")
  /\ fip' = IF fip = NotFound THEN Detached ELSE fip
  /\ UNCHANGED <<command, nodes, clusters, disk, where, looping, errCh, creds,
                 made, next, missing, loaded, interrupted, faults>>

(* Mutant: the host name ends in the number of the node.                    *)
SuffixNumber(i) == i

(***************************************************************************)
(* The number in an instance's host name.  CreateInstance makes it         *)
(* <name>-<8 random characters>, which is never a number after the prefix. *)
(***************************************************************************)
Suffix(i) == NotANumber

Highest(seen) == Max({NotANumber} \cup {Suffix(i) : i \in seen})

(* The page holds 32 instances of any kind, in the order of their names.   *)
Seen == {i \in Present : Cardinality({j \in Present : j <= i}) <= Page}

(* Mutant: only the default kubeconfig stops a new cluster.                 *)
RefusedByDefault(seen) ==
  seen = {} /\ creds.source = "default" /\ ~command.overwrite

(* No nodes, and a cluster this process made itself: not created again.    *)
Refused(seen) == seen = {} /\ creds.source = "provided" /\ ~command.overwrite

(* Mutant: the number after the highest is not taken.                       *)
ListWithoutIncrement ==
  /\ ~Refused(Seen)
  /\ Goto("list", IF Seen = {} THEN "init" ELSE "creds")
  /\ next' = Highest(Seen)
  /\ missing' = Count - Cardinality(Seen)
  /\ UNCHANGED <<command, oxide, disk, where, looping, errCh, creds, made,
                 loaded, interrupted, faults>>

(* Mutant: too few nodes are handled as no nodes.                           *)
ListAsInit ==
  /\ ~Refused(Seen)
  /\ Goto("list", IF Cardinality(Seen) < Count THEN "init" ELSE "creds")
  /\ next' = Highest(Seen) + 1
  /\ missing' = Count - Cardinality(Seen)
  /\ UNCHANGED <<command, oxide, disk, where, looping, errCh, creds, made,
                 loaded, interrupted, faults>>

ListNodes ==
  /\ ~Refused(Seen)
  /\ Goto("list", IF Seen = {} THEN "init" ELSE "creds")
  /\ next' = Highest(Seen) + 1
  /\ missing' = Count - Cardinality(Seen)
  /\ UNCHANGED <<command, oxide, disk, where, looping, errCh, creds, made,
                 loaded, interrupted, faults>>

ListRefused ==
  /\ pc = "list"
  /\ Refused(Seen)
  /\ Abort
  /\ UNCHANGED faults

----------------------------------------------------------------------------
(* The first node.                                                         *)

NewNode(i, k, first) ==
  nodes' =
    [nodes EXCEPT ![i] = [cluster |-> k, first |-> first, stage |-> "boot"]]

(* CreateControlPlaneNodes(true, 1, 0)                                     *)
CreateFirst ==
  /\ Goto("init", IF command.externalIP THEN "wait" ELSE "attach")
  /\ nodes[next] = Absent
  /\ clusters' = clusters + 1
  /\ NewNode(next, clusters + 1, TRUE)
  /\ next' = next + 1
  /\ missing' = missing - 1
  /\ UNCHANGED <<command, fip, disk, where, looping, errCh, creds, made,
                 loaded, interrupted, faults>>

(* The floating IP of a project is attached to one instance at most.       *)
AttachIP ==
  /\ \/ Goto("attach", "wait")
     \/ Goto("attachLate", "token")
  /\ fip = Detached
  /\ nodes[next - 1] # Absent
  /\ fip' = next - 1
  /\ UNCHANGED <<command, nodes, clusters, disk, where, looping, errCh, creds,
                 made, next, missing, loaded, interrupted, faults>>

AttachRefused ==
  /\ pc \in {"attach", "attachLate"}
  /\ fip # Detached \/ nodes[next - 1] = Absent
  /\ Abort
  /\ UNCHANGED faults

(***************************************************************************)
(* The wait ends when the API answers or, with tailscale, when the node    *)
(* has an address on the tailnet.                                          *)
(***************************************************************************)
Ready(i) ==
  nodes[i].stage \in (IF command.tailscale THEN {"tailnet", "up"} ELSE {"up"})

(* Mutant: the floating IP is never attached to a node with its own address. *)
WaitThenToken ==
  /\ Goto("wait", "token")
  /\ Ready(next - 1)
  /\ UNCHANGED <<command, oxide, disk, where, looping, errCh, creds, made,
                 next, missing, loaded, interrupted, faults>>

WaitForFirst ==
  /\ Goto("wait", IF command.externalIP THEN "attachLate" ELSE "token")
  /\ Ready(next - 1)
  /\ UNCHANGED <<command, oxide, disk, where, looping, errCh, creds, made,
                 next, missing, loaded, interrupted, faults>>

(* initWait is over: the node is late, or is gone and will never answer.   *)
WaitTimeout ==
  /\ pc = "wait"
  /\ ~Ready(next - 1)
  /\ Charge("failure")
  /\ Abort

WaitInVain ==
  /\ pc = "wait"
  /\ nodes[next - 1] = Absent
  /\ Abort
  /\ UNCHANGED faults

(* Mutant: the kubeconfig is saved as soon as it is known.                  *)
ReadTokenAndSave ==
  /\ Goto("token", "secret")
  /\ nodes[next - 1].stage = "up"
  /\ creds' = [source |-> "provided", cluster |-> clusters]
  /\ made' = clusters
  /\ kubeFile' = clusters
  /\ UNCHANGED <<command, oxide, secrets, chart, where, looping, errCh, next,
                 missing, loaded, interrupted, faults>>

(* Both files are read over ssh and exist once k3s is up; then             *)
(* setClusterCreds(newKubeconfig).                                         *)
ReadToken ==
  /\ Goto("token", "secret")
  /\ nodes[next - 1].stage = "up"
  /\ creds' = [source |-> "provided", cluster |-> clusters]
  /\ made' = clusters
  /\ UNCHANGED <<command, oxide, disk, where, looping, errCh, next, missing,
                 loaded, interrupted, faults>>

TokenMissing ==
  /\ pc = "token"
  /\ nodes[next - 1].stage # "up"
  /\ Abort
  /\ UNCHANGED faults

(* createNamespace and saveSecret.                                         *)
SaveSecret ==
  /\ Goto("secret", "join")
  /\ Reaches(creds)
  /\ secrets' = secrets \cup {creds.cluster}
  /\ UNCHANGED <<command, oxide, kubeFile, chart, where, looping, errCh, creds,
                 made, next, missing, loaded, interrupted, faults>>

----------------------------------------------------------------------------
(* An existing cluster, and the other nodes of a new one.                  *)

(* Mutant: the pod's own credentials are not tried.                         *)
FileCreds ==
  IF command.defaultIsFile /\ kubeFile # NoCluster
    THEN [source |-> "default", cluster |-> kubeFile]
    ELSE NoCreds

(***************************************************************************)
(* setClusterCreds(nil) takes the pod's own credentials or the default     *)
(* kubeconfig; it does not know the file named by --kubeconfig.            *)
(***************************************************************************)
DefaultCreds ==
  IF where = "pod" THEN [source |-> "incluster", cluster |-> chart]
  ELSE IF command.defaultIsFile /\ kubeFile # NoCluster
         THEN [source |-> "default", cluster |-> kubeFile]
         ELSE NoCreds

SetClusterCreds ==
  /\ DefaultCreds # NoCreds
  /\ Goto("creds", IF missing <= 0 THEN "workers" ELSE "join")
  /\ creds' = DefaultCreds
  /\ UNCHANGED <<command, oxide, disk, where, looping, errCh, made, next,
                 missing, loaded, interrupted, faults>>

NoCredentials ==
  /\ pc = "creds"
  /\ DefaultCreds = NoCreds
  /\ Abort
  /\ UNCHANGED faults

(* GetJoinToken and GetUserSSHPublicKey; with no node to create it is done. *)
GetJoinToken ==
  /\ SecretReadable
  /\ Goto("join", IF missing <= 0 THEN "workers" ELSE "create")
  /\ UNCHANGED <<command, oxide, disk, where, looping, errCh, creds, made,
                 next, missing, loaded, interrupted, faults>>

(* Mutant: the loop runs once too often.                                    *)
CreateJoinerTooMany ==
  /\ pc = "create"
  /\ next \in Ids
  /\ nodes[next] = Absent
  /\ NewNode(next, creds.cluster, FALSE)
  /\ next' = next + 1
  /\ missing' = missing - 1
  /\ pc' = IF missing = 0 THEN "workers" ELSE "create"
  /\ UNCHANGED <<command, clusters, fip, disk, where, looping, errCh, creds,
                 made, loaded, interrupted, faults>>

(* One turn of the loop of CreateControlPlaneNodes(false, count, highest). *)
CreateJoiner ==
  /\ pc = "create"
  /\ next \in Ids
  /\ nodes[next] = Absent
  /\ NewNode(next, creds.cluster, FALSE)
  /\ next' = next + 1
  /\ missing' = missing - 1
  /\ pc' = IF missing = 1 THEN "workers" ELSE "create"
  /\ UNCHANGED <<command, clusters, fip, disk, where, looping, errCh, creds,
                 made, loaded, interrupted, faults>>

NameTaken ==
  /\ pc \in {"init", "create"}
  /\ next \in Ids
  /\ nodes[next] # Absent
  /\ Abort
  /\ UNCHANGED faults

(* EnsureWorkerNodes, as far as this module sees it, and the return.       *)
EnsureWorkerNodes ==
  /\ SecretReadable
  /\ Goto("workers", IF looping THEN "sleep" ELSE "save")
  /\ UNCHANGED <<command, oxide, disk, where, looping, errCh, creds, made,
                 next, missing, loaded, interrupted, faults>>

(* A call to a cluster whose API does not answer, or without the secret.   *)
Unreachable ==
  /\ \/ pc = "secret" /\ ~Reaches(creds)
     \/ pc \in {"join", "workers"} /\ ~SecretReadable
  /\ Abort
  /\ UNCHANGED faults

----------------------------------------------------------------------------
(* After the first Execute.                                                *)

Saves == made # NoCluster /\ (loaded = NoCluster \/ command.overwrite)

(***************************************************************************)
(* A pod writes the file where nobody reads it again.  With the loop the   *)
(* REST server starts, whose one error takes a place of errCh if it ends.  *)
(***************************************************************************)
SaveKubeconfig ==
  /\ pc = "save"
  /\ kubeFile' = IF Saves /\ where = "local" THEN made ELSE kubeFile
  /\ IF command.pivot /\ where = "local"
       THEN pc' = "pivot" /\ UNCHANGED <<looping, errCh, made>>
       ELSE /\ pc' = "ip"
            /\ looping' = TRUE
            /\ errCh' \in {0, 1}
            /\ made' = NoCluster
  /\ UNCHANGED <<command, oxide, secrets, chart, where, creds, next, missing,
                 loaded, interrupted, faults>>

(* LoadHelmCharts; the local process ends and the pod takes over.          *)
LoadHelmCharts ==
  /\ pc = "pivot"
  /\ Reaches(creds)
  /\ chart' = creds.cluster
  /\ where' = "pod"
  /\ pc' = "down"
  /\ UNCHANGED <<command, oxide, secrets, kubeFile, looping, errCh, creds,
                 made, next, missing, loaded, interrupted, faults>>

PivotFails ==
  /\ pc = "pivot"
  /\ ~Reaches(creds)
  /\ Abort
  /\ UNCHANGED faults

Wake ==
  /\ Goto("sleep", "ip")
  /\ made' = NoCluster
  /\ UNCHANGED <<command, oxide, disk, where, looping, errCh, creds, next,
                 missing, loaded, interrupted, faults>>

----------------------------------------------------------------------------
(* Faults.                                                                 *)

(* Any call of Execute, SaveFile or the pivot may fail without effect.     *)
Fail ==
  /\ pc \in Executing \cup {"pivot"} \/ (pc = "save" /\ Saves)
  /\ Charge("failure")
  /\ Abort

(* The first node was created and the answer was lost.                     *)
FirstUnanswered ==
  /\ pc = "init"
  /\ nodes[next] = Absent
  /\ Charge("failure")
  /\ clusters' = clusters + 1
  /\ NewNode(next, clusters + 1, TRUE)
  /\ Return
  /\ interrupted' = (interrupted \/ (where = "local" /\ ~looping))
  /\ UNCHANGED <<command, fip, disk, where, looping, creds, made, next,
                 missing, loaded>>

JoinerUnanswered ==
  /\ pc = "create"
  /\ next \in Ids
  /\ nodes[next] = Absent
  /\ Charge("failure")
  /\ NewNode(next, creds.cluster, FALSE)
  /\ Return
  /\ interrupted' = (interrupted \/ (where = "local" /\ ~looping))
  /\ UNCHANGED <<command, clusters, fip, disk, where, looping, creds, made,
                 next, missing, loaded>>

Crash ==
  /\ pc \notin {"down", "exit"}
  /\ Charge("crash")
  /\ pc' = "down"
  /\ looping' = FALSE
  /\ errCh' = 0
  /\ creds' = NoCreds
  /\ made' = NoCluster
  /\ interrupted' =
       (interrupted \/ (where = "local" /\ ~looping /\ Present # {}))
  /\ UNCHANGED <<command, oxide, disk, where, next, missing, loaded>>

(***************************************************************************)
(* Somebody deletes a node.  What a cluster stores goes with its last      *)
(* running node, and so does the pod.                                      *)
(***************************************************************************)
LoseNode(i) ==
  /\ i \in Present
  /\ Charge("loss")
  /\ nodes' = [nodes EXCEPT ![i] = Absent]
  /\ fip' = IF fip = i THEN Detached ELSE fip
  /\ LET dead == {k \in 1..clusters : Up(k) \subseteq {i}}
         podDies == where = "pod" /\ chart \in dead
     IN  /\ secrets' = secrets \ dead
         /\ chart' = IF chart \in dead THEN NoCluster ELSE chart
         /\ where' = IF podDies THEN "local" ELSE where
         /\ pc' = IF podDies THEN "down" ELSE pc
         /\ looping' = (looping /\ ~podDies)
         /\ errCh' = IF podDies THEN 0 ELSE errCh
         /\ creds' = IF podDies THEN NoCreds ELSE creds
  /\ UNCHANGED <<command, clusters, kubeFile, made, next, missing, loaded,
                 interrupted>>

----------------------------------------------------------------------------
(* The nodes: what their cloud-config makes them do.                       *)

JoinTailnet(i) ==
  /\ command.tailscale
  /\ nodes[i].stage = "boot"
  /\ nodes' = [nodes EXCEPT ![i].stage = "tailnet"]
  /\ UNCHANGED <<command, clusters, fip, disk, process, interrupted, faults>>

(* A joiner starts k3s with --server https://<floating IP>:6443.           *)
JoinPossible(k) == fip \in Ids /\ Answers(fip, k)

StartK3s(i) ==
  /\ nodes[i].stage = IF command.tailscale THEN "tailnet" ELSE "boot"
  /\ nodes[i].first \/ JoinPossible(nodes[i].cluster)
  /\ nodes' = [nodes EXCEPT ![i].stage = "up"]
  /\ UNCHANGED <<command, clusters, fip, disk, process, interrupted, faults>>

ManagerStep ==
  \/ Start \/ EnsureControlPlaneIP \/ ListNodes \/ ListRefused
  \/ CreateFirst \/ AttachIP \/ AttachRefused \/ WaitForFirst \/ WaitInVain
  \/ ReadToken \/ TokenMissing \/ SaveSecret
  \/ SetClusterCreds \/ NoCredentials \/ GetJoinToken \/ CreateJoiner \/ NameTaken
  \/ EnsureWorkerNodes \/ Unreachable
  \/ SaveKubeconfig \/ LoadHelmCharts \/ PivotFails \/ Wake

ManagerFault ==
  \/ WaitTimeout \/ Fail \/ FirstUnanswered \/ JoinerUnanswered \/ Crash

NodeStep(i) == JoinTailnet(i) \/ StartK3s(i)

Next ==
  \/ ManagerStep
  \/ ManagerFault
  \/ \E i \in Ids : NodeStep(i)
  \/ \E i \in Losable : LoseNode(i)

Spec == Init /\ [][Next]_vars

(***************************************************************************)
(* The process is scheduled, sleeps end, the operator repeats a command    *)
(* that has not pivoted, the StatefulSet restarts the pod, and a node that *)
(* can start does.                                                         *)
(***************************************************************************)
Fairness == WF_vars(ManagerStep) /\ \A i \in Ids : WF_vars(NodeStep(i))

FairSpec == Spec /\ Fairness
----------------------------------------------------------------------------
(* There are never nodes of two clusters at once: a restart in the middle   *)
(* of a bootstrap, a lost answer or a deleted node never makes              *)
(* ensureClusterExists start a second cluster beside the first (every node  *)
(* on the listed page).                                                     *)
OneCluster ==
  \A i, j \in Present : nodes[i].cluster = nodes[j].cluster

(* No sequence of failed Executes, restarts and deletions leaves more       *)
(* control plane nodes than --control-plane-count.                          *)
NoOvershoot == Cardinality(Present) <= Count

(* While no node has been deleted, a node that is to join is created only   *)
(* when it can: its cluster's secret holds the token, and the floating IP   *)
(* its cloud-config names leads to a running node of that cluster.          *)
JoinersCanJoin ==
  [][\A i \in Ids :
       /\ faults["loss"] = 0
       /\ nodes[i] = Absent /\ nodes'[i] # Absent /\ ~nodes'[i].first
       => nodes'[i].cluster \in secrets /\ JoinPossible(nodes'[i].cluster)]_vars

(* While no node has been deleted, the kubeconfig file and the chart refer   *)
(* to a cluster whose secret was saved, so that whoever uses them finds a    *)
(* join token.                                                              *)
PublishedAfterSecret ==
  faults["loss"] = 0 => {kubeFile, chart} \subseteq secrets \cup {NoCluster}

(* A local controller in its loop whose cluster vanishes reports it and does *)
(* not put a new cluster in its place, unless --kubeconfig-overwrite says   *)
(* so ("kubeconfig already exists but cluster does not") or the default     *)
(* kubeconfig is its own file, which the second pass reads instead.          *)
MadeClusterNotReplaced ==
  [][looping /\ where = "local" /\ ~command.overwrite /\ ~command.defaultIsFile
       => clusters' = clusters]_vars

(* One control plane at a time: ensureClusterExists founds a cluster only    *)
(* when no node is left, adds nodes to the cluster founded last and only up *)
(* to --control-plane-count, through failed Executes, lost answers, crashes, *)
(* restarts and deleted nodes.                                              *)
Plane == INSTANCE ClusterMembers
           WITH Names <- Ids, Size <- Count, founded <- clusters,
                member <- [i \in Ids |-> nodes[i].cluster],
                founders <- {i \in Ids : nodes[i].first},
                serving <- {i \in Ids : nodes[i].stage = "up"}

ImplementsMembers == Plane!Spec

(***************************************************************************)
(* A missing joiner: the first node is there, node i is not, and no pass   *)
(* is under way that found out the number of the next node before.         *)
(***************************************************************************)
Bootstrapping == {"init", "attach", "wait", "attachLate", "token", "secret",
                  "creds", "join", "create"}

MissingJoiner(i) ==
  /\ nodes[0] # Absent
  /\ nodes[i] = Absent
  /\ pc \in Bootstrapping => next = 0

(* A joiner that is lost once its creation is over is never made again as   *)
(* long as the first node is there, by no pass and no restart: the number   *)
(* of every replacement is that of the first node.                          *)
LostJoinerStays ==
  [][\A i \in Ids :
       MissingJoiner(i) /\ nodes'[0] # Absent => MissingJoiner(i)']_vars

(***************************************************************************)
(* Nodes are left, the cluster's first one is not among them, and with it  *)
(* went what the floating IP was attached to.                              *)
(***************************************************************************)
Headless ==
  /\ Present # {}
  /\ \A i \in Present : ~nodes[i].first
  /\ fip = Detached

(* A cluster that lost its first node gets no new server as long as any of  *)
(* its nodes is left: no pass and no restart attaches the floating IP again *)
(* or makes a first node, so no node made then, nor one made before and not *)
(* up yet, ever joins.                                                     *)
HeadlessStays ==
  [][Headless /\ Present' # {} =>
       /\ Headless'
       /\ \A i \in Ids : nodes'[i].stage = "up" => nodes[i].stage = "up"]_vars

(***************************************************************************)
(* Some node exists, the kubeconfig was not saved, and the command is back *)
(* at its start.                                                           *)
(***************************************************************************)
Abandoned ==
  /\ where = "local" /\ ~looping
  /\ Present # {}
  /\ kubeFile = NoCluster
  /\ pc \in {"down", "exit", "ip", "list", "creds"}

(* A bootstrap that ended between its first node and the saving of the      *)
(* kubeconfig is never resumed: as long as any node of it is left, every    *)
(* repetition of the command ends without credentials and adds no node.     *)
AbandonedStays ==
  [][Abandoned /\ Present' # {} => Abandoned' /\ Present' \subseteq Present]_vars

AllRunning == \E k \in 1..clusters : Cardinality(Up(k)) >= Count

(* A loop that goes on: it does not wait to send an error.                  *)
Complete == AllRunning /\ looping /\ pc # "blocked"

(***************************************************************************)
(* A first Execute that was not interrupted after its first node existed,   *)
(* with nobody deleting a node, leads to a cluster of --control-plane-count *)
(* running nodes and to the control loop, whatever fails before and after   *)
(* it.  The loop goes on for good when at most one call fails: with the     *)
(* REST server's error that is what errCh holds, and a third error blocks.  *)
(* A local controller whose default kubeconfig is not its own file has no   *)
(* such loop, since each of its passes fails.                               *)
(***************************************************************************)
CompletesUnlessInterrupted ==
  [](~interrupted /\ faults["loss"] = 0) =>
    /\ <>[](AllRunning /\ looping)
    /\ /\ command.pivot \/ command.defaultIsFile
       /\ [](faults["failure"] <= 1)
       => <>[]Complete

(* "It ensures a Kubernetes cluster is running on the sled, providing a     *)
(* loop that checks the state of the cluster and keeps it alive"            *)
(* (README.md:5).                                                           *)
ClusterEnsured == <>[]Complete

(* The same loop "keeps it alive" (README.md:5): once the cluster was        *)
(* complete, it is complete again after a node was lost.                    *)
KeptAlive == <>Complete => []<>Complete
================================================================================
