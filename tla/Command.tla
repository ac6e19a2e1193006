-------------------------------- MODULE Command --------------------------------
(***************************************************************************)
(* The oxide-controller command (RunE in cmd/root.go): it reads the        *)
(* kubeconfig and the configuration stored in the cluster, finds its Oxide *)
(* credentials, merges the flags that were set into the stored settings,   *)
(* runs Execute once, saves the kubeconfig, and then pivots or loops.  The *)
(* same code runs on the operator's machine, with the flags the operator   *)
(* gives in each run, and in the pod, with the flags of the chart.         *)
(*                                                                         *)
(* What Execute does in detail is ControlPlane's and WorkerScaling's       *)
(* matter; here it makes the cluster and stores the settings, or uses the  *)
(* stored ones, and may create nodes.                                      *)
(***************************************************************************)
EXTENDS Pivot

CONSTANTS
  Specs,         \* values of a setting of the nodes
  DefaultSpec,   \* the default of its flag
  Unset,         \* the flag is not given
  Scenarios      \* what the operator may do, which nodes there are, faults

FaultKinds == {"failure", "crash", "rerun"}

(***************************************************************************)
(* A command line: a setting of the node specs; the --tailscale-auth-key,  *)
(* --tailscale-tag and both other tailscale flags; whether the namespace   *)
(* and secret flags are given, and those of the loop interval and the      *)
(* server's address; the Oxide profile, URL and token flags; a development *)
(* image; whether it pivots; and whether the default kubeconfig is the     *)
(* file named by --kubeconfig.                                             *)
(***************************************************************************)
Lines ==
  [spec : Specs \cup {Unset}, key : BOOLEAN, tag : BOOLEAN, tailnet : BOOLEAN,
   place : {"default", "other"}, service : {"default", "other"},
   profile : BOOLEAN, url : BOOLEAN, token : BOOLEAN, dev : BOOLEAN,
   pivot : BOOLEAN, defaultIsFile : BOOLEAN]

ASSUME SpecAssumption == DefaultSpec \in Specs /\ Unset \notin Specs
ASSUME ScenarioAssumption ==
  Scenarios \subseteq [lines : SUBSET Lines, nodes : SUBSET Nodes,
                      profile : BOOLEAN, allowed : [FaultKinds -> Nat]]

VARIABLES
  scenario,      \* the scenario of this behaviour
  kubeFile,      \* the --kubeconfig file leads to the cluster
  stored,        \* the configuration in the secret
  config,        \* controllerConfig of the local process and of the pod
  built,         \* history: the settings nodes were created with
  altered,       \* history: settings given or lost since the cluster exists
  faults         \* the faults so far

vars == <<pc, line, pivotVars, scenario, kubeFile, stored, config, built,
          altered, faults>>

Processes == {"local", "pod"}

NoConfig == [spec |-> Unset, place |-> "default", service |-> "default",
             token |-> "none", key |-> FALSE, nodeKey |-> FALSE]

Tokens == {"none", "flags", "profile", "default"}
Configs == [spec : Specs \cup {Unset}, place : {"default", "other"},
            service : {"default", "other"}, token : Tokens, key : BOOLEAN,
            nodeKey : BOOLEAN]

(* The chart gives the pod --no-pivot and --verbose and nothing else.      *)
PodLine ==
  [spec |-> Unset, key |-> FALSE, tag |-> FALSE, tailnet |-> FALSE,
   place |-> "default", service |-> "default", profile |-> FALSE, url |-> FALSE,
   token |-> FALSE, dev |-> FALSE, pivot |-> FALSE, defaultIsFile |-> FALSE]

Flags(p) == IF p = "pod" THEN PodLine ELSE line

TypeOK ==
  /\ PivotTypeOK
  /\ scenario \in Scenarios
  /\ line \in Lines
  /\ pc \in [Processes -> {"down", "off", "placed", "secret", "merge", "execute",
                           "save", "loop"} \cup PivotPoints]
  /\ kubeFile \in BOOLEAN
  /\ stored \in Configs
  /\ config \in [Processes -> Configs]
  /\ built \subseteq [spec : Specs, nodeKey : BOOLEAN]
  /\ altered \in BOOLEAN
  /\ faults \in [FaultKinds -> Nat]

Init ==
  /\ PivotInit
  /\ scenario \in Scenarios
  /\ line = PodLine
  /\ pc = [p \in Processes |-> IF p = "local" THEN "down" ELSE "off"]
  /\ kubeFile = FALSE
  /\ stored = NoConfig
  /\ config = [p \in Processes |-> NoConfig]
  /\ built = {}
  /\ altered = FALSE
  /\ faults = [k \in FaultKinds |-> 0]

Charge(kind) ==
  /\ faults[kind] < scenario.allowed[kind]
  /\ faults' = [faults EXCEPT ![kind] = @ + 1]

Goto(p, from, to) == pc[p] = from /\ pc' = [pc EXCEPT ![p] = to]

(* RunE returns an error: the StatefulSet starts the pod again, the        *)
(* operator may repeat the command.                                        *)
Exit(p) == pc' = [pc EXCEPT ![p] = IF p = "pod" THEN "placed" ELSE "down"]

Cluster == stored # NoConfig

----------------------------------------------------------------------------
(* Start.                                                                  *)

(* Whether these flags alter a cluster that exists.                        *)
Alters(l) == Cluster /\ (l.spec # Unset \/ l.key \/ l.tag)

Launch(l) ==
  /\ Goto("local", "down", "secret")
  /\ line' = l
  /\ altered' = (altered \/ Alters(l))
  /\ config' = [config EXCEPT !["local"] = NoConfig]
  /\ UNCHANGED <<pivotVars, scenario, kubeFile, stored, built>>

(* The operator repeats the command until it has pivoted ...               *)
Run ==
  /\ release.status # "deployed"
  /\ \E l \in scenario.lines : Launch(l)
  /\ UNCHANGED faults

(* ... and may run it again afterwards.                                    *)
RunAgain ==
  /\ release.status = "deployed"
  /\ Charge("rerun")
  /\ \E l \in scenario.lines : Launch(l)

(* The container of the pod starts.                                        *)
PodStarts ==
  /\ Goto("pod", "placed", "secret")
  /\ Runnable
  /\ config' = [config EXCEPT !["pod"] = NoConfig]
  /\ UNCHANGED <<line, pivotVars, scenario, kubeFile, stored, built,
                 altered, faults>>

(* GetRestConfig: the file named by --kubeconfig, the pod's own access, or *)
(* the default kubeconfig, which leads nowhere else here.                  *)
HasAccess(p) == p = "pod" \/ kubeFile

(* GetSecretConfig looks where the flags say, not where the secret is.     *)
SecretFound(p) == HasAccess(p) /\ Cluster /\ stored.place = Flags(p).place

ReadSecret(p) ==
  /\ Goto(p, "secret", "merge")
  /\ p = "pod" => SecretFound(p)
  /\ config' = [config EXCEPT ![p] = IF SecretFound(p) THEN stored ELSE NoConfig]
  /\ UNCHANGED <<line, pivotVars, scenario, kubeFile, stored, built, altered,
                 faults>>

(* In the cluster, that is an error; outside it is not.                    *)
SecretMissing ==
  /\ pc["pod"] = "secret"
  /\ ~SecretFound("pod")
  /\ Exit("pod")
  /\ UNCHANGED <<line, pivotVars, scenario, kubeFile, stored, config, built,
                 altered, faults>>

SecretUnread ==
  /\ Goto("local", "secret", "merge")
  /\ Charge("failure")
  /\ config' = [config EXCEPT !["local"] = NoConfig]
  /\ altered' = TRUE
  /\ UNCHANGED <<line, pivotVars, scenario, kubeFile, stored, built>>

----------------------------------------------------------------------------
(* Credentials and the merge of the settings.                              *)

HasProfile(p) == p = "local" /\ scenario.profile

(* Mutant: the default profile goes before the stored credentials.          *)
ProfileFirst(p) ==
  LET f == Flags(p) IN
  CASE f.profile /\ (f.url \/ f.token) -> "none"
    [] f.url /\ f.token -> "flags"
    [] f.profile -> IF HasProfile(p) THEN "profile" ELSE "none"
    [] OTHER -> IF HasProfile(p) THEN "default" ELSE "none"

(* The switch over the sources of the URL and the token; "none" is an       *)
(* error.  A token without a URL is replaced by the default profile's.     *)
Credentials(p) ==
  LET f == Flags(p) IN
  CASE f.profile /\ (f.url \/ f.token) -> "none"
    [] f.url /\ f.token -> "flags"
    [] f.profile -> IF HasProfile(p) THEN "profile" ELSE "none"
    [] p = "pod" /\ config[p].token # "none" -> config[p].token
    [] OTHER -> IF HasProfile(p) THEN "default" ELSE "none"

Accepted(p) == Credentials(p) # "none" /\ (Flags(p).key => Flags(p).tailnet)

(* Mutant: the default of a flag that is not set is forgotten.              *)
FreshUnset(p) ==
  LET f == Flags(p) IN
  [spec |-> f.spec, place |-> f.place, service |-> f.service,
   token |-> Credentials(p), key |-> f.key, nodeKey |-> f.key]

(* Without stored settings the flags count, set or default.                *)
Fresh(p) ==
  LET f == Flags(p) IN
  [spec |-> IF f.spec = Unset THEN DefaultSpec ELSE f.spec, place |-> f.place,
   service |-> f.service, token |-> Credentials(p), key |-> f.key, nodeKey |-> f.key]

(* Mutant: defaults override the stored settings as well.                   *)
MergedWithDefaults(p) ==
  LET f == Flags(p) IN
  [config[p] EXCEPT
     !.spec = IF f.spec = Unset THEN DefaultSpec ELSE f.spec,
     !.place = IF f.place = "other" THEN "other" ELSE @,
     !.service = IF f.service = "other" THEN "other" ELSE @,
     !.token = Credentials(p),
     !.key = f.key \/ @,
     !.nodeKey = IF f.tag THEN f.key ELSE @]

(* Mutant: the node specs take the auth key of the flags, set or not.       *)
MergedKey(p) ==
  LET f == Flags(p) IN
  [config[p] EXCEPT
     !.spec = IF f.spec = Unset THEN @ ELSE f.spec,
     !.place = IF f.place = "other" THEN "other" ELSE @,
     !.service = IF f.service = "other" THEN "other" ELSE @,
     !.token = Credentials(p),
     !.key = f.key \/ @,
     !.nodeKey = f.key]

(* With stored settings only the flags that are set count.  The node specs *)
(* take the auth key when the tag is set, and only then.                   *)
Merged(p) ==
  LET f == Flags(p) IN
  [config[p] EXCEPT
     !.spec = IF f.spec = Unset THEN @ ELSE f.spec,
     !.place = IF f.place = "other" THEN "other" ELSE @,
     !.service = IF f.service = "other" THEN "other" ELSE @,
     !.token = Credentials(p),
     !.key = f.key \/ @,
     !.nodeKey = IF f.tag THEN f.key ELSE @]

Merge(p) ==
  /\ Goto(p, "merge", "execute")
  /\ Accepted(p)
  /\ config' = [config EXCEPT ![p] = IF @ = NoConfig THEN Fresh(p) ELSE Merged(p)]
  /\ UNCHANGED <<line, pivotVars, scenario, kubeFile, stored, built,
                 altered, faults>>

MergeRefused(p) ==
  /\ pc[p] = "merge"
  /\ ~Accepted(p)
  /\ Exit(p)
  /\ UNCHANGED <<line, pivotVars, scenario, kubeFile, stored, config, built,
                 altered, faults>>

----------------------------------------------------------------------------
(* Execute.                                                                *)

(* What a process works with: its configuration, which is handed to         *)
(* cluster.New, except that its loop and its server take the interval and  *)
(* the address from the flags.                                             *)
WorksWith(p) == [config[p] EXCEPT !.service = Flags(p).service]

NodeSettings(p) == [spec |-> config[p].spec, nodeKey |-> config[p].nodeKey]

(* The first Execute makes the cluster and stores the settings in it.      *)
MakeCluster ==
  /\ Goto("local", "execute", "save")
  /\ ~Cluster
  /\ stored' = config["local"]
  /\ \E n \in Servers \cap scenario.nodes : joined' = {n}
  /\ built' = {NodeSettings("local")}
  /\ UNCHANGED <<line, binary, daemonSet, ready, targets, reader, release,
                 previous, podNode, scenario, kubeFile, config, altered, faults>>

(* Mutant: a cluster this process did not make is taken to be in reach.     *)
ReachesAnyway(p) == stored.place = config[p].place

(* setClusterCreds(nil) of a later Execute, and the secret it reads.       *)
Reaches(p) ==
  /\ p = "pod" \/ (kubeFile /\ line.defaultIsFile)
  /\ stored.place = config[p].place

AfterExecute(p) ==
  IF p = "local" /\ line.pivot THEN IF line.dev THEN "build" ELSE "helm"
  ELSE "loop"

(* Execute on an existing cluster may find nodes missing, and create them. *)
KeepCluster(p) ==
  /\ \/ Goto(p, "execute", AfterExecute(p))
     \/ Goto(p, "loop", "loop")
  /\ Cluster /\ Reaches(p)
  /\ \/ built' = built \cup {NodeSettings(p)}
     \/ UNCHANGED built
  /\ UNCHANGED <<line, pivotVars, scenario, kubeFile, stored, config,
                 altered, faults>>

ClusterOutOfReach(p) ==
  /\ pc[p] = "execute"
  /\ Cluster /\ ~Reaches(p)
  /\ Exit(p)
  /\ UNCHANGED <<line, pivotVars, scenario, kubeFile, stored, config, built,
                 altered, faults>>

(* No file was there when this process made the cluster.                   *)
SaveKubeconfig ==
  /\ Goto("local", "save", AfterExecute("local"))
  /\ kubeFile' = TRUE
  /\ UNCHANGED <<line, pivotVars, scenario, stored, config, built,
                 altered, faults>>

----------------------------------------------------------------------------
(* Faults, and the pivot.                                                  *)

commandVars == <<scenario, kubeFile, stored, config, built, altered>>

(* The wait for the chart fails or runs out of time, with a pod that keeps *)
(* ending or takes long to start.                                          *)
ChartFails == Undo /\ Charge("failure") /\ UNCHANGED commandVars

(* A call fails, or the build, or the saving of the file.                  *)
Fail(p) ==
  /\ \/ pc[p] \in {"execute", "save"} \cup (PivotPoints \ {"helmWait", "copy"})
     \/ p = "pod" /\ pc[p] = "secret"
  /\ Charge("failure")
  /\ Exit(p)
  /\ UNCHANGED <<line, pivotVars, commandVars>>

Crash(p) ==
  /\ pc[p] \notin {"down", "off", "placed"}
  /\ Charge("crash")
  /\ Exit(p)
  /\ UNCHANGED <<line, pivotVars, commandVars>>

Step(p) ==
  \/ ReadSecret(p) \/ Merge(p) \/ MergeRefused(p) \/ KeepCluster(p)
  \/ ClusterOutOfReach(p)

LocalStep ==
  \/ Run \/ Step("local") \/ MakeCluster \/ SaveKubeconfig
  \/ PivotStep /\ UNCHANGED <<commandVars, faults>>

PodStep == PodStarts \/ Step("pod") \/ SecretMissing

NodeStep(n) ==
  /\ \/ n \in scenario.nodes /\ NodeJoins(n)
     \/ PreloadPodReady(n)
  /\ UNCHANGED <<commandVars, faults>>

Break(n) == CopyBreaksOff(n) /\ Charge("failure") /\ UNCHANGED commandVars

Next ==
  \/ LocalStep
  \/ PodStep
  \/ \E n \in Nodes : NodeStep(n)
  \/ RunAgain \/ SecretUnread \/ ChartFails
  \/ \E n \in Servers : Break(n)
  \/ \E p \in Processes : Fail(p) \/ Crash(p)

Spec == Init /\ [][Next]_vars

(* Both processes are scheduled, nodes join and start their pods, and the  *)
(* operator repeats the command until it has pivoted.                      *)
Fairness ==
  /\ WF_vars(LocalStep)
  /\ WF_vars(PodStep)
  /\ \A n \in Nodes : WF_vars(NodeStep(n))

FairSpec == Spec /\ Fairness
----------------------------------------------------------------------------
(* All nodes of a cluster are made alike, by whichever process and after    *)
(* whatever restarts, as long as the operator gives no other settings and   *)
(* no reading of the stored ones failed: the defaults of the flags of a     *)
(* restart, of a command that looks for the secret elsewhere, or of the pod *)
(* never get into a node.                                                   *)
NodesAlike == ~altered => Cardinality(built) <= 1

(* The pod works with the node settings, the tailnet key and the            *)
(* credentials that are stored, whatever a command run beside it was told.  *)
(* The loop interval and the server's address are the exception: they are   *)
(* stored as well, but the pod's are always those of its own flags.         *)
PodKeepsSettings ==
  pc["pod"] \in {"execute", "loop"} =>
    WorksWith("pod") = [stored EXCEPT !.service = PodLine.service]

(* The cluster exists and the file that leads to it was not saved.          *)
Unpublished == Cluster /\ ~kubeFile /\ ~At("save")

(* A cluster without its file is lost for the command: it is never saved    *)
(* later, no run ever comes to a pod that could look after the cluster, and  *)
(* neither its nodes nor its settings change again.                        *)
LockedOut ==
  [][Unpublished => Unpublished' /\ UNCHANGED <<stored, built>> /\ pc'["pod"] = "off"]_vars

(* A process has ended in the middle of Helm's work.                        *)
Orphaned == release.status = "pending" /\ ~At("helmWait")

(* The DaemonSet of an attempt that is over.                                *)
LeftBehind == daemonSet /\ pc["local"] \notin {"waitPods", "list", "copy", "remove"}

(* What an interrupted pivot leaves stands in the way of every later one: a *)
(* pending release is never finished or replaced, and beside a leftover     *)
(* DaemonSet no node gets the binary of a later build.                     *)
ObstaclesStay ==
  [][/\ Orphaned => Orphaned'
     /\ LeftBehind => LeftBehind' /\ UNCHANGED binary]_vars

(* A command line as it is meant to be used: its credentials exist, the     *)
(* secret has its default name, the cluster can be reached again, and a     *)
(* development image is for a cluster of one node.                          *)
Ordinary(l) ==
  /\ l.pivot /\ l.defaultIsFile
  /\ l.place = "default"
  /\ (l.key => l.tailnet)
  /\ ~(l.profile /\ (l.url \/ l.token))
  /\ (l.url /\ l.token) \/ scenario.profile
  /\ l.dev => Cardinality(scenario.nodes) = 1

(* Repeating the command in the end leaves a pod that loops, whichever calls *)
(* failed before and wherever the command was cut off, if neither a lost    *)
(* kubeconfig, a pending release nor a leftover DaemonSet is in the way.    *)
PodTakesOver ==
  [](/\ \A l \in scenario.lines : Ordinary(l)
     /\ ~Unpublished /\ ~Orphaned
     /\ ~(daemonSet /\ pc["local"] = "down"))
  => <>[](pc["pod"] = "loop")
================================================================================
