# A TLA+ model of oxide-controller

oxide-controller keeps a Kubernetes (k3s) cluster on an Oxide sled: it imports
the images, makes the control plane nodes and the floating IP, moves itself into
the cluster, and keeps the number of worker nodes at a count that clients change
over a REST API.  The modules of this directory model that behaviour from the Go
source, TLC checks them on small instances, and TLAPS proves every invariant,
action property and refinement the passing runs check, for every instance.
`PROJECT.json` maps each definition to the lines it stands for.  Paths without a
directory are below `src/pkg/`, those that begin with `cmd/` below `src/`.

## 1. The system

### Components

| Component | Code | State it keeps | Operations |
| --- | --- | --- | --- |
| Command and control loop | `cmd/root.go` | flags merged with the stored configuration, kubeconfig file, `errCh` | start, merge, first `Execute`, save, pivot, loop, REST server |
| Execute | `cluster/exec.go` | `Cluster` (project id, `apiConfig`, `config`) | project, images, root disks, control plane, workers, in this order |
| Project, image import | `project.go`, `images.go` | project, images, snapshots, disks in Oxide; temporary file | list, download, disk, upload, snapshot, image |
| Image upload | `images.go` 180-256, `util/math.go` | the disk being written | parallel writes, finalise |
| Control plane | `cluster.go`, `node.go`, `ip.go`, `healthcheck.go`, `namespace.go` | instances and floating IP in Oxide, secret in Kubernetes | `ensureClusterExists` |
| Worker pool | `node.go` 253-320 | worker instances in Oxide | `EnsureWorkerNodes` |
| Configuration secret | `secret.go`, `errors.go` | one key of a Kubernetes secret: the whole configuration | get, save; read-modify-write of single fields |
| REST server | `server/server.go` | none | read and modify the worker count, concurrently with the loop |
| Credentials | `client.go`, `cluster.go` 352-364, `oxide/profile.go` | `c.apiConfig` with its source; profiles on disk | given kubeconfig, in-cluster, default kubeconfig; flags, profile or stored token |
| Development preload | `copy.go`, `image/build.go` | DaemonSet, the binary on each node | build, wait, copy, remove |
| Helm chart | `helm.go` | Helm release | install, upgrade, atomic roll-back |
| Support | `util/`, `log/`, `image/` | none of their own | files, keys, ssh, strings |

### How they interact

`Execute` calls the others in sequence.  The first call runs before the loop and
ends the process on an error; then the kubeconfig is saved, and a local
controller either deploys the chart and ends (the pod takes over) or starts two
goroutines, the control loop and the REST server.  The loop and the request
handlers share the secret and nothing else that is locked.  Two controllers (one
left running locally, one in the pod) share Oxide and the secret.  Oxide and
Kubernetes are only reached by calls, each of which may fail with or without
effect.

### What is hard, and what makes each part correct

* **Worker pool.**  A count is read once per pass while requests change it; a
  creation may succeed without an answer; names are made from the clock; errors
  go to a channel nobody empties.  Correct: the pool never exceeds what was asked
  for, reaches it in the end, and an accepted count stays.
* **REST server.**  Read and write are separate calls.  Correct: what a handler
  reports was true during the request.
* **Control plane.**  What a first run knows (join token, SSH key, kubeconfig)
  exists only in memory until it is saved, and the run may end anywhere.
  Correct: one cluster, no surplus nodes, joiners that can join, and a cluster
  that is completed and kept.
* **Image import.**  Nine calls, each of which may be the last; nothing they
  leave is taken up again; two controllers import under the same names.  Correct:
  only uploads that finished become images, nodes are made only with images that
  exist and fit on their disks, nothing is left behind but by a failure, and the
  images are there in the end.
* **Image upload.**  Chunk arithmetic, the end of the file, one failing goroutine
  among several.  Correct: a finished import has the file (it has all but the last
  incomplete buffer, section 6), a failed one is reported, and it ends.
* **Merge of the configuration.**  The same code starts on the operator's machine
  with ever other flags and in the pod with hardly any.  Correct: the nodes of a
  cluster are made alike, and the pod works with what is stored (it does, but for
  the loop interval and its address, section 6).
* **Pivot.**  Waits, one reader for several copies, a chart that may run a binary
  from the host, Helm's own states.  Correct: the chart comes after the binary,
  and repeating the command leads to a looping pod.

## 2. The modules

| Module | Models | State |
| --- | --- | --- |
| `WorkerPool` | abstract: a register and a pool that grows only below one pool of the largest target per manager | `target`, `pool`, `highest` |
| `WorkerScaling` | loop, `EnsureWorkerNodes`, both handlers, call by call | per controller: place in the code, count wanted and found, `errCh`, serving; the secret's count; workers; per request: place, count, what it read |
| `ControlPlane` | start, `ensureClusterExists`, save, pivot, loop, and what a node does after boot | nodes with cluster and stage, floating IP, secrets, kubeconfig file, chart; the process's place, `errCh`, credentials and locals |
| `ClusterMembers` | abstract: clusters founded one after the other, members that join up to a size and serve beside one that serves | `founded`, `member`, `founders`, `serving` |
| `ImageImport` | project, `ensureImagesExist`, root disk sizes, by several controllers | project, disks, snapshots, images; per controller: place, `errCh`, images known and missing, its disk, root disk sizes |
| `ImageCatalogue` | abstract: snapshots that are finished uploads, images that are their snapshots, nothing replaced | `latest`, `captured`, `published` |
| `ImageUpload` | the goroutines of one upload | place and offset of each goroutine, positions written, cancellation, outcome |
| `Pivot` | preload of a development image, Helm install and upgrade, the pod | binary on each node, DaemonSet and its ready pods, nodes left to copy to, reader, release |
| `Command` | composes `Pivot` with the start and the merge, on the operator's machine and in the pod | per process: place and configuration; command line, stored configuration, kubeconfig file, settings nodes were made with |
| `WorkerScaling_proofs`, `ControlPlane_proofs`, `ControlPlane_members_proofs`, `ImageImport_proofs`, `ImageImport_catalogue_proofs`, `ImageUpload_proofs`, `Command_proofs` | the theorems | |
| `MCWorkerScaling`, `MCControlPlane`, `MCImageImport`, `MCCommand` | constants for TLC | |

`WorkerPool`, `ClusterMembers` and `ImageCatalogue` say what a client of the
worker pool, of the control plane and of the images may rely on, without calls,
processes or faults.  `WorkerScaling`, `ControlPlane` and `ImageImport` implement
them: each instantiates its abstract module with its own state in the place of
the abstract variables (the secret and the workers; the nodes' clusters and
stages; the snapshots and images of Oxide).

An action is the code between two calls whose result or effect somebody else can
see.  A call that fails before its effect is `Fail` or `RequestFails`; one whose
answer is lost is an action named `...Unanswered`.  The error of a pass of the loop
is sent on `errCh`, which nobody receives, in all three detailed modules: two fit,
and a controller that has a third to send is `"blocked"` until its process ends.

**`WorkerScaling`.**  `ReadCount`, `ListWorkers`, `ReadCreds` and `CreateWorker`
are the calls of one pass, so requests and other controllers act between them;
`SetWorkerCount` of the fallback is a read (`StoreRead`) and a write
(`StorePut`).  A count in memory (`want`, `have`) keeps the value of its read.  A
handler is `Post` or `Get`, `ReadExisting`, `Update`.  `CreateConflict` is a name
that was given in the same second.  `Report` is the send on `errCh`, of the loop or
of a REST server that ends.

**`ControlPlane`.**  The three branches of `ensureClusterExists`: enough nodes,
too few, none.  A cluster is a number: the k-th node started with
`--cluster-init` forms cluster k.  The flags that change the control flow are the
record `command`, chosen once in `Init`.  `Reaches` says whether a kubeconfig
leads to a running API server: it names the first node's own address, or the
floating IP.  `Suffix` is what the code makes of host names: `CreateInstance`
ends them in eight random characters, so `strconv.Atoi` never yields a number.  A
node boots, joins the tailnet if there is one, and starts k3s; a joiner can only
while the floating IP leads to a running node of its cluster.  `Return` is what
becomes of an error: the end of the process, a send and a sleep, or the third
send.

**`ImageImport`.**  An image or a snapshot is its size and whether it is
`uploaded`, that is, came from an upload that ended without an error.  That is not
the whole file: `ImageUpload` says which part may be missing, and the file is
whatever the source answered.  `Downloads` are the sizes it may have: that of the
release the source offers, rounded up, or that of the page that goes with an HTTP
error.  A disk is created under a random name and so never meets
another; a snapshot and an image are named after the image, so `Finalize` and
`CreateImage` have a twin that is refused (`SnapshotTaken`, `ImageTaken`).
`Leave` is what a return loses: the disk's name, the image map, the list of
missing images.  The upload is one step, which either finishes the disk or fails;
`ImageUpload` says what happens inside.

**`ImageUpload`** keeps the set of positions written; data are left out, since
every goroutine writes what the file holds at a position.

**`Pivot` and `Command`.**  A command line is a record of what the operator
gives, with `Unset` for a flag that was not changed; the pod's is `PodLine`, what
the chart passes.  The settings of the configuration are reduced to the fields
whose merge differs: a field of the node specs (`spec`, for all that are
overridden when their flag changed), the tailscale auth key of the configuration
and its copy in the node specs (`key`, `nodeKey`), where the secret is (`place`),
the interval of the loop and the address of the server (`service`), and the Oxide
token.  `WorksWith` is what a process does with them: it has its configuration,
but `service` from its flags.  `Fresh` is the branch without a stored
configuration, `Merged` the one with it, `Credentials` the switch over the
sources of URL and token.  `Execute` is one step that makes the cluster or keeps
it; `KeepCluster` may create nodes, which is how settings reach a node.  `binary`
is the file `/opt/bin/controller`, `reader` the one open file all copies read.
`Install` and `Upgrade` leave a pending release until `Deployed`, or until
`Uninstall` or `Rollback` because the wait for the pod failed: always when the
pod cannot start (`NeverReady`), and also when it can, but is not ready in time
(`ChartFails`, a fault).

Actions and state marked external in the map stand for what is not in the
repository: the deletion of instances or images, the clock, the end of a process,
newer releases of an image, a write of the secret by somebody else, what Helm
does inside.

## 3. The runs

| Run | Expected | Question |
| --- | --- | --- |
| `scaling_one_controller` | pass | safety, liveness and refinement of the worker side with one controller |
| `scaling_two_controllers` | pass | how far two control loops overshoot, and that together they implement the pool |
| `bootstrap` | pass | one cluster, no surplus node, order of publication, joiners that can join, a bootstrap that completes, with deleted nodes; `ClusterMembers`; what is never repaired |
| `upload` | pass | what a finished upload has, failures reported, end |
| `imports` | pass | finished uploads, nodes only with images, disks accounted for, imports that succeed in the end; `ImageCatalogue`; a stranded snapshot stays |
| `command` | pass | nodes alike, the pod's settings, the chart after the binary, a pod that takes over; what locks the command out for ever |
| `control_loop_blocks` | violation | the loop keeps the pool alive |
| `interrupted_bootstrap` | violation | the command ensures a cluster |
| `lost_joiner` | violation | the loop keeps the cluster alive |
| `dropped_tail` | violation | the whole file is imported |
| `stranded_snapshot` | violation | missing images are created |
| `empty_binaries` | violation | the binary is loaded to all control plane nodes |

**Worker side.**  `PoolWithinTargets`, `ReportedCountWasCurrent`,
`AcceptedCountKept`, `TargetEventuallyMet` and `ImplementsPool` (that is,
`WorkerPool!Spec`) are checked with two overlapping requests asking for 0 or 3,
a flag of 1, a secret that has or lacks its key, and one failure, conflict, crash
and lost worker each.  Two requests are the fewest that overlap; 0 and 3 give a
request below and above the flag, and three creations are enough for an
interruption before, between and after them.  `ListLimit` is exactly the largest
target plus the other instances, so the page just fits.  One failure and one
conflict are two errors, what `errCh` holds; with three the third blocks
(`control_loop_blocks`).  The second run has a controller of each kind, three
errors, which fill and block the channel, and a REST server that ends:
`OvershootBounded` says that each controller beyond the first adds at most one
pool, and `ImplementsPool` holds there too, with two managers.

**Control plane.**  Seven command lines show every pair of values of the five
flags that change the control flow.  Three nodes are the default count, the
smallest with two joiners; a fourth name is there so that a surplus node could be
made.  Two failures (lost answers among them), a crash and the deletion of all
three nodes are allowed in one behaviour, in any order: enough to interrupt the
bootstrap, the repetition of it, and the loop, and to block the loop, since the
end of the REST server and a pass that fails because of a deletion also send
errors.  The properties about a lossless bootstrap (`JoinersCanJoin`,
`PublishedAfterSecret`, `CompletesUnlessInterrupted`) say so in their premises.
`CompletesUnlessInterrupted` promises all nodes and a first `Execute` that
succeeded in every case, and a loop that goes on for good only where the code has
one: when at most one call fails, and not for a local controller whose default
kubeconfig is another file.  `ImplementsMembers` is `ClusterMembers!Spec`.
`LostJoinerStays`, `HeadlessStays` and `AbandonedStays` are about what is never
repaired: a joiner lost while the first node is there is not made again; when the
first node is lost, and the floating IP with it, no other node comes up while one
of the old ones is left; and a bootstrap that ended without a kubeconfig stays as
it is while one of its nodes is left.  `interrupted_bootstrap` needs no crash,
deletion or failing service: with tailscale the token may be read before k3s
runs, which ends the first `Execute`, and nothing completes the cluster after
that.

**Imports.**  Five scenarios, with the project there or not: two controllers that
import one image at once, which may be removed; the same with a newer release in
between; one controller with two images; the same with one of
them in the silo and a root disk size given; one controller whose image is
removed, imported again and has become larger.
One or two failures or lost answers, a crash, and up to three removals of images
or snapshots; in the last scenario these, or a root disk that is too small for the
image, also block the loop.  Two images
are all the code has (one per node spec), two sizes are one that fits and one
that does not, and a quota of three disks lets two leftovers and one import
coexist, and can be used up.  `ImplementsCatalogue` is `ImageCatalogue!Spec`;
`StrandedStays` says that a snapshot without an image, with nobody about to make
it, stays so until somebody removes the snapshot.

**Upload.**  Sizes smaller than a block, equal to the buffer, with and without a
remainder in blocks and in buffers; three goroutines; a buffer of two blocks; one
refused write.

**Command.**  Five scenarios: the same or default settings repeated; good and bad
combinations of credentials; a first run with settings that later runs alter,
lose, or look for elsewhere; a development image on one node, and on three nodes
mixed with lines without it.  One or two failures (a wait for the chart that runs
out of time among them), a crash, and a repetition after the pivot.  Two settings
are enough to differ.  Two control plane nodes and a worker let the first copy be
whole and the second not, and the pod be where no binary is.  `LockedOut` says
that a cluster whose kubeconfig was not saved never gets it, nor a pod or another
setting; `ObstaclesStay` that a pending release nobody works on and a DaemonSet
nobody waits for are never dealt with.

Deadlock is checked in `interrupted_bootstrap` and `stranded_snapshot`.  It is
switched off in the other runs of the control plane and of the imports and in the
worker runs (a controller blocked on `errCh`, with the requests and faults used
up, really stops), in the upload (which ends), and in the runs of the command
(after the pivot, with no repetition left, a pod that was put on a node without
the binary it is to run stays there).

Every bound is a constant: `Allowed` and the `allowed` of a scenario (faults of
each kind), `Counts`, `Requests`, `Controllers`, `Others`, `ListLimit`, `Count`,
`Ids`, `Page`, `Losable`, `Commands`, `Scenarios`, `MaxSize`, `Quota`,
`OtherProjects`, `Servers`, `Workers`, `Specs`, `Sizes`, `Refusals`.  Requests
are made once each.  `failed` of `ImageImport` counts up to `Quota`, since there
are no more disks to account for.

## 4. Fairness

`WF` of the steps of a controller and of a handler: Go runs every runnable
goroutine and `time.Sleep` ends.  A process that exited starts again: a pod by
its StatefulSet, a local command by its operator, who repeats it until it has
pivoted (`Run`; repetitions after that, `RunAgain`, are not fair).  `WF` of
`Tick`: seconds pass.  `WF` of a node's steps: cloud-init goes on, a joiner's
unit is restarted until it can join, and a DaemonSet's pod becomes ready.  `WF`
of an upload goroutine's step.  `WF` of each controller's step of an import: its
calls return.  No fault, removal, request or deletion is ever fair.

Four liveness properties name what is in the way in this code.
`TargetEventuallyMet` is violated once a third error can block the loop
(`control_loop_blocks`).  `CompletesUnlessInterrupted` supposes that no first
`Execute` failed after its first node and that no node is deleted, and has the
premises of section 3 for a loop that goes on.  `ImportsUnlessStranded` supposes
that no snapshot without its image and no full quota is left for ever (what
`stranded_snapshot` shows), and lets a controller block on `errCh`, but only after
a failed call, a removal or a newer release (`Troubled`); without these a loop that
blocks is an error.  `PodTakesOver` supposes that the command lines are as meant
(`Ordinary`), that the kubeconfig was saved, and that no pending release or
DaemonSet was left by a process that ended.

## 5. What is proved

With TLAPS, for every value of the constants that satisfies the modules'
assumptions:

| Theorem | Statement | Further hypothesis |
| --- | --- | --- |
| `TypeCorrect` | `Spec => []TypeOK`; in particular `errCh` never exceeds its capacity | |
| `PoolBounded` | `Spec => []PoolWithinTargets` | `OneManager`, `FitsOnPage` |
| `ImplementsWorkerPool` | `Spec => Pool!Spec` | finitely many controllers, `FitsOnPage` |
| `ReportedCountCurrent` | `Spec => []ReportedCountWasCurrent` | |
| `AcceptedCountStays` | `Spec => []AcceptedCountKept` | `OneManager` |
| `OvershootIsBounded` | `Spec => []OvershootBounded` | finitely many controllers, `FitsOnPage` |
| `ControlPlaneTypeCorrect` | `Spec => []TypeOK` | |
| `NeverTooManyNodes` | `Spec => []NoOvershoot` | `Count <= Page` |
| `NeverTwoClusters` | `Spec => []OneCluster` | `Count <= Page` |
| `SecretComesFirst` | `Spec => []PublishedAfterSecret` | |
| `JoinersAlwaysCanJoin` | `Spec => JoinersCanJoin` | `Count <= Page` |
| `MadeClusterStays` | `Spec => MadeClusterNotReplaced` | |
| `ImplementsClusterMembers` | `Spec => Plane!Spec` | `Count <= Page` |
| `LostJoinersStayLost` | `Spec => LostJoinerStays` | |
| `HeadlessForEver` | `Spec => HeadlessStays` | `Count <= Page` |
| `AbandonedForEver` | `Spec => AbandonedStays` | `Count <= Page` |
| `ImportTypeCorrect` | `Spec => []TypeOK` | |
| `ImagesAreFinishedUploads` | `Spec => []OnlyFinishedUploads` | |
| `ReadyMeansImages` | `Spec => []ReadyWithImages` | |
| `ImagesFitRootDisks` | `Spec => []RootDisksFit` | |
| `EveryDiskAccountedFor` | `Spec => []DisksAccountedFor` | |
| `ImplementsImageCatalogue` | `Spec => Catalogue!Spec` | |
| `StrandedForEver` | `Spec => StrandedStays` | |
| `UploadTypeCorrect` | `Spec => []TypeOK` | |
| `NoGapBeforeTail` | `Spec => []OnlyTailMissing` | |
| `RefusalsReported` | `Spec => []RefusalReported` | |
| `CommandTypeCorrect` | `Spec => []TypeOK` | |
| `PodKeepsStored` | `Spec => []PodKeepsSettings` | |
| `NodesMadeAlike` | `Spec => []NodesAlike` | |
| `ChartFindsBinary` | `Spec => []ChartAfterBinary` | |
| `LockedOutForEver` | `Spec => LockedOut` | |
| `ObstaclesNeverGo` | `Spec => ObstaclesStay` | |

`OneManager` is the one process the chart runs (one replica); `FitsOnPage` says
that the largest target and all other instances fit on the page of 32;
`Count <= Page` that the control plane nodes asked for do.  They are needed: two
controllers overshoot, and nodes outside the page are made again.

The inductive invariants, and why the properties need them:

* **Pool.**  `PoolInv` adds to the bound that the stored count is at most the
  largest target (`StoredCountBounded`) and what a pass in progress knows
  (`PassBounded`): the count it works with is at most the largest target, the
  number it counted is at least the pool, since only this controller creates and
  deletions only lower it, and it creates only while that number is below the
  count.
* **Several controllers.**  `OvershootInv` counts: `Pending` is the set of pairs
  of a controller and a number between what it has counted and what it wants, so
  its cardinality is the number of creations still planned.  The pool and the
  pending creations together stay within controllers times largest target.  A
  creation takes one pair away; a list that is exact gives a controller at most
  its share; every other step is `Calm`: it adds neither a worker nor a pair.
  Hence `CreationBelowBound`, the step the refinement of `WorkerPool` turns on: a
  controller about to create still has a pair of its own, so the pool is below
  the bound before each creation, also of controllers that do not know of each
  other.
* **Answers.**  `ReportedInv` adds that the target a handler is about to read is
  already in its window, which every write of the secret extends.
* **Accepted counts.**  `AcceptedInv` adds `ServedAfterFirstPass`: a process
  serves requests only once its first pass has succeeded, after which it never
  runs the fallback that stores the flag's count; so nothing but a request can
  write after one did (`CountKnown`).  With a second controller this fails.
* **Control plane.**  `Basics` has the types and `Numbered`: the first node is
  number 0, since no host name gives a number.  `Room`: what a pass in progress
  still wants to create fits beside what there is.  `Joining`: the token in
  memory is that of all the nodes there are.  `Saved`: from the reading of the
  token on a process knows the cluster it made, and has saved its secret before
  it does anything else.  `Attached`: while no node is lost, the floating IP is
  on a running node before any secret exists.  `OwnCreds`: a local controller
  with a file of its own has the credentials of the cluster it made.  `Latest`:
  every node belongs to the cluster founded last, and so does the one whose
  credentials a joiner is made with; with `Room` and `Joining` it gives each step
  of `ClusterMembers` its guard.  `FirstOfPass`: while a pass that has made a
  first node is on its way, number 0 is that node or free, so the pass does not
  attach the floating IP to any other.  The other two results about what is never
  repaired follow from `Numbered` and from the steps that save a kubeconfig.
* **Imports.**  `Holds` and `Own`: between its creation and its deletion a disk
  belongs to one import.  `Uploaded`: a disk about to be finalised has what a
  finished upload writes.  `Knowledge`: what a controller knows exists, and it
  goes on only with all it wants.  The disks that are left are counted step by
  step (`Left`, `Failures`): one failure leaves at most one.  `Sized`: every disk
  is as large as some release so far, or smaller; with `Uploaded` a snapshot is
  then one finished upload, as `ImageCatalogue` has it.  That a stranded snapshot
  stays rests on `Route`: the call that makes an image is only reached through
  the one that takes its snapshot.
* **Upload.**  `UploadInv` adds `FirstThreadCovers`: the first goroutine starts
  at 0 and, the size of a chunk never ending a loop, writes every position up to
  its own offset.  A finished upload has all goroutines at the end, so at most
  the last incomplete buffer is missing.  `RefusalInv` adds that a goroutine
  whose write was refused stays failed.
* **Command.**  `Basics` adds that a process that runs `Execute` has complete
  settings, and that who pivots has a cluster.  `PodHasStored`: the pod has read
  what is stored and merges nothing into it.  `Alike`: a local process has the
  settings of the cluster, or looks where it cannot reach it (`Apart`), so that
  its defaults do not get into a node.  `Preloaded`: the first copy is whole, and
  nothing overwrites it before the chart.  `Closed`: without the kubeconfig file
  there is no pod, and no process has come as far as the loop or the pivot.
  `PassesBy` is what every step does to an obstacle: nothing.

Only model-checked: liveness (`TargetEventuallyMet`,
`CompletesUnlessInterrupted`, `UploadEnds`, `ImportsUnlessStranded`,
`PodTakesOver`), since the prover has no ENABLED.

## 6. Disagreements met

With a run:

* The third error of the loop blocks it (`cmd/root.go:500` has room for two and
  says three), and names made from seconds produce such errors by themselves.  The
  models of the control plane and of the imports block in the same way, as after
  three passes that find a lost joiner (`lost_joiner`).
* A bootstrap interrupted between the first node and the saving of the kubeconfig
  cannot be resumed (proved for every repetition).
* With tailscale the bootstrap may interrupt itself: the wait for the first node
  ends when the node is on the tailnet, before k3s is installed
  (`cluster.go:207`, `252`), and the reading of the join token fails if it comes
  too early.
* A lost joiner is never replaced (proved), because the number after the highest is always
  0, the name of the first node.
* An upload drops what `ReadAt` returns together with `io.EOF`.
* An import interrupted after its snapshot was taken is repeated for ever without
  success: `DiskFinalizeImport` meets its own snapshot (`images.go:263`; proved).
* Only the first control plane node gets the development binary: the copies share
  one open file (`copy.go:74`).

Seen in the code or in the model, without a run:

* Worker side: the fallback for a secret without its key (`node.go:259-273`)
  stores the count through a function that fails for the same key
  (`secret.go:64`), so the key stays missing and every first pass fails, although
  the comment at 259 and the log at 267 say that the default is used and stored.
  Lowering the count changes nothing (`node.go:283`), though
  `node.go:253` says that the count "matches what it should be".  The lists are
  one page of 32 instances (`node.go:362`, `cluster.go:82`): workers outside it
  are created again, and a control plane outside it, once the name of its first
  node is free, is followed by a second cluster.  Two overlapping POSTs both
  report the same old count (`server.go:94`).
* Control plane: a replacement for the first node never joins, since the floating
  IP is attached only when a cluster is made (`cluster.go:171`), and the
  replacement joins through it (`node.go:170`; `HeadlessForEver` proves it).  A
  controller that stays local and whose default kubeconfig is not the file of
  `--kubeconfig` fails in every pass of its loop (`cluster.go:98`, `324`), so it is
  blocked after the third.  README:66
  calls a kubeconfig file without its cluster an error; a new process has not
  looked at the file when it decides (`cluster.go:109`).  When the file is also
  the default kubeconfig, a controller in its loop does not refuse either, since
  its second pass replaces the source of its credentials; the property
  `MadeClusterNotReplaced` leaves that case out.  README:72 says that a
  controller outside the cluster uses the kubeconfig file; with existing nodes it
  uses the default one (`cluster.go:98`, `324`).
* Merge of the configuration: the namespace and the name of the secret are looked
  up by flag, before anything is merged, so the pod reads its defaults and never
  starts when the secret has another name.  The interval of the loop and the
  address of the server are stored and merged, and then the flags are used
  (`cmd/root.go:507`, `525`), although line 153 says that only explicit flags
  override: so the pod, which is given neither, runs with their defaults.
  `PodKeepsSettings` names this exception.  What a repetition
  overrides is not stored again, so the pivot loses it.  A `--worker-count` of a
  repetition is ignored once a count is stored.  The tag's flag copies the auth
  key and the key's flag does not (`cmd/root.go:303-312`).  A token given without
  its URL is replaced by the profile's.  A failure to read the secret is taken
  for its absence outside the cluster, and lets the defaults through
  (`cmd/root.go:164-167`); `NodesAlike` leaves that case out.
* Pivot: a DaemonSet left by an interrupted preload, a pending Helm release, and
  a binary that the pod is running each make every later attempt fail; for the
  first two `ObstaclesNeverGo` proves that no attempt removes them.
* Images: a project given by its id leaves `c.projectID` empty (`exec.go:27`).  A
  project beyond the first page is created again, which is refused.  The snapshot
  is kept after a success too, so that removing an image alone never leads to a
  new import.  A root disk size, once set from an image, stays; a larger image is
  then an error in every pass, the third of which blocks the loop.  The status of
  the download is not looked at (`util/file.go:66`): the page of an error would
  become an image.
* `chunkSize` never ends a goroutine of the upload, so each writes to the end of
  the file (`images.go:198`, `208`).

## 7. Not modelled

* The text of the cloud-config and of kubeconfigs, key generation and the one
  remote command over SSH, random strings, logging: no state that other parts
  read; their failures are failures of the calls that use them.
* The image bundle of `image/`: the program does not call it.
* A parallelism or a block size of 0, which divides by zero (`images.go:185`):
  `ImageUpload` assumes that both are positive.
* `setClusterCreds` replacing `c.apiConfig` while handlers read it without a lock
  (`cluster.go:357`): once the loop runs, the old and the new value lead to the
  same cluster, so the models could not tell them apart.
* `SaveFile` removes the old file before it writes the new one
  (`util/file.go:125`); it is one step here.
* The address of the floating IP, which the configuration keeps
  (`cluster.go:73`): the models have one floating IP, without an address.
* A project given by its id: the models have it by name, the default.
* `Execute` inside `Command` is one step; its calls are `ImageImport`'s,
  `ControlPlane`'s and `WorkerScaling`'s.  The composition of all of them with
  `Command` in one module would multiply their states without a shared variable
  that the present modules do not already give to both sides (the secret, the
  kubeconfig, the images).
