------------------------------ MODULE ImageImport ------------------------------
(***************************************************************************)
(* The first half of Execute: ensureProjectExists, ensureImagesExist and   *)
(* the root disk sizes, by controllers that share one Oxide project.       *)
(*                                                                         *)
(* A missing image is imported with nine calls.  Those that change what     *)
(* others see are steps of their own, after which the process may stop;    *)
(* every call may fail, and its answer may be lost.  Nothing that an       *)
(* interrupted import leaves behind is taken up or removed by a later one. *)
(*                                                                         *)
(* The upload is one step here.  A disk, snapshot or image that is         *)
(* "uploaded" got all that an upload which ended without an error writes,  *)
(* and no more is said of it: module ImageUpload shows that the last       *)
(* incomplete buffer of the file is not among that, and the file may be    *)
(* the page that goes with an HTTP error.                                  *)
(***************************************************************************)
EXTENDS Integers, FiniteSets

CONSTANTS
  Controllers,    \* the controllers that may run Execute for the project
  Images,         \* image names
  Scenarios,      \* who runs with which flags, and what may go wrong
  MaxSize,        \* the largest release of an image, in GB
  OtherProjects,  \* projects listed before the cluster's
  ListLimit,      \* projects on the listed page
  Quota           \* disks the project may have

FaultKinds == {"failure", "crash", "removal"}
Roles == {"controlPlane", "worker"}

(***************************************************************************)
(* The image names of the two node specs, --control-plane-root-disk-size   *)
(* and its worker twin (0 if unset), the images that exist for the whole   *)
(* silo, the controllers that run, the largest release there will be, and  *)
(* how many faults of each kind there may be.                              *)
(***************************************************************************)
ASSUME ScenarioAssumption ==
  Scenarios \subseteq [wanted : [Roles -> Images], flags : [Roles -> Nat],
                      silo : SUBSET Images, running : SUBSET Controllers,
                      newest : 1..MaxSize, allowed : [FaultKinds -> Nat]]
ASSUME SizeAssumption == MaxSize \in Nat \ {0}
ASSUME LimitAssumption == OtherProjects \in Nat /\ ListLimit \in Nat /\ Quota \in Nat

VARIABLES
  scenario,     \* the scenario of this behaviour
  release,      \* the size of what the image sources offer now
  project,      \* the project exists
  disks,        \* the project's disks: stage of the import and size
  snapshots,    \* the snapshot named after each image
  images,       \* the project's images
  pc,           \* where each controller is
  looping,      \* its first Execute has succeeded
  errCh,        \* the errors in its errCh, which nobody receives
  found,        \* imageMap: the images it knows
  todo,         \* missingImages: those it still has to import
  disk,         \* the disk it imports into
  rootDisk,     \* RootDiskSize of its two node specs
  failed,       \* history: Executes that did not get to their end
  faults        \* the faults so far

oxide == <<scenario, release, project, disks, snapshots, images>>
process == <<pc, looping, errCh, found, todo, disk, rootDisk>>
vars == <<oxide, process, failed, faults>>

ErrCap == 2     \* make(chan error, 2)

Absent == [size |-> 0, uploaded |-> FALSE]
Contents == [size : 0..MaxSize, uploaded : BOOLEAN]

NoDisk == [stage |-> "absent", size |-> 0]
DiskIds == 1..Quota
Unused == 0

Importing == {"create", "upload", "finalize", "delete", "image"}
Executing ==
  {"projects", "newProject", "images", "disks", "ready"} \cup Importing

TypeOK ==
  /\ scenario \in Scenarios
  /\ release \in 1..MaxSize
  /\ project \in BOOLEAN
  /\ disks \in [DiskIds -> [stage : {"absent", "importing", "stopped",
                                     "finalized"}, size : 0..MaxSize]]
  /\ snapshots \in [Images -> Contents]
  /\ images \in [Images -> Contents]
  /\ pc \in [Controllers -> Executing \cup {"down", "sleep", "blocked"}]
  /\ looping \in [Controllers -> BOOLEAN]
  /\ errCh \in [Controllers -> 0..ErrCap]
  /\ found \in [Controllers -> [Images -> Contents]]
  /\ todo \in [Controllers -> SUBSET Images]
  /\ disk \in [Controllers -> DiskIds \cup {Unused}]
  /\ rootDisk \in [Controllers -> [Roles -> Nat]]
  /\ failed \in Nat
  /\ faults \in [FaultKinds -> Nat]

(* The silo's images are somebody else's and never change.                 *)
InSilo(i) == IF i \in scenario.silo THEN [size |-> 1, uploaded |-> TRUE] ELSE Absent

Init ==
  /\ scenario \in Scenarios
  /\ release = 1
  /\ project \in BOOLEAN
  /\ disks = [d \in DiskIds |-> NoDisk]
  /\ snapshots = [i \in Images |-> Absent]
  /\ images = [i \in Images |-> Absent]
  /\ pc = [c \in Controllers |-> "down"]
  /\ looping = [c \in Controllers |-> FALSE]
  /\ errCh = [c \in Controllers |-> 0]
  /\ found = [c \in Controllers |-> [i \in Images |-> Absent]]
  /\ todo = [c \in Controllers |-> {}]
  /\ disk = [c \in Controllers |-> Unused]
  /\ rootDisk = [c \in Controllers |-> [r \in Roles |-> 0]]
  /\ failed = 0
  /\ faults = [k \in FaultKinds |-> 0]

Charge(kind) ==
  /\ faults[kind] < scenario.allowed[kind]
  /\ faults' = [faults EXCEPT ![kind] = @ + 1]

Goto(c, from, to) == pc[c] = from /\ pc' = [pc EXCEPT ![c] = to]

(* Execute returns an error.  What the pass knew goes with it.             *)
Leave(c, to) ==
  /\ pc' = [pc EXCEPT ![c] = to]
  /\ found' = [found EXCEPT ![c] = [i \in Images |-> Absent]]
  /\ todo' = [todo EXCEPT ![c] = {}]
  /\ disk' = [disk EXCEPT ![c] = Unused]

Failed == failed' = IF failed < Quota THEN failed + 1 ELSE failed

(***************************************************************************)
(* The first Execute that fails ends the process; the error of a later one *)
(* is sent on errCh, which is waited for for ever once errCh is full.      *)
(***************************************************************************)
Abort(c) ==
  /\ \/ ~looping[c] /\ Leave(c, "down") /\ UNCHANGED errCh
     \/ looping[c] /\ errCh[c] < ErrCap /\ Leave(c, "sleep")
        /\ errCh' = [errCh EXCEPT ![c] = @ + 1]
     \/ looping[c] /\ errCh[c] = ErrCap /\ Leave(c, "blocked") /\ UNCHANGED errCh
  /\ Failed
  /\ UNCHANGED looping

----------------------------------------------------------------------------
(* The command starts with the sizes of the flags; the loop keeps those     *)
(* the controller has.                                                     *)
Start(c) ==
  /\ Goto(c, "down", "projects")
  /\ c \in scenario.running
  /\ rootDisk' = [rootDisk EXCEPT ![c] = scenario.flags]
  /\ UNCHANGED <<oxide, looping, errCh, found, todo, disk, failed, faults>>

Wake(c) ==
  /\ Goto(c, "sleep", "projects")
  /\ UNCHANGED <<oxide, looping, errCh, found, todo, disk, rootDisk,
                 failed, faults>>

(* ensureProjectExists looks at the first page of the projects only.       *)
Listed == project /\ OtherProjects < ListLimit

ListProjects(c) ==
  /\ Goto(c, "projects", IF Listed THEN "images" ELSE "newProject")
  /\ UNCHANGED <<oxide, looping, errCh, found, todo, disk, rootDisk,
                 failed, faults>>

CreateProject(c) ==
  /\ Goto(c, "newProject", "images")
  /\ ~project
  /\ project' = TRUE
  /\ UNCHANGED <<scenario, release, disks, snapshots, images, looping, errCh,
                 found, todo, disk, rootDisk, failed, faults>>

ProjectTaken(c) ==
  /\ pc[c] = "newProject"
  /\ project
  /\ Abort(c)
  /\ UNCHANGED <<oxide, rootDisk, faults>>

Names == {scenario.wanted[r] : r \in Roles}

(* The project's image hides the silo's image of the same name.            *)
Known(i) ==
  CASE i \notin Names     -> Absent
    [] images[i] # Absent -> images[i]
    [] OTHER              -> InSilo(i)

(* Mutant: only the first of the two images is looked at.                   *)
ListFirstImage(c) ==
  LET known == [i \in Images |-> Known(i)]
      missing == {i \in {scenario.wanted["controlPlane"]} : known[i] = Absent}
  IN  /\ Goto(c, "images", IF missing = {} THEN "disks" ELSE "create")
      /\ found' = [found EXCEPT ![c] = known]
      /\ todo' = [todo EXCEPT ![c] = missing]
      /\ UNCHANGED <<oxide, looping, errCh, disk, rootDisk, failed, faults>>

(* ensureImagesExist lists the project's images and the silo's.            *)
ListImages(c) ==
  LET known == [i \in Images |-> Known(i)]
      missing == {i \in Names : known[i] = Absent}
  IN  /\ Goto(c, "images", IF missing = {} THEN "disks" ELSE "create")
      /\ found' = [found EXCEPT ![c] = known]
      /\ todo' = [todo EXCEPT ![c] = missing]
      /\ UNCHANGED <<oxide, looping, errCh, disk, rootDisk, failed, faults>>

----------------------------------------------------------------------------
(* The import of one image.                                                *)

(* The missing images are imported in the order of the arguments.          *)
Current(c) ==
  IF scenario.wanted["controlPlane"] \in todo[c] THEN scenario.wanted["controlPlane"]
  ELSE scenario.wanted["worker"]

Free == {d \in DiskIds : disks[d] = NoDisk}

(* Mutant: RoundUp goes to the gigabyte after a whole one.                  *)
NewLargerDisk(d) ==
  /\ d \in Free
  /\ \A e \in Free : d <= e
  /\ disks' = [disks EXCEPT ![d] = [stage |-> "importing", size |-> release + 1]]

(***************************************************************************)
(* The size of what DownloadFile gets, rounded up to a GB: the release, or *)
(* the page of an HTTP error, since nobody looks at the status.            *)
(***************************************************************************)
Downloads == {1, release}

(* The download, and DiskCreate under a name nobody else uses.              *)
NewDisk(d) ==
  /\ d \in Free
  /\ \A e \in Free : d <= e
  /\ \E size \in Downloads :
       disks' = [disks EXCEPT ![d] = [stage |-> "importing", size |-> size]]

CreateDisk(c) ==
  /\ Goto(c, "create", "upload")
  /\ \E d \in DiskIds : NewDisk(d) /\ disk' = [disk EXCEPT ![c] = d]
  /\ UNCHANGED <<scenario, release, project, snapshots, images, looping, errCh,
                 found, todo, rootDisk, failed, faults>>

DiskRefused(c) ==
  /\ pc[c] = "create"
  /\ Free = {}
  /\ Abort(c)
  /\ UNCHANGED <<oxide, rootDisk, faults>>

SetStage(c, stage) == disks' = [disks EXCEPT ![disk[c]].stage = stage]

(* Mutant: the error of errg.Wait is dropped.                               *)
UploadSomehow(c) ==
  /\ Goto(c, "upload", "finalize")
  /\ \/ SetStage(c, "stopped")
     \/ UNCHANGED disks
  /\ UNCHANGED <<scenario, release, project, snapshots, images, looping, errCh,
                 found, todo, disk, rootDisk, failed, faults>>

(* DiskBulkWriteImportStart, the goroutines of ImageUpload, all without     *)
(* error, and DiskBulkWriteImportStop.                                     *)
Upload(c) ==
  /\ Goto(c, "upload", "finalize")
  /\ SetStage(c, "stopped")
  /\ UNCHANGED <<scenario, release, project, snapshots, images, looping, errCh,
                 found, todo, disk, rootDisk, failed, faults>>

(* Mutant: a snapshot of an earlier import is replaced.                     *)
TakeSnapshotAgain(c) ==
  /\ snapshots' = [snapshots EXCEPT ![Current(c)] =
                     [size |-> disks[disk[c]].size,
                      uploaded |-> disks[disk[c]].stage = "stopped"]]
  /\ SetStage(c, "finalized")

(* DiskFinalizeImport takes the snapshot, whose name is that of the image. *)
TakeSnapshot(c) ==
  /\ snapshots[Current(c)] = Absent
  /\ snapshots' = [snapshots EXCEPT ![Current(c)] =
                     [size |-> disks[disk[c]].size,
                      uploaded |-> disks[disk[c]].stage = "stopped"]]
  /\ SetStage(c, "finalized")

Finalize(c) ==
  /\ Goto(c, "finalize", "delete")
  /\ TakeSnapshot(c)
  /\ UNCHANGED <<scenario, release, project, images, looping, errCh, found,
                 todo, disk, rootDisk, failed, faults>>

SnapshotTaken(c) ==
  /\ pc[c] = "finalize"
  /\ snapshots[Current(c)] # Absent
  /\ Abort(c)
  /\ UNCHANGED <<oxide, rootDisk, faults>>

(* Mutant: the disk is kept.                                                *)
KeepDisk(c) ==
  /\ Goto(c, "delete", "image")
  /\ disk' = [disk EXCEPT ![c] = Unused]
  /\ UNCHANGED <<oxide, looping, errCh, found, todo, rootDisk, failed,
                 faults>>

(* DiskDelete.                                                             *)
DeleteDisk(c) ==
  /\ Goto(c, "delete", "image")
  /\ disks' = [disks EXCEPT ![disk[c]] = NoDisk]
  /\ disk' = [disk EXCEPT ![c] = Unused]
  /\ UNCHANGED <<scenario, release, project, snapshots, images, looping, errCh,
                 found, todo, rootDisk, failed, faults>>

(* Nobody looks at what DiskDelete returns.                                *)
DeleteIgnored(c) ==
  /\ Goto(c, "delete", "image")
  /\ disk' = [disk EXCEPT ![c] = Unused]
  /\ Charge("failure")
  /\ UNCHANGED <<oxide, looping, errCh, found, todo, rootDisk, failed>>

(* The next missing image, or the end of the loop.                         *)
Imported(c, content) ==
  /\ found' = [found EXCEPT ![c][Current(c)] = content]
  /\ todo' = [todo EXCEPT ![c] = @ \ {Current(c)}]
  /\ pc' = [pc EXCEPT ![c] = IF todo[c] = {Current(c)} THEN "disks" ELSE "create"]

(* SnapshotView finds the snapshot by its name, and ImageCreate.           *)
NewImage(c) ==
  /\ snapshots[Current(c)] # Absent
  /\ images[Current(c)] = Absent
  /\ images' = [images EXCEPT ![Current(c)] = snapshots[Current(c)]]

(* Mutant: the image is noted before it is created.                         *)
NoteImage(c) ==
  /\ pc[c] = "image"
  /\ Imported(c, snapshots[Current(c)])
  /\ UNCHANGED <<oxide, looping, errCh, disk, rootDisk, failed, faults>>

CreateImage(c) ==
  /\ pc[c] = "image"
  /\ NewImage(c)
  /\ Imported(c, snapshots[Current(c)])
  /\ UNCHANGED <<scenario, release, project, disks, snapshots, looping, errCh,
                 disk, rootDisk, failed, faults>>

SnapshotGone(c) ==
  /\ pc[c] = "image"
  /\ snapshots[Current(c)] = Absent
  /\ Abort(c)
  /\ UNCHANGED <<oxide, rootDisk, faults>>

ImageTaken(c) ==
  /\ pc[c] = "image"
  /\ images[Current(c)] # Absent
  /\ Abort(c)
  /\ UNCHANGED <<oxide, rootDisk, faults>>

----------------------------------------------------------------------------
(* The sizes of the root disks, and the rest of Execute.                   *)

MinSize(c, r) == found[c][scenario.wanted[r]].size

Filled(c, r) == IF rootDisk[c][r] = 0 THEN MinSize(c, r) ELSE rootDisk[c][r]

(* Mutant: a size that was set once is not compared again.                  *)
AnyDisk(c, r) == MinSize(c, r) > 0

Fits(c, r) == Filled(c, r) >= MinSize(c, r)

Usable(c, r) == found[c][scenario.wanted[r]] # Absent /\ Fits(c, r)

SetRootDisks(c) ==
  /\ Goto(c, "disks", "ready")
  /\ \A r \in Roles : Usable(c, r)
  /\ rootDisk' = [rootDisk EXCEPT ![c] = [r \in Roles |-> Filled(c, r)]]
  /\ UNCHANGED <<oxide, looping, errCh, found, todo, disk, failed, faults>>

(* An image that does not exist, or is larger than its root disk.  The     *)
(* control plane's size is set before the worker's is looked at.           *)
Unusable(c) ==
  /\ pc[c] = "disks"
  /\ \E r \in Roles : ~Usable(c, r)
  /\ rootDisk' =
       IF Usable(c, "controlPlane") /\ found[c][scenario.wanted["worker"]] # Absent
         THEN [rootDisk EXCEPT ![c]["controlPlane"] = Filled(c, "controlPlane")]
         ELSE rootDisk
  /\ Abort(c)
  /\ UNCHANGED <<oxide, faults>>

(***************************************************************************)
(* ensureClusterExists and EnsureWorkerNodes are other modules' matter.    *)
(* With the loop the REST server starts, whose one error takes a place of  *)
(* errCh if it ends.                                                       *)
(***************************************************************************)
Finish(c) ==
  /\ pc[c] = "ready"
  /\ Leave(c, "sleep")
  /\ looping' = [looping EXCEPT ![c] = TRUE]
  /\ \/ looping[c] /\ UNCHANGED errCh
     \/ ~looping[c] /\ \E e \in {0, 1} : errCh' = [errCh EXCEPT ![c] = e]
  /\ UNCHANGED <<oxide, rootDisk, failed, faults>>

----------------------------------------------------------------------------
(* Faults.                                                                 *)

Fail(c) ==
  /\ pc[c] \in Executing \ {"delete", "disks"}
  /\ Charge("failure")
  /\ Abort(c)
  /\ UNCHANGED <<oxide, rootDisk>>

(* The call took effect and its answer was lost.                           *)
Unanswered(c) ==
  /\ Charge("failure")
  /\ \/ /\ pc[c] = "newProject"
        /\ ~project
        /\ project' = TRUE
        /\ UNCHANGED <<disks, snapshots, images>>
     \/ /\ pc[c] = "create"
        /\ \E d \in DiskIds : NewDisk(d)
        /\ UNCHANGED <<project, snapshots, images>>
     \/ /\ pc[c] = "finalize"
        /\ TakeSnapshot(c)
        /\ UNCHANGED <<project, images>>
     \/ /\ pc[c] = "image"
        /\ NewImage(c)
        /\ UNCHANGED <<project, disks, snapshots>>
  /\ Abort(c)
  /\ UNCHANGED <<scenario, release, rootDisk>>

Crash(c) ==
  /\ pc[c] # "down"
  /\ Charge("crash")
  /\ Leave(c, "down")
  /\ looping' = [looping EXCEPT ![c] = FALSE]
  /\ errCh' = [errCh EXCEPT ![c] = 0]
  /\ Failed
  /\ UNCHANGED <<oxide, rootDisk>>

(* Somebody deletes an image, to have the current release imported, or a    *)
(* snapshot.                                                               *)
RemoveImage(i) ==
  /\ images[i] # Absent
  /\ Charge("removal")
  /\ images' = [images EXCEPT ![i] = Absent]
  /\ UNCHANGED <<scenario, release, project, disks, snapshots, process, failed>>

RemoveSnapshot(i) ==
  /\ snapshots[i] # Absent
  /\ Charge("removal")
  /\ snapshots' = [snapshots EXCEPT ![i] = Absent]
  /\ UNCHANGED <<scenario, release, project, disks, images, process, failed>>

(* The image sources are "latest" links.                                   *)
NewRelease ==
  /\ release < scenario.newest
  /\ release' = release + 1
  /\ UNCHANGED <<scenario, project, disks, snapshots, images, process, failed,
                 faults>>

Step(c) ==
  \/ Start(c) \/ Wake(c) \/ ListProjects(c) \/ CreateProject(c) \/ ProjectTaken(c)
  \/ ListImages(c) \/ CreateDisk(c) \/ DiskRefused(c) \/ Upload(c)
  \/ Finalize(c) \/ SnapshotTaken(c) \/ DeleteDisk(c)
  \/ CreateImage(c) \/ SnapshotGone(c) \/ ImageTaken(c)
  \/ SetRootDisks(c) \/ Unusable(c) \/ Finish(c)

Fault(c) == Fail(c) \/ Unanswered(c) \/ DeleteIgnored(c) \/ Crash(c)

Next ==
  \/ \E c \in Controllers : Step(c) \/ Fault(c)
  \/ \E i \in Images : RemoveImage(i) \/ RemoveSnapshot(i)
  \/ NewRelease

Spec == Init /\ [][Next]_vars

(* Every process is scheduled, every call returns, sleeps end, and a        *)
(* command that ended is run again.                                         *)
Fairness == \A c \in Controllers : WF_vars(Step(c))

FairSpec == Spec /\ Fairness
----------------------------------------------------------------------------
(* Every snapshot and image is of a disk whose upload finished without an   *)
(* error, whichever of the calls failed or was cut off in this import and   *)
(* in those before it: an upload that was interrupted is never taken for    *)
(* the image.                                                               *)
OnlyFinishedUploads ==
  \A i \in Images : \A content \in {snapshots[i], images[i]} :
    content # Absent => content.uploaded

Available(i) == images[i] # Absent \/ InSilo(i) # Absent

(* A controller that goes on to create nodes does so with images that       *)
(* exist, also when another controller imported them or lost the race for   *)
(* their names, unless somebody removed them meanwhile.                     *)
ReadyWithImages ==
  \A c \in Controllers :
    pc[c] = "ready" /\ faults["removal"] = 0 => \A i \in Names : Available(i)

(* The root disks the nodes get hold their images, also in a later pass     *)
(* that finds a newer and larger image than the pass that set the sizes.    *)
RootDisksFit ==
  \A c \in Controllers : pc[c] = "ready" =>
    \A r \in Roles : rootDisk[c][r] >= found[c][scenario.wanted[r]].size

InUse == {d \in DiskIds : \E c \in Controllers : disk[c] = d}

(* A disk that no import is using was left by an Execute that failed or     *)
(* stopped, one each, or by a DiskDelete that failed: passes that succeed   *)
(* leave nothing behind, however many they are.                             *)
DisksAccountedFor ==
  Cardinality({d \in DiskIds \ InUse : disks[d] # NoDisk})
    <= failed + faults["failure"]

(* The imports of any number of controllers, interrupted anywhere, come to  *)
(* no more than this for those who use the images.                         *)
Catalogue == INSTANCE ImageCatalogue WITH
  Names <- Images, Largest <- MaxSize,
  latest <- release, captured <- snapshots, published <- images

(* What is under the name of an image came by one upload that finished      *)
(* without an error, through its own snapshot, and stays what it is until   *)
(* somebody removes it: no import, retry or lost answer replaces what       *)
(* another one made.                                                        *)
ImplementsCatalogue == Catalogue!Spec

(* A snapshot without an image, and nobody about to make the image.        *)
Stranded(i) ==
  /\ snapshots[i] # Absent
  /\ ~Available(i)
  /\ ~\E c \in Controllers : pc[c] \in {"delete", "image"} /\ Current(c) = i

(* Nothing the controllers do ends that: the name of the snapshot is taken, *)
(* so every later import of the image fails at the same call, until         *)
(* somebody removes the snapshot by hand.                                  *)
StrandedStays ==
  [][\A i \in Images : Stranded(i) /\ snapshots'[i] # Absent => Stranded(i)']_vars

(* What can make a pass of the loop fail: a failed call, what it counts on  *)
(* being removed meanwhile, or an image larger than the root disk.          *)
Troubled == faults["failure"] > 0 \/ faults["removal"] > 0 \/ release > 1

(* While the quota lasts and no snapshot is left without its image, the     *)
(* images are there in the end and a controller gets past them again and    *)
(* again, however its imports failed and whoever imported them; unless its  *)
(* loop waits for ever to send a third error, which takes a failed call, a  *)
(* removal or a newer release.                                             *)
ImportsUnlessStranded ==
  <>[](Free # {} /\ \A i \in Names : ~Stranded(i)) =>
    \A c \in Controllers : c \in scenario.running =>
      \/ <>[](pc[c] = "blocked" /\ Troubled)
      \/ /\ <>[]\A i \in Names : Available(i)
         /\ []<>(pc[c] = "disks" /\ \A i \in Names : found[c][i] # Absent)

(* "ensureImagesExist checks if the right images exist and creates them if  *)
(* needed" (images.go:23)                                                  *)
ImagesCreated == <>[]\A i \in Names : Available(i)
================================================================================
