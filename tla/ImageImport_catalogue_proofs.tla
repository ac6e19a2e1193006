---------------------- MODULE ImageImport_catalogue_proofs ----------------------
(***************************************************************************)
(* Proofs about what the imports of module ImageImport make of the         *)
(* project's snapshots and images: that they implement ImageCatalogue, and *)
(* that a snapshot left without its image stays so.                        *)
(***************************************************************************)
EXTENDS ImageImport_proofs

USE ScenarioAssumption, SizeAssumption, LimitAssumption

----------------------------------------------------------------------------
(* How an action reaches the catalogue.                                    *)

Captures(c) == pc[c] = "finalize" /\ TakeSnapshot(c) /\ UNCHANGED images
Publishes(c) == pc[c] = "image" /\ NewImage(c) /\ UNCHANGED snapshots

LEMMA ActionOnCatalogue ==
  ASSUME NEW c \in Controllers, Step(c) \/ Fault(c)
  PROVE  /\ UNCHANGED <<scenario, release>>
         /\ UNCHANGED <<snapshots, images>> \/ Captures(c) \/ Publishes(c)
<1>. USE DEF oxide
<1>1. CASE Fail(c) \/ DeleteIgnored(c) \/ Crash(c)
  BY <1>1 DEF Fail, DeleteIgnored, Crash
<1>2. CASE Unanswered(c)
  BY <1>2 DEF Unanswered, Captures, Publishes
<1>3. CASE Finalize(c)
  BY <1>3 DEF Finalize, Goto, Captures
<1>4. CASE CreateImage(c)
  BY <1>4 DEF CreateImage, Publishes
<1>5. CASE \/ Start(c) \/ Wake(c) \/ ListProjects(c) \/ CreateProject(c)
           \/ ProjectTaken(c) \/ ListImages(c) \/ CreateDisk(c) \/ DiskRefused(c)
           \/ Upload(c) \/ SnapshotTaken(c) \/ DeleteDisk(c) \/ SnapshotGone(c)
           \/ ImageTaken(c) \/ SetRootDisks(c) \/ Unusable(c) \/ Finish(c)
  BY <1>5
     DEF Start, Wake, ListProjects, CreateProject, ProjectTaken, ListImages,
         CreateDisk, DiskRefused, Upload, SnapshotTaken, DeleteDisk,
         SnapshotGone, ImageTaken, SetRootDisks, Unusable, Finish
<1>. QED
  BY <1>1, <1>2, <1>3, <1>4, <1>5 DEF Step, Fault

----------------------------------------------------------------------------
(* A disk is no larger than the release that was the latest when it was    *)
(* made; the page of an error is smaller.                                  *)

Sized == \A d \in DiskIds : disks[d] # NoDisk => disks[d].size \in 1..release

(* What an action does to one disk.                                        *)
SizeKept(d) ==
  \/ disks'[d] = NoDisk
  \/ disks'[d].size \in Downloads
  \/ disks[d] # NoDisk /\ disks'[d].size = disks[d].size

LEMMA StageKeepsSize ==
  ASSUME TypeOK, NEW c \in Controllers, NEW s \in {"stopped", "finalized"},
         disk[c] \in DiskIds, disks[disk[c]] # NoDisk, SetStage(c, s)
  PROVE  \A d \in DiskIds : SizeKept(d)
<1>1. disks[disk[c]] \in Stages
  BY DEF TypeOK, Stages
<1>. DEFINE new == [disks[disk[c]] EXCEPT !.stage = s]
<1>2. new.size = disks[disk[c]].size
  BY <1>1 DEF Stages
<1>3. disks' = [disks EXCEPT ![disk[c]] = new]
  BY DEF SetStage
<1>. HIDE DEF new
<1>4. \A d \in DiskIds : disks'[d] = IF d = disk[c] THEN new ELSE disks[d]
  BY <1>3 DEF TypeOK
<1>. QED
  BY <1>2, <1>4 DEF SizeKept

LEMMA NewDiskSize ==
  ASSUME TypeOK, NEW x \in DiskIds, NewDisk(x)
  PROVE  \A d \in DiskIds : SizeKept(d)
<1>. PICK size \in Downloads :
       disks' = [disks EXCEPT ![x] = [stage |-> "importing", size |-> size]]
  BY DEF NewDisk
<1>. DEFINE new == [stage |-> "importing", size |-> size]
<1>1. new.size \in Downloads
  OBVIOUS
<1>2. disks' = [disks EXCEPT ![x] = new]
  OBVIOUS
<1>. HIDE DEF new
<1>3. \A d \in DiskIds : disks'[d] = IF d = x THEN new ELSE disks[d]
  BY <1>2 DEF TypeOK
<1>. QED
  BY <1>1, <1>3 DEF SizeKept

LEMMA ActionOnSizes ==
  ASSUME Basics, NEW c \in Controllers, Step(c) \/ Fault(c)
  PROVE  \A d \in DiskIds : SizeKept(d)
<1>. USE DEF oxide
<1>0. TypeOK /\ Holds(c)
  BY DEF Basics
<1>1. CASE UNCHANGED disks
  BY <1>1 DEF SizeKept
<1>2. ASSUME pc[c] \in {"upload", "finalize"}, NEW s \in {"stopped", "finalized"},
             SetStage(c, s)
      PROVE  \A d \in DiskIds : SizeKept(d)
  <2>1. disk[c] \in DiskIds /\ disks[disk[c]] # NoDisk
    BY <1>0, <1>2 DEF Holds, Holding, TypeOK
  <2>. QED
    BY <1>0, <1>2, <2>1, StageKeepsSize
<1>3. CASE CreateDisk(c)
  BY <1>0, <1>3, NewDiskSize DEF CreateDisk
<1>4. CASE Upload(c) \/ Finalize(c)
  BY <1>2, <1>4 DEF Upload, Finalize, Goto, TakeSnapshot
<1>5. CASE DeleteDisk(c)
  BY <1>0, <1>5 DEF DeleteDisk, SizeKept, TypeOK
<1>6. CASE Unanswered(c)
  <2>1. CASE \E d \in DiskIds : NewDisk(d)
    BY <1>0, <2>1, NewDiskSize
  <2>2. CASE pc[c] = "finalize" /\ TakeSnapshot(c)
    BY <1>2, <2>2 DEF TakeSnapshot
  <2>. QED
    BY <1>1, <1>6, <2>1, <2>2 DEF Unanswered
<1>7. CASE \/ Start(c) \/ Wake(c) \/ ListProjects(c) \/ CreateProject(c)
           \/ ProjectTaken(c) \/ ListImages(c) \/ DiskRefused(c)
           \/ SnapshotTaken(c) \/ CreateImage(c) \/ SnapshotGone(c)
           \/ ImageTaken(c) \/ SetRootDisks(c) \/ Unusable(c) \/ Finish(c)
           \/ Fail(c) \/ DeleteIgnored(c) \/ Crash(c)
  BY <1>1, <1>7
     DEF Start, Wake, ListProjects, CreateProject, ProjectTaken, ListImages,
         DiskRefused, SnapshotTaken, CreateImage, SnapshotGone, ImageTaken,
         SetRootDisks, Unusable, Finish, Fail, DeleteIgnored, Crash
<1>. QED
  BY <1>3, <1>4, <1>5, <1>6, <1>7 DEF Step, Fault

LEMMA SizedStep == Basics /\ Sized /\ [Next]_vars => Sized'
<1>. SUFFICES ASSUME Basics, Sized, [Next]_vars PROVE Sized'
  OBVIOUS
<1>0. release \in 1..MaxSize
  BY DEF Basics, TypeOK
<1>1. ASSUME NEW c \in Controllers, Step(c) \/ Fault(c)
      PROVE  Sized'
  <2>1. release' = release
    BY <1>1, ActionOnCatalogue
  <2>2. \A d \in DiskIds : SizeKept(d)
    BY <1>1, ActionOnSizes
  <2>3. \A d \in DiskIds : disks'[d] # NoDisk => disks'[d].size \in 1..release
    BY <1>0, <2>2, SizeAssumption DEF Sized, SizeKept, Downloads
  <2>. QED
    BY <2>1, <2>3 DEF Sized, DiskIds, NoDisk
<1>2. ASSUME NEW i \in Images, RemoveImage(i) \/ RemoveSnapshot(i)
      PROVE  Sized'
  BY <1>2 DEF RemoveImage, RemoveSnapshot, Sized
<1>3. CASE NewRelease
  BY <1>0, <1>3 DEF NewRelease, Sized
<1>4. CASE UNCHANGED vars
  BY <1>4 DEF vars, oxide, Sized
<1>. QED
  BY <1>1, <1>2, <1>3, <1>4 DEF Next

LEMMA SizedAlways == Spec => []Sized
<1>1. Init => Sized
  BY DEF Init, Sized
<1>. QED
  BY <1>1, BasicsAlways, SizedStep, PTL DEF Spec

----------------------------------------------------------------------------
(* The refinement.                                                         *)

LEMMA CatalogueInit == Init => Catalogue!Init
  BY DEF Init, Catalogue!Init, Absent, Catalogue!Absent

LEMMA CaptureStep ==
  ASSUME Basics, Uploaded, Sized, NEW c \in Controllers, Captures(c),
         UNCHANGED release
  PROVE  Catalogue!Capture(Current(c))
<1>1. disk[c] \in DiskIds /\ disks[disk[c]] # NoDisk
      /\ disks[disk[c]].stage = "stopped"
  BY DEF Captures, Basics, Holds, Holding, TypeOK, Uploaded
<1>. DEFINE s == disks[disk[c]].size
<1>2. s \in 1..release
  BY <1>1 DEF Sized
<1>3. snapshots[Current(c)] = Catalogue!Absent
  BY DEF Captures, TakeSnapshot, Absent, Catalogue!Absent
<1>4. snapshots' = [snapshots EXCEPT ![Current(c)] = Catalogue!Import(s)]
  BY <1>1 DEF Captures, TakeSnapshot, Catalogue!Import
<1>. QED
  BY <1>2, <1>3, <1>4 DEF Captures, Catalogue!Capture

LEMMA PublishStep ==
  ASSUME NEW c \in Controllers, Publishes(c), UNCHANGED release
  PROVE  Catalogue!Publish(Current(c))
  BY DEF Publishes, NewImage, Catalogue!Publish, Absent, Catalogue!Absent

LEMMA CatalogueStep ==
  Basics /\ Uploaded /\ Sized /\ [Next]_vars => [Catalogue!Next]_(Catalogue!vars)
<1>. SUFFICES ASSUME Basics, Uploaded, Sized, [Next]_vars
              PROVE  [Catalogue!Next]_(Catalogue!vars)
  OBVIOUS
<1>0. \A c \in Controllers : Current(c) \in Images
  BY Wanted DEF Basics
<1>1. ASSUME NEW c \in Controllers, Step(c) \/ Fault(c)
      PROVE  [Catalogue!Next]_(Catalogue!vars)
  <2>1. /\ UNCHANGED release
        /\ UNCHANGED <<snapshots, images>> \/ Captures(c) \/ Publishes(c)
    BY <1>1, ActionOnCatalogue
  <2>2. CASE UNCHANGED <<snapshots, images>>
    BY <2>1, <2>2 DEF Catalogue!vars
  <2>3. CASE Captures(c)
    BY <1>0, <2>1, <2>3, CaptureStep DEF Catalogue!Next
  <2>4. CASE Publishes(c)
    BY <1>0, <2>1, <2>4, PublishStep DEF Catalogue!Next
  <2>. QED
    BY <2>1, <2>2, <2>3, <2>4
<1>2. ASSUME NEW i \in Images, RemoveImage(i)
      PROVE  [Catalogue!Next]_(Catalogue!vars)
  <2>1. Catalogue!Withdraw(i)
    BY <1>2 DEF RemoveImage, Catalogue!Withdraw, Absent, Catalogue!Absent
  <2>. QED
    BY <2>1 DEF Catalogue!Next
<1>3. ASSUME NEW i \in Images, RemoveSnapshot(i)
      PROVE  [Catalogue!Next]_(Catalogue!vars)
  <2>1. Catalogue!Discard(i)
    BY <1>3 DEF RemoveSnapshot, Catalogue!Discard, Absent, Catalogue!Absent
  <2>. QED
    BY <2>1 DEF Catalogue!Next
<1>4. CASE NewRelease
  <2>1. scenario.newest \in 1..MaxSize /\ release \in 1..MaxSize
    BY ScenarioAssumption DEF Basics, TypeOK
  <2>. QED
    BY <1>4, <2>1, SizeAssumption DEF NewRelease, Catalogue!Next, Catalogue!Advance
<1>5. CASE UNCHANGED vars
  BY <1>5 DEF vars, oxide, Catalogue!vars
<1>. QED
  BY <1>1, <1>2, <1>3, <1>4, <1>5 DEF Next

(* Whatever the imports are interrupted by and however many controllers     *)
(* import at once, a snapshot is what one upload that finished without an   *)
(* error left (module ImageUpload says what it may lack), an image is its   *)
(* snapshot, and neither is ever replaced.                                  *)
THEOREM ImplementsImageCatalogue == Spec => ImplementsCatalogue
  BY BasicsAlways, UploadedAlways, SizedAlways, CatalogueInit, CatalogueStep, PTL
     DEF Spec, ImplementsCatalogue, Catalogue!Spec

----------------------------------------------------------------------------
(* The stranded snapshot.                                                  *)

(* A controller that comes to the deletion of its disk has just taken the  *)
(* snapshot, and one that comes to the image comes from the deletion.       *)
Route(c) ==
  /\ \A d \in Controllers : d # c => pc'[d] = pc[d] /\ todo'[d] = todo[d]
  /\ pc'[c] = "delete" => snapshots[Current(c)] = Absent /\ todo'[c] = todo[c]
  /\ pc'[c] = "image" => pc[c] = "delete" /\ todo'[c] = todo[c]

LEMMA LeaveRoute ==
  ASSUME TypeOK, NEW c \in Controllers, NEW to \in {"sleep", "down", "blocked"},
         Leave(c, to)
  PROVE  Route(c)
  BY DEF TypeOK, Leave, Route

LEMMA ActionRoute ==
  ASSUME TypeOK, NEW c \in Controllers, Step(c) \/ Fault(c)
  PROVE  Route(c)
<1>1. ASSUME Abort(c)
      PROVE  Route(c)
  BY <1>1, AbortMoves, LeaveRoute
<1>2. CASE Start(c) \/ Wake(c) \/ CreateProject(c) \/ SetRootDisks(c)
  BY <1>2 DEF Start, Wake, CreateProject, SetRootDisks, Goto, TypeOK, Route
<1>3. CASE ListProjects(c)
  BY <1>3 DEF ListProjects, Goto, TypeOK, Route
<1>4. CASE ListImages(c)
  BY <1>4 DEF ListImages, Goto, TypeOK, Route
<1>5. CASE CreateDisk(c) \/ Upload(c)
  BY <1>5 DEF CreateDisk, Upload, Goto, TypeOK, Route
<1>6. CASE Finalize(c)
  BY <1>6 DEF Finalize, TakeSnapshot, Goto, TypeOK, Route
<1>7. CASE DeleteDisk(c) \/ DeleteIgnored(c)
  BY <1>7 DEF DeleteDisk, DeleteIgnored, Goto, TypeOK, Route
<1>8. CASE CreateImage(c)
  <2>1. Imported(c, snapshots[Current(c)])
    BY <1>8 DEF CreateImage
  <2>. QED
    BY <2>1 DEF Imported, TypeOK, Route
<1>9. CASE Finish(c) \/ Crash(c)
  BY <1>9, LeaveRoute DEF Finish, Crash
<1>10. CASE \/ ProjectTaken(c) \/ DiskRefused(c) \/ SnapshotTaken(c)
            \/ SnapshotGone(c) \/ ImageTaken(c) \/ Unusable(c)
            \/ Fail(c) \/ Unanswered(c)
  BY <1>1, <1>10
     DEF ProjectTaken, DiskRefused, SnapshotTaken, SnapshotGone, ImageTaken,
         Unusable, Fail, Unanswered
<1>. QED
  BY <1>2, <1>3, <1>4, <1>5, <1>6, <1>7, <1>8, <1>9, <1>10 DEF Step, Fault

LEMMA StrandedKept ==
  ASSUME TypeOK, [Next]_vars, NEW i \in Images, Stranded(i), snapshots'[i] # Absent
  PROVE  Stranded(i)'
<1>0. /\ images[i] = Absent /\ InSilo(i) = Absent /\ snapshots[i] # Absent
      /\ \A d \in Controllers : pc[d] \in {"delete", "image"} => Current(d) # i
  BY DEF Stranded, Available
<1>1. ASSUME NEW c \in Controllers, Step(c) \/ Fault(c)
      PROVE  Stranded(i)'
  <2>1. Route(c)
    BY <1>1, ActionRoute
  <2>2. UNCHANGED scenario /\ InSilo(i)' = Absent
    BY <1>0, <1>1, ActionOnCatalogue DEF InSilo
  <2>3. UNCHANGED <<snapshots, images>> \/ Captures(c) \/ Publishes(c)
    BY <1>1, ActionOnCatalogue
  <2>4. images'[i] = Absent
    <3>1. CASE UNCHANGED images
      BY <1>0, <3>1
    <3>2. CASE Publishes(c)
      <4>1. Current(c) # i /\ Current(c) \in Images
        BY <1>0, <3>2, Wanted DEF Publishes
      <4>. QED
        BY <1>0, <3>2, <4>1 DEF Publishes, NewImage, TypeOK
    <3>. QED
      BY <2>3, <3>1, <3>2 DEF Captures
  <2>5. ASSUME NEW d \in Controllers, pc'[d] \in {"delete", "image"}
        PROVE  Current(d)' # i
    <3>1. CASE d # c
      BY <1>0, <2>1, <2>2, <2>5, <3>1 DEF Route, Current
    <3>2. CASE d = c
      <4>1. todo'[c] = todo[c] /\ Current(c) # i
        BY <1>0, <2>1, <2>5, <3>2 DEF Route
      <4>. QED
        BY <2>2, <3>2, <4>1 DEF Current
    <3>. QED
      BY <3>1, <3>2
  <2>. QED
    BY <2>2, <2>4, <2>5 DEF Stranded, Available
<1>2. ASSUME UNCHANGED <<scenario, process>>, images'[i] = Absent
      PROVE  Stranded(i)'
  BY <1>0, <1>2 DEF Stranded, Available, InSilo, Current, process
<1>3. ASSUME NEW j \in Images, RemoveImage(j) \/ RemoveSnapshot(j)
      PROVE  Stranded(i)'
  <2>1. images'[i] = Absent
    BY <1>0, <1>3 DEF RemoveImage, RemoveSnapshot, TypeOK
  <2>. QED
    BY <1>2, <1>3, <2>1 DEF RemoveImage, RemoveSnapshot
<1>4. CASE NewRelease \/ UNCHANGED vars
  BY <1>0, <1>2, <1>4 DEF NewRelease, vars, oxide
<1>. QED
  BY <1>1, <1>3, <1>4 DEF Next

(* A snapshot left without its image is never taken up again by any         *)
(* controller: only its removal by hand ends that.                         *)
THEOREM StrandedForEver == Spec => StrandedStays
<1>1. TypeOK /\ [Next]_vars
        => [\A i \in Images : Stranded(i) /\ snapshots'[i] # Absent => Stranded(i)']_vars
  BY StrandedKept
<1>. QED
  BY <1>1, ImportTypeCorrect, PTL DEF Spec, StrandedStays

================================================================================
