--------------------------- MODULE ImageImport_proofs ---------------------------
(***************************************************************************)
(* Proofs about module ImageImport, for any number of controllers, images  *)
(* and disks, any flags and any number of faults.                          *)
(***************************************************************************)
EXTENDS ImageImport, FiniteSetTheorems, TLAPS

USE ScenarioAssumption, SizeAssumption, LimitAssumption

----------------------------------------------------------------------------
(* The inductive invariants.                                               *)

Points == Executing \cup {"down", "sleep", "blocked"}

(* Between its creation and its deletion a disk belongs to one import.     *)
Holding == {"upload", "finalize", "delete"}

Holds(c) ==
  /\ disk[c] # Unused <=> pc[c] \in Holding
  /\ pc[c] \in Holding => disks[disk[c]] # NoDisk

Own(c, d) == disk[c] # Unused => disk[c] # disk[d]

Basics ==
  /\ TypeOK
  /\ \A c \in Controllers : Holds(c)
  /\ \A c, d \in Controllers : c # d => Own(c, d)

(* A disk of which a snapshot is taken has a finished upload.             *)
Uploaded ==
  /\ OnlyFinishedUploads
  /\ \A c \in Controllers : pc[c] = "finalize" => disks[disk[c]].stage = "stopped"

(* What a controller knows exists, and it knows all that it wants.         *)
Knowledge ==
  /\ faults["removal"] = 0 =>
       \A c \in Controllers : \A i \in Images : found[c][i] # Absent => Available(i)
  /\ \A c \in Controllers : pc[c] = "ready" => \A i \in Names : found[c][i] # Absent
  /\ RootDisksFit

(* The disks that no import is using, and the failures they come from.     *)
Left == {d \in DiskIds \ InUse : disks[d] # NoDisk}
Failures == failed + faults["failure"]

----------------------------------------------------------------------------
(* The operators the actions share.                                        *)

Nothing == [i \in Images |-> Absent]
Stages == [stage : {"absent", "importing", "stopped", "finalized"}, size : 0..MaxSize]

LEMMA NothingHasType ==
  /\ Absent \in Contents /\ Absent.uploaded = FALSE
  /\ Nothing \in [Images -> Contents]
  /\ NoDisk \in Stages /\ NoDisk.stage = "absent"
<1>1. Absent \in Contents /\ Absent.uploaded = FALSE
  BY DEF Absent, Contents
<1>2. NoDisk \in Stages /\ NoDisk.stage = "absent"
  BY DEF NoDisk, Stages
<1>. QED
  BY <1>1, <1>2 DEF Nothing

LEMMA NoErrors == 0 \in 0..ErrCap /\ 1 \in 0..ErrCap
  BY DEF ErrCap

LEMMA ChargeType ==
  ASSUME TypeOK, NEW k \in FaultKinds, Charge(k)
  PROVE  /\ faults' \in [FaultKinds -> Nat]
         /\ \A q \in FaultKinds : faults'[q] = IF q = k THEN faults[q] + 1 ELSE faults[q]
  BY DEF TypeOK, Charge

(* An action of controller c moves it and no other.                        *)
Moves(c, from, to) ==
  /\ pc' \in [Controllers -> Points]
  /\ pc[c] = from /\ pc'[c] = to
  /\ \A d \in Controllers : d # c => pc'[d] = pc[d]

LEMMA GotoMoves ==
  ASSUME TypeOK, NEW c \in Controllers, NEW from, NEW to \in Points, Goto(c, from, to)
  PROVE  Moves(c, from, to)
  BY DEF TypeOK, Points, Goto, Moves

LEMMA LeaveMoves ==
  ASSUME TypeOK, NEW c \in Controllers, NEW to \in {"sleep", "down", "blocked"}, Leave(c, to)
  PROVE  /\ Moves(c, pc[c], to)
         /\ found' \in [Controllers -> [Images -> Contents]]
         /\ todo' \in [Controllers -> SUBSET Images]
         /\ disk' \in [Controllers -> DiskIds \cup {Unused}]
         /\ disk'[c] = Unused /\ found'[c] = Nothing
         /\ \A d \in Controllers : d # c => disk'[d] = disk[d] /\ found'[d] = found[d]
<1>1. Moves(c, pc[c], to)
  BY DEF Leave, TypeOK, Points, Moves
<1>2. /\ found' \in [Controllers -> [Images -> Contents]]
      /\ found'[c] = Nothing
      /\ \A d \in Controllers : d # c => found'[d] = found[d]
  BY NothingHasType DEF Leave, TypeOK, Nothing
<1>3. todo' \in [Controllers -> SUBSET Images]
  BY DEF Leave, TypeOK
<1>4. /\ disk' \in [Controllers -> DiskIds \cup {Unused}]
      /\ disk'[c] = Unused
      /\ \A d \in Controllers : d # c => disk'[d] = disk[d]
  BY DEF Leave, TypeOK
<1>. QED
  BY <1>1, <1>2, <1>3, <1>4

LEMMA FailedType ==
  ASSUME TypeOK, Failed
  PROVE  failed' \in Nat /\ failed <= failed' /\ (failed' = failed + 1 \/ failed' >= Quota)
  BY DEF TypeOK, Failed

(* Execute that ends in an error: where it leaves the controller.          *)
ErrorsType == errCh' \in [Controllers -> 0..ErrCap]

LEMMA AbortErrors ==
  ASSUME TypeOK, NEW c \in Controllers, Abort(c)
  PROVE  ErrorsType
<1>1. CASE UNCHANGED errCh
  BY <1>1 DEF TypeOK, ErrorsType
<1>2. CASE errCh[c] < ErrCap /\ errCh' = [errCh EXCEPT ![c] = @ + 1]
  <2>1. errCh \in [Controllers -> 0..ErrCap] /\ errCh[c] \in 0..ErrCap
    BY DEF TypeOK
  <2>2. errCh[c] + 1 \in 0..ErrCap
    BY <1>2, <2>1 DEF ErrCap
  <2>. QED
    BY <1>2, <2>1, <2>2 DEF ErrorsType
<1>. QED
  BY <1>1, <1>2 DEF Abort

LEMMA AbortMoves ==
  ASSUME TypeOK, NEW c \in Controllers, Abort(c)
  PROVE  \E to \in {"sleep", "down", "blocked"} : Leave(c, to)
  BY DEF Abort

LEMMA Wanted ==
  ASSUME TypeOK
  PROVE  /\ \A r \in Roles : scenario.wanted[r] \in Images
         /\ scenario.flags \in [Roles -> Nat] /\ Names \subseteq Images
         /\ \A c \in Controllers : Current(c) \in Names /\ Current(c) \in Images
<1>1. scenario.wanted \in [Roles -> Images] /\ scenario.flags \in [Roles -> Nat]
  BY DEF TypeOK
<1>2. "controlPlane" \in Roles /\ "worker" \in Roles
  BY DEF Roles
<1>. QED
  BY <1>1, <1>2 DEF Names, Current

LEMMA KnownType ==
  ASSUME TypeOK, NEW i \in Images
  PROVE  Known(i) \in Contents /\ InSilo(i) \in Contents
<1>1. [size |-> 1, uploaded |-> TRUE] \in Contents
  BY DEF Contents
<1>2. InSilo(i) \in Contents
  BY <1>1, NothingHasType DEF InSilo
<1>. QED
  BY <1>2, NothingHasType DEF Known, TypeOK

LEMMA NewDiskType ==
  ASSUME TypeOK, NEW d \in DiskIds, NewDisk(d)
  PROVE  /\ disks' \in [DiskIds -> Stages]
         /\ disks[d] = NoDisk /\ disks'[d] # NoDisk
         /\ \A e \in DiskIds : e # d => disks'[e] = disks[e]
<1>1. PICK size \in Downloads :
        disks' = [disks EXCEPT ![d] = [stage |-> "importing", size |-> size]]
  BY DEF NewDisk
<1>2. [stage |-> "importing", size |-> size] \in Stages
  BY SizeAssumption DEF TypeOK, Stages, Downloads
<1>3. disks[d] = NoDisk /\ [stage |-> "importing", size |-> size] # NoDisk
  BY DEF NewDisk, Free, NoDisk
<1>. QED
  BY <1>1, <1>2, <1>3 DEF TypeOK, Stages

LEMMA StageType ==
  ASSUME TypeOK, NEW c \in Controllers, disk[c] \in DiskIds,
         NEW s \in {"stopped", "finalized"}, SetStage(c, s)
  PROVE  /\ disks' \in [DiskIds -> Stages]
         /\ disks'[disk[c]].stage = s /\ disks'[disk[c]] # NoDisk
         /\ \A e \in DiskIds : e # disk[c] => disks'[e] = disks[e]
<1>. DEFINE new == [disks[disk[c]] EXCEPT !.stage = s]
<1>1. disks[disk[c]] \in Stages
  BY DEF TypeOK, Stages
<1>2. new \in Stages /\ new.stage = s
  BY <1>1 DEF Stages
<1>3. disks' = [disks EXCEPT ![disk[c]] = new]
  BY DEF SetStage
<1>4. disks' \in [DiskIds -> Stages] /\ disks'[disk[c]] = new
      /\ \A e \in DiskIds : e # disk[c] => disks'[e] = disks[e]
  BY <1>2, <1>3 DEF TypeOK, Stages
<1>. QED
  BY <1>2, <1>4, NothingHasType

LEMMA SnapshotType ==
  ASSUME TypeOK, NEW c \in Controllers, disk[c] \in DiskIds, TakeSnapshot(c)
  PROVE  /\ snapshots' \in [Images -> Contents]
         /\ disks[disk[c]].stage = "stopped" =>
              snapshots'[Current(c)] # Absent /\ snapshots'[Current(c)].uploaded
         /\ \A i \in Images : i # Current(c) => snapshots'[i] = snapshots[i]
<1>. DEFINE new == [size |-> disks[disk[c]].size, uploaded |-> disks[disk[c]].stage = "stopped"]
<1>1. disks[disk[c]].size \in 0..MaxSize
  BY DEF TypeOK
<1>2. new \in Contents
  BY <1>1 DEF Contents
<1>3. Current(c) \in Images /\ snapshots' = [snapshots EXCEPT ![Current(c)] = new]
  BY Wanted DEF TakeSnapshot
<1>4. disks[disk[c]].stage = "stopped" => new.uploaded = TRUE
  OBVIOUS
<1>. HIDE DEF new
<1>. QED
  BY <1>2, <1>3, <1>4, NothingHasType DEF TypeOK

----------------------------------------------------------------------------
(* The basic invariant: who holds which disk.                              *)

LEMMA BasicsInit == Init => Basics
<1>. SUFFICES ASSUME Init PROVE Basics
  OBVIOUS
<1>1. TypeOK
  BY NothingHasType, NoErrors DEF Init, TypeOK, Nothing, Stages, Executing, FaultKinds
<1>2. \A c \in Controllers : disk[c] = Unused /\ pc[c] = "down"
  BY DEF Init
<1>. QED
  BY <1>1, <1>2 DEF Basics, Holds, Own, Holding

(* What an action of controller c does to its disk and to the disks.       *)
Hands(c) ==
  /\ \A d \in Controllers : d # c => pc'[d] = pc[d] /\ disk'[d] = disk[d]
  /\ disk'[c] # Unused <=> pc'[c] \in Holding
  /\ disk'[c] \in {Unused, disk[c]} \/ disks[disk'[c]] = NoDisk
  /\ disk'[c] # Unused => disks'[disk'[c]] # NoDisk
  /\ \A x \in DiskIds :
       disks[x] # NoDisk /\ disks'[x] = NoDisk => x = disk[c] /\ disk'[c] = Unused

LEMMA HandsKeepBasics ==
  ASSUME Basics, NEW c \in Controllers, Hands(c), TypeOK'
  PROVE  Basics'
<1>. USE DEF Basics, Holds, Own, Hands
<1>1. ASSUME NEW d \in Controllers, d # c
      PROVE  Holds(d)' /\ Own(c, d)' /\ Own(d, c)'
  <2>1. pc'[d] = pc[d] /\ disk'[d] = disk[d] /\ Holds(d) /\ Own(c, d) /\ Own(d, c)
    BY <1>1
  <2>2. disk[d] # Unused => disk[d] \in DiskIds /\ disks[disk[d]] # NoDisk
    BY <2>1 DEF TypeOK
  <2>3. disk[d] # Unused => disks'[disk[d]] # NoDisk
    BY <2>1, <2>2
  <2>4. disk'[c] # Unused => disk'[c] # disk'[d]
    BY <2>1, <2>2
  <2>. QED
    BY <2>1, <2>3, <2>4
<1>2. ASSUME NEW d \in Controllers, NEW e \in Controllers, d # c, e # c, d # e
      PROVE  Own(d, e)'
  BY <1>2
<1>3. Holds(c)'
  OBVIOUS
<1>4. \A d \in Controllers : Holds(d)'
  BY <1>1, <1>3
<1>5. \A d, e \in Controllers : d # e => Own(d, e)'
  BY <1>1, <1>2
<1>. QED
  BY <1>4, <1>5

(* A step that does not touch the disks, of a controller that has none.    *)
LEMMA EmptyHands ==
  ASSUME Basics, NEW c \in Controllers, NEW from, NEW to, Moves(c, from, to),
         from \notin Holding, to \notin Holding, UNCHANGED <<disk, disks>>
  PROVE  Hands(c)
  BY DEF Basics, Holds, Moves, Hands

LEMMA BasicsLeave ==
  ASSUME Basics, NEW c \in Controllers, NEW to \in {"sleep", "down", "blocked"},
         Leave(c, to),
         looping' \in [Controllers -> BOOLEAN], ErrorsType,
         Failed \/ UNCHANGED failed,
         UNCHANGED <<scenario, release, rootDisk>>, project' \in BOOLEAN,
         disks' \in [DiskIds -> Stages], snapshots' \in [Images -> Contents],
         images' \in [Images -> Contents], faults' \in [FaultKinds -> Nat],
         \A x \in DiskIds : disks[x] # NoDisk => disks'[x] # NoDisk
  PROVE  Basics'
<1>1. TypeOK
  BY DEF Basics
<1>2. failed' \in Nat
  BY <1>1, FailedType DEF TypeOK
<1>3. TypeOK'
  BY <1>1, <1>2, LeaveMoves DEF TypeOK, ErrorsType, Moves, Points, Stages
<1>4. Hands(c)
  BY <1>1, LeaveMoves DEF Hands, Moves, Holding
<1>. QED
  BY <1>3, <1>4, HandsKeepBasics

LEMMA BasicsAbort ==
  ASSUME Basics, NEW c \in Controllers, Abort(c), UNCHANGED <<oxide, rootDisk>>,
         faults' \in [FaultKinds -> Nat]
  PROVE  Basics'
<1>1. TypeOK
  BY DEF Basics
<1>2. PICK to \in {"sleep", "down", "blocked"} : Leave(c, to)
  BY <1>1, AbortMoves
<1>3. Failed /\ looping' = looping /\ ErrorsType
  BY <1>1, AbortErrors DEF Abort
<1>. QED
  BY <1>1, <1>2, <1>3, BasicsLeave DEF TypeOK, oxide, Stages

LEMMA FilledType ==
  ASSUME TypeOK, NEW c \in Controllers, NEW r \in Roles
  PROVE  Filled(c, r) \in Nat /\ MinSize(c, r) \in Nat
<1>1. found[c][scenario.wanted[r]] \in Contents
  BY Wanted DEF TypeOK
<1>2. MinSize(c, r) \in Nat
  BY <1>1 DEF MinSize, Contents
<1>. QED
  BY <1>2 DEF Filled, TypeOK

LEMMA BasicsOfStep ==
  ASSUME Basics, NEW c \in Controllers, Step(c)
  PROVE  Basics'
<1>. USE DEF oxide
<1>0. TypeOK /\ faults \in [FaultKinds -> Nat] /\ Holds(c)
  BY DEF Basics, TypeOK
<1>1. CASE Start(c)
  <2>1. Moves(c, "down", "projects")
    BY <1>0, <1>1, GotoMoves DEF Start, Points, Executing
  <2>2. TypeOK'
    BY <1>0, <1>1, <2>1, Wanted DEF Start, TypeOK, Moves, Points
  <2>. QED
    BY <1>1, <2>1, <2>2, EmptyHands, HandsKeepBasics DEF Start, Holding
<1>2. CASE Wake(c)
  <2>1. Moves(c, "sleep", "projects")
    BY <1>0, <1>2, GotoMoves DEF Wake, Points, Executing
  <2>2. TypeOK'
    BY <1>0, <1>2, <2>1 DEF Wake, TypeOK, Moves, Points
  <2>. QED
    BY <1>2, <2>1, <2>2, EmptyHands, HandsKeepBasics DEF Wake, Holding
<1>3. CASE ListProjects(c)
  <2>1. PICK to \in {"images", "newProject"} : Moves(c, "projects", to)
    BY <1>0, <1>3, GotoMoves DEF ListProjects, Points, Executing
  <2>2. TypeOK'
    BY <1>0, <1>3, <2>1 DEF ListProjects, TypeOK, Moves, Points
  <2>. QED
    BY <1>3, <2>1, <2>2, EmptyHands, HandsKeepBasics DEF ListProjects, Holding
<1>4. CASE CreateProject(c)
  <2>1. Moves(c, "newProject", "images")
    BY <1>0, <1>4, GotoMoves DEF CreateProject, Points, Executing
  <2>2. TypeOK'
    BY <1>0, <1>4, <2>1 DEF CreateProject, TypeOK, Moves, Points
  <2>. QED
    BY <1>4, <2>1, <2>2, EmptyHands, HandsKeepBasics DEF CreateProject, Holding
<1>5. CASE \/ ProjectTaken(c) \/ DiskRefused(c) \/ SnapshotTaken(c)
           \/ SnapshotGone(c) \/ ImageTaken(c)
  BY <1>0, <1>5, BasicsAbort
     DEF ProjectTaken, DiskRefused, SnapshotTaken, SnapshotGone, ImageTaken
<1>6. CASE ListImages(c)
  <2>. DEFINE known == [i \in Images |-> Known(i)]
              missing == {i \in Names : known[i] = Absent}
  <2>1. PICK to \in {"disks", "create"} : Moves(c, "images", to)
    BY <1>0, <1>6, GotoMoves DEF ListImages, Points, Executing, Importing
  <2>2. known \in [Images -> Contents] /\ missing \subseteq Images
    BY <1>0, KnownType, Wanted
  <2>3. found' = [found EXCEPT ![c] = known] /\ todo' = [todo EXCEPT ![c] = missing]
    BY <1>6 DEF ListImages
  <2>. HIDE DEF known, missing
  <2>4. found' \in [Controllers -> [Images -> Contents]]
        /\ todo' \in [Controllers -> SUBSET Images]
    BY <1>0, <2>2, <2>3 DEF TypeOK
  <2>5. TypeOK'
    BY <1>0, <1>6, <2>1, <2>4 DEF ListImages, TypeOK, Moves, Points
  <2>. QED
    BY <1>6, <2>1, <2>5, EmptyHands, HandsKeepBasics DEF ListImages, Holding
<1>7. CASE CreateDisk(c)
  <2>1. Moves(c, "create", "upload")
    BY <1>0, <1>7, GotoMoves DEF CreateDisk, Points, Executing, Importing
  <2>2. PICK d \in DiskIds : NewDisk(d) /\ disk' = [disk EXCEPT ![c] = d]
    BY <1>7 DEF CreateDisk
  <2>3. TypeOK'
    BY <1>0, <1>7, <2>1, <2>2, NewDiskType DEF CreateDisk, TypeOK, Moves, Points, Stages
  <2>4. d # Unused
    BY DEF DiskIds, Unused
  <2>5. disk'[c] = d /\ \A e \in Controllers : e # c => disk'[e] = disk[e]
    BY <1>0, <2>2 DEF TypeOK
  <2>6. Hands(c)
    BY <1>0, <2>1, <2>2, <2>4, <2>5, NewDiskType DEF Hands, Moves, Holding
  <2>. QED
    BY <2>3, <2>6, HandsKeepBasics
<1>8. CASE Upload(c) \/ Finalize(c)
  <2>1. PICK from \in {"upload", "finalize"}, to \in {"finalize", "delete"} :
          Moves(c, from, to)
    BY <1>0, <1>8, GotoMoves DEF Upload, Finalize, Points, Executing, Importing
  <2>2. disk[c] \in DiskIds
    BY <1>0, <2>1 DEF Holds, Holding, Moves, TypeOK
  <2>3. PICK s \in {"stopped", "finalized"} : SetStage(c, s)
    BY <1>8 DEF Upload, Finalize, TakeSnapshot
  <2>4. snapshots' \in [Images -> Contents]
    BY <1>0, <1>8, <2>2, SnapshotType DEF Upload, Finalize, TypeOK
  <2>5. TypeOK'
    BY <1>0, <1>8, <2>1, <2>2, <2>3, <2>4, StageType
       DEF Upload, Finalize, TypeOK, Moves, Points, Stages
  <2>6. Hands(c)
    BY <1>0, <1>8, <2>1, <2>2, <2>3, StageType
       DEF Upload, Finalize, Hands, Moves, Holding, Holds
  <2>. QED
    BY <2>5, <2>6, HandsKeepBasics
<1>9. CASE DeleteDisk(c)
  <2>1. Moves(c, "delete", "image")
    BY <1>0, <1>9, GotoMoves DEF DeleteDisk, Points, Executing, Importing
  <2>2. /\ disks' = [disks EXCEPT ![disk[c]] = NoDisk]
        /\ disk' = [disk EXCEPT ![c] = Unused]
    BY <1>9 DEF DeleteDisk
  <2>3. disks' \in [DiskIds -> Stages]
    BY <1>0, <2>2, NothingHasType DEF TypeOK, Stages
  <2>4. disk' \in [Controllers -> DiskIds \cup {Unused}]
    BY <1>0, <2>2 DEF TypeOK
  <2>5. TypeOK'
    BY <1>0, <1>9, <2>1, <2>3, <2>4 DEF DeleteDisk, TypeOK, Moves, Points, Stages
  <2>6. Hands(c)
    BY <1>0, <2>1, <2>2 DEF Hands, Moves, Holding, TypeOK
  <2>. QED
    BY <2>5, <2>6, HandsKeepBasics
<1>10. CASE CreateImage(c)
  <2>1. pc[c] = "image" /\ NewImage(c) /\ Imported(c, snapshots[Current(c)])
    BY <1>10 DEF CreateImage
  <2>2. PICK to \in {"disks", "create"} : Moves(c, "image", to)
    BY <1>0, <2>1 DEF Imported, TypeOK, Points, Executing, Importing, Moves
  <2>3. snapshots[Current(c)] \in Contents /\ Current(c) \in Images
    BY <1>0, Wanted DEF TypeOK
  <2>4. found' \in [Controllers -> [Images -> Contents]]
    BY <1>0, <2>1, <2>3 DEF Imported, TypeOK
  <2>5. todo' \in [Controllers -> SUBSET Images]
    BY <1>0, <2>1 DEF Imported, TypeOK
  <2>6. images' \in [Images -> Contents]
    BY <1>0, <2>1, <2>3 DEF NewImage, TypeOK
  <2>7. TypeOK'
    BY <1>0, <1>10, <2>2, <2>4, <2>5, <2>6 DEF CreateImage, TypeOK, Moves, Points
  <2>. QED
    BY <1>10, <2>2, <2>7, EmptyHands, HandsKeepBasics DEF CreateImage, Holding
<1>11. CASE SetRootDisks(c)
  <2>1. Moves(c, "disks", "ready")
    BY <1>0, <1>11, GotoMoves DEF SetRootDisks, Points, Executing
  <2>2. rootDisk' \in [Controllers -> [Roles -> Nat]]
    BY <1>0, <1>11, FilledType DEF SetRootDisks, TypeOK
  <2>3. TypeOK'
    BY <1>0, <1>11, <2>1, <2>2 DEF SetRootDisks, TypeOK, Moves, Points
  <2>. QED
    BY <1>11, <2>1, <2>3, EmptyHands, HandsKeepBasics DEF SetRootDisks, Holding
<1>12. CASE Unusable(c)
  <2>1. PICK to \in {"sleep", "down", "blocked"} : Leave(c, to)
    BY <1>0, <1>12, AbortMoves DEF Unusable
  <2>2. rootDisk' \in [Controllers -> [Roles -> Nat]]
    BY <1>0, <1>12, FilledType DEF Unusable, TypeOK, Roles
  <2>3. failed' \in Nat /\ looping' = looping /\ ErrorsType
    BY <1>0, <1>12, FailedType, AbortErrors DEF Unusable, Abort
  <2>4. TypeOK'
    BY <1>0, <1>12, <2>1, <2>2, <2>3, LeaveMoves
       DEF Unusable, TypeOK, ErrorsType, Moves, Points
  <2>5. Hands(c)
    BY <1>0, <1>12, <2>1, LeaveMoves DEF Unusable, Hands, Moves, Holding
  <2>. QED
    BY <2>4, <2>5, HandsKeepBasics
<1>13. CASE Finish(c)
  <2>1. looping' \in [Controllers -> BOOLEAN] /\ ErrorsType
    <3>1. looping' \in [Controllers -> BOOLEAN]
      BY <1>0, <1>13 DEF Finish, TypeOK
    <3>2. errCh \in [Controllers -> 0..ErrCap]
      BY <1>0 DEF TypeOK
    <3>. QED
      BY <1>13, <3>1, <3>2, NoErrors DEF Finish, ErrorsType
  <2>2. UNCHANGED <<scenario, release, project, disks, snapshots, images,
                    rootDisk, failed, faults>> /\ Leave(c, "sleep")
    BY <1>13 DEF Finish
  <2>. QED
    BY <1>0, <2>1, <2>2, BasicsLeave DEF TypeOK, Stages
<1>. QED
  BY <1>1, <1>2, <1>3, <1>4, <1>5, <1>6, <1>7, <1>8, <1>9, <1>10, <1>11, <1>12,
     <1>13 DEF Step

LEMMA BasicsOfFault ==
  ASSUME Basics, NEW c \in Controllers, Fault(c)
  PROVE  Basics'
<1>. USE DEF oxide
<1>0. TypeOK /\ Holds(c) /\ "failure" \in FaultKinds /\ "crash" \in FaultKinds
  BY DEF Basics, FaultKinds
<1>1. CASE Fail(c)
  BY <1>0, <1>1, ChargeType, BasicsAbort DEF Fail
<1>2. CASE Unanswered(c)
  <2>1. faults' \in [FaultKinds -> Nat]
    BY <1>0, <1>2, ChargeType DEF Unanswered
  <2>2. PICK to \in {"sleep", "down", "blocked"} : Leave(c, to)
    BY <1>0, <1>2, AbortMoves DEF Unanswered
  <2>3. Failed /\ UNCHANGED <<scenario, release, rootDisk, looping>> /\ ErrorsType
    BY <1>0, <1>2, AbortErrors DEF Unanswered, Abort
  <2>4. /\ disks \in [DiskIds -> Stages] /\ snapshots \in [Images -> Contents]
        /\ images \in [Images -> Contents] /\ looping \in [Controllers -> BOOLEAN]
        /\ project \in BOOLEAN
    BY <1>0 DEF TypeOK, Stages
  <2>5. CASE /\ pc[c] = "newProject"
             /\ project' = TRUE
             /\ UNCHANGED <<disks, snapshots, images>>
    BY <2>1, <2>2, <2>3, <2>4, <2>5, BasicsLeave
  <2>6. CASE /\ pc[c] = "create"
             /\ \E d \in DiskIds : NewDisk(d)
             /\ UNCHANGED <<project, snapshots, images>>
    <3>1. disks' \in [DiskIds -> Stages]
          /\ \A x \in DiskIds : disks[x] # NoDisk => disks'[x] # NoDisk
      BY <1>0, <2>6, NewDiskType
    <3>. QED
      BY <2>1, <2>2, <2>3, <2>4, <2>6, <3>1, BasicsLeave
  <2>7. CASE /\ pc[c] = "finalize"
             /\ TakeSnapshot(c)
             /\ UNCHANGED <<project, images>>
    <3>1. disk[c] \in DiskIds /\ SetStage(c, "finalized")
      BY <1>0, <2>7 DEF Holds, Holding, TypeOK, TakeSnapshot
    <3>2. disks' \in [DiskIds -> Stages]
          /\ \A x \in DiskIds : disks[x] # NoDisk => disks'[x] # NoDisk
      BY <1>0, <3>1, StageType
    <3>3. snapshots' \in [Images -> Contents]
      BY <1>0, <2>7, <3>1, SnapshotType
    <3>. QED
      BY <2>1, <2>2, <2>3, <2>4, <2>7, <3>2, <3>3, BasicsLeave
  <2>8. CASE /\ pc[c] = "image"
             /\ NewImage(c)
             /\ UNCHANGED <<project, disks, snapshots>>
    <3>1. images' \in [Images -> Contents]
      BY <1>0, <2>4, <2>8, Wanted DEF NewImage
    <3>. QED
      BY <2>1, <2>2, <2>3, <2>4, <2>8, <3>1, BasicsLeave
  <2>. QED
    BY <1>2, <2>5, <2>6, <2>7, <2>8 DEF Unanswered
<1>3. CASE DeleteIgnored(c)
  <2>1. Moves(c, "delete", "image")
    BY <1>0, <1>3, GotoMoves DEF DeleteIgnored, Points, Executing, Importing
  <2>2. faults' \in [FaultKinds -> Nat]
    BY <1>0, <1>3, ChargeType DEF DeleteIgnored
  <2>3. TypeOK'
    BY <1>0, <1>3, <2>1, <2>2 DEF DeleteIgnored, TypeOK, Moves, Points
  <2>4. Hands(c)
    BY <1>0, <1>3, <2>1 DEF DeleteIgnored, Hands, Moves, Holding, TypeOK
  <2>. QED
    BY <2>3, <2>4, HandsKeepBasics
<1>4. CASE Crash(c)
  <2>1. /\ faults' \in [FaultKinds -> Nat] /\ looping' \in [Controllers -> BOOLEAN]
        /\ ErrorsType
    BY <1>0, <1>4, ChargeType, NoErrors DEF Crash, TypeOK, ErrorsType
  <2>. QED
    BY <1>0, <1>4, <2>1, BasicsLeave DEF Crash, TypeOK, Stages
<1>. QED
  BY <1>1, <1>2, <1>3, <1>4 DEF Fault

LEMMA BasicsStep == Basics /\ [Next]_vars => Basics'
<1>. SUFFICES ASSUME Basics, [Next]_vars PROVE Basics'
  OBVIOUS
<1>0. TypeOK /\ "removal" \in FaultKinds
  BY DEF Basics, FaultKinds
<1>1. ASSUME UNCHANGED <<pc, disk, disks>>, TypeOK'
      PROVE  Basics'
  BY <1>1 DEF Basics, Holds, Own
<1>2. ASSUME NEW i \in Images, RemoveImage(i) \/ RemoveSnapshot(i)
      PROVE  Basics'
  <2>1. faults' \in [FaultKinds -> Nat]
    BY <1>0, <1>2, ChargeType DEF RemoveImage, RemoveSnapshot
  <2>2. CASE RemoveImage(i)
    <3>1. images' \in [Images -> Contents]
      BY <1>0, <2>2, NothingHasType DEF RemoveImage, TypeOK
    <3>. QED
      BY <1>0, <1>1, <2>1, <2>2, <3>1 DEF RemoveImage, TypeOK, process
  <2>3. CASE RemoveSnapshot(i)
    <3>1. snapshots' \in [Images -> Contents]
      BY <1>0, <2>3, NothingHasType DEF RemoveSnapshot, TypeOK
    <3>. QED
      BY <1>0, <1>1, <2>1, <2>3, <3>1 DEF RemoveSnapshot, TypeOK, process
  <2>. QED
    BY <1>2, <2>2, <2>3
<1>3. CASE NewRelease
  BY <1>0, <1>1, <1>3 DEF NewRelease, TypeOK, process
<1>4. CASE UNCHANGED vars
  BY <1>0, <1>1, <1>4 DEF vars, oxide, process, TypeOK
<1>. QED
  BY <1>2, <1>3, <1>4, BasicsOfStep, BasicsOfFault DEF Next

LEMMA BasicsAlways == Spec => []Basics
  BY BasicsInit, BasicsStep, PTL DEF Spec

(* Every variable keeps its type: an import that changes a disk has one.   *)
THEOREM ImportTypeCorrect == Spec => []TypeOK
<1>1. Basics => TypeOK
  BY DEF Basics
<1>. QED
  BY <1>1, BasicsAlways, PTL

----------------------------------------------------------------------------
(* Finished uploads.                                                         *)

LEMMA UploadedInit == Init => Uploaded
<1>. SUFFICES ASSUME Init PROVE Uploaded
  OBVIOUS
<1>1. \A i \in Images : snapshots[i] = Absent /\ images[i] = Absent
  BY DEF Init
<1>2. \A c \in Controllers : pc[c] = "down"
  BY DEF Init
<1>. QED
  BY <1>1, <1>2 DEF Uploaded, OnlyFinishedUploads

(* What an action of controller c leaves alone.                            *)
Frame(c) ==
  /\ \A d \in Controllers : d # c => pc'[d] = pc[d] /\ disk'[d] = disk[d]
  /\ \A x \in DiskIds : disks[x] # NoDisk /\ x # disk[c] => disks'[x] = disks[x]
  /\ pc'[c] = "finalize" => Upload(c)

LEMMA LeaveFrame ==
  ASSUME TypeOK, NEW c \in Controllers, NEW to \in {"sleep", "down", "blocked"},
         Leave(c, to),
         \A x \in DiskIds : disks[x] # NoDisk /\ x # disk[c] => disks'[x] = disks[x]
  PROVE  Frame(c)
  BY LeaveMoves DEF Frame, Moves

LEMMA MovesFrame ==
  ASSUME TypeOK, NEW c \in Controllers, NEW from, NEW to, Moves(c, from, to),
         to # "finalize", UNCHANGED <<disk, disks>>
  PROVE  Frame(c)
  BY DEF Frame, Moves

LEMMA ActionFrame ==
  ASSUME Basics, NEW c \in Controllers, Step(c) \/ Fault(c)
  PROVE  Frame(c)
<1>. USE DEF oxide
<1>0. TypeOK /\ Holds(c)
  BY DEF Basics
<1>1. CASE Abort(c) /\ UNCHANGED disks
  BY <1>0, <1>1, AbortMoves, LeaveFrame
<1>2. CASE Start(c) \/ Wake(c) \/ CreateProject(c) \/ SetRootDisks(c)
  <2>1. PICK from \in {"down", "sleep", "newProject", "disks"},
             to \in {"projects", "images", "ready"} : Moves(c, from, to)
    BY <1>0, <1>2, GotoMoves
       DEF Start, Wake, CreateProject, SetRootDisks, Points, Executing
  <2>. QED
    BY <1>0, <1>2, <2>1, MovesFrame DEF Start, Wake, CreateProject, SetRootDisks
<1>3. CASE ListProjects(c)
  <2>1. PICK to \in {"images", "newProject"} : Moves(c, "projects", to)
    BY <1>0, <1>3, GotoMoves DEF ListProjects, Points, Executing
  <2>. QED
    BY <1>0, <1>3, <2>1, MovesFrame DEF ListProjects
<1>4. CASE ListImages(c)
  <2>1. PICK to \in {"disks", "create"} : Moves(c, "images", to)
    BY <1>0, <1>4, GotoMoves DEF ListImages, Points, Executing, Importing
  <2>. QED
    BY <1>0, <1>4, <2>1, MovesFrame DEF ListImages
<1>5. CASE CreateDisk(c)
  <2>1. Moves(c, "create", "upload")
    BY <1>0, <1>5, GotoMoves DEF CreateDisk, Points, Executing, Importing
  <2>2. PICK d \in DiskIds : NewDisk(d) /\ disk' = [disk EXCEPT ![c] = d]
    BY <1>5 DEF CreateDisk
  <2>. QED
    BY <1>0, <2>1, <2>2, NewDiskType DEF Frame, Moves, TypeOK
<1>6. CASE Upload(c) \/ Finalize(c)
  <2>1. PICK from \in {"upload", "finalize"}, to \in {"finalize", "delete"} :
          Moves(c, from, to)
    BY <1>0, <1>6, GotoMoves DEF Upload, Finalize, Points, Executing, Importing
  <2>2. disk[c] \in DiskIds
    BY <1>0, <2>1 DEF Holds, Holding, Moves, TypeOK
  <2>3. PICK s \in {"stopped", "finalized"} : SetStage(c, s)
    BY <1>6 DEF Upload, Finalize, TakeSnapshot
  <2>4. Finalize(c) => pc'[c] = "delete"
    BY <1>0 DEF Finalize, Goto, TypeOK
  <2>. QED
    BY <1>0, <1>6, <2>1, <2>2, <2>3, <2>4, StageType
       DEF Upload, Finalize, Frame, Moves
<1>7. CASE DeleteDisk(c) \/ DeleteIgnored(c)
  <2>1. Moves(c, "delete", "image")
    BY <1>0, <1>7, GotoMoves DEF DeleteDisk, DeleteIgnored, Points, Executing, Importing
  <2>. QED
    BY <1>0, <1>7, <2>1 DEF DeleteDisk, DeleteIgnored, Frame, Moves, TypeOK
<1>8. CASE CreateImage(c)
  <2>1. PICK to \in {"disks", "create"} : Moves(c, "image", to)
    BY <1>0, <1>8 DEF CreateImage, Imported, TypeOK, Points, Executing, Importing, Moves
  <2>. QED
    BY <1>0, <1>8, <2>1, MovesFrame DEF CreateImage
<1>9. CASE Finish(c) \/ Crash(c)
  BY <1>0, <1>9, LeaveFrame DEF Finish, Crash
<1>10. CASE Unanswered(c)
  <2>1. PICK to \in {"sleep", "down", "blocked"} : Leave(c, to)
    BY <1>0, <1>10, AbortMoves DEF Unanswered
  <2>2. \A x \in DiskIds : disks[x] # NoDisk /\ x # disk[c] => disks'[x] = disks[x]
    <3>1. CASE UNCHANGED disks
      BY <3>1
    <3>2. CASE \E d \in DiskIds : NewDisk(d)
      BY <1>0, <3>2, NewDiskType
    <3>3. CASE pc[c] = "finalize" /\ TakeSnapshot(c)
      <4>1. disk[c] \in DiskIds /\ SetStage(c, "finalized")
        BY <1>0, <3>3 DEF Holds, Holding, TypeOK, TakeSnapshot
      <4>. QED
        BY <1>0, <4>1, StageType
    <3>. QED
      BY <1>10, <3>1, <3>2, <3>3 DEF Unanswered
  <2>. QED
    BY <1>0, <2>1, <2>2, LeaveFrame
<1>11. CASE Unusable(c) \/ Fail(c)
  BY <1>1, <1>11 DEF Unusable, Fail
<1>12. CASE \/ ProjectTaken(c) \/ DiskRefused(c) \/ SnapshotTaken(c)
            \/ SnapshotGone(c) \/ ImageTaken(c)
  BY <1>1, <1>12
     DEF ProjectTaken, DiskRefused, SnapshotTaken, SnapshotGone, ImageTaken
<1>. QED
  BY <1>2, <1>3, <1>4, <1>5, <1>6, <1>7, <1>8, <1>9, <1>10, <1>11, <1>12
     DEF Step, Fault

(* The disks under their snapshots.                                        *)
LEMMA StoppedOfAction ==
  ASSUME Basics, Uploaded, NEW c \in Controllers, Step(c) \/ Fault(c), Basics'
  PROVE  \A d \in Controllers : pc'[d] = "finalize" => disks'[disk'[d]].stage = "stopped"
<1>. SUFFICES ASSUME NEW d \in Controllers, pc'[d] = "finalize"
              PROVE  disks'[disk'[d]].stage = "stopped"
  OBVIOUS
<1>0. TypeOK /\ Frame(c)
  BY ActionFrame DEF Basics
<1>1. CASE d = c
  <2>1. Upload(c)
    BY <1>0, <1>1 DEF Frame
  <2>2. disk' = disk /\ SetStage(c, "stopped") /\ pc[c] = "upload"
    BY <2>1 DEF Upload, Goto
  <2>3. disk[c] \in DiskIds
    BY <1>0, <2>2 DEF Basics, Holds, Holding, TypeOK
  <2>. QED
    BY <1>0, <1>1, <2>2, <2>3, StageType
<1>2. CASE d # c
  <2>1. pc[d] = "finalize" /\ disk'[d] = disk[d] /\ disks[disk[d]].stage = "stopped"
    BY <1>0, <1>2 DEF Frame, Uploaded
  <2>2. disk[d] # disk[c] /\ disk[d] \in DiskIds /\ disks[disk[d]] # NoDisk
    BY <1>0, <1>2, <2>1 DEF Basics, Holds, Own, Holding, TypeOK
  <2>. QED
    BY <1>0, <2>1, <2>2 DEF Frame
<1>. QED
  BY <1>1, <1>2

Finished(content) == content # Absent => content.uploaded

LEMMA FinishedOfAction ==
  ASSUME Basics, Uploaded, NEW c \in Controllers, Step(c) \/ Fault(c)
  PROVE  OnlyFinishedUploads'
<1>. USE DEF oxide
<1>0. TypeOK /\ Holds(c) /\ Current(c) \in Images
      /\ \A i \in Images : Finished(snapshots[i]) /\ Finished(images[i])
  BY Wanted DEF Basics, Uploaded, OnlyFinishedUploads, Finished
<1>1. ASSUME \A i \in Images : Finished(snapshots'[i]) /\ Finished(images'[i])
      PROVE  OnlyFinishedUploads'
  BY <1>1 DEF OnlyFinishedUploads, Finished
<1>2. CASE UNCHANGED <<snapshots, images>>
  BY <1>0, <1>1, <1>2
<1>3. CASE pc[c] = "finalize" /\ TakeSnapshot(c) /\ UNCHANGED images
  <2>1. disk[c] \in DiskIds /\ disks[disk[c]].stage = "stopped"
    BY <1>0, <1>3 DEF Holds, Holding, TypeOK, Uploaded
  <2>2. \A i \in Images : Finished(snapshots'[i])
    BY <1>0, <1>3, <2>1, SnapshotType DEF Finished
  <2>. QED
    BY <1>0, <1>1, <1>3, <2>2
<1>4. CASE NewImage(c) /\ UNCHANGED snapshots
  <2>1. \A i \in Images : Finished(images'[i])
    BY <1>0, <1>4 DEF NewImage, TypeOK
  <2>. QED
    BY <1>0, <1>1, <1>4, <2>1
<1>5. CASE Fault(c)
  <2>1. CASE Fail(c) \/ DeleteIgnored(c) \/ Crash(c)
    BY <1>2, <2>1 DEF Fail, DeleteIgnored, Crash
  <2>2. CASE Unanswered(c)
    BY <1>2, <1>3, <1>4, <2>2 DEF Unanswered
  <2>. QED
    BY <1>5, <2>1, <2>2 DEF Fault
<1>6. CASE Step(c)
  <2>1. CASE Finalize(c)
    BY <1>3, <2>1 DEF Finalize, Goto
  <2>2. CASE CreateImage(c)
    BY <1>4, <2>2 DEF CreateImage
  <2>3. CASE \/ Start(c) \/ Wake(c) \/ ListProjects(c) \/ CreateProject(c)
             \/ ProjectTaken(c) \/ ListImages(c) \/ CreateDisk(c) \/ DiskRefused(c)
             \/ Upload(c) \/ SnapshotTaken(c) \/ DeleteDisk(c) \/ SnapshotGone(c)
             \/ ImageTaken(c) \/ SetRootDisks(c) \/ Unusable(c) \/ Finish(c)
    BY <1>2, <2>3
       DEF Start, Wake, ListProjects, CreateProject, ProjectTaken, ListImages,
           CreateDisk, DiskRefused, Upload, SnapshotTaken, DeleteDisk,
           SnapshotGone, ImageTaken, SetRootDisks, Unusable, Finish
  <2>. QED
    BY <1>6, <2>1, <2>2, <2>3 DEF Step
<1>. QED
  BY <1>5, <1>6

LEMMA UploadedStep == Basics /\ Uploaded /\ [Next]_vars => Uploaded'
<1>. SUFFICES ASSUME Basics, Uploaded, [Next]_vars PROVE Uploaded'
  OBVIOUS
<1>0. Basics' /\ TypeOK
  BY BasicsStep DEF Basics
<1>1. ASSUME NEW c \in Controllers, Step(c) \/ Fault(c)
      PROVE  Uploaded'
  BY <1>0, <1>1, StoppedOfAction, FinishedOfAction DEF Uploaded
<1>2. ASSUME NEW i \in Images, RemoveImage(i) \/ RemoveSnapshot(i)
      PROVE  Uploaded'
  <2>1. \A j \in Images : /\ snapshots'[j] \in {snapshots[j], Absent}
                          /\ images'[j] \in {images[j], Absent}
    BY <1>0, <1>2 DEF RemoveImage, RemoveSnapshot, TypeOK
  <2>2. OnlyFinishedUploads'
    BY <2>1 DEF Uploaded, OnlyFinishedUploads
  <2>. QED
    BY <1>2, <2>2 DEF RemoveImage, RemoveSnapshot, Uploaded, process
<1>3. CASE NewRelease \/ UNCHANGED vars
  BY <1>3 DEF NewRelease, vars, oxide, process, Uploaded, OnlyFinishedUploads
<1>. QED
  BY <1>1, <1>2, <1>3 DEF Next

LEMMA UploadedAlways == Spec => []Uploaded
  BY BasicsAlways, UploadedInit, UploadedStep, PTL DEF Spec

(* No half uploaded disk ever becomes a snapshot or an image, for any       *)
(* number of controllers that import at once and whatever fails or stops.   *)
THEOREM ImagesAreFinishedUploads == Spec => []OnlyFinishedUploads
<1>1. Uploaded => OnlyFinishedUploads
  BY DEF Uploaded
<1>. QED
  BY <1>1, UploadedAlways, PTL

----------------------------------------------------------------------------
(* What a controller knows.                                                *)

LEMMA KnowledgeInit == Init => Knowledge
<1>. SUFFICES ASSUME Init PROVE Knowledge
  OBVIOUS
<1>1. \A c \in Controllers : pc[c] = "down" /\ \A i \in Images : found[c][i] = Absent
  BY DEF Init
<1>. QED
  BY <1>1 DEF Knowledge, RootDisksFit

(* How an action of controller c adds to its knowledge.                    *)
Learns(c) ==
  /\ UNCHANGED scenario /\ faults'["removal"] = faults["removal"]
  /\ \A i \in Images : images[i] # Absent => images'[i] # Absent
  /\ \A d \in Controllers : d # c => found'[d] = found[d] /\ rootDisk'[d] = rootDisk[d]
  /\ \A i \in Images : \/ found'[c][i] \in {found[c][i], Absent, Known(i)}
                       \/ images'[i] # Absent
  /\ pc'[c] = "ready" => SetRootDisks(c)

LEMMA ForgetsAll ==
  ASSUME TypeOK, NEW c \in Controllers, NEW to \in {"sleep", "down", "blocked"},
         Leave(c, to),
         UNCHANGED scenario, faults'["removal"] = faults["removal"],
         \A d \in Controllers : d # c => rootDisk'[d] = rootDisk[d],
         \A i \in Images : images[i] # Absent => images'[i] # Absent
  PROVE  Learns(c)
<1>1. \A i \in Images : found'[c][i] = Absent
  BY LeaveMoves DEF Nothing
<1>2. pc'[c] # "ready" /\ \A d \in Controllers : d # c => found'[d] = found[d]
  BY LeaveMoves DEF Moves
<1>. QED
  BY <1>1, <1>2 DEF Learns

LEMMA ActionLearns ==
  ASSUME TypeOK, NEW c \in Controllers, Step(c) \/ Fault(c)
  PROVE  Learns(c)
<1>. USE DEF oxide
<1>0. ASSUME Charge("failure") \/ Charge("crash")
      PROVE  faults'["removal"] = faults["removal"]
  BY <1>0, ChargeType DEF FaultKinds
<1>1. CASE Start(c) \/ Wake(c) \/ ListProjects(c) \/ CreateProject(c)
  <2>1. pc'[c] # "ready"
    BY <1>1 DEF Start, Wake, ListProjects, CreateProject, Goto, TypeOK
  <2>. QED
    BY <1>1, <2>1 DEF Start, Wake, ListProjects, CreateProject, Learns, TypeOK
<1>2. CASE \/ ProjectTaken(c) \/ DiskRefused(c) \/ SnapshotTaken(c)
           \/ SnapshotGone(c) \/ ImageTaken(c)
  BY <1>2, AbortMoves, ForgetsAll
     DEF ProjectTaken, DiskRefused, SnapshotTaken, SnapshotGone, ImageTaken
<1>3. CASE ListImages(c)
  <2>1. pc'[c] # "ready"
    BY <1>3 DEF ListImages, Goto, TypeOK
  <2>2. found' = [found EXCEPT ![c] = [i \in Images |-> Known(i)]]
    BY <1>3 DEF ListImages
  <2>3. /\ \A i \in Images : found'[c][i] = Known(i)
        /\ \A d \in Controllers : d # c => found'[d] = found[d]
    BY <2>2 DEF TypeOK
  <2>. QED
    BY <1>3, <2>1, <2>3 DEF ListImages, Learns
<1>4. CASE CreateDisk(c) \/ Upload(c) \/ Finalize(c) \/ DeleteDisk(c)
  <2>1. pc'[c] # "ready"
    BY <1>4 DEF CreateDisk, Upload, Finalize, DeleteDisk, Goto, TypeOK
  <2>. QED
    BY <1>4, <2>1 DEF CreateDisk, Upload, Finalize, DeleteDisk, Learns
<1>5. CASE CreateImage(c)
  <2>1. NewImage(c) /\ Imported(c, snapshots[Current(c)]) /\ Current(c) \in Images
    BY <1>5, Wanted DEF CreateImage
  <2>2. pc'[c] # "ready"
    BY <2>1 DEF Imported, TypeOK
  <2>3. /\ \A i \in Images : i # Current(c) => found'[c][i] = found[c][i]
        /\ \A d \in Controllers : d # c => found'[d] = found[d]
    BY <2>1 DEF Imported, TypeOK
  <2>4. /\ images'[Current(c)] # Absent
        /\ \A i \in Images : i # Current(c) => images'[i] = images[i]
    BY <2>1 DEF NewImage, TypeOK
  <2>. QED
    BY <1>5, <2>2, <2>3, <2>4 DEF CreateImage, Learns
<1>6. CASE SetRootDisks(c)
  BY <1>6 DEF SetRootDisks, Learns, TypeOK
<1>7. CASE Unusable(c)
  <2>1. \A d \in Controllers : d # c => rootDisk'[d] = rootDisk[d]
    BY <1>7 DEF Unusable, TypeOK
  <2>. QED
    BY <1>7, <2>1, AbortMoves, ForgetsAll DEF Unusable
<1>8. CASE Finish(c)
  BY <1>8, ForgetsAll DEF Finish
<1>9. CASE Fail(c)
  BY <1>0, <1>9, AbortMoves, ForgetsAll DEF Fail
<1>10. CASE Crash(c)
  BY <1>0, <1>10, ForgetsAll DEF Crash
<1>11. CASE DeleteIgnored(c)
  <2>1. pc'[c] # "ready"
    BY <1>11 DEF DeleteIgnored, Goto, TypeOK
  <2>. QED
    BY <1>0, <1>11, <2>1 DEF DeleteIgnored, Learns
<1>12. CASE Unanswered(c)
  <2>1. \A i \in Images : images[i] # Absent => images'[i] # Absent
    <3>1. CASE UNCHANGED images
      BY <3>1
    <3>2. CASE NewImage(c)
      BY <3>2, Wanted DEF NewImage, TypeOK
    <3>. QED
      BY <1>12, <3>1, <3>2 DEF Unanswered
  <2>2. UNCHANGED <<scenario, rootDisk>> /\ faults'["removal"] = faults["removal"]
    BY <1>0, <1>12 DEF Unanswered
  <2>3. PICK to \in {"sleep", "down", "blocked"} : Leave(c, to)
    BY <1>12, AbortMoves DEF Unanswered
  <2>. QED
    BY <2>1, <2>2, <2>3, ForgetsAll
<1>. QED
  BY <1>1, <1>2, <1>3, <1>4, <1>5, <1>6, <1>7, <1>8, <1>9, <1>10, <1>11, <1>12
     DEF Step, Fault

LEMMA KnownExists ==
  ASSUME NEW i \in Images, Known(i) # Absent
  PROVE  Available(i)
  BY DEF Known, Available

LEMMA KnowledgeStep == Basics /\ Knowledge /\ [Next]_vars => Knowledge'
<1>. SUFFICES ASSUME Basics, Knowledge, [Next]_vars PROVE Knowledge'
  OBVIOUS
<1>0. TypeOK
  BY DEF Basics
<1>1. ASSUME NEW c \in Controllers, Step(c) \/ Fault(c)
      PROVE  Knowledge'
  <2>1. Learns(c) /\ Frame(c)
    BY <1>0, <1>1, ActionLearns, ActionFrame
  <2>2. \A i \in Images : Available(i) => Available(i)'
    BY <2>1 DEF Learns, Available, InSilo
  <2>3. ASSUME faults'["removal"] = 0, NEW d \in Controllers, NEW i \in Images,
               found'[d][i] # Absent
        PROVE  Available(i)'
    <3>1. CASE found[d][i] # Absent
      BY <2>1, <2>2, <2>3, <3>1 DEF Learns, Knowledge
    <3>2. CASE found[d][i] = Absent
      <4>1. d = c /\ (found'[c][i] = Known(i) \/ images'[i] # Absent)
        BY <2>1, <2>3, <3>2 DEF Learns
      <4>. QED
        BY <2>2, <2>3, <4>1, KnownExists DEF Available
    <3>. QED
      BY <3>1, <3>2
  <2>4. Names' = Names /\ scenario' = scenario
    BY <2>1 DEF Names, Learns
  <2>5. ASSUME NEW d \in Controllers, pc'[d] = "ready"
        PROVE  /\ \A i \in Names : found'[d][i] # Absent
               /\ \A r \in Roles : rootDisk'[d][r] >= found'[d][scenario.wanted[r]].size
    <3>1. CASE d # c
      BY <2>1, <2>5, <3>1 DEF Learns, Frame, Knowledge, RootDisksFit
    <3>2. CASE d = c
      <4>1. SetRootDisks(c)
        BY <2>1, <2>5, <3>2 DEF Learns
      <4>2. found' = found /\ \A r \in Roles : Usable(c, r) /\ rootDisk'[c][r] = Filled(c, r)
        BY <1>0, <4>1 DEF SetRootDisks, TypeOK
      <4>. QED
        BY <3>2, <4>2 DEF Usable, Fits, MinSize, Names
    <3>. QED
      BY <3>1, <3>2
  <2>. QED
    BY <2>3, <2>4, <2>5 DEF Knowledge, RootDisksFit
<1>2. ASSUME NEW i \in Images, RemoveImage(i) \/ RemoveSnapshot(i)
      PROVE  Knowledge'
  <2>1. faults'["removal"] # 0
    BY <1>0, <1>2, ChargeType DEF RemoveImage, RemoveSnapshot, FaultKinds, TypeOK
  <2>2. UNCHANGED <<scenario, process>>
    BY <1>2 DEF RemoveImage, RemoveSnapshot
  <2>. QED
    BY <2>1, <2>2 DEF Knowledge, RootDisksFit, process, Names
<1>3. CASE NewRelease \/ UNCHANGED vars
  BY <1>3 DEF NewRelease, vars, oxide, process, Knowledge, RootDisksFit, Names,
              Available, InSilo
<1>. QED
  BY <1>1, <1>2, <1>3 DEF Next

LEMMA KnowledgeAlways == Spec => []Knowledge
  BY BasicsAlways, KnowledgeInit, KnowledgeStep, PTL DEF Spec

(* Nodes are only made with images that exist, whoever imported them, while *)
(* nobody removes any.                                                      *)
THEOREM ReadyMeansImages == Spec => []ReadyWithImages
<1>1. Basics /\ Knowledge => ReadyWithImages
  BY Wanted DEF Basics, Knowledge, ReadyWithImages
<1>. QED
  BY <1>1, BasicsAlways, KnowledgeAlways, PTL

(* The root disks hold the images, in every pass of every process.          *)
THEOREM ImagesFitRootDisks == Spec => []RootDisksFit
<1>1. Knowledge => RootDisksFit
  BY DEF Knowledge
<1>. QED
  BY <1>1, KnowledgeAlways, PTL

----------------------------------------------------------------------------
(* The disks that are left behind.                                         *)

(* One failure leaves at most one disk.                                    *)
Accounted ==
  \/ Left' \subseteq Left /\ Failures' >= Failures
  \/ \E x \in DiskIds \cup {Unused} :
       Left' \subseteq Left \cup {x} /\ Failures' >= Failures + 1
  \/ Failures' >= Quota

LEMMA DisksAreFinite ==
  ASSUME NEW S \in SUBSET DiskIds
  PROVE  IsFiniteSet(S) /\ Cardinality(S) \in Nat /\ Cardinality(S) <= Quota
<1>1. IsFiniteSet(DiskIds) /\ Cardinality(DiskIds) = Quota
  BY FS_Interval DEF DiskIds
<1>2. IsFiniteSet(S) /\ Cardinality(S) <= Quota
  BY <1>1, FS_Subset
<1>. QED
  BY <1>2, FS_CardinalityType

LEMMA AccountedKept ==
  ASSUME TypeOK, TypeOK', DisksAccountedFor, Accounted
  PROVE  DisksAccountedFor'
<1>0. Failures \in Nat /\ Failures' \in Nat
  BY DEF TypeOK, Failures, FaultKinds
<1>1. Cardinality(Left) <= Failures
  BY DEF DisksAccountedFor, Left, Failures
<1>2. Cardinality(Left') \in Nat /\ Cardinality(Left') <= Quota
  <2>1. Left' \subseteq DiskIds
    BY DEF Left, DiskIds
  <2>. QED
    BY <2>1, DisksAreFinite
<1>f. IsFiniteSet(Left) /\ Cardinality(Left) \in Nat
  <2>1. Left \subseteq DiskIds
    BY DEF Left
  <2>. QED
    BY <2>1, DisksAreFinite
<1>3. CASE Left' \subseteq Left /\ Failures' >= Failures
  <2>1. Cardinality(Left') <= Cardinality(Left) /\ Cardinality(Left) \in Nat
    BY <1>3, <1>f, FS_Subset
  <2>. QED
    BY <1>0, <1>1, <1>2, <1>3, <2>1 DEF DisksAccountedFor, Left, Failures
<1>4. ASSUME NEW x \in DiskIds \cup {Unused}, Left' \subseteq Left \cup {x},
             Failures' >= Failures + 1
      PROVE  DisksAccountedFor'
  <2>1. /\ IsFiniteSet(Left \cup {x})
        /\ Cardinality(Left \cup {x}) <= Cardinality(Left) + 1
        /\ Cardinality(Left) \in Nat /\ Cardinality(Left \cup {x}) \in Nat
    <3>1. IsFiniteSet(Left \cup {x})
      BY <1>f, FS_AddElement
    <3>2. Cardinality(Left \cup {x}) =
            IF x \in Left THEN Cardinality(Left) ELSE Cardinality(Left) + 1
      BY <1>f, FS_AddElement
    <3>. QED
      BY <1>f, <3>1, <3>2
  <2>2. Cardinality(Left') <= Cardinality(Left \cup {x})
    BY <1>4, <2>1, FS_Subset
  <2>3. Cardinality(Left') <= Failures'
    BY <1>0, <1>1, <1>2, <1>4, <2>1, <2>2
  <2>. QED
    BY <2>3 DEF DisksAccountedFor, Left, Failures
<1>5. CASE Failures' >= Quota
  <2>1. Cardinality(Left') <= Failures'
    BY <1>0, <1>2, <1>5
  <2>. QED
    BY <2>1 DEF DisksAccountedFor, Left, Failures
<1>. QED
  BY <1>3, <1>4, <1>5 DEF Accounted

(* A controller without a disk of its own, or one that keeps it.           *)
LEMMA LeftStays ==
  ASSUME TypeOK, NEW c \in Controllers,
         \A d \in Controllers : d # c => disk'[d] = disk[d],
         disk'[c] = disk[c] \/ disk[c] = Unused,
         \A x \in DiskIds : disks'[x] # NoDisk => disks[x] # NoDisk \/ disk'[c] = x
  PROVE  Left' \subseteq Left
<1>1. Unused \notin DiskIds
  BY DEF Unused, DiskIds
<1>. QED
  BY <1>1 DEF Left, InUse

LEMMA LeftGrows ==
  ASSUME TypeOK, NEW c \in Controllers, NEW x \in DiskIds \cup {Unused},
         \A d \in Controllers : d # c => disk'[d] = disk[d],
         \A e \in DiskIds : e # x => disk[c] # e,
         \A e \in DiskIds : e # x /\ disks'[e] # NoDisk => disks[e] # NoDisk
  PROVE  Left' \subseteq Left \cup {x}
  BY DEF Left, InUse

LEMMA AbortAccounted ==
  ASSUME Basics, NEW c \in Controllers, NEW to \in {"sleep", "down", "blocked"},
         Leave(c, to),
         Failed, faults'["failure"] >= faults["failure"], TypeOK',
         \/ \A e \in DiskIds : disks'[e] # NoDisk => disks[e] # NoDisk
         \/ /\ disk[c] = Unused
            /\ \E d \in DiskIds : \A e \in DiskIds :
                 e # d /\ disks'[e] # NoDisk => disks[e] # NoDisk
  PROVE  Accounted
<1>0. TypeOK
  BY DEF Basics
<1>1. /\ failed \in Nat /\ failed' \in Nat /\ faults["failure"] \in Nat
      /\ faults'["failure"] \in Nat
  BY <1>0 DEF TypeOK, FaultKinds
<1>2. Failures' >= Failures + 1 \/ Failures' >= Quota
  BY <1>0, <1>1, FailedType DEF Failures
<1>3. \E x \in DiskIds \cup {Unused} : Left' \subseteq Left \cup {x}
  <2>1. \A d \in Controllers : d # c => disk'[d] = disk[d]
    BY <1>0, LeaveMoves
  <2>2. CASE \A e \in DiskIds : disks'[e] # NoDisk => disks[e] # NoDisk
    <3>1. disk[c] \in DiskIds \cup {Unused}
      BY <1>0 DEF TypeOK
    <3>2. Left' \subseteq Left \cup {disk[c]}
      BY <1>0, <2>1, <2>2, <3>1, LeftGrows
    <3>. QED
      BY <3>1, <3>2
  <2>3. ASSUME disk[c] = Unused, NEW d \in DiskIds,
               \A e \in DiskIds : e # d /\ disks'[e] # NoDisk => disks[e] # NoDisk
        PROVE  \E x \in DiskIds \cup {Unused} : Left' \subseteq Left \cup {x}
    <3>1. \A e \in DiskIds : e # d => disk[c] # e
      BY <2>3 DEF DiskIds, Unused
    <3>2. Left' \subseteq Left \cup {d}
      BY <1>0, <2>1, <2>3, <3>1, LeftGrows
    <3>. QED
      BY <3>2
  <2>. QED
    BY <2>2, <2>3
<1>. QED
  BY <1>2, <1>3 DEF Accounted

LEMMA ActionAccounted ==
  ASSUME Basics, NEW c \in Controllers, Step(c) \/ Fault(c), TypeOK'
  PROVE  Accounted
<1>. USE DEF oxide
<1>0. /\ TypeOK /\ Holds(c)
      /\ failed \in Nat /\ faults["failure"] \in Nat
      /\ failed' \in Nat /\ faults'["failure"] \in Nat
  BY DEF Basics, TypeOK, FaultKinds
<1>1. ASSUME UNCHANGED <<failed, faults>>, Left' \subseteq Left
      PROVE  Accounted
  BY <1>0, <1>1 DEF Accounted, Failures
<1>2. ASSUME UNCHANGED <<disk, disks, failed, faults>>
      PROVE  Accounted
  <2>1. Left' \subseteq Left
    BY <1>2 DEF Left, InUse
  <2>. QED
    BY <1>1, <1>2, <2>1
<1>3. ASSUME Abort(c), UNCHANGED disks, faults'["failure"] >= faults["failure"]
      PROVE  Accounted
  <2>1. PICK to \in {"sleep", "down", "blocked"} : Leave(c, to)
    BY <1>0, <1>3, AbortMoves
  <2>2. Failed /\ \A e \in DiskIds : disks'[e] # NoDisk => disks[e] # NoDisk
    BY <1>3 DEF Abort
  <2>. QED
    BY <1>3, <2>1, <2>2, AbortAccounted
<1>4. ASSUME Charge("failure") \/ Charge("crash")
      PROVE  faults'["failure"] >= faults["failure"]
  BY <1>0, <1>4, ChargeType DEF FaultKinds
<1>5. CASE \/ Start(c) \/ Wake(c) \/ ListProjects(c) \/ CreateProject(c)
           \/ ListImages(c) \/ CreateImage(c) \/ SetRootDisks(c)
  BY <1>2, <1>5
     DEF Start, Wake, ListProjects, CreateProject, ListImages, CreateImage, SetRootDisks
<1>6. CASE \/ ProjectTaken(c) \/ DiskRefused(c) \/ SnapshotTaken(c)
           \/ SnapshotGone(c) \/ ImageTaken(c) \/ Unusable(c)
  BY <1>0, <1>3, <1>6
     DEF ProjectTaken, DiskRefused, SnapshotTaken, SnapshotGone, ImageTaken, Unusable
<1>7. CASE CreateDisk(c)
  <2>1. PICK d \in DiskIds : NewDisk(d) /\ disk' = [disk EXCEPT ![c] = d]
    BY <1>7 DEF CreateDisk
  <2>2. disk[c] = Unused
    BY <1>0, <1>7 DEF CreateDisk, Goto, Holds, Holding
  <2>3. disk'[c] = d /\ \A e \in Controllers : e # c => disk'[e] = disk[e]
    BY <1>0, <2>1 DEF TypeOK
  <2>4. Left' \subseteq Left
    BY <1>0, <2>1, <2>2, <2>3, NewDiskType, LeftStays
  <2>. QED
    BY <1>1, <1>7, <2>4 DEF CreateDisk
<1>8. CASE Upload(c) \/ Finalize(c)
  <2>1. disk[c] \in DiskIds /\ disks[disk[c]] # NoDisk /\ disk' = disk
    BY <1>0, <1>8 DEF Upload, Finalize, Goto, Holds, Holding, TypeOK
  <2>2. PICK s \in {"stopped", "finalized"} : SetStage(c, s)
    BY <1>8 DEF Upload, Finalize, TakeSnapshot
  <2>3. Left' \subseteq Left
    BY <1>0, <2>1, <2>2, StageType, LeftStays
  <2>. QED
    BY <1>1, <1>8, <2>3 DEF Upload, Finalize
<1>9. CASE DeleteDisk(c)
  <2>1. /\ disks' = [disks EXCEPT ![disk[c]] = NoDisk]
        /\ disk' = [disk EXCEPT ![c] = Unused]
    BY <1>9 DEF DeleteDisk
  <2>2. Left' \subseteq Left
    BY <1>0, <2>1 DEF Left, InUse, TypeOK
  <2>. QED
    BY <1>1, <1>9, <2>2 DEF DeleteDisk
<1>10. CASE Finish(c)
  <2>1. disk[c] = Unused
    BY <1>0, <1>10 DEF Finish, Holds, Holding
  <2>2. disk' = [disk EXCEPT ![c] = Unused] /\ UNCHANGED <<disks, failed, faults>>
    BY <1>10 DEF Finish, Leave
  <2>3. Left' \subseteq Left
    BY <1>0, <2>1, <2>2 DEF Left, InUse, TypeOK
  <2>. QED
    BY <1>1, <2>2, <2>3
<1>11. CASE Fail(c)
  BY <1>3, <1>4, <1>11 DEF Fail
<1>12. CASE Crash(c)
  <2>1. /\ Leave(c, "down") /\ Failed /\ faults'["failure"] >= faults["failure"]
        /\ \A e \in DiskIds : disks'[e] # NoDisk => disks[e] # NoDisk
    BY <1>4, <1>12 DEF Crash
  <2>. QED
    BY <2>1, AbortAccounted
<1>13. CASE DeleteIgnored(c)
  <2>1. /\ disk' = [disk EXCEPT ![c] = Unused] /\ UNCHANGED <<disks, failed>>
        /\ Charge("failure")
    BY <1>13 DEF DeleteIgnored
  <2>2. faults'["failure"] = faults["failure"] + 1
    BY <1>0, <2>1, ChargeType DEF FaultKinds
  <2>3. disk[c] \in DiskIds \cup {Unused}
    BY <1>0 DEF TypeOK
  <2>4. Left' \subseteq Left \cup {disk[c]}
    BY <1>0, <2>1, <2>3, LeftGrows DEF TypeOK
  <2>5. Failures' >= Failures + 1
    BY <1>0, <2>1, <2>2 DEF Failures
  <2>. QED
    BY <2>3, <2>4, <2>5 DEF Accounted
<1>14. CASE Unanswered(c)
  <2>1. PICK to \in {"sleep", "down", "blocked"} : Leave(c, to)
    BY <1>0, <1>14, AbortMoves DEF Unanswered
  <2>2. Failed /\ faults'["failure"] >= faults["failure"]
    BY <1>4, <1>14 DEF Unanswered, Abort
  <2>3. CASE UNCHANGED disks
    BY <2>1, <2>2, <2>3, AbortAccounted
  <2>4. ASSUME pc[c] = "create", NEW d \in DiskIds, NewDisk(d)
        PROVE  Accounted
    <3>1. disk[c] = Unused
      BY <1>0, <2>4 DEF Holds, Holding
    <3>2. \A e \in DiskIds : e # d /\ disks'[e] # NoDisk => disks[e] # NoDisk
      BY <1>0, <2>4, NewDiskType
    <3>. QED
      BY <2>1, <2>2, <3>1, <3>2, AbortAccounted
  <2>5. CASE pc[c] = "finalize" /\ TakeSnapshot(c)
    <3>1. disk[c] \in DiskIds /\ disks[disk[c]] # NoDisk /\ SetStage(c, "finalized")
      BY <1>0, <2>5 DEF Holds, Holding, TypeOK, TakeSnapshot
    <3>2. \A e \in DiskIds : disks'[e] # NoDisk => disks[e] # NoDisk
      BY <1>0, <3>1, StageType
    <3>. QED
      BY <2>1, <2>2, <3>2, AbortAccounted
  <2>. QED
    BY <1>14, <2>3, <2>4, <2>5 DEF Unanswered
<1>. QED
  BY <1>5, <1>6, <1>7, <1>8, <1>9, <1>10, <1>11, <1>12, <1>13, <1>14 DEF Step, Fault

LEMMA AccountedStep == Basics /\ DisksAccountedFor /\ [Next]_vars => DisksAccountedFor'
<1>. SUFFICES ASSUME Basics, DisksAccountedFor, [Next]_vars PROVE DisksAccountedFor'
  OBVIOUS
<1>0. TypeOK /\ TypeOK'
  BY BasicsStep DEF Basics
<1>1. ASSUME NEW c \in Controllers, Step(c) \/ Fault(c)
      PROVE  DisksAccountedFor'
  BY <1>0, <1>1, ActionAccounted, AccountedKept
<1>2. ASSUME UNCHANGED <<disks, disk, failed>>, faults'["failure"] = faults["failure"]
      PROVE  DisksAccountedFor'
  BY <1>2 DEF DisksAccountedFor, InUse
<1>3. ASSUME NEW i \in Images, RemoveImage(i) \/ RemoveSnapshot(i)
      PROVE  DisksAccountedFor'
  <2>1. faults'["failure"] = faults["failure"]
    BY <1>0, <1>3, ChargeType DEF RemoveImage, RemoveSnapshot, FaultKinds
  <2>. QED
    BY <1>2, <1>3, <2>1 DEF RemoveImage, RemoveSnapshot, process
<1>4. CASE NewRelease \/ UNCHANGED vars
  BY <1>2, <1>4 DEF NewRelease, vars, oxide, process
<1>. QED
  BY <1>1, <1>3, <1>4 DEF Next

(* Disks do not pile up but by failures: each one that no import is using   *)
(* stands for an Execute or a DiskDelete that failed.                       *)
THEOREM EveryDiskAccountedFor == Spec => []DisksAccountedFor
<1>1. Init => DisksAccountedFor
  <2>. SUFFICES ASSUME Init PROVE DisksAccountedFor
    OBVIOUS
  <2>1. {d \in DiskIds \ InUse : disks[d] # NoDisk} = {}
    BY DEF Init
  <2>2. failed = 0 /\ faults["failure"] = 0
    BY DEF Init, FaultKinds
  <2>3. Cardinality({d \in DiskIds \ InUse : disks[d] # NoDisk}) = 0
    BY <2>1, FS_EmptySet
  <2>. QED
    BY <2>2, <2>3 DEF DisksAccountedFor
<1>. QED
  BY <1>1, BasicsAlways, AccountedStep, PTL DEF Spec

================================================================================
