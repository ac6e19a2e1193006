---------------------------- MODULE ImageCatalogue ----------------------------
(***************************************************************************)
(* What the imports of ensureImagesExist promise about the snapshots and   *)
(* images of the project, with none of their calls, disks or processes: a  *)
(* snapshot is what one upload that finished without an error left, and is *)
(* never taken over another, an image is what its snapshot was when it was *)
(* published, and neither ever changes but by somebody's removal.  That    *)
(* the upload has every byte of a release is not promised.  ImageImport is *)
(* shown to implement this specification.                                  *)
(***************************************************************************)
EXTENDS Naturals

CONSTANTS
  Names,       \* the names of images
  Largest      \* the size of the largest release

VARIABLES
  latest,      \* the release the sources offer now, by its size
  captured,    \* the snapshot under each name
  published    \* the image under each name

vars == <<latest, captured, published>>

Absent == [size |-> 0, uploaded |-> FALSE]
Import(s) == [size |-> s, uploaded |-> TRUE]

Init ==
  /\ latest = 1
  /\ captured = [n \in Names |-> Absent]
  /\ published = [n \in Names |-> Absent]

Advance ==
  /\ latest < Largest
  /\ latest' = latest + 1
  /\ UNCHANGED <<captured, published>>

(***************************************************************************)
(* What was downloaded is no larger than the latest release has been.      *)
(***************************************************************************)
Capture(n) ==
  /\ captured[n] = Absent
  /\ \E s \in 1..latest : captured' = [captured EXCEPT ![n] = Import(s)]
  /\ UNCHANGED <<latest, published>>

Publish(n) ==
  /\ captured[n] # Absent
  /\ published[n] = Absent
  /\ published' = [published EXCEPT ![n] = captured[n]]
  /\ UNCHANGED <<latest, captured>>

Discard(n) ==
  /\ captured' = [captured EXCEPT ![n] = Absent]
  /\ UNCHANGED <<latest, published>>

Withdraw(n) ==
  /\ published' = [published EXCEPT ![n] = Absent]
  /\ UNCHANGED <<latest, captured>>

Next ==
  \/ Advance
  \/ \E n \in Names : Capture(n) \/ Publish(n) \/ Discard(n) \/ Withdraw(n)

Spec == Init /\ [][Next]_vars
===============================================================================
