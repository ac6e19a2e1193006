----------------------------- MODULE MCImageImport -----------------------------
(* Instances of ImageImport for TLC.                                         *)
EXTENDS ImageImport

CONSTANTS c1, c2, debian, other

Faults(failure, crash, removal) ==
  [k \in FaultKinds |->
     CASE k = "failure" -> failure
       [] k = "crash"   -> crash
       [] k = "removal" -> removal]

(* The flags' defaults: both node specs name one image, in no image list      *)
(* yet, and leave the root disks to its size.                                *)
Default ==
  [wanted |-> [r \in Roles |-> debian], flags |-> [r \in Roles |-> 0],
   silo |-> {}, running |-> {c1}, newest |-> 1, allowed |-> Faults(0, 0, 0)]

(* Two operators, or one and the pod, import the same image, which is then    *)
(* removed, or which becomes larger in between.                              *)
Racing ==
  [Default EXCEPT !.running = {c1, c2}, !.allowed = Faults(1, 0, 1)]
RacingReleases ==
  [Racing EXCEPT !.newest = 2, !.allowed = Faults(1, 0, 0)]

(* Two images, and anything goes wrong with them.                            *)
TwoImages ==
  [Default EXCEPT !.wanted["worker"] = other, !.allowed = Faults(1, 1, 2)]

(* One of two images is the silo's, and the worker's root disk is given.     *)
OneInSilo ==
  [TwoImages EXCEPT !.silo = {debian}, !.flags["worker"] = 1, !.newest = 2]

(* One controller, whose image is removed and imported again, and larger.     *)
OneController ==
  [Default EXCEPT !.newest = 2, !.allowed = Faults(2, 1, 3)]

ImportScenarios == {Racing, RacingReleases, TwoImages, OneInSilo, OneController}

OneFailure == {[Default EXCEPT !.allowed = Faults(1, 0, 0)]}
================================================================================
