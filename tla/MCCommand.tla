------------------------------- MODULE MCCommand -------------------------------
(* Instances of Command for TLC.                                             *)
EXTENDS Command

CONSTANTS n1, n2, w1, small, large

Faults(failure, crash, rerun) ==
  [k \in FaultKinds |->
     CASE k = "failure" -> failure
       [] k = "crash"   -> crash
       [] k = "rerun"   -> rerun]

(* The default profile, a default kubeconfig that is the controller's file,   *)
(* and the pivot.                                                            *)
Plain == [PodLine EXCEPT !.pivot = TRUE, !.defaultIsFile = TRUE]
Large == [Plain EXCEPT !.spec = large]
Staying == [Plain EXCEPT !.pivot = FALSE]
WithToken == [Plain EXCEPT !.url = TRUE, !.token = TRUE]
Tailnet ==
  [Large EXCEPT !.service = "other", !.key = TRUE, !.tag = TRUE, !.tailnet = TRUE]
Retagged == [Plain EXCEPT !.tag = TRUE]
Development == [Large EXCEPT !.dev = TRUE]

(* Refused: two sources of credentials, or a tailnet key on its own.          *)
TwoSources == [Plain EXCEPT !.profile = TRUE, !.token = TRUE]
LoneKey == [Plain EXCEPT !.key = TRUE]
FromProfile == [Plain EXCEPT !.profile = TRUE]

(* The secret elsewhere; a default kubeconfig that is another file.           *)
Elsewhere == [Plain EXCEPT !.place = "other"]
OwnFile == [Large EXCEPT !.defaultIsFile = FALSE]

(* The same settings each time, repeated until they have led to a pod.        *)
Repeating ==
  [lines |-> {Large, Plain}, nodes |-> {n1, n2}, profile |-> TRUE,
   allowed |-> Faults(2, 1, 1)]

(* Credentials from flags and profiles, good and bad.                         *)
Credentialed ==
  [Repeating EXCEPT !.lines = {WithToken, TwoSources, LoneKey, FromProfile, Plain},
                    !.allowed = Faults(1, 1, 0)]

(* The first run decides, later runs alter or lose the settings.              *)
Altering ==
  [Repeating EXCEPT !.lines = {Tailnet, Retagged, Staying, Elsewhere, OwnFile},
                    !.nodes = {n1}, !.allowed = Faults(1, 1, 1)]

(* A development image, on one node and on three.                             *)
OneNode ==
  [Repeating EXCEPT !.lines = {Development}, !.nodes = {n1},
                    !.allowed = Faults(2, 1, 1)]
ThreeNodes ==
  [OneNode EXCEPT !.lines = {Development, Plain}, !.nodes = {n1, n2, w1},
                  !.allowed = Faults(1, 1, 1)]

CommandScenarios == {Repeating, Credentialed, Altering, OneNode, ThreeNodes}

NoFaults == {[ThreeNodes EXCEPT !.lines = {Development}, !.allowed = Faults(0, 0, 0)]}
================================================================================
