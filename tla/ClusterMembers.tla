---------------------------- MODULE ClusterMembers ----------------------------
(***************************************************************************)
(* What ensureClusterExists promises about the control plane, with none of *)
(* its calls: a new cluster is founded only when nobody is left of the one *)
(* before, later members join the cluster founded last and only up to its  *)
(* size, a member other than the founder starts to serve only beside one   *)
(* that does, and members may be lost at any time.  ControlPlane is shown  *)
(* to implement this specification.                                        *)
(***************************************************************************)
EXTENDS Naturals, FiniteSets

CONSTANTS
  Names,       \* who can be a member
  Size         \* how many members a cluster is to have

VARIABLES
  founded,     \* the number of clusters founded so far
  member,      \* the cluster each name is a member of, or 0
  founders,    \* the members that founded their cluster
  serving      \* the members whose API server runs

vars == <<founded, member, founders, serving>>

Members == {n \in Names : member[n] # 0}

Init ==
  /\ founded = 0
  /\ member = [n \in Names |-> 0]
  /\ founders = {}
  /\ serving = {}

(***************************************************************************)
(* The next cluster, with its first member.                                *)
(***************************************************************************)
Found(n) ==
  /\ Members = {}
  /\ founded' = founded + 1
  /\ member' = [member EXCEPT ![n] = founded + 1]
  /\ founders' = {n}
  /\ UNCHANGED serving

Join(n) ==
  /\ founded > 0
  /\ n \notin Members
  /\ Cardinality(Members) < Size
  /\ member' = [member EXCEPT ![n] = founded]
  /\ UNCHANGED <<founded, founders, serving>>

(***************************************************************************)
(* A joiner needs a member that serves already.                            *)
(***************************************************************************)
Serve(n) ==
  /\ n \in Members \ serving
  /\ n \in founders \/ serving # {}
  /\ serving' = serving \cup {n}
  /\ UNCHANGED <<founded, member, founders>>

Lose(n) ==
  /\ n \in Members
  /\ member' = [member EXCEPT ![n] = 0]
  /\ founders' = founders \ {n}
  /\ serving' = serving \ {n}
  /\ UNCHANGED founded

Next == \E n \in Names : Found(n) \/ Join(n) \/ Serve(n) \/ Lose(n)

Spec == Init /\ [][Next]_vars
===============================================================================
