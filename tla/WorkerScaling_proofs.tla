------------------------- MODULE WorkerScaling_proofs -------------------------
(***************************************************************************)
(* Proofs about WorkerScaling for every set of controllers, requests and   *)
(* counts, every page size and every budget of faults.                     *)
(***************************************************************************)
EXTENDS WorkerScaling, FiniteSetTheorems, TLAPS

USE CountsAssumption, PageAssumption, ProcessAssumption, FaultAssumption

----------------------------------------------------------------------------
(* The operators the actions share keep the types of what they assign.     *)

LEMMA GotoType ==
  ASSUME TypeOK, NEW c \in Controllers, NEW from, NEW to \in ManagerPCs,
         Goto(c, from, to)
  PROVE  pc' \in [Controllers -> ManagerPCs]
  BY DEF TypeOK, Goto

LEMMA FinishType ==
  ASSUME TypeOK, NEW c \in Controllers, Finish(c)
  PROVE  /\ pc' \in [Controllers -> ManagerPCs]
         /\ looping' \in [Controllers -> BOOLEAN]
         /\ serving' \in [Controllers -> BOOLEAN]
  BY DEF TypeOK, Finish, ManagerPCs, Executing

LEMMA AbortType ==
  ASSUME TypeOK, NEW c \in Controllers, Abort(c)
  PROVE  /\ pc' \in [Controllers -> ManagerPCs]
         /\ UNCHANGED <<want, have, looping, serving, errCh>>
  BY DEF TypeOK, Abort, ManagerPCs

LEMMA ChargeType ==
  ASSUME TypeOK, NEW k \in FaultKinds, Charge(k)
  PROVE  faults' \in [FaultKinds -> Nat]
  BY DEF TypeOK, Charge

LEMMA SetWorkerCountType ==
  ASSUME TypeOK, NEW n \in Targets, NEW w \in Requests \cup {NoRequest},
         SetWorkerCount(n, w)
  PROVE  /\ secret' \in Targets \cup {NoCount}
         /\ highest' \in Targets \cup {0}
         /\ latest' \in Requests \cup {NoRequest}
         /\ window' \in [Requests -> SUBSET (Targets \cup {NoCount})]
<1>1. window' \in [Requests -> SUBSET (Targets \cup {NoCount})]
  BY DEF TypeOK, SetWorkerCount
<1>2. highest' \in Targets \cup {0}
  BY DEF TypeOK, SetWorkerCount, Larger
<1>. QED
  BY <1>1, <1>2 DEF SetWorkerCount, TypeOK

LEMMA TargetsAreNat == Targets \subseteq Nat /\ Counts \subseteq Targets /\ FlagCount \in Targets
  BY DEF Targets

LEMMA HandlerType ==
  ASSUME TypeOK, NEW r \in Requests, NEW p \in HandlerPCs
  PROVE  [req EXCEPT ![r].pc = p] \in [Requests -> Handlers]
  BY DEF TypeOK, Handlers

LEMMA InitType == Init => TypeOK
<1>. SUFFICES ASSUME Init PROVE TypeOK
  OBVIOUS
<1>1. secret \in Targets \cup {NoCount} /\ highest \in Targets \cup {0}
  BY DEF Init, Targets
<1>2. req \in [Requests -> Handlers]
  BY DEF Init, Handlers, Idle, HandlerPCs
<1>3. pc \in [Controllers -> ManagerPCs] /\ errCh \in [Controllers -> 0..ErrCap]
  BY DEF Init, ManagerPCs, ErrCap
<1>. QED
  BY <1>1, <1>2, <1>3 DEF Init, TypeOK, Idle

(* Every step preserves the types.                                         *)
LEMMA TypeStep == TypeOK /\ [Next]_vars => TypeOK'
<1>. SUFFICES ASSUME TypeOK, [Next]_vars PROVE TypeOK'
  OBVIOUS
<1>1. ASSUME NEW c \in Controllers, Start(c) PROVE TypeOK'
  <2>1. pc' \in [Controllers -> ManagerPCs]
    BY <1>1, GotoType DEF Start, ManagerPCs, Executing
  <2>. QED
    BY <1>1, <2>1 DEF Start, TypeOK, cluster, history
<1>2. ASSUME NEW c \in Controllers, EnsureCluster(c) PROVE TypeOK'
  <2>1. pc' \in [Controllers -> ManagerPCs]
    BY <1>2, GotoType DEF EnsureCluster, ManagerPCs, Executing
  <2>. QED
    BY <1>2, <2>1 DEF EnsureCluster, TypeOK, cluster, history
<1>3. ASSUME NEW c \in Controllers, ReadCount(c) PROVE TypeOK'
  <2>1. pc' \in [Controllers -> ManagerPCs]
    BY <1>3, GotoType DEF ReadCount, ManagerPCs, Executing
  <2>2. want' \in [Controllers -> Nat]
    BY <1>3, TargetsAreNat DEF ReadCount, TypeOK
  <2>. QED
    BY <1>3, <2>1, <2>2 DEF ReadCount, TypeOK, cluster, history
<1>4. ASSUME NEW c \in Controllers, StoreRead(c) PROVE TypeOK'
  <2>1. pc' \in [Controllers -> ManagerPCs]
    BY <1>4, GotoType DEF StoreRead, ManagerPCs, Executing
  <2>. QED
    BY <1>4, <2>1 DEF StoreRead, TypeOK, cluster, history
<1>5. ASSUME NEW c \in Controllers, StoreFails(c) PROVE TypeOK'
  BY <1>5, AbortType DEF StoreFails, TypeOK, cluster, history
<1>6. ASSUME NEW c \in Controllers, StorePut(c) PROVE TypeOK'
  <2>1. pc' \in [Controllers -> ManagerPCs]
    BY <1>6, GotoType DEF StorePut, ManagerPCs, Executing
  <2>2. /\ secret' \in Targets \cup {NoCount}
        /\ highest' \in Targets \cup {0}
        /\ latest' \in Requests \cup {NoRequest}
        /\ window' \in [Requests -> SUBSET (Targets \cup {NoCount})]
    BY <1>6, SetWorkerCountType, TargetsAreNat DEF StorePut
  <2>. QED
    BY <1>6, <2>1, <2>2 DEF StorePut, TypeOK
<1>7. ASSUME NEW c \in Controllers, ListWorkers(c) PROVE TypeOK'
  <2>1. /\ pc' \in [Controllers -> ManagerPCs]
        /\ looping' \in [Controllers -> BOOLEAN]
        /\ serving' \in [Controllers -> BOOLEAN]
    BY <1>7, GotoType, FinishType
    DEF ListWorkers, TypeOK, ManagerPCs, Executing
  <2>2. have' \in [Controllers -> Nat]
    BY <1>7 DEF ListWorkers, TypeOK
  <2>. QED
    BY <1>7, <2>1, <2>2 DEF ListWorkers, TypeOK, cluster, history
<1>8. ASSUME NEW c \in Controllers, ReadCreds(c) PROVE TypeOK'
  <2>1. pc' \in [Controllers -> ManagerPCs]
    BY <1>8, GotoType DEF ReadCreds, ManagerPCs, Executing
  <2>. QED
    BY <1>8, <2>1 DEF ReadCreds, TypeOK, cluster, history
<1>9. ASSUME NEW c \in Controllers, CreateWorker(c) PROVE TypeOK'
  <2>1. /\ pc' \in [Controllers -> ManagerPCs]
        /\ looping' \in [Controllers -> BOOLEAN]
        /\ serving' \in [Controllers -> BOOLEAN]
    BY <1>9, FinishType DEF CreateWorker, TypeOK
  <2>2. have' \in [Controllers -> Nat] /\ workers' \in Nat
    BY <1>9 DEF CreateWorker, TypeOK
  <2>. QED
    BY <1>9, <2>1, <2>2 DEF CreateWorker, TypeOK, history
<1>10. ASSUME NEW c \in Controllers, Report(c) PROVE TypeOK'
  <2>1. pc' \in [Controllers -> ManagerPCs]
    BY <1>10, GotoType DEF Report, ManagerPCs
  <2>2. errCh' \in [Controllers -> 0..ErrCap]
    BY <1>10 DEF Report, TypeOK, ErrCap
  <2>. QED
    BY <1>10, <2>1, <2>2 DEF Report, TypeOK, cluster, history
<1>11. ASSUME NEW c \in Controllers, Wake(c) PROVE TypeOK'
  <2>1. pc' \in [Controllers -> ManagerPCs]
    BY <1>11, GotoType DEF Wake, ManagerPCs, Executing
  <2>. QED
    BY <1>11, <2>1 DEF Wake, TypeOK, cluster, history
<1>12. ASSUME NEW c \in Controllers, CreateConflict(c) PROVE TypeOK'
  <2>1. faults' \in [FaultKinds -> Nat]
    BY <1>12, ChargeType DEF CreateConflict, FaultKinds
  <2>. QED
    BY <1>12, <2>1, AbortType DEF CreateConflict, TypeOK, cluster, history
<1>13. ASSUME NEW c \in Controllers, CreateUnanswered(c) PROVE TypeOK'
  <2>1. faults' \in [FaultKinds -> Nat]
    BY <1>13, ChargeType DEF CreateUnanswered, FaultKinds
  <2>2. workers' \in Nat
    BY <1>13 DEF CreateUnanswered, TypeOK
  <2>. QED
    BY <1>13, <2>1, <2>2, AbortType DEF CreateUnanswered, TypeOK, history
<1>14. ASSUME NEW c \in Controllers, Fail(c) PROVE TypeOK'
  <2>1. faults' \in [FaultKinds -> Nat]
    BY <1>14, ChargeType DEF Fail, FaultKinds
  <2>. QED
    BY <1>14, <2>1, AbortType DEF Fail, TypeOK, cluster, history
<1>15. ASSUME NEW c \in Controllers, Crash(c) PROVE TypeOK'
  <2>1. faults' \in [FaultKinds -> Nat]
    BY <1>15, ChargeType DEF Crash, FaultKinds
  <2>2. req' \in [Requests -> Handlers]
    BY <1>15 DEF Crash, TypeOK, Handlers, HandlerPCs
  <2>3. pc' \in [Controllers -> ManagerPCs] /\ errCh' \in [Controllers -> 0..ErrCap]
    BY <1>15 DEF Crash, TypeOK, ManagerPCs, ErrCap
  <2>4. looping' \in [Controllers -> BOOLEAN] /\ serving' \in [Controllers -> BOOLEAN]
    BY <1>15 DEF Crash, TypeOK
  <2>5. \A q \in Requests : req'[q].pc = "update" => req'[q].count \in Counts
    BY <1>15 DEF Crash, TypeOK, Handlers
  <2>. QED
    BY <1>15, <2>5, <2>1, <2>2, <2>3, <2>4 DEF Crash, TypeOK, cluster, history
<1>16. ASSUME NEW c \in Controllers, ServerFails(c) PROVE TypeOK'
  <2>1. faults' \in [FaultKinds -> Nat]
    BY <1>16, ChargeType DEF ServerFails, FaultKinds
  <2>2. errCh' \in [Controllers -> 0..ErrCap]
    BY <1>16 DEF ServerFails, TypeOK, ErrCap
  <2>3. serving' \in [Controllers -> BOOLEAN]
    BY <1>16 DEF ServerFails, TypeOK
  <2>. QED
    BY <1>16, <2>1, <2>2, <2>3 DEF ServerFails, TypeOK, cluster, history
<1>17. ASSUME NEW r \in Requests, ReadExisting(r) PROVE TypeOK'
  <2>1. req' \in [Requests -> Handlers]
    BY <1>17 DEF ReadExisting, TypeOK, Handlers, HandlerPCs
  <2>2. \A q \in Requests : req'[q].pc = "update" => req'[q].count \in Counts
    BY <1>17 DEF ReadExisting, TypeOK, Handlers
  <2>. QED
    BY <1>17, <2>2, <2>1 DEF ReadExisting, TypeOK, cluster, process, history
<1>18. ASSUME NEW r \in Requests, Update(r) PROVE TypeOK'
  <2>1. req' \in [Requests -> Handlers]
    BY <1>18, HandlerType DEF Update, HandlerPCs
  <2>2. \A q \in Requests : req'[q].pc = "update" => req'[q].count \in Counts
    BY <1>18 DEF Update, TypeOK, Handlers
  <2>3. /\ secret' \in Targets \cup {NoCount}
        /\ highest' \in Targets \cup {0}
        /\ latest' \in Requests \cup {NoRequest}
        /\ window' \in [Requests -> SUBSET (Targets \cup {NoCount})]
    BY <1>18, SetWorkerCountType, TargetsAreNat DEF Update, TypeOK
  <2>. QED
    BY <1>18, <2>1, <2>2, <2>3 DEF Update, TypeOK, process
<1>19. ASSUME NEW r \in Requests, RequestFails(r) PROVE TypeOK'
  <2>1. req' \in [Requests -> Handlers]
    BY <1>19, HandlerType DEF RequestFails, HandlerPCs
  <2>2. faults' \in [FaultKinds -> Nat]
    BY <1>19, ChargeType DEF RequestFails, FaultKinds
  <2>3. \A q \in Requests : req'[q].pc = "update" => req'[q].count \in Counts
    BY <1>19 DEF RequestFails, TypeOK, Handlers
  <2>. QED
    BY <1>19, <2>3, <2>1, <2>2
    DEF RequestFails, TypeOK, cluster, process, history
<1>20. ASSUME NEW r \in Requests, UpdateUnanswered(r) PROVE TypeOK'
  <2>1. req' \in [Requests -> Handlers]
    BY <1>20, HandlerType DEF UpdateUnanswered, HandlerPCs
  <2>2. \A q \in Requests : req'[q].pc = "update" => req'[q].count \in Counts
    BY <1>20 DEF UpdateUnanswered, TypeOK, Handlers
  <2>3. /\ secret' \in Targets \cup {NoCount}
        /\ highest' \in Targets \cup {0}
        /\ latest' \in Requests \cup {NoRequest}
        /\ window' \in [Requests -> SUBSET (Targets \cup {NoCount})]
    BY <1>20, SetWorkerCountType, TargetsAreNat DEF UpdateUnanswered, TypeOK
  <2>4. faults' \in [FaultKinds -> Nat]
    BY <1>20, ChargeType DEF UpdateUnanswered, FaultKinds
  <2>. QED
    BY <1>20, <2>1, <2>2, <2>3, <2>4 DEF UpdateUnanswered, TypeOK, process
<1>21. ASSUME NEW r \in Requests, NEW c \in Controllers, Get(r, c) PROVE TypeOK'
  <2>1. req' \in [Requests -> Handlers]
    BY <1>21 DEF Get, TypeOK, Idle, Handlers, HandlerPCs
  <2>2. window' \in [Requests -> SUBSET (Targets \cup {NoCount})]
    BY <1>21 DEF Get, TypeOK
  <2>3. \A q \in Requests : req'[q].pc = "update" => req'[q].count \in Counts
    BY <1>21 DEF Get, TypeOK, Handlers, Idle
  <2>. QED
    BY <1>21, <2>3, <2>1, <2>2 DEF Get, TypeOK, cluster, process
<1>22. ASSUME NEW r \in Requests, NEW c \in Controllers, PostRejected(r, c) PROVE TypeOK'
  <2>1. req' \in [Requests -> Handlers]
    BY <1>22, HandlerType DEF PostRejected, HandlerPCs
  <2>2. \A q \in Requests : req'[q].pc = "update" => req'[q].count \in Counts
    BY <1>22 DEF PostRejected, TypeOK, Handlers
  <2>. QED
    BY <1>22, <2>2, <2>1 DEF PostRejected, TypeOK, cluster, process, history
<1>23. ASSUME NEW r \in Requests, NEW c \in Controllers, NEW n \in Counts, Post(r, c, n)
      PROVE TypeOK'
  <2>1. req' \in [Requests -> Handlers]
    BY <1>23 DEF Post, TypeOK, Idle, Handlers, HandlerPCs
  <2>2. window' \in [Requests -> SUBSET (Targets \cup {NoCount})]
    BY <1>23 DEF Post, TypeOK
  <2>3. \A q \in Requests : req'[q].pc = "update" => req'[q].count \in Counts
    BY <1>23 DEF Post, TypeOK, Handlers, Idle
  <2>. QED
    BY <1>23, <2>3, <2>1, <2>2 DEF Post, TypeOK, cluster, process
<1>24. CASE Tick
  BY <1>24 DEF Tick, TypeOK, process, history
<1>25. CASE LoseWorker
  <2>1. faults' \in [FaultKinds -> Nat]
    BY <1>25, ChargeType DEF LoseWorker, FaultKinds
  <2>. QED
    BY <1>25, <2>1 DEF LoseWorker, TypeOK, process, history
<1>26. ASSUME NEW n \in Counts, RestoreKey(n) PROVE TypeOK'
  <2>1. /\ secret' \in Targets \cup {NoCount}
        /\ highest' \in Targets \cup {0}
        /\ latest' \in Requests \cup {NoRequest}
        /\ window' \in [Requests -> SUBSET (Targets \cup {NoCount})]
    BY <1>26, SetWorkerCountType, TargetsAreNat DEF RestoreKey
  <2>. QED
    BY <1>26, <2>1 DEF RestoreKey, TypeOK, process
<1>27. CASE UNCHANGED vars
  BY <1>27 DEF vars, cluster, process, history, TypeOK
<1>. QED
  BY <1>1, <1>2, <1>3, <1>4, <1>5, <1>6, <1>7, <1>8, <1>9, <1>10,
     <1>11, <1>12, <1>13, <1>14, <1>15, <1>16, <1>17, <1>18, <1>19,
     <1>20, <1>21, <1>22, <1>23, <1>24, <1>25, <1>26, <1>27
  DEF Next, ManagerStep, ManagerFault, HandlerStep, HandlerFault, Client

(* The variables keep their types in every behaviour of the worker side.   *)
THEOREM TypeCorrect == Spec => []TypeOK
<1>1. Init => TypeOK
  BY InitType
<1>2. TypeOK /\ [Next]_vars => TypeOK'
  BY TypeStep
<1>. QED
  BY <1>1, <1>2, PTL DEF Spec

----------------------------------------------------------------------------
(***************************************************************************)
(* PoolWithinTargets.  A manager between its list and its last creation    *)
(* knows at least as many workers as there are (PassBounded), so the       *)
(* creation it is about to make stays below the count it read, and that    *)
(* count is at most the largest target ever recorded.                      *)
(***************************************************************************)
LEMMA LargerBounds ==
  \A m, n \in Nat : Larger(m, n) \in Nat /\ m <= Larger(m, n) /\ n <= Larger(m, n)
  BY DEF Larger

(* Raising the target keeps every bound.                                   *)
LEMMA SetWorkerCountBounds ==
  ASSUME TypeOK, NEW n \in Targets, NEW w, SetWorkerCount(n, w)
  PROVE  /\ secret' = n /\ n <= highest'
         /\ highest \in Nat /\ highest' \in Nat /\ highest <= highest'
<1>. highest \in Nat
  BY TargetsAreNat DEF TypeOK
<1>. QED
  BY LargerBounds, TargetsAreNat DEF SetWorkerCount

(* A pool without workers satisfies every bound.                           *)
LEMMA PoolInvInit == Init => PoolInv
<1>. SUFFICES ASSUME Init PROVE PoolInv
  OBVIOUS
<1>1. TypeOK
  BY InitType
<1>2. highest \in Nat /\ workers <= highest
  BY <1>1, TargetsAreNat DEF Init, TypeOK
<1>3. StoredCountBounded
  BY <1>1, <1>2, TargetsAreNat DEF Init, TypeOK, StoredCountBounded
<1>. QED
  BY <1>1, <1>2, <1>3 DEF Init, PoolInv, PoolWithinTargets, PassBounded

(* With every instance on the page the list is exact.                      *)
LEMMA ListExact ==
  ASSUME FitsOnPage, TypeOK, PoolWithinTargets, NEW n \in Nat, Visible(n)
  PROVE  n = workers
<1>1. highest \in Nat /\ highest + Others <= ListLimit
  BY TargetsAreNat DEF FitsOnPage, TypeOK
<1>2. workers + Others <= ListLimit
  BY <1>1 DEF PoolWithinTargets, TypeOK
<1>. QED
  BY <1>2 DEF Visible

LEMMA PoolInvStep ==
  ASSUME OneManager, FitsOnPage
  PROVE  PoolInv /\ [Next]_vars => PoolInv'
<1>. SUFFICES ASSUME PoolInv, [Next]_vars PROVE PoolInv'
  OBVIOUS
<1>. USE DEF PoolInv
<1>t. TypeOK'
  BY TypeStep
<1>n. highest \in Nat
  BY TargetsAreNat DEF TypeOK
<1>1. ASSUME NEW c \in Controllers, Start(c) PROVE PoolInv'
  BY <1>1, <1>t, <1>n
  DEF Start, Goto, PoolWithinTargets, StoredCountBounded, PassBounded, TypeOK,
      cluster, history
<1>2. ASSUME NEW c \in Controllers, EnsureCluster(c) PROVE PoolInv'
  BY <1>2, <1>t, <1>n
  DEF EnsureCluster, Goto, PoolWithinTargets, StoredCountBounded, PassBounded,
      TypeOK, cluster, history
<1>3. ASSUME NEW c \in Controllers, ReadCount(c) PROVE PoolInv'
  BY <1>3, <1>t, <1>n
  DEF ReadCount, Goto, PoolWithinTargets, StoredCountBounded, PassBounded,
      TypeOK, cluster, history
<1>4. ASSUME NEW c \in Controllers, StoreRead(c) PROVE PoolInv'
  BY <1>4, <1>t, <1>n
  DEF StoreRead, Goto, PoolWithinTargets, StoredCountBounded, PassBounded,
      TypeOK, cluster, history
<1>5. ASSUME NEW c \in Controllers, StoreFails(c) PROVE PoolInv'
  BY <1>5, <1>t, <1>n
  DEF StoreFails, Abort, PoolWithinTargets, StoredCountBounded, PassBounded,
      TypeOK, cluster, history
<1>6. ASSUME NEW c \in Controllers, StorePut(c) PROVE PoolInv'
  <2>1. FlagCount <= highest' /\ secret' = FlagCount /\ highest' \in Nat /\ highest <= highest'
    BY <1>6, SetWorkerCountBounds, TargetsAreNat DEF StorePut
  <2>2. want[c] = FlagCount
    BY <1>6 DEF StorePut, Goto, PassBounded
  <2>. QED
    BY <1>6, <1>t, <1>n, <2>1, <2>2
    DEF StorePut, Goto, PoolWithinTargets, StoredCountBounded, PassBounded,
        TypeOK
<1>7. ASSUME NEW c \in Controllers, ListWorkers(c) PROVE PoolInv'
  <2>1. PICK seen \in 0..workers :
          /\ Visible(seen)
          /\ have' = [have EXCEPT ![c] = seen]
          /\ \/ Enough(seen, want[c]) /\ Finish(c)
             \/ ~Enough(seen, want[c]) /\ Goto(c, "list", "creds")
    BY <1>7 DEF ListWorkers
  <2>2. seen = workers
    BY <2>1, ListExact DEF TypeOK
  <2>3. pc' = [pc EXCEPT ![c] = pc'[c]] /\ pc'[c] \in {"sleep", "cluster", "creds"}
    BY <2>1 DEF Finish, Goto, TypeOK
  <2>4. pc'[c] = "creds" => ~(workers >= want[c])
    BY <2>1, <2>2 DEF Finish, Enough, TypeOK
  <2>5. want[c] <= highest
    BY <1>7 DEF ListWorkers, PassBounded
  <2>6. PassBounded'
    BY <1>7, <1>n, <2>1, <2>2, <2>3, <2>4, <2>5
    DEF ListWorkers, PoolWithinTargets, StoredCountBounded, PassBounded,
        TypeOK, cluster, history
  <2>. QED
    BY <1>7, <1>t, <2>6
    DEF ListWorkers, PoolWithinTargets, StoredCountBounded, PassBounded,
        TypeOK, cluster, history
<1>8. ASSUME NEW c \in Controllers, ReadCreds(c) PROVE PoolInv'
  BY <1>8, <1>t, <1>n
  DEF ReadCreds, Goto, PoolWithinTargets, StoredCountBounded, PassBounded,
      TypeOK, cluster, history
<1>9. ASSUME NEW c \in Controllers, CreateWorker(c) PROVE PoolInv'
  <2>1. workers <= have[c] /\ have[c] < want[c] /\ want[c] <= highest
    BY <1>9 DEF CreateWorker, PassBounded
  <2>2. PoolWithinTargets' /\ StoredCountBounded'
    BY <1>9, <1>n, <2>1
    DEF CreateWorker, PoolWithinTargets, StoredCountBounded, PassBounded,
        TypeOK, history
  <2>3. \A d \in Controllers : d = c
    BY DEF OneManager
  <2>4. \/ pc' = pc /\ have[c] + 1 < want[c]
        \/ pc'[c] \in {"sleep", "cluster"}
    BY <1>9 DEF CreateWorker, Finish, TypeOK
  <2>5. PassBounded'
    BY <1>9, <1>n, <2>1, <2>3, <2>4
    DEF CreateWorker, PassBounded, TypeOK, history
  <2>. QED
    BY <1>t, <2>2, <2>5
<1>10. ASSUME NEW c \in Controllers, Report(c) PROVE PoolInv'
  BY <1>10, <1>t, <1>n
  DEF Report, Goto, PoolWithinTargets, StoredCountBounded, PassBounded,
      TypeOK, cluster, history
<1>11. ASSUME NEW c \in Controllers, Wake(c) PROVE PoolInv'
  BY <1>11, <1>t, <1>n
  DEF Wake, Goto, PoolWithinTargets, StoredCountBounded, PassBounded, TypeOK,
      cluster, history
<1>12. ASSUME NEW c \in Controllers, CreateConflict(c) PROVE PoolInv'
  BY <1>12, <1>t, <1>n
  DEF CreateConflict, Abort, PoolWithinTargets, StoredCountBounded,
      PassBounded, TypeOK, cluster, history
<1>13. ASSUME NEW c \in Controllers, CreateUnanswered(c) PROVE PoolInv'
  <2>1. workers <= have[c] /\ have[c] < want[c] /\ want[c] <= highest
    BY <1>13 DEF CreateUnanswered, PassBounded
  <2>2. PoolWithinTargets' /\ StoredCountBounded'
    BY <1>13, <1>n, <2>1
    DEF CreateUnanswered, PoolWithinTargets, StoredCountBounded, PassBounded,
        TypeOK, history
  <2>3. \A d \in Controllers : d = c /\ pc'[d] \in {"report", "down"}
    BY <1>13 DEF OneManager, CreateUnanswered, Abort, TypeOK
  <2>. QED
    BY <1>t, <2>2, <2>3 DEF PassBounded
<1>14. ASSUME NEW c \in Controllers, Fail(c) PROVE PoolInv'
  BY <1>14, <1>t, <1>n
  DEF Fail, Abort, PoolWithinTargets, StoredCountBounded, PassBounded, TypeOK,
      cluster, history
<1>15. ASSUME NEW c \in Controllers, Crash(c) PROVE PoolInv'
  BY <1>15, <1>t, <1>n
  DEF Crash, PoolWithinTargets, StoredCountBounded, PassBounded, TypeOK,
      cluster, history
<1>16. ASSUME NEW c \in Controllers, ServerFails(c) PROVE PoolInv'
  BY <1>16, <1>t, <1>n
  DEF ServerFails, PoolWithinTargets, StoredCountBounded, PassBounded, TypeOK,
      cluster, history
<1>17. ASSUME NEW r \in Requests, ReadExisting(r) PROVE PoolInv'
  BY <1>17, <1>t, <1>n
  DEF ReadExisting, PoolWithinTargets, StoredCountBounded, PassBounded,
      TypeOK, cluster, process, history
<1>18. ASSUME NEW r \in Requests, Update(r) PROVE PoolInv'
  <2>1. secret' <= highest' /\ highest' \in Nat /\ highest <= highest'
    BY <1>18, SetWorkerCountBounds, TargetsAreNat DEF Update, TypeOK
  <2>. QED
    BY <1>18, <1>t, <1>n, <2>1
    DEF Update, PoolWithinTargets, StoredCountBounded, PassBounded, TypeOK,
        process
<1>19. ASSUME NEW r \in Requests, RequestFails(r) PROVE PoolInv'
  BY <1>19, <1>t, <1>n
  DEF RequestFails, PoolWithinTargets, StoredCountBounded, PassBounded,
      TypeOK, cluster, process, history
<1>20. ASSUME NEW r \in Requests, UpdateUnanswered(r) PROVE PoolInv'
  <2>1. secret' <= highest' /\ highest' \in Nat /\ highest <= highest'
    BY <1>20, SetWorkerCountBounds, TargetsAreNat DEF UpdateUnanswered, TypeOK
  <2>. QED
    BY <1>20, <1>t, <1>n, <2>1
    DEF UpdateUnanswered, PoolWithinTargets, StoredCountBounded, PassBounded,
        TypeOK, process
<1>21. ASSUME NEW r \in Requests, NEW c \in Controllers, Get(r, c) PROVE PoolInv'
  BY <1>21, <1>t, <1>n
  DEF Get, PoolWithinTargets, StoredCountBounded, PassBounded, TypeOK,
      cluster, process, history
<1>22. ASSUME NEW r \in Requests, NEW c \in Controllers, PostRejected(r, c) PROVE PoolInv'
  BY <1>22, <1>t, <1>n
  DEF PostRejected, PoolWithinTargets, StoredCountBounded, PassBounded,
      TypeOK, cluster, process, history
<1>23. ASSUME NEW r \in Requests, NEW c \in Controllers, NEW n \in Counts, Post(r, c, n)
      PROVE PoolInv'
  BY <1>23, <1>t, <1>n
  DEF Post, PoolWithinTargets, StoredCountBounded, PassBounded, TypeOK,
      cluster, process, history
<1>24. CASE Tick
  BY <1>24, <1>t, <1>n
  DEF Tick, PoolWithinTargets, StoredCountBounded, PassBounded, TypeOK,
      process, history
<1>25. CASE LoseWorker
  BY <1>25, <1>t, <1>n
  DEF LoseWorker, PoolWithinTargets, StoredCountBounded, PassBounded, TypeOK,
      process, history
<1>26. ASSUME NEW n \in Counts, RestoreKey(n) PROVE PoolInv'
  <2>1. secret' <= highest' /\ highest' \in Nat /\ highest <= highest'
    BY <1>26, SetWorkerCountBounds, TargetsAreNat DEF RestoreKey
  <2>. QED
    BY <1>26, <1>t, <1>n, <2>1
    DEF RestoreKey, PoolWithinTargets, StoredCountBounded, PassBounded,
        TypeOK, process
<1>27. CASE UNCHANGED vars
  BY <1>27, <1>t
  DEF vars, cluster, process, history, PoolWithinTargets, StoredCountBounded,
      PassBounded, TypeOK
<1>. QED
  BY <1>1, <1>2, <1>3, <1>4, <1>5, <1>6, <1>7, <1>8, <1>9, <1>10,
     <1>11, <1>12, <1>13, <1>14, <1>15, <1>16, <1>17, <1>18, <1>19,
     <1>20, <1>21, <1>22, <1>23, <1>24, <1>25, <1>26, <1>27
  DEF Next, ManagerStep, ManagerFault, HandlerStep, HandlerFault, Client

(* One controller that sees every instance on its page never creates a     *)
(* worker beyond the largest target ever recorded, whatever requests,      *)
(* crashes, lost answers and lost workers come between its calls.          *)
THEOREM PoolBounded ==
  ASSUME OneManager, FitsOnPage
  PROVE  Spec => []PoolWithinTargets
<1>1. Init => PoolInv
  BY PoolInvInit
<1>2. PoolInv /\ [Next]_vars => PoolInv'
  BY PoolInvStep
<1>3. PoolInv => PoolWithinTargets
  BY DEF PoolInv
<1>. QED
  BY <1>1, <1>2, <1>3, PTL DEF Spec

----------------------------------------------------------------------------
(***************************************************************************)
(* ReportedCountWasCurrent: what a handler is about to read is always in   *)
(* its window, and the window is closed by the read.                       *)
(***************************************************************************)
LEMMA ReportedInit == Init => ReportedInv
  BY InitType DEF Init, ReportedInv, ReportedCountWasCurrent, Idle

LEMMA ReportedStep == ReportedInv /\ [Next]_vars => ReportedInv'
<1>. SUFFICES ASSUME ReportedInv, [Next]_vars PROVE ReportedInv'
  OBVIOUS
<1>. USE DEF ReportedInv
<1>t. TypeOK'
  BY TypeStep
<1>1. ASSUME NEW c \in Controllers, Start(c) PROVE ReportedInv'
  BY <1>1, <1>t
  DEF Start, ReportedCountWasCurrent, TypeOK, cluster, process, history
<1>2. ASSUME NEW c \in Controllers, EnsureCluster(c) PROVE ReportedInv'
  BY <1>2, <1>t
  DEF EnsureCluster, ReportedCountWasCurrent, TypeOK, cluster, process,
      history
<1>3. ASSUME NEW c \in Controllers, ReadCount(c) PROVE ReportedInv'
  BY <1>3, <1>t
  DEF ReadCount, ReportedCountWasCurrent, TypeOK, cluster, process, history
<1>4. ASSUME NEW c \in Controllers, StoreRead(c) PROVE ReportedInv'
  BY <1>4, <1>t
  DEF StoreRead, ReportedCountWasCurrent, TypeOK, cluster, process, history
<1>5. ASSUME NEW c \in Controllers, StoreFails(c) PROVE ReportedInv'
  BY <1>5, <1>t
  DEF StoreFails, ReportedCountWasCurrent, TypeOK, cluster, process, history
<1>6. ASSUME NEW c \in Controllers, StorePut(c) PROVE ReportedInv'
  BY <1>6, <1>t DEF StorePut, SetWorkerCount, ReportedCountWasCurrent, TypeOK
<1>7. ASSUME NEW c \in Controllers, ListWorkers(c) PROVE ReportedInv'
  BY <1>7, <1>t
  DEF ListWorkers, ReportedCountWasCurrent, TypeOK, cluster, process, history
<1>8. ASSUME NEW c \in Controllers, ReadCreds(c) PROVE ReportedInv'
  BY <1>8, <1>t
  DEF ReadCreds, ReportedCountWasCurrent, TypeOK, cluster, process, history
<1>9. ASSUME NEW c \in Controllers, CreateWorker(c) PROVE ReportedInv'
  BY <1>9, <1>t
  DEF CreateWorker, ReportedCountWasCurrent, TypeOK, cluster, process, history
<1>10. ASSUME NEW c \in Controllers, Report(c) PROVE ReportedInv'
  BY <1>10, <1>t
  DEF Report, ReportedCountWasCurrent, TypeOK, cluster, process, history
<1>11. ASSUME NEW c \in Controllers, Wake(c) PROVE ReportedInv'
  BY <1>11, <1>t
  DEF Wake, ReportedCountWasCurrent, TypeOK, cluster, process, history
<1>12. ASSUME NEW c \in Controllers, CreateConflict(c) PROVE ReportedInv'
  BY <1>12, <1>t
  DEF CreateConflict, ReportedCountWasCurrent, TypeOK, cluster, process,
      history
<1>13. ASSUME NEW c \in Controllers, CreateUnanswered(c) PROVE ReportedInv'
  BY <1>13, <1>t
  DEF CreateUnanswered, ReportedCountWasCurrent, TypeOK, cluster, process,
      history
<1>14. ASSUME NEW c \in Controllers, Fail(c) PROVE ReportedInv'
  BY <1>14, <1>t
  DEF Fail, ReportedCountWasCurrent, TypeOK, cluster, process, history
<1>15. ASSUME NEW c \in Controllers, Crash(c) PROVE ReportedInv'
  <2>1. \A r \in Requests :
          req'[r] = req[r] \/ req'[r].pc = "failed"
    BY <1>15 DEF Crash, TypeOK, Handlers
  <2>. QED
    BY <1>15, <1>t, <2>1
    DEF Crash, ReportedCountWasCurrent, TypeOK, cluster, history
<1>16. ASSUME NEW c \in Controllers, ServerFails(c) PROVE ReportedInv'
  BY <1>16, <1>t
  DEF ServerFails, ReportedCountWasCurrent, TypeOK, cluster, process, history
<1>17. ASSUME NEW r \in Requests, ReadExisting(r) PROVE ReportedInv'
  BY <1>17, <1>t
  DEF ReadExisting, Handlers, ReportedCountWasCurrent, TypeOK, cluster,
      process, history
<1>18. ASSUME NEW r \in Requests, Update(r) PROVE ReportedInv'
  BY <1>18, <1>t
  DEF Update, SetWorkerCount, Handlers, ReportedCountWasCurrent, TypeOK
<1>19. ASSUME NEW r \in Requests, RequestFails(r) PROVE ReportedInv'
  BY <1>19, <1>t
  DEF RequestFails, Handlers, ReportedCountWasCurrent, TypeOK, cluster,
      process, history
<1>20. ASSUME NEW r \in Requests, UpdateUnanswered(r) PROVE ReportedInv'
  BY <1>20, <1>t
  DEF UpdateUnanswered, SetWorkerCount, Handlers, ReportedCountWasCurrent,
      TypeOK
<1>21. ASSUME NEW r \in Requests, NEW c \in Controllers, Get(r, c) PROVE ReportedInv'
  BY <1>21, <1>t
  DEF Get, Idle, Handlers, ReportedCountWasCurrent, TypeOK, cluster, process
<1>22. ASSUME NEW r \in Requests, NEW c \in Controllers, PostRejected(r, c) PROVE ReportedInv'
  BY <1>22, <1>t
  DEF PostRejected, Handlers, ReportedCountWasCurrent, TypeOK, cluster,
      process, history
<1>23. ASSUME NEW r \in Requests, NEW c \in Controllers, NEW n \in Counts, Post(r, c, n)
      PROVE ReportedInv'
  BY <1>23, <1>t
  DEF Post, Idle, Handlers, ReportedCountWasCurrent, TypeOK, cluster, process
<1>24. CASE Tick
  BY <1>24, <1>t
  DEF Tick, ReportedCountWasCurrent, TypeOK, cluster, process, history
<1>25. CASE LoseWorker
  BY <1>25, <1>t
  DEF LoseWorker, ReportedCountWasCurrent, TypeOK, cluster, process, history
<1>26. ASSUME NEW n \in Counts, RestoreKey(n) PROVE ReportedInv'
  BY <1>26, <1>t
  DEF RestoreKey, SetWorkerCount, ReportedCountWasCurrent, TypeOK
<1>27. CASE UNCHANGED vars
  BY <1>27, <1>t
  DEF vars, cluster, process, history, ReportedCountWasCurrent, TypeOK
<1>. QED
  BY <1>1, <1>2, <1>3, <1>4, <1>5, <1>6, <1>7, <1>8, <1>9, <1>10,
     <1>11, <1>12, <1>13, <1>14, <1>15, <1>16, <1>17, <1>18, <1>19,
     <1>20, <1>21, <1>22, <1>23, <1>24, <1>25, <1>26, <1>27
  DEF Next, ManagerStep, ManagerFault, HandlerStep, HandlerFault, Client

(* A GET's answer and the "from" of a POST's answer were the recorded       *)
(* target between the arrival of the request and its read, for any number  *)
(* of controllers.                                                         *)
THEOREM ReportedCountCurrent == Spec => []ReportedCountWasCurrent
<1>1. Init => ReportedInv
  BY ReportedInit
<1>2. ReportedInv /\ [Next]_vars => ReportedInv'
  BY ReportedStep
<1>3. ReportedInv => ReportedCountWasCurrent
  BY DEF ReportedInv
<1>. QED
  BY <1>1, <1>2, <1>3, PTL DEF Spec

----------------------------------------------------------------------------
(***************************************************************************)
(* AcceptedCountKept.  The only writer of the target besides a request is  *)
(* the fallback to --worker-count, and it runs in the first Execute only,  *)
(* before the process serves requests (ServedAfterFirstPass).              *)
(***************************************************************************)
LEMMA AcceptedInit == Init => AcceptedInv
  BY InitType
  DEF Init, AcceptedInv, ServedAfterFirstPass, CountKnown, AcceptedCountKept,
      Handling, Idle

LEMMA AcceptedStep ==
  ASSUME OneManager
  PROVE  AcceptedInv /\ [Next]_vars => AcceptedInv'
<1>. SUFFICES ASSUME AcceptedInv, [Next]_vars PROVE AcceptedInv'
  OBVIOUS
<1>. USE DEF AcceptedInv
<1>t. TypeOK'
  BY TypeStep
<1>1. ASSUME NEW c \in Controllers, Start(c) PROVE AcceptedInv'
  BY <1>1, <1>t
  DEF Start, Goto, ServedAfterFirstPass, CountKnown, AcceptedCountKept,
      Handling, TypeOK, cluster, history
<1>2. ASSUME NEW c \in Controllers, EnsureCluster(c) PROVE AcceptedInv'
  BY <1>2, <1>t
  DEF EnsureCluster, Goto, ServedAfterFirstPass, CountKnown,
      AcceptedCountKept, Handling, TypeOK, cluster, history
<1>3. ASSUME NEW c \in Controllers, ReadCount(c) PROVE AcceptedInv'
  BY <1>3, <1>t
  DEF ReadCount, Goto, ServedAfterFirstPass, CountKnown, AcceptedCountKept,
      Handling, TypeOK, cluster, history
<1>4. ASSUME NEW c \in Controllers, StoreRead(c) PROVE AcceptedInv'
  BY <1>4, <1>t
  DEF StoreRead, Goto, ServedAfterFirstPass, CountKnown, AcceptedCountKept,
      Handling, TypeOK, cluster, history
<1>5. ASSUME NEW c \in Controllers, StoreFails(c) PROVE AcceptedInv'
  BY <1>5, <1>t
  DEF StoreFails, Abort, ServedAfterFirstPass, CountKnown, AcceptedCountKept,
      Handling, TypeOK, cluster, history
<1>6. ASSUME NEW c \in Controllers, StorePut(c) PROVE AcceptedInv'
  <2>1. latest = NoRequest /\ ~looping[c] /\ secret # NoCount
    BY <1>6
    DEF StorePut, Goto, ServedAfterFirstPass, CountKnown, AcceptedCountKept,
        Handling, TypeOK
  <2>2. secret' = FlagCount /\ latest' = NoRequest
    BY <1>6, <2>1, ProcessAssumption DEF StorePut, SetWorkerCount
  <2>. QED
    BY <1>6, <1>t, <2>1, <2>2
    DEF StorePut, Goto, ServedAfterFirstPass, CountKnown, AcceptedCountKept,
        Handling, TypeOK
<1>7. ASSUME NEW c \in Controllers, ListWorkers(c) PROVE AcceptedInv'
  <2>1. Finish(c) \/ (Goto(c, "list", "creds") /\ UNCHANGED <<looping, serving>>)
    BY <1>7 DEF ListWorkers
  <2>2. CASE Finish(c)
    BY <1>7, <1>t, <2>2
    DEF ListWorkers, Finish, ServedAfterFirstPass, CountKnown,
        AcceptedCountKept, Handling, TypeOK, cluster, history
  <2>3. CASE Goto(c, "list", "creds") /\ UNCHANGED <<looping, serving>>
    BY <1>7, <1>t, <2>3
    DEF ListWorkers, Goto, ServedAfterFirstPass, CountKnown,
        AcceptedCountKept, Handling, TypeOK, cluster, history
  <2>. QED
    BY <2>1, <2>2, <2>3
<1>8. ASSUME NEW c \in Controllers, ReadCreds(c) PROVE AcceptedInv'
  BY <1>8, <1>t
  DEF ReadCreds, Goto, ServedAfterFirstPass, CountKnown, AcceptedCountKept,
      Handling, TypeOK, cluster, history
<1>9. ASSUME NEW c \in Controllers, CreateWorker(c) PROVE AcceptedInv'
  <2>1. Finish(c) \/ UNCHANGED <<pc, looping, serving>>
    BY <1>9 DEF CreateWorker
  <2>2. CASE Finish(c)
    BY <1>9, <1>t, <2>2
    DEF CreateWorker, Finish, ServedAfterFirstPass, CountKnown,
        AcceptedCountKept, Handling, TypeOK, history
  <2>3. CASE UNCHANGED <<pc, looping, serving>>
    BY <1>9, <1>t, <2>3
    DEF CreateWorker, ServedAfterFirstPass, CountKnown, AcceptedCountKept,
        Handling, TypeOK, history
  <2>. QED
    BY <2>1, <2>2, <2>3
<1>10. ASSUME NEW c \in Controllers, Report(c) PROVE AcceptedInv'
  BY <1>10, <1>t
  DEF Report, Goto, ServedAfterFirstPass, CountKnown, AcceptedCountKept,
      Handling, TypeOK, cluster, history
<1>11. ASSUME NEW c \in Controllers, Wake(c) PROVE AcceptedInv'
  BY <1>11, <1>t
  DEF Wake, Goto, ServedAfterFirstPass, CountKnown, AcceptedCountKept,
      Handling, TypeOK, cluster, history
<1>12. ASSUME NEW c \in Controllers, CreateConflict(c) PROVE AcceptedInv'
  BY <1>12, <1>t
  DEF CreateConflict, Abort, ServedAfterFirstPass, CountKnown,
      AcceptedCountKept, Handling, TypeOK, cluster, history
<1>13. ASSUME NEW c \in Controllers, CreateUnanswered(c) PROVE AcceptedInv'
  BY <1>13, <1>t
  DEF CreateUnanswered, Abort, ServedAfterFirstPass, CountKnown,
      AcceptedCountKept, Handling, TypeOK, history
<1>14. ASSUME NEW c \in Controllers, Fail(c) PROVE AcceptedInv'
  BY <1>14, <1>t
  DEF Fail, Abort, ServedAfterFirstPass, CountKnown, AcceptedCountKept,
      Handling, TypeOK, cluster, history
<1>15. ASSUME NEW c \in Controllers, Crash(c) PROVE AcceptedInv'
  <2>1. \A r \in Requests :
          \/ req'[r] = req[r] /\ ~(Handling(r) /\ req[r].at = c)
          \/ req'[r].pc = "failed" /\ req'[r].count = req[r].count
    BY <1>15 DEF Crash, TypeOK, Handlers
  <2>2. UNCHANGED <<secret, latest>>
    BY <1>15 DEF Crash, cluster, history
  <2>3. ServedAfterFirstPass'
    BY <1>15, <1>t, <2>1, <2>2
    DEF Crash, ServedAfterFirstPass, CountKnown, AcceptedCountKept, Handling,
        TypeOK
  <2>4. CountKnown'
    BY <1>15, <1>t, <2>1, <2>2
    DEF Crash, ServedAfterFirstPass, CountKnown, AcceptedCountKept, Handling,
        TypeOK
  <2>5. AcceptedCountKept'
    BY <2>1, <2>2 DEF AcceptedCountKept
  <2>. QED
    BY <1>t, <2>3, <2>4, <2>5
<1>16. ASSUME NEW c \in Controllers, ServerFails(c) PROVE AcceptedInv'
  BY <1>16, <1>t
  DEF ServerFails, ServedAfterFirstPass, CountKnown, AcceptedCountKept,
      Handling, TypeOK, cluster, history
<1>17. ASSUME NEW r \in Requests, ReadExisting(r) PROVE AcceptedInv'
  BY <1>17, <1>t
  DEF ReadExisting, Handlers, ServedAfterFirstPass, CountKnown,
      AcceptedCountKept, Handling, TypeOK, cluster, process, history
<1>18. ASSUME NEW r \in Requests, Update(r) PROVE AcceptedInv'
  <2>1. secret' = req[r].count /\ latest' = r /\ secret' # NoCount
    BY <1>18 DEF Update, SetWorkerCount, TypeOK
  <2>2. UNCHANGED process /\ req' = [req EXCEPT ![r].pc = req'[r].pc]
                          /\ req'[r].pc \in {"answered", "failed"}
    BY <1>18 DEF Update, TypeOK, Handlers
  <2>3. req'[r].count = req[r].count
    BY <2>2 DEF TypeOK, Handlers
  <2>4. \A c \in Controllers : looping[c]
    BY <1>18 DEF Update, OneManager, ServedAfterFirstPass, Handling
  <2>5. ServedAfterFirstPass' /\ CountKnown'
    BY <1>18, <1>t, <2>1, <2>2, <2>3, <2>4
    DEF ServedAfterFirstPass, CountKnown, AcceptedCountKept, Handling, TypeOK,
        Handlers, process
  <2>6. AcceptedCountKept'
    BY <2>1, <2>3 DEF AcceptedCountKept, TypeOK
  <2>. QED
    BY <1>t, <2>5, <2>6
<1>19. ASSUME NEW r \in Requests, RequestFails(r) PROVE AcceptedInv'
  BY <1>19, <1>t
  DEF RequestFails, Handlers, ServedAfterFirstPass, CountKnown,
      AcceptedCountKept, Handling, TypeOK, cluster, process, history
<1>20. ASSUME NEW r \in Requests, UpdateUnanswered(r) PROVE AcceptedInv'
  <2>1. secret' = req[r].count /\ latest' = r /\ secret' # NoCount
    BY <1>20 DEF UpdateUnanswered, SetWorkerCount, TypeOK
  <2>2. UNCHANGED process /\ req' = [req EXCEPT ![r].pc = req'[r].pc]
                          /\ req'[r].pc \in {"answered", "failed"}
    BY <1>20 DEF UpdateUnanswered, TypeOK, Handlers
  <2>3. req'[r].count = req[r].count
    BY <2>2 DEF TypeOK, Handlers
  <2>4. \A c \in Controllers : looping[c]
    BY <1>20 DEF UpdateUnanswered, OneManager, ServedAfterFirstPass, Handling
  <2>5. ServedAfterFirstPass' /\ CountKnown'
    BY <1>20, <1>t, <2>1, <2>2, <2>3, <2>4
    DEF ServedAfterFirstPass, CountKnown, AcceptedCountKept, Handling, TypeOK,
        Handlers, process
  <2>6. AcceptedCountKept'
    BY <2>1, <2>3 DEF AcceptedCountKept, TypeOK
  <2>. QED
    BY <1>t, <2>5, <2>6
<1>21. ASSUME NEW r \in Requests, NEW c \in Controllers, Get(r, c) PROVE AcceptedInv'
  BY <1>21, <1>t
  DEF Get, Idle, Handlers, ServedAfterFirstPass, CountKnown,
      AcceptedCountKept, Handling, TypeOK, cluster, process
<1>22. ASSUME NEW r \in Requests, NEW c \in Controllers, PostRejected(r, c) PROVE AcceptedInv'
  BY <1>22, <1>t
  DEF PostRejected, Handlers, ServedAfterFirstPass, CountKnown,
      AcceptedCountKept, Handling, TypeOK, cluster, process, history
<1>23. ASSUME NEW r \in Requests, NEW c \in Controllers, NEW n \in Counts, Post(r, c, n)
      PROVE AcceptedInv'
  BY <1>23, <1>t
  DEF Post, Idle, Handlers, ServedAfterFirstPass, CountKnown,
      AcceptedCountKept, Handling, TypeOK, cluster, process
<1>24. CASE Tick
  BY <1>24, <1>t
  DEF Tick, ServedAfterFirstPass, CountKnown, AcceptedCountKept, Handling,
      TypeOK, process, history
<1>25. CASE LoseWorker
  BY <1>25, <1>t
  DEF LoseWorker, ServedAfterFirstPass, CountKnown, AcceptedCountKept,
      Handling, TypeOK, process, history
<1>26. ASSUME NEW n \in Counts, RestoreKey(n) PROVE AcceptedInv'
  <2>1. latest = NoRequest
    BY <1>26 DEF RestoreKey, CountKnown
  <2>2. secret' = n /\ latest' = NoRequest
    BY <1>26, <2>1, ProcessAssumption DEF RestoreKey, SetWorkerCount
  <2>. QED
    BY <1>26, <1>t, <2>1, <2>2
    DEF RestoreKey, ServedAfterFirstPass, CountKnown, AcceptedCountKept,
        Handling, TypeOK, process
<1>27. CASE UNCHANGED vars
  BY <1>27, <1>t
  DEF vars, cluster, process, history, ServedAfterFirstPass, CountKnown,
      AcceptedCountKept, Handling, TypeOK
<1>. QED
  BY <1>1, <1>2, <1>3, <1>4, <1>5, <1>6, <1>7, <1>8, <1>9, <1>10,
     <1>11, <1>12, <1>13, <1>14, <1>15, <1>16, <1>17, <1>18, <1>19,
     <1>20, <1>21, <1>22, <1>23, <1>24, <1>25, <1>26, <1>27
  DEF Next, ManagerStep, ManagerFault, HandlerStep, HandlerFault, Client

(* The count an accepted POST wrote stays the target until another request *)
(* writes one, across failed calls, crashes and restarts (one controller). *)
THEOREM AcceptedCountStays ==
  ASSUME OneManager
  PROVE  Spec => []AcceptedCountKept
<1>1. Init => AcceptedInv
  BY AcceptedInit
<1>2. AcceptedInv /\ [Next]_vars => AcceptedInv'
  BY AcceptedStep
<1>3. AcceptedInv => AcceptedCountKept
  BY DEF AcceptedInv
<1>. QED
  BY <1>1, <1>2, <1>3, PTL DEF Spec

----------------------------------------------------------------------------
(***************************************************************************)
(* OvershootBounded.  What every manager may still create is a set of      *)
(* pairs: the manager and a number of workers it has not reached.  A list  *)
(* that is exact gives its manager no more than the count it wants less    *)
(* the pool, so that pool and pending creations together stay within one   *)
(* largest target for each controller.                                     *)
(***************************************************************************)
Creating(c) == pc[c] \in {"creds", "create"}

Plans == Controllers \X (1..highest)
Pending == {p \in Plans : Creating(p[1]) /\ have[p[1]] < p[2] /\ p[2] <= want[p[1]]}

Planned ==
  /\ StoredCountBounded
  /\ \A c \in Controllers :
       /\ pc[c] \in {"store", "put"} => want[c] = FlagCount
       /\ pc[c] \in {"list", "creds", "create"} => want[c] <= highest
       /\ Creating(c) => have[c] < want[c]

OvershootInv ==
  /\ TypeOK /\ Planned
  /\ workers + Cardinality(Pending) <= Cardinality(Controllers) * highest

(* A step after which nobody has more to create than before.               *)
Calm ==
  /\ workers' <= workers
  /\ highest <= highest' /\ (secret' # NoCount => secret' <= highest')
  /\ \A c \in Controllers :
       /\ pc'[c] \in {"store", "put"} => want'[c] = FlagCount
       /\ pc'[c] = "list" => want'[c] <= highest'
       /\ pc'[c] \in {"creds", "create"} =>
            Creating(c) /\ have'[c] = have[c] /\ want'[c] = want[c]

LEMMA HighestIsNat == ASSUME TypeOK PROVE highest \in Nat
  BY TargetsAreNat DEF TypeOK

LEMMA CalmManager ==
  ASSUME TypeOK, Planned, NEW c \in Controllers,
         ManagerStep(c) \/ ManagerFault(c),
         ~ListWorkers(c), ~CreateWorker(c), ~CreateUnanswered(c)
  PROVE  Calm
<1>. USE DEF Calm, Planned, StoredCountBounded, Creating, cluster, history
<1>0. highest \in Nat /\ workers \in Nat
  BY HighestIsNat DEF TypeOK
<1>1. CASE Start(c) \/ EnsureCluster(c) \/ Report(c) \/ Wake(c)
  BY <1>0, <1>1 DEF Start, EnsureCluster, Report, Wake, Goto, TypeOK
<1>2. CASE ReadCount(c)
  BY <1>0, <1>2 DEF ReadCount, Goto, TypeOK
<1>3. CASE StoreRead(c) \/ ReadCreds(c)
  BY <1>0, <1>3 DEF StoreRead, ReadCreds, Goto, TypeOK
<1>4. CASE StorePut(c)
  <2>1. FlagCount <= highest' /\ secret' = FlagCount /\ highest' \in Nat /\ highest <= highest'
    BY <1>4, SetWorkerCountBounds, TargetsAreNat DEF StorePut
  <2>2. want[c] = FlagCount
    BY <1>4 DEF StorePut, Goto
  <2>. QED
    BY <1>0, <1>4, <2>1, <2>2 DEF StorePut, Goto, TypeOK
<1>5. CASE StoreFails(c) \/ CreateConflict(c) \/ Fail(c)
  BY <1>0, <1>5 DEF StoreFails, CreateConflict, Fail, Abort, TypeOK
<1>6. CASE Crash(c)
  BY <1>0, <1>6 DEF Crash, TypeOK
<1>7. CASE ServerFails(c)
  BY <1>0, <1>7 DEF ServerFails, TypeOK
<1>. QED
  BY <1>1, <1>2, <1>3, <1>4, <1>5, <1>6, <1>7 DEF ManagerStep, ManagerFault

LEMMA CalmElsewhere ==
  ASSUME TypeOK, Planned,
         \/ \E r \in Requests : HandlerStep(r) \/ HandlerFault(r)
         \/ \E r \in Requests, c \in Controllers : Client(r, c)
         \/ Tick \/ LoseWorker
         \/ \E n \in Counts : RestoreKey(n)
         \/ UNCHANGED vars
  PROVE  Calm
<1>. USE DEF Calm, Planned, StoredCountBounded, Creating, cluster, process, history
<1>0. highest \in Nat /\ workers \in Nat
  BY HighestIsNat DEF TypeOK
<1>1. ASSUME NEW n \in Targets, NEW w, SetWorkerCount(n, w), UNCHANGED <<workers, process>>
      PROVE  Calm
  <2>1. secret' <= highest' /\ highest' \in Nat /\ highest <= highest'
    BY <1>1, SetWorkerCountBounds
  <2>2. UNCHANGED <<pc, want, have>> /\ workers' <= workers
    BY <1>0, <1>1
  <2>3. \A c \in Controllers : want[c] \in Nat
    BY DEF TypeOK
  <2>4. \A c \in Controllers :
          /\ pc'[c] \in {"store", "put"} => want'[c] = FlagCount
          /\ pc'[c] = "list" => want'[c] <= highest'
    BY <1>0, <2>1, <2>2, <2>3
  <2>. QED
    BY <2>1, <2>2, <2>4
<1>2. ASSUME UNCHANGED <<secret, workers, process, highest>>
      PROVE  Calm
  BY <1>0, <1>2
<1>3. ASSUME NEW r \in Requests, HandlerStep(r) \/ HandlerFault(r)
      PROVE  Calm
  <2>1. CASE ReadExisting(r) \/ RequestFails(r)
    BY <1>2, <2>1 DEF ReadExisting, RequestFails
  <2>2. CASE Update(r) \/ UpdateUnanswered(r)
    <3>1. req[r].count \in Targets
      BY <2>2, TargetsAreNat DEF Update, UpdateUnanswered, TypeOK
    <3>. QED
      BY <1>1, <2>2, <3>1 DEF Update, UpdateUnanswered
  <2>. QED
    BY <1>3, <2>1, <2>2 DEF HandlerStep, HandlerFault
<1>4. ASSUME NEW r \in Requests, NEW c \in Controllers, Client(r, c)
      PROVE  Calm
  BY <1>2, <1>4 DEF Client, Get, Post, PostRejected
<1>5. CASE Tick \/ UNCHANGED vars
  BY <1>2, <1>5 DEF Tick, vars
<1>6. CASE LoseWorker
  BY <1>0, <1>6 DEF LoseWorker
<1>7. ASSUME NEW n \in Counts, RestoreKey(n)
      PROVE  Calm
  BY <1>1, <1>7, TargetsAreNat DEF RestoreKey
<1>. QED
  BY <1>3, <1>4, <1>5, <1>6, <1>7

LEMMA PlansAreFinite ==
  ASSUME IsFiniteSet(Controllers), NEW n \in Nat, NEW S \in SUBSET (Controllers \X (1..n))
  PROVE  IsFiniteSet(S) /\ Cardinality(S) \in Nat
<1>1. IsFiniteSet(1..n)
  BY FS_Interval
<1>2. IsFiniteSet(Controllers \X (1..n))
  BY <1>1, FS_Product
<1>3. IsFiniteSet(S)
  BY <1>2, FS_Subset
<1>. QED
  BY <1>3, FS_CardinalityType

LEMMA CalmKeepsBound ==
  ASSUME IsFiniteSet(Controllers), OvershootInv, Calm, TypeOK'
  PROVE  OvershootInv'
<1>. USE DEF OvershootInv
<1>0. /\ highest \in Nat /\ highest' \in Nat /\ highest <= highest'
      /\ workers \in Nat /\ workers' \in Nat /\ workers' <= workers
  <2>1. highest \in Nat /\ highest' \in Nat
    BY TargetsAreNat DEF TypeOK
  <2>. QED
    BY <2>1 DEF TypeOK, Calm
<1>1. Planned'
  <2>1. \A c \in Controllers : want[c] \in Nat
    BY DEF TypeOK
  <2>. QED
    BY <1>0, <2>1 DEF Planned, Calm, StoredCountBounded, Creating
<1>2. Pending' \subseteq Pending
  <2>. SUFFICES ASSUME NEW p \in Pending' PROVE p \in Pending
    OBVIOUS
  <2>1. /\ p[1] \in Controllers /\ p[2] \in 1..highest' /\ p = <<p[1], p[2]>>
        /\ pc'[p[1]] \in {"creds", "create"}
        /\ have'[p[1]] < p[2] /\ p[2] <= want'[p[1]]
    BY DEF Pending, Plans, Creating
  <2>2. Creating(p[1]) /\ have[p[1]] < p[2] /\ p[2] <= want[p[1]]
    BY <2>1 DEF Calm
  <2>3. want[p[1]] <= highest /\ want[p[1]] \in Nat
    BY <2>1, <2>2 DEF Planned, Creating, TypeOK
  <2>4. p[2] \in 1..highest
    BY <1>0, <2>1, <2>2, <2>3
  <2>. QED
    BY <2>1, <2>2, <2>4 DEF Pending, Plans
<1>3. Pending \subseteq Controllers \X (1..highest)
  BY DEF Pending, Plans
<1>4. IsFiniteSet(Pending) /\ Cardinality(Pending) \in Nat
  BY <1>0, <1>3, PlansAreFinite
<1>5. Cardinality(Pending') \in Nat /\ Cardinality(Pending') <= Cardinality(Pending)
  BY <1>2, <1>4, FS_Subset, FS_CardinalityType
<1>6. Cardinality(Controllers) \in Nat
  BY FS_CardinalityType
<1>7. Cardinality(Controllers) * highest <= Cardinality(Controllers) * highest'
  BY <1>0, <1>6
<1>8. Cardinality(Controllers) * highest \in Nat /\ Cardinality(Controllers) * highest' \in Nat
  BY <1>0, <1>6
<1>9. workers + Cardinality(Pending) <= Cardinality(Controllers) * highest
  OBVIOUS
<1>10. workers' + Cardinality(Pending') <= Cardinality(Controllers) * highest'
  BY <1>0, <1>4, <1>5, <1>7, <1>8, <1>9
<1>. QED
  BY <1>1, <1>10

(* A list starts a plan from the pool there is, or none.                   *)
LEMMA ListKeepsBound ==
  ASSUME IsFiniteSet(Controllers), FitsOnPage, OvershootInv, TypeOK',
         NEW c \in Controllers, ListWorkers(c)
  PROVE  OvershootInv'
<1>. USE DEF OvershootInv, cluster, history
<1>. DEFINE H == highest
            N == Cardinality(Controllers)
            W == want[c]
<1>0. H \in Nat /\ workers \in Nat /\ W \in Nat /\ N \in Nat
  BY HighestIsNat, FS_CardinalityType DEF TypeOK
<1>1. PICK seen \in 0..workers :
        /\ Visible(seen)
        /\ have' = [have EXCEPT ![c] = seen]
        /\ \/ Enough(seen, W) /\ Finish(c)
           \/ ~Enough(seen, W) /\ Goto(c, "list", "creds")
  BY DEF ListWorkers
<1>2. pc[c] = "list" /\ UNCHANGED <<secret, workers, highest, want>>
  BY DEF ListWorkers
<1>3. W <= H
  BY <1>2 DEF Planned
<1>4. \A d \in Controllers : d # c => have'[d] = have[d]
  BY <1>1 DEF TypeOK
<1>5. CASE Enough(seen, W) /\ Finish(c)
  <2>1. pc'[c] \in {"sleep", "cluster"} /\ \A d \in Controllers : d # c => pc'[d] = pc[d]
    BY <1>5 DEF Finish, TypeOK
  <2>2. Calm
    BY <1>0, <1>2, <1>4, <2>1 DEF Calm, Planned, StoredCountBounded, Creating
  <2>. QED
    BY <2>2, CalmKeepsBound
<1>6. CASE ~Enough(seen, W) /\ Goto(c, "list", "creds")
  <2>1. seen < W
    BY <1>0, <1>6 DEF Enough
  <2>2. H + Others <= ListLimit
    BY DEF FitsOnPage, TypeOK
  <2>3. seen = workers
    BY <1>0, <1>1, <1>3, <2>1, <2>2 DEF Visible
  <2>4. pc'[c] = "creds" /\ \A d \in Controllers : d # c => pc'[d] = pc[d]
    BY <1>6 DEF Goto, TypeOK
  <2>5. have'[c] = workers
    BY <1>1, <2>3 DEF TypeOK
  <2>6. Planned'
    <3>1. StoredCountBounded'
      BY <1>2 DEF Planned, StoredCountBounded
    <3>2. have'[c] < want'[c] /\ want'[c] <= highest'
      BY <1>0, <1>2, <1>3, <2>1, <2>3, <2>5
    <3>. QED
      BY <1>2, <1>4, <2>4, <3>1, <3>2 DEF Planned, Creating
  <2>. DEFINE Theirs == (Controllers \ {c}) \X (1..H)
              Mine == {c} \X ((workers + 1)..W)
  <2>7. Pending' \subseteq Theirs \cup Mine
    <3>. SUFFICES ASSUME NEW p \in Pending' PROVE p \in Theirs \cup Mine
      OBVIOUS
    <3>1. /\ p[1] \in Controllers /\ p[2] \in 1..H /\ p = <<p[1], p[2]>>
          /\ have'[p[1]] < p[2] /\ p[2] <= want'[p[1]]
      BY <1>2 DEF Pending, Plans
    <3>2. CASE p[1] # c
      BY <3>1, <3>2
    <3>3. CASE p[1] = c
      <4>1. p[2] \in (workers + 1)..W
        BY <1>0, <1>2, <2>5, <3>1, <3>3
      <4>. QED
        BY <3>1, <3>3, <4>1
    <3>. QED
      BY <3>2, <3>3
  <2>8. IsFiniteSet(Theirs) /\ Cardinality(Theirs) = (N - 1) * H
    <3>1. IsFiniteSet(Controllers \ {c}) /\ Cardinality(Controllers \ {c}) = N - 1
      BY FS_RemoveElement
    <3>2. IsFiniteSet(1..H) /\ Cardinality(1..H) = H
      BY <1>0, FS_Interval
    <3>. QED
      BY <3>1, <3>2, FS_Product
  <2>9. IsFiniteSet(Mine) /\ Cardinality(Mine) = W - workers
    <3>1. IsFiniteSet({c}) /\ Cardinality({c}) = 1
      BY FS_Singleton
    <3>2. /\ IsFiniteSet((workers + 1)..W)
          /\ Cardinality((workers + 1)..W) = W - workers
      <4>1. workers + 1 \in Int /\ W \in Int /\ workers < W
        BY <1>0, <2>1, <2>3
      <4>. HIDE DEF W
      <4>2. /\ IsFiniteSet((workers + 1)..W)
            /\ Cardinality((workers + 1)..W) =
                 IF workers + 1 > W THEN 0 ELSE W - (workers + 1) + 1
        BY <4>1, FS_Interval
      <4>. QED
        BY <1>0, <4>1, <4>2
    <3>3. IsFiniteSet(Mine) /\ Cardinality(Mine) = 1 * (W - workers)
      BY <3>1, <3>2, FS_Product
    <3>. QED
      BY <1>0, <3>3
  <2>. HIDE DEF Theirs, Mine
  <2>10. /\ IsFiniteSet(Theirs \cup Mine)
         /\ Cardinality(Theirs \cup Mine) <= Cardinality(Theirs) + Cardinality(Mine)
    <3>1. IsFiniteSet(Theirs \cap Mine)
      BY <2>8, FS_Subset
    <3>2. Cardinality(Theirs \cap Mine) \in Nat
      BY <3>1, FS_CardinalityType
    <3>3. Cardinality(Theirs) \in Nat /\ Cardinality(Mine) \in Nat
      BY <2>8, <2>9, FS_CardinalityType
    <3>4. /\ IsFiniteSet(Theirs \cup Mine)
          /\ Cardinality(Theirs \cup Mine) =
               Cardinality(Theirs) + Cardinality(Mine) - Cardinality(Theirs \cap Mine)
      BY <2>8, <2>9, FS_Union
    <3>. QED
      BY <3>2, <3>3, <3>4
  <2>11. Cardinality(Pending') \in Nat /\ Cardinality(Theirs \cup Mine) \in Nat
         /\ Cardinality(Pending') <= Cardinality(Theirs \cup Mine)
    BY <2>7, <2>10, FS_Subset, FS_CardinalityType
  <2>12. (N - 1) * H + H = N * H /\ (N - 1) * H \in Int /\ N * H \in Nat
    BY <1>0
  <2>13. workers' + Cardinality(Pending') <= N * H
    <3>. DEFINE M == (N - 1) * H
                T == N * H
                P == Cardinality(Pending')
    <3>1. P <= M + (W - workers) /\ P \in Nat
      BY <1>0, <2>8, <2>9, <2>10, <2>11, <2>12
    <3>2. M + H = T /\ M \in Int /\ T \in Nat
      BY <2>12
    <3>3. workers' = workers
      BY <1>2
    <3>. HIDE DEF M, T, P
    <3>4. workers' + P <= T
      BY <1>0, <1>3, <3>1, <3>2, <3>3
    <3>. QED
      BY <3>4 DEF P, T
  <2>. QED
    BY <1>2, <2>6, <2>13
<1>. QED
  BY <1>1, <1>5, <1>6

(* A creation, answered or not, uses up one pending pair.                  *)
LEMMA CreationKeepsBound ==
  ASSUME IsFiniteSet(Controllers), OvershootInv, TypeOK',
         NEW c \in Controllers, CreateWorker(c) \/ CreateUnanswered(c)
  PROVE  OvershootInv'
<1>. USE DEF OvershootInv, cluster, history
<1>. DEFINE x == <<c, have[c] + 1>>
<1>0. /\ highest \in Nat /\ workers \in Nat /\ have[c] \in Nat /\ want[c] \in Nat
  BY HighestIsNat DEF TypeOK
<1>1. pc[c] = "create" /\ workers' = workers + 1
      /\ UNCHANGED <<secret, want, highest>>
  BY DEF CreateWorker, CreateUnanswered, Abort
<1>2. have[c] < want[c] /\ want[c] <= highest
  BY <1>1 DEF Planned, Creating
<1>3. x \in Pending
  <2>1. have[c] + 1 \in 1..highest /\ have[c] < have[c] + 1 /\ have[c] + 1 <= want[c]
    BY <1>0, <1>2
  <2>. QED
    BY <1>1, <2>1 DEF Pending, Plans, Creating
<1>4. /\ \A d \in Controllers : d # c => pc'[d] = pc[d] /\ have'[d] = have[d]
      /\ \/ pc'[c] \in {"sleep", "cluster", "report", "down"}
         \/ pc'[c] = "create" /\ have'[c] = have[c] + 1 /\ have[c] + 1 < want[c]
  <2>1. CASE CreateWorker(c)
    BY <2>1 DEF CreateWorker, Finish, TypeOK
  <2>2. CASE CreateUnanswered(c)
    BY <2>2 DEF CreateUnanswered, Abort, TypeOK
  <2>. QED
    BY <2>1, <2>2
<1>5. Planned'
  <2>1. StoredCountBounded'
    BY <1>1 DEF Planned, StoredCountBounded
  <2>. QED
    BY <1>1, <1>2, <1>4, <2>1 DEF Planned, Creating
<1>6. Pending' \subseteq Pending \ {x}
  <2>. SUFFICES ASSUME NEW p \in Pending' PROVE p \in Pending \ {x}
    OBVIOUS
  <2>1. /\ p[1] \in Controllers /\ p[2] \in 1..highest /\ p = <<p[1], p[2]>>
        /\ pc'[p[1]] \in {"creds", "create"}
        /\ have'[p[1]] < p[2] /\ p[2] <= want[p[1]]
    BY <1>1 DEF Pending, Plans, Creating
  <2>2. CASE p[1] # c
    <3>1. p \in Pending
      BY <1>4, <2>1, <2>2 DEF Pending, Plans, Creating
    <3>. QED
      BY <2>2, <3>1
  <2>3. CASE p[1] = c
    <3>1. have'[c] = have[c] + 1
      BY <1>4, <2>1, <2>3
    <3>2. have[c] + 1 < p[2] /\ have[c] < p[2] /\ p[2] # have[c] + 1
      BY <1>0, <2>1, <2>3, <3>1
    <3>3. p \in Pending
      BY <1>1, <2>1, <2>3, <3>2 DEF Pending, Plans, Creating
    <3>. QED
      BY <3>2, <3>3
  <2>. QED
    BY <2>2, <2>3
<1>. HIDE DEF x
<1>7. Pending \subseteq Controllers \X (1..highest)
  BY DEF Pending, Plans
<1>8. IsFiniteSet(Pending) /\ Cardinality(Pending) \in Nat
  BY <1>0, <1>7, PlansAreFinite
<1>9. IsFiniteSet(Pending \ {x}) /\ Cardinality(Pending \ {x}) = Cardinality(Pending) - 1
  BY <1>3, <1>8, FS_RemoveElement
<1>10. Cardinality(Pending') \in Nat /\ Cardinality(Pending') <= Cardinality(Pending) - 1
  BY <1>6, <1>9, FS_Subset, FS_CardinalityType
<1>11. Cardinality(Controllers) * highest \in Nat
  BY <1>0, FS_CardinalityType
<1>12. workers + Cardinality(Pending) <= Cardinality(Controllers) * highest
  OBVIOUS
<1>13. workers' + Cardinality(Pending') <= Cardinality(Controllers) * highest'
  BY <1>0, <1>1, <1>8, <1>10, <1>11, <1>12
<1>. QED
  BY <1>5, <1>13

LEMMA OvershootStep ==
  ASSUME IsFiniteSet(Controllers), FitsOnPage
  PROVE  OvershootInv /\ [Next]_vars => OvershootInv'
<1>. SUFFICES ASSUME OvershootInv, [Next]_vars PROVE OvershootInv'
  OBVIOUS
<1>0. TypeOK /\ Planned /\ TypeOK'
  BY TypeStep DEF OvershootInv
<1>1. ASSUME NEW c \in Controllers, ManagerStep(c) \/ ManagerFault(c)
      PROVE  OvershootInv'
  <2>1. CASE ListWorkers(c)
    BY <1>0, <2>1, ListKeepsBound
  <2>2. CASE CreateWorker(c) \/ CreateUnanswered(c)
    BY <1>0, <2>2, CreationKeepsBound
  <2>3. CASE ~ListWorkers(c) /\ ~CreateWorker(c) /\ ~CreateUnanswered(c)
    BY <1>0, <1>1, <2>3, CalmManager, CalmKeepsBound
  <2>. QED
    BY <2>1, <2>2, <2>3
<1>2. CASE \/ \E r \in Requests : HandlerStep(r) \/ HandlerFault(r)
           \/ \E r \in Requests, c \in Controllers : Client(r, c)
           \/ Tick \/ LoseWorker
           \/ \E n \in Counts : RestoreKey(n)
           \/ UNCHANGED vars
  BY <1>0, <1>2, CalmElsewhere, CalmKeepsBound
<1>. QED
  BY <1>1, <1>2 DEF Next

LEMMA OvershootInit ==
  ASSUME IsFiniteSet(Controllers)
  PROVE  Init => OvershootInv
<1>. SUFFICES ASSUME Init PROVE OvershootInv
  OBVIOUS
<1>1. TypeOK
  BY InitType
<1>2. highest \in Nat
  BY <1>1, HighestIsNat
<1>3. \A c \in Controllers : pc[c] = "down"
  BY DEF Init
<1>4. Planned
  BY <1>1, <1>2, <1>3 DEF Init, Planned, StoredCountBounded, Creating, TypeOK
<1>5. Pending = {}
  BY <1>3 DEF Pending, Plans, Creating
<1>6. Cardinality(Pending) = 0 /\ workers = 0
  BY <1>5, FS_EmptySet DEF Init
<1>7. Cardinality(Controllers) * highest \in Nat
  BY <1>2, FS_CardinalityType
<1>. QED
  BY <1>1, <1>4, <1>6, <1>7 DEF OvershootInv

(* Any finite number of controllers without a lock between them makes at    *)
(* most one pool of the largest target each, whatever is interrupted, lost  *)
(* or deleted, if the largest target fits on the listed page.               *)
THEOREM OvershootIsBounded ==
  ASSUME IsFiniteSet(Controllers), FitsOnPage
  PROVE  Spec => []OvershootBounded
<1>1. Init => OvershootInv
  BY OvershootInit
<1>2. OvershootInv /\ [Next]_vars => OvershootInv'
  BY OvershootStep
<1>3. OvershootInv => OvershootBounded
  <2>. SUFFICES ASSUME OvershootInv PROVE OvershootBounded
    OBVIOUS
  <2>1. highest \in Nat /\ workers \in Nat
    BY HighestIsNat DEF OvershootInv, TypeOK
  <2>2. Pending \subseteq Controllers \X (1..highest)
    BY DEF Pending, Plans
  <2>3. Cardinality(Pending) \in Nat
    BY <2>1, <2>2, PlansAreFinite
  <2>4. Cardinality(Controllers) * highest \in Nat
    BY <2>1, FS_CardinalityType
  <2>. QED
    BY <2>1, <2>3, <2>4 DEF OvershootInv, OvershootBounded
<1>. QED
  BY <1>1, <1>2, <1>3, PTL DEF Spec

----------------------------------------------------------------------------
(***************************************************************************)
(* The refinement of WorkerPool: writes of the secret are SetTarget,       *)
(* creations are Grow, lost workers are Shrink, the rest stutters.  A      *)
(* controller that creates still has a pair in Pending, so the pool is not *)
(* yet one pool of the largest target for each controller.                 *)
(***************************************************************************)
LEMMA CreationBelowBound ==
  ASSUME IsFiniteSet(Controllers), OvershootInv,
         NEW c \in Controllers, pc[c] = "create"
  PROVE  workers < Cardinality(Controllers) * highest
<1>1. /\ highest \in Nat /\ workers \in Nat /\ have[c] \in Nat /\ want[c] \in Nat
  BY HighestIsNat DEF OvershootInv, TypeOK
<1>2. have[c] < want[c] /\ want[c] <= highest
  BY DEF OvershootInv, Planned, Creating
<1>3. <<c, have[c] + 1>> \in Pending
  BY <1>1, <1>2 DEF Pending, Plans, Creating
<1>4. Pending \subseteq Controllers \X (1..highest)
  BY DEF Pending, Plans
<1>5. IsFiniteSet(Pending) /\ Cardinality(Pending) \in Nat
  BY <1>1, <1>4, PlansAreFinite
<1>6. Cardinality(Pending) # 0
  BY <1>3, <1>5, FS_EmptySet
<1>7. Cardinality(Controllers) * highest \in Nat
  BY <1>1, FS_CardinalityType
<1>. QED
  BY <1>1, <1>5, <1>6, <1>7 DEF OvershootInv

LEMMA SetIsSet ==
  ASSUME NEW n \in Targets, NEW w, SetWorkerCount(n, w), UNCHANGED workers
  PROVE  Pool!SetTarget(n)
  BY DEF SetWorkerCount, Larger, Pool!SetTarget, Pool!Larger

LEMMA RefinesInit == Init => Pool!Init
  BY DEF Init, Pool!Init, Targets

LEMMA RefinesStep ==
  ASSUME IsFiniteSet(Controllers)
  PROVE  OvershootInv /\ [Next]_vars => [Pool!Next]_(Pool!vars)
<1>. SUFFICES ASSUME OvershootInv, [Next]_vars PROVE [Pool!Next]_(Pool!vars)
  OBVIOUS
<1>1. ASSUME NEW c \in Controllers, Start(c) PROVE [Pool!Next]_(Pool!vars)
  BY <1>1 DEF Start, cluster, history, Pool!vars
<1>2. ASSUME NEW c \in Controllers, EnsureCluster(c) PROVE [Pool!Next]_(Pool!vars)
  BY <1>2 DEF EnsureCluster, cluster, history, Pool!vars
<1>3. ASSUME NEW c \in Controllers, ReadCount(c) PROVE [Pool!Next]_(Pool!vars)
  BY <1>3 DEF ReadCount, cluster, history, Pool!vars
<1>4. ASSUME NEW c \in Controllers, StoreRead(c) PROVE [Pool!Next]_(Pool!vars)
  BY <1>4 DEF StoreRead, cluster, history, Pool!vars
<1>5. ASSUME NEW c \in Controllers, StoreFails(c) PROVE [Pool!Next]_(Pool!vars)
  BY <1>5 DEF StoreFails, cluster, history, Pool!vars
<1>6. ASSUME NEW c \in Controllers, StorePut(c) PROVE [Pool!Next]_(Pool!vars)
  BY <1>6, SetIsSet, TargetsAreNat DEF StorePut, Pool!Next
<1>7. ASSUME NEW c \in Controllers, ListWorkers(c) PROVE [Pool!Next]_(Pool!vars)
  BY <1>7 DEF ListWorkers, cluster, history, Pool!vars
<1>8. ASSUME NEW c \in Controllers, ReadCreds(c) PROVE [Pool!Next]_(Pool!vars)
  BY <1>8 DEF ReadCreds, cluster, history, Pool!vars
<1>9. ASSUME NEW c \in Controllers, CreateWorker(c) PROVE [Pool!Next]_(Pool!vars)
  <2>1. workers < Cardinality(Controllers) * highest
    BY <1>9, CreationBelowBound DEF CreateWorker
  <2>. QED
    BY <1>9, <2>1 DEF CreateWorker, history, Pool!Next, Pool!Grow
<1>10. ASSUME NEW c \in Controllers, Report(c) PROVE [Pool!Next]_(Pool!vars)
  BY <1>10 DEF Report, cluster, history, Pool!vars
<1>11. ASSUME NEW c \in Controllers, Wake(c) PROVE [Pool!Next]_(Pool!vars)
  BY <1>11 DEF Wake, cluster, history, Pool!vars
<1>12. ASSUME NEW c \in Controllers, CreateConflict(c) PROVE [Pool!Next]_(Pool!vars)
  BY <1>12 DEF CreateConflict, cluster, history, Pool!vars
<1>13. ASSUME NEW c \in Controllers, CreateUnanswered(c) PROVE [Pool!Next]_(Pool!vars)
  <2>1. workers < Cardinality(Controllers) * highest
    BY <1>13, CreationBelowBound DEF CreateUnanswered
  <2>. QED
    BY <1>13, <2>1 DEF CreateUnanswered, history, Pool!Next, Pool!Grow
<1>14. ASSUME NEW c \in Controllers, Fail(c) PROVE [Pool!Next]_(Pool!vars)
  BY <1>14 DEF Fail, cluster, history, Pool!vars
<1>15. ASSUME NEW c \in Controllers, Crash(c) PROVE [Pool!Next]_(Pool!vars)
  BY <1>15 DEF Crash, cluster, history, Pool!vars
<1>16. ASSUME NEW c \in Controllers, ServerFails(c) PROVE [Pool!Next]_(Pool!vars)
  BY <1>16 DEF ServerFails, cluster, history, Pool!vars
<1>17. ASSUME NEW r \in Requests, ReadExisting(r) PROVE [Pool!Next]_(Pool!vars)
  BY <1>17 DEF ReadExisting, cluster, history, Pool!vars
<1>18. ASSUME NEW r \in Requests, Update(r) PROVE [Pool!Next]_(Pool!vars)
  BY <1>18, SetIsSet, TargetsAreNat DEF Update, OvershootInv, TypeOK, Pool!Next
<1>19. ASSUME NEW r \in Requests, RequestFails(r) PROVE [Pool!Next]_(Pool!vars)
  BY <1>19 DEF RequestFails, cluster, history, Pool!vars
<1>20. ASSUME NEW r \in Requests, UpdateUnanswered(r) PROVE [Pool!Next]_(Pool!vars)
  BY <1>20, SetIsSet, TargetsAreNat
  DEF UpdateUnanswered, OvershootInv, TypeOK, Pool!Next
<1>21. ASSUME NEW r \in Requests, NEW c \in Controllers, Get(r, c) PROVE [Pool!Next]_(Pool!vars)
  BY <1>21 DEF Get, cluster, history, Pool!vars
<1>22. ASSUME NEW r \in Requests, NEW c \in Controllers, PostRejected(r, c) PROVE [Pool!Next]_(Pool!vars)
  BY <1>22 DEF PostRejected, cluster, history, Pool!vars
<1>23. ASSUME NEW r \in Requests, NEW c \in Controllers, NEW n \in Counts, Post(r, c, n)
      PROVE [Pool!Next]_(Pool!vars)
  BY <1>23 DEF Post, cluster, history, Pool!vars
<1>24. CASE Tick
  BY <1>24 DEF Tick, cluster, history, Pool!vars
<1>25. CASE LoseWorker
  BY <1>25 DEF LoseWorker, history, Pool!Next, Pool!Shrink
<1>26. ASSUME NEW n \in Counts, RestoreKey(n) PROVE [Pool!Next]_(Pool!vars)
  BY <1>26, SetIsSet, TargetsAreNat DEF RestoreKey, Pool!Next
<1>27. CASE UNCHANGED vars
  BY <1>27 DEF vars, cluster, history, Pool!vars
<1>. QED
  BY <1>1, <1>2, <1>3, <1>4, <1>5, <1>6, <1>7, <1>8, <1>9, <1>10,
     <1>11, <1>12, <1>13, <1>14, <1>15, <1>16, <1>17, <1>18, <1>19,
     <1>20, <1>21, <1>22, <1>23, <1>24, <1>25, <1>26, <1>27
  DEF Next, ManagerStep, ManagerFault, HandlerStep, HandlerFault, Client

(* EnsureWorkerNodes, the control loops of finitely many controllers and   *)
(* the REST handlers implement an atomic target register and a pool that   *)
(* grows only below one pool of the largest target for each controller, if *)
(* the largest target fits on the listed page.                             *)
THEOREM ImplementsWorkerPool ==
  ASSUME IsFiniteSet(Controllers), FitsOnPage
  PROVE  Spec => ImplementsPool
<1>1. Init => OvershootInv
  BY OvershootInit
<1>2. OvershootInv /\ [Next]_vars => OvershootInv'
  BY OvershootStep
<1>3. Init => Pool!Init
  BY RefinesInit
<1>4. OvershootInv /\ [Next]_vars => [Pool!Next]_(Pool!vars)
  BY RefinesStep
<1>. QED
  BY <1>1, <1>2, <1>3, <1>4, PTL DEF Spec, ImplementsPool, Pool!Spec

================================================================================
