----------------------------- MODULE WorkerScaling -----------------------------
(***************************************************************************)
(* The worker side of oxide-controller on a cluster that already exists:   *)
(* the process started by cmd/root.go with --no-pivot, its first Execute,  *)
(* the control loop and the REST server that run after it, the count kept  *)
(* in the Kubernetes secret and the worker instances kept by Oxide.        *)
(*                                                                         *)
(* One step is one call that another process can observe: a read of the    *)
(* secret, a write of the secret, an instance list, an instance creation.  *)
(* EnsureCluster stands for ensureClusterExists and the project and image  *)
(* checks before it, which read but never write what this module keeps.    *)
(***************************************************************************)
EXTENDS Integers, FiniteSets

CONSTANTS
  Controllers,   \* processes run with --no-pivot (the chart runs one)
  InCluster,     \* those of them that run as a pod of the cluster
  Requests,      \* the REST requests of one behaviour
  NoRequest,     \* not a request
  Counts,        \* the counts a request asks for
  FlagCount,     \* --worker-count
  InitTargets,   \* what the secret may hold at first: counts, or NoCount
  NoCount,       \* the secret has no controller configuration
  Others,        \* instances of the project that are not workers
  ListLimit,     \* the Limit of InstanceList (32 in the code)
  Allowed        \* how many faults of each kind one behaviour may have

FaultKinds == {"failure", "conflict", "crash", "loss", "server"}

Targets == Counts \cup {FlagCount} \cup (InitTargets \ {NoCount})

ASSUME CountsAssumption ==
  /\ Counts \subseteq Nat
  /\ FlagCount \in Nat
  /\ InitTargets \subseteq Nat \cup {NoCount}
  /\ NoCount \notin Nat

ASSUME PageAssumption == Others \in Nat /\ ListLimit \in Nat

ASSUME ProcessAssumption ==
  InCluster \subseteq Controllers /\ NoRequest \notin Requests

ASSUME FaultAssumption == Allowed \in [FaultKinds -> Nat]

VARIABLES
  secret,        \* the worker count in the secret, or NoCount
  workers,       \* the number of worker instances
  stamped,       \* some worker is named after the current second
  pc,            \* where each controller's manager goroutine is
  want,          \* EnsureWorkerNodes: count
  have,          \* EnsureWorkerNodes: the loop variable i
  looping,       \* the first Execute has succeeded
  serving,       \* the REST server accepts connections
  errCh,         \* the number of errors in errCh
  req,           \* each request's handler
  window,        \* history: targets current between a request's arrival and its read
  highest,       \* history: the largest target so far
  latest,        \* history: the last request that wrote the target
  faults         \* the faults so far

cluster == <<secret, workers, stamped>>
process == <<pc, want, have, looping, serving, errCh>>
history == <<window, highest, latest>>
vars == <<cluster, process, req, history, faults>>

(* Mutant: room for one error only.                                         *)
OneErrorCap == 1

ErrCap == 2      \* make(chan error, 2)

Executing == {"cluster", "count", "store", "put", "list", "creds", "create"}
ManagerPCs == Executing \cup {"down", "report", "sleep"}
HandlerPCs == {"idle", "read", "update", "answered", "failed", "rejected"}
Handling(r) == req[r].pc \in {"read", "update"}

Larger(m, n) == IF m >= n THEN m ELSE n

Handlers == [pc : HandlerPCs, at : Controllers \cup {NoRequest},
             count : Counts \cup {NoCount}, existing : Targets \cup {NoCount}]

Idle == [pc |-> "idle", at |-> NoRequest, count |-> NoCount, existing |-> NoCount]

TypeOK ==
  /\ secret \in Targets \cup {NoCount}
  /\ workers \in Nat
  /\ stamped \in BOOLEAN
  /\ pc \in [Controllers -> ManagerPCs]
  /\ want \in [Controllers -> Nat]
  /\ have \in [Controllers -> Nat]
  /\ looping \in [Controllers -> BOOLEAN]
  /\ serving \in [Controllers -> BOOLEAN]
  /\ errCh \in [Controllers -> 0..ErrCap]
  /\ req \in [Requests -> Handlers]
  /\ \A r \in Requests : req[r].pc = "update" => req[r].count \in Counts
  /\ window \in [Requests -> SUBSET (Targets \cup {NoCount})]
  /\ highest \in Targets \cup {0}
  /\ latest \in Requests \cup {NoRequest}
  /\ faults \in [FaultKinds -> Nat]

Init ==
  /\ secret \in InitTargets
  /\ workers = 0
  /\ stamped = FALSE
  /\ pc = [c \in Controllers |-> "down"]
  /\ want = [c \in Controllers |-> 0]
  /\ have = [c \in Controllers |-> 0]
  /\ looping = [c \in Controllers |-> FALSE]
  /\ serving = [c \in Controllers |-> FALSE]
  /\ errCh = [c \in Controllers |-> 0]
  /\ req = [r \in Requests |-> Idle]
  /\ window = [r \in Requests |-> {}]
  /\ highest = IF secret = NoCount THEN 0 ELSE secret
  /\ latest = NoRequest
  /\ faults = [k \in FaultKinds |-> 0]

Charge(kind) ==
  /\ faults[kind] < Allowed[kind]
  /\ faults' = [faults EXCEPT ![kind] = @ + 1]

(***************************************************************************)
(* SetWorkerCount reads the whole configuration, replaces the count and    *)
(* writes the whole configuration back with an Update that carries no      *)
(* resource version: the last writer wins.  Only the count ever differs,   *)
(* so the write is modelled as a write of the count.                       *)
(***************************************************************************)
SetWorkerCount(n, writer) ==
  /\ secret' = n
  /\ highest' = Larger(highest, n)
  /\ latest' = IF writer \in Requests THEN writer ELSE latest
  /\ window' = [r \in Requests |->
                  IF req[r].pc = "read" THEN window[r] \cup {n} ELSE window[r]]

----------------------------------------------------------------------------
(***************************************************************************)
(* The manager goroutine.  Goto moves it inside Execute.                   *)
(***************************************************************************)
Goto(c, from, to) ==
  /\ pc[c] = from
  /\ pc' = [pc EXCEPT ![c] = to]

(* A pod without a readable configuration exits at once.                   *)
Start(c) ==
  /\ c \in InCluster => secret # NoCount
  /\ Goto(c, "down", "cluster")
  /\ UNCHANGED <<cluster, want, have, looping, serving, errCh, req, history, faults>>

(***************************************************************************)
(* Execute has returned without error: the first one starts the loop,      *)
(* which executes again at once, and the server; a later one sleeps.       *)
(***************************************************************************)
Finish(c) ==
  /\ pc' = [pc EXCEPT ![c] = IF looping[c] THEN "sleep" ELSE "cluster"]
  /\ looping' = [looping EXCEPT ![c] = TRUE]
  /\ serving' = IF looping[c] THEN serving ELSE [serving EXCEPT ![c] = TRUE]

(* Execute has returned an error: it ends the process, or is reported.     *)
Abort(c) ==
  /\ pc' = [pc EXCEPT ![c] = IF looping[c] THEN "report" ELSE "down"]
  /\ UNCHANGED <<want, have, looping, serving, errCh>>

EnsureCluster(c) ==
  /\ Goto(c, "cluster", "count")
  /\ UNCHANGED <<cluster, want, have, looping, serving, errCh, req, history, faults>>

(* Mutant: any failure of GetWorkerCount falls back to the flag.            *)
ReadCountOrFlag(c) ==
  /\ \/ /\ secret # NoCount
        /\ Goto(c, "count", "list")
        /\ want' = [want EXCEPT ![c] = secret]
     \/ /\ Goto(c, "count", "store")
        /\ want' = [want EXCEPT ![c] = FlagCount]
  /\ UNCHANGED <<cluster, have, looping, serving, errCh, req, history, faults>>

(* GetWorkerCount: the stored count, or the way to the --worker-count flag. *)
ReadCount(c) ==
  /\ \/ /\ secret # NoCount
        /\ Goto(c, "count", "list")
        /\ want' = [want EXCEPT ![c] = secret]
     \/ /\ secret = NoCount
        /\ Goto(c, "count", "store")
        /\ want' = [want EXCEPT ![c] = FlagCount]
  /\ UNCHANGED <<cluster, have, looping, serving, errCh, req, history, faults>>

(* The GetSecretConfig at the head of SetWorkerCount needs the same key.   *)
StoreRead(c) ==
  /\ secret # NoCount
  /\ Goto(c, "store", "put")
  /\ UNCHANGED <<cluster, want, have, looping, serving, errCh, req, history, faults>>

StoreFails(c) ==
  /\ pc[c] = "store"
  /\ secret = NoCount
  /\ Abort(c)
  /\ UNCHANGED <<cluster, req, history, faults>>

StorePut(c) ==
  /\ Goto(c, "put", "list")
  /\ SetWorkerCount(FlagCount, NoRequest)
  /\ UNCHANGED <<workers, stamped, want, have, looping, serving, errCh, req, faults>>

(***************************************************************************)
(* getNodesOxide asks for one page of instances of every kind and counts   *)
(* the workers on it.                                                      *)
(***************************************************************************)
Visible(n) ==
  IF workers + Others <= ListLimit
    THEN n = workers
    ELSE n \in 0..workers /\ n <= ListLimit /\ n + Others >= ListLimit

(* Mutant: as many workers as wanted are not yet enough.                    *)
MoreThanEnough(seen, n) == seen > n

Enough(seen, n) == seen >= n

ListWorkers(c) ==
  /\ pc[c] = "list"
  /\ \E seen \in 0..workers :
       /\ Visible(seen)
       /\ have' = [have EXCEPT ![c] = seen]
       /\ \/ Enough(seen, want[c]) /\ Finish(c)
          \/ /\ ~Enough(seen, want[c])
             /\ Goto(c, "list", "creds")
             /\ UNCHANGED <<looping, serving>>
  /\ UNCHANGED <<cluster, want, errCh, req, history, faults>>

(* GetJoinToken and GetUserSSHPublicKey.                                   *)
ReadCreds(c) ==
  /\ Goto(c, "creds", "create")
  /\ UNCHANGED <<cluster, want, have, looping, serving, errCh, req, history, faults>>

(* Mutant: the loop runs to the wanted count and once more.                 *)
CreateOneMore(c) ==
  /\ pc[c] = "create"
  /\ ~stamped
  /\ workers' = workers + 1
  /\ stamped' = TRUE
  /\ have' = [have EXCEPT ![c] = @ + 1]
  /\ IF have[c] < want[c]
       THEN UNCHANGED <<pc, looping, serving>>
       ELSE Finish(c)
  /\ UNCHANGED <<secret, want, errCh, req, history, faults>>

(***************************************************************************)
(* One turn of the creation loop.  The name is the prefix and the Unix     *)
(* time: a second creation in the same second is refused by Oxide.         *)
(***************************************************************************)
CreateWorker(c) ==
  /\ pc[c] = "create"
  /\ ~stamped
  /\ workers' = workers + 1
  /\ stamped' = TRUE
  /\ have' = [have EXCEPT ![c] = @ + 1]
  /\ IF have[c] + 1 < want[c]
       THEN UNCHANGED <<pc, looping, serving>>
       ELSE Finish(c)
  /\ UNCHANGED <<secret, want, errCh, req, history, faults>>

CreateConflict(c) ==
  /\ pc[c] = "create"
  /\ stamped
  /\ Charge("conflict")
  /\ Abort(c)
  /\ UNCHANGED <<cluster, req, history>>

(* The instance was created and the answer was lost.                       *)
CreateUnanswered(c) ==
  /\ pc[c] = "create"
  /\ ~stamped
  /\ Charge("failure")
  /\ workers' = workers + 1
  /\ stamped' = TRUE
  /\ Abort(c)
  /\ UNCHANGED <<secret, req, history>>

(* Any call of Execute may fail without effect.                            *)
Fail(c) ==
  /\ pc[c] \in Executing
  /\ Charge("failure")
  /\ Abort(c)
  /\ UNCHANGED <<cluster, req, history>>

(* Mutant: the channel takes every error.                                   *)
ReportUnbounded(c) ==
  /\ Goto(c, "report", "sleep")
  /\ errCh' = [errCh EXCEPT ![c] = @ + 1]
  /\ UNCHANGED <<cluster, want, have, looping, serving, req, history, faults>>

(* errCh <- err: nobody receives, so the send needs a free slot.           *)
Report(c) ==
  /\ errCh[c] < ErrCap
  /\ Goto(c, "report", "sleep")
  /\ errCh' = [errCh EXCEPT ![c] = @ + 1]
  /\ UNCHANGED <<cluster, want, have, looping, serving, req, history, faults>>

(* time.Sleep(controlLoopSleep) returns.                                   *)
Wake(c) ==
  /\ Goto(c, "sleep", "cluster")
  /\ UNCHANGED <<cluster, want, have, looping, serving, errCh, req, history, faults>>

----------------------------------------------------------------------------
(***************************************************************************)
(* The handlers of the REST server, one goroutine per request.  A body     *)
(* that is not a number, is negative or exceeds 32 bits is refused before  *)
(* anything is read.  A GET is a request without a count.                  *)
(***************************************************************************)
Post(r, c, n) ==
  /\ serving[c]
  /\ req[r].pc = "idle"
  /\ req' = [req EXCEPT ![r] = [Idle EXCEPT !.pc = "read", !.at = c, !.count = n]]
  /\ window' = [window EXCEPT ![r] = {secret}]
  /\ UNCHANGED <<cluster, process, highest, latest, faults>>

Get(r, c) ==
  /\ serving[c]
  /\ req[r].pc = "idle"
  /\ req' = [req EXCEPT ![r] = [Idle EXCEPT !.pc = "read", !.at = c]]
  /\ window' = [window EXCEPT ![r] = {secret}]
  /\ UNCHANGED <<cluster, process, highest, latest, faults>>

PostRejected(r, c) ==
  /\ serving[c]
  /\ req[r].pc = "idle"
  /\ req' = [req EXCEPT ![r].pc = "rejected"]
  /\ UNCHANGED <<cluster, process, history, faults>>

(* Mutant: the handler reports the count of its own configuration.          *)
ReadConfigured(r) ==
  /\ req[r].pc = "read"
  /\ req' = [req EXCEPT
               ![r].existing = FlagCount,
               ![r].pc = IF secret = NoCount THEN "failed"
                         ELSE IF req[r].count = NoCount THEN "answered" ELSE "update"]
  /\ UNCHANGED <<cluster, process, history, faults>>

(* GetWorkerCount in a handler: any error is answered with a 500.          *)
ReadExisting(r) ==
  /\ req[r].pc = "read"
  /\ req' = [req EXCEPT
               ![r].existing = secret,
               ![r].pc = IF secret = NoCount THEN "failed"
                         ELSE IF req[r].count = NoCount THEN "answered" ELSE "update"]
  /\ UNCHANGED <<cluster, process, history, faults>>

Update(r) ==
  /\ req[r].pc = "update"
  /\ SetWorkerCount(req[r].count, r)
  /\ req' = [req EXCEPT ![r].pc = "answered"]
  /\ UNCHANGED <<workers, stamped, process, faults>>

RequestFails(r) ==
  /\ Handling(r)
  /\ Charge("failure")
  /\ req' = [req EXCEPT ![r].pc = "failed"]
  /\ UNCHANGED <<cluster, process, history>>

(* The write took effect and its answer was lost: the client gets a 500.   *)
UpdateUnanswered(r) ==
  /\ req[r].pc = "update"
  /\ Charge("failure")
  /\ SetWorkerCount(req[r].count, r)
  /\ req' = [req EXCEPT ![r].pc = "failed"]
  /\ UNCHANGED <<workers, stamped, process>>

----------------------------------------------------------------------------
(***************************************************************************)
(* What happens to a process, and around it.                               *)
(***************************************************************************)
Crash(c) ==
  /\ pc[c] # "down"
  /\ Charge("crash")
  /\ pc' = [pc EXCEPT ![c] = "down"]
  /\ looping' = [looping EXCEPT ![c] = FALSE]
  /\ serving' = [serving EXCEPT ![c] = FALSE]
  /\ errCh' = [errCh EXCEPT ![c] = 0]
  /\ req' = [r \in Requests |->
               IF Handling(r) /\ req[r].at = c THEN [req[r] EXCEPT !.pc = "failed"]
                                               ELSE req[r]]
  /\ UNCHANGED <<cluster, want, have, history>>

(* ListenAndServe returns; its error goes to errCh and the manager goes on. *)
ServerFails(c) ==
  /\ serving[c]
  /\ Charge("server")
  /\ serving' = [serving EXCEPT ![c] = FALSE]
  /\ errCh' = [errCh EXCEPT ![c] = IF @ < ErrCap THEN @ + 1 ELSE @]
  /\ UNCHANGED <<cluster, pc, want, have, looping, req, history>>

Tick ==
  /\ stamped
  /\ stamped' = FALSE
  /\ UNCHANGED <<secret, workers, process, req, history, faults>>

(* Somebody deletes a worker instance (never in the second it was created). *)
LoseWorker ==
  /\ workers > 0
  /\ Charge("loss")
  /\ workers' = workers - 1
  /\ UNCHANGED <<secret, stamped, process, req, history>>

(* Somebody writes the missing configuration.                              *)
RestoreKey(n) ==
  /\ secret = NoCount
  /\ SetWorkerCount(n, NoRequest)
  /\ UNCHANGED <<workers, stamped, process, req, faults>>

----------------------------------------------------------------------------
ManagerStep(c) ==
  \/ Start(c)
  \/ EnsureCluster(c)
  \/ ReadCount(c)
  \/ StoreRead(c)
  \/ StoreFails(c)
  \/ StorePut(c)
  \/ ListWorkers(c)
  \/ ReadCreds(c)
  \/ CreateWorker(c)
  \/ Report(c)
  \/ Wake(c)

HandlerStep(r) == ReadExisting(r) \/ Update(r)

ManagerFault(c) ==
  CreateConflict(c) \/ CreateUnanswered(c) \/ Fail(c) \/ Crash(c) \/ ServerFails(c)

HandlerFault(r) == RequestFails(r) \/ UpdateUnanswered(r)

Client(r, c) == Get(r, c) \/ PostRejected(r, c) \/ \E n \in Counts : Post(r, c, n)

Next ==
  \/ \E c \in Controllers : ManagerStep(c) \/ ManagerFault(c)
  \/ \E r \in Requests : HandlerStep(r) \/ HandlerFault(r)
  \/ \E r \in Requests, c \in Controllers : Client(r, c)
  \/ Tick
  \/ LoseWorker
  \/ \E n \in Counts : RestoreKey(n)

Spec == Init /\ [][Next]_vars

(***************************************************************************)
(* Go schedules every runnable goroutine, sleeps end, seconds pass, and    *)
(* the StatefulSet restarts a pod that exited.  Nothing obliges a client   *)
(* to send a request or a fault to happen.                                 *)
(***************************************************************************)
Fairness ==
  /\ \A c \in Controllers : WF_vars(ManagerStep(c))
  /\ \A r \in Requests : WF_vars(HandlerStep(r))
  /\ WF_vars(Tick)

FairSpec == Spec /\ Fairness
----------------------------------------------------------------------------
(* No controller creates a worker beyond the largest target anybody has     *)
(* recorded, whatever stale count EnsureWorkerNodes works with (one         *)
(* controller, every instance on the listed page).                          *)
PoolWithinTargets == workers <= highest

(* With several controllers each of them can list before the others create: *)
(* the pool may exceed the target, but by no more than one full pool per    *)
(* extra controller, because EnsureWorkerNodes lists once per Execute.      *)
OvershootBounded == workers <= Cardinality(Controllers) * highest

(* The count a GET answers, and the "from" of a POST's answer, was the       *)
(* recorded target at some moment between the arrival of the request and    *)
(* its read: handlers never answer from the configuration in memory.        *)
ReportedCountWasCurrent ==
  \A r \in Requests :
    req[r].pc \in {"update", "answered"} =>
      req[r].existing \in window[r] \ {NoCount}

(* Once a POST has written its count, the target stays that count until     *)
(* another request writes one: neither a crash, a restart with another      *)
(* --worker-count, nor a pass of the control loop takes it back.            *)
AcceptedCountKept ==
  \A r \in Requests : latest = r => secret = req[r].count

(* A created pool is as large as the target in the end: no finite number of *)
(* crashes, lost workers and failed calls that errCh can hold stops the     *)
(* control loop from reaching the recorded count.                           *)
TargetEventuallyMet == <>[](secret # NoCount => workers >= secret)

(* The target is an atomic register and the pool grows only below the       *)
(* largest target for each controller: EnsureWorkerNodes, which lists once  *)
(* and creates many times, and the REST handlers, which read and then       *)
(* write, together implement WorkerPool.                                    *)
Pool == INSTANCE WorkerPool
          WITH NoTarget <- NoCount, target <- secret, pool <- workers,
               Managers <- Cardinality(Controllers)

ImplementsPool == Pool!Spec

----------------------------------------------------------------------------
(***************************************************************************)
(* The invariants the proofs use.  One manager, with every instance on the *)
(* page it lists, works with a count that is at most the largest target    *)
(* and with a number of workers that is at least the pool.                 *)
(***************************************************************************)
OneManager == \A c, d \in Controllers : c = d

FitsOnPage == \A n \in Targets \cup {0} : n + Others <= ListLimit

StoredCountBounded == secret # NoCount => secret <= highest

PassBounded ==
  \A c \in Controllers :
    /\ pc[c] \in {"store", "put"} => want[c] = FlagCount
    /\ pc[c] \in {"list", "creds", "create"} => want[c] <= highest
    /\ pc[c] \in {"creds", "create"} => workers <= have[c] /\ have[c] < want[c]

PoolInv == TypeOK /\ StoredCountBounded /\ PoolWithinTargets /\ PassBounded

(* The target a handler is about to read is in its window.                 *)
ReportedInv ==
  /\ TypeOK
  /\ \A r \in Requests : req[r].pc = "read" => secret \in window[r]
  /\ ReportedCountWasCurrent

(* A request is served only by a process whose first pass found or stored  *)
(* a count, so its write never meets a fallback in progress.               *)
ServedAfterFirstPass ==
  /\ \A c \in Controllers : serving[c] => looping[c]
  /\ \A c \in Controllers :
       looping[c] => secret # NoCount /\ pc[c] \notin {"store", "put"}
  /\ \A r \in Requests : Handling(r) => req[r].at \in Controllers /\ looping[req[r].at]

CountKnown ==
  /\ \A c \in Controllers :
       /\ pc[c] \in {"put", "list", "creds", "create"} => secret # NoCount
       /\ pc[c] \in {"store", "put"} => latest = NoRequest
  /\ latest # NoRequest => secret # NoCount
  /\ \A r \in Requests : latest = r => req[r].pc \in {"answered", "failed"}

AcceptedInv == TypeOK /\ ServedAfterFirstPass /\ CountKnown /\ AcceptedCountKept
================================================================================
