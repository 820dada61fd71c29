----------------------------- MODULE Controller -----------------------------
(***************************************************************************)
(* The replicas of the operator process and what controller-runtime gives  *)
(* each of them: the informer caches every Get of a reconciler reads, one  *)
(* workqueue and one worker per controller, the retry of a reconcile that  *)
(* returned an error, and leader election.  What is watched comes from     *)
(* SetupWithManager of the two controllers and from main.go.               *)
(***************************************************************************)
EXTENDS Cluster

CONSTANTS
  Replicas,        \* replicas of the operator Deployment
  LeaderElection,  \* TRUE if the manager runs with --leader-elect
  NoKey,           \* the key of an idle worker
  MaxRestarts,     \* bound: exits of an operator process
  MaxFaults        \* bound: API requests that fail or whose answer is lost

ASSUME ControllerAssumption ==
  /\ LeaderElection \in BOOLEAN
  /\ NoKey \notin Services
  /\ MaxRestarts \in Nat
  /\ MaxFaults \in Nat

VARIABLES
  running,   \* running[r]: replica r runs the controllers
  svcCache,  \* svcCache[r], podCache[r], epsCache[r]: the informer caches
  podCache,
  epsCache,
  queue,     \* queue[r][k]: keys waiting in the workqueue of controller k
  work,      \* work[r][k]: the reconcile in progress in controller k
  handled,   \* history: the Service version of the last reconcile without error
  restarts,
  faults

controllerVars == <<running, svcCache, podCache, epsCache, queue, work,
                    handled, restarts, faults>>

cacheVars == <<svcCache, podCache, epsCache>>

\* Program counter of a reconcile: the API call it makes next.
ReadSteps  == {"ensure", "endpoints", "getEndpoints", "cleanup"}
WriteSteps == {"create", "createEndpoints", "updateEndpoints", "delete"}

Idle == [at |-> "idle", key |-> NoKey, svc |-> NoService, pod |-> 0,
         eps |-> NoEndpoints(0)]

\* A reconcile of key s that has read Service version v.
Begin(s, v) == [at |-> "idle", key |-> s, svc |-> v, pod |-> 0, eps |-> NoEndpoints(0)]

\* svc, pod and eps are what the reconcile has read and still holds.
Work ==
  [at : {"idle"} \cup ReadSteps \cup WriteSteps, key : Services \cup {NoKey},
   svc : ServiceVersion, pod : Nat, eps : EndpointsObject]

ControllerTypeOK ==
  /\ running \in [Replicas -> BOOLEAN]
  /\ svcCache \in [Replicas -> [Services -> ServiceVersion]]
  /\ podCache \in [Replicas -> [Kinds -> [Services -> PodObject]]]
  /\ epsCache \in [Replicas -> [Services -> EndpointsObject]]
  /\ queue \in [Replicas -> [Kinds -> SUBSET Services]]
  /\ work \in [Replicas -> [Kinds -> Work]]
  /\ \A r \in Replicas, k \in Kinds :
       work[r][k].at # "idle" => work[r][k].key \in Services
  /\ handled \in [Replicas -> [Kinds -> [Services -> ServiceVersion]]]
  /\ restarts \in 0 .. MaxRestarts
  /\ faults \in 0 .. MaxFaults

ControllerInit ==
  /\ running = [r \in Replicas |-> FALSE]
  /\ svcCache = [r \in Replicas |-> [s \in Services |-> NoService]]
  /\ podCache = [r \in Replicas |-> [k \in Kinds |-> [s \in Services |-> NoPod]]]
  /\ epsCache = [r \in Replicas |-> [s \in Services |-> NoEndpoints(0)]]
  /\ queue = [r \in Replicas |-> [k \in Kinds |-> {}]]
  /\ work = [r \in Replicas |-> [k \in Kinds |-> Idle]]
  /\ handled = [r \in Replicas |-> [k \in Kinds |-> [s \in Services |-> NoService]]]
  /\ restarts = 0
  /\ faults = 0

-----------------------------------------------------------------------------
(* The process *)

\* A slip the runs must notice: the manager does not wait for the lease.
StartControllers_NoLease(r) ==
  /\ ~running[r]
  /\ running' = [running EXCEPT ![r] = TRUE]
  /\ svcCache' = [svcCache EXCEPT ![r] = svc]
  /\ podCache' = [podCache EXCEPT ![r] = pod]
  /\ epsCache' = [epsCache EXCEPT ![r] = eps]
  /\ queue' = [queue EXCEPT ![r] = [k \in Kinds |-> {s \in Services : svc[s].live}]]
  /\ UNCHANGED <<work, handled, restarts, faults>>

\* A slip the runs must notice: the first list of the pods may be an old one.
StartControllers_OldPods(r) ==
  /\ ~running[r]
  /\ LeaderElection => \A q \in Replicas : ~running[q]
  /\ running' = [running EXCEPT ![r] = TRUE]
  /\ svcCache' = [svcCache EXCEPT ![r] = svc]
  /\ \E n \in [Services -> UNION {ran[s] : s \in Services} \cup {0}] :
       podCache' = [podCache EXCEPT ![r]["egress"] = [s \in Services |->
         IF n[s] \in ran[s] THEN [pod["egress"][s] EXCEPT !.inc = n[s], !.live = TRUE,
                                                        !.phase = "Running"]
         ELSE pod["egress"][s]]]
  /\ epsCache' = [epsCache EXCEPT ![r] = eps]
  /\ queue' = [queue EXCEPT ![r] = [k \in Kinds |-> {s \in Services : svc[s].live}]]
  /\ UNCHANGED <<work, handled, restarts, faults>>

\* A replica starts its controllers (with leader election: once it holds the
\* lease).  The informers list everything; each Service listed is an event.
StartControllers(r) ==
  /\ ~running[r]
  /\ LeaderElection => \A q \in Replicas : ~running[q]
  /\ running' = [running EXCEPT ![r] = TRUE]
  /\ svcCache' = [svcCache EXCEPT ![r] = svc]
  /\ podCache' = [podCache EXCEPT ![r] = pod]
  /\ epsCache' = [epsCache EXCEPT ![r] = eps]
  /\ queue' = [queue EXCEPT ![r] = [k \in Kinds |-> {s \in Services : svc[s].live}]]
  /\ handled' = [handled EXCEPT ![r] = [k \in Kinds |-> [s \in Services |->
                   IF svc[s].live THEN NoService ELSE svc[s]]]]
  /\ UNCHANGED <<work, restarts, faults>>

\* The process exits: it crashed, was rescheduled, or lost the lease and
\* mgr.Start returned an error.  Caches, queues and reconciles are gone.
ProcessExits(r) ==
  /\ running[r]
  /\ restarts < MaxRestarts
  /\ restarts' = restarts + 1
  /\ running' = [running EXCEPT ![r] = FALSE]
  /\ svcCache' = [svcCache EXCEPT ![r] = [s \in Services |-> NoService]]
  /\ podCache' = [podCache EXCEPT ![r] = [k \in Kinds |-> [s \in Services |-> NoPod]]]
  /\ epsCache' = [epsCache EXCEPT ![r] = [s \in Services |-> NoEndpoints(0)]]
  /\ queue' = [queue EXCEPT ![r] = [k \in Kinds |-> {}]]
  /\ work' = [work EXCEPT ![r] = [k \in Kinds |-> Idle]]
  /\ UNCHANGED <<handled, faults>>

-----------------------------------------------------------------------------
(* The informers *)

\* A slip the runs must notice: a reconnecting watch empties the cache first.
SyncService_Flaps(r, s) ==
  /\ running[r]
  /\ svcCache' = [svcCache EXCEPT ![r][s] =
                    IF svcCache[r][s] = svc[s] THEN NoService ELSE svc[s]]
  /\ queue' = [queue EXCEPT ![r] = [k \in Kinds |-> queue[r][k] \cup {s}]]
  /\ UNCHANGED <<running, podCache, epsCache, work, handled, restarts, faults>>

\* A slip the runs must notice: an event of a Service being reconciled is dropped.
SyncService_DropsBusy(r, s) ==
  /\ running[r]
  /\ svcCache[r][s] # svc[s]
  /\ svcCache' = [svcCache EXCEPT ![r][s] = svc[s]]
  /\ queue' = [queue EXCEPT ![r] = [k \in Kinds |->
               IF work[r][k].key = s THEN queue[r][k] ELSE queue[r][k] \cup {s}]]
  /\ UNCHANGED <<running, podCache, epsCache, work, handled, restarts, faults>>

\* Watch events of a Service reach the cache; For(&corev1.Service{}) in both
\* controllers makes them enqueue its key.
SyncService(r, s) ==
  /\ running[r]
  /\ svcCache[r][s] # svc[s]
  /\ svcCache' = [svcCache EXCEPT ![r][s] = svc[s]]
  /\ queue' = [queue EXCEPT ![r] = [k \in Kinds |-> queue[r][k] \cup {s}]]
  /\ UNCHANGED <<running, podCache, epsCache, work, handled, restarts, faults>>

\* Pods are cached because a Get starts an informer for them, but neither
\* controller Owns or Watches them: a change of a pod enqueues nothing.
SyncPod(r, k, s) ==
  /\ running[r]
  /\ podCache[r][k][s] # pod[k][s]
  /\ podCache' = [podCache EXCEPT ![r][k][s] = pod[k][s]]
  /\ UNCHANGED <<running, svcCache, epsCache, queue, work, handled, restarts, faults>>

\* The same for Endpoints.
SyncEndpoints(r, s) ==
  /\ running[r]
  /\ epsCache[r][s] # eps[s]
  /\ epsCache' = [epsCache EXCEPT ![r][s] = eps[s]]
  /\ UNCHANGED <<running, svcCache, podCache, queue, work, handled, restarts, faults>>

\* A slip the runs must notice: no periodic resync.
Resync_Off(r) == FALSE /\ UNCHANGED controllerVars

\* The periodic resync of the Service informer (main.go leaves SyncPeriod at
\* its default of ten hours) enqueues every Service in the cache.
Resync(r) ==
  LET cached == {s \in Services : svcCache[r][s].live} IN
  /\ running[r]
  /\ \E k \in Kinds : ~(cached \subseteq queue[r][k])
  /\ queue' = [queue EXCEPT ![r] = [k \in Kinds |-> queue[r][k] \cup cached]]
  /\ UNCHANGED <<running, svcCache, podCache, epsCache, work, handled, restarts, faults>>

-----------------------------------------------------------------------------
(* The worker of controller k in replica r *)

\* The worker takes s from its queue: a reconcile begins.
Take(r, k, s) ==
  /\ running[r]
  /\ work[r][k].at = "idle"
  /\ s \in queue[r][k]
  /\ queue' = [queue EXCEPT ![r][k] = @ \ {s}]

\* The reconcile goes on with step at, holding what w holds.
Continue(r, k, w, at) ==
  /\ work' = [work EXCEPT ![r][k] = [w EXCEPT !.at = at]]
  /\ UNCHANGED handled

\* Reconcile returns without error, having read version v of s.
Done(r, k, s, v) ==
  /\ work' = [work EXCEPT ![r][k] = Idle]
  /\ handled' = [handled EXCEPT ![r][k][s] = v]

\* A slip the runs must notice: the key is read after the reconcile is cleared.
Retry_ClearsFirst(r, k) ==
  /\ work' = [work EXCEPT ![r][k] = Idle]
  /\ queue' = [queue EXCEPT ![r][k] = @ \cup {Idle.key}]
  /\ UNCHANGED handled

\* Reconcile returns an error: the key is put back with a delay.
Retry(r, k) ==
  /\ work' = [work EXCEPT ![r][k] = Idle]
  /\ queue' = [queue EXCEPT ![r][k] = @ \cup {work[r][k].key}]
  /\ UNCHANGED handled

\* An API request took effect, but its answer is lost: Reconcile sees an error.
AnswerLost(r, k) ==
  /\ faults < MaxFaults
  /\ faults' = faults + 1
  /\ Retry(r, k)

\* A write request fails before it takes effect.
RequestFails(r, k) ==
  /\ work[r][k].at \in WriteSteps
  /\ AnswerLost(r, k)
  /\ UNCHANGED <<running, svcCache, podCache, epsCache, restarts>>

InformerStep(r) ==
  \/ \E s \in Services : SyncService(r, s) \/ SyncEndpoints(r, s)
  \/ \E k \in Kinds, s \in Services : SyncPod(r, k, s)
  \/ Resync(r)
=============================================================================
