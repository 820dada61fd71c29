# A verification project for netmaker-k8s-ops

netmaker-k8s-ops is a Kubernetes operator that connects a cluster to a Netmaker
(WireGuard) network. It gives annotated Services a proxy pod, and it runs a proxy to
the Kubernetes API of its own. This directory holds TLA+ models of what can go wrong
in it over time, the TLC runs that check them on small instances, and proofs that
TLAPS checks for every instance.

Paths below are relative to the repository; `egress` stands for
`src/internal/controller/egress_proxy_controller.go`, `ingress` for
`src/internal/controller/ingress_proxy_controller.go`, `main` for `src/cmd/main.go`,
`proxy` for `src/internal/proxy/proxy.go`, `api` for `src/internal/proxy/api.go` and
`webhook` for `src/internal/webhook/mutating_webhook.go`.

## 1. Inventory

### Components, their state and their operations

| Component | State it keeps | Operations | Modelled in |
|---|---|---|---|
| Egress proxy controller (`egress`) | none of its own; Pods and Endpoints in the API server | `Reconcile`, `ensureProxyPod`, `updateServiceEndpoints`, `cleanupProxyPod` | `EgressProxy` |
| Ingress proxy controller (`ingress`) | the same, Pods only | `Reconcile`, `ensureProxyPod`, `cleanupProxyPod` | `IngressProxy` |
| Ports of the proxies (`egress:233-292`, `egress:357-364`, `ingress:251-361`) | the spec of a pod, the ports of the Endpoints | `buildSocatCommand`, `buildProxyPorts`, their ingress counterparts | `ProxyPorts` |
| Manager, caches, queues, leader election (`main:165-280`, controller-runtime) | informer caches, workqueues, the lease | list and watch, enqueue, retry, resync, elect, exit | `Controller`, `NetmakerOps` |
| The cluster (not in the repository) | Services, Pods, Endpoints | users, kubelet, garbage collector, endpoints controller | `Cluster` |
| Start and shutdown, proxy mode (`main`, `proxy`, `api`) | `PROXY_MODE`, a context, a wait group, two HTTP servers | settle the mode, start, find the WireGuard interface, listen, shut down | `Lifecycle` |
| User mappings (`proxy:60-136`, `proxy:226-324`) | a map from WireGuard addresses to users, under a lock | fetch, decode, set one mapping, look one up | `UserSync` |
| Request handling (`proxy:435-725`) | none | auth middleware; CORS, kubectl routes, reverse proxy | `UserSync` (the middleware); the rest is stateless |
| Netclient token (`egress:425-558`, `ingress:409-540`) | none; Secrets in the API server | `getNetclientToken`, `buildNetclientEnvVars` | `Netclients` |
| Sidecar webhook (`webhook`, `src/config/webhook/webhook_config.yaml`) | none; volume claims in the API server | `Handle`, read a Secret, ensure a claim | `Netclients`; its registration is commented out (`main:220-247`) |
| NetmakerOps resource (`src/internal/controller/netmakerops_controller.go`) | none | `Reconcile` is empty | no |
| Manifests and chart | configuration | - | no; read for how the operator is deployed |

### How they interact

A user writes a Service. The API server tells the Service informer of each replica
that runs the controllers; the informer updates its cache and enqueues the Service's
name for *both* controllers, which each have one worker. A worker takes a name, reads
the Service, later the pod and the Endpoints *from the caches*, and writes *to the API
server*. Nothing ties a read to the write that follows, except the resource version in
an update of Endpoints. An error puts the name back in the queue. Neither controller
watches pods or Endpoints, so a change of those makes nothing happen by itself. The
kubelet starts pods, the garbage collector removes a pod whose Service (by UID) is
gone, the endpoints controller removes Endpoints when a Service is deleted, and nodes
are drained. With leader election one replica runs the controllers; when it exits
another starts from fresh lists.

Beside the manager, the process runs two HTTP servers. They share with it a context
that SIGTERM cancels and a wait group that `main` waits for, and both look for the
address of an interface that another container (netclient) brings up. The Kubernetes
proxy starts a goroutine that fetches user mappings from the Netmaker API at every tick and
writes them, one at a time, into a map that the middleware of each request reads. `main`
does not wait for that goroutine.

A reconcile that builds a proxy pod reads a Secret two or three times, through a cache. The
webhook would be called by the API server for each object of a workload: a Deployment, the
ReplicaSet its controller makes of it, the pod the next controller makes of that. Each call
may come again, and creates a volume claim as a side effect.

### What is hard

* every cached read may be out of date when the write that relies on it is made;
* events arrive while the same Service is being reconciled;
* answers are lost after a request took effect, and processes exit between requests;
* a new leader starts while the cluster holds what the old one did;
* a Service is deleted and created again under the same name, with a pod of the old one still there;
* pods change without an event, so what depends on their phase waits for the next event of the Service or the ten-hour resync;
* both controllers act on one Service whose annotations move between them;
* ports are worked out in four places, and a pod outlives the ports it was built for;
* the interface comes, goes and changes its address while servers look for it, bind to it and shut down;
* user mappings change one by one under the requests that read them; fetches fail, and the map is lost with the process;
* a Secret is read twice for one pod and changes, moves or goes away in between;
* admissions of one workload follow each other, are repeated after a failure, and race those of another for the same claim.

`PROJECT.json` lists each of these as a hazard, at its line, with the properties that
would notice it going wrong.

### What makes each component correct

* *Controllers*: a pod is built only from a version that asked for it; a worker that is
  behind never deletes what a later version asked for; no event is lost; what is wanted
  is served in the end and what is not goes away; Endpoints name pods that run, and are
  never turned back.
* *Ports*: container ports, socat and Endpoints agree; a port that keeps its number keeps
  working while the ports beside it are edited; a proxy pod that outlives its ports is out
  of date and nothing worse.
* *Process*: SIGTERM leads to an exit within a bound; requests are drained; auth mode
  needs a Pro server; the servers end up where the tunnel ends.
* *User mappings*: a request is impersonated as the last answer that names its address
  says, never goes back to an older mapping, and in the end as the server says now.
* *Netclients*: a pod has one netclient or none, a token if there was one to be found, and a
  volume that exists.
* *Seen from outside*: whatever replicas, caches and queues do, proxies come and go, and
  Endpoints move, only as the versions of the Service allow (`ProxyPromise`).

## 2. Modules

```
Cluster  <-  Controller  <-  EgressProxy  \
                         <-  IngressProxy  >-  NetmakerOps  <-  MCNetmakerOps
ProxyPromise  <-  (INSTANCE, refinement)  ----/             <-  NetmakerOpsProofs  <-  PromiseProofs
ProxyPorts  <-  MCProxyPorts, ProxyPortsProofs
Lifecycle   <-  MCLifecycle,  LifecycleProofs
UserSync    <-  MCUserSync,   UserSyncProofs
MappingPromise  <-  (INSTANCE, refinement)  UserSync
Netclients  <-  MCNetclients, NetclientsProofs
```

**Cluster** (external) is the API server's objects and the actors that are not the
operator. A Service is a version: `rv` counts its writes, `uid` its incarnations, the
other fields are the annotations the reconcilers read. `pod[k][s]` is whatever pod has
the name `<s>-<k>-proxy`: `inc` numbers the pods that have had this name and `built` is
the version `buildProxyPod` was given, so its owner UID and its target are `built.uid`
and `built.target`. `eps[s].pod` is the pod whose IP the Endpoints hold. `ran` is
history, and so are `inc` and `built` of a pod that is gone (`GonePod`). A terminating pod keeps its phase, which is what the code reads.

**Controller** is one process per replica: caches, queues, workers. `work[r][k].at` is
the API call the reconcile makes next, the other fields of `work` the locals it still
holds. `Begin`, `Continue`, `Done` and `Retry` are shared by the two controllers.

**EgressProxy**, **IngressProxy** cut `Reconcile` at its API calls. Each action is one
Get (of the cache) or one write (to the API server) with everything the code does up to
the next call: guards, early returns, the choice of what follows.

| Action | Code |
|---|---|
| `EgressReconcile` | `egress:46-86`, Get of the Service and its three branches |
| `EgressEnsureProxyPod`, `EgressCreateProxyPod` | `ensureProxyPod`, `egress:109-144` |
| `EgressGetRunningPod`, `EgressGetEndpoints`, `EgressCreateEndpoints`, `EgressUpdateEndpoints` | `updateServiceEndpoints`, `egress:310-390` |
| `EgressCleanupProxyPod`, `EgressDeleteProxyPod` | `cleanupProxyPod`, `egress:392-416` |
| `IngressReconcile` ... `IngressDeleteProxyPod` | the same in `ingress`, with the early return for both annotations at `ingress:67` |

`updateProxyPod` of either controller is not an action: it runs only if `needsUpdate`
says so, and that is the constant `false` (`egress:298`).

**NetmakerOps** composes all of it and states the properties. `Spec` is the whole
system. `EgressSpec` is the part of its behaviours in which the ingress worker never
gets a turn; runs about egress use it to afford larger bounds.

**ProxyPromise** is the abstract specification: Services, at most one proxy of each kind for
each of them, and the number of the proxy the traffic goes to. There are no replicas,
caches, queues, reconciles or Endpoints objects in it. A proxy is built only of a version, present or
earlier, that asks for it, and never of an earlier one than the proxy before it; it is taken away only after a later version was written, or by
somebody else; the route goes to proxies that have run, and only forwards. `NetmakerOps`
maps a pod to a proxy (`ProxyOf`: its `inc` is the proxy's number, `built` what it was
made of) and the Endpoints to the route, and states `KeepsPromise == Promise!Spec`.

**ProxyPorts** is the port arithmetic, as operators on sets of ports, and a coarse
reconcile around them (`ReadService`, the two creates, `UpdateEndpoints`) with a user
who edits the ports. Protocols are left out: socat forwards TCP whatever the port says.

**Lifecycle** is one container: `main` (`stage` and `listener` for each of the two
servers, `manager`, `main`), its timers, the interface and the kubelet that restarts
it. `seeking` is history: the servers that had no address yet when SIGTERM came. A failed bind, a broken configuration and a manager that returns an error all end
in `exit = "failed"`, which is `os.Exit(1)`. Time is counted in seconds and passes
(`Tick`) only while every goroutine waits; what is computed between two waits takes
none.

**UserSync** is the goroutine `startExternalAPISync` (`pc`, `tick`, `answer`, `todo`), the map
(`table`), the middleware (`Request`), and around them a server whose mappings have versions,
SIGTERM and the restart of the process. The answer is fetched, decoded and then written one
address at a time, as `SetUserMapping` takes the lock for one address, in the order of a
Go map, which is any. Each entry of `table` remembers the version it came with, and `seen`
the version under which the last request of an address was impersonated; both are history.

| Action | Code |
|---|---|
| `SyncStarts`, `Tick`, `TakeTick`, `StopSync` | `startExternalAPISync`, `proxy:296-324` |
| `ServerAnswers`, `FetchFails`, `Decoded`, `SetUserMapping`, `Applied` | `fetchUserMappingsFromAPI`, `proxy:227-293` |
| `Request` | `createAuthMiddleware`, `proxy:627-725` |

**MappingPromise** is the abstract specification of that: the mappings the server has had, what is
known of each address, and the version each address was last served under. There is no fetch,
tick, answer or lock in it. An address is learned as some version says, only when nothing is known
from a later version and every earlier version that shows is complete; a process that ends forgets
all of it. `UserSync` states `FollowsPromise == Promise!Spec`, with `table` for what is known.

**Netclients** is about the netclient containers the operator puts into pods. A job is one
proxy pod to be built, or one workload whose chain of objects (`Top`, `Below`) is submitted
to the API server, admitted by the webhook if its own labels select it, and stored. `past` holds the
versions of the Secrets and `view` the one the cache shows; `claims` and `shown` are the same for
volume claims. `at` is the call the handler or the build makes next.

| Action | Code |
|---|---|
| `ReadOwnSecret`, `ReadOperatorSecret` | `getNetclientToken`, `egress:427-465`, `ingress:411-449` |
| `BuildEnv` | `buildNetclientEnvVars`, `egress:498-558` |
| `NotSelected`, `Handle` | `objectSelector` of `webhook_config.yaml`; the six handlers, `webhook:38-252` |
| `ReadSecret` | `getNetclientTokenFromSecret`, `webhook:584-653` |
| `GetClaim`, `CreateClaim`, `ClaimFails` | `ensurePVCExists`, `webhook:486-552`, and the fallback at `webhook:433` |
| `Patch` | `addNetclientSidecarToPodTemplate`, `webhook:287-404` |
| `Rejected` | an admission that fails and is repeated |

StatefulSets, DaemonSets and Jobs are one kind: their handlers differ in types only. A Secret
that has the key with an empty value is left out (the webhook would then not fall back to
`NETCLIENT_TOKEN`).

Definitions named `X_Y` beside a definition `X`, introduced by "A slip the runs must
notice", are mistakes one could make in that code. Each property is violated when one of
them takes the place of the original, which shows that the property speaks about the
code at all.

### Decisions worth knowing

* *Caches jump.* `SyncService` takes the current version of the API server. Events a
  slow watch would deliver one by one are thereby merged, which informers do too for a
  key that is waiting; a version that was never in the cache is one no worker saw.
* *The first list is fresh.* A replica that starts lists from the API server. The
  mutant of `EndpointsNeverGoBack` shows that this matters.
* *Taking a key and the Get of the Service are one step*: the cached version can change
  just before instead of in between.
* *Leader election is exclusive.* With `LeaderElection` a replica starts only when none
  runs; lease timing, and requests of a former leader that arrive late, are not
  modelled. Some theorems need no leader election at all (section 5).
* *A process that exits* loses its reconcile between two requests. A request that is
  under way then has either been applied or not.
* *Egress Services have no selector* (`examples/egress-service-example.yaml:26`:
  "The selector is optional - the controller manages endpoints directly"), so the
  endpoints controller only acts on deletion. With a selector it would fight over the
  Endpoints.
* *`PROXY_BIND_IP` and `API_BIND_IP` are unset* in `Lifecycle`: that is the case with
  behaviour in it.
* *A process that exits drops its requests* in `UserSync`; what `Lifecycle` says of draining
  is not repeated there.
* *Secrets change in one order*, and the cache shows them in that order; claims reach
  the cache one by one, in any order.
* *The kubelet's SIGKILL* after `terminationGracePeriodSeconds` (10 s in the chart) is
  left out of `Lifecycle`, which is about what the process does of its own accord.

## 3. Runs

Deadlock is not checked, except for the two runs of `ProxyPorts`: a cluster in which all
bounds are used up and nothing is left to do rests, and a process that was stopped has
ended. The liveness properties say what must not be left undone.

| Run | Instance | Shows |
|---|---|---|
| `Failover` | two replicas, three user writes over off and on, one exit, one eviction or drain | `EndpointsNamePodsThatRan`, `NothingForgotten`, `NeverDeletedByOlderService`, `EndpointsNeverGoBack`, `PodsNeverGoBack`, `ServedStaysServed` in every interleaving of user, informers, workers, kubelet, garbage collector and a change of leader; `KeepsPromise`: the egress side implements `ProxyPromise`; `TypeOK` |
| `EgressLiveness` | one replica, three user writes (off and on again, delete and create again), one exit, one eviction or drain, fairness | `EgressEventuallyServed`, `DisabledEgressRemoved` |
| `BothLiveness` | both workers, all annotations, two writes, one request that fails or whose answer is lost, fairness | `BuiltAsAsked`, `EgressEventuallyServed`, `DisabledEgressRemoved`, `DisabledIngressRemoved`, and `KeepsPromise` with both controllers |
| `Ports` | seven lists of one or two ports, any edits | `DeclaredPortsListened`, `ReachedIffDeclared`, `KeptPortsStayReached`, `StaleIngressOutOfDate` |
| `Shutdown` | `PROXY_MODE` off or auth, an interface with two addresses that comes and goes, three attempts, one fault, fairness | `ExitDeadline`, `StopsInTheEnd`, `RequestsDrained`, `AuthNeedsPro`, `TunnelServed`, `TypeOK` |
| `UserSync` | two addresses, two users, two versions of the mappings, one failed fetch, one restart, fairness | `TableIsLastNamed`, `RequestsNeverGoBack`, `FollowsPromise`: the proxy implements `MappingPromise`; `MappingsFollowServer`, `SyncStops`, `TypeOK` |
| `Netclients` | two jobs, nine workloads, one token, one claim, three events (failed calls, changes of Secrets and claims) | `OneNetclient`, `ReplicaSetKeepsTemplate`, `TokenFound`, `MountedClaimExists`, `PersistentUnlessRaced`, `TypeOK` |
| `EndpointsRoute`, `EndpointsCleanup`, `Conflict`, `PortsGuide`, `StaleAddress` | as small as shows it | what the code does differently from what is written about it (section 6) |

### Bounds, and why they are enough

`MaxWrites` is the number of versions of a Service: with two, a reconcile can hold the
first while the second exists; with three, it can also be overtaken by a deletion and a
creation under the same name. `MaxPods` bounds the pods that have had one name: two let
a stale reader confuse a pod with its successor, three let that happen again after a
retry. `MaxEndpoints` is as many versions as the other bounds let anyone write: the
liveness runs would fail if it stopped a worker (six in `EgressLiveness`, where the Endpoints
go and come back with the Service; with four, TLC finds a worker the bound has stopped).
The two liveness runs share the faults between them: exits and drains with three writes in
`EgressLiveness`, failed requests and lost answers in `BothLiveness`. One exit is enough for every pair of old and new leader, because nothing
of an exited process stays but what is in the API server. One fault (a failed request,
or one whose answer is lost) and one disruption (eviction or drain) can be placed
between any two steps. One Service is enough: no action reads or writes two of them;
the theorems hold for any set of them. `Failover` reaches 1.5 million
states.

In `Shutdown` a sleep of 1 s, delays of 2 s that would grow further but for their limit, a
`srv.Shutdown` of 2 s and a grace period of 3 s stand for 5 s, 3 s growing to 30 s, 10 s and 30 s in the code:
timers of the two servers out of step, a `Shutdown` shorter than the manager's grace period, a
server that opens so late after SIGTERM that the grace period ends before its `Shutdown` does. Two addresses let
the interface change between a lookup and the bind, which fails and restarts the container
(1.1 million states). `PROXY_MODE` is off or auth, from which `main` makes all the modes there are; that
`noauth` stays noauth is left to the theorem `AuthOnlyWithPro`. The theorems cover the defaults too.

In `Ports` the lists are chosen so that an edit can keep a port while another comes, goes or changes its
target, exchange two target ports, and replace a number by a name.

In `UserSync` two versions are what it takes for an address to change its user, to lose it, or to be
named for the first time while another is being written; two addresses let a request fall between two
writes of one answer (364 thousand states). In `Netclients` two jobs are enough for a race over one claim, and
three events for a claim that is created, deleted and missed, or a call that fails twice; the
nine workloads put label and claim on the object, the template or both, for each kind that differs
(3.5 million states, with the jobs interchangeable). A Secret that moves into a namespace
and out again between the reads of one build, with a token before and after
(`CameAndWent`), can take four changes: the theorem covers it, the run covers its shorter forms.

### Fairness

Processes are restarted by their Deployment (`StartControllers`), watches deliver
(`Sync*`), the resync comes round (`Resync`: `main` leaves `SyncPeriod` at ten hours),
a reconcile that has begun goes on (`EgressStep`, `IngressStep`), and the kubelet, the
garbage collector and the endpoints controller work: weak fairness each. Taking a key
from a queue is strongly fair, since a workqueue is first in, first out, while an exit or
another reconcile may make it wait again and again. Users, evictions, exits and failed
requests have no fairness; they are bounded.

In `Lifecycle`, goroutines are scheduled, time passes, a bind has an outcome, the kubelet
restarts a failed container. Requests need not end, runnables need not stop, signals need
not come, the interface need not come up.

In `UserSync`, the goroutine is scheduled, a fetch ends (the client has a timeout of 30 s,
`proxy:238`), the ticker ticks: weak fairness each. `StopSync` is strongly fair: when a tick and the
end of the context are both ready, `select` draws lots, and cannot lose them for ever. The server, SIGTERM
and failures have no fairness.

`EgressEventuallyServed` has two premises. A pod evicted under node pressure stays as a
Failed object, and the code keeps it for good. And `MaxPods` must not be what keeps the next
pod from being made: a worker behind a Service that was deleted and created may
create pods the garbage collector takes away again, which costs incarnations.

"In the end" can be long: a Service whose pod was Pending when the reconcile looked is
served by the next resync, ten hours later (section 6).

## 4. Properties

*BuiltAsAsked, NeverDeletedByOlderService, NothingForgotten, EndpointsNamePodsThatRan,
EndpointsNeverGoBack* relate what a reconcile read to what exists when it writes. The
last two are about the one object both an old and a new leader rewrite. *PodsNeverGoBack* says of
the pods what *EndpointsNeverGoBack* says of the Endpoints: the configuration a Service runs
with only gets newer, though a pod may be created by one replica for a version another
has already moved past. *ServedStaysServed* is about doing no harm: a Service that is reached through
a pod of its present version loses it neither to a worker that is behind nor to a retry, a
resync, a change of leader or a collector. *KeepsPromise* puts
into one specification what the owner of a Service may rely on.

*EgressEventuallyServed, DisabledEgressRemoved, DisabledIngressRemoved* are why
level-triggered reconciliation is supposed to work although each step acts on stale
reads. They need the resync: `DisabledIngressRemoved` fails without it, since a pod
may reach the cache only after the cleanup has looked, with no event to look again.

*DeclaredPortsListened, ReachedIffDeclared, KeptPortsStayReached, StaleIngressOutOfDate* follow
ports through four builders and a pod that outlives its ports. *ReachedIffDeclared* says exactly
which connections get through a pod of any age: those whose port in the Endpoints is among the target ports the
pod was built with. *KeptPortsStayReached* is what an owner who edits the other ports of a Service may rely on:
a port that keeps its number, and that pod and Endpoints both know, ends at the device port of that number,
whatever three versions pod, Endpoints and Service are of. It is not a promise for ports that are remapped:
section 6 has one that ends where another belongs. *StaleIngressOutOfDate*: the ports of an ingress pod that work are those the
Service had when the pod was built and still has, each forwarded to the Service port of its own number.

*ExitDeadline* is the bound there is on a shutdown: five seconds of sleep, all the
delays, each taken as long as it may be, ten seconds of drain; 585 s with the defaults, which `ExitWithDefaults`
sharpens to 450 s (the comment above the code speaks of five). *RequestsDrained* is about the wait group, the goroutines in which
`ListenAndServe` runs, `http.ErrServerClosed` and the grace period of the manager, whose end is `os.Exit(1)`: when the process ends after SIGTERM
without a fault, a request that is cut off had the whole timeout counted from the call of `srv.Shutdown` that waits for it (`TimedOut`).
One case is excepted, because it is false there: a server that was still looking for the interface at SIGTERM (`seeking`) calls `Shutdown`
late, and the grace period may end before its timeout does. *AuthNeedsPro* is the table in
`PROXY_USAGE.md:66-74`. *TunnelServed* says that looking late, failing and restarting all
end with servers that can be reached at the address the interface settles on. Its premise (`OnlyBoundTo`) leaves out the one case in which
nothing makes them move: the interface changes its address while a server listens, the finding `StaleAddress`.

*TableIsLastNamed* says what the table is at any instant, however fetches, failures and restarts
fall. It also bounds what "only ever adds" means: an address nobody holds any more keeps the user
it had last, and nothing worse. *RequestsNeverGoBack* is what a client sees of it: under the lock for
one address at a time, no request of an address is impersonated under an older mapping than one before it. *FollowsPromise* adds how answers follow each other: one is applied wholly
before the next begins, so the table never mixes three of them. *MappingsFollowServer*
and *SyncStops* are about the loop: an error must not end it, and SIGTERM must.

*OneNetclient* and *ReplicaSetKeepsTemplate* are about the chain of admissions: a Deployment that
was changed must not have its ReplicaSet changed again, or its controller would not recognise it.
*TokenFound* relates the token of a pod to the Secrets during its build: it is
empty only if at some moment there was none, or it came and went.
*MountedClaimExists* and *PersistentUnlessRaced* are about a side effect that
survives the admission it was made for.

## 5. Proofs

| Theorem | Holds for | Inductive invariant |
|---|---|---|
| `TypeCorrect` | any constants | `TypeOK` |
| `PodsBuiltAsAsked` | with and without leader election | `WorkJustified`, `PodsAskedFor` |
| `OnlyLaterVersionsDelete` | `OneWorks` | `LeaderInv` with the two above |
| `NoEventLost` | any constants | `QueueInv` |
| `EndpointsNameRunPods` | with and without leader election | `RanInv` |
| `EndpointsMoveForward` | `OneWorks` | `OrderInv` |
| `PodsMoveForward` | `OneWorks` | `PromiseInv` |
| `ServiceStaysServed` | `OneWorks` | `PromiseInv` |
| `OperatorKeepsPromise` | `OneWorks` | `PromiseInv`: `OrderInv`, `RanInv`, `LeaderInv` and what they rest on |
| `EgressSpecIsSpec` | any constants | none |
| `DeclaredAreListened`, `DeclaredAreReached`, `KeptPortsReached` | any lists of ports, a pod of any version | `BuiltFrom` |
| `StaleIngressReaches`, `GuideHoldsForEqualPorts` | any lists of ports | `BuiltFrom` |
| `LifecycleTypeCorrect`, `ShutdownDrains`, `AuthOnlyWithPro` | any delays, retries, timeouts | `IInv` |
| `ExitWithinBudget`, `ExitIsBounded` | the same | `Deadlines` |
| `ExitWithDefaults` | the values of the code | `Deadlines` |
| `BoundIfAddressStays` | an interface with one address | `AddressKept` |
| `UserSyncTypeCorrect`, `TableFollowsAnswers`, `RequestsMoveForward` | any addresses, users, failures, restarts | see below |
| `ProxyFollowsPromise` | the same | `OneByOne` |
| `NetclientsTypeCorrect`, `MountsExist` | any jobs, workloads, tokens, claims | `TypeOK`, `MountInv` |
| `OnePerPod`, `ReplicaSetsMatch` | the same | `CountInv` |
| `TokensAreFound` | the same, any number of changes | `LookInv` |
| `EmptyDirsAreExcused` | the same | `RaceInv` |

The assumptions are the `ASSUME`s of `Cluster`, `Controller`, `ProxyPorts`, `Lifecycle`,
`UserSync` and `Netclients`: types of the constants, and that special values are not ordinary ones.
`Lifecycle` also assumes that the manager's grace period (30 s) is not shorter than the
timeout of `srv.Shutdown` (10 s), and that timeout not zero; `ShutdownDrains` would be false otherwise. Every
theorem about the controllers is about `Spec`, so it holds of `EgressSpec` too (`EgressSpecIsSpec`).

`OneWorks` is the one hypothesis beyond those: leader election, or a single replica. The
manifests run with `--leader-elect`; a Deployment with one replica and without the flag is
covered too, for as long as its pods do not overlap. Without either, the theorems that name it are
false: the mutants of `NeverDeletedByOlderService` and `PodsNeverGoBack` are two replicas at work.

*One lemma for all reconcile steps.* `NetmakerOpsProofs` first shows (`EgressMoves`,
`IngressMoves`) that every step of a worker is a `WorkerMoves`: it starts with what the
cache has, or goes on with what it holds, and touches the pod only to create it for what it
holds or to delete it. The invariants are then proved from that, once for both
controllers.

*PodsBuiltAsAsked.* `BuiltAsAsked` is not inductive: a worker about to create could hold
anything. `WorkJustified` says a worker on the keeping path holds a version that asks, and
one on the removing path a version that does not.

*OnlyLaterVersionsDelete.* Precedence of versions is carried along the way data flows:
what a pod was built from precedes what the reconcile holds, which precedes the cache of its
replica, which precedes the API server (`CachesFollow`, `PodsFollow`). A pod that another
replica made could break this, so `OneLeader` and `StoppedIsIdle` are part of it.
A pod asked for and a worker that deletes hold different versions, so the order is strict.

*NoEventLost.* `StaleIsQueued` is the strengthening: a reconcile whose Service has
changed since it began finds its key queued.

*EndpointsNameRunPods.* The number a worker carries into `getEndpoints` and beyond was read
from a cached pod that was Running (`WorkNamesRun`), and caches hold only what was
(`PodsHaveRun`).

*ExitWithinBudget, ExitIsBounded, ExitWithDefaults.* The delays between attempts add up to a sum
over an arbitrary number of attempts, and to reason about such a sum takes induction over data. So the proof takes
any *budget*: a function `B` of the attempt with `RetryDelay(n) + B[n + 1] <= B[n]`. `Left(B, s)` is what
server `s` may still take: its timer, what `B` leaves for the search, the drain. `Deadline(B)` says that the
seconds since SIGTERM and `Left(B, s)` together stay within `Wait(B)`, the sleep, `B[1]` and
the drain, for every server that has not ended, and that the manager's seconds add up to its grace period. A second
only passes while some server has a timer running or the manager is stopping, so what is
left falls as what has passed grows. Two budgets are shown to exist: every delay at its limit, for any
constants, which gives the `ExitDeadline` the run checks; and the delays of the defaults one by one (`DefaultDelays`),
which gives 450 s.

*BoundIfAddressStays.* `BoundToTunnel` is what the run `StaleAddress` finds violated. The theorem says that a
change of address is the only reason: under the premise that the interface, whenever it is up, has
address `a`, a server that has passed its search has found `a` or listens everywhere (`AddressKept`).

*EndpointsMoveForward.* `OrderInv` numbers the pods of one Service along the way data flows:
what the Endpoints hold is at most what a running cache has, which is at most what the API server
has had; a worker that has got as far as the Endpoints holds a number in between. It needs `OneWorks`,
since a second replica with an older cache could turn the Endpoints back.

*PodsMoveForward* follows from `PodsFollow` in `LeaderInv`, which speaks of the last pod of a name also when
it is gone: what it was built from precedes what the one working reconcile holds, and that is what the next pod is
built from.

*ServiceStaysServed* has two halves. The pod stays (`ServingPodStays`): a delete needs a version later than the
pod's (`DeletesEarlier`), and it has the present one; the collector needs an owner that is gone. The
Endpoints stay (`ServingEndpointsStay`): whatever is written in them is at least the number they hold and at
most the number of the last pod (`OrderInv`), and these are equal; the endpoints controller only acts when
the Service is gone.

*OperatorKeepsPromise* is the refinement. `PromiseInv` collects the invariants above, and
each action of `NetmakerOps` is shown to be one step of `ProxyPromise` or none: a create is a
`Build` because of `WorkJustified` and `PodsFollow`, a delete a `Withdraw` because of `LeaderInv`, a write of
Endpoints goes forward because of `OrderInv` and to a proxy that has run because of `RanInv`.
What users and nodes do maps to `Change`, `Lose`, `Vanish`, `Serve`, and a collected pod to whichever
of those its Service justifies.

*TableFollowsAnswers, RequestsMoveForward.* `AnswersInOrder` says the answer being worked on is
as late as any taken, and every mapping came with an answer that was taken. With it
`TableIsLastNamed` is inductive. `SeenInTable` (no request was served under a later mapping than the
table holds) makes the action property follow.

*ProxyFollowsPromise* is the second refinement. `OneByOne` says that the answer being applied is in the table but for
what is left to do, and so is every version that shows in the table. Then a write is a `Learn`: nothing is known from a
later version (`AnswersInOrder`), and the earlier ones are complete. Fetches, ticks, failures and signals are
steps that change nothing, an exit is `Forget`.

*ShutdownDrains.* `Drain` follows one server through a shutdown. If it had its address at SIGTERM, no second passes
before it calls `Shutdown` (the code between two waits takes no time), so from then on its timer and the seconds since SIGTERM
add up to at most the timeout. Without a fault only the end of the grace period fails the process, at `since = ManagerGrace`
(`Grace`), which is at least the timeout: the timer has run out. A server that is done with a request still
there had its timer run out, which is all `main` can return past.

*The ports.* `BuiltFrom` says that a pod's command and container ports are those of the list it was built from, and
that the Endpoints hold the ports of some one list. Two lemmas (`NamesOnePort`, `ReachesOnePort`) say that a name stands for
one port in them and so leads to one device port at most. `ReachedIffDeclared`, `KeptPortsStayReached` and `StaleIngressOutOfDate`
follow for pods of any version. `GuideHoldsForEqualPorts` draws the line of the
finding `PortsGuide`: a target port is reached exactly if it is the Service port.

*Netclients.* `MountInv`: the cache shows only claims that exist or were deleted, and handlers hold
only those. `CountInv`: the objects above the present level have the netclients expected of
them, the ReplicaSet of a labelled Deployment its template, and a handler past its checks works on
an object without a netclient. `LookInv`: what the reads so far have shown, as facts about the
versions of the Secrets between the first and the last read, which later changes do
not touch. `RaceInv`: a job creates a claim at most once, and has an EmptyDir only if it names no
claim or somebody else has created it; it needs `CountInv`, which says that a sidecar is
added at one level only.

Only model-checked: the liveness properties `EgressEventuallyServed`, `DisabledEgressRemoved`,
`DisabledIngressRemoved`, `StopsInTheEnd`, `TunnelServed`, `MappingsFollowServer` and `SyncStops`
(fairness is out of the prover's reach), and the properties that turn out to be violated.

## 6. Where code and documents disagree

* `EndpointsRoute`: the reconcile that creates a pod ends while it is Pending, and
  nothing watches pods. Until the Service changes or the resync comes, the Service has no
  Endpoints (`egress:328`, `egress:418-423`).
* `EndpointsCleanup`: turning egress off deletes the pod and leaves the Endpoints with its
  address (`egress:408`).
* `Conflict`: a Service with an ingress pod that gets the egress annotation too keeps the
  ingress pod and gets an egress pod (`ingress:67`).
* `PortsGuide`: Endpoints carry the Service port, socat listens on the target port: with port
  80 and targetPort 8080, the first example of the guides, no connection gets through
  (`egress:361`).
* `StaleAddress`: a server stays bound to the address the interface had (`proxy:579`).

Seen while modelling, without a run: the mode check is also made for `noauth`, where
`PROXY_USAGE.md:251` says it is not; another spelling of `auth` is served in auth mode
with no Pro server, since `main:105` compares exactly and `proxy:334` ignores case (`getProxyConfig` is modelled as it reads the
mode; `AuthNeedsPro` is stated for `auth` as documented and for `noauth` in any spelling); a server
that is looking for the interface when SIGTERM comes goes on, may listen for an instant
before it shuts down, and a request it takes then may be cut off by the manager's grace period sooner than
the timeout of `srv.Shutdown`; a port may end where another belongs: of the ports `http` 80 to 8080 and `admin` 8080 to 80,
a connection to `http` ends at the device port 80, the target of `admin`, since the Endpoints carry Service ports and socat
listens on target ports (the finding `PortsGuide` with a listener in the way), and editing such targets has the same effect through
a pod that keeps its old ones; `API_SYNC_INTERVAL` defaults to 30 s (`proxy:143`), where
`PROXY_USAGE.md:91` says 300 (the chart sets 300). `TOKEN_CONFIGURATION.md:65` says that Secrets
can only be read from the operator's namespace, while `getNetclientToken` looks in the Service's first
(`egress:436-447`); and `TOKEN_CONFIGURATION.md:72` that a proxy pod without its Secret fails to start, while
it starts with an empty `TOKEN` (`egress:550-555`). `webhook_config.yaml:24` declares
`sideEffects: None`, and `Handle` creates volume claims. A Deployment labelled on its template
alone, as in the examples at `TOKEN_CONFIGURATION.md:186` and `:296`, is not selected by the webhook while its ReplicaSet
is, whose template then differs from the Deployment's: `ReplicaSetKeepsTemplate` is stated for
Deployments that carry the label themselves.

## 7. Not modelled

* *Request forwarding* (`proxy:435-625`): the kubectl routes, CORS and the reverse proxy keep nothing
  between requests. That the groups of a user are sent as one `Impersonate-Group` header joined by
  commas (`proxy:671`) is a matter of wording and left out.
* *The `NetmakerOps` resource*: its `Reconcile` is empty, and the rest of `src/api` is types and generated
  code.
* *Manifests and chart*: configuration; they were read for replicas, flags and selectors.
* *Formatting* of commands, environment variables and names; *protocols* of ports, since socat
  forwards TCP whatever the Service says.
* *Leases*: their timing, and requests of a former leader that arrive after the lease has moved. What
  does not depend on leader election is stated without it.
* *SIGKILL* at the end of the grace period: it has the effect of an exit, which the
  models of the controllers have anyway, and would cut the bound that `ExitDeadline` is about.
* *A pod that stays as a Failed object*: no document promises a replacement, so there is no
  property; `EgressEventuallyServed` excepts it by name.

