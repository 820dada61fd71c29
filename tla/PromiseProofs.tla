---------------------------- MODULE PromiseProofs ----------------------------
(***************************************************************************)
(* When at most one replica works, the operator implements ProxyPromise:   *)
(* theorems for any number of Services, replicas, writes, exits and faults.*)
(***************************************************************************)
EXTENDS NetmakerOpsProofs

-----------------------------------------------------------------------------
(* The order of the pods of one Service: Endpoints, reconcile, cache, API     *)
(* server                                                                     *)

\* The number of the egress pod that had the name last, in the API server.
LastPod(s) == pod["egress"][s].inc

\* The same in the cache of r.
CachedPod(r, s) == podCache[r]["egress"][s].inc

PodsCount ==
  \A s \in Services :
    /\ 0 \notin ran[s]
    /\ pod["egress"][s].live => 0 < LastPod(s)

EndpointsTrail ==
  \A s \in Services : eps[s].live =>
    /\ eps[s].pod <= LastPod(s)
    /\ \A r \in Replicas : running[r] => eps[s].pod <= CachedPod(r, s)

CachesTrail == \A r \in Replicas, s \in Services : CachedPod(r, s) <= LastPod(s)

WorkTrails ==
  \A r \in Replicas, s \in Services :
    work[r]["egress"].at \in EndpointsSteps /\ work[r]["egress"].key = s =>
      /\ work[r]["egress"].pod <= CachedPod(r, s)
      /\ eps[s].live => eps[s].pod <= work[r]["egress"].pod

OrderInv == PodsCount /\ EndpointsTrail /\ CachesTrail /\ WorkTrails

LEMMA OrderInvInit == Init => OrderInv
BY ConstantsTyped DEF Init, ClusterInit, ControllerInit, OrderInv, PodsCount, EndpointsTrail,
   CachesTrail, WorkTrails, LastPod, CachedPod, EndpointsSteps, NoPod, NoEndpoints, Kinds

LEMMA OrderTyped ==
  ASSUME TypeOK
  PROVE  /\ \A s \in Services : LastPod(s) \in Nat /\ eps[s].pod \in Nat
         /\ \A r \in Replicas, s \in Services : CachedPod(r, s) \in Nat
         /\ \A r \in Replicas : work[r]["egress"].pod \in Nat
<1>1. "egress" \in Kinds
  BY DEF Kinds
<1> QED BY <1>1 DEF TypeOK, ClusterTypeOK, ControllerTypeOK, PodObject, EndpointsObject, Work,
        LastPod, CachedPod, EndpointsSteps

\* Pods are only ever numbered upwards, and Endpoints taken away.
LEMMA OrderInvCluster ==
  ASSUME TypeOK, TypeOK', OrderInv, UNCHANGED <<podCache, running, work>>,
         \A s \in Services : LastPod(s) <= LastPod(s)',
         \A s \in Services : eps'[s].live => eps'[s] = eps[s],
         PodsCount'
  PROVE  OrderInv'
<1>0. /\ \A s \in Services : LastPod(s) \in Nat /\ LastPod(s)' \in Nat /\ eps[s].pod \in Nat
      /\ \A r \in Replicas, s \in Services : CachedPod(r, s) \in Nat
  <2>1. \A s \in Services : LastPod(s)' \in Nat
    BY DEF TypeOK, ClusterTypeOK, PodObject, LastPod, Kinds
  <2> QED BY <2>1, OrderTyped
<1>1. \A r \in Replicas, s \in Services : CachedPod(r, s)' = CachedPod(r, s)
  BY DEF CachedPod
<1>2. EndpointsTrail'
  <2> SUFFICES ASSUME NEW s \in Services, eps'[s].live
               PROVE  /\ eps'[s].pod <= LastPod(s)'
                      /\ \A r \in Replicas : running'[r] => eps'[s].pod <= CachedPod(r, s)'
    BY DEF EndpointsTrail
  <2>1. eps[s].live /\ eps'[s] = eps[s]
    OBVIOUS
  <2>2. eps[s].pod <= LastPod(s)
    BY <2>1 DEF OrderInv, EndpointsTrail
  <2>3. eps[s].pod <= LastPod(s)'
    BY <1>0, <2>2
  <2> QED BY <1>1, <2>1, <2>3 DEF OrderInv, EndpointsTrail
<1>3. CachesTrail'
  BY <1>0, <1>1 DEF OrderInv, CachesTrail
<1>4. WorkTrails'
  BY <1>1 DEF OrderInv, WorkTrails
<1> QED BY <1>2, <1>3, <1>4 DEF OrderInv

LEMMA OrderInvEnvironment ==
  ASSUME TypeOK, TypeOK', OrderInv, EnvironmentStep PROVE OrderInv'
<1>0. /\ pod \in [Kinds -> [Services -> PodObject]]
      /\ eps \in [Services -> EndpointsObject]
      /\ ran \in [Services -> SUBSET Nat]
      /\ "egress" \in Kinds
      /\ \A s \in Services : LastPod(s) \in Nat
      /\ UNCHANGED <<podCache, running, work>>
  BY OrderTyped DEF TypeOK, ClusterTypeOK, EnvironmentStep, controllerVars, Kinds
<1> DEFINE Numbers == \A s \in Services : LastPod(s) <= LastPod(s)'
           Fewer == \A s \in Services : eps'[s].live => eps'[s] = eps[s]
           Goal == Numbers /\ Fewer /\ PodsCount'
\* The egress pods keep their numbers, none appears and none starts.
<1>1. ASSUME UNCHANGED ran, Fewer,
             \A s \in Services : /\ LastPod(s)' = LastPod(s)
                                 /\ pod'["egress"][s].live => pod["egress"][s].live
      PROVE  Goal
  BY <1>0, <1>1 DEF OrderInv, PodsCount
<1>2. ASSUME UserStep PROVE Goal
  <2>1. UNCHANGED <<pod, eps, ran>>
    BY <1>2 DEF UserStep, UserApply, UserDelete
  <2> QED BY <1>1, <2>1 DEF LastPod
<1>3. ASSUME NEW k \in Kinds, NEW s \in Services, PodFails(k, s) \/ PodDrained(k, s) \/ CollectPod(k, s)
      PROVE  Goal
  <2>1. UNCHANGED <<eps, ran>>
    BY <1>3 DEF PodFails, PodDrained, CollectPod
  <2>2. ASSUME NEW x \in Services
        PROVE  LastPod(x)' = LastPod(x) /\ pod'["egress"][x].live = pod["egress"][x].live
    <3>1. pod["egress"][x] \in PodObject
      BY <1>0
    <3>2. \/ pod'["egress"][x] = pod["egress"][x]
          \/ pod'["egress"][x] = [pod["egress"][x] EXCEPT !.phase = "Failed"]
          \/ pod'["egress"][x] = [pod["egress"][x] EXCEPT !.deleting = TRUE]
      <4>1. CASE PodFails(k, s)
        BY <1>0, <4>1 DEF PodFails
      <4>2. CASE PodDrained(k, s) \/ CollectPod(k, s)
        <5>1. pod' = [pod EXCEPT ![k][s].deleting = TRUE]
          BY <4>2 DEF PodDrained, CollectPod
        <5> QED BY <1>0, <5>1
      <4> QED BY <1>3, <4>1, <4>2
    <3>3. CASE pod'["egress"][x] = [pod["egress"][x] EXCEPT !.phase = "Failed"]
      BY <3>1, <3>3 DEF PodObject, LastPod
    <3>4. CASE pod'["egress"][x] = [pod["egress"][x] EXCEPT !.deleting = TRUE]
      BY <3>1, <3>4 DEF PodObject, LastPod
    <3> QED BY <3>2, <3>3, <3>4 DEF LastPod
  <2> QED BY <1>1, <2>1, <2>2
<1>4. ASSUME NEW k \in Kinds, NEW s \in Services, PodStarts(k, s) PROVE Goal
  <2>1. ASSUME NEW x \in Services
        PROVE  LastPod(x)' = LastPod(x) /\ pod'["egress"][x].live = pod["egress"][x].live
    <3>1. pod["egress"][x] \in PodObject
      BY <1>0
    <3>2. \/ pod'["egress"][x] = pod["egress"][x]
          \/ pod'["egress"][x] = [pod["egress"][x] EXCEPT !.phase = "Running"]
      BY <1>0, <1>4 DEF PodStarts
    <3> QED BY <3>1, <3>2 DEF PodObject, LastPod
  <2>2. ASSUME NEW x \in Services PROVE 0 \notin ran'[x]
    <3>1. ran'[x] = ran[x] \/ (k = "egress" /\ x = s /\ ran'[x] = ran[x] \cup {LastPod(s)})
      BY <1>0, <1>4 DEF PodStarts, LastPod
    <3>2. k = "egress" => 0 < LastPod(s)
      BY <1>4 DEF PodStarts, OrderInv, PodsCount
    <3> QED BY <1>0, <3>1, <3>2 DEF OrderInv, PodsCount
  <2> QED BY <1>0, <1>4, <2>1, <2>2 DEF PodStarts, OrderInv, PodsCount
<1>5. ASSUME NEW k \in Kinds, NEW s \in Services, PodRemoved(k, s) PROVE Goal
  <2>1. ASSUME NEW x \in Services
        PROVE  LastPod(x)' = LastPod(x) /\ (pod'["egress"][x].live => pod["egress"][x].live)
    <3>1. pod["egress"][x] \in PodObject
      BY <1>0
    <3>2. pod'["egress"][x] \in {pod["egress"][x], GonePod(pod["egress"][x])}
      BY <1>0, <1>5 DEF PodRemoved
    <3> QED BY <3>1, <3>2 DEF GonePod, PodObject, LastPod
  <2> QED BY <1>0, <1>1, <1>5, <2>1 DEF PodRemoved
<1>6. ASSUME NEW s \in Services, EndpointsSync(s) PROVE Goal
  BY <1>0, <1>1, <1>6 DEF EndpointsSync, NoEndpoints, LastPod
<1>7. Goal
  <2> HIDE DEF Goal
  <2> QED BY <1>2, <1>3, <1>4, <1>5, <1>6 DEF EnvironmentStep, DisruptionStep, ClusterStep
<1> QED BY <1>0, <1>7, OrderInvCluster

LEMMA OrderInvProcess ==
  ASSUME TypeOK, OrderInv, NEW r \in Replicas, ProcessStep(r) PROVE OrderInv'
<1>0. /\ podCache \in [Replicas -> [Kinds -> [Services -> PodObject]]]
      /\ work \in [Replicas -> [Kinds -> Work]]
      /\ running \in [Replicas -> BOOLEAN]
      /\ "egress" \in Kinds
      /\ UNCHANGED <<eps, pod, ran>>
      /\ \A s \in Services : LastPod(s) \in Nat /\ LastPod(s)' = LastPod(s) /\ eps[s].pod \in Nat
      /\ \A q \in Replicas, s \in Services : CachedPod(q, s) \in Nat
      /\ \A q \in Replicas : work[q]["egress"].pod \in Nat
  BY OrderTyped DEF TypeOK, ControllerTypeOK, ProcessStep, clusterVars, Kinds, LastPod
\* It is enough that no cache steps back, but for that of a process that exits.
<1>1. ASSUME \A q \in Replicas, s \in Services :
               \/ CachedPod(q, s)' = CachedPod(q, s)
               \/ CachedPod(q, s)' = LastPod(s)
               \/ CachedPod(q, s)' = 0 /\ ~running'[q] /\ work'[q]["egress"] = Idle,
             \A q \in Replicas, s \in Services : running'[q] =>
               running[q] \/ CachedPod(q, s)' = LastPod(s),
             \A q \in Replicas : work'[q]["egress"] \in {work[q]["egress"], Idle}
      PROVE  OrderInv'
  <2>1. PodsCount'
    BY <1>0 DEF OrderInv, PodsCount
  <2>2. EndpointsTrail'
    <3>1. ASSUME NEW s \in Services, eps[s].live, NEW q \in Replicas, running'[q]
          PROVE  eps[s].pod <= CachedPod(q, s)'
      <4>1. eps[s].pod <= LastPod(s)
        BY <3>1 DEF OrderInv, EndpointsTrail
      <4>2. CASE CachedPod(q, s)' = LastPod(s)
        BY <4>1, <4>2
      <4>3. CASE running[q] /\ CachedPod(q, s)' = CachedPod(q, s)
        BY <3>1, <4>3 DEF OrderInv, EndpointsTrail
      <4> QED BY <1>1, <3>1, <4>2, <4>3
    <3> QED BY <1>0, <3>1 DEF OrderInv, EndpointsTrail
  <2>3. CachesTrail'
    <3>1. ASSUME NEW q \in Replicas, NEW s \in Services PROVE CachedPod(q, s)' <= LastPod(s)
      <4>1. CachedPod(q, s) <= LastPod(s)
        BY DEF OrderInv, CachesTrail
      <4>2. CachedPod(q, s)' \in {CachedPod(q, s), LastPod(s), 0}
        BY <1>1
      <4> QED BY <1>0, <4>1, <4>2
    <3> QED BY <1>0, <3>1 DEF CachesTrail
  <2>4. WorkTrails'
    <3> SUFFICES ASSUME NEW q \in Replicas, NEW s \in Services,
                        work'[q]["egress"].at \in EndpointsSteps, work'[q]["egress"].key = s
                 PROVE  /\ work'[q]["egress"].pod <= CachedPod(q, s)'
                        /\ eps'[s].live => eps'[s].pod <= work'[q]["egress"].pod
      BY DEF WorkTrails
    <3>1. work'[q]["egress"] = work[q]["egress"] /\ work'[q]["egress"] # Idle
      BY <1>1, ConstantsTyped DEF EndpointsSteps
    <3>2. /\ work[q]["egress"].pod <= CachedPod(q, s)
          /\ eps[s].live => eps[s].pod <= work[q]["egress"].pod
          /\ CachedPod(q, s) <= LastPod(s)
      BY <3>1 DEF OrderInv, WorkTrails, CachesTrail
    <3>3. CachedPod(q, s)' = CachedPod(q, s) \/ CachedPod(q, s)' = LastPod(s)
      BY <1>1, <3>1
    <3>4. work[q]["egress"].pod <= CachedPod(q, s)'
      BY <1>0, <3>2, <3>3
    <3> QED BY <1>0, <3>1, <3>2, <3>4
  <2> QED BY <2>1, <2>2, <2>3, <2>4 DEF OrderInv
<1>2. CASE StartControllers(r)
  BY <1>0, <1>1, <1>2 DEF StartControllers, CachedPod, LastPod
<1>3. CASE ProcessExits(r)
  BY <1>0, <1>1, <1>3 DEF ProcessExits, CachedPod, NoPod
<1>4. ASSUME NEW k \in Kinds, NEW s \in Services, SyncPod(r, k, s) PROVE OrderInv'
  BY <1>0, <1>1, <1>4 DEF SyncPod, CachedPod, LastPod
<1>5. CASE UNCHANGED <<podCache, work, running>>
  BY <1>1, <1>5 DEF CachedPod
<1> QED BY <1>2, <1>3, <1>4, <1>5 DEF ProcessStep, InformerStep, SyncService, SyncEndpoints, Resync

\* A reconcile of egress writes the pod it holds into the Endpoints, and holds it
\* still, has just read it from its cache, or holds none.
WritesEndpoints(r) ==
  LET w == work[r]["egress"] IN
  /\ w.at \in {"createEndpoints", "updateEndpoints"}
  /\ eps[w.key].live => eps[w.key].pod # w.pod
  /\ eps' = [eps EXCEPT ![w.key] = [rv |-> eps[w.key].rv + 1, live |-> TRUE, pod |-> w.pod]]
  /\ UNCHANGED pod
  /\ work'[r]["egress"] = Idle

HoldsPod(r) ==
  LET w == work[r]["egress"]
      w1 == work'[r]["egress"]
  IN
  \/ w1.at \notin EndpointsSteps
  \/ /\ w1.key = w.key
     /\ \/ w.at \in EndpointsSteps /\ w1.pod = w.pod
        \/ w.at = "endpoints" /\ w1.pod = podCache[r]["egress"][w.key].inc

LEMMA EgressEffect ==
  ASSUME TypeOK, NEW r \in Replicas, EgressWorkerStep(r)
  PROVE  HoldsPod(r) /\ (UNCHANGED eps \/ WritesEndpoints(r))
<1> DEFINE w == work[r]["egress"]
           w1 == work'[r]["egress"]
<1>0. /\ work \in [Replicas -> [Kinds -> Work]]
      /\ eps \in [Services -> EndpointsObject]
      /\ w \in Work /\ Idle.at = "idle"
      /\ w.at # "idle" => w.key \in Services
      /\ "egress" \in Kinds
  BY ConstantsTyped DEF TypeOK, ClusterTypeOK, ControllerTypeOK, Kinds
<1>1. ASSUME NEW x \in Work, NEW at, Continue(r, "egress", x, at)
      PROVE  w1.at = at /\ w1.key = x.key /\ w1.pod = x.pod
  <2>1. w1 = [x EXCEPT !.at = at]
    BY <1>0, <1>1 DEF Continue
  <2> QED BY <2>1 DEF Work
<1>2. /\ Retry(r, "egress") => w1 = Idle /\ w1.at \notin EndpointsSteps
      /\ \A s, v : Done(r, "egress", s, v) => w1 = Idle /\ w1.at \notin EndpointsSteps
  BY <1>0 DEF Retry, Done, EndpointsSteps
<1>3. ASSUME NEW s \in Services, EgressReconcile(r, s) PROVE UNCHANGED eps /\ w1.at \notin EndpointsSteps
  <2>1. svcCache[r][s] \in ServiceVersion
    BY DEF TypeOK, ControllerTypeOK
  <2> QED BY <1>1, <1>2, <1>3, <2>1, ConstantsTyped DEF EgressReconcile, clusterVars, EndpointsSteps
<1>4. ASSUME EgressEnsureProxyPod(r) \/ EgressCreateProxyPod(r) \/ EgressCleanupProxyPod(r)
      PROVE  UNCHANGED eps /\ w1.at \notin EndpointsSteps
  <2>1. CASE EgressEnsureProxyPod(r)
    <3>1. UNCHANGED eps /\ w.at = "ensure"
      BY <2>1 DEF EgressEnsureProxyPod, clusterVars
    <3>2. Continue(r, "egress", w, "endpoints") \/ Continue(r, "egress", w, "create")
      BY <2>1 DEF EgressEnsureProxyPod
    <3> QED BY <1>0, <1>1, <3>1, <3>2 DEF EndpointsSteps
  <2>2. CASE EgressCreateProxyPod(r)
    <3>1. UNCHANGED eps /\ w.at = "create"
      BY <2>2 DEF EgressCreateProxyPod
    <3>2. Continue(r, "egress", w, "endpoints") \/ Retry(r, "egress")
      BY <2>2 DEF EgressCreateProxyPod, AnswerLost
    <3> QED BY <1>0, <1>1, <1>2, <3>1, <3>2 DEF EndpointsSteps
  <2>3. CASE EgressCleanupProxyPod(r)
    BY <1>0, <1>1, <1>2, <2>3 DEF EgressCleanupProxyPod, EndpointsSteps, clusterVars
  <2> QED BY <1>4, <2>1, <2>2, <2>3
<1>5. ASSUME EgressDeleteProxyPod(r) \/ (RequestFails(r, "egress") /\ UNCHANGED clusterVars)
      PROVE  UNCHANGED eps /\ w1.at \notin EndpointsSteps
  BY <1>2, <1>5 DEF EgressDeleteProxyPod, RequestFails, EgressAnswered, AnswerLost, clusterVars
<1>6. ASSUME EgressGetRunningPod(r) PROVE UNCHANGED eps /\ HoldsPod(r)
  <2> DEFINE x == [w EXCEPT !.pod = podCache[r]["egress"][w.key].inc]
  <2>1. /\ UNCHANGED eps
        /\ w.at = "endpoints"
        /\ Continue(r, "egress", x, "getEndpoints") \/ Done(r, "egress", w.key, w.svc)
    BY <1>6 DEF EgressGetRunningPod, clusterVars
  <2>2. CASE Continue(r, "egress", x, "getEndpoints")
    <3>1. podCache[r]["egress"][w.key] \in PodObject
      BY <1>0, <2>1 DEF TypeOK, ControllerTypeOK
    <3>2. podCache[r]["egress"][w.key].inc \in Nat
      BY <3>1 DEF PodObject
    <3>3. x \in Work /\ x.key = w.key /\ x.pod = podCache[r]["egress"][w.key].inc
      BY <1>0, <3>2 DEF Work
    <3>4. w1.key = w.key /\ w1.pod = podCache[r]["egress"][w.key].inc
      <4> HIDE DEF x
      <4> QED BY <1>1, <2>2, <3>3
    <3> QED BY <2>1, <3>4 DEF HoldsPod
  <2> QED BY <1>2, <2>1, <2>2 DEF HoldsPod
<1>7. ASSUME EgressGetEndpoints(r) PROVE UNCHANGED eps /\ HoldsPod(r)
  <2> DEFINE x == [w EXCEPT !.eps = epsCache[r][w.key]]
  <2>1. /\ UNCHANGED eps
        /\ w.at = "getEndpoints"
        /\ Continue(r, "egress", x, "updateEndpoints") \/ Continue(r, "egress", w, "createEndpoints")
    BY <1>7 DEF EgressGetEndpoints, clusterVars
  <2>2. x \in Work /\ x.key = w.key /\ x.pod = w.pod
    <3>1. epsCache[r][w.key] \in EndpointsObject
      BY <1>0, <2>1 DEF TypeOK, ControllerTypeOK
    <3> QED BY <1>0, <3>1 DEF Work
  <2>3. w1.key = w.key /\ w1.pod = w.pod
    <3> HIDE DEF x
    <3> QED BY <1>0, <1>1, <2>1, <2>2
  <2> QED BY <2>1, <2>3 DEF HoldsPod, EndpointsSteps
<1>8. ASSUME EgressCreateEndpoints(r) \/ EgressUpdateEndpoints(r)
      PROVE  w1 = Idle /\ w1.at \notin EndpointsSteps /\ (UNCHANGED eps \/ WritesEndpoints(r))
  <2>1. w1 = Idle /\ w1.at \notin EndpointsSteps
    BY <1>2, <1>8 DEF EgressCreateEndpoints, EgressUpdateEndpoints, EgressAnswered, AnswerLost
  <2>2. CASE EgressCreateEndpoints(r)
    BY <2>1, <2>2 DEF EgressCreateEndpoints, WriteEndpoints, WritesEndpoints
  <2>3. CASE EgressUpdateEndpoints(r)
    BY <2>1, <2>3 DEF EgressUpdateEndpoints, WriteEndpoints, WritesEndpoints
  <2> QED BY <1>8, <2>1, <2>2, <2>3
<1> QED BY <1>3, <1>4, <1>5, <1>6, <1>7, <1>8 DEF EgressWorkerStep, EgressStep, HoldsPod

LEMMA IngressEffect ==
  ASSUME TypeOK, NEW r \in Replicas, IngressWorkerStep(r)
  PROVE  /\ UNCHANGED eps
         /\ pod'["egress"] = pod["egress"]
         /\ \A q \in Replicas : work'[q]["egress"] = work[q]["egress"]
<1>0. /\ pod \in [Kinds -> [Services -> PodObject]]
      /\ "egress" \in Kinds /\ "ingress" \in Kinds
      /\ WorkerMoves(r, "ingress")
  BY IngressMoves DEF TypeOK, ClusterTypeOK, Kinds
<1>1. UNCHANGED eps
  BY DEF IngressWorkerStep, IngressReconcile, IngressStep, IngressEnsureProxyPod,
     IngressCreateProxyPod, IngressCleanupProxyPod, IngressDeleteProxyPod, clusterVars
<1>2. pod'["egress"] = pod["egress"]
  BY <1>0 DEF WorkerMoves, Starts, GoesOn, CreatesPod, DeletesPod
<1> QED BY <1>0, <1>1, <1>2, WorkEffect

\* The egress pods of a step of the egress worker: none is removed or started.
LEMMA EgressPods ==
  ASSUME TypeOK, NEW r \in Replicas, WorkerMoves(r, "egress"), NEW s \in Services
  PROVE  /\ LastPod(s) <= LastPod(s)'
         /\ pod'["egress"][s].live => 0 < LastPod(s)' \/ pod["egress"][s].live
<1> DEFINE w == work[r]["egress"]
<1>0. /\ pod["egress"] \in [Services -> PodObject]
      /\ pod \in [Kinds -> [Services -> PodObject]]
      /\ "egress" \in Kinds
      /\ LastPod(s) \in Nat
      /\ w.at # "idle" => w.key \in Services
  BY OrderTyped DEF TypeOK, ClusterTypeOK, ControllerTypeOK, Kinds
<1>1. CASE UNCHANGED pod
  BY <1>0, <1>1 DEF LastPod
<1>2. CASE CreatesPod(r, "egress")
  <2>1. PICK p \in PodObject :
          /\ p.inc = pod["egress"][w.key].inc + 1
          /\ pod' = [pod EXCEPT !["egress"][w.key] = p]
    BY <1>2 DEF CreatesPod
  <2>2. pod'["egress"][s] = IF s = w.key THEN p ELSE pod["egress"][s]
    BY <1>0, <2>1
  <2> QED BY <1>0, <2>1, <2>2 DEF LastPod
<1>3. CASE DeletesPod(r, "egress")
  <2>1. pod'["egress"][s] \in {pod["egress"][s], [pod["egress"][s] EXCEPT !.deleting = TRUE]}
    BY <1>0, <1>3 DEF DeletesPod
  <2>2. pod["egress"][s] \in PodObject
    BY <1>0
  <2>3. LastPod(s)' = LastPod(s) /\ pod'["egress"][s].live = pod["egress"][s].live
    BY <2>1, <2>2 DEF PodObject, LastPod
  <2> QED BY <1>0, <2>3
<1> QED BY <1>1, <1>2, <1>3 DEF WorkerMoves, Starts, GoesOn

LEMMA OrderInvEgress ==
  ASSUME OneWorks, TypeOK, OneLeader, StoppedIsIdle, OrderInv, TypeOK',
         NEW r \in Replicas, EgressWorkerStep(r)
  PROVE  OrderInv'
<1> DEFINE w == work[r]["egress"]
           w1 == work'[r]["egress"]
<1>0. /\ eps \in [Services -> EndpointsObject]
      /\ ran \in [Services -> SUBSET Nat]
      /\ \A s \in Services : LastPod(s) \in Nat /\ eps[s].pod \in Nat
      /\ \A q \in Replicas, s \in Services : CachedPod(q, s) \in Nat
      /\ w.pod \in Nat
      /\ w.at # "idle" => w.key \in Services /\ running[r]
      /\ \A q \in Replicas : work[q]["egress"].at # "idle" => running[q]
      /\ WorkerMoves(r, "egress")
      /\ HoldsPod(r)
      /\ UNCHANGED eps \/ WritesEndpoints(r)
      /\ Idle.at = "idle"
      /\ "egress" \in Kinds
  BY OrderTyped, EgressMoves, EgressEffect, ConstantsTyped
     DEF TypeOK, ClusterTypeOK, ControllerTypeOK, StoppedIsIdle, Kinds
<1>1. /\ UNCHANGED <<running, podCache, ran>>
      /\ \A q \in Replicas, s \in Services : CachedPod(q, s)' = CachedPod(q, s)
      /\ \A q \in Replicas : q # r => work'[q]["egress"] = work[q]["egress"]
  BY <1>0, WorkEffect DEF WorkerMoves, cacheVars, CachedPod
<1>2. \A s \in Services : LastPod(s)' \in Nat /\ LastPod(s) <= LastPod(s)'
  <2>1. \A s \in Services : LastPod(s)' \in Nat
    BY <1>0 DEF TypeOK, ClusterTypeOK, PodObject, LastPod
  <2> QED BY <1>0, <2>1, EgressPods
<1>3. PodsCount'
  <2>1. ASSUME NEW s \in Services, pod'["egress"][s].live PROVE 0 < LastPod(s)'
    BY <1>0, <1>2, <2>1, EgressPods DEF OrderInv, PodsCount
  <2> QED BY <1>1, <2>1 DEF OrderInv, PodsCount
<1>4. CachesTrail'
  <2>1. ASSUME NEW q \in Replicas, NEW s \in Services PROVE CachedPod(q, s) <= LastPod(s)'
    <3>1. CachedPod(q, s) <= LastPod(s)
      BY DEF OrderInv, CachesTrail
    <3> QED BY <1>0, <1>2, <3>1
  <2> QED BY <1>1, <2>1 DEF CachesTrail
\* The Endpoints that are written name the pod the reconcile holds.
<1>5. ASSUME WritesEndpoints(r), NEW s \in Services, eps'[s] # eps[s]
      PROVE  /\ s = w.key /\ running[r]
             /\ eps'[s].pod = w.pod
             /\ w.pod <= CachedPod(r, s) /\ w.pod <= LastPod(s)'
  <2>1. s = w.key /\ running[r] /\ w.at \in EndpointsSteps /\ eps'[s].pod = w.pod
    BY <1>0, <1>5 DEF WritesEndpoints, EndpointsSteps
  <2>2. w.pod <= CachedPod(r, s)
    BY <2>1 DEF OrderInv, WorkTrails
  <2>3. CachedPod(r, s) <= LastPod(s)'
    BY <1>1, <1>4 DEF CachesTrail
  <2> QED BY <1>0, <1>2, <2>1, <2>2, <2>3
<1>6. EndpointsTrail'
  <2>1. ASSUME NEW s \in Services, eps'[s].live
        PROVE  /\ eps'[s].pod <= LastPod(s)'
               /\ \A q \in Replicas : running[q] => eps'[s].pod <= CachedPod(q, s)
    <3>1. CASE eps'[s] = eps[s]
      <4>1. eps[s].pod <= LastPod(s)
        BY <2>1, <3>1 DEF OrderInv, EndpointsTrail
      <4>2. eps[s].pod <= LastPod(s)'
        BY <1>0, <1>2, <4>1
      <4> QED BY <2>1, <3>1, <4>2 DEF OrderInv, EndpointsTrail
    <3>2. CASE eps'[s] # eps[s]
      BY <1>0, <1>5, <3>2 DEF OneLeader
    <3> QED BY <3>1, <3>2
  <2> QED BY <1>1, <2>1 DEF EndpointsTrail
<1>7. WorkTrails'
  <2>1. ASSUME NEW q \in Replicas, NEW s \in Services,
               work'[q]["egress"].at \in EndpointsSteps, work'[q]["egress"].key = s
        PROVE  /\ work'[q]["egress"].pod <= CachedPod(q, s)
               /\ eps'[s].live => eps'[s].pod <= work'[q]["egress"].pod
    <3>1. CASE q # r
      <4>1. work'[q]["egress"] = work[q]["egress"] /\ running[q]
        BY <1>0, <1>1, <2>1, <3>1 DEF EndpointsSteps
      <4>2. eps'[s] = eps[s]
        BY <1>0, <1>5, <3>1, <4>1 DEF OneLeader
      <4> QED BY <2>1, <4>1, <4>2 DEF OrderInv, WorkTrails
    <3>2. CASE q = r
      <4>1. w1.at \in EndpointsSteps /\ w1.key = s /\ UNCHANGED eps
        BY <1>0, <2>1, <3>2 DEF WritesEndpoints, EndpointsSteps
      <4>2. CASE w.at \in EndpointsSteps /\ w.key = s /\ w1.pod = w.pod
        BY <3>2, <4>1, <4>2 DEF OrderInv, WorkTrails
      <4>3. CASE w.at = "endpoints" /\ w.key = s /\ w1.pod = CachedPod(r, s)
        <5>1. eps[s].live => eps[s].pod <= CachedPod(r, s)
          BY <1>0, <4>3 DEF OrderInv, EndpointsTrail
        <5> QED BY <1>0, <3>2, <4>1, <4>3, <5>1
      <4> QED BY <1>0, <4>1, <4>2, <4>3 DEF HoldsPod, CachedPod
    <3> QED BY <3>1, <3>2
  <2> QED BY <1>1, <2>1 DEF WorkTrails
<1> QED BY <1>3, <1>4, <1>6, <1>7 DEF OrderInv

LEMMA OrderInvStep ==
  ASSUME OneWorks, TypeOK, TypeOK', OneLeader, StoppedIsIdle, OrderInv, [Next]_vars
  PROVE  OrderInv'
<1>1. CASE UNCHANGED vars
  BY <1>1 DEF vars, OrderInv, PodsCount, EndpointsTrail, CachesTrail, WorkTrails, LastPod, CachedPod
<1>2. ASSUME NEW r \in Replicas, IngressWorkerStep(r) PROVE OrderInv'
  <2>1. /\ UNCHANGED <<eps, running, podCache, ran>>
        /\ pod'["egress"] = pod["egress"]
        /\ \A q \in Replicas : work'[q]["egress"] = work[q]["egress"]
    BY <1>2, IngressEffect, IngressMoves DEF WorkerMoves, cacheVars
  <2> QED BY <2>1 DEF OrderInv, PodsCount, EndpointsTrail, CachesTrail, WorkTrails, LastPod, CachedPod
<1> QED BY <1>1, <1>2, OrderInvEnvironment, OrderInvProcess, OrderInvEgress DEF Next

\* All that holds of the system when only the leader runs its controllers.
PromiseInv == TypeOK /\ LeaderInv /\ WorkJustified /\ PodsAskedFor /\ RanInv /\ OrderInv

LEMMA PromiseInvariant == ASSUME OneWorks PROVE Spec => []PromiseInv
<1>1. Init => LeaderInv /\ WorkJustified /\ PodsAskedFor /\ OrderInv
  BY LeaderInvInit, AskedForInit, OrderInvInit
<1>2. ASSUME TypeOK, TypeOK', LeaderInv /\ WorkJustified /\ PodsAskedFor /\ OrderInv, [Next]_vars
      PROVE  (LeaderInv /\ WorkJustified /\ PodsAskedFor /\ OrderInv)'
  <2>1. LeaderInv'
    BY <1>2, OneLeaderStep, StoppedIsIdleStep, CachesFollowStep, PodsFollowStep DEF LeaderInv
  <2>2. WorkJustified' /\ PodsAskedFor'
    BY <1>2, WorkJustifiedStep, PodsAskedForStep
  <2>3. OrderInv'
    BY <1>2, OrderInvStep DEF LeaderInv
  <2> QED BY <2>1, <2>2, <2>3
<1>3. Spec => []RanInv
  BY RanInvariant
<1> QED BY <1>1, <1>2, <1>3, TypeCorrect, PTL DEF Spec, PromiseInv

\* With leader election or a single replica, whatever is cached by old and new
\* leaders, and whatever requests fail: the Endpoints of a Service are never turned back to a pod that
\* came before the one they name.
THEOREM EndpointsMoveForward == ASSUME OneWorks PROVE Spec => EndpointsNeverGoBack
<1>1. ASSUME PromiseInv, [Next]_vars, NEW s \in Services, eps[s].live, eps'[s].live
      PROVE  eps[s].pod <= eps'[s].pod
  <2>0. /\ TypeOK /\ OrderInv
        /\ eps \in [Services -> EndpointsObject]
        /\ eps[s].pod \in Nat
    BY <1>1, OrderTyped DEF PromiseInv, TypeOK, ClusterTypeOK
  <2>1. CASE eps'[s] = eps[s]
    BY <2>0, <2>1
  <2>2. ASSUME NEW r \in Replicas, EgressWorkerStep(r), eps'[s] # eps[s]
        PROVE  eps[s].pod <= eps'[s].pod
    <3> DEFINE w == work[r]["egress"]
    <3>1. WritesEndpoints(r)
      BY <2>0, <2>2, EgressEffect
    <3>2. w.key = s /\ w.at \in EndpointsSteps /\ eps'[s].pod = w.pod
      BY <2>0, <2>2, <3>1 DEF WritesEndpoints, EndpointsSteps
    <3> QED BY <1>1, <2>0, <3>2 DEF OrderInv, WorkTrails
  <2>3. ASSUME NEW r \in Replicas, IngressWorkerStep(r) PROVE eps'[s] = eps[s]
    <3>1. UNCHANGED eps
      BY <2>0, <2>3, IngressEffect
    <3> QED BY <3>1
  <2>4. ASSUME EnvironmentStep PROVE eps'[s] = eps[s]
    <3>1. CASE UNCHANGED eps
      BY <3>1
    <3>2. ASSUME NEW x \in Services, EndpointsSync(x), ~UNCHANGED eps PROVE eps'[s] = eps[s]
      BY <1>1, <2>0, <3>2 DEF EndpointsSync, NoEndpoints
    <3>3. CASE UserStep \/ DisruptionStep
      BY <3>1, <3>3 DEF UserStep, UserApply, UserDelete, DisruptionStep, PodFails, PodDrained
    <3>4. CASE ClusterStep
      BY <3>1, <3>2, <3>4 DEF ClusterStep, PodStarts, CollectPod, PodRemoved
    <3> QED BY <2>4, <3>3, <3>4 DEF EnvironmentStep
  <2>5. ASSUME NEW r \in Replicas, ProcessStep(r) PROVE eps'[s] = eps[s]
    BY <2>5 DEF ProcessStep, clusterVars
  <2> QED BY <1>1, <2>1, <2>2, <2>3, <2>4, <2>5 DEF Next, vars
<1>2. PromiseInv /\ [Next]_vars =>
        [\A s \in Services : eps[s].live /\ eps'[s].live => eps[s].pod <= eps'[s].pod]_vars
  BY <1>1
<1> QED BY <1>2, PromiseInvariant, PTL DEF Spec, EndpointsNeverGoBack

\* A reconcile that deletes a pod of s has seen s move on, so s has.
LEMMA DeletesEarlier ==
  ASSUME PromiseInv, NEW r \in Replicas, NEW k \in Kinds, DeletesPod(r, k)
  PROVE  pod[k][work[r][k].key].built.rv < svc[work[r][k].key].rv
<1> DEFINE s == work[r][k].key
           v == work[r][k].svc
<1>0. /\ s \in Services /\ running[r] /\ v \in ServiceVersion
      /\ svcCache[r][s] \in ServiceVersion /\ svc[s] \in ServiceVersion
      /\ pod[k][s].built \in ServiceVersion
  BY DEF DeletesPod, PromiseInv, TypeOK, ClusterTypeOK, ControllerTypeOK, Work, LeaderInv,
     StoppedIsIdle, PodObject
<1>1. Precedes(pod[k][s].built, v) /\ Precedes(v, svcCache[r][s]) /\ Precedes(svcCache[r][s], svc[s])
  BY <1>0 DEF DeletesPod, PromiseInv, LeaderInv, PodsFollow, CachesFollow
<1>2. Asks(k, pod[k][s].built) /\ Unasked(k, v)
  BY <1>0 DEF DeletesPod, PromiseInv, PodsAskedFor, WorkJustified, Removes
<1>3. pod[k][s].built.rv < v.rv
  BY <1>1, <1>2 DEF Precedes, Asks, Unasked, EgressWanted, IngressWanted
<1>4. Precedes(v, svc[s])
  <2> HIDE DEF s, v
  <2> QED BY <1>0, <1>1, PrecedesOrder
<1>5. pod[k][s].built.rv \in Nat /\ v.rv \in Nat /\ svc[s].rv \in Nat
  BY <1>0 DEF ServiceVersion
<1> QED BY <1>3, <1>4, <1>5 DEF Precedes

\* With leader election or a single replica: a name never gets a pod built from an
\* earlier Service version than the one before it, also when the pods in between
\* were made by other replicas or are long gone.
THEOREM PodsMoveForward == ASSUME OneWorks PROVE Spec => PodsNeverGoBack
<1>1. ASSUME PromiseInv, [Next]_vars, NEW k \in Kinds, NEW s \in Services,
             pod'[k][s].inc # pod[k][s].inc
      PROVE  Precedes(pod[k][s].built, pod'[k][s].built)
  <2>1. CASE UNCHANGED pod
    BY <1>1, <2>1
  <2>2. CASE EnvironmentStep
    BY <1>1, <2>2, EnvironmentEffect DEF PromiseInv, SamePod
  <2>3. ASSUME NEW r \in Replicas, NEW j \in Kinds, WorkerMoves(r, j)
        PROVE  Precedes(pod[k][s].built, pod'[k][s].built)
    <3>1. /\ work[r][k].at = "create" /\ work[r][k].key = s
          /\ pod'[k][s].built = work[r][k].svc
      BY <1>1, <2>3, PodEffect DEF PromiseInv, SamePod
    <3> QED BY <1>1, <3>1 DEF PromiseInv, LeaderInv, PodsFollow
  <2>4. ASSUME NEW r \in Replicas, ProcessStep(r) PROVE UNCHANGED pod
    BY <2>4 DEF ProcessStep, clusterVars
  <2> QED BY <1>1, <2>1, <2>2, <2>3, <2>4, EgressMoves, IngressMoves
          DEF Next, vars, PromiseInv, Kinds
<1>2. PromiseInv /\ [Next]_vars =>
        [\A k \in Kinds, s \in Services :
           pod'[k][s].inc # pod[k][s].inc => Precedes(pod[k][s].built, pod'[k][s].built)]_vars
  BY <1>1
<1> QED BY <1>2, PromiseInvariant, PTL DEF Spec, PodsNeverGoBack

-----------------------------------------------------------------------------
(* What is served stays served                                               *)

\* A step that is no disruption leaves the egress pod of s as it is, if that pod
\* runs and is made of the present version of s.
LEMMA ServingPodStays ==
  ASSUME PromiseInv, [Next]_vars, UNCHANGED disruptions, NEW s \in Services,
         Served(s), pod["egress"][s].built = svc[s]
  PROVE  pod'["egress"][s] = pod["egress"][s]
<1> DEFINE p == pod["egress"][s]
<1>0. /\ TypeOK /\ "egress" \in Kinds
      /\ pod \in [Kinds -> [Services -> PodObject]]
      /\ disruptions \in Nat
      /\ p.live /\ ~p.deleting /\ p.phase = "Running"
  BY DEF PromiseInv, TypeOK, ClusterTypeOK, Kinds, Served
<1>1. svc[s].live
  BY <1>0 DEF PromiseInv, PodsAskedFor, Asks, EgressWanted, isEgressEnabled
<1>2. CASE UNCHANGED pod
  BY <1>2
<1>3. ASSUME NEW k \in Kinds, NEW x \in Services,
             PodStarts(k, x) \/ CollectPod(k, x) \/ PodRemoved(k, x)
      PROVE  pod'["egress"][s] = p
  <2>1. ~(k = "egress" /\ x = s)
    BY <1>0, <1>1, <1>3 DEF PodStarts, CollectPod, OwnerExists, PodRemoved
  <2> QED BY <1>0, <1>3, <2>1 DEF PodStarts, CollectPod, PodRemoved
<1>4. CASE EnvironmentStep
  <2>1. ~DisruptionStep
    BY <1>0 DEF DisruptionStep, PodFails, PodDrained
  <2> QED BY <1>2, <1>3, <1>4, <2>1
      DEF EnvironmentStep, UserStep, UserApply, UserDelete, ClusterStep, EndpointsSync
<1>5. ASSUME NEW r \in Replicas, EgressWorkerStep(r) PROVE pod'["egress"][s] = p
  <2> DEFINE x == work[r]["egress"].key
  <2>1. UNCHANGED pod \/ CreatesPod(r, "egress") \/ DeletesPod(r, "egress")
    BY <1>0, <1>5, EgressMoves DEF WorkerMoves, Starts, GoesOn
  <2>2. CASE CreatesPod(r, "egress")
    BY <1>0, <2>2 DEF CreatesPod
  <2>3. CASE DeletesPod(r, "egress")
    <3>1. x \in Services /\ pod["egress"][x].built.rv < svc[x].rv
      BY <1>0, <2>3, DeletesEarlier DEF DeletesPod, TypeOK, ControllerTypeOK
    <3>2. x # s
      <4>1. svc[s].rv \in Nat
        BY <1>0 DEF TypeOK, ClusterTypeOK, ServiceVersion
      <4> QED BY <3>1, <4>1
    <3> QED BY <1>0, <2>3, <3>2 DEF DeletesPod
  <2> QED BY <1>2, <2>1, <2>2, <2>3
<1>6. ASSUME NEW r \in Replicas, ProcessStep(r) PROVE pod'["egress"][s] = p
  BY <1>6 DEF ProcessStep, clusterVars
<1>7. ASSUME NEW r \in Replicas, IngressWorkerStep(r) PROVE pod'["egress"][s] = p
  BY <1>0, <1>7, IngressEffect
<1> QED BY <1>2, <1>4, <1>5, <1>6, <1>7 DEF Next, vars

\* No step turns the Endpoints of s away from such a pod: the endpoints controller
\* finds its Service, and a worker that has seen another pod has seen this one.
LEMMA ServingEndpointsStay ==
  ASSUME PromiseInv, [Next]_vars, NEW s \in Services,
         Served(s), pod["egress"][s].built = svc[s]
  PROVE  eps'[s] = eps[s]
<1>0. /\ TypeOK /\ "egress" \in Kinds
      /\ eps \in [Services -> EndpointsObject]
      /\ eps[s].live /\ eps[s].pod = LastPod(s) /\ LastPod(s) \in Nat
  BY OrderTyped DEF PromiseInv, TypeOK, ClusterTypeOK, Kinds, Served, LastPod
<1>1. svc[s].live
  BY <1>0 DEF PromiseInv, PodsAskedFor, Asks, EgressWanted, isEgressEnabled, Served
<1>2. CASE UNCHANGED eps
  BY <1>2
<1>3. CASE EnvironmentStep
  <2>1. ASSUME NEW x \in Services, EndpointsSync(x) PROVE eps'[s] = eps[s]
    BY <1>0, <1>1, <2>1 DEF EndpointsSync
  <2> QED BY <1>2, <1>3, <2>1
      DEF EnvironmentStep, UserStep, UserApply, UserDelete, DisruptionStep, PodFails,
          PodDrained, ClusterStep, PodStarts, CollectPod, PodRemoved
<1>4. ASSUME NEW r \in Replicas, EgressWorkerStep(r) PROVE eps'[s] = eps[s]
  <2> DEFINE w == work[r]["egress"]
  <2>1. UNCHANGED eps \/ WritesEndpoints(r)
    BY <1>0, <1>4, EgressEffect
  <2>2. ASSUME WritesEndpoints(r) PROVE w.key # s
    <3>1. SUFFICES ASSUME w.key = s PROVE FALSE
      OBVIOUS
    <3>2. w.at \in EndpointsSteps /\ eps[s].pod # w.pod /\ w.pod \in Nat
      BY <1>0, <2>2, <3>1, OrderTyped DEF WritesEndpoints, EndpointsSteps
    <3>3. /\ w.pod <= CachedPod(r, s) /\ eps[s].pod <= w.pod
          /\ CachedPod(r, s) <= LastPod(s) /\ CachedPod(r, s) \in Nat
      BY <1>0, <3>1, <3>2, OrderTyped DEF PromiseInv, OrderInv, WorkTrails, CachesTrail
    <3> QED BY <1>0, <3>2, <3>3
  <2> QED BY <1>0, <1>2, <2>1, <2>2 DEF WritesEndpoints
<1>5. ASSUME NEW r \in Replicas, ProcessStep(r) PROVE eps'[s] = eps[s]
  BY <1>5 DEF ProcessStep, clusterVars
<1>6. ASSUME NEW r \in Replicas, IngressWorkerStep(r) PROVE eps'[s] = eps[s]
  BY <1>0, <1>2, <1>6, IngressEffect
<1> QED BY <1>2, <1>3, <1>4, <1>5, <1>6 DEF Next, vars

\* With leader election or a single replica: once a Service is reached through a pod
\* made of its present version, nothing but a disruption ends that.
THEOREM ServiceStaysServed == ASSUME OneWorks PROVE Spec => ServedStaysServed
<1>1. PromiseInv /\ [Next]_vars =>
        [\A s \in Services :
           Served(s) /\ pod["egress"][s].built = svc[s] /\ UNCHANGED disruptions
             => Served(s)']_vars
  BY ServingPodStays, ServingEndpointsStay DEF Served
<1> QED BY <1>1, PromiseInvariant, PTL DEF Spec, ServedStaysServed

-----------------------------------------------------------------------------
(* Every step is a step of ProxyPromise, or none                             *)

Proxy == [k \in Kinds |-> [s \in Services |-> ProxyOf(pod[k][s])]]
Route == [s \in Services |-> IF eps[s].live THEN eps[s].pod ELSE 0]

\* The steps below change one pod at most: what that does to its proxy.
LEMMA ProxyEdit ==
  ASSUME TypeOK, NEW k \in Kinds, NEW s \in Services, NEW p,
         pod' = [pod EXCEPT ![k][s] = p]
  PROVE  /\ Proxy'[k][s] = ProxyOf(p)
         /\ Proxy' = [Proxy EXCEPT ![k][s] = ProxyOf(p)]
<1> DEFINE F == [j \in Kinds |-> [x \in Services |->
                   IF j = k /\ x = s THEN ProxyOf(p) ELSE Proxy[j][x]]]
<1>0. pod \in [Kinds -> [Services -> PodObject]]
  BY DEF TypeOK, ClusterTypeOK
<1>1. \A j \in Kinds, x \in Services :
        pod'[j][x] = IF j = k /\ x = s THEN p ELSE pod[j][x]
  BY <1>0
<1>2. \A j \in Kinds, x \in Services : ProxyOf(pod'[j][x]) = F[j][x]
  BY <1>1 DEF Proxy
<1>3. Proxy' = F
  <2>1. Proxy' = [j \in Kinds |-> [x \in Services |-> ProxyOf(pod'[j][x])]]
    BY DEF Proxy, ProxyOf
  <2>2. \A j \in Kinds : [x \in Services |-> ProxyOf(pod'[j][x])] = F[j]
    BY <1>2
  <2> QED BY <2>1, <2>2
<1>4. [Proxy EXCEPT ![k][s] = ProxyOf(p)] = F
  BY DEF Proxy
<1> QED BY <1>3, <1>4

LEMMA PromiseSame ==
  ASSUME UNCHANGED <<svc, pod, eps, ran, disruptions>> PROVE UNCHANGED Promise!vars
BY DEF Promise!vars, ProxyOf

LEMMA PromiseInit == Init => Promise!Init
BY DEF Init, ClusterInit, Promise!Init, Promise!None, ProxyOf, NoPod, NoEndpoints, NoService

LEMMA PromiseBuild ==
  ASSUME PromiseInv, NEW r \in Replicas, NEW k \in Kinds, WorkerMoves(r, k), CreatesPod(r, k),
         UNCHANGED eps
  PROVE  \E s \in Services : Promise!Build(k, s)
<1> DEFINE s == work[r][k].key
           v == work[r][k].svc
<1>0. /\ s \in Services /\ running[r] /\ v \in ServiceVersion
      /\ svcCache[r][s] \in ServiceVersion /\ svc[s] \in ServiceVersion
  BY DEF CreatesPod, PromiseInv, TypeOK, ClusterTypeOK, ControllerTypeOK, Work, LeaderInv, StoppedIsIdle
<1>1. PICK p \in PodObject :
        /\ p.live /\ ~p.deleting
        /\ p.inc = pod[k][s].inc + 1
        /\ p.built = v
        /\ pod' = [pod EXCEPT ![k][s] = p]
  BY DEF CreatesPod
<1>2. Precedes(v, svc[s])
  <2>1. Precedes(v, svcCache[r][s]) /\ Precedes(svcCache[r][s], svc[s])
    BY <1>0 DEF CreatesPod, PromiseInv, LeaderInv, CachesFollow
  <2> QED BY <1>0, <2>1, PrecedesOrder
<1>3. Promise!Asks(k, v) /\ Promise!UpTo(pod[k][s].built, v)
  <2>1. Promise!Asks(k, v)
    BY DEF CreatesPod, PromiseInv, WorkJustified, Keeps, Asks, Promise!Asks, EgressWanted,
       isEgressEnabled, getEgressTarget, IngressWanted, isIngressEnabled, IngressSkipped, Kinds
  <2>2. Precedes(pod[k][s].built, v)
    BY <1>0 DEF CreatesPod, PromiseInv, LeaderInv, PodsFollow
  <2> QED BY <2>1, <2>2 DEF Precedes, Promise!UpTo
<1>4. /\ ProxyOf(p) = [state |-> "up", n |-> pod[k][s].inc + 1, of |-> v]
      /\ Proxy[k][s] = [state |-> "none", n |-> pod[k][s].inc, of |-> pod[k][s].built]
  BY <1>0, <1>1 DEF ProxyOf, Proxy, CreatesPod
<1>5. /\ Proxy'[k][s] = ProxyOf(p)
      /\ Proxy' = [Proxy EXCEPT ![k][s] = ProxyOf(p)]
  BY <1>0, <1>1, ProxyEdit DEF PromiseInv
<1>6. UNCHANGED <<svc, ran, disruptions>> /\ UNCHANGED Route
  BY DEF WorkerMoves, Route
<1>7. /\ Proxy'[k][s].of = v
      /\ Proxy[k][s].state = "none" /\ Proxy[k][s].of = pod[k][s].built
      /\ Proxy' = [Proxy EXCEPT ![k][s] = [state |-> "up", n |-> Proxy[k][s].n + 1, of |-> v]]
  BY <1>4, <1>5
<1>8. Promise!UpTo(v, svc[s])
  BY <1>2 DEF Precedes, Promise!UpTo
<1> HIDE DEF s, v
<1> QED BY <1>0, <1>3, <1>6, <1>7, <1>8 DEF Promise!Build, Proxy, Route

\* A pod is deleted by the operator or by the garbage collector: never one that
\* is made of the present version of its Service.
LEMMA PromiseWithdraw ==
  ASSUME PromiseInv, NEW k \in Kinds, NEW s \in Services, NEW p,
         pod[k][s].live, ~pod[k][s].deleting, pod[k][s].built.rv < svc[s].rv,
         p = [pod[k][s] EXCEPT !.deleting = TRUE],
         pod' = [pod EXCEPT ![k][s] = p], UNCHANGED <<svc, eps, ran, disruptions>>
  PROVE  Promise!Withdraw(k, s)
<1>1. pod[k][s] \in PodObject
  BY DEF PromiseInv, TypeOK, ClusterTypeOK
<1>2. /\ ProxyOf(p) = [state |-> "stopping", n |-> pod[k][s].inc, of |-> pod[k][s].built]
      /\ Proxy[k][s] = [state |-> "up", n |-> pod[k][s].inc, of |-> pod[k][s].built]
  BY <1>1 DEF ProxyOf, Proxy, PodObject
<1>3. Proxy' = [Proxy EXCEPT ![k][s] = ProxyOf(p)]
  BY ProxyEdit DEF PromiseInv
<1>4. ProxyOf(p) = [Proxy[k][s] EXCEPT !.state = "stopping"]
  BY <1>2
<1>5. Proxy' = [Proxy EXCEPT ![k][s].state = "stopping"]
  BY <1>3, <1>4
<1>6. Proxy[k][s].state = "up" /\ Proxy[k][s].of.rv < svc[s].rv
  BY <1>2
<1>7. UNCHANGED Route
  BY DEF Route
<1> QED BY <1>5, <1>6, <1>7 DEF Promise!Withdraw, Proxy, Route

\* An edit of a pod that leaves its proxy as it is.
LEMMA ProxyKept ==
  ASSUME TypeOK, NEW k \in Kinds, NEW s \in Services, NEW p,
         pod' = [pod EXCEPT ![k][s] = p], ProxyOf(p) = ProxyOf(pod[k][s])
  PROVE  UNCHANGED Proxy
<1>1. Proxy' = [Proxy EXCEPT ![k][s] = ProxyOf(p)]
  BY ProxyEdit
<1>2. Proxy[k][s] = ProxyOf(p)
  BY DEF Proxy
<1> QED BY <1>1, <1>2 DEF Proxy

LEMMA PromiseLose ==
  ASSUME TypeOK, NEW k \in Kinds, NEW s \in Services, PodFails(k, s) \/ PodDrained(k, s)
  PROVE  Promise!Lose(k, s)
<1>0. pod[k][s] \in PodObject /\ UNCHANGED Route /\ UNCHANGED <<svc, ran>>
  BY DEF TypeOK, ClusterTypeOK, PodFails, PodDrained, Route
<1>1. Proxy[k][s].state # "none" /\ disruptions' = disruptions + 1
  BY DEF Proxy, ProxyOf, PodFails, PodDrained
<1>2. CASE PodFails(k, s)
  <2> DEFINE p == [pod[k][s] EXCEPT !.phase = "Failed"]
  <2>1. pod' = [pod EXCEPT ![k][s] = p] /\ ProxyOf(p) = ProxyOf(pod[k][s])
    BY <1>0, <1>2 DEF PodFails, ProxyOf, PodObject
  <2>2. UNCHANGED Proxy
    BY <2>1, ProxyKept
  <2> QED BY <1>0, <1>1, <2>2 DEF Promise!Lose, Proxy, Route
<1>3. CASE PodDrained(k, s)
  <2> DEFINE p == [pod[k][s] EXCEPT !.deleting = TRUE]
  <2>1. pod' = [pod EXCEPT ![k][s] = p]
    BY <1>3 DEF PodDrained
  <2>2. Proxy' = [Proxy EXCEPT ![k][s] = ProxyOf(p)]
    BY <2>1, ProxyEdit
  <2>3. Proxy[k][s].state = "up" /\ ProxyOf(p) = [Proxy[k][s] EXCEPT !.state = "stopping"]
    BY <1>0, <1>3 DEF PodDrained, Proxy, ProxyOf, PodObject
  <2>4. Proxy' = [Proxy EXCEPT ![k][s].state = "stopping"]
    BY <2>2, <2>3
  <2> QED BY <1>0, <1>1, <2>3, <2>4 DEF Promise!Lose, Proxy, Route
<1> QED BY <1>2, <1>3

LEMMA PromiseVanish ==
  ASSUME TypeOK, NEW k \in Kinds, NEW s \in Services, PodRemoved(k, s) PROVE Promise!Vanish(k, s)
<1>0. pod[k][s] \in PodObject
  BY DEF TypeOK, ClusterTypeOK
<1>1. Proxy' = [Proxy EXCEPT ![k][s] = ProxyOf(GonePod(pod[k][s]))]
  BY ProxyEdit DEF PodRemoved
<1>2. /\ Proxy[k][s].state = "stopping"
      /\ ProxyOf(GonePod(pod[k][s])) = [Proxy[k][s] EXCEPT !.state = "none"]
  BY <1>0 DEF Proxy, ProxyOf, GonePod, PodRemoved, PodObject
<1>3. UNCHANGED Route /\ UNCHANGED <<svc, ran, disruptions>>
  BY DEF Route, PodRemoved
<1>4. Proxy' = [Proxy EXCEPT ![k][s].state = "none"]
  BY <1>1, <1>2
<1> QED BY <1>2, <1>3, <1>4 DEF Promise!Vanish, Proxy, Route

LEMMA PromiseServe ==
  ASSUME TypeOK, NEW k \in Kinds, NEW s \in Services, PodStarts(k, s)
  PROVE  Promise!Serve(s) \/ UNCHANGED Promise!vars
<1> DEFINE p == [pod[k][s] EXCEPT !.phase = "Running"]
<1>0. pod[k][s] \in PodObject /\ "egress" \in Kinds
  BY DEF TypeOK, ClusterTypeOK, Kinds
<1>1. pod' = [pod EXCEPT ![k][s] = p] /\ ProxyOf(p) = ProxyOf(pod[k][s])
  BY <1>0 DEF PodStarts, ProxyOf, PodObject
<1>2. UNCHANGED Proxy /\ UNCHANGED Route /\ UNCHANGED <<svc, disruptions>>
  BY <1>1, ProxyKept DEF PodStarts, Route
<1>3. CASE k = "egress"
  <2>1. Proxy["egress"][s].state = "up" /\ Proxy["egress"][s].n = pod["egress"][s].inc
    BY <1>0, <1>3 DEF PodStarts, Proxy, ProxyOf
  <2>2. ran' = [ran EXCEPT ![s] = @ \cup {Proxy["egress"][s].n}]
    BY <1>3, <2>1 DEF PodStarts
  <2> QED BY <1>2, <2>1, <2>2 DEF Promise!Serve, Proxy, Route
<1>4. CASE k # "egress"
  BY <1>2, <1>4 DEF PodStarts, Promise!vars, Proxy, Route
<1> QED BY <1>3, <1>4

LEMMA PromiseUnroute ==
  ASSUME TypeOK, NEW s \in Services, EndpointsSync(s)
  PROVE  Promise!Unroute(s) \/ UNCHANGED Promise!vars
<1>0. eps \in [Services -> EndpointsObject] /\ UNCHANGED <<svc, pod, ran, disruptions>>
  BY DEF TypeOK, ClusterTypeOK, EndpointsSync
<1>1. CASE UNCHANGED eps
  BY <1>0, <1>1, PromiseSame
<1>2. CASE eps' # eps
  <2>1. ~svc[s].live /\ eps' = [eps EXCEPT ![s] = NoEndpoints(eps[s].rv + 1)]
    BY <1>2 DEF EndpointsSync
  <2>2. Route' = [Route EXCEPT ![s] = 0]
    BY <1>0, <2>1 DEF Route, NoEndpoints
  <2>3. UNCHANGED Proxy
    BY <1>0 DEF Proxy, ProxyOf
  <2> QED BY <1>0, <2>1, <2>2, <2>3 DEF Promise!Unroute, Proxy, Route
<1> QED BY <1>1, <1>2

LEMMA PromiseRoute ==
  ASSUME PromiseInv, NEW r \in Replicas, WorkerMoves(r, "egress"), WritesEndpoints(r)
  PROVE  \E s \in Services : Promise!Route(s)
<1> DEFINE w == work[r]["egress"]
           s == w.key
<1>0. /\ s \in Services /\ w.at \in EndpointsSteps
      /\ eps \in [Services -> EndpointsObject]
      /\ eps[s].pod \in Nat /\ w.pod \in Nat
      /\ UNCHANGED <<svc, pod, ran, disruptions>>
  BY OrderTyped DEF WritesEndpoints, EndpointsSteps, PromiseInv, TypeOK, ClusterTypeOK,
     ControllerTypeOK, WorkerMoves, Kinds
<1>1. w.pod \in ran[s] /\ 0 # w.pod
  BY <1>0 DEF PromiseInv, RanInv, WorkNamesRun, OrderInv, PodsCount
<1>2. eps[s].live => eps[s].pod <= w.pod /\ eps[s].pod # w.pod
  BY <1>0 DEF WritesEndpoints, PromiseInv, OrderInv, WorkTrails
<1>3. Route[s] < w.pod
  BY <1>0, <1>1, <1>2 DEF Route
<1>4. Route' = [Route EXCEPT ![s] = w.pod] /\ Route'[s] = w.pod
  BY <1>0 DEF WritesEndpoints, Route
<1>5. UNCHANGED Proxy
  BY <1>0 DEF Proxy, ProxyOf
<1>6. Route'[s] \in ran[s] /\ Route[s] < Route'[s] /\ Route' = [Route EXCEPT ![s] = Route'[s]]
  BY <1>1, <1>3, <1>4
<1> HIDE DEF s
<1> QED BY <1>0, <1>5, <1>6 DEF Promise!Route, Proxy, Route

LEMMA PromiseChange ==
  ASSUME TypeOK, UserStep PROVE \E s \in Services : Promise!Change(s)
<1>0. svc \in [Services -> ServiceVersion] /\ UNCHANGED <<pod, eps, ran, disruptions>>
  BY DEF TypeOK, ClusterTypeOK, UserStep, UserApply, UserDelete
<1>1. PICK s \in Services : UserDelete(s) \/ \E a \in Annotations : UserApply(s, a)
  BY DEF UserStep
<1>2. svc[s].rv \in Nat
  BY <1>0 DEF ServiceVersion
<1>3. svc' = [svc EXCEPT ![s] = svc'[s]] /\ svc'[s].rv = svc[s].rv + 1
  BY <1>0, <1>1 DEF UserApply, UserDelete, GoneService
<1>4. UNCHANGED Proxy /\ UNCHANGED Route
  BY <1>0 DEF Proxy, ProxyOf, Route
<1>5. svc[s].rv < svc'[s].rv
  BY <1>2, <1>3
<1> QED BY <1>0, <1>3, <1>4, <1>5 DEF Promise!Change, Proxy, Route

LEMMA PromiseCollect ==
  ASSUME PromiseInv, NEW k \in Kinds, NEW s \in Services, CollectPod(k, s)
  PROVE  Promise!Withdraw(k, s)
<1>0. PICK p : p = [pod[k][s] EXCEPT !.deleting = TRUE]
  OBVIOUS
<1>1. /\ pod[k][s].live /\ ~pod[k][s].deleting
      /\ ~(svc[s].live /\ svc[s].uid = pod[k][s].built.uid)
      /\ pod' = [pod EXCEPT ![k][s] = p]
      /\ UNCHANGED <<svc, eps, ran, disruptions>>
  BY <1>0 DEF CollectPod, OwnerExists
<1>2. Precedes(pod[k][s].built, svc[s]) /\ pod[k][s].built.live
  BY <1>1 DEF PromiseInv, LeaderInv, PodsFollow, PodsAskedFor, Asks, EgressWanted,
     isEgressEnabled, IngressWanted, isIngressEnabled
<1>3. pod[k][s].built.rv < svc[s].rv
  BY <1>1, <1>2 DEF Precedes
<1> QED BY <1>0, <1>1, <1>3, PromiseWithdraw

LEMMA PromiseDelete ==
  ASSUME PromiseInv, NEW r \in Replicas, NEW k \in Kinds, WorkerMoves(r, k), DeletesPod(r, k),
         UNCHANGED eps
  PROVE  UNCHANGED Promise!vars \/ \E s \in Services : Promise!Withdraw(k, s)
<1> DEFINE s == work[r][k].key
<1>0. /\ s \in Services
      /\ pod[k][s] \in PodObject
      /\ pod \in [Kinds -> [Services -> PodObject]]
      /\ UNCHANGED <<svc, ran, disruptions>>
  BY DEF DeletesPod, PromiseInv, TypeOK, ClusterTypeOK, ControllerTypeOK, WorkerMoves
<1>1. CASE pod[k][s].deleting
  <2>1. [pod[k][s] EXCEPT !.deleting = TRUE] = pod[k][s]
    BY <1>0, <1>1 DEF PodObject
  <2>2. UNCHANGED pod
    BY <1>0, <2>1 DEF DeletesPod
  <2> QED BY <1>0, <2>2, PromiseSame
<1>2. CASE ~pod[k][s].deleting
  <2>1. pod[k][s].built.rv < svc[s].rv
    BY DeletesEarlier
  <2>2. PICK p : p = [pod[k][s] EXCEPT !.deleting = TRUE]
    OBVIOUS
  <2>3. pod[k][s].live /\ pod' = [pod EXCEPT ![k][s] = p]
    BY <2>2 DEF DeletesPod
  <2>4. Promise!Withdraw(k, s)
    <3> HIDE DEF s
    <3> QED BY <1>0, <1>2, <2>1, <2>2, <2>3, PromiseWithdraw
  <2> QED BY <1>0, <2>4
<1> QED BY <1>1, <1>2

LEMMA PromiseStep == ASSUME PromiseInv, [Next]_vars PROVE [Promise!Next]_(Promise!vars)
<1>0. TypeOK /\ "egress" \in Kinds /\ "ingress" \in Kinds
  BY DEF PromiseInv, Kinds
<1>1. CASE UNCHANGED vars
  BY <1>1, PromiseSame DEF vars
<1>2. ASSUME EnvironmentStep PROVE [Promise!Next]_(Promise!vars)
  <2>1. CASE UserStep
    BY <1>0, <2>1, PromiseChange DEF Promise!Next
  <2>2. CASE DisruptionStep
    BY <1>0, <2>2, PromiseLose DEF DisruptionStep, Promise!Next
  <2>3. CASE ClusterStep
    BY <1>0, <2>3, PromiseUnroute, PromiseServe, PromiseCollect, PromiseVanish
       DEF ClusterStep, Promise!Next
  <2> QED BY <1>2, <2>1, <2>2, <2>3 DEF EnvironmentStep
<1>3. ASSUME NEW r \in Replicas, ProcessStep(r) PROVE [Promise!Next]_(Promise!vars)
  BY <1>3, PromiseSame DEF ProcessStep, clusterVars
<1>4. ASSUME NEW r \in Replicas, NEW k \in Kinds, WorkerMoves(r, k), UNCHANGED eps
      PROVE  [Promise!Next]_(Promise!vars)
  <2>1. CASE UNCHANGED pod
    BY <1>4, <2>1, PromiseSame DEF WorkerMoves
  <2>2. CASE CreatesPod(r, k)
    BY <1>4, <2>2, PromiseBuild DEF Promise!Next
  <2>3. CASE DeletesPod(r, k)
    BY <1>4, <2>3, PromiseDelete DEF Promise!Next
  <2> QED BY <1>4, <2>1, <2>2, <2>3 DEF WorkerMoves, Starts, GoesOn
<1>5. ASSUME NEW r \in Replicas, EgressWorkerStep(r) PROVE [Promise!Next]_(Promise!vars)
  <2>1. WorkerMoves(r, "egress") /\ (UNCHANGED eps \/ WritesEndpoints(r))
    BY <1>0, <1>5, EgressMoves, EgressEffect
  <2>2. CASE WritesEndpoints(r)
    BY <2>1, <2>2, PromiseRoute DEF Promise!Next
  <2> QED BY <1>0, <1>4, <2>1, <2>2
<1>6. ASSUME NEW r \in Replicas, IngressWorkerStep(r) PROVE [Promise!Next]_(Promise!vars)
  BY <1>0, <1>4, <1>6, IngressMoves, IngressEffect
<1> QED BY <1>1, <1>2, <1>3, <1>5, <1>6 DEF Next

\* With leader election or a single replica, for any number of Services, exits and
\* faults, the two controllers in their cluster implement ProxyPromise: a pod is made only
\* of a version that asked for it, taken away only when its Service has moved on,
\* and traffic goes only to pods that ran, and only forward.
THEOREM OperatorKeepsPromise == ASSUME OneWorks PROVE Spec => KeepsPromise
<1>1. PromiseInv /\ [Next]_vars => [Promise!Next]_(Promise!vars)
  BY PromiseStep
<1> QED BY <1>1, PromiseInit, PromiseInvariant, PTL DEF Spec, KeepsPromise, Promise!Spec
=============================================================================
