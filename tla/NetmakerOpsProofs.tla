-------------------------- MODULE NetmakerOpsProofs --------------------------
(***************************************************************************)
(* Theorems about NetmakerOps, for any number of Services, replicas,       *)
(* writes, exits and faults.                                               *)
(***************************************************************************)
EXTENDS NetmakerOps, TLAPS

-----------------------------------------------------------------------------
(* Type correctness *)

\* The parts of ControllerTypeOK a reconciler changes.
WorkerTypeOK ==
  /\ queue \in [Replicas -> [Kinds -> SUBSET Services]]
  /\ work \in [Replicas -> [Kinds -> Work]]
  /\ \A r \in Replicas, k \in Kinds :
       work[r][k].at # "idle" => work[r][k].key \in Services
  /\ handled \in [Replicas -> [Kinds -> [Services -> ServiceVersion]]]
  /\ faults \in 0 .. MaxFaults

LEMMA ConstantsTyped ==
  /\ NoService \in ServiceVersion
  /\ NoPod \in PodObject
  /\ \A n \in Nat : NoEndpoints(n) \in EndpointsObject
  /\ Idle \in Work
  /\ Idle.at = "idle"
  /\ \A s \in Services, v \in ServiceVersion :
       Begin(s, v) \in Work /\ Begin(s, v).key = s /\ Begin(s, v).svc = v
BY DEF Begin, NoService, ServiceVersion, NoPod, PodObject, NoEndpoints, EndpointsObject,
       Idle, Work, Phases

LEMMA PodEditTyped ==
  ASSUME NEW p \in PodObject
  PROVE  /\ [p EXCEPT !.deleting = TRUE] \in PodObject
         /\ \A f \in Phases : [p EXCEPT !.phase = f] \in PodObject
BY DEF PodObject

LEMMA ContinueTyped ==
  ASSUME WorkerTypeOK, NEW r \in Replicas, NEW k \in Kinds, NEW w \in Work,
         NEW at \in ReadSteps \cup WriteSteps, w.key \in Services,
         Continue(r, k, w, at), queue' \in [Replicas -> [Kinds -> SUBSET Services]],
         faults' = faults
  PROVE  WorkerTypeOK'
<1>1. [w EXCEPT !.at = at] \in Work /\ [w EXCEPT !.at = at].key = w.key
  BY DEF Work
<1> QED BY <1>1 DEF WorkerTypeOK, Continue

LEMMA DoneTyped ==
  ASSUME WorkerTypeOK, NEW r \in Replicas, NEW k \in Kinds, NEW s \in Services,
         NEW v \in ServiceVersion, Done(r, k, s, v),
         queue' \in [Replicas -> [Kinds -> SUBSET Services]], faults' = faults
  PROVE  WorkerTypeOK'
<1>1. work' \in [Replicas -> [Kinds -> Work]]
  BY ConstantsTyped DEF WorkerTypeOK, Done
<1>2. \A q \in Replicas, j \in Kinds : work'[q][j] = work[q][j] \/ work'[q][j] = Idle
  BY DEF WorkerTypeOK, Done
<1>3. ASSUME NEW q \in Replicas, NEW j \in Kinds, work'[q][j].at # "idle"
      PROVE  work'[q][j].key \in Services
  <2>1. work'[q][j] = work[q][j]
    BY <1>2, <1>3, ConstantsTyped
  <2> QED BY <1>3, <2>1 DEF WorkerTypeOK
<1>4. handled[r][k] \in [Services -> ServiceVersion]
  BY DEF WorkerTypeOK
<1>5. [handled[r][k] EXCEPT ![s] = v] \in [Services -> ServiceVersion]
  BY <1>4
<1>6. handled' \in [Replicas -> [Kinds -> [Services -> ServiceVersion]]]
  BY <1>5 DEF WorkerTypeOK, Done
<1> QED BY <1>1, <1>3, <1>6 DEF WorkerTypeOK

LEMMA RetryTyped ==
  ASSUME WorkerTypeOK, NEW r \in Replicas, NEW k \in Kinds,
         work[r][k].at # "idle", Retry(r, k), faults' \in 0 .. MaxFaults
  PROVE  WorkerTypeOK'
<1>1. work' \in [Replicas -> [Kinds -> Work]]
  BY ConstantsTyped DEF WorkerTypeOK, Retry
<1>2. \A q \in Replicas, j \in Kinds : work'[q][j] = work[q][j] \/ work'[q][j] = Idle
  BY DEF WorkerTypeOK, Retry
<1>3. ASSUME NEW q \in Replicas, NEW j \in Kinds, work'[q][j].at # "idle"
      PROVE  work'[q][j].key \in Services
  <2>1. work'[q][j] = work[q][j]
    BY <1>2, <1>3, ConstantsTyped
  <2> QED BY <1>3, <2>1 DEF WorkerTypeOK
<1>4. queue' \in [Replicas -> [Kinds -> SUBSET Services]]
  BY DEF WorkerTypeOK, Retry
<1> QED BY <1>1, <1>3, <1>4 DEF WorkerTypeOK, Retry

LEMMA AnswerLostTyped ==
  ASSUME WorkerTypeOK, NEW r \in Replicas, NEW k \in Kinds,
         work[r][k].at # "idle", AnswerLost(r, k)
  PROVE  WorkerTypeOK'
<1>1. faults' \in 0 .. MaxFaults
  BY ControllerAssumption DEF WorkerTypeOK, AnswerLost
<1> QED BY <1>1, RetryTyped DEF AnswerLost

LEMMA EnvironmentTyped == TypeOK /\ EnvironmentStep => TypeOK'
<1> SUFFICES ASSUME TypeOK, EnvironmentStep PROVE TypeOK'
  OBVIOUS
<1> USE ClusterAssumption, ConstantsTyped DEF ClusterTypeOK
<1>1. ControllerTypeOK'
  BY DEF TypeOK, EnvironmentStep, ControllerTypeOK, controllerVars
<1>2. ClusterTypeOK
  BY DEF TypeOK
<1>3. ASSUME NEW s \in Services, NEW a \in Annotations, UserApply(s, a)
      PROVE  ClusterTypeOK'
  BY <1>2, <1>3 DEF UserApply, ServiceVersion
<1>4. ASSUME NEW s \in Services, UserDelete(s)
      PROVE  ClusterTypeOK'
  <2>1. svc[s] \in ServiceVersion
    BY <1>2
  <2>2. GoneService(svc[s]) \in ServiceVersion
    BY <2>1 DEF ServiceVersion, GoneService
  <2>3. svc' \in [Services -> ServiceVersion]
    BY <1>2, <1>4, <2>2 DEF UserDelete
  <2>4. epsDue' \in SUBSET Services
    BY <1>2, <1>4 DEF UserDelete
  <2> QED BY <1>2, <1>4, <2>3, <2>4 DEF UserDelete
<1>5. ASSUME NEW s \in Services, NEW k \in Kinds,
             PodStarts(k, s) \/ PodFails(k, s) \/ PodDrained(k, s) \/ CollectPod(k, s) \/ PodRemoved(k, s)
      PROVE  ClusterTypeOK'
  <2>1. pod[k][s] \in PodObject
    BY <1>2
  <2>2. CASE PodStarts(k, s)
    BY <1>2, <2>1, <2>2 DEF PodStarts, PodObject, Phases
  <2>3. CASE PodFails(k, s)
    <3>1. [pod[k][s] EXCEPT !.phase = "Failed"] \in PodObject
      BY <2>1, PodEditTyped DEF Phases
    <3>2. disruptions' \in 0 .. MaxDisruptions
      BY <1>2, <2>3 DEF PodFails
    <3> QED BY <1>2, <2>3, <3>1, <3>2 DEF PodFails
  <2>4. CASE PodDrained(k, s)
    BY <1>2, <2>1, <2>4, PodEditTyped DEF PodDrained
  <2>5. CASE CollectPod(k, s)
    BY <1>2, <2>1, <2>5, PodEditTyped DEF CollectPod
  <2>6. CASE PodRemoved(k, s)
    <3>1. pod[k][s] \in PodObject
      BY <1>2
    <3>2. GonePod(pod[k][s]) \in PodObject
      BY <3>1 DEF GonePod, PodObject, Phases
    <3> QED BY <1>2, <2>6, <3>2 DEF PodRemoved
  <2> QED BY <1>5, <2>2, <2>3, <2>4, <2>5, <2>6
<1>6. ASSUME NEW s \in Services, EndpointsSync(s)
      PROVE  ClusterTypeOK'
  <2>1. NoEndpoints(eps[s].rv + 1) \in EndpointsObject
    BY <1>2 DEF EndpointsObject
  <2> QED BY <1>2, <1>6, <2>1 DEF EndpointsSync
<1>7. ClusterTypeOK'
  BY <1>3, <1>4, <1>5, <1>6
     DEF EnvironmentStep, UserStep, DisruptionStep, ClusterStep
<1> QED BY <1>1, <1>7 DEF TypeOK
LEMMA ProcessTyped == ASSUME TypeOK, NEW r \in Replicas, ProcessStep(r) PROVE TypeOK'
<1>1. ClusterTypeOK'
  BY DEF TypeOK, ProcessStep, ClusterTypeOK, clusterVars
<1>2. ClusterTypeOK /\ ControllerTypeOK
  BY DEF TypeOK
<1> SUFFICES ControllerTypeOK'
  BY <1>1 DEF TypeOK
<1>3. CASE StartControllers(r)
  <2> USE DEF StartControllers, ClusterTypeOK, ControllerTypeOK
  <2>1. svcCache' \in [Replicas -> [Services -> ServiceVersion]]
    BY <1>2, <1>3
  <2>2. podCache' \in [Replicas -> [Kinds -> [Services -> PodObject]]]
    BY <1>2, <1>3
  <2>3. epsCache' \in [Replicas -> [Services -> EndpointsObject]]
    BY <1>2, <1>3
  <2>4. handled' \in [Replicas -> [Kinds -> [Services -> ServiceVersion]]]
    <3>1. \A s \in Services : (IF svc[s].live THEN NoService ELSE svc[s]) \in ServiceVersion
      BY <1>2, ConstantsTyped
    <3> QED BY <1>2, <1>3, <3>1
  <2>5. queue' \in [Replicas -> [Kinds -> SUBSET Services]]
    BY <1>2, <1>3
  <2>6. /\ running' \in [Replicas -> BOOLEAN]
        /\ UNCHANGED <<work, restarts, faults>>
    BY <1>2, <1>3
  <2> HIDE DEF StartControllers, ClusterTypeOK
  <2> QED BY <1>2, <2>1, <2>2, <2>3, <2>4, <2>5, <2>6
<1>4. CASE ProcessExits(r)
  <2> USE DEF ProcessExits, ControllerTypeOK
  <2>1. restarts' \in 0 .. MaxRestarts
    BY <1>2, <1>4, ControllerAssumption
  <2>2. svcCache' \in [Replicas -> [Services -> ServiceVersion]]
    BY <1>2, <1>4, ConstantsTyped
  <2>3. podCache' \in [Replicas -> [Kinds -> [Services -> PodObject]]]
    BY <1>2, <1>4, ConstantsTyped
  <2>4. epsCache' \in [Replicas -> [Services -> EndpointsObject]]
    BY <1>2, <1>4, ConstantsTyped
  <2>5. queue' \in [Replicas -> [Kinds -> SUBSET Services]]
    BY <1>2, <1>4
  <2>6. /\ work' \in [Replicas -> [Kinds -> Work]]
        /\ \A q \in Replicas, k \in Kinds :
             work'[q][k].at # "idle" => work'[q][k].key \in Services
    BY <1>2, <1>4, ConstantsTyped
  <2>7. /\ running' \in [Replicas -> BOOLEAN]
        /\ UNCHANGED <<handled, faults>>
    BY <1>2, <1>4
  <2> HIDE DEF ProcessExits
  <2> QED BY <1>2, <2>1, <2>2, <2>3, <2>4, <2>5, <2>6, <2>7
<1>5. ASSUME NEW s \in Services, SyncService(r, s)
      PROVE  ControllerTypeOK'
  BY <1>2, <1>5 DEF SyncService, ClusterTypeOK, ControllerTypeOK
<1>6. ASSUME NEW s \in Services, SyncEndpoints(r, s)
      PROVE  ControllerTypeOK'
  BY <1>2, <1>6 DEF SyncEndpoints, ClusterTypeOK, ControllerTypeOK
<1>7. ASSUME NEW k \in Kinds, NEW s \in Services, SyncPod(r, k, s)
      PROVE  ControllerTypeOK'
  BY <1>2, <1>7 DEF SyncPod, ClusterTypeOK, ControllerTypeOK
<1>8. CASE Resync(r)
  <2>1. queue' \in [Replicas -> [Kinds -> SUBSET Services]]
    BY <1>2, <1>8 DEF Resync, ControllerTypeOK
  <2> QED BY <1>2, <1>8, <2>1 DEF Resync, ControllerTypeOK
<1> QED BY <1>3, <1>4, <1>5, <1>6, <1>7, <1>8 DEF ProcessStep, InformerStep

\* A step of a reconciler leaves the caches and the process alone.
LEMMA ReconcileTyped ==
  ASSUME TypeOK, ClusterTypeOK', WorkerTypeOK',
         UNCHANGED <<running, cacheVars, restarts>>
  PROVE  TypeOK'
BY DEF TypeOK, ControllerTypeOK, WorkerTypeOK, cacheVars

\* The outcomes a step of the worker of controller k may have, once it is not
\* its business what was read or written.
LEMMA OutcomeTyped ==
  ASSUME WorkerTypeOK, NEW r \in Replicas, NEW k \in Kinds,
         NEW w \in Work, w.key = work[r][k].key, work[r][k].at # "idle",
         \/ \E at \in ReadSteps \cup WriteSteps :
              Continue(r, k, w, at) /\ UNCHANGED <<queue, faults>>
         \/ Done(r, k, w.key, w.svc) /\ UNCHANGED <<queue, faults>>
         \/ Retry(r, k) /\ UNCHANGED faults
         \/ AnswerLost(r, k)
  PROVE  WorkerTypeOK'
<1>1. w.key \in Services /\ w.svc \in ServiceVersion
  BY DEF WorkerTypeOK, Work
<1>2. queue \in [Replicas -> [Kinds -> SUBSET Services]] /\ faults \in 0 .. MaxFaults
  BY DEF WorkerTypeOK
<1>3. CASE \E at \in ReadSteps \cup WriteSteps :
             Continue(r, k, w, at) /\ UNCHANGED <<queue, faults>>
  <2> PICK at \in ReadSteps \cup WriteSteps :
        Continue(r, k, w, at) /\ UNCHANGED <<queue, faults>>
    BY <1>3
  <2> QED BY <1>1, <1>2, ContinueTyped
<1>4. CASE Done(r, k, w.key, w.svc) /\ UNCHANGED <<queue, faults>>
  BY <1>1, <1>2, <1>4, DoneTyped
<1>5. CASE Retry(r, k) /\ UNCHANGED faults
  BY <1>2, <1>5, RetryTyped
<1>6. CASE AnswerLost(r, k)
  BY <1>6, AnswerLostTyped
<1> QED BY <1>3, <1>4, <1>5, <1>6

LEMMA EgressTyped == ASSUME TypeOK, NEW r \in Replicas, EgressWorkerStep(r) PROVE TypeOK'
<1> DEFINE w == work[r]["egress"]
<1>0. /\ ClusterTypeOK /\ ControllerTypeOK /\ WorkerTypeOK
      /\ "egress" \in Kinds /\ w \in Work
  BY DEF TypeOK, ControllerTypeOK, WorkerTypeOK, Kinds
<1>1. ASSUME NEW s \in Services, EgressReconcile(r, s) PROVE TypeOK'
  <2>1. svcCache[r][s] \in ServiceVersion
    BY <1>0 DEF ControllerTypeOK
  <2>2. queue' \in [Replicas -> [Kinds -> SUBSET Services]]
    BY <1>0, <1>1 DEF EgressReconcile, Take, WorkerTypeOK
  <2>3. WorkerTypeOK'
    BY <1>0, <1>1, <2>1, <2>2, ConstantsTyped, ContinueTyped, DoneTyped
       DEF EgressReconcile, ReadSteps, WriteSteps
  <2>4. ClusterTypeOK'
    BY <1>0, <1>1 DEF EgressReconcile, clusterVars, ClusterTypeOK
  <2> QED BY <1>1, <2>3, <2>4, ReconcileTyped DEF EgressReconcile
<1>2. CASE EgressEnsureProxyPod(r)
  <2>1. WorkerTypeOK'
    BY <1>0, <1>2, OutcomeTyped DEF EgressEnsureProxyPod, ReadSteps, WriteSteps
  <2>2. ClusterTypeOK'
    BY <1>0, <1>2 DEF EgressEnsureProxyPod, clusterVars, ClusterTypeOK
  <2> QED BY <1>2, <2>1, <2>2, ReconcileTyped DEF EgressEnsureProxyPod
<1>3. CASE EgressCreateProxyPod(r)
  <2>1. w.key \in Services /\ w.at # "idle"
    BY <1>0, <1>3 DEF EgressCreateProxyPod, ControllerTypeOK
  <2>2. EgressBuildProxyPod(pod["egress"][w.key].inc + 1, w.svc) \in PodObject
    BY <1>0, <2>1 DEF EgressBuildProxyPod, PodObject, Phases, ClusterTypeOK, Work
  <2>3. ClusterTypeOK'
    BY <1>0, <1>3, <2>1, <2>2 DEF EgressCreateProxyPod, ClusterTypeOK
  <2>4. WorkerTypeOK'
    BY <1>0, <1>3, <2>1, OutcomeTyped DEF EgressCreateProxyPod, ReadSteps
  <2> QED BY <1>3, <2>3, <2>4, ReconcileTyped DEF EgressCreateProxyPod
<1>4. CASE EgressGetRunningPod(r)
  <2>1. w.key \in Services /\ w.at # "idle"
    BY <1>0, <1>4 DEF EgressGetRunningPod, ControllerTypeOK
  <2> DEFINE p == podCache[r]["egress"][w.key]
  <2>2. [w EXCEPT !.pod = p.inc] \in Work /\ [w EXCEPT !.pod = p.inc].key = w.key
    <3>1. p \in PodObject
      BY <1>0, <2>1 DEF ControllerTypeOK
    <3>2. p.inc \in Nat
      BY <3>1 DEF PodObject
    <3> HIDE DEF p
    <3> QED BY <1>0, <3>2 DEF Work
  <2>3. WorkerTypeOK'
    BY <1>0, <1>4, <2>1, <2>2, OutcomeTyped DEF EgressGetRunningPod, ReadSteps
  <2>4. ClusterTypeOK'
    BY <1>0, <1>4 DEF EgressGetRunningPod, clusterVars, ClusterTypeOK
  <2> QED BY <1>4, <2>3, <2>4, ReconcileTyped DEF EgressGetRunningPod
<1>5. CASE EgressGetEndpoints(r)
  <2>1. w.key \in Services /\ w.at # "idle"
    BY <1>0, <1>5 DEF EgressGetEndpoints, ControllerTypeOK
  <2> DEFINE e == epsCache[r][w.key]
  <2>2. [w EXCEPT !.eps = e] \in Work /\ [w EXCEPT !.eps = e].key = w.key
    <3>1. e \in EndpointsObject
      BY <1>0, <2>1 DEF ControllerTypeOK
    <3> HIDE DEF e
    <3> QED BY <1>0, <3>1 DEF Work
  <2>3. WorkerTypeOK'
    BY <1>0, <1>5, <2>1, <2>2, OutcomeTyped DEF EgressGetEndpoints, WriteSteps
  <2>4. ClusterTypeOK'
    BY <1>0, <1>5 DEF EgressGetEndpoints, clusterVars, ClusterTypeOK
  <2> QED BY <1>5, <2>3, <2>4, ReconcileTyped DEF EgressGetEndpoints
<1>6. CASE EgressCreateEndpoints(r)
  <2>1. w.key \in Services /\ w.at # "idle" /\ w.pod \in Nat
    BY <1>0, <1>6 DEF EgressCreateEndpoints, ControllerTypeOK, Work
  <2>2. eps' \in [Services -> EndpointsObject]
    <3>1. [rv |-> eps[w.key].rv + 1, live |-> TRUE, pod |-> w.pod] \in EndpointsObject
      BY <1>0, <2>1 DEF ClusterTypeOK, EndpointsObject
    <3> QED BY <1>0, <1>6, <2>1, <3>1 DEF EgressCreateEndpoints, WriteEndpoints, ClusterTypeOK
  <2>3. ClusterTypeOK'
    BY <1>0, <1>6, <2>2 DEF EgressCreateEndpoints, ClusterTypeOK
  <2>4. WorkerTypeOK'
    BY <1>0, <1>6, <2>1, OutcomeTyped DEF EgressCreateEndpoints, EgressAnswered
  <2> QED BY <1>6, <2>3, <2>4, ReconcileTyped DEF EgressCreateEndpoints
<1>7. CASE EgressUpdateEndpoints(r)
  <2>1. w.key \in Services /\ w.at # "idle" /\ w.pod \in Nat
    BY <1>0, <1>7 DEF EgressUpdateEndpoints, ControllerTypeOK, Work
  <2>2. eps' \in [Services -> EndpointsObject]
    <3>1. [rv |-> eps[w.key].rv + 1, live |-> TRUE, pod |-> w.pod] \in EndpointsObject
      BY <1>0, <2>1 DEF ClusterTypeOK, EndpointsObject
    <3> QED BY <1>0, <1>7, <2>1, <3>1 DEF EgressUpdateEndpoints, WriteEndpoints, ClusterTypeOK
  <2>3. ClusterTypeOK'
    BY <1>0, <1>7, <2>2 DEF EgressUpdateEndpoints, ClusterTypeOK
  <2>4. WorkerTypeOK'
    BY <1>0, <1>7, <2>1, OutcomeTyped DEF EgressUpdateEndpoints, EgressAnswered
  <2> QED BY <1>7, <2>3, <2>4, ReconcileTyped DEF EgressUpdateEndpoints
<1>8. CASE EgressCleanupProxyPod(r)
  <2>1. WorkerTypeOK'
    BY <1>0, <1>8, OutcomeTyped DEF EgressCleanupProxyPod, ReadSteps, WriteSteps
  <2>2. ClusterTypeOK'
    BY <1>0, <1>8 DEF EgressCleanupProxyPod, clusterVars, ClusterTypeOK
  <2> QED BY <1>8, <2>1, <2>2, ReconcileTyped DEF EgressCleanupProxyPod
<1>9. CASE EgressDeleteProxyPod(r)
  <2>1. w.key \in Services /\ w.at # "idle"
    BY <1>0, <1>9 DEF EgressDeleteProxyPod, ControllerTypeOK
  <2>2. [pod["egress"][w.key] EXCEPT !.deleting = TRUE] \in PodObject
    BY <1>0, <2>1, PodEditTyped DEF ClusterTypeOK
  <2>3. ClusterTypeOK'
    BY <1>0, <1>9, <2>1, <2>2 DEF EgressDeleteProxyPod, ClusterTypeOK
  <2>4. WorkerTypeOK'
    BY <1>0, <1>9, <2>1, OutcomeTyped DEF EgressDeleteProxyPod, EgressAnswered
  <2> QED BY <1>9, <2>3, <2>4, ReconcileTyped DEF EgressDeleteProxyPod
<1>10. CASE RequestFails(r, "egress") /\ UNCHANGED clusterVars
  <2>1. WorkerTypeOK'
    BY <1>0, <1>10, AnswerLostTyped DEF RequestFails, WriteSteps
  <2>2. ClusterTypeOK'
    BY <1>0, <1>10 DEF clusterVars, ClusterTypeOK
  <2> QED BY <1>10, <2>1, <2>2, ReconcileTyped DEF RequestFails, cacheVars
<1> QED BY <1>1, <1>2, <1>3, <1>4, <1>5, <1>6, <1>7, <1>8, <1>9, <1>10
     DEF EgressWorkerStep, EgressStep

LEMMA IngressTyped == ASSUME TypeOK, NEW r \in Replicas, IngressWorkerStep(r) PROVE TypeOK'
<1> DEFINE w == work[r]["ingress"]
<1>0. /\ ClusterTypeOK /\ ControllerTypeOK /\ WorkerTypeOK
      /\ "ingress" \in Kinds /\ w \in Work
  BY DEF TypeOK, ControllerTypeOK, WorkerTypeOK, Kinds
<1>1. ASSUME NEW s \in Services, IngressReconcile(r, s) PROVE TypeOK'
  <2>1. svcCache[r][s] \in ServiceVersion
    BY <1>0 DEF ControllerTypeOK
  <2>2. queue' \in [Replicas -> [Kinds -> SUBSET Services]]
    BY <1>0, <1>1 DEF IngressReconcile, Take, WorkerTypeOK
  <2>3. WorkerTypeOK'
    BY <1>0, <1>1, <2>1, <2>2, ConstantsTyped, ContinueTyped, DoneTyped
       DEF IngressReconcile, ReadSteps, WriteSteps
  <2>4. ClusterTypeOK'
    BY <1>0, <1>1 DEF IngressReconcile, clusterVars, ClusterTypeOK
  <2> QED BY <1>1, <2>3, <2>4, ReconcileTyped DEF IngressReconcile
<1>2. CASE IngressEnsureProxyPod(r)
  <2>1. WorkerTypeOK'
    BY <1>0, <1>2, OutcomeTyped DEF IngressEnsureProxyPod, ReadSteps, WriteSteps
  <2>2. ClusterTypeOK'
    BY <1>0, <1>2 DEF IngressEnsureProxyPod, clusterVars, ClusterTypeOK
  <2> QED BY <1>2, <2>1, <2>2, ReconcileTyped DEF IngressEnsureProxyPod
<1>3. CASE IngressCreateProxyPod(r)
  <2>1. w.key \in Services /\ w.at # "idle"
    BY <1>0, <1>3 DEF IngressCreateProxyPod, ControllerTypeOK
  <2>2. IngressBuildProxyPod(pod["ingress"][w.key].inc + 1, w.svc) \in PodObject
    BY <1>0, <2>1 DEF IngressBuildProxyPod, PodObject, Phases, ClusterTypeOK, Work
  <2>3. ClusterTypeOK'
    BY <1>0, <1>3, <2>1, <2>2 DEF IngressCreateProxyPod, ClusterTypeOK
  <2>4. WorkerTypeOK'
    BY <1>0, <1>3, <2>1, OutcomeTyped DEF IngressCreateProxyPod, IngressAnswered
  <2> QED BY <1>3, <2>3, <2>4, ReconcileTyped DEF IngressCreateProxyPod
<1>4. CASE IngressCleanupProxyPod(r)
  <2>1. WorkerTypeOK'
    BY <1>0, <1>4, OutcomeTyped DEF IngressCleanupProxyPod, ReadSteps, WriteSteps
  <2>2. ClusterTypeOK'
    BY <1>0, <1>4 DEF IngressCleanupProxyPod, clusterVars, ClusterTypeOK
  <2> QED BY <1>4, <2>1, <2>2, ReconcileTyped DEF IngressCleanupProxyPod
<1>5. CASE IngressDeleteProxyPod(r)
  <2>1. w.key \in Services /\ w.at # "idle"
    BY <1>0, <1>5 DEF IngressDeleteProxyPod, ControllerTypeOK
  <2>2. [pod["ingress"][w.key] EXCEPT !.deleting = TRUE] \in PodObject
    BY <1>0, <2>1, PodEditTyped DEF ClusterTypeOK
  <2>3. ClusterTypeOK'
    BY <1>0, <1>5, <2>1, <2>2 DEF IngressDeleteProxyPod, ClusterTypeOK
  <2>4. WorkerTypeOK'
    BY <1>0, <1>5, <2>1, OutcomeTyped DEF IngressDeleteProxyPod, IngressAnswered
  <2> QED BY <1>5, <2>3, <2>4, ReconcileTyped DEF IngressDeleteProxyPod
<1>6. CASE RequestFails(r, "ingress") /\ UNCHANGED clusterVars
  <2>1. WorkerTypeOK'
    BY <1>0, <1>6, AnswerLostTyped DEF RequestFails, WriteSteps
  <2>2. ClusterTypeOK'
    BY <1>0, <1>6 DEF clusterVars, ClusterTypeOK
  <2> QED BY <1>6, <2>1, <2>2, ReconcileTyped DEF RequestFails, cacheVars
<1> QED BY <1>1, <1>2, <1>3, <1>4, <1>5, <1>6 DEF IngressWorkerStep, IngressStep

LEMMA StutterTyped == TypeOK /\ UNCHANGED vars => TypeOK'
BY DEF vars, TypeOK, ClusterTypeOK, ControllerTypeOK

LEMMA InitTyped == Init => TypeOK
<1> SUFFICES ASSUME Init PROVE TypeOK
  OBVIOUS
<1>1. ClusterTypeOK
  BY ClusterAssumption, ConstantsTyped DEF Init, ClusterInit, ClusterTypeOK
<1>2. ControllerTypeOK
  BY ControllerAssumption, ConstantsTyped DEF Init, ControllerInit, ControllerTypeOK
<1> QED BY <1>1, <1>2 DEF TypeOK

LEMMA NextTyped == TypeOK /\ [Next]_vars => TypeOK'
BY EnvironmentTyped, ProcessTyped, EgressTyped, IngressTyped, StutterTyped DEF Next

\* Every state variable keeps its type: what the API server, the caches and the
\* workers hold is always a version, a pod or a key the code can have.
THEOREM TypeCorrect == Spec => []TypeOK
BY InitTyped, NextTyped, PTL DEF Spec

\* The behaviours in which the ingress worker never gets a turn are behaviours of
\* the operator, so what is proved of Spec holds of EgressSpec.
THEOREM EgressSpecIsSpec == EgressSpec => Spec
<1>1. [EgressNext]_vars => [Next]_vars
  BY DEF EgressNext, Next
<1> QED BY <1>1, PTL DEF EgressSpec, Spec

-----------------------------------------------------------------------------
(* What a step of a worker may do, of either controller: all that the        *)
(* invariants below need to know of the reconcilers.                         *)

Asks(k, v)    == IF k = "egress" THEN EgressWanted(v) ELSE IngressWanted(v)
Unasked(k, v) == IF k = "egress" THEN ~isEgressEnabled(v) ELSE ~isIngressEnabled(v)

Keeps   == {"ensure", "create", "endpoints", "getEndpoints", "createEndpoints", "updateEndpoints"}
Removes == {"cleanup", "delete"}

Starts(r, k) ==
  /\ UNCHANGED pod
  /\ \E s \in Services :
       /\ Take(r, k, s)
       /\ \/ Asks(k, svcCache[r][s]) /\ Continue(r, k, Begin(s, svcCache[r][s]), "ensure")
          \/ Unasked(k, svcCache[r][s]) /\ Continue(r, k, Begin(s, svcCache[r][s]), "cleanup")
          \/ Done(r, k, s, svcCache[r][s])

CreatesPod(r, k) ==
  /\ work[r][k].at = "create"
  /\ ~pod[k][work[r][k].key].live
  /\ \E p \in PodObject :
       /\ p.live /\ ~p.deleting
       /\ p.inc = pod[k][work[r][k].key].inc + 1
       /\ p.built = work[r][k].svc
       /\ pod' = [pod EXCEPT ![k][work[r][k].key] = p]

DeletesPod(r, k) ==
  /\ work[r][k].at = "delete"
  /\ pod[k][work[r][k].key].live
  /\ pod' = [pod EXCEPT ![k][work[r][k].key].deleting = TRUE]

GoesOn(r, k) ==
  /\ work[r][k].at # "idle"
  /\ UNCHANGED pod \/ CreatesPod(r, k) \/ DeletesPod(r, k)
  /\ \/ /\ \E w \in Work, at \in ReadSteps \cup WriteSteps :
             /\ w.key = work[r][k].key
             /\ w.svc = work[r][k].svc
             /\ work[r][k].at \in Keeps <=> at \in Keeps
             /\ Continue(r, k, w, at)
        /\ UNCHANGED queue
     \/ Done(r, k, work[r][k].key, work[r][k].svc) /\ UNCHANGED queue
     \/ Retry(r, k)

WorkerMoves(r, k) ==
  /\ UNCHANGED <<running, cacheVars, svc, ran, disruptions>>
  /\ Starts(r, k) \/ GoesOn(r, k)

LEMMA EgressMoves ==
  ASSUME TypeOK, NEW r \in Replicas, EgressWorkerStep(r) PROVE WorkerMoves(r, "egress")
<1> DEFINE w == work[r]["egress"]
<1>0. /\ ClusterTypeOK /\ ControllerTypeOK /\ "egress" \in Kinds /\ w \in Work
      /\ w.at # "idle" => w.key \in Services
  BY DEF TypeOK, ControllerTypeOK, Kinds
<1>1. ASSUME NEW s \in Services, EgressReconcile(r, s) PROVE WorkerMoves(r, "egress")
  BY <1>1 DEF EgressReconcile, WorkerMoves, Starts, Asks, Unasked, clusterVars
<1>2. CASE EgressEnsureProxyPod(r)
  BY <1>0, <1>2 DEF EgressEnsureProxyPod, WorkerMoves, GoesOn, Keeps, ReadSteps, WriteSteps, clusterVars
<1>3. CASE EgressCreateProxyPod(r)
  <2>1. EgressBuildProxyPod(pod["egress"][w.key].inc + 1, w.svc) \in PodObject
    BY <1>0, <1>3 DEF EgressCreateProxyPod, EgressBuildProxyPod, PodObject, Phases, ClusterTypeOK, Work
  <2>2. UNCHANGED pod \/ CreatesPod(r, "egress")
    BY <1>0, <1>3, <2>1 DEF EgressCreateProxyPod, CreatesPod, EgressBuildProxyPod
  <2> QED BY <1>0, <1>3, <2>2
          DEF EgressCreateProxyPod, WorkerMoves, GoesOn, Keeps, ReadSteps, WriteSteps, AnswerLost
<1>4. CASE EgressGetRunningPod(r)
  <2> DEFINE x == [w EXCEPT !.pod = podCache[r]["egress"][w.key].inc]
  <2>1. x \in Work /\ x.key = w.key /\ x.svc = w.svc
    <3>1. podCache[r]["egress"][w.key] \in PodObject
      BY <1>0, <1>4 DEF EgressGetRunningPod, ControllerTypeOK
    <3>2. podCache[r]["egress"][w.key].inc \in Nat
      BY <3>1 DEF PodObject
    <3> QED BY <1>0, <3>2 DEF Work
  <2>2. Continue(r, "egress", x, "getEndpoints") \/ Done(r, "egress", w.key, w.svc)
    BY <1>4 DEF EgressGetRunningPod
  <2> HIDE DEF x
  <2> QED BY <1>0, <1>4, <2>1, <2>2
          DEF EgressGetRunningPod, WorkerMoves, GoesOn, Keeps, ReadSteps, WriteSteps, clusterVars
<1>5. CASE EgressGetEndpoints(r)
  <2> DEFINE x == [w EXCEPT !.eps = epsCache[r][w.key]]
  <2>1. x \in Work /\ x.key = w.key /\ x.svc = w.svc
    <3>1. epsCache[r][w.key] \in EndpointsObject
      BY <1>0, <1>5 DEF EgressGetEndpoints, ControllerTypeOK
    <3> QED BY <1>0, <3>1 DEF Work
  <2>2. Continue(r, "egress", x, "updateEndpoints") \/ Continue(r, "egress", w, "createEndpoints")
    BY <1>5 DEF EgressGetEndpoints
  <2> HIDE DEF x
  <2> QED BY <1>0, <1>5, <2>1, <2>2
          DEF EgressGetEndpoints, WorkerMoves, GoesOn, Keeps, ReadSteps, WriteSteps, clusterVars
<1>6. CASE EgressCreateEndpoints(r)
  BY <1>0, <1>6 DEF EgressCreateEndpoints, EgressAnswered, AnswerLost, WorkerMoves, GoesOn
<1>7. CASE EgressUpdateEndpoints(r)
  BY <1>0, <1>7 DEF EgressUpdateEndpoints, EgressAnswered, AnswerLost, WorkerMoves, GoesOn
<1>8. CASE EgressCleanupProxyPod(r)
  BY <1>0, <1>8 DEF EgressCleanupProxyPod, WorkerMoves, GoesOn, Keeps, ReadSteps, WriteSteps, clusterVars
<1>9. CASE EgressDeleteProxyPod(r)
  BY <1>0, <1>9 DEF EgressDeleteProxyPod, EgressAnswered, AnswerLost, DeletesPod, WorkerMoves, GoesOn
<1>10. CASE RequestFails(r, "egress") /\ UNCHANGED clusterVars
  BY <1>0, <1>10 DEF RequestFails, AnswerLost, WorkerMoves, GoesOn, WriteSteps, clusterVars, cacheVars
<1> QED BY <1>1, <1>2, <1>3, <1>4, <1>5, <1>6, <1>7, <1>8, <1>9, <1>10
     DEF EgressWorkerStep, EgressStep

LEMMA IngressMoves ==
  ASSUME TypeOK, NEW r \in Replicas, IngressWorkerStep(r) PROVE WorkerMoves(r, "ingress")
<1> DEFINE w == work[r]["ingress"]
<1>0. /\ ClusterTypeOK /\ ControllerTypeOK /\ "ingress" \in Kinds /\ w \in Work
      /\ w.at # "idle" => w.key \in Services
  BY DEF TypeOK, ControllerTypeOK, Kinds
<1>1. ASSUME NEW s \in Services, IngressReconcile(r, s) PROVE WorkerMoves(r, "ingress")
  BY <1>1 DEF IngressReconcile, WorkerMoves, Starts, Asks, Unasked, clusterVars
<1>2. CASE IngressEnsureProxyPod(r)
  BY <1>0, <1>2 DEF IngressEnsureProxyPod, WorkerMoves, GoesOn, Keeps, ReadSteps, WriteSteps, clusterVars
<1>3. CASE IngressCreateProxyPod(r)
  <2>1. IngressBuildProxyPod(pod["ingress"][w.key].inc + 1, w.svc) \in PodObject
    BY <1>0, <1>3 DEF IngressCreateProxyPod, IngressBuildProxyPod, PodObject, Phases, ClusterTypeOK, Work
  <2>2. UNCHANGED pod \/ CreatesPod(r, "ingress")
    BY <1>0, <1>3, <2>1 DEF IngressCreateProxyPod, CreatesPod, IngressBuildProxyPod
  <2> QED BY <1>0, <1>3, <2>2
          DEF IngressCreateProxyPod, IngressAnswered, WorkerMoves, GoesOn, AnswerLost
<1>4. CASE IngressCleanupProxyPod(r)
  BY <1>0, <1>4 DEF IngressCleanupProxyPod, WorkerMoves, GoesOn, Keeps, ReadSteps, WriteSteps, clusterVars
<1>5. CASE IngressDeleteProxyPod(r)
  BY <1>0, <1>5 DEF IngressDeleteProxyPod, IngressAnswered, AnswerLost, DeletesPod, WorkerMoves, GoesOn
<1>6. CASE RequestFails(r, "ingress") /\ UNCHANGED clusterVars
  BY <1>0, <1>6 DEF RequestFails, AnswerLost, WorkerMoves, GoesOn, WriteSteps, clusterVars, cacheVars
<1> QED BY <1>1, <1>2, <1>3, <1>4, <1>5, <1>6 DEF IngressWorkerStep, IngressStep

\* The worker that moves is the only one, and it is idle afterwards, has begun
\* with the cached Service version, or goes on with what it held.
LEMMA WorkEffect ==
  ASSUME TypeOK, NEW r \in Replicas, NEW k \in Kinds, WorkerMoves(r, k)
  PROVE  /\ \A q \in Replicas, j \in Kinds : q # r \/ j # k => work'[q][j] = work[q][j]
         /\ \/ work'[r][k] = Idle
            \/ /\ work[r][k].at = "idle"
               /\ running[r]
               /\ work'[r][k].key \in Services
               /\ work'[r][k].svc = svcCache[r][work'[r][k].key]
               /\ \/ work'[r][k].at = "ensure" /\ Asks(k, work'[r][k].svc)
                  \/ work'[r][k].at = "cleanup" /\ Unasked(k, work'[r][k].svc)
            \/ /\ work[r][k].at # "idle"
               /\ work'[r][k].key = work[r][k].key
               /\ work'[r][k].svc = work[r][k].svc
               /\ work'[r][k].at \in ReadSteps \cup WriteSteps
               /\ work[r][k].at \in Keeps <=> work'[r][k].at \in Keeps
<1>0. work \in [Replicas -> [Kinds -> Work]]
  BY DEF TypeOK, ControllerTypeOK
<1>1. ASSUME NEW w \in Work, NEW at \in ReadSteps \cup WriteSteps, Continue(r, k, w, at)
      PROVE  /\ \A q \in Replicas, j \in Kinds : q # r \/ j # k => work'[q][j] = work[q][j]
             /\ work'[r][k].key = w.key
             /\ work'[r][k].svc = w.svc
             /\ work'[r][k].at = at
  <2>1. work'[r][k] = [w EXCEPT !.at = at]
    BY <1>0, <1>1 DEF Continue
  <2>2. \A q \in Replicas, j \in Kinds : q # r \/ j # k => work'[q][j] = work[q][j]
    BY <1>0, <1>1 DEF Continue
  <2> QED BY <2>1, <2>2 DEF Work
<1>2. ASSUME Retry(r, k) \/ \E s \in Services, v \in ServiceVersion : Done(r, k, s, v)
      PROVE  /\ \A q \in Replicas, j \in Kinds : q # r \/ j # k => work'[q][j] = work[q][j]
             /\ work'[r][k] = Idle
  BY <1>0, <1>2 DEF Retry, Done
<1>3. CASE Starts(r, k)
  <2> PICK s \in Services :
        /\ Take(r, k, s)
        /\ \/ Asks(k, svcCache[r][s]) /\ Continue(r, k, Begin(s, svcCache[r][s]), "ensure")
           \/ Unasked(k, svcCache[r][s]) /\ Continue(r, k, Begin(s, svcCache[r][s]), "cleanup")
           \/ Done(r, k, s, svcCache[r][s])
    BY <1>3 DEF Starts
  <2>1. svcCache[r][s] \in ServiceVersion
    BY DEF TypeOK, ControllerTypeOK
  <2>2. /\ Begin(s, svcCache[r][s]) \in Work
        /\ Begin(s, svcCache[r][s]).key = s
        /\ Begin(s, svcCache[r][s]).svc = svcCache[r][s]
    BY <2>1, ConstantsTyped
  <2>3. work[r][k].at = "idle" /\ running[r]
    BY DEF Take
  <2>4. "ensure" \in ReadSteps /\ "cleanup" \in ReadSteps
    BY DEF ReadSteps
  <2> QED BY <1>1, <1>2, <2>1, <2>2, <2>3, <2>4
<1>4. CASE GoesOn(r, k)
  <2>1. work[r][k].at # "idle"
    BY <1>4 DEF GoesOn
  <2>2. CASE \E w \in Work, at \in ReadSteps \cup WriteSteps :
               /\ w.key = work[r][k].key
               /\ w.svc = work[r][k].svc
               /\ work[r][k].at \in Keeps <=> at \in Keeps
               /\ Continue(r, k, w, at)
    BY <1>1, <2>1, <2>2
  <2>3. CASE Done(r, k, work[r][k].key, work[r][k].svc) \/ Retry(r, k)
    <3>1. work[r][k].key \in Services /\ work[r][k].svc \in ServiceVersion
      BY <1>0, <2>1 DEF TypeOK, ControllerTypeOK, Work
    <3> QED BY <1>2, <2>3, <3>1
  <2> QED BY <1>4, <2>2, <2>3 DEF GoesOn
<1> QED BY <1>3, <1>4 DEF WorkerMoves

\* A name has the pod after the step that it had before, or one created from the
\* version the worker held.
SamePod(k, s) ==
  /\ pod'[k][s].live => pod[k][s].live
  /\ pod'[k][s].inc = pod[k][s].inc
  /\ pod'[k][s].built = pod[k][s].built

LEMMA PodEffect ==
  ASSUME TypeOK, NEW r \in Replicas, NEW k \in Kinds, WorkerMoves(r, k),
         NEW j \in Kinds, NEW s \in Services
  PROVE  \/ SamePod(j, s)
         \/ /\ j = k
            /\ work[r][k].at = "create"
            /\ s = work[r][k].key
            /\ pod'[j][s].built = work[r][k].svc
<1>0. pod \in [Kinds -> [Services -> PodObject]]
  BY DEF TypeOK, ClusterTypeOK
<1>1. CASE UNCHANGED pod
  BY <1>1 DEF SamePod
<1>2. CASE CreatesPod(r, k)
  BY <1>0, <1>2 DEF CreatesPod, SamePod
<1>3. CASE DeletesPod(r, k)
  <2> DEFINE x == work[r][k].key
  <2>1. x \in Services
    BY <1>3 DEF DeletesPod, TypeOK, ControllerTypeOK
  <2>2. pod'[j][s] = IF j = k /\ s = x THEN [pod[j][s] EXCEPT !.deleting = TRUE] ELSE pod[j][s]
    BY <1>0, <1>3, <2>1 DEF DeletesPod
  <2>3. pod[j][s] \in PodObject
    BY <1>0
  <2> QED BY <2>2, <2>3 DEF PodObject, SamePod
<1> QED BY <1>1, <1>2, <1>3 DEF WorkerMoves, Starts, GoesOn

LEMMA EnvironmentEffect ==
  ASSUME TypeOK, EnvironmentStep
  PROVE  /\ UNCHANGED controllerVars
         /\ \A s \in Services : svc'[s] = svc[s] \/ svc[s].rv < svc'[s].rv
         /\ \A k \in Kinds, s \in Services : SamePod(k, s)
<1>0. /\ svc \in [Services -> ServiceVersion]
      /\ pod \in [Kinds -> [Services -> PodObject]]
      /\ \A s \in Services : svc[s].rv \in Nat
  BY DEF TypeOK, ClusterTypeOK, ServiceVersion
<1> DEFINE SvcEffect == \A s \in Services : svc'[s] = svc[s] \/ svc[s].rv < svc'[s].rv
           Effect == \A k \in Kinds, s \in Services : SamePod(k, s)
<1>1. ASSUME NEW s \in Services, NEW a \in Annotations, UserApply(s, a) PROVE SvcEffect /\ Effect
  BY <1>0, <1>1 DEF UserApply, SamePod
<1>2. ASSUME NEW s \in Services, UserDelete(s) PROVE SvcEffect /\ Effect
  BY <1>0, <1>2 DEF UserDelete, GoneService, SamePod
<1>3. ASSUME NEW s \in Services, NEW k \in Kinds,
             PodStarts(k, s) \/ PodFails(k, s) \/ PodDrained(k, s) \/ CollectPod(k, s) \/ PodRemoved(k, s)
      PROVE  SvcEffect /\ Effect
  <2>1. UNCHANGED svc
    BY <1>3 DEF PodStarts, PodFails, PodDrained, CollectPod, PodRemoved
  <2>2. CASE PodStarts(k, s)
    BY <1>0, <2>2 DEF PodStarts, PodObject, SamePod
  <2>3. CASE PodFails(k, s)
    BY <1>0, <2>3 DEF PodFails, PodObject, SamePod
  <2>4. CASE PodDrained(k, s) \/ CollectPod(k, s)
    <3>1. pod' = [pod EXCEPT ![k][s].deleting = TRUE]
      BY <2>4 DEF PodDrained, CollectPod
    <3>2. \A j \in Kinds, x \in Services : pod'[j][x] =
            IF j = k /\ x = s THEN [pod[j][x] EXCEPT !.deleting = TRUE] ELSE pod[j][x]
      BY <1>0, <3>1
    <3>3. ASSUME NEW j \in Kinds, NEW x \in Services
          PROVE  SamePod(j, x)
      <4>1. pod[j][x] \in PodObject
        BY <1>0
      <4>2. pod'[j][x] \in {pod[j][x], [pod[j][x] EXCEPT !.deleting = TRUE]}
        BY <3>2
      <4> QED BY <4>1, <4>2 DEF PodObject, SamePod
    <3> QED BY <2>1, <3>3
  <2>5. CASE PodRemoved(k, s)
    <3>1. ASSUME NEW j \in Kinds, NEW x \in Services PROVE SamePod(j, x)
      <4>1. pod[j][x] \in PodObject
        BY <1>0
      <4>2. pod'[j][x] \in {pod[j][x], GonePod(pod[j][x])}
        BY <1>0, <2>5 DEF PodRemoved
      <4> QED BY <4>1, <4>2 DEF GonePod, PodObject, SamePod
    <3> QED BY <2>1, <3>1
  <2>6. Effect
    BY <1>3, <2>1, <2>2, <2>3, <2>4, <2>5
  <2> QED BY <2>1, <2>6
<1>4. ASSUME NEW s \in Services, EndpointsSync(s) PROVE SvcEffect /\ Effect
  BY <1>4 DEF EndpointsSync, SamePod
<1> QED BY <1>1, <1>2, <1>3, <1>4 DEF EnvironmentStep, UserStep, DisruptionStep, ClusterStep

-----------------------------------------------------------------------------
(* A pod is created for a version that asked for it                          *)

\* A worker that keeps a pod holds a version that asks for it, one that removes
\* a pod holds a version that does not.
WorkJustified ==
  \A r \in Replicas, k \in Kinds :
    /\ work[r][k].at \in Keeps => Asks(k, work[r][k].svc)
    /\ work[r][k].at \in Removes => Unasked(k, work[r][k].svc)

PodsAskedFor ==
  \A k \in Kinds, s \in Services : pod[k][s].live => Asks(k, pod[k][s].built)

LEMMA WorkJustifiedStep ==
  ASSUME TypeOK, WorkJustified, [Next]_vars PROVE WorkJustified'
<1>1. CASE UNCHANGED work
  BY <1>1 DEF WorkJustified
<1>2. ASSUME NEW r \in Replicas, NEW k \in Kinds, WorkerMoves(r, k) PROVE WorkJustified'
  <2>1. ASSUME work'[r][k].at \in Keeps PROVE Asks(k, work'[r][k].svc)
    BY <1>2, <2>1, WorkEffect, ConstantsTyped DEF WorkJustified, Keeps
  <2>2. ASSUME work'[r][k].at \in Removes PROVE Unasked(k, work'[r][k].svc)
    <3>1. work[r][k].at \in {"idle"} \cup Keeps \cup Removes
      BY DEF TypeOK, ControllerTypeOK, Work, Keeps, Removes, ReadSteps, WriteSteps
    <3> QED BY <1>2, <2>2, <3>1, WorkEffect, ConstantsTyped DEF WorkJustified, Keeps, Removes
  <2> QED BY <1>2, <2>1, <2>2, WorkEffect DEF WorkJustified
<1>3. ASSUME NEW r \in Replicas, ProcessStep(r) PROVE WorkJustified'
  <2>1. CASE UNCHANGED work
    BY <1>1, <2>1
  <2>2. CASE ProcessExits(r)
    <3>1. \A q \in Replicas, k \in Kinds : work'[q][k] = work[q][k] \/ work'[q][k] = Idle
      BY <2>2 DEF ProcessExits, TypeOK, ControllerTypeOK
    <3> QED BY <3>1, ConstantsTyped DEF WorkJustified, Keeps, Removes
  <2> QED BY <1>3, <2>1, <2>2
      DEF ProcessStep, InformerStep, StartControllers, SyncService, SyncEndpoints, SyncPod, Resync
<1>4. CASE EnvironmentStep
  BY <1>1, <1>4 DEF EnvironmentStep, controllerVars
<1> QED BY <1>1, <1>2, <1>3, <1>4, EgressMoves, IngressMoves DEF Next, vars, Kinds

LEMMA PodsAskedForStep ==
  ASSUME TypeOK, WorkJustified, PodsAskedFor, [Next]_vars PROVE PodsAskedFor'
<1>1. CASE UNCHANGED pod
  BY <1>1 DEF PodsAskedFor
<1>2. ASSUME NEW r \in Replicas, NEW k \in Kinds, WorkerMoves(r, k) PROVE PodsAskedFor'
  BY <1>2, PodEffect DEF PodsAskedFor, WorkJustified, Keeps, SamePod
<1>3. ASSUME NEW r \in Replicas, ProcessStep(r) PROVE PodsAskedFor'
  BY <1>1, <1>3 DEF ProcessStep, clusterVars
<1>4. CASE EnvironmentStep
  BY <1>4, EnvironmentEffect DEF PodsAskedFor, SamePod
<1> QED BY <1>1, <1>2, <1>3, <1>4, EgressMoves, IngressMoves DEF Next, vars, Kinds

LEMMA AskedForInit == Init => WorkJustified /\ PodsAskedFor
BY ConstantsTyped DEF Init, ClusterInit, ControllerInit, WorkJustified, PodsAskedFor,
   Keeps, Removes, NoPod

\* For every number of replicas, with or without leader election: whatever caches,
\* requests, exits and faults do, a proxy pod runs the configuration of a Service
\* version that asked for that proxy.
THEOREM PodsBuiltAsAsked == Spec => []BuiltAsAsked
<1>1. TypeOK /\ PodsAskedFor => BuiltAsAsked
  BY DEF PodsAskedFor, BuiltAsAsked, Asks, Kinds
<1>2. TypeOK /\ WorkJustified /\ PodsAskedFor /\ [Next]_vars => (WorkJustified /\ PodsAskedFor)'
  BY WorkJustifiedStep, PodsAskedForStep
<1> QED BY <1>1, <1>2, AskedForInit, TypeCorrect, PTL DEF Spec

-----------------------------------------------------------------------------
(* When one replica works, what a worker holds is never older than a pod     *)

\* The manager elects a leader, or its Deployment has a single replica.
OneWorks == LeaderElection \/ \A q, r \in Replicas : q = r

OneLeader ==
  OneWorks => \A q, r \in Replicas : running[q] /\ running[r] => q = r

StoppedIsIdle ==
  \A r \in Replicas, k \in Kinds : ~running[r] => work[r][k].at = "idle"

CachesFollow ==
  /\ \A r \in Replicas, s \in Services : running[r] => Precedes(svcCache[r][s], svc[s])
  /\ \A r \in Replicas, k \in Kinds : work[r][k].at # "idle" =>
       Precedes(work[r][k].svc, svcCache[r][work[r][k].key])

\* What a pod is, or was, built from is no later than what the API server, the cache
\* of the replica that works and the reconcile in progress have.
PodsFollow ==
  \A k \in Kinds, s \in Services :
    /\ Precedes(pod[k][s].built, svc[s])
    /\ \A r \in Replicas : running[r] => Precedes(pod[k][s].built, svcCache[r][s])
    /\ \A r \in Replicas : work[r][k].at # "idle" /\ work[r][k].key = s =>
         Precedes(pod[k][s].built, work[r][k].svc)

LEMMA PrecedesOrder ==
  ASSUME NEW a \in ServiceVersion, NEW b \in ServiceVersion, NEW c \in ServiceVersion
  PROVE  /\ Precedes(a, a)
         /\ Precedes(a, b) /\ Precedes(b, c) => Precedes(a, c)
         /\ Precedes(a, b) /\ (c = b \/ b.rv < c.rv) => Precedes(a, c)
<1>1. a.rv \in Nat /\ b.rv \in Nat /\ c.rv \in Nat
  BY DEF ServiceVersion
<1> QED BY <1>1 DEF Precedes

LEMMA OneLeaderStep ==
  ASSUME TypeOK, OneLeader, [Next]_vars PROVE OneLeader'
<1>1. CASE UNCHANGED running
  BY <1>1 DEF OneLeader
<1>2. ASSUME NEW r \in Replicas, ProcessStep(r) PROVE OneLeader'
  <2>1. running \in [Replicas -> BOOLEAN]
    BY DEF TypeOK, ControllerTypeOK
  <2>2. CASE StartControllers(r)
    BY <2>1, <2>2 DEF StartControllers, OneLeader, OneWorks
  <2>3. CASE ProcessExits(r)
    BY <2>1, <2>3 DEF ProcessExits, OneLeader
  <2>4. CASE InformerStep(r)
    BY <1>1, <2>4 DEF InformerStep, SyncService, SyncEndpoints, SyncPod, Resync
  <2> QED BY <1>2, <2>2, <2>3, <2>4 DEF ProcessStep
<1>3. CASE EnvironmentStep
  BY <1>1, <1>3 DEF EnvironmentStep, controllerVars
<1> QED BY <1>1, <1>2, <1>3, EgressMoves, IngressMoves DEF Next, vars, WorkerMoves

LEMMA StoppedIsIdleStep ==
  ASSUME TypeOK, StoppedIsIdle, [Next]_vars PROVE StoppedIsIdle'
<1>0. running \in [Replicas -> BOOLEAN] /\ work \in [Replicas -> [Kinds -> Work]]
  BY DEF TypeOK, ControllerTypeOK
<1>1. CASE UNCHANGED <<running, work>>
  BY <1>1 DEF StoppedIsIdle
<1>2. ASSUME NEW r \in Replicas, ProcessStep(r) PROVE StoppedIsIdle'
  <2>2. CASE StartControllers(r)
    BY <1>0, <2>2 DEF StartControllers, StoppedIsIdle
  <2>3. CASE ProcessExits(r)
    <3>1. \A q \in Replicas, k \in Kinds : work'[q][k] = IF q = r THEN Idle ELSE work[q][k]
      BY <1>0, <2>3 DEF ProcessExits
    <3> QED BY <1>0, <2>3, <3>1, ConstantsTyped DEF ProcessExits, StoppedIsIdle
  <2>4. CASE InformerStep(r)
    BY <1>1, <2>4 DEF InformerStep, SyncService, SyncEndpoints, SyncPod, Resync
  <2> QED BY <1>2, <2>2, <2>3, <2>4 DEF ProcessStep
<1>3. CASE EnvironmentStep
  BY <1>1, <1>3 DEF EnvironmentStep, controllerVars
<1>4. ASSUME NEW r \in Replicas, NEW k \in Kinds, WorkerMoves(r, k) PROVE StoppedIsIdle'
  BY <1>4, WorkEffect, ConstantsTyped DEF WorkerMoves, StoppedIsIdle
<1> QED BY <1>1, <1>2, <1>3, <1>4, EgressMoves, IngressMoves DEF Next, vars, Kinds

LEMMA CachesFollowStep ==
  ASSUME TypeOK, StoppedIsIdle, CachesFollow, [Next]_vars PROVE CachesFollow'
<1>0. /\ running \in [Replicas -> BOOLEAN]
      /\ work \in [Replicas -> [Kinds -> Work]]
      /\ svcCache \in [Replicas -> [Services -> ServiceVersion]]
      /\ svc \in [Services -> ServiceVersion]
      /\ \A r \in Replicas, k \in Kinds :
           work[r][k].at # "idle" => work[r][k].key \in Services /\ running[r]
      /\ \A r \in Replicas, k \in Kinds : work[r][k].svc \in ServiceVersion
  BY DEF TypeOK, ClusterTypeOK, ControllerTypeOK, StoppedIsIdle, Work
<1>1. CASE UNCHANGED <<running, work, svcCache, svc>>
  BY <1>1 DEF CachesFollow, Precedes
<1>2. ASSUME NEW r \in Replicas, ProcessStep(r) PROVE CachesFollow'
  <2>1. UNCHANGED svc
    BY <1>2 DEF ProcessStep, clusterVars
  <2>2. CASE StartControllers(r)
    <3>1. /\ \A q \in Replicas : running'[q] => running[q] \/ q = r
          /\ \A q \in Replicas : svcCache'[q] = IF q = r THEN svc ELSE svcCache[q]
          /\ UNCHANGED work
          /\ ~running[r]
      BY <1>0, <2>2 DEF StartControllers
    <3>2. ASSUME NEW q \in Replicas, NEW s \in Services, running'[q]
          PROVE  Precedes(svcCache'[q][s], svc'[s])
      <4>1. CASE q = r
        BY <2>1, <3>1, <4>1 DEF Precedes
      <4>2. CASE q # r
        BY <2>1, <3>1, <3>2, <4>2 DEF CachesFollow
      <4> QED BY <4>1, <4>2
    <3>3. ASSUME NEW q \in Replicas, NEW k \in Kinds, work'[q][k].at # "idle"
          PROVE  Precedes(work'[q][k].svc, svcCache'[q][work'[q][k].key])
      <4>1. work'[q][k] = work[q][k] /\ svcCache'[q] = svcCache[q]
        BY <1>0, <3>1, <3>3
      <4> QED BY <3>3, <4>1 DEF CachesFollow
    <3> QED BY <3>2, <3>3 DEF CachesFollow
  <2>3. CASE ProcessExits(r)
    <3>1. /\ \A q \in Replicas, k \in Kinds : work'[q][k] = IF q = r THEN Idle ELSE work[q][k]
          /\ \A q \in Replicas : running'[q] => running[q] /\ q # r
          /\ \A q \in Replicas : q # r => svcCache'[q] = svcCache[q]
      BY <1>0, <2>3 DEF ProcessExits
    <3> QED BY <2>1, <3>1, ConstantsTyped DEF CachesFollow, Precedes
  <2>4. ASSUME NEW s \in Services, SyncService(r, s) PROVE CachesFollow'
    <3>1. /\ \A q \in Replicas, x \in Services : svcCache'[q][x] =
               IF q = r /\ x = s THEN svc[x] ELSE svcCache[q][x]
          /\ UNCHANGED <<work, running>>
      BY <1>0, <2>4 DEF SyncService
    <3>2. ASSUME NEW q \in Replicas, NEW x \in Services, running'[q]
          PROVE  Precedes(svcCache'[q][x], svc'[x])
      BY <2>1, <3>1, <3>2 DEF CachesFollow, Precedes
    <3>3. ASSUME NEW q \in Replicas, NEW k \in Kinds, work'[q][k].at # "idle"
          PROVE  Precedes(work'[q][k].svc, svcCache'[q][work'[q][k].key])
      <4> DEFINE x == work[q][k].key
      <4>1. /\ x \in Services /\ running[q]
            /\ work[q][k].svc \in ServiceVersion
            /\ svcCache[q][x] \in ServiceVersion
            /\ svc[x] \in ServiceVersion
        BY <1>0, <3>1, <3>3
      <4>2. Precedes(work[q][k].svc, svcCache[q][x]) /\ Precedes(svcCache[q][x], svc[x])
        BY <3>1, <3>3, <4>1 DEF CachesFollow
      <4>3. Precedes(work[q][k].svc, svc[x])
        BY <4>1, <4>2, PrecedesOrder
      <4> QED BY <3>1, <4>1, <4>2, <4>3
    <3> QED BY <3>2, <3>3 DEF CachesFollow
  <2>5. CASE UNCHANGED <<running, work, svcCache>>
    BY <1>1, <2>1, <2>5
  <2> QED BY <1>2, <2>2, <2>3, <2>4, <2>5
      DEF ProcessStep, InformerStep, SyncEndpoints, SyncPod, Resync
<1>3. CASE EnvironmentStep
  <2>1. \A s \in Services : svc'[s] = svc[s] \/ svc[s].rv < svc'[s].rv
    BY <1>3, EnvironmentEffect
  <2>2. svc' \in [Services -> ServiceVersion]
    BY <1>3, EnvironmentTyped DEF TypeOK, ClusterTypeOK
  <2>3. UNCHANGED <<running, work, svcCache>>
    BY <1>3 DEF EnvironmentStep, controllerVars
  <2> QED BY <1>0, <2>1, <2>2, <2>3, PrecedesOrder DEF CachesFollow
<1>4. ASSUME NEW r \in Replicas, NEW k \in Kinds, WorkerMoves(r, k) PROVE CachesFollow'
  <2>1. UNCHANGED <<running, svcCache, svc>>
    BY <1>4 DEF WorkerMoves, cacheVars
  <2>2. ASSUME NEW q \in Replicas, NEW j \in Kinds, work'[q][j].at # "idle"
        PROVE  Precedes(work'[q][j].svc, svcCache'[q][work'[q][j].key])
    <3>1. CASE q # r \/ j # k
      BY <1>4, <2>1, <2>2, <3>1, WorkEffect DEF CachesFollow
    <3>2. CASE q = r /\ j = k
      BY <1>4, <2>1, <2>2, <3>2, WorkEffect, ConstantsTyped DEF CachesFollow, Precedes
    <3> QED BY <3>1, <3>2
  <2> QED BY <2>1, <2>2 DEF CachesFollow
<1> QED BY <1>1, <1>2, <1>3, <1>4, EgressMoves, IngressMoves DEF Next, vars, Kinds

LEMMA PodsFollowStep ==
  ASSUME OneWorks, TypeOK, OneLeader, StoppedIsIdle, CachesFollow, PodsFollow, [Next]_vars
  PROVE  PodsFollow'
<1>0. /\ running \in [Replicas -> BOOLEAN]
      /\ work \in [Replicas -> [Kinds -> Work]]
      /\ svcCache \in [Replicas -> [Services -> ServiceVersion]]
      /\ svc \in [Services -> ServiceVersion]
      /\ \A r \in Replicas, k \in Kinds :
           work[r][k].at # "idle" => work[r][k].key \in Services /\ running[r]
      /\ \A r \in Replicas, k \in Kinds : work[r][k].svc \in ServiceVersion
      /\ \A k \in Kinds, s \in Services : pod[k][s].built \in ServiceVersion
  BY DEF TypeOK, ClusterTypeOK, ControllerTypeOK, StoppedIsIdle, Work, PodObject
<1>1. CASE UNCHANGED vars
  BY <1>1 DEF PodsFollow, Precedes, vars
<1>2. ASSUME NEW r \in Replicas, ProcessStep(r) PROVE PodsFollow'
  <2>1. UNCHANGED <<svc, pod>>
    BY <1>2 DEF ProcessStep, clusterVars
  <2>2. CASE StartControllers(r)
    <3>1. /\ \A q \in Replicas : running'[q] => q = r
          /\ svcCache'[r] = svc
          /\ UNCHANGED work
      BY <1>0, <2>2 DEF StartControllers, OneWorks
    <3> QED BY <2>1, <3>1 DEF PodsFollow, Precedes
  <2>3. CASE ProcessExits(r)
    <3>1. /\ \A q \in Replicas, k \in Kinds : work'[q][k] = IF q = r THEN Idle ELSE work[q][k]
          /\ \A q \in Replicas : running'[q] => running[q] /\ q # r
          /\ \A q \in Replicas : q # r => svcCache'[q] = svcCache[q]
      BY <1>0, <2>3 DEF ProcessExits
    <3> QED BY <2>1, <3>1, ConstantsTyped DEF PodsFollow, Precedes
  <2>4. ASSUME NEW s \in Services, SyncService(r, s) PROVE PodsFollow'
    <3>1. /\ \A q \in Replicas, x \in Services : svcCache'[q][x] =
               IF q = r /\ x = s THEN svc[x] ELSE svcCache[q][x]
          /\ UNCHANGED <<work, running>>
      BY <1>0, <2>4 DEF SyncService
    <3> QED BY <2>1, <3>1 DEF PodsFollow, Precedes
  <2>5. CASE UNCHANGED <<running, work, svcCache>>
    BY <2>1, <2>5 DEF PodsFollow, Precedes
  <2> QED BY <1>2, <2>2, <2>3, <2>4, <2>5
      DEF ProcessStep, InformerStep, SyncEndpoints, SyncPod, Resync
<1>3. CASE EnvironmentStep
  <2>1. /\ \A s \in Services : svc'[s] = svc[s] \/ svc[s].rv < svc'[s].rv
        /\ \A k \in Kinds, s \in Services : pod'[k][s].built = pod[k][s].built
        /\ UNCHANGED <<running, work, svcCache>>
    BY <1>3, EnvironmentEffect DEF controllerVars, SamePod
  <2>2. svc' \in [Services -> ServiceVersion]
    BY <1>3, EnvironmentTyped DEF TypeOK, ClusterTypeOK
  <2>3. ASSUME NEW k \in Kinds, NEW s \in Services
        PROVE  Precedes(pod'[k][s].built, svc'[s])
    <3>1. /\ pod'[k][s].built = pod[k][s].built
          /\ Precedes(pod[k][s].built, svc[s])
          /\ pod[k][s].built \in ServiceVersion
          /\ svc[s] \in ServiceVersion /\ svc'[s] \in ServiceVersion
      BY <1>0, <2>1, <2>2, <2>3 DEF PodsFollow
    <3> QED BY <2>1, <3>1, PrecedesOrder
  <2> QED BY <2>1, <2>3 DEF PodsFollow, Precedes
<1>4. ASSUME NEW r \in Replicas, NEW k \in Kinds, WorkerMoves(r, k) PROVE PodsFollow'
  <2> DEFINE v == work[r][k].svc
             x == work[r][k].key
  <2>1. UNCHANGED <<running, svcCache, svc>>
    BY <1>4 DEF WorkerMoves, cacheVars
  <2>2. ASSUME NEW j \in Kinds, NEW s \in Services, pod'[j][s].built # pod[j][s].built
        PROVE  /\ j = k /\ s = x /\ pod'[j][s].built = v
               /\ work[r][k].at = "create" /\ running[r]
               /\ Precedes(v, svcCache[r][x]) /\ Precedes(v, svc[x])
    <3>1. j = k /\ s = x /\ pod'[j][s].built = v /\ work[r][k].at = "create"
      BY <1>4, <2>2, PodEffect DEF SamePod
    <3>2. /\ running[r] /\ x \in Services
          /\ v \in ServiceVersion /\ svcCache[r][x] \in ServiceVersion /\ svc[x] \in ServiceVersion
      BY <1>0, <3>1
    <3>3. Precedes(v, svcCache[r][x]) /\ Precedes(svcCache[r][x], svc[x])
      BY <3>1, <3>2 DEF CachesFollow
    <3> QED BY <3>1, <3>2, <3>3, PrecedesOrder
  <2>3. ASSUME NEW j \in Kinds, NEW s \in Services
        PROVE  /\ Precedes(pod'[j][s].built, svc'[s])
               /\ \A q \in Replicas : running'[q] => Precedes(pod'[j][s].built, svcCache'[q][s])
    <3>1. CASE pod'[j][s].built = pod[j][s].built
      BY <2>1, <3>1 DEF PodsFollow
    <3>2. CASE pod'[j][s].built # pod[j][s].built
      BY <2>1, <2>2, <2>3, <3>2 DEF OneLeader
    <3> QED BY <3>1, <3>2
  <2>4. ASSUME NEW j \in Kinds, NEW s \in Services, NEW q \in Replicas,
               work'[q][j].at # "idle", work'[q][j].key = s
        PROVE  Precedes(pod'[j][s].built, work'[q][j].svc)
    <3>1. CASE pod'[j][s].built = pod[j][s].built
      <4>1. CASE q # r \/ j # k
        BY <1>4, <2>4, <3>1, <4>1, WorkEffect DEF PodsFollow
      <4>2. CASE q = r /\ j = k
        BY <1>4, <2>4, <3>1, <4>2, WorkEffect, ConstantsTyped DEF PodsFollow
      <4> QED BY <4>1, <4>2
    <3>2. CASE pod'[j][s].built # pod[j][s].built
      <4>1. j = k /\ s = x /\ pod'[j][s].built = v /\ work[r][k].at = "create" /\ running[r]
        BY <2>2, <2>4, <3>2
      <4>2. CASE q = r
        BY <1>4, <2>4, <4>1, <4>2, WorkEffect, ConstantsTyped DEF Precedes
      <4>3. CASE q # r
        BY <1>0, <1>4, <2>4, <4>1, <4>3, WorkEffect DEF OneLeader
      <4> QED BY <4>2, <4>3
    <3> QED BY <3>1, <3>2
  <2> QED BY <2>3, <2>4 DEF PodsFollow
<1> QED BY <1>1, <1>2, <1>3, <1>4, EgressMoves, IngressMoves DEF Next, Kinds

LeaderInv == OneLeader /\ StoppedIsIdle /\ CachesFollow /\ PodsFollow

LEMMA LeaderInvInit == Init => LeaderInv
BY ConstantsTyped DEF Init, ClusterInit, ControllerInit, LeaderInv, OneLeader,
   StoppedIsIdle, CachesFollow, PodsFollow, NoPod, Precedes

\* With leader election or a single replica, and for any number of exits, a reconcile
\* deletes a pod only on account of a version later than the one it was built from.
THEOREM OnlyLaterVersionsDelete ==
  ASSUME OneWorks PROVE Spec => NeverDeletedByOlderService
<1>1. TypeOK /\ LeaderInv /\ [Next]_vars => LeaderInv'
  BY OneLeaderStep, StoppedIsIdleStep, CachesFollowStep, PodsFollowStep DEF LeaderInv
<1>2. ASSUME TypeOK, LeaderInv, WorkJustified, PodsAskedFor
      PROVE  \A r \in Replicas, k \in Kinds, s \in Services :
               OperatorDeletes(r, k, s) => pod[k][s].built.rv < work[r][k].svc.rv
  <2> SUFFICES ASSUME NEW r \in Replicas, NEW k \in Kinds, NEW s \in Services,
                      OperatorDeletes(r, k, s)
               PROVE  pod[k][s].built.rv < work[r][k].svc.rv
    OBVIOUS
  <2>1. Precedes(pod[k][s].built, work[r][k].svc)
    BY <1>2 DEF OperatorDeletes, LeaderInv, PodsFollow
  <2>2. Asks(k, pod[k][s].built) /\ Unasked(k, work[r][k].svc)
    BY <1>2 DEF OperatorDeletes, PodsAskedFor, WorkJustified, Removes
  <2>3. pod[k][s].built # work[r][k].svc
    BY <2>2 DEF Asks, Unasked, EgressWanted, IngressWanted
  <2> QED BY <2>1, <2>3 DEF Precedes
<1>3. TypeOK /\ LeaderInv /\ WorkJustified /\ PodsAskedFor =>
        [\A r \in Replicas, k \in Kinds, s \in Services :
           OperatorDeletes(r, k, s) => pod[k][s].built.rv < work[r][k].svc.rv]_vars
  BY <1>2
<1>4. TypeOK /\ WorkJustified /\ PodsAskedFor /\ [Next]_vars => (WorkJustified /\ PodsAskedFor)'
  BY WorkJustifiedStep, PodsAskedForStep
<1> QED BY <1>1, <1>3, <1>4, AskedForInit, LeaderInvInit, TypeCorrect, PTL
    DEF Spec, NeverDeletedByOlderService

-----------------------------------------------------------------------------
(* No event is lost                                                          *)

IdleHasNoKey ==
  \A r \in Replicas, k \in Kinds : work[r][k].at = "idle" => work[r][k].key = NoKey

\* A reconcile whose Service has changed since it began will be run once more.
StaleIsQueued ==
  \A r \in Replicas, k \in Kinds : work[r][k].at # "idle" =>
    \/ work[r][k].svc = svcCache[r][work[r][k].key]
    \/ work[r][k].key \in queue[r][k]

QueueInv == StoppedIsIdle /\ IdleHasNoKey /\ StaleIsQueued /\ NothingForgotten

\* The worker of k in r leaves the queues and the history of the others alone.
LEMMA QueueEffect ==
  ASSUME TypeOK, NEW r \in Replicas, NEW k \in Kinds, WorkerMoves(r, k),
         NEW q \in Replicas, NEW j \in Kinds
  PROVE  q # r \/ j # k => queue'[q][j] = queue[q][j] /\ handled'[q][j] = handled[q][j]
BY DEF TypeOK, ControllerTypeOK, WorkerMoves, Starts, GoesOn, Take, Continue, Done, Retry

LEMMA QueueInvWorker ==
  ASSUME TypeOK, QueueInv, NEW r \in Replicas, NEW k \in Kinds, WorkerMoves(r, k)
  PROVE  QueueInv'
<1> DEFINE w == work[r][k]
<1>0. /\ work \in [Replicas -> [Kinds -> Work]]
      /\ queue \in [Replicas -> [Kinds -> SUBSET Services]]
      /\ handled \in [Replicas -> [Kinds -> [Services -> ServiceVersion]]]
      /\ svcCache \in [Replicas -> [Services -> ServiceVersion]]
      /\ w.at # "idle" => w.key \in Services
      /\ UNCHANGED <<running, svcCache>>
      /\ NoKey \notin Services
      /\ Idle.at = "idle" /\ Idle.key = NoKey
  BY ControllerAssumption DEF TypeOK, ControllerTypeOK, WorkerMoves, cacheVars, Idle
<1>01. StoppedIsIdle /\ IdleHasNoKey /\ StaleIsQueued /\ NothingForgotten
  BY DEF QueueInv
\* The other workers, and their queues and histories, are as before.
<1>02. ASSUME NEW q \in Replicas, NEW j \in Kinds, q # r \/ j # k
       PROVE  /\ work'[q][j] = work[q][j]
              /\ queue'[q][j] = queue[q][j]
              /\ handled'[q][j] = handled[q][j]
  BY <1>02, WorkEffect, QueueEffect
<1>03. \/ work'[r][k] = Idle
       \/ work'[r][k].at # "idle" /\ running[r]
  BY <1>0, <1>01, WorkEffect DEF ReadSteps, WriteSteps, StoppedIsIdle
<1>1. ASSUME NEW q \in Replicas, NEW j \in Kinds, ~running'[q]
      PROVE  work'[q][j].at = "idle"
  <2>1. CASE q # r \/ j # k
    BY <1>0, <1>01, <1>02, <1>1, <2>1 DEF StoppedIsIdle
  <2>2. CASE q = r /\ j = k
    BY <1>0, <1>03, <1>1, <2>2
  <2> QED BY <2>1, <2>2
<1>2. ASSUME NEW q \in Replicas, NEW j \in Kinds, work'[q][j].at = "idle"
      PROVE  work'[q][j].key = NoKey
  <2>1. CASE q # r \/ j # k
    BY <1>01, <1>02, <1>2, <2>1 DEF IdleHasNoKey
  <2>2. CASE q = r /\ j = k
    BY <1>0, <1>03, <1>2, <2>2
  <2> QED BY <2>1, <2>2
\* What happens to the queue, the reconcile and the history of worker k of r.
<1>3. /\ work'[r][k].at # "idle" =>
           \/ work'[r][k].svc = svcCache[r][work'[r][k].key]
           \/ work'[r][k].key \in queue'[r][k]
      /\ \A s \in Services : running[r] =>
           \/ handled'[r][k][s] = svcCache[r][s]
           \/ s \in queue'[r][k]
           \/ work'[r][k].key = s
  <2>0. \A s \in Services : running[r] =>
           \/ handled[r][k][s] = svcCache[r][s]
           \/ s \in queue[r][k]
           \/ w.key = s
    BY DEF QueueInv, NothingForgotten
  <2>1. CASE Starts(r, k)
    <3> PICK s \in Services :
          /\ Take(r, k, s)
          /\ \/ Continue(r, k, Begin(s, svcCache[r][s]), "ensure")
             \/ Continue(r, k, Begin(s, svcCache[r][s]), "cleanup")
             \/ Done(r, k, s, svcCache[r][s])
      BY <2>1 DEF Starts
    <3>1. w.key \notin Services
      BY <1>0 DEF Take, QueueInv, IdleHasNoKey
    <3>2. queue'[r][k] = queue[r][k] \ {s}
      BY <1>0 DEF Take
    <3>3. CASE \/ Continue(r, k, Begin(s, svcCache[r][s]), "ensure")
               \/ Continue(r, k, Begin(s, svcCache[r][s]), "cleanup")
      <4>1. work'[r][k].key = s /\ work'[r][k].svc = svcCache[r][s] /\ UNCHANGED handled
        BY <1>0, <3>3 DEF Continue, Begin
      <4> QED BY <2>0, <3>1, <3>2, <4>1
    <3>4. CASE Done(r, k, s, svcCache[r][s])
      <4>1. /\ work'[r][k] = Idle
            /\ \A x \in Services : handled'[r][k][x] = IF x = s THEN svcCache[r][s] ELSE handled[r][k][x]
        BY <1>0, <3>4 DEF Done
      <4> QED BY <1>0, <2>0, <3>1, <3>2, <4>1
    <3> QED BY <3>3, <3>4
  <2>2. CASE GoesOn(r, k)
    <3>1. w.at # "idle" /\ w.key \in Services
      BY <1>0, <2>2 DEF GoesOn
    <3>2. w.svc = svcCache[r][w.key] \/ w.key \in queue[r][k]
      BY <3>1 DEF QueueInv, StaleIsQueued
    <3>3. CASE /\ UNCHANGED queue
               /\ \E x \in Work, at \in ReadSteps \cup WriteSteps :
                    x.key = w.key /\ x.svc = w.svc /\ Continue(r, k, x, at)
      <4> PICK x \in Work, at \in ReadSteps \cup WriteSteps :
            x.key = w.key /\ x.svc = w.svc /\ Continue(r, k, x, at)
        BY <3>3
      <4>1. work'[r][k] = [x EXCEPT !.at = at] /\ UNCHANGED handled
        BY <1>0 DEF Continue
      <4>2. work'[r][k].key = w.key /\ work'[r][k].svc = w.svc
        BY <4>1 DEF Work
      <4> QED BY <2>0, <3>2, <3>3, <4>1, <4>2
    <3>4. CASE Done(r, k, w.key, w.svc) /\ UNCHANGED queue
      <4>1. /\ work'[r][k] = Idle
            /\ \A x \in Services : handled'[r][k][x] = IF x = w.key THEN w.svc ELSE handled[r][k][x]
        BY <1>0, <3>4 DEF Done
      <4> QED BY <1>0, <2>0, <3>2, <3>4, <4>1
    <3>5. CASE Retry(r, k)
      <4>1. work'[r][k] = Idle /\ queue'[r][k] = queue[r][k] \cup {w.key} /\ UNCHANGED handled
        BY <1>0, <3>5 DEF Retry
      <4> QED BY <1>0, <2>0, <4>1
    <3> QED BY <2>2, <3>3, <3>4, <3>5 DEF GoesOn
  <2> QED BY <2>1, <2>2 DEF WorkerMoves
<1>4. ASSUME NEW q \in Replicas, NEW j \in Kinds, work'[q][j].at # "idle"
      PROVE  \/ work'[q][j].svc = svcCache'[q][work'[q][j].key]
             \/ work'[q][j].key \in queue'[q][j]
  <2>1. CASE q # r \/ j # k
    BY <1>0, <1>01, <1>02, <1>4, <2>1 DEF StaleIsQueued
  <2>2. CASE q = r /\ j = k
    BY <1>0, <1>3, <1>4, <2>2
  <2> QED BY <2>1, <2>2
<1>5. ASSUME NEW q \in Replicas, NEW j \in Kinds, NEW s \in Services, running'[q]
      PROVE  \/ handled'[q][j][s] = svcCache'[q][s]
             \/ s \in queue'[q][j]
             \/ work'[q][j].key = s
  <2>1. CASE q # r \/ j # k
    BY <1>0, <1>01, <1>02, <1>5, <2>1 DEF NothingForgotten
  <2>2. CASE q = r /\ j = k
    BY <1>0, <1>3, <1>5, <2>2
  <2> QED BY <2>1, <2>2
<1> QED BY <1>1, <1>2, <1>4, <1>5
        DEF QueueInv, StoppedIsIdle, IdleHasNoKey, StaleIsQueued, NothingForgotten

LEMMA QueueInvProcess ==
  ASSUME TypeOK, QueueInv, NEW r \in Replicas, ProcessStep(r) PROVE QueueInv'
<1>0. /\ running \in [Replicas -> BOOLEAN]
      /\ work \in [Replicas -> [Kinds -> Work]]
      /\ queue \in [Replicas -> [Kinds -> SUBSET Services]]
      /\ svcCache \in [Replicas -> [Services -> ServiceVersion]]
      /\ handled \in [Replicas -> [Kinds -> [Services -> ServiceVersion]]]
      /\ Idle.at = "idle" /\ Idle.key = NoKey
      /\ \A q \in Replicas, k \in Kinds : work[q][k].at # "idle" => work[q][k].key \in Services
  BY DEF TypeOK, ControllerTypeOK, Idle
<1>01. StoppedIsIdle /\ IdleHasNoKey /\ StaleIsQueued /\ NothingForgotten
  BY DEF QueueInv
<1>1. CASE StartControllers(r)
  <2>1. /\ \A q \in Replicas : running'[q] = IF q = r THEN TRUE ELSE running[q]
        /\ \A q \in Replicas : svcCache'[q] = IF q = r THEN svc ELSE svcCache[q]
        /\ \A q \in Replicas, k \in Kinds : q # r =>
             queue'[q][k] = queue[q][k] /\ handled'[q][k] = handled[q][k]
        /\ UNCHANGED work /\ ~running[r]
    BY <1>0, <1>1 DEF StartControllers
  <2>2. ASSUME NEW k \in Kinds, NEW s \in Services
        PROVE  handled'[r][k][s] = svc[s] \/ s \in queue'[r][k]
    <3>1. queue'[r][k] = {x \in Services : svc[x].live}
      BY <1>0, <1>1 DEF StartControllers
    <3>2. handled'[r][k] = [x \in Services |-> IF svc[x].live THEN NoService ELSE svc[x]]
      BY <1>0, <1>1 DEF StartControllers
    <3> QED BY <3>1, <3>2
  <2>3. \A k \in Kinds : work[r][k].at = "idle"
    BY <2>1 DEF QueueInv, StoppedIsIdle
  <2>4. StoppedIsIdle' /\ IdleHasNoKey'
    BY <1>01, <2>1 DEF StoppedIsIdle, IdleHasNoKey
  <2>5. StaleIsQueued'
    BY <1>01, <2>1, <2>3 DEF StaleIsQueued
  <2>6. ASSUME NEW q \in Replicas, NEW k \in Kinds, NEW s \in Services, running'[q]
        PROVE  \/ handled'[q][k][s] = svcCache'[q][s]
               \/ s \in queue'[q][k]
               \/ work'[q][k].key = s
    <3>1. CASE q = r
      BY <2>1, <2>2, <3>1
    <3>2. CASE q # r
      <4>1. /\ running[q]
            /\ svcCache'[q] = svcCache[q]
            /\ queue'[q][k] = queue[q][k]
            /\ handled'[q][k] = handled[q][k]
            /\ UNCHANGED work
        BY <2>1, <2>6, <3>2
      <4>2. \/ handled[q][k][s] = svcCache[q][s]
            \/ s \in queue[q][k]
            \/ work[q][k].key = s
        BY <1>01, <4>1 DEF NothingForgotten
      <4> QED BY <4>1, <4>2
    <3> QED BY <3>1, <3>2
  <2>7. NothingForgotten'
    BY <2>6 DEF NothingForgotten
  <2> QED BY <2>4, <2>5, <2>7 DEF QueueInv
<1>2. CASE ProcessExits(r)
  <2>1. /\ ~running'[r]
        /\ \A q \in Replicas : q # r => running'[q] = running[q]
        /\ \A q \in Replicas : q # r => svcCache'[q] = svcCache[q]
        /\ \A q \in Replicas, k \in Kinds : q # r => queue'[q][k] = queue[q][k]
        /\ \A k \in Kinds : work'[r][k] = Idle
        /\ \A q \in Replicas, k \in Kinds : q # r => work'[q][k] = work[q][k]
        /\ UNCHANGED handled
    BY <1>0, <1>2 DEF ProcessExits
  <2>2. StoppedIsIdle' /\ IdleHasNoKey'
    <3>1. ASSUME NEW q \in Replicas, NEW k \in Kinds, ~running'[q]
          PROVE  work'[q][k].at = "idle"
      <4>1. CASE q = r
        BY <1>0, <2>1, <4>1
      <4>2. CASE q # r
        BY <1>01, <2>1, <3>1, <4>2 DEF StoppedIsIdle
      <4> QED BY <4>1, <4>2
    <3>2. ASSUME NEW q \in Replicas, NEW k \in Kinds, work'[q][k].at = "idle"
          PROVE  work'[q][k].key = NoKey
      <4>1. CASE q = r
        BY <1>0, <2>1, <4>1
      <4>2. CASE q # r
        BY <1>01, <2>1, <3>2, <4>2 DEF IdleHasNoKey
      <4> QED BY <4>1, <4>2
    <3> QED BY <3>1, <3>2 DEF StoppedIsIdle, IdleHasNoKey
  <2>3. StaleIsQueued'
    <3>1. ASSUME NEW q \in Replicas, NEW k \in Kinds, work'[q][k].at # "idle"
          PROVE  \/ work'[q][k].svc = svcCache'[q][work'[q][k].key]
                 \/ work'[q][k].key \in queue'[q][k]
      <4>1. q # r
        BY <1>0, <2>1, <3>1
      <4>2. /\ work'[q][k] = work[q][k]
            /\ queue'[q][k] = queue[q][k]
            /\ svcCache'[q] = svcCache[q]
        BY <2>1, <4>1
      <4> QED BY <1>01, <3>1, <4>2 DEF StaleIsQueued
    <3> QED BY <3>1 DEF StaleIsQueued
  <2>4. ASSUME NEW q \in Replicas, NEW k \in Kinds, NEW s \in Services, running'[q]
        PROVE  \/ handled'[q][k][s] = svcCache'[q][s]
               \/ s \in queue'[q][k]
               \/ work'[q][k].key = s
    <3>1. q # r /\ running[q]
      BY <2>1, <2>4
    <3>2. /\ svcCache'[q] = svcCache[q]
          /\ queue'[q][k] = queue[q][k]
          /\ work'[q][k] = work[q][k]
          /\ UNCHANGED handled
      BY <2>1, <3>1
    <3>3. \/ handled[q][k][s] = svcCache[q][s]
          \/ s \in queue[q][k]
          \/ work[q][k].key = s
      BY <1>01, <3>1 DEF NothingForgotten
    <3> QED BY <3>2, <3>3
  <2>5. NothingForgotten'
    BY <2>4 DEF NothingForgotten
  <2> QED BY <2>2, <2>3, <2>5 DEF QueueInv
<1>3. ASSUME NEW s \in Services, SyncService(r, s) PROVE QueueInv'
  <2>1. /\ \A q \in Replicas, x \in Services : svcCache'[q][x] =
             IF q = r /\ x = s THEN svc[x] ELSE svcCache[q][x]
        /\ \A q \in Replicas, k \in Kinds : queue'[q][k] =
             IF q = r THEN queue[q][k] \cup {s} ELSE queue[q][k]
        /\ UNCHANGED <<running, work, handled>>
    BY <1>0, <1>3 DEF SyncService
  <2>2. StoppedIsIdle' /\ IdleHasNoKey'
    BY <1>01, <2>1 DEF StoppedIsIdle, IdleHasNoKey
  <2>3. StaleIsQueued'
    <3>1. ASSUME NEW q \in Replicas, NEW k \in Kinds, work[q][k].at # "idle"
          PROVE  \/ work[q][k].svc = svcCache'[q][work[q][k].key]
                 \/ work[q][k].key \in queue'[q][k]
      <4>1. work[q][k].key \in Services
        BY <1>0, <3>1
      <4>2. CASE q = r /\ work[q][k].key = s
        BY <2>1, <4>2
      <4>3. CASE ~(q = r /\ work[q][k].key = s)
        BY <1>01, <2>1, <3>1, <4>1, <4>3 DEF StaleIsQueued
      <4> QED BY <4>2, <4>3
    <3> QED BY <2>1, <3>1 DEF StaleIsQueued
  <2>4. NothingForgotten'
    <3>1. ASSUME NEW q \in Replicas, NEW k \in Kinds, NEW x \in Services, running[q]
          PROVE  \/ handled[q][k][x] = svcCache'[q][x]
                 \/ x \in queue'[q][k]
                 \/ work[q][k].key = x
      <4>1. CASE q = r /\ x = s
        BY <2>1, <4>1
      <4>2. CASE ~(q = r /\ x = s)
        <5>1. svcCache'[q][x] = svcCache[q][x] /\ queue[q][k] \subseteq queue'[q][k]
          BY <2>1, <4>2
        <5>2. handled[q][k][x] = svcCache[q][x] \/ x \in queue[q][k] \/ work[q][k].key = x
          BY <1>01, <3>1 DEF NothingForgotten
        <5> QED BY <5>1, <5>2
      <4> QED BY <4>1, <4>2
    <3> QED BY <2>1, <3>1 DEF NothingForgotten
  <2> QED BY <2>2, <2>3, <2>4 DEF QueueInv
<1>4. CASE Resync(r)
  <2>1. /\ \A q \in Replicas, k \in Kinds : queue[q][k] \subseteq queue'[q][k]
        /\ UNCHANGED <<running, work, handled, svcCache>>
    BY <1>0, <1>4 DEF Resync
  <2> QED BY <2>1 DEF QueueInv, StoppedIsIdle, IdleHasNoKey, StaleIsQueued, NothingForgotten
<1>5. CASE UNCHANGED <<running, svcCache, queue, work, handled>>
  BY <1>5 DEF QueueInv, StoppedIsIdle, IdleHasNoKey, StaleIsQueued, NothingForgotten
<1> QED BY <1>1, <1>2, <1>3, <1>4, <1>5 DEF ProcessStep, InformerStep, SyncEndpoints, SyncPod

\* For any number of replicas and Services, and whatever errors reconciles meet: a
\* cached Service version is reconciled without error, queued, or being worked on.
THEOREM NoEventLost == Spec => []NothingForgotten
<1>1. Init => QueueInv
  BY ConstantsTyped DEF Init, ControllerInit, QueueInv, StoppedIsIdle, IdleHasNoKey,
     StaleIsQueued, NothingForgotten, Idle
<1>2. ASSUME TypeOK, QueueInv, [Next]_vars PROVE QueueInv'
  <2>1. CASE UNCHANGED controllerVars
    BY <1>2, <2>1 DEF QueueInv, StoppedIsIdle, IdleHasNoKey, StaleIsQueued, NothingForgotten,
       controllerVars
  <2> QED BY <1>2, <2>1, QueueInvWorker, QueueInvProcess, EgressMoves, IngressMoves
          DEF Next, vars, controllerVars, EnvironmentStep, Kinds
<1>3. QueueInv => NothingForgotten
  BY DEF QueueInv
<1> QED BY <1>1, <1>2, <1>3, TypeCorrect, PTL DEF Spec

-----------------------------------------------------------------------------
(* Endpoints name pods that were Running                                     *)

\* p, a pod of s as the API server or a cache has it, has run if it says so.
HasRun(p, s) == p.live /\ p.phase = "Running" => p.inc \in ran[s]

EndpointsSteps == {"getEndpoints", "createEndpoints", "updateEndpoints"}

\* The pod a reconcile is about to write into the Endpoints has run.
WorkNamesRun ==
  \A r \in Replicas : work[r]["egress"].at \in EndpointsSteps =>
    work[r]["egress"].pod \in ran[work[r]["egress"].key]

PodsHaveRun ==
  /\ \A s \in Services : HasRun(pod["egress"][s], s)
  /\ \A r \in Replicas, s \in Services : HasRun(podCache[r]["egress"][s], s)

RanInv == EndpointsNamePodsThatRan /\ PodsHaveRun /\ WorkNamesRun

LEMMA RanInvEnvironment == ASSUME TypeOK, RanInv, EnvironmentStep PROVE RanInv'
<1>0. /\ pod \in [Kinds -> [Services -> PodObject]]
      /\ eps \in [Services -> EndpointsObject]
      /\ ran \in [Services -> SUBSET Nat]
      /\ "egress" \in Kinds
      /\ UNCHANGED <<podCache, work>>
  BY DEF TypeOK, ClusterTypeOK, EnvironmentStep, controllerVars, Kinds
<1> DEFINE Grows == \A s \in Services : ran[s] \subseteq ran'[s]
           Eps == \A s \in Services : eps'[s].live => eps'[s] = eps[s]
           Pods == \A s \in Services : HasRun(pod["egress"][s], s)'
<1>1. CASE UserStep
  BY <1>0, <1>1 DEF UserStep, UserApply, UserDelete, RanInv, PodsHaveRun, HasRun,
     EndpointsNamePodsThatRan, WorkNamesRun
<1>2. ASSUME NEW k \in Kinds, NEW s \in Services, PodFails(k, s) PROVE Grows /\ Eps /\ Pods
  BY <1>0, <1>2 DEF PodFails, RanInv, PodsHaveRun, HasRun, PodObject
<1>3. ASSUME NEW k \in Kinds, NEW s \in Services, PodDrained(k, s) \/ CollectPod(k, s)
      PROVE  Grows /\ Eps /\ Pods
  <2>1. pod' = [pod EXCEPT ![k][s].deleting = TRUE] /\ UNCHANGED <<eps, ran>>
    BY <1>3 DEF PodDrained, CollectPod
  <2>2. ASSUME NEW x \in Services
        PROVE  /\ pod'["egress"][x].live = pod["egress"][x].live
               /\ pod'["egress"][x].phase = pod["egress"][x].phase
               /\ pod'["egress"][x].inc = pod["egress"][x].inc
    <3>1. pod["egress"][x] \in PodObject
      BY <1>0
    <3>2. pod'["egress"][x] = IF k = "egress" /\ x = s
                                THEN [pod["egress"][x] EXCEPT !.deleting = TRUE]
                                ELSE pod["egress"][x]
      BY <1>0, <2>1
    <3> QED BY <3>1, <3>2 DEF PodObject
  <2> QED BY <2>1, <2>2 DEF RanInv, PodsHaveRun, HasRun
<1>4. ASSUME NEW k \in Kinds, NEW s \in Services, PodStarts(k, s) PROVE Grows /\ Eps /\ Pods
  <2>1. UNCHANGED eps /\ Grows
    BY <1>0, <1>4 DEF PodStarts
  <2>2. ASSUME NEW x \in Services PROVE HasRun(pod["egress"][x], x)'
    <3>1. pod["egress"][x] \in PodObject
      BY <1>0
    <3>2. CASE k = "egress" /\ x = s
      BY <1>0, <1>4, <3>1, <3>2 DEF PodStarts, HasRun, PodObject
    <3>3. CASE ~(k = "egress" /\ x = s)
      <4>1. pod'["egress"][x] = pod["egress"][x]
        BY <1>0, <1>4, <3>3 DEF PodStarts
      <4> QED BY <2>1, <4>1 DEF RanInv, PodsHaveRun, HasRun
    <3> QED BY <3>2, <3>3
  <2> QED BY <2>1, <2>2
<1>5. ASSUME NEW k \in Kinds, NEW s \in Services, PodRemoved(k, s) PROVE Grows /\ Eps /\ Pods
  <2>1. UNCHANGED <<eps, ran>>
    BY <1>5 DEF PodRemoved
  <2>2. ASSUME NEW x \in Services PROVE HasRun(pod["egress"][x], x)'
    <3>1. pod["egress"][x] \in PodObject
      BY <1>0
    <3>2. pod'["egress"][x] \in {pod["egress"][x], GonePod(pod["egress"][x])}
      BY <1>0, <1>5 DEF PodRemoved
    <3> QED BY <2>1, <3>1, <3>2 DEF GonePod, PodObject, RanInv, PodsHaveRun, HasRun
  <2> QED BY <2>1, <2>2
<1>6. ASSUME NEW s \in Services, EndpointsSync(s) PROVE Grows /\ Eps /\ Pods
  BY <1>0, <1>6 DEF EndpointsSync, NoEndpoints, RanInv, PodsHaveRun, HasRun
<1>7. ASSUME Grows, Eps, Pods PROVE RanInv'
  <2>1. EndpointsNamePodsThatRan'
    BY <1>7 DEF RanInv, EndpointsNamePodsThatRan
  <2>2. PodsHaveRun'
    BY <1>0, <1>7 DEF RanInv, PodsHaveRun, HasRun
  <2>3. WorkNamesRun'
    BY <1>0, <1>7 DEF RanInv, WorkNamesRun, TypeOK, ControllerTypeOK, EndpointsSteps
  <2> QED BY <2>1, <2>2, <2>3 DEF RanInv
<1> QED BY <1>1, <1>2, <1>3, <1>4, <1>5, <1>6, <1>7
     DEF EnvironmentStep, DisruptionStep, ClusterStep

LEMMA RanInvProcess == ASSUME TypeOK, RanInv, NEW r \in Replicas, ProcessStep(r) PROVE RanInv'
<1>0. /\ podCache \in [Replicas -> [Kinds -> [Services -> PodObject]]]
      /\ work \in [Replicas -> [Kinds -> Work]]
      /\ "egress" \in Kinds
      /\ UNCHANGED <<eps, pod, ran>>
  BY DEF TypeOK, ControllerTypeOK, ProcessStep, clusterVars, Kinds
<1>1. ASSUME \A q \in Replicas, s \in Services :
               \/ podCache'[q]["egress"][s] = podCache[q]["egress"][s]
               \/ podCache'[q]["egress"][s] = pod["egress"][s]
               \/ podCache'[q]["egress"][s] = NoPod,
             \A q \in Replicas : work'[q]["egress"] \in {work[q]["egress"], Idle}
      PROVE  RanInv'
  <2>1. ASSUME NEW q \in Replicas, NEW s \in Services
        PROVE  HasRun(podCache[q]["egress"][s], s)'
    <3>1. CASE podCache'[q]["egress"][s] = NoPod
      BY <3>1 DEF HasRun, NoPod
    <3> QED BY <1>0, <1>1, <3>1 DEF RanInv, PodsHaveRun, HasRun
  <2>2. WorkNamesRun'
    BY <1>0, <1>1, ConstantsTyped DEF RanInv, WorkNamesRun, EndpointsSteps
  <2>3. PodsHaveRun'
    BY <1>0, <2>1 DEF RanInv, PodsHaveRun, HasRun
  <2> QED BY <1>0, <2>2, <2>3 DEF RanInv, EndpointsNamePodsThatRan
<1>2. CASE StartControllers(r)
  BY <1>0, <1>1, <1>2 DEF StartControllers
<1>3. CASE ProcessExits(r)
  BY <1>0, <1>1, <1>3 DEF ProcessExits
<1>4. ASSUME NEW k \in Kinds, NEW s \in Services, SyncPod(r, k, s) PROVE RanInv'
  BY <1>0, <1>1, <1>4 DEF SyncPod
<1>5. CASE UNCHANGED <<podCache, work>>
  BY <1>1, <1>5
<1> QED BY <1>2, <1>3, <1>4, <1>5 DEF ProcessStep, InformerStep, SyncService, SyncEndpoints, Resync

LEMMA RanInvIngress == ASSUME TypeOK, RanInv, NEW r \in Replicas, IngressWorkerStep(r) PROVE RanInv'
<1>0. /\ pod \in [Kinds -> [Services -> PodObject]]
      /\ "egress" \in Kinds /\ "ingress" \in Kinds
      /\ WorkerMoves(r, "ingress")
  BY IngressMoves DEF TypeOK, ClusterTypeOK, Kinds
<1>1. UNCHANGED <<eps, ran>>
  BY DEF IngressWorkerStep, IngressReconcile, IngressStep, IngressEnsureProxyPod,
     IngressCreateProxyPod, IngressCleanupProxyPod, IngressDeleteProxyPod, clusterVars
<1>2. UNCHANGED podCache /\ \A q \in Replicas : work'[q]["egress"] = work[q]["egress"]
  BY <1>0, WorkEffect DEF WorkerMoves, cacheVars
<1>3. pod'["egress"] = pod["egress"]
  BY <1>0 DEF WorkerMoves, Starts, GoesOn, CreatesPod, DeletesPod
<1> QED BY <1>1, <1>2, <1>3 DEF RanInv, EndpointsNamePodsThatRan, PodsHaveRun, HasRun, WorkNamesRun

LEMMA RanInvEgress == ASSUME TypeOK, RanInv, NEW r \in Replicas, EgressWorkerStep(r) PROVE RanInv'
<1> DEFINE w == work[r]["egress"]
           w1 == work'[r]["egress"]
           Eps == \A s \in Services : eps'[s].live =>
                    eps'[s] = eps[s] \/ eps'[s].pod \in ran[s]
           Names == w1.at \in EndpointsSteps => w1.pod \in ran[w1.key]
<1>0. /\ pod \in [Kinds -> [Services -> PodObject]]
      /\ eps \in [Services -> EndpointsObject]
      /\ work \in [Replicas -> [Kinds -> Work]]
      /\ w \in Work /\ Idle.at = "idle"
      /\ w.at # "idle" => w.key \in Services
      /\ "egress" \in Kinds
      /\ WorkerMoves(r, "egress")
  BY EgressMoves, ConstantsTyped DEF TypeOK, ClusterTypeOK, ControllerTypeOK, Kinds
<1>1. UNCHANGED <<podCache, ran>>
  BY DEF EgressWorkerStep, EgressReconcile, EgressStep, EgressEnsureProxyPod,
     EgressCreateProxyPod, EgressGetRunningPod, EgressGetEndpoints, EgressCreateEndpoints,
     EgressUpdateEndpoints, EgressCleanupProxyPod, EgressDeleteProxyPod, RequestFails,
     clusterVars, cacheVars
<1>2. \A q \in Replicas : q # r => work'[q]["egress"] = work[q]["egress"]
  BY <1>0, WorkEffect
<1>3. \A s \in Services : HasRun(pod'["egress"][s], s)
  <2>1. CASE UNCHANGED pod
    BY <2>1 DEF RanInv, PodsHaveRun
  <2>2. CASE EgressCreateProxyPod(r)
    <3>1. CASE pod' = [pod EXCEPT !["egress"][w.key] =
                         EgressBuildProxyPod(pod["egress"][w.key].inc + 1, w.svc)]
      BY <1>0, <3>1 DEF EgressBuildProxyPod, RanInv, PodsHaveRun, HasRun
    <3> QED BY <2>1, <2>2, <3>1 DEF EgressCreateProxyPod
  <2>3. CASE EgressDeleteProxyPod(r)
    <3>1. CASE pod' = [pod EXCEPT !["egress"][w.key].deleting = TRUE]
      <4> TAKE s \in Services
      <4>1. pod["egress"][s] \in PodObject
        BY <1>0
      <4>2. pod'["egress"][s] = IF s = w.key THEN [pod["egress"][s] EXCEPT !.deleting = TRUE]
                                ELSE pod["egress"][s]
        BY <1>0, <3>1
      <4>3. /\ pod'["egress"][s].live = pod["egress"][s].live
            /\ pod'["egress"][s].phase = pod["egress"][s].phase
            /\ pod'["egress"][s].inc = pod["egress"][s].inc
        BY <4>1, <4>2 DEF PodObject
      <4> QED BY <4>3 DEF RanInv, PodsHaveRun, HasRun
    <3> QED BY <2>1, <2>3, <3>1 DEF EgressDeleteProxyPod
  <2> QED BY <2>1, <2>2, <2>3
      DEF EgressWorkerStep, EgressStep, EgressReconcile, EgressEnsureProxyPod,
          EgressGetRunningPod, EgressGetEndpoints, EgressCreateEndpoints,
          EgressUpdateEndpoints, EgressCleanupProxyPod, RequestFails, clusterVars
<1>4. ASSUME NEW at, w.at \in EndpointsSteps, at # "getEndpoints",
             NEW x \in Work, x.key = w.key, x.pod = w.pod, Continue(r, "egress", x, at)
      PROVE  Names
  <2>1. w1 = [x EXCEPT !.at = at]
    BY <1>0, <1>4 DEF Continue
  <2>2. w1.key = w.key /\ w1.pod = w.pod
    BY <1>4, <2>1 DEF Work
  <2> QED BY <1>4, <2>2 DEF RanInv, WorkNamesRun
<1>5. ASSUME w1 = Idle \/ w1.at \notin EndpointsSteps PROVE Names
  BY <1>0, <1>5 DEF EndpointsSteps
<1>6. ASSUME NEW at, at \notin EndpointsSteps, NEW x \in Work, Continue(r, "egress", x, at)
      PROVE  Names
  <2>1. w1 = [x EXCEPT !.at = at]
    BY <1>0, <1>6 DEF Continue
  <2> QED BY <1>5, <1>6, <2>1 DEF Work
<1>7. ASSUME Retry(r, "egress") \/ \E s \in Services, v \in ServiceVersion : Done(r, "egress", s, v)
      PROVE  Names
  BY <1>0, <1>5, <1>7 DEF Retry, Done
<1>8. ASSUME NEW s \in Services, EgressReconcile(r, s) PROVE Eps /\ Names
  <2>1. svcCache[r][s] \in ServiceVersion
    BY DEF TypeOK, ControllerTypeOK
  <2> QED BY <1>6, <1>7, <1>8, <2>1, ConstantsTyped DEF EgressReconcile, clusterVars, EndpointsSteps
<1>9. w.at # "idle" => w.svc \in ServiceVersion
  BY <1>0 DEF Work
<1>10. ASSUME EgressEnsureProxyPod(r) PROVE Eps /\ Names
  BY <1>0, <1>6, <1>10 DEF EgressEnsureProxyPod, clusterVars, EndpointsSteps
<1>11. ASSUME EgressCreateProxyPod(r) PROVE Eps /\ Names
  BY <1>0, <1>6, <1>7, <1>11 DEF EgressCreateProxyPod, AnswerLost, EndpointsSteps
<1>12. ASSUME EgressGetRunningPod(r) PROVE Eps /\ Names
  <2> DEFINE p == podCache[r]["egress"][w.key]
             x == [w EXCEPT !.pod = p.inc]
  <2>1. UNCHANGED eps
    BY <1>12 DEF EgressGetRunningPod, clusterVars
  <2>2. CASE Done(r, "egress", w.key, w.svc)
    BY <1>0, <1>7, <1>9, <1>12, <2>1, <2>2 DEF EgressGetRunningPod
  <2>3. CASE p.live /\ p.phase = "Running" /\ Continue(r, "egress", x, "getEndpoints")
    <3>1. w1 = [x EXCEPT !.at = "getEndpoints"]
      BY <1>0, <2>3 DEF Continue
    <3>2. w1.key = w.key /\ w1.pod = p.inc
      BY <1>0, <3>1 DEF Work
    <3>3. p.inc \in ran[w.key]
      BY <1>0, <1>12, <2>3 DEF EgressGetRunningPod, RanInv, PodsHaveRun, HasRun
    <3> QED BY <2>1, <3>2, <3>3
  <2> QED BY <1>12, <2>2, <2>3 DEF EgressGetRunningPod
<1>13. ASSUME EgressGetEndpoints(r) PROVE Eps /\ Names
  <2> DEFINE x == [w EXCEPT !.eps = epsCache[r][w.key]]
  <2>1. x \in Work /\ x.key = w.key /\ x.pod = w.pod
    <3>1. epsCache[r][w.key] \in EndpointsObject
      BY <1>0, <1>13 DEF EgressGetEndpoints, TypeOK, ControllerTypeOK
    <3> QED BY <1>0, <3>1 DEF Work
  <2>2. Continue(r, "egress", x, "updateEndpoints") \/ Continue(r, "egress", w, "createEndpoints")
    BY <1>13 DEF EgressGetEndpoints
  <2> HIDE DEF x
  <2> QED BY <1>0, <1>4, <1>13, <2>1, <2>2 DEF EgressGetEndpoints, EndpointsSteps, clusterVars
<1>14. ASSUME EgressCreateEndpoints(r) PROVE Eps /\ Names
  <2>1. Names
    BY <1>0, <1>7, <1>9, <1>14 DEF EgressCreateEndpoints, EgressAnswered, AnswerLost
  <2>2. Eps
    BY <1>0, <1>14 DEF EgressCreateEndpoints, WriteEndpoints, EndpointsSteps, RanInv, WorkNamesRun
  <2> QED BY <2>1, <2>2
<1>15. ASSUME EgressUpdateEndpoints(r) PROVE Eps /\ Names
  <2>1. Names
    BY <1>0, <1>7, <1>9, <1>15 DEF EgressUpdateEndpoints, EgressAnswered, AnswerLost
  <2>2. Eps
    BY <1>0, <1>15 DEF EgressUpdateEndpoints, WriteEndpoints, EndpointsSteps, RanInv, WorkNamesRun
  <2> QED BY <2>1, <2>2
<1>16. ASSUME EgressCleanupProxyPod(r) PROVE Eps /\ Names
  BY <1>0, <1>6, <1>7, <1>9, <1>16 DEF EgressCleanupProxyPod, clusterVars, EndpointsSteps
<1>17. ASSUME EgressDeleteProxyPod(r) PROVE Eps /\ Names
  BY <1>0, <1>7, <1>9, <1>17 DEF EgressDeleteProxyPod, EgressAnswered, AnswerLost
<1>18. ASSUME RequestFails(r, "egress") /\ UNCHANGED clusterVars PROVE Eps /\ Names
  BY <1>7, <1>18 DEF RequestFails, AnswerLost, clusterVars
<1>19. Eps /\ Names
  BY <1>8, <1>10, <1>11, <1>12, <1>13, <1>14, <1>15, <1>16, <1>17, <1>18
     DEF EgressWorkerStep, EgressStep
<1>20. EndpointsNamePodsThatRan' /\ WorkNamesRun'
  BY <1>1, <1>2, <1>19 DEF RanInv, EndpointsNamePodsThatRan, WorkNamesRun
<1>21. PodsHaveRun'
  BY <1>1, <1>3 DEF RanInv, PodsHaveRun, HasRun
<1> QED BY <1>20, <1>21 DEF RanInv

LEMMA RanInvariant == Spec => []RanInv
<1>1. Init => RanInv
  BY ConstantsTyped DEF Init, ClusterInit, ControllerInit, RanInv, EndpointsNamePodsThatRan,
     PodsHaveRun, HasRun, WorkNamesRun, EndpointsSteps, NoPod, NoEndpoints, Kinds
<1>2. ASSUME TypeOK, RanInv, [Next]_vars PROVE RanInv'
  <2>1. CASE UNCHANGED vars
    BY <1>2, <2>1 DEF RanInv, EndpointsNamePodsThatRan, PodsHaveRun, HasRun, WorkNamesRun, vars
  <2> QED BY <1>2, <2>1, RanInvEnvironment, RanInvProcess, RanInvIngress, RanInvEgress DEF Next
<1> QED BY <1>1, <1>2, TypeCorrect, PTL DEF Spec

\* For any number of Services and replicas, with or without leader election: the
\* Endpoints of a Service only ever name an egress pod that was Running.
THEOREM EndpointsNameRunPods == Spec => []EndpointsNamePodsThatRan
<1>1. RanInv => EndpointsNamePodsThatRan
  BY DEF RanInv
<1> QED BY <1>1, RanInvariant, PTL
=============================================================================
