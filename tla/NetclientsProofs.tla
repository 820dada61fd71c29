-------------------------- MODULE NetclientsProofs ---------------------------
(***************************************************************************)
(* Theorems about Netclients, for any workloads, claims, tokens, failures  *)
(* and any number of concurrent builds and admissions, checked by TLAPS.   *)
(***************************************************************************)
EXTENDS Netclients, TLAPS

-----------------------------------------------------------------------------
(* The chain from a workload to its pod                                      *)

Locations == {"submit", "operator", "env", "token", "claim", "create", "patch"}
InHandler == {"token", "claim", "create", "patch"}

\* The levels there are, by the kind of a workload.
LEMMA ChainLevels ==
  ASSUME NEW w \in Workload
  PROVE  /\ Top(w) \in Chain(w) /\ Chain(w) \subseteq Levels
         /\ w.kind = "deployment" =>
              Top(w) = "deployment" /\ Chain(w) = {"deployment", "replicaset", "pod"}
         /\ w.kind = "set" => Top(w) = "set" /\ Chain(w) = {"set", "pod"}
         /\ w.kind \in {"proxy", "pod"} => Top(w) = "pod" /\ Chain(w) = {"pod"}
         /\ \A l \in Chain(w) : Below(l) \in Chain(w) \cup {"done"}
         /\ \A l \in Chain(w) \ {Top(w)} : Above(w, l) \in Chain(w) \ {l}
  <1>1. w.kind \in {"proxy", "pod", "set", "deployment"}  BY DEF Workload
  <1>2. CASE w.kind = "deployment"
        BY <1>2 DEF Top, Below, Chain, Above, Levels
  <1>3. CASE w.kind = "set"
        BY <1>3 DEF Top, Below, Chain, Above, Levels
  <1>4. CASE w.kind \in {"proxy", "pod"}
        BY <1>4 DEF Top, Below, Chain, Above, Levels
  <1> QED  BY <1>1, <1>2, <1>3, <1>4

\* A job is about a workload, and its level is one of its chain.
LEMMA JobTyped ==
  ASSUME TypeOK, NEW j \in Jobs
  PROVE  /\ job[j] \in Workload
         /\ level[j] \in Chain(job[j]) \cup {"done"}
         /\ level[j] \in Levels \cup {"done"}
         /\ at[j] \in Locations
         /\ token[j] \in Tokens \cup {NoToken}
         /\ volume[j] \in Volumes
  BY NetclientsAssumption DEF TypeOK, Locations

\* What an object comes with is a pod spec.
LEMMA GivenTyped ==
  ASSUME TypeOK, NEW j \in Jobs, level[j] # "done"
  PROVE  Given(j, level[j]) \in PodSpec
  <1>1. job[j] \in Workload /\ level[j] \in Chain(job[j])  BY JobTyped
  <1>2. Manifest(job[j]) \in PodSpec
        BY <1>1 DEF Workload, Manifest, NoSpec, PodSpec, Volumes
  <1>3. CASE level[j] = Top(job[j])  BY <1>2, <1>3 DEF Given
  <1>4. CASE level[j] # Top(job[j])
    <2>1. Above(job[j], level[j]) \in Levels  BY <1>1, <1>4, ChainLevels
    <2> QED  BY <1>4, <2>1 DEF Given, TypeOK
  <1> QED  BY <1>3, <1>4

-----------------------------------------------------------------------------
(* What a step of a job leaves alone                                         *)

JobVars(j) == <<level[j], at[j], token[j], volume[j], window[j], stored[j]>>

\* Store writes the pod spec of one level of one job, and goes to the next.
LEMMA StoreWrites ==
  ASSUME TypeOK, NEW j \in Jobs, level[j] # "done", NEW s \in PodSpec, Store(j, s)
  PROVE  /\ stored' \in [Jobs -> [Levels -> PodSpec]]
         /\ stored'[j] = [stored[j] EXCEPT ![level[j]] = s]
         /\ level' \in [Jobs -> Levels \cup {"done"}]
         /\ level'[j] = Below(level[j]) /\ level'[j] \in Chain(job[j]) \cup {"done"}
         /\ at' \in [Jobs -> Locations] /\ at'[j] = "submit"
         /\ token' \in [Jobs -> Tokens \cup {NoToken}] /\ token'[j] = NoToken
         /\ volume' \in [Jobs -> Volumes] /\ volume'[j] = "none"
         /\ \A k \in Jobs \ {j} :
              /\ stored'[k] = stored[k] /\ level'[k] = level[k] /\ at'[k] = at[k]
              /\ token'[k] = token[k] /\ volume'[k] = volume[k]
  <1>1. level[j] \in Chain(job[j]) /\ level[j] \in Levels /\ job[j] \in Workload
        BY JobTyped
  <1>2. Below(level[j]) \in Chain(job[j]) \cup {"done"} /\ Chain(job[j]) \subseteq Levels
        BY <1>1, ChainLevels
  <1>3. /\ stored' \in [Jobs -> [Levels -> PodSpec]]
        /\ stored'[j] = [stored[j] EXCEPT ![level[j]] = s]
        BY <1>1 DEF Store, TypeOK
  <1>4. /\ level' \in [Jobs -> Levels \cup {"done"}]
        /\ level'[j] = Below(level[j])
        BY <1>2 DEF Store, TypeOK
  <1>5. at' \in [Jobs -> Locations] /\ at'[j] = "submit"
        BY DEF Store, Go, TypeOK, Locations
  <1>6. /\ token' \in [Jobs -> Tokens \cup {NoToken}] /\ token'[j] = NoToken
        /\ volume' \in [Jobs -> Volumes] /\ volume'[j] = "none"
        BY DEF Store, TypeOK, Volumes
  <1>7. \A k \in Jobs \ {j} :
          /\ stored'[k] = stored[k] /\ level'[k] = level[k] /\ at'[k] = at[k]
          /\ token'[k] = token[k] /\ volume'[k] = volume[k]
        BY DEF Store, Go, TypeOK
  <1> QED  BY <1>2, <1>3, <1>4, <1>5, <1>6, <1>7

-----------------------------------------------------------------------------
(* Type correctness                                                          *)

\* What TypeOK says of where a job is.
JobPlaced(j) ==
  /\ level[j] \in Chain(job[j]) \cup {"done"}
  /\ at[j] # "submit" => level[j] # "done"
  /\ at[j] \in {"token", "claim", "create", "patch"} => job[j].kind # "proxy"
  /\ at[j] \in {"claim", "create"} => ClaimOf(job[j], level[j]) # NoClaim
  /\ at[j] \in {"operator", "env"} => job[j].kind = "proxy"

LEMMA TypeInit == Init => TypeOK
  <1> SUFFICES ASSUME Init PROVE TypeOK
      OBVIOUS
  <1>1. past \in Seq(Secrets) /\ Len(past) = 1 /\ view = 1
        BY DEF Init
  <1>2. /\ claims = {} /\ shown = {} /\ lost = {}
        /\ makers \in [Claims -> SUBSET (Jobs \cup {"others"})]
        BY DEF Init
  <1>3. job \in [Jobs -> Workloads]  BY DEF Init
  <1>4. \A j \in Jobs : level[j] = Top(job[j]) /\ level[j] \in Chain(job[j])
        BY <1>3, ChainLevels, NetclientsAssumption DEF Init
  <1>5. level \in [Jobs -> Levels \cup {"done"}]
        BY <1>3 DEF Init, Top, Levels
  <1>6. /\ at \in [Jobs -> Locations] /\ \A j \in Jobs : at[j] = "submit"
        /\ token \in [Jobs -> Tokens \cup {NoToken}]
        /\ volume \in [Jobs -> Volumes]
        BY DEF Init, Locations, Volumes
  <1>7. window \in [Jobs -> [from : 0 .. Len(past), to : 0 .. Len(past)]]
        BY <1>1 DEF Init
  <1>8. NoSpec \in PodSpec  BY DEF NoSpec, PodSpec, Volumes
  <1>9. stored \in [Jobs -> [Levels -> PodSpec]]  BY <1>8 DEF Init
  <1>10. failed \in BOOLEAN /\ events \in 0 .. MaxEvents
    <2>1. MaxEvents \in Nat  BY NetclientsAssumption
    <2>2. events \in 0 .. MaxEvents  BY <2>1 DEF Init
    <2> QED  BY <2>2, Zenon DEF Init
  <1>11. view \in 1 .. Len(past)  BY <1>1
  <1>12. \A j \in Jobs :
           /\ level[j] \in Chain(job[j]) \cup {"done"}
           /\ at[j] = "submit"
         BY <1>4, <1>6
  <1>13. claims \in SUBSET Claims /\ shown \in SUBSET Claims /\ lost \in SUBSET Claims
         BY <1>2
  <1>14. \A j \in Jobs : JobPlaced(j)
    <2> TAKE j \in Jobs
    <2>1. job[j] \in Workload  BY <1>3, NetclientsAssumption
    <2>2. level[j] \in Chain(job[j])  BY <1>4
    <2> QED  BY <1>12, <2>2 DEF JobPlaced
  <1> QED  BY <1>1, <1>2, <1>3, <1>5, <1>6, <1>7, <1>9, <1>10, <1>11, <1>13, <1>14
           DEF TypeOK, Locations, JobPlaced

\* The conjuncts of TypeOK about the cluster and the bounds.
ClusterTyped ==
  /\ past \in Seq(Secrets)
  /\ view \in 1 .. Len(past)
  /\ claims \in SUBSET Claims /\ shown \in SUBSET Claims /\ lost \in SUBSET Claims
  /\ makers \in [Claims -> SUBSET (Jobs \cup {"others"})]
  /\ events \in 0 .. MaxEvents

\* The cached token, and what a job is about at present.
LEMMA CachedTyped ==
  ASSUME TypeOK, NEW p \in Places
  PROVE  Cached(p) \in Tokens \cup {NoToken}
  BY DEF TypeOK, Cached, Secrets

\* Places and locations a job may go to.
LEMMA GoTyped ==
  ASSUME TypeOK, NEW j \in Jobs, NEW l \in Locations, Go(j, l)
  PROVE  /\ at' \in [Jobs -> Locations] /\ at'[j] = l
         /\ \A k \in Jobs \ {j} : at'[k] = at[k]
  BY DEF Go, TypeOK, Locations

LEMMA MountTyped ==
  ASSUME TypeOK, NEW j \in Jobs, level[j] # "done", NEW v \in Volumes, Mount(j, v)
  PROVE  /\ volume' \in [Jobs -> Volumes]
         /\ volume'[j] = IF Given(j, level[j]).volume = "none" THEN v
                         ELSE Given(j, level[j]).volume
         /\ \A k \in Jobs \ {j} : volume'[k] = volume[k]
  <1>1. Given(j, level[j]).volume \in Volumes  BY GivenTyped DEF PodSpec
  <1> QED  BY <1>1 DEF Mount, TypeOK

\* The windows of a proxy's reads.
LEMMA WindowTyped ==
  ASSUME TypeOK, NEW j \in Jobs, Opens(j) \/ Extends(j)
  PROVE  /\ window' \in [Jobs -> [from : 0 .. Len(past), to : 0 .. Len(past)]]
         /\ \A k \in Jobs \ {j} : window'[k] = window[k]
  <1> DEFINE W == [from : 0 .. Len(past), to : 0 .. Len(past)]
  <1>1. view \in 0 .. Len(past) /\ window \in [Jobs -> W]  BY DEF TypeOK
  <1>2. [window[j] EXCEPT !.to = view] \in W /\ [from |-> view, to |-> view] \in W
        BY <1>1
  <1> HIDE DEF W
  <1>3. CASE Opens(j)
    <2>1. window' = [window EXCEPT ![j] = [from |-> view, to |-> view]]
          BY <1>3 DEF Opens
    <2> QED  BY <1>1, <1>2, <2>1 DEF W
  <1>4. CASE Extends(j)
    <2>1. window' = [window EXCEPT ![j] = [window[j] EXCEPT !.to = view]]
          BY <1>4 DEF Extends
    <2> QED  BY <1>1, <1>2, <2>1 DEF W
  <1> QED  BY <1>3, <1>4

\* What is left to check of a step of j that leaves the cluster its types.
LEMMA StepTyped ==
  ASSUME TypeOK, NEW j \in Jobs,
         ClusterTyped', past' = past, failed' \in BOOLEAN, job' = job,
         level' \in [Jobs -> Levels \cup {"done"}], at' \in [Jobs -> Locations],
         token' \in [Jobs -> Tokens \cup {NoToken}], volume' \in [Jobs -> Volumes],
         window' \in [Jobs -> [from : 0 .. Len(past), to : 0 .. Len(past)]],
         stored' \in [Jobs -> [Levels -> PodSpec]],
         \A k \in Jobs \ {j} : level'[k] = level[k] /\ at'[k] = at[k],
         level'[j] \in Chain(job[j]) \cup {"done"},
         at'[j] # "submit" => level'[j] # "done",
         at'[j] \in InHandler => job[j].kind # "proxy",
         at'[j] \in {"claim", "create"} => ClaimOf(job[j], level'[j]) # NoClaim,
         at'[j] \in {"operator", "env"} => job[j].kind = "proxy"
  PROVE  TypeOK'
  <1>1. \A k \in Jobs :
          /\ level'[k] \in Chain(job[k]) \cup {"done"}
          /\ at'[k] # "submit" => level'[k] # "done"
          /\ at'[k] \in InHandler => job[k].kind # "proxy"
          /\ at'[k] \in {"claim", "create"} => ClaimOf(job[k], level'[k]) # NoClaim
          /\ at'[k] \in {"operator", "env"} => job[k].kind = "proxy"
    <2> TAKE k \in Jobs
    <2>1. CASE k = j  BY <2>1
    <2>2. CASE k # j
      <3>1. level'[k] = level[k] /\ at'[k] = at[k]  BY <2>2
      <3> QED  BY <3>1 DEF TypeOK, InHandler
    <2> QED  BY <2>1, <2>2
  <1>2. job' \in [Jobs -> Workloads]  BY DEF TypeOK
  <1> QED  BY <1>1, <1>2 DEF TypeOK, ClusterTyped, Locations, InHandler

\* The cluster and the bounds keep their types when they are left alone, and when
\* a call fails.
LEMMA ClusterKept ==
  ASSUME TypeOK,
         past' = past, view' = view, claims' = claims, shown' = shown,
         lost' = lost, makers' = makers
  PROVE  /\ events' = events /\ failed' = failed => ClusterTyped' /\ failed' \in BOOLEAN
         /\ Count /\ failed' = TRUE => ClusterTyped' /\ failed' \in BOOLEAN
  <1>1. MaxEvents \in Nat /\ events \in 0 .. MaxEvents
        BY NetclientsAssumption DEF TypeOK
  <1>2. events' = events => events' \in 0 .. MaxEvents  BY <1>1
  <1>3. Count => events' \in 0 .. MaxEvents  BY <1>1 DEF Count
  <1>4. /\ past' \in Seq(Secrets) /\ view' \in 1 .. Len(past')
        /\ claims' \in SUBSET Claims /\ shown' \in SUBSET Claims
        /\ lost' \in SUBSET Claims
        /\ makers' \in [Claims -> SUBSET (Jobs \cup {"others"})]
        BY DEF TypeOK
  <1>5. failed' = failed => failed' \in BOOLEAN  BY Zenon DEF TypeOK
  <1> QED  BY <1>2, <1>3, <1>4, <1>5 DEF ClusterTyped

\* A build or an admission stores an object, and the next one is submitted.
LEMMA StoreTyped ==
  ASSUME TypeOK, NEW j \in Jobs, level[j] # "done", NEW s \in PodSpec, Store(j, s),
         window' = window \/ Extends(j),
         UNCHANGED <<cluster, job, bounds>>
  PROVE  TypeOK'
  <1>1. ClusterTyped' /\ failed' \in BOOLEAN  BY ClusterKept DEF cluster, bounds
  <1>2. window' \in [Jobs -> [from : 0 .. Len(past), to : 0 .. Len(past)]]
    <2>1. CASE window' = window  BY <2>1 DEF TypeOK
    <2>2. CASE Extends(j)  BY <2>2, WindowTyped
    <2> QED  BY <2>1, <2>2
  <1>3. past' = past /\ job' = job  BY DEF cluster
  <1>4. /\ level' \in [Jobs -> Levels \cup {"done"}] /\ at' \in [Jobs -> Locations]
        /\ token' \in [Jobs -> Tokens \cup {NoToken}] /\ volume' \in [Jobs -> Volumes]
        /\ stored' \in [Jobs -> [Levels -> PodSpec]]
        /\ level'[j] \in Chain(job[j]) \cup {"done"}
        /\ at'[j] = "submit"
        BY StoreWrites
  <1>5. \A k \in Jobs \ {j} : level'[k] = level[k] /\ at'[k] = at[k]
        BY StoreWrites
  <1>6. at'[j] \notin InHandler /\ at'[j] \notin {"claim", "create", "operator", "env"}
        BY <1>4 DEF InHandler
  <1> QED  BY <1>1, <1>2, <1>3, <1>4, <1>5, <1>6, StepTyped

\* A step inside a handler or a build: it goes on to l.
LEMMA GoesOnTyped ==
  ASSUME TypeOK, NEW j \in Jobs, level[j] # "done", NEW l \in Locations, Go(j, l),
         ClusterTyped', past' = past, failed' \in BOOLEAN, job' = job,
         UNCHANGED <<level, stored>>,
         token' \in [Jobs -> Tokens \cup {NoToken}], volume' \in [Jobs -> Volumes],
         window' \in [Jobs -> [from : 0 .. Len(past), to : 0 .. Len(past)]],
         l \in InHandler => job[j].kind # "proxy",
         l \in {"claim", "create"} => ClaimOf(job[j], level[j]) # NoClaim,
         l \in {"operator", "env"} => job[j].kind = "proxy"
  PROVE  TypeOK'
  <1>1. level[j] \in Chain(job[j])  BY JobTyped
  <1>2. /\ level' \in [Jobs -> Levels \cup {"done"}]
        /\ stored' \in [Jobs -> [Levels -> PodSpec]]
        BY DEF TypeOK
  <1> QED  BY <1>1, <1>2, GoTyped, StepTyped

LEMMA BuildTypes ==
  ASSUME TypeOK, NEW j \in Jobs,
         ReadOwnSecret(j) \/ ReadOperatorSecret(j) \/ BuildEnv(j)
  PROVE  TypeOK'
  <1> USE DEF Locations
  <1>1. \A p \in Places : Cached(p) \in Tokens \cup {NoToken}  BY CachedTyped
  <1>2. "own" \in Places /\ "operator" \in Places  BY DEF Places
  <1>3. CASE ReadOwnSecret(j)
    <2> DEFINE l == IF Cached("own") # NoToken THEN "env" ELSE "operator"
    <2>1. /\ job[j].kind = "proxy" /\ level[j] # "done" /\ Go(j, l)
          /\ Opens(j) /\ token' = [token EXCEPT ![j] = Cached("own")]
          /\ UNCHANGED <<cluster, job, level, volume, stored, bounds>>
          BY <1>3 DEF ReadOwnSecret
    <2>2. l \in {"env", "operator"}  OBVIOUS
    <2>3. token' \in [Jobs -> Tokens \cup {NoToken}]  BY <1>1, <1>2, <2>1 DEF TypeOK
    <2>4. ClusterTyped' /\ failed' \in BOOLEAN  BY <2>1, ClusterKept DEF cluster, bounds
    <2>5. window' \in [Jobs -> [from : 0 .. Len(past), to : 0 .. Len(past)]]
          BY <2>1, WindowTyped
    <2>6. past' = past /\ job' = job /\ volume' \in [Jobs -> Volumes]
          BY <2>1 DEF cluster, TypeOK
    <2> HIDE DEF l
    <2>7. l \in Locations /\ l \notin InHandler /\ l \notin {"claim", "create"}
          BY <2>2 DEF InHandler
    <2> QED  BY <2>1, <2>3, <2>4, <2>5, <2>6, <2>7, GoesOnTyped
  <1>4. CASE ReadOperatorSecret(j)
    <2>1. /\ at[j] = "operator" /\ Go(j, "env")
          /\ Extends(j) /\ token' = [token EXCEPT ![j] = Cached("operator")]
          /\ UNCHANGED <<cluster, job, level, volume, stored, bounds>>
          BY <1>4 DEF ReadOperatorSecret
    <2>2. job[j].kind = "proxy" /\ level[j] # "done"  BY <2>1 DEF TypeOK
    <2>3. token' \in [Jobs -> Tokens \cup {NoToken}]  BY <1>1, <1>2, <2>1 DEF TypeOK
    <2>4. ClusterTyped' /\ failed' \in BOOLEAN  BY <2>1, ClusterKept DEF cluster, bounds
    <2>5. window' \in [Jobs -> [from : 0 .. Len(past), to : 0 .. Len(past)]]
          BY <2>1, WindowTyped
    <2>6. past' = past /\ job' = job /\ volume' \in [Jobs -> Volumes]
          BY <2>1 DEF cluster, TypeOK
    <2>7. "env" \notin InHandler  BY DEF InHandler
    <2> QED  BY <2>1, <2>2, <2>3, <2>4, <2>5, <2>6, <2>7, GoesOnTyped
  <1>5. CASE BuildEnv(j)
    <2> DEFINE s == [netclients |-> 1,
                     token |-> IF Cached("own") # NoToken THEN "secretKeyRef"
                               ELSE token[j],
                     volume |-> "emptyDir"]
    <2>1. /\ at[j] = "env" /\ Store(j, s) /\ Extends(j)
          /\ UNCHANGED <<cluster, job, bounds>>
          BY <1>5 DEF BuildEnv
    <2>2. level[j] # "done" /\ token[j] \in Tokens \cup {NoToken}
          BY <2>1 DEF TypeOK
    <2>3. s \in PodSpec  BY <2>2 DEF PodSpec, Volumes
    <2> HIDE DEF s
    <2> QED  BY <2>1, <2>2, <2>3, StoreTyped
  <1> QED  BY <1>3, <1>4, <1>5

LEMMA AdmissionTypes ==
  ASSUME TypeOK, NEW j \in Jobs,
         NotSelected(j) \/ Handle(j) \/ Patch(j) \/ Rejected(j)
  PROVE  TypeOK'
  <1> USE DEF Locations
  <1>1. level[j] # "done" => Given(j, level[j]) \in PodSpec  BY GivenTyped
  <1>2. CASE level[j] # "done" /\ Store(j, Given(j, level[j])) /\ window' = window
             /\ UNCHANGED <<cluster, job, bounds>>
        BY <1>1, <1>2, StoreTyped
  <1>3. CASE NotSelected(j)
    <2>1. UNCHANGED <<cluster, job, window, bounds>>  BY <1>3 DEF NotSelected
    <2> QED  BY <1>2, <1>3, <2>1 DEF NotSelected
  <1>4. CASE Handle(j)
    <2>1. /\ job[j].kind # "proxy" /\ level[j] # "done"
          /\ UNCHANGED <<cluster, job, window, bounds>>
          BY <1>4 DEF Handle
    <2>2. CASE Store(j, Given(j, level[j]))  BY <1>2, <2>1, <2>2
    <2>3. CASE Go(j, "token") /\ UNCHANGED <<level, token, volume, stored>>
      <3>1. ClusterTyped' /\ failed' \in BOOLEAN
            BY <2>1, ClusterKept DEF cluster, bounds
      <3>2. /\ token' \in [Jobs -> Tokens \cup {NoToken}] /\ volume' \in [Jobs -> Volumes]
            /\ window' \in [Jobs -> [from : 0 .. Len(past), to : 0 .. Len(past)]]
            /\ past' = past /\ job' = job
            BY <2>1, <2>3 DEF TypeOK, cluster
      <3>3. UNCHANGED <<level, stored>>  BY <2>3
      <3> QED  BY <2>1, <2>3, <3>1, <3>2, <3>3, GoesOnTyped
    <2> QED  BY <1>4, <2>2, <2>3 DEF Handle
  <1>5. CASE Patch(j)
    <2> DEFINE s == [netclients |-> Given(j, level[j]).netclients + 1,
                     token |-> token[j], volume |-> volume[j]]
    <2>1. /\ at[j] = "patch" /\ Store(j, s)
          /\ UNCHANGED <<cluster, job, window, bounds>>
          BY <1>5 DEF Patch
    <2>2. /\ level[j] # "done" /\ token[j] \in Tokens \cup {NoToken}
          /\ volume[j] \in Volumes
          BY <2>1 DEF TypeOK
    <2>3. Given(j, level[j]).netclients \in Nat  BY <1>1, <2>2 DEF PodSpec
    <2>4. s \in PodSpec  BY <2>2, <2>3 DEF PodSpec
    <2>5. window' = window /\ UNCHANGED <<cluster, job, bounds>>  BY <2>1
    <2> HIDE DEF s
    <2> QED  BY <2>1, <2>2, <2>4, <2>5, StoreTyped
  <1>6. CASE Rejected(j)
    <2>1. /\ at[j] \in {"token", "claim", "create", "patch"} /\ Count
          /\ Go(j, "submit")
          /\ token' = [token EXCEPT ![j] = NoToken]
          /\ volume' = [volume EXCEPT ![j] = "none"]
          /\ failed' = TRUE
          /\ UNCHANGED <<cluster, job, level, window, stored>>
          BY <1>6 DEF Rejected
    <2>2. ClusterTyped' /\ failed' \in BOOLEAN  BY <2>1, ClusterKept DEF cluster
    <2>3. /\ token' \in [Jobs -> Tokens \cup {NoToken}] /\ volume' \in [Jobs -> Volumes]
          /\ window' \in [Jobs -> [from : 0 .. Len(past), to : 0 .. Len(past)]]
          /\ past' = past /\ job' = job
          BY <2>1 DEF TypeOK, cluster, Volumes
    <2>4. level[j] # "done" /\ UNCHANGED <<level, stored>>  BY <2>1 DEF TypeOK
    <2>5. "submit" \notin InHandler  BY DEF InHandler
    <2> QED  BY <2>1, <2>2, <2>3, <2>4, <2>5, GoesOnTyped
  <1> QED  BY <1>3, <1>4, <1>5, <1>6

\* A claim that is named is one of Claims.
LEMMA ClaimTyped ==
  ASSUME TypeOK, NEW j \in Jobs
  PROVE  ClaimOf(job[j], level[j]) \in Claims \cup {NoClaim}
  BY JobTyped, NetclientsAssumption DEF ClaimOf, Workload

\* The steps that end in Mount: the job goes on to the patch.
LEMMA MountsTyped ==
  ASSUME TypeOK, NEW j \in Jobs, at[j] \in {"token", "claim", "create"},
         NEW v \in Volumes, Mount(j, v), Go(j, "patch"),
         ClusterTyped', failed' \in BOOLEAN,
         past' = past, job' = job, UNCHANGED <<level, window, stored>>,
         token' \in [Jobs -> Tokens \cup {NoToken}]
  PROVE  TypeOK'
  <1>1. level[j] # "done" /\ job[j].kind # "proxy"  BY DEF TypeOK
  <1>2. volume' \in [Jobs -> Volumes]  BY <1>1, MountTyped
  <1>3. window' \in [Jobs -> [from : 0 .. Len(past), to : 0 .. Len(past)]]
        BY DEF TypeOK
  <1> QED  BY <1>1, <1>2, <1>3, GoesOnTyped DEF Locations

LEMMA ReadSecretTypes ==
  ASSUME TypeOK, NEW j \in Jobs, ReadSecret(j)
  PROVE  TypeOK'
  <1> DEFINE t == IF Cached(job[j].secret) # NoToken
                  THEN Cached(job[j].secret) ELSE EnvToken
  <1>1. /\ at[j] = "token" /\ token' = [token EXCEPT ![j] = t]
        /\ UNCHANGED <<cluster, job, level, window, stored, bounds>>
        /\ IF ClaimOf(job[j], level[j]) = NoClaim
           THEN Go(j, "patch") /\ Mount(j, "emptyDir")
           ELSE Go(j, "claim") /\ UNCHANGED volume
        BY DEF ReadSecret
  <1>2. level[j] # "done" /\ job[j].kind # "proxy"  BY <1>1 DEF TypeOK
  <1>3. job[j].secret \in Places  BY JobTyped DEF Workload
  <1>4. t \in Tokens \cup {NoToken}  BY <1>3, CachedTyped, NetclientsAssumption
  <1> HIDE DEF t
  <1>5. token' \in [Jobs -> Tokens \cup {NoToken}]  BY <1>1, <1>4 DEF TypeOK
  <1>6. ClusterTyped' /\ failed' \in BOOLEAN  BY <1>1, ClusterKept DEF cluster, bounds
  <1>7. past' = past /\ job' = job /\ UNCHANGED <<level, window, stored>>
        BY <1>1 DEF cluster
  <1>8. "emptyDir" \in Volumes  BY DEF Volumes
  <1>9. CASE ClaimOf(job[j], level[j]) = NoClaim
        BY <1>1, <1>5, <1>6, <1>7, <1>8, <1>9, MountsTyped
  <1>10. CASE ClaimOf(job[j], level[j]) # NoClaim
    <2>1. volume' \in [Jobs -> Volumes]
          /\ window' \in [Jobs -> [from : 0 .. Len(past), to : 0 .. Len(past)]]
          BY <1>1, <1>7, <1>10 DEF TypeOK
    <2>2. "claim" \in Locations  BY DEF Locations
    <2> QED  BY <1>1, <1>2, <1>5, <1>6, <1>7, <1>10, <2>1, <2>2, GoesOnTyped
  <1> QED  BY <1>9, <1>10

LEMMA ClaimTypes ==
  ASSUME TypeOK, NEW j \in Jobs, GetClaim(j) \/ CreateClaim(j) \/ ClaimFails(j)
  PROVE  TypeOK'
  <1> DEFINE c == ClaimOf(job[j], level[j])
  <1>1. /\ at[j] \in {"claim", "create"}
        /\ past' = past /\ job' = job /\ token' = token
        /\ UNCHANGED <<level, window, stored>>
        BY DEF GetClaim, CreateClaim, ClaimFails, cluster
  <1>2. /\ c \in Claims /\ c \in Volumes /\ "emptyDir" \in Volumes
        /\ level[j] # "done" /\ job[j].kind # "proxy"
        BY <1>1, ClaimTyped DEF TypeOK, Volumes
  <1>3. token' \in [Jobs -> Tokens \cup {NoToken}]  BY <1>1 DEF TypeOK
  <1>4. CASE GetClaim(j)
    <2>1. ClusterTyped' /\ failed' \in BOOLEAN
          BY <1>4, ClusterKept DEF GetClaim, cluster, bounds
    <2>2. CASE Go(j, "patch") /\ Mount(j, c)
          BY <1>1, <1>2, <1>3, <2>1, <2>2, MountsTyped
    <2>3. CASE Go(j, "create") /\ UNCHANGED volume
      <3>1. volume' \in [Jobs -> Volumes]
            /\ window' \in [Jobs -> [from : 0 .. Len(past), to : 0 .. Len(past)]]
            BY <1>1, <2>3 DEF TypeOK
      <3>2. "create" \in Locations  BY DEF Locations
      <3>3. c # NoClaim  BY <1>2, NetclientsAssumption
      <3> QED  BY <1>1, <1>2, <1>3, <2>1, <2>3, <3>1, <3>2, <3>3, GoesOnTyped
    <2> QED  BY <1>4, <2>2, <2>3 DEF GetClaim
  <1>5. CASE CreateClaim(j)
    <2>1. /\ Go(j, "patch")
          /\ UNCHANGED <<past, view, shown, lost, job, level, token, window,
                         stored, bounds>>
          /\ IF c \in claims
             THEN Mount(j, "emptyDir") /\ UNCHANGED <<claims, makers>>
             ELSE /\ Mount(j, c)
                  /\ claims' = claims \cup {c}
                  /\ makers' = [makers EXCEPT ![c] = @ \cup {j}]
          BY <1>5 DEF CreateClaim
    <2>2. /\ claims' \in SUBSET Claims
          /\ makers' \in [Claims -> SUBSET (Jobs \cup {"others"})]
      <3>1. claims \in SUBSET Claims
            /\ makers \in [Claims -> SUBSET (Jobs \cup {"others"})]
            BY DEF TypeOK
      <3>2. c \in Claims  BY <1>2
      <3> HIDE DEF c
      <3>3. CASE c \in claims  BY <2>1, <3>1, <3>3
      <3>4. CASE c \notin claims  BY <2>1, <3>1, <3>2, <3>4
      <3> QED  BY <3>3, <3>4
    <2>3. /\ past' \in Seq(Secrets) /\ view' \in 1 .. Len(past')
          /\ shown' \in SUBSET Claims /\ lost' \in SUBSET Claims
          BY <2>1 DEF TypeOK
    <2>4. events' \in 0 .. MaxEvents  BY <2>1 DEF TypeOK, bounds
    <2>5. failed' \in BOOLEAN  BY <2>1, Zenon DEF TypeOK, bounds
    <2>6. ClusterTyped'  BY <2>2, <2>3, <2>4 DEF ClusterTyped
    <2>7. \E v \in Volumes : Mount(j, v)  BY <1>2, <2>1
    <2> QED  BY <1>1, <1>3, <2>1, <2>5, <2>6, <2>7, MountsTyped
  <1>6. CASE ClaimFails(j)
    <2>1. Go(j, "patch") /\ Mount(j, "emptyDir") /\ Count /\ failed' = TRUE
          /\ UNCHANGED cluster
          BY <1>6 DEF ClaimFails
    <2>2. ClusterTyped' /\ failed' \in BOOLEAN  BY <2>1, ClusterKept DEF cluster
    <2> QED  BY <1>1, <1>2, <1>3, <2>1, <2>2, MountsTyped
  <1> QED  BY <1>4, <1>5, <1>6

\* What happens to the cluster keeps the types.  The versions so far stay.
LEMMA PastGrows ==
  ASSUME TypeOK, SecretChanges
  PROVE  /\ past' \in Seq(Secrets)
         /\ Len(past') = Len(past) + 1
         /\ \A v \in 1 .. Len(past) : past'[v] = past[v]
  <1>1. PICK p \in Places, t \in Tokens \cup {NoToken} :
          past' = Append(past, [past[Len(past)] EXCEPT ![p] = t])
        BY DEF SecretChanges
  <1>2. past \in Seq(Secrets) /\ Len(past) \in Nat \ {0}  BY DEF TypeOK
  <1>3. past[Len(past)] \in Secrets  BY <1>2
  <1>4. [past[Len(past)] EXCEPT ![p] = t] \in Secrets  BY <1>3 DEF Secrets
  <1> QED  BY <1>1, <1>2, <1>4

\* The jobs keep their types when they are left alone and no version goes.
LEMMA JobsKept ==
  ASSUME TypeOK, UNCHANGED <<jobs, failed>>, ClusterTyped', Len(past') \in Nat,
         Len(past) =< Len(past')
  PROVE  TypeOK'
  <1>1. /\ job' = job /\ level' = level /\ at' = at /\ token' = token
        /\ volume' = volume /\ window' = window /\ stored' = stored
        /\ failed' = failed
        BY DEF jobs
  <1>2. Len(past) \in Nat /\ 0 .. Len(past) \subseteq 0 .. Len(past')  BY DEF TypeOK
  <1>3. window' \in [Jobs -> [from : 0 .. Len(past'), to : 0 .. Len(past')]]
    <2>1. \A j \in Jobs :
            window[j] \in [from : 0 .. Len(past'), to : 0 .. Len(past')]
      <3> TAKE j \in Jobs
      <3>1. window[j] \in [from : 0 .. Len(past), to : 0 .. Len(past)]  BY DEF TypeOK
      <3> QED  BY <3>1, <1>2
    <2>2. window \in [Jobs -> [from : 0 .. Len(past), to : 0 .. Len(past)]]
          BY DEF TypeOK
    <2> QED  BY <1>1, <2>1, <2>2
  <1>4. /\ job' \in [Jobs -> Workloads]
        /\ level' \in [Jobs -> Levels \cup {"done"}]
        /\ at' \in [Jobs -> {"submit", "operator", "env",
                             "token", "claim", "create", "patch"}]
        /\ token' \in [Jobs -> Tokens \cup {NoToken}]
        /\ volume' \in [Jobs -> Volumes]
        /\ stored' \in [Jobs -> [Levels -> PodSpec]]
        BY <1>1 DEF TypeOK
  <1>5. failed' \in BOOLEAN  BY <1>1, Zenon DEF TypeOK
  <1>6. \A j \in Jobs :
       /\ level'[j] \in Chain(job'[j]) \cup {"done"}
       /\ at'[j] # "submit" => level'[j] # "done"
       /\ at'[j] \in {"token", "claim", "create", "patch"} => job'[j].kind # "proxy"
       /\ at'[j] \in {"claim", "create"} => ClaimOf(job'[j], level'[j]) # NoClaim
       /\ at'[j] \in {"operator", "env"} => job'[j].kind = "proxy"
        BY <1>1 DEF TypeOK
  <1> QED  BY <1>3, <1>4, <1>5, <1>6 DEF TypeOK, ClusterTyped

LEMMA ClusterTypes ==
  ASSUME TypeOK,
         \/ SecretChanges \/ CacheShowsSecret \/ CacheShowsClaim
         \/ OthersCreateClaim \/ OthersDeleteClaim
  PROVE  TypeOK'
  <1>1. /\ past \in Seq(Secrets) /\ view \in 1 .. Len(past) /\ Len(past) \in Nat
        /\ claims \in SUBSET Claims /\ shown \in SUBSET Claims
        /\ lost \in SUBSET Claims
        /\ makers \in [Claims -> SUBSET (Jobs \cup {"others"})]
        /\ events \in 0 .. MaxEvents /\ MaxEvents \in Nat
        BY NetclientsAssumption DEF TypeOK
  <1>2. Count => events' \in 0 .. MaxEvents  BY <1>1 DEF Count
  <1>3. CASE SecretChanges
    <2>1. /\ Count /\ UNCHANGED <<view, claims, shown, makers, lost, jobs, failed>>
          BY <1>3 DEF SecretChanges
    <2>2. past' \in Seq(Secrets) /\ Len(past') = Len(past) + 1  BY <1>3, PastGrows
    <2>3. view' \in 1 .. Len(past')  BY <1>1, <2>1, <2>2
    <2>4. ClusterTyped'  BY <1>1, <1>2, <2>1, <2>2, <2>3 DEF ClusterTyped
    <2>5. Len(past') \in Nat /\ Len(past) =< Len(past')  BY <1>1, <2>2
    <2> QED  BY <2>1, <2>4, <2>5, JobsKept
  <1>4. CASE CacheShowsSecret
    <2>1. /\ view < Len(past) /\ view' = view + 1
          /\ UNCHANGED <<past, claims, shown, makers, lost, jobs, bounds>>
          BY <1>4 DEF CacheShowsSecret
    <2>2. view' \in 1 .. Len(past')  BY <1>1, <2>1
    <2>3. ClusterTyped'  BY <1>1, <2>1, <2>2 DEF ClusterTyped, bounds
    <2> QED  BY <1>1, <2>1, <2>3, JobsKept DEF bounds
  <1>5. CASE CacheShowsClaim
    <2>1. UNCHANGED <<past, view, claims, makers, lost, jobs, bounds>>
          BY <1>5 DEF CacheShowsClaim
    <2>2. shown' \in SUBSET Claims  BY <1>1, <1>5 DEF CacheShowsClaim
    <2>3. ClusterTyped'  BY <1>1, <2>1, <2>2 DEF ClusterTyped, bounds
    <2> QED  BY <1>1, <2>1, <2>3, JobsKept DEF bounds
  <1>6. CASE OthersCreateClaim
    <2>1. PICK c \in Claims :
            /\ claims' = claims \cup {c}
            /\ makers' = [makers EXCEPT ![c] = @ \cup {"others"}]
          BY <1>6 DEF OthersCreateClaim
    <2>2. Count /\ UNCHANGED <<past, view, shown, lost, jobs, failed>>
          BY <1>6 DEF OthersCreateClaim
    <2>3. /\ claims' \in SUBSET Claims
          /\ makers' \in [Claims -> SUBSET (Jobs \cup {"others"})]
          BY <1>1, <2>1
    <2>4. ClusterTyped'  BY <1>1, <1>2, <2>2, <2>3 DEF ClusterTyped
    <2> QED  BY <1>1, <2>2, <2>4, JobsKept
  <1>7. CASE OthersDeleteClaim
    <2>1. PICK c \in claims : claims' = claims \ {c} /\ lost' = lost \cup {c}
          BY <1>7 DEF OthersDeleteClaim
    <2>2. Count /\ UNCHANGED <<past, view, shown, makers, jobs, failed>>
          BY <1>7 DEF OthersDeleteClaim
    <2>3. claims' \in SUBSET Claims /\ lost' \in SUBSET Claims  BY <1>1, <2>1
    <2>4. ClusterTyped'  BY <1>1, <1>2, <2>2, <2>3 DEF ClusterTyped
    <2> QED  BY <1>1, <2>2, <2>4, JobsKept
  <1> QED  BY <1>3, <1>4, <1>5, <1>6, <1>7

LEMMA TypeStep == TypeOK /\ [Next]_vars => TypeOK'
  <1> SUFFICES ASSUME TypeOK, [Next]_vars PROVE TypeOK'
      OBVIOUS
  <1>1. ASSUME NEW j \in Jobs, JobStep(j) PROVE TypeOK'
        BY <1>1, BuildTypes, AdmissionTypes, ReadSecretTypes, ClaimTypes DEF JobStep
  <1>2. CASE UNCHANGED vars
    <2>1. UNCHANGED <<cluster, jobs, bounds>>  BY <1>2 DEF vars
    <2>2. ClusterTyped'  BY <2>1, ClusterKept DEF cluster, bounds
    <2>3. Len(past') \in Nat /\ Len(past) =< Len(past')
      <3>1. past' = past /\ Len(past) \in Nat  BY <2>1 DEF cluster, TypeOK
      <3> QED  BY <3>1
    <2> QED  BY <2>1, <2>2, <2>3, JobsKept DEF bounds
  <1> QED  BY <1>1, <1>2, ClusterTypes DEF Next

\* The state of every job and of the cluster has the types of TypeOK; in particular
\* a handler ensures a claim only when one is named, and no level is admitted that
\* its workload has not.
THEOREM NetclientsTypeCorrect == Spec => []TypeOK
  BY TypeInit, TypeStep, PTL DEF Spec

-----------------------------------------------------------------------------
(* A claim that is mounted exists                                            *)

Sound(v, existed) == v \in Claims => v \in existed

\* The volumes a handler holds or has stored name only claims that have existed,
\* and so does the cache.
MountInv ==
  /\ shown \subseteq claims \cup lost
  /\ \A j \in Jobs : volume[j] \in Claims => volume[j] \in claims \cup lost
  /\ \A j \in Jobs, l \in Levels :
        stored[j][l].volume \in Claims => stored[j][l].volume \in claims \cup lost

\* What an object comes with mounts only such claims.
LEMMA GivenMounts ==
  ASSUME TypeOK, MountInv, NEW j \in Jobs, level[j] # "done",
         Given(j, level[j]).volume \in Claims
  PROVE  Given(j, level[j]).volume \in claims \cup lost
  <1>1. job[j] \in Workload /\ level[j] \in Chain(job[j])  BY JobTyped
  <1>2. Manifest(job[j]).volume \in {"none", "own"}
        BY <1>1 DEF Manifest, NoSpec, Workload
  <1>3. CASE level[j] = Top(job[j])
        BY <1>2, <1>3, NetclientsAssumption DEF Given
  <1>4. CASE level[j] # Top(job[j])
    <2>1. Above(job[j], level[j]) \in Levels  BY <1>1, <1>4, ChainLevels
    <2> QED  BY <1>4, <2>1 DEF Given, MountInv
  <1> QED  BY <1>3, <1>4

\* What mounts a claim that has existed, or none, keeps the invariant.
LEMMA MountKept ==
  ASSUME MountInv, NEW j \in Jobs,
         claims \cup lost \subseteq claims' \cup lost',
         shown' \subseteq claims' \cup lost',
         \A k \in Jobs \ {j} : volume'[k] = volume[k] /\ stored'[k] = stored[k],
         volume'[j] \in Claims => volume'[j] \in claims' \cup lost',
         \A l \in Levels : \/ stored'[j][l] = stored[j][l]
                          \/ Sound(stored'[j][l].volume, claims' \cup lost')
  PROVE  MountInv'
  <1>1. \A k \in Jobs : volume'[k] \in Claims => volume'[k] \in claims' \cup lost'
        BY DEF MountInv
  <1>2. \A k \in Jobs, l \in Levels :
          stored'[k][l].volume \in Claims => stored'[k][l].volume \in claims' \cup lost'
    <2> TAKE k \in Jobs, l \in Levels
    <2>1. CASE k # j  BY <2>1 DEF MountInv
    <2>2. CASE k = j  BY <2>2 DEF MountInv, Sound
    <2> QED  BY <2>1, <2>2
  <1> QED  BY <1>1, <1>2 DEF MountInv

LEMMA StoreMounts ==
  ASSUME TypeOK, MountInv, NEW j \in Jobs, level[j] # "done", NEW s \in PodSpec,
         Store(j, s), s.volume \in Claims => s.volume \in claims \cup lost,
         UNCHANGED cluster
  PROVE  MountInv'
  <1>1. /\ \A k \in Jobs \ {j} : volume'[k] = volume[k] /\ stored'[k] = stored[k]
        /\ volume'[j] = "none"
        /\ stored'[j] = [stored[j] EXCEPT ![level[j]] = s]
        BY StoreWrites
  <1>2. claims' = claims /\ lost' = lost /\ shown' = shown  BY DEF cluster
  <1>3. volume'[j] \notin Claims  BY <1>1, NetclientsAssumption
  <1>4. stored[j] \in [Levels -> PodSpec]  BY DEF TypeOK
  <1>5. \A l \in Levels : \/ stored'[j][l] = stored[j][l]
                          \/ Sound(stored'[j][l].volume, claims' \cup lost')
        BY <1>1, <1>2, <1>4 DEF Sound
  <1>6. /\ claims \cup lost \subseteq claims' \cup lost'
        /\ shown' \subseteq claims' \cup lost'
        BY <1>2 DEF MountInv
  <1>7. \A k \in Jobs \ {j} : volume'[k] = volume[k] /\ stored'[k] = stored[k]
        BY <1>1
  <1>8. volume'[j] \in Claims => volume'[j] \in claims' \cup lost'  BY <1>3
  <1> HIDE DEF MountInv
  <1> QED  BY <1>5, <1>6, <1>7, <1>8, MountKept

\* The volume j holds changes, and no object.
LEMMA HoldsMount ==
  ASSUME TypeOK, MountInv, NEW j \in Jobs, level[j] # "done", NEW v \in Volumes,
         Mount(j, v), v \in Claims => v \in claims' \cup lost',
         claims \cup lost \subseteq claims' \cup lost',
         shown' = shown, stored' = stored
  PROVE  MountInv'
  <1>1. /\ volume'[j] = IF Given(j, level[j]).volume = "none" THEN v
                        ELSE Given(j, level[j]).volume
        /\ \A k \in Jobs \ {j} : volume'[k] = volume[k] /\ stored'[k] = stored[k]
        BY MountTyped
  <1>2. volume'[j] \in Claims => volume'[j] \in claims' \cup lost'
    <2>1. CASE Given(j, level[j]).volume = "none"  BY <1>1, <2>1
    <2>2. CASE Given(j, level[j]).volume # "none"  BY <1>1, <2>2, GivenMounts
    <2> QED  BY <2>1, <2>2
  <1>3. shown' \subseteq claims' \cup lost'  BY DEF MountInv
  <1>4. \A k \in Jobs \ {j} : volume'[k] = volume[k] /\ stored'[k] = stored[k]
        BY <1>1
  <1>5. \A l \in Levels : \/ stored'[j][l] = stored[j][l]
                          \/ Sound(stored'[j][l].volume, claims' \cup lost')
        OBVIOUS
  <1> QED  BY <1>2, <1>3, <1>4, <1>5, MountKept

\* A step that touches neither volumes nor stored objects, and only adds to the
\* claims there have been.
LEMMA NoMount ==
  ASSUME MountInv, UNCHANGED <<volume, stored>>,
         claims \cup lost \subseteq claims' \cup lost',
         shown' \subseteq claims' \cup lost'
  PROVE  MountInv'
  <1>1. volume' = volume /\ stored' = stored  OBVIOUS
  <1>2. \A k \in Jobs : volume'[k] \in Claims => volume'[k] \in claims' \cup lost'
        BY <1>1 DEF MountInv
  <1>3. \A k \in Jobs, l \in Levels :
          stored'[k][l].volume \in Claims => stored'[k][l].volume \in claims' \cup lost'
        BY <1>1 DEF MountInv
  <1> QED  BY <1>2, <1>3 DEF MountInv

LEMMA JobMounts ==
  ASSUME TypeOK, MountInv, NEW j \in Jobs, JobStep(j)
  PROVE  MountInv'
  <1>1. "emptyDir" \in Volumes /\ "emptyDir" \notin Claims
        BY NetclientsAssumption DEF Volumes
  <1>2. shown \subseteq claims \cup lost  BY DEF MountInv
  <1>3. UNCHANGED cluster =>
          /\ claims \cup lost \subseteq claims' \cup lost'
          /\ shown' \subseteq claims' \cup lost'
          /\ shown' = shown
        BY <1>2 DEF cluster
  <1>4. CASE UNCHANGED <<cluster, volume, stored>>  BY <1>3, <1>4, NoMount
  <1>5. ASSUME level[j] # "done", Store(j, Given(j, level[j])), UNCHANGED cluster
        PROVE  MountInv'
        BY <1>5, GivenTyped, GivenMounts, StoreMounts
  <1>6. CASE ReadOwnSecret(j)  BY <1>4, <1>6 DEF ReadOwnSecret
  <1>7. CASE ReadOperatorSecret(j)  BY <1>4, <1>7 DEF ReadOperatorSecret
  <1>8. CASE BuildEnv(j)
    <2> DEFINE s == [netclients |-> 1,
                     token |-> IF Cached("own") # NoToken THEN "secretKeyRef"
                               ELSE token[j],
                     volume |-> "emptyDir"]
    <2>1. at[j] = "env" /\ Store(j, s) /\ UNCHANGED cluster
          BY <1>8 DEF BuildEnv
    <2>2. level[j] # "done" /\ token[j] \in Tokens \cup {NoToken}
          BY <2>1 DEF TypeOK
    <2>3. s \in PodSpec /\ s.volume \notin Claims  BY <1>1, <2>2 DEF PodSpec
    <2> HIDE DEF s
    <2> QED  BY <2>1, <2>2, <2>3, StoreMounts
  <1>9. CASE NotSelected(j)  BY <1>5, <1>9 DEF NotSelected
  <1>10. CASE Handle(j)  BY <1>4, <1>5, <1>10 DEF Handle
  <1>11. CASE ReadSecret(j)
    <2>1. at[j] = "token" /\ UNCHANGED <<cluster, stored>>  BY <1>11 DEF ReadSecret
    <2>2. level[j] # "done"  BY <2>1 DEF TypeOK
    <2>3. CASE UNCHANGED volume  BY <1>4, <2>1, <2>3
    <2>4. CASE Mount(j, "emptyDir")  BY <1>1, <1>3, <2>1, <2>2, <2>4, HoldsMount
    <2> QED  BY <1>11, <2>3, <2>4 DEF ReadSecret
  <1>12. ASSUME at[j] \in {"claim", "create"}
         PROVE  /\ level[j] # "done"
                /\ ClaimOf(job[j], level[j]) \in Claims
                /\ ClaimOf(job[j], level[j]) \in Volumes
         BY <1>12, ClaimTyped DEF TypeOK, Volumes
  <1>13. CASE GetClaim(j)
    <2>1. at[j] \in {"claim", "create"} /\ UNCHANGED <<cluster, stored>>
          BY <1>13 DEF GetClaim
    <2>2. CASE UNCHANGED volume  BY <1>4, <2>1, <2>2
    <2>3. CASE /\ ClaimOf(job[j], level[j]) \in shown
               /\ Mount(j, ClaimOf(job[j], level[j]))
      <3>1. ClaimOf(job[j], level[j]) \in claims' \cup lost'  BY <1>3, <2>1, <2>3
      <3> QED  BY <1>3, <1>12, <2>1, <2>3, <3>1, HoldsMount
    <2> QED  BY <1>13, <2>2, <2>3 DEF GetClaim
  <1>14. CASE CreateClaim(j)
    <2>1. at[j] \in {"claim", "create"} /\ shown' = shown /\ lost' = lost
          /\ stored' = stored
          BY <1>14 DEF CreateClaim
    <2>2. CASE Mount(j, "emptyDir") /\ UNCHANGED claims
          BY <1>1, <1>12, <2>1, <2>2, HoldsMount
    <2>3. CASE /\ Mount(j, ClaimOf(job[j], level[j]))
               /\ claims' = claims \cup {ClaimOf(job[j], level[j])}
      <3>1. /\ claims \cup lost \subseteq claims' \cup lost'
            /\ ClaimOf(job[j], level[j]) \in claims' \cup lost'
            BY <2>1, <2>3
      <3> QED  BY <1>12, <2>1, <2>3, <3>1, HoldsMount
    <2> QED  BY <1>14, <2>2, <2>3 DEF CreateClaim
  <1>15. CASE ClaimFails(j)
    <2>1. at[j] \in {"claim", "create"} /\ Mount(j, "emptyDir")
          /\ UNCHANGED <<cluster, stored>>
          BY <1>15 DEF ClaimFails
    <2> QED  BY <1>1, <1>3, <1>12, <2>1, HoldsMount
  <1>16. CASE Patch(j)
    <2> DEFINE s == [netclients |-> Given(j, level[j]).netclients + 1,
                     token |-> token[j], volume |-> volume[j]]
    <2>1. at[j] = "patch" /\ Store(j, s) /\ UNCHANGED cluster
          BY <1>16 DEF Patch
    <2>2. level[j] # "done" /\ token[j] \in Tokens \cup {NoToken}
          /\ volume[j] \in Volumes
          BY <2>1 DEF TypeOK
    <2>3. Given(j, level[j]).netclients \in Nat  BY <2>2, GivenTyped DEF PodSpec
    <2>4. s \in PodSpec  BY <2>2, <2>3 DEF PodSpec
    <2>5. s.volume \in Claims => s.volume \in claims \cup lost  BY DEF MountInv
    <2> HIDE DEF s
    <2> QED  BY <2>1, <2>2, <2>4, <2>5, StoreMounts
  <1>17. CASE Rejected(j)
    <2>1. /\ volume' = [volume EXCEPT ![j] = "none"]
          /\ UNCHANGED <<cluster, stored>>
          BY <1>17 DEF Rejected
    <2>2. volume'[j] \notin Claims /\ \A k \in Jobs \ {j} : volume'[k] = volume[k]
          BY <2>1, NetclientsAssumption DEF TypeOK
    <2>3. /\ \A k \in Jobs \ {j} : volume'[k] = volume[k] /\ stored'[k] = stored[k]
          /\ \A l \in Levels : stored'[j][l] = stored[j][l]
          BY <2>1, <2>2
    <2> QED  BY <1>3, <2>1, <2>2, <2>3, MountKept
  <1> QED  BY <1>6, <1>7, <1>8, <1>9, <1>10, <1>11, <1>13, <1>14, <1>15, <1>16,
              <1>17 DEF JobStep

LEMMA MountStep == TypeOK /\ MountInv /\ [Next]_vars => MountInv'
  <1> SUFFICES ASSUME TypeOK, MountInv, [Next]_vars PROVE MountInv'
      OBVIOUS
  <1>1. shown \subseteq claims \cup lost  BY DEF MountInv
  <1>2. ASSUME UNCHANGED <<claims, lost, shown, volume, stored>> PROVE MountInv'
        BY <1>1, <1>2, NoMount
  <1>3. CASE SecretChanges  BY <1>2, <1>3 DEF SecretChanges, jobs
  <1>4. CASE CacheShowsSecret  BY <1>2, <1>4 DEF CacheShowsSecret, jobs
  <1>5. CASE CacheShowsClaim
    <2>1. UNCHANGED <<claims, lost, volume, stored>>
          BY <1>5 DEF CacheShowsClaim, jobs
    <2>2. shown' \subseteq claims' \cup lost'
          BY <1>1, <1>5, <2>1 DEF CacheShowsClaim
    <2> QED  BY <2>1, <2>2, NoMount
  <1>6. CASE OthersCreateClaim
    <2>1. UNCHANGED <<shown, lost, volume, stored>> /\ claims \subseteq claims'
          BY <1>6 DEF OthersCreateClaim, jobs
    <2> QED  BY <1>1, <2>1, NoMount
  <1>7. CASE OthersDeleteClaim
    <2>1. PICK c \in claims : claims' = claims \ {c} /\ lost' = lost \cup {c}
          BY <1>7 DEF OthersDeleteClaim
    <2>2. UNCHANGED <<shown, volume, stored>>  BY <1>7 DEF OthersDeleteClaim, jobs
    <2>3. claims \cup lost \subseteq claims' \cup lost'  BY <2>1
    <2> QED  BY <1>1, <2>2, <2>3, NoMount
  <1>8. CASE UNCHANGED vars  BY <1>2, <1>8 DEF vars, cluster, jobs
  <1> QED  BY <1>3, <1>4, <1>5, <1>6, <1>7, <1>8, JobMounts DEF Next

\* A pod with a claim for its netclient has one that exists or that a user has
\* deleted, whatever the cache shows and whoever else creates it.
THEOREM MountsExist == Spec => []MountedClaimExists
  <1>1. Init => MountInv
    <2> SUFFICES ASSUME Init PROVE MountInv
        OBVIOUS
    <2>1. \A j \in Jobs : volume[j] = "none"  BY DEF Init
    <2>2. \A j \in Jobs, l \in Levels : stored[j][l].volume = "none"
          BY DEF Init, NoSpec
    <2>3. shown = {}  BY DEF Init
    <2> QED  BY <2>1, <2>2, <2>3, NetclientsAssumption DEF MountInv
  <1>2. MountInv => MountedClaimExists  BY DEF MountInv, MountedClaimExists
  <1> QED  BY <1>1, <1>2, MountStep, NetclientsTypeCorrect, PTL DEF Spec

-----------------------------------------------------------------------------
(* One netclient per pod                                                     *)

\* The levels of w that are stored when level lv is the next.
Passed(w, lv) ==
  IF lv = "done" THEN Chain(w)
  ELSE IF lv = Top(w) THEN {}
  ELSE IF lv = "pod" /\ w.kind = "deployment" THEN {"deployment", "replicaset"}
  ELSE {Top(w)}

\* The netclients an object of level l ends up with.
Expected(w, l) ==
  IF w.kind = "proxy" \/ w.onObject \/ (w.onTemplate /\ l # Top(w)) THEN 1 ELSE 0

\* Given, of the objects stored for a job.
From(w, objs, l) == IF l = Top(w) THEN Manifest(w) ELSE objs[Above(w, l)]

\* The stored objects have the netclients expected, the ReplicaSet of a labelled
\* Deployment has its template, and a handler is past its checks only for a
\* labelled object without a netclient.
Counted(w, lv, place, objs) ==
  /\ place \in InHandler => ObjectLabelled(w, lv) /\ From(w, objs, lv).netclients = 0
  /\ \A l \in Passed(w, lv) : objs[l].netclients = Expected(w, l)
  /\ w.kind = "deployment" /\ w.onObject /\ "replicaset" \in Passed(w, lv)
       => objs["replicaset"] = objs["deployment"]

CountInv == \A j \in Jobs : Counted(job[j], level[j], at[j], stored[j])

LEMMA GivenIsFrom ==
  ASSUME NEW j \in Jobs
  PROVE  Given(j, level[j]) = From(job[j], stored[j], level[j])
  BY DEF Given, From

\* Going a level down adds that level to the stored ones.
LEMMA PassedGrows ==
  ASSUME NEW w \in Workload, NEW lv \in Chain(w)
  PROVE  /\ Passed(w, Below(lv)) = Passed(w, lv) \cup {lv}
         /\ lv \notin Passed(w, lv)
         /\ lv # Top(w) => Above(w, lv) \in Passed(w, lv)
         /\ Passed(w, lv) \subseteq Levels
  <1>1. CASE w.kind = "deployment"
        BY <1>1, ChainLevels DEF Passed, Top, Below, Chain, Above, Levels
  <1>2. CASE w.kind = "set"
        BY <1>2, ChainLevels DEF Passed, Top, Below, Chain, Above, Levels
  <1>3. CASE w.kind \in {"proxy", "pod"}
        BY <1>3, ChainLevels DEF Passed, Top, Below, Chain, Above, Levels
  <1> QED  BY <1>1, <1>2, <1>3 DEF Workload

\* What an object comes with, in netclients.
LEMMA FromCounts ==
  ASSUME NEW w \in Workload, NEW lv \in Chain(w), NEW place, NEW objs,
         Counted(w, lv, place, objs)
  PROVE  /\ w.kind # "proxy" /\ ~ObjectLabelled(w, lv)
              => From(w, objs, lv).netclients = Expected(w, lv)
         /\ ObjectLabelled(w, lv) => Expected(w, lv) = 1
         /\ From(w, objs, lv).netclients # 0
              => From(w, objs, lv).netclients = 1 /\ Expected(w, lv) = 1
         /\ w.kind = "deployment" /\ w.onObject /\ lv = "replicaset"
              => /\ From(w, objs, lv) = objs["deployment"]
                 /\ From(w, objs, lv).netclients = 1
  <1>1. CASE lv = Top(w)
    <2>1. From(w, objs, lv).netclients = 0
          BY <1>1 DEF From, Manifest, NoSpec
    <2>2. w.kind = "deployment" => lv # "replicaset"  BY <1>1 DEF Top
    <2> QED  BY <1>1, <2>1, <2>2 DEF ObjectLabelled, Expected
  <1>2. CASE lv # Top(w)
    <2>1. From(w, objs, lv) = objs[Above(w, lv)]  BY <1>2 DEF From
    <2>2. From(w, objs, lv).netclients = Expected(w, Above(w, lv))
          BY <1>2, <2>1, PassedGrows DEF Counted
    <2>3. w.kind = "deployment" /\ lv = "replicaset" => Above(w, lv) = "deployment"
          BY DEF Above
    <2> QED  BY <1>2, <2>1, <2>2, <2>3 DEF ObjectLabelled, Expected
  <1> QED  BY <1>1, <1>2

\* An object is stored as expected.
LEMMA StoreCounts ==
  ASSUME NEW w \in Workload, NEW lv \in Chain(w), NEW place,
         NEW objs \in [Levels -> PodSpec], Counted(w, lv, place, objs),
         NEW s \in PodSpec, s.netclients = Expected(w, lv),
         w.kind = "deployment" /\ w.onObject /\ lv = "replicaset"
           => s = objs["deployment"]
  PROVE  Counted(w, Below(lv), "submit", [objs EXCEPT ![lv] = s])
  <1> DEFINE new == [objs EXCEPT ![lv] = s]
  <1>1. /\ Passed(w, Below(lv)) = Passed(w, lv) \cup {lv}
        /\ lv \notin Passed(w, lv)
        /\ Passed(w, lv) \subseteq Levels
        BY PassedGrows
  <1>2. lv \in Levels /\ "deployment" \in Levels /\ "replicaset" \in Levels
        BY ChainLevels DEF Levels
  <1>3. new[lv] = s /\ \A l \in Levels \ {lv} : new[l] = objs[l]
        BY <1>2
  <1> HIDE DEF new
  <1>4. \A l \in Passed(w, Below(lv)) : new[l].netclients = Expected(w, l)
        BY <1>1, <1>3 DEF Counted
  <1>5. ASSUME w.kind = "deployment", w.onObject, "replicaset" \in Passed(w, Below(lv))
        PROVE  new["replicaset"] = new["deployment"]
    <2>1. CASE lv = "replicaset"  BY <1>2, <1>3, <1>5, <2>1
    <2>2. CASE lv # "replicaset"
      <3>1. "replicaset" \in Passed(w, lv)  BY <1>1, <1>5, <2>2
      <3>2. lv # "deployment"
            BY <1>5, <3>1 DEF Passed, Top
      <3> QED  BY <1>2, <1>3, <1>5, <2>2, <3>1, <3>2 DEF Counted
    <2> QED  BY <2>1, <2>2
  <1> QED  BY <1>4, <1>5 DEF Counted, InHandler, new

\* Only job j takes a step.
LEMMA CountKept ==
  ASSUME CountInv, NEW j \in Jobs, job' = job,
         \A k \in Jobs \ {j} :
           level'[k] = level[k] /\ at'[k] = at[k] /\ stored'[k] = stored[k],
         Counted(job[j], level'[j], at'[j], stored'[j])
  PROVE  CountInv'
  <1>1. \A k \in Jobs : Counted(job'[k], level'[k], at'[k], stored'[k])
    <2> TAKE k \in Jobs
    <2>1. CASE k = j  BY <2>1
    <2>2. CASE k # j  BY <2>2 DEF CountInv
    <2> QED  BY <2>1, <2>2
  <1> QED  BY <1>1 DEF CountInv

\* The present level of j is stored with the netclients expected.
LEMMA StoreCountKept ==
  ASSUME TypeOK, CountInv, NEW j \in Jobs, level[j] # "done", NEW s \in PodSpec,
         Store(j, s), job' = job,
         s.netclients = Expected(job[j], level[j]),
         job[j].kind = "deployment" /\ job[j].onObject /\ level[j] = "replicaset"
           => s = stored[j]["deployment"]
  PROVE  CountInv'
  <1>1. job[j] \in Workload /\ level[j] \in Chain(job[j])  BY JobTyped
  <1>2. stored[j] \in [Levels -> PodSpec]  BY DEF TypeOK
  <1>3. Counted(job[j], level[j], at[j], stored[j])  BY DEF CountInv
  <1>4. Counted(job[j], Below(level[j]), "submit", [stored[j] EXCEPT ![level[j]] = s])
        BY <1>1, <1>2, <1>3, StoreCounts
  <1>5. /\ stored'[j] = [stored[j] EXCEPT ![level[j]] = s]
        /\ level'[j] = Below(level[j]) /\ at'[j] = "submit"
        BY StoreWrites
  <1>6. Counted(job[j], level'[j], at'[j], stored'[j])  BY <1>4, <1>5
  <1>7. \A k \in Jobs \ {j} :
          level'[k] = level[k] /\ at'[k] = at[k] /\ stored'[k] = stored[k]
        BY StoreWrites
  <1> QED  BY <1>6, <1>7, CountKept

\* A handler or a build goes on, within its checks.
LEMMA GoesOnCounts ==
  ASSUME TypeOK, CountInv, NEW j \in Jobs, NEW l \in Locations, Go(j, l),
         UNCHANGED <<job, level, stored>>,
         l \in InHandler =>
           /\ ObjectLabelled(job[j], level[j])
           /\ From(job[j], stored[j], level[j]).netclients = 0
  PROVE  CountInv'
  <1>1. at'[j] = l /\ \A k \in Jobs \ {j} : at'[k] = at[k]  BY GoTyped
  <1>2. Counted(job[j], level[j], at[j], stored[j])  BY DEF CountInv
  <1>3. Counted(job[j], level[j], l, stored[j])  BY <1>2 DEF Counted
  <1>4. Counted(job[j], level'[j], at'[j], stored'[j])  BY <1>1, <1>3
  <1>5. \A k \in Jobs \ {j} :
          level'[k] = level[k] /\ at'[k] = at[k] /\ stored'[k] = stored[k]
        BY <1>1
  <1> QED  BY <1>4, <1>5, CountKept

LEMMA JobCounts ==
  ASSUME TypeOK, CountInv, NEW j \in Jobs, JobStep(j)
  PROVE  CountInv'
  <1>1. /\ job[j] \in Workload
        /\ level[j] # "done" => level[j] \in Chain(job[j])
        BY JobTyped
  <1>2. Counted(job[j], level[j], at[j], stored[j])  BY DEF CountInv
  <1>3. Given(j, level[j]) = From(job[j], stored[j], level[j])  BY GivenIsFrom
  <1>4. at[j] \in InHandler =>
          /\ ObjectLabelled(job[j], level[j])
          /\ From(job[j], stored[j], level[j]).netclients = 0
        BY <1>2 DEF Counted
  <1>5. ASSUME level[j] # "done", job[j].kind # "proxy", job' = job,
               Store(j, Given(j, level[j])),
               \/ ~ObjectLabelled(job[j], level[j])
               \/ From(job[j], stored[j], level[j]).netclients # 0
        PROVE  CountInv'
    <2>1. Given(j, level[j]) \in PodSpec  BY <1>5, GivenTyped
    <2>2. Given(j, level[j]).netclients = Expected(job[j], level[j])
          BY <1>1, <1>2, <1>3, <1>5, FromCounts
    <2>3. job[j].kind = "deployment" /\ job[j].onObject /\ level[j] = "replicaset"
            => Given(j, level[j]) = stored[j]["deployment"]
          BY <1>1, <1>2, <1>3, <1>5, FromCounts
    <2> QED  BY <1>5, <2>1, <2>2, <2>3, StoreCountKept
  <1>6. ASSUME NEW l \in Locations \ InHandler, Go(j, l), UNCHANGED <<job, level, stored>>
        PROVE  CountInv'
        BY <1>6, GoesOnCounts
  <1>7. ASSUME at[j] \in InHandler, NEW l \in InHandler, Go(j, l),
               UNCHANGED <<job, level, stored>>
        PROVE  CountInv'
    <2>1. l \in Locations  BY DEF InHandler, Locations
    <2> QED  BY <1>4, <1>7, <2>1, GoesOnCounts
  <1>8. CASE ReadOwnSecret(j)
    <2>1. PICK l \in {"env", "operator"} : Go(j, l)  BY <1>8 DEF ReadOwnSecret
    <2>2. l \in Locations \ InHandler  BY DEF Locations, InHandler
    <2> QED  BY <1>6, <1>8, <2>1, <2>2 DEF ReadOwnSecret
  <1>9. CASE ReadOperatorSecret(j)
    <2>1. "env" \in Locations \ InHandler  BY DEF Locations, InHandler
    <2> QED  BY <1>6, <1>9, <2>1 DEF ReadOperatorSecret
  <1>10. CASE BuildEnv(j)
    <2> DEFINE s == [netclients |-> 1,
                     token |-> IF Cached("own") # NoToken THEN "secretKeyRef"
                               ELSE token[j],
                     volume |-> "emptyDir"]
    <2>1. at[j] = "env" /\ Store(j, s) /\ job' = job  BY <1>10 DEF BuildEnv
    <2>2. /\ level[j] # "done" /\ token[j] \in Tokens \cup {NoToken}
          /\ job[j].kind = "proxy"
          BY <2>1 DEF TypeOK
    <2>3. s \in PodSpec  BY <2>2 DEF PodSpec, Volumes
    <2>4. s.netclients = Expected(job[j], level[j])  BY <2>2 DEF Expected
    <2> HIDE DEF s
    <2> QED  BY <2>1, <2>2, <2>3, <2>4, StoreCountKept
  <1>11. CASE NotSelected(j)  BY <1>5, <1>11 DEF NotSelected
  <1>12. CASE Handle(j)
    <2>1. /\ job[j].kind # "proxy" /\ level[j] # "done" /\ job' = job
          /\ ObjectLabelled(job[j], level[j]) /\ HasLabel(job[j], level[j])
          /\ stored' = stored \/ Store(j, Given(j, level[j]))
          BY <1>12 DEF Handle, HasLabel
    <2>2. CASE Given(j, level[j]).netclients = 0
      <3>1. Go(j, "token") /\ UNCHANGED <<job, level, stored>>
            BY <1>12, <2>1, <2>2 DEF Handle
      <3>2. "token" \in Locations  BY DEF Locations
      <3> QED  BY <1>3, <2>1, <2>2, <3>1, <3>2, GoesOnCounts
    <2>3. CASE Given(j, level[j]).netclients # 0
      <3>1. Store(j, Given(j, level[j]))  BY <1>12, <2>3 DEF Handle
      <3> QED  BY <1>3, <1>5, <2>1, <2>3, <3>1
    <2> QED  BY <2>2, <2>3
  <1>13. CASE ReadSecret(j)
    <2>1. PICK l \in {"patch", "claim"} : Go(j, l)  BY <1>13 DEF ReadSecret
    <2>2. l \in InHandler /\ at[j] \in InHandler  BY <1>13 DEF ReadSecret, InHandler
    <2> QED  BY <1>7, <1>13, <2>1, <2>2 DEF ReadSecret
  <1>14. CASE GetClaim(j)
    <2>1. PICK l \in {"patch", "create"} : Go(j, l)  BY <1>14 DEF GetClaim
    <2>2. l \in InHandler /\ at[j] \in InHandler  BY <1>14 DEF GetClaim, InHandler
    <2> QED  BY <1>7, <1>14, <2>1, <2>2 DEF GetClaim
  <1>15. CASE CreateClaim(j)
    <2>1. "patch" \in InHandler /\ at[j] \in InHandler
          BY <1>15 DEF CreateClaim, InHandler
    <2> QED  BY <1>7, <1>15, <2>1 DEF CreateClaim
  <1>16. CASE ClaimFails(j)
    <2>1. "patch" \in InHandler /\ at[j] \in InHandler
          BY <1>16 DEF ClaimFails, InHandler
    <2> QED  BY <1>7, <1>16, <2>1 DEF ClaimFails
  <1>17. CASE Patch(j)
    <2> DEFINE s == [netclients |-> Given(j, level[j]).netclients + 1,
                     token |-> token[j], volume |-> volume[j]]
    <2>1. at[j] = "patch" /\ Store(j, s) /\ job' = job  BY <1>17 DEF Patch
    <2>2. /\ level[j] # "done" /\ token[j] \in Tokens \cup {NoToken}
          /\ volume[j] \in Volumes /\ job[j].kind # "proxy"
          BY <2>1 DEF TypeOK
    <2>3. /\ ObjectLabelled(job[j], level[j])
          /\ Given(j, level[j]).netclients = 0
          BY <1>3, <1>4, <2>1 DEF InHandler
    <2>4. s \in PodSpec  BY <2>2, <2>3 DEF PodSpec
    <2>5. s.netclients = Expected(job[j], level[j])
          BY <1>1, <1>2, <2>2, <2>3, FromCounts
    <2>6. ~(job[j].kind = "deployment" /\ job[j].onObject /\ level[j] = "replicaset")
          BY <1>1, <1>2, <1>3, <2>2, <2>3, FromCounts
    <2> HIDE DEF s
    <2> QED  BY <2>1, <2>2, <2>4, <2>5, <2>6, StoreCountKept
  <1>18. CASE Rejected(j)
    <2>1. "submit" \in Locations \ InHandler  BY DEF Locations, InHandler
    <2> QED  BY <1>6, <1>18, <2>1 DEF Rejected
  <1> QED  BY <1>8, <1>9, <1>10, <1>11, <1>12, <1>13, <1>14, <1>15, <1>16, <1>17,
              <1>18 DEF JobStep

LEMMA CountStep == TypeOK /\ CountInv /\ [Next]_vars => CountInv'
  <1> SUFFICES ASSUME TypeOK, CountInv, [Next]_vars PROVE CountInv'
      OBVIOUS
  <1>1. CASE UNCHANGED jobs  BY <1>1 DEF jobs, CountInv
  <1>2. CASE UNCHANGED vars  BY <1>1, <1>2 DEF vars
  <1>3. \/ SecretChanges \/ CacheShowsSecret \/ CacheShowsClaim
        \/ OthersCreateClaim \/ OthersDeleteClaim
        => UNCHANGED jobs
        BY DEF SecretChanges, CacheShowsSecret, CacheShowsClaim, OthersCreateClaim,
               OthersDeleteClaim, jobs
  <1> QED  BY <1>1, <1>2, <1>3, JobCounts DEF Next

LEMMA CountInit == Init => CountInv
  <1> SUFFICES ASSUME Init, NEW j \in Jobs
               PROVE  Counted(job[j], level[j], at[j], stored[j])
      BY DEF CountInv
  <1>1. level[j] = Top(job[j]) /\ at[j] = "submit"  BY DEF Init
  <1>2. Passed(job[j], level[j]) = {}  BY <1>1 DEF Passed, Top
  <1> QED  BY <1>1, <1>2 DEF Counted, InHandler

LEMMA Counting == Spec => []CountInv
  BY CountInit, CountStep, NetclientsTypeCorrect, PTL DEF Spec

\* The pod of a labelled workload has one netclient and that of another none,
\* however often and in what order the objects above it are admitted.
THEOREM OnePerPod == Spec => []OneNetclient
  <1>1. TypeOK /\ CountInv => OneNetclient
    <2> SUFFICES ASSUME TypeOK, CountInv, NEW j \in Jobs, level[j] = "done"
                 PROVE  stored[j]["pod"].netclients =
                          IF job[j].kind = "proxy" \/ Labelled(job[j]) THEN 1 ELSE 0
        BY DEF OneNetclient, Done
    <2>1. job[j] \in Workload /\ job[j] \in Workloads
          BY JobTyped DEF TypeOK
    <2>2. "pod" \in Passed(job[j], "done")
          BY <2>1, ChainLevels DEF Passed, Workload
    <2>3. stored[j]["pod"].netclients = Expected(job[j], "pod")
          BY <2>2 DEF CountInv, Counted
    <2>4. Expected(job[j], "pod") =
            IF job[j].kind = "proxy" \/ Labelled(job[j]) THEN 1 ELSE 0
      <3>1. job[j].kind \in {"proxy", "pod", "set", "deployment"}
            BY <2>1 DEF Workload
      <3>2. job[j].kind = "pod" => ~job[j].onTemplate
            BY <2>1, NetclientsAssumption
      <3> QED  BY <3>1, <3>2 DEF Expected, Top, Labelled
    <2> QED  BY <2>3, <2>4
  <1> QED  BY <1>1, Counting, NetclientsTypeCorrect, PTL

\* The ReplicaSet of a Deployment that is labelled itself has its very template.
THEOREM ReplicaSetsMatch == Spec => []ReplicaSetKeepsTemplate
  <1>1. TypeOK /\ CountInv => ReplicaSetKeepsTemplate
    <2> SUFFICES ASSUME TypeOK, CountInv, NEW j \in Jobs,
                        job[j].kind = "deployment", job[j].onObject,
                        level[j] \in {"pod", "done"}
                 PROVE  stored[j]["replicaset"] = stored[j]["deployment"]
        BY DEF ReplicaSetKeepsTemplate
    <2>1. job[j] \in Workload  BY JobTyped
    <2>2. "replicaset" \in Passed(job[j], level[j])
          BY <2>1, ChainLevels DEF Passed, Top
    <2> QED  BY <2>2 DEF CountInv, Counted
  <1> QED  BY <1>1, Counting, NetclientsTypeCorrect, PTL

-----------------------------------------------------------------------------
(* A proxy's token                                                           *)

\* TokenFound, of the token t and the versions win of a history p of Secrets.
Found(t, win, p) ==
  /\ t = NoToken =>
       \/ \E v \in win.from .. win.to : \A q \in Places : p[v][q] = NoToken
       \/ \E v \in win.from .. win.to, u \in win.from .. win.to :
            v < u /\ p[v]["own"] # NoToken /\ p[u]["own"] = NoToken
  /\ t = "secretKeyRef" => \E v \in win.from .. win.to : p[v]["own"] # NoToken
  /\ t \in Tokens =>
       /\ \E v \in win.from .. win.to : p[v]["own"] = NoToken
       /\ \E v \in win.from .. win.to, q \in Places : p[v][q] = t

\* What the reads so far have shown, with tok read and the cache at version v.
\* Before the last read the token is that of the Service's namespace, or that
\* namespace had none.
Looked(lv, place, tok, win, t, p, v) ==
  /\ place \in {"operator", "env"} \/ lv = "done"
       => 1 =< win.from /\ win.from =< win.to /\ win.to =< v
  /\ place = "operator" => p[win.from]["own"] = NoToken
  /\ place = "env" =>
       \/ tok \in Tokens /\ p[win.from]["own"] = tok
       \/ p[win.from]["own"] = NoToken /\ tok = p[win.to]["operator"]
  /\ lv = "done" => Found(t, win, p)

LookInv ==
  \A j \in Jobs :
    job[j].kind = "proxy" =>
      Looked(level[j], at[j], token[j], window[j], stored[j]["pod"].token, past, view)

\* Windows over m versions.
Versions(m) == [from : 0 .. m, to : 0 .. m]

\* What was seen stays true when the history and the cache go on.
LEMMA LookPersists ==
  ASSUME NEW lv, NEW place, NEW tok, NEW t,
         NEW p \in Seq(Secrets), NEW q \in Seq(Secrets),
         NEW v \in 1 .. Len(p), NEW u \in Nat, v =< u, Len(p) =< Len(q),
         \A n \in 1 .. Len(p) : q[n] = p[n],
         NEW win \in Versions(Len(p)),
         Looked(lv, place, tok, win, t, p, v)
  PROVE  Looked(lv, place, tok, win, t, q, u)
  <1>1. win.from \in Nat /\ win.to \in Nat /\ Len(p) \in Nat /\ v \in Nat
        BY DEF Versions
  <1>2. CASE place \in {"operator", "env"} \/ lv = "done"
    <2>1. 1 =< win.from /\ win.from =< win.to /\ win.to =< v  BY <1>2 DEF Looked
    <2>2. win.from \in 1 .. Len(p) /\ win.to \in 1 .. Len(p) /\ win.to =< u
          BY <1>1, <2>1
    <2>3. \A n \in win.from .. win.to : q[n] = p[n]  BY <1>1, <2>1, <2>2
    <2>4. Found(t, win, p) => Found(t, win, q)  BY <2>3 DEF Found
    <2>5. q[win.from] = p[win.from] /\ q[win.to] = p[win.to]  BY <2>2
    <2> QED  BY <2>1, <2>2, <2>4, <2>5 DEF Looked
  <1>3. CASE ~(place \in {"operator", "env"} \/ lv = "done")
        BY <1>3 DEF Looked
  <1> QED  BY <1>2, <1>3

\* The last read.
LEMMA LastRead ==
  ASSUME NEW p \in Seq(Secrets), NEW v \in 1 .. Len(p),
         NEW tok \in Tokens \cup {NoToken}, NEW win \in Versions(Len(p)), NEW t,
         1 =< win.from, win.from =< win.to, win.to =< v,
         \/ tok \in Tokens /\ p[win.from]["own"] = tok
         \/ p[win.from]["own"] = NoToken /\ tok = p[win.to]["operator"],
         t = IF p[v]["own"] # NoToken THEN "secretKeyRef" ELSE tok
  PROVE  Found(t, [win EXCEPT !.to = v], p)
  <1> DEFINE new == [win EXCEPT !.to = v]
  <1>1. win.from \in Nat /\ win.to \in Nat /\ Len(p) \in Nat /\ v \in Nat
        BY DEF Versions
  <1>2. new.from = win.from /\ new.to = v  BY DEF Versions
  <1> HIDE DEF new
  <1>3. /\ win.from \in new.from .. new.to /\ win.to \in new.from .. new.to
        /\ v \in new.from .. new.to
        BY <1>1, <1>2
  <1>4. "own" \in Places /\ "operator" \in Places /\ \A q \in Places : q \in {"own", "operator"}
        BY DEF Places
  <1>5. CASE p[v]["own"] # NoToken
    <2>1. t = "secretKeyRef"  BY <1>5
    <2>2. t \notin Tokens /\ t # NoToken  BY <2>1, NetclientsAssumption
    <2> QED  BY <1>3, <1>5, <2>2 DEF Found, new
  <1>6. CASE p[v]["own"] = NoToken
    <2>1. t = tok /\ t # "secretKeyRef"  BY <1>6, NetclientsAssumption
    <2>2. CASE t \in Tokens
      <3>1. t # NoToken  BY <2>2, NetclientsAssumption
      <3>2. \E n \in new.from .. new.to, q \in Places : p[n][q] = t
            BY <1>3, <1>4, <2>1
      <3> QED  BY <1>3, <1>6, <2>1, <3>1, <3>2 DEF Found, new
    <2>3. CASE t = NoToken
      <3>1. t \notin Tokens  BY <2>3, NetclientsAssumption
      <3>2. p[win.to]["operator"] = NoToken  BY <2>1, <2>3, <3>1
      <3>3. CASE p[win.to]["own"] = NoToken
        <4>1. \A q \in Places : p[win.to][q] = NoToken  BY <1>4, <3>2, <3>3
        <4> QED  BY <1>3, <2>1, <3>1, <4>1 DEF Found, new
      <3>4. CASE p[win.to]["own"] # NoToken
        <4>1. win.to < v  BY <1>1, <1>6, <3>4
        <4> QED  BY <1>3, <1>6, <2>1, <3>1, <3>4, <4>1 DEF Found, new
      <3> QED  BY <3>3, <3>4
    <2> QED  BY <2>1, <2>2, <2>3
  <1> QED  BY <1>5, <1>6

\* Only job j takes a step.
LEMMA LookKept ==
  ASSUME LookInv, NEW j \in Jobs, UNCHANGED <<past, view, job>>,
         \A k \in Jobs \ {j} :
           /\ level'[k] = level[k] /\ at'[k] = at[k] /\ token'[k] = token[k]
           /\ window'[k] = window[k] /\ stored'[k] = stored[k],
         job[j].kind = "proxy" =>
           Looked(level'[j], at'[j], token'[j], window'[j], stored'[j]["pod"].token,
                  past, view)
  PROVE  LookInv'
  <1>1. \A k \in Jobs :
          job'[k].kind = "proxy" =>
            Looked(level'[k], at'[k], token'[k], window'[k], stored'[k]["pod"].token,
                   past', view')
    <2> TAKE k \in Jobs
    <2>1. CASE k = j  BY <2>1
    <2>2. CASE k # j  BY <2>2 DEF LookInv
    <2> QED  BY <2>1, <2>2
  <1> QED  BY <1>1 DEF LookInv

LEMMA BuildLooks ==
  ASSUME TypeOK, LookInv, NEW j \in Jobs,
         ReadOwnSecret(j) \/ ReadOperatorSecret(j) \/ BuildEnv(j)
  PROVE  LookInv'
  <1>1. /\ past \in Seq(Secrets) /\ view \in 1 .. Len(past) /\ view \in Nat
        /\ window[j] \in Versions(Len(past))
        BY DEF TypeOK, Versions
  <1>2. \A q \in Places : Cached(q) \in Tokens \cup {NoToken} /\ Cached(q) = past[view][q]
        BY CachedTyped DEF Cached
  <1>3. "own" \in Places /\ "operator" \in Places  BY DEF Places
  <1>4. job[j].kind = "proxy" =>
          Looked(level[j], at[j], token[j], window[j], stored[j]["pod"].token, past, view)
        BY DEF LookInv
  <1>5. CASE ReadOwnSecret(j)
    <2> DEFINE l == IF Cached("own") # NoToken THEN "env" ELSE "operator"
    <2>1. /\ level[j] = "pod" /\ Go(j, l) /\ Opens(j)
          /\ token' = [token EXCEPT ![j] = Cached("own")]
          /\ UNCHANGED <<past, view, job, level, stored>>
          BY <1>5 DEF ReadOwnSecret, cluster
    <2>2. l \in Locations  BY DEF Locations
    <2>3. at'[j] = l /\ \A k \in Jobs \ {j} : at'[k] = at[k]
          BY <2>1, <2>2, GoTyped
    <2>4. window'[j] = [from |-> view, to |-> view]
          /\ \A k \in Jobs \ {j} : window'[k] = window[k]
          BY <2>1 DEF Opens, TypeOK
    <2>5. token'[j] = Cached("own") /\ \A k \in Jobs \ {j} : token'[k] = token[k]
          BY <2>1 DEF TypeOK
    <2>6. /\ window'[j].from = view /\ window'[j].to = view
          /\ 1 =< view /\ view =< view
          BY <1>1, <2>4
    <2>7. level'[j] # "done"  BY <2>1
    <2>8. CASE Cached("own") # NoToken
      <3>1. at'[j] = "env" /\ token'[j] \in Tokens
            /\ past[window'[j].from]["own"] = token'[j]
            BY <1>2, <1>3, <2>3, <2>5, <2>6, <2>8
      <3>2. Looked(level'[j], at'[j], token'[j], window'[j], stored'[j]["pod"].token,
                   past, view)
            BY <2>6, <2>7, <3>1 DEF Looked
      <3> QED  BY <2>1, <2>3, <2>4, <2>5, <3>2, LookKept
    <2>9. CASE Cached("own") = NoToken
      <3>1. at'[j] = "operator" /\ past[window'[j].from]["own"] = NoToken
            BY <1>2, <1>3, <2>3, <2>6, <2>9
      <3>2. Looked(level'[j], at'[j], token'[j], window'[j], stored'[j]["pod"].token,
                   past, view)
            BY <2>6, <2>7, <3>1 DEF Looked
      <3> QED  BY <2>1, <2>3, <2>4, <2>5, <3>2, LookKept
    <2> QED  BY <2>8, <2>9
  <1>6. CASE ReadOperatorSecret(j)
    <2>1. /\ at[j] = "operator" /\ Go(j, "env") /\ Extends(j)
          /\ token' = [token EXCEPT ![j] = Cached("operator")]
          /\ UNCHANGED <<past, view, job, level, stored>>
          BY <1>6 DEF ReadOperatorSecret, cluster
    <2>2. job[j].kind = "proxy" /\ level[j] # "done"  BY <2>1 DEF TypeOK
    <2>3. /\ 1 =< window[j].from /\ window[j].from =< window[j].to
          /\ window[j].to =< view /\ past[window[j].from]["own"] = NoToken
          BY <1>4, <2>1, <2>2 DEF Looked
    <2>4. "env" \in Locations  BY DEF Locations
    <2>5. at'[j] = "env" /\ \A k \in Jobs \ {j} : at'[k] = at[k]
          BY <2>1, <2>4, GoTyped
    <2>6. window'[j] = [window[j] EXCEPT !.to = view]
          /\ \A k \in Jobs \ {j} : window'[k] = window[k]
          BY <2>1 DEF Extends, TypeOK
    <2>7. token'[j] = past[view]["operator"]
          /\ \A k \in Jobs \ {j} : token'[k] = token[k]
          BY <1>2, <1>3, <2>1 DEF TypeOK
    <2>8. window'[j].from = window[j].from /\ window'[j].to = view
          BY <1>1, <2>6 DEF Versions
    <2>9. window[j].from \in Nat /\ window[j].to \in Nat  BY <1>1 DEF Versions
    <2>10. 1 =< window'[j].from /\ window'[j].from =< window'[j].to
           /\ window'[j].to =< view
           BY <1>1, <2>3, <2>8, <2>9
    <2>11. Looked(level'[j], at'[j], token'[j], window'[j], stored'[j]["pod"].token,
                  past, view)
           BY <2>1, <2>2, <2>3, <2>5, <2>7, <2>8, <2>10 DEF Looked
    <2> QED  BY <2>1, <2>5, <2>6, <2>7, <2>11, LookKept
  <1>7. CASE BuildEnv(j)
    <2> DEFINE t == IF Cached("own") # NoToken THEN "secretKeyRef" ELSE token[j]
               s == [netclients |-> 1, token |-> t, volume |-> "emptyDir"]
    <2>1. /\ at[j] = "env" /\ Store(j, s) /\ Extends(j)
          /\ UNCHANGED <<past, view, job>>
          BY <1>7 DEF BuildEnv, cluster
    <2>2. /\ level[j] # "done" /\ token[j] \in Tokens \cup {NoToken}
          /\ job[j].kind = "proxy"
          BY <2>1 DEF TypeOK
    <2>3. s \in PodSpec /\ s.token = t  BY <2>2 DEF PodSpec, Volumes
    <2>4. level[j] = "pod"
      <3>1. job[j] \in Workload /\ level[j] \in Chain(job[j])  BY <2>2, JobTyped
      <3> QED  BY <2>2, <3>1, ChainLevels
    <2>5. /\ 1 =< window[j].from /\ window[j].from =< window[j].to
          /\ window[j].to =< view
          /\ \/ token[j] \in Tokens /\ past[window[j].from]["own"] = token[j]
             \/ /\ past[window[j].from]["own"] = NoToken
                /\ token[j] = past[window[j].to]["operator"]
          BY <1>4, <2>1, <2>2 DEF Looked
    <2>6. t = IF past[view]["own"] # NoToken THEN "secretKeyRef" ELSE token[j]
          BY <1>2, <1>3
    <2> HIDE DEF t
    <2>7. Found(t, [window[j] EXCEPT !.to = view], past)
          BY <1>1, <2>2, <2>5, <2>6, LastRead
    <2>8. window'[j] = [window[j] EXCEPT !.to = view]
          /\ \A k \in Jobs \ {j} : window'[k] = window[k]
          BY <2>1 DEF Extends, TypeOK
    <2> HIDE DEF s
    <2>9. /\ stored'[j] = [stored[j] EXCEPT ![level[j]] = s]
          /\ level'[j] = Below(level[j]) /\ at'[j] = "submit"
          /\ \A k \in Jobs \ {j} :
               /\ stored'[k] = stored[k] /\ level'[k] = level[k] /\ at'[k] = at[k]
               /\ token'[k] = token[k]
          BY <2>1, <2>2, <2>3, StoreWrites
    <2>10. stored'[j]["pod"] = s
           BY <2>4, <2>9 DEF TypeOK, Levels
    <2>11. window'[j].from = window[j].from /\ window'[j].to = view
           BY <1>1, <2>8 DEF Versions
    <2>12. window[j].from \in Nat /\ window[j].to \in Nat  BY <1>1 DEF Versions
    <2>13. 1 =< window'[j].from /\ window'[j].from =< window'[j].to
           /\ window'[j].to =< view
           BY <1>1, <2>5, <2>11, <2>12
    <2>14. Found(stored'[j]["pod"].token, window'[j], past)
           BY <2>3, <2>7, <2>8, <2>10
    <2>15. Looked(level'[j], at'[j], token'[j], window'[j], stored'[j]["pod"].token,
                  past, view)
           BY <2>9, <2>13, <2>14 DEF Looked
    <2> QED  BY <2>1, <2>8, <2>9, <2>15, LookKept
  <1> QED  BY <1>5, <1>6, <1>7

\* A step of an admission leaves the other jobs alone.
LEMMA AdmissionAlone ==
  ASSUME TypeOK, NEW j \in Jobs,
         \/ NotSelected(j) \/ Handle(j) \/ ReadSecret(j) \/ GetClaim(j)
         \/ CreateClaim(j) \/ ClaimFails(j) \/ Patch(j) \/ Rejected(j)
  PROVE  /\ job[j].kind # "proxy"
         /\ UNCHANGED <<past, view, shown, lost, job, window>>
         /\ \A k \in Jobs \ {j} :
              /\ level'[k] = level[k] /\ at'[k] = at[k] /\ token'[k] = token[k]
              /\ volume'[k] = volume[k] /\ stored'[k] = stored[k]
  <1>1. job[j].kind # "proxy"
    <2>1. CASE NotSelected(j)  BY <2>1 DEF NotSelected
    <2>2. CASE Handle(j)  BY <2>2 DEF Handle
    <2>3. CASE at[j] \in {"token", "claim", "create", "patch"}  BY <2>3 DEF TypeOK
    <2> QED  BY <2>1, <2>2, <2>3 DEF ReadSecret, GetClaim, CreateClaim, ClaimFails,
                                     Patch, Rejected
  <1>2. UNCHANGED <<past, view, shown, lost, job, window>>
        BY DEF NotSelected, Handle, ReadSecret, GetClaim, CreateClaim, ClaimFails,
               Patch, Rejected, cluster
  <1> DEFINE Alone(k) ==
        /\ level'[k] = level[k] /\ at'[k] = at[k] /\ token'[k] = token[k]
        /\ volume'[k] = volume[k] /\ stored'[k] = stored[k]
  <1>3. ASSUME NEW k \in Jobs \ {j}
        PROVE  Alone(k)
    <2>1. CASE NotSelected(j)  BY <2>1 DEF NotSelected, Store, Go, TypeOK
    <2>2. CASE Handle(j)  BY <2>2 DEF Handle, Store, Go, TypeOK
    <2>3. CASE ReadSecret(j)  BY <2>3 DEF ReadSecret, Mount, Go, TypeOK
    <2>4. CASE GetClaim(j)  BY <2>4 DEF GetClaim, Mount, Go, TypeOK
    <2>5. CASE CreateClaim(j)  BY <2>5 DEF CreateClaim, Mount, Go, TypeOK
    <2>6. CASE ClaimFails(j)  BY <2>6 DEF ClaimFails, Mount, Go, TypeOK
    <2>7. CASE Patch(j)  BY <2>7 DEF Patch, Store, Go, TypeOK
    <2>8. CASE Rejected(j)  BY <2>8 DEF Rejected, Go, TypeOK
    <2> QED  BY <2>1, <2>2, <2>3, <2>4, <2>5, <2>6, <2>7, <2>8
  <1> QED  BY <1>1, <1>2, <1>3

LEMMA LookStep == TypeOK /\ LookInv /\ [Next]_vars => LookInv'
  <1> SUFFICES ASSUME TypeOK, LookInv, [Next]_vars PROVE LookInv'
      OBVIOUS
  <1>1. ASSUME NEW j \in Jobs, JobStep(j) PROVE LookInv'
    <2>1. CASE ReadOwnSecret(j) \/ ReadOperatorSecret(j) \/ BuildEnv(j)
          BY <2>1, BuildLooks
    <2>2. CASE \/ NotSelected(j) \/ Handle(j) \/ ReadSecret(j) \/ GetClaim(j)
               \/ CreateClaim(j) \/ ClaimFails(j) \/ Patch(j) \/ Rejected(j)
          BY <2>2, AdmissionAlone, LookKept
    <2> QED  BY <1>1, <2>1, <2>2 DEF JobStep
  <1>2. ASSUME UNCHANGED jobs, past' \in Seq(Secrets), view =< view', view' \in Nat,
               Len(past) =< Len(past'),
               \A n \in 1 .. Len(past) : past'[n] = past[n]
        PROVE  LookInv'
    <2>1. ASSUME NEW j \in Jobs, job'[j].kind = "proxy"
          PROVE  Looked(level'[j], at'[j], token'[j], window'[j],
                        stored'[j]["pod"].token, past', view')
      <3>1. Looked(level[j], at[j], token[j], window[j], stored[j]["pod"].token,
                   past, view)
            BY <1>2, <2>1 DEF LookInv, jobs
      <3>2. /\ past \in Seq(Secrets) /\ view \in 1 .. Len(past)
            /\ window[j] \in Versions(Len(past))
            BY DEF TypeOK, Versions
      <3>3. Looked(level[j], at[j], token[j], window[j], stored[j]["pod"].token,
                   past', view')
            BY <1>2, <3>1, <3>2, LookPersists
      <3> QED  BY <1>2, <3>3 DEF jobs
    <2> QED  BY <2>1 DEF LookInv
  <1>3. /\ past \in Seq(Secrets) /\ view \in Nat /\ Len(past) \in Nat
        BY DEF TypeOK
  <1>4. ASSUME UNCHANGED jobs, past' = past, view' \in {view, view + 1} PROVE LookInv'
    <2>1. view =< view' /\ view' \in Nat /\ Len(past) =< Len(past')
          BY <1>3, <1>4
    <2> QED  BY <1>2, <1>3, <1>4, <2>1
  <1>5. CASE SecretChanges
    <2>1. /\ past' \in Seq(Secrets) /\ Len(past') = Len(past) + 1
          /\ \A n \in 1 .. Len(past) : past'[n] = past[n]
          BY <1>5, PastGrows
    <2>2. UNCHANGED jobs /\ view' = view  BY <1>5 DEF SecretChanges
    <2>3. view =< view' /\ view' \in Nat /\ Len(past) =< Len(past')
          BY <1>3, <2>1, <2>2
    <2> QED  BY <1>2, <2>1, <2>2, <2>3
  <1>6. CASE CacheShowsSecret  BY <1>4, <1>6 DEF CacheShowsSecret
  <1>7. CASE CacheShowsClaim  BY <1>4, <1>7 DEF CacheShowsClaim
  <1>8. CASE OthersCreateClaim  BY <1>4, <1>8 DEF OthersCreateClaim
  <1>9. CASE OthersDeleteClaim  BY <1>4, <1>9 DEF OthersDeleteClaim
  <1>10. CASE UNCHANGED vars  BY <1>4, <1>10 DEF vars, cluster
  <1> QED  BY <1>1, <1>5, <1>6, <1>7, <1>8, <1>9, <1>10 DEF Next

\* A proxy is built without a token only if at some moment of its build there was
\* none, or one came into its namespace and left again; and a token that is
\* written down or referred to was there.
THEOREM TokensAreFound == Spec => []TokenFound
  <1>1. Init => LookInv
    <2> SUFFICES ASSUME Init, NEW j \in Jobs, job[j].kind = "proxy"
                 PROVE  Looked(level[j], at[j], token[j], window[j],
                               stored[j]["pod"].token, past, view)
        BY DEF LookInv
    <2>1. at[j] = "submit" /\ level[j] # "done"  BY DEF Init, Top
    <2> QED  BY <2>1 DEF Looked
  <1>2. LookInv => TokenFound
    <2> SUFFICES ASSUME LookInv, NEW j \in Jobs, job[j].kind = "proxy", Done(j)
                 PROVE  Found(stored[j]["pod"].token, window[j], past)
        BY DEF TokenFound, Found, Window, CameAndWent
    <2> QED  BY DEF LookInv, Looked, Done
  <1> QED  BY <1>1, <1>2, LookStep, NetclientsTypeCorrect, PTL DEF Spec

-----------------------------------------------------------------------------
(* An EmptyDir in the place of a claim                                       *)

\* Why w may have an EmptyDir though no call has failed: it names no claim, or
\* another than j is among those who have created the claim.
Excused(w, j, m) ==
  \/ ClaimOf(w, Injected(w)) = NoClaim
  \/ m[ClaimOf(w, Injected(w))] \ {j} # {}

\* A job creates a claim at most once, and has an EmptyDir only when excused.
Raced(w, j, lv, place, vol, objs, m) ==
  /\ \A c \in Claims : j \in m[c] => Injected(w) \in Passed(w, lv) \/ place = "patch"
  /\ vol = "emptyDir" => Excused(w, j, m)
  /\ \A l \in Passed(w, lv) : objs[l].volume = "emptyDir" => Excused(w, j, m)

RaceInv ==
  /\ \A c \in claims : makers[c] # {}
  /\ ~failed =>
       \A j \in Jobs : job[j].kind # "proxy" =>
         Raced(job[j], j, level[j], at[j], volume[j], stored[j], makers)

\* A sidecar is added to one level only.
LEMMA HandledLevel ==
  ASSUME TypeOK, CountInv, NEW j \in Jobs, at[j] \in InHandler
  PROVE  level[j] = Injected(job[j])
  <1>1. /\ job[j] \in Workload /\ level[j] \in Chain(job[j])
        /\ job[j].kind \in {"pod", "set", "deployment"}
    <2>1. level[j] # "done" /\ job[j].kind # "proxy"  BY DEF TypeOK, InHandler
    <2> QED  BY <2>1, JobTyped DEF Workload
  <1>2. Counted(job[j], level[j], at[j], stored[j])  BY DEF CountInv
  <1>3. /\ ObjectLabelled(job[j], level[j])
        /\ From(job[j], stored[j], level[j]).netclients = 0
        BY <1>2 DEF Counted
  <1>4. level[j] # Top(job[j]) =>
          /\ Above(job[j], level[j]) \in Passed(job[j], level[j])
          /\ Expected(job[j], Above(job[j], level[j])) = 0
        BY <1>1, <1>2, <1>3, PassedGrows DEF Counted, From
  <1>5. CASE job[j].onObject  BY <1>4, <1>5 DEF Expected, Injected
  <1>6. CASE ~job[j].onObject
    <2>1. level[j] # Top(job[j]) /\ job[j].onTemplate
          BY <1>3, <1>6 DEF ObjectLabelled
    <2>2. Above(job[j], level[j]) = Top(job[j])  BY <1>4, <2>1 DEF Expected
    <2> QED  BY <1>1, <1>6, <2>1, <2>2, ChainLevels
             DEF Injected, Above, Below, Top, Chain
  <1> QED  BY <1>5, <1>6

\* Claims only get more creators.
LEMMA RacedOn ==
  ASSUME NEW w \in Workload, NEW j, NEW lv, NEW place, NEW vol, NEW objs,
         NEW m, NEW n, Raced(w, j, lv, place, vol, objs, m),
         \A c \in Claims : m[c] \subseteq n[c] /\ (j \in n[c] => j \in m[c])
  PROVE  Raced(w, j, lv, place, vol, objs, n)
  <1>1. ClaimOf(w, Injected(w)) \in Claims \cup {NoClaim}
        BY NetclientsAssumption DEF ClaimOf, Workload
  <1>2. Excused(w, j, m) => Excused(w, j, n)  BY <1>1 DEF Excused
  <1> QED  BY <1>2 DEF Raced

LEMMA StoreRaced ==
  ASSUME NEW w \in Workload, NEW lv \in Chain(w), NEW j, NEW place, NEW vol,
         NEW objs \in [Levels -> PodSpec], NEW m, NEW s \in PodSpec,
         Raced(w, j, lv, place, vol, objs, m),
         s.volume = "emptyDir" => Excused(w, j, m),
         place = "patch" => lv = Injected(w)
  PROVE  Raced(w, j, Below(lv), "submit", "none", [objs EXCEPT ![lv] = s], m)
  <1> DEFINE new == [objs EXCEPT ![lv] = s]
  <1>1. /\ Passed(w, Below(lv)) = Passed(w, lv) \cup {lv}
        /\ lv \notin Passed(w, lv) /\ Passed(w, lv) \subseteq Levels
        BY PassedGrows
  <1>2. lv \in Levels  BY ChainLevels
  <1>3. new[lv] = s /\ \A l \in Levels \ {lv} : new[l] = objs[l]  BY <1>2
  <1> HIDE DEF new
  <1>4. \A l \in Passed(w, Below(lv)) : new[l].volume = "emptyDir" => Excused(w, j, m)
        BY <1>1, <1>3 DEF Raced
  <1>5. \A c \in Claims : j \in m[c] => Injected(w) \in Passed(w, Below(lv))
        BY <1>1 DEF Raced
  <1> QED  BY <1>4, <1>5 DEF Raced, new

\* What an object comes with is no EmptyDir without excuse.
LEMMA FromRaced ==
  ASSUME NEW w \in Workload, NEW lv \in Chain(w), NEW j, NEW place, NEW vol,
         NEW objs, NEW m, Raced(w, j, lv, place, vol, objs, m),
         From(w, objs, lv).volume = "emptyDir"
  PROVE  Excused(w, j, m)
  <1>1. CASE lv = Top(w)
    <2>1. From(w, objs, lv).volume \in {"none", "own"}
          BY <1>1 DEF From, Manifest, NoSpec, Workload
    <2> QED  BY <2>1
  <1>2. CASE lv # Top(w)  BY <1>2, PassedGrows DEF From, Raced
  <1> QED  BY <1>1, <1>2

\* Only job j takes a step.
LEMMA RaceKept ==
  ASSUME TypeOK, RaceInv, NEW j \in Jobs, job' = job, failed' = failed,
         \A k \in Jobs \ {j} :
           /\ level'[k] = level[k] /\ at'[k] = at[k]
           /\ volume'[k] = volume[k] /\ stored'[k] = stored[k],
         \A c \in Claims : makers[c] \subseteq makers'[c],
         \A c \in Claims, k \in Jobs \ {j} : k \in makers'[c] => k \in makers[c],
         \A c \in claims' : makers'[c] # {},
         ~failed /\ job[j].kind # "proxy"
           => Raced(job[j], j, level'[j], at'[j], volume'[j], stored'[j], makers')
  PROVE  RaceInv'
  <1>1. ASSUME ~failed, NEW k \in Jobs, job'[k].kind # "proxy"
        PROVE  Raced(job'[k], k, level'[k], at'[k], volume'[k], stored'[k], makers')
    <2>1. CASE k = j  BY <1>1, <2>1
    <2>2. CASE k # j
      <3>1. Raced(job[k], k, level[k], at[k], volume[k], stored[k], makers)
            BY <1>1 DEF RaceInv
      <3>2. job[k] \in Workload  BY JobTyped
      <3>3. \A c \in Claims : makers[c] \subseteq makers'[c]
                             /\ (k \in makers'[c] => k \in makers[c])
            BY <2>2
      <3>4. Raced(job[k], k, level[k], at[k], volume[k], stored[k], makers')
            BY <3>1, <3>2, <3>3, RacedOn
      <3>5. /\ job'[k] = job[k] /\ level'[k] = level[k] /\ at'[k] = at[k]
            /\ volume'[k] = volume[k] /\ stored'[k] = stored[k]
            BY <2>2
      <3> QED  BY <3>4, <3>5
    <2> QED  BY <2>1, <2>2
  <1> QED  BY <1>1 DEF RaceInv

\* The steps of an admission that store the present level.
LEMMA StoreRaceKept ==
  ASSUME TypeOK, CountInv, RaceInv, NEW j \in Jobs, level[j] # "done",
         NEW s \in PodSpec, Store(j, s), UNCHANGED <<cluster, job, bounds>>,
         ~failed /\ job[j].kind # "proxy" /\ s.volume = "emptyDir"
           => Excused(job[j], j, makers)
  PROVE  RaceInv'
  <1>1. job[j] \in Workload /\ level[j] \in Chain(job[j])  BY JobTyped
  <1>2. stored[j] \in [Levels -> PodSpec]  BY DEF TypeOK
  <1>3. at[j] = "patch" => level[j] = Injected(job[j])  BY HandledLevel DEF InHandler
  <1>4. /\ stored'[j] = [stored[j] EXCEPT ![level[j]] = s]
        /\ level'[j] = Below(level[j]) /\ at'[j] = "submit" /\ volume'[j] = "none"
        /\ \A k \in Jobs \ {j} :
             /\ level'[k] = level[k] /\ at'[k] = at[k]
             /\ volume'[k] = volume[k] /\ stored'[k] = stored[k]
        BY StoreWrites
  <1>5. /\ claims' = claims /\ makers' = makers /\ failed' = failed /\ job' = job
        BY DEF cluster, bounds
  <1>6. ASSUME ~failed, job[j].kind # "proxy"
        PROVE  Raced(job[j], j, level'[j], at'[j], volume'[j], stored'[j], makers')
    <2>1. Raced(job[j], j, level[j], at[j], volume[j], stored[j], makers)
          BY <1>6 DEF RaceInv
    <2>2. Raced(job[j], j, Below(level[j]), "submit", "none",
                [stored[j] EXCEPT ![level[j]] = s], makers)
          BY <1>1, <1>2, <1>3, <1>6, <2>1, StoreRaced
    <2> QED  BY <1>4, <1>5, <2>2
  <1>7. /\ \A c \in Claims : makers[c] \subseteq makers'[c]
        /\ \A c \in Claims, k \in Jobs \ {j} : k \in makers'[c] => k \in makers[c]
        /\ \A c \in claims' : makers'[c] # {}
        BY <1>5 DEF RaceInv
  <1> QED  BY <1>4, <1>5, <1>6, <1>7, RaceKept

\* The steps within a handler that create no claim.
LEMMA GoesOnRaced ==
  ASSUME TypeOK, CountInv, RaceInv, NEW j \in Jobs, level[j] # "done",
         NEW l \in Locations, Go(j, l), at[j] # "patch",
         UNCHANGED <<claims, makers, job, level, stored, failed>>,
         \A k \in Jobs \ {j} : volume'[k] = volume[k],
         ~failed /\ job[j].kind # "proxy" /\ volume'[j] = "emptyDir"
           => Excused(job[j], j, makers)
  PROVE  RaceInv'
  <1>1. at'[j] = l /\ \A k \in Jobs \ {j} : at'[k] = at[k]  BY GoTyped
  <1>2. ASSUME ~failed, job[j].kind # "proxy"
        PROVE  Raced(job[j], j, level'[j], at'[j], volume'[j], stored'[j], makers')
    <2>1. Raced(job[j], j, level[j], at[j], volume[j], stored[j], makers)
          BY <1>2 DEF RaceInv
    <2> QED  BY <1>2, <2>1 DEF Raced
  <1>3. \A k \in Jobs \ {j} :
          /\ level'[k] = level[k] /\ at'[k] = at[k]
          /\ volume'[k] = volume[k] /\ stored'[k] = stored[k]
        BY <1>1
  <1>4. /\ \A c \in Claims : makers[c] \subseteq makers'[c]
        /\ \A c \in Claims, k \in Jobs \ {j} : k \in makers'[c] => k \in makers[c]
        /\ \A c \in claims' : makers'[c] # {}
        BY DEF RaceInv
  <1> QED  BY <1>2, <1>3, <1>4, RaceKept

\* Mounting v, or what the object has already.
LEMMA MountRaced ==
  ASSUME TypeOK, RaceInv, NEW j \in Jobs, level[j] # "done", NEW v \in Volumes,
         Mount(j, v), ~failed, job[j].kind # "proxy", volume'[j] = "emptyDir",
         v = "emptyDir" => Excused(job[j], j, makers)
  PROVE  Excused(job[j], j, makers)
  <1>1. job[j] \in Workload /\ level[j] \in Chain(job[j])  BY JobTyped
  <1>2. volume'[j] = IF Given(j, level[j]).volume = "none" THEN v
                     ELSE Given(j, level[j]).volume
        BY MountTyped
  <1>3. CASE Given(j, level[j]).volume = "none"  BY <1>2, <1>3
  <1>4. CASE Given(j, level[j]).volume = "emptyDir"
    <2>1. From(job[j], stored[j], level[j]).volume = "emptyDir"
          BY <1>4, GivenIsFrom
    <2>2. Raced(job[j], j, level[j], at[j], volume[j], stored[j], makers)
          BY DEF RaceInv
    <2> QED  BY <1>1, <2>1, <2>2, FromRaced
  <1> QED  BY <1>2, <1>3, <1>4

\* Once a call has failed only the creators of claims matter.
LEMMA FailedRace ==
  ASSUME RaceInv, failed' = TRUE, UNCHANGED <<claims, makers>>
  PROVE  RaceInv'
  BY DEF RaceInv

\* The claim is created, or another has created it meanwhile.
LEMMA CreateRaced ==
  ASSUME TypeOK, CountInv, RaceInv, NEW j \in Jobs, CreateClaim(j)
  PROVE  RaceInv'
  <1> DEFINE c == ClaimOf(job[j], level[j])
  <1>1. /\ at[j] = "create" /\ Go(j, "patch")
        /\ UNCHANGED <<job, level, stored>> /\ failed' = failed
        /\ IF c \in claims
           THEN Mount(j, "emptyDir") /\ UNCHANGED <<claims, makers>>
           ELSE /\ Mount(j, c)
                /\ claims' = claims \cup {c}
                /\ makers' = [makers EXCEPT ![c] = @ \cup {j}]
        BY DEF CreateClaim, bounds
  <1>2. /\ c \in Claims /\ c \in Volumes /\ "emptyDir" \in Volumes /\ c # "emptyDir"
        /\ level[j] # "done" /\ job[j].kind # "proxy"
        BY <1>1, ClaimTyped, NetclientsAssumption DEF TypeOK, Volumes
  <1>3. level[j] = Injected(job[j]) /\ c = ClaimOf(job[j], Injected(job[j]))
        BY <1>1, HandledLevel DEF InHandler
  <1>4. job[j] \in Workload /\ level[j] \in Chain(job[j])  BY <1>2, JobTyped
  <1>5. ~failed => Raced(job[j], j, level[j], at[j], volume[j], stored[j], makers)
        BY <1>2 DEF RaceInv
  <1>6. makers \in [Claims -> SUBSET (Jobs \cup {"others"})] /\ claims \in SUBSET Claims
        BY DEF TypeOK
  <1>7. "patch" \in Locations  BY DEF Locations
  <1> HIDE DEF c
  <1>8. CASE c \in claims
    <2>1. Mount(j, "emptyDir") /\ UNCHANGED <<claims, makers>>  BY <1>1, <1>8
    <2>2. \A k \in Jobs \ {j} : volume'[k] = volume[k]  BY <1>2, <2>1, MountTyped
    <2>3. ~failed => j \notin makers[c]
      <3>1. Injected(job[j]) \notin Passed(job[j], level[j])
            BY <1>3, <1>4, PassedGrows
      <3> QED  BY <1>1, <1>2, <1>5, <3>1 DEF Raced
    <2>4. makers[c] # {}  BY <1>8 DEF RaceInv
    <2>5. ~failed => Excused(job[j], j, makers)  BY <1>3, <2>3, <2>4 DEF Excused
    <2> QED  BY <1>1, <1>2, <1>7, <2>1, <2>2, <2>5, GoesOnRaced
  <1>9. CASE c \notin claims
    <2>1. /\ Mount(j, c) /\ claims' = claims \cup {c}
          /\ makers' = [makers EXCEPT ![c] = @ \cup {j}]
          BY <1>1, <1>9
    <2>2. \A k \in Jobs \ {j} : volume'[k] = volume[k]  BY <1>2, <2>1, MountTyped
    <2>3. at'[j] = "patch" /\ \A k \in Jobs \ {j} : at'[k] = at[k]
          BY <1>1, <1>7, GoTyped
    <2>4. \A b \in Claims : makers'[b] = IF b = c THEN makers[b] \cup {j} ELSE makers[b]
          BY <1>2, <1>6, <2>1
    <2>5. /\ \A b \in Claims : makers[b] \subseteq makers'[b]
          /\ \A b \in Claims, k \in Jobs \ {j} : k \in makers'[b] => k \in makers[b]
          BY <2>4
    <2>6. \A b \in claims' : makers'[b] # {}
          BY <1>2, <1>6, <2>1, <2>4 DEF RaceInv
    <2>7. ASSUME ~failed
          PROVE  Raced(job[j], j, level'[j], at'[j], volume'[j], stored'[j], makers')
      <3>1. Raced(job[j], j, level[j], at[j], volume[j], stored[j], makers)
            BY <1>5, <2>7
      <3>2. volume'[j] = "emptyDir" => Excused(job[j], j, makers)
            BY <1>2, <2>1, <2>7, MountRaced
      <3>3. Excused(job[j], j, makers) => Excused(job[j], j, makers')
            BY <1>2, <1>3, <2>5 DEF Excused
      <3> QED  BY <1>1, <2>3, <3>1, <3>2, <3>3 DEF Raced
    <2>8. \A k \in Jobs \ {j} :
            /\ level'[k] = level[k] /\ at'[k] = at[k]
            /\ volume'[k] = volume[k] /\ stored'[k] = stored[k]
          BY <1>1, <2>2, <2>3
    <2> QED  BY <1>1, <2>5, <2>6, <2>7, <2>8, RaceKept
  <1> QED  BY <1>8, <1>9

LEMMA JobRaces ==
  ASSUME TypeOK, CountInv, RaceInv, NEW j \in Jobs, JobStep(j)
  PROVE  RaceInv'
  <1>1. "emptyDir" \in Volumes  BY DEF Volumes
  <1>2. at[j] \in InHandler => level[j] # "done" /\ job[j].kind # "proxy"
        BY DEF TypeOK, InHandler
  <1>3. ~failed /\ job[j].kind # "proxy" =>
          Raced(job[j], j, level[j], at[j], volume[j], stored[j], makers)
        BY DEF RaceInv
  <1>4. ASSUME level[j] # "done", Store(j, Given(j, level[j])),
               UNCHANGED <<cluster, job, bounds>>
        PROVE  RaceInv'
    <2>1. job[j] \in Workload /\ level[j] \in Chain(job[j])  BY <1>4, JobTyped
    <2>2. ~failed /\ job[j].kind # "proxy" /\ Given(j, level[j]).volume = "emptyDir"
            => Excused(job[j], j, makers)
          BY <1>3, <2>1, GivenIsFrom, FromRaced
    <2>3. Given(j, level[j]) \in PodSpec  BY <1>4, GivenTyped
    <2> QED  BY <1>4, <2>2, <2>3, StoreRaceKept
  <1>5. ASSUME level[j] # "done", NEW l \in Locations, Go(j, l), at[j] # "patch",
               UNCHANGED <<cluster, job, level, volume, stored, bounds>>
        PROVE  RaceInv'
    <2>1. ~failed /\ job[j].kind # "proxy" /\ volume'[j] = "emptyDir"
            => Excused(job[j], j, makers)
          BY <1>3, <1>5 DEF Raced
    <2>2. UNCHANGED <<claims, makers, job, level, stored, failed, volume>>
          BY <1>5 DEF cluster, bounds
    <2> QED  BY <1>5, <2>1, <2>2, GoesOnRaced
  <1>6. ASSUME at[j] \in InHandler, NEW l \in Locations, Go(j, l), at[j] # "patch",
               NEW v \in Volumes, Mount(j, v),
               UNCHANGED <<cluster, job, level, stored, bounds>>,
               ~failed /\ v = "emptyDir" => Excused(job[j], j, makers)
        PROVE  RaceInv'
    <2>1. ~failed /\ volume'[j] = "emptyDir" => Excused(job[j], j, makers)
          BY <1>2, <1>6, MountRaced
    <2>2. \A k \in Jobs \ {j} : volume'[k] = volume[k]  BY <1>2, <1>6, MountTyped
    <2>3. UNCHANGED <<claims, makers, job, level, stored, failed>>
          BY <1>6 DEF cluster, bounds
    <2> QED  BY <1>2, <1>6, <2>1, <2>2, <2>3, GoesOnRaced
  <1>7. CASE ReadOwnSecret(j)
    <2>1. PICK l \in {"env", "operator"} : Go(j, l)  BY <1>7 DEF ReadOwnSecret
    <2>2. l \in Locations  BY DEF Locations
    <2> QED  BY <1>5, <1>7, <2>1, <2>2 DEF ReadOwnSecret
  <1>8. CASE ReadOperatorSecret(j)
    <2>1. "env" \in Locations /\ level[j] # "done"
          BY <1>8 DEF ReadOperatorSecret, Locations, TypeOK
    <2> QED  BY <1>5, <1>8, <2>1 DEF ReadOperatorSecret
  <1>9. CASE BuildEnv(j)
    <2> DEFINE s == [netclients |-> 1,
                     token |-> IF Cached("own") # NoToken THEN "secretKeyRef"
                               ELSE token[j],
                     volume |-> "emptyDir"]
    <2>1. at[j] = "env" /\ Store(j, s) /\ UNCHANGED <<cluster, job, bounds>>
          BY <1>9 DEF BuildEnv
    <2>2. /\ level[j] # "done" /\ token[j] \in Tokens \cup {NoToken}
          /\ job[j].kind = "proxy"
          BY <2>1 DEF TypeOK
    <2>3. s \in PodSpec  BY <1>1, <2>2 DEF PodSpec
    <2> HIDE DEF s
    <2> QED  BY <2>1, <2>2, <2>3, StoreRaceKept
  <1>10. CASE NotSelected(j)  BY <1>4, <1>10 DEF NotSelected
  <1>11. CASE Handle(j)
    <2>1. /\ level[j] # "done" /\ at[j] # "patch" /\ "token" \in Locations
          /\ UNCHANGED <<cluster, job, bounds>>
          BY <1>11 DEF Handle, Locations
    <2> QED  BY <1>4, <1>5, <1>11, <2>1 DEF Handle
  <1>12. CASE ReadSecret(j)
    <2>1. /\ at[j] \in InHandler /\ at[j] # "patch"
          /\ "patch" \in Locations /\ "claim" \in Locations
          /\ UNCHANGED <<cluster, job, level, stored, bounds>>
          BY <1>12 DEF ReadSecret, InHandler, Locations
    <2>2. CASE Go(j, "claim") /\ UNCHANGED volume  BY <1>2, <1>5, <2>1, <2>2
    <2>3. CASE /\ ClaimOf(job[j], level[j]) = NoClaim
               /\ Go(j, "patch") /\ Mount(j, "emptyDir")
      <3>1. Excused(job[j], j, makers)  BY <2>1, <2>3, HandledLevel DEF Excused
      <3> QED  BY <1>1, <1>6, <2>1, <2>3, <3>1
    <2> QED  BY <1>12, <2>2, <2>3 DEF ReadSecret
  <1>13. CASE GetClaim(j)
    <2>1. /\ at[j] \in InHandler /\ at[j] # "patch"
          /\ "patch" \in Locations /\ "create" \in Locations
          /\ UNCHANGED <<cluster, job, level, stored, bounds>>
          BY <1>13 DEF GetClaim, InHandler, Locations
    <2>2. CASE Go(j, "create") /\ UNCHANGED volume  BY <1>2, <1>5, <2>1, <2>2
    <2>3. CASE Go(j, "patch") /\ Mount(j, ClaimOf(job[j], level[j]))
      <3>1. /\ ClaimOf(job[j], level[j]) \in Volumes
            /\ ClaimOf(job[j], level[j]) # "emptyDir"
            BY <1>13, ClaimTyped, NetclientsAssumption DEF GetClaim, TypeOK, Volumes
      <3> QED  BY <1>6, <2>1, <2>3, <3>1
    <2> QED  BY <1>13, <2>2, <2>3 DEF GetClaim
  <1>14. CASE CreateClaim(j)  BY <1>14, CreateRaced
  <1>15. CASE ClaimFails(j)  BY <1>15, FailedRace DEF ClaimFails, cluster
  <1>16. CASE Patch(j)
    <2> DEFINE s == [netclients |-> Given(j, level[j]).netclients + 1,
                     token |-> token[j], volume |-> volume[j]]
    <2>1. at[j] = "patch" /\ Store(j, s) /\ UNCHANGED <<cluster, job, bounds>>
          BY <1>16 DEF Patch
    <2>2. level[j] # "done" /\ token[j] \in Tokens \cup {NoToken}
          /\ volume[j] \in Volumes
          BY <2>1 DEF TypeOK
    <2>3. Given(j, level[j]).netclients \in Nat  BY <2>2, GivenTyped DEF PodSpec
    <2>4. s \in PodSpec  BY <2>2, <2>3 DEF PodSpec
    <2>5. ~failed /\ job[j].kind # "proxy" /\ s.volume = "emptyDir"
            => Excused(job[j], j, makers)
          BY <1>3 DEF Raced
    <2> HIDE DEF s
    <2> QED  BY <2>1, <2>2, <2>4, <2>5, StoreRaceKept
  <1>17. CASE Rejected(j)  BY <1>17, FailedRace DEF Rejected, cluster
  <1> QED  BY <1>7, <1>8, <1>9, <1>10, <1>11, <1>12, <1>13, <1>14, <1>15, <1>16,
              <1>17 DEF JobStep

LEMMA RaceStep == TypeOK /\ CountInv /\ RaceInv /\ [Next]_vars => RaceInv'
  <1> SUFFICES ASSUME TypeOK, CountInv, RaceInv, [Next]_vars PROVE RaceInv'
      OBVIOUS
  <1>1. makers \in [Claims -> SUBSET (Jobs \cup {"others"})] /\ claims \in SUBSET Claims
        BY DEF TypeOK
  <1>2. ASSUME UNCHANGED <<jobs, failed, makers>>, claims' \subseteq claims
        PROVE  RaceInv'
        BY <1>2 DEF RaceInv, jobs
  <1>3. CASE SecretChanges  BY <1>2, <1>3 DEF SecretChanges
  <1>4. CASE CacheShowsSecret  BY <1>2, <1>4 DEF CacheShowsSecret, bounds
  <1>5. CASE CacheShowsClaim  BY <1>2, <1>5 DEF CacheShowsClaim, bounds
  <1>6. CASE OthersDeleteClaim
    <2>1. claims' \subseteq claims /\ UNCHANGED <<jobs, failed, makers>>
          BY <1>6 DEF OthersDeleteClaim
    <2> QED  BY <1>2, <2>1
  <1>7. CASE OthersCreateClaim
    <2>1. PICK c \in Claims \ claims :
            /\ claims' = claims \cup {c}
            /\ makers' = [makers EXCEPT ![c] = @ \cup {"others"}]
          BY <1>7 DEF OthersCreateClaim
    <2>2. UNCHANGED <<jobs, failed>>  BY <1>7 DEF OthersCreateClaim
    <2>3. \A b \in Claims :
            makers'[b] = IF b = c THEN makers[b] \cup {"others"} ELSE makers[b]
          BY <1>1, <2>1
    <2>4. \A b \in claims' : makers'[b] # {}  BY <1>1, <2>1, <2>3 DEF RaceInv
    <2>5. ASSUME ~failed', NEW k \in Jobs, job'[k].kind # "proxy"
          PROVE  Raced(job'[k], k, level'[k], at'[k], volume'[k], stored'[k], makers')
      <3>1. Raced(job[k], k, level[k], at[k], volume[k], stored[k], makers)
            BY <2>2, <2>5 DEF RaceInv, jobs
      <3>2. job[k] \in Workload  BY JobTyped
      <3>3. k # "others"  BY NetclientsAssumption
      <3>4. \A b \in Claims : makers[b] \subseteq makers'[b]
                             /\ (k \in makers'[b] => k \in makers[b])
            BY <2>3, <3>3
      <3>5. Raced(job[k], k, level[k], at[k], volume[k], stored[k], makers')
            BY <3>1, <3>2, <3>4, RacedOn
      <3> QED  BY <2>2, <3>5 DEF jobs
    <2> QED  BY <2>4, <2>5 DEF RaceInv
  <1>8. CASE UNCHANGED vars  BY <1>2, <1>8 DEF vars, cluster, bounds
  <1> QED  BY <1>3, <1>4, <1>5, <1>6, <1>7, <1>8, JobRaces DEF Next

\* While no call fails, a workload that names a claim has an EmptyDir in its place
\* only if another has created the claim.
THEOREM EmptyDirsAreExcused == Spec => []PersistentUnlessRaced
  <1>1. Init => RaceInv
    <2> SUFFICES ASSUME Init PROVE RaceInv
        OBVIOUS
    <2>1. claims = {} /\ \A c \in Claims : makers[c] = {}  BY DEF Init
    <2>2. ASSUME NEW j \in Jobs
          PROVE  Raced(job[j], j, level[j], at[j], volume[j], stored[j], makers)
      <3>1. level[j] = Top(job[j]) /\ volume[j] = "none"  BY DEF Init
      <3>2. Passed(job[j], level[j]) = {}  BY <3>1 DEF Passed, Top
      <3> QED  BY <2>1, <3>1, <3>2 DEF Raced
    <2> QED  BY <2>1, <2>2 DEF RaceInv
  <1>2. TypeOK /\ RaceInv => PersistentUnlessRaced
    <2> SUFFICES ASSUME TypeOK, RaceInv, NEW j \in Jobs, job[j].kind # "proxy",
                        ClaimOf(job[j], Injected(job[j])) # NoClaim,
                        level[j] = "done", ~failed,
                        stored[j]["pod"].volume = "emptyDir"
                 PROVE  makers[ClaimOf(job[j], Injected(job[j]))] \ {j} # {}
        BY DEF PersistentUnlessRaced, Done
    <2>1. job[j] \in Workload  BY JobTyped
    <2>2. "pod" \in Passed(job[j], level[j])  BY <2>1, ChainLevels DEF Passed, Workload
    <2>3. Excused(job[j], j, makers)  BY <2>2 DEF RaceInv, Raced
    <2> QED  BY <2>3 DEF Excused
  <1> QED  BY <1>1, <1>2, RaceStep, Counting, NetclientsTypeCorrect, PTL DEF Spec

=============================================================================
