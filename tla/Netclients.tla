----------------------------- MODULE Netclients ------------------------------
(***************************************************************************)
(* The netclient containers the operator puts into pods, and the Secrets   *)
(* and volume claims it looks up for them: those of its own proxy pods,    *)
(* and the sidecars its mutating webhook adds to labelled workloads.  The  *)
(* two controllers build a proxy pod alike; main.go:220-247 leaves the     *)
(* webhook unregistered, and it is modelled as its configuration would     *)
(* have it called.                                                         *)
(*                                                                         *)
(* Reconciles and admissions run concurrently.  They read through a cache, *)
(* which shows an earlier moment of the cluster.                           *)
(***************************************************************************)
EXTENDS Naturals, Sequences

CONSTANTS
  Jobs,         \* one proxy pod to be built, or one workload to be admitted
  Workloads,    \* what a job may be about
  Tokens,
  NoToken,      \* no Secret, or none with the key (one with an empty value is
                \* left out); as a token, the empty one
  EnvToken,     \* NETCLIENT_TOKEN of the webhook
  Claims,       \* names of volume claims
  NoClaim,
  EnvClaim,     \* NETCLIENT_PVC_NAME of the webhook
  MaxEvents     \* bound: calls that fail, and what others do to Secrets and claims

\* The namespaces of the pod and of the operator.
Places == {"own", "operator"}

\* A Deployment has ReplicaSets, a "set" (StatefulSet, DaemonSet or Job) has pods.
\* A pod has no template.
Workload ==
  [kind : {"proxy", "pod", "set", "deployment"},
   onObject : BOOLEAN, onTemplate : BOOLEAN,   \* netmaker.io/netclient: enabled
   objectClaim : Claims \cup {NoClaim},        \* netmaker.io/pvc-name
   templateClaim : Claims \cup {NoClaim},
   secret : Places,                            \* where its labels have it look
   volume : {"none", "own"}]                   \* brings etc-netclient itself

ASSUME NetclientsAssumption ==
  /\ Workloads \subseteq Workload
  /\ \A w \in Workloads :
        w.kind = "pod" => ~w.onTemplate /\ w.templateClaim = NoClaim
  /\ NoToken \notin Tokens /\ EnvToken \in Tokens \cup {NoToken}
  /\ "secretKeyRef" \notin Tokens \cup {NoToken}
  /\ NoClaim \notin Claims /\ EnvClaim \in Claims \cup {NoClaim}
  /\ Claims \cap {"none", "own", "emptyDir"} = {}
  /\ "others" \notin Jobs
  /\ MaxEvents \in Nat

VARIABLES
  past,    \* past[v]: version v of the Secrets, the token at each place
  view,    \* the version the cache shows
  claims,  \* the claims there are
  shown,   \* the claims the cache shows
  makers,  \* history: makers[c]: who has created claim c
  lost,    \* history: the claims users have deleted
  job,     \* job[j]: what j is about
  level,   \* level[j]: the object of j to be admitted next
  at,      \* at[j]: where its handler or its build is
  token,   \* token[j]: the token read so far
  volume,  \* volume[j]: the volume for /etc/netclient
  window,  \* history: window[j]: the versions between the first and the last
           \* read for a proxy
  stored,  \* stored[j][l]: the pod spec in the object of level l, once admitted
  failed,  \* history: a call has failed
  events

cluster == <<past, view, claims, shown, makers, lost>>
jobs == <<job, level, at, token, volume, window, stored>>
bounds == <<failed, events>>
vars == <<cluster, jobs, bounds>>

Levels == {"deployment", "replicaset", "set", "pod"}
Volumes == Claims \cup {"none", "own", "emptyDir"}
PodSpec == [netclients : Nat,
            token : Tokens \cup {NoToken, "secretKeyRef"},
            volume : Volumes]
NoSpec == [netclients |-> 0, token |-> NoToken, volume |-> "none"]
Secrets == [Places -> Tokens \cup {NoToken}]

\* The pod spec as its owner wrote it.
Manifest(w) == [NoSpec EXCEPT !.volume = w.volume]

\* Where the chain of owners begins, and what is below an object of a level.
Top(w) == IF w.kind \in {"deployment", "set"} THEN w.kind ELSE "pod"
Below(l) == IF l = "deployment" THEN "replicaset"
            ELSE IF l = "pod" THEN "done" ELSE "pod"
Above(w, l) == IF l = "pod" /\ w.kind = "deployment" THEN "replicaset" ELSE w.kind

Chain(w) == {Top(w), Below(Top(w)), "pod"} \ {"done"}

\* The pod spec an object of level l comes with.
Given(j, l) == IF l = Top(job[j]) THEN Manifest(job[j])
               ELSE stored[j][Above(job[j], l)]

\* The labels of the object itself: a ReplicaSet and a pod take theirs from the
\* template.
ObjectLabelled(w, l) == IF l = Top(w) THEN w.onObject ELSE w.onTemplate

\* A slip the runs must notice: object and template must both be labelled.
HasLabel_Both(w, l) == ObjectLabelled(w, l) /\ (l # "pod" => w.onTemplate)

\* hasNetclientLabel, of the object or of its template.
HasLabel(w, l) == ObjectLabelled(w, l) \/ (l # "pod" /\ w.onTemplate)

\* mergeAnnotations, then getPVCNameFromPod.  A ReplicaSet has the annotations of
\* its Deployment, a pod those of the template.
ClaimOf(w, l) ==
  LET object == IF l = "pod" /\ w.kind # "pod" THEN NoClaim ELSE w.objectClaim
      named == IF w.templateClaim # NoClaim THEN w.templateClaim ELSE object
  IN  IF named # NoClaim THEN named ELSE EnvClaim

TypeOK ==
  /\ past \in Seq(Secrets)
  /\ view \in 1 .. Len(past)
  /\ claims \in SUBSET Claims /\ shown \in SUBSET Claims /\ lost \in SUBSET Claims
  /\ makers \in [Claims -> SUBSET (Jobs \cup {"others"})]
  /\ job \in [Jobs -> Workloads]
  /\ level \in [Jobs -> Levels \cup {"done"}]
  /\ at \in [Jobs -> {"submit", "operator", "env",
                      "token", "claim", "create", "patch"}]
  /\ token \in [Jobs -> Tokens \cup {NoToken}]
  /\ volume \in [Jobs -> Volumes]
  /\ window \in [Jobs -> [from : 0 .. Len(past), to : 0 .. Len(past)]]
  /\ stored \in [Jobs -> [Levels -> PodSpec]]
  /\ failed \in BOOLEAN
  /\ events \in 0 .. MaxEvents
  /\ \A j \in Jobs :
       /\ level[j] \in Chain(job[j]) \cup {"done"}
       /\ at[j] # "submit" => level[j] # "done"
       /\ at[j] \in {"token", "claim", "create", "patch"} => job[j].kind # "proxy"
       /\ at[j] \in {"claim", "create"} => ClaimOf(job[j], level[j]) # NoClaim
       /\ at[j] \in {"operator", "env"} => job[j].kind = "proxy"

Init ==
  /\ \E m \in Secrets : past = <<m>>
  /\ view = 1
  /\ claims = {} /\ shown = {} /\ lost = {}
  /\ makers = [c \in Claims |-> {}]
  /\ job \in [Jobs -> Workloads]
  /\ level = [j \in Jobs |-> Top(job[j])]
  /\ at = [j \in Jobs |-> "submit"]
  /\ token = [j \in Jobs |-> NoToken]
  /\ volume = [j \in Jobs |-> "none"]
  /\ window = [j \in Jobs |-> [from |-> 0, to |-> 0]]
  /\ stored = [j \in Jobs |-> [l \in Levels |-> NoSpec]]
  /\ failed = FALSE /\ events = 0

-----------------------------------------------------------------------------
(* Steps of a job                                                            *)

\* The token at place p, as the cache shows it.
Cached(p) == past[view][p]

Go(j, place) == at' = [at EXCEPT ![j] = place]
Opens(j) == window' = [window EXCEPT ![j] = [from |-> view, to |-> view]]
Extends(j) == window' = [window EXCEPT ![j].to = view]

Count == events < MaxEvents /\ events' = events + 1

\* The object of the present level is stored with spec s, and what is below it
\* comes next.
Store(j, s) ==
  /\ stored' = [stored EXCEPT ![j][level[j]] = s]
  /\ level' = [level EXCEPT ![j] = Below(level[j])]
  /\ Go(j, "submit")
  /\ token' = [token EXCEPT ![j] = NoToken]
  /\ volume' = [volume EXCEPT ![j] = "none"]

-----------------------------------------------------------------------------
(* A proxy pod: getNetclientToken and buildNetclientEnvVars                  *)

\* getNetclientToken looks in the namespace of the Service first.
ReadOwnSecret(j) ==
  /\ job[j].kind = "proxy" /\ level[j] = "pod" /\ at[j] = "submit"
  /\ token' = [token EXCEPT ![j] = Cached("own")]
  /\ Go(j, IF Cached("own") # NoToken THEN "env" ELSE "operator")
  /\ Opens(j)
  /\ UNCHANGED <<cluster, job, level, volume, stored, bounds>>

\* Then in that of the operator.
ReadOperatorSecret(j) ==
  /\ at[j] = "operator"
  /\ token' = [token EXCEPT ![j] = Cached("operator")]
  /\ Go(j, "env")
  /\ Extends(j)
  /\ UNCHANGED <<cluster, job, level, volume, stored, bounds>>

\* A slip the runs must notice: the Secret is not read a second time.
BuildEnv_Once(j) ==
  /\ at[j] = "env"
  /\ Store(j, [netclients |-> 1, token |-> token[j], volume |-> "emptyDir"])
  /\ Extends(j)
  /\ UNCHANGED <<cluster, job, bounds>>

\* buildNetclientEnvVars reads the Secret of the Service's namespace again, and
\* refers to it if it is there.  Else it writes down the token it was given,
\* which may be empty.
BuildEnv(j) ==
  /\ at[j] = "env"
  /\ Store(j, [netclients |-> 1,
               token |-> IF Cached("own") # NoToken THEN "secretKeyRef" ELSE token[j],
               volume |-> "emptyDir"])
  /\ Extends(j)
  /\ UNCHANGED <<cluster, job, bounds>>

-----------------------------------------------------------------------------
(* An admission: Handle, and the API server that calls it                    *)

\* The objectSelector asks for the label on the object itself.
NotSelected(j) ==
  /\ job[j].kind # "proxy" /\ level[j] # "done" /\ at[j] = "submit"
  /\ ~ObjectLabelled(job[j], level[j])
  /\ Store(j, Given(j, level[j]))
  /\ UNCHANGED <<cluster, job, window, bounds>>

\* A slip the runs must notice: a sidecar that is there is not looked for.
Handle_AddsAgain(j) ==
  /\ job[j].kind # "proxy" /\ level[j] # "done" /\ at[j] = "submit"
  /\ ObjectLabelled(job[j], level[j])
  /\ Go(j, "token")
  /\ UNCHANGED <<cluster, job, level, token, volume, window, stored, bounds>>

\* The webhook is called.  It leaves an object that is not labelled or that has a
\* netclient as it is.
Handle(j) ==
  /\ job[j].kind # "proxy" /\ level[j] # "done" /\ at[j] = "submit"
  /\ ObjectLabelled(job[j], level[j])
  /\ IF HasLabel(job[j], level[j]) /\ Given(j, level[j]).netclients = 0
     THEN Go(j, "token") /\ UNCHANGED <<level, token, volume, stored>>
     ELSE Store(j, Given(j, level[j]))
  /\ UNCHANGED <<cluster, job, window, bounds>>

\* What ensurePVCExists and the volumes that are there come to.
Mount(j, v) ==
  volume' = [volume EXCEPT ![j] =
               IF Given(j, level[j]).volume = "none" THEN v
               ELSE Given(j, level[j]).volume]

\* A slip the runs must notice: a claim is ensured though none is named.
ReadSecret_AnyClaim(j) ==
  /\ at[j] = "token"
  /\ token' = [token EXCEPT ![j] = Cached(job[j].secret)]
  /\ Go(j, "claim")
  /\ UNCHANGED <<cluster, job, level, volume, window, stored, bounds>>

\* getNetclientTokenFromSecret, with NETCLIENT_TOKEN to fall back to.
ReadSecret(j) ==
  /\ at[j] = "token"
  /\ token' = [token EXCEPT ![j] = IF Cached(job[j].secret) # NoToken
                                   THEN Cached(job[j].secret) ELSE EnvToken]
  /\ IF ClaimOf(job[j], level[j]) = NoClaim
     THEN Go(j, "patch") /\ Mount(j, "emptyDir")
     ELSE Go(j, "claim") /\ UNCHANGED volume
  /\ UNCHANGED <<cluster, job, level, window, stored, bounds>>

\* A slip the runs must notice: a claim that is not there is not created.
GetClaim_NoCreate(j) ==
  /\ at[j] = "claim"
  /\ Go(j, "patch")
  /\ Mount(j, IF ClaimOf(job[j], level[j]) \in shown
              THEN ClaimOf(job[j], level[j]) ELSE "emptyDir")
  /\ UNCHANGED <<cluster, job, level, token, window, stored, bounds>>

\* ensurePVCExists looks whether the claim is there.
GetClaim(j) ==
  /\ at[j] = "claim"
  /\ IF ClaimOf(job[j], level[j]) \in shown
     THEN Go(j, "patch") /\ Mount(j, ClaimOf(job[j], level[j]))
     ELSE Go(j, "create") /\ UNCHANGED volume
  /\ UNCHANGED <<cluster, job, level, token, window, stored, bounds>>

\* It is not: it is created.  A claim that exists after all is an error, and the
\* volume becomes an EmptyDir.
CreateClaim(j) ==
  LET c == ClaimOf(job[j], level[j]) IN
  /\ at[j] = "create"
  /\ Go(j, "patch")
  /\ IF c \in claims
     THEN Mount(j, "emptyDir") /\ UNCHANGED <<claims, makers>>
     ELSE /\ Mount(j, c)
          /\ claims' = claims \cup {c}
          /\ makers' = [makers EXCEPT ![c] = @ \cup {j}]
  /\ UNCHANGED <<past, view, shown, lost, job, level, token, window, stored, bounds>>

\* A slip the runs must notice: an error is logged, and the claim mounted.
ClaimFails_LogsOnly(j) ==
  /\ at[j] \in {"claim", "create"} /\ Count
  /\ Go(j, "patch")
  /\ Mount(j, ClaimOf(job[j], level[j]))
  /\ failed' = TRUE
  /\ UNCHANGED <<cluster, job, level, token, window, stored>>

\* Either call fails for another reason: an EmptyDir again.
ClaimFails(j) ==
  /\ at[j] \in {"claim", "create"} /\ Count
  /\ Go(j, "patch")
  /\ Mount(j, "emptyDir")
  /\ failed' = TRUE
  /\ UNCHANGED <<cluster, job, level, token, window, stored>>

\* addNetclientSidecarToPodTemplate appends the container and the volumes.
Patch(j) ==
  /\ at[j] = "patch"
  /\ Store(j, [netclients |-> Given(j, level[j]).netclients + 1,
               token |-> token[j], volume |-> volume[j]])
  /\ UNCHANGED <<cluster, job, window, bounds>>

\* The call of the webhook or the write of the object fails, and with
\* failurePolicy Fail the object is submitted anew.  What the handler created
\* stays.
Rejected(j) ==
  /\ at[j] \in {"token", "claim", "create", "patch"} /\ Count
  /\ Go(j, "submit")
  /\ token' = [token EXCEPT ![j] = NoToken]
  /\ volume' = [volume EXCEPT ![j] = "none"]
  /\ failed' = TRUE
  /\ UNCHANGED <<cluster, job, level, window, stored>>

-----------------------------------------------------------------------------
(* The cluster                                                               *)

\* A Secret is created, changed or deleted.
SecretChanges ==
  /\ Count
  /\ \E p \in Places, t \in Tokens \cup {NoToken} :
        /\ past[Len(past)][p] # t
        /\ past' = Append(past, [past[Len(past)] EXCEPT ![p] = t])
  /\ UNCHANGED <<view, claims, shown, makers, lost, jobs, failed>>

\* The cache catches up with the Secrets in their order.
CacheShowsSecret ==
  /\ view < Len(past)
  /\ view' = view + 1
  /\ UNCHANGED <<past, claims, shown, makers, lost, jobs, bounds>>

\* The cache catches up with one claim.
CacheShowsClaim ==
  /\ \E c \in Claims :
        /\ (c \in claims) # (c \in shown)
        /\ shown' = IF c \in claims THEN shown \cup {c} ELSE shown \ {c}
  /\ UNCHANGED <<past, view, claims, makers, lost, jobs, bounds>>

\* Users create claims, and so does a handler whose call was given up.
OthersCreateClaim ==
  /\ Count
  /\ \E c \in Claims \ claims :
        /\ claims' = claims \cup {c}
        /\ makers' = [makers EXCEPT ![c] = @ \cup {"others"}]
  /\ UNCHANGED <<past, view, shown, lost, jobs, failed>>

\* Users delete them.
OthersDeleteClaim ==
  /\ Count
  /\ \E c \in claims : claims' = claims \ {c} /\ lost' = lost \cup {c}
  /\ UNCHANGED <<past, view, shown, makers, jobs, failed>>

JobStep(j) ==
  \/ ReadOwnSecret(j) \/ ReadOperatorSecret(j) \/ BuildEnv(j)
  \/ NotSelected(j) \/ Handle(j) \/ ReadSecret(j)
  \/ GetClaim(j) \/ CreateClaim(j) \/ ClaimFails(j)
  \/ Patch(j) \/ Rejected(j)

Next ==
  \/ \E j \in Jobs : JobStep(j)
  \/ SecretChanges \/ CacheShowsSecret \/ CacheShowsClaim
  \/ OthersCreateClaim \/ OthersDeleteClaim

Spec == Init /\ [][Next]_vars

-----------------------------------------------------------------------------
(* Properties                                                                *)

Done(j) == level[j] = "done"
Labelled(w) == w.onObject \/ w.onTemplate

\* The object of w that gets the netclient: the first that is labelled itself.
Injected(w) == IF w.onObject THEN Top(w) ELSE Below(Top(w))

\* However often the chain from a workload to its pod is admitted, rejected and
\* retried, the pod of a labelled workload has one netclient, and that of another
\* none (hasNetclientLabel, hasNetclientSidecar).
OneNetclient ==
  \A j \in Jobs :
    Done(j) => stored[j]["pod"].netclients =
                 IF job[j].kind = "proxy" \/ Labelled(job[j]) THEN 1 ELSE 0

\* A Deployment that is labelled itself gets its netclient first, and its
\* ReplicaSets have its very template: the Deployment controller, which looks for
\* a ReplicaSet with that template, finds it (handleReplicaSet).
ReplicaSetKeepsTemplate ==
  \A j \in Jobs :
    job[j].kind = "deployment" /\ job[j].onObject /\ level[j] \in {"pod", "done"}
      => stored[j]["replicaset"] = stored[j]["deployment"]

\* The versions between the first and the last read of j.
Window(j) == window[j].from .. window[j].to

\* The token moved into the namespace of the Service and out again meanwhile.
CameAndWent(j) ==
  \E v \in Window(j), u \in Window(j) :
    v < u /\ past[v]["own"] # NoToken /\ past[u]["own"] = NoToken

\* The two reads of the Secret make up for each other: a proxy gets an empty token
\* only if at some moment of its build neither namespace had one, or the token
\* came into the Service's namespace and left it again; so a token that moves once
\* is never missed.  It refers to the Secret of its own namespace only if that had
\* the key, and has another's token written down only if it had not
\* (egress_proxy_controller.go:428-459, 502-558).
TokenFound ==
  \A j \in Jobs :
    job[j].kind = "proxy" /\ Done(j) =>
      LET t == stored[j]["pod"].token IN
      /\ t = NoToken =>
           \/ \E v \in Window(j) : \A p \in Places : past[v][p] = NoToken
           \/ CameAndWent(j)
      /\ t = "secretKeyRef" => \E v \in Window(j) : past[v]["own"] # NoToken
      /\ t \in Tokens =>
           /\ \E v \in Window(j) : past[v]["own"] = NoToken
           /\ \E v \in Window(j), p \in Places : past[v][p] = t

\* A pod with a claim for its netclient has one that exists, unless a user has
\* deleted it (ensurePVCExists).
MountedClaimExists ==
  \A j \in Jobs, l \in Levels :
    stored[j][l].volume \in Claims => stored[j][l].volume \in claims \cup lost

\* While no call fails, a workload that names a claim is given an EmptyDir in its
\* place only if somebody else has created the claim; alone it always gets it
\* (mutating_webhook.go:542).
PersistentUnlessRaced ==
  \A j \in Jobs :
    LET c == ClaimOf(job[j], Injected(job[j])) IN
      /\ job[j].kind # "proxy" /\ Labelled(job[j]) /\ c # NoClaim
      /\ Done(j) /\ ~failed
      /\ stored[j]["pod"].volume = "emptyDir"
      => makers[c] \ {j} # {}
=============================================================================
