---------------------------- MODULE IngressProxy ----------------------------
(***************************************************************************)
(* IngressProxyReconciler: for a Service annotated netmaker.io/ingress it  *)
(* keeps a pod <service>-ingress-proxy.  It is cut at every call it makes, *)
(* like EgressProxy, and touches no Endpoints.                             *)
(***************************************************************************)
EXTENDS Controller

isIngressEnabled(v) == v.live /\ v.ingress

\* Both annotations: they conflict, and ingress is skipped.
IngressSkipped(v) == isIngressEnabled(v) /\ v.egress

IngressWanted(v) == isIngressEnabled(v) /\ ~v.egress

IngressBuildProxyPod(n, v) ==
  [inc |-> n, live |-> TRUE, built |-> v, phase |-> "Pending", deleting |-> FALSE]

\* A slip the runs must notice: the conflict with egress is not looked at.
IngressReconcile_NoConflictCheck(r, s) ==
  LET w == Begin(s, svcCache[r][s]) IN
  /\ Take(r, "ingress", s)
  /\ Continue(r, "ingress", w, IF isIngressEnabled(w.svc) THEN "ensure" ELSE "cleanup")
  /\ UNCHANGED <<running, cacheVars, restarts, faults>>
  /\ UNCHANGED clusterVars

\* Reconcile up to its first branch.  A Service that also asks for egress is
\* skipped: no pod is created for it, and one that is there is not removed.
IngressReconcile(r, s) ==
  LET v == svcCache[r][s]
      w == Begin(s, v)
  IN
  /\ Take(r, "ingress", s)
  /\ \/ /\ ~isIngressEnabled(v)
        /\ Continue(r, "ingress", w, "cleanup")
     \/ /\ IngressSkipped(v)
        /\ Done(r, "ingress", s, v)
     \/ /\ IngressWanted(v)
        /\ Continue(r, "ingress", w, "ensure")
  /\ UNCHANGED <<running, cacheVars, restarts, faults>>
  /\ UNCHANGED clusterVars

\* The reconcile of ingress ends with the answer to its last request.
IngressAnswered(r) ==
  LET w == work[r]["ingress"] IN
  \/ Done(r, "ingress", w.key, w.svc) /\ UNCHANGED <<queue, faults>>
  \/ AnswerLost(r, "ingress")

\* ensureProxyPod: Get of the pod; needsIngressUpdate always answers FALSE, so
\* a pod that exists ends the reconcile.
IngressEnsureProxyPod(r) ==
  LET w == work[r]["ingress"] IN
  /\ w.at = "ensure"
  /\ IF podCache[r]["ingress"][w.key].live
       THEN Done(r, "ingress", w.key, w.svc)
       ELSE Continue(r, "ingress", w, "create")
  /\ UNCHANGED <<running, cacheVars, queue, restarts, faults>>
  /\ UNCHANGED clusterVars

\* ensureProxyPod: Create of the pod.
IngressCreateProxyPod(r) ==
  LET w == work[r]["ingress"]
      p == pod["ingress"][w.key]
  IN
  /\ w.at = "create"
  /\ \/ /\ p.live
        /\ Retry(r, "ingress")
        /\ UNCHANGED <<pod, faults>>
     \/ /\ ~p.live
        /\ p.inc < MaxPods
        /\ pod' = [pod EXCEPT !["ingress"][w.key] = IngressBuildProxyPod(p.inc + 1, w.svc)]
        /\ IngressAnswered(r)
  /\ UNCHANGED <<running, cacheVars, restarts>>
  /\ UNCHANGED <<svc, eps, epsDue, disruptions, ran>>

\* cleanupProxyPod: Get of the pod.
IngressCleanupProxyPod(r) ==
  LET w == work[r]["ingress"] IN
  /\ w.at = "cleanup"
  /\ IF podCache[r]["ingress"][w.key].live
       THEN Continue(r, "ingress", w, "delete")
       ELSE Done(r, "ingress", w.key, w.svc)
  /\ UNCHANGED <<running, cacheVars, queue, restarts, faults>>
  /\ UNCHANGED clusterVars

\* cleanupProxyPod: Delete of whatever pod has the name now.
IngressDeleteProxyPod(r) ==
  LET w == work[r]["ingress"] IN
  /\ w.at = "delete"
  /\ \/ /\ ~pod["ingress"][w.key].live
        /\ Retry(r, "ingress")
        /\ UNCHANGED <<pod, faults>>
     \/ /\ pod["ingress"][w.key].live
        /\ pod' = [pod EXCEPT !["ingress"][w.key].deleting = TRUE]
        /\ IngressAnswered(r)
  /\ UNCHANGED <<running, cacheVars, restarts>>
  /\ UNCHANGED <<svc, eps, epsDue, disruptions, ran>>

\* The reconcile in progress makes its next call.
IngressStep(r) ==
  \/ IngressEnsureProxyPod(r)
  \/ IngressCreateProxyPod(r)
  \/ IngressCleanupProxyPod(r)
  \/ IngressDeleteProxyPod(r)
=============================================================================
