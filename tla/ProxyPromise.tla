---------------------------- MODULE ProxyPromise ----------------------------
(***************************************************************************)
(* What the operator promises to the owner of a Service, with no replica,  *)
(* cache, queue or reconcile in it: which proxy a Service may have, when   *)
(* it may be taken away, and which pod the Endpoints may name.             *)
(***************************************************************************)
EXTENDS Naturals

CONSTANTS
  Services,
  Kinds,     \* "egress" and "ingress"
  NoTarget   \* the target of a Service that names none

VARIABLES
  service,   \* service[s]: the present version of s
  proxy,     \* proxy[k][s]: the n-th proxy of kind k made for s, its state, and
             \* the version it is, or was, made of
  route,     \* route[s]: the number of the proxy that gets the traffic, or 0
  served,    \* served[s]: the egress proxies of s that have run
  losses     \* how many proxies others have taken away

vars == <<service, proxy, route, served, losses>>

\* Version v asks for a proxy of kind k.
Asks(k, v) ==
  /\ v.live
  /\ k = "egress" => v.egress /\ v.target # NoTarget
  /\ k = "ingress" => v.ingress /\ ~v.egress

\* Version a is b or an earlier one.
UpTo(a, b) == a = b \/ a.rv < b.rv

\* A proxy that has not been made yet.
None(v) == [state |-> "none", n |-> 0, of |-> v]

Init ==
  /\ \A k \in Kinds, s \in Services : proxy[k][s] = None(service[s])
  /\ route = [s \in Services |-> 0]
  /\ served = [s \in Services |-> {}]
  /\ losses = 0

\* The owner of s changes, deletes or creates it.
Change(s) ==
  /\ service[s].rv < service'[s].rv
  /\ service' = [service EXCEPT ![s] = service'[s]]
  /\ UNCHANGED <<proxy, route, served, losses>>

\* s gets a proxy it has asked for, at present or in an earlier version, but not
\* in one earlier than that of the proxy it had before.
Build(k, s) ==
  LET v == proxy'[k][s].of IN
  /\ proxy[k][s].state = "none"
  /\ Asks(k, v)
  /\ UpTo(v, service[s])
  /\ UpTo(proxy[k][s].of, v)
  /\ proxy' = [proxy EXCEPT ![k][s] =
                 [state |-> "up", n |-> proxy[k][s].n + 1, of |-> v]]
  /\ UNCHANGED <<service, route, served, losses>>

\* A proxy is taken away, but never from the version it was made of.
Withdraw(k, s) ==
  /\ proxy[k][s].state = "up"
  /\ proxy[k][s].of.rv < service[s].rv
  /\ proxy' = [proxy EXCEPT ![k][s].state = "stopping"]
  /\ UNCHANGED <<service, route, served, losses>>

\* Somebody else takes a proxy away, or its node does.
Lose(k, s) ==
  /\ proxy[k][s].state # "none"
  /\ losses' = losses + 1
  /\ \/ UNCHANGED proxy
     \/ /\ proxy[k][s].state = "up"
        /\ proxy' = [proxy EXCEPT ![k][s].state = "stopping"]
  /\ UNCHANGED <<service, route, served>>

\* A proxy that was taken away is gone.
Vanish(k, s) ==
  /\ proxy[k][s].state = "stopping"
  /\ proxy' = [proxy EXCEPT ![k][s].state = "none"]
  /\ UNCHANGED <<service, route, served, losses>>

\* An egress proxy begins to run.
Serve(s) ==
  /\ proxy["egress"][s].state = "up"
  /\ served' = [served EXCEPT ![s] = @ \cup {proxy["egress"][s].n}]
  /\ UNCHANGED <<service, proxy, route, losses>>

\* The traffic of s goes to a proxy that has run, and never back to one that
\* came before the one it went to.
Route(s) ==
  /\ route'[s] \in served[s]
  /\ route[s] < route'[s]
  /\ route' = [route EXCEPT ![s] = route'[s]]
  /\ UNCHANGED <<service, proxy, served, losses>>

\* A Service that is gone loses its route.
Unroute(s) ==
  /\ ~service[s].live
  /\ route' = [route EXCEPT ![s] = 0]
  /\ UNCHANGED <<service, proxy, served, losses>>

Next ==
  \E s \in Services :
    \/ Change(s) \/ Serve(s) \/ Route(s) \/ Unroute(s)
    \/ \E k \in Kinds : Build(k, s) \/ Withdraw(k, s) \/ Lose(k, s) \/ Vanish(k, s)

Spec == Init /\ [][Next]_vars
=============================================================================
