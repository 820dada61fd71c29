----------------------------- MODULE MCProxyPorts -----------------------------
(***************************************************************************)
(* A small instance of ProxyPorts for TLC: one or two ports, that map to   *)
(* themselves, to the number of another port, or to a name, and edits that *)
(* keep one of them while the other comes, goes or is mapped elsewhere.    *)
(***************************************************************************)
EXTENDS ProxyPorts

Port(n, p, t) == [name |-> n, port |-> p, targetPort |-> t]

MCPortLists ==
  {{Port("http", 80, 80)},
   {Port("http", 80, 80), Port("admin", 8080, 443)},
   {Port("http", 80, 80), Port("admin", 443, 0)},
   {Port("http", 80, 8080)},
   {Port("http", 8080, 0)},
   {Port("http", 80, 8080), Port("admin", 8080, 80)},
   {Port("http", 80, 8080), Port("tls", 443, 8080)}}
=============================================================================
