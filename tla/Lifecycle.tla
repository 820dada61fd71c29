------------------------------ MODULE Lifecycle ------------------------------
(***************************************************************************)
(* One container of the operator from start to exit: main settles          *)
(* PROXY_MODE, starts the API server, the Kubernetes proxy and the         *)
(* manager, and after SIGTERM waits for all three.  Each server first      *)
(* looks for the address of the WireGuard interface, which netclient       *)
(* brings up, changes and takes down in its own time.                      *)
(*                                                                         *)
(* Time passes in seconds, and only while every goroutine waits: what the  *)
(* code computes between two waits takes none.                             *)
(***************************************************************************)
EXTENDS Naturals

CONSTANTS
  Addresses,         \* addresses the WireGuard interface may have
  NoAddress,
  AnyAddress,        \* ":port", every interface of the pod
  ProxyModes,        \* values of PROXY_MODE; "off" stands for unset
  NoauthSpellings,   \* those that are noauth but for the case of their letters
  SleepBeforeProxy,  \* StartK8sProxy sleeps first (5 s)
  MaxRetries,        \* WIREGUARD_RETRY_MAX_ATTEMPTS (20)
  BaseDelay,         \* WIREGUARD_RETRY_BASE_DELAY_SECONDS (3)
  MaxDelay,          \* WIREGUARD_RETRY_MAX_DELAY_SECONDS (30)
  ShutdownTimeout,   \* the bound of srv.Shutdown (10 s)
  ManagerGrace,      \* controller-runtime's bound on stopping its runnables (30 s)
  MaxFaults          \* bound: ports taken, leases lost, broken configurations

ASSUME LifecycleAssumption ==
  /\ NoAddress \notin Addresses
  /\ AnyAddress \notin Addresses \cup {NoAddress}
  /\ "noauth" \in NoauthSpellings /\ NoauthSpellings \cap {"off", "auth"} = {}
  /\ SleepBeforeProxy \in Nat /\ MaxRetries \in Nat
  /\ BaseDelay \in Nat /\ MaxDelay \in Nat
  /\ ShutdownTimeout \in Nat \ {0} /\ ManagerGrace \in Nat
  /\ ManagerGrace >= ShutdownTimeout
  /\ MaxFaults \in Nat

VARIABLES
  wanted,    \* PROXY_MODE of the Deployment
  mode,      \* PROXY_MODE of the process, which main may change
  isPro,     \* history: what CheckServerProStatus answered last
  main,      \* where main is
  stage,     \* stage[s]: where the goroutine of server s is
  listener,  \* listener[s]: where its ListenAndServe is
  addr,      \* addr[s]: the address it listens on
  attempt,   \* attempt[s]: the attempt getWireGuardInterfaceIP is at
  timer,     \* timer[s]: seconds until the goroutine goes on
  busy,      \* busy[s]: a request is being served
  manager,   \* where mgr.Start is
  graceLeft, \* seconds until the manager gives its runnables up
  since,     \* seconds since SIGTERM
  seeking,   \* history: the servers that had no address yet when SIGTERM came
  exit,      \* how the process ended
  excused,   \* history: it ended because of a fault
  ip,        \* address of the WireGuard interface
  faults

procVars == <<wanted, mode, isPro, main, stage, listener, addr, attempt, timer,
              busy, manager, graceLeft, since, seeking, exit, excused, faults>>
vars == <<procVars, ip>>

Servers == {"api", "proxy"}

\* The delays between all attempts, at most.
RetryBound == IF MaxRetries = 0 THEN 0 ELSE (MaxRetries - 1) * MaxDelay

\* The wait of one server, in the worst case: it sleeps, looks for the interface
\* in vain, and drains its last request.
ServerBound == SleepBeforeProxy + RetryBound + ShutdownTimeout

\* since is not counted beyond this.
SinceCap == ServerBound + ManagerGrace + 1

TypeOK ==
  /\ wanted \in ProxyModes
  /\ mode \in ProxyModes \cup {"off", "noauth"}
  /\ isPro \in {"unknown", "pro", "notPro", "error"}
  /\ main \in {"settle", "start", "wait", "stopping"}
  /\ stage \in [Servers -> {"off", "sleep", "seek", "bind", "serve", "closing", "done"}]
  /\ listener \in [Servers -> {"off", "pending", "open", "closed"}]
  /\ addr \in [Servers -> Addresses \cup {NoAddress, AnyAddress}]
  /\ attempt \in [Servers -> Nat]
  /\ timer \in [Servers -> Nat]
  /\ busy \in [Servers -> BOOLEAN]
  /\ manager \in {"off", "running", "stopping", "done"}
  /\ graceLeft \in Nat
  /\ since \in Nat
  /\ seeking \in SUBSET Servers
  /\ exit \in {"none", "stopped", "failed", "killed"}
  /\ excused \in BOOLEAN
  /\ ip \in Addresses \cup {NoAddress}
  /\ faults \in 0 .. MaxFaults

Alive == exit = "none"
ctxDone == main = "stopping"

Init ==
  /\ wanted \in ProxyModes
  /\ mode = wanted
  /\ isPro = "unknown"
  /\ main = "settle"
  /\ stage = [s \in Servers |-> "off"]
  /\ listener = [s \in Servers |-> "off"]
  /\ addr = [s \in Servers |-> NoAddress]
  /\ attempt = [s \in Servers |-> 1]
  /\ timer = [s \in Servers |-> 0]
  /\ busy = [s \in Servers |-> FALSE]
  /\ manager = "off"
  /\ graceLeft = 0
  /\ since = 0
  /\ seeking = {}
  /\ exit = "none"
  /\ excused = FALSE
  /\ ip \in Addresses \cup {NoAddress}
  /\ faults = 0

-----------------------------------------------------------------------------
(* main *)

\* A slip the runs must notice: a failed check leaves PROXY_MODE as it is.
ModeAfterCheck_KeepsOnError(m, answer) ==
  IF m = "auth" /\ answer = "notPro" THEN "noauth" ELSE m

\* A slip the runs must notice: PROXY_MODE is set to what the server answered.
ModeAfterCheck_AsAnswered(m, answer) == answer

\* What main makes of PROXY_MODE.  The comparison is exact: another spelling of
\* auth passes through whatever the server answered.
ModeAfterCheck(m, answer) ==
  IF m # "auth" \/ answer = "pro" THEN m
  ELSE IF answer = "notPro" THEN "noauth" ELSE "off"

\* CheckServerProStatus: SERVER_HOST or API_SERVER_DOMAIN is asked once; a missing
\* name, a failed request, a bad status and a bad body are all one error.
CheckServerProStatus(answer) == answer \in {"pro", "notPro", "error"}

\* How the proxy reads PROXY_MODE, which it lowercases first: whatever is not noauth
\* is auth.
getProxyConfig(m) == IF m \in NoauthSpellings THEN "noauth" ELSE "auth"

\* main settles PROXY_MODE, before it creates the manager.
SettleMode ==
  /\ Alive /\ main = "settle"
  /\ IF mode = "off"
     THEN UNCHANGED <<mode, isPro>>
     ELSE \E answer \in {"pro", "notPro", "error"} :
            /\ CheckServerProStatus(answer)
            /\ isPro' = answer
            /\ mode' = ModeAfterCheck(mode, answer)
  /\ main' = "start"
  /\ UNCHANGED <<wanted, stage, listener, addr, attempt, timer, busy, manager,
                 graceLeft, since, seeking, exit, excused, faults, ip>>

\* main starts its goroutines and waits for a signal.
StartAll ==
  /\ Alive /\ main = "start"
  /\ main' = "wait"
  /\ manager' = "running"
  /\ IF mode = "off"
     THEN UNCHANGED <<stage, timer>>
     ELSE /\ stage' = [stage EXCEPT !["api"] = "seek", !["proxy"] = "sleep"]
          /\ timer' = [timer EXCEPT !["proxy"] = SleepBeforeProxy]
  /\ UNCHANGED <<wanted, mode, isPro, listener, addr, attempt, busy, graceLeft,
                 since, seeking, exit, excused, faults, ip>>

\* SIGINT or SIGTERM.  Before signal.Notify it kills the process; after the first
\* one nobody reads the channel, and another signal changes nothing.
Signal ==
  /\ Alive
  /\ \/ main \in {"settle", "start"} /\ exit' = "killed" /\ UNCHANGED <<main, seeking>>
     \/ /\ main = "wait" /\ main' = "stopping" /\ UNCHANGED exit
        /\ seeking' = {s \in Servers : stage[s] \in {"sleep", "seek"}}
  /\ UNCHANGED <<wanted, mode, isPro, stage, listener, addr, attempt, timer, busy,
                 manager, graceLeft, since, excused, faults, ip>>

\* A slip the runs must notice: the servers are not in the wait group.
MainReturns_NoServers ==
  /\ Alive /\ ctxDone
  /\ manager = "done"
  /\ exit' = "stopped"
  /\ UNCHANGED <<wanted, mode, isPro, main, stage, listener, addr, attempt,
                 timer, busy, manager, graceLeft, since, seeking, excused,
                 faults, ip>>

\* wg.Wait returns, and main with it.
MainReturns ==
  /\ Alive /\ ctxDone
  /\ manager = "done"
  /\ \A s \in Servers : stage[s] \in {"off", "done"}
  /\ exit' = "stopped"
  /\ UNCHANGED <<wanted, mode, isPro, main, stage, listener, addr, attempt,
                 timer, busy, manager, graceLeft, since, seeking, excused,
                 faults, ip>>

-----------------------------------------------------------------------------
(* The servers *)

\* A slip the runs must notice: the delay grows without a limit.
RetryDelay_Unlimited(n) == BaseDelay * n

\* The delay after attempt n.
RetryDelay(n) == IF BaseDelay * n > MaxDelay THEN MaxDelay ELSE BaseDelay * n

\* StartK8sProxy wakes up.
Awake ==
  /\ Alive /\ stage["proxy"] = "sleep" /\ timer["proxy"] = 0
  /\ stage' = [stage EXCEPT !["proxy"] = "seek"]
  /\ UNCHANGED <<wanted, mode, isPro, main, listener, addr, attempt, timer,
                 busy, manager, graceLeft, since, seeking, exit, excused,
                 faults, ip>>

\* The proxy cannot have a configuration of the cluster, or of its address.
ConfigFails ==
  /\ Alive /\ stage["proxy"] = "sleep" /\ timer["proxy"] = 0
  /\ faults < MaxFaults /\ faults' = faults + 1
  /\ exit' = "failed"
  /\ excused' = TRUE
  /\ UNCHANGED <<wanted, mode, isPro, main, stage, listener, addr, attempt,
                 timer, busy, manager, graceLeft, since, seeking, ip>>

\* PROXY_BIND_IP or API_BIND_IP is not set: getWireGuardInterfaceIP makes one
\* attempt.  It does not look at the context.  When net.Interfaces fails, the loop
\* goes on without a delay; when the interface is not there or its addresses cannot
\* be had, after one; when all attempts are used up, the answer is "".
FindInterface(s) ==
  /\ Alive /\ stage[s] = "seek" /\ timer[s] = 0
  /\ \/ /\ attempt[s] > MaxRetries
        /\ addr' = [addr EXCEPT ![s] = AnyAddress]
        /\ stage' = [stage EXCEPT ![s] = "bind"]
        /\ UNCHANGED <<attempt, timer>>
     \/ /\ attempt[s] <= MaxRetries /\ ip # NoAddress
        /\ addr' = [addr EXCEPT ![s] = ip]
        /\ stage' = [stage EXCEPT ![s] = "bind"]
        /\ UNCHANGED <<attempt, timer>>
     \/ /\ attempt[s] <= MaxRetries
        /\ attempt' = [attempt EXCEPT ![s] = @ + 1]
        /\ \/ UNCHANGED timer
           \/ /\ attempt[s] < MaxRetries
              /\ timer' = [timer EXCEPT ![s] = RetryDelay(attempt[s])]
        /\ UNCHANGED <<addr, stage>>
  /\ UNCHANGED <<wanted, mode, isPro, main, listener, busy, manager, graceLeft,
                 since, seeking, exit, excused, faults, ip>>

\* The server starts ListenAndServe in a goroutine and waits for the context.
StartListening(s) ==
  /\ Alive /\ stage[s] = "bind"
  /\ stage' = [stage EXCEPT ![s] = "serve"]
  /\ listener' = [listener EXCEPT ![s] = "pending"]
  /\ UNCHANGED <<wanted, mode, isPro, main, addr, attempt, timer, busy, manager,
                 graceLeft, since, seeking, exit, excused, faults, ip>>

\* ListenAndServe starts after Shutdown was called: ErrServerClosed, no failure.
ListenReturns(s) ==
  /\ Alive /\ listener[s] = "pending" /\ stage[s] \in {"closing", "done"}
  /\ listener' = [listener EXCEPT ![s] = "closed"]
  /\ UNCHANGED <<wanted, mode, isPro, main, stage, addr, attempt, timer, busy,
                 manager, graceLeft, since, seeking, exit, excused, faults, ip>>

\* The socket is bound to the address found before.
ListenOpens(s) ==
  /\ Alive /\ listener[s] = "pending" /\ stage[s] = "serve"
  /\ addr[s] \in {AnyAddress, ip}
  /\ listener' = [listener EXCEPT ![s] = "open"]
  /\ UNCHANGED <<wanted, mode, isPro, main, stage, addr, attempt, timer, busy,
                 manager, graceLeft, since, seeking, exit, excused, faults, ip>>

\* A slip the runs must notice: the failure is logged, and the process goes on.
ListenFails_LogsOnly(s) ==
  /\ Alive /\ listener[s] = "pending" /\ stage[s] = "serve"
  /\ \/ addr[s] \notin {AnyAddress, ip} /\ UNCHANGED faults
     \/ faults < MaxFaults /\ faults' = faults + 1
  /\ listener' = [listener EXCEPT ![s] = "closed"]
  /\ UNCHANGED <<wanted, mode, isPro, main, stage, addr, attempt, timer, busy,
                 manager, graceLeft, since, seeking, exit, excused, ip>>

\* It cannot be: the interface has lost the address, or the port is taken.
ListenFails(s) ==
  /\ Alive /\ listener[s] = "pending" /\ stage[s] = "serve"
  /\ \/ addr[s] \notin {AnyAddress, ip} /\ UNCHANGED faults
     \/ faults < MaxFaults /\ faults' = faults + 1
  /\ exit' = "failed"
  /\ excused' = TRUE
  /\ UNCHANGED <<wanted, mode, isPro, main, stage, listener, addr, attempt,
                 timer, busy, manager, graceLeft, since, seeking, ip>>

RequestArrives(s) ==
  /\ Alive /\ listener[s] = "open" /\ ~busy[s]
  /\ busy' = [busy EXCEPT ![s] = TRUE]
  /\ UNCHANGED <<wanted, mode, isPro, main, stage, listener, addr, attempt,
                 timer, manager, graceLeft, since, seeking, exit, excused,
                 faults, ip>>

RequestEnds(s) ==
  /\ Alive /\ busy[s]
  /\ busy' = [busy EXCEPT ![s] = FALSE]
  /\ UNCHANGED <<wanted, mode, isPro, main, stage, listener, addr, attempt,
                 timer, manager, graceLeft, since, seeking, exit, excused,
                 faults, ip>>

\* The context is cancelled: srv.Shutdown closes the listener.
ShutdownBegins(s) ==
  /\ Alive /\ stage[s] = "serve" /\ ctxDone
  /\ stage' = [stage EXCEPT ![s] = "closing"]
  /\ timer' = [timer EXCEPT ![s] = ShutdownTimeout]
  /\ listener' = [listener EXCEPT ![s] = IF @ = "open" THEN "closed" ELSE @]
  /\ UNCHANGED <<wanted, mode, isPro, main, addr, attempt, busy, manager,
                 graceLeft, since, seeking, exit, excused, faults, ip>>

\* A slip the runs must notice: Shutdown has no timeout.
ShutdownEnds_NoTimeout(s) ==
  /\ Alive /\ stage[s] = "closing"
  /\ ~busy[s]
  /\ stage' = [stage EXCEPT ![s] = "done"]
  /\ UNCHANGED <<wanted, mode, isPro, main, listener, addr, attempt, timer,
                 busy, manager, graceLeft, since, seeking, exit, excused,
                 faults, ip>>

\* srv.Shutdown returns, and wg.Done runs.
ShutdownEnds(s) ==
  /\ Alive /\ stage[s] = "closing"
  /\ ~busy[s] \/ timer[s] = 0
  /\ stage' = [stage EXCEPT ![s] = "done"]
  /\ UNCHANGED <<wanted, mode, isPro, main, listener, addr, attempt, timer,
                 busy, manager, graceLeft, since, seeking, exit, excused,
                 faults, ip>>

-----------------------------------------------------------------------------
(* The manager, the container and the network *)

\* The context is cancelled: the manager stops its runnables.
ManagerStops ==
  /\ Alive /\ manager = "running" /\ ctxDone
  /\ manager' = "stopping"
  /\ graceLeft' = ManagerGrace
  /\ UNCHANGED <<wanted, mode, isPro, main, stage, listener, addr, attempt,
                 timer, busy, since, seeking, exit, excused, faults, ip>>

\* mgr.Start returns nil once the runnables have stopped.
ManagerDone ==
  /\ Alive /\ manager = "stopping"
  /\ manager' = "done"
  /\ UNCHANGED <<wanted, mode, isPro, main, stage, listener, addr, attempt,
                 timer, busy, graceLeft, since, seeking, exit, excused, faults,
                 ip>>

\* mgr.Start returns an error, and main's goroutine calls os.Exit(1): a lost lease
\* or a port that is taken, or runnables that have not stopped in time.
ManagerFails ==
  /\ Alive
  /\ \/ manager = "running" /\ faults < MaxFaults /\ faults' = faults + 1 /\ excused' = TRUE
     \/ manager = "stopping" /\ graceLeft = 0 /\ UNCHANGED <<faults, excused>>
  /\ exit' = "failed"
  /\ UNCHANGED <<wanted, mode, isPro, main, stage, listener, addr, attempt,
                 timer, busy, manager, graceLeft, since, seeking, ip>>

\* The kubelet starts the container again, unless the pod was told to stop.
Restart ==
  /\ exit = "failed" /\ ~ctxDone
  /\ UNCHANGED <<wanted, faults, ip>>
  /\ mode' = wanted
  /\ isPro' = "unknown"
  /\ main' = "settle"
  /\ stage' = [s \in Servers |-> "off"]
  /\ listener' = [s \in Servers |-> "off"]
  /\ addr' = [s \in Servers |-> NoAddress]
  /\ attempt' = [s \in Servers |-> 1]
  /\ timer' = [s \in Servers |-> 0]
  /\ busy' = [s \in Servers |-> FALSE]
  /\ manager' = "off"
  /\ graceLeft' = 0
  /\ since' = 0
  /\ seeking' = {}
  /\ exit' = "none"
  /\ excused' = FALSE

\* netclient brings the interface up, changes its address, or takes it down.
InterfaceChanges ==
  /\ ip' \in (Addresses \cup {NoAddress}) \ {ip}
  /\ UNCHANGED procVars

\* Some goroutine has something to do that takes no time.
Urgent ==
  \/ \E s \in Servers :
       \/ stage[s] \in {"sleep", "seek"} /\ timer[s] = 0
       \/ stage[s] = "bind"
       \/ listener[s] = "pending"
       \/ stage[s] = "serve" /\ ctxDone
       \/ stage[s] = "closing" /\ (~busy[s] \/ timer[s] = 0)
  \/ manager = "running" /\ ctxDone
  \/ manager = "stopping" /\ graceLeft = 0
  \/ ctxDone /\ manager = "done" /\ \A s \in Servers : stage[s] \in {"off", "done"}

\* A second goes by.
Tick ==
  /\ Alive /\ ~Urgent /\ main \in {"wait", "stopping"}
  /\ timer' = [s \in Servers |-> IF timer[s] > 0 THEN timer[s] - 1 ELSE 0]
  /\ graceLeft' = IF graceLeft > 0 THEN graceLeft - 1 ELSE 0
  /\ since' = IF ctxDone /\ since < SinceCap THEN since + 1 ELSE since
  /\ UNCHANGED <<wanted, mode, isPro, main, stage, listener, addr, attempt, busy,
                 manager, seeking, exit, excused, faults, ip>>

ServerStep(s) ==
  \/ FindInterface(s) \/ StartListening(s) \/ ListenReturns(s) \/ ListenOpens(s)
  \/ ShutdownBegins(s) \/ ShutdownEnds(s)

MainStep == SettleMode \/ StartAll \/ MainReturns

ManagerStep == ManagerStops \/ ManagerDone

Next ==
  \/ MainStep \/ ManagerStep \/ Awake \/ Tick \/ Restart
  \/ \E s \in Servers : ServerStep(s)
  \/ \E s \in Servers : ListenFails(s) \/ RequestArrives(s) \/ RequestEnds(s)
  \/ Signal \/ ConfigFails \/ ManagerFails \/ InterfaceChanges

Spec == Init /\ [][Next]_vars

\* Goroutines are scheduled, time goes on, a bind answers one way or the other and
\* the kubelet restarts what failed.  Requests need not end, runnables need not
\* stop, signals need not come and the interface need not come up.
Fairness ==
  /\ WF_vars(MainStep) /\ WF_vars(ManagerStops) /\ WF_vars(Awake)
  /\ WF_vars(Tick) /\ WF_vars(Restart)
  /\ WF_vars(ManagerFails /\ manager = "stopping")
  /\ \A s \in Servers : WF_vars(ServerStep(s)) /\ WF_vars(ListenFails(s))

FairSpec == Spec /\ Fairness

-----------------------------------------------------------------------------
(* Properties *)

\* main.go:282 promises a graceful shutdown "with a timeout of 5 seconds"; wg.Wait
\* has none.  What does hold: SIGTERM leads to an exit within the waits of the
\* slower server or the grace period of the manager.
ExitDeadline == since <= ServerBound \/ since <= ManagerGrace

\* After SIGTERM the process ends, also when a request never does and when the
\* manager's runnables do not stop.
StopsInTheEnd == ctxDone ~> ~Alive

\* The call of srv.Shutdown for server s has waited its whole timeout.
TimedOut(s) == stage[s] \in {"closing", "done"} /\ timer[s] = 0

\* However the two servers, the manager and the listening goroutines interleave, a
\* shutdown that meets no fault leaves no listener behind when main returns, and a
\* request that is cut off then had the whole timeout of srv.Shutdown, counted from
\* the call.  The grace period of the manager ends the process too (os.Exit).  Then
\* the same holds of a server that had its address when SIGTERM came; only one that
\* went on looking may have opened too late for the request to get that long.
RequestsDrained ==
  ~Alive /\ ctxDone /\ ~excused =>
    \A s \in Servers :
      /\ exit = "stopped" => listener[s] # "open"
      /\ busy[s] => TimedOut(s) \/ (exit = "failed" /\ s \in seeking)

\* PROXY_USAGE.md:66-74, for the values it documents and every spelling of noauth:
\* no server starts in auth mode unless the check of this very process said Pro.
AuthNeedsPro ==
  wanted \in {"auth"} \cup NoauthSpellings =>
    \A s \in Servers :
      stage[s] # "off" /\ getProxyConfig(mode) = "auth" => isPro = "pro"

Reachable(s) == listener[s] = "open" /\ addr[s] \in {AnyAddress, ip}

\* Another address than a has never had a server listening on it.
OnlyBoundTo(a) ==
  ip \in Addresses \ {a} => \A s \in Servers : listener[s] # "open"

\* Once the interface has come up for good, and faults and signals stay away, both
\* servers listen where the tunnel ends, however late it came up, however often its
\* address changed between a lookup and the bind, and however often the container
\* failed for that; unless the proxy was disabled.  The premise OnlyBoundTo leaves
\* out a change of the address under a server that listens, which nobody notices.
TunnelServed ==
  \A a \in Addresses :
    <>[](ip = a) /\ [](OnlyBoundTo(a) /\ ~ctxDone /\ exit # "killed")
      => <>[](mode = "off" \/ \A s \in Servers : Reachable(s))

\* PROXY_USAGE.md:12, "Automatically binds to WireGuard interface IP": whenever the
\* interface has an address, a server that listens can be reached there.
BoundToTunnel ==
  ip # NoAddress => \A s \in Servers : listener[s] = "open" => Reachable(s)
=============================================================================
