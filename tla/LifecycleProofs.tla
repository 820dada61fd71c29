--------------------------- MODULE LifecycleProofs ---------------------------
(***************************************************************************)
(* Theorems about Lifecycle, for any delays, retries and timeouts, checked *)
(* by TLAPS.                                                               *)
(***************************************************************************)
EXTENDS Lifecycle, TLAPS

-----------------------------------------------------------------------------
(* Type correctness                                                          *)

\* RetryDelay is a number of seconds, and at most MaxDelay.
LEMMA RetryDelayBounded ==
  ASSUME NEW n \in Nat
  PROVE  RetryDelay(n) \in Nat /\ RetryDelay(n) <= MaxDelay
  <1>1. BaseDelay * n \in Nat  BY LifecycleAssumption
  <1> QED  BY <1>1, LifecycleAssumption DEF RetryDelay

LEMMA TypeInit == Init => TypeOK
  <1> SUFFICES ASSUME Init PROVE TypeOK
      OBVIOUS
  <1> USE DEF Init
  <1>1. /\ wanted \in ProxyModes
        /\ mode \in ProxyModes \cup {"off", "noauth"}
        /\ isPro \in {"unknown", "pro", "notPro", "error"}
        /\ main \in {"settle", "start", "wait", "stopping"}
        OBVIOUS
  <1>2. /\ stage \in [Servers -> {"off", "sleep", "seek", "bind", "serve", "closing", "done"}]
        /\ listener \in [Servers -> {"off", "pending", "open", "closed"}]
        /\ addr \in [Servers -> Addresses \cup {NoAddress, AnyAddress}]
        OBVIOUS
  <1>3. attempt \in [Servers -> Nat] /\ timer \in [Servers -> Nat]
        OBVIOUS
  <1>4. busy \in [Servers -> BOOLEAN] /\ excused \in BOOLEAN
        OBVIOUS
  <1>5. /\ manager \in {"off", "running", "stopping", "done"}
        /\ graceLeft \in Nat /\ since \in Nat /\ seeking \in SUBSET Servers
        /\ exit \in {"none", "stopped", "failed", "killed"}
        /\ ip \in Addresses \cup {NoAddress}
        /\ faults \in 0 .. MaxFaults
        BY LifecycleAssumption
  <1> QED  BY <1>1, <1>2, <1>3, <1>4, <1>5 DEF TypeOK

LEMMA TypeStep == TypeOK /\ [Next]_vars => TypeOK'
  <1> SUFFICES ASSUME TypeOK, [Next]_vars PROVE TypeOK'
      OBVIOUS
  <1> USE LifecycleAssumption DEF TypeOK
  <1>1. CASE SettleMode
        BY <1>1 DEF SettleMode, ModeAfterCheck, CheckServerProStatus
  <1>2. CASE StartAll  BY <1>2 DEF StartAll, Servers
  <1>3. CASE MainReturns  BY <1>3 DEF MainReturns
  <1>4. CASE ManagerStops  BY <1>4 DEF ManagerStops
  <1>5. CASE ManagerDone  BY <1>5 DEF ManagerDone
  <1>6. CASE Awake  BY <1>6 DEF Awake, Servers
  <1>7. CASE Tick  BY <1>7 DEF Tick
  <1>8. CASE Restart  BY <1>8 DEF Restart
  <1>9. CASE Signal  BY <1>9 DEF Signal
  <1>10. CASE ConfigFails  BY <1>10 DEF ConfigFails
  <1>11. CASE ManagerFails
    <2>1. faults' \in 0 .. MaxFaults  BY <1>11 DEF ManagerFails
    <2>2. excused' \in BOOLEAN  BY <1>11 DEF ManagerFails
    <2> QED  BY <1>11, <2>1, <2>2 DEF ManagerFails
  <1>12. CASE InterfaceChanges  BY <1>12 DEF InterfaceChanges, procVars
  <1>13. CASE UNCHANGED vars  BY <1>13 DEF vars, procVars
  <1>14. ASSUME NEW s \in Servers, FindInterface(s) PROVE TypeOK'
        BY <1>14, RetryDelayBounded DEF FindInterface
  <1>15. ASSUME NEW s \in Servers, StartListening(s) PROVE TypeOK'
        BY <1>15 DEF StartListening
  <1>16. ASSUME NEW s \in Servers, ListenReturns(s) PROVE TypeOK'
        BY <1>16 DEF ListenReturns
  <1>17. ASSUME NEW s \in Servers, ListenOpens(s) PROVE TypeOK'
        BY <1>17 DEF ListenOpens
  <1>18. ASSUME NEW s \in Servers, ShutdownBegins(s) PROVE TypeOK'
        BY <1>18 DEF ShutdownBegins
  <1>19. ASSUME NEW s \in Servers, ShutdownEnds(s) PROVE TypeOK'
        BY <1>19 DEF ShutdownEnds
  <1>20. ASSUME NEW s \in Servers, ListenFails(s) PROVE TypeOK'
        BY <1>20 DEF ListenFails
  <1>21. ASSUME NEW s \in Servers, RequestArrives(s) PROVE TypeOK'
        BY <1>21 DEF RequestArrives
  <1>22. ASSUME NEW s \in Servers, RequestEnds(s) PROVE TypeOK'
        BY <1>22 DEF RequestEnds
  <1> QED  BY <1>1, <1>2, <1>3, <1>4, <1>5, <1>6, <1>7, <1>8, <1>9, <1>10, <1>11,
              <1>12, <1>13, <1>14, <1>15, <1>16, <1>17, <1>18, <1>19, <1>20, <1>21,
              <1>22 DEF Next, MainStep, ManagerStep, ServerStep

\* The variables of main, the servers and the manager keep their types, for any
\* delays, retries and timeouts.
THEOREM LifecycleTypeCorrect == Spec => []TypeOK
  BY TypeInit, TypeStep, PTL DEF Spec

-----------------------------------------------------------------------------
(* What main, the servers and the manager know of each other                 *)

Shape ==
  /\ ~ctxDone => since = 0
  /\ main \in {"settle", "start"} =>
       manager = "off" /\ \A s \in Servers : stage[s] = "off"
  /\ main \in {"wait", "stopping"} => manager # "off"
  /\ manager \in {"stopping", "done"} => ctxDone
  /\ \A s \in Servers :
       /\ attempt[s] >= 1
       /\ stage[s] \in {"off", "sleep"} => attempt[s] = 1
       /\ listener[s] = "open" => stage[s] = "serve"
       /\ busy[s] => stage[s] \in {"serve", "closing", "done"}
       /\ stage[s] \in {"closing", "done"} => ctxDone
       /\ stage[s] = "off" /\ main \in {"settle", "start"} => timer[s] = 0

LEMMA ShapeInit == Init => Shape
  BY DEF Init, Shape, ctxDone

LEMMA ShapeStep == TypeOK /\ Shape /\ [Next]_vars => Shape'
  <1> SUFFICES ASSUME TypeOK, Shape, [Next]_vars PROVE Shape'
      OBVIOUS
  <1> USE LifecycleAssumption DEF TypeOK, Shape, ctxDone, Servers, Alive
  <1>1. CASE SettleMode  BY <1>1 DEF SettleMode
  <1>2. CASE StartAll  BY <1>2 DEF StartAll
  <1>3. CASE MainReturns  BY <1>3 DEF MainReturns
  <1>4. CASE ManagerStops  BY <1>4 DEF ManagerStops
  <1>5. CASE ManagerDone  BY <1>5 DEF ManagerDone
  <1>6. CASE Awake  BY <1>6 DEF Awake
  <1>7. CASE Tick  BY <1>7 DEF Tick
  <1>8. CASE Restart  BY <1>8 DEF Restart
  <1>9. CASE Signal  BY <1>9 DEF Signal
  <1>10. CASE ConfigFails  BY <1>10 DEF ConfigFails
  <1>11. CASE ManagerFails  BY <1>11 DEF ManagerFails
  <1>12. CASE InterfaceChanges  BY <1>12 DEF InterfaceChanges, procVars
  <1>13. CASE UNCHANGED vars  BY <1>13 DEF vars, procVars
  <1>14. ASSUME NEW s \in Servers, FindInterface(s) PROVE Shape'
        BY <1>14 DEF FindInterface
  <1>15. ASSUME NEW s \in Servers, StartListening(s) PROVE Shape'
        BY <1>15 DEF StartListening
  <1>16. ASSUME NEW s \in Servers, ListenReturns(s) PROVE Shape'
        BY <1>16 DEF ListenReturns
  <1>17. ASSUME NEW s \in Servers, ListenOpens(s) PROVE Shape'
        BY <1>17 DEF ListenOpens
  <1>18. ASSUME NEW s \in Servers, ShutdownBegins(s) PROVE Shape'
        BY <1>18 DEF ShutdownBegins
  <1>19. ASSUME NEW s \in Servers, ShutdownEnds(s) PROVE Shape'
        BY <1>19 DEF ShutdownEnds
  <1>20. ASSUME NEW s \in Servers, ListenFails(s) PROVE Shape'
        BY <1>20 DEF ListenFails
  <1>21. ASSUME NEW s \in Servers, RequestArrives(s) PROVE Shape'
        BY <1>21 DEF RequestArrives
  <1>22. ASSUME NEW s \in Servers, RequestEnds(s) PROVE Shape'
        BY <1>22 DEF RequestEnds
  <1> QED  BY <1>1, <1>2, <1>3, <1>4, <1>5, <1>6, <1>7, <1>8, <1>9, <1>10, <1>11,
              <1>12, <1>13, <1>14, <1>15, <1>16, <1>17, <1>18, <1>19, <1>20, <1>21, <1>22
           DEF Next, MainStep, ManagerStep, ServerStep

-----------------------------------------------------------------------------
(* The time left                                                             *)

\* B gives the search for the interface enough time: from attempt n on, it takes at
\* most B[n] seconds, the delays of all attempts that are left.
Budget(B) ==
  /\ B \in [Nat -> Nat]
  /\ \A n \in Nat :
       /\ B[n + 1] <= B[n]
       /\ n < MaxRetries => RetryDelay(n) + B[n + 1] <= B[n]

\* The wait of one server under B: its sleep, its search and its last request.
Wait(B) == SleepBeforeProxy + B[1] + ShutdownTimeout

\* The seconds server s may still take, at most.
Left(B, s) ==
  CASE stage[s] = "sleep" -> timer[s] + B[1] + ShutdownTimeout
    [] stage[s] = "seek" -> timer[s] + B[attempt[s]] + ShutdownTimeout
    [] stage[s] \in {"bind", "serve"} -> ShutdownTimeout
    [] stage[s] = "closing" -> timer[s]
    [] OTHER -> 0

\* What the manager has waited and what it has left make its grace period.
Grace == manager = "stopping" => since + graceLeft = ManagerGrace

Deadline(B) ==
  /\ \A s \in Servers :
       stage[s] \notin {"off", "done"} => since + Left(B, s) <= Wait(B)
  /\ manager = "running" => since = 0
  /\ Grace
  /\ since <= Wait(B) \/ since <= ManagerGrace

\* The delays between attempt n and the last one, each taken as long as it may be.
DelaysLeft(n) == IF n >= MaxRetries THEN 0 ELSE (MaxRetries - n) * MaxDelay

LongestDelays == [n \in Nat |-> DelaysLeft(n)]

\* A product of numbers of seconds is a number of seconds, and a factor that is one
\* less takes one summand away.
LEMMA DelaysLeftNat ==
  ASSUME NEW n \in Nat
  PROVE  DelaysLeft(n) \in Nat
  <1>1. CASE n >= MaxRetries  BY <1>1 DEF DelaysLeft
  <1>2. CASE ~(n >= MaxRetries)
    <2>1. MaxRetries - n \in Nat  BY <1>2, LifecycleAssumption
    <2>2. (MaxRetries - n) * MaxDelay \in Nat  BY <2>1, LifecycleAssumption
    <2> QED  BY <1>2, <2>2 DEF DelaysLeft
  <1> QED  BY <1>1, <1>2

LEMMA DelaysLeftStep ==
  ASSUME NEW n \in Nat
  PROVE  /\ DelaysLeft(n + 1) <= DelaysLeft(n)
         /\ n < MaxRetries => MaxDelay + DelaysLeft(n + 1) <= DelaysLeft(n)
  <1> USE LifecycleAssumption
  <1>1. CASE n >= MaxRetries  BY <1>1 DEF DelaysLeft
  <1>2. CASE n < MaxRetries
    <2> DEFINE k == MaxRetries - (n + 1)
    <2>1. k \in Nat /\ MaxRetries - n = k + 1  BY <1>2
    <2>2. (k + 1) * MaxDelay = k * MaxDelay + MaxDelay  BY <2>1
    <2>3. DelaysLeft(n) = k * MaxDelay + MaxDelay  BY <1>2, <2>1, <2>2 DEF DelaysLeft
    <2>4. DelaysLeft(n + 1) = k * MaxDelay
      <3>1. CASE n + 1 >= MaxRetries
            BY <1>2, <3>1 DEF DelaysLeft
      <3>2. CASE ~(n + 1 >= MaxRetries)  BY <3>2 DEF DelaysLeft
      <3> QED  BY <3>1, <3>2
    <2>5. k * MaxDelay \in Nat  BY <2>1
    <2> QED  BY <2>3, <2>4, <2>5
  <1> QED  BY <1>1, <1>2

LEMMA BoundsNat ==
  /\ DelaysLeft(1) = RetryBound
  /\ RetryBound \in Nat
  /\ ServerBound \in Nat
  /\ SinceCap \in Nat /\ ServerBound < SinceCap /\ ManagerGrace < SinceCap
  /\ SleepBeforeProxy + RetryBound + ShutdownTimeout = ServerBound
  <1> USE LifecycleAssumption
  <1>1. DelaysLeft(1) = RetryBound
    <2>1. CASE MaxRetries = 0  BY <2>1 DEF DelaysLeft, RetryBound
    <2>2. CASE MaxRetries = 1
          BY <2>2 DEF DelaysLeft, RetryBound
    <2>3. CASE MaxRetries > 1  BY <2>3 DEF DelaysLeft, RetryBound
    <2> QED  BY <2>1, <2>2, <2>3
  <1>2. RetryBound \in Nat  BY <1>1, DelaysLeftNat
  <1> QED  BY <1>1, <1>2 DEF ServerBound, SinceCap

LEMMA LongestDelaysBudget == Budget(LongestDelays) /\ Wait(LongestDelays) = ServerBound
  <1>1. LongestDelays \in [Nat -> Nat]  BY DelaysLeftNat DEF LongestDelays
  <1>2. ASSUME NEW n \in Nat
        PROVE  /\ LongestDelays[n + 1] <= LongestDelays[n]
               /\ n < MaxRetries => RetryDelay(n) + LongestDelays[n + 1] <= LongestDelays[n]
    <2>1. n + 1 \in Nat  OBVIOUS
    <2>2. LongestDelays[n] = DelaysLeft(n) /\ LongestDelays[n + 1] = DelaysLeft(n + 1)
          BY <2>1 DEF LongestDelays
    <2>3. DelaysLeft(n) \in Nat /\ DelaysLeft(n + 1) \in Nat  BY <2>1, DelaysLeftNat
    <2> QED  BY <2>2, <2>3, DelaysLeftStep, RetryDelayBounded, LifecycleAssumption
  <1>3. LongestDelays[1] = RetryBound  BY BoundsNat DEF LongestDelays
  <1> QED  BY <1>1, <1>2, <1>3, BoundsNat DEF Budget, Wait

\* What a budget says of one attempt.
LEMMA BudgetNat ==
  ASSUME NEW B, Budget(B)
  PROVE  /\ \A n \in Nat : B[n] \in Nat
         /\ B[1] \in Nat /\ Wait(B) \in Nat
  BY LifecycleAssumption DEF Budget, Wait

LEMMA DeadlineInit == ASSUME NEW B, Budget(B) PROVE Init => Deadline(B)
  BY LifecycleAssumption, BudgetNat DEF Init, Deadline, Grace

LEMMA DeadlineStep ==
  ASSUME NEW B, Budget(B)
  PROVE  TypeOK /\ TypeOK' /\ Shape /\ Deadline(B) /\ [Next]_vars => Deadline(B)'
  <1> SUFFICES ASSUME TypeOK, TypeOK', Shape, Deadline(B), [Next]_vars PROVE Deadline(B)'
      OBVIOUS
  <1> USE LifecycleAssumption, BudgetNat
         DEF TypeOK, Shape, Deadline, Grace, Left, Wait, ctxDone, Servers, Alive
  <1>1. CASE SettleMode  BY <1>1 DEF SettleMode
  <1>2. CASE StartAll  BY <1>2 DEF StartAll
  <1>3. CASE MainReturns  BY <1>3 DEF MainReturns
  <1>4. CASE ManagerStops  BY <1>4 DEF ManagerStops
  <1>5. CASE ManagerDone  BY <1>5 DEF ManagerDone
  <1>6. CASE Awake  BY <1>6 DEF Awake
  <1>7. CASE Tick
    <2>1. ASSUME NEW s \in Servers, stage[s] \notin {"off", "done"}
          PROVE  since' + Left(B, s)' <= Wait(B)
      <3>1. CASE ~ctxDone
            BY <1>7, <2>1, <3>1 DEF Tick
      <3>2. CASE ctxDone
        <4>1. stage[s] \in {"sleep", "seek", "closing"} /\ timer[s] > 0
              BY <1>7, <2>1, <3>2 DEF Tick, Urgent
        <4>2. Left(B, s)' = Left(B, s) - 1
              BY <1>7, <2>1, <4>1 DEF Tick
        <4>3. since' <= since + 1  BY <1>7 DEF Tick
        <4>4. Left(B, s) \in Nat  BY <4>1
        <4> QED  BY <1>7, <2>1, <4>2, <4>3, <4>4 DEF Tick
      <3> QED  BY <3>1, <3>2
    <2>2. manager = "running" => since' = 0
      <3>1. CASE ctxDone  BY <1>7, <3>1 DEF Tick, Urgent
      <3>2. CASE ~ctxDone  BY <1>7, <3>2 DEF Tick
      <3> QED  BY <3>1, <3>2
    <2>3. ASSUME manager = "stopping"
          PROVE  since' + graceLeft' = ManagerGrace
      <3>1. ctxDone /\ graceLeft > 0  BY <1>7, <2>3 DEF Tick, Urgent
      <3>2. since + graceLeft = ManagerGrace  BY <2>3
      <3>3. since \in Nat /\ graceLeft \in Nat  OBVIOUS
      <3>4. SinceCap \in Nat /\ since < SinceCap
            BY <3>2, <3>3, BoundsNat
      <3>5. since' = since + 1  BY <1>7, <3>1, <3>4 DEF Tick
      <3>6. graceLeft' = graceLeft - 1  BY <1>7, <3>1 DEF Tick
      <3> QED  BY <3>2, <3>3, <3>5, <3>6
    <2>4. since' <= Wait(B) \/ since' <= ManagerGrace
      <3>1. CASE ~ctxDone  BY <1>7, <3>1 DEF Tick
      <3>2. CASE \E s \in Servers : stage[s] \notin {"off", "done"}
        <4>1. PICK s \in Servers : stage[s] \notin {"off", "done"}  BY <3>2
        <4>2. since' + Left(B, s)' <= Wait(B)  BY <2>1, <4>1
        <4>3. Left(B, s)' \in Nat  OBVIOUS
        <4> QED  BY <1>7, <4>2, <4>3 DEF Tick
      <3>3. CASE ctxDone /\ \A s \in Servers : stage[s] \in {"off", "done"}
        <4>1. manager = "stopping"  BY <1>7, <3>3 DEF Tick, Urgent
        <4> QED  BY <1>7, <2>3, <4>1 DEF Tick
      <3> QED  BY <3>1, <3>2, <3>3
    <2> QED  BY <1>7, <2>1, <2>2, <2>3, <2>4 DEF Tick
  <1>8. CASE Restart  BY <1>8 DEF Restart
  <1>9. CASE Signal  BY <1>9 DEF Signal
  <1>10. CASE ConfigFails  BY <1>10 DEF ConfigFails
  <1>11. CASE ManagerFails  BY <1>11 DEF ManagerFails
  <1>12. CASE InterfaceChanges  BY <1>12 DEF InterfaceChanges, procVars
  <1>13. CASE UNCHANGED vars  BY <1>13 DEF vars, procVars
  <1>14. ASSUME NEW s \in Servers, FindInterface(s) PROVE Deadline(B)'
    <2>1. stage[s] = "seek" /\ timer[s] = 0 /\ attempt[s] \in Nat
          BY <1>14 DEF FindInterface
    <2>2. since + B[attempt[s]] + ShutdownTimeout <= Wait(B)
          BY <2>1
    <2>3. CASE stage' = [stage EXCEPT ![s] = "bind"] /\ UNCHANGED <<attempt, timer>>
          BY <1>14, <2>2, <2>3 DEF FindInterface
    <2>4. CASE UNCHANGED <<addr, stage>>
      <3>1. stage'[s] = "seek" /\ attempt'[s] = attempt[s] + 1
            BY <1>14, <2>1, <2>4 DEF FindInterface
      <3>2. B[attempt'[s]] <= B[attempt[s]]
            BY <2>1, <3>1 DEF Budget
      <3>3. timer'[s] \in Nat /\ timer'[s] + B[attempt'[s]] <= B[attempt[s]]
        <4>1. CASE UNCHANGED timer
              BY <2>1, <3>1, <3>2, <4>1
        <4>2. CASE ~UNCHANGED timer
          <5>1. attempt[s] < MaxRetries /\ timer'[s] = RetryDelay(attempt[s])
                BY <1>14, <2>1, <2>4, <4>2 DEF FindInterface
          <5> QED  BY <2>1, <3>1, <5>1, RetryDelayBounded DEF Budget
        <4> QED  BY <4>1, <4>2
      <3>4. B[attempt[s]] \in Nat /\ B[attempt'[s]] \in Nat
            BY <2>1, <3>1
      <3>5. since' + Left(B, s)' <= Wait(B)
            BY <1>14, <2>2, <3>1, <3>3, <3>4 DEF FindInterface
      <3>6. ASSUME NEW q \in Servers, q # s
            PROVE  stage'[q] = stage[q] /\ Left(B, q)' = Left(B, q)
            BY <1>14, <3>6 DEF FindInterface
      <3> QED  BY <1>14, <2>4, <3>5, <3>6 DEF FindInterface
    <2> QED  BY <1>14, <2>3, <2>4 DEF FindInterface
  <1>15. ASSUME NEW s \in Servers, StartListening(s) PROVE Deadline(B)'
        BY <1>15 DEF StartListening
  <1>16. ASSUME NEW s \in Servers, ListenReturns(s) PROVE Deadline(B)'
        BY <1>16 DEF ListenReturns
  <1>17. ASSUME NEW s \in Servers, ListenOpens(s) PROVE Deadline(B)'
        BY <1>17 DEF ListenOpens
  <1>18. ASSUME NEW s \in Servers, ShutdownBegins(s) PROVE Deadline(B)'
        BY <1>18 DEF ShutdownBegins
  <1>19. ASSUME NEW s \in Servers, ShutdownEnds(s) PROVE Deadline(B)'
        BY <1>19 DEF ShutdownEnds
  <1>20. ASSUME NEW s \in Servers, ListenFails(s) PROVE Deadline(B)'
        BY <1>20 DEF ListenFails
  <1>21. ASSUME NEW s \in Servers, RequestArrives(s) PROVE Deadline(B)'
        BY <1>21 DEF RequestArrives
  <1>22. ASSUME NEW s \in Servers, RequestEnds(s) PROVE Deadline(B)'
        BY <1>22 DEF RequestEnds
  <1> QED  BY <1>1, <1>2, <1>3, <1>4, <1>5, <1>6, <1>7, <1>8, <1>9, <1>10, <1>11,
              <1>12, <1>13, <1>14, <1>15, <1>16, <1>17, <1>18, <1>19, <1>20, <1>21, <1>22
           DEF Next, MainStep, ManagerStep, ServerStep


-----------------------------------------------------------------------------
(* Requests                                                                  *)

\* A server that had its address when SIGTERM came begins Shutdown in the same
\* second: until then no time passes, and from then on its timer and the time since
\* SIGTERM make the timeout.  A request outlives its server only when the timer ran
\* out, and without a fault only the end of the grace period fails the process.
Drain ==
  /\ \A s \in Servers :
       /\ ctxDone /\ s \notin seeking => stage[s] \notin {"sleep", "seek"}
       /\ ctxDone /\ s \notin seeking /\ stage[s] \in {"bind", "serve"} => since = 0
       /\ stage[s] = "closing" /\ s \notin seeking => timer[s] + since <= ShutdownTimeout
       /\ stage[s] = "done" /\ busy[s] => timer[s] = 0
  /\ exit = "stopped" => \A s \in Servers : stage[s] \in {"off", "done"}
  /\ exit = "killed" => ~ctxDone
  /\ exit = "failed" /\ ctxDone /\ ~excused => since = ManagerGrace

LEMMA DrainInit == Init => Drain
  BY DEF Init, Drain, ctxDone

LEMMA DrainStep == TypeOK /\ Shape /\ Grace /\ Drain /\ [Next]_vars => Drain'
  <1> SUFFICES ASSUME TypeOK, Shape, Grace, Drain, [Next]_vars PROVE Drain'
      OBVIOUS
  <1> USE LifecycleAssumption
         DEF TypeOK, Shape, Grace, Drain, ctxDone, Servers, Alive
  <1>1. CASE SettleMode  BY <1>1 DEF SettleMode
  <1>2. CASE StartAll  BY <1>2 DEF StartAll
  <1>3. CASE MainReturns  BY <1>3 DEF MainReturns
  <1>4. CASE ManagerStops  BY <1>4 DEF ManagerStops
  <1>5. CASE ManagerDone  BY <1>5 DEF ManagerDone
  <1>6. CASE Awake  BY <1>6 DEF Awake
  <1>7. CASE Tick
    <2>1. ASSUME NEW s \in Servers, ctxDone, stage[s] \in {"bind", "serve"}
          PROVE  FALSE
          BY <1>7, <2>1 DEF Tick, Urgent
    <2>2. ASSUME NEW s \in Servers, stage[s] = "closing", s \notin seeking
          PROVE  timer'[s] + since' <= ShutdownTimeout
      <3>1. timer[s] > 0  BY <1>7, <2>2 DEF Tick, Urgent
      <3>2. timer'[s] = timer[s] - 1  BY <1>7, <3>1 DEF Tick
      <3>3. since' <= since + 1 /\ since' \in Nat  BY <1>7 DEF Tick
      <3> QED  BY <2>2, <3>1, <3>2, <3>3
    <2>3. ASSUME NEW s \in Servers, timer[s] = 0 PROVE timer'[s] = 0
          BY <1>7, <2>3 DEF Tick
    <2> QED  BY <1>7, <2>1, <2>2, <2>3 DEF Tick
  <1>8. CASE Restart  BY <1>8 DEF Restart
  <1>9. CASE Signal  BY <1>9 DEF Signal
  <1>10. CASE ConfigFails  BY <1>10 DEF ConfigFails
  <1>11. CASE ManagerFails  BY <1>11 DEF ManagerFails
  <1>12. CASE InterfaceChanges  BY <1>12 DEF InterfaceChanges, procVars
  <1>13. CASE UNCHANGED vars  BY <1>13 DEF vars, procVars
  <1>14. ASSUME NEW s \in Servers, FindInterface(s) PROVE Drain'
        BY <1>14 DEF FindInterface
  <1>15. ASSUME NEW s \in Servers, StartListening(s) PROVE Drain'
        BY <1>15 DEF StartListening
  <1>16. ASSUME NEW s \in Servers, ListenReturns(s) PROVE Drain'
        BY <1>16 DEF ListenReturns
  <1>17. ASSUME NEW s \in Servers, ListenOpens(s) PROVE Drain'
        BY <1>17 DEF ListenOpens
  <1>18. ASSUME NEW s \in Servers, ShutdownBegins(s) PROVE Drain'
        BY <1>18 DEF ShutdownBegins
  <1>19. ASSUME NEW s \in Servers, ShutdownEnds(s) PROVE Drain'
        BY <1>19 DEF ShutdownEnds
  <1>20. ASSUME NEW s \in Servers, ListenFails(s) PROVE Drain'
        BY <1>20 DEF ListenFails
  <1>21. ASSUME NEW s \in Servers, RequestArrives(s) PROVE Drain'
        BY <1>21 DEF RequestArrives
  <1>22. ASSUME NEW s \in Servers, RequestEnds(s) PROVE Drain'
        BY <1>22 DEF RequestEnds
  <1> QED  BY <1>1, <1>2, <1>3, <1>4, <1>5, <1>6, <1>7, <1>8, <1>9, <1>10, <1>11,
              <1>12, <1>13, <1>14, <1>15, <1>16, <1>17, <1>18, <1>19, <1>20, <1>21, <1>22
           DEF Next, MainStep, ManagerStep, ServerStep


-----------------------------------------------------------------------------
(* PROXY_MODE                                                                *)

Mode ==
  /\ main = "settle" => mode = wanted
  /\ wanted \in NoauthSpellings => mode = wanted
  /\ wanted = "auth" /\ main # "settle" =>
       mode \in {"off", "noauth"} \/ (mode = "auth" /\ isPro = "pro")
  /\ \A s \in Servers : stage[s] # "off" => mode # "off"

LEMMA ModeInit == Init => Mode
  BY DEF Init, Mode

LEMMA ModeStep == TypeOK /\ Shape /\ Mode /\ [Next]_vars => Mode'
  <1> SUFFICES ASSUME TypeOK, Shape, Mode, [Next]_vars PROVE Mode'
      OBVIOUS
  <1> USE LifecycleAssumption DEF TypeOK, Shape, Mode, ctxDone, Servers, Alive
  <1>1. CASE SettleMode
    <2>1. CASE mode = "off"  BY <1>1, <2>1 DEF SettleMode
    <2>2. CASE mode # "off"
      <3>1. PICK answer \in {"pro", "notPro", "error"} :
              isPro' = answer /\ mode' = ModeAfterCheck(mode, answer)
            BY <1>1, <2>2 DEF SettleMode
      <3>2. wanted' = wanted /\ mode = wanted /\ stage' = stage /\ main' = "start"
            BY <1>1 DEF SettleMode
      <3>3. \A s \in Servers : stage[s] = "off"  BY <1>1 DEF SettleMode
      <3>4. mode # "auth" => mode' = mode
            BY <3>1 DEF ModeAfterCheck
      <3>5. mode = "auth" => mode' \in {"off", "noauth"} \/ (mode' = "auth" /\ answer = "pro")
            BY <3>1 DEF ModeAfterCheck
      <3> QED  BY <3>1, <3>2, <3>3, <3>4, <3>5
    <2> QED  BY <2>1, <2>2
  <1>2. CASE StartAll  BY <1>2 DEF StartAll
  <1>3. CASE MainReturns  BY <1>3 DEF MainReturns
  <1>4. CASE ManagerStops  BY <1>4 DEF ManagerStops
  <1>5. CASE ManagerDone  BY <1>5 DEF ManagerDone
  <1>6. CASE Awake  BY <1>6 DEF Awake
  <1>7. CASE Tick  BY <1>7 DEF Tick
  <1>8. CASE Restart  BY <1>8 DEF Restart
  <1>9. CASE Signal  BY <1>9 DEF Signal
  <1>10. CASE ConfigFails  BY <1>10 DEF ConfigFails
  <1>11. CASE ManagerFails  BY <1>11 DEF ManagerFails
  <1>12. CASE InterfaceChanges  BY <1>12 DEF InterfaceChanges, procVars
  <1>13. CASE UNCHANGED vars  BY <1>13 DEF vars, procVars
  <1>14. ASSUME NEW s \in Servers, FindInterface(s) PROVE Mode'
        BY <1>14 DEF FindInterface
  <1>15. ASSUME NEW s \in Servers, StartListening(s) PROVE Mode'
        BY <1>15 DEF StartListening
  <1>16. ASSUME NEW s \in Servers, ListenReturns(s) PROVE Mode'
        BY <1>16 DEF ListenReturns
  <1>17. ASSUME NEW s \in Servers, ListenOpens(s) PROVE Mode'
        BY <1>17 DEF ListenOpens
  <1>18. ASSUME NEW s \in Servers, ShutdownBegins(s) PROVE Mode'
        BY <1>18 DEF ShutdownBegins
  <1>19. ASSUME NEW s \in Servers, ShutdownEnds(s) PROVE Mode'
        BY <1>19 DEF ShutdownEnds
  <1>20. ASSUME NEW s \in Servers, ListenFails(s) PROVE Mode'
        BY <1>20 DEF ListenFails
  <1>21. ASSUME NEW s \in Servers, RequestArrives(s) PROVE Mode'
        BY <1>21 DEF RequestArrives
  <1>22. ASSUME NEW s \in Servers, RequestEnds(s) PROVE Mode'
        BY <1>22 DEF RequestEnds
  <1> QED  BY <1>1, <1>2, <1>3, <1>4, <1>5, <1>6, <1>7, <1>8, <1>9, <1>10, <1>11,
              <1>12, <1>13, <1>14, <1>15, <1>16, <1>17, <1>18, <1>19, <1>20, <1>21, <1>22
           DEF Next, MainStep, ManagerStep, ServerStep

-----------------------------------------------------------------------------
(* The theorems                                                              *)

IInv == TypeOK /\ Shape /\ Grace /\ Drain /\ Mode

WithinBudgets == \A B : Budget(B) => since <= Wait(B) \/ since <= ManagerGrace

Deadlines == \A B : Budget(B) => Deadline(B)

LEMMA DeadlinesHold == Spec => []Deadlines
  <1> DEFINE I == TypeOK /\ Shape /\ Deadlines
  <1>1. Init => I
        BY TypeInit, ShapeInit, DeadlineInit DEF Deadlines
  <1>2. I /\ [Next]_vars => I'
    <2> SUFFICES ASSUME I, [Next]_vars PROVE I'
        OBVIOUS
    <2>1. TypeOK' /\ Shape'  BY TypeStep, ShapeStep
    <2>2. ASSUME NEW B, Budget(B) PROVE Deadline(B)'
          BY <2>1, <2>2, DeadlineStep DEF Deadlines
    <2> QED  BY <2>1, <2>2 DEF Deadlines, Budget, RetryDelay
  <1>3. I => Deadlines  OBVIOUS
  <1> HIDE DEF I
  <1> QED  BY <1>1, <1>2, <1>3, PTL DEF Spec

\* However the delays are configured, SIGTERM leads to an exit within the waits of
\* one server or the grace period of the manager, for every budget the delays of the
\* search for the interface keep to: seen the other way round, the process never
\* counts more seconds after SIGTERM.
THEOREM ExitWithinBudget == Spec => []WithinBudgets
  <1>1. Deadlines => WithinBudgets  BY DEF Deadlines, Deadline, WithinBudgets
  <1> QED  BY <1>1, DeadlinesHold, PTL

\* The bound the run checks: every delay taken as long as it may be.
THEOREM ExitIsBounded == Spec => []ExitDeadline
  <1>1. WithinBudgets => ExitDeadline
        BY LongestDelaysBudget DEF ExitDeadline, WithinBudgets
  <1> QED  BY <1>1, ExitWithinBudget, PTL

\* The delays that are left from attempt n on with the values of the code: 30 s
\* from the tenth attempt on, and three seconds more after each attempt before.
DefaultDelays ==
  [n \in Nat |-> IF n >= 20 THEN 0
                 ELSE IF n >= 10 THEN 30 * (20 - n)
                 ELSE IF n >= 1 THEN 300 + <<135, 132, 126, 117, 105, 90, 72, 51, 27>>[n]
                 ELSE 435]

\* The values main.go, api.go and proxy.go fall back to, and the grace period of
\* controller-runtime.
CodeDefaults ==
  /\ SleepBeforeProxy = 5 /\ MaxRetries = 20 /\ BaseDelay = 3 /\ MaxDelay = 30
  /\ ShutdownTimeout = 10 /\ ManagerGrace = 30

LEMMA DefaultDelaysBudget ==
  ASSUME CodeDefaults
  PROVE  Budget(DefaultDelays) /\ Wait(DefaultDelays) = 450
  <1> DEFINE B == DefaultDelays
  <1>1. \A n \in Nat : n >= 20 => B[n] = 0  BY DEF DefaultDelays
  <1>2. \A n \in 10 .. 19 : B[n] = 30 * (20 - n)  BY DEF DefaultDelays
  <1>3. /\ B[0] = 435 /\ B[1] = 435 /\ B[2] = 432 /\ B[3] = 426 /\ B[4] = 417
        /\ B[5] = 405 /\ B[6] = 390 /\ B[7] = 372 /\ B[8] = 351 /\ B[9] = 327
        BY DEF DefaultDelays
  <1>4. \A n \in Nat : n \in 0 .. 9 \/ n \in 10 .. 19 \/ n >= 20  OBVIOUS
  <1>5. \A n \in 0 .. 9 : n \in {0, 1, 2, 3, 4, 5, 6, 7, 8, 9}  OBVIOUS
  <1>6. DOMAIN B = Nat /\ B = [n \in Nat |-> B[n]]  BY DEF DefaultDelays
  <1> HIDE DEF B
  <1>7. \A n \in 0 .. 9 : B[n] \in Nat  BY <1>3, <1>5
  <1>8. B \in [Nat -> Nat]
    <2>1. \A n \in Nat : B[n] \in Nat  BY <1>1, <1>2, <1>4, <1>7
    <2> QED  BY <1>6, <2>1
  <1>9. \A n \in Nat : RetryDelay(n) = IF 3 * n > 30 THEN 30 ELSE 3 * n
        BY DEF CodeDefaults, RetryDelay
  <1>10. ASSUME NEW n \in Nat
         PROVE  /\ B[n + 1] <= B[n]
                /\ n < MaxRetries => RetryDelay(n) + B[n + 1] <= B[n]
    <2>1. CASE n \in 0 .. 9
      <3>1. B[10] = 300  BY <1>2
      <3>2. n \in {0, 1, 2, 3, 4, 5, 6, 7, 8, 9}  BY <2>1, <1>5
      <3>3. RetryDelay(n) = 3 * n  BY <2>1, <1>9
      <3>4. B[n + 1] <= B[n] /\ 3 * n + B[n + 1] <= B[n]
            BY <1>3, <3>1, <3>2
      <3> QED  BY <3>3, <3>4
    <2>2. CASE n \in 10 .. 19
      <3>1. RetryDelay(n) = 30  BY <2>2, <1>9
      <3>2. B[n + 1] = 30 * (20 - (n + 1))
        <4>1. CASE n = 19  BY <4>1, <1>1
        <4>2. CASE n # 19  BY <2>2, <4>2, <1>2
        <4> QED  BY <4>1, <4>2
      <3>3. B[n] = 30 * (20 - n)  BY <2>2, <1>2
      <3> QED  BY <2>2, <3>1, <3>2, <3>3
    <2>3. CASE n >= 20  BY <2>3, <1>1 DEF CodeDefaults
    <2> QED  BY <2>1, <2>2, <2>3, <1>4
  <1>11. Wait(B) = 450  BY <1>3 DEF Wait, CodeDefaults
  <1> QED  BY <1>8, <1>10, <1>11 DEF Budget, B

\* main.go:282 speaks of 5 seconds, and the Deployment gives the pod 10: with the
\* values of the code SIGTERM leads to an exit within seven and a half minutes.
THEOREM ExitWithDefaults == ASSUME CodeDefaults PROVE Spec => [](since <= 450)
  <1>1. TypeOK /\ WithinBudgets => since <= 450
        BY DefaultDelaysBudget DEF CodeDefaults, TypeOK, WithinBudgets
  <1> QED  BY <1>1, ExitWithinBudget, LifecycleTypeCorrect, PTL

LEMMA IInvariant == Spec => []IInv
  <1> DEFINE I == TypeOK /\ Shape /\ Drain /\ Mode
  <1>1. Init => I
        BY TypeInit, ShapeInit, DrainInit, ModeInit
  <1>2. I /\ Grace /\ [Next]_vars => I'
        BY TypeStep, ShapeStep, DrainStep, ModeStep
  <1>3. I /\ Grace => IInv  BY DEF IInv
  <1>4. Deadlines => Grace  BY LongestDelaysBudget DEF Deadlines, Deadline
  <1> HIDE DEF I
  <1> QED  BY <1>1, <1>2, <1>3, <1>4, DeadlinesHold, PTL DEF Spec

\* A shutdown that meets no fault leaves no listener behind when main returns.  It
\* cuts a request off only after its call of srv.Shutdown has waited the whole
\* timeout, unless the end of the grace period does it to a server that had no
\* address yet when SIGTERM came.
THEOREM ShutdownDrains == Spec => []RequestsDrained
  <1>1. IInv => RequestsDrained
    <2> SUFFICES ASSUME IInv, ~Alive, ctxDone, ~excused, NEW s \in Servers
                 PROVE  /\ exit = "stopped" => listener[s] # "open"
                        /\ busy[s] => TimedOut(s) \/ (exit = "failed" /\ s \in seeking)
        BY DEF RequestsDrained
    <2>1. CASE exit = "stopped"
          BY <2>1 DEF IInv, Shape, Drain, TimedOut
    <2>2. CASE exit = "failed"
      <3> SUFFICES ASSUME busy[s], s \notin seeking PROVE TimedOut(s)
          BY <2>2
      <3>1. since = ManagerGrace /\ since > 0 /\ since >= ShutdownTimeout
            BY <2>2, LifecycleAssumption DEF IInv, Drain
      <3>2. stage[s] \in {"closing", "done"} /\ timer[s] \in Nat
            BY <3>1 DEF IInv, Shape, Drain, TypeOK
      <3> QED  BY <3>1, <3>2, LifecycleAssumption DEF IInv, Drain, TimedOut
    <2> QED  BY <2>1, <2>2 DEF IInv, TypeOK, Drain, Alive
  <1> QED  BY <1>1, IInvariant, PTL

\* With the documented values of PROXY_MODE, noauth in any spelling, a server that
\* reads its mode as auth runs only after the check of this very process said Pro.
THEOREM AuthOnlyWithPro == Spec => []AuthNeedsPro
  <1>1. IInv => AuthNeedsPro
        BY LifecycleAssumption DEF IInv, Mode, Shape, AuthNeedsPro, getProxyConfig, Servers
  <1> QED  BY <1>1, IInvariant, PTL
-----------------------------------------------------------------------------
(* The address                                                               *)

\* If the interface only ever comes up with address a, a server that has found an
\* address has found a, or has given up and listens on every interface.
AddressKept(a) ==
  \A s \in Servers :
    stage[s] \in {"bind", "serve", "closing", "done"} => addr[s] \in {a, AnyAddress}

\* PROXY_USAGE.md:12, "Automatically binds to WireGuard interface IP", does not hold
\* of an interface that changes its address, as the run StaleAddress shows.  That is
\* the only way it fails: an interface that comes and goes as it likes, but always
\* with the same address, is bound to whenever it is there.
THEOREM BoundIfAddressStays ==
  ASSUME NEW a \in Addresses
  PROVE  Spec /\ [](ip \in {a, NoAddress}) => []BoundToTunnel
  <1>1. Init => AddressKept(a)
        BY DEF Init, AddressKept
  <1>2. TypeOK /\ ip \in {a, NoAddress} /\ AddressKept(a) /\ [Next]_vars => AddressKept(a)'
    <2> SUFFICES ASSUME TypeOK, ip \in {a, NoAddress}, AddressKept(a), [Next]_vars
                 PROVE  AddressKept(a)'
        OBVIOUS
    <2> USE DEF TypeOK, AddressKept
    <2>1. CASE MainStep
          BY <2>1 DEF MainStep, SettleMode, StartAll, MainReturns, Servers
    <2>2. CASE ManagerStep \/ Awake \/ Tick \/ Restart
          BY <2>2 DEF ManagerStep, ManagerStops, ManagerDone, Awake, Tick, Restart
    <2>3. CASE Signal \/ ConfigFails \/ ManagerFails \/ InterfaceChanges \/ UNCHANGED vars
          BY <2>3 DEF Signal, ConfigFails, ManagerFails, InterfaceChanges, vars, procVars
    <2>4. ASSUME NEW s \in Servers, FindInterface(s) PROVE AddressKept(a)'
          BY <2>4 DEF FindInterface
    <2>5. ASSUME NEW s \in Servers, StartListening(s) \/ ShutdownBegins(s) \/ ShutdownEnds(s)
          PROVE  AddressKept(a)'
          BY <2>5 DEF StartListening, ShutdownBegins, ShutdownEnds
    <2>6. ASSUME NEW s \in Servers,
                 ListenReturns(s) \/ ListenOpens(s) \/ ListenFails(s)
                   \/ RequestArrives(s) \/ RequestEnds(s)
          PROVE  AddressKept(a)'
          BY <2>6 DEF ListenReturns, ListenOpens, ListenFails, RequestArrives, RequestEnds
    <2> QED  BY <2>1, <2>2, <2>3, <2>4, <2>5, <2>6 DEF Next, ServerStep
  <1>3. Shape /\ ip \in {a, NoAddress} /\ AddressKept(a) => BoundToTunnel
        BY DEF Shape, AddressKept, BoundToTunnel, Reachable
  <1>4. IInv => TypeOK /\ Shape  BY DEF IInv
  <1> QED  BY <1>1, <1>2, <1>3, <1>4, IInvariant, PTL DEF Spec
=============================================================================
