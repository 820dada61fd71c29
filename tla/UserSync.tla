------------------------------ MODULE UserSync ------------------------------
(***************************************************************************)
(* Whom the Kubernetes proxy impersonates: the table of WireGuard          *)
(* addresses and users, the goroutine that fills it from the Netmaker API  *)
(* at every tick, and the middleware that reads it for every request.      *)
(*                                                                         *)
(* The goroutine fetches, decodes and applies one answer after the other,  *)
(* and holds the lock of the table for one address at a time, so requests  *)
(* are served before the first answer and in the middle of any.            *)
(***************************************************************************)
EXTENDS Naturals, Sequences

CONSTANTS
  Addresses,    \* WireGuard addresses of the peers
  Users,        \* users and their groups
  NoUser,
  MaxVersions,  \* bound: how often the server's mappings change
  MaxFaults,    \* bound: fetches that fail
  MaxRestarts   \* bound: processes after the first

ASSUME UserSyncAssumption ==
  /\ NoUser \notin Users
  /\ MaxVersions \in Nat /\ MaxFaults \in Nat /\ MaxRestarts \in Nat

VARIABLES
  past,        \* past[v]: version v of the server's mappings; the last is present
  mode,        \* PROXY_MODE of the process
  configured,  \* API_SERVER_DOMAIN and API_TOKEN are set
  ctxDone,     \* the process was told to stop
  pc,          \* where startExternalAPISync is
  tick,        \* the channel of the ticker holds a tick
  answer,      \* the version of the answer the goroutine works on, 0 if none
  todo,        \* the addresses of the answer not yet written to the table
  table,       \* table[a]: the mapping of a, and the version it came with
  taken,       \* history: the versions the process has begun to apply
  reply,       \* what became of the last request
  seen,        \* history: seen[a]: the version of the mapping under which the
               \* last request of a was impersonated, 0 for the configured user
  restarts,
  faults

environment == <<mode, configured>>
sync == <<pc, tick, answer, todo>>
requests == <<reply, seen>>
vars == <<past, environment, ctxDone, sync, table, taken, requests, restarts, faults>>

Mappings == [Addresses -> Users \cup {NoUser}]
Unmapped == [user |-> NoUser, from |-> 0]

TypeOK ==
  /\ past \in Seq(Mappings) /\ Len(past) \in Nat \ {0}
  /\ mode \in {"auth", "noauth"}
  /\ configured \in BOOLEAN
  /\ ctxDone \in BOOLEAN
  /\ pc \in {"off", "start", "asked", "answered", "apply", "wait", "stopped"}
  /\ tick \in BOOLEAN
  /\ answer \in 0 .. Len(past)
  /\ answer # 0 <=> pc \in {"answered", "apply"}
  /\ todo \in SUBSET Addresses
  /\ todo # {} => pc = "apply"
  /\ table \in [Addresses -> [user : Users \cup {NoUser}, from : Nat]]
  /\ taken \in SUBSET (1 .. Len(past))
  /\ reply \in {"none", "refused", "unchanged", "impersonated"}
  /\ seen \in [Addresses -> Nat]
  /\ restarts \in 0 .. MaxRestarts
  /\ faults \in 0 .. MaxFaults

Up == pc # "off"
Present == past[Len(past)]

Init ==
  /\ \E m \in Mappings : past = <<m>>
  /\ mode \in {"auth", "noauth"}
  /\ configured \in BOOLEAN
  /\ ctxDone = FALSE
  /\ pc = "start" /\ tick = FALSE
  /\ answer = 0 /\ todo = {}
  /\ table = [a \in Addresses |-> Unmapped]
  /\ taken = {}
  /\ reply = "none" /\ seen = [a \in Addresses |-> 0]
  /\ restarts = 0
  /\ faults = 0

-----------------------------------------------------------------------------
(* startExternalAPISync                                                      *)

\* Without a configuration the goroutine ends.  Otherwise it starts its ticker
\* and asks at once.
SyncStarts ==
  /\ pc = "start"
  /\ pc' = IF configured THEN "asked" ELSE "stopped"
  /\ UNCHANGED <<past, environment, ctxDone, tick, answer, todo, table, taken,
                 requests, restarts, faults>>

\* The ticker runs from before the first fetch; its channel holds one tick and
\* drops what comes on top.
Tick ==
  /\ pc \in {"asked", "answered", "apply", "wait"}
  /\ ~tick
  /\ tick' = TRUE
  /\ UNCHANGED <<past, environment, ctxDone, pc, answer, todo, table, taken,
                 requests, restarts, faults>>

\* The select takes a tick, also when the context is done.
TakeTick ==
  /\ pc = "wait" /\ tick
  /\ pc' = "asked" /\ tick' = FALSE
  /\ UNCHANGED <<past, environment, ctxDone, answer, todo, table, taken,
                 requests, restarts, faults>>

\* A slip the runs must notice: a tick goes before the end of the context.
StopSync_TicksFirst ==
  /\ pc = "wait" /\ ctxDone /\ ~tick
  /\ pc' = "stopped"
  /\ UNCHANGED <<past, environment, ctxDone, tick, answer, todo, table, taken,
                 requests, restarts, faults>>

\* The select sees that the context is done.
StopSync ==
  /\ pc = "wait" /\ ctxDone
  /\ pc' = "stopped"
  /\ UNCHANGED <<past, environment, ctxDone, tick, answer, todo, table, taken,
                 requests, restarts, faults>>

-----------------------------------------------------------------------------
(* fetchUserMappingsFromAPI                                                  *)

\* The server answers with the mappings it has now.
ServerAnswers ==
  /\ pc = "asked"
  /\ pc' = "answered" /\ answer' = Len(past)
  /\ UNCHANGED <<past, environment, ctxDone, tick, todo, table, taken, requests,
                 restarts, faults>>

\* A slip the runs must notice: a failed fetch ends the goroutine.
FetchFails_Ends ==
  /\ pc \in {"asked", "answered"} /\ faults < MaxFaults
  /\ pc' = "stopped" /\ answer' = 0
  /\ faults' = faults + 1
  /\ UNCHANGED <<past, environment, ctxDone, tick, todo, table, taken, requests,
                 restarts>>

\* A slip the runs must notice: after a failure the answer is used all the same.
FetchFails_GoesOn ==
  /\ pc \in {"asked", "answered"} /\ faults < MaxFaults
  /\ pc' = "answered"
  /\ faults' = faults + 1
  /\ UNCHANGED <<past, environment, ctxDone, tick, answer, todo, table, taken,
                 requests, restarts>>

\* The request fails or times out, the status is not 200, or the answer cannot
\* be decoded.  All of it comes before the first write to the table.
FetchFails ==
  /\ pc \in {"asked", "answered"} /\ faults < MaxFaults
  /\ pc' = "wait" /\ answer' = 0
  /\ faults' = faults + 1
  /\ UNCHANGED <<past, environment, ctxDone, tick, todo, table, taken, requests,
                 restarts>>

Named(v) == {a \in Addresses : past[v][a] # NoUser}

\* A slip the runs must notice: the table is emptied before it is filled.
Decoded_Clears ==
  /\ pc = "answered"
  /\ pc' = "apply" /\ todo' = Named(answer)
  /\ taken' = taken \cup {answer}
  /\ table' = [a \in Addresses |-> Unmapped]
  /\ UNCHANGED <<past, environment, ctxDone, tick, answer, requests, restarts,
                 faults>>

\* The answer is decoded.  It names the addresses that have a user.
Decoded ==
  /\ pc = "answered"
  /\ pc' = "apply" /\ todo' = Named(answer)
  /\ taken' = taken \cup {answer}
  /\ UNCHANGED <<past, environment, ctxDone, tick, answer, table, requests,
                 restarts, faults>>

\* A slip the runs must notice: only addresses without a mapping get one.
SetUserMapping_KeepsOld(a) ==
  /\ pc = "apply" /\ a \in todo
  /\ todo' = todo \ {a}
  /\ table' = IF table[a] = Unmapped
              THEN [table EXCEPT ![a] = [user |-> past[answer][a], from |-> answer]]
              ELSE table
  /\ UNCHANGED <<past, environment, ctxDone, pc, tick, answer, taken, requests,
                 restarts, faults>>

\* One turn of the loop over the mappings of the answer, in any order.
SetUserMapping(a) ==
  /\ pc = "apply" /\ a \in todo
  /\ todo' = todo \ {a}
  /\ table' = [table EXCEPT ![a] = [user |-> past[answer][a], from |-> answer]]
  /\ UNCHANGED <<past, environment, ctxDone, pc, tick, answer, taken, requests,
                 restarts, faults>>

\* A slip the runs must notice: an entry the proxy does not understand ends the loop.
Applied_Early ==
  /\ pc = "apply"
  /\ pc' = "wait" /\ answer' = 0 /\ todo' = {}
  /\ UNCHANGED <<past, environment, ctxDone, tick, table, taken, requests,
                 restarts, faults>>

\* The loop is through with the answer.
Applied ==
  /\ pc = "apply" /\ todo = {}
  /\ pc' = "wait" /\ answer' = 0
  /\ UNCHANGED <<past, environment, ctxDone, tick, todo, table, taken, requests,
                 restarts, faults>>

-----------------------------------------------------------------------------
(* Requests                                                                  *)

\* createAuthMiddleware, for a request from a.  In auth mode the request is
\* impersonated, as the user of a or, when a is not in the table, as the
\* configured user.  Then it goes on if the proxy has credentials of its own or
\* the request carries an Authorization header, and else it is refused.
Request(a, authorized) ==
  /\ Up
  /\ IF ~authorized
     THEN reply' = "refused" /\ UNCHANGED seen
     ELSE IF mode = "noauth"
          THEN reply' = "unchanged" /\ UNCHANGED seen
          ELSE reply' = "impersonated" /\ seen' = [seen EXCEPT ![a] = table[a].from]
  /\ UNCHANGED <<past, environment, ctxDone, sync, table, taken, restarts,
                 faults>>

-----------------------------------------------------------------------------
(* The server and the process                                                *)

\* Users connect, disconnect, or come back with another's address.
ServerChanges ==
  /\ Len(past) < MaxVersions
  /\ \E m \in Mappings : m # Present /\ past' = Append(past, m)
  /\ UNCHANGED <<environment, ctxDone, sync, table, taken, requests, restarts,
                 faults>>

Cancel ==
  /\ Up /\ ~ctxDone
  /\ ctxDone' = TRUE
  /\ UNCHANGED <<past, environment, sync, table, taken, requests, restarts,
                 faults>>

\* The process ends, and the table with it: main does not wait for the goroutine.
ProcessExits ==
  /\ Up
  /\ pc' = "off" /\ tick' = FALSE /\ ctxDone' = FALSE
  /\ answer' = 0 /\ todo' = {}
  /\ table' = [a \in Addresses |-> Unmapped]
  /\ taken' = {}
  /\ reply' = "none" /\ seen' = [a \in Addresses |-> 0]
  /\ UNCHANGED <<past, environment, restarts, faults>>

Restart ==
  /\ ~Up /\ restarts < MaxRestarts
  /\ restarts' = restarts + 1
  /\ mode' \in {"auth", "noauth"}
  /\ pc' = "start"
  /\ UNCHANGED <<past, configured, ctxDone, tick, answer, todo, table, taken,
                 requests, faults>>

Fetch == ServerAnswers \/ FetchFails \/ Decoded \/ Applied

Next ==
  \/ SyncStarts \/ Tick \/ TakeTick \/ StopSync \/ Fetch
  \/ \E a \in Addresses : SetUserMapping(a)
  \/ \E a \in Addresses, authorized \in BOOLEAN : Request(a, authorized)
  \/ ServerChanges \/ Cancel \/ ProcessExits \/ Restart

Spec == Init /\ [][Next]_vars

\* The goroutine is scheduled, the client's timeout of 30 s ends every wait for
\* an answer, the ticker ticks, and a select with two ready cases draws lots.
Fairness ==
  /\ WF_vars(SyncStarts) /\ WF_vars(Tick) /\ WF_vars(TakeTick) /\ WF_vars(Fetch)
  /\ \A a \in Addresses : WF_vars(SetUserMapping(a))
  /\ SF_vars(StopSync)

FairSpec == Spec /\ Fairness

-----------------------------------------------------------------------------
(* Properties                                                                *)

\* table[a] is what the last answer of V that names a says of a.
LastNamed(a, V) ==
  \/ table[a] = Unmapped /\ \A v \in V : past[v][a] = NoUser
  \/ /\ table[a].from \in V
     /\ table[a].user = past[table[a].from][a]
     /\ table[a].user # NoUser
     /\ \A v \in V : past[v][a] # NoUser => v <= table[a].from

\* However fetches, failures and restarts fall, each address is impersonated as
\* the last answer naming it says; while an answer is being applied, an address
\* still to be written is as the answers before say.  So an address nobody holds
\* any more keeps its last user, and a request in the middle of an update sees
\* old or new, and never an empty table (proxy.go:287).
TableIsLastNamed ==
  \A a \in Addresses :
    \/ LastNamed(a, taken)
    \/ a \in todo /\ LastNamed(a, taken \ {answer})

\* Within a process, no request of an address is forwarded under an older
\* mapping than a request before it, nor under the configured user again once
\* the address was mapped (proxy.go:75-93, 287, 641).
RequestsNeverGoBack ==
  [][\A a \in Addresses : Up /\ Up' => seen[a] <= seen'[a]]_vars

Promise == INSTANCE MappingPromise WITH known <- table, up <- Up

\* With the goroutine, its fetches, ticks and failures hidden, the proxy implements
\* MappingPromise: answers take effect in the order of their versions and one after
\* the other, so that no answer is begun while an earlier one is written in part,
\* and a request is served as one of them says (proxy.go:226-324, 627-725).
FollowsPromise == Promise!Spec

\* If the server settles on a user of an address and the process stays, the proxy
\* comes to impersonate that user: a failed fetch, the first included, is made
\* up for at a later tick (proxy.go:308-321).
MappingsFollowServer ==
  \A a \in Addresses, u \in Users :
    <>[](configured /\ Up /\ ~ctxDone /\ Present[a] = u) => <>[](table[a].user = u)

\* Once the context is done the goroutine ends, though ticks go on coming while
\* it fetches (proxy.go:313-322).
SyncStops == ctxDone ~> pc \in {"stopped", "off"}
=============================================================================
