--------------------------- MODULE UserSyncProofs ----------------------------
(***************************************************************************)
(* Theorems about UserSync, for any addresses, users, answers, failures    *)
(* and restarts, checked by TLAPS.                                         *)
(***************************************************************************)
EXTENDS UserSync, TLAPS

-----------------------------------------------------------------------------
(* Type correctness                                                          *)

LEMMA TypeInit == Init => TypeOK
  <1> SUFFICES ASSUME Init PROVE TypeOK
      OBVIOUS
  <1>1. past \in Seq(Mappings) /\ Len(past) = 1
        BY DEF Init
  <1>2. table \in [Addresses -> [user : Users \cup {NoUser}, from : Nat]]
        BY DEF Init, Unmapped
  <1>3. seen \in [Addresses -> Nat]  BY DEF Init
  <1>4. restarts \in 0 .. MaxRestarts /\ faults \in 0 .. MaxFaults
        BY UserSyncAssumption DEF Init
  <1>5. /\ mode \in {"auth", "noauth"} /\ configured \in BOOLEAN
        /\ ctxDone \in BOOLEAN /\ tick \in BOOLEAN /\ reply = "none"
        /\ pc = "start" /\ answer = 0 /\ todo = {} /\ taken = {}
        BY DEF Init
  <1> QED  BY <1>1, <1>2, <1>3, <1>4, <1>5 DEF TypeOK

\* The present mappings are mappings, and stay past ones when the server
\* changes them.
LEMMA PastGrows ==
  ASSUME TypeOK, ServerChanges
  PROVE  /\ past' \in Seq(Mappings)
         /\ Len(past') = Len(past) + 1
         /\ \A v \in 1 .. Len(past) : past'[v] = past[v]
  <1>1. PICK m \in Mappings : past' = Append(past, m)
        BY DEF ServerChanges
  <1> QED  BY <1>1 DEF TypeOK

LEMMA TypeStep == TypeOK /\ [Next]_vars => TypeOK'
  <1> SUFFICES ASSUME TypeOK, [Next]_vars PROVE TypeOK'
      OBVIOUS
  <1> USE UserSyncAssumption DEF environment, sync, requests
  <1>1. CASE SyncStarts  BY <1>1 DEF SyncStarts, TypeOK
  <1>2. CASE Tick  BY <1>2 DEF Tick, TypeOK
  <1>3. CASE TakeTick  BY <1>3 DEF TakeTick, TypeOK
  <1>4. CASE StopSync  BY <1>4 DEF StopSync, TypeOK
  <1>5. CASE ServerAnswers  BY <1>5 DEF ServerAnswers, TypeOK
  <1>6. CASE FetchFails  BY <1>6 DEF FetchFails, TypeOK
  <1>7. CASE Decoded  BY <1>7 DEF Decoded, Named, TypeOK
  <1>8. CASE Applied  BY <1>8 DEF Applied, TypeOK
  <1>9. ASSUME NEW a \in Addresses, SetUserMapping(a) PROVE TypeOK'
    <2>1. answer \in 1 .. Len(past) /\ answer \in Nat
          BY <1>9 DEF SetUserMapping, TypeOK
    <2>2. past[answer][a] \in Users \cup {NoUser}
          BY <2>1 DEF TypeOK, Mappings
    <2>3. table' \in [Addresses -> [user : Users \cup {NoUser}, from : Nat]]
          BY <1>9, <2>1, <2>2 DEF SetUserMapping, TypeOK
    <2> QED  BY <1>9, <2>3 DEF SetUserMapping, TypeOK
  <1>10. ASSUME NEW a \in Addresses, NEW authorized \in BOOLEAN,
                Request(a, authorized)
         PROVE TypeOK'
    <2>1. seen' \in [Addresses -> Nat]  BY <1>10 DEF Request, TypeOK
    <2>2. reply' \in {"none", "refused", "unchanged", "impersonated"}
          BY <1>10 DEF Request
    <2> QED  BY <1>10, <2>1, <2>2 DEF Request, TypeOK
  <1>11. CASE ServerChanges
         BY <1>11, PastGrows DEF ServerChanges, TypeOK
  <1>12. CASE Cancel  BY <1>12 DEF Cancel, TypeOK
  <1>13. CASE ProcessExits
    <2>1. table' \in [Addresses -> [user : Users \cup {NoUser}, from : Nat]]
          BY <1>13 DEF ProcessExits, Unmapped
    <2>2. seen' \in [Addresses -> Nat]  BY <1>13 DEF ProcessExits
    <2>3. /\ taken' = {} /\ todo' = {} /\ answer' = 0 /\ pc' = "off"
          /\ reply' = "none" /\ tick' = FALSE /\ ctxDone' = FALSE
          /\ UNCHANGED <<past, mode, configured, restarts, faults>>
          BY <1>13 DEF ProcessExits
    <2>4. past' \in Seq(Mappings) /\ Len(past') \in Nat \ {0}
          BY <2>3 DEF TypeOK
    <2>5. /\ mode' \in {"auth", "noauth"} /\ configured' \in BOOLEAN
          /\ tick' \in BOOLEAN /\ ctxDone' \in BOOLEAN
          BY <2>3 DEF TypeOK
    <2>6. restarts' \in 0 .. MaxRestarts /\ faults' \in 0 .. MaxFaults
          BY <2>3 DEF TypeOK
    <2>7. /\ answer' \in 0 .. Len(past')
          /\ answer' # 0 <=> pc' \in {"answered", "apply"}
          BY <2>3, <2>4
    <2> QED  BY <2>1, <2>2, <2>3, <2>4, <2>5, <2>6, <2>7 DEF TypeOK
  <1>14. CASE Restart  BY <1>14 DEF Restart, Up, TypeOK
  <1>15. CASE UNCHANGED vars  BY <1>15 DEF vars, TypeOK
  <1> QED  BY <1>1, <1>2, <1>3, <1>4, <1>5, <1>6, <1>7, <1>8, <1>9, <1>10, <1>11,
              <1>12, <1>13, <1>14, <1>15 DEF Next, Fetch

\* Every variable keeps its type (the state of UserIPMapWithMutex and of
\* startExternalAPISync).
THEOREM UserSyncTypeCorrect == Spec => []TypeOK
  <1>1. Init => TypeOK  BY TypeInit
  <1>2. TypeOK /\ [Next]_vars => TypeOK'  BY TypeStep
  <1> QED  BY <1>1, <1>2, PTL DEF Spec

-----------------------------------------------------------------------------
(* The table is what the answers say                                         *)

\* Answers come in the order of the versions: the one being worked on is as late
\* as any taken, and a mapping came with an answer that was taken.
AnswersInOrder ==
  /\ answer # 0 => \A v \in taken : v <= answer
  /\ pc = "apply" => answer \in taken
  /\ \A a \in todo : past[answer][a] # NoUser
  /\ \A a \in Addresses : table[a].from \in taken \cup {0}

LEMMA OrderInit == Init => AnswersInOrder
  BY DEF Init, AnswersInOrder, Unmapped

LEMMA OrderStep == TypeOK /\ AnswersInOrder /\ [Next]_vars => AnswersInOrder'
  <1> SUFFICES ASSUME TypeOK, AnswersInOrder, [Next]_vars PROVE AnswersInOrder'
      OBVIOUS
  <1> USE DEF environment, sync, requests
  <1>1. CASE SyncStarts  BY <1>1 DEF SyncStarts, TypeOK, AnswersInOrder
  <1>2. CASE Tick  BY <1>2 DEF Tick, AnswersInOrder
  <1>3. CASE TakeTick  BY <1>3 DEF TakeTick, TypeOK, AnswersInOrder
  <1>4. CASE StopSync  BY <1>4 DEF StopSync, TypeOK, AnswersInOrder
  <1>5. CASE ServerAnswers  BY <1>5 DEF ServerAnswers, TypeOK, AnswersInOrder
  <1>6. CASE FetchFails  BY <1>6 DEF FetchFails, TypeOK, AnswersInOrder
  <1>7. CASE Decoded  BY <1>7 DEF Decoded, Named, TypeOK, AnswersInOrder
  <1>8. CASE Applied  BY <1>8 DEF Applied, TypeOK, AnswersInOrder
  <1>9. ASSUME NEW a \in Addresses, SetUserMapping(a) PROVE AnswersInOrder'
        BY <1>9 DEF SetUserMapping, TypeOK, AnswersInOrder
  <1>10. ASSUME NEW a \in Addresses, NEW authorized \in BOOLEAN,
                Request(a, authorized)
         PROVE AnswersInOrder'
         BY <1>10 DEF Request, AnswersInOrder
  <1>11. CASE ServerChanges
    <2>1. \A a \in todo : past'[answer] = past[answer]
          BY <1>11, PastGrows DEF TypeOK
    <2> QED  BY <1>11, <2>1 DEF ServerChanges, AnswersInOrder
  <1>12. CASE Cancel  BY <1>12 DEF Cancel, AnswersInOrder
  <1>13. CASE ProcessExits  BY <1>13 DEF ProcessExits, Unmapped, AnswersInOrder
  <1>14. CASE Restart  BY <1>14 DEF Restart, Up, TypeOK, AnswersInOrder
  <1>15. CASE UNCHANGED vars  BY <1>15 DEF vars, AnswersInOrder
  <1> QED  BY <1>1, <1>2, <1>3, <1>4, <1>5, <1>6, <1>7, <1>8, <1>9, <1>10, <1>11,
              <1>12, <1>13, <1>14, <1>15 DEF Next, Fetch

LEMMA LastNamedInit == Init => TableIsLastNamed
  BY DEF Init, TableIsLastNamed, LastNamed

LEMMA LastNamedStep ==
  TypeOK /\ AnswersInOrder /\ TableIsLastNamed /\ [Next]_vars => TableIsLastNamed'
  <1> SUFFICES ASSUME TypeOK, AnswersInOrder, TableIsLastNamed, [Next]_vars
               PROVE  TableIsLastNamed'
      OBVIOUS
  <1> USE DEF environment, sync, requests, TableIsLastNamed, LastNamed
  <1>1. CASE SyncStarts  BY <1>1 DEF SyncStarts
  <1>2. CASE Tick  BY <1>2 DEF Tick
  <1>3. CASE TakeTick  BY <1>3 DEF TakeTick
  <1>4. CASE StopSync  BY <1>4 DEF StopSync
  <1>5. CASE ServerAnswers
        BY <1>5 DEF ServerAnswers, TypeOK
  <1>6. CASE FetchFails  BY <1>6 DEF FetchFails, TypeOK
  <1>7. CASE Decoded
    <2> SUFFICES ASSUME NEW a \in Addresses
                 PROVE  (\/ LastNamed(a, taken)
                         \/ a \in todo /\ LastNamed(a, taken \ {answer}))'
        OBVIOUS
    <2>1. LastNamed(a, taken)  BY <1>7 DEF Decoded, TypeOK
    <2>2. CASE answer \in taken
      <3>1. taken' = taken /\ UNCHANGED <<past, table>>
            BY <1>7, <2>2 DEF Decoded
      <3> QED  BY <2>1, <3>1
    <2>3. CASE answer \notin taken /\ a \in Named(answer)
      <3>1. taken' \ {answer'} = taken  BY <1>7, <2>3 DEF Decoded
      <3> QED  BY <1>7, <2>1, <2>3, <3>1 DEF Decoded
    <2>4. CASE a \notin Named(answer)
          BY <1>7, <2>1, <2>4 DEF Decoded, Named
    <2> QED  BY <2>2, <2>3, <2>4
  <1>8. CASE Applied  BY <1>8 DEF Applied
  <1>9. ASSUME NEW a \in Addresses, SetUserMapping(a) PROVE TableIsLastNamed'
    <2> SUFFICES ASSUME NEW b \in Addresses
                 PROVE  (\/ LastNamed(b, taken)
                         \/ b \in todo /\ LastNamed(b, taken \ {answer}))'
        OBVIOUS
    <2>1. CASE b = a
      <3>1. table'[a] = [user |-> past[answer][a], from |-> answer]
            BY <1>9 DEF SetUserMapping, TypeOK
      <3>2. answer \in taken /\ past[answer][a] # NoUser /\ \A v \in taken : v <= answer
            BY <1>9 DEF SetUserMapping, AnswersInOrder, TypeOK
      <3>3. UNCHANGED <<past, taken>>  BY <1>9 DEF SetUserMapping
      <3>4. LastNamed(a, taken)'  BY <3>1, <3>2, <3>3
      <3> QED  BY <2>1, <3>4
    <2>2. CASE b # a
      <3>1. table'[b] = table[b]  BY <1>9, <2>2 DEF SetUserMapping, TypeOK
      <3>2. UNCHANGED <<past, taken, answer>> /\ (b \in todo' <=> b \in todo)
            BY <1>9, <2>2 DEF SetUserMapping
      <3>3. CASE LastNamed(b, taken)  BY <3>1, <3>2, <3>3
      <3>4. CASE b \in todo /\ LastNamed(b, taken \ {answer})
            BY <3>1, <3>2, <3>4
      <3> QED  BY <3>3, <3>4
    <2> QED  BY <2>1, <2>2
  <1>10. ASSUME NEW a \in Addresses, NEW authorized \in BOOLEAN,
                Request(a, authorized)
         PROVE TableIsLastNamed'
         BY <1>10 DEF Request
  <1>11. CASE ServerChanges
    <2>1. \A v \in taken : past'[v] = past[v]
          BY <1>11, PastGrows DEF TypeOK
    <2>2. UNCHANGED <<table, taken, todo, answer>>
          BY <1>11 DEF ServerChanges
    <2> QED  BY <2>1, <2>2
  <1>12. CASE Cancel  BY <1>12 DEF Cancel
  <1>13. CASE ProcessExits  BY <1>13 DEF ProcessExits
  <1>14. CASE Restart  BY <1>14 DEF Restart
  <1>15. CASE UNCHANGED vars  BY <1>15 DEF vars
  <1> QED  BY <1>1, <1>2, <1>3, <1>4, <1>5, <1>6, <1>7, <1>8, <1>9, <1>10, <1>11,
              <1>12, <1>13, <1>14, <1>15 DEF Next, Fetch

\* However fetches, failures and restarts fall, the proxy impersonates each
\* address as the last answer naming it says, half-applied answers included
\* (fetchUserMappingsFromAPI, SetUserMapping).
THEOREM TableFollowsAnswers == Spec => []TableIsLastNamed
  <1> DEFINE Inv == TypeOK /\ AnswersInOrder /\ TableIsLastNamed
  <1>1. Init => Inv
        BY TypeInit, OrderInit, LastNamedInit
  <1>2. Inv /\ [Next]_vars => Inv'
        BY TypeStep, OrderStep, LastNamedStep
  <1>3. Inv => TableIsLastNamed
        OBVIOUS
  <1> QED  BY <1>1, <1>2, <1>3, PTL DEF Spec

-----------------------------------------------------------------------------
(* Requests never go back                                                    *)

\* No request was impersonated under a later mapping than the table holds.
SeenInTable == \A a \in Addresses : seen[a] <= table[a].from

\* The mapping of an address only moves to later versions while a process lives.
LEMMA MappingsMoveForward ==
  ASSUME TypeOK, AnswersInOrder, NEW a \in Addresses, SetUserMapping(a)
  PROVE  \A b \in Addresses : table[b].from <= table'[b].from
  <1>1. answer \in Nat /\ \A v \in taken : v <= answer
        BY DEF SetUserMapping, AnswersInOrder, TypeOK
  <1>2. \A b \in Addresses : table[b].from \in Nat /\ table[b].from \in taken \cup {0}
        BY DEF TypeOK, AnswersInOrder
  <1>3. table'[a].from = answer  BY DEF SetUserMapping, TypeOK
  <1>4. \A b \in Addresses \ {a} : table'[b] = table[b]
        BY DEF SetUserMapping, TypeOK
  <1> QED  BY <1>1, <1>2, <1>3, <1>4

LEMMA SeenInit == Init => SeenInTable
  <1> SUFFICES ASSUME Init, NEW a \in Addresses PROVE seen[a] <= table[a].from
      BY DEF SeenInTable
  <1>1. seen[a] = 0 /\ table[a] = Unmapped  BY DEF Init
  <1> QED  BY <1>1 DEF Unmapped

LEMMA SeenStep ==
  TypeOK /\ AnswersInOrder /\ SeenInTable /\ [Next]_vars
    => SeenInTable' /\ \A a \in Addresses : Up /\ Up' => seen[a] <= seen'[a]
  <1> SUFFICES ASSUME TypeOK, AnswersInOrder, SeenInTable, [Next]_vars
               PROVE  /\ SeenInTable'
                      /\ \A a \in Addresses : Up /\ Up' => seen[a] <= seen'[a]
      OBVIOUS
  <1>0. \A a \in Addresses : seen[a] \in Nat /\ table[a].from \in Nat
        BY DEF TypeOK
  <1>1. ASSUME UNCHANGED <<table, seen>>
        PROVE  /\ SeenInTable'
               /\ \A a \in Addresses : Up /\ Up' => seen[a] <= seen'[a]
        BY <1>0, <1>1 DEF SeenInTable
  <1>2. ASSUME NEW a \in Addresses, SetUserMapping(a)
        PROVE  /\ SeenInTable'
               /\ \A b \in Addresses : Up /\ Up' => seen[b] <= seen'[b]
    <2>1. UNCHANGED seen  BY <1>2 DEF SetUserMapping, requests
    <2>2. \A b \in Addresses : table'[b].from \in Nat
          BY <1>2, TypeStep DEF TypeOK, Next
    <2> QED  BY <1>0, <1>2, <2>1, <2>2, MappingsMoveForward DEF SeenInTable
  <1>3. ASSUME NEW a \in Addresses, NEW authorized \in BOOLEAN,
               Request(a, authorized)
        PROVE  /\ SeenInTable'
               /\ \A b \in Addresses : Up /\ Up' => seen[b] <= seen'[b]
    <2>1. UNCHANGED table  BY <1>3 DEF Request
    <2>2. \A b \in Addresses : seen'[b] = seen[b] \/ seen'[b] = table[b].from
          BY <1>3 DEF Request, TypeOK
    <2> QED  BY <1>0, <2>1, <2>2 DEF SeenInTable
  <1>4. CASE ProcessExits
    <2>1. ~Up'  BY <1>4 DEF ProcessExits, Up
    <2>2. SeenInTable'  BY <1>4 DEF ProcessExits, SeenInTable, Unmapped
    <2> QED  BY <2>1, <2>2
  <1>5. CASE SyncStarts  BY <1>1, <1>5 DEF SyncStarts, requests
  <1>6. CASE Tick \/ TakeTick \/ StopSync
        BY <1>1, <1>6 DEF Tick, TakeTick, StopSync, requests
  <1>7. CASE Fetch
        BY <1>1, <1>7 DEF Fetch, ServerAnswers, FetchFails, Decoded, Applied, requests
  <1>8. CASE ServerChanges \/ Cancel
        BY <1>1, <1>8 DEF ServerChanges, Cancel, requests
  <1>9. CASE Restart  BY <1>1, <1>9 DEF Restart, requests
  <1>10. CASE UNCHANGED vars  BY <1>1, <1>10 DEF vars, requests
  <1> QED  BY <1>2, <1>3, <1>4, <1>5, <1>6, <1>7, <1>8, <1>9, <1>10 DEF Next

\* Within a process no request is forwarded under an older mapping than one before
\* it, nor as the configured user again (createAuthMiddleware).
THEOREM RequestsMoveForward == Spec => RequestsNeverGoBack
  <1> DEFINE Inv == TypeOK /\ AnswersInOrder /\ SeenInTable
  <1>1. Init => Inv
        BY TypeInit, OrderInit, SeenInit
  <1>2. Inv /\ [Next]_vars => Inv'
        BY TypeStep, OrderStep, SeenStep
  <1>3. Inv /\ [Next]_vars
          => [\A a \in Addresses : Up /\ Up' => seen[a] <= seen'[a]]_vars
        BY SeenStep
  <1> QED  BY <1>1, <1>2, <1>3, PTL DEF Spec, RequestsNeverGoBack
-----------------------------------------------------------------------------
(* The promise                                                               *)

\* What version v says of c is in the table, or something later is.
Written(v, c) == past[v][c] # NoUser => v <= table[c].from

\* The answer being applied is written but for what is to do, and so is each
\* version that shows in the table.
OneByOne ==
  /\ pc = "apply" => \A c \in Addresses \ todo : Written(answer, c)
  /\ \A b, c \in Addresses :
       table[b].from # 0 =>
         \/ Written(table[b].from, c)
         \/ c \in todo /\ answer = table[b].from

LEMMA OneByOneInit == Init => OneByOne
  <1> SUFFICES ASSUME Init PROVE OneByOne
      OBVIOUS
  <1>1. pc = "start" /\ \A b \in Addresses : table[b].from = 0
        BY DEF Init, Unmapped
  <1> QED  BY <1>1 DEF OneByOne

LEMMA OneByOneStep ==
  TypeOK /\ AnswersInOrder /\ OneByOne /\ [Next]_vars => OneByOne'
  <1> SUFFICES ASSUME TypeOK, AnswersInOrder, OneByOne, [Next]_vars PROVE OneByOne'
      OBVIOUS
  <1> USE DEF environment, sync, requests, OneByOne, Written
  <1>0. \A a \in Addresses : table[a].from \in Nat  BY DEF TypeOK
  <1>1. CASE SyncStarts  BY <1>1 DEF SyncStarts, TypeOK
  <1>2. CASE Tick  BY <1>2 DEF Tick
  <1>3. CASE TakeTick  BY <1>3 DEF TakeTick, TypeOK
  <1>4. CASE StopSync  BY <1>4 DEF StopSync, TypeOK
  <1>5. CASE ServerAnswers  BY <1>5 DEF ServerAnswers, TypeOK
  <1>6. CASE FetchFails  BY <1>6 DEF FetchFails, TypeOK
  <1>7. CASE Decoded
    <2>1. todo = {}  BY <1>7 DEF Decoded, TypeOK
    <2>2. UNCHANGED <<past, table, answer>> /\ todo' = Named(answer)
          BY <1>7 DEF Decoded
    <2>3. \A c \in Addresses \ todo' : past[answer][c] = NoUser
          BY <2>2 DEF Named
    <2>4. \A b, c \in Addresses : table[b].from # 0 => Written(table[b].from, c)
          BY <2>1
    <2> QED  BY <2>2, <2>3, <2>4
  <1>8. CASE Applied  BY <1>8 DEF Applied
  <1>9. ASSUME NEW a \in Addresses, SetUserMapping(a) PROVE OneByOne'
    <2>1. answer \in Nat /\ answer \in 1 .. Len(past) /\ pc = "apply" /\ a \in todo
          BY <1>9 DEF SetUserMapping, TypeOK
    <2>2. UNCHANGED <<past, answer, pc>> /\ todo' = todo \ {a}
          BY <1>9 DEF SetUserMapping
    <2>3. table'[a].from = answer /\ \A b \in Addresses \ {a} : table'[b] = table[b]
          BY <1>9 DEF SetUserMapping, TypeOK
    <2>4. \A b \in Addresses : table[b].from <= answer
          BY <2>1, <1>0 DEF AnswersInOrder, TypeOK
    <2>5. \A v \in Nat, c \in Addresses : Written(v, c) /\ v <= answer => Written(v, c)'
          BY <1>0, <2>1, <2>2, <2>3
    <2>6. \A c \in Addresses \ todo' : Written(answer, c)'
      <3>1. Written(answer, a)'  BY <2>1, <2>2, <2>3
      <3>2. \A c \in Addresses \ todo : Written(answer, c)'  BY <2>1, <2>2, <2>5
      <3> QED  BY <2>2, <3>1, <3>2
    <2>7. ASSUME NEW b \in Addresses, NEW c \in Addresses, table'[b].from # 0
          PROVE  \/ Written(table[b].from, c)'
                 \/ c \in todo' /\ answer' = table'[b].from
      <3>1. CASE table'[b].from = answer
        <4>1. CASE c \in todo'  BY <2>2, <3>1, <4>1
        <4>2. CASE c \notin todo'  BY <2>2, <2>6, <3>1, <4>2
        <4> QED  BY <4>1, <4>2
      <3>2. CASE table'[b].from # answer
        <4>1. b # a /\ table'[b] = table[b]  BY <2>3, <3>2
        <4>2. Written(table[b].from, c)  BY <2>7, <3>2, <4>1
        <4>3. table[b].from \in Nat /\ table[b].from <= answer  BY <1>0, <2>4
        <4>4. past[table[b].from][c] # NoUser => table[b].from <= table'[c].from
              BY <2>5, <4>2, <4>3, <2>2
        <4>5. Written(table[b].from, c)'  BY <2>2, <4>1, <4>4
        <4> QED  BY <4>5
      <3> QED  BY <3>1, <3>2
    <2> QED  BY <2>2, <2>6, <2>7
  <1>10. ASSUME NEW a \in Addresses, NEW authorized \in BOOLEAN,
                Request(a, authorized)
         PROVE OneByOne'
         BY <1>10 DEF Request
  <1>11. CASE ServerChanges
    <2>1. \A v \in 1 .. Len(past) : past'[v] = past[v]
          BY <1>11, PastGrows
    <2>2. UNCHANGED <<pc, table, todo, answer>>
          BY <1>11 DEF ServerChanges
    <2>3. pc = "apply" => answer \in 1 .. Len(past)  BY DEF TypeOK
    <2>4. \A b \in Addresses : table[b].from # 0 => table[b].from \in 1 .. Len(past)
          BY DEF AnswersInOrder, TypeOK
    <2> QED  BY <2>1, <2>2, <2>3, <2>4
  <1>12. CASE Cancel  BY <1>12 DEF Cancel
  <1>13. CASE ProcessExits  BY <1>13 DEF ProcessExits, Unmapped
  <1>14. CASE Restart  BY <1>14 DEF Restart
  <1>15. CASE UNCHANGED vars  BY <1>15 DEF vars
  <1> QED  BY <1>1, <1>2, <1>3, <1>4, <1>5, <1>6, <1>7, <1>8, <1>9, <1>10, <1>11,
              <1>12, <1>13, <1>14, <1>15 DEF Next, Fetch

LEMMA PromiseInit == Init => Promise!Init
  BY DEF Init, Up, Mappings, Unmapped, Promise!Init, Promise!Nothing, Promise!Never

\* A write of the table is what the promise lets an address learn.
LEMMA PromiseLearn ==
  ASSUME TypeOK, AnswersInOrder, OneByOne, NEW a \in Addresses, SetUserMapping(a)
  PROVE  answer \in 1 .. Len(past) /\ Promise!Learn(a, answer)
  <1>1. answer \in 1 .. Len(past) /\ answer \in Nat /\ pc = "apply" /\ a \in todo
        BY DEF SetUserMapping, TypeOK
  <1>2. past[answer][a] # NoUser  BY <1>1 DEF AnswersInOrder
  <1>3. ASSUME NEW b \in Addresses
        PROVE  /\ table[b].from <= answer
               /\ table[b].from \in {0, answer} \/ Promise!Complete(table[b].from)
    <2>1. table[b].from \in Nat  BY DEF TypeOK
    <2>2. table[b].from <= answer  BY <1>1, <2>1 DEF AnswersInOrder
    <2>3. ASSUME table[b].from # 0, table[b].from # answer, NEW c \in Addresses,
                 past[table[b].from][c] # NoUser
          PROVE  table[b].from <= table[c].from
          BY <2>3 DEF OneByOne, Written
    <2>4. table[b].from \notin {0, answer} => Promise!Complete(table[b].from)
          BY <2>3 DEF Promise!Complete, Promise!Names
    <2> QED  BY <2>2, <2>4
  <1>4. UNCHANGED <<past, seen, Up>>
        BY DEF SetUserMapping, requests, Up
  <1> QED  BY <1>1, <1>2, <1>3, <1>4 DEF SetUserMapping, Promise!Learn, Promise!Names

LEMMA PromiseStep ==
  TypeOK /\ AnswersInOrder /\ OneByOne /\ [Next]_vars => [Promise!Next]_(Promise!vars)
  <1> SUFFICES ASSUME TypeOK, AnswersInOrder, OneByOne, [Next]_vars
               PROVE  Promise!Next \/ UNCHANGED Promise!vars
      OBVIOUS
  <1> USE DEF environment, sync, requests
  <1>1. ASSUME UNCHANGED <<past, table, seen>>, Up' = Up
        PROVE  UNCHANGED Promise!vars
        BY <1>1 DEF Promise!vars
  <1>2. CASE SyncStarts  BY <1>1, <1>2 DEF SyncStarts, Up
  <1>3. CASE Tick \/ TakeTick \/ StopSync
        BY <1>1, <1>3 DEF Tick, TakeTick, StopSync, Up
  <1>4. CASE Fetch
        BY <1>1, <1>4 DEF Fetch, ServerAnswers, FetchFails, Decoded, Applied, Up
  <1>5. ASSUME NEW a \in Addresses, SetUserMapping(a) PROVE Promise!Next
        BY <1>5, PromiseLearn DEF Promise!Next
  <1>6. ASSUME NEW a \in Addresses, NEW authorized \in BOOLEAN,
               Request(a, authorized)
        PROVE  Promise!Next \/ UNCHANGED Promise!vars
    <2>1. UNCHANGED <<past, table, pc>> /\ Up /\ Up' = Up
          BY <1>6 DEF Request, Up
    <2>2. CASE UNCHANGED seen  BY <1>1, <2>1, <2>2
    <2>3. CASE ~UNCHANGED seen
      <3>1. seen' = [seen EXCEPT ![a] = table[a].from]
            BY <1>6, <2>3 DEF Request
      <3> QED  BY <2>1, <3>1 DEF Promise!Next, Promise!Serve
    <2> QED  BY <2>2, <2>3
  <1>7. CASE ServerChanges
    <2>1. PICK m \in Mappings : past' = Append(past, m)  BY <1>7 DEF ServerChanges
    <2>2. UNCHANGED <<table, seen, Up>>  BY <1>7 DEF ServerChanges, Up
    <2>3. Promise!Change  BY <2>1, <2>2 DEF Promise!Change, Mappings
    <2> QED  BY <2>3 DEF Promise!Next
  <1>8. CASE Cancel  BY <1>1, <1>8 DEF Cancel, Up
  <1>9. CASE ProcessExits
    <2>1. Promise!Forget
          BY <1>9 DEF ProcessExits, Up, Unmapped, Promise!Forget, Promise!Nothing,
                      Promise!Never
    <2> QED  BY <2>1 DEF Promise!Next
  <1>10. CASE Restart
    <2>1. Promise!Return  BY <1>10 DEF Restart, Up, Promise!Return
    <2> QED  BY <2>1 DEF Promise!Next
  <1>11. CASE UNCHANGED vars  BY <1>1, <1>11 DEF vars, Up
  <1> QED  BY <1>2, <1>3, <1>4, <1>5, <1>6, <1>7, <1>8, <1>9, <1>10, <1>11 DEF Next

\* The proxy implements MappingPromise: seen from a client, answers take effect one
\* after the other in the order of their versions, and each request is served as
\* one of them says (startExternalAPISync, SetUserMapping, createAuthMiddleware).
THEOREM ProxyFollowsPromise == Spec => FollowsPromise
  <1> DEFINE Inv == TypeOK /\ AnswersInOrder /\ OneByOne
  <1>1. Init => Inv
        BY TypeInit, OrderInit, OneByOneInit
  <1>2. Inv /\ [Next]_vars => Inv'
        BY TypeStep, OrderStep, OneByOneStep
  <1>3. Inv /\ [Next]_vars => [Promise!Next]_(Promise!vars)
        BY PromiseStep
  <1> HIDE DEF Inv
  <1> QED  BY <1>1, <1>2, <1>3, PromiseInit, PTL DEF Spec, FollowsPromise, Promise!Spec
=============================================================================
