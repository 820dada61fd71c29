--------------------------- MODULE MappingPromise ----------------------------
(***************************************************************************)
(* What a client of the Kubernetes proxy may rely on, with no goroutine,   *)
(* fetch, tick or lock in it: whose requests are whose, as the server has  *)
(* said at one time or another.                                            *)
(***************************************************************************)
EXTENDS Naturals, Sequences

CONSTANTS Addresses, Users, NoUser

VARIABLES
  past,   \* past[v]: version v of the server's mappings
  known,  \* known[a]: the user of a, and the version that said so
  seen,   \* seen[a]: the version the last request of a was served under
  up      \* there is a process

vars == <<past, known, seen, up>>

Nothing == [a \in Addresses |-> [user |-> NoUser, from |-> 0]]
Never == [a \in Addresses |-> 0]

\* Version v names address a.
Names(v, a) == past[v][a] # NoUser

\* Every address version v names is known as v says, or as a later version does.
Complete(v) == \A a \in Addresses : Names(v, a) => v <= known[a].from

Init ==
  /\ \E m \in [Addresses -> Users \cup {NoUser}] : past = <<m>>
  /\ known = Nothing
  /\ seen = Never
  /\ up = TRUE

Change ==
  /\ \E m \in [Addresses -> Users \cup {NoUser}] : past' = Append(past, m)
  /\ UNCHANGED <<known, seen, up>>

\* Address a becomes known as version v says.  Nothing is known from a later
\* version, and what is known from earlier ones is complete.
Learn(a, v) ==
  /\ Names(v, a)
  /\ \A b \in Addresses :
       /\ known[b].from <= v
       /\ known[b].from \in {0, v} \/ Complete(known[b].from)
  /\ known' = [known EXCEPT ![a] = [user |-> past[v][a], from |-> v]]
  /\ UNCHANGED <<past, seen, up>>

\* A request of a is served as what is known of a says.
Serve(a) ==
  /\ up
  /\ seen' = [seen EXCEPT ![a] = known[a].from]
  /\ UNCHANGED <<past, known, up>>

\* The process ends, and all it knew is forgotten.
Forget ==
  /\ up' = FALSE
  /\ known' = Nothing
  /\ seen' = Never
  /\ UNCHANGED past

Return ==
  /\ up' = TRUE
  /\ UNCHANGED <<past, known, seen>>

Next ==
  \/ \E a \in Addresses : Serve(a) \/ \E v \in 1 .. Len(past) : Learn(a, v)
  \/ Change \/ Forget \/ Return

Spec == Init /\ [][Next]_vars
=============================================================================
