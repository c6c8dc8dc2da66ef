-------------------------- MODULE RegistrationFeed --------------------------
(***************************************************************************)
(* What SmBridgeRegistry.subscribe promises ("Yield each newly-registered  *)
(* card matching query", src/nest_adapters/registry_smbridge.py:141),      *)
(* without queues: a subscriber that has begun to iterate is handed the    *)
(* matching registrations made since then, each once and in their order,   *)
(* until it leaves.                                                        *)
(***************************************************************************)
EXTENDS Naturals, Sequences, FiniteSets

CONSTANTS Card, Queries, Subscribers, Matches(_, _)

VARIABLES
  log,        \* every registration so far, in order
  stage,      \* per subscriber: "asking", "listening" or "left"
  query,      \* per subscriber: what it asks for
  since,      \* per subscriber: the length of log when it began to iterate
  out         \* per subscriber: what it has been handed

vars == <<log, stage, query, since, out>>

Init ==
  /\ log = <<>>
  /\ stage = [s \in Subscribers |-> "asking"]
  /\ query = [s \in Subscribers |-> {}]
  /\ since = [s \in Subscribers |-> 0]
  /\ out = [s \in Subscribers |-> <<>>]

\* Of the first n registrations, those that subscriber s is to be handed, by
\* their positions in log.
Due(s, n) == {i \in since[s] + 1 .. n : Matches(log[i], query[s])}

Publish(c) ==
  /\ log' = Append(log, c)
  /\ UNCHANGED <<stage, query, since, out>>

Ask(s, q) ==
  /\ stage[s] = "asking"
  /\ query' = [query EXCEPT ![s] = q]
  /\ UNCHANGED <<log, stage, since, out>>

Listen(s) ==
  /\ stage[s] = "asking"
  /\ stage' = [stage EXCEPT ![s] = "listening"]
  /\ since' = [since EXCEPT ![s] = Len(log)]
  /\ UNCHANGED <<log, query, out>>

\* The next due registration is the one before which as many were due as the
\* subscriber has been handed.
Hand(s) ==
  /\ stage[s] = "listening"
  /\ \E i \in Due(s, Len(log)) :
       /\ Cardinality(Due(s, i - 1)) = Len(out[s])
       /\ out' = [out EXCEPT ![s] = Append(@, log[i])]
  /\ UNCHANGED <<log, stage, query, since>>

Leave(s) ==
  /\ stage[s] # "left"
  /\ stage' = [stage EXCEPT ![s] = "left"]
  /\ UNCHANGED <<log, query, since, out>>

Next ==
  \/ \E c \in Card : Publish(c)
  \/ \E s \in Subscribers : \/ \E q \in Queries : Ask(s, q)
                            \/ Listen(s) \/ Hand(s) \/ Leave(s)

Spec == Init /\ [][Next]_vars
=============================================================================
