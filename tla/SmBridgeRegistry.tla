-------------------------- MODULE SmBridgeRegistry --------------------------
(***************************************************************************)
(* SmBridgeRegistry (src/nest_adapters/registry_smbridge.py): the cards it *)
(* keeps, and the consumers of subscribe(), each an async generator with a *)
(* queue of its own.                                                       *)
(*                                                                         *)
(* A generator runs when its consumer asks for the next card: the first    *)
(* time, it puts its queue on the registry's list; then it takes cards off *)
(* the queue until one matches, hands that one over and stands still until *)
(* it is asked again.  Calls of other tasks come in between.  register     *)
(* itself does not yield: the queues are unbounded, so put never waits.    *)
(*                                                                         *)
(* Features stands for the capabilities a card lists and for the name      *)
(* patterns its name contains; a query asks for a set of them.             *)
(***************************************************************************)
EXTENDS Naturals, Sequences, FiniteSets

CONSTANTS
  Agents, Features, Subscribers,
  Conformant,       \* the cards sm_bridge accepts as valid AgentFacts
  MaxRegistrations  \* bound: calls of register

Card == [agent : Agents, offers : SUBSET Features]

ASSUME RegistryAssumption == Conformant \subseteq Card /\ MaxRegistrations \in Nat

VARIABLES
  cards,        \* _cards: the set of the stored cards, at most one per agent
  subscribers,  \* _subscribers: whose queues are on the list
  queue,        \* per consumer: its queue
  phase,        \* per consumer: "none", "created", "waiting", "handed", "closed"
  query,        \* per consumer: the query it subscribed with
  log,          \* history: the registrations, in order
  since,        \* history: registrations made before a consumer's queue was listed
  out           \* history: what a consumer has been handed

vars == <<cards, subscribers, queue, phase, query, log, since, out>>

\* card_to_agentfacts succeeds: sm_bridge takes the projected card.
Expressible(c) == c \in Conformant

\* _matches: every capability asked for, and the name pattern.
Matches(c, q) == q \subseteq c.offers

Init ==
  /\ cards = {}
  /\ subscribers = {}
  /\ queue = [s \in Subscribers |-> <<>>]
  /\ phase = [s \in Subscribers |-> "none"]
  /\ query = [s \in Subscribers |-> {}]
  /\ log = <<>>
  /\ since = [s \in Subscribers |-> 0]
  /\ out = [s \in Subscribers |-> <<>>]

CardOf(a) == {c \in cards : c.agent = a}

Register_KeepsRejected(c) ==
  /\ Len(log) < MaxRegistrations
  /\ cards' = (cards \ CardOf(c.agent)) \cup {c}
  /\ IF Expressible(c)
     THEN /\ queue' = [s \in Subscribers |->
                         IF s \in subscribers THEN Append(queue[s], c) ELSE queue[s]]
          /\ log' = Append(log, c)
     ELSE UNCHANGED <<queue, log>>
  /\ UNCHANGED <<subscribers, phase, query, since, out>>

Register_KeepsOld(c) ==
  /\ Len(log) < MaxRegistrations
  /\ Expressible(c)
  /\ cards' = cards \cup {c}
  /\ queue' = [s \in Subscribers |->
                 IF s \in subscribers THEN Append(queue[s], c) ELSE queue[s]]
  /\ log' = Append(log, c)
  /\ UNCHANGED <<subscribers, phase, query, since, out>>

Register_KeepsFirst(c) ==
  /\ Len(log) < MaxRegistrations
  /\ Expressible(c)
  /\ cards' = IF CardOf(c.agent) = {} THEN cards \cup {c} ELSE cards
  /\ queue' = [s \in Subscribers |->
                 IF s \in subscribers THEN Append(queue[s], c) ELSE queue[s]]
  /\ log' = Append(log, c)
  /\ UNCHANGED <<subscribers, phase, query, since, out>>

\* register: a card that is not expressible raises and changes nothing.
Register(c) ==
  /\ Len(log) < MaxRegistrations
  /\ Expressible(c)
  /\ cards' = (cards \ CardOf(c.agent)) \cup {c}
  /\ queue' = [s \in Subscribers |->
                 IF s \in subscribers THEN Append(queue[s], c) ELSE queue[s]]
  /\ log' = Append(log, c)
  /\ UNCHANGED <<subscribers, phase, query, since, out>>

Deregister(a) ==
  /\ CardOf(a) # {}
  /\ cards' = cards \ CardOf(a)
  /\ UNCHANGED <<subscribers, queue, phase, query, log, since, out>>

\* Calling subscribe makes the generator and runs none of it.
Subscribe(s, q) ==
  /\ phase[s] = "none"
  /\ phase' = [phase EXCEPT ![s] = "created"]
  /\ query' = [query EXCEPT ![s] = q]
  /\ UNCHANGED <<cards, subscribers, queue, log, since, out>>

\* The consumer asks for the first card: the queue goes on the list.
Iterate(s) ==
  /\ phase[s] = "created"
  /\ phase' = [phase EXCEPT ![s] = "waiting"]
  /\ subscribers' = subscribers \cup {s}
  /\ since' = [since EXCEPT ![s] = Len(log)]
  /\ UNCHANGED <<cards, queue, query, log, out>>

Take_DropsBehind(s) ==
  /\ phase[s] = "waiting"
  /\ queue[s] # <<>>
  /\ queue' = [queue EXCEPT ![s] = IF Matches(Head(@), query[s]) THEN <<>> ELSE Tail(@)]
  /\ IF Matches(Head(queue[s]), query[s])
     THEN /\ phase' = [phase EXCEPT ![s] = "handed"]
          /\ out' = [out EXCEPT ![s] = Append(@, Head(queue[s]))]
     ELSE UNCHANGED <<phase, out>>
  /\ UNCHANGED <<cards, subscribers, query, log, since>>

Take_StopsAtOther(s) ==
  /\ phase[s] = "waiting"
  /\ queue[s] # <<>>
  /\ Matches(Head(queue[s]), query[s])
  /\ queue' = [queue EXCEPT ![s] = Tail(@)]
  /\ phase' = [phase EXCEPT ![s] = "handed"]
  /\ out' = [out EXCEPT ![s] = Append(@, Head(queue[s]))]
  /\ UNCHANGED <<cards, subscribers, query, log, since>>

\* q.get returns: a matching card is handed over, any other one dropped.
Take(s) ==
  /\ phase[s] = "waiting"
  /\ queue[s] # <<>>
  /\ queue' = [queue EXCEPT ![s] = Tail(@)]
  /\ IF Matches(Head(queue[s]), query[s])
     THEN /\ phase' = [phase EXCEPT ![s] = "handed"]
          /\ out' = [out EXCEPT ![s] = Append(@, Head(queue[s]))]
     ELSE UNCHANGED <<phase, out>>
  /\ UNCHANGED <<cards, subscribers, query, log, since>>

\* The consumer asks for the next card.
AskNext(s) ==
  /\ phase[s] = "handed"
  /\ phase' = [phase EXCEPT ![s] = "waiting"]
  /\ UNCHANGED <<cards, subscribers, queue, query, log, since, out>>

Close_KeepsQueue(s) ==
  /\ phase[s] \in {"created", "waiting", "handed"}
  /\ phase' = [phase EXCEPT ![s] = "closed"]
  /\ UNCHANGED <<cards, subscribers, queue, query, log, since, out>>

\* The generator is closed or its task cancelled: finally takes the queue,
\* with what is in it, off the list.  One that never ran has none there.
Close(s) ==
  /\ phase[s] \in {"created", "waiting", "handed"}
  /\ phase' = [phase EXCEPT ![s] = "closed"]
  /\ subscribers' = subscribers \ {s}
  /\ queue' = [queue EXCEPT ![s] = <<>>]
  /\ UNCHANGED <<cards, query, log, since, out>>

Next ==
  \/ \E c \in Card : Register(c)
  \/ \E a \in Agents : Deregister(a)
  \/ \E s \in Subscribers, q \in SUBSET Features : Subscribe(s, q)
  \/ \E s \in Subscribers : Iterate(s) \/ Take(s) \/ AskNext(s) \/ Close(s)

Spec == Init /\ [][Next]_vars

\* A consumer is an `async for` loop: it asks again, and its generator is run
\* whenever its queue has a card.
FairSpec == Spec /\ \A s \in Subscribers : WF_vars(Take(s)) /\ WF_vars(AskNext(s))

\* lookup, agentfacts and index.
Lookup(q) == {c \in cards : Matches(c, q)}

IndexRaises == \E c \in cards : ~Expressible(c)

-----------------------------------------------------------------------------
(* Properties. *)

\* Of the cards of its agent in the list, c is the last.
LatestOf(c, list) ==
  \E i \in DOMAIN list :
    list[i] = c /\ \A j \in i + 1 .. Len(list) : list[j].agent # c.agent

\* Every variable has its type, and an agent has at most one card.
TypeOK ==
  /\ cards \subseteq Card
  /\ \A c, d \in cards : c.agent = d.agent => c = d
  /\ subscribers \subseteq Subscribers
  /\ queue \in [Subscribers -> Seq(Card)]
  /\ phase \in [Subscribers -> {"none", "created", "waiting", "handed", "closed"}]
  /\ query \in [Subscribers -> SUBSET Features]
  /\ log \in Seq(Card)
  /\ since \in [Subscribers -> Nat]
  /\ out \in [Subscribers -> Seq(Card)]

\* "rejected rather than silently kept" (115-116): every card that lookup and
\* index serve is the latest that its agent registered with success, whatever
\* was rejected, deregistered and registered again (127, 165), so that the
\* projection that index repeats on the stored cards never raises.
LatestCardServed ==
  /\ ~IndexRaises
  /\ \A q \in SUBSET Features : \A c \in Lookup(q) :
    LatestOf(c, log)

\* Queues are on the list exactly while their generators run, so a consumer
\* that left costs register nothing (128, 149, 156).
QueuesListedWhileRunning ==
  /\ subscribers = {s \in Subscribers : phase[s] \in {"waiting", "handed"}}
  /\ \A s \in Subscribers \ subscribers : queue[s] = <<>>

\* The queues implement the feed: each consumer is handed the matching cards
\* registered since it began to iterate, once each, in order (140-156).
stageOf ==
  [s \in Subscribers |-> CASE phase[s] \in {"none", "created"}   -> "asking"
                           [] phase[s] \in {"waiting", "handed"} -> "listening"
                           [] phase[s] = "closed"                -> "left"]

Abs == INSTANCE RegistrationFeed WITH stage <- stageOf, Queries <- SUBSET Features

ImplementsFeed == Abs!Spec

\* "Yield each newly-registered card matching query" (141): each one is
\* handed over in the end, unless the consumer leaves.
EachCardHandedOver ==
  \A s \in Subscribers : \A n \in 1 .. MaxRegistrations :
    (s \in subscribers /\ Cardinality(Abs!Due(s, Len(log))) >= n)
      ~> (Len(out[s]) >= n \/ phase[s] = "closed")
=============================================================================
