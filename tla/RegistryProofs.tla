--------------------------- MODULE RegistryProofs ---------------------------
(***************************************************************************)
(* Proofs about SmBridgeRegistry, and about the scenario that uses it, for *)
(* every set of agents, cards, features and consumers, and every number of *)
(* registrations: what lookup serves, what consumers are handed, and that  *)
(* the queues implement RegistrationFeed.                                  *)
(***************************************************************************)
EXTENDS DiscoveryScenario, FiniteSetTheorems, TLAPS

\* The positions after `from`, and not after n, of the cards of a log that
\* match a query.
DueIn(list, q, from, n) == {i \in from + 1 .. n : Matches(list[i], q)}

\* How much of a log a consumer with this queue has read.
Read(list, pending) == Len(list) - Len(pending)

\* What holds of a listed consumer: its queue is the end of the log, from
\* after its beginning on; it was handed as many cards as were due in what it
\* read; and a card that was due, with no later one of its agent due, is the
\* last of its agent that it was handed.
QueueIsTail(list, from, pending) ==
  /\ from <= Read(list, pending)
  /\ \A i \in 1 .. Len(pending) : pending[i] = list[Read(list, pending) + i]

HandedAsDue(list, q, from, pending, handed) ==
  Cardinality(DueIn(list, q, from, Read(list, pending))) = Len(handed)

HandedLatest(list, q, from, pending, handed) ==
  \A i \in DueIn(list, q, from, Read(list, pending)) :
    (\A j \in DueIn(list, q, from, Read(list, pending)) :
        j > i => list[j].agent # list[i].agent)
      => LatestOf(list[i], handed)

Follows(list, q, from, pending, handed) ==
  /\ QueueIsTail(list, from, pending)
  /\ HandedAsDue(list, q, from, pending, handed)
  /\ HandedLatest(list, q, from, pending, handed)

\* The stored cards are acceptable, and each is its agent's latest.
CardsAreLatest ==
  /\ cards \subseteq Conformant
  /\ \A c \in cards : LatestOf(c, log)

ListedFollow ==
  \A s \in subscribers : Follows(log, query[s], since[s], queue[s], out[s])

\* A generator that has not run has handed over nothing.
NotBegun ==
  \A s \in Subscribers : phase[s] \in {"none", "created"} => out[s] = <<>>

RegistryInv ==
  /\ TypeOK
  /\ QueuesListedWhileRunning
  /\ CardsAreLatest
  /\ ListedFollow
  /\ NotBegun

-----------------------------------------------------------------------------

\* An appended card is the latest of its agent, and leaves the latest of any
\* other agent as it was.
LEMMA LatestAppended ==
  ASSUME NEW list \in Seq(Card), NEW d \in Card
  PROVE  /\ LatestOf(d, Append(list, d))
         /\ \A c \in Card : LatestOf(c, list) /\ c.agent # d.agent
                             => LatestOf(c, Append(list, d))
<1> DEFINE longer == Append(list, d)
<1>1. /\ Len(longer) = Len(list) + 1
      /\ DOMAIN longer = 1 .. Len(list) + 1
      /\ longer[Len(list) + 1] = d
      /\ \A i \in 1 .. Len(list) : longer[i] = list[i]
      /\ DOMAIN list = 1 .. Len(list)
      /\ Len(list) \in Nat
  OBVIOUS
<1> HIDE DEF longer
<1>2. LatestOf(d, longer)
  BY <1>1 DEF LatestOf
<1>3. ASSUME NEW c \in Card, LatestOf(c, list), c.agent # d.agent
      PROVE  LatestOf(c, longer)
  BY <1>1, <1>3 DEF LatestOf
<1>4. QED
  BY <1>2, <1>3 DEF longer

\* An agent has one latest card at most.
LEMMA LatestUnique ==
  ASSUME NEW list \in Seq(Card), NEW c \in Card, NEW d \in Card,
         LatestOf(c, list), LatestOf(d, list), c.agent = d.agent
  PROVE  c = d
<1>1. PICK i \in 1 .. Len(list) :
        list[i] = c /\ \A k \in i + 1 .. Len(list) : list[k].agent # c.agent
  BY DEF LatestOf
<1>2. PICK j \in 1 .. Len(list) :
        list[j] = d /\ \A k \in j + 1 .. Len(list) : list[k].agent # d.agent
  BY DEF LatestOf
<1>3. ~(i < j) /\ ~(j < i)
  BY <1>1, <1>2
<1>4. QED
  BY <1>1, <1>2, <1>3

\* What is due in the first n registrations is a finite set, and the next
\* registration joins it if it matches.
LEMMA DueGrows ==
  ASSUME NEW list, NEW q, NEW from \in Nat, NEW n \in Nat, from <= n
  PROVE  /\ IsFiniteSet(DueIn(list, q, from, n))
         /\ Cardinality(DueIn(list, q, from, n)) \in Nat
         /\ DueIn(list, q, from, n + 1)
              = IF Matches(list[n + 1], q)
                THEN DueIn(list, q, from, n) \cup {n + 1} ELSE DueIn(list, q, from, n)
         /\ n + 1 \notin DueIn(list, q, from, n)
<1>1. IsFiniteSet(from + 1 .. n)
  BY FS_Interval
<1>2. DueIn(list, q, from, n) \in SUBSET (from + 1 .. n)
  BY DEF DueIn
<1>3. IsFiniteSet(DueIn(list, q, from, n)) /\ Cardinality(DueIn(list, q, from, n)) \in Nat
  BY <1>1, <1>2, FS_Subset, FS_CardinalityType
<1>4. from + 1 .. n + 1 = (from + 1 .. n) \cup {n + 1} /\ n + 1 \notin from + 1 .. n
  OBVIOUS
<1>5. QED
  BY <1>3, <1>4 DEF DueIn

\* A consumer that begins has an empty queue, and nothing is due yet.
LEMMA BeginsFollowing ==
  ASSUME NEW list \in Seq(Card), NEW q
  PROVE  Follows(list, q, Len(list), <<>>, <<>>)
<1>1. Read(list, <<>>) = Len(list) /\ Len(list) \in Nat /\ Len(<<>>) = 0
  BY DEF Read
<1>2. DueIn(list, q, Len(list), Len(list)) = {}
  BY <1>1 DEF DueIn
<1>3. QED
  BY <1>1, <1>2, FS_EmptySet DEF Follows, QueueIsTail, HandedAsDue, HandedLatest

\* A registration that goes to the end of the queue leaves what the consumer
\* has read as it was.
LEMMA PublishedFollows ==
  ASSUME NEW list \in Seq(Card), NEW q, NEW from \in Nat, NEW pending \in Seq(Card),
         NEW handed, NEW c \in Card, Follows(list, q, from, pending, handed)
  PROVE  Follows(Append(list, c), q, from, Append(pending, c), handed)
<1> DEFINE longer == Append(list, c)
           more == Append(pending, c)
           n == Read(list, pending)
<1>1. /\ Len(list) \in Nat /\ Len(longer) = Len(list) + 1
      /\ \A i \in 1 .. Len(list) : longer[i] = list[i]
      /\ longer[Len(list) + 1] = c
  OBVIOUS
<1>2. /\ Len(pending) \in Nat /\ Len(more) = Len(pending) + 1
      /\ \A i \in 1 .. Len(pending) : more[i] = pending[i]
      /\ more[Len(pending) + 1] = c
  OBVIOUS
<1> HIDE DEF longer, more
<1>3. Read(longer, more) = n /\ n \in Nat /\ n + Len(pending) = Len(list) /\ from <= n
  BY <1>1, <1>2 DEF Read, Follows, QueueIsTail
<1> HIDE DEF n
<1>4. QueueIsTail(longer, from, more)
  <2>1. \A i \in 1 .. Len(pending) : pending[i] = list[n + i] /\ n + i \in 1 .. Len(list)
    BY <1>1, <1>2, <1>3 DEF Follows, QueueIsTail, n
  <2>2. ASSUME NEW i \in 1 .. Len(more)
        PROVE  more[i] = longer[n + i]
    <3>1. CASE i \in 1 .. Len(pending)
      <4>1. more[i] = pending[i]
        BY <1>2, <3>1
      <4>2. pending[i] = list[n + i] /\ n + i \in 1 .. Len(list)
        BY <2>1, <3>1
      <4>3. QED
        BY <1>1, <4>1, <4>2
    <3>2. CASE i = Len(pending) + 1
      <4>1. n + i = Len(list) + 1
        BY <1>2, <1>3, <3>2
      <4>2. QED
        BY <1>1, <1>2, <3>2, <4>1
    <3>3. QED
      BY <1>2, <3>1, <3>2
  <2>3. QED
    BY <1>3, <2>2 DEF QueueIsTail
<1>5. /\ DueIn(longer, q, from, n) = DueIn(list, q, from, n)
      /\ \A i \in DueIn(list, q, from, n) : longer[i] = list[i]
  BY <1>1, <1>2, <1>3 DEF DueIn
<1>6. HandedAsDue(longer, q, from, more, handed)
  BY <1>3, <1>5 DEF Follows, HandedAsDue, n
<1>7. HandedLatest(longer, q, from, more, handed)
  BY <1>3, <1>5 DEF Follows, HandedLatest, n
<1>8. QED
  BY <1>4, <1>6, <1>7 DEF Follows, longer, more

\* The card at the head of the queue is the registration after what was read.
LEMMA HeadIsNext ==
  ASSUME NEW list \in Seq(Card), NEW from \in Nat, NEW pending \in Seq(Card),
         pending # <<>>, QueueIsTail(list, from, pending)
  PROVE  /\ Read(list, pending) \in Nat
         /\ from <= Read(list, pending)
         /\ Read(list, pending) + 1 \in 1 .. Len(list)
         /\ list[Read(list, pending) + 1] = Head(pending)
         /\ Head(pending) \in Card
         /\ Read(list, Tail(pending)) = Read(list, pending) + 1
<1>1. Len(pending) \in Nat \ {0} /\ Len(list) \in Nat /\ Head(pending) = pending[1]
  OBVIOUS
<1>2. Len(Tail(pending)) = Len(pending) - 1
  OBVIOUS
<1>3. QED
  BY <1>1, <1>2 DEF QueueIsTail, Read

\* Taking the head of the queue reads one registration more, and hands it
\* over if it matches.
LEMMA TakenFollows ==
  ASSUME NEW list \in Seq(Card), NEW q, NEW from \in Nat, NEW pending \in Seq(Card),
         NEW handed \in Seq(Card), pending # <<>>, Follows(list, q, from, pending, handed)
  PROVE  Follows(list, q, from, Tail(pending),
                 IF Matches(Head(pending), q) THEN Append(handed, Head(pending)) ELSE handed)
<1> DEFINE n == Read(list, pending)
           c == Head(pending)
           more == IF Matches(c, q) THEN Append(handed, c) ELSE handed
<1>1. /\ n \in Nat /\ from <= n /\ n + 1 \in 1 .. Len(list)
      /\ list[n + 1] = c /\ c \in Card
      /\ Read(list, Tail(pending)) = n + 1
  BY HeadIsNext DEF Follows
<1>2. /\ Len(Tail(pending)) = Len(pending) - 1 /\ Len(pending) \in Nat \ {0}
      /\ \A i \in 1 .. Len(pending) - 1 : Tail(pending)[i] = pending[i + 1]
  OBVIOUS
<1> HIDE DEF n, c
<1>3. QueueIsTail(list, from, Tail(pending))
  <2>1. \A i \in 1 .. Len(pending) : pending[i] = list[n + i]
    BY DEF Follows, QueueIsTail, n
  <2>2. ASSUME NEW i \in 1 .. Len(Tail(pending))
        PROVE  Tail(pending)[i] = list[Read(list, Tail(pending)) + i]
    <3>1. i + 1 \in 1 .. Len(pending) /\ Tail(pending)[i] = pending[i + 1]
      BY <1>2
    <3>2. n + (i + 1) = Read(list, Tail(pending)) + i
      BY <1>1, <1>2
    <3>3. QED
      BY <2>1, <3>1, <3>2
  <2>3. from <= Read(list, Tail(pending))
    BY <1>1
  <2>4. QED
    BY <2>2, <2>3 DEF QueueIsTail
<1>4. /\ IsFiniteSet(DueIn(list, q, from, n))
      /\ DueIn(list, q, from, n + 1) = IF Matches(c, q) THEN DueIn(list, q, from, n) \cup {n + 1}
                                                        ELSE DueIn(list, q, from, n)
      /\ n + 1 \notin DueIn(list, q, from, n)
      /\ DueIn(list, q, from, n) \subseteq 1 .. n
  <2>1. DueIn(list, q, from, n) \subseteq 1 .. n
    BY <1>1 DEF DueIn
  <2>2. QED
    BY <1>1, <2>1, DueGrows
<1>5. HandedAsDue(list, q, from, Tail(pending), more)
  <2>1. Cardinality(DueIn(list, q, from, n)) = Len(handed)
    BY DEF Follows, HandedAsDue, n
  <2>2. CASE Matches(c, q)
    <3>1. Cardinality(DueIn(list, q, from, n + 1)) = Len(handed) + 1
      BY <1>4, <2>1, <2>2, FS_AddElement
    <3>2. QED
      BY <1>1, <2>2, <3>1 DEF HandedAsDue
  <2>3. QED
    BY <1>1, <1>4, <2>1, <2>2 DEF HandedAsDue
<1>6. HandedLatest(list, q, from, Tail(pending), more)
  <2> SUFFICES ASSUME NEW i \in DueIn(list, q, from, n + 1),
                      \A j \in DueIn(list, q, from, n + 1) :
                         j > i => list[j].agent # list[i].agent
               PROVE  LatestOf(list[i], more)
    BY <1>1 DEF HandedLatest
  <2>1. CASE i = n + 1
    <3>1. Matches(c, q)
      BY <1>4, <2>1
    <3>2. QED
      BY <1>1, <2>1, <3>1, LatestAppended
  <2>2. CASE i # n + 1
    <3>1. i \in DueIn(list, q, from, n)
      BY <1>4, <2>2
    <3>2. LatestOf(list[i], handed)
      BY <1>4, <3>1 DEF Follows, HandedLatest, n
    <3>3. CASE Matches(c, q)
      <4>1. c.agent # list[i].agent
        BY <1>1, <1>4, <3>1, <3>3
      <4>2. list[i] \in Card
        BY <1>1, <1>4, <3>1
      <4>3. QED
        BY <1>1, <3>2, <3>3, <4>1, <4>2, LatestAppended
    <3>4. QED
      BY <3>2, <3>3
  <2>3. QED
    BY <2>1, <2>2
<1>7. QED
  BY <1>3, <1>5, <1>6 DEF Follows, c

-----------------------------------------------------------------------------

\* The registry starts empty.
LEMMA InitEstablishes == Init => RegistryInv
<1> SUFFICES ASSUME Init PROVE RegistryInv
  OBVIOUS
<1>1. TypeOK
  BY DEF Init, TypeOK
<1>2. QED
  BY <1>1 DEF Init, RegistryInv, QueuesListedWhileRunning, CardsAreLatest, ListedFollow, NotBegun

\* A card becomes its agent's latest and goes to the end of every listed queue.
LEMMA RegisterKeeps ==
  ASSUME RegistryInv, NEW c \in Card, Register(c)
  PROVE  RegistryInv'
<1>1. /\ log \in Seq(Card) /\ log' = Append(log, c) /\ log' \in Seq(Card)
      /\ cards' = (cards \ CardOf(c.agent)) \cup {c}
      /\ c \in Conformant
      /\ UNCHANGED <<subscribers, phase, query, since, out>>
      /\ queue' = [s \in Subscribers |->
                     IF s \in subscribers THEN Append(queue[s], c) ELSE queue[s]]
  BY DEF Register, Expressible, RegistryInv, TypeOK
<1>2. ASSUME NEW d \in cards'
      PROVE  d \in Conformant /\ d \in Card /\ LatestOf(d, log')
  <2>1. CASE d = c
    BY <1>1, <2>1, LatestAppended
  <2>2. CASE d \in cards /\ d.agent # c.agent
    BY <1>1, <2>2, LatestAppended DEF RegistryInv, TypeOK, CardsAreLatest
  <2>3. QED
    BY <1>1, <2>1, <2>2 DEF CardOf
<1>3. TypeOK'
  <2>1. queue' \in [Subscribers -> Seq(Card)]
    BY <1>1 DEF RegistryInv, TypeOK
  <2>2. \A d, e \in cards' : d.agent = e.agent => d = e
    BY <1>1, <1>2, LatestUnique
  <2>3. QED
    BY <1>1, <1>2, <2>1, <2>2 DEF RegistryInv, TypeOK
<1>4. QueuesListedWhileRunning' /\ NotBegun'
  BY <1>1 DEF RegistryInv, QueuesListedWhileRunning, NotBegun
<1>5. ListedFollow'
  <2> SUFFICES ASSUME NEW s \in subscribers
               PROVE  Follows(log', query[s], since[s], queue'[s], out[s])
    BY <1>1 DEF ListedFollow
  <2>1. /\ s \in Subscribers /\ since[s] \in Nat /\ queue[s] \in Seq(Card)
        /\ Follows(log, query[s], since[s], queue[s], out[s])
    BY DEF RegistryInv, TypeOK, ListedFollow
  <2>2. queue'[s] = Append(queue[s], c)
    BY <1>1, <2>1
  <2>3. QED
    BY <1>1, <2>1, <2>2, PublishedFollows
<1>6. QED
  BY <1>2, <1>3, <1>4, <1>5 DEF RegistryInv, CardsAreLatest

\* A card removed was the latest, and so are the others.
LEMMA DeregisterKeeps ==
  ASSUME RegistryInv, NEW a \in Agents, Deregister(a)
  PROVE  RegistryInv'
  BY DEF RegistryInv, Deregister, TypeOK, QueuesListedWhileRunning, CardsAreLatest, ListedFollow,
     NotBegun

\* A generator created is not listed yet.
LEMMA SubscribeKeeps ==
  ASSUME RegistryInv, NEW s \in Subscribers, NEW q \in SUBSET Features, Subscribe(s, q)
  PROVE  RegistryInv'
<1> USE DEF RegistryInv
<1>1. TypeOK' /\ CardsAreLatest'
  BY DEF Subscribe, TypeOK, CardsAreLatest
<1>2. s \notin subscribers
  BY DEF Subscribe, QueuesListedWhileRunning
<1>3. \A r \in Subscribers : r # s => phase'[r] = phase[r] /\ query'[r] = query[r]
  BY DEF Subscribe, TypeOK
<1>4. phase[s] = "none" /\ phase'[s] = "created" /\ UNCHANGED <<subscribers, queue, log, since, out>>
  BY DEF Subscribe, TypeOK
<1>5. QueuesListedWhileRunning' /\ NotBegun'
  BY <1>3, <1>4 DEF QueuesListedWhileRunning, NotBegun
<1>6. ListedFollow'
  BY <1>2, <1>3, <1>4 DEF ListedFollow, TypeOK
<1>7. QED
  BY <1>1, <1>5, <1>6

\* A generator that begins is listed with an empty queue, at the end of the log.
LEMMA IterateKeeps ==
  ASSUME RegistryInv, NEW s \in Subscribers, Iterate(s)
  PROVE  RegistryInv'
<1> USE DEF RegistryInv
<1>1. TypeOK' /\ CardsAreLatest'
  BY DEF Iterate, TypeOK, CardsAreLatest
<1>2. /\ phase[s] = "created" /\ phase'[s] = "waiting"
      /\ subscribers' = subscribers \cup {s}
      /\ since'[s] = Len(log)
      /\ UNCHANGED <<queue, query, log, out>>
      /\ log \in Seq(Card)
  BY DEF Iterate, TypeOK
<1>3. \A r \in Subscribers : r # s => phase'[r] = phase[r] /\ since'[r] = since[r]
  BY DEF Iterate, TypeOK
<1>4. queue[s] = <<>> /\ out[s] = <<>>
  BY <1>2 DEF QueuesListedWhileRunning, NotBegun
<1>5. QueuesListedWhileRunning' /\ NotBegun'
  BY <1>2, <1>3 DEF QueuesListedWhileRunning, NotBegun
<1>6. ListedFollow'
  <2>1. Follows(log', query'[s], since'[s], queue'[s], out'[s])
    BY <1>2, <1>4, BeginsFollowing
  <2>2. ASSUME NEW r \in subscribers, r # s
        PROVE  Follows(log', query'[r], since'[r], queue'[r], out'[r])
    BY <1>2, <1>3, <2>2 DEF ListedFollow, TypeOK
  <2>3. QED
    BY <1>2, <2>1, <2>2 DEF ListedFollow
<1>7. QED
  BY <1>1, <1>5, <1>6

\* A card taken off the queue is handed over if it matches, and else skipped.
LEMMA TakeKeeps ==
  ASSUME RegistryInv, NEW s \in Subscribers, Take(s)
  PROVE  RegistryInv'
<1> USE DEF RegistryInv
<1> DEFINE c == Head(queue[s])
<1>1. /\ queue[s] # <<>> /\ queue[s] \in Seq(Card) /\ out[s] \in Seq(Card)
      /\ phase[s] = "waiting" /\ s \in subscribers
      /\ UNCHANGED <<cards, subscribers, query, log, since>>
      /\ queue' = [queue EXCEPT ![s] = Tail(queue[s])]
  BY DEF Take, TypeOK, QueuesListedWhileRunning
<1>2. c \in Card /\ Tail(queue[s]) \in Seq(Card)
  BY <1>1
<1>3. /\ out' = [out EXCEPT ![s] = IF Matches(c, query[s]) THEN Append(out[s], c) ELSE out[s]]
      /\ phase' = [phase EXCEPT ![s] = IF Matches(c, query[s]) THEN "handed" ELSE phase[s]]
  BY DEF Take, TypeOK
<1>4. TypeOK' /\ CardsAreLatest'
  <2>1. queue' \in [Subscribers -> Seq(Card)]
    BY <1>1, <1>2 DEF TypeOK
  <2>2. out' \in [Subscribers -> Seq(Card)]
    BY <1>1, <1>2, <1>3 DEF TypeOK
  <2>3. phase' \in [Subscribers -> {"none", "created", "waiting", "handed", "closed"}]
    BY <1>3 DEF TypeOK
  <2>4. QED
    BY <1>1, <2>1, <2>2, <2>3 DEF TypeOK, CardsAreLatest
<1>5. \A r \in Subscribers : r # s => phase'[r] = phase[r] /\ out'[r] = out[r] /\ queue'[r] = queue[r]
  BY <1>1, <1>3 DEF TypeOK
<1>6. phase'[s] \in {"waiting", "handed"}
  BY <1>1, <1>3 DEF TypeOK
<1>7. QueuesListedWhileRunning' /\ NotBegun'
  BY <1>1, <1>5, <1>6 DEF QueuesListedWhileRunning, NotBegun
<1>8. ListedFollow'
  <2>1. /\ queue'[s] = Tail(queue[s])
        /\ out'[s] = IF Matches(c, query[s]) THEN Append(out[s], c) ELSE out[s]
        /\ log \in Seq(Card) /\ since[s] \in Nat
        /\ Follows(log, query[s], since[s], queue[s], out[s])
    BY <1>1, <1>3 DEF TypeOK, ListedFollow
  <2>2. Follows(log, query[s], since[s], queue'[s], out'[s])
    BY <1>1, <2>1, TakenFollows
  <2>3. QED
    BY <1>1, <1>5, <2>2 DEF ListedFollow, TypeOK
<1>9. QED
  BY <1>4, <1>7, <1>8

\* Waiting again touches no queue.
LEMMA AskNextKeeps ==
  ASSUME RegistryInv, NEW s \in Subscribers, AskNext(s)
  PROVE  RegistryInv'
<1> USE DEF RegistryInv
<1>1. /\ phase[s] = "handed" /\ phase'[s] = "waiting"
      /\ \A r \in Subscribers : r # s => phase'[r] = phase[r]
      /\ UNCHANGED <<cards, subscribers, queue, query, log, since, out>>
  BY DEF AskNext, TypeOK
<1>2. TypeOK'
  BY DEF AskNext, TypeOK
<1>3. QED
  BY <1>1, <1>2 DEF QueuesListedWhileRunning, CardsAreLatest, ListedFollow, NotBegun

\* A generator that closes takes its queue off the list.
LEMMA CloseKeeps ==
  ASSUME RegistryInv, NEW s \in Subscribers, Close(s)
  PROVE  RegistryInv'
<1> USE DEF RegistryInv
<1>1. /\ phase'[s] = "closed" /\ queue'[s] = <<>>
      /\ \A r \in Subscribers : r # s => phase'[r] = phase[r] /\ queue'[r] = queue[r]
      /\ subscribers' = subscribers \ {s}
      /\ UNCHANGED <<cards, query, log, since, out>>
  BY DEF Close, TypeOK
<1>2. TypeOK'
  BY DEF Close, TypeOK
<1>3. QED
  BY <1>1, <1>2 DEF QueuesListedWhileRunning, CardsAreLatest, ListedFollow, NotBegun, TypeOK

\* The invariant is inductive.
LEMMA NextKeeps == RegistryInv /\ [Next]_vars => RegistryInv'
<1> SUFFICES ASSUME RegistryInv, [Next]_vars PROVE RegistryInv'
  OBVIOUS
<1>1. CASE UNCHANGED vars
  BY <1>1 DEF vars, RegistryInv, TypeOK, QueuesListedWhileRunning, CardsAreLatest, ListedFollow,
     NotBegun
<1>2. CASE \E c \in Card : Register(c)
  BY <1>2, RegisterKeeps
<1>3. CASE \E a \in Agents : Deregister(a)
  BY <1>3, DeregisterKeeps
<1>4. CASE \E s \in Subscribers, q \in SUBSET Features : Subscribe(s, q)
  BY <1>4, SubscribeKeeps
<1>5. CASE \E s \in Subscribers : Iterate(s) \/ Take(s) \/ AskNext(s) \/ Close(s)
  BY <1>5, IterateKeeps, TakeKeeps, AskNextKeeps, CloseKeeps
<1>6. QED
  BY <1>1, <1>2, <1>3, <1>4, <1>5 DEF Next

\* Whatever callers and generators do, the queues hold what the feed has due,
\* and the cards are the latest registered: the inductive invariant.
THEOREM RegistryInvariant == Spec => []RegistryInv
<1>1. Init => RegistryInv
  BY InitEstablishes
<1>2. RegistryInv /\ [Next]_vars => RegistryInv'
  BY NextKeeps
<1>3. QED
  BY <1>1, <1>2, PTL DEF Spec

\* The scenario, and the others that use its registry meanwhile, behave as
\* callers of the registry do (registry_discovery.py:60-108): what is proved
\* of Spec holds of the scenario.
THEOREM ScenarioUsesRegistry == ScenarioSpec => Spec
<1>1. ScenarioInit => Init
  BY DEF ScenarioInit
<1>2. [ScenarioNext]_allvars => [Next]_vars
  <2> SUFFICES ASSUME [ScenarioNext]_allvars PROVE [Next]_vars
    OBVIOUS
  <2>1. CASE UNCHANGED allvars
    BY <2>1 DEF allvars
  <2>2. ASSUME NEW a \in Agents, OnStart(a) \/ OnDiscover(a) \/ OtherDeregisters(a)
        PROVE  [Next]_vars
    <3>1. CardFor(a) \in Card
      BY RegistryAssumption, DiscoveryAssumption
    <3>2. QED
      BY <2>2, <3>1 DEF OnStart, OnDiscover, OtherDeregisters, Next
  <2>3. ASSUME NEW c \in Card, OtherRegisters(c)
        PROVE  [Next]_vars
    BY <2>3 DEF OtherRegisters, Next
  <2>4. ASSUME NEW s \in Subscribers, \/ \E q \in SUBSET Features : Subscribe(s, q)
                                      \/ Iterate(s) \/ Close(s)
                                      \/ ConsumerTakes(s) \/ ConsumerAsks(s)
        PROVE  [Next]_vars
    BY <2>4 DEF ConsumerTakes, ConsumerAsks, Next
  <2>5. QED
    BY <2>1, <2>2, <2>3, <2>4 DEF ScenarioNext
<1>3. QED
  BY <1>1, <1>2, PTL DEF Spec, ScenarioSpec

\* Every variable has its type, and an agent has at most one card.
THEOREM RegistryTypeCorrect == Spec => []TypeOK
<1>1. RegistryInv => TypeOK
  BY DEF RegistryInv
<1>2. QED
  BY <1>1, RegistryInvariant, PTL

\* What lookup and index serve is the latest that its agent registered with
\* success, and index never raises (registry_smbridge.py:115-116, 127, 165).
THEOREM ServesLatestCard == Spec => []LatestCardServed
<1>1. RegistryInv => LatestCardServed
  BY DEF RegistryInv, CardsAreLatest, LatestCardServed, IndexRaises, Expressible, Lookup
<1>2. QED
  BY <1>1, RegistryInvariant, PTL

\* Queues are on the list exactly while their generators run
\* (registry_smbridge.py:128, 149, 156).
THEOREM QueuesListed == Spec => []QueuesListedWhileRunning
<1>1. RegistryInv => QueuesListedWhileRunning
  BY DEF RegistryInv
<1>2. QED
  BY <1>1, RegistryInvariant, PTL

\* A consumer with an empty queue was last handed, of each agent that lookup
\* finds and that registered since it began, the card in the registry.
THEOREM CaughtUpConsumersSeeLatest == Spec => []CaughtUpSeesLatest
<1>1. ASSUME RegistryInv, NEW s \in subscribers, NEW c \in Lookup(query[s]), queue[s] = <<>>,
             NEW j \in since[s] + 1 .. Len(log), log[j].agent = c.agent
      PROVE  LatestOf(c, out[s])
  <2>1. /\ s \in Subscribers /\ log \in Seq(Card) /\ since[s] \in Nat
        /\ c \in cards /\ Matches(c, query[s])
        /\ LatestOf(c, log)
        /\ HandedLatest(log, query[s], since[s], queue[s], out[s])
    BY <1>1 DEF RegistryInv, TypeOK, ListedFollow, Follows, CardsAreLatest, Lookup
  <2>2. PICK i \in 1 .. Len(log) :
          log[i] = c /\ \A k \in i + 1 .. Len(log) : log[k].agent # c.agent
    BY <2>1 DEF LatestOf
  <2>3. Read(log, queue[s]) = Len(log) /\ Len(log) \in Nat
    BY <1>1, <2>1 DEF Read
  <2>4. j <= i
    BY <1>1, <2>1, <2>2, <2>3
  <2>5. i \in DueIn(log, query[s], since[s], Len(log))
    BY <1>1, <2>1, <2>2, <2>3, <2>4 DEF DueIn
  <2>6. \A k \in DueIn(log, query[s], since[s], Len(log)) : k > i => log[k].agent # c.agent
    BY <2>1, <2>2, <2>3 DEF DueIn
  <2>7. QED
    BY <2>1, <2>2, <2>3, <2>5, <2>6 DEF HandedLatest
<1>2. RegistryInv => CaughtUpSeesLatest
  BY <1>1 DEF CaughtUpSeesLatest
<1>3. QED
  BY <1>2, RegistryInvariant, PTL

-----------------------------------------------------------------------------

\* The feed's module counts as this one does.
LEMMA SameCardinality == \A S : Abs!Cardinality(S) = Cardinality(S)
  BY DEF Abs!Cardinality, Cardinality, Abs!IsFiniteSet, IsFiniteSet

\* One step of the registry is one of the feed, or leaves it alone.
LEMMA StepOfFeed ==
  ASSUME RegistryInv, [Next]_vars
  PROVE  [Abs!Next]_Abs!vars
<1> USE DEF RegistryInv
<1>1. CASE UNCHANGED vars
  BY <1>1 DEF vars, Abs!vars, stageOf
<1>2. ASSUME NEW c \in Card, Register(c)
      PROVE  Abs!Next
  BY <1>2 DEF Register, Abs!Next, Abs!Publish, stageOf
<1>3. ASSUME NEW a \in Agents, Deregister(a)
      PROVE  UNCHANGED Abs!vars
  BY <1>3 DEF Deregister, Abs!vars, stageOf
<1>4. ASSUME NEW s \in Subscribers, NEW q \in SUBSET Features, Subscribe(s, q)
      PROVE  Abs!Next
  <2>1. stageOf' = stageOf /\ stageOf[s] = "asking"
    BY <1>4 DEF Subscribe, stageOf, TypeOK
  <2>2. Abs!Ask(s, q)
    BY <1>4, <2>1 DEF Subscribe, Abs!Ask
  <2>3. QED
    BY <2>2 DEF Abs!Next
<1>5. ASSUME NEW s \in Subscribers, Iterate(s)
      PROVE  Abs!Next
  <2>1. stageOf' = [stageOf EXCEPT ![s] = "listening"] /\ stageOf[s] = "asking"
    BY <1>5 DEF Iterate, stageOf, TypeOK
  <2>2. Abs!Listen(s)
    BY <1>5, <2>1 DEF Iterate, Abs!Listen
  <2>3. QED
    BY <2>2 DEF Abs!Next
<1>6. ASSUME NEW s \in Subscribers, Take(s)
      PROVE  [Abs!Next]_Abs!vars
  <2> DEFINE n == Read(log, queue[s])
             c == Head(queue[s])
  <2>1. stageOf' = stageOf /\ stageOf[s] = "listening"
    BY <1>6 DEF Take, stageOf, TypeOK
  <2>2. CASE ~Matches(c, query[s])
    BY <1>6, <2>1, <2>2 DEF Take, Abs!vars
  <2>3. CASE Matches(c, query[s])
    <3>1. /\ log \in Seq(Card) /\ since[s] \in Nat /\ queue[s] \in Seq(Card) /\ queue[s] # <<>>
          /\ Follows(log, query[s], since[s], queue[s], out[s])
      BY <1>6 DEF Take, TypeOK, ListedFollow, QueuesListedWhileRunning
    <3>2. /\ n \in Nat /\ since[s] <= n /\ n + 1 \in 1 .. Len(log) /\ log[n + 1] = c
          /\ Cardinality(DueIn(log, query[s], since[s], n)) = Len(out[s])
      BY <3>1, HeadIsNext DEF Follows, HandedAsDue
    <3> HIDE DEF n
    <3>3. PICK i \in 1 .. Len(log) : i = n + 1
      BY <3>2
    <3>4. i \in Abs!Due(s, Len(log))
      BY <2>3, <3>1, <3>2, <3>3 DEF Abs!Due
    <3>5. Cardinality(Abs!Due(s, i - 1)) = Len(out[s])
      <4>1. i - 1 = n
        BY <3>2, <3>3
      <4>2. QED
        BY <3>2, <4>1, Zenon DEF Abs!Due, DueIn
    <3>6. /\ out' = [out EXCEPT ![s] = Append(out[s], log[i])]
          /\ UNCHANGED <<log, query, since>>
      BY <1>6, <2>3, <3>2, <3>3 DEF Take
    <3>7. \E k \in Abs!Due(s, Len(log)) :
            /\ Cardinality(Abs!Due(s, k - 1)) = Len(out[s])
            /\ out' = [out EXCEPT ![s] = Append(out[s], log[k])]
      BY <3>4, <3>5, <3>6, Zenon
    <3>8. Abs!Hand(s)
      BY <2>1, <3>6, <3>7, SameCardinality DEF Abs!Hand
    <3>9. QED
      BY <3>8 DEF Abs!Next
  <2>4. QED
    BY <2>2, <2>3
<1>7. ASSUME NEW s \in Subscribers, AskNext(s)
      PROVE  UNCHANGED Abs!vars
  <2>1. stageOf' = stageOf
    BY <1>7 DEF AskNext, stageOf, TypeOK
  <2>2. QED
    BY <1>7, <2>1 DEF AskNext, Abs!vars
<1>8. ASSUME NEW s \in Subscribers, Close(s)
      PROVE  Abs!Next
  <2>1. stageOf' = [stageOf EXCEPT ![s] = "left"] /\ stageOf[s] # "left"
    BY <1>8 DEF Close, stageOf, TypeOK
  <2>2. Abs!Leave(s)
    BY <1>8, <2>1 DEF Close, Abs!Leave
  <2>3. QED
    BY <2>2 DEF Abs!Next
<1>9. QED
  BY <1>1, <1>2, <1>3, <1>4, <1>5, <1>6, <1>7, <1>8 DEF Next

\* The queues implement the feed: each consumer is handed the matching cards
\* registered since it began to iterate, once each and in order
\* (registry_smbridge.py:140-156).
THEOREM QueuesImplementFeed == Spec => ImplementsFeed
<1>1. Init => Abs!Init
  BY DEF Init, Abs!Init, stageOf
<1>2. RegistryInv /\ [Next]_vars => [Abs!Next]_Abs!vars
  BY StepOfFeed
<1>3. QED
  BY <1>1, <1>2, RegistryInvariant, PTL DEF Spec, Abs!Spec, ImplementsFeed
=============================================================================
