-------------------------- MODULE ReputationProofs --------------------------
(***************************************************************************)
(* Proofs about the trust layer in the reputation_receipts scenario, for   *)
(* every size of the core and of the ring, whatever others report: what a  *)
(* report counts for, that the ring is severed, and that the core is not.  *)
(***************************************************************************)
EXTENDS ReputationScenario, FiniteSetTheorems, TLAPS

\* The agent d places after agent i on the cycle of the core.
After(i, d) == IF i + d < HonestCount THEN i + d ELSE i + d - HonestCount

\* Going round the cycle, as the code's remainder does.
LEMMA AfterIsModulo ==
  ASSUME NEW i \in Honest, NEW d \in 0 .. HonestCount
  PROVE  (i + d) % HonestCount = After(i, d) /\ After(i, d) \in Honest
<1>1. HonestCount \in Nat /\ i \in Nat /\ d \in Nat /\ i < HonestCount /\ d <= HonestCount
  BY ScenarioAssumption DEF Honest
<1>2. CASE i + d < HonestCount
  BY <1>1, <1>2 DEF After, Honest
<1>3. CASE ~(i + d < HonestCount)
  BY <1>1, <1>3 DEF After, Honest
<1>4. QED
  BY <1>2, <1>3

\* The edges of the topology: between neighbours of the core, in both
\* directions, and from each agent of the ring to every other one.
LEMMA TopologyEdges ==
  /\ \A i \in Honest : <<i, After(i, 1)>> \in Topology /\ <<After(i, 1), i>> \in Topology
  /\ \A a, b \in Ring : a # b => <<a, b>> \in Topology
  /\ \A e \in Topology :
       \/ \E i \in Honest : e = <<i, After(i, 1)>> \/ e = <<After(i, 1), i>>
       \/ \E a, b \in Ring : a # b /\ e = <<a, b>>
<1>1. \A i \in Honest : (i + 1) % HonestCount = After(i, 1)
  <2> TAKE i \in Honest
  <2>1. 1 \in 0 .. HonestCount
    BY ScenarioAssumption DEF Honest
  <2>2. QED
    BY <2>1, AfterIsModulo
<1>2. QED
  BY <1>1 DEF Topology

\* The core and the ring have no agent in common, and no edge between them.
LEMMA TwoPopulations ==
  /\ Honest \cup Ring = Agents
  /\ Honest \cap Ring = {}
  /\ \A e \in Topology : /\ e = <<e[1], e[2]>>
                         /\ \/ e[1] \in Honest /\ e[2] \in Honest
                            \/ e[1] \in Ring /\ e[2] \in Ring
<1>1. \A i \in Honest : After(i, 1) \in Honest
  <2> TAKE i \in Honest
  <2>1. 1 \in 0 .. HonestCount
    BY ScenarioAssumption DEF Honest
  <2>2. QED
    BY <2>1, AfterIsModulo
<1>2. Honest \cap Ring = {} /\ Honest \cup Ring = Agents
  BY ScenarioAssumption DEF Honest, Ring
<1>3. ASSUME NEW e \in Topology
      PROVE  /\ e = <<e[1], e[2]>>
             /\ \/ e[1] \in Honest /\ e[2] \in Honest
                \/ e[1] \in Ring /\ e[2] \in Ring
  <2>1. CASE \E i \in Honest : e = <<i, After(i, 1)>> \/ e = <<After(i, 1), i>>
    BY <1>1, <2>1
  <2>2. CASE \E a, b \in Ring : a # b /\ e = <<a, b>>
    BY <2>2
  <2>3. QED
    BY <2>1, <2>2, TopologyEdges
<1>4. QED
  BY <1>2, <1>3

-----------------------------------------------------------------------------
(* What is on the ledger. *)

\* The co-signed receipts reported are those of the edges of the agents that
\* have started.
TrustInv ==
  /\ ledger \in [Receipt -> Nat]
  /\ fallback \in [Agents -> [0 .. 2 -> Nat]]
  /\ started \subseteq Agents
  /\ reports \in Nat
  /\ \A r \in Receipt : r.witnessed =>
       (ledger[r] > 0 <=> /\ r.principal \in started
                          /\ <<r.principal, r.counterparty>> \in Topology)

\* No receipt is reported at the start.
LEMMA InitEstablishes == Init => TrustInv
  BY DEF Init, TrustInit, TrustInv

\* A co-signed receipt is issued in the scenario exactly if it is of an edge.
LEMMA CorroborationsOfTopology ==
  \A r \in Receipt : r.witnessed =>
    (r \in Corroborations <=> <<r.principal, r.counterparty>> \in Topology)
<1> TAKE r \in Receipt
<1> HAVE r.witnessed
<1> DEFINE e == <<r.principal, r.counterparty>>
<1>1. r = Corroborated(e[1], e[2])
  BY DEF Receipt, Corroborated
<1>2. ASSUME NEW f \in Topology, r = Corroborated(f[1], f[2])
      PROVE  f = e
  <2>1. f = <<f[1], f[2]>>
    BY TwoPopulations
  <2>2. r.principal = f[1] /\ r.counterparty = f[2]
    BY <1>2 DEF Corroborated
  <2>3. QED
    BY <2>1, <2>2
<1>3. QED
  BY <1>1, <1>2 DEF Corroborations

\* An agent that starts adds the receipts of its edges (reputation_receipts.py).
LEMMA OnStartKeeps ==
  ASSUME TrustInv, NEW a \in Agents, OnStart(a)
  PROVE  TrustInv'
<1> DEFINE Issued(r) == r.principal = a /\ r \in Corroborations
<1>1. /\ ledger' = [r \in Receipt |-> IF Issued(r) THEN ledger[r] + 1 ELSE ledger[r]]
      /\ started' = started \cup {a}
      /\ UNCHANGED <<fallback, reports>>
  BY DEF OnStart
<1>2. \A r \in Receipt : r.witnessed =>
         (Issued(r) <=> r.principal = a /\ <<a, r.counterparty>> \in Topology)
  BY CorroborationsOfTopology
<1> HIDE DEF Issued
<1>3. ledger' \in [Receipt -> Nat]
  BY <1>1 DEF TrustInv
<1>4. ASSUME NEW r \in Receipt, r.witnessed
      PROVE  ledger'[r] > 0 <=> /\ r.principal \in started'
                                /\ <<r.principal, r.counterparty>> \in Topology
  <2>1. ledger[r] \in Nat /\ ledger'[r] = IF Issued(r) THEN ledger[r] + 1 ELSE ledger[r]
    BY <1>1 DEF TrustInv
  <2>2. ledger[r] > 0 <=> /\ r.principal \in started
                          /\ <<r.principal, r.counterparty>> \in Topology
    BY <1>4 DEF TrustInv
  <2>3. Issued(r) <=> r.principal = a /\ <<a, r.counterparty>> \in Topology
    BY <1>2, <1>4
  <2>4. QED
    BY <1>1, <2>1, <2>2, <2>3
<1>5. QED
  BY <1>1, <1>3, <1>4 DEF TrustInv

\* Others add to a receipt that is on the ledger, or one nobody co-signed.
LEMMA OtherReceiptKeeps ==
  ASSUME TrustInv, NEW r \in Receipt, NEW a, NEW kind, OtherReceipt(r, a, kind)
  PROVE  TrustInv'
<1>1. /\ ledger' = [ledger EXCEPT ![r] = ledger[r] + 1]
      /\ ledger[r] > 0 \/ ~r.witnessed
      /\ UNCHANGED <<fallback, started>> /\ reports' = reports + 1
  BY DEF OtherReceipt, ReportReceipt
<1>2. ledger' \in [Receipt -> Nat]
      /\ \A s \in Receipt : ledger'[s] = IF s = r THEN ledger[r] + 1 ELSE ledger[s]
  BY <1>1 DEF TrustInv
<1>3. \A s \in Receipt : s.witnessed => (ledger'[s] > 0 <=> ledger[s] > 0)
  BY <1>1, <1>2 DEF TrustInv
<1>4. QED
  BY <1>1, <1>2, <1>3 DEF TrustInv

\* What a plain report adds to is one of the three values.
LEMMA HalvesInRange == \A kind : Halves(kind) \in 0 .. 2
  BY DEF Halves

\* Plain text goes to the fallback of the agent named (trust_receipts.py:161-173).
LEMMA OtherPlainKeeps ==
  ASSUME TrustInv, NEW a \in Subjects, NEW kind, OtherPlain(a, kind)
  PROVE  /\ TrustInv'
         /\ UNCHANGED ledger
         /\ \A b \in Agents, h \in 0 .. 2 :
              fallback'[b][h] = fallback[b][h] + (IF b = a /\ h = Halves(kind) THEN 1 ELSE 0)
<1> DEFINE k == Halves(kind)
<1>1. /\ fallback' = [fallback EXCEPT ![a][k] = fallback[a][k] + 1]
      /\ UNCHANGED <<ledger, started>> /\ reports' = reports + 1
  BY DEF OtherPlain, ReportPlain
<1>2. k \in 0 .. 2 /\ a \in Agents
  BY HalvesInRange, ScenarioAssumption
<1> HIDE DEF k
<1>3. fallback[a] \in [0 .. 2 -> Nat]
  BY <1>2 DEF TrustInv
<1>4. fallback' = [fallback EXCEPT ![a] = [fallback[a] EXCEPT ![k] = fallback[a][k] + 1]]
  BY <1>1
<1>5. [fallback[a] EXCEPT ![k] = fallback[a][k] + 1] \in [0 .. 2 -> Nat]
  BY <1>2, <1>3
<1>6. fallback' \in [Agents -> [0 .. 2 -> Nat]]
  BY <1>2, <1>4, <1>5 DEF TrustInv
<1>7. \A b \in Agents, h \in 0 .. 2 :
         fallback'[b][h] = fallback[b][h] + (IF b = a /\ h = k THEN 1 ELSE 0)
  BY <1>2, <1>3, <1>4 DEF TrustInv
<1>8. QED
  BY <1>1, <1>6, <1>7 DEF TrustInv, k

\* The invariant is inductive.
LEMMA NextKeeps == TrustInv /\ [Next]_vars => TrustInv'
<1> SUFFICES ASSUME TrustInv, [Next]_vars PROVE TrustInv'
  OBVIOUS
<1>1. CASE UNCHANGED vars
  BY <1>1 DEF vars, TrustInv
<1>2. CASE \E a \in Agents : OnStart(a)
  BY <1>2, OnStartKeeps
<1>3. CASE \E r \in Receipt, a \in Subjects, kind \in Kinds : OtherReceipt(r, a, kind)
  BY <1>3, OtherReceiptKeeps
<1>4. CASE \E a \in Subjects, kind \in Kinds : OtherPlain(a, kind)
  BY <1>4, OtherPlainKeeps
<1>5. CASE \E a \in Subjects : OtherStakes(a)
  BY <1>5 DEF OtherStakes, Stake, TrustInv
<1>6. QED
  BY <1>1, <1>2, <1>3, <1>4, <1>5 DEF Next

\* The co-signed receipts on the ledger are those of the edges of the agents
\* that have started, whatever others report: the inductive invariant.
THEOREM LedgerIsTopology == Spec => []TrustInv
  BY InitEstablishes, NextKeeps, PTL DEF Spec

\* The corroboration graph is the topology of the agents that have started.
LEMMA EdgesOfStarted ==
  ASSUME TrustInv
  PROVE  Edges = {e \in Topology : e[1] \in started /\ e[1] # e[2]}
<1>1. ASSUME NEW r \in OnLedger, r.witnessed
      PROVE  <<r.principal, r.counterparty>>
               \in {e \in Topology : e[1] \in started /\ e[1] # e[2]}
  BY <1>1 DEF TrustInv, OnLedger, Receipt
<1>2. ASSUME NEW e \in Topology, e[1] \in started, e[1] # e[2]
      PROVE  \E r \in OnLedger : r.witnessed /\ e = <<r.principal, r.counterparty>>
  <2> DEFINE r == Corroborated(e[1], e[2])
  <2>1. e = <<e[1], e[2]>> /\ e[1] \in Agents /\ e[2] \in Agents
    BY TwoPopulations
  <2>2. r.principal = e[1] /\ r.counterparty = e[2] /\ r.witnessed
    BY DEF Corroborated
  <2>3. r \in Receipt
    BY <1>2, <2>1 DEF Receipt, Corroborated
  <2>4. ledger[r] > 0
    BY <1>2, <2>1, <2>2, <2>3 DEF TrustInv
  <2>5. QED
    BY <2>1, <2>2, <2>3, <2>4 DEF OnLedger
<1>3. QED
  BY <1>1, <1>2 DEF Edges

-----------------------------------------------------------------------------
(* What a report counts for. *)

\* There are finitely many receipts.
LEMMA ReceiptFinite == IsFiniteSet(Receipt)
<1> DEFINE All == [principal : Agents, counterparty : Agents, witnessed : BOOLEAN]
           triples == (Agents \X Agents) \X BOOLEAN
           f == [t \in triples |->
                  [principal |-> t[1][1], counterparty |-> t[1][2], witnessed |-> t[2]]]
<1>1. IsFiniteSet(BOOLEAN)
  <2>1. IsFiniteSet({TRUE} \cup {FALSE})
    BY FS_Singleton, FS_AddElement
  <2>2. BOOLEAN = {TRUE} \cup {FALSE}
    OBVIOUS
  <2>3. QED
    BY <2>1, <2>2
<1>2. IsFiniteSet(triples)
  BY <1>1, TrustAssumption, FS_Product
<1>3. f \in Surjection(triples, All)
  <2>1. f \in [triples -> All]
    OBVIOUS
  <2>2. ASSUME NEW r \in All PROVE \E t \in triples : f[t] = r
    <3> DEFINE t == <<<<r.principal, r.counterparty>>, r.witnessed>>
    <3>1. t \in triples /\ f[t] = r
      OBVIOUS
    <3>2. QED
      BY <3>1
  <2>3. QED
    BY <2>1, <2>2 DEF Surjection
<1> HIDE DEF triples, f
<1>4. IsFiniteSet(All)
  BY <1>2, <1>3, FS_Surjection
<1>5. Receipt \in SUBSET All
  BY DEF Receipt
<1>6. QED
  BY <1>4, <1>5, FS_Subset

\* An agent has finitely many entries on the ledger.
LEMMA EntriesFinite ==
  ASSUME ledger \in [Receipt -> Nat], NEW a \in Agents
  PROVE  IsFiniteSet(Entries(a))
<1> DEFINE copies == {{r} \X (1 .. ledger[r]) : r \in Mine(a)}
           f == [r \in Mine(a) |-> {r} \X (1 .. ledger[r])]
<1>1. Mine(a) \in SUBSET Receipt
  BY DEF Mine, Receipt
<1>2. IsFiniteSet(Mine(a))
  BY <1>1, ReceiptFinite, FS_Subset
<1>3. f \in Surjection(Mine(a), copies)
  BY DEF Surjection
<1>4. IsFiniteSet(copies)
  BY <1>2, <1>3, FS_Surjection
<1>5. ASSUME NEW c \in copies PROVE IsFiniteSet(c)
  <2>1. PICK r \in Mine(a) : c = {r} \X (1 .. ledger[r])
    OBVIOUS
  <2>2. ledger[r] \in Int
    BY <1>1
  <2>3. IsFiniteSet({r})
    BY FS_Singleton
  <2>4. IsFiniteSet(1 .. ledger[r])
    BY <2>2, FS_Interval
  <2>5. QED
    BY <2>1, <2>3, <2>4, FS_Product
<1>6. IsFiniteSet(UNION copies)
  BY <1>4, <1>5, FS_UNION
<1>7. QED
  BY <1>6 DEF Entries

\* A receipt reported by others is one more entry of its principal.
LEMMA OneMoreEntry ==
  ASSUME TrustInv, NEW r \in Receipt, ledger' = [ledger EXCEPT ![r] = ledger[r] + 1],
         NEW a \in Agents
  PROVE  /\ a # r.principal => Mine(a)' = Mine(a) /\ Entries(a)' = Entries(a)
         /\ a = r.principal =>
              /\ Mine(a)' = Mine(a) \cup {r}
              /\ Entries(a)' = Entries(a) \cup {<<r, ledger[r] + 1>>}
              /\ <<r, ledger[r] + 1>> \notin Entries(a)
<1>1. ledger \in [Receipt -> Nat]
  BY DEF TrustInv
<1>2. \A s \in Receipt : ledger'[s] = IF s = r THEN ledger[r] + 1 ELSE ledger[s]
  BY <1>1
<1>3. \A s : s \in Mine(a) <=> s \in Receipt /\ ledger[s] > 0 /\ s.principal = a
  BY DEF Mine, Receipt
<1>4. \A s : s \in Mine(a)' <=> s \in Receipt /\ ledger'[s] > 0 /\ s.principal = a
  BY DEF Mine, Receipt
<1>5. \A e : e \in Entries(a) <=> \E s \in Mine(a) : e \in {s} \X (1 .. ledger[s])
  BY DEF Entries
<1>6. \A e : e \in Entries(a)' <=> \E s \in Mine(a)' : e \in {s} \X (1 .. ledger'[s])
  BY DEF Entries
<1>7. ASSUME a # r.principal
      PROVE  Mine(a)' = Mine(a) /\ Entries(a)' = Entries(a)
  <2>1. Mine(a)' = Mine(a) /\ \A s \in Mine(a) : ledger'[s] = ledger[s]
    BY <1>2, <1>3, <1>4, <1>7
  <2>2. \A e : e \in Entries(a)' <=> e \in Entries(a)
    BY <1>5, <1>6, <2>1
  <2>3. QED
    BY <2>1, <2>2
<1>8. ASSUME a = r.principal
      PROVE  /\ Mine(a)' = Mine(a) \cup {r}
             /\ Entries(a)' = Entries(a) \cup {<<r, ledger[r] + 1>>}
             /\ <<r, ledger[r] + 1>> \notin Entries(a)
  <2>1. ledger[r] \in Nat
    BY <1>1
  <2>2. Mine(a)' = Mine(a) \cup {r}
    BY <1>2, <1>3, <1>4, <1>8, <2>1
  <2>3. <<r, ledger[r] + 1>> \notin Entries(a)
    BY <1>5, <2>1
  <2>4. ASSUME NEW e \in Entries(a)' PROVE e \in Entries(a) \cup {<<r, ledger[r] + 1>>}
    <3>1. PICK s \in Mine(a)' : e \in {s} \X (1 .. ledger'[s])
      BY <1>6
    <3>2. PICK i \in 1 .. ledger'[s] : e = <<s, i>>
      BY <3>1
    <3>3. CASE s # r
      BY <1>2, <1>4, <1>5, <2>2, <3>1, <3>2, <3>3
    <3>4. CASE s = r /\ i = ledger[r] + 1
      BY <3>2, <3>4
    <3>5. CASE s = r /\ i # ledger[r] + 1
      <4>1. i \in 1 .. ledger[r] /\ ledger[r] > 0
        BY <1>2, <2>1, <3>2, <3>5
      <4>2. r \in Mine(a)
        BY <1>3, <1>8, <4>1
      <4>3. QED
        BY <1>5, <3>2, <3>5, <4>1, <4>2
    <3>6. QED
      BY <3>3, <3>4, <3>5
  <2>5. ASSUME NEW e \in Entries(a) PROVE e \in Entries(a)'
    <3>1. PICK s \in Mine(a) : e \in {s} \X (1 .. ledger[s])
      BY <1>5
    <3>2. s \in Receipt /\ s \in Mine(a)' /\ ledger[s] \in Nat
      BY <1>1, <1>3, <2>2, <3>1
    <3>3. e \in {s} \X (1 .. ledger'[s])
      BY <1>2, <3>1, <3>2
    <3>4. QED
      BY <1>6, <3>2, <3>3
  <2>6. <<r, ledger[r] + 1>> \in Entries(a)'
    <3>1. r \in Mine(a)' /\ ledger'[r] = ledger[r] + 1
      BY <1>2, <2>2
    <3>2. ledger[r] + 1 \in 1 .. ledger'[r]
      BY <2>1, <3>1
    <3>3. QED
      BY <1>6, <3>1, <3>2
  <2>7. QED
    BY <2>2, <2>3, <2>4, <2>5, <2>6
<1>9. QED
  BY <1>7, <1>8

\* Under the invariant, a receipt reported by others counts 1 for its
\* principal, and discards the plain reports there were of it
\* (trust_receipts.py:151-160, 214-219).
LEMMA ReceiptCountsOnce ==
  ASSUME TrustInv, NEW r \in Receipt, NEW b, NEW kind, OtherReceipt(r, b, kind),
         NEW a \in Agents
  PROVE  Samples(a)' = IF a # r.principal THEN Samples(a)
                       ELSE IF Mine(a) = {} THEN 1 ELSE Samples(a) + 1
<1>1. ledger' = [ledger EXCEPT ![r] = ledger[r] + 1] /\ UNCHANGED fallback
  BY DEF OtherReceipt, ReportReceipt
<1>2. IsFiniteSet(Entries(a))
  BY EntriesFinite DEF TrustInv
<1>3. CASE a # r.principal
  BY <1>1, <1>3, OneMoreEntry DEF Samples
<1>4. CASE a = r.principal
  <2>1. /\ Mine(a)' = Mine(a) \cup {r}
        /\ Entries(a)' = Entries(a) \cup {<<r, ledger[r] + 1>>}
        /\ <<r, ledger[r] + 1>> \notin Entries(a)
    BY <1>1, <1>4, OneMoreEntry
  <2>2. Cardinality(Entries(a)') = Cardinality(Entries(a)) + 1
    BY <1>2, <2>1, FS_AddElement
  <2>3. Samples(a)' = Cardinality(Entries(a)) + 1
    BY <2>1, <2>2 DEF Samples
  <2>4. Mine(a) = {} => Cardinality(Entries(a)) = 0
    BY FS_EmptySet DEF Entries
  <2>5. QED
    BY <1>4, <2>3, <2>4 DEF Samples
<1>5. QED
  BY <1>3, <1>4

\* Under the invariant, plain text counts 1 for the agent named, and only if
\* that agent has no receipt (trust_receipts.py:161-173).
LEMMA PlainCountsOnce ==
  ASSUME TrustInv, NEW b \in Subjects, NEW kind, OtherPlain(b, kind), NEW a \in Agents
  PROVE  Samples(a)' = IF a = b /\ Mine(a) = {} THEN Samples(a) + 1 ELSE Samples(a)
<1>1. /\ UNCHANGED ledger
      /\ \A h \in 0 .. 2 :
           fallback'[a][h] = fallback[a][h] + (IF a = b /\ h = Halves(kind) THEN 1 ELSE 0)
  BY OtherPlainKeeps
<1>2. Mine(a)' = Mine(a) /\ Entries(a)' = Entries(a)
  BY <1>1 DEF Mine, Entries
<1>3. Halves(kind) \in 0 .. 2
  BY HalvesInRange
<1>4. /\ fallback[a][0] \in Nat
      /\ fallback[a][1] \in Nat
      /\ fallback[a][2] \in Nat
  <2>1. fallback[a] \in [0 .. 2 -> Nat]
    BY DEF TrustInv
  <2>2. QED
    BY <2>1
<1> DEFINE sum == fallback[a][0] + fallback[a][1] + fallback[a][2]
<1>5. sum' = IF a = b THEN sum + 1 ELSE sum
  BY <1>1, <1>3, <1>4
<1>6. QED
  BY <1>2, <1>5 DEF Samples

\* No agent has an edge to itself, unless it is a core of one.
LEMMA NoLoops ==
  ASSUME HonestCount # 1, NEW e \in Topology
  PROVE  /\ e = <<e[1], e[2]>> /\ e[1] # e[2]
         /\ Corroborated(e[1], e[2]) \in Receipt
<1>1. \A i \in Honest : i # After(i, 1)
  BY ScenarioAssumption DEF Honest, After
<1>2. e = <<e[1], e[2]>> /\ e[1] \in Agents /\ e[2] \in Agents
  BY TwoPopulations
<1>3. e[1] # e[2]
  <2>1. CASE \E i \in Honest : e = <<i, After(i, 1)>> \/ e = <<After(i, 1), i>>
    BY <1>1, <2>1
  <2>2. CASE \E a, b \in Ring : a # b /\ e = <<a, b>>
    BY <2>2
  <2>3. QED
    BY <2>1, <2>2, TopologyEdges
<1>4. QED
  BY <1>2, <1>3 DEF Receipt, Corroborated

\* What an agent adds to the ledger when it starts: an entry for each edge.
Added(edges) == {<<Corroborated(e[1], e[2]), ledger[Corroborated(e[1], e[2])] + 1>> : e \in edges}

\* They are as many as the edges.
LEMMA AddedAreEdges ==
  ASSUME HonestCount # 1, NEW edges \in SUBSET Topology
  PROVE  IsFiniteSet(Added(edges)) /\ Cardinality(Added(edges)) = Cardinality(edges)
<1> DEFINE entry(e) == <<Corroborated(e[1], e[2]), ledger[Corroborated(e[1], e[2])] + 1>>
           f == [e \in edges |-> entry(e)]
<1>1. IsFiniteSet(edges)
  <2>1. edges \in SUBSET (Agents \X Agents)
    BY TwoPopulations
  <2>2. IsFiniteSet(Agents \X Agents)
    BY TrustAssumption, FS_Product
  <2>3. QED
    BY <2>1, <2>2, FS_Subset
<1>2. f \in Surjection(edges, Added(edges))
  BY DEF Surjection, Added
<1>3. ASSUME NEW c \in edges, NEW d \in edges, f[c] = f[d]
      PROVE  c = d
  <2>1. Corroborated(c[1], c[2]) = Corroborated(d[1], d[2])
    BY <1>3
  <2>2. c[1] = d[1] /\ c[2] = d[2]
    BY <2>1 DEF Corroborated
  <2>3. QED
    BY <2>2, NoLoops
<1> HIDE DEF f
<1>4. f \in Injection(edges, Added(edges))
  BY <1>2, <1>3 DEF Injection, Surjection, IsInjective
<1>5. QED
  BY <1>1, <1>2, <1>4, FS_Surjection

\* An agent that starts adds those to its own entries, and nothing to others'.
LEMMA StartedEntries ==
  ASSUME TrustInv, HonestCount # 1, NEW b \in Agents, OnStart(b), NEW a \in Agents
  PROVE  LET edges == {e \in Topology : e[1] = b}
         IN  /\ a # b => Mine(a)' = Mine(a) /\ Entries(a)' = Entries(a)
             /\ a = b => /\ Entries(a)' = Entries(a) \cup Added(edges)
                         /\ Entries(a) \cap Added(edges) = {}
                         /\ Mine(a)' = {} <=> Mine(a) = {} /\ edges = {}
<1> DEFINE edges == {e \in Topology : e[1] = b}
           Issued(r) == r.principal = b /\ r \in Corroborations
<1>1. ledger \in [Receipt -> Nat]
  BY DEF TrustInv
<1>2. \A r \in Receipt : ledger'[r] = IF Issued(r) THEN ledger[r] + 1 ELSE ledger[r]
  BY DEF OnStart
<1>3. \A r : r \in Mine(a) <=> r \in Receipt /\ ledger[r] > 0 /\ r.principal = a
  BY DEF Mine, Receipt
<1>4. \A r : r \in Mine(a)' <=> r \in Receipt /\ ledger'[r] > 0 /\ r.principal = a
  BY DEF Mine, Receipt
<1>5. \A x : x \in Entries(a) <=> \E r \in Mine(a) : x \in {r} \X (1 .. ledger[r])
  BY DEF Entries
<1>6. \A x : x \in Entries(a)' <=> \E r \in Mine(a)' : x \in {r} \X (1 .. ledger'[r])
  BY DEF Entries
<1>7. ASSUME a # b
      PROVE  Mine(a)' = Mine(a) /\ Entries(a)' = Entries(a)
  <2>1. Mine(a)' = Mine(a) /\ \A r \in Mine(a) : ledger'[r] = ledger[r]
    BY <1>2, <1>3, <1>4, <1>7
  <2>2. \A x : x \in Entries(a)' <=> x \in Entries(a)
    BY <1>5, <1>6, <2>1
  <2>3. QED
    BY <2>1, <2>2
<1>8. ASSUME a = b
      PROVE  /\ Entries(a)' = Entries(a) \cup Added(edges)
             /\ Entries(a) \cap Added(edges) = {}
             /\ Mine(a)' = {} <=> Mine(a) = {} /\ edges = {}
  <2>1. \A r \in Receipt : Issued(r) <=> \E e \in edges : r = Corroborated(e[1], e[2])
    BY DEF Corroborations, Corroborated
  <2>2. \A x : x \in Added(edges) <=> \E r \in Receipt : Issued(r) /\ x = <<r, ledger[r] + 1>>
    <3>1. \A e \in edges : Corroborated(e[1], e[2]) \in Receipt
      BY NoLoops
    <3>2. QED
      BY <2>1, <3>1 DEF Added
  <2>3. edges = {} <=> \A r \in Receipt : ~Issued(r)
    BY <2>1, NoLoops
  <2> HIDE DEF Issued, edges
  <2>4. Entries(a) \cap Added(edges) = {}
    BY <1>1, <1>3, <1>5, <2>2
  <2>5. ASSUME NEW x \in Entries(a)' PROVE x \in Entries(a) \cup Added(edges)
    <3>1. PICK r \in Mine(a)' : x \in {r} \X (1 .. ledger'[r])
      BY <1>6
    <3>2. PICK i \in 1 .. ledger'[r] : x = <<r, i>>
      BY <3>1
    <3>3. r \in Receipt /\ r.principal = a /\ ledger[r] \in Nat
      BY <1>1, <1>4, <3>1
    <3>4. CASE Issued(r) /\ i = ledger[r] + 1
      BY <2>2, <3>2, <3>3, <3>4
    <3>5. CASE ~(Issued(r) /\ i = ledger[r] + 1)
      <4>1. i \in 1 .. ledger[r] /\ ledger[r] > 0
        BY <1>2, <3>2, <3>3, <3>5
      <4>2. r \in Mine(a)
        BY <1>3, <3>3, <4>1
      <4>3. QED
        BY <1>5, <3>2, <4>1, <4>2
    <3>6. QED
      BY <3>4, <3>5
  <2>6. ASSUME NEW x \in Entries(a) PROVE x \in Entries(a)'
    <3>1. PICK r \in Mine(a) : x \in {r} \X (1 .. ledger[r])
      BY <1>5
    <3>2. r \in Receipt /\ ledger[r] \in Nat /\ ledger[r] > 0 /\ r.principal = a
      BY <1>1, <1>3, <3>1
    <3>3. ledger'[r] \in Nat /\ ledger'[r] >= ledger[r]
      BY <1>2, <3>2
    <3>4. r \in Mine(a)' /\ x \in {r} \X (1 .. ledger'[r])
      BY <1>4, <3>1, <3>2, <3>3
    <3>5. QED
      BY <1>6, <3>4
  <2>7. ASSUME NEW x \in Added(edges) PROVE x \in Entries(a)'
    <3>1. PICK r \in Receipt : Issued(r) /\ x = <<r, ledger[r] + 1>>
      BY <2>2
    <3>2. ledger[r] \in Nat /\ ledger'[r] = ledger[r] + 1 /\ r.principal = a
      BY <1>1, <1>2, <1>8, <3>1 DEF Issued
    <3>3. r \in Mine(a)' /\ ledger[r] + 1 \in 1 .. ledger'[r]
      BY <1>4, <3>2
    <3>4. QED
      BY <1>6, <3>1, <3>3
  <2>8. Mine(a)' = {} <=> Mine(a) = {} /\ edges = {}
    <3>1. ASSUME NEW r \in Receipt, r.principal = a
          PROVE  ledger'[r] > 0 <=> ledger[r] > 0 \/ Issued(r)
      BY <1>1, <1>2
    <3>2. \A r \in Receipt : Issued(r) => r.principal = a
      BY <1>8 DEF Issued
    <3>3. QED
      BY <1>3, <1>4, <2>3, <3>1, <3>2
  <2>9. QED
    BY <2>4, <2>5, <2>6, <2>7, <2>8
<1>9. QED
  BY <1>7, <1>8

\* So an agent that starts has its receipts count, each once, and what others
\* said of it before in plain text does not (reputation_receipts.py:186-193,
\* trust_receipts.py:151-160).
LEMMA StartCountsOnce ==
  ASSUME TrustInv, HonestCount # 1, NEW b \in Agents, OnStart(b), NEW a \in Agents
  PROVE  LET issued == {e \in Topology : e[1] = b}
         IN  Samples(a)' = IF a # b \/ issued = {} THEN Samples(a)
                           ELSE IF Mine(a) = {} THEN Cardinality(issued)
                           ELSE Samples(a) + Cardinality(issued)
<1> DEFINE issued == {e \in Topology : e[1] = b}
<1>1. UNCHANGED fallback
  BY DEF OnStart
<1>2. CASE a # b
  BY <1>1, <1>2, StartedEntries DEF Samples
<1>3. CASE a = b
  <2>1. /\ Entries(a)' = Entries(a) \cup Added(issued)
        /\ Entries(a) \cap Added(issued) = {}
        /\ Mine(a)' = {} <=> Mine(a) = {} /\ issued = {}
    BY <1>3, StartedEntries
  <2>2. IsFiniteSet(Entries(a))
    BY EntriesFinite DEF TrustInv
  <2>3. issued \in SUBSET Topology
    OBVIOUS
  <2> HIDE DEF issued
  <2>4. IsFiniteSet(Added(issued)) /\ Cardinality(Added(issued)) = Cardinality(issued)
    BY <2>3, AddedAreEdges
  <2>5. /\ Cardinality(Entries(a)) \in Nat
        /\ Cardinality(issued) \in Nat
        /\ Cardinality(Entries(a)') = Cardinality(Entries(a)) + Cardinality(issued)
    <3>1. Cardinality(Entries(a)) \in Nat /\ Cardinality(Added(issued)) \in Nat
      BY <2>2, <2>4, FS_CardinalityType
    <3>2. Cardinality(Entries(a) \cup Added(issued)) =
            Cardinality(Entries(a)) + Cardinality(Added(issued)) - Cardinality({})
      BY <2>1, <2>2, <2>4, FS_Union
    <3>3. Cardinality({}) = 0
      BY FS_EmptySet
    <3>4. QED
      BY <2>1, <2>4, <3>1, <3>2, <3>3
  <2>6. Mine(a) = {} => Cardinality(Entries(a)) = 0
    BY FS_EmptySet DEF Entries
  <2>7. issued = {} => Cardinality(issued) = 0
    BY FS_EmptySet
  <2>8. Samples(a)' = IF issued = {} THEN Samples(a)
                      ELSE IF Mine(a) = {} THEN Cardinality(issued)
                      ELSE Samples(a) + Cardinality(issued)
    <3>1. CASE Mine(a)' = {}
      BY <1>1, <2>1, <3>1 DEF Samples
    <3>2. CASE Mine(a)' # {} /\ Mine(a) = {}
      BY <2>1, <2>5, <2>6, <3>2 DEF Samples
    <3>3. CASE Mine(a)' # {} /\ Mine(a) # {}
      BY <2>5, <2>7, <3>3 DEF Samples
    <3>4. QED
      BY <3>1, <3>2, <3>3
  <2>9. QED
    BY <1>3, <2>8 DEF issued
<1>4. QED
  BY <1>2, <1>3

\* A report counts for one agent, and once, also of those of the agents that
\* start (the property of the runs).  A core of one would corroborate itself.
THEOREM ReportsOnce ==
  ASSUME HonestCount # 1
  PROVE  Spec => ReportsCountOnce
<1> DEFINE Receipts ==
             \A r \in Receipt : (reports' > reports /\ ledger'[r] # ledger[r]) =>
               \A a \in Agents :
                 Samples(a)' = IF a # r.principal THEN Samples(a)
                               ELSE IF Mine(a) = {} THEN 1 ELSE Samples(a) + 1
           Plain ==
             \A b \in Subjects, kind \in Kinds : OtherPlain(b, kind) =>
               \A a \in Agents :
                 Samples(a)' = IF a = b /\ Mine(a) = {} THEN Samples(a) + 1 ELSE Samples(a)
           Started ==
             \A b \in Agents : OnStart(b) =>
               LET issued == {e \in Topology : e[1] = b}
               IN  \A a \in Agents :
                     Samples(a)' = IF a # b \/ issued = {} THEN Samples(a)
                                   ELSE IF Mine(a) = {} THEN Cardinality(issued)
                                   ELSE Samples(a) + Cardinality(issued)
<1>1. TrustInv /\ [Next]_vars => Receipts
  <2> SUFFICES ASSUME TrustInv, [Next]_vars,
                      NEW r \in Receipt, reports' > reports, ledger'[r] # ledger[r],
                      NEW a \in Agents
               PROVE  Samples(a)' = IF a # r.principal THEN Samples(a)
                                    ELSE IF Mine(a) = {} THEN 1 ELSE Samples(a) + 1
    OBVIOUS
  <2>1. reports \in Nat
    BY DEF TrustInv
  <2>2. ~UNCHANGED reports /\ ~UNCHANGED ledger
    BY <2>1
  <2>3. PICK s \in Receipt, b \in Subjects, kind \in Kinds : OtherReceipt(s, b, kind)
    BY <2>2 DEF Next, vars, OnStart, OtherPlain, ReportPlain, OtherStakes, Stake
  <2>4. ledger' = [ledger EXCEPT ![s] = ledger[s] + 1]
    BY <2>3 DEF OtherReceipt, ReportReceipt
  <2>5. s = r
    BY <2>4 DEF TrustInv
  <2>6. QED
    BY <2>3, <2>5, ReceiptCountsOnce
<1>2. TrustInv => Plain
  BY PlainCountsOnce
<1>3. TrustInv => Started
  BY StartCountsOnce
<1>4. TrustInv /\ [Next]_vars => [Receipts /\ Plain /\ Started]_vars
  BY <1>1, <1>2, <1>3
<1>5. QED
  BY <1>4, LedgerIsTopology, PTL DEF Spec, ReportsCountOnce

-----------------------------------------------------------------------------
(* Components. *)

\* The component of an agent.
ComponentOf(edges, a) == {b \in Agents : \A S \in Closed(edges) : a \in S <=> b \in S}

\* It is the only component that the agent is in.
LEMMA OneComponent ==
  ASSUME NEW edges, NEW a \in Agents
  PROVE  /\ ComponentOf(edges, a) \in Components(edges)
         /\ a \in ComponentOf(edges, a)
         /\ \A comp \in Components(edges) : a \in comp => comp = ComponentOf(edges, a)
<1>1. ComponentOf(edges, a) \in Components(edges) /\ a \in ComponentOf(edges, a)
  BY DEF Components, ComponentOf
<1>2. ASSUME NEW comp \in Components(edges), a \in comp
      PROVE  comp = ComponentOf(edges, a)
  <2>1. PICK c \in Agents :
           comp = {b \in Agents : \A S \in Closed(edges) : c \in S <=> b \in S}
    BY DEF Components
  <2>2. \A S \in Closed(edges) : c \in S <=> a \in S
    BY <1>2, <2>1
  <2>3. QED
    BY <2>1, <2>2 DEF ComponentOf
<1>3. QED
  BY <1>1, <1>2

\* Components are finite sets of agents.
LEMMA ComponentFinite ==
  ASSUME NEW edges, NEW comp \in Components(edges)
  PROVE  /\ comp \in SUBSET Agents
         /\ IsFiniteSet(comp)
         /\ Cardinality(comp) \in Nat
         /\ \E a \in comp : comp = ComponentOf(edges, a)
<1>1. comp \in SUBSET Agents /\ \E a \in comp : comp = ComponentOf(edges, a)
  BY DEF Components, ComponentOf
<1>2. QED
  BY <1>1, TrustAssumption, FS_Subset, FS_CardinalityType

\* Agents with edges in both directions are in one component.
LEMMA MutualEdges ==
  ASSUME NEW edges, NEW a \in Agents, NEW b \in Agents,
         <<a, b>> \in edges, <<b, a>> \in edges,
         NEW c \in Agents, a \in ComponentOf(edges, c)
  PROVE  b \in ComponentOf(edges, c)
<1>1. \A S \in Closed(edges) : a \in S <=> b \in S
  BY DEF Closed
<1>2. QED
  BY <1>1 DEF ComponentOf

\* No component reaches out of a closed set that it meets.
LEMMA WithinClosed ==
  ASSUME NEW edges, NEW S \in Closed(edges), NEW a \in S, NEW comp, a \in Agents,
         comp = ComponentOf(edges, a)
  PROVE  comp \subseteq S
  BY DEF ComponentOf

\* What holds of 0, and of d + 1 where it holds of d < n, holds up to n.
LEMMA Upto ==
  ASSUME NEW n \in Nat, NEW S, 0 \in S, \A d \in 0 .. n - 1 : d \in S => d + 1 \in S
  PROVE  0 .. n \subseteq S
<1> DEFINE T == {d \in 0 .. n : d \notin S}
<1>1. SUFFICES ASSUME T # {} PROVE FALSE
  OBVIOUS
<1>2. OpToRel(<, Nat) = {p \in Nat \X Nat : p[1] < p[2]}
  BY Zenon DEF OpToRel
<1>3. T \subseteq Nat
  OBVIOUS
<1> HIDE DEF T
<1>4. PICK m \in T : \A d \in T : ~(<<d, m>> \in OpToRel(<, Nat))
  BY <1>1, <1>3, NatLessThanWellFounded, WFMin, Zenon
<1>5. \A d \in T : ~(<<d, m>> \in {p \in Nat \X Nat : p[1] < p[2]})
  BY <1>2, <1>4, Zenon
<1>6. \A d \in T : ~(d < m)
  BY <1>3, <1>5
<1>7. QED
  BY <1>6 DEF T

\* No edge of the ledger leaves the core or the ring.
LEMMA PopulationsClosed ==
  ASSUME TrustInv
  PROVE  Honest \in Closed(Edges) /\ Ring \in Closed(Edges)
<1>1. \A e \in Edges : e \in Topology
  BY EdgesOfStarted
<1>2. QED
  BY <1>1, TwoPopulations DEF Closed

-----------------------------------------------------------------------------
(* The ring. *)

\* Once every agent of the ring has started, it is a component.
LEMMA RingIsComponent ==
  ASSUME TrustInv, Ring \subseteq started, NEW a \in Ring
  PROVE  ComponentOf(Edges, a) = Ring
<1>1. a \in Agents
  BY TwoPopulations
<1>2. ComponentOf(Edges, a) \subseteq Ring
  BY <1>1, PopulationsClosed, WithinClosed
<1>3. ASSUME NEW b \in Ring PROVE b \in ComponentOf(Edges, a)
  <2>1. a \in ComponentOf(Edges, a)
    BY <1>1, OneComponent
  <2>2. CASE b # a
    <3>1. <<a, b>> \in Topology /\ <<b, a>> \in Topology
      BY <2>2, TopologyEdges
    <3>2. <<a, b>> \in Edges /\ <<b, a>> \in Edges
      BY <2>2, <3>1, EdgesOfStarted
    <3>3. b \in Agents
      BY TwoPopulations
    <3>4. QED
      BY <1>1, <2>1, <3>2, <3>3, MutualEdges
  <2>3. QED
    BY <2>1, <2>2
<1>4. QED
  BY <1>2, <1>3

\* It has an edge for every ordered pair.
LEMMA RingIsDense ==
  ASSUME TrustInv, Ring \subseteq started
  PROVE  /\ IsFiniteSet(Ring) /\ Cardinality(Ring) = RingCount
         /\ Dense(Ring, Edges)
<1> DEFINE n == RingCount
           diagonal == {<<a, a>> : a \in Ring}
           f == [a \in Ring |-> <<a, a>>]
<1>1. n \in Nat /\ HonestCount \in Nat
  BY ScenarioAssumption
<1>2. IsFiniteSet(Ring) /\ Cardinality(Ring) = n
  <2>1. HonestCount \in Int /\ HonestCount + RingCount - 1 \in Int
    BY <1>1
  <2>2. IsFiniteSet(Ring) /\ Cardinality(Ring) =
          IF HonestCount > HonestCount + RingCount - 1 THEN 0
          ELSE (HonestCount + RingCount - 1) - HonestCount + 1
    BY <2>1, FS_Interval DEF Ring
  <2>3. QED
    BY <1>1, <2>2
<1>3. Cardinality(diagonal) = n
  <2>1. f \in Surjection(Ring, diagonal)
    BY DEF Surjection
  <2>2. f \in Injection(Ring, diagonal)
    BY DEF Injection, IsInjective
  <2> HIDE DEF f, diagonal
  <2>3. QED
    BY <1>2, <2>1, <2>2, FS_Surjection
<1>4. Edges \cap (Ring \X Ring) = (Ring \X Ring) \ diagonal
  <2>1. \A a, b \in Ring : <<a, b>> \in Edges <=> a # b
    <3>1. \A a, b \in Ring : a # b => <<a, b>> \in Edges
      BY TopologyEdges, EdgesOfStarted
    <3>2. \A a, b \in Ring : <<a, b>> \in Edges => a # b
      BY EdgesOfStarted
    <3>3. QED
      BY <3>1, <3>2
  <2>2. QED
    BY <2>1
<1>5. (Ring \X Ring) \cap diagonal = diagonal
  OBVIOUS
<1> HIDE DEF diagonal
<1>6. Cardinality(Edges \cap (Ring \X Ring)) = n * n - n
  <2>1. IsFiniteSet(Ring \X Ring) /\ Cardinality(Ring \X Ring) = n * n
    BY <1>2, FS_Product
  <2>2. QED
    BY <1>3, <1>4, <1>5, <2>1, FS_Difference
<1>7. 5 * (n * n - n) >= 4 * n * (n - 1)
  <2>1. 4 * n * (n - 1) = 4 * (n * n - n)
    BY <1>1
  <2>2. n * n - n >= 0
    BY <1>1
  <2>3. n * n - n \in Int
    BY <1>1
  <2> HIDE DEF n
  <2> DEFINE m == n * n - n
  <2> HIDE DEF m
  <2>4. QED
    BY <2>1, <2>2, <2>3 DEF m
<1>8. QED
  BY <1>2, <1>6, <1>7 DEF Dense

\* Started agents in a row of the core are in one component.
LEMMA RowInComponent ==
  ASSUME TrustInv, NEW i \in Honest, RingCount \in 1 .. HonestCount - 1,
         \A d \in 0 .. RingCount : After(i, d) \in started
  PROVE  \A d \in 0 .. RingCount : After(i, d) \in ComponentOf(Edges, i)
<1> DEFINE S == {d \in 0 .. RingCount : After(i, d) \in ComponentOf(Edges, i)}
<1>1. HonestCount \in Nat /\ RingCount \in Nat /\ i \in Nat /\ i < HonestCount
  BY ScenarioAssumption DEF Honest
<1>2. \A d \in 0 .. RingCount : After(i, d) \in Honest /\ After(i, d) \in Agents
  BY <1>1, TwoPopulations, AfterIsModulo
<1>3. 0 \in S
  <2>1. After(i, 0) = i
    BY <1>1 DEF After
  <2>2. QED
    BY <1>1, <2>1, TwoPopulations, OneComponent
<1>4. ASSUME NEW d \in 0 .. RingCount - 1, d \in S PROVE d + 1 \in S
  <2> DEFINE x == After(i, d)
             y == After(i, d + 1)
  <2>1. d \in 0 .. RingCount /\ d + 1 \in 0 .. RingCount
    BY <1>1
  <2>2. y = After(x, 1) /\ x # y
    BY <1>1 DEF After
  <2>3. x \in Honest /\ x \in Agents /\ y \in Agents /\ i \in Agents
    BY <1>2, <2>1, TwoPopulations
  <2>4. x \in started /\ y \in started
    BY <2>1
  <2>5. <<x, y>> \in Topology /\ <<y, x>> \in Topology
    BY <2>2, <2>3, TopologyEdges
  <2> HIDE DEF x, y
  <2>6. <<x, y>> \in Edges /\ <<y, x>> \in Edges
    BY <2>2, <2>4, <2>5, EdgesOfStarted
  <2>7. x \in ComponentOf(Edges, i)
    BY <1>4 DEF x
  <2>8. y \in ComponentOf(Edges, i)
    BY <2>3, <2>6, <2>7, MutualEdges
  <2>9. QED
    BY <2>1, <2>8 DEF y
<1> HIDE DEF S
<1>5. 0 .. RingCount \subseteq S
  BY <1>1, <1>3, <1>4, Upto
<1>6. QED
  BY <1>5 DEF S

\* So that component has more agents than the ring.
LEMMA RowOutgrowsRing ==
  ASSUME TrustInv, NEW i \in Honest, RingCount \in 1 .. HonestCount - 1,
         \A d \in 0 .. RingCount : After(i, d) \in started
  PROVE  Cardinality(ComponentOf(Edges, i)) > RingCount
<1> DEFINE comp == ComponentOf(Edges, i)
           f == [d \in 0 .. RingCount |-> After(i, d)]
<1>1. HonestCount \in Nat /\ RingCount \in Nat /\ i \in Nat /\ i < HonestCount
  BY ScenarioAssumption DEF Honest
<1>2. \A d \in 0 .. RingCount : After(i, d) \in comp
  BY RowInComponent
<1>3. \A c, d \in 0 .. RingCount : After(i, c) = After(i, d) => c = d
  BY <1>1 DEF After
<1>4. IsFiniteSet(comp) /\ Cardinality(comp) \in Nat
  BY TwoPopulations, OneComponent, ComponentFinite
<1> HIDE DEF comp
<1>5. f \in Injection(0 .. RingCount, comp)
  BY <1>2, <1>3 DEF Injection, IsInjective
<1>6. Cardinality(0 .. RingCount) <= Cardinality(comp)
  BY <1>4, <1>5, FS_Injection
<1>7. Cardinality(0 .. RingCount) = RingCount + 1
  <2>1. 0 \in Int /\ RingCount \in Int
    BY <1>1
  <2>2. Cardinality(0 .. RingCount) = IF 0 > RingCount THEN 0 ELSE RingCount - 0 + 1
    BY <2>1, FS_Interval
  <2>3. QED
    BY <1>1, <2>2
<1>8. QED
  BY <1>1, <1>4, <1>6, <1>7 DEF comp

\* The ring is severed once it and a longer row of the core have started,
\* whichever largest component is the anchor.
LEMMA RingSevered ==
  ASSUME TrustInv, RingCount < HonestCount, \A m \in MinRings : m <= RingCount,
         Ring \subseteq started, CoreOutgrowsRing,
         NEW severed \in Severances
  PROVE  Ring \subseteq severed
<1> SUFFICES ASSUME NEW a \in Ring PROVE a \in severed
  OBVIOUS
<1>1. HonestCount \in Nat /\ RingCount \in Nat /\ RingCount \in 1 .. HonestCount - 1
  BY ScenarioAssumption DEF Ring
<1>2. PICK i \in Honest : \A d \in 0 .. RingCount : (i + d) % HonestCount \in started
  BY DEF CoreOutgrowsRing
<1>3. \A d \in 0 .. RingCount : After(i, d) \in started
  <2> TAKE d \in 0 .. RingCount
  <2>1. d \in 0 .. HonestCount
    BY <1>1
  <2>2. QED
    BY <1>2, <2>1, AfterIsModulo
<1> DEFINE comps == Components(Edges)
           core  == ComponentOf(Edges, i)
<1>4. PICK anchor \in Anchors(comps), smallest \in MinRings :
         severed = UNION {comp \in comps \ {anchor} :
                            /\ Cardinality(comp) >= smallest
                            /\ Dense(comp, Edges)
                            /\ Isolated(comp, anchor, Edges)}
  BY DEF Severances
<1>5. a \in Agents /\ Ring = ComponentOf(Edges, a) /\ Ring \in comps
  BY RingIsComponent, OneComponent, TwoPopulations
<1>6. IsFiniteSet(Ring) /\ Cardinality(Ring) = RingCount /\ Dense(Ring, Edges)
  BY RingIsDense
<1>7. Ring # anchor
  <2>1. core \in comps
    BY OneComponent, TwoPopulations
  <2>2. Cardinality(anchor) >= Cardinality(core) /\ anchor \in comps
    BY <1>4, <2>1 DEF Anchors
  <2>3. Cardinality(core) > RingCount
    BY <1>1, <1>3, RowOutgrowsRing
  <2>4. Cardinality(core) \in Nat /\ Cardinality(anchor) \in Nat
    BY <2>1, <2>2, ComponentFinite
  <2>5. Cardinality(anchor) > RingCount
    BY <1>1, <2>2, <2>3, <2>4
  <2>6. QED
    BY <1>1, <1>6, <2>5
<1>8. Isolated(Ring, anchor, Edges)
  <2>1. anchor \cap Ring = {}
    <3>1. SUFFICES ASSUME NEW b \in anchor, b \in Ring PROVE FALSE
      OBVIOUS
    <3>2. b \in Agents /\ anchor \in comps
      BY <1>4, <3>1, TwoPopulations DEF Anchors
    <3>3. anchor = ComponentOf(Edges, b) /\ Ring = ComponentOf(Edges, b)
      BY <1>5, <3>1, <3>2, OneComponent
    <3>4. QED
      BY <1>7, <3>3
  <2>2. \A e \in Edges : e = <<e[1], e[2]>> /\ (e[1] \in Ring <=> e[2] \in Ring)
    BY EdgesOfStarted, TwoPopulations
  <2>3. QED
    BY <2>1, <2>2 DEF Isolated
<1>9. Cardinality(Ring) >= smallest
  BY <1>1, <1>4, <1>6, TrustAssumption
<1> HIDE DEF comps
<1>10. Ring \in {comp \in comps \ {anchor} : /\ Cardinality(comp) >= smallest
                                             /\ Dense(comp, Edges)
                                             /\ Isolated(comp, anchor, Edges)}
  BY <1>5, <1>6, <1>7, <1>8, <1>9
<1>11. QED
  BY <1>4, <1>10

\* No receipt of the ring counts, as soon as the started part of the core is
\* larger than it (reputation_receipts.py:14-17): for a ring that is smaller
\* than the core and large enough for VRP to sever.
THEOREM RingIsCaught ==
  ASSUME RingCount < HonestCount, \A m \in MinRings : m <= RingCount
  PROVE  Spec => []RingCaught
<1>1. TrustInv => RingCaught
  BY RingSevered DEF RingCaught, Credited
<1>2. QED
  BY <1>1, LedgerIsTopology, PTL

-----------------------------------------------------------------------------
(* The core. *)

\* In a core of four or more, the neighbours on the cycle are others, and so
\* are their neighbours.
LEMMA NeighboursDiffer ==
  ASSUME HonestCount >= 4, NEW i \in Honest
  PROVE  LET n == After(i, 1)
             m == After(n, 1)
         IN  /\ i \in Nat /\ i \in Agents
             /\ n \in Honest /\ n \in Agents
             /\ m \in Honest /\ m \in Agents
             /\ i # n /\ n # m /\ m # i /\ After(m, 1) # i
             /\ n = (i + 1) % HonestCount /\ m = (i + 2) % HonestCount
             /\ \A j \in Honest : After(j, 1) = n => j = i
<1>1. HonestCount \in Nat /\ i \in Nat /\ i < HonestCount
  BY ScenarioAssumption DEF Honest
<1>2. 1 \in 0 .. HonestCount /\ 2 \in 0 .. HonestCount
  BY <1>1
<1>3. \A j \in Honest : j \in Nat /\ j < HonestCount
                        /\ After(j, 1) \in Honest /\ After(j, 1) \in Agents
  BY <1>1, <1>2, AfterIsModulo, TwoPopulations DEF Honest
<1>4. (i + 1) % HonestCount = After(i, 1) /\ (i + 2) % HonestCount = After(i, 2)
  BY <1>2, AfterIsModulo
<1>5. After(i, 2) = After(After(i, 1), 1)
  BY <1>1 DEF After
<1>6. \A j \in Honest : After(j, 1) = After(i, 1) => j = i
  BY <1>1, <1>3 DEF After
<1>7. /\ i # After(i, 1) /\ After(i, 1) # After(After(i, 1), 1)
      /\ After(After(i, 1), 1) # i /\ After(After(After(i, 1), 1), 1) # i
  BY <1>1 DEF After
<1>8. QED
  BY <1>1, <1>3, <1>4, <1>5, <1>6, <1>7, TwoPopulations

\* An agent of the core, its neighbours and all that is in one component with
\* it are of the core.
LEMMA CoreComponent ==
  ASSUME TrustInv, HonestCount >= 4, NEW i \in Honest,
         {i, After(i, 1), After(After(i, 1), 1)} \subseteq started
  PROVE  LET n == After(i, 1)
             comp == ComponentOf(Edges, n)
         IN  /\ {i, n, After(n, 1)} \subseteq comp
             /\ comp \subseteq Honest
             /\ IsFiniteSet(comp) /\ Cardinality(comp) \in Nat
<1> DEFINE n == After(i, 1)
           m == After(n, 1)
           comp == ComponentOf(Edges, n)
<1>1. /\ n \in Honest /\ n \in Agents /\ i \in Agents /\ m \in Agents
      /\ i # n /\ n # m
  BY NeighboursDiffer
<1>2. n \in comp
  BY <1>1, OneComponent
<1>3. /\ <<i, n>> \in Topology /\ <<n, i>> \in Topology
      /\ <<n, m>> \in Topology /\ <<m, n>> \in Topology
  BY <1>1, TopologyEdges
<1>4. i \in started /\ n \in started /\ m \in started
  OBVIOUS
<1> HIDE DEF n, m
<1>5. /\ <<i, n>> \in Edges /\ <<n, i>> \in Edges
      /\ <<n, m>> \in Edges /\ <<m, n>> \in Edges
  BY <1>1, <1>3, <1>4, EdgesOfStarted
<1>6. i \in comp /\ m \in comp
  BY <1>1, <1>2, <1>5, MutualEdges
<1>7. comp \subseteq Honest
  BY <1>1, PopulationsClosed, WithinClosed
<1>8. IsFiniteSet(comp) /\ Cardinality(comp) \in Nat
  BY <1>1, OneComponent, ComponentFinite
<1>9. QED
  BY <1>2, <1>6, <1>7, <1>8 DEF n, m

\* Among agents of the core there are at most two edges for each of them.
LEMMA CoreEdges ==
  ASSUME TrustInv, NEW comp, comp \subseteq Honest, IsFiniteSet(comp)
  PROVE  /\ IsFiniteSet(Edges \cap (comp \X comp))
         /\ Cardinality(Edges \cap (comp \X comp)) <= 2 * Cardinality(comp)
<1> DEFINE inside   == Edges \cap (comp \X comp)
           forward  == {<<x, After(x, 1)>> : x \in comp}
           backward == {<<After(x, 1), x>> : x \in comp}
           f == [x \in comp |-> <<x, After(x, 1)>>]
           b == [x \in comp |-> <<After(x, 1), x>>]
<1>1. IsFiniteSet(forward) /\ Cardinality(forward) <= Cardinality(comp)
  <2>1. f \in Surjection(comp, forward)
    BY DEF Surjection
  <2> HIDE DEF f, forward
  <2>2. QED
    BY <2>1, FS_Surjection
<1>2. IsFiniteSet(backward) /\ Cardinality(backward) <= Cardinality(comp)
  <2>1. b \in Surjection(comp, backward)
    BY DEF Surjection
  <2> HIDE DEF b, backward
  <2>2. QED
    BY <2>1, FS_Surjection
<1>3. inside \in SUBSET (forward \cup backward)
  <2>1. SUFFICES ASSUME NEW e \in inside PROVE e \in forward \cup backward
    OBVIOUS
  <2>2. e \in Topology /\ e \in comp \X comp
    BY EdgesOfStarted
  <2>3. CASE \E x \in Honest : e = <<x, After(x, 1)>> \/ e = <<After(x, 1), x>>
    BY <2>2, <2>3
  <2>4. CASE \E x, y \in Ring : x # y /\ e = <<x, y>>
    BY <2>2, <2>4, TwoPopulations
  <2>5. QED
    BY <2>2, <2>3, <2>4, TopologyEdges
<1> HIDE DEF forward, backward, inside
<1>4. /\ IsFiniteSet(forward \cup backward)
      /\ Cardinality(forward \cup backward) =
           Cardinality(forward) + Cardinality(backward) - Cardinality(forward \cap backward)
  BY <1>1, <1>2, FS_Union
<1>5. IsFiniteSet(forward \cap backward)
  BY <1>1, FS_Intersection
<1>6. /\ Cardinality(forward) \in Nat /\ Cardinality(backward) \in Nat
      /\ Cardinality(forward \cap backward) \in Nat /\ Cardinality(comp) \in Nat
      /\ Cardinality(forward \cup backward) \in Nat
  BY <1>1, <1>2, <1>4, <1>5, FS_CardinalityType
<1>7. /\ IsFiniteSet(inside) /\ Cardinality(inside) <= Cardinality(forward \cup backward)
  BY <1>3, <1>4, FS_Subset
<1>8. Cardinality(inside) \in Nat
  BY <1>7, FS_CardinalityType
<1>9. Cardinality(inside) <= 2 * Cardinality(comp)
  BY <1>1, <1>2, <1>4, <1>6, <1>7, <1>8
<1>10. QED
  BY <1>7, <1>9 DEF inside

\* One more element is one more, at most.
LEMMA AtMostOneMore ==
  ASSUME NEW S, IsFiniteSet(S), NEW n \in Nat, Cardinality(S) <= n, NEW x
  PROVE  IsFiniteSet(S \cup {x}) /\ Cardinality(S \cup {x}) <= n + 1
<1>1. /\ IsFiniteSet(S \cup {x})
      /\ Cardinality(S \cup {x}) = IF x \in S THEN Cardinality(S) ELSE Cardinality(S) + 1
  BY FS_AddElement
<1>2. Cardinality(S) \in Nat
  BY FS_CardinalityType
<1>3. QED
  BY <1>1, <1>2

\* A list of four names four elements, at most.
LEMMA AtMostFour ==
  ASSUME NEW a, NEW b, NEW c, NEW d
  PROVE  LET four == (({a} \cup {b}) \cup {c}) \cup {d}
         IN  IsFiniteSet(four) /\ Cardinality(four) <= 4
<1> DEFINE one == {a}
           two == one \cup {b}
           three == two \cup {c}
           four == three \cup {d}
<1>1. IsFiniteSet(one) /\ Cardinality(one) = 1
  BY FS_Singleton
<1> HIDE DEF one
<1>2. IsFiniteSet(one) /\ Cardinality(one) <= 1
  BY <1>1
<1>3. 1 \in Nat /\ 2 \in Nat /\ 3 \in Nat /\ 1 + 1 = 2 /\ 2 + 1 = 3 /\ 3 + 1 = 4
  OBVIOUS
<1>4. IsFiniteSet(two) /\ Cardinality(two) <= 2
  BY <1>2, <1>3, AtMostOneMore
<1> HIDE DEF two
<1>5. IsFiniteSet(three) /\ Cardinality(three) <= 3
  BY <1>3, <1>4, AtMostOneMore
<1> HIDE DEF three
<1>6. IsFiniteSet(four) /\ Cardinality(four) <= 4
  BY <1>3, <1>5, AtMostOneMore
<1>7. QED
  BY <1>6 DEF three, two, one

\* Three in a row of a longer cycle have four edges.
LEMMA RowOfThree ==
  ASSUME TrustInv, HonestCount >= 4, NEW i \in Honest
  PROVE  LET n == After(i, 1)
             m == After(n, 1)
             row == {i, n, m}
         IN  /\ IsFiniteSet(row) /\ Cardinality(row) = 3
             /\ Cardinality(Edges \cap (row \X row)) <= 4
<1> DEFINE n == After(i, 1)
           m == After(n, 1)
           row == {i, n, m}
           inside == Edges \cap (row \X row)
           four == (({<<i, n>>} \cup {<<n, i>>}) \cup {<<n, m>>}) \cup {<<m, n>>}
<1>1. /\ n \in Honest /\ m \in Honest /\ i # n /\ n # m /\ m # i /\ After(m, 1) # i
  BY NeighboursDiffer
<1>2. \A e \in Edges : e \in Topology /\ e[1] # e[2]
  BY EdgesOfStarted
<1>3. inside \in SUBSET four
  <2>1. SUFFICES ASSUME NEW e \in inside PROVE e \in four
    OBVIOUS
  <2>2. e \in Topology /\ e \in row \X row
    BY <1>2
  <2>3. row \subseteq Honest
    BY <1>1
  <2>4. CASE \E x, y \in Ring : x # y /\ e = <<x, y>>
    BY <2>2, <2>3, <2>4, TwoPopulations
  <2>5. CASE \E x \in Honest : e = <<x, After(x, 1)>> \/ e = <<After(x, 1), x>>
    <3>1. PICK x \in Honest : e = <<x, After(x, 1)>> \/ e = <<After(x, 1), x>>
      BY <2>5
    <3>2. x \in row /\ After(x, 1) \in row
      BY <2>2, <3>1
    <3>3. CASE x = i
      BY <3>1, <3>3
    <3>4. CASE x = n
      BY <3>1, <3>4
    <3>5. CASE x = m
      <4>1. After(x, 1) = n \/ After(x, 1) = m
        BY <1>1, <3>2, <3>5
      <4>2. QED
        BY <1>2, <3>1, <3>5, <4>1
    <3>6. QED
      BY <3>2, <3>3, <3>4, <3>5
  <2>6. QED
    BY <2>2, <2>4, <2>5, TopologyEdges
<1> HIDE DEF n, m
<1>4. IsFiniteSet(four) /\ Cardinality(four) <= 4
  BY AtMostFour
<1> HIDE DEF four, inside
<1>5. Cardinality(inside) <= 4
  <2>1. IsFiniteSet(inside) /\ Cardinality(inside) <= Cardinality(four)
    BY <1>3, <1>4, FS_Subset
  <2>2. Cardinality(inside) \in Nat /\ Cardinality(four) \in Nat
    BY <1>4, <2>1, FS_CardinalityType
  <2>3. QED
    BY <1>4, <2>1, <2>2
<1>6. IsFiniteSet(row) /\ Cardinality(row) = 3
  <2>1. IsFiniteSet({i}) /\ Cardinality({i}) = 1
    BY FS_Singleton
  <2>2. IsFiniteSet({i} \cup {n}) /\ Cardinality({i} \cup {n}) = 2
    BY <1>1, <2>1, FS_AddElement
  <2>3. m \notin {i} \cup {n}
    BY <1>1
  <2> DEFINE two == {i} \cup {n}
  <2>4. row = two \cup {m}
    OBVIOUS
  <2> HIDE DEF two, row
  <2>5. IsFiniteSet(two \cup {m}) /\ Cardinality(two \cup {m}) = 3
    BY <2>2, <2>3, FS_AddElement DEF two
  <2>6. QED
    BY <2>4, <2>5
<1>7. QED
  BY <1>5, <1>6 DEF n, m, inside

\* So a component with three in a row of the core is never dense.
LEMMA CoreIsSparse ==
  ASSUME TrustInv, HonestCount >= 4, NEW i \in Honest,
         {i, After(i, 1), After(After(i, 1), 1)} \subseteq started
  PROVE  ~Dense(ComponentOf(Edges, After(i, 1)), Edges)
<1> DEFINE n == After(i, 1)
           m == After(n, 1)
           row == {i, n, m}
           comp == ComponentOf(Edges, n)
           k == Cardinality(comp)
           c == Cardinality(Edges \cap (comp \X comp))
<1>1. row \subseteq comp /\ comp \subseteq Honest /\ IsFiniteSet(comp) /\ k \in Nat
  BY CoreComponent
<1>2. IsFiniteSet(row) /\ Cardinality(row) = 3 /\ Cardinality(Edges \cap (row \X row)) <= 4
  BY RowOfThree
<1> HIDE DEF row, comp
<1>3. IsFiniteSet(Edges \cap (comp \X comp)) /\ c <= 2 * k
  BY <1>1, CoreEdges
<1>4. c \in Nat
  BY <1>3, FS_CardinalityType
<1>5. 3 <= k /\ (k = 3 => row = comp)
  BY <1>1, <1>2, FS_Subset
<1>6. k = 3 => c <= 4
  BY <1>2, <1>5
<1>7. 5 * c < 4 * k * (k - 1)
  <2> HIDE DEF k, c
  <2>1. CASE k = 3
    BY <1>4, <1>6, <2>1
  <2>2. CASE k >= 4
    <3>1. 5 * c <= 10 * k
      BY <1>1, <1>3, <1>4
    <3>2. (4 * k) * 3 <= (4 * k) * (k - 1)
      BY <1>1, <2>2
    <3>3. 10 * k < (4 * k) * 3
      BY <1>1, <2>2
    <3>4. (4 * k) * (k - 1) \in Int
      BY <1>1
    <3> DEFINE p == (4 * k) * (k - 1)
    <3> HIDE DEF p
    <3>5. 5 * c < p
      BY <1>1, <1>4, <3>1, <3>2, <3>3, <3>4 DEF p
    <3>6. QED
      BY <3>5 DEF p
  <2>3. QED
    BY <1>1, <1>5, <2>1, <2>2
<1>8. 4 * k * (k - 1) \in Int
  <2> HIDE DEF k
  <2>1. QED
    BY <1>1
<1>9. ~(5 * c >= 4 * k * (k - 1))
  <2> DEFINE p == 4 * k * (k - 1)
  <2> HIDE DEF k, c, p
  <2>1. 5 * c < p /\ p \in Int
    BY <1>7, <1>8 DEF p
  <2>2. ~(5 * c >= p)
    BY <1>4, <2>1
  <2>3. QED
    BY <2>2 DEF p
<1>10. QED
  BY <1>9 DEF Dense, comp

\* The corroborated receipts of an agent that has started are those of its
\* edges (reputation_receipts.py:60-90).
LEMMA ReceiptsOfStarted ==
  ASSUME TrustInv, HonestCount >= 4, NEW n \in Honest, n \in started
  PROVE  {r \in Mine(n) : r.witnessed} =
           {Corroborated(e[1], e[2]) : e \in {f \in Topology : f[1] = n}}
<1> DEFINE edges == {f \in Topology : f[1] = n}
<1>1. ASSUME NEW r \in Mine(n), r.witnessed
      PROVE  \E e \in edges : r = Corroborated(e[1], e[2])
  <2>1. r \in Receipt /\ ledger[r] > 0 /\ r.principal = n
    BY TwoPopulations DEF Mine, Receipt
  <2> DEFINE e == <<n, r.counterparty>>
  <2>2. e \in edges
    BY <1>1, <2>1 DEF TrustInv
  <2>3. r = Corroborated(n, r.counterparty)
    BY <1>1, <2>1 DEF Receipt, Corroborated
  <2>4. QED
    BY <2>2, <2>3
<1>2. ASSUME NEW e \in edges
      PROVE  Corroborated(e[1], e[2]) \in Mine(n) /\ Corroborated(e[1], e[2]).witnessed
  <2> DEFINE r == Corroborated(e[1], e[2])
  <2>1. e = <<e[1], e[2]>> /\ e[1] \in Agents /\ e[2] \in Agents /\ e[1] = n
    BY TwoPopulations
  <2>2. e[1] # e[2]
    <3>1. CASE \E j \in Honest : e = <<j, After(j, 1)>> \/ e = <<After(j, 1), j>>
      BY <3>1, NeighboursDiffer
    <3>2. CASE \E a, b \in Ring : a # b /\ e = <<a, b>>
      BY <3>2
    <3>3. QED
      BY <3>1, <3>2, TopologyEdges
  <2>3. r.principal = e[1] /\ r.counterparty = e[2] /\ r.witnessed
    BY DEF Corroborated
  <2>4. r \in Receipt
    BY <2>1, <2>2 DEF Receipt, Corroborated
  <2>5. ledger[r] > 0
    BY <2>1, <2>3, <2>4 DEF TrustInv
  <2>6. QED
    BY <2>1, <2>3, <2>4, <2>5 DEF Mine, Receipt
<1>3. QED
  BY <1>1, <1>2

\* An agent of the core between two that have started is not severed.
LEMMA CoreNotSevered ==
  ASSUME TrustInv, HonestCount >= 4, NEW i \in Honest,
         {i, After(i, 1), After(After(i, 1), 1)} \subseteq started,
         NEW severed \in Severances
  PROVE  After(i, 1) \notin severed
<1> DEFINE n == After(i, 1)
<1>1. SUFFICES ASSUME n \in severed PROVE FALSE
  OBVIOUS
<1>2. PICK comp \in Components(Edges) : n \in comp /\ Dense(comp, Edges)
  BY <1>1 DEF Severances
<1>3. comp = ComponentOf(Edges, n)
  BY <1>2, OneComponent, NeighboursDiffer
<1>4. QED
  BY <1>2, <1>3, CoreIsSparse

\* Honest agents keep their full corroborated score once three in a row have
\* started (trust_receipts.py:140-143), in a core of four or more: one of
\* three is a clique as the ring is.
THEOREM HonestAreKept ==
  ASSUME HonestCount >= 4
  PROVE  Spec => []HonestKept
<1>1. ASSUME TrustInv, NEW severed \in Severances, NEW i \in Honest,
             {i, (i + 1) % HonestCount, (i + 2) % HonestCount} \subseteq started
      PROVE  Credited((i + 1) % HonestCount, severed) =
               {Corroborated(e[1], e[2]) : e \in {f \in Topology : f[1] = (i + 1) % HonestCount}}
  <2> DEFINE n == After(i, 1)
             m == After(n, 1)
  <2>1. n \in Honest /\ n = (i + 1) % HonestCount /\ m = (i + 2) % HonestCount
    BY NeighboursDiffer
  <2>2. {i, n, m} \subseteq started
    BY <1>1, <2>1
  <2>3. n \notin severed
    BY <1>1, <2>2, CoreNotSevered
  <2>4. {r \in Mine(n) : r.witnessed} =
          {Corroborated(e[1], e[2]) : e \in {f \in Topology : f[1] = n}}
    BY <1>1, <2>1, <2>2, ReceiptsOfStarted
  <2>5. QED
    BY <2>1, <2>3, <2>4 DEF Credited
<1>2. TrustInv => HonestKept
  BY <1>1 DEF HonestKept
<1>3. QED
  BY <1>2, LedgerIsTopology, PTL

-----------------------------------------------------------------------------
(* The assertion of compare_trust.py. *)

\* What score_average would keep: each report of others adds at most 1 to the
\* zeros of an agent, and a member of the ring that has started has a positive
\* report for each other member.
AverageInv ==
  /\ averaged \in [Agents -> [0 .. 2 -> Nat]]
  /\ reports <= MaxReports
  /\ \A a \in Agents : averaged[a][0] <= reports
  /\ \A a \in Ring \cap started : averaged[a][2] >= RingCount - 1

\* What a report adds to the means.
LEMMA AverageAddsTo ==
  ASSUME averaged \in [Agents -> [0 .. 2 -> Nat]], NEW a \in Agents, NEW kind,
         NEW count \in Nat, AverageAdds(a, kind, count)
  PROVE  /\ averaged' \in [Agents -> [0 .. 2 -> Nat]]
         /\ \A b \in Agents, h \in 0 .. 2 :
              averaged'[b][h] =
                averaged[b][h] + (IF b = a /\ h = Halves(kind) THEN count ELSE 0)
<1> DEFINE k == Halves(kind)
           row == [averaged[a] EXCEPT ![k] = averaged[a][k] + count]
<1>1. k \in 0 .. 2
  BY HalvesInRange
<1>2. averaged' = [averaged EXCEPT ![a] = row]
  BY DEF AverageAdds
<1> HIDE DEF k
<1>3. averaged[a] \in [0 .. 2 -> Nat]
  OBVIOUS
<1>4. row \in [0 .. 2 -> Nat]
      /\ \A h \in 0 .. 2 : row[h] = averaged[a][h] + (IF h = k THEN count ELSE 0)
  BY <1>1, <1>3
<1>5. averaged' \in [Agents -> [0 .. 2 -> Nat]] /\ averaged'[a] = row
      /\ \A b \in Agents : b # a => averaged'[b] = averaged[b]
  BY <1>2, <1>4
<1> HIDE DEF row
<1>6. ASSUME NEW b \in Agents, NEW h \in 0 .. 2
      PROVE  averaged'[b][h] = averaged[b][h] + (IF b = a /\ h = k THEN count ELSE 0)
  <2>1. averaged[b][h] \in Nat
    OBVIOUS
  <2>2. QED
    BY <1>4, <1>5, <2>1
<1>7. QED
  BY <1>5, <1>6 DEF k

\* A member of the ring issues an edge to each of the others.
LEMMA RingDegree ==
  ASSUME NEW a \in Agents
  PROVE  /\ Cardinality({e \in Topology : e[1] = a}) \in Nat
         /\ a \in Ring => Cardinality({e \in Topology : e[1] = a}) >= RingCount - 1
<1> DEFINE edges == {e \in Topology : e[1] = a}
           others == Ring \ {a}
           f == [b \in others |-> <<a, b>>]
<1>1. IsFiniteSet(edges) /\ Cardinality(edges) \in Nat
  <2>1. IsFiniteSet(Agents \X Agents)
    BY TrustAssumption, FS_Product
  <2>2. edges \in SUBSET (Agents \X Agents)
    BY TwoPopulations
  <2>3. QED
    BY <2>1, <2>2, FS_Subset, FS_CardinalityType
<1>2. ASSUME a \in Ring PROVE Cardinality(edges) >= RingCount - 1
  <2>1. \A b \in others : <<a, b>> \in edges
    BY <1>2, TopologyEdges
  <2> HIDE DEF edges
  <2>2. f \in Injection(others, edges)
    BY <2>1 DEF Injection, IsInjective
  <2> HIDE DEF f, others
  <2>3. Cardinality(others) <= Cardinality(edges)
    BY <1>1, <2>2, FS_Injection
  <2>4. IsFiniteSet(Ring) /\ Cardinality(Ring) = RingCount
    <3>1. HonestCount \in Nat /\ RingCount \in Nat
      BY ScenarioAssumption
    <3>2. HonestCount \in Int /\ HonestCount + RingCount - 1 \in Int
      BY <3>1
    <3>3. IsFiniteSet(Ring) /\ Cardinality(Ring) =
            IF HonestCount > HonestCount + RingCount - 1 THEN 0
            ELSE (HonestCount + RingCount - 1) - HonestCount + 1
      BY <3>2, FS_Interval DEF Ring
    <3>4. QED
      BY <3>1, <3>3
  <2>5. Cardinality(others) = RingCount - 1
    BY <1>2, <2>4, FS_RemoveElement DEF others
  <2>6. QED
    BY <2>3, <2>5
<1>3. QED
  BY <1>1, <1>2

\* Nothing is reported at the start.
LEMMA AverageInit == Init => AverageInv
  BY ScenarioAssumption DEF Init, AverageInv

\* A start or a report of others keeps the bounds on the means.
LEMMA AverageKeeps == TrustInv /\ AverageInv /\ [Next]_vars => AverageInv'
<1> SUFFICES ASSUME TrustInv, AverageInv, [Next]_vars PROVE AverageInv'
  OBVIOUS
<1> USE DEF AverageInv
<1>1. /\ reports \in Nat /\ MaxReports \in Nat /\ RingCount \in Nat
      /\ Subjects \subseteq Agents /\ 0 \in 0 .. 2 /\ 2 \in 0 .. 2
  BY ScenarioAssumption DEF TrustInv
<1>2. \A a \in Agents : averaged[a][0] \in Nat /\ averaged[a][2] \in Nat
  <2> TAKE a \in Agents
  <2>1. averaged[a] \in [0 .. 2 -> Nat]
    OBVIOUS
  <2>2. QED
    BY <2>1
<1>3. Ring \subseteq Agents
  BY TwoPopulations
<1>4. ASSUME NEW a \in Agents, OnStart(a) PROVE AverageInv'
  <2> DEFINE count == Cardinality({e \in Topology : e[1] = a})
  <2>1. count \in Nat /\ (a \in Ring => count >= RingCount - 1)
    BY RingDegree
  <2>2. AverageAdds(a, "positive", count) /\ started' = started \cup {a} /\ UNCHANGED reports
    BY <1>4 DEF OnStart
  <2> HIDE DEF count
  <2>3. /\ averaged' \in [Agents -> [0 .. 2 -> Nat]]
        /\ \A b \in Agents, h \in 0 .. 2 :
             averaged'[b][h] =
               averaged[b][h] + (IF b = a /\ h = Halves("positive") THEN count ELSE 0)
    BY <2>1, <2>2, AverageAddsTo
  <2>4. Halves("positive") = 2
    BY DEF Halves
  <2>5. \A b \in Agents : averaged'[b][0] = averaged[b][0]
    BY <1>1, <1>2, <2>3, <2>4
  <2>6. \A b \in Agents : averaged'[b][2] = averaged[b][2] + (IF b = a THEN count ELSE 0)
    BY <1>1, <2>3, <2>4
  <2>7. ASSUME NEW b \in Ring \cap started' PROVE averaged'[b][2] >= RingCount - 1
    BY <1>1, <1>2, <1>3, <2>1, <2>2, <2>6, <2>7
  <2>8. QED
    BY <2>2, <2>3, <2>5, <2>7
<1>5. ASSUME NEW a \in Subjects, NEW kind, AverageAdds(a, kind, 1),
             reports < MaxReports, reports' = reports + 1, UNCHANGED started
      PROVE  AverageInv'
  <2>1. /\ averaged' \in [Agents -> [0 .. 2 -> Nat]]
        /\ \A b \in Agents, h \in 0 .. 2 :
             averaged'[b][h] =
               averaged[b][h] + (IF b = a /\ h = Halves(kind) THEN 1 ELSE 0)
    BY <1>1, <1>5, AverageAddsTo
  <2>2. \A b \in Agents : averaged'[b][0] <= averaged[b][0] + 1
                          /\ averaged'[b][2] >= averaged[b][2]
    BY <1>1, <1>2, <2>1
  <2>3. \A b \in Agents : averaged'[b][0] \in Nat /\ averaged'[b][2] \in Nat
    <3> TAKE b \in Agents
    <3>1. averaged'[b] \in [0 .. 2 -> Nat]
      BY <2>1
    <3>2. QED
      BY <3>1
  <2>4. \A b \in Agents : averaged'[b][0] <= reports'
    BY <1>1, <1>2, <1>5, <2>2, <2>3
  <2>5. \A b \in Ring \cap started' : averaged'[b][2] >= RingCount - 1
    BY <1>1, <1>2, <1>3, <1>5, <2>2, <2>3
  <2>6. reports' <= MaxReports
    BY <1>1, <1>5
  <2>7. QED
    BY <2>1, <2>4, <2>5, <2>6
<1>6. CASE UNCHANGED vars
  BY <1>6 DEF vars
<1>7. CASE \E a \in Agents : OnStart(a)
  BY <1>4, <1>7
<1>8. CASE \E r \in Receipt, a \in Subjects, kind \in Kinds : OtherReceipt(r, a, kind)
  BY <1>5, <1>8 DEF OtherReceipt
<1>9. CASE \E a \in Subjects, kind \in Kinds : OtherPlain(a, kind)
  BY <1>5, <1>9 DEF OtherPlain
<1>10. ASSUME NEW a \in Subjects, OtherStakes(a) PROVE AverageInv'
  <2>1. reports < MaxReports /\ reports' = reports + 1 /\ UNCHANGED <<started, averaged>>
    BY <1>10 DEF OtherStakes
  <2>2. reports' <= MaxReports /\ \A b \in Agents : averaged'[b][0] <= reports'
    BY <1>1, <1>2, <2>1
  <2>3. QED
    BY <2>1, <2>2
<1>11. QED
  BY <1>6, <1>7, <1>8, <1>9, <1>10 DEF Next

\* Every agent of the core is between two others of it.
LEMMA HasPredecessor ==
  ASSUME NEW a \in Honest
  PROVE  \E i \in Honest : After(i, 1) = a
<1>1. HonestCount \in Nat /\ a \in Nat /\ a < HonestCount
  BY ScenarioAssumption DEF Honest
<1> DEFINE i == IF a = 0 THEN HonestCount - 1 ELSE a - 1
<1>2. i \in Honest /\ After(i, 1) = a
  BY <1>1 DEF Honest, After
<1>3. QED
  BY <1>2

\* The mean of what was reported does not catch a ring member that started.
LEMMA AverageMissesRing ==
  ASSUME TrustInv, AverageInv, MaxReports <= 4 * (RingCount - 1), NEW a \in Ring \cap started
  PROVE  ~AverageBelowGate(a)
<1>1. a \in Agents
  BY TwoPopulations
<1>2. averaged[a] \in [0 .. 2 -> Nat]
  BY <1>1 DEF AverageInv
<1>3. averaged[a][0] \in Nat /\ averaged[a][1] \in Nat /\ averaged[a][2] \in Nat
  BY <1>2
<1>4. averaged[a][0] <= MaxReports /\ averaged[a][2] >= RingCount - 1
  <2>1. averaged[a][0] <= reports /\ reports <= MaxReports
    BY <1>1 DEF AverageInv
  <2>2. reports \in Nat /\ MaxReports \in Nat
    BY ScenarioAssumption DEF TrustInv
  <2>3. QED
    BY <1>3, <2>1, <2>2 DEF AverageInv
<1>5. RingCount \in Nat /\ MaxReports \in Nat
  BY ScenarioAssumption
<1>6. QED
  BY <1>3, <1>4, <1>5 DEF AverageBelowGate

\* Once every agent has started, assert_detection of compare_trust.py holds,
\* whatever order they started in and whatever else was reported (the safety
\* of Detection): for a ring that VRP may sever and the core outgrows, and
\* fewer reports of others than would move a member's mean below the gate.
THEOREM DetectionIsSafe ==
  ASSUME HonestCount >= 4, RingCount < HonestCount,
         \A m \in MinRings : m <= RingCount, MaxReports <= 4 * (RingCount - 1)
  PROVE  Spec => [](started = Agents => AssertDetection)
<1>1. ASSUME TrustInv, AverageInv, started = Agents,
             NEW severed \in Severances, NEW a \in Ring
      PROVE  ~AverageBelowGate(a) /\ BelowGate(Score(a, severed))
             /\ Score(a, severed).credited = {}
  <2>1. HonestCount \in Nat /\ RingCount \in Nat /\ 0 \in Honest
    BY ScenarioAssumption DEF Honest
  <2>2. Ring \subseteq started /\ Honest \subseteq started
    BY <1>1, TwoPopulations
  <2>3. CoreOutgrowsRing
    <3>1. \A d \in 0 .. RingCount : (0 + d) % HonestCount \in Honest
      <4> TAKE d \in 0 .. RingCount
      <4>1. d \in 0 .. HonestCount
        BY <2>1
      <4>2. QED
        BY <2>1, <4>1, AfterIsModulo
    <3>2. QED
      BY <2>1, <2>2, <3>1 DEF CoreOutgrowsRing
  <2>4. a \in severed
    BY <1>1, <2>2, <2>3, RingSevered
  <2>5. Mine(a) # {}
    <3>1. RingCount >= 2
      <4>1. PICK m \in MinRings : m \in Nat /\ m # 0 /\ m # 1
        BY TrustAssumption DEF Severances
      <4>2. m <= RingCount
        BY <4>1
      <4>3. QED
        BY <2>1, <4>1, <4>2
    <3>2. \E b \in Ring : b # a
      BY <2>1, <3>1 DEF Ring
    <3>3. PICK b \in Ring : b # a
      BY <3>2
    <3> DEFINE r == Corroborated(a, b)
    <3>4. r.principal = a /\ r.counterparty = b /\ r.witnessed
      BY DEF Corroborated
    <3>5. r \in Receipt
      BY <3>3, TwoPopulations DEF Receipt, Corroborated
    <3>6. <<a, b>> \in Topology /\ a \in started
      BY <2>2, <3>3, TopologyEdges
    <3>7. ledger[r] > 0
      BY <1>1, <3>4, <3>5, <3>6 DEF TrustInv
    <3>8. QED
      BY <3>4, <3>5, <3>7 DEF Mine, Receipt
  <2>6. Score(a, severed).credited = {} /\ Score(a, severed).basis = "receipts"
    BY <2>4, <2>5 DEF Score, Credited
  <2>7. QED
    BY <1>1, <2>2, <2>6, AverageMissesRing DEF BelowGate
<1>2. ASSUME TrustInv, started = Agents, NEW severed \in Severances, NEW a \in Honest
      PROVE  ~BelowGate(Score(a, severed))
  <2>1. PICK i \in Honest : After(i, 1) = a
    BY HasPredecessor
  <2>2. a \in Honest /\ a \in Agents /\ i \in Agents /\ After(a, 1) \in Agents
    BY <2>1, NeighboursDiffer
  <2>3. a \notin severed
    BY <1>2, <2>1, <2>2, CoreNotSevered
  <2>4. Credited(a, severed) =
          {Corroborated(e[1], e[2]) : e \in {f \in Topology : f[1] = a}}
    BY <1>2, <2>2, <2>3, ReceiptsOfStarted DEF Credited
  <2> DEFINE e == <<a, After(a, 1)>>
  <2>5. e \in {f \in Topology : f[1] = a}
    BY TopologyEdges
  <2>6. Credited(a, severed) # {}
    BY <2>4, <2>5
  <2>7. Mine(a) # {}
    BY <2>6 DEF Credited
  <2>8. QED
    BY <2>6, <2>7 DEF BelowGate, Score
<1>3. TrustInv /\ AverageInv => (started = Agents => AssertDetection)
  <2> SUFFICES ASSUME TrustInv, AverageInv, started = Agents,
                      NEW severed \in Severances, NEW a \in Agents
               PROVE  LET row == Row(a, severed)
                      IN  IF row.is_malicious
                          THEN ~row.avg_caught /\ BelowGate(row.arp) /\ row.arp.credited = {}
                          ELSE ~BelowGate(row.arp)
    BY DEF AssertDetection
  <2>1. CASE a \in Ring
    BY <1>1, <2>1 DEF Row
  <2>2. CASE a \notin Ring
    BY <1>2, <2>2, TwoPopulations DEF Row
  <2>3. QED
    BY <2>1, <2>2
<1>4. QED
  BY <1>3, LedgerIsTopology, InitEstablishes, AverageInit, NextKeeps, AverageKeeps, PTL
     DEF Spec

=============================================================================
