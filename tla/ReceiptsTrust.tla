--------------------------- MODULE ReceiptsTrust ---------------------------
(***************************************************************************)
(* AgentReceiptsTrust (src/nest_adapters/trust_receipts.py): a ledger of   *)
(* verified receipts, the plain reports kept beside it, and the score of   *)
(* an agent.                                                               *)
(*                                                                         *)
(* The score of an agent with receipts comes from those of them that       *)
(* sm_arp's VRP leaves after severance; every category has a positive      *)
(* weight, so that the score and the confidence are 0 exactly when none is *)
(* left.  A score is therefore its basis, the set of receipts credited and *)
(* the sample count.                                                       *)
(***************************************************************************)
EXTENDS Naturals, FiniteSets

CONSTANTS
  Agents,
  MinRings,      \* what may be the smallest component that VRP severs
  MaxCount       \* bound: equal entries in the ledger or among the reports

ASSUME TrustAssumption ==
  /\ IsFiniteSet(Agents)
  /\ MinRings \subseteq Nat \ {0, 1}
  /\ MaxCount \in Nat

\* A verified receipt; witnessed: its counterparty has co-signed it.
Receipt == {r \in [principal : Agents, counterparty : Agents, witnessed : BOOLEAN] :
              r.principal # r.counterparty}

\* What a plain report adds to the mean: 0, 1/2 or 1, in halves.
Halves(kind) == CASE kind = "positive" -> 2
                  [] kind \in {"negative", "byzantine"} -> 0
                  [] OTHER -> 1

VARIABLES
  ledger,    \* _ledger: how often each receipt is on it
  fallback,  \* _fallback_scores: how often each value was reported of an agent
  stakes     \* _stakes: per agent, what was staked on it

trust == <<ledger, fallback, stakes>>

TrustInit ==
  /\ ledger = [r \in Receipt |-> 0]
  /\ fallback = [a \in Agents |-> [h \in 0 .. 2 |-> 0]]
  /\ stakes = [a \in Agents |-> 0]

\* report of a detail that is a verifying receipt: the agent named is not
\* looked at.
ReportReceipt(r) ==
  /\ ledger[r] < MaxCount
  /\ ledger' = [ledger EXCEPT ![r] = @ + 1]
  /\ UNCHANGED <<fallback, stakes>>

\* report of any other detail: _record_fallback for the agent named.
ReportPlain(a, kind) ==
  /\ fallback[a][Halves(kind)] < MaxCount
  /\ fallback' = [fallback EXCEPT ![a][Halves(kind)] = @ + 1]
  /\ UNCHANGED <<ledger, stakes>>

\* stake: kept, and read by nothing.
Stake(a, amount) ==
  /\ stakes' = [stakes EXCEPT ![a] = @ + amount]
  /\ UNCHANGED <<ledger, fallback>>

-----------------------------------------------------------------------------
(* VRP severance, of the whole ledger. *)

OnLedger == {r \in Receipt : ledger[r] > 0}

\* The corroboration graph: who was credited by whom.
Edges == {<<r.principal, r.counterparty>> : r \in {s \in OnLedger : s.witnessed}}

\* Sets of agents that no edge leaves: what can be reached from an agent is
\* the smallest of those that it is in.
Closed(edges) == {S \in SUBSET Agents : \A e \in edges : e[1] \in S => e[2] \in S}

\* Its strongly connected components: agents that reach one another are in
\* the same closed sets.
Components(edges) ==
  LET closed == Closed(edges)
  IN  {{b \in Agents : \A S \in closed : a \in S <=> b \in S} : a \in Agents}

\* At least 0.8 of the ordered pairs of the component have an edge.
Dense(comp, edges) ==
  5 * Cardinality(edges \cap (comp \X comp)) >= 4 * Cardinality(comp) * (Cardinality(comp) - 1)

\* A largest component is the anchor, which the library picks in some way.
Anchors(comps) ==
  {comp \in comps : \A other \in comps : Cardinality(comp) >= Cardinality(other)}

Isolated(comp, anchor, edges) == edges \cap ((comp \X anchor) \cup (anchor \X comp)) = {}

\* The sets of agents that the library may have severed: the members of every
\* component that is large enough, dense, and isolated from the anchor.
Severances ==
  LET edges == Edges
      comps == Components(edges)
  IN  {UNION {comp \in comps \ {anchor} :
                /\ Cardinality(comp) >= smallest
                /\ Dense(comp, edges)
                /\ Isolated(comp, anchor, edges)}
         : anchor \in Anchors(comps), smallest \in MinRings}

-----------------------------------------------------------------------------
(* score. *)

\* The receipts of agent a, by its did.
Mine(a) ==
  {r \in [principal : {a}, counterparty : Agents \ {a}, witnessed : BOOLEAN] : ledger[r] > 0}

\* The receipts that count for a, when the agents in severed are cut off.
Credited(a, severed) == IF a \in severed THEN {} ELSE {r \in Mine(a) : r.witnessed}

\* The entries of the ledger with them: each as often as it was reported.
Entries(a) == UNION {{r} \X (1 .. ledger[r]) : r \in Mine(a)}

Samples_KeepsReports(a) ==
  Cardinality(Entries(a)) + fallback[a][0] + fallback[a][1] + fallback[a][2]

\* sample_count: receipts if there is any, else plain reports.
Samples(a) ==
  IF Mine(a) # {} THEN Cardinality(Entries(a))
  ELSE fallback[a][0] + fallback[a][1] + fallback[a][2]

\* The score: from receipts, else twice the sum of plain reports, else prior.
Score(a, severed) ==
  [basis    |-> IF Mine(a) # {} THEN "receipts" ELSE IF Samples(a) > 0 THEN "reports" ELSE "prior",
   credited |-> Credited(a, severed),
   halves   |-> IF Mine(a) # {} THEN 0 ELSE fallback[a][1] + 2 * fallback[a][2],
   samples  |-> Samples(a)]

\* Below the marketplace's gate of 0.2: one credited receipt scores more.
BelowGate(score) ==
  CASE score.basis = "receipts" -> score.credited = {}
    [] score.basis = "reports"  -> 5 * score.halves < 2 * score.samples
    [] score.basis = "prior"    -> FALSE
=============================================================================
