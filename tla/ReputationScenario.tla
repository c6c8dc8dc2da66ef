------------------------- MODULE ReputationScenario -------------------------
(***************************************************************************)
(* The reputation_receipts scenario (src/nest_adapters/scenarios_builtin/  *)
(* reputation_receipts.py) over one shared AgentReceiptsTrust: the agents  *)
(* of an honest core and of a collusion ring report the receipts of their  *)
(* edges when the simulator starts them, in any order.  Meanwhile others   *)
(* use the same trust layer: they report receipts again, under any agent's *)
(* name, receipts that nobody co-signed, and plain text.                   *)
(*                                                                         *)
(* Agent i < HonestCount is honest-i; agent HonestCount + i is ring-i.     *)
(***************************************************************************)
EXTENDS ReceiptsTrust

CONSTANTS
  HonestCount, RingCount,
  Subjects,        \* bound: the agents that others report about
  Kinds,           \* the evidence kinds of plain reports
  MaxReports       \* bound: reports of others

Honest == 0 .. HonestCount - 1
Ring   == HonestCount .. HonestCount + RingCount - 1

ASSUME ScenarioAssumption ==
  /\ {HonestCount, RingCount, MaxReports} \subseteq Nat
  /\ Agents = Honest \cup Ring
  /\ Subjects \subseteq Agents

VARIABLES
  started,   \* the agents whose on_start has run
  reports,   \* how many reports and stakes of others there were
  averaged   \* what score_average would keep, given the same reports

vars == <<ledger, fallback, stakes, started, reports, averaged>>

Topology_OneWay ==
  {<<i, (i + 1) % HonestCount>> : i \in Honest} \cup {e \in Ring \X Ring : e[1] # e[2]}

Topology_CoreClique == {e \in (Honest \X Honest) \cup (Ring \X Ring) : e[1] # e[2]}

Topology_CrossEdge ==
  {<<i, (i + 1) % HonestCount>> : i \in Honest} \cup
  {<<(i + 1) % HonestCount, i>> : i \in Honest} \cup
  {e \in Ring \X Ring : e[1] # e[2]} \cup {<<HonestCount, 0>>}

\* build_topology: a cycle with back-edges over the honest core, every
\* ordered pair of the ring, and no edge between the two.
Topology ==
  {<<i, (i + 1) % HonestCount>> : i \in Honest} \cup
  {<<(i + 1) % HonestCount, i>> : i \in Honest} \cup
  {e \in Ring \X Ring : e[1] # e[2]}

\* make_corroborated_receipt.
Corroborated(issuer, counterparty) ==
  [principal |-> issuer, counterparty |-> counterparty, witnessed |-> TRUE]

\* The receipts of all edges.
Corroborations == {Corroborated(e[1], e[2]) : e \in Topology}

\* score_average: the mean of what was reported of the agent named.
AverageAdds(a, kind, count) ==
  averaged' = [averaged EXCEPT ![a][Halves(kind)] = @ + count]

AverageBelowGate(a) ==
  5 * (averaged[a][1] + 2 * averaged[a][2]) < 2 * (averaged[a][0] + averaged[a][1] + averaged[a][2])

Init ==
  /\ TrustInit
  /\ started = {}
  /\ reports = 0
  /\ averaged = [a \in Agents |-> [h \in 0 .. 2 |-> 0]]

\* on_start: the agent reports a receipt for each edge it issues.
OnStart(a) ==
  /\ a \notin started
  /\ started' = started \cup {a}
  /\ ledger' = [r \in Receipt |-> IF r.principal = a /\ r \in Corroborations
                                  THEN ledger[r] + 1 ELSE ledger[r]]
  /\ AverageAdds(a, "positive", Cardinality({e \in Topology : e[1] = a}))
  /\ UNCHANGED <<fallback, stakes, reports>>

\* Others report a receipt again, or one of their own that is not co-signed,
\* as evidence about any agent.
OtherReceipt(r, a, kind) ==
  /\ reports < MaxReports
  /\ {r.principal, r.counterparty} \subseteq Subjects
  /\ ledger[r] > 0 \/ ~r.witnessed
  /\ ReportReceipt(r)
  /\ AverageAdds(a, kind, 1)
  /\ reports' = reports + 1
  /\ UNCHANGED started

\* Others report plain text about an agent.
OtherPlain(a, kind) ==
  /\ reports < MaxReports
  /\ ReportPlain(a, kind)
  /\ AverageAdds(a, kind, 1)
  /\ reports' = reports + 1
  /\ UNCHANGED started

OtherStakes(a) ==
  /\ reports < MaxReports
  /\ Stake(a, 1)
  /\ reports' = reports + 1
  /\ UNCHANGED <<started, averaged>>

Next ==
  \/ \E a \in Agents : OnStart(a)
  \/ \E r \in Receipt, a \in Subjects, kind \in Kinds : OtherReceipt(r, a, kind)
  \/ \E a \in Subjects, kind \in Kinds : OtherPlain(a, kind)
  \/ \E a \in Subjects : OtherStakes(a)

Spec == Init /\ [][Next]_vars

\* The simulator starts agents until every one has started.
FairSpec == Spec /\ WF_vars(\E a \in Agents : OnStart(a))

\* compare_trust.py, run_comparison: an agent's scores of both layers.
Row(a, severed) ==
  [is_malicious |-> a \in Ring, avg_caught |-> AverageBelowGate(a), arp |-> Score(a, severed)]

\* assert_detection of compare_trust.py: the receipts catch every ring
\* member, with nothing left to base confidence on, and no honest agent; the
\* mean of the same reports catches no ring member.
AssertDetection ==
  \A severed \in Severances : \A a \in Agents :
    LET row == Row(a, severed)
    IN  IF row.is_malicious
        THEN ~row.avg_caught /\ BelowGate(row.arp) /\ row.arp.credited = {}
        ELSE ~BelowGate(row.arp)

-----------------------------------------------------------------------------
(* Properties. *)

\* Some honest agents in a row, more of them than the ring has members.
CoreOutgrowsRing ==
  \E i \in Honest : \A d \in 0 .. RingCount : (i + d) % HonestCount \in started

\* reputation_receipts.py:14-17: the ring is caught as soon as the started
\* part of the honest core is larger than it, whatever order agents start in
\* and whatever else is reported: no receipt of a ring member counts.
RingCaught ==
  (Ring \subseteq started /\ CoreOutgrowsRing) =>
    \A severed \in Severances : \A a \in Ring : Credited(a, severed) = {}

\* trust_receipts.py:140-143: honest agents keep their full corroborated
\* score.  While they are still starting, and the ring may be the larger
\* component, three in a row are enough for none of their receipts to be cut.
HonestKept ==
  LET settled == {i \in Honest : {i, (i + 1) % HonestCount, (i + 2) % HonestCount} \subseteq started}
      kept    == {(i + 1) % HonestCount : i \in settled}
  IN  kept # {} =>
        \A severed \in Severances : \A i \in kept :
          Credited(i, severed) = {Corroborated(e[1], e[2]) : e \in {f \in Topology : f[1] = i}}

\* A report counts for one agent: a receipt for its principal, whichever
\* agent the report names, plain text for the agent named, and only until
\* that agent has a receipt.  The first of them, of others or of the agents
\* that start, discards what was reported before (trust_receipts.py:151-173,
\* 214-219).
ReportsCountOnce ==
  [][/\ \A r \in Receipt : (reports' > reports /\ ledger'[r] # ledger[r]) =>
          \A a \in Agents :
            Samples(a)' = IF a # r.principal THEN Samples(a)
                          ELSE IF Mine(a) = {} THEN 1 ELSE Samples(a) + 1
     /\ \A b \in Subjects, kind \in Kinds : OtherPlain(b, kind) =>
          \A a \in Agents :
            Samples(a)' = IF a = b /\ Mine(a) = {} THEN Samples(a) + 1 ELSE Samples(a)
     /\ \A b \in Agents : OnStart(b) =>
          LET issued == {e \in Topology : e[1] = b}
          IN  \A a \in Agents :
                Samples(a)' = IF a # b \/ issued = {} THEN Samples(a)
                              ELSE IF Mine(a) = {} THEN Cardinality(issued)
                              ELSE Samples(a) + Cardinality(issued)]_vars

\* In the end every agent has started and that assertion holds, for good,
\* whatever order they started in and whatever else was reported.
Detection == <>[](started = Agents /\ AssertDetection)
=============================================================================
