------------------------- MODULE ProvenanceScenario -------------------------
(***************************************************************************)
(* The datafacts_provenance scenario (src/nest_adapters/scenarios_builtin/ *)
(* datafacts_provenance.py): agents on a ring over one shared ArpDataFacts.*)
(* Each publishes a dataset when it is started, and later fetches the next *)
(* agent's, is granted access to it, and tells that agent.                 *)
(*                                                                         *)
(* Others use the same layer in between: they publish under any name, ask  *)
(* for access, and edit the objects and receipts that it handed out.  No   *)
(* call of the layer suspends, so a handler runs in one step.              *)
(*                                                                         *)
(* An agent stands for its dataset's name and for its metadata object too. *)
(***************************************************************************)
EXTENDS ArpDataFacts, FiniteSets

CONSTANTS
  Agents,
  Peer,      \* per agent: the next one on the ring
  FirstBody, \* the body an agent publishes
  MaxCalls   \* bound: what others do

ASSUME ProvenanceAssumption ==
  /\ Agents \subseteq Names \cap Owners \cap Requesters \cap Objects
  /\ Peer \in [Agents -> Agents]
  /\ FirstBody \in Bodies
  /\ MaxCalls \in Nat

VARIABLES
  step,      \* per agent: "new", "scheduled" (consuming is), "accessed", "failed"
  sent,      \* the messages sent: who accessed what, owned by whom
  tampered,  \* history: the names whose dataset others edited, or broke the receipt of
  calls      \* how much others did

scenario == <<step, sent, tampered>>

allvars == <<vars, scenario, calls>>

ScenarioInit ==
  /\ Init
  /\ \A a \in Agents : heap[a] = [name |-> a, owner |-> a, body |-> FirstBody]
  /\ step = [a \in Agents |-> "new"]
  /\ sent = {}
  /\ tampered = {}
  /\ calls = 0

\* on_start: publish the agent's dataset and schedule the consuming.
OnStart(a) ==
  /\ step[a] = "new"
  /\ Publish(a)
  /\ step' = [step EXCEPT ![a] = "scheduled"]
  /\ UNCHANGED <<sent, tampered, calls>>

\* on_message for the scheduled signal, due once every agent has started:
\* fetch, request access, tell the peer; a fetch that raises ends it.
OnConsume(a) ==
  /\ step[a] = "scheduled"
  /\ \A b \in Agents : step[b] # "new"
  /\ \/ /\ Fetch(Peer[a]) = "served"
        /\ RequestAccess(Peer[a], a)
        /\ sent' = sent \cup {[by |-> a, name |-> Peer[a], owner |-> heap[datasets[Peer[a]]].owner]}
        /\ step' = [step EXCEPT ![a] = "accessed"]
     \/ /\ Fetch(Peer[a]) # "served"
        /\ step' = [step EXCEPT ![a] = "failed"]
        /\ UNCHANGED <<vars, sent>>
  /\ UNCHANGED <<tampered, calls>>

\* Others hold an agent's object once it is published.
Held(o) == o \in Agents => step[o] # "new"

OtherPublishes(o) == Held(o) /\ Publish(o) /\ UNCHANGED scenario

\* Others' grants leave room for the scenario's own within the bound.
OtherRequests(n, r) ==
  /\ Len(grants[n]) + Cardinality({a \in Agents : Peer[a] = n /\ step[a] \in {"new", "scheduled"}})
       < MaxGrants
  /\ RequestAccess(n, r)
  /\ UNCHANGED scenario

OtherEdits(o, c) ==
  /\ Held(o)
  /\ c # heap[o]
  /\ EditObject(o, c)
  /\ tampered' = tampered \cup {n \in Names : datasets[n] = o}
  /\ UNCHANGED <<step, sent>>

\* Another receipt that verifies passes the gate.
OtherEditsReceipt(n, receipt) ==
  /\ receipt # provenance[n]
  /\ EditReceipt(n, receipt)
  /\ tampered' = IF receipt.intact THEN tampered ELSE tampered \cup {n}
  /\ UNCHANGED <<step, sent>>

Others ==
  /\ calls < MaxCalls
  /\ calls' = calls + 1
  /\ \/ \E o \in Objects : OtherPublishes(o)
     \/ \E n \in Names, r \in Requesters : OtherRequests(n, r)
     \/ \E o \in Objects, c \in Content : OtherEdits(o, c)
     \/ \E n \in Names, receipt \in Receipt : OtherEditsReceipt(n, receipt)

ScenarioNext ==
  \/ \E a \in Agents : OnStart(a) \/ OnConsume(a)
  \/ Others

ScenarioSpec == ScenarioInit /\ [][ScenarioNext]_allvars

\* The simulator starts every agent and fires every signal.
ScenarioFairSpec ==
  ScenarioSpec /\ \A a \in Agents : WF_allvars(OnStart(a)) /\ WF_allvars(OnConsume(a))

-----------------------------------------------------------------------------
(* Properties. *)

\* "the access message in the trace is proof the integrity check passed"
\* (datafacts_provenance.py:65-66), for good: each one is backed by a grant
\* to its sender whose receipt the owner it names has signed, also after
\* other owners published under the name (datafacts_arp.py:110-112, 158-161).
AccessAttested ==
  \A m \in sent : \E i \in DOMAIN grants[m.name] \cap DOMAIN grant_receipts[m.name] :
    /\ grants[m.name][i] = m.by
    /\ grant_receipts[m.name][i] = [issuer |-> m.owner, to |-> m.by]

\* Every agent gets access to the dataset under its peer's name (76-81),
\* whoever else publishes there and whatever receipt is put in place of its
\* own, unless what is published there is edited or its receipt broken.
AccessedUnlessTampered ==
  \A a \in Agents : <>(step[a] = "accessed" \/ Peer[a] \in tampered)
=============================================================================
