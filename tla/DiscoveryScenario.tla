------------------------- MODULE DiscoveryScenario -------------------------
(***************************************************************************)
(* The registry_discovery scenario (src/nest_adapters/scenarios_builtin/   *)
(* registry_discovery.py) over one shared SmBridgeRegistry: every agent    *)
(* registers its card when it is started, and later looks up and greets    *)
(* those that offer data.  Meanwhile others use the same registry: they    *)
(* register and deregister cards, also those of the scenario's agents, and *)
(* consume subscriptions.                                                  *)
(***************************************************************************)
EXTENDS SmBridgeRegistry

CONSTANTS
  Sellers,    \* the agents at even positions
  Offer,      \* _OFFER
  MaxTouched  \* bound: agents whose cards others register or remove

\* The card of an agent: buyers offer something that nobody seeks.
CardFor(a) == [agent |-> a, offers |-> IF a \in Sellers THEN {Offer} ELSE {}]

\* sm_bridge takes the scenario's cards, so that on_start does not raise.
ASSUME DiscoveryAssumption ==
  /\ Sellers \subseteq Agents
  /\ Offer \in Features
  /\ \A a \in Agents : CardFor(a) \in Conformant
  /\ Cardinality(Agents) <= MaxRegistrations
  /\ MaxTouched \in Nat

VARIABLES
  step,      \* per agent: "new", "scheduled" (discovery is), "done"
  greeted,   \* per agent: whom it has greeted
  touched    \* history: the agents whose card others registered or removed

scenario == <<step, greeted, touched>>

allvars == <<vars, scenario>>

ScenarioInit ==
  /\ Init
  /\ step = [a \in Agents |-> "new"]
  /\ greeted = [a \in Agents |-> {}]
  /\ touched = {}

\* on_start: register, and schedule the discovery.
OnStart(a) ==
  /\ step[a] = "new"
  /\ Register(CardFor(a))
  /\ step' = [step EXCEPT ![a] = "scheduled"]
  /\ UNCHANGED <<greeted, touched>>

OnDiscover_OnlyFirst(a) ==
  /\ step[a] = "scheduled"
  /\ \A b \in Agents : step[b] # "new"
  /\ greeted' = [greeted EXCEPT ![a] =
       IF Lookup({Offer}) = {} THEN {}
       ELSE {(CHOOSE c \in Lookup({Offer}) : TRUE).agent} \ {a}]
  /\ step' = [step EXCEPT ![a] = "done"]
  /\ UNCHANGED <<vars, touched>>

\* on_message for the scheduled signal, due once every agent has started:
\* look up the offer, greet each agent found but oneself.
OnDiscover(a) ==
  /\ step[a] = "scheduled"
  /\ \A b \in Agents : step[b] # "new"
  /\ greeted' = [greeted EXCEPT ![a] = {c.agent : c \in Lookup({Offer})} \ {a}]
  /\ step' = [step EXCEPT ![a] = "done"]
  /\ UNCHANGED <<vars, touched>>

MayTouch(a) == Cardinality(touched \cup {a}) <= MaxTouched

\* Others register a card, as long as the scenario's own calls fit the bound.
OtherRegisters(c) ==
  /\ Len(log) + Cardinality({a \in Agents : step[a] = "new"}) < MaxRegistrations
  /\ MayTouch(c.agent)
  /\ Register(c)
  /\ touched' = touched \cup {c.agent}
  /\ UNCHANGED <<step, greeted>>

OtherDeregisters(a) ==
  /\ MayTouch(a)
  /\ Deregister(a)
  /\ touched' = touched \cup {a}
  /\ UNCHANGED <<step, greeted>>

ConsumerTakes(s) == Take(s) /\ UNCHANGED scenario

ConsumerAsks(s) == AskNext(s) /\ UNCHANGED scenario

ScenarioNext ==
  \/ \E a \in Agents : OnStart(a) \/ OnDiscover(a) \/ OtherDeregisters(a)
  \/ \E c \in Card : OtherRegisters(c)
  \/ \E s \in Subscribers, q \in SUBSET Features : Subscribe(s, q) /\ UNCHANGED scenario
  \/ \E s \in Subscribers : (Iterate(s) \/ Close(s)) /\ UNCHANGED scenario
  \/ \E s \in Subscribers : ConsumerTakes(s) \/ ConsumerAsks(s)

ScenarioSpec == ScenarioInit /\ [][ScenarioNext]_allvars

\* The simulator starts every agent and fires every signal; a consumer is an
\* `async for` loop, whose generator is run whenever its queue has a card.
ScenarioFairSpec ==
  /\ ScenarioSpec
  /\ \A a \in Agents : WF_allvars(OnStart(a)) /\ WF_allvars(OnDiscover(a))
  /\ \A s \in Subscribers : WF_allvars(ConsumerTakes(s)) /\ WF_allvars(ConsumerAsks(s))

-----------------------------------------------------------------------------
(* Properties. *)

\* A card handed over may be stale (registry_smbridge.py:154), but a consumer
\* that has caught up is never behind lookup: of every agent that lookup
\* finds for its query and that registered since it began, the last card the
\* consumer was handed is the one in the registry.
CaughtUpSeesLatest ==
  \A s \in subscribers : \A c \in Lookup(query[s]) :
    (queue[s] = <<>> /\ \E i \in since[s] + 1 .. Len(log) : log[i].agent = c.agent)
      => LatestOf(c, out[s])

\* "every agent discovers the sellers (including, for sellers, their peers)"
\* (registry_discovery.py:95-98): in the end each agent has greeted, of those
\* whose cards others left alone, each seller but itself, and nobody else.
SellersDiscovered ==
  <>[](\A a \in Agents :
         /\ step[a] = "done"
         /\ greeted[a] \ touched = (Sellers \ {a}) \ touched)
=============================================================================
