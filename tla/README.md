# TLA+ verification of nest-adapters

The repository puts third-party libraries behind the layer interfaces of an
agent-network simulator (nest_core): rotating keys, did:key identities, a
registry, auth tokens, signed datasets, receipt-based trust, and a scenario that
exercises each of them. Everything runs in one asyncio process under a logical
clock. This directory models the layers and the scenarios over them, checks
them with TLC, and proves with TLAPS the safety properties and refinements that
the runs check, for every size of the system.

nest_core (the simulator and the data types), sm_bridge (AgentFacts validation),
sm_arp (receipts, did:key, and the VRP reputation protocol) are libraries outside the
repository. They are modelled from how the code uses them, and marked external.

Line numbers below are those of files under `src/nest_adapters/`.

## Components

### Ed25519RotatingIdentity (`identity.py`, with `determinism.py`)

*State*: `_clock`, `_rotation_count`, `_last_rotation`, and `_records`: per agent
a list of key records, each with the window `[issued_at, rotated_out)` in which
it is valid.
*Operations*: `advance_to`, `sign`, `rotate_key`, `rotation_announcement`,
`observe_rotation`, `register_peer`, and the queries `verify`, `verify_as_of`,
`resolve`, `current_key_id`, `public_key`.
*Interaction*: an agent rotates and broadcasts the announcement; every other
instance observes it and from then on judges signatures with both windows. The
transport in between belongs to the caller.
*Hard*: announcements lost, repeated, reordered or returned to their sender; a
peer registered anew between two announcements; rotations in the tick of another
event; verifiers whose clocks and histories lag.
*Correct when*: the windows a verifier keeps for an agent are those of the
agent's successive keys, without overlap; an honest signature audited at its
tick is accepted; a verdict about a superseded key is never revised.

### Rotation validator (`validators.py`, `wire.py`) and identity_rotation scenario (`scenarios_builtin/identity_rotation.py`)

*State*: the validator keeps none between calls: it rebuilds all histories from a
recorded trace, then judges each signed message. The scenario keeps one identity
instance per agent and appends to the simulator's trace.
*Operations*: `validate_identity_rotation`; `HonestSigner.on_start` (announce,
sign, schedule the rotation), `HonestSigner.on_message` (rotate, announce, sign).
*Hard*: events of one tick appear in the trace in any order; receive events
repeat messages later; an exception of `observe_rotation` ends the validation.
*Correct when*: exactly the uses of replaced keys are flagged, and the scenario
shows what it was written to show.

### SmBridgeRegistry (`registry_smbridge.py`) and registry_discovery scenario (`scenarios_builtin/registry_discovery.py`)

*State*: `_cards` (one per agent) and `_subscribers`, the queues of the running
`subscribe` generators. The scenario shares one registry among its agents.
*Operations*: `register`, `deregister`, `lookup`, `subscribe` (an async
generator), `agentfacts`, `index`; `DiscoveringAgent.on_start` (register,
schedule the discovery), `on_message` (look up, greet).
*Hard*: a generator runs only while its consumer waits for it, so a call of
another task may come between any two steps of it; cancellation; a card that is
refused half-way; a consumer that reads cards which were replaced meanwhile; a
lookup made once, over a registry that others change.
*Correct when*: a consumer is handed each matching registration since it began,
once and in order, and is not behind `lookup` when it has caught up; nothing
refused is stored; queues of consumers that left are gone; every agent greets
the sellers.

### DidAuth (`auth_didkey.py`) and auth_handshake scenario (`scenarios_builtin/auth_handshake.py`)

*State*: `_clock` (fixed) and `_revoked`, the revoked token strings.
*Operations*: `issue`, `verify`, `revoke`; `AuthAgent.on_start` (issue a token
for oneself, send it to the next agent on the ring), `on_message` (verify, check
the scope, reply to the subject).
*Hard*: tokens are deterministic, so two issues may return one string; instances
share neither clock nor revocations; the boundary tick of the expiry; a token
that is revoked, issued again or lost on its way to the peer.
*Correct when*: a handshake ends in a grant unless its token was lost or revoked
where it is verified, and what was rejected once stays rejected.

### ArpDataFacts (`datafacts_arp.py`) and datafacts_provenance scenario (`scenarios_builtin/datafacts_provenance.py`)

*State*: `_datasets`, `_provenance`, `_commit`, `_grants`, `_grant_receipts`, all
by URL.
*Operations*: `publish`, `fetch`, `request_access`, `verify_freshness`,
`provenance`; `DataAgent.on_start` (publish, schedule the consuming),
`on_message` (fetch the next agent's dataset, request access, send a message).
*Hard*: datasets and receipts are kept and handed out by reference, so their
holders may edit them between any two calls, a receipt also into another one that
verifies; a name may be published again by another owner while grants under it
exist.
*Correct when*: what is served is what its owner signed when it was published; an
access message stays attested by the owner it names.

### AgentReceiptsTrust (`trust_receipts.py`), reputation_receipts scenario (`scenarios_builtin/reputation_receipts.py`) and its comparison (`scenarios/compare_trust.py`)

*State*: `_ledger`, the receipts reported so far; `_fallback_scores`, per agent
the values of reports that were not receipts; `_stakes`, which nothing reads.
The scenario shares one instance among all agents.
*Operations*: `report` (a verifying receipt goes to the ledger, anything else to
the fallback of the agent named), `score`, `attest`, `stake`;
`ReceiptIssuerAgent.on_start` reports the receipts that the agent issues. The
comparison runs the scenario over this layer and over the stock `score_average`,
and asserts which of the two catches the ring.
*Hard*: a score depends on the whole ledger through VRP's severance, which is
relative to the largest component reported so far; the agent that a report names
and the one that a receipt credits may differ; the first receipt of an agent
replaces what the fallback has of it.
*Correct when*: the ring is severed and the honest core is not, from the moment
the ledger shows it and whatever else is reported.

### Ed25519DidKeyIdentity (`identity_didkey.py`)

*State*: the instance's key pair (from the agent's id, or from a seed passed in)
and `_known_keys`.
*Operations*: `register_peer`, `register_peer_did`, and the queries `sign`,
`verify`, `resolve`, `public_key`, `did`, `did_of`. `AgentReceiptsTrust.attest`
signs with such an identity.
*Hard*: a registration overwrites what was known, the own entry included, with
any key of a caller's choice, or with something another instance answered, perhaps
from its fallback; `resolve` joins a registered key with a did derived from the id.
*Correct when*: no signature is accepted but with a key of the agent, or one that a
caller registered as this very agent's, whatever was passed on by whom.

### sm_marketplace scenario (`scenarios_builtin/sm_marketplace.py`)

*State*: none but that of the registry, datasets and trust layers it shares.
*Operations*: `SellerAgent.on_start` (register, publish), `BuyerAgent.on_message`
(look the sellers up; for each in turn fetch, request access, credit, confirm).
*Hard*: rounds of several buyers interleave with sellers that edit and publish
again; a fetch that raises ends a round in its middle.
*Correct when*: a purchase leaves its mark in all layers or in none, and a
seller's reputation is its sales.

### Not modelled

| part | why |
|---|---|
| `run.py`, `__init__.py`, `scenarios_builtin/__init__.py` | command line and registration of plugins and scenarios: no state to speak of |
| `compare_trust.py`: the table and the exit code | output only; its scores and its assertion are modelled |
| `determinism.py`, the encodings in `wire.py` | pure conversions; where they matter they are injective (below). Their inverses on malformed input (base58, multicodec prefixes) are for unit tests |
| parsing and validation in sm_bridge, sm_arp, nest_core | libraries outside the repository |

## Modules

| module | what it is | code |
|---|---|---|
| `KeyWindows` | key records and what the methods read from and write to a history | `identity.py` |
| `KeyGenerations` | abstract specification: successive keys of an agent, and the interval of them a verifier knows | |
| `RotatingIdentity` | one instance per agent, every state-changing method an action, over a transport with four switches; properties; inductive invariant | `identity.py` |
| `RotatingIdentityProofs` | proved lemmas about the operators of `KeyWindows`; proved theorems about `RotatingIdentity`: the histories, own keys, what `resolve` answers, the verdicts on signatures, and the refinement of `KeyGenerations` | |
| `RotationValidator` | the validator as an operator on traces, built on `KeyWindows` | `validators.py` |
| `RotationScenario` | the scenario on the simulator, writing the trace that the validator reads | `identity_rotation.py`, `wire.py` |
| `RotationScenarioProofs` | proved theorems about both: the trace, and the validator's verdict on it | |
| `RegistrationFeed` | abstract specification of `subscribe`: each consumer is handed what is due to it, by position in the log of registrations | |
| `SmBridgeRegistry` | the registry and its consumers as processes | `registry_smbridge.py` |
| `DiscoveryScenario`, `MCDiscoveryScenario` | the scenario's agents and others over that registry; the set of acceptable cards for TLC | `registry_discovery.py` |
| `RegistryProofs` | proved theorems about both, and the refinement of `RegistrationFeed` | |
| `DidAuth` | instances that issue, verify and revoke | `auth_didkey.py` |
| `AuthHandshake`, `MCAuthHandshake` | the ring of agents over one of those instances; a ring of two for TLC | `auth_handshake.py` |
| `AuthProofs` | proved theorems about both | |
| `ArpDataFacts` | the layer, the objects it shares and their holders | `datafacts_arp.py` |
| `ProvenanceScenario`, `MCProvenanceScenario` | the ring of agents and others over that layer; a ring of two for TLC | `datafacts_provenance.py` |
| `DataFactsProofs` | proved theorems about both | |
| `ReceiptsTrust` | the receipt ledger, the fallback, stakes, severance and the score | `trust_receipts.py` |
| `ReputationScenario` | the scenario's agents and others over one trust layer, and the comparison with the mean | `reputation_receipts.py`, `compare_trust.py` |
| `ReputationProofs` | proved theorems about both: what a report counts for, which components are severed | |
| `DidKeyIdentity`, `MCDidKeyIdentity` | instances that learn keys from one another and from callers; who owns which for TLC | `identity_didkey.py` |
| `DidKeyProofs` | proved theorems about `DidKeyIdentity` | |
| `Purchases` | abstract specification of marketplace rounds | |
| `Marketplace` | sellers and buyers over instances of `SmBridgeRegistry`, `ArpDataFacts` and `ReceiptsTrust` | `sm_marketplace.py` |
| `MarketplaceProofs` | proved theorems about it, its sellers' reputation, and the refinement of `Purchases` | |

`RotationValidator` uses the operators `Holds`, `LearnHistory` and `Accepts` of
`KeyWindows`, as the validator uses an `Ed25519RotatingIdentity`; what it has
learned after each event is a recursive function of the event's position. An operator
with an underscore in its name (`FindRecord_LastMatch`) is a mutated form of
the one before the underscore: the property it is paired with in
`PROJECT.json` must fail when it takes the original's place. No specification
uses it.

### From code to model

**Keys.** `derive_signing_key(seed, agent, count)` is injective in the count, and
the key id is a hash of the public key. A key is therefore the rotation count it
was derived at, and `last`, `records` and announcements hold numbers. Because a
history appends without a look at what is there, the same key can occur twice.
`FindRecord` is the first match and `ActiveIndex` the first open record, as in
`_find_record` (238) and `_active_record` (112); which of several records is
found is the heart of this component, so both are kept exactly.

**Signatures.** Signing binds agent, key, tick and payload. A signature is the
record of those (`Sig`), its payload left out because nothing tells two payloads
apart. All modelled signatures are genuine; what Ed25519 rejects is out of scope.
`sign` takes an explicit `at_tick`, so the claimed tick need not be the clock.

**The continuity signature** of an announcement verifies under exactly the key
announced as the previous one. Announcements here come from `rotate_key`, so
`observe_rotation` fails (raises, changes nothing) exactly when it does not hold
a record of `prev`.

**Time.** Ticks are `0 .. MaxTick`; `Inf` is `MaxTick + 1`. Rotation
announcements carry the tick of the rotation. `advance_to` takes any later tick.

**Transport.** `announced` is what an agent broadcast, `delivered` what reached
whom. The switches: `Wired` (peers registered at the start, as the scenario does,
or else at any time and again), `InOrder`, `Redelivery`, `Loopback`. A lost
announcement is one that is not delivered in a behaviour.

**Own history.** `register_peer` for the instance's own id would replace its
private history by a public one. No caller does it and it is left out.

**Registry.** `Features` stands for the capabilities and name fragments a query
can ask for; `Conformant` for what sm_bridge accepts. A generator is a process
with the phases none, created (called but not run), waiting (in `q.get`), handed
(standing at `yield`) and closed. `register` does not yield to the event loop
(unbounded queues), so it is one action. A card is a value: `register` keeps the
card object it was given (127), and what a holder does to it later, which `lookup`
would show, is left out. `log`, `since` and `out` record history for the properties.

**Auth.** A token string is a function of subject, scopes and issuer clock, and
so is the model's token. Parsing of strings that `issue` did not make is left
out. In the scenario the shared instance has the default clock 0, an agent's
message is its token, in flight while its `step` is "presented", and a grant is
a pair of granting agent and token. Others' presentations need no flight of
their own: they arrive at any moment. A token is issued once at most per clock,
subject and scopes, so that one issued again after its revocation comes back
revoked: `RevokedIsNotGranted` says so.

**Datasets.** `heap` maps the metadata objects callers hold to their content;
`datasets` refers to objects; `commit` is the content whose hash was signed
(the hash is injective on the hashed fields). `provenance()` returns the stored
receipt itself (181), so that whoever holds it may make any other of it
(`EditReceipt`): one that does not verify any more (`intact`), or one that somebody
signed, for the same or another owner and content. `fetch` asks of the receipt only
that it verifies, and compares neither its issuer nor its hash with the dataset
(130-136): it then serves as before, next to a provenance of something else. The
properties are therefore about the receipt that `publish` issued, which the history
variable `issued` keeps. Grants that `request_access` returned are not edited: no
query of the layer reads them. `fetch` is a query with four outcomes. In the
scenario an agent also stands for the name `ds-<agent>` and for the metadata object
it makes. The layers' coroutines contain no real suspension, so that a handler of
the scenarios runs in one step up to its next send.

**Trust.** A receipt that verifies is its principal, its counterparty, and whether
the counterparty co-signed it; `ledger` counts equal ones. Receipts in the
repository are of one category with positive weight, so that an agent's score is
0 exactly when no receipt of it is credited, and more receipts credited mean a
higher one: `Score` keeps the credited set, the number of the agent's entries on
the ledger, and sums of the fallback in halves. VRP is a library: its severance follows what
`reputation_receipts.py` (14-28) and `trust_receipts.py` (130-140) say of it: a
strongly connected component of the corroboration graph is cut when it is dense
(0.8 of its ordered pairs) and isolated from the anchor, a largest component. (A
component is stated by what reaches what: agents are in one when they are in the
same sets that no edge leaves.) The
smallest component it cuts is not said, so 2 and 3 are both tried, and
of several largest components any may be the anchor: every property holds for
every choice. One credited receipt gives a score above the gate of 0.2 (`_normalize`
of the smallest weight is 0.39), so that an agent with receipts is below it exactly
when none is credited. `score_average` is a library too: the mean of what was
reported of the agent a report names.
`ReputationScenario.OnStart` makes all of an agent's reports in one step. The code
awaits the sending of a message after each of them (reputation_receipts.py:186-196);
that the simulator runs no other agent's handler meanwhile is assumed.

**did:key identities.** A seed gives one key, and a did encodes one, so a seed, a
public key and a did are one value; the seed derived from an agent's id is the
agent. `OtherSeeds` are the seeds passed to `__init__`. Instances register what
others show or answer, and whatever a caller asserts: any key for any agent, their
own included (`AssertKey`, `AssertDid`), as nothing in `register_peer` (141-162)
asks whose key it is. `asserted` records which keys were asserted of which agents.
`attest` of the trust layer signs with such an instance and has no state.

**Marketplace.** The three layers are instances of their modules over shared
variables, `Purchase` is one turn of the buyer's loop up to its send, and the
loop takes sellers in any order (the code's is that of the registry's dictionary).

## What is checked

TLC explores every state within the bounds. Each run takes from seconds to three
minutes with two workers.

| run | specification | shows |
|---|---|---|
| `IdentityWindows` | weakest transport: repeated, reordered, looped back; peers registered at any time and again; redelivery fair | `IndInv` (the invariant the proofs rest on), `KeysInTimeOrder`, `VerdictsAreGenerational`, `AuditStable`, refinement of `KeyGenerations`, `CatchesUp` |
| `IdentityResolve` | each announcement at most once, any order, no loopback | `TypeOK`, `HonestAudit`, `OwnKeysPrivate`, `ResolveCurrent` |
| `ScenarioVerdicts` | the scenario with receive events and messages of un-rotated replicas anywhere, fair | `ValidatorNeverRaises`, `VerdictExact`, `EachInsideItsWindow`, `ShowsRealWindows` |
| `RegistryDiscovery` | three agents, a consumer, and others that register and deregister, fair | `TypeOK`, `LatestCardServed`, `QueuesListedWhileRunning`, `CaughtUpSeesLatest`, refinement of `RegistrationFeed`, `EachCardHandedOver`, `SellersDiscovered` |
| `AuthHandshake` | two agents on a lossy transport, a second instance, others, fair | `InstancesAgree`, `RevokedIsNotGranted`, `HandshakesComplete` |
| `DataFactsGate` | two agents, and others that publish, edit and ask for access, fair | `ServedAsSigned`, `AccessAttested`, `FetchedGrantsAttributable`, `AccessedUnlessTampered` |
| `ReputationDetection` | five honest agents, a ring of three, started in any order, fair | `RingCaught`, `HonestKept`, `ReportsCountOnce`, `Detection` |
| `DidKeys` | an agent with two instances, one with one, one with none; other seeds; a key asserted by a caller | `TypeOK`, `OnlyGenuineVerifies`, `ResolvedTogether` |
| `MarketRounds` | three sellers, two buyers, edits and re-publications, fair | `AllOrNothing`, `ReputationIsSales`, refinement of `Purchases`, `RoundsEnd` |
| `IdentityResolveRepeated`, `IdentityLoopback`, `IdentityZeroLatency` | | a counterexample each (below) |

The four switches matter: `OwnKeysPrivate` and `ResolveCurrent` are checked
under the transport they need, and two of the counterexamples show that they
need it. What `IdentityWindows` checks, holds
under every transport.

### Bounds, and why they are enough

* *Identity*: one signer and one verifier. An instance's state for an agent is
  touched only by that agent's announcements, so that pairs (signer, verifier)
  do not influence one another. Two verifiers would give the product of two
  independent systems. Three rotations: a history needs a
  first key, one that is learned normally, one whose announcement comes twice or
  too early, and one after it. Ticks `0 .. 2`: rotations at the same tick, at
  successive ones and with a gap. `MaxHistory` bounds only appends of keys that
  are already there; four records leave room for every first append and a
  repeat, and the proofs cover the rest.
* *Scenario*: two agents, ticks `0 .. 3`, rotation at tick 1, two receive events
  and one replica message: the rotation falls inside the trace, with messages in
  its tick, before and after it. `RotateAt = 0` makes the first key's window
  empty, so that the agent's first message falls outside it:
  `EachInsideItsWindow` needs a rotation after the start, as the scenario's
  default (and every configuration in the repository) has.
* *Registry*: four registrations, three of them the scenario's: others may replace
  one card, or register the seller that stopped offering, and they touch one agent's
  card (`MaxTouched`). Two sellers, so that sellers greet each other, a buyer that the
  consumer's query skips, cards that are refused. Queues of several cards outgrow
  what the generator takes between calls. One consumer: `register`
  appends to each queue apart, and a generator touches only its own.
* *Auth*: the other instance's clock is `0 .. 2` and a lifetime is 1, so that it is
  before, at and after the last tick of a token. `_TTL` is 3600 in the code; only
  the order of expiry and clock matters. Three tokens: the agents' own and one more of any
  kind; each may be issued, revoked and presented again without bound.
* *Datasets*: two agents, each with a name and an object, suffice for one object under two
  names, two objects under one, and either owner's publication under the other's
  name; one body, since contents already differ in name and owner. Others
  make four calls (`MaxCalls`): enough to edit an object, put another receipt in place,
  publish and edit again, before and after the agents' accesses. Two grants per name: a grant of others
  before or after the scenario's.
* *did:key*: an agent with two instances, which may have different seeds, one with
  one and one that only fallbacks and callers know cover every relation of a key to an
  agent. One assertion of a caller (`MaxAsserted`), of any key and any agent, is passed
  on by instances without bound. The proofs cover any number.
* *Marketplace*: three sellers leave a round with some before and some after the
  one whose fetch raises; two buyers interleave. Two edits: one that breaks a
  round and one that undoes or follows it.
* *Reputation*: 16 honest agents and a ring of 4 in the code, 5 and 3 here. What
  the verdict needs of the numbers is a core larger than the ring, a ring dense
  enough (a clique) and a core that is not (a cycle of 5 with back-edges has 0.5
  of its pairs, of 16 less). Five also leave room for every partial
  start: two components of the core, one as large as the ring. Two reports of
  others at any moment, about three agents (`Subjects`: one honest, two of the
  ring), reach each kind of interference: a receipt counted twice, one never
  co-signed (also one that names an agent of the other population), plain text after
  the first receipt, and plain text before it, discarded by a receipt that others
  report or by those of the agent when it starts. Plain text is negative: it
  counts as any other does, and the negative one brings the ring's mean closest to the
  gate, below which `AssertDetection` fails.

`CHECK_DEADLOCK FALSE` appears where the bounds make a run end
(the clocks, rotations, registrations, messages and others' calls are used up). It
is not needed for `DidKeys` and `AuthHandshake`.

### Fairness

* `IdentityWindows`: weak fairness of the delivery of each announcement. The
  repository has no transport of its own; this is the contract "keep trying" that
  a caller must provide, since an announcement that came too early raised and was
  lost. Without redelivery a reordered announcement is lost for good.
* `ScenarioVerdicts`: weak fairness of the handlers and of the clock. The
  simulator starts every agent, fires every scheduled message and moves on while
  anything is scheduled. Receive events and replicas have no fairness.
* `RegistryDiscovery`: weak fairness of each agent's start and discovery, as above,
  and of taking a card and of asking for the next one: a consumer is an `async for`
  loop, and asyncio resumes a task whose queue has an item. What others do, the first
  iteration and closing have none.
* `AuthHandshake`: weak fairness of each start and of "the token arrives or is
  lost", never of the arrival itself. Others have none.
* `DataFactsGate`, `MarketRounds`: weak fairness of each agent's start and of its scheduled
  signal; in the marketplace also of a buyer's next turn, because a handler runs on.
  Edits and publications by others have none.
* `ReputationDetection`: weak fairness of "some agent starts": the simulator starts
  agents until all have. Others report or not.

### Counterexamples

1. `IdentityResolveRepeated`: `observe_rotation` appends a record also for a key
   it already holds (218). After the same announcement twice and one more
   rotation, the duplicate is still open and comes first, so `resolve` (291, "its
   current did:key identity record") answers with the older key. Verdicts are not
   affected: they read the first record of a key, which is closed
   (`VerdictsAreGenerational` holds under every transport).
2. `IdentityLoopback`: an instance that observes its own announcement keeps a
   public duplicate of its own key. At its next rotation that duplicate becomes
   the active record, against "own keys always private" (133, 154), and `sign` and
   `rotate_key` raise from then on.
3. `IdentityZeroLatency`: `verify_as_of` says that under zero latency its checks
   "always hold" for an honest signature (263-264). They do not when the signer
   signs and then rotates in the same tick: the window is half-open.
The transport that the repository's own scenario uses sets none of the first two
off: agents do not observe one another there, only the validator does, once per
announcement.

## What is proved

Each theorem holds for every value of the constants: every set of agents,
instances, names, cards or buyers, every bound, every data. What is assumed of the
constants are the named assumptions of the modules (`MaxTickAssumption`,
`BoundsAssumption`, `SwitchAssumption`, `DidKeyAssumption`, `RegistryAssumption`,
`DiscoveryAssumption`, `AuthAssumption`, `HandshakeAssumption`,
`DataFactsAssumption`, `ProvenanceAssumption`, `MarketAssumption`,
`TrustAssumption`, `ScenarioAssumption`): bounds are
naturals, the agents that the trust layer scores and the buyers are finitely many,
VRP severs no component of one, the scenario's agents, peers, first contents and cards are of the sets
the layer takes them from, acceptable cards are cards, sellers are not buyers,
placeholders are no values. TLC evaluates them on every run.

| property | theorem | module |
|---|---|---|
| `IndInv` | `HistoriesAreGenerations` | `RotatingIdentityProofs` |
| `TypeOK` | `TypeCorrect` | |
| `KeysInTimeOrder` | `KeysInTimeOrderHolds` | |
| `OwnKeysPrivate`, if `~Loopback` | `OwnKeysPrivateHolds` | |
| `ResolveCurrent`, if `~Redelivery` and `~Loopback` | `ResolveCurrentHolds` | |
| `HonestAudit` | `HonestAuditHolds`, from `SignaturesInTime` | |
| `VerdictsAreGenerational` | `VerdictsAreTheGenerations` | |
| `AuditStable` | `VerdictsAreStable` | |
| refinement of `KeyGenerations` | `HistoriesImplementGenerations` | |
| `ValidatorNeverRaises` | `NeverRaises`, from `TraceIsOfScenario` | `RotationScenarioProofs` |
| `VerdictExact` | `VerdictIsExact` | |
| `EachInsideItsWindow`, if `RotateAt > 0` | `InsideItsWindow` | |
| `TypeOK` | `TypeCorrect` | `DidKeyProofs` |
| `OnlyGenuineVerifies` | `NoImpersonation` | |
| `ResolvedTogether` | `ResolvedTogetherHolds` | |
| `TypeOK` | `RegistryTypeCorrect`, from `RegistryInvariant` | `RegistryProofs` |
| `LatestCardServed` | `ServesLatestCard` | |
| `QueuesListedWhileRunning` | `QueuesListed` | |
| `CaughtUpSeesLatest` | `CaughtUpConsumersSeeLatest` | |
| refinement of `RegistrationFeed` | `QueuesImplementFeed` | |
| `InstancesAgree` | `InstancesDoAgree` | `AuthProofs` |
| `RevokedIsNotGranted` | `RevocationStopsGrants` | |
| `ServedAsSigned` | `ServesAsSigned`, from `DataFactsInvariant` | `DataFactsProofs` |
| `FetchedGrantsAttributable` | `FetchedGrantsAreAttributable` | |
| `AccessAttested` | `AccessIsAttested` | |
| `ReportsCountOnce`, for a core not of one agent | `ReportsOnce`, from `LedgerIsTopology` | `ReputationProofs` |
| `RingCaught`, for a ring smaller than the core | `RingIsCaught` | |
| `HonestKept`, for a core of at least four | `HonestAreKept` | |
| `started = Agents => AssertDetection`, the safety of `Detection` | `DetectionIsSafe` | |
| `AllOrNothing` | `PurchasesAllOrNothing`, from `MarketInvariant` | `MarketplaceProofs` |
| `ReputationIsSales` | `ReputationOfSales` | |
| refinement of `Purchases` | `RoundsImplementPurchases` | |

Invariants of the layers are proved of the layer under any caller: a `Spec` in
which every operation may be called at any time. That a scenario with the others
around it is such a caller is proved as well (`ScenarioUsesRegistry`,
`HandshakesUseAuth`, `ScenarioUsesDataFacts`: `ScenarioSpec => Spec`), so that
they hold of what the runs check.

### Rotating keys

`KeysInTimeOrder` says that two keys of an agent are never accepted at overlapping
or swapped ticks. It is not inductive: it says nothing of where the next
announcement's tick lies, nor that the announced tick is the one the signer's own
history has. `IndInv` adds what a step needs:

* `OwnHistoryOK`: an agent's own history holds every key `0 .. count`, issued in
  order, none in the future, and among its private records only the first of the
  newest key is open;
* `HistoryOK`: any history, own or of a peer, holds an interval of keys; the
  window of each (of its *first* record) begins at the issue tick in the owner's
  history (the first key of the list at 0) and ends at the issue of the next key,
  if that one is held too, and is open otherwise;
* `GenuineRotation`: every announcement, pending or broadcast, is of a rotation
  that happened, from one key to the next, with its real tick.

The argument is that every write to a history is one of two: append a record and
close the first record of the key before. `GrowFinds` states what such a
write (`GrownBy`) does to the first match of every key: either the
key is new, or nothing but the closed window changes; and re-closing sets the tick
it already had, because the announcement is genuine. A rotation of the owner
extends the issue ticks and leaves the old ones (`HistoryExtends`), so every
peer's history stays a history of the longer sequence. The steps of `NextKeeps`
follow the actions of `Next`. `WindowsInOrder` then derives the order of two keys
from the order of the issue ticks.

`HonestAudit` needs to know when a signature was made. `AuditInv` is `IndInv`
with, for every signature, that its key was issued by the tick it was made at and
that the next key was not issued before that tick. A new signature has it because
a private active record is one of the newest key (`NewestKeyActive`); an old one
keeps it because a step leaves the issue ticks of existing keys alone and a
rotation issues the next key at the rotating agent's clock (`RotationIssuesNow`).
That `HonestAudit` excepts a key that rotated out in the very tick of the
signature is what `IdentityZeroLatency` shows to be necessary.

`VerdictsAreGenerational` and `AuditStable` follow from `HistoryOK` without more
strengthening: it determines the window of each key held, hence each verdict
(`VerdictsOfGenerations`), and once the next key is held the window never changes
again (`StepKeepsHistory`: no step forgets a key, and issue ticks stay). The same
facts carry the refinement. The interval that a verifier knows is read off its
history (`ViewIsInterval`); `RotateKeyRotates` shows that a rotation appends one
generation, `ObserveRotationLearns` that an observation extends one interval by
one or changes nothing, and `RegisterPeerMeets` that a registration begins one.

`OwnKeysPrivate` needs that *all* records an instance keeps of itself are private
(`OwnRecordsPrivate`), because any of them may become the active one; the only
step that could break this is the observation of one's own broadcast.
`ResolveCurrent` needs `ResolveInv`: the keys of a history are consecutive, in
order and without repeats (`InLine`), what was delivered was announced, and each
key of a peer after the first was delivered. With it an announcement that arrives
for the first time brings a key that is not held yet (`NewsIsNew`), so that the
history stays in line, all but its last record are closed, and the first open
record is that of the newest key. The hypotheses on the switches are those whose
absence `IdentityLoopback` and `IdentityResolveRepeated` refute.

### The rotation scenario and its validator

`VerdictExact` speaks of what the validator computes from a trace, so the
invariant says what traces there are. `TraceInv`: each agent that has started has
announced its initial key exactly once, each that has rotated its rotation, at
`RotateAt`; every message is signed with the initial key, or with the new one in
the tick of the rotation; and while no replica has sent any, messages with the
initial key are of tick 0. The order of events in a tick is left open, as are receive events,
which announce nothing.

The validator's second loop is a recursive function over the trace. Its equation
has a solution (`LearnedSteps` builds it, one event longer at a time), and what it
knows after n events is stated in closed form: `After(FALSE)`, the history of a
rotated agent, for every agent whose rotation is among these events, and
`Before(FALSE)` for the others that began (`Knows`). `RotationLearned` shows that one
event keeps this: an announcement meets an agent whose history is still the
initial one, because it is the only one of that agent, so the key it replaces is
found and nothing is raised. Both arguments are inductions over the position.
The prover cannot instantiate the library's induction theorem, so `Upto` takes the
place of it: it is proved from the well-foundedness of the naturals, and takes a
set where that takes a predicate. `Learned` is the result: at the end the validator holds
each agent's real history. `MessageJudged` then reads the verdict on each message off
two windows that meet at `RotateAt`.

`RotateAt > 0` in `InsideItsWindow` is needed: with a rotation in the first
tick the initial key's window is empty.

### did:key identities

The invariant is `KnownVouched` (every key known of an agent is one of the
agent's, or was asserted of this agent by a caller) with type correctness. It is
needed because what `resolve` answers is registered by others: `ResolvedVouched`
shows that both halves of such a record are vouched for as the agent's, from the
invariant of the instance that answers, and `RegisterKeeps` that registering such a
key keeps the invariant. So an asserted key reaches instances its caller never spoke
to, but never as the key of another agent. That it takes the place of the agent's
own key, whose signatures are then rejected, is what the code does.

### Registry

`CaughtUpSeesLatest` speaks of empty queues only, and the log has no part in what
the registry does. `RegistryInv` relates the two at every moment. For each listed
consumer (`Follows`): its queue is the end of the log, never from before its
beginning; it was handed as many cards as match in the part it has read; and of
each agent the last match in that part is the last of that agent it was handed.
`CardsAreLatest` says that each stored card is the last of its agent in the log. A
registration appends to the log and to every listed queue, so the part read stays
as it is (`RegisterKeeps`); a card taken moves one position from one to the other,
and is counted if it matches (`TakeKeeps`). A consumer with an empty queue has
read everything, and `CaughtUpSeesLatest` follows.

`RegistrationFeed` states what is due by positions in the log: the n-th card
handed to a consumer is the n-th match after its beginning. The refinement then
needs that the position taken has exactly the matches counted so far before it.

### Auth

An issued token expires the lifetime after its issue, what is revoked was issued,
and no clock moves (`AuthInv`). A revocation is for good, because nothing takes a
token off `_revoked`; and a grant is given only at a `verify` that passes. The two
make `RevokedIsNotGranted` an invariant from the revocation on.

### Datasets

`SignedTogether`: the commitment stored under a name and the receipt issued with it
come from one publication, of a content of that name. Edits of objects and of
receipts happen outside the layer; they can change what is stored, the receipt into
any other, but never the commitment. So when `fetch` finds the hash equal, the
content *is* the one its owner signed (`ServedAsSigned`), and a grant asked for next
is signed by the very owner that signed (`FetchedGrantsAttributable`). Nothing of
the kind holds of the receipt that `provenance()` returns. `Receipted` (each grant has its
receipt at the same place) and `MessagesAttested` (each message points at such a
pair) keep `AccessAttested` while other owners publish under the name.

### Trust and the reputation scenario

`TrustInv` relates the ledger to the topology: of the co-signed receipts those of
the edges of the started agents are on it, and no others. Others add receipts that
are there already, or that nobody co-signed, so the corroboration graph is the part
of the topology whose principals have started (`EdgesOfStarted`). What is severed
follows from that graph alone:

* No edge joins ring and core, and within the ring all are joined both ways, so the
  whole ring is one component (`RingIsComponent`), dense (`RingIsDense`) and isolated.
  `RingCount + 1` core agents in a row are in one component as well
  (`RowInComponent`, along the row by `Upto`), which is larger than the ring. So the
  ring is not the anchor, whichever largest component is, and it is cut
  (`RingSevered`).
* Three core agents in a row that have started are in one component. A component
  of the core has, for each member, at most two edges, and among four or more
  members that is less than the density asked for; in a core of four or more a
  component of three lacks the edge between the ends of the row (`RowOfThree`). So it
  is never dense (`CoreIsSparse`), and the receipts of the agent in the middle all
  count.
* `ReportsCountOnce` needs no graph: one more entry on the ledger makes the set of
  entries of its principal larger by one and leaves the others (`OneMoreEntry`). The
  receipts that an agent reports when it starts are as many as its edges
  (`AddedAreEdges`) and none is among its entries yet (`StartedEntries`).
* `AssertDetection` also says that the *mean* does not catch the ring. `AverageInv`
  follows its sum and its number of reports: a member of the ring has `RingCount - 1`
  positive ones (`RingDegree`), and each report of others moves it by one at most.

The hypotheses are those of the argument, and state what the detection of
`compare_trust.py` depends on. `RingCount < HonestCount`: a ring as large as the
core may be the anchor. `m <= RingCount` for each possible smallest size: VRP leaves
smaller components alone. `HonestCount # 1`, in `ReportsOnce` only: a cycle of one
would credit itself. `HonestCount >= 4`: a cycle of three is a clique, and as dense
as the ring. `MaxReports <= 4 * (RingCount - 1)`, in `DetectionIsSafe` only: that
many negative reports of one member, and one more, put its mean below the gate. The
code's 16 honest agents and ring of 4 satisfy the others whether VRP's
smallest is 2, 3 or 4, and the last up to 12 reports of others; in the scenario
there are none.

### Marketplace

`AllOrNothing` counts grants and credits. `MarketInv` says that all of them are
functions of the purchases confirmed: the grants under a seller's name are one for
each of its buyers, signed by it (`GrantsInv`); the ledger holds a credit once for
each purchase (`LedgerInv`); a round has still to visit what it found and has not
bought (`RoundsInv`); and edits leave a dataset its name and owner
(`ListingsInv`), without which a grant receipt could be signed by someone else. A
round that breaks off changes none of it. The refinement of `Purchases` follows
per action from the same invariant.

`ReputationIsSales` is about the score. `LedgerInv` also says that nothing else is
on the ledger: every entry is a credit to a seller by a buyer. So every edge of
the corroboration graph leads from a seller to a buyer, and none leaves a buyer
(`EdgesToBuyers`): all components are of one agent (`ComponentsAreSingle`), and VRP severs
none of those (`NobodySevered`), however a seller's buyers are distributed. A seller's
samples are then counted by its buyers (`SalesAreEntries`).

### What is only model-checked

* Liveness: `CatchesUp`, `ShowsRealWindows`, `EachCardHandedOver`,
  `SellersDiscovered`, `HandshakesComplete`, `AccessedUnlessTampered`,
  `Detection`, `RoundsEnd`. The prover treats neither ENABLED nor fairness.

Every invariant, every property of steps and every refinement that a passing run
checks is a theorem, under the conditions in the table above. Of `Detection` the
part without time is one too (`DetectionIsSafe`).

## Plan

Every component that keeps state is modelled, and what is safety is proved. What
is left:

* liveness proofs, once the prover has rules for fairness: the ranking that each
  needs is bounded (the length of a queue, the agents that have not started, the
  sellers of a round yet to visit);
* the encodings of `determinism.py` and `wire.py`, which are injective here by
  assumption: a matter for tests of the conversions rather than for a model of states;
* a second verifier in `IdentityWindows` and a larger ring in
  `ReputationDetection` would add states and, after the theorems, nothing to what is
  known of the invariants.
