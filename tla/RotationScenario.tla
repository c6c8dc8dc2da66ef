-------------------------- MODULE RotationScenario --------------------------
(***************************************************************************)
(* The identity_rotation scenario (src/nest_adapters/scenarios_builtin/    *)
(* identity_rotation.py) on the simulator: HonestSigner agents in a ring,  *)
(* the trace the simulator records, and the validator's verdict on every   *)
(* prefix of it.  A handler is one action: it does every call it makes.    *)
(* The simulator (clock, timers, delivery, trace) is modelled from its use.*)
(***************************************************************************)
EXTENDS RotationValidator

CONSTANTS
  RotateAt,      \* rotate_at_tick of the scenario's configuration
  MaxReceives,   \* bound: receive events in a trace
  MaxReplicas    \* bound: messages of replicas in a trace

ASSUME ScenarioAssumption ==
  RotateAt \in Tick /\ MaxReceives \in Nat /\ MaxReplicas \in Nat

VARIABLES
  now,       \* the simulator's tick
  phase,     \* per agent: "new", "scheduled" (rotation pending), "rotated"
  own,       \* per agent: its own key history
  trace,     \* the recorded events
  received,  \* how many receive events there were
  replicated \* how many messages of replicas there were

extra == <<received, replicated>>

vars == <<now, phase, own, trace, received, replicated>>

Init ==
  /\ now = 0
  /\ phase = [a \in Agents |-> "new"]
  /\ own = [a \in Agents |-> <<NewRecord(0, 0, TRUE)>>]
  /\ trace = <<>>
  /\ received = 0
  /\ replicated = 0

Event(kind, m) == [kind |-> kind, ts |-> now, msg |-> m]

Identity(a) ==
  Event("broadcast", [k |-> "id", agent |-> a, key |-> ActiveRecord(own[a]).key])

SignedBy(a, recs) ==
  Event("send", [k |-> "msg", agent |-> a, key |-> ActiveRecord(recs).key, tick |-> now])

Rotation(a, ann) == Event("broadcast", [k |-> "rot", agent |-> a, ann |-> ann])

OnStart_NoIdentity(a) ==
  /\ phase[a] = "new"
  /\ trace' = trace \o <<SignedBy(a, own[a])>>
  /\ phase' = [phase EXCEPT ![a] = "scheduled"]
  /\ UNCHANGED <<now, own, extra>>

\* on_start: announce the initial key, send a signed message, schedule the
\* rotation.  The simulator starts every agent at tick 0.
OnStart(a) ==
  /\ phase[a] = "new"
  /\ trace' = trace \o <<Identity(a), SignedBy(a, own[a])>>
  /\ phase' = [phase EXCEPT ![a] = "scheduled"]
  /\ UNCHANGED <<now, own, extra>>

OnRotate_SignFirst(a) ==
  LET old  == ActiveRecord(own[a]).key
      recs == RotateHistory(own[a], old + 1, now)
      ann  == [prev |-> old, new |-> old + 1, issued_at |-> now]
  IN  /\ phase[a] = "scheduled"
      /\ now = RotateAt
      /\ own' = [own EXCEPT ![a] = recs]
      /\ trace' = trace \o <<SignedBy(a, own[a]), Rotation(a, ann)>>
      /\ phase' = [phase EXCEPT ![a] = "rotated"]
      /\ UNCHANGED <<now, extra>>

\* on_message for the scheduled signal: rotate, broadcast the announcement,
\* sign with the new key.  Every other message is ignored.
OnRotate(a) ==
  LET old  == ActiveRecord(own[a]).key
      recs == RotateHistory(own[a], old + 1, now)
      ann  == [prev |-> old, new |-> old + 1, issued_at |-> now]
  IN  /\ phase[a] = "scheduled"
      /\ now = RotateAt
      /\ own' = [own EXCEPT ![a] = recs]
      /\ trace' = trace \o <<Rotation(a, ann), SignedBy(a, recs)>>
      /\ phase' = [phase EXCEPT ![a] = "rotated"]
      /\ UNCHANGED <<now, extra>>

\* The simulator moves to the next tick once nothing is due at this one.
Advance ==
  /\ now < MaxTick
  /\ \A a \in Agents : phase[a] # "new"
  /\ now = RotateAt => \A a \in Agents : phase[a] = "rotated"
  /\ now' = now + 1
  /\ UNCHANGED <<phase, own, trace, extra>>

\* The simulator records the delivery of some emitted message.
Receive ==
  /\ received < MaxReceives
  /\ \E i \in DOMAIN trace :
       /\ trace[i].kind \in EmittingKinds
       /\ trace' = Append(trace, Event("receive", trace[i].msg))
  /\ received' = received + 1
  /\ UNCHANGED <<now, phase, own, replicated>>

\* A second instance built for the agent from the same seed, which has not
\* rotated, sends a message too: it signs with the initial key.
ReplicaSends(a) ==
  /\ replicated < MaxReplicas
  /\ phase[a] # "new"
  /\ trace' = Append(trace, SignedBy(a, <<NewRecord(0, 0, TRUE)>>))
  /\ replicated' = replicated + 1
  /\ UNCHANGED <<now, phase, own, received>>

Next ==
  \/ \E a \in Agents : OnStart(a) \/ OnRotate(a) \/ ReplicaSends(a)
  \/ Advance
  \/ Receive

Spec == Init /\ [][Next]_vars

\* The simulator starts every agent, fires every timer and moves time on.
Fairness ==
  /\ WF_vars(Advance)
  /\ \A a \in Agents : WF_vars(OnStart(a)) /\ WF_vars(OnRotate(a))

FairSpec == Spec /\ Fairness

-----------------------------------------------------------------------------
(* Properties. *)

\* validators.py:60 lets the ValueError of observe_rotation through: no
\* prefix of a trace of the scenario, with receive events anywhere, makes
\* the validator raise.
ValidatorNeverRaises == ~Validate(trace).raised

\* The validator flags exactly the messages signed with a key that the agent
\* had replaced by then, or replaced in that very tick, wherever in the
\* trace the rotation announcement stands.
VerdictExact ==
  Validate(trace).violations =
    {i \in DOMAIN trace :
       /\ IsOurs(trace[i], "msg")
       /\ \E j \in DOMAIN trace :
            /\ IsOurs(trace[j], "rot")
            /\ trace[j].msg.agent = trace[i].msg.agent
            /\ trace[j].msg.ann.prev = trace[i].msg.key
            /\ trace[j].ts <= trace[i].ts}

\* identity_rotation.py:7-8: "The trace therefore contains signatures from
\* two keys per agent, each inside its own validity window": without
\* replicas the validator finds no use outside a window.
EachInsideItsWindow == replicated = 0 => Validate(trace).none_outside

\* The scenario gets to show what it is for: the validator's first result
\* eventually passes, and from then on for every longer trace.
ShowsRealWindows == <>[](Validate(trace).real_windows /\ ~Validate(trace).raised)
=============================================================================
