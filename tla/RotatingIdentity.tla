-------------------------- MODULE RotatingIdentity --------------------------
(***************************************************************************)
(* A set of Ed25519RotatingIdentity instances (src/nest_adapters/          *)
(* identity.py), one per agent, whose callers rotate, announce, sign and   *)
(* observe one another's rotations.  Every public method that changes      *)
(* state is one action; verify_as_of, verify and resolve are operators.    *)
(*                                                                         *)
(* Between rotation_announcement() on one instance and observe_rotation()  *)
(* on another lies the caller's transport, which the repository leaves     *)
(* open.  Four switches say what it may do:                                *)
(*   Wired      every instance starts with every peer's initial key (as    *)
(*              _instantiate_identities does); otherwise register_peer may *)
(*              be called at any time, also again                          *)
(*   InOrder    announcements of one agent arrive in the order of rotation *)
(*   Redelivery an announcement may arrive more than once                  *)
(*   Loopback   a broadcast also comes back to its sender                  *)
(***************************************************************************)
EXTENDS KeyWindows, FiniteSets

CONSTANTS
  Signers,        \* agents that rotate, announce and sign
  Verifiers,      \* agents that only observe and verify
  MaxRotations,   \* bound: rotations of one agent
  MaxHistory,     \* bound: records of one history (repeated appends only)
  MaxSigs,        \* bound: signatures kept
  Wired, InOrder, Redelivery, Loopback

Agents == Signers \cup Verifiers

ASSUME BoundsAssumption ==
  MaxRotations \in Nat /\ MaxHistory \in Nat /\ MaxSigs \in Nat

ASSUME SwitchAssumption == {Wired, InOrder, Redelivery, Loopback} \subseteq BOOLEAN

VARIABLES
  clock,       \* _clock of each instance
  count,       \* _rotation_count of each instance
  last,        \* _last_rotation of each instance
  records,     \* _records: records[v][a] is the history v keeps for a
  announced,   \* what each agent has broadcast
  delivered,   \* delivered[v][a]: announcements of a handed to v at least once
  signed       \* the signatures made, with the tick they were made at

vars == <<clock, count, last, records, announced, delivered, signed>>

\* The None of _last_rotation: key 0 is never the new key of a rotation.
NoRotation == [prev |-> 0, new |-> 0, issued_at |-> 0]

\* A signature: who, with which key, the claimed tick, and (not part of its
\* value) the signer's clock when it was made.
Sig == [signer : Agents, key : Nat, tick : Tick, made : Tick]

Knows(v, a, k) == Holds(records[v][a], k)

-----------------------------------------------------------------------------
(* verify_as_of, verify and resolve. *)

VerifyAsOf(v, sig, a, as_of) ==
  /\ sig.signer = a
  /\ Accepts(records[v][a], sig.key, sig.tick, as_of)

\* verify: as of the verifier's own clock.
Verify(v, sig, a) == VerifyAsOf(v, sig, a, clock[v])

\* resolve: the key of the active record (a KeyError for an unknown agent).
Resolve(v, a) == ActiveRecord(records[v][a]).key

-----------------------------------------------------------------------------
(* The methods that change state. *)

\* __init__ and, when Wired, the cross-registration of the factory.
Init ==
  /\ clock = [a \in Agents |-> 0]
  /\ count = [a \in Agents |-> 0]
  /\ last = [a \in Agents |-> NoRotation]
  /\ records = [v \in Agents |-> [a \in Agents |->
                  IF v = a \/ Wired THEN <<NewRecord(0, 0, v = a)>> ELSE <<>>]]
  /\ announced = [a \in Agents |-> {}]
  /\ delivered = [v \in Agents |-> [a \in Agents |-> {}]]
  /\ signed = {}

\* advance_to, driven by ctx.time, which does not go back.
AdvanceTo(a, t) ==
  /\ t > clock[a]
  /\ clock' = [clock EXCEPT ![a] = t]
  /\ UNCHANGED <<count, last, records, announced, delivered, signed>>

\* sign: without a private key in the active record it raises, and nothing
\* changes.  t is at_tick, or the clock when the caller omits it.
Sign(a, t) ==
  /\ Cardinality(signed) < MaxSigs
  /\ ActiveRecord(records[a][a]).private
  /\ signed' = signed \cup
       {[signer |-> a, key |-> ActiveRecord(records[a][a]).key, tick |-> t, made |-> clock[a]]}
  /\ UNCHANGED <<clock, count, last, records, announced, delivered>>

RotateKey_PriorIsNew(a) ==
  /\ count[a] < MaxRotations
  /\ ActiveRecord(records[a][a]).private
  /\ count' = [count EXCEPT ![a] = @ + 1]
  /\ records' = [records EXCEPT ![a][a] = RotateHistory(@, count[a] + 1, clock[a])]
  /\ last' = [last EXCEPT ![a] =
       [prev |-> ActiveRecord(records'[a][a]).key, new |-> count[a] + 1, issued_at |-> clock[a]]]
  /\ UNCHANGED <<clock, announced, delivered, signed>>

RotateKey_CountsTwice(a) ==
  /\ count[a] < MaxRotations
  /\ ActiveRecord(records[a][a]).private
  /\ count' = [count EXCEPT ![a] = @ + 2]
  /\ records' = [records EXCEPT ![a][a] = RotateHistory(@, count[a] + 2, clock[a])]
  /\ last' = [last EXCEPT ![a] =
       [prev |-> ActiveRecord(records[a][a]).key, new |-> count[a] + 2, issued_at |-> clock[a]]]
  /\ UNCHANGED <<clock, announced, delivered, signed>>

\* rotate_key: raises like sign; otherwise closes the active key's window at
\* the clock, appends the next key and remembers the rotation.
RotateKey(a) ==
  /\ count[a] < MaxRotations
  /\ ActiveRecord(records[a][a]).private
  /\ count' = [count EXCEPT ![a] = @ + 1]
  /\ records' = [records EXCEPT ![a][a] = RotateHistory(@, count[a] + 1, clock[a])]
  /\ last' = [last EXCEPT ![a] =
       [prev |-> ActiveRecord(records[a][a]).key, new |-> count[a] + 1, issued_at |-> clock[a]]]
  /\ UNCHANGED <<clock, announced, delivered, signed>>

\* The caller broadcasts rotation_announcement(), which raises before the
\* first rotation.
Announce(a) ==
  /\ last[a] # NoRotation
  /\ announced' = [announced EXCEPT ![a] = @ \cup {last[a]}]
  /\ UNCHANGED <<clock, count, last, records, delivered, signed>>

\* What the transport may hand to v now.
Deliverable(v, a, ann) ==
  /\ ann \in announced[a]
  /\ v = a => Loopback
  /\ ann \in delivered[v][a] => Redelivery
  /\ InOrder => \A e \in announced[a] : e.new < ann.new => e \in delivered[v][a]

\* observe_rotation: the announcement is used up whether or not it raises.
\* (A transport that neither keeps order nor avoids redelivery need not
\* remember what it delivered.)
ObserveRotation(v, a, ann) ==
  /\ Deliverable(v, a, ann)
  /\ Knows(v, a, ann.new) => Len(records[v][a]) < MaxHistory
  /\ records' = [records EXCEPT ![v][a] = LearnHistory(@, ann)]
  /\ delivered' = IF Redelivery /\ ~InOrder THEN delivered
                   ELSE [delivered EXCEPT ![v][a] = @ \cup {ann}]
  /\ UNCHANGED <<clock, count, last, announced, signed>>

\* register_peer with a public key the peer has, or once had: the history
\* kept for the peer is replaced by that key, valid from tick 0.
RegisterPeer(v, a, k) ==
  /\ ~Wired
  /\ v # a
  /\ records' = [records EXCEPT ![v][a] = <<NewRecord(k, 0, FALSE)>>]
  /\ UNCHANGED <<clock, count, last, announced, delivered, signed>>

Next ==
  \/ \E a \in Agents, t \in Tick : AdvanceTo(a, t)
  \/ \E a \in Signers, t \in Tick : Sign(a, t)
  \/ \E a \in Signers : RotateKey(a)
  \/ \E a \in Signers : Announce(a)
  \/ \E v \in Agents, a \in Signers : \E ann \in announced[a] : ObserveRotation(v, a, ann)
  \/ \E v \in Agents, a \in Signers : \E k \in 0 .. count[a] : RegisterPeer(v, a, k)

Spec == Init /\ [][Next]_vars

\* A transport that keeps trying: each announcement is eventually handed over.
Deliver(v, a, n) == \E ann \in announced[a] : ann.new = n /\ ObserveRotation(v, a, ann)

FairSpec ==
  /\ Spec
  /\ \A v \in Agents, a \in Signers, n \in 1 .. MaxRotations : WF_vars(Deliver(v, a, n))

-----------------------------------------------------------------------------
(* Properties. *)

\* Every variable has its type; the records of an agent's own history and
\* of a peer's differ only in the private flag (identity.py:48-77).
TypeOK ==
  /\ clock \in [Agents -> Tick]
  /\ count \in [Agents -> 0 .. MaxRotations]
  /\ last \in [Agents -> Announcement]
  /\ records \in [Agents -> [Agents -> Seq(KeyRecord)]]
  /\ announced \in [Agents -> SUBSET Announcement]
  /\ delivered \in [Agents -> [Agents -> SUBSET Announcement]]
  /\ signed \subseteq Sig

\* Whatever the transport does, a verifier never accepts a signature of an
\* older key at, or claimed for, a tick that is not before every tick it
\* accepts a newer key at or for: the windows one verifier keeps for one
\* agent neither overlap nor come out of order (verify_as_of, 286-288).
KeysInTimeOrder ==
  \A v \in Agents, a \in Agents : \A k, l \in 0 .. count[a] :
    k < l => \A s \in AcceptedTicks(records[v][a], k) :
               \A t \in AcceptedTicks(records[v][a], l) : s < t

\* An honest signature (the tick is the signer's clock) audited as of its
\* own tick is accepted by every verifier that knows its key, however many
\* rotations each of them has seen, unless its key rotated out in the very
\* tick of the signature.
HonestAudit ==
  \A sig \in signed : \A v \in Agents :
    LET own == records[sig.signer][sig.signer]
    IN  ( /\ sig.tick = sig.made
          /\ own[FindRecord(own, sig.key)].rotated_out # sig.made
          /\ Knows(v, sig.signer, sig.key) )
        => VerifyAsOf(v, sig, sig.signer, sig.tick)

\* identity.py:133 and :154, "own keys always private": the active record an
\* instance signs and rotates with has a private key.
OwnKeysPrivate == \A a \in Agents : ActiveRecord(records[a][a]).private

\* identity.py:291, "its current did:key identity record": resolve answers
\* with the newest key of the agent that the instance has learned.
ResolveCurrent ==
  \A v \in Agents, a \in Agents : \A k \in 0 .. count[a] :
    Knows(v, a, k) => Resolve(v, a) >= k

\* identity.py:262-264: with zero latency, the send tick being the receive
\* tick, an honest signature verifies at every instance that knows its key.
ZeroLatencyVerifies ==
  \A sig \in signed : \A v \in Agents :
    ( /\ sig.tick = sig.made
      /\ sig.tick = clock[v]
      /\ Knows(v, sig.signer, sig.key) ) => Verify(v, sig, sig.signer)

\* Once a verifier knows the successor of a key, its verdicts on that key
\* never change again, in whatever order and however often announcements
\* still arrive, unless the peer is registered anew (identity.py:217-220).
AuditStable ==
  [][\A v \in Agents, a \in Signers : \A k \in 0 .. count[a] :
       ( /\ Knows(v, a, k)
         /\ Knows(v, a, k + 1)
         /\ ~ \E n \in 0 .. count[a] : RegisterPeer(v, a, n) )
       => \A c, t \in Tick :
            Accepts(records[v][a], k, c, t) <=> Accepts(records[v][a], k, c, t)']_vars

\* Retrying makes up for an announcement that came too early and raised: a
\* verifier that knows one key of an agent learns the next one once it is
\* announced, and by induction every later one, whatever is redelivered or
\* reordered, unless the peer is registered anew meanwhile (identity.py:207-220).
CatchesUp ==
  \A v \in Agents, a \in Signers : \A n \in 1 .. MaxRotations :
    (Knows(v, a, n - 1) /\ \E ann \in announced[a] : ann.new = n)
      ~> (Knows(v, a, n) \/ ~Knows(v, a, n - 1))

\* The generations of identity.py's histories: what the own history says of
\* the issue ticks, and the interval of keys in each history.
issueOf == [a \in Agents |-> [i \in 1 .. count[a] + 1 |->
              records[a][a][FindRecord(records[a][a], i - 1)].issued_at]]

viewOf == [v \in Agents |-> [a \in Agents |->
             IF records[v][a] = <<>> THEN [lo |-> 1, hi |-> 0]
             ELSE [lo |-> records[v][a][1].key,
                   hi |-> Max({records[v][a][i].key : i \in DOMAIN records[v][a]})]]]

Abs == INSTANCE KeyGenerations WITH issue <- issueOf, view <- viewOf

\* The lists of records implement generations: a rotation moves the agent to
\* its next generation, an observed announcement extends an interval by one
\* or changes nothing, registering a peer starts an interval.
ImplementsGenerations == Abs!Spec

\* Every verdict of verify_as_of is the one the generations prescribe.
VerdictsAreGenerational ==
  \A v \in Agents, a \in Agents : \A k \in 0 .. MaxRotations : \A c, t \in Tick :
    Accepts(records[v][a], k, c, t) <=> Abs!Accepts(v, a, k, c, t)
-----------------------------------------------------------------------------
(* The inductive invariants behind KeysInTimeOrder and HonestAudit. *)

\* The tick each generation of a was issued at, read from its own history.
IssueTicks(a) ==
  [k \in 0 .. count[a] |-> records[a][a][FindRecord(records[a][a], k)].issued_at]

\* A history that knows an interval of the generations issued at I[0..n]: it
\* trusts the first one from tick 0, every later one from its issue, each
\* until the issue of the next one if it knows that one.
HistoryOK(recs, n, I) ==
  /\ recs[1].issued_at = 0
  /\ \A i \in DOMAIN recs : recs[1].key <= recs[i].key /\ recs[i].key <= n
  /\ \A i \in DOMAIN recs : \A k \in recs[1].key .. recs[i].key : Holds(recs, k)
  /\ \A k \in 0 .. n :
       Holds(recs, k) =>
         /\ k # recs[1].key => recs[FindRecord(recs, k)].issued_at = I[k]
         /\ recs[FindRecord(recs, k)].rotated_out = IF Holds(recs, k + 1) THEN I[k + 1] ELSE Inf

\* An agent's own history: every key since the first, issued in order and not
\* in its future; a private record that is open is the first of the newest key.
OwnHistoryOK(a) ==
  LET own == records[a][a]
  IN  /\ own # <<>>
      /\ own[1].key = 0
      /\ \A k \in 0 .. count[a] : Holds(own, k)
      /\ \A k \in 0 .. count[a] : IssueTicks(a)[k] <= clock[a]
      /\ \A k, l \in 0 .. count[a] : k <= l => IssueTicks(a)[k] <= IssueTicks(a)[l]
      /\ \A i \in DOMAIN own :
           own[i].private /\ own[i].rotated_out = Inf => i = FindRecord(own, count[a])

\* A rotation of a that did happen.
GenuineRotation(a, ann) ==
  /\ ann.new = ann.prev + 1
  /\ ann.new <= count[a]
  /\ ann.issued_at = IssueTicks(a)[ann.new]

\* Every history is one of generations of its agent, whoever keeps it and
\* whatever was delivered to it, and every announcement is of a rotation
\* that happened (identity.py:143-220).
IndInv ==
  /\ TypeOK
  /\ \A a \in Agents : OwnHistoryOK(a)
  /\ \A v, a \in Agents :
       records[v][a] # <<>> => HistoryOK(records[v][a], count[a], IssueTicks(a))
  /\ \A a \in Agents : last[a] # NoRotation => GenuineRotation(a, last[a])
  /\ \A a \in Agents : \A ann \in announced[a] : GenuineRotation(a, ann)

\* A signature made with the newest key its signer had at the time.
SignedInTime(sig) ==
  LET a == sig.signer
  IN  /\ sig.key <= count[a]
      /\ IssueTicks(a)[sig.key] <= sig.made
      /\ sig.made <= clock[a]
      /\ sig.key < count[a] => sig.made <= IssueTicks(a)[sig.key + 1]

\* IndInv, with every signature inside the closed window of its key, the
\* tick the key rotated out at included (identity.py:120-139).
AuditInv == IndInv /\ \A sig \in signed : SignedInTime(sig)
=============================================================================
