----------------------------- MODULE KeyWindows -----------------------------
(***************************************************************************)
(* The key histories of src/nest_adapters/identity.py: the list of         *)
(* _KeyRecord an identity keeps for one agent, and what the methods of     *)
(* Ed25519RotatingIdentity read from it and write to it.                   *)
(*                                                                         *)
(* A key is the rotation count it was derived at (derive_signing_key is    *)
(* injective in that count for one agent and seed, and key_id_for is a     *)
(* hash of the public key), so it stands for the key pair, the public key  *)
(* and the key id together.  A tick is a natural number; Inf is the        *)
(* float("inf") of an open window, larger than every tick.                 *)
(***************************************************************************)
EXTENDS Naturals, Sequences, SequencesExt

CONSTANT MaxTick            \* bound: the last tick of logical time

ASSUME MaxTickAssumption == MaxTick \in Nat

Tick == 0 .. MaxTick
Inf  == MaxTick + 1

KeyRecord ==
  [key : Nat, issued_at : Tick, rotated_out : Tick \cup {Inf}, private : BOOLEAN]

\* What rotation_announcement serialises.  The continuity signature is made
\* by prev over new; it verifies under exactly the record of prev.
Announcement == [prev : Nat, new : Nat, issued_at : Tick]

NewRecord(k, t, p) ==
  [key |-> k, issued_at |-> t, rotated_out |-> Inf, private |-> p]

-----------------------------------------------------------------------------
(* Reading a history. *)

FindRecord_LastMatch(recs, k) ==
  SelectLastInSeq(recs, LAMBDA r : r.key = k)

\* The index of the first record of key k, 0 when there is none.
FindRecord(recs, k) == SelectInSeq(recs, LAMBDA r : r.key = k)

Holds(recs, k) == FindRecord(recs, k) # 0

ActiveIndex_First(recs) == 1

\* _active_record: the first record whose window is open, else the last one.
ActiveIndex(recs) ==
  LET i == SelectInSeq(recs, LAMBDA r : r.rotated_out = Inf)
  IN  IF i # 0 THEN i ELSE Len(recs)

ActiveRecord(recs) == recs[ActiveIndex(recs)]

Within_ClosedWindow(r, t) == r.issued_at <= t /\ t <= r.rotated_out

Within_NoIssueBound(r, t) == t < r.rotated_out

\* The half-open window [issued_at, rotated_out) of a record.
Within(r, t) == r.issued_at <= t /\ t < r.rotated_out

\* verify_as_of on a genuine signature of key k: the key is known, the
\* claimed tick (check A) and the observation tick (check B) are in its window.
Accepts(recs, k, claimed, as_of) ==
  /\ Holds(recs, k)
  /\ Within(recs[FindRecord(recs, k)], claimed)
  /\ Within(recs[FindRecord(recs, k)], as_of)

\* The ticks a genuine signature of key k is accepted at, or claimed for.
AcceptedTicks(recs, k) ==
  {t \in Tick : \E s \in Tick : Accepts(recs, k, s, t) \/ Accepts(recs, k, t, s)}

-----------------------------------------------------------------------------
(* Writing a history. *)

CloseAt(recs, i, t) == [recs EXCEPT ![i].rotated_out = t]

RotateHistory_PublicOnly(recs, k, t) ==
  Append(CloseAt(recs, ActiveIndex(recs), t), NewRecord(k, t, FALSE))

\* rotate_key at tick t: close the active record, append the new key.
RotateHistory(recs, k, t) ==
  Append(CloseAt(recs, ActiveIndex(recs), t), NewRecord(k, t, TRUE))

LearnHistory_NoClose(recs, ann) ==
  IF Holds(recs, ann.prev)
  THEN Append(recs, NewRecord(ann.new, ann.issued_at, FALSE))
  ELSE recs

LearnHistory_NoContinuity(recs, ann) ==
  Append(IF Holds(recs, ann.prev)
         THEN CloseAt(recs, FindRecord(recs, ann.prev), ann.issued_at) ELSE recs,
         NewRecord(ann.new, ann.issued_at, FALSE))

\* observe_rotation: an announcement whose prior key is unknown raises and
\* changes nothing; any other one closes the prior key's window and appends
\* a public record of the new key, also when the new key is already there.
LearnHistory(recs, ann) ==
  IF Holds(recs, ann.prev)
  THEN Append(CloseAt(recs, FindRecord(recs, ann.prev), ann.issued_at),
              NewRecord(ann.new, ann.issued_at, FALSE))
  ELSE recs
=============================================================================
