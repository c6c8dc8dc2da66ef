--------------------------- MODULE DidKeyIdentity ---------------------------
(***************************************************************************)
(* Ed25519DidKeyIdentity (src/nest_adapters/identity_didkey.py): instances *)
(* with a key pair of their own and the public keys they know of agents.   *)
(*                                                                         *)
(* A seed gives one key, and a did:key encodes one key, so that a seed, a  *)
(* public key and a did are one value here.  The seed derived from an      *)
(* agent's id is that agent's id.  An instance may be made with another    *)
(* seed, and an agent may have several instances.                          *)
(*                                                                         *)
(* Instances learn keys from one another: what one shows of itself, or     *)
(* what it resolves for an agent, another registers.  Callers also register*)
(* keys of their own choice: any key, for any agent, the instance's own    *)
(* too.                                                                    *)
(***************************************************************************)
EXTENDS Naturals, FiniteSets

CONSTANTS
  Agents, Instances,
  owner,       \* the agent each instance belongs to
  OtherSeeds,  \* the seeds that are passed in
  Unknown,     \* the None of a dict's get
  MaxAsserted  \* bound: what callers assert

Keys == Agents \cup OtherSeeds

ASSUME DidKeyAssumption ==
  /\ owner \in [Instances -> Agents]
  /\ Unknown \notin Keys
  /\ MaxAsserted \in Nat

VARIABLES
  key,      \* per instance: its key pair, fixed by __init__
  known,    \* _known_keys
  asserted  \* history: <<agent, key>>, the keys callers chose for agents

vars == <<key, known, asserted>>

seed_for(a) == a

did_for(a) == seed_for(a)

\* The values that key may have: the seed is derived unless it is passed in.
Seeds(i) == {seed_for(owner[i])} \cup OtherSeeds

Init_KnowsNobody ==
  /\ key \in [Instances -> Keys]
  /\ \A i \in Instances : key[i] \in Seeds(i)
  /\ known = [i \in Instances |-> [a \in Agents |-> Unknown]]
  /\ asserted = {}

Init ==
  /\ key \in [Instances -> Keys]
  /\ \A i \in Instances : key[i] \in Seeds(i)
  /\ known = [i \in Instances |-> [a \in Agents |-> IF a = owner[i] THEN key[i] ELSE Unknown]]
  /\ asserted = {}

-----------------------------------------------------------------------------
(* Queries. *)

Sign(i) == [signer |-> owner[i], with |-> key[i]]

Verify_AnyKnown(i, sig, a) ==
  sig.signer = a /\ \E b \in Agents : known[i][b] # Unknown /\ known[i][b] = sig.with

\* verify: of a signature with the payload it was made for.
Verify(i, sig, a) ==
  /\ sig.signer = a
  /\ known[i][a] # Unknown
  /\ known[i][a] = sig.with

Resolve_OwnFallback(i, a) ==
  [public_key |-> IF known[i][a] = Unknown THEN seed_for(owner[i]) ELSE known[i][a],
   did        |-> did_for(a)]

\* resolve: the derived key stands in for an unknown one.
Resolve(i, a) ==
  [public_key |-> IF known[i][a] = Unknown THEN seed_for(a) ELSE known[i][a],
   did        |-> did_for(a)]

-----------------------------------------------------------------------------
(* The calls that change state. *)

\* register_peer, of a public key of the right length and no private one.
RegisterPeer(i, a, public_key) ==
  /\ known' = [known EXCEPT ![i] = [@ EXCEPT ![a] = public_key]]
  /\ UNCHANGED key

\* register_peer_did: of the key that the did encodes.
RegisterPeerDid(i, a, did) == RegisterPeer(i, a, did)

\* What instance j shows of itself, or answers about agent a, reaches i.
LearnKey(i, j) == RegisterPeer(i, owner[j], key[j]) /\ UNCHANGED asserted

LearnDid(i, j) == RegisterPeerDid(i, owner[j], key[j]) /\ UNCHANGED asserted

LearnResolvedKey(i, j, a) == RegisterPeer(i, a, Resolve(j, a).public_key) /\ UNCHANGED asserted

LearnResolvedDid(i, j, a) == RegisterPeerDid(i, a, Resolve(j, a).did) /\ UNCHANGED asserted

\* A caller asserts that k is a key of agent a: no call asks for a proof.
Assert(a, k) ==
  /\ asserted' = asserted \cup {<<a, k>>}
  /\ Cardinality(asserted') <= MaxAsserted

AssertKey(i, a, k) == RegisterPeer(i, a, k) /\ Assert(a, k)

AssertDid(i, a, did) == RegisterPeerDid(i, a, did) /\ Assert(a, did)

Next ==
  \E i \in Instances :
    \/ \E j \in Instances :
         \/ LearnKey(i, j)
         \/ LearnDid(i, j)
         \/ \E a \in Agents : LearnResolvedKey(i, j, a) \/ LearnResolvedDid(i, j, a)
    \/ \E a \in Agents, k \in Keys : AssertKey(i, a, k) \/ AssertDid(i, a, k)

Spec == Init /\ [][Next]_vars

-----------------------------------------------------------------------------
(* Properties. *)

\* The keys an agent signs with: the derived one and its instances'.
Genuine(a) == {seed_for(a)} \cup {Sign(i).with : i \in {j \in Instances : Sign(j).signer = a}}

\* No instance of the agent was made with another seed.
Derived(a) == Genuine(a) = {seed_for(a)}

\* Every variable has its type, and an instance knows a key of its agent.
TypeOK ==
  /\ key \in [Instances -> Keys]
  /\ known \in [Instances -> [Agents -> Keys \cup {Unknown}]]
  /\ asserted \subseteq Agents \X Keys
  /\ \A i \in Instances : known[i][owner[i]] # Unknown

\* No impersonation but by a caller's word for it (identity_didkey.py:141-203):
\* whatever instances learned from one another, directly, through others or
\* about agents nobody has seen, and whatever keys callers asserted of other
\* agents, a signature is accepted as an agent's only if it was made with the
\* agent's derived key, with that of one of its instances, or with one that a
\* caller asserted to be this agent's.
OnlyGenuineVerifies ==
  \A i \in Instances, a \in Agents, k \in Keys :
    Verify(i, [signer |-> a, with |-> k], a) => k \in Genuine(a) \/ <<a, k>> \in asserted

\* resolve joins a public key from the registrations and a did derived from
\* the id (216-222).  The two belong to one key, at every instance, unless
\* the agent has an instance with another seed and the key is its, or a
\* caller asserted the key of this very agent.
ResolvedTogether ==
  \A i \in Instances, a \in Agents :
    LET record == Resolve(i, a)
    IN  \/ record.public_key = record.did
        \/ ~Derived(a) /\ record.public_key \in Genuine(a)
        \/ <<a, record.public_key>> \in asserted
=============================================================================
