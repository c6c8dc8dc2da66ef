---------------------------- MODULE DidKeyProofs ----------------------------
(***************************************************************************)
(* Proofs about DidKeyIdentity: what instances know of an agent is one of  *)
(* its keys, or what a caller asserted of that agent.                      *)
(***************************************************************************)
EXTENDS DidKeyIdentity, TLAPS

\* The keys of an agent are keys, and its instances' own keys are among them.
LEMMA GenuineKeys ==
  ASSUME TypeOK
  PROVE  /\ \A a \in Agents : Genuine(a) \subseteq Keys /\ seed_for(a) \in Genuine(a)
         /\ \A i \in Instances : key[i] \in Genuine(owner[i])
BY DidKeyAssumption DEF TypeOK, Genuine, Sign, Keys, seed_for

\* Where a key of an agent may come from.
Vouched(a, k) == k \in Genuine(a) \/ <<a, k>> \in asserted

\* The inductive invariant: every key known of an agent is one of its keys,
\* or was asserted to be.
KnownVouched ==
  \A i \in Instances, a \in Agents : known[i][a] # Unknown => Vouched(a, known[i][a])

IInv == TypeOK /\ KnownVouched

\* Registering a key that is vouched for, perhaps by the registration itself,
\* keeps the invariant.
LEMMA RegisterKeeps ==
  ASSUME IInv,
         NEW i \in Instances, NEW a \in Agents, NEW k \in Keys,
         RegisterPeer(i, a, k),
         asserted \subseteq asserted', asserted' \subseteq Agents \X Keys,
         k \in Genuine(a) \/ <<a, k>> \in asserted'
  PROVE  IInv'
<1>1. k # Unknown
  BY DidKeyAssumption
<1>2. key' = key /\ known' = [known EXCEPT ![i] = [@ EXCEPT ![a] = k]]
  BY DEF RegisterPeer
<1>3. known \in [Instances -> [Agents -> Keys \cup {Unknown}]]
  BY DEF IInv, TypeOK
<1>4. \A j \in Instances, b \in Agents :
        known'[j][b] = IF j = i /\ b = a THEN k ELSE known[j][b]
  BY <1>2, <1>3
<1>5. \A b \in Agents : Genuine(b)' = Genuine(b)
  BY <1>2 DEF Genuine, Sign
<1>6. TypeOK'
  <2>1. known' \in [Instances -> [Agents -> Keys \cup {Unknown}]]
    BY <1>2, <1>3
  <2>2. \A j \in Instances : known'[j][owner[j]] # Unknown
    BY <1>1, <1>4, DidKeyAssumption DEF IInv, TypeOK
  <2> QED BY <1>2, <2>1, <2>2 DEF IInv, TypeOK
<1>7. KnownVouched'
  <2> SUFFICES ASSUME NEW j \in Instances, NEW b \in Agents, known'[j][b] # Unknown
               PROVE  known'[j][b] \in Genuine(b) \/ <<b, known'[j][b]>> \in asserted'
    BY <1>5 DEF KnownVouched, Vouched
  <2>1. CASE j = i /\ b = a
    BY <1>4, <2>1
  <2>2. CASE ~(j = i /\ b = a)
    BY <1>4, <2>2 DEF IInv, KnownVouched, Vouched
  <2> QED BY <2>1, <2>2
<1> QED BY <1>6, <1>7 DEF IInv

\* What an instance resolves for an agent is vouched for, as the agent's.
LEMMA ResolvedVouched ==
  ASSUME IInv, NEW i \in Instances, NEW a \in Agents
  PROVE  /\ Resolve(i, a).public_key \in Keys /\ Vouched(a, Resolve(i, a).public_key)
         /\ Resolve(i, a).did \in Keys /\ Resolve(i, a).did \in Genuine(a)
<1>1. seed_for(a) \in Genuine(a) /\ seed_for(a) \in Keys
  BY GenuineKeys DEF IInv
<1>2. known[i][a] # Unknown => known[i][a] \in Keys /\ Vouched(a, known[i][a])
  BY DEF IInv, TypeOK, KnownVouched
<1> QED BY <1>1, <1>2 DEF Resolve, did_for, Vouched

\* An instance knows its own key at the start.
LEMMA InitKeeps == Init => IInv
<1> SUFFICES ASSUME Init PROVE IInv
  OBVIOUS
<1>1. known = [i \in Instances |-> [a \in Agents |-> IF a = owner[i] THEN key[i] ELSE Unknown]]
  BY DEF Init
<1>2. key \in [Instances -> Keys]
  BY DEF Init
<1>3. TypeOK
  BY <1>1, <1>2, DidKeyAssumption DEF TypeOK, Init
<1>4. KnownVouched
  BY <1>1, <1>3, GenuineKeys DEF KnownVouched, Vouched
<1> QED BY <1>3, <1>4 DEF IInv

\* The invariant is inductive.
LEMMA NextKeeps == IInv /\ [Next]_vars => IInv'
<1> SUFFICES ASSUME IInv, [Next]_vars PROVE IInv'
  OBVIOUS
<1>1. ASSUME NEW i \in Instances, NEW j \in Instances, LearnKey(i, j) \/ LearnDid(i, j)
      PROVE  IInv'
  <2>1. owner[j] \in Agents /\ key[j] \in Genuine(owner[j]) /\ key[j] \in Keys
    BY GenuineKeys, DidKeyAssumption DEF IInv
  <2>2. asserted' = asserted /\ asserted \subseteq Agents \X Keys
    BY <1>1 DEF LearnKey, LearnDid, IInv, TypeOK
  <2> QED BY <1>1, <2>1, <2>2, RegisterKeeps DEF LearnKey, LearnDid, RegisterPeerDid
<1>2. ASSUME NEW i \in Instances, NEW j \in Instances, NEW a \in Agents,
             LearnResolvedKey(i, j, a) \/ LearnResolvedDid(i, j, a)
      PROVE  IInv'
  <2>1. asserted' = asserted /\ asserted \subseteq Agents \X Keys
    BY <1>2 DEF LearnResolvedKey, LearnResolvedDid, IInv, TypeOK
  <2> DEFINE k == Resolve(j, a).public_key
             d == Resolve(j, a).did
  <2>2. /\ k \in Keys /\ (k \in Genuine(a) \/ <<a, k>> \in asserted)
        /\ d \in Keys /\ d \in Genuine(a)
    BY ResolvedVouched DEF Vouched
  <2>3. RegisterPeer(i, a, k) \/ RegisterPeer(i, a, d)
    BY <1>2 DEF LearnResolvedKey, LearnResolvedDid, RegisterPeerDid
  <2> HIDE DEF k, d
  <2>4. CASE RegisterPeer(i, a, k)
    BY <2>1, <2>2, <2>4, RegisterKeeps
  <2>5. CASE RegisterPeer(i, a, d)
    BY <2>1, <2>2, <2>5, RegisterKeeps
  <2> QED BY <2>3, <2>4, <2>5
<1>3. ASSUME NEW i \in Instances, NEW a \in Agents, NEW k \in Keys,
             AssertKey(i, a, k) \/ AssertDid(i, a, k)
      PROVE  IInv'
  <2>1. asserted' = asserted \cup {<<a, k>>} /\ asserted \subseteq Agents \X Keys
    BY <1>3 DEF AssertKey, AssertDid, Assert, IInv, TypeOK
  <2>2. RegisterPeer(i, a, k)
    BY <1>3 DEF AssertKey, AssertDid, RegisterPeerDid
  <2>3. /\ asserted \subseteq asserted' /\ <<a, k>> \in asserted'
        /\ asserted' \subseteq Agents \X Keys
    BY <2>1
  <2> QED BY <2>2, <2>3, RegisterKeeps
<1>4. CASE UNCHANGED vars
  BY <1>4 DEF IInv, TypeOK, KnownVouched, Vouched, Genuine, Sign, vars
<1> QED BY <1>1, <1>2, <1>3, <1>4 DEF Next

\* Every key an instance holds of an agent is one of its keys or was asserted
\* of this agent, at every step.
THEOREM InvariantHolds == Spec => []IInv
BY InitKeeps, NextKeeps, PTL DEF Spec

\* Type correctness, and an instance never forgets its own agent (103-107).
THEOREM TypeCorrect == Spec => []TypeOK
<1>1. IInv => TypeOK
  BY DEF IInv
<1> QED BY <1>1, InvariantHolds, PTL

\* No impersonation but by a caller's word for it, for any agents, instances,
\* seeds and registrations (identity_didkey.py:141-203): an accepted signature
\* was made with a key of the agent, or one asserted of this very agent.
THEOREM NoImpersonation == Spec => []OnlyGenuineVerifies
<1>1. IInv => OnlyGenuineVerifies
  BY DEF IInv, KnownVouched, Vouched, OnlyGenuineVerifies, Verify
<1> QED BY <1>1, InvariantHolds, PTL

\* resolve's public key and did belong to one key, or the agent has another
\* seed and the public key is of it, or a caller asserted it (216-222).
THEOREM ResolvedTogetherHolds == Spec => []ResolvedTogether
<1>1. IInv => ResolvedTogether
  <2> SUFFICES ASSUME IInv, NEW i \in Instances, NEW a \in Agents
               PROVE  LET record == Resolve(i, a)
                      IN  \/ record.public_key = record.did
                          \/ ~Derived(a) /\ record.public_key \in Genuine(a)
                          \/ <<a, record.public_key>> \in asserted
    BY DEF ResolvedTogether
  <2>1. Vouched(a, Resolve(i, a).public_key)
    BY ResolvedVouched
  <2>2. Resolve(i, a).did = seed_for(a)
    BY DEF Resolve, did_for
  <2> QED BY <2>1, <2>2 DEF Derived, Vouched
<1> QED BY <1>1, InvariantHolds, PTL
=============================================================================
