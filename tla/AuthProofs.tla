----------------------------- MODULE AuthProofs -----------------------------
(***************************************************************************)
(* Proofs about DidAuth and the handshakes over it, for every set of       *)
(* instances, subjects and scope lists, every clock and every _TTL:        *)
(* instances agree on the tokens issued, and a token that was revoked      *)
(* before an agent granted it is never granted by that agent.              *)
(***************************************************************************)
EXTENDS AuthHandshake, TLAPS

\* A token that was issued expires _TTL after its issue, and no clock moves.
AuthInv ==
  /\ clock \in [Instances -> 0 .. MaxClock]
  /\ revoked \in [Instances -> SUBSET issued]
  /\ \A token \in issued : token.iat \in 0 .. MaxClock /\ token.exp = token.iat + TTL

\* No token is issued at the start.
LEMMA InitEstablishes == Init => AuthInv
  BY DEF Init, AuthInv

\* What issue builds expires TTL after its clock (auth_didkey.py:69-88).
LEMMA IssueKeeps ==
  ASSUME AuthInv, NEW i \in Instances, NEW sub, NEW scopes, Issue(i, sub, scopes)
  PROVE  AuthInv'
<1> DEFINE token == TokenFor(clock[i], sub, scopes)
<1>1. token.iat = clock[i] /\ token.exp = clock[i] + TTL
  BY DEF TokenFor
<1>2. /\ issued' = issued \cup {token}
      /\ UNCHANGED <<clock, revoked>>
      /\ clock[i] \in 0 .. MaxClock
  BY DEF Issue, AuthInv
<1> HIDE DEF token
<1>3. QED
  BY <1>1, <1>2 DEF AuthInv

\* Only issued tokens are revoked.
LEMMA RevokeKeeps ==
  ASSUME AuthInv, NEW i \in Instances, NEW token \in issued, Revoke(i, token)
  PROVE  AuthInv'
  BY DEF Revoke, AuthInv

\* The invariant is inductive.
LEMMA NextKeeps == AuthInv /\ [Next]_vars => AuthInv'
<1> SUFFICES ASSUME AuthInv, [Next]_vars PROVE AuthInv'
  OBVIOUS
<1>1. CASE UNCHANGED vars
  BY <1>1 DEF vars, AuthInv
<1>2. CASE \E i \in Instances, sub \in Subjects, scopes \in ScopeLists : Issue(i, sub, scopes)
  BY <1>2, IssueKeeps
<1>3. CASE \E i \in Instances : \E token \in issued : Revoke(i, token)
  BY <1>3, RevokeKeeps
<1>4. QED
  BY <1>1, <1>2, <1>3 DEF Next

\* Instances that share no state agree on every token issued: the one with the
\* earlier clock verifies all that the other verifies, and a token verifies
\* until _TTL after its issue, but for what was revoked (auth_didkey.py:132).
THEOREM InstancesDoAgree == Spec => []InstancesAgree
<1>1. AuthInv => InstancesAgree
  <2> SUFFICES ASSUME AuthInv, NEW token \in issued, NEW i \in Instances, token \notin revoked[i]
               PROVE  /\ \A j \in Instances :
                           clock[i] <= clock[j] /\ VerifiesAt(j, token) => VerifiesAt(i, token)
                      /\ clock[i] <= token.iat + TTL => VerifiesAt(i, token)
    BY DEF InstancesAgree
  <2>1. /\ token.iat \in Nat /\ TTL \in Nat /\ token.exp = token.iat + TTL
        /\ \A j \in Instances : clock[j] \in Nat
    BY AuthAssumption DEF AuthInv
  <2>2. QED
    BY <2>1 DEF VerifiesAt, Verifies
<1>2. QED
  BY <1>1, InitEstablishes, NextKeeps, PTL DEF Spec

-----------------------------------------------------------------------------

\* The scenario uses the instances as others do (auth_handshake.py:45-81).
LEMMA StepOfScenario ==
  ASSUME [ScenarioNext]_allvars
  PROVE  [Next]_vars
<1>1. CASE UNCHANGED allvars
  BY <1>1 DEF allvars
<1>2. ASSUME NEW a \in Subjects, OnStart(a) \/ Receive(a) \/ Lose(a)
      PROVE  [Next]_vars
  BY <1>2, HandshakeAssumption DEF OnStart, Receive, Lose, OnMessage, Next
<1>3. CASE \E i \in Instances, sub \in Subjects, scopes \in ScopeLists : OtherIssues(i, sub, scopes)
  BY <1>3 DEF OtherIssues, Next
<1>4. CASE \E i \in Instances : \E token \in issued : OtherRevokes(i, token)
  BY <1>4 DEF OtherRevokes, Next
<1>5. CASE \E b \in Subjects : \E token \in issued : OtherPresents(b, token)
  BY <1>5 DEF OtherPresents, OnMessage
<1>6. QED
  BY <1>1, <1>2, <1>3, <1>4, <1>5 DEF ScenarioNext

\* The scenario and its environment behave as callers of DidAuth do
\* (auth_handshake.py:45-81): what is proved of Spec holds of the scenario.
THEOREM HandshakesUseAuth == ScenarioSpec => Spec
<1>1. ScenarioInit => Init
  BY DEF ScenarioInit
<1>2. [ScenarioNext]_allvars => [Next]_vars
  BY StepOfScenario
<1>3. QED
  BY <1>1, <1>2, PTL DEF ScenarioSpec, Spec

\* The clocks stand still, and what is revoked stays revoked.
LEMMA RevocationsStay ==
  ASSUME AuthInv, [Next]_vars
  PROVE  clock' = clock /\ revoked[Shared] \subseteq revoked'[Shared]
<1>1. CASE UNCHANGED vars
  BY <1>1 DEF vars
<1>2. CASE \E i \in Instances, sub \in Subjects, scopes \in ScopeLists : Issue(i, sub, scopes)
  BY <1>2 DEF Issue
<1>3. CASE \E i \in Instances : \E token \in issued : Revoke(i, token)
  BY <1>3, HandshakeAssumption DEF Revoke, AuthInv
<1>4. QED
  BY <1>1, <1>2, <1>3 DEF Next

\* A reply is sent only for a token that is not revoked at the shared instance.
LEMMA GrantsAreUnrevoked ==
  ASSUME [ScenarioNext]_allvars, NEW grant \in granted' \ granted
  PROVE  grant.token \notin revoked[Shared]
<1>1. ASSUME NEW b, NEW token, OnMessage(b, token)
      PROVE  grant.token \notin revoked[Shared]
  <2>1. grant = [by |-> b, token |-> token] /\ VerifiesAt(Shared, token)
    BY <1>1 DEF OnMessage
  <2>2. grant.token = token
    BY <2>1
  <2>3. QED
    BY <2>1, <2>2 DEF VerifiesAt, Verifies
<1>2. granted' # granted
  OBVIOUS
<1>3. CASE \E a \in Subjects : OnStart(a) \/ Receive(a) \/ Lose(a)
  BY <1>1, <1>2, <1>3 DEF OnStart, Receive, Lose
<1>4. CASE \E b \in Subjects : \E token \in issued : OtherPresents(b, token)
  BY <1>1, <1>4 DEF OtherPresents
<1>5. QED
  BY <1>2, <1>3, <1>4 DEF ScenarioNext, allvars, scenario, OtherIssues, OtherRevokes

\* A revocation that overtakes a token stops it for good: an agent that had
\* not granted it by then never does (auth_handshake.py:75-78).
THEOREM RevocationStopsGrants == ScenarioSpec => RevokedIsNotGranted
<1> SUFFICES ASSUME NEW a \in Subjects, NEW b \in Subjects
             PROVE  ScenarioSpec =>
                      [](OwnToken(a) \in revoked[Shared]
                           /\ [by |-> b, token |-> OwnToken(a)] \notin granted
                         => []([by |-> b, token |-> OwnToken(a)] \notin granted))
  BY DEF RevokedIsNotGranted
<1> DEFINE Stopped == /\ OwnToken(a) \in revoked[Shared]
                      /\ [by |-> b, token |-> OwnToken(a)] \notin granted
<1>1. AuthInv /\ Stopped /\ [ScenarioNext]_allvars => Stopped'
  <2> SUFFICES ASSUME AuthInv, Stopped, [ScenarioNext]_allvars PROVE Stopped'
    OBVIOUS
  <2>1. clock' = clock /\ revoked[Shared] \subseteq revoked'[Shared]
    BY StepOfScenario, RevocationsStay
  <2>2. OwnToken(a)' = OwnToken(a)
    BY <2>1 DEF OwnToken
  <2>3. [by |-> b, token |-> OwnToken(a)] \notin granted'
    BY GrantsAreUnrevoked
  <2>4. QED
    BY <2>1, <2>2, <2>3
<1>2. ScenarioSpec => []AuthInv
  BY HandshakesUseAuth, InitEstablishes, NextKeeps, PTL DEF Spec
<1>3. QED
  BY <1>1, <1>2, PTL DEF ScenarioSpec
=============================================================================
