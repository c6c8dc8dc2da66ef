------------------------------ MODULE DidAuth ------------------------------
(***************************************************************************)
(* DidAuth (src/nest_adapters/auth_didkey.py): instances, each with the    *)
(* clock it was made with and the set of token strings it was asked to     *)
(* revoke, that issue tokens and verify one another's.                     *)
(*                                                                         *)
(* A token string is a function of the subject, the scopes and the         *)
(* issuer's clock (JSON with sorted keys, a deterministic Ed25519          *)
(* signature), so two tokens are the same string exactly when these are    *)
(* equal, whoever issued them.  The subject's did and the signature follow *)
(* from the subject; every token here comes from issue.                    *)
(***************************************************************************)
EXTENDS Naturals, FiniteSets

CONSTANTS
  Instances, Subjects,
  ScopeLists,   \* the scope lists callers ask for
  MaxClock,     \* bound: the clocks of the instances
  TTL           \* _TTL

ASSUME AuthAssumption == MaxClock \in Nat /\ TTL \in Nat

VARIABLES
  clock,    \* _clock, set by __init__ only
  revoked,  \* _revoked
  issued    \* history: the tokens handed out so far

vars == <<clock, revoked, issued>>

Token == [sub : Subjects, scopes : ScopeLists, iat : 0 .. MaxClock, exp : 0 .. MaxClock + TTL]

TokenFor(now, sub, scopes) == [sub |-> sub, scopes |-> scopes, iat |-> now, exp |-> now + TTL]

Verifies_ExclusiveExpiry(now, gone, token) == token \notin gone /\ now < token.exp

\* verify, of an issued token, at an instance with clock now and revoked set
\* gone: it is not revoked there and its expiry is not before the clock.
Verifies(now, gone, token) == token \notin gone /\ ~(token.exp < now)

VerifiesAt_RevokedAnywhere(i, token) ==
  Verifies(clock[i], UNION {revoked[j] : j \in Instances}, token)

VerifiesAt(i, token) == Verifies(clock[i], revoked[i], token)

Init ==
  /\ clock \in [Instances -> 0 .. MaxClock]
  /\ revoked = [i \in Instances |-> {}]
  /\ issued = {}

Issue_Reinstates(i, sub, scopes) ==
  LET token == TokenFor(clock[i], sub, scopes)
  IN  /\ issued' = issued \cup {token}
      /\ revoked' = [revoked EXCEPT ![i] = @ \ {token}]
      /\ UNCHANGED clock

\* issue: no state of the instance changes.
Issue(i, sub, scopes) ==
  LET token == TokenFor(clock[i], sub, scopes)
  IN  /\ issued' = issued \cup {token}
      /\ UNCHANGED <<clock, revoked>>

\* revoke: this instance only.
Revoke(i, token) ==
  /\ revoked' = [revoked EXCEPT ![i] = @ \cup {token}]
  /\ UNCHANGED <<clock, issued>>

Next ==
  \/ \E i \in Instances, sub \in Subjects, scopes \in ScopeLists : Issue(i, sub, scopes)
  \/ \E i \in Instances : \E token \in issued : Revoke(i, token)

Spec == Init /\ [][Next]_vars

-----------------------------------------------------------------------------
(* Properties. *)

\* Instances share no state (test_auth_didkey.py:42-46) and still agree: of
\* two, the one with the earlier clock verifies all that the other verifies,
\* but for what was revoked at it; and an unrevoked token verifies as long
\* after its issue as _TTL says, the last tick included (132).
InstancesAgree ==
  \A token \in issued : \A i \in Instances :
    token \notin revoked[i] =>
      /\ \A j \in Instances :
           clock[i] <= clock[j] /\ VerifiesAt(j, token) => VerifiesAt(i, token)
      /\ clock[i] <= token.iat + TTL => VerifiesAt(i, token)
=============================================================================
