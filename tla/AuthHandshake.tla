--------------------------- MODULE AuthHandshake ---------------------------
(***************************************************************************)
(* The auth_handshake scenario (src/nest_adapters/scenarios_builtin/       *)
(* auth_handshake.py): agents on a ring that share one instance of the     *)
(* auth layer.  Each issues a token for itself and sends it to the next    *)
(* agent, which verifies it and replies to the token's subject.            *)
(*                                                                         *)
(* The transport may lose a token (failures.message_drop); nobody sends it *)
(* again.  Others issue and revoke tokens, at the shared instance or at    *)
(* one of their own, and present them to the agents.                       *)
(***************************************************************************)
EXTENDS DidAuth

CONSTANTS
  Shared,     \* the instance that the scenario's agents share
  Peer,       \* per agent: the next one on the ring
  Scope,      \* _SCOPE
  MaxIssued   \* bound: tokens in circulation

ASSUME HandshakeAssumption ==
  /\ Shared \in Instances
  /\ Peer \in [Subjects -> Subjects]
  /\ {Scope} \in ScopeLists
  /\ MaxIssued \in Nat

VARIABLES
  step,     \* per agent: "new", or its token is "presented", "received", "lost"
  granted   \* the replies sent: by whom, for which token

scenario == <<step, granted>>

allvars == <<vars, scenario>>

\* The token that on_start issues for an agent.
OwnToken(a) == TokenFor(clock[Shared], a, {Scope})

\* The factory makes the shared instance with the default clock.
ScenarioInit ==
  /\ Init
  /\ clock[Shared] = 0
  /\ step = [a \in Subjects |-> "new"]
  /\ granted = {}

\* on_start: issue a token for oneself and send it to the peer.
OnStart(a) ==
  /\ step[a] = "new"
  /\ Issue(Shared, a, {Scope})
  /\ step' = [step EXCEPT ![a] = "presented"]
  /\ UNCHANGED granted

\* on_message of agent b: the subject of a token that verifies and carries
\* the scope gets a reply; any other token is passed over.
OnMessage(b, token) ==
  /\ granted' = IF VerifiesAt(Shared, token) /\ Scope \in token.scopes
                THEN granted \cup {[by |-> b, token |-> token]}
                ELSE granted
  /\ UNCHANGED vars

Receive(a) ==
  /\ step[a] = "presented"
  /\ OnMessage(Peer[a], OwnToken(a))
  /\ step' = [step EXCEPT ![a] = "received"]

Lose(a) ==
  /\ step[a] = "presented"
  /\ step' = [step EXCEPT ![a] = "lost"]
  /\ UNCHANGED <<vars, granted>>

OtherIssues(i, sub, scopes) ==
  /\ Cardinality(issued \cup {OwnToken(a) : a \in Subjects}
                        \cup {TokenFor(clock[i], sub, scopes)}) <= MaxIssued
  /\ Issue(i, sub, scopes)
  /\ UNCHANGED scenario

OtherRevokes(i, token) == Revoke(i, token) /\ UNCHANGED scenario

OtherPresents(b, token) == OnMessage(b, token) /\ UNCHANGED step

ScenarioNext ==
  \/ \E a \in Subjects : OnStart(a) \/ Receive(a) \/ Lose(a)
  \/ \E i \in Instances, sub \in Subjects, scopes \in ScopeLists : OtherIssues(i, sub, scopes)
  \/ \E i \in Instances : \E token \in issued : OtherRevokes(i, token)
  \/ \E b \in Subjects : \E token \in issued : OtherPresents(b, token)

ScenarioSpec == ScenarioInit /\ [][ScenarioNext]_allvars

\* The simulator starts every agent and delivers what it does not lose.
ScenarioFairSpec ==
  ScenarioSpec /\ \A a \in Subjects : WF_allvars(OnStart(a)) /\ WF_allvars(Receive(a) \/ Lose(a))

-----------------------------------------------------------------------------
(* Properties. *)

\* A revocation that overtakes a token stops it for good (auth_handshake.py:
\* 75-78): an agent that had not granted it by then never does, although an
\* equal token may be issued and presented again.
RevokedIsNotGranted ==
  \A a, b \in Subjects :
    LET grant == [by |-> b, token |-> OwnToken(a)]
    IN  [](OwnToken(a) \in revoked[Shared] /\ grant \notin granted => [](grant \notin granted))

\* Each handshake comes to an end (45-81): the peer grants the token unless
\* it was lost or revoked at the instance they share; what is revoked at
\* another instance does not stop it.
HandshakesComplete ==
  \A a \in Subjects :
    <>(\/ [by |-> Peer[a], token |-> OwnToken(a)] \in granted
       \/ step[a] = "lost"
       \/ OwnToken(a) \in revoked[Shared])
=============================================================================
