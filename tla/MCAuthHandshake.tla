-------------------------- MODULE MCAuthHandshake --------------------------
(***************************************************************************)
(* AuthHandshake on a ring of two agents.                                  *)
(***************************************************************************)
EXTENDS AuthHandshake

MCPeer == [a \in Subjects |-> CHOOSE b \in Subjects : b # a]
=============================================================================
