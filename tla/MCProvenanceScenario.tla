----------------------- MODULE MCProvenanceScenario -----------------------
(***************************************************************************)
(* ProvenanceScenario on a ring of two agents.                             *)
(***************************************************************************)
EXTENDS ProvenanceScenario

MCPeer == [a \in Agents |-> CHOOSE b \in Agents : b # a]
=============================================================================
