------------------------ MODULE MCDiscoveryScenario ------------------------
(***************************************************************************)
(* DiscoveryScenario on a small instance: sm_bridge takes the scenario's   *)
(* cards and a seller's that offers nothing, and rejects a buyer's offer.  *)
(***************************************************************************)
EXTENDS DiscoveryScenario

MCConformant == {c \in Card : c.offers # {} => c.agent \in Sellers}
=============================================================================
