-------------------------- MODULE MCDidKeyIdentity --------------------------
(***************************************************************************)
(* DidKeyIdentity with an agent that has two instances, one that has one,  *)
(* and one that has none.                                                  *)
(***************************************************************************)
EXTENDS DidKeyIdentity

CONSTANTS alice, bob, carol, i1, i2, i3

MCOwner == [i \in {i1, i2, i3} |-> IF i = i3 THEN bob ELSE alice]
=============================================================================
