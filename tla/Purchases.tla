----------------------------- MODULE Purchases -----------------------------
(***************************************************************************)
(* What a marketplace promises: a buyer's round covers the sellers it      *)
(* found; each of them is bought from at most once; a round that breaks    *)
(* off leaves whole purchases behind and nothing else, and nothing is      *)
(* bought outside a round.                                                 *)
(***************************************************************************)
EXTENDS FiniteSets

CONSTANTS Buyers, Sellers

VARIABLES
  stage,    \* per buyer: "waiting", "buying", "complete", "broken"
  found,    \* per buyer: the sellers its round is to cover
  bought    \* the purchases, pairs of a buyer and a seller

vars == <<stage, found, bought>>

BoughtBy(b) == {s \in Sellers : <<b, s>> \in bought}

Init ==
  /\ stage = [b \in Buyers |-> "waiting"]
  /\ found = [b \in Buyers |-> {}]
  /\ bought = {}

Begin(b, S) ==
  /\ stage[b] = "waiting"
  /\ stage' = [stage EXCEPT ![b] = IF S = {} THEN "complete" ELSE "buying"]
  /\ found' = [found EXCEPT ![b] = S]
  /\ UNCHANGED bought

\* The round is complete with the last purchase.
Buy(b, s) ==
  /\ stage[b] = "buying"
  /\ s \in found[b] \ BoughtBy(b)
  /\ bought' = bought \cup {<<b, s>>}
  /\ stage' = [stage EXCEPT ![b] = IF BoughtBy(b)' = found[b] THEN "complete" ELSE @]
  /\ UNCHANGED found

Break(b) ==
  /\ stage[b] = "buying"
  /\ stage' = [stage EXCEPT ![b] = "broken"]
  /\ UNCHANGED <<found, bought>>

Next ==
  \/ \E b \in Buyers, S \in SUBSET Sellers : Begin(b, S)
  \/ \E b \in Buyers, s \in Sellers : Buy(b, s)
  \/ \E b \in Buyers : Break(b)

Spec == Init /\ [][Next]_vars
=============================================================================
