---------------------------- MODULE Marketplace ----------------------------
(***************************************************************************)
(* The sm_marketplace scenario (src/nest_adapters/scenarios_builtin/       *)
(* sm_marketplace.py) over one shared SmBridgeRegistry, one ArpDataFacts   *)
(* and one AgentReceiptsTrust: sellers list themselves and publish, and    *)
(* each buyer goes through the sellers it looks up, fetching, asking for   *)
(* access and crediting in turn.                                           *)
(*                                                                         *)
(* The layers' coroutines never wait, so that a buyer gives way to others  *)
(* only where it sends a confirmation: a purchase is one step, and between *)
(* two of them sellers may edit the metadata objects they published, which *)
(* the layer keeps by reference, and publish them again.                   *)
(***************************************************************************)
EXTENDS Naturals, Sequences, FiniteSets

CONSTANTS
  Sellers, Buyers,
  Bodies, FirstBody,
  Nothing,
  MaxEdits      \* bound: edits of metadata objects

ASSUME MarketAssumption ==
  /\ Sellers \cap Buyers = {}
  /\ IsFiniteSet(Buyers)
  /\ FirstBody \in Bodies
  /\ MaxEdits \in Nat

VARIABLES
  cards, log,                                                      \* registry
  heap, datasets, provenance, commit, grants, grant_receipts,      \* datasets
  ledger,                                                          \* trust
  started,    \* the sellers whose on_start has run
  stage,      \* per buyer: "waiting", "buying", "complete", "broken"
  found,      \* per buyer: the sellers its lookup returned
  todo,       \* per buyer: those of them its loop has not visited
  confirmed,  \* the confirmations sent, <<buyer, seller>>
  edits       \* how many edits there were

registry  == <<cards, log>>
datafacts == <<heap, datasets, provenance, commit, grants, grant_receipts>>
rounds    == <<stage, found, todo, confirmed>>
vars == <<registry, datafacts, ledger, started, rounds, edits>>

Offer == "sell_data"

CardOf(s) == [agent |-> s, offers |-> {Offer}]

\* The shared layers.  sm_bridge takes the sellers' cards, nobody subscribes
\* to this registry, and every report is a receipt.  The datasets go by the
\* names of their sellers.
R == INSTANCE SmBridgeRegistry WITH
       Agents <- Sellers, Features <- {Offer}, Subscribers <- {},
       Conformant <- {CardOf(s) : s \in Sellers},
       MaxRegistrations <- Cardinality(Sellers),
       subscribers <- {}, queue <- <<>>, phase <- <<>>, query <- <<>>,
       since <- <<>>, out <- <<>>

D == INSTANCE ArpDataFacts WITH
       Names <- Sellers, Owners <- Sellers, Objects <- Sellers,
       Requesters <- Buyers, MaxGrants <- Cardinality(Buyers),
       issued <- provenance  \* no caller keeps the receipts

T == INSTANCE ReceiptsTrust WITH
       Agents <- Sellers \cup Buyers, MinRings <- {2, 3},
       MaxCount <- Cardinality(Buyers),
       fallback <- [a \in Sellers \cup Buyers |-> [h \in 0 .. 2 |-> 0]],
       stakes <- [a \in Sellers \cup Buyers |-> 0]

\* make_corroborated_receipt(seller, buyer).
Credit(s, b) == [principal |-> s, counterparty |-> b, witnessed |-> TRUE]

Init ==
  /\ R!Init
  /\ D!Init
  /\ heap = [s \in Sellers |-> [name |-> s, owner |-> s, body |-> FirstBody]]
  /\ T!TrustInit
  /\ started = {}
  /\ stage = [b \in Buyers |-> "waiting"]
  /\ found = [b \in Buyers |-> {}]
  /\ todo = [b \in Buyers |-> {}]
  /\ confirmed = {}
  /\ edits = 0

-----------------------------------------------------------------------------
(* Handlers. *)

SellerStart_Unpublished(s) ==
  /\ s \notin started
  /\ started' = started \cup {s}
  /\ R!Register(CardOf(s))
  /\ UNCHANGED <<datafacts, ledger, rounds, edits>>

\* SellerAgent.on_start: register, then publish.
SellerStart(s) ==
  /\ s \notin started
  /\ started' = started \cup {s}
  /\ R!Register(CardOf(s))
  /\ D!Publish(s)
  /\ UNCHANGED <<ledger, rounds, edits>>

\* BuyerAgent.on_message for the signal it scheduled, which is due once every
\* agent has started: look the sellers up.
Transact(b) ==
  /\ stage[b] = "waiting"
  /\ started = Sellers
  /\ LET sellers == {c.agent : c \in R!Lookup({Offer})}
     IN  /\ found' = [found EXCEPT ![b] = sellers]
         /\ todo' = [todo EXCEPT ![b] = sellers]
         /\ stage' = [stage EXCEPT ![b] = IF sellers = {} THEN "complete" ELSE "buying"]
  /\ UNCHANGED <<registry, datafacts, ledger, started, confirmed, edits>>

Purchase_CreditsBuyer(b, s) ==
  /\ stage[b] = "buying"
  /\ s \in todo[b]
  /\ D!Fetch(s) = "served"
  /\ D!RequestAccess(s, b)
  /\ T!ReportReceipt(Credit(b, s))
  /\ confirmed' = confirmed \cup {<<b, s>>}
  /\ todo' = [todo EXCEPT ![b] = @ \ {s}]
  /\ stage' = [stage EXCEPT ![b] = IF todo'[b] = {} THEN "complete" ELSE @]
  /\ UNCHANGED <<registry, started, found, edits>>

\* One turn of the loop: fetch, request access, credit the seller, confirm.
\* The loop follows the registry's dictionary; here it may take any order.
Purchase(b, s) ==
  /\ stage[b] = "buying"
  /\ s \in todo[b]
  /\ D!Fetch(s) = "served"
  /\ D!RequestAccess(s, b)
  /\ T!ReportReceipt(Credit(s, b))
  /\ confirmed' = confirmed \cup {<<b, s>>}
  /\ todo' = [todo EXCEPT ![b] = @ \ {s}]
  /\ stage' = [stage EXCEPT ![b] = IF todo'[b] = {} THEN "complete" ELSE @]
  /\ UNCHANGED <<registry, started, found, edits>>

FetchRaises_AfterAccess(b, s) ==
  /\ stage[b] = "buying"
  /\ s \in todo[b]
  /\ D!Fetch(s) # "served"
  /\ D!RequestAccess(s, b)
  /\ stage' = [stage EXCEPT ![b] = "broken"]
  /\ UNCHANGED <<registry, ledger, started, found, todo, confirmed, edits>>

FetchRaises_Continues(b, s) ==
  /\ stage[b] = "buying"
  /\ s \in todo[b]
  /\ D!Fetch(s) # "served"
  /\ todo' = [todo EXCEPT ![b] = @ \ {s}]
  /\ stage' = [stage EXCEPT ![b] = IF todo'[b] = {} THEN "complete" ELSE @]
  /\ UNCHANGED <<registry, datafacts, ledger, started, found, confirmed, edits>>

\* The fetch raises out of the loop and the handler: the other sellers are
\* not visited either.
FetchRaises(b, s) ==
  /\ stage[b] = "buying"
  /\ s \in todo[b]
  /\ D!Fetch(s) # "served"
  /\ stage' = [stage EXCEPT ![b] = "broken"]
  /\ UNCHANGED <<registry, datafacts, ledger, started, found, todo, confirmed, edits>>

\* A seller revises the dataset it still holds the object of, without or
\* with publishing it again.
Edit(s, body) ==
  /\ edits < MaxEdits
  /\ s \in started
  /\ body # heap[s].body
  /\ D!EditObject(s, [heap[s] EXCEPT !.body = body])
  /\ edits' = edits + 1
  /\ UNCHANGED <<registry, ledger, started, rounds>>

Republish(s) ==
  /\ datasets[s] # Nothing
  /\ D!Publish(s)
  /\ UNCHANGED <<registry, ledger, started, rounds, edits>>

Turn(b) == \E s \in Sellers : Purchase(b, s) \/ FetchRaises(b, s)

Next ==
  \/ \E s \in Sellers : SellerStart(s) \/ Republish(s)
  \/ \E s \in Sellers, body \in Bodies : Edit(s, body)
  \/ \E b \in Buyers : Transact(b) \/ Turn(b)

Spec == Init /\ [][Next]_vars

\* The simulator starts every agent and fires every signal; a handler runs on.
Fairness ==
  /\ \A s \in Sellers : WF_vars(SellerStart(s))
  /\ \A b \in Buyers : WF_vars(Transact(b)) /\ WF_vars(Turn(b))

FairSpec == Spec /\ Fairness

-----------------------------------------------------------------------------
(* Properties. *)

Bought == {p \in Buyers \X Sellers : T!OnLedger \cap {Credit(p[2], p[1])} # {}}

\* A purchase leaves its mark in all three layers or in none, also when the
\* buyer's round breaks off at a later or at this seller: the credit, the
\* grant, a grant receipt signed by the seller, and the confirmation; each
\* once, and none without a card in the registry (sm_marketplace.py:122-140).
AllOrNothing ==
  \A b \in Buyers, s \in Sellers :
    LET mine == {i \in DOMAIN grants[s] : grants[s][i] = b}
    IN  /\ ledger[Credit(s, b)] = Cardinality(mine)
        /\ Cardinality(mine) = IF <<b, s>> \in confirmed THEN 1 ELSE 0
        /\ \A i \in mine : grant_receipts[s][i] = [issuer |-> s, to |-> b]
        /\ mine # {} => s \in {c.agent : c \in R!Lookup({Offer})}

\* The rounds implement Purchases.
Abs == INSTANCE Purchases WITH bought <- Bought

ImplementsPurchases == Abs!Spec

\* "The seller accrues corroborated, severance-resistant reputation"
\* (sm_marketplace.py:11-13): whatever is severed, and whichever buyers broke
\* off, a seller's score counts the buyers that bought from it, and no
\* buyer has receipts of its own.
ReputationIsSales ==
  \A severed \in T!Severances :
    /\ \A s \in Sellers :
         LET sales == {b \in Buyers : <<b, s>> \in confirmed}
         IN  /\ T!Score(s, severed).samples = Cardinality(sales)
             /\ T!Score(s, severed).credited = {Credit(s, b) : b \in sales}
    /\ \A b \in Buyers : T!Score(b, severed).basis = "prior"

\* Every round ends, and one that met no edited dataset covers every
\* seller.
RoundsEnd ==
  <>[](\A b \in Buyers :
         /\ stage[b] \in {"complete", "broken"}
         /\ edits = 0 => \A s \in Sellers : <<b, s>> \in confirmed)
=============================================================================
