------------------------- MODULE MarketplaceProofs -------------------------
(***************************************************************************)
(* Proofs about the marketplace, for every set of sellers and buyers, any  *)
(* data and any number of edits: a purchase leaves its mark in all three   *)
(* layers or in none, the score of a seller is the buyers it sold to, and  *)
(* the rounds implement Purchases.                                         *)
(***************************************************************************)
EXTENDS Marketplace, FiniteSetTheorems, TLAPS

\* The grants under the name of seller s are one for each of its buyers, each
\* with a receipt that the seller signed.
GrantedTo(s, given, receipts, buyers) ==
  /\ given \in Seq(Buyers)
  /\ receipts \in Seq([issuer : Sellers, to : Buyers])
  /\ Len(given) = Len(receipts)
  /\ \A i \in 1 .. Len(given) : /\ given[i] \in buyers
                                /\ receipts[i] = [issuer |-> s, to |-> given[i]]
  /\ \A b \in buyers : \E i \in 1 .. Len(given) : given[i] = b
  /\ \A i, j \in 1 .. Len(given) : given[i] = given[j] => i = j

BuyersOf(s, purchases) == {b \in Buyers : <<b, s>> \in purchases}

SellersTo(b, purchases) == {s \in Sellers : <<b, s>> \in purchases}

\* Sellers keep their cards, and their objects are theirs.
ListingsInv ==
  /\ started \subseteq Sellers
  /\ cards = {CardOf(s) : s \in started}
  /\ heap \in [Sellers -> D!Content]
  /\ \A s \in Sellers : heap[s].name = s /\ heap[s].owner = s
  /\ datasets \in [Sellers -> Sellers \cup {Nothing}]
  /\ \A s \in Sellers : datasets[s] \in {Nothing, s}

\* A round visits what it found, and buys from what it has visited.
RoundsInv ==
  /\ stage \in [Buyers -> {"waiting", "buying", "complete", "broken"}]
  /\ found \in [Buyers -> SUBSET Sellers]
  /\ todo \in [Buyers -> SUBSET Sellers]
  /\ confirmed \subseteq Buyers \X Sellers
  /\ \A b \in Buyers : /\ stage[b] = "waiting" => found[b] = {}
                       /\ found[b] \subseteq started
                       /\ SellersTo(b, confirmed) \subseteq found[b]
                       /\ todo[b] = found[b] \ SellersTo(b, confirmed)

GrantsInv ==
  /\ DOMAIN grants = Sellers /\ DOMAIN grant_receipts = Sellers
  /\ \A s \in Sellers : GrantedTo(s, grants[s], grant_receipts[s], BuyersOf(s, confirmed))

LedgerInv ==
  /\ ledger \in [T!Receipt -> Nat]
  /\ \A b \in Buyers, s \in Sellers :
       ledger[Credit(s, b)] = IF <<b, s>> \in confirmed THEN 1 ELSE 0
  /\ \A r \in T!Receipt : ledger[r] > 0 =>
       \E b \in Buyers, s \in Sellers : r = Credit(s, b)

MarketInv == ListingsInv /\ RoundsInv /\ GrantsInv /\ LedgerInv

-----------------------------------------------------------------------------

\* A credit receipt names one seller and one buyer, never the same.
LEMMA Credits ==
  ASSUME NEW b \in Buyers, NEW s \in Sellers
  PROVE  /\ Credit(s, b) \in T!Receipt
         /\ \A c \in Buyers, r \in Sellers : Credit(r, c) = Credit(s, b) => r = s /\ c = b
<1>1. s # b
  BY MarketAssumption
<1>2. Credit(s, b) \in T!Receipt
  BY <1>1 DEF Credit, T!Receipt
<1>3. ASSUME NEW c \in Buyers, NEW r \in Sellers, Credit(r, c) = Credit(s, b)
      PROVE  r = s /\ c = b
  <2>1. Credit(r, c).principal = r /\ Credit(r, c).counterparty = c
    BY DEF Credit
  <2>2. Credit(s, b).principal = s /\ Credit(s, b).counterparty = b
    BY DEF Credit
  <2>3. QED
    BY <1>3, <2>1, <2>2
<1>4. QED
  BY <1>2, <1>3

\* What lookup finds are the sellers that have started.
LEMMA LookupFinds ==
  ASSUME ListingsInv
  PROVE  {c.agent : c \in R!Lookup({Offer})} = started
<1>1. \A s \in Sellers : CardOf(s).agent = s /\ CardOf(s).offers = {Offer}
  BY DEF CardOf
<1>2. R!Lookup({Offer}) = cards
  BY <1>1 DEF ListingsInv, R!Lookup, R!Matches
<1>3. \A c \in cards : c.agent \in started
  BY <1>1 DEF ListingsInv
<1>4. \A s \in started : \E c \in cards : c.agent = s
  BY <1>1 DEF ListingsInv
<1>5. QED
  BY <1>2, <1>3, <1>4

\* No round has begun at the start.
LEMMA InitEstablishes == Init => MarketInv
<1> SUFFICES ASSUME Init PROVE MarketInv
  OBVIOUS
<1>1. ListingsInv
  BY DEF Init, R!Init, D!Init, ListingsInv, D!Content
<1>2. RoundsInv
  BY DEF Init, RoundsInv, SellersTo
<1>3. GrantsInv
  BY DEF Init, D!Init, GrantsInv, GrantedTo, BuyersOf
<1>4. LedgerInv
  BY Credits DEF Init, T!TrustInit, LedgerInv
<1>5. QED
  BY <1>1, <1>2, <1>3, <1>4 DEF MarketInv

\* A seller that starts adds its card and its dataset.
LEMMA SellerStartKeeps ==
  ASSUME MarketInv, NEW s \in Sellers, SellerStart(s)
  PROVE  MarketInv'
<1>1. /\ started' = started \cup {s}
      /\ cards' = (cards \ R!CardOf(s)) \cup {CardOf(s)}
      /\ datasets' = [datasets EXCEPT ![s] = s]
      /\ UNCHANGED <<heap, grants, grant_receipts, ledger, stage, found, todo, confirmed>>
  <2>1. CardOf(s).agent = s
    BY DEF CardOf
  <2>2. QED
    BY <2>1 DEF SellerStart, R!Register, D!Publish, rounds, MarketInv, ListingsInv
<1>2. cards' = {CardOf(r) : r \in started'}
  <2>1. \A r \in Sellers : CardOf(r).agent = r
    BY DEF CardOf
  <2>2. QED
    BY <1>1, <2>1 DEF MarketInv, ListingsInv, R!CardOf
<1>3. ListingsInv'
  BY <1>1, <1>2 DEF MarketInv, ListingsInv
<1>4. RoundsInv' /\ GrantsInv' /\ LedgerInv'
  BY <1>1 DEF MarketInv, RoundsInv, GrantsInv, LedgerInv
<1>5. QED
  BY <1>3, <1>4 DEF MarketInv

\* A dataset published again stays the seller's.
LEMMA RepublishKeeps ==
  ASSUME MarketInv, NEW s \in Sellers, Republish(s)
  PROVE  MarketInv'
<1>1. /\ datasets' = [datasets EXCEPT ![s] = s]
      /\ UNCHANGED <<started, cards, heap, grants, grant_receipts, ledger,
                     stage, found, todo, confirmed>>
  BY DEF Republish, D!Publish, registry, rounds, MarketInv, ListingsInv
<1>2. ListingsInv'
  BY <1>1 DEF MarketInv, ListingsInv
<1>3. QED
  BY <1>1, <1>2 DEF MarketInv, RoundsInv, GrantsInv, LedgerInv

\* An edit changes neither name nor owner.
LEMMA EditKeeps ==
  ASSUME MarketInv, NEW s \in Sellers, NEW body \in Bodies, Edit(s, body)
  PROVE  MarketInv'
<1>1. /\ heap' = [heap EXCEPT ![s] = [heap[s] EXCEPT !.body = body]]
      /\ UNCHANGED <<started, cards, datasets, grants, grant_receipts, ledger,
                     stage, found, todo, confirmed>>
  BY DEF Edit, D!EditObject, registry, rounds
<1>2. /\ [heap[s] EXCEPT !.body = body] \in D!Content
      /\ [heap[s] EXCEPT !.body = body].name = s
      /\ [heap[s] EXCEPT !.body = body].owner = s
  BY DEF MarketInv, ListingsInv, D!Content
<1>3. ListingsInv'
  BY <1>1, <1>2 DEF MarketInv, ListingsInv
<1>4. QED
  BY <1>1, <1>3 DEF MarketInv, RoundsInv, GrantsInv, LedgerInv

\* A round begins with every seller that lookup finds.
LEMMA TransactKeeps ==
  ASSUME MarketInv, NEW b \in Buyers, Transact(b)
  PROVE  MarketInv'
<1>1. /\ stage[b] = "waiting"
      /\ found' = [found EXCEPT ![b] = started]
      /\ todo' = [todo EXCEPT ![b] = started]
      /\ stage' = [stage EXCEPT ![b] = IF started = {} THEN "complete" ELSE "buying"]
      /\ UNCHANGED <<started, cards, heap, datasets, grants, grant_receipts, ledger, confirmed>>
  BY LookupFinds DEF Transact, registry, datafacts, MarketInv
<1>2. SellersTo(b, confirmed) = {} /\ started \subseteq Sellers
  BY <1>1 DEF MarketInv, RoundsInv, ListingsInv
<1>3. RoundsInv'
  BY <1>1, <1>2 DEF MarketInv, RoundsInv
<1>4. QED
  BY <1>1, <1>3 DEF MarketInv, ListingsInv, GrantsInv, LedgerInv

\* A round that breaks off leaves its purchases whole.
LEMMA FetchRaisesKeeps ==
  ASSUME MarketInv, NEW b \in Buyers, NEW s \in Sellers, FetchRaises(b, s)
  PROVE  MarketInv'
<1>1. /\ stage' = [stage EXCEPT ![b] = "broken"]
      /\ UNCHANGED <<started, cards, heap, datasets, grants, grant_receipts, ledger,
                     found, todo, confirmed>>
  BY DEF FetchRaises, registry, datafacts
<1>2. RoundsInv'
  BY <1>1 DEF MarketInv, RoundsInv
<1>3. QED
  BY <1>1, <1>2 DEF MarketInv, ListingsInv, GrantsInv, LedgerInv

\* A grant to one more buyer.
LEMMA GrantedToOneMore ==
  ASSUME NEW s \in Sellers, NEW given, NEW receipts, NEW buyers \in SUBSET Buyers,
         NEW b \in Buyers, b \notin buyers, GrantedTo(s, given, receipts, buyers)
  PROVE  GrantedTo(s, Append(given, b), Append(receipts, [issuer |-> s, to |-> b]), buyers \cup {b})
<1> DEFINE Receipts == [issuer : Sellers, to : Buyers]
           receipt == [issuer |-> s, to |-> b]
           more == Append(given, b)
           longer == Append(receipts, receipt)
<1>1. /\ given \in Seq(Buyers) /\ receipts \in Seq(Receipts) /\ Len(given) = Len(receipts)
      /\ \A i \in 1 .. Len(given) : given[i] \in buyers
      /\ \A i \in 1 .. Len(given) : receipts[i] = [issuer |-> s, to |-> given[i]]
      /\ \A c \in buyers : \E i \in 1 .. Len(given) : given[i] = c
      /\ \A i, j \in 1 .. Len(given) : given[i] = given[j] => i = j
  BY DEF GrantedTo
<1>2. receipt \in Receipts
  OBVIOUS
<1> HIDE DEF Receipts, receipt
<1>3. /\ more \in Seq(Buyers) /\ Len(more) = Len(given) + 1
      /\ more[Len(given) + 1] = b
      /\ \A i \in 1 .. Len(given) : more[i] = given[i]
      /\ Len(given) \in Nat
  BY <1>1
<1>4. /\ longer \in Seq(Receipts) /\ Len(longer) = Len(given) + 1
      /\ longer[Len(given) + 1] = receipt
      /\ \A i \in 1 .. Len(given) : longer[i] = receipts[i]
  BY <1>1, <1>2
<1> HIDE DEF more, longer
<1>5. \A i \in 1 .. Len(more) : i \in 1 .. Len(given) \/ i = Len(given) + 1
  BY <1>3
<1>6. ASSUME NEW i \in 1 .. Len(more)
      PROVE  more[i] \in buyers \cup {b} /\ longer[i] = [issuer |-> s, to |-> more[i]]
  <2>1. CASE i \in 1 .. Len(given)
    BY <1>1, <1>3, <1>4, <2>1
  <2>2. CASE i = Len(given) + 1
    BY <1>3, <1>4, <2>2 DEF receipt
  <2>3. QED
    BY <1>5, <2>1, <2>2
<1>7. \A c \in buyers \cup {b} : \E i \in 1 .. Len(more) : more[i] = c
  BY <1>1, <1>3
<1>8. ASSUME NEW i \in 1 .. Len(more), NEW j \in 1 .. Len(more), more[i] = more[j]
      PROVE  i = j
  <2>1. CASE i \in 1 .. Len(given) /\ j \in 1 .. Len(given)
    BY <1>1, <1>3, <1>8, <2>1
  <2>2. CASE i = Len(given) + 1 /\ j \in 1 .. Len(given)
    BY <1>1, <1>3, <1>8, <2>2
  <2>3. CASE i \in 1 .. Len(given) /\ j = Len(given) + 1
    BY <1>1, <1>3, <1>8, <2>3
  <2>4. QED
    BY <1>5, <2>1, <2>2, <2>3
<1>9. GrantedTo(s, more, longer, buyers \cup {b})
  BY <1>3, <1>4, <1>6, <1>7, <1>8 DEF GrantedTo, Receipts
<1>10. QED
  BY <1>9 DEF more, longer, receipt

\* What one turn of a round does.
LEMMA PurchaseDoes ==
  ASSUME MarketInv, NEW b \in Buyers, NEW s \in Sellers, Purchase(b, s)
  PROVE  /\ stage[b] = "buying" /\ s \in found[b] /\ <<b, s>> \notin confirmed
         /\ confirmed' = confirmed \cup {<<b, s>>}
         /\ todo' = [todo EXCEPT ![b] = todo[b] \ {s}]
         /\ stage' = [stage EXCEPT ![b] = IF todo[b] \ {s} = {} THEN "complete" ELSE "buying"]
         /\ grants' = [grants EXCEPT ![s] = Append(grants[s], b)]
         /\ grant_receipts' = [grant_receipts EXCEPT ![s] =
                                 Append(grant_receipts[s], [issuer |-> s, to |-> b])]
         /\ ledger' = [ledger EXCEPT ![Credit(s, b)] = ledger[Credit(s, b)] + 1]
         /\ UNCHANGED <<started, cards, heap, datasets, found>>
<1>1. stage[b] = "buying" /\ s \in todo[b] /\ D!RequestAccess(s, b) /\ T!ReportReceipt(Credit(s, b))
  BY DEF Purchase
<1>2. s \in found[b] /\ <<b, s>> \notin confirmed
  BY <1>1 DEF MarketInv, RoundsInv, SellersTo
<1>3. heap[datasets[s]].owner = s
  BY <1>1 DEF D!RequestAccess, MarketInv, ListingsInv
<1>4. todo' = [todo EXCEPT ![b] = todo[b] \ {s}] /\ todo'[b] = todo[b] \ {s}
  BY DEF Purchase, MarketInv, RoundsInv
<1>5. stage' = [stage EXCEPT ![b] = IF todo[b] \ {s} = {} THEN "complete" ELSE "buying"]
  BY <1>1, <1>4 DEF Purchase
<1>6. QED
  BY <1>1, <1>2, <1>3, <1>4, <1>5
     DEF Purchase, D!RequestAccess, T!ReportReceipt, registry

\* A purchase adds one grant, one receipt, one credit and one confirmation.
LEMMA PurchaseKeeps ==
  ASSUME MarketInv, NEW b \in Buyers, NEW s \in Sellers, Purchase(b, s)
  PROVE  MarketInv'
<1>1. /\ stage[b] = "buying" /\ s \in found[b] /\ <<b, s>> \notin confirmed
      /\ confirmed' = confirmed \cup {<<b, s>>}
      /\ todo' = [todo EXCEPT ![b] = todo[b] \ {s}]
      /\ stage' = [stage EXCEPT ![b] = IF todo[b] \ {s} = {} THEN "complete" ELSE "buying"]
      /\ grants' = [grants EXCEPT ![s] = Append(grants[s], b)]
      /\ grant_receipts' = [grant_receipts EXCEPT ![s] =
                              Append(grant_receipts[s], [issuer |-> s, to |-> b])]
      /\ ledger' = [ledger EXCEPT ![Credit(s, b)] = ledger[Credit(s, b)] + 1]
      /\ UNCHANGED <<started, cards, heap, datasets, found>>
  BY PurchaseDoes
<1>2. ListingsInv'
  BY <1>1 DEF MarketInv, ListingsInv
<1>3. RoundsInv'
  <2>1. SellersTo(b, confirmed') = SellersTo(b, confirmed) \cup {s}
    BY <1>1 DEF SellersTo
  <2>2. \A c \in Buyers : c # b => SellersTo(c, confirmed') = SellersTo(c, confirmed)
    BY <1>1 DEF SellersTo
  <2>3. /\ todo'[b] = todo[b] \ {s} /\ stage'[b] # "waiting"
        /\ \A c \in Buyers : c # b => todo'[c] = todo[c] /\ stage'[c] = stage[c]
        /\ todo' \in [Buyers -> SUBSET Sellers]
        /\ stage' \in [Buyers -> {"waiting", "buying", "complete", "broken"}]
    BY <1>1 DEF MarketInv, RoundsInv
  <2>4. ASSUME NEW c \in Buyers
        PROVE  /\ stage'[c] = "waiting" => found[c] = {}
               /\ SellersTo(c, confirmed') \subseteq found[c]
               /\ todo'[c] = found[c] \ SellersTo(c, confirmed')
    <3>1. /\ stage[c] = "waiting" => found[c] = {}
          /\ SellersTo(c, confirmed) \subseteq found[c]
          /\ todo[c] = found[c] \ SellersTo(c, confirmed)
      BY DEF MarketInv, RoundsInv
    <3>2. CASE c = b
      BY <1>1, <2>1, <2>3, <3>1, <3>2
    <3>3. CASE c # b
      BY <2>2, <2>3, <3>1, <3>3
    <3>4. QED
      BY <3>2, <3>3
  <2>5. confirmed' \subseteq Buyers \X Sellers
    BY <1>1 DEF MarketInv, RoundsInv
  <2>6. QED
    BY <1>1, <2>3, <2>4, <2>5 DEF MarketInv, RoundsInv
<1>4. GrantsInv'
  <2> SUFFICES ASSUME NEW r \in Sellers
               PROVE  GrantedTo(r, grants'[r], grant_receipts'[r], BuyersOf(r, confirmed'))
    BY <1>1 DEF GrantsInv, MarketInv
  <2>1. GrantedTo(r, grants[r], grant_receipts[r], BuyersOf(r, confirmed))
    BY DEF MarketInv, GrantsInv
  <2>2. CASE r = s
    <3>1. /\ BuyersOf(s, confirmed') = BuyersOf(s, confirmed) \cup {b}
          /\ b \notin BuyersOf(s, confirmed)
          /\ BuyersOf(s, confirmed) \subseteq Buyers
      BY <1>1 DEF BuyersOf
    <3>2. /\ grants'[s] = Append(grants[s], b)
          /\ grant_receipts'[s] = Append(grant_receipts[s], [issuer |-> s, to |-> b])
      BY <1>1 DEF MarketInv, GrantsInv
    <3>3. QED
      BY <2>1, <2>2, <3>1, <3>2, GrantedToOneMore
  <2>3. CASE r # s
    <3>1. BuyersOf(r, confirmed') = BuyersOf(r, confirmed)
      BY <1>1, <2>3 DEF BuyersOf
    <3>2. grants'[r] = grants[r] /\ grant_receipts'[r] = grant_receipts[r]
      BY <1>1, <2>3 DEF MarketInv, GrantsInv
    <3>3. QED
      BY <2>1, <3>1, <3>2
  <2>4. QED
    BY <2>2, <2>3
<1>5. LedgerInv'
  <2>1. Credit(s, b) \in T!Receipt /\ ledger \in [T!Receipt -> Nat] /\ ledger[Credit(s, b)] = 0
    BY <1>1, Credits DEF MarketInv, LedgerInv
  <2>2. ledger' \in [T!Receipt -> Nat]
    BY <1>1, <2>1
  <2>3. ASSUME NEW c \in Buyers, NEW r \in Sellers
        PROVE  ledger'[Credit(r, c)] = IF <<c, r>> \in confirmed' THEN 1 ELSE 0
    <3>1. Credit(r, c) \in T!Receipt
      BY Credits
    <3>2. CASE r = s /\ c = b
      BY <1>1, <2>1, <3>2
    <3>3. CASE ~(r = s /\ c = b)
      <4>1. Credit(r, c) # Credit(s, b)
        BY <3>3, Credits
      <4>2. ledger'[Credit(r, c)] = ledger[Credit(r, c)]
        BY <1>1, <2>1, <3>1, <4>1
      <4>3. <<c, r>> \in confirmed' <=> <<c, r>> \in confirmed
        BY <1>1, <3>3
      <4>4. QED
        BY <4>2, <4>3 DEF MarketInv, LedgerInv
    <3>4. QED
      BY <3>2, <3>3
  <2>4. ASSUME NEW r \in T!Receipt, ledger'[r] > 0
        PROVE  \E c \in Buyers, t \in Sellers : r = Credit(t, c)
    <3>1. CASE r = Credit(s, b)
      BY <3>1
    <3>2. CASE r # Credit(s, b)
      BY <1>1, <2>1, <2>4, <3>2 DEF MarketInv, LedgerInv
    <3>3. QED
      BY <3>1, <3>2
  <2>5. QED
    BY <2>2, <2>3, <2>4 DEF LedgerInv
<1>6. QED
  BY <1>2, <1>3, <1>4, <1>5 DEF MarketInv

\* The invariant is inductive.
LEMMA NextKeeps == MarketInv /\ [Next]_vars => MarketInv'
<1> SUFFICES ASSUME MarketInv, [Next]_vars PROVE MarketInv'
  OBVIOUS
<1>1. CASE UNCHANGED vars
  BY <1>1 DEF vars, registry, datafacts, rounds, MarketInv, ListingsInv, RoundsInv, GrantsInv, LedgerInv
<1>2. CASE \E s \in Sellers : SellerStart(s) \/ Republish(s)
  BY <1>2, SellerStartKeeps, RepublishKeeps
<1>3. CASE \E s \in Sellers, body \in Bodies : Edit(s, body)
  BY <1>3, EditKeeps
<1>4. CASE \E b \in Buyers : Transact(b) \/ Turn(b)
  BY <1>4, TransactKeeps, PurchaseKeeps, FetchRaisesKeeps DEF Turn
<1>5. QED
  BY <1>1, <1>2, <1>3, <1>4 DEF Next

-----------------------------------------------------------------------------

\* Cards, rounds, grants and the ledger stay related by the purchases made,
\* whatever sellers edit or publish again: the inductive invariant.
THEOREM MarketInvariant == Spec => []MarketInv
<1>1. QED
  BY InitEstablishes, NextKeeps, PTL DEF Spec

\* A purchase leaves its mark in all three layers or in none: the credit, the
\* grant, a grant receipt signed by the seller, and the confirmation; each
\* once, and none without a card in the registry (sm_marketplace.py:122-140).
THEOREM PurchasesAllOrNothing == Spec => []AllOrNothing
<1>1. ASSUME MarketInv, NEW b \in Buyers, NEW s \in Sellers
      PROVE  LET mine == {i \in DOMAIN grants[s] : grants[s][i] = b}
             IN  /\ ledger[Credit(s, b)] = Cardinality(mine)
                 /\ Cardinality(mine) = IF <<b, s>> \in confirmed THEN 1 ELSE 0
                 /\ \A i \in mine : grant_receipts[s][i] = [issuer |-> s, to |-> b]
                 /\ mine # {} => s \in {c.agent : c \in R!Lookup({Offer})}
  <2> DEFINE mine == {i \in DOMAIN grants[s] : grants[s][i] = b}
  <2>1. GrantedTo(s, grants[s], grant_receipts[s], BuyersOf(s, confirmed))
    BY <1>1 DEF MarketInv, GrantsInv
  <2>2. DOMAIN grants[s] = 1 .. Len(grants[s])
    BY <2>1 DEF GrantedTo
  <2>3. \A i, j \in mine : i = j
    BY <2>1, <2>2 DEF GrantedTo
  <2>4. mine # {} <=> <<b, s>> \in confirmed
    BY <2>1, <2>2 DEF GrantedTo, BuyersOf
  <2>5. Cardinality(mine) = IF <<b, s>> \in confirmed THEN 1 ELSE 0
    <3>1. CASE mine = {}
      BY <2>4, <3>1, FS_EmptySet
    <3>2. CASE mine # {}
      <4>1. PICK i : mine = {i}
        BY <2>3, <3>2
      <4>2. QED
        BY <2>4, <3>2, <4>1, FS_Singleton
    <3>3. QED
      BY <3>1, <3>2
  <2>6. ledger[Credit(s, b)] = IF <<b, s>> \in confirmed THEN 1 ELSE 0
    BY <1>1 DEF MarketInv, LedgerInv
  <2>7. \A i \in mine : grant_receipts[s][i] = [issuer |-> s, to |-> b]
    BY <2>1, <2>2 DEF GrantedTo
  <2>8. mine # {} => s \in {c.agent : c \in R!Lookup({Offer})}
    <3>1. <<b, s>> \in confirmed => s \in started
      BY <1>1 DEF MarketInv, RoundsInv, SellersTo
    <3>2. QED
      BY <1>1, <2>4, <3>1, LookupFinds DEF MarketInv
  <2>9. QED
    BY <2>5, <2>6, <2>7, <2>8
<1>2. MarketInv => AllOrNothing
  BY <1>1 DEF AllOrNothing
<1>3. QED
  BY <1>2, MarketInvariant, PTL

-----------------------------------------------------------------------------
(* The scores of sellers and buyers. *)

\* The trust layer counts as this module does.
LEMMA CountsAlike == \A S : T!Cardinality(S) = Cardinality(S)
  BY DEF T!Cardinality, Cardinality

\* The receipts on the ledger are the credits of the confirmed purchases,
\* each there once.
LEMMA LedgerIsSales ==
  ASSUME MarketInv
  PROVE  /\ \A r \in T!OnLedger :
              /\ ledger[r] = 1
              /\ \E b \in Buyers, s \in Sellers : <<b, s>> \in confirmed /\ r = Credit(s, b)
         /\ \A b \in Buyers, s \in Sellers :
              <<b, s>> \in confirmed => Credit(s, b) \in T!OnLedger
<1>1. ASSUME NEW r \in T!OnLedger
      PROVE  /\ ledger[r] = 1
             /\ \E b \in Buyers, s \in Sellers : <<b, s>> \in confirmed /\ r = Credit(s, b)
  <2>1. r \in T!Receipt /\ ledger[r] > 0
    BY DEF T!OnLedger
  <2>2. PICK b \in Buyers, s \in Sellers : r = Credit(s, b)
    BY <2>1 DEF MarketInv, LedgerInv
  <2>3. ledger[r] = IF <<b, s>> \in confirmed THEN 1 ELSE 0
    BY <2>2 DEF MarketInv, LedgerInv
  <2>4. QED
    BY <2>1, <2>2, <2>3
<1>2. ASSUME NEW b \in Buyers, NEW s \in Sellers, <<b, s>> \in confirmed
      PROVE  Credit(s, b) \in T!OnLedger
  <2>1. Credit(s, b) \in T!Receipt
    BY Credits
  <2>2. ledger[Credit(s, b)] = 1
    BY <1>2 DEF MarketInv, LedgerInv
  <2>3. QED
    BY <2>1, <2>2 DEF T!OnLedger
<1>3. QED
  BY <1>1, <1>2

\* Every edge of the corroboration graph goes from a seller to a buyer.
LEMMA EdgesToBuyers ==
  ASSUME MarketInv
  PROVE  \A e \in T!Edges : e[1] \in Sellers /\ e[2] \in Buyers
<1> SUFFICES ASSUME NEW e \in T!Edges PROVE e[1] \in Sellers /\ e[2] \in Buyers
  OBVIOUS
<1>1. PICK r \in T!OnLedger : e = <<r.principal, r.counterparty>>
  BY DEF T!Edges
<1>2. PICK b \in Buyers, s \in Sellers : r = Credit(s, b)
  BY LedgerIsSales
<1>3. r.principal = s /\ r.counterparty = b
  BY <1>2 DEF Credit
<1>4. QED
  BY <1>1, <1>3

\* So no two agents reach one another, and each is a component of its own.
LEMMA ComponentsAreSingle ==
  ASSUME MarketInv, NEW comp \in T!Components(T!Edges)
  PROVE  Cardinality(comp) = 1
<1> DEFINE everyone == Sellers \cup Buyers
           closed == T!Closed(T!Edges)
<1>1. PICK a \in everyone : comp = {b \in everyone : \A S \in closed : a \in S <=> b \in S}
  BY DEF T!Components
<1>2. \A b \in Buyers : {b} \in closed
  BY EdgesToBuyers, MarketAssumption DEF T!Closed
<1>3. Buyers \cup {a} \in closed
  BY EdgesToBuyers DEF T!Closed
<1> HIDE DEF closed
<1>4. comp = {a}
  <2>1. a \in comp
    BY <1>1
  <2>2. SUFFICES ASSUME NEW b \in comp, b # a PROVE FALSE
    BY <2>1
  <2>3. b \in Buyers
    BY <1>1, <1>3, <2>2
  <2>4. a \in {b}
    BY <1>1, <1>2, <2>3
  <2>5. QED
    BY <2>2, <2>4
<1>5. QED
  BY <1>4, FS_Singleton

\* Nobody is severed: VRP severs no component of one.
LEMMA NobodySevered ==
  ASSUME MarketInv, NEW severed \in T!Severances
  PROVE  severed = {}
<1> DEFINE comps == T!Components(T!Edges)
<1>1. PICK anchor \in T!Anchors(comps), smallest \in {2, 3} :
         severed = UNION {comp \in comps \ {anchor} :
                            /\ T!Cardinality(comp) >= smallest
                            /\ T!Dense(comp, T!Edges)
                            /\ T!Isolated(comp, anchor, T!Edges)}
  BY DEF T!Severances
<1>2. \A comp \in comps : ~(T!Cardinality(comp) >= smallest)
  BY ComponentsAreSingle, CountsAlike
<1>3. QED
  BY <1>1, <1>2

\* The receipts of a seller, and its entries, are one for each buyer that
\* bought from it.
LEMMA SalesAreEntries ==
  ASSUME MarketInv, NEW s \in Sellers
  PROVE  LET sales == {b \in Buyers : <<b, s>> \in confirmed}
         IN  /\ T!Mine(s) = {Credit(s, b) : b \in sales}
             /\ Cardinality(T!Entries(s)) = Cardinality(sales)
<1> DEFINE sales == {b \in Buyers : <<b, s>> \in confirmed}
           entries == {<<Credit(s, b), 1>> : b \in sales}
           f == [b \in sales |-> <<Credit(s, b), 1>>]
<1>1. ASSUME NEW r \in T!Mine(s)
      PROVE  ledger[r] = 1 /\ \E b \in sales : r = Credit(s, b)
  <2>1. r \in T!OnLedger /\ r.principal = s
    BY DEF T!Mine, T!OnLedger, T!Receipt
  <2>2. PICK b \in Buyers, t \in Sellers : <<b, t>> \in confirmed /\ r = Credit(t, b)
    BY <2>1, LedgerIsSales
  <2>3. t = s
    BY <2>1, <2>2 DEF Credit
  <2>4. QED
    BY <2>1, <2>2, <2>3, LedgerIsSales
<1>2. ASSUME NEW b \in sales PROVE Credit(s, b) \in T!Mine(s)
  <2>1. Credit(s, b) \in T!OnLedger
    BY LedgerIsSales
  <2>2. Credit(s, b).principal = s
    BY DEF Credit
  <2>3. QED
    BY <2>1, <2>2 DEF T!Mine, T!OnLedger, T!Receipt
<1>3. T!Mine(s) = {Credit(s, b) : b \in sales}
  BY <1>1, <1>2
<1>4. T!Entries(s) = entries
  <2>1. \A e : e \in T!Entries(s) <=> \E r \in T!Mine(s) : e \in {r} \X (1 .. ledger[r])
    BY DEF T!Entries
  <2>2. \A r \in T!Mine(s) : {r} \X (1 .. ledger[r]) = {<<r, 1>>}
    BY <1>1
  <2>3. \A e : e \in T!Entries(s) <=> \E r \in T!Mine(s) : e = <<r, 1>>
    BY <2>1, <2>2
  <2>4. \A e : e \in T!Entries(s) <=> \E b \in sales : e = <<Credit(s, b), 1>>
    BY <1>3, <2>3
  <2>5. QED
    BY <2>4
<1>5. IsFiniteSet(sales)
  <2>1. sales \in SUBSET Buyers
    OBVIOUS
  <2>2. QED
    BY <2>1, MarketAssumption, FS_Subset
<1>6. f \in Surjection(sales, entries)
  BY DEF Surjection
<1>7. f \in Injection(sales, entries)
  <2>1. \A b, c \in sales : f[b] = f[c] => b = c
    <3> TAKE b \in sales, c \in sales
    <3>1. f[b] = <<Credit(s, b), 1>> /\ f[c] = <<Credit(s, c), 1>>
      OBVIOUS
    <3>2. f[b] = f[c] => Credit(s, b) = Credit(s, c)
      BY <3>1
    <3>3. QED
      BY <3>2, Credits
  <2>2. QED
    BY <1>6, <2>1 DEF Injection, Surjection, IsInjective
<1> HIDE DEF f, entries, sales
<1>8. Cardinality(entries) = Cardinality(sales)
  BY <1>5, <1>6, <1>7, FS_Surjection
<1>9. QED
  BY <1>3, <1>4, <1>8 DEF sales

\* A seller's score counts the buyers that bought from it, whatever is severed
\* and whichever rounds broke off, and no buyer has a score of its own
\* (sm_marketplace.py:11-13).
THEOREM ReputationOfSales == Spec => []ReputationIsSales
<1>1. ASSUME MarketInv, NEW severed \in T!Severances, NEW s \in Sellers
      PROVE  LET sales == {b \in Buyers : <<b, s>> \in confirmed}
             IN  /\ T!Score(s, severed).samples = Cardinality(sales)
                 /\ T!Score(s, severed).credited = {Credit(s, b) : b \in sales}
  <2> DEFINE sales == {b \in Buyers : <<b, s>> \in confirmed}
  <2>1. T!Mine(s) = {Credit(s, b) : b \in sales} /\ Cardinality(T!Entries(s)) = Cardinality(sales)
    BY <1>1, SalesAreEntries
  <2>2. T!Samples(s) = Cardinality(sales)
    <3>1. CASE T!Mine(s) # {}
      BY <2>1, <3>1, CountsAlike DEF T!Samples
    <3>2. CASE T!Mine(s) = {}
      <4>1. sales = {}
        BY <2>1, <3>2
      <4>2. T!Samples(s) = 0
        BY <3>2 DEF T!Samples
      <4>3. QED
        BY <4>1, <4>2, FS_EmptySet
    <3>3. QED
      BY <3>1, <3>2
  <2>3. T!Credited(s, severed) = {r \in T!Mine(s) : r.witnessed}
    BY <1>1, NobodySevered DEF T!Credited
  <2>4. \A b \in sales : Credit(s, b).witnessed
    BY DEF Credit
  <2>5. T!Credited(s, severed) = {Credit(s, b) : b \in sales}
    BY <2>1, <2>3, <2>4
  <2>6. QED
    BY <2>2, <2>5 DEF T!Score
<1>2. ASSUME MarketInv, NEW severed \in T!Severances, NEW b \in Buyers
      PROVE  T!Score(b, severed).basis = "prior"
  <2>1. T!Mine(b) = {}
    <3>1. SUFFICES ASSUME NEW r \in T!Mine(b) PROVE FALSE
      OBVIOUS
    <3>2. r \in T!OnLedger /\ r.principal = b
      BY DEF T!Mine, T!OnLedger, T!Receipt
    <3>3. PICK s \in Sellers, c \in Buyers : r = Credit(s, c)
      BY <1>2, <3>2, LedgerIsSales
    <3>4. r.principal = s
      BY <3>3 DEF Credit
    <3>5. QED
      BY <3>2, <3>4, MarketAssumption
  <2>2. T!Samples(b) = 0
    BY <2>1 DEF T!Samples
  <2>3. QED
    BY <2>1, <2>2 DEF T!Score
<1>3. MarketInv => ReputationIsSales
  BY <1>1, <1>2 DEF ReputationIsSales
<1>4. QED
  BY <1>3, MarketInvariant, PTL

-----------------------------------------------------------------------------

\* What the ledger credits are the purchases that were confirmed.
LEMMA BoughtIsConfirmed == MarketInv => Bought = confirmed
<1> SUFFICES ASSUME MarketInv PROVE Bought = confirmed
  OBVIOUS
<1>1. confirmed \subseteq Buyers \X Sellers
  BY DEF MarketInv, RoundsInv
<1>2. ASSUME NEW b \in Buyers, NEW s \in Sellers
      PROVE  T!OnLedger \cap {Credit(s, b)} # {} <=> <<b, s>> \in confirmed
  <2>1. Credit(s, b) \in T!Receipt
    BY Credits
  <2>2. ledger[Credit(s, b)] = IF <<b, s>> \in confirmed THEN 1 ELSE 0
    BY DEF MarketInv, LedgerInv
  <2>3. QED
    BY <2>1, <2>2 DEF T!OnLedger
<1>3. \A p \in Buyers \X Sellers : T!OnLedger \cap {Credit(p[2], p[1])} # {} <=> p \in confirmed
  BY <1>2
<1>4. QED
  BY <1>1, <1>3 DEF Bought

\* One step of the marketplace is one of Purchases, or leaves it alone.
LEMMA StepOfPurchases ==
  ASSUME MarketInv, MarketInv', [Next]_vars
  PROVE  [Abs!Next]_Abs!vars
<1>1. Bought = confirmed /\ (Bought = confirmed)'
  BY BoughtIsConfirmed, PTL
<1>2. CASE UNCHANGED <<stage, found, confirmed>>
  BY <1>1, <1>2 DEF Abs!vars
<1>3. ASSUME NEW b \in Buyers, Transact(b)
      PROVE  Abs!Next
  <2>1. started \subseteq Sellers
    BY DEF MarketInv, ListingsInv
  <2>2. Abs!Begin(b, started)
    BY <1>1, <1>3, LookupFinds DEF Transact, MarketInv, Abs!Begin
  <2>3. QED
    BY <2>1, <2>2 DEF Abs!Next
<1>4. ASSUME NEW b \in Buyers, NEW s \in Sellers, Purchase(b, s)
      PROVE  Abs!Next
  <2>1. /\ stage[b] = "buying" /\ s \in found[b] /\ <<b, s>> \notin confirmed
        /\ confirmed' = confirmed \cup {<<b, s>>}
        /\ stage' = [stage EXCEPT ![b] = IF todo[b] \ {s} = {} THEN "complete" ELSE "buying"]
        /\ UNCHANGED found
    BY <1>4, PurchaseDoes
  <2>2. /\ Abs!BoughtBy(b) = SellersTo(b, confirmed)
        /\ Abs!BoughtBy(b)' = SellersTo(b, confirmed) \cup {s}
    BY <1>1, <2>1 DEF Abs!BoughtBy, SellersTo
  <2>3. todo[b] = found[b] \ SellersTo(b, confirmed) /\ SellersTo(b, confirmed) \subseteq found[b]
    BY DEF MarketInv, RoundsInv
  <2>4. todo[b] \ {s} = {} <=> Abs!BoughtBy(b)' = found[b]
    BY <2>1, <2>2, <2>3
  <2>5. s \in found[b] \ Abs!BoughtBy(b)
    BY <2>1, <2>2 DEF SellersTo
  <2>6. Abs!Buy(b, s)
    BY <1>1, <2>1, <2>4, <2>5 DEF Abs!Buy
  <2>7. QED
    BY <2>6 DEF Abs!Next
<1>5. ASSUME NEW b \in Buyers, NEW s \in Sellers, FetchRaises(b, s)
      PROVE  Abs!Next
  BY <1>1, <1>5 DEF FetchRaises, Abs!Break, Abs!Next
<1>6. CASE \E s \in Sellers : SellerStart(s) \/ Republish(s) \/ \E body \in Bodies : Edit(s, body)
  BY <1>2, <1>6 DEF SellerStart, Republish, Edit, rounds
<1>7. QED
  BY <1>2, <1>3, <1>4, <1>5, <1>6 DEF Next, vars, rounds, Turn

\* The rounds implement Purchases: each covers the sellers it found, buys from
\* each at most once, and leaves only whole purchases when it breaks off.
THEOREM RoundsImplementPurchases == Spec => ImplementsPurchases
<1>1. Init => Abs!Init
  <2> SUFFICES ASSUME Init PROVE Abs!Init
    OBVIOUS
  <2>1. Bought = {}
    BY InitEstablishes, BoughtIsConfirmed DEF Init
  <2>2. QED
    BY <2>1 DEF Init, Abs!Init
<1>2. MarketInv /\ MarketInv' /\ [Next]_vars => [Abs!Next]_Abs!vars
  BY StepOfPurchases
<1>3. QED
  BY <1>1, <1>2, MarketInvariant, PTL DEF Spec, Abs!Spec, ImplementsPurchases
=============================================================================
