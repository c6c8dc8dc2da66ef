-------------------------- MODULE DataFactsProofs --------------------------
(***************************************************************************)
(* Proofs about ArpDataFacts, and about the scenario over it, for every    *)
(* set of names, owners, contents and objects, and any number of edits,    *)
(* also such as put another receipt that verifies in place of the one that *)
(* publish issued: what fetch serves is what its owner signed, and what it *)
(* leads to is attested by receipts.                                       *)
(***************************************************************************)
EXTENDS ProvenanceScenario, TLAPS

\* The commitment under a name is what the receipt issued for it has signed,
\* a content of that name; nothing ties the receipt kept there to either.
SignedTogether(n, receipt, hash) ==
  /\ hash \in Content
  /\ hash.name = n
  /\ receipt = Signed(hash)

\* Each grant has its receipt, at the same place.
GrantReceipt == [issuer : Owners, to : Requesters]

Receipted(given, receipts) ==
  /\ given \in Seq(Requesters)
  /\ receipts \in Seq(GrantReceipt)
  /\ Len(given) = Len(receipts)
  /\ \A i \in 1 .. Len(given) : receipts[i].to = given[i]

DataFactsInv ==
  /\ heap \in [Objects -> Content]
  /\ datasets \in [Names -> Objects \cup {Nothing}]
  /\ DOMAIN provenance = Names /\ DOMAIN commit = Names
  /\ DOMAIN grants = Names /\ DOMAIN grant_receipts = Names /\ DOMAIN issued = Names
  /\ \A n \in Names : /\ provenance[n] \in Receipt \cup {Nothing}
                      /\ datasets[n] = Nothing <=> provenance[n] = Nothing
                      /\ datasets[n] # Nothing => SignedTogether(n, issued[n], commit[n])
                      /\ Receipted(grants[n], grant_receipts[n])

-----------------------------------------------------------------------------

\* Nothing is published at the start.
LEMMA InitEstablishes == Init => DataFactsInv
  BY DEF Init, DataFactsInv, Receipted

\* publish stores dataset, receipt and commitment together.
LEMMA PublishKeeps ==
  ASSUME DataFactsInv, NEW o \in Objects, Publish(o)
  PROVE  DataFactsInv'
<1> DEFINE n == heap[o].name
           receipt == Signed(heap[o])
<1>1. heap[o] \in Content /\ n \in Names /\ heap[o].owner \in Owners
  BY DEF DataFactsInv, Content
<1>2. receipt \in Receipt
  BY <1>1 DEF Signed, Receipt
<1>3. /\ datasets' = [datasets EXCEPT ![n] = o]
      /\ provenance' = [provenance EXCEPT ![n] = receipt]
      /\ issued' = [issued EXCEPT ![n] = receipt]
      /\ commit' = [commit EXCEPT ![n] = heap[o]]
      /\ UNCHANGED <<heap, grants, grant_receipts>>
  BY DEF Publish
<1>4. receipt # Nothing /\ o # Nothing /\ SignedTogether(n, receipt, heap[o])
  BY <1>1, <1>2, DataFactsAssumption DEF SignedTogether
<1> HIDE DEF receipt, n
<1>5. \A m \in Names :
         /\ datasets'[m] = IF m = n THEN o ELSE datasets[m]
         /\ provenance'[m] = IF m = n THEN receipt ELSE provenance[m]
         /\ issued'[m] = IF m = n THEN receipt ELSE issued[m]
         /\ commit'[m] = IF m = n THEN heap[o] ELSE commit[m]
  BY <1>3 DEF DataFactsInv
<1>6. /\ datasets' \in [Names -> Objects \cup {Nothing}]
      /\ DOMAIN provenance' = Names /\ DOMAIN commit' = Names /\ DOMAIN issued' = Names
  BY <1>3 DEF DataFactsInv
<1>7. QED
  BY <1>2, <1>3, <1>4, <1>5, <1>6 DEF DataFactsInv

\* Grants and their receipts have the same positions.
LEMMA ReceiptedDomains ==
  ASSUME NEW given, NEW receipts, Receipted(given, receipts)
  PROVE  /\ Len(given) \in Nat
         /\ DOMAIN given = 1 .. Len(given)
         /\ DOMAIN receipts = 1 .. Len(given)
  BY DEF Receipted

\* One grant and its receipt were appended.
OneGranted(given, receipts, more, longer, receipt) ==
  /\ Receipted(more, longer)
  /\ Len(more) = Len(given) + 1
  /\ more[Len(more)] = receipt.to
  /\ longer[Len(more)] = receipt
  /\ \A i \in 1 .. Len(given) : more[i] = given[i] /\ longer[i] = receipts[i]

\* A grant appended with its receipt keeps them paired.
LEMMA ReceiptedGrows ==
  ASSUME NEW given, NEW receipts, Receipted(given, receipts),
         NEW receipt \in GrantReceipt, receipt.to \in Requesters
  PROVE  OneGranted(given, receipts, Append(given, receipt.to), Append(receipts, receipt), receipt)
<1> DEFINE more == Append(given, receipt.to)
           longer == Append(receipts, receipt)
<1>1. /\ more \in Seq(Requesters) /\ Len(more) = Len(given) + 1
      /\ more[Len(given) + 1] = receipt.to
      /\ \A i \in 1 .. Len(given) : more[i] = given[i]
      /\ Len(given) \in Nat
  BY DEF Receipted
<1>2. /\ longer \in Seq(GrantReceipt) /\ Len(longer) = Len(given) + 1
      /\ longer[Len(given) + 1] = receipt
      /\ \A i \in 1 .. Len(given) : longer[i] = receipts[i]
  BY DEF Receipted
<1> HIDE DEF more, longer
<1>3. Receipted(more, longer)
  BY <1>1, <1>2 DEF Receipted
<1>4. QED
  BY <1>1, <1>2, <1>3 DEF OneGranted, more, longer

\* A grant is receipted by the owner that the object names.
LEMMA GrantAppends ==
  ASSUME DataFactsInv, NEW n \in Names, NEW r \in Requesters, RequestAccess(n, r)
  PROVE  /\ OneGranted(grants[n], grant_receipts[n], grants'[n], grant_receipts'[n],
                       [issuer |-> heap[datasets[n]].owner, to |-> r])
         /\ \A m \in Names : m # n => grants'[m] = grants[m] /\ grant_receipts'[m] = grant_receipts[m]
<1> DEFINE receipt == [issuer |-> heap[datasets[n]].owner, to |-> r]
<1>1. Receipted(grants[n], grant_receipts[n])
  BY DEF DataFactsInv
<1>2. heap[datasets[n]].owner \in Owners
  BY DEF RequestAccess, DataFactsInv, Content
<1>3. receipt \in GrantReceipt /\ receipt.to = r
  BY <1>2 DEF GrantReceipt
<1>4. /\ grants' = [grants EXCEPT ![n] = Append(grants[n], r)]
      /\ grant_receipts' = [grant_receipts EXCEPT ![n] = Append(grant_receipts[n], receipt)]
  BY DEF RequestAccess
<1> HIDE DEF receipt
<1>5. /\ grants'[n] = Append(grants[n], r)
      /\ grant_receipts'[n] = Append(grant_receipts[n], receipt)
      /\ \A m \in Names : m # n => grants'[m] = grants[m] /\ grant_receipts'[m] = grant_receipts[m]
  BY <1>4 DEF DataFactsInv
<1>6. OneGranted(grants[n], grant_receipts[n], grants'[n], grant_receipts'[n], receipt)
  BY <1>1, <1>3, <1>5, ReceiptedGrows
<1>7. QED
  BY <1>5, <1>6 DEF receipt

\* request_access appends a grant and its receipt.
LEMMA RequestAccessKeeps ==
  ASSUME DataFactsInv, NEW n \in Names, NEW r \in Requesters, RequestAccess(n, r)
  PROVE  DataFactsInv'
<1>1. \A m \in Names : Receipted(grants'[m], grant_receipts'[m])
  BY GrantAppends DEF DataFactsInv, OneGranted
<1>2. /\ UNCHANGED <<heap, datasets, provenance, commit, issued>>
      /\ DOMAIN grants' = Names /\ DOMAIN grant_receipts' = Names
  BY DEF RequestAccess, DataFactsInv
<1>3. QED
  BY <1>1, <1>2 DEF DataFactsInv

\* An edited object leaves what was signed alone.
LEMMA EditObjectKeeps ==
  ASSUME DataFactsInv, NEW o \in Objects, NEW c \in Content, EditObject(o, c)
  PROVE  DataFactsInv'
  BY DEF EditObject, DataFactsInv

\* An edited receipt, whatever it is made into, leaves what was signed alone.
LEMMA EditReceiptKeeps ==
  ASSUME DataFactsInv, NEW n \in Names, NEW receipt \in Receipt, EditReceipt(n, receipt)
  PROVE  DataFactsInv'
<1>1. /\ provenance[n] # Nothing /\ receipt # Nothing
      /\ provenance' = [provenance EXCEPT ![n] = receipt]
      /\ UNCHANGED <<heap, datasets, commit, grants, grant_receipts, issued>>
  BY DataFactsAssumption DEF EditReceipt
<1>2. \A m \in Names : provenance'[m] = IF m = n THEN receipt ELSE provenance[m]
  BY <1>1 DEF DataFactsInv
<1>3. \A m \in Names : /\ provenance'[m] \in Receipt \cup {Nothing}
                       /\ datasets'[m] = Nothing <=> provenance'[m] = Nothing
  BY <1>1, <1>2 DEF DataFactsInv
<1>4. QED
  BY <1>1, <1>3 DEF DataFactsInv

\* The invariant is inductive.
LEMMA NextKeeps == DataFactsInv /\ [Next]_vars => DataFactsInv'
<1> SUFFICES ASSUME DataFactsInv, [Next]_vars PROVE DataFactsInv'
  OBVIOUS
<1>1. CASE UNCHANGED vars
  BY <1>1 DEF vars, DataFactsInv
<1>2. CASE \E o \in Objects : Publish(o)
  BY <1>2, PublishKeeps
<1>3. CASE \E n \in Names, r \in Requesters : RequestAccess(n, r)
  BY <1>3, RequestAccessKeeps
<1>4. CASE \E o \in Objects, c \in Content : EditObject(o, c)
  BY <1>4, EditObjectKeeps
<1>5. CASE \E n \in Names, receipt \in Receipt : EditReceipt(n, receipt)
  BY <1>5, EditReceiptKeeps
<1>6. QED
  BY <1>1, <1>2, <1>3, <1>4, <1>5 DEF Next

\* What fetch serves has passed its gate.
LEMMA ServedIsCommitted ==
  ASSUME DataFactsInv, NEW n \in Names, Fetch(n) = "served"
  PROVE  /\ datasets[n] # Nothing
         /\ heap[datasets[n]] = commit[n]
         /\ SignedTogether(n, issued[n], commit[n])
<1>1. CASE datasets[n] = Nothing
  BY <1>1 DEF Fetch
<1>2. CASE datasets[n] # Nothing
  <2>1. SignedTogether(n, issued[n], commit[n]) /\ Fresh(n) \in BOOLEAN
    BY <1>2 DEF DataFactsInv, Receipt, Fresh
  <2>2. heap[datasets[n]] = commit[n]
    BY <1>2, <2>1 DEF Fetch
  <2>3. QED
    BY <1>2, <2>1, <2>2
<1>3. QED
  BY <1>1, <1>2

-----------------------------------------------------------------------------

\* Per name, the commitment is what publish had signed, whatever became of the
\* receipt that is kept, and each grant has its receipt beside it: the
\* inductive invariant (datafacts_arp.py:99-158).
THEOREM DataFactsInvariant == Spec => []DataFactsInv
<1>1. QED
  BY InitEstablishes, NextKeeps, PTL DEF Spec

\* The scenario, and the others that use its layer meanwhile, call it as Spec
\* says (datafacts_provenance.py:45-90): what is proved of Spec holds there.
LEMMA StepOfScenario ==
  ASSUME [ScenarioNext]_allvars
  PROVE  [Next]_vars
<1>1. CASE UNCHANGED allvars
  BY <1>1 DEF allvars
<1>2. ASSUME NEW a \in Agents, OnStart(a)
      PROVE  [Next]_vars
  BY <1>2, ProvenanceAssumption DEF OnStart, Next
<1>3. ASSUME NEW a \in Agents, OnConsume(a)
      PROVE  [Next]_vars
  <2>1. Peer[a] \in Names /\ a \in Requesters
    BY ProvenanceAssumption
  <2>2. QED
    BY <1>3, <2>1 DEF OnConsume, Next
<1>4. CASE Others
  BY <1>4 DEF Others, OtherPublishes, OtherRequests, OtherEdits, OtherEditsReceipt, Next
<1>5. QED
  BY <1>1, <1>2, <1>3, <1>4 DEF ScenarioNext

\* The scenario and the others behave as callers of the layer do
\* (datafacts_provenance.py:43-81): what is proved of Spec holds of the scenario.
THEOREM ScenarioUsesDataFacts == ScenarioSpec => Spec
<1>1. ScenarioInit => Init
  BY DEF ScenarioInit
<1>2. [ScenarioNext]_allvars => [Next]_vars
  BY StepOfScenario
<1>3. QED
  BY <1>1, <1>2, PTL DEF ScenarioSpec, Spec

\* What fetch returns is what the owner it names signed at its publication,
\* under the name it was asked for, whichever receipt is kept there now
\* (datafacts_arp.py:13-15, 99-137).
THEOREM ServesAsSigned == Spec => []ServedAsSigned
<1>1. DataFactsInv => ServedAsSigned
  <2> SUFFICES ASSUME DataFactsInv, NEW n \in Names, Fetch(n) = "served"
               PROVE  heap[datasets[n]].name = n /\ issued[n] = Signed(heap[datasets[n]])
    BY DEF ServedAsSigned
  <2>1. QED
    BY ServedIsCommitted DEF SignedTogether
<1>2. QED
  BY <1>1, DataFactsInvariant, PTL

\* A requester that fetched the dataset first gets a grant receipt signed by
\* the owner that signed it at its publication, whichever receipt is kept
\* there now (datafacts_arp.py:16-17, 146-158).
THEOREM FetchedGrantsAreAttributable == Spec => FetchedGrantsAttributable
<1>1. ASSUME DataFactsInv, [Next]_vars, NEW n \in Names,
             Len(grant_receipts[n])' > Len(grant_receipts[n]), Fetch(n) = "served"
      PROVE  /\ Last(grant_receipts'[n]).issuer = issued[n].issuer
             /\ Last(grant_receipts'[n]).to = Last(grants'[n])
  <2>1. grant_receipts'[n] # grant_receipts[n]
    BY <1>1 DEF DataFactsInv, Receipted
  <2>2. PICK r \in Requesters : RequestAccess(n, r)
    <3>1. PICK m \in Names, r \in Requesters : RequestAccess(m, r)
      BY <1>1, <2>1 DEF Next, vars, Publish, EditObject, EditReceipt
    <3>2. m = n
      BY <1>1, <2>1, <3>1, GrantAppends
    <3>3. QED
      BY <3>1, <3>2
  <2>3. /\ grants'[n][Len(grants'[n])] = r
        /\ grant_receipts'[n][Len(grants'[n])] = [issuer |-> heap[datasets[n]].owner, to |-> r]
        /\ Len(grant_receipts'[n]) = Len(grants'[n])
    BY <1>1, <2>2, GrantAppends DEF OneGranted, Receipted
  <2>4. heap[datasets[n]].owner = issued[n].issuer
    <3>1. issued[n] = Signed(heap[datasets[n]])
      BY <1>1, ServedIsCommitted DEF SignedTogether
    <3>2. QED
      BY <3>1 DEF Signed
  <2>5. QED
    BY <2>3, <2>4 DEF Last
<1>2. DataFactsInv /\ [Next]_vars =>
        [\A n \in Names :
           (Len(grant_receipts[n])' > Len(grant_receipts[n]) /\ Fetch(n) = "served") =>
             LET receipt == Last(grant_receipts'[n])
             IN  /\ receipt.issuer = issued[n].issuer
                 /\ receipt.to = Last(grants'[n])]_vars
  BY <1>1
<1>3. QED
  BY <1>2, DataFactsInvariant, PTL DEF Spec, FetchedGrantsAttributable

-----------------------------------------------------------------------------

\* Grants and their receipts are only ever added to.
LEMMA GrantsStay ==
  ASSUME DataFactsInv, [Next]_vars, NEW n \in Names
  PROVE  \A i \in DOMAIN grants[n] : /\ i \in DOMAIN grants'[n]
                                     /\ grants'[n][i] = grants[n][i]
                                     /\ grant_receipts'[n][i] = grant_receipts[n][i]
<1>1. Receipted(grants[n], grant_receipts[n])
  BY DEF DataFactsInv
<1>2. CASE UNCHANGED <<grants, grant_receipts>>
  BY <1>2
<1>3. ASSUME NEW m \in Names, NEW r \in Requesters, RequestAccess(m, r)
      PROVE  \A i \in DOMAIN grants[n] : /\ i \in DOMAIN grants'[n]
                                         /\ grants'[n][i] = grants[n][i]
                                         /\ grant_receipts'[n][i] = grant_receipts[n][i]
  <2>1. CASE m = n
    <3>1. RequestAccess(n, r)
      BY <1>3, <2>1
    <3>2. OneGranted(grants[n], grant_receipts[n], grants'[n], grant_receipts'[n],
                     [issuer |-> heap[datasets[n]].owner, to |-> r])
      BY <3>1, GrantAppends
    <3>3. /\ DOMAIN grants[n] = 1 .. Len(grants[n]) /\ Len(grants[n]) \in Nat
          /\ DOMAIN grants'[n] = 1 .. Len(grants[n]) + 1
      BY <1>1, <3>2 DEF Receipted, OneGranted
    <3>4. QED
      BY <3>2, <3>3 DEF OneGranted
  <2>2. CASE m # n
    BY <1>3, <2>2, GrantAppends
  <2>3. QED
    BY <2>1, <2>2
<1>4. QED
  BY <1>2, <1>3 DEF Next, vars, Publish, EditObject, EditReceipt

\* A message has its grant, and the receipt its owner signed for it.
Attested(m, given, receipts) ==
  \E i \in DOMAIN given \cap DOMAIN receipts :
    given[i] = m.by /\ receipts[i] = [issuer |-> m.owner, to |-> m.by]

MessagesAttested ==
  \A m \in sent : m.name \in Names /\ Attested(m, grants[m.name], grant_receipts[m.name])

\* What a message reports stays under its name.
LEMMA AttestedStays ==
  ASSUME DataFactsInv, DataFactsInv', [Next]_vars, MessagesAttested, NEW m \in sent
  PROVE  m.name \in Names /\ Attested(m, grants'[m.name], grant_receipts'[m.name])
<1> DEFINE n == m.name
<1>1. n \in Names
  BY DEF MessagesAttested
<1>2. PICK i \in DOMAIN grants[n] :
        grants[n][i] = m.by /\ grant_receipts[n][i] = [issuer |-> m.owner, to |-> m.by]
  BY DEF MessagesAttested, Attested
<1>3. /\ i \in DOMAIN grants'[n]
      /\ grants'[n][i] = m.by
      /\ grant_receipts'[n][i] = [issuer |-> m.owner, to |-> m.by]
  BY <1>1, <1>2, GrantsStay
<1>4. DOMAIN grants'[n] = DOMAIN grant_receipts'[n]
  BY <1>1 DEF DataFactsInv, Receipted
<1>5. QED
  BY <1>1, <1>3, <1>4 DEF Attested

\* A message is sent with the grant that it reports.
LEMMA SentWithGrant ==
  ASSUME DataFactsInv, NEW a \in Agents, OnConsume(a), NEW m \in sent' \ sent
  PROVE  m.name \in Names /\ Attested(m, grants'[m.name], grant_receipts'[m.name])
<1> DEFINE n == Peer[a]
           owner == heap[datasets[n]].owner
<1>1. RequestAccess(n, a) /\ m = [by |-> a, name |-> n, owner |-> owner]
  BY DEF OnConsume
<1>2. n \in Names /\ a \in Requesters
  BY ProvenanceAssumption
<1> HIDE DEF n
<1>3. OneGranted(grants[n], grant_receipts[n], grants'[n], grant_receipts'[n],
                 [issuer |-> owner, to |-> a])
  BY <1>1, <1>2, GrantAppends
<1> HIDE DEF owner
<1>4. /\ Len(grants[n]) \in Nat
      /\ DOMAIN grants'[n] = 1 .. Len(grants'[n])
      /\ DOMAIN grant_receipts'[n] = 1 .. Len(grants'[n])
      /\ Len(grants'[n]) = Len(grants[n]) + 1
  <2>1. Receipted(grants[n], grant_receipts[n])
    BY <1>2 DEF DataFactsInv
  <2>2. Receipted(grants'[n], grant_receipts'[n]) /\ Len(grants'[n]) = Len(grants[n]) + 1
    BY <1>3 DEF OneGranted
  <2>3. QED
    BY <2>1, <2>2, ReceiptedDomains
<1>5. m.by = a /\ m.name = n /\ m.owner = owner
  BY <1>1
<1>6. QED
  BY <1>2, <1>3, <1>4, <1>5 DEF OneGranted, Attested

\* Each access message is backed, for good, by a grant to its sender whose
\* receipt the owner it names has signed (datafacts_provenance.py:65-66).
THEOREM AccessIsAttested == ScenarioSpec => []AccessAttested
<1>1. ScenarioInit => MessagesAttested
  BY DEF ScenarioInit, MessagesAttested
<1>2. MessagesAttested /\ DataFactsInv /\ DataFactsInv' /\ [ScenarioNext]_allvars => MessagesAttested'
  <2> SUFFICES ASSUME MessagesAttested, DataFactsInv, DataFactsInv', [ScenarioNext]_allvars,
                      NEW m \in sent'
               PROVE  m.name \in Names /\ Attested(m, grants'[m.name], grant_receipts'[m.name])
    BY DEF MessagesAttested
  <2>1. CASE m \in sent
    BY <2>1, StepOfScenario, AttestedStays
  <2>2. CASE m \notin sent
    <3>1. PICK a \in Agents : OnConsume(a)
      BY <2>2 DEF ScenarioNext, allvars, scenario, OnStart, Others, OtherPublishes, OtherRequests,
         OtherEdits, OtherEditsReceipt
    <3>2. QED
      BY <2>2, <3>1, SentWithGrant
  <2>3. QED
    BY <2>1, <2>2
<1>3. MessagesAttested => AccessAttested
  BY DEF MessagesAttested, AccessAttested, Attested
<1>4. ScenarioSpec => []DataFactsInv
  BY ScenarioUsesDataFacts, DataFactsInvariant, PTL
<1>5. QED
  BY <1>1, <1>2, <1>3, <1>4, PTL DEF ScenarioSpec
=============================================================================
