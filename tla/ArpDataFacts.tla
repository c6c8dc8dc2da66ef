---------------------------- MODULE ArpDataFacts ----------------------------
(***************************************************************************)
(* ArpDataFacts (src/nest_adapters/datafacts_arp.py): datasets published   *)
(* under df://<name> with a signed provenance receipt, fetched through an  *)
(* integrity gate, and access grants with receipts of their own.           *)
(*                                                                         *)
(* The layer keeps and hands out the metadata OBJECT it was given, and the *)
(* receipt it made, not copies: whoever holds one may edit it between two  *)
(* calls.  content_hash is injective on what it covers, so a hash is the   *)
(* content.  An edited receipt no longer verifies, unless what it is made  *)
(* into is a receipt somebody signed, for another content or owner too:    *)
(* fetch asks no more of it.  So the properties are about the receipt that *)
(* publish issued.                                                         *)
(***************************************************************************)
EXTENDS Naturals, Sequences, SequencesExt

CONSTANTS
  Names, Owners, Bodies, Requesters,
  Objects,     \* the DatasetMetadata objects callers hold
  Nothing,     \* the None of a dict's get
  MaxGrants    \* bound: grants under one name

\* The content fields of a dataset; the time stamps are not hashed.
Content == [name : Names, owner : Owners, body : Bodies]

\* A provenance receipt: its signer, the hash signed, whether it still verifies.
Receipt == [issuer : Owners, hash : Content, intact : BOOLEAN]

ASSUME DataFactsAssumption == MaxGrants \in Nat /\ Nothing \notin Objects \cup Receipt

VARIABLES
  heap,            \* the content of each object
  datasets,        \* _datasets: the object under each name
  provenance,      \* _provenance: the receipt under each name
  commit,          \* _commit
  grants,          \* _grants: the grantees, in order
  grant_receipts,  \* _grant_receipts: the signer, and to whom
  issued           \* history: the receipt publish made for what is under each name

vars == <<heap, datasets, provenance, commit, grants, grant_receipts, issued>>

Init ==
  /\ heap \in [Objects -> Content]
  /\ datasets = [n \in Names |-> Nothing]
  /\ provenance = [n \in Names |-> Nothing]
  /\ commit = [n \in Names |-> Nothing]
  /\ grants = [n \in Names |-> <<>>]
  /\ grant_receipts = [n \in Names |-> <<>>]
  /\ issued = [n \in Names |-> Nothing]

-----------------------------------------------------------------------------
(* verify_freshness, fetch: what they answer in the current state. *)

\* verify_freshness: the receipt verifies, whatever it says.
Fresh(n) == provenance[n] # Nothing /\ provenance[n].intact

Fetch_ReceiptOnly(n) ==
  IF datasets[n] = Nothing THEN "unknown"
  ELSE IF ~Fresh(n) THEN "bad receipt" ELSE "served"

\* fetch: the metadata, or the reason it raises.
Fetch(n) ==
  CASE datasets[n] = Nothing              -> "unknown"
    [] datasets[n] # Nothing /\ ~Fresh(n) -> "bad receipt"
    [] datasets[n] # Nothing /\ Fresh(n)  ->
         IF heap[datasets[n]] # commit[n] THEN "tampered" ELSE "served"

-----------------------------------------------------------------------------
(* The calls that change state, and the edits of the holders. *)

\* issue_receipt, with the key of the owner the content names.
Signed(content) == [issuer |-> content.owner, hash |-> content, intact |-> TRUE]

Publish_KeepsCommit(o) ==
  LET n == heap[o].name
  IN  /\ datasets' = [datasets EXCEPT ![n] = o]
      /\ provenance' = [provenance EXCEPT ![n] = Signed(heap[o])]
      /\ issued' = [issued EXCEPT ![n] = Signed(heap[o])]
      /\ commit' = [commit EXCEPT ![n] = IF @ = Nothing THEN heap[o] ELSE @]
      /\ UNCHANGED <<heap, grants, grant_receipts>>

Publish_DropsReceipts(o) ==
  LET n == heap[o].name
  IN  /\ datasets' = [datasets EXCEPT ![n] = o]
      /\ provenance' = [provenance EXCEPT ![n] = Signed(heap[o])]
      /\ issued' = [issued EXCEPT ![n] = Signed(heap[o])]
      /\ commit' = [commit EXCEPT ![n] = heap[o]]
      /\ grant_receipts' = [grant_receipts EXCEPT ![n] = <<>>]
      /\ UNCHANGED <<heap, grants>>

\* publish, also of a name that is taken, by another owner: the entry, its
\* receipt and its commitment are replaced, the grants under the name stay.
Publish(o) ==
  LET n == heap[o].name
  IN  /\ datasets' = [datasets EXCEPT ![n] = o]
      /\ provenance' = [provenance EXCEPT ![n] = Signed(heap[o])]
      /\ issued' = [issued EXCEPT ![n] = Signed(heap[o])]
      /\ commit' = [commit EXCEPT ![n] = heap[o]]
      /\ UNCHANGED <<heap, grants, grant_receipts>>

RequestAccess_SignedByRequester(n, r) ==
  /\ datasets[n] # Nothing
  /\ Len(grants[n]) < MaxGrants
  /\ grants' = [grants EXCEPT ![n] = Append(@, r)]
  /\ grant_receipts' = [grant_receipts EXCEPT ![n] = Append(@, [issuer |-> r, to |-> r])]
  /\ UNCHANGED <<heap, datasets, provenance, commit, issued>>

\* request_access: signed with the key of the owner the object names now;
\* the integrity gate of fetch is not passed.
RequestAccess(n, r) ==
  /\ datasets[n] # Nothing
  /\ Len(grants[n]) < MaxGrants
  /\ grants' = [grants EXCEPT ![n] = Append(@, r)]
  /\ grant_receipts' = [grant_receipts EXCEPT ![n] =
                          Append(@, [issuer |-> heap[datasets[n]].owner, to |-> r])]
  /\ UNCHANGED <<heap, datasets, provenance, commit, issued>>

\* A holder of a metadata object assigns to its fields.
EditObject(o, c) ==
  /\ heap' = [heap EXCEPT ![o] = c]
  /\ UNCHANGED <<datasets, provenance, commit, grants, grant_receipts, issued>>

\* A holder of the receipt provenance() returned assigns to its fields: it
\* no longer verifies, or it is now another one, of any owner and content.
EditReceipt(n, receipt) ==
  /\ provenance[n] # Nothing
  /\ provenance' = [provenance EXCEPT ![n] = receipt]
  /\ UNCHANGED <<heap, datasets, commit, grants, grant_receipts, issued>>

Next ==
  \/ \E o \in Objects : Publish(o)
  \/ \E n \in Names, r \in Requesters : RequestAccess(n, r)
  \/ \E o \in Objects, c \in Content : EditObject(o, c)
  \/ \E n \in Names, receipt \in Receipt : EditReceipt(n, receipt)

Spec == Init /\ [][Next]_vars

-----------------------------------------------------------------------------
(* Properties. *)

\* datafacts_arp.py:13-15: what fetch returns is what the owner it names has
\* signed when it was published, under the name it was asked for, whoever
\* edited the object, put another one under the name, published the same
\* object under two names, or put another receipt in place of the one issued.
\* That receipt, the one provenance returns then, may name anybody.
ServedAsSigned ==
  \A n \in Names :
    Fetch(n) = "served" =>
      LET meta == heap[datasets[n]]
      IN  meta.name = n /\ issued[n] = Signed(meta)

\* A requester that fetched the dataset first, as the datafacts_provenance
\* scenario does, gets a grant receipt signed by the very owner that signed
\* the dataset when it was published, whatever receipt provenance returns
\* (datafacts_arp.py:16-17, 146-158).
FetchedGrantsAttributable ==
  [][\A n \in Names :
       (Len(grant_receipts[n])' > Len(grant_receipts[n]) /\ Fetch(n) = "served") =>
         LET receipt == Last(grant_receipts'[n])
         IN  /\ receipt.issuer = issued[n].issuer
             /\ receipt.to = Last(grants'[n])]_vars
=============================================================================
