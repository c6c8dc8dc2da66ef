----------------------- MODULE RotatingIdentityProofs -----------------------
(***************************************************************************)
(* Proofs about RotatingIdentity, for every set of agents and every bound. *)
(* Of the histories: the type invariant; that the windows a verifier keeps *)
(* for an agent's keys come in order and do not overlap, whatever the      *)
(* transport does; that own keys stay private unless a broadcast comes     *)
(* back to its sender; that resolve is current if nothing is redelivered   *)
(* either.  Of the verdicts, under every transport: an honest signature    *)
(* audited at its own tick is accepted, verdicts on replaced keys never    *)
(* change, every verdict is the one the generations prescribe; and that    *)
(* the histories implement KeyGenerations.                                 *)
(***************************************************************************)
EXTENDS RotatingIdentity, WellFoundedInduction, TLAPS

-----------------------------------------------------------------------------
(* The operators of KeyWindows: where the first record of a key is, and    *)
(* what closing a record and appending another does to it.                 *)

\* The library's well-founded order on the naturals is the usual one.
LEMMA LessThanOnNat == OpToRel(<, Nat) = {p \in Nat \X Nat : p[1] < p[2]}
  BY Zenon DEF OpToRel

\* A set of naturals that has an element has a least one, and Min is it.
LEMMA MinIsLeast ==
  ASSUME NEW S \in SUBSET Nat, S # {}
  PROVE  Min(S) \in S /\ \A y \in S : Min(S) <= y
<1>1. PICK x \in S : \A y \in S : ~ (<<y, x>> \in OpToRel(<, Nat))
  BY NatLessThanWellFounded, WFMin, Zenon
<1>2. \A y \in S : ~ (<<y, x>> \in {p \in Nat \X Nat : p[1] < p[2]})
  BY <1>1, LessThanOnNat, Zenon
<1>3. \A y \in S : ~ (y < x)
  BY <1>2
<1>4. \A y \in S : x <= y
  BY <1>3
<1>5. QED
  BY <1>4, Zenon DEF Min

\* A set of naturals that has a bound and an element has a largest element,
\* and Max is it.
LEMMA MaxIsLargest ==
  ASSUME NEW n \in Nat, NEW S \in SUBSET (0 .. n), S # {}
  PROVE  Max(S) \in S /\ \A y \in S : Max(S) >= y
<1> DEFINE T == {n - y : y \in S}
<1>1. T \in SUBSET Nat /\ T # {}
  <2>1. \A y \in S : n - y \in Nat
    OBVIOUS
  <2>2. PICK y \in S : TRUE
    OBVIOUS
  <2>3. n - y \in T
    OBVIOUS
  <2>4. QED
    BY <2>1, <2>3
<1>2. PICK y \in S : Min(T) = n - y
  <2> HIDE DEF T
  <2>1. Min(T) \in T
    BY <1>1, MinIsLeast
  <2>2. QED
    BY <2>1 DEF T
<1>3. \A z \in S : n - y <= n - z
  <2>1. \A z \in S : n - z \in T
    OBVIOUS
  <2> HIDE DEF T
  <2>2. \A m \in T : Min(T) <= m
    BY <1>1, MinIsLeast
  <2>3. QED
    BY <1>2, <2>1, <2>2
<1>4. \A z \in S : y >= z
  BY <1>3
<1>5. QED
  BY <1>4, Zenon DEF Max

\* The fields of the records of a history have their types.
LEMMA RecordFields ==
  ASSUME NEW recs \in Seq(KeyRecord)
  PROVE  /\ DOMAIN recs = 1 .. Len(recs)
         /\ \A i \in 1 .. Len(recs) :
              /\ recs[i].key \in Nat
              /\ recs[i].issued_at \in Tick
              /\ recs[i].rotated_out \in Tick \cup {Inf}
              /\ recs[i].private \in BOOLEAN
<1>1. \A r \in KeyRecord : /\ r.key \in Nat
                           /\ r.issued_at \in Tick
                           /\ r.rotated_out \in Tick \cup {Inf}
                           /\ r.private \in BOOLEAN
  BY DEF KeyRecord
<1>2. \A i \in 1 .. Len(recs) : recs[i] \in KeyRecord
  OBVIOUS
<1>3. QED
  BY <1>1, <1>2

\* FindRecord is the position of the first record of the key, or 0.
LEMMA FindRecordIsFirst ==
  ASSUME NEW recs \in Seq(KeyRecord), NEW k
  PROVE  /\ FindRecord(recs, k) \in 0 .. Len(recs)
         /\ Holds(recs, k) <=> \E i \in 1 .. Len(recs) : recs[i].key = k
         /\ Holds(recs, k) => /\ FindRecord(recs, k) \in 1 .. Len(recs)
                              /\ recs[FindRecord(recs, k)].key = k
         /\ \A i \in 1 .. Len(recs) : recs[i].key = k => FindRecord(recs, k) <= i
<1> DEFINE S == {i \in 1 .. Len(recs) : recs[i].key = k}
<1>1. FindRecord(recs, k) = IF S # {} THEN Min(S) ELSE 0
  BY DEF FindRecord, SelectInSeq
<1>2. CASE S = {}
  BY <1>1, <1>2 DEF Holds
<1>3. CASE S # {}
  <2>1. Min(S) \in S /\ \A y \in S : Min(S) <= y
    <3> HIDE DEF S
    <3>1. S \in SUBSET Nat
      BY DEF S
    <3> QED BY <1>3, <3>1, MinIsLeast
  <2> QED BY <1>1, <1>3, <2>1 DEF Holds
<1>4. QED
  BY <1>2, <1>3

\* The record _active_record picks is in the list, and is the first open one
\* when there is an open one.
LEMMA ActiveIndexInRange ==
  ASSUME NEW recs \in Seq(KeyRecord), recs # <<>>
  PROVE  /\ ActiveIndex(recs) \in 1 .. Len(recs)
         /\ ActiveRecord(recs) \in KeyRecord
         /\ (\E i \in 1 .. Len(recs) : recs[i].rotated_out = Inf)
              => ActiveRecord(recs).rotated_out = Inf
<1> DEFINE S == {i \in 1 .. Len(recs) : recs[i].rotated_out = Inf}
<1>1. ActiveIndex(recs) = IF (IF S # {} THEN Min(S) ELSE 0) # 0
                          THEN (IF S # {} THEN Min(S) ELSE 0) ELSE Len(recs)
  BY DEF ActiveIndex, SelectInSeq
<1>2. CASE S = {}
  <2>1. ActiveIndex(recs) = Len(recs)
    BY <1>1, <1>2
  <2>2. QED
    BY <1>2, <2>1 DEF ActiveRecord
<1>3. CASE S # {}
  <2>1. S \in SUBSET Nat
    OBVIOUS
  <2>2. Min(S) \in S
    <3> HIDE DEF S
    <3> QED BY <1>3, <2>1, MinIsLeast
  <2>3. ActiveIndex(recs) = Min(S)
    BY <1>1, <1>3, <2>2
  <2>4. QED
    BY <2>2, <2>3 DEF ActiveRecord
<1>4. QED
  BY <1>2, <1>3

\* A new record is a record of the history type.
LEMMA NewRecordType ==
  ASSUME NEW k \in Nat, NEW t \in Tick, NEW p \in BOOLEAN
  PROVE  NewRecord(k, t, p) \in KeyRecord
BY MaxTickAssumption DEF NewRecord, KeyRecord, Tick, Inf

\* What a rotation, own or observed, makes of a history: record i is closed
\* at t, record r follows, and nothing else changes.
Grow(recs, i, t, r) == Append(CloseAt(recs, i, t), r)

\* The same, said of the records of the result.
GrownBy(new, recs, i, t, r) ==
  /\ new \in Seq(KeyRecord)
  /\ Len(new) = Len(recs) + 1
  /\ new[Len(recs) + 1] = r
  /\ \A j \in 1 .. Len(recs) : j # i => new[j] = recs[j]
  /\ new[i].key = recs[i].key
  /\ new[i].issued_at = recs[i].issued_at
  /\ new[i].private = recs[i].private
  /\ new[i].rotated_out = t

\* The result is a history again, as GrownBy says.
LEMMA GrowRecords ==
  ASSUME NEW recs \in Seq(KeyRecord), NEW i \in 1 .. Len(recs),
         NEW t \in Tick, NEW r \in KeyRecord
  PROVE  GrownBy(Grow(recs, i, t, r), recs, i, t, r)
<1> DEFINE new == Grow(recs, i, t, r)
<1>1. CloseAt(recs, i, t) \in Seq(KeyRecord) /\ Len(CloseAt(recs, i, t)) = Len(recs)
  <2>1. \A e \in KeyRecord : [e EXCEPT !.rotated_out = t] \in KeyRecord
    BY DEF KeyRecord
  <2>2. QED
    BY <2>1 DEF CloseAt
<1>2. \A j \in 1 .. Len(recs) :
        CloseAt(recs, i, t)[j] = IF j = i THEN [recs[j] EXCEPT !.rotated_out = t] ELSE recs[j]
  BY DEF CloseAt
<1>3. \A e \in KeyRecord : /\ [e EXCEPT !.rotated_out = t].key = e.key
                           /\ [e EXCEPT !.rotated_out = t].issued_at = e.issued_at
                           /\ [e EXCEPT !.rotated_out = t].private = e.private
                           /\ [e EXCEPT !.rotated_out = t].rotated_out = t
  BY DEF KeyRecord
<1>4. /\ CloseAt(recs, i, t)[i].key = recs[i].key
      /\ CloseAt(recs, i, t)[i].issued_at = recs[i].issued_at
      /\ CloseAt(recs, i, t)[i].private = recs[i].private
      /\ CloseAt(recs, i, t)[i].rotated_out = t
  <2>1. recs[i] \in KeyRecord
    OBVIOUS
  <2>2. CloseAt(recs, i, t)[i] = [recs[i] EXCEPT !.rotated_out = t]
    BY <1>2, Zenon
  <2>3. QED
    BY <1>3, <2>1, <2>2, Zenon
<1>5. QED
  <2>1. CloseAt(recs, i, t) \in Seq(KeyRecord) /\ new = Append(CloseAt(recs, i, t), r)
    BY <1>1 DEF Grow
  <2>2. \A j \in 1 .. Len(recs) : j # i => CloseAt(recs, i, t)[j] = recs[j]
    BY <1>2, Zenon
  <2>3. /\ new \in Seq(KeyRecord) /\ Len(new) = Len(recs) + 1 /\ new[Len(recs) + 1] = r
        /\ \A j \in 1 .. Len(recs) : new[j] = CloseAt(recs, i, t)[j]
    BY <1>1, <2>1
  <2> HIDE DEF new
  <2>4. GrownBy(new, recs, i, t, r)
    BY <1>4, <2>2, <2>3, Zenon DEF GrownBy
  <2>5. QED
    BY <2>4 DEF new

\* Growing a history moves no first record; a key that was not there is
\* found at the end.
FindsAfter(new, recs, k) ==
  \A m : /\ Holds(recs, m) => FindRecord(new, m) = FindRecord(recs, m)
         /\ ~Holds(recs, m) /\ m = k => FindRecord(new, m) = Len(recs) + 1
         /\ Holds(new, m) <=> (Holds(recs, m) \/ m = k)

\* So it is, for each rotation of a history.
LEMMA GrowFinds ==
  ASSUME NEW recs \in Seq(KeyRecord), NEW i \in 1 .. Len(recs),
         NEW t \in Tick, NEW r \in KeyRecord
  PROVE  FindsAfter(Grow(recs, i, t, r), recs, r.key)
<1> DEFINE new == Grow(recs, i, t, r)
<1> SUFFICES ASSUME NEW m
             PROVE  /\ Holds(recs, m) => FindRecord(new, m) = FindRecord(recs, m)
                    /\ ~Holds(recs, m) /\ m = r.key => FindRecord(new, m) = Len(recs) + 1
                    /\ Holds(new, m) <=> (Holds(recs, m) \/ m = r.key)
  BY DEF FindsAfter
<1> HIDE DEF new
<1>1. /\ new \in Seq(KeyRecord)
      /\ Len(new) = Len(recs) + 1
      /\ new[Len(recs) + 1].key = r.key
      /\ \A j \in 1 .. Len(recs) : new[j].key = recs[j].key
  <2>1. GrownBy(new, recs, i, t, r)
    BY GrowRecords, Zenon DEF new
  <2>2. QED
    BY <2>1, Zenon DEF GrownBy
<1>2. /\ FindRecord(recs, m) \in 0 .. Len(recs)
      /\ Holds(recs, m) <=> \E j \in 1 .. Len(recs) : recs[j].key = m
      /\ Holds(recs, m) => /\ FindRecord(recs, m) \in 1 .. Len(recs)
                           /\ recs[FindRecord(recs, m)].key = m
      /\ \A j \in 1 .. Len(recs) : recs[j].key = m => FindRecord(recs, m) <= j
  BY FindRecordIsFirst
<1>3. /\ FindRecord(new, m) \in 0 .. Len(new)
      /\ Holds(new, m) <=> \E j \in 1 .. Len(new) : new[j].key = m
      /\ Holds(new, m) => /\ FindRecord(new, m) \in 1 .. Len(new)
                           /\ new[FindRecord(new, m)].key = m
      /\ \A j \in 1 .. Len(new) : new[j].key = m => FindRecord(new, m) <= j
  BY <1>1, FindRecordIsFirst
<1>4. QED
  BY <1>1, <1>2, <1>3

-----------------------------------------------------------------------------
(* Histories of generations. *)

\* A history of generations stays one when the agent rotates elsewhere.
LEMMA HistoryExtends ==
  ASSUME NEW recs \in Seq(KeyRecord), recs # <<>>,
         NEW n \in Nat, NEW m \in Nat, n <= m, NEW I, NEW J,
         \A k \in 0 .. n : J[k] = I[k],
         HistoryOK(recs, n, I)
  PROVE  HistoryOK(recs, m, J)
<1>1. \A k \in Nat : Holds(recs, k) => k <= n
  BY FindRecordIsFirst DEF HistoryOK
<1>2. \A k \in 0 .. m :
        Holds(recs, k) =>
          /\ k # recs[1].key => recs[FindRecord(recs, k)].issued_at = J[k]
          /\ recs[FindRecord(recs, k)].rotated_out = IF Holds(recs, k + 1) THEN J[k + 1] ELSE Inf
  <2> SUFFICES ASSUME NEW k \in 0 .. m, Holds(recs, k)
               PROVE  /\ k # recs[1].key => recs[FindRecord(recs, k)].issued_at = J[k]
                      /\ recs[FindRecord(recs, k)].rotated_out
                           = IF Holds(recs, k + 1) THEN J[k + 1] ELSE Inf
    OBVIOUS
  <2>1. k \in 0 .. n
    BY <1>1
  <2>2. Holds(recs, k + 1) => k + 1 \in 0 .. n
    BY <1>1
  <2>3. QED
    BY <2>1, <2>2 DEF HistoryOK
<1>3. \A i \in DOMAIN recs : recs[1].key <= recs[i].key /\ recs[i].key <= m
  <2>1. \A i \in DOMAIN recs : recs[i].key \in Nat
    BY RecordFields
  <2>2. QED
    BY <2>1 DEF HistoryOK
<1>4. QED
  BY <1>2, <1>3 DEF HistoryOK

\* Closing the first record of a held generation at the issue of the next
\* one, and appending the next one, makes a history of generations again,
\* whether or not the next one was there already.
LEMMA HistoryGrows ==
  ASSUME NEW recs \in Seq(KeyRecord), recs # <<>>,
         NEW n \in Nat, NEW I,
         HistoryOK(recs, n, I),
         NEW p \in Nat, Holds(recs, p), p + 1 <= n,
         NEW r \in KeyRecord,
         r.key = p + 1, r.issued_at = I[p + 1], r.rotated_out = Inf
  PROVE  HistoryOK(Grow(recs, FindRecord(recs, p), I[p + 1], r), n, I)
<1> DEFINE i == FindRecord(recs, p)
           new == Grow(recs, i, I[p + 1], r)
<1>0. i \in 1 .. Len(recs) /\ recs[i].key = p /\ 1 \in DOMAIN recs /\ I[p + 1] \in Tick
  <2>1. r.issued_at \in Tick
    BY DEF KeyRecord
  <2>2. QED
    BY <2>1, FindRecordIsFirst
<1> HIDE DEF i
<1>1. /\ new \in Seq(KeyRecord)
      /\ Len(new) = Len(recs) + 1
      /\ new[Len(recs) + 1] = r
      /\ \A j \in 1 .. Len(recs) :
           /\ new[j].key = recs[j].key
           /\ new[j].issued_at = recs[j].issued_at
           /\ new[j].rotated_out = IF j = i THEN I[p + 1] ELSE recs[j].rotated_out
  <2>1. GrownBy(new, recs, i, I[p + 1], r)
    BY <1>0, GrowRecords, Zenon
  <2> HIDE DEF new
  <2>2. QED
    BY <2>1, Zenon DEF GrownBy
<1>2. \A m : /\ Holds(recs, m) => FindRecord(new, m) = FindRecord(recs, m)
             /\ ~Holds(recs, m) /\ m = p + 1 => FindRecord(new, m) = Len(recs) + 1
             /\ Holds(new, m) <=> (Holds(recs, m) \/ m = p + 1)
  <2>1. FindsAfter(new, recs, r.key)
    BY <1>0, GrowFinds, Zenon
  <2> HIDE DEF new
  <2>2. QED
    BY <2>1 DEF FindsAfter
<1> HIDE DEF new
<1>3. /\ new[1].key = recs[1].key
      /\ new[1].issued_at = 0
  BY <1>0, <1>1 DEF HistoryOK
<1>4. recs[1].key \in Nat /\ recs[1].key <= p
  BY <1>0, RecordFields DEF HistoryOK
<1>5. \A j \in 1 .. Len(recs) : recs[j].key \in Nat
  BY RecordFields
<1>6. new[Len(recs) + 1].key = p + 1 /\ new[Len(recs) + 1].issued_at = I[p + 1]
      /\ new[Len(recs) + 1].rotated_out = Inf
  BY <1>1
<1>7. \A j \in DOMAIN new : new[1].key <= new[j].key /\ new[j].key <= n
  <2> SUFFICES ASSUME NEW j \in DOMAIN new
               PROVE  new[1].key <= new[j].key /\ new[j].key <= n
    OBVIOUS
  <2>1. CASE j \in 1 .. Len(recs)
    <3>1. recs[1].key <= recs[j].key /\ recs[j].key <= n
      BY <2>1 DEF HistoryOK
    <3>2. QED
      BY <1>1, <1>3, <2>1, <3>1
  <2>2. CASE j = Len(recs) + 1
    BY <1>3, <1>4, <1>6, <2>2
  <2>3. QED
    BY <1>1, <2>1, <2>2
<1>8. \A j \in DOMAIN new : \A k \in new[1].key .. new[j].key : Holds(new, k)
  <2> SUFFICES ASSUME NEW j \in DOMAIN new, NEW k \in new[1].key .. new[j].key
               PROVE  Holds(new, k)
    OBVIOUS
  <2>1. CASE j \in 1 .. Len(recs)
    BY <1>1, <1>2, <1>3, <2>1 DEF HistoryOK
  <2>2. CASE j = Len(recs) + 1
    <3>1. k = p + 1 \/ k \in recs[1].key .. recs[i].key
      BY <1>0, <1>3, <1>4, <1>6, <2>2
    <3>2. QED
      BY <1>0, <1>2, <3>1 DEF HistoryOK
  <2>3. QED
    BY <1>1, <2>1, <2>2
<1>9. \A k \in 0 .. n :
        Holds(new, k) =>
          /\ k # new[1].key => new[FindRecord(new, k)].issued_at = I[k]
          /\ new[FindRecord(new, k)].rotated_out = IF Holds(new, k + 1) THEN I[k + 1] ELSE Inf
  <2> SUFFICES ASSUME NEW k \in 0 .. n, Holds(new, k)
               PROVE  /\ k # new[1].key => new[FindRecord(new, k)].issued_at = I[k]
                      /\ new[FindRecord(new, k)].rotated_out
                           = IF Holds(new, k + 1) THEN I[k + 1] ELSE Inf
    OBVIOUS
  <2>1. CASE Holds(recs, k)
    <3>1. /\ FindRecord(new, k) = FindRecord(recs, k)
          /\ FindRecord(recs, k) \in 1 .. Len(recs)
          /\ recs[FindRecord(recs, k)].key = k
      BY <1>2, <2>1, FindRecordIsFirst
    <3>2. /\ k # recs[1].key => recs[FindRecord(recs, k)].issued_at = I[k]
          /\ recs[FindRecord(recs, k)].rotated_out = IF Holds(recs, k + 1) THEN I[k + 1] ELSE Inf
      BY <2>1 DEF HistoryOK
    <3>3. k # new[1].key => new[FindRecord(new, k)].issued_at = I[k]
      BY <1>1, <1>3, <3>1, <3>2
    <3>4. CASE k = p
      BY <1>1, <1>2, <3>1, <3>3, <3>4 DEF i
    <3>5. CASE k # p
      <4>1. FindRecord(recs, k) # i
        BY <1>0, <3>1, <3>5
      <4>2. Holds(new, k + 1) <=> Holds(recs, k + 1)
        BY <1>2, <3>5
      <4>3. QED
        BY <1>1, <3>1, <3>2, <3>3, <4>1, <4>2
    <3>6. QED
      BY <3>4, <3>5
  <2>2. CASE ~Holds(recs, k)
    <3>1. k = p + 1 /\ FindRecord(new, k) = Len(recs) + 1
      BY <1>2, <2>2
    <3>2. ~Holds(recs, k + 1)
      <4> SUFFICES ASSUME Holds(recs, k + 1) PROVE FALSE
        OBVIOUS
      <4>1. PICK j \in 1 .. Len(recs) : recs[j].key = k + 1
        BY FindRecordIsFirst
      <4>2. k \in recs[1].key .. recs[j].key
        BY <1>4, <3>1, <4>1
      <4>3. QED
        BY <2>2, <4>2 DEF HistoryOK
    <3>3. ~Holds(new, k + 1)
      BY <1>2, <3>1, <3>2
    <3>4. QED
      BY <1>6, <3>1, <3>3
  <2>3. QED
    BY <2>1, <2>2
<1>10. QED
  BY <1>3, <1>7, <1>8, <1>9 DEF HistoryOK, new, i

-----------------------------------------------------------------------------
(* The inductive invariant. *)

\* The initial state is one.
LEMMA InitEstablishes == Init => IndInv
<1> SUFFICES ASSUME Init PROVE IndInv
  OBVIOUS
<1>1. \A p \in BOOLEAN :
        LET one == <<NewRecord(0, 0, p)>>
        IN  /\ one \in Seq(KeyRecord)
            /\ Len(one) = 1
            /\ one[1].key = 0 /\ one[1].issued_at = 0 /\ one[1].rotated_out = Inf
  BY NewRecordType, MaxTickAssumption DEF NewRecord, Tick
<1>2. \A p \in BOOLEAN : \A k \in Nat :
        LET one == <<NewRecord(0, 0, p)>>
        IN  /\ Holds(one, k) <=> k = 0
            /\ FindRecord(one, 0) = 1
  <2> TAKE p \in BOOLEAN
  <2> TAKE k \in Nat
  <2> DEFINE one == <<NewRecord(0, 0, p)>>
  <2>1. one \in Seq(KeyRecord) /\ Len(one) = 1 /\ one[1].key = 0
    BY <1>1
  <2> HIDE DEF one
  <2>2. Holds(one, k) <=> k = 0
    BY <2>1, FindRecordIsFirst
  <2>3. Holds(one, 0)
    BY <2>1, FindRecordIsFirst
  <2>4. FindRecord(one, 0) \in 1 .. 1
    BY <2>1, <2>3, FindRecordIsFirst
  <2>5. QED
    BY <2>2, <2>4 DEF one
<1>3. \A v, a \in Agents :
        records[v][a] = <<>> \/ records[v][a] = <<NewRecord(0, 0, v = a)>>
  <2> TAKE v, a \in Agents
  <2>1. records[v][a] = IF v = a \/ Wired THEN <<NewRecord(0, 0, v = a)>> ELSE <<>>
    BY Zenon DEF Init
  <2>2. QED
    BY <2>1, Zenon
<1>4. \A a \in Agents : records[a][a] = <<NewRecord(0, 0, TRUE)>>
  BY DEF Init
<1>5. TypeOK
  <2>1. records \in [Agents -> [Agents -> Seq(KeyRecord)]]
    <3>1. \A v, a \in Agents :
            (IF v = a \/ Wired THEN <<NewRecord(0, 0, v = a)>> ELSE <<>>) \in Seq(KeyRecord)
      <4> TAKE v, a \in Agents
      <4>1. <<NewRecord(0, 0, v = a)>> \in Seq(KeyRecord)
        BY <1>1
      <4>2. <<>> \in Seq(KeyRecord)
        OBVIOUS
      <4>3. QED
        BY <4>1, <4>2, Zenon
    <3>2. QED
      BY <3>1, Zenon DEF Init
  <2>2. clock \in [Agents -> Tick] /\ count \in [Agents -> 0 .. MaxRotations]
    BY MaxTickAssumption, BoundsAssumption DEF Init, Tick
  <2>3. last \in [Agents -> Announcement]
    BY MaxTickAssumption DEF Init, NoRotation, Announcement, Tick
  <2>4. announced \in [Agents -> SUBSET Announcement]
        /\ delivered \in [Agents -> [Agents -> SUBSET Announcement]]
        /\ signed \subseteq Sig
    BY DEF Init
  <2>5. QED
    BY <2>1, <2>2, <2>3, <2>4 DEF TypeOK
<1>6. \A a \in Agents : count[a] = 0 /\ clock[a] = 0
  BY DEF Init
<1>7. \A a \in Agents : IssueTicks(a)[0] = 0
  <2> TAKE a \in Agents
  <2>1. FindRecord(records[a][a], 0) = 1 /\ records[a][a][1].issued_at = 0
    BY <1>1, <1>2, <1>4
  <2>2. QED
    BY <1>6, <2>1 DEF IssueTicks
<1>8. \A a \in Agents : OwnHistoryOK(a)
  <2> TAKE a \in Agents
  <2> DEFINE own == records[a][a]
  <2>1. own \in Seq(KeyRecord) /\ Len(own) = 1 /\ own[1].key = 0
        /\ FindRecord(own, 0) = 1 /\ Holds(own, 0)
    BY <1>1, <1>2, <1>4
  <2>2. QED
    BY <1>6, <1>7, <2>1 DEF OwnHistoryOK
<1>9. \A v, a \in Agents :
        records[v][a] # <<>> => HistoryOK(records[v][a], count[a], IssueTicks(a))
  <2> TAKE v, a \in Agents
  <2> HAVE records[v][a] # <<>>
  <2> DEFINE recs == records[v][a]
  <2>1. /\ recs \in Seq(KeyRecord) /\ Len(recs) = 1
        /\ recs[1].key = 0 /\ recs[1].issued_at = 0 /\ recs[1].rotated_out = Inf
        /\ FindRecord(recs, 0) = 1 /\ \A k \in Nat : Holds(recs, k) <=> k = 0
    <3>1. PICK p \in BOOLEAN : recs = <<NewRecord(0, 0, p)>>
      BY <1>3
    <3>2. QED
      BY <1>1, <1>2, <3>1
  <2> HIDE DEF recs
  <2>2. HistoryOK(recs, 0, IssueTicks(a))
    BY <2>1 DEF HistoryOK
  <2>3. QED
    BY <1>6, <2>2 DEF recs
<1>10. /\ \A a \in Agents : last[a] # NoRotation => GenuineRotation(a, last[a])
       /\ \A a \in Agents : \A ann \in announced[a] : GenuineRotation(a, ann)
  BY DEF Init
<1>11. QED
  BY <1>5, <1>8, <1>9, <1>10 DEF IndInv

\* Whatever leaves the histories, the counts and the announcements alone, and
\* turns no clock back, preserves it.
LEMMA QuietStep ==
  ASSUME IndInv, TypeOK', UNCHANGED <<count, last, records, announced>>,
         \A a \in Agents : clock[a] <= clock'[a]
  PROVE  IndInv'
<1>1. \A a \in Agents : IssueTicks(a)' = IssueTicks(a)
  BY DEF IssueTicks
<1>2. \A a \in Agents : OwnHistoryOK(a)'
  <2> TAKE a \in Agents
  <2>1. OwnHistoryOK(a)
    BY DEF IndInv
  <2>2. \A k \in 0 .. count[a] : IssueTicks(a)[k] \in Tick
    <3> TAKE k \in 0 .. count[a]
    <3>1. records[a][a] \in Seq(KeyRecord)
      BY DEF IndInv, TypeOK
    <3>2. Holds(records[a][a], k)
      BY <2>1 DEF OwnHistoryOK
    <3>3. records[a][a][FindRecord(records[a][a], k)].issued_at \in Tick
      BY <3>1, <3>2, FindRecordIsFirst, RecordFields
    <3>4. QED
      BY <3>3 DEF IssueTicks
  <2>3. clock[a] \in Tick /\ clock'[a] \in Tick
    BY DEF IndInv, TypeOK
  <2>4. \A k \in 0 .. count[a] : IssueTicks(a)[k] <= clock'[a]
    BY <2>1, <2>2, <2>3, MaxTickAssumption DEF OwnHistoryOK, Tick
  <2>5. QED
    BY <1>1, <2>1, <2>4 DEF OwnHistoryOK
<1>3. \A v, a \in Agents :
        records'[v][a] # <<>> => HistoryOK(records'[v][a], count'[a], IssueTicks(a)')
  BY <1>1 DEF IndInv
<1>4. \A a \in Agents : last'[a] # NoRotation => GenuineRotation(a, last[a])'
  BY <1>1 DEF IndInv, GenuineRotation
<1>5. \A a \in Agents : \A ann \in announced'[a] : GenuineRotation(a, ann)'
  BY <1>1 DEF IndInv, GenuineRotation
<1>6. QED
  BY <1>2, <1>3, <1>4, <1>5 DEF IndInv

\* advance_to keeps it: the clock moves forward.
LEMMA AdvanceToKeeps ==
  ASSUME IndInv, NEW a \in Agents, NEW t \in Tick, AdvanceTo(a, t)
  PROVE  IndInv'
<1>1. TypeOK'
  BY DEF IndInv, TypeOK, AdvanceTo
<1>2. \A b \in Agents : clock[b] <= clock'[b]
  BY MaxTickAssumption DEF IndInv, TypeOK, AdvanceTo, Tick
<1>3. QED
  BY <1>1, <1>2, QuietStep DEF AdvanceTo

\* sign keeps it: it changes no history.
LEMMA SignKeeps ==
  ASSUME IndInv, NEW a \in Agents, NEW t \in Tick, Sign(a, t)
  PROVE  IndInv'
<1>1. records[a][a] \in Seq(KeyRecord) /\ records[a][a] # <<>>
  BY DEF IndInv, TypeOK, OwnHistoryOK
<1>2. ActiveRecord(records[a][a]).key \in Nat
  BY <1>1, ActiveIndexInRange DEF KeyRecord
<1>3. TypeOK'
  BY <1>2 DEF IndInv, TypeOK, Sign, Sig
<1>4. \A b \in Agents : clock[b] <= clock'[b]
  BY MaxTickAssumption DEF IndInv, TypeOK, Sign, Tick
<1>5. QED
  BY <1>3, <1>4, QuietStep DEF Sign

\* Broadcasting the last rotation keeps it: that rotation happened.
LEMMA AnnounceKeeps ==
  ASSUME IndInv, NEW a \in Agents, Announce(a)
  PROVE  IndInv'
<1>1. TypeOK'
  BY DEF IndInv, TypeOK, Announce
<1>2. \A b \in Agents : /\ IssueTicks(b)' = IssueTicks(b)
                        /\ OwnHistoryOK(b)'
                        /\ \A ann : GenuineRotation(b, ann)' <=> GenuineRotation(b, ann)
  <2> USE DEF Announce
  <2>1. \A b \in Agents : IssueTicks(b)' = IssueTicks(b)
    BY DEF IssueTicks
  <2>2. \A b \in Agents : OwnHistoryOK(b)'
    BY <2>1 DEF IndInv, OwnHistoryOK
  <2>3. \A b \in Agents : \A ann : GenuineRotation(b, ann)' <=> GenuineRotation(b, ann)
    BY <2>1 DEF GenuineRotation
  <2>4. QED
    BY <2>1, <2>2, <2>3
<1>3. \A v, b \in Agents :
        records'[v][b] # <<>> => HistoryOK(records'[v][b], count'[b], IssueTicks(b)')
  BY <1>2 DEF IndInv, Announce
<1>4. \A b \in Agents : last'[b] # NoRotation => GenuineRotation(b, last[b])'
  BY <1>2 DEF IndInv, Announce
<1>5. \A b \in Agents : \A ann \in announced'[b] : GenuineRotation(b, ann)'
  BY <1>2 DEF IndInv, TypeOK, Announce
<1>6. QED
  BY <1>1, <1>2, <1>3, <1>4, <1>5 DEF IndInv

\* register_peer keeps it: one key of the peer, trusted from tick 0, is a
\* history of generations, whichever key it is.
LEMMA RegisterPeerKeeps ==
  ASSUME IndInv, NEW v \in Agents, NEW a \in Agents, NEW k \in 0 .. count[a],
         RegisterPeer(v, a, k)
  PROVE  IndInv'
<1> DEFINE one == <<NewRecord(k, 0, FALSE)>>
<1>1. v # a /\ records' = [records EXCEPT ![v][a] = one]
      /\ UNCHANGED <<clock, count, last, announced, delivered, signed>>
  BY DEF RegisterPeer
<1>2. /\ one \in Seq(KeyRecord) /\ Len(one) = 1
      /\ one[1].key = k /\ one[1].issued_at = 0 /\ one[1].rotated_out = Inf
  <2>1. k \in Nat /\ 0 \in Tick /\ count[a] \in Nat
    BY MaxTickAssumption DEF IndInv, TypeOK, Tick
  <2>2. NewRecord(k, 0, FALSE) \in KeyRecord
    BY <2>1, NewRecordType
  <2>3. QED
    BY <2>2 DEF NewRecord
<1> HIDE DEF one
<1>3. \A w, b \in Agents : records'[w][b] = IF w = v /\ b = a THEN one ELSE records[w][b]
  BY <1>1 DEF IndInv, TypeOK
<1>4. TypeOK'
  BY <1>1, <1>2 DEF IndInv, TypeOK
<1>5. \A b \in Agents : IssueTicks(b)' = IssueTicks(b)
  BY <1>1, <1>3 DEF IssueTicks
<1>6. \A b \in Agents : OwnHistoryOK(b)'
  BY <1>1, <1>3, <1>5 DEF IndInv, OwnHistoryOK
<1>7. HistoryOK(one, count[a], IssueTicks(a))
  <2>1. \A m \in Nat : Holds(one, m) <=> m = k
    BY <1>2, FindRecordIsFirst
  <2>2. Holds(one, k) /\ FindRecord(one, k) = 1
    <3>1. Holds(one, k)
      BY <1>2, FindRecordIsFirst
    <3>2. FindRecord(one, k) \in 1 .. 1
      BY <1>2, <3>1, FindRecordIsFirst
    <3>3. QED
      BY <3>1, <3>2
  <2>3. k \in Nat /\ k <= count[a] /\ count[a] \in Nat
    BY DEF IndInv, TypeOK
  <2>4. QED
    BY <1>2, <2>1, <2>2, <2>3 DEF HistoryOK
<1>8. \A w, b \in Agents :
        records'[w][b] # <<>> => HistoryOK(records'[w][b], count'[b], IssueTicks(b)')
  BY <1>1, <1>3, <1>5, <1>7 DEF IndInv
<1>9. /\ \A b \in Agents : last'[b] # NoRotation => GenuineRotation(b, last[b])'
      /\ \A b \in Agents : \A ann \in announced'[b] : GenuineRotation(b, ann)'
  BY <1>1, <1>5 DEF IndInv, GenuineRotation
<1>10. QED
  BY <1>4, <1>6, <1>8, <1>9 DEF IndInv

\* observe_rotation keeps it, for a peer's announcement and for an agent's
\* own one, new or repeated, in order or not.
LEMMA ObserveRotationKeeps ==
  ASSUME IndInv, NEW v \in Agents, NEW a \in Agents, NEW ann \in announced[a],
         ObserveRotation(v, a, ann)
  PROVE  IndInv'
<1> DEFINE recs == records[v][a]
           i == FindRecord(recs, ann.prev)
           r == NewRecord(ann.new, ann.issued_at, FALSE)
           new == Grow(recs, i, ann.issued_at, r)
<1>1. /\ records' = [records EXCEPT ![v][a] = IF Holds(recs, ann.prev) THEN new ELSE recs]
      /\ UNCHANGED <<clock, count, last, announced, signed>>
  BY DEF ObserveRotation, LearnHistory, Grow
<1>2. /\ recs \in Seq(KeyRecord)
      /\ ann \in Announcement
      /\ count[a] \in Nat
  BY DEF IndInv, TypeOK
<1>3. /\ ann.prev \in Nat /\ ann.new = ann.prev + 1 /\ ann.new <= count[a]
      /\ ann.issued_at \in Tick /\ ann.issued_at = IssueTicks(a)[ann.new]
  BY <1>2 DEF IndInv, GenuineRotation, Announcement
<1>4. /\ r \in KeyRecord /\ r.key = ann.new /\ r.issued_at = ann.issued_at
      /\ r.rotated_out = Inf /\ ~r.private
  <2>1. ann.new \in Nat
    BY <1>3
  <2>2. QED
    BY <1>3, <2>1, NewRecordType DEF NewRecord
<1> HIDE DEF r
<1>5. delivered' \in [Agents -> [Agents -> SUBSET Announcement]]
  BY <1>2 DEF IndInv, TypeOK, ObserveRotation
<1>6. CASE ~Holds(recs, ann.prev)
  <2>1. records' = records
    BY <1>1, <1>6 DEF IndInv, TypeOK
  <2>2. TypeOK'
    BY <1>5, <1>1, <2>1 DEF IndInv, TypeOK
  <2>3. \A b \in Agents : clock[b] <= clock'[b]
    BY <1>1, MaxTickAssumption DEF IndInv, TypeOK, Tick
  <2>4. QED
    BY <1>1, <2>1, <2>2, <2>3, QuietStep
<1>7. CASE Holds(recs, ann.prev)
  <2>1. i \in 1 .. Len(recs) /\ recs[i].key = ann.prev /\ recs # <<>>
    BY <1>2, <1>7, FindRecordIsFirst
  <2>2. records' = [records EXCEPT ![v][a] = new]
    BY <1>1, <1>7
  <2>3. /\ new \in Seq(KeyRecord)
        /\ Len(new) = Len(recs) + 1
        /\ new[Len(recs) + 1] = r
        /\ \A j \in 1 .. Len(recs) :
             /\ new[j].key = recs[j].key
             /\ new[j].issued_at = recs[j].issued_at
             /\ new[j].private = recs[j].private
             /\ new[j].rotated_out = IF j = i THEN ann.issued_at ELSE recs[j].rotated_out
    <3>1. GrownBy(new, recs, i, ann.issued_at, r)
      BY <1>2, <1>3, <1>4, <2>1, GrowRecords, Zenon
    <3> HIDE DEF new, recs, i
    <3>2. QED
      BY <3>1, Zenon DEF GrownBy
  <2>4. \A m : /\ Holds(recs, m) => FindRecord(new, m) = FindRecord(recs, m)
               /\ Holds(new, m) <=> (Holds(recs, m) \/ m = ann.new)
    <3>1. FindsAfter(new, recs, r.key)
      BY <1>2, <1>3, <1>4, <2>1, GrowFinds, Zenon
    <3> HIDE DEF new
    <3>2. QED
      BY <1>4, <3>1 DEF FindsAfter
  <2>5. HistoryOK(new, count[a], IssueTicks(a))
    <3>1. HistoryOK(recs, count[a], IssueTicks(a))
      BY <2>1 DEF IndInv
    <3>2. /\ r.key = ann.prev + 1 /\ ann.prev + 1 <= count[a]
          /\ r.issued_at = IssueTicks(a)[ann.prev + 1]
      BY <1>3, <1>4
    <3>3. HistoryOK(Grow(recs, FindRecord(recs, ann.prev), IssueTicks(a)[ann.prev + 1], r),
                    count[a], IssueTicks(a))
      BY <1>2, <1>3, <1>4, <1>7, <2>1, <3>1, <3>2, HistoryGrows
    <3>4. QED
      BY <1>3, <3>3
  <2> HIDE DEF new
  <2>6. \A w, b \in Agents : records'[w][b] = IF w = v /\ b = a THEN new ELSE records[w][b]
    BY <2>2 DEF IndInv, TypeOK
  <2>7. TypeOK'
    BY <1>5, <1>1, <2>2, <2>3 DEF IndInv, TypeOK
  <2>8. ASSUME v = a
        PROVE  IssueTicks(a)' = IssueTicks(a) /\ OwnHistoryOK(a)'
    <3>1. OwnHistoryOK(a)
      BY DEF IndInv
    <3>2. \A k \in 0 .. count[a] : /\ Holds(recs, k)
                                   /\ FindRecord(new, k) = FindRecord(recs, k)
                                   /\ FindRecord(recs, k) \in 1 .. Len(recs)
      BY <1>2, <2>4, <2>8, <3>1, FindRecordIsFirst DEF OwnHistoryOK
    <3>3. records'[a][a] = new /\ records[a][a] = recs
      BY <2>6, <2>8
    <3>4. \A k \in 0 .. count[a] : new[FindRecord(new, k)].issued_at
                                     = recs[FindRecord(recs, k)].issued_at
      BY <2>3, <3>2
    <3>5. IssueTicks(a)' = IssueTicks(a)
      <4>1. IssueTicks(a)' = [k \in 0 .. count[a] |-> new[FindRecord(new, k)].issued_at]
        BY <1>1, <3>3 DEF IssueTicks
      <4>2. IssueTicks(a) = [k \in 0 .. count[a] |-> recs[FindRecord(recs, k)].issued_at]
        BY <3>3 DEF IssueTicks
      <4>3. QED
        BY <3>4, <4>1, <4>2
    <3>6. new[1].key = 0 /\ new # <<>>
      BY <2>1, <2>3, <2>8, <3>1 DEF OwnHistoryOK
    <3>7. \A k \in 0 .. count[a] : Holds(new, k)
      BY <2>4, <3>2
    <3>8. \A j \in DOMAIN new :
            new[j].private /\ new[j].rotated_out = Inf => j = FindRecord(new, count[a])
      <4> TAKE j \in DOMAIN new
      <4> HAVE new[j].private /\ new[j].rotated_out = Inf
      <4>1. j \in 1 .. Len(recs)
        BY <1>4, <2>3
      <4>2. recs[j].private /\ recs[j].rotated_out = Inf
        <5>1. ann.issued_at # Inf
          BY <1>3, MaxTickAssumption DEF Tick, Inf
        <5> HIDE DEF recs, i
        <5>2. /\ new[j].private = recs[j].private
              /\ new[j].rotated_out = IF j = i THEN ann.issued_at ELSE recs[j].rotated_out
          BY <2>3, <4>1
        <5>3. QED
          BY <5>1, <5>2
      <4>3. j = FindRecord(recs, count[a])
        BY <2>8, <3>1, <4>1, <4>2 DEF OwnHistoryOK
      <4>4. QED
        BY <1>2, <3>2, <4>3
    <3>9. OwnHistoryOK(a)'
      BY <1>1, <3>1, <3>3, <3>5, <3>6, <3>7, <3>8 DEF OwnHistoryOK
    <3>10. QED
      BY <3>5, <3>9
  <2>9. \A b \in Agents : IssueTicks(b)' = IssueTicks(b) /\ OwnHistoryOK(b)'
    <3> TAKE b \in Agents
    <3>1. CASE v = a /\ b = a
      BY <2>8, <3>1
    <3>2. CASE ~(v = a /\ b = a)
      <4>1. records'[b][b] = records[b][b]
        BY <2>6, <3>2
      <4>2. IssueTicks(b)' = IssueTicks(b)
        BY <1>1, <4>1 DEF IssueTicks
      <4>3. QED
        BY <1>1, <4>1, <4>2 DEF IndInv, OwnHistoryOK
    <3>3. QED
      BY <3>1, <3>2
  <2>10. \A w, b \in Agents :
           records'[w][b] # <<>> => HistoryOK(records'[w][b], count'[b], IssueTicks(b)')
    BY <1>1, <2>5, <2>6, <2>9 DEF IndInv
  <2>11. /\ \A b \in Agents : last'[b] # NoRotation => GenuineRotation(b, last[b])'
         /\ \A b \in Agents : \A e \in announced'[b] : GenuineRotation(b, e)'
    BY <1>1, <2>9 DEF IndInv, GenuineRotation
  <2>12. QED
    BY <2>7, <2>9, <2>10, <2>11 DEF IndInv
<1>8. QED
  BY <1>6, <1>7

\* A private active record of an agent's own history is the first of its
\* newest key.
LEMMA NewestKeyActive ==
  ASSUME IndInv, NEW a \in Agents, ActiveRecord(records[a][a]).private
  PROVE  /\ ActiveIndex(records[a][a]) = FindRecord(records[a][a], count[a])
         /\ ActiveIndex(records[a][a]) \in 1 .. Len(records[a][a])
         /\ ActiveRecord(records[a][a]).key = count[a]
<1> DEFINE own == records[a][a]
           n == count[a]
           i == ActiveIndex(own)
<1>1. /\ own \in Seq(KeyRecord) /\ own # <<>>
      /\ n \in Nat
  BY DEF IndInv, TypeOK, OwnHistoryOK
<1>2. HistoryOK(own, n, IssueTicks(a)) /\ OwnHistoryOK(a)
  BY <1>1 DEF IndInv
<1>3. Holds(own, n) /\ ~Holds(own, n + 1)
  <2>1. Holds(own, n)
    BY <1>1, <1>2 DEF OwnHistoryOK
  <2>2. \A j \in 1 .. Len(own) : own[j].key # n + 1
    BY <1>1, <1>2, RecordFields DEF HistoryOK
  <2>3. QED
    BY <1>1, <2>1, <2>2, FindRecordIsFirst
<1>4. FindRecord(own, n) \in 1 .. Len(own) /\ own[FindRecord(own, n)].key = n
  BY <1>1, <1>3, FindRecordIsFirst
<1>5. own[FindRecord(own, n)].rotated_out = Inf
  BY <1>1, <1>2, <1>3 DEF HistoryOK
<1>6. i \in 1 .. Len(own) /\ own[i].rotated_out = Inf
  BY <1>1, <1>4, <1>5, ActiveIndexInRange DEF ActiveRecord
<1>7. own[i].private
  BY DEF ActiveRecord
<1>8. i = FindRecord(own, n)
  BY <1>1, <1>2, <1>6, <1>7, RecordFields DEF OwnHistoryOK
<1>9. QED
  BY <1>4, <1>8 DEF ActiveRecord

\* rotate_key keeps it: the private active record is the first record of the
\* newest key, so the history moves on by one generation.
LEMMA RotateKeyKeeps ==
  ASSUME IndInv, NEW a \in Agents, RotateKey(a)
  PROVE  IndInv'
<1> DEFINE own == records[a][a]
           n == count[a]
           i == ActiveIndex(own)
           r == NewRecord(n + 1, clock[a], TRUE)
           new == Grow(own, i, clock[a], r)
           rotation == [prev |-> ActiveRecord(own).key, new |-> n + 1, issued_at |-> clock[a]]
<1>1. /\ n < MaxRotations
      /\ ActiveRecord(own).private
      /\ count' = [count EXCEPT ![a] = n + 1]
      /\ records' = [records EXCEPT ![a][a] = new]
      /\ last' = [last EXCEPT ![a] = rotation]
      /\ UNCHANGED <<clock, announced, delivered, signed>>
  BY DEF RotateKey, RotateHistory, Grow, IndInv, TypeOK
<1>2. /\ own \in Seq(KeyRecord) /\ own # <<>>
      /\ n \in Nat
      /\ clock[a] \in Tick
  BY DEF IndInv, TypeOK, OwnHistoryOK
<1>3. HistoryOK(own, n, IssueTicks(a)) /\ OwnHistoryOK(a)
  BY <1>2 DEF IndInv
<1>4. i = FindRecord(own, n) /\ i \in 1 .. Len(own) /\ own[i].key = n
  BY <1>1, NewestKeyActive DEF ActiveRecord
<1> HIDE DEF i
<1>5. n + 1 \in Nat /\ n + 1 <= MaxRotations
  BY <1>1, <1>2, BoundsAssumption
<1>6. /\ r \in KeyRecord /\ r.key = n + 1 /\ r.issued_at = clock[a] /\ r.rotated_out = Inf
  BY <1>2, <1>5, NewRecordType DEF NewRecord
<1> HIDE DEF r
<1>7. /\ new \in Seq(KeyRecord)
      /\ Len(new) = Len(own) + 1
      /\ new[Len(own) + 1] = r
      /\ \A j \in 1 .. Len(own) :
           /\ new[j].key = own[j].key
           /\ new[j].issued_at = own[j].issued_at
           /\ new[j].private = own[j].private
           /\ new[j].rotated_out = IF j = i THEN clock[a] ELSE own[j].rotated_out
  <2>1. GrownBy(new, own, i, clock[a], r)
    BY <1>2, <1>4, <1>6, GrowRecords, Zenon
  <2> HIDE DEF new, own
  <2>2. QED
    BY <2>1, Zenon DEF GrownBy
<1>8. \A m : /\ Holds(own, m) => FindRecord(new, m) = FindRecord(own, m)
             /\ ~Holds(own, m) /\ m = n + 1 => FindRecord(new, m) = Len(own) + 1
             /\ Holds(new, m) <=> (Holds(own, m) \/ m = n + 1)
  <2>1. FindsAfter(new, own, r.key)
    BY <1>2, <1>4, <1>6, GrowFinds, Zenon
  <2> HIDE DEF new
  <2>2. QED
    BY <1>6, <2>1 DEF FindsAfter
<1>9. ~Holds(own, n + 1)
  <2>1. \A j \in 1 .. Len(own) : own[j].key # n + 1
    BY <1>2, <1>3, RecordFields DEF HistoryOK
  <2>2. QED
    BY <1>2, <2>1, FindRecordIsFirst
<1> HIDE DEF new
<1>10. \A w, b \in Agents : records'[w][b] = IF w = a /\ b = a THEN new ELSE records[w][b]
  BY <1>1 DEF IndInv, TypeOK
<1>11. \A b \in Agents : count'[b] = IF b = a THEN n + 1 ELSE count[b]
  BY <1>1 DEF IndInv, TypeOK
<1>12. ActiveRecord(own).key = n
  BY <1>4 DEF ActiveRecord, i
<1>13. TypeOK'
  <2>1. n + 1 \in 0 .. MaxRotations
    BY <1>2, <1>5, BoundsAssumption
  <2>2. rotation \in Announcement
    BY <1>2, <1>5, <1>12 DEF Announcement
  <2> HIDE DEF rotation
  <2>3. QED
    BY <1>1, <1>7, <2>1, <2>2 DEF IndInv, TypeOK
\* Issue ticks: those of the old keys stay, the new key's is the clock.
<1>14. /\ \A k \in 0 .. n : IssueTicks(a)'[k] = IssueTicks(a)[k]
       /\ IssueTicks(a)'[n + 1] = clock[a]
       /\ \A k \in 0 .. n : IssueTicks(a)[k] \in Tick
  <2>1. IssueTicks(a)' = [k \in 0 .. n + 1 |-> new[FindRecord(new, k)].issued_at]
    BY <1>10, <1>11 DEF IssueTicks
  <2>2. IssueTicks(a) = [k \in 0 .. n |-> own[FindRecord(own, k)].issued_at]
    BY DEF IssueTicks
  <2>3. \A k \in 0 .. n : /\ FindRecord(new, k) = FindRecord(own, k)
                          /\ FindRecord(own, k) \in 1 .. Len(own)
    BY <1>2, <1>3, <1>8, FindRecordIsFirst DEF OwnHistoryOK
  <2>4. \A k \in 0 .. n : /\ new[FindRecord(new, k)].issued_at = own[FindRecord(own, k)].issued_at
                          /\ own[FindRecord(own, k)].issued_at \in Tick
    BY <1>2, <1>7, <2>3, RecordFields
  <2>5. new[FindRecord(new, n + 1)].issued_at = clock[a]
    BY <1>7, <1>8, <1>9, <1>6
  <2>6. n + 1 \in 0 .. n + 1 /\ \A k \in 0 .. n : k \in 0 .. n + 1
    BY <1>2
  <2>7. QED
    BY <2>1, <2>2, <2>4, <2>5, <2>6
<1>15. OwnHistoryOK(a)'
  <2>1. records'[a][a] = new /\ count'[a] = n + 1 /\ clock' = clock
    BY <1>1, <1>10, <1>11
  <2>2. new # <<>> /\ new[1].key = 0
    BY <1>2, <1>3, <1>7 DEF OwnHistoryOK
  <2>3. \A k \in 0 .. n + 1 : Holds(new, k)
    BY <1>2, <1>3, <1>8 DEF OwnHistoryOK
  <2>4. \A k \in 0 .. n + 1 : k = n + 1 \/ k \in 0 .. n
    BY <1>2
  <2>5. clock[a] \in Nat
    BY <1>2, MaxTickAssumption DEF Tick
  <2>6. \A k \in 0 .. n + 1 : IssueTicks(a)'[k] <= clock[a]
    BY <1>3, <1>14, <2>4, <2>5 DEF OwnHistoryOK
  <2>7. \A k, l \in 0 .. n + 1 : k <= l => IssueTicks(a)'[k] <= IssueTicks(a)'[l]
    <3> TAKE k, l \in 0 .. n + 1
    <3> HAVE k <= l
    <3>1. CASE l = n + 1
      BY <1>14, <2>6, <3>1
    <3>2. CASE l \in 0 .. n
      <4>1. k \in 0 .. n
        BY <1>2, <3>2
      <4>2. QED
        BY <1>3, <1>14, <3>2, <4>1 DEF OwnHistoryOK
    <3>3. QED
      BY <2>4, <3>1, <3>2
  <2>8. \A j \in DOMAIN new :
          new[j].private /\ new[j].rotated_out = Inf => j = FindRecord(new, n + 1)
    <3> TAKE j \in DOMAIN new
    <3> HAVE new[j].private /\ new[j].rotated_out = Inf
    <3>1. CASE j \in 1 .. Len(own)
      <4>1. j # i
        BY <1>2, <1>7, <3>1, MaxTickAssumption DEF Tick, Inf
      <4>2. own[j].private /\ own[j].rotated_out = Inf
        BY <1>7, <3>1, <4>1
      <4>3. j = FindRecord(own, n)
        BY <1>2, <1>3, <3>1, <4>2, RecordFields DEF OwnHistoryOK
      <4>4. QED
        BY <1>4, <4>1, <4>3
    <3>2. CASE j = Len(own) + 1
      BY <1>8, <1>9, <3>2
    <3>3. QED
      BY <1>7, <3>1, <3>2
  <2>9. QED
    BY <2>1, <2>2, <2>3, <2>6, <2>7, <2>8 DEF OwnHistoryOK
<1>16. \A b \in Agents : b # a => IssueTicks(b)' = IssueTicks(b) /\ OwnHistoryOK(b)'
  <2> TAKE b \in Agents
  <2> HAVE b # a
  <2>1. records'[b][b] = records[b][b] /\ count'[b] = count[b] /\ clock' = clock
    BY <1>1, <1>10, <1>11
  <2>2. IssueTicks(b)' = IssueTicks(b)
    BY <2>1 DEF IssueTicks
  <2>3. QED
    BY <2>1, <2>2 DEF IndInv, OwnHistoryOK
\* Every history of the agent is one of its generations, one more of which exist.
<1>17. \A w, b \in Agents :
         records'[w][b] # <<>> => HistoryOK(records'[w][b], count'[b], IssueTicks(b)')
  <2> TAKE w, b \in Agents
  <2> HAVE records'[w][b] # <<>>
  <2> DEFINE J == IssueTicks(a)'
  <2>1. \A k \in 0 .. n : J[k] = IssueTicks(a)[k]
    BY <1>14
  <2>2. J[n + 1] = clock[a]
    BY <1>14
  <2> HIDE DEF J
  <2>3. CASE b # a
    BY <1>10, <1>11, <1>16, <2>3 DEF IndInv
  <2>4. CASE b = a /\ w # a
    <3>1. records'[w][a] = records[w][a] /\ records[w][a] # <<>> /\ records[w][a] \in Seq(KeyRecord)
      BY <1>10, <2>4 DEF IndInv, TypeOK
    <3>2. HistoryOK(records[w][a], n, IssueTicks(a))
      BY <3>1 DEF IndInv
    <3>3. HistoryOK(records[w][a], n + 1, J)
      BY <1>2, <1>5, <2>1, <3>1, <3>2, HistoryExtends
    <3>4. QED
      BY <1>11, <2>4, <3>1, <3>3 DEF J
  <2>5. CASE b = a /\ w = a
    <3>1. HistoryOK(own, n + 1, J)
      BY <1>2, <1>3, <1>5, <2>1, HistoryExtends
    <3>2. Holds(own, n)
      BY <1>2, <1>3 DEF OwnHistoryOK
    <3>3. HistoryOK(Grow(own, FindRecord(own, n), J[n + 1], r), n + 1, J)
      <4>1. r.issued_at = J[n + 1] /\ n + 1 <= n + 1
        BY <1>2, <1>6, <2>2
      <4>2. QED
        BY <1>2, <1>5, <1>6, <3>1, <3>2, <4>1, HistoryGrows
    <3>4. Grow(own, FindRecord(own, n), J[n + 1], r) = new
      BY <1>4, <2>2 DEF new
    <3>5. QED
      BY <1>10, <1>11, <2>5, <3>3, <3>4 DEF J
  <2>6. QED
    BY <2>3, <2>4, <2>5
\* Old announcements stay genuine; the new rotation is.
<1>18. \A b \in Agents : \A ann \in Announcement :
         GenuineRotation(b, ann) => GenuineRotation(b, ann)'
  <2> TAKE b \in Agents
  <2> TAKE ann \in Announcement
  <2> HAVE GenuineRotation(b, ann)
  <2>1. CASE b # a
    BY <1>11, <1>16, <2>1 DEF GenuineRotation
  <2>2. CASE b = a
    <3>1. ann.new = ann.prev + 1 /\ ann.new <= n /\ ann.issued_at = IssueTicks(a)[ann.new]
      BY <2>2 DEF GenuineRotation
    <3>2. ann.new \in 0 .. n /\ ann.new <= n + 1
      BY <1>2, <3>1 DEF Announcement
    <3>3. ann.issued_at = IssueTicks(a)'[ann.new]
      BY <1>14, <3>1, <3>2
    <3>4. QED
      BY <1>11, <2>2, <3>1, <3>2, <3>3 DEF GenuineRotation
  <2>3. QED
    BY <2>1, <2>2
<1>19. \A b \in Agents : last'[b] # NoRotation => GenuineRotation(b, last[b])'
  <2> TAKE b \in Agents
  <2> HAVE last'[b] # NoRotation
  <2>1. CASE b = a
    <3>1. last'[a] = [prev |-> n, new |-> n + 1, issued_at |-> clock[a]]
      BY <1>1, <1>12 DEF IndInv, TypeOK
    <3>2. QED
      BY <1>2, <1>11, <1>14, <2>1, <3>1 DEF GenuineRotation
  <2>2. CASE b # a
    <3>1. last'[b] = last[b] /\ last[b] \in Announcement
      BY <1>1, <2>2 DEF IndInv, TypeOK
    <3>2. GenuineRotation(b, last[b])
      BY <3>1 DEF IndInv
    <3>3. GenuineRotation(b, last[b])' <=>
            /\ last[b]'.new = last[b]'.prev + 1
            /\ last[b]'.new <= count'[b]
            /\ last[b]'.issued_at = IssueTicks(b)'[last[b]'.new]
      BY DEF GenuineRotation
    <3>4. QED
      BY <1>11, <1>16, <2>2, <3>1, <3>2, <3>3 DEF GenuineRotation
  <2>3. QED
    BY <2>1, <2>2
<1>20. \A b \in Agents : \A ann \in announced'[b] : GenuineRotation(b, ann)'
  <2>1. \A b \in Agents : announced'[b] = announced[b] /\ announced[b] \subseteq Announcement
    BY <1>1 DEF IndInv, TypeOK
  <2>2. QED
    BY <1>18, <2>1 DEF IndInv
<1>21. QED
  <2>1. \A b \in Agents : OwnHistoryOK(b)'
    BY <1>15, <1>16
  <2>2. QED
    BY <1>13, <1>17, <1>19, <1>20, <2>1 DEF IndInv

\* Every step keeps it.
LEMMA NextKeeps == IndInv /\ [Next]_vars => IndInv'
<1> SUFFICES ASSUME IndInv, [Next]_vars PROVE IndInv'
  OBVIOUS
<1>1. Signers \subseteq Agents /\ \A a \in Agents : announced[a] \subseteq Announcement
  BY DEF Agents, IndInv, TypeOK
<1>2. CASE \E a \in Agents, t \in Tick : AdvanceTo(a, t)
  BY <1>2, AdvanceToKeeps
<1>3. CASE \E a \in Signers, t \in Tick : Sign(a, t)
  BY <1>1, <1>3, SignKeeps
<1>4. CASE \E a \in Signers : RotateKey(a)
  BY <1>1, <1>4, RotateKeyKeeps
<1>5. CASE \E a \in Signers : Announce(a)
  BY <1>1, <1>5, AnnounceKeeps
<1>6. CASE \E v \in Agents, a \in Signers : \E ann \in announced[a] : ObserveRotation(v, a, ann)
  BY <1>1, <1>6, ObserveRotationKeeps
<1>7. CASE \E v \in Agents, a \in Signers : \E k \in 0 .. count[a] : RegisterPeer(v, a, k)
  BY <1>1, <1>7, RegisterPeerKeeps
<1>8. CASE UNCHANGED vars
  <2>1. TypeOK'
    BY <1>8 DEF IndInv, TypeOK, vars
  <2>2. \A a \in Agents : clock[a] <= clock'[a]
    BY <1>8, MaxTickAssumption DEF IndInv, TypeOK, vars, Tick
  <2>3. QED
    BY <1>8, <2>1, <2>2, QuietStep DEF vars
<1>9. QED
  BY <1>2, <1>3, <1>4, <1>5, <1>6, <1>7, <1>8 DEF Next

-----------------------------------------------------------------------------
(* The theorems. *)

\* Whatever the transport delivers, repeats, reorders or sends back, every
\* history kept for an agent is a history of that agent's generations.
THEOREM HistoriesAreGenerations == Spec => []IndInv
<1>1. Init => IndInv
  BY InitEstablishes
<1>2. IndInv /\ [Next]_vars => IndInv'
  BY NextKeeps
<1>3. QED
  BY <1>1, <1>2, PTL DEF Spec

\* Type correctness of the identities.
THEOREM TypeCorrect == Spec => []TypeOK
<1>1. IndInv => TypeOK
  BY DEF IndInv
<1>2. QED
  BY <1>1, HistoriesAreGenerations, PTL

\* In a history of generations an older key is accepted only before every
\* tick a newer key is accepted at: the older one's window closes at its
\* successor's issue, and issues do not go back.
LEMMA WindowsInOrder ==
  ASSUME NEW recs \in Seq(KeyRecord), recs # <<>>,
         NEW n \in Nat, NEW I,
         \A k \in 0 .. n : I[k] \in Tick,
         \A k, l \in 0 .. n : k <= l => I[k] <= I[l],
         HistoryOK(recs, n, I),
         NEW k \in 0 .. n, NEW l \in 0 .. n, k < l,
         NEW s \in AcceptedTicks(recs, k), NEW t \in AcceptedTicks(recs, l)
  PROVE  s < t
<1> DEFINE rk == recs[FindRecord(recs, k)]
           rl == recs[FindRecord(recs, l)]
<1>1. /\ Holds(recs, k) /\ s \in Tick /\ s < rk.rotated_out
      /\ Holds(recs, l) /\ t \in Tick /\ rl.issued_at <= t
  BY DEF AcceptedTicks, Accepts, Within
<1>2. /\ FindRecord(recs, k) \in 1 .. Len(recs) /\ rk.key = k
      /\ FindRecord(recs, l) \in 1 .. Len(recs) /\ rl.key = l
      /\ recs[1].key \in Nat
  BY <1>1, FindRecordIsFirst, RecordFields
<1>3. recs[1].key <= k
  BY <1>2 DEF HistoryOK
<1>4. Holds(recs, k + 1)
  <2>1. k + 1 \in recs[1].key .. rl.key
    BY <1>2, <1>3
  <2>2. QED
    BY <1>2, <2>1 DEF HistoryOK
<1>5. rk.rotated_out = I[k + 1] /\ rl.issued_at = I[l]
  BY <1>1, <1>2, <1>3, <1>4 DEF HistoryOK
<1>6. k + 1 \in 0 .. n /\ I[k + 1] <= I[l] /\ I[k + 1] \in Tick /\ I[l] \in Tick
  OBVIOUS
<1>7. QED
  BY <1>1, <1>5, <1>6, MaxTickAssumption DEF Tick

\* No verifier accepts an older key of an agent at, or for, a tick that is
\* not before all the ticks it accepts a newer key at or for.
THEOREM KeysInTimeOrderHolds == Spec => []KeysInTimeOrder
<1>1. IndInv => KeysInTimeOrder
  <2> SUFFICES ASSUME IndInv, NEW v \in Agents, NEW a \in Agents,
                      NEW k \in 0 .. count[a], NEW l \in 0 .. count[a], k < l,
                      NEW s \in AcceptedTicks(records[v][a], k),
                      NEW t \in AcceptedTicks(records[v][a], l)
               PROVE  s < t
    BY DEF KeysInTimeOrder
  <2>1. /\ records[v][a] \in Seq(KeyRecord) /\ records[a][a] \in Seq(KeyRecord)
        /\ count[a] \in Nat
        /\ OwnHistoryOK(a)
    BY DEF IndInv, TypeOK
  <2>2. records[v][a] # <<>>
    <3>1. Holds(records[v][a], k)
      BY DEF AcceptedTicks, Accepts
    <3>2. FindRecord(records[v][a], k) \in 1 .. Len(records[v][a])
      BY <2>1, <3>1, FindRecordIsFirst
    <3>3. QED
      BY <3>2
  <2>3. \A m \in 0 .. count[a] : IssueTicks(a)[m] \in Tick
    <3> TAKE m \in 0 .. count[a]
    <3>1. records[a][a][FindRecord(records[a][a], m)].issued_at \in Tick
      BY <2>1, FindRecordIsFirst, RecordFields DEF OwnHistoryOK
    <3>2. QED
      BY <3>1 DEF IssueTicks
  <2>4. \A m, o \in 0 .. count[a] : m <= o => IssueTicks(a)[m] <= IssueTicks(a)[o]
    BY <2>1 DEF OwnHistoryOK
  <2>5. HistoryOK(records[v][a], count[a], IssueTicks(a))
    BY <2>2 DEF IndInv
  <2>6. QED
    BY <2>1, <2>2, <2>3, <2>4, <2>5, WindowsInOrder
<1>2. QED
  BY <1>1, HistoriesAreGenerations, PTL

-----------------------------------------------------------------------------
(* What a step makes of the history an instance keeps for an agent. *)

\* rotate_key on the own history.
HistoryRotated(v, a) ==
  /\ v = a
  /\ count'[a] = count[a] + 1
  /\ records'[v][a] = Grow(records[v][a], FindRecord(records[v][a], count[a]), clock[a],
                           NewRecord(count[a] + 1, clock[a], TRUE))

\* observe_rotation of an announcement whose prior key is known.
HistoryLearns(v, a) ==
  \E ann \in announced[a] :
    /\ ObserveRotation(v, a, ann)
    /\ count' = count
    /\ Holds(records[v][a], ann.prev)
    /\ records'[v][a] = Grow(records[v][a], FindRecord(records[v][a], ann.prev), ann.issued_at,
                             NewRecord(ann.new, ann.issued_at, FALSE))

\* register_peer.
HistoryReplaced(v, a) ==
  \E k \in 0 .. count[a] :
    /\ RegisterPeer(v, a, k)
    /\ count' = count
    /\ records'[v][a] = <<NewRecord(k, 0, FALSE)>>

\* A step leaves it, or rotates, learns or registers (identity.py:79-220).
LEMMA HistorySteps ==
  ASSUME IndInv, [Next]_vars, NEW v \in Agents, NEW a \in Agents
  PROVE  \/ records'[v][a] = records[v][a]
         \/ HistoryRotated(v, a) \/ HistoryLearns(v, a) \/ HistoryReplaced(v, a)
<1>1. /\ records \in [Agents -> [Agents -> Seq(KeyRecord)]]
      /\ count \in [Agents -> 0 .. MaxRotations]
      /\ Signers \subseteq Agents
  BY DEF IndInv, TypeOK, Agents
<1>2. CASE UNCHANGED records
  BY <1>2
<1>3. ASSUME NEW b \in Signers, RotateKey(b)
      PROVE  records'[v][a] = records[v][a] \/ HistoryRotated(v, a)
  <2> DEFINE own == records[b][b]
             new == Grow(own, ActiveIndex(own), clock[b], NewRecord(count[b] + 1, clock[b], TRUE))
  <2>1. /\ records' = [records EXCEPT ![b][b] = new]
        /\ count' = [count EXCEPT ![b] = @ + 1]
        /\ ActiveRecord(own).private
    BY <1>3 DEF RotateKey, RotateHistory, Grow
  <2>2. ActiveIndex(own) = FindRecord(own, count[b])
    BY <1>1, <2>1, NewestKeyActive
  <2> HIDE DEF new
  <2>3. records'[v][a] = IF v = b /\ a = b THEN new ELSE records[v][a]
    BY <1>1, <2>1
  <2>4. count'[b] = count[b] + 1
    BY <1>1, <2>1
  <2>5. CASE v = b /\ a = b
    BY <2>2, <2>3, <2>4, <2>5 DEF HistoryRotated, new
  <2>6. QED
    BY <2>3, <2>5
<1>4. ASSUME NEW w \in Agents, NEW b \in Signers, NEW ann \in announced[b],
             ObserveRotation(w, b, ann)
      PROVE  records'[v][a] = records[v][a] \/ HistoryLearns(v, a)
  <2> DEFINE recs == records[w][b]
             new == Grow(recs, FindRecord(recs, ann.prev), ann.issued_at,
                         NewRecord(ann.new, ann.issued_at, FALSE))
  <2>1. records' = [records EXCEPT ![w][b] = IF Holds(recs, ann.prev) THEN new ELSE recs]
        /\ count' = count
    BY <1>4 DEF ObserveRotation, LearnHistory, Grow
  <2> HIDE DEF new
  <2>2. records'[v][a] = IF w = v /\ b = a /\ Holds(recs, ann.prev) THEN new ELSE records[v][a]
    BY <1>1, <2>1
  <2>3. QED
    BY <1>4, <2>1, <2>2 DEF HistoryLearns, new
<1>5. ASSUME NEW w \in Agents, NEW b \in Signers, NEW k \in 0 .. count[b], RegisterPeer(w, b, k)
      PROVE  records'[v][a] = records[v][a] \/ HistoryReplaced(v, a)
  <2>1. records' = [records EXCEPT ![w][b] = <<NewRecord(k, 0, FALSE)>>] /\ count' = count
    BY <1>5 DEF RegisterPeer
  <2>2. records'[v][a] = IF w = v /\ b = a THEN <<NewRecord(k, 0, FALSE)>> ELSE records[v][a]
    BY <1>1, <2>1
  <2>3. QED
    BY <1>5, <2>1, <2>2 DEF HistoryReplaced
<1>6. QED
  BY <1>2, <1>3, <1>4, <1>5 DEF Next, vars, AdvanceTo, Sign, Announce

\* The records appended have the history's type, and close an existing one.
LEMMA StepTypes ==
  ASSUME IndInv, NEW v \in Agents, NEW a \in Agents
  PROVE  /\ HistoryRotated(v, a) =>
              /\ NewRecord(count[a] + 1, clock[a], TRUE) \in KeyRecord
              /\ FindRecord(records[v][a], count[a]) \in 1 .. Len(records[v][a])
         /\ \A ann \in announced[a] :
              /\ ann \in Announcement
              /\ NewRecord(ann.new, ann.issued_at, FALSE) \in KeyRecord
              /\ ann.new = ann.prev + 1 /\ ann.new <= count[a]
              /\ Holds(records[v][a], ann.prev) =>
                   FindRecord(records[v][a], ann.prev) \in 1 .. Len(records[v][a])
<1>1. /\ records[v][a] \in Seq(KeyRecord) /\ count[a] \in Nat /\ clock[a] \in Tick
      /\ announced[a] \subseteq Announcement
  BY DEF IndInv, TypeOK
<1>2. HistoryRotated(v, a) => Holds(records[v][a], count[a])
  BY <1>1 DEF HistoryRotated, IndInv, OwnHistoryOK
<1>3. ASSUME NEW ann \in announced[a]
      PROVE  /\ ann \in Announcement
             /\ NewRecord(ann.new, ann.issued_at, FALSE) \in KeyRecord
             /\ ann.new = ann.prev + 1 /\ ann.new <= count[a]
  <2>1. ann \in Announcement /\ ann.new \in Nat /\ ann.issued_at \in Tick
    BY <1>1 DEF Announcement
  <2>2. QED
    BY <2>1, NewRecordType DEF IndInv, GenuineRotation
<1>4. NewRecord(count[a] + 1, clock[a], TRUE) \in KeyRecord
  <2>1. count[a] + 1 \in Nat
    BY <1>1
  <2>2. QED
    BY <1>1, <2>1, NewRecordType
<1>5. \A k : Holds(records[v][a], k) => FindRecord(records[v][a], k) \in 1 .. Len(records[v][a])
  BY <1>1, FindRecordIsFirst
<1>6. QED
  BY <1>2, <1>3, <1>4, <1>5

\* Every key stays, with the tick it was issued at, and the first key is the
\* same.
KeepsKeys(recs, new) ==
  /\ new # <<>> /\ new[1].key = recs[1].key
  /\ \A k : Holds(recs, k) =>
       Holds(new, k) /\ new[FindRecord(new, k)].issued_at = recs[FindRecord(recs, k)].issued_at

\* Growing a history keeps its keys.
LEMMA GrownKeeps ==
  ASSUME NEW recs \in Seq(KeyRecord), NEW i \in 1 .. Len(recs), NEW t \in Tick,
         NEW r \in KeyRecord
  PROVE  KeepsKeys(recs, Grow(recs, i, t, r))
<1> DEFINE new == Grow(recs, i, t, r)
<1> SUFFICES KeepsKeys(recs, new)
  OBVIOUS
<1>1. GrownBy(Grow(recs, i, t, r), recs, i, t, r) /\ FindsAfter(Grow(recs, i, t, r), recs, r.key)
  BY GrowRecords, GrowFinds, Zenon
<1>2. GrownBy(new, recs, i, t, r) /\ FindsAfter(new, recs, r.key)
  BY <1>1
<1> HIDE DEF new
<1>3. new # <<>> /\ \A j \in 1 .. Len(recs) : new[j].key = recs[j].key /\ new[j].issued_at = recs[j].issued_at
  BY <1>2 DEF GrownBy
<1>4. \A k : Holds(recs, k) => Holds(new, k) /\ FindRecord(new, k) = FindRecord(recs, k)
  BY <1>2, Zenon DEF FindsAfter
<1>5. \A k : Holds(recs, k) => FindRecord(recs, k) \in 1 .. Len(recs)
  BY FindRecordIsFirst
<1>6. 1 \in 1 .. Len(recs)
  OBVIOUS
<1>7. QED
  BY <1>3, <1>4, <1>5, <1>6 DEF KeepsKeys

\* A step keeps the keys of a history unless it registers the peer anew.
LEMMA StepKeepsHistory ==
  ASSUME IndInv, [Next]_vars, NEW v \in Agents, NEW a \in Agents,
         records[v][a] # <<>>, ~HistoryReplaced(v, a)
  PROVE  KeepsKeys(records[v][a], records'[v][a])
<1> DEFINE recs == records[v][a]
<1>1. recs \in Seq(KeyRecord) /\ clock[a] \in Tick
  BY DEF IndInv, TypeOK
<1>2. CASE records'[v][a] = recs
  BY <1>2 DEF KeepsKeys
<1>3. CASE HistoryRotated(v, a)
  <2>1. PICK i \in 1 .. Len(recs), r \in KeyRecord : records'[v][a] = Grow(recs, i, clock[a], r)
    BY <1>3, StepTypes DEF HistoryRotated
  <2>2. QED
    BY <1>1, <2>1, GrownKeeps, Zenon
<1>4. CASE HistoryLearns(v, a)
  <2>1. PICK i \in 1 .. Len(recs), t \in Tick, r \in KeyRecord : records'[v][a] = Grow(recs, i, t, r)
    <3>1. PICK ann \in announced[a] :
            /\ Holds(recs, ann.prev)
            /\ records'[v][a] = Grow(recs, FindRecord(recs, ann.prev), ann.issued_at,
                                     NewRecord(ann.new, ann.issued_at, FALSE))
      BY <1>4 DEF HistoryLearns
    <3>2. ann.issued_at \in Tick
      BY StepTypes DEF Announcement
    <3>3. QED
      BY <3>1, <3>2, StepTypes
  <2>2. QED
    BY <1>1, <2>1, GrownKeeps, Zenon
<1>5. QED
  BY <1>2, <1>3, <1>4, HistorySteps

\* The ticks an agent's keys were issued at are ticks.
LEMMA IssuesAreTicks ==
  ASSUME IndInv, NEW a \in Agents, NEW m \in 0 .. count[a]
  PROVE  IssueTicks(a)[m] \in Tick
<1>1. records[a][a] \in Seq(KeyRecord) /\ Holds(records[a][a], m)
  BY DEF IndInv, TypeOK, OwnHistoryOK
<1>2. records[a][a][FindRecord(records[a][a], m)].issued_at \in Tick
  BY <1>1, FindRecordIsFirst, RecordFields
<1>3. QED
  BY <1>2 DEF IssueTicks

-----------------------------------------------------------------------------
(* Own keys. *)

AllPrivate(recs) == \A i \in 1 .. Len(recs) : recs[i].private

\* An instance that hears no announcement of its own has private keys only.
OwnRecordsPrivate == \A a \in Agents : AllPrivate(records[a][a])

\* The active record an instance signs and rotates with is private
\* (identity.py:133 and :154), unless a broadcast comes back to its sender.
THEOREM OwnKeysPrivateHolds ==
  ASSUME ~Loopback
  PROVE  Spec => []OwnKeysPrivate
<1>1. Init => OwnRecordsPrivate
  <2> SUFFICES ASSUME Init, NEW a \in Agents
               PROVE  AllPrivate(records[a][a])
    BY DEF OwnRecordsPrivate
  <2>1. records[a][a] = <<NewRecord(0, 0, TRUE)>>
    BY DEF Init
  <2>2. QED
    BY <2>1 DEF AllPrivate, NewRecord
<1>2. IndInv /\ OwnRecordsPrivate /\ [Next]_vars => OwnRecordsPrivate'
  <2> SUFFICES ASSUME IndInv, OwnRecordsPrivate, [Next]_vars, NEW a \in Agents
               PROVE  AllPrivate(records'[a][a])
    BY DEF OwnRecordsPrivate
  <2> DEFINE own == records[a][a]
  <2>1. own \in Seq(KeyRecord) /\ clock[a] \in Tick /\ AllPrivate(own)
    BY DEF IndInv, TypeOK, OwnRecordsPrivate
  <2>2. CASE records'[a][a] = own
    BY <2>1, <2>2
  <2>3. CASE HistoryRotated(a, a)
    <3> DEFINE r == NewRecord(count[a] + 1, clock[a], TRUE)
               i == FindRecord(own, count[a])
               new == Grow(own, i, clock[a], r)
    <3>1. r \in KeyRecord /\ i \in 1 .. Len(own)
      BY <2>3, StepTypes
    <3>2. r.private
      BY DEF NewRecord
    <3> HIDE DEF r, i
    <3>3. GrownBy(new, own, i, clock[a], r)
      BY <2>1, <3>1, GrowRecords, Zenon
    <3> HIDE DEF new
    <3>4. AllPrivate(new)
      BY <2>1, <3>2, <3>3 DEF GrownBy, AllPrivate
    <3>5. records'[a][a] = new
      BY <2>3 DEF HistoryRotated, new, r, i
    <3>6. QED
      BY <3>4, <3>5
  <2>4. ~HistoryLearns(a, a)
    BY DEF HistoryLearns, ObserveRotation, Deliverable
  <2>5. ~HistoryReplaced(a, a)
    BY DEF HistoryReplaced, RegisterPeer
  <2>6. QED
    BY <2>2, <2>3, <2>4, <2>5, HistorySteps
<1>3. IndInv /\ OwnRecordsPrivate => OwnKeysPrivate
  <2> SUFFICES ASSUME IndInv, OwnRecordsPrivate, NEW a \in Agents
               PROVE  ActiveRecord(records[a][a]).private
    BY DEF OwnKeysPrivate
  <2>1. records[a][a] \in Seq(KeyRecord) /\ records[a][a] # <<>>
    BY DEF IndInv, TypeOK, OwnHistoryOK
  <2>2. ActiveIndex(records[a][a]) \in 1 .. Len(records[a][a])
    BY <2>1, ActiveIndexInRange
  <2>3. QED
    BY <2>2 DEF ActiveRecord, OwnRecordsPrivate, AllPrivate
<1>4. QED
  BY <1>1, <1>2, <1>3, HistoriesAreGenerations, PTL DEF Spec

-----------------------------------------------------------------------------
(* Resolving. *)

\* The keys of a history are consecutive.
InLine(recs) == \A i \in 1 .. Len(recs) : recs[i].key + 1 = recs[1].key + i

\* Keys in line are ordered as their positions are, and follow one another
\* where those do.
LEMMA KeysInLine ==
  ASSUME NEW recs \in Seq(KeyRecord), InLine(recs),
         NEW i \in 1 .. Len(recs), NEW j \in 1 .. Len(recs)
  PROVE  /\ recs[i].key <= recs[j].key <=> i <= j
         /\ recs[i].key = recs[j].key <=> i = j
         /\ recs[j].key = recs[i].key + 1 <=> j = i + 1
<1> DEFINE key(m) == recs[m].key
<1>1. key(1) \in Nat /\ key(i) \in Nat /\ key(j) \in Nat
  BY RecordFields
<1>2. key(i) + 1 = key(1) + i /\ key(j) + 1 = key(1) + j
  BY DEF InLine
<1>3. i \in Nat /\ j \in Nat
  OBVIOUS
<1> HIDE DEF key
<1>4. /\ key(i) <= key(j) <=> i <= j
      /\ key(i) = key(j) <=> i = j
      /\ key(j) = key(i) + 1 <=> j = i + 1
  BY <1>1, <1>2, <1>3
<1>5. QED
  BY <1>4 DEF key

\* Learning a key that is not there yet after one that is keeps them so.
LEMMA GrowsInLine ==
  ASSUME NEW recs \in Seq(KeyRecord), InLine(recs),
         NEW p \in Nat, Holds(recs, p), ~Holds(recs, p + 1),
         NEW t \in Tick, NEW r \in KeyRecord, r.key = p + 1
  PROVE  /\ InLine(Grow(recs, FindRecord(recs, p), t, r))
         /\ GrownBy(Grow(recs, FindRecord(recs, p), t, r), recs, FindRecord(recs, p), t, r)
<1> DEFINE i   == FindRecord(recs, p)
           new == Grow(recs, i, t, r)
<1>1. i \in 1 .. Len(recs) /\ recs[i].key = p
  BY FindRecordIsFirst
<1> HIDE DEF i
<1>2. GrownBy(new, recs, i, t, r)
  BY <1>1, GrowRecords, Zenon
<1> HIDE DEF new
<1>3. i = Len(recs)
  <2> SUFFICES ASSUME i # Len(recs) PROVE FALSE
    OBVIOUS
  <2>1. i + 1 \in 1 .. Len(recs) /\ 1 \in 1 .. Len(recs)
    BY <1>1
  <2>2. recs[i + 1].key = p + 1
    BY <1>1, <2>1, KeysInLine
  <2>3. QED
    BY <2>1, <2>2, FindRecordIsFirst
<1>4. Len(new) = Len(recs) + 1 /\ new[Len(recs) + 1].key = p + 1
      /\ \A j \in 1 .. Len(recs) : new[j].key = recs[j].key
  BY <1>2 DEF GrownBy
<1>5. InLine(new)
  <2> SUFFICES ASSUME NEW j \in 1 .. Len(recs) + 1
               PROVE  new[j].key + 1 = new[1].key + j
    BY <1>4 DEF InLine
  <2>1. 1 \in 1 .. Len(recs) /\ recs[1].key \in Nat
    BY <1>1, RecordFields
  <2>2. CASE j \in 1 .. Len(recs)
    BY <1>4, <2>1, <2>2 DEF InLine
  <2>3. CASE j = Len(recs) + 1
    <3>1. p + 1 = recs[1].key + Len(recs)
      BY <1>1, <1>3 DEF InLine
    <3>2. QED
      BY <1>4, <2>1, <2>3, <3>1
  <2>4. QED
    BY <2>2, <2>3
<1>6. QED
  BY <1>2, <1>5 DEF new, i

\* When nothing is redelivered or comes back, histories have no repeated
\* keys: what was appended to one was delivered, and what was delivered once
\* is not appended again.
ResolveInv ==
  \A v, a \in Agents :
    /\ InLine(records[v][a])
    /\ delivered[v][a] \subseteq announced[a]
    /\ v # a => \A i \in 2 .. Len(records[v][a]) :
                  \E ann \in delivered[v][a] : ann.new = records[v][a][i].key

\* Initial histories have at most one key.
LEMMA InitResolves == Init => ResolveInv
<1> SUFFICES ASSUME Init, NEW v \in Agents, NEW a \in Agents
             PROVE  /\ InLine(records[v][a])
                    /\ delivered[v][a] \subseteq announced[a]
                    /\ \A i \in 2 .. Len(records[v][a]) : FALSE
  BY DEF ResolveInv
<1>1. delivered[v][a] = {}
  BY DEF Init
<1>2. records[v][a] = IF v = a \/ Wired THEN <<NewRecord(0, 0, v = a)>> ELSE <<>>
  BY Zenon DEF Init
<1>3. Len(records[v][a]) <= 1
  BY <1>2 DEF NewRecord
<1>4. InLine(records[v][a])
  <2>1. records[v][a] \in Seq(KeyRecord)
    BY InitEstablishes DEF IndInv, TypeOK
  <2>2. QED
    BY <1>3, <2>1, RecordFields DEF InLine
<1>5. QED
  <2>1. records[v][a] \in Seq(KeyRecord)
    BY InitEstablishes DEF IndInv, TypeOK
  <2>2. QED
    BY <1>1, <1>3, <1>4, <2>1

\* An announcement whose prior key is known and that was not delivered before
\* is of a key the history does not have.
LEMMA NewsIsNew ==
  ASSUME IndInv, ResolveInv, ~Redelivery, ~Loopback,
         NEW v \in Agents, NEW a \in Agents, NEW ann \in announced[a],
         ObserveRotation(v, a, ann), Holds(records[v][a], ann.prev)
  PROVE  v # a /\ ~Holds(records[v][a], ann.prev + 1)
<1> DEFINE recs == records[v][a]
           p    == ann.prev
<1>1. v # a /\ ann \notin delivered[v][a]
  BY DEF ObserveRotation, Deliverable
<1>2. recs \in Seq(KeyRecord) /\ ann \in Announcement /\ announced[a] \subseteq Announcement
  BY DEF IndInv, TypeOK
<1>3. p \in Nat /\ InLine(recs)
  BY <1>2 DEF Announcement, ResolveInv
<1>4. ASSUME Holds(recs, p + 1)
      PROVE  FALSE
  <2>1. PICK i \in 1 .. Len(recs) : recs[i].key = p
    BY <1>2, FindRecordIsFirst
  <2>2. PICK j \in 1 .. Len(recs) : recs[j].key = p + 1
    BY <1>2, <1>4, FindRecordIsFirst
  <2>3. j \in 2 .. Len(recs)
    <3>1. j = i + 1
      BY <1>2, <1>3, <2>1, <2>2, KeysInLine
    <3>2. QED
      BY <3>1
  <2>4. PICK e \in delivered[v][a] : e.new = recs[j].key
    BY <1>1, <2>3 DEF ResolveInv
  <2>5. e \in announced[a] /\ e \in Announcement
    BY <1>2, <2>4 DEF ResolveInv
  <2>6. GenuineRotation(a, e) /\ GenuineRotation(a, ann)
    BY <2>5 DEF IndInv
  <2>7. e.new = ann.new /\ e.prev = ann.prev /\ e.issued_at = ann.issued_at
    BY <1>2, <1>3, <2>2, <2>4, <2>5, <2>6 DEF GenuineRotation, Announcement
  <2>8. e = ann
    BY <1>2, <2>5, <2>7 DEF Announcement
  <2>9. QED
    BY <1>1, <2>4, <2>8
<1>5. QED
  BY <1>1, <1>4

\* The own history ends with the newest key, so a rotation is in line.
LEMMA OwnNewest ==
  ASSUME IndInv, NEW a \in Agents
  PROVE  Holds(records[a][a], count[a]) /\ ~Holds(records[a][a], count[a] + 1)
<1>1. records[a][a] \in Seq(KeyRecord) /\ count[a] \in Nat /\ OwnHistoryOK(a)
  BY DEF IndInv, TypeOK
<1>2. Holds(records[a][a], count[a]) /\ HistoryOK(records[a][a], count[a], IssueTicks(a))
  BY <1>1 DEF IndInv, OwnHistoryOK
<1>3. \A j \in 1 .. Len(records[a][a]) : records[a][a][j].key # count[a] + 1
  BY <1>1, <1>2, RecordFields DEF HistoryOK
<1>4. QED
  BY <1>1, <1>2, <1>3, FindRecordIsFirst

\* Every step keeps histories in line with what was delivered.
LEMMA StepResolves ==
  ASSUME IndInv, ResolveInv, [Next]_vars, ~Redelivery, ~Loopback,
         NEW v \in Agents, NEW a \in Agents
  PROVE  /\ InLine(records'[v][a])
         /\ delivered'[v][a] \subseteq announced'[a]
         /\ v # a => \A i \in 2 .. Len(records'[v][a]) :
                       \E ann \in delivered'[v][a] : ann.new = records'[v][a][i].key
<1> DEFINE recs == records[v][a]
<1>1. /\ recs \in Seq(KeyRecord) /\ clock[a] \in Tick /\ count[a] \in Nat
      /\ InLine(recs) /\ delivered[v][a] \subseteq announced[a]
      /\ v # a => \A i \in 2 .. Len(recs) : \E ann \in delivered[v][a] : ann.new = recs[i].key
  BY DEF IndInv, TypeOK, ResolveInv
<1>2. delivered[v][a] \subseteq delivered'[v][a] /\ delivered'[v][a] \subseteq announced'[a]
  <2>1. /\ delivered \in [Agents -> [Agents -> SUBSET Announcement]]
        /\ announced \in [Agents -> SUBSET Announcement]
    BY DEF IndInv, TypeOK
  <2>2. CASE UNCHANGED <<delivered, announced>>
    BY <1>1, <2>2
  <2>3. ASSUME NEW b \in Signers, Announce(b)
        PROVE  delivered[v][a] \subseteq delivered'[v][a] /\ delivered'[v][a] \subseteq announced'[a]
    BY <1>1, <2>1, <2>3 DEF Announce
  <2>4. ASSUME NEW w \in Agents, NEW b \in Signers, NEW ann \in announced[b], ObserveRotation(w, b, ann)
        PROVE  delivered[v][a] \subseteq delivered'[v][a] /\ delivered'[v][a] \subseteq announced'[a]
    <3>1. delivered' = [delivered EXCEPT ![w][b] = @ \cup {ann}] /\ announced' = announced
      BY <2>4 DEF ObserveRotation
    <3>2. delivered'[v][a] = IF w = v /\ b = a THEN delivered[v][a] \cup {ann} ELSE delivered[v][a]
      BY <2>1, <3>1
    <3>3. QED
      BY <1>1, <3>1, <3>2
  <2>5. QED
    BY <2>2, <2>3, <2>4 DEF Next, vars, AdvanceTo, Sign, RotateKey, RegisterPeer
<1>3. CASE records'[v][a] = recs
  BY <1>1, <1>2, <1>3
<1>4. CASE HistoryRotated(v, a)
  <2> DEFINE r == NewRecord(count[a] + 1, clock[a], TRUE)
  <2>1. v = a /\ r \in KeyRecord
    BY <1>4, StepTypes DEF HistoryRotated
  <2>2. r.key = count[a] + 1
    BY DEF NewRecord
  <2> HIDE DEF r
  <2>3. InLine(Grow(recs, FindRecord(recs, count[a]), clock[a], r))
    BY <1>1, <2>1, <2>2, OwnNewest, GrowsInLine
  <2>4. QED
    BY <1>2, <1>4, <2>1, <2>3 DEF HistoryRotated, r
<1>5. CASE HistoryLearns(v, a)
  <2>1. PICK ann \in announced[a] :
          /\ ObserveRotation(v, a, ann)
          /\ Holds(recs, ann.prev)
          /\ records'[v][a] = Grow(recs, FindRecord(recs, ann.prev), ann.issued_at,
                                   NewRecord(ann.new, ann.issued_at, FALSE))
    BY <1>5 DEF HistoryLearns
  <2> DEFINE r == NewRecord(ann.new, ann.issued_at, FALSE)
             new == Grow(recs, FindRecord(recs, ann.prev), ann.issued_at, r)
  <2>2. r \in KeyRecord /\ ann \in Announcement /\ ann.new = ann.prev + 1
    BY StepTypes
  <2>3. ann.prev \in Nat /\ ann.issued_at \in Tick /\ r.key = ann.prev + 1
    BY <2>2 DEF Announcement, NewRecord
  <2>4. v # a /\ ~Holds(recs, ann.prev + 1)
    BY <2>1, NewsIsNew
  <2> HIDE DEF r
  <2>5. InLine(new) /\ GrownBy(new, recs, FindRecord(recs, ann.prev), ann.issued_at, r)
    BY <1>1, <2>1, <2>2, <2>3, <2>4, GrowsInLine
  <2>6. ann \in delivered'[v][a]
    <3>1. delivered' = [delivered EXCEPT ![v][a] = @ \cup {ann}]
      BY <2>1 DEF ObserveRotation
    <3>2. delivered \in [Agents -> [Agents -> SUBSET Announcement]]
      BY DEF IndInv, TypeOK
    <3>3. QED
      BY <3>1, <3>2
  <2> HIDE DEF new
  <2>7. /\ Len(new) = Len(recs) + 1 /\ new[Len(recs) + 1].key = ann.new
        /\ \A j \in 1 .. Len(recs) : new[j].key = recs[j].key
    BY <2>2, <2>3, <2>5 DEF GrownBy
  <2>8. \A i \in 2 .. Len(new) : \E e \in delivered'[v][a] : e.new = new[i].key
    <3> TAKE i \in 2 .. Len(new)
    <3>1. CASE i \in 2 .. Len(recs)
      BY <1>1, <1>2, <2>4, <2>7, <3>1
    <3>2. CASE i = Len(recs) + 1
      BY <2>6, <2>7, <3>2
    <3>3. QED
      BY <1>1, <2>7, <3>1, <3>2
  <2>9. records'[v][a] = new
    BY <2>1 DEF new, r
  <2>10. QED
    BY <1>2, <2>5, <2>8, <2>9
<1>6. CASE HistoryReplaced(v, a)
  <2>1. PICK k \in 0 .. count[a] : records'[v][a] = <<NewRecord(k, 0, FALSE)>>
    BY <1>6 DEF HistoryReplaced
  <2>2. k \in Nat /\ Len(records'[v][a]) = 1 /\ records'[v][a][1].key = k
    BY <1>1, <2>1 DEF NewRecord
  <2>3. InLine(records'[v][a])
    BY <2>2 DEF InLine
  <2>4. QED
    BY <1>2, <2>2, <2>3
<1>7. QED
  BY <1>3, <1>4, <1>5, <1>6, HistorySteps

\* resolve answers with the newest key of the agent that the instance has
\* learned (identity.py:291), when announcements arrive at most once and not
\* at their sender.
THEOREM ResolveCurrentHolds ==
  ASSUME ~Redelivery, ~Loopback
  PROVE  Spec => []ResolveCurrent
<1>1. Init => ResolveInv
  BY InitResolves
<1>2. IndInv /\ ResolveInv /\ [Next]_vars => ResolveInv'
  <2> SUFFICES ASSUME IndInv, ResolveInv, [Next]_vars PROVE ResolveInv'
    OBVIOUS
  <2>1. QED
    BY StepResolves DEF ResolveInv
<1>3. IndInv /\ ResolveInv => ResolveCurrent
  <2> SUFFICES ASSUME IndInv, ResolveInv, NEW v \in Agents, NEW a \in Agents,
                      NEW k \in 0 .. count[a], Knows(v, a, k)
               PROVE  Resolve(v, a) >= k
    BY DEF ResolveCurrent
  <2> DEFINE recs == records[v][a]
             n    == count[a]
             i    == ActiveIndex(recs)
             L    == Len(recs)
  <2>1. recs \in Seq(KeyRecord) /\ n \in Nat /\ InLine(recs) /\ Holds(recs, k)
    BY DEF IndInv, TypeOK, ResolveInv, Knows
  <2>2. PICK j \in 1 .. L : recs[j].key = k
    BY <2>1, FindRecordIsFirst
  <2>3. recs # <<>> /\ HistoryOK(recs, n, IssueTicks(a)) /\ recs[1].key \in Nat
    <3>1. recs # <<>>
      BY <2>1, <2>2
    <3>2. QED
      BY <2>1, <3>1, RecordFields DEF IndInv
  <2>4. \A m \in 0 .. n : IssueTicks(a)[m] \in Tick
    BY IssuesAreTicks
  <2> DEFINE I == IssueTicks(a)
  <2> HIDE DEF recs, n, L, I
  <2>5. \A m \in 1 .. L : /\ recs[m].key \in 0 .. n
                          /\ FindRecord(recs, recs[m].key) = m
                          /\ Holds(recs, recs[m].key)
    <3> TAKE m \in 1 .. L
    <3>1. recs[m].key \in 0 .. n /\ Holds(recs, recs[m].key)
      BY <2>1, <2>3, RecordFields, FindRecordIsFirst DEF HistoryOK, L, I
    <3>2. FindRecord(recs, recs[m].key) \in 1 .. L
          /\ recs[FindRecord(recs, recs[m].key)].key = recs[m].key
      BY <2>1, <3>1, FindRecordIsFirst DEF L
    <3>3. QED
      BY <2>1, <3>1, <3>2, KeysInLine DEF L
  <2>6. L \in 1 .. L /\ \A m \in 1 .. L : m # L => Holds(recs, recs[m].key + 1)
    <3>1. L \in 1 .. L
      BY <2>1, <2>2 DEF L
    <3>2. ASSUME NEW m \in 1 .. L, m # L
          PROVE  Holds(recs, recs[m].key + 1)
      <4>1. m + 1 \in 1 .. L
        BY <2>1, <3>2 DEF L
      <4>2. recs[m + 1].key = recs[m].key + 1
        BY <2>1, <4>1, KeysInLine DEF L
      <4>3. QED
        BY <2>1, <4>1, <4>2, FindRecordIsFirst DEF L
    <3>3. QED
      BY <3>1, <3>2
  <2>7. ~Holds(recs, recs[L].key + 1)
    <3> SUFFICES ASSUME Holds(recs, recs[L].key + 1) PROVE FALSE
      OBVIOUS
    <3>1. PICK m \in 1 .. L : recs[m].key = recs[L].key + 1
      BY <2>1, FindRecordIsFirst DEF L
    <3>2. QED
      <4>1. m = L + 1
        BY <2>1, <2>6, <3>1, KeysInLine DEF L
      <4>2. QED
        BY <2>6, <4>1
  <2>8. \A m \in 1 .. L : recs[m].rotated_out = IF m = L THEN Inf ELSE I[recs[m].key + 1]
    BY <2>3, <2>5, <2>6, <2>7 DEF HistoryOK, I
  <2>9. i \in 1 .. L /\ recs[i].rotated_out = Inf
    BY <2>1, <2>3, <2>6, <2>8, ActiveIndexInRange DEF ActiveRecord, L
  <2>10. i = L
    <3> SUFFICES ASSUME i # L PROVE FALSE
      OBVIOUS
    <3>1. recs[i].key + 1 \in 0 .. n
      <4>1. Holds(recs, recs[i].key + 1)
        BY <2>6, <2>9
      <4>2. PICK m \in 1 .. L : recs[m].key = recs[i].key + 1
        BY <2>1, <4>1, FindRecordIsFirst DEF L
      <4>3. QED
        BY <2>5, <4>2
    <3>2. I[recs[i].key + 1] \in Tick
      BY <2>4, <3>1 DEF I, n
    <3>3. QED
      BY <2>8, <2>9, <3>2, MaxTickAssumption DEF Tick, Inf
  <2>11. recs[L].key >= k
    BY <2>1, <2>2, <2>6, KeysInLine DEF L
  <2>12. QED
    BY <2>10, <2>11 DEF Resolve, ActiveRecord, recs
<1>4. QED
  BY <1>1, <1>2, <1>3, HistoriesAreGenerations, PTL DEF Spec

-----------------------------------------------------------------------------
(* The audit: signatures and verdicts. *)

\* What a step leaves: the issue ticks of the keys that exist.
TicksKept(b) ==
  /\ clock[b] <= clock'[b]
  /\ count[b] <= count'[b]
  /\ \A k \in 0 .. count[b] : IssueTicks(b)'[k] = IssueTicks(b)[k]

\* A step keeps the issue ticks, and moves no clock and no count back.
LEMMA StepKeepsTicks ==
  ASSUME IndInv, [Next]_vars, NEW b \in Agents
  PROVE  TicksKept(b)
<1> DEFINE own == records[b][b]
           new == records'[b][b]
<1>1. /\ own \in Seq(KeyRecord) /\ count[b] \in Nat /\ clock[b] \in Nat
      /\ \A k \in 0 .. count[b] : Holds(own, k)
  BY MaxTickAssumption DEF IndInv, TypeOK, OwnHistoryOK, Tick
<1>2. clock[b] <= clock'[b]
  <2>1. CASE UNCHANGED clock
    BY <1>1, <2>1
  <2>2. ASSUME NEW a \in Agents, NEW t \in Tick, AdvanceTo(a, t)
        PROVE  clock[b] <= clock'[b]
    BY <1>1, <2>2, MaxTickAssumption DEF AdvanceTo, IndInv, TypeOK, Tick
  <2>3. QED
    BY <2>1, <2>2 DEF Next, vars, Sign, RotateKey, Announce, ObserveRotation, RegisterPeer
<1>3. count[b] <= count'[b] /\ count'[b] \in Nat
  <2>1. CASE UNCHANGED count
    BY <1>1, <2>1
  <2>2. ASSUME NEW a \in Signers, RotateKey(a)
        PROVE  count[b] <= count'[b] /\ count'[b] \in Nat
    <3>1. count'[b] = IF b = a THEN count[b] + 1 ELSE count[b]
      BY <2>2 DEF RotateKey, IndInv, TypeOK
    <3>2. QED
      BY <1>1, <3>1
  <2>3. QED
    BY <2>1, <2>2 DEF Next, vars, AdvanceTo, Sign, Announce, ObserveRotation, RegisterPeer
<1>4. \A k \in 0 .. count[b] : new[FindRecord(new, k)].issued_at = own[FindRecord(own, k)].issued_at
  <2> SUFFICES ASSUME NEW k \in 0 .. count[b]
               PROVE  new[FindRecord(new, k)].issued_at = own[FindRecord(own, k)].issued_at
    OBVIOUS
  <2>1. own # <<>> /\ Holds(own, k)
    BY <1>1 DEF IndInv, OwnHistoryOK
  <2>2. ~HistoryReplaced(b, b)
    BY DEF HistoryReplaced, RegisterPeer
  <2>3. KeepsKeys(own, new)
    BY <2>1, <2>2, StepKeepsHistory
  <2>4. QED
    BY <2>1, <2>3 DEF KeepsKeys
<1>5. \A k \in 0 .. count[b] : IssueTicks(b)'[k] = IssueTicks(b)[k]
  <2>1. \A k \in 0 .. count[b] : k \in 0 .. count'[b]
    BY <1>1, <1>3
  <2>2. IssueTicks(b)' = [k \in 0 .. count'[b] |-> new[FindRecord(new, k)].issued_at]
    BY DEF IssueTicks
  <2>3. IssueTicks(b) = [k \in 0 .. count[b] |-> own[FindRecord(own, k)].issued_at]
    BY DEF IssueTicks
  <2>4. QED
    BY <1>4, <2>1, <2>2, <2>3
<1>6. QED
  BY <1>2, <1>3, <1>5 DEF TicksKept

-----------------------------------------------------------------------------
(* Signatures are made inside the windows of their keys. *)

\* A new signature is made with the newest key.
LEMMA SignInTime ==
  ASSUME AuditInv, NEW a \in Agents, NEW t \in Tick, Sign(a, t), NEW sig \in signed'
  PROVE  SignedInTime(sig)'
<1> DEFINE n == count[a]
           new == [signer |-> a, key |-> ActiveRecord(records[a][a]).key,
                   tick |-> t, made |-> clock[a]]
<1>1. /\ UNCHANGED <<clock, count, records>>
      /\ ActiveRecord(records[a][a]).private
      /\ signed' = signed \cup {new}
  BY DEF Sign
<1>2. \A b : IssueTicks(b)' = IssueTicks(b)
  BY <1>1 DEF IssueTicks
<1>3. CASE sig \in signed
  BY <1>1, <1>2, <1>3 DEF AuditInv, SignedInTime
<1>4. CASE sig = new
  <2>1. sig.signer = a /\ sig.key = n /\ sig.made = clock[a]
    BY <1>1, <1>4, NewestKeyActive DEF AuditInv
  <2>2. n \in Nat /\ clock[a] \in Nat /\ IssueTicks(a)[n] <= clock[a]
    BY MaxTickAssumption DEF AuditInv, IndInv, TypeOK, OwnHistoryOK, Tick
  <2>3. QED
    BY <1>1, <1>2, <2>1, <2>2 DEF SignedInTime
<1>5. QED
  BY <1>1, <1>3, <1>4

\* The key that replaces another is issued at the rotating agent's clock.
LEMMA RotationIssuesNow ==
  ASSUME IndInv, NEW a \in Signers, RotateKey(a)
  PROVE  /\ count'[a] = count[a] + 1
         /\ IssueTicks(a)'[count[a] + 1] = clock[a]
         /\ \A b \in Agents : b # a => count'[b] = count[b]
<1>1. a \in Agents /\ count[a] \in Nat
  BY DEF IndInv, TypeOK, Agents
<1>2. /\ \A b \in Agents : count'[b] = IF b = a THEN count[b] + 1 ELSE count[b]
      /\ last'[a].new = count[a] + 1
      /\ last'[a].issued_at = clock[a]
  BY <1>1 DEF RotateKey, IndInv, TypeOK
<1>3. last'[a] # NoRotation
  BY <1>1, <1>2 DEF NoRotation
<1>4. GenuineRotation(a, last[a])'
  BY <1>1, <1>3, RotateKeyKeeps DEF IndInv
<1>5. IssueTicks(a)'[count[a] + 1] = clock[a]
  BY <1>2, <1>4 DEF GenuineRotation
<1>6. QED
  BY <1>1, <1>2, <1>5

\* A signature that is there stays in time, whatever its signer does next.
LEMMA StaysInTime ==
  ASSUME AuditInv, [Next]_vars, NEW sig \in signed
  PROVE  SignedInTime(sig)'
<1> DEFINE a == sig.signer
           n == count[a]
<1>1. IndInv /\ SignedInTime(sig)
  BY DEF AuditInv
<1>2. a \in Agents /\ sig.key \in Nat /\ sig.made \in Nat /\ n \in Nat /\ clock[a] \in Nat
  BY <1>1, MaxTickAssumption DEF IndInv, TypeOK, Sig, Tick
<1>3. /\ sig.key <= n
      /\ IssueTicks(a)[sig.key] <= sig.made
      /\ sig.made <= clock[a]
      /\ sig.key < n => sig.made <= IssueTicks(a)[sig.key + 1]
  BY <1>1 DEF SignedInTime
<1>4. TicksKept(a) /\ IndInv'
  BY <1>1, <1>2, StepKeepsTicks, NextKeeps
<1>5. clock'[a] \in Nat /\ count'[a] \in Nat
  BY <1>2, <1>4, MaxTickAssumption DEF IndInv, TypeOK, Tick
<1>6. sig.key <= count'[a] /\ sig.made <= clock'[a]
  BY <1>2, <1>3, <1>4, <1>5 DEF TicksKept
<1>7. IssueTicks(a)'[sig.key] <= sig.made
  BY <1>2, <1>3, <1>4 DEF TicksKept
<1>8. CASE sig.key < n
  <2>1. sig.key + 1 \in 0 .. n
    BY <1>2, <1>8
  <2>2. IssueTicks(a)'[sig.key + 1] = IssueTicks(a)[sig.key + 1]
    BY <1>4, <2>1 DEF TicksKept
  <2>3. QED
    BY <1>3, <1>6, <1>7, <1>8, <2>2 DEF SignedInTime
<1>9. CASE sig.key = n
  <2>1. CASE count'[a] = n
    BY <1>2, <1>6, <1>7, <1>9, <2>1 DEF SignedInTime
  <2>2. ASSUME NEW b \in Signers, RotateKey(b)
        PROVE  SignedInTime(sig)'
    <3>1. CASE b = a
      BY <1>1, <1>3, <1>6, <1>7, <1>9, <2>2, <3>1, RotationIssuesNow DEF SignedInTime
    <3>2. CASE b # a
      BY <1>1, <1>2, <2>1, <2>2, <3>2, RotationIssuesNow
    <3>3. QED
      BY <3>1, <3>2
  <2>3. QED
    BY <2>1, <2>2 DEF Next, vars, AdvanceTo, Sign, Announce, ObserveRotation, RegisterPeer
<1>10. QED
  BY <1>2, <1>3, <1>8, <1>9

\* Every signature of a behaviour is made inside the closed window of its key.
THEOREM SignaturesInTime == Spec => []AuditInv
<1>1. Init => AuditInv
  BY InitEstablishes DEF AuditInv, Init
<1>2. AuditInv /\ [Next]_vars => AuditInv'
  <2> SUFFICES ASSUME AuditInv, [Next]_vars
               PROVE  AuditInv'
    OBVIOUS
  <2>1. IndInv'
    BY NextKeeps DEF AuditInv
  <2>2. ASSUME NEW sig \in signed'
        PROVE  SignedInTime(sig)'
    <3>1. CASE \E a \in Signers, t \in Tick : Sign(a, t)
      BY <2>2, <3>1, SignInTime DEF Agents
    <3>2. CASE UNCHANGED signed
      BY <2>2, <3>2, StaysInTime
    <3>3. QED
      BY <3>1, <3>2 DEF Next, vars, AdvanceTo, RotateKey, Announce, ObserveRotation, RegisterPeer
  <2>3. QED
    BY <2>1, <2>2 DEF AuditInv
<1>3. QED
  BY <1>1, <1>2, PTL DEF Spec

\* An honest signature audited as of its own tick is accepted by every
\* verifier that knows its key, whatever else was delivered to it, unless
\* the key rotated out in the very tick of the signature.
THEOREM HonestAuditHolds == Spec => []HonestAudit
<1>1. AuditInv => HonestAudit
  <2> SUFFICES ASSUME AuditInv, NEW sig \in signed, NEW v \in Agents,
                      sig.tick = sig.made,
                      LET own == records[sig.signer][sig.signer]
                      IN  own[FindRecord(own, sig.key)].rotated_out # sig.made,
                      Knows(v, sig.signer, sig.key)
               PROVE  VerifyAsOf(v, sig, sig.signer, sig.tick)
    BY DEF HonestAudit
  <2> DEFINE a == sig.signer
             k == sig.key
             n == count[a]
             own == records[a][a]
             recs == records[v][a]
             rec == recs[FindRecord(recs, k)]
  <2>1. /\ a \in Agents /\ k \in Nat /\ sig.made \in Tick /\ n \in Nat
        /\ own \in Seq(KeyRecord) /\ recs \in Seq(KeyRecord)
    BY DEF AuditInv, IndInv, TypeOK, Sig
  <2>2. /\ IndInv
        /\ k <= n
        /\ IssueTicks(a)[k] <= sig.made
        /\ k < n => sig.made <= IssueTicks(a)[k + 1]
    BY DEF AuditInv, SignedInTime
  <2>3. Holds(recs, k) /\ FindRecord(recs, k) \in 1 .. Len(recs) /\ rec.key = k
    <3>1. Holds(recs, k)
      BY DEF Knows
    <3>2. QED
      BY <2>1, <3>1, FindRecordIsFirst
  <2>4. HistoryOK(recs, n, IssueTicks(a))
    <3>1. recs # <<>>
      BY <2>3
    <3>2. QED
      BY <2>1, <2>2, <3>1 DEF IndInv
  <2>5. /\ k # recs[1].key => rec.issued_at = IssueTicks(a)[k]
        /\ rec.rotated_out = IF Holds(recs, k + 1) THEN IssueTicks(a)[k + 1] ELSE Inf
    <3>1. k \in 0 .. n
      BY <2>1, <2>2
    <3> HIDE DEF recs, n, k
    <3>2. QED
      BY <2>3, <2>4, <3>1 DEF HistoryOK
  \* The window opens by the tick of the signature.
  <2>6. rec.issued_at <= sig.made
    <3>1. CASE k = recs[1].key
      <4>1. FindRecord(recs, k) = 1
        <5> HIDE DEF recs, k
        <5>1. FindRecord(recs, k) <= 1 /\ 1 \in 1 .. Len(recs)
          BY <2>1, <2>3, <3>1, FindRecordIsFirst
        <5>2. QED
          BY <2>3, <5>1
      <4>2. recs[1].issued_at = 0
        BY <2>4 DEF HistoryOK
      <4>3. QED
        BY <2>1, <4>1, <4>2, MaxTickAssumption DEF Tick
    <3>2. QED
      BY <2>2, <2>5, <3>1
  \* It closes after that tick.
  <2>7. sig.made < rec.rotated_out
    <3>1. CASE ~Holds(recs, k + 1)
      BY <2>1, <2>5, <3>1, MaxTickAssumption DEF Tick, Inf
    <3>2. CASE Holds(recs, k + 1)
      <4>1. k + 1 \in Nat /\ k + 1 <= n
        <5>1. PICK j \in 1 .. Len(recs) : recs[j].key = k + 1
          BY <2>1, <3>2, FindRecordIsFirst
        <5>2. QED
          BY <2>1, <2>4, <5>1 DEF HistoryOK
      <4>2. sig.made <= IssueTicks(a)[k + 1]
        BY <2>1, <2>2, <4>1
      <4>3. own # <<>> /\ HistoryOK(own, n, IssueTicks(a)) /\ Holds(own, k) /\ Holds(own, k + 1)
        BY <2>1, <2>2, <4>1 DEF IndInv, OwnHistoryOK
      <4>4. own[FindRecord(own, k)].rotated_out = IssueTicks(a)[k + 1]
        BY <2>1, <2>2, <4>3 DEF HistoryOK
      <4>5. IssueTicks(a)[k + 1] # sig.made
        BY <4>4
      <4>6. rec.rotated_out \in Tick \cup {Inf} /\ rec.rotated_out = IssueTicks(a)[k + 1]
        BY <2>1, <2>3, <2>5, <3>2, RecordFields
      <4>7. QED
        BY <2>1, <4>2, <4>5, <4>6, MaxTickAssumption DEF Tick, Inf
    <3>3. QED
      BY <3>1, <3>2
  <2>8. Accepts(recs, k, sig.made, sig.made)
    BY <2>3, <2>6, <2>7 DEF Accepts, Within
  <2>9. QED
    BY <2>8 DEF VerifyAsOf
<1>2. QED
  BY <1>1, SignaturesInTime, PTL

-----------------------------------------------------------------------------
(* Verdicts. *)

\* What the generations say of tick t and generation k of a history.
InGeneration(recs, k, I, t) ==
  /\ k # recs[1].key => I[k] <= t
  /\ Holds(recs, k + 1) => t < I[k + 1]

\* verify_as_of accepts exactly inside the generations of a history.
LEMMA VerdictsOfGenerations ==
  ASSUME NEW recs \in Seq(KeyRecord), recs # <<>>,
         NEW n \in Nat, NEW I, HistoryOK(recs, n, I),
         NEW k \in 0 .. n, NEW c \in Tick, NEW t \in Tick
  PROVE  Accepts(recs, k, c, t) <=>
           Holds(recs, k) /\ InGeneration(recs, k, I, c) /\ InGeneration(recs, k, I, t)
<1> DEFINE rec == recs[FindRecord(recs, k)]
<1> SUFFICES ASSUME Holds(recs, k), NEW s \in Tick
             PROVE  Within(rec, s) <=> InGeneration(recs, k, I, s)
  BY DEF Accepts
<1>1. /\ FindRecord(recs, k) \in 1 .. Len(recs)
      /\ rec.key = k
      /\ k = recs[1].key => FindRecord(recs, k) = 1
  <2>1. FindRecord(recs, k) \in 1 .. Len(recs) /\ rec.key = k
    BY FindRecordIsFirst
  <2>2. 1 \in 1 .. Len(recs)
    OBVIOUS
  <2>3. k = recs[1].key => FindRecord(recs, k) <= 1
    BY <2>2, FindRecordIsFirst
  <2>4. QED
    BY <2>1, <2>3
<1>2. /\ k # recs[1].key => rec.issued_at = I[k]
      /\ rec.rotated_out = IF Holds(recs, k + 1) THEN I[k + 1] ELSE Inf
      /\ recs[1].issued_at = 0
  BY DEF HistoryOK
<1>3. s < Inf /\ 0 <= s
  BY MaxTickAssumption DEF Tick, Inf
<1>4. (rec.issued_at <= s) <=> (k # recs[1].key => I[k] <= s)
  BY <1>1, <1>2, <1>3
<1>5. (s < rec.rotated_out) <=> (Holds(recs, k + 1) => s < I[k + 1])
  BY <1>2, <1>3
<1>6. QED
  BY <1>4, <1>5 DEF Within, InGeneration

\* In every reachable state verdicts are those of the generations.
LEMMA VerdictsInState ==
  ASSUME IndInv, NEW v \in Agents, NEW a \in Agents, records[v][a] # <<>>,
         NEW k \in 0 .. count[a], NEW c \in Tick, NEW t \in Tick
  PROVE  Accepts(records[v][a], k, c, t) <=>
           /\ Holds(records[v][a], k)
           /\ InGeneration(records[v][a], k, IssueTicks(a), c)
           /\ InGeneration(records[v][a], k, IssueTicks(a), t)
<1>1. /\ records[v][a] \in Seq(KeyRecord) /\ count[a] \in Nat
      /\ HistoryOK(records[v][a], count[a], IssueTicks(a))
  BY DEF IndInv, TypeOK
<1>2. QED
  BY <1>1, VerdictsOfGenerations

\* Once a verifier knows the successor of a key, its verdicts on that key
\* never change again, whatever still arrives (identity.py:217-220).
THEOREM VerdictsAreStable == Spec => AuditStable
<1>1. IndInv /\ IndInv' /\ [Next]_vars =>
        [\A v \in Agents, a \in Signers : \A k \in 0 .. count[a] :
           ( /\ Knows(v, a, k)
             /\ Knows(v, a, k + 1)
             /\ ~ \E n \in 0 .. count[a] : RegisterPeer(v, a, n) )
           => \A c, t \in Tick :
                Accepts(records[v][a], k, c, t) <=> Accepts(records[v][a], k, c, t)']_vars
  <2> SUFFICES ASSUME IndInv, IndInv', [Next]_vars,
                      NEW v \in Agents, NEW a \in Signers, NEW k \in 0 .. count[a],
                      Knows(v, a, k), Knows(v, a, k + 1),
                      ~ \E n \in 0 .. count[a] : RegisterPeer(v, a, n),
                      NEW c \in Tick, NEW t \in Tick
               PROVE  Accepts(records[v][a], k, c, t) <=> Accepts(records'[v][a], k, c, t)
    OBVIOUS
  <2> DEFINE recs == records[v][a]
             new  == records'[v][a]
             I    == IssueTicks(a)
             J    == IssueTicks(a)'
  <2>1. a \in Agents /\ recs \in Seq(KeyRecord) /\ new \in Seq(KeyRecord) /\ count[a] \in Nat /\ count'[a] \in Nat
    BY DEF Agents, IndInv, TypeOK
  <2>2. Holds(recs, k) /\ Holds(recs, k + 1)
    BY DEF Knows
  <2>3. recs # <<>>
    BY <2>1, <2>2, FindRecordIsFirst
  <2>4. KeepsKeys(recs, new)
    BY <2>1, <2>3, StepKeepsHistory DEF HistoryReplaced
  <2>5. count[a] <= count'[a] /\ \A m \in 0 .. count[a] : J[m] = I[m]
    BY <2>1, StepKeepsTicks DEF TicksKept
  <2>6. k + 1 \in 0 .. count[a] /\ k \in 0 .. count'[a]
    <3>1. HistoryOK(recs, count[a], I)
      BY <2>1, <2>3 DEF IndInv
    <3>2. PICK j \in 1 .. Len(recs) : recs[j].key = k + 1
      BY <2>1, <2>2, FindRecordIsFirst
    <3>3. k + 1 <= count[a]
      BY <2>1, <3>1, <3>2 DEF HistoryOK
    <3>4. QED
      BY <2>1, <2>5, <3>3
  <2>7. Accepts(recs, k, c, t) <=> InGeneration(recs, k, I, c) /\ InGeneration(recs, k, I, t)
    BY <2>1, <2>2, <2>3, VerdictsInState
  <2>8. Accepts(new, k, c, t) <=> InGeneration(new, k, J, c) /\ InGeneration(new, k, J, t)
    <3>1. Holds(new, k) /\ new # <<>>
      BY <2>2, <2>4 DEF KeepsKeys
    <3>2. HistoryOK(new, count'[a], J)
      BY <2>1, <3>1 DEF IndInv
    <3> HIDE DEF new, J
    <3>3. QED
      BY <2>1, <2>6, <3>1, <3>2, VerdictsOfGenerations
  <2>9. \A s \in Tick : InGeneration(new, k, J, s) <=> InGeneration(recs, k, I, s)
    <3>1. /\ new[1].key = recs[1].key /\ Holds(new, k + 1)
          /\ J[k] = I[k] /\ J[k + 1] = I[k + 1]
      BY <2>2, <2>4, <2>5, <2>6 DEF KeepsKeys
    <3> HIDE DEF new, recs, I, J
    <3>2. QED
      BY <2>2, <3>1 DEF InGeneration
  <2>10. QED
    BY <2>7, <2>8, <2>9
<1>2. QED
  BY <1>1, HistoriesAreGenerations, PTL DEF AuditStable, Spec

-----------------------------------------------------------------------------
(* The interval of generations a history knows. *)

\* What viewOf says of one history.
Interval(recs) ==
  IF recs = <<>> THEN [lo |-> 1, hi |-> 0]
  ELSE [lo |-> recs[1].key, hi |-> Max({recs[i].key : i \in DOMAIN recs})]

\* A history of generations knows exactly the keys of its interval.
LEMMA IntervalOfHistory ==
  ASSUME NEW recs \in Seq(KeyRecord), recs # <<>>, NEW n \in Nat, NEW I, HistoryOK(recs, n, I)
  PROVE  /\ Interval(recs).lo = recs[1].key
         /\ Interval(recs).lo \in Nat /\ Interval(recs).hi \in Nat
         /\ Interval(recs).lo <= Interval(recs).hi /\ Interval(recs).hi <= n
         /\ \A k \in Nat : Holds(recs, k) <=> (Interval(recs).lo <= k /\ k <= Interval(recs).hi)
<1> DEFINE S == {recs[i].key : i \in DOMAIN recs}
<1>1. Interval(recs).lo = recs[1].key /\ Interval(recs).hi = Max(S)
  BY DEF Interval
<1>2. /\ DOMAIN recs = 1 .. Len(recs) /\ 1 \in DOMAIN recs
      /\ \A i \in DOMAIN recs : recs[i].key \in Nat /\ recs[1].key <= recs[i].key /\ recs[i].key <= n
  BY RecordFields DEF HistoryOK
<1>3. S \in SUBSET (0 .. n) /\ S # {}
  BY <1>2
<1>4. Max(S) \in S /\ \A y \in S : Max(S) >= y
  <2> HIDE DEF S
  <2>1. QED
    BY <1>3, MaxIsLargest
<1>5. PICK j \in DOMAIN recs : recs[j].key = Max(S)
  BY <1>4
<1>6. \A k \in Nat : Holds(recs, k) => recs[1].key <= k /\ k <= Max(S)
  <2> TAKE k \in Nat
  <2> HAVE Holds(recs, k)
  <2>1. PICK i \in 1 .. Len(recs) : recs[i].key = k
    BY FindRecordIsFirst
  <2>2. k \in S /\ Max(S) \in Nat
    BY <1>2, <1>3, <1>4, <2>1
  <2>3. QED
    BY <1>2, <1>4, <2>1, <2>2
<1>7. \A k \in Nat : recs[1].key <= k /\ k <= Max(S) => Holds(recs, k)
  BY <1>2, <1>5 DEF HistoryOK
<1>8. QED
  BY <1>1, <1>2, <1>5, <1>6, <1>7

\* The abstract view is the interval of every history.
LEMMA ViewIsInterval ==
  ASSUME NEW v \in Agents, NEW a \in Agents
  PROVE  viewOf[v][a] = Interval(records[v][a])
BY DEF viewOf, Interval

\* The abstract issues are the issue ticks.
IssueReads ==
  \A a \in Agents : count[a] \in Nat =>
    /\ Len(issueOf[a]) = count[a] + 1
    /\ \A k \in 0 .. count[a] : issueOf[a][k + 1] = IssueTicks(a)[k]

\* Both read the same record of the owner's history.
LEMMA IssueIsTicks == IssueReads
<1> SUFFICES ASSUME NEW a \in Agents, count[a] \in Nat
             PROVE  /\ Len(issueOf[a]) = count[a] + 1
                    /\ \A k \in 0 .. count[a] : issueOf[a][k + 1] = IssueTicks(a)[k]
  BY DEF IssueReads
<1>1. issueOf[a] = [i \in 1 .. count[a] + 1 |->
                      records[a][a][FindRecord(records[a][a], i - 1)].issued_at]
  BY DEF issueOf
<1>2. Len(issueOf[a]) = count[a] + 1
  BY <1>1
<1>3. \A k \in 0 .. count[a] : k + 1 \in 1 .. count[a] + 1 /\ (k + 1) - 1 = k
  OBVIOUS
<1>4. QED
  BY <1>1, <1>2, <1>3 DEF IssueTicks

\* Every verdict of verify_as_of is the one the generations prescribe.
THEOREM VerdictsAreTheGenerations == Spec => []VerdictsAreGenerational
<1>1. IndInv => VerdictsAreGenerational
  <2> SUFFICES ASSUME IndInv, NEW v \in Agents, NEW a \in Agents,
                      NEW k \in 0 .. MaxRotations, NEW c \in Tick, NEW t \in Tick
               PROVE  Accepts(records[v][a], k, c, t) <=> Abs!Accepts(v, a, k, c, t)
    BY DEF VerdictsAreGenerational
  <2> DEFINE recs == records[v][a]
             I    == IssueTicks(a)
             lo   == Interval(recs).lo
             hi   == Interval(recs).hi
  <2>1. recs \in Seq(KeyRecord) /\ count[a] \in Nat /\ k \in Nat
    BY BoundsAssumption DEF IndInv, TypeOK
  <2>2. Abs!Known(v, a, k) <=> lo <= k /\ k <= hi
    BY ViewIsInterval DEF Abs!Known
  <2>3. CASE recs = <<>>
    <3>1. ~Holds(recs, k)
      <4>1. Len(recs) = 0
        BY <2>3
      <4>2. QED
        BY <2>1, <4>1, FindRecordIsFirst
    <3>2. lo = 1 /\ hi = 0
      BY <2>3 DEF Interval
    <3>3. QED
      BY <2>1, <2>2, <3>1, <3>2 DEF Accepts, Abs!Accepts, Abs!InWindow
  <2>4. CASE recs # <<>>
    <3>1. /\ lo = recs[1].key /\ lo \in Nat /\ hi \in Nat /\ lo <= hi /\ hi <= count[a]
          /\ \A m \in Nat : Holds(recs, m) <=> (lo <= m /\ m <= hi)
      BY <2>1, <2>4, IntervalOfHistory DEF IndInv
    <3> HIDE DEF recs, I, lo, hi
    <3>2. CASE ~Holds(recs, k)
      BY <2>1, <2>2, <3>1, <3>2 DEF Accepts, Abs!Accepts, Abs!InWindow, recs
    <3>3. CASE Holds(recs, k)
      <4>1. k \in 0 .. count[a]
        BY <2>1, <3>1, <3>3
      <4>2. Accepts(recs, k, c, t) <=> InGeneration(recs, k, I, c) /\ InGeneration(recs, k, I, t)
        BY <2>4, <3>3, <4>1, VerdictsInState DEF recs, I
      <4>3. \A s \in Tick : Abs!InWindow(v, a, k, s) <=> InGeneration(recs, k, I, s)
        <5> SUFFICES ASSUME NEW s \in Tick
                     PROVE  Abs!InWindow(v, a, k, s) <=> InGeneration(recs, k, I, s)
          OBVIOUS
        <5>1. Abs!Known(v, a, k)
          BY <2>1, <2>2, <3>1, <3>3
        <5>2. Abs!Opens(v, a, k) = IF k = lo THEN 0 ELSE I[k]
          BY <2>1, <4>1, ViewIsInterval, IssueIsTicks DEF IssueReads, Abs!Opens, lo, recs, I
        <5>3. k < viewOf[v][a].hi <=> Holds(recs, k + 1)
          BY <2>1, <3>1, <3>3, ViewIsInterval DEF hi, recs
        <5>4. Holds(recs, k + 1) => issueOf[a][k + 2] = I[k + 1]
          <6>1. HAVE Holds(recs, k + 1)
          <6>2. k + 1 \in 0 .. count[a] /\ (k + 1) + 1 = k + 2
            BY <2>1, <3>1, <6>1
          <6>3. QED
            BY <2>1, <6>2, IssueIsTicks DEF IssueReads, I
        <5>5. 0 <= s
          BY DEF Tick
        <5>6. (Abs!Opens(v, a, k) <= s) <=> (k # recs[1].key => I[k] <= s)
          BY <3>1, <5>2, <5>5
        <5>7. (k < viewOf[v][a].hi => s < issueOf[a][k + 2])
                <=> (Holds(recs, k + 1) => s < I[k + 1])
          BY <5>3, <5>4
        <5>8. QED
          BY <5>1, <5>6, <5>7, Zenon DEF Abs!InWindow, InGeneration
      <4>4. QED
        BY <4>2, <4>3 DEF Abs!Accepts, recs
    <3>4. QED
      BY <3>2, <3>3 DEF recs
  <2>5. QED
    BY <2>3, <2>4
<1>2. QED
  BY <1>1, HistoriesAreGenerations, PTL

-----------------------------------------------------------------------------
(* The histories implement generations. *)

\* Learning the successor of a known key lengthens the interval by one if the
\* key was the last one known, and leaves it as it is otherwise.
LEMMA IntervalGrows ==
  ASSUME NEW recs \in Seq(KeyRecord), NEW new \in Seq(KeyRecord),
         NEW n \in Nat, NEW I, NEW m \in Nat, NEW J,
         recs # <<>>, new # <<>>, HistoryOK(recs, n, I), HistoryOK(new, m, J),
         new[1].key = recs[1].key,
         NEW p \in Nat, Holds(recs, p),
         \A k : Holds(new, k) <=> (Holds(recs, k) \/ k = p + 1)
  PROVE  /\ p < Interval(recs).hi => Interval(new) = Interval(recs)
         /\ p >= Interval(recs).hi => /\ p = Interval(recs).hi
                                      /\ Interval(new) = [Interval(recs) EXCEPT !.hi = @ + 1]
<1> DEFINE lo == Interval(recs).lo
           hi == Interval(recs).hi
           to == Interval(new).hi
<1>1. /\ lo \in Nat /\ hi \in Nat /\ lo <= hi
      /\ \A k \in Nat : Holds(recs, k) <=> (lo <= k /\ k <= hi)
      /\ lo = recs[1].key
  BY IntervalOfHistory
<1>2. /\ Interval(new).lo = lo /\ to \in Nat /\ lo <= to
      /\ \A k \in Nat : Holds(new, k) <=> (lo <= k /\ k <= to)
  BY <1>1, IntervalOfHistory
<1>3. /\ Interval(recs) = [lo |-> lo, hi |-> hi]
      /\ Interval(new) = [lo |-> lo, hi |-> to]
  BY <1>2 DEF Interval
<1> HIDE DEF lo, hi, to
<1>4. lo <= p /\ p <= hi
  BY <1>1
<1>5. \A k \in Nat : (lo <= k /\ k <= to) <=> ((lo <= k /\ k <= hi) \/ k = p + 1)
  BY <1>1, <1>2
<1>6. p < hi => to = hi
  <2> HAVE p < hi
  <2>1. hi <= to
    BY <1>1, <1>5
  <2>2. to <= hi
    BY <1>1, <1>2, <1>4, <1>5
  <2>3. QED
    BY <1>1, <1>2, <2>1, <2>2
<1>7. p >= hi => p = hi /\ to = hi + 1
  <2> HAVE p >= hi
  <2>1. p = hi
    BY <1>1, <1>4
  <2>2. hi + 1 <= to
    <3>1. hi + 1 \in Nat
      BY <1>1
    <3>2. QED
      BY <1>5, <2>1, <3>1
  <2>3. to <= hi + 1
    BY <1>1, <1>2, <1>5, <2>1
  <2>4. QED
    BY <1>1, <1>2, <2>1, <2>2, <2>3
<1>8. Interval(recs).hi = hi
  BY <1>3
<1>9. QED
  BY <1>3, <1>6, <1>7, <1>8

\* A history that a rotation, own or observed, adds key p + 1 to.
LEMMA GrownInterval ==
  ASSUME IndInv, IndInv', NEW v \in Agents, NEW a \in Agents, records[v][a] # <<>>,
         NEW p \in Nat, Holds(records[v][a], p), NEW t \in Tick, NEW r \in KeyRecord,
         r.key = p + 1,
         records'[v][a] = Grow(records[v][a], FindRecord(records[v][a], p), t, r)
  PROVE  /\ p < Interval(records[v][a]).hi => Interval(records'[v][a]) = Interval(records[v][a])
         /\ p >= Interval(records[v][a]).hi =>
              /\ p = Interval(records[v][a]).hi
              /\ Interval(records'[v][a]) = [Interval(records[v][a]) EXCEPT !.hi = @ + 1]
<1> DEFINE recs == records[v][a]
           i    == FindRecord(recs, p)
           new  == Grow(recs, i, t, r)
<1>1. recs \in Seq(KeyRecord) /\ i \in 1 .. Len(recs)
  <2>1. recs \in Seq(KeyRecord)
    BY DEF IndInv, TypeOK
  <2>2. QED
    BY <2>1, FindRecordIsFirst
<1> HIDE DEF i
<1>2. KeepsKeys(recs, new)
  BY <1>1, GrownKeeps, Zenon
<1>3. FindsAfter(new, recs, r.key)
  BY <1>1, GrowFinds, Zenon
<1> HIDE DEF new
<1>4. new = records'[v][a]
  BY DEF new, i
<1>5. new # <<>> /\ new[1].key = recs[1].key
  BY <1>2 DEF KeepsKeys
<1>6. \A k : Holds(new, k) <=> (Holds(recs, k) \/ k = p + 1)
  BY <1>3, Zenon DEF FindsAfter
<1>7. new \in Seq(KeyRecord) /\ count[a] \in Nat /\ count'[a] \in Nat
  BY <1>4 DEF IndInv, TypeOK
<1>8. HistoryOK(recs, count[a], IssueTicks(a))
  BY DEF IndInv
<1>9. HistoryOK(new, count'[a], IssueTicks(a)')
  BY <1>4, <1>5 DEF IndInv
<1> DEFINE J == IssueTicks(a)'
<1>10. HistoryOK(new, count'[a], J)
  BY <1>9
<1> HIDE DEF J, recs
<1>11. /\ p < Interval(recs).hi => Interval(new) = Interval(recs)
       /\ p >= Interval(recs).hi => /\ p = Interval(recs).hi
                                    /\ Interval(new) = [Interval(recs) EXCEPT !.hi = @ + 1]
  <2>1. recs # <<>> /\ Holds(recs, p)
    BY DEF recs
  <2>2. QED
    BY <1>1, <1>5, <1>6, <1>7, <1>8, <1>10, <2>1, IntervalGrows
<1>12. QED
  BY <1>4, <1>11 DEF recs

\* A step that changes one history changes one interval.
LEMMA ViewAfter ==
  ASSUME IndInv, NEW v \in Agents, NEW a \in Agents, NEW new,
         records' = [records EXCEPT ![v][a] = new]
  PROVE  viewOf' = [viewOf EXCEPT ![v][a] = Interval(new)]
<1>1. records \in [Agents -> [Agents -> Seq(KeyRecord)]]
  BY DEF IndInv, TypeOK
<1>2. \A w, b \in Agents : records'[w][b] = IF w = v /\ b = a THEN new ELSE records[w][b]
  BY <1>1
<1>3. viewOf = [w \in Agents |-> [b \in Agents |-> Interval(records[w][b])]]
  BY DEF viewOf, Interval
<1>4. viewOf' = [w \in Agents |-> [b \in Agents |-> Interval(records'[w][b])]]
  BY DEF viewOf, Interval
<1>5. viewOf' = [w \in Agents |-> [b \in Agents |->
                   IF w = v /\ b = a THEN Interval(new) ELSE Interval(records[w][b])]]
  BY <1>2, <1>4
<1>6. QED
  BY <1>3, <1>5

\* The definition, in the terms of the lemmas on a step.
LEMMA IssueIs ==
  issueOf = [a \in Agents |-> [i \in 1 .. count[a] + 1 |->
               records[a][a][FindRecord(records[a][a], i - 1)].issued_at]]
BY DEF issueOf

\* A step keeps the issues of the generations that exist.
LEMMA IssueKept ==
  ASSUME IndInv, [Next]_vars, NEW a \in Agents
  PROVE  \A i \in 1 .. count[a] + 1 : issueOf'[a][i] = issueOf[a][i]
<1>1. count[a] \in Nat /\ count'[a] \in Nat /\ count[a] <= count'[a]
  <2>1. IndInv'
    BY NextKeeps
  <2>2. QED
    BY <2>1, StepKeepsTicks DEF IndInv, TypeOK, TicksKept
<1>2. TAKE i \in 1 .. count[a] + 1
<1>3. i - 1 \in 0 .. count[a] /\ i - 1 \in 0 .. count'[a] /\ (i - 1) + 1 = i
  BY <1>1
<1>4. issueOf[a][i] = IssueTicks(a)[i - 1]
  BY <1>1, <1>3, IssueIsTicks DEF IssueReads
<1>5. IssueReads'
  BY IssueIsTicks, PTL
<1>6. issueOf'[a][i] = IssueTicks(a)'[i - 1]
  BY <1>1, <1>3, <1>5 DEF IssueReads
<1>7. QED
  BY <1>3, <1>4, <1>6, StepKeepsTicks DEF TicksKept

\* The initial state is one of generations.
LEMMA InitGenerations == Init => Abs!Init
<1> SUFFICES ASSUME Init PROVE Abs!Init
  OBVIOUS
<1>1. IndInv
  BY InitEstablishes
<1>2. \A v, a \in Agents :
        records[v][a] = IF v = a \/ Wired THEN <<NewRecord(0, 0, v = a)>> ELSE <<>>
  BY Zenon DEF Init
<1>3. \A v, a \in Agents :
        /\ records[v][a] # <<>> => Interval(records[v][a]) = [lo |-> 0, hi |-> 0]
        /\ records[v][a] = <<>> => Interval(records[v][a]) = [lo |-> 1, hi |-> 0]
  <2> TAKE v, a \in Agents
  <2>1. ASSUME records[v][a] # <<>>
        PROVE  Interval(records[v][a]) = [lo |-> 0, hi |-> 0]
    <3> DEFINE recs == records[v][a]
    <3>1. recs = <<NewRecord(0, 0, v = a)>>
      BY <1>2, <2>1, Zenon
    <3>2. recs[1].key = 0
      BY <3>1 DEF NewRecord
    <3>3. count[a] = 0 /\ recs \in Seq(KeyRecord)
      BY <1>1 DEF Init, IndInv, TypeOK
    <3>4. HistoryOK(recs, 0, IssueTicks(a))
      BY <1>1, <2>1, <3>3 DEF IndInv
    <3> HIDE DEF recs
    <3>5. /\ Interval(recs).lo = 0 /\ Interval(recs).hi \in Nat /\ Interval(recs).hi <= 0
      <4>1. recs # <<>>
        BY <2>1 DEF recs
      <4>2. QED
        BY <3>2, <3>3, <3>4, <4>1, IntervalOfHistory
    <3>6. Interval(recs) = [lo |-> Interval(recs).lo, hi |-> Interval(recs).hi]
      BY DEF Interval
    <3>7. QED
      BY <3>5, <3>6 DEF recs
  <2>2. records[v][a] = <<>> => Interval(records[v][a]) = [lo |-> 1, hi |-> 0]
    BY DEF Interval
  <2>3. QED
    BY <2>1, <2>2
<1>4. viewOf = [v \in Agents |-> [a \in Agents |-> Interval(records[v][a])]]
  BY DEF viewOf, Interval
<1>5. \A a \in Agents : records[a][a] # <<>>
  BY <1>1 DEF IndInv, OwnHistoryOK
<1>6. viewOf \in [Agents -> [Agents -> {Abs!Only(0), Abs!NoView}]]
      /\ \A a \in Agents : viewOf[a][a] = Abs!Only(0)
  BY <1>3, <1>4, <1>5 DEF Abs!Only, Abs!NoView
<1>7. issueOf = [a \in Agents |-> <<0>>]
  <2>0. \A a \in Agents : count[a] = 0
    BY DEF Init
  <2>1. \A a \in Agents : records[a][a] = <<NewRecord(0, 0, TRUE)>>
    BY DEF Init
  <2>2. \A a \in Agents : IssueTicks(a)[0] = 0
    <3> TAKE a \in Agents
    <3>0. count[a] = 0 /\ 0 \in 0 .. count[a]
      BY <2>0
    <3>1. records[a][a] \in Seq(KeyRecord) /\ Holds(records[a][a], 0)
      BY <1>1, <3>0 DEF IndInv, OwnHistoryOK, TypeOK
    <3>5. Len(records[a][a]) = 1
      BY <2>1 DEF NewRecord
    <3>2. FindRecord(records[a][a], 0) \in 1 .. 1
      BY <3>1, <3>5, FindRecordIsFirst
    <3>3. records[a][a][FindRecord(records[a][a], 0)].issued_at = 0
      BY <2>1, <3>2 DEF NewRecord
    <3>4. QED
      BY <3>0, <3>3 DEF IssueTicks
  <2>3. \A a \in Agents : issueOf[a] = <<0>>
    <3> TAKE a \in Agents
    <3>1. count[a] = 0 /\ count[a] \in Nat /\ 0 \in 0 .. count[a] /\ count[a] + 1 = 1
      BY <2>0
    <3>2. issueOf[a][1] = 0
      BY <2>2, <3>1, IssueIsTicks DEF IssueReads
    <3>3. issueOf[a] = [i \in 1 .. 1 |-> issueOf[a][i]]
      BY <3>1, IssueIs
    <3>4. QED
      BY <3>2, <3>3
  <2>4. QED
    BY <2>3, IssueIs
<1>8. QED
  BY <1>6, <1>7 DEF Abs!Init

\* rotate_key moves the agent to its next generation.
LEMMA RotateKeyRotates ==
  ASSUME IndInv, [Next]_vars, NEW a \in Signers, RotateKey(a)
  PROVE  Abs!Rotate(a)
<1> DEFINE own == records[a][a]
           n   == count[a]
           r   == NewRecord(n + 1, clock[a], TRUE)
<1>1. /\ a \in Agents /\ IndInv'
      /\ own \in Seq(KeyRecord) /\ own # <<>> /\ n \in Nat /\ clock[a] \in Tick
      /\ ActiveRecord(own).private
      /\ count \in [Agents -> 0 .. MaxRotations]
  <2>1. a \in Agents /\ IndInv'
    BY NextKeeps DEF Agents
  <2>2. own \in Seq(KeyRecord) /\ own # <<>>
    BY <2>1 DEF IndInv, TypeOK, OwnHistoryOK
  <2>3. n \in Nat /\ clock[a] \in Tick /\ count \in [Agents -> 0 .. MaxRotations]
    BY <2>1 DEF IndInv, TypeOK
  <2>4. ActiveRecord(own).private
    BY DEF RotateKey
  <2>5. QED
    BY <2>1, <2>2, <2>3, <2>4
<1>2. /\ ActiveIndex(own) = FindRecord(own, n)
      /\ records' = [records EXCEPT ![a][a] = Grow(own, FindRecord(own, n), clock[a], r)]
      /\ count' = [count EXCEPT ![a] = n + 1]
  <2>1. ActiveIndex(own) = FindRecord(own, n)
    BY <1>1, NewestKeyActive
  <2>2. records' = [records EXCEPT ![a][a] = Grow(own, ActiveIndex(own), clock[a], r)]
    BY DEF RotateKey, RotateHistory, Grow
  <2>3. count' = [count EXCEPT ![a] = n + 1]
    BY DEF RotateKey
  <2>4. QED
    BY <2>1, <2>2, <2>3
<1>3. r \in KeyRecord /\ r.key = n + 1
  <2>1. n + 1 \in Nat
    BY <1>1
  <2>2. QED
    BY <1>1, <2>1, NewRecordType DEF NewRecord
<1> HIDE DEF r
<1>4. Holds(own, n) /\ n >= Interval(own).hi
  <2>1. Holds(own, n)
    BY <1>1 DEF IndInv, OwnHistoryOK
  <2>2. HistoryOK(own, n, IssueTicks(a))
    BY <1>1 DEF IndInv
  <2>3. Interval(own).hi \in Nat /\ Interval(own).hi <= n
    BY <1>1, <2>2, IntervalOfHistory
  <2>4. QED
    BY <1>1, <2>1, <2>3
<1> DEFINE new == Grow(own, FindRecord(own, n), clock[a], r)
<1>5. records'[a][a] = new
  BY <1>1, <1>2 DEF IndInv, TypeOK
<1>6. Interval(new) = [Interval(own) EXCEPT !.hi = @ + 1]
  BY <1>1, <1>3, <1>4, <1>5, GrownInterval
<1> HIDE DEF new
<1>7. viewOf' = [viewOf EXCEPT ![a][a] = Interval(new)]
  BY <1>1, <1>2, ViewAfter DEF new
<1>8. viewOf' = [viewOf EXCEPT ![a][a].hi = @ + 1]
  <2>1. viewOf[a][a] = Interval(own)
    BY <1>1, ViewIsInterval
  <2>2. QED
    BY <1>6, <1>7, <2>1
<1>9. clock[a] >= issueOf[a][Len(issueOf[a])]
  <2>1. Len(issueOf[a]) = n + 1 /\ n \in 0 .. n /\ issueOf[a][n + 1] = IssueTicks(a)[n]
    BY <1>1, IssueIsTicks DEF IssueReads
  <2>2. IssueTicks(a)[n] <= clock[a]
    BY <1>1 DEF IndInv, OwnHistoryOK
  <2>3. QED
    BY <2>1, <2>2
<1>10. issueOf' = [issueOf EXCEPT ![a] = Append(@, clock[a])]
  <2>1. \A b \in Agents : count'[b] = IF b = a THEN n + 1 ELSE count[b]
    BY <1>1, <1>2
  <2>2. \A b \in Agents : issueOf'[b] = [i \in 1 .. count'[b] + 1 |-> issueOf'[b][i]]
    BY DEF issueOf
  <2>3. \A b \in Agents : issueOf[b] = [i \in 1 .. count[b] + 1 |-> issueOf[b][i]]
    BY DEF issueOf
  <2>4. \A b \in Agents : b # a => issueOf'[b] = issueOf[b]
    BY <2>1, <2>2, <2>3, IssueKept
  <2>5. issueOf'[a][n + 2] = clock[a]
    <3>1. IssueTicks(a)'[n + 1] = clock[a]
      BY RotationIssuesNow
    <3>2. IssueReads'
      BY IssueIsTicks, PTL
    <3>3. count'[a] \in Nat /\ n + 1 \in 0 .. count'[a] /\ (n + 1) + 1 = n + 2
      BY <1>1, <2>1
    <3>4. QED
      BY <1>1, <3>1, <3>2, <3>3 DEF IssueReads
  <2>6. issueOf'[a] = Append(issueOf[a], clock[a])
    <3> DEFINE old == issueOf[a]
               nw  == issueOf'[a]
    <3>1. nw = [i \in 1 .. n + 2 |-> nw[i]] /\ old = [i \in 1 .. n + 1 |-> old[i]]
      <4>1. count'[a] + 1 = n + 2
        BY <1>1, <2>1
      <4>2. QED
        BY <1>1, <2>2, <2>3, <4>1
    <3>2. \A i \in 1 .. n + 1 : nw[i] = old[i]
      BY <1>1, IssueKept
    <3>3. nw[n + 2] = clock[a]
      BY <2>5
    <3>4. Len(old) = n + 1
      BY <1>1, IssueIsTicks DEF IssueReads
    <3> HIDE DEF old, nw
    <3>5. Append(old, clock[a]) = [i \in 1 .. Len(old) + 1 |-> IF i \in 1 .. Len(old) THEN old[i] ELSE clock[a]]
      BY <1>1, <3>1, <3>4
    <3>6. Append(old, clock[a]) = [i \in 1 .. n + 2 |-> IF i \in 1 .. n + 1 THEN old[i] ELSE clock[a]]
      <4>1. Len(old) + 1 = n + 2
        BY <1>1, <3>4
      <4>2. QED
        BY <3>4, <3>5, <4>1
    <3>7. \A i \in 1 .. n + 2 : nw[i] = IF i \in 1 .. n + 1 THEN old[i] ELSE clock[a]
      BY <1>1, <3>2, <3>3
    <3>8. nw = Append(old, clock[a])
      BY <3>1, <3>6, <3>7
    <3>9. QED
      BY <3>8 DEF old, nw
  <2>7. issueOf' = [b \in Agents |-> issueOf'[b]] /\ issueOf = [b \in Agents |-> issueOf[b]]
    BY DEF issueOf
  <2>8. QED
    BY <1>1, <2>4, <2>6, <2>7
<1>11. QED
  BY <1>1, <1>8, <1>9, <1>10 DEF Abs!Rotate

\* Whatever does not rotate leaves the issue ticks alone.
LEMMA IssueUnchanged ==
  ASSUME IndInv, [Next]_vars, count' = count
  PROVE  issueOf' = issueOf
<1>1. issueOf' = [b \in Agents |-> [i \in 1 .. count[b] + 1 |-> issueOf'[b][i]]]
  BY DEF issueOf
<1>2. issueOf = [b \in Agents |-> [i \in 1 .. count[b] + 1 |-> issueOf[b][i]]]
  BY DEF issueOf
<1>3. \A b \in Agents : \A i \in 1 .. count[b] + 1 : issueOf'[b][i] = issueOf[b][i]
  BY IssueKept
<1>4. QED
  BY <1>1, <1>2, <1>3

\* The latest generation of an agent is its rotation count.
LEMMA LatestIsCount ==
  ASSUME IndInv, NEW a \in Agents
  PROVE  Abs!Latest(a) = count[a]
<1>1. count[a] \in Nat
  BY DEF IndInv, TypeOK
<1>2. Len(issueOf[a]) = count[a] + 1
  BY <1>1, IssueIsTicks DEF IssueReads
<1>3. QED
  BY <1>1, <1>2 DEF Abs!Latest

\* observe_rotation lengthens an interval by one or changes nothing.
LEMMA ObserveRotationLearns ==
  ASSUME IndInv, [Next]_vars, NEW v \in Agents, NEW a \in Signers, NEW ann \in announced[a],
         ObserveRotation(v, a, ann)
  PROVE  Abs!Learn(v, a) \/ UNCHANGED viewOf
<1> DEFINE recs == records[v][a]
           r    == NewRecord(ann.new, ann.issued_at, FALSE)
           p    == ann.prev
           new  == Grow(recs, FindRecord(recs, p), ann.issued_at, r)
<1>1. a \in Agents /\ IndInv'
  BY NextKeeps DEF Agents
<1>2. /\ ann \in Announcement /\ r \in KeyRecord
      /\ ann.new = p + 1 /\ ann.new <= count[a]
  BY <1>1, StepTypes
<1>3. p \in Nat /\ ann.issued_at \in Tick /\ r.key = p + 1
  BY <1>2 DEF Announcement, NewRecord
<1>4. recs \in Seq(KeyRecord) /\ count[a] \in Nat
  BY <1>1 DEF IndInv, TypeOK
<1> HIDE DEF r
<1>5. records' = [records EXCEPT ![v][a] = IF Holds(recs, p) THEN new ELSE recs] /\ count' = count
  BY DEF ObserveRotation, LearnHistory, Grow, r
<1>6. issueOf' = issueOf
  BY <1>5, IssueUnchanged
<1>7. CASE ~Holds(recs, p)
  <2>1. records' = records
    BY <1>1, <1>5, <1>7 DEF IndInv, TypeOK
  <2>2. QED
    BY <2>1 DEF viewOf
<1>8. CASE Holds(recs, p)
  <2>1. records' = [records EXCEPT ![v][a] = new]
    BY <1>5, <1>8
  <2>2. records'[v][a] = new
    BY <1>1, <2>1 DEF IndInv, TypeOK
  <2>3. recs # <<>>
    BY <1>4, <1>8, FindRecordIsFirst
  <2>4. viewOf' = [viewOf EXCEPT ![v][a] = Interval(new)]
    BY <1>1, <2>1, ViewAfter
  <2>5. viewOf[v][a] = Interval(recs)
    BY <1>1, ViewIsInterval
  <2>6. /\ p < Interval(recs).hi => Interval(new) = Interval(recs)
        /\ p >= Interval(recs).hi => /\ p = Interval(recs).hi
                                     /\ Interval(new) = [Interval(recs) EXCEPT !.hi = @ + 1]
    BY <1>1, <1>2, <1>3, <1>8, <2>2, <2>3, GrownInterval
  <2>7. HistoryOK(recs, count[a], IssueTicks(a))
    BY <1>1, <2>3 DEF IndInv
  <2> HIDE DEF new
  <2>8. /\ Interval(recs).lo \in Nat /\ Interval(recs).hi \in Nat
        /\ Interval(recs).lo <= Interval(recs).hi
        /\ \A k \in Nat : Holds(recs, k) <=> (Interval(recs).lo <= k /\ k <= Interval(recs).hi)
    BY <1>4, <2>3, <2>7, IntervalOfHistory
  <2>9. CASE p < Interval(recs).hi
    <3>1. viewOf = [w \in Agents |-> [b \in Agents |-> viewOf[w][b]]]
      BY DEF viewOf
    <3>2. viewOf' = [viewOf EXCEPT ![v][a] = viewOf[v][a]]
      BY <2>4, <2>5, <2>6, <2>9
    <3>3. QED
      BY <1>1, <3>1, <3>2
  <2>10. CASE p >= Interval(recs).hi
    <3>1. p = Interval(recs).hi /\ Interval(new) = [Interval(recs) EXCEPT !.hi = @ + 1]
      BY <2>6, <2>10
    <3>2. v # a
      <4> SUFFICES ASSUME v = a PROVE FALSE
        OBVIOUS
      <4>1. p + 1 \in 0 .. count[a]
        BY <1>2, <1>3, <1>4
      <4>2. Holds(recs, p + 1)
        BY <1>1, <4>1 DEF IndInv, OwnHistoryOK
      <4>3. QED
        BY <1>3, <2>8, <3>1, <4>2
    <3>3. viewOf[v][a] # Abs!NoView
      BY <2>5, <2>8 DEF Abs!NoView
    <3>4. viewOf[v][a].hi < Abs!Latest(a)
      <4>1. Abs!Latest(a) = count[a]
        BY <1>1, LatestIsCount
      <4>2. QED
        BY <1>2, <1>3, <1>4, <2>5, <3>1, <4>1
    <3>5. viewOf' = [viewOf EXCEPT ![v][a].hi = @ + 1]
      BY <2>4, <2>5, <3>1
    <3>6. QED
      BY <1>6, <3>2, <3>3, <3>4, <3>5 DEF Abs!Learn
  <2>11. QED
    BY <1>3, <2>8, <2>9, <2>10
<1>9. QED
  BY <1>7, <1>8

\* register_peer starts an interval.
LEMMA RegisterPeerMeets ==
  ASSUME IndInv, [Next]_vars, NEW v \in Agents, NEW a \in Signers, NEW k \in 0 .. count[a],
         RegisterPeer(v, a, k)
  PROVE  Abs!Meet(v, a)
<1> DEFINE one == <<NewRecord(k, 0, FALSE)>>
<1>1. a \in Agents /\ IndInv' /\ count[a] \in Nat
  <2>1. a \in Agents
    BY DEF Agents
  <2>2. IndInv'
    BY NextKeeps
  <2>3. QED
    BY <2>1, <2>2 DEF IndInv, TypeOK
<1>2. v # a /\ records' = [records EXCEPT ![v][a] = one] /\ count' = count
  BY DEF RegisterPeer
<1>3. Interval(one) = [lo |-> k, hi |-> k]
  <2>1. k \in Nat /\ one[1].key = k /\ DOMAIN one = {1} /\ one # <<>>
    BY <1>1 DEF NewRecord
  <2> HIDE DEF one
  <2>2. {one[i].key : i \in DOMAIN one} = {k}
    BY <2>1
  <2>3. Max({k}) = k
    BY <2>1 DEF Max
  <2>4. QED
    BY <2>1, <2>2, <2>3 DEF Interval
<1> HIDE DEF one
<1>4. viewOf' = [viewOf EXCEPT ![v][a] = Abs!Only(k)]
  <2>1. viewOf' = [viewOf EXCEPT ![v][a] = Interval(one)]
    BY <1>1, <1>2, ViewAfter
  <2>2. QED
    BY <1>3, <2>1 DEF Abs!Only
<1>5. Abs!Latest(a) = count[a]
  BY <1>1, LatestIsCount
<1>6. issueOf' = issueOf
  BY <1>2, IssueUnchanged
<1>7. QED
  BY <1>2, <1>4, <1>5, <1>6 DEF Abs!Meet

\* The refinement: identities, whatever their transport does, implement
\* generations of keys, of which each verifier knows an interval.
THEOREM HistoriesImplementGenerations == Spec => ImplementsGenerations
<1>1. Init => Abs!Init
  BY InitGenerations
<1>2. IndInv /\ [Next]_vars => [Abs!Next]_<<issueOf, viewOf>>
  <2> SUFFICES ASSUME IndInv, [Next]_vars
               PROVE  Abs!Next \/ UNCHANGED <<issueOf, viewOf>>
    OBVIOUS
  <2>1. Signers \subseteq Agents
    BY DEF Agents
  <2>2. CASE \E a \in Signers : RotateKey(a)
    BY <2>1, <2>2, RotateKeyRotates DEF Abs!Next
  <2>3. CASE \E v \in Agents, a \in Signers : \E ann \in announced[a] : ObserveRotation(v, a, ann)
    <3>1. PICK v \in Agents, a \in Signers : \E ann \in announced[a] : ObserveRotation(v, a, ann)
      BY <2>3
    <3>2. Abs!Learn(v, a) \/ UNCHANGED viewOf
      BY <3>1, ObserveRotationLearns
    <3>3. issueOf' = issueOf
      BY <3>1, IssueUnchanged DEF ObserveRotation
    <3>4. QED
      BY <2>1, <3>2, <3>3 DEF Abs!Next
  <2>4. CASE \E v \in Agents, a \in Signers : \E k \in 0 .. count[a] : RegisterPeer(v, a, k)
    BY <2>1, <2>4, RegisterPeerMeets DEF Abs!Next
  <2>5. CASE records' = records /\ count' = count
    BY <2>5 DEF issueOf, viewOf
  <2>6. QED
    BY <2>2, <2>3, <2>4, <2>5 DEF Next, vars, AdvanceTo, Sign, Announce
<1>3. QED
  BY <1>1, <1>2, HistoriesAreGenerations, PTL DEF Spec, ImplementsGenerations, Abs!Spec

=============================================================================
