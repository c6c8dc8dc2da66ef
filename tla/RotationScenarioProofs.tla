----------------------- MODULE RotationScenarioProofs -----------------------
(***************************************************************************)
(* Proofs about the identity_rotation scenario and its validator, for      *)
(* every set of agents, every tick of the rotation, any receive events and *)
(* any messages of replicas: the validator never raises, and it flags the  *)
(* messages signed with a key that had been replaced, and no others.       *)
(***************************************************************************)
EXTENDS RotationScenario, SequenceTheorems, WellFoundedInduction, TLAPS

\* What holds of 0, and of d + 1 where it holds of d < n, holds up to n.
LEMMA Upto ==
  ASSUME NEW n \in Nat, NEW S, 0 \in S, \A d \in 0 .. n - 1 : d \in S => d + 1 \in S
  PROVE  0 .. n \subseteq S
<1> DEFINE T == {d \in 0 .. n : d \notin S}
<1>1. SUFFICES ASSUME T # {} PROVE FALSE
  OBVIOUS
<1>2. OpToRel(<, Nat) = {p \in Nat \X Nat : p[1] < p[2]}
  BY Zenon DEF OpToRel
<1>3. T \subseteq Nat
  OBVIOUS
<1> HIDE DEF T
<1>4. PICK m \in T : \A d \in T : ~(<<d, m>> \in OpToRel(<, Nat))
  BY <1>1, <1>3, NatLessThanWellFounded, WFMin, Zenon
<1>5. \A d \in T : ~(<<d, m>> \in {p \in Nat \X Nat : p[1] < p[2]})
  BY <1>2, <1>4, Zenon
<1>6. \A d \in T : ~(d < m)
  BY <1>3, <1>5
<1>7. QED
  BY <1>6 DEF T

\* The only element of a set is its least and its largest one.
LEMMA OfOne == \A n \in Nat : Min({n}) = n /\ Max({n}) = n
  BY DEF Min, Max

-----------------------------------------------------------------------------
(* The histories of the scenario. *)

\* The histories of an agent, own or observed, before and after its rotation.
Before(p) == <<NewRecord(0, 0, p)>>

After(p) ==
  <<[key |-> 0, issued_at |-> 0, rotated_out |-> RotateAt, private |-> p],
    NewRecord(1, RotateAt, p)>>

\* The announcement of a rotation.
Announced == [prev |-> 0, new |-> 1, issued_at |-> RotateAt]

\* A key of one record is found there, and an only open record is active.
LEMMA OnlyRecord ==
  ASSUME NEW recs, Len(recs) \in Nat, NEW i \in 1 .. Len(recs)
  PROVE  /\ \A k : (\A j \in 1 .. Len(recs) : recs[j].key = k <=> j = i) =>
              FindRecord(recs, k) = i /\ Holds(recs, k)
         /\ (\A j \in 1 .. Len(recs) : recs[j].rotated_out = Inf <=> j = i) =>
              ActiveIndex(recs) = i
<1>1. Min({i}) = i /\ i # 0
  BY OfOne
<1>2. ASSUME NEW k, \A j \in 1 .. Len(recs) : recs[j].key = k <=> j = i
      PROVE  FindRecord(recs, k) = i /\ Holds(recs, k)
  <2> DEFINE S == {j \in 1 .. Len(recs) : recs[j].key = k}
  <2>1. FindRecord(recs, k) = IF S # {} THEN Min(S) ELSE 0
    BY DEF FindRecord, SelectInSeq
  <2>2. S = {i}
    BY <1>2
  <2> HIDE DEF S
  <2>3. QED
    BY <1>1, <2>1, <2>2 DEF Holds
<1>3. ASSUME \A j \in 1 .. Len(recs) : recs[j].rotated_out = Inf <=> j = i
      PROVE  ActiveIndex(recs) = i
  <2> DEFINE S == {j \in 1 .. Len(recs) : recs[j].rotated_out = Inf}
  <2>1. ActiveIndex(recs) = IF (IF S # {} THEN Min(S) ELSE 0) # 0
                            THEN (IF S # {} THEN Min(S) ELSE 0) ELSE Len(recs)
    BY DEF ActiveIndex, SelectInSeq
  <2>2. S = {i}
    BY <1>3
  <2> HIDE DEF S
  <2>3. QED
    BY <1>1, <2>1, <2>2
<1>4. QED
  BY <1>2, <1>3

\* Closing the window of the initial key.
LEMMA CloseInitial ==
  ASSUME NEW p
  PROVE  CloseAt(Before(p), 1, RotateAt) =
           <<[key |-> 0, issued_at |-> 0, rotated_out |-> RotateAt, private |-> p]>>
<1> DEFINE r == [key |-> 0, issued_at |-> 0, rotated_out |-> Inf, private |-> p]
           closed == [key |-> 0, issued_at |-> 0, rotated_out |-> RotateAt, private |-> p]
<1>1. Before(p) = <<r>>
  BY DEF Before, NewRecord
<1>2. [r EXCEPT !.rotated_out = RotateAt] = closed
  OBVIOUS
<1>3. CloseAt(<<r>>, 1, RotateAt) = [<<r>> EXCEPT ![1] = [r EXCEPT !.rotated_out = RotateAt]]
  BY DEF CloseAt
<1> HIDE DEF r, closed
<1>4. [<<r>> EXCEPT ![1] = closed] = <<closed>>
  OBVIOUS
<1>5. QED
  BY <1>1, <1>2, <1>3, <1>4 DEF closed

\* Closing that window and appending the new key makes the history that
\* follows the rotation.
LEMMA AppendNew ==
  ASSUME NEW p
  PROVE  Append(CloseAt(Before(p), 1, RotateAt), NewRecord(1, RotateAt, p)) = After(p)
<1> DEFINE closed == [key |-> 0, issued_at |-> 0, rotated_out |-> RotateAt, private |-> p]
           new == NewRecord(1, RotateAt, p)
<1>1. After(p) = <<closed, new>>
  BY DEF After
<1>2. CloseAt(Before(p), 1, RotateAt) = <<closed>>
  BY CloseInitial
<1> HIDE DEF closed, new
<1>3. Append(<<closed>>, new) = <<closed, new>>
  <2> DEFINE T == {closed, new}
             one == Append(<<closed>>, new)
             two == <<closed, new>>
  <2>1. <<closed>> \in Seq(T) /\ new \in T
    OBVIOUS
  <2>2. one \in Seq(T) /\ Len(one) = 2 /\ one[1] = closed /\ one[2] = new
    BY <2>1
  <2>3. two \in Seq(T) /\ Len(two) = 2 /\ two[1] = closed /\ two[2] = new
    OBVIOUS
  <2> HIDE DEF T, one, two
  <2>4. \A i \in 1 .. Len(one) : one[i] = two[i]
    BY <2>2, <2>3
  <2>5. one = two
    BY <2>2, <2>3, <2>4, SeqEqual
  <2>6. QED
    BY <2>5 DEF one, two
<1>4. QED
  BY <1>1, <1>2, <1>3 DEF new

\* Before the rotation the initial key is the active one, afterwards the new
\* one, in windows that meet at the tick of the rotation.
LEMMA OwnHistories ==
  /\ ActiveRecord(Before(TRUE)).key = 0
  /\ ActiveRecord(After(TRUE)).key = 1
  /\ RotateHistory(Before(TRUE), 1, RotateAt) = After(TRUE)
<1>1. RotateAt \in Nat /\ MaxTick \in Nat /\ RotateAt <= MaxTick
  BY ScenarioAssumption, MaxTickAssumption DEF Tick
<1>2. ActiveIndex(Before(TRUE)) = 1
  <2> DEFINE recs == Before(TRUE)
  <2>1. Len(recs) = 1
    BY DEF Before
  <2>2. \A i \in 1 .. Len(recs) : recs[i].rotated_out = Inf <=> i = 1
    BY DEF Before, NewRecord
  <2> HIDE DEF recs
  <2>3. 1 \in 1 .. Len(recs) /\ Len(recs) \in Nat
    BY <2>1
  <2>4. ActiveIndex(recs) = 1
    BY <2>2, <2>3, OnlyRecord
  <2>5. QED
    BY <2>4 DEF recs
<1>3. ActiveIndex(After(TRUE)) = 2
  <2> DEFINE recs == After(TRUE)
  <2>1. Len(recs) = 2
    BY DEF After
  <2>2. \A i \in 1 .. Len(recs) : recs[i].rotated_out = Inf <=> i = 2
    BY <1>1 DEF After, NewRecord, Inf
  <2> HIDE DEF recs
  <2>3. 2 \in 1 .. Len(recs) /\ Len(recs) \in Nat
    BY <2>1
  <2>4. ActiveIndex(recs) = 2
    BY <2>2, <2>3, OnlyRecord
  <2>5. QED
    BY <2>4 DEF recs
<1>4. RotateHistory(Before(TRUE), 1, RotateAt) = After(TRUE)
  <2>1. RotateHistory(Before(TRUE), 1, RotateAt) =
          Append(CloseAt(Before(TRUE), 1, RotateAt), NewRecord(1, RotateAt, TRUE))
    BY <1>2 DEF RotateHistory
  <2>2. QED
    BY <2>1, AppendNew
<1>5. QED
  BY <1>2, <1>3, <1>4 DEF ActiveRecord, Before, After, NewRecord

\* Where the validator finds the keys, and what it makes of the announcement.
LEMMA ObservedHistories ==
  /\ FindRecord(Before(FALSE), 0) = 1 /\ Holds(Before(FALSE), 0)
  /\ FindRecord(After(FALSE), 0) = 1 /\ Holds(After(FALSE), 0)
  /\ FindRecord(After(FALSE), 1) = 2 /\ Holds(After(FALSE), 1)
  /\ LearnHistory(Before(FALSE), Announced) = After(FALSE)
<1>1. FindRecord(Before(FALSE), 0) = 1 /\ Holds(Before(FALSE), 0)
  <2> DEFINE recs == Before(FALSE)
  <2>1. Len(recs) = 1
    BY DEF Before
  <2>2. \A i \in 1 .. Len(recs) : recs[i].key = 0 <=> i = 1
    BY DEF Before, NewRecord
  <2> HIDE DEF recs
  <2>3. 1 \in 1 .. Len(recs) /\ Len(recs) \in Nat
    BY <2>1
  <2>4. FindRecord(recs, 0) = 1 /\ Holds(recs, 0)
    BY <2>2, <2>3, OnlyRecord
  <2>5. QED
    BY <2>4 DEF recs
<1>2. FindRecord(After(FALSE), 0) = 1 /\ Holds(After(FALSE), 0)
  <2> DEFINE recs == After(FALSE)
  <2>1. Len(recs) = 2
    BY DEF After
  <2>2. \A i \in 1 .. Len(recs) : recs[i].key = 0 <=> i = 1
    BY DEF After, NewRecord
  <2> HIDE DEF recs
  <2>3. 1 \in 1 .. Len(recs) /\ Len(recs) \in Nat
    BY <2>1
  <2>4. FindRecord(recs, 0) = 1 /\ Holds(recs, 0)
    BY <2>2, <2>3, OnlyRecord
  <2>5. QED
    BY <2>4 DEF recs
<1>3. FindRecord(After(FALSE), 1) = 2 /\ Holds(After(FALSE), 1)
  <2> DEFINE recs == After(FALSE)
  <2>1. Len(recs) = 2
    BY DEF After
  <2>2. \A i \in 1 .. Len(recs) : recs[i].key = 1 <=> i = 2
    BY DEF After, NewRecord
  <2> HIDE DEF recs
  <2>3. 2 \in 1 .. Len(recs) /\ Len(recs) \in Nat
    BY <2>1
  <2>4. FindRecord(recs, 1) = 2 /\ Holds(recs, 1)
    BY <2>2, <2>3, OnlyRecord
  <2>5. QED
    BY <2>4 DEF recs
<1>4. LearnHistory(Before(FALSE), Announced) = After(FALSE)
  <2>1. /\ Announced.prev = 0 /\ Announced.new = 1
        /\ Announced.issued_at = RotateAt
    BY DEF Announced
  <2>2. LearnHistory(Before(FALSE), Announced) =
          Append(CloseAt(Before(FALSE), 1, RotateAt), NewRecord(1, RotateAt, FALSE))
    BY <1>1, <2>1 DEF LearnHistory
  <2>3. QED
    BY <2>2, AppendNew
<1>5. QED
  BY <1>1, <1>2, <1>3, <1>4

\* What the validator accepts of the initial and of the new key.
LEMMA VerdictOnKeys ==
  ASSUME NEW t \in Tick
  PROVE  /\ Accepts(Before(FALSE), 0, t, t)
         /\ Accepts(After(FALSE), 0, t, t) <=> t < RotateAt
         /\ Accepts(After(FALSE), 1, t, t) <=> RotateAt <= t
<1>1. /\ RotateAt \in Nat /\ MaxTick \in Nat /\ t \in Nat /\ t <= MaxTick
  BY ScenarioAssumption, MaxTickAssumption DEF Tick
<1>2. Within(Before(FALSE)[1], t)
  BY <1>1 DEF Within, Before, NewRecord, Inf
<1>3. Within(After(FALSE)[1], t) <=> t < RotateAt
  BY <1>1 DEF Within, After
<1>4. Within(After(FALSE)[2], t) <=> RotateAt <= t
  BY <1>1 DEF Within, After, NewRecord, Inf
<1>5. QED
  BY <1>2, <1>3, <1>4, ObservedHistories DEF Accepts, Holds

-----------------------------------------------------------------------------
(* What is in a trace. *)

\* The messages of agent a, as the wire carries them.
IdOf(a)          == [k |-> "id", agent |-> a, key |-> 0]
RotOf(a)         == [k |-> "rot", agent |-> a, ann |-> Announced]
MsgOf(a, key, t) == [k |-> "msg", agent |-> a, key |-> key, tick |-> t]

\* The messages and events that a trace may have.
Messages ==
  {IdOf(a) : a \in Agents} \cup {RotOf(a) : a \in Agents}
    \cup {MsgOf(p[1], p[2], p[3]) : p \in Agents \X {0, 1} \X Tick}

Events == [kind : EmittingKinds \cup {"receive"}, ts : Tick, msg : Messages]

\* The event announces the identity, or the rotation, of agent a.
Announces(e, k, a) == IsOurs(e, k) /\ e.msg.agent = a

\* What the agents may have emitted that are in begun, and that are in
\* rotated: the initial key is used by others than replicas at tick 0 only.
Emits(e, begun, rotated, replicas) ==
  e.kind \in EmittingKinds =>
    \/ \E a \in begun : e.msg = IdOf(a)
    \/ \E a \in rotated : e.msg = RotOf(a) /\ e.ts = RotateAt
    \/ \E a \in begun : e.msg = MsgOf(a, 0, e.ts) /\ (replicas = 0 => e.ts = 0)
    \/ \E a \in begun \cap rotated : e.msg = MsgOf(a, 1, e.ts) /\ e.ts = RotateAt

\* Exactly one event of the trace makes the announcement.
Once(tr, k, a) ==
  /\ \E i \in 1 .. Len(tr) : Announces(tr[i], k, a)
  /\ \A i, j \in 1 .. Len(tr) : Announces(tr[i], k, a) /\ Announces(tr[j], k, a) => i = j

\* A trace of the agents that have begun, and of those that have rotated.
TraceOf(tr, begun, rotated, replicas) ==
  /\ tr \in Seq(Events)
  /\ \A i \in 1 .. Len(tr) : Emits(tr[i], begun, rotated, replicas)
  /\ \A a \in begun : Once(tr, "id", a)
  /\ \A a \in rotated : Once(tr, "rot", a)

\* The agents that have started, and those that have rotated.
Begun   == {a \in Agents : phase[a] # "new"}
Rotated == {a \in Agents : phase[a] = "rotated"}

\* The trace has what the agents' phases say, each phase at its tick, and
\* each agent its history.
TraceInv ==
  /\ now \in Tick
  /\ replicated \in Nat
  /\ phase \in [Agents -> {"new", "scheduled", "rotated"}]
  /\ \A a \in Agents : phase[a] = "new" => now = 0
  /\ own = [a \in Agents |-> IF phase[a] = "rotated" THEN After(TRUE) ELSE Before(TRUE)]
  /\ TraceOf(trace, Begun, Rotated, replicated)

\* The kinds of messages are told apart by k.
LEMMA MessageKinds ==
  \A a : /\ IdOf(a).k = "id" /\ IdOf(a).agent = a /\ IdOf(a).key = 0
         /\ RotOf(a).k = "rot" /\ RotOf(a).agent = a /\ RotOf(a).ann = Announced
         /\ \A key, t : /\ MsgOf(a, key, t).k = "msg" /\ MsgOf(a, key, t).agent = a
                        /\ MsgOf(a, key, t).key = key /\ MsgOf(a, key, t).tick = t
  BY DEF IdOf, RotOf, MsgOf

\* What an event that begun and rotated agents emit can announce.
LEMMA EmittedKinds ==
  ASSUME NEW e, NEW begun, NEW rotated, NEW replicas, Emits(e, begun, rotated, replicas)
  PROVE  /\ IsOurs(e, "id") => \E a \in begun : e.msg = IdOf(a)
         /\ IsOurs(e, "rot") => \E a \in rotated : e.msg = RotOf(a) /\ e.ts = RotateAt
         /\ IsOurs(e, "msg") =>
              \/ \E a \in begun : e.msg = MsgOf(a, 0, e.ts) /\ (replicas = 0 => e.ts = 0)
              \/ \E a \in begun \cap rotated : e.msg = MsgOf(a, 1, e.ts) /\ e.ts = RotateAt
  BY MessageKinds DEF Emits, IsOurs

\* One more event that announces nothing leaves the announcements as they are.
LEMMA OnceKept ==
  ASSUME NEW tr \in Seq(Events), NEW e \in Events, NEW k, NEW a,
         ~Announces(e, k, a), Once(tr, k, a)
  PROVE  Once(Append(tr, e), k, a)
<1> DEFINE more == Append(tr, e)
<1>1. /\ Len(more) = Len(tr) + 1 /\ Len(tr) \in Nat /\ more[Len(tr) + 1] = e
      /\ \A i \in 1 .. Len(tr) : more[i] = tr[i]
  OBVIOUS
<1> HIDE DEF more
<1>2. \A i \in 1 .. Len(more) : Announces(more[i], k, a) =>
         i \in 1 .. Len(tr) /\ Announces(tr[i], k, a)
  BY <1>1
<1>3. PICK i \in 1 .. Len(tr) : Announces(tr[i], k, a)
  BY DEF Once
<1>4. i \in 1 .. Len(more) /\ Announces(more[i], k, a)
  BY <1>1, <1>3
<1>5. Once(more, k, a)
  BY <1>2, <1>4 DEF Once
<1>6. QED
  BY <1>5 DEF more

\* One that makes the first such announcement is the only one.
LEMMA OnceMade ==
  ASSUME NEW tr \in Seq(Events), NEW e \in Events, NEW k, NEW a,
         Announces(e, k, a), \A i \in 1 .. Len(tr) : ~Announces(tr[i], k, a)
  PROVE  Once(Append(tr, e), k, a)
<1> DEFINE more == Append(tr, e)
<1>1. /\ Len(more) = Len(tr) + 1 /\ Len(tr) \in Nat /\ more[Len(tr) + 1] = e
      /\ \A i \in 1 .. Len(tr) : more[i] = tr[i]
  OBVIOUS
<1> HIDE DEF more
<1>2. \A i \in 1 .. Len(more) : Announces(more[i], k, a) => i = Len(tr) + 1
  BY <1>1
<1>3. Len(tr) + 1 \in 1 .. Len(more) /\ Announces(more[Len(tr) + 1], k, a)
  BY <1>1
<1>4. Once(more, k, a)
  BY <1>2, <1>3 DEF Once
<1>5. QED
  BY <1>4 DEF more

\* What agents may have emitted, later agents may have emitted.
LEMMA EmitsLater ==
  ASSUME NEW e, NEW begun, NEW rotated, NEW n, Emits(e, begun, rotated, n),
         NEW begun2, NEW rotated2, NEW n2,
         begun \subseteq begun2, rotated \subseteq rotated2, n2 = 0 => n = 0
  PROVE  Emits(e, begun2, rotated2, n2)
  BY DEF Emits

\* A trace goes on with an event that announces nothing.
LEMMA TraceGoesOn ==
  ASSUME NEW tr, NEW begun, NEW rotated, NEW n, TraceOf(tr, begun, rotated, n),
         NEW m, m = 0 => n = 0, NEW e \in Events, Emits(e, begun, rotated, m),
         ~IsOurs(e, "id"), ~IsOurs(e, "rot")
  PROVE  TraceOf(Append(tr, e), begun, rotated, m)
<1> DEFINE more == Append(tr, e)
<1>1. tr \in Seq(Events)
  BY DEF TraceOf
<1>2. /\ more \in Seq(Events)
      /\ \A i \in 1 .. Len(more) : more[i] = e \/ \E j \in 1 .. Len(tr) : more[i] = tr[j]
  BY <1>1
<1>3. \A a : ~Announces(e, "id", a) /\ ~Announces(e, "rot", a)
  BY DEF Announces
<1>4. (\A a \in begun : Once(more, "id", a)) /\ (\A a \in rotated : Once(more, "rot", a))
  BY <1>1, <1>3, OnceKept DEF TraceOf
<1>5. \A i \in 1 .. Len(tr) : Emits(tr[i], begun, rotated, m)
  BY EmitsLater DEF TraceOf
<1> HIDE DEF more
<1>6. \A i \in 1 .. Len(more) : Emits(more[i], begun, rotated, m)
  BY <1>2, <1>5
<1>7. TraceOf(more, begun, rotated, m)
  BY <1>2, <1>4, <1>6 DEF TraceOf
<1>8. QED
  BY <1>7 DEF more

\* An agent that announces its identity has begun.
LEMMA TraceBegins ==
  ASSUME NEW tr, NEW begun, NEW rotated, NEW n, TraceOf(tr, begun, rotated, n),
         NEW a, a \notin begun, NEW e \in Events, e.kind \in EmittingKinds, e.msg = IdOf(a)
  PROVE  TraceOf(Append(tr, e), begun \cup {a}, rotated, n)
<1> DEFINE more == Append(tr, e)
<1>1. tr \in Seq(Events)
  BY DEF TraceOf
<1>2. /\ more \in Seq(Events)
      /\ \A i \in 1 .. Len(more) : more[i] = e \/ \E j \in 1 .. Len(tr) : more[i] = tr[j]
  BY <1>1
<1>3. /\ Announces(e, "id", a) /\ \A b : ~Announces(e, "rot", b)
      /\ \A b : b # a => ~Announces(e, "id", b)
  BY MessageKinds DEF Announces, IsOurs
<1>4. \A i \in 1 .. Len(tr) : ~Announces(tr[i], "id", a)
  <2> TAKE i \in 1 .. Len(tr)
  <2>1. IsOurs(tr[i], "id") => \E b \in begun : tr[i].msg = IdOf(b)
    BY EmittedKinds DEF TraceOf
  <2>2. QED
    BY <2>1, MessageKinds DEF Announces
<1>5. \A b \in begun \cup {a} : Once(more, "id", b)
  BY <1>1, <1>3, <1>4, OnceKept, OnceMade DEF TraceOf
<1>6. \A b \in rotated : Once(more, "rot", b)
  BY <1>1, <1>3, OnceKept DEF TraceOf
<1>7. \A i \in 1 .. Len(tr) : Emits(tr[i], begun \cup {a}, rotated, n)
  <2> TAKE i \in 1 .. Len(tr)
  <2>1. Emits(tr[i], begun, rotated, n) /\ begun \subseteq begun \cup {a}
    BY DEF TraceOf
  <2>2. QED
    BY <2>1, EmitsLater
<1>8. Emits(e, begun \cup {a}, rotated, n)
  BY DEF Emits
<1> HIDE DEF more
<1>9. \A i \in 1 .. Len(more) : Emits(more[i], begun \cup {a}, rotated, n)
  BY <1>2, <1>7, <1>8
<1>10. TraceOf(more, begun \cup {a}, rotated, n)
  BY <1>2, <1>5, <1>6, <1>9 DEF TraceOf
<1>11. QED
  BY <1>10 DEF more

\* An agent that announces its rotation has rotated.
LEMMA TraceRotates ==
  ASSUME NEW tr, NEW begun, NEW rotated, NEW n, TraceOf(tr, begun, rotated, n),
         NEW a, a \notin rotated, NEW e \in Events, e.kind \in EmittingKinds,
         e.msg = RotOf(a), e.ts = RotateAt
  PROVE  TraceOf(Append(tr, e), begun, rotated \cup {a}, n)
<1> DEFINE more == Append(tr, e)
<1>1. tr \in Seq(Events)
  BY DEF TraceOf
<1>2. /\ more \in Seq(Events)
      /\ \A i \in 1 .. Len(more) : more[i] = e \/ \E j \in 1 .. Len(tr) : more[i] = tr[j]
  BY <1>1
<1>3. /\ Announces(e, "rot", a) /\ \A b : ~Announces(e, "id", b)
      /\ \A b : b # a => ~Announces(e, "rot", b)
  BY MessageKinds DEF Announces, IsOurs
<1>4. \A i \in 1 .. Len(tr) : ~Announces(tr[i], "rot", a)
  <2> TAKE i \in 1 .. Len(tr)
  <2>1. IsOurs(tr[i], "rot") => \E b \in rotated : tr[i].msg = RotOf(b)
    BY EmittedKinds DEF TraceOf
  <2>2. QED
    BY <2>1, MessageKinds DEF Announces
<1>5. \A b \in rotated \cup {a} : Once(more, "rot", b)
  BY <1>1, <1>3, <1>4, OnceKept, OnceMade DEF TraceOf
<1>6. \A b \in begun : Once(more, "id", b)
  BY <1>1, <1>3, OnceKept DEF TraceOf
<1>7. \A i \in 1 .. Len(tr) : Emits(tr[i], begun, rotated \cup {a}, n)
  <2> TAKE i \in 1 .. Len(tr)
  <2>1. Emits(tr[i], begun, rotated, n) /\ rotated \subseteq rotated \cup {a}
    BY DEF TraceOf
  <2>2. QED
    BY <2>1, EmitsLater
<1>8. Emits(e, begun, rotated \cup {a}, n)
  BY DEF Emits
<1> HIDE DEF more
<1>9. \A i \in 1 .. Len(more) : Emits(more[i], begun, rotated \cup {a}, n)
  BY <1>2, <1>7, <1>8
<1>10. TraceOf(more, begun, rotated \cup {a}, n)
  BY <1>2, <1>5, <1>6, <1>9 DEF TraceOf
<1>11. QED
  BY <1>10 DEF more

\* A handler that emits two events appends them one after the other.
LEMMA TwoEvents ==
  ASSUME NEW tr \in Seq(Events), NEW e \in Events, NEW f \in Events
  PROVE  tr \o <<e, f>> = Append(Append(tr, e), f)
<1> DEFINE two == <<e, f>>
           both == tr \o two
           each == Append(Append(tr, e), f)
<1>1. two \in Seq(Events) /\ Len(two) = 2 /\ two[1] = e /\ two[2] = f
  OBVIOUS
<1> HIDE DEF two
<1>2. /\ both \in Seq(Events) /\ Len(both) = Len(tr) + 2 /\ Len(tr) \in Nat
      /\ \A i \in 1 .. Len(tr) : both[i] = tr[i]
      /\ both[Len(tr) + 1] = e /\ both[Len(tr) + 2] = f
  <2>1. /\ both \in Seq(Events) /\ Len(both) = Len(tr) + Len(two)
        /\ \A i \in 1 .. Len(tr) + Len(two) :
             both[i] = IF i <= Len(tr) THEN tr[i] ELSE two[i - Len(tr)]
    BY <1>1, ConcatProperties
  <2>2. /\ Len(tr) \in Nat /\ (Len(tr) + 1) - Len(tr) = 1
        /\ (Len(tr) + 2) - Len(tr) = 2
    OBVIOUS
  <2> HIDE DEF both
  <2>3. QED
    BY <1>1, <2>1, <2>2
<1>3. /\ each \in Seq(Events) /\ Len(each) = Len(tr) + 2
      /\ \A i \in 1 .. Len(tr) : each[i] = tr[i]
      /\ each[Len(tr) + 1] = e /\ each[Len(tr) + 2] = f
  OBVIOUS
<1> HIDE DEF both, each
<1>4. \A i \in 1 .. Len(both) : both[i] = each[i]
  BY <1>2, <1>3
<1>5. both = each
  BY <1>2, <1>3, <1>4, SeqEqual
<1>6. QED
  BY <1>5 DEF both, each, two

-----------------------------------------------------------------------------
(* Every step keeps the trace as the invariant says. *)

\* The messages of the scenario are messages, in events of the scenario.
LEMMA MessageTypes ==
  ASSUME NEW a \in Agents, NEW t \in Tick
  PROVE  /\ IdOf(a) \in Messages /\ RotOf(a) \in Messages
         /\ MsgOf(a, 0, t) \in Messages /\ MsgOf(a, 1, t) \in Messages
<1>1. /\ MsgOf(a, 0, t) \in {MsgOf(p[1], p[2], p[3]) : p \in Agents \X {0, 1} \X Tick}
      /\ MsgOf(a, 1, t) \in {MsgOf(p[1], p[2], p[3]) : p \in Agents \X {0, 1} \X Tick}
  <2>1. <<a, 0, t>> \in Agents \X {0, 1} \X Tick /\ <<a, 1, t>> \in Agents \X {0, 1} \X Tick
    OBVIOUS
  <2>2. MsgOf(a, 0, t) = MsgOf(<<a, 0, t>>[1], <<a, 0, t>>[2], <<a, 0, t>>[3])
        /\ MsgOf(a, 1, t) = MsgOf(<<a, 1, t>>[1], <<a, 1, t>>[2], <<a, 1, t>>[3])
    OBVIOUS
  <2>3. QED
    BY <2>1, <2>2
<1>2. QED
  BY <1>1 DEF Messages

\* Nothing has happened at the start.
LEMMA InitEstablishes == Init => TraceInv
<1> SUFFICES ASSUME Init PROVE TraceInv
  OBVIOUS
<1>1. Begun = {} /\ Rotated = {}
  BY DEF Init, Begun, Rotated
<1>2. TraceOf(trace, Begun, Rotated, replicated)
  BY <1>1 DEF Init, TraceOf
<1>3. own = [a \in Agents |-> IF phase[a] = "rotated" THEN After(TRUE) ELSE Before(TRUE)]
  BY DEF Init, Before
<1>4. now \in Tick /\ replicated \in Nat
  BY MaxTickAssumption DEF Init, Tick
<1>5. QED
  BY <1>2, <1>3, <1>4 DEF Init, TraceInv

\* An agent that starts announces its initial key and signs with it.
LEMMA OnStartKeeps ==
  ASSUME TraceInv, NEW a \in Agents, OnStart(a)
  PROVE  TraceInv'
<1> DEFINE e == [kind |-> "broadcast", ts |-> now, msg |-> IdOf(a)]
           f == [kind |-> "send", ts |-> now, msg |-> MsgOf(a, 0, now)]
<1>1. /\ phase[a] = "new"
      /\ phase' = [phase EXCEPT ![a] = "scheduled"]
      /\ UNCHANGED <<now, own, received, replicated>>
  BY DEF OnStart, extra
<1>2. now = 0 /\ now \in Tick /\ own[a] = Before(TRUE)
  BY <1>1 DEF TraceInv
<1>3. Identity(a) = e /\ SignedBy(a, own[a]) = f
  BY <1>2, OwnHistories DEF Identity, SignedBy, Event, IdOf, MsgOf
<1>4. trace' = trace \o <<e, f>>
  BY <1>3 DEF OnStart
<1>5. e \in Events /\ f \in Events
  BY <1>2, MessageTypes DEF Events, EmittingKinds
<1>6. TraceOf(trace, Begun, Rotated, replicated) /\ trace \in Seq(Events)
  BY DEF TraceInv, TraceOf
<1>7. trace' = Append(Append(trace, e), f)
  BY <1>4, <1>5, <1>6, TwoEvents
<1>8. a \notin Begun /\ Begun' = Begun \cup {a} /\ Rotated' = Rotated
  BY <1>1 DEF Begun, Rotated, TraceInv
<1>9. /\ e.kind \in EmittingKinds /\ e.msg = IdOf(a)
      /\ f.kind \in EmittingKinds /\ f.msg = MsgOf(a, 0, f.ts) /\ f.ts = 0
  BY <1>2 DEF EmittingKinds
<1> HIDE DEF e, f
<1>10. TraceOf(Append(trace, e), Begun', Rotated', replicated)
  BY <1>5, <1>6, <1>8, <1>9, TraceBegins
<1>11. Emits(f, Begun', Rotated', replicated)
  BY <1>8, <1>9 DEF Emits
<1>12. ~IsOurs(f, "id") /\ ~IsOurs(f, "rot")
  BY <1>9, MessageKinds DEF IsOurs
<1>13. TraceOf(trace', Begun', Rotated', replicated')
  BY <1>1, <1>5, <1>7, <1>10, <1>11, <1>12, TraceGoesOn
<1>14. own = [b \in Agents |-> IF phase'[b] = "rotated" THEN After(TRUE) ELSE Before(TRUE)]
  BY <1>1 DEF TraceInv
<1>15. QED
  BY <1>1, <1>13, <1>14 DEF TraceInv

\* An agent that rotates closes its initial key's window, announces the new
\* key and signs with it.
LEMMA OnRotateKeeps ==
  ASSUME TraceInv, NEW a \in Agents, OnRotate(a)
  PROVE  TraceInv'
<1> DEFINE e == [kind |-> "broadcast", ts |-> now, msg |-> RotOf(a)]
           f == [kind |-> "send", ts |-> now, msg |-> MsgOf(a, 1, now)]
<1>1. /\ phase[a] = "scheduled" /\ now = RotateAt
      /\ phase' = [phase EXCEPT ![a] = "rotated"]
      /\ UNCHANGED <<now, received, replicated>>
  BY DEF OnRotate, extra
<1>2. now \in Tick /\ own[a] = Before(TRUE) /\ ActiveRecord(own[a]).key = 0
  BY <1>1, OwnHistories DEF TraceInv
<1>3. RotateHistory(own[a], 0 + 1, now) = After(TRUE)
  <2>1. 0 + 1 = 1
    OBVIOUS
  <2>2. QED
    BY <1>1, <1>2, <2>1, OwnHistories
<1>4. own' = [own EXCEPT ![a] = After(TRUE)]
      /\ trace' = trace \o <<Rotation(a, Announced), SignedBy(a, After(TRUE))>>
  <2> DEFINE old  == ActiveRecord(own[a]).key
             recs == RotateHistory(own[a], old + 1, now)
             ann  == [prev |-> old, new |-> old + 1, issued_at |-> now]
  <2>1. /\ own' = [own EXCEPT ![a] = recs]
        /\ trace' = trace \o <<Rotation(a, ann), SignedBy(a, recs)>>
    BY DEF OnRotate
  <2>2. recs = After(TRUE)
    BY <1>2, <1>3
  <2>3. ann = Announced
    <3>1. old = 0
      BY <1>2
    <3> HIDE DEF old
    <3>2. old + 1 = 1
      BY <3>1
    <3>3. QED
      BY <1>1, <3>1, <3>2, Zenon DEF Announced
  <2> HIDE DEF recs, ann
  <2>4. QED
    BY <2>1, <2>2, <2>3, Zenon
<1>5. Rotation(a, Announced) = e /\ SignedBy(a, After(TRUE)) = f
  BY OwnHistories DEF Rotation, SignedBy, Event, RotOf, MsgOf
<1>6. e \in Events /\ f \in Events
  BY <1>2, MessageTypes DEF Events, EmittingKinds
<1>7. TraceOf(trace, Begun, Rotated, replicated) /\ trace \in Seq(Events)
  BY DEF TraceInv, TraceOf
<1>8. trace' = Append(Append(trace, e), f)
  <2> HIDE DEF e, f
  <2>1. trace' = trace \o <<e, f>>
    BY <1>4, <1>5, Zenon
  <2>2. QED
    BY <1>6, <1>7, <2>1, TwoEvents, Zenon
<1>9. a \notin Rotated /\ a \in Begun /\ Begun' = Begun /\ Rotated' = Rotated \cup {a}
  BY <1>1 DEF Begun, Rotated, TraceInv
<1>10. /\ e.kind \in EmittingKinds /\ e.msg = RotOf(a) /\ e.ts = RotateAt
       /\ f.kind \in EmittingKinds /\ f.msg = MsgOf(a, 1, f.ts) /\ f.ts = RotateAt
  BY <1>1 DEF EmittingKinds
<1> HIDE DEF e, f
<1>11. TraceOf(Append(trace, e), Begun', Rotated', replicated)
  BY <1>6, <1>7, <1>9, <1>10, TraceRotates
<1>12. Emits(f, Begun', Rotated', replicated)
  BY <1>9, <1>10 DEF Emits
<1>13. ~IsOurs(f, "id") /\ ~IsOurs(f, "rot")
  BY <1>10, MessageKinds DEF IsOurs
<1>14. TraceOf(trace', Begun', Rotated', replicated')
  BY <1>1, <1>6, <1>8, <1>11, <1>12, <1>13, TraceGoesOn
<1>15. own' = [b \in Agents |-> IF phase'[b] = "rotated" THEN After(TRUE) ELSE Before(TRUE)]
  BY <1>1, <1>4 DEF TraceInv
<1>16. QED
  BY <1>1, <1>14, <1>15 DEF TraceInv

\* A delivery is recorded with the message that was emitted.
LEMMA ReceiveKeeps ==
  ASSUME TraceInv, Receive
  PROVE  TraceInv'
<1>1. PICK i \in DOMAIN trace : trace' = Append(trace, Event("receive", trace[i].msg))
  BY DEF Receive
<1> DEFINE e == [kind |-> "receive", ts |-> now, msg |-> trace[i].msg]
<1>2. trace' = Append(trace, e) /\ UNCHANGED <<now, phase, own, replicated>>
  BY <1>1 DEF Receive, Event
<1>3. e \in Events
  <2>1. trace[i] \in Events
    BY DEF TraceInv, TraceOf
  <2>2. trace[i].msg \in Messages /\ now \in Tick
    BY <2>1 DEF Events, TraceInv
  <2>3. QED
    BY <2>2 DEF Events
<1>4. e.kind = "receive"
  OBVIOUS
<1> HIDE DEF e
<1>5. Emits(e, Begun, Rotated, replicated) /\ ~IsOurs(e, "id") /\ ~IsOurs(e, "rot")
  BY <1>4 DEF Emits, IsOurs, EmittingKinds
<1>6. TraceOf(trace', Begun, Rotated, replicated)
  BY <1>2, <1>3, <1>5, TraceGoesOn DEF TraceInv
<1>7. Begun' = Begun /\ Rotated' = Rotated
  BY <1>2 DEF Begun, Rotated
<1>8. QED
  BY <1>2, <1>6, <1>7 DEF TraceInv

\* A replica signs with the initial key, at any tick.
LEMMA ReplicaSendsKeeps ==
  ASSUME TraceInv, NEW a \in Agents, ReplicaSends(a)
  PROVE  TraceInv'
<1> DEFINE e == [kind |-> "send", ts |-> now, msg |-> MsgOf(a, 0, now)]
<1>1. /\ phase[a] # "new"
      /\ trace' = Append(trace, SignedBy(a, Before(TRUE)))
      /\ replicated' = replicated + 1
      /\ UNCHANGED <<now, phase, own>>
  BY DEF ReplicaSends, Before
<1>2. SignedBy(a, Before(TRUE)) = e
  BY OwnHistories DEF SignedBy, Event, MsgOf
<1>3. e \in Events /\ now \in Tick /\ replicated \in Nat
  BY MessageTypes DEF Events, EmittingKinds, TraceInv
<1>4. e.kind \in EmittingKinds /\ e.msg = MsgOf(a, 0, e.ts) /\ a \in Begun
  BY <1>1 DEF EmittingKinds, Begun
<1>5. trace' = Append(trace, e)
  BY <1>1, <1>2
<1> HIDE DEF e
<1>6. replicated' # 0 /\ replicated' \in Nat
  BY <1>1, <1>3
<1>7. Emits(e, Begun, Rotated, replicated') /\ ~IsOurs(e, "id") /\ ~IsOurs(e, "rot")
  BY <1>4, <1>6, MessageKinds DEF Emits, IsOurs
<1>8. TraceOf(trace', Begun, Rotated, replicated')
  BY <1>3, <1>5, <1>6, <1>7, TraceGoesOn DEF TraceInv
<1>9. Begun' = Begun /\ Rotated' = Rotated
  BY <1>1 DEF Begun, Rotated
<1>10. QED
  BY <1>1, <1>6, <1>8, <1>9 DEF TraceInv

\* The invariant is inductive.
LEMMA NextKeeps == TraceInv /\ [Next]_vars => TraceInv'
<1> SUFFICES ASSUME TraceInv, [Next]_vars PROVE TraceInv'
  OBVIOUS
<1>1. CASE UNCHANGED vars
  BY <1>1 DEF vars, TraceInv, Begun, Rotated
<1>2. CASE \E a \in Agents : OnStart(a) \/ OnRotate(a) \/ ReplicaSends(a)
  BY <1>2, OnStartKeeps, OnRotateKeeps, ReplicaSendsKeeps
<1>3. CASE Advance
  <2>1. /\ now < MaxTick /\ now' = now + 1 /\ \A a \in Agents : phase[a] # "new"
        /\ UNCHANGED <<phase, own, trace, replicated>>
    BY <1>3 DEF Advance, extra
  <2>2. now' \in Tick
    BY <2>1, MaxTickAssumption DEF TraceInv, Tick
  <2>3. Begun' = Begun /\ Rotated' = Rotated
    BY <2>1 DEF Begun, Rotated
  <2>4. QED
    BY <2>1, <2>2, <2>3 DEF TraceInv
<1>4. CASE Receive
  BY <1>4, ReceiveKeeps
<1>5. QED
  BY <1>1, <1>2, <1>3, <1>4 DEF Next

\* The trace has one announcement of each agent that has started, one of each
\* that has rotated, at the tick of the rotation, and messages signed with
\* the key of their sender's instance: the inductive invariant.
THEOREM TraceIsOfScenario == Spec => []TraceInv
  BY InitEstablishes, NextKeeps, PTL DEF Spec

-----------------------------------------------------------------------------
(* What the validator learns from a trace of the scenario. *)

\* The recursion of LearnRotations has a solution, which it evaluates.
LEMMA LearnedSteps ==
  ASSUME NEW tr, Len(tr) \in Nat
  PROVE  \E f : /\ f[0] = [records |-> LearnIdentities(tr), rotations |-> 0, raised |-> FALSE]
                /\ \A n \in 1 .. Len(tr) : f[n] = ObserveEvent(f[n - 1], tr[n])
                /\ LearnRotations(tr) = f[Len(tr)]
<1> DEFINE base == [records |-> LearnIdentities(tr), rotations |-> 0, raised |-> FALSE]
           Steps(f, m) == f[0] = base /\ \A n \in 1 .. m : f[n] = ObserveEvent(f[n - 1], tr[n])
           S == {m \in Nat : \E f : Steps(f, m)}
           F(f) == [n \in 0 .. Len(tr) |->
                      IF n = 0 THEN base ELSE ObserveEvent(f[n - 1], tr[n])]
<1> HIDE DEF base
<1>1. 0 \in S
  <2>1. [n \in {0} |-> base][0] = base
    OBVIOUS
  <2>2. Steps([n \in {0} |-> base], 0)
    BY <2>1
  <2>3. QED
    BY <2>2
<1>2. \A d \in 0 .. Len(tr) - 1 : d \in S => d + 1 \in S
  <2> TAKE d \in 0 .. Len(tr) - 1
  <2> HAVE d \in S
  <2>1. PICK f : Steps(f, d)
    OBVIOUS
  <2> DEFINE g == [n \in 0 .. d + 1 |-> IF n <= d THEN f[n] ELSE ObserveEvent(f[d], tr[d + 1])]
  <2>2. /\ \A n \in 0 .. d : g[n] = f[n]
        /\ g[d + 1] = ObserveEvent(f[d], tr[d + 1])
    OBVIOUS
  <2> HIDE DEF g
  <2>3. g[0] = base
    BY <2>1, <2>2
  <2>4. ASSUME NEW n \in 1 .. d + 1 PROVE g[n] = ObserveEvent(g[n - 1], tr[n])
    <3>1. CASE n \in 1 .. d
      <4>1. n \in 0 .. d /\ n - 1 \in 0 .. d
        BY <3>1
      <4>2. g[n] = f[n] /\ g[n - 1] = f[n - 1]
        BY <2>2, <4>1
      <4>3. QED
        BY <2>1, <3>1, <4>2
    <3>2. CASE n = d + 1
      <4>1. n - 1 = d /\ d \in 0 .. d
        BY <3>2
      <4>2. QED
        BY <2>2, <3>2, <4>1
    <3>3. QED
      BY <3>1, <3>2
  <2>5. Steps(g, d + 1)
    BY <2>3, <2>4
  <2>6. QED
    BY <2>5
<1>3. Len(tr) \in S
  <2> HIDE DEF S
  <2>1. 0 .. Len(tr) \subseteq S
    BY <1>1, <1>2, Upto
  <2>2. QED
    BY <2>1
<1>4. PICK f : Steps(f, Len(tr))
  BY <1>3
<1> DEFINE g == [n \in 0 .. Len(tr) |-> f[n]]
<1>5. \A n \in 0 .. Len(tr) : g[n] = f[n]
  OBVIOUS
<1>6. g = F(g)
  <2>1. \A n \in 0 .. Len(tr) : f[n] = IF n = 0 THEN base ELSE ObserveEvent(g[n - 1], tr[n])
    <3> TAKE n \in 0 .. Len(tr)
    <3> HIDE DEF g
    <3>1. CASE n = 0
      BY <1>4, <3>1
    <3>2. CASE n # 0
      <4>1. n \in 1 .. Len(tr) /\ n - 1 \in 0 .. Len(tr)
        BY <3>2
      <4>2. f[n] = ObserveEvent(f[n - 1], tr[n]) /\ g[n - 1] = f[n - 1]
        BY <1>4, <1>5, <4>1
      <4>3. QED
        BY <3>2, <4>2
    <3>3. QED
      BY <3>1, <3>2
  <2>2. QED
    BY <2>1
<1>7. LearnRotations(tr) = (CHOOSE h : h = F(h))[Len(tr)]
  BY DEF LearnRotations, base
<1> DEFINE h == CHOOSE k : k = F(k)
<1>8. h = F(h)
  <2> HIDE DEF g, F
  <2>1. QED
    BY <1>6, Zenon
<1> HIDE DEF h
<1>9. \A n \in 0 .. Len(tr) : h[n] = IF n = 0 THEN base ELSE ObserveEvent(h[n - 1], tr[n])
  BY <1>8
<1>10. h[0] = base
  BY <1>9
<1>11. \A n \in 1 .. Len(tr) : h[n] = ObserveEvent(h[n - 1], tr[n])
  BY <1>9
<1>12. LearnRotations(tr) = h[Len(tr)]
  BY <1>7 DEF h
<1>13. QED
  BY <1>10, <1>11, <1>12 DEF base

\* What is learned of each agent once the first n events have been observed.
RecordsAfter(tr, begun, n) ==
  [a \in Agents |->
     IF \E j \in 1 .. n : Announces(tr[j], "rot", a) THEN After(FALSE)
     ELSE IF a \in begun THEN Before(FALSE) ELSE <<>>]

\* The histories as they are.
Histories(begun, rotated) ==
  [a \in Agents |-> IF a \in rotated THEN After(FALSE)
                    ELSE IF a \in begun THEN Before(FALSE) ELSE <<>>]

\* The validator's state once the first n events have been observed.
Knows(st, tr, begun, n) ==
  /\ {"records", "raised"} \subseteq DOMAIN st
  /\ st.records = RecordsAfter(tr, begun, n)
  /\ ~st.raised

\* The first loop registers the initial key of every agent that announced it.
LEMMA IdentitiesLearned ==
  ASSUME NEW tr, NEW begun, NEW rotated, NEW n, TraceOf(tr, begun, rotated, n)
  PROVE  LearnIdentities(tr) = RecordsAfter(tr, begun, 0)
<1>1. Len(tr) \in Nat
  BY DEF TraceOf
<1> DEFINE I(a) == {i \in 1 .. Len(tr) : Announces(tr[i], "id", a)}
           last(a) == IF I(a) # {} THEN Max(I(a)) ELSE 0
           learned(a) == IF last(a) = 0 THEN <<>>
                         ELSE <<NewRecord(tr[last(a)].msg.key, 0, FALSE)>>
<1>2. LearnIdentities(tr) = [a \in Agents |-> learned(a)]
  BY DEF LearnIdentities, SelectLastInSeq, Announces
<1>3. ASSUME NEW i \in 1 .. Len(tr), IsOurs(tr[i], "id")
      PROVE  \E b \in begun : tr[i].msg = IdOf(b)
  <2>1. Emits(tr[i], begun, rotated, n)
    BY DEF TraceOf
  <2>2. QED
    BY <1>3, <2>1, EmittedKinds
<1>4. ASSUME NEW a \in begun PROVE learned(a) = Before(FALSE)
  <2>1. PICK i \in 1 .. Len(tr) : Announces(tr[i], "id", a)
    BY DEF TraceOf, Once
  <2>2. I(a) = {i}
    BY <2>1 DEF TraceOf, Once
  <2>3. Max({i}) = i /\ i # 0
    <3>1. i \in Nat /\ i # 0
      BY <1>1
    <3>2. QED
      BY <3>1, OfOne, Zenon
  <2>4. tr[i].msg.key = 0
    BY <1>3, <2>1, MessageKinds DEF Announces
  <2> HIDE DEF I
  <2>5. last(a) = i
    BY <2>2, <2>3
  <2> HIDE DEF last
  <2>6. QED
    BY <2>3, <2>4, <2>5 DEF Before
<1>5. ASSUME NEW a, a \notin begun PROVE learned(a) = <<>>
  <2>1. I(a) = {}
    BY <1>3, <1>5, MessageKinds DEF Announces
  <2> HIDE DEF I
  <2>2. last(a) = 0
    BY <2>1
  <2> HIDE DEF last
  <2>3. QED
    BY <2>2
<1> HIDE DEF learned
<1>6. \A a \in Agents : ~(\E j \in 1 .. 0 : Announces(tr[j], "rot", a))
  OBVIOUS
<1>7. RecordsAfter(tr, begun, 0) =
        [a \in Agents |-> IF a \in begun THEN Before(FALSE) ELSE <<>>]
  BY <1>6 DEF RecordsAfter
<1>8. QED
  BY <1>2, <1>4, <1>5, <1>7

\* Each event of the second loop raises nothing and is learned.
LEMMA RotationLearned ==
  ASSUME NEW tr, NEW begun, NEW rotated, NEW m, TraceOf(tr, begun, rotated, m),
         rotated \subseteq begun, begun \subseteq Agents,
         NEW n \in 1 .. Len(tr), NEW st, Knows(st, tr, begun, n - 1)
  PROVE  Knows(ObserveEvent(st, tr[n]), tr, begun, n)
<1> DEFINE old == RecordsAfter(tr, begun, n - 1)
           new == RecordsAfter(tr, begun, n)
<1>1. Len(tr) \in Nat
  BY DEF TraceOf
<1>2. \A j : j \in 1 .. n <=> j \in 1 .. n - 1 \/ j = n
  BY <1>1
<1>3. Emits(tr[n], begun, rotated, m)
  BY DEF TraceOf
<1>4. CASE ~IsOurs(tr[n], "rot")
  <2>1. \A a : ~Announces(tr[n], "rot", a)
    BY <1>4 DEF Announces
  <2>2. old = new
    BY <1>2, <2>1 DEF RecordsAfter
  <2>3. ObserveEvent(st, tr[n]) = st
    BY <1>4 DEF ObserveEvent
  <2>4. QED
    BY <2>2, <2>3 DEF Knows
<1>5. CASE IsOurs(tr[n], "rot")
  <2>1. PICK b \in rotated : tr[n].msg = RotOf(b)
    BY <1>3, <1>5, EmittedKinds
  <2>2. b \in Agents /\ b \in begun
    BY <2>1
  <2>3. /\ Announces(tr[n], "rot", b) /\ \A a : a # b => ~Announces(tr[n], "rot", a)
        /\ tr[n].msg.agent = b /\ tr[n].msg.ann = Announced
    BY <1>5, <2>1, MessageKinds DEF Announces
  <2>4. \A j \in 1 .. n - 1 : ~Announces(tr[j], "rot", b)
    <3>1. Once(tr, "rot", b)
      BY <2>1 DEF TraceOf
    <3>2. \A j \in 1 .. n - 1 : j \in 1 .. Len(tr) /\ j # n
      BY <1>1
    <3>3. QED
      BY <2>3, <3>1, <3>2 DEF Once
  <2>5. old[b] = Before(FALSE)
    BY <2>2, <2>4 DEF RecordsAfter
  <2>6. new = [old EXCEPT ![b] = After(FALSE)]
    <3>1. new[b] = After(FALSE)
      BY <1>2, <2>2, <2>3 DEF RecordsAfter
    <3>2. \A a \in Agents : a # b => new[a] = old[a]
      BY <1>2, <2>3 DEF RecordsAfter
    <3>3. /\ new = [a \in Agents |-> new[a]]
          /\ old = [a \in Agents |-> old[a]]
      BY DEF RecordsAfter
    <3> HIDE DEF new, old
    <3>4. QED
      BY <3>1, <3>2, <3>3
  <2>7. Announced.prev = 0
    BY DEF Announced
  <2>8. Holds(old[b], Announced.prev) /\ LearnHistory(old[b], Announced) = After(FALSE)
    BY <2>5, <2>7, ObservedHistories, Zenon
  <2> HIDE DEF old, new
  <2>9. /\ {"records", "raised"} \subseteq DOMAIN st
        /\ st.records = old /\ ~st.raised
    BY DEF Knows, old
  <2> DEFINE learned == [old EXCEPT ![b] = LearnHistory(old[b], Announced)]
             next == [st EXCEPT !.records[b] = LearnHistory(old[b], Announced),
                                !.rotations = @ + 1]
  <2>10. ObserveEvent(st, tr[n]) = next
    BY <1>5, <2>3, <2>8, <2>9 DEF ObserveEvent
  <2>11. /\ {"records", "raised"} \subseteq DOMAIN next
         /\ next.records = learned /\ next.raised = st.raised
    BY <2>9
  <2>12. learned = new
    BY <2>6, <2>8
  <2> HIDE DEF learned, next
  <2>13. Knows(next, tr, begun, n)
    BY <2>9, <2>11, <2>12 DEF Knows, new
  <2>14. QED
    BY <2>10, <2>13
<1>6. QED
  BY <1>4, <1>5

\* From a whole trace the validator learns every history as it is, and
\* raises nothing.
LEMMA Learned ==
  ASSUME NEW tr, NEW begun, NEW rotated, NEW m, TraceOf(tr, begun, rotated, m),
         rotated \subseteq begun, begun \subseteq Agents
  PROVE  /\ ~LearnRotations(tr).raised
         /\ LearnRotations(tr).records = Histories(begun, rotated)
<1>1. Len(tr) \in Nat
  BY DEF TraceOf
<1>2. PICK f :
        /\ f[0] = [records |-> LearnIdentities(tr), rotations |-> 0, raised |-> FALSE]
        /\ \A n \in 1 .. Len(tr) : f[n] = ObserveEvent(f[n - 1], tr[n])
        /\ LearnRotations(tr) = f[Len(tr)]
  BY <1>1, LearnedSteps
<1> DEFINE S == {n \in 0 .. Len(tr) : Knows(f[n], tr, begun, n)}
<1>3. 0 \in S
  <2>1. Knows(f[0], tr, begun, 0)
    BY <1>2, IdentitiesLearned DEF Knows
  <2>2. QED
    BY <1>1, <2>1
<1>4. \A d \in 0 .. Len(tr) - 1 : d \in S => d + 1 \in S
  <2> TAKE d \in 0 .. Len(tr) - 1
  <2> HAVE d \in S
  <2>1. d + 1 \in 1 .. Len(tr) /\ d + 1 \in 0 .. Len(tr) /\ (d + 1) - 1 = d
    BY <1>1
  <2>2. Knows(f[(d + 1) - 1], tr, begun, (d + 1) - 1)
    BY <2>1
  <2>3. Knows(ObserveEvent(f[(d + 1) - 1], tr[d + 1]), tr, begun, d + 1)
    BY <2>1, <2>2, RotationLearned, Zenon
  <2>4. f[d + 1] = ObserveEvent(f[(d + 1) - 1], tr[d + 1])
    BY <1>2, <2>1, Zenon
  <2>5. QED
    BY <2>1, <2>3, <2>4
<1>5. Len(tr) \in S
  <2> HIDE DEF S
  <2>1. 0 .. Len(tr) \subseteq S
    BY <1>1, <1>3, <1>4, Upto
  <2>2. QED
    BY <1>1, <2>1
<1>6. Knows(LearnRotations(tr), tr, begun, Len(tr))
  BY <1>2, <1>5
<1>7. \A a : a \in rotated <=> \E j \in 1 .. Len(tr) : Announces(tr[j], "rot", a)
  <2>1. ASSUME NEW j \in 1 .. Len(tr), NEW a, Announces(tr[j], "rot", a)
        PROVE  a \in rotated
    <3>1. PICK b \in rotated : tr[j].msg = RotOf(b)
      BY <2>1, EmittedKinds DEF TraceOf, Announces
    <3>2. QED
      BY <2>1, <3>1, MessageKinds DEF Announces
  <2>2. QED
    BY <2>1 DEF TraceOf, Once
<1>8. QED
  BY <1>6, <1>7 DEF Knows, RecordsAfter, Histories

-----------------------------------------------------------------------------
(* The validator's verdict. *)

\* What a message of the scenario is signed with, and how it is judged.
LEMMA MessageJudged ==
  ASSUME TraceInv, NEW i \in DOMAIN trace, IsOurs(trace[i], "msg")
  PROVE  LET a == trace[i].msg.agent
             t == trace[i].ts
         IN  /\ t \in Tick
             /\ Flagged(LearnRotations(trace).records, trace[i]) <=>
                  a \in Rotated /\ trace[i].msg.key = 0 /\ RotateAt <= t
             /\ trace[i].msg.key = 0 /\ replicated = 0 => t = 0
<1> DEFINE records == LearnRotations(trace).records
           t == trace[i].ts
<1>1. TraceOf(trace, Begun, Rotated, replicated) /\ Rotated \subseteq Begun /\ Begun \subseteq Agents
  BY DEF TraceInv, Begun, Rotated
<1>2. /\ trace \in Seq(Events) /\ i \in 1 .. Len(trace) /\ trace[i] \in Events
      /\ Emits(trace[i], Begun, Rotated, replicated)
  BY <1>1 DEF TraceOf
<1>3. t \in Tick
  BY <1>2 DEF Events
<1>4. \A a \in Begun : /\ a \in Rotated => records[a] = After(FALSE)
                       /\ a \notin Rotated => records[a] = Before(FALSE)
  <2>1. records = Histories(Begun, Rotated)
    BY <1>1, Learned
  <2> HIDE DEF records
  <2>2. QED
    BY <1>1, <2>1, Zenon DEF Histories
<1>5. /\ Accepts(Before(FALSE), 0, t, t)
      /\ Accepts(After(FALSE), 0, t, t) <=> t < RotateAt
      /\ Accepts(After(FALSE), 1, t, t) <=> RotateAt <= t
  <2> HIDE DEF t
  <2>1. QED
    BY <1>3, VerdictOnKeys, Zenon
<1>6. RotateAt \in Nat /\ t \in Nat
  BY <1>3, ScenarioAssumption, MaxTickAssumption DEF Tick
<1> DEFINE Judged ==
             /\ Flagged(records, trace[i]) <=>
                  trace[i].msg.agent \in Rotated /\ trace[i].msg.key = 0 /\ RotateAt <= t
             /\ trace[i].msg.key = 0 /\ replicated = 0 => t = 0
<1> HIDE DEF records, t
<1>7. ASSUME \E a \in Begun : trace[i].msg = MsgOf(a, 0, t) /\ (replicated = 0 => t = 0)
      PROVE  Judged
  <2>1. PICK a \in Begun : trace[i].msg = MsgOf(a, 0, t) /\ (replicated = 0 => t = 0)
    BY <1>7
  <2>2. /\ trace[i].msg.agent = a /\ trace[i].msg.key = 0 /\ trace[i].msg.tick = t
    BY <2>1, MessageKinds
  <2>3. Flagged(records, trace[i]) <=> ~Accepts(records[a], 0, t, t)
    BY <2>2 DEF Flagged, t
  <2>4. Flagged(records, trace[i]) <=> a \in Rotated /\ RotateAt <= t
    <3>1. /\ a \in Rotated => (Flagged(records, trace[i]) <=> ~(t < RotateAt))
          /\ a \notin Rotated => ~Flagged(records, trace[i])
      BY <1>4, <1>5, <2>3, Zenon
    <3>2. QED
      BY <1>6, <3>1
  <2>5. QED
    BY <2>1, <2>2, <2>4
<1>8. ASSUME \E a \in Begun \cap Rotated : trace[i].msg = MsgOf(a, 1, t) /\ t = RotateAt
      PROVE  Judged
  <2>1. PICK a \in Begun \cap Rotated : trace[i].msg = MsgOf(a, 1, t) /\ t = RotateAt
    BY <1>8
  <2>2. /\ trace[i].msg.agent = a /\ trace[i].msg.key = 1 /\ trace[i].msg.tick = t
    BY <2>1, MessageKinds
  <2>3. Flagged(records, trace[i]) <=> ~Accepts(records[a], 1, t, t)
    BY <2>2 DEF Flagged, t
  <2>4. ~Flagged(records, trace[i])
    <3>1. Flagged(records, trace[i]) <=> ~(RotateAt <= t)
      BY <1>4, <1>5, <2>1, <2>3, Zenon
    <3>2. QED
      BY <1>6, <2>1, <3>1
  <2>5. QED
    BY <2>2, <2>4
<1>9. Judged
  BY <1>2, <1>7, <1>8, EmittedKinds DEF t
<1>10. QED
  BY <1>3, <1>9, Zenon DEF records, t

\* The rotations that a trace announces are those of the rotated agents.
LEMMA RotationsAnnounced ==
  ASSUME TraceInv, NEW a
  PROVE  /\ a \in Rotated =>
              \E j \in DOMAIN trace : IsOurs(trace[j], "rot") /\ trace[j].msg.agent = a
         /\ \A j \in DOMAIN trace :
              IsOurs(trace[j], "rot") /\ trace[j].msg.agent = a =>
                a \in Rotated /\ trace[j].msg.ann.prev = 0 /\ trace[j].ts = RotateAt
<1>1. TraceOf(trace, Begun, Rotated, replicated) /\ DOMAIN trace = 1 .. Len(trace)
  BY DEF TraceInv, TraceOf
<1>2. a \in Rotated => \E j \in DOMAIN trace : Announces(trace[j], "rot", a)
  BY <1>1 DEF TraceOf, Once
<1>3. ASSUME NEW j \in DOMAIN trace, IsOurs(trace[j], "rot"), trace[j].msg.agent = a
      PROVE  a \in Rotated /\ trace[j].msg.ann.prev = 0 /\ trace[j].ts = RotateAt
  <2>1. Emits(trace[j], Begun, Rotated, replicated)
    BY <1>1 DEF TraceOf
  <2>2. PICK b \in Rotated : trace[j].msg = RotOf(b) /\ trace[j].ts = RotateAt
    BY <1>3, <2>1, EmittedKinds
  <2>3. b = a /\ trace[j].msg.ann = Announced
    BY <1>3, <2>2, MessageKinds
  <2>4. QED
    BY <2>2, <2>3 DEF Announced
<1>4. QED
  BY <1>2, <1>3 DEF Announces

\* No trace of the scenario makes the validator raise, whoever has rotated
\* when it is looked at: observe_rotation finds the key that is replaced.
THEOREM NeverRaises == Spec => []ValidatorNeverRaises
<1>1. ASSUME TraceInv PROVE ValidatorNeverRaises
  <2>1. TraceOf(trace, Begun, Rotated, replicated) /\ Rotated \subseteq Begun /\ Begun \subseteq Agents
    BY <1>1 DEF TraceInv, Begun, Rotated
  <2>2. ~LearnRotations(trace).raised
    BY <2>1, Learned
  <2>3. QED
    BY <2>2 DEF ValidatorNeverRaises, Validate
<1>2. TraceInv => ValidatorNeverRaises
  BY <1>1
<1>3. QED
  BY <1>2, TraceIsOfScenario, PTL

\* The validator's violations are the messages signed with a key that their
\* agent had replaced by then, or in that very tick, and no others.
THEOREM VerdictIsExact == Spec => []VerdictExact
<1>1. ASSUME TraceInv PROVE VerdictExact
  <2> DEFINE Replaced(i) ==
        \E j \in DOMAIN trace :
          /\ IsOurs(trace[j], "rot")
          /\ trace[j].msg.agent = trace[i].msg.agent
          /\ trace[j].msg.ann.prev = trace[i].msg.key
          /\ trace[j].ts <= trace[i].ts
  <2>1. ASSUME NEW i \in DOMAIN trace, IsOurs(trace[i], "msg")
        PROVE  Flagged(LearnRotations(trace).records, trace[i]) <=> Replaced(i)
    <3> DEFINE a == trace[i].msg.agent
    <3>1. Flagged(LearnRotations(trace).records, trace[i]) <=>
            a \in Rotated /\ trace[i].msg.key = 0 /\ RotateAt <= trace[i].ts
      BY <1>1, <2>1, MessageJudged
    <3>2. Replaced(i) <=> a \in Rotated /\ trace[i].msg.key = 0 /\ RotateAt <= trace[i].ts
      <4>1. a \in Rotated =>
              \E j \in DOMAIN trace : IsOurs(trace[j], "rot") /\ trace[j].msg.agent = a
        BY <1>1, RotationsAnnounced
      <4>2. \A j \in DOMAIN trace :
              IsOurs(trace[j], "rot") /\ trace[j].msg.agent = a =>
                a \in Rotated /\ trace[j].msg.ann.prev = 0 /\ trace[j].ts = RotateAt
        BY <1>1, RotationsAnnounced
      <4> HIDE DEF a
      <4>3. Replaced(i) <=>
              \E j \in DOMAIN trace :
                /\ IsOurs(trace[j], "rot") /\ trace[j].msg.agent = a
                /\ trace[j].msg.ann.prev = trace[i].msg.key
                /\ trace[j].ts <= trace[i].ts
        BY DEF a
      <4> HIDE DEF Replaced
      <4>4. QED
        BY <4>1, <4>2, <4>3
    <3>3. QED
      BY <3>1, <3>2
  <2> HIDE DEF Replaced
  <2>2. {i \in {i \in DOMAIN trace : IsOurs(trace[i], "msg")} :
           Flagged(LearnRotations(trace).records, trace[i])} =
          {i \in DOMAIN trace : IsOurs(trace[i], "msg") /\ Replaced(i)}
    BY <2>1
  <2>3. QED
    BY <2>2 DEF VerdictExact, Validate, Replaced
<1>2. TraceInv => VerdictExact
  BY <1>1
<1>3. QED
  BY <1>2, TraceIsOfScenario, PTL

\* Without replicas every message is inside the window of its key, as the
\* scenario's docstring has it, where the rotation is after the first tick.
THEOREM InsideItsWindow ==
  ASSUME RotateAt > 0
  PROVE  Spec => []EachInsideItsWindow
<1>1. ASSUME TraceInv PROVE EachInsideItsWindow
  <2>1. SUFFICES ASSUME replicated = 0 PROVE Validate(trace).none_outside
    BY DEF EachInsideItsWindow
  <2>2. RotateAt \in Nat
    BY ScenarioAssumption DEF Tick
  <2>3. ASSUME NEW i \in DOMAIN trace, IsOurs(trace[i], "msg")
        PROVE  ~Flagged(LearnRotations(trace).records, trace[i])
    <3>1. /\ Flagged(LearnRotations(trace).records, trace[i]) =>
               trace[i].msg.key = 0 /\ RotateAt <= trace[i].ts
          /\ trace[i].msg.key = 0 => trace[i].ts = 0
      BY <1>1, <2>1, <2>3, MessageJudged
    <3>2. QED
      BY <2>2, <3>1
  <2>4. {i \in {i \in DOMAIN trace : IsOurs(trace[i], "msg")} :
           Flagged(LearnRotations(trace).records, trace[i])} = {}
    BY <2>3
  <2>5. QED
    BY <2>4 DEF Validate
<1>2. TraceInv => EachInsideItsWindow
  BY <1>1
<1>3. QED
  BY <1>2, TraceIsOfScenario, PTL

=============================================================================
