------------------------- MODULE RotationValidator --------------------------
(***************************************************************************)
(* validate_identity_rotation (src/nest_adapters/validators.py) as an      *)
(* operator on a trace: a sequence of events                               *)
(*   [kind |-> "send" | "broadcast" | "receive", ts |-> tick, msg |-> m]   *)
(* where m is what parse_message (wire.py) makes of the message:           *)
(*   [k |-> "id",  agent, key]       encode_identity                       *)
(*   [k |-> "rot", agent, ann]       encode_rotation_event                 *)
(*   [k |-> "msg", agent, key, tick] encode_signed with a rotating envelope*)
(*   [k |-> "other"]                 anything else                         *)
(***************************************************************************)
EXTENDS KeyWindows

CONSTANT Agents

EmittingKinds == {"send", "broadcast"}

\* _parsed_ours: receive events repeat a message and are left out.
IsOurs(event, k) == event.kind \in EmittingKinds /\ event.msg.k = k

LearnIdentities_None(trace) == [a \in Agents |-> <<>>]

\* Pass 1, first loop: register_peer for every announced identity, so that
\* the last one of an agent decides.
LearnIdentities(trace) ==
  [a \in Agents |->
     LET i == SelectLastInSeq(trace, LAMBDA e : IsOurs(e, "id") /\ e.msg.agent = a)
     IN  IF i = 0 THEN <<>> ELSE <<NewRecord(trace[i].msg.key, 0, FALSE)>>]

\* One rotation event of pass 1: observe_rotation, whose ValueError nothing
\* in the validator catches.
ObserveEvent(st, event) ==
  IF st.raised \/ ~IsOurs(event, "rot") THEN st
  ELSE LET recs == st.records[event.msg.agent]
           ann  == event.msg.ann
       IN  IF Holds(recs, ann.prev)
           THEN [st EXCEPT !.records[event.msg.agent] = LearnHistory(recs, ann),
                           !.rotations = @ + 1]
           ELSE [st EXCEPT !.raised = TRUE]

\* Pass 1, second loop: what is learned after each event, in trace order.
LearnRotations(trace) ==
  LET learned[n \in 0 .. Len(trace)] ==
        IF n = 0
        THEN [records |-> LearnIdentities(trace), rotations |-> 0, raised |-> FALSE]
        ELSE ObserveEvent(learned[n - 1], trace[n])
  IN  learned[Len(trace)]

\* Pass 2: a signed message is judged as of the tick it was emitted at.
Flagged(records, event) ==
  /\ IsOurs(event, "msg")
  /\ ~Accepts(records[event.msg.agent], event.msg.key, event.msg.tick, event.ts)

Validate_OnlinePass(trace) ==
  LET learned(i) == LearnRotations(SubSeq(trace, 1, i))
      signed == {i \in DOMAIN trace : IsOurs(trace[i], "msg")}
      violations == {i \in signed : Flagged(learned(i).records, trace[i])}
  IN  [raised       |-> learned(Len(trace)).raised,
       violations   |-> violations,
       real_windows |-> learned(Len(trace)).rotations >= 1 /\ signed # {},
       none_outside |-> violations = {}]

\* The two results, with the positions of the violations; meaningless when
\* the validator raised.
Validate(trace) ==
  LET learned == LearnRotations(trace)
      signed == {i \in DOMAIN trace : IsOurs(trace[i], "msg")}
      violations == {i \in signed : Flagged(learned.records, trace[i])}
  IN  [raised       |-> learned.raised,
       violations   |-> violations,
       real_windows |-> learned.rotations >= 1 /\ signed # {},
       none_outside |-> violations = {}]
=============================================================================
