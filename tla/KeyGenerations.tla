--------------------------- MODULE KeyGenerations ---------------------------
(***************************************************************************)
(* What a rotating identity promises, without its lists: the keys of an    *)
(* agent are generations 0, 1, 2, ... issued at non-decreasing ticks, and  *)
(* what a verifier knows of an agent is one interval of generations.  The  *)
(* window of a known generation runs from its issue to the issue of the    *)
(* next known one; the first known one is trusted from tick 0 and the last *)
(* known one stays open.                                                   *)
(***************************************************************************)
EXTENDS Naturals, Sequences

CONSTANTS
  Agents,
  Tick      \* logical time, a set of naturals

VARIABLES
  issue,    \* issue[a][k + 1]: the tick generation k of a was issued at
  view      \* view[v][a]: the generations of a that v knows, lo .. hi

NoView == [lo |-> 1, hi |-> 0]

Only(k) == [lo |-> k, hi |-> k]

Latest(a) == Len(issue[a]) - 1

Init ==
  /\ issue = [a \in Agents |-> <<0>>]
  /\ view \in [Agents -> [Agents -> {Only(0), NoView}]]
  /\ \A a \in Agents : view[a][a] = Only(0)

\* Agent a moves to its next generation, at a tick not before the last one.
Rotate(a) ==
  /\ \E t \in Tick :
       /\ t >= issue[a][Len(issue[a])]
       /\ issue' = [issue EXCEPT ![a] = Append(@, t)]
  /\ view' = [view EXCEPT ![a][a].hi = @ + 1]

\* Verifier v trusts some generation k of a, and nothing older or newer.
Meet(v, a) ==
  /\ v # a
  /\ \E k \in 0 .. Latest(a) : view' = [view EXCEPT ![v][a] = Only(k)]
  /\ UNCHANGED issue

\* Verifier v learns the generation after the last one it knows.
Learn(v, a) ==
  /\ v # a
  /\ view[v][a] # NoView
  /\ view[v][a].hi < Latest(a)
  /\ view' = [view EXCEPT ![v][a].hi = @ + 1]
  /\ UNCHANGED issue

Next == \E a \in Agents : Rotate(a) \/ \E v \in Agents : Meet(v, a) \/ Learn(v, a)

Spec == Init /\ [][Next]_<<issue, view>>

-----------------------------------------------------------------------------
Known(v, a, k) == view[v][a].lo <= k /\ k <= view[v][a].hi

Opens(v, a, k) == IF k = view[v][a].lo THEN 0 ELSE issue[a][k + 1]

\* Generation k of a is known to v and t is in its window.
InWindow(v, a, k, t) ==
  /\ Known(v, a, k)
  /\ Opens(v, a, k) <= t
  /\ k < view[v][a].hi => t < issue[a][k + 2]

Accepts(v, a, k, claimed, as_of) == InWindow(v, a, k, claimed) /\ InWindow(v, a, k, as_of)
=============================================================================
