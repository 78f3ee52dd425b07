--------------------------- MODULE BoundedSearch ---------------------------
(***************************************************************************)
(* What a bounded model checker promises: it looks for the goal at one     *)
(* depth after the other, answers "1" at the first depth where the goal    *)
(* can be reached, and "x" after the last depth of which it cannot.        *)
(***************************************************************************)
EXTENDS Naturals

VARIABLES
  goal,    \* the depths at which the goal can be reached
  limit,   \* the last depth to look at
  depth,
  answer   \* "none" until there is one

vars == <<goal, limit, depth, answer>>

Init == depth = 0 /\ answer = "none"

Deeper ==
  /\ answer = "none" /\ depth \notin goal /\ depth < limit
  /\ depth' = depth + 1
  /\ UNCHANGED <<goal, limit, answer>>

Found ==
  /\ answer = "none" /\ depth \in goal
  /\ answer' = "1"
  /\ UNCHANGED <<goal, limit, depth>>

GiveUp ==
  /\ answer = "none" /\ depth \notin goal /\ depth = limit
  /\ answer' = "x"
  /\ UNCHANGED <<goal, limit, depth>>

Next == Deeper \/ Found \/ GiveUp

Spec == Init /\ [][Next]_vars
=============================================================================
