-------------------------------- MODULE Query --------------------------------
(***************************************************************************)
(* What a user of a SAT solver relies on, whatever the solver does: it is  *)
(* given clauses and asked for an assignment under assumptions; it answers *)
(* with one, or with the assumptions that rule all of them out.            *)
(*                                                                         *)
(* A released variable was promised never to be mentioned again; answers   *)
(* say nothing about it.                                                   *)
(***************************************************************************)
EXTENDS Clauses

CONSTANTS Names,     \* what the user may call its variables
          Claims,    \* the clauses and ...
          Questions  \* ... the sets of assumptions it may come up with

VARIABLES
  given,       \* the clauses added so far
  released,    \* the literals the user let go, with the value promised
  assumptions, \* of the question that is asked, or was asked last
  answer       \* Pending, Idle, or what IsSat and IsUnsat say

vars == <<given, released, assumptions, answer>>

Pending == [is |-> "pending", lits |-> {}]
Idle    == [is |-> "idle",    lits |-> {}]
Undef   == [is |-> "undef",   lits |-> {}]

Live == Names \ VarsOf(released)

\* The answers a question may have: an assignment of what is not released ...
IsSat(ans) ==
  LET all == ans.lits \cup released
  IN  /\ ans.is = "sat"
      /\ assumptions \subseteq ans.lits
      /\ Consistent(all)
      /\ VarsIn(given) \subseteq VarsOf(all)
      /\ Satisfies(all, given)

\* ... or assumptions, negated, one of which every solution contains.
IsUnsat(ans) ==
  /\ ans.is = "unsat"
  /\ ans.lits \subseteq {Neg(p) : p \in assumptions}
  /\ \A t \in TotalAssignments(Names) : Satisfies(t, given) => ans.lits \cap t # {}

Init ==
  /\ given = {} /\ released = {} /\ assumptions = {}
  /\ answer = Idle

AddClause ==
  /\ answer # Pending
  /\ \E c \in Claims : VarsOf(c) \subseteq Live /\ given' = given \cup {c}
  /\ answer' = Idle
  /\ UNCHANGED <<released, assumptions>>

\* The literal is made true for good.
Release ==
  /\ answer # Pending
  /\ \E p \in LitsOf(Live) : released' = released \cup {p}
  /\ answer' = Idle
  /\ UNCHANGED <<given, assumptions>>

\* Whatever else is called, it is no question.
Other ==
  /\ answer # Pending
  /\ answer' = Idle
  /\ UNCHANGED <<given, released, assumptions>>

Ask ==
  /\ answer # Pending
  /\ \E ps \in Questions : VarsOf(ps) \subseteq Live /\ assumptions' = ps
  /\ answer' = Pending
  /\ UNCHANGED <<given, released>>

Reply ==
  /\ answer = Pending
  /\ answer' = Undef \/ IsSat(answer') \/ IsUnsat(answer')
  /\ UNCHANGED <<given, released, assumptions>>

Next == AddClause \/ Release \/ Other \/ Ask \/ Reply

Spec == Init /\ [][Next]_vars
=============================================================================
