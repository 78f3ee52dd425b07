------------------------------ MODULE MCSearch ------------------------------
(***************************************************************************)
(* Circuits to search: an unsafe one with two inputs, one that only its    *)
(* constraint makes safe, and one with a constraint that reads an input.   *)
(*                                                                         *)
(* Circuits are given as graphs: a state is numbered by its latches a b c  *)
(* read as a binary number, and the table lists the successor of 0, 1,     *)
(* ..., 7 (under each input, if there is one).  They were picked so that   *)
(* the search meets CTIs several levels deep, CTGs it can block and CTGs   *)
(* it has to join with, cubes that move up and cubes that stay.            *)
(***************************************************************************)
EXTENDS IC3Properties, Integers

StateOfNumber(n) == {<<"a", (n \div 4) % 2 = 1>>, <<"b", (n \div 2) % 2 = 1>>, <<"c", n % 2 = 1>>}

Number(s) == CHOOSE n \in 0..7 : StateOfNumber(n) = s

AllZero == StateOfNumber(0)

Always(s, i) == TRUE

\* The error 5 is reached in five steps, 0 4 3 7 6 5, if the inputs are
\* right; wrong ones lead to longer ways and loops.
TraceNext(s, i) ==
  StateOfNumber(<< <<2, 4>>, <<1, 4>>, <<4, 2>>, <<7, 4>>,
                   <<3, 2>>, <<3, 3>>, <<5, 6>>, <<6, 4>> >>[Number(s) + 1][i])
TraceError(s, i) == Number(s) = 5

\* The error 6 is reached from 2, 2 from 3, 3 from 4, and 4 from 7.  From 0
\* the circuit goes to 5 and on to 7, which the constraint forbids; without
\* the constraint it is unsafe.
ForbiddenNext(s, i)       == StateOfNumber(<<5, 5, 6, 2, 3, 7, 4, 4>>[Number(s) + 1])
ForbiddenError(s, i)      == Number(s) = 6
ForbiddenConstraint(s, i) == Number(s) # 7

\* A constraint that reads the input: a or ~i.  b copies the input, a is
\* set in one step, c keeps its reset value, and the error b /\ c follows
\* from 001 by the inputs 0 and 1.
InputNext(s, i) ==
  {<<"a", TRUE>>, <<"b", i = 1>>} \cup {p \in s : p[1] = "c"}
InputReset           == StateOfNumber(1)
InputError(s, i)     == <<"b", TRUE>> \in s /\ <<"c", TRUE>> \in s
InputConstraint(s, i) == <<"a", TRUE>> \in s \/ i = 0

-----------------------------------------------------------------------------
\* check() returns true, "safe", exactly if no error is reachable
\* (main.cpp:60-61), also if a constraint reads an input.
VerdictOnInputIsRight == VerdictIsRight
=============================================================================
