------------------------------ MODULE AndGraph ------------------------------
(***************************************************************************)
(* The circuit a Model holds, as tables: how many inputs and latches, the  *)
(* arguments of the AND gates, the next-state functions, the error and the *)
(* constraints.  Variables are numbered as in Model: 0 for false, then the *)
(* inputs, the latches and the gates.  A literal is a variable with the    *)
(* value that makes it true.                                               *)
(***************************************************************************)
EXTENDS Naturals, Sequences

VARIABLE circuit  \* the circuit that the program works on

FirstInput == 1
FirstLatch(c) == FirstInput + c.inputs
FirstGate(c)  == FirstLatch(c) + c.latches
FirstPrime(c) == FirstGate(c) + Len(c.gates)

InputVars(c) == FirstInput..(FirstLatch(c) - 1)
LatchVars(c) == FirstLatch(c)..(FirstGate(c) - 1)

\* The value of each variable, given the inputs and latches that are true.
Values(c, on) ==
  LET val[v \in 0..(FirstPrime(c) - 1)] ==
        IF v < FirstGate(c) THEN v \in on
        ELSE LET g == c.gates[v - FirstGate(c) + 1]
             IN  val[g.rhs0[1]] = g.rhs0[2] /\ val[g.rhs1[1]] = g.rhs1[2]
  IN  val

Holds(val, p) == val[p[1]] = p[2]

Meets(c, val) == \A i \in DOMAIN c.constraints : Holds(val, c.constraints[i])
=============================================================================
