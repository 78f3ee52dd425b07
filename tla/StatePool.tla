----------------------------- MODULE StatePool -----------------------------
(***************************************************************************)
(* The vector behind the pool of States in IC3.cpp: newState(), delState() *)
(* and resetStates().  Cell n of the vector holds State n; what a State    *)
(* holds, its latches and inputs, is a set of literals that stateOf()      *)
(* fills by push_back().                                                   *)
(***************************************************************************)
EXTENDS Pool, Sequences

CONSTANTS Literals,   \* what a State may hold
          MaxStates   \* at most so many States are in use at a time

ASSUME PoolAssumption == MaxStates \in Nat

VARIABLES
  cells,      \* the vector states: is the cell used, and its literals
  nextState   \* how many cells come before the next one to be handed out

vars == <<cells, nextState>>

Cell == [used : BOOLEAN, literals : SUBSET Literals]

EmptyCell == [used |-> FALSE, literals |-> {}]

\* How many cells from the given number on are used without a gap.
FirstUnused(cs, from) ==
  CHOOSE m \in from..Len(cs) :
    /\ m < Len(cs) => ~cs[m + 1].used
    /\ \A x \in from..(m - 1) : cs[x + 1].used

Init ==
  /\ cells = <<>>
  /\ nextState = 0

\* newState(), resizing the vector if need be, and the caller's push_back()s.
TakeCell(c) ==
  LET grown == IF nextState >= Len(cells) THEN Append(cells, EmptyCell) ELSE cells
      taken == [grown EXCEPT ![nextState + 1] =
                  [used |-> TRUE, literals |-> grown[nextState + 1].literals \cup c]]
  IN  /\ nextState < MaxStates
      /\ cells' = taken
      /\ nextState' = FirstUnused(taken, nextState)

\* Faulty form of ClearedCell: the literals stay.
UnusedCell(n) == [cells[n] EXCEPT !.used = FALSE]

ClearedCell(n) == EmptyCell

DelState(n) ==
  /\ cells[n].used
  /\ cells' = [cells EXCEPT ![n] = ClearedCell(n)]
  /\ nextState' = IF nextState > n - 1 THEN n - 1 ELSE nextState

\* Faulty form of FirstAfterReset: the position is left alone.
NextAsBefore == nextState

FirstAfterReset == 0

ResetStates ==
  /\ cells' = [n \in DOMAIN cells |-> ClearedCell(n)]
  /\ nextState' = FirstAfterReset

Next ==
  \/ \E c \in SUBSET Literals : TakeCell(c)
  \/ \E n \in DOMAIN cells : DelState(n)
  \/ ResetStates

Spec == Init /\ [][Next]_vars

-----------------------------------------------------------------------------
TypeOK ==
  /\ cells \in Seq(Cell)
  /\ nextState \in 0..Len(cells)

\* Nothing before nextState is free, whatever was freed and taken since, and
\* the cell at nextState is: the assertion of newState() (IC3.cpp:365) never
\* fails, and no State is given out twice.
NextStateIsFree ==
  /\ \A n \in 1..nextState : cells[n].used
  /\ nextState < Len(cells) => ~cells[nextState + 1].used

\* A cell that is not used is empty: stateOf() never adds the literals of a
\* new State to those of an old one.
FreeCellsAreEmpty == \A n \in DOMAIN cells : ~cells[n].used => cells[n].literals = {}

\* The States in use, as IC3 sees them.
Used == [n \in {m \in DOMAIN cells : cells[m].used} |-> cells[n].literals]

\* The vector behaves like the pool of the search: a new State gets the
\* lowest free number and exactly the literals given to it, and the others
\* keep theirs.
ImplementsPool ==
  [][/\ \A c \in SUBSET Literals : TakeCell(c) => Used' = NewState(Used, c)
     /\ \A n \in DOMAIN cells : DelState(n) => Used' = DelStates(Used, {n})
     /\ ResetStates => Used' = NoStates]_vars
=============================================================================
