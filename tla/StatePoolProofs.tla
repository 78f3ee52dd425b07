-------------------------- MODULE StatePoolProofs --------------------------
(***************************************************************************)
(* Whatever is taken from the pool and given back, in whatever order, the  *)
(* vector behaves like the pool of the search.                             *)
(***************************************************************************)
EXTENDS StatePool, FiniteSetTheorems, WellFoundedInduction, TLAPS

\* Freed cells must be known to be empty for the pool to be implemented.
IInv == TypeOK /\ NextStateIsFree /\ FreeCellsAreEmpty

-----------------------------------------------------------------------------
(* The scan for the next unused cell, and the lowest free number.          *)

\* The scan of newState() stops at the first unused cell, or at the end.
LEMMA FirstUnusedFound ==
  ASSUME NEW cs \in Seq(Cell), NEW from \in 0..Len(cs)
  PROVE  /\ FirstUnused(cs, from) \in from..Len(cs)
         /\ FirstUnused(cs, from) < Len(cs) => ~cs[FirstUnused(cs, from) + 1].used
         /\ \A x \in from..(FirstUnused(cs, from) - 1) : cs[x + 1].used
<1> DEFINE S == {m \in from..Len(cs) : m < Len(cs) => ~cs[m + 1].used}
<1>1. S \subseteq Nat /\ Len(cs) \in S
  OBVIOUS
<1>2. \E m \in S : \A x \in S : <<x, m>> \notin OpToRel(<, Nat)
  <2> HIDE DEF S
  <2> QED BY <1>1, NatLessThanWellFounded, WFMin
<1>3. PICK m \in S : \A x \in S : ~(x < m)
  BY <1>1, <1>2 DEF OpToRel
<1>4. \A x \in from..(m - 1) : cs[x + 1].used
  <2> SUFFICES ASSUME NEW x \in from..(m - 1) PROVE cs[x + 1].used
    OBVIOUS
  <2>1. x \in from..Len(cs) /\ x < m /\ x < Len(cs)
    OBVIOUS
  <2>2. x \notin S
    BY <1>3, <2>1
  <2> QED BY <2>1, <2>2
<1>5. \E n \in from..Len(cs) :
        /\ n < Len(cs) => ~cs[n + 1].used
        /\ \A x \in from..(n - 1) : cs[x + 1].used
  BY <1>4
<1> QED BY <1>5 DEF FirstUnused

\* The number of the cell at nextState is the one FreshState() promises.
LEMMA NextStateIsFresh ==
  ASSUME TypeOK, NextStateIsFree
  PROVE  FreshState(Used) = nextState + 1
<1> DEFINE D == {m \in DOMAIN cells : cells[m].used}
<1>1. D \subseteq 1..Len(cells) /\ DOMAIN Used = D
  BY DEF TypeOK, Used
<1>2. IsFiniteSet(D)
  <2>1. 1 \in Int /\ Len(cells) \in Int
    BY DEF TypeOK
  <2>2. IsFiniteSet(1..Len(cells))
    BY <2>1, FS_Interval
  <2> HIDE DEF D
  <2> QED BY <1>1, <2>2, FS_Subset
<1>3. 1..nextState \subseteq D /\ nextState + 1 \notin D
  BY DEF TypeOK, NextStateIsFree
<1>4. nextState \in Nat /\ Cardinality(D) \in Nat /\ nextState <= Cardinality(D)
  <2>1. nextState \in Nat /\ Len(cells) \in Nat
    BY DEF TypeOK
  <2>2. IsFiniteSet(1..nextState) /\ Cardinality(1..nextState) = nextState
    BY <2>1, FS_Interval
  <2>3. Cardinality(1..nextState) <= Cardinality(D)
    BY <1>2, <1>3, FS_Subset
  <2> QED BY <2>1, <2>2, <2>3, <1>2, FS_CardinalityType
<1> DEFINE Lowest(n) == n \notin D /\ \A m \in 1..(n - 1) : m \in D
<1>5. nextState + 1 \in 1..(Cardinality(D) + 1) /\ Lowest(nextState + 1)
  <2> HIDE DEF D
  <2> QED BY <1>3, <1>4
<1>6. \A n \in 1..(Cardinality(D) + 1) : Lowest(n) => n = nextState + 1
  <2> SUFFICES ASSUME NEW n \in 1..(Cardinality(D) + 1), Lowest(n)
               PROVE  n = nextState + 1
    OBVIOUS
  <2> HIDE DEF D
  <2>1. ~(n <= nextState)
    BY <1>3, <1>4
  <2>2. ~(nextState + 1 <= n - 1)
    BY <1>3, <1>4
  <2> QED BY <2>1, <2>2, <1>4
<1>7. FreshState(Used) = CHOOSE n \in 1..(Cardinality(D) + 1) : Lowest(n)
  BY <1>1 DEF FreshState
<1> HIDE DEF Lowest
<1> QED BY <1>5, <1>6, <1>7

-----------------------------------------------------------------------------
(* What taking a cell does.                                                *)

LEMMA TakenCell ==
  ASSUME IInv, NEW c \in SUBSET Literals, TakeCell(c)
  PROVE  /\ cells' \in Seq(Cell)
         /\ DOMAIN cells' = DOMAIN cells \cup {nextState + 1}
         /\ Len(cells) <= Len(cells')
         /\ cells'[nextState + 1] = [used |-> TRUE, literals |-> c]
         /\ \A n \in DOMAIN cells : n # nextState + 1 => cells'[n] = cells[n]
         /\ nextState' = FirstUnused(cells', nextState)
<1> USE DEF IInv, TypeOK
<1> DEFINE grown == IF nextState >= Len(cells) THEN Append(cells, EmptyCell) ELSE cells
<1>1. EmptyCell \in Cell
  BY DEF EmptyCell, Cell
<1>2. /\ grown \in Seq(Cell)
      /\ DOMAIN grown = DOMAIN cells \cup {nextState + 1}
      /\ Len(cells) <= Len(grown) /\ nextState + 1 \in 1..Len(grown)
      /\ \A n \in DOMAIN cells : grown[n] = cells[n]
      /\ grown[nextState + 1].literals = {}
  <2>1. CASE nextState >= Len(cells)
    <3>1. grown = Append(cells, EmptyCell) /\ nextState = Len(cells)
      BY <2>1
    <3> QED BY <3>1, <1>1 DEF EmptyCell
  <2>2. CASE nextState < Len(cells)
    <3>1. nextState + 1 \in DOMAIN cells /\ ~cells[nextState + 1].used
      BY <2>2 DEF NextStateIsFree
    <3> QED BY <2>2, <3>1 DEF FreeCellsAreEmpty
  <2> QED BY <2>1, <2>2
<1> HIDE DEF grown
<1>3. cells' = [grown EXCEPT ![nextState + 1] =
                  [used |-> TRUE, literals |-> grown[nextState + 1].literals \cup c]]
  BY DEF TakeCell, grown
<1>4. cells'[nextState + 1] = [used |-> TRUE, literals |-> c]
  BY <1>2, <1>3
<1>5. [used |-> TRUE, literals |-> c] \in Cell
  BY DEF Cell
<1>6. cells' \in Seq(Cell) /\ Len(cells') = Len(grown) /\ DOMAIN cells' = DOMAIN grown
  BY <1>2, <1>3, <1>4, <1>5
<1>7. nextState' = FirstUnused(cells', nextState)
  BY <1>3 DEF TakeCell, grown
<1> QED BY <1>2, <1>3, <1>4, <1>6, <1>7

\* From the number of a cell to its position.
LEMMA Position ==
  \A n, a, b \in Int : a < n /\ n <= b => n - 1 \in a..(b - 1) /\ (n - 1) + 1 = n
OBVIOUS

\* The invariant's facts about the cells after one was taken.
LEMMA TakeCellKeeps ==
  ASSUME IInv, NEW c \in SUBSET Literals, TakeCell(c)
  PROVE  /\ nextState' \in 0..Len(cells')
         /\ NextStateIsFree'
         /\ FreeCellsAreEmpty'
<1>0. /\ DOMAIN cells' = DOMAIN cells \cup {nextState + 1}
      /\ cells'[nextState + 1] = [used |-> TRUE, literals |-> c]
      /\ \A n \in DOMAIN cells : n # nextState + 1 => cells'[n] = cells[n]
  BY TakenCell
<1>00. nextState \in 0..Len(cells) /\ Len(cells) \in Nat /\ DOMAIN cells = 1..Len(cells)
  BY DEF IInv, TypeOK
<1>1. /\ nextState \in 0..Len(cells') /\ cells' \in Seq(Cell)
      /\ nextState' = FirstUnused(cells', nextState)
  <2>1. /\ cells' \in Seq(Cell) /\ Len(cells) <= Len(cells')
        /\ nextState' = FirstUnused(cells', nextState)
    BY TakenCell
  <2>2. Len(cells') \in Nat
    BY <2>1
  <2> QED BY <1>00, <2>1, <2>2
<1>2. /\ nextState' \in nextState..Len(cells') /\ Len(cells') \in Nat
      /\ nextState' < Len(cells') => ~cells'[nextState' + 1].used
      /\ \A x \in nextState..(nextState' - 1) : cells'[x + 1].used
  BY <1>1, FirstUnusedFound
<1>3. \A n \in 1..nextState' : cells'[n].used
  <2> SUFFICES ASSUME NEW n \in 1..nextState' PROVE cells'[n].used
    OBVIOUS
  <2>1. CASE n <= nextState
    <3>1. n \in DOMAIN cells /\ n # nextState + 1 /\ cells[n].used
      BY <2>1, <1>00, <1>2 DEF IInv, NextStateIsFree
    <3> QED BY <3>1, <1>0
  <2>2. CASE n > nextState
    <3>1. n - 1 \in nextState..(nextState' - 1) /\ (n - 1) + 1 = n
      <4>1. nextState \in Int /\ nextState' \in Int /\ n \in Int /\ n <= nextState'
        BY <1>2, <1>00
      <4> QED BY <2>2, <4>1, Position
    <3> QED BY <3>1, <1>2
  <2> QED BY <2>1, <2>2, <1>2, <1>00
<1>4. FreeCellsAreEmpty'
  BY <1>0 DEF IInv, FreeCellsAreEmpty
<1> QED BY <1>00, <1>1, <1>2, <1>3, <1>4 DEF NextStateIsFree

-----------------------------------------------------------------------------
(* The inductive invariant.                                                *)

LEMMA Initially == Init => IInv
BY DEF Init, IInv, TypeOK, NextStateIsFree, FreeCellsAreEmpty, Cell

LEMMA Preserved == IInv /\ [Next]_vars => IInv'
<1> SUFFICES ASSUME IInv, [Next]_vars PROVE IInv'
  OBVIOUS
<1> USE DEF IInv, TypeOK
<1>1. ASSUME NEW c \in SUBSET Literals, TakeCell(c) PROVE IInv'
  <2>1. TypeOK'
    BY <1>1, TakenCell, TakeCellKeeps
  <2> QED BY <1>1, <2>1, TakeCellKeeps
<1>2. ASSUME NEW n \in DOMAIN cells, DelState(n) PROVE IInv'
  <2>1. /\ cells' \in Seq(Cell) /\ Len(cells') = Len(cells) /\ DOMAIN cells' = DOMAIN cells
        /\ cells'[n] = EmptyCell
        /\ \A m \in DOMAIN cells : m # n => cells'[m] = cells[m]
    <3>1. EmptyCell \in Cell
      BY DEF EmptyCell, Cell
    <3>2. cells' = [cells EXCEPT ![n] = EmptyCell]
      BY <1>2 DEF DelState, ClearedCell
    <3> QED BY <3>1, <3>2
  <2>2. nextState' = (IF nextState > n - 1 THEN n - 1 ELSE nextState) /\ n \in 1..Len(cells)
    BY <1>2 DEF DelState
  <2>3. TypeOK'
    BY <2>1, <2>2
  <2>4. NextStateIsFree'
    <3>1. \A m \in 1..nextState' : m # n /\ m \in DOMAIN cells /\ cells[m].used
      BY <2>2 DEF NextStateIsFree
    <3>2. nextState' < Len(cells') => ~cells'[nextState' + 1].used
      <4>1. CASE nextState > n - 1
        BY <2>1, <2>2, <4>1 DEF EmptyCell
      <4>2. CASE ~(nextState > n - 1)
        BY <2>1, <2>2, <4>2 DEF NextStateIsFree, EmptyCell
      <4> QED BY <4>1, <4>2
    <3> QED BY <2>1, <3>1, <3>2 DEF NextStateIsFree
  <2>5. FreeCellsAreEmpty'
    BY <2>1 DEF FreeCellsAreEmpty, EmptyCell
  <2> QED BY <2>3, <2>4, <2>5
<1>3. ASSUME ResetStates PROVE IInv'
  <2>1. /\ cells' \in Seq(Cell) /\ Len(cells') = Len(cells) /\ DOMAIN cells' = DOMAIN cells
        /\ \A m \in DOMAIN cells : cells'[m] = EmptyCell
    <3>1. EmptyCell \in Cell
      BY DEF EmptyCell, Cell
    <3>2. cells' = [n \in 1..Len(cells) |-> EmptyCell]
      BY <1>3 DEF ResetStates, ClearedCell
    <3> QED BY <3>1, <3>2
  <2>2. nextState' = 0
    BY <1>3 DEF ResetStates, FirstAfterReset
  <2>3. TypeOK'
    BY <2>1, <2>2
  <2>4. NextStateIsFree' /\ FreeCellsAreEmpty'
    BY <2>1, <2>2 DEF NextStateIsFree, FreeCellsAreEmpty, EmptyCell
  <2> QED BY <2>3, <2>4
<1>4. CASE UNCHANGED vars
  BY <1>4 DEF vars, NextStateIsFree, FreeCellsAreEmpty
<1> QED BY <1>1, <1>2, <1>3, <1>4 DEF Next

\* The inductive invariant holds throughout.
THEOREM PoolInvariant == Spec => []IInv
BY Initially, Preserved, PTL DEF Spec

\* newState() never hands out a State that is in use.
THEOREM NextStateFree == Spec => []NextStateIsFree
BY PoolInvariant, PTL DEF IInv

-----------------------------------------------------------------------------
(* The vector implements the pool.                                         *)

LEMMA TakeCellIsNewState ==
  ASSUME IInv, NEW c \in SUBSET Literals, TakeCell(c)
  PROVE  Used' = NewState(Used, c)
<1> DEFINE D == {m \in DOMAIN cells : cells[m].used}
<1>0. /\ DOMAIN cells' = DOMAIN cells \cup {nextState + 1}
      /\ cells'[nextState + 1] = [used |-> TRUE, literals |-> c]
      /\ \A n \in DOMAIN cells : n # nextState + 1 => cells'[n] = cells[n]
  BY TakenCell
<1>1. DOMAIN Used = D /\ \A n \in D : Used[n] = cells[n].literals
  BY DEF Used
<1>2. nextState + 1 \notin D
  BY DEF IInv, TypeOK, NextStateIsFree
<1>3. {m \in DOMAIN cells' : cells'[m].used} = D \cup {nextState + 1}
  BY <1>0, <1>2
<1>4. Used' = [n \in D \cup {nextState + 1} |-> cells'[n].literals]
  BY <1>3 DEF Used
<1>5. \A n \in D \cup {nextState + 1} :
        cells'[n].literals = IF n \in DOMAIN Used THEN Used[n] ELSE c
  BY <1>0, <1>1, <1>2
<1>6. FreshState(Used) = nextState + 1
  BY NextStateIsFresh DEF IInv
<1>7. NewState(Used, c) =
        [n \in D \cup {nextState + 1} |-> IF n \in DOMAIN Used THEN Used[n] ELSE c]
  BY <1>1, <1>6 DEF NewState
<1> HIDE DEF D
<1> QED BY <1>4, <1>5, <1>7

\* Every operation on the vector is that operation on the pool.
THEOREM PoolImplemented == Spec => ImplementsPool
<1>1. ASSUME IInv, NEW c \in SUBSET Literals, TakeCell(c) PROVE Used' = NewState(Used, c)
  BY <1>1, TakeCellIsNewState
<1>2. ASSUME IInv, NEW n \in DOMAIN cells, DelState(n) PROVE Used' = DelStates(Used, {n})
  <2> DEFINE D == {m \in DOMAIN cells : cells[m].used}
  <2>1. cells' = [cells EXCEPT ![n] = EmptyCell]
    BY <1>2 DEF DelState, ClearedCell
  <2>2. /\ DOMAIN cells' = DOMAIN cells /\ cells'[n] = EmptyCell
        /\ \A m \in DOMAIN cells : m # n => cells'[m] = cells[m]
    BY <2>1, <1>2 DEF IInv, TypeOK
  <2>3. {m \in DOMAIN cells' : cells'[m].used} = D \ {n}
    BY <2>2 DEF EmptyCell
  <2>4. Used' = [m \in D \ {n} |-> cells'[m].literals]
    BY <2>3 DEF Used
  <2>5. DelStates(Used, {n}) = [m \in D \ {n} |-> Used[m]]
    BY DEF DelStates, Used
  <2>6. \A m \in D \ {n} : cells'[m].literals = Used[m]
    BY <2>2 DEF Used
  <2> QED BY <2>4, <2>5, <2>6
<1>3. ASSUME ResetStates PROVE Used' = NoStates
  <2>1. cells' = [n \in DOMAIN cells |-> EmptyCell]
    BY <1>3 DEF ResetStates, ClearedCell
  <2>2. {m \in DOMAIN cells' : cells'[m].used} = {}
    BY <2>1 DEF EmptyCell
  <2> QED BY <2>2 DEF Used, NoStates
<1> DEFINE Agrees == /\ \A c \in SUBSET Literals : TakeCell(c) => Used' = NewState(Used, c)
                     /\ \A n \in DOMAIN cells : DelState(n) => Used' = DelStates(Used, {n})
                     /\ ResetStates => Used' = NoStates
<1>4. IInv /\ [Next]_vars => [Agrees]_vars
  BY <1>1, <1>2, <1>3
<1>5. ImplementsPool <=> [][Agrees]_vars
  BY DEF ImplementsPool
<1> HIDE DEF Agrees
<1> QED BY <1>4, <1>5, PoolInvariant, PTL DEF Spec
=============================================================================
