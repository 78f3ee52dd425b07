------------------------------ MODULE IC3Proofs ------------------------------
(***************************************************************************)
(* The search of IC3.cpp is sound for every circuit whose constraints read *)
(* latches alone: whatever models and cores the SAT solvers choose, its    *)
(* steps follow the frame discipline, no counterexample to induction is    *)
(* lost, and the verdict is right.                                         *)
(***************************************************************************)
EXTENDS IC3Properties, IC3FramesProofs, FiniteSetTheorems, SequenceTheorems

-----------------------------------------------------------------------------
(* The inductive invariant.                                                *)

ActivationRecord ==
  [level : Nat, cube : SUBSET Lit, kept : SUBSET Lit, attempts : Nat, depth : Nat,
   drop : SUBSET Lit, down : SUBSET Lit, ctgs : Nat, joins : Nat,
   cubeState : Nat, ctg : Nat, j : Nat]

\* What has been set up by the time the control gets to a place.
Control ==
  /\ pc = "done" <=> verdict # "none"
  /\ verdict = "unsafe" => ~Safe
  /\ pc = "aborted" => Initial = {}
  /\ pc \in {"step0", "step1"} => Frames = {}
  /\ pc \in {"step1", "extend"} => \A s \in Initial : ~Erroneous(s)
  /\ pc = "extend" => BaseCases /\ ~Extended
  /\ pc \in {"strengthen", "handle", "mic", "down", "propagate"} =>
       Extended /\ earliest \in 1..(k + 1)
  /\ pc = "propagate" => level \in 1..k /\ todo \subseteq borderCubes[level] /\ NoErrorAfter(k)

\* The queue, the pool and the stack are empty when nothing uses them.
Idle ==
  /\ pc \in {"step0", "step1", "extend", "strengthen", "propagate"} => states = NoStates /\ obls = {}
  /\ pc \in {"step0", "step1", "extend", "strengthen", "handle", "propagate"} =>
       stack = <<>> /\ obl = NoObl /\ cexState = 0
  /\ pc \in {"mic", "down"} => Len(stack) > 0 /\ obl # NoObl /\ cexState = 0

\* The activations of mic(): all but the last one wait in ctgDown() for the
\* next one, which works one level below the one the CTG was pushed to.
Nesting ==
  pc \in {"mic", "down"} =>
    /\ \A x \in 1..Len(stack) : x < Len(stack) \/ pc = "down" =>
         /\ stack[x].attempts # 0
         /\ stack[x].drop \subseteq stack[x].cube /\ stack[x].down \subseteq stack[x].cube
    /\ \A x \in 1..(Len(stack) - 1) :
         stack[x].j \in 1..(k + 1) /\ stack[x + 1].level = stack[x].j - 1
    /\ stack[1].cube \subseteq states[obl.state].latches

\* The States that the x-th call of ctgDown() made for itself, and the
\* obligations that are queued or worked on.
Owned(x) == {stack[x].cubeState, stack[x].ctg}
Raised == obls \cup ({obl} \ {NoObl})

\* A call of ctgDown() shares its States with nobody.
Ownership ==
  /\ \A x \in 1..Len(stack) : IF x = Len(stack) THEN Owned(x) = {0} ELSE Owned(x) \subseteq DOMAIN states
  /\ \A x, y \in 1..(Len(stack) - 1) : x # y => Owned(x) \cap Owned(y) = {}
  /\ \A x \in 1..(Len(stack) - 1) : \A o \in Raised : o.state \notin Owned(x)
  /\ \A x \in 1..(Len(stack) - 1) : \A n \in DOMAIN states :
       states[n].successor \in Owned(x) => n \in Owned(x)

\* Every CTI is in one obligation or excluded at the frontier, also while one
\* obligation is off the queue.
Accounted ==
  /\ obl \notin obls
  /\ \A o, p \in Raised : o.state = p.state => o = p
  /\ pc \in {"handle", "mic", "down"} =>
       \A n \in DOMAIN states :
         \/ \E o \in Raised : o.state = n
         \/ \E x \in 1..(Len(stack) - 1) : n \in Owned(x)
         \/ \A s \in solvers[k + 1] : ~(states[n].latches \subseteq s)

\* Whoever starts in s can be led to an error.
Doomed(s) == \A S \in SUBSET State : s \in S /\ ClosedUnderStep(S) => \E t \in S : Erroneous(t)

\* Every obligation is about states that can be led to an error.
ObligationsAreDoomed ==
  \A o \in Raised :
    /\ states[o.state].inputs # {}
    /\ \A s \in State : Live(s) /\ states[o.state].latches \subseteq s => Doomed(s)

PoolInv ==
  /\ PoolTypes
  /\ states \in [DOMAIN states -> StateRecord] /\ IsFiniteSet(DOMAIN states)
  /\ NoDanglingState /\ Ownership

StackInv ==
  /\ StackTypes
  /\ stack \in Seq(ActivationRecord)
  /\ Nesting /\ GeneralizedCubesAreInductive

QueueInv == Accounted /\ ObligationsAreRelative /\ ObligationsAreDoomed

SearchInv ==
  FramesInv /\ ControlTypes /\ Control /\ Idle /\ PoolInv /\ StackInv /\ QueueInv

-----------------------------------------------------------------------------
(* Facts about numbers, the pool and the stack.                            *)

\* A set of numbers that is not empty has a least one.
LEMMA LeastNumber ==
  ASSUME NEW S \in SUBSET Nat, S # {}
  PROVE  \E m \in S : \A x \in S : m <= x
<1>1. \E m \in S : \A x \in S : <<x, m>> \notin OpToRel(<, Nat)
  BY NatLessThanWellFounded, WFMin
<1>2. PICK m \in S : \A x \in S : ~(x < m)
  BY <1>1 DEF OpToRel
<1>3. \A x \in S : m <= x
  BY <1>2
<1> QED BY <1>3

LEMMA MinOfTwo ==
  ASSUME NEW a \in Nat, NEW b \in Nat
  PROVE  Min({a, b}) = IF a <= b THEN a ELSE b
<1> DEFINE m == IF a <= b THEN a ELSE b
<1>1. m \in {a, b} /\ \A y \in {a, b} : m <= y
  OBVIOUS
<1>2. \A x \in {a, b} : (\A y \in {a, b} : x <= y) => x = m
  OBVIOUS
<1> QED BY <1>1, <1>2 DEF Min

\* newState() finds a number that is not in use.
LEMMA FreshStateFree ==
  ASSUME NEW pool, IsFiniteSet(DOMAIN pool)
  PROVE  FreshState(pool) \in Nat \ {0} /\ FreshState(pool) \notin DOMAIN pool
<1> DEFINE size == Cardinality(DOMAIN pool)
           S == {n \in 1..(size + 1) : n \notin DOMAIN pool}
<1>1. size \in Nat
  BY FS_CardinalityType
<1>2. S # {}
  <2> SUFFICES ASSUME 1..(size + 1) \subseteq DOMAIN pool PROVE FALSE
    OBVIOUS
  <2>1. Cardinality(1..(size + 1)) = size + 1
    BY <1>1, FS_Interval
  <2>2. Cardinality(1..(size + 1)) <= size
    BY FS_Subset
  <2> QED BY <1>1, <2>1, <2>2
<1>3. S \in SUBSET Nat
  OBVIOUS
<1>4. PICK n \in S : \A x \in S : n <= x
  <2> HIDE DEF S
  <2> QED BY <1>2, <1>3, LeastNumber
<1>5. n \in 1..(size + 1) /\ n \notin DOMAIN pool /\ \A m \in 1..(n - 1) : m \in DOMAIN pool
  BY <1>1, <1>4
<1>6. FreshState(pool) \in 1..(size + 1) /\ FreshState(pool) \notin DOMAIN pool
  BY <1>5 DEF FreshState
<1> QED BY <1>1, <1>6

\* What the pool is once newState() has been called.
LEMMA NewStateAdded ==
  ASSUME NEW pool, NEW st, IsFiniteSet(DOMAIN pool)
  PROVE  /\ DOMAIN NewState(pool, st) = DOMAIN pool \cup {FreshState(pool)}
         /\ IsFiniteSet(DOMAIN NewState(pool, st))
         /\ NewState(pool, st)[FreshState(pool)] = st
         /\ \A n \in DOMAIN pool : NewState(pool, st)[n] = pool[n]
         /\ \A S : (\A n \in DOMAIN pool : pool[n] \in S) /\ st \in S =>
              NewState(pool, st) \in [DOMAIN NewState(pool, st) -> S]
<1>1. FreshState(pool) \notin DOMAIN pool
  BY FreshStateFree
<1>2. DOMAIN NewState(pool, st) = DOMAIN pool \cup {FreshState(pool)}
  BY DEF NewState
<1>3. IsFiniteSet(DOMAIN NewState(pool, st))
  BY <1>2, FS_AddElement
<1>4. NewState(pool, st)[FreshState(pool)] = st
  BY <1>1 DEF NewState
<1>5. \A n \in DOMAIN pool : NewState(pool, st)[n] = pool[n]
  BY DEF NewState
<1>6. ASSUME NEW S, \A n \in DOMAIN pool : pool[n] \in S, st \in S
      PROVE  NewState(pool, st) \in [DOMAIN NewState(pool, st) -> S]
  BY <1>6 DEF NewState
<1> QED BY <1>2, <1>3, <1>4, <1>5, <1>6

\* What is left after delState().
LEMMA StatesDeleted ==
  ASSUME NEW pool, NEW ns, IsFiniteSet(DOMAIN pool)
  PROVE  /\ DOMAIN DelStates(pool, ns) = DOMAIN pool \ ns
         /\ IsFiniteSet(DOMAIN DelStates(pool, ns))
         /\ \A n \in DOMAIN pool \ ns : DelStates(pool, ns)[n] = pool[n]
         /\ \A S : (\A n \in DOMAIN pool : pool[n] \in S) =>
              DelStates(pool, ns) \in [DOMAIN DelStates(pool, ns) -> S]
<1>1. DOMAIN DelStates(pool, ns) = DOMAIN pool \ ns
  BY DEF DelStates
<1>2. IsFiniteSet(DOMAIN DelStates(pool, ns))
  BY <1>1, FS_Subset
<1> QED BY <1>1, <1>2 DEF DelStates

LEMMA TopReplaced ==
  ASSUME NEW a \in ActivationRecord, stack \in Seq(ActivationRecord), Len(stack) > 0
  PROVE  /\ ReplaceTop(a) \in Seq(ActivationRecord)
         /\ Len(ReplaceTop(a)) = Len(stack)
         /\ ReplaceTop(a)[Len(stack)] = a
         /\ \A x \in 1..(Len(stack) - 1) : ReplaceTop(a)[x] = stack[x]
<1>1. Len(stack) \in 1..Len(stack) /\ \A x \in 1..(Len(stack) - 1) : x \in 1..Len(stack) /\ x # Len(stack)
  OBVIOUS
<1> QED BY <1>1, ExceptSeq DEF ReplaceTop

-----------------------------------------------------------------------------
(* Facts about queries.                                                    *)

\* A query without a model is the induction that the discipline asks for.
LEMMA NoCTIExcludes ==
  ASSUME NEW fi, NEW c, NEW d
  PROVE  CTIs(fi, c, d) = {} <=> Excludes(fi, c, d)
<1>1. ASSUME CTIs(fi, c, d) = {}, NEW s \in solvers[fi], NEW i \in Inputs, NEW j \in Inputs,
             ~(c \subseteq s), Trans(s, i, j), d \subseteq Nxt(s, i)
      PROVE  FALSE
  <2>1. <<s, i, j>> \in CTIs(fi, c, d)
    BY <1>1 DEF CTIs
  <2> QED BY <1>1, <2>1
<1>2. ASSUME Excludes(fi, c, d), NEW m \in CTIs(fi, c, d) PROVE FALSE
  BY <1>2 DEF CTIs, Excludes
<1> QED BY <1>1, <1>2 DEF Excludes

LEMMA NoErrorCTIExcludes ==
  ASSUME NEW fi
  PROVE  ErrorCTIs(fi) = {} <=> NoErrorAfter(fi)
<1>1. ASSUME ErrorCTIs(fi) = {}, NEW s \in solvers[fi], NEW i \in Inputs, NEW j \in Inputs,
             Trans(s, i, j), Err(Nxt(s, i), j)
      PROVE  FALSE
  <2>1. <<s, i, j>> \in ErrorCTIs(fi)
    BY <1>1 DEF ErrorCTIs
  <2> QED BY <1>1, <2>1
<1>2. ASSUME NoErrorAfter(fi), NEW m \in ErrorCTIs(fi) PROVE FALSE
  BY <1>2 DEF ErrorCTIs, NoErrorAfter
<1> QED BY <1>1, <1>2 DEF NoErrorAfter

\* A cube that passes initiation() holds no initial state.
LEMMA InitiationExcludes ==
  ASSUME NEW c, Initiation(c)
  PROVE  ExcludesInitial(c)
<1>1. CASE Constrained
  BY <1>1 DEF Initiation, IsInitial, ExcludesInitial
<1>2. CASE ~Constrained
  <2>1. PICK p \in c : Neg(p) \in InitLits
    BY <1>2 DEF Initiation, IsInitial
  <2> SUFFICES ASSUME NEW s \in Initial, c \subseteq s PROVE FALSE
    BY DEF ExcludesInitial
  <2>2. s \in State /\ InitLits \subseteq s
    BY DEF Initial, InitStates
  <2>3. p \in s /\ Neg(p) \in s /\ p \in Lit
    BY <2>1, <2>2 DEF State
  <2>4. PICK l \in Latch, b \in BOOLEAN : p = <<l, b>>
    BY <2>3 DEF Lit
  <2>5. <<l, TRUE>> \in s /\ <<l, FALSE>> \in s
    BY <2>3, <2>4 DEF Neg
  <2> QED BY <2>2, <2>5 DEF State
<1> QED BY <1>1, <1>2, CircuitAssumption

\* The core that consecution() hands back is part of the cube, inductive
\* relative to the frame, and free of initial states if the cube is.
LEMMA CoreOfCube ==
  ASSUME NEW fi, NEW c, NEW d \in Cores(fi, c)
  PROVE  /\ d \subseteq c
         /\ CTIs(fi, c, d) = {}
         /\ Inductive(fi, d)
         /\ ExcludesInitial(c) => ExcludesInitial(d)
<1>1. PICK e \in SUBSET c : CTIs(fi, c, e) = {} /\ d = IF Initiation(e) THEN e ELSE c
  BY DEF Cores
<1>2. e \subseteq c /\ d \subseteq c /\ e \subseteq d
  BY <1>1
<1>3. CTIs(fi, c, d) = {}
  BY <1>1, <1>2 DEF CTIs
<1>4. CTIs(fi, d, d) = {}
  BY <1>2, <1>3 DEF CTIs
<1>5. ExcludesInitial(c) => ExcludesInitial(d)
  BY <1>1, InitiationExcludes
<1> QED BY <1>2, <1>3, <1>4, <1>5 DEF Inductive

\* The level a cube is pushed to is the first above one at which it is not
\* inductive.
LEMMA PushedLevel ==
  ASSUME k \in Nat, NEW n \in 1..(k + 1), NEW c
  PROVE  /\ Pushed(n, c) \in n..(k + 1)
         /\ Inductive(n - 1, c) => Inductive(Pushed(n, c) - 1, c)
<1> DEFINE S == {m \in n..(k + 1) : m = k + 1 \/ ~Inductive(m, c)}
<1>1. k + 1 \in S /\ S \in SUBSET Nat
  OBVIOUS
<1>2. PICK m \in S : \A x \in S : m <= x
  <2> HIDE DEF S
  <2> QED BY <1>1, LeastNumber
<1>3. m \in n..(k + 1) /\ (m = k + 1 \/ ~Inductive(m, c)) /\ \A x \in n..(m - 1) : Inductive(x, c)
  BY <1>2
<1>4. /\ Pushed(n, c) \in n..(k + 1)
      /\ \A x \in n..(Pushed(n, c) - 1) : Inductive(x, c)
  BY <1>3 DEF Pushed
<1>5. Pushed(n, c) - 1 \in n..(Pushed(n, c) - 1) \/ Pushed(n, c) - 1 = n - 1
  BY <1>4
<1> QED BY <1>4, <1>5

-----------------------------------------------------------------------------
(* Facts about lifting and about states that lead to errors.               *)

LEMMA FramesHoldStates ==
  ASSUME FramesTypeOK, NEW fi \in Frames
  PROVE  solvers[fi] \subseteq State
BY DEF FramesTypeOK

\* State st was made from model m: literals of its state that leave no way
\* around the target.
MadeFrom(st, pool, m, succ) ==
  /\ st.latches \subseteq m[1] /\ st.inputs = {m[2]}
  /\ \A u \in State : st.latches \subseteq u /\ LiftTrans(u, m[2]) =>
       Con(Nxt(u, m[2]), m[3]) /\ Hits(pool, succ, Nxt(u, m[2]), m[3])

LEMMA LiftedState ==
  ASSUME NEW pool, NEW succ \in Nat, NEW ms, ms \subseteq State \X Inputs \X Inputs,
         NEW st \in StatesOf(pool, ms, succ)
  PROVE  /\ st \in StateRecord
         /\ st.successor = succ
         /\ \E m \in ms : MadeFrom(st, pool, m, succ)
<1>1. PICK m \in ms : \E d \in Lifted(pool, m, succ) :
        st = [latches |-> d, inputs |-> {m[2]}, successor |-> succ]
  BY DEF StatesOf
<1>2. PICK d \in Lifted(pool, m, succ) :
        st = [latches |-> d, inputs |-> {m[2]}, successor |-> succ]
  BY <1>1
<1>3. m[1] \in State /\ m[2] \in Inputs /\ m[3] \in Inputs
  OBVIOUS
<1>4. d \subseteq m[1] /\ d \subseteq Lit
  BY <1>2, <1>3 DEF Lifted, State
<1>5. st \in StateRecord
  BY <1>2, <1>3, <1>4 DEF StateRecord
<1> QED BY <1>2, <1>4, <1>5 DEF Lifted, MadeFrom

LEMMA ErroneousIsDoomed ==
  ASSUME NEW s \in State, Erroneous(s)
  PROVE  Doomed(s)
BY DEF Doomed

LEMMA StepToDoomed ==
  ASSUME NEW s \in State, NEW t \in State, Step(s, t), Doomed(t)
  PROVE  Doomed(s)
BY DEF Doomed, ClosedUnderStep

\* An initial state that can be led to an error makes the circuit unsafe.
LEMMA DoomedInitial ==
  ASSUME NEW s \in Initial, Doomed(s)
  PROVE  ~Safe
<1>1. Reachable \in SUBSET State /\ s \in Reachable
  BY InitialAreStates DEF Reachable
<1>2. ClosedUnderStep(Reachable)
  BY DEF Reachable, ClosedUnderStep
<1> QED BY <1>1, <1>2 DEF Doomed, Safe

\* A lifted cube leads to errors if its target does.  Constraints that read
\* an input would let a state slip out: it may be live under another input.
LEMMA LiftedIsDoomed ==
  ASSUME ConstraintsReadLatches, NEW d, NEW i \in Inputs, NEW j \in Inputs,
         \A u \in State : d \subseteq u /\ LiftTrans(u, i) =>
           Con(Nxt(u, i), j) /\ (Err(Nxt(u, i), j) \/ Doomed(Nxt(u, i)))
  PROVE  \A u \in State : Live(u) /\ d \subseteq u => Doomed(u)
<1> SUFFICES ASSUME NEW u \in State, Live(u), d \subseteq u PROVE Doomed(u)
  OBVIOUS
<1>1. Con(u, i)
  <2>1. PICK x \in Inputs : Con(u, x)
    BY DEF Live
  <2> QED BY <2>1 DEF ConstraintsReadLatches
<1>2. CASE Err(u, i)
  BY <1>1, <1>2, ErroneousIsDoomed DEF Erroneous
<1>3. CASE ~Err(u, i)
  <2> DEFINE t == Nxt(u, i)
  <2>1. t \in State /\ Con(t, j) /\ (Err(t, j) \/ Doomed(t))
    BY <1>1, <1>3, NextStateType DEF LiftTrans
  <2>2. Step(u, t)
    BY <1>1, <2>1 DEF Step, Live
  <2>3. Doomed(t)
    BY <2>1, ErroneousIsDoomed DEF Erroneous
  <2> QED BY <2>1, <2>2, <2>3, StepToDoomed
<1> QED BY <1>2, <1>3

-----------------------------------------------------------------------------
(* The obligations that handleObligations() raises.                        *)

LEMMA CTIsAreTriples ==
  ASSUME FramesTypeOK, NEW fi \in Frames, NEW c, NEW d
  PROVE  /\ CTIs(fi, c, d) \subseteq State \X Inputs \X Inputs
         /\ ErrorCTIs(fi) \subseteq State \X Inputs \X Inputs
<1>1. solvers[fi] \subseteq State
  BY FramesHoldStates
<1> QED BY <1>1 DEF CTIs, ErrorCTIs

\* The main obligation, at the level below the frontier.
LEMMA MainObligation ==
  ASSUME ConstraintsReadLatches, FramesInv, Extended,
         NEW pool, NEW st \in StatesOf(pool, ErrorCTIs(k), 0)
  PROVE  /\ st \in StateRecord /\ st.successor = 0 /\ st.inputs # {}
         /\ \A s \in solvers[k - 1], i \in st.inputs : st.latches \subseteq s => ~LiftTrans(s, i)
         /\ \A s \in State : Live(s) /\ st.latches \subseteq s => Doomed(s)
<1>1. k \in Nat \ {0} /\ k \in Frames /\ k - 1 \in Frames /\ k - 1 < k /\ FramesTypeOK
  BY DEF FramesInv, FramesTypeOK, Extended
<1>2. ErrorCTIs(k) \subseteq State \X Inputs \X Inputs /\ 0 \in Nat
  BY <1>1, CTIsAreTriples
<1>3. st \in StateRecord /\ st.successor = 0
  BY <1>2, LiftedState
<1>4. PICK m \in ErrorCTIs(k) : MadeFrom(st, pool, m, 0)
  BY <1>2, LiftedState
<1>5. m[2] \in Inputs /\ m[3] \in Inputs
  BY <1>2
<1>6. \A u \in State : st.latches \subseteq u /\ LiftTrans(u, m[2]) =>
        Con(Nxt(u, m[2]), m[3]) /\ Err(Nxt(u, m[2]), m[3])
  BY <1>4 DEF MadeFrom, Hits
<1>7. \A s \in State : Live(s) /\ st.latches \subseteq s => Doomed(s)
  BY <1>5, <1>6, LiftedIsDoomed
<1>8. ASSUME NEW s \in solvers[k - 1], st.latches \subseteq s, LiftTrans(s, m[2]) PROVE FALSE
  <2>1. s \in State
    BY <1>1, FramesHoldStates
  <2>2. Con(Nxt(s, m[2]), m[3]) /\ Err(Nxt(s, m[2]), m[3])
    BY <1>6, <1>8, <2>1
  <2>3. Trans(s, m[2], m[3])
    BY <1>8, <2>2 DEF LiftTrans, Trans
  <2>4. NoErrorAfter(k - 1)
    BY <1>1 DEF FramesInv, FrameInvariants, FramesExcludeErrors
  <2> QED BY <1>5, <2>2, <2>3, <2>4 DEF NoErrorAfter
<1> QED BY <1>3, <1>4, <1>7, <1>8 DEF MadeFrom

\* A predecessor of an obligation's cube, one level below.  If a state of it
\* in the frame below had a step, this would lead to the obligation's error.
LEMMA PredecessorObligation ==
  ASSUME ConstraintsReadLatches, FramesInv, Extended, ObligationsAreRelative, ObligationsAreDoomed,
         NEW o \in obls, o.state \in Nat \ {0}, o.level \in 0..k,
         states[o.state].inputs \subseteq Inputs,
         NEW c, c = states[o.state].latches,
         NEW st \in StatesOf(states, CTIs(o.level, c, c), o.state)
  PROVE  /\ st \in StateRecord /\ st.successor = o.state /\ st.inputs # {}
         /\ o.level # 0 => \A s \in solvers[o.level - 1], i \in st.inputs :
                             st.latches \subseteq s => ~LiftTrans(s, i)
         /\ \A s \in State : Live(s) /\ st.latches \subseteq s => Doomed(s)
         /\ o.level = 0 => ~Safe
<1>1. k \in Nat \ {0} /\ o.level \in Frames /\ FramesTypeOK
  BY DEF FramesInv, FramesTypeOK, Extended
<1>2. CTIs(o.level, c, c) \subseteq State \X Inputs \X Inputs /\ o.state \in Nat
  BY <1>1, CTIsAreTriples
<1>3. st \in StateRecord /\ st.successor = o.state
  BY <1>2, LiftedState
<1>4. PICK m \in CTIs(o.level, c, c) : MadeFrom(st, states, m, o.state)
  BY <1>2, LiftedState
<1>5. m[1] \in State /\ m[2] \in Inputs /\ m[3] \in Inputs
  BY <1>2
<1>6. \A u \in State : st.latches \subseteq u /\ LiftTrans(u, m[2]) =>
        Con(Nxt(u, m[2]), m[3]) /\ c \subseteq Nxt(u, m[2])
  BY <1>4 DEF MadeFrom, Hits
<1>7. o \in Raised
  BY DEF Raised
<1>8. \A t \in State : Live(t) /\ c \subseteq t => Doomed(t)
  BY <1>7 DEF ObligationsAreDoomed
<1>9. \A s \in State : Live(s) /\ st.latches \subseteq s => Doomed(s)
  <2>1. \A u \in State : st.latches \subseteq u /\ LiftTrans(u, m[2]) =>
          Con(Nxt(u, m[2]), m[3]) /\ (Err(Nxt(u, m[2]), m[3]) \/ Doomed(Nxt(u, m[2])))
    BY <1>5, <1>6, <1>8, NextStateType DEF Live
  <2> QED BY <1>5, <2>1, LiftedIsDoomed
<1>10. ASSUME o.level # 0, NEW s \in solvers[o.level - 1], st.latches \subseteq s, LiftTrans(s, m[2])
       PROVE  FALSE
  <2> DEFINE t == Nxt(s, m[2])
  <2>1. o.level - 1 \in Frames /\ (o.level - 1) + 1 = o.level /\ o.level - 1 < k
    BY <1>1, <1>10 DEF FramesTypeOK, Extended
  <2>2. s \in State
    BY <1>1, <2>1, FramesHoldStates
  <2>3. Con(t, m[3]) /\ c \subseteq t /\ t \in State
    BY <1>5, <1>6, <1>10, <2>2, NextStateType
  <2>4. t \in solvers[o.level]
    <3>1. Trans(s, m[2], m[3])
      BY <1>10, <2>3 DEF LiftTrans, Trans
    <3>2. FramesAreConsecutive
      BY DEF FramesInv, FrameInvariants
    <3> QED BY <1>1, <1>5, <2>1, <3>1, <3>2 DEF FramesAreConsecutive
  <2>5. PICK x \in states[o.state].inputs : TRUE
    BY <1>7 DEF ObligationsAreDoomed
  <2>6. ~LiftTrans(t, x)
    BY <2>3, <2>4 DEF ObligationsAreRelative
  <2>7. x \in Inputs /\ Con(t, x) /\ Err(t, x)
    BY <1>5, <2>3, <2>6 DEF ConstraintsReadLatches, LiftTrans
  <2>8. Trans(s, m[2], x)
    BY <1>10, <2>7 DEF LiftTrans, Trans
  <2>9. NoErrorAfter(o.level - 1)
    BY <2>1 DEF FramesInv, FrameInvariants, FramesExcludeErrors
  <2> QED BY <1>5, <1>10, <2>7, <2>8, <2>9 DEF NoErrorAfter
<1>11. ASSUME o.level = 0 PROVE ~Safe
  <2>1. m[1] \in solvers[0] /\ Trans(m[1], m[2], m[3]) /\ c \subseteq Nxt(m[1], m[2])
    BY <1>11 DEF CTIs
  <2>2. m[1] \in Initial
    BY <1>1, <1>5, <1>11, <2>1, SteppingInitial DEF FramesInv, FrameInvariants, FramesIncludeInitial
  <2>3. Nxt(m[1], m[2]) \in State /\ Live(Nxt(m[1], m[2])) /\ Step(m[1], Nxt(m[1], m[2]))
    BY <1>5, <2>1, NextStateType DEF Trans, Step, Live
  <2>4. Doomed(m[1])
    BY <1>5, <1>8, <2>1, <2>3, StepToDoomed
  <2> QED BY <2>2, <2>4, DoomedInitial
<1> QED BY <1>3, <1>4, <1>9, <1>10, <1>11 DEF MadeFrom

\* The cube of an obligation holds no initial state, which would be an error.
LEMMA ObligationExcludesInitial ==
  ASSUME ConstraintsReadLatches, FramesInv, Extended, ObligationsAreRelative, ObligationsAreDoomed,
         NEW o \in obls, o.level \in 0..k, states[o.state].inputs \subseteq Inputs
  PROVE  ExcludesInitial(states[o.state].latches)
<1> SUFFICES ASSUME NEW s \in Initial, states[o.state].latches \subseteq s PROVE FALSE
  BY DEF ExcludesInitial
<1>1. PICK x \in states[o.state].inputs : TRUE
  BY DEF ObligationsAreDoomed, Raised
<1>2. o.level \in Frames
  BY DEF FramesInv, FramesTypeOK, Extended
<1>3. ~LiftTrans(s, x)
  BY <1>2 DEF ObligationsAreRelative, FramesInv, FrameInvariants, FramesIncludeInitial
<1>4. s \in State /\ x \in Inputs /\ Con(s, x)
  <2>1. s \in State /\ Live(s)
    BY InitialAreStates DEF Initial
  <2> QED BY <2>1 DEF Live, ConstraintsReadLatches
<1>5. Erroneous(s)
  BY <1>3, <1>4 DEF LiftTrans, Erroneous
<1>6. BaseCases
  BY <1>2 DEF FramesInv, BaseCasesPassed
<1> QED BY <1>5, <1>6 DEF BaseCases

-----------------------------------------------------------------------------
(* When nothing is generalized and nothing is queued.                      *)

LEMMA QuietInit ==
  ASSUME stack = <<>>, obls = {}, obl = NoObl, states = NoStates, cexState = 0,
         pc \notin {"mic", "down"}
  PROVE  PoolInv /\ StackInv /\ QueueInv
<1>1. DOMAIN states = {} /\ states \in [DOMAIN states -> StateRecord]
  BY DEF NoStates
<1>2. Len(stack) = 0 /\ 1..Len(stack) = {} /\ 1..(Len(stack) - 1) = {}
  OBVIOUS
<1>3. PoolInv
  BY <1>1, <1>2, FS_EmptySet DEF PoolInv, PoolTypes, NoDanglingState, Ownership
<1>4. StackInv
  BY <1>2, LimitsAssumption DEF StackInv, StackTypes, Nesting, GeneralizedCubesAreInductive
<1>5. QueueInv
  BY <1>1 DEF QueueInv, Accounted, ObligationsAreRelative, ObligationsAreDoomed, Raised
<1> QED BY <1>3, <1>4, <1>5

\* The same of the next state.
LEMMA QuietNext ==
  ASSUME stack' = <<>>, obls' = {}, obl' = NoObl, states' = NoStates, cexState' = 0,
         pc' \notin {"mic", "down"}
  PROVE  PoolInv' /\ StackInv' /\ QueueInv'
<1>1. DOMAIN states' = {} /\ states' \in [DOMAIN states' -> StateRecord]
  BY DEF NoStates
<1>2. Len(stack') = 0 /\ 1..Len(stack') = {} /\ 1..(Len(stack') - 1) = {}
  OBVIOUS
<1>3. PoolInv'
  BY <1>1, <1>2, FS_EmptySet DEF PoolInv, PoolTypes, NoDanglingState, Ownership
<1>4. StackInv'
  BY <1>2, LimitsAssumption DEF StackInv, StackTypes, Nesting, GeneralizedCubesAreInductive
<1>5. QueueInv'
  BY <1>1 DEF QueueInv, Accounted, ObligationsAreRelative, ObligationsAreDoomed, Raised
<1> QED BY <1>3, <1>4, <1>5

\* Outside handleObligations() everything is quiet.
LEMMA QuietPhases ==
  ASSUME SearchInv, pc \in {"step0", "step1", "extend", "strengthen", "propagate"}
  PROVE  stack = <<>> /\ obls = {} /\ obl = NoObl /\ states = NoStates /\ cexState = 0
BY DEF SearchInv, Idle

LEMMA InitSearch == Init => SearchInv
<1> SUFFICES ASSUME Init PROVE SearchInv
  OBVIOUS
<1>1. FramesInv
  BY InitFrames DEF Init, FramesInit
<1>2. PoolInv /\ StackInv /\ QueueInv
  BY QuietInit DEF Init
<1>3. ControlTypes
  <2>1. k = 1 /\ earliest = 0 /\ level = 0 /\ todo = {} /\ pc = "step0" /\ trivial = FALSE
    BY DEF Init
  <2>2. earliest \in 0..(k + 1) /\ level \in 0..k
    BY <2>1
  <2> QED BY <2>1, <2>2 DEF ControlTypes
<1>4. Control
  BY DEF Init, Control, Frames
<1>5. Idle
  BY DEF Init, Idle
<1> QED BY <1>1, <1>2, <1>3, <1>4, <1>5 DEF SearchInv

-----------------------------------------------------------------------------
(* Frames that shrink, and addCube().                                      *)

LEMMA StillExcludes ==
  ASSUME NEW fi, solvers'[fi] \subseteq solvers[fi], NEW c, NEW d, CTIs(fi, c, d) = {}
  PROVE  CTIs(fi, c, d)' = {}
BY DEF CTIs

LEMMA StillInductive ==
  ASSUME NEW fi, solvers'[fi] \subseteq solvers[fi], NEW c, Inductive(fi, c)
  PROVE  Inductive(fi, c)'
BY DEF Inductive, CTIs

\* The cubes that a level records are excluded up to that level.
LEMMA RecordedIsExcluded ==
  ASSUME FramesInv, Extended, NEW n \in 1..(k + 1), NEW c \in borderCubes[n],
         NEW i \in 1..n, NEW s \in solvers[i]
  PROVE  ~(c \subseteq s)
<1>1. k \in Nat /\ i \in Frames \ {0} /\ n \in Frames /\ n \in i..(k + 1)
  BY DEF FramesInv, FramesTypeOK, Extended
<1> QED BY <1>1 DEF FramesInv, FrameInvariants, BordersRepresentFrames

\* addCube() of a cube that holds no initial state and is inductive relative
\* to the level below.
LEMMA CubeAdded ==
  ASSUME FramesInv, verdict = "none", Extended, earliest \in 1..(k + 1),
         NEW n \in 1..(k + 1), NEW c \in SUBSET Lit, ExcludesInitial(c), Inductive(n - 1, c),
         NEW next, AddCube(n, c, TRUE, borderCubes, next), UNCHANGED <<k, verdict>>
  PROVE  /\ [FramesNext]_frameVars
         /\ Frames' = Frames /\ earliest' \in 1..(k + 1)
         /\ pc' = next \/ (pc' = "aborted" /\ c = {})
         /\ \A i \in Frames : solvers'[i] \subseteq solvers[i]
         /\ \A i \in 1..n : \A s \in solvers'[i] : ~(c \subseteq s)
<1>1. k \in Nat
  BY DEF FramesInv, FramesTypeOK
<1>2. CASE c \in borderCubes[n]
  <2>1. pc' = next /\ UNCHANGED frameVars /\ earliest' = earliest /\ Frames' = Frames
    BY <1>2 DEF AddCube, frameVars, Frames
  <2> QED BY <1>2, <2>1, RecordedIsExcluded DEF frameVars
<1>3. CASE c \notin borderCubes[n]
  <2>1. /\ RecordCube(n, c, TRUE, borderCubes)
        /\ pc' = next \/ (pc' = "aborted" /\ c = {})
    BY <1>3 DEF AddCube
  <2>2. solvers' = [i \in Frames |-> IF i \in 1..n THEN Minus(solvers[i], c) ELSE solvers[i]]
    BY <2>1 DEF RecordCube, Targets, Minus
  <2>3. Block(n, c)
    <3>1. Excludes(n - 1, c, c)
      BY NoCTIExcludes DEF Inductive
    <3> QED BY <2>1, <2>2, <3>1 DEF Block, RecordCube
  <2>4. earliest' \in 1..(k + 1)
    BY <1>1, <2>1, MinOfTwo DEF RecordCube
  <2>5. Frames' = Frames
    BY <2>2 DEF Frames
  <2>6. \A i \in 1..n : i \in Frames
    BY <1>1 DEF Extended
  <2> QED BY <2>1, <2>2, <2>3, <2>4, <2>5, <2>6 DEF FramesNext, Minus
<1> QED BY <1>2, <1>3

-----------------------------------------------------------------------------
(* The steps outside handleObligations().                                  *)

\* Steps that leave queue, pool and stack alone.
LEMMA QuietStep ==
  ASSUME SearchInv, pc \in {"step0", "step1", "extend", "strengthen", "propagate"},
         pc' \notin {"mic", "down"}, UNCHANGED <<states, obls, obl, stack, cexState>>,
         [FramesNext]_frameVars, ControlTypes', Control'
  PROVE  SearchInv' /\ [FramesNext]_frameVars
<1>1. FramesInv'
  BY NextFrames DEF SearchInv
<1>2. stack' = <<>> /\ obls' = {} /\ obl' = NoObl /\ states' = NoStates /\ cexState' = 0
  BY QuietPhases
<1>3. PoolInv' /\ StackInv' /\ QueueInv'
  BY <1>2, QuietNext
<1>4. Idle'
  BY <1>2 DEF Idle
<1> QED BY <1>1, <1>3, <1>4 DEF SearchInv

LEMMA Step0Search == ASSUME SearchInv, Step0Reachability
  PROVE  SearchInv' /\ [FramesNext]_frameVars
<1>1. verdict = "none" /\ Frames = {} /\ pc = "step0"
  BY DEF SearchInv, Control, Step0Reachability
<1>2. ControlTypes'
  BY DEF SearchInv, ControlTypes, Step0Reachability, Finish, scanVars
<1>3. CASE \E s \in InitStates, i \in Inputs : Con(s, i) /\ Err(s, i)
  <2>1. PICK s \in InitStates : \E i \in Inputs : Con(s, i) /\ Err(s, i)
    BY <1>3
  <2>2. s \in Initial /\ s \in State /\ Erroneous(s)
    BY <2>1, InitialAreStates DEF Initial, Live, Erroneous
  <2>3. ~Safe
    BY <2>2, ErroneousIsDoomed, DoomedInitial
  <2>4. pc' = "done" /\ Refute
    BY <1>1, <1>3, <2>3 DEF Step0Reachability, Finish, Refute
  <2>5. Control'
    BY <2>3, <2>4 DEF Control, Refute
  <2> QED BY <1>1, <1>2, <2>4, <2>5, QuietStep DEF FramesNext, Step0Reachability, poolVars
<1>4. CASE ~\E s \in InitStates, i \in Inputs : Con(s, i) /\ Err(s, i)
  <2>1. pc' = "step1" /\ UNCHANGED frameVars
    BY <1>4 DEF Step0Reachability, frameVars
  <2>2. \A s \in Initial : ~Erroneous(s)
    BY <1>4 DEF Initial, Erroneous
  <2>3. Control'
    BY <1>1, <2>1, <2>2 DEF Control, frameVars, Frames
  <2> QED BY <1>1, <1>2, <2>1, <2>3, QuietStep DEF Step0Reachability, poolVars
<1> QED BY <1>3, <1>4

LEMMA Step1Search == ASSUME SearchInv, Step1Reachability
  PROVE  SearchInv' /\ [FramesNext]_frameVars
<1>1. verdict = "none" /\ Frames = {} /\ pc = "step1" /\ \A s \in Initial : ~Erroneous(s)
  BY DEF SearchInv, Control, Step1Reachability
<1>2. ControlTypes'
  BY DEF SearchInv, ControlTypes, Step1Reachability, Finish, scanVars
<1> DEFINE Failing == \E s \in InitStates, i, j \in Inputs : Trans(s, i, j) /\ Err(Nxt(s, i), j)
<1>3. CASE Failing
  <2>1. PICK s \in InitStates, i \in Inputs, j \in Inputs : Trans(s, i, j) /\ Err(Nxt(s, i), j)
    BY <1>3
  <2>2. s \in Initial /\ s \in State
    BY <2>1, SteppingInitial, InitialAreStates
  <2>3. Nxt(s, i) \in State /\ Erroneous(Nxt(s, i)) /\ Step(s, Nxt(s, i))
    BY <2>1, <2>2, NextStateType DEF Trans, Erroneous, Step, Live
  <2>4. Doomed(s)
    BY <2>2, <2>3, ErroneousIsDoomed, StepToDoomed
  <2>5. ~Safe
    BY <2>2, <2>4, DoomedInitial
  <2>6. pc' = "done" /\ Refute
    BY <1>1, <1>3, <2>5 DEF Step1Reachability, Finish, Refute
  <2>7. Control'
    BY <2>5, <2>6 DEF Control, Refute
  <2> QED BY <1>1, <1>2, <2>6, <2>7, QuietStep DEF FramesNext, Step1Reachability, poolVars
<1>4. CASE ~Failing
  <2>1. pc' = "extend" /\ UNCHANGED frameVars
    BY <1>4 DEF Step1Reachability, frameVars
  <2>2. BaseCases
    BY <1>1, <1>4 DEF BaseCases
  <2>3. ~Extended
    BY <1>1 DEF SearchInv, FramesInv, FramesTypeOK, Extended
  <2>4. Control'
    BY <1>1, <2>1, <2>2, <2>3 DEF Control, frameVars, Frames, Extended, BaseCases
  <2> QED BY <1>1, <1>2, <2>1, <2>4, QuietStep DEF Step1Reachability, poolVars
<1> QED BY <1>3, <1>4

LEMMA ExtendSearch == ASSUME SearchInv, Extend
  PROVE  SearchInv' /\ [FramesNext]_frameVars
<1>1. verdict = "none" /\ BaseCases /\ ~Extended /\ pc = "extend" /\ k \in Nat \ {0}
  BY DEF SearchInv, Control, Extend, FramesInv, FramesTypeOK
<1>2. AddFrame
  BY <1>1 DEF Extend, AddFrame, NewFrame
<1>3. pc' = "strengthen" /\ Frames' = 0..(k + 1) /\ earliest' = k + 1 /\ k' = k
      /\ level' = level /\ todo' = todo /\ trivial' = TRUE /\ verdict' = verdict
  BY DEF Extend, Frames, scanVars
<1>4. k + 1 \in 1..(k' + 1)
  BY <1>1, <1>3
<1>5. ControlTypes'
  BY <1>3, <1>4 DEF SearchInv, ControlTypes
<1>6. Control'
  BY <1>1, <1>3, <1>4 DEF Control, Extended
<1> QED BY <1>1, <1>2, <1>3, <1>5, <1>6, QuietStep DEF FramesNext, Extend, poolVars

LEMMA StrengthenedSearch == ASSUME SearchInv, Strengthened
  PROVE  SearchInv' /\ [FramesNext]_frameVars
<1>1. verdict = "none" /\ Extended /\ earliest \in 1..(k + 1) /\ k \in Nat \ {0} /\ pc = "strengthen"
  BY DEF SearchInv, Control, Strengthened, FramesInv, FramesTypeOK
<1>2. Cleanup(earliest) /\ k' = k /\ solvers' = solvers /\ verdict' = verdict
  BY <1>1 DEF Strengthened, Cleanup
<1>3. pc' = "propagate" /\ earliest' = earliest /\ trivial' = trivial /\ todo' = borderCubes'[level']
  BY DEF Strengthened
<1>4. level' \in 1..k'
  BY <1>1, <1>2 DEF Strengthened
<1>5. todo' \subseteq SUBSET Lit
  <2>1. FramesTypeOK'
    BY <1>1, <1>2, FramesTypeNext DEF FramesNext, SearchInv, FramesInv
  <2>2. level' \in Frames'
    BY <1>1, <1>2, <1>4 DEF Extended, Frames
  <2> QED BY <1>3, <2>1, <2>2 DEF FramesTypeOK
<1>6. ControlTypes'
  BY <1>2, <1>3, <1>4, <1>5 DEF SearchInv, ControlTypes
<1>7. NoErrorAfter(k)
  BY NoErrorCTIExcludes DEF Strengthened
<1>8. Control'
  BY <1>1, <1>2, <1>3, <1>4, <1>7 DEF SearchInv, Control, Extended, Frames, NoErrorAfter
<1> QED BY <1>1, <1>2, <1>3, <1>6, <1>8, QuietStep DEF FramesNext, Strengthened, poolVars

LEMMA KeepCubeSearch == ASSUME SearchInv, KeepCube
  PROVE  SearchInv' /\ [FramesNext]_frameVars
<1>1. UNCHANGED frameVars /\ pc' = pc /\ pc = "propagate" /\ todo' \subseteq todo
      /\ UNCHANGED <<k, borderCubes, solvers, verdict, earliest, trivial, level>>
  BY DEF KeepCube, frameVars
<1>2. ControlTypes'
  BY <1>1 DEF SearchInv, ControlTypes
<1>3. Control'
  BY <1>1 DEF SearchInv, Control, Extended, Frames, NoErrorAfter
<1> QED BY <1>1, <1>2, <1>3, QuietStep DEF KeepCube, poolVars

LEMMA LevelDoneSearch == ASSUME SearchInv, LevelDone
  PROVE  SearchInv' /\ [FramesNext]_frameVars
<1>1. /\ verdict = "none" /\ Extended /\ earliest \in 1..(k + 1) /\ pc = "propagate"
      /\ level \in 1..k /\ NoErrorAfter(k) /\ k \in Nat \ {0} /\ todo = {} /\ FramesTypeOK
  BY DEF SearchInv, Control, LevelDone, FramesInv, FramesTypeOK
<1>2. UNCHANGED <<borderCubes, solvers, earliest, trivial>> /\ Frames' = Frames /\ Frames = 0..(k + 1)
  BY <1>1 DEF LevelDone, Frames, Extended
<1>3. CASE borderCubes[level] = {}
  <2>1. pc' = "done" /\ verdict' = "safe" /\ UNCHANGED <<k, level, todo>>
    BY <1>3 DEF LevelDone, Finish
  <2>2. Prove
    BY <1>1, <1>2, <1>3, <2>1 DEF Prove
  <2>3. ControlTypes'
    BY <1>2, <2>1 DEF SearchInv, ControlTypes
  <2>4. Control'
    BY <2>1 DEF Control
  <2> QED BY <1>1, <2>1, <2>2, <2>3, <2>4, QuietStep DEF FramesNext, LevelDone, poolVars
<1>4. CASE borderCubes[level] # {} /\ level < k
  <2>1. UNCHANGED frameVars /\ UNCHANGED <<k, verdict>> /\ pc' = pc /\ level' = level + 1
        /\ todo' = borderCubes[level + 1]
    BY <1>2, <1>4 DEF LevelDone, frameVars
  <2>2. level + 1 \in 1..k /\ level + 1 \in Frames
    BY <1>1, <1>2, <1>4
  <2>3. borderCubes[level + 1] \subseteq SUBSET Lit
    BY <1>1, <2>2 DEF FramesTypeOK
  <2>4. ControlTypes'
    BY <1>2, <2>1, <2>2, <2>3 DEF SearchInv, ControlTypes
  <2>5. Control'
    BY <1>1, <1>2, <2>1, <2>2 DEF Control, Extended, NoErrorAfter
  <2> QED BY <1>1, <2>1, <2>4, <2>5, QuietStep DEF LevelDone, poolVars
<1>5. CASE borderCubes[level] # {} /\ ~(level < k)
  <2>1. k' = k + 1 /\ pc' = "extend" /\ level' = 0 /\ todo' = todo /\ verdict' = verdict
    BY <1>5 DEF LevelDone
  <2>2. Advance
    BY <1>1, <1>2, <2>1 DEF Advance
  <2>3. earliest' \in 0..(k' + 1) /\ level' \in 0..k'
    BY <1>1, <1>2, <2>1
  <2>4. ControlTypes'
    BY <1>1, <1>2, <2>1, <2>3 DEF SearchInv, ControlTypes
  <2>5. BaseCases
    <3>1. 0 \in Frames
      BY <1>1, <1>2
    <3> QED BY <3>1 DEF SearchInv, FramesInv, BaseCasesPassed
  <2>6. ~Extended'
    BY <1>1, <1>2, <2>1 DEF Extended
  <2>7. Control'
    BY <1>1, <2>1, <2>5, <2>6 DEF Control, BaseCases
  <2> QED BY <1>1, <2>1, <2>2, <2>4, <2>7, QuietStep DEF FramesNext, LevelDone, poolVars
<1> QED BY <1>3, <1>4, <1>5

\* A cube is a finite set.
LEMMA CubeIsFinite == ASSUME NEW c \in SUBSET Lit PROVE IsFiniteSet(c)
<1>1. IsFiniteSet(BOOLEAN)
  <2>1. BOOLEAN = {TRUE, FALSE}
    OBVIOUS
  <2>2. IsFiniteSet({TRUE, FALSE})
    <3>1. IsFiniteSet({} \cup {TRUE})
      BY FS_EmptySet, FS_AddElement
    <3>2. IsFiniteSet(({} \cup {TRUE}) \cup {FALSE})
      BY <3>1, FS_AddElement
    <3>3. ({} \cup {TRUE}) \cup {FALSE} = {TRUE, FALSE}
      OBVIOUS
    <3> QED BY <3>2, <3>3
  <2> QED BY <2>1, <2>2
<1>2. IsFiniteSet(Lit)
  BY <1>1, CircuitAssumption, FS_Product DEF Lit
<1> QED BY <1>2, FS_Subset

\* A cube that propagate() moves: a Push of the discipline, whether the
\* clause goes to all the solvers, to the top one, or is known already.
LEMMA CubePushed ==
  ASSUME FramesInv, verdict = "none", Extended, earliest \in 1..(k + 1), level \in 1..k,
         NEW c \in borderCubes[level], NEW d \in Cores(level, c),
         AddCube(level + 1, d, Cardinality(d) < Cardinality(c),
                 [borderCubes EXCEPT ![level] = @ \ {c}], "propagate"),
         UNCHANGED <<k, verdict>>
  PROVE  /\ [FramesNext]_frameVars
         /\ Frames' = Frames /\ earliest' \in 1..(k + 1)
         /\ pc' = "propagate" \/ (pc' = "aborted" /\ d = {})
         /\ \A i \in Frames : solvers'[i] \subseteq solvers[i]
         /\ borderCubes'[level] = borderCubes[level] \ {c}
         /\ ExcludesInitial(d)
<1> DEFINE toAll == Cardinality(d) < Cardinality(c)
           border == [borderCubes EXCEPT ![level] = @ \ {c}]
<1>1. k \in Nat \ {0} /\ Frames = 0..(k + 1) /\ level \in Nat \ {0} /\ level # level + 1
      /\ level \in Frames /\ level + 1 \in Frames /\ level \in 1..(k + 1) /\ level + 1 \in 1..(k + 1)
  BY DEF FramesInv, FramesTypeOK, Extended
<1>2. borderCubes \in [Frames -> SUBSET SUBSET Lit] /\ solvers \in [Frames -> SUBSET State]
  BY DEF FramesInv, FramesTypeOK
<1>3. c \in SUBSET Lit /\ d \subseteq c /\ CTIs(level, c, d) = {}
  BY <1>1, <1>2, CoreOfCube
<1>4. \A i \in 1..level : \A s \in solvers[i] : ~(c \subseteq s)
  BY <1>1, RecordedIsExcluded
<1>5. ExcludesInitial(c)
  <2>1. level \in 1..level
    BY <1>1
  <2> QED BY <1>1, <1>4, <2>1 DEF ExcludesInitial, FramesInv, FrameInvariants, FramesIncludeInitial
<1>6. ExcludesInitial(d)
  BY <1>5, CoreOfCube
<1>7. Excludes(level, c, d)
  BY <1>3, NoCTIExcludes
<1>8. border[level] = borderCubes[level] \ {c} /\ border[level + 1] = borderCubes[level + 1]
      /\ border \in [Frames -> SUBSET SUBSET Lit]
  BY <1>1, <1>2
<1>9. CASE d \in border[level + 1]
  <2>1. borderCubes' = border /\ pc' = "propagate" /\ solvers' = solvers /\ earliest' = earliest
    BY <1>9 DEF AddCube
  <2>2. \A i \in 1..(level + 1) : \A s \in solvers[i] : ~(d \subseteq s)
    BY <1>1, <1>8, <1>9, RecordedIsExcluded
  <2>3. solvers' = [i \in Frames |-> IF i \in 1..(level + 1) THEN Minus(solvers[i], d) ELSE solvers[i]]
    BY <1>2, <2>1, <2>2 DEF Minus
  <2>4. borderCubes' = [borderCubes EXCEPT ![level] = @ \ {c}, ![level + 1] = @ \cup {d}]
    BY <1>1, <1>2, <1>8, <1>9, <2>1
  <2>5. Push(level, c, d)
    BY <1>3, <1>6, <1>7, <2>3, <2>4 DEF Push
  <2>6. d \in SUBSET Lit
    BY <1>3
  <2>7. FramesNext
    BY <1>3, <2>5, <2>6 DEF FramesNext
  <2> QED BY <1>6, <1>8, <2>1, <2>7 DEF Frames
<1>10. CASE d \notin border[level + 1]
  <2>1. /\ RecordCube(level + 1, d, toAll, border)
        /\ pc' = "propagate" \/ (pc' = "aborted" /\ d = {})
    BY <1>10 DEF AddCube
  <2>2. borderCubes' = [border EXCEPT ![level + 1] = @ \cup {d}]
    BY <2>1 DEF RecordCube
  <2>3. solvers' = [i \in Frames |-> IF i \in 1..(level + 1) THEN Minus(solvers[i], d) ELSE solvers[i]]
    <3>1. CASE toAll
      BY <2>1, <3>1 DEF RecordCube, Targets, Minus
    <3>2. CASE ~toAll
      <4>1. d = c
        <5>1. IsFiniteSet(c)
          BY <1>3, CubeIsFinite
        <5>2. Cardinality(d) <= Cardinality(c) /\ (Cardinality(c) = Cardinality(d) => c = d)
          BY <1>3, <5>1, FS_Subset
        <5>3. Cardinality(d) \in Nat /\ Cardinality(c) \in Nat
          BY <1>3, <5>1, FS_Subset, FS_CardinalityType
        <5> QED BY <3>2, <5>2, <5>3
      <4>2. \A i \in 1..(level + 1) : i \in 1..level \/ i = level + 1
        BY <1>1
      <4>3. \A i \in 1..level : Minus(solvers[i], d) = solvers[i]
        BY <1>4, <4>1 DEF Minus
      <4>4. solvers' = [i \in Frames |-> IF i \in {level + 1} THEN Minus(solvers[i], d) ELSE solvers[i]]
        BY <2>1, <3>2 DEF RecordCube, Targets, Minus
      <4> QED BY <1>1, <4>2, <4>3, <4>4
    <3> QED BY <3>1, <3>2
  <2>4. borderCubes' = [borderCubes EXCEPT ![level] = @ \ {c}, ![level + 1] = @ \cup {d}]
    <3> HIDE DEF border
    <3>1. \A i \in Frames : i # level => border[i] = borderCubes[i]
      BY <1>2 DEF border
    <3> QED BY <1>1, <1>2, <1>8, <2>2, <3>1
  <2>5. Push(level, c, d)
    BY <1>3, <1>6, <1>7, <2>3, <2>4 DEF Push
  <2>6. d \in SUBSET Lit
    BY <1>3
  <2>7. FramesNext
    BY <1>3, <2>5, <2>6 DEF FramesNext
  <2>8. earliest' \in 1..(k + 1)
    BY <1>1, <2>1, MinOfTwo DEF RecordCube
  <2>9. borderCubes'[level] = borderCubes[level] \ {c}
    BY <1>1, <1>2, <2>4
  <2>10. Frames' = Frames /\ \A i \in Frames : solvers'[i] \subseteq solvers[i]
    BY <2>3 DEF Frames, Minus
  <2> QED BY <1>6, <2>1, <2>7, <2>8, <2>9, <2>10
<1> QED BY <1>9, <1>10

LEMMA PropagateSearch == ASSUME SearchInv, PropagateCube
  PROVE  SearchInv' /\ [FramesNext]_frameVars
<1>1. /\ verdict = "none" /\ Extended /\ earliest \in 1..(k + 1) /\ pc = "propagate" /\ k \in Nat
      /\ level \in 1..k /\ NoErrorAfter(k) /\ todo \subseteq borderCubes[level] /\ FramesInv
  BY DEF SearchInv, Control, PropagateCube, FramesInv, FramesTypeOK
<1>2. UNCHANGED <<k, verdict, trivial, level, cexState, states, obls, obl, stack>>
  BY DEF PropagateCube, poolVars
<1>3. PICK c \in todo :
        /\ \E d \in Cores(level, c) :
             AddCube(level + 1, d, Cardinality(d) < Cardinality(c),
                     [borderCubes EXCEPT ![level] = @ \ {c}], "propagate")
        /\ todo' = todo \ {c}
  BY DEF PropagateCube
<1>4. PICK d \in Cores(level, c) :
        AddCube(level + 1, d, Cardinality(d) < Cardinality(c),
                [borderCubes EXCEPT ![level] = @ \ {c}], "propagate")
  BY <1>3
<1>5. c \in borderCubes[level]
  BY <1>1
<1>6. /\ [FramesNext]_frameVars
      /\ Frames' = Frames /\ earliest' \in 1..(k + 1)
      /\ pc' \in {"propagate", "aborted"} /\ (pc' = "aborted" => Initial = {})
      /\ \A i \in Frames : solvers'[i] \subseteq solvers[i]
      /\ borderCubes'[level] = borderCubes[level] \ {c}
  BY <1>1, <1>2, <1>4, <1>5, CubePushed DEF ExcludesInitial
<1>7. ControlTypes'
  BY <1>1, <1>2, <1>3, <1>6 DEF SearchInv, ControlTypes
<1>8. NoErrorAfter(k)'
  BY <1>1, <1>2, <1>6 DEF NoErrorAfter, Extended
<1>9. Control'
  BY <1>1, <1>2, <1>3, <1>6, <1>8 DEF Control, Extended
<1> QED BY <1>1, <1>2, <1>6, <1>7, <1>9, QuietStep

-----------------------------------------------------------------------------
(* The steps of strengthen() and handleObligations().                      *)

WithinStrengthen == {"strengthen", "handle", "mic", "down"}

\* Steps of strengthen() that leave the frames alone.
LEMMA FramesStill ==
  ASSUME SearchInv, pc \in WithinStrengthen, pc' \in WithinStrengthen,
         UNCHANGED <<frameVars, earliest, scanVars>>, trivial' \in BOOLEAN
  PROVE  FramesInv' /\ ControlTypes' /\ Control' /\ Frames' = Frames /\ [FramesNext]_frameVars
<1>1. UNCHANGED <<k, borderCubes, solvers, verdict, earliest, level, todo>>
  BY DEF frameVars, scanVars
<1>2. FramesInv'
  BY NextFrames DEF SearchInv
<1>3. Frames' = Frames
  BY <1>1 DEF Frames
<1>4. ControlTypes'
  BY <1>1 DEF SearchInv, ControlTypes, WithinStrengthen
<1>5. Control'
  BY <1>1, <1>3 DEF SearchInv, Control, Extended, WithinStrengthen
<1> QED BY <1>2, <1>3, <1>4, <1>5

\* Without a stack there is little to show of it.
LEMMA EmptyStack ==
  ASSUME stack' = <<>>, pc' \notin {"mic", "down"}
  PROVE  StackInv' /\ Ownership' /\ 1..Len(stack') = {} /\ 1..(Len(stack') - 1) = {}
<1>1. Len(stack') = 0 /\ 1..Len(stack') = {} /\ 1..(Len(stack') - 1) = {}
  OBVIOUS
<1>2. StackInv'
  BY <1>1, LimitsAssumption DEF StackInv, StackTypes, Nesting, GeneralizedCubesAreInductive
<1> QED BY <1>1, <1>2 DEF Ownership

\* handleObligations() takes an obligation off the queue.
LEMMA QueueHasFirst ==
  ASSUME PoolTypes, obls # {}, k \in Nat
  PROVE  FirstObligation \in obls
<1>1. \A p \in obls : p.state \in Nat /\ p.level \in Nat /\ p.depth \in Nat
                    /\ p = [state |-> p.state, level |-> p.level, depth |-> p.depth]
  BY DEF PoolTypes, Obligation
<1> DEFINE Levels == {p.level : p \in obls}
<1>2. PICK l \in Levels : \A x \in Levels : l <= x
  <2>1. Levels \in SUBSET Nat /\ Levels # {}
    BY <1>1
  <2> QED BY <2>1, LeastNumber
<1> DEFINE Depths == {p.depth : p \in {q \in obls : q.level = l}}
<1>3. PICK d \in Depths : \A x \in Depths : d <= x
  <2>1. Depths \in SUBSET Nat /\ Depths # {}
    BY <1>1, <1>2
  <2> QED BY <2>1, LeastNumber
<1> DEFINE Numbers == {p.state : p \in {q \in obls : q.level = l /\ q.depth = d}}
<1>4. PICK n \in Numbers : \A x \in Numbers : n <= x
  <2>1. Numbers \in SUBSET Nat /\ Numbers # {}
    BY <1>1, <1>3
  <2> QED BY <2>1, LeastNumber
<1>5. PICK o \in obls : o.level = l /\ o.depth = d /\ o.state = n
  BY <1>4
<1>6. ASSUME NEW p \in obls \ {o} PROVE Before(o, p)
  <2>1. l <= p.level
    BY <1>2
  <2>2. p.level = l => d <= p.depth
    BY <1>3
  <2>3. p.level = l /\ p.depth = d => n <= p.state
    BY <1>4
  <2>4. p.level # l \/ p.depth # d \/ p.state # n
    BY <1>1, <1>5, <1>6
  <2>5. l \in Nat /\ d \in Nat /\ n \in Nat /\ p.level \in Nat /\ p.depth \in Nat /\ p.state \in Nat
    BY <1>1, <1>5
  <2> QED BY <1>5, <2>1, <2>2, <2>3, <2>4, <2>5 DEF Before
<1> QED BY <1>5, <1>6 DEF FirstObligation

\* A pool whose States link to each other only.
ClosedPool(pool) ==
  /\ DOMAIN pool \subseteq Nat \ {0} /\ IsFiniteSet(DOMAIN pool)
  /\ pool \in [DOMAIN pool -> StateRecord]
  /\ \A n \in DOMAIN pool : pool[n].successor \in {0} \cup DOMAIN pool

LEMMA SearchPoolClosed == PoolInv => ClosedPool(states)
BY DEF PoolInv, PoolTypes, NoDanglingState, ClosedPool

\* Pool grown is pool and one more State.
Grown(grown, pool, st) ==
  /\ ClosedPool(grown)
  /\ FreshState(pool) \in Nat \ {0} /\ FreshState(pool) \notin DOMAIN pool
  /\ DOMAIN grown = DOMAIN pool \cup {FreshState(pool)}
  /\ grown[FreshState(pool)] = st
  /\ \A n \in DOMAIN pool : grown[n] = pool[n]

\* newState() leaves the States in use alone.
LEMMA PoolGrown ==
  ASSUME NEW pool, ClosedPool(pool), NEW st, st \in StateRecord, st.successor \in {0} \cup DOMAIN pool
  PROVE  Grown(NewState(pool, st), pool, st)
<1> DEFINE grown == NewState(pool, st)
<1>1. /\ IsFiniteSet(DOMAIN pool) /\ DOMAIN pool \subseteq Nat \ {0}
      /\ \A n \in DOMAIN pool : pool[n] \in StateRecord
      /\ \A n \in DOMAIN pool : pool[n].successor \in {0} \cup DOMAIN pool
  BY DEF ClosedPool
<1>2. FreshState(pool) \in Nat \ {0} /\ FreshState(pool) \notin DOMAIN pool
  BY <1>1, FreshStateFree
<1>3. /\ DOMAIN grown = DOMAIN pool \cup {FreshState(pool)}
      /\ IsFiniteSet(DOMAIN grown)
      /\ grown[FreshState(pool)] = st
      /\ \A n \in DOMAIN pool : grown[n] = pool[n]
      /\ grown \in [DOMAIN grown -> StateRecord]
  <2> HIDE DEF grown
  <2>1. (\A n \in DOMAIN pool : pool[n] \in StateRecord) /\ st \in StateRecord
    BY <1>1
  <2> QED BY <1>1, <2>1, NewStateAdded DEF grown
<1> HIDE DEF grown
<1>4. \A n \in DOMAIN grown : grown[n].successor \in {0} \cup DOMAIN grown
  BY <1>1, <1>3
<1>5. Grown(grown, pool, st)
  BY <1>1, <1>2, <1>3, <1>4 DEF ClosedPool, Grown
<1> QED BY <1>5 DEF grown

LEMMA StrengthenSearch ==
  ASSUME ConstraintsReadLatches, SearchInv, Strengthen
  PROVE  SearchInv' /\ [FramesNext]_frameVars
<1>1. /\ FramesInv /\ Extended /\ k \in Nat \ {0} /\ pc = "strengthen" /\ PoolInv
      /\ stack = <<>> /\ obls = {} /\ obl = NoObl /\ states = NoStates /\ cexState = 0
  BY QuietPhases DEF SearchInv, Control, Strengthen, FramesInv, FramesTypeOK
<1>2. /\ UNCHANGED frameVars /\ UNCHANGED <<k, solvers, earliest, obl, stack, scanVars, cexState>>
      /\ trivial' = FALSE /\ pc' = "handle"
  BY DEF Strengthen, frameVars
<1>3. FramesInv' /\ ControlTypes' /\ Control' /\ Frames' = Frames /\ [FramesNext]_frameVars
  BY <1>1, <1>2, FramesStill DEF WithinStrengthen
<1>4. PICK st \in StatesOf(states, ErrorCTIs(k), 0) : states' = NewState(states, st)
  BY DEF Strengthen
<1> DEFINE n == FreshState(states)
           o == [state |-> n, level |-> k - 1, depth |-> 1]
<1>5. obls' = {o}
  BY DEF Strengthen
<1>6. /\ st \in StateRecord /\ st.successor = 0 /\ st.inputs # {}
      /\ \A s \in solvers[k - 1], i \in st.inputs : st.latches \subseteq s => ~LiftTrans(s, i)
      /\ \A s \in State : Live(s) /\ st.latches \subseteq s => Doomed(s)
  BY <1>1, MainObligation
<1>7. /\ n \in Nat \ {0} /\ DOMAIN states' = {n} /\ states'[n] = st
      /\ DOMAIN states' \subseteq Nat \ {0} /\ \A x \in DOMAIN states' : states'[x] \in StateRecord
      /\ states' \in [DOMAIN states' -> StateRecord] /\ IsFiniteSet(DOMAIN states')
      /\ \A x \in DOMAIN states' : states'[x].successor \in {0} \cup DOMAIN states'
  <2>1. DOMAIN states = {}
    BY <1>1 DEF NoStates
  <2>2. ClosedPool(states)
    BY <1>1, SearchPoolClosed
  <2>3. /\ ClosedPool(states') /\ n \in Nat \ {0}
        /\ DOMAIN states' = DOMAIN states \cup {n} /\ states'[n] = st
    <3>1. st.successor \in {0} \cup DOMAIN states
      BY <1>6
    <3>2. Grown(states', states, st)
      BY <1>4, <1>6, <2>2, <3>1, PoolGrown
    <3> QED BY <3>2 DEF Grown
  <2>4. \A x \in DOMAIN states' : states'[x] \in StateRecord
    BY <2>3 DEF ClosedPool
  <2> HIDE DEF n
  <2> QED BY <2>1, <2>3, <2>4 DEF ClosedPool
<1>8. obl' = NoObl /\ Raised' = {o} /\ o # NoObl /\ obl' \notin obls'
  BY <1>1, <1>2, <1>5, <1>7 DEF Raised, NoObl
<1>9. Idle'
  BY <1>1, <1>2 DEF Idle
<1>10. StackInv' /\ Ownership' /\ 1..Len(stack') = {} /\ 1..(Len(stack') - 1) = {}
  BY <1>1, <1>2, EmptyStack
<1>11. PoolInv'
  <2>1. o \in Obligation'
    BY <1>1, <1>2, <1>7 DEF Obligation
  <2>2. PoolTypes'
    BY <1>1, <1>2, <1>5, <1>7, <1>8, <2>1 DEF PoolTypes
  <2>3. NoDanglingState'
    BY <1>5, <1>7, <1>8, <1>10 DEF NoDanglingState
  <2> QED BY <1>7, <1>10, <2>2, <2>3 DEF PoolInv
<1>12. QueueInv'
  <2>1. Accounted'
    BY <1>7, <1>8 DEF Accounted
  <2>2. ObligationsAreRelative'
    BY <1>2, <1>5, <1>6, <1>7 DEF ObligationsAreRelative
  <2>3. ObligationsAreDoomed'
    BY <1>6, <1>7, <1>8 DEF ObligationsAreDoomed
  <2> QED BY <2>1, <2>2, <2>3 DEF QueueInv
<1> QED BY <1>3, <1>9, <1>10, <1>11, <1>12 DEF SearchInv

LEMMA ObligationsMetSearch == ASSUME SearchInv, ObligationsMet
  PROVE  SearchInv' /\ [FramesNext]_frameVars
<1>1. pc = "handle" /\ stack = <<>> /\ obls = {} /\ obl = NoObl /\ cexState = 0 /\ trivial \in BOOLEAN
  BY DEF SearchInv, Idle, ObligationsMet, ControlTypes
<1>2. /\ UNCHANGED <<frameVars, earliest, scanVars>> /\ pc' = "strengthen" /\ trivial' = trivial
      /\ stack' = <<>> /\ obls' = {} /\ obl' = NoObl /\ states' = NoStates /\ cexState' = 0
  BY <1>1 DEF ObligationsMet
<1>3. FramesInv' /\ ControlTypes' /\ Control' /\ [FramesNext]_frameVars
  BY <1>1, <1>2, FramesStill DEF WithinStrengthen
<1>4. PoolInv' /\ StackInv' /\ QueueInv'
  BY <1>2, QuietNext
<1>5. Idle'
  BY <1>2 DEF Idle
<1> QED BY <1>3, <1>4, <1>5 DEF SearchInv

\* What handleObligations() knows of the obligation it takes off the queue.
LEMMA HandledObligation ==
  ASSUME SearchInv, pc = "handle", obls # {}
  PROVE  /\ FramesInv /\ Extended /\ k \in Nat \ {0} /\ verdict = "none" /\ PoolInv
         /\ stack = <<>> /\ obl = NoObl /\ cexState = 0 /\ Raised = obls
         /\ FirstObligation \in obls /\ FirstObligation \in Obligation
         /\ FirstObligation.state \in Nat \ {0} /\ FirstObligation.state \in DOMAIN states
         /\ FirstObligation.level \in 0..k /\ FirstObligation.depth \in Nat \ {0}
         /\ states[FirstObligation.state] \in StateRecord
         /\ states[FirstObligation.state].latches \in SUBSET Lit
         /\ states[FirstObligation.state].inputs \subseteq Inputs
<1>1. /\ FramesInv /\ Extended /\ k \in Nat \ {0} /\ verdict = "none" /\ PoolInv /\ PoolTypes
      /\ stack = <<>> /\ obl = NoObl /\ cexState = 0 /\ Raised = obls
  BY DEF SearchInv, Control, Idle, FramesInv, FramesTypeOK, Raised, PoolInv
<1>2. FirstObligation \in obls
  BY <1>1, QueueHasFirst
<1>3. FirstObligation \in Obligation
  BY <1>1, <1>2 DEF PoolTypes
<1>4. /\ FirstObligation.state \in DOMAIN states /\ FirstObligation.level \in 0..k
      /\ FirstObligation.depth \in Nat \ {0}
  BY <1>3 DEF Obligation
<1>5. FirstObligation.state \in Nat \ {0} /\ states[FirstObligation.state] \in StateRecord
  BY <1>1, <1>4 DEF PoolTypes
<1>6. /\ states[FirstObligation.state].latches \in SUBSET Lit
      /\ states[FirstObligation.state].inputs \subseteq Inputs
  BY <1>5 DEF StateRecord
<1> QED BY <1>1, <1>2, <1>3, <1>4, <1>5, <1>6

LEMMA FulfillSearch ==
  ASSUME ConstraintsReadLatches, SearchInv, FulfillObligation
  PROVE  SearchInv' /\ [FramesNext]_frameVars
<1> DEFINE o == FirstObligation
           c == states[o.state].latches
<1>1. pc = "handle" /\ obls # {}
  BY DEF FulfillObligation
<1>2. /\ FramesInv /\ Extended /\ k \in Nat \ {0} /\ PoolInv
      /\ obl = NoObl /\ cexState = 0 /\ Raised = obls
      /\ o \in obls /\ o \in Obligation /\ o.state \in Nat \ {0} /\ o.state \in DOMAIN states
      /\ o.level \in 0..k /\ c \in SUBSET Lit /\ states[o.state].inputs \subseteq Inputs
  BY <1>1, HandledObligation
<1>3. /\ UNCHANGED frameVars /\ UNCHANGED <<k, solvers, earliest, trivial, states, scanVars, cexState>>
      /\ obls' = obls \ {o} /\ obl' = o /\ pc' = "mic"
  BY DEF FulfillObligation, frameVars
<1>4. FramesInv' /\ ControlTypes' /\ Control' /\ Frames' = Frames /\ [FramesNext]_frameVars
  BY <1>1, <1>3, FramesStill DEF WithinStrengthen, SearchInv, ControlTypes
<1>5. PICK core \in Cores(o.level, c) : stack' = <<Activation(o.level, core, 1)>>
  BY DEF FulfillObligation
<1> DEFINE a == Activation(o.level, core, 1)
<1> HIDE DEF o
<1>6. /\ core \subseteq c /\ Inductive(o.level, core) /\ ExcludesInitial(core) /\ core \subseteq Lit
  <2>1. ExcludesInitial(c)
    BY <1>2, ObligationExcludesInitial DEF SearchInv, QueueInv
  <2> QED BY <1>2, <2>1, CoreOfCube
<1>7. a \in ActivationRecord /\ a.level = o.level /\ a.cube = core /\ a.kept = {} /\ a.depth = 1
      /\ a.attempts = MicAttempts /\ a.ctgs = 0 /\ a.joins = 0 /\ a.cubeState = 0 /\ a.ctg = 0
  BY <1>2, <1>6, LimitsAssumption DEF Activation, ActivationRecord
<1>8. stack' = <<a>> /\ Len(stack') = 1 /\ stack'[1] = a /\ 1..Len(stack') = {1}
      /\ 1..(Len(stack') - 1) = {} /\ stack' \in Seq(ActivationRecord)
  <2> HIDE DEF a
  <2> QED BY <1>5, <1>7 DEF a
<1> HIDE DEF a
<1>9. Raised' = Raised /\ o # NoObl /\ obl' \notin obls'
  BY <1>2, <1>3 DEF Raised, NoObl
<1>10. Idle'
  BY <1>2, <1>3, <1>8, <1>9 DEF Idle
<1>11. PoolInv'
  <2>1. PoolTypes'
    BY <1>2, <1>3 DEF PoolInv, PoolTypes, Obligation
  <2>2. NoDanglingState'
    BY <1>2, <1>3, <1>7, <1>8, <1>9 DEF PoolInv, NoDanglingState, Raised
  <2>3. Ownership'
    BY <1>7, <1>8 DEF Ownership, Owned
  <2> QED BY <1>2, <1>3, <2>1, <2>2, <2>3 DEF PoolInv
<1>12. StackInv'
  <2>1. StackTypes'
    BY <1>2, <1>3, <1>6, <1>7, <1>8, LimitsAssumption DEF StackTypes
  <2>2. Nesting'
    BY <1>3, <1>6, <1>7, <1>8 DEF Nesting
  <2>3. GeneralizedCubesAreInductive'
    BY <1>3, <1>6, <1>7, <1>8 DEF GeneralizedCubesAreInductive, ExcludesInitial, Inductive, CTIs
  <2> QED BY <1>8, <2>1, <2>2, <2>3 DEF StackInv
<1>13. QueueInv'
  <2>1. Accounted'
    <3>1. Accounted
      BY DEF SearchInv, QueueInv
    <3>2. \A p, r \in Raised' : p.state = r.state => p = r
      BY <1>9, <3>1 DEF Accounted
    <3>3. ASSUME NEW x \in DOMAIN states'
          PROVE  (\E p \in Raised' : p.state = x)
                 \/ \A s \in solvers'[k' + 1] : ~(states'[x].latches \subseteq s)
      <4>1. 1..(Len(stack) - 1) = {}
        BY <1>1, HandledObligation
      <4> QED BY <1>1, <1>3, <1>9, <3>1, <4>1 DEF Accounted
    <3> QED BY <1>9, <3>2, <3>3 DEF Accounted
  <2>2. ObligationsAreRelative'
    BY <1>3 DEF SearchInv, QueueInv, ObligationsAreRelative
  <2>3. ObligationsAreDoomed'
    BY <1>3, <1>9 DEF SearchInv, QueueInv, ObligationsAreDoomed
  <2> QED BY <2>1, <2>2, <2>3 DEF QueueInv
<1> QED BY <1>4, <1>10, <1>11, <1>12, <1>13 DEF SearchInv

LEMMA PredecessorSearch ==
  ASSUME ConstraintsReadLatches, SearchInv, PredecessorFound
  PROVE  SearchInv' /\ [FramesNext]_frameVars
<1> DEFINE o == FirstObligation
           c == states[o.state].latches
           n == FreshState(states)
           q == [state |-> n, level |-> o.level - 1, depth |-> o.depth + 1]
<1>1. pc = "handle" /\ obls # {}
  BY DEF PredecessorFound
<1>2. /\ FramesInv /\ Extended /\ k \in Nat \ {0} /\ PoolInv /\ verdict = "none"
      /\ obl = NoObl /\ cexState = 0 /\ Raised = obls /\ stack = <<>>
      /\ o \in obls /\ o.state \in Nat \ {0} /\ o.state \in DOMAIN states /\ o.depth \in Nat \ {0}
      /\ o.level \in 0..k /\ c \in SUBSET Lit /\ states[o.state].inputs \subseteq Inputs
  BY <1>1, HandledObligation
<1>3. UNCHANGED <<k, borderCubes, solvers, earliest, trivial, obl, stack, level, todo>> /\ obl' = NoObl
      /\ Frames' = Frames
  BY <1>2 DEF PredecessorFound, scanVars, Frames
<1>4. PICK st \in StatesOf(states, CTIs(o.level, c, c), o.state) : states' = NewState(states, st)
  BY DEF PredecessorFound
<1>5. /\ o.level = 0 => cexState' = n /\ pc' = "done" /\ verdict' = "unsafe" /\ obls' = obls
      /\ o.level # 0 => obls' = obls \cup {q} /\ pc' = pc /\ cexState' = cexState /\ verdict' = verdict
  BY DEF PredecessorFound, Finish
<1>6. /\ st \in StateRecord /\ st.successor = o.state /\ st.inputs # {}
      /\ o.level # 0 => \A s \in solvers[o.level - 1], i \in st.inputs :
                          st.latches \subseteq s => ~LiftTrans(s, i)
      /\ \A s \in State : Live(s) /\ st.latches \subseteq s => Doomed(s)
      /\ o.level = 0 => ~Safe
  <2> HIDE DEF o
  <2> QED BY <1>2, PredecessorObligation DEF SearchInv, QueueInv
<1>7. /\ n \in Nat \ {0} /\ n \notin DOMAIN states
      /\ DOMAIN states' = DOMAIN states \cup {n}
      /\ states'[n] = st
      /\ \A x \in DOMAIN states : states'[x] = states[x]
      /\ DOMAIN states' \subseteq Nat \ {0}
      /\ \A x \in DOMAIN states' : states'[x] \in StateRecord
      /\ states' \in [DOMAIN states' -> StateRecord] /\ IsFiniteSet(DOMAIN states')
      /\ \A x \in DOMAIN states' : states'[x].successor \in {0} \cup DOMAIN states'
  <2>1. ClosedPool(states)
    BY <1>2, SearchPoolClosed
  <2>2. /\ ClosedPool(states') /\ n \in Nat \ {0} /\ n \notin DOMAIN states
        /\ DOMAIN states' = DOMAIN states \cup {n} /\ states'[n] = st
        /\ \A x \in DOMAIN states : states'[x] = states[x]
    <3>1. st.successor \in {0} \cup DOMAIN states
      BY <1>2, <1>6
    <3>2. Grown(states', states, st)
      BY <1>4, <1>6, <2>1, <3>1, PoolGrown
    <3> QED BY <3>2 DEF Grown
  <2>3. \A x \in DOMAIN states' : states'[x] \in StateRecord
    BY <2>2 DEF ClosedPool
  <2> HIDE DEF n, o
  <2> QED BY <2>2, <2>3 DEF ClosedPool
<1>8. q.state = n /\ q.level = o.level - 1 /\ q.depth = o.depth + 1
  OBVIOUS
<1>9. \A p \in obls : p \in Obligation /\ p.state \in DOMAIN states /\ p.state # n
  BY <1>2, <1>7 DEF PoolInv, PoolTypes, NoDanglingState, Obligation
<1>10. o.level # 0 => q \in Obligation'
  BY <1>2, <1>3, <1>7 DEF Obligation
<1> HIDE DEF o, n, q
<1>11. Raised' = obls' /\ obl' \notin obls' /\ obls \subseteq obls'
       /\ obls' \subseteq obls \cup {q} /\ (o.level = 0 => obls' = obls)
  BY <1>2, <1>3, <1>5, <1>7, <1>8, <1>9 DEF Raised, NoObl
<1>12. 1..Len(stack') = {} /\ 1..(Len(stack') - 1) = {} /\ StackInv' /\ Ownership'
  BY <1>1, <1>2, <1>3, <1>5, EmptyStack
<1>13. PoolInv'
  <2>1. obls' \subseteq Obligation'
    BY <1>2, <1>3, <1>5, <1>7, <1>9, <1>10 DEF Obligation
  <2>2. cexState' \in {0} \cup DOMAIN states'
    BY <1>2, <1>5, <1>7
  <2>3. PoolTypes'
    BY <1>3, <1>7, <2>1, <2>2 DEF PoolTypes
  <2>4. NoDanglingState'
    BY <1>3, <1>5, <1>7, <1>8, <1>9, <1>12 DEF NoDanglingState
  <2> QED BY <1>7, <1>12, <2>3, <2>4 DEF PoolInv
<1>14. QueueInv'
  <2>1. Accounted'
    <3>1. \A p, r \in Raised' : p.state = r.state => p = r
      BY <1>2, <1>8, <1>9, <1>11 DEF SearchInv, QueueInv, Accounted
    <3>2. ASSUME pc' = "handle", NEW x \in DOMAIN states'
          PROVE  (\E p \in Raised' : p.state = x)
                 \/ \A s \in solvers'[k' + 1] : ~(states'[x].latches \subseteq s)
      <4>1. CASE x = n
        BY <1>5, <1>8, <1>11, <3>2, <4>1
      <4>2. CASE x \in DOMAIN states
        <5>1. (\E p \in Raised : p.state = x) \/ \A s \in solvers[k + 1] : ~(states[x].latches \subseteq s)
          <6>1. 1..(Len(stack) - 1) = {}
            BY <1>2
          <6> QED BY <1>1, <4>2, <6>1 DEF SearchInv, QueueInv, Accounted
        <5> QED BY <1>2, <1>3, <1>7, <1>11, <4>2, <5>1
      <4> QED BY <1>7, <4>1, <4>2
    <3>3. pc' \notin {"mic", "down"}
      BY <1>1, <1>5
    <3> QED BY <1>11, <3>1, <3>2, <3>3 DEF Accounted
  <2>2. ObligationsAreRelative'
    BY <1>3, <1>5, <1>6, <1>7, <1>8, <1>9 DEF SearchInv, QueueInv, ObligationsAreRelative
  <2>3. ObligationsAreDoomed'
    BY <1>2, <1>6, <1>7, <1>8, <1>9, <1>11 DEF SearchInv, QueueInv, ObligationsAreDoomed
  <2> QED BY <2>1, <2>2, <2>3 DEF QueueInv
<1>15. Idle'
  BY <1>1, <1>2, <1>3, <1>5 DEF Idle
<1>16. FramesInv' /\ ControlTypes' /\ Control' /\ [FramesNext]_frameVars
  <2>1. CASE o.level = 0
    <3>1. Refute
      BY <1>2, <1>3, <1>5, <1>6, <2>1 DEF Refute
    <3>2. FramesInv'
      BY <3>1, NextFrames DEF SearchInv, FramesNext
    <3>3. ControlTypes'
      BY <1>3, <1>5, <2>1 DEF SearchInv, ControlTypes
    <3>4. Control'
      BY <1>5, <1>6, <2>1 DEF Control
    <3> QED BY <3>1, <3>2, <3>3, <3>4 DEF FramesNext
  <2>2. CASE o.level # 0
    BY <1>1, <1>3, <1>5, <2>2, FramesStill DEF WithinStrengthen, frameVars, scanVars, SearchInv, ControlTypes
  <2> QED BY <2>1, <2>2
<1> QED BY <1>12, <1>13, <1>14, <1>15, <1>16 DEF SearchInv

-----------------------------------------------------------------------------
(* The steps of mic() and ctgDown() that change the top activation only.   *)

LEMMA TopFacts ==
  ASSUME SearchInv, pc \in {"mic", "down"}
  PROVE  /\ FramesInv /\ Extended /\ k \in Nat \ {0} /\ verdict = "none" /\ earliest \in 1..(k + 1)
         /\ stack \in Seq(ActivationRecord) /\ Len(stack) \in Nat \ {0} /\ Len(stack) \in 1..Len(stack)
         /\ Len(stack) <= MaxDepth + 1
         /\ Top \in ActivationRecord /\ Top.depth = Len(stack) /\ Top.level \in 0..k
         /\ Top.cube \in SUBSET Lit /\ Top.kept \subseteq Top.cube
         /\ Top.attempts \in 0..MicAttempts /\ Top.ctgs \in 0..MaxCTGs /\ Top.joins \in 0..MaxJoins
         /\ Top.cubeState = 0 /\ Top.ctg = 0
         /\ ExcludesInitial(Top.cube) /\ Inductive(Top.level, Top.cube)
         /\ pc = "down" => Top.attempts # 0 /\ Top.drop \subseteq Top.cube /\ Top.down \subseteq Top.cube
         /\ obl # NoObl /\ obl \in Raised /\ cexState = 0
         /\ PoolInv /\ obl.state \in DOMAIN states /\ obl \in Obligation
<1>1. FramesInv /\ Extended /\ k \in Nat \ {0} /\ verdict = "none" /\ earliest \in 1..(k + 1)
  BY DEF SearchInv, Control, FramesInv, FramesTypeOK
<1>2. obl # NoObl /\ obl \in Raised /\ cexState = 0 /\ Len(stack) > 0
  BY DEF SearchInv, Idle, Raised
<1>3. PoolInv /\ obl \in Obligation /\ obl.state \in DOMAIN states
  BY <1>2 DEF SearchInv, PoolInv, PoolTypes, Obligation
<1>4. stack \in Seq(ActivationRecord) /\ Len(stack) \in Nat \ {0} /\ Len(stack) \in 1..Len(stack)
  BY <1>2 DEF SearchInv, StackInv
<1>5. Top \in ActivationRecord
  BY <1>4 DEF Top
<1>6. /\ Len(stack) <= MaxDepth + 1 /\ Top.depth = Len(stack) /\ Top.level \in 0..k
      /\ Top.cube \in SUBSET Lit /\ Top.kept \subseteq Top.cube
      /\ Top.attempts \in 0..MicAttempts /\ Top.ctgs \in 0..MaxCTGs /\ Top.joins \in 0..MaxJoins
  BY <1>4 DEF SearchInv, StackInv, StackTypes, Top
<1>7. Top.cubeState = 0 /\ Top.ctg = 0
  <2>1. Ownership
    BY DEF SearchInv, PoolInv
  <2>2. Owned(Len(stack)) = {0}
    BY <1>4, <2>1 DEF Ownership
  <2>3. stack[Len(stack)].cubeState \in {0} /\ stack[Len(stack)].ctg \in {0}
    BY <2>2 DEF Owned
  <2> QED BY <2>3 DEF Top
<1>8. ExcludesInitial(Top.cube) /\ Inductive(Top.level, Top.cube)
  BY <1>4 DEF SearchInv, StackInv, GeneralizedCubesAreInductive, ExcludesInitial, Top
<1>9. pc = "down" => Top.attempts # 0 /\ Top.drop \subseteq Top.cube /\ Top.down \subseteq Top.cube
  BY <1>4 DEF SearchInv, StackInv, Nesting, Top
<1> QED BY <1>1, <1>2, <1>3, <1>4, <1>5, <1>6, <1>7, <1>8, <1>9

LEMMA TopChanged ==
  ASSUME SearchInv, pc \in {"mic", "down"}, pc' \in {"mic", "down"},
         UNCHANGED <<frameVars, earliest, trivial, poolVars, scanVars, cexState>>,
         NEW a \in ActivationRecord, stack' = ReplaceTop(a),
         a.level = Top.level, a.depth = Top.depth, a.cube \subseteq Top.cube, a.kept \subseteq a.cube,
         a.attempts \in 0..MicAttempts, a.ctgs \in 0..MaxCTGs, a.joins \in 0..MaxJoins,
         a.cubeState = 0, a.ctg = 0,
         ExcludesInitial(a.cube), Inductive(a.level, a.cube),
         pc' = "down" => a.attempts # 0 /\ a.drop \subseteq a.cube /\ a.down \subseteq a.cube
  PROVE  SearchInv' /\ [FramesNext]_frameVars
<1>1. /\ stack \in Seq(ActivationRecord) /\ Len(stack) \in Nat \ {0} /\ Len(stack) \in 1..Len(stack)
      /\ Top \in ActivationRecord /\ Top.depth = Len(stack) /\ Top.level \in 0..k
      /\ Top.cube \in SUBSET Lit
  BY TopFacts
<1> DEFINE n == Len(stack)
<1>2. /\ stack' \in Seq(ActivationRecord) /\ Len(stack') = n /\ stack'[n] = a
      /\ \A x \in 1..(n - 1) : stack'[x] = stack[x]
  BY <1>1, TopReplaced
<1>3. \A x \in 1..n : x \in 1..(n - 1) \/ x = n
  BY <1>1
<1>4. Top = stack[n]
  BY DEF Top
<1> HIDE DEF n
<1>5. UNCHANGED <<k, solvers, states, obls, obl, level, todo, cexState>> /\ Raised' = Raised
  BY DEF frameVars, poolVars, scanVars, Raised
<1>6. FramesInv' /\ ControlTypes' /\ Control' /\ [FramesNext]_frameVars
  BY <1>5, FramesStill DEF WithinStrengthen, SearchInv, ControlTypes
<1>7. Idle'
  BY <1>1, <1>2, <1>5 DEF SearchInv, Idle, n
<1>8. \A x \in 1..n : stack'[x].cubeState = stack[x].cubeState /\ stack'[x].ctg = stack[x].ctg
  BY <1>2, <1>3, <1>4, TopFacts
<1>9. PoolInv'
  <2>1. PoolTypes'
    BY <1>5 DEF SearchInv, PoolInv, PoolTypes, Obligation
  <2>2. NoDanglingState'
    BY <1>2, <1>5, <1>8 DEF SearchInv, PoolInv, NoDanglingState, n
  <2>3. Ownership'
    <3>1. \A x \in 1..n : Owned(x)' = Owned(x)
      BY <1>8 DEF Owned
    <3>2. \A x \in 1..(n - 1) : x \in 1..n
      BY <1>1 DEF n
    <3>3. Ownership
      BY DEF SearchInv, PoolInv
    <3>4. Len(stack) = n
      BY DEF n
    <3> QED BY <1>2, <1>5, <3>1, <3>2, <3>3, <3>4 DEF Ownership
  <2> QED BY <1>5, <2>1, <2>2, <2>3 DEF SearchInv, PoolInv
<1>10. StackInv'
  <2>1. StackTypes'
    <3> DEFINE Typed(x, act) ==
                 /\ act.level \in 0..k /\ act.depth = x
                 /\ act.cube \subseteq Lit /\ act.kept \subseteq act.cube
                 /\ act.attempts \in 0..MicAttempts
                 /\ act.ctgs \in 0..MaxCTGs /\ act.joins \in 0..MaxJoins
    <3>1. n <= MaxDepth + 1 /\ \A x \in 1..n : Typed(x, stack[x])
      BY DEF SearchInv, StackInv, StackTypes, n
    <3>2. Typed(n, a)
      BY <1>1 DEF n
    <3> HIDE DEF Typed
    <3>3. \A x \in 1..n : Typed(x, stack'[x])
      BY <1>2, <1>3, <3>1, <3>2
    <3> QED BY <1>2, <1>5, <3>1, <3>3 DEF StackTypes, Typed
  <2>2. Nesting'
    <3>1. Nesting
      BY DEF SearchInv, StackInv
    <3>2. ASSUME NEW x \in 1..n, x < n \/ pc' = "down"
          PROVE  stack'[x].attempts # 0 /\ stack'[x].drop \subseteq stack'[x].cube /\ stack'[x].down \subseteq stack'[x].cube
      <4>1. CASE x = n
        BY <1>1, <1>2, <3>2, <4>1 DEF n
      <4>2. CASE x \in 1..(n - 1)
        <5>1. x \in 1..Len(stack) /\ x < Len(stack)
          BY <1>1, <4>2 DEF n
        <5> QED BY <1>2, <3>1, <4>2, <5>1 DEF Nesting
      <4> QED BY <1>3, <4>1, <4>2
    <3>3. ASSUME NEW x \in 1..(n - 1)
          PROVE  stack'[x].j \in 1..(k' + 1) /\ stack'[x + 1].level = stack'[x].j - 1
      <4>1. stack[x].j \in 1..(k + 1) /\ stack[x + 1].level = stack[x].j - 1
        BY <3>1 DEF Nesting, n
      <4>2. x + 1 \in 1..n
        BY <1>1 DEF n
      <4>3. stack'[x + 1].level = stack[x + 1].level
        BY <1>2, <1>3, <1>4, <4>2
      <4> QED BY <1>2, <1>5, <4>1, <4>3
    <3>4. stack'[1].cube \subseteq states[obl.state].latches
      <4>1. 1 \in 1..n
        BY <1>1 DEF n
      <4>2. stack'[1].cube \subseteq stack[1].cube
        BY <1>2, <1>3, <1>4, <4>1
      <4> QED BY <3>1, <4>2 DEF Nesting
    <3>5. Len(stack') = n
      BY <1>2
    <3> QED BY <1>5, <3>2, <3>3, <3>4, <3>5 DEF Nesting
  <2>3. GeneralizedCubesAreInductive'
    <3>1. ASSUME NEW x \in 1..n
          PROVE  ExcludesInitial(stack'[x].cube) /\ Inductive(stack'[x].level, stack'[x].cube)
      <4>1. CASE x = n
        BY <1>2, <4>1
      <4>2. CASE x \in 1..(n - 1)
        BY <1>2, <4>2 DEF SearchInv, StackInv, GeneralizedCubesAreInductive, ExcludesInitial, n
      <4> QED BY <1>3, <4>1, <4>2
    <3>2. Len(stack') = n
      BY <1>2
    <3> QED BY <1>5, <3>1, <3>2 DEF GeneralizedCubesAreInductive, ExcludesInitial, Inductive, CTIs
  <2> QED BY <1>2, <2>1, <2>2, <2>3 DEF StackInv
<1>11. QueueInv'
  <2>1. Accounted'
    <3>1. Accounted
      BY DEF SearchInv, QueueInv
    <3>2. \A x \in 1..(n - 1) : Owned(x)' = Owned(x)
      BY <1>2 DEF Owned
    <3>3. Len(stack) = n
      BY DEF n
    <3> QED BY <1>2, <1>5, <3>1, <3>2, <3>3 DEF Accounted
  <2>2. ObligationsAreRelative'
    BY <1>5 DEF SearchInv, QueueInv, ObligationsAreRelative
  <2>3. ObligationsAreDoomed'
    BY <1>5 DEF SearchInv, QueueInv, ObligationsAreDoomed
  <2> QED BY <2>1, <2>2, <2>3 DEF QueueInv
<1> QED BY <1>6, <1>7, <1>9, <1>10, <1>11 DEF SearchInv

\* mic() keeps the next literal and goes on: the cube is what it was.
LEMMA NotDroppedSearch ==
  ASSUME SearchInv, pc = "down", pc' = "mic", stack' = ReplaceTop(NotDropped(Top)),
         UNCHANGED <<frameVars, earliest, trivial, poolVars, scanVars, cexState>>
  PROVE  SearchInv' /\ [FramesNext]_frameVars
<1> DEFINE a == NotDropped(Top)
<1>1. /\ Top \in ActivationRecord /\ Top.cube \in SUBSET Lit /\ Top.kept \subseteq Top.cube
      /\ Top.attempts \in 0..MicAttempts /\ Top.attempts # 0 /\ Top.drop \subseteq Top.cube
      /\ Top.cubeState = 0 /\ Top.ctg = 0
      /\ ExcludesInitial(Top.cube) /\ Inductive(Top.level, Top.cube)
  BY TopFacts
<1>2. /\ a = [Top EXCEPT !.drop = {}, !.down = {}, !.ctgs = 0, !.joins = 0,
                        !.kept = @ \cup Top.drop, !.attempts = @ - 1]
  BY DEF NotDropped, LeaveDown
<1>3. /\ a.level = Top.level /\ a.depth = Top.depth /\ a.cube = Top.cube
      /\ a.kept = Top.kept \cup Top.drop /\ a.attempts = Top.attempts - 1
      /\ a.ctgs = 0 /\ a.joins = 0 /\ a.cubeState = 0 /\ a.ctg = 0
  BY <1>1, <1>2 DEF ActivationRecord
<1>4. MicAttempts \in Nat /\ MaxCTGs \in Nat /\ MaxJoins \in Nat
  BY LimitsAssumption
<1>5. a.attempts \in 0..MicAttempts /\ a.ctgs \in 0..MaxCTGs /\ a.joins \in 0..MaxJoins
  BY <1>1, <1>3, <1>4
<1>6. a \in ActivationRecord
  <2>1. Top.kept \cup Top.drop \in SUBSET Lit /\ Top.attempts - 1 \in Nat /\ 0 \in Nat /\ {} \in SUBSET Lit
    BY <1>1, <1>4
  <2> HIDE DEF a
  <2> QED BY <1>1, <1>2, <2>1 DEF ActivationRecord
<1>7. a.cube \subseteq Top.cube /\ a.kept \subseteq a.cube
  BY <1>1, <1>3
<1> HIDE DEF a
<1> QED BY <1>1, <1>3, <1>5, <1>6, <1>7, TopChanged DEF a

LEMMA TryDropSearch == ASSUME SearchInv, TryDrop
  PROVE  SearchInv' /\ [FramesNext]_frameVars
<1>1. pc = "mic" /\ Top.attempts # 0 /\ pc' = "down"
      /\ UNCHANGED <<frameVars, earliest, trivial, poolVars, scanVars, cexState>>
  BY DEF TryDrop, MicFinished
<1>2. PICK p \in Top.cube \ Top.kept :
        stack' = ReplaceTop([Top EXCEPT !.drop = {p}, !.down = Top.cube \ {p}])
  BY DEF TryDrop
<1> DEFINE a == [Top EXCEPT !.drop = {p}, !.down = Top.cube \ {p}]
<1>3. /\ Top \in ActivationRecord /\ Top.cube \in SUBSET Lit /\ Top.kept \subseteq Top.cube
      /\ Top.attempts \in 0..MicAttempts /\ Top.ctgs \in 0..MaxCTGs /\ Top.joins \in 0..MaxJoins
      /\ Top.cubeState = 0 /\ Top.ctg = 0
      /\ ExcludesInitial(Top.cube) /\ Inductive(Top.level, Top.cube)
  BY <1>1, TopFacts
<1>4. /\ a.level = Top.level /\ a.depth = Top.depth /\ a.cube = Top.cube
      /\ a.kept = Top.kept /\ a.attempts = Top.attempts /\ a.drop = {p} /\ a.down = Top.cube \ {p}
      /\ a.ctgs = Top.ctgs /\ a.joins = Top.joins /\ a.cubeState = 0 /\ a.ctg = 0
  BY <1>3 DEF ActivationRecord
<1>5. a \in ActivationRecord
  BY <1>3, <1>4 DEF ActivationRecord
<1> HIDE DEF a
<1> QED BY <1>1, <1>2, <1>3, <1>4, <1>5, TopChanged DEF a

LEMMA DropInductiveSearch == ASSUME SearchInv, DropInductive
  PROVE  SearchInv' /\ [FramesNext]_frameVars
<1>1. pc = "down" /\ pc' = "mic" /\ Initiation(Top.down)
      /\ UNCHANGED <<frameVars, earliest, trivial, poolVars, scanVars, cexState>>
  BY DEF DropInductive
<1>2. PICK core \in Cores(Top.level, Top.down) : \E b \in Dropped(Top, core) : stack' = ReplaceTop(b)
  BY DEF DropInductive
<1>3. PICK a \in Dropped(Top, core) : stack' = ReplaceTop(a)
  BY <1>2
<1>4. PICK first \in Realign(Top, core) :
        a = [LeaveDown(Top) EXCEPT !.cube = core, !.kept = first, !.attempts = MicAttempts]
  BY <1>3 DEF Dropped
<1>5. /\ Top \in ActivationRecord /\ Top.cube \in SUBSET Lit /\ Top.down \subseteq Top.cube
      /\ Top.cubeState = 0 /\ Top.ctg = 0
  BY <1>1, TopFacts
<1>6. core \subseteq Top.down /\ Inductive(Top.level, core) /\ ExcludesInitial(core)
  BY <1>1, InitiationExcludes, CoreOfCube
<1>7. first \subseteq core
  BY <1>4 DEF Realign, kSubset
<1>8. MicAttempts \in Nat /\ MaxCTGs \in Nat /\ MaxJoins \in Nat
  BY LimitsAssumption
<1>9. /\ a.level = Top.level /\ a.depth = Top.depth /\ a.cube = core
      /\ a.kept = first /\ a.attempts = MicAttempts
      /\ a.ctgs = 0 /\ a.joins = 0 /\ a.cubeState = 0 /\ a.ctg = 0
  BY <1>4, <1>5 DEF LeaveDown, ActivationRecord
<1>10. a \in ActivationRecord
  BY <1>4, <1>5, <1>6, <1>7, <1>8 DEF LeaveDown, ActivationRecord
<1>11. a.attempts \in 0..MicAttempts /\ a.ctgs \in 0..MaxCTGs /\ a.joins \in 0..MaxJoins
       /\ a.cube \subseteq Top.cube /\ a.kept \subseteq a.cube
  BY <1>5, <1>6, <1>7, <1>8, <1>9
<1> QED BY <1>1, <1>3, <1>6, <1>9, <1>10, <1>11, TopChanged

LEMMA JoinSearch == ASSUME SearchInv, JoinCTG
  PROVE  SearchInv' /\ [FramesNext]_frameVars
<1>1. pc = "down" /\ UNCHANGED <<frameVars, earliest, trivial, poolVars, scanVars, cexState>>
  BY DEF JoinCTG
<1>2. PICK ctg \in CTGs :
         IF Top.joins < MaxJoins /\ Top.kept \subseteq ctg.latches
         THEN /\ stack' = ReplaceTop([Top EXCEPT !.down = @ \cap ctg.latches, !.ctgs = 0, !.joins = @ + 1])
              /\ UNCHANGED pc
         ELSE stack' = ReplaceTop(NotDropped(Top)) /\ pc' = "mic"
  BY DEF JoinCTG
<1>3. CASE Top.joins < MaxJoins /\ Top.kept \subseteq ctg.latches
  <2> DEFINE a == [Top EXCEPT !.down = @ \cap ctg.latches, !.ctgs = 0, !.joins = @ + 1]
  <2>1. stack' = ReplaceTop(a) /\ pc' = "down"
    BY <1>1, <1>2, <1>3
  <2>2. /\ Top \in ActivationRecord /\ Top.cube \in SUBSET Lit /\ Top.kept \subseteq Top.cube
        /\ Top.attempts \in 0..MicAttempts /\ Top.joins \in 0..MaxJoins
        /\ Top.attempts # 0 /\ Top.drop \subseteq Top.cube /\ Top.down \subseteq Top.cube
        /\ Top.cubeState = 0 /\ Top.ctg = 0
        /\ ExcludesInitial(Top.cube) /\ Inductive(Top.level, Top.cube)
    BY <1>1, TopFacts
  <2>3. /\ a.level = Top.level /\ a.depth = Top.depth /\ a.cube = Top.cube
        /\ a.kept = Top.kept /\ a.attempts = Top.attempts /\ a.drop = Top.drop
        /\ a.down = Top.down \cap ctg.latches
        /\ a.ctgs = 0 /\ a.joins = Top.joins + 1 /\ a.cubeState = 0 /\ a.ctg = 0
    BY <2>2 DEF ActivationRecord
  <2>4. MaxCTGs \in Nat /\ MaxJoins \in Nat
    BY LimitsAssumption
  <2>5. a.ctgs \in 0..MaxCTGs /\ a.joins \in 0..MaxJoins
    BY <1>3, <2>2, <2>3, <2>4
  <2>6. a \in ActivationRecord
    <3>1. Top.down \cap ctg.latches \in SUBSET Lit /\ Top.joins + 1 \in Nat /\ 0 \in Nat
      BY <2>2, <2>4
    <3> QED BY <2>2, <3>1 DEF ActivationRecord
  <2> HIDE DEF a
  <2> QED BY <1>1, <2>1, <2>2, <2>3, <2>5, <2>6, TopChanged
<1>4. CASE ~(Top.joins < MaxJoins /\ Top.kept \subseteq ctg.latches)
  BY <1>1, <1>2, <1>4, NotDroppedSearch
<1> QED BY <1>3, <1>4

\* Every step of mic() and ctgDown() that neither starts nor ends a nested mic().
LEMMA DownSearch ==
  ASSUME SearchInv, TryDrop \/ DropCoversInitial \/ DropInductive \/ DropTooDeep \/ JoinCTG
  PROVE  SearchInv' /\ [FramesNext]_frameVars
<1>1. CASE DropCoversInitial
  BY <1>1, NotDroppedSearch DEF DropCoversInitial
<1>2. CASE DropTooDeep
  BY <1>2, NotDroppedSearch DEF DropTooDeep
<1> QED BY <1>1, <1>2, TryDropSearch, DropInductiveSearch, JoinSearch

-----------------------------------------------------------------------------
(* generalize() and the nested calls of mic().                             *)

\* addCube() of the cube that the last activation of mic() is left with.
LEMMA FramesStrengthened ==
  ASSUME SearchInv, pc = "mic", NEW n \in 1..(k + 1), Inductive(n - 1, Top.cube),
         NEW next \in {"handle", "down"}, AddCube(n, Top.cube, TRUE, borderCubes, next),
         UNCHANGED <<k, verdict, trivial, scanVars>>
  PROVE  /\ FramesInv' /\ ControlTypes' /\ Control' /\ [FramesNext]_frameVars
         /\ pc' = next \/ pc' = "aborted"
         /\ pc' = "aborted" => Initial = {}
         /\ \A i \in 0..(k + 1) : solvers'[i] \subseteq solvers[i]
         /\ \A i \in 1..n : \A s \in solvers'[i] : ~(Top.cube \subseteq s)
<1>1. FramesInv /\ Extended /\ verdict = "none" /\ earliest \in 1..(k + 1) /\ k \in Nat \ {0}
      /\ Top.cube \in SUBSET Lit /\ ExcludesInitial(Top.cube)
  BY TopFacts
<1>2. /\ [FramesNext]_frameVars
      /\ Frames' = Frames /\ earliest' \in 1..(k + 1)
      /\ pc' = next \/ (pc' = "aborted" /\ Top.cube = {})
      /\ \A i \in Frames : solvers'[i] \subseteq solvers[i]
      /\ \A i \in 1..n : \A s \in solvers'[i] : ~(Top.cube \subseteq s)
  BY <1>1, CubeAdded
<1>3. FramesInv'
  BY <1>1, <1>2, NextFrames
<1>4. ControlTypes'
  BY <1>1, <1>2 DEF SearchInv, ControlTypes, scanVars
<1>5. Top.cube = {} => Initial = {}
  BY <1>1 DEF ExcludesInitial
<1>6. Control'
  BY <1>1, <1>2, <1>5 DEF SearchInv, Control, Extended
<1> QED BY <1>1, <1>2, <1>3, <1>4, <1>5, <1>6 DEF Extended

LEMMA GeneralizedSearch == ASSUME SearchInv, Generalized
  PROVE  SearchInv' /\ [FramesNext]_frameVars
<1> DEFINE n == Pushed(Top.level + 1, Top.cube)
           q == [obl EXCEPT !.level = n]
           c == states[obl.state].latches
<1>1. /\ pc = "mic" /\ Len(stack) = 1 /\ AddCube(n, Top.cube, TRUE, borderCubes, "handle")
      /\ obls' = obls \cup HigherObligation(n) /\ obl' = NoObl /\ stack' = <<>>
      /\ UNCHANGED <<k, verdict, trivial, states, scanVars, cexState>>
  BY DEF Generalized
<1>2. /\ k \in Nat \ {0} /\ Top.level \in 0..k /\ Inductive(Top.level, Top.cube)
      /\ obl # NoObl /\ obl \in Raised /\ cexState = 0 /\ PoolInv /\ obl.state \in DOMAIN states
      /\ obl \in Obligation
  BY <1>1, TopFacts
<1>3. n \in 1..(k + 1) /\ Inductive(n - 1, Top.cube)
  <2>1. Top.level + 1 \in 1..(k + 1) /\ (Top.level + 1) - 1 = Top.level
    BY <1>2
  <2>2. n \in (Top.level + 1)..(k + 1) /\ Inductive(n - 1, Top.cube)
    BY <1>2, <2>1, PushedLevel
  <2> QED BY <1>2, <2>2
<1>4. Top.cube \subseteq c
  BY <1>1 DEF SearchInv, StackInv, Nesting, Top
<1> HIDE DEF n
<1>5. /\ FramesInv' /\ ControlTypes' /\ Control' /\ [FramesNext]_frameVars
      /\ pc' = "handle" \/ pc' = "aborted"
      /\ \A i \in 0..(k + 1) : solvers'[i] \subseteq solvers[i]
      /\ \A i \in 1..n : \A s \in solvers'[i] : ~(Top.cube \subseteq s)
  BY <1>1, <1>3, FramesStrengthened
<1>6. \A s \in solvers'[n] : ~(c \subseteq s)
  BY <1>3, <1>4, <1>5
<1>7. q.state = obl.state /\ q.level = n /\ (n <= k => q \in Obligation)
  BY <1>2, <1>3 DEF Obligation
<1>8. obls' = IF n <= k THEN obls \cup {q} ELSE obls
  BY <1>1 DEF HigherObligation
<1>9. \A o \in obls : o \in Obligation /\ o.state \in DOMAIN states /\ o.state # obl.state /\ o \in Raised
  BY <1>2 DEF PoolInv, PoolTypes, NoDanglingState, SearchInv, QueueInv, Accounted, Raised
<1> HIDE DEF q
<1>10. Raised' = obls' /\ obl' \notin obls'
  <2>1. NoObl.state = 0 /\ 0 \notin DOMAIN states
    BY <1>2 DEF NoObl, PoolInv, PoolTypes
  <2> QED BY <1>1, <1>2, <1>7, <1>8, <1>9, <2>1 DEF Raised
<1>11. StackInv' /\ Ownership' /\ 1..Len(stack') = {} /\ 1..(Len(stack') - 1) = {}
  BY <1>1, <1>5, EmptyStack
<1>12. Idle'
  BY <1>1, <1>2, <1>5 DEF Idle
<1>13. PoolInv'
  <2>1. obls' \subseteq Obligation'
    BY <1>1, <1>7, <1>8, <1>9 DEF Obligation
  <2>2. PoolTypes'
    BY <1>1, <1>2, <2>1 DEF PoolInv, PoolTypes
  <2>3. NoDanglingState'
    BY <1>1, <1>2, <1>7, <1>8, <1>9, <1>11 DEF PoolInv, NoDanglingState
  <2> QED BY <1>1, <1>2, <1>11, <2>2, <2>3 DEF PoolInv
<1>14. QueueInv'
  <2>1. Accounted'
    <3>1. \A o, p \in Raised' : o.state = p.state => o = p
      BY <1>7, <1>8, <1>9, <1>10 DEF SearchInv, QueueInv, Accounted
    <3>2. ASSUME NEW x \in DOMAIN states'
          PROVE  (\E o \in Raised' : o.state = x)
                 \/ \A s \in solvers'[k' + 1] : ~(states'[x].latches \subseteq s)
      <4>1. (\E o \in Raised : o.state = x) \/ \A s \in solvers[k + 1] : ~(states[x].latches \subseteq s)
        <5>1. 1..(Len(stack) - 1) = {}
          BY <1>1
        <5> QED BY <1>1, <5>1 DEF SearchInv, QueueInv, Accounted
      <4>2. CASE x = obl.state
        <5>1. n <= k \/ n = k + 1
          BY <1>2, <1>3
        <5> QED BY <1>1, <1>6, <1>7, <1>8, <1>10, <4>2, <5>1
      <4>3. CASE x # obl.state
        <5>1. k + 1 \in 0..(k + 1)
          BY <1>2
        <5> QED BY <1>1, <1>5, <1>8, <1>10, <4>1, <4>3, <5>1 DEF Raised
      <4> QED BY <4>2, <4>3
    <3> QED BY <1>5, <1>10, <3>1, <3>2 DEF Accounted
  <2>2. ObligationsAreRelative'
    <3>1. ASSUME NEW o \in obls, NEW s \in solvers'[o.level], NEW i \in states[o.state].inputs,
                 states[o.state].latches \subseteq s
          PROVE  ~LiftTrans(s, i)
      <4>1. o.level \in 0..(k + 1)
        BY <1>2, <1>9 DEF Obligation
      <4> QED BY <1>5, <3>1, <4>1 DEF SearchInv, QueueInv, ObligationsAreRelative
    <3> QED BY <1>1, <1>6, <1>7, <1>8, <3>1 DEF ObligationsAreRelative
  <2>3. ObligationsAreDoomed'
    BY <1>1, <1>2, <1>7, <1>8, <1>9, <1>10 DEF SearchInv, QueueInv, ObligationsAreDoomed
  <2> QED BY <2>1, <2>2, <2>3 DEF QueueInv
<1> QED BY <1>5, <1>11, <1>12, <1>13, <1>14 DEF SearchInv

LEMMA BlockCTGSearch == ASSUME SearchInv, BlockCTG
  PROVE  SearchInv' /\ [FramesNext]_frameVars
<1>0. PICK n : n = Len(stack)
  OBVIOUS
<1>1. pc = "down" /\ pc' = "mic"
      /\ UNCHANGED <<frameVars, earliest, trivial, obls, obl, scanVars, cexState>>
  BY DEF BlockCTG
<1>2. PICK ctg \in CTGs :
       /\ Blockable(ctg)
       /\ states' = NewState(DownPool, ctg)
       /\ \E core \in Cores(Top.level - 1, ctg.latches) :
            LET j == Pushed(Top.level, core) IN
            stack' = Append(ReplaceTop([Top EXCEPT !.ctgs = @ + 1, !.j = j, !.ctg = CtgState,
                                                   !.cubeState = CubeState]),
                            NestedMic(j, core))
  BY DEF BlockCTG
<1>3. PICK core \in Cores(Top.level - 1, ctg.latches) :
        stack' = Append(ReplaceTop([Top EXCEPT !.ctgs = @ + 1, !.j = Pushed(Top.level, core),
                                               !.ctg = CtgState, !.cubeState = CubeState]),
                        NestedMic(Pushed(Top.level, core), core))
  BY <1>2
<1> DEFINE j == Pushed(Top.level, core)
           a == [Top EXCEPT !.ctgs = @ + 1, !.j = j, !.ctg = CtgState, !.cubeState = CubeState]
           b == NestedMic(j, core)
<1>4. /\ FramesInv /\ Extended /\ k \in Nat \ {0} /\ PoolInv
      /\ stack \in Seq(ActivationRecord) /\ n \in Nat \ {0} /\ n \in 1..n
      /\ Top \in ActivationRecord /\ Top.depth = n /\ Top.level \in 0..k
      /\ Top.cube \in SUBSET Lit /\ Top.kept \subseteq Top.cube
      /\ Top.attempts \in 0..MicAttempts /\ Top.ctgs \in 0..MaxCTGs /\ Top.joins \in 0..MaxJoins
      /\ Top.attempts # 0 /\ Top.drop \subseteq Top.cube /\ Top.down \subseteq Top.cube
      /\ ExcludesInitial(Top.cube) /\ Inductive(Top.level, Top.cube)
      /\ obl # NoObl /\ obl \in Raised /\ cexState = 0 /\ obl.state \in DOMAIN states
  BY <1>0, <1>1, TopFacts
<1>5. /\ Top.depth <= MaxDepth
      /\ ctg \in StatesOf(DownPool, CTIs(Top.level, Top.down, Top.down), CubeState)
      /\ Top.ctgs < MaxCTGs /\ Top.level > 1 /\ Initiation(ctg.latches)
  BY <1>2 DEF CTGs, Blockable
\* The two new States.
<1>6. /\ ClosedPool(DownPool) /\ CubeState \in Nat \ {0} /\ CubeState \notin DOMAIN states
      /\ DOMAIN DownPool = DOMAIN states \cup {CubeState}
      /\ DownPool[CubeState] = [latches |-> Top.down, inputs |-> {}, successor |-> 0]
      /\ \A x \in DOMAIN states : DownPool[x] = states[x]
  <2> DEFINE st == [latches |-> Top.down, inputs |-> {}, successor |-> 0]
  <2>1. st \in StateRecord /\ st.successor \in {0} \cup DOMAIN states
    BY <1>4 DEF StateRecord
  <2>2. ClosedPool(states)
    BY <1>4, SearchPoolClosed
  <2>3. DownPool = NewState(states, st) /\ CubeState = FreshState(states)
    BY DEF DownPool, CubeState
  <2> HIDE DEF st
  <2>4. /\ ClosedPool(DownPool) /\ CubeState \in Nat \ {0} /\ CubeState \notin DOMAIN states
        /\ DOMAIN DownPool = DOMAIN states \cup {CubeState} /\ DownPool[CubeState] = st
        /\ \A x \in DOMAIN states : DownPool[x] = states[x]
    <3>1. Grown(DownPool, states, st)
      BY <2>1, <2>2, <2>3, PoolGrown
    <3> QED BY <2>3, <3>1 DEF Grown
  <2> QED BY <2>4 DEF st
<1>7. ctg \in StateRecord /\ ctg.successor = CubeState /\ ctg.latches \in SUBSET Lit
  <2>1. CTIs(Top.level, Top.down, Top.down) \subseteq State \X Inputs \X Inputs
    <3>1. Top.level \in Frames /\ FramesTypeOK
      BY <1>4 DEF Extended, FramesInv
    <3> QED BY <3>1, CTIsAreTriples
  <2>2. CubeState \in Nat
    BY <1>6
  <2>3. ctg \in StateRecord /\ ctg.successor = CubeState
    BY <1>5, <2>1, <2>2, LiftedState
  <2> QED BY <2>3 DEF StateRecord
<1>8. /\ ClosedPool(states') /\ CtgState \in Nat \ {0} /\ CtgState \notin DOMAIN states /\ CtgState # CubeState
      /\ DOMAIN states' = DOMAIN states \cup {CubeState, CtgState}
      /\ states'[CubeState].successor = 0 /\ states'[CtgState].successor = CubeState
      /\ \A x \in DOMAIN states : states'[x] = states[x]
  <2>1. ctg.successor \in {0} \cup DOMAIN DownPool
    BY <1>6, <1>7
  <2>2. CtgState = FreshState(DownPool)
    BY DEF CtgState
  <2>3. /\ ClosedPool(states') /\ CtgState \in Nat \ {0} /\ CtgState \notin DOMAIN DownPool
        /\ DOMAIN states' = DOMAIN DownPool \cup {CtgState} /\ states'[CtgState] = ctg
        /\ \A x \in DOMAIN DownPool : states'[x] = DownPool[x]
    <3>1. Grown(states', DownPool, ctg)
      BY <1>2, <1>6, <1>7, <2>1, PoolGrown
    <3> QED BY <2>2, <3>1 DEF Grown
  <2> QED BY <1>6, <1>7, <2>3
\* The nested mic().
<1>9. /\ core \subseteq ctg.latches /\ ExcludesInitial(core) /\ core \in SUBSET Lit
      /\ j \in 1..(k + 1) /\ j - 1 \in 0..k /\ Inductive(j - 1, core)
  <2>1. core \subseteq ctg.latches /\ ExcludesInitial(core) /\ Inductive(Top.level - 1, core)
    BY <1>5, CoreOfCube, InitiationExcludes
  <2>2. Top.level \in 1..(k + 1)
    BY <1>4, <1>5
  <2>3. j \in Top.level..(k + 1) /\ Inductive(j - 1, core)
    BY <1>4, <2>1, <2>2, PushedLevel
  <2> QED BY <1>4, <1>5, <1>7, <2>1, <2>3
<1> HIDE DEF j
<1>10. /\ a \in ActivationRecord /\ a.level = Top.level /\ a.depth = Top.depth /\ a.cube = Top.cube
       /\ a.kept = Top.kept /\ a.attempts = Top.attempts /\ a.drop = Top.drop /\ a.down = Top.down
       /\ a.ctgs = Top.ctgs + 1 /\ a.joins = Top.joins /\ a.cubeState = CubeState /\ a.ctg = CtgState /\ a.j = j
  <2>1. Top.ctgs + 1 \in Nat /\ j \in Nat /\ CubeState \in Nat /\ CtgState \in Nat
    BY <1>4, <1>6, <1>8, <1>9
  <2> QED BY <1>4, <2>1 DEF ActivationRecord
<1>11. /\ b \in ActivationRecord /\ b.level = j - 1 /\ b.depth = n + 1 /\ b.cube = core /\ b.kept = {}
       /\ b.attempts = MicAttempts /\ b.ctgs = 0 /\ b.joins = 0 /\ b.cubeState = 0 /\ b.ctg = 0
  <2>1. j - 1 \in Nat /\ Top.depth + 1 \in Nat /\ Top.depth + 1 = n + 1 /\ MicAttempts \in Nat
        /\ 0 \in Nat /\ {} \in SUBSET Lit
    BY <1>4, <1>9, LimitsAssumption
  <2> QED BY <1>9, <2>1 DEF NestedMic, Activation, ActivationRecord
<1>12. /\ stack' \in Seq(ActivationRecord) /\ Len(stack') = n + 1
       /\ stack'[n + 1] = b /\ stack'[n] = a /\ \A x \in 1..(n - 1) : stack'[x] = stack[x]
  <2> DEFINE r == ReplaceTop(a)
  <2>1. /\ r \in Seq(ActivationRecord) /\ Len(r) = n /\ r[n] = a
        /\ \A x \in 1..(n - 1) : r[x] = stack[x]
    <3> HIDE DEF a
    <3> QED BY <1>0, <1>4, <1>10, TopReplaced
  <2>2. stack' = Append(r, b)
    BY <1>3 DEF j
  <2> HIDE DEF r, a, b
  <2>3. /\ stack' \in Seq(ActivationRecord) /\ Len(stack') = n + 1 /\ stack'[n + 1] = b
        /\ \A x \in 1..n : stack'[x] = r[x]
    BY <1>4, <1>11, <2>1, <2>2
  <2> QED BY <1>4, <2>1, <2>3
<1>13. \A x \in 1..(n + 1) : x \in 1..(n - 1) \/ x = n \/ x = n + 1
  BY <1>4
<1>14. Top = stack[n] /\ (n + 1) - 1 = n /\ \A x \in 1..n : x \in 1..(n - 1) \/ x = n
  BY <1>0, <1>4 DEF Top
<1>15. UNCHANGED <<k, solvers, obls, obl, level, todo, cexState>> /\ Raised' = Raised
  BY <1>1 DEF frameVars, scanVars, Raised
<1>16. \A o \in Raised : o.state \in DOMAIN states
  BY <1>4 DEF PoolInv, NoDanglingState, Raised
<1> HIDE DEF a, b
<1>17. FramesInv' /\ ControlTypes' /\ Control' /\ [FramesNext]_frameVars
  BY <1>1, FramesStill DEF WithinStrengthen, SearchInv, ControlTypes
<1>18. Idle'
  BY <1>1, <1>4, <1>12 DEF Idle
<1>19. /\ Owned(n)' = {CubeState, CtgState} /\ Owned(n + 1)' = {0}
       /\ \A x \in 1..(n - 1) : Owned(x)' = Owned(x) /\ Owned(x) \subseteq DOMAIN states
  <2>1. \A x \in 1..(n - 1) : x \in 1..Len(stack) /\ x # Len(stack)
    BY <1>0, <1>4
  <2> QED BY <1>10, <1>11, <1>12, <2>1 DEF Owned, SearchInv, PoolInv, Ownership
<1>20. PoolInv'
  <2>1. PoolTypes'
    <3>1. \A x \in DOMAIN states' : states'[x] \in StateRecord
      BY <1>8 DEF ClosedPool
    <3> QED BY <1>4, <1>8, <1>15, <3>1 DEF ClosedPool, PoolInv, PoolTypes, Obligation
  <2>2. NoDanglingState'
    <3>1. \A x \in DOMAIN states' : states'[x].successor \in {0} \cup DOMAIN states'
      BY <1>8 DEF ClosedPool
    <3>2. \A o \in Raised' : o.state \in DOMAIN states'
      BY <1>8, <1>15, <1>16
    <3>3. \A x \in 1..(n + 1) : Owned(x)' \subseteq {0} \cup DOMAIN states'
      BY <1>8, <1>13, <1>19
    <3> QED BY <1>12, <3>1, <3>2, <3>3 DEF NoDanglingState, Raised, Owned
  <2>3. Ownership'
    <3>1. Ownership
      BY <1>4 DEF PoolInv
    <3>2. \A x \in 1..(n + 1) : IF x = n + 1 THEN Owned(x)' = {0} ELSE Owned(x)' \subseteq DOMAIN states'
      BY <1>8, <1>13, <1>19
    <3>3. ASSUME NEW x \in 1..n, NEW y \in 1..n, x # y PROVE Owned(x)' \cap Owned(y)' = {}
      <4>1. x \in 1..(n - 1) /\ y \in 1..(n - 1) => Owned(x) \cap Owned(y) = {}
        BY <1>0, <3>1, <3>3 DEF Ownership
      <4> QED BY <1>6, <1>8, <1>14, <1>19, <3>3, <4>1
    <3>4. ASSUME NEW x \in 1..n, NEW o \in Raised' PROVE o.state \notin Owned(x)'
      <4>1. x \in 1..(n - 1) => o.state \notin Owned(x)
        BY <1>0, <1>15, <3>1 DEF Ownership
      <4> QED BY <1>6, <1>8, <1>14, <1>15, <1>16, <1>19, <4>1
    <3>5. ASSUME NEW x \in 1..n, NEW m \in DOMAIN states', states'[m].successor \in Owned(x)'
          PROVE  m \in Owned(x)'
      <4>1. CASE m \in {CubeState, CtgState}
        <5>1. x # n => states'[m].successor \in DOMAIN states
          BY <1>14, <1>19, <3>5
        <5>2. 0 \notin DOMAIN states
          BY <1>4 DEF PoolInv, PoolTypes
        <5> QED BY <1>6, <1>8, <1>14, <1>19, <4>1, <5>1, <5>2
      <4>2. CASE m \in DOMAIN states
        <5>1. states'[m].successor = states[m].successor /\ states[m].successor \in {0} \cup DOMAIN states
          BY <1>4, <1>8, <4>2 DEF PoolInv, NoDanglingState
        <5>2. x # n
          BY <1>6, <1>8, <1>19, <3>5, <5>1
        <5>3. x \in 1..(n - 1)
          BY <1>14, <5>2
        <5>4. m \in Owned(x)
          BY <1>0, <1>19, <3>1, <3>5, <4>2, <5>1, <5>3 DEF Ownership
        <5> QED BY <1>19, <5>3, <5>4
      <4> QED BY <1>8, <4>1, <4>2
    <3> QED BY <1>12, <1>14, <3>2, <3>3, <3>4, <3>5 DEF Ownership
  <2> QED BY <1>8, <2>1, <2>2, <2>3 DEF PoolInv, ClosedPool
<1>21. StackInv'
  <2>1. MaxDepth \in Nat /\ MaxCTGs \in Nat /\ MaxJoins \in Nat /\ MicAttempts \in Nat
    BY LimitsAssumption
  <2>2. StackTypes'
    <3>1. n + 1 <= MaxDepth + 1
      BY <1>4, <1>5, <2>1
    <3>2. ASSUME NEW x \in 1..(n - 1)
          PROVE  /\ stack'[x].level \in 0..k /\ stack'[x].depth = x
                 /\ stack'[x].cube \subseteq Lit /\ stack'[x].kept \subseteq stack'[x].cube
                 /\ stack'[x].attempts \in 0..MicAttempts
                 /\ stack'[x].ctgs \in 0..MaxCTGs /\ stack'[x].joins \in 0..MaxJoins
      <4>1. x \in 1..Len(stack)
        BY <1>0, <1>4
      <4> QED BY <1>12, <4>1 DEF SearchInv, StackInv, StackTypes
    <3>3. /\ a.level \in 0..k /\ a.depth = n /\ a.cube \subseteq Lit /\ a.kept \subseteq a.cube
          /\ a.attempts \in 0..MicAttempts /\ a.ctgs \in 0..MaxCTGs /\ a.joins \in 0..MaxJoins
      BY <1>4, <1>5, <1>10, <2>1
    <3>4. /\ b.level \in 0..k /\ b.depth = n + 1 /\ b.cube \subseteq Lit /\ b.kept \subseteq b.cube
          /\ b.attempts \in 0..MicAttempts /\ b.ctgs \in 0..MaxCTGs /\ b.joins \in 0..MaxJoins
      BY <1>9, <1>11, <2>1
    <3> QED BY <1>12, <1>13, <1>15, <3>1, <3>2, <3>3, <3>4 DEF StackTypes
  <2>3. Nesting'
    <3>1. Nesting
      BY DEF SearchInv, StackInv
    <3>2. ASSUME NEW x \in 1..n
          PROVE  stack'[x].attempts # 0 /\ stack'[x].drop \subseteq stack'[x].cube /\ stack'[x].down \subseteq stack'[x].cube
      <4>1. CASE x = n
        BY <1>4, <1>10, <1>12, <4>1
      <4>2. CASE x \in 1..(n - 1)
        <5>1. x \in 1..Len(stack) /\ x < Len(stack)
          BY <1>0, <1>4, <4>2
        <5> QED BY <1>1, <1>12, <3>1, <4>2, <5>1 DEF Nesting
      <4> QED BY <1>14, <4>1, <4>2
    <3>3. ASSUME NEW x \in 1..n
          PROVE  stack'[x].j \in 1..(k' + 1) /\ stack'[x + 1].level = stack'[x].j - 1
      <4>1. CASE x = n
        BY <1>9, <1>10, <1>11, <1>12, <1>15, <4>1
      <4>2. CASE x \in 1..(n - 1)
        <5>1. stack[x].j \in 1..(k + 1) /\ stack[x + 1].level = stack[x].j - 1
          BY <1>0, <1>1, <3>1, <4>2 DEF Nesting
        <5>2. x + 1 \in 1..n
          BY <1>4, <4>2
        <5>3. stack'[x + 1].level = stack[x + 1].level
          BY <1>10, <1>12, <1>14, <5>2
        <5> QED BY <1>12, <1>15, <4>2, <5>1, <5>3
      <4> QED BY <1>14, <4>1, <4>2
    <3>4. stack'[1].cube \subseteq states'[obl'.state].latches
      <4>1. 1 \in 1..n
        BY <1>4
      <4>2. stack'[1].cube = stack[1].cube
        BY <1>10, <1>12, <1>14, <4>1
      <4> QED BY <1>1, <1>4, <1>8, <1>15, <3>1, <4>2 DEF Nesting
    <3>5. \A x \in 1..(n + 1) : x < n + 1 => x \in 1..n
      BY <1>4
    <3> QED BY <1>1, <1>12, <1>14, <3>2, <3>3, <3>4, <3>5 DEF Nesting
  <2>4. GeneralizedCubesAreInductive'
    <3>1. ASSUME NEW x \in 1..(n + 1)
          PROVE  ExcludesInitial(stack'[x].cube) /\ Inductive(stack'[x].level, stack'[x].cube)
      <4>1. CASE x = n
        BY <1>4, <1>10, <1>12, <4>1
      <4>2. CASE x = n + 1
        BY <1>9, <1>11, <1>12, <4>2
      <4>3. CASE x \in 1..(n - 1)
        <5>1. x \in 1..Len(stack)
          BY <1>0, <1>4, <4>3
        <5> QED BY <1>12, <4>3, <5>1 DEF SearchInv, StackInv, GeneralizedCubesAreInductive, ExcludesInitial
      <4> QED BY <1>13, <4>1, <4>2, <4>3
    <3> QED BY <1>12, <1>15, <3>1 DEF GeneralizedCubesAreInductive, ExcludesInitial, Inductive, CTIs
  <2> QED BY <1>12, <2>2, <2>3, <2>4 DEF StackInv
<1>22. QueueInv'
  <2>1. Accounted'
    <3>1. Accounted
      BY DEF SearchInv, QueueInv
    <3>2. ASSUME NEW m \in DOMAIN states'
          PROVE  \/ \E o \in Raised' : o.state = m
                 \/ \E x \in 1..n : m \in Owned(x)'
                 \/ \A s \in solvers'[k' + 1] : ~(states'[m].latches \subseteq s)
      <4>1. CASE m \in {CubeState, CtgState}
        BY <1>4, <1>19, <4>1
      <4>2. CASE m \in DOMAIN states
        <5>1. \/ \E o \in Raised : o.state = m
              \/ \E x \in 1..(n - 1) : m \in Owned(x)
              \/ \A s \in solvers[k + 1] : ~(states[m].latches \subseteq s)
          BY <1>0, <1>1, <3>1, <4>2 DEF Accounted
        <5>2. \A x \in 1..(n - 1) : x \in 1..n
          BY <1>4
        <5> QED BY <1>8, <1>15, <1>19, <4>2, <5>1, <5>2
      <4> QED BY <1>8, <4>1, <4>2
    <3> QED BY <1>12, <1>14, <1>15, <3>1, <3>2 DEF Accounted
  <2>2. ObligationsAreRelative'
    <3>1. \A o \in obls : states'[o.state] = states[o.state]
      BY <1>8, <1>16 DEF Raised
    <3> QED BY <1>15, <3>1 DEF SearchInv, QueueInv, ObligationsAreRelative
  <2>3. ObligationsAreDoomed'
    <3>1. \A o \in Raised : states'[o.state] = states[o.state]
      BY <1>8, <1>16
    <3> QED BY <1>15, <3>1 DEF SearchInv, QueueInv, ObligationsAreDoomed
  <2> QED BY <2>1, <2>2, <2>3 DEF QueueInv
<1> QED BY <1>17, <1>18, <1>20, <1>21, <1>22 DEF SearchInv

LEMMA CTGBlockedSearch == ASSUME SearchInv, CTGBlocked
  PROVE  SearchInv' /\ [FramesNext]_frameVars
<1>0. PICK n : n = Len(stack) - 1
  OBVIOUS
<1> DEFINE a == stack[n]
           b == [a EXCEPT !.cubeState = 0, !.ctg = 0, !.j = 0]
           D == Owned(n)
<1>1. /\ pc = "mic" /\ Len(stack) > 1 /\ AddCube(a.j, Top.cube, TRUE, borderCubes, "down")
      /\ states' = DelStates(states, {a.cubeState, a.ctg})
      /\ stack' = [SubSeq(stack, 1, n) EXCEPT ![n] = b]
      /\ UNCHANGED <<k, verdict, trivial, obls, obl, scanVars, cexState>>
  BY <1>0 DEF CTGBlocked
<1>2. /\ k \in Nat \ {0} /\ Top.level \in 0..k /\ Inductive(Top.level, Top.cube) /\ PoolInv
      /\ obl # NoObl /\ obl \in Raised /\ cexState = 0 /\ obl.state \in DOMAIN states
      /\ stack \in Seq(ActivationRecord) /\ Len(stack) \in Nat \ {0} /\ Len(stack) <= MaxDepth + 1
  BY <1>1, TopFacts
<1>3. /\ n \in Nat \ {0} /\ Len(stack) = n + 1 /\ n \in 1..n /\ n \in 1..Len(stack)
      /\ \A x \in 1..n : x \in 1..Len(stack) /\ x < Len(stack) /\ x \in 1..(Len(stack) - 1)
                         /\ (x \in 1..(n - 1) \/ x = n)
      /\ \A x \in 1..(n - 1) : x \in 1..n /\ x # n
  BY <1>0, <1>1, <1>2
<1>4. /\ a \in ActivationRecord /\ Nesting /\ Ownership /\ Accounted
  BY <1>2, <1>3 DEF SearchInv, PoolInv, StackInv, QueueInv
<1>5. a.j \in 1..(k + 1) /\ Top.level = a.j - 1
  <2>1. Top = stack[n + 1]
    BY <1>3 DEF Top
  <2> QED BY <1>1, <1>3, <1>4, <2>1 DEF Nesting
<1>6. /\ FramesInv' /\ ControlTypes' /\ Control' /\ [FramesNext]_frameVars
      /\ pc' = "down" \/ pc' = "aborted"
      /\ \A i \in 0..(k + 1) : solvers'[i] \subseteq solvers[i]
  BY <1>1, <1>2, <1>5, FramesStrengthened
<1>7. /\ b \in ActivationRecord /\ b.level = a.level /\ b.depth = a.depth /\ b.cube = a.cube
      /\ b.kept = a.kept /\ b.attempts = a.attempts /\ b.drop = a.drop /\ b.down = a.down
      /\ b.ctgs = a.ctgs /\ b.joins = a.joins /\ b.cubeState = 0 /\ b.ctg = 0
  BY <1>4 DEF ActivationRecord
<1>8. /\ stack' \in Seq(ActivationRecord) /\ Len(stack') = n /\ stack'[n] = b
      /\ \A x \in 1..(n - 1) : stack'[x] = stack[x]
  <2> DEFINE r == SubSeq(stack, 1, n)
  <2> HIDE DEF a, b
  <2>1. r \in Seq(ActivationRecord) /\ Len(r) = n /\ \A x \in 1..n : r[x] = stack[x]
    BY <1>2, <1>3
  <2>2. stack' = [r EXCEPT ![n] = b]
    BY <1>1
  <2> HIDE DEF r
  <2> QED BY <1>3, <1>7, <2>1, <2>2, ExceptSeq
<1>9. D = {a.cubeState, a.ctg} /\ D \subseteq DOMAIN states
  <2>1. n # Len(stack)
    BY <1>3
  <2> QED BY <1>3, <1>4, <2>1 DEF Ownership, Owned
<1> HIDE DEF a, b, D
<1>10. /\ DOMAIN states' = DOMAIN states \ D /\ IsFiniteSet(DOMAIN states')
       /\ \A m \in DOMAIN states' : states'[m] = states[m]
       /\ states' \in [DOMAIN states' -> StateRecord]
  <2>1. IsFiniteSet(DOMAIN states) /\ \A m \in DOMAIN states : states[m] \in StateRecord
    BY <1>2 DEF PoolInv, PoolTypes
  <2>2. states' = DelStates(states, D)
    BY <1>1, <1>9
  <2> DEFINE pool == DelStates(states, D)
  <2>3. /\ DOMAIN pool = DOMAIN states \ D /\ IsFiniteSet(DOMAIN pool)
        /\ \A m \in DOMAIN states \ D : pool[m] = states[m]
        /\ pool \in [DOMAIN pool -> StateRecord]
    <3> HIDE DEF pool
    <3> QED BY <2>1, StatesDeleted DEF pool
  <2> HIDE DEF pool
  <2>4. states' = pool
    BY <2>2 DEF pool
  <2> QED BY <2>3, <2>4
<1>11. UNCHANGED <<k, obls, obl, cexState>> /\ Raised' = Raised
  BY <1>1 DEF Raised
<1>12. \A o \in Raised : o.state \in DOMAIN states'
  BY <1>2, <1>3, <1>4, <1>10 DEF PoolInv, NoDanglingState, Raised, Ownership, D
<1>13. Owned(n)' = {0} /\ \A x \in 1..(n - 1) : Owned(x)' = Owned(x) /\ Owned(x) \subseteq DOMAIN states'
  <2>1. ASSUME NEW x \in 1..(n - 1) PROVE Owned(x) \subseteq DOMAIN states /\ Owned(x) \cap D = {}
    BY <1>3, <1>4 DEF Ownership, D
  <2> QED BY <1>7, <1>8, <1>10, <2>1 DEF Owned
<1>14. Idle'
  BY <1>2, <1>3, <1>6, <1>8, <1>11 DEF Idle
<1>15. PoolInv'
  <2>1. PoolTypes'
    <3>1. obls \subseteq Obligation' /\ obl \in Obligation'
      <4>1. \A o \in Raised : o \in Obligation
        BY <1>2 DEF PoolInv, PoolTypes, Raised
      <4>2. \A o \in Raised : o \in Obligation'
        BY <1>11, <1>12, <4>1 DEF Obligation
      <4> QED BY <1>2, <4>2 DEF Raised
    <3>2. DOMAIN states' \subseteq Nat \ {0} /\ \A m \in DOMAIN states' : states'[m] \in StateRecord
      BY <1>2, <1>10 DEF PoolInv, PoolTypes
    <3> QED BY <1>2, <1>11, <3>1, <3>2 DEF PoolTypes
  <2>2. NoDanglingState'
    <3>1. ASSUME NEW m \in DOMAIN states' PROVE states'[m].successor \in {0} \cup DOMAIN states'
      <4>1. m \in DOMAIN states /\ m \notin D /\ states'[m] = states[m]
            /\ states[m].successor \in {0} \cup DOMAIN states
        BY <1>2, <1>10 DEF PoolInv, NoDanglingState
      <4>2. states[m].successor \notin D
        BY <1>3, <1>4, <4>1 DEF Ownership, D
      <4> QED BY <1>10, <4>1, <4>2
    <3>2. \A x \in 1..n : Owned(x)' \subseteq {0} \cup DOMAIN states'
      BY <1>3, <1>13
    <3> QED BY <1>8, <1>11, <1>12, <3>1, <3>2 DEF NoDanglingState, Raised, Owned
  <2>3. Ownership'
    <3>1. \A x \in 1..n : IF x = n THEN Owned(x)' = {0} ELSE Owned(x)' \subseteq DOMAIN states'
      BY <1>3, <1>13
    <3>2. \A x \in 1..(n - 1) : x \in 1..(Len(stack) - 1)
      BY <1>3
    <3>3. ASSUME NEW x \in 1..(n - 1), NEW y \in 1..(n - 1), x # y PROVE Owned(x)' \cap Owned(y)' = {}
      BY <1>4, <1>13, <3>2, <3>3 DEF Ownership
    <3>4. ASSUME NEW x \in 1..(n - 1), NEW o \in Raised' PROVE o.state \notin Owned(x)'
      BY <1>4, <1>11, <1>13, <3>2 DEF Ownership
    <3>5. ASSUME NEW x \in 1..(n - 1), NEW m \in DOMAIN states', states'[m].successor \in Owned(x)'
          PROVE  m \in Owned(x)'
      <4>1. m \in DOMAIN states /\ states[m].successor \in Owned(x)
        BY <1>10, <1>13, <3>5
      <4> QED BY <1>4, <1>13, <3>2, <4>1 DEF Ownership
    <3> QED BY <1>8, <3>1, <3>3, <3>4, <3>5 DEF Ownership
  <2> QED BY <1>10, <2>1, <2>2, <2>3 DEF PoolInv
<1>16. StackInv'
  <2>1. \A x \in 1..n : /\ stack'[x].level = stack[x].level /\ stack'[x].depth = stack[x].depth
                        /\ stack'[x].cube = stack[x].cube /\ stack'[x].kept = stack[x].kept
                        /\ stack'[x].attempts = stack[x].attempts
                        /\ stack'[x].drop = stack[x].drop /\ stack'[x].down = stack[x].down
                        /\ stack'[x].ctgs = stack[x].ctgs /\ stack'[x].joins = stack[x].joins
    BY <1>3, <1>7, <1>8 DEF a
  <2>2. StackTypes'
    <3>1. MaxDepth \in Nat
      BY LimitsAssumption
    <3>2. n <= MaxDepth + 1
      BY <1>2, <1>3, <3>1
    <3> QED BY <1>3, <1>8, <1>11, <2>1, <3>2 DEF SearchInv, StackInv, StackTypes
  <2>3. Nesting'
    <3>1. ASSUME NEW x \in 1..n
          PROVE  stack'[x].attempts # 0 /\ stack'[x].drop \subseteq stack'[x].cube /\ stack'[x].down \subseteq stack'[x].cube
      BY <1>1, <1>3, <1>4, <2>1 DEF Nesting
    <3>2. ASSUME NEW x \in 1..(n - 1)
          PROVE  stack'[x].j \in 1..(k' + 1) /\ stack'[x + 1].level = stack'[x].j - 1
      <4>1. stack[x].j \in 1..(k + 1) /\ stack[x + 1].level = stack[x].j - 1
        BY <1>1, <1>3, <1>4 DEF Nesting
      <4>2. x + 1 \in 1..n
        BY <1>3
      <4> QED BY <1>8, <1>11, <2>1, <4>1, <4>2
    <3>3. stack'[1].cube \subseteq states'[obl'.state].latches
      <4>1. 1 \in 1..n
        BY <1>3
      <4>2. obl.state \in DOMAIN states'
        BY <1>2, <1>12
      <4>3. stack[1].cube \subseteq states[obl.state].latches
        BY <1>1, <1>4 DEF Nesting
      <4> QED BY <1>10, <1>11, <2>1, <4>1, <4>2, <4>3
    <3> QED BY <1>8, <3>1, <3>2, <3>3 DEF Nesting
  <2>4. GeneralizedCubesAreInductive'
    <3>1. ASSUME NEW x \in 1..n
          PROVE  (ExcludesInitial(stack[x].cube) /\ Inductive(stack[x].level, stack[x].cube))'
      <4>1. /\ ExcludesInitial(stack[x].cube) /\ Inductive(stack[x].level, stack[x].cube)
            /\ stack[x].level \in 0..(k + 1)
        BY <1>2, <1>3 DEF SearchInv, StackInv, StackTypes, GeneralizedCubesAreInductive, ExcludesInitial
      <4>2. stack'[x].cube = stack[x].cube /\ stack'[x].level = stack[x].level
        BY <2>1
      <4>3. solvers'[stack[x].level] \subseteq solvers[stack[x].level]
        BY <1>6, <4>1
      <4> QED BY <4>1, <4>2, <4>3 DEF ExcludesInitial, Inductive, CTIs
    <3> QED BY <1>8, <3>1 DEF GeneralizedCubesAreInductive, ExcludesInitial
  <2> QED BY <1>8, <2>2, <2>3, <2>4 DEF StackInv
<1>17. QueueInv'
  <2>1. Accounted'
    <3>1. ASSUME NEW m \in DOMAIN states'
          PROVE  \/ \E o \in Raised' : o.state = m
                 \/ \E x \in 1..(n - 1) : m \in Owned(x)'
                 \/ \A s \in solvers'[k' + 1] : ~(states'[m].latches \subseteq s)
      <4>1. m \in DOMAIN states /\ m \notin D /\ states'[m] = states[m]
        BY <1>10
      <4>2. \/ \E o \in Raised : o.state = m
            \/ \E x \in 1..n : m \in Owned(x)
            \/ \A s \in solvers[k + 1] : ~(states[m].latches \subseteq s)
        BY <1>0, <1>1, <1>4, <4>1 DEF Accounted
      <4>3. k + 1 \in 0..(k + 1)
        BY <1>2
      <4> QED BY <1>3, <1>6, <1>11, <1>13, <4>1, <4>2, <4>3 DEF D
    <3> QED BY <1>4, <1>8, <1>11, <3>1 DEF Accounted
  <2>2. ObligationsAreRelative'
    <3>1. \A o \in obls : states'[o.state] = states[o.state] /\ o.level \in 0..(k + 1)
      BY <1>2, <1>10, <1>12 DEF PoolInv, PoolTypes, Obligation, Raised
    <3> QED BY <1>6, <1>11, <3>1 DEF SearchInv, QueueInv, ObligationsAreRelative
  <2>3. ObligationsAreDoomed'
    <3>1. \A o \in Raised : states'[o.state] = states[o.state]
      BY <1>10, <1>12
    <3> QED BY <1>11, <3>1 DEF SearchInv, QueueInv, ObligationsAreDoomed
  <2> QED BY <2>1, <2>2, <2>3 DEF QueueInv
<1> QED BY <1>6, <1>14, <1>15, <1>16, <1>17 DEF SearchInv

-----------------------------------------------------------------------------
(* The chains of States that a counterexample consists of.                 *)

\* The States that calls of ctgDown() have made for themselves.
Lent(n) == \E x \in 1..(Len(stack) - 1) : n \in Owned(x)

\* Under the inputs of State st every live state of its cube has an error, now
\* or after the step, or the step leads to the successor's cube.
Linked(pool, st) ==
  /\ st.inputs # {}
  /\ \A u \in State, i \in st.inputs : Live(u) /\ st.latches \subseteq u =>
       \/ Erroneous(u) \/ Erroneous(Nxt(u, i))
       \/ st.successor # 0 /\ Live(Nxt(u, i)) /\ pool[st.successor].latches \subseteq Nxt(u, i)

\* No chain of successors leads back to where it came from.
Acyclic(pool) == \A S \in SUBSET DOMAIN pool : S # {} => \E n \in S : pool[n].successor \notin S

TraceInv ==
  /\ \A n \in DOMAIN states : Lent(n) \/ Linked(states, states[n])
  /\ Acyclic(states)
  /\ cexState # 0 =>
       pc = "done" /\ stack = <<>> /\ \E s \in Initial : states[cexState].latches \subseteq s

\* A lifted State leads to its target.
LEMMA LiftedIsLinked ==
  ASSUME ConstraintsReadLatches, NEW pool, NEW st, NEW m, NEW succ,
         m[2] \in Inputs, m[3] \in Inputs, MadeFrom(st, pool, m, succ), st.successor = succ
  PROVE  Linked(pool, st)
<1>1. st.inputs = {m[2]}
  BY DEF MadeFrom
<1>2. ASSUME NEW u \in State, Live(u), st.latches \subseteq u
      PROVE  \/ Erroneous(u) \/ Erroneous(Nxt(u, m[2]))
             \/ succ # 0 /\ Live(Nxt(u, m[2])) /\ pool[succ].latches \subseteq Nxt(u, m[2])
  <2>1. Con(u, m[2])
    <3>1. PICK x \in Inputs : Con(u, x)
      BY <1>2 DEF Live
    <3> QED BY <3>1 DEF ConstraintsReadLatches
  <2>2. CASE Err(u, m[2])
    BY <2>1, <2>2 DEF Erroneous
  <2>3. CASE ~Err(u, m[2])
    <3>1. Con(Nxt(u, m[2]), m[3]) /\ Hits(pool, succ, Nxt(u, m[2]), m[3])
      BY <1>2, <2>1, <2>3 DEF MadeFrom, LiftTrans
    <3> QED BY <3>1 DEF Hits, Erroneous, Live
  <2> QED BY <2>2, <2>3
<1> QED BY <1>1, <1>2 DEF Linked

LEMMA AcyclicGrown ==
  ASSUME NEW pool, ClosedPool(pool), Acyclic(pool), NEW grown, NEW st, Grown(grown, pool, st),
         st.successor \in {0} \cup DOMAIN pool
  PROVE  Acyclic(grown)
<1> SUFFICES ASSUME NEW S \in SUBSET DOMAIN grown, S # {}
             PROVE  \E n \in S : grown[n].successor \notin S
  BY DEF Acyclic
<1> DEFINE new == FreshState(pool)
<1>1. /\ new # 0 /\ new \notin DOMAIN pool /\ DOMAIN grown = DOMAIN pool \cup {new}
      /\ grown[new] = st /\ \A n \in DOMAIN pool : grown[n] = pool[n] /\ n # 0
      /\ \A n \in DOMAIN pool : pool[n].successor \in {0} \cup DOMAIN pool
  BY DEF Grown, ClosedPool
<1> HIDE DEF new
<1>2. CASE S \ {new} = {}
  <2>1. S = {new}
    BY <1>2
  <2> QED BY <1>1, <2>1
<1>3. CASE S \ {new} # {}
  <2>1. S \ {new} \in SUBSET DOMAIN pool
    BY <1>1
  <2>2. PICK n \in S \ {new} : pool[n].successor \notin S \ {new}
    BY <1>3, <2>1 DEF Acyclic
  <2> QED BY <1>1, <2>1, <2>2
<1> QED BY <1>2, <1>3

-----------------------------------------------------------------------------
(* The replay of a witness.                                                *)

LEMMA ReplayExists ==
  ASSUME NEW s, NEW N \in Nat
  PROVE  \E f : f = [m \in 0..N |-> IF m = 0 THEN [number |-> cexState, state |-> s] ELSE Follow(f[m - 1])]
<1> DEFINE Exists(n) == \E f : f = [m \in 0..n |-> IF m = 0 THEN [number |-> cexState, state |-> s]
                                                 ELSE Follow(f[m - 1])]
           S == {n \in Nat : ~Exists(n)}
<1>1. Exists(0)
  <2> DEFINE f == [m \in 0..0 |-> [number |-> cexState, state |-> s]]
  <2>1. f = [m \in 0..0 |-> IF m = 0 THEN [number |-> cexState, state |-> s] ELSE Follow(f[m - 1])]
    OBVIOUS
  <2> QED BY <2>1
<1>2. ASSUME NEW n \in Nat, Exists(n) PROVE Exists(n + 1)
  <2>1. PICK f : f = [m \in 0..n |-> IF m = 0 THEN [number |-> cexState, state |-> s] ELSE Follow(f[m - 1])]
    BY <1>2
  <2> DEFINE g == [m \in 0..(n + 1) |-> IF m = n + 1 THEN Follow(f[n]) ELSE f[m]]
             h == [m \in 0..(n + 1) |-> IF m = 0 THEN [number |-> cexState, state |-> s] ELSE Follow(g[m - 1])]
  <2>2. ASSUME NEW m \in 0..(n + 1) PROVE g[m] = h[m]
    <3>1. CASE m = 0
      <4>1. 0 \in 0..n /\ 0 # n + 1
        OBVIOUS
      <4>2. g[0] = f[0] /\ f[0] = [number |-> cexState, state |-> s]
        BY <2>1, <4>1
      <4> QED BY <3>1, <4>2
    <3>2. CASE m \in 1..n
      <4>1. m \in 0..n /\ m # 0 /\ m # n + 1 /\ m - 1 \in 0..n /\ m - 1 \in 0..(n + 1) /\ m - 1 # n + 1
        BY <3>2
      <4>2. g[m] = f[m] /\ g[m - 1] = f[m - 1] /\ f[m] = Follow(f[m - 1])
        BY <2>1, <4>1
      <4> QED BY <4>1, <4>2
    <3>3. CASE m = n + 1
      <4>1. n \in 0..(n + 1) /\ n # n + 1 /\ m # 0 /\ m - 1 = n
        BY <3>3
      <4>2. g[m] = Follow(f[n]) /\ g[n] = f[n]
        BY <3>3, <4>1
      <4> QED BY <4>1, <4>2
    <3> QED BY <3>1, <3>2, <3>3
  <2>3. g = h
    BY <2>2
  <2> QED BY <2>3
<1>3. ASSUME S # {} PROVE FALSE
  <2>1. S \in SUBSET Nat
    OBVIOUS
  <2>2. PICK n \in S : \A x \in S : n <= x
    <3> HIDE DEF S
    <3> QED BY <1>3, <2>1, LeastNumber
  <2>3. n # 0 /\ n \in Nat
    BY <1>1
  <2>4. n - 1 \in Nat /\ n - 1 \notin S
    BY <2>2, <2>3
  <2>5. Exists(n - 1) /\ (n - 1) + 1 = n
    BY <2>3, <2>4
  <2>6. Exists((n - 1) + 1)
    <3> HIDE DEF Exists
    <3> QED BY <1>2, <2>4, <2>5
  <2> QED BY <2>5, <2>6
<1> QED BY <1>3

LEMMA ReplayDefined ==
  ASSUME NEW s, IsFiniteSet(DOMAIN states)
  PROVE  Replay(s) = [m \in 0..Cardinality(DOMAIN states) |->
                        IF m = 0 THEN [number |-> cexState, state |-> s] ELSE Follow(Replay(s)[m - 1])]
<1>1. Cardinality(DOMAIN states) \in Nat
  BY FS_CardinalityType
<1> QED BY <1>1, ReplayExists DEF Replay

\* A chain of States that is linked, and leads back nowhere, ends in an error:
\* it would have to be longer than there are States.
LEMMA ChainEnds ==
  ASSUME SearchInv, NEW s \in State, Live(s), cexState \in DOMAIN states,
         states[cexState].latches \subseteq s,
         \A n \in DOMAIN states : Linked(states, states[n]), Acyclic(states)
  PROVE  \E m \in DOMAIN Replay(s) : Erroneous(Replay(s)[m].state)
<1> SUFFICES ASSUME \A m \in DOMAIN Replay(s) : ~Erroneous(Replay(s)[m].state) PROVE FALSE
  OBVIOUS
<1> DEFINE r == Replay(s)
           N == Cardinality(DOMAIN states)
           Follows(m) == /\ r[m].number \in DOMAIN states /\ r[m].state \in State /\ Live(r[m].state)
                         /\ states[r[m].number].latches \subseteq r[m].state
<1>1. /\ IsFiniteSet(DOMAIN states) /\ DOMAIN states \subseteq Nat \ {0} /\ N \in Nat
      /\ \A n \in DOMAIN states : states[n] \in StateRecord /\ states[n].successor \in {0} \cup DOMAIN states
  BY FS_CardinalityType DEF SearchInv, PoolInv, PoolTypes, NoDanglingState
<1>2. r = [m \in 0..N |-> IF m = 0 THEN [number |-> cexState, state |-> s] ELSE Follow(r[m - 1])]
  BY <1>1, ReplayDefined
<1>3. \A m \in 0..N : ~Erroneous(r[m].state)
  <2>1. DOMAIN r = 0..N
    <3> HIDE DEF r, N
    <3> QED BY <1>2
  <2> QED BY <2>1
<1> HIDE DEF r, N
<1>4. Follows(0)
  <2>1. r[0] = [number |-> cexState, state |-> s]
    BY <1>1, <1>2
  <2> QED BY <2>1
<1>5. ASSUME NEW m \in 0..N, m # 0, Follows(m - 1)
      PROVE  Follows(m) /\ r[m].number = states[r[m - 1].number].successor
  <2> DEFINE n == r[m - 1].number
             u == r[m - 1].state
             i == CHOOSE x \in states[n].inputs : TRUE
  <2>1. m - 1 \in 0..N /\ r[m] = Follow(r[m - 1]) /\ n \in DOMAIN states /\ n # 0
    BY <1>1, <1>2, <1>5
  <2>2. r[m] = [number |-> states[n].successor, state |-> Nxt(u, i)]
    BY <2>1 DEF Follow
  <2>3. Linked(states, states[n]) /\ i \in states[n].inputs /\ i \in Inputs
    <3>1. Linked(states, states[n]) /\ states[n] \in StateRecord
      BY <1>1, <2>1
    <3> QED BY <3>1 DEF Linked, StateRecord
  <2>4. u \in State /\ Live(u) /\ states[n].latches \subseteq u /\ ~Erroneous(u) /\ ~Erroneous(Nxt(u, i))
    BY <1>3, <1>5, <2>1, <2>2
  <2>5. /\ states[n].successor # 0 /\ Live(Nxt(u, i))
        /\ states[states[n].successor].latches \subseteq Nxt(u, i) /\ Nxt(u, i) \in State
    <3> HIDE DEF i, u, n
    <3> QED BY <2>3, <2>4, NextStateType DEF Linked
  <2>6. states[n].successor \in DOMAIN states
    BY <1>1, <2>1, <2>5
  <2> HIDE DEF i, u
  <2> QED BY <2>2, <2>5, <2>6
<1>6. \A m \in 0..N : Follows(m)
  <2> DEFINE S == {m \in 0..N : ~Follows(m)}
  <2> SUFFICES ASSUME S # {} PROVE FALSE
    OBVIOUS
  <2>1. S \in SUBSET Nat
    BY <1>1
  <2>2. PICK m \in S : \A x \in S : m <= x
    <3> HIDE DEF S
    <3> QED BY <2>1, LeastNumber
  <2> HIDE DEF Follows
  <2>3. m \in 0..N /\ m # 0 /\ m - 1 \in 0..N /\ m - 1 \notin S
    BY <1>1, <1>4, <2>2
  <2>4. Follows(m - 1)
    BY <2>3
  <2> QED BY <1>5, <2>2, <2>3, <2>4
<1>7. ASSUME NEW x \in 0..N, NEW y \in 0..N, x < y, r[x].number = r[y].number PROVE FALSE
  <2> DEFINE S == {r[z].number : z \in x..(y - 1)}
  <2>1. \A z \in x..(y - 1) : z \in 0..N /\ z + 1 \in 0..N /\ z + 1 # 0 /\ (z + 1) - 1 = z
                              /\ (z + 1 \in x..(y - 1) \/ z + 1 = y)
    BY <1>1, <1>7
  <2>2. x \in x..(y - 1)
    BY <1>1, <1>7
  <2>3. S \in SUBSET DOMAIN states /\ S # {}
    BY <1>6, <2>1, <2>2
  <2>4. PICK n \in S : states[n].successor \notin S
    <3> HIDE DEF S
    <3> QED BY <2>3 DEF Acyclic
  <2>5. PICK z \in x..(y - 1) : n = r[z].number
    BY <2>4
  <2>6. r[z + 1].number = states[n].successor
    <3> HIDE DEF Follows
    <3> QED BY <1>5, <1>6, <2>1, <2>5
  <2>7. r[z + 1].number \in S
    BY <1>7, <2>1, <2>2
  <2> QED BY <2>4, <2>6, <2>7
<1>8. N < Cardinality(0..N) /\ IsFiniteSet(0..N)
  <2>1. 0 \in Int /\ N \in Int /\ 0 <= N
    BY <1>1
  <2>2. IsFiniteSet(0..N) /\ Cardinality(0..N) = N - 0 + 1
    BY <2>1, FS_Interval
  <2> QED BY <2>1, <2>2
<1>9. [m \in 0..N |-> r[m].number] \in [0..N -> DOMAIN states]
  BY <1>6
<1>10. PICK x, y \in 0..N : x # y /\ r[x].number = r[y].number
  <2> DEFINE f == [m \in 0..N |-> r[m].number]
  <2>1. \E x, y \in 0..N : x # y /\ f[x] = f[y]
    <3>1. f \in [0..N -> DOMAIN states]
      BY <1>9
    <3>2. Cardinality(DOMAIN states) < Cardinality(0..N)
      BY <1>8 DEF N
    <3> HIDE DEF f
    <3> QED BY <1>1, <1>8, <3>1, <3>2, FS_PigeonHole
  <2> QED BY <2>1
<1>11. x < y \/ y < x
  BY <1>1, <1>10
<1> QED BY <1>7, <1>10, <1>11
-----------------------------------------------------------------------------
(* The chains of States stay linked.                                       *)

LEMMA LinkedKept ==
  ASSUME NEW pool, NEW grown, NEW st, Linked(pool, st),
         st.successor = 0 \/ grown[st.successor] = pool[st.successor]
  PROVE  Linked(grown, st)
BY DEF Linked

\* Steps that leave the pool alone, and lend no State back.
LEMMA TraceStill ==
  ASSUME TraceInv, UNCHANGED <<states, cexState>>, cexState = 0,
         \A n \in DOMAIN states : Lent(n) => Lent(n)'
  PROVE  TraceInv'
<1>1. Acyclic(states)'
  BY DEF TraceInv, Acyclic
<1>2. ASSUME NEW n \in DOMAIN states' PROVE Lent(n)' \/ Linked(states, states[n])'
  <2>1. n \in DOMAIN states
    OBVIOUS
  <2>2. Lent(n) \/ Linked(states, states[n])
    BY <2>1 DEF TraceInv
  <2>3. Linked(states, states[n]) => Linked(states, states[n])'
    BY DEF Linked
  <2> QED BY <2>1, <2>2, <2>3
<1> QED BY <1>1, <1>2 DEF TraceInv

LEMMA TopKeepsLent ==
  ASSUME SearchInv, pc \in {"mic", "down"}, NEW a, stack' = ReplaceTop(a), NEW n, Lent(n)
  PROVE  Lent(n)'
<1> DEFINE S == ActivationRecord \cup {a}
<1>1. stack \in Seq(ActivationRecord) /\ Len(stack) \in Nat \ {0}
  BY TopFacts
<1>2. stack \in Seq(S) /\ a \in S
  BY <1>1
<1>3. \A x \in 1..(Len(stack) - 1) : x \in 1..Len(stack) /\ x # Len(stack)
  BY <1>1
<1> HIDE DEF S
<1>4. Len(stack') = Len(stack) /\ \A x \in 1..(Len(stack) - 1) : stack'[x] = stack[x]
  BY <1>1, <1>2, <1>3, ExceptSeq DEF ReplaceTop
<1>5. PICK x \in 1..(Len(stack) - 1) : n \in Owned(x)
  BY DEF Lent
<1> QED BY <1>4, <1>5 DEF Lent, Owned

\* The steps that leave the pool of States alone.
LEMMA TraceUnmoved ==
  ASSUME SearchInv, TraceInv,
         \/ Step0Reachability \/ Step1Reachability \/ Extend \/ Strengthened
         \/ FulfillObligation \/ Generalized
         \/ TryDrop \/ DropCoversInitial \/ DropInductive \/ DropTooDeep \/ JoinCTG
         \/ PropagateCube \/ KeepCube \/ LevelDone
  PROVE  TraceInv'
<1>1. CASE Step0Reachability \/ Step1Reachability \/ Extend \/ Strengthened
           \/ PropagateCube \/ KeepCube \/ LevelDone
  <2>1. UNCHANGED <<states, cexState, stack>>
    BY <1>1 DEF Step0Reachability, Step1Reachability, Extend, Strengthened, PropagateCube, KeepCube,
       LevelDone, poolVars
  <2>2. cexState = 0
    BY <1>1 DEF Step0Reachability, Step1Reachability, Extend, Strengthened, PropagateCube, KeepCube,
       LevelDone, SearchInv, Idle
  <2>3. \A n \in DOMAIN states : Lent(n) => Lent(n)'
    BY <2>1 DEF Lent, Owned
  <2> QED BY <2>1, <2>2, <2>3, TraceStill
<1>2. CASE FulfillObligation \/ Generalized
  <2>1. UNCHANGED <<states, cexState>> /\ cexState = 0
    BY <1>2 DEF FulfillObligation, Generalized, SearchInv, Idle
  <2>2. 1..(Len(stack) - 1) = {}
    <3>1. stack = <<>> \/ Len(stack) = 1
      BY <1>2, HandledObligation DEF FulfillObligation, Generalized
    <3>2. CASE stack = <<>>
      BY <3>2
    <3>3. CASE Len(stack) = 1
      BY <3>3
    <3> QED BY <3>1, <3>2, <3>3
  <2>3. \A n \in DOMAIN states : ~Lent(n)
    BY <2>2 DEF Lent
  <2> QED BY <2>1, <2>3, TraceStill
<1>3. CASE TryDrop \/ DropCoversInitial \/ DropInductive \/ DropTooDeep \/ JoinCTG
  <2>1. UNCHANGED <<states, cexState>>
    BY <1>3 DEF TryDrop, DropCoversInitial, DropInductive, DropTooDeep, JoinCTG, poolVars
  <2>2. pc \in {"mic", "down"} /\ cexState = 0
    BY <1>3 DEF TryDrop, DropCoversInitial, DropInductive, DropTooDeep, JoinCTG, SearchInv, Idle
  <2>3. \E a : stack' = ReplaceTop(a)
    BY <1>3 DEF TryDrop, DropCoversInitial, DropInductive, DropTooDeep, JoinCTG
  <2>4. \A n \in DOMAIN states : Lent(n) => Lent(n)'
    BY <2>2, <2>3, TopKeepsLent
  <2> QED BY <2>1, <2>2, <2>4, TraceStill
<1> QED BY <1>1, <1>2, <1>3
\* handleObligations() or strengthen() has made a State that is linked.
LEMMA TraceGrown ==
  ASSUME SearchInv, TraceInv, stack = <<>>,
         NEW st, st \in StateRecord, st.successor \in {0} \cup DOMAIN states, Linked(states, st),
         states' = NewState(states, st)
  PROVE  Acyclic(states)' /\ \A n \in DOMAIN states' : Linked(states, states[n])'
<1>1. ClosedPool(states)
  BY SearchPoolClosed DEF SearchInv
<1>2. Grown(states', states, st)
  BY <1>1, PoolGrown
<1>3. Acyclic(states')
  BY <1>1, <1>2, AcyclicGrown DEF TraceInv
<1>4. ASSUME NEW n \in DOMAIN states' PROVE Linked(states', states'[n])
  <2>1. CASE n \in DOMAIN states
    <3>1. ~Lent(n)
      <4>1. 1..(Len(stack) - 1) = {}
        OBVIOUS
      <4> QED BY <4>1 DEF Lent
    <3>2. Linked(states, states[n])
      BY <2>1, <3>1 DEF TraceInv
    <3>3. states[n].successor = 0 \/ states'[states[n].successor] = states[states[n].successor]
      BY <1>1, <1>2, <2>1 DEF ClosedPool, Grown
    <3>4. Linked(states', states[n])
      BY <3>2, <3>3, LinkedKept
    <3> QED BY <1>2, <2>1, <3>4 DEF Grown
  <2>2. CASE n \notin DOMAIN states
    <3>1. states'[n] = st
      BY <1>2, <2>2 DEF Grown
    <3>2. st.successor = 0 \/ states'[st.successor] = states[st.successor]
      BY <1>2 DEF Grown
    <3>3. Linked(states', st)
      BY <3>2, LinkedKept
    <3> QED BY <3>1, <3>3
  <2> QED BY <2>1, <2>2
<1> QED BY <1>3, <1>4 DEF Acyclic, Linked

LEMMA StrengthenTrace ==
  ASSUME ConstraintsReadLatches, SearchInv, TraceInv, Strengthen
  PROVE  TraceInv'
<1>1. /\ k \in Frames /\ FramesTypeOK /\ stack = <<>> /\ cexState = 0
      /\ cexState' = cexState
  BY DEF Strengthen, SearchInv, Control, Idle, FramesInv, FramesTypeOK, Extended
<1>2. PICK st \in StatesOf(states, ErrorCTIs(k), 0) : states' = NewState(states, st)
  BY DEF Strengthen
<1>3. ErrorCTIs(k) \subseteq State \X Inputs \X Inputs /\ 0 \in Nat
  BY <1>1, CTIsAreTriples
<1>4. st \in StateRecord /\ st.successor = 0
  BY <1>3, LiftedState
<1>5. PICK m \in ErrorCTIs(k) : MadeFrom(st, states, m, 0)
  BY <1>3, LiftedState
<1>6. Linked(states, st)
  <2>1. m[2] \in Inputs /\ m[3] \in Inputs
    BY <1>3
  <2> QED BY <1>4, <1>5, <2>1, LiftedIsLinked
<1>7. Acyclic(states)' /\ \A n \in DOMAIN states' : Linked(states, states[n])'
  <2>1. st.successor \in {0} \cup DOMAIN states
    BY <1>4
  <2> QED BY <1>1, <1>2, <1>4, <1>6, <2>1, TraceGrown
<1> QED BY <1>1, <1>7 DEF TraceInv

LEMMA PredecessorTrace ==
  ASSUME ConstraintsReadLatches, SearchInv, TraceInv, PredecessorFound
  PROVE  TraceInv'
<1> DEFINE o == FirstObligation
           c == states[o.state].latches
<1>1. pc = "handle" /\ obls # {} /\ stack' = stack
  BY DEF PredecessorFound
<1>2. /\ FramesInv /\ Extended /\ k \in Nat \ {0} /\ PoolInv /\ stack = <<>> /\ cexState = 0
      /\ o.state \in Nat \ {0} /\ o.state \in DOMAIN states /\ o.level \in 0..k
  BY <1>1, HandledObligation
<1>3. PICK st \in StatesOf(states, CTIs(o.level, c, c), o.state) : states' = NewState(states, st)
  BY DEF PredecessorFound
<1>4. /\ o.level = 0 => cexState' = FreshState(states) /\ pc' = "done"
      /\ o.level # 0 => cexState' = cexState
  BY DEF PredecessorFound, Finish
<1> HIDE DEF o
<1>5. o.level \in Frames /\ FramesTypeOK
  BY <1>2 DEF FramesInv, Extended
<1>6. CTIs(o.level, c, c) \subseteq State \X Inputs \X Inputs /\ o.state \in Nat
  BY <1>2, <1>5, CTIsAreTriples
<1>7. st \in StateRecord /\ st.successor = o.state
  BY <1>6, LiftedState
<1>8. PICK m \in CTIs(o.level, c, c) : MadeFrom(st, states, m, o.state)
  BY <1>6, LiftedState
<1>9. m[1] \in State /\ m[2] \in Inputs /\ m[3] \in Inputs
  BY <1>6
<1>10. Linked(states, st)
  BY <1>7, <1>8, <1>9, LiftedIsLinked
<1>11. st.successor \in {0} \cup DOMAIN states
  BY <1>2, <1>7
<1>12. Acyclic(states)' /\ \A n \in DOMAIN states' : Linked(states, states[n])'
  BY <1>2, <1>3, <1>7, <1>10, <1>11, TraceGrown
\* At level 0 the model starts in an initial state, and so does its cube.
<1>13. ASSUME o.level = 0 PROVE \E s \in Initial : states'[cexState'].latches \subseteq s
  <2>1. m[1] \in solvers[0] /\ Trans(m[1], m[2], m[3])
    BY <1>8, <1>13 DEF CTIs
  <2>2. m[1] \in Initial
    BY <1>5, <1>9, <1>13, <1>2, <2>1, SteppingInitial DEF FramesInv, FrameInvariants, FramesIncludeInitial
  <2>3. states'[cexState'] = st
    <3>1. ClosedPool(states)
      BY <1>2, SearchPoolClosed
    <3>2. Grown(states', states, st)
      BY <1>3, <1>7, <1>11, <3>1, PoolGrown
    <3> QED BY <1>4, <1>13, <3>2 DEF Grown
  <2> QED BY <1>8, <2>2, <2>3 DEF MadeFrom
<1> QED BY <1>1, <1>2, <1>4, <1>12, <1>13 DEF TraceInv

LEMMA ObligationsMetTrace == ASSUME SearchInv, ObligationsMet
  PROVE  TraceInv'
<1>1. DOMAIN states' = {} /\ cexState' = 0
  BY DEF ObligationsMet, NoStates, SearchInv, Idle
<1> QED BY <1>1 DEF TraceInv, Acyclic
LEMMA BlockCTGTrace == ASSUME SearchInv, TraceInv, BlockCTG
  PROVE  TraceInv'
<1>0. PICK n : n = Len(stack)
  OBVIOUS
<1>1. pc = "down" /\ cexState' = cexState
  BY DEF BlockCTG
<1>2. /\ stack \in Seq(ActivationRecord) /\ n \in Nat \ {0} /\ n \in 1..n
      /\ Top \in ActivationRecord /\ Top.level \in 0..k /\ Top.down \in SUBSET Lit
      /\ FramesTypeOK /\ Top.level \in Frames /\ ClosedPool(states) /\ cexState = 0
  <2>1. Top \in ActivationRecord /\ Top.level \in 0..k /\ FramesInv /\ Extended /\ PoolInv
    BY <1>1, TopFacts
  <2>2. Top.down \in SUBSET Lit
    BY <2>1 DEF ActivationRecord
  <2>3. FramesTypeOK /\ Top.level \in Frames
    BY <2>1 DEF FramesInv, FramesTypeOK, Extended
  <2> QED BY <1>0, <1>1, <2>1, <2>2, <2>3, TopFacts, SearchPoolClosed
<1>3. PICK ctg \in CTGs :
        /\ states' = NewState(DownPool, ctg)
        /\ \E core \in Cores(Top.level - 1, ctg.latches) :
             LET j == Pushed(Top.level, core) IN
             stack' = Append(ReplaceTop([Top EXCEPT !.ctgs = @ + 1, !.j = j, !.ctg = CtgState,
                                                    !.cubeState = CubeState]),
                             NestedMic(j, core))
  BY DEF BlockCTG
<1>4. PICK j, b :
        stack' = Append(ReplaceTop([Top EXCEPT !.ctgs = @ + 1, !.j = j, !.ctg = CtgState,
                                               !.cubeState = CubeState]), b)
  BY <1>3
<1> DEFINE a == [Top EXCEPT !.ctgs = @ + 1, !.j = j, !.ctg = CtgState, !.cubeState = CubeState]
           st == [latches |-> Top.down, inputs |-> {}, successor |-> 0]
\* The States of the call and of its CTG are new, and the call keeps them.
<1>5. /\ Grown(DownPool, states, st) /\ st.successor = 0 /\ FreshState(states) = CubeState
  <2>1. st \in StateRecord /\ st.successor \in {0} \cup DOMAIN states
    BY <1>2 DEF StateRecord
  <2>2. DownPool = NewState(states, st) /\ CubeState = FreshState(states)
    BY DEF DownPool, CubeState
  <2> HIDE DEF st
  <2>3. Grown(DownPool, states, st)
    BY <1>2, <2>1, <2>2, PoolGrown
  <2> QED BY <2>2, <2>3 DEF st
<1>6. /\ Grown(states', DownPool, ctg) /\ FreshState(DownPool) = CtgState
      /\ ctg.successor \in {0} \cup DOMAIN DownPool
  <2>1. CTIs(Top.level, Top.down, Top.down) \subseteq State \X Inputs \X Inputs
    BY <1>2, CTIsAreTriples
  <2>2. CubeState \in Nat /\ CubeState \in DOMAIN DownPool /\ ClosedPool(DownPool)
    BY <1>5 DEF Grown
  <2>3. ctg \in StatesOf(DownPool, CTIs(Top.level, Top.down, Top.down), CubeState)
    BY DEF CTGs
  <2>4. ctg \in StateRecord /\ ctg.successor = CubeState
    BY <2>1, <2>2, <2>3, LiftedState
  <2>5. ctg.successor \in {0} \cup DOMAIN DownPool
    BY <2>2, <2>4
  <2> QED BY <1>3, <2>2, <2>4, <2>5, PoolGrown DEF CtgState
<1>7. Acyclic(states')
  <2>1. st.successor \in {0} \cup DOMAIN states /\ ClosedPool(DownPool)
    BY <1>5 DEF Grown
  <2> HIDE DEF st
  <2>2. Acyclic(DownPool)
    BY <1>2, <1>5, <2>1, AcyclicGrown DEF TraceInv
  <2> QED BY <1>6, <2>1, <2>2, AcyclicGrown
<1>8. /\ Len(stack') = n + 1 /\ stack'[n] = a /\ a.cubeState = CubeState /\ a.ctg = CtgState
      /\ \A x \in 1..(n - 1) : stack'[x] = stack[x]
  <2>1. a.cubeState = CubeState /\ a.ctg = CtgState
    BY <1>2 DEF ActivationRecord
  <2> HIDE DEF a
  <2> DEFINE S == ActivationRecord \cup {a, b}
             r == ReplaceTop(a)
  <2>2. stack \in Seq(S) /\ a \in S /\ b \in S
    BY <1>2
  <2>3. \A x \in 1..(n - 1) : x \in 1..n /\ x # n
    BY <1>2
  <2> HIDE DEF S
  <2>4. r \in Seq(S) /\ Len(r) = n /\ r[n] = a /\ \A x \in 1..(n - 1) : r[x] = stack[x]
    BY <1>0, <1>2, <2>2, <2>3, ExceptSeq DEF ReplaceTop
  <2>5. stack' = Append(r, b)
    BY <1>4 DEF a
  <2> HIDE DEF r
  <2>6. Len(stack') = n + 1 /\ \A x \in 1..n : stack'[x] = r[x]
    BY <1>2, <2>2, <2>4, <2>5
  <2> QED BY <1>2, <2>1, <2>3, <2>4, <2>6
<1> HIDE DEF a, st
<1>9. ASSUME NEW m, \/ Lent(m) \/ m \in {CubeState, CtgState} PROVE Lent(m)'
  <2>1. CASE m \in {CubeState, CtgState}
    BY <1>2, <1>8, <2>1 DEF Lent, Owned
  <2>2. CASE Lent(m)
    <3>1. PICK x \in 1..(n - 1) : m \in Owned(x)
      BY <1>0, <2>2 DEF Lent
    <3>2. x \in 1..n /\ stack'[x] = stack[x]
      BY <1>2, <1>8
    <3> QED BY <1>2, <1>8, <3>1, <3>2 DEF Lent, Owned
  <2> QED BY <1>9, <2>1, <2>2
<1>10. ASSUME NEW m \in DOMAIN states' PROVE Lent(m)' \/ Linked(states', states'[m])
  <2>1. CASE m \in {CubeState, CtgState} \/ Lent(m)
    BY <1>9, <2>1
  <2>2. CASE m \notin {CubeState, CtgState} /\ ~Lent(m)
    <3>1. /\ m \in DOMAIN states /\ states'[m] = states[m]
          /\ \A x \in DOMAIN states : states'[x] = states[x]
      BY <1>5, <1>6, <2>2 DEF Grown
    <3>2. Linked(states, states[m])
      BY <2>2, <3>1 DEF TraceInv
    <3>3. states[m].successor = 0 \/ states'[states[m].successor] = states[states[m].successor]
      BY <1>2, <3>1 DEF ClosedPool
    <3>4. Linked(states', states[m])
      BY <3>2, <3>3, LinkedKept
    <3> QED BY <3>1, <3>4
  <2> QED BY <2>1, <2>2
<1> QED BY <1>1, <1>2, <1>7, <1>10 DEF TraceInv, Acyclic, Linked

LEMMA CTGBlockedTrace == ASSUME SearchInv, TraceInv, CTGBlocked
  PROVE  TraceInv'
<1>0. PICK n : n = Len(stack) - 1
  OBVIOUS
<1> DEFINE b == [stack[n] EXCEPT !.cubeState = 0, !.ctg = 0, !.j = 0]
<1>1. /\ pc = "mic" /\ Len(stack) > 1 /\ cexState' = cexState
      /\ states' = DelStates(states, Owned(n))
      /\ stack' = [SubSeq(stack, 1, n) EXCEPT ![n] = b]
  BY <1>0 DEF CTGBlocked, Owned
<1>2. /\ stack \in Seq(ActivationRecord) /\ Len(stack) \in Nat \ {0} /\ PoolInv /\ cexState = 0
  BY <1>1, TopFacts
<1>3. /\ n \in Nat \ {0} /\ Len(stack) = n + 1 /\ n \in 1..n /\ n \in 1..Len(stack)
      /\ \A x \in 1..n : x \in 1..Len(stack) /\ (x \in 1..(n - 1) \/ x = n)
      /\ \A x \in 1..(n - 1) : x \in 1..n /\ x # n
  BY <1>0, <1>1, <1>2
<1> HIDE DEF b
<1>4. Len(stack') = n /\ \A x \in 1..(n - 1) : stack'[x] = stack[x]
  <2> DEFINE S == ActivationRecord \cup {b}
             r == SubSeq(stack, 1, n)
  <2>1. b \in S
    OBVIOUS
  <2>2. r \in Seq(ActivationRecord) /\ Len(r) = n /\ \A x \in 1..n : r[x] = stack[x]
    BY <1>2, <1>3
  <2>3. r \in Seq(S)
    BY <2>2
  <2>4. stack' = [r EXCEPT ![n] = b]
    BY <1>1
  <2> HIDE DEF r, S
  <2> QED BY <1>3, <2>1, <2>2, <2>3, <2>4, ExceptSeq
<1>5. /\ DOMAIN states' = DOMAIN states \ Owned(n)
      /\ \A m \in DOMAIN states' : states'[m] = states[m]
  BY <1>1 DEF DelStates
\* A chain is not cut: whoever leads to a State of the call is freed with it.
<1>6. ASSUME NEW m \in DOMAIN states', ~Lent(m)' PROVE Linked(states', states[m])
  <2>1. m \in DOMAIN states /\ m \notin Owned(n)
    BY <1>5
  <2>2. ~Lent(m)
    <3> SUFFICES ASSUME Lent(m) PROVE FALSE
      OBVIOUS
    <3>1. PICK x \in 1..n : m \in Owned(x)
      BY <1>0 DEF Lent
    <3>2. x \in 1..(n - 1)
      BY <1>3, <2>1, <3>1
    <3> QED BY <1>4, <1>6, <3>1, <3>2 DEF Lent, Owned
  <2>3. Linked(states, states[m])
    BY <2>1, <2>2 DEF TraceInv
  <2>4. states[m].successor \in {0} \cup (DOMAIN states \ Owned(n))
    <3>1. states[m].successor \in {0} \cup DOMAIN states
      BY <1>2, <2>1 DEF PoolInv, NoDanglingState
    <3>2. n \in 1..(Len(stack) - 1)
      BY <1>3
    <3>3. states[m].successor \notin Owned(n)
      BY <1>2, <2>1, <3>2 DEF PoolInv, Ownership
    <3> QED BY <3>1, <3>3
  <2>5. states[m].successor = 0 \/ states'[states[m].successor] = states[states[m].successor]
    BY <1>5, <2>4
  <2> QED BY <2>3, <2>5, LinkedKept
<1>7. Acyclic(states')
  BY <1>5 DEF TraceInv, Acyclic
<1> QED BY <1>1, <1>2, <1>5, <1>6, <1>7 DEF TraceInv, Acyclic, Linked

LEMMA NextTrace ==
  ASSUME ConstraintsReadLatches, SearchInv, TraceInv, [Next]_vars
  PROVE  TraceInv'
<1>1. CASE UNCHANGED vars
  <2>1. UNCHANGED <<pc, states, stack, cexState>>
    BY <1>1 DEF vars, poolVars
  <2> QED BY <2>1 DEF TraceInv, Acyclic, Linked, Lent, Owned
<1>2. CASE Next /\ ~UNCHANGED vars
  BY <1>2, StrengthenTrace, PredecessorTrace, ObligationsMetTrace, BlockCTGTrace, CTGBlockedTrace, TraceUnmoved
  DEF Next, Returned
<1> QED BY <1>1, <1>2

-----------------------------------------------------------------------------
(* The theorems.                                                           *)

LEMMA StutterSearch ==
  ASSUME SearchInv, UNCHANGED vars
  PROVE  SearchInv' /\ [FramesNext]_frameVars
<1>1. /\ UNCHANGED <<pc, k, borderCubes, solvers, verdict, earliest, trivial, states, obls, obl, stack,
                    level, todo, cexState>>
      /\ UNCHANGED frameVars
  BY DEF vars, frameVars, poolVars, scanVars
<1>2. FramesInv'
  BY <1>1, NextFrames DEF SearchInv
<1>3. ControlTypes' /\ Idle'
  BY <1>1 DEF SearchInv, ControlTypes, Idle
<1>4. Control'
  BY <1>1 DEF SearchInv, Control, Frames, Extended, NoErrorAfter
<1>5. PoolInv'
  BY <1>1 DEF SearchInv, PoolInv, PoolTypes, Obligation, NoDanglingState, Ownership, Owned, Raised
<1>6. StackInv'
  BY <1>1 DEF SearchInv, StackInv, StackTypes, Nesting, GeneralizedCubesAreInductive, Inductive, CTIs
<1>7. QueueInv'
  BY <1>1 DEF SearchInv, QueueInv, Accounted, ObligationsAreRelative, ObligationsAreDoomed, Owned, Raised
<1> QED BY <1>1, <1>2, <1>3, <1>4, <1>5, <1>6, <1>7 DEF SearchInv

LEMMA NextSearch ==
  ASSUME ConstraintsReadLatches, SearchInv, [Next]_vars
  PROVE  SearchInv' /\ [FramesNext]_frameVars
BY Step0Search, Step1Search, ExtendSearch, StrengthenSearch, StrengthenedSearch, FulfillSearch,
   PredecessorSearch, ObligationsMetSearch, GeneralizedSearch, DownSearch, BlockCTGSearch,
   CTGBlockedSearch, PropagateSearch, KeepCubeSearch, LevelDoneSearch, StutterSearch
DEF Next, Returned

LEMMA SearchInvariant ==
  ASSUME ConstraintsReadLatches
  PROVE  Spec => []SearchInv
<1>1. SearchInv /\ [Next]_vars => SearchInv'
  BY NextSearch
<1> QED BY InitSearch, <1>1, PTL DEF Spec

\* Of every circuit that has an initial state: the variables keep their
\* types, nobody names a State that was freed, and HeuristicLitOrder::count()
\* is never given an empty cube.
THEOREM SearchIsDefined ==
  ASSUME ConstraintsReadLatches, Initial # {}
  PROVE  Spec => []SearchStaysDefined
<1>1. SearchInv => SearchStaysDefined
  BY DEF SearchInv, FramesInv, PoolInv, StackInv, Control, TypeOK, NoAbort, SearchStaysDefined
<1> QED BY SearchInvariant, <1>1, PTL

\* Whatever addCube() did meanwhile, the cubes that mic() works on are
\* inductive relative to their levels.
THEOREM GeneralizationIsSound ==
  ASSUME ConstraintsReadLatches
  PROVE  Spec => []GeneralizedCubesAreInductive
<1>1. SearchInv => GeneralizedCubesAreInductive
  BY DEF SearchInv, StackInv
<1> QED BY SearchInvariant, <1>1, PTL

\* handleObligations() forgets no CTI, and never raises an obligation to a
\* level in which its cube could still be entered.
THEOREM QueueIsInOrder ==
  ASSUME ConstraintsReadLatches
  PROVE  Spec => []ObligationsAreInOrder
<1>1. SearchInv => ObligationsAreInOrder
  <2> SUFFICES ASSUME SearchInv PROVE ObligationsAreInOrder
    OBVIOUS
  <2>1. ASSUME pc = "handle", NEW n \in DOMAIN states
        PROVE  LET waiting == {o \in obls : o.state = n} IN
               \/ Cardinality(waiting) = 1
               \/ waiting = {} /\ \A s \in solvers[k + 1] : ~(states[n].latches \subseteq s)
    <3> DEFINE waiting == {o \in obls : o.state = n}
    <3>1. Accounted /\ Raised = obls /\ 1..(Len(stack) - 1) = {}
      <4>1. stack = <<>> /\ obl = NoObl
        BY <2>1 DEF SearchInv, Idle
      <4> QED BY <4>1 DEF SearchInv, QueueInv, Raised
    <3>2. ASSUME NEW o \in obls, o.state = n PROVE Cardinality(waiting) = 1
      <4>1. waiting = {o}
        BY <3>1, <3>2 DEF Accounted
      <4> QED BY <4>1, FS_Singleton
    <3> QED BY <2>1, <3>1, <3>2 DEF Accounted
  <2>2. CTIsPendingOrExcluded
    BY <2>1 DEF CTIsPendingOrExcluded
  <2> QED BY <2>2 DEF SearchInv, QueueInv, ObligationsAreInOrder
<1> QED BY SearchInvariant, <1>1, PTL

\* check() returns true if no error is reachable, and false if one is.
THEOREM VerdictCorrect ==
  ASSUME ConstraintsReadLatches
  PROVE  Spec => []VerdictIsRight
<1>1. SearchInv => VerdictIsRight
  BY DEF SearchInv, Control, FramesInv, FramesTypeOK, SafeVerdictIsSound, VerdictIsRight
<1> QED BY SearchInvariant, <1>1, PTL

\* The search implements the frame discipline: what check(), addCube(),
\* strengthen() and propagate() do to the frames is a step of IC3Frames.
THEOREM SearchImplementsFrames ==
  ASSUME ConstraintsReadLatches
  PROVE  Spec => FollowsDiscipline
<1>1. Init => FramesInit
  BY DEF Init, FramesInit
<1>2. SearchInv /\ [Next]_vars => [FramesNext]_frameVars
  BY NextSearch
<1> QED BY SearchInvariant, <1>1, <1>2, PTL DEF Spec, FramesSpec, FollowsDiscipline

\* The counterexample that check() leaves behind is one: its chain of cubes
\* starts in an initial state, and whichever initial state of the first cube
\* the circuit is in, the inputs printed with the cubes drive it to an error.
THEOREM WitnessIsRight ==
  ASSUME ConstraintsReadLatches
  PROVE  Spec => []WitnessReplays
<1>1. Init => TraceInv
  BY DEF Init, TraceInv, Acyclic, NoStates
<1>2. SearchInv /\ TraceInv /\ [Next]_vars => TraceInv'
  BY NextTrace
<1>3. SearchInv /\ TraceInv => WitnessReplays
  <2> SUFFICES ASSUME SearchInv, TraceInv, cexState # 0 PROVE WitnessReplays
    BY DEF WitnessReplays
  <2>1. stack = <<>> /\ \E s \in Initial : states[cexState].latches \subseteq s
    BY DEF TraceInv
  <2>2. cexState \in DOMAIN states
    BY DEF SearchInv, PoolInv, PoolTypes
  <2>3. \A n \in DOMAIN states : Linked(states, states[n])
    <3>1. 1..(Len(stack) - 1) = {}
      BY <2>1
    <3> QED BY <3>1 DEF TraceInv, Lent
  <2>4. ASSUME NEW s \in Initial, states[cexState].latches \subseteq s
        PROVE  \E m \in DOMAIN Replay(s) : Erroneous(Replay(s)[m].state)
    <3>1. s \in State /\ Live(s)
      BY InitialAreStates DEF Initial
    <3> QED BY <2>2, <2>3, <2>4, <3>1, ChainEnds DEF TraceInv
  <2> QED BY <2>1, <2>4 DEF WitnessReplays
<1> QED BY SearchInvariant, <1>1, <1>2, <1>3, PTL DEF Spec

\* A circuit without invariant constraints needs no further hypothesis,
\* as every file of an AIGER format before 1.9 is: the search answers right.
COROLLARY UnconstrainedVerdict ==
  ASSUME ~Constrained
  PROVE  Spec => []VerdictIsRight
<1>1. ConstraintsReadLatches
  BY CircuitAssumption DEF ConstraintsReadLatches
<1> QED BY <1>1, VerdictCorrect

=============================================================================
