--------------------------- MODULE IC3FramesProofs ---------------------------
(***************************************************************************)
(* The frame discipline is sound for every circuit: the frames keep the    *)
(* four invariants of IC3, and "safe" is only answered if no error state   *)
(* can be reached.                                                         *)
(***************************************************************************)
EXTENDS IC3Frames, WellFoundedInduction, TLAPS

\* The base cases passed before the first frame was built.
BaseCasesPassed == Frames # {} => BaseCases

FramesInv == FramesTypeOK /\ FrameInvariants /\ BaseCasesPassed /\ SafeVerdictIsSound

-----------------------------------------------------------------------------
(* Facts about the circuit.                                                *)

LEMMA NextStateType ==
  ASSUME NEW s \in State, NEW i \in Inputs
  PROVE  Nxt(s, i) \in State
BY CircuitAssumption

LEMMA InitialAreStates == Initial \subseteq InitStates /\ InitStates \subseteq State
BY DEF Initial, InitStates

\* A state of frame 0 that takes a step satisfies the constraints.
LEMMA SteppingInitial ==
  ASSUME NEW s \in InitStates, NEW i \in Inputs, NEW j \in Inputs, Trans(s, i, j)
  PROVE  s \in Initial
BY DEF Initial, Live, Trans

\* A step of the circuit from a state without errors is one of the solvers.
LEMMA StepIsTrans ==
  ASSUME NEW s \in State, NEW t \in State, Step(s, t), ~Erroneous(s)
  PROVE  \E i, j \in Inputs : Trans(s, i, j) /\ t = Nxt(s, i)
BY DEF Step, Erroneous, Trans, Live

\* A set of error-free states that holds the initial states and is closed
\* under the circuit's steps shows that the circuit is safe.
LEMMA InductiveSetIsSafe ==
  ASSUME NEW S \in SUBSET State,
         Initial \subseteq S,
         ClosedUnderStep(S),
         \A s \in S : ~Erroneous(s)
  PROVE  Safe
BY DEF Safe, Reachable

\* Among the levels up to n that record a cube there is a highest one.
LEMMA HighestLevel ==
  ASSUME NEW n \in Nat, NEW L \in SUBSET (0..n), L # {}
  PROVE  \E m \in L : \A x \in L : x <= m
<1> DEFINE T == {n - x : x \in L}
<1>1. T \subseteq Nat /\ T # {}
  <2>1. \A x \in L : n - x \in Nat
    OBVIOUS
  <2>2. PICK x \in L : TRUE
    OBVIOUS
  <2>3. n - x \in T
    BY <2>2
  <2> QED BY <2>1, <2>3
<1>2. \E d \in T : \A e \in T : <<e, d>> \notin OpToRel(<, Nat)
  <2> HIDE DEF T
  <2> QED BY <1>1, NatLessThanWellFounded, WFMin
<1>3. PICK d \in T : \A e \in T : ~(e < d)
  BY <1>1, <1>2 DEF OpToRel
<1>4. PICK m \in L : d = n - m
  BY <1>3
<1>5. \A x \in L : ~(n - x < n - m)
  BY <1>3, <1>4
<1> QED BY <1>5

-----------------------------------------------------------------------------
(* Facts about the frames.                                                 *)

\* Levels are natural numbers, and above the initial one frames only grow.
LEMMA FramesGrow ==
  ASSUME FramesTypeOK, BordersRepresentFrames,
         NEW i \in Frames, NEW j \in Frames, 0 < i, i <= j
  PROVE  solvers[i] \subseteq solvers[j]
<1>1. i \in Nat /\ j \in Nat /\ k \in Nat
  BY DEF FramesTypeOK
<1>2. \A m \in j..(k + 1) : m \in i..(k + 1)
  BY <1>1
<1>3. i \in Frames \ {0} /\ j \in Frames \ {0}
  BY <1>1
<1> QED BY <1>2, <1>3 DEF BordersRepresentFrames

\* Whatever steps from a lower frame is a state of the higher one.
LEMMA SteppingStates ==
  ASSUME FramesTypeOK, FramesIncludeInitial, BordersRepresentFrames,
         NEW i \in Frames, NEW j \in Frames, i <= j,
         NEW s \in solvers[i], NEW a \in Inputs, NEW b \in Inputs, Trans(s, a, b)
  PROVE  s \in solvers[j]
<1>1. CASE i = 0
  <2>1. s \in Initial
    BY <1>1, SteppingInitial DEF FramesIncludeInitial
  <2> QED BY <2>1 DEF FramesIncludeInitial
<1>2. CASE i # 0
  BY <1>2, FramesGrow DEF FramesTypeOK
<1> QED BY <1>1, <1>2

\* A level without cubes of its own has the frame of the next level.
LEMMA EmptyLevel ==
  ASSUME FramesTypeOK, BordersRepresentFrames,
         NEW n \in Frames, n + 1 \in Frames, 0 < n, borderCubes[n] = {}
  PROVE  solvers[n + 1] \subseteq solvers[n]
<1>1. n \in Nat /\ k \in Nat
  BY DEF FramesTypeOK
<1>2. n \in Frames \ {0} /\ n + 1 \in Frames \ {0}
  BY <1>1
<1>3. \A m \in n..(k + 1) : m = n \/ m \in (n + 1)..(k + 1)
  BY <1>1
<1> QED BY <1>2, <1>3 DEF BordersRepresentFrames

-----------------------------------------------------------------------------
(* Type correctness.                                                       *)

LEMMA MinusType == ASSUME NEW S, S \subseteq State, NEW c PROVE Minus(S, c) \subseteq State
BY DEF Minus

LEMMA FramesTypeInit == FramesInit => FramesTypeOK
BY DEF FramesInit, FramesTypeOK, Frames

LEMMA FramesTypeNext == FramesTypeOK /\ [FramesNext]_frameVars => FramesTypeOK'
<1> SUFFICES ASSUME FramesTypeOK, [FramesNext]_frameVars PROVE FramesTypeOK'
  OBVIOUS
<1> USE DEF FramesTypeOK, Frames
<1>1. CASE AddFrame
  <2>1. k \in Nat \ {0} /\ InitStates \in SUBSET State
    BY InitialAreStates
  <2> QED BY <1>1, <2>1 DEF AddFrame
<1>2. ASSUME NEW n \in 1..(k + 1), NEW c \in SUBSET Lit, Block(n, c) PROVE FramesTypeOK'
  <2>1. \A i \in Frames : Minus(solvers[i], c) \subseteq State
    BY MinusType
  <2>2. solvers' \in [Frames -> SUBSET State]
    BY <1>2, <2>1 DEF Block
  <2>3. borderCubes' \in [Frames -> SUBSET SUBSET Lit]
    BY <1>2 DEF Block
  <2> QED BY <1>2, <2>2, <2>3 DEF Block
<1>3. ASSUME NEW e \in 1..(k + 1), Cleanup(e) PROVE FramesTypeOK'
  <2>1. borderCubes' \in [Frames -> SUBSET SUBSET Lit]
    BY <1>3 DEF Cleanup
  <2> QED BY <1>3, <2>1 DEF Cleanup
<1>4. ASSUME NEW n \in 1..k, NEW c \in SUBSET Lit, NEW d \in SUBSET Lit, Push(n, c, d) PROVE FramesTypeOK'
  <2>1. \A i \in Frames : Minus(solvers[i], d) \subseteq State
    BY MinusType
  <2>2. solvers' \in [Frames -> SUBSET State]
    BY <1>4, <2>1 DEF Push
  <2>3. borderCubes' \in [Frames -> SUBSET SUBSET Lit]
    BY <1>4 DEF Push
  <2> QED BY <1>4, <2>2, <2>3 DEF Push
<1>5. CASE Advance
  BY <1>5 DEF Advance, Extended
<1>6. CASE Prove
  BY <1>6 DEF Prove
<1>7. CASE Refute
  BY <1>7 DEF Refute
<1>8. CASE UNCHANGED frameVars
  BY <1>8 DEF frameVars
<1> QED BY <1>1, <1>2, <1>3, <1>4, <1>5, <1>6, <1>7, <1>8 DEF FramesNext

\* The frames and the verdict are always of the types FramesTypeOK gives them.
THEOREM FramesTypeCorrect == FramesSpec => []FramesTypeOK
BY FramesTypeInit, FramesTypeNext, PTL DEF FramesSpec

-----------------------------------------------------------------------------
(* The invariants of IC3, one action after the other.                      *)

LEMMA InitFrames == FramesInit => FramesInv
BY FramesTypeInit DEF FramesInit, FramesInv, BaseCasesPassed, SafeVerdictIsSound, Frames,
   FrameInvariants, FramesIncludeInitial, FramesAreConsecutive, FramesExcludeErrors,
   BordersRepresentFrames

LEMMA AddFrameFrames == ASSUME FramesInv, FramesTypeOK', AddFrame PROVE FramesInv'
<1>1. k \in Nat \ {0} /\ k' = k /\ Frames' = 0..(k + 1) /\ Frames \in {{}, 0..k}
  BY DEF FramesInv, FramesTypeOK, AddFrame, Extended, Frames
<1>2. ASSUME NEW i \in Frames'
      PROVE  /\ i \in Frames => solvers'[i] = solvers[i] /\ borderCubes'[i] = borderCubes[i]
             /\ i \notin Frames => borderCubes'[i] = {} /\ solvers'[i] = IF i = 0 THEN InitStates ELSE State
  BY <1>1 DEF AddFrame
<1>3. Frames = {} => k = 1
  BY DEF FramesInv, FramesTypeOK
<1>4. \A i \in Frames' : solvers'[i] \subseteq State
  BY DEF FramesTypeOK, Frames
<1>5. FramesIncludeInitial'
  <2> SUFFICES ASSUME NEW i \in Frames'
               PROVE  Initial \subseteq solvers'[i] /\ (i = 0 => solvers'[i] = InitStates)
    BY DEF FramesIncludeInitial
  <2>1. CASE i \in Frames
    BY <2>1, <1>2 DEF FramesInv, FrameInvariants, FramesIncludeInitial
  <2>2. CASE i \notin Frames
    BY <2>2, <1>2, InitialAreStates
  <2> QED BY <2>1, <2>2
<1>6. FramesAreConsecutive'
  <2> SUFFICES ASSUME NEW i \in Frames', i + 1 \in Frames', NEW s \in solvers'[i],
                      NEW a \in Inputs, NEW b \in Inputs, Trans(s, a, b)
               PROVE  Nxt(s, a) \in solvers'[i + 1]
    BY DEF FramesAreConsecutive
  <2>1. CASE i + 1 \in Frames
    <3>1. i \in Frames
      BY <2>1, <1>1
    <3> QED BY <2>1, <3>1, <1>2 DEF FramesInv, FrameInvariants, FramesAreConsecutive
  <2>2. CASE i + 1 \notin Frames
    <3>1. solvers'[i + 1] = State
      BY <2>2, <1>1, <1>2
    <3> QED BY <3>1, <1>4, NextStateType
  <2> QED BY <2>1, <2>2
<1>7. FramesExcludeErrors'
  <2> SUFFICES ASSUME NEW i \in Frames', i < k PROVE NoErrorAfter(i)'
    BY <1>1 DEF FramesExcludeErrors
  <2>1. CASE i \in Frames
    BY <2>1, <1>2 DEF FramesInv, FrameInvariants, FramesExcludeErrors, NoErrorAfter
  <2>2. CASE i \notin Frames
    <3>1. i = 0 /\ solvers'[i] = InitStates
      BY <2>2, <1>1, <1>2, <1>3
    <3> QED BY <3>1 DEF NoErrorAfter, AddFrame, BaseCases
  <2> QED BY <2>1, <2>2
<1>8. BordersRepresentFrames'
  <2> SUFFICES ASSUME NEW i \in Frames' \ {0}
               PROVE  solvers'[i] = {s \in State : \A j \in i..(k + 1) :
                        j \in Frames' => \A c \in borderCubes'[j] : ~(c \subseteq s)}
    BY <1>1 DEF BordersRepresentFrames
  <2>1. CASE i \in Frames
    <3>1. solvers'[i] = {s \in State : \A j \in i..(k + 1) :
                        j \in Frames => \A c \in borderCubes[j] : ~(c \subseteq s)}
      BY <2>1, <1>2 DEF FramesInv, FrameInvariants, BordersRepresentFrames
    <3>2. ASSUME NEW j \in i..(k + 1), NEW s
          PROVE  (j \in Frames => \A c \in borderCubes[j] : ~(c \subseteq s))
                 <=> (j \in Frames' => \A c \in borderCubes'[j] : ~(c \subseteq s))
      <4>1. j \in Frames'
        BY <1>1, <2>1
      <4> QED BY <4>1, <1>2
    <3>3. \A s \in State :
            (\A j \in i..(k + 1) : j \in Frames => \A c \in borderCubes[j] : ~(c \subseteq s))
            <=> (\A j \in i..(k + 1) : j \in Frames' => \A c \in borderCubes'[j] : ~(c \subseteq s))
      BY <3>2
    <3> QED BY <3>1, <3>3, Zenon
  <2>2. CASE i \notin Frames
    <3>1. \A j \in i..(k + 1) : j \in Frames' /\ j \notin Frames
      BY <2>2, <1>1
    <3> QED BY <3>1, <2>2, <1>2
  <2> QED BY <2>1, <2>2
<1> QED BY <1>5, <1>6, <1>7, <1>8
    DEF FramesInv, FrameInvariants, BaseCasesPassed, SafeVerdictIsSound, AddFrame

\* What Block and Push share: cube d is taken from the frames 1..m, and it
\* is inductive relative to frame m - 1 without c, which no state that
\* steps from these frames lies in.
LEMMA Strengthening ==
  ASSUME FramesInv, Frames' = Frames, k' = k, Frames = 0..(k + 1),
         NEW m \in 1..(k + 1), NEW c, NEW d,
         ExcludesInitial(d),
         Excludes(m - 1, c, d),
         \A i \in Frames : solvers'[i] = IF i \in 1..m THEN Minus(solvers[i], d) ELSE solvers[i],
         \A i \in 0..(m - 1) : \A s \in solvers'[i], a, b \in Inputs : Trans(s, a, b) => ~(c \subseteq s)
  PROVE  FramesIncludeInitial' /\ FramesAreConsecutive' /\ FramesExcludeErrors'
<1>1. k \in Nat /\ m \in Nat /\ m - 1 \in Frames
  BY DEF FramesInv, FramesTypeOK
<1>2. \A i \in Frames : solvers'[i] \subseteq solvers[i]
  BY DEF Minus
<1>3. FramesIncludeInitial'
  <2> SUFFICES ASSUME NEW i \in Frames
               PROVE  Initial \subseteq solvers'[i] /\ (i = 0 => solvers'[i] = InitStates)
    BY DEF FramesIncludeInitial
  <2>1. Initial \subseteq solvers[i] /\ (i = 0 => solvers[i] = InitStates)
    BY DEF FramesInv, FrameInvariants, FramesIncludeInitial
  <2>2. i = 0 => solvers'[i] = solvers[i]
    BY <1>1
  <2> QED BY <2>1, <2>2 DEF ExcludesInitial, Minus
<1>4. FramesAreConsecutive'
  <2> SUFFICES ASSUME NEW i \in Frames, i + 1 \in Frames, NEW s \in solvers'[i],
                      NEW a \in Inputs, NEW b \in Inputs, Trans(s, a, b)
               PROVE  Nxt(s, a) \in solvers'[i + 1]
    BY DEF FramesAreConsecutive
  <2>1. Nxt(s, a) \in solvers[i + 1]
    BY <1>2 DEF FramesInv, FrameInvariants, FramesAreConsecutive
  <2>2. CASE i + 1 \in 1..m
    <3>1. i \in 0..(m - 1)
      BY <2>2, <1>1
    <3>2. ~(c \subseteq s)
      BY <3>1
    <3>3. s \in solvers[m - 1]
      BY <1>1, <1>2, <3>1, SteppingStates DEF FramesInv, FrameInvariants
    <3>4. ~(d \subseteq Nxt(s, a))
      BY <3>2, <3>3 DEF Excludes
    <3> QED BY <2>1, <2>2, <3>4 DEF Minus
  <2>3. CASE i + 1 \notin 1..m
    BY <2>1, <2>3
  <2> QED BY <2>2, <2>3
<1>5. FramesExcludeErrors'
  BY <1>2 DEF FramesInv, FrameInvariants, FramesExcludeErrors, NoErrorAfter
<1> QED BY <1>3, <1>4, <1>5

LEMMA BlockFrames ==
  ASSUME FramesInv, FramesTypeOK', NEW n \in 1..(k + 1), NEW c \in SUBSET Lit, Block(n, c)
  PROVE  FramesInv'
<1>1. k \in Nat \ {0} /\ k' = k /\ Frames' = Frames /\ Frames = 0..(k + 1)
  BY DEF FramesInv, FramesTypeOK, Block, Extended, Frames
<1>2. \A i \in Frames : solvers'[i] = IF i \in 1..n THEN Minus(solvers[i], c) ELSE solvers[i]
  BY DEF Block
<1>3. \A i \in Frames : borderCubes'[i] = IF i = n THEN borderCubes[i] \cup {c} ELSE borderCubes[i]
  BY <1>1 DEF Block, FramesInv, FramesTypeOK
<1>4. FramesIncludeInitial' /\ FramesAreConsecutive' /\ FramesExcludeErrors'
  <2>1. ASSUME NEW i \in 0..(n - 1), NEW s \in solvers'[i], NEW a \in Inputs, NEW b \in Inputs,
               Trans(s, a, b)
        PROVE  ~(c \subseteq s)
    <3>1. i \in Frames
      BY <1>1
    <3>2. CASE i = 0
      <4>1. s \in InitStates
        BY <3>1, <3>2, <1>2 DEF FramesInv, FrameInvariants, FramesIncludeInitial
      <4> QED BY <4>1, <2>1, SteppingInitial DEF Block, ExcludesInitial
    <3>3. CASE i # 0
      <4>1. i \in 1..n
        BY <1>1, <3>3
      <4> QED BY <4>1, <3>1, <1>2 DEF Minus
    <3> QED BY <3>2, <3>3
  <2> QED BY <1>1, <1>2, <2>1, Strengthening DEF Block
<1>5. BordersRepresentFrames'
  <2> SUFFICES ASSUME NEW i \in Frames \ {0}, NEW s \in State
               PROVE  s \in solvers'[i] <=>
                        \A j \in i..(k + 1) : \A x \in borderCubes'[j] : ~(x \subseteq s)
    <3>1. solvers' \in [Frames -> SUBSET State]
      BY <1>1 DEF FramesTypeOK, Frames
    <3> QED BY <1>1, <3>1 DEF BordersRepresentFrames
  <2>1. s \in solvers[i] <=> \A j \in i..(k + 1) : \A x \in borderCubes[j] : ~(x \subseteq s)
    BY <1>1 DEF FramesInv, FrameInvariants, BordersRepresentFrames
  <2>2. \A j \in i..(k + 1) : j \in Frames
    BY <1>1
  <2>3. CASE i <= n
    <3>1. i \in 1..n /\ n \in i..(k + 1)
      BY <1>1, <2>3
    <3>2. s \in solvers'[i] <=> s \in solvers[i] /\ ~(c \subseteq s)
      BY <1>2, <3>1 DEF Minus
    <3> QED BY <1>3, <2>1, <2>2, <3>1, <3>2
  <2>4. CASE ~(i <= n)
    <3>1. \A j \in i..(k + 1) : borderCubes'[j] = borderCubes[j]
      <4>1. \A j \in i..(k + 1) : j # n
        BY <1>1, <2>4
      <4> QED BY <1>3, <2>2, <4>1
    <3> QED BY <1>1, <1>2, <2>1, <2>4, <3>1
  <2> QED BY <1>1, <2>3, <2>4
<1> QED BY <1>1, <1>4, <1>5 DEF FramesInv, FrameInvariants, BaseCasesPassed, SafeVerdictIsSound, Block

LEMMA CleanupFrames ==
  ASSUME FramesInv, FramesTypeOK', NEW e \in 1..(k + 1), Cleanup(e)
  PROVE  FramesInv'
<1>1. k \in Nat \ {0} /\ k' = k /\ Frames' = Frames /\ Frames = 0..(k + 1) /\ solvers' = solvers
  BY DEF FramesInv, FramesTypeOK, Cleanup, Extended, Frames
<1>2. \A i \in Frames : borderCubes'[i] =
        IF i < e THEN borderCubes[i] ELSE borderCubes[i] \ UNION {borderCubes[j] : j \in (i + 1)..(k + 1)}
  BY DEF Cleanup
<1>3. \A i \in Frames : borderCubes'[i] \subseteq borderCubes[i]
  BY <1>2
\* A cube is kept at the highest level that records it.
<1>4. ASSUME NEW j \in Frames, NEW c \in borderCubes[j]
      PROVE  \E m \in j..(k + 1) : c \in borderCubes'[m]
  <2> DEFINE L == {m \in 0..(k + 1) : c \in borderCubes[m]}
  <2>1. k + 1 \in Nat /\ L \in SUBSET (0..(k + 1)) /\ j \in L
    BY <1>1
  <2>2. PICK m \in L : \A x \in L : x <= m
    <3> HIDE DEF L
    <3> QED BY <2>1, HighestLevel
  <2>3. m \in Frames /\ m \in j..(k + 1)
    BY <1>1, <2>1, <2>2
  <2>4. c \notin UNION {borderCubes[x] : x \in (m + 1)..(k + 1)}
    <3> SUFFICES ASSUME NEW x \in (m + 1)..(k + 1), c \in borderCubes[x] PROVE FALSE
      OBVIOUS
    <3>1. x \in L /\ ~(x <= m)
      BY <1>1, <2>3
    <3> QED BY <2>2, <3>1
  <2>5. c \in borderCubes'[m]
    BY <1>2, <2>2, <2>3, <2>4
  <2> QED BY <2>3, <2>5
<1>5. BordersRepresentFrames'
  <2> SUFFICES ASSUME NEW i \in Frames \ {0}, NEW s \in State
               PROVE  s \in solvers[i] <=>
                        \A j \in i..(k + 1) : \A x \in borderCubes'[j] : ~(x \subseteq s)
    <3>1. solvers' \in [Frames -> SUBSET State]
      BY <1>1 DEF FramesTypeOK, Frames
    <3> QED BY <1>1, <3>1 DEF BordersRepresentFrames
  <2>1. s \in solvers[i] <=> \A j \in i..(k + 1) : \A x \in borderCubes[j] : ~(x \subseteq s)
    BY <1>1 DEF FramesInv, FrameInvariants, BordersRepresentFrames
  <2>2. \A j \in i..(k + 1) : j \in Frames /\ \A m \in j..(k + 1) : m \in i..(k + 1)
    BY <1>1
  <2>3. ASSUME NEW j \in i..(k + 1), NEW x \in borderCubes[j]
        PROVE  \E m \in i..(k + 1) : x \in borderCubes'[m]
    BY <1>4, <2>2
  <2> QED BY <1>3, <2>1, <2>2, <2>3
<1> QED BY <1>1, <1>5 DEF FramesInv, FrameInvariants, FramesIncludeInitial, FramesAreConsecutive,
      FramesExcludeErrors, NoErrorAfter, BaseCasesPassed, SafeVerdictIsSound, Cleanup

LEMMA PushFrames ==
  ASSUME FramesInv, FramesTypeOK', NEW n \in 1..k, NEW c \in SUBSET Lit, NEW d \in SUBSET Lit, Push(n, c, d)
  PROVE  FramesInv'
<1>1. k \in Nat \ {0} /\ k' = k /\ Frames' = Frames /\ Frames = 0..(k + 1)
  BY DEF FramesInv, FramesTypeOK, Push, Extended, Frames
<1>2. \A i \in Frames : solvers'[i] = IF i \in 1..(n + 1) THEN Minus(solvers[i], d) ELSE solvers[i]
  BY DEF Push
<1>3. \A i \in Frames : borderCubes'[i] = IF i = n THEN borderCubes[i] \ {c}
                                        ELSE IF i = n + 1 THEN borderCubes[i] \cup {d}
                                        ELSE borderCubes[i]
  <2>1. n # n + 1 /\ n \in Frames /\ n + 1 \in Frames
    BY <1>1
  <2>2. borderCubes \in [Frames -> SUBSET SUBSET Lit]
    BY DEF FramesInv, FramesTypeOK
  <2>3. borderCubes' = [borderCubes EXCEPT ![n] = @ \ {c}, ![n + 1] = @ \cup {d}]
    BY DEF Push
  <2> QED BY <2>1, <2>2, <2>3
<1>4. c \in borderCubes[n] /\ d \subseteq c
  BY DEF Push
\* The frames up to level n exclude the cube that is recorded there.
<1>5. ASSUME NEW i \in 1..n, NEW s \in solvers[i] PROVE ~(c \subseteq s)
  <2>1. i \in Frames \ {0} /\ n \in i..(k + 1) /\ n \in Frames
    BY <1>1
  <2> QED BY <1>4, <2>1 DEF FramesInv, FrameInvariants, BordersRepresentFrames
<1>6. FramesIncludeInitial' /\ FramesAreConsecutive' /\ FramesExcludeErrors'
  <2>1. n + 1 \in 1..(k + 1) /\ (n + 1) - 1 = n
    BY <1>1
  <2>2. ASSUME NEW i \in 0..n, NEW s \in solvers'[i], NEW a \in Inputs, NEW b \in Inputs,
               Trans(s, a, b)
        PROVE  ~(c \subseteq s)
    <3>1. i \in Frames /\ n \in Frames
      BY <1>1
    <3>2. CASE i = 0
      <4>1. s \in InitStates
        BY <3>1, <3>2, <1>2 DEF FramesInv, FrameInvariants, FramesIncludeInitial
      <4>2. s \in solvers[n]
        BY <3>1, <4>1, <2>2, SteppingInitial DEF FramesInv, FrameInvariants, FramesIncludeInitial
      <4> QED BY <4>2, <1>5
    <3>3. CASE i # 0
      <4>1. i \in 1..n
        BY <1>1, <3>3
      <4>2. s \in solvers[i]
        BY <1>2, <2>2, <3>1 DEF Minus
      <4> QED BY <4>1, <4>2, <1>5
    <3> QED BY <3>2, <3>3
  <2> QED BY <1>1, <1>2, <2>1, <2>2, Strengthening DEF Push
<1>7. BordersRepresentFrames'
  <2> SUFFICES ASSUME NEW i \in Frames \ {0}, NEW s \in State
               PROVE  s \in solvers'[i] <=>
                        \A j \in i..(k + 1) : \A x \in borderCubes'[j] : ~(x \subseteq s)
    <3>1. solvers' \in [Frames -> SUBSET State]
      BY <1>1 DEF FramesTypeOK, Frames
    <3> QED BY <1>1, <3>1 DEF BordersRepresentFrames
  <2>1. s \in solvers[i] <=> \A j \in i..(k + 1) : \A x \in borderCubes[j] : ~(x \subseteq s)
    BY <1>1 DEF FramesInv, FrameInvariants, BordersRepresentFrames
  <2>2. \A j \in i..(k + 1) : j \in Frames
    BY <1>1
  <2>3. CASE i <= n + 1
    <3>1. i \in 1..(n + 1) /\ n + 1 \in i..(k + 1) /\ n # n + 1
      BY <1>1, <2>3
    <3>2. s \in solvers'[i] <=> s \in solvers[i] /\ ~(d \subseteq s)
      BY <1>2, <3>1 DEF Minus
    <3>3. d \in borderCubes'[n + 1]
      BY <1>3, <2>2, <3>1
    <3>4. ASSUME NEW j \in i..(k + 1), NEW x \in borderCubes'[j]
          PROVE  x \in borderCubes[j] \/ x = d
      BY <1>3, <2>2
    <3>5. ASSUME NEW j \in i..(k + 1), NEW x \in borderCubes[j]
          PROVE  x \in borderCubes'[j] \/ x = c
      BY <1>3, <2>2
    <3>6. c \subseteq s => d \subseteq s
      BY <1>4
    <3> QED BY <2>1, <3>1, <3>2, <3>3, <3>4, <3>5, <3>6
  <2>4. CASE ~(i <= n + 1)
    <3>1. i \notin 1..(n + 1) /\ \A j \in i..(k + 1) : j # n /\ j # n + 1
      BY <1>1, <2>4
    <3> QED BY <1>2, <1>3, <2>1, <2>2, <3>1
  <2> QED BY <2>3, <2>4
<1> QED BY <1>1, <1>6, <1>7 DEF FramesInv, FrameInvariants, BaseCasesPassed, SafeVerdictIsSound, Push

LEMMA AdvanceFrames == ASSUME FramesInv, FramesTypeOK', Advance PROVE FramesInv'
<1>1. k \in Nat \ {0} /\ k' = k + 1 /\ Frames' = Frames /\ Frames = 0..(k + 1)
  BY DEF FramesInv, FramesTypeOK, Advance, Extended, Frames
<1>2. solvers' = solvers /\ borderCubes' = borderCubes /\ verdict' = verdict
  BY DEF Advance
<1>3. FramesExcludeErrors'
  <2> SUFFICES ASSUME NEW i \in Frames, i < k + 1 PROVE NoErrorAfter(i)
    BY <1>1, <1>2 DEF FramesExcludeErrors, NoErrorAfter
  <2>1. i = k \/ i < k
    BY <1>1
  <2> QED BY <2>1 DEF Advance, FramesInv, FrameInvariants, FramesExcludeErrors
<1>4. BordersRepresentFrames'
  <2> SUFFICES ASSUME NEW i \in Frames \ {0}, NEW s \in State
               PROVE  (\A j \in i..(k + 1) : j \in Frames => \A x \in borderCubes[j] : ~(x \subseteq s))
                      <=> (\A j \in i..(k + 2) : j \in Frames => \A x \in borderCubes[j] : ~(x \subseteq s))
    <3>1. k' + 1 = k + 2
      BY <1>1
    <3> QED BY <1>1, <1>2, <3>1 DEF FramesInv, FrameInvariants, BordersRepresentFrames
  <2>1. \A j \in Frames : j \in i..(k + 1) <=> j \in i..(k + 2)
    BY <1>1
  <2> QED BY <2>1
<1> QED BY <1>1, <1>2, <1>3, <1>4 DEF FramesInv, FrameInvariants, FramesIncludeInitial,
      FramesAreConsecutive, BaseCasesPassed, SafeVerdictIsSound

\* Two equal frames, without their error states, are closed under the
\* circuit's steps.
LEMMA ProveFrames == ASSUME FramesInv, FramesTypeOK', Prove PROVE FramesInv'
<1>1. k \in Nat \ {0} /\ Frames = 0..(k + 1)
  BY DEF FramesInv, FramesTypeOK, Prove, Extended, Frames
<1>2. PICK n \in 1..k : borderCubes[n] = {}
  BY DEF Prove
<1>3. n \in Frames /\ n + 1 \in Frames /\ 0 < n
  BY <1>1
<1>4. solvers[n + 1] \subseteq solvers[n]
  BY <1>2, <1>3, EmptyLevel DEF FramesInv, FrameInvariants
<1>5. NoErrorAfter(n)
  <2>1. n = k \/ n < k
    BY <1>1
  <2> QED BY <1>3, <2>1 DEF Prove, FramesInv, FrameInvariants, FramesExcludeErrors
<1> DEFINE S == {s \in solvers[n] : ~Erroneous(s)}
<1>6. S \subseteq State /\ Initial \subseteq S
  <2>1. solvers[n] \subseteq State
    BY <1>3 DEF FramesInv, FramesTypeOK
  <2>2. BaseCases
    BY <1>3 DEF FramesInv, BaseCasesPassed
  <2> QED BY <1>3, <2>1, <2>2 DEF BaseCases, FramesInv, FrameInvariants, FramesIncludeInitial
<1>7. ClosedUnderStep(S)
  <2> SUFFICES ASSUME NEW s \in S, NEW t \in State, Step(s, t) PROVE t \in S
    BY DEF ClosedUnderStep
  <2>1. PICK i \in Inputs, j \in Inputs : Trans(s, i, j) /\ t = Nxt(s, i)
    BY <1>6, StepIsTrans
  <2>2. t \in solvers[n]
    BY <1>3, <1>4, <2>1 DEF FramesInv, FrameInvariants, FramesAreConsecutive
  <2>3. ASSUME Erroneous(t) PROVE FALSE
    <3>1. PICK x \in Inputs : Con(t, x) /\ Err(t, x)
      BY <2>3 DEF Erroneous
    <3>2. Trans(s, i, x)
      BY <2>1, <3>1 DEF Trans
    <3> QED BY <1>5, <2>1, <3>1, <3>2 DEF NoErrorAfter
  <2> QED BY <2>2, <2>3
<1>8. Safe
  <2> HIDE DEF S
  <2>1. \A s \in S : ~Erroneous(s)
    BY DEF S
  <2> QED BY <1>6, <1>7, <2>1, InductiveSetIsSafe
<1> QED BY <1>8 DEF FramesInv, FrameInvariants, FramesIncludeInitial, FramesAreConsecutive,
      FramesExcludeErrors, NoErrorAfter, BordersRepresentFrames, Frames, BaseCasesPassed,
      SafeVerdictIsSound, Prove

LEMMA RefuteFrames == ASSUME FramesInv, FramesTypeOK', Refute PROVE FramesInv'
BY DEF FramesInv, FrameInvariants, FramesIncludeInitial, FramesAreConsecutive, FramesExcludeErrors,
   NoErrorAfter, BordersRepresentFrames, Frames, BaseCasesPassed, SafeVerdictIsSound, Refute

-----------------------------------------------------------------------------
LEMMA NextFrames == FramesInv /\ [FramesNext]_frameVars => FramesInv'
<1> SUFFICES ASSUME FramesInv, [FramesNext]_frameVars PROVE FramesInv'
  OBVIOUS
<1>1. FramesTypeOK'
  BY FramesTypeNext DEF FramesInv
<1>2. CASE UNCHANGED frameVars
  BY <1>2 DEF frameVars, FramesInv, FramesTypeOK, FrameInvariants, FramesIncludeInitial, FramesAreConsecutive,
     FramesExcludeErrors, NoErrorAfter, BordersRepresentFrames, Frames, BaseCasesPassed,
     SafeVerdictIsSound
<1> QED BY <1>1, <1>2, AddFrameFrames, BlockFrames, CleanupFrames, PushFrames, AdvanceFrames,
      ProveFrames, RefuteFrames DEF FramesNext

\* For every circuit the frames keep the four invariants of IC3.
THEOREM FramesInvariant == FramesSpec => []FrameInvariants
<1>1. FramesInv => FrameInvariants
  BY DEF FramesInv
<1> QED BY InitFrames, NextFrames, <1>1, PTL DEF FramesSpec

\* For every circuit, "safe" means that no error state can be reached.
THEOREM SafeVerdict == FramesSpec => []SafeVerdictIsSound
<1>1. FramesInv => SafeVerdictIsSound
  BY DEF FramesInv
<1> QED BY InitFrames, NextFrames, <1>1, PTL DEF FramesSpec
=============================================================================
