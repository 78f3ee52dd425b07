----------------------------- MODULE IC3Frames -----------------------------
(***************************************************************************)
(* What IC3 promises about its frames, with no word on how cubes are       *)
(* found: a frame may only be strengthened by a cube that excludes every   *)
(* initial state and is inductive relative to the frame below; cubes move  *)
(* up by induction; the search stops when a level keeps no cube of its     *)
(* own.  This is the argument of the original paper that IC3.cpp names in  *)
(* its comments ("See the four invariants of IC3 in the original paper").  *)
(***************************************************************************)
EXTENDS Naturals, FiniteSets

-----------------------------------------------------------------------------
(* The transition system a Model holds: the latches with their resets, the *)
(* next-state functions, the error and the AIGER 1.9 invariant             *)
(* constraints, as the SAT solvers created by Model see them.              *)
(*                                                                         *)
(* A literal is a latch with the value it asserts, a cube is a set of      *)
(* literals, and a state is a cube with exactly one literal of each latch: *)
(* "state s lies in cube c" is c \subseteq s.  The AND gates are folded    *)
(* into Nxt, Err and Con; the primary inputs appear as whole valuations.   *)

CONSTANTS Latch,        \* the latches
          Inputs,       \* the valuations of the primary inputs
          InitLits,     \* the literals fixed by the latches' resets
          Constrained,  \* does the AIGER file declare invariant constraints?
          Nxt(_, _),    \* next state of a state under an input valuation
          Err(_, _),    \* does the error literal hold there?
          Con(_, _)     \* do all invariant constraints hold there?

Lit == Latch \X BOOLEAN

Neg(p) == <<p[1], ~p[2]>>

State == {s \in SUBSET Lit : \A l \in Latch : (<<l, TRUE>> \in s) # (<<l, FALSE>> \in s)}

ASSUME CircuitAssumption ==
  /\ IsFiniteSet(Latch)
  /\ Inputs # {}
  /\ InitLits \subseteq Lit
  /\ \A p \in InitLits : Neg(p) \notin InitLits
  /\ Constrained \in BOOLEAN
  /\ \A s \in State, i \in Inputs :
       /\ Nxt(s, i) \in State
       /\ Err(s, i) \in BOOLEAN
       /\ Con(s, i) \in BOOLEAN
       /\ ~Constrained => Con(s, i)

-----------------------------------------------------------------------------
(* What the solvers are loaded with.                                       *)

\* The latch states the resets allow; the constraints come with Con.
InitStates == {s \in State : InitLits \subseteq s}

\* The states in which all the constraints hold under some input.
Live(s) == \E i \in Inputs : Con(s, i)

Initial == {s \in InitStates : Live(s)}

\* T with the primed constraints: from s, under inputs i now and j next.
Trans(s, i, j) == Con(s, i) /\ ~Err(s, i) /\ Con(Nxt(s, i), j)

\* T as the lifting solver sees it: the primed constraints are left out.
LiftTrans(s, i) == Con(s, i) /\ ~Err(s, i)

\* Does cube c contain an initial state?  Without constraints this is a
\* comparison of literals, with constraints a SAT query.
IsInitial(c) ==
  IF Constrained THEN \E s \in Initial : c \subseteq s
                 ELSE \A p \in c : Neg(p) \notin InitLits

-----------------------------------------------------------------------------
(* What it means for the circuit to be safe, independently of IC3.         *)

Step(s, t) == \E i \in Inputs : Con(s, i) /\ t = Nxt(s, i) /\ Live(t)

Erroneous(s) == \E i \in Inputs : Con(s, i) /\ Err(s, i)

ClosedUnderStep(S) == \A s \in S, t \in State : Step(s, t) => t \in S

\* The states of every closed set that holds the initial states.
Reachable ==
  {s \in State : \A S \in SUBSET State : Initial \subseteq S /\ ClosedUnderStep(S) => s \in S}

Safe == \A s \in Reachable : ~Erroneous(s)

\* The constraints of a circuit read only its latches.
ConstraintsReadLatches == \A s \in State, i, j \in Inputs : Con(s, i) = Con(s, j)

-----------------------------------------------------------------------------
(* The frames.                                                             *)

VARIABLES k,            \* the frontier
          borderCubes,  \* frames[i].borderCubes: the cubes recorded at level i
          solvers,      \* frames[i].consecution, as the latch states it admits
          verdict       \* what check() returned: "none", "safe" or "unsafe"

frameVars == <<k, borderCubes, solvers, verdict>>

Frames == DOMAIN solvers

\* No state of frame fi outside c steps into d.
Excludes(fi, c, d) ==
  \A s \in solvers[fi], i, j \in Inputs :
     ~(c \subseteq s) /\ Trans(s, i, j) => ~(d \subseteq Nxt(s, i))

ExcludesInitial(c) == \A s \in Initial : ~(c \subseteq s)

\* No state of frame fi steps to an error.
NoErrorAfter(fi) ==
  \A s \in solvers[fi], i, j \in Inputs : Trans(s, i, j) => ~Err(Nxt(s, i), j)

\* The states that cube c leaves over.
Minus(S, c) == {s \in S : ~(c \subseteq s)}

Extended == Frames = 0..(k + 1)

FramesTypeOK ==
  /\ k \in Nat \ {0}
  /\ Frames \in {{}, 0..k, 0..(k + 1)}
  /\ Frames = {} => k = 1
  /\ borderCubes \in [Frames -> SUBSET SUBSET Lit]
  /\ solvers \in [Frames -> SUBSET State]
  /\ verdict \in {"none", "safe", "unsafe"}

-----------------------------------------------------------------------------
FramesInit ==
  /\ k = 1
  /\ borderCubes = [i \in {} |-> {}]
  /\ solvers = [i \in {} |-> {}]
  /\ verdict = "none"

BaseCases ==
  /\ \A s \in Initial : ~Erroneous(s)
  /\ \A s \in InitStates, i, j \in Inputs : Trans(s, i, j) => ~Err(Nxt(s, i), j)

AddFrame ==
  /\ verdict = "none"
  /\ BaseCases
  /\ ~Extended
  /\ borderCubes' = [i \in 0..(k + 1) |-> IF i \in Frames THEN borderCubes[i] ELSE {}]
  /\ solvers' = [i \in 0..(k + 1) |-> IF i \in Frames THEN solvers[i]
                                      ELSE IF i = 0 THEN InitStates ELSE State]
  /\ UNCHANGED <<k, verdict>>

\* Record c at level n and exclude it from the frames 1..n.
Block(n, c) ==
  /\ verdict = "none" /\ Extended
  /\ n \in 1..(k + 1)
  /\ ExcludesInitial(c)
  /\ Excludes(n - 1, c, c)
  /\ borderCubes' = [borderCubes EXCEPT ![n] = @ \cup {c}]
  /\ solvers' = [i \in Frames |-> IF i \in 1..n THEN Minus(solvers[i], c) ELSE solvers[i]]
  /\ UNCHANGED <<k, verdict>>

\* Forget, at the levels from e on, the cubes that a higher level holds too.
Cleanup(e) ==
  /\ verdict = "none" /\ Extended
  /\ borderCubes' = [i \in Frames |->
       IF i < e THEN borderCubes[i]
       ELSE borderCubes[i] \ UNION {borderCubes[j] : j \in (i + 1)..(k + 1)}]
  /\ UNCHANGED <<k, solvers, verdict>>

\* Move c from level n to level n + 1, possibly reduced to d.
Push(n, c, d) ==
  /\ verdict = "none" /\ Extended
  /\ n \in 1..k
  /\ c \in borderCubes[n]
  /\ d \subseteq c
  /\ ExcludesInitial(d)
  /\ Excludes(n, c, d)
  /\ borderCubes' = [borderCubes EXCEPT ![n] = @ \ {c}, ![n + 1] = @ \cup {d}]
  /\ solvers' = [i \in Frames |-> IF i \in 1..(n + 1) THEN Minus(solvers[i], d) ELSE solvers[i]]
  /\ UNCHANGED <<k, verdict>>

Advance ==
  /\ verdict = "none" /\ Extended
  /\ NoErrorAfter(k)
  /\ k' = k + 1
  /\ UNCHANGED <<borderCubes, solvers, verdict>>

Prove ==
  /\ verdict = "none" /\ Extended
  /\ NoErrorAfter(k)
  /\ \E n \in 1..k : borderCubes[n] = {}
  /\ verdict' = "safe"
  /\ UNCHANGED <<k, borderCubes, solvers>>

Refute ==
  /\ verdict = "none"
  /\ ~Safe
  /\ verdict' = "unsafe"
  /\ UNCHANGED <<k, borderCubes, solvers>>

FramesNext ==
  \/ AddFrame
  \/ \E n \in 1..(k + 1), c \in SUBSET Lit : Block(n, c)
  \/ \E e \in 1..(k + 1) : Cleanup(e)
  \/ \E n \in 1..k, c, d \in SUBSET Lit : Push(n, c, d)
  \/ Advance
  \/ Prove
  \/ Refute

FramesSpec == FramesInit /\ [][FramesNext]_frameVars

-----------------------------------------------------------------------------
(* What the frames guarantee, and why the verdict can be trusted.          *)

\* Frame 0 holds the initial states, and every frame includes them.
FramesIncludeInitial ==
  \A i \in Frames : Initial \subseteq solvers[i] /\ (i = 0 => solvers[i] = InitStates)

\* A step from one frame ends in the next one: frame i holds every state
\* that i steps reach, though addCube() strengthens up to i frames at once.
FramesAreConsecutive ==
  \A i \in Frames : i + 1 \in Frames =>
    \A s \in solvers[i], a, b \in Inputs : Trans(s, a, b) => Nxt(s, a) \in solvers[i + 1]

\* Below the frontier no frame steps to an error: strengthen() is never
\* undone by what propagate() does to the frames.
FramesExcludeErrors == \A i \in Frames : i < k => NoErrorAfter(i)

\* Apart from the initial one, a frame is what the cubes recorded at its
\* level and above leave over, though propagate() moves and drops cubes and
\* gives a clause to the top solver only.  So two frames agree once the
\* lower one records no cube of its own.
BordersRepresentFrames ==
  \A i \in Frames \ {0} :
    solvers[i] = {s \in State : \A j \in i..(k + 1) :
                    j \in Frames => \A c \in borderCubes[j] : ~(c \subseteq s)}

\* The four invariants of IC3 that propagate() names.
FrameInvariants ==
  /\ FramesIncludeInitial
  /\ FramesAreConsecutive
  /\ FramesExcludeErrors
  /\ BordersRepresentFrames

\* "safe" is only answered of a circuit that reaches no error.
SafeVerdictIsSound == verdict = "safe" => Safe
=============================================================================
