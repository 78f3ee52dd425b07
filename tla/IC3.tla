-------------------------------- MODULE IC3 --------------------------------
(***************************************************************************)
(* The search of IC3.cpp: check() with its base cases, extend(),           *)
(* strengthen(), handleObligations(), generalize(), mic(), ctgDown(),      *)
(* addCube() and propagate().  One action per stretch of code between two  *)
(* points where the control can branch.  A SAT solver answers with any     *)
(* model of the query or any unsatisfiable subset of the assumptions; the  *)
(* heuristic order of literals is any order.  The frames, the frontier and *)
(* the verdict are the variables of IC3Frames.                             *)
(***************************************************************************)
EXTENDS IC3Frames, Pool, Sequences, FiniteSetsExt

CONSTANTS     \* the limits of the search, which the constructor of IC3 sets
  MaxDepth,     \* maxDepth: nesting of mic() inside ctgDown()
  MaxCTGs,      \* maxCTGs
  MaxJoins,     \* maxJoins
  MicAttempts   \* micAttempts

ASSUME LimitsAssumption ==
  /\ MaxDepth \in Nat /\ MaxCTGs \in Nat /\ MaxJoins \in Nat
  /\ MicAttempts \in Nat \ {0}

VARIABLES
  pc,           \* the next piece of code to run
  earliest,     \* lowest level modified in this major iteration
  trivial,      \* no strengthening was required in this major iteration
  states,       \* the State pool: the used States by their number
  obls,         \* the priority queue of proof obligations
  obl,          \* the obligation taken off the queue, while it is generalized
  stack,        \* the activations of mic() with the ctgDown() each is in
  level,        \* propagate(): the level i ...
  todo,         \* ... and the cubes of it not visited yet
  cexState      \* beginning of the counterexample trace, 0 for none

poolVars  == <<states, obls, obl>>
scanVars  == <<level, todo>>
vars == <<pc, frameVars, earliest, trivial, poolVars, stack, scanVars, cexState>>

NoObl == [state |-> 0, level |-> 0, depth |-> 0]

-----------------------------------------------------------------------------
(* Queries.                                                                *)

Initiation(c) == ~IsInitial(c)

\* The models of F_fi /\ ~c /\ T /\ d': a state, its input and the next one.
CTIs(fi, c, d) ==
  {m \in solvers[fi] \X Inputs \X Inputs :
     ~(c \subseteq m[1]) /\ Trans(m[1], m[2], m[3]) /\ d \subseteq Nxt(m[1], m[2])}

Inductive(fi, c) == CTIs(fi, c, c) = {}

\* Faulty form of Cores: no fallback when the core covers an initial state.
CoresUnchecked(fi, c) == {e \in SUBSET c : CTIs(fi, c, e) = {}}

\* The cores consecution() may hand back: the literals of c in some
\* unsatisfiable core, all of c if they cover an initial state.
Cores(fi, c) ==
  {IF Initiation(d) THEN d ELSE c : d \in {e \in SUBSET c : CTIs(fi, c, e) = {}}}

\* The models of F_fi /\ T /\ error'.
ErrorCTIs(fi) ==
  {m \in solvers[fi] \X Inputs \X Inputs :
     Trans(m[1], m[2], m[3]) /\ Err(Nxt(m[1], m[2]), m[3])}

-----------------------------------------------------------------------------
(* Lifting: the States that the model of a query may be turned into.      *)

\* Is the target of a lifted state hit: the successor's cube, or the error?
Hits(pool, succ, t, j) == IF succ = 0 THEN Err(t, j) ELSE pool[succ].latches \subseteq t

\* The cubes stateOf() may lift the model m to: literals of its state that
\* leave no way around the successor (or a primed constraint) with its inputs.
Lifted(pool, m, succ) ==
  {d \in SUBSET m[1] : \A u \in State :
     d \subseteq u /\ LiftTrans(u, m[2]) =>
       Con(Nxt(u, m[2]), m[3]) /\ Hits(pool, succ, Nxt(u, m[2]), m[3])}

\* Faulty form of StatesOf: the link to the successor is forgotten.
StatesUnlinked(pool, ms, succ) ==
  UNION {{[latches |-> d, inputs |-> {m[2]}, successor |-> 0] :
            d \in Lifted(pool, m, succ)} : m \in ms}

\* The States stateOf() may create for one of the models ms.
StatesOf(pool, ms, succ) ==
  UNION {{[latches |-> d, inputs |-> {m[2]}, successor |-> succ] :
            d \in Lifted(pool, m, succ)} : m \in ms}

-----------------------------------------------------------------------------
(* Frames.                                                                 *)

\* Faulty form of Targets: the clause is always given to the top solver only.
TargetsTop(n, toAll) == {n}

\* The levels whose solvers addCube() gives the clause to.
Targets(n, toAll) == IF toAll THEN 1..n ELSE {n}

\* addCube() when the cube is not at level n yet.
RecordCube(n, c, toAll, border) ==
  /\ borderCubes' = [border EXCEPT ![n] = @ \cup {c}]
  /\ solvers' = [i \in Frames |-> IF i \in Targets(n, toAll)
                                  THEN {s \in solvers[i] : ~(c \subseteq s)} ELSE solvers[i]]
  /\ earliest' = Min({earliest, n})

\* addCube(), given the border cubes it finds.  HeuristicLitOrder::count()
\* asserts that the cube is not empty; next is where the caller goes on.
AddCube(n, c, toAll, border, next) ==
  IF c \in border[n]
  THEN borderCubes' = border /\ pc' = next /\ UNCHANGED <<solvers, earliest>>
  ELSE RecordCube(n, c, toAll, border) /\ pc' = IF toAll /\ c = {} THEN "aborted" ELSE next

\* Faulty form of Pushed: the level before is tested, one level too many.
PushedTooFar(n, c) ==
  CHOOSE m \in n..(k + 1) :
    /\ m = k + 1 \/ ~Inductive(m - 1, c)
    /\ \A x \in n..(m - 1) : m = n \/ Inductive(x - 1, c)

\* The first level from n on that ~c is not inductive relative to.
Pushed(n, c) ==
  CHOOSE m \in n..(k + 1) :
    /\ m = k + 1 \/ ~Inductive(m, c)
    /\ \A x \in n..(m - 1) : Inductive(x, c)

-----------------------------------------------------------------------------
(* mic() and ctgDown().  Of the literals of cube, in the order mic() works *)
(* through them, kept are the first i and drop holds the next one; down is *)
(* the cube of the ctgDown() call that tries to drop it, cubeState and ctg *)
(* are the States that call owns, and j is the level its counterexample to *)
(* generalization was pushed to.                                           *)

Activation(n, c, depth) ==
  [level |-> n, cube |-> c, kept |-> {}, attempts |-> MicAttempts, depth |-> depth,
   drop |-> {}, down |-> {}, ctgs |-> 0, joins |-> 0, cubeState |-> 0, ctg |-> 0, j |-> 0]

Top == stack[Len(stack)]

ReplaceTop(a) == [stack EXCEPT ![Len(stack)] = a]

\* ctgDown() is over: its locals are gone.
LeaveDown(a) == [a EXCEPT !.drop = {}, !.down = {}, !.ctgs = 0, !.joins = 0]

MicFinished(a) == a.attempts = 0 \/ a.kept = a.cube

\* The literals that come first after the cube shrank to c: those of the
\* first i that are left, and as many of the next ones as make up i again.
Realign(a, c) ==
  LET size == Min({Cardinality(a.kept), Cardinality(c)})
      left == a.kept \cap c
  IN  {left \cup more : more \in kSubset(size - Cardinality(left), c \ left)}

\* ctgDown() returned true with cube c, or false.
Dropped(a, c) ==
  {[LeaveDown(a) EXCEPT !.cube = c, !.kept = first, !.attempts = MicAttempts] : first \in Realign(a, c)}

\* Faulty form of NotDropped: attempts and position stay as they are.
NotDroppedForever(a) == LeaveDown(a)

NotDropped(a) ==
  [LeaveDown(a) EXCEPT !.kept = @ \cup a.drop, !.attempts = @ - 1]

-----------------------------------------------------------------------------
Init ==
  /\ pc = "step0"
  /\ k = 1
  /\ borderCubes = [i \in {} |-> {}]
  /\ solvers = [i \in {} |-> {}]
  /\ earliest = 0
  /\ trivial = FALSE
  /\ states = NoStates
  /\ obls = {}
  /\ obl = NoObl
  /\ stack = <<>>
  /\ level = 0
  /\ todo = {}
  /\ cexState = 0
  /\ verdict = "none"

Finish(v) == pc' = "done" /\ verdict' = v

\* baseCases(): is the error reachable in no step, or in one?
Step0Reachability ==
  /\ pc = "step0"
  /\ IF \E s \in InitStates, i \in Inputs : Con(s, i) /\ Err(s, i)
     THEN Finish("unsafe") ELSE pc' = "step1" /\ UNCHANGED verdict
  /\ UNCHANGED <<k, borderCubes, solvers, earliest, trivial, poolVars, stack, scanVars, cexState>>

Step1Reachability ==
  /\ pc = "step1"
  /\ IF \E s \in InitStates, i, j \in Inputs : Trans(s, i, j) /\ Err(Nxt(s, i), j)
     THEN Finish("unsafe") ELSE pc' = "extend" /\ UNCHANGED verdict
  /\ UNCHANGED <<k, borderCubes, solvers, earliest, trivial, poolVars, stack, scanVars, cexState>>

\* Faulty form of NewFrame: frame 0 lacks the initial condition.
AnyState(i) == State

\* What the solver of a new frame admits before any clause is learnt.
NewFrame(i) == IF i = 0 THEN InitStates ELSE State

\* extend(), and the start of strengthen().
Extend ==
  /\ pc = "extend"
  /\ borderCubes' = [i \in 0..(k + 1) |-> IF i \in Frames THEN borderCubes[i] ELSE {}]
  /\ solvers' = [i \in 0..(k + 1) |-> IF i \in Frames THEN solvers[i] ELSE NewFrame(i)]
  /\ trivial' = TRUE
  /\ earliest' = k + 1
  /\ pc' = "strengthen"
  /\ UNCHANGED <<k, verdict, poolVars, stack, scanVars, cexState>>

-----------------------------------------------------------------------------
(* strengthen() and handleObligations().                                   *)

\* A state of the frontier steps to an error: the main obligation.
Strengthen ==
  /\ pc = "strengthen"
  /\ \E st \in StatesOf(states, ErrorCTIs(k), 0) : states' = NewState(states, st)
  /\ obls' = {[state |-> FreshState(states), level |-> k - 1, depth |-> 1]}
  /\ trivial' = FALSE
  /\ pc' = "handle"
  /\ UNCHANGED <<frameVars, earliest, obl, stack, scanVars, cexState>>

\* No state of the frontier does: on to propagate() and its clean-up.
Strengthened ==
  /\ pc = "strengthen"
  /\ ErrorCTIs(k) = {}
  /\ borderCubes' = [i \in Frames |->
       IF i < earliest THEN borderCubes[i]
       ELSE borderCubes[i] \ UNION {borderCubes[n] : n \in (i + 1)..(k + 1)}]
  /\ level' = IF trivial THEN k ELSE 1
  /\ todo' = borderCubes'[level']
  /\ pc' = "propagate"
  /\ UNCHANGED <<k, solvers, verdict, earliest, trivial, poolVars, stack, cexState>>

\* ObligationComp: lower levels first, then shallower ones, then older ones.
Before(o, p) ==
  \/ o.level < p.level
  \/ o.level = p.level /\ o.depth < p.depth
  \/ o.level = p.level /\ o.depth = p.depth /\ o.state < p.state

FirstObligation == CHOOSE o \in obls : \A p \in obls \ {o} : Before(o, p)

\* ~s is inductive relative to the obligation's level: generalize it.
FulfillObligation ==
  /\ pc = "handle" /\ obls # {}
  /\ LET o == FirstObligation IN
     /\ \E core \in Cores(o.level, states[o.state].latches) :
          stack' = <<Activation(o.level, core, 1)>>
     /\ obls' = obls \ {o}
     /\ obl' = o
  /\ pc' = "mic"
  /\ UNCHANGED <<frameVars, earliest, trivial, states, scanVars, cexState>>

\* It has a predecessor in the level's frame, an initial state at level 0.
PredecessorFound ==
  /\ pc = "handle" /\ obls # {}
  /\ LET o == FirstObligation
         c == states[o.state].latches
         n == FreshState(states)
     IN
     /\ \E st \in StatesOf(states, CTIs(o.level, c, c), o.state) : states' = NewState(states, st)
     /\ IF o.level = 0
        THEN cexState' = n /\ Finish("unsafe") /\ UNCHANGED obls
        ELSE /\ obls' = obls \cup {[state |-> n, level |-> o.level - 1, depth |-> o.depth + 1]}
             /\ UNCHANGED <<pc, cexState, verdict>>
  /\ UNCHANGED <<k, borderCubes, solvers, earliest, trivial, obl, stack, scanVars>>

\* The queue ran empty: resetStates() and back to strengthen().
ObligationsMet ==
  /\ pc = "handle" /\ obls = {}
  /\ states' = NoStates
  /\ pc' = "strengthen"
  /\ UNCHANGED <<frameVars, earliest, trivial, obls, obl, stack, scanVars, cexState>>

\* Faulty form of HigherObligation: the obligation at the frontier is lost.
ObligationBelowFrontier(n) == IF n < k THEN {[obl EXCEPT !.level = n]} ELSE {}

\* Faulty form of HigherObligation: one level more than was reached.
ObligationTooHigh(n) == IF n < k THEN {[obl EXCEPT !.level = n + 1]} ELSE {}

\* The obligation at the level its cube was pushed to, up to the frontier.
HigherObligation(n) == IF n <= k THEN {[obl EXCEPT !.level = n]} ELSE {}

\* The rest of generalize() once mic() is through: push, add, and take the
\* obligation up to the level reached.
Generalized ==
  /\ pc = "mic" /\ Len(stack) = 1 /\ MicFinished(Top)
  /\ LET n == Pushed(Top.level + 1, Top.cube) IN
     /\ AddCube(n, Top.cube, TRUE, borderCubes, "handle")
     /\ obls' = obls \cup HigherObligation(n)
  /\ obl' = NoObl
  /\ stack' = <<>>
  /\ UNCHANGED <<k, verdict, trivial, states, scanVars, cexState>>

-----------------------------------------------------------------------------
(* mic() and ctgDown().                                                    *)

\* mic() calls ctgDown() for the next literal in its order.
TryDrop ==
  /\ pc = "mic" /\ ~MicFinished(Top)
  /\ \E p \in Top.cube \ Top.kept :
       stack' = ReplaceTop([Top EXCEPT !.drop = {p}, !.down = Top.cube \ {p}])
  /\ pc' = "down"
  /\ UNCHANGED <<frameVars, earliest, trivial, poolVars, scanVars, cexState>>

\* Without the dropped literal the cube covers an initial state.
DropCoversInitial ==
  /\ pc = "down"
  /\ IsInitial(Top.down)
  /\ stack' = ReplaceTop(NotDropped(Top))
  /\ pc' = "mic"
  /\ UNCHANGED <<frameVars, earliest, trivial, poolVars, scanVars, cexState>>

\* The smaller cube is inductive: mic() goes on with its core.
DropInductive ==
  /\ pc = "down"
  /\ Initiation(Top.down)
  /\ \E core \in Cores(Top.level, Top.down) :
       \E a \in Dropped(Top, core) : stack' = ReplaceTop(a)
  /\ pc' = "mic"
  /\ UNCHANGED <<frameVars, earliest, trivial, poolVars, scanVars, cexState>>

\* It is not, and the recursion is too deep to look at why.
DropTooDeep ==
  /\ pc = "down"
  /\ Initiation(Top.down) /\ Top.depth > MaxDepth
  /\ ~Inductive(Top.level, Top.down)
  /\ stack' = ReplaceTop(NotDropped(Top))
  /\ pc' = "mic"
  /\ UNCHANGED <<frameVars, earliest, trivial, poolVars, scanVars, cexState>>

\* The pool once ctgDown() has a State for its cube, and the numbers of that
\* State and of the counterexample to generalization.
CubeState == FreshState(states)
DownPool == NewState(states, [latches |-> Top.down, inputs |-> {}, successor |-> 0])
CtgState == FreshState(DownPool)

\* The counterexamples to generalization that the solver may find.
CTGs ==
  IF Top.depth <= MaxDepth /\ Initiation(Top.down)
  THEN StatesOf(DownPool, CTIs(Top.level, Top.down, Top.down), CubeState)
  ELSE {}

\* May the CTG be blocked one level below?
Blockable(ctg) ==
  /\ Top.ctgs < MaxCTGs
  /\ Top.level > 1
  /\ Initiation(ctg.latches)
  /\ Inductive(Top.level - 1, ctg.latches)

\* Faulty form of NestedMic: generalizes relative to j, not j - 1.
NestedMicTooHigh(j, core) == Activation(j, core, Top.depth + 1)

NestedMic(j, core) == Activation(j - 1, core, Top.depth + 1)

\* Push the CTG as far up as it goes and generalize it by a nested mic().
BlockCTG ==
  /\ pc = "down"
  /\ \E ctg \in CTGs :
       /\ Blockable(ctg)
       /\ states' = NewState(DownPool, ctg)
       /\ \E core \in Cores(Top.level - 1, ctg.latches) :
            LET j == Pushed(Top.level, core) IN
            stack' = Append(ReplaceTop([Top EXCEPT !.ctgs = @ + 1, !.j = j, !.ctg = CtgState,
                                                   !.cubeState = CubeState]),
                            NestedMic(j, core))
  /\ pc' = "mic"
  /\ UNCHANGED <<frameVars, earliest, trivial, obls, obl, scanVars, cexState>>

\* The nested mic() is through: addCube(), and ctgDown() tries again.
CTGBlocked ==
  /\ pc = "mic" /\ Len(stack) > 1 /\ MicFinished(Top)
  /\ LET a == stack[Len(stack) - 1] IN
     /\ AddCube(a.j, Top.cube, TRUE, borderCubes, "down")
     /\ states' = DelStates(states, {a.cubeState, a.ctg})
     /\ stack' = [SubSeq(stack, 1, Len(stack) - 1) EXCEPT
                    ![Len(stack) - 1] = [a EXCEPT !.cubeState = 0, !.ctg = 0, !.j = 0]]
  /\ UNCHANGED <<k, verdict, trivial, obls, obl, scanVars, cexState>>

\* Join the cube with the CTG, unless that loses a literal already found to
\* be needed or the joins are used up.  Both States are freed again.
JoinCTG ==
  /\ pc = "down"
  /\ \E ctg \in CTGs :
       /\ ~Blockable(ctg)
       /\ IF Top.joins < MaxJoins /\ Top.kept \subseteq ctg.latches
          THEN /\ stack' = ReplaceTop([Top EXCEPT !.down = @ \cap ctg.latches,
                                                  !.ctgs = 0, !.joins = @ + 1])
               /\ UNCHANGED pc
          ELSE /\ stack' = ReplaceTop(NotDropped(Top))
               /\ pc' = "mic"
  /\ UNCHANGED <<frameVars, earliest, trivial, poolVars, scanVars, cexState>>

-----------------------------------------------------------------------------
(* propagate(), and the loop of check().                                   *)

\* A cube of the level is inductive there: move it, or its core, one up.
PropagateCube ==
  /\ pc = "propagate"
  /\ \E c \in todo :
       /\ \E d \in Cores(level, c) :
            AddCube(level + 1, d, Cardinality(d) < Cardinality(c),
                    [borderCubes EXCEPT ![level] = @ \ {c}], "propagate")
       /\ todo' = todo \ {c}
  /\ UNCHANGED <<k, verdict, trivial, poolVars, stack, level, cexState>>

\* It is not: it stays.
KeepCube ==
  /\ pc = "propagate"
  /\ \E c \in todo : ~Inductive(level, c) /\ todo' = todo \ {c}
  /\ UNCHANGED <<pc, frameVars, earliest, trivial, poolVars, stack, level, cexState>>

\* The level is done.  Without cubes of its own it proves the property.
LevelDone ==
  /\ pc = "propagate" /\ todo = {}
  /\ IF borderCubes[level] = {}
     THEN Finish("safe") /\ UNCHANGED <<k, level, todo>>
     ELSE /\ IF level < k
             THEN level' = level + 1 /\ todo' = borderCubes[level + 1] /\ UNCHANGED <<pc, k>>
             ELSE k' = k + 1 /\ pc' = "extend" /\ level' = 0 /\ UNCHANGED todo
          /\ UNCHANGED verdict
  /\ UNCHANGED <<borderCubes, solvers, earliest, trivial, poolVars, stack, cexState>>

\* check() has returned.
Returned == pc = "done" /\ UNCHANGED vars

Next ==
  \/ Step0Reachability \/ Step1Reachability \/ Extend
  \/ Strengthen \/ Strengthened
  \/ FulfillObligation \/ PredecessorFound \/ ObligationsMet \/ Generalized
  \/ TryDrop \/ DropCoversInitial \/ DropInductive \/ DropTooDeep
  \/ BlockCTG \/ CTGBlocked \/ JoinCTG
  \/ PropagateCube \/ KeepCube \/ LevelDone
  \/ Returned

Spec == Init /\ [][Next]_vars

\* One thread: while check() has not returned, its next step is taken.
FairSpec == Spec /\ WF_vars(Next)
=============================================================================
