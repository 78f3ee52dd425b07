---------------------------- MODULE IC3Properties ----------------------------
(***************************************************************************)
(* What the search of IC3.cpp keeps true at every step, what its verdict   *)
(* and its witness mean, and the frame discipline of IC3Frames that it     *)
(* implements.                                                             *)
(***************************************************************************)
EXTENDS IC3

Obligation == [state : DOMAIN states, level : 0..k, depth : Nat \ {0}]

StateRecord == [latches : SUBSET Lit, inputs : SUBSET Inputs, successor : Nat]

ControlTypes ==
  /\ pc \in {"step0", "step1", "extend", "strengthen", "handle", "mic", "down",
             "propagate", "done", "aborted"}
  /\ earliest \in 0..(k + 1)
  /\ trivial \in BOOLEAN
  /\ level \in 0..k
  /\ todo \subseteq SUBSET Lit

PoolTypes ==
  /\ DOMAIN states \subseteq Nat \ {0}
  /\ \A n \in DOMAIN states : states[n] \in StateRecord
  /\ obls \subseteq Obligation
  /\ obl \in Obligation \cup {NoObl}
  /\ cexState \in {0} \cup DOMAIN states

StackTypes ==
  /\ Len(stack) <= MaxDepth + 1
  /\ \A x \in 1..Len(stack) :
       /\ stack[x].level \in 0..k /\ stack[x].depth = x
       /\ stack[x].cube \subseteq Lit /\ stack[x].kept \subseteq stack[x].cube
       /\ stack[x].attempts \in 0..MicAttempts
       /\ stack[x].ctgs \in 0..MaxCTGs /\ stack[x].joins \in 0..MaxJoins

\* Every variable stays within its type; mic() nests at most MaxDepth times
\* (ctgDown() looks for no CTG beyond maxDepth, IC3.cpp:598).
TypeOK == FramesTypeOK /\ ControlTypes /\ PoolTypes /\ StackTypes

-----------------------------------------------------------------------------
\* Every cube mic() holds, in each of its nested activations, excludes the
\* initial states and is inductive relative to that activation's level,
\* however the frames were strengthened meanwhile: addCube() relies on it.
GeneralizedCubesAreInductive ==
  \A x \in 1..Len(stack) :
    /\ \A s \in Initial : ~(stack[x].cube \subseteq s)
    /\ Inductive(stack[x].level, stack[x].cube)

\* While handleObligations() runs, the CTIs and the queue agree: a State of
\* the pool waits in exactly one obligation, or its cube is excluded from
\* the frame above the frontier.  No CTG is left behind in the pool.
CTIsPendingOrExcluded ==
  pc = "handle" =>
    \A n \in DOMAIN states :
      LET waiting == {o \in obls : o.state = n} IN
      \/ Cardinality(waiting) = 1
      \/ waiting = {} /\ \A s \in solvers[k + 1] : ~(states[n].latches \subseteq s)

\* An obligation <s, i> is only raised once ~s holds in frame i: the states
\* of its cube left in that frame are errors already.
ObligationsAreRelative ==
  \A o \in obls : \A s \in solvers[o.level] : \A i \in states[o.state].inputs :
    states[o.state].latches \subseteq s => ~LiftTrans(s, i)

\* The trace is never cut: whoever names a State (an obligation, a successor
\* link, a ctgDown() call) names one that was not freed in the meantime.
NoDanglingState ==
  /\ \A n \in DOMAIN states : states[n].successor \in {0} \cup DOMAIN states
  /\ \A o \in obls \cup ({obl} \ {NoObl}) : o.state \in DOMAIN states
  /\ \A x \in 1..Len(stack) : {stack[x].cubeState, stack[x].ctg} \subseteq {0} \cup DOMAIN states

-----------------------------------------------------------------------------
(* The answer.                                                             *)

\* check() returns true exactly if no error is reachable.
VerdictIsRight ==
  pc = "done" => verdict = IF Safe THEN "safe" ELSE "unsafe"

\* One step of a replay: the circuit takes inputs that the State with this
\* number prints, and the next State is its successor.
Follow(at) ==
  IF at.number = 0 THEN at
  ELSE [number |-> states[at.number].successor,
        state |-> Nxt(at.state, CHOOSE i \in states[at.number].inputs : TRUE)]

\* The circuit's run from s under the inputs of the chain of States that
\* starts with cexState: after m links, the next State's number and the
\* state the circuit is in.
Replay(s) ==
  LET at[m \in 0..Cardinality(DOMAIN states)] ==
        IF m = 0 THEN [number |-> cexState, state |-> s] ELSE Follow(at[m - 1])
  IN  at

\* printWitness() prints a counterexample: its first cube holds an initial
\* state, and from each one the inputs it prints lead to an error, at the
\* latest at the end of the chain.
WitnessReplays ==
  cexState # 0 =>
    /\ \E s \in Initial : states[cexState].latches \subseteq s
    /\ \A s \in Initial : states[cexState].latches \subseteq s =>
         \E m \in DOMAIN Replay(s) : Erroneous(Replay(s)[m].state)

\* No assertion of the program fails: HeuristicLitOrder::count() is never
\* given an empty cube (IC3.cpp:201).
NoAbort == pc # "aborted"

-----------------------------------------------------------------------------
(* What the runs check of every state.                                     *)

\* The memory of the search: the variables keep their types, nobody names a
\* State that delState() or resetStates() has freed, and no assertion of the
\* program fails.
SearchStaysDefined == TypeOK /\ NoDanglingState /\ NoAbort

\* handleObligations(): no CTI is forgotten, and none waits at a level in
\* which it has not been shown to be unreachable in one step less.
ObligationsAreInOrder == CTIsPendingOrExcluded /\ ObligationsAreRelative

\* The frame discipline, of the search's own frames: whatever check() does to
\* them is a step of IC3Frames.
FollowsDiscipline == FramesSpec

\* Every search ends, with a proof or a counterexample.
EverySearchEnds == <>(pc = "done")
=============================================================================
