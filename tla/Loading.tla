------------------------------ MODULE Loading ------------------------------
(***************************************************************************)
(* The way of a file through the program: main() reads it, modelFromAiger()*)
(* makes a Model of it, and check() loads the transition relation of that  *)
(* Model before it searches and main() prints the verdict.                 *)
(***************************************************************************)
EXTENDS Frontend, TransitionRelation

vars == <<circuit, mainVars, loaderVars>>

Init == MainInit /\ LoaderInit

\* The Model is constructed if nothing is wrong with the file.
ReadModel ==
  /\ ModelFromAiger
  /\ IF pc' = "check" THEN NewVarsOf(circuit') ELSE UNCHANGED <<model, phase>>
  /\ UNCHANGED <<solver, current, pending, given, row, require, primedRequire, loaded>>

Next ==
  \/ ReadModel
  \/ (ParseArg \/ ReadFile \/ PrintVerdict) /\ UNCHANGED loaderVars
  \/ pc = "check" /\ LoaderNext /\ UNCHANGED mainVars
  \/ phase = "loaded" /\ Check /\ UNCHANGED loaderVars

Spec == Init /\ [][Next]_vars

-----------------------------------------------------------------------------
(* What the search relies on when the transition relation is loaded.  The  *)
(* relation itself is evaluated gate by gate, without any clause.          *)

\* The valuations before and after a transition: neither the error nor a
\* broken constraint before it, no broken constraint after it if so asked.
Transitions(c, primeConstraints) ==
  LET valuations == {Values(c, on) : on \in SUBSET (InputVars(c) \cup LatchVars(c))}
  IN  {x \in valuations \X valuations :
         /\ ~Holds(x[1], c.error) /\ Meets(c, x[1])
         /\ \A i \in 1..c.latches : x[2][FirstLatch(c) + i - 1] = Holds(x[1], c.next[i])
         /\ primeConstraints => Meets(c, x[2])}

Kept == InputVars(circuit) \cup LatchVars(circuit) \cup {circuit.error[1]}
          \cup Range(LitVars(circuit.constraints))

\* The same as assignments of what the search can see.
Visible(x) ==
  {<<v, x[1][v]>> : v \in Kept} \cup {<<Primed(circuit, model, v), x[2][v]>> : v \in Kept}

Intended == {Visible(x) : x \in Transitions(circuit, loaded.primeConstraints)}

Obtained ==
  IF loaded.ok
  THEN Projection(loaded.clauses \cup {{p} : p \in loaded.units}, 0..(model.size - 1),
                  Kept \cup {Primed(circuit, model, v) : v \in Kept})
  ELSE {}

-----------------------------------------------------------------------------
\* The tables stay within the circuit, and clauses within the variables.
LoaderTypeOK ==
  /\ Range(model.primedAnds) \subseteq FirstGate(circuit)..(FirstPrime(circuit) - 1)
  /\ row \in 0..Len(circuit.gates)
  /\ primedRequire \subseteq require
  /\ require \subseteq 0..(FirstPrime(circuit) - 1)
  /\ VarsIn(Attached(solver)) \cup Valued(solver) \subseteq solver.vars
  /\ solver.frozen \cap solver.eliminated = {}

\* From the creation of the simplifying solver on, every variable of the
\* Model is one of the solver's and no other: priming a gate on the way
\* tells both, as the numbering of all later solvers needs.
Aligned == phase \notin {"unread", "construct", "create"} => solver.vars = 0..(model.size - 1)

\* primeVar() uses its reference into vars again after vars.push_back(): the
\* buffer must not move then.  It does not, as the constructor has doubled
\* it when it pushed the first primed input or latch.
PrimingKeepsReference == ~model.stale

\* No transition of the circuit is lost on the way through the simplifier:
\* resolving variables away and dropping clauses only ever allows more.
AdmitsEveryTransition == phase = "loaded" => Intended \subseteq Obtained

\* If each next-state function is an input, a latch, the error or one of the
\* constraints, and these do not contradict each other, exactly the
\* transition relation is loaded.
LoadsFrozenRoots ==
  /\ phase = "loaded"
  /\ \A i \in DOMAIN circuit.next : circuit.next[i][1] \in Kept
  /\ Transitions(circuit, FALSE) # {}
  => Intended = Obtained

\* The solver is loaded with the transition relation of the circuit, the
\* primed error and the constraints, no more and no less (Model.h:313-317).
LoadsTransitionRelation == phase = "loaded" => Intended = Obtained

-----------------------------------------------------------------------------
(* What the run checks of every state.                                     *)

\* The places of main(), its options, and the tables of Model and solver keep
\* their types (main.cpp:15-20, Model.h:118-140).
TypeOK == MainTypeOK /\ LoaderTypeOK

\* What check() gets is the circuit of the file and the property that the
\* command line asks for, and nothing undefined was read on the way.
ModelIsTheFile == TypeOK /\ SameCircuit /\ RequestedProperty /\ NothingUndefined

\* Priming keeps the variables of the Model and those of the solver together,
\* and its reference into their vector valid.
VariablesStayAligned == Aligned /\ PrimingKeepsReference

\* loadTransitionRelation(): no transition is lost, and none is added if the
\* next-state functions are among the variables that are kept.
RelationIsLoaded == AdmitsEveryTransition /\ LoadsFrozenRoots
=============================================================================
