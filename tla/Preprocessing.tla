--------------------------- MODULE Preprocessing ---------------------------
(***************************************************************************)
(* A user of SimpSolver, who freezes some variables, adds some clauses and *)
(* calls eliminate(), and what that user relies on.                        *)
(***************************************************************************)
EXTENDS SimpSolver

CONSTANTS Clause,     \* what the user may add
          FrozenSets  \* the variables the user may freeze, each set a choice

\* A finite number of finite clauses, of literals with one value or the other.
ASSUME PreprocessingAssumption ==
  /\ IsFiniteSet(Clause)
  /\ \A c \in Clause : IsFiniteSet(c) /\ c \subseteq LitsOf(VarsIn(Clause))

Init ==
  /\ solver = NewSolver(VarsIn(Clause))
  /\ phase = "freeze"
  /\ current = {}
  /\ pending = {}
  /\ given = {}

\* setFrozen() for the variables the user goes on using.
Freeze ==
  /\ phase = "freeze"
  /\ \E vs \in FrozenSets : solver' = [solver EXCEPT !.frozen = vs]
  /\ phase' = "adding"
  /\ UNCHANGED <<current, pending, given>>

AddClause ==
  /\ phase = "adding"
  /\ \E c \in Clause \ given :
       /\ solver' = AddListed(solver, c)
       /\ given' = given \cup {c}
  /\ UNCHANGED <<phase, current, pending>>

Next == Freeze \/ AddClause \/ StartEliminate \/ Simplify

Spec == Init /\ [][Next]_simpVars

-----------------------------------------------------------------------------
Phases == {"freeze", "adding", "loop", "subsume", "elim", "resolve", "done"}

\* The fields of the solver and the steps of eliminate() keep their types:
\* no clause in a list is a tautology or shorter than two literals.
TypeOK ==
  LET Lits == LitsOf(solver.vars)
  IN  /\ phase \in Phases
      /\ \A c \in Attached(solver) : c \subseteq Lits /\ Cardinality(c) >= 2 /\ ~Tautology(c)
      /\ solver.queue \subseteq solver.listed
      /\ solver.trail \subseteq Lits /\ solver.checked \subseteq solver.trail
      /\ solver.ok => Consistent(solver.trail)
      /\ current \subseteq Lits
      /\ \A c \in pending : c \subseteq Lits /\ ~Tautology(c)
      /\ given \subseteq Clause

\* All that the solver still demands.
Demands == Attached(solver) \cup {{p} : p \in solver.trail} \cup pending

\* Whatever was subsumed, strengthened and resolved away, the solver and the
\* clauses it was given have the same solutions for the variables that were
\* not eliminated, and a contradiction is only reported if there are none.
SameSolutions ==
  LET kept == solver.vars \ solver.eliminated
  IN  Projection(given, solver.vars, kept) =
        IF solver.ok THEN Projection(Demands, solver.vars, kept) ELSE {}

\* extendModel() turns every model of what is left, whatever it says of the
\* eliminated variables, into a model of all the clauses that were given.
ExtendedModelsSatisfy ==
  phase = "done" /\ solver.ok =>
    \A m \in TotalAssignments(solver.vars) :
      Satisfies(m, Demands) => Satisfies(ExtendModel(solver, m), given)

\* When eliminate() is done, no clause subsumes or shortens another one or
\* contains a variable that has a value, although clauses are only compared
\* backward, with those that were there before them.
SubsumptionComplete ==
  phase = "done" /\ solver.ok =>
    /\ \A c, d \in solver.listed : ~Subsumes(c, d) /\ Strengthens(c, d) = {}
    /\ \A c \in solver.listed : VarsOf(c) \cap Valued(solver) = {}

\* How far the loops of eliminate() are from the end of the outer one.
Stage ==
  CASE phase = "done" -> 0
    [] phase = "loop" /\ (solver.touched # {} \/ ~MoreToDo(solver)) -> 1
    [] phase = "elim" -> 2
    [] phase = "subsume" -> 3
    [] OTHER -> 4

\* The literals of the clauses, each with its clause.
Places(cls) == UNION {{c} \X c : c \in cls}

\* What is left to do, the most important part first: variables to resolve
\* away, resolvents to add, literals to remove, touched variables, values
\* to look at, candidates, the way to the end of the outer loop, the queue.
Measure ==
  <<Cardinality(solver.vars \ solver.eliminated),
    Cardinality(pending),
    Cardinality(Places(solver.listed)),
    Cardinality(solver.touched),
    Cardinality(solver.trail \ solver.checked),
    Cardinality(solver.heap),
    Stage,
    2 * Cardinality(solver.queue) + (IF current = {} THEN 0 ELSE 1)>>

\* Lexicographically less.
Less(m, n) == \E i \in DOMAIN m : m[i] < n[i] /\ \A j \in 1..(i - 1) : m[j] = n[j]

\* The three nested loops of eliminate() come to an end, although each
\* elimination adds clauses that touch other variables and each removal
\* brings candidates back into the heap: every step leaves less to do.
Progress == [][Simplify => Less(Measure', Measure)]_simpVars

\* The solver and its memory of what it eliminated: at any time they have the
\* solutions of what was given, in the end with a value for each variable.
SolutionsAreKept == TypeOK /\ SameSolutions /\ ExtendedModelsSatisfy
=============================================================================
