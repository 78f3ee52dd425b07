------------------------- MODULE TransitionRelation -------------------------
(***************************************************************************)
(* How a Model turns the AIGER tables into clauses: its variables with the *)
(* primed ones, and loadTransitionRelation(), which builds a simplified    *)
(* CNF once and then copies it to the solver of the search.                *)
(*                                                                         *)
(* Variables are numbered as in Model: 0 for false, the inputs, the        *)
(* latches, the AND gates, the primed inputs and latches, and then the     *)
(* primed gates in the order primeVar() meets them.                        *)
(***************************************************************************)
EXTENDS SimpSolver, AndGraph

VARIABLES
  model,         \* its vector vars and the primed gates, see NewModel
  row,           \* rows of the AND table that are still to be visited
  require,       \* gates and other variables that are needed ...
  primedRequire, \* ... and those whose primed form is
  loaded         \* the solver the relation was loaded into, and how

loaderVars == <<simpVars, model, row, require, primedRequire, loaded>>

\* Faulty form of PushVar: the vector grows by half, as other libraries' do.
PushVarByHalf(m) ==
  [m EXCEPT !.size = @ + 1,
            !.capacity = IF m.size < @ THEN @ ELSE @ + @ \div 2 + 1]

\* vars.push_back(): libstdc++ doubles a buffer that is full.
PushVar(m) ==
  [m EXCEPT !.size = @ + 1,
            !.capacity = IF m.size < @ THEN @ ELSE 2 * @]

\* The variables ready so far; was the vector moved while primeVar() held a
\* reference into it?
NewModel(c) ==
  [size |-> FirstPrime(c), capacity |-> FirstPrime(c), primedAnds |-> <<>>, stale |-> FALSE]

\* Is a primed form of v still missing?
Unprimed(c, m, v) ==
  v \in FirstGate(c)..(FirstPrime(c) - 1) /\ v \notin Range(m.primedAnds)

\* primeVar(), what it does to the Model; primedAnds lists the gates by the
\* order of their primed variables.
PrimeVar(c, m, v) ==
  IF Unprimed(c, m, v)
  THEN [PushVar(m) EXCEPT !.primedAnds = Append(@, v), !.stale = @ \/ m.size = m.capacity]
  ELSE m

\* primeVar(), what it returns.
Primed(c, m, v) ==
  IF v = 0 THEN 0
  ELSE IF v < FirstGate(c) THEN FirstPrime(c) + v - FirstInput
  ELSE FirstPrime(c) + FirstGate(c) - FirstInput
         + (CHOOSE i \in DOMAIN m.primedAnds : m.primedAnds[i] = v) - 1

PrimeLit(c, m, p) == <<Primed(c, m, p[1]), p[2]>>

PrimeVars(c, m, vs) == LET prime(n, v) == PrimeVar(c, n, v) IN Through(prime, m, vs)

\* n new variables.
PushVars(m, n) == LET push(k, v) == PushVar(k) IN Through(push, m, [i \in 1..n |-> i])

\* The variables of literals, in their order.
LitVars(lits) == [i \in DOMAIN lits |-> lits[i][1]]

-----------------------------------------------------------------------------
(* The clauses.                                                            *)

\* Faulty form of GateClauses: lhs may be false although both arguments hold.
GateClausesHalf(lhs, rhs0, rhs1) == <<{Neg(lhs), rhs0}, {Neg(lhs), rhs1}, {Neg(rhs0), lhs}>>

\* addAndGateToSolver(): lhs = rhs0 /\ rhs1.
GateClauses(lhs, rhs0, rhs1) == <<{Neg(lhs), rhs0}, {Neg(lhs), rhs1}, {Neg(rhs0), Neg(rhs1), lhs}>>

True == <<0, FALSE>>

\* What is added through SimpSolver once the gates are done.
Assertions(c, m) ==
  LET latch(i) == <<Primed(c, m, FirstLatch(c) + i - 1), TRUE>>
      equal(i) == <<{Neg(latch(i)), c.next[i]}, {Neg(c.next[i]), latch(i)}>>
      unit(p) == {p}
  IN  <<{True}, {Neg(c.error)}>> \o [i \in DOMAIN c.constraints |-> {c.constraints[i]}]
        \o FlattenSeq([i \in DOMAIN c.next |-> equal(i)])

AddLooseAll(s, cs) == Through(AddLoose, s, cs)
AddListedAll(s, cs) == Through(AddListed, s, cs)

\* newVar() for all that the Model has by now.
AddVars(s, m) ==
  LET new == (0..(m.size - 1)) \ s.vars
  IN  [s EXCEPT !.vars = @ \cup new, !.heap = @ \cup new]

-----------------------------------------------------------------------------
NotLoaded == [primeConstraints |-> FALSE, ok |-> TRUE, clauses |-> {}, units |-> {}]

\* There is no Model yet.
LoaderInit ==
  /\ model = [size |-> 0, capacity |-> 0, primedAnds |-> <<>>, stale |-> FALSE]
  /\ solver = NewSolver({})
  /\ phase = "unread"
  /\ current = {} /\ pending = {} /\ given = {}
  /\ row = 0
  /\ require = {} /\ primedRequire = {}
  /\ loaded = NotLoaded

\* modelFromAiger() calls the constructor with the variables of c.
NewVarsOf(c) == model' = NewModel(c) /\ phase' = "construct"

\* The constructor: primed inputs and latches, error and constraints.
Construct ==
  /\ phase = "construct"
  /\ LET pushed == PushVars(model, circuit.inputs + circuit.latches)
     IN  model' = PrimeVars(circuit, pushed, LitVars(<<circuit.error>> \o circuit.constraints))
  /\ phase' = "create"
  /\ UNCHANGED <<solver, current, pending, given, circuit, row, require, primedRequire, loaded>>

\* What must survive the elimination.
FrozenVars(c, m) ==
  LET kept == InputVars(c) \cup LatchVars(c) \cup Range(LitVars(<<c.error>> \o c.constraints))
  IN  kept \cup {Primed(c, m, v) : v \in kept}

\* Faulty form of PrimedRoots: the constraints are only needed unprimed.
ErrorRoot(c) == {c.error[1]}

\* The formulas whose primed form is needed.
PrimedRoots(c) == {c.error[1]} \cup Range(LitVars(c.constraints))

\* loadTransitionRelation() is called first: a SimpSolver, frozen variables
\* and the roots of the required formulas.
CreateSolver ==
  /\ phase = "create"
  /\ solver' = [AddVars(NewSolver({}), model) EXCEPT !.frozen = FrozenVars(circuit, model)]
  /\ primedRequire' = PrimedRoots(circuit)
  /\ require' = PrimedRoots(circuit) \cup Range(LitVars(circuit.next \o circuit.constraints))
  /\ row' = Len(circuit.gates)
  /\ phase' = "gates"
  /\ UNCHANGED <<current, pending, given, circuit, model, loaded>>

RowVar == FirstGate(circuit) + row - 1

RowArguments == <<circuit.gates[row].rhs0, circuit.gates[row].rhs1>>

SkipRow ==
  /\ phase = "gates" /\ row > 0
  /\ RowVar \notin require
  /\ row' = row - 1
  /\ UNCHANGED <<simpVars, circuit, model, require, primedRequire, loaded>>

\* Faulty form of NewVars: the solver is not told of the variable.
NoNewVars(s, m) == s

\* The solver's share of priming gates.
NewVars(s, m) == AddVars(s, m)

\* One row of the AND table, with its primed form if that is required.  The
\* clauses go through Minisat::Solver, so no occurrence list has them.
AddRow ==
  /\ phase = "gates" /\ row > 0
  /\ RowVar \in require
  /\ LET args  == RowArguments
         lhs   == <<RowVar, TRUE>>
         prime == RowVar \in primedRequire
         m     == IF prime THEN PrimeVars(circuit, model, LitVars(<<lhs>> \o args)) ELSE model
         plain == GateClauses(lhs, args[1], args[2])
         clauses == IF prime
                    THEN plain \o GateClauses(PrimeLit(circuit, m, lhs), PrimeLit(circuit, m, args[1]),
                                              PrimeLit(circuit, m, args[2]))
                    ELSE plain
     IN  /\ model' = m
         /\ solver' = AddLooseAll(NewVars(solver, m), clauses)
         /\ given' = given \cup Range(clauses)
         /\ require' = require \cup Range(LitVars(args))
         /\ primedRequire' = IF prime THEN primedRequire \cup Range(LitVars(args)) ELSE primedRequire
  /\ row' = row - 1
  /\ UNCHANGED <<phase, current, pending, circuit, loaded>>

\* true, ~error, the constraints, and l' = f for each latch.
AssertRoots ==
  /\ phase = "gates" /\ row = 0
  /\ LET clauses == Assertions(circuit, model)
     IN  /\ solver' = AddListedAll(solver, clauses)
         /\ given' = given \cup Range(clauses)
  /\ phase' = "adding"
  /\ UNCHANGED <<current, pending, circuit, model, row, require, primedRequire, loaded>>

\* eliminate(true); what it returns is ignored.
Eliminate ==
  /\ StartEliminate \/ Simplify
  /\ UNCHANGED <<circuit, model, row, require, primedRequire, loaded>>

\* The clauses and the trail of the simplified solver are added to another
\* one, and the primed constraints if they are asked for.
Load ==
  /\ phase = "done"
  /\ \E primeConstraints \in BOOLEAN :
       LET fresh == [AddVars(NewSolver({}), model) EXCEPT !.loose = Attached(solver)]
           trail == Ascending(VarsOf(solver.trail))
           units == [i \in DOMAIN trail |-> {p \in solver.trail : p[1] = trail[i]}]
           primed == [i \in DOMAIN circuit.constraints |->
                        {PrimeLit(circuit, model, circuit.constraints[i])}]
           s == AddLooseAll(fresh, units \o IF primeConstraints THEN primed ELSE <<>>)
       IN  loaded' = [primeConstraints |-> primeConstraints, ok |-> s.ok,
                      clauses |-> Attached(s), units |-> s.trail]
  /\ phase' = "loaded"
  /\ UNCHANGED <<solver, current, pending, given, circuit, model, row, require, primedRequire>>

LoaderNext == Construct \/ CreateSolver \/ SkipRow \/ AddRow \/ AssertRoots \/ Eliminate \/ Load
=============================================================================
