----------------------------- MODULE SimpSolver -----------------------------
(***************************************************************************)
(* MiniSat's preprocessor: clauses are added to a SimpSolver, eliminate()  *)
(* removes what is subsumed and resolves variables away, and extendModel() *)
(* finds values for the removed variables again.                           *)
(*                                                                         *)
(* The solver is one record.  Queues and occurrence lists are sets, so the *)
(* order they are worked through in is left open; two equal clauses are    *)
(* one, and propagate() finds every consequence at once.                   *)
(***************************************************************************)
EXTENDS Clauses, SequencesExt

CONSTANTS Grow,       \* grow: clauses an elimination may add
          ClauseLim   \* clause_lim: longest resolvent

ASSUME SimpSolverAssumption == Grow \in Nat /\ ClauseLim \in Nat

VARIABLES
  solver,   \* the clause database and the simplifier's bookkeeping
  phase,    \* where eliminate() is
  current,  \* the clause backwardSubsumptionCheck() compares, {} for none
  pending,  \* resolvents eliminateVar() has not added yet
  given     \* every clause the user asked for (for the properties only)

simpVars == <<solver, phase, current, pending, given>>

\* A solver over the variables vs.
NewSolver(vs) ==
  [listed      |-> {},    \* clauses in the occurrence lists
   loose       |-> {},    \* clauses that are in none
   trail       |-> {},    \* the top-level assignments
   ok          |-> TRUE,  \* no contradiction found yet
   queue       |-> {},    \* subsumption_queue
   checked     |-> {},    \* the trail up to bwdsub_assigns
   touched     |-> {},    \* variables with new clauses
   heap        |-> vs,    \* elim_heap: candidates for elimination
   vars        |-> vs,
   frozen      |-> {},
   eliminated  |-> {},
   elimclauses |-> <<>>]  \* removed clauses, with the literal they can set

Attached(s) == s.listed \cup s.loose

Valued(s) == VarsOf(s.trail)

-----------------------------------------------------------------------------
(* Adding clauses.                                                         *)

\* uncheckedEnqueue() and propagate().
Enqueue(s, p) ==
  LET closure == UnitClosure(Attached(s), s.trail \cup {p})
  IN  IF Consistent(closure) THEN [s EXCEPT !.trail = closure]
      ELSE [s EXCEPT !.trail = @ \cup {p}, !.ok = FALSE]

\* What Solver::addClause_() leaves of a clause.
Reduced(s, c) == {p \in c : Neg(p) \notin s.trail}

Redundant(s, c) == Tautology(c) \/ c \cap s.trail # {}

\* Solver::addClause_(): the occurrence lists do not learn of the clause.
AddLoose(s, c) ==
  LET r == Reduced(s, c)
  IN  IF ~s.ok \/ Redundant(s, c) THEN s
      ELSE IF r = {} THEN [s EXCEPT !.ok = FALSE]
      ELSE IF Cardinality(r) = 1 THEN Enqueue(s, CHOOSE p \in r : TRUE)
      ELSE [s EXCEPT !.loose = @ \cup {r}]

\* SimpSolver::addClause_().
AddListed(s, c) ==
  LET r == Reduced(s, c)
  IN  IF ~s.ok \/ Redundant(s, c) \/ Cardinality(r) < 2 THEN AddLoose(s, c)
      ELSE [s EXCEPT !.listed = @ \cup {r}, !.queue = @ \cup {r}, !.touched = @ \cup VarsOf(r)]

-----------------------------------------------------------------------------
(* Removing and strengthening clauses.                                     *)

\* updateElimHeap() for each of the variables vs.
UpdateHeap(s, vs) ==
  [s EXCEPT !.heap = @ \cup (vs \ (s.frozen \cup s.eliminated \cup Valued(s)))]

\* Faulty form of RemoveClauses: a removed clause stays in the queue.
RemoveClausesUnmarked(s, cs) == UpdateHeap([s EXCEPT !.listed = @ \ cs], VarsIn(cs))

\* SimpSolver::removeClause() for each of the clauses cs.
RemoveClauses(s, cs) ==
  UpdateHeap([s EXCEPT !.listed = @ \ cs, !.queue = @ \ cs], VarsIn(cs))

\* strengthenClause(): c without literal p.
StrengthenClause(s, c, p) ==
  LET rest == c \ {p}
  IN  IF Cardinality(rest) = 1
      THEN LET q == CHOOSE l \in rest : TRUE
               r == RemoveClauses(s, {c})
           IN  IF Neg(q) \in s.trail THEN [r EXCEPT !.ok = FALSE] ELSE Enqueue(r, q)
      ELSE UpdateHeap([s EXCEPT !.listed = (@ \ {c}) \cup {rest},
                                !.queue = (@ \ {c}) \cup {rest}], {p[1]})

Occurrences(s, p) == {c \in s.listed : p \in c}

\* Faulty form of Resolvents: only one of the positive clauses is resolved.
SomeResolvents(s, v) ==
  LET pos == Occurrences(s, <<v, TRUE>>)
      first == {c \in pos : c = CHOOSE x \in pos : TRUE}
  IN  {r \in {Resolvent(c, d, v) : c \in first, d \in Occurrences(s, <<v, FALSE>>)} : ~Tautology(r)}

\* The clauses that replace those of v.
Resolvents(s, v) ==
  {r \in {Resolvent(c, d, v) : c \in Occurrences(s, <<v, TRUE>>), d \in Occurrences(s, <<v, FALSE>>)} :
     ~Tautology(r)}

\* Would eliminating v add more or longer clauses than allowed?
TooCostly(s, v) ==
  LET pos == Occurrences(s, <<v, TRUE>>)
      neg == Occurrences(s, <<v, FALSE>>)
      merged == {x \in pos \X neg : ~Tautology(Resolvent(x[1], x[2], v))}
  IN  \/ Cardinality(merged) > Cardinality(pos \cup neg) + Grow
      \/ \E x \in merged : Cardinality(Resolvent(x[1], x[2], v)) > ClauseLim

ElimClause(c, p) == [literal |-> p, others |-> c \ {p}]

\* Faulty form of Stored: the larger side's literal becomes the default.
StoredWrongDefault(s, v) ==
  LET pos == Occurrences(s, <<v, TRUE>>)
      neg == Occurrences(s, <<v, FALSE>>)
      positive == Cardinality(pos) <= Cardinality(neg)
      p == <<v, positive>>
  IN  Append(SetToSeq({ElimClause(c, p) : c \in Occurrences(s, p)}), ElimClause({}, p))

\* What eliminateVar() keeps to recompute v: the clauses of the literal that
\* occurs less often, and the other literal as the default.
Stored(s, v) ==
  LET pos == Occurrences(s, <<v, TRUE>>)
      neg == Occurrences(s, <<v, FALSE>>)
      positive == Cardinality(pos) <= Cardinality(neg)
      p == <<v, positive>>
  IN  Append(SetToSeq({ElimClause(c, p) : c \in Occurrences(s, p)}), ElimClause({}, Neg(p)))

\* A removed clause gets its literal when nothing else satisfies it.
Restore(m, e) ==
  IF e.others \cap m = {} THEN {q \in m : q[1] # e.literal[1]} \cup {e.literal} ELSE m

\* extendModel(): from the last removed clause to the first.
ExtendModel(s, model) == Through(Restore, model, Reverse(s.elimclauses))

-----------------------------------------------------------------------------
\* eliminate() starts with simplify().
StartEliminate ==
  /\ phase = "adding"
  /\ phase' = IF solver.ok THEN "loop" ELSE "done"
  /\ UNCHANGED <<solver, current, pending, given>>

\* Faulty form of Gathered: the touched variables stay touched.
GatheredForever(s) ==
  [s EXCEPT !.queue = @ \cup {c \in s.listed : VarsOf(c) \cap s.touched # {}}]

\* Faulty form of Gathered: only the new clauses are in the queue.
NotGathered(s) == [s EXCEPT !.touched = {}]

\* gatherTouchedClauses()
Gathered(s) ==
  [s EXCEPT !.queue = @ \cup {c \in s.listed : VarsOf(c) \cap s.touched # {}},
            !.touched = {}]

MoreToDo(s) == s.touched # {} \/ s.checked # s.trail \/ s.heap # {}

Gather ==
  /\ phase = "loop" /\ MoreToDo(solver)
  /\ solver' = Gathered(solver)
  /\ phase' = "subsume"
  /\ UNCHANGED <<current, pending, given>>

FinishEliminate ==
  /\ phase = "loop" /\ ~MoreToDo(solver)
  /\ phase' = "done"
  /\ UNCHANGED <<solver, current, pending, given>>

\* backwardSubsumptionCheck() takes the next clause, or the next assignment.
TakeClause ==
  /\ phase = "subsume" /\ current = {}
  /\ \/ \E c \in solver.queue :
          /\ current' = c
          /\ solver' = [solver EXCEPT !.queue = @ \ {c}]
     \/ /\ solver.queue = {}
        /\ \E p \in solver.trail \ solver.checked :
             /\ current' = {p}
             /\ solver' = [solver EXCEPT !.checked = @ \cup {p}]
  /\ UNCHANGED <<phase, pending, given>>

\* It removes a clause that the current one subsumes ...
RemoveSubsumed ==
  /\ phase = "subsume" /\ current # {}
  /\ \E d \in solver.listed : Subsumes(current, d) /\ solver' = RemoveClauses(solver, {d})
  /\ UNCHANGED <<phase, current, pending, given>>

\* ... or takes a literal away from it, which may end in a contradiction.
StrengthenOther ==
  /\ phase = "subsume" /\ current # {}
  /\ \E d \in solver.listed : \E p \in Strengthens(current, d) :
       solver' = StrengthenClause(solver, d, p)
  /\ phase' = IF solver'.ok THEN phase ELSE "done"
  /\ UNCHANGED <<current, pending, given>>

\* No clause is left that the current one says something about.
ClauseChecked ==
  /\ phase = "subsume" /\ current # {}
  /\ \A d \in solver.listed : ~Subsumes(current, d) /\ Strengthens(current, d) = {}
  /\ current' = {}
  /\ UNCHANGED <<solver, phase, pending, given>>

Subsumed ==
  /\ phase = "subsume" /\ current = {}
  /\ solver.queue = {} /\ solver.checked = solver.trail
  /\ phase' = "elim"
  /\ UNCHANGED <<solver, current, pending, given>>

\* elim_heap.removeMin(): the candidates that make the fewest resolvents.
Cost(v) == Cardinality(Occurrences(solver, <<v, TRUE>>)) * Cardinality(Occurrences(solver, <<v, FALSE>>))

Cheapest == {v \in solver.heap : \A w \in solver.heap : Cost(v) <= Cost(w)}

Eliminable(v) == v \notin solver.eliminated \cup solver.frozen \cup Valued(solver)

\* The elimination loop drops a candidate that cannot or may not go ...
SkipVar ==
  /\ phase = "elim"
  /\ \E v \in Cheapest :
       /\ ~Eliminable(v) \/ TooCostly(solver, v)
       /\ solver' = [solver EXCEPT !.heap = @ \ {v}]
  /\ UNCHANGED <<phase, current, pending, given>>

\* ... and resolves the others away: eliminateVar(), up to its resolvents.
EliminateVar ==
  /\ phase = "elim"
  /\ \E v \in Cheapest :
       /\ Eliminable(v) /\ ~TooCostly(solver, v)
       /\ pending' = Resolvents(solver, v)
       /\ solver' = RemoveClauses(
            [solver EXCEPT !.heap = @ \ {v}, !.eliminated = @ \cup {v},
                           !.elimclauses = @ \o Stored(solver, v)],
            {c \in solver.listed : v \in VarsOf(c)})
  /\ phase' = "resolve"
  /\ UNCHANGED <<current, given>>

AddResolvent ==
  /\ phase = "resolve"
  /\ \E r \in pending :
       /\ solver' = AddListed(solver, r)
       /\ pending' = pending \ {r}
  /\ phase' = IF solver'.ok THEN phase ELSE "done"
  /\ UNCHANGED <<current, given>>

Resolved ==
  /\ phase = "resolve" /\ pending = {}
  /\ phase' = "subsume"
  /\ UNCHANGED <<solver, current, pending, given>>

EndElimination ==
  /\ phase = "elim" /\ solver.heap = {}
  /\ phase' = "loop"
  /\ UNCHANGED <<solver, current, pending, given>>

\* eliminate() past its call of simplify().
Simplify ==
  \/ Gather \/ FinishEliminate
  \/ TakeClause \/ RemoveSubsumed \/ StrengthenOther \/ ClauseChecked \/ Subsumed
  \/ SkipVar \/ EliminateVar \/ AddResolvent \/ Resolved \/ EndElimination
=============================================================================
