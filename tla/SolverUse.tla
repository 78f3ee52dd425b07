------------------------------ MODULE SolverUse ------------------------------
(***************************************************************************)
(* A user of the solver: it makes the calls of a script, such as those of  *)
(* IC3::consecution(), and names variables for itself, because a released  *)
(* variable comes back under the same number.                              *)
(***************************************************************************)
EXTENDS CDCL

CONSTANTS Names,    \* of variables, as the user has them
          Scripts   \* sequences of calls

ASSUME NamesAssumption == Names \subseteq Nat

VARIABLES
  script,   \* calls still to be made
  number,   \* the variable each name stands for
  given,    \* clauses the user added, and ...
  letGo,    \* ... literals it released, by name
  question, \* assumptions of the last solve()
  implied,  \* what implies() returned for which assumptions, by number
  written   \* the clauses toDimacs() wrote for which assumptions, if just now

userVars == <<script, number, given, letGo, question, implied, written>>

vars == <<searchVars, userVars>>

Lit(p) == <<number[p[1]], p[2]>>

Lits(ps) == {Lit(p) : p \in ps}

LitSeq(ps) == [i \in DOMAIN ps |-> Lit(ps[i])]

NoImplied == [of |-> {}, ok |-> TRUE, lits |-> {}]

NoneWritten == [of |-> {}, clauses |-> {}]

Init ==
  /\ InitSearch
  /\ script \in Scripts
  /\ number = [n \in {} |-> 0]
  /\ given = {} /\ letGo = {} /\ question = {}
  /\ implied = NoImplied
  /\ written = NoneWritten

\* The next call, which is none of solve_().
Call(op) ==
  /\ phase = "idle" /\ script # <<>> /\ Head(script).op = op
  /\ script' = Tail(script)

Returns(s) ==
  /\ solver' = s
  /\ answer' = Idle
  /\ implied' = NoImplied /\ written' = NoneWritten
  /\ UNCHANGED <<phase, confl, asked, budget, interrupts>>

CallNewVar ==
  /\ Call("newVar")
  /\ number' = With(number, Head(script).name, NewVarOf(solver))
  /\ Returns(NewVar(solver))
  /\ UNCHANGED <<given, letGo, question>>

CallAddClause ==
  /\ Call("addClause")
  /\ given' = given \cup {Head(script).lits}
  /\ Returns(AddClause(solver, Lits(Head(script).lits)))
  /\ UNCHANGED <<number, letGo, question>>

CallReleaseVar ==
  /\ Call("releaseVar")
  /\ LET p == Head(script).lit
     IN  /\ letGo' = IF Open(solver, number[p[1]]) THEN letGo \cup {p} ELSE letGo
         /\ Returns(ReleaseVar(solver, Lit(p)))
  /\ UNCHANGED <<number, given, question>>

CallImplies ==
  /\ Call("implies")
  /\ LET t == Implies(solver, LitSeq(Head(script).lits))
     IN  /\ implied' = [of |-> Range(Head(script).lits), ok |-> t.ok, lits |-> t.lits]
         /\ solver' = t.s
  /\ answer' = Idle
  /\ written' = NoneWritten
  /\ UNCHANGED <<phase, confl, asked, budget, interrupts, number, given, letGo, question>>

CallDimacs ==
  /\ Call("toDimacs")
  /\ LET ps == Range(Head(script).lits)
     IN  /\ \A p \in ps : ~False(solver, Lit(p))
         /\ written' = [of |-> ps, clauses |-> Dimacs(solver, Lits(ps))]
  /\ answer' = Idle
  /\ implied' = NoImplied
  /\ UNCHANGED <<solver, phase, confl, asked, budget, interrupts, number, given, letGo, question>>

CallSolve ==
  /\ Call("solve")
  /\ Solve(LitSeq(Head(script).lits))
  /\ question' = Range(Head(script).lits)
  /\ implied' = NoImplied /\ written' = NoneWritten
  /\ UNCHANGED <<number, given, letGo>>

ClearInterrupt ==
  /\ phase = "idle" /\ interrupts.set
  /\ interrupts' = [interrupts EXCEPT !.set = FALSE]
  /\ UNCHANGED <<solver, phase, confl, asked, budget, answer, userVars>>

Searching == Search /\ UNCHANGED userVars

Next ==
  \/ CallNewVar \/ CallAddClause \/ CallReleaseVar \/ CallImplies
  \/ CallDimacs \/ CallSolve
  \/ ClearInterrupt \/ Searching

Spec == Init /\ [][Next]_vars

-----------------------------------------------------------------------------
(* What the solver's literals stand for.                                   *)

Named(v) == \E n \in DOMAIN number : number[n] = v

\* The name v was created under last.
NameOf(v) ==
  CHOOSE n \in DOMAIN number :
    number[n] = v /\ \A m \in DOMAIN number : number[m] = v => m <= n

NameLit(p) == <<NameOf(p[1]), p[2]>>

NameLits(ps) == {NameLit(p) : p \in ps}

LiveLits(ps) == {p \in NameLits(ps) : p[1] \notin VarsOf(letGo)}

\* The answer, without the values of released variables.
NamedAnswer == [answer EXCEPT !.lits = LiveLits(@)]

Solutions == {t \in TotalAssignments(DOMAIN number) : letGo \subseteq t /\ Satisfies(t, given)}

Quiescent == phase \in {"prepare", "decide"}

-----------------------------------------------------------------------------
(* How the solver is meant to be used.                                     *)

Calls ==
  [op : {"newVar"}, name : Names]
    \cup [op : {"addClause"}, lits : SUBSET LitsOf(Names)]
    \cup [op : {"releaseVar"}, lit : LitsOf(Names)]
    \cup [op : {"implies", "toDimacs", "solve"}, lits : Seq(LitsOf(Names))]

\* The names, ...
CreatedBy(s, n) == {s[i].name : i \in {j \in 1..n : s[j].op = "newVar"}}

\* ... those let go again, ...
LetGoBy(s, n) == {s[i].lit[1] : i \in {j \in 1..n : s[j].op = "releaseVar"}}

\* ... and the literals in clauses, of the first n calls of s.
ClaimedBy(s, n) == UNION {s[i].lits : i \in {j \in 1..n : s[j].op = "addClause"}}

LiveBy(s, n) == CreatedBy(s, n) \ LetGoBy(s, n)

\* Names ascend; calls are about variables that exist and were not released,
\* as releaseVar() has it; and a literal is only released when no clause has
\* its complement, as with the activation literals of IC3.
ProperUse(s) ==
  /\ s \in Seq(Calls)
  /\ Cardinality(CreatedBy(s, Len(s))) <= MaxVars
  /\ \A i \in 1..Len(s) :
       /\ s[i].op = "newVar" => \A n \in CreatedBy(s, i - 1) : n < s[i].name
       /\ s[i].op = "addClause" => VarsOf(s[i].lits) \subseteq LiveBy(s, i - 1)
       /\ s[i].op \in {"implies", "toDimacs", "solve"} => VarsOf(Range(s[i].lits)) \subseteq LiveBy(s, i - 1)
       /\ s[i].op = "releaseVar" => s[i].lit[1] \in LiveBy(s, i - 1) /\ Neg(s[i].lit) \notin ClaimedBy(s, i - 1)

-----------------------------------------------------------------------------
(* Properties.                                                             *)

\* Every member has its type; levels and the queue stay within the trail.
TypeOK ==
  /\ phase \in {"idle", "propagate", "conflict", "prepare", "decide", "aborted"}
  /\ DOMAIN solver.clause \subseteq Nat \ {NoClause}
  /\ \A r \in DOMAIN solver.clause :
       Len(solver.clause[r]) > 1 /\ Range(solver.clause[r]) \subseteq LitsOf(Vars)
  /\ solver.learnts \subseteq DOMAIN solver.clause
  /\ Range(solver.trail) \subseteq solver.assigned
  /\ Consistent(solver.assigned)
  /\ solver.qhead \in 0..Len(solver.trail)
  /\ phase = "idle" => solver.lim = <<>>
  /\ \A i \in DOMAIN solver.lim : solver.lim[i] \in 0..Len(solver.trail)
  /\ solver.nextVar \in 0..MaxVars
  /\ confl \in {NoClause} \cup DOMAIN solver.clause

\* Once propagate() found no conflict, no clause is false and none still
\* implies anything: whatever the watchers were moved to on the way, after
\* backjumps, trimming and reuse of variables, no clause was overlooked.
PropagationComplete ==
  Quiescent =>
    \A r \in DOMAIN solver.clause :
      LET c == Range(solver.clause[r])
      IN  \/ c \cap solver.assigned # {}
          \/ Cardinality({p \in c : ~False(solver, p)}) > 1

\* A clause is in the lists of its first two literals and in no others, and
\* the literals that spare a look at it are its own, or false at level 0 and
\* trimmed off it.
WatchedByFirstTwo ==
  \A p \in LitsOf(Vars) :
    LET ws == solver.watches[p]
    IN  /\ \A i \in DOMAIN ws : ws[i].ref \in DOMAIN solver.clause
        /\ {ws[i].ref : i \in DOMAIN ws}
             = {r \in DOMAIN solver.clause : Neg(p) \in {solver.clause[r][1], solver.clause[r][2]}}
        /\ \A i, j \in DOMAIN ws : ws[i].ref = ws[j].ref => i = j
        /\ \A i \in DOMAIN ws :
             \/ ws[i].blocker \in Range(solver.clause[ws[i].ref])
             \/ Neg(ws[i].blocker) \in {q \in Range(solver.trail) : solver.level[q[1]] = 0}

\* What analyze() learns, and every assignment of level 0, holds in all
\* solutions of what the user gave: minimization dropped no literal too many.
LearntImplied ==
  LET facts == {Range(solver.clause[r]) : r \in solver.learnts}
                 \cup {{p} : p \in {q \in Range(solver.trail) : solver.level[q[1]] = 0}}
  IN  \A c \in facts : \A t \in Solutions : NameLits(c) \cap t # {}

\* The reason of an assignment implies it from assignments made before it,
\* and has it first: analyze(), litRedundant() and locked() rely on it.
ReasonsPrecede ==
  \A i \in DOMAIN solver.trail :
    LET p == solver.trail[i]
        r == solver.reason[p[1]]
    IN  r # NoClause =>
          /\ r \in DOMAIN solver.clause
          /\ solver.clause[r][1] = p
          /\ \A q \in Range(Others(solver, r)) :
               Neg(q) \in Range(SubSeq(solver.trail, 1, i - 1)) \/ (False(solver, q) /\ solver.level[q[1]] = 0)

\* A variable without a value can be picked: otherwise search() would take a
\* partial assignment for a model.
HeapComplete ==
  \A v \in 0..(solver.nextVar - 1) :
    Open(solver, v) => v \in solver.heap

\* Nothing in the solver mentions a variable that may be handed out again.
ReleasedVarsGone ==
  \A v \in Range(solver.free) :
    /\ \A r \in DOMAIN solver.clause : v \notin VarsOf(Range(solver.clause[r]))
    /\ v \notin VarsOf(Range(solver.trail))
    /\ \A p \in LitsOf(Vars) :
         \A i \in DOMAIN solver.watches[p] : solver.watches[p][i].blocker[1] # v

\* implies() answers with consequences of the clauses and the assumptions, all
\* that unit clauses tell unless the clauses were contradictory before, and with
\* a contradiction only if there is one.
ImpliedIsImplied ==
  implied # NoImplied =>
    LET possible == {t \in Solutions : implied.of \subseteq t}
        known    == LiveLits(solver.assigned \cup implied.lits) \cup implied.of \cup letGo
    IN  IF implied.ok
        THEN /\ Consistent(known) /\ (solver.ok => UnitClosure(given, implied.of) \subseteq known)
             /\ \A t \in possible : NameLits(implied.lits) \subseteq t
        ELSE possible = {}

\* The file toDimacs() writes has a solution if and only if there is one that
\* agrees with the assumptions, although it leaves satisfied clauses, false
\* literals and the assignments of level 0 away.
WrittenEquisatisfiable ==
  written # NoneWritten =>
    ((\E t \in TotalAssignments(VarsIn(written.clauses)) : Satisfies(t, written.clauses))
       <=> \E t \in Solutions : written.of \subseteq t)

\* How many literals are assigned below and at each level.
Settled == [l \in 0..Level(solver) |->
              Cardinality({p \in solver.assigned : solver.level[p[1]] <= l})]

\* A restart apart, every conflict and every decision gets the search ahead:
\* more is assigned at some level, and no less below it.  So a search without
\* restarts ends, although learnt clauses are dropped again.
SearchAdvances ==
  [][(phase \in {"conflict", "decide"} /\ phase' = "propagate") =>
       \E l \in 0..Level(solver)' :
         /\ \A k \in 0..(l - 1) : k \in DOMAIN Settled /\ Settled'[k] = Settled[k]
         /\ l \in DOMAIN Settled => Settled'[l] > Settled[l]]_vars

\* The solver keeps the promise of Query.
Promise ==
  INSTANCE Query WITH
    Claims      <- UNION {{c.lits : c \in {d \in Range(s) : d.op = "addClause"}} : s \in Scripts},
    Questions   <- UNION {{Range(c.lits) : c \in {d \in Range(s) : d.op = "solve"}} : s \in Scripts},
    released    <- letGo,
    assumptions <- question,
    answer      <- NamedAnswer

\* The answers of solve() are right, in whatever order it is called.
AnswersRight == Promise!Spec

\* The first two literals of a clause that simplify() trims are open, as the
\* assertion of removeSatisfied() says.
AssertionsHold == phase # "aborted"

\* The tables of the solver tell the same story: no clause is overlooked, no
\* variable without a value is missing from the heap, none that is free is
\* still mentioned anywhere, and the assertion of simplify() holds.
TablesAgree ==
  /\ TypeOK /\ PropagationComplete /\ WatchedByFirstTwo /\ HeapComplete /\ ReleasedVarsGone
  /\ AssertionsHold

\* analyze() and the trail it walks: reasons come before what they imply, and
\* what is learnt from them follows from what was given.
LearningIsSound == LearntImplied /\ ReasonsPrecede

\* The two answers that are not a verdict, implies() and toDimacs(), say what
\* the clauses say.
DerivedIsRight == ImpliedIsImplied /\ WrittenEquisatisfiable
=============================================================================
