-------------------------------- MODULE CDCL --------------------------------
(***************************************************************************)
(* MiniSat's Solver: clauses with two watched literals, a trail of         *)
(* assignments with decision levels, and the search that learns a clause   *)
(* from every conflict.                                                    *)
(*                                                                         *)
(* The solver is one record.  Clauses are sequences, kept under numbers    *)
(* for their addresses in the arena; a removed clause leaves the watch     *)
(* lists at once, where the code waits for the next look at the list.      *)
(* Activities, saved phases and statistics only choose among decisions and *)
(* are left open.                                                          *)
(***************************************************************************)
EXTENDS Clauses, SequencesExt

CONSTANTS MaxVars,       \* variables there may be at once
          RestartFirst,  \* restart_first: conflicts until the first restart
          MaxRestarts,   \* searches after which the budget has outgrown them
          Interrupts     \* how often interrupt() may be called

ASSUME CDCLAssumption ==
  {MaxVars, RestartFirst, MaxRestarts, Interrupts} \subseteq Nat /\ RestartFirst > 0

VARIABLES
  solver,     \* the members of Solver that outlive a call
  phase,      \* where search() is, "idle" outside of solve_()
  confl,      \* the conflicting clause propagate() found, NoClause for none
  asked,      \* the sequence of assumptions
  budget,     \* conflicts left until a restart, and restarts so far
  interrupts, \* asynch_interrupt, and how many may still come
  answer      \* of the last call

searchVars == <<solver, phase, confl, asked, budget, interrupts, answer>>

NoClause == 0

Vars == 0..(MaxVars - 1)

NewSolver ==
  [clause   |-> [r \in {} |-> <<>>],             \* ca, by reference
   learnts  |-> {},                              \* which of them are learnt
   watches  |-> [p \in LitsOf(Vars) |-> <<>>],   \* watchers, by the literal that wakes them
   trail    |-> <<>>,
   lim      |-> <<>>,                            \* trail_lim
   qhead    |-> 0,
   assigned |-> {},                              \* assigns: the literals that are true
   reason   |-> [v \in Vars |-> NoClause],
   level    |-> [v \in Vars |-> 0],
   heap     |-> {},                              \* order_heap
   ok       |-> TRUE,
   nextVar  |-> 0,
   released |-> <<>>,                            \* released_vars
   free     |-> <<>>,                            \* free_vars
   simplified |-> 0 - 1]                         \* simpDB_assigns

True(s, p)  == p \in s.assigned
False(s, p) == Neg(p) \in s.assigned
Open(s, v)  == s.assigned \cap LitsOf({v}) = {}
Level(s)    == Len(s.lim)

Originals(s) == DOMAIN s.clause \ s.learnts

-----------------------------------------------------------------------------
(* Clauses and the trail.                                                  *)

FreshRef(s) == CHOOSE r \in 1..(Cardinality(DOMAIN s.clause) + 1) : r \notin DOMAIN s.clause

\* sort() of literals of different variables.
Sorted(lits) ==
  LET vs == Ascending(VarsOf(lits))
  IN  [i \in DOMAIN vs |-> <<vs[i], <<vs[i], TRUE>> \in lits>>]

\* Faulty form of Watch: both watchers are woken by the first literal.
WatchFirstOnly(s, r, c) ==
  [s EXCEPT !.watches[Neg(c[1])] = @ \o <<[ref |-> r, blocker |-> c[2]], [ref |-> r, blocker |-> c[1]]>>]

\* attachClause()
Watch(s, r, c) ==
  [s EXCEPT !.watches[Neg(c[1])] = Append(@, [ref |-> r, blocker |-> c[2]]),
            !.watches[Neg(c[2])] = Append(@, [ref |-> r, blocker |-> c[1]])]

\* f, and y at x.
With(f, x, y) == [z \in DOMAIN f \cup {x} |-> IF z = x THEN y ELSE f[z]]

\* ca.alloc() and attachClause().
Attach(s, r, c) == [Watch(s, r, c) EXCEPT !.clause = With(@, r, c)]

Locked(s, r) == LET p == s.clause[r][1] IN True(s, p) /\ s.reason[p[1]] = r

Unwatched(ws, r) == Only(ws, {w \in Range(ws) : w.ref # r})

\* Faulty form of RemoveClause: the reason dangles.
RemoveDangling(s, r) ==
  [s EXCEPT !.clause = [x \in DOMAIN @ \ {r} |-> @[x]],
            !.learnts = @ \ {r},
            !.watches = [p \in DOMAIN @ |-> Unwatched(@[p], r)]]

\* removeClause(): nothing refers to r any more.
RemoveClause(s, r) ==
  [s EXCEPT !.clause = [x \in DOMAIN @ \ {r} |-> @[x]],
            !.learnts = @ \ {r},
            !.watches = [p \in DOMAIN @ |-> Unwatched(@[p], r)],
            !.reason  = IF Locked(s, r) THEN [@ EXCEPT ![s.clause[r][1][1]] = NoClause] ELSE @]

\* uncheckedEnqueue()
Enqueue(s, p, from) ==
  [s EXCEPT !.assigned = @ \cup {p},
            !.trail = Append(@, p),
            !.reason[p[1]] = from,
            !.level[p[1]] = Level(s)]

NewDecisionLevel(s) == [s EXCEPT !.lim = Append(@, Len(s.trail))]

\* Faulty form of CancelUntil: the last literal of the level kept goes as well.
CancelOneMore(s, lv) ==
  IF Level(s) <= lv THEN s
  ELSE LET kept == IF s.lim[lv + 1] = 0 THEN 0 ELSE s.lim[lv + 1] - 1
           undone == Range(SubSeq(s.trail, kept + 1, Len(s.trail)))
       IN  [s EXCEPT !.assigned = @ \ undone,
                     !.heap = @ \cup VarsOf(undone),
                     !.trail = SubSeq(@, 1, kept),
                     !.qhead = kept,
                     !.lim = SubSeq(@, 1, lv)]

\* Faulty form of CancelUntil: the queue is not taken back.
CancelKeepQueue(s, lv) ==
  IF Level(s) <= lv THEN s
  ELSE LET kept == s.lim[lv + 1]
           undone == Range(SubSeq(s.trail, kept + 1, Len(s.trail)))
       IN  [s EXCEPT !.assigned = @ \ undone,
                     !.heap = @ \cup VarsOf(undone),
                     !.trail = SubSeq(@, 1, kept),
                     !.lim = SubSeq(@, 1, lv)]

\* Faulty form of CancelUntil: the variables do not return to the heap.
CancelKeepHeap(s, lv) ==
  IF Level(s) <= lv THEN s
  ELSE LET kept == s.lim[lv + 1]
           undone == Range(SubSeq(s.trail, kept + 1, Len(s.trail)))
       IN  [s EXCEPT !.assigned = @ \ undone,
                     !.trail = SubSeq(@, 1, kept),
                     !.qhead = kept,
                     !.lim = SubSeq(@, 1, lv)]

\* cancelUntil()
CancelUntil(s, lv) ==
  IF Level(s) <= lv THEN s
  ELSE LET kept == s.lim[lv + 1]
           undone == Range(SubSeq(s.trail, kept + 1, Len(s.trail)))
       IN  [s EXCEPT !.assigned = @ \ undone,
                     !.heap = @ \cup VarsOf(undone),
                     !.trail = SubSeq(@, 1, kept),
                     !.qhead = kept,
                     !.lim = SubSeq(@, 1, lv)]

-----------------------------------------------------------------------------
(* propagate(); its loops work on [s, kept, confl]: the solver, the        *)
(* watchers that stay in the list, and the conflict.                       *)

\* The clause watched with false literal f in its second place.
FalseSecond(c, f) == IF c[1] = f THEN [c EXCEPT ![1] = c[2], ![2] = f] ELSE c

\* The literals that could be watched instead.
NewWatches(s, c) == {k \in 3..Len(c) : ~False(s, c[k])}

NextWatch(s, c) == CHOOSE k \in NewWatches(s, c) : \A j \in NewWatches(s, c) : k <= j

\* A clause that has to be looked at: solver s has it as c.
Look(t, r, c, s) ==
  LET moved == [ref |-> r, blocker |-> c[1]]
      stays == [t EXCEPT !.s = s, !.kept = Append(@, moved)]
  IN  IF True(s, c[1]) THEN stays
      ELSE IF NewWatches(s, c) # {}
      THEN LET k == NextWatch(s, c)
           IN  [t EXCEPT !.s = [s EXCEPT !.clause[r] = [c EXCEPT ![2] = c[k], ![k] = c[2]],
                                         !.watches[Neg(c[k])] = Append(@, moved)]]
      ELSE IF False(s, c[1])
      THEN [stays EXCEPT !.confl = r, !.s.qhead = Len(s.trail)]
      ELSE [stays EXCEPT !.s = Enqueue(s, c[1], r)]

\* One watcher in the list of p.
Visit(t, w, p) ==
  IF t.confl # NoClause \/ True(t.s, w.blocker)
  THEN [t EXCEPT !.kept = Append(@, w)]
  ELSE LET c == FalseSecond(t.s.clause[w.ref], Neg(p))
       IN  Look(t, w.ref, c, [t.s EXCEPT !.clause[w.ref] = c])

\* The next literal of the queue.
PropagateLit(t) ==
  LET p    == t.s.trail[t.s.qhead + 1]
      base == [s |-> [t.s EXCEPT !.qhead = @ + 1], kept |-> <<>>, confl |-> NoClause]
      done == Through(LAMBDA u, w : Visit(u, w, p), base, t.s.watches[p])
  IN  [done EXCEPT !.s.watches[p] = done.kept]

Propagate(s) ==
  Repeat(PropagateLit, LAMBDA t : t.s.qhead < Len(t.s.trail),
         [s |-> s, kept |-> <<>>, confl |-> NoClause], MaxVars)

-----------------------------------------------------------------------------
(* What the user may call between searches.                                *)

\* newVar(), which returns NewVarOf(s).
NewVarOf(s) == IF s.free # <<>> THEN Last(s.free) ELSE s.nextVar

NewVar(s) ==
  LET v == NewVarOf(s)
  IN  [s EXCEPT !.free = IF @ # <<>> THEN Front(@) ELSE @,
                !.nextVar = IF s.free # <<>> THEN @ ELSE @ + 1,
                !.watches = [p \in DOMAIN @ |-> IF p[1] = v THEN <<>> ELSE @[p]],
                !.assigned = @ \ LitsOf({v}),
                !.reason[v] = NoClause,
                !.level[v] = 0,
                !.heap = @ \cup {v}]

\* addClause_()
AddClause(s, lits) ==
  LET c == Sorted({p \in lits : ~False(s, p)})
  IN  IF ~s.ok \/ (\E p \in lits : True(s, p) \/ Neg(p) \in lits) THEN s
      ELSE IF c = <<>> THEN [s EXCEPT !.ok = FALSE]
      ELSE IF Len(c) = 1
      THEN LET t == Propagate(Enqueue(s, c[1], NoClause))
           IN  [t.s EXCEPT !.ok = t.confl = NoClause]
      ELSE Attach(s, FreshRef(s), c)

\* releaseVar()
ReleaseVar(s, p) ==
  IF Open(s, p[1]) THEN [AddClause(s, {p}) EXCEPT !.released = Append(@, p[1])] ELSE s

\* An assumption of implies() that does not hold already is made true.
AssumeLit(s, p) == IF True(s, p) THEN s ELSE Enqueue(s, p, NoClause)

\* Faulty form of Implies: a conflict is not noticed.
ImpliesAnyhow(s, ps) ==
  LET assume(t, p) == IF ~Open(t, p[1]) THEN t ELSE Enqueue(t, p, NoClause)
      start == Through(assume, NewDecisionLevel(s), ps)
      t == Propagate(start)
  IN  [s |-> CancelUntil(t.s, 0), ok |-> TRUE,
       lits |-> Range(SubSeq(t.s.trail, Len(start.trail) + 1, Len(t.s.trail)))]

\* implies(): what follows from the assumptions by propagation alone, and
\* whether they contradict each other.
Implies(s, ps) ==
  LET opposed == \E i \in DOMAIN ps : False(s, ps[i]) \/ \E j \in 1..(i - 1) : ps[j] = Neg(ps[i])
      start == Through(AssumeLit, NewDecisionLevel(s), ps)
      t == Propagate(start)
  IN  IF opposed THEN [s |-> s, ok |-> FALSE, lits |-> {}]
      ELSE [s    |-> CancelUntil(t.s, 0),
            ok   |-> t.confl = NoClause,
            lits |-> Range(SubSeq(t.s.trail, Len(start.trail) + 1, Len(t.s.trail)))]

\* Faulty form of Dimacs: learnt clauses are forgotten about, false literals not.
DimacsAll(s, ps) == {{p} : p \in ps} \cup {Range(s.clause[r]) : r \in Originals(s)}

\* toDimacs(): the clauses that are not satisfied, without false literals, and
\* the assumptions; mapVar() only renumbers the variables without gaps.
Dimacs(s, ps) ==
  IF ~s.ok THEN {{<<0, TRUE>>}, {<<0, FALSE>>}}
  ELSE {{p} : p \in ps}
         \cup {{p \in c : ~False(s, p)} :
                 c \in {d \in {Range(s.clause[r]) : r \in Originals(s)} : d \cap s.assigned = {}}}

-----------------------------------------------------------------------------
(* analyze(): resolve the conflict with the reasons on the trail, last     *)
(* first, until one literal of the current level is left.  Its loop works  *)
(* on [seen, out, open, uip]: variables met, literals of lower levels,     *)
(* how many of the current level are open (pathC), and the literal left.   *)

Others(s, r) == Tail(s.clause[r])

Absorb(s, t, lits) ==
  LET new == Only(lits, {q \in Range(lits) : q[1] \notin t.seen /\ s.level[q[1]] > 0})
      lower == Only(new, {q \in Range(new) : s.level[q[1]] < Level(s)})
  IN  [t EXCEPT !.seen = @ \cup VarsOf(Range(new)),
                !.out  = @ \o lower,
                !.open = @ + Len(new) - Len(lower)]

Resolve(s, t, p) ==
  IF t.uip # <<>> \/ p[1] \notin t.seen THEN t
  ELSE IF t.open = 1 THEN [t EXCEPT !.uip = <<p>>]
  ELSE Absorb(s, [t EXCEPT !.open = @ - 1], Others(s, s.reason[p[1]]))

FirstUIP(s, r) ==
  Through(LAMBDA t, p : Resolve(s, t, p),
          Absorb(s, [seen |-> {}, out |-> <<>>, open |-> 0, uip |-> <<>>], s.clause[r]),
          Reverse(s.trail))

\* Faulty form of Redundant: every literal that was implied may go.
RedundantIfImplied(s, source) == {v \in Vars : s.reason[v] # NoClause}

\* litRedundant(): whether p follows from the variables in source and those
\* known to follow from them ...
Follows(s, source, known, p) ==
  /\ s.reason[p[1]] # NoClause
  /\ \A q \in Range(Others(s, s.reason[p[1]])) :
       s.level[q[1]] = 0 \/ q[1] \in source \cup known

\* ... and all that follow.
Redundant(s, source) ==
  Through(LAMBDA known, p : IF Follows(s, source, known, p) THEN known \cup {p[1]} ELSE known,
          {}, s.trail)

\* What is learnt from clause r: the literal that will be implied, one of the
\* highest level among the others, and the rest.
Learnt(s, r) ==
  LET t     == FirstUIP(s, r)
      spare == Redundant(s, VarsOf(Range(t.out)))
      lean  == Only(t.out, {q \in Range(t.out) : q[1] \notin spare})
      top   == CHOOSE i \in DOMAIN lean :
                 /\ \A j \in DOMAIN lean : s.level[lean[j][1]] <= s.level[lean[i][1]]
                 /\ \A j \in 1..(i - 1) : s.level[lean[j][1]] < s.level[lean[i][1]]
      uip   == <<Neg(t.uip[1])>>
  IN  IF lean = <<>> THEN uip
      ELSE uip \o [lean EXCEPT ![1] = lean[top], ![top] = lean[1]]

\* Faulty form of BacktrackLevel: one level is undone.
OneLevelBack(s, c) == Level(s) - 1

BacktrackLevel(s, c) == IF Len(c) = 1 THEN 0 ELSE s.level[c[2][1]]

\* Faulty form of FinalConflict: only assumptions next to p are found.
FinalConflictShallow(s, p) ==
  {p} \cup (IF s.reason[p[1]] = NoClause THEN {}
            ELSE {q \in Range(Others(s, s.reason[p[1]])) :
                    s.level[q[1]] > 0 /\ s.reason[q[1]] = NoClause})

\* One step of analyzeFinal() back along the trail.
Trace(s, t, q) ==
  IF q[1] \notin t.seen THEN t
  ELSE IF s.reason[q[1]] = NoClause THEN [t EXCEPT !.out = @ \cup {Neg(q)}]
  ELSE [t EXCEPT !.seen = @ \cup VarsOf({l \in Range(Others(s, s.reason[q[1]])) : s.level[l[1]] > 0})]

\* analyzeFinal(): the assumptions that imply p, negated.
FinalConflict(s, p) ==
  IF Level(s) = 0 THEN {p}
  ELSE Through(LAMBDA t, q : Trace(s, t, q), [seen |-> {p[1]}, out |-> {p}],
               Reverse(SubSeq(s.trail, s.lim[1] + 1, Len(s.trail)))).out

-----------------------------------------------------------------------------
(* Cleaning the clauses at level 0, and dropping learnt ones.              *)

SatisfiedClause(s, r) == \E i \in DOMAIN s.clause[r] : True(s, s.clause[r][i])

\* False literals go, unless they are watched.
Trim(s, c) == Only(c, {c[1], c[2]} \cup {p \in Range(c) : ~False(s, p)})

RemoveClauses(s, rs) == Through(RemoveClause, s, SetToSeq(rs))

\* The assertion of removeSatisfied(): a clause that is trimmed has two open
\* literals in front.
TrimDefined(s) ==
  \A r \in DOMAIN s.clause :
    ~SatisfiedClause(s, r) => ~False(s, s.clause[r][1]) /\ ~False(s, s.clause[r][2])

\* removeSatisfied(), for the learnt clauses and the others.
RemoveSatisfied(s) ==
  LET t == RemoveClauses(s, {r \in DOMAIN s.clause : SatisfiedClause(s, r)})
  IN  [t EXCEPT !.clause = [r \in DOMAIN @ |-> Trim(s, @[r])]]

\* Faulty form of Simplify: variables are reused although clauses mention them.
SimplifyEarly(s) ==
  LET trail == Only(s.trail, {p \in Range(s.trail) : p[1] \notin Range(s.released)})
  IN  [s EXCEPT !.trail = trail, !.qhead = Len(trail),
                !.free = @ \o s.released, !.released = <<>>,
                !.heap = {v \in 0..(s.nextVar - 1) : Open(s, v)},
                !.simplified = Len(trail)]

\* simplify(), if it is time: released variables may be reused.
Simplify(s) ==
  LET t == RemoveSatisfied(s)
      trail == Only(t.trail, {p \in Range(t.trail) : p[1] \notin Range(t.released)})
  IN  [t EXCEPT !.trail = trail, !.qhead = Len(trail),
                !.free = @ \o t.released, !.released = <<>>,
                !.heap = {v \in 0..(t.nextVar - 1) : Open(t, v)},
                !.simplified = Len(trail)]

\* What reduceDB() may remove; the activities tell which of them it does.
Removable(s) == {r \in s.learnts : Len(s.clause[r]) > 2 /\ ~Locked(s, r)}

-----------------------------------------------------------------------------
(* search() and solve_().                                                  *)

\* luby(): the exponent of the x-th number, for a base of 2.
Luby ==
  LET exponent[x \in Nat] ==
        LET k == CHOOSE n \in 1..(x + 1) : 2^n > x + 1 /\ 2^(n - 1) <= x + 1
        IN  IF 2^k = x + 2 THEN k - 1 ELSE exponent[x % (2^(k - 1) - 1)]
  IN  exponent

\* The conflicts a search may take, none below zero; and how many clauses
\* may be learnt, a third of limit.
Budget(restarts, limit) ==
  [left     |-> IF restarts < MaxRestarts THEN 2^Luby[restarts] * RestartFirst ELSE 0 - 1,
   restarts |-> restarts,
   limit    |-> limit]

Pending == [is |-> "pending", lits |-> {}]
Idle    == [is |-> "idle",    lits |-> {}]
Undef   == [is |-> "undef",   lits |-> {}]
Sat(lits)   == [is |-> "sat",   lits |-> lits]
Unsat(lits) == [is |-> "unsat", lits |-> lits]

InitSearch ==
  /\ solver = NewSolver
  /\ phase = "idle" /\ confl = NoClause /\ asked = <<>>
  /\ budget = Budget(0, 0)
  /\ interrupts = [set |-> FALSE, left |-> Interrupts]
  /\ answer = Idle

\* solve_(), up to its loop.
Solve(ps) ==
  /\ phase = "idle"
  /\ asked' = ps
  /\ budget' = Budget(0, Cardinality(Originals(solver)))
  /\ phase' = "propagate" /\ answer' = Pending
  /\ UNCHANGED <<solver, confl, interrupts>>

\* Faulty form of Finish: the solver stays at the level it was at.
FinishThere(s, ans) ==
  /\ solver' = s
  /\ answer' = ans
  /\ phase' = "idle" /\ confl' = NoClause
  /\ UNCHANGED <<asked, budget, interrupts>>

\* solve_() returns.
Finish(s, ans) ==
  /\ solver' = [CancelUntil(s, 0) EXCEPT !.ok = @ /\ ans # Unsat({})]
  /\ answer' = ans
  /\ phase' = "idle" /\ confl' = NoClause
  /\ UNCHANGED <<asked, budget, interrupts>>

Contradictory ==
  /\ phase = "propagate" /\ ~solver.ok
  /\ Finish(solver, Unsat({}))

\* The top of the loop of search().
PropagateAll ==
  /\ phase = "propagate" /\ solver.ok
  /\ LET t == Propagate(solver)
     IN  /\ solver' = t.s
         /\ confl' = t.confl
         /\ phase' = IF t.confl = NoClause THEN "prepare" ELSE "conflict"
  /\ UNCHANGED <<asked, budget, interrupts, answer>>

RootConflict ==
  /\ phase = "conflict" /\ Level(solver) = 0
  /\ Finish(solver, Unsat({}))

\* Backjump, learn, and enqueue what the learnt clause implies.
Learn ==
  /\ phase = "conflict" /\ Level(solver) > 0
  /\ LET c    == Learnt(solver, confl)
         back == CancelUntil(solver, BacktrackLevel(solver, c))
         r    == FreshRef(back)
     IN  solver' = IF Len(c) = 1 THEN Enqueue(back, c[1], NoClause)
                   ELSE Enqueue([Attach(back, r, c) EXCEPT !.learnts = @ \cup {r}], c[1], r)
  /\ budget' = [budget EXCEPT !.left = IF @ > 0 THEN @ - 1 ELSE @]
  /\ phase' = "propagate" /\ confl' = NoClause
  /\ UNCHANGED <<asked, interrupts, answer>>

Exhausted == budget.left = 0 \/ interrupts.set

\* The search gives up and solve_() starts the next one ...
Restart ==
  /\ phase = "prepare" /\ Exhausted /\ ~interrupts.set
  /\ solver' = CancelUntil(solver, 0)
  /\ budget' = Budget(budget.restarts + 1, budget.limit)
  /\ phase' = "propagate"
  /\ UNCHANGED <<confl, asked, interrupts, answer>>

\* ... or gives up as well.
Abandon ==
  /\ phase = "prepare" /\ interrupts.set
  /\ Finish(solver, Undef)

TooManyLearnt(s) == 3 * (Cardinality(s.learnts) - Len(s.trail)) >= budget.limit

\* simplify() and reduceDB(); the first waits until enough was propagated.
Prepare ==
  /\ phase = "prepare" /\ ~Exhausted
  /\ \E simplify \in {FALSE, Level(solver) = 0 /\ Len(solver.trail) # solver.simplified} :
       LET s == IF simplify THEN Simplify(solver) ELSE solver
       IN  /\ \E rs \in IF TooManyLearnt(s) THEN SUBSET Removable(s) ELSE {{}} :
                solver' = RemoveClauses(s, rs)
           /\ phase' = IF simplify /\ ~TrimDefined(solver) THEN "aborted" ELSE "decide"
  /\ UNCHANGED <<confl, asked, budget, interrupts, answer>>

\* Assumptions that hold already get a level without a decision.
AtAssumption ==
  Repeat(NewDecisionLevel,
         LAMBDA t : Level(t) < Len(asked) /\ True(t, asked[Level(t) + 1]),
         solver, Len(asked))

Decide(s, p) ==
  /\ solver' = Enqueue(NewDecisionLevel(s), p, NoClause)
  /\ phase' = "propagate"
  /\ UNCHANGED <<confl, asked, budget, interrupts, answer>>

Assume ==
  /\ phase = "decide"
  /\ LET s == AtAssumption
         p == asked[Level(s) + 1]
     IN  /\ Level(s) < Len(asked)
         /\ ~False(s, p)
         /\ Decide(s, p)

AssumptionFails ==
  /\ phase = "decide"
  /\ LET s == AtAssumption
         p == asked[Level(s) + 1]
     IN  /\ Level(s) < Len(asked)
         /\ False(s, p)
         /\ Finish(s, Unsat(FinalConflict(s, Neg(p))))

\* pickBranchLit(): variables that have a value are dropped from the heap.
Branch ==
  /\ phase = "decide"
  /\ LET s == AtAssumption
     IN  /\ Level(s) >= Len(asked)
         /\ \E v \in {x \in s.heap : Open(s, x)} : \E b \in BOOLEAN :
              Decide([s EXCEPT !.heap = {x \in @ \ {v} : Open(s, x)}], <<v, b>>)

ModelFound ==
  /\ phase = "decide"
  /\ LET s == AtAssumption
     IN  /\ Level(s) >= Len(asked)
         /\ \A x \in s.heap : ~Open(s, x)
         /\ Finish([s EXCEPT !.heap = {}], Sat(s.assigned))

\* interrupt(), from another thread or a signal handler.
Interrupt ==
  /\ phase \notin {"idle", "aborted"} /\ ~interrupts.set /\ interrupts.left > 0
  /\ interrupts' = [set |-> TRUE, left |-> interrupts.left - 1]
  /\ UNCHANGED <<solver, phase, confl, asked, budget, answer>>

Search ==
  \/ Contradictory \/ PropagateAll \/ RootConflict \/ Learn
  \/ Restart \/ Abandon \/ Prepare
  \/ Assume \/ AssumptionFails \/ Branch \/ ModelFound \/ Interrupt
=============================================================================
