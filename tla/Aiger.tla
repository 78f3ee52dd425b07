------------------------------- MODULE Aiger -------------------------------
(***************************************************************************)
(* The tables of the AIGER library and the operations of aiger.c on them.  *)
(* A literal is a number: twice its variable, plus one if it is negated.   *)
(* "types" holds, for the variables that are defined, the table that does  *)
(* and the position in it; "marked" are the gates that a cycle check has   *)
(* visited, whose mark is never taken back.  The last part says what an    *)
(* AIG means.                                                              *)
(***************************************************************************)
EXTENDS Loops, SequencesExt

False == 0
True == 1
NoName == ""

Lit2Var(l) == l \div 2
Var2Lit(v) == 2 * v
Sign(l) == l % 2
Not(l) == IF Sign(l) = 0 THEN l + 1 ELSE l - 1
Strip(l) == l - Sign(l)

Larger(m, n) == IF m < n THEN n ELSE m

\* The tables whose rows are a literal and a name.
LiteralTables == {"outputs", "bad", "constraints", "fairness"}

NamedTables == LiteralTables \cup {"inputs", "latches", "justice"}

AigerInit ==
  [t \in NamedTables \cup {"ands", "comments"} |-> <<>>]
    @@ [maxvar |-> 0, types |-> [v \in {} |-> 0], marked |-> {}]

ImportLiteral(a, l) == [a EXCEPT !.maxvar = Larger(@, Lit2Var(l))]

IsDefined(a, l) == Lit2Var(l) = 0 \/ Lit2Var(l) \in DOMAIN a.types

Without(a, tables) == \A t \in tables : a[t] = <<>>

\* What the functions that define a variable assert of its literal.
Definable(a, l) == l > 1 /\ Sign(l) = 0 /\ Lit2Var(l) \notin DOMAIN a.types

AddRow(a, table, row) == [a EXCEPT ![table] = Append(@, row)]

Define(a, table, row, l) ==
  [AddRow(ImportLiteral(a, l), table, row) EXCEPT
     !.types = (Lit2Var(l) :> [table |-> table, idx |-> Len(a[table]) + 1]) @@ @]

AddInput(a, l, name) == Define(a, "inputs", [lit |-> l, name |-> name], l)

AddLatch(a, l, next, name) ==
  ImportLiteral(
    Define(a, "latches", [lit |-> l, next |-> next, reset |-> False, name |-> name], l), next)

\* What aiger_add_reset() asserts.
ResetAllowed(l, reset) == reset \in {False, True, l}

AddReset(a, l, reset) ==
  [a EXCEPT !.latches[a.types[Lit2Var(l)].idx].reset = reset]

AddLiteral(a, table, l, name) ==
  AddRow(ImportLiteral(a, l), table, [lit |-> l, name |-> name])

AddJustice(a, lits, name) ==
  AddRow(Through(ImportLiteral, a, lits), "justice", [lits |-> lits, name |-> name])

AddAnd(a, lhs, rhs0, rhs1) ==
  ImportLiteral(
    ImportLiteral(
      Define(a, "ands", [lhs |-> lhs, rhs0 |-> rhs0, rhs1 |-> rhs1], lhs), rhs0), rhs1)

AddComment(a, comment) == AddRow(a, "comments", comment)

\* Strips names and comments.
StripSymbols(a) ==
  [f \in DOMAIN a |->
     CASE f \in NamedTables -> [i \in DOMAIN a[f] |-> [a[f][i] EXCEPT !.name = NoName]]
       [] f = "comments"    -> <<>>
       [] OTHER             -> a[f]]

IsInput(a, l) == IsDefined(a, l) /\ l > 1 /\ a.types[Lit2Var(l)].table = "inputs"
IsLatch(a, l) == IsDefined(a, l) /\ l > 1 /\ a.types[Lit2Var(l)].table = "latches"
IsAnd(a, l)   == IsDefined(a, l) /\ l > 1 /\ a.types[Lit2Var(l)].table = "ands"

\* The row that defines a variable.
RowOf(a, l) == LET type == a.types[Lit2Var(l)] IN a[type.table][type.idx]

-----------------------------------------------------------------------------
(* aiger_check().                                                          *)

\* The literals that are used outside of the gates, in the order in which
\* aiger_reencode() follows them.
Roots(a) ==
  LET lits(table) == [i \in DOMAIN a[table] |-> a[table][i].lit]
  IN  FlattenSeq([i \in DOMAIN a.latches |-> <<a.latches[i].next, a.latches[i].reset>>])
        \o lits("outputs") \o lits("bad") \o lits("constraints")
        \o FlattenSeq([i \in DOMAIN a.justice |-> a.justice[i].lits]) \o lits("fairness")

AllDefinedButSecond(a) ==
  /\ \A i \in DOMAIN Roots(a) : IsDefined(a, Roots(a)[i])
  /\ \A i \in DOMAIN a.ands : IsDefined(a, a.ands[i].rhs0)

AllDefined(a) ==
  /\ \A i \in DOMAIN Roots(a) : IsDefined(a, Roots(a)[i])
  /\ \A i \in DOMAIN a.ands : IsDefined(a, a.ands[i].rhs0) /\ IsDefined(a, a.ands[i].rhs1)

\* The depth-first search from gate v, reached through the gates on stack;
\* the second argument was pushed last and is visited first.
RECURSIVE Explore(_, _, _, _)
Explore(a, s, stack, v) ==
  IF s.cyclic \/ ~IsAnd(a, Var2Lit(v)) THEN s
  ELSE IF v \in s.marked THEN [s EXCEPT !.cyclic = v \in stack]
  ELSE LET gate  == RowOf(a, Var2Lit(v))
           first == Explore(a, [s EXCEPT !.marked = @ \cup {v}], stack \cup {v}, Lit2Var(gate.rhs1))
       IN  Explore(a, first, stack \cup {v}, Lit2Var(gate.rhs0))

CheckForCycles(a) ==
  LET visit(s, v) == Explore(a, s, {}, v)
  IN  Through(visit, [marked |-> a.marked, cyclic |-> FALSE], [v \in 1..a.maxvar |-> v])

\* No error message.
Passes(a) == AllDefined(a) /\ ~CheckForCycles(a).cyclic

AigerCheck(a) == IF AllDefined(a) THEN [a EXCEPT !.marked = CheckForCycles(a).marked] ELSE a

-----------------------------------------------------------------------------
(* aiger_reencode(): the inputs, the latches and the gates in the order of *)
(* their definition, without holes and without gates that nothing needs.   *)

MaxInputOrLatch(a) ==
  LET lits == {a.inputs[i].lit : i \in DOMAIN a.inputs} \cup {a.latches[i].lit : i \in DOMAIN a.latches}
  IN  IF lits = {} THEN 0 ELSE CHOOSE l \in lits : \A k \in lits : k <= l

IsReencoded(a) ==
  LET inputs == Len(a.inputs)
  IN  /\ \A i \in DOMAIN a.inputs : a.inputs[i].lit = Var2Lit(i)
      /\ \A i \in DOMAIN a.latches : a.latches[i].lit = Var2Lit(inputs + i)
      /\ \A i \in DOMAIN a.ands :
           /\ a.ands[i].lhs = MaxInputOrLatch(a) + Var2Lit(i)
           /\ a.ands[i].lhs >= a.ands[i].rhs0
           /\ a.ands[i].rhs0 >= a.ands[i].rhs1

\* The gates below v that are not in order yet, the smaller argument first.
RECURSIVE InOrder(_, _, _)
InOrder(a, order, v) ==
  IF ~IsAnd(a, Var2Lit(v)) \/ Contains(order, v) THEN order
  ELSE LET gate == RowOf(a, Var2Lit(v))
           args == {Lit2Var(gate.rhs0), Lit2Var(gate.rhs1)}
           low  == CHOOSE w \in args : \A u \in args : w <= u
           high == CHOOSE w \in args : \A u \in args : w >= u
       IN  Append(InOrder(a, InOrder(a, order, low), high), v)

\* The variables in their new order, constant included.
NewOrder(a) ==
  LET visit(order, l) == InOrder(a, order, Lit2Var(l))
      vars(table)     == [i \in DOMAIN a[table] |-> Lit2Var(a[table][i].lit)]
  IN  vars("inputs") \o vars("latches") \o Through(visit, <<>>, Roots(a))

\* What becomes of a literal when its variable gets a new number.
CodeUnsigned(number, l) == IF l < 2 THEN l ELSE Var2Lit(number[Lit2Var(l)])

Code(number, l) == IF l < 2 THEN l ELSE Var2Lit(number[Lit2Var(l)]) + Sign(l)

NewTypes(inputs, latches, total) ==
  [n \in 1..total |->
     CASE n <= inputs                        -> [table |-> "inputs", idx |-> n]
       [] n > inputs /\ n <= inputs + latches -> [table |-> "latches", idx |-> n - inputs]
       [] n > inputs + latches               -> [table |-> "ands", idx |-> n - inputs - latches]]

\* What is beyond the new maxvar is left in place.
ResetTypesNot(a, total) == a.types

ResetTypes(a, total) == NewTypes(Len(a.inputs), Len(a.latches), total) @@ a.types

\* A gate whose left-hand side gets the number lhs, the larger argument first.
OrderedGate(lhs, x, y) == [lhs |-> lhs, rhs0 |-> Larger(x, y), rhs1 |-> IF x < y THEN x ELSE y]

\* "number" is the place of a variable in "order".
RenumberedBy(a, order, number) ==
  LET fixed       == Len(a.inputs) + Len(a.latches)
      code(l)     == Code(number, l)
      coded(rows) == [i \in DOMAIN rows |-> [rows[i] EXCEPT !.lit = code(@)]]
      gate(g)     == OrderedGate(code(g.lhs), code(g.rhs0), code(g.rhs1))
  IN  [a EXCEPT
         !.maxvar      = Len(order),
         !.inputs      = coded(@),
         !.latches     = [i \in DOMAIN @ |-> [@[i] EXCEPT !.lit = code(@), !.next = code(@), !.reset = code(@)]],
         !.outputs     = coded(@),
         !.bad         = coded(@),
         !.constraints = coded(@),
         !.fairness    = coded(@),
         !.justice     = [i \in DOMAIN @ |-> [@[i] EXCEPT !.lits = [j \in DOMAIN @ |-> code(@[j])]]],
         !.ands        = [n \in 1..(Len(order) - fixed) |-> gate(RowOf(a, Var2Lit(order[fixed + n])))],
         !.types       = ResetTypes(a, Len(order))]

Places(order) == [v \in Range(order) |-> CHOOSE n \in DOMAIN order : order[n] = v]

Renumbered(a) == LET order == NewOrder(a) IN RenumberedBy(a, order, Places(order))

Reencode(a) == IF IsReencoded(a) THEN a ELSE Renumbered(a)

\* The tables to be written: a binary file needs them in order.
Prepared(a, mode) == IF mode = "aag" THEN a ELSE Reencode(a)

-----------------------------------------------------------------------------
(* What an AIG means, whatever its literals are: the inputs, the latches,  *)
(* the outputs and the properties are known by their positions.            *)

\* Every literal in use is defined, by one row, and no gate depends on itself.
WellFormed(a) ==
  LET defs  == [t \in {"inputs", "latches", "ands"} |->
                  {IF t = "ands" THEN a[t][i].lhs ELSE a[t][i].lit : i \in DOMAIN a[t]}]
      used  == Range(Roots(a)) \cup UNION {{g.rhs0, g.rhs1} : g \in Range(a.ands)}
      gates == DOMAIN a.ands
      \* The gates that depend on no others than those of S.
      reads(g)    == {h \in gates : a.ands[h].lhs \in {Strip(a.ands[g].rhs0), Strip(a.ands[g].rhs1)}}
      above(S)    == {g \in gates : reads(g) \subseteq S}
      missed(S)   == S # gates
  IN  /\ \A l \in UNION {defs[t] : t \in DOMAIN defs} : l > 1 /\ Sign(l) = 0 /\ Lit2Var(l) <= a.maxvar
      /\ Cardinality(UNION {defs[t] : t \in DOMAIN defs}) = Len(a.inputs) + Len(a.latches) + Len(a.ands)
      /\ \A l \in used : l < 2 \/ \E t \in DOMAIN defs : Strip(l) \in defs[t]
      /\ Repeat(above, missed, {}, Len(a.ands)) = gates

\* The value of every variable, given the true inputs and latches.
Evaluate(a, inputs, latches) ==
  LET val[v \in 0..a.maxvar] ==
        IF v \notin DOMAIN a.types THEN FALSE
        ELSE LET type == a.types[v]
             IN  CASE type.table = "inputs"  -> type.idx \in inputs
                   [] type.table = "latches" -> type.idx \in latches
                   [] type.table = "ands"    ->
                        LET g == a.ands[type.idx]
                        IN  /\ val[Lit2Var(g.rhs0)] = (Sign(g.rhs0) = 0)
                            /\ val[Lit2Var(g.rhs1)] = (Sign(g.rhs1) = 0)
  IN  val

Holds(val, l) == val[Lit2Var(l)] = (Sign(l) = 0)

InputSets(a) == SUBSET DOMAIN a.inputs
States(a) == SUBSET DOMAIN a.latches

\* Where the circuit starts: a latch that is its own reset may have any value.
InitialStates(a) ==
  {s \in States(a) : \A i \in DOMAIN a.latches :
     LET l == a.latches[i] IN l.reset = l.lit \/ (l.reset = True) = (i \in s)}

\* What the circuit shows and does in a state.
Step(a, inputs, state) ==
  LET val         == Evaluate(a, inputs, state)
      true(table) == {i \in DOMAIN a[table] : Holds(val, a[table][i].lit)}
  IN  [next        |-> {i \in DOMAIN a.latches : Holds(val, a.latches[i].next)},
       outputs     |-> true("outputs"),
       bad         |-> true("bad"),
       constraints |-> true("constraints"),
       fairness    |-> true("fairness"),
       justice     |-> [i \in DOMAIN a.justice |->
                          {j \in DOMAIN a.justice[i].lits : Holds(val, a.justice[i].lits[j])}]]

\* A machine as a table, which is equal for AIGs of the same meaning.
Meaning(a) ==
  [init |-> InitialStates(a), step |-> [i \in InputSets(a), s \in States(a) |-> Step(a, i, s)]]

\* Does maxvar count a variable above all that are defined?
HoleAtTheTop(a) == a.maxvar > Len(a.inputs) + Len(a.latches) + Len(a.ands)

Names(a) == [t \in NamedTables |-> [i \in DOMAIN a[t] |-> a[t][i].name]]

-----------------------------------------------------------------------------
(* Traces that start in an initial state.                                  *)

Constrained(a, inputs, state) == Step(a, inputs, state).constraints = DOMAIN a.constraints

\* The states that can be reached in n steps along which the constraints hold.
ReachableIn(a, n) ==
  LET reached[k \in 0..n] ==
        IF k = 0 THEN InitialStates(a)
        ELSE UNION {{Step(a, i, s).next : i \in {j \in InputSets(a) : Constrained(a, j, s)}} :
                      s \in reached[k - 1]}
  IN  reached[n]

\* Which literals of a table can become true after n such steps.
CanHold(a, table, n) ==
  UNION {UNION {Step(a, i, s)[table] : i \in {j \in InputSets(a) : Constrained(a, j, s)}} :
           s \in ReachableIn(a, n)}

\* The states and steps along a sequence of inputs, numbered from 0.
RunOf(a, init, inputs) ==
  LET at[t \in 0..(Len(inputs) - 1)] ==
        LET s == IF t = 0 THEN init ELSE at[t - 1].step.next
        IN  [state |-> s, step |-> Step(a, inputs[t + 1], s)]
  IN  at

LastOf(run) == Cardinality(DOMAIN run) - 1
=============================================================================
