----------------------------- MODULE AigerTools -----------------------------
(***************************************************************************)
(* The programs that turn AIGs into AIGs, each as the operator its main()  *)
(* computes between reading and writing.  Messages and the comments that   *)
(* the programs leave in their output are left out.                        *)
(***************************************************************************)
EXTENDS Aiger

NewLit(a) == Var2Lit(a.maxvar + 1)

Lits(rows) == [i \in DOMAIN rows |-> rows[i].lit]

CopyInputs(dst, src) ==
  LET add(d, s) == AddInput(d, s.lit, s.name) IN Through(add, dst, src.inputs)

CopyLatches(dst, src) ==
  LET add(d, s) == AddReset(AddLatch(d, s.lit, s.next, s.name), s.lit, s.reset)
  IN  Through(add, dst, src.latches)

CopyAnds(dst, src) ==
  LET add(d, g) == AddAnd(d, g.lhs, g.rhs0, g.rhs1) IN Through(add, dst, src.ands)

CopyLiterals(dst, table, rows) ==
  LET add(d, s) == AddLiteral(d, table, s.lit, s.name) IN Through(add, dst, rows)

Copy(src) == CopyAnds(CopyLatches(CopyInputs(AigerInit, src), src), src)

\* Gates numbered from first on, which conjoin lit with each of lits.
Chain(a, first, lit, lits) ==
  LET add(s, l) == [aig |-> AddAnd(s.aig, s.next, s.out, l), out |-> s.next, next |-> s.next + 2]
  IN  Through(add, [aig |-> a, out |-> lit, next |-> first], lits)

NewTables == {"bad", "constraints", "justice", "fairness"}

-----------------------------------------------------------------------------
(* aigand, aigor, aigflip.                                                 *)

AigandAllowed(src) == Without(src, NewTables)

Aigand(src) ==
  IF src.outputs = <<>> THEN Copy(src)
  ELSE LET all == Chain(Copy(src), NewLit(Copy(src)), src.outputs[1].lit, Lits(Tail(src.outputs)))
       IN  AddLiteral(all.aig, "outputs", all.out, "AIGER_AND")

AigorOfNone(src) ==
  IF src.outputs = <<>> THEN Copy(src)
  ELSE LET none == Chain(Copy(src), NewLit(Copy(src)), src.outputs[1].lit,
                         [i \in DOMAIN Tail(src.outputs) |-> Not(Tail(src.outputs)[i].lit)])
       IN  AddLiteral(none.aig, "outputs", none.out, "AIGER_OR")

\* The first output is not negated on the way in.
Aigor(src) ==
  IF src.outputs = <<>> THEN Copy(src)
  ELSE LET negated == [i \in DOMAIN Tail(src.outputs) |-> Not(Tail(src.outputs)[i].lit)]
           none    == Chain(Copy(src), NewLit(Copy(src)), src.outputs[1].lit, negated)
       IN  AddLiteral(none.aig, "outputs", Not(none.out), "AIGER_OR")

AigflipAllowed(src) == Without(src, NewTables)

\* Formats the name of an output into a pointer that was never set.
AigflipUndefined(src) == \E i \in DOMAIN src.outputs : src.outputs[i].name # NoName

Aigflip(src) ==
  CopyLiterals(Copy(src), "outputs", [i \in DOMAIN src.outputs |-> [src.outputs[i] EXCEPT !.lit = Not(@)]])

-----------------------------------------------------------------------------
(* aigmove, aigunconstraint.                                               *)

GuardedByOneGate(a, table, rows, valid) ==
  LET gate == NewLit(a)
      add(d, s) == AddLiteral(AddAnd(d, gate, valid, s.lit), table, gate, s.name)
  IN  Through(add, a, rows)

GuardedByOwn(a, table, rows, valid) ==
  LET add(d, s) == AddLiteral(AddAnd(d, NewLit(d), s.lit, s.lit), table, NewLit(d), s.name)
  IN  Through(add, a, rows)

\* A copy of each row that only holds if valid does.
Guarded(a, table, rows, valid) ==
  LET add(d, s) == AddLiteral(AddAnd(d, NewLit(d), valid, s.lit), table, NewLit(d), s.name)
  IN  Through(add, a, rows)

AigmoveAllowed(src, ignore, reverse) ==
  /\ ignore \/ Without(src, {"justice", "fairness"})
  /\ reverse \/ src.outputs = <<>> \/ ~Without(src, NewTables)

\* The latch remembers that a constraint was broken earlier; a circuit
\* without latches remembers nothing that could matter.
Aigmove(src, reverse) ==
  LET copy    == CopyLiterals(Copy(src), IF reverse THEN "bad" ELSE "outputs", src.outputs)
      latch   == NewLit(copy)
      broken  == Lits(src.constraints)
      valid   == IF src.latches # <<>>
                 THEN Chain(AddLatch(copy, latch, Not(latch + 2 * Len(broken)), "AIGMOVE_INVALID_LATCH"),
                            latch + 2, Not(latch), broken)
                 ELSE Chain(copy, latch, Head(broken), Tail(broken))
  IN  IF reverse THEN copy
      ELSE IF src.bad # <<>> /\ src.constraints # <<>>
      THEN Guarded(valid.aig, "outputs", src.bad, valid.out)
      ELSE CopyLiterals(copy, "outputs", src.bad)

AigunconstraintAllowed(src) ==
  Without(src, {"outputs", "justice"}) /\ src.bad # <<>> /\ src.constraints # <<>>

Aigunconstraint(src) ==
  LET copy    == CopyLatches(CopyAnds(CopyInputs(AigerInit, src), src), src)
      invalid == NewLit(copy)
      valid   == Chain(copy, invalid + 2, Not(invalid), Lits(src.constraints))
      latch   == AddLatch(valid.aig, invalid, Not(valid.out), "AIGUNCONSTRAINT_INVALID_STATE")
  IN  Reencode(Guarded(latch, "bad", src.bad, valid.out))

-----------------------------------------------------------------------------
(* aigreset.                                                               *)

\* The latches whose reset has to change.
Flipped(a, reset) == {l \in Range(a.latches) : l.reset # l.lit /\ l.reset # reset}

Normlit(a, reset, l) == IF \E f \in Flipped(a, reset) : f.lit = Strip(l) THEN Not(l) ELSE l

AigresetAllowed(a, check) == check => \A i \in DOMAIN a.latches : a.latches[i].reset # a.latches[i].lit

NormalizedLatchOnly(a, reset, l) ==
  IF l \in Flipped(a, reset) THEN [l EXCEPT !.next = Normlit(a, reset, @), !.reset = reset] ELSE l

\* The next state of a latch that keeps its reset is not looked at.
NormalizedLatch(a, reset, l) ==
  IF l \in Flipped(a, reset)
  THEN [l EXCEPT !.next = Not(Normlit(a, reset, @)), !.reset = reset]
  ELSE l

Aigreset(a, reset) ==
  LET norm(l)    == Normlit(a, reset, l)
      table(rows) == [i \in DOMAIN rows |-> [rows[i] EXCEPT !.lit = norm(@)]]
  IN  [a EXCEPT
         !.latches     = [i \in DOMAIN @ |-> NormalizedLatch(a, reset, @[i])],
         !.outputs     = table(@),
         !.ands        = [i \in DOMAIN @ |-> [@[i] EXCEPT !.rhs0 = norm(@), !.rhs1 = norm(@)]],
         !.bad         = table(@),
         !.constraints = table(@),
         !.justice     = [i \in DOMAIN @ |-> [@[i] EXCEPT !.lits = [j \in DOMAIN @ |-> norm(@[j])]]],
         !.fairness    = table(@)]

-----------------------------------------------------------------------------
(* aigmiter.                                                               *)

AigmiterAllowed(m1, m2, combinational) ==
  /\ m1.outputs # <<>>
  /\ Len(m1.inputs) = Len(m2.inputs) /\ Len(m1.outputs) = Len(m2.outputs)
  /\ combinational =>
       /\ Len(m1.latches) = Len(m2.latches)
       /\ \A i \in DOMAIN m1.latches : m1.latches[i].reset = m2.latches[i].reset

\* Reads the name of a latch that one of the models does not have.
AigmiterUndefined(m1, m2) == Len(m1.latches) # Len(m2.latches)

\* Both models are reencoded; where the literals of the second one go.
Export(m1, m2, combinational, l) ==
  LET latches  == 1 + Len(m1.inputs)
      ands2    == latches + Len(m2.latches)
      latches2 == IF combinational THEN latches ELSE m1.maxvar + 1
      gates2   == IF combinational THEN m1.maxvar + 1 ELSE latches2 + Len(m2.latches)
      idx      == Lit2Var(l)
  IN  IF idx < latches THEN l
      ELSE IF idx < ands2 THEN Var2Lit(idx - latches + latches2) + Sign(l)
      ELSE Var2Lit(idx - ands2 + gates2) + Sign(l)

\* and() of aigmiter: the miter and the literal of a conjunction.
Conjoin(a, l, r) ==
  IF l = False \/ r = False \/ l = Not(r) THEN [aig |-> a, lit |-> False]
  ELSE IF l = True \/ l = r THEN [aig |-> a, lit |-> r]
  ELSE IF r = True THEN [aig |-> a, lit |-> l]
  ELSE [aig |-> AddAnd(a, NewLit(a), l, r), lit |-> NewLit(a)]

AndImplies(s, pair) ==
  LET left == Conjoin(s.aig, pair[1], Not(pair[2])) IN Conjoin(left.aig, s.lit, Not(left.lit))

\* What remains of out if the pair has to be equal, too.
AndEqual(s, pair) ==
  LET left  == Conjoin(s.aig, pair[1], Not(pair[2]))
      right == Conjoin(left.aig, pair[2], Not(pair[1]))
      equal == Conjoin(right.aig, Not(left.lit), Not(right.lit))
  IN  Conjoin(equal.aig, s.lit, equal.lit)

SharedName(n1, n2) == IF n1 = n2 THEN n1 ELSE NoName

NameAt(rows, i) == IF i \in DOMAIN rows THEN rows[i].name ELSE NoName

\* Both models in one, the latches of the second one after those of the first;
\* with -c all latches are inputs, which the models share.
Juxtaposed(m1, second, combinational) ==
  LET gates == CopyAnds(CopyAnds(CopyInputs(AigerInit, m1), m1), second)
  IN  IF combinational
      THEN CopyInputs(gates, [inputs |-> m1.latches])
      ELSE CopyLatches(CopyLatches(gates, m1), second)

\* The literals that have to be equal.
Compared(m1, second, combinational) ==
  (IF combinational THEN [i \in DOMAIN m1.latches |-> <<m1.latches[i].next, second.latches[i].next>>] ELSE <<>>)
    \o [i \in DOMAIN m1.outputs |-> <<m1.outputs[i].lit, second.outputs[i].lit>>]

\* The second model with its literals after those of the first one.
Exported(m1, m2, combinational) ==
  LET exported(l) == Export(m1, m2, combinational, l)
  IN  [m2 EXCEPT
         !.latches = [i \in DOMAIN @ |-> [@[i] EXCEPT !.lit = exported(@), !.next = exported(@), !.reset = exported(@)]],
         !.outputs = [i \in DOMAIN @ |-> [@[i] EXCEPT !.lit = exported(@)]],
         !.ands    = [i \in DOMAIN @ |-> [@[i] EXCEPT !.lhs = exported(@), !.rhs0 = exported(@), !.rhs1 = exported(@)]]]

\* The names on which two models agree.
NamedAlike(a, m1, m2) ==
  LET named(table) == [i \in DOMAIN a[table] |->
                         [a[table][i] EXCEPT !.name = SharedName(NameAt(m1[table], i), NameAt(m2[table], i))]]
  IN  [a EXCEPT !.inputs = named("inputs"), !.latches = named("latches")]

MiterOf(m1, m2, combinational) ==
  LET second == NamedAlike(Exported(m1, m2, combinational), m1, m2)
      states == Juxtaposed(NamedAlike(m1, m1, m2), second, combinational)
      same   == Through(AndEqual, [aig |-> states, lit |-> True], Compared(m1, second, combinational))
  IN  AddLiteral(same.aig, "outputs", Not(same.lit), "miter")

Aigmiter(first, second, combinational) == Reencode(MiterOf(Reencode(first), Reencode(second), combinational))

-----------------------------------------------------------------------------
(* aigsplit.                                                               *)

\* The AIG with one of the properties of src.
Aigsplit(src, table, i) ==
  LET copy == CopyLiterals(Copy(src), "constraints", src.constraints)
  IN  IF table = "justice"
      THEN AddJustice(CopyLiterals(copy, "fairness", src.fairness), src.justice[i].lits, src.justice[i].name)
      ELSE AddLiteral(copy, table, src[table][i].lit, src[table][i].name)

Gcd(m, n) ==
  LET gcd[p \in Nat] == [q \in Nat |-> IF q = 0 THEN p ELSE gcd[q][p % q]] IN gcd[m][n]

CoprimeUnchecked(d, num) == d

\* The next step width, from d on, that meets every number below num.
Coprime(d, num) ==
  LET search[e \in 0..num] ==
        IF Gcd(e, num) = 1 THEN e ELSE search[IF e + 1 = num THEN 1 ELSE e + 1]
  IN  search[d]

\* The order in which printall() writes num properties: all of them, or a
\* sample of lim that starts at a random place with a random step.
SplitOrders(num, randomize, lim) ==
  LET count  == IF ~randomize \/ num < lim THEN num ELSE lim
      starts == IF randomize /\ count > 0 THEN 0..(num - 1) ELSE {0}
      steps  == IF randomize /\ count > 1 THEN {Coprime(d, num) : d \in 0..(num - 1)} ELSE {1}
  IN  {[c \in 1..count |-> ((start + (c - 1) * step) % num) + 1] : start \in starts, step \in steps}

-----------------------------------------------------------------------------
(* andtoaig: gates that are read, lines of three numbers, become an AIG.   *)

\* The tables after the lines, a failed assertion if one cannot be added.
AndsFrom(lines) ==
  LET add(s, line) == IF s.ok /\ Definable(s.aig, line[1])
                      THEN [s EXCEPT !.aig = AddAnd(@, line[1], line[2], line[3])]
                      ELSE [s EXCEPT !.ok = FALSE]
  IN  Through(add, [aig |-> AigerInit, ok |-> TRUE], lines)

AndtoaigFirstArgument(a) ==
  LET used == {Lit2Var(g.rhs0) : g \in Range(a.ands)}
      add(d, v) == IF v \in used
                   THEN IF IsAnd(d, Var2Lit(v)) THEN d ELSE AddInput(d, Var2Lit(v), NoName)
                   ELSE IF IsAnd(d, Var2Lit(v)) THEN AddLiteral(d, "outputs", Var2Lit(v), NoName)
                   ELSE d
  IN  Through(add, a, [v \in 1..a.maxvar |-> v])

\* What is used and not defined is an input, what is not used an output.
Andtoaig(a) ==
  LET used == UNION {{Lit2Var(g.rhs0), Lit2Var(g.rhs1)} : g \in Range(a.ands)}
      add(d, v) == IF v \in used
                   THEN IF IsAnd(d, Var2Lit(v)) THEN d ELSE AddInput(d, Var2Lit(v), NoName)
                   ELSE IF IsAnd(d, Var2Lit(v)) THEN AddLiteral(d, "outputs", Var2Lit(v), NoName)
                   ELSE d
  IN  Through(add, a, [v \in 1..a.maxvar |-> v])
=============================================================================
