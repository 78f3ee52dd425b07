-------------------------- MODULE ScriptedChecker --------------------------
(***************************************************************************)
(* mc.sh, a model checker made of aigunroll, aigtocnf, a SAT solver,       *)
(* soltostim and wrapstim.  The programs between AIGs and CNFs are the     *)
(* operators that they compute from the files that they read.  A DIMACS    *)
(* file is the header and the numbers after it, with 0 at the end of a     *)
(* clause; a stimulus is a sequence of vectors of "0", "1" and "x".        *)
(* The solver is external and finds any model.  Failures of the file       *)
(* system are left out: the script stops on those that a program reports,  *)
(* and what is lost when a file is closed none of them notices.            *)
(***************************************************************************)
EXTENDS SimpAig

-----------------------------------------------------------------------------
(* aigunroll: one output of a circuit during its first k steps, as an AIG  *)
(* without latches.  A run goes through the loops of build(), expand() and *)
(* main(); whether its file can be written is not modelled.                *)

VARIABLE unroll

UnrollIdle == [pc |-> "idle"]

UnrollAllowed(model) == model.bad = <<>> /\ model.constraints = <<>> /\ Len(model.outputs) = 1

UnrollStart(model, k) ==
  [pc |-> "build", model |-> Reencode(model), k |-> k, mgr |-> MgrInit, aigs |-> NothingMapped,
   i |-> 0, res |-> False, expansion |-> AigerInit]

\* The node of a literal, whose reference belongs to the table of the variables.
AigOf(aigs, lit) == IF Sign(lit) = 0 THEN aigs[Lit2Var(lit)] ELSE Not(aigs[Lit2Var(lit)])

RECURSIVE BuildRec(_, _)
BuildRec(s, v) ==
  LET gate == RowOf(s.model, Var2Lit(v))
      args == LET first == BuildRec(s, Lit2Var(gate.rhs0)) IN BuildRec(first, Lit2Var(gate.rhs1))
      put(t, res) == [t EXCEPT !.mgr = res.mgr, !.aigs = (v :> res.aig) @@ @]
  IN  IF v \in DOMAIN s.aigs THEN s
      ELSE IF v = 0 THEN put(s, Ref(s.mgr, False))
      ELSE IF IsAnd(s.model, Var2Lit(v))
      THEN put(args, SimpAnd(args.mgr, AigOf(args.aigs, gate.rhs0), AigOf(args.aigs, gate.rhs1)))
      ELSE put(s, SimpVar(s.mgr, v, 0))

UnrollBuild ==
  /\ unroll.pc = "build"
  /\ unroll' = [Through(BuildRec, unroll, [v \in 1..(unroll.model.maxvar + 1) |-> v - 1]) EXCEPT !.pc = "resets"]

\* The latches in slice 0 are constants, but for those without a reset.
AssignReset(mgr, aigs, latch) ==
  LET rhs == Ref(mgr, latch.reset)
  IN  IF latch.reset > 1 THEN mgr ELSE Dec(SimpAssign(rhs.mgr, AigOf(aigs, latch.lit), rhs.aig), rhs.aig)

UnrollResets ==
  /\ unroll.pc = "resets"
  /\ LET assign(mgr, latch) == AssignReset(mgr, unroll.aigs, latch)
     IN  unroll' = [unroll EXCEPT !.mgr = Through(assign, @, unroll.model.latches), !.pc = "next", !.i = 1]

\* An assignment, for which both references are given back.
Assigned(lhs, rhs) == Dec(Dec(SimpAssign(rhs.mgr, lhs.aig, rhs.aig), rhs.aig), lhs.aig)

\* A latch in slice i is its next state in the first slice.
AssignFirstNext(mgr, aigs, latch, i) ==
  LET lhs == SimpShift(mgr, AigOf(aigs, latch.lit), i)
  IN  Assigned(lhs, SimpShift(lhs.mgr, AigOf(aigs, latch.next), 0))

\* A latch in slice i is its next state in slice i - 1.
AssignNext(mgr, aigs, latch, i) ==
  LET lhs == SimpShift(mgr, AigOf(aigs, latch.lit), i)
  IN  Assigned(lhs, SimpShift(lhs.mgr, AigOf(aigs, latch.next), i - 1))

UnrollNext ==
  /\ unroll.pc = "next" /\ unroll.i <= unroll.k
  /\ LET assign(mgr, latch) == AssignNext(mgr, unroll.aigs, latch, unroll.i)
     IN  unroll' = [unroll EXCEPT !.mgr = Through(assign, @, unroll.model.latches), !.i = @ + 1]

UnrollUnwound ==
  /\ unroll.pc = "next" /\ unroll.i > unroll.k
  /\ unroll' = [unroll EXCEPT !.mgr = Inc(@, False), !.res = False, !.pc = "outputs", !.i = 0]

\* The output in any of the slices 0 to k.
Collected(res, shifted, or) == [mgr |-> Dec(Dec(or.mgr, shifted.aig), res), aig |-> or.aig]

UnrollOutput ==
  /\ unroll.pc = "outputs" /\ unroll.i <= unroll.k
  /\ LET shifted == SimpShift(unroll.mgr, AigOf(unroll.aigs, unroll.model.outputs[1].lit), unroll.i)
         res     == Collected(unroll.res, shifted, SimpOr(shifted.mgr, unroll.res, shifted.aig))
     IN  unroll' = [unroll EXCEPT !.mgr = res.mgr, !.res = res.aig, !.i = @ + 1]

UnrollSubstitute ==
  /\ unroll.pc = "outputs" /\ unroll.i > unroll.k
  /\ LET sub == Substitute(unroll.mgr, unroll.res)
     IN  unroll' = [unroll EXCEPT !.mgr = Dec(sub.mgr, unroll.res), !.res = sub.aig, !.pc = "expand"]

\* Symbols carry the slice, the name and the position in the table of inputs
\* or of latches.
NextSymbol(model, node) ==
  LET type == model.types[node.var]
  IN  [slice |-> node.slice, name |-> model[type.table][type.idx].name, pos |-> type.idx]

\* The gates below a node and their variables, which are the inputs.
RECURSIVE CopyAig(_, _, _)
CopyAig(s, expansion, p) ==
  LET idx  == UnsignedIndex(s.mgr, Strip(p))
      node == Node(s.mgr, p)
      c0   == CopyAig(s, expansion, node.c0)
      c1   == CopyAig(s, c0, node.c1)
  IN  IF IsDefined(expansion, idx) THEN expansion
      ELSE IF node.kind = "var" THEN AddInput(expansion, idx, NextSymbol(s.model, node))
      ELSE AddAnd(c1, idx, UnsignedIndex(s.mgr, node.c0), UnsignedIndex(s.mgr, node.c1))

UnrollExpand ==
  /\ unroll.pc = "expand"
  /\ LET indexed == [unroll EXCEPT !.mgr = AssignIndices(@, unroll.res)]
         copy    == CopyAig(indexed, AigerInit, unroll.res)
     IN  unroll' = [indexed EXCEPT
                      !.expansion = AddLiteral(copy, "outputs", UnsignedIndex(indexed.mgr, unroll.res), NoName),
                      !.mgr = ResetIndices(@), !.pc = "release"]

UnrollRelease ==
  /\ unroll.pc = "release"
  /\ LET all == <<unroll.res>> \o [v \in 1..(unroll.model.maxvar + 1) |-> unroll.aigs[v - 1]]
     IN  unroll' = [unroll EXCEPT !.mgr = Through(Dec, @, all), !.aigs = NothingMapped, !.pc = "done"]

UnrollStep ==
  \/ UnrollBuild \/ UnrollResets \/ UnrollNext \/ UnrollUnwound
  \/ UnrollOutput \/ UnrollSubstitute \/ UnrollExpand \/ UnrollRelease

-----------------------------------------------------------------------------

\* The references that aigunroll itself has to node n.
Owned(n) ==
  Cardinality({v \in DOMAIN unroll.aigs : Lit2Var(unroll.aigs[v]) = n})
    + (IF unroll.pc \in {"outputs", "expand", "release"} /\ Lit2Var(unroll.res) = n THEN 1 ELSE 0)

VARIABLE script

-----------------------------------------------------------------------------
(* aigtocnf.                                                               *)

CnfAllowed(a) == Without(a, {"latches", "bad", "constraints"}) /\ Len(a.outputs) = 1

\* The literals that the output needs: gates whose truth is needed need both
\* arguments, gates whose falsity is needed the negation of both.
NeededPositive(a) ==
  LET need(refs, g) == refs \cup (IF g.lhs \in refs THEN {g.rhs0, g.rhs1} ELSE {})
  IN  Through(need, {a.outputs[1].lit}, Reverse(a.ands))

Needed(a) ==
  LET need(refs, g) ==
        refs \cup (IF g.lhs \in refs THEN {g.rhs0, g.rhs1} ELSE {})
             \cup (IF Not(g.lhs) \in refs THEN {Not(g.rhs0), Not(g.rhs1)} ELSE {})
  IN  Through(need, {a.outputs[1].lit}, Reverse(a.ands))

\* Without the optimization of Plaisted and Greenbaum all literals but the
\* constants are taken as needed.
Refs(a, pg) == IF pg THEN Needed(a) ELSE Needed(a) \cup 2..(2 * a.maxvar + 1)

UsedVar(refs, v) == {Var2Lit(v), Var2Lit(v) + 1} \cap refs # {}

\* The number of a literal in the CNF, which is 0 for those without one.
Mapped(refs, lit) ==
  LET v == Lit2Var(lit)
      m == Cardinality({u \in 0..v : UsedVar(refs, u)})
  IN  IF ~UsedVar(refs, v) THEN 0 ELSE IF (v = 0) = (Sign(lit) = 1) THEN m ELSE 0 - m

GateNumbersBoth(refs, g) ==
  LET map(lit) == Mapped(refs, lit)
  IN  <<map(Not(g.lhs)), map(g.rhs1), 0, map(Not(g.lhs)), map(g.rhs0), 0,
        map(g.lhs), map(Not(g.rhs1)), map(Not(g.rhs0)), 0>>

GateNumbers(refs, g) ==
  LET map(lit) == Mapped(refs, lit)
  IN  (IF g.lhs \in refs
       THEN <<map(Not(g.lhs)), map(g.rhs1), 0, map(Not(g.lhs)), map(g.rhs0), 0>> ELSE <<>>)
        \o (IF Not(g.lhs) \in refs
            THEN <<map(g.lhs), map(Not(g.rhs1)), map(Not(g.rhs0)), 0>> ELSE <<>>)

\* The file if the variables in "used" have a number there.
CnfOf(a, refs, used) ==
  LET out      == a.outputs[1].lit
      beyond   == {v \in used : v > Len(a.inputs)}
      count(s) == Cardinality({v \in beyond : Var2Lit(v) + s \in refs})
  IN  IF out = False THEN [vars |-> 0, clauses |-> 1, numbers |-> <<0>>]
      ELSE IF out = True THEN [vars |-> 0, clauses |-> 0, numbers |-> <<>>]
      ELSE [vars    |-> Cardinality(used),
            clauses |-> 1 + (IF 0 \in used THEN 1 ELSE 0) + 2 * count(0) + count(1),
            numbers |-> (IF 0 \in used THEN <<Mapped(refs, True), 0>> ELSE <<>>)
                          \o FlattenSeq([i \in DOMAIN a.ands |-> GateNumbers(refs, a.ands[i])])
                          \o <<Mapped(refs, out), 0>>]

CnfWith(a, refs) == CnfOf(a, refs, {v \in 0..a.maxvar : UsedVar(refs, v)})

Aigtocnf(src, pg) == LET a == Reencode(src) IN CnfWith(a, Refs(a, pg))

\* The clauses as a solver reads them, each with its place.
Clauses(cnf) ==
  LET ends      == {i \in DOMAIN cnf.numbers : cnf.numbers[i] = 0}
      after(e)  == {i \in 0..(e - 1) : i = 0 \/ i \in ends}
      start(e)  == CHOOSE s \in after(e) : \A t \in after(e) : t <= s
  IN  [e \in ends |-> {cnf.numbers[i] : i \in (start(e) + 1)..(e - 1)}]

\* The true variables of the models of a CNF.
Models(cnf) ==
  LET clauses == Range(Clauses(cnf))
      true(l, A) == IF l > 0 THEN l \in A ELSE 0 - l \notin A
  IN  {A \in SUBSET (1..cnf.vars) : \A c \in clauses : \E l \in c : true(l, A)}

-----------------------------------------------------------------------------
(* soltostim: the value of each input in a model over the variables 1 to n. *)

Soltostim(a, n, true) ==
  [i \in DOMAIN a.inputs |->
     LET v == Lit2Var(a.inputs[i].lit)
     IN  IF v > n THEN "x" ELSE IF v \in true THEN "1" ELSE "0"]

-----------------------------------------------------------------------------
(* wrapstim: the expanded inputs back in their places.  Names of the model *)
(* and of its expansion count as equal unless one is the beginning of the  *)
(* other; names for which that happens are not modelled.                   *)

\* The expanded input of every slice and position, none twice and none
\* outside of the model.
Linked(model, expansion, k) ==
  LET rows == DOMAIN expansion.inputs
      sym(e) == expansion.inputs[e].name
  IN  /\ \A e \in rows : sym(e).slice <= k /\ sym(e).pos <= Len(model.inputs)
      /\ \A e, f \in rows : sym(e).slice = sym(f).slice /\ sym(e).pos = sym(f).pos => e = f

WrapstimFirstSlice(model, expansion, k, estim) ==
  [i \in 1..(k + 1) |-> [p \in DOMAIN model.inputs |->
     LET here == {e \in DOMAIN expansion.inputs : expansion.inputs[e].name.pos = p}
     IN  IF here = {} THEN "x" ELSE estim[CHOOSE e \in here : TRUE]]]

Wrapstim(model, expansion, k, estim) ==
  [i \in 1..(k + 1) |-> [p \in DOMAIN model.inputs |->
     LET here == {e \in DOMAIN expansion.inputs :
                    expansion.inputs[e].name.slice = i - 1 /\ expansion.inputs[e].name.pos = p}
     IN  IF here = {} THEN "x" ELSE estim[CHOOSE e \in here : TRUE]]]

-----------------------------------------------------------------------------
(* The script.                                                             *)

ScriptIdle == [pc |-> "idle"]

ScriptStart(model, maxk) ==
  [pc |-> "expanding", model |-> model, maxk |-> maxk, k |-> 0, expansion |-> AigerInit, cnf |-> [vars |-> 0],
   solution |-> {}, stimulus |-> <<>>, answer |-> "none"]

ScriptExpand ==
  /\ script.pc = "expanding" /\ unroll.pc = "idle"
  /\ IF UnrollAllowed(script.model)
     THEN unroll' = UnrollStart(script.model, script.k) /\ UNCHANGED script
     ELSE script' = [script EXCEPT !.pc = "failed"] /\ UNCHANGED unroll

\* The expansion is in a binary file by then.
ScriptConvert ==
  /\ script.pc = "expanding" /\ unroll.pc = "done"
  /\ LET file == Prepared(unroll.expansion, "aig")
     IN  script' = [script EXCEPT !.pc = "solving", !.expansion = file, !.cnf = Aigtocnf(file, TRUE)]
  /\ unroll' = UnrollIdle

ScriptSat ==
  /\ script.pc = "solving"
  /\ \E true \in Models(script.cnf) : script' = [script EXCEPT !.pc = "translating", !.solution = true, !.answer = "1"]
  /\ UNCHANGED unroll

ScriptUnsatSameBound ==
  /\ script.pc = "solving"
  /\ Models(script.cnf) = {}
  /\ script' = [script EXCEPT !.pc = "expanding"]
  /\ UNCHANGED unroll

ScriptUnsat ==
  /\ script.pc = "solving"
  /\ Models(script.cnf) = {}
  /\ script' = IF script.k < script.maxk THEN [script EXCEPT !.pc = "expanding", !.k = @ + 1]
               ELSE [script EXCEPT !.pc = "done", !.answer = "x"]
  /\ UNCHANGED unroll

ScriptTranslate ==
  /\ script.pc = "translating"
  /\ LET estim == Soltostim(script.expansion, script.cnf.vars, script.solution)
     IN  script' = IF Linked(script.model, script.expansion, script.k)
                   THEN [script EXCEPT !.pc = "done", !.stimulus = Wrapstim(script.model, script.expansion, script.k, estim)]
                   ELSE [script EXCEPT !.pc = "failed"]
  /\ UNCHANGED unroll

ScriptStep ==
  \/ ScriptExpand \/ ScriptConvert \/ ScriptSat \/ ScriptUnsat \/ ScriptTranslate
  \/ UnrollStep /\ UNCHANGED script
=============================================================================
