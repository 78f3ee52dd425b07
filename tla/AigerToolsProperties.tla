------------------------ MODULE AigerToolsProperties ------------------------
(***************************************************************************)
(* What the AIGER programs promise of the files that they write.           *)
(***************************************************************************)
EXTENDS SmvToAig

-----------------------------------------------------------------------------
(* What an SMV module means: a state is the set of its true variables.     *)
(* The AIG of a module shows, in each step, which properties are violated  *)
(* and which fairness constraints hold.                                    *)

SmvStates(p) == SUBSET (p.declared \ DOMAIN p.def)

\* The value of an expression in the states now and after.
RECURSIVE Value(_, _, _, _)
Value(p, e, now, after) ==
  LET arg(i) == Value(p, e.args[i], now, after)
      holds(i) == Value(p, e.args[i].args[1], now, after)
      first(n) == holds(n) /\ \A i \in 1..(n - 1) : ~holds(i)
  IN  CASE e.tag = "0" -> FALSE
        [] e.tag = "1" -> TRUE
        [] e.tag = "symbol" -> IF e.name \in DOMAIN p.def THEN Value(p, p.def[e.name], now, after) ELSE e.name \in now
        [] e.tag = "next" -> Value(p, e.args[1], after, {})
        \* The first clause that holds decides, none of them allows anything.
        [] e.tag = "case" -> \A n \in DOMAIN e.args : first(n) => Value(p, e.args[n].args[2], now, after)
        [] e.tag = "!" -> ~arg(1)
        [] e.tag = "&" -> arg(1) /\ arg(2)
        [] e.tag = "|" -> arg(1) \/ arg(2)
        [] e.tag = "->" -> arg(1) => arg(2)
        [] e.tag \in {"<->", "=", "xnor"} -> arg(1) = arg(2)
        [] e.tag \in {"xor", "!="} -> arg(1) # arg(2)

\* Two modules with the same declarations, sections and values.
SameModule(p, q) ==
  LET tables == {"def", "init", "next", "SPEC", "INIT", "TRANS", "INVAR", "FAIRNESS"}
      inner(table, e) == IF table = "SPEC" THEN e.args[1] ELSE e
  IN  /\ p.declared = q.declared
      /\ \A table \in tables :
           /\ DOMAIN p[table] = DOMAIN q[table]
           /\ \A i \in DOMAIN p[table], now, after \in SmvStates(p) :
                Value(p, inner(table, p[table][i]), now, after) <=> Value(q, inner(table, q[table][i]), now, after)

\* What holds of the states in which a run starts, of each state, and of each
\* step.
SmvInitial(p, s) ==
  /\ \A i \in DOMAIN p.INIT : Value(p, p.INIT[i], s, {})
  /\ \A x \in DOMAIN p.init : (x \in s) = Value(p, p.init[x], s, {})

SmvInvariant(p, s) == \A i \in DOMAIN p.INVAR : Value(p, p.INVAR[i], s, {})

SmvStep(p, s, t) ==
  /\ \A i \in DOMAIN p.TRANS : Value(p, p.TRANS[i], s, t)
  /\ \A x \in DOMAIN p.next : (x \in t) = Value(p, p.next[x], s, t)

SmvShows(p, s) ==
  <<{i \in DOMAIN p.SPEC : ~Value(p, p.SPEC[i].args[1], s, {})}, {i \in DOMAIN p.FAIRNESS : Value(p, p.FAIRNESS[i], s, {})}>>

-----------------------------------------------------------------------------
(* Both as graphs whose edges carry what is shown.                         *)

SmvGraph(p) ==
  LET states == {s \in SmvStates(p) : SmvInvariant(p, s)}
  IN  [init  |-> {s \in states : SmvInitial(p, s)},
       edges |-> {<<s, SmvShows(p, s), t>> : <<s, t>> \in {pair \in states \X states : SmvStep(p, pair[1], pair[2])}},
       shows |-> [s \in states |-> {SmvShows(p, s)}]]

AigGraph(a) ==
  LET steps(s) == {step \in {Step(a, i, s) : i \in InputSets(a)} : step.constraints = DOMAIN a.constraints}
      shown(step) == <<step.bad, step.fairness>>
  IN  [init  |-> InitialStates(a),
       edges |-> UNION {{<<s, shown(step), step.next>> : step \in steps(s)} : s \in States(a)},
       shows |-> [s \in States(a) |-> {shown(step) : step \in steps(s)}]]

\* The states that are reached from S.
ReachedFrom(edges, S) ==
  LET more(R) == R \cup {e[3] : e \in {f \in edges : f[1] \in R}}
      RECURSIVE closure(_)
      closure(R) == IF more(R) = R THEN R ELSE closure(more(R))
  IN  closure(S)

Observable(graph, reached) == UNION {graph.shows[s] : s \in reached} \ {<<{}, {}>>}

\* Can a run go round and meet all of n fairness constraints again and again?
CanBeFair(edges, reached, n) ==
  LET from == [s \in reached |-> ReachedFrom(edges, {s})]
      live == {e \in edges : e[1] \in reached}
  IN  \E s \in reached : \A i \in 1..n : \E e \in live : i \in e[2][2] /\ e[1] \in from[s] /\ s \in from[e[3]]

\* What is observable of a graph, and whether its runs can be fair.
SeenFrom(graph, reached, n) ==
  [shown |-> Observable(graph, reached), fair |-> n > 0 /\ CanBeFair(graph.edges, reached, n)]

Seen(graph, init, n) == SeenFrom(graph, ReachedFrom(graph.edges, init), n)

-----------------------------------------------------------------------------
(* The promises.                                                           *)

CONSTANT MaxDepth  \* of the traces that are compared

Next == SessionNext \/ DebuggerNext \/ TranslatorNext

\* A step of a program that is not killed.
Works == job # Idle /\ job' # job /\ ended'.status # "killed"

\* A program that is not killed goes on: weak fairness of its steps, one of
\* which is possible as long as it runs.
Fairness == []<>(job = Idle) \/ []<><<Works>>_sessionVars

Spec == SessionInit /\ [][Next]_sessionVars /\ Fairness

\* The end of the file was still in a buffer when it was closed, and is lost:
\* no program looks at the result of fclose() (aiger.c:1866-1869), and each
\* ends as if it had written everything.
FlushLost == ended.run.dst \in DOMAIN disk /\ disk[ended.run.dst] = Partial

\* The program has ended without an error, and its output is complete.
Done(tool) == ended.status = "ok" /\ ended.run.tool = tool /\ ~FlushLost

Result == Reread(disk[ended.run.dst].aig)

\* The members of S, moved by n.
Shift(S, n) == {m + n : m \in S}

SymmetricDifference(S, T) == (S \ T) \cup (T \ S)

\* The files hold tables without faults, and the running program is somewhere.
TypeOK ==
  /\ \A f \in DOMAIN disk :
       \/ disk[f] \in {Absent, Partial}
       \/ disk[f].mode = "smv"
       \/ disk[f].mode \in {"aag", "aig"} /\ WellFormed(disk[f].aig)
  /\ job # Idle => job.phase \in {"rename", "open", "write", "failed", "unlink", "restore", "next", "unlink dst",
                                  "write dst", "compare", "zero", "one", "constants done", "rows",
                                  "section", "VAR", "ASSIGN", "DEFINE", "analyze", "build", "substitute", "classify",
                                  "choueka", "print"}
  /\ ended.status \in {"none", "ok", "failed", "killed", "read error", "refused", "undefined", "differs"}

\* Whatever the modes, aigtoaig and aigstrip keep meaning and order, and the
\* names unless they strip them.
ConversionsKeepMeaning ==
  Done("aigtoaig") \/ Done("aigstrip") =>
    LET in       == ended.in[1]
        stripped == ended.run.tool = "aigstrip" \/ "-s" \in ended.run.opts
    IN  /\ Meaning(Result) = Meaning(in)
        /\ Names(Result) = Names(IF stripped THEN StripSymbols(in) ELSE in)

\* Wherever aigstrip is killed or fails, the circuit is still in the file or in
\* its backup; it is lost only if its binary form cannot be read again, or if
\* the end of the file is lost when it is closed: aigstrip then takes it for
\* written and removes the backup (aigstrip.c:92-94).
NothingLost ==
  LET safe(run, in) ==
        \E f \in {run.dst, Backup(run.dst)} :
          /\ disk[f].mode \in {"aag", "aig"}
          /\ HoleAtTheTop(in) \/ CanRead(disk[f])
          /\ Meaning(Reread(disk[f].aig)) = Meaning(in)
  IN  /\ job # Idle /\ job.run.tool = "aigstrip" => safe(job.run, job.in[1])
      /\ ended # Nothing /\ ended.run.tool = "aigstrip" /\ ended.in # <<>> /\ ~(ended.status = "ok" /\ FlushLost) =>
           safe(ended.run, ended.in[1])

\* Only the first output could be true.  aigor then does not compute what its
\* usage promises, "Disjunction of all outputs" (aigor.c:34): it is the one
\* output that is not negated before the conjunction that is (aigor.c:135),
\* so that the result is true without it and false with it.
OnlyFirst(outputs) == outputs \subseteq {1}

\* aigand conjoins the outputs, aigor ors them unless only the first one could
\* be true, aigflip negates each; the latches go on as before.
OutputsCombined ==
  \A tool \in {"aigand", "aigor", "aigflip"} :
    Done(tool) /\ ended.in[1].outputs # <<>> =>
      LET in  == ended.in[1]
          all == DOMAIN in.outputs
      IN  /\ InitialStates(Result) = InitialStates(in)
          /\ \A i \in InputSets(in), s \in States(in) :
               LET before == Step(in, i, s)
                   after  == Step(Result, i, s)
               IN  /\ after.next = before.next
                   /\ CASE tool = "aigand"  -> after.outputs = {1} <=> before.outputs = all
                        [] tool = "aigor"   -> ~OnlyFirst(before.outputs) => (after.outputs = {1} <=> before.outputs # {})
                        [] tool = "aigflip" -> after.outputs = all \ before.outputs

\* A bad state can be reached under the constraints if and only if what
\* became of it can be reached without them, after as many steps.
MovedStaysReachable ==
  \A n \in 0..MaxDepth :
    /\ Done("aigmove") /\ "-r" \notin ended.run.opts =>
         LET in    == ended.in[1]
             first == Len(in.outputs)
         IN  Shift(CanHold(in, "bad", n), first) = {k \in CanHold(Result, "outputs", n) : k > first}
    /\ Done("aigunconstraint") => CanHold(Result, "bad", n) = CanHold(ended.in[1], "bad", n)

\* Does the next state of a latch that is not flipped name one that is?
ReadsFlipped(a, reset) ==
  \E l \in Range(a.latches) \ Flipped(a, reset) : \E f \in Flipped(a, reset) : Strip(l.next) = f.lit

\* aigreset renames states and nothing else: the one whose bits are flipped
\* does what the original did; except if a latch that keeps its reset takes
\* its next state straight from one that does not.
ResetsAreFlips ==
  Done("aigreset") =>
    LET in    == ended.in[1]
        reset == IF "-1" \in ended.run.opts THEN True ELSE False
        flips == {i \in DOMAIN in.latches : in.latches[i] \in Flipped(in, reset)}
        new(s) == SymmetricDifference(s, flips)
    IN  ~ReadsFlipped(in, reset) =>
          /\ \A i \in DOMAIN Result.latches : Result.latches[i].reset \in {reset, Result.latches[i].lit}
          /\ InitialStates(Result) = {new(s) : s \in InitialStates(in)}
          /\ \A i \in InputSets(in), s \in States(in) :
               Step(Result, i, new(s)) = [Step(in, i, s) EXCEPT !.next = new(@)]

\* The output of a miter is true if and only if the models, run side by side,
\* show different outputs; or, with -c, if states and inputs are the same,
\* different outputs or next states.
MiterComparesModels ==
  Done("aigmiter") =>
    LET m1   == ended.in[1]
        m2   == ended.in[2]
        n    == Len(m1.latches)
        k    == Len(m1.inputs)
        \* The step of the miter: inputs of both, states of both.
        both(i, s, t) == IF "-c" \in ended.run.opts
                         THEN Step(Result, i \cup Shift(s, k), {})
                         ELSE Step(Result, i, s \cup Shift(t, n))
    IN  \A i \in InputSets(m1), s \in States(m1), t \in States(m2) :
          LET one == Step(m1, i, s)
              two == Step(m2, i, t)
          IN  IF "-c" \in ended.run.opts
              THEN s = t =>
                     (both(i, s, t).outputs = {1} <=> one.outputs # two.outputs \/ one.next # two.next)
              ELSE /\ both(i, s, t).outputs = {1} <=> one.outputs # two.outputs
                   /\ both(i, s, t).next = one.next \cup Shift(two.next, n)
                   /\ s \cup Shift(t, n) \in InitialStates(Result)
                        <=> s \in InitialStates(m1) /\ t \in InitialStates(m2)

\* aigsplit writes every property, or as many different ones as it was told,
\* and each file is about the property it is named after, unless its end was
\* lost when it was closed.
SplitsIntoProperties ==
  Done("aigsplit") =>
    LET in == ended.in[1]
        file(table, p) == disk[PieceFile(ended.run, [table |-> table, pos |-> p])]
        written(table) == {p \in DOMAIN in[table] : file(table, p) # Absent}
        complete(table) == {p \in written(table) : file(table, p) # Partial}
        piece(table, p) == Reread(file(table, p).aig)
    IN  \A table \in {"outputs", "bad", "justice"} :
          /\ LET num == Len(in[table])
             IN  Cardinality(written(table)) =
                   IF "-r" \in ended.run.opts /\ ended.run.lim < num THEN ended.run.lim ELSE num
          /\ \A p \in complete(table), n \in 0..MaxDepth :
               LET a == piece(table, p)
               IN  IF table = "justice"
                   THEN \A i \in InputSets(in), s \in States(in) :
                          Step(a, i, s).justice = <<Step(in, i, s).justice[p]>>
                   ELSE 1 \in CanHold(a, table, n) <=> p \in CanHold(in, table, n)

\* andtoaig adds exactly the inputs that make the gates a circuit without
\* faults, and a gate is an output if and only if no other one reads it.
GatesBecomeCircuit ==
  Done("andtoaig") =>
    LET gates == Range(Result.ands)
        read  == UNION {{Strip(g.rhs0), Strip(g.rhs1)} : g \in gates}
    IN  /\ WellFormed(Result)
        /\ {o.lit : o \in Range(Result.outputs)} = {g.lhs : g \in gates} \ read
        /\ \A l \in Range(Result.inputs) : l.lit \in read

\* Whenever the file of aigdd is complete, after the first comparison, the
\* program exits for it as for the AIG that the user gave.  Only a file whose
\* end is lost when it is closed is not complete.
DstKeepsFailing ==
  /\ job # Idle /\ job.run.tool = "aigdd" /\ job.phase \in {"zero", "one", "constants done", "rows"} /\ disk[Dst] # Partial =>
       ExitCode(job.run.program, disk[Dst]) = job.expected
  /\ Done("aigdd") => ExitCode(ended.run.program, disk[ended.run.dst]) = Executable(ended.run.program, ended.in[1])

\* A temporal operator behind "!": the parser looks for one that is not
\* allowed ("Temporal operator not allowed here", smvtoaig.c:1243-1244) only
\* where the operands of "&" begin.  The module is not refused, and
\* build_expr() reads an argument that the operator has not got.
Overlooked(text) == \E i \in DOMAIN text : text[i] = "!" /\ Token(text, i + 1) \in TemporalOperators

\* What smvtoaig reads is what the user wrote: every expression has the value
\* that its operators and brackets give it, and a module that breaks a rule of
\* the language is refused, unless its operator is overlooked.  The user puts
\* brackets around an implication within another one, and around a mixture of
\* "|", "xor" and "xnor".
ProgramIsRead ==
  /\ Translating("analyze") /\ job.run.legal => SameModule(job.program, job.run.written)
  /\ job = Idle /\ ended # Nothing /\ ended.run.tool = "smvtoaig" =>
       \/ ended.status \in {"read error", "refused"} <=> ~ended.run.legal
       \/ ended.status \in {"failed", "killed"}
       \/ Overlooked(disk[ended.run.src[1]].text)

\* Latches that may start with any value, and the names on which the initial
\* states depend.
FreeLatches(p) == {x \in DOMAIN p.next \ DOMAIN p.init : Nesting(p.def, p.next[x]) = 1}

InitNames(p) ==
  LET direct(t) == UNION {NamesIn(p[t][i]) : i \in DOMAIN p[t]}
      more(S)   == S \cup UNION {NamesIn(p.def[x]) : x \in S \cap DOMAIN p.def}
      grows(S)  == more(S) # S
  IN  Repeat(more, grows, direct("INIT") \cup direct("init"), Cardinality(DOMAIN p.def))

HasLatch(a, name) == \E l \in Range(a.latches) : l.name = name

\* Variables that the AIG of a module without INIT starts with 0, although the
\* module does not say so.
ZeroAtFirst(p, a) ==
  {x \in p.declared : HasLatch(a, "AIGER_INVALID") /\ \E i \in Range(a.inputs) : i.name = "AIGER_NEXT_" \o x}

\* The AIG shows a violated property or a fairness constraint in the same
\* combinations as the module, once its variables start with 0 where the AIG
\* has them do so, and its runs can be fair if and only if those of the module
\* can.  Nothing is invented if a latch without initial value waits for the
\* first step, but initial states are lost.  Modules whose INIT depends on such
\* a latch are left out.
TranslationKeepsMeaning ==
  Done("smvtoaig") /\ FreeLatches(ended.run.written) \cap InitNames(ended.run.written) = {} =>
    LET p     == ended.run.written
        n     == Len(p.FAIRNESS)
        graph == SmvGraph(p)
        smv   == Seen(graph, {s \in graph.init : s \cap ZeroAtFirst(p, Result) = {}}, n)
        aig   == Seen(AigGraph(Result), InitialStates(Result), n)
    IN  IF HasLatch(Result, "AIGER_VALID") /\ FreeLatches(p) # {}
        THEN aig.shown \subseteq smv.shown /\ (aig.fair => smv.fair)
        ELSE aig = smv

\* A program that is not killed ends; the window of aigdd does not stay at
\* one variable for ever.
EveryProgramEnds == job # Idle ~> job = Idle

\* aigtoaig and aigstrip: the files are well formed, the conversions keep what
\* they mean, and the circuit survives a crash.
FilesKeepTheirMeaning == TypeOK /\ ConversionsKeepMeaning /\ NothingLost

\* aigand, aigor, aigflip, aigmove, aigunconstraint and aigsplit: what can be
\* reached of a property can be reached of what became of it.
PropertiesAreKept == OutputsCombined /\ MovedStaysReachable /\ SplitsIntoProperties

\* aigreset, aigmiter and andtoaig: the circuit they build behaves like the
\* ones that it is built from.
BehaviourIsKept == ResetsAreFlips /\ MiterComparesModels /\ GatesBecomeCircuit
=============================================================================
