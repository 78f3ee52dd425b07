-------------------------- MODULE BoundedChecking --------------------------
(***************************************************************************)
(* The two bounded model checkers of the AIGER tools, mc.sh and aigbmc,    *)
(* and the simulator that checks what they print.                          *)
(***************************************************************************)
EXTENDS ScriptedChecker, BoundedModelChecker, Simulator

CONSTANT Setups  \* a tool, the model it reads, and its options and files

VARIABLE goal    \* each property with the depths at which it can be shown

boundedVars == <<unroll, script, bmc, sim, goal>>

Search == INSTANCE BoundedSearch WITH
  goal   <- {g.depth : g \in goal},
  limit  <- IF script.pc = "idle" THEN IF bmc.pc = "idle" THEN 0 ELSE bmc.maxk ELSE script.maxk,
  depth  <- IF script.pc # "idle" THEN script.k
            ELSE IF bmc.pc = "idle" THEN 0
            ELSE IF bmc.printed # <<>> THEN Len(bmc.printed[1].vectors) - 1
            ELSE IF bmc.k > bmc.maxk THEN bmc.maxk ELSE bmc.k,
  answer <- IF script.pc # "idle" THEN script.answer
            ELSE IF bmc.pc = "idle" THEN "none"
            ELSE IF "1" \in Range(bmc.lines) THEN "1" ELSE IF "2" \in Range(bmc.lines) THEN "x" ELSE "none"

-----------------------------------------------------------------------------
(* Traces that show a property.                                            *)

SaneUntil(a, run, t) == \A u \in 0..t : run[u].step.constraints = DOMAIN a.constraints

\* From some step on, to which the last one leads back, everything that is to
\* happen again and again happens.
FairLoop(a, run, j) ==
  /\ SaneUntil(a, run, LastOf(run))
  /\ \E t \in DOMAIN run :
       LET loop == {u \in DOMAIN run : t <= u}
       IN  /\ run[t].state = run[LastOf(run)].step.next
           /\ \A l \in DOMAIN a.justice[j].lits : \E u \in loop : l \in run[u].step.justice[j]
           /\ \A f \in DOMAIN a.fairness : \E u \in loop : f \in run[u].step.fairness

BadAt(a, run, b, t) == b \in run[t].step.bad /\ SaneUntil(a, run, t)

Shows(a, run, prop) ==
  IF prop.kind = "j" THEN FairLoop(a, run, prop.pos) ELSE \E t \in DOMAIN run : BadAt(a, run, prop.pos, t)

\* Does the last step of a run show something new?
Ends(a, run, prop) ==
  IF prop.kind = "j" THEN FairLoop(a, run, prop.pos) ELSE BadAt(a, run, prop.pos, LastOf(run))

Runs(a, n) == {RunOf(a, s, in) : s \in InitialStates(a), in \in [1..(n + 1) -> InputSets(a)]}

Goal(a, limit) ==
  {g \in [prop : Props(a), depth : 0..limit] : \E run \in Runs(a, g.depth) : Ends(a, run, g.prop)}

-----------------------------------------------------------------------------

Init ==
  \E setup \in Setups :
    /\ unroll = UnrollIdle
    /\ script = IF setup.tool = "mc.sh" THEN ScriptStart(setup.model, setup.maxk) ELSE ScriptIdle
    /\ bmc = IF setup.tool = "aigbmc" THEN BmcStart(setup.model, setup.move, setup.nowitness, setup.maxk) ELSE BmcIdle
    /\ sim = IF setup.tool = "aigsim" THEN SimStart(setup.model, setup.opts, setup.file) ELSE SimIdle
    /\ goal = CASE setup.tool = "mc.sh"  -> Goal(SimModel(setup.model, FALSE), setup.maxk)
                [] setup.tool = "aigbmc" -> Goal(BmcModel(setup.model, setup.move), setup.maxk)
                [] setup.tool = "aigsim" -> {}

\* What mc.sh leaves is simulated, what aigbmc prints is checked.
Simulate ==
  /\ sim.pc = "idle"
  /\ \/ /\ script.pc = "done" /\ script.answer = "1"
        /\ sim' = SimStart(script.model, [witness |-> FALSE, check |-> FALSE, ground |-> FALSE, move |-> FALSE], script.stimulus)
     \/ /\ bmc.pc = "done" /\ bmc.printed # <<>>
        /\ sim' = SimStart(bmc.file, [witness |-> TRUE, check |-> TRUE, ground |-> TRUE, move |-> bmc.move], bmc.printed)
  /\ UNCHANGED <<unroll, script, bmc>>

Next ==
  /\ \/ ScriptStep /\ UNCHANGED <<bmc, sim>>
     \/ BmcStep /\ UNCHANGED <<unroll, script, sim>>
     \/ SimStep /\ UNCHANGED <<unroll, script, bmc>>
     \/ Simulate
  /\ UNCHANGED goal

Ended ==
  IF sim.pc # "idle" THEN sim.pc = "exit"
  ELSE \/ script.pc = "failed" \/ (script.pc = "done" /\ script.answer = "x")
       \/ bmc.pc = "done" /\ bmc.printed = <<>>

\* The programs go on as long as they can: weak fairness of Next, which is
\* possible unless all has ended.
Fairness == []<>Ended \/ []<><<Next>>_boundedVars

Spec == Init /\ [][Next]_boundedVars /\ Fairness

-----------------------------------------------------------------------------

\* The value of a vector's digit, given what the unknown ones are.
Instances(digits) == {s \in SUBSET DOMAIN digits : \A i \in DOMAIN digits : digits[i] # "x" => (digits[i] = "1") = (i \in s)}

\* The sequences of sets of inputs that a stimulus may stand for.
Groundings(vectors) ==
  {in \in [DOMAIN vectors -> UNION {Instances(vectors[t]) : t \in DOMAIN vectors}] :
     \A t \in DOMAIN vectors : in[t] \in Instances(vectors[t])}

FreeLatches(a) == {j \in DOMAIN a.latches : a.latches[j].reset > 1}

\* The files are AIGs without faults; the header of a CNF counts its clauses
\* and its variables.
TypeOK ==
  /\ unroll.pc \in {"idle", "build", "resets", "next", "outputs", "expand", "release", "done"}
  /\ unroll.pc = "done" => WellFormed(unroll.expansion)
  /\ script.pc \in {"solving", "translating"} =>
       LET cnf == script.cnf
       IN  /\ Cardinality(DOMAIN Clauses(cnf)) = cnf.clauses
           /\ \A c \in Range(Clauses(cnf)) : c \subseteq (0 - cnf.vars)..cnf.vars
  /\ sim.pc = "exit" => sim.exit \in {"0", "1", "died"}

\* The reference count of a node is the number of references that there are;
\* no two nodes are the same, and in the end none is left.
NodesCounted ==
  unroll.pc # "idle" =>
    LET mgr   == unroll.mgr
        nodes == DOMAIN mgr.nodes
    IN  /\ \A n \in nodes \cup {0} : mgr.ref[n] = Held(mgr, n) + Owned(n)
        /\ \A n, m \in nodes : mgr.nodes[n] = mgr.nodes[m] => n = m
        /\ unroll.pc = "done" => CurrentNodes(mgr) = 0

\* The expansion is true for the inputs and the undefined initial state of a
\* trace if and only if the output is true somewhere along it.
ExpansionIsBounded ==
  unroll.pc = "done" =>
    LET a == unroll.model
        e == unroll.expansion
        \* The inputs of the expansion that a trace makes true.
        true(init, in) ==
          {i \in DOMAIN e.inputs :
             LET sym == e.inputs[i].name
             IN  IF \E j \in DOMAIN a.inputs : a.inputs[j].name = sym.name THEN sym.pos \in in[sym.slice + 1]
                 ELSE sym.slice = 0 /\ sym.pos \in init}
    IN  \A init \in InitialStates(a), in \in [1..(unroll.k + 1) -> InputSets(a)] :
          (Step(e, true(init, in), {}).outputs = {1})
             <=> \E t \in 0..unroll.k : RunOf(a, init, in)[t].step.outputs = {1}

\* With and without the optimization, the models of the CNF are the inputs for
\* which the output is true.
CnfIsEquisatisfiable ==
  script.pc = "solving" =>
    LET a == script.expansion
    IN  \A pg \in BOOLEAN :
          LET cnf == Aigtocnf(a, pg)
          IN  {{i \in DOMAIN a.inputs : Soltostim(a, cnf.vars, true)[i] = "1"} : true \in Models(cnf)}
                = {in \in InputSets(a) : Step(a, in, {}).outputs = {1}}

\* Whatever the unknown values of the stimulus, the output becomes true; if
\* no latch starts undefined.
WitnessIsValid ==
  script.pc = "done" /\ script.answer = "1" /\ FreeLatches(script.model) = {} =>
    LET a == script.model
    IN  \A in \in Groundings(script.stimulus), s \in InitialStates(a) :
          \E t \in 0..script.k : RunOf(a, s, in)[t].step.outputs = {1}

\* Several justice properties next to bad states, with fairness constraints:
\* then a property can be reported without fairness.
FairnessForgotten(a) == Len(a.justice) > 1 /\ a.bad # <<>> /\ a.fairness # <<>>

RunOfWitness(a, w) ==
  RunOf(a, {j \in DOMAIN w.init : w.init[j] = "1"},
        [t \in DOMAIN w.vectors |-> {i \in DOMAIN w.vectors[t] : w.vectors[t][i] = "1"}])

\* What aigbmc reports is shown by the trace that it prints.
ReportedIsShown ==
  bmc.pc # "idle" =>
    \A n \in DOMAIN bmc.printed :
      LET w == bmc.printed[n]
      IN  \A i \in DOMAIN w.props :
            \/ w.props[i].kind = "j" /\ FairnessForgotten(bmc.model)
            \/ Shows(bmc.model, RunOfWitness(bmc.model, w), w.props[i])

\* mc.sh and aigbmc answer at the first depth where there is something to find.
ImplementsSearch == Search!Spec

\* The simulator accepts all that aigbmc prints.
PrintedIsAccepted ==
  bmc.pc # "idle" /\ sim.pc = "exit" => sim.exit = "0" \/ FairnessForgotten(bmc.model)

\* aigsim -c accepts a trace exactly if it shows all that it is said to show.
CheckIsExact ==
  sim.pc \in {"next", "exit"} /\ sim.opts.check /\ sim.trace.claim = "1" /\ sim.exit # "died" =>
    ((sim.exit = "0")
       <=> \A p \in sim.expected : Shows(sim.model, RunOfWitness(sim.model, sim.trace), p))

\* What three-valued simulation knows is so for all values of what it does
\* not; a grounded simulation is that of zeros.
ThreeValuedSound ==
  sim.pc \in {"vectors", "exit"} /\ ~sim.opts.witness /\ sim.i > 0 =>
    LET a       == sim.model
        digit(ch) == IF ch = "x" /\ sim.opts.ground THEN "0" ELSE ch
        vectors == [t \in 1..sim.i |-> [j \in DOMAIN a.inputs |-> digit(sim.trace.vectors[t][j])]]
        starts  == {s \in InitialStates(a) : sim.opts.ground => s \cap FreeLatches(a) = {}}
    IN  \A init \in starts, in \in Groundings(vectors) :
          LET run == RunOf(a, init, in)
          IN  /\ \A b \in sim.bad : \E t \in DOMAIN run : b \in run[t].step.bad
              /\ ~sim.violated =>
                   \A j \in DOMAIN a.latches :
                     LET value == SimDeref(sim.current, a.latches[j].lit)
                     IN  value < 2 => (value = 1) = (j \in run[sim.i - 1].step.next)
              /\ sim.violated => ~SaneUntil(a, run, sim.i - 1)

\* Every check ends.
EveryCheckEnds == <>Ended

\* aigunroll and aigtocnf: the nodes of the expansion are counted, it is true
\* exactly for the bounded traces, and so is its CNF.
ExpansionIsExact == TypeOK /\ NodesCounted /\ ExpansionIsBounded /\ CnfIsEquisatisfiable

\* aigbmc and aigsim agree: what is reported is shown, and is accepted.
WitnessesAreShown == ReportedIsShown /\ PrintedIsAccepted

\* aigsim accepts exactly the witnesses, and knows only what is so.
SimulationIsExact == CheckIsExact /\ ThreeValuedSound
=============================================================================
