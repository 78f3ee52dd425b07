----------------------------- MODULE Simulator -----------------------------
(***************************************************************************)
(* aigsim, for a file with witnesses (-w, -c) or with a stimulus.  A value *)
(* is two bits, of which the high one says that it is unknown.  Printing   *)
(* and random simulation are left out.                                     *)
(***************************************************************************)
EXTENDS Aiger

Bits == INSTANCE Bitwise

VARIABLE sim

SimIdle == [pc |-> "idle"]

\* Outputs stand in for properties if there are none.
SimModel(model, move) ==
  LET add(a, o) == AddLiteral(a, "bad", o.lit, o.name)
  IN  Reencode(IF move \/ Without(model, {"bad", "justice"}) THEN Through(add, model, model.outputs) ELSE model)

Props(model) == {[kind |-> "b", pos |-> j] : j \in DOMAIN model.bad} \cup {[kind |-> "j", pos |-> j] : j \in DOMAIN model.justice}

NoTrace == [claim |-> "none", props |-> <<>>, init |-> <<>>, vectors |-> <<>>]

\* What is kept while one trace is simulated.
Fresh(model) ==
  [current  |-> [v \in 0..model.maxvar |-> 0], i |-> 0, states |-> <<>>, bad |-> {}, violated |-> FALSE,
   fair     |-> [j \in DOMAIN model.fairness |-> 0],
   justice  |-> [j \in DOMAIN model.justice |-> [l \in DOMAIN model.justice[j].lits |-> 0]]]

SimStart(model, opts, file) ==
  LET a == SimModel(model, opts.move)
  IN  [pc |-> "next", model |-> a, opts |-> opts, file |-> file, trace |-> NoTrace, expected |-> {},
       proved |-> [p \in Props(a) |-> "open"], exit |-> "none"] @@ Fresh(a)

\* "x" is 0 if the simulation is grounded.
ValueOf(ch) == IF ch = "1" THEN 1 ELSE IF ch = "x" /\ ~sim.opts.ground THEN 2 ELSE 0

SimDeref(current, lit) == Bits!^^(current[Lit2Var(lit)], Sign(lit))

Exit(code) == sim' = [sim EXCEPT !.pc = "exit", !.exit = code]

\* The latches at the start, as the witness or the resets say.
ResetValues(model, ground) ==
  [j \in DOMAIN model.latches |->
     IF model.latches[j].reset <= 1 THEN model.latches[j].reset ELSE IF ground THEN 0 ELSE 2]

WithLatches(current, model, values) ==
  [v \in DOMAIN current |->
     IF IsLatch(model, Var2Lit(v)) THEN values[model.types[v].idx] ELSE current[v]]

-----------------------------------------------------------------------------
(* The lines before the vectors.                                           *)

\* Stops on a property that was claimed before to hold no trace; a claim that
\* there is none for a property that had one is not noticed.
Inconsistent(w) == w.claim = "1" /\ \E i \in DOMAIN w.props : sim.proved[w.props[i]] = "0"

Malformed(w) ==
  \/ w.claim \notin {"0", "1", "2"} \/ w.props = <<>>
  \/ \E i \in DOMAIN w.props : w.props[i] \notin Props(sim.model)

InvalidInit(w) ==
  \E j \in DOMAIN sim.model.latches :
    LET reset == sim.model.latches[j].reset
    IN  reset <= 1 /\ w.init[j] # (IF reset = 1 THEN "1" ELSE "0")

Claimed(w) ==
  [p \in DOMAIN sim.proved |-> IF w.claim # "2" /\ p \in Range(w.props) THEN w.claim ELSE sim.proved[p]]

SimWitness ==
  /\ sim.pc = "next" /\ sim.opts.witness /\ sim.file # <<>>
  /\ LET w == Head(sim.file)
     IN  IF Malformed(w) \/ Inconsistent(w) \/ (w.claim = "1" /\ InvalidInit(w)) THEN Exit("died")
         ELSE sim' = Fresh(sim.model) @@
                [sim EXCEPT !.file = Tail(@), !.trace = w, !.proved = Claimed(w),
                            !.expected = IF w.claim = "2" THEN {} ELSE Range(w.props),
                            !.pc = IF w.claim = "1" THEN "initial" ELSE "next",
                            !.exit = "0"]

SimInitial ==
  /\ sim.pc = "initial"
  /\ sim' = [sim EXCEPT !.pc = "vectors",
               !.current = WithLatches(@, sim.model, [j \in DOMAIN sim.model.latches |-> ValueOf(sim.trace.init[j])])]

SimStimulus ==
  /\ sim.pc = "next" /\ ~sim.opts.witness
  /\ sim' = [sim EXCEPT !.pc = "vectors", !.trace = [NoTrace EXCEPT !.vectors = sim.file],
               !.current = WithLatches(@, sim.model, ResetValues(sim.model, sim.opts.ground))]

\* Of an empty file the program returns a variable that was never set.
SimNoMore ==
  /\ sim.pc = "next" /\ sim.opts.witness /\ sim.file = <<>>
  /\ \E code \in IF sim.exit = "none" THEN {"0", "1"} ELSE {sim.exit} : Exit(code)

-----------------------------------------------------------------------------
(* One vector.                                                             *)

\* What is unknown stays unknown, unless the other argument is false.
And3OneWay(l, r) == Bits!|(Bits!&(l, r), Bits!&(l, 2 * r))

And3(l, r) == Bits!|(Bits!|(Bits!&(l, r), Bits!&(l, 2 * r)), Bits!&(r, 2 * l))

Simulated(model, current, inputs) ==
  LET with == [v \in DOMAIN current |->
                 IF IsInput(model, Var2Lit(v)) THEN inputs[model.types[v].idx] ELSE current[v]]
      gate(c, g) == [c EXCEPT ![Lit2Var(g.lhs)] = And3(SimDeref(c, g.rhs0), SimDeref(c, g.rhs1))]
  IN  Through(gate, with, model.ands)

StampedFirst(stamps, lits, current, i) ==
  [j \in DOMAIN stamps |-> IF SimDeref(current, lits[j]) = 1 /\ stamps[j] = 0 THEN i ELSE stamps[j]]

Stamped(stamps, lits, current, i) ==
  [j \in DOMAIN stamps |-> IF SimDeref(current, lits[j]) = 1 THEN i ELSE stamps[j]]

LatchValues(model, current) == [j \in DOMAIN model.latches |-> SimDeref(current, model.latches[j].lit)]

\* A broken constraint ends the trace before anything else is looked at.
SimVector ==
  /\ sim.pc = "vectors" /\ sim.i < Len(sim.trace.vectors)
  /\ LET model  == sim.model
         i      == sim.i + 1
         vector == sim.trace.vectors[i]
         now    == Simulated(model, sim.current, [j \in DOMAIN vector |-> ValueOf(vector[j])])
         next   == [j \in DOMAIN model.latches |-> SimDeref(now, model.latches[j].next)]
         lits(rows) == [j \in DOMAIN rows |-> rows[j].lit]
     IN  IF \E j \in DOMAIN model.constraints : SimDeref(now, model.constraints[j].lit) = 0
         THEN sim' = [sim EXCEPT !.current = now, !.i = i, !.violated = TRUE, !.pc = "verdict"]
         ELSE sim' = [sim EXCEPT
                !.i       = i,
                !.fair    = Stamped(@, lits(model.fairness), now, i),
                !.justice = [j \in DOMAIN @ |-> Stamped(@[j], model.justice[j].lits, now, i)],
                !.states  = Append(@, LatchValues(model, now)),
                !.bad     = @ \cup {j \in DOMAIN model.bad : SimDeref(now, model.bad[j].lit) = 1},
                !.current = WithLatches(now, model, next)]

\* A stimulus has no line with a dot, at which the loop would end.
SimEnd ==
  /\ sim.pc = "vectors" /\ sim.i = Len(sim.trace.vectors)
  /\ IF sim.opts.witness THEN sim' = [sim EXCEPT !.pc = "verdict"] ELSE Exit("died")

-----------------------------------------------------------------------------
(* The end of a trace.                                                     *)

\* The first time point whose state comes back at the end, if from there on
\* everything fair was true at least once.
LoopPointsUnfair == {t \in DOMAIN sim.states : sim.states[t] = LatchValues(sim.model, sim.current)}

LoopPoints ==
  {t \in DOMAIN sim.states : /\ sim.states[t] = LatchValues(sim.model, sim.current)
                             /\ \A j \in DOMAIN sim.fair : sim.fair[j] >= t}

Shown ==
  LET points    == IF sim.violated THEN {} ELSE LoopPoints
      loop      == CHOOSE t \in points : \A u \in points : t <= u
      justified == {j \in DOMAIN sim.justice :
                      points # {} /\ \A l \in DOMAIN sim.justice[j] : sim.justice[j][l] >= loop}
  IN  [looped |-> points # {},
       props  |-> {[kind |-> "b", pos |-> j] : j \in sim.bad} \cup {[kind |-> "j", pos |-> j] : j \in justified}]

SimVerdict ==
  /\ sim.pc = "verdict"
  /\ LET needsLoop == \E p \in sim.expected : p.kind = "j"
         pass      == sim.expected \subseteq Shown.props /\ (needsLoop => Shown.looped)
         code      == IF pass \/ ~sim.opts.check THEN "0" ELSE "1"
     IN  IF \E p \in Shown.props : sim.proved[p] = "0" THEN Exit("died")
         ELSE IF code = "0" /\ ~sim.violated
         THEN sim' = [sim EXCEPT !.pc = "next", !.exit = code]
         ELSE Exit(code)

SimStep ==
  \/ SimWitness \/ SimInitial \/ SimStimulus \/ SimNoMore \/ SimVector \/ SimEnd \/ SimVerdict
=============================================================================
