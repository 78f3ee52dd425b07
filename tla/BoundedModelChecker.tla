------------------------ MODULE BoundedModelChecker ------------------------
(***************************************************************************)
(* aigbmc.  Its solver (PicoSAT, Lingeling) is external: a query is        *)
(* satisfied by any trace and any values of the auxiliary variables that   *)
(* the clauses of encode() allow; of these only the variables that say     *)
(* that a justice property is satisfied are read, and chosen here.  The    *)
(* clauses bound the auxiliary variables from above, so that each can be   *)
(* true in a model if and only if the operator named after it holds.       *)
(***************************************************************************)
EXTENDS Aiger

VARIABLE bmc

BmcIdle == [pc |-> "idle"]

\* Option -m takes the outputs for bad states if that loses nothing.
BmcModel(model, move) ==
  LET add(a, o) == AddLiteral(a, "bad", o.lit, NoName)
  IN  Reencode(IF move /\ Without(model, {"bad", "constraints"}) THEN Through(add, model, model.outputs) ELSE model)

BmcStart(model, move, nowitness, maxk) ==
  [pc |-> "search", file |-> model, move |-> move, model |-> BmcModel(model, move), nowitness |-> nowitness, maxk |-> maxk, k |-> 0,
   bad |-> {}, justice |-> {}, lines |-> <<>>, printed |-> <<>>]

NoProperties == Without(bmc.model, {"bad", "justice"})

AllReached == Cardinality(bmc.bad) + Cardinality(bmc.justice) = Len(bmc.model.bad) + Len(bmc.model.justice)

-----------------------------------------------------------------------------
(* The formula of the first k steps, as it constrains their run.           *)

SaneNow(model, run, t) == run[t].step.constraints = DOMAIN model.constraints

Sane(model, run, t) == \A u \in 0..t : run[u].step.constraints = DOMAIN model.constraints

\* Step t starts where the last one ends.
Join(run, t) == run[t].state = run[LastOf(run)].step.next

Loop(run, t) == \E u \in 0..t : Join(run, u)

\* Was a literal, true in the steps of "when", true on the loop by step t?
SeenAnywhere(run, when, t) ==
  LET sat[u \in 0..t] == (u > 0 /\ sat[u - 1]) \/ u \in when IN sat[t]

SeenOnLoop(run, when, t) ==
  LET sat[u \in 0..t] == /\ (u > 0 /\ sat[u - 1]) \/ u \in when
                         /\ (u > 0 /\ sat[u - 1]) \/ Loop(run, u)
  IN  sat[t]

JusticeSat(model, run, i) ==
  \A j \in DOMAIN model.justice[i].lits :
    SeenOnLoop(run, {t \in DOMAIN run : j \in run[t].step.justice[i]}, LastOf(run))

AllFair(model, run) ==
  \A i \in DOMAIN model.fairness :
    SeenOnLoop(run, {t \in DOMAIN run : i \in run[t].step.fairness}, LastOf(run))

OneBad(run) == run[LastOf(run)].step.bad \ bmc.bad # {}

\* Fairness is asked for only of the variable that says that one of several
\* justice properties is satisfied; with a single one, that is the same.
OneJustified(model, run, sat) == sat # {} /\ AllFair(model, run)

\* The justice properties whose variables are true and allowed to be.
JusticeChoices(model, run) ==
  LET can == {i \in DOMAIN model.justice \ bmc.justice : JusticeSat(model, run, i)}
  IN  {sat \in SUBSET can : Len(model.justice) = 1 /\ sat # {} => AllFair(model, run)}

Satisfied(model, run, sat) == OneBad(run) \/ OneJustified(model, run, sat)

\* The models under the assumption of step k: initial state, inputs, run, and
\* the justice variables that are true.
Solutions(model, k) ==
  {sol \in UNION {{[init |-> s, inputs |-> in, run |-> RunOf(model, s, in), sat |-> sat] :
                     sat \in JusticeChoices(model, RunOf(model, s, in))} :
                    s \in InitialStates(model), in \in [1..(k + 1) -> InputSets(model)]} :
     Sane(model, sol.run, k) /\ Satisfied(model, sol.run, sol.sat)}

-----------------------------------------------------------------------------
(* The loop of main().                                                     *)

Digits(set, domain) == [i \in domain |-> IF i \in set THEN "1" ELSE "0"]

\* What is printed for a model, in which all bad states are looked up.
WitnessOf(sol, bad) ==
  [claim   |-> "1",
   props   |-> [i \in 1..Cardinality(bad) |-> [kind |-> "b", pos |-> Ascending(bad)[i]]]
                 \o [i \in 1..Cardinality(sol.sat) |-> [kind |-> "j", pos |-> Ascending(sol.sat)[i]]],
   init    |-> Digits(sol.init, DOMAIN bmc.model.latches),
   vectors |-> [t \in DOMAIN sol.inputs |-> Digits(sol.inputs[t], DOMAIN bmc.model.inputs)]]

Searching == bmc.pc = "search" /\ ~NoProperties /\ ~AllReached /\ bmc.k <= bmc.maxk

BmcSat ==
  /\ Searching
  /\ \E sol \in Solutions(bmc.model, bmc.k) :
       LET bad == sol.run[bmc.k].step.bad \ bmc.bad
       IN  IF bmc.nowitness THEN bmc' = [bmc EXCEPT !.lines = Append(@, "1"), !.pc = "done"]
           ELSE bmc' = [bmc EXCEPT !.lines = Append(@, "1"), !.printed = Append(@, WitnessOf(sol, bad)),
                          !.bad = @ \cup bad, !.justice = @ \cup sol.sat, !.k = @ + 1]

BmcUnsat ==
  /\ Searching
  /\ Solutions(bmc.model, bmc.k) = {}
  /\ bmc' = [bmc EXCEPT
               !.lines = IF Len(bmc.model.bad) = 1 /\ bmc.model.justice = <<>> THEN Append(@, "u") ELSE @,
               !.k = @ + 1]

BmcEnd ==
  /\ bmc.pc = "search" /\ ~Searching
  /\ bmc' = [bmc EXCEPT !.pc = "done",
               !.lines = IF ~NoProperties /\ bmc.bad = {} /\ bmc.justice = {} THEN Append(@, "2") ELSE @]

BmcStep == BmcSat \/ BmcUnsat \/ BmcEnd
=============================================================================
