------------------------------ MODULE Frontend ------------------------------
(***************************************************************************)
(* main(): the options, reading the AIGER file, modelFromAiger(), the call *)
(* of IC3::check() and what is printed.  The AIGER library either reports  *)
(* an error or fills its tables, and check() answers whether the circuit   *)
(* is safe; both are taken as they come.                                   *)
(***************************************************************************)
EXTENDS AndGraph, Integers

CONSTANT Commands   \* an AIGER file on the standard input, and arguments

\* An option, or a number.
Argument == [option : {"-v", "-s", "-r", "-b"}, number : {0}] \cup [option : {"none"}, number : Nat]

\* The tables of the AIGER library that are used, all literals being numbers.
Tables ==
  [inputs : Seq(Nat), latches : Seq([lit : Nat, next : Nat, reset : Nat]),
   ands : Seq([lhs : Nat, rhs0 : Nat, rhs1 : Nat]),
   constraints : Seq(Nat), outputs : Seq(Nat), bad : Seq(Nat)]

ASSUME FrontendAssumption ==
  \A command \in Commands : command.file \in Tables /\ command.args \in Seq(Argument)

VARIABLES
  pc,       \* the next piece of main()
  argv,     \* arguments not looked at yet
  options,  \* propertyIndex, basic, random and verbose
  aig,      \* the tables of the AIGER library
  verdict,  \* what IC3::check() returned
  printed   \* the number printed, -1 for none

mainVars == <<pc, argv, options, aig, verdict, printed>>

NoCircuit == [inputs |-> 0, latches |-> 0, gates |-> <<>>, next |-> <<>>,
              error |-> <<0, TRUE>>, constraints |-> <<>>, init |-> {}]

DefaultOptions == [propertyIndex |-> 0, basic |-> FALSE, random |-> FALSE, verbose |-> 0]

MainInit ==
  /\ pc = "options"
  /\ \E command \in Commands : argv = command.args /\ aig = command.file
  /\ options = DefaultOptions
  /\ circuit = NoCircuit
  /\ verdict = FALSE
  /\ printed = -1

\* One round of the loop over the arguments.
ParseArg ==
  /\ pc = "options" /\ argv # <<>>
  /\ options' =
       CASE Head(argv).option = "-v" -> [options EXCEPT !.verbose = 2]
         [] Head(argv).option = "-s" -> [options EXCEPT !.verbose = IF @ > 1 THEN @ ELSE 1]
         [] Head(argv).option = "-r" -> [options EXCEPT !.random = TRUE]
         [] Head(argv).option = "-b" -> [options EXCEPT !.basic = TRUE]
         [] OTHER -> [options EXCEPT !.propertyIndex = Head(argv).number]
  /\ argv' = Tail(argv)
  /\ UNCHANGED <<pc, aig, circuit, verdict, printed>>

ReadFile ==
  /\ pc = "options" /\ argv = <<>>
  /\ pc' \in {"model", "failed"}
  /\ UNCHANGED <<argv, options, aig, circuit, verdict, printed>>

-----------------------------------------------------------------------------
(* modelFromAiger(), from AIGER literals 2v and 2v + 1 to variables.       *)

\* lit()
LitOf(l) == <<l \div 2, l % 2 = 0>>

AigerLits(ls) == [i \in DOMAIN ls |-> LitOf(ls[i])]

\* Is vars[l >> 1] one of the first n variables?
InRange(l, n) == l \div 2 < n

\* The positions of a file's tables in vars.
NumInputs(f) == Len(f.inputs)

\* Faulty form of LatchVar: the inputs are not counted.
LatchVarUnshifted(f, i) == i

LatchVar(f, i) == NumInputs(f) + i
GateVar(f, i) == NumInputs(f) + Len(f.latches) + i

\* Faulty form of ResetLits: a latch without a reset value starts at 1.
AllResets(f) == {<<LatchVar(f, i), f.latches[i].reset # 0>> : i \in DOMAIN f.latches}

\* The latches whose reset is 0 or 1; any other one leaves the latch open.
ResetLits(f) ==
  {<<LatchVar(f, i), f.latches[i].reset # 0>> : i \in {x \in DOMAIN f.latches : f.latches[x].reset < 2}}

\* The AIGER literals that are looked up once all variables are there.
LateLits(f) ==
  [i \in DOMAIN f.latches |-> f.latches[i].next] \o f.constraints \o f.outputs \o f.bad

\* Is every vars[l >> 1] there when it is read?  A gate comes right after
\* the variables before it, its arguments are looked up at once.
LookupsInRange(f) ==
  /\ \A i \in DOMAIN f.ands :
       InRange(f.ands[i].rhs0, GateVar(f, i) + 1) /\ InRange(f.ands[i].rhs1, GateVar(f, i) + 1)
  /\ \A i \in DOMAIN LateLits(f) : InRange(LateLits(f)[i], GateVar(f, Len(f.ands)) + 1)

\* Faulty form of BadIndex: the last index of each table is one too high.
BadIndexOffByOne(f, index) ==
  \/ f.bad # <<>> /\ Len(f.bad) < index
  \/ f.outputs # <<>> /\ Len(f.outputs) < index

\* "Bad property index specified."
BadIndex(f, index) ==
  \/ f.bad # <<>> /\ Len(f.bad) <= index
  \/ f.outputs # <<>> /\ Len(f.outputs) <= index

\* Faulty form of Properties: the outputs come first.
OutputsFirst(f) == IF f.outputs # <<>> THEN f.outputs ELSE f.bad

\* The table the property is taken from.
Properties(f) == IF f.bad # <<>> THEN f.bad ELSE f.outputs

Translated(f, err) ==
  [inputs      |-> NumInputs(f),
   latches     |-> Len(f.latches),
   gates       |-> [i \in DOMAIN f.ands |-> [rhs0 |-> LitOf(f.ands[i].rhs0), rhs1 |-> LitOf(f.ands[i].rhs1)]],
   next        |-> AigerLits([i \in DOMAIN f.latches |-> f.latches[i].next]),
   error       |-> LitOf(err),
   constraints |-> AigerLits(f.constraints),
   init        |-> ResetLits(f)]

\* A lookup outside of vars or of the property table reads what is not
\* there: whatever happens then is "undefined".
ModelFromAiger ==
  /\ pc = "model"
  /\ LET index == options.propertyIndex
     IN  IF ~LookupsInRange(aig)
         THEN pc' = "undefined" /\ UNCHANGED circuit
         ELSE IF BadIndex(aig, index)
         THEN pc' = "failed" /\ UNCHANGED circuit
         ELSE IF index >= Len(Properties(aig))
         THEN pc' = "undefined" /\ UNCHANGED circuit
         ELSE pc' = "check" /\ circuit' = Translated(aig, Properties(aig)[index + 1])
  /\ UNCHANGED <<argv, options, aig, verdict, printed>>

\* IC3::check(): true is a proof, false a counterexample.
Check ==
  /\ pc = "check"
  /\ verdict' \in BOOLEAN
  /\ pc' = "print"
  /\ UNCHANGED <<argv, options, aig, circuit, printed>>

PrintVerdict ==
  /\ pc = "print"
  /\ printed' = IF verdict THEN 0 ELSE 1
  /\ pc' = "done"
  /\ UNCHANGED <<argv, options, aig, circuit, verdict>>

-----------------------------------------------------------------------------
(* What the file says, whatever numbers its literals have.                 *)

Modelled == pc = "print"

\* The value of each variable of the file under a valuation of the Model's
\* inputs and latches, which are known by their positions.
FileValues(f, on) ==
  LET val[v \in Nat] ==
        IF \E i \in DOMAIN f.inputs : f.inputs[i] = 2 * v
        THEN (CHOOSE i \in DOMAIN f.inputs : f.inputs[i] = 2 * v) \in on
        ELSE IF \E i \in DOMAIN f.latches : f.latches[i].lit = 2 * v
        THEN LatchVar(f, CHOOSE i \in DOMAIN f.latches : f.latches[i].lit = 2 * v) \in on
        ELSE \E i \in DOMAIN f.ands :
               /\ f.ands[i].lhs = 2 * v
               /\ val[f.ands[i].rhs0 \div 2] = (f.ands[i].rhs0 % 2 = 0)
               /\ val[f.ands[i].rhs1 \div 2] = (f.ands[i].rhs1 % 2 = 0)
  IN  val

\* The inputs, the latches and the gates in this order and without holes, and
\* each gate after what it reads: as a binary file has them.
Reencoded(f) ==
  /\ \A i \in DOMAIN f.inputs : f.inputs[i] = 2 * i
  /\ \A i \in DOMAIN f.latches : f.latches[i].lit = 2 * LatchVar(f, i)
  /\ \A i \in DOMAIN f.ands :
       /\ f.ands[i].lhs = 2 * GateVar(f, i)
       /\ f.ands[i].rhs0 < f.ands[i].lhs /\ f.ands[i].rhs1 < f.ands[i].lhs

FileHolds(val, l) == val[l \div 2] = (l % 2 = 0)

\* The places of main() and the options keep their types.
MainTypeOK ==
  /\ pc \in {"options", "model", "check", "print", "done", "failed", "undefined"}
  /\ options.propertyIndex \in Nat /\ options.verbose \in 0..2
  /\ options.basic \in BOOLEAN /\ options.random \in BOOLEAN
  /\ circuit.init \subseteq LatchVars(circuit) \X BOOLEAN
  /\ printed \in -1..1 /\ (printed # -1 <=> pc = "done")

\* The Model means what the file means: under every valuation its next
\* states, its error and its constraints are those of the file, and so are
\* the values its latches start with (aiger/FORMAT:174-175: "The order of
\* the literals and the definitions of the AND gates is irrelevant").
SameCircuit ==
  Modelled =>
    /\ \A on \in SUBSET (InputVars(circuit) \cup LatchVars(circuit)) :
         LET val == Values(circuit, on)
             ref == FileValues(aig, on)
         IN  /\ \A i \in DOMAIN aig.latches :
                  Holds(val, circuit.next[i]) = FileHolds(ref, aig.latches[i].next)
             /\ \A i \in DOMAIN aig.constraints :
                  Holds(val, circuit.constraints[i]) = FileHolds(ref, aig.constraints[i])
    /\ \A i \in DOMAIN aig.latches, b \in BOOLEAN :
         (<<LatchVar(aig, i), b>> \in circuit.init) <=> (aig.latches[i].reset = IF b THEN 1 ELSE 0)

\* What is checked is the property the last number on the command line asks
\* for: a bad-state property if there are any, an output otherwise.
RequestedProperty ==
  Modelled =>
    LET table == IF aig.bad = <<>> THEN aig.outputs ELSE aig.bad
    IN  /\ options.propertyIndex < Len(table)
        /\ \A on \in SUBSET (InputVars(circuit) \cup LatchVars(circuit)) :
             Holds(Values(circuit, on), circuit.error)
               = FileHolds(FileValues(aig, on), table[options.propertyIndex + 1])

\* Nothing is read that is not there.
NothingUndefined == pc # "undefined"
=============================================================================
