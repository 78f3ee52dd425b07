----------------------------- MODULE MCLoading -----------------------------
(***************************************************************************)
(* Small AIGER files with one input, one latch and one or two gates, and   *)
(* command lines of up to two arguments.                                   *)
(***************************************************************************)
EXTENDS Loading

And(lhs, rhs0, rhs1) == [lhs |-> lhs, rhs0 |-> rhs0, rhs1 |-> rhs1]

\* Reencoded, as a binary file is: the input 2, the latch 4, then the gates.
File(next, reset, ands, constraints, outputs, bad) ==
  [inputs |-> <<2>>, latches |-> <<[lit |-> 4, next |-> next, reset |-> reset]>>,
   ands |-> ands, constraints |-> constraints, outputs |-> outputs, bad |-> bad]

Arguments ==
  [option : {"-v", "-s", "-r", "-b"}, number : {0}] \cup [option : {"none"}, number : 0..2]

CommandLines == UNION {[1..n -> Arguments] : n \in 0..2}

\* The tables of a file that has at least one property.
PropertyTables ==
  {t \in [outputs : {<<>>, <<6>>, <<4, 9>>}, bad : {<<>>, <<7>>, <<8, 3>>}] :
     t.outputs # <<>> \/ t.bad # <<>>}

Given(f, lines) == {[file |-> f, args |-> line] : line \in lines}

\* Every command line with one file, every file with few command lines.
ManyCommands ==
  Given(File(8, 0, <<And(6, 5, 2), And(8, 7, 5)>>, <<7, 2>>, <<4, 9>>, <<7>>), CommandLines)
    \cup UNION {Given(File(next, reset, <<And(6, 5, 2), And(8, 7, 5)>>, constraints, t.outputs, t.bad),
                      {<<>>, <<[option |-> "none", number |-> 1]>>, <<[option |-> "none", number |-> 2]>>}) :
                  next \in {1, 3, 8}, reset \in {0, 1, 4}, constraints \in {<<>>, <<7, 2>>}, t \in PropertyTables}

\* A gate over input and latch, as next state, error or constraint.
OneGate ==
  {File(next, 0, <<And(6, 2, arg)>>, constraints, <<error>>, <<>>) :
     arg \in {4, 5}, next \in {0, 3, 6, 7}, error \in {0, 5, 6}, constraints \in {<<>>, <<2>>, <<7>>}}

\* The second gate reads the first one; both may be error and constraint,
\* so that their primed forms are built.
TwoGates ==
  {File(next, 0, <<And(6, 2, 5), And(8, 5, 6)>>, constraints, <<error>>, <<>>) :
     next \in {6, 9}, error \in {8, 6}, constraints \in {<<>>, <<9>>}}

AllCommands == ManyCommands \cup UNION {Given(f, {<<>>}) : f \in OneGate \cup TwoGates}

\* What the theorems about loading assume of the files holds for all of these.
ASSUME ReencodedFiles ==
  \A command \in AllCommands :
    /\ Reencoded(command.file) /\ LookupsInRange(command.file)
    /\ Properties(command.file) # <<>>
    /\ Len(command.file.inputs) + Len(command.file.latches) > 0

\* The next state is the gate of input and latch; nothing else reads it.
GateAsNextState == Given(File(6, 0, <<And(6, 2, 4)>>, <<>>, <<3>>, <<>>), {<<>>})
=============================================================================
