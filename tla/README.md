# A verification project for ic3

`ic3` decides whether a sequential circuit (an AIGER file) can reach an error.
It is a fork of IC3ref: about 1,700 lines of its own C++, linked with a
modified MiniSat and the AIGER library, and shipped with the AIGER tools, which
convert, combine, minimize, unroll, check and simulate the same files. Every
program is sequential. What makes them hard is not concurrency: long chains of legal
calls keep a few collections (frames, solvers, obligations, watch lists, a pool
of states, reference-counted nodes) consistent with each other; the answers of
the SAT solver (which model, which core) are not determined; recursive calls
change the frames under the caller; and programs that read and write each other's
files may be killed or refused by the system in between.

The modules here are TLA+, checked by TLC on small instances; theorems are
checked by TLAPS for every value of the constants. `PROJECT.json` maps each
definition to the lines it stands for.

## 1. The system

| Component | State | Operations | Talks to |
|---|---|---|---|
| Command line, `main.cpp` | options, the AIGER tables, the verdict | parse arguments, read the file, print | AIGER library, `modelFromAiger`, `IC3::check` |
| AIGER to Model, `Model.cpp:215-295` | `vars` under construction | `modelFromAiger`, `lit`, `var` | reads the AIGER tables, constructs a `Model` |
| Transition system, `Model.h`, `Model.cpp:1-214`, `Helpers.hpp` | variables (plain and primed), the AND table, the cached simplified CNF `sslv`, the cached initial solver | `primeVar`, `lockPrimes`, `loadTransitionRelation`, `loadInitialCondition`, `loadError`, `isInitial` | `SimpSolver`, and a `Solver` for each user |
| IC3 search, `IC3.cpp` | frontier `k`, frames with their cubes and solvers, obligation queue, `earliest`, `trivial`, the limits | `check`, `extend`, `strengthen`, `handleObligations`, `generalize`, `mic`, `ctgDown`, `addCube`, `propagate`, `consecution`, `stateOf` | the Model loads its solvers; the lifting solver |
| State pool, `IC3.cpp:352-390` | the vector `states` with a scan position | `newState`, `delState`, `resetStates`, `state` | the search refers to States by number, `consecution` by reference |
| SAT preprocessor, `SimpSolver.cc` | occurrence lists, subsumption queue, touched variables, elimination heap, removed clauses | `addClause_`, `eliminate`, `backwardSubsumptionCheck`, `eliminateVar`, `extendModel` | filled by `loadTransitionRelation` |
| CDCL solver, `Solver.cc` | trail, watches, learnt clauses, order heap, free variables | `newVar`, `addClause_`, `solve_`, `releaseVar`, `implies`, `toDimacs`, `interrupt` | one per frame, one for lifting, one for the initial states |
| AIGER library, `aiger.c` | tables of inputs, latches, gates and properties, symbols, `types` by variable | add, check, reencode, cone, read, write | everything that reads or writes a circuit |
| AIGER tools, `aig*.c`, `andtoaig.c` | two sets of tables, files | convert, strip, combine, flip, move properties, reset, miter, split, minimize (`aigdd`) | the library, files, and for `aigdd` another program |
| Bounded checking tools, `simpaig.c`, `aigunroll.c`, `aigtocnf.c`, `soltostim.c`, `wrapstim.c`, `mc.sh`, `aigbmc.c`, `aigsim.c` | the node manager with counts, the time frames, the incremental solver, three-valued values | expand, encode, translate solutions back, check, report, simulate | each other through files, exit codes and standard input; an external SAT solver |
| SMV translator, `smvtoaig.c` | the parse tree of a module, its simplifying AND graph, the classes of its symbols | parse, analyze, build, substitute, classify, encode, print | the library |
| MiniSat containers and front ends, other translators, build files | | | section 6 |

Who calls whom: `main` reads a file, `modelFromAiger` builds a `Model`, and
`IC3::check` runs the base cases and then major iterations `extend`, `strengthen`,
`propagate`. All of them pose queries to solvers that the Model loaded. The tools
are processes of their own; they meet in files.

What is hard, and what has to be right:

- **Search.** `mic` calls `ctgDown`, which blocks counterexamples to
  generalization by a nested `mic` and `addCube`: the frames change under the outer
  call. Inductiveness that was established earlier must survive that. A core
  may cover an initial state. Obligations move up and down in level. A wrong
  level, a lost CTI or a wrong fallback shows only iterations later, as a wrong
  verdict. Every loop must end.
- **Pool.** Numbers are reused, and the buffer moves.
- **Loading.** The Model's variables and the solver's must stay aligned while
  primed gates are created on demand; what the simplifier removes must not
  change the relation.
- **Preprocessor.** Three nested loops feed each other; clauses are changed in
  the list that is being walked; models must be extensible again.
- **Solver.** Watch lists are changed while they are walked; a reason may be
  removed while it is needed; what one query learns is used by all later ones, although
  variables are released and handed out again between them.
- **Front end.** Literals become positions, and an index picks one property of two
  tables.
- **AIGER files.** A file may break off or be wrong at any token. Binary files need
  an order of the literals that is made just before they are written.
- **Tools.** A program may be killed between two calls that change a file; `aigdd`
  decides by the exit code of another program what to keep; constraints that become
  latches must remember, not only observe.
- **Bounded checking.** A node that is counted once too little is freed while it is
  used. Two translations back find inputs and time frames by position and name.
  A property that was reported must be skipped, and a loop that was closed for one
  property must not count for another. A witness counts only if it shows its
  property whatever it leaves open.
- **SMV.** Ten functions call each other for the levels of the operators; rewriting
  rules apply to what other rules made; INIT and TRANS become latches that say
  whether the run so far was one of the model.

`PROJECT.json` lists these hazards at their lines with the properties for each.

## 2. The modules

| Module | Models | Composed with |
|---|---|---|
| `IC3Frames` | a circuit as next-state function, error and constraints; what the solvers are told (`Trans`, `LiftTrans`, `Initial`, `IsInitial`); what it means to be safe; abstract: what the search may do to its frames | |
| `IC3`, `IC3Properties` | the search | extends `IC3Frames` with everything else it keeps, and implements it; `Pool` |
| `Pool`, `StatePool` | the pool as numbered States, and the vector behind it | `StatePool` implements `Pool` |
| `Query` | abstract: what a user of a SAT solver relies on | |
| `CDCL`, `SolverUse` | the solver, and a user who calls it | `Clauses`, `Loops`; `SolverUse` implements `Query` |
| `Clauses`, `SimpSolver`, `Preprocessing` | clauses, the preprocessor, and a user who adds clauses and eliminates | |
| `AndGraph`, `TransitionRelation`, `Frontend`, `Loading` | the AND table, the Model's variables with `loadTransitionRelation`, `main` with `modelFromAiger`, and the way of a file through all of them | `SimpSolver` |
| `Aiger`, `AigerFile` | the tables of the library and what they mean, and files read and written item by item | `Loops` |
| `AigerTools`, `AigerSession`, `DeltaDebugger` | what each tool computes; the files, the system calls and the end of a program; `aigdd` | `Aiger` |
| `SmvToAig` | the parser of expressions, and the translator with its AND graph | `DeltaDebugger` (for the files) |
| `AigerToolsProperties` | what an SMV module means, and what the programs promise of the files that they write | the two rows above |
| `SimpAig`, `ScriptedChecker` | the node manager; `aigunroll`, and `mc.sh` with the programs between AIGs and CNFs | `Aiger` |
| `BoundedModelChecker`, `Simulator` | `aigbmc`, `aigsim` | `Aiger` |
| `BoundedSearch`, `BoundedChecking` | abstract: a search by depth; both checkers and the simulator together | `BoundedChecking` implements `BoundedSearch` |
| `IC3FramesProofs`, `StatePoolProofs`, `IC3Proofs`, `PreprocessingProofs`, `LoadingProofs` | proofs about the modules they are named after | |
| `CDCLProofs`, `CDCLSearchProofs`, `SolverUseProofs` | proofs about the solver: its tables, its search, and its answers | each extends the one before |
| `MC...` | small circuits, clause sets, files and modules | |

### IC3Frames

A cube is a set of literals, a state a full set of them; a solver of frame *i* is
the set of latch states it admits, so a query is a quantifier over
states and inputs. The first part of `IC3Frames` states what `loadTransitionRelation`,
`loadInitialCondition`, `loadError` and `isInitial` promise, with the differences
the code makes: the lifting solver has no primed constraints, and `isInitial`
compares literals unless there are constraints.

The second part has one action for each thing the search may do to the frames:
`AddFrame`, `Block`, `Cleanup`, `Push`, `Advance`, `Prove`, `Refute`. `Block` may be
done with any cube that excludes the initial states and is inductive relative to
the frame below.

### IC3

`IC3` extends `IC3Frames`: the frontier, the frames and the verdict are the same
variables, `IC3` adds what the search keeps beside them, and its own actions change
both. That each of them is a step of the discipline is the property
`FollowsDiscipline`. `pc` names the loop the program is in, `stack` holds the activations of `mic`
and `ctgDown` (cube, how far `mic` has come, attempts, CTG and join counters,
the States `ctgDown` owns). Between two steps lies at most one query. Each
action is one round of a loop: `Step0Reachability`, `Step1Reachability`,
`Extend`, `Strengthen`, `Strengthened` (the clean-up of `propagate`),
`FulfillObligation`, `PredecessorFound`, `ObligationsMet`, `TryDrop`, the rounds
of `ctgDown` (`DropCoversInitial`, `DropInductive`, `DropTooDeep`, `BlockCTG`,
`CTGBlocked`, `JoinCTG`), `Generalized`, `PropagateCube`, `KeepCube`,
`LevelDone`, `Returned`. Any model of a satisfiable query and any unsatisfiable
core may be chosen, and any order of the literals in a cube: the activity heuristic
and `-r` only pick among these. Statistics and output are left out.

### StatePool

`cells` is the vector `states`, `nextState` the scan position; `TakeCell`, `DelState` and
`ResetStates` come in any order. In `IC3` the pool is the function of
`Pool`; `ImplementsPool` connects the two. References into the vector are not modelled: the one that
is passed through calls (`handleObligations` hands `state(...).latches` to `consecution`)
is not read after `stateOf` may have moved the buffer, which is the order of the statements
of one function and no protocol.

### Query, CDCL and SolverUse

In `IC3` a query has a model or a core. `Query` is that promise for a user who adds
clauses, asks under assumptions and releases variables; `CDCL` is the solver
that keeps it. Its state is one record: clauses under numbers (their
addresses), `watches` with blockers, the trail with levels and reasons, the order
heap, the released and the free variables. `phase` names where `solve_` is:
propagating, after a conflict, deciding, between two restarts. A conflict is analyzed in
one step (`analyze`, `litRedundant`, backjump, the learnt clause); `reduceDB`,
`simplify` and a restart happen where the code has them, under any choice of the clauses
that are dropped. Another thread may set the interrupt flag at any time. A removed clause
leaves the watch lists at once, where the code waits for the next look at the list.
Loops are folds (`Loops`): over the watchers of a literal, the literals of a clause, the trail.
`SolverUse` makes the calls of a script: names of variables stay, numbers are
reused, so that an answer is compared with what the user meant. `ProperUse` says which scripts
keep to what the solver asks of its user.

### Clauses, SimpSolver, Preprocessing

`solver` is a record with the clauses in occurrence lists (`listed`), the
clauses in none (`loose`, which `Solver::addClause_` adds when it is called
through a base-class reference), the trail, the subsumption queue, the touched
variables, the heap and the stored clauses. `phase` names the loop `eliminate` is
in. Queues are sets: any order is allowed, which includes the program's.

### Loading

`Frontend` is `main` and `modelFromAiger`: arguments are options or numbers, files
are the tables the AIGER library fills, a lookup past the end of a table makes the
place `"undefined"`. `TransitionRelation` is the Model's constructor, which creates the primed
inputs and latches and the primed error and constraints, and `loadTransitionRelation`: it
freezes, walks the AND table backwards (`SkipRow`, `AddRow`), asserts the roots,
eliminates and copies. `Loading` runs both on one circuit: what the
command line asked for is what is loaded. `Intended` is evaluated from the gates
alone, `Obtained` from the clauses that were loaded.

### Aiger, AigerFile

`Aiger` has the tables with the operations of `aiger.c` (add, strip symbols, check,
reencode, cone, is reencoded); a literal is a number as in the code, and the
table `types` and the marks that a cycle check leaves are kept as they are.
Its last part says what an AIG means whatever its literals are: by the positions
of inputs, latches and properties. `AigerFile` reads a file item by item (an item
is a header, a line, a group of lines or a gate); while the rest of the file is `Open`, each step
takes whatever may come, so one behaviour is one file. Deltas are written and read digit by digit, with
the limits of the reader on their number and on the last one, and the width of the variable they are put
together in; a shift by more than that, which C leaves undefined, gives either of two results. Then the AIG is checked, written in
either mode and read again.

### AigerTools, AigerSession, DeltaDebugger

Each tool is the operator its `main` computes. `AigerSession` is the rest of the
program: reading, the checks before and after, the backup of `aigstrip`, opening (which empties
the file), writing, unlinking, the pieces of `aigsplit`. Renaming, opening and writing may fail. What is still in the
buffer may be lost when the file is closed, which no program notices (`AfterClose`; `aiger.c:1866-1869`), and a file
that is to be unlinked may stay (`Removed`). `Killed` may come between any two steps. `DeltaDebugger` has the
loops of `aigdd` with `stable`, `kept`, `delta` and `first`; the program it calls
is a CONSTANT operator from AIGs to exit codes.

### SmvToAig

A text is a sequence of tokens. `SmvToAig` begins with the recursive descent over
expressions, with the flags for `next()` and temporal operators as an argument.
Its second part is `new_aig` at the four levels of `-O`: one-level and two-level
rules, substitution and idempotence, again until none applies. The translator has one action for
each round of the loops over declarations, then `Analyze`, `BuildGraph`, `Substitute`, `ClassifyStates`, `Choueka`
and `PrintAig`; the file is opened and written by `AigerSession`. Nodes that are equal are the same, as the
unique table has it; which argument of a gate came first, and so the order of the gates, is left
out. The reference, a module as a graph of states, is in `AigerToolsProperties`.

### SimpAig, ScriptedChecker, BoundedModelChecker, Simulator

`SimpAig` keeps addresses, counts and the unique table of `simpaig.c`. `ScriptedChecker` begins with
`aigunroll`: it goes through the loops of `build`, `expand` and `main`, one step per round, so that the counts are
compared with the references between any two of them. The rest is `mc.sh`: its steps
are the programs it calls, and the exit code of each decides. `BoundedModelChecker` is
`aigbmc`: its solver answers with any trace that the clauses of `encode` admit. `Simulator` is
`aigsim` with the two bits per value. `BoundedChecking` lets the simulator read
what either checker leaves.

## 3. The runs

| Run | Question | Properties | States |
|---|---|---|---|
| `search_unsafe` | three latches, two inputs, a counterexample of five steps: does generalization stay inductive, do queue and pool agree, is the answer right, does the witness replay, and does the search follow the discipline? | `SearchStaysDefined`, `GeneralizedCubesAreInductive`, `ObligationsAreInOrder`, `VerdictIsRight`, `WitnessReplays`, `FollowsDiscipline` | 1,019 |
| `search_safe` | a circuit that only its constraint makes safe, with the constructor's limits: do the four invariants hold of the search's frames, is the answer right, and does it come? | `FrameInvariants`, `VerdictIsRight`, `EverySearchEnds` | 2,326 |
| `state_pool` | lowest free number, empty cells | `NextStateIsFree`, `ImplementsPool` | 781 |
| `preprocessing` | nine clauses over four variables, each subset, three frozen sets | `SolutionsAreKept`, `SubsumptionComplete`, `Progress` | 842,159 |
| `loading` | reencoded files and command lines of up to two arguments | `ModelIsTheFile`, `VariablesStayAligned`, `RelationIsLoaded` | 143,418 |
| `solver` | eleven scripts of calls, every decision, dropped clause, restart and interrupt | `TablesAgree`, `LearningIsSound`, `DerivedIsRight`, `SearchAdvances`, `AnswersRight` | 72,077 |
| `aiger_files` | nine headers with any small lines after them, breaking off anywhere | `ReaderIsExact`, `FilesAreReadBack`, `WritingKeepsMeaning` | 355,923 |
| `aiger_tools` | 3,996 combinations of files and command lines for thirteen programs | `FilesKeepTheirMeaning`, `PropertiesAreKept`, `BehaviourIsKept`, `DstKeepsFailing`, `EveryProgramEnds`, `ProgramIsRead`, `TranslationKeepsMeaning` | 323,496 |
| `bounded_checking` | 1,473 circuits, bounds, witnesses and stimuli | `ExpansionIsExact`, `WitnessIsValid`, `WitnessesAreShown`, `SimulationIsExact`, `ImplementsSearch`, `EveryCheckEnds` | 12,031 |
| `input_constraint_verdict` | *violated*: a constraint that reads an input | `VerdictOnInputIsRight` | |
| `gate_as_next_state` | *violated*: a gate that is only a next state | `LoadsTransitionRelation` | |
| `solver_reuse` | *violated*: literals that are released although their complements are in a clause | `AssertionsHold` | |

Several properties are conjunctions of named parts, one for each function or
program that they are about; the parts are stated before them, each with its own
comment, and most of the parts have a mutant: a definition changed as a plausible bug would
change it, for which TLC finds the property violated.

### Refinements

- `FollowsDiscipline`: each step of `IC3` is one of `IC3Frames` or leaves the
  frames alone. The variables of the discipline are variables of the search, so the
  refinement mapping is the identity and the property is `FramesSpec` itself. The discipline has
  no run of its own: what it promises in any order of its actions is proved (section 4), and the
  runs of the search take each of them.
- `ImplementsPool`: the vector with its scan position is the pool of numbers.
- `AnswersRight`: `SolverUse` implements `Query`, by the names the user gave.
- `ImplementsSearch`: `mc.sh` and `aigbmc` implement `BoundedSearch`, where the goal is
  the set of depths at which the circuit, evaluated directly, shows something.

### Several circuits in one run

`loading` chooses a file in its initial states, and so do the runs of the AIGER tools. A search has its circuit
as CONSTANTs, and so a configuration per circuit.

### Bounds

- Circuits of the search have three latches and up to two inputs, given as successor
  tables in `MCSearch`. They were picked so that the search meets CTIs several
  levels deep, CTGs that can be blocked, CTGs to join with, cubes that move and
  cubes that stay; every action fires. `Trace` is searched with small limits (`MaxCTGs = 1`,
  `MaxJoins = 1`, `MicAttempts = 2`) so that each limit is reached,
  `Forbidden` with the constructor's. Option `-b` sets three limits to 0: `ctgDown` then always
  gives up at its depth test, as the nested activations do.
- `MaxStates = 4` and two literals for the pool: the buffer moves three times
  and numbers are reused across moves.
- The clauses of `preprocessing` are a gate, a latch that takes its value, and clauses that
  subsume, shorten, fix and contradict these. `Grow = 0` and `ClauseLim = 20` are
  MiniSat's defaults.
- In `loading` two gates are enough for a gate that reads a gate, for priming both, and for
  gates that are and are not required.
- `solver`: `MaxVars = 7` variables at once, so that released ones must be handed out
  again; `RestartFirst = 1` (100 in the code) and `MaxRestarts = 3`, so that every search restarts;
  one interrupt. The scripts follow `consecution` (activation literal, clause, two queries,
  release), and add a pigeonhole formula for conflicts that need learning. `MCSolver` assumes of them what
  the theorems assume (`ProperUse`).
- `aiger_files`: digits of `DigitBits = 2` bits (7 in the code), numbers of `Width = 5` bits (32), `MaxDigits = 4`
  digits (6) and a last digit below `LastLimit = 2` (8) keep the continuation, the digit that is partly or wholly beyond the
  width, the last digit that is refused and the digit too many, with variables up to 4.
- `aiger_tools`: AIGs with one input, two latches and two gates in an order no binary
  file has, with every kind of property; traces of up to `MaxDepth = 2` further steps.
  SMV modules with two or three variables: every pair of operators below each other at every level of `-O`,
  and 864 combinations of `init`, `next`, INIT, TRANS, INVAR, FAIRNESS and a definition at
  `-O4`; 26 texts that break a rule of the language, one of which is overlooked (section 5).
- `bounded_checking`: `maxk` 2 or 3 with up to two latches: every latch that follows another
  one has shown its value by then.

### Fairness

The programs have one thread: as long as a loop has not ended its next round
runs. `FairSpec` of `IC3` therefore assumes weak fairness of the next step as a whole
and nothing about which model or core is chosen. `AigerToolsProperties` and
`BoundedChecking` state the same in the form `[]<>(nothing runs) \/ []<><<step>>_vars`:
a step is possible exactly as long as something runs, and spelled out
this way TLC does not have to evaluate ENABLED of every program on every state. It excludes
a program that stops for no reason, and nothing else: `aigdd` must still
end its loops, and a program that is killed is over. `Preprocessing` and `SolverUse` need no
fairness: `Progress` says that every step of `eliminate` lowers a
measure, `SearchAdvances` that between restarts every conflict and every decision gets ahead in a
lexicographic order (the restart intervals grow, which the bounded runs do not show).
Runs over programs that stop do not look for deadlock; the search and the pool do.

## 4. The proofs

`IC3FramesProofs` is about every circuit (any finite set of latches, any functions,
with or without constraints):

- `FramesTypeCorrect`, `FramesInvariant`, `SafeVerdict`: `FramesTypeOK`, `FrameInvariants`
  and `SafeVerdictIsSound` of `IC3Frames`. The inductive invariant `FramesInv` is their
  conjunction with `BaseCasesPassed`. `FrameInvariants` is needed for the verdict
  (when level *i* has no cube of its own, frames *i* and *i + 1* are equal, and
  the frame is a set closed under the circuit's steps without an error); `BaseCasesPassed`
  is needed for the frames 0 and 1, about which the search itself never asks. The only
  assumptions are those of `IC3Frames` on its constants.

`IC3Proofs` is about the search itself, for every circuit, every value of its limits,
and every choice of models, cores and literal orders:

- `VerdictCorrect` (`VerdictIsRight`), `WitnessIsRight` (`WitnessReplays`), `SearchImplementsFrames`
  (`FollowsDiscipline`), `GeneralizationIsSound`, `QueueIsInOrder`, `SearchIsDefined`.
- Their hypothesis is `ConstraintsReadLatches`: an invariant constraint does not depend
  on inputs. It cannot be dropped: the run `input_constraint_verdict` shows a wrong verdict
  without it. A circuit without constraints satisfies it, and so
  `UnconstrainedVerdict` has no hypothesis but that. `SearchIsDefined` also needs a live
  initial state: without one every cube passes `initiation`, and an empty core
  reaches the assertion of `HeuristicLitOrder::count`.
- The inductive invariant `SearchInv` has the frames' `FramesInv` and what holds where the
  control is (`Control`, `Idle`), the pool (`PoolInv`), the activations (`StackInv`) and the queue
  (`QueueInv`). The properties alone are not inductive. `Nesting` is needed because a nested `mic`
  works one level below the level its CTG was pushed to: only with that equation is the cube
  that `addCube` gets inductive there. `Ownership` (the States of a `ctgDown` call are in no obligation,
  in no other call, and no chain leads into them from outside) is needed because `delState` frees them.
  `Accounted` extends "each CTI is queued or excluded" to the time when
  an obligation is off the queue. `ObligationsAreDoomed` (every live state of an
  obligation's cube can be led to an error) is needed for the verdict "unsafe", together with the models
  of a query at level 0, which start in initial states.
- `WitnessIsRight` needs `TraceInv` as well: each State that no `ctgDown` call holds is
  linked to its successor under the inputs it keeps (`Linked`), and no chain of successors is a loop
  (`Acyclic`). A replay that meets no error would then be an injection of
  `Cardinality(DOMAIN states) + 1` numbers into the States (`ChainEnds`).
  `Replay` is a recursive function; what is said of it is proved by a least counterexample.

`StatePoolProofs` is about a pool of any size:

- `NextStateFree`, `PoolImplemented`: the inductive
  invariant joins `TypeOK`, `NextStateIsFree` (all cells before the scan position
  are used) and `FreeCellsAreEmpty` (without which a new State would inherit
  literals).

`PreprocessingProofs` is about the preprocessor for every finite set of finite clauses
(`PreprocessingAssumption`), every choice of frozen variables and every order of the queues:

- `PreprocessingKeepsSolutions` (`SolutionsAreKept`). The property compares sets of solutions, the
  inductive invariant `PreprocessingInv` speaks of one assignment at a time (`MeaningInv`): one that satisfies
  the given clauses is a model of the solver and of the resolvents still to be added (`Wanted`), and
  one of those, extended through the removed clauses, satisfies the given clauses and has
  changed eliminated variables only (`Faithful`). That covers the middle of an elimination, when the
  clauses of a variable are gone and some resolvents are not added yet. `StepsInv` is needed because subsumption is
  only sound while the clause that is compared is still known (`Known`: strengthening may
  have shortened it or made it an assignment).
- The lemmas under it: unit propagation finds nothing that the clauses do not imply (`Propagation`);
  `AddListedAdds`, `SubsumedRemoved` and `OtherStrengthened` say what each operation adds to or
  takes from the models; `StoredExtends` says that what is stored of a variable gives
  it a value for all removed clauses if the resolvents hold, whichever side was stored;
  `ExtendedBoth` that `extendModel` goes through what was removed later first.
- `SubsumptionIsComplete` (`SubsumptionComplete`). `ComparedInv`: of two clauses of which one says something about
  the other, the first is in the queue, being compared, or shares a variable with the touched ones (`Awaited`).
  A clause that is not compared with later ones is found by them through `touched`. An assignment that was looked at has
  no variable in a clause.
- `EliminateMakesProgress` (`Progress`): each step of the three loops makes `Measure` less. All that it
  needs beside `PreprocessingInv` is `ValuesAreChecked`. That a lexicographic order on eight numbers has
  no infinite descent is not stated, as "eventually" under fairness is out of reach.

`LoadingProofs` is about every file and every command line (`FrontendAssumption` only types
them), every size of circuit and every order of the simplification:

- `TypeCorrect`; `AlignedVariables` (`VariablesStayAligned`): the vector of the Model has grown by the
  primed inputs and latches and by one place for each gate that is primed (`ModelOK`), no gate is primed
  twice, and so the buffer that was doubled in the constructor has room for all. It needs a file with
  an input or a latch, as the doubling does.
- `ModelOfTheFile` (`ModelIsTheFile`): `FileValues`, which looks variables up as the file has them, and `Values`,
  which goes by position, agree on every gate (`FileValuesAre`, by induction over the gates). It needs
  `Reencoded`, which `modelFromAiger` takes for granted (section 5), `LookupsInRange` and a property.
- `LoadedRelation` (`RelationIsLoaded`). The property compares two sets of assignments when everything is
  done; the inductive invariant `LoaderInv /\ MeaningInv` says of every step on the way what the models of the
  clauses are. `AdmitsInv`: an assignment that agrees with a transition (`Agrees`: plain variables before, primed
  ones after it) satisfies all clauses and all resolvents to come. `NeedsInv`: a row that was visited and is
  needed has had its arguments marked as needed, primed or plain. `ForbidsInv`: if each next-state
  function is kept, all clauses in the occurrence lists are about frozen variables (`OnlyFrozen`), so nothing is
  resolved away and each model is one of the gates that are needed (`RowHolds`) and of the roots
  (`AssertionsHold`). `LoadedInv`: the copy has the clauses, the trail and, if asked for, the primed constraints.
  Back from a model to a transition, `PlacedValues` evaluates the gates twice by the same induction, at their plain
  and at their primed places.
- Both hypotheses of `LoadsFrozenRoots` are used: without kept next-state functions a gate is
  lost (run `gate_as_next_state`), and without a transition the trail may contradict itself,
  of which the copy keeps one literal (section 5).

`MCLoading` assumes of its files what these theorems assume (`ReencodedFiles`), so the run `loading`
covers their hypotheses.

`CDCLProofs`, `CDCLSearchProofs` and `SolverUseProofs` are about the solver for every capacity `MaxVars`, every
restart interval, every decision, dropped clause, restart and interrupt, and every set of
scripts in `ProperUse`:

- `SolverIsOK` is the inductive invariant, `SolverOK`: `Phased` says what holds of the tables in each phase, and `Attends`
  what they have to do with what the user said. `Books` are the tables: types, the trail with levels and
  reasons (`TrailOK`, `LevelsOK`, `ReasonsOK`), the heap, the free variables, and that nothing but literals in use is
  mentioned (`Within`). `WatchesOK` is about the watchers and their blockers: a blocker is in its clause, or
  it was trimmed off and is false for good (`BlockerOK`). That is the last part of `WatchedByFirstTwo`. What makes propagation complete is `AwakeTo(s, n)`: if one of the first *n*
  literals of the trail makes a watched literal false, the clause has a true literal that was assigned no later in
  level. It holds up to `qhead` at the top of the loop, up to where the last level begins at a conflict, and
  for the whole trail at a decision; without the levels in it a backjump would lose it. `TrimHolds`, the assertion of
  `removeSatisfied`, follows from it.
- `TablesAlwaysAgree` (`TablesAgree`), `LearningIsAlwaysSound` (`LearningIsSound`). The second needs what `analyze` keeps
  while it walks back over the trail (`Walking`: what was learnt so far, with the seen literals that are still to be
  resolved, is implied by the clauses) and that what `litRedundant` leaves out follows from the rest (`RedundantIs`).
- `AnswersAreRight` (`AnswersRight`), the refinement of `Query`: every step of the solver is a step of `Query` under
  `Promise`, or none. When a search finishes its model satisfies what was given, and
  the assumptions in its core contradict it (`analyzeFinal`); `AnswerOK` keeps that there is no answer before.
- `DerivedIsAlwaysRight` (`DerivedIsRight`): `implies` gives a set that is consistent, closed under the unit clauses there are, and
  made of literals that all solutions have; `toDimacs` writes clauses that have a model if and only if what was given
  has one with the assumptions, in spite of the renumbering, the dropped clauses and the units at level 0.
- `SearchAlwaysAdvances` (`SearchAdvances`): a decision opens a level that was not there; a conflict adds a
  literal at the level it goes back to and leaves those below alone (`BackKeeps`, `LearntOne`).

Their hypothesis, `ProperUse`, has what the code asks of its user: calls are about variables that were created and
not let go (`Solver.h:48`), no more of them than there is room for, and a literal is let go only if no
clause has its complement, as `consecution` does it with `~act` (`IC3.cpp:506, 555, 579`). The last is needed: the run
`solver_reuse` shows an assertion of the solver that fails without it. That names ascend is how the model tells a variable that was
handed out again from the one before.

Model-checked only, and why:

- `EverySearchEnds`, `EveryProgramEnds`, `EveryCheckEnds`: "eventually" under fairness is beyond the prover.
- Everything about the AIGER library, its tools and bounded checking: the meaning of AIGs and of SMV modules and the
  parser are RECURSIVE, and what they compute for every input would be an induction over data.

## 5. Where code and comments disagree

Shown by runs:

- `input_constraint_verdict`: `stateOf` lifts a CTI under inputs for which a
  constraint already fails in the states it drops. The cube may cover an
  initial state, and the fallback of `consecution` is that very cube. The search
  answers "safe" for an unsafe circuit. The soundness theorem for `IC3Frames`
  is not at fault: this step is not a step of the discipline, and the theorems about the
  search are about circuits whose constraints read latches alone.
- `gate_as_next_state`: `addAndGateToSolver` takes a `Minisat::Solver &`, so the
  gate clauses bypass the occurrence lists of the `SimpSolver`; elimination then
  drops a gate without resolving these clauses.
- `solver_reuse`: `removeSatisfied` takes false literals out of a clause, but a watcher of it may keep one as its
  blocker (`Solver.cc:611`). After `releaseVar` and `newVar` that literal may become true again, the clause is
  skipped, and the next `simplify` meets it with one of its first two literals false: the assertion of line 610
  fails. No build here turns assertions off for the solver. `ic3` itself releases only literals whose
  complement is in no clause; then every clause with the variable is satisfied and removed.

Met while modelling, and not given a run. Where a property would be violated it
leaves the case out by name, and its comment says so.

ic3 itself:

- `check` returns true for a proof; `main` prints 0 and "unsafe" for it, against the
  comment above (`main.cpp:60-63`).
- With `InputError` of `MCSearch` weakened to "b is true", the lifted cube may be empty,
  and `HeuristicLitOrder::count` fails its assertion (`IC3.cpp:201`, `pc = "aborted"`). The same
  may happen if no initial state satisfies the constraints, which is why `SearchIsDefined` assumes one.
- After a core reduction `mic` keeps its old position (`IC3.cpp:688`, `Realign`): a
  literal may never be tried although the comment at `IC3.cpp:648` says it "previously
  failed". This costs generality, not soundness.
- Two constraints that contradict each other are found contradictory by
  `addClause`, whose result nobody reads; the copy has no contradiction
  (`Model.cpp:84-121`). `LoadsFrozenRoots` leaves such constraints out.
- `lit` uses literals as positions, but the reader does not reencode ASCII files: a file
  whose latch is numbered before its input becomes another circuit (`Model.cpp:224`).
  The files of `MCLoading` are reencoded.
- The property index is compared with both tables although one is used
  (`Model.cpp:275`), and with none if both are empty, when `outputs[0]` of an
  empty table is read. `PropertyTables` of `MCLoading` leaves the latter out.
- `primeVar` uses a reference into `vars` after `push_back` (`Model.h:200`). The buffer does not
  move then, because the constructor doubled it when it pushed the first primed
  input or latch; a circuit that has neither is not covered.

The solver: `releaseVar` does nothing for a literal that has a value; then the variable is never free
again, and what the user let go stays in use.

The AIGER library: a binary file whose highest variable nothing defines cannot be read
again, as `aiger_is_reencoded` returns early for it (so `aigstrip` may lose
such a circuit, `HoleAtTheTop`); `aiger_add_reset` aborts on a reset that the reader
lets through (a number other than 0, 1 and the latch); the literals of justice properties are not
compared with `maxvar`; a delta may have one byte more than 32 bits need: the reader drops the bits of the fifth
byte that do not fit and shifts the sixth by 35 (`aiger.c:2312-2323`), which C leaves undefined; marks and `types` of
an earlier state survive.

The tools: no program looks at the result of `fclose` or `pclose` (`aiger.c:1866-1869`): when the disk is full, the end
of a file may be lost with success, and `aigstrip` then removes the backup (`aigstrip.c:92-94`; `FlushLost`, the one case that
`NothingLost` leaves out); `aigor` disjoins the *negation* of the first output with the others (`aigor.c:135`),
against its usage, "Disjunction of all outputs" (`aigor.c:34`; `OnlyFirst`); `aigreset` leaves the next state of an unflipped latch that names a flipped
one as it is (`ReadsFlipped`); `aigmove -r` drops bad states and constraints and `aigunconstraint`
fairness; `aigmiter` reads names past the end of a table if the counts
differ, and with `-c` compares resets before it reencodes; `aigflip` uses an
uninitialized name for named outputs; `aigtoaig` unlinks a file that it could not open; `aigtoblif`
ignores resets and properties.

Bounded checking: with two or more justice properties, bad states and fairness,
`aigbmc` may report a justice property without fairness (`FairnessForgotten`), it misses properties
whose depth is that of another one, and prints "2" without a property, on which
`aigsim -w` dies. `wrapstim` takes the initial value of an undefined latch for an input
although its usage calls the result "a valid stimulus file for the original model" (`WitnessIsValid`
is about circuits without such latches). `aigtocnf --no-pg` may write a zero within a clause. `aigsim`
dies at the end of every plain stimulus without ".", answers with an
uninitialized value for an empty file of witnesses, and reads no witness after a
violated constraint.

`smvtoaig`:

- If INIT is trivial and TRANS is not, variables without a class of their own start with 0: initial
  states are lost (`ZeroAtFirst`). Otherwise a latch without initial value takes the next state
  of an arbitrary state at its first step, so some of its values are lost too
  (`TranslationKeepsMeaning` claims one direction only).
- INIT that names a latch without initial value refers to a node without a number:
  an assertion fails, or literal 0 is printed in the default build without assertions
  (`Literal`; `InitNames`).
- The check that fairness constraints do not look too far ahead reads the first argument of the
  expression (`smvtoaig.c:1878`), so `FAIRNESS d` with `d := next(x)` passes.
- The "right associative" operators nest to the left: `a -> b -> c` is read as
  `(a -> b) -> c`. The comment at `smvtoaig.c:1262` gives `xor` and `xnor` the priority of
  `|`, the code gives each a level of its own. `ProgramIsRead` is about modules with brackets in both places.
- `a U b` outside a specification is built as `<->` without assertions. A temporal operator behind `!` passes the
  parser, which looks for it only where the operands of `&` begin (`smvtoaig.c:1243-1244`), and `!AG a` then makes
  `build_expr` read an argument that is not there (`CannotBuild`; `Overlooked`, left out of `ProgramIsRead`).

## 6. Not modelled

- `loadInitialCondition`, `loadError` and `isInitial` as clauses; `IC3Frames` has them as contracts.
- In the solver: activities and phases (any choice is allowed), relocation and
  garbage collection of the clause arena, memory limits. In the preprocessor: asymmetric branching,
  redundancy check and substitution (off or unused), interrupts. MiniSat's containers are sequences, sets and a
  priority queue; its command lines are not linked into ic3.
- In the AIGER library: bytes, text and the allocator.
- In `smvtoaig`: the scanner, LTLSPEC with the external `ltl2smv`, names that begin with `AIGER_`.
- `bliftoaig` repeats the AND graph of `smvtoaig` behind a parser of BLIF. `aigtoblif`, `aigtosmv`,
  `aigtodot`, `aignm` and `aiginfo` print the tables, `aigfuzz` makes up circuits, `aigdep`
  and `aigjoin` are unfinished.
- `aigsim` without a stimulus (random simulation). The SAT solvers of `aigbmc` and `mc.sh` are external.
- Logging, statistics, build scripts.

## 7. Plan

Done: `IC3Frames` and its proof, `IC3` with its refinement and its proof,
`StatePool` and its proof, the preprocessor and its proof, loading and its proof, the solver with its refinement and
its proof, the AIGER library, the tools, bounded checking with its refinement, the SMV translator.

To come, in this order:

1. Theorems: that a step of `BoundedSearch` never skips a depth, once the meaning of AIGs is a
   recursive function there.
2. `InitialCondition`: `loadInitialCondition` and `isInitial` as clauses over
   `AndGraph`, joined with the contract in `IC3Frames`; `lockPrimes` and the
   activation literals of `consecution` on the Model's variable numbers.
3. `bliftoaig` on top of the AND graph of `SmvToAig`, with its own parser and hierarchy.
4. MiniSat's heap (`Heap.h`) and clause allocator (`Alloc.h`), each against an abstract
   priority queue and an abstract map.
