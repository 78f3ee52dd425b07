--------------------------- MODULE DeltaDebugger ---------------------------
(***************************************************************************)
(* aigdd: replaces literals of an AIG by constants and removes properties  *)
(* as long as another program exits as it does on the AIG it was given.    *)
(* job.stable is the literal each variable is replaced by, job.kept what   *)
(* is left of the properties, job.delta the number of variables that are   *)
(* tried together and job.first the first of them.                         *)
(***************************************************************************)
EXTENDS AigerSession

CONSTANTS
  Executable(_, _),  \* the exit code of a program for an AIG
  ReadError          \* its exit code for a file that cannot be read

ExitCode(program, file) == IF CanRead(file) THEN Executable(program, Reread(file.aig)) ELSE ReadError

\* What a literal is, once variables are replaced by constants.
Deref(a, unstable) ==
  LET val[v \in 0..a.maxvar] ==
        IF unstable[v] # Var2Lit(v) \/ ~IsAnd(a, Var2Lit(v)) THEN unstable[v]
        ELSE LET g  == RowOf(a, Var2Lit(v))
                 t0 == IF Sign(g.rhs0) = 0 THEN val[Lit2Var(g.rhs0)] ELSE Not(val[Lit2Var(g.rhs0)])
                 t1 == IF Sign(g.rhs1) = 0 THEN val[Lit2Var(g.rhs1)] ELSE Not(val[Lit2Var(g.rhs1)])
             IN  IF t0 = False \/ t1 = False THEN False
                 ELSE IF t0 = True THEN t1
                 ELSE IF t1 = True THEN t0
                 ELSE Var2Lit(v)
  IN  [l \in 0..Var2Lit(a.maxvar) + 1 |-> IF Sign(l) = 0 THEN val[Lit2Var(l)] ELSE Not(val[Lit2Var(l)])]

Rows(a, table, kept) == SelectSeq([i \in DOMAIN a[table] |-> <<i, a[table][i]>>], LAMBDA r : r[1] \in kept[table])

\* write_unstable(): the literals of a justice property are all taken from
\* the member "lit", which is zero.
Unstable(a, unstable, kept) ==
  LET deref           == Deref(a, unstable)
      stays(l)        == deref[l] = l
      inputs          == SelectSeq(a.inputs, LAMBDA s : stays(s.lit))
      latches         == SelectSeq(a.latches, LAMBDA s : stays(s.lit))
      ands            == SelectSeq(a.ands, LAMBDA g : stays(g.lhs))
      defs            == Copy([inputs  |-> inputs,
                               latches |-> [i \in DOMAIN latches |-> [latches[i] EXCEPT !.next = deref[@]]],
                               ands    |-> [i \in DOMAIN ands |-> [ands[i] EXCEPT !.rhs0 = deref[@], !.rhs1 = deref[@]]]])
      literal(d, t)   == LET rows == Rows(a, t, kept)
                         IN  CopyLiterals(d, t, [i \in DOMAIN rows |-> [rows[i][2] EXCEPT !.lit = deref[@]]])
      justice(d, r)   == AddJustice(d, [j \in DOMAIN r[2].lits |-> deref[0]], r[2].name)
  IN  literal(Through(justice, Through(literal, defs, <<"outputs", "bad", "constraints">>),
                      Rows(a, "justice", kept)), "fairness")

Dst == job.run.dst
Src == job.in[1]

\* The file that is written for some replacement.
Written(unstable, kept, name) ==
  LET a    == Unstable(Src, unstable, kept)
      mode == FileMode(name)
  IN  [mode |-> mode, aig |-> IF "-r" \in job.run.opts THEN Reencode(a) ELSE Prepared(a, mode)]

Removable == <<"outputs", "bad", "constraints", "justice", "fairness">>

\* The temporary file is written anew, and the program is run on it.
FailsOn(file) == {ExitCode(job.run.program, f) = job.expected : f \in AfterClose(file)}

StillFailsWithAll(unstable, kept) ==
  FailsOn(Written(unstable, [t \in DOMAIN kept |-> DOMAIN Src[t]], job.run.tmp))

\* Does the program still exit as expected on the temporary file?
StillFails(unstable, kept) == FailsOn(Written(unstable, kept, job.run.tmp))

Debugging(phase) == job.phase = phase /\ job.run.tool = "aigdd"

DebuggerStart ==
  /\ job = Idle /\ script # <<>> /\ Head(script).tool = "aigdd"
  /\ script' = Tail(script)
  /\ UNCHANGED disk
  /\ LET run  == Head(script)
         file == disk[run.src[1]]
         a    == Reread(file.aig)
     IN  IF ~CanRead(file) THEN Exit(run, <<>>, "read error")
         ELSE /\ job' = [phase    |-> "unlink dst", run |-> run, in |-> <<a>>, then |-> "compare",
                         expected |-> ExitCode(run.program, file),
                         stable   |-> [v \in 0..a.maxvar |-> Var2Lit(v)],
                         kept     |-> [t \in Range(Removable) |-> DOMAIN a[t]],
                         delta    |-> a.maxvar, first |-> 1, table |-> 1, row |-> 1]
              /\ ended' = Nothing

\* copy_stable_to_unstable_and_write_dst_name(): the old file goes first, if
\* it can be removed.
UnlinkDst ==
  /\ Debugging("unlink dst")
  /\ \E file \in Removed(disk[Dst]) : disk' = [disk EXCEPT ![Dst] = file]
  /\ GoTo("write dst")
  /\ UNCHANGED script

WriteDst ==
  /\ Debugging("write dst")
  /\ \E file \in AfterClose(Written(job.stable, job.kept, Dst)) : disk' = [disk EXCEPT ![Dst] = file]
  /\ GoTo(job.then)
  /\ UNCHANGED script

CompareCopy ==
  /\ Debugging("compare")
  /\ IF ExitCode(job.run.program, disk[Dst]) = job.expected
     THEN GoTo(IF job.delta = 0 THEN "constants done" ELSE "zero")
     ELSE Ends("differs")
  /\ UNCHANGED <<disk, script>>

\* The variables tried together.
Window == {v \in 1..Src.maxvar : v >= job.first /\ v < job.first + job.delta}

\* "changed" is what the code counts.
Zeros == [v \in DOMAIN job.stable |-> IF v \in Window THEN 0 ELSE job.stable[v]]
Ones  == [v \in DOMAIN job.stable |-> IF v \in Window /\ job.stable[v] # 0 THEN 1 ELSE job.stable[v]]

NextDeltaHalved(delta) == (delta + 1) \div 2

\* The next width after the last window, half of this one.
NextDelta(delta) == IF delta = 1 THEN 0 ELSE (delta + 1) \div 2

\* To the window after this one, or to narrower ones.
Slide(phase, stable) ==
  LET first == job.first + job.delta
      last  == first > Src.maxvar
      delta == IF last THEN NextDelta(job.delta) ELSE job.delta
      next  == IF delta = 0 THEN "constants done" ELSE "zero"
  IN  /\ job' = [job EXCEPT !.stable = stable, !.first = IF last THEN 1 ELSE first, !.delta = delta,
                            !.phase = IF phase = "write" THEN "unlink dst" ELSE next, !.then = next]
      /\ UNCHANGED ended

\* A file cannot be opened, or writing it fails and it is removed.
WriteFails ==
  /\ \/ /\ Debugging("write dst")
        /\ \E file \in {disk[Dst]} \cup Removed(Partial) : disk' = [disk EXCEPT ![Dst] = file]
     \/ /\ \/ Debugging("zero") /\ \E v \in Window : job.stable[v] # 0
           \/ Debugging("one") /\ \E v \in Window : job.stable[v] > 1
           \/ Debugging("rows") /\ job.table \in DOMAIN Removable /\ job.row \in DOMAIN Src[Removable[job.table]]
        /\ UNCHANGED disk
  /\ Ends("failed")
  /\ UNCHANGED script

TryZero ==
  /\ Debugging("zero")
  /\ IF \A v \in Window : job.stable[v] = 0 THEN Slide("skip", job.stable)
     ELSE \E fails \in StillFails(Zeros, job.kept) : IF fails THEN Slide("write", Zeros) ELSE GoTo("one")
  /\ UNCHANGED <<disk, script>>

TryOne ==
  /\ Debugging("one")
  /\ IF \E v \in Window : job.stable[v] > 1
     THEN \E fails \in StillFails(Ones, job.kept) :
            IF fails THEN Slide("write", Ones) ELSE Slide("skip", job.stable)
     ELSE Slide("skip", job.stable)
  /\ UNCHANGED <<disk, script>>

ConstantsDone ==
  /\ Debugging("constants done")
  /\ job' = [job EXCEPT !.phase = "unlink dst", !.then = "rows"]
  /\ UNCHANGED <<disk, script, ended>>

\* Removes one row, if the program still fails without it.
TryRow ==
  /\ Debugging("rows") /\ job.table \in DOMAIN Removable
  /\ LET t    == Removable[job.table]
         less == [job.kept EXCEPT ![t] = @ \ {job.row}]
     IN  IF Src[t] = <<>> THEN job' = [job EXCEPT !.table = @ + 1]
         ELSE IF job.row \in DOMAIN Src[t]
         THEN \E fails \in StillFails(job.stable, less) :
                job' = [job EXCEPT !.kept = IF fails THEN less ELSE @, !.row = @ + 1]
         ELSE job' = [job EXCEPT !.phase = "unlink dst", !.then = "rows", !.table = @ + 1, !.row = 1]
  /\ UNCHANGED <<disk, script, ended>>

DebuggerDone ==
  /\ Debugging("rows") /\ job.table \notin DOMAIN Removable
  /\ Ends("ok")
  /\ UNCHANGED <<disk, script>>

DebuggerNext ==
  \/ DebuggerStart \/ UnlinkDst \/ WriteDst \/ WriteFails \/ CompareCopy \/ TryZero \/ TryOne
  \/ ConstantsDone \/ TryRow \/ DebuggerDone
=============================================================================
