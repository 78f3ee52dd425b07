---------------------------- MODULE AigerSession ----------------------------
(***************************************************************************)
(* A user runs the AIGER programs one after the other on files.  A program *)
(* reads all of its input first; then it opens its output, which empties   *)
(* the file, and writes it.  The calls to the system that open, write,     *)
(* rename and remove files may fail, and the program may be killed between *)
(* any two of them.  What is still in a buffer when a file is closed may   *)
(* be lost as well, and no program asks.  A file whose end is missing is   *)
(* one that the reader refuses, as it does unless only names are missing.  *)
(***************************************************************************)
EXTENDS AigerTools

CONSTANTS
  Setups,      \* what the files hold and the command lines that the user gives
  AsciiFiles,  \* the names that end in .aag
  Backup(_)    \* the name with a "~" after it

VARIABLES
  disk,    \* what each file holds
  script,  \* the command lines that are still to be run
  job,     \* the running program and where it is
  ended    \* the program that ended last, what it had read, and its exit

sessionVars == <<disk, script, job, ended>>

Absent == [mode |-> "absent"]
Partial == [mode |-> "partial"]
Idle == [phase |-> "idle"]
Nothing == [status |-> "none"]

\* What the reader accepts; a binary file must define every variable.
CanRead(file) == file.mode \in {"aag", "aig"} /\ ~(file.mode = "aig" /\ HoleAtTheTop(file.aig))

\* The reader enters the rows into new tables.
Reread(a) ==
  LET defines(table, i) == Lit2Var(IF table = "ands" THEN a[table][i].lhs ELSE a[table][i].lit)
      entries == UNION {{[table |-> t, idx |-> i] : i \in DOMAIN a[t]} : t \in {"inputs", "latches", "ands"}}
  IN  [a EXCEPT !.types = [v \in {defines(e.table, e.idx) : e \in entries} |->
                             CHOOSE e \in entries : defines(e.table, e.idx) = v],
                !.marked = {}]

FileMode(name) == IF name \in AsciiFiles THEN "aag" ELSE "aig"

\* Does the program go on after reading?
Allowed(run, in) ==
  CASE run.tool = "aigand"          -> AigandAllowed(in[1])
    [] run.tool = "aigflip"         -> AigflipAllowed(in[1])
    [] run.tool = "aigmove"         -> AigmoveAllowed(in[1], "-i" \in run.opts, "-r" \in run.opts)
    [] run.tool = "aigunconstraint" -> AigunconstraintAllowed(in[1])
    [] run.tool = "aigreset"        -> AigresetAllowed(in[1], "-c" \in run.opts)
    [] run.tool = "aigmiter"        -> AigmiterAllowed(in[1], in[2], "-c" \in run.opts)
    [] run.tool = "andtoaig"        -> Passes(Andtoaig(AndsFrom(run.lines).aig))
    [] OTHER                        -> TRUE

Undefined(run, in) ==
  CASE run.tool = "aigflip"  -> AigflipUndefined(in[1])
    [] run.tool = "aigmiter" -> AigmiterUndefined(in[1], in[2])
    [] run.tool = "andtoaig" -> ~AndsFrom(run.lines).ok
    [] OTHER                 -> FALSE

Output(run, in) ==
  CASE run.tool = "aigtoaig"        -> IF "-s" \in run.opts THEN StripSymbols(in[1]) ELSE in[1]
    [] run.tool = "aigstrip"        -> StripSymbols(in[1])
    [] run.tool = "aigand"          -> Aigand(in[1])
    [] run.tool = "aigor"           -> Aigor(in[1])
    [] run.tool = "aigflip"         -> Aigflip(in[1])
    [] run.tool = "aigmove"         -> Aigmove(in[1], "-r" \in run.opts)
    [] run.tool = "aigunconstraint" -> Aigunconstraint(in[1])
    [] run.tool = "aigreset"        -> Aigreset(in[1], IF "-1" \in run.opts THEN True ELSE False)
    [] run.tool = "aigmiter"        -> Aigmiter(in[1], in[2], "-c" \in run.opts)
    [] run.tool = "andtoaig"        -> Andtoaig(AndsFrom(run.lines).aig)

\* The properties in an order in which aigsplit may write them.
Pieces(run, a) ==
  LET orders(table) == SplitOrders(Len(a[table]), "-r" \in run.opts, run.lim)
      pieces(table, order) == [i \in DOMAIN order |-> [table |-> table, pos |-> order[i]]]
  IN  {pieces("outputs", o) \o pieces("bad", b) \o pieces("justice", j) :
         o \in orders("outputs"), b \in orders("bad"), j \in orders("justice")}

PieceFile(run, piece) == run.dst \o piece.table \o ToString(piece.pos)

Exit(run, in, status) ==
  /\ ended' = [run |-> run, in |-> in, status |-> status]
  /\ job' = Idle

GoTo(phase) == job' = [job EXCEPT !.phase = phase] /\ UNCHANGED ended

Ends(status) == Exit(job.run, job.in, status)

SessionInit ==
  /\ \E setup \in Setups : disk = setup.disk /\ script = setup.script
  /\ job = Idle
  /\ ended = Nothing

-----------------------------------------------------------------------------

Session(run) == run.tool \notin {"aigdd", "smvtoaig"}

Start ==
  /\ job = Idle /\ script # <<>> /\ Session(Head(script))
  /\ script' = Tail(script)
  /\ UNCHANGED disk
  /\ LET run == Head(script)
         in  == [k \in DOMAIN run.src |-> Reread(disk[run.src[k]].aig)]
     IN  IF \E k \in DOMAIN run.src : ~CanRead(disk[run.src[k]]) THEN Exit(run, <<>>, "read error")
         ELSE IF Undefined(run, in) THEN Exit(run, in, "undefined")
         ELSE IF ~Allowed(run, in) THEN Exit(run, in, "refused")
         ELSE /\ ended' = Nothing
              /\ IF run.tool = "aigsplit"
                 THEN \E pieces \in Pieces(run, in[1]) :
                        job' = [phase |-> "next", run |-> run, in |-> in, todo |-> pieces, file |-> "", out |-> in[1]]
                 ELSE job' = [phase |-> IF run.tool = "aigstrip" THEN "rename" ELSE "open",
                              run |-> run, in |-> in, todo |-> <<>>, file |-> run.dst, out |-> Output(run, in)]

RenameNot ==
  /\ job.phase = "rename"
  /\ GoTo("open")
  /\ UNCHANGED <<disk, script>>

\* aigstrip moves its input out of the way.
Rename ==
  /\ job.phase = "rename"
  /\ \/ /\ disk' = [disk EXCEPT ![Backup(job.file)] = disk[job.file], ![job.file] = Absent]
        /\ GoTo("open")
     \/ UNCHANGED disk /\ Ends("failed")
  /\ UNCHANGED script

Open ==
  /\ job.phase = "open"
  /\ \/ disk' = [disk EXCEPT ![job.file] = Partial] /\ GoTo("write")
     \/ UNCHANGED disk /\ GoTo("failed")
  /\ UNCHANGED script

\* What an open file may hold in the end if all is written before it is
\* closed, and if something is not: the result of fclose() is not looked at.
AfterClose(file) == {file, Partial}

\* The file is removed, if that is possible.
Removed(file) == {Absent, file}

Write ==
  /\ job.phase = "write"
  /\ \/ /\ LET mode == FileMode(job.file)
           IN  \E file \in AfterClose([mode |-> mode, aig |-> Prepared(job.out, mode)]) : disk' = [disk EXCEPT ![job.file] = file]
        /\ CASE job.run.tool = "aigstrip" -> GoTo("unlink")
             [] job.run.tool = "aigsplit" -> GoTo("next")
             [] OTHER                     -> Ends("ok")
     \/ /\ \E file \in Removed(Partial) : disk' = [disk EXCEPT ![job.file] = file]
        /\ GoTo("failed")
  /\ UNCHANGED script

\* aigtoaig removes what it could not write, even if it could not open it.
WriteFailed ==
  /\ job.phase = "failed"
  /\ IF job.run.tool = "aigstrip" THEN UNCHANGED disk /\ GoTo("restore")
     ELSE /\ \E file \in IF job.run.tool = "aigtoaig" THEN Removed(disk[job.file]) ELSE {disk[job.file]} :
               disk' = [disk EXCEPT ![job.file] = file]
          /\ Ends("failed")
  /\ UNCHANGED script

\* aigstrip removes its copy; that it cannot is no failure.
Unlink ==
  /\ job.phase = "unlink"
  /\ \/ disk' = [disk EXCEPT ![Backup(job.file)] = Absent]
     \/ UNCHANGED disk
  /\ Ends("ok")
  /\ UNCHANGED script

Restore ==
  /\ job.phase = "restore"
  /\ \/ disk' = [disk EXCEPT ![job.file] = disk[Backup(job.file)], ![Backup(job.file)] = Absent]
     \/ UNCHANGED disk
  /\ Ends("failed")
  /\ UNCHANGED script

\* aigsplit turns to its next property.
NextPiece ==
  /\ job.phase = "next"
  /\ IF job.todo = <<>> THEN Ends("ok")
     ELSE LET piece == Head(job.todo)
              file  == PieceFile(job.run, piece)
          IN  IF "-f" \notin job.run.opts /\ disk[file] # Absent THEN Ends("failed")
              ELSE /\ job' = [job EXCEPT !.phase = "open", !.todo = Tail(@), !.file = file,
                                         !.out = Aigsplit(job.in[1], piece.table, piece.pos)]
                   /\ UNCHANGED ended
  /\ UNCHANGED <<disk, script>>

Killed ==
  /\ job # Idle
  /\ Ends("killed")
  /\ UNCHANGED <<disk, script>>

SessionNext ==
  \/ Start \/ Rename \/ Open \/ Write \/ WriteFailed \/ Unlink \/ Restore \/ NextPiece \/ Killed
=============================================================================
