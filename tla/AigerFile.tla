----------------------------- MODULE AigerFile -----------------------------
(***************************************************************************)
(* Reading and writing AIGER files.  A file is a sequence of items: the    *)
(* header, one item per line (its numbers), per group of lines (the        *)
(* literals of a justice property, the comments) or per binary gate (its   *)
(* two deltas).  The reader takes one item per step; while "rest" is Open  *)
(* the file has not been looked at any further and may go on with whatever *)
(* Offer allows there.                                                     *)
(***************************************************************************)
EXTENDS Aiger

Bits == INSTANCE Bitwise

CONSTANTS
  DigitBits,     \* of a digit of a delta: 7
  Width,         \* of a number: 32
  MaxDigits,     \* of a delta that is read: 6
  LastLimit,     \* above the last one of so many digits: 8
  Offer(_, _, _), \* items that may come where a table is due, given header and tables
  Open           \* the rest of a file that is not yet determined

VARIABLES
  phase,    \* "start", "reading", "done", "error", "abort", "written"
  header,   \* mode and counts
  rest,     \* items that are still to be read
  aig,      \* the tables
  sizes,    \* of the justice properties
  written   \* the tables that were written and the mode

vars == <<phase, header, rest, aig, sizes, written>>

Sections == <<"inputs", "latches", "outputs", "bad", "constraints", "sizes", "justice", "fairness", "ands">>

\* The fields of the header line, of which the last four may be missing.
Fields == <<"maxvar", "inputs", "latches", "outputs", "ands", "bad", "constraints", "justice", "fairness">>

NothingWritten == [mode |-> "none"]

Init ==
  /\ phase = "start"
  /\ header = [mode |-> "none"]
  /\ rest = Open
  /\ aig = AigerInit
  /\ sizes = <<>>
  /\ written = NothingWritten

\* The table the next item belongs to.
Have(section) == IF section = "sizes" THEN Len(sizes) ELSE Len(aig[section])
Wanted(section) == header[IF section = "sizes" THEN "justice" ELSE section]

Due ==
  LET open == {i \in DOMAIN Sections : Have(Sections[i]) < Wanted(Sections[i])}
  IN  IF open = {} THEN "symbols" ELSE Sections[CHOOSE i \in open : \A j \in open : i <= j]

Reading(section) == phase = "reading" /\ Due = section

Items(section) ==
  IF rest = Open THEN Offer(section, header, aig) ELSE {Head(rest)}

Consume ==
  /\ rest # <<>>
  /\ rest' = IF rest = Open THEN Open ELSE Tail(rest)

Error ==
  /\ phase' = "error"
  /\ UNCHANGED <<header, aig, sizes, written>>

Abort ==
  /\ phase' = "abort"
  /\ UNCHANGED <<header, aig, sizes, written>>

Accept(a) ==
  /\ aig' = a
  /\ UNCHANGED <<phase, header, sizes, written>>

-----------------------------------------------------------------------------
(* The digits of a delta, the lowest first; all but the last one are       *)
(* marked by Base.                                                         *)

Base == 2^DigitBits

WriteDeltaShort(n) ==
  LET tmp[i \in Nat] == IF i = 0 THEN n ELSE tmp[i - 1] \div Base
      last == CHOOSE i \in 0..n : tmp[i] <= Base /\ \A j \in 0..(i - 1) : tmp[j] > Base
  IN  [i \in 1..(last + 1) |-> IF i <= last THEN (tmp[i - 1] % Base) + Base ELSE tmp[last]]

WriteDelta(n) ==
  LET tmp[i \in Nat] == IF i = 0 THEN n ELSE tmp[i - 1] \div Base
      last == CHOOSE i \in 0..n : tmp[i] < Base /\ \A j \in 0..(i - 1) : tmp[j] >= Base
  IN  [i \in 1..(last + 1) |-> (tmp[i - 1] % Base) + (IF i <= last THEN Base ELSE 0)]

\* The code has an end, which comes before that of the file, and neither too
\* many digits nor a last one that is too large.
DeltaComplete(digits) ==
  /\ digits # <<>> /\ Len(digits) <= MaxDigits
  /\ \A i \in DOMAIN digits : digits[i] >= Base <=> i < Len(digits)
  /\ Len(digits) = MaxDigits => Last(digits) < LastLimit

\* What a digit may contribute: bits above the width are lost, and a shift by
\* the width or more, which is undefined, yields 0 or is one by the remainder.
ShiftedDigit(digit, shift) ==
  IF shift < Width THEN {(digit * 2^shift) % 2^Width} ELSE {0, digit * 2^(shift % Width)}

\* The numbers that a complete delta may be read as.
ReadDelta(digits) ==
  LET join(numbers, i) ==
        {Bits!|(n, d) : n \in numbers, d \in ShiftedDigit(digits[i] % Base, DigitBits * (i - 1))}
  IN  Through(join, {0}, [i \in DOMAIN digits |-> i])

-----------------------------------------------------------------------------
(* aiger_read_generic().                                                   *)

Count(counts, i) == IF i <= Len(counts) THEN counts[i] ELSE 0

HeaderOf(item) ==
  [f \in Range(Fields) |-> Count(item.counts, CHOOSE i \in DOMAIN Fields : Fields[i] = f)]
    @@ [mode |-> item.mode]

\* The inputs of a binary file are not listed.
ImplicitInputs(h) ==
  LET add(a, i) == AddInput(a, Var2Lit(i), NoName)
  IN  Through(add, [AigerInit EXCEPT !.maxvar = h.maxvar],
              IF h.mode = "aig" THEN [i \in 1..h.inputs |-> i] ELSE <<>>)

ReadHeader ==
  /\ phase = "start"
  /\ Consume
  /\ \E item \in Items("header") :
       LET h == HeaderOf(item)
       IN  IF \/ item.mode \notin {"aag", "aig"} \/ Len(item.counts) \notin 5..9
              \/ h.mode = "aig" /\ h.inputs + h.latches + h.ands # h.maxvar
           THEN Error
           ELSE /\ phase' = "reading"
                /\ header' = h
                /\ aig' = ImplicitInputs(h)
                /\ UNCHANGED <<sizes, written>>

InRange(l) == Lit2Var(l) <= aig.maxvar

\* A literal that may be defined now.
NewLiteral(l) == l > 0 /\ Sign(l) = 0 /\ InRange(l) /\ Definable(aig, l)

ReadInput ==
  /\ Reading("inputs")
  /\ Consume
  /\ \E line \in Items("inputs") :
       IF Len(line) = 1 /\ NewLiteral(line[1]) THEN Accept(AddInput(aig, line[1], NoName)) ELSE Error

\* In a binary file the literal of the latch is left out.
ReadLatch ==
  /\ Reading("latches")
  /\ Consume
  /\ \E line \in Items("latches") :
       LET binary  == header.mode = "aig"
           numbers == IF binary THEN <<Var2Lit(header.inputs + Len(aig.latches) + 1)>> \o line ELSE line
           lit     == numbers[1]
       IN  IF /\ Len(numbers) \in 2..3
              /\ binary \/ NewLiteral(lit)
              /\ InRange(numbers[2])
           THEN LET latch == AddLatch(aig, lit, numbers[2], NoName)
                IN  IF Len(numbers) = 2 THEN Accept(latch)
                    ELSE IF ResetAllowed(lit, numbers[3]) THEN Accept(AddReset(latch, lit, numbers[3]))
                    ELSE Abort
           ELSE Error

ReadLiteral ==
  /\ phase = "reading" /\ Due \in LiteralTables
  /\ Consume
  /\ \E line \in Items(Due) :
       IF Len(line) = 1 /\ InRange(line[1]) THEN Accept(AddLiteral(aig, Due, line[1], NoName)) ELSE Error

ReadSize ==
  /\ Reading("sizes")
  /\ Consume
  /\ \E line \in Items("sizes") :
       IF Len(line) = 1
       THEN /\ sizes' = Append(sizes, line[1])
            /\ UNCHANGED <<phase, header, aig, written>>
       ELSE Error

\* The literals of one property, whose range is not looked at.
ReadJustice ==
  /\ Reading("justice")
  /\ Consume
  /\ \E lits \in Items("justice") :
       IF Len(lits) = sizes[Len(aig.justice) + 1] THEN Accept(AddJustice(aig, lits, NoName)) ELSE Error

ReadAsciiAnd ==
  /\ Reading("ands") /\ header.mode = "aag"
  /\ Consume
  /\ \E line \in Items("ands") :
       IF Len(line) = 3 /\ NewLiteral(line[1]) /\ InRange(line[2]) /\ InRange(line[3])
       THEN Accept(AddAnd(aig, line[1], line[2], line[3]))
       ELSE Error

ReadBinaryAnd ==
  /\ Reading("ands") /\ header.mode = "aig"
  /\ Consume
  /\ \E code \in Items("ands") :
       LET lhs == MaxInputOrLatch(aig) + Var2Lit(Len(aig.ands) + 1)
       IN  IF ~DeltaComplete(code[1]) \/ ~DeltaComplete(code[2]) THEN Error
           ELSE \E d0 \in ReadDelta(code[1]), d1 \in ReadDelta(code[2]) :
                  IF d0 <= lhs /\ d1 <= lhs - d0
                  THEN Accept(AddAnd(aig, lhs, lhs - d0, lhs - d0 - d1))
                  ELSE Error

ReadSymbol ==
  /\ Reading("symbols")
  /\ Consume
  /\ \E symbol \in {item \in Items("symbols") : "pos" \in DOMAIN item} :
       IF /\ symbol.table \in NamedTables /\ symbol.pos \in DOMAIN aig[symbol.table]
          /\ aig[symbol.table][symbol.pos].name = NoName
       THEN Accept([aig EXCEPT ![symbol.table][symbol.pos].name = symbol.name])
       ELSE Error

Checked(a) ==
  /\ phase' = IF Passes(a) THEN "done" ELSE "error"
  /\ aig' = AigerCheck(a)
  /\ UNCHANGED <<header, sizes, written>>

ReadComments ==
  /\ Reading("symbols")
  /\ Consume
  /\ \E item \in {i \in Items("symbols") : "comments" \in DOMAIN i} :
       Checked(Through(AddComment, aig, item.comments))

EndOfFile ==
  /\ phase \in {"start", "reading"}
  /\ rest \in {Open, <<>>}
  /\ rest' = <<>>
  /\ IF phase = "reading" /\ Due = "symbols" THEN Checked(aig) ELSE Error

-----------------------------------------------------------------------------
(* aiger_write_generic().                                                  *)

\* The counts up to the last one that is not zero.
Counts(a) ==
  LET count(f) == IF f = "maxvar" THEN a.maxvar ELSE Len(a[f])
      last     == CHOOSE n \in 5..9 :
                    /\ n > 5 => count(Fields[n]) > 0
                    /\ \A i \in (n + 1)..9 : count(Fields[i]) = 0
  IN  [i \in 1..last |-> count(Fields[i])]

LiteralLines(a, table) == [i \in DOMAIN a[table] |-> <<a[table][i].lit>>]

LatchLineReset(latch, ascii) ==
  (IF ascii THEN <<latch.lit>> ELSE <<>>) \o <<latch.next>>
    \o (IF latch.reset = True THEN <<latch.reset>> ELSE <<>>)

LatchLine(latch, ascii) ==
  (IF ascii THEN <<latch.lit>> ELSE <<>>) \o <<latch.next>>
    \o (IF latch.reset # False THEN <<latch.reset>> ELSE <<>>)

AndItem(g, ascii) ==
  IF ascii THEN <<g.lhs, g.rhs0, g.rhs1>>
           ELSE <<WriteDelta(g.lhs - g.rhs0), WriteDelta(g.rhs0 - g.rhs1)>>

SymbolLines(a) ==
  LET table(t)   == [i \in DOMAIN a[t] |-> [table |-> t, pos |-> i, name |-> a[t][i].name]]
      all        == table("inputs") \o table("latches") \o table("outputs") \o table("bad")
                      \o table("constraints") \o table("justice") \o table("fairness")
      named(row) == row.name # NoName
  IN  SelectSeq(all, named)

FileOf(a, mode, stripped) ==
  LET ascii == mode = "aag"
  IN  <<[mode |-> mode, counts |-> Counts(a)]>>
        \o (IF ascii THEN LiteralLines(a, "inputs") ELSE <<>>)
        \o [i \in DOMAIN a.latches |-> LatchLine(a.latches[i], ascii)]
        \o LiteralLines(a, "outputs") \o LiteralLines(a, "bad") \o LiteralLines(a, "constraints")
        \o [i \in DOMAIN a.justice |-> <<Len(a.justice[i].lits)>>]
        \o [i \in DOMAIN a.justice |-> a.justice[i].lits]
        \o LiteralLines(a, "fairness")
        \o [i \in DOMAIN a.ands |-> AndItem(a.ands[i], ascii)]
        \o (IF stripped THEN <<>> ELSE SymbolLines(a))
        \o (IF stripped \/ a.comments = <<>> THEN <<>> ELSE <<[comments |-> a.comments]>>)

Write ==
  /\ phase = "done" /\ written = NothingWritten
  /\ \E mode \in {"aag", "aig"}, stripped \in BOOLEAN :
       LET a == Prepared(aig, mode)
       IN  /\ aig' = a
           /\ rest' = FileOf(a, mode, stripped)
           /\ written' = [mode |-> mode, stripped |-> stripped, aig |-> a]
  /\ phase' = "written"
  /\ UNCHANGED <<header, sizes>>

\* Another program opens the file that was written.
Reopen ==
  /\ phase = "written"
  /\ phase' = "start"
  /\ header' = [mode |-> "none"]
  /\ aig' = AigerInit
  /\ sizes' = <<>>
  /\ UNCHANGED <<rest, written>>

Next ==
  \/ ReadHeader \/ ReadInput \/ ReadLatch \/ ReadLiteral \/ ReadSize \/ ReadJustice
  \/ ReadAsciiAnd \/ ReadBinaryAnd \/ ReadSymbol \/ ReadComments \/ EndOfFile
  \/ Write \/ Reopen

Spec == Init /\ [][Next]_vars

-----------------------------------------------------------------------------
(* Properties.                                                             *)

\* Every member has its type, and each variable leads to the row defining it.
TypeOK ==
  /\ phase \in {"start", "reading", "done", "error", "abort", "written"}
  /\ DOMAIN aig = DOMAIN AigerInit
  /\ \A v \in DOMAIN aig.types :
       LET type == aig.types[v]
       IN  /\ type.table \in {"inputs", "latches", "ands"}
           /\ v <= aig.maxvar =>
                /\ type.idx \in DOMAIN aig[type.table]
                /\ LET row == aig[type.table][type.idx]
                   IN  v = Lit2Var(IF type.table = "ands" THEN row.lhs ELSE row.lit)
  /\ aig.marked \subseteq DOMAIN aig.types

\* Whatever the file is, aiger_check() finds no fault with what was read if
\* and only if every literal is defined once and no gate depends on itself.
CheckIsExact == Reading("symbols") => (Passes(aig) <=> WellFormed(aig))

\* Reencoding for a binary file renumbers the circuit and drops gates, but
\* positions, names and meaning are those that were read.
WritingKeepsMeaning ==
  [][phase = "done" /\ phase' = "written" =>
       /\ WellFormed(aig')
       /\ Meaning(aig)' = Meaning(aig)
       /\ Names(aig)' = Names(aig)]_vars

\* A file that was written is read again, to the same tables, ...
ReadBack ==
  written # NothingWritten /\ phase = "done" =>
    LET w == IF written.stripped THEN StripSymbols(written.aig) ELSE written.aig
    IN  \A f \in DOMAIN aig \ {"types", "marked"} : aig[f] = w[f]

\* ... unless it is binary and counts a variable that nothing defines.
Readable ==
  written # NothingWritten /\ phase \in {"error", "abort"} =>
    written.mode = "aig" /\ HoleAtTheTop(written.aig)

\* The reader keeps its types, and what aiger_check() passes is exactly what
\* has no fault.
ReaderIsExact == TypeOK /\ CheckIsExact

\* What was written, in either mode, can be read, and is then the same.
FilesAreReadBack == Readable /\ ReadBack
=============================================================================
