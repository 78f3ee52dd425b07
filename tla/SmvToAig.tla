------------------------------ MODULE SmvToAig ------------------------------
(***************************************************************************)
(* smvtoaig: translates a flat SMV module over Booleans into an AIG.       *)
(* job.program is what has been parsed; job.graph what is built from it:   *)
(* for some symbols the initial and the next value, the parts of the model *)
(* and the classes of the symbols.  A file with an SMV text is a sequence  *)
(* of tokens.  Names that begin with AIGER_ and LTLSPEC are left out.      *)
(***************************************************************************)
EXTENDS DeltaDebugger

-----------------------------------------------------------------------------
(* The recursive descent over the tokens of an expression.  An expression  *)
(* is a record of its tag and its arguments; the parser answers with the   *)
(* expression and the position after it, or with Wrong.                    *)

Op(tag, args) == [tag |-> tag, args |-> args]
Sym(name) == [tag |-> "symbol", args |-> <<>>, name |-> name]
TrueExpr == Op("1", <<>>)

\* What perr() ends with.
Wrong == [at |-> 0, expr |-> TrueExpr]
Parsed(at, expr) == [at |-> at, expr |-> expr]

\* is_temporal_operator(): also those that take two operands.
TemporalOperators == {"AG", "F", "G", "H", "O", "X", "Y", "Z", "S", "T", "U", "V"}

Tokens ==
  {"&", ":", "!", "1", "|", "0", "ASSIGN", ":=", "boolean", "case", "DEFINE", "esac", "<->", "->",
   "init", "INIT", "INVAR", "MODULE", "next", "!=", "=", "(", ")", ";", "SPEC", "TRANS", "VAR", "FAIRNESS", "xor",
   "xnor", "<EOF>"} \cup TemporalOperators

IsSymbol(token) == token \notin Tokens

Token(text, i) == IF i \in DOMAIN text THEN text[i] ELSE "<EOF>"

\* The position after one token, or after a few, if they are there.
Eat(text, i, expected) ==
  IF i > 0 /\ \A k \in DOMAIN expected : Token(text, i + k - 1) = expected[k] THEN i + Len(expected) ELSE 0

\* "|" would bind more than "&".
LevelsOrFirst == <<"->", "<->", "xnor", "xor", "&", "|", "U", "V", "S", "T">>

\* The binary operators, the one that binds least first, and those for which
\* parse_right_associative() is called.
Levels == <<"->", "<->", "xnor", "xor", "|", "&", "U", "V", "S", "T">>
RightAssociative == {"->", "U", "V", "S", "T"}

\* parse_right_associative() nests to the left, parse_left_associative() to
\* the right.
Nested(op, operands) ==
  LET both(l, r) == Op(op, <<l, r>>)
  IN  IF op \in RightAssociative THEN FoldLeft(both, Head(operands), Tail(operands))
      ELSE FoldRight(both, Front(operands), Last(operands))

\* An operator above an expression that has been parsed.
Under(tag, inner) == IF inner.at = 0 THEN Wrong ELSE Parsed(inner.at, Op(tag, <<inner.expr>>))

NestedFrom(op, chain) == IF chain.at = 0 THEN Wrong ELSE Parsed(chain.at, Nested(op, chain.exprs))

Equated(l, r, tag) ==
  LET equal == Op("<->", <<l.expr, r.expr>>)
  IN  IF r.at = 0 THEN Wrong ELSE Parsed(r.at, IF tag = "=" THEN equal ELSE Op("!", <<equal>>))

\* The bracket that ends an expression.
Closed(text, inner) ==
  IF Eat(text, inner.at, <<")">>) = 0 THEN Wrong ELSE Parsed(inner.at + 1, inner.expr)

\* The first position from i on that is not a negation.
AfterNegations(text, i) ==
  CHOOSE k \in i..(Len(text) + 1) : Token(text, k) # "!" /\ \A j \in i..(k - 1) : Token(text, j) = "!"

RECURSIVE ParseLevel(_, _, _, _), Operands(_, _, _, _), ParseTemporal(_, _, _), ParseBasic(_, _, _), Clauses(_, _, _)

\* parse_implies() to parse_ltl_triggered().  "allowed" says whether next()
\* and temporal operators are; the latter are only looked for where an
\* operand of "&" starts.  An even number of negations leaves none.
ParseLevel(level, text, i, allowed) ==
  IF level \notin DOMAIN Levels
  THEN LET start == AfterNegations(text, i)
       IN  IF (start - i) % 2 = 0 THEN ParseTemporal(text, start, allowed)
           ELSE Under("!", ParseTemporal(text, start, allowed))
  ELSE IF Levels[level] = "U" /\ Token(text, i) \in TemporalOperators /\ "temporal" \notin allowed THEN Wrong
  ELSE NestedFrom(Levels[level], Operands(level, text, i, allowed))

\* The operands of one operator of that level.
Operands(level, text, i, allowed) ==
  LET first  == ParseLevel(level + 1, text, i, allowed)
      others == Operands(level, text, first.at + 1, allowed)
  IN  IF first.at = 0 \/ Token(text, first.at) # Levels[level] THEN [at |-> first.at, exprs |-> <<first.expr>>]
      ELSE [at |-> others.at, exprs |-> <<first.expr>> \o others.exprs]

ParseExpr(text, i, allowed) == ParseLevel(1, text, i, allowed)

\* parse_eq(), after its first operand.
ParseEq(text, l, allowed) ==
  IF l.at = 0 \/ Token(text, l.at) \notin {"=", "!="} THEN l
  ELSE Equated(l, ParseBasic(text, l.at + 1, allowed), Token(text, l.at))

\* What is after a temporal operator may be negated, but is no more.
ParseTemporal(text, i, allowed) ==
  IF Token(text, i) \in TemporalOperators
  THEN Under(Token(text, i), ParseLevel(Len(Levels) + 1, text, i + 1, allowed))
  ELSE ParseEq(text, ParseBasic(text, i, allowed), allowed)

\* An expression in brackets, after the tokens before it.
Bracketed(text, i, before, allowed) ==
  IF Eat(text, i, before) = 0 THEN Wrong ELSE Closed(text, ParseExpr(text, i + Len(before), allowed))

ParseNext(text, i, allowed) ==
  IF "next" \notin allowed THEN Wrong ELSE Under("next", Bracketed(text, i, <<"next", "(">>, allowed \ {"next"}))

NoClauses == [at |-> 0, clauses |-> <<>>]

\* One clause, and those after it.
AndClauses(lhs, rhs, more) == [at |-> more.at, clauses |-> <<Op(":", <<lhs.expr, rhs.expr>>)>> \o more.clauses]

ClausesAfter(text, lhs, rhs, allowed) ==
  IF Eat(text, rhs.at, <<";">>) = 0 THEN NoClauses ELSE AndClauses(lhs, rhs, Clauses(text, rhs.at + 1, allowed))

ClauseOf(text, lhs, allowed) ==
  IF Eat(text, lhs.at, <<":">>) = 0 THEN NoClauses
  ELSE ClausesAfter(text, lhs, ParseExpr(text, lhs.at + 1, allowed), allowed)

\* The clauses up to "esac".
Clauses(text, i, allowed) ==
  IF Token(text, i) = "esac" THEN [at |-> i + 1, clauses |-> <<>>]
  ELSE ClauseOf(text, ParseExpr(text, i, allowed), allowed)

CaseOf(found) == IF found.clauses = <<>> THEN Wrong ELSE Parsed(found.at, Op("case", found.clauses))

ParseBasic(text, i, allowed) ==
  LET token == Token(text, i)
  IN  CASE i = 0               -> Wrong
        [] i > 0 /\ token \in {"0", "1"} -> Parsed(i + 1, Op(token, <<>>))
        [] i > 0 /\ IsSymbol(token)      -> Parsed(i + 1, Sym(token))
        [] i > 0 /\ token = "next"       -> ParseNext(text, i, allowed)
        [] i > 0 /\ token = "case"       -> CaseOf(Clauses(text, i + 1, allowed))
        [] i > 0 /\ token = "("          -> Bracketed(text, i, <<"(">>, allowed)
        [] OTHER                         -> Wrong

-----------------------------------------------------------------------------
(* The AND graph.  An edge is a node and whether it is negated; a node is  *)
(* the constant, a symbol in the present state (slice 0) or in the next    *)
(* one (slice 1), or a gate with its two edges.  Equal nodes are the same, *)
(* as the unique table of the program has it; which of the edges of a gate *)
(* was created first is left out.                                          *)

TrueAig == [neg |-> FALSE, of |-> [one |-> 1]]
FalseAig == [neg |-> TRUE, of |-> [one |-> 1]]
SymbolAig(symbol, slice) == [neg |-> FALSE, of |-> [symbol |-> symbol, slice |-> slice]]
Gate(a, b) == [neg |-> FALSE, of |-> [args |-> {a, b}]]

NotAig(e) == [e EXCEPT !.neg = ~@]
StrippedAig(e) == [e EXCEPT !.neg = FALSE]

IsConstant(e) == e \in {TrueAig, FalseAig}
IsGate(e) == "args" \in DOMAIN e.of

\* A symbol stands for its own arguments where two levels are looked at.
Args(e) == IF IsGate(e) THEN e.of.args ELSE {StrippedAig(e)}

Other(e, x) == CHOOSE y \in Args(e) : y # x

-----------------------------------------------------------------------------
(* new_aig(), up to the level of optimization: the rules answer with the   *)
(* edge that they find, if they find one.                                  *)

OneLevel(a, b) ==
  CASE FalseAig \in {a, b} \/ a = NotAig(b) -> {FalseAig}
    [] a = b                                -> {a}
    [] TrueAig \in {a, b} /\ a # b          -> {a, b} \ {TrueAig}
    [] OTHER                                -> {}

\* Contradiction, idempotence and subsumption of b by a gate a.
Asymmetric(a, b) ==
  CASE NotAig(b) \in Args(a)       -> {IF a.neg THEN b ELSE FalseAig}
    [] b \in Args(a) /\ ~a.neg     -> {a}
    [] OTHER                       -> {}

\* Contradiction and subsumption of two gates, and resolution.
Symmetric(a, b) ==
  LET clash == {x \in Args(a) : NotAig(x) \in Args(b)}
  IN  IF a.neg /\ b.neg THEN {NotAig(x) : x \in IF clash = {} THEN {} ELSE Args(a) \cap Args(b)}
      ELSE IF clash = {} THEN {}
      ELSE {CASE a.neg -> b [] b.neg -> a [] OTHER -> FalseAig}

TwoLevel(a, b) ==
  IF Asymmetric(a, b) # {} THEN Asymmetric(a, b)
  ELSE IF Asymmetric(b, a) # {} THEN Asymmetric(b, a)
  ELSE Symmetric(a, b)

\* A gate loses what the other operand, or one of its arguments, tells.
SubstitutesKept(a, b) ==
  IF a.neg /\ IsGate(a) /\ b \in Args(a) THEN {Other(a, b)}
  ELSE IF a.neg /\ IsGate(a) /\ ~b.neg /\ IsGate(b) THEN {NotAig(Other(a, x)) : x \in Args(a) \cap Args(b)}
  ELSE {}

Substitutes(a, b) ==
  IF a.neg /\ IsGate(a) /\ b \in Args(a) THEN {NotAig(Other(a, b))}
  ELSE IF a.neg /\ IsGate(a) /\ ~b.neg /\ IsGate(b) THEN {NotAig(Other(a, x)) : x \in Args(a) \cap Args(b)}
  ELSE {}

\* Two gates share an argument.
Idempotent(a, b) ==
  IF ~a.neg /\ IsGate(a) /\ ~b.neg /\ IsGate(b) THEN {Other(a, x) : x \in Args(a) \cap Args(b)} ELSE {}

\* The operands that are tried instead.
Replaced(optimize, a, b) ==
  IF optimize < 3 THEN {}
  ELSE IF Substitutes(a, b) # {} THEN Substitutes(a, b) \X {b}
  ELSE IF Substitutes(b, a) # {} THEN {a} \X Substitutes(b, a)
  ELSE IF optimize = 4 THEN Idempotent(a, b) \X {b}
  ELSE {}

Simplified(optimize, a, b) ==
  IF OneLevel(a, b) # {} THEN OneLevel(a, b)
  ELSE IF optimize >= 2 THEN TwoLevel(a, b)
  ELSE {}

Some(S) == CHOOSE x \in S : TRUE

RECURSIVE AndAig(_, _, _)
AndAig(optimize, a, b) ==
  IF Simplified(optimize, a, b) # {} THEN Some(Simplified(optimize, a, b))
  ELSE IF Replaced(optimize, a, b) # {}
  THEN LET pair == Some(Replaced(optimize, a, b)) IN AndAig(optimize, pair[1], pair[2])
  ELSE Gate(a, b)

OrAig(o, a, b) == NotAig(AndAig(o, NotAig(a), NotAig(b)))
XorAig(o, a, b) == AndAig(o, NotAig(AndAig(o, a, b)), NotAig(AndAig(o, NotAig(a), NotAig(b))))
ImpliesAig(o, a, b) == NotAig(AndAig(o, a, NotAig(b)))
IffAig(o, a, b) == AndAig(o, ImpliesAig(o, a, b), ImpliesAig(o, b, a))
IteAig(o, c, t, e) == AndAig(o, ImpliesAig(o, c, t), ImpliesAig(o, NotAig(c), e))

-----------------------------------------------------------------------------

\* The graph of an edge built again, with edges in the place of some leaves.
RECURSIVE Rebuilt(_, _, _)
Rebuilt(optimize, e, leaf) ==
  LET node == IF IsGate(e)
              THEN LET l == Some(Args(e))
                   IN  AndAig(optimize, Rebuilt(optimize, l, leaf), Rebuilt(optimize, Other(e, l), leaf))
              ELSE IF e.of \in DOMAIN leaf THEN leaf[e.of] ELSE StrippedAig(e)
  IN  IF IsConstant(e) THEN e ELSE IF e.neg THEN NotAig(node) ELSE node

\* The nodes of a graph, and those of them that are symbols.
RECURSIVE Nodes(_)
Nodes(e) == IF IsGate(e) THEN {e.of} \cup UNION {Nodes(x) : x \in Args(e)} ELSE {e.of} \ {TrueAig.of}

Leaves(e) == {n \in Nodes(e) : "symbol" \in DOMAIN n}

\* next_aig(): the present state becomes the next one.
NextAig(optimize, e) ==
  Rebuilt(optimize, e, [n \in Leaves(e) |-> SymbolAig(n.symbol, n.slice + 1)])

-----------------------------------------------------------------------------
(* The translator.                                                         *)

NoProgram ==
  [declared |-> {}, def |-> <<>>, init |-> <<>>, next |-> <<>>,
   SPEC |-> <<>>, INIT |-> <<>>, TRANS |-> <<>>, INVAR |-> <<>>, FAIRNESS |-> <<>>]

Translating(phase) == job.phase = phase /\ job.run.tool = "smvtoaig"

Text == job.in[1]

Has(program, table, name) == name \in DOMAIN program[table]

-----------------------------------------------------------------------------
(* The parser of the declarations: one action for one step of its loops.   *)

ParsesTo(at, program) ==
  /\ job' = [job EXCEPT !.at = at, !.program = program]
  /\ UNCHANGED ended

TranslatorStart ==
  /\ job = Idle /\ script # <<>> /\ Head(script).tool = "smvtoaig"
  /\ script' = Tail(script)
  /\ UNCHANGED disk
  /\ LET run  == Head(script)
         file == disk[run.src[1]]
     IN  IF file.mode # "smv" \/ ~(Len(file.text) >= 2 /\ file.text[1] = "MODULE" /\ file.text[2] = "main")
         THEN Exit(run, <<>>, "read error")
         ELSE /\ job' = [phase |-> "section", run |-> run, in |-> <<file.text>>, at |-> 3, program |-> NoProgram]
              /\ ended' = Nothing

RECURSIVE IsTemporal(_)
IsTemporal(e) == e.tag \in TemporalOperators \/ \E i \in DOMAIN e.args : IsTemporal(e.args[i])

\* What may be in the expression of a section.
AllowedIn(section) == CASE section = "SPEC" -> {"temporal"} [] section = "TRANS" -> {"next"} [] OTHER -> {}

\* The expression of a section.
SectionParsed(section, parsed) ==
  LET simple == parsed.expr.tag = "AG" /\ ~IsTemporal(parsed.expr.args[1])
  IN  IF parsed.at = 0 \/ (section = "SPEC" /\ ~simple) THEN Ends("read error")
      ELSE ParsesTo(parsed.at, [job.program EXCEPT ![section] = Append(@, parsed.expr)])

\* parse_section(): an expression, or the beginning of declarations.
ParseSection ==
  /\ Translating("section")
  /\ LET section == Token(Text, job.at)
     IN  CASE section = "<EOF>" -> GoTo("analyze")
           [] section = ";"     -> ParsesTo(job.at + 1, job.program)
           [] section \in {"VAR", "ASSIGN", "DEFINE"} ->
                job' = [job EXCEPT !.phase = section, !.at = @ + 1] /\ UNCHANGED ended
           [] section \in {"SPEC", "INIT", "TRANS", "INVAR", "FAIRNESS"} ->
                SectionParsed(section, ParseExpr(Text, job.at + 1, AllowedIn(section)))
           [] OTHER -> Ends("read error")
  /\ UNCHANGED <<disk, script>>

\* The declarations of a section are over.
SectionEnds ==
  /\ \/ Translating("VAR") \/ Translating("DEFINE")
     \/ Translating("ASSIGN") /\ Token(Text, job.at) \notin {"init", "next"}
  /\ ~IsSymbol(Token(Text, job.at))
  /\ GoTo("section")
  /\ UNCHANGED <<disk, script>>

ParseVar ==
  /\ Translating("VAR") /\ IsSymbol(Token(Text, job.at))
  /\ LET name == Token(Text, job.at)
         end  == Eat(Text, job.at + 1, <<":", "boolean", ";">>)
     IN  IF name \in job.program.declared \/ Has(job.program, "def", name) \/ end = 0 THEN Ends("read error")
         ELSE ParsesTo(end, [job.program EXCEPT !.declared = @ \cup {name}])
  /\ UNCHANGED <<disk, script>>

\* An expression and the semicolon after it become the value of a name.
Becomes(table, name, parsed) ==
  LET end == Eat(Text, parsed.at, <<";">>)
  IN  IF end = 0 THEN Ends("read error")
      ELSE ParsesTo(end, [job.program EXCEPT ![table] = (name :> parsed.expr) @@ @])

Taken(name, tables) == \E table \in tables : Has(job.program, table, name)

ParseAssign ==
  /\ Translating("ASSIGN")
  /\ LET first == Token(Text, job.at)
         table == IF first \in {"init", "next"} THEN first ELSE "def"
         name  == IF table = "def" THEN first ELSE Token(Text, job.at + 2)
         start == IF table = "def" THEN Eat(Text, job.at, <<name, ":=">>)
                  ELSE Eat(Text, job.at, <<first, "(", name, ")", ":=">>)
         taken == Taken(name, IF table = "def" THEN {"def", "init", "next"} ELSE {"def", table})
     IN  /\ table # "def" \/ IsSymbol(first)
         /\ IF ~IsSymbol(name) \/ start = 0 \/ taken THEN Ends("read error")
            ELSE Becomes(table, name, ParseExpr(Text, start, {}))
  /\ UNCHANGED <<disk, script>>

ParseDefine ==
  /\ Translating("DEFINE") /\ IsSymbol(Token(Text, job.at))
  /\ LET name  == Token(Text, job.at)
         start == Eat(Text, job.at, <<name, ":=">>)
     IN  IF start = 0 \/ name \in job.program.declared \/ Taken(name, {"def", "init", "next"})
         THEN Ends("read error")
         ELSE Becomes("def", name, ParseExpr(Text, start, {"next"}))
  /\ UNCHANGED <<disk, script>>

-----------------------------------------------------------------------------
(* analyze().                                                              *)

\* The symbols in the order in which they are first read.
Symbols(text) ==
  LET names == SelectSeq(SubSeq(text, 3, Len(text)), IsSymbol)
      first(seq, name) == IF name \in Range(seq) THEN seq ELSE Append(seq, name)
  IN  Through(first, <<>>, names)

RECURSIVE NamesIn(_)
NamesIn(e) == (IF e.tag = "symbol" THEN {e.name} ELSE {}) \cup UNION {NamesIn(e.args[i]) : i \in DOMAIN e.args}

\* check_non_cyclic_definitions(): definitions and initial values together.
NonCyclic(program, names) ==
  LET reads(name) == UNION {IF Has(program, t, name) THEN NamesIn(program[t][name]) ELSE {} : t \in {"def", "init"}}
      more(known)   == {name \in names : reads(name) \subseteq known}
      missed(known) == known # names
  IN  Repeat(more, missed, {}, Cardinality(names)) = names

\* count_next_nesting_level_expr(): one, and one for every next().
RECURSIVE Nesting(_, _)
Nesting(def, e) ==
  LET levels == {1} \cup {Nesting(def, e.args[i]) : i \in DOMAIN e.args}
      deepest == CHOOSE m \in levels : \A n \in levels : n <= m
  IN  CASE e.tag = "next"   -> Nesting(def, e.args[1]) + 1
        [] e.tag = "symbol" -> IF e.name \in DOMAIN def THEN Nesting(def, def[e.name]) ELSE 1
        [] OTHER            -> deepest

\* Only the first argument of a fairness constraint is looked at.
NextNotNested(p) ==
  LET atMost(exprs, n) == \A i \in DOMAIN exprs : Nesting(p.def, exprs[i]) <= n
      first(exprs)     == [i \in {j \in DOMAIN exprs : exprs[j].args # <<>>} |-> exprs[i].args[1]]
  IN  /\ atMost(first(p.SPEC), 1) /\ atMost(first(p.FAIRNESS), 1) /\ atMost(p.INVAR, 1) /\ atMost(p.INIT, 1)
      /\ atMost(p.TRANS, 2) /\ atMost(p.init, 1) /\ atMost(p.next, 2)

\* Next values that depend on next values become part of the transition.
MovedToTrans(p, symbols) ==
  LET moves(name) == Has(p, "next", name) /\ Nesting(p.def, p.next[name]) > 1
      moved       == SelectSeq(symbols, moves)
      iff(name)   == Op("<->", <<Op("next", <<Sym(name)>>), p.next[name]>>)
  IN  [p EXCEPT !.TRANS = @ \o [i \in DOMAIN moved |-> iff(moved[i])],
                !.next = [name \in DOMAIN @ \ Range(moved) |-> @[name]]]

\* build_expr() reads a second argument that is not there, or a slice that
\* does not exist.
CannotBuild(p) ==
  \/ \E table \in {"def", "init", "next", "INIT", "TRANS", "INVAR", "FAIRNESS"} :
       \E i \in DOMAIN p[table] : IsTemporal(p[table][i])
  \/ \E i \in DOMAIN p.FAIRNESS : Nesting(p.def, p.FAIRNESS[i]) > 2

Analyze ==
  /\ Translating("analyze")
  /\ LET p       == job.program
         symbols == Symbols(Text)
     IN  IF ~(Range(symbols) \subseteq p.declared \cup DOMAIN p.def) THEN Ends("refused")
         ELSE IF ~NonCyclic(p, Range(symbols)) \/ ~NextNotNested(p) THEN Ends("refused")
         ELSE IF CannotBuild(p) THEN Ends("undefined")
         ELSE /\ job' = [job EXCEPT !.phase = "build", !.program = MovedToTrans(p, symbols)]
              /\ UNCHANGED ended
  /\ UNCHANGED <<disk, script>>

-----------------------------------------------------------------------------
(* build().                                                                *)

Optimize == job.run.optimize

RECURSIVE BuildExpr(_, _, _, _)
BuildExpr(o, def, e, slice) ==
  LET arg(i)          == BuildExpr(o, def, e.args[i], slice)
      clause(c, rest) == IteAig(o, BuildExpr(o, def, c.args[1], slice), BuildExpr(o, def, c.args[2], slice), rest)
  IN  CASE e.tag = "0"      -> FalseAig
        [] e.tag = "1"      -> TrueAig
        [] e.tag = "symbol" -> IF e.name \in DOMAIN def THEN BuildExpr(o, def, def[e.name], slice)
                               ELSE SymbolAig(e.name, slice)
        [] e.tag = "next"   -> BuildExpr(o, def, e.args[1], slice + 1)
        [] e.tag = "case"   -> FoldRight(clause, e.args, TrueAig)
        [] e.tag = "!"      -> NotAig(arg(1))
        [] e.tag = "&"      -> AndAig(o, arg(1), arg(2))
        [] e.tag = "|"      -> OrAig(o, arg(1), arg(2))
        [] e.tag = "xor"    -> XorAig(o, arg(1), arg(2))
        [] e.tag = "xnor"   -> NotAig(XorAig(o, arg(1), arg(2)))
        [] e.tag = "->"     -> ImpliesAig(o, arg(1), arg(2))
        [] OTHER            -> IffAig(o, arg(1), arg(2))

\* All the parts; INIT and TRANS are conjunctions that end in 1.
BuildGraph ==
  /\ Translating("build")
  /\ LET p        == job.program
         of(e)    == BuildExpr(Optimize, p.def, e, 0)
         all(t)   == [i \in DOMAIN t |-> of(t[i])]
         conj(t)  == of(FoldRight(LAMBDA e, rest : Op("&", <<e, rest>>), t, TrueExpr))
     IN  job' = [job EXCEPT !.phase = "substitute"] @@
                [graph |-> [symbols |-> Symbols(Text), init |-> all(p.init), next |-> all(p.next),
                            INIT |-> conj(p.INIT), TRANS |-> conj(p.TRANS), INVAR |-> all(p.INVAR),
                            bad |-> [i \in DOMAIN p.SPEC |-> NotAig(of(p.SPEC[i].args[1]))],
                            fair |-> all(p.FAIRNESS),
                            latches |-> {}, nondets |-> {}, inputs |-> {}]]
  /\ UNCHANGED <<disk, script, ended>>

\* substitute_def_next_aig(): the next state of what has a next value.
WithNext(o, next, e) ==
  Rebuilt(o, e, [n \in {m \in Leaves(e) : m.slice = 1 /\ m.symbol \in DOMAIN next} |-> next[n.symbol]])

\* substitute_init_aig().
RECURSIVE WithInit(_, _, _)
WithInit(o, init, e) ==
  Rebuilt(o, e, [n \in {m \in Leaves(e) : m.symbol \in DOMAIN init} |-> WithInit(o, init, init[n.symbol])])

\* Next values are substituted everywhere, initial values in what describes
\* the initial states.
Substituted(o, g, init) ==
  LET each(t) == [i \in DOMAIN t |-> WithNext(o, g.next, t[i])]
  IN  [g EXCEPT !.next = each(@), !.TRANS = WithNext(o, g.next, @), !.INVAR = each(@), !.bad = each(@), !.fair = each(@),
                !.init = [i \in DOMAIN init |-> WithInit(o, init, init[i])], !.INIT = WithInit(o, init, @)]

Substitute ==
  /\ Translating("substitute")
  /\ job' = [job EXCEPT !.phase = "classify", !.graph = Substituted(Optimize, job.graph, job.graph.init)]
  /\ UNCHANGED <<disk, script, ended>>

Starts(g, name) == IF name \in DOMAIN g.init THEN {g.init[name]} ELSE {}

\* A symbol with a next value and without or with a constant initial one is a
\* latch; otherwise its values become parts of INIT and of TRANS.
Classified(o, g, name) ==
  LET iff(slice, e) == IffAig(o, SymbolAig(name, slice), e)
      stepped == name \in DOMAIN g.next
  IN  IF stepped /\ (\A e \in Starts(g, name) : IsConstant(e)) THEN [g EXCEPT !.latches = @ \cup {name}]
      ELSE IF Starts(g, name) = {} THEN g
      ELSE [g EXCEPT !.TRANS = IF stepped THEN AndAig(o, @, iff(1, g.next[name])) ELSE @,
                     !.INIT  = AndAig(o, @, iff(0, g.init[name]))]

\* What INIT and TRANS depend on gets an input for its next value, and its
\* latch starts with 0; all other symbols are inputs.
Divided(g, defined) ==
  LET named   == {n.symbol : n \in Leaves(g.INIT) \cup Leaves(g.TRANS)}
      nondets == named \ g.latches
  IN  [g EXCEPT !.nondets = nondets,
                !.inputs  = Range(g.symbols) \ (defined \cup g.latches \cup nondets),
                !.next    = [x \in nondets |-> SymbolAig(x, 1)] @@ @,
                !.init    = [x \in nondets |-> FalseAig] @@ @]

ClassifyStates ==
  /\ Translating("classify")
  /\ LET classify(g, name) == Classified(Optimize, g, name)
     IN  job' = [job EXCEPT !.phase = "choueka",
                            !.graph = Divided(Through(classify, @, job.graph.symbols), DOMAIN job.program.def)]
  /\ UNCHANGED <<disk, script, ended>>

AddLatchSymbol(g, name, next) ==
  [g EXCEPT !.symbols = Append(@, name), !.latches = @ \cup {name},
            !.init = (name :> FalseAig) @@ @, !.next = (name :> next) @@ @]

GuardedOnlyBad(o, g, guard) == [g EXCEPT !.bad = [i \in DOMAIN @ |-> AndAig(o, @[i], guard)]]

\* What is observed, as long as the run is one of the model.
GuardedBy(o, g, guard) ==
  LET all(t) == [i \in DOMAIN t |-> AndAig(o, t[i], guard)] IN [g EXCEPT !.bad = all(@), !.fair = all(@)]

\* A latch becomes true after a step that TRANS does not allow.
Invalidated(o, g) ==
  LET invalid == SymbolAig("AIGER_INVALID", 0)
  IN  AddLatchSymbol(GuardedBy(o, g, NotAig(invalid)), "AIGER_INVALID", OrAig(o, invalid, NotAig(g.TRANS)))

\* In the first step the model is initialized: INIT is looked at in the next
\* state, and a latch keeps its initial value until then.
Validated(o, g) ==
  LET valid       == SymbolAig("AIGER_VALID", 0)
      initialized == SymbolAig("AIGER_INITIALIZED", 0)
      next(x)     == CASE x \notin g.latches \/ x \notin DOMAIN g.init -> g.next[x]
                       [] x \in g.latches /\ Starts(g, x) = {FalseAig} -> AndAig(o, initialized, g.next[x])
                       [] x \in g.latches /\ Starts(g, x) = {TrueAig}  -> OrAig(o, NotAig(initialized), g.next[x])
      stays       == IteAig(o, initialized, AndAig(o, valid, g.TRANS), NextAig(o, g.INIT))
      held        == [GuardedBy(o, g, valid) EXCEPT
                        !.INVAR = [i \in DOMAIN @ |-> OrAig(o, @[i], NotAig(initialized))],
                        !.next  = [x \in DOMAIN @ |-> next(x)]]
  IN  AddLatchSymbol(AddLatchSymbol(held, "AIGER_VALID", stays), "AIGER_INITIALIZED", TrueAig)

Choueka ==
  /\ Translating("choueka")
  /\ job' = [job EXCEPT !.phase = "print",
               !.graph = IF @.INIT = TrueAig /\ @.TRANS = TrueAig THEN @
                         ELSE IF @.INIT = TrueAig THEN Invalidated(Optimize, @)
                         ELSE Validated(Optimize, @)]
  /\ UNCHANGED <<disk, script, ended>>

-----------------------------------------------------------------------------
(* print(): numbers the nodes and enters them into the tables of an AIG.   *)

InputNodes(g) ==
  LET nodes(x) == (IF x \in g.inputs THEN <<[symbol |-> x, slice |-> 0]>> ELSE <<>>)
                    \o (IF x \in g.nondets THEN <<[symbol |-> x, slice |-> 1]>> ELSE <<>>)
  IN  FlattenSeq([i \in DOMAIN g.symbols |-> nodes(g.symbols[i])])

LatchNames(g) == SelectSeq(g.symbols, LAMBDA x : x \in g.latches \cup g.nondets)

\* The gates below an edge after those that have been numbered; which of two
\* arguments comes first is left out.
RECURSIVE Numbered(_, _)
Numbered(gates, e) ==
  IF ~IsGate(e) \/ e.of \in Range(gates) THEN gates
  ELSE LET l == Some(Args(e)) IN Append(Numbered(Numbered(gates, l), Other(e, l)), e.of)

GatesOf(g) ==
  LET latches == LatchNames(g)
  IN  Through(Numbered, <<>>, [i \in DOMAIN latches |-> g.next[latches[i]]] \o g.INVAR \o g.bad \o g.fair)

\* The literal of an edge; the build without assertions takes zero for the
\* variable of a symbol that has got no number.
Literal(numbers, e) ==
  LET l == IF e.of \in DOMAIN numbers THEN Var2Lit(numbers[e.of]) ELSE 0
  IN  IF e = TrueAig THEN True ELSE IF e = FalseAig THEN False ELSE IF e.neg THEN l + 1 ELSE l

PrintedInputs(a, nodes, numbers, strip) ==
  LET name(n)   == IF strip THEN NoName ELSE IF n.slice = 1 THEN "AIGER_NEXT_" \o n.symbol ELSE n.symbol
      add(b, n) == AddInput(b, Literal(numbers, [neg |-> FALSE, of |-> n]), name(n))
  IN  Through(add, a, nodes)

\* A latch starts with zero, unless its reset is set.
PrintedLatches(a, g, numbers, strip) ==
  LET add(b, x) == LET l == Literal(numbers, SymbolAig(x, 0))
                       latch == AddLatch(b, l, Literal(numbers, g.next[x]), IF strip THEN NoName ELSE x)
                   IN  IF Starts(g, x) = {} THEN AddReset(latch, l, l)
                       ELSE IF g.init[x] = TrueAig THEN AddReset(latch, l, True)
                       ELSE latch
  IN  Through(add, a, LatchNames(g))

PrintedAnds(a, gates, numbers) ==
  LET add(b, n) == LET e == [neg |-> FALSE, of |-> n]
                       l == Some(Args(e))
                   IN  AddAnd(b, Literal(numbers, e), Literal(numbers, l), Literal(numbers, Other(e, l)))
  IN  Through(add, a, gates)

PrintedTable(a, table, edges, numbers, name) ==
  LET add(b, i) == AddLiteral(b, table, Literal(numbers, edges[i]), IF name = NoName THEN NoName ELSE name \o ToString(i - 1))
  IN  Through(add, a, Ascending(DOMAIN edges))

PrintedWith(g, nodes, gates, numbers, strip) ==
  LET prefix(n)  == IF strip THEN NoName ELSE n
      inputs     == PrintedInputs(AigerInit, nodes, numbers, strip)
      ands       == PrintedAnds(PrintedLatches(inputs, g, numbers, strip), gates, numbers)
      invariants == PrintedTable(ands, "constraints", g.INVAR, numbers, prefix("AIGER_INVAR_"))
      bads       == PrintedTable(invariants, "bad", g.bad, numbers, prefix("AIGER_NEVER_"))
  IN  PrintedTable(bads, "fairness", g.fair, numbers, prefix("AIGER_FAIR_"))

\* Inputs, latches and gates in the order of their numbers.
Tseitin(g, nodes, gates) ==
  LET latches == LatchNames(g)
  IN  nodes \o [i \in DOMAIN latches |-> [symbol |-> latches[i], slice |-> 0]] \o gates

PrintedFrom(g, nodes, gates, order, strip) ==
  PrintedWith(g, nodes, gates, [n \in Range(order) |-> CHOOSE i \in DOMAIN order : order[i] = n], strip)

PrintAig ==
  /\ Translating("print")
  /\ LET g     == job.graph
         nodes == InputNodes(g)
         gates == GatesOf(g)
     IN  job' = [phase |-> "open", run |-> job.run, in |-> job.in, todo |-> <<>>, file |-> job.run.dst,
                 out |-> PrintedFrom(g, nodes, gates, Tseitin(g, nodes, gates), "-s" \in job.run.opts)]
  /\ UNCHANGED <<disk, script, ended>>

TranslatorNext ==
  \/ TranslatorStart \/ ParseSection \/ SectionEnds \/ ParseVar \/ ParseAssign \/ ParseDefine
  \/ Analyze \/ BuildGraph \/ Substitute \/ ClassifyStates \/ Choueka \/ PrintAig
=============================================================================
