---------------------------- MODULE MCAigerTools ----------------------------
EXTENDS AigerToolsProperties

\* An AIG with the given rows; an output with a name is a pair.
Build(inputs, latches, ands, tables, names) ==
  LET input(a, l)  == AddInput(a, l, names)
      latch(a, l)  == AddReset(AddLatch(a, l[1], l[2], names), l[1], l[3])
      gate(a, g)   == AddAnd(a, g[1], g[2], g[3])
      lits(a, t)   == LET add(b, l) == AddLiteral(b, t, l, names)
                      IN  Through(add, a, IF t \in DOMAIN tables THEN tables[t] ELSE <<>>)
      defs         == Through(gate, Through(latch, Through(input, AigerInit, inputs), latches), ands)
      justice(a, l) == AddJustice(a, l, names)
      with         == Through(lits, defs, <<"outputs", "bad", "constraints", "fairness">>)
  IN  Through(justice, with, IF "justice" \in DOMAIN tables THEN tables["justice"] ELSE <<>>)

\* One input, two latches and two gates, in an order that no binary file has.
Machine(reset, next, gate, tables) ==
  Build(<<2>>, <<<<6, next[1], reset[1]>>, <<4, next[2], reset[2]>>>>,
        <<<<10, 8, 3>>, <<8, gate[1], gate[2]>>>>, tables, NoName)

Resets == {<<0, 0>>, <<1, 0>>, <<6, 1>>, <<1, 1>>, <<0, 4>>}
Nexts  == {<<2, 9>>, <<5, 11>>, <<10, 6>>}
Gates  == {<<4, 6>>, <<5, 7>>, <<6, 3>>}

Machines(tables) == {Machine(r, n, g, tables) : r \in Resets, n \in Nexts, g \in Gates}

\* A variable above the others that nothing defines, and names.
Hole  == [Build(<<2>>, <<>>, <<<<4, 2, 2>>>>, [outputs |-> <<4, 3>>], "x") EXCEPT !.maxvar = 3]
Named == Build(<<4>>, <<<<2, 6, 0>>>>, <<<<6, 4, 2>>>>, [outputs |-> <<7, 2>>], "x")

\* Constants and equal arguments, on which a miter builds no gates.
Plain == Build(<<2>>, <<>>, <<>>, [outputs |-> <<2, 1>>], NoName)

Names3 == {"first", "second", "first~", "result.aag", "result"}
Pieces3 == {"p" \o t \o ToString(i) : t \in {"outputs", "bad", "justice"}, i \in 1..3}

File(a, mode) == [mode |-> mode, aig |-> Prepared(a, mode)]

\* The files at the beginning.
Disk(first, second) ==
  [f \in Names3 \cup Pieces3 |->
     CASE f = "first" -> first [] f = "second" -> second [] OTHER -> Absent]

Cmd(tool, opts, src, dst) ==
  [tool |-> tool, opts |-> opts, src |-> src, dst |-> dst, lim |-> 2]

One(a, cmd) == [disk |-> Disk(File(a, "aag"), Absent), script |-> <<cmd>>]

Two(a, b, cmds) == [disk |-> Disk(File(a, "aag"), File(b, "aag")), script |-> cmds]

Dsts == {"result.aag", "result"}

Combining ==
  {One(a, Cmd(tool, {}, <<"first">>, dst)) :
     a \in Machines([outputs |-> <<10, 9, 6>>]) \cup {Hole, Named, Plain},
     tool \in {"aigand", "aigor", "aigflip"}, dst \in Dsts}

Converting ==
  {One(a, Cmd("aigtoaig", opts, <<"first">>, dst)) :
     a \in Machines([outputs |-> <<11>>, justice |-> <<<<7, 9>>>>]) \cup {Hole, Named}, opts \in {{}, {"-s"}}, dst \in Dsts}

\* Twice, so that a backup may be left from the first time; the file has no
\* suffix and becomes binary.
Stripping ==
  {[disk |-> Disk(File(a, mode), Absent), script |-> <<Cmd("aigstrip", {}, <<"first">>, "first"), Cmd("aigstrip", {}, <<"first">>, "first")>>] :
     a \in {Hole, Named, Machine(<<6, 1>>, <<5, 11>>, <<5, 7>>, [bad |-> <<9>>])}, mode \in {"aag", "aig"}}

Moving ==
  {One(a, Cmd(tool[1], tool[2], <<"first">>, "result.aag")) :
     a \in UNION {Machines([bad |-> <<10, 6>>, constraints |-> c] @@ o) :
                    c \in {<<>>, <<11>>, <<5, 9>>}, o \in {<<>>, [outputs |-> <<4>>], [fairness |-> <<2>>]}}
             \cup {Build(<<2, 4>>, <<>>, <<<<6, 3, 4>>>>, [bad |-> <<6>>, constraints |-> <<3, 4>>], NoName), Plain},
     tool \in {<<"aigmove", {}>>, <<"aigmove", {"-i"}>>, <<"aigmove", {"-r"}>>, <<"aigunconstraint", {}>>}}

Resetting ==
  {One(a, Cmd("aigreset", opts, <<"first">>, "result")) :
     a \in Machines([outputs |-> <<10>>, bad |-> <<7>>, justice |-> <<<<5, 6>>>>]), opts \in {{}, {"-1"}, {"-1", "-c"}}}

Comparing ==
  {Two(Machine(<<0, 0>>, n, g, [outputs |-> <<10, 9>>]), b, <<Cmd("aigmiter", opts, <<"first", "second">>, "result")>>) :
     n \in Nexts, g \in Gates, opts \in {{}, {"-c"}},
     b \in {Machine(<<0, 0>>, m, <<7, 5>>, [outputs |-> <<10, o>>]) : m \in Nexts, o \in {8, 9}} \cup {Plain}}
    \cup {Two(Plain, Plain, <<Cmd("aigmiter", {}, <<"first", "second">>, "result")>>)}

Splitting ==
  {One(Machine(<<1, 0>>, <<5, 11>>, g, t), Cmd("aigsplit", opts, <<"first">>, "p")) :
     g \in Gates, opts \in {{}, {"-f"}, {"-r", "-f"}},
     t \in {[outputs |-> <<10, 8, 7>>, constraints |-> <<2>>],
            [bad |-> <<10, 5>>, justice |-> <<<<9, 6>>>>, fairness |-> <<2>>]}}

Lines ==
  {<<>>, <<<<6, 2, 5>>>>, <<<<6, 9, 2>>, <<8, 2, 3>>>>, <<<<6, 8, 2>>, <<8, 4, 6>>>>, <<<<6, 2, 2>>, <<6, 3, 3>>>>,
   <<<<10, 6, 13>>, <<6, 2, 4>>, <<12, 6, 3>>>>, <<<<6, 2, 2>>, <<8, 2, 6>>>>}

Gathering ==
  {[disk |-> Disk(Absent, Absent), script |-> <<Cmd("andtoaig", {}, <<>>, dst) @@ [lines |-> l]>>] : l \in Lines, dst \in Dsts}

Safety == Machine(<<1, 0>>, <<5, 11>>, <<5, 7>>, [outputs |-> <<10, 9>>, bad |-> <<6>>, constraints |-> <<3>>])
Liveness(gate) == Machine(<<6, 1>>, <<5, 11>>, gate, [outputs |-> <<10>>, justice |-> <<<<7>>>>, fairness |-> <<3>>])

Debugged == {Safety, Liveness(<<4, 6>>), Liveness(<<5, 7>>), Hole, Build(<<>>, <<>>, <<>>, [outputs |-> <<1>>], NoName)}

\* The file is ASCII or binary; any number of files may lose their end.
Debugging3 ==
  LET run(a, how, p) == One(a, Cmd("aigdd", how[1], <<"first">>, how[2]) @@ [program |-> p, tmp |-> "/tmp/aigdd.aig"])
  IN  {run(a, how, p) : a \in Debugged, how \in {<<{}, "result.aag">>, <<{"-r"}, "result">>}, p \in {"output", "sizes"}}
        \cup {run(Safety, <<{}, "result">>, "bad")}

-----------------------------------------------------------------------------
(* Modules for smvtoaig and their texts.                                   *)

Rank == [t \in {"->", "<->", "|", "xor", "xnor", "&", "!", "=", "!="} |->
           CASE t = "->" -> 1 [] t = "<->" -> 2 [] t \in {"|", "xor", "xnor"} -> 3 [] t = "&" -> 4 [] t = "!" -> 5 [] OTHER -> 6]

RankOf(e) == IF e.tag \in DOMAIN Rank THEN Rank[e.tag] ELSE 7

\* The tokens of an expression, with as few brackets as it can have.
RECURSIVE Written1(_)
Written1(e) ==
  LET plain(x)    == RankOf(x) > RankOf(e) \/ (x.tag = e.tag /\ e.tag \notin {"->", "=", "!="})
      operand(i)  == IF plain(e.args[i]) THEN Written1(e.args[i]) ELSE <<"(">> \o Written1(e.args[i]) \o <<")">>
      clause(c)   == Written1(c.args[1]) \o <<":">> \o Written1(c.args[2]) \o <<";">>
  IN  CASE e.tag = "symbol"     -> <<e.name>>
        [] e.tag \in {"0", "1"} -> <<e.tag>>
        [] e.tag = "next"       -> <<"next", "(">> \o Written1(e.args[1]) \o <<")">>
        [] e.tag = "case"       -> <<"case">> \o FlattenSeq([i \in DOMAIN e.args |-> clause(e.args[i])]) \o <<"esac">>
        [] e.tag \in {"!", "AG"} -> <<e.tag>> \o operand(1)
        [] OTHER                -> operand(1) \o <<e.tag>> \o operand(2)

\* A module; definitions of declared names are assignments.
TextOf(p) ==
  LET each(seq, f(_)) == FlattenSeq([i \in DOMAIN seq |-> f(seq[i])])
      names(S)        == SetToSeq(S)
      var(x)          == <<x, ":", "boolean", ";">>
      assign(t, x)    == <<t, "(", x, ")", ":=">> \o Written1(p[t][x]) \o <<";">>
      def(x)          == <<x, ":=">> \o Written1(p.def[x]) \o <<";">>
      section(t)      == each(p[t], LAMBDA e : <<t>> \o Written1(e))
      given           == DOMAIN p.def \cap p.declared
  IN  <<"MODULE", "main", "VAR">> \o each(names(p.declared), var)
        \o <<"DEFINE">> \o each(names(DOMAIN p.def \ given), def)
        \o <<"ASSIGN">> \o each(names(given), def)
        \o each(names(DOMAIN p.init), LAMBDA x : assign("init", x))
        \o each(names(DOMAIN p.next), LAMBDA x : assign("next", x))
        \o section("INIT") \o section("TRANS") \o <<";">> \o section("INVAR") \o section("FAIRNESS") \o section("SPEC")

A == Sym("a")
B == Sym("b")
D == Sym("d")
N(e) == Op("!", <<e>>)
NextOf(e) == Op("next", <<e>>)
Bin(op, l, r) == Op(op, <<l, r>>)
Ag(e) == Op("AG", <<e>>)
Case(c, t, e) == Op("case", <<Op(":", <<c, t>>), Op(":", <<Op("1", <<>>), e>>)>>)

Translate(p, opts, level, legal) ==
  [disk |-> Disk([mode |-> "smv", text |-> TextOf(p)], Absent),
   script |-> <<Cmd("smvtoaig", opts, <<"first">>, "result.aag") @@ [optimize |-> level, written |-> p, legal |-> legal]>>]

AB == [NoProgram EXCEPT !.declared = {"a", "b"}]

Operators == {"->", "<->", "xnor", "xor", "|", "&"}

\* Every pair of operators, one below the other.
Pairs ==
  {Bin(f, Bin(g, A, B), N(D)) : f, g \in Operators} \cup {Bin(f, N(Bin(g, A, D)), Bin(h, B, A)) : f \in Operators, g, h \in {"=", "!=", "&", "->"}}
    \cup {Bin(f, D, Bin(g, N(N(A)), B)) : f, g \in Operators}
    \cup {Case(Bin("&", A, B), N(Bin("=", A, D)), Case(D, A, N(B))), Bin("!=", A, Case(A, B, D))}

Expressions ==
  {Translate([AB EXCEPT !.declared = @ \cup {"d"}, !.SPEC = <<Ag(e)>>], {"-s"}, level, TRUE) : e \in Pairs, level \in 1..4}

\* One latch or more, with what may be said of it.
Inits == {<<>>, "a" :> Op("0", <<>>), "a" :> Op("1", <<>>), "a" :> N(B)}
NextExprs == {<<>>, "a" :> Bin("xor", A, B), "a" :> D, "b" :> N(A)}

Modules ==
  {[AB EXCEPT !.def = "d" :> def, !.init = i, !.next = n, !.INIT = init, !.TRANS = t, !.INVAR = more[1], !.FAIRNESS = more[2],
              !.SPEC = <<Ag(N(Bin("&", A, B))), Ag(Bin("->", B, A))>>] :
     def \in {Bin("|", A, B), NextOf(B)}, i \in Inits, n \in NextExprs, init \in {<<>>, <<N(B)>>, <<A>>},
     t \in {<<>>, <<Bin("->", A, NextOf(N(B))), Bin("|", B, NextOf(D))>>, <<Bin("!=", NextOf(A), B)>>},
     more \in {<<<<>>, <<>>>>, <<<<N(Bin("&", A, B))>>, <<>>>>, <<<<>>, <<A, N(B)>>>>}}

\* next() of what is defined by next() is one too many.
LegalNext(p) == ~(p.def["d"] = NextOf(B) /\ Len(p.TRANS) = 2)

\* Texts that smvtoaig does not take: some are wrong in themselves, some in
\* what they define; the last one makes it read an argument that is missing.
Variables == <<"MODULE", "main", "VAR", "a", ":", "boolean", ";", "b", ":", "boolean", ";">>

Wrongs ==
  {<<"MODULE", "other">>} \cup
  {Variables \o text : text \in {
     <<"a", ":", "boolean", ";">>, <<"c", "boolean", ";">>, <<"DEFINE", "a", ":=", "b", ";">>, <<"DEFINE", "d", "a", ";">>,
     <<"DEFINE", "d", ":=", "a", "b", ";">>, <<"DEFINE", "d", ":=", "a", ";", "VAR", "d", ":", "boolean", ";">>,
     <<"ASSIGN", "a", ":=", "b", ";", "init", "(", "a", ")", ":=", "0", ";">>,
     <<"ASSIGN", "next", "(", "a", ")", ":=", "b", ";", "a", ":=", "b", ";">>, <<"ASSIGN", "init", "(", "a", ":=", "b", ";">>,
     <<"INIT", "next", "(", "a", ")">>, <<"TRANS", "next", "(", "next", "(", "a", ")", ")">>, <<"INIT", "AG", "a">>,
     <<"INVAR", "(", "a", "|", "b">>, <<"INIT", "case", "a", ":", "b", ";">>, <<"INIT", "case", "esac">>,
     <<"SPEC", "a">>, <<"SPEC", "AG", "(", "a", "U", "b", ")">>, <<"SPEC", "AG", "next", "(", "a", ")">>,
     <<"esac">>, <<"INIT", "=", "a">>, <<"INIT", "c">>, <<"DEFINE", "d", ":=", "e", ";", "e", ":=", "!", "d", ";">>,
     <<"ASSIGN", "init", "(", "a", ")", ":=", "b", ";", "init", "(", "b", ")", ":=", "a", ";">>,
     <<"DEFINE", "d", ":=", "next", "(", "a", ")", ";", "INVAR", "!", "d">>, <<"INIT", "!", "AG", "a">>}}

Refusing ==
  {[disk |-> Disk([mode |-> "smv", text |-> text], Absent),
    script |-> <<Cmd("smvtoaig", {}, <<"first">>, "result") @@ [optimize |-> 4, written |-> NoProgram, legal |-> FALSE]>>] :
     text \in Wrongs}

\* "b" is declared and defined.
Given == [AB EXCEPT !.def = "b" :> N(A), !.next = "a" :> B, !.SPEC = <<Ag(Bin("|", A, B)), Ag(B)>>]

Translating3 ==
  Expressions \cup Refusing \cup {Translate(p, {}, 4, LegalNext(p)) : p \in Modules} \cup {Translate(Given, {}, 2, TRUE)}

SetupsMC ==
  Combining \cup Converting \cup Stripping \cup Moving \cup Resetting \cup Comparing \cup Splitting \cup Gathering \cup Debugging3 \cup Translating3

BackupMC(name) == name \o "~"

\* Programs that fail if some output can be true at once, if there are an
\* input and a gate, or if there is a bad state but no output.
ExecutableMC(program, a) ==
  LET fails == CASE program = "output" -> \E n \in 0..1 : CanHold(a, "outputs", n) # {}
                 [] program = "sizes"  -> a.inputs # <<>> /\ (a.ands # <<>> \/ a.justice # <<>>)
                 [] program = "bad"    -> CanHold(a, "bad", 1) # {} /\ a.outputs = <<>>
  IN  IF fails THEN 134 ELSE 0
=============================================================================
