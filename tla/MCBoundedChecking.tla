------------------------- MODULE MCBoundedChecking -------------------------
EXTENDS BoundedChecking

\* An AIG with the given rows, which all have names.
Build(inputs, latches, ands, tables) ==
  LET name(l)      == "v" \o ToString(l)
      input(a, l)  == AddInput(a, l, name(l))
      latch(a, l)  == AddReset(AddLatch(a, l[1], l[2], name(l[1])), l[1], l[3])
      gate(a, g)   == AddAnd(a, g[1], g[2], g[3])
      lits(a, t)   == LET add(b, l) == AddLiteral(b, t, l, NoName)
                      IN  Through(add, a, IF t \in DOMAIN tables THEN tables[t] ELSE <<>>)
      defs         == Through(gate, Through(latch, Through(input, AigerInit, inputs), latches), ands)
      justice(a, l) == AddJustice(a, l, NoName)
      with         == Through(lits, defs, <<"outputs", "bad", "constraints", "fairness">>)
  IN  Through(justice, with, IF "justice" \in DOMAIN tables THEN tables["justice"] ELSE <<>>)

\* One input, two latches and two gates, in an order that no binary file has.
Machine(reset, next, gate, tables) ==
  Build(<<2>>, <<<<6, next[1], reset[1]>>, <<4, next[2], reset[2]>>>>,
        <<<<10, 8, 3>>, <<8, gate[1], gate[2]>>>>, tables)

\* A latch that follows another one, which follows the input.
Delay(reset, tables) == Build(<<2>>, <<<<4, 2, reset>>, <<6, 4, 0>>>>, <<<<8, 4, 6>>, <<10, 5, 7>>>>, tables)

Two == Build(<<2, 4>>, <<<<6, 8, 0>>>>, <<<<8, 2, 4>>, <<10, 6, 9>>>>, [outputs |-> <<10>>])

\* Whatever the input is, the output is true, which three values do not see.
Tautology == Build(<<2>>, <<<<4, 2, 0>>>>, <<<<6, 2, 3>>, <<8, 4, 6>>>>, [outputs |-> <<9>>])

Constant == Build(<<2>>, <<>>, <<<<4, 2, 2>>>>, [outputs |-> <<0>>])

Resets == {<<0, 0>>, <<1, 0>>, <<6, 1>>}
Nexts  == {<<2, 9>>, <<5, 11>>, <<10, 6>>}
Gates  == {<<4, 6>>, <<5, 7>>, <<6, 3>>}

Scripts ==
  {[tool |-> "mc.sh", model |-> m, maxk |-> 2] :
     m \in {Machine(r, n, g, [outputs |-> <<o>>]) : r \in Resets, n \in Nexts, g \in Gates, o \in {10, 9}}
             \cup {Delay(r, [outputs |-> <<o>>]) : r \in {0, 4}, o \in {8, 11}}
             \cup {Two, Tautology, Constant, Build(<<2>>, <<>>, <<>>, [bad |-> <<2>>])}}

Tables ==
  {[bad |-> b, constraints |-> c] : b \in {<<10>>, <<10, 6>>}, c \in {<<>>, <<3>>, <<9, 2>>}}
    \cup {[justice |-> j, fairness |-> f] @@ b @@ c :
            j \in {<<<<6, 11>>>>, <<<<6>>, <<4>>>>}, f \in {<<>>, <<2>>, <<2, 5>>}, b \in {<<>>, [bad |-> <<10>>]},
            c \in {<<>>, [constraints |-> <<9>>]}}

Bmcs ==
  {[tool |-> "aigbmc", model |-> m, move |-> FALSE, nowitness |-> FALSE, maxk |-> 2] :
     m \in {Machine(r, n, <<5, 7>>, t) : r \in {<<0, 0>>, <<6, 1>>}, n \in Nexts, t \in Tables}}
    \cup {[tool |-> "aigbmc", model |-> Delay(0, [outputs |-> <<8, 10>>]), move |-> m, nowitness |-> n, maxk |-> 3] :
            m \in BOOLEAN, n \in BOOLEAN}

Digit == {"0", "1", "x"}

\* Stimuli of up to two vectors.
Stimuli(n) == UNION {[1..k -> [1..n -> Digit]] : k \in 1..2}

Sims ==
  {[tool |-> "aigsim", model |-> m, opts |-> [witness |-> FALSE, check |-> FALSE, ground |-> g, move |-> FALSE], file |-> f] :
     m \in {Machine(<<6, 1>>, n, <<5, 7>>, [bad |-> <<10, 8>>, constraints |-> <<5>>]) : n \in Nexts}
             \cup {Tautology, Delay(4, [outputs |-> <<8>>])},
     g \in BOOLEAN, f \in Stimuli(1)}

B(n) == [kind |-> "b", pos |-> n]
J(n) == [kind |-> "j", pos |-> n]

Claim(c, props, init, vectors) == [claim |-> c, props |-> props, init |-> init, vectors |-> vectors]

Witnesses ==
  {Claim("1", p, i, v) : p \in {<<B(1)>>, <<J(1)>>, <<B(1), J(1)>>}, i \in {<<"0", "1">>, <<"1", "1">>},
                         v \in [1..2 -> {<<"0">>, <<"1">>}]}

Checks ==
  {[tool |-> "aigsim", model |-> Machine(<<6, 1>>, n, <<5, 7>>, t),
    opts |-> [witness |-> TRUE, check |-> TRUE, ground |-> TRUE, move |-> FALSE], file |-> f] :
     n \in Nexts, t \in {[bad |-> <<10>>, justice |-> <<<<6, 11>>>>, fairness |-> <<4>>],
                         [bad |-> <<9>>, justice |-> <<<<9>>>>, constraints |-> <<4>>],
                         [justice |-> <<<<9>>>>, fairness |-> <<2>>]},
     f \in {<<>>, <<Claim("2", <<>>, <<>>, <<>>)>>, <<Claim("1", <<B(2)>>, <<"0", "1">>, <<>>)>>}
             \cup {<<w>> : w \in Witnesses}
             \cup {<<Claim(c, <<p>>, <<>>, <<>>), w>> : c \in {"0", "2"}, p \in {B(1), J(1)}, w \in Witnesses}}

SetupsMC == Scripts \cup Bmcs \cup Sims \cup Checks
=============================================================================
