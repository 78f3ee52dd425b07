---------------------------- MODULE MCAigerFile ----------------------------
EXTENDS AigerFile

Header(mode, counts) == [mode |-> mode, counts |-> counts]

\* Two gates, a latch with a gate, every kind of property, a variable that
\* nothing may define, binary files, and headers that are wrong.
Headers ==
  {Header("aag", <<3, 1, 0, 1, 2>>), Header("aag", <<3, 1, 1, 1, 1>>), Header("aag", <<2, 1, 1, 0, 0, 1, 1, 2, 1>>),
   Header("aag", <<3, 1, 0, 1, 1>>), Header("aig", <<3, 1, 0, 1, 2>>), Header("aig", <<3, 1, 1, 1, 1>>),
   Header("aig", <<4, 1, 0, 1, 2>>), Header("aag", <<3, 1, 1, 1>>), Header("abc", <<3, 1, 1, 1, 1>>)}

Lines(S) == {<<l>> : l \in S}

Symbols(h, a) ==
  IF h.justice # 0 /\ a.justice[1].lits # <<>>
  THEN {[table |-> t, pos |-> i, name |-> "x"] : t \in {"latches", "justice"}, i \in 1..2}
         \cup {[comments |-> <<"c">>]}
  ELSE {}

Ands(h) ==
  IF h.mode = "aag"
  THEN {<<l, r, q>> : l \in {4, 6}, r \in {2, 4, 5, 6, 7}, q \in {1, 2, 5, 6}}
         \cup {<<5, 2, 2>>, <<6, 2>>, <<6, 9, 2>>, <<6, 2, 9>>}
  ELSE {<<x, y>> : x \in {<<0>>, <<1>>, <<2>>, <<5, 0>>, <<4, 1>>, <<4>>, <<5, 4, 2>>, <<5, 4, 4, 1>>, <<4, 4, 4, 2>>},
                   y \in {<<0>>, <<1>>, <<3>>, <<6, 0>>, <<4, 4, 1>>, <<5, 4, 4, 0>>}}

Latches(h) ==
  IF h.mode = "aag"
  THEN {<<l, n>> : l \in {2, 4, 6}, n \in {3, 6}} \cup {<<l, n, r>> : l \in {4, 6}, n \in {6, 9}, r \in {0, 1, 4}}
         \cup Lines({2, 7}) \cup {<<1, 2, 1, 1>>}
  ELSE {<<6>>, <<3, 1>>, <<5, 4>>, <<5, 2>>, <<9>>}

OfferMC(section, h, a) ==
  CASE section = "header"  -> Headers
    [] section = "inputs"  -> Lines({2, 4, 5})
    [] section = "latches" -> Latches(h)
    [] section = "sizes"   -> Lines({0, 1}) \cup {<<1, 1>>}
    [] section = "justice" -> {<<>>, <<2>>, <<5>>, <<7>>}
    [] section = "ands"    -> Ands(h)
    [] section = "symbols" -> Symbols(h, a)
    [] OTHER               -> Lines({1, 2, 5, 7})
=============================================================================
