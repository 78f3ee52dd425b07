-------------------------- MODULE MCPreprocessing --------------------------
(***************************************************************************)
(* Small formulas for the preprocessor: any of the clauses below, in any   *)
(* order.                                                                  *)
(***************************************************************************)
EXTENDS Preprocessing

T(v) == <<v, TRUE>>
F(v) == <<v, FALSE>>

\* Nothing, what is left and right of the gate, or all but the gate.
MCFrozenSets == {{}, {"a", "d"}, {"a", "b", "d"}}

\* A gate c = a /\ b, a latch that takes its value, and clauses that subsume
\* and shorten others, fix variables and contradict each other.
MCClause ==
  {{F("c"), T("a")}, {F("c"), T("b")}, {F("a"), F("b"), T("c")},
   {F("d"), T("c")}, {T("d"), F("c")},
   {T("a"), T("d")}, {F("b"), T("d")}, {F("a"), F("b")}, {F("d")}}
=============================================================================
