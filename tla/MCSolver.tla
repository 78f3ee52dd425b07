------------------------------ MODULE MCSolver ------------------------------
EXTENDS SolverUse

\* Names of formula variables, and of activation literals.
NamesMC == 1..7

New(n) == <<[op |-> "newVar", name |-> n]>>
Add(c) == <<[op |-> "addClause", lits |-> c]>>
Ask(ps) == <<[op |-> "solve", lits |-> ps]>>
Derive(ps) == <<[op |-> "implies", lits |-> ps]>>
Export(ps) == <<[op |-> "toDimacs", lits |-> ps]>>
Release(p) == <<[op |-> "releaseVar", lit |-> p]>>

T(n) == <<n, TRUE>>
F(n) == <<n, FALSE>>

Variables == New(1) \o New(2) \o New(3) \o New(4)

\* IC3::consecution() with activation variable a, for the clause c and the
\* assumptions ps, asked once or, for a core in the other order, twice.
Consecution(a, c, ps, twice) ==
  New(a) \o Add(c \cup {F(a)}) \o Ask(<<T(a)>> \o ps)
    \o (IF twice THEN Ask(<<T(a)>> \o Reverse(ps)) ELSE <<>>)
    \o Release(F(a))

\* x1 = x2 /\ x3, and deciding on x4 is wrong either way when x1 is false.
Gate ==
  Add({F(1), T(2)}) \o Add({F(1), T(3)}) \o Add({T(1), F(2), F(3)})
    \o Add({T(1), T(2), T(4)}) \o Add({T(1), T(3), F(4)})

Searches ==
  {Consecution(5, {F(2), F(4)}, <<T(4), F(1)>>, TRUE) \o Consecution(6, c, <<F(1), F(3)>>, FALSE)
     \o Consecution(7, {T(4)}, <<F(4), F(2)>>, FALSE) :
       c \in {{T(2), T(3)}, {F(2), T(4), F(3)}}}

\* Few clauses, so that the first learnt one is too many.
Loose == Add({T(1), T(2), T(3), T(4)}) \o Add({T(1), T(2), T(3), F(4)})

\* Deciding on x3 shows what follows from x2, which follows from x1.
Chain == Add({F(1), T(2)}) \o Add({F(2), F(3), T(4)}) \o Add({F(2), F(3), F(4)})

\* Three pairs that exclude each other, which has no solution.
Pigeons ==
  Add({T(1), T(2)}) \o Add({T(3), T(4)}) \o Add({F(1), F(3)}) \o Add({F(2), F(4)})
    \o New(5) \o New(6) \o Add({T(5), T(6)}) \o Add({F(1), F(5)}) \o Add({F(2), F(6)})
    \o Add({F(3), F(5)}) \o Add({F(4), F(6)})

Derivations ==
  Derive(<<T(2), T(3)>>) \o Derive(<<F(1), T(2), T(3)>>) \o Derive(<<F(1), T(4), F(4)>>) \o Derive(<<F(1), T(2)>>)

ScriptsMC ==
  {Variables \o Gate \o Derivations \o calls : calls \in Searches}
    \cup {Variables \o Loose \o Ask(<<F(1)>>) \o Consecution(5, {F(2), T(4)}, <<F(1), F(3)>>, FALSE)}
    \cup {Variables \o Loose \o Add({F(1)}) \o Export(<<F(2)>>) \o Export(<<F(2), F(3), F(4)>>)}
    \cup {Variables \o Gate \o Export(<<F(1), T(2)>>) \o Export(<<F(1), F(3), F(2)>>) 
            \o Add({F(3)}) \o Export(<<T(2)>>) \o Ask(<<F(4)>>) \o Export(<<>>)}
    \cup {Variables \o Gate \o Ask(<<F(1), F(2), F(3)>>)}
    \cup {Variables \o Add({T(1), T(2)}) \o Release(T(1)) \o Ask(<<>>) \o New(5) \o Derive(<<F(2)>>)}
    \cup {Variables \o Add({T(1)}) \o Add({F(1)}) \o Derive(<<T(2)>>)}
    \cup {Variables \o Chain \o Ask(<<T(1)>>) \o Consecution(5, {F(3)}, <<T(3), T(1)>>, TRUE)}
    \cup {Variables \o Pigeons \o Ask(ps) \o New(7) \o Add({T(7), T(1)}) \o Ask(<<T(7)>>) \o Export(<<>>) : ps \in {<<>>, <<F(1)>>}}

\* The scripts use the solver as it is meant to be used.
ASSUME UseAssumption == \A s \in ScriptsMC : ProperUse(s)

\* Names 1 and 2 are let go with values that satisfy no clause: the one of x1,
\* x2 and x3 is trimmed of x1, whose variable is used again and, once true,
\* keeps propagate() from seeing that x2 becomes false.
Reuse ==
  New(1) \o New(2) \o New(3) \o Add({T(1), T(2), T(3)}) \o Release(F(1)) \o Ask(<<>>)
    \o New(4) \o Add({T(4)}) \o Release(F(2)) \o Ask(<<>>)

ReuseMC == {Reuse}
=============================================================================
