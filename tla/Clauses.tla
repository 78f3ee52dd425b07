------------------------------ MODULE Clauses ------------------------------
(***************************************************************************)
(* Literals and clauses as MiniSat has them.  A literal is a variable with *)
(* the value that makes it true, a clause a set of literals, and an        *)
(* assignment a set of literals with at most one of each variable.         *)
(***************************************************************************)
EXTENDS Naturals, FiniteSets, Loops

Neg(p) == <<p[1], ~p[2]>>

VarsOf(c) == {p[1] : p \in c}

LitsOf(vs) == vs \X BOOLEAN

\* The variables of a set of clauses.
VarsIn(cls) == UNION {VarsOf(c) : c \in cls}

Tautology(c) == \E p \in c : Neg(p) \in c

Consistent(ps) == \A p \in ps : Neg(p) \notin ps

TotalAssignments(vs) == {{<<v, f[v]>> : v \in vs} : f \in [vs -> BOOLEAN]}

Satisfies(a, cls) == \A c \in cls : a \cap c # {}

\* Of the total assignments of vs, what they say of the variables in shown.
Projection(cls, vs, shown) ==
  {{p \in a : p[1] \in shown} : a \in {b \in TotalAssignments(vs) : Satisfies(b, cls)}}

\* What clause c says of a variable when all its other literals are false.
Implied(c, ps) == {p \in c : \A q \in c \ {p} : Neg(q) \in ps}

\* propagate(): the literals ps and all that follows by unit clauses.
UnitClosure(cls, ps) ==
  LET last == Cardinality(VarsIn(cls)) + 1
      wave[n \in 0..last] ==
        IF n = 0 THEN ps
        ELSE LET known == wave[n - 1]
             IN  known \cup UNION {Implied(c, known) : c \in cls}
  IN  wave[last]

\* merge(): the resolvent of c and d on v.
Resolvent(c, d, v) == {p \in c \cup d : p[1] # v}

Subsumes(c, d) == c # d /\ c \subseteq d

\* subsumes(): the literals of d that c takes away by resolution.
Strengthens(c, d) == {p \in d : Neg(p) \in c /\ c \ {Neg(p)} \subseteq d \ {p} /\ c # d}
=============================================================================
