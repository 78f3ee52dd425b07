------------------------ MODULE PreprocessingProofs ------------------------
(***************************************************************************)
(* The preprocessing of SimpSolver is right for every set of clauses:      *)
(* eliminate() keeps their solutions, extendModel() finds the values of    *)
(* the eliminated variables again, subsumption misses no clause, and each  *)
(* step leaves less to do.                                                 *)
(***************************************************************************)
EXTENDS Preprocessing, FiniteSetTheorems, SequenceTheorems, WellFoundedInduction, TLAPS

\* The variables, literals and models that the given clauses can have.
AllVars == VarsIn(Clause)
AllLits == LitsOf(AllVars)
Models  == TotalAssignments(AllVars)

\* One wave of unit propagation.
Deduced(cls, known) == known \cup UNION {Implied(c, known) : c \in cls}

\* What the fields of a solver can be.
SolverRecord ==
  [listed : SUBSET SUBSET AllLits, loose : {{}}, trail : SUBSET AllLits, ok : BOOLEAN,
   queue : SUBSET SUBSET AllLits, checked : SUBSET AllLits, touched : SUBSET AllVars,
   heap : SUBSET AllVars, vars : {AllVars}, frozen : SUBSET UNION FrozenSets,
   eliminated : SUBSET AllVars, elimclauses : Seq([literal : AllLits, others : SUBSET AllLits])]

\* A solver as eliminate() leaves it between two steps.
Fine(s) ==
  /\ s \in SolverRecord
  /\ \A c \in s.listed : Cardinality(c) >= 2 /\ ~Tautology(c)
  /\ s.queue \subseteq s.listed /\ s.checked \subseteq s.trail
  /\ s.ok => Consistent(s.trail)

\* Model m is one of solver s.
Means(s, m) == s.ok /\ Satisfies(m, s.listed) /\ s.trail \subseteq m

\* What eliminate() remembers of the clauses it has compared.
SameBooks(s, t) ==
  t.listed = s.listed /\ t.queue = s.queue /\ t.touched = s.touched /\ t.checked = s.checked

\* The solvers remember the same removed clauses.
SameMemory(s, t) == t.eliminated = s.eliminated /\ t.elimclauses = s.elimclauses

\* Solver t has the models of s that satisfy c.
Adds(s, t, c) ==
  /\ Fine(t) /\ SameMemory(s, t)
  /\ \A m \in Models : Means(t, m) <=> Means(s, m) /\ m \cap c # {}

\* What the solver knows to be true.
Known(s) == s.listed \cup {{p} : p \in s.trail}

\* Solver t has the models of s.
SameModels(s, t) == Fine(t) /\ SameMemory(s, t) /\ \A m \in Models : Means(t, m) <=> Means(s, m)

\* The removed clauses es give the variables of m their values again.
Extended(es, m) == Through(Restore, m, Reverse(es))

\* f has what extendModel() has after each clause of seq, starting from base.
RestoresAre(f, base, seq) ==
  f = [i \in 0..Len(seq) |-> IF i = 0 THEN base ELSE Restore(f[i - 1], seq[i])]

\* A clause of elimclauses: the literal that it sets, and the others.
RemovedClause == [literal : AllLits, others : SUBSET AllLits]

\* Assignment x satisfies the clauses cls and is m but for the variables gone.
Faithful(x, m, gone, cls) ==
  x \in Models /\ Satisfies(x, cls) /\ \A p \in AllLits : p[1] \notin gone => (p \in x <=> p \in m)

\* Model m is one of solver s and of the resolvents still to be added.
Wanted(s, cls, m) == Means(s, m) /\ Satisfies(m, cls)

\* The steps of eliminate() and what they work on.
StepsInv ==
  /\ Fine(solver) /\ phase \in Phases /\ given \in SUBSET Clause
  /\ pending \in SUBSET SUBSET AllLits /\ (\A c \in pending : ~Tautology(c))
  /\ current \in SUBSET AllLits
  /\ phase \notin {"resolve", "done"} => pending = {}
  /\ phase \in {"freeze", "adding"} => solver.elimclauses = <<>>
  /\ phase \notin {"subsume", "done"} => current = {}
  /\ phase = "subsume" /\ current # {} => current \in Known(solver)

\* Every model of the given clauses is still one of the solver, and every
\* model of the solver can be extended to one of the given clauses.
MeaningInv ==
  /\ \A m \in Models : Satisfies(m, given) => Wanted(solver, pending, m)
  /\ \A m \in Models : Wanted(solver, pending, m) =>
       Faithful(Extended(solver.elimclauses, m), m, solver.eliminated, given)

\* The inductive invariant of SolutionsAreKept.
PreprocessingInv == StepsInv /\ MeaningInv

\* Clause c says something about clause d.
Relates(c, d) == Subsumes(c, d) \/ Strengthens(c, d) # {}

\* Clause c is being compared with all others, or will be.
Awaited(c) == c \in solver.queue \/ c = current \/ VarsOf(c) \cap solver.touched # {}

\* A clause that says something about another one will be compared, and only
\* the assignment that is looked at can have its variable in a clause.
ComparedInv ==
  /\ \A c, d \in solver.listed : Relates(c, d) => Awaited(c)
  /\ \A p \in solver.checked, c \in solver.listed : current # {p} => p[1] \notin VarsOf(c)

\* When eliminate() may end nothing is left to be compared.
NothingLeft ==
  /\ phase \in {"freeze", "adding", "loop"} /\ solver.queue # {} => solver.touched # {}
  /\ phase = "elim" => solver.queue = {}
  /\ phase = "done" /\ solver.ok =>
       solver.queue = {} /\ solver.touched = {} /\ current = {} /\ solver.checked = solver.trail

\* With StepsInv, the inductive invariant of SubsumptionComplete.
SubsumptionInv == ComparedInv /\ NothingLeft

\* Values are looked at before variables are eliminated.
ValuesAreChecked == phase = "elim" => solver.checked = solver.trail

-----------------------------------------------------------------------------
(* Literals, models and induction.                                         *)

\* Negation: the literals of a variable are two, each the negation of the
\* other (toInt, operator~ and var of SolverTypes.h).
LEMMA Literals ==
  ASSUME NEW p \in AllLits
  PROVE  /\ Neg(p) \in AllLits /\ Neg(Neg(p)) = p /\ Neg(p) # p
         /\ p[1] \in AllVars /\ Neg(p)[1] = p[1]
         /\ \A q \in AllLits : q[1] = p[1] => q = p \/ q = Neg(p)
<1>1. ASSUME NEW q \in AllLits
      PROVE  \E v \in AllVars : q = <<v, TRUE>> \/ q = <<v, FALSE>>
  <2>1. PICK v \in AllVars : \E b \in BOOLEAN : q = <<v, b>>
    BY DEF AllLits, LitsOf
  <2>2. q = <<v, TRUE>> \/ q = <<v, FALSE>>
    BY <2>1, Zenon
  <2> QED BY <2>2
<1>2. PICK v \in AllVars : p = <<v, TRUE>> \/ p = <<v, FALSE>>
  BY <1>1
<1>3. \A w : /\ Neg(<<w, TRUE>>) = <<w, FALSE>> /\ <<w, TRUE>>[1] = w
            /\ Neg(<<w, FALSE>>) = <<w, TRUE>> /\ <<w, FALSE>>[1] = w
            /\ <<w, TRUE>> # <<w, FALSE>>
  BY DEF Neg
<1>4. <<v, TRUE>> \in AllLits /\ <<v, FALSE>> \in AllLits
  BY DEF AllLits, LitsOf
<1>5. ASSUME NEW q \in AllLits, q[1] = v
      PROVE  q = <<v, TRUE>> \/ q = <<v, FALSE>>
  <2>1. PICK w \in AllVars : q = <<w, TRUE>> \/ q = <<w, FALSE>>
    BY <1>1
  <2>2. w = v
    BY <1>3, <1>5, <2>1
  <2> QED BY <2>1, <2>2
<1> HIDE DEF AllLits
<1>6. CASE p = <<v, TRUE>>
  BY <1>3, <1>4, <1>5, <1>6
<1>7. CASE p = <<v, FALSE>>
  BY <1>3, <1>4, <1>5, <1>7
<1> QED BY <1>2, <1>6, <1>7

\* The models are the sets of literals with one literal of each variable.
LEMMA ModelsAre ==
  ASSUME NEW m
  PROVE  m \in Models <=> m \in SUBSET AllLits /\ \A p \in AllLits : p \in m <=> Neg(p) \notin m
<1>1. ASSUME m \in Models
      PROVE  m \in SUBSET AllLits /\ \A p \in AllLits : p \in m <=> Neg(p) \notin m
  <2>1. PICK f \in [AllVars -> BOOLEAN] : m = {<<v, f[v]>> : v \in AllVars}
    BY <1>1 DEF Models, TotalAssignments
  <2>2. \A v \in AllVars : f[v] \in BOOLEAN
    BY <2>1
  <2>3. m \in SUBSET AllLits
    BY <2>1, <2>2 DEF AllLits, LitsOf
  <2>4. ASSUME NEW v \in AllVars, NEW b \in BOOLEAN
        PROVE  <<v, b>> \in m <=> b = f[v]
    BY <2>1
  <2>5. ASSUME NEW p \in AllLits PROVE p \in m <=> Neg(p) \notin m
    <3>1. PICK v \in AllVars, b \in BOOLEAN : p = <<v, b>>
      BY DEF AllLits, LitsOf
    <3>2. Neg(<<v, TRUE>>) = <<v, FALSE>> /\ Neg(<<v, FALSE>>) = <<v, TRUE>>
      BY DEF Neg
    <3>3. /\ <<v, TRUE>> \in m <=> f[v] = TRUE
          /\ <<v, FALSE>> \in m <=> f[v] = FALSE
      BY <2>4
    <3>4. <<v, TRUE>> \in m <=> <<v, FALSE>> \notin m
      BY <2>2, <3>3
    <3>5. CASE b = TRUE
      BY <3>1, <3>2, <3>4, <3>5
    <3>6. CASE b = FALSE
      BY <3>1, <3>2, <3>4, <3>6
    <3> QED BY <3>5, <3>6
  <2> QED BY <2>3, <2>5
<1>2. ASSUME m \in SUBSET AllLits, \A p \in AllLits : p \in m <=> Neg(p) \notin m
      PROVE  m \in Models
  <2> DEFINE f == [v \in AllVars |-> IF <<v, TRUE>> \in m THEN TRUE ELSE FALSE]
  <2>1. f \in [AllVars -> BOOLEAN]
    OBVIOUS
  <2>2. ASSUME NEW v \in AllVars PROVE /\ f[v] = IF <<v, TRUE>> \in m THEN TRUE ELSE FALSE
                                       /\ <<v, TRUE>> \in AllLits /\ <<v, FALSE>> \in AllLits
                                       /\ <<v, TRUE>> \in m <=> <<v, FALSE>> \notin m
    <3>1. <<v, TRUE>> \in AllLits /\ <<v, FALSE>> \in AllLits
      BY DEF AllLits, LitsOf
    <3>2. Neg(<<v, TRUE>>) = <<v, FALSE>>
      BY DEF Neg
    <3> QED BY <1>2, <3>1, <3>2
  <2>3. ASSUME NEW v \in AllVars, NEW b \in BOOLEAN PROVE <<v, b>> \in m <=> b = f[v]
    <3> HIDE DEF f
    <3>0. /\ f[v] = TRUE <=> <<v, TRUE>> \in m
          /\ f[v] = FALSE <=> <<v, FALSE>> \in m
      BY <2>2
    <3>1. CASE b = TRUE
      BY <3>0, <3>1
    <3>2. CASE b = FALSE
      BY <3>0, <3>2
    <3> QED BY <3>1, <3>2
  <2> HIDE DEF f
  <2>4. \A v \in AllVars : f[v] \in BOOLEAN
    BY <2>1
  <2>5. m = {<<v, f[v]>> : v \in AllVars}
    <3>1. ASSUME NEW p \in m PROVE p \in {<<v, f[v]>> : v \in AllVars}
      <4>1. PICK v \in AllVars, b \in BOOLEAN : p = <<v, b>>
        BY <1>2 DEF AllLits, LitsOf
      <4>2. b = f[v]
        BY <2>3, <4>1
      <4> QED BY <4>1, <4>2
    <3>2. ASSUME NEW v \in AllVars PROVE <<v, f[v]>> \in m
      BY <2>3, <2>4
    <3> QED BY <3>1, <3>2
  <2> QED BY <2>1, <2>5 DEF Models, TotalAssignments
<1> QED BY <1>1, <1>2

\* A model with another value for one variable.
LEMMA FlippedModel ==
  ASSUME NEW m \in Models, NEW p \in AllLits
  PROVE  LET x == {q \in m : q[1] # p[1]} \cup {p}
         IN  x \in Models /\ \A q \in AllLits : q[1] # p[1] => (q \in x <=> q \in m)
<1> DEFINE x == {q \in m : q[1] # p[1]} \cup {p}
<1>1. m \in SUBSET AllLits /\ \A q \in AllLits : q \in m <=> Neg(q) \notin m
  BY ModelsAre
<1>2. x \in SUBSET AllLits
  BY <1>1
<1>3. ASSUME NEW q \in AllLits PROVE q \in x <=> Neg(q) \notin x
  <2>1. CASE q[1] = p[1]
    <3>1. q = p \/ q = Neg(p)
      BY <2>1, Literals
    <3>2. Neg(p) # p /\ Neg(Neg(p)) = p /\ Neg(p)[1] = p[1]
      BY Literals
    <3> QED BY <3>1, <3>2
  <2>2. CASE q[1] # p[1]
    <3>1. Neg(q)[1] = q[1] /\ Neg(q) \in AllLits /\ q # p /\ Neg(q) # p
      BY <2>2, Literals
    <3> QED BY <1>1, <2>2, <3>1
  <2> QED BY <2>1, <2>2
<1>4. x \in Models
  BY <1>2, <1>3, ModelsAre
<1> QED BY <1>1, <1>4

\* Induction: a set of numbers with 0 and the successor of each of its
\* members below N has all numbers up to N.
LEMMA UpTo ==
  ASSUME NEW N \in Nat, NEW S, 0 \in S, \A n \in 0..N : n \in S /\ n # N => n + 1 \in S
  PROVE  0..N \subseteq S
<1> DEFINE R == {n \in 0..N : n \notin S}
<1> SUFFICES ASSUME R # {} PROVE FALSE
  OBVIOUS
<1>1. R \subseteq Nat
  OBVIOUS
<1> HIDE DEF R
<1>2. \E m \in R : \A x \in R : <<x, m>> \notin OpToRel(<, Nat)
  BY <1>1, NatLessThanWellFounded, WFMin
<1>3. PICK m \in R : \A x \in R : ~(x < m)
  BY <1>1, <1>2 DEF OpToRel
<1> USE DEF R
<1>4. m \in 0..N /\ m # 0 /\ m - 1 \in 0..N /\ m - 1 # N /\ m - 1 < m /\ (m - 1) + 1 = m
  BY <1>3
<1>5. m - 1 \in S
  BY <1>3, <1>4
<1>6. (m - 1) + 1 \in S
  BY <1>4, <1>5
<1> QED BY <1>3, <1>4, <1>6

-----------------------------------------------------------------------------
(* Unit propagation.                                                       *)

\* The waves of unit propagation are a function.
LEMMA WaveExists ==
  ASSUME NEW cls, NEW ps, NEW N \in Nat
  PROVE  \E f : f = [n \in 0..N |-> IF n = 0 THEN ps ELSE Deduced(cls, f[n - 1])]
<1> DEFINE Exists(n) == \E f : f = [m \in 0..n |-> IF m = 0 THEN ps ELSE Deduced(cls, f[m - 1])]
           S == {n \in Nat : Exists(n)}
<1>1. 0 \in S
  <2> DEFINE f == [m \in 0..0 |-> ps]
  <2>1. f = [m \in 0..0 |-> IF m = 0 THEN ps ELSE Deduced(cls, f[m - 1])]
    OBVIOUS
  <2> QED BY <2>1
<1>2. ASSUME NEW n \in Nat, n \in S PROVE n + 1 \in S
  <2>1. PICK f : f = [m \in 0..n |-> IF m = 0 THEN ps ELSE Deduced(cls, f[m - 1])]
    BY <1>2
  <2> DEFINE g == [m \in 0..(n + 1) |-> IF m = n + 1 THEN Deduced(cls, f[n]) ELSE f[m]]
             h == [m \in 0..(n + 1) |-> IF m = 0 THEN ps ELSE Deduced(cls, g[m - 1])]
  <2>2. ASSUME NEW m \in 0..(n + 1) PROVE g[m] = h[m]
    <3>1. CASE m = 0
      <4>1. 0 \in 0..n /\ 0 # n + 1
        OBVIOUS
      <4>2. g[0] = f[0] /\ f[0] = ps
        BY <2>1, <4>1
      <4> QED BY <3>1, <4>2
    <3>2. CASE m \in 1..n
      <4>1. m \in 0..n /\ m # 0 /\ m # n + 1 /\ m - 1 \in 0..n /\ m - 1 \in 0..(n + 1) /\ m - 1 # n + 1
        BY <3>2
      <4>2. g[m] = f[m] /\ g[m - 1] = f[m - 1] /\ f[m] = Deduced(cls, f[m - 1])
        BY <2>1, <4>1
      <4> QED BY <4>1, <4>2
    <3>3. CASE m = n + 1
      <4>1. n \in 0..(n + 1) /\ n # n + 1 /\ m # 0 /\ m - 1 = n
        BY <3>3
      <4>2. g[m] = Deduced(cls, f[n]) /\ g[n] = f[n]
        BY <3>3, <4>1
      <4> QED BY <4>1, <4>2
    <3> QED BY <3>1, <3>2, <3>3
  <2>3. g = h
    BY <2>2
  <2>4. Exists(n + 1)
    BY <2>3
  <2> HIDE DEF Exists
  <2> QED BY <2>4
<1> HIDE DEF S
<1>3. 0..N \subseteq S
  BY <1>1, <1>2, UpTo
<1> QED BY <1>3 DEF S

\* Nothing is lost in propagation, and what it finds holds in every model.
LEMMA Propagation ==
  ASSUME NEW cls \in SUBSET SUBSET AllLits, NEW ps \in SUBSET AllLits, IsFiniteSet(AllVars)
  PROVE  /\ ps \subseteq UnitClosure(cls, ps) /\ UnitClosure(cls, ps) \subseteq AllLits
         /\ \A m \in Models : Satisfies(m, cls) /\ ps \subseteq m => UnitClosure(cls, ps) \subseteq m
<1> DEFINE last == Cardinality(VarsIn(cls)) + 1
           wave == CHOOSE f : f = [n \in 0..last |-> IF n = 0 THEN ps ELSE Deduced(cls, f[n - 1])]
           Right(ks) == /\ ps \subseteq ks /\ ks \subseteq AllLits
                        /\ \A m \in Models : Satisfies(m, cls) /\ ps \subseteq m => ks \subseteq m
           S == {n \in 0..last : Right(wave[n])}
<1>1. last \in Nat
  <2>1. VarsIn(cls) \subseteq AllVars
    BY Literals DEF VarsIn, VarsOf
  <2>2. Cardinality(VarsIn(cls)) \in Nat
    BY <2>1, FS_Subset, FS_CardinalityType
  <2> QED BY <2>2
<1>2. UnitClosure(cls, ps) = wave[last]
  BY DEF UnitClosure, Deduced
<1> HIDE DEF last
<1>3. wave = [n \in 0..last |-> IF n = 0 THEN ps ELSE Deduced(cls, wave[n - 1])]
  BY <1>1, WaveExists
<1> HIDE DEF wave
<1>4. 0 \in S
  <2>1. 0 \in 0..last /\ wave[0] = ps
    BY <1>1, <1>3
  <2> QED BY <2>1
<1>5. ASSUME NEW n \in 0..last, n \in S, n # last PROVE n + 1 \in S
  <2>1. n + 1 \in 0..last /\ wave[n + 1] = Deduced(cls, wave[n])
    <3>1. n + 1 \in 0..last /\ n + 1 # 0 /\ (n + 1) - 1 = n
      BY <1>1, <1>5
    <3> QED BY <1>3, <3>1
  <2>2. PICK known : known = wave[n]
    OBVIOUS
  <2>3. Right(known)
    BY <1>5, <2>2
  <2>4. ps \subseteq Deduced(cls, known) /\ Deduced(cls, known) \subseteq AllLits
    BY <2>3 DEF Deduced, Implied
  <2>5. ASSUME NEW m \in Models, Satisfies(m, cls), ps \subseteq m, NEW c \in cls, NEW p \in Implied(c, known)
        PROVE  p \in m
    <3>1. p \in c /\ \A q \in c \ {p} : Neg(q) \in m
      BY <2>3, <2>5 DEF Implied
    <3>2. PICK q \in c : q \in m
      BY <2>5 DEF Satisfies
    <3>3. Neg(q) \notin m
      BY <3>2, ModelsAre
    <3> QED BY <3>1, <3>2, <3>3
  <2>6. Right(Deduced(cls, known))
    BY <2>3, <2>4, <2>5 DEF Deduced
  <2> HIDE DEF Right
  <2> QED BY <2>1, <2>2, <2>6
<1>6. last \in S
  <2> HIDE DEF S
  <2>1. 0..last \subseteq S
    BY <1>1, <1>4, <1>5, UpTo
  <2> QED BY <1>1, <2>1
<1> QED BY <1>2, <1>6

\* There are finitely many variables, literals and clauses, and a clause has
\* as many literals as its size says.
LEMMA FiniteData ==
  /\ IsFiniteSet(AllVars) /\ IsFiniteSet(SUBSET AllLits)
  /\ \A c \in SUBSET AllLits : IsFiniteSet(c) /\ Cardinality(c) \in Nat
                                /\ (Cardinality(c) = 1 => \E p : c = {p})
                                /\ (Cardinality(c) = 0 <=> c = {})
<1>1. Clause \in SUBSET SUBSET AllLits
  BY PreprocessingAssumption DEF AllLits, AllVars
<1>2. ASSUME NEW c \in Clause PROVE IsFiniteSet(VarsOf(c))
  <2>1. IsFiniteSet(c)
    BY PreprocessingAssumption
  <2> DEFINE f == [p \in c |-> p[1]]
  <2>2. f \in Surjection(c, VarsOf(c))
    BY DEF Surjection, VarsOf
  <2> QED BY <2>1, <2>2, FS_Surjection
<1>3. IsFiniteSet({VarsOf(c) : c \in Clause})
  <2> DEFINE f == [c \in Clause |-> VarsOf(c)]
             T == {VarsOf(c) : c \in Clause}
  <2>1. f \in Surjection(Clause, T)
    BY DEF Surjection
  <2> QED BY <2>1, FS_Surjection, PreprocessingAssumption
<1>4. IsFiniteSet(AllVars)
  <2> DEFINE T == {VarsOf(c) : c \in Clause}
  <2>1. \A x \in T : IsFiniteSet(x)
    BY <1>2
  <2> HIDE DEF T
  <2>2. IsFiniteSet(UNION T)
    BY <1>3, <2>1, FS_UNION DEF T
  <2> QED BY <2>2 DEF T, AllVars, VarsIn
<1>5. IsFiniteSet(AllLits)
  <2>1. IsFiniteSet(BOOLEAN)
    <3>1. BOOLEAN = {TRUE, FALSE}
      OBVIOUS
    <3>2. IsFiniteSet({TRUE}) /\ IsFiniteSet({TRUE} \cup {FALSE})
      BY FS_Singleton, FS_Union
    <3>3. {TRUE} \cup {FALSE} = {TRUE, FALSE}
      OBVIOUS
    <3> QED BY <3>1, <3>2, <3>3
  <2> QED BY <1>4, <2>1, FS_Product DEF AllLits, LitsOf
<1>6. ASSUME NEW c \in SUBSET AllLits
      PROVE  /\ IsFiniteSet(c) /\ Cardinality(c) \in Nat
             /\ (Cardinality(c) = 1 => \E p : c = {p})
             /\ (Cardinality(c) = 0 <=> c = {})
  BY <1>5, FS_Subset, FS_CardinalityType, FS_Singleton, FS_EmptySet
<1> QED BY <1>4, <1>5, <1>6, FS_SUBSET

\* The variables of clauses of the solver are variables of the solver.
LEMMA VarsOfClauses ==
  /\ \A c \in SUBSET AllLits : VarsOf(c) \subseteq AllVars
  /\ \A cs \in SUBSET SUBSET AllLits : VarsIn(cs) \subseteq AllVars
BY Literals DEF VarsOf, VarsIn

-----------------------------------------------------------------------------
(* What the operations of the solver add to what it says.                  *)

\* Putting variables on the elimination heap changes nothing else.
LEMMA HeapUpdated ==
  ASSUME NEW s \in SolverRecord, NEW vs \in SUBSET AllVars
  PROVE  /\ UpdateHeap(s, vs) \in SolverRecord
         /\ \E h \in SUBSET AllVars : UpdateHeap(s, vs) = [s EXCEPT !.heap = h]
<1>1. PICK h : h = s.heap \cup (vs \ (s.frozen \cup s.eliminated \cup Valued(s)))
  OBVIOUS
<1>2. s.heap \in SUBSET AllVars
  BY DEF SolverRecord
<1>3. h \in SUBSET AllVars
  BY <1>1, <1>2
<1>4. UpdateHeap(s, vs) = [s EXCEPT !.heap = h]
  BY <1>1 DEF UpdateHeap
<1>5. [s EXCEPT !.heap = h] \in SolverRecord
  BY <1>3 DEF SolverRecord
<1> QED BY <1>3, <1>4, <1>5

\* A unit clause that is enqueued and propagated is all that is added to what
\* the solver says (uncheckedEnqueue() and propagate()).
LEMMA EnqueueAdds ==
  ASSUME NEW s, Fine(s), NEW p \in AllLits
  PROVE  /\ Adds(s, Enqueue(s, p), {p})
         /\ SameBooks(s, Enqueue(s, p)) /\ s.trail \subseteq Enqueue(s, p).trail
<1>1. /\ s \in SolverRecord /\ s.loose = {} /\ s.listed \in SUBSET SUBSET AllLits
      /\ s.trail \in SUBSET AllLits
  BY DEF Fine, SolverRecord
<1>2. PICK ps : ps = s.trail \cup {p}
  OBVIOUS
<1>3. PICK closure : closure = UnitClosure(s.listed, ps)
  OBVIOUS
<1>4. /\ ps \in SUBSET AllLits /\ closure \in SUBSET AllLits /\ ps \subseteq closure
      /\ \A m \in Models : Satisfies(m, s.listed) /\ ps \subseteq m => closure \subseteq m
  BY <1>1, <1>2, <1>3, Propagation, FiniteData
<1>5. Enqueue(s, p) = IF Consistent(closure) THEN [s EXCEPT !.trail = closure]
                      ELSE [s EXCEPT !.trail = ps, !.ok = FALSE]
  <2>1. Attached(s) = s.listed
    BY <1>1 DEF Attached
  <2>2. s.trail \cup {p} = ps
    BY <1>2
  <2> QED BY <1>3, <2>1, <2>2 DEF Enqueue
<1>6. CASE Consistent(closure)
  <2>1. PICK t : t = [s EXCEPT !.trail = closure]
    OBVIOUS
  <2>2. /\ t \in SolverRecord /\ t.trail = closure /\ t.ok = s.ok
        /\ SameBooks(s, t) /\ SameMemory(s, t)
    BY <1>1, <1>4, <2>1 DEF SolverRecord, SameMemory, SameBooks
  <2>3. Fine(t)
    BY <1>2, <1>4, <1>6, <2>2 DEF Fine, SameBooks
  <2>4. \A m \in Models : Means(t, m) <=> Means(s, m) /\ m \cap {p} # {}
    BY <1>2, <1>4, <2>2 DEF Means, SameBooks
  <2> QED BY <1>2, <1>4, <1>5, <1>6, <2>1, <2>2, <2>3, <2>4 DEF Adds
<1>7. CASE ~Consistent(closure)
  <2>1. PICK t : t = [s EXCEPT !.trail = ps, !.ok = FALSE]
    OBVIOUS
  <2>2. /\ t \in SolverRecord /\ t.trail = ps /\ t.ok = FALSE
        /\ SameBooks(s, t) /\ SameMemory(s, t)
    BY <1>1, <1>4, <2>1 DEF SolverRecord, SameMemory, SameBooks
  <2>3. Fine(t)
    BY <1>2, <2>2 DEF Fine, SameBooks
  <2>4. ASSUME NEW m \in Models, Means(s, m), p \in m PROVE FALSE
    <3>1. closure \subseteq m
      BY <1>2, <1>4, <2>4 DEF Means
    <3>2. Consistent(closure)
      BY <1>4, <3>1, ModelsAre DEF Consistent
    <3> QED BY <1>7, <3>2
  <2>5. \A m \in Models : Means(t, m) <=> Means(s, m) /\ m \cap {p} # {}
    BY <2>2, <2>4 DEF Means
  <2> QED BY <1>2, <1>5, <1>7, <2>1, <2>2, <2>3, <2>5 DEF Adds
<1> QED BY <1>6, <1>7

\* addClause_() adds the clause, and nothing else, to what the solver says,
\* whether it is stored, enqueued, already true or a contradiction.
LEMMA AddListedAdds ==
  ASSUME NEW s, Fine(s), NEW c \in SUBSET AllLits
  PROVE  Adds(s, AddListed(s, c), c)
<1>1. /\ s \in SolverRecord /\ s.listed \in SUBSET SUBSET AllLits /\ s.trail \in SUBSET AllLits
  BY DEF Fine, SolverRecord
<1>2. PICK r : r = Reduced(s, c)
  OBVIOUS
<1>3. r \in SUBSET c /\ r \in SUBSET AllLits /\ r = {p \in c : Neg(p) \notin s.trail}
  BY <1>2 DEF Reduced
<1>4. ASSUME NEW m \in Models, Means(s, m) PROVE m \cap c = m \cap r
  <2>1. s.trail \subseteq m
    BY <1>4 DEF Means
  <2>2. ASSUME NEW p \in m, p \in c PROVE Neg(p) \notin s.trail
    <3>1. Neg(p) \notin m
      BY <2>2, ModelsAre
    <3> QED BY <2>1, <3>1
  <2> QED BY <1>3, <2>2
<1>5. CASE ~s.ok \/ Redundant(s, c)
  <2>1. AddListed(s, c) = s
    BY <1>5 DEF AddListed, AddLoose
  <2>2. ASSUME NEW m \in Models, Means(s, m) PROVE m \cap c # {}
    <3>1. s.ok /\ s.trail \subseteq m
      BY <2>2 DEF Means
    <3>2. CASE c \cap s.trail # {}
      BY <3>1, <3>2
    <3>3. CASE Tautology(c)
      <4>1. PICK p \in c : Neg(p) \in c
        BY <3>3 DEF Tautology
      <4>2. p \in m \/ Neg(p) \in m
        BY <4>1, ModelsAre
      <4> QED BY <4>1, <4>2
    <3> QED BY <1>5, <3>1, <3>2, <3>3 DEF Redundant
  <2> QED BY <2>1, <2>2 DEF Adds, SameMemory
<1>6. CASE s.ok /\ ~Redundant(s, c) /\ r = {}
  <2>1. Cardinality(r) = 0
    BY <1>3, <1>6, FiniteData
  <2>2. AddListed(s, c) = [s EXCEPT !.ok = FALSE]
    BY <1>2, <1>6, <2>1 DEF AddListed, AddLoose
  <2>3. PICK t : t = [s EXCEPT !.ok = FALSE]
    OBVIOUS
  <2>4. /\ t \in SolverRecord /\ t.trail = s.trail /\ t.listed = s.listed /\ t.ok = FALSE
        /\ t.queue = s.queue /\ t.checked = s.checked /\ SameMemory(s, t)
    BY <1>1, <2>3 DEF SolverRecord, SameMemory
  <2>5. Fine(t)
    BY <2>4 DEF Fine
  <2>6. \A m \in Models : ~Means(t, m) /\ ~(Means(s, m) /\ m \cap c # {})
    BY <1>4, <1>6, <2>4 DEF Means
  <2> QED BY <2>2, <2>3, <2>4, <2>5, <2>6 DEF Adds
<1>7. CASE s.ok /\ ~Redundant(s, c) /\ Cardinality(r) = 1
  <2>1. PICK p : r = {p}
    BY <1>3, <1>7, FiniteData
  <2>2. p \in AllLits /\ (CHOOSE q \in r : TRUE) = p /\ r # {}
    BY <1>3, <2>1
  <2>3. AddListed(s, c) = Enqueue(s, p)
    <3>1. AddListed(s, c) = AddLoose(s, c)
      BY <1>2, <1>7 DEF AddListed
    <3>2. AddLoose(s, c) = Enqueue(s, CHOOSE q \in r : TRUE)
      BY <1>2, <1>7, <2>2 DEF AddLoose
    <3> QED BY <2>2, <3>1, <3>2
  <2>4. PICK t : t = Enqueue(s, p)
    OBVIOUS
  <2>5. Adds(s, t, r)
    BY <2>1, <2>2, <2>4, EnqueueAdds
  <2>6. \A m \in Models : Means(t, m) <=> Means(s, m) /\ m \cap c # {}
    BY <1>4, <2>5 DEF Adds
  <2> QED BY <2>3, <2>4, <2>5, <2>6 DEF Adds
<1>8. CASE s.ok /\ ~Redundant(s, c) /\ Cardinality(r) >= 2
  <2>1. PICK t : t = [s EXCEPT !.listed = @ \cup {r}, !.queue = @ \cup {r}, !.touched = @ \cup VarsOf(r)]
    OBVIOUS
  <2>2. AddListed(s, c) = t
    <3>1. Cardinality(r) \in Nat
      BY <1>3, FiniteData
    <3>2. ~(Cardinality(r) < 2)
      BY <1>8, <3>1
    <3> QED BY <1>2, <1>8, <2>1, <3>2 DEF AddListed
  <2>3. /\ t.trail = s.trail /\ t.listed = s.listed \cup {r} /\ t.ok = s.ok
        /\ t.queue = s.queue \cup {r} /\ t.checked = s.checked /\ SameMemory(s, t)
    BY <1>1, <2>1 DEF SolverRecord, SameMemory
  <2>4. t \in SolverRecord
    <3>1. VarsOf(r) \subseteq AllVars
      BY <1>3, VarsOfClauses
    <3> QED BY <1>1, <1>3, <2>1, <3>1 DEF SolverRecord
  <2>5. ~Tautology(r)
    BY <1>3, <1>8 DEF Redundant, Tautology
  <2>6. Fine(t)
    BY <1>8, <2>3, <2>4, <2>5 DEF Fine
  <2>7. \A m \in Models : Means(t, m) <=> Means(s, m) /\ m \cap r # {}
    BY <2>3 DEF Means, Satisfies
  <2> QED BY <1>4, <2>2, <2>3, <2>6, <2>7 DEF Adds
<1> QED
  <2>1. Cardinality(r) \in Nat /\ (Cardinality(r) = 0 <=> r = {})
    BY <1>3, FiniteData
  <2> QED BY <1>5, <1>6, <1>7, <1>8, <2>1

\* What the solver knows holds in each of its models.
LEMMA KnownHolds ==
  ASSUME NEW s, Fine(s), NEW m, Means(s, m), NEW c \in Known(s)
  PROVE  m \cap c # {} /\ c \in SUBSET AllLits
<1>1. s.listed \in SUBSET SUBSET AllLits /\ s.trail \in SUBSET AllLits
  BY DEF Fine, SolverRecord
<1> QED BY <1>1 DEF Known, Means, Satisfies

\* Removing clauses leaves the other clauses and the assignments alone.
LEMMA ClausesRemoved ==
  ASSUME NEW s, Fine(s), NEW cs \in SUBSET s.listed
  PROVE  LET t == RemoveClauses(s, cs)
         IN  /\ Fine(t) /\ SameMemory(s, t)
             /\ t.listed = s.listed \ cs /\ t.trail = s.trail /\ t.ok = s.ok
             /\ t.queue = s.queue \ cs /\ t.touched = s.touched /\ t.checked = s.checked
<1>1. /\ s \in SolverRecord /\ s.listed \in SUBSET SUBSET AllLits
  BY DEF Fine, SolverRecord
<1>2. PICK u : u = [s EXCEPT !.listed = @ \ cs, !.queue = @ \ cs]
  OBVIOUS
<1>3. u \in SolverRecord
  BY <1>1, <1>2 DEF SolverRecord
<1>4. /\ u.listed = s.listed \ cs /\ u.queue = s.queue \ cs /\ u.trail = s.trail /\ u.ok = s.ok
      /\ u.checked = s.checked /\ u.touched = s.touched /\ SameMemory(s, u)
  BY <1>1, <1>2 DEF SolverRecord, SameMemory
<1>5. VarsIn(cs) \in SUBSET AllVars
  BY <1>1, VarsOfClauses
<1>6. PICK h \in SUBSET AllVars : UpdateHeap(u, VarsIn(cs)) = [u EXCEPT !.heap = h]
  BY <1>3, <1>5, HeapUpdated
<1>7. PICK t : t = [u EXCEPT !.heap = h]
  OBVIOUS
<1>8. RemoveClauses(s, cs) = t /\ t \in SolverRecord
  BY <1>2, <1>3, <1>5, <1>6, <1>7, HeapUpdated DEF RemoveClauses
<1>9. /\ t.listed = s.listed \ cs /\ t.queue = s.queue \ cs /\ t.trail = s.trail /\ t.ok = s.ok
      /\ t.checked = s.checked /\ t.touched = s.touched /\ SameMemory(s, t)
  BY <1>3, <1>4, <1>7 DEF SolverRecord, SameMemory
<1>10. Fine(t)
  BY <1>8, <1>9 DEF Fine
<1> QED BY <1>8, <1>9, <1>10

\* A subsumed clause says nothing new.
LEMMA SubsumedRemoved ==
  ASSUME NEW s, Fine(s), NEW b \in Known(s), NEW d \in s.listed, Subsumes(b, d)
  PROVE  LET t == RemoveClauses(s, {d})
         IN  SameModels(s, t) /\ b \in Known(t) /\ t.ok = s.ok
<1>1. PICK t : t = RemoveClauses(s, {d})
  OBVIOUS
<1>2. Fine(t) /\ SameMemory(s, t) /\ t.listed = s.listed \ {d} /\ t.trail = s.trail /\ t.ok = s.ok
  BY <1>1, ClausesRemoved
<1>3. b \in Known(t) /\ b \subseteq d
  BY <1>2 DEF Known, Subsumes
<1>4. ASSUME NEW m \in Models, Means(s, m) PROVE Means(t, m)
  BY <1>2, <1>4 DEF Means, Satisfies
<1>5. ASSUME NEW m \in Models, Means(t, m) PROVE Means(s, m)
  <2>1. m \cap d # {}
    BY <1>2, <1>3, <1>5, KnownHolds
  <2> QED BY <1>2, <1>5, <2>1 DEF Means, Satisfies
<1> QED BY <1>1, <1>2, <1>3, <1>4, <1>5 DEF SameModels

\* A literal that another clause resolves away is not needed.
LEMMA OtherStrengthened ==
  ASSUME NEW s, Fine(s), NEW b \in Known(s), NEW d \in s.listed, NEW p \in Strengthens(b, d)
  PROVE  LET t == StrengthenClause(s, d, p)
         IN  SameModels(s, t) /\ b \in Known(t)
<1>1. /\ s \in SolverRecord /\ s.listed \in SUBSET SUBSET AllLits /\ s.trail \in SUBSET AllLits
      /\ d \in SUBSET AllLits /\ Cardinality(d) >= 2 /\ ~Tautology(d)
  BY DEF Fine, SolverRecord
<1>2. p \in d /\ Neg(p) \in b /\ b \ {Neg(p)} \subseteq d \ {p} /\ b # d /\ p \in AllLits
  BY <1>1 DEF Strengthens
<1>3. PICK rest : rest = d \ {p}
  OBVIOUS
<1>4. rest \in SUBSET AllLits /\ Cardinality(rest) \in Nat /\ Cardinality(rest) >= 1 /\ ~Tautology(rest)
  <2>1. IsFiniteSet(d) /\ Cardinality(d) \in Nat
    BY <1>1, FiniteData
  <2>2. Cardinality(rest) = Cardinality(d) - 1
    BY <1>2, <1>3, <2>1, FS_RemoveElement
  <2> QED BY <1>1, <1>3, <2>1, <2>2 DEF Tautology
<1>5. ASSUME NEW m \in Models, Means(s, m) PROVE m \cap rest # {}
  <2>1. m \cap d # {} /\ m \cap b # {}
    <3>1. d \in Known(s)
      BY DEF Known
    <3> QED BY <1>5, <3>1, KnownHolds
  <2>2. p \in m => Neg(p) \notin m
    BY <1>2, ModelsAre
  <2> QED BY <1>2, <1>3, <2>1, <2>2
<1>6. PICK t : t = StrengthenClause(s, d, p)
  OBVIOUS
<1>7. CASE Cardinality(rest) = 1
  <2>1. PICK q : rest = {q}
    BY <1>4, <1>7, FiniteData
  <2>2. q \in AllLits /\ (CHOOSE l \in rest : TRUE) = q /\ q \in d
    BY <1>3, <1>4, <2>1
  <2>3. PICK r : r = RemoveClauses(s, {d})
    OBVIOUS
  <2>4. /\ Fine(r) /\ SameMemory(s, r) /\ r.listed = s.listed \ {d}
        /\ r.trail = s.trail /\ r.ok = s.ok
    BY <2>3, ClausesRemoved
  <2>5. t = IF Neg(q) \in s.trail THEN [r EXCEPT !.ok = FALSE] ELSE Enqueue(r, q)
    <3>1. Cardinality(d \ {p}) = 1 /\ (CHOOSE l \in d \ {p} : TRUE) = q
      BY <1>3, <1>7, <2>2
    <3>2. StrengthenClause(s, d, p) =
            IF Neg(CHOOSE l \in d \ {p} : TRUE) \in s.trail THEN [RemoveClauses(s, {d}) EXCEPT !.ok = FALSE]
            ELSE Enqueue(RemoveClauses(s, {d}), CHOOSE l \in d \ {p} : TRUE)
      BY <3>1 DEF StrengthenClause
    <3> QED BY <1>6, <2>3, <3>1, <3>2
  <2>6. ASSUME NEW m \in Models PROVE Means(s, m) <=> Means(r, m) /\ q \in m
    <3>1. Means(s, m) => q \in m
      BY <1>5, <2>1
    <3>2. q \in m => m \cap d # {}
      BY <2>2
    <3> QED BY <2>4, <3>1, <3>2 DEF Means, Satisfies
  <2>7. b \in Known(r)
    BY <1>2, <2>4 DEF Known
  <2>8. CASE Neg(q) \in s.trail
    <3>1. t = [r EXCEPT !.ok = FALSE] /\ r \in SolverRecord
      BY <2>4, <2>5, <2>8 DEF Fine
    <3>2. /\ t \in SolverRecord /\ t.trail = r.trail /\ t.listed = r.listed /\ t.ok = FALSE
          /\ t.queue = r.queue /\ t.checked = r.checked /\ SameMemory(s, t)
      BY <2>4, <3>1 DEF SolverRecord, SameMemory
    <3>3. Fine(t)
      BY <2>4, <3>2 DEF Fine
    <3>4. ASSUME NEW m \in Models PROVE ~Means(s, m)
      <4>1. q \in m => Neg(q) \notin m
        BY <2>2, ModelsAre
      <4> QED BY <2>6, <2>8, <4>1 DEF Means
    <3>5. \A m \in Models : ~Means(t, m)
      BY <3>2 DEF Means
    <3>6. b \in Known(t)
      BY <2>7, <3>2 DEF Known
    <3> QED BY <1>6, <3>2, <3>3, <3>4, <3>5, <3>6 DEF SameModels
  <2>9. CASE Neg(q) \notin s.trail
    <3>1. Adds(r, t, {q}) /\ t.listed = r.listed /\ r.trail \subseteq t.trail
      BY <2>2, <2>4, <2>5, <2>9, EnqueueAdds DEF SameBooks
    <3>2. Fine(t) /\ SameMemory(s, t)
      BY <2>4, <3>1 DEF Adds, SameMemory
    <3>3. \A m \in Models : Means(t, m) <=> Means(s, m)
      <4>1. \A m \in Models : Means(t, m) <=> Means(r, m) /\ m \cap {q} # {}
        BY <3>1 DEF Adds
      <4> QED BY <2>6, <4>1
    <3>4. b \in Known(t)
      BY <2>7, <3>1 DEF Known
    <3> QED BY <1>6, <3>2, <3>3, <3>4 DEF SameModels
  <2> QED BY <2>8, <2>9
<1>8. CASE Cardinality(rest) # 1
  <2>1. PICK u : u = [s EXCEPT !.listed = (@ \ {d}) \cup {rest}, !.queue = (@ \ {d}) \cup {rest}]
    OBVIOUS
  <2>2. u \in SolverRecord
    BY <1>1, <1>4, <2>1 DEF SolverRecord
  <2>3. /\ u.listed = (s.listed \ {d}) \cup {rest} /\ u.queue = (s.queue \ {d}) \cup {rest}
        /\ u.trail = s.trail /\ u.ok = s.ok /\ u.checked = s.checked /\ SameMemory(s, u)
    BY <1>1, <2>1 DEF SolverRecord, SameMemory
  <2>4. {p[1]} \in SUBSET AllVars
    BY <1>2, Literals
  <2>5. PICK h \in SUBSET AllVars : UpdateHeap(u, {p[1]}) = [u EXCEPT !.heap = h]
    BY <2>2, <2>4, HeapUpdated
  <2>6. t = [u EXCEPT !.heap = h] /\ t \in SolverRecord
    <3>1. t = UpdateHeap(u, {p[1]})
      BY <1>3, <1>6, <1>8, <2>1 DEF StrengthenClause
    <3> QED BY <2>2, <2>4, <2>5, <3>1, HeapUpdated
  <2>7. /\ t.listed = (s.listed \ {d}) \cup {rest} /\ t.queue = (s.queue \ {d}) \cup {rest}
        /\ t.trail = s.trail /\ t.ok = s.ok /\ t.checked = s.checked /\ SameMemory(s, t)
    BY <2>2, <2>3, <2>6 DEF SolverRecord, SameMemory
  <2>8. Cardinality(rest) >= 2
    BY <1>4, <1>8
  <2>9. Fine(t)
    BY <1>4, <2>6, <2>7, <2>8 DEF Fine
  <2>10. b \in Known(t)
    BY <1>2, <2>7 DEF Known
  <2>11. ASSUME NEW m \in Models PROVE Means(t, m) <=> Means(s, m)
    <3>1. Means(s, m) => m \cap rest # {}
      BY <1>5
    <3>2. m \cap rest # {} => m \cap d # {}
      BY <1>3
    <3> QED BY <2>7, <3>1, <3>2 DEF Means, Satisfies
  <2> QED BY <1>6, <2>7, <2>9, <2>10, <2>11 DEF SameModels
<1> QED BY <1>7, <1>8

-----------------------------------------------------------------------------
(* Extending a model through the removed clauses.                          *)

\* What extendModel() has after each removed clause is a function.
LEMMA RestoresExist ==
  ASSUME NEW base, NEW seq, NEW N \in Nat
  PROVE  \E f : f = [i \in 0..N |-> IF i = 0 THEN base ELSE Restore(f[i - 1], seq[i])]
<1> DEFINE Exists(n) == \E f : f = [i \in 0..n |-> IF i = 0 THEN base ELSE Restore(f[i - 1], seq[i])]
           S == {n \in Nat : Exists(n)}
<1>1. 0 \in S
  <2> DEFINE f == [i \in 0..0 |-> base]
  <2>1. f = [i \in 0..0 |-> IF i = 0 THEN base ELSE Restore(f[i - 1], seq[i])]
    OBVIOUS
  <2> QED BY <2>1
<1>2. ASSUME NEW n \in Nat, n \in S PROVE n + 1 \in S
  <2>1. PICK f : f = [i \in 0..n |-> IF i = 0 THEN base ELSE Restore(f[i - 1], seq[i])]
    BY <1>2
  <2> DEFINE g == [i \in 0..(n + 1) |-> IF i = n + 1 THEN Restore(f[n], seq[n + 1]) ELSE f[i]]
             h == [i \in 0..(n + 1) |-> IF i = 0 THEN base ELSE Restore(g[i - 1], seq[i])]
  <2>2. ASSUME NEW i \in 0..(n + 1) PROVE g[i] = h[i]
    <3>1. CASE i = 0
      <4>1. 0 \in 0..n /\ 0 # n + 1
        OBVIOUS
      <4>2. g[0] = f[0] /\ f[0] = base
        BY <2>1, <4>1
      <4> QED BY <3>1, <4>2
    <3>2. CASE i \in 1..n
      <4>1. i \in 0..n /\ i # 0 /\ i # n + 1 /\ i - 1 \in 0..n /\ i - 1 \in 0..(n + 1) /\ i - 1 # n + 1
        BY <3>2
      <4>2. g[i] = f[i] /\ g[i - 1] = f[i - 1] /\ f[i] = Restore(f[i - 1], seq[i])
        BY <2>1, <4>1
      <4> QED BY <4>1, <4>2
    <3>3. CASE i = n + 1
      <4>1. n \in 0..(n + 1) /\ n # n + 1 /\ i # 0 /\ i - 1 = n
        BY <3>3
      <4>2. g[i] = Restore(f[n], seq[i]) /\ g[n] = f[n]
        BY <3>3, <4>1
      <4> QED BY <4>1, <4>2
    <3> QED BY <3>1, <3>2, <3>3
  <2>3. g = h
    BY <2>2
  <2>4. Exists(n + 1)
    BY <2>3
  <2> HIDE DEF Exists
  <2> QED BY <2>4
<1> HIDE DEF S
<1>3. 0..N \subseteq S
  BY <1>1, <1>2, UpTo
<1> QED BY <1>3 DEF S

\* extendModel() ends with what it has after the last removed clause.
LEMMA ThroughRestores ==
  ASSUME NEW base, NEW seq, Len(seq) \in Nat
  PROVE  \E f : RestoresAre(f, base, seq) /\ Through(Restore, base, seq) = f[Len(seq)]
<1> DEFINE after == CHOOSE f : f = [i \in 0..Len(seq) |-> IF i = 0 THEN base ELSE Restore(f[i - 1], seq[i])]
<1>1. after = [i \in 0..Len(seq) |-> IF i = 0 THEN base ELSE Restore(after[i - 1], seq[i])]
  BY RestoresExist
<1>2. Through(Restore, base, seq) = after[Len(seq)]
  BY DEF Through
<1> HIDE DEF after
<1> QED BY <1>1, <1>2 DEF RestoresAre

\* It starts from the model and restores one clause after the other.
LEMMA RestoresSteps ==
  ASSUME NEW f, NEW base, NEW seq, Len(seq) \in Nat, RestoresAre(f, base, seq)
  PROVE  f[0] = base /\ \A i \in 0..Len(seq) : i # Len(seq) => f[i + 1] = Restore(f[i], seq[i + 1])
<1>1. \A i \in 0..Len(seq) : f[i] = IF i = 0 THEN base ELSE Restore(f[i - 1], seq[i])
  BY DEF RestoresAre
<1>2. ASSUME NEW i \in 0..Len(seq), i # Len(seq)
      PROVE  i + 1 \in 0..Len(seq) /\ i + 1 # 0 /\ (i + 1) - 1 = i
  BY <1>2
<1> QED BY <1>1, <1>2

\* Restoring through two sequences is restoring through one, then the other.
LEMMA ThroughBoth ==
  ASSUME NEW X, NEW a \in Seq(X), NEW b \in Seq(X), NEW base
  PROVE  Through(Restore, base, a \o b) = Through(Restore, Through(Restore, base, a), b)
<1>0. PICK ab : ab = a \o b
  OBVIOUS
<1>1. /\ Len(a) \in Nat /\ Len(b) \in Nat /\ Len(ab) = Len(a) + Len(b) /\ Len(ab) \in Nat
      /\ \A i \in 1..Len(a) : ab[i] = a[i]
      /\ \A i \in 1..Len(b) : ab[Len(a) + i] = b[i]
  BY <1>0
<1>2. PICK f : RestoresAre(f, base, a) /\ Through(Restore, base, a) = f[Len(a)]
  BY <1>1, ThroughRestores
<1>3. PICK g : RestoresAre(g, f[Len(a)], b) /\ Through(Restore, f[Len(a)], b) = g[Len(b)]
  BY <1>1, ThroughRestores
<1>4. PICK h : RestoresAre(h, base, ab) /\ Through(Restore, base, ab) = h[Len(ab)]
  BY <1>1, ThroughRestores
<1>11. \A k \in 0..Len(ab) : k # Len(ab) => h[k + 1] = Restore(h[k], ab[k + 1])
  BY <1>1, <1>4, RestoresSteps
<1> DEFINE S == {i \in 0..Len(a) : h[i] = f[i]}
           R == {i \in 0..Len(b) : h[Len(a) + i] = g[i]}
<1>5. 0 \in S
  BY <1>1, <1>2, <1>4, RestoresSteps
<1>6. ASSUME NEW i \in 0..Len(a), i \in S, i # Len(a) PROVE i + 1 \in S
  <2>1. i + 1 \in 1..Len(a) /\ i \in 0..Len(ab) /\ i # Len(ab)
    BY <1>1, <1>6
  <2>2. f[i + 1] = Restore(f[i], a[i + 1])
    BY <1>1, <1>2, <1>6, RestoresSteps
  <2>3. h[i + 1] = Restore(h[i], ab[i + 1])
    BY <1>1, <1>4, <2>1, RestoresSteps
  <2>4. ab[i + 1] = a[i + 1] /\ h[i] = f[i]
    BY <1>1, <1>6, <2>1
  <2> QED BY <2>1, <2>2, <2>3, <2>4
<1>7. h[Len(a)] = f[Len(a)]
  <2> HIDE DEF S
  <2>1. 0..Len(a) \subseteq S
    BY <1>1, <1>5, <1>6, UpTo
  <2>2. Len(a) \in S
    BY <1>1, <2>1
  <2> QED BY <2>2 DEF S
<1>8. 0 \in R
  <2>1. g[0] = f[Len(a)]
    BY <1>1, <1>3, RestoresSteps
  <2> QED BY <1>1, <1>7, <2>1
<1>9. ASSUME NEW i \in 0..Len(b), i \in R, i # Len(b) PROVE i + 1 \in R
  <2>1. /\ i + 1 \in 1..Len(b) /\ Len(a) + i \in 0..Len(ab) /\ Len(a) + i # Len(ab)
        /\ (Len(a) + i) + 1 = Len(a) + (i + 1)
    BY <1>1, <1>9
  <2>2. g[i + 1] = Restore(g[i], b[i + 1])
    BY <1>1, <1>3, <1>9, RestoresSteps
  <2>3. h[(Len(a) + i) + 1] = Restore(h[Len(a) + i], ab[(Len(a) + i) + 1])
    <3>1. PICK k : k = Len(a) + i
      OBVIOUS
    <3>2. h[k + 1] = Restore(h[k], ab[k + 1])
      BY <1>11, <2>1, <3>1
    <3> QED BY <3>1, <3>2
  <2>4. ab[Len(a) + (i + 1)] = b[i + 1] /\ h[Len(a) + i] = g[i]
    BY <1>1, <1>9, <2>1
  <2> QED BY <2>1, <2>2, <2>3, <2>4
<1>10. h[Len(a) + Len(b)] = g[Len(b)]
  <2> HIDE DEF R
  <2>1. 0..Len(b) \subseteq R
    BY <1>1, <1>8, <1>9, UpTo
  <2>2. Len(b) \in R
    BY <1>1, <2>1
  <2> QED BY <2>2 DEF R
<1> QED BY <1>0, <1>1, <1>2, <1>3, <1>4, <1>10

\* extendModel() goes from the last removed clause to the first: what was
\* removed later is restored first.
LEMMA ExtendedBoth ==
  ASSUME NEW X, NEW es \in Seq(X), NEW fs \in Seq(X), NEW m
  PROVE  Extended(es \o fs, m) = Extended(es, Extended(fs, m))
<1>1. /\ Len(es) \in Nat /\ Len(fs) \in Nat /\ Len(es \o fs) = Len(es) + Len(fs)
      /\ \A i \in 1..(Len(es) + Len(fs)) : (es \o fs)[i] = IF i <= Len(es) THEN es[i] ELSE fs[i - Len(es)]
  OBVIOUS
<1>2. ASSUME NEW s \in Seq(X)
      PROVE  /\ Reverse(s) \in Seq(X) /\ Len(Reverse(s)) = Len(s)
             /\ \A i \in 1..Len(s) : Reverse(s)[i] = s[(Len(s) - i) + 1]
  <2>1. \A i \in 1..Len(s) : (Len(s) - i) + 1 \in 1..Len(s)
    OBVIOUS
  <2> QED BY <2>1 DEF Reverse
<1>3. es \o fs \in Seq(X)
  OBVIOUS
<1>4. Reverse(es \o fs) = Reverse(fs) \o Reverse(es)
  <2>1. PICK l, r : l = Reverse(es \o fs) /\ r = Reverse(fs) \o Reverse(es)
    OBVIOUS
  <2>2. l \in Seq(X) /\ Len(l) = Len(es) + Len(fs)
    BY <1>1, <1>2, <1>3, <2>1
  <2>3. /\ r \in Seq(X) /\ Len(r) = Len(es) + Len(fs)
        /\ \A i \in 1..(Len(es) + Len(fs)) :
             r[i] = IF i <= Len(fs) THEN Reverse(fs)[i] ELSE Reverse(es)[i - Len(fs)]
    <3>1. PICK u \in Seq(X), w \in Seq(X) : u = Reverse(fs) /\ w = Reverse(es)
      BY <1>2
    <3>2. Len(u) = Len(fs) /\ Len(w) = Len(es) /\ r = u \o w
      BY <1>2, <2>1, <3>1
    <3>3. /\ u \o w \in Seq(X) /\ Len(u \o w) = Len(u) + Len(w)
          /\ \A i \in 1..(Len(u) + Len(w)) : (u \o w)[i] = IF i <= Len(u) THEN u[i] ELSE w[i - Len(u)]
      OBVIOUS
    <3> QED BY <1>1, <3>1, <3>2, <3>3
  <2>4. ASSUME NEW i \in 1..(Len(es) + Len(fs)) PROVE l[i] = r[i]
    <3>1. l[i] = (es \o fs)[((Len(es) + Len(fs)) - i) + 1]
      BY <1>1, <1>2, <1>3, <2>1
    <3>2. CASE i <= Len(fs)
      <4>1. /\ i \in 1..Len(fs) /\ ((Len(es) + Len(fs)) - i) + 1 \in 1..(Len(es) + Len(fs))
            /\ ~(((Len(es) + Len(fs)) - i) + 1 <= Len(es))
            /\ (((Len(es) + Len(fs)) - i) + 1) - Len(es) = (Len(fs) - i) + 1
        BY <1>1, <3>2
      <4>2. l[i] = fs[(Len(fs) - i) + 1]
        BY <1>1, <3>1, <4>1
      <4> QED BY <1>2, <2>3, <3>2, <4>1, <4>2
    <3>3. CASE ~(i <= Len(fs))
      <4>1. /\ i - Len(fs) \in 1..Len(es) /\ ((Len(es) + Len(fs)) - i) + 1 \in 1..(Len(es) + Len(fs))
            /\ ((Len(es) + Len(fs)) - i) + 1 <= Len(es)
            /\ ((Len(es) + Len(fs)) - i) + 1 = (Len(es) - (i - Len(fs))) + 1
        BY <1>1, <3>3
      <4>2. l[i] = es[(Len(es) - (i - Len(fs))) + 1]
        BY <1>1, <3>1, <4>1
      <4> QED BY <1>2, <2>3, <3>3, <4>1, <4>2
    <3> QED BY <3>2, <3>3
  <2>5. l = r
    BY <2>2, <2>3, <2>4
  <2> QED BY <2>1, <2>5
<1>5. Reverse(fs) \in Seq(X) /\ Reverse(es) \in Seq(X)
  BY <1>2
<1> QED BY <1>4, <1>5, ThroughBoth DEF Extended

-----------------------------------------------------------------------------
(* Resolution.                                                             *)

\* The sequence of a finite set has all of its members and no others.
LEMMA SetToSeqIs ==
  ASSUME NEW S, IsFiniteSet(S)
  PROVE  /\ SetToSeq(S) \in Seq(S) /\ Len(SetToSeq(S)) = Cardinality(S)
         /\ \A x \in S : \E i \in 1..Cardinality(S) : SetToSeq(S)[i] = x
<1>1. Cardinality(S) \in Nat /\ ExistsBijection(1..Cardinality(S), S)
  BY FS_CardinalityType
<1> DEFINE D == 1..Cardinality(S)
           q == SetToSeq(S)
<1>2. \E f \in [D -> S] : IsInjective(f)
  <2>1. PICK f : f \in Bijection(D, S)
    BY <1>1 DEF ExistsBijection
  <2> QED BY <2>1 DEF Bijection, Injection, IsInjective
<1>3. q \in [D -> S] /\ IsInjective(q)
  BY <1>2 DEF SetToSeq
<1>4. IsFiniteSet(D) /\ Cardinality(D) = Cardinality(S)
  BY <1>1, FS_Interval
<1> HIDE DEF q
<1>5. q \in Injection(D, S)
  BY <1>3 DEF Injection, IsInjective
<1>6. q \in Surjection(D, S)
  <2> HIDE DEF D
  <2> QED BY <1>4, <1>5, FS_Injection
<1>7. \A x \in S : \E i \in D : q[i] = x
  BY <1>6 DEF Surjection
<1>8. q \in Seq(S) /\ Len(q) = Cardinality(S)
  BY <1>1, <1>3
<1> QED BY <1>7, <1>8 DEF q

\* eliminateVar() stores the clauses of one of the two literals of a variable,
\* and then the other literal on its own.
LEMMA StoredIs ==
  ASSUME NEW s, NEW v
  PROVE  \E p \in {<<v, TRUE>>, <<v, FALSE>>} :
           Stored(s, v) = Append(SetToSeq({ElimClause(c, p) : c \in Occurrences(s, p)}), ElimClause({}, Neg(p)))
<1> DEFINE a == Cardinality(Occurrences(s, <<v, TRUE>>))
           n == Cardinality(Occurrences(s, <<v, FALSE>>))
           p == <<v, a <= n>>
<1>1. Stored(s, v) = Append(SetToSeq({ElimClause(c, p) : c \in Occurrences(s, p)}), ElimClause({}, Neg(p)))
  BY DEF Stored
<1>2. (a <= n) = TRUE \/ (a <= n) = FALSE
  <2>1. CASE a <= n
    BY <2>1
  <2>2. CASE ~(a <= n)
    BY <2>2
  <2> QED BY <2>1, <2>2
<1>3. p = <<v, TRUE>> \/ p = <<v, FALSE>>
  <2>1. CASE (a <= n) = TRUE
    BY <2>1, Zenon
  <2>2. CASE (a <= n) = FALSE
    BY <2>2, Zenon
  <2> QED BY <1>2, <2>1, <2>2
<1> HIDE DEF p
<1> QED BY <1>1, <1>3

\* The resolvents are what merge() returns of one clause of each side.
LEMMA ResolventsAre ==
  ASSUME NEW s, NEW v, NEW r
  PROVE  r \in Resolvents(s, v) <=>
           /\ ~Tautology(r)
           /\ \E c \in Occurrences(s, <<v, TRUE>>), d \in Occurrences(s, <<v, FALSE>>) : r = Resolvent(c, d, v)
<1>1. PICK A, B : A = Occurrences(s, <<v, TRUE>>) /\ B = Occurrences(s, <<v, FALSE>>)
  OBVIOUS
<1> DEFINE R == {Resolvent(c, d, v) : c \in A, d \in B}
<1>2. r \in R <=> \E c \in A, d \in B : r = Resolvent(c, d, v)
  OBVIOUS
<1>3. Resolvents(s, v) = {x \in R : ~Tautology(x)}
  BY <1>1 DEF Resolvents
<1> HIDE DEF R
<1> QED BY <1>1, <1>2, <1>3

\* What is stored of a variable is typed, and sets that variable, and no
\* other, so that all its clauses hold if the resolvents do.
LEMMA StoredExtends ==
  ASSUME NEW s, Fine(s), NEW v \in AllVars
  PROVE  /\ Stored(s, v) \in Seq(RemovedClause)
         /\ \A m \in Models : Satisfies(m, Resolvents(s, v)) =>
              LET x == Extended(Stored(s, v), m)
              IN  /\ x \in Models
                  /\ \A q \in AllLits : q[1] # v => (q \in x <=> q \in m)
                  /\ \A c \in s.listed : v \in VarsOf(c) => x \cap c # {}
<1>1. PICK p \in {<<v, TRUE>>, <<v, FALSE>>} :
        Stored(s, v) = Append(SetToSeq({ElimClause(c, p) : c \in Occurrences(s, p)}), ElimClause({}, Neg(p)))
  BY StoredIs
<1>2. s \in SolverRecord /\ s.listed \in SUBSET SUBSET AllLits /\ \A c \in s.listed : ~Tautology(c)
  BY DEF Fine, SolverRecord
<1>3. /\ p \in AllLits /\ Neg(p) \in AllLits /\ p[1] = v /\ Neg(p)[1] = v /\ Neg(Neg(p)) = p
      /\ Neg(p) # p /\ \A q \in AllLits : q[1] = v => q = p \/ q = Neg(p)
  <2>1. <<v, TRUE>> \in AllLits /\ <<v, FALSE>> \in AllLits
    BY DEF AllLits, LitsOf
  <2>2. p[1] = v
    <3>1. <<v, TRUE>>[1] = v /\ <<v, FALSE>>[1] = v
      OBVIOUS
    <3> QED BY <3>1
  <2> QED BY <2>1, <2>2, Literals
<1> DEFINE S == {ElimClause(c, p) : c \in Occurrences(s, p)}
           n == Cardinality(S)
<1>4. /\ \A e \in S : e \in RemovedClause /\ e.literal = p /\ p \notin e.others /\ Neg(p) \notin e.others
      /\ \A c \in s.listed : p \in c => \E e \in S : e.others = c \ {p}
      /\ \A e \in S : \E c \in s.listed : p \in c /\ e.others = c \ {p}
  <2>1. ASSUME NEW c \in Occurrences(s, p)
        PROVE  /\ ElimClause(c, p) \in RemovedClause /\ ElimClause(c, p).literal = p
               /\ ElimClause(c, p).others = c \ {p} /\ c \in s.listed /\ p \in c /\ Neg(p) \notin c
    BY <1>2, <1>3 DEF Occurrences, ElimClause, RemovedClause, Tautology
  <2>2. \A c \in s.listed : p \in c => c \in Occurrences(s, p)
    BY DEF Occurrences
  <2> QED BY <2>1, <2>2
<1>5. IsFiniteSet(S)
  <2>1. IsFiniteSet(Occurrences(s, p))
    <3>1. Occurrences(s, p) \in SUBSET SUBSET AllLits
      BY <1>2 DEF Occurrences
    <3> QED BY <3>1, FiniteData, FS_Subset
  <2> DEFINE f == [c \in Occurrences(s, p) |-> ElimClause(c, p)]
  <2>2. f \in Surjection(Occurrences(s, p), S)
    BY DEF Surjection
  <2> QED BY <2>1, <2>2, FS_Surjection
<1> HIDE DEF S
<1>6. PICK q : q = SetToSeq(S)
  OBVIOUS
<1>7. /\ n \in Nat /\ q \in Seq(S) /\ Len(q) = n
      /\ \A e \in S : \E i \in 1..n : q[i] = e
      /\ \A i \in 1..n : q[i] \in S
  <2>1. n \in Nat /\ q \in Seq(S) /\ Len(q) = n /\ \A e \in S : \E i \in 1..n : q[i] = e
    BY <1>5, <1>6, FS_CardinalityType, SetToSeqIs
  <2> HIDE DEF n
  <2> QED BY <2>1
<1> HIDE DEF n
<1>8. PICK last : last = ElimClause({}, Neg(p))
  OBVIOUS
<1>9. last \in RemovedClause /\ last.literal = Neg(p) /\ last.others = {}
  BY <1>3, <1>8 DEF ElimClause, RemovedClause
<1>10. PICK es : es = Append(q, last)
  OBVIOUS
<1>11. /\ Stored(s, v) = es /\ es \in Seq(RemovedClause) /\ Len(es) = n + 1
       /\ es[n + 1] = last /\ \A i \in 1..n : es[i] = q[i]
  <2>1. Stored(s, v) = es
    BY <1>1, <1>6, <1>8, <1>10 DEF S
  <2>2. q \in Seq(RemovedClause)
    <3>1. S \subseteq RemovedClause
      BY <1>4
    <3> QED BY <1>7, <3>1
  <2> QED BY <1>7, <1>9, <1>10, <2>1, <2>2
<1>12. ASSUME NEW m \in Models, Satisfies(m, Resolvents(s, v))
       PROVE  LET x == Extended(Stored(s, v), m)
              IN  /\ x \in Models
                  /\ \A l \in AllLits : l[1] # v => (l \in x <=> l \in m)
                  /\ \A c \in s.listed : v \in VarsOf(c) => x \cap c # {}
  <2>1. PICK r : r = Reverse(es)
    OBVIOUS
  <2>2. /\ Len(r) = n + 1 /\ r[1] = last
        /\ \A i \in 1..n : r[i + 1] \in S
        /\ \A e \in S : \E i \in 1..n : r[i + 1] = e
    <3>1. Len(r) = n + 1 /\ \A i \in 1..(n + 1) : r[i] = es[((n + 1) - i) + 1]
      BY <1>7, <1>11, <2>1 DEF Reverse
    <3>2. r[1] = last
      <4>1. 1 \in 1..(n + 1) /\ ((n + 1) - 1) + 1 = n + 1
        BY <1>7
      <4> QED BY <1>11, <3>1, <4>1
    <3>3. ASSUME NEW i \in 1..n PROVE r[i + 1] = q[(n - i) + 1] /\ (n - i) + 1 \in 1..n
      <4>1. i + 1 \in 1..(n + 1) /\ ((n + 1) - (i + 1)) + 1 = (n - i) + 1 /\ (n - i) + 1 \in 1..n
        BY <1>7
      <4> QED BY <1>11, <3>1, <4>1
    <3>4. ASSUME NEW e \in S PROVE \E i \in 1..n : r[i + 1] = e
      <4>1. PICK j \in 1..n : q[j] = e
        BY <1>7
      <4>2. (n - j) + 1 \in 1..n /\ (n - ((n - j) + 1)) + 1 = j
        BY <1>7
      <4>3. r[((n - j) + 1) + 1] = e
        BY <3>3, <4>1, <4>2
      <4> QED BY <4>2, <4>3
    <3> QED BY <1>7, <3>1, <3>2, <3>3, <3>4
  <2>3. PICK f : RestoresAre(f, m, r) /\ Through(Restore, m, r) = f[n + 1]
    <3>1. Len(r) \in Nat
      BY <1>7, <2>2
    <3> QED BY <2>2, <3>1, ThroughRestores
  <2>4. f[0] = m /\ \A i \in 0..(n + 1) : i # n + 1 => f[i + 1] = Restore(f[i], r[i + 1])
    <3>1. Len(r) \in Nat
      BY <1>7, <2>2
    <3> QED BY <2>2, <2>3, <3>1, RestoresSteps
  <2> DEFINE off == {l \in m : l[1] # v} \cup {Neg(p)}
             on  == {l \in m : l[1] # v} \cup {p}
             Hungry(e) == e.others \cap m = {}
             Right(i, x) == /\ x = off \/ (x = on /\ \E e \in S : Hungry(e))
                            /\ \A j \in 1..n : j < i /\ Hungry(r[j + 1]) => x = on
             T == {i \in 0..n : Right(i + 1, f[i + 1])}
  <2>5. /\ off \in Models /\ \A l \in AllLits : l[1] # v => (l \in off <=> l \in m)
        /\ on \in Models /\ \A l \in AllLits : l[1] # v => (l \in on <=> l \in m)
    BY <1>3, FlippedModel
  <2>6. ASSUME NEW e \in S, NEW x \in {off, on}
        PROVE  Restore(x, e) = IF Hungry(e) THEN on ELSE x
    <3>1. e \in RemovedClause /\ e.literal = p /\ p \notin e.others /\ Neg(p) \notin e.others
      BY <1>4
    <3>2. e.others \in SUBSET AllLits
      BY <3>1 DEF RemovedClause
    <3>3. \A l \in e.others : l[1] # v
      BY <1>3, <3>1, <3>2
    <3>4. e.others \cap x = e.others \cap m
      BY <2>5, <3>2, <3>3
    <3>5. {l \in x : l[1] # v} = {l \in m : l[1] # v}
      BY <1>3
    <3> QED BY <1>3, <3>1, <3>4, <3>5 DEF Restore
  <2>7. 0 \in T
    <3>1. f[1] = Restore(m, last)
      <4>1. 0 \in 0..(n + 1) /\ 0 # n + 1 /\ 0 + 1 = 1
        BY <1>7
      <4> QED BY <2>2, <2>4, <4>1
    <3>2. f[1] = off
      BY <1>3, <1>9, <3>1 DEF Restore
    <3>3. 0 \in 0..n /\ 0 + 1 = 1 /\ \A j \in 1..n : ~(j < 1)
      BY <1>7
    <3> HIDE DEF off, on, Hungry
    <3> QED BY <3>2, <3>3
  <2>8. ASSUME NEW i \in 0..n, i \in T, i # n PROVE i + 1 \in T
    <3>1. i + 1 \in 1..n /\ i + 1 \in 0..n /\ i + 1 \in 0..(n + 1) /\ i + 1 # n + 1
      BY <1>7, <2>8
    <3>2. PICK e \in S : e = r[(i + 1) + 1]
      BY <2>2, <3>1
    <3>3. PICK x : x = f[i + 1]
      OBVIOUS
    <3>4. f[(i + 1) + 1] = Restore(x, e) /\ Right(i + 1, x)
      BY <2>4, <2>8, <3>1, <3>2, <3>3
    <3> HIDE DEF off, on, Hungry
    <3>5. x \in {off, on}
      BY <3>4
    <3>6. f[(i + 1) + 1] = IF Hungry(e) THEN on ELSE x
      BY <2>6, <3>4, <3>5
    <3>7. \A j \in 1..n : j < (i + 1) + 1 => j < i + 1 \/ j = i + 1
      BY <1>7
    <3>8. Right((i + 1) + 1, f[(i + 1) + 1])
      <4>1. CASE Hungry(e)
        BY <3>6, <4>1
      <4>2. CASE ~Hungry(e)
        <5>1. f[(i + 1) + 1] = x /\ e = r[(i + 1) + 1]
          BY <3>2, <3>6, <4>2
        <5>2. ASSUME NEW j \in 1..n, j < (i + 1) + 1, Hungry(r[j + 1]) PROVE x = on
          <6>1. j # i + 1
            BY <3>2, <4>2, <5>2
          <6>2. j < i + 1
            BY <3>7, <5>2, <6>1
          <6> QED BY <3>4, <5>2, <6>2
        <5> QED BY <3>4, <5>1, <5>2
      <4> QED BY <4>1, <4>2
    <3> QED BY <3>1, <3>8
  <2>9. Right(n + 1, f[n + 1])
    <3> HIDE DEF T
    <3>1. 0..n \subseteq T
      BY <1>7, <2>7, <2>8, UpTo
    <3>2. n \in T
      BY <1>7, <3>1
    <3> QED BY <3>2 DEF T
  <2>10. PICK x : x = f[n + 1]
    OBVIOUS
  <2>11. Extended(Stored(s, v), m) = x
    BY <1>11, <2>1, <2>3, <2>10 DEF Extended
  <2>12. /\ x = off \/ (x = on /\ \E e \in S : Hungry(e))
         /\ \A e \in S : Hungry(e) => x = on
    <3> HIDE DEF off, on, Hungry
    <3>1. x = off \/ (x = on /\ \E e \in S : Hungry(e))
      BY <2>9, <2>10
    <3>2. ASSUME NEW e \in S, Hungry(e) PROVE x = on
      <4>1. PICK j \in 1..n : r[j + 1] = e
        BY <2>2
      <4>2. j < n + 1
        BY <1>7
      <4> QED BY <2>9, <2>10, <3>2, <4>1, <4>2
    <3> QED BY <3>1, <3>2
  <2>13. ASSUME NEW c \in s.listed, NEW d \in s.listed, p \in c, Neg(p) \in d
         PROVE  \E l \in m : l[1] # v /\ (l \in c \/ l \in d)
    <3>1. PICK u : u = {l \in c \cup d : l[1] # v}
      OBVIOUS
    <3>2. u \in SUBSET AllLits
      BY <1>2, <3>1
    <3>3. CASE Tautology(u)
      <4>1. PICK l \in u : Neg(l) \in u
        BY <3>3 DEF Tautology
      <4>2. l \in m \/ Neg(l) \in m
        BY <3>2, <4>1, ModelsAre
      <4> QED BY <3>1, <4>1, <4>2
    <3>4. CASE ~Tautology(u)
      <4>1. Neg(<<v, TRUE>>) = <<v, FALSE>> /\ Neg(<<v, FALSE>>) = <<v, TRUE>>
        BY DEF Neg
      <4>2. u = Resolvent(c, d, v) /\ u = Resolvent(d, c, v)
        BY <3>1 DEF Resolvent
      <4>3. CASE p = <<v, TRUE>>
        <5>1. c \in Occurrences(s, <<v, TRUE>>) /\ d \in Occurrences(s, <<v, FALSE>>)
          BY <2>13, <4>1, <4>3 DEF Occurrences
        <5>2. u \in Resolvents(s, v)
          BY <3>4, <4>2, <5>1, ResolventsAre
        <5> QED BY <1>12, <3>1, <5>2 DEF Satisfies
      <4>4. CASE p = <<v, FALSE>>
        <5>1. d \in Occurrences(s, <<v, TRUE>>) /\ c \in Occurrences(s, <<v, FALSE>>)
          BY <2>13, <4>1, <4>4 DEF Occurrences
        <5>2. u \in Resolvents(s, v)
          BY <3>4, <4>2, <5>1, ResolventsAre
        <5> QED BY <1>12, <3>1, <5>2 DEF Satisfies
      <4> QED BY <1>1, <4>3, <4>4
    <3> QED BY <3>3, <3>4
  <2>14. ASSUME NEW c \in s.listed, v \in VarsOf(c) PROVE x \cap c # {}
    <3>1. p \in c \/ Neg(p) \in c
      BY <1>2, <1>3, <2>14 DEF VarsOf
    <3>2. CASE x = on /\ p \in c
      BY <3>2
    <3>3. CASE x = off /\ Neg(p) \in c
      BY <3>3
    <3>4. CASE x = off /\ p \in c
      <4>1. x = on \/ (c \ {p}) \cap m # {}
        BY <1>4, <2>12, <3>4
      <4>2. CASE x = on
        BY <3>4, <4>2
      <4>3. CASE (c \ {p}) \cap m # {}
        <5>1. PICK l \in c : l \in m /\ l # p
          BY <4>3
        <5>2. l[1] # v \/ l = Neg(p)
          BY <1>2, <1>3, <5>1
        <5> QED BY <3>4, <5>1, <5>2
      <4> QED BY <4>1, <4>2, <4>3
    <3>5. CASE x = on /\ x # off /\ Neg(p) \in c
      <4>1. PICK e \in S : Hungry(e)
        BY <2>12, <3>5
      <4>2. PICK d \in s.listed : p \in d /\ e.others = d \ {p}
        BY <1>4
      <4>3. PICK l \in m : l[1] # v /\ (l \in d \/ l \in c)
        BY <2>13, <3>5, <4>2
      <4>4. l \notin d
        BY <1>3, <4>1, <4>2, <4>3
      <4> QED BY <3>5, <4>3, <4>4
    <3> HIDE DEF on, off
    <3> QED BY <2>12, <3>1, <3>2, <3>3, <3>4, <3>5
  <2>15. x \in Models /\ \A l \in AllLits : l[1] # v => (l \in x <=> l \in m)
    <3> HIDE DEF on, off
    <3> QED BY <2>5, <2>12
  <2> QED BY <2>11, <2>14, <2>15
<1> QED BY <1>11, <1>12

-----------------------------------------------------------------------------
(* The solver means what it was given.                                     *)

\* With no clause removed, extendModel() leaves the model as it is.
LEMMA NothingExtended ==
  ASSUME NEW m
  PROVE  Extended(<<>>, m) = m
<1>1. Len(Reverse(<<>>)) = 0
  BY DEF Reverse
<1>2. PICK f : RestoresAre(f, m, Reverse(<<>>)) /\ Through(Restore, m, Reverse(<<>>)) = f[0]
  BY <1>1, ThroughRestores
<1>3. f[0] = m
  BY <1>1, <1>2, RestoresSteps
<1> QED BY <1>2, <1>3 DEF Extended

\* A step that leaves what is wanted of a model, the given clauses and the
\* removed ones alone leaves the meaning alone.
LEMMA SameMeaning ==
  ASSUME MeaningInv, given' = given, SameMemory(solver, solver'),
         \A m \in Models : Wanted(solver', pending', m) <=> Wanted(solver, pending, m)
  PROVE  MeaningInv'
BY DEF MeaningInv, SameMemory, Models, Faithful

\* The new solver has no clause, and says nothing.
LEMMA InitInv == Init => PreprocessingInv
<1> SUFFICES ASSUME Init PROVE PreprocessingInv
  OBVIOUS
<1>1. /\ solver \in SolverRecord /\ solver.listed = {} /\ solver.trail = {} /\ solver.ok
      /\ solver.queue = {} /\ solver.checked = {} /\ solver.elimclauses = <<>>
  BY DEF Init, NewSolver, SolverRecord, AllVars
<1>2. Fine(solver)
  BY <1>1 DEF Fine, Consistent
<1>3. StepsInv
  BY <1>1, <1>2 DEF Init, StepsInv, Phases
<1>4. \A m \in Models : Faithful(m, m, solver.eliminated, given) /\ Wanted(solver, pending, m)
  BY <1>1 DEF Init, Faithful, Wanted, Means, Satisfies
<1>5. MeaningInv
  BY <1>1, <1>4, NothingExtended DEF MeaningInv
<1> QED BY <1>3, <1>5 DEF PreprocessingInv

\* setFrozen() only keeps variables from being eliminated.
LEMMA FreezeInv ==
  ASSUME PreprocessingInv, Freeze
  PROVE  PreprocessingInv'
<1>1. PICK vs \in FrozenSets : solver' = [solver EXCEPT !.frozen = vs]
  BY DEF Freeze
<1>2. solver \in SolverRecord
  BY DEF PreprocessingInv, StepsInv, Fine
<1>3. /\ solver' \in SolverRecord /\ solver'.listed = solver.listed /\ solver'.trail = solver.trail
      /\ solver'.ok = solver.ok /\ solver'.queue = solver.queue /\ solver'.checked = solver.checked
      /\ SameMemory(solver, solver')
  BY <1>1, <1>2 DEF SolverRecord, SameMemory
<1>4. Fine(solver')
  BY <1>3 DEF PreprocessingInv, StepsInv, Fine
<1>5. StepsInv'
  BY <1>3, <1>4 DEF PreprocessingInv, StepsInv, Freeze, Phases, SameMemory, Fine
<1>6. MeaningInv'
  BY <1>3, SameMeaning DEF PreprocessingInv, Freeze, Wanted, Means
<1> QED BY <1>5, <1>6 DEF PreprocessingInv

\* A clause that is given before eliminate() is added to what the solver says.
LEMMA AddClauseInv ==
  ASSUME PreprocessingInv, AddClause
  PROVE  PreprocessingInv'
<1>1. PICK c \in Clause : solver' = AddListed(solver, c) /\ given' = given \cup {c}
  BY DEF AddClause
<1>2. /\ phase = "adding" /\ pending = {} /\ current = {} /\ solver.elimclauses = <<>>
      /\ UNCHANGED <<phase, current, pending>>
  BY DEF AddClause, PreprocessingInv, StepsInv
<1>3. c \in SUBSET AllLits
  BY PreprocessingAssumption DEF AllLits, AllVars
<1>4. Adds(solver, solver', c)
  BY <1>1, <1>3, AddListedAdds DEF PreprocessingInv, StepsInv
<1>5. StepsInv'
  BY <1>1, <1>2, <1>4 DEF PreprocessingInv, StepsInv, Adds, SameMemory, Phases, Fine
<1>6. \A m \in Models : Satisfies(m, given') <=> Satisfies(m, given) /\ m \cap c # {}
  BY <1>1 DEF Satisfies
<1>7. ASSUME NEW m \in Models, Satisfies(m, given') PROVE Wanted(solver', pending', m)
  BY <1>2, <1>4, <1>6, <1>7 DEF PreprocessingInv, MeaningInv, Wanted, Adds
<1>8. ASSUME NEW m \in Models, Wanted(solver', pending', m)
      PROVE  Faithful(Extended(solver'.elimclauses, m), m, solver'.eliminated, given')
  <2>1. solver'.elimclauses = <<>> /\ solver'.eliminated = solver.eliminated
    BY <1>2, <1>4 DEF Adds, SameMemory
  <2>2. Extended(solver'.elimclauses, m) = m /\ Extended(solver.elimclauses, m) = m
    BY <1>2, <2>1, NothingExtended
  <2>3. Wanted(solver, pending, m) /\ m \cap c # {}
    BY <1>2, <1>4, <1>8 DEF Wanted, Adds
  <2>4. Satisfies(m, given)
    BY <2>2, <2>3 DEF PreprocessingInv, MeaningInv, Faithful
  <2>5. Satisfies(m, given')
    BY <1>6, <2>3, <2>4
  <2> QED BY <2>2, <2>5 DEF Faithful
<1>9. MeaningInv'
  BY <1>7, <1>8 DEF MeaningInv, Models
<1> QED BY <1>5, <1>9 DEF PreprocessingInv

\* The steps that change neither the clauses nor the assignments.
LEMMA QuietInv ==
  ASSUME PreprocessingInv,
         StartEliminate \/ Gather \/ FinishEliminate \/ TakeClause \/ ClauseChecked \/ Subsumed
           \/ SkipVar \/ Resolved \/ EndElimination
  PROVE  PreprocessingInv'
<1>1. solver \in SolverRecord /\ Fine(solver) /\ StepsInv /\ MeaningInv
  BY DEF PreprocessingInv, StepsInv, Fine
<1> DEFINE Quiet == /\ Fine(solver') /\ SameMemory(solver, solver') /\ solver'.listed = solver.listed
                    /\ solver'.trail = solver.trail /\ solver'.ok = solver.ok
<1>2. ASSUME solver' = solver PROVE Quiet
  BY <1>1, <1>2 DEF SameMemory
<1>3. ASSUME Quiet, UNCHANGED <<given, pending>> PROVE MeaningInv'
  BY <1>1, <1>3, SameMeaning DEF Wanted, Means
<1>4. CASE StartEliminate
  <2>1. Quiet /\ UNCHANGED <<given, pending, current>>
    BY <1>2, <1>4 DEF StartEliminate
  <2>2. StepsInv'
    BY <1>1, <1>4, <2>1 DEF StartEliminate, StepsInv, Phases
  <2> QED BY <1>3, <2>1, <2>2 DEF PreprocessingInv
<1>5. CASE Gather
  <2>1. UNCHANGED <<given, pending, current>> /\ phase = "loop" /\ phase' = "subsume"
    BY <1>5 DEF Gather
  <2>2. solver' = [solver EXCEPT !.queue = @ \cup {c \in solver.listed : VarsOf(c) \cap solver.touched # {}},
                                 !.touched = {}]
    BY <1>5 DEF Gather, Gathered
  <2>3. /\ solver' \in SolverRecord /\ SameMemory(solver, solver') /\ solver'.listed = solver.listed
        /\ solver'.trail = solver.trail /\ solver'.ok = solver.ok /\ solver'.checked = solver.checked
        /\ solver'.queue \subseteq solver.listed
    <3>1. PICK q : q = solver.queue \cup {c \in solver.listed : VarsOf(c) \cap solver.touched # {}}
      OBVIOUS
    <3>2. q \subseteq solver.listed
      BY <1>1, <3>1 DEF Fine
    <3>3. solver' = [solver EXCEPT !.queue = q, !.touched = {}]
      BY <2>2, <3>1
    <3> QED BY <1>1, <3>2, <3>3 DEF SolverRecord, SameMemory
  <2>4. Quiet
    BY <1>1, <2>3 DEF Fine
  <2>5. StepsInv'
    BY <1>1, <2>1, <2>4 DEF StepsInv, Phases
  <2> QED BY <1>3, <2>1, <2>4, <2>5 DEF PreprocessingInv
<1>6. CASE FinishEliminate
  <2>1. Quiet /\ UNCHANGED <<given, pending, current>>
    BY <1>2, <1>6 DEF FinishEliminate
  <2>2. StepsInv'
    BY <1>1, <1>6, <2>1 DEF FinishEliminate, StepsInv, Phases
  <2> QED BY <1>3, <2>1, <2>2 DEF PreprocessingInv
<1>7. CASE TakeClause
  <2>1. UNCHANGED <<phase, pending, given>> /\ phase = "subsume"
    BY <1>7 DEF TakeClause
  <2>2. Quiet /\ current' \in Known(solver)
    <3>1. CASE \E c \in solver.queue : current' = c /\ solver' = [solver EXCEPT !.queue = @ \ {c}]
      <4>1. PICK c \in solver.queue : current' = c /\ solver' = [solver EXCEPT !.queue = @ \ {c}]
        BY <3>1
      <4>2. c \in solver.listed
        BY <1>1, <4>1 DEF Fine
      <4>3. /\ solver' \in SolverRecord /\ SameMemory(solver, solver') /\ solver'.listed = solver.listed
            /\ solver'.trail = solver.trail /\ solver'.ok = solver.ok /\ solver'.checked = solver.checked
            /\ solver'.queue = solver.queue \ {c}
        BY <1>1, <4>1 DEF SolverRecord, SameMemory
      <4> QED BY <1>1, <4>1, <4>2, <4>3 DEF Fine, Known
    <3>2. CASE \E p \in solver.trail \ solver.checked :
                 current' = {p} /\ solver' = [solver EXCEPT !.checked = @ \cup {p}]
      <4>1. PICK p \in solver.trail : current' = {p} /\ solver' = [solver EXCEPT !.checked = @ \cup {p}]
        BY <3>2
      <4>2. /\ solver' \in SolverRecord /\ SameMemory(solver, solver') /\ solver'.listed = solver.listed
            /\ solver'.trail = solver.trail /\ solver'.ok = solver.ok /\ solver'.queue = solver.queue
            /\ solver'.checked = solver.checked \cup {p}
        BY <1>1, <4>1 DEF SolverRecord, SameMemory
      <4> QED BY <1>1, <4>1, <4>2 DEF Fine, Known
    <3> QED BY <1>7, <3>1, <3>2 DEF TakeClause
  <2>3. current' \in SUBSET AllLits /\ current' \in Known(solver')
    <3>1. solver.listed \in SUBSET SUBSET AllLits /\ solver.trail \in SUBSET AllLits
      BY <1>1 DEF SolverRecord
    <3> QED BY <2>2, <3>1 DEF Known
  <2>4. StepsInv'
    BY <1>1, <2>1, <2>2, <2>3 DEF StepsInv, Phases
  <2> QED BY <1>3, <2>1, <2>2, <2>4 DEF PreprocessingInv
<1>8. CASE ClauseChecked
  <2>1. Quiet /\ UNCHANGED <<given, pending, phase>> /\ current' = {} /\ phase = "subsume"
    BY <1>2, <1>8 DEF ClauseChecked
  <2>2. StepsInv'
    BY <1>1, <2>1 DEF StepsInv, Phases
  <2> QED BY <1>3, <2>1, <2>2 DEF PreprocessingInv
<1>9. CASE Subsumed
  <2>1. Quiet /\ UNCHANGED <<given, pending, current>>
    BY <1>2, <1>9 DEF Subsumed
  <2>2. StepsInv'
    BY <1>1, <1>9, <2>1 DEF Subsumed, StepsInv, Phases
  <2> QED BY <1>3, <2>1, <2>2 DEF PreprocessingInv
<1>10. CASE SkipVar
  <2>1. PICK v : solver' = [solver EXCEPT !.heap = @ \ {v}]
    BY <1>10 DEF SkipVar
  <2>2. UNCHANGED <<given, pending, current, phase>> /\ phase = "elim"
    BY <1>10 DEF SkipVar
  <2>3. /\ solver' \in SolverRecord /\ SameMemory(solver, solver') /\ solver'.listed = solver.listed
        /\ solver'.trail = solver.trail /\ solver'.ok = solver.ok /\ solver'.checked = solver.checked
        /\ solver'.queue = solver.queue
    BY <1>1, <2>1 DEF SolverRecord, SameMemory
  <2>4. Quiet
    BY <1>1, <2>3 DEF Fine
  <2>5. StepsInv'
    BY <1>1, <2>2, <2>4 DEF StepsInv, Phases
  <2> QED BY <1>3, <2>2, <2>4, <2>5 DEF PreprocessingInv
<1>11. CASE Resolved
  <2>1. Quiet /\ UNCHANGED <<given, pending, current>>
    BY <1>2, <1>11 DEF Resolved
  <2>2. StepsInv'
    BY <1>1, <1>11, <2>1 DEF Resolved, StepsInv, Phases
  <2> QED BY <1>3, <2>1, <2>2 DEF PreprocessingInv
<1>12. CASE EndElimination
  <2>1. Quiet /\ UNCHANGED <<given, pending, current>>
    BY <1>2, <1>12 DEF EndElimination
  <2>2. StepsInv'
    BY <1>1, <1>12, <2>1 DEF EndElimination, StepsInv, Phases
  <2> QED BY <1>3, <2>1, <2>2 DEF PreprocessingInv
<1> QED BY <1>4, <1>5, <1>6, <1>7, <1>8, <1>9, <1>10, <1>11, <1>12

\* Backward subsumption removes clauses that say nothing new.
LEMMA RemoveSubsumedInv ==
  ASSUME PreprocessingInv, RemoveSubsumed
  PROVE  PreprocessingInv'
<1>1. PICK d \in solver.listed : Subsumes(current, d) /\ solver' = RemoveClauses(solver, {d})
  BY DEF RemoveSubsumed
<1>2. UNCHANGED <<phase, current, pending, given>> /\ phase = "subsume" /\ current \in Known(solver) /\ Fine(solver)
  BY DEF RemoveSubsumed, PreprocessingInv, StepsInv
<1>3. SameModels(solver, solver') /\ current \in Known(solver')
  BY <1>1, <1>2, SubsumedRemoved
<1>4. StepsInv'
  BY <1>2, <1>3 DEF PreprocessingInv, StepsInv, SameModels, Phases
<1>5. MeaningInv'
  BY <1>2, <1>3, SameMeaning DEF PreprocessingInv, SameModels, Wanted
<1> QED BY <1>4, <1>5 DEF PreprocessingInv

\* Backward subsumption removes literals that are not needed.
LEMMA StrengthenOtherInv ==
  ASSUME PreprocessingInv, StrengthenOther
  PROVE  PreprocessingInv'
<1>1. PICK d \in solver.listed, p \in UNION solver.listed :
        p \in Strengthens(current, d) /\ solver' = StrengthenClause(solver, d, p)
  BY DEF StrengthenOther, Strengthens
<1>2. /\ UNCHANGED <<current, pending, given>> /\ phase = "subsume" /\ phase' \in {"subsume", "done"}
      /\ current \in Known(solver) /\ Fine(solver)
  BY DEF StrengthenOther, PreprocessingInv, StepsInv
<1>3. SameModels(solver, solver') /\ current \in Known(solver')
  BY <1>1, <1>2, OtherStrengthened
<1>4. StepsInv'
  BY <1>2, <1>3 DEF PreprocessingInv, StepsInv, SameModels, Phases
<1>5. MeaningInv'
  BY <1>2, <1>3, SameMeaning DEF PreprocessingInv, SameModels, Wanted
<1> QED BY <1>4, <1>5 DEF PreprocessingInv

\* A resolvent that is added is no longer pending.
LEMMA AddResolventInv ==
  ASSUME PreprocessingInv, AddResolvent
  PROVE  PreprocessingInv'
<1>1. PICK r \in pending : solver' = AddListed(solver, r) /\ pending' = pending \ {r}
  BY DEF AddResolvent
<1>2. /\ UNCHANGED <<current, given>> /\ phase = "resolve" /\ phase' \in {"resolve", "done"}
      /\ Fine(solver) /\ r \in SUBSET AllLits
  BY DEF AddResolvent, PreprocessingInv, StepsInv
<1>3. Adds(solver, solver', r)
  BY <1>1, <1>2, AddListedAdds
<1>4. StepsInv'
  BY <1>1, <1>2, <1>3 DEF PreprocessingInv, StepsInv, Adds, Phases
<1>5. \A m \in Models : Wanted(solver', pending', m) <=> Wanted(solver, pending, m)
  BY <1>1, <1>3 DEF Wanted, Adds, Satisfies
<1>6. MeaningInv'
  BY <1>2, <1>3, <1>5, SameMeaning DEF PreprocessingInv, Adds
<1> QED BY <1>4, <1>6 DEF PreprocessingInv

\* A resolvent is made of one clause of each side.
LEMMA ResolventParts ==
  ASSUME NEW s, NEW v, NEW r \in Resolvents(s, v)
  PROVE  \E c \in Occurrences(s, <<v, TRUE>>), d \in Occurrences(s, <<v, FALSE>>) : r = Resolvent(c, d, v)
<1>1. r \in Resolvents(s, v)
  OBVIOUS
<1> DEFINE Made(x) == \E c \in Occurrences(s, <<v, TRUE>>), d \in Occurrences(s, <<v, FALSE>>) : x = Resolvent(c, d, v)
<1>2. \A x : x \in Resolvents(s, v) <=> ~Tautology(x) /\ Made(x)
  BY ResolventsAre, Zenon
<1> HIDE DEF Made
<1>3. Made(r)
  BY <1>1, <1>2
<1> QED BY <1>3 DEF Made

\* Eliminating a variable: the pending resolvents follow from the clauses that
\* are removed, and a model of them is extended to one of the removed clauses.
LEMMA EliminateVarInv ==
  ASSUME PreprocessingInv, EliminateVar
  PROVE  PreprocessingInv'
<1>1. PICK v \in Cheapest :
        /\ Eliminable(v) /\ pending' = Resolvents(solver, v)
        /\ solver' = RemoveClauses(
             [solver EXCEPT !.heap = @ \ {v}, !.eliminated = @ \cup {v},
                            !.elimclauses = @ \o Stored(solver, v)],
             {c \in solver.listed : v \in VarsOf(c)})
  BY DEF EliminateVar
<1>2. /\ UNCHANGED <<current, given>> /\ phase = "elim" /\ phase' = "resolve" /\ current = {} /\ pending = {}
      /\ Fine(solver) /\ solver \in SolverRecord
  BY DEF EliminateVar, PreprocessingInv, StepsInv, Fine
<1>3. v \in AllVars
  BY <1>1, <1>2 DEF Cheapest, SolverRecord
<1>4. PICK fs : fs = Stored(solver, v)
  OBVIOUS
<1>5. PICK es : es = solver.elimclauses
  OBVIOUS
<1>6. /\ es \in Seq(RemovedClause) /\ fs \in Seq(RemovedClause) /\ es \o fs \in Seq(RemovedClause)
  <2>1. fs \in Seq(RemovedClause)
    BY <1>2, <1>3, <1>4, StoredExtends
  <2>2. es \in Seq(RemovedClause)
    BY <1>2, <1>5 DEF SolverRecord, RemovedClause
  <2> QED BY <2>1, <2>2
<1>7. PICK s : s = [solver EXCEPT !.heap = @ \ {v}, !.eliminated = @ \cup {v}, !.elimclauses = es \o fs]
  OBVIOUS
<1>8. /\ s \in SolverRecord /\ s.listed = solver.listed /\ s.trail = solver.trail /\ s.ok = solver.ok
      /\ s.queue = solver.queue /\ s.checked = solver.checked
      /\ s.eliminated = solver.eliminated \cup {v} /\ s.elimclauses = es \o fs
  BY <1>2, <1>3, <1>6, <1>7 DEF SolverRecord, RemovedClause
<1>9. Fine(s)
  BY <1>2, <1>8 DEF Fine
<1>10. PICK cs : cs = {c \in solver.listed : v \in VarsOf(c)}
  OBVIOUS
<1>11. /\ Fine(solver') /\ solver'.eliminated = solver.eliminated \cup {v} /\ solver'.elimclauses = es \o fs
       /\ solver'.listed = solver.listed \ cs /\ solver'.trail = solver.trail /\ solver'.ok = solver.ok
  <2>1. solver' = RemoveClauses(s, cs)
    BY <1>1, <1>4, <1>5, <1>7, <1>10
  <2>2. cs \in SUBSET s.listed
    BY <1>8, <1>10
  <2> QED BY <1>8, <1>9, <2>1, <2>2, ClausesRemoved DEF SameMemory
<1>12. /\ solver.listed \in SUBSET SUBSET AllLits /\ solver.trail \in SUBSET AllLits
       /\ \A c \in solver.listed : ~Tautology(c)
  BY <1>2 DEF Fine, SolverRecord
<1>13. ASSUME NEW r \in Resolvents(solver, v)
       PROVE  /\ r \in SUBSET AllLits /\ ~Tautology(r)
              /\ \A m \in Models : Means(solver, m) => m \cap r # {}
  <2>1. PICK c \in Occurrences(solver, <<v, TRUE>>), d \in Occurrences(solver, <<v, FALSE>>) :
          r = Resolvent(c, d, v)
    BY <1>13, ResolventParts
  <2>2. /\ c \in solver.listed /\ d \in solver.listed /\ <<v, TRUE>> \in c /\ <<v, FALSE>> \in d
        /\ r = {l \in c \cup d : l[1] # v}
    BY <2>1 DEF Occurrences, Resolvent
  <2>3. PICK p \in AllLits : p = <<v, TRUE>>
    BY <1>12, <2>2
  <2>4. Neg(p) = <<v, FALSE>> /\ p[1] = v
    BY <2>3 DEF Neg
  <2>5. /\ Neg(p) \in AllLits /\ p \in c /\ Neg(p) \notin c /\ Neg(p) \in d /\ p \notin d
        /\ \A l \in AllLits : l[1] = v => l = p \/ l = Neg(p)
    <3>1. Neg(p) \in AllLits /\ Neg(Neg(p)) = p /\ \A l \in AllLits : l[1] = v => l = p \/ l = Neg(p)
      BY <2>4, Literals
    <3>2. ~Tautology(c) /\ ~Tautology(d) /\ p \in c /\ Neg(p) \in d
      BY <1>12, <2>2, <2>3, <2>4
    <3> QED BY <3>1, <3>2 DEF Tautology
  <2>6. ASSUME NEW m \in Models, Means(solver, m) PROVE m \cap r # {}
    <3>1. PICK k \in c, l \in d : k \in m /\ l \in m
      BY <2>2, <2>6 DEF Means, Satisfies
    <3>2. ~(p \in m /\ Neg(p) \in m) /\ k \in AllLits /\ l \in AllLits
      BY <1>12, <2>2, <3>1, ModelsAre
    <3>3. k # p \/ l # Neg(p)
      BY <3>1, <3>2
    <3>4. k[1] # v \/ l[1] # v
      BY <2>5, <3>2, <3>3
    <3> QED BY <2>2, <3>1, <3>4
  <2>7. r \in SUBSET AllLits
    BY <1>12, <2>2
  <2>8. ~Tautology(r)
    BY ResolventsAre
  <2> QED BY <2>6, <2>7, <2>8
<1>14. StepsInv'
  <2>1. pending' \in SUBSET SUBSET AllLits /\ \A c \in pending' : ~Tautology(c)
    BY <1>1, <1>13
  <2> QED BY <1>2, <1>11, <2>1 DEF PreprocessingInv, StepsInv, Phases
<1>15. ASSUME NEW m \in Models, Satisfies(m, given') PROVE Wanted(solver', pending', m)
  <2>1. Means(solver, m)
    BY <1>2, <1>15 DEF PreprocessingInv, MeaningInv, Wanted
  <2>2. Means(solver', m)
    BY <1>11, <2>1 DEF Means, Satisfies
  <2>3. Satisfies(m, pending')
    BY <1>1, <1>13, <2>1 DEF Satisfies
  <2> QED BY <2>2, <2>3 DEF Wanted
<1>16. ASSUME NEW m \in Models, Wanted(solver', pending', m)
       PROVE  Faithful(Extended(solver'.elimclauses, m), m, solver'.eliminated, given')
  <2>1. PICK y : y = Extended(fs, m)
    OBVIOUS
  <2>2. /\ y \in Models /\ \A l \in AllLits : l[1] # v => (l \in y <=> l \in m)
        /\ \A c \in solver.listed : v \in VarsOf(c) => y \cap c # {}
    BY <1>1, <1>2, <1>3, <1>4, <1>16, <2>1, StoredExtends DEF Wanted
  <2>3. Satisfies(y, solver.listed)
    <3>1. ASSUME NEW c \in solver.listed, v \notin VarsOf(c) PROVE y \cap c # {}
      <4>1. PICK l \in c : l \in m
        BY <1>10, <1>11, <1>16, <3>1 DEF Wanted, Means, Satisfies
      <4>2. l \in AllLits /\ l[1] # v
        BY <1>12, <3>1 DEF VarsOf
      <4> QED BY <2>2, <4>1, <4>2
    <3> QED BY <2>2, <3>1 DEF Satisfies
  <2>4. solver.trail \subseteq y
    <3>1. ASSUME NEW l \in solver.trail PROVE l \in AllLits /\ l[1] # v /\ l \in m
      <4>1. v \notin VarsOf(solver.trail)
        BY <1>1 DEF Eliminable, Valued
      <4> QED BY <1>11, <1>12, <1>16, <4>1 DEF VarsOf, Wanted, Means
    <3> QED BY <2>2, <3>1
  <2>5. Wanted(solver, pending, y)
    BY <1>2, <1>11, <1>16, <2>3, <2>4 DEF Wanted, Means, Satisfies
  <2>6. Faithful(Extended(es, y), y, solver.eliminated, given)
    BY <1>5, <2>2, <2>5 DEF PreprocessingInv, MeaningInv
  <2>7. Extended(solver'.elimclauses, m) = Extended(es, y)
    BY <1>6, <1>11, <2>1, ExtendedBoth
  <2> QED BY <1>2, <1>11, <2>2, <2>6, <2>7 DEF Faithful
<1>17. MeaningInv'
  BY <1>15, <1>16 DEF MeaningInv, Models
<1> QED BY <1>14, <1>17 DEF PreprocessingInv

\* Every step of the preprocessor keeps the invariant.
LEMMA NextInv ==
  ASSUME PreprocessingInv, [Next]_simpVars
  PROVE  PreprocessingInv'
<1>1. CASE UNCHANGED simpVars
  <2>1. MeaningInv'
    BY <1>1, SameMeaning DEF simpVars, PreprocessingInv, SameMemory
  <2>2. StepsInv'
    BY <1>1 DEF simpVars, PreprocessingInv, StepsInv, Fine
  <2> QED BY <2>1, <2>2 DEF PreprocessingInv
<1> QED BY <1>1, FreezeInv, AddClauseInv, QuietInv, RemoveSubsumedInv, StrengthenOtherInv,
           EliminateVarInv, AddResolventInv DEF Next, Simplify

\* The preprocessor says the same as the clauses it was given, from the first
\* clause to the end of eliminate(): each of their models is a model of the
\* solver, and extendModel() makes each model of the solver one of theirs.
THEOREM PreprocessingIsRight == Spec => []PreprocessingInv
BY InitInv, NextInv, PTL DEF Spec

-----------------------------------------------------------------------------
(* Solutions are kept.                                                     *)

\* What the run calls the demands on a model is what the invariant says is
\* wanted of it.
LEMMA DemandsAreWanted ==
  ASSUME PreprocessingInv, NEW m, solver.ok
  PROVE  Satisfies(m, Demands) <=> Wanted(solver, pending, m)
<1>1. solver.loose = {}
  BY DEF PreprocessingInv, StepsInv, Fine, SolverRecord
<1>2. Demands = solver.listed \cup {{p} : p \in solver.trail} \cup pending
  BY <1>1 DEF Demands, Attached
<1>3. (\A c \in {{p} : p \in solver.trail} : m \cap c # {}) <=> solver.trail \subseteq m
  <2>1. \A p : m \cap {p} # {} <=> p \in m
    OBVIOUS
  <2>2. (\A c \in {{p} : p \in solver.trail} : m \cap c # {}) <=> \A p \in solver.trail : m \cap {p} # {}
    OBVIOUS
  <2> QED BY <2>1, <2>2
<1> QED BY <1>2, <1>3 DEF Satisfies, Wanted, Means

\* The invariant says more than the property that is checked.
LEMMA InvIsEnough == PreprocessingInv => SolutionsAreKept
<1> SUFFICES ASSUME PreprocessingInv PROVE SolutionsAreKept
  OBVIOUS
<1>1. /\ Fine(solver) /\ solver \in SolverRecord /\ solver.loose = {} /\ solver.vars = AllVars
      /\ solver.listed \in SUBSET SUBSET AllLits /\ solver.trail \in SUBSET AllLits /\ solver.ok \in BOOLEAN
  BY DEF PreprocessingInv, StepsInv, Fine, SolverRecord
<1>2. TypeOK
  <2>1. Attached(solver) = solver.listed /\ LitsOf(solver.vars) = AllLits
    BY <1>1 DEF Attached, AllLits
  <2> QED BY <1>1, <2>1 DEF TypeOK, PreprocessingInv, StepsInv, Fine
<1>3. \A m : ExtendModel(solver, m) = Extended(solver.elimclauses, m)
  BY DEF ExtendModel, Extended
<1>4. TotalAssignments(solver.vars) = Models
  BY <1>1 DEF Models
<1>5. ExtendedModelsSatisfy
  <2> SUFFICES ASSUME solver.ok, NEW m \in Models, Satisfies(m, Demands)
               PROVE  Satisfies(ExtendModel(solver, m), given)
    BY <1>4 DEF ExtendedModelsSatisfy
  <2>1. Faithful(Extended(solver.elimclauses, m), m, solver.eliminated, given)
    BY DemandsAreWanted DEF PreprocessingInv, MeaningInv
  <2> QED BY <1>3, <2>1 DEF Faithful
<1>6. SameSolutions
  <2>1. PICK kept : kept = solver.vars \ solver.eliminated
    OBVIOUS
  <2> DEFINE Shown(a) == {p \in a : p[1] \in kept}
  <2>2. \A cls : Projection(cls, solver.vars, kept) = {Shown(a) : a \in {b \in Models : Satisfies(b, cls)}}
    BY <1>4 DEF Projection
  <2>3. CASE ~solver.ok
    <3>1. ASSUME NEW m \in Models PROVE ~Satisfies(m, given)
      BY <2>3 DEF PreprocessingInv, MeaningInv, Wanted, Means
    <3>2. Projection(given, solver.vars, kept) = {}
      BY <2>2, <3>1
    <3> QED BY <2>1, <2>3, <3>2 DEF SameSolutions
  <2>4. CASE solver.ok
    <3>1. ASSUME NEW m \in Models, Satisfies(m, given)
          PROVE  Shown(m) \in Projection(Demands, solver.vars, kept)
      <4>1. Satisfies(m, Demands)
        BY <2>4, <3>1, DemandsAreWanted DEF PreprocessingInv, MeaningInv
      <4> QED BY <2>2, <4>1
    <3>2. ASSUME NEW m \in Models, Satisfies(m, Demands)
          PROVE  Shown(m) \in Projection(given, solver.vars, kept)
      <4>1. PICK x : x = Extended(solver.elimclauses, m)
        OBVIOUS
      <4>2. Faithful(x, m, solver.eliminated, given)
        BY <2>4, <3>2, <4>1, DemandsAreWanted DEF PreprocessingInv, MeaningInv
      <4>3. x \in SUBSET AllLits /\ m \in SUBSET AllLits
        BY <4>2, ModelsAre DEF Faithful
      <4>4. Shown(x) = Shown(m)
        BY <2>1, <4>2, <4>3 DEF Faithful
      <4>5. Shown(x) \in Projection(given, solver.vars, kept)
        BY <2>2, <4>2 DEF Faithful
      <4> QED BY <4>4, <4>5
    <3>3. Projection(given, solver.vars, kept) = Projection(Demands, solver.vars, kept)
      <4> HIDE DEF Shown
      <4>1. \A x \in Projection(given, solver.vars, kept) : x \in Projection(Demands, solver.vars, kept)
        BY <2>2, <3>1
      <4>2. \A x \in Projection(Demands, solver.vars, kept) : x \in Projection(given, solver.vars, kept)
        BY <2>2, <3>2
      <4> QED BY <2>2, <4>1, <4>2
    <3> QED BY <2>1, <2>4, <3>3 DEF SameSolutions
  <2> QED BY <2>3, <2>4
<1> QED BY <1>2, <1>5, <1>6 DEF SolutionsAreKept

\* eliminate() never loses a solution and never invents one: what the solver
\* still demands can be satisfied by exactly the solutions of the given clauses,
\* as far as its variables are still there, and extendModel() gives the
\* eliminated variables values with which all given clauses hold.
THEOREM PreprocessingKeepsSolutions == Spec => []SolutionsAreKept
BY PreprocessingIsRight, InvIsEnough, PTL

-----------------------------------------------------------------------------
(* Subsumption is complete.                                                *)

\* addClause_() puts the clause it stores aside to be compared, and touches its
\* variables, none of which has a value.
LEMMA AddListedBooks ==
  ASSUME NEW s, Fine(s), NEW c \in SUBSET AllLits
  PROVE  LET t == AddListed(s, c)
         IN  \/ SameBooks(s, t)
             \/ \E r \in SUBSET AllLits :
                  /\ t.listed = s.listed \cup {r} /\ t.queue = s.queue \cup {r}
                  /\ t.touched = s.touched \cup VarsOf(r) /\ t.checked = s.checked
                  /\ r # {} /\ \A p \in r : p \notin s.trail /\ Neg(p) \notin s.trail
<1>1. s \in SolverRecord
  BY DEF Fine
<1>2. PICK r : r = Reduced(s, c)
  OBVIOUS
<1>3. r \in SUBSET AllLits /\ r = {p \in c : Neg(p) \notin s.trail} /\ Cardinality(r) \in Nat
  <2>1. r \in SUBSET AllLits /\ r = {p \in c : Neg(p) \notin s.trail}
    BY <1>2 DEF Reduced
  <2> QED BY <2>1, FiniteData
<1>4. CASE ~s.ok \/ Redundant(s, c)
  <2>1. AddListed(s, c) = s
    BY <1>4 DEF AddListed, AddLoose
  <2> QED BY <2>1 DEF SameBooks
<1>5. CASE s.ok /\ ~Redundant(s, c) /\ r = {}
  <2>1. Cardinality(r) = 0
    BY <1>3, <1>5, FiniteData
  <2>2. AddListed(s, c) = [s EXCEPT !.ok = FALSE]
    BY <1>2, <1>5, <2>1 DEF AddListed, AddLoose
  <2>3. SameBooks(s, [s EXCEPT !.ok = FALSE])
    BY <1>1 DEF SameBooks, SolverRecord
  <2> QED BY <2>2, <2>3
<1>6. CASE s.ok /\ ~Redundant(s, c) /\ Cardinality(r) = 1
  <2>1. PICK p : r = {p}
    BY <1>3, <1>6, FiniteData
  <2>2. p \in AllLits /\ (CHOOSE q \in r : TRUE) = p /\ r # {}
    BY <1>3, <2>1
  <2>3. AddListed(s, c) = Enqueue(s, p)
    <3>1. AddListed(s, c) = AddLoose(s, c)
      BY <1>2, <1>6 DEF AddListed
    <3>2. AddLoose(s, c) = Enqueue(s, CHOOSE q \in r : TRUE)
      BY <1>2, <1>6, <2>2 DEF AddLoose
    <3> QED BY <2>2, <3>1, <3>2
  <2> QED BY <2>2, <2>3, EnqueueAdds
<1>7. CASE s.ok /\ ~Redundant(s, c) /\ Cardinality(r) >= 2
  <2>1. PICK t : t = [s EXCEPT !.listed = @ \cup {r}, !.queue = @ \cup {r}, !.touched = @ \cup VarsOf(r)]
    OBVIOUS
  <2>2. AddListed(s, c) = t
    <3>1. ~(Cardinality(r) < 2)
      BY <1>3, <1>7
    <3> QED BY <1>2, <1>7, <2>1, <3>1 DEF AddListed
  <2>3. /\ t.listed = s.listed \cup {r} /\ t.queue = s.queue \cup {r}
        /\ t.touched = s.touched \cup VarsOf(r) /\ t.checked = s.checked
    BY <1>1, <2>1 DEF SolverRecord
  <2>4. r # {}
    BY <1>3, <1>7, FiniteData
  <2>5. \A p \in r : p \notin s.trail /\ Neg(p) \notin s.trail
    BY <1>3, <1>7 DEF Redundant
  <2> QED BY <1>3, <2>2, <2>3, <2>4, <2>5
<1> QED
  <2>1. Cardinality(r) = 0 <=> r = {}
    BY <1>3, FiniteData
  <2> QED BY <1>3, <1>4, <1>5, <1>6, <1>7, <2>1

\* strengthenClause() puts the shorter clause aside to be compared, or makes it
\* an assignment.
LEMMA StrengthenBooks ==
  ASSUME NEW s, Fine(s), NEW d \in s.listed, NEW p \in d
  PROVE  LET t == StrengthenClause(s, d, p)
         IN  /\ t.touched = s.touched /\ t.checked = s.checked
             /\ \/ t.listed = s.listed \ {d} /\ t.queue = s.queue \ {d}
                \/ /\ t.listed = (s.listed \ {d}) \cup {d \ {p}}
                   /\ t.queue = (s.queue \ {d}) \cup {d \ {p}}
<1>1. /\ s \in SolverRecord /\ s.listed \in SUBSET SUBSET AllLits /\ d \in SUBSET AllLits /\ p \in AllLits
  BY DEF Fine, SolverRecord
<1>2. PICK rest : rest = d \ {p}
  OBVIOUS
<1>3. rest \in SUBSET AllLits
  BY <1>1, <1>2
<1>4. PICK t : t = StrengthenClause(s, d, p)
  OBVIOUS
<1>5. CASE Cardinality(rest) = 1
  <2>1. PICK q : rest = {q}
    BY <1>3, <1>5, FiniteData
  <2>2. q \in AllLits
    BY <1>3, <2>1
  <2>3. PICK r : r = RemoveClauses(s, {d})
    OBVIOUS
  <2>4. /\ Fine(r) /\ r \in SolverRecord /\ r.listed = s.listed \ {d}
        /\ r.queue = s.queue \ {d} /\ r.touched = s.touched /\ r.checked = s.checked
    BY <2>3, ClausesRemoved DEF Fine
  <2>5. t = [r EXCEPT !.ok = FALSE] \/ t = Enqueue(r, q)
    <3>1. Cardinality(d \ {p}) = 1 /\ (CHOOSE l \in d \ {p} : TRUE) = q
      BY <1>2, <1>5, <2>1
    <3>2. StrengthenClause(s, d, p) =
            IF Neg(CHOOSE l \in d \ {p} : TRUE) \in s.trail THEN [RemoveClauses(s, {d}) EXCEPT !.ok = FALSE]
            ELSE Enqueue(RemoveClauses(s, {d}), CHOOSE l \in d \ {p} : TRUE)
      BY <3>1 DEF StrengthenClause
    <3> QED BY <1>4, <2>3, <3>1, <3>2
  <2>6. SameBooks(r, t)
    <3>1. SameBooks(r, [r EXCEPT !.ok = FALSE])
      BY <2>4 DEF SameBooks, SolverRecord
    <3>2. SameBooks(r, Enqueue(r, q))
      BY <2>2, <2>4, EnqueueAdds
    <3> QED BY <2>5, <3>1, <3>2
  <2> QED BY <1>4, <2>4, <2>6 DEF SameBooks
<1>6. CASE Cardinality(rest) # 1
  <2>1. PICK u : u = [s EXCEPT !.listed = (@ \ {d}) \cup {rest}, !.queue = (@ \ {d}) \cup {rest}]
    OBVIOUS
  <2>2. u \in SolverRecord
    BY <1>1, <1>3, <2>1 DEF SolverRecord, Fine
  <2>3. /\ u.listed = (s.listed \ {d}) \cup {rest} /\ u.queue = (s.queue \ {d}) \cup {rest}
        /\ u.touched = s.touched /\ u.checked = s.checked
    BY <1>1, <2>1 DEF SolverRecord
  <2>4. {p[1]} \in SUBSET AllVars
    BY <1>1, Literals
  <2>5. PICK h \in SUBSET AllVars : UpdateHeap(u, {p[1]}) = [u EXCEPT !.heap = h]
    BY <2>2, <2>4, HeapUpdated
  <2>6. t = [u EXCEPT !.heap = h]
    <3>1. t = UpdateHeap(u, {p[1]})
      BY <1>2, <1>4, <1>6, <2>1 DEF StrengthenClause
    <3> QED BY <2>5, <3>1
  <2>7. /\ t.listed = u.listed /\ t.queue = u.queue /\ t.touched = u.touched /\ t.checked = u.checked
    BY <2>2, <2>6 DEF SolverRecord
  <2> QED BY <1>2, <1>4, <2>3, <2>7
<1> QED BY <1>5, <1>6

\* What a clause says about another one, all variables of it are in both.
LEMMA RelatedVars ==
  ASSUME NEW c \in SUBSET AllLits, NEW d \in SUBSET AllLits, Relates(c, d)
  PROVE  VarsOf(c) \subseteq VarsOf(d)
<1>1. CASE Subsumes(c, d)
  BY <1>1 DEF Subsumes, VarsOf
<1>2. CASE Strengthens(c, d) # {}
  <2>1. PICK p \in d : Neg(p) \in c /\ c \ {Neg(p)} \subseteq d \ {p}
    BY <1>2 DEF Strengthens
  <2>2. Neg(p)[1] = p[1]
    BY <2>1, Literals
  <2> QED BY <2>1, <2>2 DEF VarsOf
<1> QED BY <1>1, <1>2 DEF Relates

\* What a clause says about a part of another one it says about the whole.
LEMMA RelatesToWhole ==
  ASSUME NEW c, NEW d, NEW p, c # d, Relates(c, d \ {p})
  PROVE  Relates(c, d)
BY DEF Relates, Subsumes, Strengthens

\* New clauses are put aside to be compared, and touch those of before.
LEMMA AddedCompared ==
  ASSUME StepsInv, ComparedInv, current = {}, current' = {},
         NEW c \in SUBSET AllLits, solver' = AddListed(solver, c)
  PROVE  ComparedInv' /\ ((solver'.queue = solver.queue /\ solver'.touched = solver.touched) \/ solver'.touched # {})
<1>1. /\ Fine(solver) /\ solver.listed \in SUBSET SUBSET AllLits
      /\ solver.trail \in SUBSET AllLits /\ solver.checked \subseteq solver.trail
  BY DEF StepsInv, Fine, SolverRecord
<1>2. CASE SameBooks(solver, solver')
  BY <1>2 DEF ComparedInv, Awaited, SameBooks, Relates
<1>3. ASSUME NEW r \in SUBSET AllLits,
             solver'.listed = solver.listed \cup {r}, solver'.queue = solver.queue \cup {r},
             solver'.touched = solver.touched \cup VarsOf(r), solver'.checked = solver.checked,
             r # {}, \A p \in r : p \notin solver.trail /\ Neg(p) \notin solver.trail
      PROVE  ComparedInv' /\ solver'.touched # {}
  <2>1. ASSUME NEW x \in solver'.listed, NEW y \in solver'.listed, Relates(x, y)
        PROVE  x \in solver'.queue \/ VarsOf(x) \cap solver'.touched # {}
    <3>1. CASE x = r
      BY <1>3, <3>1
    <3>2. CASE x \in solver.listed /\ y \in solver.listed
      <4>1. x # {}
        BY <1>1, <3>2, FiniteData DEF Fine
      <4> QED BY <1>3, <2>1, <3>2, <4>1 DEF ComparedInv, Awaited
    <3>3. CASE x \in solver.listed /\ y = r
      <4>1. VarsOf(x) \subseteq VarsOf(r)
        BY <1>1, <1>3, <2>1, <3>3, RelatedVars
      <4>2. x # {}
        BY <1>1, <3>3, FiniteData DEF Fine
      <4>3. VarsOf(x) # {}
        BY <4>2 DEF VarsOf
      <4> QED BY <1>3, <4>1, <4>3
    <3> QED BY <1>3, <3>1, <3>2, <3>3
  <2>2. ASSUME NEW p \in solver'.checked, NEW x \in solver'.listed PROVE p[1] \notin VarsOf(x)
    <3>1. CASE x \in solver.listed
      BY <1>3, <3>1 DEF ComparedInv
    <3>2. CASE x = r
      <4>1. p \in solver.trail /\ p \in AllLits
        BY <1>1, <1>3
      <4>2. ASSUME NEW l \in r, l[1] = p[1] PROVE FALSE
        <5>1. l = p \/ l = Neg(p)
          BY <4>1, <4>2, Literals
        <5>2. Neg(Neg(p)) = p
          BY <4>1, Literals
        <5> QED BY <1>3, <4>1, <5>1, <5>2
      <4> QED BY <3>2, <4>2 DEF VarsOf
    <3> QED BY <1>3, <3>1, <3>2
  <2>3. ComparedInv'
    BY <2>1, <2>2 DEF ComparedInv, Awaited, Relates
  <2> QED BY <1>3, <2>3 DEF VarsOf
<1> QED BY <1>1, <1>2, <1>3, AddListedBooks DEF SameBooks

\* The new solver has nothing to compare.
LEMMA InitCompared == Init => SubsumptionInv
<1> SUFFICES ASSUME Init PROVE SubsumptionInv
  OBVIOUS
<1>1. /\ solver.listed = {} /\ solver.queue = {} /\ solver.checked = {} /\ phase = "freeze"
  BY DEF Init, NewSolver
<1> QED BY <1>1 DEF SubsumptionInv, ComparedInv, NothingLeft

\* What no other clause follows can be put aside.
LEMMA OtherCheckedCompared ==
  ASSUME StepsInv, ComparedInv, ClauseChecked
  PROVE  ComparedInv'
<1>1. /\ Fine(solver) /\ solver.listed \in SUBSET SUBSET AllLits
      /\ solver.trail \in SUBSET AllLits /\ solver.checked \subseteq solver.trail
  BY DEF StepsInv, Fine, SolverRecord
<1>2. solver' = solver /\ current' = {} /\ \A d \in solver.listed : ~Relates(current, d)
  BY DEF ClauseChecked, Relates
<1>3. ASSUME NEW p \in solver.checked, NEW d \in solver.listed, p[1] \in VarsOf(d), current = {p} PROVE FALSE
  <2>1. PICK l \in d : l[1] = p[1]
    BY <1>3 DEF VarsOf
  <2>2. p \in AllLits /\ l \in AllLits /\ Neg(Neg(p)) = p
    BY <1>1, Literals
  <2>3. l = p \/ l = Neg(p)
    BY <2>1, <2>2, Literals
  <2>4. d # {p}
    <3>1. Cardinality({p}) = 1
      BY FS_Singleton
    <3> QED BY <1>1, <3>1 DEF Fine
  <2>5. Relates({p}, d)
    <3>1. CASE p \in d
      BY <2>4, <3>1 DEF Relates, Subsumes
    <3>2. CASE Neg(p) \in d
      <4>1. Neg(p) \in Strengthens({p}, d)
        BY <2>2, <2>4, <3>2 DEF Strengthens
      <4> QED BY <4>1 DEF Relates
    <3> QED BY <2>1, <2>3, <3>1, <3>2
  <2> QED BY <1>2, <1>3, <2>5
<1> QED BY <1>2, <1>3 DEF ComparedInv, Awaited, Relates

\* Every step keeps what is to be compared in the books.
LEMMA NextCompared ==
  ASSUME StepsInv, SubsumptionInv, [Next]_simpVars
  PROVE  SubsumptionInv'
<1>1. /\ solver \in SolverRecord /\ Fine(solver) /\ solver.listed \in SUBSET SUBSET AllLits
      /\ solver.queue \subseteq solver.listed /\ {} \notin solver.listed
  <2>1. Fine(solver) /\ solver \in SolverRecord /\ solver.listed \in SUBSET SUBSET AllLits
        /\ solver.queue \subseteq solver.listed
    BY DEF StepsInv, Fine, SolverRecord
  <2>2. Cardinality({}) = 0
    BY FS_EmptySet
  <2> QED BY <2>1, <2>2 DEF Fine
<1>2. ASSUME SameBooks(solver, solver'), current' = current PROVE ComparedInv'
  BY <1>2 DEF SubsumptionInv, ComparedInv, Awaited, SameBooks, Relates
<1>3. ASSUME solver' = solver PROVE SameBooks(solver, solver')
  BY <1>3 DEF SameBooks
<1>4. ASSUME NEW cs, solver'.listed = solver.listed \ cs, solver'.queue = solver.queue \ cs,
             solver'.touched = solver.touched, solver'.checked = solver.checked, current' = current
      PROVE  ComparedInv'
  BY <1>4 DEF SubsumptionInv, ComparedInv, Awaited, Relates
<1>5. CASE UNCHANGED simpVars
  BY <1>2, <1>3, <1>5 DEF simpVars, SubsumptionInv, NothingLeft
<1>6. CASE Freeze
  <2>1. SameBooks(solver, solver') /\ UNCHANGED current
    BY <1>1, <1>6 DEF Freeze, SolverRecord, SameBooks
  <2> QED BY <1>2, <1>6, <2>1 DEF Freeze, SubsumptionInv, NothingLeft, SameBooks
<1>7. CASE AddClause
  <2>1. PICK c \in Clause : solver' = AddListed(solver, c)
    BY <1>7 DEF AddClause
  <2>2. c \in SUBSET AllLits
    BY PreprocessingAssumption DEF AllLits, AllVars
  <2>3. current = {} /\ current' = {} /\ phase = "adding" /\ phase' = "adding"
    BY <1>7 DEF AddClause, StepsInv
  <2>4. ComparedInv' /\ ((solver'.queue = solver.queue /\ solver'.touched = solver.touched) \/ solver'.touched # {})
    BY <2>1, <2>2, <2>3, AddedCompared DEF SubsumptionInv
  <2> QED BY <2>3, <2>4 DEF SubsumptionInv, NothingLeft
<1>8. CASE StartEliminate
  <2>1. UNCHANGED <<solver, current>> /\ phase = "adding" /\ phase' = IF solver.ok THEN "loop" ELSE "done"
    BY <1>8 DEF StartEliminate
  <2> QED BY <1>2, <1>3, <2>1 DEF SubsumptionInv, NothingLeft
<1>9. CASE Gather
  <2>1. current' = {} /\ current = {} /\ phase' = "subsume"
    BY <1>9 DEF Gather, StepsInv
  <2>2. /\ solver'.listed = solver.listed /\ solver'.checked = solver.checked
        /\ solver'.queue = solver.queue \cup {c \in solver.listed : VarsOf(c) \cap solver.touched # {}}
    BY <1>1, <1>9 DEF Gather, Gathered, SolverRecord
  <2>3. ComparedInv'
    BY <2>1, <2>2 DEF SubsumptionInv, ComparedInv, Awaited, Relates
  <2> QED BY <2>1, <2>3 DEF SubsumptionInv, NothingLeft
<1>10. CASE FinishEliminate
  <2>1. /\ UNCHANGED <<solver, current>> /\ current = {} /\ phase = "loop" /\ phase' = "done"
        /\ solver.touched = {} /\ solver.checked = solver.trail
    BY <1>10 DEF FinishEliminate, StepsInv, MoreToDo
  <2> QED BY <1>2, <1>3, <2>1 DEF SubsumptionInv, NothingLeft
<1>11. CASE TakeClause
  <2>1. phase = "subsume" /\ phase' = "subsume" /\ current = {}
    BY <1>11 DEF TakeClause
  <2>2. ASSUME NEW c \in solver.queue, current' = c, solver' = [solver EXCEPT !.queue = @ \ {c}]
        PROVE  ComparedInv'
    <3>1. /\ solver'.listed = solver.listed /\ solver'.checked = solver.checked
          /\ solver'.queue = solver.queue \ {c} /\ solver'.touched = solver.touched
      BY <1>1, <2>2 DEF SolverRecord
    <3> QED BY <1>1, <2>1, <2>2, <3>1 DEF SubsumptionInv, ComparedInv, Awaited, Relates
  <2>3. ASSUME NEW p \in solver.trail, current' = {p}, solver' = [solver EXCEPT !.checked = @ \cup {p}]
        PROVE  ComparedInv'
    <3>1. /\ solver'.listed = solver.listed /\ solver'.checked = solver.checked \cup {p}
          /\ solver'.queue = solver.queue /\ solver'.touched = solver.touched
      BY <1>1, <2>3 DEF SolverRecord
    <3> QED BY <1>1, <2>1, <2>3, <3>1 DEF SubsumptionInv, ComparedInv, Awaited, Relates
  <2>4. ComparedInv'
    BY <1>11, <2>2, <2>3 DEF TakeClause
  <2> QED BY <2>1, <2>4 DEF SubsumptionInv, NothingLeft
<1>12. CASE RemoveSubsumed
  <2>1. PICK d \in solver.listed : solver' = RemoveClauses(solver, {d})
    BY <1>12 DEF RemoveSubsumed
  <2>2. phase' = "subsume" /\ UNCHANGED current
    BY <1>12 DEF RemoveSubsumed
  <2>3. ComparedInv'
    BY <1>1, <1>4, <2>1, <2>2, ClausesRemoved
  <2> QED BY <2>2, <2>3 DEF SubsumptionInv, NothingLeft
<1>13. CASE StrengthenOther
  <2>1. PICK d \in solver.listed : \E p \in d : solver' = StrengthenClause(solver, d, p)
    BY <1>13 DEF StrengthenOther, Strengthens
  <2>6. PICK p \in d : solver' = StrengthenClause(solver, d, p)
    BY <2>1
  <2>2. /\ UNCHANGED current /\ phase' \in {"subsume", "done"} /\ (phase' = "done" => ~solver'.ok)
    BY <1>13 DEF StrengthenOther
  <2>3. /\ solver'.touched = solver.touched /\ solver'.checked = solver.checked
        /\ \/ solver'.listed = solver.listed \ {d} /\ solver'.queue = solver.queue \ {d}
           \/ /\ solver'.listed = (solver.listed \ {d}) \cup {d \ {p}}
              /\ solver'.queue = (solver.queue \ {d}) \cup {d \ {p}}
    BY <1>1, <2>6, StrengthenBooks
  <2>4. CASE solver'.listed = solver.listed \ {d} /\ solver'.queue = solver.queue \ {d}
    <3>1. ComparedInv'
      BY <1>4, <2>2, <2>3, <2>4
    <3> QED BY <2>2, <3>1 DEF SubsumptionInv, NothingLeft
  <2>5. CASE /\ solver'.listed = (solver.listed \ {d}) \cup {d \ {p}}
             /\ solver'.queue = (solver.queue \ {d}) \cup {d \ {p}}
    <3>1. ASSUME NEW x \in solver'.listed, NEW y \in solver'.listed, Relates(x, y)
          PROVE  x \in solver'.queue \/ x = current \/ VarsOf(x) \cap solver.touched # {}
      <4>1. CASE x = d \ {p}
        BY <2>5, <4>1
      <4>2. CASE x \in solver.listed \ {d}
        <5>1. \E z \in solver.listed : Relates(x, z)
          <6>1. CASE y = d \ {p}
            BY <3>1, <4>2, <6>1, RelatesToWhole
          <6>2. CASE y \in solver.listed
            BY <3>1, <6>2
          <6> QED BY <2>5, <6>1, <6>2
        <5>2. Awaited(x)
          BY <4>2, <5>1 DEF SubsumptionInv, ComparedInv
        <5> QED BY <2>5, <4>2, <5>2 DEF Awaited
      <4> QED BY <2>5, <4>1, <4>2
    <3>2. ASSUME NEW q \in solver'.checked, NEW x \in solver'.listed, current # {q} PROVE q[1] \notin VarsOf(x)
      <4>1. CASE x = d \ {p}
        <5>1. q[1] \notin VarsOf(d)
          BY <2>3, <3>2 DEF SubsumptionInv, ComparedInv
        <5> QED BY <4>1, <5>1 DEF VarsOf
      <4>2. CASE x \in solver.listed
        BY <2>3, <3>2, <4>2 DEF SubsumptionInv, ComparedInv
      <4> QED BY <2>5, <4>1, <4>2
    <3>3. ComparedInv'
      BY <2>2, <2>3, <3>1, <3>2 DEF ComparedInv, Awaited, Relates
    <3> QED BY <2>2, <3>3 DEF SubsumptionInv, NothingLeft
  <2> QED BY <2>3, <2>4, <2>5
<1>14. CASE ClauseChecked
  BY <1>14, OtherCheckedCompared DEF ClauseChecked, SubsumptionInv, NothingLeft
<1>15. CASE Subsumed
  BY <1>2, <1>3, <1>15 DEF Subsumed, SubsumptionInv, NothingLeft
<1>16. CASE SkipVar
  <2>1. SameBooks(solver, solver')
    BY <1>1, <1>16 DEF SkipVar, SolverRecord, SameBooks
  <2> QED BY <1>2, <1>16, <2>1 DEF SkipVar, SubsumptionInv, NothingLeft, SameBooks
<1>17. CASE EliminateVar
  <2>1. PICK v \in AllVars :
          solver' = RemoveClauses(
            [solver EXCEPT !.heap = @ \ {v}, !.eliminated = @ \cup {v},
                           !.elimclauses = @ \o Stored(solver, v)],
            {c \in solver.listed : v \in VarsOf(c)})
    <3>1. solver.heap \subseteq AllVars
      BY <1>1 DEF SolverRecord
    <3> QED BY <1>17, <3>1 DEF EliminateVar, Cheapest
  <2>2. PICK fs : fs = solver.elimclauses \o Stored(solver, v)
    OBVIOUS
  <2>3. fs \in Seq(RemovedClause)
    <3>1. solver.elimclauses \in Seq(RemovedClause)
      BY <1>1 DEF SolverRecord, RemovedClause
    <3>2. Stored(solver, v) \in Seq(RemovedClause)
      BY <1>1, StoredExtends
    <3> QED BY <2>2, <3>1, <3>2
  <2>4. PICK s : s = [solver EXCEPT !.heap = @ \ {v}, !.eliminated = @ \cup {v}, !.elimclauses = fs]
    OBVIOUS
  <2>5. /\ s \in SolverRecord /\ SameBooks(solver, s) /\ s.trail = solver.trail /\ s.ok = solver.ok
    BY <1>1, <2>1, <2>3, <2>4 DEF SolverRecord, RemovedClause, SameBooks
  <2>6. Fine(s)
    BY <1>1, <2>5 DEF Fine, SameBooks
  <2>7. PICK cs : cs = {c \in solver.listed : v \in VarsOf(c)}
    OBVIOUS
  <2>8. solver' = RemoveClauses(s, cs) /\ cs \in SUBSET s.listed
    BY <2>1, <2>2, <2>4, <2>5, <2>7 DEF SameBooks
  <2>9. UNCHANGED current /\ phase' = "resolve"
    BY <1>17 DEF EliminateVar
  <2>10. ComparedInv'
    BY <1>4, <2>5, <2>6, <2>8, <2>9, ClausesRemoved DEF SameBooks
  <2> QED BY <2>9, <2>10 DEF SubsumptionInv, NothingLeft
<1>18. CASE AddResolvent
  <2>1. PICK r \in pending : solver' = AddListed(solver, r)
    BY <1>18 DEF AddResolvent
  <2>2. /\ r \in SUBSET AllLits /\ current = {} /\ current' = {}
        /\ phase' \in {"resolve", "done"} /\ (phase' = "done" => ~solver'.ok)
    BY <1>18, <2>1 DEF AddResolvent, StepsInv
  <2>3. ComparedInv'
    BY <2>1, <2>2, AddedCompared DEF SubsumptionInv
  <2> QED BY <2>2, <2>3 DEF SubsumptionInv, NothingLeft
<1>19. CASE Resolved
  BY <1>2, <1>3, <1>19 DEF Resolved, SubsumptionInv, NothingLeft
<1>20. CASE EndElimination
  BY <1>2, <1>3, <1>20 DEF EndElimination, SubsumptionInv, NothingLeft
<1> QED BY <1>5, <1>6, <1>7, <1>8, <1>9, <1>10, <1>11, <1>12, <1>13, <1>14, <1>15, <1>16, <1>17, <1>18,
           <1>19, <1>20 DEF Next, Simplify

\* With nothing left to be compared no clause says anything about another one.
LEMMA NothingLeftIsComplete ==
  ASSUME StepsInv, SubsumptionInv
  PROVE  SubsumptionComplete
<1> SUFFICES ASSUME phase = "done", solver.ok
             PROVE  /\ \A c, d \in solver.listed : ~Relates(c, d)
                    /\ \A c \in solver.listed : VarsOf(c) \cap Valued(solver) = {}
  BY DEF SubsumptionComplete, Relates
<1>1. solver.queue = {} /\ solver.touched = {} /\ current = {} /\ solver.checked = solver.trail
  BY DEF SubsumptionInv, NothingLeft
<1>2. {} \notin solver.listed
  <2>1. Cardinality({}) = 0
    BY FS_EmptySet
  <2> QED BY <2>1 DEF StepsInv, Fine
<1>3. \A c \in solver.listed : ~Awaited(c)
  BY <1>1, <1>2 DEF Awaited
<1>4. \A p \in solver.trail, c \in solver.listed : p[1] \notin VarsOf(c)
  <2>1. \A p : {} # {p}
    OBVIOUS
  <2> QED BY <1>1, <2>1 DEF SubsumptionInv, ComparedInv
<1> QED BY <1>3, <1>4 DEF SubsumptionInv, ComparedInv, Valued, VarsOf

\* When eliminate() ends without a contradiction no clause subsumes or
\* strengthens another one and no clause has a variable with a value: neither the
\* queue of backward subsumption nor the touched variables ever lose a clause.
THEOREM SubsumptionIsComplete == Spec => []SubsumptionComplete
<1>1. Init => SubsumptionInv
  BY InitCompared
<1>2. StepsInv /\ SubsumptionInv /\ [Next]_simpVars => SubsumptionInv'
  BY NextCompared
<1>3. PreprocessingInv => StepsInv
  BY DEF PreprocessingInv
<1>4. StepsInv /\ SubsumptionInv => SubsumptionComplete
  BY NothingLeftIsComplete
<1> QED BY <1>1, <1>2, <1>3, <1>4, PreprocessingIsRight, PTL DEF Spec

-----------------------------------------------------------------------------
(* eliminate() ends.                                                       *)

\* How one tuple of eight is less than another one.
LEMMA Lexicographic ==
  ASSUME NEW m, NEW n, DOMAIN m = 1..8,
         \/ m[1] < n[1]
         \/ m[1] = n[1] /\ m[2] < n[2]
         \/ m[1] = n[1] /\ m[2] = n[2] /\ m[3] < n[3]
         \/ m[1] = n[1] /\ m[2] = n[2] /\ m[3] = n[3] /\ m[4] < n[4]
         \/ m[1] = n[1] /\ m[2] = n[2] /\ m[3] = n[3] /\ m[4] = n[4] /\ m[5] < n[5]
         \/ m[1] = n[1] /\ m[2] = n[2] /\ m[3] = n[3] /\ m[4] = n[4] /\ m[5] = n[5] /\ m[6] < n[6]
         \/ m[1] = n[1] /\ m[2] = n[2] /\ m[3] = n[3] /\ m[4] = n[4] /\ m[5] = n[5] /\ m[6] = n[6] /\ m[7] < n[7]
         \/ m[1] = n[1] /\ m[2] = n[2] /\ m[3] = n[3] /\ m[4] = n[4] /\ m[5] = n[5] /\ m[6] = n[6] /\ m[7] = n[7] /\ m[8] < n[8]
  PROVE  Less(m, n)
<1>1. ASSUME NEW i \in 1..8, m[i] < n[i], \A j \in 1..(i - 1) : m[j] = n[j]
      PROVE  Less(m, n)
  BY <1>1 DEF Less
<1>2. CASE m[1] < n[1]
  <2>1. \A j \in 1..(1 - 1) : m[j] = n[j]
    OBVIOUS
  <2> QED BY <1>1, <1>2, <2>1
<1>3. CASE m[1] = n[1] /\ m[2] < n[2]
  <2>1. \A j \in 1..(2 - 1) : j = 1
    OBVIOUS
  <2>2. \A j \in 1..(2 - 1) : m[j] = n[j]
    BY <1>3, <2>1
  <2> QED BY <1>1, <1>3, <2>2
<1>4. CASE m[1] = n[1] /\ m[2] = n[2] /\ m[3] < n[3]
  <2>1. \A j \in 1..(3 - 1) : j = 1 \/ j = 2
    OBVIOUS
  <2>2. \A j \in 1..(3 - 1) : m[j] = n[j]
    BY <1>4, <2>1
  <2> QED BY <1>1, <1>4, <2>2
<1>5. CASE m[1] = n[1] /\ m[2] = n[2] /\ m[3] = n[3] /\ m[4] < n[4]
  <2>1. \A j \in 1..(4 - 1) : j = 1 \/ j = 2 \/ j = 3
    OBVIOUS
  <2>2. \A j \in 1..(4 - 1) : m[j] = n[j]
    BY <1>5, <2>1
  <2> QED BY <1>1, <1>5, <2>2
<1>6. CASE m[1] = n[1] /\ m[2] = n[2] /\ m[3] = n[3] /\ m[4] = n[4] /\ m[5] < n[5]
  <2>1. \A j \in 1..(5 - 1) : j = 1 \/ j = 2 \/ j = 3 \/ j = 4
    OBVIOUS
  <2>2. \A j \in 1..(5 - 1) : m[j] = n[j]
    BY <1>6, <2>1
  <2> QED BY <1>1, <1>6, <2>2
<1>7. CASE m[1] = n[1] /\ m[2] = n[2] /\ m[3] = n[3] /\ m[4] = n[4] /\ m[5] = n[5] /\ m[6] < n[6]
  <2>1. \A j \in 1..(6 - 1) : j = 1 \/ j = 2 \/ j = 3 \/ j = 4 \/ j = 5
    OBVIOUS
  <2>2. \A j \in 1..(6 - 1) : m[j] = n[j]
    BY <1>7, <2>1
  <2> QED BY <1>1, <1>7, <2>2
<1>8. CASE m[1] = n[1] /\ m[2] = n[2] /\ m[3] = n[3] /\ m[4] = n[4] /\ m[5] = n[5] /\ m[6] = n[6] /\ m[7] < n[7]
  <2>1. \A j \in 1..(7 - 1) : j = 1 \/ j = 2 \/ j = 3 \/ j = 4 \/ j = 5 \/ j = 6
    OBVIOUS
  <2>2. \A j \in 1..(7 - 1) : m[j] = n[j]
    BY <1>8, <2>1
  <2> QED BY <1>1, <1>8, <2>2
<1>9. CASE m[1] = n[1] /\ m[2] = n[2] /\ m[3] = n[3] /\ m[4] = n[4] /\ m[5] = n[5] /\ m[6] = n[6] /\ m[7] = n[7] /\ m[8] < n[8]
  <2>1. \A j \in 1..(8 - 1) : j = 1 \/ j = 2 \/ j = 3 \/ j = 4 \/ j = 5 \/ j = 6 \/ j = 7
    OBVIOUS
  <2>2. \A j \in 1..(8 - 1) : m[j] = n[j]
    BY <1>9, <2>1
  <2> QED BY <1>1, <1>9, <2>2
<1> QED BY <1>2, <1>3, <1>4, <1>5, <1>6, <1>7, <1>8, <1>9

\* A proper subset is smaller.
LEMMA Smaller ==
  ASSUME NEW S, IsFiniteSet(S), NEW T \in SUBSET S, T # S
  PROVE  Cardinality(T) < Cardinality(S) /\ Cardinality(T) \in Nat /\ Cardinality(S) \in Nat
BY FS_Subset, FS_CardinalityType

\* A clause has as many places as literals.
LEMMA OnePlace ==
  ASSUME NEW c \in SUBSET AllLits
  PROVE  IsFiniteSet({c} \X c) /\ Cardinality({c} \X c) = Cardinality(c)
<1>1. IsFiniteSet({c}) /\ Cardinality({c}) = 1
  BY FS_Singleton
<1>2. IsFiniteSet(c) /\ Cardinality(c) \in Nat
  BY FiniteData
<1>3. IsFiniteSet({c} \X c) /\ Cardinality({c} \X c) = Cardinality({c}) * Cardinality(c)
  BY <1>1, <1>2, FS_Product
<1> QED BY <1>1, <1>2, <1>3

\* Each place is one of a clause.
LEMMA PlacesAre ==
  ASSUME NEW cls
  PROVE  \A x : x \in Places(cls) <=> \E c \in cls : x \in {c} \X c
BY DEF Places

\* There are finitely many places.
LEMMA FinitePlaces ==
  ASSUME NEW cls \in SUBSET SUBSET AllLits
  PROVE  IsFiniteSet(Places(cls)) /\ Cardinality(Places(cls)) \in Nat
<1>1. IsFiniteSet(SUBSET AllLits) /\ IsFiniteSet(AllLits)
  BY FiniteData
<1>2. IsFiniteSet((SUBSET AllLits) \X AllLits)
  BY <1>1, FS_Product
<1>3. Places(cls) \in SUBSET ((SUBSET AllLits) \X AllLits)
  BY DEF Places
<1> QED BY <1>2, <1>3, FS_Subset, FS_CardinalityType

\* Removing a clause removes its literals.
LEMMA PlacesRemoved ==
  ASSUME NEW cls \in SUBSET SUBSET AllLits, NEW d \in cls
  PROVE  /\ Cardinality(Places(cls \ {d})) = Cardinality(Places(cls)) - Cardinality(d)
         /\ Cardinality(d) \in Nat
<1>1. cls \ {d} \in SUBSET SUBSET AllLits /\ d \in SUBSET AllLits
  OBVIOUS
<1>2. PICK P, Q, R : P = Places(cls) /\ Q = Places(cls \ {d}) /\ R = {d} \X d
  OBVIOUS
<1>3. /\ IsFiniteSet(P) /\ IsFiniteSet(Q) /\ IsFiniteSet(R) /\ Cardinality(R) = Cardinality(d)
      /\ Cardinality(P) \in Nat /\ Cardinality(Q) \in Nat /\ Cardinality(d) \in Nat
  BY <1>1, <1>2, FinitePlaces, OnePlace, FiniteData
<1>4. P = Q \cup R
  <2>1. \A x : x \in P <=> \E c \in cls : x \in {c} \X c
    BY <1>2, PlacesAre
  <2>2. \A x : x \in Q <=> \E c \in cls \ {d} : x \in {c} \X c
    BY <1>2, PlacesAre
  <2>3. \A x : (\E c \in cls : x \in {c} \X c) <=> (\E c \in cls \ {d} : x \in {c} \X c) \/ x \in {d} \X d
    OBVIOUS
  <2>4. \A x : x \in R <=> x \in {d} \X d
    BY <1>2
  <2>5. \A x : x \in P <=> x \in Q \/ x \in R
    BY <2>1, <2>2, <2>3, <2>4, Zenon
  <2> QED BY <2>5
<1>5. Q \cap R = {}
  <2>1. \A x : x \in Q <=> \E c \in cls \ {d} : x \in {c} \X c
    BY <1>2, PlacesAre
  <2>2. \A x \in Q : x[1] # d
    BY <2>1
  <2>3. \A x \in R : x[1] = d
    BY <1>2
  <2> QED BY <2>2, <2>3
<1>6. Cardinality(P) = Cardinality(Q) + Cardinality(R) - Cardinality(Q \cap R)
  BY <1>3, <1>4, FS_Union
<1>7. Cardinality(Q \cap R) = 0
  BY <1>5, FS_EmptySet
<1> QED BY <1>2, <1>3, <1>6, <1>7

\* Another clause adds no more places than it has literals.
LEMMA PlacesAdded ==
  ASSUME NEW cls \in SUBSET SUBSET AllLits, NEW c \in SUBSET AllLits
  PROVE  /\ Cardinality(Places(cls \cup {c})) <= Cardinality(Places(cls)) + Cardinality(c)
         /\ Cardinality(c) \in Nat
<1>1. PICK P, Q, R : P = Places(cls \cup {c}) /\ Q = Places(cls) /\ R = {c} \X c
  OBVIOUS
<1>2. P = Q \cup R
  <2>1. \A x : x \in P <=> \E e \in cls \cup {c} : x \in {e} \X e
    BY <1>1, PlacesAre
  <2>2. \A x : x \in Q <=> \E e \in cls : x \in {e} \X e
    BY <1>1, PlacesAre
  <2>3. \A x : (\E e \in cls \cup {c} : x \in {e} \X e) <=> (\E e \in cls : x \in {e} \X e) \/ x \in {c} \X c
    OBVIOUS
  <2>4. \A x : x \in P <=> x \in Q \/ x \in R
    BY <1>1, <2>1, <2>2, <2>3, Zenon
  <2> QED BY <2>4
<1>3. /\ IsFiniteSet(Q) /\ IsFiniteSet(R) /\ Cardinality(R) = Cardinality(c)
      /\ Cardinality(Q) \in Nat /\ Cardinality(c) \in Nat
  BY <1>1, FinitePlaces, OnePlace, FiniteData
<1>4. /\ Cardinality(P) = Cardinality(Q) + Cardinality(R) - Cardinality(Q \cap R)
      /\ IsFiniteSet(P)
  BY <1>2, <1>3, FS_Union
<1>5. Cardinality(Q \cap R) \in Nat
  <2>1. Q \cap R \in SUBSET Q
    OBVIOUS
  <2> QED BY <1>3, <2>1, FS_Subset, FS_CardinalityType
<1> QED BY <1>1, <1>3, <1>4, <1>5

\* A step lowers the measure if it lowers one component and none before it.
LEMMA MeasureFalls ==
  ASSUME StepsInv, StepsInv',
         \/ Cardinality(solver'.vars \ solver'.eliminated) < Cardinality(solver.vars \ solver.eliminated)
         \/ /\ solver'.eliminated = solver.eliminated
            /\ \/ Cardinality(pending') < Cardinality(pending)
               \/ /\ pending' = pending
                  /\ \/ Cardinality(Places(solver'.listed)) < Cardinality(Places(solver.listed))
                     \/ /\ solver'.listed = solver.listed
                        /\ \/ Cardinality(solver'.touched) < Cardinality(solver.touched)
                           \/ /\ solver'.touched = solver.touched
                              /\ \/ Cardinality(solver'.trail \ solver'.checked)
                                      < Cardinality(solver.trail \ solver.checked)
                                 \/ /\ solver'.trail = solver.trail /\ solver'.checked = solver.checked
                                    /\ \/ Cardinality(solver'.heap) < Cardinality(solver.heap)
                                       \/ solver'.heap = solver.heap /\ Stage' < Stage
                                       \/ /\ solver'.heap = solver.heap /\ Stage' = Stage
                                          /\ 2 * Cardinality(solver'.queue) + (IF current' = {} THEN 0 ELSE 1)
                                               < 2 * Cardinality(solver.queue) + (IF current = {} THEN 0 ELSE 1)
  PROVE  Less(Measure', Measure)
<1>1. solver.vars = AllVars /\ solver'.vars = AllVars
  <2>1. solver \in SolverRecord
    BY DEF StepsInv, Fine
  <2>2. solver' \in SolverRecord
    BY DEF StepsInv, Fine, SolverRecord, AllLits, AllVars
  <2> QED BY <2>1, <2>2 DEF SolverRecord
<1>2. PICK m, n : m = Measure' /\ n = Measure
  OBVIOUS
<1>3. /\ n[1] = Cardinality(solver.vars \ solver.eliminated) /\ n[2] = Cardinality(pending)
      /\ n[3] = Cardinality(Places(solver.listed)) /\ n[4] = Cardinality(solver.touched)
      /\ n[5] = Cardinality(solver.trail \ solver.checked) /\ n[6] = Cardinality(solver.heap)
      /\ n[7] = Stage /\ n[8] = 2 * Cardinality(solver.queue) + (IF current = {} THEN 0 ELSE 1)
  BY <1>2 DEF Measure
<1>4. /\ m[1] = Cardinality(solver'.vars \ solver'.eliminated) /\ m[2] = Cardinality(pending')
      /\ m[3] = Cardinality(Places(solver'.listed)) /\ m[4] = Cardinality(solver'.touched)
      /\ m[5] = Cardinality(solver'.trail \ solver'.checked) /\ m[6] = Cardinality(solver'.heap)
      /\ m[7] = Stage' /\ m[8] = 2 * Cardinality(solver'.queue) + (IF current' = {} THEN 0 ELSE 1)
      /\ DOMAIN m = 1..8
  BY <1>2 DEF Measure
<1>5. \/ m[1] < n[1]
      \/ m[1] = n[1] /\ m[2] < n[2]
      \/ m[1] = n[1] /\ m[2] = n[2] /\ m[3] < n[3]
      \/ m[1] = n[1] /\ m[2] = n[2] /\ m[3] = n[3] /\ m[4] < n[4]
      \/ m[1] = n[1] /\ m[2] = n[2] /\ m[3] = n[3] /\ m[4] = n[4] /\ m[5] < n[5]
      \/ m[1] = n[1] /\ m[2] = n[2] /\ m[3] = n[3] /\ m[4] = n[4] /\ m[5] = n[5] /\ m[6] < n[6]
      \/ m[1] = n[1] /\ m[2] = n[2] /\ m[3] = n[3] /\ m[4] = n[4] /\ m[5] = n[5] /\ m[6] = n[6] /\ m[7] < n[7]
      \/ m[1] = n[1] /\ m[2] = n[2] /\ m[3] = n[3] /\ m[4] = n[4] /\ m[5] = n[5] /\ m[6] = n[6] /\ m[7] = n[7] /\ m[8] < n[8]
  BY <1>1, <1>3, <1>4
<1> QED BY <1>2, <1>4, <1>5, Lexicographic

\* Every step keeps the order of the two.
LEMMA CheckedStep ==
  ASSUME ValuesAreChecked, [Next]_simpVars
  PROVE  ValuesAreChecked'
<1>1. CASE UNCHANGED simpVars
  BY <1>1 DEF simpVars, ValuesAreChecked
<1>2. CASE SkipVar
  <2>1. PICK v : solver' = [solver EXCEPT !.heap = @ \ {v}]
    BY <1>2 DEF SkipVar
  <2>2. solver'.checked = solver.checked /\ solver'.trail = solver.trail
    BY <2>1
  <2> QED BY <1>2, <2>2 DEF SkipVar, ValuesAreChecked
<1>3. CASE Subsumed
  BY <1>3 DEF Subsumed, ValuesAreChecked
<1>4. ASSUME ~SkipVar, ~Subsumed, Next PROVE phase' # "elim"
  BY <1>4 DEF Next, Simplify, Freeze, AddClause, StartEliminate, Gather, FinishEliminate, TakeClause,
     RemoveSubsumed, StrengthenOther, ClauseChecked, EliminateVar, AddResolvent, Resolved, EndElimination
<1> QED BY <1>1, <1>2, <1>3, <1>4 DEF ValuesAreChecked

\* Each step of eliminate() lowers the measure.
LEMMA SimplifyFalls ==
  ASSUME PreprocessingInv, ValuesAreChecked, Simplify
  PROVE  Less(Measure', Measure)
<1>1. StepsInv /\ StepsInv'
  BY NextInv DEF Next, PreprocessingInv
<1>2. /\ solver \in SolverRecord /\ Fine(solver) /\ solver.vars = AllVars
      /\ solver.listed \in SUBSET SUBSET AllLits /\ solver.queue \in SUBSET SUBSET AllLits
      /\ solver.trail \in SUBSET AllLits /\ solver.touched \in SUBSET AllVars
      /\ solver.heap \in SUBSET AllVars /\ pending \in SUBSET SUBSET AllLits
  BY <1>1 DEF StepsInv, Fine, SolverRecord
<1>3. /\ \A vs \in SUBSET AllVars : IsFiniteSet(vs) /\ Cardinality(vs) \in Nat
      /\ \A c \in SUBSET AllLits : IsFiniteSet(c) /\ Cardinality(c) \in Nat
      /\ \A cs \in SUBSET SUBSET AllLits : IsFiniteSet(cs) /\ Cardinality(cs) \in Nat
  BY FiniteData, FS_Subset, FS_CardinalityType
<1>4. CASE Gather
  <2>1. /\ UNCHANGED <<current, pending>> /\ phase = "loop" /\ phase' = "subsume" /\ MoreToDo(solver)
        /\ solver' = Gathered(solver)
    BY <1>4 DEF Gather
  <2>2. /\ solver'.listed = solver.listed /\ solver'.eliminated = solver.eliminated /\ solver'.touched = {}
        /\ solver'.trail = solver.trail /\ solver'.checked = solver.checked /\ solver'.heap = solver.heap
    BY <1>2, <2>1 DEF Gathered, SolverRecord
  <2>3. CASE solver.touched # {}
    <3>1. Cardinality(solver'.touched) < Cardinality(solver.touched)
      BY <1>2, <1>3, <2>2, <2>3, Smaller
    <3> QED BY <1>1, <2>1, <2>2, <3>1, MeasureFalls
  <2>4. CASE solver.touched = {}
    <3>1. Stage = 4
      BY <2>1, <2>4 DEF Stage
    <3>2. Stage' = 3
      BY <2>1 DEF Stage
    <3> QED BY <1>1, <2>1, <2>2, <2>4, <3>1, <3>2, MeasureFalls
  <2> QED BY <2>3, <2>4
<1>5. CASE FinishEliminate
  <2>1. UNCHANGED <<solver, current, pending>> /\ phase = "loop" /\ phase' = "done" /\ ~MoreToDo(solver)
    BY <1>5 DEF FinishEliminate
  <2>2. Stage = 1
    BY <2>1 DEF Stage
  <2>3. Stage' = 0
    BY <2>1 DEF Stage
  <2> QED BY <1>1, <2>1, <2>2, <2>3, MeasureFalls
<1>6. CASE TakeClause
  <2>1. phase = "subsume" /\ current = {} /\ UNCHANGED <<phase, pending>>
    BY <1>6 DEF TakeClause
  <2>2. CASE \E c \in solver.queue : current' = c /\ solver' = [solver EXCEPT !.queue = @ \ {c}]
    <3>1. PICK c \in solver.queue : current' = c /\ solver' = [solver EXCEPT !.queue = @ \ {c}]
      BY <2>2
    <3>2. /\ solver'.listed = solver.listed /\ solver'.eliminated = solver.eliminated
          /\ solver'.touched = solver.touched /\ solver'.trail = solver.trail
          /\ solver'.checked = solver.checked /\ solver'.heap = solver.heap
          /\ solver'.queue = solver.queue \ {c}
      BY <1>2, <3>1 DEF SolverRecord
    <3>3. Stage = 3
      BY <2>1 DEF Stage
    <3>4. Stage' = 3
      BY <2>1 DEF Stage
    <3>5. Cardinality(solver'.queue) < Cardinality(solver.queue) /\ Cardinality(solver'.queue) \in Nat
          /\ Cardinality(solver.queue) \in Nat
      BY <1>2, <1>3, <3>2, Smaller
    <3>6. 2 * Cardinality(solver'.queue) + (IF current' = {} THEN 0 ELSE 1)
            < 2 * Cardinality(solver.queue) + (IF current = {} THEN 0 ELSE 1)
      BY <2>1, <3>5
    <3> QED BY <1>1, <2>1, <3>2, <3>3, <3>4, <3>6, MeasureFalls
  <2>3. CASE \E p \in solver.trail \ solver.checked :
               current' = {p} /\ solver' = [solver EXCEPT !.checked = @ \cup {p}]
    <3>1. PICK p \in solver.trail \ solver.checked : solver' = [solver EXCEPT !.checked = @ \cup {p}]
      BY <2>3
    <3>2. /\ solver'.listed = solver.listed /\ solver'.eliminated = solver.eliminated
          /\ solver'.touched = solver.touched /\ solver'.trail = solver.trail
          /\ solver'.checked = solver.checked \cup {p}
      BY <1>2, <3>1 DEF SolverRecord
    <3>3. Cardinality(solver'.trail \ solver'.checked) < Cardinality(solver.trail \ solver.checked)
      BY <1>2, <1>3, <3>1, <3>2, Smaller
    <3> QED BY <1>1, <2>1, <3>2, <3>3, MeasureFalls
  <2> QED BY <1>6, <2>2, <2>3 DEF TakeClause
<1>7. CASE RemoveSubsumed
  <2>1. PICK d \in solver.listed : solver' = RemoveClauses(solver, {d})
    BY <1>7 DEF RemoveSubsumed
  <2>2. UNCHANGED pending
    BY <1>7 DEF RemoveSubsumed
  <2>3. solver'.eliminated = solver.eliminated /\ solver'.listed = solver.listed \ {d}
    BY <1>2, <2>1, ClausesRemoved DEF SameMemory
  <2>4. Cardinality(d) >= 2
    BY <1>2 DEF Fine
  <2>5. Cardinality(Places(solver'.listed)) < Cardinality(Places(solver.listed))
    BY <1>2, <2>3, <2>4, PlacesRemoved, FinitePlaces
  <2> QED BY <1>1, <2>2, <2>3, <2>5, MeasureFalls
<1>8. CASE StrengthenOther
  <2>1. PICK d \in solver.listed : \E p \in Strengthens(current, d) : solver' = StrengthenClause(solver, d, p)
    BY <1>8 DEF StrengthenOther
  <2>2. PICK p \in Strengthens(current, d) : solver' = StrengthenClause(solver, d, p)
    BY <2>1
  <2>3. p \in d
    BY <2>2 DEF Strengthens
  <2>4. UNCHANGED pending /\ current \in Known(solver)
    BY <1>1, <1>8 DEF StrengthenOther, StepsInv
  <2>5. solver'.eliminated = solver.eliminated
    BY <1>2, <2>2, <2>4, OtherStrengthened DEF SameModels, SameMemory
  <2>6. solver'.listed = solver.listed \ {d} \/ solver'.listed = (solver.listed \ {d}) \cup {d \ {p}}
    BY <1>2, <2>2, <2>3, StrengthenBooks
  <2>7. /\ Cardinality(d) \in Nat /\ Cardinality(d) >= 2 /\ Cardinality(d \ {p}) = Cardinality(d) - 1
    <3>1. IsFiniteSet(d)
      BY <1>2, <1>3
    <3> QED BY <1>2, <1>3, <2>3, <3>1, FS_RemoveElement DEF Fine
  <2>8. PICK cls : cls = solver.listed \ {d}
    OBVIOUS
  <2>9. cls \in SUBSET SUBSET AllLits /\ d \ {p} \in SUBSET AllLits
    BY <1>2, <2>8
  <2>10. Cardinality(Places(cls)) = Cardinality(Places(solver.listed)) - Cardinality(d)
    BY <1>2, <2>8, PlacesRemoved
  <2>11. Cardinality(Places(cls \cup {d \ {p}})) <= Cardinality(Places(cls)) + Cardinality(d \ {p})
    BY <2>9, PlacesAdded
  <2>12. /\ Cardinality(Places(cls)) \in Nat /\ Cardinality(Places(solver.listed)) \in Nat
         /\ Cardinality(Places(cls \cup {d \ {p}})) \in Nat
    BY <1>2, <2>9, FinitePlaces
  <2>13. Cardinality(Places(solver'.listed)) < Cardinality(Places(solver.listed))
    <3>1. solver'.listed = cls \/ solver'.listed = cls \cup {d \ {p}}
      BY <2>6, <2>8
    <3>2. Cardinality(Places(cls)) < Cardinality(Places(solver.listed))
      BY <2>7, <2>10, <2>12
    <3>3. Cardinality(Places(cls \cup {d \ {p}})) < Cardinality(Places(solver.listed))
      BY <2>7, <2>10, <2>11, <2>12
    <3> QED BY <3>1, <3>2, <3>3
  <2> QED BY <1>1, <2>4, <2>5, <2>13, MeasureFalls
<1>9. CASE ClauseChecked
  <2>1. UNCHANGED <<solver, phase, pending>> /\ current # {} /\ current' = {} /\ phase = "subsume"
    BY <1>9 DEF ClauseChecked
  <2>2. Stage' = Stage
    BY <2>1 DEF Stage
  <2>3. 2 * Cardinality(solver'.queue) + (IF current' = {} THEN 0 ELSE 1)
          < 2 * Cardinality(solver.queue) + (IF current = {} THEN 0 ELSE 1)
    BY <1>2, <1>3, <2>1
  <2> QED BY <1>1, <2>1, <2>2, <2>3, MeasureFalls
<1>10. CASE Subsumed
  <2>1. UNCHANGED <<solver, pending>> /\ phase = "subsume" /\ phase' = "elim"
    BY <1>10 DEF Subsumed
  <2>2. Stage = 3
    BY <2>1 DEF Stage
  <2>3. Stage' = 2
    BY <2>1 DEF Stage
  <2> QED BY <1>1, <2>1, <2>2, <2>3, MeasureFalls
<1>11. CASE SkipVar
  <2>1. PICK v \in solver.heap : solver' = [solver EXCEPT !.heap = @ \ {v}]
    BY <1>11 DEF SkipVar, Cheapest
  <2>2. UNCHANGED pending
    BY <1>11 DEF SkipVar
  <2>3. /\ solver'.listed = solver.listed /\ solver'.eliminated = solver.eliminated
        /\ solver'.touched = solver.touched /\ solver'.trail = solver.trail
        /\ solver'.checked = solver.checked /\ solver'.heap = solver.heap \ {v}
    BY <1>2, <2>1 DEF SolverRecord
  <2>4. Cardinality(solver'.heap) < Cardinality(solver.heap)
    BY <1>2, <1>3, <2>3, Smaller
  <2> QED BY <1>1, <2>2, <2>3, <2>4, MeasureFalls
<1>12. CASE EliminateVar
  <2>1. PICK v \in solver.heap :
          /\ v \notin solver.eliminated
          /\ solver' = RemoveClauses(
               [solver EXCEPT !.heap = @ \ {v}, !.eliminated = @ \cup {v},
                              !.elimclauses = @ \o Stored(solver, v)],
               {c \in solver.listed : v \in VarsOf(c)})
    BY <1>12 DEF EliminateVar, Cheapest, Eliminable
  <2>2. solver'.eliminated = solver.eliminated \cup {v} /\ solver'.vars = solver.vars
    BY <1>2, <2>1 DEF RemoveClauses, UpdateHeap, SolverRecord
  <2>3. Cardinality(solver'.vars \ solver'.eliminated) < Cardinality(solver.vars \ solver.eliminated)
    BY <1>2, <1>3, <2>1, <2>2, Smaller
  <2> QED BY <1>1, <2>3, MeasureFalls
<1>13. CASE AddResolvent
  <2>1. PICK r \in pending : solver' = AddListed(solver, r) /\ pending' = pending \ {r}
    BY <1>13 DEF AddResolvent
  <2>2. solver'.eliminated = solver.eliminated
    BY <1>2, <2>1, AddListedAdds DEF Adds, SameMemory
  <2>3. Cardinality(pending') < Cardinality(pending)
    BY <1>2, <1>3, <2>1, Smaller
  <2> QED BY <1>1, <2>2, <2>3, MeasureFalls
<1>14. CASE Resolved
  <2>1. UNCHANGED <<solver, pending>> /\ phase = "resolve" /\ phase' = "subsume"
    BY <1>14 DEF Resolved
  <2>2. Stage = 4
    BY <2>1 DEF Stage
  <2>3. Stage' = 3
    BY <2>1 DEF Stage
  <2> QED BY <1>1, <2>1, <2>2, <2>3, MeasureFalls
<1>15. CASE EndElimination
  <2>1. /\ UNCHANGED <<solver, pending>> /\ phase = "elim" /\ phase' = "loop" /\ solver.heap = {}
        /\ solver.checked = solver.trail
    BY <1>15 DEF EndElimination, ValuesAreChecked
  <2>2. Stage = 2
    BY <2>1 DEF Stage
  <2>3. Stage' = 1
    BY <2>1 DEF Stage, MoreToDo
  <2> QED BY <1>1, <2>1, <2>2, <2>3, MeasureFalls
<1> QED BY <1>4, <1>5, <1>6, <1>7, <1>8, <1>9, <1>10, <1>11, <1>12, <1>13, <1>14, <1>15 DEF Simplify

\* The three nested loops of eliminate() end: each of their steps leaves less
\* to do, in an order in which nothing can become less for ever.
THEOREM EliminateMakesProgress == Spec => Progress
<1>1. Init => ValuesAreChecked
  BY DEF Init, ValuesAreChecked
<1>2. ValuesAreChecked /\ [Next]_simpVars => ValuesAreChecked'
  BY CheckedStep
<1>3. PreprocessingInv /\ ValuesAreChecked /\ [Next]_simpVars => [Simplify => Less(Measure', Measure)]_simpVars
  BY SimplifyFalls
<1> QED BY <1>1, <1>2, <1>3, PreprocessingIsRight, PTL DEF Spec, Progress
=============================================================================
