--------------------------- MODULE LoadingProofs ---------------------------
(***************************************************************************)
(* Proofs about the way of a file through the program, for all files and   *)
(* command lines: the circuit that check() gets is that of the file, the   *)
(* Model's numbering is the solver's, and loadTransitionRelation() leaves  *)
(* clauses whose models are the transitions of that circuit.               *)
(***************************************************************************)
EXTENDS Loading, FiniteSetTheorems, SequenceTheorems, WellFoundedInduction, TLAPS

-----------------------------------------------------------------------------
(* The tables of a Model and the values of its variables.                  *)

\* A literal of a variable of the circuit.
CircuitLits(c) == LitsOf(0..(FirstPrime(c) - 1))

\* The tables of a Model.
CircuitOK(c) ==
  /\ c.inputs \in Nat /\ c.latches \in Nat
  /\ c.gates \in Seq([rhs0 : CircuitLits(c), rhs1 : CircuitLits(c)])
  /\ c.next \in [1..c.latches -> CircuitLits(c)]
  /\ c.error \in CircuitLits(c)
  /\ c.constraints \in Seq(CircuitLits(c))

\* Each gate comes after what it reads.
GatesInOrder(c) ==
  \A i \in 1..Len(c.gates) :
    c.gates[i].rhs0[1] < FirstGate(c) + i - 1 /\ c.gates[i].rhs1[1] < FirstGate(c) + i - 1

\* What Values has for variable v, given the values val of those before it.
Evaluated(c, on, val, v) ==
  IF v < FirstGate(c) THEN v \in on
  ELSE /\ val[c.gates[v - FirstGate(c) + 1].rhs0[1]] = c.gates[v - FirstGate(c) + 1].rhs0[2]
       /\ val[c.gates[v - FirstGate(c) + 1].rhs1[1]] = c.gates[v - FirstGate(c) + 1].rhs1[2]

\* Induction: a set of numbers with 0 and the successor of each of its
\* members below N has all numbers up to N.
LEMMA UpTo ==
  ASSUME NEW N \in Nat, NEW S, 0 \in S, \A n \in 0..N : n \in S /\ n # N => n + 1 \in S
  PROVE  0..N \subseteq S
<1> DEFINE R == {n \in 0..N : n \notin S}
<1> SUFFICES ASSUME R # {} PROVE FALSE
  OBVIOUS
<1>1. R \subseteq Nat
  OBVIOUS
<1> HIDE DEF R
<1>2. \E m \in R : \A x \in R : <<x, m>> \notin OpToRel(<, Nat)
  BY <1>1, NatLessThanWellFounded, WFMin
<1>3. PICK m \in R : \A x \in R : ~(x < m)
  BY <1>1, <1>2 DEF OpToRel
<1> USE DEF R
<1>4. m \in 0..N /\ m # 0 /\ m - 1 \in 0..N /\ m - 1 # N /\ m - 1 < m /\ (m - 1) + 1 = m
  BY <1>3
<1>5. m - 1 \in S
  BY <1>3, <1>4
<1>6. (m - 1) + 1 \in S
  BY <1>4, <1>5
<1> QED BY <1>3, <1>4, <1>6

\* Induction over all smaller numbers.
LEMMA FromSmaller ==
  ASSUME NEW D \in SUBSET Nat, NEW S, \A n \in D : (\A k \in D : k < n => k \in S) => n \in S
  PROVE  D \subseteq S
<1> DEFINE R == {n \in D : n \notin S}
<1> SUFFICES ASSUME R # {} PROVE FALSE
  OBVIOUS
<1>1. R \subseteq Nat
  OBVIOUS
<1> HIDE DEF R
<1>2. \E m \in R : \A x \in R : <<x, m>> \notin OpToRel(<, Nat)
  BY <1>1, NatLessThanWellFounded, WFMin
<1>3. PICK m \in R : \A x \in R : ~(x < m)
  BY <1>1, <1>2 DEF OpToRel
<1> QED BY <1>3 DEF R

\* The sizes of a circuit's tables are numbers, and so are the places of its
\* variables.
LEMMA CircuitSizes ==
  ASSUME NEW c, CircuitOK(c)
  PROVE  /\ c.inputs \in Nat /\ c.latches \in Nat /\ Len(c.gates) \in Nat
         /\ FirstGate(c) \in Nat /\ FirstLatch(c) \in Nat /\ FirstPrime(c) \in Nat
         /\ FirstLatch(c) = 1 + c.inputs /\ FirstGate(c) = FirstLatch(c) + c.latches
         /\ FirstPrime(c) = FirstGate(c) + Len(c.gates)
         /\ InputVars(c) = 1..(FirstLatch(c) - 1) /\ LatchVars(c) = FirstLatch(c)..(FirstGate(c) - 1)
<1>1. c.gates \in Seq([rhs0 : CircuitLits(c), rhs1 : CircuitLits(c)]) /\ c.inputs \in Nat /\ c.latches \in Nat
  BY DEF CircuitOK
<1>2. Len(c.gates) \in Nat
  BY <1>1, LenProperties
<1> QED BY <1>1, <1>2 DEF FirstGate, FirstLatch, FirstInput, FirstPrime, InputVars, LatchVars

\* A literal is a variable with a truth value.
LEMMA CircuitLitIs ==
  ASSUME NEW c, NEW p \in CircuitLits(c)
  PROVE  p[1] \in 0..(FirstPrime(c) - 1) /\ p[2] \in BOOLEAN /\ p = <<p[1], p[2]>>
BY DEF CircuitLits, LitsOf

\* The gate of a variable and its arguments.
LEMMA GateIs ==
  ASSUME NEW c, CircuitOK(c), NEW v \in FirstGate(c)..(FirstPrime(c) - 1)
  PROVE  LET g == c.gates[v - FirstGate(c) + 1]
         IN  /\ v - FirstGate(c) + 1 \in 1..Len(c.gates)
             /\ g.rhs0 \in CircuitLits(c) /\ g.rhs1 \in CircuitLits(c)
             /\ GatesInOrder(c) => g.rhs0[1] < v /\ g.rhs1[1] < v
<1>1. /\ FirstGate(c) \in Nat /\ FirstPrime(c) = FirstGate(c) + Len(c.gates) /\ Len(c.gates) \in Nat
  BY CircuitSizes
<1>2. PICK i : i = v - FirstGate(c) + 1
  OBVIOUS
<1>3. i \in 1..Len(c.gates) /\ v = FirstGate(c) + i - 1
  BY <1>1, <1>2
<1>4. PICK gs : gs = c.gates
  OBVIOUS
<1>5. gs \in Seq([rhs0 : CircuitLits(c), rhs1 : CircuitLits(c)]) /\ i \in 1..Len(gs)
  BY <1>3, <1>4 DEF CircuitOK
<1>6. gs[i] \in [rhs0 : CircuitLits(c), rhs1 : CircuitLits(c)]
  BY <1>5, ElementOfSeq
<1>7. GatesInOrder(c) => gs[i].rhs0[1] < v /\ gs[i].rhs1[1] < v
  BY <1>3, <1>4 DEF GatesInOrder
<1> QED BY <1>2, <1>3, <1>4, <1>6, <1>7

\* The values of a circuit's variables are a function.
LEMMA ValuesExist ==
  ASSUME NEW c, CircuitOK(c), GatesInOrder(c), NEW on
  PROVE  \E f : f = [v \in 0..(FirstPrime(c) - 1) |-> Evaluated(c, on, f, v)]
<1> DEFINE Exists(n) == \E f : f = [v \in 0..(n - 1) |-> Evaluated(c, on, f, v)]
           S == {n \in Nat : Exists(n)}
<1>1. 0 \in S
  <2> DEFINE f == [v \in {} |-> TRUE]
  <2>1. f = [v \in 0..(0 - 1) |-> Evaluated(c, on, f, v)]
    OBVIOUS
  <2> QED BY <2>1
<1>2. ASSUME NEW n \in 0..FirstPrime(c), n \in S, n # FirstPrime(c) PROVE n + 1 \in S
  <2>0. n \in Nat /\ n + 1 \in Nat /\ n \in 0..(FirstPrime(c) - 1) /\ (n + 1) - 1 = n
    BY <1>2, CircuitSizes
  <2>1. PICK f : f = [v \in 0..(n - 1) |-> Evaluated(c, on, f, v)]
    BY <1>2
  <2> DEFINE h == [v \in 0..n |-> IF v < n THEN f[v] ELSE Evaluated(c, on, f, n)]
  <2>2. ASSUME NEW v \in 0..n PROVE Evaluated(c, on, h, v) = Evaluated(c, on, f, v)
    <3>1. CASE v < FirstGate(c)
      BY <3>1 DEF Evaluated
    <3>2. CASE ~(v < FirstGate(c))
      <4>1. v \in FirstGate(c)..(FirstPrime(c) - 1)
        BY <2>0, <3>2, CircuitSizes
      <4>2. PICK g : g = c.gates[v - FirstGate(c) + 1]
        OBVIOUS
      <4>3. g.rhs0[1] < v /\ g.rhs1[1] < v /\ g.rhs0[1] \in 0..(FirstPrime(c) - 1) /\ g.rhs1[1] \in 0..(FirstPrime(c) - 1)
        BY <4>1, <4>2, GateIs, CircuitLitIs
      <4>4. h[g.rhs0[1]] = f[g.rhs0[1]] /\ h[g.rhs1[1]] = f[g.rhs1[1]]
        BY <2>0, <4>3, CircuitSizes
      <4> QED BY <3>2, <4>2, <4>4 DEF Evaluated
    <3> QED BY <3>1, <3>2
  <2>3. ASSUME NEW v \in 0..n PROVE h[v] = Evaluated(c, on, h, v)
    <3>1. CASE v < n
      <4>1. v \in 0..(n - 1)
        BY <2>0, <3>1
      <4>2. f[v] = Evaluated(c, on, f, v)
        BY <2>1, <4>1
      <4> QED BY <2>2, <3>1, <4>2
    <3>2. CASE ~(v < n)
      <4>1. v = n
        BY <2>0, <3>2
      <4> QED BY <4>1, <2>0, <2>2
    <3> QED BY <3>1, <3>2
  <2>4. h = [v \in 0..n |-> Evaluated(c, on, h, v)]
    <3>1. \A v \in 0..n : h[v] = Evaluated(c, on, h, v)
      BY <2>3
    <3>2. h = [v \in 0..n |-> h[v]]
      OBVIOUS
    <3> HIDE DEF h
    <3> QED BY <3>1, <3>2, Zenon
  <2> HIDE DEF h
  <2>5. Exists(n + 1)
    BY <2>0, <2>4
  <2> QED BY <2>0, <2>5
<1> HIDE DEF Exists
<1>3. FirstPrime(c) \in S
  <2> HIDE DEF S
  <2>1. FirstPrime(c) \in Nat /\ FirstPrime(c) \in 0..FirstPrime(c)
    BY CircuitSizes
  <2>2. 0..FirstPrime(c) \subseteq S
    BY <1>1, <1>2, <2>1, UpTo
  <2> QED BY <2>1, <2>2
<1> QED BY <1>3 DEF Exists

\* Values is what it says it is: inputs and latches as given, and each gate
\* from its arguments.
LEMMA ValuesAre ==
  ASSUME NEW c, CircuitOK(c), GatesInOrder(c), NEW on
  PROVE  /\ DOMAIN Values(c, on) = 0..(FirstPrime(c) - 1)
         /\ \A v \in 0..(FirstPrime(c) - 1) :
              /\ Values(c, on)[v] \in BOOLEAN
              /\ Values(c, on)[v] = Evaluated(c, on, Values(c, on), v)
<1> DEFINE val == CHOOSE f : f = [v \in 0..(FirstPrime(c) - 1) |-> Evaluated(c, on, f, v)]
<1>1. val = [v \in 0..(FirstPrime(c) - 1) |-> Evaluated(c, on, val, v)]
  BY ValuesExist
<1>2. Values(c, on) = val
  BY DEF Values, Evaluated
<1> HIDE DEF val
<1>3. \A v \in 0..(FirstPrime(c) - 1) : val[v] = Evaluated(c, on, val, v)
  BY <1>1
<1>4. ASSUME NEW v \in 0..(FirstPrime(c) - 1) PROVE val[v] \in BOOLEAN
  <2>1. val[v] = Evaluated(c, on, val, v)
    BY <1>3
  <2>2. CASE v < FirstGate(c)
    <3>1. val[v] = (v \in on)
      BY <2>1, <2>2 DEF Evaluated
    <3> QED BY <3>1
  <2>3. CASE ~(v < FirstGate(c))
    <3>1. PICK g : g = c.gates[v - FirstGate(c) + 1]
      OBVIOUS
    <3>2. val[v] = (val[g.rhs0[1]] = g.rhs0[2] /\ val[g.rhs1[1]] = g.rhs1[2])
      BY <2>1, <2>3, <3>1 DEF Evaluated
    <3> QED BY <3>2
  <2> QED BY <2>2, <2>3
<1>5. DOMAIN val = 0..(FirstPrime(c) - 1)
  BY <1>1
<1> QED BY <1>2, <1>3, <1>4, <1>5

-----------------------------------------------------------------------------
(* Clauses, solvers and their models.                                      *)

\* The literals of all variables there can be, and the total assignments.
AllLits == LitsOf(Nat)
Models  == TotalAssignments(Nat)

SolverFields ==
  {"listed", "loose", "trail", "ok", "queue", "checked", "touched", "heap", "vars", "frozen",
   "eliminated", "elimclauses"}

\* A solver whose clauses and assignments are about its variables.
Fine(s) ==
  /\ DOMAIN s = SolverFields
  /\ s.vars \in SUBSET Nat /\ IsFiniteSet(s.vars)
  /\ s.listed \in SUBSET SUBSET LitsOf(s.vars) /\ s.loose \in SUBSET SUBSET LitsOf(s.vars)
  /\ s.trail \in SUBSET LitsOf(s.vars) /\ s.ok \in BOOLEAN
  /\ s.queue \in SUBSET s.listed

\* Model a satisfies each of the clauses cs.
Hits(a, cs) == \A i \in 1..Len(cs) : a \cap cs[i] # {}

\* Model m is one of solver s.
Means(s, m) == s.ok /\ Satisfies(m, Attached(s)) /\ s.trail \subseteq m

\* The solvers have the same variables with the same marks.
SameVars(s, t) == t.vars = s.vars /\ t.frozen = s.frozen /\ t.eliminated = s.eliminated

\* Solver t has the models of s that satisfy c.
Adds(s, t, c) ==
  /\ Fine(t) /\ SameVars(s, t)
  /\ \A m \in Models : Means(t, m) <=> Means(s, m) /\ m \cap c # {}

\* Solver t has the models of s.
SameModels(s, t) ==
  /\ Fine(t) /\ SameVars(s, t)
  /\ \A m \in Models : Means(t, m) <=> Means(s, m)

\* What the solver knows to be true.
Known(s) == s.listed \cup {{p} : p \in s.trail}

\* One wave of unit propagation.
Deduced(cls, known) == known \cup UNION {Implied(c, known) : c \in cls}

\* Negation: the literals of a variable are two, each the negation of the
\* other (toInt, operator~ and var of SolverTypes.h).
LEMMA Literals ==
  ASSUME NEW p \in AllLits
  PROVE  /\ Neg(p) \in AllLits /\ Neg(Neg(p)) = p /\ Neg(p) # p
         /\ p[1] \in Nat /\ Neg(p)[1] = p[1]
         /\ \A q \in AllLits : q[1] = p[1] => q = p \/ q = Neg(p)
<1>1. ASSUME NEW q \in AllLits
      PROVE  \E v \in Nat : q = <<v, TRUE>> \/ q = <<v, FALSE>>
  <2>1. PICK v \in Nat : \E b \in BOOLEAN : q = <<v, b>>
    BY DEF AllLits, LitsOf
  <2>2. q = <<v, TRUE>> \/ q = <<v, FALSE>>
    BY <2>1, Zenon
  <2> QED BY <2>2
<1>2. PICK v \in Nat : p = <<v, TRUE>> \/ p = <<v, FALSE>>
  BY <1>1
<1>3. \A w : /\ Neg(<<w, TRUE>>) = <<w, FALSE>> /\ <<w, TRUE>>[1] = w
            /\ Neg(<<w, FALSE>>) = <<w, TRUE>> /\ <<w, FALSE>>[1] = w
            /\ <<w, TRUE>> # <<w, FALSE>>
  BY DEF Neg
<1>4. <<v, TRUE>> \in AllLits /\ <<v, FALSE>> \in AllLits
  BY DEF AllLits, LitsOf
<1>5. ASSUME NEW q \in AllLits, q[1] = v
      PROVE  q = <<v, TRUE>> \/ q = <<v, FALSE>>
  <2>1. PICK w \in Nat : q = <<w, TRUE>> \/ q = <<w, FALSE>>
    BY <1>1
  <2>2. w = v
    BY <1>3, <1>5, <2>1
  <2> QED BY <2>1, <2>2
<1> HIDE DEF AllLits
<1>6. CASE p = <<v, TRUE>>
  BY <1>3, <1>4, <1>5, <1>6
<1>7. CASE p = <<v, FALSE>>
  BY <1>3, <1>4, <1>5, <1>7
<1> QED BY <1>2, <1>6, <1>7

\* The models are the sets of literals with one literal of each variable.
LEMMA ModelsAre ==
  ASSUME NEW m
  PROVE  m \in Models <=> m \in SUBSET AllLits /\ \A p \in AllLits : p \in m <=> Neg(p) \notin m
<1>1. ASSUME m \in Models
      PROVE  m \in SUBSET AllLits /\ \A p \in AllLits : p \in m <=> Neg(p) \notin m
  <2>1. PICK f \in [Nat -> BOOLEAN] : m = {<<v, f[v]>> : v \in Nat}
    BY <1>1 DEF Models, TotalAssignments
  <2>2. \A v \in Nat : f[v] \in BOOLEAN
    BY <2>1
  <2>3. m \in SUBSET AllLits
    BY <2>1, <2>2 DEF AllLits, LitsOf
  <2>4. ASSUME NEW v \in Nat, NEW b \in BOOLEAN
        PROVE  <<v, b>> \in m <=> b = f[v]
    BY <2>1
  <2>5. ASSUME NEW p \in AllLits PROVE p \in m <=> Neg(p) \notin m
    <3>1. PICK v \in Nat, b \in BOOLEAN : p = <<v, b>>
      BY DEF AllLits, LitsOf
    <3>2. Neg(<<v, TRUE>>) = <<v, FALSE>> /\ Neg(<<v, FALSE>>) = <<v, TRUE>>
      BY DEF Neg
    <3>3. /\ <<v, TRUE>> \in m <=> f[v] = TRUE
          /\ <<v, FALSE>> \in m <=> f[v] = FALSE
      BY <2>4
    <3>4. <<v, TRUE>> \in m <=> <<v, FALSE>> \notin m
      BY <2>2, <3>3
    <3>5. CASE b = TRUE
      BY <3>1, <3>2, <3>4, <3>5
    <3>6. CASE b = FALSE
      BY <3>1, <3>2, <3>4, <3>6
    <3> QED BY <3>5, <3>6
  <2> QED BY <2>3, <2>5
<1>2. ASSUME m \in SUBSET AllLits, \A p \in AllLits : p \in m <=> Neg(p) \notin m
      PROVE  m \in Models
  <2> DEFINE f == [v \in Nat |-> IF <<v, TRUE>> \in m THEN TRUE ELSE FALSE]
  <2>1. f \in [Nat -> BOOLEAN]
    OBVIOUS
  <2>2. ASSUME NEW v \in Nat     PROVE /\ f[v] = IF <<v, TRUE>> \in m THEN TRUE ELSE FALSE
                                       /\ <<v, TRUE>> \in AllLits /\ <<v, FALSE>> \in AllLits
                                       /\ <<v, TRUE>> \in m <=> <<v, FALSE>> \notin m
    <3>1. <<v, TRUE>> \in AllLits /\ <<v, FALSE>> \in AllLits
      BY DEF AllLits, LitsOf
    <3>2. Neg(<<v, TRUE>>) = <<v, FALSE>>
      BY DEF Neg
    <3> QED BY <1>2, <3>1, <3>2
  <2>3. ASSUME NEW v \in Nat, NEW b \in BOOLEAN PROVE <<v, b>> \in m <=> b = f[v]
    <3> HIDE DEF f
    <3>0. /\ f[v] = TRUE <=> <<v, TRUE>> \in m
          /\ f[v] = FALSE <=> <<v, FALSE>> \in m
      BY <2>2
    <3>1. CASE b = TRUE
      BY <3>0, <3>1
    <3>2. CASE b = FALSE
      BY <3>0, <3>2
    <3> QED BY <3>1, <3>2
  <2> HIDE DEF f
  <2>4. \A v \in Nat : f[v] \in BOOLEAN
    BY <2>1
  <2>5. m = {<<v, f[v]>> : v \in Nat}
    <3>1. ASSUME NEW p \in m PROVE p \in {<<v, f[v]>> : v \in Nat}
      <4>1. PICK v \in Nat, b \in BOOLEAN : p = <<v, b>>
        BY <1>2 DEF AllLits, LitsOf
      <4>2. b = f[v]
        BY <2>3, <4>1
      <4> QED BY <4>1, <4>2
    <3>2. ASSUME NEW v \in Nat PROVE <<v, f[v]>> \in m
      BY <2>3, <2>4
    <3> QED BY <3>1, <3>2
  <2> QED BY <2>1, <2>5 DEF Models, TotalAssignments
<1> QED BY <1>1, <1>2

\* The waves of unit propagation are a function.
LEMMA WaveExists ==
  ASSUME NEW cls, NEW ps, NEW N \in Nat
  PROVE  \E f : f = [n \in 0..N |-> IF n = 0 THEN ps ELSE Deduced(cls, f[n - 1])]
<1> DEFINE Exists(n) == \E f : f = [m \in 0..n |-> IF m = 0 THEN ps ELSE Deduced(cls, f[m - 1])]
           S == {n \in Nat : Exists(n)}
<1>1. 0 \in S
  <2> DEFINE f == [m \in 0..0 |-> ps]
  <2>1. f = [m \in 0..0 |-> IF m = 0 THEN ps ELSE Deduced(cls, f[m - 1])]
    OBVIOUS
  <2> QED BY <2>1
<1>2. ASSUME NEW n \in Nat, n \in S PROVE n + 1 \in S
  <2>1. PICK f : f = [m \in 0..n |-> IF m = 0 THEN ps ELSE Deduced(cls, f[m - 1])]
    BY <1>2
  <2> DEFINE g == [m \in 0..(n + 1) |-> IF m = n + 1 THEN Deduced(cls, f[n]) ELSE f[m]]
             h == [m \in 0..(n + 1) |-> IF m = 0 THEN ps ELSE Deduced(cls, g[m - 1])]
  <2>2. ASSUME NEW m \in 0..(n + 1) PROVE g[m] = h[m]
    <3>1. CASE m = 0
      <4>1. 0 \in 0..n /\ 0 # n + 1
        OBVIOUS
      <4>2. g[0] = f[0] /\ f[0] = ps
        BY <2>1, <4>1
      <4> QED BY <3>1, <4>2
    <3>2. CASE m \in 1..n
      <4>1. m \in 0..n /\ m # 0 /\ m # n + 1 /\ m - 1 \in 0..n /\ m - 1 \in 0..(n + 1) /\ m - 1 # n + 1
        BY <3>2
      <4>2. g[m] = f[m] /\ g[m - 1] = f[m - 1] /\ f[m] = Deduced(cls, f[m - 1])
        BY <2>1, <4>1
      <4> QED BY <4>1, <4>2
    <3>3. CASE m = n + 1
      <4>1. n \in 0..(n + 1) /\ n # n + 1 /\ m # 0 /\ m - 1 = n
        BY <3>3
      <4>2. g[m] = Deduced(cls, f[n]) /\ g[n] = f[n]
        BY <3>3, <4>1
      <4> QED BY <4>1, <4>2
    <3> QED BY <3>1, <3>2, <3>3
  <2>3. g = h
    BY <2>2
  <2>4. Exists(n + 1)
    BY <2>3
  <2> HIDE DEF Exists
  <2> QED BY <2>4
<1> HIDE DEF S
<1>3. 0..N \subseteq S
  BY <1>1, <1>2, UpTo
<1> QED BY <1>3 DEF S

\* There are finitely many literals of finitely many variables.
LEMMA FiniteData ==
  ASSUME NEW vs \in SUBSET Nat, IsFiniteSet(vs)
  PROVE  /\ LitsOf(vs) \subseteq AllLits
         /\ \A cs \in SUBSET SUBSET LitsOf(vs) : VarsIn(cs) \subseteq vs
         /\ \A c \in SUBSET LitsOf(vs) : /\ IsFiniteSet(c) /\ Cardinality(c) \in Nat
                                         /\ (Cardinality(c) = 1 => \E p : c = {p})
                                         /\ (Cardinality(c) = 0 <=> c = {})
                                         /\ VarsOf(c) \subseteq vs
<1>1. LitsOf(vs) \subseteq AllLits /\ \A p \in LitsOf(vs) : p[1] \in vs
  BY DEF LitsOf, AllLits
<1>2. IsFiniteSet(BOOLEAN)
  <2>1. BOOLEAN = {TRUE, FALSE}
    OBVIOUS
  <2>2. IsFiniteSet({TRUE}) /\ IsFiniteSet({TRUE} \cup {FALSE})
    BY FS_Singleton, FS_Union
  <2>3. {TRUE} \cup {FALSE} = {TRUE, FALSE}
    OBVIOUS
  <2> QED BY <2>1, <2>2, <2>3
<1>3. IsFiniteSet(LitsOf(vs))
  BY <1>2, FS_Product DEF LitsOf
<1>4. ASSUME NEW c \in SUBSET LitsOf(vs)
      PROVE  /\ IsFiniteSet(c) /\ Cardinality(c) \in Nat
             /\ (Cardinality(c) = 1 => \E p : c = {p})
             /\ (Cardinality(c) = 0 <=> c = {})
  BY <1>3, FS_Subset, FS_CardinalityType, FS_Singleton, FS_EmptySet
<1>5. \A c \in SUBSET LitsOf(vs) : VarsOf(c) \subseteq vs
  BY <1>1 DEF VarsOf
<1>6. ASSUME NEW cs \in SUBSET SUBSET LitsOf(vs) PROVE VarsIn(cs) \subseteq vs
  BY <1>5 DEF VarsIn
<1> QED BY <1>1, <1>4, <1>5, <1>6

\* Nothing is lost in propagation, and what it finds holds in every model.
LEMMA Propagation ==
  ASSUME NEW vs \in SUBSET Nat, IsFiniteSet(vs),
         NEW cls \in SUBSET SUBSET LitsOf(vs), NEW ps \in SUBSET LitsOf(vs)
  PROVE  /\ ps \subseteq UnitClosure(cls, ps) /\ UnitClosure(cls, ps) \subseteq LitsOf(vs)
         /\ \A m \in Models : Satisfies(m, cls) /\ ps \subseteq m => UnitClosure(cls, ps) \subseteq m
<1> DEFINE last == Cardinality(VarsIn(cls)) + 1
           wave == CHOOSE f : f = [n \in 0..last |-> IF n = 0 THEN ps ELSE Deduced(cls, f[n - 1])]
           Right(ks) == /\ ps \subseteq ks /\ ks \subseteq LitsOf(vs)
                        /\ \A m \in Models : Satisfies(m, cls) /\ ps \subseteq m => ks \subseteq m
           S == {n \in 0..last : Right(wave[n])}
<1>1. last \in Nat
  <2>1. VarsIn(cls) \subseteq vs
    BY FiniteData
  <2>2. Cardinality(VarsIn(cls)) \in Nat
    BY <2>1, FS_Subset, FS_CardinalityType
  <2> QED BY <2>2
<1>2. UnitClosure(cls, ps) = wave[last]
  BY DEF UnitClosure, Deduced
<1> HIDE DEF last
<1>3. wave = [n \in 0..last |-> IF n = 0 THEN ps ELSE Deduced(cls, wave[n - 1])]
  BY <1>1, WaveExists
<1> HIDE DEF wave
<1>4. 0 \in S
  <2>1. 0 \in 0..last /\ wave[0] = ps
    BY <1>1, <1>3
  <2> QED BY <2>1
<1>5. ASSUME NEW n \in 0..last, n \in S, n # last PROVE n + 1 \in S
  <2>1. n + 1 \in 0..last /\ wave[n + 1] = Deduced(cls, wave[n])
    <3>1. n + 1 \in 0..last /\ n + 1 # 0 /\ (n + 1) - 1 = n
      BY <1>1, <1>5
    <3> QED BY <1>3, <3>1
  <2>2. PICK known : known = wave[n]
    OBVIOUS
  <2>3. Right(known)
    BY <1>5, <2>2
  <2>4. ps \subseteq Deduced(cls, known) /\ Deduced(cls, known) \subseteq LitsOf(vs)
    BY <2>3 DEF Deduced, Implied
  <2>5. ASSUME NEW m \in Models, Satisfies(m, cls), ps \subseteq m, NEW c \in cls, NEW p \in Implied(c, known)
        PROVE  p \in m
    <3>1. p \in c /\ \A q \in c \ {p} : Neg(q) \in m
      BY <2>3, <2>5 DEF Implied
    <3>2. PICK q \in c : q \in m
      BY <2>5 DEF Satisfies
    <3>3. Neg(q) \notin m
      <4>1. q \in AllLits
        BY FiniteData
      <4> QED BY <3>2, <4>1, ModelsAre
    <3> QED BY <3>1, <3>2, <3>3
  <2>6. Right(Deduced(cls, known))
    BY <2>3, <2>4, <2>5 DEF Deduced
  <2> HIDE DEF Right
  <2> QED BY <2>1, <2>2, <2>6
<1>6. last \in S
  <2> HIDE DEF S
  <2>1. 0..last \subseteq S
    BY <1>1, <1>4, <1>5, UpTo
  <2> QED BY <1>1, <2>1
<1> QED BY <1>2, <1>6

-----------------------------------------------------------------------------
(* What the operations of the solver add to its models.                    *)

\* A unit clause that is enqueued and propagated is all that is added to what
\* the solver says (uncheckedEnqueue() and propagate()).
LEMMA EnqueueAdds ==
  ASSUME NEW s, Fine(s), NEW p \in LitsOf(s.vars)
  PROVE  /\ Adds(s, Enqueue(s, p), {p})
         /\ Enqueue(s, p).listed = s.listed /\ s.trail \subseteq Enqueue(s, p).trail
<1>1. /\ DOMAIN s = SolverFields /\ s.vars \in SUBSET Nat /\ IsFiniteSet(s.vars)
      /\ Attached(s) \in SUBSET SUBSET LitsOf(s.vars) /\ s.trail \in SUBSET LitsOf(s.vars)
  BY DEF Fine, Attached
<1>2. PICK ps : ps = s.trail \cup {p}
  OBVIOUS
<1>3. PICK closure : closure = UnitClosure(Attached(s), ps)
  OBVIOUS
<1>4. /\ ps \in SUBSET LitsOf(s.vars) /\ closure \in SUBSET LitsOf(s.vars) /\ ps \subseteq closure
      /\ \A m \in Models : Satisfies(m, Attached(s)) /\ ps \subseteq m => closure \subseteq m
  BY <1>1, <1>2, <1>3, Propagation
<1>5. Enqueue(s, p) = IF Consistent(closure) THEN [s EXCEPT !.trail = closure]
                      ELSE [s EXCEPT !.trail = ps, !.ok = FALSE]
  BY <1>2, <1>3 DEF Enqueue
<1>6. CASE Consistent(closure)
  <2>1. PICK t : t = [s EXCEPT !.trail = closure]
    OBVIOUS
  <2>2. /\ DOMAIN t = SolverFields /\ t.trail = closure /\ t.ok = s.ok
        /\ t.listed = s.listed /\ t.loose = s.loose /\ t.queue = s.queue /\ SameVars(s, t)
    BY <1>1, <2>1 DEF SolverFields, SameVars
  <2>3. Fine(t) /\ Attached(t) = Attached(s)
    BY <1>4, <2>2 DEF Fine, SameVars, Attached
  <2>4. \A m \in Models : Means(t, m) <=> Means(s, m) /\ m \cap {p} # {}
    BY <1>2, <1>4, <2>2, <2>3 DEF Means
  <2> QED BY <1>2, <1>4, <1>5, <1>6, <2>1, <2>2, <2>3, <2>4 DEF Adds
<1>7. CASE ~Consistent(closure)
  <2>1. PICK t : t = [s EXCEPT !.trail = ps, !.ok = FALSE]
    OBVIOUS
  <2>2. /\ DOMAIN t = SolverFields /\ t.trail = ps /\ t.ok = FALSE
        /\ t.listed = s.listed /\ t.loose = s.loose /\ t.queue = s.queue /\ SameVars(s, t)
    BY <1>1, <2>1 DEF SolverFields, SameVars
  <2>3. Fine(t)
    BY <1>4, <2>2 DEF Fine, SameVars
  <2>4. ASSUME NEW m \in Models, Means(s, m), p \in m PROVE FALSE
    <3>1. closure \subseteq m
      BY <1>2, <1>4, <2>4 DEF Means
    <3>2. closure \subseteq AllLits
      BY <1>1, <1>4, FiniteData
    <3>3. Consistent(closure)
      BY <3>1, <3>2, ModelsAre DEF Consistent
    <3> QED BY <1>7, <3>3
  <2>5. \A m \in Models : Means(t, m) <=> Means(s, m) /\ m \cap {p} # {}
    BY <2>2, <2>4 DEF Means
  <2> QED BY <1>2, <1>5, <1>7, <2>1, <2>2, <2>3, <2>5 DEF Adds
<1> QED BY <1>6, <1>7

\* What addClause_() leaves out of a clause cannot be true.
LEMMA ReducedIs ==
  ASSUME NEW s, Fine(s), NEW c \in SUBSET LitsOf(s.vars)
  PROVE  LET r == Reduced(s, c)
         IN  /\ r \in SUBSET c /\ r \in SUBSET LitsOf(s.vars)
             /\ \A m \in Models : Means(s, m) => m \cap c = m \cap r
             /\ \A m \in Models : Means(s, m) /\ Redundant(s, c) => m \cap c # {}
             /\ Cardinality(r) \in Nat /\ (Cardinality(r) = 0 <=> r = {})
             /\ (Cardinality(r) = 1 => \E p : r = {p})
<1>1. /\ s.vars \in SUBSET Nat /\ IsFiniteSet(s.vars) /\ s.trail \in SUBSET AllLits /\ c \in SUBSET AllLits
  BY FiniteData DEF Fine
<1>2. PICK r : r = Reduced(s, c)
  OBVIOUS
<1>3. r \in SUBSET c /\ r \in SUBSET LitsOf(s.vars) /\ r = {p \in c : Neg(p) \notin s.trail}
  BY <1>2 DEF Reduced
<1>4. ASSUME NEW m \in Models, Means(s, m) PROVE m \cap c = m \cap r
  <2>1. s.trail \subseteq m
    BY <1>4 DEF Means
  <2>2. ASSUME NEW p \in m, p \in c PROVE Neg(p) \notin s.trail
    <3>1. Neg(p) \notin m
      BY <1>1, <2>2, ModelsAre
    <3> QED BY <2>1, <3>1
  <2> QED BY <1>3, <2>2
<1>5. ASSUME NEW m \in Models, Means(s, m), Redundant(s, c) PROVE m \cap c # {}
  <2>1. s.trail \subseteq m
    BY <1>5 DEF Means
  <2>2. CASE c \cap s.trail # {}
    BY <2>1, <2>2
  <2>3. CASE Tautology(c)
    <3>1. PICK p \in c : Neg(p) \in c
      BY <2>3 DEF Tautology
    <3>2. p \in m \/ Neg(p) \in m
      BY <1>1, <3>1, ModelsAre
    <3> QED BY <3>1, <3>2
  <2> QED BY <1>5, <2>2, <2>3 DEF Redundant
<1>6. /\ Cardinality(r) \in Nat /\ (Cardinality(r) = 0 <=> r = {})
      /\ (Cardinality(r) = 1 => \E p : r = {p})
  <2>1. PICK vs : vs = s.vars
    OBVIOUS
  <2>2. vs \in SUBSET Nat /\ IsFiniteSet(vs) /\ r \in SUBSET LitsOf(vs)
    BY <1>1, <1>3, <2>1
  <2> QED BY <2>2, FiniteData
<1> QED BY <1>2, <1>3, <1>4, <1>5, <1>6

\* addClause_() adds the clause, and nothing else, to what the solver says,
\* whether it is stored, enqueued, already true or a contradiction.
LEMMA AddLooseAdds ==
  ASSUME NEW s, Fine(s), NEW c \in SUBSET LitsOf(s.vars)
  PROVE  Adds(s, AddLoose(s, c), c) /\ AddLoose(s, c).listed = s.listed
<1>1. /\ DOMAIN s = SolverFields /\ s.vars \in SUBSET Nat /\ IsFiniteSet(s.vars)
  BY DEF Fine
<1>2. PICK r : r = Reduced(s, c)
  OBVIOUS
<1>3. /\ r \in SUBSET c /\ r \in SUBSET LitsOf(s.vars)
      /\ \A m \in Models : Means(s, m) => m \cap c = m \cap r
      /\ \A m \in Models : Means(s, m) /\ Redundant(s, c) => m \cap c # {}
      /\ Cardinality(r) \in Nat /\ (Cardinality(r) = 0 <=> r = {})
      /\ (Cardinality(r) = 1 => \E p : r = {p})
  BY <1>2, ReducedIs
<1>4. CASE ~s.ok \/ Redundant(s, c)
  <2>1. AddLoose(s, c) = s
    BY <1>4 DEF AddLoose
  <2>2. ASSUME NEW m \in Models, Means(s, m) PROVE m \cap c # {}
    <3>1. s.ok
      BY <2>2 DEF Means
    <3> QED BY <1>3, <1>4, <2>2, <3>1
  <2> QED BY <2>1, <2>2 DEF Adds, SameVars
<1>5. CASE s.ok /\ ~Redundant(s, c) /\ r = {}
  <2>1. AddLoose(s, c) = [s EXCEPT !.ok = FALSE]
    BY <1>2, <1>5 DEF AddLoose
  <2>2. PICK t : t = [s EXCEPT !.ok = FALSE]
    OBVIOUS
  <2>3. /\ DOMAIN t = SolverFields /\ t.trail = s.trail /\ t.listed = s.listed /\ t.loose = s.loose
        /\ t.ok = FALSE /\ t.queue = s.queue /\ SameVars(s, t)
    BY <1>1, <2>2 DEF SolverFields, SameVars
  <2>4. Fine(t)
    BY <2>3 DEF Fine, SameVars
  <2>5. \A m \in Models : ~Means(t, m) /\ ~(Means(s, m) /\ m \cap c # {})
    BY <1>3, <1>5, <2>3 DEF Means
  <2> QED BY <2>1, <2>2, <2>3, <2>4, <2>5 DEF Adds
<1>6. CASE s.ok /\ ~Redundant(s, c) /\ Cardinality(r) = 1
  <2>1. PICK p : r = {p}
    BY <1>3, <1>6
  <2>2. p \in LitsOf(s.vars) /\ (CHOOSE q \in r : TRUE) = p /\ r # {}
    BY <1>3, <2>1
  <2>3. AddLoose(s, c) = Enqueue(s, p)
    <3>1. AddLoose(s, c) = Enqueue(s, CHOOSE q \in r : TRUE)
      BY <1>2, <1>6, <2>2 DEF AddLoose
    <3> QED BY <2>2, <3>1
  <2>4. PICK t : t = Enqueue(s, p)
    OBVIOUS
  <2>5. Adds(s, t, r) /\ t.listed = s.listed
    BY <2>1, <2>2, <2>4, EnqueueAdds
  <2>6. \A m \in Models : Means(t, m) <=> Means(s, m) /\ m \cap c # {}
    BY <1>3, <2>5 DEF Adds
  <2> QED BY <2>3, <2>4, <2>5, <2>6 DEF Adds
<1>7. CASE s.ok /\ ~Redundant(s, c) /\ r # {} /\ Cardinality(r) # 1
  <2>1. PICK t : t = [s EXCEPT !.loose = @ \cup {r}]
    OBVIOUS
  <2>2. AddLoose(s, c) = t
    BY <1>2, <1>7, <2>1 DEF AddLoose
  <2>3. /\ DOMAIN t = SolverFields /\ t.trail = s.trail /\ t.listed = s.listed /\ t.loose = s.loose \cup {r}
        /\ t.ok = s.ok /\ t.queue = s.queue /\ SameVars(s, t)
    BY <1>1, <2>1 DEF SolverFields, SameVars
  <2>4. Fine(t)
    BY <1>3, <2>3 DEF Fine, SameVars
  <2>5. \A m \in Models : Means(t, m) <=> Means(s, m) /\ m \cap r # {}
    BY <2>3 DEF Means, Satisfies, Attached
  <2> QED BY <1>3, <2>2, <2>3, <2>4, <2>5 DEF Adds
<1> QED BY <1>4, <1>5, <1>6, <1>7

\* The same for SimpSolver, whose occurrence lists then have what is left of
\* the clause unless that is a unit clause.
LEMMA AddListedAdds ==
  ASSUME NEW s, Fine(s), NEW c \in SUBSET LitsOf(s.vars)
  PROVE  /\ Adds(s, AddListed(s, c), c)
         /\ \A d \in AddListed(s, c).listed : d \in s.listed \/ (d \subseteq c /\ ~Tautology(d) /\ ~\E p : c = {p})
<1>1. /\ DOMAIN s = SolverFields /\ s.vars \in SUBSET Nat /\ IsFiniteSet(s.vars)
  BY DEF Fine
<1>2. PICK r : r = Reduced(s, c)
  OBVIOUS
<1>3. /\ r \in SUBSET c /\ r \in SUBSET LitsOf(s.vars)
      /\ \A m \in Models : Means(s, m) => m \cap c = m \cap r
      /\ Cardinality(r) \in Nat /\ (Cardinality(r) = 0 <=> r = {})
  BY <1>2, ReducedIs
<1>4. CASE ~s.ok \/ Redundant(s, c) \/ Cardinality(r) < 2
  <2>1. AddListed(s, c) = AddLoose(s, c)
    BY <1>2, <1>4 DEF AddListed
  <2> QED BY <2>1, AddLooseAdds
<1>5. CASE ~(~s.ok \/ Redundant(s, c) \/ Cardinality(r) < 2)
  <2>1. PICK t : t = [s EXCEPT !.listed = @ \cup {r}, !.queue = @ \cup {r}, !.touched = @ \cup VarsOf(r)]
    OBVIOUS
  <2>2. AddListed(s, c) = t
    BY <1>2, <1>5, <2>1 DEF AddListed
  <2>3. /\ DOMAIN t = SolverFields /\ t.trail = s.trail /\ t.listed = s.listed \cup {r} /\ t.loose = s.loose
        /\ t.ok = s.ok /\ t.queue = s.queue \cup {r} /\ SameVars(s, t)
    BY <1>1, <2>1 DEF SolverFields, SameVars
  <2>4. Fine(t)
    BY <1>3, <2>3 DEF Fine, SameVars
  <2>5. \A m \in Models : Means(t, m) <=> Means(s, m) /\ m \cap r # {}
    BY <2>3 DEF Means, Satisfies, Attached
  <2>6. ASSUME NEW p, c = {p} PROVE FALSE
    <3>1. r = {} \/ r = {p}
      BY <1>3, <2>6
    <3>2. Cardinality({}) = 0 /\ Cardinality({p}) = 1
      BY FS_EmptySet, FS_Singleton
    <3> QED BY <1>5, <3>1, <3>2
  <2>7. ~Tautology(r)
    BY <1>3, <1>5 DEF Redundant, Tautology
  <2> QED BY <1>3, <2>2, <2>3, <2>4, <2>5, <2>6, <2>7 DEF Adds
<1> QED BY <1>4, <1>5

\* What the solver knows holds in each of its models.
LEMMA KnownHolds ==
  ASSUME NEW s, Fine(s), NEW m, Means(s, m), NEW c \in Known(s)
  PROVE  m \cap c # {} /\ c \in SUBSET LitsOf(s.vars)
<1>1. s.listed \in SUBSET SUBSET LitsOf(s.vars) /\ s.trail \in SUBSET LitsOf(s.vars)
  BY DEF Fine
<1> QED BY <1>1 DEF Known, Means, Satisfies, Attached

\* Removing clauses leaves the other clauses and the assignments alone.
LEMMA ClausesRemoved ==
  ASSUME NEW s, Fine(s), NEW cs \in SUBSET s.listed
  PROVE  LET t == RemoveClauses(s, cs)
         IN  /\ Fine(t) /\ SameVars(s, t)
             /\ t.listed = s.listed \ cs /\ t.loose = s.loose /\ t.trail = s.trail /\ t.ok = s.ok
<1>1. DOMAIN s = SolverFields
  BY DEF Fine
<1>2. PICK u : u = [s EXCEPT !.listed = @ \ cs, !.queue = @ \ cs]
  OBVIOUS
<1>3. PICK t : t = UpdateHeap(u, VarsIn(cs))
  OBVIOUS
<1>4. t = RemoveClauses(s, cs)
  BY <1>2, <1>3 DEF RemoveClauses
<1>5. /\ DOMAIN u = SolverFields
      /\ u.listed = s.listed \ cs /\ u.queue = s.queue \ cs /\ u.trail = s.trail /\ u.ok = s.ok
      /\ u.loose = s.loose /\ SameVars(s, u)
  BY <1>1, <1>2 DEF SolverFields, SameVars
<1>6. PICK h : h = u.heap \cup (VarsIn(cs) \ (u.frozen \cup u.eliminated \cup Valued(u)))
  OBVIOUS
<1>7. t = [u EXCEPT !.heap = h]
  BY <1>3, <1>6 DEF UpdateHeap
<1>8. /\ DOMAIN t = SolverFields
      /\ t.listed = s.listed \ cs /\ t.queue = s.queue \ cs /\ t.trail = s.trail /\ t.ok = s.ok
      /\ t.loose = s.loose /\ SameVars(s, t)
  BY <1>5, <1>7 DEF SolverFields, SameVars
<1>9. Fine(t)
  BY <1>8 DEF Fine, SameVars
<1> QED BY <1>4, <1>8, <1>9

\* A subsumed clause says nothing new.
LEMMA SubsumedRemoved ==
  ASSUME NEW s, Fine(s), NEW b \in Known(s), NEW d \in s.listed, Subsumes(b, d)
  PROVE  LET t == RemoveClauses(s, {d})
         IN  SameModels(s, t) /\ b \in Known(t) /\ t.listed \subseteq s.listed
<1>1. PICK t : t = RemoveClauses(s, {d})
  OBVIOUS
<1>2. /\ Fine(t) /\ SameVars(s, t) /\ t.listed = s.listed \ {d} /\ t.loose = s.loose
      /\ t.trail = s.trail /\ t.ok = s.ok
  BY <1>1, ClausesRemoved
<1>3. b \in Known(t) /\ b \subseteq d
  BY <1>2 DEF Known, Subsumes
<1>4. ASSUME NEW m \in Models, Means(s, m) PROVE Means(t, m)
  BY <1>2, <1>4 DEF Means, Satisfies, Attached
<1>5. ASSUME NEW m \in Models, Means(t, m) PROVE Means(s, m)
  <2>1. m \cap d # {}
    BY <1>2, <1>3, <1>5, KnownHolds
  <2> QED BY <1>2, <1>5, <2>1 DEF Means, Satisfies, Attached
<1> QED BY <1>1, <1>2, <1>3, <1>4, <1>5 DEF SameModels

\* A literal that another clause resolves away is not needed.
LEMMA OtherStrengthened ==
  ASSUME NEW s, Fine(s), NEW b \in Known(s), NEW d \in s.listed, NEW p \in Strengthens(b, d)
  PROVE  LET t == StrengthenClause(s, d, p)
         IN  SameModels(s, t) /\ b \in Known(t) /\ \A e \in t.listed : \E f \in s.listed : e \subseteq f
<1>1. /\ DOMAIN s = SolverFields /\ s.vars \in SUBSET Nat /\ IsFiniteSet(s.vars)
      /\ s.listed \in SUBSET SUBSET LitsOf(s.vars) /\ s.trail \in SUBSET LitsOf(s.vars)
      /\ d \in SUBSET LitsOf(s.vars) /\ LitsOf(s.vars) \subseteq AllLits
  BY FiniteData DEF Fine
<1>2. p \in d /\ Neg(p) \in b /\ b \ {Neg(p)} \subseteq d \ {p} /\ b # d /\ p \in AllLits
  BY <1>1 DEF Strengthens
<1>3. PICK rest : rest = d \ {p}
  OBVIOUS
<1>4. rest \in SUBSET LitsOf(s.vars) /\ Cardinality(rest) \in Nat /\ (Cardinality(rest) = 1 => \E q : rest = {q})
  <2>1. PICK vs : vs = s.vars
    OBVIOUS
  <2>2. vs \in SUBSET Nat /\ IsFiniteSet(vs) /\ rest \in SUBSET LitsOf(vs)
    BY <1>1, <1>3, <2>1
  <2>3. rest \in SUBSET LitsOf(s.vars)
    BY <2>1, <2>2
  <2> QED BY <2>2, <2>3, FiniteData
<1>5. ASSUME NEW m \in Models, Means(s, m) PROVE m \cap rest # {}
  <2>1. m \cap d # {} /\ m \cap b # {}
    <3>1. d \in Known(s)
      BY DEF Known
    <3> QED BY <1>5, <3>1, KnownHolds
  <2>2. p \in m => Neg(p) \notin m
    BY <1>2, ModelsAre
  <2> QED BY <1>2, <1>3, <2>1, <2>2
<1>6. PICK t : t = StrengthenClause(s, d, p)
  OBVIOUS
<1>7. CASE Cardinality(rest) = 1
  <2>1. PICK q : rest = {q}
    BY <1>4, <1>7
  <2>2. q \in LitsOf(s.vars) /\ q \in AllLits /\ (CHOOSE l \in rest : TRUE) = q /\ q \in d
    BY <1>1, <1>3, <1>4, <2>1
  <2>3. PICK r : r = RemoveClauses(s, {d})
    OBVIOUS
  <2>4. /\ Fine(r) /\ SameVars(s, r) /\ r.listed = s.listed \ {d} /\ r.loose = s.loose
        /\ r.trail = s.trail /\ r.ok = s.ok
    BY <2>3, ClausesRemoved
  <2>5. t = IF Neg(q) \in s.trail THEN [r EXCEPT !.ok = FALSE] ELSE Enqueue(r, q)
    <3>1. Cardinality(d \ {p}) = 1 /\ (CHOOSE l \in d \ {p} : TRUE) = q
      BY <1>3, <1>7, <2>2
    <3>2. StrengthenClause(s, d, p) =
            IF Neg(CHOOSE l \in d \ {p} : TRUE) \in s.trail THEN [RemoveClauses(s, {d}) EXCEPT !.ok = FALSE]
            ELSE Enqueue(RemoveClauses(s, {d}), CHOOSE l \in d \ {p} : TRUE)
      BY <3>1 DEF StrengthenClause
    <3> QED BY <1>6, <2>3, <3>1, <3>2
  <2>6. ASSUME NEW m \in Models PROVE Means(s, m) <=> Means(r, m) /\ q \in m
    <3>1. Means(s, m) => q \in m
      BY <1>5, <2>1
    <3>2. q \in m => m \cap d # {}
      BY <2>2
    <3> QED BY <2>4, <3>1, <3>2 DEF Means, Satisfies, Attached
  <2>7. b \in Known(r)
    BY <1>2, <2>4 DEF Known
  <2>8. CASE Neg(q) \in s.trail
    <3>1. t = [r EXCEPT !.ok = FALSE] /\ DOMAIN r = SolverFields
      BY <2>4, <2>5, <2>8 DEF Fine
    <3>2. /\ DOMAIN t = SolverFields /\ t.trail = r.trail /\ t.listed = r.listed /\ t.loose = r.loose
          /\ t.ok = FALSE /\ t.queue = r.queue /\ SameVars(r, t)
      BY <3>1 DEF SolverFields, SameVars
    <3>3. Fine(t) /\ SameVars(s, t)
      BY <2>4, <3>2 DEF Fine, SameVars
    <3>4. ASSUME NEW m \in Models PROVE ~Means(s, m)
      <4>1. q \in m => Neg(q) \notin m
        BY <2>2, ModelsAre
      <4> QED BY <2>6, <2>8, <4>1 DEF Means
    <3>5. \A m \in Models : ~Means(t, m)
      BY <3>2 DEF Means
    <3>6. b \in Known(t) /\ t.listed \subseteq s.listed
      BY <2>4, <2>7, <3>2 DEF Known
    <3> QED BY <1>6, <3>3, <3>4, <3>5, <3>6 DEF SameModels
  <2>9. CASE Neg(q) \notin s.trail
    <3>0. q \in LitsOf(r.vars) /\ t = Enqueue(r, q)
      BY <2>2, <2>4, <2>5, <2>9 DEF SameVars
    <3>1. Adds(r, t, {q}) /\ t.listed = r.listed /\ r.trail \subseteq t.trail
      BY <2>4, <3>0, EnqueueAdds
    <3>2. Fine(t) /\ SameVars(s, t)
      BY <2>4, <3>1 DEF Adds, SameVars
    <3>3. \A m \in Models : Means(t, m) <=> Means(s, m)
      <4>1. \A m \in Models : Means(t, m) <=> Means(r, m) /\ m \cap {q} # {}
        BY <3>1 DEF Adds
      <4> QED BY <2>6, <4>1
    <3>4. b \in Known(t) /\ t.listed \subseteq s.listed
      BY <2>4, <2>7, <3>1 DEF Known
    <3> QED BY <1>6, <3>2, <3>3, <3>4 DEF SameModels
  <2> QED BY <2>8, <2>9
<1>8. CASE Cardinality(rest) # 1
  <2>1. PICK u : u = [s EXCEPT !.listed = (@ \ {d}) \cup {rest}, !.queue = (@ \ {d}) \cup {rest}]
    OBVIOUS
  <2>2. /\ DOMAIN u = SolverFields
        /\ u.listed = (s.listed \ {d}) \cup {rest} /\ u.queue = (s.queue \ {d}) \cup {rest}
        /\ u.trail = s.trail /\ u.ok = s.ok /\ u.loose = s.loose /\ SameVars(s, u)
    BY <1>1, <2>1 DEF SolverFields, SameVars
  <2>3. PICK h : h = u.heap \cup ({p[1]} \ (u.frozen \cup u.eliminated \cup Valued(u)))
    OBVIOUS
  <2>4. t = [u EXCEPT !.heap = h]
    <3>1. t = UpdateHeap(u, {p[1]})
      BY <1>3, <1>6, <1>8, <2>1 DEF StrengthenClause
    <3> QED BY <2>3, <3>1 DEF UpdateHeap
  <2>5. /\ DOMAIN t = SolverFields
        /\ t.listed = (s.listed \ {d}) \cup {rest} /\ t.queue = (s.queue \ {d}) \cup {rest}
        /\ t.trail = s.trail /\ t.ok = s.ok /\ t.loose = s.loose /\ SameVars(s, t)
    BY <2>2, <2>4 DEF SolverFields, SameVars
  <2>6. Fine(t)
    BY <1>4, <2>5 DEF Fine, SameVars
  <2>7. b \in Known(t) /\ \A e \in t.listed : \E f \in s.listed : e \subseteq f
    BY <1>2, <1>3, <2>5 DEF Known
  <2>8. ASSUME NEW m \in Models PROVE Means(t, m) <=> Means(s, m)
    <3>1. Means(s, m) => m \cap rest # {}
      BY <1>5
    <3>2. m \cap rest # {} => m \cap d # {}
      BY <1>3
    <3> QED BY <2>5, <3>1, <3>2 DEF Means, Satisfies, Attached
  <2> QED BY <1>6, <2>5, <2>6, <2>7, <2>8 DEF SameModels
<1> QED BY <1>7, <1>8

-----------------------------------------------------------------------------
(* Loops over sequences.                                                   *)

\* The steps of the loops: adding a clause to one of the two kinds of solvers,
\* priming a variable, collecting the members of a set, and pushing a variable.
Stepped(kind, c, s, x) ==
  IF kind = "loose" THEN AddLoose(s, x)
  ELSE IF kind = "listed" THEN AddListed(s, x)
  ELSE IF kind = "prime" THEN PrimeVar(c, s, x)
  ELSE IF kind = "collect" THEN (IF x \in c THEN Append(s, x) ELSE s)
  ELSE IF kind = "concat" THEN s \o x
  ELSE PushVar(s)

\* f has what a loop over seq has after each round.
IsLoop(f, kind, c, base, seq) ==
  f = [i \in 0..Len(seq) |-> IF i = 0 THEN base ELSE Stepped(kind, c, f[i - 1], seq[i])]

\* f has what a loop has after each round, the last of which gives result.
Rounds(f, kind, c, base, seq, result) ==
  /\ f[0] = base /\ f[Len(seq)] = result
  /\ \A i \in 1..Len(seq) : f[i] = Stepped(kind, c, f[i - 1], seq[i])

\* The rounds of a loop are a function.
LEMMA RoundsExist ==
  ASSUME NEW kind, NEW c, NEW base, NEW seq, Len(seq) \in Nat
  PROVE  \E f : IsLoop(f, kind, c, base, seq)
<1> DEFINE Exists(n) == \E f : f = [i \in 0..n |-> IF i = 0 THEN base ELSE Stepped(kind, c, f[i - 1], seq[i])]
           S == {n \in Nat : Exists(n)}
<1>1. 0 \in S
  <2> DEFINE f == [i \in 0..0 |-> base]
  <2>1. f = [i \in 0..0 |-> IF i = 0 THEN base ELSE Stepped(kind, c, f[i - 1], seq[i])]
    OBVIOUS
  <2> QED BY <2>1
<1>2. ASSUME NEW n \in Nat, n \in S PROVE n + 1 \in S
  <2>1. PICK f : f = [i \in 0..n |-> IF i = 0 THEN base ELSE Stepped(kind, c, f[i - 1], seq[i])]
    BY <1>2
  <2> DEFINE g == [i \in 0..(n + 1) |-> IF i = n + 1 THEN Stepped(kind, c, f[n], seq[n + 1]) ELSE f[i]]
             h == [i \in 0..(n + 1) |-> IF i = 0 THEN base ELSE Stepped(kind, c, g[i - 1], seq[i])]
  <2>2. ASSUME NEW i \in 0..(n + 1) PROVE g[i] = h[i]
    <3>1. CASE i = 0
      <4>1. 0 \in 0..n /\ 0 # n + 1
        OBVIOUS
      <4>2. g[0] = f[0] /\ f[0] = base
        BY <2>1, <4>1
      <4> QED BY <3>1, <4>2
    <3>2. CASE i \in 1..n
      <4>1. i \in 0..n /\ i # 0 /\ i # n + 1 /\ i - 1 \in 0..n /\ i - 1 \in 0..(n + 1) /\ i - 1 # n + 1
        BY <3>2
      <4>2. g[i] = f[i] /\ g[i - 1] = f[i - 1] /\ f[i] = Stepped(kind, c, f[i - 1], seq[i])
        BY <2>1, <4>1
      <4> QED BY <4>1, <4>2
    <3>3. CASE i = n + 1
      <4>1. n \in 0..(n + 1) /\ n # n + 1 /\ i # 0 /\ i - 1 = n
        BY <3>3
      <4>2. g[i] = Stepped(kind, c, f[n], seq[n + 1]) /\ g[n] = f[n]
        BY <3>3, <4>1
      <4>3. h[i] = Stepped(kind, c, g[i - 1], seq[i])
        BY <4>1
      <4> QED BY <3>3, <4>1, <4>2, <4>3
    <3> QED BY <3>1, <3>2, <3>3
  <2>3. g = h
    BY <2>2
  <2>4. Exists(n + 1)
    BY <2>3
  <2> HIDE DEF Exists
  <2> QED BY <2>4
<1> HIDE DEF Exists
<1> HIDE DEF S
<1>3. PICK N \in Nat : N = Len(seq)
  OBVIOUS
<1>4. 0..N \subseteq S
  <2>1. N \in Nat
    BY <1>3
  <2>2. \A n \in 0..N : n \in S /\ n # N => n + 1 \in S
    BY <1>2, <2>1
  <2> QED BY <1>1, <2>1, <2>2, UpTo
<1> QED BY <1>3, <1>4 DEF S, Exists, IsLoop

\* Adding clauses one by one through Minisat::Solver.
LEMMA LooseRounds ==
  ASSUME NEW s, NEW cs, Len(cs) \in Nat
  PROVE  \E f : Rounds(f, "loose", 0, s, cs, AddLooseAll(s, cs))
<1> DEFINE D == 0..Len(cs)
           g == CHOOSE f : f = [i \in D |-> IF i = 0 THEN s ELSE AddLoose(f[i - 1], cs[i])]
<1>1. AddLooseAll(s, cs) = g[Len(cs)]
  BY DEF AddLooseAll, Through
<1>2. \A x, y : Stepped("loose", 0, x, y) = AddLoose(x, y)
  BY DEF Stepped
<1>3. \E f : f = [i \in D |-> IF i = 0 THEN s ELSE AddLoose(f[i - 1], cs[i])]
  <2>0. PICK f : IsLoop(f, "loose", 0, s, cs)
    BY RoundsExist
  <2>1. f = [i \in D |-> IF i = 0 THEN s ELSE Stepped("loose", 0, f[i - 1], cs[i])]
    BY <2>0 DEF IsLoop
  <2> HIDE DEF D
  <2>2. f = [i \in D |-> IF i = 0 THEN s ELSE AddLoose(f[i - 1], cs[i])]
    BY <1>2, <2>1, Zenon
  <2> QED BY <2>2
<1>4. g = [i \in D |-> IF i = 0 THEN s ELSE AddLoose(g[i - 1], cs[i])]
  BY <1>3
<1> HIDE DEF g
<1>5. 0 \in D /\ \A i \in 1..Len(cs) : i \in D /\ i # 0
  OBVIOUS
<1> HIDE DEF D
<1>6. g[0] = s /\ \A i \in 1..Len(cs) : g[i] = AddLoose(g[i - 1], cs[i])
  BY <1>4, <1>5
<1> QED BY <1>1, <1>2, <1>6 DEF Rounds

\* Adding clauses one by one through SimpSolver.
LEMMA ListedRounds ==
  ASSUME NEW s, NEW cs, Len(cs) \in Nat
  PROVE  \E f : Rounds(f, "listed", 0, s, cs, AddListedAll(s, cs))
<1> DEFINE D == 0..Len(cs)
           g == CHOOSE f : f = [i \in D |-> IF i = 0 THEN s ELSE AddListed(f[i - 1], cs[i])]
<1>1. AddListedAll(s, cs) = g[Len(cs)]
  BY DEF AddListedAll, Through
<1>2. \A x, y : Stepped("listed", 0, x, y) = AddListed(x, y)
  BY DEF Stepped
<1>3. \E f : f = [i \in D |-> IF i = 0 THEN s ELSE AddListed(f[i - 1], cs[i])]
  <2>0. PICK f : IsLoop(f, "listed", 0, s, cs)
    BY RoundsExist
  <2>1. f = [i \in D |-> IF i = 0 THEN s ELSE Stepped("listed", 0, f[i - 1], cs[i])]
    BY <2>0 DEF IsLoop
  <2> HIDE DEF D
  <2>2. f = [i \in D |-> IF i = 0 THEN s ELSE AddListed(f[i - 1], cs[i])]
    BY <1>2, <2>1, Zenon
  <2> QED BY <2>2
<1>4. g = [i \in D |-> IF i = 0 THEN s ELSE AddListed(g[i - 1], cs[i])]
  BY <1>3
<1> HIDE DEF g
<1>5. 0 \in D /\ \A i \in 1..Len(cs) : i \in D /\ i # 0
  OBVIOUS
<1> HIDE DEF D
<1>6. g[0] = s /\ \A i \in 1..Len(cs) : g[i] = AddListed(g[i - 1], cs[i])
  BY <1>4, <1>5
<1> QED BY <1>1, <1>2, <1>6 DEF Rounds

\* Priming variables one by one.
LEMMA PrimeRounds ==
  ASSUME NEW c, NEW m, NEW vs, Len(vs) \in Nat
  PROVE  \E f : Rounds(f, "prime", c, m, vs, PrimeVars(c, m, vs))
<1> DEFINE D == 0..Len(vs)
           g == CHOOSE f : f = [i \in D |-> IF i = 0 THEN m ELSE PrimeVar(c, f[i - 1], vs[i])]
<1>1. PrimeVars(c, m, vs) = g[Len(vs)]
  BY DEF PrimeVars, Through
<1>2. \A x, y : Stepped("prime", c, x, y) = PrimeVar(c, x, y)
  BY DEF Stepped
<1>3. \E f : f = [i \in D |-> IF i = 0 THEN m ELSE PrimeVar(c, f[i - 1], vs[i])]
  <2>0. PICK f : IsLoop(f, "prime", c, m, vs)
    BY RoundsExist
  <2>1. f = [i \in D |-> IF i = 0 THEN m ELSE Stepped("prime", c, f[i - 1], vs[i])]
    BY <2>0 DEF IsLoop
  <2> HIDE DEF D
  <2>2. f = [i \in D |-> IF i = 0 THEN m ELSE PrimeVar(c, f[i - 1], vs[i])]
    BY <1>2, <2>1, Zenon
  <2> QED BY <2>2
<1>4. g = [i \in D |-> IF i = 0 THEN m ELSE PrimeVar(c, g[i - 1], vs[i])]
  BY <1>3
<1> HIDE DEF g
<1>5. 0 \in D /\ \A i \in 1..Len(vs) : i \in D /\ i # 0
  OBVIOUS
<1> HIDE DEF D
<1>6. g[0] = m /\ \A i \in 1..Len(vs) : g[i] = PrimeVar(c, g[i - 1], vs[i])
  BY <1>4, <1>5
<1> QED BY <1>1, <1>2, <1>6 DEF Rounds

\* Pushing variables one by one.
LEMMA PushRounds ==
  ASSUME NEW m, NEW n \in Nat
  PROVE  \E f : Rounds(f, "push", 0, m, [i \in 1..n |-> i], PushVars(m, n))
<1> DEFINE seq == [i \in 1..n |-> i]
<1>0. Len(seq) = n
  OBVIOUS
<1> DEFINE D == 0..Len(seq)
           g == CHOOSE f : f = [i \in D |-> IF i = 0 THEN m ELSE PushVar(f[i - 1])]
<1>1. PushVars(m, n) = g[Len(seq)]
  BY DEF PushVars, Through
<1> HIDE DEF seq
<1>2. \A x, y : Stepped("push", 0, x, y) = PushVar(x)
  BY DEF Stepped
<1>3. \E f : f = [i \in D |-> IF i = 0 THEN m ELSE PushVar(f[i - 1])]
  <2>0. PICK f : IsLoop(f, "push", 0, m, seq)
    BY <1>0, RoundsExist
  <2>1. f = [i \in D |-> IF i = 0 THEN m ELSE Stepped("push", 0, f[i - 1], seq[i])]
    BY <2>0 DEF IsLoop
  <2> HIDE DEF D
  <2>2. f = [i \in D |-> IF i = 0 THEN m ELSE PushVar(f[i - 1])]
    BY <1>2, <2>1, Zenon
  <2> QED BY <2>2
<1>4. g = [i \in D |-> IF i = 0 THEN m ELSE PushVar(g[i - 1])]
  BY <1>3
<1> HIDE DEF g
<1>5. 0 \in D /\ \A i \in 1..Len(seq) : i \in D /\ i # 0
  BY <1>0
<1> HIDE DEF D
<1>6. g[0] = m /\ \A i \in 1..Len(seq) : g[i] = PushVar(g[i - 1])
  BY <1>4, <1>5
<1>7. Rounds(g, "push", 0, m, seq, PushVars(m, n))
  BY <1>1, <1>2, <1>6 DEF Rounds
<1> QED BY <1>7 DEF seq

\* A loop of addClause_() adds all its clauses.
LEMMA AllLooseAdded ==
  ASSUME NEW s, Fine(s), NEW cs \in Seq(SUBSET LitsOf(s.vars))
  PROVE  LET t == AddLooseAll(s, cs)
         IN  /\ Fine(t) /\ SameVars(s, t)
             /\ t.listed = s.listed
             /\ \A m \in Models : Means(t, m) <=> Means(s, m) /\ Hits(m, cs)
<1>0. Len(cs) \in Nat /\ \A i \in 1..Len(cs) : cs[i] \in SUBSET LitsOf(s.vars)
  BY LenProperties, ElementOfSeq
<1>1. PICK N \in Nat : N = Len(cs)
  BY <1>0
<1>2. PICK f : Rounds(f, "loose", 0, s, cs, AddLooseAll(s, cs))
  BY <1>0, LooseRounds
<1>3. /\ f[0] = s /\ f[N] = AddLooseAll(s, cs)
      /\ \A i \in 1..N : f[i] = AddLoose(f[i - 1], cs[i])
  BY <1>1, <1>2 DEF Rounds, Stepped
<1> DEFINE Good(n) ==
             /\ Fine(f[n]) /\ SameVars(s, f[n])
             /\ f[n].listed = s.listed
             /\ \A m \in Models : Means(f[n], m) <=> Means(s, m) /\ \A i \in 1..n : m \cap cs[i] # {}
           S == {n \in 0..N : Good(n)}
<1>4. 0 \in S
  <2>1. 0 \in 0..N /\ 1..0 = {}
    BY <1>1
  <2> QED BY <1>3, <2>1 DEF SameVars
<1>5. ASSUME NEW n \in 0..N, n \in S, n # N PROVE n + 1 \in S
  <2>1. n + 1 \in 1..N /\ (n + 1) - 1 = n /\ n + 1 \in 0..N /\ 1..(n + 1) = (1..n) \cup {n + 1}
    BY <1>1, <1>5
  <2>2. Good(n)
    BY <1>5
  <2>3. PICK x, y, c : x = f[n] /\ y = f[n + 1] /\ c = cs[n + 1]
    OBVIOUS
  <2>4. y = AddLoose(x, c) /\ Fine(x) /\ c \in SUBSET LitsOf(x.vars)
    BY <1>0, <1>1, <1>3, <2>1, <2>2, <2>3 DEF SameVars
  <2>5. Adds(x, y, c) /\ y.listed = x.listed
    BY <2>4, AddLooseAdds
  <2>6. Fine(y) /\ SameVars(s, y)
    BY <2>2, <2>3, <2>5 DEF Adds, SameVars
  <2>7. y.listed = s.listed
    BY <1>1, <2>1, <2>2, <2>3, <2>5
  <2>8. \A m \in Models : Means(y, m) <=> Means(s, m) /\ \A i \in 1..(n + 1) : m \cap cs[i] # {}
    BY <2>1, <2>2, <2>3, <2>5 DEF Adds
  <2>9. Good(n + 1)
    BY <2>3, <2>6, <2>7, <2>8
  <2> QED BY <2>1, <2>9
<1>6. N \in S
  <2> HIDE DEF S
  <2>1. 0..N \subseteq S
    BY <1>1, <1>4, <1>5, UpTo
  <2> QED BY <1>1, <2>1
<1>7. Good(N)
  BY <1>6
<1>8. PICK t : t = AddLooseAll(s, cs)
  OBVIOUS
<1>9. \A m : Hits(m, cs) <=> \A i \in 1..N : m \cap cs[i] # {}
  BY <1>1 DEF Hits
<1> QED BY <1>3, <1>7, <1>8, <1>9

\* Clause d is no tautology, and part of one of the clauses cs that is no unit.
PartOf(d, cs) == ~Tautology(d) /\ \E i \in 1..Len(cs) : d \subseteq cs[i] /\ ~\E p : cs[i] = {p}

\* The same for SimpSolver, where unit clauses are never listed.
LEMMA AllListedAdded ==
  ASSUME NEW s, Fine(s), NEW cs \in Seq(SUBSET LitsOf(s.vars))
  PROVE  LET t == AddListedAll(s, cs)
         IN  /\ Fine(t) /\ SameVars(s, t)
             /\ \A d \in t.listed : d \in s.listed \/ PartOf(d, cs)
             /\ \A m \in Models : Means(t, m) <=> Means(s, m) /\ Hits(m, cs)
<1>0. Len(cs) \in Nat /\ \A i \in 1..Len(cs) : cs[i] \in SUBSET LitsOf(s.vars)
  BY LenProperties, ElementOfSeq
<1>1. PICK N \in Nat : N = Len(cs)
  BY <1>0
<1>2. PICK f : Rounds(f, "listed", 0, s, cs, AddListedAll(s, cs))
  BY <1>0, ListedRounds
<1>3. /\ f[0] = s /\ f[N] = AddListedAll(s, cs)
      /\ \A i \in 1..N : f[i] = AddListed(f[i - 1], cs[i])
  BY <1>1, <1>2 DEF Rounds, Stepped
<1> DEFINE Good(n) ==
             /\ Fine(f[n]) /\ SameVars(s, f[n])
             /\ \A d \in f[n].listed : d \in s.listed \/ (~Tautology(d) /\ \E i \in 1..n : d \subseteq cs[i] /\ ~\E p : cs[i] = {p})
             /\ \A m \in Models : Means(f[n], m) <=> Means(s, m) /\ \A i \in 1..n : m \cap cs[i] # {}
           S == {n \in 0..N : Good(n)}
<1>4. 0 \in S
  <2>1. 0 \in 0..N /\ 1..0 = {}
    BY <1>1
  <2> QED BY <1>3, <2>1 DEF SameVars
<1>5. ASSUME NEW n \in 0..N, n \in S, n # N PROVE n + 1 \in S
  <2>1. n + 1 \in 1..N /\ (n + 1) - 1 = n /\ n + 1 \in 0..N /\ 1..(n + 1) = (1..n) \cup {n + 1}
    BY <1>1, <1>5
  <2>2. Good(n)
    BY <1>5
  <2>3. PICK x, y, c : x = f[n] /\ y = f[n + 1] /\ c = cs[n + 1]
    OBVIOUS
  <2>4. y = AddListed(x, c) /\ Fine(x) /\ c \in SUBSET LitsOf(x.vars)
    BY <1>0, <1>1, <1>3, <2>1, <2>2, <2>3 DEF SameVars
  <2>5. Adds(x, y, c) /\ (\A d \in y.listed : d \in x.listed \/ (~Tautology(d) /\ d \subseteq c /\ ~\E p : c = {p}))
    BY <2>4, AddListedAdds
  <2>6. Fine(y) /\ SameVars(s, y)
    BY <2>2, <2>3, <2>5 DEF Adds, SameVars
  <2>7. \A d \in y.listed : d \in s.listed \/ (~Tautology(d) /\ \E i \in 1..(n + 1) : d \subseteq cs[i] /\ ~\E p : cs[i] = {p})
    BY <1>1, <2>1, <2>2, <2>3, <2>5
  <2>8. \A m \in Models : Means(y, m) <=> Means(s, m) /\ \A i \in 1..(n + 1) : m \cap cs[i] # {}
    BY <2>1, <2>2, <2>3, <2>5 DEF Adds
  <2>9. Good(n + 1)
    BY <2>3, <2>6, <2>7, <2>8
  <2> QED BY <2>1, <2>9
<1>6. N \in S
  <2> HIDE DEF S
  <2>1. 0..N \subseteq S
    BY <1>1, <1>4, <1>5, UpTo
  <2> QED BY <1>1, <2>1
<1>7. Good(N)
  BY <1>6
<1>8. PICK t : t = AddListedAll(s, cs)
  OBVIOUS
<1>9. \A m : Hits(m, cs) <=> \A i \in 1..N : m \cap cs[i] # {}
  BY <1>1 DEF Hits
<1>10. \A d : PartOf(d, cs) <=> ~Tautology(d) /\ \E i \in 1..N : d \subseteq cs[i] /\ ~\E p : cs[i] = {p}
  BY <1>1 DEF PartOf
<1> QED BY <1>3, <1>7, <1>8, <1>9, <1>10

-----------------------------------------------------------------------------
(* The primed variables.                                                   *)

GateVars(c) == FirstGate(c)..(FirstPrime(c) - 1)

\* The primed inputs and latches.
Primes(c) == FirstGate(c) - 1

\* The vector of a Model is as long as the circuit's variables and their
\* primed forms, each gate having at most one of those; it has been moved by
\* the first primed variable if that is an input or a latch.
ModelOK(c, m) ==
  /\ m \in [size : Nat, capacity : Nat, primedAnds : Seq(GateVars(c)), stale : BOOLEAN]
  /\ \A i, j \in 1..Len(m.primedAnds) : m.primedAnds[i] = m.primedAnds[j] => i = j
  /\ m.size = FirstPrime(c) + Primes(c) + Len(m.primedAnds)
  /\ Primes(c) > 0 => ~m.stale /\ m.capacity = 2 * FirstPrime(c)

\* Variable v has a primed form.
HasPrime(c, m, v) == v < FirstGate(c) \/ \E i \in 1..Len(m.primedAnds) : m.primedAnds[i] = v

\* Model n has the primed gates of m, at the same places.
Extends(m, n) ==
  /\ Len(m.primedAnds) <= Len(n.primedAnds)
  /\ \A i \in 1..Len(m.primedAnds) : n.primedAnds[i] = m.primedAnds[i]

\* The vector has room for one more gate.
LEMMA RoomForGate ==
  ASSUME NEW c, CircuitOK(c), NEW m, ModelOK(c, m), NEW v \in GateVars(c), ~HasPrime(c, m, v)
  PROVE  Len(m.primedAnds) < Len(c.gates) /\ Len(m.primedAnds) \in Nat
<1>1. /\ FirstGate(c) \in Nat /\ FirstPrime(c) \in Nat /\ FirstPrime(c) = FirstGate(c) + Len(c.gates)
      /\ Len(c.gates) \in Nat
  BY CircuitSizes
<1>2. PICK q : q = m.primedAnds
  OBVIOUS
<1>3. q \in Seq(GateVars(c)) /\ \A i, j \in 1..Len(q) : q[i] = q[j] => i = j
  BY <1>2 DEF ModelOK
<1>4. Len(q) \in Nat /\ q \in [1..Len(q) -> GateVars(c)]
  BY <1>3, LenProperties
<1>5. \A i \in 1..Len(q) : q[i] # v
  BY <1>2 DEF HasPrime
<1>6. q \in Injection(1..Len(q), GateVars(c) \ {v})
  <2>1. q \in [1..Len(q) -> GateVars(c) \ {v}]
    BY <1>4, <1>5
  <2>2. IsInjective(q)
    BY <1>3, <2>1 DEF IsInjective
  <2> QED BY <2>1, <2>2 DEF Injection
<1>7. IsFiniteSet(GateVars(c)) /\ Cardinality(GateVars(c)) = Len(c.gates)
  <2>1. PICK a, b : a = FirstGate(c) /\ b = FirstPrime(c) - 1
    OBVIOUS
  <2>2. a \in Int /\ b \in Int /\ (IF a > b THEN 0 ELSE b - a + 1) = Len(c.gates)
    BY <1>1, <2>1
  <2> QED BY <2>1, <2>2, FS_Interval DEF GateVars
<1>8. IsFiniteSet(GateVars(c) \ {v}) /\ Cardinality(GateVars(c) \ {v}) = Len(c.gates) - 1
  BY <1>7, FS_RemoveElement
<1>9. IsFiniteSet(1..Len(q)) /\ Cardinality(1..Len(q)) <= Cardinality(GateVars(c) \ {v})
  BY <1>6, <1>8, FS_Injection
<1>10. Cardinality(1..Len(q)) = Len(q)
  <2>1. PICK k \in Nat : k = Len(q)
    BY <1>4
  <2>2. 1 \in Int /\ k \in Int /\ (IF 1 > k THEN 0 ELSE k - 1 + 1) = k
    BY <2>1
  <2> QED BY <2>1, <2>2, FS_Interval
<1> QED BY <1>1, <1>2, <1>4, <1>8, <1>9, <1>10

\* primeVar() gives the variable a primed form, leaves those that there are,
\* and its reference into the vector stays valid if there are inputs or latches.
LEMMA PrimedOne ==
  ASSUME NEW c, CircuitOK(c), NEW m, ModelOK(c, m), NEW v \in 0..(FirstPrime(c) - 1)
  PROVE  LET n == PrimeVar(c, m, v)
         IN  ModelOK(c, n) /\ Extends(m, n) /\ HasPrime(c, n, v)
<1>1. /\ FirstGate(c) \in Nat /\ FirstPrime(c) \in Nat /\ FirstPrime(c) = FirstGate(c) + Len(c.gates)
      /\ Len(c.gates) \in Nat /\ FirstGate(c) >= 1
  BY CircuitSizes
<1>2. PICK q : q = m.primedAnds
  OBVIOUS
<1>3. q \in Seq(GateVars(c)) /\ \A i, j \in 1..Len(q) : q[i] = q[j] => i = j
  BY <1>2 DEF ModelOK
<1>4. Len(q) \in Nat /\ q \in [1..Len(q) -> GateVars(c)] /\ DOMAIN q = 1..Len(q)
  BY <1>3, LenProperties
<1>5. Range(q) = {q[i] : i \in 1..Len(q)}
  BY <1>4 DEF Range
<1>6. Unprimed(c, m, v) <=> v \in GateVars(c) /\ ~HasPrime(c, m, v)
  BY <1>1, <1>2, <1>5 DEF Unprimed, HasPrime, GateVars
<1>7. CASE ~Unprimed(c, m, v)
  <2>1. PrimeVar(c, m, v) = m
    BY <1>7 DEF PrimeVar
  <2>2. HasPrime(c, m, v)
    BY <1>1, <1>6, <1>7 DEF HasPrime, GateVars
  <2>3. Extends(m, m)
    BY <1>2, <1>4 DEF Extends
  <2> QED BY <2>1, <2>2, <2>3
<1>8. CASE Unprimed(c, m, v)
  <2>1. v \in GateVars(c) /\ ~HasPrime(c, m, v)
    BY <1>6, <1>8
  <2>2. Len(q) < Len(c.gates)
    BY <1>2, <2>1, RoomForGate
  <2>3. PICK k : k = IF m.size < m.capacity THEN m.capacity ELSE 2 * m.capacity
    OBVIOUS
  <2>4. PICK st : st = (m.stale \/ m.size = m.capacity)
    OBVIOUS
  <2>5. m \in [size : Nat, capacity : Nat, primedAnds : Seq(GateVars(c)), stale : BOOLEAN]
    BY DEF ModelOK
  <2>6. PICK n : n = PrimeVar(c, m, v)
    OBVIOUS
  <2>7. n = [m EXCEPT !.size = @ + 1, !.capacity = k, !.primedAnds = Append(@, v), !.stale = st]
    <3>1. PushVar(m) = [m EXCEPT !.size = @ + 1, !.capacity = k]
      BY <2>3, <2>5 DEF PushVar
    <3>2. n = [PushVar(m) EXCEPT !.primedAnds = Append(@, v), !.stale = @ \/ m.size = m.capacity]
      BY <1>8, <2>6 DEF PrimeVar
    <3>3. PushVar(m).stale = m.stale /\ PushVar(m).primedAnds = m.primedAnds
      BY <2>5, <3>1
    <3>4. n = [PushVar(m) EXCEPT !.primedAnds = Append(m.primedAnds, v), !.stale = st]
      BY <2>4, <3>2, <3>3
    <3> QED BY <2>5, <3>1, <3>4
  <2>8. /\ n.size = m.size + 1 /\ n.capacity = k /\ n.primedAnds = Append(q, v) /\ n.stale = st
        /\ m.size \in Nat /\ m.capacity \in Nat /\ m.stale \in BOOLEAN
    BY <1>2, <2>5, <2>7
  <2>9. /\ Append(q, v) \in Seq(GateVars(c)) /\ Len(Append(q, v)) = Len(q) + 1
        /\ \A i \in 1..Len(q) : Append(q, v)[i] = q[i]
        /\ Append(q, v)[Len(q) + 1] = v
    BY <1>3, <2>1, AppendProperties
  <2>10. n \in [size : Nat, capacity : Nat, primedAnds : Seq(GateVars(c)), stale : BOOLEAN]
    <3>1. n.size \in Nat /\ n.capacity \in Nat
      BY <2>3, <2>8
    <3>2. n.stale \in BOOLEAN /\ n.primedAnds \in Seq(GateVars(c))
      BY <2>4, <2>8, <2>9
    <3>3. n = [size |-> n.size, capacity |-> n.capacity, primedAnds |-> n.primedAnds, stale |-> n.stale]
      BY <2>5, <2>7
    <3> QED BY <3>1, <3>2, <3>3
  <2>11. ASSUME NEW i \in 1..(Len(q) + 1), NEW j \in 1..(Len(q) + 1), Append(q, v)[i] = Append(q, v)[j]
         PROVE  i = j
    <3>1. \A x \in 1..Len(q) : q[x] # v
      BY <1>2, <2>1 DEF HasPrime
    <3>2. \A x \in 1..(Len(q) + 1) : x \in 1..Len(q) \/ x = Len(q) + 1
      BY <1>4
    <3> QED BY <1>3, <2>9, <2>11, <3>1, <3>2
  <2>12. n.size = FirstPrime(c) + Primes(c) + Len(n.primedAnds)
    <3>1. m.size = FirstPrime(c) + Primes(c) + Len(q)
      BY <1>2 DEF ModelOK
    <3>2. Len(n.primedAnds) = Len(q) + 1 /\ Primes(c) \in Nat
      BY <1>1, <2>8, <2>9 DEF Primes
    <3>3. n.size = m.size + 1
      BY <2>8
    <3>4. PICK a \in Nat, b \in Nat, l \in Nat : a = FirstPrime(c) /\ b = Primes(c) /\ l = Len(q)
      BY <1>1, <1>4, <3>2
    <3>5. (a + b + l) + 1 = a + b + (l + 1)
      OBVIOUS
    <3> QED BY <3>1, <3>2, <3>3, <3>4, <3>5
  <2>13. ASSUME Primes(c) > 0 PROVE ~n.stale /\ n.capacity = 2 * FirstPrime(c)
    <3>1. m.size = FirstPrime(c) + Primes(c) + Len(q) /\ ~m.stale /\ m.capacity = 2 * FirstPrime(c)
      BY <1>2, <2>13 DEF ModelOK
    <3>2. m.size < m.capacity
      BY <1>1, <1>4, <2>2, <3>1 DEF Primes
    <3> QED BY <2>3, <2>4, <2>8, <3>1, <3>2
  <2>14. ModelOK(c, n)
    BY <2>8, <2>9, <2>10, <2>11, <2>12, <2>13 DEF ModelOK
  <2>15. Extends(m, n)
    BY <1>2, <1>4, <2>8, <2>9 DEF Extends
  <2>16. HasPrime(c, n, v)
    <3>1. Len(q) + 1 \in 1..Len(n.primedAnds) /\ n.primedAnds[Len(q) + 1] = v
      BY <1>4, <2>8, <2>9
    <3> QED BY <3>1 DEF HasPrime
  <2> QED BY <2>6, <2>14, <2>15, <2>16
<1> QED BY <1>7, <1>8

\* Extending is transitive and keeps what is primed.
LEMMA ExtendsMore ==
  ASSUME NEW c, NEW k, NEW m, NEW n, ModelOK(c, k), ModelOK(c, m), ModelOK(c, n), Extends(k, m), Extends(m, n)
  PROVE  Extends(k, n) /\ \A v : HasPrime(c, m, v) => HasPrime(c, n, v)
<1>1. /\ k.primedAnds \in Seq(GateVars(c)) /\ m.primedAnds \in Seq(GateVars(c))
      /\ n.primedAnds \in Seq(GateVars(c))
  BY DEF ModelOK
<1>2. Len(k.primedAnds) \in Nat /\ Len(m.primedAnds) \in Nat /\ Len(n.primedAnds) \in Nat
  BY <1>1, LenProperties
<1>3. Extends(k, n)
  BY <1>2 DEF Extends
<1>4. ASSUME NEW v, HasPrime(c, m, v) PROVE HasPrime(c, n, v)
  <2>1. CASE v < FirstGate(c)
    BY <2>1 DEF HasPrime
  <2>2. ASSUME NEW i \in 1..Len(m.primedAnds), m.primedAnds[i] = v PROVE HasPrime(c, n, v)
    <3>1. i \in 1..Len(n.primedAnds) /\ n.primedAnds[i] = v
      BY <1>2, <2>2 DEF Extends
    <3> QED BY <3>1 DEF HasPrime
  <2> QED BY <1>4, <2>1, <2>2 DEF HasPrime
<1> QED BY <1>3, <1>4

\* Priming variables one by one gives each of them a primed form.
LEMMA PrimedAll ==
  ASSUME NEW c, CircuitOK(c), NEW m, ModelOK(c, m), NEW vs, Len(vs) \in Nat,
         \A i \in 1..Len(vs) : vs[i] \in 0..(FirstPrime(c) - 1)
  PROVE  LET n == PrimeVars(c, m, vs)
         IN  ModelOK(c, n) /\ Extends(m, n) /\ \A i \in 1..Len(vs) : HasPrime(c, n, vs[i])
<1>1. PICK N \in Nat : N = Len(vs)
  OBVIOUS
<1>2. PICK f : Rounds(f, "prime", c, m, vs, PrimeVars(c, m, vs))
  BY PrimeRounds
<1>3. /\ f[0] = m /\ f[N] = PrimeVars(c, m, vs)
      /\ \A i \in 1..N : f[i] = PrimeVar(c, f[i - 1], vs[i])
  BY <1>1, <1>2 DEF Rounds, Stepped
<1> DEFINE Good(n) == ModelOK(c, f[n]) /\ Extends(m, f[n]) /\ \A i \in 1..n : HasPrime(c, f[n], vs[i])
           S == {n \in 0..N : Good(n)}
<1>0. Extends(m, m)
  <2>1. m.primedAnds \in Seq(GateVars(c))
    BY DEF ModelOK
  <2>2. Len(m.primedAnds) \in Nat
    BY <2>1, LenProperties
  <2> QED BY <2>2 DEF Extends
<1>4. 0 \in S
  <2>1. 0 \in 0..N /\ 1..0 = {}
    BY <1>1
  <2> QED BY <1>0, <1>3, <2>1
<1>5. ASSUME NEW n \in 0..N, n \in S, n # N PROVE n + 1 \in S
  <2>1. n + 1 \in 1..N /\ (n + 1) - 1 = n /\ n + 1 \in 0..N /\ 1..(n + 1) = (1..n) \cup {n + 1}
    BY <1>1, <1>5
  <2>2. Good(n)
    BY <1>5
  <2>3. PICK x, y, v : x = f[n] /\ y = f[n + 1] /\ v = vs[n + 1]
    OBVIOUS
  <2>4. y = PrimeVar(c, x, v) /\ ModelOK(c, x) /\ v \in 0..(FirstPrime(c) - 1)
    BY <1>1, <1>3, <2>1, <2>2, <2>3
  <2>5. ModelOK(c, y) /\ Extends(x, y) /\ HasPrime(c, y, v)
    BY <2>4, PrimedOne
  <2>6. Extends(m, y) /\ \A w : HasPrime(c, x, w) => HasPrime(c, y, w)
    BY <2>2, <2>3, <2>4, <2>5, ExtendsMore
  <2>7. Good(n + 1)
    BY <2>1, <2>2, <2>3, <2>5, <2>6
  <2> QED BY <2>1, <2>7
<1>6. N \in S
  <2> HIDE DEF S
  <2>1. 0..N \subseteq S
    BY <1>1, <1>4, <1>5, UpTo
  <2> QED BY <1>1, <2>1
<1>7. Good(N)
  BY <1>6
<1> QED BY <1>1, <1>3, <1>7

\* The place of a variable's primed form.
IsPrimed(c, m, v, w) ==
  \/ v = 0 /\ w = 0
  \/ v \in 1..(FirstGate(c) - 1) /\ w = FirstPrime(c) + v - 1
  \/ \E i \in 1..Len(m.primedAnds) : m.primedAnds[i] = v /\ w = FirstPrime(c) + Primes(c) + i - 1

\* The places of a circuit's variables as numbers.
LEMMA Places ==
  ASSUME NEW c, CircuitOK(c)
  PROVE  /\ FirstGate(c) \in Nat /\ FirstPrime(c) \in Nat /\ Primes(c) \in Nat /\ Len(c.gates) \in Nat
         /\ FirstGate(c) >= 1 /\ FirstPrime(c) >= FirstGate(c)
         /\ FirstGate(c) = Primes(c) + 1 /\ FirstGate(c) - 1 = Primes(c)
         /\ FirstPrime(c) = Primes(c) + 1 + Len(c.gates)
<1>1. PICK i \in Nat, l \in Nat, g \in Nat :
        /\ i = c.inputs /\ l = c.latches /\ g = Len(c.gates)
        /\ FirstGate(c) = (1 + i) + l /\ FirstPrime(c) = ((1 + i) + l) + g
  BY CircuitSizes
<1>2. Primes(c) = ((1 + i) + l) - 1
  BY <1>1 DEF Primes
<1>3. PICK a, b, p : a = FirstGate(c) /\ b = FirstPrime(c) /\ p = Primes(c)
  OBVIOUS
<1>4. a = (1 + i) + l /\ b = ((1 + i) + l) + g /\ p = ((1 + i) + l) - 1
  BY <1>1, <1>2, <1>3
<1>5. /\ a \in Nat /\ b \in Nat /\ p \in Nat /\ g \in Nat /\ a >= 1 /\ b >= a
      /\ a = p + 1 /\ a - 1 = p /\ b = p + 1 + g
  BY <1>4
<1> QED BY <1>1, <1>3, <1>5

\* Primed finds the place, which is the only one.
LEMMA PrimedIs ==
  ASSUME NEW c, CircuitOK(c), NEW m, ModelOK(c, m),
         NEW v \in 0..(FirstPrime(c) - 1), HasPrime(c, m, v)
  PROVE  /\ IsPrimed(c, m, v, Primed(c, m, v))
         /\ \A w : IsPrimed(c, m, v, w) => w = Primed(c, m, v)
<1>1. /\ FirstGate(c) \in Nat /\ FirstPrime(c) \in Nat /\ FirstGate(c) >= 1 /\ FirstPrime(c) >= FirstGate(c)
  BY Places
<1>2. PICK q : q = m.primedAnds
  OBVIOUS
<1>3. q \in Seq(GateVars(c)) /\ \A i, j \in 1..Len(q) : q[i] = q[j] => i = j
  BY <1>2 DEF ModelOK
<1>4. Len(q) \in Nat /\ q \in [1..Len(q) -> GateVars(c)] /\ DOMAIN q = 1..Len(q)
  BY <1>3, LenProperties
<1>5. \A i \in 1..Len(q) : q[i] \in FirstGate(c)..(FirstPrime(c) - 1)
  BY <1>4 DEF GateVars
<1>6. CASE v < FirstGate(c)
  <2>1. \A i \in 1..Len(q) : q[i] # v
    BY <1>1, <1>5, <1>6
  <2>2. v \in 0..(FirstGate(c) - 1)
    BY <1>1, <1>6
  <2>3. CASE v = 0
    BY <1>1, <1>2, <2>1, <2>3 DEF IsPrimed, Primed
  <2>4. CASE v # 0
    <3>1. Primed(c, m, v) = FirstPrime(c) + v - 1
      BY <1>6, <2>4 DEF Primed, FirstInput
    <3>2. v \in 1..(FirstGate(c) - 1)
      BY <2>2, <2>4, <1>1
    <3> QED BY <1>2, <2>1, <2>4, <3>1, <3>2 DEF IsPrimed
  <2> QED BY <2>3, <2>4
<1>7. CASE ~(v < FirstGate(c))
  <2>1. PICK i \in 1..Len(q) : q[i] = v
    BY <1>2, <1>7 DEF HasPrime
  <2>2. (CHOOSE j \in 1..Len(q) : q[j] = v) = i
    BY <1>3, <2>1
  <2>3. v # 0 /\ v \notin 1..(FirstGate(c) - 1)
    BY <1>1, <1>7
  <2>4. Primed(c, m, v) = FirstPrime(c) + FirstGate(c) - 1 + i - 1
    BY <1>2, <1>4, <1>7, <2>2, <2>3 DEF Primed, FirstInput
  <2>5. FirstPrime(c) + FirstGate(c) - 1 + i - 1 = FirstPrime(c) + Primes(c) + i - 1
    BY <1>1, <2>1 DEF Primes
  <2>6. \A w : IsPrimed(c, m, v, w) <=> w = FirstPrime(c) + Primes(c) + i - 1
    BY <1>2, <1>3, <2>1, <2>3 DEF IsPrimed
  <2> QED BY <2>4, <2>5, <2>6
<1> QED BY <1>6, <1>7

\* Primed forms lie behind the circuit's variables, except for false, and no
\* two variables share one.
LEMMA PrimedApart ==
  ASSUME NEW c, CircuitOK(c), NEW m, ModelOK(c, m),
         NEW v \in 0..(FirstPrime(c) - 1), HasPrime(c, m, v)
  PROVE  /\ Primed(c, m, v) \in 0..(m.size - 1)
         /\ v = 0 => Primed(c, m, v) = 0
         /\ v # 0 => Primed(c, m, v) >= FirstPrime(c)
         /\ \A w \in 0..(FirstPrime(c) - 1) :
              HasPrime(c, m, w) /\ Primed(c, m, w) = Primed(c, m, v) => w = v
<1>1. /\ FirstGate(c) \in Nat /\ FirstPrime(c) \in Nat /\ FirstGate(c) >= 1 /\ FirstPrime(c) >= FirstGate(c)
  BY Places
<1>2. PICK q : q = m.primedAnds
  OBVIOUS
<1>3. q \in Seq(GateVars(c))
  BY <1>2 DEF ModelOK
<1>4. Len(q) \in Nat /\ q \in [1..Len(q) -> GateVars(c)]
  BY <1>3, LenProperties
<1>5. \A i \in 1..Len(q) : q[i] \in FirstGate(c)..(FirstPrime(c) - 1)
  BY <1>4 DEF GateVars
<1>6. m.size = FirstPrime(c) + Primes(c) + Len(q)
  BY <1>2 DEF ModelOK
<1>7. Primes(c) = FirstGate(c) - 1 /\ Primes(c) \in Nat /\ FirstPrime(c) >= Primes(c) + 1
  BY Places
<1>8. ASSUME NEW w, NEW p, IsPrimed(c, m, w, p)
      PROVE  \/ w = 0 /\ p = 0
             \/ w \in 1..Primes(c) /\ p = FirstPrime(c) + w - 1
             \/ \E i \in 1..Len(q) : q[i] = w /\ p = FirstPrime(c) + Primes(c) + i - 1
  <2>1. 1..(FirstGate(c) - 1) = 1..Primes(c)
    BY <1>7
  <2> QED BY <1>2, <1>8, <2>1 DEF IsPrimed
<1>9. PICK pv : pv = Primed(c, m, v)
  OBVIOUS
<1>10. \/ v = 0 /\ pv = 0
       \/ v \in 1..Primes(c) /\ pv = FirstPrime(c) + v - 1
       \/ \E i \in 1..Len(q) : q[i] = v /\ pv = FirstPrime(c) + Primes(c) + i - 1
  BY <1>8, <1>9, PrimedIs
<1>11. pv \in 0..(m.size - 1) /\ (v = 0 => pv = 0) /\ (v # 0 => pv >= FirstPrime(c))
  <2>1. PICK F \in Nat, P \in Nat, k \in Nat :
          F = FirstPrime(c) /\ P = Primes(c) /\ k = Len(q) /\ F >= P + 1 /\ m.size = (F + P) + k
    BY <1>1, <1>4, <1>6, <1>7
  <2>2. CASE v = 0 /\ pv = 0
    BY <2>1, <2>2
  <2>3. ASSUME v \in 1..P, pv = F + v - 1
        PROVE  pv \in 0..(m.size - 1) /\ v # 0 /\ pv >= F
    <3>1. PICK u \in Nat, p \in Nat : u = v /\ p = pv /\ u >= 1 /\ u <= P /\ p = F + u - 1
      BY <2>3
    <3>2. p <= ((F + P) + k) - 1 /\ p >= F /\ ((F + P) + k) - 1 \in Int
      BY <3>1
    <3> QED BY <2>1, <3>1, <3>2
  <2>4. ASSUME NEW i \in 1..k, q[i] = v, pv = F + P + i - 1
        PROVE  pv \in 0..(m.size - 1) /\ v # 0 /\ pv >= F
    <3>1. v # 0
      BY <1>1, <1>5, <2>1, <2>4
    <3>2. PICK p \in Nat : p = pv /\ p = F + P + i - 1
      BY <2>4
    <3>3. p <= ((F + P) + k) - 1 /\ p >= F /\ ((F + P) + k) - 1 \in Int
      BY <3>2
    <3> QED BY <2>1, <3>1, <3>2, <3>3
  <2> QED BY <1>10, <2>1, <2>2, <2>3, <2>4
<1>12. ASSUME NEW w \in 0..(FirstPrime(c) - 1), HasPrime(c, m, w), Primed(c, m, w) = pv PROVE w = v
  <2>1. \/ w = 0 /\ pv = 0
        \/ w \in 1..Primes(c) /\ pv = FirstPrime(c) + w - 1
        \/ \E i \in 1..Len(q) : q[i] = w /\ pv = FirstPrime(c) + Primes(c) + i - 1
    BY <1>8, <1>12, PrimedIs
  <2>2. CASE w = 0 /\ pv = 0
    BY <1>1, <1>4, <1>7, <1>10, <2>2
  <2>3. CASE w \in 1..Primes(c) /\ pv = FirstPrime(c) + w - 1
    <3>1. PICK F \in Nat, P \in Nat : F = FirstPrime(c) /\ P = Primes(c) /\ F >= P + 1
      BY <1>1, <1>7
    <3>2. PICK x \in Nat : x = w /\ x >= 1 /\ x <= P /\ pv = F + x - 1
      BY <2>3, <3>1
    <3>3. CASE v = 0 /\ pv = 0
      BY <3>1, <3>2, <3>3
    <3>4. CASE v \in 1..P /\ pv = F + v - 1
      BY <3>1, <3>2, <3>4
    <3>5. ASSUME NEW i \in 1..Len(q), q[i] = v, pv = F + P + i - 1 PROVE w = v
      <4>1. i \in Nat /\ i >= 1
        BY <1>4
      <4> QED BY <3>1, <3>2, <3>5, <4>1
    <3> QED BY <1>10, <3>1, <3>3, <3>4, <3>5
  <2>4. ASSUME NEW i \in 1..Len(q), q[i] = w, pv = FirstPrime(c) + Primes(c) + i - 1 PROVE w = v
    <3>1. CASE \E j \in 1..Len(q) : q[j] = v /\ pv = FirstPrime(c) + Primes(c) + j - 1
      <4>1. PICK j \in 1..Len(q) : q[j] = v /\ pv = FirstPrime(c) + Primes(c) + j - 1
        BY <3>1
      <4>2. i = j
        <5>1. PICK F \in Nat, P \in Nat : F = FirstPrime(c) /\ P = Primes(c)
          BY <1>1, <1>7
        <5>2. i \in Nat /\ j \in Nat /\ F + P + i - 1 = F + P + j - 1
          BY <1>4, <2>4, <4>1, <5>1
        <5> QED BY <5>1, <5>2
      <4> QED BY <2>4, <4>1, <4>2
    <3>2. CASE ~\E j \in 1..Len(q) : q[j] = v /\ pv = FirstPrime(c) + Primes(c) + j - 1
      BY <1>1, <1>4, <1>7, <1>10, <2>4, <3>2
    <3> QED BY <3>1, <3>2
  <2> QED BY <2>1, <2>2, <2>3, <2>4
<1> QED BY <1>9, <1>11, <1>12

\* Priming further gates leaves the primed forms where they are.
LEMMA PrimedStays ==
  ASSUME NEW c, CircuitOK(c), NEW m, ModelOK(c, m), NEW n, ModelOK(c, n), Extends(m, n),
         NEW v \in 0..(FirstPrime(c) - 1), HasPrime(c, m, v)
  PROVE  HasPrime(c, n, v) /\ Primed(c, n, v) = Primed(c, m, v)
<1>1. m.primedAnds \in Seq(GateVars(c)) /\ n.primedAnds \in Seq(GateVars(c))
  BY DEF ModelOK
<1>2. Len(m.primedAnds) \in Nat /\ Len(n.primedAnds) \in Nat
  BY <1>1, LenProperties
<1>3. \A i \in 1..Len(m.primedAnds) : i \in 1..Len(n.primedAnds) /\ n.primedAnds[i] = m.primedAnds[i]
  BY <1>2 DEF Extends
<1>4. HasPrime(c, n, v)
  BY <1>3 DEF HasPrime
<1>5. IsPrimed(c, m, v, Primed(c, m, v))
  BY PrimedIs
<1>6. IsPrimed(c, n, v, Primed(c, m, v))
  BY <1>3, <1>5 DEF IsPrimed
<1> QED BY <1>4, <1>6, PrimedIs

\* Pushing the primed inputs and latches: the first one doubles the buffer,
\* which then has room for all of them and for every gate.
LEMMA Pushed ==
  ASSUME NEW c, CircuitOK(c)
  PROVE  ModelOK(c, PushVars(NewModel(c), c.inputs + c.latches))
<1>1. /\ FirstGate(c) \in Nat /\ FirstPrime(c) \in Nat /\ FirstGate(c) >= 1 /\ FirstPrime(c) >= FirstGate(c)
      /\ FirstGate(c) = 1 + c.inputs + c.latches /\ c.inputs \in Nat /\ c.latches \in Nat
  BY CircuitSizes
<1>2. PICK N \in Nat : N = c.inputs + c.latches /\ N = Primes(c)
  BY <1>1 DEF Primes
<1>3. PICK F \in Nat : F = FirstPrime(c) /\ F >= N + 1
  BY <1>1, <1>2
<1>4. PICK seq : seq = [i \in 1..N |-> i]
  OBVIOUS
<1>5. Len(seq) = N
  BY <1>4
<1>6. PICK f : Rounds(f, "push", 0, NewModel(c), seq, PushVars(NewModel(c), N))
  BY <1>4, PushRounds
<1>7. /\ f[0] = NewModel(c) /\ f[N] = PushVars(NewModel(c), N)
      /\ \A i \in 1..N : f[i] = PushVar(f[i - 1])
  BY <1>5, <1>6 DEF Rounds, Stepped
<1> DEFINE At(n) == [size |-> F + n, capacity |-> IF n = 0 THEN F ELSE 2 * F,
                     primedAnds |-> <<>>, stale |-> FALSE]
           S == {n \in 0..N : f[n] = At(n)}
<1>8. 0 \in S
  <2>1. f[0] = At(0)
    <3>1. F + 0 = F
      BY <1>3
    <3> QED BY <1>3, <1>7, <3>1 DEF NewModel
  <2> QED BY <2>1
<1>9. \A n \in 0..N : n \in S /\ n # N => n + 1 \in S
  <2> SUFFICES ASSUME NEW n \in 0..N, n \in S, n # N PROVE n + 1 \in S
    OBVIOUS
  <2>1. n + 1 \in 1..N /\ (n + 1) - 1 = n /\ n + 1 \in 0..N /\ n + 1 # 0 /\ n \in Nat
    OBVIOUS
  <2>2. f[n + 1] = PushVar(f[n])
    BY <1>7, <2>1
  <2>3. PICK x : x = At(n)
    OBVIOUS
  <2>4. x.size = F + n /\ x.capacity = (IF n = 0 THEN F ELSE 2 * F)
    BY <2>3
  <2>5. (IF x.size < x.capacity THEN x.capacity ELSE 2 * x.capacity) = 2 * F
    BY <1>3, <2>1, <2>4
  <2>6. PushVar(x) = [size |-> (F + n) + 1, capacity |-> 2 * F, primedAnds |-> <<>>, stale |-> FALSE]
    <3>1. PushVar(x) = [x EXCEPT !.size = (F + n) + 1, !.capacity = 2 * F]
      BY <2>3, <2>4, <2>5 DEF PushVar
    <3> QED BY <2>3, <3>1
  <2>7. (F + n) + 1 = F + (n + 1)
    BY <1>3, <2>1
  <2>8. f[n + 1] = At(n + 1)
    BY <2>1, <2>2, <2>3, <2>6, <2>7
  <2> QED BY <2>1, <2>8
<1>10. f[N] = At(N)
  <2>1. 0..N \subseteq S
    <3> HIDE DEF S
    <3>1. N \in Nat
      BY <1>2
    <3> QED BY <1>8, <1>9, <3>1, UpTo
  <2>2. N \in 0..N
    BY <1>2
  <2> QED BY <2>1, <2>2
<1>11. PICK m : m = At(N)
  OBVIOUS
<1>12. /\ m.size = F + N /\ m.capacity = (IF N = 0 THEN F ELSE 2 * F) /\ m.primedAnds = <<>> /\ m.stale = FALSE
       /\ m = [size |-> m.size, capacity |-> m.capacity, primedAnds |-> m.primedAnds, stale |-> m.stale]
  BY <1>11
<1>13. m.size \in Nat /\ m.capacity \in Nat /\ m.primedAnds \in Seq(GateVars(c)) /\ m.stale \in BOOLEAN
  <2>1. m.size \in Nat /\ m.capacity \in Nat
    BY <1>2, <1>3, <1>12
  <2>2. m.primedAnds \in Seq(GateVars(c)) /\ m.stale \in BOOLEAN
    <3>1. <<>> \in Seq(GateVars(c)) /\ FALSE \in BOOLEAN
      OBVIOUS
    <3> QED BY <1>12, <3>1, Zenon
  <2> QED BY <2>1, <2>2
<1>14. Len(m.primedAnds) = 0 /\ 1..0 = {}
  BY <1>12
<1>15. ModelOK(c, m)
  <2>1. m \in [size : Nat, capacity : Nat, primedAnds : Seq(GateVars(c)), stale : BOOLEAN]
    BY <1>12, <1>13
  <2>2. m.size = FirstPrime(c) + Primes(c) + Len(m.primedAnds)
    BY <1>2, <1>3, <1>12, <1>14
  <2>3. Primes(c) > 0 => ~m.stale /\ m.capacity = 2 * FirstPrime(c)
    BY <1>2, <1>3, <1>12
  <2> QED BY <1>14, <2>1, <2>2, <2>3 DEF ModelOK
<1> QED BY <1>2, <1>7, <1>10, <1>11, <1>15

-----------------------------------------------------------------------------
(* Sets and sequences that are listed.                                     *)

\* A set of numbers that has an upper bound has a largest member.
LEMMA Largest ==
  ASSUME NEW N \in Nat, NEW S \in SUBSET (0..N)
  PROVE  \E n \in S \cup {0} : \A m \in S : m <= n
<1> DEFINE U == {n \in Nat : \A m \in S : m <= n}
<1>1. U \subseteq Nat /\ N \in U
  OBVIOUS
<1>2. \E n \in U : \A x \in U : <<x, n>> \notin OpToRel(<, Nat)
  <2> HIDE DEF U
  <2> QED BY <1>1, NatLessThanWellFounded, WFMin
<1>3. PICK n \in U : \A x \in U : ~(x < n)
  BY <1>1, <1>2 DEF OpToRel
<1>4. n \in Nat /\ \A m \in S : m <= n /\ m \in Nat
  BY <1>3
<1>5. CASE n = 0
  BY <1>4, <1>5
<1>6. CASE n # 0
  <2>1. n - 1 \in Nat /\ n - 1 < n
    BY <1>4, <1>6
  <2>2. n - 1 \notin U
    BY <1>3, <2>1
  <2>3. PICK m \in S : ~(m <= n - 1)
    BY <2>1, <2>2
  <2>4. m = n
    BY <1>4, <2>1, <2>3
  <2> QED BY <1>4, <2>3, <2>4
<1> QED BY <1>5, <1>6

\* Ascending lists the members of a set.
LEMMA AscendingIs ==
  ASSUME NEW N \in Nat, NEW S \in SUBSET (0..N)
  PROVE  Ascending(S) \in Seq(S) /\ Range(Ascending(S)) = S
<1> DEFINE top == CHOOSE n \in S \cup {0} : \A m \in S : m <= n
<1>1. top \in Nat /\ \A m \in S : m <= top
  <2>1. top \in S \cup {0} /\ \A m \in S : m <= top
    BY Largest
  <2> HIDE DEF top
  <2>2. \A x \in S \cup {0} : x \in Nat
    OBVIOUS
  <2> QED BY <2>1, <2>2
<1> DEFINE D == 0..(top + 1)
           g == CHOOSE f : f = [n \in D |-> IF n = 0 THEN <<>>
                                            ELSE IF n - 1 \in S THEN Append(f[n - 1], n - 1) ELSE f[n - 1]]
<1>2. Ascending(S) = g[top + 1]
  BY DEF Ascending
<1> HIDE DEF top
<1>3. \E f : f = [n \in D |-> IF n = 0 THEN <<>>
                              ELSE IF n - 1 \in S THEN Append(f[n - 1], n - 1) ELSE f[n - 1]]
  <2>1. PICK seq : seq = [i \in 1..(top + 1) |-> i - 1]
    OBVIOUS
  <2>2. Len(seq) = top + 1 /\ Len(seq) \in Nat
    BY <1>1, <2>1
  <2>3. PICK f : IsLoop(f, "collect", S, <<>>, seq)
    BY <2>2, RoundsExist
  <2>4. f = [i \in D |-> IF i = 0 THEN <<>> ELSE Stepped("collect", S, f[i - 1], seq[i])]
    BY <2>2, <2>3 DEF IsLoop
  <2>5. \A x, y : Stepped("collect", S, x, y) = IF y \in S THEN Append(x, y) ELSE x
    BY DEF Stepped
  <2>6. \A i \in D : i # 0 => seq[i] = i - 1
    BY <1>1, <2>1
  <2> DEFINE h == [n \in D |-> IF n = 0 THEN <<>>
                               ELSE IF n - 1 \in S THEN Append(f[n - 1], n - 1) ELSE f[n - 1]]
  <2>7. \A i \in D : f[i] = h[i]
    <3> SUFFICES ASSUME NEW i \in D PROVE f[i] = h[i]
      OBVIOUS
    <3>1. f[i] = IF i = 0 THEN <<>> ELSE Stepped("collect", S, f[i - 1], seq[i])
      BY <2>4
    <3>2. Stepped("collect", S, f[i - 1], seq[i]) = IF seq[i] \in S THEN Append(f[i - 1], seq[i]) ELSE f[i - 1]
      BY <2>5
    <3> QED BY <2>6, <3>1, <3>2
  <2>8. f = h
    BY <2>4, <2>7
  <2> QED BY <2>8
<1>4. g = [n \in D |-> IF n = 0 THEN <<>>
                       ELSE IF n - 1 \in S THEN Append(g[n - 1], n - 1) ELSE g[n - 1]]
  BY <1>3
<1> HIDE DEF g
<1> DEFINE Good(n) == g[n] \in Seq(S) /\ Range(g[n]) = {x \in S : x < n}
           Q == {n \in D : Good(n)}
<1>5. 0 \in Q
  <2>1. 0 \in D /\ g[0] = <<>>
    BY <1>1, <1>4
  <2>2. <<>> \in Seq(S) /\ Range(<<>>) = {} /\ \A x \in S : ~(x < 0)
    BY DEF Range
  <2> QED BY <2>1, <2>2
<1>6. \A n \in D : n \in Q /\ n # top + 1 => n + 1 \in Q
  <2> SUFFICES ASSUME NEW n \in D, n \in Q, n # top + 1 PROVE n + 1 \in Q
    OBVIOUS
  <2>1. n \in Nat /\ n + 1 \in D /\ n + 1 # 0 /\ (n + 1) - 1 = n
    BY <1>1
  <2>2. g[n + 1] = IF n \in S THEN Append(g[n], n) ELSE g[n]
    BY <1>4, <2>1
  <2>3. PICK x : x = g[n]
    OBVIOUS
  <2>4. x \in Seq(S) /\ Range(x) = {y \in S : y < n}
    BY <2>3
  <2>5. CASE n \in S
    <3>1. Append(x, n) \in Seq(S) /\ Append(x, n) = x \o <<n>> /\ <<n>> \in Seq(S)
      BY <2>4, <2>5, AppendProperties, AppendIsConcat
    <3>2. Range(x \o <<n>>) = Range(x) \cup Range(<<n>>)
      <4>1. PICK y : y = <<n>>
        OBVIOUS
      <4>2. y \in Seq(S)
        BY <3>1, <4>1
      <4>3. Range(x \o y) = Range(x) \cup Range(y)
        BY <2>4, <4>2, RangeConcatenation
      <4> QED BY <4>1, <4>3
    <3>3. Range(<<n>>) = {n}
      BY DEF Range
    <3>4. {y \in S : y < n} \cup {n} = {y \in S : y < n + 1}
      <4>1. \A y \in S : y \in Nat
        OBVIOUS
      <4>2. \A y \in S : y < n \/ y = n <=> y < n + 1
        BY <2>1, <4>1
      <4> QED BY <2>5, <4>2
    <3>5. Good(n + 1)
      BY <2>2, <2>3, <2>4, <2>5, <3>1, <3>2, <3>3, <3>4
    <3> QED BY <2>1, <3>5
  <2>6. CASE n \notin S
    <3>1. {y \in S : y < n} = {y \in S : y < n + 1}
      <4>1. \A y \in S : y \in Nat /\ y # n
        BY <2>6
      <4>2. \A y \in S : y < n <=> y < n + 1
        BY <2>1, <4>1
      <4> QED BY <4>2
    <3>2. Good(n + 1)
      BY <2>2, <2>3, <2>4, <2>6, <3>1
    <3> QED BY <2>1, <3>2
  <2> QED BY <2>5, <2>6
<1>7. top + 1 \in Q
  <2> HIDE DEF Q
  <2>1. PICK k \in Nat : k = top + 1
    BY <1>1
  <2>2. \A n \in 0..k : n \in Q /\ n # k => n + 1 \in Q
    BY <1>6, <2>1
  <2>3. 0..k \subseteq Q
    BY <1>5, <2>2, UpTo
  <2> QED BY <2>1, <2>3
<1>8. {x \in S : x < top + 1} = S
  <2>1. \A x \in S : x \in Nat /\ x <= top
    BY <1>1
  <2>2. \A x \in S : x < top + 1
    BY <1>1, <2>1
  <2> QED BY <2>2
<1> QED BY <1>2, <1>7, <1>8

\* FlattenSeq joins sequences.
LEMMA FlattenIs ==
  ASSUME NEW T, NEW seqs \in Seq(Seq(T))
  PROVE  FlattenSeq(seqs) \in Seq(T) /\ Range(FlattenSeq(seqs)) = UNION {Range(seqs[i]) : i \in 1..Len(seqs)}
<1>1. PICK N \in Nat : N = Len(seqs)
  BY LenProperties
<1>2. \A i \in 1..N : seqs[i] \in Seq(T)
  BY <1>1, ElementOfSeq
<1>3. CASE N = 0
  <2>1. seqs = <<>>
    BY <1>1, <1>3, EmptySeq
  <2>2. FlattenSeq(seqs) = <<>>
    BY <2>1 DEF FlattenSeq
  <2>3. <<>> \in Seq(T) /\ Range(<<>>) = {} /\ 1..Len(seqs) = {}
    BY <2>1 DEF Range
  <2> QED BY <2>2, <2>3
<1>4. CASE N # 0
  <2> DEFINE g == CHOOSE f : f = [i \in 1..N |-> IF i = 1 THEN seqs[i] ELSE f[i - 1] \o seqs[i]]
  <2>1. FlattenSeq(seqs) = g[N]
    BY <1>1, <1>4 DEF FlattenSeq
  <2>2. \E f : f = [i \in 1..N |-> IF i = 1 THEN seqs[i] ELSE f[i - 1] \o seqs[i]]
    <3>1. Len(Tail(seqs)) = N - 1 /\ N - 1 \in Nat
      BY <1>1, <1>4, HeadTailProperties
    <3>2. PICK t : t = [i \in 1..(N - 1) |-> seqs[i + 1]]
      OBVIOUS
    <3>3. Len(t) = N - 1
      BY <3>1, <3>2
    <3>4. PICK k : IsLoop(k, "concat", 0, seqs[1], t)
      BY <3>1, <3>3, RoundsExist
    <3>5. k = [i \in 0..(N - 1) |-> IF i = 0 THEN seqs[1] ELSE Stepped("concat", 0, k[i - 1], t[i])]
      BY <3>3, <3>4 DEF IsLoop
    <3>6. \A x, y : Stepped("concat", 0, x, y) = x \o y
      BY DEF Stepped
    <3> DEFINE f == [i \in 1..N |-> k[i - 1]]
               h == [i \in 1..N |-> IF i = 1 THEN seqs[i] ELSE f[i - 1] \o seqs[i]]
    <3>7. ASSUME NEW i \in 1..N PROVE f[i] = h[i]
      <4>1. CASE i = 1
        <5>1. 0 \in 0..(N - 1) /\ i - 1 = 0
          BY <3>1, <4>1
        <5> QED BY <3>5, <4>1, <5>1
      <4>2. CASE i # 1
        <5>1. PICK j : j = i - 1
          OBVIOUS
        <5>2. j \in 0..(N - 1) /\ j # 0 /\ j \in 1..(N - 1) /\ j + 1 = i /\ j \in 1..N
          BY <1>1, <4>2, <5>1
        <5>3. k[j] = k[j - 1] \o t[j] /\ t[j] = seqs[i]
          BY <3>2, <3>5, <3>6, <5>2
        <5>4. f[i] = k[j] /\ f[j] = k[j - 1]
          BY <5>1, <5>2
        <5> QED BY <4>2, <5>1, <5>3, <5>4
      <4> QED BY <4>1, <4>2
    <3>8. f = h
      BY <3>7
    <3> QED BY <3>8
  <2>3. g = [i \in 1..N |-> IF i = 1 THEN seqs[i] ELSE g[i - 1] \o seqs[i]]
    BY <2>2
  <2> HIDE DEF g
  <2> DEFINE Good(n) == g[n + 1] \in Seq(T) /\ Range(g[n + 1]) = UNION {Range(seqs[i]) : i \in 1..(n + 1)}
             Q == {n \in 0..(N - 1) : Good(n)}
  <2>4. 0 \in Q
    <3>1. 0 \in 0..(N - 1) /\ 1 \in 1..N /\ g[1] = seqs[1] /\ 1..1 = {1} /\ 0 + 1 = 1
      BY <1>4, <2>3
    <3>2. UNION {Range(seqs[i]) : i \in {1}} = Range(seqs[1])
      OBVIOUS
    <3> QED BY <1>2, <3>1, <3>2
  <2>5. \A n \in 0..(N - 1) : n \in Q /\ n # N - 1 => n + 1 \in Q
    <3> SUFFICES ASSUME NEW n \in 0..(N - 1), n \in Q, n # N - 1 PROVE n + 1 \in Q
      OBVIOUS
    <3>1. PICK j : j = n + 1
      OBVIOUS
    <3>2. j \in 0..(N - 1) /\ j \in Nat /\ j + 1 \in 1..N /\ j + 1 # 1 /\ (j + 1) - 1 = j
          /\ 1..(j + 1) = (1..j) \cup {j + 1}
      BY <1>1, <3>1
    <3>3. g[j + 1] = g[j] \o seqs[j + 1]
      BY <2>3, <3>2
    <3>4. PICK x, y : x = g[j] /\ y = seqs[j + 1]
      OBVIOUS
    <3>5. x \in Seq(T) /\ Range(x) = UNION {Range(seqs[i]) : i \in 1..j}
      BY <3>1, <3>4
    <3>6. y \in Seq(T)
      BY <1>2, <3>2, <3>4
    <3>7. x \o y \in Seq(T) /\ Range(x \o y) = Range(x) \cup Range(y)
      BY <3>5, <3>6, ConcatProperties, RangeConcatenation
    <3>8. UNION {Range(seqs[i]) : i \in 1..(j + 1)} = (UNION {Range(seqs[i]) : i \in 1..j}) \cup Range(y)
      BY <3>2, <3>4
    <3>9. Good(j)
      BY <3>3, <3>4, <3>5, <3>7, <3>8
    <3> QED BY <3>1, <3>2, <3>9
  <2>6. N - 1 \in Q
    <3> HIDE DEF Q
    <3>1. PICK k \in Nat : k = N - 1
      BY <1>4
    <3>2. \A n \in 0..k : n \in Q /\ n # k => n + 1 \in Q
      BY <2>5, <3>1
    <3>3. 0..k \subseteq Q
      BY <2>4, <3>2, UpTo
    <3> QED BY <3>1, <3>3
  <2>7. (N - 1) + 1 = N
    OBVIOUS
  <2> QED BY <1>1, <2>1, <2>6, <2>7
<1> QED BY <1>3, <1>4

-----------------------------------------------------------------------------
(* What the search can see, and the models that agree with valuations.     *)

\* The variables that the search can see.
KeptVars(c) == InputVars(c) \cup LatchVars(c) \cup PrimedRoots(c)

\* A valuation of a circuit's variables: nothing but its gates is computed.
IsValuation(c, val) ==
  /\ \A v \in 0..(FirstPrime(c) - 1) : val[v] \in BOOLEAN
  /\ val[0] = FALSE
  /\ \A v \in GateVars(c) :
       val[v] = (Holds(val, c.gates[v - FirstGate(c) + 1].rhs0) /\ Holds(val, c.gates[v - FirstGate(c) + 1].rhs1))

\* Model a of clauses has the values val before a transition and next after it.
Agrees(a, c, m, val, next) ==
  /\ \A v \in 0..(FirstPrime(c) - 1) : <<v, val[v]>> \in a
  /\ \A v \in 0..(FirstPrime(c) - 1) : HasPrime(c, m, v) => <<Primed(c, m, v), next[v]>> \in a

\* The variables of a list of literals.
LEMMA LitVarsAre ==
  ASSUME NEW c, NEW lits \in Seq(CircuitLits(c))
  PROVE  /\ Len(LitVars(lits)) = Len(lits) /\ Len(lits) \in Nat /\ DOMAIN lits = 1..Len(lits)
         /\ \A i \in 1..Len(lits) : LitVars(lits)[i] = lits[i][1] /\ lits[i] \in CircuitLits(c)
                                    /\ LitVars(lits)[i] \in 0..(FirstPrime(c) - 1)
         /\ Range(LitVars(lits)) = {lits[i][1] : i \in 1..Len(lits)}
<1>1. Len(lits) \in Nat /\ DOMAIN lits = 1..Len(lits)
  BY LenProperties
<1>2. LitVars(lits) = [i \in 1..Len(lits) |-> lits[i][1]]
  BY <1>1 DEF LitVars
<1>3. \A i \in 1..Len(lits) : lits[i] \in CircuitLits(c)
  BY ElementOfSeq
<1>4. Len(LitVars(lits)) = Len(lits)
  BY <1>1, <1>2
<1>5. Range(LitVars(lits)) = {lits[i][1] : i \in 1..Len(lits)}
  BY <1>2 DEF Range
<1>6. \A i \in 1..Len(lits) : LitVars(lits)[i] = lits[i][1] /\ LitVars(lits)[i] \in 0..(FirstPrime(c) - 1)
  BY <1>2, <1>3, CircuitLitIs
<1> QED BY <1>1, <1>3, <1>4, <1>5, <1>6

\* The roots: the error and the constraints, and with the next-state functions.
LEMMA RootsAre ==
  ASSUME NEW c, CircuitOK(c)
  PROVE  /\ <<c.error>> \o c.constraints \in Seq(CircuitLits(c)) /\ c.next \o c.constraints \in Seq(CircuitLits(c))
         /\ Range(LitVars(<<c.error>> \o c.constraints)) = PrimedRoots(c)
         /\ PrimedRoots(c) = {c.error[1]} \cup {c.constraints[i][1] : i \in 1..Len(c.constraints)}
         /\ Range(LitVars(c.next \o c.constraints))
              = {c.next[i][1] : i \in 1..c.latches} \cup {c.constraints[i][1] : i \in 1..Len(c.constraints)}
         /\ PrimedRoots(c) \subseteq 0..(FirstPrime(c) - 1)
         /\ Range(LitVars(c.next \o c.constraints)) \subseteq 0..(FirstPrime(c) - 1)
<1>1. PICK err, cons, nxt, n : err = c.error /\ cons = c.constraints /\ nxt = c.next /\ n = c.latches
  OBVIOUS
<1>2. /\ err \in CircuitLits(c) /\ cons \in Seq(CircuitLits(c)) /\ nxt \in [1..n -> CircuitLits(c)] /\ n \in Nat
  BY <1>1 DEF CircuitOK
<1>3. nxt \in Seq(CircuitLits(c)) /\ <<err>> \in Seq(CircuitLits(c)) /\ Len(nxt) = n /\ Len(<<err>>) = 1
  BY <1>2
<1>4. ASSUME NEW s \in Seq(CircuitLits(c))
      PROVE  /\ s \o cons \in Seq(CircuitLits(c))
             /\ Range(LitVars(s \o cons)) = {s[i][1] : i \in 1..Len(s)} \cup {cons[i][1] : i \in 1..Len(cons)}
  <2>1. s \o cons \in Seq(CircuitLits(c)) /\ Range(s \o cons) = Range(s) \cup Range(cons)
    BY <1>2, ConcatProperties, RangeConcatenation
  <2>2. \A t \in Seq(CircuitLits(c)) : Range(t) = {t[i] : i \in 1..Len(t)}
    BY RangeEquality
  <2>3. \A t \in Seq(CircuitLits(c)) : Range(LitVars(t)) = {t[i][1] : i \in 1..Len(t)}
    BY LitVarsAre
  <2>4. \A t \in Seq(CircuitLits(c)) : {t[i][1] : i \in 1..Len(t)} = {p[1] : p \in Range(t)}
    BY <2>2
  <2>5. \A t \in Seq(CircuitLits(c)) : Range(LitVars(t)) = {p[1] : p \in Range(t)}
    BY <2>3, <2>4
  <2>6. {p[1] : p \in Range(s) \cup Range(cons)} = {p[1] : p \in Range(s)} \cup {p[1] : p \in Range(cons)}
    OBVIOUS
  <2> QED BY <1>2, <2>1, <2>4, <2>5, <2>6
<1>5. {<<err>>[i][1] : i \in 1..1} = {err[1]}
  <2>1. 1..1 = {1} /\ <<err>>[1] = err
    OBVIOUS
  <2> QED BY <2>1
<1>6. Range(LitVars(cons)) = {cons[i][1] : i \in 1..Len(cons)}
  BY <1>2, LitVarsAre
<1>7. PrimedRoots(c) = {err[1]} \cup {cons[i][1] : i \in 1..Len(cons)}
  BY <1>1, <1>6 DEF PrimedRoots
<1>8. <<err>> \o cons \in Seq(CircuitLits(c)) /\ Range(LitVars(<<err>> \o cons)) = PrimedRoots(c)
  BY <1>3, <1>4, <1>5, <1>7
<1>9. /\ nxt \o cons \in Seq(CircuitLits(c))
      /\ Range(LitVars(nxt \o cons)) = {nxt[i][1] : i \in 1..n} \cup {cons[i][1] : i \in 1..Len(cons)}
  BY <1>3, <1>4
<1>10. \A s \in Seq(CircuitLits(c)) : Range(LitVars(s)) \subseteq 0..(FirstPrime(c) - 1)
  BY LitVarsAre
<1> QED BY <1>1, <1>7, <1>8, <1>9, <1>10

\* The variables that are kept are those of the circuit.
LEMMA KeptAre ==
  ASSUME NEW c, CircuitOK(c)
  PROVE  /\ KeptVars(c) \subseteq 0..(FirstPrime(c) - 1)
         /\ \A m : FrozenVars(c, m) = KeptVars(c) \cup {Primed(c, m, v) : v \in KeptVars(c)}
<1>1. /\ InputVars(c) = 1..(FirstLatch(c) - 1) /\ LatchVars(c) = FirstLatch(c)..(FirstGate(c) - 1)
      /\ FirstLatch(c) = 1 + c.inputs /\ FirstGate(c) = FirstLatch(c) + c.latches /\ c.latches \in Nat /\ c.inputs \in Nat
      /\ FirstLatch(c) \in Nat
  BY CircuitSizes
<1>2. FirstGate(c) \in Nat /\ FirstPrime(c) \in Nat /\ FirstPrime(c) >= FirstGate(c)
  BY Places
<1>3. InputVars(c) \cup LatchVars(c) \subseteq 0..(FirstPrime(c) - 1)
  BY <1>1, <1>2
<1>4. PrimedRoots(c) \subseteq 0..(FirstPrime(c) - 1)
      /\ Range(LitVars(<<c.error>> \o c.constraints)) = PrimedRoots(c)
  BY RootsAre
<1> QED BY <1>3, <1>4 DEF KeptVars, FrozenVars

\* The constructor gives every variable that is kept a primed form.
LEMMA Constructed ==
  ASSUME NEW c, CircuitOK(c)
  PROVE  LET n == PrimeVars(c, PushVars(NewModel(c), c.inputs + c.latches), LitVars(<<c.error>> \o c.constraints))
         IN  ModelOK(c, n) /\ \A v \in KeptVars(c) : HasPrime(c, n, v)
<1>1. PICK m : m = PushVars(NewModel(c), c.inputs + c.latches)
  OBVIOUS
<1>2. PICK lits : lits = <<c.error>> \o c.constraints
  OBVIOUS
<1>3. lits \in Seq(CircuitLits(c)) /\ Range(LitVars(lits)) = PrimedRoots(c)
  BY <1>2, RootsAre
<1>4. PICK vs : vs = LitVars(lits)
  OBVIOUS
<1>5. /\ Len(vs) = Len(lits) /\ Len(vs) \in Nat /\ Range(vs) = {lits[i][1] : i \in 1..Len(lits)}
      /\ \A i \in 1..Len(vs) : vs[i] = lits[i][1] /\ vs[i] \in 0..(FirstPrime(c) - 1)
  BY <1>3, <1>4, LitVarsAre
<1>6. PICK n : n = PrimeVars(c, m, vs)
  OBVIOUS
<1>7. ModelOK(c, n) /\ \A i \in 1..Len(vs) : HasPrime(c, n, vs[i])
  BY <1>1, <1>5, <1>6, Pushed, PrimedAll
<1>8. \A v \in PrimedRoots(c) : HasPrime(c, n, v)
  BY <1>3, <1>4, <1>5, <1>7
<1>9. \A v \in InputVars(c) \cup LatchVars(c) : v < FirstGate(c)
  BY CircuitSizes
<1>10. \A v \in KeptVars(c) : HasPrime(c, n, v)
  BY <1>8, <1>9 DEF KeptVars, HasPrime
<1> QED BY <1>1, <1>2, <1>4, <1>6, <1>7, <1>10

\* Literal p is the conjunction of q and r in model a.
IsAnd(a, p, q, r) == p \in a <=> q \in a /\ r \in a

\* The clauses of a gate say that it is the conjunction of its arguments.
LEMMA GateClausesAre ==
  ASSUME NEW a \in Models, NEW p \in AllLits, NEW q \in AllLits, NEW r \in AllLits
  PROVE  Hits(a, GateClauses(p, q, r)) <=> IsAnd(a, p, q, r)
<1>1. /\ Neg(p) \in a <=> p \notin a
      /\ Neg(q) \in a <=> q \notin a
      /\ Neg(r) \in a <=> r \notin a
  BY ModelsAre
<1>2. 1..3 = {1, 2, 3}
  OBVIOUS
<1>3. PICK g : g = GateClauses(p, q, r)
  OBVIOUS
<1>4. Len(g) = 3 /\ g[1] = {Neg(p), q} /\ g[2] = {Neg(p), r} /\ g[3] = {Neg(q), Neg(r), p}
  BY <1>3 DEF GateClauses
<1>5. a \cap g[1] # {} <=> (p \in a => q \in a)
  BY <1>1, <1>4
<1>6. a \cap g[2] # {} <=> (p \in a => r \in a)
  BY <1>1, <1>4
<1>7. a \cap g[3] # {} <=> (q \in a /\ r \in a => p \in a)
  BY <1>1, <1>4
<1>8. (\A i \in 1..3 : a \cap g[i] # {}) <=> (p \in a <=> q \in a /\ r \in a)
  BY <1>2, <1>5, <1>6, <1>7
<1>9. Hits(a, g) <=> \A i \in 1..3 : a \cap g[i] # {}
  BY <1>4 DEF Hits
<1> QED BY <1>3, <1>8, <1>9 DEF IsAnd

\* A model that agrees with valuations has the literals that hold.
LEMMA AgreesOn ==
  ASSUME NEW c, CircuitOK(c), NEW m, ModelOK(c, m), NEW a \in Models,
         NEW val, IsValuation(c, val), NEW next, IsValuation(c, next), Agrees(a, c, m, val, next),
         NEW p \in CircuitLits(c)
  PROVE  /\ p \in a <=> Holds(val, p)
         /\ HasPrime(c, m, p[1]) => (PrimeLit(c, m, p) \in a <=> Holds(next, p))
<1>1. PICK v \in 0..(FirstPrime(c) - 1), b \in BOOLEAN : p = <<v, b>>
  BY DEF CircuitLits, LitsOf
<1>2. v \in Nat /\ p[1] = v /\ p[2] = b
  <2>1. v \in Nat
    BY Places
  <2> QED BY <1>1, <2>1
<1>3. ASSUME NEW w \in Nat, NEW x \in BOOLEAN, <<w, x>> \in a PROVE <<w, b>> \in a <=> x = b
  <2>1. /\ <<w, TRUE>> \in AllLits /\ Neg(<<w, TRUE>>) = <<w, FALSE>>
    BY DEF AllLits, LitsOf, Neg
  <2>2. <<w, TRUE>> \in a <=> <<w, FALSE>> \notin a
    <3>1. PICK q : q = <<w, TRUE>>
      OBVIOUS
    <3>2. q \in a <=> Neg(q) \notin a
      BY <2>1, <3>1, ModelsAre
    <3> QED BY <2>1, <3>1, <3>2
  <2>3. (x = TRUE \/ x = FALSE) /\ (b = TRUE \/ b = FALSE)
    BY Zenon
  <2> QED BY <1>3, <2>2, <2>3
<1>4. val[v] \in BOOLEAN /\ next[v] \in BOOLEAN
  BY DEF IsValuation
<1>5. p \in a <=> Holds(val, p)
  <2>1. <<v, val[v]>> \in a
    BY DEF Agrees
  <2> QED BY <1>1, <1>2, <1>3, <1>4, <2>1 DEF Holds
<1>6. ASSUME HasPrime(c, m, v) PROVE PrimeLit(c, m, p) \in a <=> Holds(next, p)
  <2>1. PICK w : w = Primed(c, m, v)
    OBVIOUS
  <2>2. <<w, next[v]>> \in a
    BY <1>6, <2>1 DEF Agrees
  <2>3. w \in Nat
    <3>1. m.size \in Nat
      BY DEF ModelOK
    <3> QED BY <1>6, <2>1, <3>1, PrimedApart
  <2>4. PrimeLit(c, m, p) = <<w, b>>
    BY <1>2, <2>1 DEF PrimeLit
  <2> QED BY <1>2, <1>3, <1>4, <2>2, <2>3, <2>4 DEF Holds
<1> QED BY <1>2, <1>5, <1>6

\* For two valuations there is a model that agrees with them.
LEMMA AgreeingModel ==
  ASSUME NEW c, CircuitOK(c), NEW m, ModelOK(c, m),
         NEW val, IsValuation(c, val), NEW next, IsValuation(c, next)
  PROVE  \E a \in Models : Agrees(a, c, m, val, next)
<1> DEFINE D == 0..(FirstPrime(c) - 1)
           Of(w) == {u \in D : HasPrime(c, m, u) /\ Primed(c, m, u) = w}
           f == [w \in Nat |-> IF w \in D THEN val[w]
                               ELSE IF Of(w) # {} THEN next[CHOOSE u \in Of(w) : TRUE] ELSE FALSE]
           a == {<<w, f[w]>> : w \in Nat}
<1>1. FirstPrime(c) \in Nat /\ FirstPrime(c) >= 1 /\ D \subseteq Nat
  BY Places
<1>2. f \in [Nat -> BOOLEAN]
  <2>1. ASSUME NEW w \in Nat PROVE f[w] \in BOOLEAN
    <3>1. CASE w \in D
      BY <3>1 DEF IsValuation
    <3>2. CASE w \notin D /\ Of(w) # {}
      <4>1. (CHOOSE u \in Of(w) : TRUE) \in D
        BY <3>2
      <4> QED BY <3>2, <4>1 DEF IsValuation
    <3>3. CASE w \notin D /\ Of(w) = {}
      BY <3>3
    <3> QED BY <3>1, <3>2, <3>3
  <2> QED BY <2>1
<1>3. a \in Models
  BY <1>2 DEF Models, TotalAssignments
<1>4. ASSUME NEW v \in D PROVE <<v, val[v]>> \in a
  <2>1. v \in Nat /\ f[v] = val[v]
    BY <1>1
  <2> HIDE DEF f
  <2> QED BY <2>1
<1>5. ASSUME NEW v \in D, HasPrime(c, m, v) PROVE <<Primed(c, m, v), next[v]>> \in a
  <2>1. PICK w : w = Primed(c, m, v)
    OBVIOUS
  <2>2. /\ w \in 0..(m.size - 1) /\ (v = 0 => w = 0) /\ (v # 0 => w >= FirstPrime(c))
        /\ \A u \in D : HasPrime(c, m, u) /\ Primed(c, m, u) = w => u = v
    BY <1>5, <2>1, PrimedApart
  <2>3. w \in Nat
    <3>1. m.size \in Nat
      BY DEF ModelOK
    <3> QED BY <2>2, <3>1
  <2>4. f[w] = next[v]
    <3>1. CASE v = 0
      <4>1. w = 0 /\ 0 \in D
        BY <1>1, <2>2, <3>1
      <4>2. val[0] = FALSE /\ next[0] = FALSE
        BY DEF IsValuation
      <4> QED BY <2>3, <3>1, <4>1, <4>2
    <3>2. CASE v # 0
      <4>1. w \notin D
        BY <1>1, <2>2, <2>3, <3>2
      <4>2. Of(w) = {v}
        BY <1>5, <2>1, <2>2
      <4>3. (CHOOSE u \in Of(w) : TRUE) = v
        BY <4>2
      <4> QED BY <2>3, <4>1, <4>2, <4>3
    <3> QED BY <3>1, <3>2
  <2> HIDE DEF f
  <2> QED BY <2>1, <2>3, <2>4
<1> HIDE DEF a
<1>6. Agrees(a, c, m, val, next)
  BY <1>4, <1>5 DEF Agrees
<1> QED BY <1>3, <1>6

-----------------------------------------------------------------------------
(* The simplifier.                                                         *)

\* A solver with the resolvents still to come and the clause that the others
\* are compared with.
SimplifierOK(s, ph, cur, pend) ==
  /\ Fine(s) /\ s.frozen \cap s.eliminated = {}
  /\ \A c \in s.listed : ~Tautology(c)
  /\ pend \in SUBSET SUBSET LitsOf(s.vars)
  /\ ph = "subsume" => cur = {} \/ cur \in Known(s)
  /\ ph \notin {"subsume", "done", "loaded"} => cur = {}

\* All listed clauses are about frozen variables, and no resolvent is to come.
OnlyFrozen(s, pend) == VarsIn(s.listed) \subseteq s.frozen /\ pend = {}

\* A step of eliminate() loses no model, and wins none if it has nothing to
\* resolve.
Keeps(s, t, pend, rest) ==
  /\ t.vars = s.vars /\ t.frozen = s.frozen
  /\ \A a \in Models : Means(s, a) /\ Satisfies(a, pend) => Means(t, a) /\ Satisfies(a, rest)
  /\ OnlyFrozen(s, pend) => OnlyFrozen(t, rest) /\ \A a \in Models : Means(t, a) => Means(s, a)

\* The bookkeeping of the simplifier does not change the meaning of a solver.
LEMMA BooksAside ==
  ASSUME NEW s, Fine(s), NEW t, DOMAIN t = SolverFields,
         t.vars = s.vars, t.frozen = s.frozen, t.listed = s.listed, t.loose = s.loose,
         t.trail = s.trail, t.ok = s.ok, t.queue \in SUBSET s.listed
  PROVE  Fine(t) /\ Known(t) = Known(s) /\ \A pend : Keeps(s, t, pend, pend)
BY DEF Fine, Known, Keeps, Means, Attached, OnlyFrozen

\* Steps that only move on to another phase.
LEMMA PhaseMoves ==
  ASSUME SimplifierOK(solver, phase, current, pending),
         StartEliminate \/ FinishEliminate \/ ClauseChecked \/ Subsumed \/ Resolved \/ EndElimination
  PROVE  SimplifierOK(solver', phase', current', pending') /\ Keeps(solver, solver', pending, pending')
<1>1. solver' = solver /\ pending' = pending
  BY DEF StartEliminate, FinishEliminate, ClauseChecked, Subsumed, Resolved, EndElimination
<1>2. current' = {} \/ phase' = "done"
  BY DEF SimplifierOK, StartEliminate, FinishEliminate, ClauseChecked, Subsumed, Resolved, EndElimination
<1>3. Keeps(solver, solver, pending, pending)
  BY DEF Keeps
<1> QED BY <1>1, <1>2, <1>3 DEF SimplifierOK

\* Steps that only change queues.
LEMMA QueueMoves ==
  ASSUME SimplifierOK(solver, phase, current, pending), Gather \/ TakeClause \/ SkipVar
  PROVE  SimplifierOK(solver', phase', current', pending') /\ Keeps(solver, solver', pending, pending')
<1>1. Fine(solver) /\ DOMAIN solver = SolverFields /\ solver.queue \in SUBSET solver.listed
  BY DEF SimplifierOK, Fine
<1>2. PICK s : s = solver
  OBVIOUS
<1>3. CASE Gather
  <2>1. PICK t : t = Gathered(s)
    OBVIOUS
  <2>2. /\ DOMAIN t = SolverFields /\ t.vars = s.vars /\ t.frozen = s.frozen /\ t.listed = s.listed
        /\ t.loose = s.loose /\ t.trail = s.trail /\ t.ok = s.ok /\ t.queue \in SUBSET s.listed
        /\ t.eliminated = s.eliminated
    BY <1>1, <1>2, <2>1 DEF Gathered, SolverFields
  <2>3. Fine(t) /\ Keeps(s, t, pending, pending)
    BY <1>1, <1>2, <2>2, BooksAside
  <2>4. solver' = t /\ pending' = pending /\ current' = {} /\ phase' = "subsume"
    BY <1>2, <1>3, <2>1 DEF Gather, SimplifierOK
  <2> QED BY <1>2, <2>2, <2>3, <2>4 DEF SimplifierOK
<1>4. CASE SkipVar
  <2>1. PICK v : solver' = [solver EXCEPT !.heap = @ \ {v}]
    BY <1>4 DEF SkipVar
  <2>2. PICK t : t = [s EXCEPT !.heap = @ \ {v}]
    OBVIOUS
  <2>3. /\ DOMAIN t = SolverFields /\ t.vars = s.vars /\ t.frozen = s.frozen /\ t.listed = s.listed
        /\ t.loose = s.loose /\ t.trail = s.trail /\ t.ok = s.ok /\ t.queue \in SUBSET s.listed
        /\ t.eliminated = s.eliminated
    BY <1>1, <1>2, <2>2 DEF SolverFields
  <2>4. Fine(t) /\ Keeps(s, t, pending, pending)
    BY <1>1, <1>2, <2>3, BooksAside
  <2>5. solver' = t /\ pending' = pending /\ current' = {} /\ phase' = "elim"
    BY <1>2, <1>4, <2>1, <2>2 DEF SkipVar, SimplifierOK
  <2> QED BY <1>2, <2>3, <2>4, <2>5 DEF SimplifierOK
<1>5. CASE TakeClause
  <2>1. pending' = pending /\ phase' = "subsume"
    BY <1>5 DEF TakeClause
  <2>2. CASE \E c \in solver.queue : current' = c /\ solver' = [solver EXCEPT !.queue = @ \ {c}]
    <3>1. PICK c \in solver.queue : current' = c /\ solver' = [solver EXCEPT !.queue = @ \ {c}]
      BY <2>2
    <3>2. PICK t : t = [s EXCEPT !.queue = @ \ {c}]
      OBVIOUS
    <3>3. /\ DOMAIN t = SolverFields /\ t.vars = s.vars /\ t.frozen = s.frozen /\ t.listed = s.listed
          /\ t.loose = s.loose /\ t.trail = s.trail /\ t.ok = s.ok /\ t.queue \in SUBSET s.listed
          /\ t.eliminated = s.eliminated
      BY <1>1, <1>2, <3>2 DEF SolverFields
    <3>4. Fine(t) /\ Keeps(s, t, pending, pending) /\ Known(t) = Known(s)
      BY <1>1, <1>2, <3>3, BooksAside
    <3>5. c \in Known(t)
      BY <1>1, <1>2, <3>1, <3>4 DEF Known
    <3> QED BY <1>2, <2>1, <3>1, <3>2, <3>3, <3>4, <3>5 DEF SimplifierOK
  <2>3. CASE \E p \in solver.trail \ solver.checked :
               current' = {p} /\ solver' = [solver EXCEPT !.checked = @ \cup {p}]
    <3>1. PICK p \in solver.trail : current' = {p} /\ solver' = [solver EXCEPT !.checked = @ \cup {p}]
      BY <2>3
    <3>2. PICK t : t = [s EXCEPT !.checked = @ \cup {p}]
      OBVIOUS
    <3>3. /\ DOMAIN t = SolverFields /\ t.vars = s.vars /\ t.frozen = s.frozen /\ t.listed = s.listed
          /\ t.loose = s.loose /\ t.trail = s.trail /\ t.ok = s.ok /\ t.queue \in SUBSET s.listed
          /\ t.eliminated = s.eliminated
      BY <1>1, <1>2, <3>2 DEF SolverFields
    <3>4. Fine(t) /\ Keeps(s, t, pending, pending) /\ Known(t) = Known(s)
      BY <1>1, <1>2, <3>3, BooksAside
    <3>5. {p} \in Known(t)
      BY <1>2, <3>1, <3>4 DEF Known
    <3> QED BY <1>2, <2>1, <3>1, <3>2, <3>3, <3>4, <3>5 DEF SimplifierOK
  <2> QED BY <1>5, <2>2, <2>3 DEF TakeClause
<1> QED BY <1>3, <1>4, <1>5

\* A step that keeps the models of a solver, and whose clauses are parts of
\* those before.
LEMMA SameModelsKeep ==
  ASSUME NEW s, NEW t, SameModels(s, t), \A e \in t.listed : \E f \in s.listed : e \subseteq f, NEW pend
  PROVE  Keeps(s, t, pend, pend)
<1>1. t.vars = s.vars /\ t.frozen = s.frozen /\ \A a \in Models : Means(t, a) <=> Means(s, a)
  BY DEF SameModels, SameVars
<1>2. VarsIn(t.listed) \subseteq VarsIn(s.listed)
  BY DEF VarsIn, VarsOf
<1> QED BY <1>1, <1>2 DEF Keeps, OnlyFrozen

\* Backward subsumption removes and strengthens clauses.
LEMMA SubsumptionMoves ==
  ASSUME SimplifierOK(solver, phase, current, pending), RemoveSubsumed \/ StrengthenOther
  PROVE  SimplifierOK(solver', phase', current', pending') /\ Keeps(solver, solver', pending, pending')
<1>1. PICK s, b : s = solver /\ b = current
  OBVIOUS
<1>2. Fine(s) /\ b \in Known(s) /\ s.frozen \cap s.eliminated = {} /\ current' = b /\ pending' = pending
  BY <1>1 DEF SimplifierOK, RemoveSubsumed, StrengthenOther
<1>3. ASSUME NEW t, solver' = t, SameModels(s, t), b \in Known(t),
             \A e \in t.listed : \E f \in s.listed : e \subseteq f, phase' \in {"subsume", "done"}
      PROVE  SimplifierOK(solver', phase', current', pending') /\ Keeps(solver, solver', pending, pending')
  <2>1. Keeps(s, t, pending, pending)
    BY <1>3, SameModelsKeep
  <2>2. Fine(t) /\ t.vars = s.vars /\ t.frozen \cap t.eliminated = {}
    BY <1>2, <1>3 DEF SameModels, SameVars
  <2>3. \A e \in t.listed : ~Tautology(e)
    BY <1>1, <1>3 DEF SimplifierOK, Tautology
  <2> QED BY <1>1, <1>2, <1>3, <2>1, <2>2, <2>3 DEF SimplifierOK
<1>4. CASE RemoveSubsumed
  <2>1. PICK d \in s.listed : Subsumes(b, d) /\ solver' = RemoveClauses(s, {d})
    BY <1>1, <1>4 DEF RemoveSubsumed
  <2>2. PICK t : t = RemoveClauses(s, {d})
    OBVIOUS
  <2>3. SameModels(s, t) /\ b \in Known(t) /\ t.listed \subseteq s.listed
    BY <1>2, <2>1, <2>2, SubsumedRemoved
  <2>4. phase' = "subsume"
    BY <1>4 DEF RemoveSubsumed
  <2> QED BY <1>3, <2>1, <2>2, <2>3, <2>4
<1>5. CASE StrengthenOther
  <2>1. PICK d \in s.listed : \E p \in Strengthens(b, d) : solver' = StrengthenClause(s, d, p)
    BY <1>1, <1>5 DEF StrengthenOther
  <2>2. PICK p \in Strengthens(b, d) : solver' = StrengthenClause(s, d, p)
    BY <2>1
  <2>3. PICK t : t = StrengthenClause(s, d, p)
    OBVIOUS
  <2>4. SameModels(s, t) /\ b \in Known(t) /\ \A e \in t.listed : \E f \in s.listed : e \subseteq f
    BY <1>2, <2>3, OtherStrengthened
  <2>5. phase' \in {"subsume", "done"}
    BY <1>5 DEF StrengthenOther
  <2> QED BY <1>3, <2>2, <2>3, <2>4, <2>5
<1> QED BY <1>4, <1>5

\* The resolvents are what merge() returns of one clause of each side.
LEMMA ResolventsAre ==
  ASSUME NEW s, NEW v, NEW r
  PROVE  r \in Resolvents(s, v) <=>
           /\ ~Tautology(r)
           /\ \E c \in Occurrences(s, <<v, TRUE>>), d \in Occurrences(s, <<v, FALSE>>) : r = Resolvent(c, d, v)
<1>1. PICK A, B : A = Occurrences(s, <<v, TRUE>>) /\ B = Occurrences(s, <<v, FALSE>>)
  OBVIOUS
<1> DEFINE R == {Resolvent(c, d, v) : c \in A, d \in B}
<1>2. r \in R <=> \E c \in A, d \in B : r = Resolvent(c, d, v)
  OBVIOUS
<1>3. Resolvents(s, v) = {x \in R : ~Tautology(x)}
  BY <1>1 DEF Resolvents
<1> HIDE DEF R
<1> QED BY <1>1, <1>2, <1>3

\* A resolvent is made of one clause of each side.
LEMMA ResolventParts ==
  ASSUME NEW s, NEW v, NEW r \in Resolvents(s, v)
  PROVE  \E c \in Occurrences(s, <<v, TRUE>>), d \in Occurrences(s, <<v, FALSE>>) : r = Resolvent(c, d, v)
<1>1. r \in Resolvents(s, v)
  OBVIOUS
<1> DEFINE Made(x) == \E c \in Occurrences(s, <<v, TRUE>>), d \in Occurrences(s, <<v, FALSE>>) : x = Resolvent(c, d, v)
<1>2. \A x : x \in Resolvents(s, v) <=> ~Tautology(x) /\ Made(x)
  BY ResolventsAre, Zenon
<1> HIDE DEF Made
<1>3. Made(r)
  BY <1>1, <1>2
<1> QED BY <1>3 DEF Made

\* The resolvents of a variable follow from its clauses.
LEMMA ResolventsFollow ==
  ASSUME NEW s, Fine(s), \A c \in s.listed : ~Tautology(c), NEW v
  PROVE  /\ Resolvents(s, v) \in SUBSET SUBSET LitsOf(s.vars)
         /\ \A a \in Models : Means(s, a) => Satisfies(a, Resolvents(s, v))
<1>1. /\ s.listed \in SUBSET SUBSET LitsOf(s.vars) /\ LitsOf(s.vars) \subseteq AllLits
  BY FiniteData DEF Fine
<1>2. ASSUME NEW r \in Resolvents(s, v)
      PROVE  \E c \in s.listed, d \in s.listed :
               <<v, TRUE>> \in c /\ <<v, FALSE>> \in d /\ r = {p \in c \cup d : p[1] # v}
  <2>1. PICK c \in Occurrences(s, <<v, TRUE>>), d \in Occurrences(s, <<v, FALSE>>) : r = Resolvent(c, d, v)
    BY ResolventParts
  <2> QED BY <2>1 DEF Resolvent, Occurrences
<1>3. ASSUME NEW a \in Models, Means(s, a), NEW r \in Resolvents(s, v) PROVE a \cap r # {}
  <2>1. PICK c \in s.listed, d \in s.listed :
          <<v, TRUE>> \in c /\ <<v, FALSE>> \in d /\ r = {p \in c \cup d : p[1] # v}
    BY <1>2
  <2>2. PICK p \in a : p \in c
    BY <1>3 DEF Means, Satisfies, Attached
  <2>3. PICK q \in a : q \in d
    BY <1>3 DEF Means, Satisfies, Attached
  <2>4. p \in AllLits /\ q \in AllLits /\ <<v, TRUE>> \in AllLits
    BY <1>1, <2>1, <2>2, <2>3
  <2>5. PICK l : l = <<v, TRUE>>
    OBVIOUS
  <2>6. l \in AllLits /\ l[1] = v /\ Neg(l) = <<v, FALSE>>
    BY <2>4, <2>5 DEF Neg
  <2>7. p[1] = v /\ q[1] = v => (p = l \/ p = Neg(l)) /\ (q = l \/ q = Neg(l))
    BY <2>4, <2>6, Literals
  <2>8. CASE p[1] # v
    BY <2>1, <2>2, <2>8
  <2>9. CASE q[1] # v
    BY <2>1, <2>3, <2>9
  <2>10. CASE p[1] = v /\ q[1] = v
    <3>1. Neg(l) \notin c /\ Neg(Neg(l)) \notin d
      BY <2>1, <2>5, <2>6 DEF Tautology
    <3>2. Neg(Neg(l)) = l
      BY <2>6, Literals
    <3>3. p = l /\ q = Neg(l)
      BY <2>2, <2>3, <2>7, <2>10, <3>1, <3>2
    <3> QED BY <2>2, <2>3, <2>6, <3>3, ModelsAre
  <2> QED BY <2>8, <2>9, <2>10
<1> QED BY <1>1, <1>2, <1>3 DEF Satisfies

\* Resolving a variable away.
LEMMA EliminateVarMoves ==
  ASSUME SimplifierOK(solver, phase, current, pending), EliminateVar
  PROVE  SimplifierOK(solver', phase', current', pending') /\ Keeps(solver, solver', pending, pending')
<1>1. PICK s : s = solver
  OBVIOUS
<1>2. Fine(s) /\ s.frozen \cap s.eliminated = {} /\ (\A c \in s.listed : ~Tautology(c)) /\ current = {}
  BY <1>1 DEF SimplifierOK, EliminateVar
<1>3. PICK v :
        /\ v \notin s.frozen /\ pending' = Resolvents(s, v)
        /\ solver' = RemoveClauses([s EXCEPT !.heap = @ \ {v}, !.eliminated = @ \cup {v},
                                             !.elimclauses = @ \o Stored(s, v)],
                                   {c \in s.listed : v \in VarsOf(c)})
  BY <1>1 DEF EliminateVar, Eliminable
<1>4. PICK st : st = s.elimclauses \o Stored(s, v)
  OBVIOUS
<1>5. PICK u : u = [s EXCEPT !.heap = @ \ {v}, !.eliminated = @ \cup {v}, !.elimclauses = st]
  OBVIOUS
<1>6. /\ DOMAIN u = SolverFields /\ u.vars = s.vars /\ u.frozen = s.frozen /\ u.listed = s.listed
      /\ u.loose = s.loose /\ u.trail = s.trail /\ u.ok = s.ok /\ u.queue \in SUBSET s.listed
      /\ u.eliminated = s.eliminated \cup {v}
  BY <1>2, <1>5 DEF Fine, SolverFields
<1>7. PICK cs : cs = {c \in s.listed : v \in VarsOf(c)}
  OBVIOUS
<1>8. PICK t : t = RemoveClauses(u, cs)
  OBVIOUS
<1>9. solver' = t
  BY <1>3, <1>4, <1>5, <1>7, <1>8
<1>10. Fine(u) /\ cs \in SUBSET u.listed
  BY <1>2, <1>6, <1>7, BooksAside
<1>11. /\ Fine(t) /\ SameVars(u, t)
       /\ t.listed = u.listed \ cs /\ t.loose = u.loose /\ t.trail = u.trail /\ t.ok = u.ok
  BY <1>8, <1>10, ClausesRemoved
<1>12. PICK rs : rs = Resolvents(s, v)
  OBVIOUS
<1>13. /\ rs \in SUBSET SUBSET LitsOf(s.vars)
       /\ \A a \in Models : Means(s, a) => Satisfies(a, rs)
  BY <1>2, <1>12, ResolventsFollow
<1>14. t.vars = s.vars /\ t.frozen = s.frozen /\ t.frozen \cap t.eliminated = {}
  BY <1>2, <1>3, <1>6, <1>11 DEF SameVars
<1>15. current' = {} /\ phase' = "resolve"
  BY <1>2 DEF EliminateVar
<1>16. SimplifierOK(t, "resolve", {}, rs)
  BY <1>2, <1>6, <1>11, <1>13, <1>14 DEF SimplifierOK
<1>17. \A a \in Models : Means(s, a) => Means(t, a)
  BY <1>6, <1>11 DEF Means, Attached, Satisfies
<1>18. ASSUME OnlyFrozen(s, pending) PROVE OnlyFrozen(t, rs) /\ \A a \in Models : Means(t, a) => Means(s, a)
  <2>1. \A c \in s.listed : v \notin VarsOf(c)
    BY <1>3, <1>18 DEF OnlyFrozen, VarsIn
  <2>2. cs = {} /\ t.listed = s.listed
    BY <1>6, <1>7, <1>11, <2>1
  <2>3. ASSUME NEW r \in rs PROVE FALSE
    <3>1. PICK c \in Occurrences(s, <<v, TRUE>>) : TRUE
      BY <1>12, <2>3, ResolventsAre
    <3>2. c \in s.listed /\ <<v, TRUE>> \in c /\ <<v, TRUE>>[1] = v
      BY <3>1 DEF Occurrences
    <3>3. v \in VarsOf(c)
      BY <3>2 DEF VarsOf
    <3> QED BY <2>1, <3>2, <3>3
  <2>4. \A a \in Models : Means(t, a) => Means(s, a)
    BY <1>6, <1>11, <2>2 DEF Means, Attached, Satisfies
  <2> QED BY <1>14, <1>18, <2>2, <2>3, <2>4 DEF OnlyFrozen
<1>19. Keeps(s, t, pending, rs)
  BY <1>13, <1>14, <1>17, <1>18 DEF Keeps
<1> QED BY <1>1, <1>3, <1>9, <1>12, <1>15, <1>16, <1>19

\* Adding a resolvent.
LEMMA AddResolventMoves ==
  ASSUME SimplifierOK(solver, phase, current, pending), AddResolvent
  PROVE  SimplifierOK(solver', phase', current', pending') /\ Keeps(solver, solver', pending, pending')
<1>1. PICK s : s = solver
  OBVIOUS
<1>2. PICK r \in pending : solver' = AddListed(s, r) /\ pending' = pending \ {r}
  BY <1>1 DEF AddResolvent
<1>3. PICK t : t = AddListed(s, r)
  OBVIOUS
<1>4. /\ Fine(s) /\ s.frozen \cap s.eliminated = {} /\ (\A c \in s.listed : ~Tautology(c)) /\ current = {}
      /\ pending \in SUBSET SUBSET LitsOf(s.vars)
  BY <1>1 DEF SimplifierOK, AddResolvent
<1>5. Adds(s, t, r) /\ \A d \in t.listed : d \in s.listed \/ ~Tautology(d)
  BY <1>2, <1>3, <1>4, AddListedAdds
<1>6. Fine(t) /\ SameVars(s, t) /\ \A a \in Models : Means(t, a) <=> Means(s, a) /\ a \cap r # {}
  BY <1>5 DEF Adds
<1>7. current' = {} /\ phase' \in {"resolve", "done"}
  BY <1>4 DEF AddResolvent
<1>8. SimplifierOK(solver', phase', current', pending')
  BY <1>2, <1>3, <1>4, <1>5, <1>6, <1>7 DEF SimplifierOK, SameVars
<1>9. pending # {}
  BY <1>2
<1>10. Keeps(s, t, pending, pending \ {r})
  BY <1>2, <1>6, <1>9 DEF Keeps, OnlyFrozen, SameVars, Satisfies
<1> QED BY <1>1, <1>2, <1>3, <1>8, <1>10

\* eliminate() keeps the solver in order, loses no model, and wins none where
\* all clauses are about frozen variables.
LEMMA EliminateMoves ==
  ASSUME SimplifierOK(solver, phase, current, pending), Eliminate
  PROVE  SimplifierOK(solver', phase', current', pending') /\ Keeps(solver, solver', pending, pending')
BY PhaseMoves, QueueMoves, SubsumptionMoves, EliminateVarMoves, AddResolventMoves DEF Eliminate, Simplify

-----------------------------------------------------------------------------
(* From the tables of the file to those of the Model.                      *)

\* How many variables the tables of a file have, false included.
FileVars(f) == 1 + Len(f.inputs) + Len(f.latches) + Len(f.ands)

\* The types of a file's tables.
LEMMA TablesAre ==
  ASSUME NEW f \in Tables
  PROVE  /\ f.inputs \in Seq(Nat) /\ f.latches \in Seq([lit : Nat, next : Nat, reset : Nat])
         /\ f.ands \in Seq([lhs : Nat, rhs0 : Nat, rhs1 : Nat])
         /\ f.constraints \in Seq(Nat) /\ f.outputs \in Seq(Nat) /\ f.bad \in Seq(Nat)
         /\ Len(f.inputs) \in Nat /\ DOMAIN f.inputs = 1..Len(f.inputs)
         /\ Len(f.latches) \in Nat /\ DOMAIN f.latches = 1..Len(f.latches)
         /\ Len(f.ands) \in Nat /\ DOMAIN f.ands = 1..Len(f.ands)
         /\ Len(f.constraints) \in Nat /\ DOMAIN f.constraints = 1..Len(f.constraints)
         /\ Len(f.bad) \in Nat /\ Len(f.outputs) \in Nat
         /\ \A i \in 1..Len(f.latches) : f.latches[i].next \in Nat /\ f.latches[i].lit \in Nat /\ f.latches[i].reset \in Nat
         /\ \A i \in 1..Len(f.ands) : f.ands[i].lhs \in Nat /\ f.ands[i].rhs0 \in Nat /\ f.ands[i].rhs1 \in Nat
         /\ \A i \in 1..Len(f.constraints) : f.constraints[i] \in Nat
         /\ \A i \in 1..Len(f.inputs) : f.inputs[i] \in Nat
         /\ Properties(f) \in Seq(Nat) /\ Len(Properties(f)) \in Nat
<1>1. /\ f.inputs \in Seq(Nat) /\ f.latches \in Seq([lit : Nat, next : Nat, reset : Nat])
      /\ f.ands \in Seq([lhs : Nat, rhs0 : Nat, rhs1 : Nat])
      /\ f.constraints \in Seq(Nat) /\ f.outputs \in Seq(Nat) /\ f.bad \in Seq(Nat)
  BY DEF Tables
<1>2. /\ Len(f.inputs) \in Nat /\ DOMAIN f.inputs = 1..Len(f.inputs)
      /\ Len(f.latches) \in Nat /\ DOMAIN f.latches = 1..Len(f.latches)
      /\ Len(f.ands) \in Nat /\ DOMAIN f.ands = 1..Len(f.ands)
      /\ Len(f.constraints) \in Nat /\ DOMAIN f.constraints = 1..Len(f.constraints)
      /\ Len(f.bad) \in Nat /\ Len(f.outputs) \in Nat
  BY <1>1, LenProperties
<1>3. ASSUME NEW i \in 1..Len(f.latches)
      PROVE  f.latches[i].next \in Nat /\ f.latches[i].lit \in Nat /\ f.latches[i].reset \in Nat
  <2>1. f.latches[i] \in [lit : Nat, next : Nat, reset : Nat]
    BY <1>1, ElementOfSeq
  <2> QED BY <2>1
<1>4. ASSUME NEW i \in 1..Len(f.ands)
      PROVE  f.ands[i].lhs \in Nat /\ f.ands[i].rhs0 \in Nat /\ f.ands[i].rhs1 \in Nat
  <2>1. f.ands[i] \in [lhs : Nat, rhs0 : Nat, rhs1 : Nat]
    BY <1>1, ElementOfSeq
  <2> QED BY <2>1
<1>5. /\ \A i \in 1..Len(f.constraints) : f.constraints[i] \in Nat
      /\ \A i \in 1..Len(f.inputs) : f.inputs[i] \in Nat
  BY <1>1, ElementOfSeq
<1>6. Properties(f) \in Seq(Nat) /\ Len(Properties(f)) \in Nat
  BY <1>1, <1>2 DEF Properties
<1> QED BY <1>1, <1>2, <1>3, <1>4, <1>5, <1>6

\* The literals that are looked up late are those of four tables.
LEMMA LateLitsAre ==
  ASSUME NEW f \in Tables, LookupsInRange(f)
  PROVE  /\ \A i \in 1..Len(f.latches) : f.latches[i].next \div 2 < FileVars(f)
         /\ \A i \in 1..Len(f.constraints) : f.constraints[i] \div 2 < FileVars(f)
         /\ \A i \in 1..Len(Properties(f)) : Properties(f)[i] \div 2 < FileVars(f)
<1>1. PICK nexts : nexts = [i \in DOMAIN f.latches |-> f.latches[i].next]
  OBVIOUS
<1>2. PICK n \in Nat : n = Len(f.latches) /\ DOMAIN f.latches = 1..n
  BY TablesAre
<1>3. nexts \in Seq(Nat) /\ Len(nexts) = n /\ \A i \in 1..n : nexts[i] = f.latches[i].next
  <2>1. nexts \in [1..n -> Nat]
    BY <1>1, <1>2, TablesAre
  <2> QED BY <1>1, <1>2, <2>1
<1>4. PICK cs, os, bs : cs = f.constraints /\ os = f.outputs /\ bs = f.bad
  OBVIOUS
<1>5. cs \in Seq(Nat) /\ os \in Seq(Nat) /\ bs \in Seq(Nat)
  BY <1>4, TablesAre
<1>6. PICK x1 : x1 = nexts \o cs
  OBVIOUS
<1>7. PICK x2 : x2 = x1 \o os
  OBVIOUS
<1>8. PICK x3 : x3 = x2 \o bs
  OBVIOUS
<1>9. x3 = LateLits(f)
  BY <1>1, <1>4, <1>6, <1>7, <1>8 DEF LateLits
<1>10. x1 \in Seq(Nat) /\ Range(x1) = Range(nexts) \cup Range(cs)
  BY <1>3, <1>5, <1>6, ConcatProperties, RangeConcatenation
<1>11. x2 \in Seq(Nat) /\ Range(x2) = Range(x1) \cup Range(os)
  BY <1>5, <1>7, <1>10, ConcatProperties, RangeConcatenation
<1>12. x3 \in Seq(Nat) /\ Range(x3) = Range(x2) \cup Range(bs)
  BY <1>5, <1>8, <1>11, ConcatProperties, RangeConcatenation
<1>13. \A s \in Seq(Nat) : Range(s) = {s[i] : i \in 1..Len(s)}
  BY RangeEquality
<1>14. GateVar(f, Len(f.ands)) + 1 = FileVars(f)
  <2>1. Len(f.inputs) \in Nat /\ Len(f.latches) \in Nat /\ Len(f.ands) \in Nat
    BY TablesAre
  <2>2. PICK x \in Nat, y \in Nat, z \in Nat : x = Len(f.inputs) /\ y = Len(f.latches) /\ z = Len(f.ands)
    BY <2>1
  <2>3. GateVar(f, Len(f.ands)) = x + y + z /\ FileVars(f) = 1 + x + y + z
    BY <2>2 DEF GateVar, NumInputs, FileVars
  <2>4. x + y + z + 1 = 1 + x + y + z
    OBVIOUS
  <2> QED BY <2>3, <2>4
<1>15. \A l \in Range(x3) : l \div 2 < FileVars(f)
  <2>1. \A i \in DOMAIN x3 : x3[i] \div 2 < FileVars(f)
    BY <1>9, <1>14 DEF LookupsInRange, InRange
  <2> QED BY <2>1 DEF Range
<1>16. ASSUME NEW i \in 1..Len(f.latches) PROVE f.latches[i].next \div 2 < FileVars(f)
  <2>1. nexts[i] \in Range(x3)
    BY <1>2, <1>3, <1>10, <1>11, <1>12, <1>13
  <2> QED BY <1>2, <1>3, <1>15, <2>1
<1>17. ASSUME NEW i \in 1..Len(f.constraints) PROVE f.constraints[i] \div 2 < FileVars(f)
  BY <1>4, <1>5, <1>10, <1>11, <1>12, <1>13, <1>15
<1>18. ASSUME NEW i \in 1..Len(Properties(f)) PROVE Properties(f)[i] \div 2 < FileVars(f)
  <2>1. Properties(f) = bs \/ Properties(f) = os
    BY <1>4 DEF Properties
  <2>2. Properties(f)[i] \in Range(x3)
    BY <1>5, <1>11, <1>12, <1>13, <2>1
  <2> QED BY <1>15, <2>2
<1> QED BY <1>16, <1>17, <1>18

\* A literal of the file that is in range is one of the circuit.
LEMMA LitOfIs ==
  ASSUME NEW c, NEW l \in Nat, l \div 2 < FirstPrime(c), FirstPrime(c) \in Nat
  PROVE  LitOf(l) \in CircuitLits(c) /\ LitOf(l)[1] = l \div 2 /\ LitOf(l)[2] = (l % 2 = 0)
<1>1. l \div 2 \in 0..(FirstPrime(c) - 1)
  OBVIOUS
<1>2. (l % 2 = 0) \in BOOLEAN
  OBVIOUS
<1> QED BY <1>1, <1>2 DEF LitOf, CircuitLits, LitsOf

\* modelFromAiger() makes a circuit of a file whose lookups are in range, and
\* keeps the gates in order.
LEMMA TranslatedOK ==
  ASSUME NEW f \in Tables, LookupsInRange(f), NEW k \in 1..Len(Properties(f))
  PROVE  LET c == Translated(f, Properties(f)[k])
         IN  /\ CircuitOK(c) /\ FirstPrime(c) = FileVars(f)
             /\ c.inputs = Len(f.inputs) /\ c.latches = Len(f.latches) /\ Len(c.gates) = Len(f.ands)
             /\ c.init \subseteq LatchVars(c) \X BOOLEAN
             /\ Reencoded(f) => GatesInOrder(c)
<1>1. PICK c : c = Translated(f, Properties(f)[k])
  OBVIOUS
<1>2. PICK ni \in Nat, nl \in Nat, na \in Nat :
        /\ ni = Len(f.inputs) /\ nl = Len(f.latches) /\ na = Len(f.ands)
        /\ DOMAIN f.latches = 1..nl /\ DOMAIN f.ands = 1..na
  BY TablesAre
<1>3. /\ c.inputs = ni /\ c.latches = nl
      /\ c.gates = [i \in 1..na |-> [rhs0 |-> LitOf(f.ands[i].rhs0), rhs1 |-> LitOf(f.ands[i].rhs1)]]
      /\ c.next = AigerLits([i \in 1..nl |-> f.latches[i].next])
      /\ c.error = LitOf(Properties(f)[k]) /\ c.constraints = AigerLits(f.constraints) /\ c.init = ResetLits(f)
  BY <1>1, <1>2 DEF Translated, NumInputs
<1>4. Len(c.gates) = na
  BY <1>2, <1>3
<1>5. PICK g \in Nat, l \in Nat, F \in Nat :
        /\ l = FirstLatch(c) /\ g = FirstGate(c) /\ F = FirstPrime(c)
        /\ l = 1 + ni /\ g = l + nl /\ F = g + na
  <2>1. FirstLatch(c) = 1 + ni
    BY <1>3 DEF FirstLatch, FirstInput
  <2>2. FirstGate(c) = (1 + ni) + nl
    BY <1>3, <2>1 DEF FirstGate
  <2>3. FirstPrime(c) = ((1 + ni) + nl) + na
    BY <1>4, <2>2 DEF FirstPrime
  <2> QED BY <2>1, <2>2, <2>3
<1>6. F = FileVars(f)
  BY <1>2, <1>5 DEF FileVars
<1>7. ASSUME NEW i \in 1..na
      PROVE  /\ LitOf(f.ands[i].rhs0) \in CircuitLits(c) /\ LitOf(f.ands[i].rhs1) \in CircuitLits(c)
             /\ LitOf(f.ands[i].rhs0)[1] = f.ands[i].rhs0 \div 2 /\ LitOf(f.ands[i].rhs1)[1] = f.ands[i].rhs1 \div 2
  <2>1. PICK p \in Nat, q \in Nat : p = f.ands[i].rhs0 /\ q = f.ands[i].rhs1
    BY <1>2, TablesAre
  <2>2. p \div 2 < ni + nl + i + 1 /\ q \div 2 < ni + nl + i + 1
    BY <1>2, <2>1 DEF LookupsInRange, InRange, GateVar, NumInputs
  <2>3. p \div 2 < F /\ q \div 2 < F
    <3>1. p \div 2 \in Nat /\ q \div 2 \in Nat
      OBVIOUS
    <3>2. PICK x \in Nat, y \in Nat : x = p \div 2 /\ y = q \div 2
      BY <3>1
    <3>3. x < ni + nl + i + 1 /\ y < ni + nl + i + 1 /\ i \in Nat /\ i <= na /\ F = ((1 + ni) + nl) + na
      BY <1>5, <2>2, <3>2
    <3>4. x < F /\ y < F
      BY <3>3
    <3> QED BY <3>2, <3>4
  <2> QED BY <1>5, <2>1, <2>3, LitOfIs
<1>8. c.gates \in Seq([rhs0 : CircuitLits(c), rhs1 : CircuitLits(c)])
  <2>1. \A i \in 1..na : [rhs0 |-> LitOf(f.ands[i].rhs0), rhs1 |-> LitOf(f.ands[i].rhs1)]
                           \in [rhs0 : CircuitLits(c), rhs1 : CircuitLits(c)]
    BY <1>7
  <2>2. c.gates \in [1..na -> [rhs0 : CircuitLits(c), rhs1 : CircuitLits(c)]]
    BY <1>3, <2>1
  <2>3. PICK T : T = [rhs0 : CircuitLits(c), rhs1 : CircuitLits(c)]
    OBVIOUS
  <2>4. c.gates \in [1..na -> T]
    BY <2>2, <2>3
  <2>5. PICK gs : gs = c.gates
    OBVIOUS
  <2>6. gs \in UNION {[1..n -> T] : n \in Nat}
    BY <1>2, <2>4, <2>5
  <2> QED BY <2>3, <2>5, <2>6, SeqDef
<1>9. c.next \in [1..c.latches -> CircuitLits(c)]
  <2>1. ASSUME NEW i \in 1..nl PROVE LitOf(f.latches[i].next) \in CircuitLits(c)
    <3>1. f.latches[i].next \in Nat
      BY <1>2, TablesAre
    <3>2. f.latches[i].next \div 2 < FirstPrime(c)
      BY <1>2, <1>5, <1>6, LateLitsAre
    <3> QED BY <1>5, <3>1, <3>2, LitOfIs
  <2>2. c.next = [i \in 1..nl |-> LitOf(f.latches[i].next)]
    BY <1>3 DEF AigerLits
  <2> QED BY <1>3, <2>1, <2>2
<1>10. c.error \in CircuitLits(c)
  <2>1. Properties(f) \in Seq(Nat)
    BY TablesAre
  <2>2. Properties(f)[k] \in Nat
    BY <2>1, ElementOfSeq
  <2>3. Properties(f)[k] \div 2 < FileVars(f)
    BY LateLitsAre
  <2> QED BY <1>3, <1>5, <1>6, <2>2, <2>3, LitOfIs
<1>11. c.constraints \in Seq(CircuitLits(c))
  <2>1. PICK nc \in Nat : nc = Len(f.constraints) /\ DOMAIN f.constraints = 1..nc
    BY TablesAre
  <2>2. ASSUME NEW i \in 1..nc PROVE LitOf(f.constraints[i]) \in CircuitLits(c)
    <3>1. f.constraints[i] \in Nat
      BY <2>1, TablesAre
    <3>2. f.constraints[i] \div 2 < FirstPrime(c)
      BY <1>5, <1>6, <2>1, LateLitsAre
    <3> QED BY <1>5, <3>1, <3>2, LitOfIs
  <2>3. c.constraints = [i \in 1..nc |-> LitOf(f.constraints[i])]
    BY <1>3, <2>1 DEF AigerLits
  <2>4. c.constraints \in [1..nc -> CircuitLits(c)]
    BY <2>2, <2>3
  <2> QED BY <2>1, <2>4
<1>12. CircuitOK(c)
  BY <1>2, <1>3, <1>8, <1>9, <1>10, <1>11 DEF CircuitOK
<1>13. c.init \subseteq LatchVars(c) \X BOOLEAN
  <2>1. LatchVars(c) = l..(g - 1)
    BY <1>5 DEF LatchVars
  <2>2. ASSUME NEW i \in 1..nl PROVE LatchVar(f, i) \in LatchVars(c)
    <3>1. LatchVar(f, i) = ni + i /\ ni + i \in l..(g - 1)
      <4>1. LatchVar(f, i) = ni + i
        BY <1>2 DEF LatchVar, NumInputs
      <4>2. ni + i \in (1 + ni)..(((1 + ni) + nl) - 1)
        BY <2>2
      <4> QED BY <1>5, <4>1, <4>2
    <3> QED BY <2>1, <3>1
  <2>3. ASSUME NEW p \in ResetLits(f) PROVE p \in LatchVars(c) \X BOOLEAN
    <3>1. PICK i \in DOMAIN f.latches : p = <<LatchVar(f, i), f.latches[i].reset # 0>>
      BY DEF ResetLits
    <3> QED BY <1>2, <2>2, <3>1
  <2> QED BY <1>3, <2>3
<1>14. ASSUME Reencoded(f) PROVE GatesInOrder(c)
  <2> SUFFICES ASSUME NEW i \in 1..na
               PROVE  c.gates[i].rhs0[1] < FirstGate(c) + i - 1 /\ c.gates[i].rhs1[1] < FirstGate(c) + i - 1
    BY <1>4 DEF GatesInOrder
  <2>1. PICK p \in Nat, q \in Nat : p = f.ands[i].rhs0 /\ q = f.ands[i].rhs1
    BY <1>2, TablesAre
  <2>2. PICK v \in Nat : v = ni + nl + i
    OBVIOUS
  <2>3. p < 2 * v /\ q < 2 * v
    BY <1>2, <1>14, <2>1, <2>2 DEF Reencoded, GateVar, NumInputs
  <2>4. p \div 2 < v /\ q \div 2 < v
    BY <2>3
  <2>5. c.gates[i].rhs0[1] = p \div 2 /\ c.gates[i].rhs1[1] = q \div 2
    BY <1>3, <1>7, <2>1
  <2>6. g + i - 1 = v
    BY <1>5, <2>2
  <2> QED BY <1>5, <2>4, <2>5, <2>6
<1> QED BY <1>1, <1>2, <1>3, <1>4, <1>5, <1>6, <1>12, <1>13, <1>14

-----------------------------------------------------------------------------
(* The clauses of a row of the AND table.                                  *)

Gate(c, v) == c.gates[v - FirstGate(c) + 1]

GateArgs(c, v) == <<Gate(c, v).rhs0, Gate(c, v).rhs1>>

\* The model after the row of gate v, with or without its primed form.
RowModel(c, m, v, prime) ==
  IF prime THEN PrimeVars(c, m, LitVars(<<<<v, TRUE>>>> \o GateArgs(c, v))) ELSE m

\* The clauses of that row.
RowClauses(c, n, v, prime) ==
  IF prime
  THEN GateClauses(<<v, TRUE>>, Gate(c, v).rhs0, Gate(c, v).rhs1)
         \o GateClauses(PrimeLit(c, n, <<v, TRUE>>), PrimeLit(c, n, Gate(c, v).rhs0), PrimeLit(c, n, Gate(c, v).rhs1))
  ELSE GateClauses(<<v, TRUE>>, Gate(c, v).rhs0, Gate(c, v).rhs1)

\* Gate v and what it reads have primed forms.
RowPrimed(c, n, v) ==
  HasPrime(c, n, v) /\ HasPrime(c, n, Gate(c, v).rhs0[1]) /\ HasPrime(c, n, Gate(c, v).rhs1[1])

\* A literal of the circuit and its primed form are about the Model's variables.
LEMMA ModelLits ==
  ASSUME NEW c, CircuitOK(c), NEW m, ModelOK(c, m), NEW p \in CircuitLits(c)
  PROVE  /\ p \in LitsOf(0..(m.size - 1)) /\ p \in AllLits /\ Neg(p) \in LitsOf(0..(m.size - 1))
         /\ HasPrime(c, m, p[1]) => /\ PrimeLit(c, m, p) \in LitsOf(0..(m.size - 1)) /\ PrimeLit(c, m, p) \in AllLits
                                    /\ Neg(PrimeLit(c, m, p)) \in LitsOf(0..(m.size - 1))
<1>1. PICK F \in Nat, P \in Nat, k \in Nat, z \in Nat :
        F = FirstPrime(c) /\ P = Primes(c) /\ k = Len(m.primedAnds) /\ z = m.size
  <2>1. m.primedAnds \in Seq(GateVars(c)) /\ m.size \in Nat
    BY DEF ModelOK
  <2>2. Len(m.primedAnds) \in Nat
    BY <2>1, LenProperties
  <2> QED BY <2>1, <2>2, Places
<1>2. z = F + P + k
  BY <1>1 DEF ModelOK
<1>3. ASSUME NEW x \in 0..(F - 1)
      PROVE  x \in 0..(z - 1)
  <2>1. F <= z /\ F \in Nat /\ z \in Nat
    BY <1>1, <1>2
  <2> QED BY <2>1
<1>4. PICK v \in 0..(F - 1), b \in BOOLEAN : p = <<v, b>>
  BY <1>1 DEF CircuitLits, LitsOf
<1>5. ASSUME NEW w \in 0..(z - 1)
      PROVE  <<w, b>> \in LitsOf(0..(m.size - 1)) /\ <<w, b>> \in AllLits /\ Neg(<<w, b>>) \in LitsOf(0..(m.size - 1))
  <2>1. w \in 0..(m.size - 1) /\ w \in Nat
    BY <1>1, <1>5
  <2>2. b = TRUE \/ b = FALSE
    BY <1>4
  <2>3. Neg(<<w, TRUE>>) = <<w, FALSE>> /\ Neg(<<w, FALSE>>) = <<w, TRUE>>
    BY DEF Neg
  <2>4. /\ <<w, TRUE>> \in LitsOf(0..(m.size - 1)) /\ <<w, FALSE>> \in LitsOf(0..(m.size - 1))
        /\ <<w, TRUE>> \in AllLits /\ <<w, FALSE>> \in AllLits
    BY <2>1 DEF LitsOf, AllLits
  <2> QED BY <2>2, <2>3, <2>4
<1>6. ASSUME HasPrime(c, m, v)
      PROVE  PrimeLit(c, m, p) = <<Primed(c, m, v), b>> /\ Primed(c, m, v) \in 0..(z - 1)
  <2>1. PrimeLit(c, m, p) = <<Primed(c, m, v), b>>
    BY <1>4 DEF PrimeLit
  <2>2. Primed(c, m, v) \in 0..(m.size - 1)
    BY <1>1, <1>6, PrimedApart
  <2> QED BY <1>1, <2>1, <2>2
<1>7. p[1] = v /\ v \in 0..(z - 1)
  BY <1>3, <1>4
<1> QED BY <1>4, <1>5, <1>6, <1>7

\* The variable of a gate, as a literal, and its arguments.
LEMMA RowLits ==
  ASSUME NEW c, CircuitOK(c), NEW v \in GateVars(c)
  PROVE  /\ <<v, TRUE>> \in CircuitLits(c) /\ Gate(c, v).rhs0 \in CircuitLits(c) /\ Gate(c, v).rhs1 \in CircuitLits(c)
         /\ v \in 0..(FirstPrime(c) - 1) /\ v >= FirstGate(c)
         /\ GatesInOrder(c) => Gate(c, v).rhs0[1] < v /\ Gate(c, v).rhs1[1] < v
<1>1. v \in FirstGate(c)..(FirstPrime(c) - 1) /\ v \in 0..(FirstPrime(c) - 1) /\ v >= FirstGate(c)
  BY Places DEF GateVars
<1>2. <<v, TRUE>> \in CircuitLits(c)
  BY <1>1 DEF CircuitLits, LitsOf
<1> QED BY <1>1, <1>2, GateIs DEF Gate

\* Priming a row gives the gate and its arguments primed forms.
LEMMA RowModelIs ==
  ASSUME NEW c, CircuitOK(c), NEW m, ModelOK(c, m), NEW v \in GateVars(c), NEW prime \in BOOLEAN
  PROVE  LET n == RowModel(c, m, v, prime)
         IN  ModelOK(c, n) /\ Extends(m, n) /\ (prime => RowPrimed(c, n, v))
<1>1. PICK p, q, r : p = <<v, TRUE>> /\ q = Gate(c, v).rhs0 /\ r = Gate(c, v).rhs1
  OBVIOUS
<1>2. p \in CircuitLits(c) /\ q \in CircuitLits(c) /\ r \in CircuitLits(c)
  BY <1>1, RowLits
<1>3. PICK lits : lits = <<p>> \o <<q, r>>
  OBVIOUS
<1>4. /\ <<p>> \in Seq(CircuitLits(c)) /\ Len(<<p>>) = 1 /\ <<p>>[1] = p
      /\ <<q, r>> \in Seq(CircuitLits(c)) /\ Len(<<q, r>>) = 2 /\ <<q, r>>[1] = q /\ <<q, r>>[2] = r
  BY <1>2
<1>5. Len(lits) = 3 /\ lits[1] = p /\ lits[2] = q /\ lits[3] = r /\ lits \in Seq(CircuitLits(c))
  <2>1. PICK x, y : x = <<p>> /\ y = <<q, r>>
    OBVIOUS
  <2>2. /\ x \in Seq(CircuitLits(c)) /\ Len(x) = 1 /\ x[1] = p
        /\ y \in Seq(CircuitLits(c)) /\ Len(y) = 2 /\ y[1] = q /\ y[2] = r
    BY <1>4, <2>1
  <2>3. lits = x \o y
    BY <1>3, <2>1
  <2>4. /\ lits \in Seq(CircuitLits(c)) /\ Len(lits) = Len(x) + Len(y)
        /\ \A i \in 1..(Len(x) + Len(y)) : lits[i] = IF i <= Len(x) THEN x[i] ELSE y[i - Len(x)]
    BY <2>2, <2>3, ConcatProperties
  <2>5. Len(lits) = 3 /\ \A i \in 1..3 : lits[i] = IF i <= 1 THEN x[i] ELSE y[i - 1]
    BY <2>2, <2>4
  <2> QED BY <2>2, <2>4, <2>5
<1>6. PICK vs : vs = LitVars(lits)
  OBVIOUS
<1>7. /\ Len(vs) = 3 /\ \A i \in 1..3 : vs[i] = lits[i][1] /\ vs[i] \in 0..(FirstPrime(c) - 1)
  BY <1>5, <1>6, LitVarsAre
<1>8. CASE prime
  <2>1. PICK n : n = PrimeVars(c, m, vs)
    OBVIOUS
  <2>2. ModelOK(c, n) /\ Extends(m, n) /\ \A i \in 1..3 : HasPrime(c, n, vs[i])
    <3>1. Len(vs) \in Nat /\ \A i \in 1..Len(vs) : vs[i] \in 0..(FirstPrime(c) - 1)
      BY <1>7
    <3>2. ModelOK(c, n) /\ Extends(m, n) /\ \A i \in 1..Len(vs) : HasPrime(c, n, vs[i])
      BY <2>1, <3>1, PrimedAll
    <3> QED BY <1>7, <3>2
  <2>3. RowModel(c, m, v, prime) = n
    BY <1>1, <1>3, <1>6, <1>8, <2>1 DEF RowModel, GateArgs
  <2>4. 1 \in 1..3 /\ 2 \in 1..3 /\ 3 \in 1..3
    OBVIOUS
  <2>5. p[1] = v
    BY <1>1
  <2>6. RowPrimed(c, n, v)
    BY <1>1, <1>5, <1>7, <2>2, <2>4, <2>5 DEF RowPrimed
  <2> QED BY <2>2, <2>3, <2>6
<1>9. CASE ~prime
  <2>1. RowModel(c, m, v, prime) = m
    BY <1>9 DEF RowModel
  <2>2. m.primedAnds \in Seq(GateVars(c))
    BY DEF ModelOK
  <2>3. Extends(m, m)
    BY <2>2, LenProperties DEF Extends
  <2> QED BY <1>9, <2>1, <2>3
<1> QED BY <1>8, <1>9

\* The three clauses of a gate are about the variables of its literals.
LEMMA GateClausesLits ==
  ASSUME NEW L, NEW p \in L, NEW q \in L, NEW r \in L, Neg(p) \in L, Neg(q) \in L, Neg(r) \in L
  PROVE  GateClauses(p, q, r) \in Seq(SUBSET L) /\ \A i \in 1..3 : GateClauses(p, q, r)[i] \in SUBSET L
<1>1. {Neg(p), q} \in SUBSET L /\ {Neg(p), r} \in SUBSET L /\ {Neg(q), Neg(r), p} \in SUBSET L
  OBVIOUS
<1>2. GateClauses(p, q, r) \in Seq(SUBSET L)
  BY <1>1 DEF GateClauses
<1>3. Len(GateClauses(p, q, r)) = 3
  BY DEF GateClauses
<1> QED BY <1>2, <1>3, ElementOfSeq

\* Gate v, and its primed form if asked for, in model a.
RowHolds(c, n, v, prime, a) ==
  /\ IsAnd(a, <<v, TRUE>>, Gate(c, v).rhs0, Gate(c, v).rhs1)
  /\ prime => IsAnd(a, PrimeLit(c, n, <<v, TRUE>>), PrimeLit(c, n, Gate(c, v).rhs0), PrimeLit(c, n, Gate(c, v).rhs1))

\* The three clauses of a gate over literals of L and what they mean.
LEMMA GateMeans ==
  ASSUME NEW L, L \subseteq AllLits, NEW p \in L, NEW q \in L, NEW r \in L, Neg(p) \in L, Neg(q) \in L, Neg(r) \in L
  PROVE  /\ GateClauses(p, q, r) \in Seq(SUBSET L)
         /\ \A a \in Models : Hits(a, GateClauses(p, q, r)) <=> IsAnd(a, p, q, r)
<1>1. GateClauses(p, q, r) \in Seq(SUBSET L)
  BY GateClausesLits
<1>2. p \in AllLits /\ q \in AllLits /\ r \in AllLits
  OBVIOUS
<1>3. \A a \in Models : Hits(a, GateClauses(p, q, r)) <=> IsAnd(a, p, q, r)
  BY <1>2, GateClausesAre
<1> QED BY <1>1, <1>3

\* Two groups of clauses, one after the other.
LEMMA HitsBoth ==
  ASSUME NEW S, NEW g \in Seq(S), NEW h \in Seq(S)
  PROVE  g \o h \in Seq(S) /\ \A a : Hits(a, g \o h) <=> Hits(a, g) /\ Hits(a, h)
<1>1. PICK cs : cs = g \o h
  OBVIOUS
<1>2. PICK k \in Nat, l \in Nat : k = Len(g) /\ l = Len(h)
  BY LenProperties
<1>3. /\ cs \in Seq(S) /\ Len(cs) = k + l
      /\ \A i \in 1..(k + l) : cs[i] = IF i <= k THEN g[i] ELSE h[i - k]
  BY <1>1, <1>2, ConcatProperties
<1>4. \A i \in 1..k : i \in 1..(k + l) /\ cs[i] = g[i]
  BY <1>3
<1>5. \A i \in 1..l : i + k \in 1..(k + l) /\ cs[i + k] = h[i]
  <2> SUFFICES ASSUME NEW i \in 1..l PROVE i + k \in 1..(k + l) /\ cs[i + k] = h[i]
    OBVIOUS
  <2>1. i + k \in 1..(k + l) /\ ~(i + k <= k) /\ (i + k) - k = i
    BY <1>2
  <2> QED BY <1>3, <2>1
<1>6. \A i \in 1..(k + l) : i \in 1..k \/ \E j \in 1..l : i = j + k
  <2> SUFFICES ASSUME NEW i \in 1..(k + l), i \notin 1..k PROVE \E j \in 1..l : i = j + k
    OBVIOUS
  <2>1. i - k \in 1..l /\ i = (i - k) + k
    BY <1>2
  <2> QED BY <2>1
<1>7. \A a : (\A i \in 1..(k + l) : a \cap cs[i] # {}) <=>
                (\A i \in 1..k : a \cap g[i] # {}) /\ (\A i \in 1..l : a \cap h[i] # {})
  BY <1>4, <1>5, <1>6
<1> QED BY <1>1, <1>2, <1>3, <1>7 DEF Hits

\* The clauses of a row say what its gate computes, and its primed form too.
LEMMA RowClausesAre ==
  ASSUME NEW c, CircuitOK(c), NEW n, ModelOK(c, n), NEW v \in GateVars(c), NEW prime \in BOOLEAN,
         prime => RowPrimed(c, n, v)
  PROVE  /\ RowClauses(c, n, v, prime) \in Seq(SUBSET LitsOf(0..(n.size - 1)))
         /\ \A a \in Models : Hits(a, RowClauses(c, n, v, prime)) <=> RowHolds(c, n, v, prime, a)
<1>1. PICK p, q, r : p = <<v, TRUE>> /\ q = Gate(c, v).rhs0 /\ r = Gate(c, v).rhs1
  OBVIOUS
<1>2. PICK L : L = LitsOf(0..(n.size - 1))
  OBVIOUS
<1>3. p \in CircuitLits(c) /\ q \in CircuitLits(c) /\ r \in CircuitLits(c) /\ p[1] = v
  BY <1>1, RowLits
<1>4. p \in L /\ q \in L /\ r \in L /\ Neg(p) \in L /\ Neg(q) \in L /\ Neg(r) \in L
  BY <1>2, <1>3, ModelLits
<1>5. L \subseteq AllLits
  <2>1. n.size \in Nat
    BY DEF ModelOK
  <2>2. 0..(n.size - 1) \subseteq Nat
    BY <2>1
  <2> QED BY <1>2, <2>2 DEF AllLits, LitsOf
<1>6. PICK g : g = GateClauses(p, q, r)
  OBVIOUS
<1>7. g \in Seq(SUBSET L) /\ \A a \in Models : Hits(a, g) <=> IsAnd(a, p, q, r)
  BY <1>4, <1>5, <1>6, GateMeans
<1>8. CASE ~prime
  <2>1. RowClauses(c, n, v, prime) = g
    BY <1>1, <1>6, <1>8 DEF RowClauses
  <2>2. \A a \in Models : Hits(a, g) <=> RowHolds(c, n, v, prime, a)
    BY <1>1, <1>7, <1>8 DEF RowHolds
  <2> QED BY <1>2, <1>7, <2>1, <2>2
<1>9. CASE prime
  <2>1. PICK x, y, z : x = PrimeLit(c, n, p) /\ y = PrimeLit(c, n, q) /\ z = PrimeLit(c, n, r)
    OBVIOUS
  <2>2. HasPrime(c, n, p[1]) /\ HasPrime(c, n, q[1]) /\ HasPrime(c, n, r[1])
    BY <1>1, <1>3, <1>9 DEF RowPrimed
  <2>3. x \in L /\ y \in L /\ z \in L /\ Neg(x) \in L /\ Neg(y) \in L /\ Neg(z) \in L
    BY <1>2, <1>3, <2>1, <2>2, ModelLits
  <2>4. PICK h : h = GateClauses(x, y, z)
    OBVIOUS
  <2>5. h \in Seq(SUBSET L) /\ \A a \in Models : Hits(a, h) <=> IsAnd(a, x, y, z)
    BY <1>5, <2>3, <2>4, GateMeans
  <2>6. PICK S : S = SUBSET L
    OBVIOUS
  <2>7. g \in Seq(S) /\ h \in Seq(S)
    BY <1>7, <2>5, <2>6
  <2>8. g \o h \in Seq(S) /\ \A a : Hits(a, g \o h) <=> Hits(a, g) /\ Hits(a, h)
    BY <2>7, HitsBoth
  <2>9. RowClauses(c, n, v, prime) = g \o h
    BY <1>1, <1>6, <1>9, <2>1, <2>4 DEF RowClauses
  <2>10. \A a : RowHolds(c, n, v, prime, a) <=> IsAnd(a, p, q, r) /\ IsAnd(a, x, y, z)
    BY <1>1, <1>9, <2>1 DEF RowHolds
  <2>11. \A a \in Models : Hits(a, g \o h) <=> RowHolds(c, n, v, prime, a)
    BY <1>7, <2>5, <2>8, <2>10
  <2> QED BY <1>2, <2>6, <2>8, <2>9, <2>11
<1> QED BY <1>8, <1>9

-----------------------------------------------------------------------------
(* The clauses of the roots.                                               *)

\* The primed variable of latch i as a literal, and what ties it to its next state.
LatchLit(c, m, i) == <<Primed(c, m, FirstLatch(c) + i - 1), TRUE>>

EqualClauses(c, m, i) ==
  <<{Neg(LatchLit(c, m, i)), c.next[i]}, {Neg(c.next[i]), LatchLit(c, m, i)}>>

\* In model a, latch i gets its next state.
LatchHolds(c, m, i, a) == LatchLit(c, m, i) \in a <=> c.next[i] \in a

\* What the last clauses say in model a.
AssertionsHold(c, m, a) ==
  /\ True \in a /\ Neg(c.error) \in a
  /\ \A i \in 1..Len(c.constraints) : c.constraints[i] \in a
  /\ \A i \in 1..c.latches : LatchHolds(c, m, i, a)

\* Clause d is a unit, or only about a primed latch and its next state.
RootClause(c, m, d) ==
  \/ \E p : d = {p}
  \/ \E i \in 1..c.latches : d \in Range(EqualClauses(c, m, i))

\* All clauses of a sequence hold if those of its range do.
LEMMA HitsRange ==
  ASSUME NEW S, NEW cs \in Seq(S), NEW a
  PROVE  /\ Hits(a, cs) <=> Satisfies(a, Range(cs))
         /\ Range(cs) \subseteq S /\ Range(cs) = {cs[i] : i \in 1..Len(cs)} /\ Len(cs) \in Nat
         /\ \A i \in 1..Len(cs) : cs[i] \in S /\ cs[i] \in Range(cs)
<1>1. DOMAIN cs = 1..Len(cs) /\ Len(cs) \in Nat
  BY LenProperties
<1>2. \A i \in 1..Len(cs) : cs[i] \in S
  BY ElementOfSeq
<1>3. Range(cs) = {cs[i] : i \in 1..Len(cs)}
  BY <1>1 DEF Range
<1>4. Hits(a, cs) <=> \A i \in 1..Len(cs) : a \cap cs[i] # {}
  BY DEF Hits
<1>5. Satisfies(a, Range(cs)) <=> \A d \in Range(cs) : a \cap d # {}
  BY DEF Satisfies
<1> QED BY <1>1, <1>2, <1>3, <1>4, <1>5

\* The two clauses of a latch.
LEMMA EqualClausesAre ==
  ASSUME NEW c, CircuitOK(c), NEW m, ModelOK(c, m), NEW i \in 1..c.latches,
         HasPrime(c, m, FirstLatch(c) + i - 1)
  PROVE  /\ EqualClauses(c, m, i) \in Seq(SUBSET LitsOf(0..(m.size - 1)))
         /\ \A a \in Models : Hits(a, EqualClauses(c, m, i)) <=> LatchHolds(c, m, i, a)
         /\ \A d \in Range(EqualClauses(c, m, i)) :
              VarsOf(d) = {Primed(c, m, FirstLatch(c) + i - 1), c.next[i][1]}
<1>1. PICK L : L = LitsOf(0..(m.size - 1))
  OBVIOUS
<1>2. PICK v : v = FirstLatch(c) + i - 1
  OBVIOUS
<1>3. PICK p : p = <<v, TRUE>>
  OBVIOUS
<1>4. v \in 0..(FirstPrime(c) - 1)
  <2>1. PICK I, l, n, F, G, P :
          /\ I \in Nat /\ l \in Nat /\ n \in Nat
          /\ I = c.inputs /\ l = c.latches /\ n = Len(c.gates)
          /\ F = FirstLatch(c) /\ G = FirstGate(c) /\ P = FirstPrime(c)
    BY CircuitSizes
  <2>2. F = 1 + I /\ G = F + l /\ P = G + n /\ I \in Nat /\ l \in Nat /\ n \in Nat
    BY <2>1, CircuitSizes
  <2>3. i \in 1..l /\ v = F + i - 1
    BY <1>2, <2>1
  <2>4. v \in 0..(P - 1)
    BY <2>2, <2>3
  <2> QED BY <2>1, <2>4
<1>5. p \in CircuitLits(c) /\ p[1] = v
  BY <1>3, <1>4 DEF CircuitLits, LitsOf
<1>6. PICK x, y : x = LatchLit(c, m, i) /\ y = c.next[i]
  OBVIOUS
<1>7. PrimeLit(c, m, p) = x /\ x[1] = Primed(c, m, v)
  BY <1>2, <1>3, <1>6 DEF PrimeLit, LatchLit
<1>8. x \in L /\ x \in AllLits /\ Neg(x) \in L
  BY <1>1, <1>2, <1>5, <1>7, ModelLits
<1>9. y \in CircuitLits(c)
  BY <1>6 DEF CircuitOK
<1>10. y \in L /\ y \in AllLits /\ Neg(y) \in L
  BY <1>1, <1>9, ModelLits
<1>11. PICK g : g = EqualClauses(c, m, i)
  OBVIOUS
<1>12. g = <<{Neg(x), y}, {Neg(y), x}>>
  BY <1>6, <1>11 DEF EqualClauses
<1>13. Len(g) = 2 /\ g[1] = {Neg(x), y} /\ g[2] = {Neg(y), x} /\ 1..2 = {1, 2} /\ DOMAIN g = 1..2
  BY <1>12
<1>14. g \in Seq(SUBSET L)
  <2>1. {Neg(x), y} \in SUBSET L /\ {Neg(y), x} \in SUBSET L
    BY <1>8, <1>10
  <2> QED BY <1>12, <2>1
<1>15. ASSUME NEW a \in Models
       PROVE  Hits(a, g) <=> (x \in a <=> y \in a)
  <2>1. (Neg(x) \in a <=> x \notin a) /\ (Neg(y) \in a <=> y \notin a)
    BY <1>8, <1>10, ModelsAre
  <2>2. a \cap g[1] # {} <=> (x \in a => y \in a)
    BY <1>13, <2>1
  <2>3. a \cap g[2] # {} <=> (y \in a => x \in a)
    BY <1>13, <2>1
  <2> QED BY <1>13, <2>2, <2>3 DEF Hits
<1>16. \A d \in Range(g) : VarsOf(d) = {x[1], y[1]}
  <2>1. Range(g) = {{Neg(x), y}, {Neg(y), x}}
    BY <1>13 DEF Range
  <2>2. Neg(x)[1] = x[1] /\ Neg(y)[1] = y[1]
    BY <1>8, <1>10, Literals
  <2>3. VarsOf({Neg(x), y}) = {x[1], y[1]} /\ VarsOf({Neg(y), x}) = {x[1], y[1]}
    BY <2>2 DEF VarsOf
  <2> QED BY <2>1, <2>3
<1>17. \A a : LatchHolds(c, m, i, a) <=> (x \in a <=> y \in a)
  BY <1>6 DEF LatchHolds
<1>18. \A a \in Models : Hits(a, EqualClauses(c, m, i)) <=> LatchHolds(c, m, i, a)
  BY <1>11, <1>15, <1>17
<1> QED BY <1>1, <1>2, <1>6, <1>7, <1>11, <1>14, <1>16, <1>18

\* The clauses of all latches, one after the other.
LEMMA EqualitiesAre ==
  ASSUME NEW c, CircuitOK(c), NEW m, ModelOK(c, m),
         \A i \in 1..c.latches : HasPrime(c, m, FirstLatch(c) + i - 1)
  PROVE  LET cs == FlattenSeq([i \in DOMAIN c.next |-> EqualClauses(c, m, i)])
         IN  /\ cs \in Seq(SUBSET LitsOf(0..(m.size - 1)))
             /\ \A a \in Models : Hits(a, cs) <=> \A i \in 1..c.latches : LatchHolds(c, m, i, a)
             /\ \A d \in Range(cs) : \E i \in 1..c.latches : d \in Range(EqualClauses(c, m, i))
<1>1. PICK S : S = SUBSET LitsOf(0..(m.size - 1))
  OBVIOUS
<1>2. PICK seqs : seqs = [i \in 1..c.latches |-> EqualClauses(c, m, i)]
  OBVIOUS
<1>3. c.latches \in Nat /\ DOMAIN c.next = 1..c.latches
  BY DEF CircuitOK
<1>4. \A i \in 1..c.latches : seqs[i] \in Seq(S) /\ seqs[i] = EqualClauses(c, m, i)
  BY <1>1, <1>2, EqualClausesAre
<1>5. seqs \in Seq(Seq(S)) /\ Len(seqs) = c.latches
  <2>1. PICK T : T = Seq(S)
    OBVIOUS
  <2>2. seqs \in [1..c.latches -> T]
    BY <1>2, <1>4, <2>1
  <2>3. seqs \in Seq(T)
    BY <1>3, <2>2, SeqDef
  <2> QED BY <1>3, <2>1, <2>2, <2>3, LenProperties
<1>6. PICK cs : cs = FlattenSeq(seqs)
  OBVIOUS
<1>7. cs \in Seq(S) /\ Range(cs) = UNION {Range(seqs[i]) : i \in 1..c.latches}
  BY <1>5, <1>6, FlattenIs
<1>8. ASSUME NEW a \in Models
      PROVE  Hits(a, cs) <=> \A i \in 1..c.latches : LatchHolds(c, m, i, a)
  <2>1. Hits(a, cs) <=> \A d \in Range(cs) : a \cap d # {}
    <3>1. Hits(a, cs) <=> Satisfies(a, Range(cs))
      BY <1>7, HitsRange
    <3> QED BY <3>1 DEF Satisfies
  <2>2. ASSUME NEW i \in 1..c.latches
        PROVE  (\A d \in Range(seqs[i]) : a \cap d # {}) <=> LatchHolds(c, m, i, a)
    <3>1. Hits(a, seqs[i]) <=> LatchHolds(c, m, i, a)
      <4>1. HasPrime(c, m, FirstLatch(c) + i - 1)
        OBVIOUS
      <4>2. \A b \in Models : Hits(b, EqualClauses(c, m, i)) <=> LatchHolds(c, m, i, b)
        BY <4>1, EqualClausesAre
      <4> QED BY <1>4, <4>2
    <3>2. Hits(a, seqs[i]) <=> \A d \in Range(seqs[i]) : a \cap d # {}
      <4>1. Hits(a, seqs[i]) <=> Satisfies(a, Range(seqs[i]))
        BY <1>4, HitsRange
      <4> QED BY <4>1 DEF Satisfies
    <3> QED BY <3>1, <3>2
  <2>3. (\A d \in Range(cs) : a \cap d # {}) <=> \A i \in 1..c.latches : \A d \in Range(seqs[i]) : a \cap d # {}
    BY <1>7
  <2> QED BY <2>1, <2>2, <2>3
<1>9. \A d \in Range(cs) : \E i \in 1..c.latches : d \in Range(EqualClauses(c, m, i))
  BY <1>4, <1>7
<1>10. FlattenSeq([i \in DOMAIN c.next |-> EqualClauses(c, m, i)]) = cs
  BY <1>2, <1>3, <1>6
<1> QED BY <1>1, <1>7, <1>8, <1>9, <1>10

\* The roots and what ties the latches to their next states.
LEMMA AssertionsAre ==
  ASSUME NEW c, CircuitOK(c), NEW m, ModelOK(c, m),
         \A i \in 1..c.latches : HasPrime(c, m, FirstLatch(c) + i - 1)
  PROVE  /\ Assertions(c, m) \in Seq(SUBSET LitsOf(0..(m.size - 1)))
         /\ \A a \in Models : Hits(a, Assertions(c, m)) <=> AssertionsHold(c, m, a)
         /\ \A d \in Range(Assertions(c, m)) : RootClause(c, m, d)
<1>1. PICK L : L = LitsOf(0..(m.size - 1))
  OBVIOUS
<1>2. PICK x, y, z : /\ x = <<{True}, {Neg(c.error)}>>
                     /\ y = [i \in DOMAIN c.constraints |-> {c.constraints[i]}]
                     /\ z = FlattenSeq([i \in DOMAIN c.next |-> EqualClauses(c, m, i)])
  OBVIOUS
<1>3. Assertions(c, m) = (x \o y) \o z
  BY <1>2 DEF Assertions, EqualClauses, LatchLit
<1>4. /\ z \in Seq(SUBSET L)
      /\ \A a \in Models : Hits(a, z) <=> \A i \in 1..c.latches : LatchHolds(c, m, i, a)
      /\ \A d \in Range(z) : \E i \in 1..c.latches : d \in Range(EqualClauses(c, m, i))
  BY <1>1, <1>2, EqualitiesAre
<1>5. True \in L /\ Neg(c.error) \in L
  <2>1. 0 \in 0..(FirstPrime(c) - 1)
    BY CircuitSizes
  <2>2. True \in CircuitLits(c)
    BY <2>1 DEF CircuitLits, LitsOf, True
  <2>3. c.error \in CircuitLits(c)
    BY DEF CircuitOK
  <2> QED BY <1>1, <2>2, <2>3, ModelLits
<1>6. /\ x \in Seq(SUBSET L) /\ \A a : Hits(a, x) <=> True \in a /\ Neg(c.error) \in a
      /\ \A d \in Range(x) : \E p : d = {p}
  <2>1. PICK e : e = Neg(c.error)
    OBVIOUS
  <2>2. {True} \in SUBSET L /\ {e} \in SUBSET L
    BY <1>5, <2>1
  <2>3. x \in Seq(SUBSET L) /\ Len(x) = 2 /\ x[1] = {True} /\ x[2] = {e} /\ 1..2 = {1, 2} /\ DOMAIN x = 1..2
    BY <1>2, <2>1, <2>2
  <2>4. \A a : Hits(a, x) <=> True \in a /\ e \in a
    BY <2>3 DEF Hits
  <2>5. \A d \in Range(x) : d = {True} \/ d = {e}
    BY <2>3 DEF Range
  <2> QED BY <2>1, <2>3, <2>4, <2>5
<1>7. /\ y \in Seq(SUBSET L) /\ \A a : Hits(a, y) <=> \A i \in 1..Len(c.constraints) : c.constraints[i] \in a
      /\ \A d \in Range(y) : \E p : d = {p}
  <2>1. PICK ks : ks = c.constraints
    OBVIOUS
  <2>2. ks \in Seq(CircuitLits(c))
    BY <2>1 DEF CircuitOK
  <2>3. DOMAIN ks = 1..Len(ks) /\ Len(ks) \in Nat /\ \A i \in 1..Len(ks) : ks[i] \in CircuitLits(c)
    BY <2>2, LenProperties, ElementOfSeq
  <2>4. \A i \in 1..Len(ks) : ks[i] \in L
    BY <1>1, <2>3, ModelLits
  <2>5. y = [i \in 1..Len(ks) |-> {ks[i]}]
    BY <1>2, <2>1, <2>3
  <2>6. y \in [1..Len(ks) -> SUBSET L]
    BY <2>4, <2>5
  <2>7. y \in Seq(SUBSET L)
    BY <2>3, <2>6, SeqDef
  <2>8. Len(y) = Len(ks)
    BY <2>3, <2>6, <2>7, LenProperties
  <2>9. \A a : Hits(a, y) <=> \A i \in 1..Len(ks) : a \cap {ks[i]} # {}
    BY <2>5, <2>8 DEF Hits
  <2>10. \A d \in Range(y) : \E p : d = {p}
    BY <2>5 DEF Range
  <2>11. \A a : Hits(a, y) <=> \A i \in 1..Len(ks) : ks[i] \in a
    BY <2>9
  <2> QED BY <2>1, <2>7, <2>10, <2>11
<1>8. PICK S : S = SUBSET L
  OBVIOUS
<1>9. x \in Seq(S) /\ y \in Seq(S) /\ z \in Seq(S)
  BY <1>4, <1>6, <1>7, <1>8
<1>10. PICK u : u = x \o y
  OBVIOUS
<1>11. u \in Seq(S) /\ \A a : Hits(a, u) <=> Hits(a, x) /\ Hits(a, y)
  BY <1>9, <1>10, HitsBoth
<1>12. u \o z \in Seq(S) /\ \A a : Hits(a, u \o z) <=> Hits(a, u) /\ Hits(a, z)
  BY <1>9, <1>11, HitsBoth
<1>13. Range(u) = Range(x) \cup Range(y) /\ Range(u \o z) = Range(u) \cup Range(z)
  <2>1. Range(u) = Range(x) \cup Range(y)
    BY <1>9, <1>10, RangeConcatenation
  <2>2. Range(u \o z) = Range(u) \cup Range(z)
    BY <1>9, <1>11, RangeConcatenation
  <2> QED BY <2>1, <2>2
<1>14. \A a \in Models : Hits(a, u \o z) <=> AssertionsHold(c, m, a)
  BY <1>4, <1>6, <1>7, <1>11, <1>12 DEF AssertionsHold
<1>15. \A d \in Range(u \o z) : RootClause(c, m, d)
  BY <1>4, <1>6, <1>7, <1>13 DEF RootClause
<1> QED BY <1>1, <1>3, <1>8, <1>10, <1>12, <1>14, <1>15

\* newVar() for the variables of the Model changes no meaning.
LEMMA VarsAdded ==
  ASSUME NEW s, Fine(s), NEW m, m.size \in Nat
  PROVE  LET t == AddVars(s, m)
         IN  /\ Fine(t) /\ t.vars = s.vars \cup 0..(m.size - 1)
             /\ t.frozen = s.frozen /\ t.eliminated = s.eliminated /\ t.listed = s.listed
             /\ \A a : Means(t, a) <=> Means(s, a)
<1>1. PICK new : new = (0..(m.size - 1)) \ s.vars
  OBVIOUS
<1>2. PICK t : t = AddVars(s, m)
  OBVIOUS
<1>3. t = [s EXCEPT !.vars = @ \cup new, !.heap = @ \cup new]
  BY <1>1, <1>2 DEF AddVars
<1>4. DOMAIN s = SolverFields /\ "vars" \in SolverFields /\ "heap" \in SolverFields
  BY DEF Fine, SolverFields
<1>5. /\ DOMAIN t = SolverFields /\ t.vars = s.vars \cup new /\ t.listed = s.listed /\ t.loose = s.loose
      /\ t.trail = s.trail /\ t.ok = s.ok /\ t.queue = s.queue /\ t.frozen = s.frozen /\ t.eliminated = s.eliminated
  BY <1>3, <1>4
<1>6. s.vars \cup new = s.vars \cup 0..(m.size - 1)
  BY <1>1
<1>7. new \in SUBSET Nat /\ IsFiniteSet(new)
  <2>1. IsFiniteSet(0..(m.size - 1)) /\ 0..(m.size - 1) \subseteq Nat
    BY FS_Interval
  <2>2. new \subseteq 0..(m.size - 1)
    BY <1>1
  <2> QED BY <2>1, <2>2, FS_Subset
<1>8. IsFiniteSet(t.vars) /\ t.vars \in SUBSET Nat
  <2>1. s.vars \in SUBSET Nat /\ IsFiniteSet(s.vars)
    BY DEF Fine
  <2>2. IsFiniteSet(s.vars \cup new) /\ s.vars \cup new \in SUBSET Nat
    BY <1>7, <2>1, FS_Union
  <2> QED BY <1>5, <2>2
<1>9. LitsOf(s.vars) \subseteq LitsOf(t.vars)
  BY <1>5 DEF LitsOf
<1>10. Fine(t)
  <2>1. /\ s.listed \in SUBSET SUBSET LitsOf(s.vars) /\ s.loose \in SUBSET SUBSET LitsOf(s.vars)
        /\ s.trail \in SUBSET LitsOf(s.vars) /\ s.ok \in BOOLEAN /\ s.queue \in SUBSET s.listed
    BY DEF Fine
  <2>2. /\ t.listed \in SUBSET SUBSET LitsOf(t.vars) /\ t.loose \in SUBSET SUBSET LitsOf(t.vars)
        /\ t.trail \in SUBSET LitsOf(t.vars)
    BY <1>5, <1>9, <2>1
  <2> QED BY <1>5, <1>8, <2>1, <2>2 DEF Fine
<1>11. \A a : Means(t, a) <=> Means(s, a)
  BY <1>5 DEF Means, Attached
<1> QED BY <1>2, <1>5, <1>6, <1>10, <1>11

-----------------------------------------------------------------------------
(* The inductive invariant: types and alignment.                           *)

\* main() has the circuit.
HasCircuit == pc \in {"check", "print", "done"}

\* What main() knows: it works on one of the commands, and on what the file says.
FrontInv ==
  /\ aig \in {command.file : command \in Commands}
  /\ argv \in Seq(Argument)
  /\ options \in [propertyIndex : Nat, basic : BOOLEAN, random : BOOLEAN, verbose : 0..2]
  /\ pc \in {"options", "model", "check", "print", "done", "failed", "undefined"}
  /\ verdict \in BOOLEAN
  /\ printed = IF pc # "done" THEN -1 ELSE IF verdict THEN 0 ELSE 1
  /\ HasCircuit => LookupsInRange(aig) /\ options.propertyIndex < Len(Properties(aig))
  /\ circuit = IF HasCircuit THEN Translated(aig, Properties(aig)[options.propertyIndex + 1]) ELSE NoCircuit

\* The tables of the files are typed.
LEMMA FilesAreTyped ==
  ASSUME FrontInv
  PROVE  aig \in Tables
BY FrontendAssumption DEF FrontInv

\* Before the options are parsed, main() has no circuit (main.cpp:15-43).
LEMMA FrontInit ==
  ASSUME MainInit
  PROVE  FrontInv
<1>1. PICK command \in Commands : argv = command.args /\ aig = command.file
  BY DEF MainInit
<1>2. argv \in Seq(Argument) /\ aig \in {x.file : x \in Commands}
  BY <1>1, FrontendAssumption
<1>3. DefaultOptions \in [propertyIndex : Nat, basic : BOOLEAN, random : BOOLEAN, verbose : 0..2]
  BY DEF DefaultOptions
<1>4. ~HasCircuit
  BY DEF MainInit, HasCircuit
<1> QED BY <1>2, <1>3, <1>4 DEF MainInit, FrontInv

\* An argument changes the options, which keep their types.
LEMMA OptionParsed ==
  ASSUME FrontInv, ParseArg
  PROVE  FrontInv'
<1> DEFINE O == [propertyIndex : Nat, basic : BOOLEAN, random : BOOLEAN, verbose : 0..2]
<1>1. /\ pc = "options" /\ argv # <<>> /\ argv' = Tail(argv)
      /\ pc' = pc /\ aig' = aig /\ circuit' = circuit /\ verdict' = verdict /\ printed' = printed
  BY DEF ParseArg
<1>2. argv \in Seq(Argument) /\ options \in O
  BY DEF FrontInv
<1>3. Head(argv) \in Argument /\ Tail(argv) \in Seq(Argument)
  BY <1>1, <1>2, HeadTailProperties
<1>4. PICK a \in Argument : a = Head(argv)
  BY <1>3
<1>5. a.number \in Nat
  BY <1>4 DEF Argument
<1>6. options' =
       CASE a.option = "-v" -> [options EXCEPT !.verbose = 2]
         [] a.option = "-s" -> [options EXCEPT !.verbose = IF @ > 1 THEN @ ELSE 1]
         [] a.option = "-r" -> [options EXCEPT !.random = TRUE]
         [] a.option = "-b" -> [options EXCEPT !.basic = TRUE]
         [] OTHER -> [options EXCEPT !.propertyIndex = a.number]
  BY <1>4 DEF ParseArg
<1>7. options' \in O
  <2>1. /\ [options EXCEPT !.verbose = 2] \in O
        /\ [options EXCEPT !.random = TRUE] \in O /\ [options EXCEPT !.basic = TRUE] \in O
        /\ [options EXCEPT !.propertyIndex = a.number] \in O
    <3>1. 2 \in 0..2 /\ TRUE \in BOOLEAN /\ a.number \in Nat
      BY <1>5
    <3>2. [options EXCEPT !.verbose = 2] \in O
      BY <1>2, <3>1
    <3>3. [options EXCEPT !.random = TRUE] \in O
      BY <1>2, <3>1
    <3>4. [options EXCEPT !.basic = TRUE] \in O
      BY <1>2, <3>1
    <3>5. [options EXCEPT !.propertyIndex = a.number] \in O
      BY <1>2, <3>1
    <3> QED BY <3>2, <3>3, <3>4, <3>5
  <2>2. [options EXCEPT !.verbose = IF @ > 1 THEN @ ELSE 1] \in O
    BY <1>2
  <2>3. CASE a.option = "-v"
    BY <1>6, <2>1, <2>3
  <2>4. CASE a.option = "-s"
    BY <1>6, <2>2, <2>4
  <2>5. CASE a.option = "-r"
    BY <1>6, <2>1, <2>5
  <2>6. CASE a.option = "-b"
    BY <1>6, <2>1, <2>6
  <2>7. CASE a.option \notin {"-v", "-s", "-r", "-b"}
    BY <1>6, <2>1, <2>7
  <2> QED BY <2>3, <2>4, <2>5, <2>6, <2>7
<1>8. ~HasCircuit /\ ~HasCircuit'
  BY <1>1 DEF HasCircuit
<1> QED BY <1>1, <1>3, <1>7, <1>8 DEF FrontInv

\* modelFromAiger() makes the circuit of the file, or main() stops.
LEMMA FileTranslated ==
  ASSUME FrontInv, ModelFromAiger
  PROVE  FrontInv' /\ (~HasCircuit' => circuit' = circuit)
<1>1. /\ pc = "model" /\ argv' = argv /\ options' = options /\ aig' = aig /\ verdict' = verdict /\ printed' = printed
  BY DEF ModelFromAiger
<1>2. PICK i \in Nat : i = options.propertyIndex
  BY DEF FrontInv
<1>3. aig \in Tables
  BY FilesAreTyped
<1>4. Len(Properties(aig)) \in Nat
  BY <1>3, TablesAre
<1>5. ~HasCircuit
  BY <1>1 DEF HasCircuit
<1>6. \/ pc' \in {"undefined", "failed"} /\ circuit' = circuit
      \/ /\ LookupsInRange(aig) /\ ~(i >= Len(Properties(aig)))
         /\ pc' = "check" /\ circuit' = Translated(aig, Properties(aig)[i + 1])
  BY <1>2 DEF ModelFromAiger
<1>7. CASE pc' \in {"undefined", "failed"} /\ circuit' = circuit
  BY <1>1, <1>5, <1>7 DEF FrontInv, HasCircuit
<1>8. CASE /\ LookupsInRange(aig) /\ ~(i >= Len(Properties(aig)))
           /\ pc' = "check" /\ circuit' = Translated(aig, Properties(aig)[i + 1])
  <2>1. HasCircuit'
    BY <1>8 DEF HasCircuit
  <2>2. i < Len(Properties(aig))
    BY <1>4, <1>8
  <2>3. LookupsInRange(aig)' /\ Properties(aig)' = Properties(aig)
    BY <1>1, <1>8
  <2> QED BY <1>1, <1>2, <1>8, <2>1, <2>2, <2>3 DEF FrontInv
<1> QED BY <1>6, <1>7, <1>8

\* The other steps of main() leave file, options and circuit alone.
LEMMA FrontMoves ==
  ASSUME FrontInv, ReadFile \/ Check \/ PrintVerdict \/ UNCHANGED <<circuit, mainVars>>
  PROVE  FrontInv' /\ circuit' = circuit /\ aig' = aig /\ options' = options /\ (HasCircuit' <=> HasCircuit)
<1>1. circuit' = circuit /\ aig' = aig /\ options' = options /\ argv' = argv
  BY DEF ReadFile, Check, PrintVerdict, mainVars
<1>2. CASE ReadFile
  BY <1>1, <1>2 DEF ReadFile, FrontInv, HasCircuit
<1>3. CASE Check
  BY <1>1, <1>3 DEF Check, FrontInv, HasCircuit
<1>4. CASE PrintVerdict
  BY <1>1, <1>4 DEF PrintVerdict, FrontInv, HasCircuit
<1>5. CASE UNCHANGED <<circuit, mainVars>>
  BY <1>1, <1>5 DEF mainVars, FrontInv, HasCircuit
<1> QED BY <1>2, <1>3, <1>4, <1>5

\* The circuit is well formed.
LEMMA CircuitIs ==
  ASSUME FrontInv, HasCircuit
  PROVE  /\ CircuitOK(circuit) /\ FirstPrime(circuit) = FileVars(aig)
         /\ circuit.inputs = Len(aig.inputs) /\ circuit.latches = Len(aig.latches)
         /\ circuit.init \subseteq LatchVars(circuit) \X BOOLEAN
         /\ Reencoded(aig) => GatesInOrder(circuit)
<1>1. aig \in Tables /\ LookupsInRange(aig)
  BY FilesAreTyped DEF FrontInv
<1>2. PICK i \in Nat : i = options.propertyIndex
  BY DEF FrontInv
<1>3. PICK n \in Nat : n = Len(Properties(aig))
  BY <1>1, TablesAre
<1>4. i < n
  BY <1>2, <1>3 DEF FrontInv
<1>5. i + 1 \in 1..n
  BY <1>4
<1>6. PICK k \in 1..Len(Properties(aig)) : k = i + 1
  BY <1>3, <1>5
<1>7. circuit = Translated(aig, Properties(aig)[k])
  BY <1>2, <1>6 DEF FrontInv
<1> QED BY <1>1, <1>6, <1>7, TranslatedOK

-----------------------------------------------------------------------------
\* The phases in which there is no simplifying solver yet.
Early == {"unread", "construct", "create"}

\* The Model and the rows that are left.
ModelInv ==
  /\ phase = "unread" <=> ~HasCircuit
  /\ phase \in {"unread", "construct"} =>
       /\ model = IF phase = "unread" THEN [size |-> 0, capacity |-> 0, primedAnds |-> <<>>, stale |-> FALSE]
                  ELSE NewModel(circuit)
  /\ phase \notin {"unread", "construct"} =>
       /\ ModelOK(circuit, model)
       /\ \A v \in KeptVars(circuit) : HasPrime(circuit, model, v)
  /\ phase \in Early => row = 0 /\ require = {} /\ primedRequire = {}
  /\ phase \notin Early =>
       /\ row \in 0..Len(circuit.gates)
       /\ primedRequire \subseteq require /\ require \subseteq 0..(FirstPrime(circuit) - 1)
       /\ \A v \in primedRequire : HasPrime(circuit, model, v)

\* The simplifying solver is about the variables of the Model.
SolverInv ==
  /\ phase \in Early => solver = NewSolver({}) /\ current = {} /\ pending = {} /\ given = {}
  /\ phase \notin Early =>
       /\ SimplifierOK(solver, phase, current, pending)
       /\ solver.vars = 0..(model.size - 1)
       /\ solver.frozen = FrozenVars(circuit, model)

LoaderInv == FrontInv /\ ModelInv /\ SolverInv

\* The row that is visited, in the words of the lemmas.
LEMMA RowIs ==
  ASSUME LoaderInv, phase = "gates", row > 0
  PROVE  /\ CircuitOK(circuit) /\ ModelOK(circuit, model) /\ RowVar \in GateVars(circuit)
         /\ row \in 1..Len(circuit.gates) /\ RowVar = FirstGate(circuit) + row - 1
         /\ RowArguments = GateArgs(circuit, RowVar)
         /\ Range(LitVars(RowArguments)) = {Gate(circuit, RowVar).rhs0[1], Gate(circuit, RowVar).rhs1[1]}
<1>1. phase \notin Early /\ phase # "unread"
  BY DEF Early
<1>2. CircuitOK(circuit)
  BY <1>1, CircuitIs DEF LoaderInv, ModelInv
<1>3. PICK G \in Nat, n \in Nat : G = FirstGate(circuit) /\ n = Len(circuit.gates) /\ FirstPrime(circuit) = G + n
  BY <1>2, CircuitSizes
<1>4. row \in 1..n
  BY <1>1, <1>3 DEF LoaderInv, ModelInv
<1>5. PICK v : v = RowVar
  OBVIOUS
<1>6. v = G + row - 1
  BY <1>3, <1>5 DEF RowVar
<1>7. v \in G..((G + n) - 1) /\ v - G + 1 = row
  BY <1>3, <1>4, <1>6
<1>8. v \in GateVars(circuit)
  BY <1>3, <1>7 DEF GateVars
<1>9. Gate(circuit, v) = circuit.gates[row]
  BY <1>3, <1>7 DEF Gate
<1>10. RowArguments = GateArgs(circuit, v)
  BY <1>9 DEF RowArguments, GateArgs
<1>11. Range(LitVars(RowArguments)) = {Gate(circuit, v).rhs0[1], Gate(circuit, v).rhs1[1]}
  <2>1. PICK q, r : q = Gate(circuit, v).rhs0 /\ r = Gate(circuit, v).rhs1
    OBVIOUS
  <2>2. RowArguments = <<q, r>>
    BY <1>10, <2>1 DEF GateArgs
  <2>3. DOMAIN <<q, r>> = {1, 2} /\ <<q, r>>[1] = q /\ <<q, r>>[2] = r
    <3>1. DOMAIN <<q, r>> = 1..2 /\ 1..2 = {1, 2}
      OBVIOUS
    <3> QED BY <3>1
  <2>4. PICK ls : ls = <<q, r>>
    OBVIOUS
  <2>5. Range(LitVars(ls)) = {q[1], r[1]}
    BY <2>3, <2>4 DEF LitVars, Range
  <2> QED BY <2>1, <2>2, <2>4, <2>5
<1>12. ModelOK(circuit, model)
  <2>1. phase \notin {"unread", "construct"}
    OBVIOUS
  <2> QED BY <2>1 DEF LoaderInv, ModelInv
<1> QED BY <1>2, <1>3, <1>4, <1>5, <1>6, <1>8, <1>10, <1>11, <1>12

\* A row that is added, in the words of the lemmas.
LEMMA RowAdded ==
  ASSUME LoaderInv, AddRow
  PROVE  /\ phase = "gates" /\ row > 0 /\ row' = row - 1 /\ RowVar \in require
         /\ model' = RowModel(circuit, model, RowVar, RowVar \in primedRequire)
         /\ solver' = AddLooseAll(AddVars(solver, model'), RowClauses(circuit, model', RowVar, RowVar \in primedRequire))
         /\ given' = given \cup Range(RowClauses(circuit, model', RowVar, RowVar \in primedRequire))
         /\ require' = require \cup {Gate(circuit, RowVar).rhs0[1], Gate(circuit, RowVar).rhs1[1]}
         /\ primedRequire' = IF RowVar \in primedRequire
                             THEN primedRequire \cup {Gate(circuit, RowVar).rhs0[1], Gate(circuit, RowVar).rhs1[1]}
                             ELSE primedRequire
         /\ phase' = phase /\ current' = current /\ pending' = pending /\ circuit' = circuit /\ loaded' = loaded
<1>1. phase = "gates" /\ row > 0 /\ RowVar \in require
  BY DEF AddRow
<1>2. /\ RowArguments = GateArgs(circuit, RowVar)
      /\ Range(LitVars(RowArguments)) = {Gate(circuit, RowVar).rhs0[1], Gate(circuit, RowVar).rhs1[1]}
  BY <1>1, RowIs
<1>3. PICK v, args, prime : v = RowVar /\ args = RowArguments /\ prime = (v \in primedRequire)
  OBVIOUS
<1>4. args = <<Gate(circuit, v).rhs0, Gate(circuit, v).rhs1>>
  BY <1>2, <1>3 DEF GateArgs
<1>5. args[1] = Gate(circuit, v).rhs0 /\ args[2] = Gate(circuit, v).rhs1
  BY <1>4
<1>6. model' = IF v \in primedRequire THEN PrimeVars(circuit, model, LitVars(<<<<v, TRUE>>>> \o args)) ELSE model
  BY <1>3 DEF AddRow
<1>7. model' = RowModel(circuit, model, v, prime)
  BY <1>2, <1>3, <1>6 DEF RowModel
<1>8. PICK cs : cs = IF v \in primedRequire
                     THEN GateClauses(<<v, TRUE>>, args[1], args[2])
                            \o GateClauses(PrimeLit(circuit, model', <<v, TRUE>>), PrimeLit(circuit, model', args[1]),
                                           PrimeLit(circuit, model', args[2]))
                     ELSE GateClauses(<<v, TRUE>>, args[1], args[2])
  OBVIOUS
<1>9. cs = RowClauses(circuit, model', v, prime)
  BY <1>3, <1>5, <1>8 DEF RowClauses
<1>10. solver' = AddLooseAll(AddVars(solver, model'), cs) /\ given' = given \cup Range(cs)
  BY <1>3, <1>8 DEF AddRow, NewVars
<1>11. /\ require' = require \cup Range(LitVars(args))
       /\ primedRequire' = IF v \in primedRequire THEN primedRequire \cup Range(LitVars(args)) ELSE primedRequire
       /\ row' = row - 1
       /\ phase' = phase /\ current' = current /\ pending' = pending /\ circuit' = circuit /\ loaded' = loaded
  BY <1>3 DEF AddRow
<1> QED BY <1>1, <1>2, <1>3, <1>7, <1>9, <1>10, <1>11

\* The variables that stay are the same once all of them have primed forms.
LEMMA FrozenStays ==
  ASSUME NEW c, CircuitOK(c), NEW m, ModelOK(c, m), NEW n, ModelOK(c, n), Extends(m, n),
         \A v \in KeptVars(c) : HasPrime(c, m, v)
  PROVE  FrozenVars(c, n) = FrozenVars(c, m) /\ \A v \in KeptVars(c) : HasPrime(c, n, v)
<1>1. KeptVars(c) \subseteq 0..(FirstPrime(c) - 1)
  BY KeptAre
<1>2. \A v \in KeptVars(c) : HasPrime(c, n, v) /\ Primed(c, n, v) = Primed(c, m, v)
  BY <1>1, PrimedStays
<1>3. {Primed(c, n, v) : v \in KeptVars(c)} = {Primed(c, m, v) : v \in KeptVars(c)}
  BY <1>2
<1>4. FrozenVars(c, n) = KeptVars(c) \cup {Primed(c, n, v) : v \in KeptVars(c)}
  BY KeptAre
<1>5. FrozenVars(c, m) = KeptVars(c) \cup {Primed(c, m, v) : v \in KeptVars(c)}
  BY KeptAre
<1> QED BY <1>2, <1>3, <1>4, <1>5

\* A step of the loader leaves main() alone.
LEMMA FrontStays ==
  ASSUME LoaderInv, circuit' = circuit, UNCHANGED mainVars
  PROVE  FrontInv' /\ (HasCircuit' <=> HasCircuit) /\ aig' = aig
BY FrontMoves DEF LoaderInv

\* There is a circuit when the loader works.
LEMMA LoaderHasCircuit ==
  ASSUME LoaderInv, phase # "unread"
  PROVE  HasCircuit /\ CircuitOK(circuit)
BY CircuitIs DEF LoaderInv, ModelInv

\* The constructor primes inputs, latches, error and constraints (Model.h:118-134).
LEMMA ConstructMoves ==
  ASSUME LoaderInv, Construct, UNCHANGED mainVars
  PROVE  LoaderInv'
<1>1. /\ phase = "construct" /\ phase' = "create" /\ circuit' = circuit /\ row' = row /\ require' = require
      /\ primedRequire' = primedRequire /\ solver' = solver /\ current' = current /\ pending' = pending /\ given' = given
      /\ model' = PrimeVars(circuit, PushVars(model, circuit.inputs + circuit.latches),
                            LitVars(<<circuit.error>> \o circuit.constraints))
  BY DEF Construct
<1>2. FrontInv' /\ (HasCircuit' <=> HasCircuit)
  BY <1>1, FrontStays
<1>3. HasCircuit /\ CircuitOK(circuit)
  BY <1>1, LoaderHasCircuit
<1>4. model = NewModel(circuit)
  BY <1>1 DEF LoaderInv, ModelInv
<1>5. ModelOK(circuit, model') /\ \A v \in KeptVars(circuit) : HasPrime(circuit, model', v)
  BY <1>1, <1>3, <1>4, Constructed
<1>6. ModelInv'
  BY <1>1, <1>2, <1>3, <1>5 DEF LoaderInv, ModelInv, Early
<1>7. SolverInv'
  BY <1>1 DEF LoaderInv, SolverInv, Early
<1> QED BY <1>2, <1>6, <1>7 DEF LoaderInv

\* A new solver has no clause and no meaning.
LEMMA FreshSolver ==
  ASSUME NEW m, m.size \in Nat
  PROVE  LET s == AddVars(NewSolver({}), m)
         IN  /\ Fine(s) /\ s.vars = 0..(m.size - 1) /\ s.listed = {} /\ s.loose = {} /\ s.trail = {}
             /\ s.eliminated = {} /\ s.ok = TRUE /\ s.queue = {}
<1>1. PICK s : s = NewSolver({})
  OBVIOUS
<1>2. /\ DOMAIN s = SolverFields /\ s.vars = {} /\ s.listed = {} /\ s.loose = {} /\ s.trail = {} /\ s.ok = TRUE
      /\ s.queue = {} /\ s.frozen = {} /\ s.eliminated = {}
  BY <1>1 DEF NewSolver, SolverFields
<1>3. Fine(s)
  BY <1>2, FS_EmptySet DEF Fine
<1>4. PICK t : t = AddVars(s, m)
  OBVIOUS
<1>5. Fine(t) /\ t.vars = 0..(m.size - 1)
  <2>1. Fine(t) /\ t.vars = s.vars \cup 0..(m.size - 1)
    BY <1>3, <1>4, VarsAdded
  <2> QED BY <1>2, <2>1
<1>6. t.listed = {} /\ t.loose = {} /\ t.trail = {} /\ t.eliminated = {} /\ t.ok = TRUE /\ t.queue = {}
  BY <1>2, <1>4 DEF AddVars, SolverFields
<1> QED BY <1>1, <1>4, <1>5, <1>6

\* A fresh SimpSolver has a variable for each of the Model's, and no clause yet.
LEMMA CreateSolverMoves ==
  ASSUME LoaderInv, CreateSolver, UNCHANGED mainVars
  PROVE  /\ LoaderInv' /\ phase' = "gates"
         /\ solver'.listed = {} /\ solver'.loose = {} /\ solver'.trail = {} /\ solver'.ok = TRUE
<1>1. /\ phase = "create" /\ phase' = "gates" /\ circuit' = circuit /\ model' = model
      /\ current' = current /\ pending' = pending /\ given' = given
      /\ row' = Len(circuit.gates)
      /\ solver' = [AddVars(NewSolver({}), model) EXCEPT !.frozen = FrozenVars(circuit, model)]
      /\ primedRequire' = PrimedRoots(circuit)
      /\ require' = PrimedRoots(circuit) \cup Range(LitVars(circuit.next \o circuit.constraints))
  BY DEF CreateSolver
<1>2. FrontInv' /\ (HasCircuit' <=> HasCircuit)
  BY <1>1, FrontStays
<1>3. HasCircuit /\ CircuitOK(circuit)
  BY <1>1, LoaderHasCircuit
<1>4. /\ ModelOK(circuit, model) /\ \A v \in KeptVars(circuit) : HasPrime(circuit, model, v)
      /\ current = {} /\ pending = {}
  BY <1>1 DEF LoaderInv, ModelInv, SolverInv, Early
<1>5. PICK s : s = AddVars(NewSolver({}), model)
  OBVIOUS
<1>6. /\ Fine(s) /\ s.vars = 0..(model.size - 1) /\ s.listed = {} /\ s.loose = {} /\ s.trail = {}
      /\ s.eliminated = {} /\ s.ok = TRUE /\ s.queue = {}
  <2>1. model.size \in Nat
    BY <1>4 DEF ModelOK
  <2> QED BY <1>5, <2>1, FreshSolver
<1>7. PICK t : t = [s EXCEPT !.frozen = FrozenVars(circuit, model)]
  OBVIOUS
<1>8. DOMAIN s = SolverFields
  BY <1>6 DEF Fine
<1>9. /\ DOMAIN t = SolverFields /\ t.frozen = FrozenVars(circuit, model) /\ t.vars = s.vars
      /\ t.listed = {} /\ t.loose = {} /\ t.trail = {} /\ t.eliminated = {} /\ t.ok = TRUE /\ t.queue = {}
  BY <1>6, <1>7, <1>8 DEF SolverFields
<1>10. Fine(t)
  BY <1>6, <1>9 DEF Fine
<1>11. SimplifierOK(t, "gates", {}, {})
  BY <1>9, <1>10 DEF SimplifierOK
<1>12. solver' = t
  BY <1>1, <1>5, <1>7
<1>13. SolverInv'
  BY <1>1, <1>4, <1>6, <1>9, <1>11, <1>12 DEF SolverInv, Early
<1>14. PICK k \in Nat : k = Len(circuit.gates)
  BY <1>3, CircuitSizes
<1>15. row' \in 0..Len(circuit.gates)
  BY <1>1, <1>14
<1>16. PrimedRoots(circuit) \subseteq KeptVars(circuit)
  BY DEF KeptVars
<1>17. /\ PrimedRoots(circuit) \subseteq 0..(FirstPrime(circuit) - 1)
       /\ Range(LitVars(circuit.next \o circuit.constraints)) \subseteq 0..(FirstPrime(circuit) - 1)
  BY <1>3, RootsAre
<1>18. ModelInv'
  <2>1. phase' \notin Early /\ phase' \notin {"unread", "construct"}
    BY <1>1 DEF Early
  <2>2. ModelOK(circuit', model') /\ \A v \in KeptVars(circuit') : HasPrime(circuit', model', v)
    BY <1>1, <1>4
  <2>3. /\ row' \in 0..Len(circuit'.gates)
        /\ primedRequire' \subseteq require' /\ require' \subseteq 0..(FirstPrime(circuit') - 1)
        /\ \A v \in primedRequire' : HasPrime(circuit', model', v)
    BY <1>1, <1>4, <1>15, <1>16, <1>17
  <2> QED BY <1>2, <1>3, <2>1, <2>2, <2>3 DEF ModelInv
<1> QED BY <1>1, <1>2, <1>9, <1>12, <1>13, <1>18 DEF LoaderInv

\* A row that nothing requires is passed over.
LEMMA SkipRowMoves ==
  ASSUME LoaderInv, SkipRow, UNCHANGED mainVars
  PROVE  LoaderInv'
<1>1. /\ phase = "gates" /\ phase' = phase /\ row > 0 /\ row' = row - 1
      /\ circuit' = circuit /\ model' = model /\ require' = require /\ primedRequire' = primedRequire
      /\ solver' = solver /\ current' = current /\ pending' = pending /\ given' = given
  BY DEF SkipRow, simpVars
<1>2. FrontInv' /\ (HasCircuit' <=> HasCircuit)
  BY <1>1, FrontStays
<1>3. row' \in 0..Len(circuit.gates)
  <2>1. row \in 1..Len(circuit.gates) /\ CircuitOK(circuit)
    BY <1>1, RowIs
  <2>2. PICK n \in Nat : n = Len(circuit.gates)
    BY <2>1, CircuitSizes
  <2> QED BY <1>1, <2>1, <2>2
<1>4. phase \notin Early /\ phase \notin {"unread", "construct"}
  BY <1>1 DEF Early
<1>5. ModelInv'
  BY <1>1, <1>2, <1>3, <1>4 DEF LoaderInv, ModelInv
<1>6. SolverInv'
  BY <1>1 DEF LoaderInv, SolverInv
<1> QED BY <1>2, <1>5, <1>6 DEF LoaderInv

\* A row that is required adds that the gate is the conjunction of its arguments,
\* and the same of their primed forms if these are required: that and no more.
LEMMA AddRowMoves ==
  ASSUME LoaderInv, AddRow, UNCHANGED mainVars
  PROVE  /\ LoaderInv' /\ Extends(model, model') /\ ModelOK(circuit, model')
         /\ RowVar \in primedRequire => RowPrimed(circuit, model', RowVar)
         /\ solver'.listed = solver.listed
         /\ \A a \in Models : Means(solver', a) <=> Means(solver, a) /\ RowHolds(circuit, model', RowVar, RowVar \in primedRequire, a)
<1>1. PICK c, m, v, prime : c = circuit /\ m = model /\ v = RowVar /\ prime = (v \in primedRequire)
  OBVIOUS
<1>2. PICK n, cs : n = model' /\ cs = RowClauses(c, n, v, prime)
  OBVIOUS
<1>3. PICK q, r : q = Gate(c, v).rhs0 /\ r = Gate(c, v).rhs1
  OBVIOUS
<1>4. /\ phase = "gates" /\ row > 0 /\ row' = row - 1 /\ v \in require
      /\ n = RowModel(c, m, v, prime) /\ solver' = AddLooseAll(AddVars(solver, n), cs)
      /\ require' = require \cup {q[1], r[1]}
      /\ primedRequire' = IF prime THEN primedRequire \cup {q[1], r[1]} ELSE primedRequire
      /\ phase' = phase /\ current' = current /\ pending' = pending /\ circuit' = circuit
  BY <1>1, <1>2, <1>3, RowAdded
<1>5. CircuitOK(c) /\ ModelOK(c, m) /\ v \in GateVars(c) /\ row \in 1..Len(c.gates)
  BY <1>1, <1>4, RowIs
<1>6. prime \in BOOLEAN
  BY <1>1
<1>7. ModelOK(c, n) /\ Extends(m, n) /\ (prime => RowPrimed(c, n, v))
  BY <1>4, <1>5, <1>6, RowModelIs
<1>8. FrontInv' /\ (HasCircuit' <=> HasCircuit)
  BY <1>1, <1>4, FrontStays
<1>9. phase \notin Early /\ phase \notin {"unread", "construct"}
  BY <1>4 DEF Early
<1>10. /\ \A w \in KeptVars(c) : HasPrime(c, m, w)
       /\ primedRequire \subseteq require /\ require \subseteq 0..(FirstPrime(c) - 1)
       /\ \A w \in primedRequire : HasPrime(c, m, w)
       /\ SimplifierOK(solver, "gates", current, pending)
       /\ solver.vars = 0..(m.size - 1) /\ solver.frozen = FrozenVars(c, m)
  BY <1>1, <1>4, <1>9 DEF LoaderInv, ModelInv, SolverInv
<1>11. FrozenVars(c, n) = FrozenVars(c, m) /\ \A w \in KeptVars(c) : HasPrime(c, n, w)
  BY <1>5, <1>7, <1>10, FrozenStays
<1>12. \A w : HasPrime(c, m, w) => HasPrime(c, n, w)
  <2>1. Extends(m, m)
    <3>1. m.primedAnds \in Seq(GateVars(c))
      BY <1>5 DEF ModelOK
    <3> QED BY <3>1, LenProperties DEF Extends
  <2> QED BY <1>5, <1>7, <2>1, ExtendsMore
<1>13. m.size \in Nat /\ n.size \in Nat /\ m.size <= n.size
  <2>1. PICK F \in Nat, P \in Nat, k \in Nat, l \in Nat :
          F = FirstPrime(c) /\ P = Primes(c) /\ k = Len(m.primedAnds) /\ l = Len(n.primedAnds)
    <3>1. m.primedAnds \in Seq(GateVars(c)) /\ n.primedAnds \in Seq(GateVars(c))
      BY <1>5, <1>7 DEF ModelOK
    <3>2. Len(m.primedAnds) \in Nat /\ Len(n.primedAnds) \in Nat
      BY <3>1, LenProperties
    <3> QED BY <1>5, <3>2, Places
  <2>2. m.size = F + P + k /\ n.size = F + P + l
    BY <1>5, <1>7, <2>1 DEF ModelOK
  <2>3. k <= l
    BY <1>7, <2>1 DEF Extends
  <2>4. F \in Nat /\ P \in Nat /\ k \in Nat /\ l \in Nat
    BY <2>1
  <2>5. F + P + k \in Nat /\ F + P + l \in Nat /\ F + P + k <= F + P + l
    BY <2>3, <2>4
  <2> QED BY <2>2, <2>5
<1>14. PICK s : s = AddVars(solver, n)
  OBVIOUS
<1>15. Fine(solver)
  BY <1>10 DEF SimplifierOK
<1>16. /\ Fine(s) /\ s.vars = solver.vars \cup 0..(n.size - 1) /\ s.frozen = solver.frozen
       /\ s.eliminated = solver.eliminated /\ s.listed = solver.listed
       /\ \A a : Means(s, a) <=> Means(solver, a)
  BY <1>13, <1>14, <1>15, VarsAdded
<1>17. s.vars = 0..(n.size - 1)
  <2>1. 0..(m.size - 1) \subseteq 0..(n.size - 1)
    BY <1>13
  <2> QED BY <1>10, <1>16, <2>1
<1>18. /\ cs \in Seq(SUBSET LitsOf(s.vars))
       /\ \A a \in Models : Hits(a, cs) <=> RowHolds(c, n, v, prime, a)
  BY <1>2, <1>5, <1>6, <1>7, <1>17, RowClausesAre
<1>20. /\ Fine(solver') /\ SameVars(s, solver') /\ solver'.listed = s.listed
       /\ \A a \in Models : Means(solver', a) <=> Means(s, a) /\ Hits(a, cs)
  <2>1. PICK t : t = AddLooseAll(s, cs)
    OBVIOUS
  <2>2. /\ Fine(t) /\ SameVars(s, t) /\ t.listed = s.listed
        /\ \A a \in Models : Means(t, a) <=> Means(s, a) /\ Hits(a, cs)
    BY <1>16, <1>18, <2>1, AllLooseAdded
  <2>3. solver' = t
    BY <1>4, <1>14, <2>1
  <2> QED BY <2>2, <2>3
<1>21. /\ solver'.vars = 0..(n.size - 1) /\ solver'.frozen = FrozenVars(c, n) /\ solver'.listed = solver.listed
       /\ solver'.eliminated = solver.eliminated
  BY <1>10, <1>11, <1>16, <1>17, <1>20 DEF SameVars
<1>22. \A a \in Models : Means(solver', a) <=> Means(solver, a) /\ RowHolds(c, n, v, prime, a)
  BY <1>16, <1>18, <1>20
<1>23. SimplifierOK(solver', "gates", current, pending)
  <2>1. LitsOf(solver.vars) \subseteq LitsOf(solver'.vars)
    BY <1>16, <1>17, <1>21 DEF LitsOf
  <2>2. PICK t, u, f, e : t = solver' /\ u = solver /\ f = u.frozen /\ e = u.eliminated
    OBVIOUS
  <2>3. /\ f \cap e = {} /\ (\A d \in u.listed : ~Tautology(d)) /\ pending \in SUBSET SUBSET LitsOf(u.vars)
        /\ current = {}
    BY <1>10, <2>2 DEF SimplifierOK
  <2>4. t.frozen = f /\ t.eliminated = e /\ t.listed = u.listed /\ Fine(t)
    BY <1>10, <1>11, <1>20, <1>21, <2>2
  <2>5. pending \in SUBSET SUBSET LitsOf(t.vars)
    BY <2>1, <2>2, <2>3
  <2>6. SimplifierOK(t, "gates", current, pending)
    BY <2>3, <2>4, <2>5 DEF SimplifierOK
  <2> QED BY <2>2, <2>6
<1>24. SolverInv'
  BY <1>1, <1>2, <1>4, <1>9, <1>21, <1>23 DEF SolverInv
<1>25. q[1] \in 0..(FirstPrime(c) - 1) /\ r[1] \in 0..(FirstPrime(c) - 1)
  <2>1. q \in CircuitLits(c) /\ r \in CircuitLits(c)
    BY <1>3, <1>5, RowLits
  <2> QED BY <2>1, CircuitLitIs
<1>26. /\ primedRequire' \subseteq require' /\ require' \subseteq 0..(FirstPrime(c) - 1)
       /\ \A w \in primedRequire' : HasPrime(c, n, w)
  <2>1. CASE prime
    <3>1. HasPrime(c, n, q[1]) /\ HasPrime(c, n, r[1])
      BY <1>3, <1>7, <2>1 DEF RowPrimed
    <3> QED BY <1>4, <1>10, <1>12, <1>25, <2>1, <3>1
  <2>2. CASE ~prime
    BY <1>4, <1>10, <1>12, <1>25, <2>2
  <2> QED BY <2>1, <2>2
<1>27. row' \in 0..Len(c.gates)
  <2>1. PICK k \in Nat : k = Len(c.gates)
    BY <1>5, CircuitSizes
  <2> QED BY <1>4, <1>5, <2>1
<1>28. phase = "unread" <=> ~HasCircuit
  BY DEF LoaderInv, ModelInv
<1>29. ModelInv'
  BY <1>1, <1>2, <1>4, <1>7, <1>8, <1>9, <1>11, <1>26, <1>27, <1>28 DEF ModelInv
<1> QED BY <1>1, <1>2, <1>7, <1>8, <1>21, <1>22, <1>24, <1>29 DEF LoaderInv

\* Then the constant, the negated error, the constraints and the next states are
\* asserted, unless the solver is contradictory by then.
LEMMA AssertRootsMoves ==
  ASSUME LoaderInv, AssertRoots, UNCHANGED mainVars
  PROVE  /\ LoaderInv'
         /\ \A d \in solver'.listed : d \in solver.listed \/ PartOf(d, Assertions(circuit, model))
         /\ \A a \in Models : Means(solver', a) <=> Means(solver, a) /\ AssertionsHold(circuit, model, a)
<1>1. /\ phase = "gates" /\ phase' = "adding" /\ circuit' = circuit /\ model' = model /\ row' = row
      /\ require' = require /\ primedRequire' = primedRequire /\ current' = current /\ pending' = pending
      /\ solver' = AddListedAll(solver, Assertions(circuit, model))
  BY DEF AssertRoots
<1>2. FrontInv' /\ (HasCircuit' <=> HasCircuit)
  BY <1>1, FrontStays
<1>3. HasCircuit /\ CircuitOK(circuit)
  BY <1>1, LoaderHasCircuit
<1>4. phase \notin Early /\ phase \notin {"unread", "construct"} /\ phase' \notin Early /\ phase' \notin {"unread", "construct"}
  BY <1>1 DEF Early
<1>5. /\ ModelOK(circuit, model) /\ \A v \in KeptVars(circuit) : HasPrime(circuit, model, v)
      /\ SimplifierOK(solver, "gates", current, pending)
      /\ solver.vars = 0..(model.size - 1) /\ solver.frozen = FrozenVars(circuit, model)
  BY <1>1, <1>4 DEF LoaderInv, ModelInv, SolverInv
<1>6. \A i \in 1..circuit.latches : HasPrime(circuit, model, FirstLatch(circuit) + i - 1)
  <2> SUFFICES ASSUME NEW i \in 1..circuit.latches PROVE FirstLatch(circuit) + i - 1 \in KeptVars(circuit)
    BY <1>5
  <2>1. PICK I \in Nat, l \in Nat : I = circuit.inputs /\ l = circuit.latches
    BY <1>3, CircuitSizes
  <2>2. PICK F \in Nat, G \in Nat : F = FirstLatch(circuit) /\ G = FirstGate(circuit)
    BY <1>3, CircuitSizes
  <2>3. F = 1 + I /\ G = F + l
    BY <1>3, <2>1, <2>2, CircuitSizes
  <2>4. F + i - 1 \in F..(G - 1)
    BY <2>1, <2>2, <2>3
  <2>5. FirstLatch(circuit) + i - 1 \in LatchVars(circuit)
    BY <1>3, <2>2, <2>4, CircuitSizes
  <2> QED BY <2>5 DEF KeptVars
<1>7. PICK c, m : c = circuit /\ m = model
  OBVIOUS
<1>8. PICK cs : cs = Assertions(c, m)
  OBVIOUS
<1>9. /\ cs \in Seq(SUBSET LitsOf(0..(m.size - 1)))
      /\ \A a \in Models : Hits(a, cs) <=> AssertionsHold(c, m, a)
  BY <1>3, <1>5, <1>6, <1>7, <1>8, AssertionsAre
<1>10. PICK s, t : s = solver /\ t = AddListedAll(s, cs)
  OBVIOUS
<1>11. Fine(s) /\ cs \in Seq(SUBSET LitsOf(s.vars))
  BY <1>5, <1>7, <1>9, <1>10 DEF SimplifierOK
<1>12. /\ Fine(t) /\ SameVars(s, t)
       /\ \A d \in t.listed : d \in s.listed \/ PartOf(d, cs)
       /\ \A a \in Models : Means(t, a) <=> Means(s, a) /\ Hits(a, cs)
  BY <1>10, <1>11, AllListedAdded
<1>13. solver' = t
  BY <1>1, <1>7, <1>8, <1>10
<1>14. SimplifierOK(t, "adding", current, pending)
  <2>1. /\ s.frozen \cap s.eliminated = {} /\ (\A d \in s.listed : ~Tautology(d))
        /\ pending \in SUBSET SUBSET LitsOf(s.vars) /\ current = {}
    BY <1>5, <1>10 DEF SimplifierOK
  <2>2. t.vars = s.vars /\ t.frozen = s.frozen /\ t.eliminated = s.eliminated
    BY <1>12 DEF SameVars
  <2>3. \A d \in t.listed : ~Tautology(d)
    BY <1>12, <2>1 DEF PartOf
  <2>4. t.frozen \cap t.eliminated = {} /\ pending \in SUBSET SUBSET LitsOf(t.vars)
    BY <2>1, <2>2
  <2> QED BY <1>12, <2>1, <2>3, <2>4 DEF SimplifierOK
<1>15. solver'.vars = 0..(model.size - 1) /\ solver'.frozen = FrozenVars(circuit, model)
  BY <1>5, <1>10, <1>12, <1>13 DEF SameVars
<1>16. SolverInv'
  BY <1>1, <1>4, <1>13, <1>14, <1>15 DEF SolverInv
<1>17. ModelInv'
  BY <1>1, <1>2, <1>4 DEF LoaderInv, ModelInv
<1> QED BY <1>2, <1>7, <1>8, <1>9, <1>10, <1>12, <1>13, <1>16, <1>17 DEF LoaderInv

\* A step of eliminate() keeps the solutions, up to variables it has resolved away.
LEMMA SimplifyMoves ==
  ASSUME LoaderInv, Eliminate, UNCHANGED mainVars
  PROVE  LoaderInv' /\ phase \notin Early /\ Keeps(solver, solver', pending, pending')
<1>1. /\ phase \in {"adding", "loop", "subsume", "elim", "resolve"}
      /\ phase' \in {"loop", "subsume", "elim", "resolve", "done"}
  <2>1. CASE StartEliminate
    BY <2>1 DEF StartEliminate
  <2>2. CASE Gather \/ FinishEliminate
    BY <2>2 DEF Gather, FinishEliminate
  <2>3. CASE TakeClause \/ RemoveSubsumed \/ ClauseChecked \/ Subsumed
    BY <2>3 DEF TakeClause, RemoveSubsumed, ClauseChecked, Subsumed
  <2>4. CASE StrengthenOther
    BY <2>4 DEF StrengthenOther
  <2>5. CASE SkipVar \/ EliminateVar \/ Resolved \/ EndElimination
    BY <2>5 DEF SkipVar, EliminateVar, Resolved, EndElimination
  <2>6. CASE AddResolvent
    BY <2>6 DEF AddResolvent
  <2> QED BY <2>1, <2>2, <2>3, <2>4, <2>5, <2>6 DEF Eliminate, Simplify
<1>2. /\ circuit' = circuit /\ model' = model /\ row' = row /\ require' = require /\ primedRequire' = primedRequire
  BY DEF Eliminate
<1>3. phase \notin Early /\ phase' \notin Early /\ phase \notin {"unread", "construct"} /\ phase' \notin {"unread", "construct"}
  BY <1>1 DEF Early
<1>4. FrontInv' /\ (HasCircuit' <=> HasCircuit)
  BY <1>2, FrontStays
<1>5. SimplifierOK(solver, phase, current, pending)
  BY <1>3 DEF LoaderInv, SolverInv
<1>6. SimplifierOK(solver', phase', current', pending') /\ Keeps(solver, solver', pending, pending')
  BY <1>5, EliminateMoves
<1>7. solver'.vars = solver.vars /\ solver'.frozen = solver.frozen
  BY <1>6 DEF Keeps
<1>8. SolverInv'
  BY <1>2, <1>3, <1>6, <1>7 DEF LoaderInv, SolverInv
<1>9. ModelInv'
  BY <1>2, <1>3, <1>4 DEF LoaderInv, ModelInv
<1> QED BY <1>3, <1>4, <1>6, <1>8, <1>9 DEF LoaderInv

\* Copying the clauses to the solver of the search changes nothing else.
LEMMA LoadMoves ==
  ASSUME LoaderInv, Load, UNCHANGED mainVars
  PROVE  LoaderInv'
<1>1. /\ phase = "done" /\ phase' = "loaded"
      /\ solver' = solver /\ current' = current /\ pending' = pending /\ given' = given /\ circuit' = circuit
      /\ model' = model /\ row' = row /\ require' = require /\ primedRequire' = primedRequire
  BY DEF Load
<1>2. FrontInv' /\ (HasCircuit' <=> HasCircuit)
  BY <1>1, FrontStays
<1>3. phase \notin Early /\ phase' \notin Early /\ phase \notin {"unread", "construct"} /\ phase' \notin {"unread", "construct"}
  BY <1>1 DEF Early
<1>4. SimplifierOK(solver, "loaded", current, pending)
  BY <1>1, <1>3 DEF LoaderInv, SolverInv, SimplifierOK
<1>5. SolverInv'
  BY <1>1, <1>3, <1>4 DEF LoaderInv, SolverInv
<1>6. ModelInv'
  BY <1>1, <1>2, <1>3 DEF LoaderInv, ModelInv
<1> QED BY <1>2, <1>5, <1>6 DEF LoaderInv

\* modelFromAiger() ends with a Model of the circuit, or main() stops.
LEMMA ReadModelMoves ==
  ASSUME LoaderInv, ReadModel
  PROVE  LoaderInv'
<1>1. /\ ModelFromAiger
      /\ IF pc' = "check" THEN model' = NewModel(circuit') /\ phase' = "construct" ELSE model' = model /\ phase' = phase
      /\ solver' = solver /\ current' = current /\ pending' = pending /\ given' = given
      /\ row' = row /\ require' = require /\ primedRequire' = primedRequire
  BY DEF ReadModel, NewVarsOf
<1>2. FrontInv' /\ (~HasCircuit' => circuit' = circuit)
  BY <1>1, FileTranslated DEF LoaderInv
<1>3. ~HasCircuit /\ (HasCircuit' <=> pc' = "check")
  BY <1>1 DEF ModelFromAiger, HasCircuit
<1>4. phase = "unread"
  BY <1>3 DEF LoaderInv, ModelInv
<1>5. SolverInv'
  <2>1. phase' \in Early
    BY <1>1, <1>4 DEF Early
  <2> QED BY <1>1, <1>4, <2>1 DEF LoaderInv, SolverInv, Early
<1>6. ModelInv'
  <2>1. /\ model = [size |-> 0, capacity |-> 0, primedAnds |-> <<>>, stale |-> FALSE]
        /\ row = 0 /\ require = {} /\ primedRequire = {}
    BY <1>4 DEF LoaderInv, ModelInv, Early
  <2>2. CASE pc' = "check"
    BY <1>1, <1>3, <2>1, <2>2 DEF ModelInv, Early
  <2>3. CASE pc' # "check"
    BY <1>1, <1>3, <1>4, <2>1, <2>3 DEF ModelInv, Early
  <2> QED BY <2>2, <2>3
<1> QED BY <1>2, <1>5, <1>6 DEF LoaderInv

\* The other steps of main(), and stuttering.
LEMMA MainMoves ==
  ASSUME LoaderInv, ParseArg \/ ReadFile \/ PrintVerdict \/ Check \/ UNCHANGED <<circuit, mainVars>>, UNCHANGED loaderVars
  PROVE  LoaderInv'
<1>1. FrontInv' /\ circuit' = circuit /\ (HasCircuit' <=> HasCircuit)
  <2>1. CASE ParseArg
    <3>1. circuit' = circuit /\ ~HasCircuit /\ ~HasCircuit'
      BY <2>1 DEF ParseArg, HasCircuit
    <3> QED BY <2>1, <3>1, OptionParsed DEF LoaderInv
  <2>2. CASE ReadFile \/ PrintVerdict \/ Check \/ UNCHANGED <<circuit, mainVars>>
    BY <2>2, FrontMoves DEF LoaderInv
  <2> QED BY <2>1, <2>2
<1>2. /\ solver' = solver /\ phase' = phase /\ current' = current /\ pending' = pending /\ given' = given
      /\ model' = model /\ row' = row /\ require' = require /\ primedRequire' = primedRequire /\ loaded' = loaded
  BY DEF loaderVars, simpVars
<1>3. ModelInv'
  BY <1>1, <1>2 DEF LoaderInv, ModelInv
<1>4. SolverInv'
  BY <1>1, <1>2 DEF LoaderInv, SolverInv
<1> QED BY <1>1, <1>3, <1>4 DEF LoaderInv

\* The invariant holds when the program is started ...
LEMMA LoaderInvInit ==
  ASSUME Init
  PROVE  LoaderInv
<1>1. FrontInv /\ ~HasCircuit
  BY FrontInit DEF Init, MainInit, HasCircuit
<1>2. /\ model = [size |-> 0, capacity |-> 0, primedAnds |-> <<>>, stale |-> FALSE]
      /\ solver = NewSolver({}) /\ phase = "unread" /\ current = {} /\ pending = {} /\ given = {}
      /\ row = 0 /\ require = {} /\ primedRequire = {}
  BY DEF Init, LoaderInit
<1>3. ModelInv
  BY <1>1, <1>2 DEF ModelInv, Early
<1>4. SolverInv
  BY <1>2 DEF SolverInv, Early
<1> QED BY <1>1, <1>3, <1>4 DEF LoaderInv

\* ... and every step of it preserves it.
LEMMA LoaderInvStep ==
  ASSUME LoaderInv, [Next]_vars
  PROVE  LoaderInv'
<1>1. CASE ReadModel
  BY <1>1, ReadModelMoves
<1>2. CASE (ParseArg \/ ReadFile \/ PrintVerdict) /\ UNCHANGED loaderVars
  BY <1>2, MainMoves
<1>3. CASE pc = "check" /\ LoaderNext /\ UNCHANGED mainVars
  BY <1>3, ConstructMoves, CreateSolverMoves, SkipRowMoves, AddRowMoves, AssertRootsMoves, SimplifyMoves, LoadMoves
     DEF LoaderNext
<1>4. CASE phase = "loaded" /\ Check /\ UNCHANGED loaderVars
  BY <1>4, MainMoves
<1>5. CASE UNCHANGED vars
  BY <1>5, MainMoves DEF vars
<1> QED BY <1>1, <1>2, <1>3, <1>4, <1>5 DEF Next

\* The main() places, options and tables are typed, and the variables of the
\* Model are those of the solver.
LEMMA LoaderInvImplies ==
  ASSUME LoaderInv
  PROVE  TypeOK /\ Aligned
<1>1. FrontInv /\ ModelInv /\ SolverInv
  BY DEF LoaderInv
<1>2. MainTypeOK
  <2>1. /\ options.propertyIndex \in Nat /\ options.verbose \in 0..2
        /\ options.basic \in BOOLEAN /\ options.random \in BOOLEAN
    BY <1>1 DEF FrontInv
  <2>2. printed \in -1..1 /\ (printed # -1 <=> pc = "done")
    BY <1>1 DEF FrontInv
  <2>3. circuit.init \subseteq LatchVars(circuit) \X BOOLEAN
    <3>1. CASE HasCircuit
      BY <1>1, <3>1, CircuitIs
    <3>2. CASE ~HasCircuit
      BY <1>1, <3>2 DEF FrontInv, NoCircuit
    <3> QED BY <3>1, <3>2
  <2> QED BY <1>1, <2>1, <2>2, <2>3 DEF MainTypeOK, FrontInv
<1>3. CASE phase \in Early
  <2>1. solver = NewSolver({}) /\ row = 0 /\ require = {} /\ primedRequire = {}
    BY <1>1, <1>3 DEF ModelInv, SolverInv
  <2>2. VarsIn(Attached(solver)) \cup Valued(solver) \subseteq solver.vars /\ solver.frozen \cap solver.eliminated = {}
    BY <2>1 DEF NewSolver, Attached, Valued, VarsIn, VarsOf
  <2>3. Len(circuit.gates) \in Nat
    <3>1. CASE HasCircuit
      BY <1>1, <3>1, CircuitIs, CircuitSizes
    <3>2. CASE ~HasCircuit
      BY <1>1, <3>2 DEF FrontInv, NoCircuit
    <3> QED BY <3>1, <3>2
  <2>4. Range(model.primedAnds) \subseteq FirstGate(circuit)..(FirstPrime(circuit) - 1)
    <3>1. CASE phase \in {"unread", "construct"}
      <4>1. model.primedAnds = <<>>
        BY <1>1, <3>1 DEF ModelInv, NewModel
      <4> QED BY <4>1 DEF Range
    <3>2. CASE phase \notin {"unread", "construct"}
      <4>1. model.primedAnds \in Seq(GateVars(circuit))
        BY <1>1, <3>2 DEF ModelInv, ModelOK
      <4>2. Range(model.primedAnds) \subseteq GateVars(circuit)
        BY <4>1, RangeOfSeq
      <4> QED BY <4>2 DEF GateVars
    <3> QED BY <3>1, <3>2
  <2>5. LoaderTypeOK
    BY <2>1, <2>2, <2>3, <2>4 DEF LoaderTypeOK
  <2>6. Aligned
    BY <1>3 DEF Aligned, Early
  <2> QED BY <1>2, <2>5, <2>6 DEF TypeOK
<1>4. CASE phase \notin Early
  <2>1. phase \notin {"unread", "construct", "create"}
    BY <1>4 DEF Early
  <2>2. /\ row \in 0..Len(circuit.gates) /\ primedRequire \subseteq require
        /\ require \subseteq 0..(FirstPrime(circuit) - 1)
        /\ model.primedAnds \in Seq(GateVars(circuit))
    BY <1>1, <1>4, <2>1 DEF ModelInv, ModelOK
  <2>3. Range(model.primedAnds) \subseteq FirstGate(circuit)..(FirstPrime(circuit) - 1)
    <3>1. Range(model.primedAnds) \subseteq GateVars(circuit)
      BY <2>2, RangeOfSeq
    <3> QED BY <3>1 DEF GateVars
  <2>4. Fine(solver) /\ solver.frozen \cap solver.eliminated = {} /\ solver.vars = 0..(model.size - 1)
    BY <1>1, <1>4 DEF SolverInv, SimplifierOK
  <2>5. VarsIn(Attached(solver)) \subseteq solver.vars /\ Valued(solver) \subseteq solver.vars
    <3>1. /\ Attached(solver) \in SUBSET SUBSET LitsOf(solver.vars) /\ solver.trail \in SUBSET LitsOf(solver.vars)
          /\ solver.vars \in SUBSET Nat /\ IsFiniteSet(solver.vars)
      BY <2>4 DEF Fine, Attached
    <3> QED BY <3>1, FiniteData DEF Valued
  <2>6. LoaderTypeOK
    BY <2>2, <2>3, <2>4, <2>5 DEF LoaderTypeOK
  <2>7. Aligned
    BY <2>4 DEF Aligned
  <2> QED BY <1>2, <2>6, <2>7 DEF TypeOK
<1> QED BY <1>3, <1>4

\* If each file has an input or a latch, the constructor has made enough room.
LEMMA EnoughRoom ==
  ASSUME LoaderInv, \A command \in Commands : Len(command.file.inputs) + Len(command.file.latches) > 0
  PROVE  PrimingKeepsReference
<1>1. CASE phase \in {"unread", "construct"}
  BY <1>1 DEF LoaderInv, ModelInv, NewModel, PrimingKeepsReference
<1>2. CASE phase \notin {"unread", "construct"}
  <2>1. HasCircuit /\ CircuitOK(circuit) /\ ModelOK(circuit, model)
    BY <1>2, LoaderHasCircuit DEF LoaderInv, ModelInv
  <2>2. PICK i \in Nat, l \in Nat : i = circuit.inputs /\ l = circuit.latches
    BY <2>1, CircuitSizes
  <2>3. i = Len(aig.inputs) /\ l = Len(aig.latches)
    BY <2>1, <2>2, CircuitIs DEF LoaderInv
  <2>4. i + l > 0
    BY <2>3 DEF LoaderInv, FrontInv
  <2>5. FirstGate(circuit) = (1 + i) + l
    BY <2>1, <2>2, CircuitSizes
  <2>6. Primes(circuit) > 0
    BY <2>2, <2>4, <2>5 DEF Primes
  <2> QED BY <2>1, <2>6 DEF ModelOK, PrimingKeepsReference
<1> QED BY <1>1, <1>2

\* Every state of the program satisfies the invariant.
LEMMA LoaderInvHolds == Spec => []LoaderInv
<1>1. Init => LoaderInv
  BY LoaderInvInit
<1>2. LoaderInv /\ [Next]_vars => LoaderInv'
  BY LoaderInvStep
<1> QED BY <1>1, <1>2, PTL DEF Spec

\* The options, the places of main(), the tables of the Model and the clauses of
\* the solver keep their types, whatever files and command lines there are
\* (main.cpp:15-65, Model.h:85-110, Model.cpp:15-127).
THEOREM TypeCorrect == Spec => []TypeOK
<1>1. LoaderInv => TypeOK
  BY LoaderInvImplies
<1> QED BY <1>1, LoaderInvHolds, PTL

\* If each file has an input or a latch, the variables of the simplifying solver
\* are those of the Model whenever it is used (Model.h:173-204), and primeVar()
\* never uses its reference into vars after push_back() has moved the vector: the
\* constructor has doubled the buffer, and no gate is primed twice.
THEOREM AlignedVariables ==
  ASSUME \A command \in Commands : Len(command.file.inputs) + Len(command.file.latches) > 0
  PROVE  Spec => []VariablesStayAligned
<1>1. LoaderInv => VariablesStayAligned
  BY LoaderInvImplies, EnoughRoom DEF VariablesStayAligned
<1> QED BY <1>1, LoaderInvHolds, PTL

-----------------------------------------------------------------------------
(* The file and the circuit have the same values.                          *)

\* What FileValues has for variable v, given the values val of the others.
FileEvaluated(f, on, val, v) ==
  IF \E i \in DOMAIN f.inputs : f.inputs[i] = 2 * v
  THEN (CHOOSE i \in DOMAIN f.inputs : f.inputs[i] = 2 * v) \in on
  ELSE IF \E i \in DOMAIN f.latches : f.latches[i].lit = 2 * v
  THEN LatchVar(f, CHOOSE i \in DOMAIN f.latches : f.latches[i].lit = 2 * v) \in on
  ELSE \E i \in DOMAIN f.ands :
         /\ f.ands[i].lhs = 2 * v
         /\ val[f.ands[i].rhs0 \div 2] = (f.ands[i].rhs0 % 2 = 0)
         /\ val[f.ands[i].rhs1 \div 2] = (f.ands[i].rhs1 % 2 = 0)

\* The circuit c is made of the tables of file f.
MadeOf(c, f) ==
  /\ CircuitOK(c) /\ GatesInOrder(c)
  /\ c.inputs = Len(f.inputs) /\ c.latches = Len(f.latches) /\ Len(c.gates) = Len(f.ands)
  /\ \A i \in 1..Len(f.ands) : c.gates[i].rhs0 = LitOf(f.ands[i].rhs0) /\ c.gates[i].rhs1 = LitOf(f.ands[i].rhs1)

\* Where the file has a variable is where the circuit has it.
LEMMA FileVarIs ==
  ASSUME NEW f \in Tables, Reencoded(f), NEW c, MadeOf(c, f), NEW v \in Nat,
         NEW on \in SUBSET (InputVars(c) \cup LatchVars(c)), NEW val
  PROVE  /\ v < FirstPrime(c) => (FileEvaluated(f, on, val, v) <=> Evaluated(c, on, val, v))
         /\ ~(v < FirstPrime(c)) => ~FileEvaluated(f, on, val, v)
<1>1. PICK ni \in Nat, nl \in Nat, na \in Nat :
        /\ ni = Len(f.inputs) /\ nl = Len(f.latches) /\ na = Len(f.ands)
        /\ DOMAIN f.inputs = 1..ni /\ DOMAIN f.latches = 1..nl /\ DOMAIN f.ands = 1..na
  BY TablesAre
<1>2. ni \in Nat /\ nl \in Nat /\ na \in Nat
  BY <1>1
<1>3. CircuitOK(c) /\ c.inputs = ni /\ c.latches = nl /\ Len(c.gates) = na
  BY <1>1 DEF MadeOf
<1>4. PICK l, g, F : /\ l = FirstLatch(c) /\ g = FirstGate(c) /\ F = FirstPrime(c)
                     /\ l = 1 + ni /\ g = l + nl /\ F = g + na
                     /\ InputVars(c) = 1..(l - 1) /\ LatchVars(c) = l..(g - 1)
  BY <1>3, CircuitSizes
<1>5. l = 1 + ni /\ g = 1 + ni + nl /\ F = 1 + ni + nl + na
  BY <1>2, <1>4
<1>6. /\ \A i \in 1..ni : f.inputs[i] = 2 * i
      /\ \A i \in 1..nl : f.latches[i].lit = 2 * (ni + i) /\ LatchVar(f, i) = ni + i
      /\ \A i \in 1..na : f.ands[i].lhs = 2 * (ni + nl + i)
  BY <1>1 DEF Reencoded, LatchVar, GateVar, NumInputs
<1>7. PICK isInput, isLatch :
        /\ isInput = (\E i \in 1..ni : f.inputs[i] = 2 * v)
        /\ isLatch = (\E i \in 1..nl : f.latches[i].lit = 2 * v)
  OBVIOUS
<1>8. /\ \A i \in 1..ni : f.inputs[i] = 2 * v <=> i = v
      /\ \A i \in 1..nl : f.latches[i].lit = 2 * v <=> v = ni + i
      /\ \A i \in 1..na : f.ands[i].lhs = 2 * v <=> v = ni + nl + i
  <2>1. \A x \in Nat : 2 * x = 2 * v <=> x = v
    OBVIOUS
  <2>2. ASSUME NEW i \in 1..ni PROVE f.inputs[i] = 2 * v <=> i = v
    BY <1>2, <1>6, <2>1
  <2>3. ASSUME NEW i \in 1..nl PROVE f.latches[i].lit = 2 * v <=> v = ni + i
    <3>1. ni + i \in Nat
      BY <1>2
    <3> QED BY <1>6, <2>1, <3>1
  <2>4. ASSUME NEW i \in 1..na PROVE f.ands[i].lhs = 2 * v <=> v = ni + nl + i
    <3>1. ni + nl + i \in Nat
      BY <1>2
    <3> QED BY <1>6, <2>1, <3>1
  <2> QED BY <2>2, <2>3, <2>4
<1>9. CASE v \in 1..ni
  <2>1. \E i \in 1..ni : f.inputs[i] = 2 * v
    BY <1>8, <1>9
  <2>2. (CHOOSE i \in 1..ni : f.inputs[i] = 2 * v) = v
    BY <1>8, <1>9, <2>1
  <2>3. FileEvaluated(f, on, val, v) <=> v \in on
    BY <1>1, <2>1, <2>2 DEF FileEvaluated
  <2>4. v < g /\ v < F
    BY <1>2, <1>5, <1>9
  <2> QED BY <1>4, <2>3, <2>4 DEF Evaluated
<1>10. CASE v \in l..(g - 1)
  <2>1. ~\E i \in 1..ni : f.inputs[i] = 2 * v
    <3>1. v \notin 1..ni
      BY <1>2, <1>5, <1>10
    <3> QED BY <1>8, <3>1
  <2>2. PICK j : j = v - ni
    OBVIOUS
  <2>3. j \in 1..nl /\ v = ni + j /\ \A i \in 1..nl : v = ni + i => i = j
    BY <1>2, <1>5, <1>10, <2>2
  <2>4. \E i \in 1..nl : f.latches[i].lit = 2 * v
    BY <1>8, <2>3
  <2>5. (CHOOSE i \in 1..nl : f.latches[i].lit = 2 * v) = j
    BY <1>8, <2>3, <2>4
  <2>6. FileEvaluated(f, on, val, v) <=> LatchVar(f, j) \in on
    BY <1>1, <2>1, <2>4, <2>5 DEF FileEvaluated
  <2>7. LatchVar(f, j) = v
    BY <1>6, <2>3
  <2>8. v < g /\ v < F
    BY <1>2, <1>5, <1>10
  <2> QED BY <1>4, <2>6, <2>7, <2>8 DEF Evaluated
<1>11. CASE v = 0 \/ ~(v < g)
  <2>1. v \notin 1..ni /\ \A i \in 1..nl : v # ni + i
    BY <1>2, <1>5, <1>11
  <2>2. ~(\E i \in 1..ni : f.inputs[i] = 2 * v) /\ ~(\E i \in 1..nl : f.latches[i].lit = 2 * v)
    BY <1>8, <2>1
  <2>3. FileEvaluated(f, on, val, v) <=>
          \E i \in 1..na :
             /\ v = ni + nl + i
             /\ val[f.ands[i].rhs0 \div 2] = (f.ands[i].rhs0 % 2 = 0)
             /\ val[f.ands[i].rhs1 \div 2] = (f.ands[i].rhs1 % 2 = 0)
    BY <1>1, <1>8, <2>2 DEF FileEvaluated
  <2>4. CASE v = 0
    <3>1. \A i \in 1..na : v # ni + nl + i
      BY <1>2, <2>4
    <3>2. v \notin on
      <4>1. v \notin 1..(l - 1) /\ v \notin l..(g - 1)
        BY <1>2, <1>5, <2>4
      <4> QED BY <1>4, <4>1
    <3>3. v < g /\ v < F
      BY <1>2, <1>5, <2>4
    <3> QED BY <1>4, <2>3, <3>1, <3>2, <3>3 DEF Evaluated
  <2>5. CASE ~(v < F)
    <3>1. \A i \in 1..na : v # ni + nl + i
      BY <1>2, <1>5, <2>5
    <3> QED BY <1>4, <2>3, <2>5, <3>1
  <2>6. CASE v < F /\ ~(v < g)
    <3>1. PICK j : j = v - g + 1
      OBVIOUS
    <3>2. j \in 1..na /\ v = ni + nl + j /\ \A i \in 1..na : v = ni + nl + i => i = j
      BY <1>2, <1>5, <2>6, <3>1
    <3>3. PICK p \in Nat, q \in Nat : p = f.ands[j].rhs0 /\ q = f.ands[j].rhs1
      BY <1>1, <3>2, TablesAre
    <3>4. FileEvaluated(f, on, val, v) <=> val[p \div 2] = (p % 2 = 0) /\ val[q \div 2] = (q % 2 = 0)
      BY <2>3, <3>2, <3>3
    <3>5. c.gates[j].rhs0 = LitOf(p) /\ c.gates[j].rhs1 = LitOf(q)
      BY <1>1, <3>2, <3>3 DEF MadeOf
    <3>6. Evaluated(c, on, val, v) <=> val[LitOf(p)[1]] = LitOf(p)[2] /\ val[LitOf(q)[1]] = LitOf(q)[2]
      BY <1>4, <2>6, <3>1, <3>5 DEF Evaluated
    <3>7. LitOf(p)[1] = p \div 2 /\ LitOf(p)[2] = (p % 2 = 0) /\ LitOf(q)[1] = q \div 2 /\ LitOf(q)[2] = (q % 2 = 0)
      BY DEF LitOf
    <3> QED BY <1>4, <2>6, <3>4, <3>6, <3>7
  <2> QED BY <1>11, <2>4, <2>5, <2>6
<1> QED
  <2>1. v \in 1..ni \/ v \in l..(g - 1) \/ v = 0 \/ ~(v < g)
    BY <1>2, <1>5
  <2> QED BY <1>9, <1>10, <1>11, <2>1

\* The file and the circuit give all variables the same values.
LEMMA FileValuesAre ==
  ASSUME NEW f \in Tables, Reencoded(f), NEW c, MadeOf(c, f),
         NEW on \in SUBSET (InputVars(c) \cup LatchVars(c))
  PROVE  \A v \in 0..(FirstPrime(c) - 1) : FileValues(f, on)[v] = Values(c, on)[v]
<1>1. CircuitOK(c) /\ GatesInOrder(c)
  BY DEF MadeOf
<1>2. PICK F, vals : F \in Nat /\ F = FirstPrime(c) /\ vals = Values(c, on)
  BY <1>1, CircuitSizes
<1>3. \A v \in 0..(F - 1) : vals[v] \in BOOLEAN /\ vals[v] = Evaluated(c, on, vals, v)
  BY <1>1, <1>2, ValuesAre
<1>4. ASSUME NEW v \in 0..(F - 1), NEW x, NEW y, \A u \in 0..(F - 1) : u < v => x[u] = y[u]
      PROVE  Evaluated(c, on, x, v) = Evaluated(c, on, y, v)
  <2>1. CASE v < FirstGate(c)
    BY <2>1 DEF Evaluated
  <2>2. CASE ~(v < FirstGate(c))
    <3>1. v \in FirstGate(c)..(FirstPrime(c) - 1)
      BY <1>1, <1>2, <2>2, CircuitSizes
    <3>2. PICK p \in CircuitLits(c), q \in CircuitLits(c) :
            /\ p = c.gates[v - FirstGate(c) + 1].rhs0 /\ q = c.gates[v - FirstGate(c) + 1].rhs1
            /\ p[1] < v /\ q[1] < v
      BY <1>1, <3>1, GateIs
    <3>3. p[1] \in 0..(F - 1) /\ q[1] \in 0..(F - 1)
      BY <1>2, <3>2, CircuitLitIs
    <3>4. x[p[1]] = y[p[1]] /\ x[q[1]] = y[q[1]]
      BY <1>4, <3>2, <3>3
    <3>5. /\ Evaluated(c, on, x, v) = (x[p[1]] = p[2] /\ x[q[1]] = q[2])
          /\ Evaluated(c, on, y, v) = (y[p[1]] = p[2] /\ y[q[1]] = q[2])
      BY <2>2, <3>2 DEF Evaluated
    <3> QED BY <3>4, <3>5
  <2> QED BY <2>1, <2>2
<1>5. ASSUME NEW x, NEW v
      PROVE  FileEvaluated(f, on, x, v) \in BOOLEAN
  <2>1. CASE \E i \in DOMAIN f.inputs : f.inputs[i] = 2 * v
    <3>1. FileEvaluated(f, on, x, v) = ((CHOOSE i \in DOMAIN f.inputs : f.inputs[i] = 2 * v) \in on)
      BY <2>1 DEF FileEvaluated
    <3> QED BY <3>1
  <2>2. CASE ~(\E i \in DOMAIN f.inputs : f.inputs[i] = 2 * v) /\ \E i \in DOMAIN f.latches : f.latches[i].lit = 2 * v
    <3>1. FileEvaluated(f, on, x, v) = (LatchVar(f, CHOOSE i \in DOMAIN f.latches : f.latches[i].lit = 2 * v) \in on)
      BY <2>2 DEF FileEvaluated
    <3> QED BY <3>1
  <2>3. CASE ~(\E i \in DOMAIN f.inputs : f.inputs[i] = 2 * v) /\ ~(\E i \in DOMAIN f.latches : f.latches[i].lit = 2 * v)
    <3>1. FileEvaluated(f, on, x, v) =
            (\E i \in DOMAIN f.ands :
               /\ f.ands[i].lhs = 2 * v
               /\ x[f.ands[i].rhs0 \div 2] = (f.ands[i].rhs0 % 2 = 0)
               /\ x[f.ands[i].rhs1 \div 2] = (f.ands[i].rhs1 % 2 = 0))
      BY <2>3 DEF FileEvaluated
    <3> QED BY <3>1
  <2> QED BY <2>1, <2>2, <2>3
<1>6. ASSUME NEW v \in Nat, NEW x
      PROVE  /\ v < F => FileEvaluated(f, on, x, v) = Evaluated(c, on, x, v)
             /\ ~(v < F) => FileEvaluated(f, on, x, v) = FALSE
  <2>1. /\ v < F => (FileEvaluated(f, on, x, v) <=> Evaluated(c, on, x, v))
        /\ ~(v < F) => ~FileEvaluated(f, on, x, v)
    BY <1>2, FileVarIs
  <2>2. Evaluated(c, on, x, v) \in BOOLEAN
    <3>1. CASE v < FirstGate(c)
      <4>1. Evaluated(c, on, x, v) = (v \in on)
        BY <3>1 DEF Evaluated
      <4> QED BY <4>1
    <3>2. CASE ~(v < FirstGate(c))
      <4>1. PICK g : g = c.gates[v - FirstGate(c) + 1]
        OBVIOUS
      <4>2. Evaluated(c, on, x, v) = (x[g.rhs0[1]] = g.rhs0[2] /\ x[g.rhs1[1]] = g.rhs1[2])
        BY <3>2, <4>1 DEF Evaluated
      <4> QED BY <4>2
    <3> QED BY <3>1, <3>2
  <2> QED BY <1>5, <2>1, <2>2
<1>7. \E h : h = [v \in Nat |-> FileEvaluated(f, on, h, v)]
  <2> DEFINE h == [v \in Nat |-> IF v < F THEN vals[v] ELSE FALSE]
  <2>1. ASSUME NEW v \in Nat PROVE h[v] = FileEvaluated(f, on, h, v)
    <3>1. CASE v < F
      <4>1. v \in 0..(F - 1) /\ h[v] = vals[v]
        BY <1>2, <3>1
      <4>2. ASSUME NEW u \in 0..(F - 1) PROVE h[u] = vals[u]
        <5>1. u \in Nat /\ u < F
          BY <1>2
        <5> QED BY <5>1
      <4> HIDE DEF h
      <4>3. Evaluated(c, on, h, v) = Evaluated(c, on, vals, v)
        BY <1>4, <4>1, <4>2
      <4> QED BY <1>3, <1>6, <3>1, <4>1, <4>3
    <3>2. CASE ~(v < F)
      <4>1. h[v] = FALSE
        BY <3>2
      <4> HIDE DEF h
      <4> QED BY <1>6, <3>2, <4>1
    <3> QED BY <3>1, <3>2
  <2>2. h = [v \in Nat |-> h[v]]
    OBVIOUS
  <2> HIDE DEF h
  <2>3. h = [v \in Nat |-> FileEvaluated(f, on, h, v)]
    BY <2>1, <2>2, Zenon
  <2> QED BY <2>3
<1> DEFINE val == CHOOSE h : h = [v \in Nat |-> FileEvaluated(f, on, h, v)]
<1>8. val = [v \in Nat |-> FileEvaluated(f, on, val, v)]
  BY <1>7
<1>9. FileValues(f, on) = val
  BY DEF FileValues, FileEvaluated
<1> HIDE DEF val
<1>10. \A v \in Nat : val[v] = FileEvaluated(f, on, val, v)
  BY <1>8
<1> DEFINE S == {v \in 0..(F - 1) : val[v] = vals[v]}
<1>11. ASSUME NEW n \in 0..(F - 1), \A k \in 0..(F - 1) : k < n => k \in S
       PROVE  n \in S
  <2>1. \A u \in 0..(F - 1) : u < n => val[u] = vals[u]
    BY <1>11
  <2>2. Evaluated(c, on, val, n) = Evaluated(c, on, vals, n)
    BY <1>4, <2>1
  <2>3. n \in Nat /\ n < F
    BY <1>2
  <2>4. val[n] = Evaluated(c, on, val, n)
    BY <1>6, <1>10, <2>3
  <2>5. val[n] = vals[n]
    BY <1>3, <2>2, <2>4
  <2> QED BY <2>5
<1>12. 0..(F - 1) \subseteq S
  <2> HIDE DEF S
  <2>1. 0..(F - 1) \in SUBSET Nat
    OBVIOUS
  <2> QED BY <1>11, <2>1, FromSmaller
<1> QED BY <1>2, <1>9, <1>12

\* A literal holds in the circuit if it holds in the file.
LEMMA FileLitIs ==
  ASSUME NEW f \in Tables, Reencoded(f), NEW c, MadeOf(c, f),
         NEW on \in SUBSET (InputVars(c) \cup LatchVars(c)), NEW l \in Nat, l \div 2 < FirstPrime(c)
  PROVE  Holds(Values(c, on), LitOf(l)) = FileHolds(FileValues(f, on), l)
<1>1. CircuitOK(c) /\ FirstPrime(c) \in Nat
  BY CircuitSizes DEF MadeOf
<1>2. PICK w \in Nat : w = l \div 2
  OBVIOUS
<1>3. w \in 0..(FirstPrime(c) - 1)
  BY <1>1, <1>2
<1>4. FileValues(f, on)[w] = Values(c, on)[w]
  BY <1>3, FileValuesAre
<1>5. LitOf(l)[1] = w /\ LitOf(l)[2] = (l % 2 = 0)
  BY <1>2 DEF LitOf
<1> QED BY <1>2, <1>4, <1>5 DEF Holds, FileHolds

\* The tables of the circuit, one by one.
LEMMA TablesOfCircuit ==
  ASSUME FrontInv, HasCircuit
  PROVE  /\ aig \in Tables /\ LookupsInRange(aig) /\ options.propertyIndex < Len(Properties(aig))
         /\ Properties(aig)[options.propertyIndex + 1] \in Nat
         /\ Properties(aig)[options.propertyIndex + 1] \div 2 < FirstPrime(circuit)
         /\ \A i \in 1..Len(aig.latches) : circuit.next[i] = LitOf(aig.latches[i].next)
         /\ \A i \in 1..Len(aig.constraints) : circuit.constraints[i] = LitOf(aig.constraints[i])
         /\ circuit.error = LitOf(Properties(aig)[options.propertyIndex + 1])
         /\ circuit.init = ResetLits(aig)
         /\ Reencoded(aig) => MadeOf(circuit, aig)
<1>1. aig \in Tables
  BY FilesAreTyped
<1>2. PICK i \in Nat : i = options.propertyIndex
  BY DEF FrontInv
<1>3. PICK n \in Nat, l \in Nat, k \in Nat, na \in Nat :
        /\ n = Len(Properties(aig)) /\ l = Len(aig.latches) /\ k = Len(aig.constraints) /\ na = Len(aig.ands)
        /\ DOMAIN aig.latches = 1..l /\ DOMAIN aig.constraints = 1..k /\ DOMAIN aig.ands = 1..na
  BY <1>1, TablesAre
<1>4. i < n /\ LookupsInRange(aig)
  BY <1>2, <1>3 DEF FrontInv
<1>5. i + 1 \in 1..n
  BY <1>4
<1>6. circuit = Translated(aig, Properties(aig)[i + 1])
  BY <1>2 DEF FrontInv
<1>7. /\ circuit.next = AigerLits([j \in 1..l |-> aig.latches[j].next])
      /\ circuit.constraints = AigerLits(aig.constraints)
      /\ circuit.error = LitOf(Properties(aig)[i + 1]) /\ circuit.init = ResetLits(aig)
      /\ circuit.gates = [j \in 1..na |-> [rhs0 |-> LitOf(aig.ands[j].rhs0), rhs1 |-> LitOf(aig.ands[j].rhs1)]]
  BY <1>3, <1>6 DEF Translated
<1>8. /\ circuit.next = [j \in 1..l |-> LitOf(aig.latches[j].next)]
      /\ circuit.constraints = [j \in 1..k |-> LitOf(aig.constraints[j])]
  BY <1>3, <1>7 DEF AigerLits
<1>9. Properties(aig)[i + 1] \in Nat /\ Properties(aig)[i + 1] \div 2 < FirstPrime(circuit)
  <2>1. Properties(aig) \in Seq(Nat)
    BY <1>1, TablesAre
  <2>2. PICK m \in 1..Len(Properties(aig)) : m = i + 1
    BY <1>3, <1>5
  <2>3. Properties(aig)[m] \in Nat
    BY <2>1, <2>2, ElementOfSeq
  <2>4. Properties(aig)[m] \div 2 < FileVars(aig)
    BY <1>1, <1>4, <2>2, LateLitsAre
  <2>5. FirstPrime(circuit) = FileVars(aig)
    BY CircuitIs
  <2> QED BY <2>2, <2>3, <2>4, <2>5
<1>10. ASSUME Reencoded(aig) PROVE MadeOf(circuit, aig)
  <2>1. /\ CircuitOK(circuit) /\ GatesInOrder(circuit)
        /\ circuit.inputs = Len(aig.inputs) /\ circuit.latches = Len(aig.latches)
    BY <1>10, CircuitIs
  <2>2. Len(circuit.gates) = Len(aig.ands)
    <3>1. PICK gs : gs = circuit.gates
      OBVIOUS
    <3>2. Len(gs) \in Nat /\ DOMAIN gs = 1..Len(gs)
      BY <2>1, <3>1, LenProperties DEF CircuitOK
    <3>3. DOMAIN gs = 1..na
      BY <1>7, <3>1
    <3> QED BY <1>3, <3>1, <3>2, <3>3
  <2>3. \A j \in 1..Len(aig.ands) : /\ circuit.gates[j].rhs0 = LitOf(aig.ands[j].rhs0)
                                    /\ circuit.gates[j].rhs1 = LitOf(aig.ands[j].rhs1)
    BY <1>3, <1>7
  <2> QED BY <2>1, <2>2, <2>3 DEF MadeOf
<1> QED BY <1>1, <1>2, <1>3, <1>4, <1>7, <1>8, <1>9, <1>10

\* The circuit means what the file means.
LEMMA SameMeaning ==
  ASSUME FrontInv, Reencoded(aig)
  PROVE  SameCircuit /\ RequestedProperty
<1> SUFFICES ASSUME Modelled PROVE SameCircuit /\ RequestedProperty
  BY DEF SameCircuit, RequestedProperty
<1>1. HasCircuit
  BY DEF Modelled, HasCircuit
<1>2. /\ aig \in Tables /\ LookupsInRange(aig) /\ MadeOf(circuit, aig)
      /\ \A i \in 1..Len(aig.latches) : circuit.next[i] = LitOf(aig.latches[i].next)
      /\ \A i \in 1..Len(aig.constraints) : circuit.constraints[i] = LitOf(aig.constraints[i])
      /\ circuit.error = LitOf(Properties(aig)[options.propertyIndex + 1])
      /\ circuit.init = ResetLits(aig) /\ options.propertyIndex < Len(Properties(aig))
      /\ Properties(aig)[options.propertyIndex + 1] \in Nat
      /\ Properties(aig)[options.propertyIndex + 1] \div 2 < FirstPrime(circuit)
  BY <1>1, TablesOfCircuit
<1>3. FirstPrime(circuit) = FileVars(aig)
  BY <1>1, CircuitIs
<1>4. PICK l \in Nat, k \in Nat :
        /\ l = Len(aig.latches) /\ k = Len(aig.constraints)
        /\ DOMAIN aig.latches = 1..l /\ DOMAIN aig.constraints = 1..k
        /\ \A i \in 1..l : aig.latches[i].next \in Nat /\ aig.latches[i].reset \in Nat
        /\ \A i \in 1..k : aig.constraints[i] \in Nat
  BY <1>2, TablesAre
<1>5. /\ \A i \in 1..l : aig.latches[i].next \div 2 < FirstPrime(circuit)
      /\ \A i \in 1..k : aig.constraints[i] \div 2 < FirstPrime(circuit)
  BY <1>2, <1>3, <1>4, LateLitsAre
<1>6. ASSUME NEW on \in SUBSET (InputVars(circuit) \cup LatchVars(circuit))
      PROVE  /\ \A i \in DOMAIN aig.latches :
                  Holds(Values(circuit, on), circuit.next[i]) = FileHolds(FileValues(aig, on), aig.latches[i].next)
             /\ \A i \in DOMAIN aig.constraints :
                  Holds(Values(circuit, on), circuit.constraints[i]) = FileHolds(FileValues(aig, on), aig.constraints[i])
             /\ Holds(Values(circuit, on), circuit.error)
                  = FileHolds(FileValues(aig, on), Properties(aig)[options.propertyIndex + 1])
  <2>1. \A x \in Nat : x \div 2 < FirstPrime(circuit) =>
          Holds(Values(circuit, on), LitOf(x)) = FileHolds(FileValues(aig, on), x)
    BY <1>2, FileLitIs
  <2>2. ASSUME NEW i \in 1..l
        PROVE  Holds(Values(circuit, on), circuit.next[i]) = FileHolds(FileValues(aig, on), aig.latches[i].next)
    BY <1>2, <1>4, <1>5, <2>1
  <2>3. ASSUME NEW i \in 1..k
        PROVE  Holds(Values(circuit, on), circuit.constraints[i]) = FileHolds(FileValues(aig, on), aig.constraints[i])
    BY <1>2, <1>4, <1>5, <2>1
  <2>4. Holds(Values(circuit, on), circuit.error)
          = FileHolds(FileValues(aig, on), Properties(aig)[options.propertyIndex + 1])
    BY <1>2, <2>1
  <2> QED BY <1>4, <2>2, <2>3, <2>4
<1>7. ASSUME NEW i \in DOMAIN aig.latches, NEW b \in BOOLEAN
      PROVE  (<<LatchVar(aig, i), b>> \in circuit.init) <=> (aig.latches[i].reset = IF b THEN 1 ELSE 0)
  <2>1. \A j \in 1..l : LatchVar(aig, j) = LatchVar(aig, i) <=> j = i
    <3>1. PICK n \in Nat : n = NumInputs(aig)
      BY <1>2, TablesAre DEF NumInputs
    <3> QED BY <1>4, <3>1 DEF LatchVar
  <2>2. \A j \in 1..l : aig.latches[j].reset < 2 <=> aig.latches[j].reset = 0 \/ aig.latches[j].reset = 1
    BY <1>4
  <2>3. <<LatchVar(aig, i), b>> \in ResetLits(aig) <=>
          \E j \in 1..l : /\ aig.latches[j].reset < 2
                          /\ <<LatchVar(aig, i), b>> = <<LatchVar(aig, j), aig.latches[j].reset # 0>>
    BY <1>4 DEF ResetLits
  <2>4. <<LatchVar(aig, i), b>> \in ResetLits(aig) <=>
          aig.latches[i].reset < 2 /\ b = (aig.latches[i].reset # 0)
    BY <1>4, <1>7, <2>1, <2>3
  <2>5. PICK r \in Nat : r = aig.latches[i].reset
    BY <1>4
  <2>6. b = TRUE \/ b = FALSE
    BY <1>7
  <2>7. r < 2 <=> r = 0 \/ r = 1
    BY <2>5
  <2>8. CASE b = TRUE
    <3>1. (b = (r # 0)) <=> r # 0
      BY <2>8
    <3>2. r < 2 /\ r # 0 <=> r = 1
      BY <2>5, <2>7
    <3>3. (IF b THEN 1 ELSE 0) = 1
      BY <2>8
    <3> QED BY <1>2, <2>4, <2>5, <3>1, <3>2, <3>3
  <2>9. CASE b = FALSE
    BY <1>2, <2>4, <2>5, <2>7, <2>9
  <2> QED BY <2>6, <2>8, <2>9
<1>8. SameCircuit
  BY <1>6, <1>7 DEF SameCircuit
<1>9. Properties(aig) = IF aig.bad = <<>> THEN aig.outputs ELSE aig.bad
  BY DEF Properties
<1>10. RequestedProperty
  BY <1>2, <1>6, <1>9 DEF RequestedProperty
<1> QED BY <1>8, <1>10

\* Nothing undefined is read if each file has a property and all its literals
\* are of variables that are there.
LEMMA NothingMissing ==
  ASSUME LoaderInv, NothingUndefined, [Next]_vars,
         \A command \in Commands : LookupsInRange(command.file) /\ Properties(command.file) # <<>>
  PROVE  NothingUndefined'
<1>1. LookupsInRange(aig) /\ Properties(aig) # <<>>
  BY DEF LoaderInv, FrontInv
<1>2. CASE ReadModel
  <2>1. PICK i \in Nat, n \in Nat : i = options.propertyIndex /\ n = Len(Properties(aig))
    BY FilesAreTyped, TablesAre DEF LoaderInv, FrontInv
  <2>2. ModelFromAiger
    BY <1>2 DEF ReadModel
  <2>3. CASE BadIndex(aig, i)
    BY <1>1, <2>1, <2>2, <2>3 DEF ModelFromAiger, NothingUndefined
  <2>4. CASE ~BadIndex(aig, i)
    <3>1. i < n
      <4>1. CASE aig.bad # <<>>
        <5>1. ~(Len(aig.bad) <= i) /\ Properties(aig) = aig.bad
          BY <2>4, <4>1 DEF BadIndex, Properties
        <5> QED BY <2>1, <5>1
      <4>2. CASE aig.bad = <<>>
        <5>1. Properties(aig) = aig.outputs
          BY <4>2 DEF Properties
        <5>2. ~(Len(aig.outputs) <= i)
          BY <1>1, <2>4, <5>1 DEF BadIndex
        <5> QED BY <2>1, <5>1, <5>2
      <4> QED BY <4>1, <4>2
    <3>2. ~(i >= Len(Properties(aig)))
      BY <2>1, <3>1
    <3> QED BY <1>1, <2>1, <2>2, <2>4, <3>2 DEF ModelFromAiger, NothingUndefined
  <2> QED BY <2>3, <2>4
<1>3. CASE ~ReadModel
  <2>1. pc' = pc \/ pc' \in {"model", "failed", "print", "done"}
    BY <1>3 DEF Next, vars, mainVars, ParseArg, ReadFile, Check, PrintVerdict
  <2> QED BY <2>1 DEF NothingUndefined
<1> QED BY <1>2, <1>3

\* If the files are as the library reencodes them, declare a property and name
\* only literals the lookup table has, then check() gets the circuit of the file,
\* evaluated gate by gate, with the error that the command line asks for, and
\* nothing undefined is read (Model.cpp:227-300, main.cpp:20-55).
THEOREM ModelOfTheFile ==
  ASSUME \A command \in Commands :
           Reencoded(command.file) /\ LookupsInRange(command.file) /\ Properties(command.file) # <<>>
  PROVE  Spec => []ModelIsTheFile
<1>1. Init => NothingUndefined
  BY DEF Init, MainInit, NothingUndefined
<1>2. LoaderInv /\ NothingUndefined /\ [Next]_vars => NothingUndefined'
  BY NothingMissing
<1>3. LoaderInv /\ NothingUndefined => ModelIsTheFile
  <2> SUFFICES ASSUME LoaderInv, NothingUndefined PROVE ModelIsTheFile
    OBVIOUS
  <2>1. FrontInv /\ Reencoded(aig)
    BY DEF LoaderInv, FrontInv
  <2> QED BY <2>1, SameMeaning, LoaderInvImplies DEF ModelIsTheFile
<1> QED BY <1>1, <1>2, <1>3, LoaderInvHolds, PTL DEF Spec

-----------------------------------------------------------------------------
(* Models of the clauses and transitions of the circuit.                   *)

\* The valuations before and after a transition.
Related(c, val, next) ==
  /\ ~Holds(val, c.error) /\ Meets(c, val)
  /\ \A i \in 1..c.latches : next[FirstLatch(c) + i - 1] = Holds(val, c.next[i])

\* What agrees with the valuations still did with fewer primed gates.
LEMMA AgreesStays ==
  ASSUME NEW c, CircuitOK(c), NEW m, ModelOK(c, m), NEW n, ModelOK(c, n), Extends(m, n),
         NEW a, NEW val, NEW next, Agrees(a, c, n, val, next)
  PROVE  Agrees(a, c, m, val, next)
<1>1. ASSUME NEW v \in 0..(FirstPrime(c) - 1), HasPrime(c, m, v)
      PROVE  <<Primed(c, m, v), next[v]>> \in a
  <2>1. HasPrime(c, n, v) /\ Primed(c, n, v) = Primed(c, m, v)
    BY <1>1, PrimedStays
  <2> QED BY <2>1 DEF Agrees
<1> QED BY <1>1 DEF Agrees

\* A row says the same when more gates have primed forms.
LEMMA RowHoldsStays ==
  ASSUME NEW c, CircuitOK(c), NEW m, ModelOK(c, m), NEW n, ModelOK(c, n), Extends(m, n),
         NEW v \in GateVars(c), NEW prime \in BOOLEAN, prime => RowPrimed(c, m, v), NEW a
  PROVE  /\ RowHolds(c, n, v, prime, a) <=> RowHolds(c, m, v, prime, a)
         /\ prime => RowPrimed(c, n, v)
<1>1. CASE ~prime
  BY <1>1 DEF RowHolds
<1>2. CASE prime
  <2>1. PICK p, q, r : p = <<v, TRUE>> /\ q = Gate(c, v).rhs0 /\ r = Gate(c, v).rhs1
    OBVIOUS
  <2>2. p \in CircuitLits(c) /\ q \in CircuitLits(c) /\ r \in CircuitLits(c) /\ p[1] = v
    BY <2>1, RowLits
  <2>3. p[1] \in 0..(FirstPrime(c) - 1) /\ q[1] \in 0..(FirstPrime(c) - 1) /\ r[1] \in 0..(FirstPrime(c) - 1)
    BY <2>2, CircuitLitIs
  <2>4. HasPrime(c, m, p[1]) /\ HasPrime(c, m, q[1]) /\ HasPrime(c, m, r[1])
    BY <1>2, <2>1, <2>2 DEF RowPrimed
  <2>5. \A w \in 0..(FirstPrime(c) - 1) : HasPrime(c, m, w) => HasPrime(c, n, w) /\ Primed(c, n, w) = Primed(c, m, w)
    BY PrimedStays
  <2>6. /\ HasPrime(c, n, p[1]) /\ HasPrime(c, n, q[1]) /\ HasPrime(c, n, r[1])
        /\ Primed(c, n, p[1]) = Primed(c, m, p[1]) /\ Primed(c, n, q[1]) = Primed(c, m, q[1])
        /\ Primed(c, n, r[1]) = Primed(c, m, r[1])
    BY <2>3, <2>4, <2>5
  <2>7. PrimeLit(c, n, p) = PrimeLit(c, m, p) /\ PrimeLit(c, n, q) = PrimeLit(c, m, q) /\ PrimeLit(c, n, r) = PrimeLit(c, m, r)
    BY <2>6 DEF PrimeLit
  <2>8. RowPrimed(c, n, v)
    BY <2>1, <2>2, <2>6 DEF RowPrimed
  <2>9. /\ RowHolds(c, n, v, prime, a) <=> IsAnd(a, p, q, r) /\ IsAnd(a, PrimeLit(c, n, p), PrimeLit(c, n, q), PrimeLit(c, n, r))
        /\ RowHolds(c, m, v, prime, a) <=> IsAnd(a, p, q, r) /\ IsAnd(a, PrimeLit(c, m, p), PrimeLit(c, m, q), PrimeLit(c, m, r))
    BY <1>2, <2>1 DEF RowHolds
  <2> QED BY <2>7, <2>8, <2>9
<1> QED BY <1>1, <1>2

\* A model that agrees with valuations satisfies the rows.
LEMMA RowAgrees ==
  ASSUME NEW c, CircuitOK(c), NEW m, ModelOK(c, m), NEW a \in Models,
         NEW val, IsValuation(c, val), NEW next, IsValuation(c, next), Agrees(a, c, m, val, next),
         NEW v \in GateVars(c), NEW prime \in BOOLEAN, prime => RowPrimed(c, m, v)
  PROVE  RowHolds(c, m, v, prime, a)
<1>1. PICK p, q, r : p = <<v, TRUE>> /\ q = Gate(c, v).rhs0 /\ r = Gate(c, v).rhs1
  OBVIOUS
<1>2. p \in CircuitLits(c) /\ q \in CircuitLits(c) /\ r \in CircuitLits(c) /\ p[1] = v /\ p[2] = TRUE
  BY <1>1, RowLits
<1>3. \A x \in CircuitLits(c) : (x \in a <=> Holds(val, x)) /\ (HasPrime(c, m, x[1]) => (PrimeLit(c, m, x) \in a <=> Holds(next, x)))
  BY AgreesOn
<1>4. v \in 0..(FirstPrime(c) - 1)
  BY RowLits
<1>5. ASSUME NEW x, IsValuation(c, x)
      PROVE  Holds(x, p) <=> Holds(x, q) /\ Holds(x, r)
  <2>1. x[v] = (Holds(x, q) /\ Holds(x, r)) /\ x[v] \in BOOLEAN
    BY <1>1, <1>4, <1>5 DEF IsValuation, Gate
  <2>2. Holds(x, p) <=> x[v] = TRUE
    BY <1>2 DEF Holds
  <2> QED BY <2>1, <2>2
<1>6. IsAnd(a, p, q, r)
  BY <1>2, <1>3, <1>5 DEF IsAnd
<1>7. ASSUME prime
      PROVE  IsAnd(a, PrimeLit(c, m, p), PrimeLit(c, m, q), PrimeLit(c, m, r))
  <2>1. HasPrime(c, m, p[1]) /\ HasPrime(c, m, q[1]) /\ HasPrime(c, m, r[1])
    BY <1>1, <1>2, <1>7 DEF RowPrimed
  <2>2. /\ PrimeLit(c, m, p) \in a <=> Holds(next, p)
        /\ PrimeLit(c, m, q) \in a <=> Holds(next, q)
        /\ PrimeLit(c, m, r) \in a <=> Holds(next, r)
    BY <1>2, <1>3, <2>1
  <2> QED BY <1>5, <2>2 DEF IsAnd
<1> QED BY <1>1, <1>6, <1>7 DEF RowHolds

\* The variable of a latch.
LEMMA LatchIs ==
  ASSUME NEW c, CircuitOK(c), NEW i \in 1..c.latches
  PROVE  /\ FirstLatch(c) + i - 1 \in LatchVars(c) /\ FirstLatch(c) + i - 1 \in KeptVars(c)
         /\ FirstLatch(c) + i - 1 \in 0..(FirstPrime(c) - 1) /\ FirstLatch(c) + i - 1 < FirstGate(c)
         /\ FirstLatch(c) + i - 1 # 0
<1>1. PICK I \in Nat, l \in Nat, n \in Nat : I = c.inputs /\ l = c.latches /\ n = Len(c.gates)
  BY CircuitSizes
<1>2. PICK F \in Nat, G \in Nat, P \in Nat : F = FirstLatch(c) /\ G = FirstGate(c) /\ P = FirstPrime(c)
  BY CircuitSizes
<1>3. F = 1 + I /\ G = F + l /\ P = G + n
  BY <1>1, <1>2, CircuitSizes
<1>4. F + i - 1 \in F..(G - 1) /\ F + i - 1 \in 0..(P - 1) /\ F + i - 1 < G /\ F + i - 1 # 0
  <2>1. I \in Nat /\ l \in Nat /\ n \in Nat /\ i \in 1..l /\ F = 1 + I /\ G = F + l /\ P = G + n
    BY <1>1, <1>3
  <2> QED BY <2>1
<1>5. F + i - 1 \in LatchVars(c)
  BY <1>2, <1>4, CircuitSizes
<1> QED BY <1>2, <1>4, <1>5 DEF KeptVars

\* A model that agrees with a transition satisfies the assertions.
LEMMA AssertionsAgree ==
  ASSUME NEW c, CircuitOK(c), NEW m, ModelOK(c, m), NEW a \in Models,
         NEW val, IsValuation(c, val), NEW next, IsValuation(c, next), Agrees(a, c, m, val, next),
         Related(c, val, next)
  PROVE  AssertionsHold(c, m, a)
<1>1. \A x \in CircuitLits(c) : (x \in a <=> Holds(val, x)) /\ (HasPrime(c, m, x[1]) => (PrimeLit(c, m, x) \in a <=> Holds(next, x)))
  BY AgreesOn
<1>2. True \in a
  <2>1. 0 \in 0..(FirstPrime(c) - 1) /\ val[0] = FALSE
    BY CircuitSizes DEF IsValuation
  <2> QED BY <2>1 DEF Agrees, True
<1>3. Neg(c.error) \in a
  <2>1. c.error \in CircuitLits(c)
    BY DEF CircuitOK
  <2>2. c.error \in AllLits
    BY <2>1, ModelLits
  <2>3. c.error \notin a
    BY <1>1, <2>1 DEF Related
  <2> QED BY <2>2, <2>3, ModelsAre
<1>4. \A i \in 1..Len(c.constraints) : c.constraints[i] \in a
  <2>1. PICK ks : ks = c.constraints
    OBVIOUS
  <2>2. ks \in Seq(CircuitLits(c))
    BY <2>1 DEF CircuitOK
  <2>3. DOMAIN ks = 1..Len(ks) /\ \A i \in 1..Len(ks) : ks[i] \in CircuitLits(c)
    BY <2>2, LenProperties, ElementOfSeq
  <2>4. \A i \in 1..Len(ks) : Holds(val, ks[i])
    BY <2>1, <2>3 DEF Related, Meets
  <2> QED BY <1>1, <2>1, <2>3, <2>4
<1>5. ASSUME NEW i \in 1..c.latches
      PROVE  LatchHolds(c, m, i, a)
  <2>1. PICK v : v = FirstLatch(c) + i - 1
    OBVIOUS
  <2>2. v \in 0..(FirstPrime(c) - 1) /\ v < FirstGate(c)
    BY <2>1, LatchIs
  <2>3. PICK p : p = <<v, TRUE>>
    OBVIOUS
  <2>4. p \in CircuitLits(c) /\ p[1] = v /\ p[2] = TRUE
    BY <2>2, <2>3 DEF CircuitLits, LitsOf
  <2>5. HasPrime(c, m, v)
    BY <2>2 DEF HasPrime
  <2>6. PrimeLit(c, m, p) \in a <=> Holds(next, p)
    BY <1>1, <2>4, <2>5
  <2>7. PrimeLit(c, m, p) = LatchLit(c, m, i)
    BY <2>1, <2>4 DEF PrimeLit, LatchLit
  <2>8. Holds(next, p) <=> next[v] = TRUE
    BY <2>4 DEF Holds
  <2>9. next[v] = Holds(val, c.next[i])
    BY <2>1 DEF Related
  <2>10. c.next[i] \in a <=> Holds(val, c.next[i])
    <3>1. c.next[i] \in CircuitLits(c)
      BY DEF CircuitOK
    <3> QED BY <1>1, <3>1
  <2>11. next[v] \in BOOLEAN
    BY <2>2 DEF IsValuation
  <2> QED BY <2>6, <2>7, <2>8, <2>9, <2>10, <2>11 DEF LatchHolds
<1> QED BY <1>2, <1>3, <1>4, <1>5 DEF AssertionsHold

-----------------------------------------------------------------------------
(* The inductive invariant: what the clauses mean.                         *)

\* What the gate of v reads is in S.
ReadsFrom(c, S, v) == Gate(c, v).rhs0[1] \in S /\ Gate(c, v).rhs1[1] \in S

\* Every next-state function is one of the variables that are kept.
NextIsKept(c) == \A i \in 1..c.latches : c.next[i][1] \in KeptVars(c)

\* The rows from the last one down to the next one to be visited: what they
\* need is required.
NeedsInv ==
  phase \notin Early /\ GatesInOrder(circuit) =>
    /\ PrimedRoots(circuit) \subseteq primedRequire
    /\ \A i \in 1..circuit.latches : circuit.next[i][1] \in require
    /\ \A v \in GateVars(circuit) : v >= FirstGate(circuit) + row =>
         /\ v \in require => ReadsFrom(circuit, require, v)
         /\ v \in primedRequire => ReadsFrom(circuit, primedRequire, v)

\* The order of loadTransitionRelation(): rows, roots, simplification.
StageInv ==
  /\ phase = "gates" => solver.listed = {} /\ pending = {}
  /\ phase \notin Early /\ phase # "gates" => row = 0

\* Whatever agrees with a transition is a model of the solver.
AdmitsInv ==
  phase \notin Early =>
    \A val, next : \A a \in Models :
      /\ IsValuation(circuit, val) /\ IsValuation(circuit, next)
      /\ Agrees(a, circuit, model, val, next)
      /\ phase # "gates" => Related(circuit, val, next)
      => Means(solver, a) /\ Satisfies(a, pending)

\* If each next-state function is kept, no clause of the occurrence lists
\* is about a variable that may be resolved away: the models of the solver
\* satisfy all the rows that were added, and the roots.
ForbidsInv ==
  phase \notin Early /\ GatesInOrder(circuit) /\ NextIsKept(circuit) =>
    /\ OnlyFrozen(solver, pending)
    /\ \A a \in Models : Means(solver, a) =>
         /\ \A v \in GateVars(circuit) :
              v >= FirstGate(circuit) + row /\ v \in require
                => RowHolds(circuit, model, v, v \in primedRequire, a)
         /\ phase # "gates" => AssertionsHold(circuit, model, a)

\* In model a, each variable that has a value in the trail has that value.
TrailHolds(t, a) == \A v \in VarsOf(t) : a \cap {p \in t : p[1] = v} # {}

\* All primed constraints hold in model a.
PrimedHold(c, m, a) == \A i \in 1..Len(c.constraints) : PrimeLit(c, m, c.constraints[i]) \in a

\* What the solver of the search was loaded with.
LoadedInv ==
  phase = "loaded" =>
    /\ loaded.ok \in BOOLEAN /\ loaded.primeConstraints \in BOOLEAN
    /\ loaded.clauses \in SUBSET SUBSET LitsOf(0..(model.size - 1))
    /\ loaded.units \in SUBSET LitsOf(0..(model.size - 1))
    /\ \A a \in Models :
         loaded.ok /\ Satisfies(a, loaded.clauses) /\ loaded.units \subseteq a <=>
           /\ Satisfies(a, Attached(solver)) /\ TrailHolds(solver.trail, a)
           /\ loaded.primeConstraints => PrimedHold(circuit, model, a)

MeaningInv == NeedsInv /\ StageInv /\ AdmitsInv /\ ForbidsInv /\ LoadedInv

\* Until the solver is created there is nothing to say.
LEMMA NothingMeant ==
  ASSUME phase \in Early
  PROVE  MeaningInv
BY DEF Early, MeaningInv, NeedsInv, StageInv, AdmitsInv, ForbidsInv, LoadedInv

\* A new solver admits everything, and no row has been visited.
LEMMA CreateSolverMeans ==
  ASSUME LoaderInv, CreateSolver, UNCHANGED mainVars
  PROVE  MeaningInv'
<1>1. /\ LoaderInv' /\ phase' = "gates"
      /\ solver'.listed = {} /\ solver'.loose = {} /\ solver'.trail = {} /\ solver'.ok = TRUE
  BY CreateSolverMoves
<1>2. /\ phase = "create" /\ circuit' = circuit /\ model' = model /\ pending' = pending /\ row' = Len(circuit.gates)
      /\ primedRequire' = PrimedRoots(circuit)
      /\ require' = PrimedRoots(circuit) \cup Range(LitVars(circuit.next \o circuit.constraints))
  BY DEF CreateSolver
<1>3. CircuitOK(circuit) /\ pending = {}
  BY <1>2, LoaderHasCircuit DEF LoaderInv, SolverInv, Early
<1>4. phase' \notin Early /\ phase' # "loaded"
  BY <1>1 DEF Early
<1>5. \A a : Means(solver', a) /\ Satisfies(a, pending')
  BY <1>1, <1>2, <1>3 DEF Means, Attached, Satisfies
<1>6. OnlyFrozen(solver', pending')
  BY <1>1, <1>2, <1>3 DEF OnlyFrozen, VarsIn
<1>7. \A v \in GateVars(circuit) : ~(v >= FirstGate(circuit) + row')
  <2>1. PICK G \in Nat, P \in Nat, n \in Nat : G = FirstGate(circuit) /\ P = FirstPrime(circuit) /\ n = Len(circuit.gates)
    BY <1>3, CircuitSizes
  <2>2. P = G + n
    BY <1>3, <2>1, CircuitSizes
  <2>3. G \in Nat /\ P \in Nat /\ n \in Nat
    BY <2>1
  <2>4. \A v \in G..(P - 1) : ~(v >= G + n)
    BY <2>2, <2>3
  <2> QED BY <1>2, <2>1, <2>4 DEF GateVars
<1>8. \A i \in 1..circuit.latches : circuit.next[i][1] \in require'
  <2>1. PICK c : c = circuit
    OBVIOUS
  <2>0. CircuitOK(c)
    BY <1>3, <2>1
  <2>2. Range(LitVars(c.next \o c.constraints))
          = {c.next[i][1] : i \in 1..c.latches} \cup {c.constraints[i][1] : i \in 1..Len(c.constraints)}
    BY <2>0, RootsAre
  <2>3. \A i \in 1..c.latches : c.next[i][1] \in Range(LitVars(c.next \o c.constraints))
    BY <2>2
  <2> QED BY <1>2, <2>1, <2>3
<1>9. NeedsInv'
  BY <1>2, <1>7, <1>8 DEF NeedsInv
<1>10. StageInv'
  BY <1>1, <1>2, <1>3 DEF StageInv
<1>11. AdmitsInv'
  BY <1>5 DEF AdmitsInv
<1>12. ForbidsInv'
  BY <1>1, <1>2, <1>6, <1>7 DEF ForbidsInv
<1>13. LoadedInv'
  BY <1>4 DEF LoadedInv
<1> QED BY <1>9, <1>10, <1>11, <1>12, <1>13 DEF MeaningInv

\* A row that is passed over is of no gate that is required.
LEMMA SkipRowMeans ==
  ASSUME LoaderInv, MeaningInv, SkipRow, UNCHANGED mainVars
  PROVE  MeaningInv'
<1>1. /\ phase = "gates" /\ row > 0 /\ RowVar \notin require /\ row' = row - 1
      /\ phase' = phase /\ circuit' = circuit /\ model' = model /\ pending' = pending /\ solver' = solver
      /\ require' = require /\ primedRequire' = primedRequire
  BY DEF SkipRow, simpVars
<1>2. phase \notin Early /\ phase # "loaded"
  BY <1>1 DEF Early
<1>3. /\ CircuitOK(circuit) /\ row \in 1..Len(circuit.gates) /\ RowVar = FirstGate(circuit) + row - 1
  BY <1>1, RowIs
<1>4. primedRequire \subseteq require
  BY <1>2 DEF LoaderInv, ModelInv
<1>5. \A v \in GateVars(circuit) : v >= FirstGate(circuit) + row' /\ v \in require => v >= FirstGate(circuit) + row
  <2> SUFFICES ASSUME NEW v \in GateVars(circuit), v >= FirstGate(circuit) + row', v # RowVar
               PROVE  v >= FirstGate(circuit) + row
    BY <1>1
  <2>1. PICK G, P, n, r :
          /\ G = FirstGate(circuit) /\ P = FirstPrime(circuit) /\ n = Len(circuit.gates) /\ r = row
          /\ G \in Nat /\ P \in Nat /\ n \in Nat
    BY <1>3, CircuitSizes
  <2>2. G \in Nat /\ P \in Nat /\ r \in 1..n /\ n \in Nat /\ v \in G..(P - 1) /\ v >= G + (r - 1) /\ v # G + r - 1
    BY <1>1, <1>3, <2>1 DEF GateVars
  <2>3. v >= G + r
    BY <2>2
  <2> QED BY <2>1, <2>3
<1>6. NeedsInv'
  <2> SUFFICES ASSUME GatesInOrder(circuit)
               PROVE  /\ PrimedRoots(circuit) \subseteq primedRequire
                      /\ \A i \in 1..circuit.latches : circuit.next[i][1] \in require
                      /\ \A v \in GateVars(circuit) : v >= FirstGate(circuit) + row' =>
                           /\ v \in require => ReadsFrom(circuit, require, v)
                           /\ v \in primedRequire => ReadsFrom(circuit, primedRequire, v)
    BY <1>1 DEF NeedsInv
  <2> QED BY <1>2, <1>4, <1>5 DEF MeaningInv, NeedsInv
<1>7. StageInv'
  BY <1>1 DEF MeaningInv, StageInv
<1>8. AdmitsInv'
  BY <1>1 DEF MeaningInv, AdmitsInv
<1>9. ForbidsInv'
  <2> SUFFICES ASSUME GatesInOrder(circuit), NextIsKept(circuit)
               PROVE  /\ OnlyFrozen(solver, pending)
                      /\ \A a \in Models : Means(solver, a) =>
                           \A v \in GateVars(circuit) :
                             v >= FirstGate(circuit) + row' /\ v \in require
                               => RowHolds(circuit, model, v, v \in primedRequire, a)
    BY <1>1 DEF ForbidsInv
  <2> QED BY <1>2, <1>5 DEF MeaningInv, ForbidsInv
<1>10. LoadedInv'
  BY <1>1, <1>2 DEF LoadedInv
<1> QED BY <1>6, <1>7, <1>8, <1>9, <1>10 DEF MeaningInv

\* The rows from that of v on; one row less is left when v has been visited.
LEMMA RowsFrom ==
  ASSUME LoaderInv, phase = "gates", row > 0, NEW w \in GateVars(circuit), w >= FirstGate(circuit) + (row - 1)
  PROVE  w = RowVar \/ (w > RowVar /\ w >= FirstGate(circuit) + row)
<1>1. CircuitOK(circuit) /\ row \in 1..Len(circuit.gates) /\ RowVar = FirstGate(circuit) + row - 1
  BY RowIs
<1>2. PICK G, P, n, r :
          /\ G = FirstGate(circuit) /\ P = FirstPrime(circuit) /\ n = Len(circuit.gates) /\ r = row
          /\ G \in Nat /\ P \in Nat /\ n \in Nat
  BY <1>1, CircuitSizes
<1>3. G \in Nat /\ P \in Nat /\ r \in 1..n /\ n \in Nat /\ w \in G..(P - 1) /\ w >= G + (r - 1)
  BY <1>1, <1>2 DEF GateVars
<1>4. w = G + r - 1 \/ (w > G + r - 1 /\ w >= G + r)
  BY <1>3
<1> QED BY <1>1, <1>2, <1>4

\* A row that is added speaks of its gate; gates further on stay as they are,
\* as the arguments of the row come before it.
LEMMA AddRowMeans ==
  ASSUME LoaderInv, MeaningInv, AddRow, UNCHANGED mainVars
  PROVE  MeaningInv'
<1>1. PICK c, m, n, v, prime : c = circuit /\ m = model /\ n = model' /\ v = RowVar /\ prime = (v \in primedRequire)
  OBVIOUS
<1>2. PICK req, pri, req1, pri1 : req = require /\ pri = primedRequire /\ req1 = require' /\ pri1 = primedRequire'
  OBVIOUS
<1>3. PICK q, r : q = Gate(c, v).rhs0[1] /\ r = Gate(c, v).rhs1[1]
  OBVIOUS
<1>4. /\ phase = "gates" /\ row > 0 /\ row' = row - 1 /\ v \in req
      /\ req1 = req \cup {q, r} /\ pri1 = IF prime THEN pri \cup {q, r} ELSE pri
      /\ phase' = phase /\ pending' = pending /\ circuit' = c /\ loaded' = loaded
  BY <1>1, <1>2, <1>3, RowAdded
<1>5. /\ Extends(m, n) /\ ModelOK(c, n) /\ (prime => RowPrimed(c, n, v))
      /\ solver'.listed = solver.listed
      /\ \A a \in Models : Means(solver', a) <=> Means(solver, a) /\ RowHolds(c, n, v, prime, a)
  BY <1>1, AddRowMoves
<1>6. CircuitOK(c) /\ ModelOK(c, m) /\ v \in GateVars(c) /\ prime \in BOOLEAN
  BY <1>1, <1>4, RowIs
<1>7. phase \notin Early /\ phase \notin {"unread", "construct"} /\ phase' \notin Early /\ phase' = "gates"
  BY <1>4 DEF Early
<1>8. /\ pri \subseteq req /\ req \subseteq 0..(FirstPrime(c) - 1)
      /\ \A w \in pri : HasPrime(c, m, w)
  BY <1>1, <1>2, <1>7 DEF LoaderInv, ModelInv
<1>9. solver.listed = {} /\ pending = {}
  BY <1>4 DEF MeaningInv, StageInv
<1>10. \A w \in GateVars(c) : w >= FirstGate(c) + row' => w = v \/ (w > v /\ w >= FirstGate(c) + row)
  BY <1>1, <1>4, RowsFrom
<1>11. ASSUME GatesInOrder(c), NEW w \in GateVars(c), w >= v
       PROVE  /\ w \in req1 <=> w \in req
              /\ w \in pri1 <=> w \in pri
  <2>1. q < v /\ r < v
    BY <1>3, <1>6, <1>11, RowLits
  <2>2. Gate(c, v).rhs0 \in CircuitLits(c) /\ Gate(c, v).rhs1 \in CircuitLits(c)
    BY <1>6, RowLits
  <2>3. q \in 0..(FirstPrime(c) - 1) /\ r \in 0..(FirstPrime(c) - 1)
    BY <1>3, <2>2, CircuitLitIs
  <2>4. v \in 0..(FirstPrime(c) - 1) /\ w \in 0..(FirstPrime(c) - 1)
    BY <1>6, <1>11, RowLits
  <2>5. q \in Int /\ r \in Int /\ v \in Int /\ w \in Int
    BY <2>3, <2>4
  <2>6. w # q /\ w # r
    BY <1>11, <2>1, <2>5
  <2> QED BY <1>4, <2>6
<1>12. v >= v /\ \A w \in GateVars(c) : w > v => w >= v
  <2>1. v \in Int /\ \A w \in GateVars(c) : w \in Int
    <3>1. FirstPrime(c) \in Nat /\ v \in 0..(FirstPrime(c) - 1) /\ \A w \in GateVars(c) : w \in 0..(FirstPrime(c) - 1)
      BY <1>6, RowLits, CircuitSizes
    <3> QED BY <3>1
  <2> QED BY <2>1
<1>13. NeedsInv'
  <2> SUFFICES ASSUME GatesInOrder(c)
               PROVE  /\ PrimedRoots(c) \subseteq pri1
                      /\ \A i \in 1..c.latches : c.next[i][1] \in req1
                      /\ \A w \in GateVars(c) : w >= FirstGate(c) + row' =>
                           /\ w \in req1 => ReadsFrom(c, req1, w)
                           /\ w \in pri1 => ReadsFrom(c, pri1, w)
    BY <1>2, <1>4 DEF NeedsInv
  <2>1. /\ PrimedRoots(c) \subseteq pri
        /\ \A i \in 1..c.latches : c.next[i][1] \in req
        /\ \A w \in GateVars(c) : w >= FirstGate(c) + row =>
             /\ w \in req => ReadsFrom(c, req, w)
             /\ w \in pri => ReadsFrom(c, pri, w)
    BY <1>1, <1>2, <1>7 DEF MeaningInv, NeedsInv
  <2>2. req \subseteq req1 /\ pri \subseteq pri1
    BY <1>4
  <2>3. ASSUME NEW w \in GateVars(c), w >= FirstGate(c) + row'
        PROVE  /\ w \in req1 => ReadsFrom(c, req1, w)
               /\ w \in pri1 => ReadsFrom(c, pri1, w)
    <3>1. CASE w = v
      <4>1. v \in pri1 => prime
        BY <1>1, <1>2, <1>6, <1>11, <1>12
      <4> QED BY <1>3, <1>4, <3>1, <4>1 DEF ReadsFrom
    <3>2. CASE w > v /\ w >= FirstGate(c) + row
      <4>1. (w \in req1 <=> w \in req) /\ (w \in pri1 <=> w \in pri)
        BY <1>11, <1>12, <3>2
      <4> QED BY <2>1, <2>2, <3>2, <4>1 DEF ReadsFrom
    <3> QED BY <1>10, <2>3, <3>1, <3>2
  <2> QED BY <2>1, <2>2, <2>3
<1>14. StageInv'
  BY <1>4, <1>5, <1>7, <1>9 DEF StageInv
<1>15. AdmitsInv'
  <2> SUFFICES ASSUME NEW val, NEW next, NEW a \in Models, IsValuation(c, val), IsValuation(c, next), Agrees(a, c, n, val, next)
               PROVE  Means(solver', a) /\ Satisfies(a, {})
    BY <1>1, <1>4, <1>7, <1>9 DEF AdmitsInv
  <2>1. Agrees(a, c, m, val, next)
    BY <1>5, <1>6, AgreesStays
  <2>2. Means(solver, a)
    BY <1>1, <1>4, <1>7, <2>1 DEF MeaningInv, AdmitsInv
  <2>3. RowHolds(c, n, v, prime, a)
    BY <1>5, <1>6, RowAgrees
  <2> QED BY <1>5, <2>2, <2>3 DEF Satisfies
<1>16. ForbidsInv'
  <2> SUFFICES ASSUME GatesInOrder(c), NextIsKept(c)
               PROVE  /\ OnlyFrozen(solver', {})
                      /\ \A a \in Models : Means(solver', a) =>
                           \A w \in GateVars(c) :
                             w >= FirstGate(c) + row' /\ w \in req1 => RowHolds(c, n, w, w \in pri1, a)
    BY <1>1, <1>2, <1>4, <1>7, <1>9 DEF ForbidsInv
  <2>1. OnlyFrozen(solver', {})
    BY <1>5, <1>9 DEF OnlyFrozen, VarsIn
  <2>2. ASSUME NEW a \in Models, Means(solver', a), NEW w \in GateVars(c), w >= FirstGate(c) + row', w \in req1
        PROVE  RowHolds(c, n, w, w \in pri1, a)
    <3>1. Means(solver, a) /\ RowHolds(c, n, v, prime, a)
      BY <1>5, <2>2
    <3>2. CASE w = v
      <4>1. (v \in pri1) = prime
        BY <1>1, <1>2, <1>6, <1>11, <1>12
      <4> QED BY <3>1, <3>2, <4>1
    <3>3. CASE w > v /\ w >= FirstGate(c) + row
      <4>1. w \in req /\ (w \in pri1 <=> w \in pri)
        BY <1>11, <1>12, <2>2, <3>3
      <4>2. RowHolds(c, m, w, w \in pri, a)
        BY <1>1, <1>2, <1>7, <3>1, <3>3, <4>1 DEF MeaningInv, ForbidsInv
      <4>3. PICK b : b = (w \in pri)
        OBVIOUS
      <4>7. b \in BOOLEAN
        BY <4>3
      <4>4. b => RowPrimed(c, m, w)
        <5> SUFFICES ASSUME w \in pri PROVE RowPrimed(c, m, w)
          BY <4>3
        <5>1. ReadsFrom(c, pri, w)
          BY <1>1, <1>2, <1>7, <3>3 DEF MeaningInv, NeedsInv
        <5> QED BY <1>8, <5>1 DEF ReadsFrom, RowPrimed
      <4>5. RowHolds(c, n, w, b, a) <=> RowHolds(c, m, w, b, a)
        BY <1>5, <1>6, <4>4, <4>7, RowHoldsStays
      <4>6. (w \in pri1) = b
        BY <4>1, <4>3
      <4> QED BY <4>2, <4>3, <4>5, <4>6
    <3> QED BY <1>10, <2>2, <3>2, <3>3
  <2> QED BY <2>1, <2>2
<1>17. LoadedInv'
  BY <1>7 DEF LoadedInv
<1> QED BY <1>13, <1>14, <1>15, <1>16, <1>17 DEF MeaningInv

\* A clause of the roots that is listed is about variables that stay, if the
\* next-state functions do.
LEMMA RootsStay ==
  ASSUME NEW c, CircuitOK(c), NextIsKept(c), NEW m, ModelOK(c, m),
         \A v \in KeptVars(c) : HasPrime(c, m, v),
         NEW d, PartOf(d, Assertions(c, m))
  PROVE  VarsOf(d) \subseteq FrozenVars(c, m)
<1>1. \A i \in 1..c.latches : FirstLatch(c) + i - 1 \in KeptVars(c) /\ HasPrime(c, m, FirstLatch(c) + i - 1)
  BY LatchIs
<1>2. PICK cs : cs = Assertions(c, m)
  OBVIOUS
<1>3. /\ cs \in Seq(SUBSET LitsOf(0..(m.size - 1)))
      /\ \A e \in Range(cs) : RootClause(c, m, e)
  BY <1>1, <1>2, AssertionsAre
<1>4. PICK i \in 1..Len(cs) : d \subseteq cs[i] /\ ~\E p : cs[i] = {p}
  BY <1>2 DEF PartOf
<1>5. cs[i] \in Range(cs)
  BY <1>3, <1>4, LenProperties DEF Range
<1>6. PICK j \in 1..c.latches : cs[i] \in Range(EqualClauses(c, m, j))
  BY <1>3, <1>4, <1>5 DEF RootClause
<1>7. VarsOf(cs[i]) = {Primed(c, m, FirstLatch(c) + j - 1), c.next[j][1]}
  BY <1>1, <1>6, EqualClausesAre
<1>8. VarsOf(d) \subseteq VarsOf(cs[i])
  BY <1>4 DEF VarsOf
<1>9. FrozenVars(c, m) = KeptVars(c) \cup {Primed(c, m, v) : v \in KeptVars(c)}
  BY KeptAre
<1>10. c.next[j][1] \in KeptVars(c) /\ FirstLatch(c) + j - 1 \in KeptVars(c)
  BY <1>1 DEF NextIsKept
<1> QED BY <1>7, <1>8, <1>9, <1>10

\* The roots say what makes two valuations a transition.
LEMMA AssertRootsMeans ==
  ASSUME LoaderInv, MeaningInv, AssertRoots, UNCHANGED mainVars
  PROVE  MeaningInv'
<1>1. PICK c, m : c = circuit /\ m = model
  OBVIOUS
<1>2. /\ phase = "gates" /\ row = 0 /\ phase' = "adding" /\ circuit' = c /\ model' = m /\ row' = row
      /\ require' = require /\ primedRequire' = primedRequire /\ pending' = pending
  BY <1>1 DEF AssertRoots
<1>3. /\ \A d \in solver'.listed : d \in solver.listed \/ PartOf(d, Assertions(c, m))
      /\ \A a \in Models : Means(solver', a) <=> Means(solver, a) /\ AssertionsHold(c, m, a)
      /\ LoaderInv'
  BY <1>1, AssertRootsMoves
<1>4. phase \notin Early /\ phase' \notin Early /\ phase' # "gates" /\ phase' # "loaded" /\ phase \notin {"unread", "construct"}
  BY <1>2 DEF Early
<1>5. CircuitOK(c) /\ ModelOK(c, m) /\ \A v \in KeptVars(c) : HasPrime(c, m, v)
  BY <1>1, <1>2, <1>4, LoaderHasCircuit DEF LoaderInv, ModelInv
<1>6. solver.listed = {} /\ pending = {}
  BY <1>2 DEF MeaningInv, StageInv
<1>7. solver'.frozen = FrozenVars(c, m)
  BY <1>2, <1>3, <1>4 DEF LoaderInv, SolverInv
<1>8. NeedsInv'
  BY <1>1, <1>2, <1>4 DEF MeaningInv, NeedsInv
<1>9. StageInv'
  BY <1>2, <1>4 DEF StageInv
<1>10. AdmitsInv'
  <2> SUFFICES ASSUME NEW val, NEW next, NEW a \in Models, IsValuation(c, val), IsValuation(c, next),
                      Agrees(a, c, m, val, next), Related(c, val, next)
               PROVE  Means(solver', a) /\ Satisfies(a, {})
    BY <1>2, <1>4, <1>6 DEF AdmitsInv
  <2>1. Means(solver, a)
    BY <1>1, <1>2, <1>4 DEF MeaningInv, AdmitsInv
  <2>2. AssertionsHold(c, m, a)
    BY <1>5, AssertionsAgree
  <2> QED BY <1>3, <2>1, <2>2 DEF Satisfies
<1>11. ForbidsInv'
  <2> SUFFICES ASSUME GatesInOrder(c), NextIsKept(c)
               PROVE  /\ OnlyFrozen(solver', {})
                      /\ \A a \in Models : Means(solver', a) =>
                           /\ \A v \in GateVars(c) :
                                v >= FirstGate(c) + row /\ v \in require => RowHolds(c, m, v, v \in primedRequire, a)
                           /\ AssertionsHold(c, m, a)
    BY <1>2, <1>4, <1>6 DEF ForbidsInv
  <2>1. \A d \in solver'.listed : VarsOf(d) \subseteq FrozenVars(c, m)
    BY <1>3, <1>5, <1>6, RootsStay
  <2>2. OnlyFrozen(solver', {})
    BY <1>7, <2>1 DEF OnlyFrozen, VarsIn
  <2>3. \A a \in Models : Means(solver, a) =>
           \A v \in GateVars(c) : v >= FirstGate(c) + row /\ v \in require => RowHolds(c, m, v, v \in primedRequire, a)
    BY <1>1, <1>4 DEF MeaningInv, ForbidsInv
  <2> QED BY <1>3, <2>2, <2>3
<1>12. LoadedInv'
  BY <1>4 DEF LoadedInv
<1> QED BY <1>8, <1>9, <1>10, <1>11, <1>12 DEF MeaningInv

\* Simplifying keeps both: what was a model can be one, and if only frozen
\* variables are listed, what is a model was one.
LEMMA SimplifyMeans ==
  ASSUME LoaderInv, MeaningInv, Eliminate, UNCHANGED mainVars
  PROVE  MeaningInv'
<1>1. phase \notin Early /\ Keeps(solver, solver', pending, pending')
  BY SimplifyMoves
<1>2. /\ phase \in {"adding", "loop", "subsume", "elim", "resolve"}
      /\ phase' \in {"loop", "subsume", "elim", "resolve", "done"}
  <2>1. CASE StartEliminate
    BY <2>1 DEF StartEliminate
  <2>2. CASE Gather \/ FinishEliminate
    BY <2>2 DEF Gather, FinishEliminate
  <2>3. CASE TakeClause \/ RemoveSubsumed \/ ClauseChecked \/ Subsumed
    BY <2>3 DEF TakeClause, RemoveSubsumed, ClauseChecked, Subsumed
  <2>4. CASE StrengthenOther
    BY <2>4 DEF StrengthenOther
  <2>5. CASE SkipVar \/ EliminateVar \/ Resolved \/ EndElimination
    BY <2>5 DEF SkipVar, EliminateVar, Resolved, EndElimination
  <2>6. CASE AddResolvent
    BY <2>6 DEF AddResolvent
  <2> QED BY <2>1, <2>2, <2>3, <2>4, <2>5, <2>6 DEF Eliminate, Simplify
<1>3. PICK c, m : c = circuit /\ m = model
  OBVIOUS
<1>4. /\ circuit' = c /\ model' = m /\ row' = row /\ require' = require /\ primedRequire' = primedRequire
  BY <1>3 DEF Eliminate
<1>5. phase # "gates" /\ phase' \notin Early /\ phase' # "gates" /\ phase' # "loaded"
  BY <1>2 DEF Early
<1>6. NeedsInv'
  BY <1>1, <1>3, <1>4, <1>5 DEF MeaningInv, NeedsInv
<1>7. StageInv'
  BY <1>1, <1>4, <1>5 DEF MeaningInv, StageInv
<1>8. AdmitsInv'
  <2> SUFFICES ASSUME NEW val, NEW next, NEW a \in Models, IsValuation(c, val), IsValuation(c, next),
                      Agrees(a, c, m, val, next), Related(c, val, next)
               PROVE  Means(solver', a) /\ Satisfies(a, pending')
    BY <1>4, <1>5 DEF AdmitsInv
  <2>1. Means(solver, a) /\ Satisfies(a, pending)
    BY <1>1, <1>3 DEF MeaningInv, AdmitsInv
  <2> QED BY <1>1, <2>1 DEF Keeps
<1>9. ForbidsInv'
  <2> SUFFICES ASSUME GatesInOrder(c), NextIsKept(c)
               PROVE  /\ OnlyFrozen(solver', pending')
                      /\ \A a \in Models : Means(solver', a) =>
                           /\ \A v \in GateVars(c) :
                                v >= FirstGate(c) + row /\ v \in require => RowHolds(c, m, v, v \in primedRequire, a)
                           /\ AssertionsHold(c, m, a)
    BY <1>4, <1>5 DEF ForbidsInv
  <2>1. /\ OnlyFrozen(solver, pending)
        /\ \A a \in Models : Means(solver, a) =>
             /\ \A v \in GateVars(c) : v >= FirstGate(c) + row /\ v \in require => RowHolds(c, m, v, v \in primedRequire, a)
             /\ AssertionsHold(c, m, a)
    BY <1>1, <1>3, <1>5 DEF MeaningInv, ForbidsInv
  <2> QED BY <1>1, <2>1 DEF Keeps
<1>10. LoadedInv'
  BY <1>5 DEF LoadedInv
<1> QED BY <1>6, <1>7, <1>8, <1>9, <1>10 DEF MeaningInv

\* The assignments of a trail, variable by variable.
Units(t) ==
  [i \in DOMAIN Ascending(VarsOf(t)) |-> {p \in t : p[1] = Ascending(VarsOf(t))[i]}]

\* The primed constraints.
PrimedUnits(c, m) == [i \in DOMAIN c.constraints |-> {PrimeLit(c, m, c.constraints[i])}]

\* The trail is copied as clauses: one for each variable that is assigned.
LEMMA UnitsAre ==
  ASSUME NEW N \in Nat, NEW t \in SUBSET LitsOf(0..N)
  PROVE  /\ Units(t) \in Seq(SUBSET LitsOf(0..N))
         /\ \A a : Hits(a, Units(t)) <=> TrailHolds(t, a)
<1>1. PICK V : V = VarsOf(t)
  OBVIOUS
<1>2. V \in SUBSET (0..N)
  BY <1>1 DEF VarsOf, LitsOf
<1>3. PICK s : s = Ascending(V)
  OBVIOUS
<1>4. s \in Seq(V) /\ Range(s) = V
  BY <1>2, <1>3, AscendingIs
<1>5. DOMAIN s = 1..Len(s) /\ Len(s) \in Nat
  BY <1>4, LenProperties
<1>6. PICK u : u = Units(t)
  OBVIOUS
<1>7. u = [i \in 1..Len(s) |-> {p \in t : p[1] = s[i]}]
  BY <1>1, <1>3, <1>5, <1>6 DEF Units
<1>8. u \in [1..Len(s) -> SUBSET LitsOf(0..N)]
  BY <1>7
<1>9. u \in Seq(SUBSET LitsOf(0..N))
  BY <1>5, <1>8, SeqDef
<1>10. Len(u) = Len(s)
  BY <1>5, <1>8, <1>9, LenProperties
<1>11. \A a : Hits(a, u) <=> \A i \in 1..Len(s) : a \cap {p \in t : p[1] = s[i]} # {}
  BY <1>7, <1>10 DEF Hits
<1>12. V = {s[i] : i \in 1..Len(s)}
  BY <1>4, <1>5 DEF Range
<1>13. \A a : Hits(a, u) <=> \A v \in V : a \cap {p \in t : p[1] = v} # {}
  BY <1>11, <1>12
<1> QED BY <1>1, <1>6, <1>9, <1>13 DEF TrailHolds

\* The primed constraints are copied as unit clauses.
LEMMA PrimedUnitsAre ==
  ASSUME NEW c, CircuitOK(c), NEW m, ModelOK(c, m), \A v \in KeptVars(c) : HasPrime(c, m, v)
  PROVE  /\ PrimedUnits(c, m) \in Seq(SUBSET LitsOf(0..(m.size - 1)))
         /\ \A a : Hits(a, PrimedUnits(c, m)) <=> PrimedHold(c, m, a)
<1>1. PICK L : L = LitsOf(0..(m.size - 1))
  OBVIOUS
<1>2. PICK ks : ks = c.constraints
  OBVIOUS
<1>3. ks \in Seq(CircuitLits(c))
  BY <1>2 DEF CircuitOK
<1>4. DOMAIN ks = 1..Len(ks) /\ Len(ks) \in Nat /\ \A i \in 1..Len(ks) : ks[i] \in CircuitLits(c)
  BY <1>3, LenProperties, ElementOfSeq
<1>5. \A i \in 1..Len(ks) : ks[i][1] \in KeptVars(c)
  <2>1. PrimedRoots(c) = {c.error[1]} \cup {c.constraints[i][1] : i \in 1..Len(c.constraints)}
    BY RootsAre
  <2> QED BY <1>2, <2>1 DEF KeptVars
<1>6. \A i \in 1..Len(ks) : PrimeLit(c, m, ks[i]) \in L
  BY <1>1, <1>4, <1>5, ModelLits
<1>7. PICK u : u = PrimedUnits(c, m)
  OBVIOUS
<1>8. u = [i \in 1..Len(ks) |-> {PrimeLit(c, m, ks[i])}]
  BY <1>2, <1>4, <1>7 DEF PrimedUnits
<1>9. u \in [1..Len(ks) -> SUBSET L]
  BY <1>6, <1>8
<1>10. u \in Seq(SUBSET L)
  BY <1>4, <1>9, SeqDef
<1>11. Len(u) = Len(ks)
  BY <1>4, <1>9, <1>10, LenProperties
<1>12. \A a : Hits(a, u) <=> \A i \in 1..Len(ks) : a \cap {PrimeLit(c, m, ks[i])} # {}
  BY <1>8, <1>11 DEF Hits
<1>13. \A a : Hits(a, u) <=> \A i \in 1..Len(ks) : PrimeLit(c, m, ks[i]) \in a
  BY <1>12
<1> QED BY <1>1, <1>2, <1>7, <1>10, <1>13 DEF PrimedHold

\* A solver with given clauses and no assignment.
LEMMA CopiedSolver ==
  ASSUME NEW m, m.size \in Nat, NEW A \in SUBSET SUBSET LitsOf(0..(m.size - 1))
  PROVE  LET s == [AddVars(NewSolver({}), m) EXCEPT !.loose = A]
         IN  /\ Fine(s) /\ s.vars = 0..(m.size - 1)
             /\ \A a : Means(s, a) <=> Satisfies(a, A)
<1>1. PICK f : f = AddVars(NewSolver({}), m)
  OBVIOUS
<1>2. /\ Fine(f) /\ f.vars = 0..(m.size - 1) /\ f.listed = {} /\ f.loose = {} /\ f.trail = {}
      /\ f.ok = TRUE /\ f.queue = {}
  BY <1>1, FreshSolver
<1>3. PICK s : s = [f EXCEPT !.loose = A]
  OBVIOUS
<1>4. DOMAIN f = SolverFields
  BY <1>2 DEF Fine
<1>5. /\ DOMAIN s = SolverFields /\ s.vars = f.vars /\ s.listed = {} /\ s.loose = A /\ s.trail = {} /\ s.ok = TRUE
      /\ s.queue = {}
  BY <1>2, <1>3, <1>4 DEF SolverFields
<1>6. Fine(s)
  BY <1>2, <1>5 DEF Fine
<1>7. \A a : Means(s, a) <=> Satisfies(a, A)
  BY <1>5 DEF Means, Attached
<1> QED BY <1>1, <1>2, <1>3, <1>5, <1>6, <1>7

\* The solver of the search gets the clauses, the trail and, if asked for, the
\* primed constraints, and nothing but these.
LEMMA LoadMeans ==
  ASSUME LoaderInv, MeaningInv, Load, UNCHANGED mainVars
  PROVE  MeaningInv'
<1>1. PICK c, m : c = circuit /\ m = model
  OBVIOUS
<1>2. /\ phase = "done" /\ phase' = "loaded" /\ circuit' = c /\ model' = m /\ row' = row
      /\ require' = require /\ primedRequire' = primedRequire /\ pending' = pending /\ solver' = solver
  BY <1>1 DEF Load
<1>3. phase \notin Early /\ phase' \notin Early /\ phase' # "gates" /\ phase # "gates" /\ phase \notin {"unread", "construct"}
  BY <1>2 DEF Early
<1>4. CircuitOK(c) /\ ModelOK(c, m) /\ \A v \in KeptVars(c) : HasPrime(c, m, v)
  BY <1>1, <1>2, <1>3, LoaderHasCircuit DEF LoaderInv, ModelInv
<1>5. PICK A, t : A = Attached(solver) /\ t = solver.trail
  OBVIOUS
<1>6. PICK L : L = LitsOf(0..(m.size - 1))
  OBVIOUS
<1>7. A \in SUBSET SUBSET L /\ t \in SUBSET L
  <2>1. Fine(solver) /\ solver.vars = 0..(m.size - 1)
    BY <1>1, <1>3 DEF LoaderInv, SolverInv, SimplifierOK
  <2> QED BY <1>5, <1>6, <2>1 DEF Fine, Attached
<1>8. m.size \in Nat /\ m.size - 1 \in Nat
  <2>1. PICK F \in Nat, P \in Nat, k \in Nat : F = FirstPrime(c) /\ P = Primes(c) /\ k = Len(m.primedAnds) /\ F >= 1
    <3>1. m.primedAnds \in Seq(GateVars(c))
      BY <1>4 DEF ModelOK
    <3>2. Len(m.primedAnds) \in Nat
      BY <3>1, LenProperties
    <3>3. FirstGate(c) \in Nat /\ FirstPrime(c) \in Nat /\ FirstGate(c) >= 1 /\ FirstPrime(c) >= FirstGate(c)
      BY <1>4, Places
    <3>4. FirstPrime(c) >= 1
      BY <3>3
    <3> QED BY <1>4, <3>2, <3>4, Places
  <2>2. m.size = F + P + k
    BY <1>4, <2>1 DEF ModelOK
  <2>3. F \in Nat /\ P \in Nat /\ k \in Nat /\ F >= 1
    BY <2>1
  <2>4. F + P + k \in Nat /\ (F + P + k) - 1 \in Nat
    BY <2>3
  <2> QED BY <2>2, <2>4
<1>9. PICK f, u, p : f = [AddVars(NewSolver({}), m) EXCEPT !.loose = A] /\ u = Units(t) /\ p = PrimedUnits(c, m)
  OBVIOUS
<1>10. Fine(f) /\ f.vars = 0..(m.size - 1) /\ \A a : Means(f, a) <=> Satisfies(a, A)
  BY <1>6, <1>7, <1>8, <1>9, CopiedSolver
<1>11. u \in Seq(SUBSET L) /\ \A a : Hits(a, u) <=> TrailHolds(t, a)
  BY <1>6, <1>7, <1>8, <1>9, UnitsAre
<1>12. p \in Seq(SUBSET L) /\ \A a : Hits(a, p) <=> PrimedHold(c, m, a)
  BY <1>4, <1>6, <1>9, PrimedUnitsAre
<1>13. PICK asked \in BOOLEAN :
         loaded' = [primeConstraints |-> asked,
                    ok      |-> AddLooseAll(f, u \o IF asked THEN p ELSE <<>>).ok,
                    clauses |-> Attached(AddLooseAll(f, u \o IF asked THEN p ELSE <<>>)),
                    units   |-> AddLooseAll(f, u \o IF asked THEN p ELSE <<>>).trail]
  BY <1>1, <1>5, <1>9 DEF Load, Units, PrimedUnits
<1>14. PICK cs : cs = u \o IF asked THEN p ELSE <<>>
  OBVIOUS
<1>15. cs \in Seq(SUBSET L) /\ \A a : Hits(a, cs) <=> TrailHolds(t, a) /\ (asked => PrimedHold(c, m, a))
  <2>1. PICK x : x = IF asked THEN p ELSE <<>>
    OBVIOUS
  <2>2. PICK S : S = SUBSET L
    OBVIOUS
  <2>3. x \in Seq(S) /\ \A a : Hits(a, x) <=> (asked => PrimedHold(c, m, a))
    <3>1. CASE asked
      BY <1>12, <2>1, <2>2, <3>1
    <3>2. CASE ~asked
      <4>1. x = <<>> /\ x \in Seq(S) /\ Len(x) = 0
        BY <2>1, <3>2
      <4>2. \A a : Hits(a, x)
        BY <4>1 DEF Hits
      <4> QED BY <3>2, <4>1, <4>2
    <3> QED BY <3>1, <3>2
  <2>4. u \in Seq(S)
    BY <1>11, <2>2
  <2>5. u \o x \in Seq(S) /\ \A a : Hits(a, u \o x) <=> Hits(a, u) /\ Hits(a, x)
    BY <2>3, <2>4, HitsBoth
  <2> QED BY <1>11, <1>14, <2>1, <2>2, <2>3, <2>5
<1>16. PICK s : s = AddLooseAll(f, cs)
  OBVIOUS
<1>17. Fine(s) /\ SameVars(f, s) /\ \A a \in Models : Means(s, a) <=> Means(f, a) /\ Hits(a, cs)
  <2>1. cs \in Seq(SUBSET LitsOf(f.vars))
    BY <1>6, <1>10, <1>15
  <2> QED BY <1>10, <1>16, <2>1, AllLooseAdded
<1>18. PICK l : l = loaded'
  OBVIOUS
<1>19. l.primeConstraints = asked /\ l.ok = s.ok /\ l.clauses = Attached(s) /\ l.units = s.trail
  BY <1>13, <1>14, <1>16, <1>18
<1>20. s.vars = 0..(m.size - 1)
  BY <1>10, <1>17 DEF SameVars
<1>21. l.ok \in BOOLEAN /\ l.primeConstraints \in BOOLEAN /\ l.clauses \in SUBSET SUBSET L /\ l.units \in SUBSET L
  BY <1>6, <1>17, <1>19, <1>20 DEF Fine, Attached
<1>22. \A a \in Models :
         l.ok /\ Satisfies(a, l.clauses) /\ l.units \subseteq a <=>
           /\ Satisfies(a, A) /\ TrailHolds(t, a)
           /\ l.primeConstraints => PrimedHold(c, m, a)
  <2>1. \A a \in Models : Means(s, a) <=> l.ok /\ Satisfies(a, l.clauses) /\ l.units \subseteq a
    BY <1>19 DEF Means
  <2> QED BY <1>10, <1>15, <1>17, <1>19, <2>1
<1>23. LoadedInv'
  BY <1>1, <1>2, <1>5, <1>6, <1>18, <1>21, <1>22 DEF LoadedInv
<1>24. NeedsInv'
  BY <1>1, <1>2, <1>3 DEF MeaningInv, NeedsInv
<1>25. StageInv'
  BY <1>2, <1>3 DEF MeaningInv, StageInv
<1>26. AdmitsInv'
  BY <1>1, <1>2, <1>3 DEF MeaningInv, AdmitsInv
<1>27. ForbidsInv'
  BY <1>1, <1>2, <1>3 DEF MeaningInv, ForbidsInv
<1> QED BY <1>23, <1>24, <1>25, <1>26, <1>27 DEF MeaningInv

\* Steps of main() do not touch what is loaded.
LEMMA MainMeans ==
  ASSUME MeaningInv, circuit' = circuit, UNCHANGED loaderVars
  PROVE  MeaningInv'
<1>1. /\ solver' = solver /\ phase' = phase /\ pending' = pending
      /\ model' = model /\ row' = row /\ require' = require /\ primedRequire' = primedRequire /\ loaded' = loaded
  BY DEF loaderVars, simpVars
<1>2. NeedsInv'
  BY <1>1 DEF MeaningInv, NeedsInv
<1>3. StageInv'
  BY <1>1 DEF MeaningInv, StageInv
<1>4. AdmitsInv'
  BY <1>1 DEF MeaningInv, AdmitsInv
<1>5. ForbidsInv'
  BY <1>1 DEF MeaningInv, ForbidsInv
<1>6. LoadedInv'
  BY <1>1 DEF MeaningInv, LoadedInv
<1> QED BY <1>2, <1>3, <1>4, <1>5, <1>6 DEF MeaningInv

\* What the clauses mean is invariant.
LEMMA MeaningInvStep ==
  ASSUME LoaderInv, MeaningInv, [Next]_vars
  PROVE  MeaningInv'
<1>1. phase' \in Early => MeaningInv'
  BY DEF Early, MeaningInv, NeedsInv, StageInv, AdmitsInv, ForbidsInv, LoadedInv
<1>2. CASE ReadModel
  <2>1. phase = "unread"
    BY <1>2 DEF ReadModel, ModelFromAiger, HasCircuit, LoaderInv, ModelInv
  <2>2. phase' \in Early
    BY <1>2, <2>1 DEF ReadModel, NewVarsOf, Early
  <2> QED BY <1>1, <2>2
<1>3. CASE (ParseArg \/ ReadFile \/ PrintVerdict) /\ UNCHANGED loaderVars
  <2>1. circuit' = circuit
    BY <1>3 DEF ParseArg, ReadFile, PrintVerdict
  <2> QED BY <1>3, <2>1, MainMeans
<1>4. CASE pc = "check" /\ LoaderNext /\ UNCHANGED mainVars
  <2>1. CASE Construct
    <3>1. phase' \in Early
      BY <2>1 DEF Construct, Early
    <3> QED BY <1>1, <3>1
  <2> QED BY <1>4, <2>1, CreateSolverMeans, SkipRowMeans, AddRowMeans, AssertRootsMeans, SimplifyMeans, LoadMeans
          DEF LoaderNext
<1>5. CASE phase = "loaded" /\ Check /\ UNCHANGED loaderVars
  <2>1. circuit' = circuit
    BY <1>5 DEF Check
  <2> QED BY <1>5, <2>1, MainMeans
<1>6. CASE UNCHANGED vars
  <2>1. circuit' = circuit /\ UNCHANGED loaderVars
    BY <1>6 DEF vars
  <2> QED BY <2>1, MainMeans
<1> QED BY <1>2, <1>3, <1>4, <1>5, <1>6 DEF Next

\* Every state of the program satisfies it.
LEMMA MeaningInvHolds == Spec => [](LoaderInv /\ MeaningInv)
<1>1. Init => LoaderInv /\ MeaningInv
  <2>1. Init => phase \in Early
    BY DEF Init, LoaderInit, Early
  <2> QED BY <2>1, LoaderInvInit, NothingMeant
<1>2. LoaderInv /\ MeaningInv /\ [Next]_vars => (LoaderInv /\ MeaningInv)'
  BY LoaderInvStep, MeaningInvStep
<1> QED BY <1>1, <1>2, PTL DEF Spec

-----------------------------------------------------------------------------
\* What Values computes is a valuation.
LEMMA ValuesAreValuation ==
  ASSUME NEW c, CircuitOK(c), GatesInOrder(c), NEW on \in SUBSET (InputVars(c) \cup LatchVars(c))
  PROVE  IsValuation(c, Values(c, on))
<1>1. PICK val : val = Values(c, on)
  OBVIOUS
<1>2. \A v \in 0..(FirstPrime(c) - 1) : val[v] \in BOOLEAN /\ val[v] = Evaluated(c, on, val, v)
  BY <1>1, ValuesAre
<1>3. PICK I \in Nat, l \in Nat, n \in Nat : I = c.inputs /\ l = c.latches /\ n = Len(c.gates)
  BY CircuitSizes
<1>4. PICK F \in Nat, G \in Nat, P \in Nat : F = FirstLatch(c) /\ G = FirstGate(c) /\ P = FirstPrime(c)
  BY CircuitSizes
<1>5. F = 1 + I /\ G = F + l /\ P = G + n
  BY <1>3, <1>4, CircuitSizes
<1>6. I \in Nat /\ l \in Nat /\ n \in Nat /\ F \in Nat /\ G \in Nat /\ P \in Nat
  BY <1>3, <1>4
<1>7. 0 \in 0..(P - 1) /\ 0 < G /\ 0 \notin 1..(F - 1) /\ 0 \notin F..(G - 1)
      /\ \A v \in G..(P - 1) : v \in 0..(P - 1) /\ ~(v < G)
  BY <1>5, <1>6
<1>8. val[0] = FALSE
  <2>1. 0 \notin on
    BY <1>4, <1>7, CircuitSizes
  <2>2. Evaluated(c, on, val, 0) <=> 0 \in on
    BY <1>4, <1>7 DEF Evaluated
  <2>3. val[0] \in BOOLEAN /\ val[0] = Evaluated(c, on, val, 0)
    BY <1>2, <1>4, <1>7
  <2> QED BY <2>1, <2>2, <2>3
<1>9. ASSUME NEW v \in GateVars(c)
      PROVE  val[v] = (Holds(val, c.gates[v - FirstGate(c) + 1].rhs0) /\ Holds(val, c.gates[v - FirstGate(c) + 1].rhs1))
  <2>1. v \in 0..(FirstPrime(c) - 1) /\ ~(v < FirstGate(c))
    BY <1>4, <1>7, <1>9 DEF GateVars
  <2>2. val[v] = Evaluated(c, on, val, v)
    BY <1>2, <2>1
  <2> QED BY <2>1, <2>2 DEF Evaluated, Holds
<1> QED BY <1>1, <1>2, <1>8, <1>9 DEF IsValuation

\* A model has one literal of each variable.
LEMMA LitAt ==
  ASSUME NEW a \in Models, NEW w \in Nat, NEW x \in BOOLEAN, <<w, x>> \in a, NEW b \in BOOLEAN
  PROVE  <<w, b>> \in a <=> x = b
<1>1. \A p \in AllLits : p \in a <=> Neg(p) \notin a
  BY ModelsAre
<1>2. <<w, TRUE>> \in AllLits /\ <<w, FALSE>> \in AllLits
  BY DEF AllLits, LitsOf
<1>3. Neg(<<w, TRUE>>) = <<w, FALSE>>
  BY DEF Neg
<1>4. <<w, TRUE>> \in a <=> <<w, FALSE>> \notin a
  BY <1>1, <1>2, <1>3
<1>5. (x = TRUE \/ x = FALSE) /\ (b = TRUE \/ b = FALSE)
  OBVIOUS
<1> QED BY <1>4, <1>5

\* Every variable has a literal in a model.
LEMMA LitOfVar ==
  ASSUME NEW a \in Models, NEW w \in Nat
  PROVE  <<w, TRUE>> \notin a => <<w, FALSE>> \in a
<1>1. \A p \in AllLits : p \in a <=> Neg(p) \notin a
  BY ModelsAre
<1>2. <<w, TRUE>> \in AllLits /\ <<w, FALSE>> \in AllLits
  BY DEF AllLits, LitsOf
<1>3. Neg(<<w, FALSE>>) = <<w, TRUE>>
  BY DEF Neg
<1> QED BY <1>1, <1>2, <1>3

-----------------------------------------------------------------------------
(* From a model of the clauses back to a transition.                       *)

\* Literal p at the place of its variable in a model.
At(place, p) == <<place[p[1]], p[2]>>

\* Gate v is the conjunction of its arguments, all at their places.
PlacedAnd(c, place, v, a) ==
  IsAnd(a, At(place, <<v, TRUE>>), At(place, Gate(c, v).rhs0), At(place, Gate(c, v).rhs1))

\* A place for each variable of the circuit.
IsPlace(c, place) == place \in [0..(FirstPrime(c) - 1) -> Nat]

\* The gates of R read from R and are conjunctions.
RowsPlaced(c, place, R, a) ==
  \A v \in GateVars(c) : v \in R => ReadsFrom(c, R, v) /\ PlacedAnd(c, place, v, a)

\* The variables that are no gate or in R have the values val.
HasValues(c, place, R, val, a) ==
  \A v \in 0..(FirstPrime(c) - 1) : v < FirstGate(c) \/ v \in R => <<place[v], val[v]>> \in a

\* A model in which the gates that are required are conjunctions has the
\* values that follow from its inputs and latches.
LEMMA PlacedValues ==
  ASSUME NEW c, CircuitOK(c), GatesInOrder(c), NEW a \in Models,
         NEW place, IsPlace(c, place), <<place[0], FALSE>> \in a,
         NEW R \in SUBSET (0..(FirstPrime(c) - 1)), RowsPlaced(c, place, R, a)
  PROVE  \E on \in SUBSET (InputVars(c) \cup LatchVars(c)) : HasValues(c, place, R, Values(c, on), a)
<1>a. place \in [0..(FirstPrime(c) - 1) -> Nat]
  BY DEF IsPlace
<1>b. \A v \in GateVars(c) : v \in R => ReadsFrom(c, R, v) /\ PlacedAnd(c, place, v, a)
  BY DEF RowsPlaced
<1>1. PICK on : on = {v \in InputVars(c) \cup LatchVars(c) : <<place[v], TRUE>> \in a}
  OBVIOUS
<1>2. on \in SUBSET (InputVars(c) \cup LatchVars(c))
  BY <1>1
<1>3. PICK val : val = Values(c, on)
  OBVIOUS
<1>4. IsValuation(c, val) /\ \A v \in 0..(FirstPrime(c) - 1) : val[v] \in BOOLEAN /\ val[v] = Evaluated(c, on, val, v)
  BY <1>2, <1>3, ValuesAre, ValuesAreValuation
<1>5. PICK G \in Nat, P \in Nat : G = FirstGate(c) /\ P = FirstPrime(c) /\ G <= P
  <2>1. FirstGate(c) \in Nat /\ FirstPrime(c) \in Nat /\ FirstPrime(c) >= FirstGate(c)
    BY Places
  <2>2. FirstGate(c) <= FirstPrime(c)
    BY <2>1
  <2> QED BY <2>1, <2>2
<1>6. PICK D : D = {v \in 0..(P - 1) : v < G \/ v \in R}
  OBVIOUS
<1>7. PICK S : S = {v \in D : <<place[v], val[v]>> \in a}
  OBVIOUS
<1>8. ASSUME NEW n \in D, \A k \in D : k < n => k \in S
      PROVE  n \in S
  <2>1. n \in 0..(P - 1) /\ n \in Nat /\ place[n] \in Nat /\ val[n] \in BOOLEAN
    BY <1>a, <1>4, <1>5, <1>6
  <2>2. CASE n = 0
    <3>1. val[0] = FALSE
      BY <1>4 DEF IsValuation
    <3> QED BY <1>7, <1>8, <2>2, <3>1
  <2>3. CASE n # 0 /\ n < G
    <3>1. n \in InputVars(c) \cup LatchVars(c)
      <4>1. PICK F \in Nat : F = FirstLatch(c)
        BY CircuitSizes
      <4>2. n \in 1..(F - 1) \/ n \in F..(G - 1)
        BY <2>1, <2>3, <4>1
      <4> QED BY <1>5, <4>1, <4>2, CircuitSizes
    <3>2. val[n] <=> n \in on
      BY <1>4, <1>5, <2>1, <2>3 DEF Evaluated
    <3>3. n \in on <=> <<place[n], TRUE>> \in a
      BY <1>1, <3>1
    <3>4. <<place[n], TRUE>> \notin a => <<place[n], FALSE>> \in a
      BY <2>1, LitOfVar
    <3>5. val[n] = TRUE \/ val[n] = FALSE
      BY <2>1
    <3> QED BY <1>7, <1>8, <3>2, <3>3, <3>4, <3>5
  <2>4. CASE ~(n < G)
    <3>1. n \in GateVars(c) /\ n \in R
      <4>1. n \in G..(P - 1)
        BY <1>5, <2>1, <2>4
      <4> QED BY <1>5, <1>6, <1>8, <2>4, <4>1 DEF GateVars
    <3>2. PICK q, r : q = Gate(c, n).rhs0 /\ r = Gate(c, n).rhs1
      OBVIOUS
    <3>3. q \in CircuitLits(c) /\ r \in CircuitLits(c) /\ q[1] < n /\ r[1] < n
      BY <3>1, <3>2, RowLits
    <3>4. /\ q[1] \in 0..(P - 1) /\ q[2] \in BOOLEAN
          /\ r[1] \in 0..(P - 1) /\ r[2] \in BOOLEAN
      BY <1>5, <3>3, CircuitLitIs
    <3>5. q[1] \in R /\ r[1] \in R /\ PlacedAnd(c, place, n, a)
      BY <1>b, <3>1, <3>2 DEF ReadsFrom
    <3>6. q[1] \in S /\ r[1] \in S
      BY <1>6, <1>8, <3>3, <3>4, <3>5
    <3>7. /\ <<place[q[1]], val[q[1]]>> \in a /\ place[q[1]] \in Nat /\ val[q[1]] \in BOOLEAN
          /\ <<place[r[1]], val[r[1]]>> \in a /\ place[r[1]] \in Nat /\ val[r[1]] \in BOOLEAN
      BY <1>a, <1>4, <1>5, <1>7, <3>4, <3>6
    <3>8. At(place, q) \in a <=> Holds(val, q)
      <4>1. <<place[q[1]], q[2]>> \in a <=> val[q[1]] = q[2]
        BY <3>4, <3>7, LitAt
      <4> QED BY <4>1 DEF At, Holds
    <3>9. At(place, r) \in a <=> Holds(val, r)
      <4>1. <<place[r[1]], r[2]>> \in a <=> val[r[1]] = r[2]
        BY <3>4, <3>7, LitAt
      <4> QED BY <4>1 DEF At, Holds
    <3>10. <<place[n], TRUE>> \in a <=> At(place, q) \in a /\ At(place, r) \in a
      BY <3>2, <3>5 DEF PlacedAnd, IsAnd, At
    <3>11. val[n] <=> Holds(val, q) /\ Holds(val, r)
      BY <1>4, <3>1, <3>2 DEF IsValuation, Gate
    <3>12. <<place[n], TRUE>> \notin a => <<place[n], FALSE>> \in a
      BY <2>1, LitOfVar
    <3>13. val[n] = TRUE \/ val[n] = FALSE
      BY <2>1
    <3>14. val[n] <=> <<place[n], TRUE>> \in a
      BY <3>8, <3>9, <3>10, <3>11
    <3> QED BY <1>7, <1>8, <3>12, <3>13, <3>14
  <2> QED BY <2>2, <2>3, <2>4
<1>9. D \in SUBSET Nat
  BY <1>6
<1>10. D \subseteq S
  BY <1>8, <1>9, FromSmaller
<1>11. \A v \in 0..(P - 1) : v < G \/ v \in R => <<place[v], val[v]>> \in a
  BY <1>6, <1>7, <1>10
<1>12. HasValues(c, place, R, val, a)
  BY <1>5, <1>11 DEF HasValues
<1> QED BY <1>2, <1>3, <1>12

\* A literal whose variable has its value at its place.
LEMMA PlacedLit ==
  ASSUME NEW c, CircuitOK(c), NEW a \in Models, NEW place, IsPlace(c, place),
         NEW val, IsValuation(c, val), NEW p \in CircuitLits(c), <<place[p[1]], val[p[1]]>> \in a
  PROVE  At(place, p) \in a <=> Holds(val, p)
<1>1. p[1] \in 0..(FirstPrime(c) - 1) /\ p[2] \in BOOLEAN
  BY CircuitLitIs
<1>2. place[p[1]] \in Nat /\ val[p[1]] \in BOOLEAN
  BY <1>1 DEF IsValuation, IsPlace
<1>3. <<place[p[1]], p[2]>> \in a <=> val[p[1]] = p[2]
  BY <1>1, <1>2, LitAt
<1> QED BY <1>3 DEF At, Holds

\* What assignment a says of the variables in shown.
Part(a, shown) == {p \in a : p[1] \in shown}

\* Some model of clauses and units shows y.
Shows(cls, units, shown, y) ==
  \E a \in Models : Satisfies(a, cls) /\ units \subseteq a /\ y = Part(a, shown)

\* A projection of clauses over n variables, from assignments of all numbers.
LEMMA ProjectedIs ==
  ASSUME NEW n \in Nat, NEW cls \in SUBSET SUBSET LitsOf(0..(n - 1)), NEW units \in SUBSET LitsOf(0..(n - 1)),
         NEW shown \in SUBSET (0..(n - 1)), NEW y
  PROVE  y \in Projection(cls \cup {{p} : p \in units}, 0..(n - 1), shown) <=> Shows(cls, units, shown, y)
<1>1. PICK V : V = 0..(n - 1) /\ V \subseteq Nat
  OBVIOUS
<1>2. PICK all : all = cls \cup {{p} : p \in units}
  OBVIOUS
<1>3. y \in Projection(all, V, shown) <=>
        \E b \in TotalAssignments(V) : Satisfies(b, all) /\ y = {p \in b : p[1] \in shown}
  BY DEF Projection
<1>4. \A b : Satisfies(b, all) <=> Satisfies(b, cls) /\ units \subseteq b
  <2> SUFFICES ASSUME NEW b PROVE Satisfies(b, all) <=> Satisfies(b, cls) /\ units \subseteq b
    OBVIOUS
  <2>1. ASSUME Satisfies(b, all)
        PROVE  Satisfies(b, cls) /\ units \subseteq b
    <3>1. \A p \in units : b \cap {p} # {}
      BY <1>2, <2>1 DEF Satisfies
    <3> QED BY <1>2, <2>1, <3>1 DEF Satisfies
  <2>2. ASSUME Satisfies(b, cls), units \subseteq b
        PROVE  Satisfies(b, all)
    <3>1. \A p \in units : b \cap {p} # {}
      BY <2>2
    <3> QED BY <1>2, <2>2, <3>1 DEF Satisfies
  <2> QED BY <2>1, <2>2
<1>5. ASSUME NEW b \in TotalAssignments(V), Satisfies(b, cls), units \subseteq b
      PROVE  \E a \in Models : Satisfies(a, cls) /\ units \subseteq a /\ {p \in a : p[1] \in shown} = {p \in b : p[1] \in shown}
  <2>1. PICK g \in [V -> BOOLEAN] : b = {<<v, g[v]>> : v \in V}
    BY <1>5 DEF TotalAssignments
  <2>2. PICK f : f = [v \in Nat |-> IF v \in V THEN g[v] ELSE FALSE]
    OBVIOUS
  <2>3. f \in [Nat -> BOOLEAN] /\ \A v \in V : f[v] = g[v]
    BY <1>1, <2>1, <2>2
  <2>4. PICK a : a = {<<v, f[v]>> : v \in Nat}
    OBVIOUS
  <2>5. a \in Models
    BY <2>3, <2>4 DEF Models, TotalAssignments
  <2>6. b \subseteq a
    BY <1>1, <2>1, <2>3, <2>4
  <2>7. Satisfies(a, cls) /\ units \subseteq a
    BY <1>5, <2>6 DEF Satisfies
  <2>8. ASSUME NEW p \in a, p[1] \in shown
        PROVE  p \in b
    <3>1. PICK v \in Nat : p = <<v, f[v]>>
      BY <2>4
    <3>2. v \in V
      BY <1>1, <2>8, <3>1
    <3> QED BY <2>1, <2>3, <3>1, <3>2
  <2>9. {p \in a : p[1] \in shown} = {p \in b : p[1] \in shown}
    BY <2>6, <2>8
  <2> QED BY <2>5, <2>7, <2>9
<1>6. ASSUME NEW a \in Models, Satisfies(a, cls), units \subseteq a
      PROVE  \E b \in TotalAssignments(V) :
               Satisfies(b, cls) /\ units \subseteq b /\ {p \in a : p[1] \in shown} = {p \in b : p[1] \in shown}
  <2>1. PICK f \in [Nat -> BOOLEAN] : a = {<<v, f[v]>> : v \in Nat}
    BY <1>6 DEF Models, TotalAssignments
  <2>2. PICK g : g = [v \in V |-> f[v]]
    OBVIOUS
  <2>3. g \in [V -> BOOLEAN] /\ \A v \in V : g[v] = f[v]
    BY <1>1, <2>1, <2>2
  <2>4. PICK b : b = {<<v, g[v]>> : v \in V}
    OBVIOUS
  <2>5. b \in TotalAssignments(V)
    BY <2>3, <2>4 DEF TotalAssignments
  <2>6. \A p \in a : p[1] \in V => p \in b
    BY <2>1, <2>3, <2>4
  <2>7. b \subseteq a
    BY <1>1, <2>1, <2>3, <2>4
  <2>8. \A p \in LitsOf(V) : p[1] \in V
    BY DEF LitsOf
  <2>9. Satisfies(b, cls)
    <3> SUFFICES ASSUME NEW d \in cls PROVE b \cap d # {}
      BY DEF Satisfies
    <3>1. PICK p \in a : p \in d
      BY <1>6 DEF Satisfies
    <3>2. p \in LitsOf(V)
      BY <1>1, <3>1
    <3> QED BY <2>6, <2>8, <3>1, <3>2
  <2>10. units \subseteq b
    BY <1>1, <1>6, <2>6, <2>8
  <2>11. {p \in a : p[1] \in shown} = {p \in b : p[1] \in shown}
    BY <1>1, <2>6, <2>7
  <2> QED BY <2>5, <2>9, <2>10, <2>11
<1>7. ASSUME y \in Projection(all, V, shown)
      PROVE  \E a \in Models : Satisfies(a, cls) /\ units \subseteq a /\ y = {p \in a : p[1] \in shown}
  <2>1. PICK b \in TotalAssignments(V) : Satisfies(b, all) /\ y = {p \in b : p[1] \in shown}
    BY <1>3, <1>7
  <2> QED BY <1>4, <1>5, <2>1
<1>8. ASSUME NEW a \in Models, Satisfies(a, cls), units \subseteq a, y = {p \in a : p[1] \in shown}
      PROVE  y \in Projection(all, V, shown)
  <2>1. PICK b \in TotalAssignments(V) :
          Satisfies(b, cls) /\ units \subseteq b /\ {p \in a : p[1] \in shown} = {p \in b : p[1] \in shown}
    BY <1>6, <1>8
  <2> QED BY <1>3, <1>4, <1>8, <2>1
<1>9. Shows(cls, units, shown, y) <=>
        \E a \in Models : Satisfies(a, cls) /\ units \subseteq a /\ y = {p \in a : p[1] \in shown}
  BY DEF Shows, Part
<1>10. y \in Projection(all, V, shown) <=> Shows(cls, units, shown, y)
  BY <1>7, <1>8, <1>9
<1> QED BY <1>1, <1>2, <1>10

\* The primed forms of what is kept are variables of the Model.
LEMMA SeenAreVars ==
  ASSUME NEW c, CircuitOK(c), NEW m, ModelOK(c, m), \A v \in KeptVars(c) : HasPrime(c, m, v)
  PROVE  /\ FrozenVars(c, m) \in SUBSET (0..(m.size - 1))
         /\ \A v \in KeptVars(c) : Primed(c, m, v) \in Nat
         /\ m.size \in Nat
<1>1. m.size \in Nat /\ FirstPrime(c) <= m.size /\ FirstPrime(c) \in Nat
  <2>1. PICK F \in Nat, P \in Nat, k \in Nat : F = FirstPrime(c) /\ P = Primes(c) /\ k = Len(m.primedAnds)
    <3>1. m.primedAnds \in Seq(GateVars(c))
      BY DEF ModelOK
    <3>2. Len(m.primedAnds) \in Nat
      BY <3>1, LenProperties
    <3> QED BY <3>2, Places
  <2>2. m.size = F + P + k
    BY <2>1 DEF ModelOK
  <2>3. F \in Nat /\ P \in Nat /\ k \in Nat
    BY <2>1
  <2>4. F + P + k \in Nat /\ F <= F + P + k
    BY <2>3
  <2> QED BY <2>1, <2>2, <2>4
<1>2. KeptVars(c) \subseteq 0..(FirstPrime(c) - 1) /\ FrozenVars(c, m) = KeptVars(c) \cup {Primed(c, m, v) : v \in KeptVars(c)}
  BY KeptAre
<1>3. \A v \in KeptVars(c) : Primed(c, m, v) \in 0..(m.size - 1)
  BY <1>2, PrimedApart
<1>4. 0..(FirstPrime(c) - 1) \subseteq 0..(m.size - 1)
  BY <1>1
<1> QED BY <1>1, <1>2, <1>3, <1>4

\* A transition, as two valuations that are related.
LEMMA TransitionIs ==
  ASSUME NEW c, CircuitOK(c), NEW b, NEW x
  PROVE  x \in Transitions(c, b) <=>
           \E on \in SUBSET (InputVars(c) \cup LatchVars(c)), then \in SUBSET (InputVars(c) \cup LatchVars(c)) :
             /\ x = <<Values(c, on), Values(c, then)>>
             /\ Related(c, Values(c, on), Values(c, then))
             /\ b => Meets(c, Values(c, then))
<1>1. PICK W : W = {Values(c, on) : on \in SUBSET (InputVars(c) \cup LatchVars(c))}
  OBVIOUS
<1>2. x \in Transitions(c, b) <=>
        x \in W \X W /\ Related(c, x[1], x[2]) /\ (b => Meets(c, x[2]))
  BY <1>1 DEF Transitions, Related
<1>3. ASSUME x \in Transitions(c, b)
      PROVE  \E on \in SUBSET (InputVars(c) \cup LatchVars(c)), then \in SUBSET (InputVars(c) \cup LatchVars(c)) :
               /\ x = <<Values(c, on), Values(c, then)>>
               /\ Related(c, Values(c, on), Values(c, then))
               /\ b => Meets(c, Values(c, then))
  <2>1. PICK s \in W, t \in W : x = <<s, t>>
    BY <1>2, <1>3
  <2>2. PICK on \in SUBSET (InputVars(c) \cup LatchVars(c)) : s = Values(c, on)
    BY <1>1
  <2>3. PICK then \in SUBSET (InputVars(c) \cup LatchVars(c)) : t = Values(c, then)
    BY <1>1
  <2>4. x[1] = s /\ x[2] = t
    BY <2>1
  <2> QED BY <1>2, <1>3, <2>1, <2>2, <2>3, <2>4
<1>4. ASSUME NEW on \in SUBSET (InputVars(c) \cup LatchVars(c)), NEW then \in SUBSET (InputVars(c) \cup LatchVars(c)),
             x = <<Values(c, on), Values(c, then)>>, Related(c, Values(c, on), Values(c, then)),
             b => Meets(c, Values(c, then))
      PROVE  x \in Transitions(c, b)
  <2>1. PICK s, t : s = Values(c, on) /\ t = Values(c, then)
    OBVIOUS
  <2>2. s \in W /\ t \in W /\ x = <<s, t>> /\ x[1] = s /\ x[2] = t
    BY <1>1, <1>4, <2>1
  <2> QED BY <1>2, <1>4, <2>1, <2>2
<1> QED BY <1>3, <1>4

\* What the search can see of the two valuations x of a transition.
Seen(c, m, x) == {<<v, x[1][v]>> : v \in KeptVars(c)} \cup {<<Primed(c, m, v), x[2][v]>> : v \in KeptVars(c)}

\* What the search can see of a model.
Shown(c, m, a) == {p \in a : p[1] \in FrozenVars(c, m)}

\* A model in which the variables that are kept have the values of x.
LEMMA ShownIsSeen ==
  ASSUME NEW c, CircuitOK(c), NEW m, ModelOK(c, m), \A v \in KeptVars(c) : HasPrime(c, m, v), NEW a \in Models,
         NEW val, IsValuation(c, val), NEW next, IsValuation(c, next),
         \A v \in KeptVars(c) : <<v, val[v]>> \in a /\ <<Primed(c, m, v), next[v]>> \in a
  PROVE  Shown(c, m, a) = Seen(c, m, <<val, next>>)
<1>1. PICK K : K = KeptVars(c)
  OBVIOUS
<1>2. K \in SUBSET (0..(FirstPrime(c) - 1)) /\ FrozenVars(c, m) = K \cup {Primed(c, m, v) : v \in K}
  BY <1>1, KeptAre
<1>3. \A v \in K : Primed(c, m, v) \in Nat
  BY <1>1, SeenAreVars
<1>4. \A v \in K : <<v, val[v]>> \in a /\ <<Primed(c, m, v), next[v]>> \in a
  BY <1>1
<1>5. a \subseteq AllLits
  BY ModelsAre
<1>6. \A v \in K : v \in Nat /\ val[v] \in BOOLEAN /\ next[v] \in BOOLEAN
  <2>1. FirstPrime(c) \in Nat
    BY CircuitSizes
  <2> QED BY <1>2, <2>1 DEF IsValuation
<1>7. ASSUME NEW p \in a, NEW w \in Nat, NEW x \in BOOLEAN, <<w, x>> \in a, p[1] = w
      PROVE  p = <<w, x>>
  <2>1. PICK b \in BOOLEAN : p = <<w, b>>
    BY <1>5, <1>7 DEF AllLits, LitsOf
  <2>2. <<w, b>> \in a <=> x = b
    BY <1>7, LitAt
  <2> QED BY <1>7, <2>1, <2>2
<1>8. ASSUME NEW p \in a, p[1] \in K \cup {Primed(c, m, v) : v \in K}
      PROVE  p \in {<<v, val[v]>> : v \in K} \cup {<<Primed(c, m, v), next[v]>> : v \in K}
  <2>1. CASE p[1] \in K
    <3>1. p = <<p[1], val[p[1]]>>
      BY <1>4, <1>6, <1>7, <1>8, <2>1
    <3> QED BY <2>1, <3>1
  <2>2. CASE p[1] \in {Primed(c, m, v) : v \in K}
    <3>1. PICK v \in K : p[1] = Primed(c, m, v)
      BY <2>2
    <3>2. p = <<Primed(c, m, v), next[v]>>
      BY <1>3, <1>4, <1>6, <1>7, <1>8, <3>1
    <3> QED BY <3>2
  <2> QED BY <1>8, <2>1, <2>2
<1>9. ASSUME NEW v \in K
      PROVE  /\ <<v, val[v]>> \in {p \in a : p[1] \in K \cup {Primed(c, m, w) : w \in K}}
             /\ <<Primed(c, m, v), next[v]>> \in {p \in a : p[1] \in K \cup {Primed(c, m, w) : w \in K}}
  BY <1>4
<1>10. {p \in a : p[1] \in K \cup {Primed(c, m, v) : v \in K}}
         = {<<v, val[v]>> : v \in K} \cup {<<Primed(c, m, v), next[v]>> : v \in K}
  BY <1>8, <1>9
<1>11. Seen(c, m, <<val, next>>) = {<<v, val[v]>> : v \in K} \cup {<<Primed(c, m, v), next[v]>> : v \in K}
  BY <1>1 DEF Seen
<1> QED BY <1>2, <1>10, <1>11 DEF Shown

\* A transition, as a model that agrees with it.
LEMMA TransitionAgrees ==
  ASSUME NEW c, CircuitOK(c), GatesInOrder(c), NEW m, ModelOK(c, m), \A v \in KeptVars(c) : HasPrime(c, m, v),
         NEW b, NEW x \in Transitions(c, b)
  PROVE  \E val, next : \E a \in Models :
           /\ IsValuation(c, val) /\ IsValuation(c, next) /\ Related(c, val, next) /\ Agrees(a, c, m, val, next)
           /\ b => PrimedHold(c, m, a)
           /\ Shown(c, m, a) = Seen(c, m, x)
<1>1. PICK on \in SUBSET (InputVars(c) \cup LatchVars(c)), then \in SUBSET (InputVars(c) \cup LatchVars(c)) :
        /\ x = <<Values(c, on), Values(c, then)>>
        /\ Related(c, Values(c, on), Values(c, then))
        /\ b => Meets(c, Values(c, then))
  BY TransitionIs
<1>2. PICK val, next : val = Values(c, on) /\ next = Values(c, then)
  OBVIOUS
<1>3. IsValuation(c, val) /\ IsValuation(c, next)
  BY <1>2, ValuesAreValuation
<1>4. x = <<val, next>> /\ Related(c, val, next) /\ (b => Meets(c, next))
  BY <1>1, <1>2
<1>5. PICK a \in Models : Agrees(a, c, m, val, next)
  BY <1>3, AgreeingModel
<1>6. KeptVars(c) \subseteq 0..(FirstPrime(c) - 1)
  BY KeptAre
<1>7. Shown(c, m, a) = Seen(c, m, x)
  <2>1. \A v \in KeptVars(c) : <<v, val[v]>> \in a /\ <<Primed(c, m, v), next[v]>> \in a
    BY <1>5, <1>6 DEF Agrees
  <2> QED BY <1>3, <1>4, <2>1, ShownIsSeen
<1>8. ASSUME b
      PROVE  PrimedHold(c, m, a)
  <2> SUFFICES ASSUME NEW i \in 1..Len(c.constraints) PROVE PrimeLit(c, m, c.constraints[i]) \in a
    BY DEF PrimedHold
  <2>1. c.constraints \in Seq(CircuitLits(c))
    BY DEF CircuitOK
  <2>2. c.constraints[i] \in CircuitLits(c) /\ i \in DOMAIN c.constraints
    BY <2>1, LenProperties, ElementOfSeq
  <2>3. Holds(next, c.constraints[i])
    BY <1>4, <1>8, <2>2 DEF Meets
  <2>4. HasPrime(c, m, c.constraints[i][1])
    <3>1. c.constraints[i][1] \in PrimedRoots(c)
      BY RootsAre
    <3> QED BY <3>1 DEF KeptVars
  <2> QED BY <1>3, <1>5, <2>2, <2>3, <2>4, AgreesOn
<1> QED BY <1>3, <1>4, <1>5, <1>7, <1>8

\* A model of the rows that are needed and of the roots, as a transition.
LEMMA ModelIsTransition ==
  ASSUME NEW c, CircuitOK(c), GatesInOrder(c), NEW m, ModelOK(c, m), \A v \in KeptVars(c) : HasPrime(c, m, v),
         NEW R \in SUBSET (0..(FirstPrime(c) - 1)), NEW Q \in SUBSET R, \A v \in Q : HasPrime(c, m, v),
         PrimedRoots(c) \subseteq Q, \A i \in 1..c.latches : c.next[i][1] \in R,
         \A v \in GateVars(c) : (v \in R => ReadsFrom(c, R, v)) /\ (v \in Q => ReadsFrom(c, Q, v)),
         NEW a \in Models, \A v \in GateVars(c) : v \in R => RowHolds(c, m, v, v \in Q, a),
         AssertionsHold(c, m, a), NEW b, b => PrimedHold(c, m, a)
  PROVE  \E x \in Transitions(c, b) : Shown(c, m, a) = Seen(c, m, x)
<1>1. PICK D : D = 0..(FirstPrime(c) - 1) /\ D \subseteq Nat
  <2>1. FirstPrime(c) \in Nat
    BY CircuitSizes
  <2> QED BY <2>1
<1>2. 0 \in D /\ 0 < FirstGate(c) /\ <<0, FALSE>> \in a
  <2>1. FirstGate(c) \in Nat /\ FirstPrime(c) \in Nat /\ FirstGate(c) >= 1 /\ FirstPrime(c) >= FirstGate(c)
    BY Places
  <2> QED BY <1>1, <2>1 DEF AssertionsHold, True
<1>3. PICK here : here = [v \in D |-> v]
  OBVIOUS
<1>4. PICK there : there = [v \in D |-> IF HasPrime(c, m, v) THEN Primed(c, m, v) ELSE 0]
  OBVIOUS
<1>5. here \in [D -> Nat] /\ here[0] = 0 /\ \A v \in D : here[v] = v
  BY <1>1, <1>2, <1>3
<1>6. /\ there \in [D -> Nat] /\ there[0] = 0
      /\ \A v \in D : HasPrime(c, m, v) => there[v] = Primed(c, m, v)
  <2>1. \A v \in D : HasPrime(c, m, v) => Primed(c, m, v) \in 0..(m.size - 1)
    BY <1>1, PrimedApart
  <2>2. Primed(c, m, 0) = 0
    BY DEF Primed
  <2> QED BY <1>2, <1>4, <2>1, <2>2
<1>7. PICK on \in SUBSET (InputVars(c) \cup LatchVars(c)) :
        HasValues(c, here, R, Values(c, on), a)
  <2>1. ASSUME NEW v \in GateVars(c), v \in R
        PROVE  ReadsFrom(c, R, v) /\ PlacedAnd(c, here, v, a)
    <3>1. PICK p, q, r : p = <<v, TRUE>> /\ q = Gate(c, v).rhs0 /\ r = Gate(c, v).rhs1
      OBVIOUS
    <3>2. p \in CircuitLits(c) /\ q \in CircuitLits(c) /\ r \in CircuitLits(c)
      BY <3>1, RowLits
    <3>3. \A l \in CircuitLits(c) : At(here, l) = l
      BY <1>1, <1>5, CircuitLitIs DEF At
    <3>4. IsAnd(a, p, q, r)
      BY <2>1, <3>1 DEF RowHolds
    <3>5. IsAnd(a, At(here, p), At(here, q), At(here, r))
      BY <3>2, <3>3, <3>4
    <3> QED BY <2>1, <3>1, <3>5 DEF PlacedAnd
  <2>2. IsPlace(c, here) /\ <<here[0], FALSE>> \in a
    BY <1>1, <1>2, <1>5 DEF IsPlace
  <2>3. RowsPlaced(c, here, R, a)
    BY <2>1 DEF RowsPlaced
  <2> QED BY <2>2, <2>3, PlacedValues
<1>8. PICK then \in SUBSET (InputVars(c) \cup LatchVars(c)) :
        HasValues(c, there, Q, Values(c, then), a)
  <2>1. ASSUME NEW v \in GateVars(c), v \in Q
        PROVE  ReadsFrom(c, Q, v) /\ PlacedAnd(c, there, v, a)
    <3>1. PICK p, q, r : p = <<v, TRUE>> /\ q = Gate(c, v).rhs0 /\ r = Gate(c, v).rhs1
      OBVIOUS
    <3>2. p \in CircuitLits(c) /\ q \in CircuitLits(c) /\ r \in CircuitLits(c) /\ p[1] = v
      BY <3>1, RowLits
    <3>3. \A l \in CircuitLits(c) : HasPrime(c, m, l[1]) => At(there, l) = PrimeLit(c, m, l)
      BY <1>1, <1>6, CircuitLitIs DEF At, PrimeLit
    <3>4. ReadsFrom(c, Q, v)
      BY <2>1
    <3>5. HasPrime(c, m, p[1]) /\ HasPrime(c, m, q[1]) /\ HasPrime(c, m, r[1])
      BY <2>1, <3>1, <3>2, <3>4 DEF ReadsFrom
    <3>6. IsAnd(a, PrimeLit(c, m, p), PrimeLit(c, m, q), PrimeLit(c, m, r))
      <4>1. RowHolds(c, m, v, v \in Q, a)
        BY <2>1
      <4> QED BY <2>1, <3>1, <4>1 DEF RowHolds
    <3>7. IsAnd(a, At(there, p), At(there, q), At(there, r))
      BY <3>2, <3>3, <3>5, <3>6
    <3> QED BY <3>1, <3>4, <3>7 DEF PlacedAnd
  <2>2. IsPlace(c, there) /\ <<there[0], FALSE>> \in a
    BY <1>1, <1>2, <1>6 DEF IsPlace
  <2>3. RowsPlaced(c, there, Q, a)
    BY <2>1 DEF RowsPlaced
  <2>4. Q \in SUBSET (0..(FirstPrime(c) - 1))
    OBVIOUS
  <2> QED BY <2>2, <2>3, <2>4, PlacedValues
<1>9. PICK val, next : val = Values(c, on) /\ next = Values(c, then)
  OBVIOUS
<1>10. IsValuation(c, val) /\ IsValuation(c, next)
  BY <1>9, ValuesAreValuation
<1>11. ASSUME NEW l \in CircuitLits(c), l[1] < FirstGate(c) \/ l[1] \in R
       PROVE  l \in a <=> Holds(val, l)
  <2>1. l[1] \in D /\ At(here, l) = l
    BY <1>1, <1>5, CircuitLitIs DEF At
  <2>2. <<here[l[1]], val[l[1]]>> \in a
    BY <1>1, <1>7, <1>9, <1>11, <2>1 DEF HasValues
  <2>3. IsPlace(c, here)
    BY <1>1, <1>5 DEF IsPlace
  <2> QED BY <1>10, <2>1, <2>2, <2>3, PlacedLit
<1>12. ASSUME NEW l \in CircuitLits(c), l[1] < FirstGate(c) \/ l[1] \in Q
       PROVE  PrimeLit(c, m, l) \in a <=> Holds(next, l)
  <2>1. l[1] \in D
    BY <1>1, CircuitLitIs
  <2>2. HasPrime(c, m, l[1])
    BY <1>12 DEF HasPrime
  <2>3. At(there, l) = PrimeLit(c, m, l)
    BY <1>6, <2>1, <2>2 DEF At, PrimeLit
  <2>4. <<there[l[1]], next[l[1]]>> \in a
    BY <1>1, <1>8, <1>9, <1>12, <2>1 DEF HasValues
  <2>5. IsPlace(c, there)
    BY <1>1, <1>6 DEF IsPlace
  <2> QED BY <1>10, <2>3, <2>4, <2>5, PlacedLit
<1>13. /\ c.error \in CircuitLits(c) /\ c.error[1] \in Q
       /\ \A i \in 1..Len(c.constraints) : c.constraints[i] \in CircuitLits(c) /\ c.constraints[i][1] \in Q
       /\ DOMAIN c.constraints = 1..Len(c.constraints)
  <2>1. c.constraints \in Seq(CircuitLits(c)) /\ c.error \in CircuitLits(c)
    BY DEF CircuitOK
  <2>2. \A i \in 1..Len(c.constraints) : c.constraints[i] \in CircuitLits(c)
    BY <2>1, ElementOfSeq
  <2>3. PrimedRoots(c) = {c.error[1]} \cup {c.constraints[i][1] : i \in 1..Len(c.constraints)}
    BY RootsAre
  <2> QED BY <2>1, <2>2, <2>3, LenProperties
<1>14. Related(c, val, next)
  <2>1. ~Holds(val, c.error)
    <3>1. c.error \in AllLits /\ Neg(c.error) \in a
      BY <1>13, ModelLits DEF AssertionsHold
    <3>2. c.error \notin a
      BY <3>1, ModelsAre
    <3> QED BY <1>11, <1>13, <3>2
  <2>2. Meets(c, val)
    BY <1>11, <1>13 DEF Meets, AssertionsHold
  <2>3. ASSUME NEW i \in 1..c.latches
        PROVE  next[FirstLatch(c) + i - 1] = Holds(val, c.next[i])
    <3>1. PICK w : w = FirstLatch(c) + i - 1
      OBVIOUS
    <3>2. w \in 0..(FirstPrime(c) - 1) /\ w < FirstGate(c)
      BY <3>1, LatchIs
    <3>3. PICK l : l = <<w, TRUE>>
      OBVIOUS
    <3>4. l \in CircuitLits(c) /\ l[1] = w /\ l[2] = TRUE
      BY <3>2, <3>3 DEF CircuitLits, LitsOf
    <3>5. PrimeLit(c, m, l) \in a <=> Holds(next, l)
      BY <1>12, <3>2, <3>4
    <3>6. PrimeLit(c, m, l) = LatchLit(c, m, i)
      BY <3>1, <3>4 DEF PrimeLit, LatchLit
    <3>7. LatchLit(c, m, i) \in a <=> c.next[i] \in a
      BY DEF AssertionsHold, LatchHolds
    <3>8. c.next[i] \in CircuitLits(c) /\ c.next[i][1] \in R
      BY DEF CircuitOK
    <3>9. c.next[i] \in a <=> Holds(val, c.next[i])
      BY <1>11, <3>8
    <3>10. (Holds(next, l) <=> next[w] = TRUE) /\ next[w] \in BOOLEAN
      BY <1>10, <3>2, <3>4 DEF Holds, IsValuation
    <3>11. next[w] <=> Holds(val, c.next[i])
      BY <3>5, <3>6, <3>7, <3>9, <3>10
    <3>12. Holds(val, c.next[i]) \in BOOLEAN
      BY DEF Holds
    <3> QED BY <3>1, <3>10, <3>11, <3>12
  <2> QED BY <2>1, <2>2, <2>3 DEF Related
<1>15. b => Meets(c, next)
  BY <1>12, <1>13 DEF Meets, PrimedHold
<1>16. PICK x : x = <<val, next>>
  OBVIOUS
<1>17. x \in Transitions(c, b)
  BY <1>9, <1>14, <1>15, <1>16, TransitionIs
<1>18. ASSUME NEW v \in KeptVars(c)
       PROVE  <<v, val[v]>> \in a /\ <<Primed(c, m, v), next[v]>> \in a
  <2>1. v \in D /\ (v < FirstGate(c) \/ v \in Q)
    <3>1. v \in D
      BY <1>1, <1>18, KeptAre
    <3>2. CASE v \in PrimedRoots(c)
      BY <3>1, <3>2
    <3>3. CASE v \in InputVars(c) \cup LatchVars(c)
      <4>1. PICK F, G : F = FirstLatch(c) /\ G = FirstGate(c)
        OBVIOUS
      <4>2. v \in 1..(F - 1) \/ v \in F..(G - 1)
        BY <3>3, <4>1, CircuitSizes
      <4>3. F \in Nat /\ G \in Nat /\ \E l \in Nat : G = F + l
        BY <4>1, CircuitSizes
      <4>4. v < G
        BY <4>2, <4>3
      <4> QED BY <3>1, <4>1, <4>4
    <3> QED BY <1>18, <3>2, <3>3 DEF KeptVars
  <2>2. HasPrime(c, m, v) /\ (v < FirstGate(c) \/ v \in R)
    BY <1>18, <2>1
  <2>3. <<here[v], val[v]>> \in a /\ <<there[v], next[v]>> \in a
    BY <1>1, <1>7, <1>8, <1>9, <2>1, <2>2 DEF HasValues
  <2> QED BY <1>5, <1>6, <2>1, <2>2, <2>3
<1>19. Shown(c, m, a) = Seen(c, m, x)
  BY <1>10, <1>16, <1>18, ShownIsSeen
<1> QED BY <1>17, <1>19

\* The state in which the relation is loaded, in the words of the lemmas.
LEMMA LoadedIs ==
  ASSUME LoaderInv, MeaningInv, phase = "loaded"
  PROVE  /\ CircuitOK(circuit) /\ ModelOK(circuit, model) /\ (Reencoded(aig) => GatesInOrder(circuit))
         /\ \A v \in KeptVars(circuit) : HasPrime(circuit, model, v)
         /\ Fine(solver) /\ row = 0
         /\ phase \notin Early /\ phase # "gates"
<1>1. phase \notin Early /\ phase # "gates" /\ phase \notin {"unread", "construct"}
  BY DEF Early
<1>2. HasCircuit
  BY <1>1 DEF LoaderInv, ModelInv
<1>3. CircuitOK(circuit) /\ (Reencoded(aig) => GatesInOrder(circuit))
  BY <1>2, CircuitIs DEF LoaderInv
<1>4. ModelOK(circuit, model) /\ \A v \in KeptVars(circuit) : HasPrime(circuit, model, v)
  BY <1>1 DEF LoaderInv, ModelInv
<1>5. Fine(solver)
  BY <1>1 DEF LoaderInv, SolverInv, SimplifierOK
<1>6. row = 0
  BY <1>1 DEF MeaningInv, StageInv
<1> QED BY <1>1, <1>3, <1>4, <1>5, <1>6

\* What the search can see of the transitions.
LEMMA IntendedIs ==
  ASSUME LoaderInv, MeaningInv, phase = "loaded", NEW y
  PROVE  y \in Intended <=>
           \E x \in Transitions(circuit, loaded.primeConstraints) : y = Seen(circuit, model, x)
<1>1. PICK c, m : c = circuit /\ m = model
  OBVIOUS
<1>2. CircuitOK(c)
  BY <1>1, LoadedIs
<1>3. Kept = KeptVars(circuit)
  <2>1. PrimedRoots(c) = {c.error[1]} \cup Range(LitVars(c.constraints))
    BY DEF PrimedRoots
  <2> QED BY <1>1, <2>1 DEF Kept, KeptVars
<1>4. \A x : Visible(x) = Seen(circuit, model, x)
  BY <1>3 DEF Visible, Seen
<1> QED BY <1>4 DEF Intended

\* What the search can see of the models of its solver.
LEMMA ObtainedIs ==
  ASSUME LoaderInv, MeaningInv, phase = "loaded", NEW y
  PROVE  y \in Obtained <=>
           \E a \in Models :
             /\ Satisfies(a, Attached(solver)) /\ TrailHolds(solver.trail, a)
             /\ loaded.primeConstraints => PrimedHold(circuit, model, a)
             /\ y = Shown(circuit, model, a)
<1>1. PICK c, m, n, cls, units, ok :
        c = circuit /\ m = model /\ n = m.size /\ cls = loaded.clauses /\ units = loaded.units /\ ok = loaded.ok
  OBVIOUS
<1>2. CircuitOK(c) /\ ModelOK(c, m) /\ \A v \in KeptVars(c) : HasPrime(c, m, v)
  BY <1>1, LoadedIs
<1>3. PICK shown : shown = FrozenVars(c, m)
  OBVIOUS
<1>4. n \in Nat /\ shown \in SUBSET (0..(n - 1))
  BY <1>1, <1>2, <1>3, SeenAreVars
<1>5. /\ cls \in SUBSET SUBSET LitsOf(0..(n - 1)) /\ units \in SUBSET LitsOf(0..(n - 1))
      /\ ok \in BOOLEAN
  BY <1>1 DEF MeaningInv, LoadedInv
<1>6. \A a \in Models :
        ok /\ Satisfies(a, cls) /\ units \subseteq a <=>
          /\ Satisfies(a, Attached(solver)) /\ TrailHolds(solver.trail, a)
          /\ loaded.primeConstraints => PrimedHold(circuit, model, a)
  BY <1>1 DEF MeaningInv, LoadedInv
<1>7. Kept \cup {Primed(circuit, model, v) : v \in Kept} = shown
  <2>1. Kept = KeptVars(c)
    BY <1>1 DEF Kept, KeptVars, PrimedRoots
  <2>2. shown = KeptVars(c) \cup {Primed(c, m, v) : v \in KeptVars(c)}
    BY <1>2, <1>3, KeptAre
  <2> QED BY <1>1, <2>1, <2>2
<1>8. PICK P : P = Projection(cls \cup {{p} : p \in units}, 0..(n - 1), shown)
  OBVIOUS
<1>9. Obtained = IF ok THEN P ELSE {}
  BY <1>1, <1>7, <1>8 DEF Obtained
<1>10. y \in P <=> Shows(cls, units, shown, y)
  BY <1>4, <1>5, <1>8, ProjectedIs
<1>11. \A a : Shown(circuit, model, a) = Part(a, shown)
  BY <1>1, <1>3 DEF Shown, Part
<1> QED BY <1>5, <1>6, <1>9, <1>10, <1>11 DEF Shows

\* No transition is lost: what agrees with one is a model of the solver.
LEMMA NothingLost ==
  ASSUME LoaderInv, MeaningInv, Reencoded(aig)
  PROVE  AdmitsEveryTransition
<1> SUFFICES ASSUME phase = "loaded", NEW y \in Intended
             PROVE  y \in Obtained
  BY DEF AdmitsEveryTransition
<1>1. PICK c, m, b : c = circuit /\ m = model /\ b = loaded.primeConstraints
  OBVIOUS
<1>2. CircuitOK(c) /\ GatesInOrder(c) /\ ModelOK(c, m) /\ \A v \in KeptVars(c) : HasPrime(c, m, v)
  BY <1>1, LoadedIs
<1>3. PICK x \in Transitions(c, b) : y = Seen(c, m, x)
  BY <1>1, IntendedIs
<1>4. PICK val, next, a :
        /\ a \in Models
        /\ IsValuation(c, val) /\ IsValuation(c, next) /\ Related(c, val, next) /\ Agrees(a, c, m, val, next)
        /\ b => PrimedHold(c, m, a)
        /\ Shown(c, m, a) = Seen(c, m, x)
  BY <1>2, TransitionAgrees
<1>5. Means(solver, a)
  BY <1>1, <1>4, LoadedIs DEF MeaningInv, AdmitsInv
<1>6. Satisfies(a, Attached(solver)) /\ solver.trail \subseteq a
  BY <1>5 DEF Means
<1>7. TrailHolds(solver.trail, a)
  BY <1>6 DEF TrailHolds, VarsOf
<1> QED BY <1>1, <1>3, <1>4, <1>6, <1>7, ObtainedIs

\* Nothing is added if the next-state functions are kept and there is a
\* transition at all: without one the trail may contradict itself, and only
\* the value of each variable that propagation finds first is copied.
LEMMA NothingAdded ==
  ASSUME LoaderInv, MeaningInv, Reencoded(aig)
  PROVE  LoadsFrozenRoots
<1> SUFFICES ASSUME phase = "loaded", \A i \in DOMAIN circuit.next : circuit.next[i][1] \in Kept,
                    Transitions(circuit, FALSE) # {}
             PROVE  Intended = Obtained
  BY DEF LoadsFrozenRoots
<1>1. PICK c, m, b, s, R, Q :
        /\ c = circuit /\ m = model /\ b = loaded.primeConstraints /\ s = solver
        /\ R = require /\ Q = primedRequire
  OBVIOUS
<1>2. CircuitOK(c) /\ GatesInOrder(c) /\ ModelOK(c, m) /\ \A v \in KeptVars(c) : HasPrime(c, m, v)
  BY <1>1, LoadedIs
<1>3. NextIsKept(c)
  <2>1. Kept = KeptVars(c)
    BY <1>1 DEF Kept, KeptVars, PrimedRoots
  <2>2. DOMAIN c.next = 1..c.latches
    BY <1>2 DEF CircuitOK
  <2> QED BY <1>1, <2>1, <2>2 DEF NextIsKept
<1>4. PICK a0 \in Models : Means(s, a0)
  <2>1. PICK x : x \in Transitions(c, FALSE)
    BY <1>1
  <2>2. \E val, next : \E a \in Models :
          IsValuation(c, val) /\ IsValuation(c, next) /\ Related(c, val, next) /\ Agrees(a, c, m, val, next)
    BY <1>2, <2>1, TransitionAgrees
  <2>3. PICK val, next, a :
          /\ a \in Models
          /\ IsValuation(c, val) /\ IsValuation(c, next) /\ Related(c, val, next) /\ Agrees(a, c, m, val, next)
    BY <2>2
  <2>4. Means(s, a)
    BY <1>1, <2>3, LoadedIs DEF MeaningInv, AdmitsInv
  <2> QED BY <2>3, <2>4
<1>5. s.trail \subseteq AllLits
  <2>1. s.vars \in SUBSET Nat /\ s.trail \in SUBSET LitsOf(s.vars)
    BY <1>1, LoadedIs DEF Fine
  <2> QED BY <2>1 DEF AllLits, LitsOf
<1>6. ASSUME NEW a \in Models, Satisfies(a, Attached(s)), TrailHolds(s.trail, a)
      PROVE  Means(s, a)
  <2>1. ASSUME NEW p \in s.trail
        PROVE  p \in a
    <3>1. p[1] \in VarsOf(s.trail)
      BY DEF VarsOf
    <3>2. PICK q \in a : q \in s.trail /\ q[1] = p[1]
      BY <1>6, <3>1 DEF TrailHolds
    <3>3. p \in a0 /\ q \in a0 /\ p \in AllLits /\ q \in AllLits
      BY <1>4, <1>5, <3>2 DEF Means
    <3>4. Neg(p) \notin a0
      BY <3>3, ModelsAre
    <3>5. q = p \/ q = Neg(p)
      BY <3>2, <3>3, Literals
    <3> QED BY <3>2, <3>3, <3>4, <3>5
  <2>2. s.ok
    BY <1>4 DEF Means
  <2> QED BY <1>6, <2>1, <2>2 DEF Means
<1>7. /\ R \in SUBSET (0..(FirstPrime(c) - 1)) /\ Q \in SUBSET R /\ \A v \in Q : HasPrime(c, m, v)
      /\ PrimedRoots(c) \subseteq Q /\ \A i \in 1..c.latches : c.next[i][1] \in R
  BY <1>1, <1>2, LoadedIs DEF LoaderInv, ModelInv, MeaningInv, NeedsInv
<1>8. \A v \in GateVars(c) : v >= FirstGate(c) + row
  <2>1. PICK G \in Nat : G = FirstGate(c)
    BY <1>2, CircuitSizes
  <2>2. row = 0 /\ \A v \in G..(FirstPrime(c) - 1) : v >= G + 0
    BY <2>1, LoadedIs
  <2> QED BY <2>1, <2>2 DEF GateVars
<1>9. \A v \in GateVars(c) : (v \in R => ReadsFrom(c, R, v)) /\ (v \in Q => ReadsFrom(c, Q, v))
  BY <1>1, <1>2, <1>8, LoadedIs DEF MeaningInv, NeedsInv
<1>10. ASSUME NEW a \in Models, Means(s, a)
       PROVE  AssertionsHold(c, m, a) /\ \A v \in GateVars(c) : v \in R => RowHolds(c, m, v, v \in Q, a)
  BY <1>1, <1>2, <1>3, <1>8, <1>10, LoadedIs DEF MeaningInv, ForbidsInv
<1>11. ASSUME NEW y \in Obtained
       PROVE  y \in Intended
  <2>1. PICK a \in Models :
          /\ Satisfies(a, Attached(s)) /\ TrailHolds(s.trail, a)
          /\ b => PrimedHold(c, m, a)
          /\ y = Shown(c, m, a)
    BY <1>1, <1>11, ObtainedIs
  <2>2. Means(s, a)
    BY <1>6, <2>1
  <2>3. AssertionsHold(c, m, a) /\ \A v \in GateVars(c) : v \in R => RowHolds(c, m, v, v \in Q, a)
    BY <1>10, <2>2
  <2>4. b => PrimedHold(c, m, a)
    BY <2>1
  <2>5. \E x \in Transitions(c, b) : Shown(c, m, a) = Seen(c, m, x)
    BY <1>2, <1>7, <1>9, <2>3, <2>4, ModelIsTransition
  <2> QED BY <1>1, <2>1, <2>5, IntendedIs
<1>12. Intended \subseteq Obtained
  BY NothingLost DEF AdmitsEveryTransition
<1> QED BY <1>11, <1>12

\* If the files are as the library reencodes them, the solver of the search
\* admits every transition of the circuit, whatever the simplifier resolves
\* away; and it admits nothing else if each next-state function is kept and
\* the circuit has a transition (loadTransitionRelation(), Model.cpp:68-132).
THEOREM LoadedRelation ==
  ASSUME \A command \in Commands : Reencoded(command.file)
  PROVE  Spec => []RelationIsLoaded
<1>1. LoaderInv /\ MeaningInv => RelationIsLoaded
  <2> SUFFICES ASSUME LoaderInv, MeaningInv
               PROVE  RelationIsLoaded
    OBVIOUS
  <2>1. Reencoded(aig)
    BY DEF LoaderInv, FrontInv
  <2> QED BY <2>1, NothingLost, NothingAdded DEF RelationIsLoaded
<1> QED BY <1>1, MeaningInvHolds, PTL
=============================================================================
