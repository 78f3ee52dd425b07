-------------------------- MODULE SolverUseProofs ---------------------------
(***************************************************************************)
(* The solver as its user sees it: in every state of a proper use its tables *)
(* agree, and what it learns and answers follows from what it was given.   *)
(***************************************************************************)
EXTENDS SolverUse, CDCLSearchProofs

-----------------------------------------------------------------------------
(* Names.                                                                  *)

\* n is the name variable v was created under last.
NameIs(num, v, n) == n \in DOMAIN num /\ num[n] = v /\ \A m \in DOMAIN num : num[m] = v => m <= n

\* A variable has one name at most.
LEMMA NameOne ==
  ASSUME NEW num, DOMAIN num \subseteq Nat, NEW v, NEW n, NameIs(num, v, n), NEW m, NameIs(num, v, m)
  PROVE  n = m
<1>1. n \in Nat /\ m \in Nat /\ n <= m /\ m <= n
  BY DEF NameIs
<1> QED BY <1>1

\* The literal that p, a name with a sign, stands for.
LitOf(num, p) == <<num[p[1]], p[2]>>

LitsFor(num, ps) == {LitOf(num, p) : p \in ps}

\* The literals named in S.
NamedIn(num, S) == {q \in AllLits : \E p \in S : NameIs(num, q[1], p[1]) /\ q[2] = p[2]}

\* What clauses may mention: literals the user gave, and those let go.
Said(giv, let) == (UNION giv) \cup let

\* Names stand for variables of solver s; those that were not let go stand for
\* variables in use, each for one of its own.
Naming(s, num, giv, let) ==
  /\ DOMAIN num \subseteq Names
  /\ \A n \in DOMAIN num : num[n] \in Vars /\ num[n] < s.nextVar
  /\ \A v \in Vars : v < s.nextVar => \E n \in DOMAIN num : NameIs(num, v, n)
  /\ \A n \in DOMAIN num \ VarsOf(let) :
       NameIs(num, num[n], n) /\ ~IsFree(s, num[n]) /\ (s.ok => ~InReleased(s, num[n]))

\* What the user said is about names there are; a literal is let go only if
\* its complement was never said.
Speaking(num, giv, let) ==
  /\ let \subseteq LitsOf(DOMAIN num) /\ \A g \in giv : g \subseteq LitsOf(DOMAIN num)
  /\ \A p \in let : Neg(p) \notin Said(giv, let)

\* Assignment t, to names, is a solution.
Solves(num, giv, let, t) == t \in TotalAssignments(DOMAIN num) /\ let \subseteq t /\ Satisfies(t, giv)

\* The assignment to variables.
ModelOf(num, t) ==
  {q \in AllLits : IF \E n \in DOMAIN num : NameIs(num, q[1], n)
                   THEN \E n \in DOMAIN num : NameIs(num, q[1], n) /\ <<n, q[2]>> \in t
                   ELSE ~q[2]}

\* All solutions are models of the solver.
Sound(s, num, giv, let) == \A t : Solves(num, giv, let, t) => s.ok /\ Means(s, ModelOf(num, t))

\* A clause that was given is kept, or satisfied by what was let go.
Kept(s, num, giv, let) == \A g \in giv : g \cap let # {} \/ Keeping(s, LitsFor(num, g))

\* The solver s has what the user said.
Serves(s, num, giv, let) ==
  /\ Naming(s, num, giv, let) /\ Speaking(num, giv, let)
  /\ Within(s, NamedIn(num, Said(giv, let)))
  /\ Sound(s, num, giv, let)
  /\ s.ok => Kept(s, num, giv, let)

\* Names can be compared.
LEMMA NamesAreNumbers ==
  ASSUME NEW s, NEW num, NEW giv, NEW let, Naming(s, num, giv, let)
  PROVE  DOMAIN num \subseteq Nat
BY NamesAssumption DEF Naming

\* Total assignments have one literal of each variable.
LEMMA TotalIs ==
  ASSUME NEW vs, NEW t
  PROVE  t \in TotalAssignments(vs)
           <=> t \subseteq LitsOf(vs) /\ \A v \in vs : <<v, TRUE>> \in t <=> <<v, FALSE>> \notin t
<1>1. ASSUME t \in TotalAssignments(vs)
      PROVE  t \subseteq LitsOf(vs) /\ \A v \in vs : <<v, TRUE>> \in t <=> <<v, FALSE>> \notin t
  <2>1. PICK f \in [vs -> BOOLEAN] : t = {<<v, f[v]>> : v \in vs}
    BY <1>1 DEF TotalAssignments
  <2>2. t \subseteq LitsOf(vs)
    BY <2>1 DEF LitsOf
  <2>3. ASSUME NEW v \in vs, NEW b \in BOOLEAN PROVE <<v, b>> \in t <=> f[v] = b
    BY <2>1
  <2>4. \A v \in vs : f[v] \in BOOLEAN
    BY <2>1
  <2>5. \A v \in vs : (<<v, TRUE>> \in t <=> f[v] = TRUE) /\ (<<v, FALSE>> \in t <=> f[v] = FALSE)
    BY <2>3
  <2> QED BY <2>2, <2>4, <2>5
<1>2. ASSUME t \subseteq LitsOf(vs), \A v \in vs : <<v, TRUE>> \in t <=> <<v, FALSE>> \notin t
      PROVE  t \in TotalAssignments(vs)
  <2>1. PICK f : f = [v \in vs |-> <<v, TRUE>> \in t]
    OBVIOUS
  <2>2. f \in [vs -> BOOLEAN]
    BY <2>1
  <2>3. ASSUME NEW p \in t PROVE p \in {<<v, f[v]>> : v \in vs}
    <3>1. PICK v \in vs, b \in BOOLEAN : p = <<v, b>>
      BY <1>2, <2>3 DEF LitsOf
    <3>2. f[v] = b
      <4>1. CASE b = TRUE
        BY <2>1, <2>3, <3>1, <4>1
      <4>2. CASE b = FALSE
        <5>1. <<v, TRUE>> \notin t
          BY <1>2, <2>3, <3>1, <4>2
        <5>2. f[v] = (<<v, TRUE>> \in t)
          BY <2>1
        <5> QED BY <4>2, <5>1, <5>2
      <4> QED BY <3>1, <4>1, <4>2
    <3> QED BY <3>1, <3>2
  <2>4. ASSUME NEW v \in vs PROVE <<v, f[v]>> \in t
    <3>1. f[v] = (<<v, TRUE>> \in t)
      BY <2>1
    <3>2. CASE <<v, TRUE>> \in t
      BY <3>1, <3>2
    <3>3. CASE <<v, TRUE>> \notin t
      <4>1. f[v] \in BOOLEAN
        BY <2>2
      <4>2. f[v] = FALSE
        BY <3>1, <3>3, <4>1
      <4> QED BY <1>2, <3>3, <4>2
    <3> QED BY <3>2, <3>3
  <2>5. t = {<<v, f[v]>> : v \in vs}
    BY <2>3, <2>4
  <2> QED BY <2>2, <2>5 DEF TotalAssignments
<1> QED BY <1>1, <1>2

\* The literals of a variable.
LEMMA LitIs ==
  ASSUME NEW v \in Vars, NEW b \in BOOLEAN
  PROVE  <<v, b>> \in AllLits /\ <<v, b>>[1] = v /\ <<v, b>>[2] = b /\ Neg(<<v, b>>) = <<v, ~b>>
BY DEF AllLits, LitsOf, Neg

\* What the assignment to variables says is what the one to names does.
LEMMA ModelHas ==
  ASSUME NEW num, DOMAIN num \subseteq Nat, NEW t, NEW v \in Vars, NEW n, NameIs(num, v, n), NEW b \in BOOLEAN
  PROVE  <<v, b>> \in ModelOf(num, t) <=> <<n, b>> \in t
<1>1. n \in DOMAIN num
  BY DEF NameIs
<1>2. PICK q \in AllLits : q = <<v, b>> /\ q[1] = v /\ q[2] = b
  BY LitIs
<1>3. \E k \in DOMAIN num : NameIs(num, q[1], k)
  BY <1>1, <1>2
<1>4. q \in ModelOf(num, t) <=> \E k \in DOMAIN num : NameIs(num, q[1], k) /\ <<k, q[2]>> \in t
  BY <1>3 DEF ModelOf
<1>5. \A k \in DOMAIN num : NameIs(num, q[1], k) => k = n
  BY <1>2, NameOne
<1> QED BY <1>1, <1>2, <1>4, <1>5

\* It is a model.
LEMMA ModelOfIs ==
  ASSUME NEW num, DOMAIN num \subseteq Nat, NEW t, t \in TotalAssignments(DOMAIN num), NEW m, m = ModelOf(num, t)
  PROVE  m \in Models
<1>1. m = ModelOf(num, t)
  OBVIOUS
<1>2. m \in SUBSET AllLits
  BY <1>1 DEF ModelOf
<1>3. ASSUME NEW v \in Vars, NEW b \in BOOLEAN PROVE <<v, b>> \in m <=> <<v, ~b>> \notin m
  <2>1. CASE \E n \in DOMAIN num : NameIs(num, v, n)
    <3>1. PICK n \in DOMAIN num : NameIs(num, v, n)
      BY <2>1
    <3>2. (<<v, TRUE>> \in m <=> <<n, TRUE>> \in t) /\ (<<v, FALSE>> \in m <=> <<n, FALSE>> \in t)
      BY <1>1, <3>1, ModelHas
    <3>3. <<n, TRUE>> \in t <=> <<n, FALSE>> \notin t
      BY TotalIs
    <3> QED BY <3>2, <3>3
  <2>2. CASE ~\E n \in DOMAIN num : NameIs(num, v, n)
    <3>1. ASSUME NEW c \in BOOLEAN PROVE <<v, c>> \in m <=> ~c
      <4>1. PICK q \in AllLits : q = <<v, c>> /\ q[1] = v /\ q[2] = c
        BY LitIs
      <4>2. q \in m <=> ~q[2]
        BY <1>1, <2>2, <4>1 DEF ModelOf
      <4> QED BY <4>1, <4>2
    <3>2. (<<v, TRUE>> \in m <=> FALSE) /\ (<<v, FALSE>> \in m <=> TRUE)
      BY <3>1
    <3> QED BY <3>2
  <2> QED BY <2>1, <2>2
<1>4. ASSUME NEW p \in AllLits PROVE p \in m <=> Neg(p) \notin m
  <2>1. PICK v \in Vars, b \in BOOLEAN : p = <<v, b>>
    BY DEF AllLits, LitsOf
  <2>2. Neg(p) = <<v, ~b>>
    BY <2>1 DEF Neg
  <2> QED BY <1>3, <2>1, <2>2
<1> QED BY <1>2, <1>4 DEF Models

\* Assignments that agree on what may be mentioned are models alike.
LEMMA Elsewhere ==
  ASSUME NEW s, Books(s), NEW m, NEW k, \A q \in AllLits : Usable(s, q) => (q \in m <=> q \in k), Means(s, m)
  PROVE  Means(s, k)
<1>1. Typed(s) /\ TrailOK(s) /\ Within(s, UsableLits(s))
  BY BooksAre
<1>2. ASSUME NEW r \in DOMAIN s.clause PROVE \E i \in 1..Len(s.clause[r]) : s.clause[r][i] \in k
  <2>1. PICK i \in 1..Len(s.clause[r]) : s.clause[r][i] \in m
    BY DEF Means
  <2>2. s.clause[r][i] \in UsableLits(s)
    BY <1>1 DEF Within
  <2> QED BY <2>1, <2>2 DEF UsableLits
<1>3. ASSUME NEW i \in 1..Len(s.trail), Lv(s, i) = 0 PROVE s.trail[i] \in k
  <2>1. s.trail[i] \in m
    BY <1>3 DEF Means
  <2>2. Usable(s, s.trail[i]) /\ s.trail[i] \in AllLits
    BY <1>1, TypedIs DEF TrailOK
  <2> QED BY <2>1, <2>2
<1> QED BY <1>2, <1>3 DEF Means

\* What is mentioned is in both of two sets.
LEMMA WithinBoth ==
  ASSUME NEW s, NEW L, NEW M, Within(s, L), Within(s, M)
  PROVE  Within(s, L \cap M)
BY DEF Within

\* What is mentioned stays within a larger set.
LEMMA WithinMore ==
  ASSUME NEW s, NEW L, NEW M, Within(s, L), L \subseteq M
  PROVE  Within(s, M)
BY DEF Within

\* Names that were not let go stand for variables that may be used.
LEMMA LiveIs ==
  ASSUME NEW s, NEW num, NEW giv, NEW let, Naming(s, num, giv, let),
         NEW n, n \in DOMAIN num, n \notin VarsOf(let), NEW b \in BOOLEAN, NEW q, q = <<num[n], b>>
  PROVE  /\ q \in AllLits /\ q[1] = num[n] /\ q[2] = b /\ Usable(s, q) /\ (s.ok => ~InReleased(s, q[1]))
         /\ NameIs(num, q[1], n)
<1>1. num[n] \in Vars /\ num[n] < s.nextVar /\ NameIs(num, num[n], n) /\ ~IsFree(s, num[n]) /\ (s.ok => ~InReleased(s, num[n]))
  BY DEF Naming
<1>2. q \in AllLits /\ q[1] = num[n] /\ q[2] = b
  BY <1>1, LitIs
<1> QED BY <1>1, <1>2 DEF Usable

\* The literals of a clause about such names.
LEMMA LiveLitsIs ==
  ASSUME NEW s, NEW num, NEW giv, NEW let, Naming(s, num, giv, let), NEW ps, ps \subseteq LitsOf(DOMAIN num \ VarsOf(let))
  PROVE  /\ LitsFor(num, ps) \subseteq AllLits
         /\ \A q \in LitsFor(num, ps) : Usable(s, q) /\ (s.ok => ~InReleased(s, q[1]))
         /\ \A p \in ps : p[1] \in DOMAIN num /\ p[1] \notin VarsOf(let) /\ p[2] \in BOOLEAN /\ p = <<p[1], p[2]>>
         /\ \A p \in ps : LitOf(num, p) \in AllLits /\ LitOf(num, p)[1] = num[p[1]] /\ LitOf(num, p)[2] = p[2]
         /\ \A p \in ps : NameIs(num, num[p[1]], p[1])
<1>1. ASSUME NEW p \in ps PROVE p[1] \in DOMAIN num /\ p[1] \notin VarsOf(let) /\ p[2] \in BOOLEAN /\ p = <<p[1], p[2]>>
  BY DEF LitsOf
<1>2. ASSUME NEW p \in ps
      PROVE  /\ LitOf(num, p) \in AllLits /\ LitOf(num, p)[1] = num[p[1]] /\ LitOf(num, p)[2] = p[2]
             /\ Usable(s, LitOf(num, p)) /\ (s.ok => ~InReleased(s, LitOf(num, p)[1])) /\ NameIs(num, num[p[1]], p[1])
  <2>1. PICK n, b : n = p[1] /\ b = p[2]
    OBVIOUS
  <2>2. n \in DOMAIN num /\ n \notin VarsOf(let) /\ b \in BOOLEAN
    BY <1>1, <2>1
  <2>3. PICK q : q = <<num[n], b>>
    OBVIOUS
  <2>4. q \in AllLits /\ q[1] = num[n] /\ q[2] = b /\ Usable(s, q) /\ (s.ok => ~InReleased(s, q[1])) /\ NameIs(num, q[1], n)
    BY <2>2, <2>3, LiveIs
  <2> QED BY <2>1, <2>3, <2>4 DEF LitOf
<1> QED BY <1>1, <1>2 DEF LitsFor

-----------------------------------------------------------------------------
(* The steps of the search.                                                *)

\* Of a name that was let go, only the literal let go was said.
LEMMA SaidOnce ==
  ASSUME NEW num, NEW giv, NEW let, Speaking(num, giv, let), NEW x, x \in Said(giv, let), x[1] \in VarsOf(let)
  PROVE  x \in let
<1>1. PICK y \in let : y[1] = x[1]
  BY DEF VarsOf
<1>2. Neg(y) \notin Said(giv, let) /\ y \in LitsOf(DOMAIN num)
  BY DEF Speaking
<1>3. x \in LitsOf(DOMAIN num)
  BY DEF Speaking, Said
<1>4. PICK b, c \in BOOLEAN, n, k \in DOMAIN num : x = <<n, b>> /\ y = <<k, c>>
  BY <1>2, <1>3 DEF LitsOf
<1>5. n = k
  BY <1>1, <1>4
<1>6. b = c
  <2> SUFFICES ASSUME b # c PROVE FALSE
    OBVIOUS
  <2>1. b = ~c
    OBVIOUS
  <2>2. Neg(y) = x
    BY <1>4, <1>5, <2>1 DEF Neg
  <2> QED BY <1>2, <2>2
<1> QED BY <1>4, <1>5, <1>6

\* Steps of the search keep what the user said.
LEMMA Carried ==
  ASSUME NEW s, NEW t, Carries(s, t), NEW num, NEW giv, NEW let, Serves(s, num, giv, let)
  PROVE  Serves(t, num, giv, let)
<1>1. Naming(s, num, giv, let) /\ Speaking(num, giv, let) /\ Sound(s, num, giv, let)
  BY DEF Serves
<1>2. DOMAIN num \subseteq Nat
  BY <1>1, NamesAreNumbers
<1>3. t.nextVar = s.nextVar /\ (t.ok => s.ok)
  BY DEF Carries
<1>4. Naming(t, num, giv, let)
  <2>1. ASSUME NEW n \in DOMAIN num \ VarsOf(let)
        PROVE  NameIs(num, num[n], n) /\ ~IsFree(t, num[n]) /\ (t.ok => ~InReleased(t, num[n]))
    <3>1. NameIs(num, num[n], n) /\ ~IsFree(s, num[n]) /\ (s.ok => ~InReleased(s, num[n]))
      BY <1>1 DEF Naming
    <3> QED BY <3>1 DEF Carries
  <2> QED BY <1>1, <1>3, <2>1 DEF Naming
<1>5. Within(t, NamedIn(num, Said(giv, let)))
  BY DEF Carries, Serves
<1>6. Sound(t, num, giv, let)
  <2> SUFFICES ASSUME NEW x, Solves(num, giv, let, x) PROVE t.ok /\ Means(t, ModelOf(num, x))
    BY DEF Sound
  <2>1. s.ok /\ Means(s, ModelOf(num, x))
    BY <1>1 DEF Sound
  <2>2. PICK m : m = ModelOf(num, x)
    OBVIOUS
  <2>3. m \in Models
    BY <1>2, <2>2, ModelOfIs DEF Solves
  <2> QED BY <2>1, <2>2, <2>3 DEF Carries
<1>7. ASSUME t.ok, NEW g \in giv PROVE g \cap let # {} \/ Keeping(t, LitsFor(num, g))
  <2>1. s.ok /\ (g \cap let # {} \/ Keeping(s, LitsFor(num, g)))
    BY <1>3, <1>7 DEF Serves, Kept
  <2>2. ASSUME NEW p \in LitsFor(num, g), InReleased(s, p[1]) PROVE g \cap let # {}
    <3>1. PICK x \in g : p = LitOf(num, x)
      BY DEF LitsFor
    <3>2. x \in Said(giv, let)
      BY DEF Said
    <3>3. x[1] \in DOMAIN num
      BY <1>1 DEF Speaking, LitsOf
    <3>4. p[1] = num[x[1]]
      BY <3>1 DEF LitOf
    <3>5. x[1] \in VarsOf(let)
      BY <1>1, <2>1, <2>2, <3>3, <3>4 DEF Naming
    <3>6. x \in let
      BY <1>1, <3>2, <3>5, SaidOnce
    <3> QED BY <3>6
  <2>3. PICK lits : lits = LitsFor(num, g)
    OBVIOUS
  <2>4. Keeping(s, lits) => Keeping(t, lits) \/ \E p \in lits : InReleased(s, p[1])
    BY <1>7, <2>1 DEF Carries
  <2> QED BY <2>1, <2>2, <2>3, <2>4
<1>8. t.ok => Kept(t, num, giv, let)
  BY <1>7 DEF Kept
<1> QED BY <1>1, <1>4, <1>5, <1>6, <1>8 DEF Serves

\* newVar() between two calls.
LEMMA IdleNewVar ==
  ASSUME NEW s, InIdle(s), Len(s.free) # 0 \/ s.nextVar < MaxVars, NEW v, v = NewVarOf(s), NEW t, t = NewVar(s)
  PROVE  InIdle(t)
<1>1. Resting(s) /\ (s.ok => Pure(s))
  BY DEF InIdle
<1>2. Books(s) /\ WatchesOK(s) /\ Typed(s)
  BY <1>1, BooksAre DEF Resting
<1>3. /\ Books(t) /\ WatchesOK(t) /\ HasNew(s, t, v) /\ (\A n \in 0..Len(s.trail) : AwakeTo(s, n) => AwakeTo(t, n))
      /\ \A L : Within(s, L) => Within(t, L)
  BY <1>2, NewVarIs
<1>4. t.trail = s.trail /\ t.lim = s.lim /\ t.qhead = s.qhead /\ t.ok = s.ok /\ t.released = s.released
  BY <1>3 DEF HasNew
<1>5. Len(s.trail) \in 0..Len(s.trail)
  <2>1. Len(s.trail) \in Nat
    BY <1>2, TypedIs
  <2> QED BY <2>1
<1>6. Resting(t)
  BY <1>1, <1>3, <1>4, <1>5 DEF Resting
<1>7. ASSUME s.ok PROVE Pure(t)
  <2>1. ReleasedOK(s) /\ Within(s, PureLits(s))
    BY <1>1, <1>7 DEF Pure
  <2>2. ReleasedOK(t)
    BY <1>3, <1>4, <2>1 DEF ReleasedOK, HasNew
  <2>3. PureLits(s) \subseteq PureLits(t)
    <3> SUFFICES ASSUME NEW q \in AllLits, Usable(s, q), InReleased(s, q[1]) => True(s, q)
                 PROVE  Usable(t, q) /\ (InReleased(t, q[1]) => True(t, q))
      BY DEF PureLits
    <3>1. q[1] # v
      BY <1>3 DEF HasNew
    <3>2. Usable(t, q)
      BY <1>3 DEF HasNew
    <3>3. True(s, q) => True(t, q)
      BY <1>3, <3>1 DEF HasNew, True
    <3> QED BY <1>4, <3>2, <3>3 DEF InReleased
  <2>4. Within(t, PureLits(t))
    BY <1>3, <2>1, <2>3, WithinMore
  <2> QED BY <2>2, <2>4 DEF Pure
<1> QED BY <1>4, <1>6, <1>7 DEF InIdle

-----------------------------------------------------------------------------
(* newVar()                                                                *)

\* num2 is num with the new name n for v.
Renamed(num, num2, n, v) ==
  /\ DOMAIN num2 = DOMAIN num \cup {n} /\ DOMAIN num2 \subseteq Nat /\ n \notin DOMAIN num
  /\ num2[n] = v /\ \A k \in DOMAIN num : num2[k] = num[k]
  /\ NameIs(num2, v, n)
  /\ \A x, k : x # v => (NameIs(num2, x, k) <=> NameIs(num, x, k))

\* The new name is above all others.
LEMMA RenamedIs ==
  ASSUME NEW num, DOMAIN num \subseteq Nat, NEW n \in Nat, \A k \in DOMAIN num : k < n, NEW v, NEW num2, num2 = With(num, n, v)
  PROVE  Renamed(num, num2, n, v)
<1>1. n \notin DOMAIN num
  <2> SUFFICES ASSUME n \in DOMAIN num PROVE FALSE
    OBVIOUS
  <2>1. n < n
    OBVIOUS
  <2> QED BY <2>1
<1>2. DOMAIN num2 = DOMAIN num \cup {n} /\ DOMAIN num2 \subseteq Nat
  BY DEF With
<1>3. num2[n] = v /\ \A k \in DOMAIN num : num2[k] = num[k]
  BY <1>1 DEF With
<1>4. \A k \in DOMAIN num2 : k <= n
  <2> SUFFICES ASSUME NEW k \in DOMAIN num2 PROVE k <= n
    OBVIOUS
  <2>1. k \in Nat /\ (k = n \/ k < n)
    BY <1>2
  <2> QED BY <2>1
<1>5. NameIs(num2, v, n)
  BY <1>2, <1>3, <1>4 DEF NameIs
<1>6. ASSUME NEW x, NEW k, x # v PROVE NameIs(num2, x, k) <=> NameIs(num, x, k)
  <2>1. \A j : j \in DOMAIN num2 /\ num2[j] = x <=> j \in DOMAIN num /\ num[j] = x
    BY <1>2, <1>3, <1>6
  <2> QED BY <2>1 DEF NameIs
<1> QED BY <1>1, <1>2, <1>3, <1>5, <1>6 DEF Renamed

\* The part of a solution that is about the names before.
LEMMA SolvesBefore ==
  ASSUME NEW num, NEW num2, NEW n, NEW v, Renamed(num, num2, n, v), NEW giv, NEW let, Speaking(num, giv, let),
         NEW x, Solves(num2, giv, let, x), NEW y, y = {p \in x : p[1] \in DOMAIN num}
  PROVE  Solves(num, giv, let, y)
<1>1. x \subseteq LitsOf(DOMAIN num2) /\ \A k \in DOMAIN num2 : <<k, TRUE>> \in x <=> <<k, FALSE>> \notin x
  BY TotalIs DEF Solves
<1>2. DOMAIN num \subseteq DOMAIN num2
  BY DEF Renamed
<1>3. y \subseteq LitsOf(DOMAIN num)
  BY <1>1 DEF LitsOf
<1>4. ASSUME NEW k \in DOMAIN num PROVE <<k, TRUE>> \in y <=> <<k, FALSE>> \notin y
  <2>1. <<k, TRUE>>[1] = k /\ <<k, FALSE>>[1] = k
    OBVIOUS
  <2> QED BY <1>1, <1>2, <2>1
<1>5. y \in TotalAssignments(DOMAIN num)
  BY <1>3, <1>4, TotalIs
<1>6. ASSUME NEW p \in LitsOf(DOMAIN num) PROVE p[1] \in DOMAIN num
  BY DEF LitsOf
<1>7. let \subseteq y
  BY <1>6 DEF Speaking, Solves
<1>8. ASSUME NEW g \in giv PROVE y \cap g # {}
  <2>1. PICK p \in x : p \in g
    BY DEF Solves, Satisfies
  <2>2. p \in LitsOf(DOMAIN num)
    BY <2>1 DEF Speaking
  <2> QED BY <1>6, <2>1, <2>2
<1> QED BY <1>5, <1>7, <1>8 DEF Solves, Satisfies

\* newVar() under a new name keeps what the user said.
LEMMA NewNamed ==
  ASSUME NEW s, Books(s), WatchesOK(s), s.ok => Pure(s), Len(s.free) # 0 \/ s.nextVar < MaxVars,
         NEW num, NEW giv, NEW let, Serves(s, num, giv, let),
         NEW n \in Names, \A k \in DOMAIN num : k < n, NEW v, v = NewVarOf(s), NEW t, t = NewVar(s),
         NEW num2, num2 = With(num, n, v)
  PROVE  Serves(t, num2, giv, let)
<1>1. Naming(s, num, giv, let) /\ Speaking(num, giv, let) /\ Sound(s, num, giv, let) /\ Within(s, NamedIn(num, Said(giv, let)))
  BY DEF Serves
<1>2. DOMAIN num \subseteq Nat /\ n \in Nat
  BY <1>1, NamesAreNumbers, NamesAssumption
<1>3. Renamed(num, num2, n, v)
  BY <1>2, RenamedIs
<1>4. /\ HasNew(s, t, v) /\ (\A m : Means(s, m) <=> Means(t, m)) /\ (\A p : AtRoot(t, p) <=> AtRoot(s, p))
      /\ \A L : Within(s, L) => Within(t, L)
  BY NewVarIs
<1>5. Typed(s) /\ s.nextVar \in Nat
  BY BooksAre, TypedIs
<1>6. t.ok = s.ok /\ t.released = s.released /\ v \in Vars /\ (t.nextVar = s.nextVar \/ (t.nextVar = s.nextVar + 1 /\ v = s.nextVar))
  BY <1>4 DEF HasNew
<1>7. v < t.nextVar /\ \A w \in Vars : w < s.nextVar => w < t.nextVar
  <2>1. CASE t.nextVar = s.nextVar + 1 /\ v = s.nextVar
    <3>1. PICK a \in Nat : a = s.nextVar
      BY <1>5
    <3>2. \A w \in Vars : w \in Nat
      BY Bounds
    <3> QED BY <2>1, <3>1, <3>2
  <2>2. CASE t.nextVar = s.nextVar
    <3>1. IsFree(s, v)
      <4>1. s.nextVar # s.nextVar + 1
        BY <1>5
      <4>2. Len(s.free) # 0
        BY <1>4, <2>2, <4>1 DEF HasNew
      <4>3. v # s.nextVar
        BY <1>4, <4>2 DEF HasNew
      <4> QED BY <1>4, <4>3 DEF HasNew
    <3>2. v < s.nextVar
      BY <3>1, BooksAre DEF FreeOK, IsFree
    <3> QED BY <2>2, <3>2
  <2> QED BY <1>6, <2>1, <2>2
<1>8. ASSUME NEW w \in Vars, w < t.nextVar, w # v PROVE w < s.nextVar
  <2>1. PICK a \in Nat : a = s.nextVar
    BY <1>5
  <2>2. w \in Nat
    BY Bounds
  <2> QED BY <1>6, <1>8, <2>1, <2>2
<1>9. Naming(t, num2, giv, let)
  <2>1. DOMAIN num2 \subseteq Names
    BY <1>1, <1>3 DEF Renamed, Naming
  <2>2. ASSUME NEW k \in DOMAIN num2 PROVE num2[k] \in Vars /\ num2[k] < t.nextVar
    <3>1. CASE k = n
      BY <1>3, <1>6, <1>7, <3>1 DEF Renamed
    <3>2. CASE k \in DOMAIN num
      <4>1. num2[k] = num[k] /\ num[k] \in Vars /\ num[k] < s.nextVar
        BY <1>1, <1>3, <3>2 DEF Renamed, Naming
      <4> QED BY <1>7, <4>1
    <3> QED BY <1>3, <3>1, <3>2 DEF Renamed
  <2>3. ASSUME NEW w \in Vars, w < t.nextVar PROVE \E k \in DOMAIN num2 : NameIs(num2, w, k)
    <3>1. CASE w = v
      BY <1>3, <3>1 DEF Renamed
    <3>2. CASE w # v
      <4>1. PICK k \in DOMAIN num : NameIs(num, w, k)
        BY <1>1, <1>8, <2>3, <3>2 DEF Naming
      <4> QED BY <1>3, <3>2, <4>1 DEF Renamed
    <3> QED BY <3>1, <3>2
  <2>4. ASSUME NEW k \in DOMAIN num2 \ VarsOf(let)
        PROVE  NameIs(num2, num2[k], k) /\ ~IsFree(t, num2[k]) /\ (t.ok => ~InReleased(t, num2[k]))
    <3>1. CASE k = n
      <4>1. num2[k] = v /\ NameIs(num2, v, k)
        BY <1>3, <3>1 DEF Renamed
      <4>2. ~IsFree(t, v)
        BY <1>4 DEF HasNew
      <4>3. s.ok => ~InReleased(s, v)
        <5> SUFFICES ASSUME s.ok, InReleased(s, v) PROVE FALSE
          OBVIOUS
        <5>1. PICK j \in 1..Len(s.trail) : s.trail[j][1] = v
          BY DEF Pure, ReleasedOK, InReleased
        <5>2. s.trail[j] \in AllLits /\ Usable(s, s.trail[j])
          BY <1>5, BooksAre, TypedIs DEF TrailOK
        <5> QED BY <1>4, <5>1, <5>2 DEF HasNew
      <4> QED BY <1>6, <4>1, <4>2, <4>3 DEF InReleased
    <3>2. CASE k \in DOMAIN num
      <4>1. num2[k] = num[k] /\ NameIs(num, num[k], k) /\ ~IsFree(s, num[k]) /\ (s.ok => ~InReleased(s, num[k])) /\ num[k] < s.nextVar
        BY <1>1, <1>3, <3>2 DEF Renamed, Naming
      <4>2. num[k] # v
        <5> SUFFICES ASSUME num[k] = v PROVE FALSE
          OBVIOUS
        <5>1. v = s.nextVar
          BY <1>4, <4>1 DEF HasNew
        <5>2. s.nextVar < s.nextVar
          BY <4>1, <5>1
        <5> QED BY <1>5, <5>2
      <4>3. NameIs(num2, num[k], k)
        BY <1>3, <4>1, <4>2 DEF Renamed
      <4>4. ~IsFree(t, num[k])
        BY <1>4, <4>1 DEF HasNew
      <4> QED BY <1>6, <4>1, <4>3, <4>4 DEF InReleased
    <3> QED BY <1>3, <3>1, <3>2 DEF Renamed
  <2> QED BY <2>1, <2>2, <2>3, <2>4 DEF Naming
<1>10. Speaking(num2, giv, let)
  <2>1. LitsOf(DOMAIN num) \subseteq LitsOf(DOMAIN num2)
    BY <1>3 DEF Renamed, LitsOf
  <2> QED BY <1>1, <2>1 DEF Speaking
<1>11. Within(t, NamedIn(num2, Said(giv, let)))
  <2>1. Within(s, NamedIn(num, Said(giv, let)) \cap UsableLits(s))
    BY <1>1, BooksAre, WithinBoth
  <2>2. ASSUME NEW q \in NamedIn(num, Said(giv, let)) \cap UsableLits(s) PROVE q \in NamedIn(num2, Said(giv, let))
    <3>1. q[1] # v
      BY <1>4, <2>2 DEF HasNew, UsableLits
    <3>2. PICK p \in Said(giv, let) : NameIs(num, q[1], p[1]) /\ q[2] = p[2]
      BY <2>2 DEF NamedIn
    <3>3. NameIs(num2, q[1], p[1])
      BY <1>3, <3>1, <3>2 DEF Renamed
    <3> QED BY <2>2, <3>2, <3>3 DEF NamedIn
  <2>3. NamedIn(num, Said(giv, let)) \cap UsableLits(s) \subseteq NamedIn(num2, Said(giv, let))
    BY <2>2
  <2> QED BY <1>4, <2>1, <2>3, WithinMore
<1>12. Sound(t, num2, giv, let)
  <2> SUFFICES ASSUME NEW x, Solves(num2, giv, let, x) PROVE t.ok /\ Means(t, ModelOf(num2, x))
    BY DEF Sound
  <2>1. PICK y : y = {p \in x : p[1] \in DOMAIN num}
    OBVIOUS
  <2>2. Solves(num, giv, let, y)
    BY <1>1, <1>3, <2>1, SolvesBefore
  <2>3. PICK m : m = ModelOf(num, y)
    OBVIOUS
  <2>4. s.ok /\ Means(s, m)
    BY <1>1, <2>2, <2>3 DEF Sound
  <2>5. PICK h : h = ModelOf(num2, x)
    OBVIOUS
  <2>6. ASSUME NEW q \in AllLits, Usable(s, q) PROVE q \in m <=> q \in h
    <3>1. q[1] # v
      BY <1>4, <2>6 DEF HasNew
    <3>2. PICK w \in Vars, b \in BOOLEAN : q = <<w, b>>
      BY DEF AllLits, LitsOf
    <3>3. w # v /\ w < s.nextVar
      BY <2>6, <3>1, <3>2 DEF Usable
    <3>4. PICK k \in DOMAIN num : NameIs(num, w, k)
      BY <1>1, <3>3 DEF Naming
    <3>5. NameIs(num2, w, k) /\ DOMAIN num2 \subseteq Nat
      BY <1>3, <3>3, <3>4 DEF Renamed
    <3>6. <<w, b>> \in m <=> <<k, b>> \in y
      BY <1>2, <2>3, <3>4, ModelHas
    <3>7. <<w, b>> \in h <=> <<k, b>> \in x
      BY <2>5, <3>5, ModelHas
    <3>8. <<k, b>> \in y <=> <<k, b>> \in x
      <4>1. <<k, b>>[1] = k
        OBVIOUS
      <4> QED BY <2>1, <3>4, <4>1
    <3> QED BY <3>2, <3>6, <3>7, <3>8
  <2>7. Means(s, h)
    BY <2>4, <2>6, Elsewhere
  <2> QED BY <1>4, <1>6, <2>4, <2>5, <2>7
<1>13. ASSUME t.ok, NEW g \in giv PROVE g \cap let # {} \/ Keeping(t, LitsFor(num2, g))
  <2>1. \A p \in g : p[1] \in DOMAIN num
    BY <1>1 DEF Speaking, LitsOf
  <2>2. \A p \in g : LitOf(num2, p) = LitOf(num, p)
    BY <1>3, <2>1 DEF Renamed, LitOf
  <2>3. LitsFor(num2, g) = LitsFor(num, g)
    BY <2>2 DEF LitsFor
  <2>4. PICK L : L = LitsFor(num, g)
    OBVIOUS
  <2>5. g \cap let # {} \/ Keeping(s, L)
    BY <1>6, <1>13, <2>4 DEF Serves, Kept
  <2>6. Keeping(s, L) => Keeping(t, L)
    BY <1>4 DEF Keeping, HasNew, Originals
  <2> QED BY <2>3, <2>4, <2>5, <2>6
<1>14. t.ok => Kept(t, num2, giv, let)
  BY <1>13 DEF Kept
<1> QED BY <1>9, <1>10, <1>11, <1>12, <1>14 DEF Serves

-----------------------------------------------------------------------------
(* addClause()                                                             *)

\* What is released stays pure.
LEMMA GrowsPure ==
  ASSUME NEW s, Books(s), NEW t, Books(t), Grows(s, t), t.nextVar = s.nextVar, t.free = s.free, t.released = s.released,
         ReleasedOK(s)
  PROVE  ReleasedOK(t) /\ PureLits(s) \subseteq PureLits(t)
<1>1. Typed(s) /\ Typed(t) /\ TrailOK(t)
  BY BooksAre
<1>2. PICK n \in Nat : n = Len(s.trail)
  BY <1>1, TypedIs
<1>3. PICK k \in Nat : k = Len(t.trail)
  BY <1>1, TypedIs
<1>4. n <= k
  BY <1>2, <1>3 DEF Grows
<1>5. ReleasedOK(t)
  <2>1. Distinct(t.released)
    BY DEF ReleasedOK
  <2>2. ASSUME NEW i \in 1..Len(t.released) PROVE \E j \in 1..Len(t.trail) : t.trail[j][1] = t.released[i] /\ Lv(t, j) = 0
    <3>1. PICK j \in 1..n : s.trail[j][1] = s.released[i] /\ Lv(s, j) = 0
      BY <1>2 DEF ReleasedOK
    <3>2. j \in 1..k /\ t.trail[j] = s.trail[j] /\ Lv(t, j) = Lv(s, j)
      BY <1>2, <1>4 DEF Grows
    <3> QED BY <1>3, <3>1, <3>2
  <2> QED BY <2>1, <2>2 DEF ReleasedOK
<1>6. ASSUME NEW q \in PureLits(s) PROVE q \in PureLits(t)
  <2>1. q \in AllLits /\ Usable(s, q) /\ (InReleased(s, q[1]) => True(s, q))
    BY DEF PureLits
  <2>2. Usable(t, q)
    BY <2>1 DEF Usable, IsFree
  <2>3. ASSUME InReleased(t, q[1]) PROVE True(t, q)
    <3>1. InReleased(s, q[1])
      BY <2>3 DEF InReleased
    <3>2. AtRoot(s, q)
      BY <2>1, <3>1, ReleasedTrue
    <3>3. AtRoot(t, q)
      BY <1>1, <3>2, GrowsIs
    <3> QED BY <1>1, <3>3 DEF AtRoot, TrailOK, True
  <2> QED BY <2>1, <2>2, <2>3 DEF PureLits
<1> QED BY <1>5, <1>6

\* What is kept stays kept.
LEMMA GrowsKept ==
  ASSUME NEW s, Typed(s), NEW t, Typed(t), Grows(s, t), t.learnts = s.learnts, NEW L, Keeping(s, L)
  PROVE  Keeping(t, L)
<1>1. CASE \E p \in L : Neg(p) \in L
  BY <1>1 DEF Keeping
<1>2. CASE \E p \in L : AtRoot(s, p)
  BY <1>2, GrowsIs DEF Keeping
<1>3. CASE \E r \in Originals(s) : \A k \in 1..Len(s.clause[r]) : s.clause[r][k] \in L
  <2>1. PICK r \in Originals(s) : \A k \in 1..Len(s.clause[r]) : s.clause[r][k] \in L
    BY <1>3
  <2>2. r \in DOMAIN s.clause /\ r \notin s.learnts
    BY <2>1 DEF Originals
  <2>3. r \in DOMAIN t.clause /\ \A p \in AllLits : InClause(s, r, p) <=> InClause(t, r, p)
    BY <2>2 DEF Grows
  <2>4. t.clause[r] \in ClauseSeq
    BY <2>3, TypedIs
  <2>5. ASSUME NEW k \in 1..Len(t.clause[r]) PROVE t.clause[r][k] \in L
    <3>1. t.clause[r][k] \in AllLits
      BY <2>4, ClauseIs
    <3>2. InClause(t, r, t.clause[r][k])
      BY DEF InClause
    <3>3. InClause(s, r, t.clause[r][k])
      BY <2>3, <3>1, <3>2
    <3> QED BY <2>1, <3>3 DEF InClause
  <2>6. r \in Originals(t)
    BY <2>2, <2>3 DEF Originals
  <2> QED BY <2>5, <2>6 DEF Keeping
<1> QED BY <1>1, <1>2, <1>3 DEF Keeping

\* A literal that is said has its name among those said.
LEMMA NamedIsIn ==
  ASSUME NEW s, NEW num, NEW giv, NEW let, Naming(s, num, giv, let), NEW ps, ps \subseteq LitsOf(DOMAIN num \ VarsOf(let)),
         NEW S, ps \subseteq S
  PROVE  LitsFor(num, ps) \subseteq NamedIn(num, S)
<1>1. ASSUME NEW p \in ps PROVE LitOf(num, p) \in NamedIn(num, S)
  <2>1. LitOf(num, p) \in AllLits /\ LitOf(num, p)[1] = num[p[1]] /\ LitOf(num, p)[2] = p[2] /\ NameIs(num, num[p[1]], p[1])
    BY LiveLitsIs
  <2> QED BY <2>1 DEF NamedIn
<1> QED BY <1>1 DEF LitsFor

\* addClause_() between two calls, of literals that were not let go.
LEMMA AddServes ==
  ASSUME NEW s, InIdle(s), NEW num, NEW giv, NEW let, Serves(s, num, giv, let),
         NEW c, c \subseteq LitsOf(DOMAIN num \ VarsOf(let)), NEW t, t = AddClause(s, LitsFor(num, c)),
         NEW giv2, giv2 = giv \cup {c}
  PROVE  InIdle(t) /\ Serves(t, num, giv2, let)
<1>1. Naming(s, num, giv, let) /\ Speaking(num, giv, let) /\ Sound(s, num, giv, let) /\ Within(s, NamedIn(num, Said(giv, let)))
  BY DEF Serves
<1>2. DOMAIN num \subseteq Nat
  BY <1>1, NamesAreNumbers
<1>3. PICK lits : lits = LitsFor(num, c)
  OBVIOUS
<1>4. lits \in SUBSET AllLits /\ (\A q \in lits : Usable(s, q)) /\ (\A q \in lits : s.ok => ~InReleased(s, q[1]))
  BY <1>1, <1>3, LiveLitsIs
<1>5. Resting(s) /\ (s.ok => Pure(s))
  BY DEF InIdle
<1>6. AddedTo(s, t, lits)
  BY <1>3, <1>4, <1>5, AddClauseIs
<1>7. /\ Resting(t) /\ Grows(s, t) /\ t.nextVar = s.nextVar /\ t.free = s.free /\ t.released = s.released /\ t.learnts = s.learnts
      /\ (t.ok => s.ok) /\ (t.ok => Keeping(t, lits))
  BY <1>6 DEF AddedTo
<1>8. Books(s) /\ Typed(s) /\ Books(t) /\ Typed(t)
  BY <1>5, <1>7, BooksAre DEF Resting
<1>9. ASSUME t.ok PROVE Pure(t)
  <2>1. s.ok /\ ReleasedOK(s) /\ Within(s, PureLits(s))
    BY <1>5, <1>7, <1>9 DEF Pure
  <2>2. ReleasedOK(t) /\ PureLits(s) \subseteq PureLits(t)
    BY <1>7, <1>8, <2>1, GrowsPure
  <2>3. lits \subseteq PureLits(s)
    BY <1>4, <2>1 DEF PureLits
  <2>4. Within(t, PureLits(s))
    BY <1>6, <2>1, <2>3 DEF AddedTo
  <2> QED BY <2>2, <2>4, WithinMore DEF Pure
<1>10. InIdle(t)
  BY <1>7, <1>9 DEF InIdle
<1>11. Naming(t, num, giv2, let)
  BY <1>1, <1>7 DEF Naming, IsFree, InReleased
<1>12. \A p \in c : p[1] \notin VarsOf(let) /\ p \in LitsOf(DOMAIN num)
  BY DEF LitsOf
<1>13. Speaking(num, giv2, let)
  <2>1. ASSUME NEW p \in let PROVE Neg(p) \notin Said(giv2, let)
    <3>1. Neg(p) \notin Said(giv, let)
      BY <1>1 DEF Speaking
    <3>2. Neg(p)[1] = p[1] /\ p[1] \in VarsOf(let)
      BY DEF Neg, VarsOf
    <3>3. Neg(p) \notin c
      BY <1>12, <3>2
    <3> QED BY <3>1, <3>3 DEF Said
  <2> QED BY <1>1, <1>12, <2>1 DEF Speaking
<1>14. Said(giv, let) \subseteq Said(giv2, let) /\ c \subseteq Said(giv2, let)
  BY DEF Said
<1>15. Within(t, NamedIn(num, Said(giv2, let)))
  <2>1. NamedIn(num, Said(giv, let)) \subseteq NamedIn(num, Said(giv2, let))
    BY <1>14 DEF NamedIn
  <2>2. Within(s, NamedIn(num, Said(giv2, let)))
    BY <1>1, <2>1, WithinMore
  <2>3. lits \subseteq NamedIn(num, Said(giv2, let))
    BY <1>1, <1>3, <1>14, NamedIsIn
  <2> QED BY <1>6, <2>2, <2>3 DEF AddedTo
<1>16. Sound(t, num, giv2, let)
  <2> SUFFICES ASSUME NEW x, Solves(num, giv2, let, x) PROVE t.ok /\ Means(t, ModelOf(num, x))
    BY DEF Sound
  <2>1. Solves(num, giv, let, x) /\ x \cap c # {}
    BY DEF Solves, Satisfies
  <2>2. PICK m : m = ModelOf(num, x)
    OBVIOUS
  <2>3. s.ok /\ Means(s, m)
    BY <1>1, <2>1, <2>2 DEF Sound
  <2>4. m \in Models
    BY <1>2, <2>1, <2>2, ModelOfIs DEF Solves
  <2>5. PICK p \in c : p \in x
    BY <2>1
  <2>6. PICK n, b : n = p[1] /\ b = p[2]
    OBVIOUS
  <2>7. p = <<n, b>> /\ b \in BOOLEAN /\ NameIs(num, num[n], n) /\ n \in DOMAIN num
    BY <1>1, <2>6, LiveLitsIs
  <2>8. PICK v \in Vars : v = num[n]
    BY <1>1, <2>7 DEF Naming
  <2>9. <<v, b>> \in m
    BY <1>2, <2>2, <2>5, <2>7, <2>8, ModelHas
  <2>10. <<v, b>> \in lits
    BY <1>3, <2>6, <2>8 DEF LitsFor, LitOf
  <2> QED BY <1>6, <2>2, <2>3, <2>4, <2>9, <2>10 DEF AddedTo
<1>17. ASSUME t.ok, NEW g \in giv2 PROVE g \cap let # {} \/ Keeping(t, LitsFor(num, g))
  <2>1. CASE g = c
    BY <1>3, <1>7, <1>17, <2>1
  <2>2. CASE g \in giv
    <3>1. PICK L : L = LitsFor(num, g)
      OBVIOUS
    <3>2. g \cap let # {} \/ Keeping(s, L)
      BY <1>7, <1>17, <2>2, <3>1 DEF Serves, Kept
    <3>3. Keeping(s, L) => Keeping(t, L)
      BY <1>7, <1>8, GrowsKept
    <3> QED BY <3>1, <3>2, <3>3
  <2> QED BY <2>1, <2>2
<1>18. t.ok => Kept(t, num, giv2, let)
  BY <1>17 DEF Kept
<1> QED BY <1>10, <1>11, <1>13, <1>15, <1>16, <1>18 DEF Serves

-----------------------------------------------------------------------------
(* releaseVar()                                                            *)

\* The members of a sequence that got one more.
LEMMA AppendedIn ==
  ASSUME NEW S, NEW q \in Seq(S), NEW x \in S, NEW r, r = Append(q, x)
  PROVE  \A v : (\E i \in 1..Len(r) : r[i] = v) <=> (\E i \in 1..Len(q) : q[i] = v) \/ v = x
<1>1. r \in Seq(S) /\ Len(r) = Len(q) + 1 /\ Len(q) \in Nat
      /\ r[Len(q) + 1] = x /\ \A i \in 1..Len(q) : r[i] = q[i]
  BY AppendIs
<1>2. PICK n \in Nat : n = Len(q)
  BY <1>1
<1>3. \A i \in 1..(n + 1) : i \in 1..n \/ i = n + 1
  OBVIOUS
<1>4. n + 1 \in 1..(n + 1) /\ \A i \in 1..n : i \in 1..(n + 1)
  OBVIOUS
<1> QED BY <1>1, <1>2, <1>3, <1>4

\* The released literal is the only one of its variable that may be mentioned.
LEMMA ReleasedPure ==
  ASSUME NEW s, NEW num, DOMAIN num \subseteq Nat, NEW S, S \subseteq LitsOf(DOMAIN num), NEW p, p \in LitsOf(DOMAIN num), Neg(p) \notin S,
         NameIs(num, num[p[1]], p[1]), NEW q, q = LitOf(num, p), NEW e, e \in NamedIn(num, S), e[1] = q[1]
  PROVE  e = q
<1>1. PICK n \in DOMAIN num, b \in BOOLEAN : p = <<n, b>>
  BY DEF LitsOf
<1>2. q = <<num[n], b>> /\ q[1] = num[n]
  BY <1>1 DEF LitOf
<1>3. PICK y \in S : NameIs(num, e[1], y[1]) /\ e[2] = y[2]
  BY DEF NamedIn
<1>4. PICK k \in DOMAIN num, c \in BOOLEAN : y = <<k, c>>
  BY <1>3 DEF LitsOf
<1>5. NameIs(num, num[n], n) /\ NameIs(num, num[n], k)
  BY <1>1, <1>2, <1>3, <1>4
<1>6. k = n
  BY <1>5, NameOne
<1>7. c = b
  <2> SUFFICES ASSUME c # b PROVE FALSE
    OBVIOUS
  <2>1. y = Neg(p)
    <3>1. c = ~b
      OBVIOUS
    <3> QED BY <1>1, <1>4, <1>6, <3>1 DEF Neg
  <2> QED BY <2>1
<1>8. e[2] = b
  BY <1>3, <1>4, <1>7
<1>9. e \in AllLits
  BY DEF NamedIn
<1>10. PICK v \in Vars, d \in BOOLEAN : e = <<v, d>>
  BY <1>9 DEF AllLits, LitsOf
<1> QED BY <1>2, <1>8, <1>10

\* releaseVar() between two calls, of a literal that was not let go before and
\* has no value.
LEMMA ReleaseServes ==
  ASSUME NEW s, InIdle(s), NEW num, NEW giv, NEW let, Serves(s, num, giv, let),
         NEW p, p \in LitsOf(DOMAIN num \ VarsOf(let)), Neg(p) \notin Said(giv, let),
         NEW q, q = LitOf(num, p), Open(s, q[1]), NEW t, t = ReleaseVar(s, q),
         NEW let2, let2 = let \cup {p}
  PROVE  InIdle(t) /\ Serves(t, num, giv, let2)
<1>1. Naming(s, num, giv, let) /\ Speaking(num, giv, let) /\ Sound(s, num, giv, let) /\ Within(s, NamedIn(num, Said(giv, let)))
  BY DEF Serves
<1>2. DOMAIN num \subseteq Nat
  BY <1>1, NamesAreNumbers
<1>3. PICK n \in DOMAIN num, b \in BOOLEAN : p = <<n, b>> /\ n \notin VarsOf(let)
  BY DEF LitsOf
<1>4. q = <<num[n], b>> /\ p[1] = n /\ p[2] = b /\ p \in LitsOf(DOMAIN num)
  BY <1>3 DEF LitOf, LitsOf
<1>5. /\ q \in AllLits /\ q[1] = num[n] /\ q[2] = b /\ Usable(s, q) /\ (s.ok => ~InReleased(s, q[1]))
      /\ NameIs(num, q[1], n)
  BY <1>1, <1>3, <1>4, LiveIs
<1>6. Resting(s) /\ (s.ok => Pure(s)) /\ (s.ok => ReleasedOK(s))
  BY DEF InIdle, Pure
<1>7. PICK u : /\ AddedTo(s, u, {q}) /\ Resting(t) /\ Alike(u, t) /\ t.ok = u.ok
               /\ t.released = Append(s.released, q[1])
               /\ t.ok => AtRoot(t, q) /\ ReleasedOK(t)
  BY <1>5, <1>6, ReleaseVarIs
<1>8. /\ Resting(u) /\ Grows(s, u) /\ u.nextVar = s.nextVar /\ u.free = s.free /\ u.released = s.released /\ u.learnts = s.learnts
      /\ (u.ok => s.ok)
  BY <1>7 DEF AddedTo
<1>9. Books(s) /\ Typed(s) /\ Books(u) /\ Typed(u) /\ Books(t) /\ Typed(t) /\ TrailOK(t)
  BY <1>6, <1>7, <1>8, BooksAre DEF Resting
<1>10. t \in SolverType /\ s.released \in Seq(Vars) /\ q[1] \in Vars
  BY <1>5, <1>9, TypedIs, Literals
<1>11. /\ (\A e : AtRoot(t, e) <=> AtRoot(u, e)) /\ (\A m : Means(u, m) <=> Means(t, m))
       /\ (\A L : Within(u, L) => Within(t, L)) /\ (\A e : Usable(t, e) <=> Usable(u, e))
  BY <1>7, <1>9, <1>10, AlikeBooks
<1>12. t.nextVar = s.nextVar /\ t.free = s.free /\ t.assigned = u.assigned /\ t.clause = u.clause /\ t.learnts = u.learnts
  BY <1>7, <1>8 DEF Alike
<1>13. \A v : InReleased(t, v) <=> InReleased(s, v) \/ v = q[1]
  <2>1. PICK sr, v, tr : sr = s.released /\ v = q[1] /\ tr = t.released
    OBVIOUS
  <2>2. sr \in Seq(Vars) /\ v \in Vars /\ tr = Append(sr, v)
    BY <1>7, <1>10, <2>1
  <2>3. \A x : (\E i \in 1..Len(tr) : tr[i] = x) <=> (\E i \in 1..Len(sr) : sr[i] = x) \/ x = v
    BY <2>2, AppendedIn
  <2> QED BY <2>1, <2>3 DEF InReleased
<1>14. Said(giv, let2) = Said(giv, let) \cup {p} /\ VarsOf(let2) = VarsOf(let) \cup {n}
  BY <1>4 DEF Said, VarsOf
<1>15. Naming(t, num, giv, let2)
  <2>1. ASSUME NEW k \in DOMAIN num \ VarsOf(let2)
        PROVE  NameIs(num, num[k], k) /\ ~IsFree(t, num[k]) /\ (t.ok => ~InReleased(t, num[k]))
    <3>1. k \in DOMAIN num /\ k \notin VarsOf(let) /\ k # n
      BY <1>14
    <3>2. NameIs(num, num[k], k) /\ ~IsFree(s, num[k]) /\ (s.ok => ~InReleased(s, num[k]))
      BY <1>1, <3>1 DEF Naming
    <3>3. num[k] # q[1]
      BY <1>2, <1>5, <3>1, <3>2, NameOne
    <3> QED BY <1>7, <1>8, <1>12, <1>13, <3>2, <3>3 DEF IsFree
  <2> QED BY <1>1, <1>12, <2>1 DEF Naming
<1>16. Speaking(num, giv, let2)
  <2>1. Neg(p) # p /\ Neg(p)[1] = n
    BY <1>3 DEF Neg
  <2>2. ASSUME NEW x \in let2 PROVE Neg(x) \notin Said(giv, let2)
    <3>1. CASE x = p
      BY <1>14, <2>1, <3>1
    <3>2. CASE x \in let
      <4>1. Neg(x) \notin Said(giv, let)
        BY <1>1, <3>2 DEF Speaking
      <4>2. Neg(x) # p
        <5>1. Neg(x)[1] = x[1] /\ x[1] \in VarsOf(let)
          BY <3>2 DEF Neg, VarsOf
        <5> QED BY <1>3, <1>4, <5>1
      <4> QED BY <1>14, <4>1, <4>2
    <3> QED BY <3>1, <3>2
  <2> QED BY <1>1, <1>4, <2>2 DEF Speaking
<1>17. Within(t, NamedIn(num, Said(giv, let2)))
  <2>1. NamedIn(num, Said(giv, let)) \subseteq NamedIn(num, Said(giv, let2))
    BY <1>14 DEF NamedIn
  <2>2. Within(s, NamedIn(num, Said(giv, let2)))
    BY <1>1, <2>1, WithinMore
  <2>3. q \in NamedIn(num, Said(giv, let2))
    BY <1>4, <1>5, <1>14 DEF NamedIn
  <2>4. Within(u, NamedIn(num, Said(giv, let2)))
    BY <1>7, <2>2, <2>3 DEF AddedTo
  <2> QED BY <1>11, <2>4
<1>18. Sound(t, num, giv, let2)
  <2> SUFFICES ASSUME NEW x, Solves(num, giv, let2, x) PROVE t.ok /\ Means(t, ModelOf(num, x))
    BY DEF Sound
  <2>1. Solves(num, giv, let, x) /\ p \in x
    BY DEF Solves
  <2>2. PICK m : m = ModelOf(num, x)
    OBVIOUS
  <2>3. s.ok /\ Means(s, m)
    BY <1>1, <2>1, <2>2 DEF Sound
  <2>4. m \in Models
    BY <1>2, <2>1, <2>2, ModelOfIs DEF Solves
  <2>5. PICK v \in Vars : v = num[n]
    BY <1>1 DEF Naming
  <2>6. NameIs(num, v, n)
    BY <1>5, <2>5
  <2>7. <<v, b>> \in m
    BY <1>2, <1>3, <2>1, <2>2, <2>6, ModelHas
  <2>8. {q} \cap m # {}
    BY <1>4, <2>5, <2>7
  <2>9. u.ok /\ Means(u, m)
    BY <1>7, <2>3, <2>4, <2>8 DEF AddedTo
  <2> QED BY <1>7, <1>11, <2>2, <2>9
<1>19. ASSUME t.ok, NEW g \in giv PROVE g \cap let2 # {} \/ Keeping(t, LitsFor(num, g))
  <2>1. PICK L : L = LitsFor(num, g)
    OBVIOUS
  <2>2. s.ok
    BY <1>7, <1>8, <1>19
  <2>3. g \cap let # {} \/ Keeping(s, L)
    BY <2>1, <2>2 DEF Serves, Kept
  <2>4. Keeping(s, L) => Keeping(u, L)
    BY <1>8, <1>9, GrowsKept
  <2>5. Keeping(u, L) => Keeping(t, L)
    BY <1>11, <1>12 DEF Keeping, Originals
  <2> QED BY <2>1, <2>3, <2>4, <2>5
<1>20. ASSUME t.ok PROVE Pure(t)
  <2>1. s.ok /\ ReleasedOK(s) /\ Within(s, PureLits(s))
    BY <1>6, <1>7, <1>8, <1>20 DEF Pure
  <2>2. PICK M : M = (PureLits(s) \cap NamedIn(num, Said(giv, let)))
    OBVIOUS
  <2>3. Within(s, M)
    BY <1>1, <2>1, <2>2, WithinBoth
  <2>4. Within(s, M \cup {q})
    BY <2>3, WithinMore
  <2>5. Within(t, M \cup {q})
    <3>1. {q} \subseteq M \cup {q}
      OBVIOUS
    <3>2. Within(u, M \cup {q})
      BY <1>7, <2>4, <3>1 DEF AddedTo
    <3> QED BY <1>11, <3>2
  <2>6. PureLits(s) \subseteq PureLits(u)
    BY <1>8, <1>9, <2>1, GrowsPure
  <2>7. True(t, q) /\ Usable(t, q)
    <3>1. AtRoot(t, q)
      BY <1>7, <1>20
    <3>2. True(t, q)
      BY <1>9, <3>1 DEF AtRoot, TrailOK, True
    <3>3. Usable(t, q)
      BY <1>5, <1>12 DEF Usable, IsFree
    <3> QED BY <3>2, <3>3
  <2>8. ASSUME NEW e \in M PROVE e \in PureLits(t)
    <3>1. e \in PureLits(s) /\ e \in PureLits(u) /\ e \in NamedIn(num, Said(giv, let))
      BY <2>2, <2>6
    <3>2. e \in AllLits /\ Usable(t, e) /\ (InReleased(u, e[1]) => True(u, e))
      BY <1>11, <3>1 DEF PureLits
    <3>3. CASE InReleased(s, e[1])
      <4>1. True(t, e)
        BY <1>8, <1>12, <3>2, <3>3 DEF InReleased, True
      <4> QED BY <3>2, <4>1 DEF PureLits
    <3>4. CASE e[1] = q[1]
      <4>1. Said(giv, let) \subseteq LitsOf(DOMAIN num)
        BY <1>1 DEF Speaking, Said
      <4>2. NameIs(num, num[p[1]], p[1])
        BY <1>4, <1>5
      <4>3. e = q
        BY <1>2, <1>4, <3>1, <3>4, <4>1, <4>2, ReleasedPure
      <4> QED BY <2>7, <3>2, <4>3 DEF PureLits
    <3>5. CASE ~InReleased(s, e[1]) /\ e[1] # q[1]
      <4>1. ~InReleased(t, e[1])
        BY <1>13, <3>5
      <4> QED BY <3>2, <4>1 DEF PureLits
    <3> QED BY <3>3, <3>4, <3>5
  <2>9. M \cup {q} \subseteq PureLits(t)
    BY <1>5, <2>7, <2>8 DEF PureLits
  <2>10. Within(t, PureLits(t))
    BY <2>5, <2>9, WithinMore
  <2> QED BY <1>7, <1>20, <2>10 DEF Pure
<1>21. InIdle(t)
  BY <1>7, <1>20 DEF InIdle
<1>22. t.ok => Kept(t, num, giv, let2)
  BY <1>19 DEF Kept
<1> QED BY <1>15, <1>16, <1>17, <1>18, <1>21, <1>22 DEF Serves

-----------------------------------------------------------------------------
(* implies()                                                               *)

\* implies() leaves the solver as it was.
LEMMA UndisturbedCarries ==
  ASSUME NEW s, InIdle(s), NEW t, Undisturbed(s, t)
  PROVE  InIdle(t) /\ Carries(s, t)
<1>1. Resting(s) /\ (s.ok => Pure(s))
  BY DEF InIdle
<1>2. /\ Resting(t) /\ Grows(s, t) /\ Preserves(s, t) /\ (\A L : Within(s, L) => Within(t, L))
      /\ t.nextVar = s.nextVar /\ t.free = s.free /\ t.released = s.released /\ t.learnts = s.learnts /\ t.ok = s.ok
  BY DEF Undisturbed
<1>3. Books(s) /\ Books(t) /\ Typed(s) /\ Typed(t)
  BY <1>1, <1>2, BooksAre DEF Resting
<1>4. ASSUME s.ok PROVE Pure(t)
  <2>1. ReleasedOK(s) /\ Within(s, PureLits(s))
    BY <1>1, <1>4 DEF Pure
  <2>2. ReleasedOK(t) /\ PureLits(s) \subseteq PureLits(t)
    BY <1>2, <1>3, <2>1, GrowsPure
  <2> QED BY <1>2, <2>1, <2>2, WithinMore DEF Pure
<1>5. \A lits : Keeping(s, lits) => Keeping(t, lits)
  BY <1>2, <1>3, GrowsKept
<1>6. Carries(s, t)
  BY <1>2, <1>5 DEF Carries, Preserves, IsFree, InReleased
<1> QED BY <1>2, <1>4, <1>6 DEF InIdle

-----------------------------------------------------------------------------
(* Scripts.                                                                *)

\* The names and clauses there are come from the first calls of a script, and
\* scr are those still to be made; k variables were created.
From(scr, num, giv, let, k) ==
  \E s \in Scripts : \E n \in 0..Len(s) :
    /\ scr = SubSeq(s, n + 1, Len(s))
    /\ DOMAIN num = CreatedBy(s, n) /\ VarsOf(let) \subseteq LetGoBy(s, n) /\ UNION giv \subseteq ClaimedBy(s, n)
    /\ k <= Cardinality(CreatedBy(s, n))

\* The next call is the one after the first n of s.
NextCall(scr, num, giv, let, k, s, n) ==
  /\ s \in Scripts /\ ProperUse(s) /\ n \in Nat /\ n + 1 \in 1..Len(s) /\ n \in 0..Len(s)
  /\ Head(scr) = s[n + 1] /\ Tail(scr) = SubSeq(s, (n + 1) + 1, Len(s)) /\ s[n + 1] \in Calls
  /\ DOMAIN num = CreatedBy(s, n) /\ VarsOf(let) \subseteq LetGoBy(s, n) /\ UNION giv \subseteq ClaimedBy(s, n)
  /\ k <= Cardinality(CreatedBy(s, n))

\* Unless the script is over there is a next call.
LEMMA NextCallIs ==
  ASSUME \A s \in Scripts : ProperUse(s), NEW scr, NEW num, NEW giv, NEW let, NEW k, From(scr, num, giv, let, k), scr # <<>>
  PROVE  \E s, n : NextCall(scr, num, giv, let, k, s, n)
<1>1. PICK s \in Scripts, n \in Nat : /\ n \in 0..Len(s) /\ scr = SubSeq(s, n + 1, Len(s))
        /\ DOMAIN num = CreatedBy(s, n) /\ VarsOf(let) \subseteq LetGoBy(s, n) /\ UNION giv \subseteq ClaimedBy(s, n)
        /\ k <= Cardinality(CreatedBy(s, n))
  BY DEF From
<1>2. ProperUse(s) /\ s \in Seq(Calls)
  BY DEF ProperUse
<1>3. PICK N \in Nat : N = Len(s)
  BY <1>2
<1>4. scr \in Seq(Calls) /\ Len(scr) = N - n /\ \A i \in 1..(N - n) : scr[i] = s[n + i]
  BY SMTT(30), <1>1, <1>2, <1>3, RestIs
<1>5. n # N
  <2> SUFFICES ASSUME n = N PROVE FALSE
    OBVIOUS
  <2>1. Len(scr) = 0
    BY <1>3, <1>4
  <2> QED BY <1>4, <2>1
<1>6. n \in Nat /\ n + 1 \in 1..N /\ n + 1 <= N /\ 1 \in 1..(N - n) /\ N - n # 0
  BY <1>1, <1>3, <1>5
<1>7. Head(scr) = s[n + 1]
  BY <1>4, <1>6
<1>8. s[n + 1] \in Calls
  BY <1>2, <1>3, <1>6
<1>9. Tail(scr) = SubSeq(s, (n + 1) + 1, Len(s))
  <2>1. PICK d \in Nat : d = N - n
    BY <1>1, <1>3
  <2>2. PICK e \in Nat : e = N - (n + 1)
    BY <1>6
  <2>3. d = e + 1
    BY <1>6, <2>1, <2>2
  <2>4. PICK x : x = Tail(scr)
    OBVIOUS
  <2>5. Len(scr) = d /\ Len(scr) # 0
    BY <1>4, <1>6, <2>1
  <2>6. x \in Seq(Calls) /\ Len(x) = d - 1 /\ \A i \in 1..Len(x) : x[i] = scr[i + 1]
    BY <1>4, <2>4, <2>5, HeadTailProperties
  <2>7. Len(x) = e
    BY <2>3, <2>6
  <2>8. PICK y : y = SubSeq(s, (n + 1) + 1, Len(s))
    OBVIOUS
  <2>9. n + 1 \in 0..Len(s)
    BY <1>3, <1>6
  <2>10. y \in Seq(Calls) /\ Len(y) = Len(s) - (n + 1) /\ \A i \in 1..(Len(s) - (n + 1)) : y[i] = s[(n + 1) + i]
    BY <1>2, <2>8, <2>9, RestIs
  <2>11. Len(y) = e /\ \A i \in 1..e : y[i] = s[(n + 1) + i]
    BY <1>3, <2>2, <2>10
  <2>12. ASSUME NEW i \in 1..e PROVE x[i] = y[i]
    <3>1. i + 1 \in 1..d /\ n + (i + 1) = (n + 1) + i
      BY <1>6, <2>3
    <3>2. scr[i + 1] = s[n + (i + 1)]
      BY <1>4, <2>1, <3>1
    <3> QED BY <2>6, <2>7, <2>11, <3>1, <3>2
  <2>13. x = y
    BY <2>6, <2>7, <2>10, <2>11, <2>12, SeqEqual
  <2> QED BY <2>4, <2>8, <2>13
<1> QED BY <1>1, <1>2, <1>3, <1>6, <1>7, <1>8, <1>9 DEF NextCall

\* What the first n + 1 calls created, let go and claimed.
LEMMA CreatedNext ==
  ASSUME NEW s, NEW n \in Nat
  PROVE  /\ s[n + 1].op = "newVar" => CreatedBy(s, n + 1) = CreatedBy(s, n) \cup {s[n + 1].name}
         /\ s[n + 1].op # "newVar" => CreatedBy(s, n + 1) = CreatedBy(s, n)
<1>1. \A j : j \in 1..(n + 1) <=> j \in 1..n \/ j = n + 1
  OBVIOUS
<1>2. PICK x : x = n + 1
  OBVIOUS
<1>3. \A j : j \in 1..x <=> j \in 1..n \/ j = x
  BY <1>1, <1>2
<1>4. /\ s[x].op = "newVar" => CreatedBy(s, x) = CreatedBy(s, n) \cup {s[x].name}
      /\ s[x].op # "newVar" => CreatedBy(s, x) = CreatedBy(s, n)
  BY ONLY <1>3 DEF CreatedBy
<1> QED BY <1>2, <1>4

\* What the next call lets go ...
LEMMA LetGoNext ==
  ASSUME NEW s, NEW n \in Nat
  PROVE  /\ s[n + 1].op = "releaseVar" => LetGoBy(s, n + 1) = LetGoBy(s, n) \cup {s[n + 1].lit[1]}
         /\ s[n + 1].op # "releaseVar" => LetGoBy(s, n + 1) = LetGoBy(s, n)
<1>1. \A j : j \in 1..(n + 1) <=> j \in 1..n \/ j = n + 1
  OBVIOUS
<1>2. PICK x : x = n + 1
  OBVIOUS
<1>3. \A j : j \in 1..x <=> j \in 1..n \/ j = x
  BY <1>1, <1>2
<1>4. /\ s[x].op = "releaseVar" => LetGoBy(s, x) = LetGoBy(s, n) \cup {s[x].lit[1]}
      /\ s[x].op # "releaseVar" => LetGoBy(s, x) = LetGoBy(s, n)
  BY ONLY <1>3 DEF LetGoBy
<1> QED BY <1>2, <1>4

\* ... and claims.
LEMMA ClaimedNext ==
  ASSUME NEW s, NEW n \in Nat
  PROVE  /\ s[n + 1].op = "addClause" => ClaimedBy(s, n + 1) = ClaimedBy(s, n) \cup s[n + 1].lits
         /\ s[n + 1].op # "addClause" => ClaimedBy(s, n + 1) = ClaimedBy(s, n)
<1>1. \A j : j \in 1..(n + 1) <=> j \in 1..n \/ j = n + 1
  OBVIOUS
<1>2. PICK x : x = n + 1
  OBVIOUS
<1>3. \A j : j \in 1..x <=> j \in 1..n \/ j = x
  BY <1>1, <1>2
<1>4. PICK J : J = {j \in 1..n : s[j].op = "addClause"}
  OBVIOUS
<1>5. PICK K : K = {j \in 1..x : s[j].op = "addClause"}
  OBVIOUS
<1>6. \A j : j \in K <=> j \in J \/ (j = x /\ s[x].op = "addClause")
  BY ONLY <1>3, <1>4, <1>5
<1>7. ClaimedBy(s, x) = UNION {s[i].lits : i \in K} /\ ClaimedBy(s, n) = UNION {s[i].lits : i \in J}
  BY <1>4, <1>5 DEF ClaimedBy
<1>8. ASSUME NEW p PROVE p \in ClaimedBy(s, x) <=> \E i \in K : p \in s[i].lits
  BY ONLY <1>7
<1>9. ASSUME NEW p PROVE p \in ClaimedBy(s, n) <=> \E i \in J : p \in s[i].lits
  BY ONLY <1>7
<1>10. /\ s[x].op = "addClause" => ClaimedBy(s, x) = ClaimedBy(s, n) \cup s[x].lits
       /\ s[x].op # "addClause" => ClaimedBy(s, x) = ClaimedBy(s, n)
  <2>1. ASSUME s[x].op = "addClause" PROVE ClaimedBy(s, x) = ClaimedBy(s, n) \cup s[x].lits
    <3>1. \A j : j \in K <=> j \in J \/ j = x
      BY ONLY <1>6, <2>1
    <3>2. ASSUME NEW p PROVE p \in ClaimedBy(s, x) <=> p \in ClaimedBy(s, n) \/ p \in s[x].lits
      BY ONLY <1>8, <1>9, <3>1
    <3> QED BY ONLY <3>2
  <2>2. ASSUME s[x].op # "addClause" PROVE ClaimedBy(s, x) = ClaimedBy(s, n)
    <3>1. \A j : j \in K <=> j \in J
      BY ONLY <1>6, <2>2
    <3>2. ASSUME NEW p PROVE p \in ClaimedBy(s, x) <=> p \in ClaimedBy(s, n)
      BY ONLY <1>8, <1>9, <3>1
    <3> QED BY ONLY <3>2
  <2> QED BY ONLY <2>1, <2>2
<1> QED BY <1>2, <1>10

\* Finitely many names are created, and never fewer.
LEMMA CreatedFinite ==
  ASSUME NEW s, NEW n \in Nat, NEW m \in Nat, n <= m
  PROVE  /\ IsFiniteSet(CreatedBy(s, n)) /\ IsFiniteSet(CreatedBy(s, m))
         /\ Cardinality(CreatedBy(s, n)) \in Nat /\ Cardinality(CreatedBy(s, m)) \in Nat
         /\ Cardinality(CreatedBy(s, n)) <= Cardinality(CreatedBy(s, m))
<1>1. ASSUME NEW k \in Nat PROVE IsFiniteSet(CreatedBy(s, k)) /\ Cardinality(CreatedBy(s, k)) \in Nat
  <2>1. PICK J : J = {j \in 1..k : s[j].op = "newVar"}
    OBVIOUS
  <2>2. IsFiniteSet(1..k)
    BY FS_Interval
  <2>3. J \subseteq 1..k
    BY <2>1
  <2>4. IsFiniteSet(J)
    BY ONLY <2>2, <2>3, FS_Subset
  <2>5. PICK f : f = [i \in J |-> s[i].name]
    OBVIOUS
  <2>6. PICK C : C = CreatedBy(s, k)
    OBVIOUS
  <2>7. C = {s[i].name : i \in J}
    BY <2>1, <2>6 DEF CreatedBy
  <2>8. f \in Surjection(J, C)
    BY ONLY <2>5, <2>7 DEF Surjection
  <2>9. IsFiniteSet(C) /\ Cardinality(C) <= Cardinality(J)
    BY ONLY <2>4, <2>8, FS_Surjection
  <2>10. Cardinality(C) \in Nat
    BY ONLY <2>9, FS_CardinalityType
  <2> QED BY <2>6, <2>9, <2>10
<1>2. CreatedBy(s, n) \subseteq CreatedBy(s, m)
  <2>1. 1..n \subseteq 1..m
    OBVIOUS
  <2> QED BY ONLY <2>1 DEF CreatedBy
<1>3. IsFiniteSet(CreatedBy(s, n)) /\ IsFiniteSet(CreatedBy(s, m))
         /\ Cardinality(CreatedBy(s, n)) \in Nat /\ Cardinality(CreatedBy(s, m)) \in Nat
  BY <1>1
<1>4. Cardinality(CreatedBy(s, n)) <= Cardinality(CreatedBy(s, m))
  BY ONLY <1>2, <1>3, FS_Subset
<1> QED BY <1>3, <1>4

\* After a call there is again a script of which the rest is to be made.
LEMMA FromNext ==
  ASSUME NEW scr, NEW num, NEW giv, NEW let, NEW k, NEW s, NEW n, NextCall(scr, num, giv, let, k, s, n),
         NEW num2, DOMAIN num2 = CreatedBy(s, n + 1), NEW let2, VarsOf(let2) \subseteq LetGoBy(s, n + 1),
         NEW giv2, UNION giv2 \subseteq ClaimedBy(s, n + 1), NEW k2, k2 <= Cardinality(CreatedBy(s, n + 1))
  PROVE  From(Tail(scr), num2, giv2, let2, k2)
<1>1. s \in Scripts /\ n + 1 \in 1..Len(s) /\ Tail(scr) = SubSeq(s, (n + 1) + 1, Len(s)) /\ s \in Seq(Calls) /\ n \in Nat
  BY DEF NextCall, ProperUse
<1>2. n + 1 \in 0..Len(s)
  BY <1>1
<1> QED BY <1>1, <1>2 DEF From

\* A call that creates nothing, claims nothing and lets nothing go.
LEMMA FromSame ==
  ASSUME NEW scr, NEW num, NEW giv, NEW let, NEW k, NEW s, NEW n, NextCall(scr, num, giv, let, k, s, n),
         Head(scr).op # "newVar", NEW let2, VarsOf(let2) \subseteq LetGoBy(s, n + 1),
         NEW giv2, UNION giv2 \subseteq ClaimedBy(s, n + 1)
  PROVE  From(Tail(scr), num, giv2, let2, k)
<1>1. n \in Nat /\ Head(scr) = s[n + 1] /\ DOMAIN num = CreatedBy(s, n) /\ k <= Cardinality(CreatedBy(s, n))
  BY DEF NextCall
<1>2. CreatedBy(s, n + 1) = CreatedBy(s, n)
  BY <1>1, CreatedNext
<1>3. DOMAIN num = CreatedBy(s, n + 1) /\ k <= Cardinality(CreatedBy(s, n + 1))
  BY <1>1, <1>2
<1> QED BY <1>3, FromNext

\* newVar(): its name is above all others, and there is room for the variable.
LEMMA FromNew ==
  ASSUME NEW scr, NEW num, NEW giv, NEW let, NEW k \in Nat, NEW s, NEW n, NextCall(scr, num, giv, let, k, s, n),
         Head(scr).op = "newVar", NEW v, NEW num2, num2 = With(num, Head(scr).name, v), NEW k2 \in Nat, k2 <= k + 1
  PROVE  /\ Head(scr).name \in Names /\ (\A m \in DOMAIN num : m < Head(scr).name) /\ k < MaxVars
         /\ From(Tail(scr), num2, giv, let, k2)
<1>1. /\ n \in Nat /\ Head(scr) = s[n + 1] /\ s[n + 1] \in Calls /\ n + 1 \in 1..Len(s)
      /\ DOMAIN num = CreatedBy(s, n) /\ VarsOf(let) \subseteq LetGoBy(s, n) /\ UNION giv \subseteq ClaimedBy(s, n)
      /\ k <= Cardinality(CreatedBy(s, n)) /\ ProperUse(s) /\ s \in Seq(Calls)
  BY DEF NextCall, ProperUse
<1>2. PICK nm : nm = Head(scr).name
  OBVIOUS
<1>3. nm = s[n + 1].name /\ s[n + 1].op = "newVar"
  BY <1>1, <1>2
<1>4. nm \in Names
  BY <1>1, <1>3 DEF Calls
<1>5. \A m \in CreatedBy(s, n) : m < nm
  <2>1. (n + 1) - 1 = n
    BY <1>1
  <2>2. \A m \in CreatedBy(s, (n + 1) - 1) : m < s[n + 1].name
    BY <1>1, <1>3 DEF ProperUse
  <2> QED BY <1>3, <2>1, <2>2
<1>6. CreatedBy(s, n + 1) = CreatedBy(s, n) \cup {nm}
  BY <1>1, <1>3, CreatedNext
<1>7. nm \notin CreatedBy(s, n)
  <2> SUFFICES ASSUME nm \in CreatedBy(s, n) PROVE FALSE
    OBVIOUS
  <2>1. nm < nm /\ nm \in Nat
    BY <1>4, <1>5, NamesAssumption
  <2> QED BY <2>1
<1>8. PICK C : C = CreatedBy(s, n)
  OBVIOUS
<1>9. PICK L \in Nat : L = Len(s)
  BY <1>1
<1>10. n + 1 \in Nat /\ n + 1 <= L
  BY <1>1, <1>9
<1>11. /\ IsFiniteSet(C) /\ Cardinality(C) \in Nat
       /\ Cardinality(CreatedBy(s, n + 1)) \in Nat /\ Cardinality(CreatedBy(s, L)) \in Nat
       /\ Cardinality(CreatedBy(s, n + 1)) <= Cardinality(CreatedBy(s, L))
  BY <1>1, <1>8, <1>10, CreatedFinite
<1>12. Cardinality(C \cup {nm}) = Cardinality(C) + 1
  <2>1. nm \notin C
    BY <1>7, <1>8
  <2> QED BY ONLY <1>11, <2>1, FS_AddElement
<1>13. Cardinality(CreatedBy(s, n + 1)) = Cardinality(C) + 1
  BY <1>6, <1>8, <1>12
<1>14. Cardinality(CreatedBy(s, L)) <= MaxVars /\ MaxVars \in Nat
  BY <1>1, <1>9, CDCLAssumption DEF ProperUse
<1>15. PICK a, b, d : a = Cardinality(C) /\ b = Cardinality(CreatedBy(s, n + 1)) /\ d = Cardinality(CreatedBy(s, L))
  OBVIOUS
<1>16. a \in Nat /\ b \in Nat /\ d \in Nat /\ b = a + 1 /\ b <= d /\ d <= MaxVars /\ k <= a /\ MaxVars \in Nat
  BY <1>1, <1>8, <1>11, <1>13, <1>14, <1>15
<1>17. k < MaxVars /\ k2 <= b
  BY <1>16
<1>18. LetGoBy(s, n + 1) = LetGoBy(s, n) /\ ClaimedBy(s, n + 1) = ClaimedBy(s, n)
  <2>1. LetGoBy(s, n + 1) = LetGoBy(s, n)
    BY <1>1, <1>3, LetGoNext
  <2>2. ClaimedBy(s, n + 1) = ClaimedBy(s, n)
    BY <1>1, <1>3, ClaimedNext
  <2> QED BY <2>1, <2>2
<1>19. DOMAIN num2 = CreatedBy(s, n + 1)
  BY <1>1, <1>2, <1>6 DEF With
<1>20. From(Tail(scr), num2, giv, let, k2)
  BY <1>1, <1>15, <1>17, <1>18, <1>19, FromNext
<1> QED BY <1>1, <1>2, <1>4, <1>5, <1>17, <1>20

\* Names in use are not let go.
LEMMA LiveByIs ==
  ASSUME NEW scr, NEW num, NEW giv, NEW let, NEW k, NEW s, NEW n, NextCall(scr, num, giv, let, k, s, n),
         NEW ps, ps \subseteq LitsOf(Names), VarsOf(ps) \subseteq LiveBy(s, n)
  PROVE  ps \subseteq LitsOf(DOMAIN num \ VarsOf(let))
<1>1. DOMAIN num = CreatedBy(s, n) /\ VarsOf(let) \subseteq LetGoBy(s, n)
  BY DEF NextCall
<1>2. ASSUME NEW p \in ps PROVE p \in LitsOf(DOMAIN num \ VarsOf(let))
  <2>1. PICK x \in Names, b \in BOOLEAN : p = <<x, b>>
    BY DEF LitsOf
  <2>2. x \in LiveBy(s, n)
    BY <2>1 DEF VarsOf
  <2>3. x \in DOMAIN num \ VarsOf(let)
    BY <1>1, <2>2 DEF LiveBy
  <2> QED BY <2>1, <2>3 DEF LitsOf
<1> QED BY <1>2

\* addClause()
LEMMA FromAdd ==
  ASSUME NEW scr, NEW num, NEW giv, NEW let, NEW k, NEW s, NEW n, NextCall(scr, num, giv, let, k, s, n),
         Head(scr).op = "addClause", NEW c, c = Head(scr).lits, NEW giv2, giv2 = giv \cup {c}
  PROVE  c \subseteq LitsOf(DOMAIN num \ VarsOf(let)) /\ From(Tail(scr), num, giv2, let, k)
<1>1. /\ n \in Nat /\ Head(scr) = s[n + 1] /\ s[n + 1] \in Calls /\ n + 1 \in 1..Len(s)
      /\ VarsOf(let) \subseteq LetGoBy(s, n) /\ UNION giv \subseteq ClaimedBy(s, n) /\ ProperUse(s)
  BY DEF NextCall
<1>2. c = s[n + 1].lits /\ s[n + 1].op = "addClause"
  BY <1>1
<1>3. c \subseteq LitsOf(Names)
  BY <1>1, <1>2 DEF Calls
<1>4. VarsOf(c) \subseteq LiveBy(s, n)
  <2>1. (n + 1) - 1 = n
    BY <1>1
  <2>2. VarsOf(s[n + 1].lits) \subseteq LiveBy(s, (n + 1) - 1)
    BY <1>1, <1>2 DEF ProperUse
  <2> QED BY <1>2, <2>1, <2>2
<1>5. c \subseteq LitsOf(DOMAIN num \ VarsOf(let))
  BY <1>3, <1>4, LiveByIs
<1>6. LetGoBy(s, n + 1) = LetGoBy(s, n) /\ ClaimedBy(s, n + 1) = ClaimedBy(s, n) \cup c
  <2>1. LetGoBy(s, n + 1) = LetGoBy(s, n)
    BY <1>1, <1>2, LetGoNext
  <2>2. ClaimedBy(s, n + 1) = ClaimedBy(s, n) \cup c
    BY <1>1, <1>2, ClaimedNext
  <2> QED BY <2>1, <2>2
<1>7. UNION giv2 \subseteq ClaimedBy(s, n + 1)
  BY <1>1, <1>6
<1>8. VarsOf(let) \subseteq LetGoBy(s, n + 1) /\ Head(scr).op # "newVar"
  BY <1>1, <1>6
<1>9. From(Tail(scr), num, giv2, let, k)
  BY <1>7, <1>8, FromSame
<1> QED BY <1>5, <1>9

\* releaseVar()
LEMMA FromRelease ==
  ASSUME NEW scr, NEW num, NEW giv, NEW let, let \subseteq LitsOf(DOMAIN num), NEW k, NEW s, NEW n,
         NextCall(scr, num, giv, let, k, s, n), Head(scr).op = "releaseVar", NEW p, p = Head(scr).lit,
         NEW let2, let2 = let \/ let2 = let \cup {p}
  PROVE  /\ p \in LitsOf(DOMAIN num \ VarsOf(let)) /\ Neg(p) \notin Said(giv, let)
         /\ From(Tail(scr), num, giv, let2, k)
<1>1. /\ n \in Nat /\ Head(scr) = s[n + 1] /\ s[n + 1] \in Calls /\ n + 1 \in 1..Len(s)
      /\ VarsOf(let) \subseteq LetGoBy(s, n) /\ UNION giv \subseteq ClaimedBy(s, n) /\ ProperUse(s)
  BY DEF NextCall
<1>2. p = s[n + 1].lit /\ s[n + 1].op = "releaseVar"
  BY <1>1
<1>3. p \in LitsOf(Names)
  BY <1>1, <1>2 DEF Calls
<1>4. p[1] \in LiveBy(s, n) /\ Neg(p) \notin ClaimedBy(s, n)
  <2>1. (n + 1) - 1 = n
    BY <1>1
  <2>2. s[n + 1].lit[1] \in LiveBy(s, (n + 1) - 1) /\ Neg(s[n + 1].lit) \notin ClaimedBy(s, (n + 1) - 1)
    BY <1>1, <1>2 DEF ProperUse
  <2> QED BY <1>2, <2>1, <2>2
<1>5. PICK x \in Names, b \in BOOLEAN : p = <<x, b>>
  BY <1>3 DEF LitsOf
<1>6. {p} \subseteq LitsOf(DOMAIN num \ VarsOf(let))
  <2>1. {p} \subseteq LitsOf(Names)
    BY <1>3
  <2>2. VarsOf({p}) \subseteq LiveBy(s, n)
    BY <1>4 DEF VarsOf
  <2> QED BY <2>1, <2>2, LiveByIs
<1>7. Neg(p) \notin Said(giv, let)
  <2>1. Neg(p)[1] = p[1]
    BY <1>5 DEF Neg
  <2>2. p[1] \notin VarsOf(let)
    BY <1>1, <1>4 DEF LiveBy
  <2>3. Neg(p) \notin let
    BY <2>1, <2>2 DEF VarsOf
  <2> QED BY <1>1, <1>4, <2>3 DEF Said
<1>8. LetGoBy(s, n + 1) = LetGoBy(s, n) \cup {p[1]} /\ ClaimedBy(s, n + 1) = ClaimedBy(s, n)
  <2>1. LetGoBy(s, n + 1) = LetGoBy(s, n) \cup {p[1]}
    BY <1>1, <1>2, LetGoNext
  <2>2. ClaimedBy(s, n + 1) = ClaimedBy(s, n)
    BY <1>1, <1>2, ClaimedNext
  <2> QED BY <2>1, <2>2
<1>9. VarsOf(let2) \subseteq LetGoBy(s, n + 1)
  BY <1>1, <1>8 DEF VarsOf
<1>10. UNION giv \subseteq ClaimedBy(s, n + 1) /\ Head(scr).op # "newVar"
  BY <1>1, <1>8
<1>11. From(Tail(scr), num, giv, let2, k)
  BY <1>9, <1>10, FromSame
<1> QED BY <1>6, <1>7, <1>11

\* implies(), toDimacs() and solve().
LEMMA FromAsk ==
  ASSUME NEW scr, NEW num, NEW giv, NEW let, NEW k, NEW s, NEW n, NextCall(scr, num, giv, let, k, s, n),
         Head(scr).op \in {"implies", "toDimacs", "solve"}, NEW ps, ps = Head(scr).lits
  PROVE  /\ ps \in Seq(LitsOf(Names)) /\ Range(ps) \subseteq LitsOf(DOMAIN num \ VarsOf(let))
         /\ From(Tail(scr), num, giv, let, k)
<1>1. /\ n \in Nat /\ Head(scr) = s[n + 1] /\ s[n + 1] \in Calls /\ n + 1 \in 1..Len(s)
      /\ VarsOf(let) \subseteq LetGoBy(s, n) /\ UNION giv \subseteq ClaimedBy(s, n) /\ ProperUse(s)
  BY DEF NextCall
<1>2. ps = s[n + 1].lits /\ s[n + 1].op \in {"implies", "toDimacs", "solve"}
  BY <1>1
<1>3. ps \in Seq(LitsOf(Names))
  BY <1>1, <1>2 DEF Calls
<1>4. Range(ps) \subseteq LitsOf(Names)
  BY <1>3 DEF Range
<1>5. VarsOf(Range(ps)) \subseteq LiveBy(s, n)
  <2>1. (n + 1) - 1 = n
    BY <1>1
  <2>2. VarsOf(Range(s[n + 1].lits)) \subseteq LiveBy(s, (n + 1) - 1)
    BY <1>1, <1>2 DEF ProperUse
  <2> QED BY <1>2, <2>1, <2>2
<1>6. PICK S : S = Range(ps)
  OBVIOUS
<1>7. S \subseteq LitsOf(Names) /\ VarsOf(S) \subseteq LiveBy(s, n)
  BY <1>4, <1>5, <1>6
<1>8. S \subseteq LitsOf(DOMAIN num \ VarsOf(let))
  BY <1>7, LiveByIs
<1>9. LetGoBy(s, n + 1) = LetGoBy(s, n) /\ ClaimedBy(s, n + 1) = ClaimedBy(s, n)
  <2>1. LetGoBy(s, n + 1) = LetGoBy(s, n)
    BY <1>1, <1>2, LetGoNext
  <2>2. ClaimedBy(s, n + 1) = ClaimedBy(s, n)
    BY <1>1, <1>2, ClaimedNext
  <2> QED BY <2>1, <2>2
<1>10. VarsOf(let) \subseteq LetGoBy(s, n + 1) /\ UNION giv \subseteq ClaimedBy(s, n + 1) /\ Head(scr).op # "newVar"
  BY <1>1, <1>9
<1>11. From(Tail(scr), num, giv, let, k)
  BY <1>10, FromSame
<1> QED BY <1>3, <1>6, <1>8, <1>11

-----------------------------------------------------------------------------
(* A new solver.                                                           *)

\* A new solver.
LEMMA NewSolverIs ==
  ASSUME NEW s, s = NewSolver
  PROVE  InIdle(s) /\ s.nextVar = 0
<1>1. /\ s.clause = [r \in {} |-> <<>>] /\ s.learnts = {} /\ s.watches = [p \in AllLits |-> <<>>]
      /\ s.trail = <<>> /\ s.lim = <<>> /\ s.qhead = 0 /\ s.assigned = {}
      /\ s.reason = [v \in Vars |-> NoClause] /\ s.level = [v \in Vars |-> 0] /\ s.heap = {}
      /\ s.ok = TRUE /\ s.nextVar = 0 /\ s.released = <<>> /\ s.free = <<>>
  BY DEF NewSolver, AllLits
<1>2. s \in SolverType
  <2>1. [r \in {} |-> <<>>] \in [{} -> ClauseSeq]
    OBVIOUS
  <2>2. s.clause \in UNION {[D -> ClauseSeq] : D \in SUBSET (Nat \ {0})}
    <3>1. {} \in SUBSET (Nat \ {0})
      OBVIOUS
    <3>2. [{} -> ClauseSeq] \in {[D -> ClauseSeq] : D \in SUBSET (Nat \ {0})}
      BY <3>1
    <3>3. s.clause = [r \in {} |-> <<>>]
      BY <1>1
    <3>4. s.clause \in [{} -> ClauseSeq]
      BY ONLY <2>1, <3>3
    <3> QED BY ONLY <3>2, <3>4
  <2>3. s.watches \in [AllLits -> Seq(Watcher)]
    BY <1>1
  <2>4. s.reason \in [Vars -> Nat] /\ s.level \in [Vars -> Nat] /\ s.heap \in SUBSET Vars
    BY <1>1 DEF NoClause
  <2>5. /\ s.learnts \in SUBSET Nat /\ s.trail \in Seq(AllLits) /\ s.lim \in Seq(Nat) /\ s.qhead \in Nat
        /\ s.assigned \in SUBSET AllLits /\ s.ok \in BOOLEAN /\ s.nextVar \in Nat
        /\ s.released \in Seq(Vars) /\ s.free \in Seq(Vars)
    <3>1. <<>> \in Seq(AllLits) /\ <<>> \in Seq(Nat) /\ <<>> \in Seq(Vars)
      BY EmptySeq
    <3>2. s.learnts \in SUBSET Nat /\ s.qhead \in Nat /\ s.assigned \in SUBSET AllLits /\ s.ok \in BOOLEAN /\ s.nextVar \in Nat
      <4>1. s.learnts = {} /\ s.qhead = 0 /\ s.assigned = {} /\ s.ok = TRUE /\ s.nextVar = 0
        BY <1>1
      <4>2. s.ok \in BOOLEAN
        BY ONLY <4>1, Zenon
      <4>3. s.learnts \in SUBSET Nat /\ s.assigned \in SUBSET AllLits
        BY ONLY <4>1, Zenon
      <4>4. s.qhead \in Nat /\ s.nextVar \in Nat
        BY ONLY <4>1
      <4> QED BY ONLY <4>2, <4>3, <4>4
    <3>3. s.trail \in Seq(AllLits)
      BY ONLY <1>1, <3>1, Zenon
    <3>4. s.lim \in Seq(Nat)
      BY ONLY <1>1, <3>1, Zenon
    <3>5. s.released \in Seq(Vars)
      BY ONLY <1>1, <3>1, Zenon
    <3>6. s.free \in Seq(Vars)
      BY ONLY <1>1, <3>1, Zenon
    <3> QED BY <3>2, <3>3, <3>4, <3>5, <3>6
  <2>6. s = [clause |-> s.clause, learnts |-> s.learnts, watches |-> s.watches, trail |-> s.trail, lim |-> s.lim,
             qhead |-> s.qhead, assigned |-> s.assigned, reason |-> s.reason, level |-> s.level, heap |-> s.heap,
             ok |-> s.ok, nextVar |-> s.nextVar, released |-> s.released, free |-> s.free, simplified |-> 0 - 1]
    <3>1. NewSolver = [clause |-> NewSolver.clause, learnts |-> NewSolver.learnts, watches |-> NewSolver.watches,
             trail |-> NewSolver.trail, lim |-> NewSolver.lim,
             qhead |-> NewSolver.qhead, assigned |-> NewSolver.assigned, reason |-> NewSolver.reason,
             level |-> NewSolver.level, heap |-> NewSolver.heap,
             ok |-> NewSolver.ok, nextVar |-> NewSolver.nextVar, released |-> NewSolver.released,
             free |-> NewSolver.free, simplified |-> 0 - 1]
      BY DEF NewSolver
    <3> QED BY <3>1
  <2>7. 0 - 1 \in Int
    OBVIOUS
  <2> QED BY ONLY <2>2, <2>3, <2>4, <2>5, <2>6, <2>7 DEF SolverType
<1>3. DOMAIN s.clause = {} /\ Len(s.trail) = 0 /\ Len(s.lim) = 0 /\ Len(s.free) = 0 /\ Len(s.released) = 0
  BY <1>1
<1>4. Typed(s)
  BY <1>1, <1>2, <1>3, FS_EmptySet DEF Typed
<1>5. ASSUME NEW i PROVE i \notin 1..Len(s.trail) /\ i \notin 1..Len(s.lim) /\ i \notin 1..Len(s.free) /\ i \notin 1..Len(s.released)
  BY <1>3
<1>6. TrailOK(s)
  BY <1>1, <1>3, <1>5 DEF TrailOK
<1>7. LevelsOK(s)
  BY <1>5 DEF LevelsOK
<1>8. ReasonsOK(s)
  BY <1>5 DEF ReasonsOK
<1>9. HeapOK(s)
  <2>1. ~\E v : v \in 0..(s.nextVar - 1)
    BY <1>1
  <2>2. s.nextVar <= MaxVars
    BY <1>1, Bounds
  <2> QED BY <1>1, <2>1, <2>2 DEF HeapOK
<1>10. FreeOK(s)
  BY <1>5 DEF FreeOK
<1>11. \A p \in AllLits : s.watches[p] = <<>> /\ Len(s.watches[p]) = 0
  BY <1>1
<1>12. ASSUME NEW p \in AllLits, NEW i PROVE i \notin 1..Len(s.watches[p])
  BY <1>11
<1>13. \A L : Within(s, L)
  BY <1>3, <1>12 DEF Within
<1>14. Books(s)
  BY <1>4, <1>6, <1>7, <1>8, <1>9, <1>10, <1>13 DEF Books
<1>15. WatchesOK(s)
  BY <1>3, <1>12 DEF WatchesOK, WatchedBy
<1>16. AwakeTo(s, Len(s.trail))
  BY <1>3 DEF AwakeTo
<1>17. Resting(s)
  BY <1>1, <1>3, <1>14, <1>15, <1>16 DEF Resting
<1>18. Pure(s)
  <2>1. ReleasedOK(s)
    BY <1>5 DEF ReleasedOK, Distinct
  <2> QED BY <1>13, <2>1 DEF Pure
<1> QED BY <1>1, <1>17, <1>18 DEF InIdle

\* It has what the user said, who said nothing yet.
LEMMA NewSolverServes ==
  ASSUME NEW s, s = NewSolver, NEW num, num = [n \in {} |-> 0]
  PROVE  Serves(s, num, {}, {})
<1>1. InIdle(s) /\ s.nextVar = 0 /\ DOMAIN num = {}
  BY NewSolverIs
<1>2. s.clause = [r \in {} |-> <<>>] /\ s.watches = [p \in AllLits |-> <<>>] /\ s.ok = TRUE /\ s.trail = <<>>
  BY DEF NewSolver, AllLits
<1>3. Naming(s, num, {}, {})
  <2>1. ASSUME NEW v \in Vars PROVE ~(v < s.nextVar)
    <3>1. v \in Nat
      BY Bounds
    <3> QED BY <1>1, <3>1
  <2> QED BY <1>1, <2>1 DEF Naming
<1>4. Speaking(num, {}, {})
  BY DEF Speaking
<1>5. Within(s, NamedIn(num, Said({}, {})))
  <2>1. DOMAIN s.clause = {} /\ \A p \in AllLits : Len(s.watches[p]) = 0
    BY <1>2
  <2>2. ASSUME NEW p \in AllLits, NEW i PROVE i \notin 1..Len(s.watches[p])
    BY <2>1
  <2> QED BY <2>1, <2>2 DEF Within
<1>6. Sound(s, num, {}, {})
  <2>1. ASSUME NEW i PROVE i \notin 1..Len(s.trail)
    BY <1>2
  <2>2. DOMAIN s.clause = {}
    BY <1>2
  <2>3. \A m : Means(s, m)
    BY <2>1, <2>2 DEF Means
  <2> QED BY <1>2, <2>3 DEF Sound
<1>7. Kept(s, num, {}, {})
  BY DEF Kept
<1> QED BY <1>3, <1>4, <1>5, <1>6, <1>7 DEF Serves

-----------------------------------------------------------------------------
(* The inductive invariant.                                                *)

\* The solver in each phase.
Phased(s, ph, cf, a) ==
  \/ ph = "idle" /\ cf = NoClause /\ InIdle(s)
  \/ ph = "propagate" /\ cf = NoClause /\ InPropagate(s, a)
  \/ ph = "conflict" /\ InConflict(s, a, cf)
  \/ ph \in {"prepare", "decide"} /\ cf = NoClause /\ InSearch(s, a)

\* What the user said, and the rest of the script.
Attends(s, num, giv, let, scr) == Serves(s, num, giv, let) /\ From(scr, num, giv, let, s.nextVar)

SolverOK == Phased(solver, phase, confl, asked) /\ Attends(solver, number, given, letGo, script)

\* The search keeps what the user said.
LEMMA AttendsOn ==
  ASSUME NEW s, NEW t, Carries(s, t), NEW num, NEW giv, NEW let, NEW scr, Attends(s, num, giv, let, scr)
  PROVE  Attends(t, num, giv, let, scr)
<1>1. Serves(t, num, giv, let)
  BY Carried DEF Attends
<1>2. t.nextVar = s.nextVar
  BY DEF Carries
<1> QED BY <1>1, <1>2 DEF Attends

\* Scripts begin with no names.
LEMMA FromStart ==
  ASSUME \A s \in Scripts : ProperUse(s), NEW scr \in Scripts, NEW num, num = [n \in {} |-> 0]
  PROVE  From(scr, num, {}, {}, 0)
<1>1. scr \in Seq(Calls)
  BY DEF ProperUse
<1>2. PICK N \in Nat : N = Len(scr)
  BY <1>1
<1>3. 0 \in 0..Len(scr)
  BY <1>2
<1>4. scr = SubSeq(scr, 0 + 1, Len(scr))
  <2>1. PICK y : y = SubSeq(scr, 0 + 1, Len(scr))
    OBVIOUS
  <2>2. y \in Seq(Calls) /\ Len(y) = Len(scr) - 0 /\ \A i \in 1..(Len(scr) - 0) : y[i] = scr[0 + i]
    BY <1>1, <1>3, <2>1, RestIs
  <2>3. Len(y) = N /\ \A i \in 1..N : y[i] = scr[i]
    BY <1>2, <2>2
  <2>4. scr = y
    BY <1>1, <1>2, <2>2, <2>3, SeqEqual
  <2> QED BY <2>1, <2>4
<1>5. CreatedBy(scr, 0) = {}
  <2>1. \A j : j \notin 1..0
    OBVIOUS
  <2> QED BY <2>1 DEF CreatedBy
<1>6. Cardinality(CreatedBy(scr, 0)) = 0
  BY <1>5, FS_EmptySet
<1>7. VarsOf({}) \subseteq LetGoBy(scr, 0) /\ UNION {} \subseteq ClaimedBy(scr, 0)
  BY DEF VarsOf
<1>8. DOMAIN num = CreatedBy(scr, 0) /\ 0 <= Cardinality(CreatedBy(scr, 0))
  BY <1>5, <1>6
<1> QED BY <1>3, <1>4, <1>7, <1>8 DEF From

\* The invariant holds at first.
LEMMA SolverStarts ==
  ASSUME \A s \in Scripts : ProperUse(s), Init
  PROVE  SolverOK
<1>1. solver = NewSolver /\ phase = "idle" /\ confl = NoClause /\ script \in Scripts /\ number = [n \in {} |-> 0] /\ given = {} /\ letGo = {}
  BY DEF Init, InitSearch
<1>2. InIdle(solver) /\ solver.nextVar = 0
  BY <1>1, NewSolverIs
<1>3. Phased(solver, phase, confl, asked)
  BY <1>1, <1>2 DEF Phased
<1>4. Serves(solver, number, {}, {})
  BY <1>1, NewSolverServes
<1>5. From(script, number, {}, {}, 0)
  BY <1>1, FromStart
<1> QED BY <1>1, <1>2, <1>3, <1>4, <1>5 DEF SolverOK, Attends

-----------------------------------------------------------------------------
(* The inductive invariant is kept by the steps of the search, ...         *)

\* Which phase it is decides what holds.
LEMMA PhaseIs ==
  ASSUME NEW s, NEW ph, NEW cf, NEW a, Phased(s, ph, cf, a)
  PROVE  /\ ph = "idle" => InIdle(s) /\ cf = NoClause
         /\ ph = "propagate" => InPropagate(s, a) /\ cf = NoClause
         /\ ph = "conflict" => InConflict(s, a, cf)
         /\ ph \in {"prepare", "decide"} => InSearch(s, a) /\ cf = NoClause
BY DEF Phased

\* solve_() returns.
LEMMA FinishKeeps ==
  ASSUME SolverOK, NEW ans, NEW u, Finish(u, ans), NEW b \in BOOLEAN, b <=> ans # Unsat({}),
         NEW t, t = Finished(u, b), InIdle(t) /\ Carries(solver, t), UNCHANGED userVars
  PROVE  SolverOK'
<1>1. solver' = [CancelUntil(u, 0) EXCEPT !.ok = @ /\ ans # Unsat({})] /\ phase' = "idle" /\ confl' = NoClause /\ asked' = asked
  BY DEF Finish
<1>2. solver' = t
  <2>1. PICK d : d = (ans # Unsat({}))
    OBVIOUS
  <2>2. d = b
    BY <2>1
  <2>3. solver' = [CancelUntil(u, 0) EXCEPT !.ok = @ /\ d]
    BY <1>1, <2>1
  <2> QED BY <2>2, <2>3 DEF Finished
<1>3. PICK s, num, giv, let, scr : s = solver /\ num = number /\ giv = given /\ let = letGo /\ scr = script
  OBVIOUS
<1>4. Attends(s, num, giv, let, scr) /\ Carries(s, t)
  BY <1>3 DEF SolverOK
<1>5. Attends(t, num, giv, let, scr)
  BY <1>4, AttendsOn
<1>6. number' = num /\ given' = giv /\ letGo' = let /\ script' = scr
  BY <1>3 DEF userVars
<1>7. Phased(t, "idle", NoClause, asked)
  BY DEF Phased
<1> QED BY <1>1, <1>2, <1>5, <1>6, <1>7 DEF SolverOK

\* A step within the search.
LEMMA SearchKeeps ==
  ASSUME SolverOK, NEW t, solver' = t, Carries(solver, t), asked' = asked, Phased(t, phase', confl', asked), UNCHANGED userVars
  PROVE  SolverOK'
<1>3. PICK s, num, giv, let, scr : s = solver /\ num = number /\ giv = given /\ let = letGo /\ scr = script
  OBVIOUS
<1>4. Attends(s, num, giv, let, scr) /\ Carries(s, t)
  BY <1>3 DEF SolverOK
<1>5. Attends(t, num, giv, let, scr)
  BY <1>4, AttendsOn
<1>6. number' = num /\ given' = giv /\ letGo' = let /\ script' = scr
  BY <1>3 DEF userVars
<1> QED BY <1>5, <1>6 DEF SolverOK

\* Which answers are no contradiction.
LEMMA UnsatOnly ==
  ASSUME NEW D
  PROVE  /\ Undef # Unsat({}) /\ Sat(D) # Unsat({}) /\ (D # {} => Unsat(D) # Unsat({}))
<1>1. Undef.is = "undef" /\ Sat(D).is = "sat" /\ Unsat({}).is = "unsat" /\ Unsat({}).lits = {} /\ Unsat(D).lits = D
  BY DEF Undef, Sat, Unsat
<1> QED BY <1>1

\* The steps of the search, one by one.
LEMMA ContradictoryKeeps ==
  ASSUME SolverOK, Contradictory, UNCHANGED userVars
  PROVE  SolverOK'
<1>1. PICK s, a : s = solver /\ a = asked
  OBVIOUS
<1>2. phase = "propagate" /\ ~s.ok /\ Finish(s, Unsat({}))
  BY <1>1 DEF Contradictory
<1>3. Phased(s, phase, confl, a)
  BY <1>1 DEF SolverOK
<1>4. InPropagate(s, a)
  BY <1>2, <1>3, PhaseIs
<1>5. PICK t : t = Finished(s, FALSE)
  OBVIOUS
<1>6. InIdle(t) /\ Carries(s, t)
  BY <1>2, <1>4, <1>5, ContradictoryIs
<1> QED BY <1>1, <1>2, <1>5, <1>6, FinishKeeps

\* A conflict at level 0 ends the search.
LEMMA RootConflictKeeps ==
  ASSUME SolverOK, RootConflict, UNCHANGED userVars
  PROVE  SolverOK'
<1>1. PICK s, a, r : s = solver /\ a = asked /\ r = confl
  OBVIOUS
<1>2. phase = "conflict" /\ Level(s) = 0 /\ Finish(s, Unsat({}))
  BY <1>1 DEF RootConflict
<1>3. Phased(s, phase, r, a)
  BY <1>1 DEF SolverOK
<1>4. InConflict(s, a, r)
  BY <1>2, <1>3, PhaseIs
<1>5. PICK t : t = Finished(s, FALSE)
  OBVIOUS
<1>6. InIdle(t) /\ Carries(s, t)
  BY <1>2, <1>4, <1>5, RootConflictIs
<1> QED BY <1>1, <1>2, <1>5, <1>6, FinishKeeps

\* propagate()
LEMMA PropagateAllKeeps ==
  ASSUME SolverOK, PropagateAll, UNCHANGED userVars
  PROVE  SolverOK'
<1>1. PICK s, a : s = solver /\ a = asked
  OBVIOUS
<1>2. PICK x : x = Propagate(s)
  OBVIOUS
<1>3. /\ phase = "propagate" /\ s.ok /\ solver' = x.s /\ confl' = x.confl
      /\ phase' = (IF x.confl = NoClause THEN "prepare" ELSE "conflict") /\ asked' = asked
  BY <1>1, <1>2 DEF PropagateAll
<1>4. Phased(s, phase, confl, a)
  BY <1>1 DEF SolverOK
<1>5. InPropagate(s, a)
  BY <1>3, <1>4, PhaseIs
<1>6. (IF x.confl = NoClause THEN InSearch(x.s, a) ELSE InConflict(x.s, a, x.confl)) /\ Carries(s, x.s)
  BY <1>2, <1>3, <1>5, PropagateStep
<1>7. PICK t : t = x.s
  OBVIOUS
<1>8. Phased(t, phase', confl', a)
  BY <1>3, <1>6, <1>7 DEF Phased
<1> QED BY <1>1, <1>3, <1>6, <1>7, <1>8, SearchKeeps

\* analyze() and what follows.
LEMMA LearnKeeps ==
  ASSUME SolverOK, Learn, UNCHANGED userVars
  PROVE  SolverOK'
<1>1. PICK s, a, r : s = solver /\ a = asked /\ r = confl
  OBVIOUS
<1>2. PICK t : t = LearnFrom(s, r)
  OBVIOUS
<1>3. phase = "conflict" /\ Level(s) > 0 /\ phase' = "propagate" /\ confl' = NoClause /\ asked' = asked
  BY <1>1 DEF Learn
<1>4. solver' = t
  BY <1>1, <1>2 DEF Learn, LearnFrom, LearnedTo
<1>5. Phased(s, phase, r, a)
  BY <1>1 DEF SolverOK
<1>6. InConflict(s, a, r)
  BY <1>3, <1>5, PhaseIs
<1>7. InPropagate(t, a) /\ Carries(s, t)
  BY <1>2, <1>3, <1>6, LearnStep
<1>8. Phased(t, phase', confl', a)
  BY <1>3, <1>7 DEF Phased
<1> QED BY <1>1, <1>3, <1>4, <1>7, <1>8, SearchKeeps

\* A restart.
LEMMA RestartKeeps ==
  ASSUME SolverOK, Restart, UNCHANGED userVars
  PROVE  SolverOK'
<1>1. PICK s, a, t : s = solver /\ a = asked /\ t = CancelUntil(s, 0)
  OBVIOUS
<1>2. phase = "prepare" /\ solver' = t /\ phase' = "propagate" /\ confl' = confl /\ asked' = asked
  BY <1>1 DEF Restart
<1>3. Phased(s, phase, confl, a)
  BY <1>1 DEF SolverOK
<1>4. InSearch(s, a) /\ confl = NoClause
  BY <1>2, <1>3, PhaseIs
<1>5. InPropagate(t, a) /\ Carries(s, t)
  BY <1>1, <1>4, RestartIs
<1>6. Phased(t, phase', confl', a)
  BY <1>2, <1>4, <1>5 DEF Phased
<1> QED BY <1>1, <1>2, <1>5, <1>6, SearchKeeps

\* The search is given up.
LEMMA AbandonKeeps ==
  ASSUME SolverOK, Abandon, UNCHANGED userVars
  PROVE  SolverOK'
<1>1. PICK s, a, t : s = solver /\ a = asked /\ t = Finished(s, TRUE)
  OBVIOUS
<1>2. phase = "prepare" /\ Finish(s, Undef)
  BY <1>1 DEF Abandon
<1>3. Phased(s, phase, confl, a)
  BY <1>1 DEF SolverOK
<1>4. InSearch(s, a)
  BY <1>2, <1>3, PhaseIs
<1>5. InIdle(t) /\ Carries(s, t)
  BY <1>1, <1>4, EndIs
<1>6. Undef # Unsat({})
  BY UnsatOnly
<1> QED BY <1>1, <1>2, <1>5, <1>6, FinishKeeps

\* simplify() and reduceDB()
LEMMA PrepareKeeps ==
  ASSUME SolverOK, Prepare, UNCHANGED userVars
  PROVE  SolverOK'
<1>1. PICK s, a : s = solver /\ a = asked
  OBVIOUS
<1>2. phase = "prepare" /\ confl' = confl /\ asked' = asked
  BY DEF Prepare
<1>3. PICK b \in {FALSE, Level(s) = 0 /\ Len(s.trail) # s.simplified} :
        LET w == IF b THEN Simplify(s) ELSE s
        IN  /\ \E rs \in IF TooManyLearnt(w) THEN SUBSET Removable(w) ELSE {{}} : solver' = RemoveClauses(w, rs)
            /\ phase' = IF b /\ ~TrimDefined(s) THEN "aborted" ELSE "decide"
  BY <1>1 DEF Prepare
<1>4. PICK u : u = (IF b THEN Simplify(s) ELSE s)
  OBVIOUS
<1>5. PICK rs \in IF TooManyLearnt(u) THEN SUBSET Removable(u) ELSE {{}} : solver' = RemoveClauses(u, rs)
  BY <1>3, <1>4
<1>6. rs \subseteq Removable(u) /\ (u = s \/ (Level(s) = 0 /\ u = Simplify(s)))
  BY <1>3, <1>4, <1>5
<1>7. Phased(s, phase, confl, a)
  BY <1>1 DEF SolverOK
<1>8. InSearch(s, a) /\ confl = NoClause
  BY <1>2, <1>7, PhaseIs
<1>9. phase' = "decide"
  <2>1. Books(s) /\ AwakeTo(s, Len(s.trail))
    BY <1>8 DEF InSearch, Ready, Seeks
  <2>2. TrimDefined(s)
    BY <2>1, TrimHolds
  <2> QED BY <1>3, <2>2
<1>10. PICK t : t = RemoveClauses(u, rs)
  OBVIOUS
<1>11. InSearch(t, a) /\ Carries(s, t)
  BY <1>6, <1>8, <1>10, PrepareIs
<1>12. Phased(t, phase', confl', a)
  BY <1>2, <1>8, <1>9, <1>11 DEF Phased
<1> QED BY <1>1, <1>2, <1>5, <1>10, <1>11, <1>12, SearchKeeps

\* The levels for assumptions.
LEMMA AtAssumptionIs ==
  ASSUME NEW s, s = solver, NEW a, a = asked
  PROVE  AtAssumption = LevelsFor(s, a)
BY DEF AtAssumption, LevelsFor

\* An assumption becomes a decision.
LEMMA AssumeKeeps ==
  ASSUME SolverOK, Assume, UNCHANGED userVars
  PROVE  SolverOK'
<1>1. PICK s, a, u : s = solver /\ a = asked /\ u = AtAssumption
  OBVIOUS
<1>2. PICK p : p = a[Level(u) + 1]
  OBVIOUS
<1>3. phase = "decide" /\ Level(u) < Len(a) /\ ~False(u, p) /\ Decide(u, p)
  BY <1>1, <1>2 DEF Assume
<1>4. u = LevelsFor(s, a)
  BY <1>1, AtAssumptionIs
<1>5. Phased(s, phase, confl, a)
  BY <1>1 DEF SolverOK
<1>6. InSearch(s, a) /\ confl = NoClause
  BY <1>3, <1>5, PhaseIs
<1>7. PICK t : t = Decided(u, p)
  OBVIOUS
<1>8. InPropagate(t, a) /\ Carries(s, t)
  BY <1>2, <1>3, <1>4, <1>6, <1>7, AssumeIs
<1>9. solver' = t /\ phase' = "propagate" /\ confl' = confl /\ asked' = asked
  BY <1>3, <1>7 DEF Decide, Decided
<1>10. Phased(t, phase', confl', a)
  BY <1>6, <1>8, <1>9 DEF Phased
<1> QED BY <1>1, <1>8, <1>9, <1>10, SearchKeeps

\* A variable is picked.
LEMMA BranchKeeps ==
  ASSUME SolverOK, Branch, UNCHANGED userVars
  PROVE  SolverOK'
<1>1. PICK s, a, u : s = solver /\ a = asked /\ u = AtAssumption
  OBVIOUS
<1>2. phase = "decide" /\ Level(u) >= Len(a)
  BY <1>1 DEF Branch
<1>3. PICK v \in {x \in u.heap : Open(u, x)}, b \in BOOLEAN : Decide([u EXCEPT !.heap = {x \in @ \ {v} : Open(u, x)}], <<v, b>>)
  BY <1>1 DEF Branch
<1>4. PICK h, t : h = {x \in u.heap \ {v} : Open(u, x)} /\ t = Decided([u EXCEPT !.heap = h], <<v, b>>)
  OBVIOUS
<1>5. u = LevelsFor(s, a)
  BY <1>1, AtAssumptionIs
<1>6. Phased(s, phase, confl, a)
  BY <1>1 DEF SolverOK
<1>7. InSearch(s, a) /\ confl = NoClause
  BY <1>2, <1>6, PhaseIs
<1>8. v \in u.heap /\ Open(u, v)
  BY <1>3
<1>9. h = {x \in u.heap \ {v} : Open(u, x)} /\ t = Decided([u EXCEPT !.heap = h], <<v, b>>)
  BY <1>4
<1>10. InPropagate(t, a) /\ Carries(s, t)
  BY <1>2, <1>5, <1>7, <1>8, <1>9, PickIs
<1>11. solver' = t /\ phase' = "propagate" /\ confl' = confl /\ asked' = asked
  BY <1>3, <1>4 DEF Decide, Decided
<1>12. Phased(t, phase', confl', a)
  BY <1>7, <1>10, <1>11 DEF Phased
<1> QED BY <1>1, <1>10, <1>11, <1>12, SearchKeeps

\* A model is found.
LEMMA ModelFoundKeeps ==
  ASSUME SolverOK, ModelFound, UNCHANGED userVars
  PROVE  SolverOK'
<1>1. PICK s, a, u : s = solver /\ a = asked /\ u = AtAssumption
  OBVIOUS
<1>2. PICK w, t : w = [u EXCEPT !.heap = {}] /\ t = Finished(w, TRUE)
  OBVIOUS
<1>3. phase = "decide" /\ (\A x \in u.heap : ~Open(u, x)) /\ Finish(w, Sat(u.assigned))
  BY <1>1, <1>2 DEF ModelFound
<1>4. u = LevelsFor(s, a)
  BY <1>1, AtAssumptionIs
<1>5. Phased(s, phase, confl, a)
  BY <1>1 DEF SolverOK
<1>6. InSearch(s, a)
  BY <1>3, <1>5, PhaseIs
<1>7. InIdle(t) /\ Carries(s, t)
  BY <1>2, <1>3, <1>4, <1>6, ModelIs
<1>8. Sat(u.assigned) # Unsat({})
  BY UnsatOnly
<1> QED BY <1>1, <1>2, <1>3, <1>7, <1>8, FinishKeeps

\* The assumptions that cannot hold are found at the levels of the others.
LEMMA FailingIs ==
  ASSUME NEW s, NEW a, InSearch(s, a), NEW u, u = LevelsFor(s, a), Level(u) < Len(a),
         NEW p, p = a[Level(u) + 1], False(u, p), NEW x, x = Neg(p), NEW D, D = FinalConflict(u, x)
  PROVE  Conflict(u, a, x, D) /\ p \in AllLits /\ Upholds(s, u) /\ InSearch(u, a)
<1>1. InSearch(u, a) /\ Upholds(s, u)
  BY LevelsIs
<1>2. Seeks(u, a) /\ Asks(u, a)
  BY <1>1 DEF InSearch, Ready
<1>3. a \in Seq(AllLits) /\ Books(u)
  BY <1>2 DEF Asks, Seeks
<1>4. Typed(u) /\ TrailOK(u)
  BY <1>3, BooksAre
<1>5. PICK n \in Nat : n = Len(u.lim)
  BY <1>4, TypedIs
<1>6. PICK N \in Nat : N = Len(a)
  BY <1>3
<1>7. n + 1 \in 1..N /\ n < N
  BY <1>5, <1>6 DEF Level
<1>8. p = a[n + 1] /\ p \in AllLits
  BY <1>3, <1>5, <1>6, <1>7 DEF Level
<1>9. Neg(x) = p /\ x \in AllLits
  BY <1>8, Literals
<1>10. Usable(u, p)
  BY <1>2, <1>6, <1>7, <1>8 DEF Asks
<1>11. Usable(u, x)
  BY <1>8, <1>9, <1>10, Literals DEF Usable
<1>12. True(u, x)
  BY DEF False, True
<1>13. OnTrail(u, x)
  BY <1>3, <1>9, <1>11, <1>12, TrueIsOnTrail
<1>14. Len(u.lim) < Len(a) /\ x = Neg(a[Len(u.lim) + 1])
  BY <1>5, <1>6, <1>7, <1>8
<1>15. Conflict(u, a, x, D)
  BY <1>2, <1>3, <1>9, <1>13, <1>14, FinalIs
<1> QED BY <1>1, <1>8, <1>15

\* The assumptions contradict the clauses.
LEMMA AssumptionFailsKeeps ==
  ASSUME SolverOK, AssumptionFails, UNCHANGED userVars
  PROVE  SolverOK'
<1>1. PICK s, a, u : s = solver /\ a = asked /\ u = AtAssumption
  OBVIOUS
<1>2. PICK p, x, D, t : p = a[Level(u) + 1] /\ x = Neg(p) /\ D = FinalConflict(u, x) /\ t = Finished(u, TRUE)
  OBVIOUS
<1>3. phase = "decide" /\ Level(u) < Len(a) /\ False(u, p) /\ Finish(u, Unsat(D))
  BY <1>1, <1>2 DEF AssumptionFails
<1>4. u = LevelsFor(s, a)
  BY <1>1, AtAssumptionIs
<1>5. Phased(s, phase, confl, a)
  BY <1>1 DEF SolverOK
<1>6. InSearch(s, a)
  BY <1>3, <1>5, PhaseIs
<1>7. Conflict(u, a, x, D)
  BY <1>2, <1>3, <1>4, <1>6, FailingIs
<1>8. Unsat(D) # Unsat({})
  <2>1. D # {}
    BY <1>7 DEF Conflict
  <2> QED BY <2>1, UnsatOnly
<1>9. InIdle(t) /\ Carries(s, t)
  BY <1>2, <1>4, <1>6, EndLater
<1> QED BY <1>1, <1>2, <1>3, <1>8, <1>9, FinishKeeps

-----------------------------------------------------------------------------
(* ... and by the calls.                                                   *)

\* The literals a sequence of named ones stands for.
InOrder(num, ps) == [i \in DOMAIN ps |-> LitOf(num, ps[i])]

\* Question a, put as ps, is one the solver can be asked.
Puts(s, num, ps, a) ==
  /\ Asks(s, a) /\ Len(a) = Len(ps)
  /\ \A q : (\E i \in 1..Len(a) : q = a[i]) <=> (\E p \in Range(ps) : q = LitOf(num, p))

\* The literals of a question are those of variables in use.
LEMMA QuestionIs ==
  ASSUME NEW s, NEW num, NEW giv, NEW let, Naming(s, num, giv, let), NEW ps \in Seq(LitsOf(Names)),
         Range(ps) \subseteq LitsOf(DOMAIN num \ VarsOf(let)), NEW a, a = InOrder(num, ps)
  PROVE  Puts(s, num, ps, a)
<1>1. PICK R : R = Range(ps)
  OBVIOUS
<1>2. /\ \A q \in LitsFor(num, R) : Usable(s, q) /\ (s.ok => ~InReleased(s, q[1]))
      /\ \A p \in R : LitOf(num, p) \in AllLits
  BY <1>1, LiveLitsIs
<1>3. PICK N \in Nat : N = Len(ps)
  OBVIOUS
<1>4. DOMAIN ps = 1..N /\ (\A x : x \in R <=> \E i \in 1..N : ps[i] = x)
  <2>1. DOMAIN ps = 1..Len(ps) /\ (\A x : x \in Range(ps) <=> \E i \in 1..Len(ps) : ps[i] = x)
    BY SeqIs
  <2> QED BY <1>1, <1>3, <2>1
<1>5. \A i \in 1..N : a[i] = LitOf(num, ps[i])
  BY <1>4 DEF InOrder
<1>6. \A i \in 1..N : ps[i] \in R /\ a[i] \in AllLits /\ a[i] \in LitsFor(num, R)
  BY <1>2, <1>4, <1>5 DEF LitsFor
<1>7. DOMAIN a = 1..N
  BY <1>4 DEF InOrder
<1>8. a \in [1..N -> AllLits]
  BY <1>4, <1>5, <1>6 DEF InOrder
<1>9. a \in Seq(AllLits) /\ Len(a) = N
  BY <1>3, <1>8, <1>7, SeqDef
<1>10. Asks(s, a)
  BY <1>2, <1>6, <1>9 DEF Asks
<1>11. \A q : (\E i \in 1..N : q = a[i]) <=> (\E p \in R : q = LitOf(num, p))
  BY <1>4, <1>5
<1> QED BY <1>1, <1>3, <1>9, <1>10, <1>11 DEF Puts

\* The variables there are stay the same.
LEMMA AddCount ==
  ASSUME NEW s, InIdle(s), NEW lits \in SUBSET AllLits, \A p \in lits : Usable(s, p), NEW t, t = AddClause(s, lits)
  PROVE  t.nextVar = s.nextVar
<1>1. Resting(s)
  BY DEF InIdle
<1>2. AddedTo(s, t, lits)
  BY <1>1, AddClauseIs
<1> QED BY <1>2 DEF AddedTo

\* Releasing a variable creates none.
LEMMA ReleaseCount ==
  ASSUME NEW s, InIdle(s), NEW p \in AllLits, Usable(s, p), NEW t, t = ReleaseVar(s, p)
  PROVE  t.nextVar = s.nextVar
<1>1. Resting(s) /\ (s.ok => ReleasedOK(s))
  BY DEF InIdle, Pure
<1>2. CASE Open(s, p[1])
  <2>1. PICK u : AddedTo(s, u, {p}) /\ Alike(u, t)
    BY <1>1, <1>2, ReleaseVarIs
  <2> QED BY <2>1 DEF AddedTo, Alike
<1>3. CASE ~Open(s, p[1])
  BY <1>3 DEF ReleaseVar
<1> QED BY <1>2, <1>3

\* The next call of the script.
LEMMA CallIs ==
  ASSUME \A s \in Scripts : ProperUse(s), SolverOK, NEW op, Call(op),
         NEW s, s = solver, NEW num, num = number, NEW giv, giv = given, NEW let, let = letGo, NEW scr, scr = script,
         NEW k, k = s.nextVar
  PROVE  /\ phase = "idle" /\ confl = NoClause /\ InIdle(s) /\ Serves(s, num, giv, let) /\ Head(scr).op = op /\ script' = Tail(scr)
         /\ Naming(s, num, giv, let) /\ let \subseteq LitsOf(DOMAIN num)
         /\ k \in Nat
         /\ \E z, n : NextCall(scr, num, giv, let, k, z, n)
<1>1. phase = "idle" /\ scr # <<>> /\ Head(scr).op = op /\ script' = Tail(scr)
  BY DEF Call
<1>2. Phased(s, phase, confl, asked) /\ Serves(s, num, giv, let) /\ From(scr, num, giv, let, k)
  BY DEF SolverOK, Attends
<1>3. InIdle(s) /\ confl = NoClause
  BY <1>1, <1>2, PhaseIs
<1>4. \E z, n : NextCall(scr, num, giv, let, k, z, n)
  BY <1>1, <1>2, NextCallIs
<1>5. Books(s)
  BY <1>3 DEF InIdle, Resting
<1>6. Typed(s)
  BY <1>5, BooksAre
<1>7. k \in Nat
  BY <1>6, TypedIs
<1>8. Naming(s, num, giv, let) /\ Speaking(num, giv, let)
  BY <1>2 DEF Serves
<1>9. let \subseteq LitsOf(DOMAIN num)
  BY <1>8 DEF Speaking
<1> QED BY <1>1, <1>2, <1>3, <1>4, <1>7, <1>8, <1>9

\* A call that returns at once.
LEMMA ReturnsKeeps ==
  ASSUME NEW t, solver' = t, phase = "idle", confl = NoClause, phase' = phase, confl' = confl, asked' = asked,
         NEW num2, num2 = number', NEW giv2, giv2 = given', NEW let2, let2 = letGo', NEW scr2, scr2 = script',
         InIdle(t), Serves(t, num2, giv2, let2), NEW k, k = t.nextVar, From(scr2, num2, giv2, let2, k)
  PROVE  SolverOK'
<1>1. Phased(t, "idle", NoClause, asked)
  BY DEF Phased
<1>2. Attends(t, num2, giv2, let2, scr2)
  BY DEF Attends
<1> QED BY <1>1, <1>2 DEF SolverOK

\* newVar()
LEMMA CallNewVarKeeps ==
  ASSUME \A s \in Scripts : ProperUse(s), SolverOK, CallNewVar
  PROVE  SolverOK'
<1>1. PICK s, num, giv, let, scr : s = solver /\ num = number /\ giv = given /\ let = letGo /\ scr = script
  OBVIOUS
<1>2. PICK k, nm, v, t : k = s.nextVar /\ nm = Head(scr).name /\ v = NewVarOf(s) /\ t = NewVar(s)
  OBVIOUS
<1>3. PICK num2 : num2 = With(num, nm, v)
  OBVIOUS
<1>4. /\ Call("newVar") /\ number' = num2 /\ solver' = t /\ phase' = phase /\ confl' = confl /\ asked' = asked
      /\ given' = giv /\ letGo' = let
  BY <1>1, <1>2, <1>3 DEF CallNewVar, Returns
<1>5. /\ phase = "idle" /\ confl = NoClause /\ InIdle(s) /\ Serves(s, num, giv, let) /\ Head(scr).op = "newVar" /\ script' = Tail(scr)
      /\ k \in Nat /\ \E z, n : NextCall(scr, num, giv, let, k, z, n)
  BY <1>1, <1>2, <1>4, CallIs
<1>6. PICK z, n : NextCall(scr, num, giv, let, k, z, n)
  BY <1>5
<1>7. PICK k2 : k2 = t.nextVar
  OBVIOUS
<1>8. nm \in Names /\ (\A m \in DOMAIN num : m < nm) /\ k < MaxVars
  <2>1. num2 = With(num, Head(scr).name, v) /\ k \in Nat /\ k <= k + 1
    BY <1>2, <1>3, <1>5
  <2> QED BY <1>2, <1>5, <1>6, <2>1, FromNew
<1>9. Books(s) /\ WatchesOK(s) /\ (s.ok => Pure(s))
  BY <1>5 DEF InIdle, Resting
<1>10. Len(s.free) # 0 \/ s.nextVar < MaxVars
  BY <1>2, <1>8
<1>11. InIdle(t)
  BY <1>2, <1>5, <1>10, IdleNewVar
<1>12. Serves(t, num2, giv, let)
  BY <1>2, <1>3, <1>5, <1>8, <1>9, <1>10, NewNamed
<1>13. k2 \in Nat /\ k2 <= k + 1
  <2>1. HasNew(s, t, v)
    BY <1>2, <1>9, <1>10, NewVarIs
  <2>2. t.nextVar = (IF Len(s.free) = 0 THEN s.nextVar + 1 ELSE s.nextVar)
    BY <2>1 DEF HasNew
  <2> QED BY <1>2, <1>5, <1>7, <2>2
<1>14. From(Tail(scr), num2, giv, let, k2)
  <2>1. num2 = With(num, Head(scr).name, v)
    BY <1>2, <1>3
  <2> QED BY <1>5, <1>6, <1>13, <2>1, FromNew
<1> QED BY <1>4, <1>5, <1>7, <1>11, <1>12, <1>14, ReturnsKeeps

\* addClause()
LEMMA CallAddClauseKeeps ==
  ASSUME \A s \in Scripts : ProperUse(s), SolverOK, CallAddClause
  PROVE  SolverOK'
<1>1. PICK s, num, giv, let, scr : s = solver /\ num = number /\ giv = given /\ let = letGo /\ scr = script
  OBVIOUS
<1>2. PICK k, c, giv2, lits : k = s.nextVar /\ c = Head(scr).lits /\ giv2 = giv \cup {c} /\ lits = LitsFor(num, c)
  OBVIOUS
<1>3. PICK t : t = AddClause(s, lits)
  OBVIOUS
<1>4. /\ Call("addClause") /\ number' = num /\ solver' = t /\ phase' = phase /\ confl' = confl /\ asked' = asked
      /\ given' = giv2 /\ letGo' = let
  <2>1. Lits(c) = lits
    BY <1>1, <1>2 DEF Lits, Lit, LitsFor, LitOf
  <2> QED BY <1>1, <1>2, <1>3, <2>1 DEF CallAddClause, Returns
<1>5. /\ phase = "idle" /\ confl = NoClause /\ InIdle(s) /\ Serves(s, num, giv, let) /\ Head(scr).op = "addClause" /\ script' = Tail(scr)
      /\ Naming(s, num, giv, let) /\ k \in Nat /\ \E z, n : NextCall(scr, num, giv, let, k, z, n)
  BY <1>1, <1>2, <1>4, CallIs
<1>6. PICK z, n : NextCall(scr, num, giv, let, k, z, n)
  BY <1>5
<1>7. c \subseteq LitsOf(DOMAIN num \ VarsOf(let)) /\ From(Tail(scr), num, giv2, let, k)
  BY <1>2, <1>5, <1>6, FromAdd
<1>8. InIdle(t) /\ Serves(t, num, giv2, let)
  BY <1>2, <1>3, <1>5, <1>7, AddServes
<1>9. lits \subseteq AllLits /\ \A q \in lits : Usable(s, q)
  BY <1>2, <1>5, <1>7, LiveLitsIs
<1>10. k = t.nextVar
  BY <1>2, <1>3, <1>5, <1>9, AddCount
<1> QED BY <1>4, <1>5, <1>7, <1>8, <1>10, ReturnsKeeps

\* releaseVar()
LEMMA CallReleaseVarKeeps ==
  ASSUME \A s \in Scripts : ProperUse(s), SolverOK, CallReleaseVar
  PROVE  SolverOK'
<1>1. PICK s, num, giv, let, scr : s = solver /\ num = number /\ giv = given /\ let = letGo /\ scr = script
  OBVIOUS
<1>2. PICK k, p, q : k = s.nextVar /\ p = Head(scr).lit /\ q = LitOf(num, p)
  OBVIOUS
<1>3. PICK t, let2 : t = ReleaseVar(s, q) /\ let2 = (IF Open(s, q[1]) THEN let \cup {p} ELSE let)
  OBVIOUS
<1>4. /\ Call("releaseVar") /\ number' = num /\ solver' = t /\ phase' = phase /\ confl' = confl /\ asked' = asked
      /\ given' = giv /\ letGo' = let2
  <2>1. Lit(p) = q /\ q[1] = num[p[1]]
    BY <1>1, <1>2 DEF Lit, LitOf
  <2> QED BY <1>1, <1>2, <1>3, <2>1 DEF CallReleaseVar, Returns
<1>5. /\ phase = "idle" /\ confl = NoClause /\ InIdle(s) /\ Serves(s, num, giv, let) /\ Head(scr).op = "releaseVar" /\ script' = Tail(scr)
      /\ Naming(s, num, giv, let) /\ let \subseteq LitsOf(DOMAIN num) /\ k \in Nat /\ \E z, n : NextCall(scr, num, giv, let, k, z, n)
  BY <1>1, <1>2, <1>4, CallIs
<1>6. PICK z, n : NextCall(scr, num, giv, let, k, z, n)
  BY <1>5
<1>7. let2 = let \/ let2 = let \cup {p}
  BY <1>3
<1>8. /\ p \in LitsOf(DOMAIN num \ VarsOf(let)) /\ Neg(p) \notin Said(giv, let)
      /\ From(Tail(scr), num, giv, let2, k)
  BY <1>2, <1>5, <1>6, <1>7, FromRelease
<1>9. q \in AllLits /\ Usable(s, q)
  <2>1. PICK ps : ps = {p}
    OBVIOUS
  <2>2. ps \subseteq LitsOf(DOMAIN num \ VarsOf(let))
    BY <1>8, <2>1
  <2>3. LitsFor(num, ps) \subseteq AllLits /\ \A e \in LitsFor(num, ps) : Usable(s, e)
    BY <1>5, <2>2, LiveLitsIs
  <2>4. q \in LitsFor(num, ps)
    BY <1>2, <2>1 DEF LitsFor
  <2> QED BY <2>3, <2>4
<1>10. InIdle(t) /\ Serves(t, num, giv, let2)
  <2>1. CASE Open(s, q[1])
    <3>1. let2 = let \cup {p}
      BY <1>3, <2>1
    <3> QED BY <1>2, <1>3, <1>5, <1>8, <2>1, <3>1, ReleaseServes
  <2>2. CASE ~Open(s, q[1])
    <3>1. t = s /\ let2 = let
      BY <1>3, <2>2 DEF ReleaseVar
    <3> QED BY <1>5, <3>1
  <2> QED BY <2>1, <2>2
<1>11. k = t.nextVar
  BY <1>2, <1>3, <1>5, <1>9, ReleaseCount
<1> QED BY <1>4, <1>5, <1>8, <1>10, <1>11, ReturnsKeeps

\* What is asked of the solver.
LEMMA AskedIs ==
  ASSUME \A s \in Scripts : ProperUse(s), SolverOK, NEW op \in {"implies", "toDimacs", "solve"}, Call(op),
         NEW s, s = solver, NEW num, num = number, NEW giv, giv = given, NEW let, let = letGo, NEW scr, scr = script,
         NEW k, k = s.nextVar, NEW ps, ps = Head(script).lits, NEW a, a = LitSeq(ps)
  PROVE  /\ phase = "idle" /\ confl = NoClause /\ InIdle(s) /\ Serves(s, num, giv, let) /\ script' = Tail(scr)
         /\ Range(ps) \subseteq LitsOf(DOMAIN num \ VarsOf(let)) /\ From(Tail(scr), num, giv, let, k)
         /\ ps \in Seq(LitsOf(Names)) /\ Puts(s, num, ps, a)
<1>1. /\ phase = "idle" /\ confl = NoClause /\ InIdle(s) /\ Serves(s, num, giv, let) /\ Head(scr).op = op /\ script' = Tail(scr)
      /\ Naming(s, num, giv, let) /\ \E z, n : NextCall(scr, num, giv, let, k, z, n)
  BY CallIs
<1>2. PICK z, n : NextCall(scr, num, giv, let, k, z, n)
  BY <1>1
<1>3. Head(scr).op \in {"implies", "toDimacs", "solve"} /\ ps = Head(scr).lits
  BY <1>1
<1>4. ps \in Seq(LitsOf(Names)) /\ Range(ps) \subseteq LitsOf(DOMAIN num \ VarsOf(let)) /\ From(Tail(scr), num, giv, let, k)
  BY <1>2, <1>3, FromAsk
<1>5. a = InOrder(num, ps)
  BY DEF LitSeq, Lit, InOrder, LitOf
<1>6. Puts(s, num, ps, a)
  <2>1. Naming(s, num, giv, let) /\ ps \in Seq(LitsOf(Names)) /\ Range(ps) \subseteq LitsOf(DOMAIN num \ VarsOf(let))
          /\ a = InOrder(num, ps)
    BY <1>1, <1>4, <1>5
  <2> QED BY ONLY <2>1, QuestionIs
<1> QED BY <1>1, <1>4, <1>6

\* implies()
LEMMA CallImpliesKeeps ==
  ASSUME \A s \in Scripts : ProperUse(s), SolverOK, CallImplies
  PROVE  SolverOK'
<1>1. PICK s, num, giv, let, scr : s = solver /\ num = number /\ giv = given /\ let = letGo /\ scr = script
  OBVIOUS
<1>2. PICK k, ps, a : k = s.nextVar /\ ps = Head(script).lits /\ a = LitSeq(ps)
  OBVIOUS
<1>3. PICK x : x = Implies(s, a)
  OBVIOUS
<1>4. PICK t : t = x.s
  OBVIOUS
<1>5. /\ Call("implies") /\ number' = num /\ solver' = t /\ phase' = phase /\ confl' = confl /\ asked' = asked
      /\ given' = giv /\ letGo' = let
  BY <1>1, <1>2, <1>3, <1>4 DEF CallImplies
<1>6. /\ phase = "idle" /\ confl = NoClause /\ InIdle(s) /\ Serves(s, num, giv, let) /\ script' = Tail(scr)
      /\ From(Tail(scr), num, giv, let, k) /\ Puts(s, num, ps, a)
  BY <1>1, <1>2, <1>5, AskedIs
<1>7. Undisturbed(s, t)
  <2>1. Resting(s) /\ a \in Seq(AllLits) /\ \A i \in 1..Len(a) : Usable(s, a[i])
    BY <1>6 DEF InIdle, Asks, Puts
  <2>2. Implying(s, a, x)
    BY <1>3, <2>1, ImpliesIs
  <2> QED BY <1>4, <2>2 DEF Implying
<1>8. InIdle(t) /\ Carries(s, t)
  BY <1>6, <1>7, UndisturbedCarries
<1>9. Serves(t, num, giv, let)
  BY <1>6, <1>8, Carried
<1>10. k = t.nextVar
  BY <1>2, <1>8 DEF Carries
<1> QED BY <1>5, <1>6, <1>8, <1>9, <1>10, ReturnsKeeps

\* toDimacs()
LEMMA CallDimacsKeeps ==
  ASSUME \A s \in Scripts : ProperUse(s), SolverOK, CallDimacs
  PROVE  SolverOK'
<1>1. PICK s, num, giv, let, scr : s = solver /\ num = number /\ giv = given /\ let = letGo /\ scr = script
  OBVIOUS
<1>2. PICK k, ps, a : k = s.nextVar /\ ps = Head(script).lits /\ a = LitSeq(ps)
  OBVIOUS
<1>3. /\ Call("toDimacs") /\ number' = num /\ solver' = s /\ phase' = phase /\ confl' = confl /\ asked' = asked
      /\ given' = giv /\ letGo' = let
  BY <1>1 DEF CallDimacs
<1>4. /\ phase = "idle" /\ confl = NoClause /\ InIdle(s) /\ Serves(s, num, giv, let) /\ script' = Tail(scr)
      /\ From(Tail(scr), num, giv, let, k)
  BY <1>1, <1>2, <1>3, AskedIs
<1> QED BY <1>2, <1>3, <1>4, ReturnsKeeps

\* solve()
LEMMA CallSolveKeeps ==
  ASSUME \A s \in Scripts : ProperUse(s), SolverOK, CallSolve
  PROVE  SolverOK'
<1>1. PICK s, num, giv, let, scr : s = solver /\ num = number /\ giv = given /\ let = letGo /\ scr = script
  OBVIOUS
<1>2. PICK k, ps, a : k = s.nextVar /\ ps = Head(script).lits /\ a = LitSeq(ps)
  OBVIOUS
<1>3. /\ Call("solve") /\ number' = num /\ solver' = s /\ phase' = "propagate" /\ confl' = confl /\ asked' = a
      /\ given' = giv /\ letGo' = let
  BY <1>1, <1>2 DEF CallSolve, Solve
<1>4. /\ phase = "idle" /\ confl = NoClause /\ InIdle(s) /\ Serves(s, num, giv, let) /\ script' = Tail(scr)
      /\ From(Tail(scr), num, giv, let, k) /\ Puts(s, num, ps, a)
  BY <1>1, <1>2, <1>3, AskedIs
<1>5. InPropagate(s, a)
  BY <1>4, StartIs DEF Puts
<1>6. Phased(s, "propagate", NoClause, a)
  BY <1>5 DEF Phased
<1>7. Attends(s, num, giv, let, Tail(scr))
  BY <1>2, <1>4 DEF Attends
<1> QED BY <1>3, <1>4, <1>6, <1>7 DEF SolverOK

\* The invariant is kept by every step.
LEMMA SolverSteps ==
  ASSUME \A s \in Scripts : ProperUse(s), SolverOK, [Next]_vars
  PROVE  SolverOK'
<1>1. CASE CallNewVar
  BY <1>1, CallNewVarKeeps
<1>2. CASE CallAddClause
  BY <1>2, CallAddClauseKeeps
<1>3. CASE CallReleaseVar
  BY <1>3, CallReleaseVarKeeps
<1>4. CASE CallImplies
  BY <1>4, CallImpliesKeeps
<1>5. CASE CallDimacs
  BY <1>5, CallDimacsKeeps
<1>6. CASE CallSolve
  BY <1>6, CallSolveKeeps
<1>7. ASSUME UNCHANGED <<solver, phase, confl, asked, script, number, given, letGo>>
      PROVE  SolverOK'
  BY <1>7 DEF SolverOK
<1>8. CASE ClearInterrupt
  BY <1>7, <1>8 DEF ClearInterrupt, userVars
<1>9. CASE UNCHANGED vars
  BY <1>7, <1>9 DEF vars, userVars, searchVars
<1>10. CASE Searching
  <2>1. Search /\ UNCHANGED userVars
    BY <1>10 DEF Searching
  <2>2. CASE Interrupt
    BY <1>7, <2>1, <2>2 DEF Interrupt, userVars
  <2> QED BY <2>1, <2>2, ContradictoryKeeps, PropagateAllKeeps, RootConflictKeeps, LearnKeeps, RestartKeeps,
              AbandonKeeps, PrepareKeeps, AssumeKeeps, AssumptionFailsKeeps, BranchKeeps, ModelFoundKeeps DEF Search
<1> QED BY <1>1, <1>2, <1>3, <1>4, <1>5, <1>6, <1>8, <1>9, <1>10 DEF Next

\* The invariant holds.
THEOREM SolverIsOK ==
  ASSUME \A s \in Scripts : ProperUse(s)
  PROVE  Spec => []SolverOK
<1>1. Init => SolverOK
  BY SolverStarts
<1>2. SolverOK /\ [Next]_vars => SolverOK'
  BY SolverSteps
<1> QED BY <1>1, <1>2, PTL DEF Spec

-----------------------------------------------------------------------------
(* TablesAgree.                                                            *)

\* What holds in every phase.
LEMMA AlwaysBooks ==
  ASSUME NEW s, NEW ph, NEW cf, NEW a, Phased(s, ph, cf, a)
  PROVE  Books(s) /\ WatchesOK(s)
<1>1. CASE InIdle(s)
  BY <1>1 DEF InIdle, Resting
<1>2. CASE InPropagate(s, a)
  BY <1>2 DEF InPropagate, Ready, Seeks
<1>3. CASE InConflict(s, a, cf)
  BY <1>3 DEF InConflict, Ready, Seeks
<1>4. CASE InSearch(s, a)
  BY <1>4 DEF InSearch, Ready, Seeks
<1> QED BY <1>1, <1>2, <1>3, <1>4 DEF Phased

\* The parts of TablesAgree, one by one.
LEMMA TypesAgree ==
  ASSUME SolverOK
  PROVE  TypeOK
<1>1. PICK s, ph, cf, a : s = solver /\ ph = phase /\ cf = confl /\ a = asked
  OBVIOUS
<1>2. Phased(s, ph, cf, a)
  BY <1>1 DEF SolverOK
<1>3. Books(s)
  BY <1>2, AlwaysBooks
<1>4. Typed(s) /\ TrailOK(s) /\ LevelsOK(s) /\ HeapOK(s)
  BY <1>3, BooksAre
<1>5. ph \in {"idle", "propagate", "conflict", "prepare", "decide", "aborted"}
  BY <1>2 DEF Phased
<1>6. DOMAIN s.clause \subseteq Nat \ {NoClause} /\ s.learnts \subseteq DOMAIN s.clause
  BY <1>4, TypedIs
<1>7. ASSUME NEW r \in DOMAIN s.clause
      PROVE  Len(s.clause[r]) > 1 /\ Range(s.clause[r]) \subseteq LitsOf(Vars)
  <2>1. PICK c : c = s.clause[r]
    OBVIOUS
  <2>2. c \in ClauseSeq
    BY <1>4, <2>1, TypedIs
  <2>3. Len(c) \in Nat /\ Len(c) >= 2 /\ DOMAIN c = 1..Len(c) /\ \A i \in 1..Len(c) : c[i] \in AllLits
    BY <2>2, ClauseIs
  <2>4. Range(c) \subseteq AllLits
    BY <2>3 DEF Range
  <2> QED BY <2>1, <2>3, <2>4 DEF AllLits
<1>8. Range(s.trail) \subseteq s.assigned
  <2>1. DOMAIN s.trail = 1..Len(s.trail)
    BY <1>4, TypedIs
  <2> QED BY <1>4, <2>1 DEF Range, TrailOK
<1>9. Consistent(s.assigned)
  BY <1>4 DEF TrailOK, Consistent
<1>10. PICK N \in Nat : N = Len(s.trail)
  BY <1>4, TypedIs
<1>11. s.qhead \in 0..Len(s.trail)
  <2>1. s.qhead \in Nat /\ s.qhead <= N
    BY <1>4, <1>10, TypedIs DEF TrailOK
  <2> QED BY <1>10, <2>1
<1>12. s.lim \in Seq(Nat) /\ DOMAIN s.lim = 1..Len(s.lim)
  BY <1>4, TypedIs
<1>13. ph = "idle" => s.lim = <<>>
  <2> SUFFICES ASSUME ph = "idle" PROVE s.lim = <<>>
    OBVIOUS
  <2>1. Len(s.lim) = 0
    BY <1>2, PhaseIs DEF InIdle, Resting
  <2> QED BY <1>12, <2>1, EmptySeq
<1>14. ASSUME NEW i \in DOMAIN s.lim PROVE s.lim[i] \in 0..Len(s.trail)
  <2>1. s.lim[i] \in Nat /\ s.lim[i] <= s.qhead
    BY <1>4, <1>12, <1>14, TypedIs DEF LevelsOK
  <2>2. s.qhead \in Nat /\ s.qhead <= N
    BY <1>10, <1>11
  <2> QED BY <1>10, <2>1, <2>2
<1>15. s.nextVar \in 0..MaxVars
  <2>1. s.nextVar \in Nat /\ s.nextVar <= MaxVars /\ MaxVars \in Nat
    BY <1>4, TypedIs, Bounds DEF HeapOK
  <2> QED BY <2>1
<1>16. cf \in {NoClause} \cup DOMAIN s.clause
  BY <1>2 DEF Phased, InConflict, Falsified
<1> QED BY <1>1, <1>5, <1>6, <1>7, <1>8, <1>9, <1>11, <1>13, <1>14, <1>15, <1>16 DEF TypeOK

\* propagate() was complete.
LEMMA PropagatedIs ==
  ASSUME NEW s, Books(s), AwakeTo(s, Len(s.trail)), NEW r, r \in DOMAIN s.clause, NEW c, c = Range(s.clause[r])
  PROVE  c \cap s.assigned # {} \/ Cardinality({p \in c : ~False(s, p)}) > 1
<1>1. Typed(s) /\ TrailOK(s) /\ Within(s, UsableLits(s))
  BY BooksAre
<1>2. PICK q : q = s.clause[r]
  OBVIOUS
<1>3. q \in ClauseSeq
  BY <1>1, <1>2, TypedIs
<1>4. /\ Len(q) \in Nat /\ DOMAIN q = 1..Len(q) /\ 1 \in 1..Len(q) /\ 2 \in 1..Len(q)
      /\ (\A i \in 1..Len(q) : q[i] \in AllLits) /\ (\A i, j \in 1..Len(q) : q[i][1] = q[j][1] => i = j)
  BY <1>3, ClauseIs
<1>5. c = {q[i] : i \in 1..Len(q)}
  BY <1>2, <1>4 DEF Range
<1> SUFFICES ASSUME c \cap s.assigned = {} PROVE Cardinality({p \in c : ~False(s, p)}) > 1
  OBVIOUS
<1>6. ASSUME NEW k \in {1, 2} PROVE q[k] \in c /\ ~False(s, q[k])
  <2>1. k \in 1..Len(q) /\ q[k] \in AllLits /\ q[k] \in c
    BY <1>4, <1>5
  <2>2. ASSUME False(s, q[k]) PROVE FALSE
    <3>1. PICK x : x = Neg(q[k])
      OBVIOUS
    <3>2. x \in AllLits /\ x[1] = q[k][1] /\ True(s, x)
      BY <2>1, <2>2, <3>1, Literals DEF False, True
    <3>3. Usable(s, q[k])
      BY <1>1, <1>2, <2>1 DEF Within, UsableLits
    <3>4. Usable(s, x)
      BY <3>2, <3>3 DEF Usable
    <3>5. OnTrail(s, x)
      BY <3>2, <3>4, TrueIsOnTrail
    <3>6. PICK j \in 1..Len(s.trail) : s.trail[j] = Neg(s.clause[r][k])
      BY <1>2, <3>1, <3>5 DEF OnTrail
    <3>7. AwakeAt(s, r, j)
      BY DEF AwakeTo
    <3>8. PICK i \in 1..Len(s.trail) : InClause(s, r, s.trail[i])
      BY <3>6, <3>7 DEF AwakeAt
    <3>9. s.trail[i] \in s.assigned
      BY <1>1 DEF TrailOK
    <3>10. s.trail[i] \in c
      BY <1>2, <1>5, <3>8 DEF InClause
    <3> QED BY <3>9, <3>10
  <2> QED BY <2>1, <2>2
<1>7. PICK x, y : x = q[1] /\ y = q[2]
  OBVIOUS
<1>8. PICK A : A = {p \in c : ~False(s, p)}
  OBVIOUS
<1>9. x \in A /\ y \in A /\ x # y
  BY <1>4, <1>6, <1>7, <1>8
<1>10. IsFiniteSet(A)
  <2>1. PICK n \in Nat : n = Len(q)
    BY <1>4
  <2>2. IsFiniteSet(1..n)
    BY FS_Interval
  <2>3. PICK f : f = [i \in 1..n |-> q[i]]
    OBVIOUS
  <2>4. c = {q[i] : i \in 1..n}
    BY <1>5, <2>1
  <2>5. f \in Surjection(1..n, c)
    BY ONLY <2>3, <2>4 DEF Surjection
  <2>6. IsFiniteSet(c)
    BY ONLY <2>2, <2>5, FS_Surjection
  <2>7. A \subseteq c
    BY <1>8
  <2> QED BY ONLY <2>6, <2>7, FS_Subset
<1>11. Cardinality(A) > 1
  <2>1. PICK B : B = {x, y}
    OBVIOUS
  <2>2. B \subseteq A
    BY <1>9, <2>1
  <2>3. IsFiniteSet(B) /\ Cardinality(B) <= Cardinality(A)
    BY ONLY <1>10, <2>2, FS_Subset
  <2>4. IsFiniteSet({x}) /\ Cardinality({x}) = 1
    BY FS_Singleton
  <2>5. y \notin {x}
    BY <1>9
  <2>6. Cardinality({x} \cup {y}) = Cardinality({x}) + 1
    BY ONLY <2>4, <2>5, FS_AddElement
  <2>7. B = {x} \cup {y}
    BY <2>1
  <2>8. Cardinality(B) = 2
    <3>1. Cardinality(B) = Cardinality({x} \cup {y})
      BY ONLY <2>7
    <3>2. PICK e : e = Cardinality({x})
      OBVIOUS
    <3>3. Cardinality(B) = e + 1 /\ e = 1
      BY ONLY <2>4, <2>6, <3>1, <3>2
    <3> QED BY ONLY <3>3
  <2>9. Cardinality(A) \in Nat
    BY ONLY <1>10, FS_CardinalityType
  <2>10. PICK n : n = Cardinality(A)
    OBVIOUS
  <2> QED BY <2>3, <2>8, <2>9, <2>10
<1> QED BY <1>8, <1>11

\* No clause is overlooked.
LEMMA PropagationAgrees ==
  ASSUME SolverOK
  PROVE  PropagationComplete
<1> SUFFICES ASSUME Quiescent PROVE PropagationComplete
  BY DEF PropagationComplete
<1>1. PICK s, ph, cf, a : s = solver /\ ph = phase /\ cf = confl /\ a = asked
  OBVIOUS
<1>2. Phased(s, ph, cf, a) /\ ph \in {"prepare", "decide"}
  BY <1>1 DEF SolverOK, Quiescent
<1>3. InSearch(s, a)
  BY <1>2, PhaseIs
<1>4. Books(s) /\ AwakeTo(s, Len(s.trail))
  BY <1>3 DEF InSearch, Ready, Seeks
<1>5. ASSUME NEW r \in DOMAIN s.clause, NEW c, c = Range(s.clause[r])
      PROVE  c \cap s.assigned # {} \/ Cardinality({p \in c : ~False(s, p)}) > 1
  BY <1>4, <1>5, PropagatedIs
<1> QED BY <1>1, <1>5 DEF PropagationComplete

\* Clauses are in the lists of their first two literals, and blockers theirs.
LEMMA WatchesAgree ==
  ASSUME SolverOK
  PROVE  WatchedByFirstTwo
<1>1. PICK s, ph, cf, a : s = solver /\ ph = phase /\ cf = confl /\ a = asked
  OBVIOUS
<1>2. Phased(s, ph, cf, a)
  BY <1>1 DEF SolverOK
<1>3. Typed(s) /\ WatchesOK(s)
  BY <1>2, AlwaysBooks, BooksAre
<1>4. ASSUME NEW p \in LitsOf(Vars), NEW ws, ws = s.watches[p]
      PROVE  /\ \A i \in DOMAIN ws : ws[i].ref \in DOMAIN s.clause
             /\ {ws[i].ref : i \in DOMAIN ws} = {r \in DOMAIN s.clause : Neg(p) \in {s.clause[r][1], s.clause[r][2]}}
             /\ \A i, j \in DOMAIN ws : ws[i].ref = ws[j].ref => i = j
             /\ \A i \in DOMAIN ws :
                  \/ ws[i].blocker \in Range(s.clause[ws[i].ref])
                  \/ Neg(ws[i].blocker) \in {q \in Range(s.trail) : s.level[q[1]] = 0}
  <2>1. p \in AllLits
    BY DEF AllLits
  <2>2. WatchedBy(s, p, ws)
    BY <1>3, <1>4, <2>1 DEF WatchesOK
  <2>3. ws \in Seq(Watcher)
    BY <1>3, <1>4, <2>1, TypedIs
  <2>4. PICK D : D = DOMAIN ws
    OBVIOUS
  <2>5. D = 1..Len(ws)
    BY <2>3, <2>4
  <2>6. \A i \in D : Watched(s, ws[i].ref, Neg(p))
    BY <2>2, <2>5 DEF WatchedBy
  <2>7. \A i, j \in D : ws[i].ref = ws[j].ref => i = j
    BY <2>2, <2>5 DEF WatchedBy
  <2>8. \A r \in DOMAIN s.clause : Watched(s, r, Neg(p)) => \E i \in D : ws[i].ref = r
    BY <2>2, <2>5 DEF WatchedBy
  <2>9. ASSUME NEW r
        PROVE  r \in {ws[i].ref : i \in D} <=> r \in {x \in DOMAIN s.clause : Neg(p) \in {s.clause[x][1], s.clause[x][2]}}
    <3>1. ASSUME r \in {ws[i].ref : i \in D} PROVE Watched(s, r, Neg(p))
      BY <2>6, <3>1
    <3>2. Watched(s, r, Neg(p)) <=> r \in DOMAIN s.clause /\ Neg(p) \in {s.clause[r][1], s.clause[r][2]}
      BY DEF Watched
    <3> QED BY <2>8, <3>1, <3>2
  <2>10. {ws[i].ref : i \in D} = {r \in DOMAIN s.clause : Neg(p) \in {s.clause[r][1], s.clause[r][2]}}
    BY <2>9
  <2>11. \A i \in D : ws[i].ref \in DOMAIN s.clause
    BY <2>6 DEF Watched
  <2>12. ASSUME NEW i \in D, NEW w, w = ws[i]
         PROVE  w.blocker \in Range(s.clause[w.ref]) \/ Neg(w.blocker) \in {q \in Range(s.trail) : s.level[q[1]] = 0}
    <3>1. BlockerOK(s, w)
      BY <2>2, <2>5, <2>12 DEF WatchedBy
    <3>2. CASE InClause(s, w.ref, w.blocker)
      <4>1. s.clause[w.ref] \in ClauseSeq
        BY <1>3, <2>11, <2>12, TypedIs
      <4>2. DOMAIN s.clause[w.ref] = 1..Len(s.clause[w.ref])
        BY <4>1, ClauseIs
      <4> QED BY <3>2, <4>2 DEF InClause, Range
    <3>3. CASE AtRoot(s, Neg(w.blocker))
      <4>1. DOMAIN s.trail = 1..Len(s.trail)
        BY <1>3, TypedIs
      <4>2. PICK k \in 1..Len(s.trail) : s.trail[k] = Neg(w.blocker) /\ s.level[s.trail[k][1]] = 0
        BY <3>3 DEF AtRoot, Lv
      <4> QED BY <4>1, <4>2 DEF Range
    <3> QED BY <3>1, <3>2, <3>3 DEF BlockerOK
  <2>13. \A i \in D : \/ ws[i].blocker \in Range(s.clause[ws[i].ref])
                     \/ Neg(ws[i].blocker) \in {q \in Range(s.trail) : s.level[q[1]] = 0}
    BY <2>12
  <2> QED BY <2>4, <2>7, <2>10, <2>11, <2>13
<1> QED BY ZenonT(40), <1>1, <1>4 DEF WatchedByFirstTwo

\* The heap has what is open.
LEMMA HeapAgrees ==
  ASSUME SolverOK
  PROVE  HeapComplete
<1>1. PICK s, ph, cf, a : s = solver /\ ph = phase /\ cf = confl /\ a = asked
  OBVIOUS
<1>2. Phased(s, ph, cf, a)
  BY <1>1 DEF SolverOK
<1>3. HeapOK(s)
  BY <1>2, AlwaysBooks, BooksAre
<1> QED BY <1>1, <1>3 DEF HeapComplete, HeapOK

\* Free variables are mentioned nowhere.
LEMMA FreeAgrees ==
  ASSUME SolverOK
  PROVE  ReleasedVarsGone
<1>1. PICK s, ph, cf, a : s = solver /\ ph = phase /\ cf = confl /\ a = asked
  OBVIOUS
<1>2. Phased(s, ph, cf, a)
  BY <1>1 DEF SolverOK
<1>3. Typed(s) /\ TrailOK(s) /\ Within(s, UsableLits(s))
  BY <1>2, AlwaysBooks, BooksAre
<1>4. ASSUME NEW v \in Range(s.free)
      PROVE  /\ \A r \in DOMAIN s.clause : v \notin VarsOf(Range(s.clause[r]))
             /\ v \notin VarsOf(Range(s.trail))
             /\ \A p \in LitsOf(Vars) : \A i \in DOMAIN s.watches[p] : s.watches[p][i].blocker[1] # v
  <2>1. s.free \in Seq(Vars)
    BY <1>3, TypedIs
  <2>2. IsFree(s, v)
    BY <1>4, <2>1, SeqIs DEF IsFree
  <2>3. \A q \in UsableLits(s) : q[1] # v
    BY <2>2 DEF UsableLits, Usable
  <2>4. ASSUME NEW r \in DOMAIN s.clause PROVE v \notin VarsOf(Range(s.clause[r]))
    <3>1. PICK c : c = s.clause[r]
      OBVIOUS
    <3>2. DOMAIN c = 1..Len(c)
      BY <1>3, <3>1, TypedIs, ClauseIs
    <3>3. \A k \in 1..Len(c) : c[k] \in UsableLits(s)
      BY <1>3, <3>1 DEF Within
    <3>4. \A q \in Range(c) : q[1] # v
      BY <2>3, <3>2, <3>3 DEF Range
    <3> QED BY <3>1, <3>4 DEF VarsOf
  <2>5. v \notin VarsOf(Range(s.trail))
    <3>1. DOMAIN s.trail = 1..Len(s.trail)
      BY <1>3, TypedIs
    <3>2. \A i \in 1..Len(s.trail) : ~IsFree(s, s.trail[i][1])
      BY <1>3 DEF TrailOK, Usable
    <3>3. \A q \in Range(s.trail) : q[1] # v
      BY <2>2, <3>1, <3>2 DEF Range
    <3> QED BY <3>3 DEF VarsOf
  <2>6. ASSUME NEW p \in LitsOf(Vars), NEW i \in DOMAIN s.watches[p] PROVE s.watches[p][i].blocker[1] # v
    <3>1. p \in AllLits
      BY DEF AllLits
    <3>2. s.watches[p] \in Seq(Watcher)
      BY <1>3, <3>1, TypedIs
    <3>3. i \in 1..Len(s.watches[p])
      BY <2>6, <3>2
    <3>4. s.watches[p][i].blocker \in UsableLits(s)
      BY <1>3, <3>1, <3>3 DEF Within
    <3> QED BY <2>3, <3>4
  <2> QED BY <2>4, <2>5, <2>6
<1> QED BY <1>1, <1>4 DEF ReleasedVarsGone

\* No phase of a proper use is that of an assertion that failed.
LEMMA AssertionsAgree ==
  ASSUME SolverOK
  PROVE  AssertionsHold
BY DEF SolverOK, Phased, AssertionsHold

\* The tables of the solver tell the same story at all times, and the
\* assertion of simplify() never fails.
THEOREM TablesAlwaysAgree ==
  ASSUME \A s \in Scripts : ProperUse(s)
  PROVE  Spec => []TablesAgree
<1>1. SolverOK => TablesAgree
  BY TypesAgree, PropagationAgrees, WatchesAgree, HeapAgrees, FreeAgrees, AssertionsAgree DEF TablesAgree
<1> QED BY <1>1, SolverIsOK, PTL

-----------------------------------------------------------------------------
(* LearningIsSound.                                                        *)

\* The name of a variable.
LEMMA NameOfIs ==
  ASSUME NEW num, num = number, DOMAIN num \subseteq Nat, NEW v, NEW n, NameIs(num, v, n)
  PROVE  NameOf(v) = n
<1>1. \A k : NameIs(num, v, k) <=> k \in DOMAIN number /\ number[k] = v /\ \A m \in DOMAIN number : number[m] = v => m <= k
  BY DEF NameIs
<1>2. PICK k : k = NameOf(v)
  OBVIOUS
<1>3. NameIs(num, v, k)
  BY <1>1, <1>2 DEF NameOf
<1> QED BY <1>2, <1>3, NameOne

\* The solutions are assignments to the names.
LEMMA SolutionIs ==
  ASSUME NEW num, num = number, NEW giv, giv = given, NEW let, let = letGo, NEW t \in Solutions
  PROVE  Solves(num, giv, let, t)
BY DEF Solutions, Solves

\* Of a literal that a solution makes true, the name is in the solution.
LEMMA NameHolds ==
  ASSUME NEW num, num = number, DOMAIN num \subseteq Nat, NEW t, NEW q \in AllLits, q \in ModelOf(num, t),
         NEW n, NameIs(num, q[1], n)
  PROVE  NameLit(q) \in t
<1>1. PICK k \in DOMAIN num : NameIs(num, q[1], k) /\ <<k, q[2]>> \in t
  BY DEF ModelOf, NameIs
<1>2. NameOf(q[1]) = k
  BY <1>1, NameOfIs
<1> QED BY <1>1, <1>2 DEF NameLit

\* What is learnt holds in all solutions.
LEMMA LearntAgrees ==
  ASSUME SolverOK
  PROVE  LearntImplied
<1>1. PICK s, ph, cf, a : s = solver /\ ph = phase /\ cf = confl /\ a = asked
  OBVIOUS
<1>2. PICK num, giv, let, scr : num = number /\ giv = given /\ let = letGo /\ scr = script
  OBVIOUS
<1>3. Phased(s, ph, cf, a) /\ Serves(s, num, giv, let)
  BY <1>1, <1>2 DEF SolverOK, Attends
<1>4. Typed(s) /\ TrailOK(s) /\ Within(s, UsableLits(s))
  BY <1>3, AlwaysBooks, BooksAre
<1>5. Naming(s, num, giv, let) /\ Sound(s, num, giv, let)
  BY <1>3 DEF Serves
<1>6. DOMAIN num \subseteq Nat
  BY <1>5, NamesAreNumbers
<1>7. ASSUME NEW q \in UsableLits(s), NEW t, q \in ModelOf(num, t) PROVE NameLit(q) \in t
  <2>1. q \in AllLits /\ q[1] \in Vars /\ q[1] < s.nextVar
    BY Literals DEF UsableLits, Usable
  <2>2. PICK n : NameIs(num, q[1], n)
    BY <1>5, <2>1 DEF Naming
  <2> QED BY <1>2, <1>6, <1>7, <2>1, <2>2, NameHolds
<1>8. ASSUME NEW r \in s.learnts, NEW t \in Solutions PROVE NameLits(Range(s.clause[r])) \cap t # {}
  <2>1. r \in DOMAIN s.clause
    BY <1>4, TypedIs
  <2>2. PICK c : c = s.clause[r]
    OBVIOUS
  <2>3. c \in ClauseSeq
    BY <1>4, <2>1, <2>2, TypedIs
  <2>4. DOMAIN c = 1..Len(c)
    BY <2>3, ClauseIs
  <2>5. Means(s, ModelOf(num, t))
    BY <1>2, <1>5, SolutionIs DEF Sound
  <2>6. PICK k \in 1..Len(c) : c[k] \in ModelOf(num, t)
    BY <2>1, <2>2, <2>5 DEF Means
  <2>7. c[k] \in UsableLits(s)
    BY <1>4, <2>1, <2>2 DEF Within
  <2>8. NameLit(c[k]) \in t
    BY <1>7, <2>6, <2>7
  <2>9. NameLit(c[k]) \in NameLits(Range(c))
    BY <2>4 DEF NameLits, Range
  <2> QED BY <2>2, <2>8, <2>9
<1>9. ASSUME NEW p \in Range(s.trail), s.level[p[1]] = 0, NEW t \in Solutions PROVE NameLits({p}) \cap t # {}
  <2>1. PICK i \in 1..Len(s.trail) : s.trail[i] = p
    BY <1>4, TypedIs DEF Range
  <2>2. Means(s, ModelOf(num, t))
    BY <1>2, <1>5, SolutionIs DEF Sound
  <2>3. p \in ModelOf(num, t)
    BY <1>9, <2>1, <2>2 DEF Means, Lv
  <2>4. p \in UsableLits(s)
    BY <1>4, <2>1 DEF TrailOK, UsableLits, Usable
  <2>5. NameLit(p) \in t
    BY <1>7, <2>3, <2>4
  <2> QED BY <2>5 DEF NameLits
<1>10. ASSUME NEW c \in {Range(s.clause[r]) : r \in s.learnts} \cup {{p} : p \in {q \in Range(s.trail) : s.level[q[1]] = 0}},
              NEW t \in Solutions
       PROVE  NameLits(c) \cap t # {}
  <2>1. CASE c \in {Range(s.clause[r]) : r \in s.learnts}
    BY <1>8, <2>1
  <2>2. CASE c \in {{p} : p \in {q \in Range(s.trail) : s.level[q[1]] = 0}}
    BY <1>9, <2>2
  <2> QED BY <1>10, <2>1, <2>2
<1> QED BY <1>1, <1>10 DEF LearntImplied

\* What is in a reason behind its first literal.
LEMMA ReasonHas ==
  ASSUME NEW c \in ClauseSeq, NEW q, q \in Range(Tail(c))
  PROVE  \E k \in 2..Len(c) : c[k] = q
<1>1. PICK d : d = Tail(c)
  OBVIOUS
<1>2. d \in Seq(AllLits)
  BY <1>1, TailIs
<1>3. \A i \in 1..Len(d) : d[i] = c[i + 1] /\ i + 1 \in 2..Len(c)
  BY <1>1, TailIs
<1>4. PICK i \in 1..Len(d) : d[i] = q
  BY <1>1, <1>2 DEF Range
<1> QED BY <1>3, <1>4

\* Reasons come before what they imply.
LEMMA ReasonsAgree ==
  ASSUME SolverOK
  PROVE  ReasonsPrecede
<1>1. PICK s, ph, cf, a : s = solver /\ ph = phase /\ cf = confl /\ a = asked
  OBVIOUS
<1>2. Phased(s, ph, cf, a)
  BY <1>1 DEF SolverOK
<1>3. Typed(s) /\ ReasonsOK(s)
  BY <1>2, AlwaysBooks, BooksAre
<1>4. ASSUME NEW i \in DOMAIN s.trail, NEW p, p = s.trail[i], NEW r, r = s.reason[p[1]], r # NoClause
      PROVE  /\ r \in DOMAIN s.clause /\ s.clause[r][1] = p
             /\ \A q \in Range(Others(s, r)) : Neg(q) \in Range(SubSeq(s.trail, 1, i - 1))
  <2>1. PICK N \in Nat : N = Len(s.trail)
    BY <1>3, TypedIs
  <2>2. s.trail \in Seq(AllLits) /\ i \in 1..N /\ i \in 1..Len(s.trail)
    BY <1>3, <2>1, TypedIs
  <2>3. Explains(s, r, i)
    BY <1>3, <1>4, <2>2 DEF ReasonsOK
  <2>4. r \in DOMAIN s.clause /\ s.clause[r][1] = p
    BY <1>4, <2>3 DEF Explains
  <2>5. PICK c : c = s.clause[r]
    OBVIOUS
  <2>6. c \in ClauseSeq
    BY <1>3, <2>4, <2>5, TypedIs
  <2>8. PICK z : z = SubSeq(s.trail, 1, i - 1)
    OBVIOUS
  <2>9. i - 1 \in 0..N /\ i - 1 \in Nat
    BY <2>2
  <2>10. z \in Seq(AllLits) /\ Len(z) = i - 1 /\ \A j \in 1..(i - 1) : z[j] = s.trail[j]
    BY <2>1, <2>2, <2>8, <2>9, FrontIs
  <2>11. ASSUME NEW q \in Range(Tail(c)) PROVE Neg(q) \in Range(z)
    <3>1. PICK k \in 2..Len(c) : c[k] = q
      BY <2>6, <2>11, ReasonHas
    <3>2. PICK j \in 1..(i - 1) : s.trail[j] = Neg(q)
      BY <2>3, <2>5, <3>1 DEF Explains
    <3>3. j \in DOMAIN z /\ z[j] = Neg(q)
      BY <2>10, <3>2
    <3> QED BY <3>3 DEF Range
  <2>12. Others(s, r) = Tail(c)
    BY <2>5 DEF Others
  <2> QED BY <2>4, <2>8, <2>11, <2>12
<1> QED BY <1>1, <1>4 DEF ReasonsPrecede

\* What analyze() learns follows from what was given, by reasons that come
\* before what they imply.
THEOREM LearningIsAlwaysSound ==
  ASSUME \A s \in Scripts : ProperUse(s)
  PROVE  Spec => []LearningIsSound
<1>1. SolverOK => LearningIsSound
  BY LearntAgrees, ReasonsAgree DEF LearningIsSound
<1> QED BY <1>1, SolverIsOK, PTL

-----------------------------------------------------------------------------
(* What a call says of its answer.                                         *)

\* The last number a variable was given.
NameFor(num, v) == CHOOSE n \in DOMAIN num : num[n] = v /\ \A m \in DOMAIN num : num[m] = v => m <= n

\* The literals in S under those numbers, but the ones that were let go.
Shown(num, let, S) == {p \in {<<NameFor(num, q[1]), q[2]>> : q \in S} : p[1] \notin VarsOf(let)}

\* The number the user knows a variable by is the last it was given.
LEMMA NameForIs ==
  ASSUME NEW num, DOMAIN num \subseteq Nat, NEW v, NEW n, NameIs(num, v, n)
  PROVE  NameFor(num, v) = n
<1>1. \A k : NameIs(num, v, k) <=> k \in DOMAIN num /\ num[k] = v /\ \A m \in DOMAIN num : num[m] = v => m <= k
  BY DEF NameIs
<1>2. PICK k : k = NameFor(num, v)
  OBVIOUS
<1>3. NameIs(num, v, k)
  BY <1>1, <1>2 DEF NameFor
<1> QED BY <1>2, <1>3, NameOne

\* A literal of a variable with a name in use is shown by that.
LEMMA ShownIs ==
  ASSUME NEW num, DOMAIN num \subseteq Nat, NEW let, NEW S, NEW q \in S, NEW n, NameIs(num, q[1], n), n \notin VarsOf(let)
  PROVE  <<n, q[2]>> \in Shown(num, let, S)
<1>1. NameFor(num, q[1]) = n
  BY NameForIs
<1>2. <<n, q[2]>>[1] = n
  OBVIOUS
<1> QED BY <1>1, <1>2 DEF Shown

\* A solution without what was let go is one with it.
LEMMA SolvesMore ==
  ASSUME NEW num, NEW giv, NEW let, Speaking(num, giv, let), DOMAIN num \subseteq Names,
         NEW t, t \in TotalAssignments(Names), Satisfies(t, giv),
         NEW x, x = {p \in t : p[1] \in DOMAIN num /\ p[1] \notin VarsOf(let)} \cup let
  PROVE  Solves(num, giv, let, x)
<1>1. t \subseteq LitsOf(Names) /\ \A v \in Names : <<v, TRUE>> \in t <=> <<v, FALSE>> \notin t
  BY TotalIs
<1>2. \A p : p \in x <=> (p \in t /\ p[1] \in DOMAIN num /\ p[1] \notin VarsOf(let)) \/ p \in let
  OBVIOUS
<1>3. let \subseteq LitsOf(DOMAIN num) /\ (\A g \in giv : g \subseteq LitsOf(DOMAIN num)) /\ \A p \in let : Neg(p) \notin Said(giv, let)
  BY DEF Speaking
<1>4. x \subseteq LitsOf(DOMAIN num)
  <2> SUFFICES ASSUME NEW p \in x PROVE p \in LitsOf(DOMAIN num)
    OBVIOUS
  <2>1. CASE p \in let
    BY <1>3, <2>1
  <2>2. CASE p \in t /\ p[1] \in DOMAIN num
    <3>1. PICK v \in Names, b \in BOOLEAN : p = <<v, b>>
      BY <1>1, <2>2 DEF LitsOf
    <3> QED BY <2>2, <3>1 DEF LitsOf
  <2> QED BY <1>2, <2>1, <2>2
<1>5. ASSUME NEW v \in DOMAIN num PROVE <<v, TRUE>> \in x <=> <<v, FALSE>> \notin x
  <2>1. CASE v \in VarsOf(let)
    <3>1. PICK p \in let : p[1] = v
      BY <2>1 DEF VarsOf
    <3>2. PICK b \in BOOLEAN : p = <<v, b>>
      BY <1>3, <3>1 DEF LitsOf
    <3>3. Neg(p) \notin let
      BY <1>3 DEF Said
    <3>4. Neg(p) = <<v, ~b>>
      BY <3>2 DEF Neg
    <3>5. \A c \in BOOLEAN : <<v, c>> \in x <=> <<v, c>> \in let
      BY <1>2, <2>1
    <3>6. CASE b = TRUE
      <4>1. <<v, TRUE>> \in let /\ <<v, FALSE>> \notin let
        BY <3>1, <3>2, <3>3, <3>4, <3>6
      <4> QED BY <3>5, <4>1
    <3>7. CASE b = FALSE
      <4>1. <<v, FALSE>> \in let /\ <<v, TRUE>> \notin let
        BY <3>1, <3>2, <3>3, <3>4, <3>7
      <4> QED BY <3>5, <4>1
    <3> QED BY <3>2, <3>6, <3>7
  <2>2. CASE v \notin VarsOf(let)
    <3>1. \A c \in BOOLEAN : <<v, c>> \notin let
      BY <2>2 DEF VarsOf
    <3>2. \A c \in BOOLEAN : <<v, c>> \in x <=> <<v, c>> \in t
      BY <1>2, <2>2, <3>1
    <3> QED BY <1>1, <3>2
  <2> QED BY <2>1, <2>2
<1>6. x \in TotalAssignments(DOMAIN num)
  <2>1. PICK D : D = DOMAIN num
    OBVIOUS
  <2>2. x \subseteq LitsOf(D) /\ \A v \in D : <<v, TRUE>> \in x <=> <<v, FALSE>> \notin x
    BY <1>4, <1>5, <2>1
  <2>3. x \in TotalAssignments(D)
    BY ONLY <2>2, TotalIs
  <2> QED BY <2>1, <2>3
<1>7. let \subseteq x
  BY <1>2
<1>8. ASSUME NEW g \in giv PROVE x \cap g # {}
  <2>1. PICK p \in t : p \in g
    BY DEF Satisfies
  <2>2. p \in Said(giv, let) /\ p[1] \in DOMAIN num
    BY <1>3, <2>1 DEF Said, LitsOf
  <2>3. CASE p[1] \in VarsOf(let)
    <3>1. p \in let
      BY <2>2, <2>3, SaidOnce
    <3> QED BY <1>2, <2>1, <3>1
  <2>4. CASE p[1] \notin VarsOf(let)
    BY <1>2, <2>1, <2>2, <2>4
  <2> QED BY <2>3, <2>4
<1> QED BY <1>6, <1>7, <1>8 DEF Solves, Satisfies

\* The set ps of named literals is the sequence a of assumptions.
Asking(num, let, ps, a) ==
  /\ ps \subseteq LitsOf(DOMAIN num \ VarsOf(let))
  /\ \A q : (\E i \in 1..Len(a) : q = a[i]) <=> (\E p \in ps : q = LitOf(num, p))

\* What contradicts the clauses has no solution.
LEMMA NoSolution ==
  ASSUME NEW s, NEW num, NEW giv, NEW let, Serves(s, num, giv, let), ~s.ok,
         NEW t \in TotalAssignments(Names), Satisfies(t, giv)
  PROVE  FALSE
<1>1. Speaking(num, giv, let) /\ DOMAIN num \subseteq Names /\ Sound(s, num, giv, let)
  BY DEF Serves, Naming
<1>2. PICK x : x = {p \in t : p[1] \in DOMAIN num /\ p[1] \notin VarsOf(let)} \cup let
  OBVIOUS
<1>3. Solves(num, giv, let, x)
  BY <1>1, <1>2, SolvesMore
<1> QED BY <1>1, <1>3 DEF Sound

\* The assumptions that were found are assumptions, and every solution has one
\* of them false.
LEMMA FailedIs ==
  ASSUME NEW s, NEW num, NEW giv, NEW let, Serves(s, num, giv, let),
         NEW ps, NEW a, Asking(num, let, ps, a), NEW x, NEW D, Conflict(s, a, x, D), NEW S, S = Shown(num, let, D)
  PROVE  /\ S \subseteq {Neg(p) : p \in ps}
         /\ \A t \in TotalAssignments(Names) : Satisfies(t, giv) => S \cap t # {}
<1>1. Naming(s, num, giv, let) /\ Speaking(num, giv, let) /\ DOMAIN num \subseteq Names /\ Sound(s, num, giv, let)
  BY DEF Serves, Naming
<1>2. DOMAIN num \subseteq Nat
  BY <1>1, NamesAreNumbers
<1>3. ps \subseteq LitsOf(DOMAIN num \ VarsOf(let))
  BY DEF Asking
<1>4. ASSUME NEW q \in D
      PROVE  \E p \in ps : q \in AllLits /\ NameIs(num, q[1], p[1]) /\ p[1] \notin VarsOf(let) /\ <<p[1], q[2]>> = Neg(p)
  <2>1. PICK i \in 1..Len(a) : q \in AllLits /\ q = Neg(a[i])
    BY DEF Conflict
  <2>2. PICK p \in ps : a[i] = LitOf(num, p)
    BY <2>1 DEF Asking
  <2>3. p[1] \in DOMAIN num /\ p[1] \notin VarsOf(let) /\ NameIs(num, num[p[1]], p[1])
    BY <1>1, <1>3, LiveLitsIs
  <2>4. q[1] = num[p[1]] /\ q[2] = ~p[2]
    BY <2>1, <2>2 DEF Neg, LitOf
  <2> QED BY <2>1, <2>3, <2>4 DEF Neg
<1>5. ASSUME NEW y \in S PROVE y \in {Neg(p) : p \in ps}
  <2>1. PICK q \in D : y = <<NameFor(num, q[1]), q[2]>>
    BY DEF Shown
  <2>2. PICK p \in ps : NameIs(num, q[1], p[1]) /\ <<p[1], q[2]>> = Neg(p)
    BY <1>4
  <2>3. NameFor(num, q[1]) = p[1]
    BY <1>2, <2>2, NameForIs
  <2> QED BY <2>1, <2>2, <2>3
<1>6. ASSUME NEW t \in TotalAssignments(Names), Satisfies(t, giv) PROVE S \cap t # {}
  <2>1. PICK z : z = {p \in t : p[1] \in DOMAIN num /\ p[1] \notin VarsOf(let)} \cup let
    OBVIOUS
  <2>2. Solves(num, giv, let, z)
    BY <1>1, <1>6, <2>1, SolvesMore
  <2>3. PICK m : m = ModelOf(num, z)
    OBVIOUS
  <2>4. m \in Models
    BY <1>2, <2>2, <2>3, ModelOfIs DEF Solves
  <2>5. Means(s, m)
    BY <1>1, <2>2, <2>3 DEF Sound
  <2>6. PICK q \in D : q \in m
    BY <2>4, <2>5 DEF Conflict
  <2>7. PICK n : q \in AllLits /\ NameIs(num, q[1], n) /\ n \notin VarsOf(let)
    BY <1>4
  <2>8. PICK v \in Vars, b \in BOOLEAN : q = <<v, b>> /\ q[1] = v /\ q[2] = b
    BY <2>7 DEF AllLits, LitsOf
  <2>9. <<n, b>> \in z
    BY <1>2, <2>3, <2>6, <2>7, <2>8, ModelHas
  <2>10. <<n, b>> \in t
    BY <2>1, <2>7, <2>9 DEF VarsOf
  <2>11. <<n, b>> \in S
    BY <1>2, <2>7, <2>8, ShownIs
  <2> QED BY <2>10, <2>11
<1> QED BY <1>5, <1>6

\* What is shown of the assignment, each with the variable it is the name of.
LEMMA ShownOf ==
  ASSUME NEW s, Books(s), NEW num, NEW giv, NEW let, Naming(s, num, giv, let),
         NEW S, S = Shown(num, let, s.assigned), NEW p \in S
  PROVE  /\ p[1] \in DOMAIN num /\ p[1] \notin VarsOf(let)
         /\ \E q \in s.assigned : q \in AllLits /\ q[1] = num[p[1]] /\ q[2] = p[2]
<1>1. TrailOK(s) /\ FreeOK(s) /\ Typed(s)
  BY BooksAre
<1>2. DOMAIN num \subseteq Nat
  BY NamesAreNumbers
<1>3. PICK q \in s.assigned : p = <<NameFor(num, q[1]), q[2]>>
  BY DEF Shown
<1>4. p[1] \notin VarsOf(let)
  BY DEF Shown
<1>5. q \in AllLits /\ q[1] \in Vars
  BY <1>1, TypedIs, Literals
<1>6. q[1] < s.nextVar
  <2>1. CASE OnTrail(s, q)
    BY <1>1, <2>1 DEF OnTrail, TrailOK, Usable
  <2>2. CASE IsFree(s, q[1])
    BY <1>1, <2>2 DEF IsFree, FreeOK
  <2> QED BY <1>1, <2>1, <2>2 DEF TrailOK
<1>7. PICK n : NameIs(num, q[1], n)
  BY <1>5, <1>6 DEF Naming
<1>8. NameFor(num, q[1]) = n
  BY <1>2, <1>7, NameForIs
<1> QED BY <1>3, <1>4, <1>5, <1>7, <1>8 DEF NameIs

\* A variable that is not open has a value.
LEMMA HasValue ==
  ASSUME NEW s, Books(s), \A v \in s.heap : ~Open(s, v), NEW v \in Vars, v < s.nextVar
  PROVE  \E b \in BOOLEAN : <<v, b>> \in s.assigned
<1>1. HeapOK(s) /\ Typed(s)
  BY BooksAre
<1>2. s.nextVar \in Nat
  BY <1>1, TypedIs
<1>3. v \in 0..(s.nextVar - 1)
  BY <1>2 DEF Vars
<1>4. ~Open(s, v)
  BY <1>1, <1>3 DEF HeapOK
<1> QED BY <1>4 DEF Open, LitsOf

\* Every clause kept has a true literal once no variable is open.
LEMMA KeptIsTrue ==
  ASSUME NEW s, Books(s), AwakeTo(s, Len(s.trail)), \A v \in s.heap : ~Open(s, v),
         NEW lits, lits \subseteq AllLits, \A q \in lits : q[1] < s.nextVar, Keeping(s, lits)
  PROVE  \E q \in lits : q \in s.assigned
<1>1. TrailOK(s) /\ Typed(s)
  BY BooksAre
<1>2. ASSUME NEW p \in lits, Neg(p) \in lits PROVE \E q \in lits : q \in s.assigned
  <2>1. PICK v \in Vars, c \in BOOLEAN : p = <<v, c>> /\ p[1] = v /\ p[2] = c
    BY DEF AllLits, LitsOf
  <2>2. Neg(p) = <<v, ~c>>
    BY <2>1 DEF Neg
  <2>3. v < s.nextVar
    BY <2>1
  <2>4. PICK b \in BOOLEAN : <<v, b>> \in s.assigned
    BY <2>3, HasValue
  <2>5. b = c \/ b = ~c
    OBVIOUS
  <2>6. <<v, b>> \in lits
    BY <1>2, <2>1, <2>2, <2>5
  <2> QED BY <2>4, <2>6
<1>3. ASSUME NEW p \in lits, AtRoot(s, p) PROVE \E q \in lits : q \in s.assigned
  BY <1>1, <1>3 DEF AtRoot, TrailOK
<1>4. ASSUME NEW r \in Originals(s), \A k \in 1..Len(s.clause[r]) : s.clause[r][k] \in lits
      PROVE  \E q \in lits : q \in s.assigned
  <2>1. r \in DOMAIN s.clause
    BY DEF Originals
  <2>2. PICK c : c = Range(s.clause[r])
    OBVIOUS
  <2>3. PICK d \in ClauseSeq : d = s.clause[r]
    BY <1>1, <2>1, TypedIs
  <2>4. c \subseteq lits
    <3>1. DOMAIN d = 1..Len(d)
      BY ClauseIs
    <3> QED BY <1>4, <2>2, <2>3, <3>1 DEF Range
  <2>5. c \cap s.assigned # {} \/ Cardinality({p \in c : ~False(s, p)}) > 1
    BY <2>1, <2>2, PropagatedIs
  <2>6. CASE Cardinality({p \in c : ~False(s, p)}) > 1
    <3>1. PICK A : A = {p \in c : ~False(s, p)}
      OBVIOUS
    <3>2. A # {}
      <4> SUFFICES ASSUME A = {} PROVE FALSE
        OBVIOUS
      <4>1. Cardinality({}) = 0
        BY FS_EmptySet
      <4>2. Cardinality(A) > 1
        BY <2>6, <3>1
      <4> QED BY <4>1, <4>2
    <3>3. PICK p \in c : ~False(s, p)
      BY <3>1, <3>2
    <3>4. p \in lits /\ p \in AllLits /\ p[1] < s.nextVar
      BY <2>4
    <3>5. PICK v \in Vars, e \in BOOLEAN : p = <<v, e>> /\ p[1] = v /\ p[2] = e
      BY <3>4 DEF AllLits, LitsOf
    <3>6. PICK b \in BOOLEAN : <<v, b>> \in s.assigned
      BY <3>4, <3>5, HasValue
    <3>7. <<v, ~e>> \notin s.assigned
      BY <3>3, <3>5 DEF False, Neg
    <3>8. b = e
      BY <3>6, <3>7
    <3> QED BY <3>4, <3>5, <3>6, <3>8
  <2> QED BY <2>4, <2>5, <2>6
<1> QED BY <1>2, <1>3, <1>4 DEF Keeping

\* What is shown when nothing is open is a solution, with what was let go, and
\* the assumptions hold in it.
LEMMA ModelShown ==
  ASSUME NEW s, Books(s), AwakeTo(s, Len(s.trail)), \A v \in s.heap : ~Open(s, v), s.ok,
         NEW num, NEW giv, NEW let, Serves(s, num, giv, let),
         NEW ps, NEW a, Asking(num, let, ps, a), a \in Seq(AllLits), AssumedOK(s, a), ~(Len(s.lim) < Len(a)),
         NEW S, S = Shown(num, let, s.assigned), NEW all, all = S \cup let
  PROVE  ps \subseteq S /\ Consistent(all) /\ VarsIn(giv) \subseteq VarsOf(all) /\ Satisfies(all, giv)
<1>1. TrailOK(s) /\ Typed(s)
  BY BooksAre
<1>2. Naming(s, num, giv, let) /\ Speaking(num, giv, let) /\ Kept(s, num, giv, let)
  BY DEF Serves
<1>3. DOMAIN num \subseteq Nat
  BY <1>2, NamesAreNumbers
<1>4. ASSUME NEW n \in DOMAIN num PROVE num[n] \in Vars /\ num[n] < s.nextVar
  BY <1>2 DEF Naming
<1>5. ASSUME NEW n \in DOMAIN num, n \notin VarsOf(let), NEW b, <<num[n], b>> \in s.assigned PROVE <<n, b>> \in S
  <2>1. PICK q \in s.assigned : q = <<num[n], b>>
    BY <1>5
  <2>2. NameIs(num, q[1], n) /\ q[2] = b
    BY <1>2, <1>5, <2>1 DEF Naming
  <2>3. <<n, q[2]>> \in Shown(num, let, s.assigned)
    BY ONLY <1>3, <1>5, <2>2, ShownIs
  <2> QED BY <2>2, <2>3
<1>6. ps \subseteq S
  <2> SUFFICES ASSUME NEW p \in ps PROVE p \in S
    OBVIOUS
  <2>1. ps \subseteq LitsOf(DOMAIN num \ VarsOf(let))
    BY DEF Asking
  <2>2. p[1] \in DOMAIN num /\ p[1] \notin VarsOf(let) /\ p = <<p[1], p[2]>>
    BY <1>2, <2>1, LiveLitsIs
  <2>3. PICK i \in 1..Len(a) : a[i] = LitOf(num, p)
    BY DEF Asking
  <2>4. i \in 1..Len(s.lim) /\ i <= Len(a)
    <3>1. PICK N \in Nat : N = Len(a)
      OBVIOUS
    <3>2. PICK M \in Nat : M = Len(s.lim)
      BY <1>1, TypedIs
    <3> QED BY <2>3, <3>1, <3>2
  <2>5. PICK j \in 1..Len(s.trail) : s.trail[j] = a[i]
    BY <2>4 DEF AssumedOK
  <2>6. LitOf(num, p) \in s.assigned
    BY <1>1, <2>3, <2>5 DEF TrailOK
  <2> QED BY <1>5, <2>2, <2>6 DEF LitOf
<1>7. ASSUME NEW p \in S
      PROVE  /\ p[1] \in DOMAIN num /\ p[1] \notin VarsOf(let)
             /\ \E q \in s.assigned : q \in AllLits /\ q[1] = num[p[1]] /\ q[2] = p[2]
  BY <1>2, ShownOf
<1>8. Consistent(all)
  <2> SUFFICES ASSUME NEW p \in all, Neg(p) \in all PROVE FALSE
    BY DEF Consistent
  <2>1. PICK r : r = Neg(p)
    OBVIOUS
  <2>2. r[1] = p[1] /\ r[2] = ~p[2]
    BY <2>1 DEF Neg
  <2>3. CASE p \in S /\ r \in S
    <3>1. PICK q \in s.assigned : q \in AllLits /\ q[1] = num[p[1]] /\ q[2] = p[2]
      BY <1>7, <2>3
    <3>2. PICK y \in s.assigned : y \in AllLits /\ y[1] = num[p[1]] /\ y[2] = ~p[2]
      BY <1>7, <2>2, <2>3
    <3>3. y = Neg(q)
      BY <3>1, <3>2 DEF AllLits, LitsOf, Neg
    <3> QED BY <1>1, <3>1, <3>2, <3>3 DEF TrailOK
  <2>4. CASE p \in let /\ r \in let
    BY <1>2, <2>1, <2>4 DEF Speaking, Said
  <2>5. CASE p \in let /\ r \in S
    BY <1>7, <2>2, <2>5 DEF VarsOf
  <2>6. CASE p \in S /\ r \in let
    <3>1. r[1] \in VarsOf(let)
      BY <2>6 DEF VarsOf
    <3> QED BY <1>7, <2>2, <2>6, <3>1
  <2> QED BY <2>1, <2>3, <2>4, <2>5, <2>6
<1>9. ASSUME NEW g \in giv, NEW p \in g
      PROVE  p[1] \in DOMAIN num /\ p \in Said(giv, let) /\ p[2] \in BOOLEAN /\ p = <<p[1], p[2]>>
  BY <1>2 DEF Speaking, Said, LitsOf
<1>10. VarsIn(giv) \subseteq VarsOf(all)
  <2> SUFFICES ASSUME NEW g \in giv, NEW p \in g PROVE p[1] \in VarsOf(all)
    BY DEF VarsIn, VarsOf
  <2>1. CASE p[1] \in VarsOf(let)
    BY <2>1 DEF VarsOf
  <2>2. CASE p[1] \notin VarsOf(let)
    <3>1. PICK n : n = p[1]
      OBVIOUS
    <3>2. n \in DOMAIN num
      BY <1>9, <3>1
    <3>3. PICK b \in BOOLEAN : <<num[n], b>> \in s.assigned
      BY <1>4, <3>2, HasValue
    <3>4. <<n, b>> \in S
      BY <1>5, <2>2, <3>1, <3>2, <3>3
    <3>5. <<n, b>>[1] = n
      OBVIOUS
    <3> QED BY <3>1, <3>4, <3>5 DEF VarsOf
  <2> QED BY <2>1, <2>2
<1>11. ASSUME NEW g \in giv PROVE all \cap g # {}
  <2>1. CASE g \cap let # {}
    BY <2>1
  <2>2. CASE Keeping(s, LitsFor(num, g))
    <3>1. PICK lits : lits = LitsFor(num, g)
      OBVIOUS
    <3>2. lits \subseteq AllLits /\ \A q \in lits : q[1] < s.nextVar
      <4> SUFFICES ASSUME NEW q \in lits PROVE q \in AllLits /\ q[1] < s.nextVar
        OBVIOUS
      <4>1. PICK p \in g : q = LitOf(num, p)
        BY <3>1 DEF LitsFor
      <4>2. p[1] \in DOMAIN num /\ p[2] \in BOOLEAN
        BY <1>9
      <4>3. num[p[1]] \in Vars /\ num[p[1]] < s.nextVar
        BY <1>4, <4>2
      <4> QED BY <4>1, <4>2, <4>3 DEF LitOf, AllLits, LitsOf
    <3>3. PICK q \in lits : q \in s.assigned
      BY <2>2, <3>1, <3>2, KeptIsTrue
    <3>4. PICK p \in g : q = LitOf(num, p)
      BY <3>1 DEF LitsFor
    <3>5. p[1] \in DOMAIN num /\ p \in Said(giv, let) /\ p = <<p[1], p[2]>>
      BY <1>9
    <3>6. CASE p[1] \in VarsOf(let)
      <4>1. p \in let
        BY <1>2, <3>5, <3>6, SaidOnce
      <4> QED BY <4>1
    <3>7. CASE p[1] \notin VarsOf(let)
      <4>1. <<num[p[1]], p[2]>> \in s.assigned
        BY <3>3, <3>4 DEF LitOf
      <4>2. <<p[1], p[2]>> \in S
        BY <1>5, <3>5, <3>7, <4>1
      <4> QED BY <3>5, <4>2
    <3> QED BY <3>6, <3>7
  <2> QED BY <1>2, <2>1, <2>2 DEF Kept
<1> QED BY <1>6, <1>8, <1>10, <1>11 DEF Satisfies

-----------------------------------------------------------------------------
(* The promise is kept.                                                    *)

\* While solve() runs there is no answer; between two calls there is one.
AnswerOK ==
  /\ phase # "idle" => answer = Pending /\ Asking(number, letGo, question, asked)
  /\ phase = "idle" => \E w, D : w # "pending" /\ answer = [is |-> w, lits |-> D]

\* An answer as the user sees it.
LEMMA NamedIs ==
  ASSUME NEW w, NEW D, answer = [is |-> w, lits |-> D], NEW num, num = number, NEW let, let = letGo
  PROVE  NamedAnswer = [is |-> w, lits |-> Shown(num, let, D)]
<1>1. Shown(num, let, D) = LiveLits(D)
  <2>1. \A v : NameFor(num, v) = NameOf(v)
    BY DEF NameFor, NameOf
  <2> QED BY <2>1 DEF LiveLits, NameLits, NameLit, Shown
<1>2. answer.lits = D
  OBVIOUS
<1>3. LiveLits(answer.lits) = Shown(num, let, D)
  BY <1>1, <1>2
<1>4. NamedAnswer = [[is |-> w, lits |-> D] EXCEPT !.lits = Shown(num, let, D)]
  BY <1>3 DEF NamedAnswer
<1> QED BY <1>4

\* The same of the next one.
LEMMA NamedNext ==
  ASSUME NEW w, NEW D, answer' = [is |-> w, lits |-> D], NEW num, num = number', NEW let, let = letGo'
  PROVE  NamedAnswer' = [is |-> w, lits |-> Shown(num, let, D)]
BY DEF NamedAnswer, LiveLits, NameLits, NameLit, NameOf, Shown, NameFor

\* Of nothing, nothing is shown.
LEMMA ShownNothing ==
  ASSUME NEW num, NEW let
  PROVE  Shown(num, let, {}) = {}
BY DEF Shown

\* A question that is asked is pending for the user as well.
LEMMA PendingIs ==
  ASSUME answer = Pending
  PROVE  NamedAnswer = Promise!Pending
<1>1. PICK num, let : num = number /\ let = letGo
  OBVIOUS
<1>2. answer = [is |-> "pending", lits |-> {}]
  BY DEF Pending
<1>3. NamedAnswer = [is |-> "pending", lits |-> Shown(num, let, {})]
  BY ONLY <1>1, <1>2, NamedIs
<1> QED BY <1>3, ShownNothing DEF Promise!Pending

\* The same of the next state.
LEMMA PendingNext ==
  ASSUME answer' = Pending
  PROVE  NamedAnswer' = Promise!Pending
<1>1. PICK num, let : num = number' /\ let = letGo'
  OBVIOUS
<1>2. answer' = [is |-> "pending", lits |-> {}]
  BY DEF Pending
<1>3. NamedAnswer' = [is |-> "pending", lits |-> Shown(num, let, {})]
  BY ONLY <1>1, <1>2, NamedNext
<1> QED BY <1>3, ShownNothing DEF Promise!Pending

\* Between two calls nothing is pending.
LEMMA NotPending ==
  ASSUME AnswerOK, phase = "idle"
  PROVE  NamedAnswer # Promise!Pending
<1>1. PICK w, D : w # "pending" /\ answer = [is |-> w, lits |-> D]
  BY DEF AnswerOK
<1>2. PICK num, let : num = number /\ let = letGo
  OBVIOUS
<1>3. NamedAnswer = [is |-> w, lits |-> Shown(num, let, D)]
  BY ONLY <1>1, <1>2, NamedIs
<1>4. NamedAnswer.is = w
  BY <1>3
<1> QED BY <1>1, <1>4 DEF Promise!Pending

\* A call that is no question leaves no answer behind.
LEMMA IdleNext ==
  ASSUME answer' = Idle, phase' = "idle"
  PROVE  NamedAnswer' = Promise!Idle /\ AnswerOK'
<1>1. PICK num, let : num = number' /\ let = letGo'
  OBVIOUS
<1>2. answer' = [is |-> "idle", lits |-> {}]
  BY DEF Idle
<1>3. NamedAnswer' = [is |-> "idle", lits |-> Shown(num, let, {})]
  BY ONLY <1>1, <1>2, NamedNext
<1>4. AnswerOK'
  <2>1. "idle" # "pending"
    OBVIOUS
  <2>2. \E w, D : w # "pending" /\ answer' = [is |-> w, lits |-> D]
    BY <1>2, <2>1
  <2> QED BY <2>2 DEF AnswerOK
<1> QED BY <1>3, <1>4, ShownNothing DEF Promise!Idle

\* The literals of a clause that is added, or of a question, are the user's.
LEMMA SameWords ==
  ASSUME NEW S, NEW T, NEW p
  PROVE  /\ Promise!VarsOf(S) = VarsOf(S) /\ Promise!LitsOf(S) = LitsOf(S) /\ Promise!Neg(p) = Neg(p)
         /\ Promise!TotalAssignments(S) = TotalAssignments(S) /\ Promise!Satisfies(S, T) = Satisfies(S, T)
         /\ Promise!VarsIn(S) = VarsIn(S) /\ Promise!Consistent(S) = Consistent(S)
<1>1. Promise!Neg(p) = Neg(p) /\ Promise!VarsOf(S) = VarsOf(S) /\ Promise!LitsOf(S) = LitsOf(S)
  BY DEF Promise!Neg, Neg, Promise!VarsOf, VarsOf, Promise!LitsOf, LitsOf
<1>2. Promise!TotalAssignments(S) = TotalAssignments(S) /\ Promise!Satisfies(S, T) = Satisfies(S, T)
  BY DEF Promise!TotalAssignments, TotalAssignments, Promise!Satisfies, Satisfies
<1>3. Promise!VarsIn(S) = VarsIn(S)
  BY DEF Promise!VarsIn, VarsIn, Promise!VarsOf, VarsOf
<1>4. Promise!Consistent(S) = Consistent(S)
  BY DEF Promise!Consistent, Consistent, Promise!Neg, Neg
<1> QED BY <1>1, <1>2, <1>3, <1>4

\* The next call is in a script.
LEMMA CallIsInScript ==
  ASSUME NEW scr, NEW num, NEW giv, NEW let, NEW k, NEW z, NEW n, NextCall(scr, num, giv, let, k, z, n)
  PROVE  z \in Scripts /\ Head(scr) \in Range(z)
<1>1. z \in Scripts /\ ProperUse(z) /\ n + 1 \in 1..Len(z) /\ Head(scr) = z[n + 1]
  BY DEF NextCall
<1>2. z \in Seq(Calls)
  BY <1>1 DEF ProperUse
<1>3. DOMAIN z = 1..Len(z)
  BY <1>2
<1> QED BY <1>1, <1>3 DEF Range

\* Literals of names in use are about live ones.
LEMMA LiveOnes ==
  ASSUME NEW num, DOMAIN num \subseteq Names, NEW let, NEW ps, ps \subseteq LitsOf(DOMAIN num \ VarsOf(let))
  PROVE  VarsOf(ps) \subseteq Names \ VarsOf(let)
BY DEF VarsOf, LitsOf

\* A call that is no question and changes nothing of what the user said.
LEMMA OtherKept ==
  ASSUME AnswerOK, phase = "idle", phase' = "idle", answer' = Idle, given' = given, letGo' = letGo, question' = question
  PROVE  Promise!Next /\ AnswerOK'
<1>1. NamedAnswer # Promise!Pending
  BY NotPending
<1>2. NamedAnswer' = Promise!Idle /\ AnswerOK'
  BY IdleNext
<1>3. Promise!Other
  BY <1>1, <1>2 DEF Promise!Other
<1> QED BY <1>2, <1>3 DEF Promise!Next

\* newVar() is one of the other calls the promise knows.
LEMMA NewVarKept ==
  ASSUME AnswerOK, CallNewVar
  PROVE  Promise!Next /\ AnswerOK'
<1>1. phase = "idle" /\ phase' = "idle" /\ answer' = Idle /\ given' = given /\ letGo' = letGo /\ question' = question
  BY DEF CallNewVar, Call, Returns
<1> QED BY <1>1, OtherKept

\* So is implies(), ...
LEMMA ImpliesKept ==
  ASSUME AnswerOK, CallImplies
  PROVE  Promise!Next /\ AnswerOK'
<1>1. phase = "idle" /\ phase' = "idle" /\ answer' = Idle /\ given' = given /\ letGo' = letGo /\ question' = question
  BY DEF CallImplies, Call
<1> QED BY <1>1, OtherKept

\* ... and toDimacs().
LEMMA DimacsKept ==
  ASSUME AnswerOK, CallDimacs
  PROVE  Promise!Next /\ AnswerOK'
<1>1. phase = "idle" /\ phase' = "idle" /\ answer' = Idle /\ given' = given /\ letGo' = letGo /\ question' = question
  BY DEF CallDimacs, Call
<1> QED BY <1>1, OtherKept

\* addClause() is the promise's Add, ...
LEMMA AddKept ==
  ASSUME \A s \in Scripts : ProperUse(s), SolverOK, AnswerOK, CallAddClause
  PROVE  Promise!Next /\ AnswerOK'
<1>1. PICK s, num, giv, let, scr : s = solver /\ num = number /\ giv = given /\ let = letGo /\ scr = script
  OBVIOUS
<1>2. PICK k, c, giv2 : k = s.nextVar /\ c = Head(script).lits /\ giv2 = giv \cup {c}
  OBVIOUS
<1>3. /\ Call("addClause") /\ phase = "idle" /\ phase' = "idle" /\ answer' = Idle
      /\ given' = given \cup {c} /\ letGo' = letGo /\ question' = question
  BY <1>2 DEF CallAddClause, Call, Returns
<1>4. Naming(s, num, giv, let) /\ Head(scr).op = "addClause" /\ \E z, n : NextCall(scr, num, giv, let, k, z, n)
  BY <1>1, <1>2, <1>3, CallIs
<1>5. PICK z, n : NextCall(scr, num, giv, let, k, z, n)
  BY <1>4
<1>6. c \subseteq LitsOf(DOMAIN num \ VarsOf(let))
  BY <1>1, <1>2, <1>4, <1>5, FromAdd
<1>7. VarsOf(c) \subseteq Names \ VarsOf(let)
  BY <1>4, <1>6, LiveOnes DEF Naming
<1>8. z \in Scripts /\ Head(scr) \in Range(z)
  BY <1>5, CallIsInScript
<1>9. c \in UNION {{e.lits : e \in {d \in Range(y) : d.op = "addClause"}} : y \in Scripts}
  BY <1>1, <1>2, <1>4, <1>8
<1>10. Promise!VarsOf(c) \subseteq Promise!Live
  BY <1>1, <1>7, SameWords DEF Promise!Live
<1>11. NamedAnswer # Promise!Pending
  BY <1>3, NotPending
<1>12. NamedAnswer' = Promise!Idle /\ AnswerOK'
  BY <1>3, IdleNext
<1>13. Promise!AddClause
  BY <1>3, <1>9, <1>10, <1>11, <1>12 DEF Promise!AddClause
<1> QED BY <1>12, <1>13 DEF Promise!Next

\* ... releaseVar() its Release, ...
LEMMA ReleaseKept ==
  ASSUME \A s \in Scripts : ProperUse(s), SolverOK, AnswerOK, CallReleaseVar
  PROVE  Promise!Next /\ AnswerOK'
<1>1. PICK s, num, giv, let, scr : s = solver /\ num = number /\ giv = given /\ let = letGo /\ scr = script
  OBVIOUS
<1>2. PICK k, p : k = s.nextVar /\ p = Head(script).lit
  OBVIOUS
<1>3. /\ Call("releaseVar") /\ phase = "idle" /\ phase' = "idle" /\ answer' = Idle
      /\ given' = given /\ (letGo' = letGo \/ letGo' = letGo \cup {p}) /\ question' = question
  BY <1>2 DEF CallReleaseVar, Call, Returns
<1>4. /\ Naming(s, num, giv, let) /\ let \subseteq LitsOf(DOMAIN num)
      /\ Head(scr).op = "releaseVar" /\ \E z, n : NextCall(scr, num, giv, let, k, z, n)
  BY <1>1, <1>2, <1>3, CallIs
<1>5. PICK z, n : NextCall(scr, num, giv, let, k, z, n)
  BY <1>4
<1>6. p \in LitsOf(DOMAIN num \ VarsOf(let))
  <2>1. PICK let2 : let2 = let
    OBVIOUS
  <2> QED BY <1>1, <1>2, <1>4, <1>5, <2>1, FromRelease
<1>7. p \in Promise!LitsOf(Promise!Live)
  <2>1. p \in LitsOf(Names \ VarsOf(let))
    BY <1>4, <1>6 DEF Naming, LitsOf
  <2> QED BY <1>1, <2>1, SameWords DEF Promise!Live
<1>8. NamedAnswer # Promise!Pending
  BY <1>3, NotPending
<1>9. NamedAnswer' = Promise!Idle /\ AnswerOK'
  BY <1>3, IdleNext
<1>10. CASE letGo' = letGo
  BY <1>3, <1>10, OtherKept
<1>11. CASE letGo' = letGo \cup {p}
  <2>1. Promise!Release
    BY <1>3, <1>7, <1>8, <1>9, <1>11 DEF Promise!Release
  <2> QED BY <1>9, <2>1 DEF Promise!Next
<1> QED BY <1>3, <1>10, <1>11

\* ... and solve() its Ask.
LEMMA SolveKept ==
  ASSUME \A s \in Scripts : ProperUse(s), SolverOK, AnswerOK, CallSolve
  PROVE  Promise!Next /\ AnswerOK'
<1>1. PICK s, num, giv, let, scr : s = solver /\ num = number /\ giv = given /\ let = letGo /\ scr = script
  OBVIOUS
<1>2. PICK k, ps, a : k = s.nextVar /\ ps = Head(script).lits /\ a = LitSeq(ps)
  OBVIOUS
<1>3. /\ Call("solve") /\ phase = "idle" /\ phase' = "propagate" /\ answer' = Pending /\ asked' = a
      /\ given' = given /\ letGo' = letGo /\ number' = number /\ question' = Range(ps)
  BY <1>2 DEF CallSolve, Solve, Call
<1>4. Range(ps) \subseteq LitsOf(DOMAIN num \ VarsOf(let)) /\ Puts(s, num, ps, a)
  BY <1>1, <1>2, <1>3, AskedIs
<1>5. Naming(s, num, giv, let) /\ Head(scr).op = "solve" /\ \E z, n : NextCall(scr, num, giv, let, k, z, n)
  BY <1>1, <1>2, <1>3, CallIs
<1>6. PICK z, n : NextCall(scr, num, giv, let, k, z, n)
  BY <1>5
<1>7. z \in Scripts /\ Head(scr) \in Range(z)
  BY <1>6, CallIsInScript
<1>8. Range(ps) \in UNION {{Range(e.lits) : e \in {d \in Range(y) : d.op = "solve"}} : y \in Scripts}
  BY <1>1, <1>2, <1>5, <1>7
<1>9. VarsOf(Range(ps)) \subseteq Names \ VarsOf(let)
  BY <1>4, <1>5, LiveOnes DEF Naming
<1>10. Promise!VarsOf(Range(ps)) \subseteq Promise!Live
  BY <1>1, <1>9, SameWords DEF Promise!Live
<1>11. NamedAnswer # Promise!Pending
  BY <1>3, NotPending
<1>12. NamedAnswer' = Promise!Pending
  BY <1>3, PendingNext
<1>13. Promise!Ask
  BY <1>3, <1>8, <1>10, <1>11, <1>12 DEF Promise!Ask
<1>14. Asking(num, let, Range(ps), a)
  BY <1>4 DEF Asking, Puts
<1>15. AnswerOK'
  <2>1. Asking(number', letGo', question', asked')
    BY <1>1, <1>3, <1>14
  <2> QED BY <1>3, <2>1 DEF AnswerOK
<1> QED BY <1>13, <1>15 DEF Promise!Next

\* solve_() returns an answer that is one.
LEMMA Replied ==
  ASSUME AnswerOK, phase # "idle", phase' = "idle", number' = number, given' = given, letGo' = letGo, question' = question,
         NEW w, w # "pending", NEW D, answer' = [is |-> w, lits |-> D],
         NEW num, num = number, NEW giv, giv = given, NEW let, let = letGo, NEW ps, ps = question,
         NEW S, S = Shown(num, let, D), NEW all, all = S \cup let,
         \/ w = "undef" /\ D = {}
         \/ w = "sat" /\ ps \subseteq S /\ Consistent(all) /\ VarsIn(giv) \subseteq VarsOf(all) /\ Satisfies(all, giv)
         \/ w = "unsat" /\ S \subseteq {Neg(p) : p \in ps}
              /\ \A t \in TotalAssignments(Names) : Satisfies(t, giv) => S \cap t # {}
  PROVE  Promise!Next /\ AnswerOK'
<1>1. answer = Pending
  BY DEF AnswerOK
<1>2. NamedAnswer = Promise!Pending
  BY <1>1, PendingIs
<1>3. NamedAnswer' = [is |-> w, lits |-> S]
  BY NamedNext
<1>4. AnswerOK'
  BY DEF AnswerOK
<1>5. PICK ans : ans = NamedAnswer'
  OBVIOUS
<1>6. ans.is = w /\ ans.lits = S
  BY <1>3, <1>5
<1>7. CASE w = "undef" /\ D = {}
  <2>1. NamedAnswer' = Promise!Undef
    BY <1>3, <1>7, ShownNothing DEF Promise!Undef
  <2> QED BY <1>2, <1>4, <2>1 DEF Promise!Reply, Promise!Next
<1>8. CASE w = "sat" /\ ps \subseteq S /\ Consistent(all) /\ VarsIn(giv) \subseteq VarsOf(all) /\ Satisfies(all, giv)
  <2>1. Promise!IsSat(ans)
    BY <1>6, <1>8, SameWords DEF Promise!IsSat
  <2>2. Promise!IsSat(NamedAnswer')
    BY <1>5, <2>1
  <2> QED BY <1>2, <1>4, <2>2 DEF Promise!Reply, Promise!Next
<1>9. CASE w = "unsat" /\ S \subseteq {Neg(p) : p \in ps}
             /\ \A t \in TotalAssignments(Names) : Satisfies(t, giv) => S \cap t # {}
  <2>1. {Promise!Neg(p) : p \in ps} = {Neg(p) : p \in ps}
    BY SameWords
  <2>2. \A t \in Promise!TotalAssignments(Names) : Promise!Satisfies(t, giv) => S \cap t # {}
    BY <1>9, SameWords
  <2>3. Promise!IsUnsat(ans)
    BY <1>6, <1>9, <2>1, <2>2 DEF Promise!IsUnsat
  <2>4. Promise!IsUnsat(NamedAnswer')
    BY <1>5, <2>3
  <2> QED BY <1>2, <1>4, <2>4 DEF Promise!Reply, Promise!Next
<1> QED BY <1>7, <1>8, <1>9

\* There is no solution at all.
LEMMA NoneReplied ==
  ASSUME AnswerOK, phase # "idle", NEW s, Finish(s, Unsat({})), UNCHANGED userVars,
         NEW num, num = number, NEW giv, giv = given, NEW let, let = letGo,
         NEW t, ~t.ok, Serves(t, num, giv, let)
  PROVE  Promise!Next /\ AnswerOK'
<1>1. PICK D : D = {}
  OBVIOUS
<1>2. PICK ps, S, all : ps = question /\ S = Shown(num, let, D) /\ all = S \cup let
  OBVIOUS
<1>3. phase' = "idle" /\ number' = number /\ given' = given /\ letGo' = letGo /\ question' = question
  BY DEF Finish, userVars
<1>4. answer' = [is |-> "unsat", lits |-> D]
  BY <1>1 DEF Finish, Unsat
<1>5. \A x \in TotalAssignments(Names) : Satisfies(x, giv) => S \cap x # {}
  BY NoSolution
<1>6. S \subseteq {Neg(p) : p \in ps}
  BY <1>1, <1>2, ShownNothing
<1>7. PICK w : w = "unsat" /\ w # "pending"
  OBVIOUS
<1>8. \/ w = "undef" /\ D = {}
      \/ w = "sat" /\ ps \subseteq S /\ Consistent(all) /\ VarsIn(giv) \subseteq VarsOf(all) /\ Satisfies(all, giv)
      \/ w = "unsat" /\ S \subseteq {Neg(p) : p \in ps}
           /\ \A x \in TotalAssignments(Names) : Satisfies(x, giv) => S \cap x # {}
  BY <1>5, <1>6, <1>7
<1>9. answer' = [is |-> w, lits |-> D] /\ w # "pending"
  BY <1>4, <1>7
<1> QED BY <1>2, <1>3, <1>8, <1>9, Replied

\* The clauses are known to be contradictory.
LEMMA ContradictoryKept ==
  ASSUME SolverOK, AnswerOK, Contradictory, UNCHANGED userVars
  PROVE  Promise!Next /\ AnswerOK'
<1>1. PICK s, num, giv, let, scr : s = solver /\ num = number /\ giv = given /\ let = letGo /\ scr = script
  OBVIOUS
<1>2. phase # "idle" /\ ~s.ok /\ Finish(s, Unsat({}))
  BY <1>1 DEF Contradictory
<1>3. Serves(s, num, giv, let)
  BY <1>1 DEF SolverOK, Attends
<1> QED BY <1>1, <1>2, <1>3, NoneReplied

\* There is a conflict at level 0.
LEMMA RootConflictKept ==
  ASSUME SolverOK, AnswerOK, RootConflict, UNCHANGED userVars
  PROVE  Promise!Next /\ AnswerOK'
<1>1. PICK s, num, giv, let, scr : s = solver /\ num = number /\ giv = given /\ let = letGo /\ scr = script
  OBVIOUS
<1>2. PICK a, r, t : a = asked /\ r = confl /\ t = Finished(s, FALSE)
  OBVIOUS
<1>3. phase = "conflict" /\ Level(s) = 0 /\ Finish(s, Unsat({}))
  BY <1>1 DEF RootConflict
<1>4. Phased(s, phase, r, a) /\ Serves(s, num, giv, let)
  BY <1>1, <1>2 DEF SolverOK, Attends
<1>5. InConflict(s, a, r)
  BY <1>3, <1>4, PhaseIs
<1>6. Carries(s, t) /\ ~t.ok
  BY <1>2, <1>3, <1>5, RootConflictIs
<1>7. Serves(t, num, giv, let)
  BY <1>4, <1>6, Carried
<1>8. phase # "idle"
  BY <1>3
<1> QED BY <1>1, <1>3, <1>6, <1>7, <1>8, NoneReplied

\* The search is given up.
LEMMA AbandonKept ==
  ASSUME AnswerOK, Abandon, UNCHANGED userVars
  PROVE  Promise!Next /\ AnswerOK'
<1>1. PICK num, giv, let, ps : num = number /\ giv = given /\ let = letGo /\ ps = question
  OBVIOUS
<1>2. PICK S, all : S = Shown(num, let, {}) /\ all = S \cup let
  OBVIOUS
<1>3. phase # "idle" /\ phase' = "idle" /\ number' = number /\ given' = given /\ letGo' = letGo /\ question' = question
  BY DEF Abandon, Finish, userVars
<1>4. answer' = [is |-> "undef", lits |-> {}]
  BY DEF Abandon, Finish, Undef
<1>5. "undef" # "pending"
  OBVIOUS
<1> QED BY <1>1, <1>2, <1>3, <1>4, <1>5, Replied

\* The assumptions contradict the clauses.
LEMMA AssumptionFailsKept ==
  ASSUME SolverOK, AnswerOK, AssumptionFails, UNCHANGED userVars
  PROVE  Promise!Next /\ AnswerOK'
<1>1. PICK s, num, giv, let, a, ps : s = solver /\ num = number /\ giv = given /\ let = letGo /\ a = asked /\ ps = question
  OBVIOUS
<1>2. PICK u : u = AtAssumption
  OBVIOUS
<1>3. PICK p, x, D : p = a[Level(u) + 1] /\ x = Neg(p) /\ D = FinalConflict(u, x)
  OBVIOUS
<1>4. phase = "decide" /\ Level(u) < Len(a) /\ False(u, p) /\ Finish(u, Unsat(D))
  BY <1>1, <1>2, <1>3 DEF AssumptionFails
<1>5. u = LevelsFor(s, a)
  BY <1>1, <1>2, AtAssumptionIs
<1>6. Phased(s, phase, confl, a) /\ Serves(s, num, giv, let)
  BY <1>1 DEF SolverOK, Attends
<1>7. InSearch(s, a)
  BY <1>4, <1>6, PhaseIs
<1>8. Conflict(u, a, x, D) /\ Upholds(s, u)
  BY <1>3, <1>4, <1>5, <1>7, FailingIs
<1>9. Serves(u, num, giv, let)
  BY <1>6, <1>8, UpholdsCarries, Carried
<1>10. Asking(num, let, ps, a)
  BY <1>1, <1>4 DEF AnswerOK
<1>11. PICK S, all : S = Shown(num, let, D) /\ all = S \cup let
  OBVIOUS
<1>12. /\ S \subseteq {Neg(y) : y \in ps}
       /\ \A t \in TotalAssignments(Names) : Satisfies(t, giv) => S \cap t # {}
  BY <1>8, <1>9, <1>10, <1>11, FailedIs
<1>13. phase # "idle" /\ phase' = "idle" /\ number' = number /\ given' = given /\ letGo' = letGo /\ question' = question
  BY <1>4 DEF Finish, userVars
<1>14. answer' = [is |-> "unsat", lits |-> D]
  BY <1>4 DEF Finish, Unsat
<1>15. "unsat" # "pending"
  OBVIOUS
<1> QED BY <1>1, <1>11, <1>12, <1>13, <1>14, <1>15, Replied

\* A model is found.
LEMMA ModelFoundKept ==
  ASSUME SolverOK, AnswerOK, ModelFound, UNCHANGED userVars
  PROVE  Promise!Next /\ AnswerOK'
<1>1. PICK s, num, giv, let, a, ps : s = solver /\ num = number /\ giv = given /\ let = letGo /\ a = asked /\ ps = question
  OBVIOUS
<1>2. PICK u : u = AtAssumption
  OBVIOUS
<1>3. PICK w, D : w = [u EXCEPT !.heap = {}] /\ D = u.assigned
  OBVIOUS
<1>4. phase = "decide" /\ Level(u) >= Len(a) /\ (\A x \in u.heap : ~Open(u, x)) /\ Finish(w, Sat(D))
  BY <1>1, <1>2, <1>3 DEF ModelFound
<1>5. u = LevelsFor(s, a)
  BY <1>1, <1>2, AtAssumptionIs
<1>6. Phased(s, phase, confl, a) /\ Serves(s, num, giv, let)
  BY <1>1 DEF SolverOK, Attends
<1>7. InSearch(s, a)
  BY <1>4, <1>6, PhaseIs
<1>8. InSearch(u, a) /\ Upholds(s, u)
  BY <1>5, <1>7, LevelsIs
<1>9. Serves(u, num, giv, let)
  BY <1>6, <1>8, UpholdsCarries, Carried
<1>10. Asking(num, let, ps, a)
  BY <1>1, <1>4 DEF AnswerOK
<1>11. PICK S, all : S = Shown(num, let, D) /\ all = S \cup let
  OBVIOUS
<1>12. Books(u) /\ AwakeTo(u, Len(u.trail)) /\ u.ok /\ a \in Seq(AllLits) /\ AssumedOK(u, a)
  BY <1>8 DEF InSearch, Ready, Seeks, Asks
<1>13. ~(Len(u.lim) < Len(a))
  <2>1. PICK n \in Nat : n = Len(u.lim)
    BY <1>12, BooksAre, TypedIs
  <2>2. PICK N \in Nat : N = Len(a)
    BY <1>12
  <2> QED BY <1>4, <2>1, <2>2 DEF Level
<1>14. ps \subseteq S /\ Consistent(all) /\ VarsIn(giv) \subseteq VarsOf(all) /\ Satisfies(all, giv)
  BY <1>3, <1>4, <1>9, <1>10, <1>11, <1>12, <1>13, ModelShown
<1>15. phase # "idle" /\ phase' = "idle" /\ number' = number /\ given' = given /\ letGo' = letGo /\ question' = question
  BY <1>4 DEF Finish, userVars
<1>16. answer' = [is |-> "sat", lits |-> D]
  BY <1>4 DEF Finish, Sat
<1>17. "sat" # "pending"
  OBVIOUS
<1> QED BY SMTT(30), <1>1, <1>11, <1>14, <1>15, <1>16, <1>17, Replied

\* A step of the search that does not end it is none for the user.
LEMMA SearchUnseen ==
  ASSUME AnswerOK, phase # "idle", phase' # "idle", answer' = answer, asked' = asked, UNCHANGED userVars
  PROVE  UNCHANGED Promise!vars /\ AnswerOK'
<1>1. number' = number /\ given' = given /\ letGo' = letGo /\ question' = question
  BY DEF userVars
<1>2. NamedAnswer' = NamedAnswer
  BY <1>1 DEF NamedAnswer, LiveLits, NameLits, NameLit, NameOf
<1>3. answer' = Pending /\ Asking(number', letGo', question', asked')
  BY <1>1 DEF AnswerOK
<1>4. AnswerOK'
  BY <1>3 DEF AnswerOK
<1> QED BY <1>1, <1>2, <1>4 DEF Promise!vars

\* solve_() keeps the promise.
LEMMA SearchPromised ==
  ASSUME SolverOK, AnswerOK, Search, UNCHANGED userVars
  PROVE  (Promise!Next \/ UNCHANGED Promise!vars) /\ AnswerOK'
<1>1. CASE Contradictory
  BY <1>1, ContradictoryKept
<1>2. CASE RootConflict
  BY <1>2, RootConflictKept
<1>3. CASE Abandon
  BY <1>3, AbandonKept
<1>4. CASE AssumptionFails
  BY <1>4, AssumptionFailsKept
<1>5. CASE ModelFound
  BY <1>5, ModelFoundKept
<1>6. CASE PropagateAll
  <2>1. phase # "idle" /\ phase' # "idle" /\ answer' = answer /\ asked' = asked
    BY <1>6 DEF PropagateAll
  <2> QED BY <2>1, SearchUnseen
<1>7. CASE Learn
  <2>1. phase # "idle" /\ phase' # "idle" /\ answer' = answer /\ asked' = asked
    BY <1>7 DEF Learn
  <2> QED BY <2>1, SearchUnseen
<1>8. CASE Restart
  <2>1. phase # "idle" /\ phase' # "idle" /\ answer' = answer /\ asked' = asked
    BY <1>8 DEF Restart
  <2> QED BY <2>1, SearchUnseen
<1>9. CASE Prepare
  <2>1. phase # "idle" /\ phase' # "idle" /\ answer' = answer /\ asked' = asked
    BY <1>9 DEF Prepare
  <2> QED BY <2>1, SearchUnseen
<1>10. CASE Assume
  <2>1. phase # "idle" /\ phase' # "idle" /\ answer' = answer /\ asked' = asked
    BY <1>10 DEF Assume, Decide
  <2> QED BY <2>1, SearchUnseen
<1>11. CASE Branch
  <2>1. phase # "idle" /\ phase' # "idle" /\ answer' = answer /\ asked' = asked
    BY <1>11 DEF Branch, Decide
  <2> QED BY <2>1, SearchUnseen
<1>12. CASE Interrupt
  <2>1. phase # "idle" /\ phase' # "idle" /\ answer' = answer /\ asked' = asked
    BY <1>12 DEF Interrupt
  <2> QED BY <2>1, SearchUnseen
<1> QED BY <1>1, <1>2, <1>3, <1>4, <1>5, <1>6, <1>7, <1>8, <1>9, <1>10, <1>11, <1>12 DEF Search

\* What changes none of the variables an answer depends on.
LEMMA Unseen ==
  ASSUME AnswerOK, phase' = phase, answer' = answer, asked' = asked, UNCHANGED userVars
  PROVE  UNCHANGED Promise!vars /\ AnswerOK'
<1>1. number' = number /\ given' = given /\ letGo' = letGo /\ question' = question
  BY DEF userVars
<1>2. NamedAnswer' = NamedAnswer
  BY <1>1 DEF NamedAnswer, LiveLits, NameLits, NameLit, NameOf
<1>3. AnswerOK'
  BY <1>1 DEF AnswerOK
<1> QED BY <1>1, <1>2, <1>3 DEF Promise!vars

\* Every step is one the user was promised, or none.
LEMMA StepsPromised ==
  ASSUME \A s \in Scripts : ProperUse(s), SolverOK, AnswerOK, [Next]_vars
  PROVE  (Promise!Next \/ UNCHANGED Promise!vars) /\ AnswerOK'
<1>1. CASE CallNewVar
  BY <1>1, NewVarKept
<1>2. CASE CallAddClause
  BY <1>2, AddKept
<1>3. CASE CallReleaseVar
  BY <1>3, ReleaseKept
<1>4. CASE CallImplies
  BY <1>4, ImpliesKept
<1>5. CASE CallDimacs
  BY <1>5, DimacsKept
<1>6. CASE CallSolve
  BY <1>6, SolveKept
<1>7. CASE ClearInterrupt
  <2>1. phase' = phase /\ answer' = answer /\ asked' = asked /\ UNCHANGED userVars
    BY <1>7 DEF ClearInterrupt
  <2> QED BY <2>1, Unseen
<1>8. CASE Searching
  BY <1>8, SearchPromised DEF Searching
<1>9. CASE UNCHANGED vars
  <2>1. phase' = phase /\ answer' = answer /\ asked' = asked /\ UNCHANGED userVars
    BY <1>9 DEF vars, searchVars
  <2> QED BY <2>1, Unseen
<1> QED BY <1>1, <1>2, <1>3, <1>4, <1>5, <1>6, <1>7, <1>8, <1>9 DEF Next

\* At first nothing was asked.
LEMMA PromiseStarts ==
  ASSUME Init
  PROVE  Promise!Init /\ AnswerOK
<1>1. phase = "idle" /\ answer = Idle /\ given = {} /\ letGo = {} /\ question = {}
  BY DEF Init, InitSearch
<1>2. PICK num, let : num = number /\ let = letGo
  OBVIOUS
<1>3. answer = [is |-> "idle", lits |-> {}]
  BY <1>1 DEF Idle
<1>4. NamedAnswer = [is |-> "idle", lits |-> Shown(num, let, {})]
  BY ONLY <1>2, <1>3, NamedIs
<1>5. NamedAnswer = Promise!Idle
  BY <1>4, ShownNothing DEF Promise!Idle
<1>6. "idle" # "pending"
  OBVIOUS
<1>7. \E w, D : w # "pending" /\ answer = [is |-> w, lits |-> D]
  BY <1>3, <1>6
<1>8. AnswerOK
  BY <1>1, <1>7 DEF AnswerOK
<1> QED BY <1>1, <1>5, <1>8 DEF Promise!Init

\* Whatever is added, released and asked, solve() gives the answers a user of
\* a solver relies on: CDCL with restarts, learning, trimming and the reuse of
\* variables implements Query.
THEOREM AnswersAreRight ==
  ASSUME \A s \in Scripts : ProperUse(s)
  PROVE  Spec => AnswersRight
<1>1. Init => SolverOK /\ Promise!Init /\ AnswerOK
  BY SolverStarts, PromiseStarts
<1>2. SolverOK /\ AnswerOK /\ [Next]_vars => SolverOK' /\ AnswerOK' /\ [Promise!Next]_(Promise!vars)
  BY SolverSteps, StepsPromised
<1> QED BY <1>1, <1>2, PTL DEF Spec, AnswersRight, Promise!Spec

-----------------------------------------------------------------------------
(* DerivedIsRight: implies().                                              *)

\* Following unit clauses, wave by wave.
LEMMA WaveRounds ==
  ASSUME NEW cls, NEW ps, Cardinality(VarsIn(cls)) \in Nat
  PROVE  \E f, seq : Len(seq) \in Nat /\ Rounds(f, "wave", cls, ps, seq, UnitClosure(cls, ps))
<1> DEFINE last == Cardinality(VarsIn(cls)) + 1
           seq == [i \in 1..last |-> i]
<1>0. Len(seq) = last /\ last \in Nat
  OBVIOUS
<1> DEFINE D == 0..last
           g == CHOOSE f : f = [n \in D |-> IF n = 0 THEN ps ELSE f[n - 1] \cup UNION {Implied(d, f[n - 1]) : d \in cls}]
<1>1. UnitClosure(cls, ps) = g[last]
  BY DEF UnitClosure
<1> HIDE DEF seq, last
<1>2. \A x, y : Stepped("wave", cls, x, y) = x \cup UNION {Implied(d, x) : d \in cls}
  BY DEF Stepped
<1>3. \E f : f = [n \in D |-> IF n = 0 THEN ps ELSE f[n - 1] \cup UNION {Implied(d, f[n - 1]) : d \in cls}]
  <2>0. PICK f : IsLoop(f, "wave", cls, ps, seq)
    BY <1>0, RoundsExist
  <2>1. f = [i \in D |-> IF i = 0 THEN ps ELSE Stepped("wave", cls, f[i - 1], seq[i])]
    BY <1>0, <2>0 DEF IsLoop
  <2> HIDE DEF D
  <2>2. f = [i \in D |-> IF i = 0 THEN ps ELSE f[i - 1] \cup UNION {Implied(d, f[i - 1]) : d \in cls}]
    BY <1>2, <2>1, Zenon
  <2> QED BY <2>2
<1>4. g = [n \in D |-> IF n = 0 THEN ps ELSE g[n - 1] \cup UNION {Implied(d, g[n - 1]) : d \in cls}]
  BY <1>3
<1> HIDE DEF g
<1>5. 0 \in D /\ \A i \in 1..last : i \in D /\ i # 0
  BY <1>0
<1> HIDE DEF D
<1>6. g[0] = ps /\ \A i \in 1..last : g[i] = g[i - 1] \cup UNION {Implied(d, g[i - 1]) : d \in cls}
  BY <1>4, <1>5
<1>7. \A i \in 1..last : g[i] = Stepped("wave", cls, g[i - 1], seq[i])
  BY <1>2, <1>6
<1>8. Rounds(g, "wave", cls, ps, seq, UnitClosure(cls, ps))
  BY <1>0, <1>1, <1>6, <1>7 DEF Rounds
<1> QED BY <1>0, <1>8

\* What is closed under unit clauses has all that they tell.
LEMMA ClosureWithin ==
  ASSUME NEW cls, Cardinality(VarsIn(cls)) \in Nat, NEW K, NEW ps, ps \subseteq K,
         \A c \in cls : Implied(c, K) \subseteq K
  PROVE  UnitClosure(cls, ps) \subseteq K
<1>1. PICK f, seq : Len(seq) \in Nat /\ Rounds(f, "wave", cls, ps, seq, UnitClosure(cls, ps))
  BY WaveRounds
<1>2. PICK N \in Nat : N = Len(seq)
  BY <1>1
<1> DEFINE S == {n \in 0..N : f[n] \subseteq K}
<1>3. 0 \in S
  BY <1>1, <1>2 DEF Rounds
<1>4. \A n \in 0..N : n \in S /\ n # N => n + 1 \in S
  <2> SUFFICES ASSUME NEW n \in 0..N, n \in S, n # N PROVE f[n + 1] \subseteq K
    OBVIOUS
  <2>1. n + 1 \in 1..Len(seq) /\ (n + 1) - 1 = n
    BY <1>2
  <2>2. f[n + 1] = Stepped("wave", cls, f[n], seq[n + 1])
    BY <1>1, <2>1 DEF Rounds
  <2>3. f[n + 1] = f[n] \cup UNION {Implied(d, f[n]) : d \in cls}
    BY <2>2 DEF Stepped
  <2>4. \A d \in cls : Implied(d, f[n]) \subseteq Implied(d, K)
    BY DEF Implied
  <2> QED BY <2>3, <2>4
<1>5. 0..N \subseteq S
  <2> HIDE DEF S
  <2> QED BY <1>3, <1>4, UpTo
<1>6. f[N] \subseteq K
  BY <1>5
<1> QED BY <1>1, <1>2, <1>6 DEF Rounds

\* u is the solver implies() found consequences in, t the one it leaves behind.
Consequences(s, a, u, t, lits) ==
  /\ Books(u) /\ Grows(s, u) /\ u.learnts = s.learnts /\ u.nextVar = s.nextVar
  /\ u.free = s.free /\ u.released = s.released /\ u.ok = s.ok /\ t.ok = s.ok
  /\ t.assigned \subseteq u.assigned /\ lits \subseteq u.assigned
  /\ \A i \in 1..Len(a) : a[i] \in u.assigned
  /\ \A q \in u.assigned : IsFree(u, q[1]) \/ q \in t.assigned \cup lits \/ \E i \in 1..Len(a) : a[i] = q

\* Whatever is assigned under the assumptions is left behind, is answered or is
\* an assumption.
LEMMA DerivedHas ==
  ASSUME NEW s, Resting(s), NEW a \in Seq(AllLits), \A i \in 1..Len(a) : Usable(s, a[i]),
         NEW e, NEW y, Derived(s, a, e, y),
         NEW u, u = y.s, NEW t, t = CancelUntil(u, 0),
         NEW lits, lits = Range(SubSeq(u.trail, Len(e.trail) + 1, Len(u.trail)))
  PROVE  Consequences(s, a, u, t, lits)
<1>1. Books(s) /\ s.qhead = Len(s.trail) /\ Typed(s) /\ Len(s.trail) \in Nat /\ Len(s.lim) = 0
  BY BooksAre, TypedIs DEF Resting
<1>2. PICK d : d = NewDecisionLevel(s)
  OBVIOUS
<1>3. OneLevelMore(s, d)
  BY <1>1, <1>2, NewLevelBooks
<1>4. /\ Books(d) /\ Typed(d) /\ Grows(s, d) /\ d.learnts = s.learnts /\ d.trail = s.trail /\ d.nextVar = s.nextVar
      /\ d.free = s.free /\ d.released = s.released /\ d.ok = s.ok /\ d.assigned = s.assigned
  BY <1>3, BooksAre DEF OneLevelMore
<1>5. Assuming(d, a, e, Len(a))
  BY <1>2 DEF Derived
<1>6. /\ Books(e) /\ Typed(e) /\ Grows(d, e) /\ e.learnts = d.learnts /\ e.nextVar = d.nextVar
      /\ e.free = d.free /\ e.released = d.released /\ e.ok = d.ok
      /\ (\A p : p \in e.assigned <=> p \in d.assigned \/ \E i \in 1..Len(a) : a[i] = p)
      /\ \A k \in (Len(d.trail) + 1)..Len(e.trail) : \E i \in 1..Len(a) : a[i] = e.trail[k]
  BY <1>5, BooksAre DEF Assuming
<1>7. Extends(e, u) /\ Books(u) /\ Typed(u) /\ TrailOK(u) /\ FreeOK(u)
  BY BooksAre DEF Derived, Propagating
<1>8. /\ Grows(e, u) /\ u.learnts = e.learnts /\ u.nextVar = e.nextVar
      /\ u.free = e.free /\ u.released = e.released /\ u.ok = e.ok
  BY <1>7 DEF Extends
<1>9. Grows(s, e)
  BY <1>1, <1>4, <1>6, GrowsTwice
<1>10. Grows(s, u)
  BY <1>1, <1>6, <1>7, <1>8, <1>9, GrowsTwice
<1>11. Undisturbed(s, t)
  BY DEF Derived
<1>12. Books(t) /\ TrailOK(t) /\ Grows(s, t) /\ t.ok = s.ok
  BY <1>11, BooksAre DEF Undisturbed, Resting
<1>13. Cancelled(u, 0, t)
  BY <1>7, CancelBooks
<1>14. t.assigned \subseteq u.assigned
  <2>1. CASE Len(u.lim) > 0
    <3>1. PICK n : n = u.lim[0 + 1]
      OBVIOUS
    <3>2. CancelledTo(u, 0, n, t)
      BY <1>7, <2>1, <3>1, CancelFields
    <3> QED BY <3>2 DEF CancelledTo
  <2>2. CASE ~(Len(u.lim) > 0)
    BY <1>13, <2>2 DEF Cancelled
  <2> QED BY <2>1, <2>2
<1>15. PICK N, n, M : N = Len(s.trail) /\ n = Len(e.trail) /\ M = Len(u.trail)
  OBVIOUS
<1>16. N \in Nat /\ n \in Nat /\ M \in Nat /\ N <= n /\ n <= M /\ n \in 0..M
  BY <1>1, <1>6, <1>7, <1>8, <1>9, <1>15, TypedIs DEF Grows
<1>17. lits = {u.trail[i] : i \in (n + 1)..M}
  <2>1. PICK tr : tr = u.trail
    OBVIOUS
  <2>2. tr \in Seq(AllLits) /\ n \in 0..Len(tr)
    BY <1>7, <1>15, <1>16, <2>1, TypedIs
  <2>3. PICK rest : rest = SubSeq(tr, n + 1, Len(tr))
    OBVIOUS
  <2>4. Range(rest) = {tr[i] : i \in (n + 1)..Len(tr)}
    BY <2>2, <2>3, RestRange
  <2> QED BY <1>15, <2>1, <2>3, <2>4
<1>18. lits \subseteq u.assigned
  <2> SUFFICES ASSUME NEW i \in (n + 1)..M PROVE u.trail[i] \in u.assigned
    BY <1>17
  <2>1. i \in 1..Len(u.trail)
    BY <1>15, <1>16
  <2> QED BY <1>7, <2>1 DEF TrailOK
<1>19. ASSUME NEW i \in 1..Len(a) PROVE a[i] \in u.assigned
  <2>1. a[i] \in e.assigned /\ TrailOK(e) /\ FreeOK(e)
    BY <1>6, BooksAre
  <2>2. CASE OnTrail(e, a[i])
    <3>1. PICK k \in 1..n : e.trail[k] = a[i]
      BY <1>15, <2>2 DEF OnTrail
    <3>2. u.trail[k] = a[i] /\ k \in 1..Len(u.trail)
      BY <1>8, <1>15, <1>16, <3>1 DEF Grows
    <3> QED BY <1>7, <3>2 DEF TrailOK
  <2>3. ~IsFree(e, a[i][1])
    BY <1>4, <1>6 DEF Usable, IsFree
  <2> QED BY <2>1, <2>2, <2>3 DEF TrailOK
<1>20. ASSUME NEW q \in u.assigned, ~IsFree(u, q[1])
       PROVE  q \in t.assigned \cup lits \/ \E i \in 1..Len(a) : a[i] = q
  <2>1. PICK k \in 1..M : u.trail[k] = q
    BY <1>7, <1>15, <1>20 DEF TrailOK, OnTrail
  <2>2. k \in 1..N \/ k \in (N + 1)..n \/ k \in (n + 1)..M
    BY <1>16
  <2>3. CASE k \in 1..N
    <3>1. k \in 1..Len(t.trail) /\ t.trail[k] = s.trail[k] /\ u.trail[k] = s.trail[k]
      <4>1. Len(t.trail) \in Nat
        BY <1>12, BooksAre, TypedIs
      <4> QED BY <1>10, <1>12, <1>15, <1>16, <2>3, <4>1 DEF Grows
    <3> QED BY <1>12, <2>1, <3>1 DEF TrailOK
  <2>4. CASE k \in (N + 1)..n
    <3>1. k \in (Len(d.trail) + 1)..Len(e.trail) /\ k \in 1..Len(e.trail)
      BY <1>4, <1>15, <1>16, <2>4
    <3>2. u.trail[k] = e.trail[k]
      BY <1>8, <3>1 DEF Grows
    <3> QED BY <1>6, <2>1, <3>1, <3>2
  <2>5. CASE k \in (n + 1)..M
    BY <1>17, <2>1, <2>5
  <2> QED BY <2>2, <2>3, <2>4, <2>5
<1> QED BY <1>4, <1>6, <1>7, <1>8, <1>10, <1>12, <1>14, <1>18, <1>19, <1>20 DEF Consequences

\* Once propagation is done, a clause that is kept has no last literal that is
\* not true: what remains of it when all others are false is true.
LEMMA LastLiteral ==
  ASSUME NEW u, Books(u), AwakeTo(u, Len(u.trail)), NEW lits, lits \subseteq AllLits, Keeping(u, lits),
         NEW p \in lits, \A q \in lits : q # p => False(u, q)
  PROVE  p \in u.assigned
<1>1. TrailOK(u) /\ Typed(u)
  BY BooksAre
<1>2. \A q \in lits : q \in u.assigned => q = p
  BY <1>1 DEF TrailOK, False
<1>3. ASSUME NEW q \in lits, Neg(q) \in lits PROVE p \in u.assigned
  <2>1. q \in AllLits /\ Neg(q) \in AllLits /\ Neg(Neg(q)) = q /\ Neg(q) # q
    BY <1>3, Literals
  <2>2. CASE q = p
    <3>1. False(u, Neg(q))
      BY <1>3, <2>1, <2>2
    <3> QED BY <2>1, <2>2, <3>1 DEF False
  <2>3. CASE q # p
    <3>1. Neg(q) \in u.assigned
      BY <2>3 DEF False
    <3> QED BY <1>2, <1>3, <3>1
  <2> QED BY <2>2, <2>3
<1>4. ASSUME NEW q \in lits, AtRoot(u, q) PROVE p \in u.assigned
  <2>1. q \in u.assigned
    BY <1>1, <1>4 DEF AtRoot, TrailOK
  <2> QED BY <1>2, <2>1
<1>5. ASSUME NEW r \in Originals(u), \A k \in 1..Len(u.clause[r]) : u.clause[r][k] \in lits PROVE p \in u.assigned
  <2>1. r \in DOMAIN u.clause
    BY DEF Originals
  <2>2. PICK c : c = Range(u.clause[r])
    OBVIOUS
  <2>3. PICK d \in ClauseSeq : d = u.clause[r]
    BY <1>1, <2>1, TypedIs
  <2>4. c \subseteq lits
    <3>1. DOMAIN d = 1..Len(d)
      BY ClauseIs
    <3> QED BY <1>5, <2>2, <2>3, <3>1 DEF Range
  <2>5. c \cap u.assigned # {} \/ Cardinality({q \in c : ~False(u, q)}) > 1
    BY <2>1, <2>2, PropagatedIs
  <2>6. CASE c \cap u.assigned # {}
    BY <1>2, <2>4, <2>6
  <2>7. CASE Cardinality({q \in c : ~False(u, q)}) > 1
    <3>1. PICK A : A = {q \in c : ~False(u, q)}
      OBVIOUS
    <3>2. A \in SUBSET {p}
      BY <2>4, <3>1
    <3>3. IsFiniteSet({p}) /\ Cardinality({p}) = 1
      BY FS_Singleton
    <3>4. IsFiniteSet(A) /\ Cardinality(A) <= Cardinality({p})
      BY ONLY <3>2, <3>3, FS_Subset
    <3>5. PICK k : k = Cardinality(A)
      OBVIOUS
    <3>6. k > 1 /\ k <= 1
      BY <2>7, <3>1, <3>3, <3>4, <3>5
    <3>7. k \in Nat
      BY ONLY <3>4, <3>5, FS_CardinalityType
    <3> QED BY <3>6, <3>7
  <2> QED BY <2>5, <2>6, <2>7
<1> QED BY <1>3, <1>4, <1>5 DEF Keeping

\* z names a literal in use that solver u has made true.
Valued(num, let, u, z) ==
  /\ z[1] \in DOMAIN num /\ z[1] \notin VarsOf(let) /\ z[2] \in BOOLEAN /\ z = <<z[1], z[2]>>
  /\ LitOf(num, z) \in u.assigned

\* What the user knows after implies(): what it said, asked, and was told.
Knowing(num, let, asg, of) == Shown(num, let, asg) \cup of \cup let

\* Names keep their meaning in a solver with the same variables.
LEMMA NamingSame ==
  ASSUME NEW s, NEW u, u.nextVar = s.nextVar, u.free = s.free, u.released = s.released, u.ok = s.ok,
         NEW num, NEW giv, NEW let, Naming(s, num, giv, let)
  PROVE  Naming(u, num, giv, let)
<1>1. \A v : (IsFree(u, v) <=> IsFree(s, v)) /\ (InReleased(u, v) <=> InReleased(s, v))
  BY DEF IsFree, InReleased
<1>2. ASSUME NEW n \in DOMAIN num PROVE num[n] \in Vars /\ num[n] < u.nextVar
  BY DEF Naming
<1>3. ASSUME NEW v \in Vars, v < u.nextVar PROVE \E n \in DOMAIN num : NameIs(num, v, n)
  BY <1>3 DEF Naming
<1>4. ASSUME NEW n \in DOMAIN num \ VarsOf(let)
      PROVE  NameIs(num, num[n], n) /\ ~IsFree(u, num[n]) /\ (u.ok => ~InReleased(u, num[n]))
  BY <1>1 DEF Naming
<1>5. DOMAIN num \subseteq Names
  BY DEF Naming
<1> QED BY <1>2, <1>3, <1>4, <1>5 DEF Naming

\* What is known is what was let go and what the solver made true.
LEMMA KnownIs ==
  ASSUME NEW s, NEW num, NEW giv, NEW let, Naming(s, num, giv, let),
         NEW P, NEW a, Asking(num, let, P, a),
         NEW u, NEW t, NEW lits, Consequences(s, a, u, t, lits), NEW K, K = Knowing(num, let, t.assigned \cup lits, P)
  PROVE  \A z : z \in K <=> z \in let \/ Valued(num, let, u, z)
<1>1. Naming(u, num, giv, let)
  BY NamingSame DEF Consequences
<1>2. Books(u) /\ t.assigned \cup lits \subseteq u.assigned /\ (\A i \in 1..Len(a) : a[i] \in u.assigned)
      /\ \A q \in u.assigned : IsFree(u, q[1]) \/ q \in t.assigned \cup lits \/ \E i \in 1..Len(a) : a[i] = q
  BY DEF Consequences
<1>3. DOMAIN num \subseteq Nat
  BY <1>1, NamesAreNumbers
<1>4. P \subseteq LitsOf(DOMAIN num \ VarsOf(let))
      /\ \A q : (\E i \in 1..Len(a) : q = a[i]) <=> (\E p \in P : q = LitOf(num, p))
  BY DEF Asking
<1>5. ASSUME NEW z \in Shown(num, let, t.assigned \cup lits) PROVE Valued(num, let, u, z)
  <2>1. PICK S : S = Shown(num, let, u.assigned)
    OBVIOUS
  <2>2. z \in S
    BY <1>2, <2>1 DEF Shown
  <2>3. z[1] \in DOMAIN num /\ z[1] \notin VarsOf(let) /\ \E q \in u.assigned : q \in AllLits /\ q[1] = num[z[1]] /\ q[2] = z[2]
    BY <1>1, <1>2, <2>1, <2>2, ShownOf
  <2>4. PICK q \in u.assigned : q \in AllLits /\ q[1] = num[z[1]] /\ q[2] = z[2]
    BY <2>3
  <2>5. q = LitOf(num, z) /\ z[2] \in BOOLEAN
    BY <2>4 DEF LitOf, AllLits, LitsOf
  <2>6. z = <<z[1], z[2]>>
    BY DEF Shown
  <2> QED BY <2>3, <2>4, <2>5, <2>6 DEF Valued
<1>6. ASSUME NEW z \in P PROVE Valued(num, let, u, z)
  <2>1. z[1] \in DOMAIN num /\ z[1] \notin VarsOf(let) /\ z[2] \in BOOLEAN /\ z = <<z[1], z[2]>>
    BY <1>1, <1>4, LiveLitsIs
  <2>2. LitOf(num, z) \in u.assigned
    BY <1>2, <1>4
  <2> QED BY <2>1, <2>2 DEF Valued
<1>7. ASSUME NEW z, Valued(num, let, u, z) PROVE z \in K
  <2>1. PICK q : q = LitOf(num, z)
    OBVIOUS
  <2>2. PICK n : n = z[1]
    OBVIOUS
  <2>3. /\ n \in DOMAIN num /\ n \notin VarsOf(let) /\ z = <<n, z[2]>>
        /\ q \in u.assigned /\ q[1] = num[n] /\ q[2] = z[2]
    BY <1>7, <2>1, <2>2 DEF Valued, LitOf
  <2>4. NameIs(num, q[1], n) /\ ~IsFree(u, q[1])
    BY <1>1, <2>3 DEF Naming
  <2>5. CASE q \in t.assigned \cup lits
    <3>1. PICK S : S = t.assigned \cup lits
      OBVIOUS
    <3>2. q \in S
      BY <2>5, <3>1
    <3>3. <<n, q[2]>> \in Shown(num, let, S)
      BY ONLY <1>3, <2>3, <2>4, <3>2, ShownIs
    <3> QED BY <2>3, <3>1, <3>3 DEF Knowing
  <2>6. CASE \E i \in 1..Len(a) : a[i] = q
    <3>1. PICK p \in P : q = LitOf(num, p)
      BY <1>4, <2>6
    <3>2. p[1] \in DOMAIN num /\ p = <<p[1], p[2]>> /\ NameIs(num, num[p[1]], p[1])
      BY SMTT(30), <1>1, <1>4, LiveLitsIs
    <3>3. num[p[1]] = q[1] /\ p[2] = q[2]
      BY <3>1 DEF LitOf
    <3>4. p[1] = n
      BY <1>3, <2>4, <3>2, <3>3, NameOne
    <3>5. p = z
      BY <2>3, <3>2, <3>3, <3>4
    <3> QED BY <3>5 DEF Knowing
  <2> QED BY <1>2, <2>3, <2>4, <2>5, <2>6
<1> QED BY <1>5, <1>6, <1>7 DEF Knowing

\* What is known does not contradict itself, ...
LEMMA KnownConsistent ==
  ASSUME NEW num, NEW giv, NEW let, Speaking(num, giv, let), NEW u, Books(u),
         NEW K, \A z : z \in K <=> z \in let \/ Valued(num, let, u, z)
  PROVE  Consistent(K)
<1>1. TrailOK(u)
  BY BooksAre
<1> SUFFICES ASSUME NEW z \in K, Neg(z) \in K PROVE FALSE
  BY DEF Consistent
<1>2. PICK r : r = Neg(z)
  OBVIOUS
<1>3. r[1] = z[1] /\ r[2] = ~z[2] /\ r \in K
  BY <1>2 DEF Neg
<1>4. CASE z \in let /\ r \in let
  BY <1>2, <1>4 DEF Speaking, Said
<1>5. CASE z \in let /\ Valued(num, let, u, r)
  BY <1>3, <1>5 DEF Valued, VarsOf
<1>6. CASE Valued(num, let, u, z) /\ r \in let
  <2>1. r[1] \in VarsOf(let)
    BY <1>6 DEF VarsOf
  <2> QED BY <1>3, <1>6, <2>1 DEF Valued
<1>7. CASE Valued(num, let, u, z) /\ Valued(num, let, u, r)
  <2>1. LitOf(num, z) \in u.assigned /\ LitOf(num, r) \in u.assigned
    BY <1>7 DEF Valued
  <2>2. LitOf(num, r) = Neg(LitOf(num, z))
    BY <1>3 DEF LitOf, Neg
  <2> QED BY <1>1, <2>1, <2>2 DEF TrailOK
<1> QED BY <1>3, <1>4, <1>5, <1>6, <1>7

\* ... and unit clauses tell nothing more.
LEMMA KnownClosed ==
  ASSUME NEW s, NEW num, NEW giv, NEW let, Serves(s, num, giv, let), Typed(s), s.ok,
         NEW u, Books(u), AwakeTo(u, Len(u.trail)), Grows(s, u), u.learnts = s.learnts,
         NEW K, \A z : z \in K <=> z \in let \/ Valued(num, let, u, z), Consistent(K),
         NEW g \in giv, NEW p \in g, \A q \in g : q # p => Neg(q) \in K
  PROVE  p \in K
<1>1. Speaking(num, giv, let) /\ Kept(s, num, giv, let) /\ Naming(s, num, giv, let) /\ Typed(u)
  BY BooksAre DEF Serves
<1>2. ASSUME NEW w \in g, w \in let PROVE p \in K
  <2>1. CASE w = p
    BY <1>2, <2>1
  <2>2. CASE w # p
    BY <1>2, <2>2 DEF Consistent
  <2> QED BY <2>1, <2>2
<1>3. ASSUME g \cap let = {}, Keeping(s, LitsFor(num, g)) PROVE p \in K
  <2>1. g \subseteq LitsOf(DOMAIN num \ VarsOf(let))
    <3> SUFFICES ASSUME NEW x \in g PROVE x \in LitsOf(DOMAIN num \ VarsOf(let))
      OBVIOUS
    <3>1. x \in LitsOf(DOMAIN num) /\ x \in Said(giv, let)
      BY <1>1 DEF Speaking, Said
    <3>2. x[1] \notin VarsOf(let)
      BY <1>1, <1>3, <3>1, SaidOnce
    <3> QED BY <3>1, <3>2 DEF LitsOf
  <2>2. PICK L : L = LitsFor(num, g)
    OBVIOUS
  <2>3. L \subseteq AllLits
    BY <1>1, <2>1, <2>2, LiveLitsIs
  <2>4. Keeping(u, L)
    BY <1>1, <1>3, <2>2, GrowsKept
  <2>5. \A x \in g : x[1] \in DOMAIN num /\ x[1] \notin VarsOf(let) /\ x[2] \in BOOLEAN /\ x = <<x[1], x[2]>>
    BY <1>1, <2>1, LiveLitsIs
  <2>6. PICK l : l = LitOf(num, p)
    OBVIOUS
  <2>7. l \in L
    BY <2>2, <2>6 DEF LitsFor
  <2>8. ASSUME NEW m \in L, m # l PROVE False(u, m)
    <3>1. PICK x \in g : m = LitOf(num, x)
      BY <2>2 DEF LitsFor
    <3>2. x # p /\ Neg(x) \in K
      BY <2>6, <2>8, <3>1
    <3>3. Neg(x)[1] = x[1] /\ Neg(x)[2] = ~x[2]
      BY DEF Neg
    <3>4. Neg(x) \notin let
      BY <2>5, <3>3 DEF VarsOf
    <3>5. LitOf(num, Neg(x)) \in u.assigned
      BY <3>2, <3>4 DEF Valued
    <3>6. LitOf(num, Neg(x)) = Neg(m)
      BY <3>1, <3>3 DEF LitOf, Neg
    <3> QED BY <3>5, <3>6 DEF False
  <2>9. l \in u.assigned
    BY <2>3, <2>4, <2>7, <2>8, LastLiteral
  <2>10. Valued(num, let, u, p)
    BY <2>5, <2>6, <2>9 DEF Valued
  <2> QED BY <2>10
<1> QED BY <1>1, <1>2, <1>3 DEF Kept

\* An answer of implies() is right: what is known after it is consistent, and
\* all unit clauses tell, and what it returned is in every solution that agrees
\* with the assumptions; there is none if it found a contradiction.
ImpliedRight(num, giv, let, s, im) ==
  IF im.ok
  THEN /\ Consistent(Knowing(num, let, s.assigned \cup im.lits, im.of))
       /\ s.ok => UnitClosure(giv, im.of) \subseteq Knowing(num, let, s.assigned \cup im.lits, im.of)
       /\ \A t : Solves(num, giv, let, t) /\ im.of \subseteq t =>
            \A q \in im.lits : <<NameFor(num, q[1]), q[2]>> \in t
  ELSE \A t : Solves(num, giv, let, t) => ~(im.of \subseteq t)

\* A solution of what was given is a model, with all that was asked.
LEMMA ModelAsked ==
  ASSUME NEW s, NEW num, NEW giv, NEW let, Serves(s, num, giv, let),
         NEW P, NEW a, Asking(num, let, P, a), NEW t, Solves(num, giv, let, t), P \subseteq t, NEW m, m = ModelOf(num, t)
  PROVE  m \in Models /\ s.ok /\ Means(s, m) /\ \A i \in 1..Len(a) : a[i] \in m
<1>1. Naming(s, num, giv, let) /\ Sound(s, num, giv, let)
  BY DEF Serves
<1>2. DOMAIN num \subseteq Nat
  BY <1>1, NamesAreNumbers
<1>3. m \in Models
  BY <1>2, ModelOfIs DEF Solves
<1>4. s.ok /\ Means(s, m)
  BY <1>1 DEF Sound
<1>5. ASSUME NEW i \in 1..Len(a) PROVE a[i] \in m
  <2>1. PICK p \in P : a[i] = LitOf(num, p)
    BY DEF Asking
  <2>2. P \subseteq LitsOf(DOMAIN num \ VarsOf(let))
    BY DEF Asking
  <2>3. p[1] \in DOMAIN num /\ p[2] \in BOOLEAN /\ p = <<p[1], p[2]>> /\ NameIs(num, num[p[1]], p[1])
    BY <1>1, <2>2, LiveLitsIs
  <2>4. PICK v, n, b : v = num[p[1]] /\ n = p[1] /\ b = p[2]
    OBVIOUS
  <2>5. v \in Vars /\ b \in BOOLEAN /\ NameIs(num, v, n) /\ <<n, b>> \in t /\ a[i] = <<v, b>>
    BY <1>1, <2>1, <2>3, <2>4 DEF Naming, LitOf
  <2> QED BY <1>2, <2>5, ModelHas
<1> QED BY <1>3, <1>4, <1>5

\* What implies() returns is in every solution.
LEMMA ReturnedHolds ==
  ASSUME NEW s, Books(s), NEW num, NEW giv, NEW let, Naming(s, num, giv, let), NEW t,
         NEW q, q \in ModelOf(num, t), q[1] < s.nextVar
  PROVE  <<NameFor(num, q[1]), q[2]>> \in t
<1>1. DOMAIN num \subseteq Nat
  BY NamesAreNumbers
<1>2. q \in AllLits
  BY DEF ModelOf
<1>3. q[1] \in Vars
  BY <1>2, Literals
<1>4. PICK n : NameIs(num, q[1], n)
  BY <1>3 DEF Naming
<1>5. NameFor(num, q[1]) = n
  BY <1>1, <1>4, NameForIs
<1>6. PICK v \in Vars, b \in BOOLEAN : q = <<v, b>> /\ q[1] = v /\ q[2] = b
  BY <1>2 DEF AllLits, LitsOf
<1>7. <<n, b>> \in t
  BY <1>1, <1>4, <1>6, ModelHas
<1> QED BY <1>5, <1>6, <1>7

\* implies() answers right.
LEMMA ImpliesAnswers ==
  ASSUME NEW s, InIdle(s), NEW num, NEW giv, NEW let, Serves(s, num, giv, let), Cardinality(VarsIn(giv)) \in Nat,
         NEW P, NEW a, Asking(num, let, P, a), a \in Seq(AllLits), \A i \in 1..Len(a) : Usable(s, a[i]),
         NEW x, x = Implies(s, a), NEW im, im = [of |-> P, ok |-> x.ok, lits |-> x.lits]
  PROVE  ImpliedRight(num, giv, let, x.s, im)
<1>1. Resting(s) /\ Books(s) /\ Typed(s) /\ DOMAIN a = 1..Len(a)
  BY BooksAre DEF InIdle, Resting
<1>2. Naming(s, num, giv, let) /\ Speaking(num, giv, let)
  BY DEF Serves
<1>3. Implying(s, a, x)
  BY <1>1, ImpliesIs
<1>4. im.of = P /\ im.ok = x.ok /\ im.lits = x.lits
  OBVIOUS
<1>5. ASSUME NEW t, Solves(num, giv, let, t), P \subseteq t PROVE x.ok /\ x.lits \subseteq ModelOf(num, t)
  <2>1. PICK m : m = ModelOf(num, t)
    OBVIOUS
  <2>2. m \in Models /\ Means(s, m) /\ \A i \in 1..Len(a) : a[i] \in m
    BY <1>5, <2>1, ModelAsked
  <2> QED BY <1>3, <2>1, <2>2 DEF Implying
<1>6. ASSUME ~Unopposed(s, a), x = [s |-> s, ok |-> FALSE, lits |-> {}] PROVE ImpliedRight(num, giv, let, x.s, im)
  <2>1. ~im.ok
    BY <1>4, <1>6
  <2>2. \A t : Solves(num, giv, let, t) => ~(P \subseteq t)
    BY <1>4, <1>5, <2>1
  <2> QED BY <1>4, <2>1, <2>2 DEF ImpliedRight
<1>7. ASSUME NEW e, NEW y, Deriving(s, a, e, y),
             x = [s    |-> CancelUntil(y.s, 0),
                  ok   |-> y.confl = NoClause,
                  lits |-> Range(SubSeq(y.s.trail, Len(e.trail) + 1, Len(y.s.trail)))]
      PROVE  ImpliedRight(num, giv, let, x.s, im)
  <2>1. Derived(s, a, e, y)
    BY <1>1, <1>7, DerivingIs
  <2>2. PICK u, t, lits : u = y.s /\ t = CancelUntil(u, 0) /\ lits = Range(SubSeq(u.trail, Len(e.trail) + 1, Len(u.trail)))
    OBVIOUS
  <2>3. x.s = t /\ x.lits = lits /\ x.ok = (y.confl = NoClause)
    BY <1>7, <2>2
  <2>4. Consequences(s, a, u, t, lits)
    BY <1>1, <2>1, <2>2, DerivedHas
  <2>5. PICK K : K = Knowing(num, let, t.assigned \cup lits, P)
    OBVIOUS
  <2>6. \A z : z \in K <=> z \in let \/ Valued(num, let, u, z)
    BY <1>2, <2>4, <2>5, KnownIs
  <2>7. /\ Books(u) /\ Grows(s, u) /\ u.learnts = s.learnts /\ t.ok = s.ok
        /\ lits \subseteq u.assigned /\ TrailOK(u) /\ FreeOK(u) /\ u.nextVar = s.nextVar
    BY <2>4, BooksAre DEF Consequences
  <2>8. Consistent(K)
    BY <1>2, <2>6, <2>7, KnownConsistent
  <2>9. ASSUME y.confl = NoClause, s.ok PROVE UnitClosure(giv, P) \subseteq K
    <3>1. AwakeTo(u, Len(u.trail))
      BY <1>1, <2>1, <2>2, <2>9 DEF Derived, Resting
    <3>2. ASSUME NEW g \in giv PROVE Implied(g, K) \subseteq K
      <4> SUFFICES ASSUME NEW p \in Implied(g, K) PROVE p \in K
        OBVIOUS
      <4>1. p \in g /\ \A q \in g : q # p => Neg(q) \in K
        BY DEF Implied
      <4> QED BY <1>1, <2>6, <2>7, <2>8, <2>9, <3>1, <4>1, KnownClosed
    <3>3. P \subseteq K
      BY <2>5 DEF Knowing
    <3> QED BY ONLY <3>2, <3>3, ClosureWithin, Cardinality(VarsIn(giv)) \in Nat
  <2>10. ASSUME NEW m, Solves(num, giv, let, m), P \subseteq m, NEW q \in lits PROVE <<NameFor(num, q[1]), q[2]>> \in m
    <3>1. q \in ModelOf(num, m)
      BY <1>5, <2>3, <2>10
    <3>2. q \in u.assigned
      BY <2>7
    <3>3. q[1] < u.nextVar
      <4>1. CASE OnTrail(u, q)
        BY <2>7, <4>1 DEF OnTrail, TrailOK, Usable
      <4>2. CASE IsFree(u, q[1])
        BY <2>7, <4>2 DEF IsFree, FreeOK
      <4> QED BY <2>7, <3>2, <4>1, <4>2 DEF TrailOK
    <3>4. q[1] < s.nextVar
      BY <2>7, <3>3
    <3> QED BY <1>1, <1>2, <3>1, <3>4, ReturnedHolds
  <2>11. CASE x.ok
    <3>1. y.confl = NoClause /\ im.ok
      BY <1>4, <2>3, <2>11
    <3>2. Knowing(num, let, x.s.assigned \cup im.lits, im.of) = K
      BY <1>4, <2>3, <2>5
    <3>3. x.s.ok => UnitClosure(giv, im.of) \subseteq K
      BY <1>4, <2>3, <2>7, <2>9, <3>1
    <3>4. \A m : Solves(num, giv, let, m) /\ im.of \subseteq m =>
             \A q \in im.lits : <<NameFor(num, q[1]), q[2]>> \in m
      BY <1>4, <2>3, <2>10
    <3> QED BY <2>8, <3>1, <3>2, <3>3, <3>4 DEF ImpliedRight
  <2>12. CASE ~x.ok
    <3>1. \A m : Solves(num, giv, let, m) => ~(P \subseteq m)
      BY <1>5, <2>12
    <3> QED BY <1>4, <2>12, <3>1 DEF ImpliedRight
  <2> QED BY <2>11, <2>12
<1> QED BY <1>1, <1>6, <1>7, ImpliesCases

-----------------------------------------------------------------------------
(* DerivedIsRight: toDimacs().                                             *)

\* The file toDimacs() wrote has a solution if and only if there is one that
\* agrees with the assumptions.
WrittenRight(num, giv, let, w) ==
  (\E b \in TotalAssignments(VarsIn(w.clauses)) : Satisfies(b, w.clauses))
    <=> \E t : Solves(num, giv, let, t) /\ w.of \subseteq t

\* What is left of clause c when the literals that are false are taken away.
Remains(s, c) == {p \in c : ~False(s, p)}

\* W has the assumptions L and what is left of the original clauses.
Writes(s, L, W) ==
  /\ \A p \in L : {p} \in W
  /\ \A r \in Originals(s) : Range(s.clause[r]) \cap s.assigned = {} => Remains(s, Range(s.clause[r])) \in W
  /\ \A w \in W : (\E p \in L : w = {p})
       \/ \E r \in Originals(s) : Range(s.clause[r]) \cap s.assigned = {} /\ w = Remains(s, Range(s.clause[r]))

\* What toDimacs() writes.
LEMMA DimacsIs ==
  ASSUME NEW s, s.ok, NEW L, NEW W, W = Dimacs(s, L)
  PROVE  Writes(s, L, W)
<1>1. PICK D : D = {d \in {Range(s.clause[r]) : r \in Originals(s)} : d \cap s.assigned = {}}
  OBVIOUS
<1>2. W = {{p} : p \in L} \cup {{p \in c : ~False(s, p)} : c \in D}
  BY <1>1 DEF Dimacs
<1>3. {{p \in c : ~False(s, p)} : c \in D} = {Remains(s, c) : c \in D}
  BY DEF Remains
<1>4. W = {{p} : p \in L} \cup {Remains(s, c) : c \in D}
  BY ONLY <1>2, <1>3
<1>5. \A p \in L : {p} \in W
  BY <1>4
<1>6. ASSUME NEW r \in Originals(s), Range(s.clause[r]) \cap s.assigned = {} PROVE Remains(s, Range(s.clause[r])) \in W
  <2>1. Range(s.clause[r]) \in D
    BY <1>1, <1>6
  <2> QED BY ONLY <1>4, <2>1
<1>7. ASSUME NEW w \in W, ~\E p \in L : w = {p}
      PROVE  \E r \in Originals(s) : Range(s.clause[r]) \cap s.assigned = {} /\ w = Remains(s, Range(s.clause[r]))
  <2>1. PICK c \in D : w = Remains(s, c)
    BY <1>4, <1>7
  <2> QED BY <1>1, <2>1
<1> QED BY <1>5, <1>6, <1>7 DEF Writes

\* The members of an original clause.
HasLits(s, r, c) ==
  /\ r \in DOMAIN s.clause /\ c \subseteq AllLits
  /\ \A q : q \in c <=> \E k \in 1..Len(s.clause[r]) : s.clause[r][k] = q
  /\ \A q \in c : Usable(s, q)

\* They are literals that can be used.
LEMMA OriginalIs ==
  ASSUME NEW s, Books(s), NEW r, r \in Originals(s), NEW c, c = Range(s.clause[r])
  PROVE  HasLits(s, r, c)
<1>1. r \in DOMAIN s.clause /\ Typed(s) /\ Within(s, UsableLits(s))
  BY BooksAre DEF Originals
<1>2. PICK d \in ClauseSeq : d = s.clause[r]
  BY <1>1, TypedIs
<1>3. d \in Seq(AllLits)
  BY ClauseIs
<1>4. \A q : q \in c <=> \E k \in 1..Len(d) : d[k] = q
  BY <1>2, <1>3, SeqIs
<1>5. \A q \in c : Usable(s, q)
  BY <1>1, <1>2, <1>4 DEF Within, UsableLits
<1> QED BY <1>1, <1>2, <1>4, <1>5 DEF Usable, HasLits

\* A model of the solver that has the assumptions satisfies what is written.
LEMMA ModelWritten ==
  ASSUME NEW s, Books(s), Len(s.lim) = 0, NEW L, L \subseteq AllLits, NEW W, Writes(s, L, W),
         NEW m \in Models, Means(s, m), L \subseteq m
  PROVE  \E b \in TotalAssignments(VarsIn(W)) : Satisfies(b, W)
<1>1. PICK vs : vs = VarsIn(W)
  OBVIOUS
<1>2. PICK b : b = {q \in m : q[1] \in vs}
  OBVIOUS
<1>3. \A w \in W : w \subseteq AllLits
  <2> SUFFICES ASSUME NEW w \in W, NEW q \in w PROVE q \in AllLits
    OBVIOUS
  <2>1. CASE \E p \in L : w = {p}
    BY <2>1
  <2>2. CASE \E r \in Originals(s) : w = Remains(s, Range(s.clause[r]))
    <3>1. PICK r \in Originals(s) : w = Remains(s, Range(s.clause[r]))
      BY <2>2
    <3>2. PICK c : c = Range(s.clause[r])
      OBVIOUS
    <3>3. HasLits(s, r, c)
      BY <3>2, OriginalIs
    <3> QED BY <3>1, <3>2, <3>3 DEF Remains, HasLits
  <2> QED BY <2>1, <2>2 DEF Writes
<1>4. vs \subseteq Vars
  <2> SUFFICES ASSUME NEW v \in vs PROVE v \in Vars
    OBVIOUS
  <2>1. PICK w \in W : v \in VarsOf(w)
    BY <1>1 DEF VarsIn
  <2>2. PICK q \in w : v = q[1]
    BY <2>1 DEF VarsOf
  <2> QED BY <1>3, <2>2, Literals
<1>5. b \in TotalAssignments(vs)
  <2>1. b \subseteq LitsOf(vs)
    <3> SUFFICES ASSUME NEW q \in b PROVE q \in LitsOf(vs)
      OBVIOUS
    <3>1. q \in AllLits /\ q[1] \in vs
      BY <1>2 DEF Models
    <3> QED BY <3>1 DEF AllLits, LitsOf
  <2>2. ASSUME NEW v \in vs PROVE <<v, TRUE>> \in b <=> <<v, FALSE>> \notin b
    <3>1. PICK q : q = <<v, TRUE>>
      OBVIOUS
    <3>2. v \in Vars /\ q \in AllLits /\ Neg(q) = <<v, FALSE>>
      BY <1>4, <3>1, LitIs
    <3>3. q \in m <=> Neg(q) \notin m
      BY <3>2 DEF Models
    <3>4. (<<v, TRUE>> \in b <=> q \in m) /\ (<<v, FALSE>> \in b <=> Neg(q) \in m)
      BY <1>2, <3>1, <3>2
    <3> QED BY <3>3, <3>4
  <2> QED BY <2>1, <2>2, TotalIs
<1>6. ASSUME NEW w \in W PROVE \E q \in w : q \in b
  <2>1. ASSUME NEW q \in w, q \in m PROVE q \in b
    BY <1>1, <1>2, <2>1 DEF VarsIn, VarsOf
  <2>2. CASE \E p \in L : w = {p}
    BY <2>1, <2>2
  <2>3. CASE \E r \in Originals(s) : w = Remains(s, Range(s.clause[r]))
    <3>1. PICK r \in Originals(s) : w = Remains(s, Range(s.clause[r]))
      BY <2>3
    <3>2. PICK c : c = Range(s.clause[r])
      OBVIOUS
    <3>30. HasLits(s, r, c)
      BY <3>2, OriginalIs
    <3>3. /\ r \in DOMAIN s.clause /\ c \subseteq AllLits
          /\ (\A q : q \in c <=> \E k \in 1..Len(s.clause[r]) : s.clause[r][k] = q)
          /\ \A q \in c : Usable(s, q)
      BY <3>30 DEF HasLits
    <3>4. PICK q \in c : q \in m
      BY <3>3 DEF Means
    <3>5. ~False(s, q)
      <4> SUFFICES ASSUME False(s, q) PROVE FALSE
        OBVIOUS
      <4>1. OnTrail(s, Neg(q))
        BY <3>3, TrueIsOnTrail
      <4>2. AtRoot(s, Neg(q))
        BY <4>1, RootIs DEF OnTrail, AtRoot
      <4>3. Neg(q) \in m
        BY <4>2 DEF AtRoot, Means
      <4> QED BY <3>3, <3>4, <4>3 DEF Models
    <3>6. q \in w
      BY <3>1, <3>2, <3>4, <3>5 DEF Remains
    <3> QED BY <2>1, <3>4, <3>6
  <2> QED BY <2>2, <2>3 DEF Writes
<1>7. Satisfies(b, W)
  BY <1>6 DEF Satisfies
<1> QED BY <1>1, <1>5, <1>7

\* The literals an assignment b to the variables of the file makes true: what
\* the solver knew, what b says, and of the other variables any value.
Chosen(s, b, q) == q \in s.assigned \/ (Neg(q) \notin s.assigned /\ (q \in b \/ (q[2] /\ Neg(q) \notin b)))

\* Of a literal and its complement one is chosen.
LEMMA ChoosesOne ==
  ASSUME NEW s, Books(s), NEW vs, NEW b \in TotalAssignments(vs), NEW q \in AllLits
  PROVE  Chosen(s, b, q) <=> ~Chosen(s, b, Neg(q))
<1>1. TrailOK(s)
  BY BooksAre
<1>2. PICK v \in Vars, c \in BOOLEAN : q = <<v, c>>
  BY DEF AllLits, LitsOf
<1>3. Neg(q) = <<v, ~c>> /\ Neg(Neg(q)) = q /\ q[2] = c /\ Neg(q)[2] = ~c
  BY <1>2 DEF Neg
<1>4. PICK n : n = Neg(q)
  OBVIOUS
<1>5. Neg(n) = q /\ q[2] \in BOOLEAN /\ n[2] = ~q[2]
  BY <1>2, <1>3, <1>4
<1>6. ~(q \in s.assigned /\ n \in s.assigned)
  BY <1>1, <1>4 DEF TrailOK
<1>7. ~(q \in b /\ n \in b)
  <2> SUFFICES ASSUME q \in b, n \in b PROVE FALSE
    OBVIOUS
  <2>1. b \subseteq LitsOf(vs) /\ \A x \in vs : <<x, TRUE>> \in b <=> <<x, FALSE>> \notin b
    BY TotalIs
  <2>2. v \in vs
    BY <1>2, <2>1 DEF LitsOf
  <2>3. c = TRUE \/ c = FALSE
    OBVIOUS
  <2>4. <<v, TRUE>> \in b /\ <<v, FALSE>> \in b
    BY <1>2, <1>3, <1>4, <2>3
  <2> QED BY <2>1, <2>2, <2>4
<1> QED BY <1>4, <1>5, <1>6, <1>7 DEF Chosen

\* What was kept is satisfied by what is chosen.
LEMMA KeptChosen ==
  ASSUME NEW s, Books(s), NEW L, NEW W, Writes(s, L, W), NEW b \in TotalAssignments(VarsIn(W)), Satisfies(b, W),
         NEW lits, lits \subseteq AllLits, Keeping(s, lits)
  PROVE  \E q \in lits : Chosen(s, b, q)
<1>1. TrailOK(s)
  BY BooksAre
<1>2. ASSUME NEW q \in lits, Neg(q) \in lits PROVE \E y \in lits : Chosen(s, b, y)
  BY <1>2, ChoosesOne
<1>3. ASSUME NEW q \in lits, AtRoot(s, q) PROVE \E y \in lits : Chosen(s, b, y)
  BY <1>1, <1>3 DEF AtRoot, TrailOK, Chosen
<1>4. ASSUME NEW r \in Originals(s), \A k \in 1..Len(s.clause[r]) : s.clause[r][k] \in lits
      PROVE  \E y \in lits : Chosen(s, b, y)
  <2>1. PICK c : c = Range(s.clause[r])
    OBVIOUS
  <2>2. c \subseteq lits
    <3>1. HasLits(s, r, c)
      BY <2>1, OriginalIs
    <3> QED BY <1>4, <3>1 DEF HasLits
  <2>3. CASE c \cap s.assigned # {}
    BY <2>2, <2>3 DEF Chosen
  <2>4. CASE c \cap s.assigned = {}
    <3>1. Remains(s, c) \in W
      BY <2>1, <2>4 DEF Writes
    <3>2. PICK q \in Remains(s, c) : q \in b
      BY <3>1 DEF Satisfies
    <3>3. q \in c /\ Neg(q) \notin s.assigned
      BY DEF Remains, False
    <3> QED BY <2>2, <3>2, <3>3 DEF Chosen
  <2> QED BY <2>3, <2>4
<1> QED BY <1>2, <1>3, <1>4 DEF Keeping

\* The assignment to names: what was let go, and what is chosen of the others.
Restored(num, let, s, b) ==
  let \cup {z \in LitsOf(DOMAIN num \ VarsOf(let)) : Chosen(s, b, LitOf(num, z))}

\* It has one literal of each name.
LEMMA RestoredIsTotal ==
  ASSUME NEW s, Books(s), NEW num, NEW giv, NEW let, Naming(s, num, giv, let), Speaking(num, giv, let),
         NEW vs, NEW b \in TotalAssignments(vs), NEW t, t = Restored(num, let, s, b)
  PROVE  t \in TotalAssignments(DOMAIN num)
<1>1. PICK rest : rest = {z \in LitsOf(DOMAIN num \ VarsOf(let)) : Chosen(s, b, LitOf(num, z))}
  OBVIOUS
<1>2. t = let \cup rest
  BY <1>1 DEF Restored
<1>3. let \subseteq LitsOf(DOMAIN num)
  BY DEF Speaking
<1>4. t \subseteq LitsOf(DOMAIN num)
  BY <1>1, <1>2, <1>3 DEF LitsOf
<1>5. ASSUME NEW n \in DOMAIN num PROVE <<n, TRUE>> \in t <=> <<n, FALSE>> \notin t
  <2>1. CASE n \in VarsOf(let)
    <3>1. PICK z \in let : z[1] = n
      BY <2>1 DEF VarsOf
    <3>2. PICK c \in BOOLEAN : z = <<n, c>>
      BY <1>3, <3>1 DEF LitsOf
    <3>3. Neg(z) = <<n, ~c>> /\ Neg(z) \notin let
      BY <3>1, <3>2 DEF Neg, Speaking, Said
    <3>4. \A d : <<n, d>> \notin rest
      BY <1>1, <2>1 DEF LitsOf
    <3>5. c = TRUE \/ c = FALSE
      OBVIOUS
    <3> QED BY <1>2, <3>1, <3>2, <3>3, <3>4, <3>5
  <2>2. CASE n \notin VarsOf(let)
    <3>1. num[n] \in Vars
      BY DEF Naming
    <3>2. PICK q : q = <<num[n], TRUE>>
      OBVIOUS
    <3>3. q \in AllLits /\ Neg(q) = <<num[n], FALSE>>
      BY <3>1, <3>2, LitIs
    <3>4. Chosen(s, b, q) <=> ~Chosen(s, b, Neg(q))
      BY <3>3, ChoosesOne
    <3>5. ASSUME NEW d \in BOOLEAN PROVE <<n, d>> \in t <=> Chosen(s, b, <<num[n], d>>)
      <4>1. PICK z : z = <<n, d>>
        OBVIOUS
      <4>2. z[1] = n /\ z[2] = d /\ z \in LitsOf(DOMAIN num \ VarsOf(let)) /\ LitOf(num, z) = <<num[n], d>>
        BY <2>2, <4>1 DEF LitsOf, LitOf
      <4>3. z \notin let
        BY <2>2, <4>2 DEF VarsOf
      <4>4. z \in rest <=> Chosen(s, b, <<num[n], d>>)
        BY <1>1, <4>2
      <4> QED BY <1>2, <4>1, <4>3, <4>4
    <3>6. (<<n, TRUE>> \in t <=> Chosen(s, b, q)) /\ (<<n, FALSE>> \in t <=> Chosen(s, b, Neg(q)))
      BY <3>2, <3>3, <3>5
    <3> QED BY <3>4, <3>6
  <2> QED BY <2>1, <2>2
<1> QED BY <1>4, <1>5, TotalIs

\* No assumption is false before toDimacs() is called.
NoneFalse(s, num, P) == \A p \in P : ~False(s, LitOf(num, p))

\* A solution of the file makes one of what was given.
LEMMA WrittenRestored ==
  ASSUME NEW s, Books(s), s.ok, NEW num, NEW giv, NEW let, Serves(s, num, giv, let),
         NEW P, P \subseteq LitsOf(DOMAIN num \ VarsOf(let)), NoneFalse(s, num, P),
         NEW W, Writes(s, LitsFor(num, P), W), NEW b \in TotalAssignments(VarsIn(W)), Satisfies(b, W),
         NEW t, t = Restored(num, let, s, b)
  PROVE  Solves(num, giv, let, t) /\ P \subseteq t
<1>1. Naming(s, num, giv, let) /\ Speaking(num, giv, let) /\ Kept(s, num, giv, let)
  BY DEF Serves
<1>2. PICK L : L = LitsFor(num, P)
  OBVIOUS
<1>3. Writes(s, L, W)
  BY <1>2
<1>4. t \in TotalAssignments(DOMAIN num)
  BY <1>1, RestoredIsTotal
<1>5. let \subseteq t
  BY DEF Restored
<1>6. ASSUME NEW z \in LitsOf(DOMAIN num \ VarsOf(let)), Chosen(s, b, LitOf(num, z)) PROVE z \in t
  BY <1>6 DEF Restored
<1>7. P \subseteq t
  <2> SUFFICES ASSUME NEW z \in P PROVE z \in t
    OBVIOUS
  <2>1. PICK q : q = LitOf(num, z)
    OBVIOUS
  <2>2. {q} \in W
    BY <1>2, <1>3, <2>1 DEF Writes, LitsFor
  <2>3. q \in b
    BY <2>2 DEF Satisfies
  <2>4. Neg(q) \notin s.assigned
    BY <2>1 DEF False, NoneFalse
  <2>5. Chosen(s, b, q)
    BY <2>3, <2>4 DEF Chosen
  <2> QED BY <1>6, <2>1, <2>5
<1>8. ASSUME NEW g \in giv PROVE t \cap g # {}
  <2>1. CASE g \cap let # {}
    BY <1>5, <2>1
  <2>2. CASE g \cap let = {} /\ Keeping(s, LitsFor(num, g))
    <3>1. g \subseteq LitsOf(DOMAIN num \ VarsOf(let))
      <4> SUFFICES ASSUME NEW x \in g PROVE x \in LitsOf(DOMAIN num \ VarsOf(let))
        OBVIOUS
      <4>1. x \in LitsOf(DOMAIN num) /\ x \in Said(giv, let)
        BY <1>1 DEF Speaking, Said
      <4>2. x[1] \notin VarsOf(let)
        BY <1>1, <2>2, <4>1, SaidOnce
      <4> QED BY <4>1, <4>2 DEF LitsOf
    <3>2. PICK lits : lits = LitsFor(num, g)
      OBVIOUS
    <3>3. lits \subseteq AllLits /\ Keeping(s, lits)
      BY <1>1, <2>2, <3>1, <3>2, LiveLitsIs
    <3>4. PICK q \in lits : Chosen(s, b, q)
      BY <1>3, <3>3, KeptChosen
    <3>5. PICK z \in g : q = LitOf(num, z)
      BY <3>2 DEF LitsFor
    <3>6. z \in t
      BY <1>6, <3>1, <3>4, <3>5
    <3> QED BY <3>6
  <2> QED BY <1>1, <2>1, <2>2 DEF Kept
<1> QED BY <1>4, <1>5, <1>7, <1>8 DEF Solves, Satisfies

\* The file for contradictory clauses has no solution.
LEMMA NoneWrites ==
  ASSUME NEW s, ~s.ok, NEW L, NEW W, W = Dimacs(s, L), NEW b \in TotalAssignments(VarsIn(W)), Satisfies(b, W)
  PROVE  FALSE
<1>1. {<<0, TRUE>>} \in W /\ {<<0, FALSE>>} \in W
  BY DEF Dimacs
<1>2. <<0, TRUE>> \in b /\ <<0, FALSE>> \in b
  BY <1>1 DEF Satisfies
<1>3. 0 \in VarsIn(W)
  <2>1. <<0, TRUE>>[1] = 0
    OBVIOUS
  <2>2. 0 \in VarsOf({<<0, TRUE>>})
    BY <2>1 DEF VarsOf
  <2> QED BY <1>1, <2>2 DEF VarsIn
<1>4. <<0, TRUE>> \in b <=> <<0, FALSE>> \notin b
  BY <1>3, TotalIs
<1> QED BY <1>2, <1>4

\* toDimacs() writes a file that stands for what was given and assumed.
LEMMA DimacsAnswers ==
  ASSUME NEW s, InIdle(s), NEW num, NEW giv, NEW let, Serves(s, num, giv, let),
         NEW P, NEW a, Asking(num, let, P, a), NoneFalse(s, num, P),
         NEW W, W = Dimacs(s, LitsFor(num, P)), NEW w, w = [of |-> P, clauses |-> W]
  PROVE  WrittenRight(num, giv, let, w)
<1>1. Books(s) /\ Len(s.lim) = 0
  BY DEF InIdle, Resting
<1>2. P \subseteq LitsOf(DOMAIN num \ VarsOf(let)) /\ Naming(s, num, giv, let)
  BY DEF Asking, Serves
<1>3. PICK L : L = LitsFor(num, P)
  OBVIOUS
<1>4. L \subseteq AllLits
  BY <1>2, <1>3, LiveLitsIs
<1>5. w.of = P /\ w.clauses = W
  OBVIOUS
<1>6. ASSUME NEW b \in TotalAssignments(VarsIn(W)), Satisfies(b, W)
      PROVE  \E t : Solves(num, giv, let, t) /\ P \subseteq t
  <2>1. s.ok
    BY <1>3, <1>6, NoneWrites
  <2>2. Writes(s, LitsFor(num, P), W)
    BY <2>1, DimacsIs
  <2>3. PICK t : t = Restored(num, let, s, b)
    OBVIOUS
  <2> QED BY SMTT(30), <1>1, <1>2, <1>6, <2>1, <2>2, <2>3, WrittenRestored
<1>7. ASSUME NEW t, Solves(num, giv, let, t), P \subseteq t
      PROVE  \E b \in TotalAssignments(VarsIn(W)) : Satisfies(b, W)
  <2>1. PICK m : m = ModelOf(num, t)
    OBVIOUS
  <2>2. m \in Models /\ s.ok /\ Means(s, m) /\ \A i \in 1..Len(a) : a[i] \in m
    BY <1>7, <2>1, ModelAsked
  <2>3. L \subseteq m
    BY <1>3, <2>2 DEF Asking, LitsFor
  <2>4. Writes(s, L, W)
    BY <1>3, <2>2, DimacsIs
  <2> QED BY <1>1, <1>4, <2>2, <2>3, <2>4, ModelWritten
<1> QED BY <1>5, <1>6, <1>7 DEF WrittenRight

\* What was answered last is right; solve() forgets about it.
DerivedOK ==
  /\ implied = NoImplied \/ ImpliedRight(number, given, letGo, solver, implied)
  /\ written = NoneWritten \/ WrittenRight(number, given, letGo, written)
  /\ phase # "idle" => implied = NoImplied /\ written = NoneWritten

\* The user named finitely many variables in its clauses.
LEMMA SaidFinitely ==
  ASSUME NEW s, NEW num, NEW giv, NEW let, NEW scr, Attends(s, num, giv, let, scr)
  PROVE  Cardinality(VarsIn(giv)) \in Nat
<1>1. From(scr, num, giv, let, s.nextVar) /\ Speaking(num, giv, let)
  BY DEF Attends, Serves
<1>2. \E z, n : n \in Nat /\ DOMAIN num = CreatedBy(z, n)
  BY <1>1 DEF From
<1>3. PICK z, n : n \in Nat /\ DOMAIN num = CreatedBy(z, n)
  BY <1>2
<1>4. n <= n
  BY <1>3
<1>5. IsFiniteSet(DOMAIN num)
  BY <1>3, <1>4, CreatedFinite
<1>6. VarsIn(giv) \in SUBSET DOMAIN num
  <2> SUFFICES ASSUME NEW v \in VarsIn(giv) PROVE v \in DOMAIN num
    OBVIOUS
  <2>1. PICK g \in giv : v \in VarsOf(g)
    BY DEF VarsIn
  <2>2. PICK q \in g : v = q[1]
    BY <2>1 DEF VarsOf
  <2> QED BY <1>1, <2>2 DEF Speaking, LitsOf
<1>7. IsFiniteSet(VarsIn(giv))
  BY ONLY <1>5, <1>6, FS_Subset
<1> QED BY ONLY <1>7, FS_CardinalityType

\* A call that answers nothing of the kind.
LEMMA NothingDerived ==
  ASSUME implied' = NoImplied, written' = NoneWritten
  PROVE  DerivedOK'
BY DEF DerivedOK

\* At first nothing was answered.
LEMMA DerivedStarts ==
  ASSUME Init
  PROVE  DerivedOK
BY DEF Init, DerivedOK

\* The search answers neither.
LEMMA SearchDerives ==
  ASSUME DerivedOK, Search, UNCHANGED userVars
  PROVE  DerivedOK'
<1>1. phase # "idle"
  BY DEF Search, Contradictory, PropagateAll, RootConflict, Learn, Restart, Abandon, Prepare, Assume, AssumptionFails,
         Branch, ModelFound, Interrupt, Decide
<1>2. implied' = NoImplied /\ written' = NoneWritten
  BY <1>1 DEF DerivedOK, userVars
<1> QED BY <1>2, NothingDerived

\* What leaves the solver, the phase and what the user said as they were.
LEMMA DerivedStays ==
  ASSUME DerivedOK, solver' = solver, phase' = phase, UNCHANGED userVars
  PROVE  DerivedOK'
BY DEF DerivedOK, userVars

\* implies() answers right.
LEMMA ImpliesDerives ==
  ASSUME \A s \in Scripts : ProperUse(s), SolverOK, CallImplies
  PROVE  DerivedOK'
<1>1. PICK s, num, giv, let, scr : s = solver /\ num = number /\ giv = given /\ let = letGo /\ scr = script
  OBVIOUS
<1>2. PICK k, ps, a : k = s.nextVar /\ ps = Head(script).lits /\ a = LitSeq(ps)
  OBVIOUS
<1>3. PICK x, P : x = Implies(s, a) /\ P = Range(ps)
  OBVIOUS
<1>4. PICK im : im = [of |-> P, ok |-> x.ok, lits |-> x.lits]
  OBVIOUS
<1>5. /\ Call("implies") /\ number' = num /\ solver' = x.s /\ phase' = phase
      /\ given' = giv /\ letGo' = let /\ implied' = im /\ written' = NoneWritten
  BY <1>1, <1>2, <1>3, <1>4 DEF CallImplies
<1>6. /\ phase = "idle" /\ InIdle(s) /\ Serves(s, num, giv, let) /\ Puts(s, num, ps, a)
      /\ Range(ps) \subseteq LitsOf(DOMAIN num \ VarsOf(let))
  BY <1>1, <1>2, <1>5, AskedIs
<1>7. Asking(num, let, P, a) /\ a \in Seq(AllLits) /\ \A i \in 1..Len(a) : Usable(s, a[i])
  BY <1>3, <1>6 DEF Puts, Asks, Asking
<1>8. Cardinality(VarsIn(giv)) \in Nat
  BY <1>1, SaidFinitely DEF SolverOK
<1>9. ImpliedRight(num, giv, let, x.s, im)
  BY <1>3, <1>4, <1>6, <1>7, <1>8, ImpliesAnswers
<1>10. ImpliedRight(number', given', letGo', solver', implied')
  BY <1>5, <1>9
<1> QED BY <1>5, <1>6, <1>10 DEF DerivedOK

\* toDimacs() does.
LEMMA DimacsDerives ==
  ASSUME \A s \in Scripts : ProperUse(s), SolverOK, CallDimacs
  PROVE  DerivedOK'
<1>1. PICK s, num, giv, let, scr : s = solver /\ num = number /\ giv = given /\ let = letGo /\ scr = script
  OBVIOUS
<1>2. PICK k, ps, a : k = s.nextVar /\ ps = Head(script).lits /\ a = LitSeq(ps)
  OBVIOUS
<1>3. PICK P : P = Range(ps)
  OBVIOUS
<1>4. PICK W : W = Dimacs(s, LitsFor(num, P))
  OBVIOUS
<1>5. PICK w : w = [of |-> P, clauses |-> W]
  OBVIOUS
<1>6. \A p : Lit(p) = LitOf(num, p)
  BY <1>1 DEF Lit, LitOf
<1>7. Lits(P) = LitsFor(num, P)
  BY <1>6 DEF Lits, LitsFor
<1>8. /\ Call("toDimacs") /\ number' = num /\ phase' = phase
      /\ given' = giv /\ letGo' = let /\ implied' = NoImplied
      /\ (\A p \in P : ~False(s, Lit(p))) /\ written' = [of |-> P, clauses |-> Dimacs(s, Lits(P))]
  BY <1>1, <1>2, <1>3 DEF CallDimacs
<1>9. NoneFalse(s, num, P) /\ written' = w
  BY <1>4, <1>5, <1>6, <1>7, <1>8 DEF NoneFalse
<1>10. /\ phase = "idle" /\ InIdle(s) /\ Serves(s, num, giv, let) /\ Puts(s, num, ps, a)
       /\ Range(ps) \subseteq LitsOf(DOMAIN num \ VarsOf(let))
  BY <1>1, <1>2, <1>8, AskedIs
<1>11. Asking(num, let, P, a)
  BY <1>3, <1>10 DEF Puts, Asks, Asking
<1>12. WrittenRight(num, giv, let, w)
  BY <1>4, <1>5, <1>9, <1>10, <1>11, DimacsAnswers
<1>13. WrittenRight(number', given', letGo', written')
  BY <1>8, <1>9, <1>12
<1> QED BY <1>8, <1>10, <1>13 DEF DerivedOK

\* Every step keeps it so.
LEMMA DerivedSteps ==
  ASSUME \A s \in Scripts : ProperUse(s), SolverOK, DerivedOK, [Next]_vars
  PROVE  DerivedOK'
<1>1. CASE CallNewVar
  BY <1>1, NothingDerived DEF CallNewVar, Returns
<1>2. CASE CallAddClause
  BY <1>2, NothingDerived DEF CallAddClause, Returns
<1>3. CASE CallReleaseVar
  BY <1>3, NothingDerived DEF CallReleaseVar, Returns
<1>4. CASE CallImplies
  BY <1>4, ImpliesDerives
<1>5. CASE CallDimacs
  BY <1>5, DimacsDerives
<1>6. CASE CallSolve
  BY <1>6, NothingDerived DEF CallSolve
<1>7. CASE ClearInterrupt
  BY <1>7, DerivedStays DEF ClearInterrupt
<1>8. CASE Searching
  BY <1>8, SearchDerives DEF Searching
<1>9. CASE UNCHANGED vars
  BY <1>9, DerivedStays DEF vars, searchVars
<1> QED BY <1>1, <1>2, <1>3, <1>4, <1>5, <1>6, <1>7, <1>8, <1>9 DEF Next

\* That is what the property says, of implies() ...
LEMMA ImpliedAgrees ==
  ASSUME DerivedOK
  PROVE  ImpliedIsImplied
<1> SUFFICES ASSUME implied # NoImplied PROVE ImpliedIsImplied
  BY DEF ImpliedIsImplied
<1>1. PICK num, giv, let, s, im : num = number /\ giv = given /\ let = letGo /\ s = solver /\ im = implied
  OBVIOUS
<1>2. ImpliedRight(num, giv, let, s, im)
  BY <1>1 DEF DerivedOK
<1>3. \A v : NameFor(num, v) = NameOf(v)
  BY <1>1 DEF NameFor, NameOf
<1>4. LiveLits(s.assigned \cup im.lits) \cup im.of \cup let = Knowing(num, let, s.assigned \cup im.lits, im.of)
  <2>1. \A S : LiveLits(S) = Shown(num, let, S)
    BY <1>1, <1>3 DEF LiveLits, NameLits, NameLit, Shown
  <2> QED BY <2>1 DEF Knowing
<1>5. \A t : t \in Solutions <=> Solves(num, giv, let, t)
  BY <1>1 DEF Solutions, Solves
<1>6. PICK possible, known : possible = {t \in Solutions : im.of \subseteq t} /\ known = Knowing(num, let, s.assigned \cup im.lits, im.of)
  OBVIOUS
<1>7. CASE im.ok
  <2>1. /\ Consistent(known) /\ (s.ok => UnitClosure(giv, im.of) \subseteq known)
        /\ \A t : Solves(num, giv, let, t) /\ im.of \subseteq t => \A q \in im.lits : <<NameFor(num, q[1]), q[2]>> \in t
    BY <1>2, <1>6, <1>7 DEF ImpliedRight
  <2>2. ASSUME NEW t \in possible PROVE NameLits(im.lits) \subseteq t
    <3>1. Solves(num, giv, let, t) /\ im.of \subseteq t
      BY <1>5, <1>6
    <3>2. \A q \in im.lits : NameLit(q) \in t
      BY <1>3, <2>1, <3>1 DEF NameLit
    <3> QED BY <3>2 DEF NameLits
  <2> QED BY ZenonT(40), <1>1, <1>4, <1>6, <1>7, <2>1, <2>2 DEF ImpliedIsImplied
<1>8. CASE ~im.ok
  <2>1. \A t : Solves(num, giv, let, t) => ~(im.of \subseteq t)
    BY <1>2, <1>8 DEF ImpliedRight
  <2>2. possible = {}
    BY <1>5, <1>6, <2>1
  <2> QED BY <1>1, <1>6, <1>8, <2>2 DEF ImpliedIsImplied
<1> QED BY <1>7, <1>8

\* ... and of toDimacs().
LEMMA WrittenAgrees ==
  ASSUME DerivedOK
  PROVE  WrittenEquisatisfiable
<1> SUFFICES ASSUME written # NoneWritten PROVE WrittenEquisatisfiable
  BY DEF WrittenEquisatisfiable
<1>1. WrittenRight(number, given, letGo, written)
  BY DEF DerivedOK
<1>2. \A t : t \in Solutions <=> Solves(number, given, letGo, t)
  BY DEF Solutions, Solves
<1> QED BY <1>1, <1>2 DEF WrittenRight, WrittenEquisatisfiable

\* implies() and toDimacs() say what the clauses say, whatever was added,
\* released, learnt and propagated before.
THEOREM DerivedIsAlwaysRight ==
  ASSUME \A s \in Scripts : ProperUse(s)
  PROVE  Spec => []DerivedIsRight
<1>1. Init => SolverOK /\ DerivedOK
  BY SolverStarts, DerivedStarts
<1>2. SolverOK /\ DerivedOK /\ [Next]_vars => SolverOK' /\ DerivedOK'
  BY SolverSteps, DerivedSteps
<1>3. DerivedOK => DerivedIsRight
  BY ImpliedAgrees, WrittenAgrees DEF DerivedIsRight
<1> QED BY <1>1, <1>2, <1>3, PTL DEF Spec

-----------------------------------------------------------------------------
(* SearchAdvances.                                                         *)

\* The literals assigned at levels up to k.
SettledTo(s, k) == {p \in s.assigned : s.level[p[1]] <= k}

\* From s to t one level gets more literals, and none below it others.
Ahead(s, t) ==
  \E l \in 0..Len(t.lim) :
    /\ \A k \in 0..(l - 1) : k \in 0..Len(s.lim) /\ SettledTo(t, k) = SettledTo(s, k)
    /\ l \in 0..Len(s.lim) => SettledTo(s, l) \subseteq SettledTo(t, l) /\ SettledTo(t, l) # SettledTo(s, l)

\* There are finitely many literals.
LEMMA FewLits ==
  ASSUME NEW s, s.assigned \subseteq AllLits, NEW k
  PROVE  IsFiniteSet(SettledTo(s, k))
<1>1. MaxVars \in Nat /\ 0 \in Int /\ MaxVars - 1 \in Int
  BY Bounds
<1>2. IsFiniteSet(Vars)
  BY <1>1, FS_Interval DEF Vars
<1>3. IsFiniteSet({TRUE}) /\ BOOLEAN = {TRUE} \cup {FALSE}
  BY FS_Singleton
<1>4. IsFiniteSet({TRUE} \cup {FALSE})
  BY ONLY <1>3, FS_AddElement
<1>5. IsFiniteSet(BOOLEAN)
  BY ONLY <1>3, <1>4
<1>6. IsFiniteSet(Vars \X BOOLEAN)
  BY ONLY <1>2, <1>5, FS_Product
<1>7. IsFiniteSet(AllLits)
  BY <1>6 DEF AllLits, LitsOf
<1>8. SettledTo(s, k) \in SUBSET AllLits
  BY DEF SettledTo
<1> QED BY ONLY <1>7, <1>8, FS_Subset

\* How many literals are assigned up to each level.
Counts(s) == [l \in 0..Len(s.lim) |-> Cardinality(SettledTo(s, l))]

\* What is ahead counts more.
LEMMA AheadCounts ==
  ASSUME NEW s, NEW t, Typed(s), Typed(t), Ahead(s, t)
  PROVE  \E l \in 0..Len(t.lim) :
           /\ \A k \in 0..(l - 1) : k \in DOMAIN Counts(s) /\ Counts(t)[k] = Counts(s)[k]
           /\ l \in DOMAIN Counts(s) => Counts(t)[l] > Counts(s)[l]
<1>1. PICK n \in Nat, m \in Nat : n = Len(s.lim) /\ m = Len(t.lim)
  BY TypedIs
<1>2. s.assigned \subseteq AllLits /\ t.assigned \subseteq AllLits
  <2>1. s \in SolverType /\ t \in SolverType
    BY DEF Typed
  <2> QED BY <2>1 DEF SolverType
<1>3. PICK l \in 0..m : /\ \A k \in 0..(l - 1) : k \in 0..n /\ SettledTo(t, k) = SettledTo(s, k)
                        /\ l \in 0..n => SettledTo(s, l) \subseteq SettledTo(t, l) /\ SettledTo(t, l) # SettledTo(s, l)
  BY <1>1 DEF Ahead
<1>4. DOMAIN Counts(s) = 0..n /\ \A k \in 0..n : Counts(s)[k] = Cardinality(SettledTo(s, k))
  BY <1>1 DEF Counts
<1>5. \A k \in 0..m : Counts(t)[k] = Cardinality(SettledTo(t, k))
  BY <1>1 DEF Counts
<1>6. ASSUME NEW k \in 0..(l - 1) PROVE k \in DOMAIN Counts(s) /\ Counts(t)[k] = Counts(s)[k]
  <2>1. k \in 0..m /\ k \in 0..n
    BY <1>3
  <2>2. SettledTo(t, k) = SettledTo(s, k)
    BY <1>3
  <2> QED BY <1>4, <1>5, <2>1, <2>2
<1>7. ASSUME l \in DOMAIN Counts(s) PROVE Counts(t)[l] > Counts(s)[l]
  <2>1. PICK S, T : S = SettledTo(s, l) /\ T = SettledTo(t, l)
    OBVIOUS
  <2>2. l \in 0..n /\ S \in SUBSET T /\ S # T
    BY <1>3, <1>4, <1>7, <2>1
  <2>3. IsFiniteSet(S) /\ IsFiniteSet(T)
    BY <1>2, <2>1, FewLits
  <2>4. Cardinality(S) \in Nat /\ Cardinality(T) \in Nat
    BY ONLY <2>3, FS_CardinalityType
  <2>5. Cardinality(S) <= Cardinality(T) /\ Cardinality(T) # Cardinality(S)
    BY ONLY <2>2, <2>3, FS_Subset
  <2>6. PICK x, y : x = Cardinality(S) /\ y = Cardinality(T)
    OBVIOUS
  <2>7. y > x
    BY ONLY <2>4, <2>5, <2>6
  <2> QED BY <1>4, <1>5, <2>1, <2>2, <2>6, <2>7
<1> QED BY <1>1, <1>6, <1>7

\* t is u with p at a level of its own.
OneMore(u, p, t) ==
  /\ t.assigned = u.assigned \cup {p} /\ Len(t.lim) = Len(u.lim) + 1
  /\ t.level[p[1]] = Len(u.lim) + 1
  /\ \A v \in Vars : v # p[1] => t.level[v] = u.level[v]

\* A decision: a level that was not there.
LEMMA DecidedAhead ==
  ASSUME NEW s, Typed(s), NEW u, Typed(u), u.assigned = s.assigned, u.level = s.level, Len(u.lim) >= Len(s.lim),
         NEW p \in AllLits, Open(u, p[1]), NEW t, OneMore(u, p, t)
  PROVE  Ahead(s, t)
<1>1. PICK n \in Nat, m \in Nat : n = Len(s.lim) /\ m = Len(u.lim)
  BY TypedIs
<1>2. s.assigned \subseteq AllLits
  <2>1. s \in SolverType
    BY DEF Typed
  <2> QED BY <2>1 DEF SolverType
<1>3. m >= n /\ Len(t.lim) = m + 1
  BY <1>1 DEF OneMore
<1>4. \A q \in s.assigned : q[1] \in Vars /\ q[1] # p[1] /\ t.level[q[1]] = s.level[q[1]]
  <2> SUFFICES ASSUME NEW q \in s.assigned PROVE q[1] \in Vars /\ q[1] # p[1] /\ t.level[q[1]] = s.level[q[1]]
    OBVIOUS
  <2>1. q \in AllLits /\ q[1] \in Vars
    BY <1>2, Literals
  <2>2. q[1] # p[1]
    BY <2>1 DEF Open, AllLits, LitsOf
  <2> QED BY <2>1, <2>2 DEF OneMore
<1>5. ASSUME NEW k \in 0..n PROVE SettledTo(t, k) = SettledTo(s, k)
  <2>1. t.level[p[1]] = m + 1 /\ ~(m + 1 <= k)
    BY <1>1, <1>3 DEF OneMore
  <2>2. t.assigned = s.assigned \cup {p}
    BY DEF OneMore
  <2>3. ASSUME NEW q PROVE q \in SettledTo(t, k) <=> q \in SettledTo(s, k)
    BY <1>4, <2>1, <2>2 DEF SettledTo
  <2> QED BY <2>3
<1>6. n + 1 \in 0..(m + 1) /\ n + 1 \notin 0..n /\ (n + 1) - 1 = n
  BY <1>3
<1> QED BY <1>1, <1>3, <1>5, <1>6 DEF Ahead

\* The levels for assumptions take none back, and assign nothing.
LEMMA LevelsOnly ==
  ASSUME NEW s, NEW a, InSearch(s, a), NEW u, u = LevelsFor(s, a)
  PROVE  Typed(s) /\ Typed(u) /\ u.assigned = s.assigned /\ u.level = s.level /\ Len(u.lim) >= Len(s.lim)
<1>1. /\ Books(s) /\ s.qhead = Len(s.trail) /\ DecisionsOK(s) /\ AssumedOK(s, a) /\ a \in Seq(AllLits)
      /\ \A i \in 1..Len(a) : Usable(s, a[i])
  BY DEF InSearch, Ready, Seeks, Asks
<1>2. Leveled(s, a, u)
  BY <1>1, LeveledIs
<1>3. Books(u) /\ Grows(s, u) /\ u.assigned = s.assigned /\ u.level = s.level /\ Len(s.lim) <= Len(u.lim)
  BY <1>2 DEF Leveled
<1>4. Typed(s) /\ Typed(u)
  BY <1>1, <1>3, BooksAre
<1>5. Len(u.lim) >= Len(s.lim)
  <2>1. Len(s.lim) \in Nat /\ Len(u.lim) \in Nat
    BY <1>4, TypedIs
  <2> QED BY <1>3, <2>1
<1> QED BY <1>3, <1>4, <1>5

\* newDecisionLevel() and uncheckedEnqueue()
LEMMA DecidedMore ==
  ASSUME NEW u, Typed(u), NEW p \in AllLits, NEW t, t = Decided(u, p)
  PROVE  OneMore(u, p, t)
<1>1. u \in SolverType /\ Len(u.lim) \in Nat /\ u.lim \in Seq(Nat) /\ Len(u.trail) \in Nat
  BY TypedIs
<1>2. p[1] \in Vars /\ u.level \in [Vars -> Nat]
  BY <1>1, Literals DEF SolverType
<1>3. DecidedFields(u, p, t)
  BY <1>1, DecidedIs
<1>4. t.assigned = u.assigned \cup {p} /\ t.lim = Append(u.lim, Len(u.trail))
      /\ t.level = [u.level EXCEPT ![p[1]] = Len(Append(u.lim, Len(u.trail)))]
  BY <1>3 DEF DecidedFields
<1>5. Len(Append(u.lim, Len(u.trail))) = Len(u.lim) + 1
  BY <1>1, AppendIs
<1>6. t.level[p[1]] = Len(u.lim) + 1 /\ \A v \in Vars : v # p[1] => t.level[v] = u.level[v]
  BY <1>2, <1>4, <1>5
<1> QED BY <1>4, <1>5, <1>6 DEF OneMore

\* An assumption is made.
LEMMA AssumeAhead ==
  ASSUME NEW s, NEW a, InSearch(s, a), NEW u, u = LevelsFor(s, a), Level(u) < Len(a),
         NEW p, p = a[Level(u) + 1], ~False(u, p), NEW t, t = Decided(u, p)
  PROVE  Typed(s) /\ Typed(t) /\ Ahead(s, t)
<1>1. InSearch(u, a) /\ ~True(u, p)
  BY LevelsIs
<1>2. Asks(u, a) /\ Books(u) /\ a \in Seq(AllLits)
  BY <1>1 DEF InSearch, Ready, Asks, Seeks
<1>3. Typed(s) /\ Typed(u) /\ u.assigned = s.assigned /\ u.level = s.level /\ Len(u.lim) >= Len(s.lim)
  BY LevelsOnly
<1>4. PICK n \in Nat, d \in Nat : n = Len(a) /\ d = Len(u.lim)
  BY <1>2, <1>3, TypedIs
<1>5. d + 1 \in 1..Len(a) /\ p = a[d + 1]
  BY <1>4 DEF Level
<1>6. p \in AllLits /\ p[1] \in Vars /\ Usable(u, p)
  BY <1>2, <1>5, Literals DEF Asks
<1>7. Open(u, p[1])
  BY <1>1, <1>2, <1>3, <1>6, OpenIs
<1>8. OneMore(u, p, t)
  BY <1>3, <1>6, DecidedMore
<1>9. Ahead(s, t)
  BY <1>3, <1>6, <1>7, <1>8, DecidedAhead
<1>10. InPropagate(t, a)
  BY AssumeIs
<1>11. Typed(t)
  BY <1>10, BooksAre DEF InPropagate, Ready, Seeks
<1> QED BY <1>3, <1>9, <1>11

\* A variable is picked.
LEMMA PickAhead ==
  ASSUME NEW s, NEW a, InSearch(s, a), NEW u, u = LevelsFor(s, a), Level(u) >= Len(a), NEW v \in u.heap, Open(u, v),
         NEW b \in BOOLEAN, NEW h, h = {x \in u.heap \ {v} : Open(u, x)}, NEW t, t = Decided([u EXCEPT !.heap = h], <<v, b>>)
  PROVE  Typed(s) /\ Typed(t) /\ Ahead(s, t)
<1>1. Typed(s) /\ Typed(u) /\ u.assigned = s.assigned /\ u.level = s.level /\ Len(u.lim) >= Len(s.lim)
  BY LevelsOnly
<1>2. u \in SolverType
  BY <1>1 DEF Typed
<1>3. h \in SUBSET Vars /\ v \in Vars
  BY <1>2 DEF SolverType
<1>4. PICK p, w : p = <<v, b>> /\ w = [u EXCEPT !.heap = h]
  OBVIOUS
<1>5. p \in AllLits /\ p[1] = v
  BY <1>3, <1>4, LitIs
<1>6. Reheaped(u, w, h)
  BY <1>2, <1>3, <1>4, ReheapedIs
<1>7. w.assigned = u.assigned /\ w.level = u.level /\ w.lim = u.lim /\ w \in SolverType
      /\ w.clause = u.clause /\ w.learnts = u.learnts
  BY <1>6 DEF Reheaped
<1>8. Typed(w)
  BY <1>1, <1>7 DEF Typed
<1>9. Open(w, p[1])
  BY <1>5, <1>7 DEF Open
<1>10. OneMore(w, p, t)
  BY <1>4, <1>5, <1>8, DecidedMore
<1>11. Ahead(s, t)
  BY <1>1, <1>5, <1>7, <1>8, <1>9, <1>10, DecidedAhead
<1>12. InPropagate(t, a)
  BY PickIs
<1>13. Typed(t)
  BY <1>12, BooksAre DEF InPropagate, Ready, Seeks
<1> QED BY <1>1, <1>11, <1>13

\* The backjump is below the level of the conflict.
LEMMA BackBelow ==
  ASSUME NEW s, NEW r, Conflicting(s, r), NEW c, c = Learnt(s, r), NEW lv, lv = BacktrackLevel(s, c)
  PROVE  lv \in Nat /\ Len(s.lim) > lv
<1>1. Books(s) /\ Typed(s) /\ Len(s.lim) > 0
  BY BooksAre DEF Conflicting
<1>2. LearntOK(s, c)
  BY LearntIs
<1>3. PICK n \in Nat, m \in Nat : n = Len(c) /\ m = Len(s.lim)
  BY <1>1, <1>2, TypedIs, LenProperties DEF LearntOK
<1>4. CASE n = 1
  BY <1>1, <1>3, <1>4 DEF BacktrackLevel
<1>5. CASE n # 1
  <2>1. n >= 1
    BY <1>2, <1>3 DEF LearntOK
  <2>2. 2 \in 2..Len(c) /\ 2 \in 1..Len(c)
    BY <1>3, <1>5, <2>1
  <2>3. s.level[c[2][1]] < Len(s.lim) /\ c[2] \in AllLits
    BY <1>2, <2>2 DEF LearntOK
  <2>4. s.level[c[2][1]] \in Nat
    BY <1>1, <2>3, Literals, TypedIs
  <2>5. lv = s.level[c[2][1]]
    BY <1>3, <1>5 DEF BacktrackLevel
  <2> QED BY <1>3, <2>3, <2>4, <2>5
<1> QED BY <1>4, <1>5

\* What is learnt assigns one literal at the current level.
LEMMA LearntOne ==
  ASSUME NEW b, NEW a, Seeks(b, a), NEW c, Asserting(b, c), NEW t, t = LearnedTo(b, c)
  PROVE  /\ t.assigned = b.assigned \cup {c[1]} /\ t.lim = b.lim /\ t.level[c[1][1]] = Len(b.lim)
         /\ \A v \in Vars : v # c[1][1] => t.level[v] = b.level[v]
<1>1. Books(b) /\ WatchesOK(b) /\ Typed(b)
  BY BooksAre DEF Seeks
<1>2. c \in Seq(AllLits) /\ Len(c) \in Nat /\ Len(c) >= 1
  BY DEF Asserting
<1>3. c[1] \in AllLits
  BY <1>2, LenProperties
<1>4. CASE Len(c) = 1
  <2>1. t = Enqueue(b, c[1], NoClause) /\ NoClause \in Nat
    BY <1>4 DEF LearnedTo, NoClause
  <2> QED BY <1>1, <1>3, <2>1, EnqueueFields
<1>5. CASE Len(c) # 1
  <2>1. PICK r, u : r = FreshRef(b) /\ u = [Attach(b, r, c) EXCEPT !.learnts = @ \cup {r}]
    OBVIOUS
  <2>2. t = Enqueue(u, c[1], r)
    BY <1>5, <2>1 DEF LearnedTo
  <2>3. r \in Nat \ {0} /\ r \notin DOMAIN b.clause
    BY <1>1, <2>1, FreshRefIs
  <2>4. c \in ClauseSeq
    <3>1. \A i, j \in 1..Len(c) : c[i][1] = c[j][1] => i = j
      BY DEF Asserting
    <3>2. Len(c) >= 2
      <4>1. PICK n \in Nat : n = Len(c)
        BY <1>2
      <4> QED BY <1>2, <1>5, <4>1
    <3> QED BY ONLY <1>2, <3>1, <3>2 DEF ClauseSeq
  <2>5. \A k \in 1..Len(c) : Usable(b, c[k])
    BY DEF Asserting
  <2>6. Learning(b, u, r, c)
    BY <1>1, <2>1, <2>3, <2>4, <2>5, LearningIs
  <2>7. Books(u) /\ u.lim = b.lim /\ u.assigned = b.assigned /\ u.level = b.level
    BY <2>6 DEF Learning
  <2>8. Typed(u) /\ r \in Nat
    BY <2>3, <2>7, BooksAre
  <2>9. /\ t.assigned = u.assigned \cup {c[1]} /\ t.lim = u.lim /\ t.level[c[1][1]] = Len(u.lim)
        /\ \A v \in Vars : v # c[1][1] => t.level[v] = u.level[v]
    BY <1>3, <2>2, <2>8, EnqueueFields
  <2> QED BY <2>7, <2>9
<1> QED BY <1>4, <1>5

\* The backjump keeps what was assigned up to its level.
LEMMA BackKeeps ==
  ASSUME NEW s, Books(s), NEW lv \in Nat, Len(s.lim) > lv, NEW b, b = CancelUntil(s, lv)
  PROVE  /\ b.level = s.level /\ Len(b.lim) = lv /\ b.assigned \subseteq s.assigned
         /\ \A q \in s.assigned : s.level[q[1]] <= lv => q \in b.assigned
<1>1. PICK n : n = s.lim[lv + 1]
  OBVIOUS
<1>2. CancelledTo(s, lv, n, b)
  BY <1>1, CancelFields
<1>3. Cancelled(s, lv, b)
  BY CancelBooks
<1>4. Len(b.trail) = n /\ n \in Nat /\ Len(s.trail) \in Nat
  <2>1. Typed(s)
    BY BooksAre
  <2> QED BY <1>2, <2>1, TypedIs DEF CancelledTo
<1>5. b.level = s.level /\ Len(b.lim) = lv
      /\ \A q : q \in b.assigned <=> q \in s.assigned /\ \A i \in (n + 1)..Len(s.trail) : s.trail[i] # q
  BY <1>2 DEF CancelledTo
<1>6. \A i \in 1..Len(s.trail) : i \in 1..n <=> Lv(s, i) <= lv
  BY <1>3, <1>4 DEF Cancelled
<1>7. ASSUME NEW q \in s.assigned, s.level[q[1]] <= lv, NEW i \in (n + 1)..Len(s.trail) PROVE s.trail[i] # q
  <2>1. i \in 1..Len(s.trail) /\ i \notin 1..n
    BY <1>4
  <2>2. ~(Lv(s, i) <= lv)
    BY <1>6, <2>1
  <2> QED BY <1>7, <2>2 DEF Lv
<1> QED BY <1>5, <1>7

\* A conflict: more at the level the search goes back to.
LEMMA LearnAhead ==
  ASSUME NEW s, NEW a, NEW r, InConflict(s, a, r), Level(s) > 0, NEW t, t = LearnFrom(s, r)
  PROVE  Typed(s) /\ Typed(t) /\ Ahead(s, t)
<1>1. Seeks(s, a) /\ Books(s) /\ Typed(s)
  BY BooksAre DEF InConflict, Ready, Seeks
<1>2. Conflicting(s, r)
  BY <1>1 DEF InConflict, Conflicting, Level, Seeks
<1>3. PICK c : c = Learnt(s, r)
  OBVIOUS
<1>4. PICK lv : lv = BacktrackLevel(s, c)
  OBVIOUS
<1>5. lv \in Nat /\ Len(s.lim) > lv /\ Len(s.lim) \in Nat
  BY <1>1, <1>2, <1>3, <1>4, BackBelow, TypedIs
<1>6. PICK b : b = CancelUntil(s, BacktrackLevel(s, c))
  OBVIOUS
<1>7. Seeks(b, a) /\ Asserting(b, c)
  BY <1>1, <1>2, <1>3, <1>6, BackIs
<1>8. t = LearnedTo(b, c)
  BY <1>3, <1>6 DEF LearnFrom
<1>9. /\ b.level = s.level /\ Len(b.lim) = lv /\ b.assigned \subseteq s.assigned
      /\ \A q \in s.assigned : s.level[q[1]] <= lv => q \in b.assigned
  BY <1>1, <1>4, <1>5, <1>6, BackKeeps
<1>10. PICK p : p = c[1]
  OBVIOUS
<1>11. /\ t.assigned = b.assigned \cup {p} /\ Len(t.lim) = lv /\ t.level[p[1]] = lv
       /\ \A v \in Vars : v # p[1] => t.level[v] = b.level[v]
  BY <1>7, <1>8, <1>9, <1>10, LearntOne
<1>12. Open(b, p[1])
  BY <1>7, <1>10 DEF Asserting
<1>13. \A q \in b.assigned : q[1] # p[1] /\ t.level[q[1]] = s.level[q[1]]
  <2>1. s.assigned \subseteq AllLits
    BY <1>1 DEF Typed, SolverType
  <2> SUFFICES ASSUME NEW q \in b.assigned PROVE q[1] # p[1] /\ t.level[q[1]] = s.level[q[1]]
    OBVIOUS
  <2>2. q \in AllLits /\ q[1] \in Vars
    BY <1>9, <2>1, Literals
  <2>3. q[1] # p[1]
    BY <1>12, <2>2 DEF Open, AllLits, LitsOf
  <2> QED BY <1>9, <1>11, <2>2, <2>3
<1>14. ASSUME NEW k \in 0..(lv - 1) PROVE k \in 0..Len(s.lim) /\ SettledTo(t, k) = SettledTo(s, k)
  <2>1. k <= lv /\ ~(lv <= k) /\ k \in 0..Len(s.lim) /\ k \in Nat
    BY <1>5
  <2>2. ASSUME NEW q \in SettledTo(s, k) PROVE q \in SettledTo(t, k)
    <3>1. q \in s.assigned /\ s.level[q[1]] <= k
      BY DEF SettledTo
    <3>2. s.level[q[1]] \in Nat
      <4>1. s.assigned \subseteq AllLits /\ s.level \in [Vars -> Nat]
        BY <1>1 DEF Typed, SolverType
      <4> QED BY <3>1, <4>1, Literals
    <3>3. s.level[q[1]] <= lv
      BY <1>5, <2>1, <3>1, <3>2
    <3>4. q \in b.assigned
      BY <1>9, <3>1, <3>3
    <3> QED BY <1>11, <1>13, <3>1, <3>4 DEF SettledTo
  <2>3. ASSUME NEW q \in SettledTo(t, k) PROVE q \in SettledTo(s, k)
    <3>1. q \in t.assigned /\ t.level[q[1]] <= k
      BY DEF SettledTo
    <3>2. q # p
      BY <1>11, <2>1, <3>1
    <3>3. q \in b.assigned
      BY <1>11, <3>1, <3>2
    <3> QED BY <1>9, <1>13, <3>1, <3>3 DEF SettledTo
  <2> QED BY <2>1, <2>2, <2>3
<1>15. SettledTo(s, lv) \subseteq SettledTo(t, lv)
  <2> SUFFICES ASSUME NEW q \in SettledTo(s, lv) PROVE q \in SettledTo(t, lv)
    OBVIOUS
  <2>1. q \in s.assigned /\ s.level[q[1]] <= lv
    BY DEF SettledTo
  <2>2. q \in b.assigned
    BY <1>9, <2>1
  <2> QED BY <1>11, <1>13, <2>1, <2>2 DEF SettledTo
<1>16. p \in SettledTo(t, lv) /\ p \notin SettledTo(s, lv)
  <2>1. p \in SettledTo(t, lv)
    BY <1>5, <1>11 DEF SettledTo
  <2>2. ASSUME p \in SettledTo(s, lv) PROVE FALSE
    <3>1. p \in b.assigned
      BY <1>9, <2>2 DEF SettledTo
    <3> QED BY <1>13, <3>1
  <2> QED BY <2>1, <2>2
<1>17. Ahead(s, t)
  <2>1. lv \in 0..Len(t.lim)
    BY <1>5, <1>11
  <2> QED BY <1>14, <1>15, <1>16, <2>1 DEF Ahead
<1>18. InPropagate(t, a)
  BY LearnStep
<1>19. Typed(t)
  BY <1>18, BooksAre DEF InPropagate, Ready, Seeks
<1> QED BY <1>1, <1>17, <1>19

\* The search is ahead when Settled is.
LEMMA AheadSettled ==
  ASSUME NEW s, s = solver, NEW t, t = solver', Typed(s), Typed(t), Ahead(s, t)
  PROVE  \E l \in 0..Level(solver)' :
           /\ \A k \in 0..(l - 1) : k \in DOMAIN Settled /\ Settled'[k] = Settled[k]
           /\ l \in DOMAIN Settled => Settled'[l] > Settled[l]
<1>1. Settled = Counts(s)
  BY DEF Settled, Counts, SettledTo, Level
<1>2. Settled' = Counts(t)
  BY DEF Settled, Counts, SettledTo, Level
<1>3. Level(solver)' = Len(t.lim)
  BY DEF Level
<1> QED BY <1>1, <1>2, <1>3, AheadCounts

\* Steps that get the search ahead.
Forward ==
  \E l \in 0..Level(solver)' :
    /\ \A k \in 0..(l - 1) : k \in DOMAIN Settled /\ Settled'[k] = Settled[k]
    /\ l \in DOMAIN Settled => Settled'[l] > Settled[l]

\* analyze() and what follows.
LEMMA LearnForward ==
  ASSUME SolverOK, Learn
  PROVE  Forward
<1>1. PICK s, a, r : s = solver /\ a = asked /\ r = confl
  OBVIOUS
<1>2. PICK t : t = LearnFrom(s, r)
  OBVIOUS
<1>3. phase = "conflict" /\ Level(s) > 0
  BY <1>1 DEF Learn
<1>4. solver' = t
  BY <1>1, <1>2 DEF Learn, LearnFrom, LearnedTo
<1>5. Phased(s, phase, r, a)
  BY <1>1 DEF SolverOK
<1>6. InConflict(s, a, r)
  BY <1>3, <1>5, PhaseIs
<1>7. Typed(s) /\ Typed(t) /\ Ahead(s, t)
  BY <1>2, <1>3, <1>6, LearnAhead
<1> QED BY <1>1, <1>4, <1>7, AheadSettled DEF Forward

\* An assumption becomes a decision.
LEMMA AssumeForward ==
  ASSUME SolverOK, Assume
  PROVE  Forward
<1>1. PICK s, a, u : s = solver /\ a = asked /\ u = AtAssumption
  OBVIOUS
<1>2. PICK p : p = a[Level(u) + 1]
  OBVIOUS
<1>3. phase = "decide" /\ Level(u) < Len(a) /\ ~False(u, p) /\ Decide(u, p)
  BY <1>1, <1>2 DEF Assume
<1>4. u = LevelsFor(s, a)
  BY <1>1, AtAssumptionIs
<1>5. Phased(s, phase, confl, a)
  BY <1>1 DEF SolverOK
<1>6. InSearch(s, a)
  BY <1>3, <1>5, PhaseIs
<1>7. PICK t : t = Decided(u, p)
  OBVIOUS
<1>8. Typed(s) /\ Typed(t) /\ Ahead(s, t)
  BY <1>2, <1>3, <1>4, <1>6, <1>7, AssumeAhead
<1>9. solver' = t
  BY <1>3, <1>7 DEF Decide, Decided
<1> QED BY <1>1, <1>8, <1>9, AheadSettled DEF Forward

\* A variable is picked.
LEMMA BranchForward ==
  ASSUME SolverOK, Branch
  PROVE  Forward
<1>1. PICK s, a, u : s = solver /\ a = asked /\ u = AtAssumption
  OBVIOUS
<1>2. phase = "decide" /\ Level(u) >= Len(a)
  BY <1>1 DEF Branch
<1>3. PICK v \in {x \in u.heap : Open(u, x)}, b \in BOOLEAN : Decide([u EXCEPT !.heap = {x \in @ \ {v} : Open(u, x)}], <<v, b>>)
  BY <1>1 DEF Branch
<1>4. PICK h, t : h = {x \in u.heap \ {v} : Open(u, x)} /\ t = Decided([u EXCEPT !.heap = h], <<v, b>>)
  OBVIOUS
<1>5. u = LevelsFor(s, a)
  BY <1>1, AtAssumptionIs
<1>6. Phased(s, phase, confl, a)
  BY <1>1 DEF SolverOK
<1>7. InSearch(s, a)
  BY <1>2, <1>6, PhaseIs
<1>8. v \in u.heap /\ Open(u, v)
  BY <1>3
<1>9. Typed(s) /\ Typed(t) /\ Ahead(s, t)
  BY <1>2, <1>4, <1>5, <1>7, <1>8, PickAhead
<1>10. solver' = t
  BY <1>3, <1>4 DEF Decide, Decided
<1> QED BY <1>1, <1>9, <1>10, AheadSettled DEF Forward

\* Which steps end the phases "conflict" and "decide" with a propagation.
LEMMA AheadSteps ==
  ASSUME [Next]_vars, phase \in {"conflict", "decide"}, phase' = "propagate"
  PROVE  Learn \/ Assume \/ Branch
<1>1. ASSUME NEW ans, NEW u, Finish(u, ans) PROVE FALSE
  BY <1>1 DEF Finish
<1>2. ASSUME Search PROVE Learn \/ Assume \/ Branch
  BY <1>1, <1>2 DEF Search, Contradictory, PropagateAll, RootConflict, Restart, Abandon, Prepare, AssumptionFails,
                    ModelFound, Interrupt
<1>3. ASSUME NEW op, Call(op) PROVE FALSE
  BY <1>3 DEF Call
<1>4. ~CallNewVar /\ ~CallAddClause /\ ~CallReleaseVar /\ ~CallImplies /\ ~CallDimacs /\ ~CallSolve
  BY <1>3 DEF CallNewVar, CallAddClause, CallReleaseVar, CallImplies, CallDimacs, CallSolve
<1>5. ~ClearInterrupt /\ ~UNCHANGED vars
  BY DEF ClearInterrupt, vars, searchVars
<1> QED BY <1>2, <1>4, <1>5 DEF Next, Searching

\* Every conflict and every decision gets the search ahead, which is why it
\* ends between two restarts.
THEOREM SearchAlwaysAdvances ==
  ASSUME \A s \in Scripts : ProperUse(s)
  PROVE  Spec => SearchAdvances
<1>1. ASSUME SolverOK, [Next]_vars
      PROVE  [(phase \in {"conflict", "decide"} /\ phase' = "propagate") =>
                \E l \in 0..Level(solver)' :
                  /\ \A k \in 0..(l - 1) : k \in DOMAIN Settled /\ Settled'[k] = Settled[k]
                  /\ l \in DOMAIN Settled => Settled'[l] > Settled[l]]_vars
  <2> SUFFICES ASSUME phase \in {"conflict", "decide"}, phase' = "propagate" PROVE Forward
    BY DEF Forward
  <2>1. Learn \/ Assume \/ Branch
    BY <1>1, AheadSteps
  <2> QED BY <1>1, <2>1, LearnForward, AssumeForward, BranchForward
<1> QED BY <1>1, SolverIsOK, PTL DEF Spec, SearchAdvances
=============================================================================
