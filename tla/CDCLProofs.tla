----------------------------- MODULE CDCLProofs -----------------------------
(***************************************************************************)
(* The tables of the solver: what its members say of each other, and that  *)
(* every operation on them, propagate() and what the user may call between *)
(* searches included, keeps that.                                          *)
(***************************************************************************)
EXTENDS CDCL, FiniteSetTheorems, SequenceTheorems, WellFoundedInduction, TLAPS

\* The literals of the solver's variables.
AllLits == LitsOf(Vars)

\* Clauses: at least two literals of different variables.
ClauseSeq ==
  {c \in Seq(AllLits) : Len(c) >= 2 /\ \A i, j \in 1..Len(c) : c[i][1] = c[j][1] => i = j}

Watcher == [ref : Nat, blocker : AllLits]

\* What the members of Solver can be.
SolverType ==
  [clause   : UNION {[D -> ClauseSeq] : D \in SUBSET (Nat \ {0})},
   learnts  : SUBSET Nat,
   watches  : [AllLits -> Seq(Watcher)],
   trail    : Seq(AllLits),
   lim      : Seq(Nat),
   qhead    : Nat,
   assigned : SUBSET AllLits,
   reason   : [Vars -> Nat],
   level    : [Vars -> Nat],
   heap     : SUBSET Vars,
   ok       : BOOLEAN,
   nextVar  : Nat,
   released : Seq(Vars),
   free     : Seq(Vars),
   simplified : Int]

\* The clause tables are finite, and the learnt clauses are clauses.
Typed(s) == s \in SolverType /\ IsFiniteSet(DOMAIN s.clause) /\ s.learnts \subseteq DOMAIN s.clause

\* The decision level of the i-th literal on the trail.
Lv(s, i) == s.level[s.trail[i][1]]

OnTrail(s, p) == \E i \in 1..Len(s.trail) : s.trail[i] = p

\* Literal p was assigned at level 0.
AtRoot(s, p) == \E i \in 1..Len(s.trail) : s.trail[i] = p /\ Lv(s, i) = 0

\* Variable v may be handed out again.
IsFree(s, v) == \E i \in 1..Len(s.free) : s.free[i] = v

\* Literal p belongs to a variable that exists and is not free.
Usable(s, p) == p \in AllLits /\ p[1] < s.nextVar /\ ~IsFree(s, p[1])

\* The trail has each variable at most once, and all that is assigned except
\* for values that variables had when they were released.
TrailOK(s) ==
  /\ \A i, j \in 1..Len(s.trail) : s.trail[i][1] = s.trail[j][1] => i = j
  /\ \A i \in 1..Len(s.trail) : s.trail[i] \in s.assigned /\ Usable(s, s.trail[i])
  /\ \A p \in s.assigned : OnTrail(s, p) \/ IsFree(s, p[1])
  /\ \A p \in s.assigned : Neg(p) \notin s.assigned
  /\ s.qhead <= Len(s.trail)

\* The levels are what the ends of the levels on the trail say, and all
\* levels but the last are propagated.
LevelsOK(s) ==
  /\ \A l \in 1..Len(s.lim) : s.lim[l] <= s.qhead
  /\ \A l, k \in 1..Len(s.lim) : l <= k => s.lim[l] <= s.lim[k]
  /\ \A i \in 1..Len(s.trail) :
       Lv(s, i) <= Len(s.lim) /\ \A l \in 1..Len(s.lim) : Lv(s, i) >= l <=> i > s.lim[l]

\* Clause r implies the i-th literal on the trail from the literals before.
Explains(s, r, i) ==
  /\ r \in DOMAIN s.clause /\ s.clause[r][1] = s.trail[i]
  /\ \A k \in 2..Len(s.clause[r]) : \E j \in 1..(i - 1) : s.trail[j] = Neg(s.clause[r][k])

ReasonsOK(s) ==
  \A i \in 1..Len(s.trail) :
    s.reason[s.trail[i][1]] # NoClause => Explains(s, s.reason[s.trail[i][1]], i)

\* Literal p is one of the first two of clause r.
Watched(s, r, p) == r \in DOMAIN s.clause /\ (s.clause[r][1] = p \/ s.clause[r][2] = p)

InClause(s, r, p) == \E k \in 1..Len(s.clause[r]) : s.clause[r][k] = p

\* Blockers are literals of their clauses or were trimmed off at level 0.
BlockerOK(s, w) == InClause(s, w.ref, w.blocker) \/ AtRoot(s, Neg(w.blocker))

\* The watch list ws is that of the literal p.
WatchedBy(s, p, ws) ==
  /\ \A i \in 1..Len(ws) : Watched(s, ws[i].ref, Neg(p)) /\ BlockerOK(s, ws[i])
  /\ \A i, j \in 1..Len(ws) : ws[i].ref = ws[j].ref => i = j
  /\ \A r \in DOMAIN s.clause : Watched(s, r, Neg(p)) => \E i \in 1..Len(ws) : ws[i].ref = r

WatchesOK(s) == \A p \in AllLits : WatchedBy(s, p, s.watches[p])

\* Clause r was true when its literal that the j-th literal on the trail makes
\* false was looked at, and is as long as that is false.
AwakeAt(s, r, j) ==
  \A k \in {1, 2} :
    s.trail[j] = Neg(s.clause[r][k]) =>
      \E i \in 1..Len(s.trail) : InClause(s, r, s.trail[i]) /\ Lv(s, i) <= Lv(s, j)

AwakeTo(s, n) == \A r \in DOMAIN s.clause : \A j \in 1..n : AwakeAt(s, r, j)

HeapOK(s) ==
  /\ \A v \in 0..(s.nextVar - 1) : Open(s, v) => v \in s.heap
  /\ \A v \in s.heap : v < s.nextVar
  /\ s.nextVar <= MaxVars

\* The free variables are distinct, and have a value.
FreeOK(s) ==
  /\ \A i, j \in 1..Len(s.free) : s.free[i] = s.free[j] => i = j
  /\ \A i \in 1..Len(s.free) : s.free[i] < s.nextVar /\ ~Open(s, s.free[i])

\* The solver mentions only literals of L.
Within(s, L) ==
  /\ \A r \in DOMAIN s.clause : \A k \in 1..Len(s.clause[r]) : s.clause[r][k] \in L
  /\ \A p \in AllLits : \A i \in 1..Len(s.watches[p]) : s.watches[p][i].blocker \in L

UsableLits(s) == {p \in AllLits : Usable(s, p)}

\* Assignment m is a model of the clauses and of what holds at level 0.
Means(s, m) ==
  /\ \A r \in DOMAIN s.clause : \E k \in 1..Len(s.clause[r]) : s.clause[r][k] \in m
  /\ \A i \in 1..Len(s.trail) : Lv(s, i) = 0 => s.trail[i] \in m

Models == {m \in SUBSET AllLits : \A p \in AllLits : p \in m <=> Neg(p) \notin m}

\* The members of Solver agree with each other.
Books(s) ==
  /\ Typed(s) /\ TrailOK(s) /\ LevelsOK(s) /\ ReasonsOK(s) /\ HeapOK(s) /\ FreeOK(s)
  /\ Within(s, UsableLits(s))

-----------------------------------------------------------------------------
(* Induction, literals and sequences.                                      *)

\* Induction: a set of numbers with 0 and the successor of each of its
\* members below N has all numbers up to N.
LEMMA UpTo ==
  ASSUME NEW N \in Nat, NEW S, 0 \in S, \A n \in 0..N : n \in S /\ n # N => n + 1 \in S
  PROVE  0..N \subseteq S
<1> DEFINE R == {n \in 0..N : n \notin S}
<1> SUFFICES ASSUME R # {} PROVE FALSE
  OBVIOUS
<1>1. R \subseteq Nat
  OBVIOUS
<1> HIDE DEF R
<1>2. \E m \in R : \A x \in R : <<x, m>> \notin OpToRel(<, Nat)
  BY <1>1, NatLessThanWellFounded, WFMin
<1>3. PICK m \in R : \A x \in R : ~(x < m)
  BY <1>1, <1>2 DEF OpToRel
<1> USE DEF R
<1>4. m \in 0..N /\ m # 0 /\ m - 1 \in 0..N /\ m - 1 # N /\ m - 1 < m /\ (m - 1) + 1 = m
  BY <1>3
<1>5. m - 1 \in S
  BY <1>3, <1>4
<1>6. (m - 1) + 1 \in S
  BY <1>4, <1>5
<1> QED BY <1>3, <1>4, <1>6

\* Induction over all smaller numbers.
LEMMA FromSmaller ==
  ASSUME NEW D \in SUBSET Nat, NEW S, \A n \in D : (\A k \in D : k < n => k \in S) => n \in S
  PROVE  D \subseteq S
<1> DEFINE R == {n \in D : n \notin S}
<1> SUFFICES ASSUME R # {} PROVE FALSE
  OBVIOUS
<1>1. R \subseteq Nat
  OBVIOUS
<1> HIDE DEF R
<1>2. \E m \in R : \A x \in R : <<x, m>> \notin OpToRel(<, Nat)
  BY <1>1, NatLessThanWellFounded, WFMin
<1>3. PICK m \in R : \A x \in R : ~(x < m)
  BY <1>1, <1>2 DEF OpToRel
<1> QED BY <1>3 DEF R

\* The bounds are numbers.
LEMMA Bounds == MaxVars \in Nat /\ Vars = 0..(MaxVars - 1)
  BY CDCLAssumption DEF Vars

\* Negation: the literals of a variable are two, each the negation of the
\* other (toInt, operator~ and var of SolverTypes.h).
LEMMA Literals ==
  ASSUME NEW p \in AllLits
  PROVE  /\ Neg(p) \in AllLits /\ Neg(Neg(p)) = p /\ Neg(p) # p
         /\ p[1] \in Vars /\ p[1] \in Nat /\ Neg(p)[1] = p[1]
         /\ \A q \in AllLits : q[1] = p[1] => q = p \/ q = Neg(p)
<1>1. ASSUME NEW q \in AllLits
      PROVE  \E v \in Vars : q = <<v, TRUE>> \/ q = <<v, FALSE>>
  <2>1. PICK v \in Vars : \E b \in BOOLEAN : q = <<v, b>>
    BY DEF AllLits, LitsOf
  <2>2. q = <<v, TRUE>> \/ q = <<v, FALSE>>
    BY <2>1, Zenon
  <2> QED BY <2>2
<1>2. PICK v \in Vars : p = <<v, TRUE>> \/ p = <<v, FALSE>>
  BY <1>1
<1>3. \A w : /\ Neg(<<w, TRUE>>) = <<w, FALSE>> /\ <<w, TRUE>>[1] = w
            /\ Neg(<<w, FALSE>>) = <<w, TRUE>> /\ <<w, FALSE>>[1] = w
            /\ <<w, TRUE>> # <<w, FALSE>>
  BY DEF Neg
<1>4. <<v, TRUE>> \in AllLits /\ <<v, FALSE>> \in AllLits
  BY DEF AllLits, LitsOf
<1>5. ASSUME NEW q \in AllLits, q[1] = v
      PROVE  q = <<v, TRUE>> \/ q = <<v, FALSE>>
  <2>1. PICK w \in Vars : q = <<w, TRUE>> \/ q = <<w, FALSE>>
    BY <1>1
  <2>2. w = v
    BY <1>3, <1>5, <2>1
  <2> QED BY <2>1, <2>2
<1>6. v \in Nat
  BY Bounds
<1>7. CASE p = <<v, TRUE>>
  <2>1. Neg(p) = <<v, FALSE>> /\ p[1] = v
    BY <1>3, <1>7
  <2> QED BY <1>3, <1>4, <1>5, <1>6, <1>7, <2>1
<1>8. CASE p = <<v, FALSE>>
  <2>1. Neg(p) = <<v, TRUE>> /\ p[1] = v
    BY <1>3, <1>8
  <2> QED BY <1>3, <1>4, <1>5, <1>6, <1>8, <2>1
<1> QED BY <1>2, <1>7, <1>8

\* A sequence has members at the numbers up to its length.
LEMMA SeqIs ==
  ASSUME NEW S, NEW q \in Seq(S)
  PROVE  /\ Len(q) \in Nat /\ DOMAIN q = 1..Len(q)
         /\ \A i \in 1..Len(q) : q[i] \in S
         /\ \A x : x \in Range(q) <=> \E i \in 1..Len(q) : q[i] = x
<1>1. Len(q) \in Nat /\ DOMAIN q = 1..Len(q) /\ \A i \in 1..Len(q) : q[i] \in S
  BY LenProperties
<1>2. \A x : x \in Range(q) <=> \E i \in 1..Len(q) : q[i] = x
  BY <1>1 DEF Range
<1> QED BY <1>1, <1>2

\* Every clause has two different literals to watch.
LEMMA ClauseIs ==
  ASSUME NEW c \in ClauseSeq
  PROVE  /\ c \in Seq(AllLits) /\ Len(c) \in Nat /\ Len(c) >= 2 /\ DOMAIN c = 1..Len(c)
         /\ 1 \in 1..Len(c) /\ 2 \in 1..Len(c)
         /\ \A i \in 1..Len(c) : c[i] \in AllLits
         /\ \A i, j \in 1..Len(c) : c[i][1] = c[j][1] => i = j
<1>1. c \in Seq(AllLits) /\ Len(c) >= 2
  BY DEF ClauseSeq
<1>2. Len(c) \in Nat /\ DOMAIN c = 1..Len(c) /\ \A i \in 1..Len(c) : c[i] \in AllLits
  BY <1>1, LenProperties
<1>3. 1 \in 1..Len(c) /\ 2 \in 1..Len(c)
  BY <1>1, <1>2
<1> QED BY <1>1, <1>2, <1>3 DEF ClauseSeq

\* Two literals of a clause change places.
Swapped(c, i, j) == [c EXCEPT ![i] = c[j], ![j] = c[i]]

\* What a clause is after two of its literals changed places.
LEMMA SwappedIs ==
  ASSUME NEW c \in ClauseSeq, NEW i \in 1..Len(c), NEW j \in 1..Len(c), NEW d, d = Swapped(c, i, j)
  PROVE  /\ d \in ClauseSeq /\ Len(d) = Len(c)
         /\ d[i] = c[j] /\ d[j] = c[i] /\ \A k \in 1..Len(c) : k # i /\ k # j => d[k] = c[k]
<1>0. c \in Seq(AllLits) /\ Len(c) \in Nat /\ Len(c) >= 2 /\ DOMAIN c = 1..Len(c)
      /\ (\A k \in 1..Len(c) : c[k] \in AllLits)
      /\ (\A k, l \in 1..Len(c) : c[k][1] = c[l][1] => k = l)
  BY ClauseIs
<1>1. \A k \in 1..Len(c) : d[k] = IF k = j THEN c[i] ELSE IF k = i THEN c[j] ELSE c[k]
  BY <1>0 DEF Swapped
<1>2. DOMAIN d = 1..Len(c)
  BY <1>0 DEF Swapped
<1>3. \A k \in 1..Len(c) : d[k] \in AllLits
  BY <1>0, <1>1
<1>4. d \in Seq(AllLits) /\ Len(d) = Len(c)
  <2>1. d = [k \in 1..Len(c) |-> d[k]]
    BY <1>0, <1>2 DEF Swapped
  <2>2. d \in [1..Len(c) -> AllLits]
    BY <1>3, <2>1
  <2> QED BY <1>0, <2>2, SeqDef
<1>5. \A k, l \in 1..Len(d) : d[k][1] = d[l][1] => k = l
  BY <1>0, <1>1, <1>4
<1>6. d \in ClauseSeq
  BY <1>0, <1>4, <1>5 DEF ClauseSeq
<1> QED BY <1>1, <1>4, <1>6

\* Clauses c and d have the same literals.
SameLits(c, d) == \A x : (\E k \in 1..Len(c) : c[k] = x) <=> (\E k \in 1..Len(d) : d[k] = x)

\* Two literals that change places stay in the clause.
LEMMA SwappedHas ==
  ASSUME NEW c \in ClauseSeq, NEW i \in 1..Len(c), NEW j \in 1..Len(c), NEW d, d = Swapped(c, i, j)
  PROVE  SameLits(c, d)
<1>1. /\ Len(d) = Len(c)
      /\ d[i] = c[j] /\ d[j] = c[i] /\ \A k \in 1..Len(c) : k # i /\ k # j => d[k] = c[k]
  BY SwappedIs
<1> QED BY <1>1 DEF SameLits

-----------------------------------------------------------------------------
(* The loops.                                                              *)

\* The steps of the loops: keeping a member of a set, a number of a set,
\* looking at a watcher, removing a clause, making an assumption, resolving
\* with a reason, following an implication, tracing one back, following unit
\* clauses, propagating a literal and giving an assumption a level.
Stepped(kind, c, x, y) ==
  IF kind = "only" THEN (IF y \in c THEN Append(x, y) ELSE x)
  ELSE IF kind = "number" THEN (IF y - 1 \in c THEN Append(x, y - 1) ELSE x)
  ELSE IF kind = "visit" THEN Visit(x, y, c)
  ELSE IF kind = "remove" THEN RemoveClause(x, y)
  ELSE IF kind = "assume" THEN AssumeLit(x, y)
  ELSE IF kind = "resolve" THEN Resolve(c, x, y)
  ELSE IF kind = "follow" THEN (IF Follows(c[1], c[2], x, y) THEN x \cup {y[1]} ELSE x)
  ELSE IF kind = "trace" THEN Trace(c, x, y)
  ELSE IF kind = "wave" THEN x \cup UNION {Implied(d, x) : d \in c}
  ELSE IF kind = "round" THEN (IF x.s.qhead < Len(x.s.trail) THEN PropagateLit(x) ELSE x)
  ELSE (IF Level(x) < Len(c) /\ True(x, c[Level(x) + 1]) THEN NewDecisionLevel(x) ELSE x)

\* f has what a loop over seq has after each round.
IsLoop(f, kind, c, base, seq) ==
  f = [i \in 0..Len(seq) |-> IF i = 0 THEN base ELSE Stepped(kind, c, f[i - 1], seq[i])]

\* f has what a loop has after each round, the last of which gives result.
Rounds(f, kind, c, base, seq, result) ==
  /\ f[0] = base /\ f[Len(seq)] = result
  /\ \A i \in 1..Len(seq) : f[i] = Stepped(kind, c, f[i - 1], seq[i])

\* The rounds of a loop are a function.
LEMMA RoundsExist ==
  ASSUME NEW kind, NEW c, NEW base, NEW seq, Len(seq) \in Nat
  PROVE  \E f : IsLoop(f, kind, c, base, seq)
<1> DEFINE Exists(n) == \E f : f = [i \in 0..n |-> IF i = 0 THEN base ELSE Stepped(kind, c, f[i - 1], seq[i])]
           S == {n \in Nat : Exists(n)}
<1>1. 0 \in S
  <2> DEFINE f == [i \in 0..0 |-> base]
  <2>1. f = [i \in 0..0 |-> IF i = 0 THEN base ELSE Stepped(kind, c, f[i - 1], seq[i])]
    OBVIOUS
  <2> QED BY <2>1
<1>2. ASSUME NEW n \in Nat, n \in S PROVE n + 1 \in S
  <2>1. PICK f : f = [i \in 0..n |-> IF i = 0 THEN base ELSE Stepped(kind, c, f[i - 1], seq[i])]
    BY <1>2
  <2> DEFINE g == [i \in 0..(n + 1) |-> IF i = n + 1 THEN Stepped(kind, c, f[n], seq[n + 1]) ELSE f[i]]
             h == [i \in 0..(n + 1) |-> IF i = 0 THEN base ELSE Stepped(kind, c, g[i - 1], seq[i])]
  <2>2. ASSUME NEW i \in 0..(n + 1) PROVE g[i] = h[i]
    <3>1. CASE i = 0
      <4>1. 0 \in 0..n /\ 0 # n + 1
        OBVIOUS
      <4>2. g[0] = f[0] /\ f[0] = base
        BY <2>1, <4>1
      <4> QED BY <3>1, <4>2
    <3>2. CASE i \in 1..n
      <4>1. i \in 0..n /\ i # 0 /\ i # n + 1 /\ i - 1 \in 0..n /\ i - 1 \in 0..(n + 1) /\ i - 1 # n + 1
        BY <3>2
      <4>2. g[i] = f[i] /\ g[i - 1] = f[i - 1] /\ f[i] = Stepped(kind, c, f[i - 1], seq[i])
        BY <2>1, <4>1
      <4> QED BY <4>1, <4>2
    <3>3. CASE i = n + 1
      <4>1. n \in 0..(n + 1) /\ n # n + 1 /\ i # 0 /\ i - 1 = n
        BY <3>3
      <4>2. g[i] = Stepped(kind, c, f[n], seq[n + 1]) /\ g[n] = f[n]
        BY <3>3, <4>1
      <4>3. h[i] = Stepped(kind, c, g[i - 1], seq[i])
        BY <4>1
      <4> QED BY <3>3, <4>1, <4>2, <4>3
    <3> QED BY <3>1, <3>2, <3>3
  <2>3. g = h
    BY <2>2
  <2>4. Exists(n + 1)
    BY <2>3
  <2> HIDE DEF Exists
  <2> QED BY <2>4
<1> HIDE DEF Exists
<1> HIDE DEF S
<1>3. PICK N \in Nat : N = Len(seq)
  OBVIOUS
<1>4. 0..N \subseteq S
  <2>1. N \in Nat
    BY <1>3
  <2>2. \A n \in 0..N : n \in S /\ n # N => n + 1 \in S
    BY <1>2, <2>1
  <2> QED BY <1>1, <2>1, <2>2, UpTo
<1> QED BY <1>3, <1>4 DEF S, Exists, IsLoop

\* The members of a sequence that are in a set, one by one.
LEMMA OnlyRounds ==
  ASSUME NEW seq, NEW S, Len(seq) \in Nat
  PROVE  \E f : Rounds(f, "only", S, <<>>, seq, Only(seq, S))
<1> DEFINE D == 0..Len(seq)
           g == CHOOSE f : f = [i \in D |-> IF i = 0 THEN <<>> ELSE IF seq[i] \in S THEN Append(f[i - 1], seq[i]) ELSE f[i - 1]]
<1>1. Only(seq, S) = g[Len(seq)]
  BY DEF Only
<1>2. \A x, y : Stepped("only", S, x, y) = IF y \in S THEN Append(x, y) ELSE x
  BY DEF Stepped
<1>3. \E f : f = [i \in D |-> IF i = 0 THEN <<>> ELSE IF seq[i] \in S THEN Append(f[i - 1], seq[i]) ELSE f[i - 1]]
  <2>0. PICK f : IsLoop(f, "only", S, <<>>, seq)
    BY RoundsExist
  <2>1. f = [i \in D |-> IF i = 0 THEN <<>> ELSE Stepped("only", S, f[i - 1], seq[i])]
    BY <2>0 DEF IsLoop
  <2> HIDE DEF D
  <2>2. f = [i \in D |-> IF i = 0 THEN <<>> ELSE IF seq[i] \in S THEN Append(f[i - 1], seq[i]) ELSE f[i - 1]]
    BY <1>2, <2>1, Zenon
  <2> QED BY <2>2
<1>4. g = [i \in D |-> IF i = 0 THEN <<>> ELSE IF seq[i] \in S THEN Append(g[i - 1], seq[i]) ELSE g[i - 1]]
  BY <1>3
<1> HIDE DEF g
<1>5. 0 \in D /\ \A i \in 1..Len(seq) : i \in D /\ i # 0
  OBVIOUS
<1> HIDE DEF D
<1>6. g[0] = <<>> /\ \A i \in 1..Len(seq) : g[i] = IF seq[i] \in S THEN Append(g[i - 1], seq[i]) ELSE g[i - 1]
  BY <1>4, <1>5
<1>7. \A i \in 1..Len(seq) : g[i] = Stepped("only", S, g[i - 1], seq[i])
  BY <1>2, <1>6
<1>8. Rounds(g, "only", S, <<>>, seq, Only(seq, S))
  BY <1>1, <1>6, <1>7 DEF Rounds
<1> QED BY <1>8

\* propagate() of one literal looks at the watchers one by one.
Visited(t, p, ws) == Through(LAMBDA u, w : Visit(u, w, p), t, ws)

\* The watchers of a literal, one by one.
LEMMA VisitRounds ==
  ASSUME NEW t, NEW p, NEW ws, Len(ws) \in Nat
  PROVE  \E f : Rounds(f, "visit", p, t, ws, Visited(t, p, ws))
<1> DEFINE D == 0..Len(ws)
           g == CHOOSE f : f = [i \in D |-> IF i = 0 THEN t ELSE Visit(f[i - 1], ws[i], p)]
<1>1. Visited(t, p, ws) = g[Len(ws)]
  BY DEF Visited, Through
<1>2. \A x, y : Stepped("visit", p, x, y) = Visit(x, y, p)
  BY DEF Stepped
<1>3. \E f : f = [i \in D |-> IF i = 0 THEN t ELSE Visit(f[i - 1], ws[i], p)]
  <2>0. PICK f : IsLoop(f, "visit", p, t, ws)
    BY RoundsExist
  <2>1. f = [i \in D |-> IF i = 0 THEN t ELSE Stepped("visit", p, f[i - 1], ws[i])]
    BY <2>0 DEF IsLoop
  <2> HIDE DEF D
  <2>2. f = [i \in D |-> IF i = 0 THEN t ELSE Visit(f[i - 1], ws[i], p)]
    BY <1>2, <2>1, Zenon
  <2> QED BY <2>2
<1>4. g = [i \in D |-> IF i = 0 THEN t ELSE Visit(g[i - 1], ws[i], p)]
  BY <1>3
<1> HIDE DEF g
<1>5. 0 \in D /\ \A i \in 1..Len(ws) : i \in D /\ i # 0
  OBVIOUS
<1> HIDE DEF D
<1>6. g[0] = t /\ \A i \in 1..Len(ws) : g[i] = Visit(g[i - 1], ws[i], p)
  BY <1>4, <1>5
<1> QED BY <1>1, <1>2, <1>6 DEF Rounds

\* The sequence of the clauses rs is removed.
Removed(s, seq) == Through(RemoveClause, s, seq)

\* Removing clauses one by one.
LEMMA RemoveRounds ==
  ASSUME NEW s, NEW seq, Len(seq) \in Nat
  PROVE  \E f : Rounds(f, "remove", 0, s, seq, Removed(s, seq))
<1> DEFINE D == 0..Len(seq)
           g == CHOOSE f : f = [i \in D |-> IF i = 0 THEN s ELSE RemoveClause(f[i - 1], seq[i])]
<1>1. Removed(s, seq) = g[Len(seq)]
  BY DEF Removed, Through
<1>2. \A x, y : Stepped("remove", 0, x, y) = RemoveClause(x, y)
  BY DEF Stepped
<1>3. \E f : f = [i \in D |-> IF i = 0 THEN s ELSE RemoveClause(f[i - 1], seq[i])]
  <2>0. PICK f : IsLoop(f, "remove", 0, s, seq)
    BY RoundsExist
  <2>1. f = [i \in D |-> IF i = 0 THEN s ELSE Stepped("remove", 0, f[i - 1], seq[i])]
    BY <2>0 DEF IsLoop
  <2> HIDE DEF D
  <2>2. f = [i \in D |-> IF i = 0 THEN s ELSE RemoveClause(f[i - 1], seq[i])]
    BY <1>2, <2>1, Zenon
  <2> QED BY <2>2
<1>4. g = [i \in D |-> IF i = 0 THEN s ELSE RemoveClause(g[i - 1], seq[i])]
  BY <1>3
<1> HIDE DEF g
<1>5. 0 \in D /\ \A i \in 1..Len(seq) : i \in D /\ i # 0
  OBVIOUS
<1> HIDE DEF D
<1>6. g[0] = s /\ \A i \in 1..Len(seq) : g[i] = RemoveClause(g[i - 1], seq[i])
  BY <1>4, <1>5
<1> QED BY <1>1, <1>2, <1>6 DEF Rounds

\* The assumptions of implies() are made.
Assumed(s, ps) == Through(AssumeLit, s, ps)

\* Making the assumptions of implies() one by one.
LEMMA AssumeRounds ==
  ASSUME NEW s, NEW ps, Len(ps) \in Nat
  PROVE  \E f : Rounds(f, "assume", 0, s, ps, Assumed(s, ps))
<1> DEFINE D == 0..Len(ps)
           g == CHOOSE f : f = [i \in D |-> IF i = 0 THEN s ELSE AssumeLit(f[i - 1], ps[i])]
<1>1. Assumed(s, ps) = g[Len(ps)]
  BY DEF Assumed, Through
<1>2. \A x, y : Stepped("assume", 0, x, y) = AssumeLit(x, y)
  BY DEF Stepped
<1>3. \E f : f = [i \in D |-> IF i = 0 THEN s ELSE AssumeLit(f[i - 1], ps[i])]
  <2>0. PICK f : IsLoop(f, "assume", 0, s, ps)
    BY RoundsExist
  <2>1. f = [i \in D |-> IF i = 0 THEN s ELSE Stepped("assume", 0, f[i - 1], ps[i])]
    BY <2>0 DEF IsLoop
  <2> HIDE DEF D
  <2>2. f = [i \in D |-> IF i = 0 THEN s ELSE AssumeLit(f[i - 1], ps[i])]
    BY <1>2, <2>1, Zenon
  <2> QED BY <2>2
<1>4. g = [i \in D |-> IF i = 0 THEN s ELSE AssumeLit(g[i - 1], ps[i])]
  BY <1>3
<1> HIDE DEF g
<1>5. 0 \in D /\ \A i \in 1..Len(ps) : i \in D /\ i # 0
  OBVIOUS
<1> HIDE DEF D
<1>6. g[0] = s /\ \A i \in 1..Len(ps) : g[i] = AssumeLit(g[i - 1], ps[i])
  BY <1>4, <1>5
<1> QED BY <1>1, <1>2, <1>6 DEF Rounds

\* The loop of analyze() over the trail.
Resolved(s, t, seq) == Through(LAMBDA x, p : Resolve(s, x, p), t, seq)

\* Resolving a conflict back along the trail.
LEMMA ResolveRounds ==
  ASSUME NEW s, NEW t, NEW seq, Len(seq) \in Nat
  PROVE  \E f : Rounds(f, "resolve", s, t, seq, Resolved(s, t, seq))
<1> DEFINE D == 0..Len(seq)
           g == CHOOSE f : f = [i \in D |-> IF i = 0 THEN t ELSE Resolve(s, f[i - 1], seq[i])]
<1>1. Resolved(s, t, seq) = g[Len(seq)]
  BY DEF Resolved, Through
<1>2. \A x, y : Stepped("resolve", s, x, y) = Resolve(s, x, y)
  BY DEF Stepped
<1>3. \E f : f = [i \in D |-> IF i = 0 THEN t ELSE Resolve(s, f[i - 1], seq[i])]
  <2>0. PICK f : IsLoop(f, "resolve", s, t, seq)
    BY RoundsExist
  <2>1. f = [i \in D |-> IF i = 0 THEN t ELSE Stepped("resolve", s, f[i - 1], seq[i])]
    BY <2>0 DEF IsLoop
  <2> HIDE DEF D
  <2>2. f = [i \in D |-> IF i = 0 THEN t ELSE Resolve(s, f[i - 1], seq[i])]
    BY <1>2, <2>1, Zenon
  <2> QED BY <2>2
<1>4. g = [i \in D |-> IF i = 0 THEN t ELSE Resolve(s, g[i - 1], seq[i])]
  BY <1>3
<1> HIDE DEF g
<1>5. 0 \in D /\ \A i \in 1..Len(seq) : i \in D /\ i # 0
  OBVIOUS
<1> HIDE DEF D
<1>6. g[0] = t /\ \A i \in 1..Len(seq) : g[i] = Resolve(s, g[i - 1], seq[i])
  BY <1>4, <1>5
<1> QED BY <1>1, <1>2, <1>6 DEF Rounds

\* What litRedundant() knows, along the trail.
LEMMA FollowRounds ==
  ASSUME NEW s, NEW source, Len(s.trail) \in Nat
  PROVE  \E f : Rounds(f, "follow", <<s, source>>, {}, s.trail, Redundant(s, source))
<1> DEFINE D == 0..Len(s.trail)
           g == CHOOSE f : f = [i \in D |-> IF i = 0 THEN {} ELSE IF Follows(s, source, f[i - 1], s.trail[i]) THEN f[i - 1] \cup {s.trail[i][1]} ELSE f[i - 1]]
<1>1. Redundant(s, source) = g[Len(s.trail)]
  BY DEF Redundant, Through
<1>2. \A x, y : Stepped("follow", <<s, source>>, x, y) = IF Follows(s, source, x, y) THEN x \cup {y[1]} ELSE x
  BY DEF Stepped
<1>3. \E f : f = [i \in D |-> IF i = 0 THEN {} ELSE IF Follows(s, source, f[i - 1], s.trail[i]) THEN f[i - 1] \cup {s.trail[i][1]} ELSE f[i - 1]]
  <2>0. PICK f : IsLoop(f, "follow", <<s, source>>, {}, s.trail)
    BY RoundsExist
  <2>1. f = [i \in D |-> IF i = 0 THEN {} ELSE Stepped("follow", <<s, source>>, f[i - 1], s.trail[i])]
    BY <2>0 DEF IsLoop
  <2> HIDE DEF D
  <2>2. f = [i \in D |-> IF i = 0 THEN {} ELSE IF Follows(s, source, f[i - 1], s.trail[i]) THEN f[i - 1] \cup {s.trail[i][1]} ELSE f[i - 1]]
    BY <1>2, <2>1, Zenon
  <2> QED BY <2>2
<1>4. g = [i \in D |-> IF i = 0 THEN {} ELSE IF Follows(s, source, g[i - 1], s.trail[i]) THEN g[i - 1] \cup {s.trail[i][1]} ELSE g[i - 1]]
  BY <1>3
<1> HIDE DEF g
<1>5. 0 \in D /\ \A i \in 1..Len(s.trail) : i \in D /\ i # 0
  OBVIOUS
<1> HIDE DEF D
<1>6. g[0] = {} /\ \A i \in 1..Len(s.trail) : g[i] = IF Follows(s, source, g[i - 1], s.trail[i]) THEN g[i - 1] \cup {s.trail[i][1]} ELSE g[i - 1]
  BY <1>4, <1>5
<1>7. \A i \in 1..Len(s.trail) : g[i] = Stepped("follow", <<s, source>>, g[i - 1], s.trail[i])
  BY <1>2, <1>6
<1>8. Rounds(g, "follow", <<s, source>>, {}, s.trail, Redundant(s, source))
  BY <1>1, <1>6, <1>7 DEF Rounds
<1> QED BY <1>8

\* The loop of analyzeFinal() over the trail.
Traced(s, t, seq) == Through(LAMBDA x, q : Trace(s, x, q), t, seq)

\* Tracing a conflict back to the assumptions.
LEMMA TraceRounds ==
  ASSUME NEW s, NEW t, NEW seq, Len(seq) \in Nat
  PROVE  \E f : Rounds(f, "trace", s, t, seq, Traced(s, t, seq))
<1> DEFINE D == 0..Len(seq)
           g == CHOOSE f : f = [i \in D |-> IF i = 0 THEN t ELSE Trace(s, f[i - 1], seq[i])]
<1>1. Traced(s, t, seq) = g[Len(seq)]
  BY DEF Traced, Through
<1>2. \A x, y : Stepped("trace", s, x, y) = Trace(s, x, y)
  BY DEF Stepped
<1>3. \E f : f = [i \in D |-> IF i = 0 THEN t ELSE Trace(s, f[i - 1], seq[i])]
  <2>0. PICK f : IsLoop(f, "trace", s, t, seq)
    BY RoundsExist
  <2>1. f = [i \in D |-> IF i = 0 THEN t ELSE Stepped("trace", s, f[i - 1], seq[i])]
    BY <2>0 DEF IsLoop
  <2> HIDE DEF D
  <2>2. f = [i \in D |-> IF i = 0 THEN t ELSE Trace(s, f[i - 1], seq[i])]
    BY <1>2, <2>1, Zenon
  <2> QED BY <2>2
<1>4. g = [i \in D |-> IF i = 0 THEN t ELSE Trace(s, g[i - 1], seq[i])]
  BY <1>3
<1> HIDE DEF g
<1>5. 0 \in D /\ \A i \in 1..Len(seq) : i \in D /\ i # 0
  OBVIOUS
<1> HIDE DEF D
<1>6. g[0] = t /\ \A i \in 1..Len(seq) : g[i] = Trace(s, g[i - 1], seq[i])
  BY <1>4, <1>5
<1> QED BY <1>1, <1>2, <1>6 DEF Rounds

\* Propagating the literals of the queue one by one.
LEMMA PropagateRounds ==
  ASSUME NEW s
  PROVE  \E f : Rounds(f, "round", 0, [s |-> s, kept |-> <<>>, confl |-> NoClause], [i \in 1..MaxVars |-> i], Propagate(s))
<1> DEFINE seq == [i \in 1..MaxVars |-> i]
<1>0. Len(seq) = MaxVars /\ MaxVars \in Nat
  BY Bounds
<1> DEFINE D == 0..Len(seq)
           g == CHOOSE f : f = [i \in D |-> IF i = 0 THEN [s |-> s, kept |-> <<>>, confl |-> NoClause] ELSE IF f[i - 1].s.qhead < Len(f[i - 1].s.trail) THEN PropagateLit(f[i - 1]) ELSE f[i - 1]]
<1>1. Propagate(s) = g[Len(seq)]
  BY <1>0 DEF Propagate, Repeat
<1> HIDE DEF seq
<1>2. \A x, y : Stepped("round", 0, x, y) = IF x.s.qhead < Len(x.s.trail) THEN PropagateLit(x) ELSE x
  BY DEF Stepped
<1>3. \E f : f = [i \in D |-> IF i = 0 THEN [s |-> s, kept |-> <<>>, confl |-> NoClause] ELSE IF f[i - 1].s.qhead < Len(f[i - 1].s.trail) THEN PropagateLit(f[i - 1]) ELSE f[i - 1]]
  <2>0. PICK f : IsLoop(f, "round", 0, [s |-> s, kept |-> <<>>, confl |-> NoClause], seq)
    BY <1>0, RoundsExist
  <2>1. f = [i \in D |-> IF i = 0 THEN [s |-> s, kept |-> <<>>, confl |-> NoClause] ELSE Stepped("round", 0, f[i - 1], seq[i])]
    BY <2>0 DEF IsLoop
  <2> HIDE DEF D
  <2>2. f = [i \in D |-> IF i = 0 THEN [s |-> s, kept |-> <<>>, confl |-> NoClause] ELSE IF f[i - 1].s.qhead < Len(f[i - 1].s.trail) THEN PropagateLit(f[i - 1]) ELSE f[i - 1]]
    BY <1>2, <2>1, Zenon
  <2> QED BY <2>2
<1>4. g = [i \in D |-> IF i = 0 THEN [s |-> s, kept |-> <<>>, confl |-> NoClause] ELSE IF g[i - 1].s.qhead < Len(g[i - 1].s.trail) THEN PropagateLit(g[i - 1]) ELSE g[i - 1]]
  BY <1>3
<1> HIDE DEF g
<1>5. 0 \in D /\ \A i \in 1..Len(seq) : i \in D /\ i # 0
  BY <1>0
<1> HIDE DEF D
<1>6. g[0] = [s |-> s, kept |-> <<>>, confl |-> NoClause] /\ \A i \in 1..Len(seq) : g[i] = IF g[i - 1].s.qhead < Len(g[i - 1].s.trail) THEN PropagateLit(g[i - 1]) ELSE g[i - 1]
  BY <1>4, <1>5
<1>7. Rounds(g, "round", 0, [s |-> s, kept |-> <<>>, confl |-> NoClause], seq, Propagate(s))
  BY <1>1, <1>2, <1>6 DEF Rounds
<1> QED BY <1>7 DEF seq

\* Levels for the assumptions a that hold already.
LevelsFor(s, a) ==
  Repeat(NewDecisionLevel, LAMBDA t : Level(t) < Len(a) /\ True(t, a[Level(t) + 1]), s, Len(a))

\* Giving levels to assumptions that hold already, one by one.
LEMMA LevelRounds ==
  ASSUME NEW s, NEW a, Len(a) \in Nat
  PROVE  \E f : Rounds(f, "level", a, s, [i \in 1..Len(a) |-> i], LevelsFor(s, a))
<1> DEFINE seq == [i \in 1..Len(a) |-> i]
<1>0. Len(seq) = Len(a) /\ Len(a) \in Nat
  OBVIOUS
<1> DEFINE D == 0..Len(seq)
           g == CHOOSE f : f = [i \in D |-> IF i = 0 THEN s ELSE IF Level(f[i - 1]) < Len(a) /\ True(f[i - 1], a[Level(f[i - 1]) + 1]) THEN NewDecisionLevel(f[i - 1]) ELSE f[i - 1]]
<1>1. LevelsFor(s, a) = g[Len(seq)]
  BY <1>0 DEF LevelsFor, Repeat
<1> HIDE DEF seq
<1>2. \A x, y : Stepped("level", a, x, y) = IF Level(x) < Len(a) /\ True(x, a[Level(x) + 1]) THEN NewDecisionLevel(x) ELSE x
  BY DEF Stepped
<1>3. \E f : f = [i \in D |-> IF i = 0 THEN s ELSE IF Level(f[i - 1]) < Len(a) /\ True(f[i - 1], a[Level(f[i - 1]) + 1]) THEN NewDecisionLevel(f[i - 1]) ELSE f[i - 1]]
  <2>0. PICK f : IsLoop(f, "level", a, s, seq)
    BY <1>0, RoundsExist
  <2>1. f = [i \in D |-> IF i = 0 THEN s ELSE Stepped("level", a, f[i - 1], seq[i])]
    BY <2>0 DEF IsLoop
  <2> HIDE DEF D
  <2>2. f = [i \in D |-> IF i = 0 THEN s ELSE IF Level(f[i - 1]) < Len(a) /\ True(f[i - 1], a[Level(f[i - 1]) + 1]) THEN NewDecisionLevel(f[i - 1]) ELSE f[i - 1]]
    BY <1>2, <2>1, Zenon
  <2> QED BY <2>2
<1>4. g = [i \in D |-> IF i = 0 THEN s ELSE IF Level(g[i - 1]) < Len(a) /\ True(g[i - 1], a[Level(g[i - 1]) + 1]) THEN NewDecisionLevel(g[i - 1]) ELSE g[i - 1]]
  BY <1>3
<1> HIDE DEF g
<1>5. 0 \in D /\ \A i \in 1..Len(seq) : i \in D /\ i # 0
  BY <1>0
<1> HIDE DEF D
<1>6. g[0] = s /\ \A i \in 1..Len(seq) : g[i] = IF Level(g[i - 1]) < Len(a) /\ True(g[i - 1], a[Level(g[i - 1]) + 1]) THEN NewDecisionLevel(g[i - 1]) ELSE g[i - 1]
  BY <1>4, <1>5
<1>7. Rounds(g, "level", a, s, seq, LevelsFor(s, a))
  BY <1>1, <1>2, <1>6 DEF Rounds
<1> QED BY <1>7 DEF seq

-----------------------------------------------------------------------------
(* Members of sequences.                                                   *)

\* Append, in terms of the members.
LEMMA AppendIs ==
  ASSUME NEW S, NEW q \in Seq(S), NEW x \in S, NEW r, r = Append(q, x)
  PROVE  /\ r \in Seq(S) /\ Len(r) = Len(q) + 1 /\ Len(q) \in Nat
         /\ r[Len(q) + 1] = x /\ \A i \in 1..Len(q) : r[i] = q[i]
  BY AppendProperties, LenProperties

\* e tells where the members of r are among the first n of seq: in the same
\* order, and all that are in S.
Picks(e, r, seq, S, n) ==
  /\ e \in [1..Len(r) -> 1..n]
  /\ \A i, j \in 1..Len(r) : i < j => e[i] < e[j]
  /\ \A i \in 1..Len(r) : r[i] = seq[e[i]] /\ r[i] \in S
  /\ \A k \in 1..n : seq[k] \in S => \E i \in 1..Len(r) : e[i] = k

\* One more member that is in S.
LEMMA PicksOne ==
  ASSUME NEW T, NEW r \in Seq(T), NEW seq, NEW S, NEW n \in Nat, NEW e, Picks(e, r, seq, S, n),
         seq[n + 1] \in S, seq[n + 1] \in T
  PROVE  Append(r, seq[n + 1]) \in Seq(T) /\ \E d : Picks(d, Append(r, seq[n + 1]), seq, S, n + 1)
<1>1. PICK q : q = Append(r, seq[n + 1])
  OBVIOUS
<1>2. q \in Seq(T) /\ Len(q) = Len(r) + 1 /\ Len(r) \in Nat /\ q[Len(r) + 1] = seq[n + 1]
      /\ \A i \in 1..Len(r) : q[i] = r[i]
  BY <1>1, AppendIs
<1>3. PICK N \in Nat : N = Len(r)
  BY <1>2
<1>4. /\ e \in [1..N -> 1..n] /\ (\A i, j \in 1..N : i < j => e[i] < e[j])
      /\ (\A i \in 1..N : r[i] = seq[e[i]] /\ r[i] \in S)
      /\ (\A k \in 1..n : seq[k] \in S => \E i \in 1..N : e[i] = k)
  BY <1>3 DEF Picks
<1> DEFINE d == [i \in 1..(N + 1) |-> IF i = N + 1 THEN n + 1 ELSE e[i]]
<1>5. (\A i \in 1..N : d[i] = e[i] /\ i \in 1..(N + 1)) /\ d[N + 1] = n + 1 /\ N + 1 \in 1..(N + 1)
  OBVIOUS
<1>6. d \in [1..(N + 1) -> 1..(n + 1)]
  <2>1. ASSUME NEW i \in 1..(N + 1) PROVE (IF i = N + 1 THEN n + 1 ELSE e[i]) \in 1..(n + 1)
    <3>1. CASE i = N + 1
      BY <3>1
    <3>2. CASE i # N + 1
      <4>1. i \in 1..N
        BY <3>2
      <4>2. e[i] \in 1..n
        BY <1>4, <4>1
      <4> QED BY <3>2, <4>2
    <3> QED BY <3>1, <3>2
  <2> QED BY <2>1
<1> HIDE DEF d
<1>7. \A i \in 1..(N + 1) : i \in 1..N \/ i = N + 1
  OBVIOUS
<1>8. ASSUME NEW i \in 1..(N + 1), NEW j \in 1..(N + 1), i < j PROVE d[i] < d[j]
  <2>1. i \in 1..N
    BY <1>8
  <2>2. d[i] \in 1..n
    BY <1>4, <1>5, <2>1
  <2>3. CASE j = N + 1
    BY <1>5, <2>2, <2>3
  <2>4. CASE j \in 1..N
    BY <1>4, <1>5, <1>8, <2>1, <2>4
  <2> QED BY <1>7, <2>3, <2>4
<1>9. \A i \in 1..(N + 1) : q[i] = seq[d[i]] /\ q[i] \in S
  BY <1>2, <1>3, <1>4, <1>5, <1>7
<1>10. ASSUME NEW k \in 1..(n + 1), seq[k] \in S PROVE \E i \in 1..(N + 1) : d[i] = k
  <2>1. CASE k = n + 1
    BY <1>5, <2>1
  <2>2. CASE k # n + 1
    <3>1. k \in 1..n
      BY <2>2
    <3> QED BY <1>4, <1>5, <1>10, <3>1
  <2> QED BY <2>1, <2>2
<1>11. Picks(d, q, seq, S, n + 1)
  BY <1>2, <1>3, <1>6, <1>8, <1>9, <1>10 DEF Picks
<1> QED BY <1>1, <1>2, <1>11

\* Only keeps the members of a set, in their order.
LEMMA OnlyIs ==
  ASSUME NEW T, NEW seq \in Seq(T), NEW S
  PROVE  Only(seq, S) \in Seq(T) /\ \E e : Picks(e, Only(seq, S), seq, S, Len(seq))
<1>0. Len(seq) \in Nat /\ \A i \in 1..Len(seq) : seq[i] \in T
  BY LenProperties
<1>1. PICK f : Rounds(f, "only", S, <<>>, seq, Only(seq, S))
  BY <1>0, OnlyRounds
<1>2. PICK N \in Nat : N = Len(seq)
  BY <1>0
<1>3. /\ f[0] = <<>> /\ f[N] = Only(seq, S)
      /\ \A i \in 1..N : f[i] = IF seq[i] \in S THEN Append(f[i - 1], seq[i]) ELSE f[i - 1]
  BY <1>1, <1>2 DEF Rounds, Stepped
<1> DEFINE Good(n) == f[n] \in Seq(T) /\ \E e : Picks(e, f[n], seq, S, n)
           Q == {n \in 0..N : Good(n)}
<1>4. 0 \in Q
  <2>1. Picks([i \in {} |-> 0], <<>>, seq, S, 0)
    <3>1. 1..0 = {} /\ Len(<<>>) = 0
      OBVIOUS
    <3> QED BY <3>1 DEF Picks
  <2>2. PICK e : Picks(e, <<>>, seq, S, 0)
    BY <2>1
  <2>3. f[0] \in Seq(T)
    BY <1>3, EmptySeq
  <2>4. Good(0)
    BY <1>3, <2>2, <2>3
  <2>5. 0 \in 0..N
    BY <1>0, <1>2
  <2> QED BY <2>4, <2>5
<1>5. \A n \in 0..N : n \in Q /\ n # N => n + 1 \in Q
  <2> SUFFICES ASSUME NEW n \in 0..N, n \in Q, n # N PROVE n + 1 \in Q
    OBVIOUS
  <2>1. n \in Nat /\ n + 1 \in 1..N /\ n + 1 \in 0..N /\ (n + 1) - 1 = n
    OBVIOUS
  <2>2. f[n + 1] = IF seq[n + 1] \in S THEN Append(f[n], seq[n + 1]) ELSE f[n]
    BY <1>3, <2>1
  <2>3. PICK r : r = f[n]
    OBVIOUS
  <2>4. PICK e : Picks(e, r, seq, S, n)
    BY <2>3
  <2>5. r \in Seq(T)
    BY <2>3
  <2>6. CASE seq[n + 1] \in S
    <3>1. seq[n + 1] \in T
      BY <1>0, <1>2, <2>1
    <3>2. Append(r, seq[n + 1]) \in Seq(T) /\ \E d : Picks(d, Append(r, seq[n + 1]), seq, S, n + 1)
      BY <2>1, <2>4, <2>5, <2>6, <3>1, PicksOne
    <3>3. Good(n + 1)
      BY <2>2, <2>3, <2>6, <3>2
    <3> QED BY <2>1, <3>3
  <2>7. CASE seq[n + 1] \notin S
    <3>1. Len(r) \in Nat
      BY <2>5, LenProperties
    <3>2. \A k \in 1..(n + 1) : seq[k] \in S => k \in 1..n
      BY <2>1, <2>7
    <3>3. Picks(e, r, seq, S, n + 1)
      <4>1. e \in [1..Len(r) -> 1..(n + 1)]
        <5>1. e \in [1..Len(r) -> 1..n] /\ 1..n \subseteq 1..(n + 1)
          BY <2>1, <2>4 DEF Picks
        <5> QED BY <5>1
      <4> QED BY <2>4, <3>2, <4>1 DEF Picks
    <3>4. Good(n + 1)
      BY <2>2, <2>3, <2>5, <2>7, <3>3
    <3> QED BY <2>1, <3>4
  <2> QED BY <2>6, <2>7
<1>6. N \in Q
  <2> HIDE DEF Q
  <2>1. 0..N \subseteq Q
    BY <1>4, <1>5, UpTo
  <2> QED BY <2>1
<1> QED BY <1>2, <1>3, <1>6

\* What Only keeps are the members of S.
LEMMA OnlyHas ==
  ASSUME NEW T, NEW seq \in Seq(T), NEW S, NEW r, r = Only(seq, S)
  PROVE  /\ r \in Seq(T)
         /\ \A i \in 1..Len(r) : r[i] \in S /\ \E k \in 1..Len(seq) : seq[k] = r[i]
         /\ \A k \in 1..Len(seq) : seq[k] \in S => \E i \in 1..Len(r) : r[i] = seq[k]
<1>1. r \in Seq(T) /\ \E e : Picks(e, r, seq, S, Len(seq))
  BY OnlyIs
<1>2. PICK e : Picks(e, r, seq, S, Len(seq))
  BY <1>1
<1>3. \A i \in 1..Len(r) : e[i] \in 1..Len(seq) /\ r[i] = seq[e[i]] /\ r[i] \in S
  BY <1>2 DEF Picks
<1>4. \A i \in 1..Len(r) : r[i] \in S /\ \E k \in 1..Len(seq) : seq[k] = r[i]
  BY <1>3
<1>5. ASSUME NEW k \in 1..Len(seq), seq[k] \in S PROVE \E i \in 1..Len(r) : r[i] = seq[k]
  <2>1. PICK i \in 1..Len(r) : e[i] = k
    BY <1>2, <1>5 DEF Picks
  <2>2. r[i] = seq[k]
    BY <1>3, <2>1
  <2> QED BY <2>2
<1> QED BY <1>1, <1>4, <1>5

\* What the members of seq have not in common, those kept have not either.
LEMMA OnlyApart ==
  ASSUME NEW T, NEW seq \in Seq(T), NEW S, NEW r, r = Only(seq, S),
         \A i, j \in 1..Len(seq) : seq[i] = seq[j] => i = j
  PROVE  \A i, j \in 1..Len(r) : r[i] = r[j] => i = j
<1>1. r \in Seq(T) /\ \E e : Picks(e, r, seq, S, Len(seq))
  BY OnlyIs
<1>2. PICK e : Picks(e, r, seq, S, Len(seq))
  BY <1>1
<1>3. Len(r) \in Nat /\ Len(seq) \in Nat
  BY <1>1, LenProperties
<1> SUFFICES ASSUME NEW i \in 1..Len(r), NEW j \in 1..Len(r), r[i] = r[j] PROVE i = j
  OBVIOUS
<1>4. e[i] = e[j] /\ e[i] \in 1..Len(seq) /\ e[j] \in 1..Len(seq)
  BY SMTT(30), <1>2 DEF Picks
<1>5. e[i] \in Nat /\ e[j] \in Nat /\ i \in Nat /\ j \in Nat
  BY <1>3, <1>4
<1>6. (i < j => e[i] < e[j]) /\ (j < i => e[j] < e[i])
  BY <1>2 DEF Picks
<1> QED BY <1>4, <1>5, <1>6

\* The sequence of a finite set has all of its members and no others.
LEMMA SetToSeqIs ==
  ASSUME NEW S, IsFiniteSet(S)
  PROVE  /\ SetToSeq(S) \in Seq(S) /\ Len(SetToSeq(S)) = Cardinality(S)
         /\ \A x \in S : \E i \in 1..Cardinality(S) : SetToSeq(S)[i] = x
         /\ \A i, j \in 1..Cardinality(S) : SetToSeq(S)[i] = SetToSeq(S)[j] => i = j
<1>1. Cardinality(S) \in Nat /\ ExistsBijection(1..Cardinality(S), S)
  BY FS_CardinalityType
<1> DEFINE D == 1..Cardinality(S)
           q == SetToSeq(S)
<1>2. \E f \in [D -> S] : IsInjective(f)
  <2>1. PICK f : f \in Bijection(D, S)
    BY <1>1 DEF ExistsBijection
  <2> QED BY <2>1 DEF Bijection, Injection, IsInjective
<1>3. q \in [D -> S] /\ IsInjective(q)
  BY <1>2 DEF SetToSeq
<1>4. IsFiniteSet(D) /\ Cardinality(D) = Cardinality(S)
  BY <1>1, FS_Interval
<1> HIDE DEF q
<1>5. q \in Injection(D, S)
  BY <1>3 DEF Injection, IsInjective
<1>6. q \in Surjection(D, S)
  <2> HIDE DEF D
  <2> QED BY <1>4, <1>5, FS_Injection
<1>7. \A x \in S : \E i \in D : q[i] = x
  BY <1>6 DEF Surjection
<1>8. q \in Seq(S) /\ Len(q) = Cardinality(S)
  BY <1>1, <1>3
<1>9. \A i, j \in D : q[i] = q[j] => i = j
  BY <1>3 DEF IsInjective
<1> QED BY <1>7, <1>8, <1>9 DEF q

\* The greatest of a set of numbers.
LEMMA Largest ==
  ASSUME NEW N \in Nat, NEW S \in SUBSET (0..N)
  PROVE  \E n \in S \cup {0} : \A m \in S : m <= n
<1> DEFINE U == {n \in Nat : \A m \in S : m <= n}
<1>1. U \subseteq Nat /\ N \in U
  OBVIOUS
<1>2. \E n \in U : \A x \in U : <<x, n>> \notin OpToRel(<, Nat)
  <2> HIDE DEF U
  <2> QED BY <1>1, NatLessThanWellFounded, WFMin
<1>3. PICK n \in U : \A x \in U : ~(x < n)
  BY <1>1, <1>2 DEF OpToRel
<1>4. n \in Nat /\ \A m \in S : m <= n /\ m \in Nat
  BY <1>3
<1>5. CASE n = 0
  BY <1>4, <1>5
<1>6. CASE n # 0
  <2>1. n - 1 \in Nat /\ n - 1 < n
    BY <1>4, <1>6
  <2>2. n - 1 \notin U
    BY <1>3, <2>1
  <2>3. PICK m \in S : ~(m <= n - 1)
    BY <2>1, <2>2
  <2>4. m = n
    BY <1>4, <2>1, <2>3
  <2> QED BY <1>4, <2>3, <2>4
<1> QED BY <1>5, <1>6

-----------------------------------------------------------------------------
(* sort() and ca.alloc().                                                  *)

\* The sequence q has the members of S, each once.
Lists(q, S) ==
  /\ q \in Seq(S)
  /\ \A x \in S : \E i \in 1..Len(q) : q[i] = x
  /\ \A i, j \in 1..Len(q) : q[i] = q[j] => i = j

\* One more member.
LEMMA ListsOne ==
  ASSUME NEW S, NEW q, Lists(q, S), NEW x, x \notin S, NEW T, T = S \cup {x}
  PROVE  Lists(Append(q, x), T)
<1>1. PICK r : r = Append(q, x)
  OBVIOUS
<1>2. q \in Seq(S) /\ q \in Seq(T) /\ x \in T
  BY DEF Lists
<1>3. /\ r \in Seq(T) /\ Len(r) = Len(q) + 1 /\ Len(q) \in Nat
      /\ r[Len(q) + 1] = x /\ \A i \in 1..Len(q) : r[i] = q[i]
  BY <1>1, <1>2, AppendIs
<1>4. \A i \in 1..Len(q) : q[i] \in S /\ i \in 1..Len(r)
  BY <1>2, <1>3, LenProperties
<1>5. \A i \in 1..Len(r) : i \in 1..Len(q) \/ i = Len(q) + 1
  BY <1>3
<1>6. Len(q) + 1 \in 1..Len(r)
  BY <1>3
<1>7. \A y \in T : \E i \in 1..Len(r) : r[i] = y
  BY <1>3, <1>4, <1>6 DEF Lists
<1>8. \A i, j \in 1..Len(r) : r[i] = r[j] => i = j
  BY <1>3, <1>4, <1>5 DEF Lists
<1> QED BY <1>1, <1>3, <1>7, <1>8 DEF Lists

\* Ascending lists the numbers of a set.
LEMMA AscendingIs ==
  ASSUME NEW N \in Nat, NEW S \in SUBSET (0..N)
  PROVE  Lists(Ascending(S), S)
<1> DEFINE top == CHOOSE n \in S \cup {0} : \A m \in S : m <= n
<1>1. top \in Nat /\ \A m \in S : m <= top
  <2>1. top \in S \cup {0} /\ \A m \in S : m <= top
    BY Largest
  <2> HIDE DEF top
  <2>2. \A x \in S \cup {0} : x \in Nat
    OBVIOUS
  <2> QED BY <2>1, <2>2
<1> DEFINE D == 0..(top + 1)
           g == CHOOSE f : f = [n \in D |-> IF n = 0 THEN <<>>
                                            ELSE IF n - 1 \in S THEN Append(f[n - 1], n - 1) ELSE f[n - 1]]
<1>2. Ascending(S) = g[top + 1]
  BY DEF Ascending
<1> HIDE DEF top
<1>3. \E f : f = [n \in D |-> IF n = 0 THEN <<>>
                              ELSE IF n - 1 \in S THEN Append(f[n - 1], n - 1) ELSE f[n - 1]]
  <2>1. PICK seq : seq = [i \in 1..(top + 1) |-> i]
    OBVIOUS
  <2>2. Len(seq) = top + 1 /\ Len(seq) \in Nat
    BY <1>1, <2>1
  <2>3. PICK f : IsLoop(f, "number", S, <<>>, seq)
    BY <2>2, RoundsExist
  <2>4. f = [i \in D |-> IF i = 0 THEN <<>> ELSE Stepped("number", S, f[i - 1], seq[i])]
    BY <2>2, <2>3 DEF IsLoop
  <2>5. \A x, y : Stepped("number", S, x, y) = IF y - 1 \in S THEN Append(x, y - 1) ELSE x
    BY DEF Stepped
  <2>6. \A i \in D : i # 0 => seq[i] = i
    BY <1>1, <2>1
  <2> DEFINE h == [n \in D |-> IF n = 0 THEN <<>>
                               ELSE IF n - 1 \in S THEN Append(f[n - 1], n - 1) ELSE f[n - 1]]
  <2>7. \A i \in D : f[i] = h[i]
    <3> SUFFICES ASSUME NEW i \in D PROVE f[i] = h[i]
      OBVIOUS
    <3>1. f[i] = IF i = 0 THEN <<>> ELSE Stepped("number", S, f[i - 1], seq[i])
      BY <2>4
    <3>2. i # 0 => Stepped("number", S, f[i - 1], seq[i]) = IF i - 1 \in S THEN Append(f[i - 1], i - 1) ELSE f[i - 1]
      BY <2>5, <2>6
    <3> QED BY <3>1, <3>2
  <2>8. f = h
    BY <2>4, <2>7
  <2> QED BY <2>8
<1>4. g = [n \in D |-> IF n = 0 THEN <<>>
                       ELSE IF n - 1 \in S THEN Append(g[n - 1], n - 1) ELSE g[n - 1]]
  BY <1>3
<1> HIDE DEF g
<1> DEFINE Below(n) == {x \in S : x < n}
           Q == {n \in D : Lists(g[n], Below(n))}
<1>5. 0 \in Q
  <2>1. 0 \in D /\ g[0] = <<>>
    BY <1>1, <1>4
  <2>2. Below(0) = {}
    <3>1. \A x \in S : x \in Nat /\ ~(x < 0)
      OBVIOUS
    <3> QED BY <3>1
  <2>3. Lists(<<>>, {})
    BY EmptySeq DEF Lists
  <2> QED BY <2>1, <2>2, <2>3
<1>6. \A n \in D : n \in Q /\ n # top + 1 => n + 1 \in Q
  <2> SUFFICES ASSUME NEW n \in D, n \in Q, n # top + 1 PROVE n + 1 \in Q
    OBVIOUS
  <2>1. n \in Nat /\ n + 1 \in D /\ n + 1 # 0 /\ (n + 1) - 1 = n
    BY <1>1
  <2>2. g[n + 1] = IF n \in S THEN Append(g[n], n) ELSE g[n]
    BY <1>4, <2>1
  <2>3. \A y \in S : y \in Nat
    OBVIOUS
  <2>4. Lists(g[n], Below(n)) /\ n \notin Below(n)
    BY <2>1
  <2>5. CASE n \in S
    <3>1. Below(n + 1) = Below(n) \cup {n}
      <4>1. \A y \in S : y < n + 1 <=> y < n \/ y = n
        BY <2>1, <2>3
      <4> QED BY <2>5, <4>1
    <3> HIDE DEF Below
    <3>2. Lists(Append(g[n], n), Below(n + 1))
      BY <2>4, <3>1, ListsOne
    <3> QED BY <2>1, <2>2, <2>5, <3>2
  <2>6. CASE n \notin S
    <3>1. \A y \in S : y < n <=> y < n + 1
      BY <2>1, <2>3, <2>6
    <3>2. Below(n + 1) = Below(n)
      BY <3>1
    <3> QED BY <2>1, <2>2, <2>4, <2>6, <3>2
  <2> QED BY <2>5, <2>6
<1>7. top + 1 \in Q
  <2> HIDE DEF Q
  <2>1. PICK k \in Nat : k = top + 1
    BY <1>1
  <2>2. \A n \in 0..k : n \in Q /\ n # k => n + 1 \in Q
    BY <1>6, <2>1
  <2>3. 0..k \subseteq Q
    BY <1>5, <2>2, UpTo
  <2> QED BY <2>1, <2>3
<1>8. Below(top + 1) = S
  <2>1. \A x \in S : x \in Nat /\ x <= top
    BY <1>1
  <2>2. \A x \in S : x < top + 1
    BY <1>1, <2>1
  <2> QED BY <2>2
<1> QED BY <1>2, <1>7, <1>8

\* Sorted lists a set of literals of different variables.
LEMMA SortedIs ==
  ASSUME NEW lits \in SUBSET AllLits, \A p \in lits : Neg(p) \notin lits, NEW c, c = Sorted(lits)
  PROVE  /\ c \in Seq(AllLits) /\ Len(c) \in Nat
         /\ \A p \in AllLits : p \in lits <=> \E i \in 1..Len(c) : c[i] = p
         /\ \A i, j \in 1..Len(c) : c[i][1] = c[j][1] => i = j
<1>1. PICK vs : vs = Ascending(VarsOf(lits))
  OBVIOUS
<1>2. VarsOf(lits) \subseteq Vars
  BY Literals DEF VarsOf
<1>3. Lists(vs, VarsOf(lits))
  <2>1. MaxVars \in Nat /\ Vars \subseteq 0..MaxVars
    BY Bounds
  <2> QED BY <1>1, <1>2, <2>1, AscendingIs
<1>4. Len(vs) \in Nat /\ DOMAIN vs = 1..Len(vs) /\ \A i \in 1..Len(vs) : vs[i] \in VarsOf(lits)
  BY <1>3, LenProperties DEF Lists
<1>5. c = [i \in 1..Len(vs) |-> <<vs[i], <<vs[i], TRUE>> \in lits>>]
  BY <1>1, <1>4 DEF Sorted
<1>6. \A i \in 1..Len(vs) : c[i] \in AllLits /\ c[i][1] = vs[i] /\ c[i] \in lits
  <2> SUFFICES ASSUME NEW i \in 1..Len(vs) PROVE c[i] \in AllLits /\ c[i][1] = vs[i] /\ c[i] \in lits
    OBVIOUS
  <2>1. PICK p \in lits : p[1] = vs[i]
    BY <1>4 DEF VarsOf
  <2>2. PICK v \in Vars : p = <<v, TRUE>> \/ p = <<v, FALSE>>
    <3>1. PICK v \in Vars : \E b \in BOOLEAN : p = <<v, b>>
      BY DEF AllLits, LitsOf
    <3>2. p = <<v, TRUE>> \/ p = <<v, FALSE>>
      BY <3>1, Zenon
    <3> QED BY <3>2
  <2>4. \A w : /\ Neg(<<w, TRUE>>) = <<w, FALSE>> /\ <<w, TRUE>>[1] = w
              /\ Neg(<<w, FALSE>>) = <<w, TRUE>> /\ <<w, FALSE>>[1] = w
    BY DEF Neg
  <2>3. v = vs[i]
    BY <2>1, <2>2, <2>4
  <2>0. PICK b : b = (<<v, TRUE>> \in lits)
    OBVIOUS
  <2>5. b \in BOOLEAN /\ b = (<<v, TRUE>> \in lits)
    BY <2>0
  <2>6. c[i] = <<v, b>>
    BY <1>5, <2>3, <2>5
  <2>7. <<v, TRUE>> \in AllLits /\ <<v, FALSE>> \in AllLits
    BY DEF AllLits, LitsOf
  <2>8. CASE b = TRUE
    BY <2>3, <2>4, <2>5, <2>6, <2>7, <2>8
  <2>9. CASE b = FALSE
    <3>1. p = <<v, FALSE>>
      BY <2>2, <2>5, <2>9
    <3> QED BY <2>3, <2>4, <2>6, <2>7, <2>9, <3>1
  <2> QED BY <2>5, <2>8, <2>9
<1>7. c \in Seq(AllLits) /\ Len(c) = Len(vs)
  <2>1. c \in [1..Len(vs) -> AllLits]
    BY <1>5, <1>6
  <2> QED BY <1>4, <2>1, SeqDef
<1>8. \A p \in AllLits : p \in lits <=> \E i \in 1..Len(c) : c[i] = p
  <2>1. ASSUME NEW p \in lits PROVE \E i \in 1..Len(c) : c[i] = p
    <3>1. p[1] \in VarsOf(lits)
      BY DEF VarsOf
    <3>2. PICK i \in 1..Len(vs) : vs[i] = p[1]
      BY <1>3, <3>1 DEF Lists
    <3>3. c[i] \in AllLits /\ c[i][1] = p[1] /\ c[i] \in lits
      BY <1>6, <3>2
    <3>4. c[i] = p \/ c[i] = Neg(p)
      BY <3>3, Literals
    <3> QED BY <1>7, <3>3, <3>4
  <2> QED BY <1>6, <1>7, <2>1
<1>9. \A i, j \in 1..Len(c) : c[i][1] = c[j][1] => i = j
  BY <1>3, <1>6, <1>7 DEF Lists
<1> QED BY <1>4, <1>7, <1>8, <1>9

\* A number that no clause has yet.
LEMMA FreshRefIs ==
  ASSUME NEW s, Typed(s)
  PROVE  FreshRef(s) \in Nat \ {0} /\ FreshRef(s) \notin DOMAIN s.clause
<1>1. PICK n \in Nat : n = Cardinality(DOMAIN s.clause)
  BY FS_CardinalityType DEF Typed
<1>2. IsFiniteSet(DOMAIN s.clause)
  BY DEF Typed
<1>3. \E r \in 1..(n + 1) : r \notin DOMAIN s.clause
  <2> SUFFICES ASSUME 1..(n + 1) \subseteq DOMAIN s.clause PROVE FALSE
    OBVIOUS
  <2>1. IsFiniteSet(1..(n + 1)) /\ Cardinality(1..(n + 1)) = n + 1
    BY FS_Interval
  <2>2. Cardinality(1..(n + 1)) <= n
    BY <1>1, <1>2, FS_Subset
  <2> QED BY <2>1, <2>2
<1>4. FreshRef(s) \in 1..(n + 1) /\ FreshRef(s) \notin DOMAIN s.clause
  BY <1>1, <1>3 DEF FreshRef
<1> QED BY <1>4

-----------------------------------------------------------------------------
(* Books: one more literal on the trail.                                   *)

\* The members of Solver, one by one.
LEMMA TypedIs ==
  ASSUME NEW s, Typed(s)
  PROVE  /\ s \in SolverType
         /\ s.trail \in Seq(AllLits) /\ Len(s.trail) \in Nat /\ DOMAIN s.trail = 1..Len(s.trail)
         /\ \A i \in 1..Len(s.trail) : s.trail[i] \in AllLits /\ s.trail[i][1] \in Vars /\ Lv(s, i) \in Nat
         /\ s.lim \in Seq(Nat) /\ Len(s.lim) \in Nat /\ \A l \in 1..Len(s.lim) : s.lim[l] \in Nat
         /\ s.qhead \in Nat /\ s.nextVar \in Nat /\ s.ok \in BOOLEAN
         /\ \A r \in DOMAIN s.clause : r \in Nat /\ r # NoClause /\ s.clause[r] \in ClauseSeq
         /\ s.learnts \subseteq DOMAIN s.clause
         /\ \A p \in AllLits : s.watches[p] \in Seq(Watcher)
         /\ s.assigned \subseteq AllLits /\ s.heap \subseteq Vars
         /\ \A v \in Vars : s.reason[v] \in Nat /\ s.level[v] \in Nat
         /\ s.released \in Seq(Vars) /\ Len(s.released) \in Nat
         /\ s.free \in Seq(Vars) /\ Len(s.free) \in Nat /\ \A i \in 1..Len(s.free) : s.free[i] \in Vars
<1>1. s \in SolverType /\ s.learnts \subseteq DOMAIN s.clause
  BY DEF Typed
<1>2. /\ s.trail \in Seq(AllLits) /\ s.lim \in Seq(Nat) /\ s.qhead \in Nat /\ s.nextVar \in Nat
      /\ s.ok \in BOOLEAN /\ s.watches \in [AllLits -> Seq(Watcher)] /\ s.assigned \subseteq AllLits
      /\ s.heap \subseteq Vars /\ s.reason \in [Vars -> Nat] /\ s.level \in [Vars -> Nat]
      /\ s.released \in Seq(Vars) /\ s.free \in Seq(Vars)
      /\ s.clause \in UNION {[D -> ClauseSeq] : D \in SUBSET (Nat \ {0})}
  BY <1>1 DEF SolverType
<1>3. \A r \in DOMAIN s.clause : r \in Nat /\ r # NoClause /\ s.clause[r] \in ClauseSeq
  <2>1. PICK D \in SUBSET (Nat \ {0}) : s.clause \in [D -> ClauseSeq]
    BY <1>2
  <2>2. DOMAIN s.clause = D /\ \A r \in D : s.clause[r] \in ClauseSeq
    BY <2>1
  <2> QED BY <2>2 DEF NoClause
<1>4. Len(s.trail) \in Nat /\ DOMAIN s.trail = 1..Len(s.trail) /\ \A i \in 1..Len(s.trail) : s.trail[i] \in AllLits
  BY <1>2, LenProperties
<1>5. \A i \in 1..Len(s.trail) : s.trail[i][1] \in Vars /\ Lv(s, i) \in Nat
  BY <1>2, <1>4, Literals DEF Lv
<1>6. Len(s.lim) \in Nat /\ \A l \in 1..Len(s.lim) : s.lim[l] \in Nat
  BY <1>2, LenProperties
<1>7. Len(s.released) \in Nat /\ Len(s.free) \in Nat /\ \A i \in 1..Len(s.free) : s.free[i] \in Vars
  BY <1>2, LenProperties
<1> QED BY <1>1, <1>2, <1>3, <1>4, <1>5, <1>6, <1>7

\* What agrees in a solver.
LEMMA BooksAre ==
  ASSUME NEW s, Books(s)
  PROVE  /\ Typed(s) /\ TrailOK(s) /\ LevelsOK(s) /\ ReasonsOK(s) /\ HeapOK(s) /\ FreeOK(s)
         /\ Within(s, UsableLits(s))
  BY DEF Books

\* What uncheckedEnqueue() changes.
LEMMA EnqueueFields ==
  ASSUME NEW s, Typed(s), NEW p \in AllLits, NEW r \in Nat, NEW t, t = Enqueue(s, p, r)
  PROVE  /\ Typed(t)
         /\ t.clause = s.clause /\ t.learnts = s.learnts /\ t.watches = s.watches /\ t.lim = s.lim
         /\ t.qhead = s.qhead /\ t.heap = s.heap /\ t.ok = s.ok /\ t.nextVar = s.nextVar
         /\ t.released = s.released /\ t.free = s.free /\ t.simplified = s.simplified
         /\ t.assigned = s.assigned \cup {p}
         /\ Len(t.trail) = Len(s.trail) + 1 /\ t.trail[Len(s.trail) + 1] = p
         /\ \A i \in 1..Len(s.trail) : t.trail[i] = s.trail[i]
         /\ t.reason[p[1]] = r /\ t.level[p[1]] = Len(s.lim)
         /\ \A v \in Vars : v # p[1] => t.reason[v] = s.reason[v] /\ t.level[v] = s.level[v]
<1>1. s \in SolverType /\ p[1] \in Vars /\ Len(s.lim) \in Nat /\ s.trail \in Seq(AllLits)
  BY TypedIs, Literals
<1>2. /\ s.reason \in [Vars -> Nat] /\ s.level \in [Vars -> Nat] /\ s.assigned \in SUBSET AllLits
  BY <1>1 DEF SolverType
<1>3. PICK q : q = Append(s.trail, p)
  OBVIOUS
<1>4. q \in Seq(AllLits) /\ Len(q) = Len(s.trail) + 1 /\ q[Len(s.trail) + 1] = p
      /\ \A i \in 1..Len(s.trail) : q[i] = s.trail[i]
  BY <1>1, <1>3, AppendIs
<1>5. PICK a : a = s.assigned \cup {p}
  OBVIOUS
<1>6. PICK f : f = [s.reason EXCEPT ![p[1]] = r]
  OBVIOUS
<1>7. PICK g : g = [s.level EXCEPT ![p[1]] = Len(s.lim)]
  OBVIOUS
<1>8. a \in SUBSET AllLits /\ f \in [Vars -> Nat] /\ g \in [Vars -> Nat]
  BY <1>1, <1>2, <1>5, <1>6, <1>7
<1>9. t = [s EXCEPT !.assigned = a, !.trail = q, !.reason = f, !.level = g]
  BY <1>1, <1>3, <1>5, <1>6, <1>7 DEF Enqueue, Level, SolverType
<1>10. t \in SolverType
  BY <1>1, <1>4, <1>8, <1>9 DEF SolverType
<1>11. /\ t.clause = s.clause /\ t.learnts = s.learnts /\ t.watches = s.watches /\ t.lim = s.lim
       /\ t.qhead = s.qhead /\ t.heap = s.heap /\ t.ok = s.ok /\ t.nextVar = s.nextVar
       /\ t.released = s.released /\ t.free = s.free /\ t.simplified = s.simplified
       /\ t.assigned = a /\ t.trail = q /\ t.reason = f /\ t.level = g
  BY <1>1, <1>9 DEF SolverType
<1>12. Typed(t)
  BY <1>10, <1>11 DEF Typed
<1>13. f[p[1]] = r /\ g[p[1]] = Len(s.lim)
       /\ \A v \in Vars : v # p[1] => f[v] = s.reason[v] /\ g[v] = s.level[v]
  BY <1>1, <1>2, <1>6, <1>7
<1> QED BY <1>4, <1>5, <1>11, <1>12, <1>13

\* t has the trail of s, with the same levels, and perhaps more; the literals
\* of the clauses are the same.
Grows(s, t) ==
  /\ Len(s.trail) <= Len(t.trail)
  /\ \A i \in 1..Len(s.trail) : t.trail[i] = s.trail[i] /\ Lv(t, i) = Lv(s, i)
  /\ \A r \in DOMAIN s.clause : r \in DOMAIN t.clause /\ \A p \in AllLits : InClause(s, r, p) <=> InClause(t, r, p)

\* What stays true when the trail grows.
LEMMA GrowsIs ==
  ASSUME NEW s, Typed(s), NEW t, Typed(t), Grows(s, t)
  PROVE  /\ \A p : OnTrail(s, p) => OnTrail(t, p)
         /\ \A p : AtRoot(s, p) => AtRoot(t, p)
         /\ \A w \in Watcher : w.ref \in DOMAIN s.clause /\ BlockerOK(s, w) => BlockerOK(t, w)
<1>1. Len(s.trail) \in Nat /\ Len(t.trail) \in Nat
  BY TypedIs
<1>2. \A i \in 1..Len(s.trail) : i \in 1..Len(t.trail) /\ t.trail[i] = s.trail[i] /\ Lv(t, i) = Lv(s, i)
  BY <1>1 DEF Grows
<1>3. \A p : OnTrail(s, p) => OnTrail(t, p)
  BY <1>2 DEF OnTrail
<1>4. \A p : AtRoot(s, p) => AtRoot(t, p)
  BY <1>2 DEF AtRoot
<1>5. \A w \in Watcher : w.blocker \in AllLits
  BY DEF Watcher
<1>6. \A w \in Watcher : w.ref \in DOMAIN s.clause /\ BlockerOK(s, w) => BlockerOK(t, w)
  BY <1>4, <1>5 DEF BlockerOK, Grows
<1> QED BY <1>3, <1>4, <1>6

\* Awake clauses stay awake.
LEMMA GrowsAwake ==
  ASSUME NEW s, Typed(s), NEW t, Typed(t), Grows(s, t), NEW r \in DOMAIN s.clause, NEW j \in 1..Len(s.trail),
         AwakeAt(s, r, j),
         \A k \in {1, 2} : \E l \in {1, 2} : t.clause[r][k] = s.clause[r][l]
  PROVE  AwakeAt(t, r, j)
<1>1. Len(s.trail) \in Nat /\ Len(t.trail) \in Nat
  BY TypedIs
<1>2. \A i \in 1..Len(s.trail) : i \in 1..Len(t.trail) /\ t.trail[i] = s.trail[i] /\ Lv(t, i) = Lv(s, i)
  BY <1>1 DEF Grows
<1>3. \A i \in 1..Len(s.trail) : s.trail[i] \in AllLits
  BY TypedIs
<1>4. \A i \in 1..Len(s.trail) : InClause(s, r, s.trail[i]) => InClause(t, r, t.trail[i])
  BY <1>2, <1>3 DEF Grows
<1> SUFFICES ASSUME NEW k \in {1, 2}, t.trail[j] = Neg(t.clause[r][k])
             PROVE  \E i \in 1..Len(t.trail) : InClause(t, r, t.trail[i]) /\ Lv(t, i) <= Lv(t, j)
  BY DEF AwakeAt
<1>5. PICK l \in {1, 2} : t.clause[r][k] = s.clause[r][l]
  OBVIOUS
<1>6. s.trail[j] = Neg(s.clause[r][l])
  BY <1>2, <1>5
<1>7. PICK i \in 1..Len(s.trail) : InClause(s, r, s.trail[i]) /\ Lv(s, i) <= Lv(s, j)
  BY <1>6 DEF AwakeAt
<1> QED BY <1>2, <1>4, <1>7

\* A variable is open if neither of its literals is assigned.
LEMMA OpenIs ==
  ASSUME NEW s, Typed(s), NEW v \in Vars
  PROVE  /\ Open(s, v) <=> \A q \in s.assigned : q[1] # v
         /\ \A p \in AllLits : p[1] = v => (Open(s, v) <=> ~True(s, p) /\ ~False(s, p))
<1>1. s.assigned \subseteq AllLits
  BY TypedIs
<1>2. \A q \in AllLits : q \in LitsOf({v}) <=> q[1] = v
  <2> SUFFICES ASSUME NEW q \in AllLits PROVE q \in LitsOf({v}) <=> q[1] = v
    OBVIOUS
  <2>1. PICK w \in Vars : \E b \in BOOLEAN : q = <<w, b>>
    BY DEF AllLits, LitsOf
  <2>2. PICK b \in BOOLEAN : q = <<w, b>>
    BY <2>1
  <2>3. q[1] = w
    BY <2>2
  <2>4. q \in LitsOf({v}) <=> w = v
    BY <2>2 DEF LitsOf
  <2> QED BY <2>3, <2>4
<1>3. Open(s, v) <=> \A q \in s.assigned : q[1] # v
  BY <1>1, <1>2 DEF Open
<1>4. ASSUME NEW p \in AllLits, p[1] = v PROVE Open(s, v) <=> ~True(s, p) /\ ~False(s, p)
  <2>1. \A q \in AllLits : q[1] = v <=> q = p \/ q = Neg(p)
    BY <1>4, Literals
  <2> QED BY <1>1, <1>3, <2>1 DEF True, False
<1> QED BY <1>3, <1>4

\* What is true is on the trail, unless it is left over from a free variable.
LEMMA TrueIsOnTrail ==
  ASSUME NEW s, Books(s), NEW p \in AllLits, Usable(s, p)
  PROVE  /\ True(s, p) <=> OnTrail(s, p)
         /\ False(s, p) <=> OnTrail(s, Neg(p))
         /\ ~(OnTrail(s, p) /\ OnTrail(s, Neg(p)))
<1>1. TrailOK(s) /\ Typed(s)
  BY BooksAre
<1>2. Neg(p) \in AllLits /\ Neg(p)[1] = p[1] /\ ~IsFree(s, p[1]) /\ Neg(Neg(p)) = p
  BY Literals DEF Usable
<1> QED BY <1>1, <1>2 DEF TrailOK, True, False, OnTrail

\* Reason r implies literal p.
Implies1(s, r, p) ==
  /\ r \in DOMAIN s.clause /\ s.clause[r][1] = p
  /\ \A k \in 2..Len(s.clause[r]) : OnTrail(s, Neg(s.clause[r][k]))

\* uncheckedEnqueue() of a literal without a value.
LEMMA EnqueueBooks ==
  ASSUME NEW s, Books(s), NEW p \in AllLits, Usable(s, p), Open(s, p[1]),
         NEW r \in Nat, r = NoClause \/ Implies1(s, r, p),
         NEW t, t = Enqueue(s, p, r)
  PROVE  /\ Books(t) /\ Grows(s, t) /\ Lv(t, Len(s.trail) + 1) = Len(s.lim)
         /\ WatchesOK(s) => WatchesOK(t)
         /\ \A n \in 0..Len(s.trail) : AwakeTo(s, n) => AwakeTo(t, n)
<1>0. Typed(s) /\ TrailOK(s) /\ LevelsOK(s) /\ ReasonsOK(s) /\ HeapOK(s) /\ FreeOK(s) /\ Within(s, UsableLits(s))
  BY BooksAre
<1>1. /\ Typed(t)
      /\ t.clause = s.clause /\ t.learnts = s.learnts /\ t.watches = s.watches /\ t.lim = s.lim
      /\ t.qhead = s.qhead /\ t.heap = s.heap /\ t.ok = s.ok /\ t.nextVar = s.nextVar
      /\ t.released = s.released /\ t.free = s.free
      /\ t.assigned = s.assigned \cup {p}
      /\ Len(t.trail) = Len(s.trail) + 1 /\ t.trail[Len(s.trail) + 1] = p
      /\ \A i \in 1..Len(s.trail) : t.trail[i] = s.trail[i]
      /\ t.reason[p[1]] = r /\ t.level[p[1]] = Len(s.lim)
      /\ \A v \in Vars : v # p[1] => t.reason[v] = s.reason[v] /\ t.level[v] = s.level[v]
  BY <1>0, EnqueueFields
<1>2. PICK N \in Nat : N = Len(s.trail)
  BY <1>0, TypedIs
<1>3. /\ s.qhead \in Nat /\ Len(s.lim) \in Nat /\ (\A l \in 1..Len(s.lim) : s.lim[l] \in Nat)
      /\ (\A i \in 1..N : s.trail[i] \in AllLits /\ s.trail[i][1] \in Vars /\ Lv(s, i) \in Nat)
      /\ s.assigned \subseteq AllLits
  BY <1>0, <1>2, TypedIs
<1>4. \A q \in s.assigned : q[1] # p[1] /\ q # p /\ q # Neg(p)
  BY <1>0, OpenIs, Literals
<1>5. \A i \in 1..N : s.trail[i][1] # p[1] /\ s.trail[i] \in s.assigned
  BY <1>0, <1>2, <1>4 DEF TrailOK
<1>6. \A i \in 1..N : t.trail[i] = s.trail[i] /\ t.reason[s.trail[i][1]] = s.reason[s.trail[i][1]]
                      /\ t.level[s.trail[i][1]] = s.level[s.trail[i][1]]
  BY <1>1, <1>2, <1>3, <1>5
<1>7. (\A i \in 1..N : Lv(t, i) = Lv(s, i)) /\ Lv(t, N + 1) = Len(s.lim)
  BY <1>1, <1>2, <1>6 DEF Lv
<1>8. Len(t.trail) = N + 1 /\ t.trail[N + 1] = p /\ \A i \in 1..(N + 1) : i \in 1..N \/ i = N + 1
  BY <1>1, <1>2
<1>9. Grows(s, t)
  BY <1>1, <1>2, <1>6, <1>7 DEF Grows, InClause
<1>10. \A q : Usable(t, q) <=> Usable(s, q)
  BY <1>1 DEF Usable, IsFree
<1>11. TrailOK(t)
  <2>1. \A i, j \in 1..(N + 1) : t.trail[i][1] = t.trail[j][1] => i = j
    <3>1. \A i, j \in 1..N : s.trail[i][1] = s.trail[j][1] => i = j
      BY <1>0, <1>2 DEF TrailOK
    <3>2. (\A i \in 1..N : t.trail[i][1] = s.trail[i][1] /\ t.trail[i][1] # p[1]) /\ t.trail[N + 1][1] = p[1]
      BY <1>5, <1>6, <1>8
    <3> SUFFICES ASSUME NEW i \in 1..(N + 1), NEW j \in 1..(N + 1), t.trail[i][1] = t.trail[j][1] PROVE i = j
      OBVIOUS
    <3>3. CASE i \in 1..N /\ j \in 1..N
      BY <3>1, <3>2, <3>3
    <3>4. CASE ~(i \in 1..N /\ j \in 1..N)
      BY <1>8, <3>2, <3>4
    <3> QED BY <3>3, <3>4
  <2>2. \A i \in 1..(N + 1) : t.trail[i] \in t.assigned /\ Usable(t, t.trail[i])
    <3>1. \A i \in 1..N : s.trail[i] \in s.assigned /\ Usable(s, s.trail[i])
      BY <1>0, <1>2 DEF TrailOK
    <3> QED BY <1>1, <1>6, <1>8, <1>10, <3>1
  <2>3. \A q \in t.assigned : OnTrail(t, q) \/ IsFree(t, q[1])
    <3>1. \A q \in s.assigned : OnTrail(s, q) \/ IsFree(s, q[1])
      BY <1>0 DEF TrailOK
    <3>2. \A q : OnTrail(s, q) => OnTrail(t, q)
      BY <1>0, <1>1, <1>9, GrowsIs
    <3>3. OnTrail(t, p)
      BY <1>8 DEF OnTrail
    <3>4. \A v : IsFree(s, v) => IsFree(t, v)
      BY <1>1 DEF IsFree
    <3> QED BY <1>1, <3>1, <3>2, <3>3, <3>4
  <2>4. \A q \in t.assigned : Neg(q) \notin t.assigned
    <3>1. \A q \in s.assigned : Neg(q) \notin s.assigned /\ Neg(q) # p /\ Neg(q)[1] = q[1]
      <4>1. \A q \in s.assigned : Neg(q) \notin s.assigned /\ Neg(q)[1] = q[1]
        BY <1>0, <1>3, Literals DEF TrailOK
      <4> QED BY <1>4, <4>1
    <3>2. Neg(p) # p /\ Neg(p) \notin s.assigned
      BY <1>4, Literals
    <3> QED BY <1>1, <3>1, <3>2
  <2>5. t.qhead <= Len(t.trail)
    BY <1>0, <1>1, <1>2, <1>3, <1>8 DEF TrailOK
  <2> QED BY <1>8, <2>1, <2>2, <2>3, <2>4, <2>5 DEF TrailOK
<1>12. LevelsOK(t)
  <2>1. \A i \in 1..N : Lv(s, i) <= Len(s.lim) /\ \A l \in 1..Len(s.lim) : Lv(s, i) >= l <=> i > s.lim[l]
    BY <1>0, <1>2 DEF LevelsOK
  <2>2. \A l \in 1..Len(s.lim) : s.lim[l] <= s.qhead /\ s.qhead <= N
    BY <1>0, <1>2 DEF LevelsOK, TrailOK
  <2>3. \A l \in 1..Len(s.lim) : Len(s.lim) >= l /\ N + 1 > s.lim[l]
    BY <1>3, <2>2
  <2>4. \A i \in 1..(N + 1) :
          Lv(t, i) <= Len(s.lim) /\ \A l \in 1..Len(s.lim) : Lv(t, i) >= l <=> i > s.lim[l]
    BY <1>3, <1>7, <1>8, <2>1, <2>3
  <2> QED BY <1>0, <1>1, <1>8, <2>4 DEF LevelsOK
<1>13. ReasonsOK(t)
  <2>1. ASSUME NEW i \in 1..N, t.reason[t.trail[i][1]] # NoClause
        PROVE  Explains(t, t.reason[t.trail[i][1]], i)
    <3>1. Explains(s, s.reason[s.trail[i][1]], i)
      BY <1>0, <1>2, <1>6, <2>1 DEF ReasonsOK
    <3>2. \A j \in 1..(i - 1) : t.trail[j] = s.trail[j]
      BY <1>6
    <3>3. PICK x : x = s.reason[s.trail[i][1]]
      OBVIOUS
    <3>4. Explains(s, x, i) /\ t.reason[t.trail[i][1]] = x /\ t.trail[i] = s.trail[i]
      BY <1>6, <3>1, <3>3
    <3>5. Explains(t, x, i)
      BY <1>1, <3>2, <3>4 DEF Explains
    <3> QED BY <3>4, <3>5
  <2>2. ASSUME r # NoClause PROVE Explains(t, r, N + 1)
    <3>1. Implies1(s, r, p)
      BY <2>2
    <3>2. (N + 1) - 1 = N
      BY <1>2
    <3> QED BY <1>1, <1>2, <1>6, <1>8, <3>1, <3>2 DEF Explains, Implies1, OnTrail
  <2> QED BY <1>1, <1>8, <2>1, <2>2 DEF ReasonsOK
<1>14. HeapOK(t)
  <2>1. \A v : Open(t, v) => Open(s, v)
    BY <1>1 DEF Open
  <2> QED BY <1>0, <1>1, <2>1 DEF HeapOK
<1>15. FreeOK(t)
  <2>1. \A v : Open(t, v) => Open(s, v)
    BY <1>1 DEF Open
  <2> QED BY <1>0, <1>1, <2>1 DEF FreeOK
<1>16. Within(t, UsableLits(t))
  BY <1>0, <1>1, <1>10 DEF Within, UsableLits
<1>17. Books(t)
  BY <1>1, <1>11, <1>12, <1>13, <1>14, <1>15, <1>16 DEF Books
<1>18. ASSUME WatchesOK(s) PROVE WatchesOK(t)
  <2>1. ASSUME NEW q \in AllLits, WatchedBy(s, q, s.watches[q]) PROVE WatchedBy(t, q, s.watches[q])
    <3>1. \A i \in 1..Len(s.watches[q]) : s.watches[q][i] \in Watcher
      BY <1>0, TypedIs, LenProperties
    <3>2. \A x, y : Watched(t, x, y) <=> Watched(s, x, y)
      BY <1>1 DEF Watched
    <3>3. \A w \in Watcher : w.ref \in DOMAIN s.clause /\ BlockerOK(s, w) => BlockerOK(t, w)
      BY <1>0, <1>1, <1>9, GrowsIs
    <3>4. \A x, y : Watched(s, x, y) => x \in DOMAIN s.clause
      BY DEF Watched
    <3> QED BY <1>1, <2>1, <3>1, <3>2, <3>3, <3>4 DEF WatchedBy
  <2> QED BY <1>1, <1>18, <2>1 DEF WatchesOK
<1>19. ASSUME NEW n \in 0..N, AwakeTo(s, n) PROVE AwakeTo(t, n)
  <2> SUFFICES ASSUME NEW x \in DOMAIN s.clause, NEW j \in 1..n PROVE AwakeAt(t, x, j)
    BY <1>1 DEF AwakeTo
  <2>1. AwakeAt(s, x, j) /\ j \in 1..N
    BY <1>2, <1>19 DEF AwakeTo
  <2> QED BY <1>0, <1>1, <1>2, <1>9, <2>1, GrowsAwake
<1> QED BY <1>2, <1>7, <1>9, <1>17, <1>18, <1>19

-----------------------------------------------------------------------------
(* A new decision level.                                                   *)

\* Watchers stay right while the clauses and what holds at level 0 stay.
LEMMA SameWatches ==
  ASSUME NEW s, NEW t, t.clause = s.clause, t.watches = s.watches,
         \A p : AtRoot(s, p) => AtRoot(t, p), WatchesOK(s)
  PROVE  WatchesOK(t)
<1>1. \A x, y : Watched(t, x, y) <=> Watched(s, x, y)
  BY DEF Watched
<1>2. \A x, y : InClause(t, x, y) <=> InClause(s, x, y)
  BY DEF InClause
<1>3. \A w : BlockerOK(s, w) => BlockerOK(t, w)
  BY <1>2 DEF BlockerOK
<1>4. ASSUME NEW p, NEW ws, WatchedBy(s, p, ws) PROVE WatchedBy(t, p, ws)
  BY <1>1, <1>3, <1>4 DEF WatchedBy
<1> QED BY <1>4 DEF WatchesOK

\* Clauses stay awake while they, the trail and its levels stay.
LEMMA SameAwake ==
  ASSUME NEW s, NEW t, t.clause = s.clause, t.trail = s.trail, t.level = s.level, NEW n, AwakeTo(s, n)
  PROVE  AwakeTo(t, n)
<1>1. \A i : Lv(t, i) = Lv(s, i)
  BY DEF Lv
<1>2. \A x, y : InClause(t, x, y) <=> InClause(s, x, y)
  BY DEF InClause
<1>3. \A r, j : AwakeAt(s, r, j) => AwakeAt(t, r, j)
  BY <1>1, <1>2 DEF AwakeAt
<1> QED BY <1>3 DEF AwakeTo

\* t is s with a new decision level.
OneLevelMore(s, t) ==
  /\ Books(t) /\ Grows(s, t) /\ Grows(t, s)
  /\ t.clause = s.clause /\ t.learnts = s.learnts /\ t.watches = s.watches /\ t.trail = s.trail
  /\ t.qhead = s.qhead /\ t.assigned = s.assigned /\ t.reason = s.reason /\ t.level = s.level
  /\ t.heap = s.heap /\ t.ok = s.ok /\ t.nextVar = s.nextVar
  /\ t.released = s.released /\ t.free = s.free
  /\ Len(t.lim) = Len(s.lim) + 1 /\ t.lim[Len(s.lim) + 1] = Len(s.trail)
  /\ \A l \in 1..Len(s.lim) : t.lim[l] = s.lim[l]
  /\ WatchesOK(s) => WatchesOK(t)
  /\ \A n \in 0..Len(s.trail) : AwakeTo(s, n) => AwakeTo(t, n)

\* newDecisionLevel() on a propagated trail.
LEMMA NewLevelBooks ==
  ASSUME NEW s, Books(s), s.qhead = Len(s.trail), NEW t, t = NewDecisionLevel(s)
  PROVE  OneLevelMore(s, t)
<1> USE DEF OneLevelMore
<1>0. Typed(s) /\ TrailOK(s) /\ LevelsOK(s) /\ ReasonsOK(s) /\ HeapOK(s) /\ FreeOK(s) /\ Within(s, UsableLits(s))
  BY BooksAre
<1>1. s \in SolverType /\ s.lim \in Seq(Nat) /\ Len(s.trail) \in Nat /\ Len(s.lim) \in Nat
      /\ (\A l \in 1..Len(s.lim) : s.lim[l] \in Nat) /\ s.qhead \in Nat
      /\ (\A i \in 1..Len(s.trail) : Lv(s, i) \in Nat)
  BY <1>0, TypedIs
<1>2. PICK q : q = Append(s.lim, Len(s.trail))
  OBVIOUS
<1>3. q \in Seq(Nat) /\ Len(q) = Len(s.lim) + 1 /\ q[Len(s.lim) + 1] = Len(s.trail)
      /\ \A l \in 1..Len(s.lim) : q[l] = s.lim[l]
  BY <1>1, <1>2, AppendIs
<1>4. t = [s EXCEPT !.lim = q]
  BY <1>1, <1>2 DEF NewDecisionLevel, SolverType
<1>5. t \in SolverType
  BY <1>1, <1>3, <1>4 DEF SolverType
<1>6. /\ t.clause = s.clause /\ t.learnts = s.learnts /\ t.watches = s.watches /\ t.trail = s.trail
      /\ t.qhead = s.qhead /\ t.assigned = s.assigned /\ t.reason = s.reason /\ t.level = s.level
      /\ t.heap = s.heap /\ t.ok = s.ok /\ t.nextVar = s.nextVar
      /\ t.released = s.released /\ t.free = s.free /\ t.lim = q
  BY <1>1, <1>4 DEF SolverType
<1>7. Typed(t)
  BY <1>0, <1>5, <1>6 DEF Typed
<1>8. \A i : Lv(t, i) = Lv(s, i)
  BY <1>6 DEF Lv
<1>9. \A v : (Open(t, v) <=> Open(s, v)) /\ (IsFree(t, v) <=> IsFree(s, v))
  BY <1>6 DEF Open, IsFree
<1>10. \A p : (Usable(t, p) <=> Usable(s, p)) /\ (OnTrail(t, p) <=> OnTrail(s, p)) /\ (AtRoot(t, p) <=> AtRoot(s, p))
  BY <1>6, <1>8, <1>9 DEF Usable, OnTrail, AtRoot
<1>11. TrailOK(t)
  BY <1>0, <1>6, <1>9, <1>10 DEF TrailOK
<1>12. LevelsOK(t)
  <2>1. PICK L \in Nat : L = Len(s.lim)
    BY <1>1
  <2>2. PICK N \in Nat : N = Len(s.trail)
    BY <1>1
  <2>3. /\ \A l \in 1..L : s.lim[l] <= N
        /\ \A l, k \in 1..L : l <= k => s.lim[l] <= s.lim[k]
        /\ \A i \in 1..N : Lv(s, i) <= L /\ Lv(s, i) \in Nat /\ \A l \in 1..L : Lv(s, i) >= l <=> i > s.lim[l]
    BY <1>0, <1>1, <2>1, <2>2 DEF LevelsOK
  <2>4. Len(q) = L + 1 /\ q[L + 1] = N /\ (\A l \in 1..L : q[l] = s.lim[l] /\ q[l] \in Nat)
        /\ \A l \in 1..(L + 1) : l \in 1..L \/ l = L + 1
    BY SMTT(30), <1>1, <1>3, <2>1, <2>2
  <2>5. \A l \in 1..(L + 1) : q[l] <= N
    <3>1. \A l \in 1..L : q[l] <= N
      BY <2>3, <2>4
    <3>2. q[L + 1] <= N
      BY <2>2, <2>4
    <3> QED BY <2>4, <3>1, <3>2
  <2>6. \A l, k \in 1..(L + 1) : l <= k => q[l] <= q[k]
    <3> SUFFICES ASSUME NEW l \in 1..(L + 1), NEW k \in 1..(L + 1), l <= k PROVE q[l] <= q[k]
      OBVIOUS
    <3>1. CASE k = L + 1
      BY <2>4, <2>5, <3>1
    <3>2. CASE k \in 1..L
      <4>1. l \in 1..L
        BY <3>2
      <4> QED BY <2>3, <2>4, <3>2, <4>1
    <3> QED BY <2>4, <3>1, <3>2
  <2>7. \A i \in 1..N : Lv(s, i) <= L + 1 /\ \A l \in 1..(L + 1) : Lv(s, i) >= l <=> i > q[l]
    <3> SUFFICES ASSUME NEW i \in 1..N, NEW l \in 1..(L + 1) PROVE Lv(s, i) <= L + 1 /\ (Lv(s, i) >= l <=> i > q[l])
      BY <2>3
    <3>1. CASE l = L + 1
      <4>1. Lv(s, i) <= L /\ Lv(s, i) \in Nat
        BY <2>3
      <4> QED BY <2>4, <3>1, <4>1
    <3>2. CASE l \in 1..L
      <4>1. Lv(s, i) <= L /\ Lv(s, i) \in Nat /\ (Lv(s, i) >= l <=> i > s.lim[l])
        BY <2>3, <3>2
      <4> QED BY <2>4, <3>2, <4>1
    <3> QED BY <2>4, <3>1, <3>2
  <2> QED BY <1>6, <1>8, <2>2, <2>4, <2>5, <2>6, <2>7 DEF LevelsOK
<1>13. ReasonsOK(t)
  <2>1. \A x, i : Explains(t, x, i) <=> Explains(s, x, i)
    BY <1>6 DEF Explains
  <2> QED BY <1>0, <1>6, <2>1 DEF ReasonsOK
<1>14. HeapOK(t) /\ FreeOK(t)
  BY <1>0, <1>6, <1>9 DEF HeapOK, FreeOK
<1>15. Within(t, UsableLits(t))
  BY <1>0, <1>6, <1>10 DEF Within, UsableLits
<1>16. Books(t)
  BY <1>7, <1>11, <1>12, <1>13, <1>14, <1>15 DEF Books
<1>17. Grows(s, t) /\ Grows(t, s)
  BY <1>1, <1>6, <1>8 DEF Grows, InClause
<1>18. ASSUME WatchesOK(s) PROVE WatchesOK(t)
  BY <1>6, <1>10, <1>18, SameWatches
<1>19. \A n : AwakeTo(s, n) => AwakeTo(t, n)
  BY <1>6, SameAwake
<1> QED BY <1>3, <1>6, <1>16, <1>17, <1>18, <1>19

\* The first n members of a sequence.
LEMMA FrontIs ==
  ASSUME NEW S, NEW q \in Seq(S), NEW n \in 0..Len(q), NEW r, r = SubSeq(q, 1, n)
  PROVE  r \in Seq(S) /\ Len(r) = n /\ \A i \in 1..n : r[i] = q[i]
<1>1. Len(q) \in Nat
  BY LenProperties
<1>2. 1 \in 1..(Len(q) + 1) /\ n \in (1 - 1)..Len(q)
  BY <1>1
<1>3. r \in Seq(S) /\ Len(r) = n - 1 + 1 /\ \A i \in 1..(n - 1 + 1) : r[i] = q[1 + i - 1]
  BY <1>2, SubSeqProperties
<1> QED BY <1>1, <1>3

\* The members of a sequence after the first n.
LEMMA RestIs ==
  ASSUME NEW S, NEW q \in Seq(S), NEW n \in 0..Len(q), NEW r, r = SubSeq(q, n + 1, Len(q))
  PROVE  r \in Seq(S) /\ Len(r) = Len(q) - n /\ \A i \in 1..(Len(q) - n) : r[i] = q[n + i]
<1>1. Len(q) \in Nat
  BY LenProperties
<1>2. n + 1 \in 1..(Len(q) + 1) /\ Len(q) \in ((n + 1) - 1)..Len(q)
  BY <1>1
<1>3. r \in Seq(S) /\ Len(r) = Len(q) - (n + 1) + 1
      /\ \A i \in 1..(Len(q) - (n + 1) + 1) : r[i] = q[(n + 1) + i - 1]
  BY <1>2, SubSeqProperties
<1>4. PICK N \in Nat : N = Len(q)
  BY <1>1
<1>5. Len(r) = N - n /\ \A i \in 1..(N - n) : r[i] = q[n + i]
  <2>1. N - (n + 1) + 1 = N - n /\ \A i \in 1..(N - n) : (n + 1) + i - 1 = n + i
    BY <1>4
  <2> QED BY <1>3, <1>4, <2>1
<1> QED BY <1>3, <1>4, <1>5

\* The members of the rest of a sequence.
LEMMA RestRange ==
  ASSUME NEW S, NEW q \in Seq(S), NEW n \in 0..Len(q), NEW r, r = SubSeq(q, n + 1, Len(q))
  PROVE  Range(r) = {q[i] : i \in (n + 1)..Len(q)}
<1>1. r \in Seq(S) /\ Len(r) = Len(q) - n /\ \A i \in 1..(Len(q) - n) : r[i] = q[n + i]
  BY RestIs
<1>2. PICK N \in Nat : N = Len(q)
  BY LenProperties
<1>3. \A x : x \in Range(r) <=> \E i \in 1..Len(r) : r[i] = x
  BY <1>1, SeqIs
<1>4. ASSUME NEW x, NEW i \in 1..(N - n), r[i] = x PROVE \E j \in (n + 1)..N : q[j] = x
  <2>1. n + i \in (n + 1)..N
    BY <1>2
  <2> QED BY <1>1, <1>2, <1>4, <2>1
<1>5. ASSUME NEW x, NEW j \in (n + 1)..N, q[j] = x PROVE \E i \in 1..(N - n) : r[i] = x
  <2>1. j - n \in 1..(N - n) /\ n + (j - n) = j
    BY <1>2
  <2> QED BY <1>1, <1>2, <1>5, <2>1
<1>6. \A x : x \in Range(r) <=> \E i \in (n + 1)..N : q[i] = x
  BY <1>1, <1>2, <1>3, <1>4, <1>5
<1>7. Range(r) = {q[i] : i \in (n + 1)..N}
  BY <1>6
<1> QED BY <1>2, <1>7

-----------------------------------------------------------------------------
(* cancelUntil()                                                           *)

\* Where the last level begins.
Bottom(s) == IF Len(s.lim) = 0 THEN 0 ELSE s.lim[Len(s.lim)]

\* Where the last level begins, and below it.
LEMMA BottomIs ==
  ASSUME NEW s, Books(s)
  PROVE  Bottom(s) \in 0..Len(s.trail) /\ Bottom(s) <= s.qhead
<1>1. Typed(s) /\ LevelsOK(s) /\ TrailOK(s)
  BY BooksAre
<1>2. Len(s.lim) \in Nat /\ Len(s.trail) \in Nat /\ s.qhead \in Nat /\ \A l \in 1..Len(s.lim) : s.lim[l] \in Nat
  BY <1>1, TypedIs
<1>3. s.qhead <= Len(s.trail) /\ \A l \in 1..Len(s.lim) : s.lim[l] <= s.qhead
  BY <1>1 DEF LevelsOK, TrailOK
<1>4. CASE Len(s.lim) = 0
  BY <1>2, <1>4 DEF Bottom
<1>5. CASE Len(s.lim) # 0
  <2>1. Len(s.lim) \in 1..Len(s.lim)
    BY <1>2, <1>5
  <2> QED BY <1>2, <1>3, <1>5, <2>1 DEF Bottom
<1> QED BY <1>4, <1>5

\* t is s with the first lv levels and the first n literals of the trail.
CancelledTo(s, lv, n, t) ==
  /\ n \in 0..Len(s.trail) /\ Typed(t)
  /\ t.clause = s.clause /\ t.learnts = s.learnts /\ t.watches = s.watches
  /\ t.reason = s.reason /\ t.level = s.level /\ t.ok = s.ok /\ t.nextVar = s.nextVar
  /\ t.released = s.released /\ t.free = s.free
  /\ Len(t.trail) = n /\ t.qhead = n /\ \A i \in 1..n : t.trail[i] = s.trail[i]
  /\ Len(t.lim) = lv /\ \A l \in 1..lv : t.lim[l] = s.lim[l]
  /\ \A q : q \in t.assigned <=> q \in s.assigned /\ \A i \in (n + 1)..Len(s.trail) : s.trail[i] # q
  /\ \A v : v \in t.heap <=> v \in s.heap \/ \E i \in (n + 1)..Len(s.trail) : s.trail[i][1] = v

\* What cancelUntil() changes.
LEMMA CancelFields ==
  ASSUME NEW s, Books(s), NEW lv \in Nat, Len(s.lim) > lv, NEW t, t = CancelUntil(s, lv), NEW n, n = s.lim[lv + 1]
  PROVE  CancelledTo(s, lv, n, t)
<1> USE DEF CancelledTo
<1>0. Typed(s) /\ TrailOK(s) /\ LevelsOK(s)
  BY BooksAre
<1>1. /\ s \in SolverType /\ s.trail \in Seq(AllLits) /\ s.lim \in Seq(Nat) /\ Len(s.trail) \in Nat
      /\ Len(s.lim) \in Nat /\ s.qhead \in Nat /\ s.assigned \subseteq AllLits /\ s.heap \subseteq Vars
      /\ (\A l \in 1..Len(s.lim) : s.lim[l] \in Nat)
      /\ (\A i \in 1..Len(s.trail) : s.trail[i] \in AllLits /\ s.trail[i][1] \in Vars)
  BY <1>0, TypedIs
<1>2. lv + 1 \in 1..Len(s.lim) /\ lv \in 0..Len(s.lim)
  BY <1>1
<1>3. n \in Nat /\ n <= s.qhead /\ s.qhead <= Len(s.trail)
  BY <1>0, <1>1, <1>2 DEF LevelsOK, TrailOK
<1>4. n \in 0..Len(s.trail)
  BY <1>1, <1>3
<1>5. PICK q : q = SubSeq(s.trail, 1, n)
  OBVIOUS
<1>6. PICK m : m = SubSeq(s.lim, 1, lv)
  OBVIOUS
<1>7. PICK u : u = Range(SubSeq(s.trail, n + 1, Len(s.trail)))
  OBVIOUS
<1>8. q \in Seq(AllLits) /\ Len(q) = n /\ \A i \in 1..n : q[i] = s.trail[i]
  BY SMTT(30), <1>1, <1>4, <1>5, FrontIs
<1>9. m \in Seq(Nat) /\ Len(m) = lv /\ \A i \in 1..lv : m[i] = s.lim[i]
  BY <1>1, <1>2, <1>6, FrontIs
<1>10. \A x : x \in u <=> \E i \in (n + 1)..Len(s.trail) : s.trail[i] = x
  <2>1. PICK r : r = SubSeq(s.trail, n + 1, Len(s.trail))
    OBVIOUS
  <2>2. Range(r) = {s.trail[i] : i \in (n + 1)..Len(s.trail)}
    BY <1>1, <1>4, <2>1, RestRange
  <2> QED BY <1>7, <2>1, <2>2
<1>11. PICK a : a = s.assigned \ u
  OBVIOUS
<1>12. PICK h : h = s.heap \cup VarsOf(u)
  OBVIOUS
<1>13. ~(Level(s) <= lv)
  BY <1>1 DEF Level
<1>14. t = [s EXCEPT !.assigned = a, !.heap = h, !.trail = q, !.qhead = n, !.lim = m]
  BY <1>1, <1>5, <1>6, <1>7, <1>11, <1>12, <1>13 DEF CancelUntil, SolverType
<1>15. \A x \in u : x \in AllLits /\ x[1] \in Vars
  <2>1. \A i \in (n + 1)..Len(s.trail) : i \in 1..Len(s.trail)
    BY <1>1, <1>3
  <2> QED BY <1>1, <1>10, <2>1
<1>16. a \in SUBSET AllLits /\ h \in SUBSET Vars
  BY <1>1, <1>11, <1>12, <1>15 DEF VarsOf
<1>17. t \in SolverType
  BY ZenonT(40), <1>1, <1>3, <1>8, <1>9, <1>14, <1>16 DEF SolverType
<1>18. /\ t.clause = s.clause /\ t.learnts = s.learnts /\ t.watches = s.watches
       /\ t.reason = s.reason /\ t.level = s.level /\ t.ok = s.ok /\ t.nextVar = s.nextVar
       /\ t.released = s.released /\ t.free = s.free
       /\ t.trail = q /\ t.qhead = n /\ t.lim = m /\ t.assigned = a /\ t.heap = h
  BY <1>1, <1>14 DEF SolverType
<1>19. Typed(t)
  BY <1>0, <1>17, <1>18 DEF Typed
<1>20. \A x : x \in t.assigned <=> x \in s.assigned /\ \A i \in (n + 1)..Len(s.trail) : s.trail[i] # x
  BY <1>10, <1>11, <1>18
<1>21. \A v : v \in t.heap <=> v \in s.heap \/ \E i \in (n + 1)..Len(s.trail) : s.trail[i][1] = v
  <2>1. \A v : v \in VarsOf(u) <=> \E x \in u : x[1] = v
    BY DEF VarsOf
  <2> QED BY <1>10, <1>12, <1>18, <2>1
<1> QED BY <1>4, <1>8, <1>9, <1>18, <1>19, <1>20, <1>21

\* t is s without the levels above lv.
Cancelled(s, lv, t) ==
  /\ Books(t) /\ Grows(t, s)
  /\ t.clause = s.clause /\ t.learnts = s.learnts /\ t.watches = s.watches
  /\ t.reason = s.reason /\ t.level = s.level /\ t.ok = s.ok /\ t.nextVar = s.nextVar
  /\ t.released = s.released /\ t.free = s.free
  /\ IF Len(s.lim) > lv THEN Len(t.lim) = lv /\ t.qhead = Len(t.trail) ELSE t = s
  /\ \A l \in 1..Len(t.lim) : l \in 1..Len(s.lim) /\ t.lim[l] = s.lim[l]
  /\ \A i \in 1..Len(s.trail) : i \in 1..Len(t.trail) <=> Lv(s, i) <= lv
  /\ \A p : AtRoot(t, p) <=> AtRoot(s, p)
  /\ WatchesOK(s) => WatchesOK(t)
  /\ AwakeTo(s, Bottom(s)) /\ Len(s.lim) > lv => AwakeTo(t, Len(t.trail))

\* cancelUntil() keeps what was assigned up to the level.
LEMMA CancelBooks ==
  ASSUME NEW s, Books(s), NEW lv \in Nat, NEW t, t = CancelUntil(s, lv)
  PROVE  Cancelled(s, lv, t)
<1> USE DEF Cancelled
<1>0. Typed(s) /\ TrailOK(s) /\ LevelsOK(s) /\ ReasonsOK(s) /\ HeapOK(s) /\ FreeOK(s) /\ Within(s, UsableLits(s))
  BY BooksAre
<1>1. /\ Len(s.trail) \in Nat /\ Len(s.lim) \in Nat /\ s.assigned \subseteq AllLits
      /\ (\A l \in 1..Len(s.lim) : s.lim[l] \in Nat)
      /\ (\A i \in 1..Len(s.trail) : s.trail[i] \in AllLits /\ s.trail[i][1] \in Vars /\ Lv(s, i) \in Nat)
  BY <1>0, TypedIs
<1>2. CASE ~(Len(s.lim) > lv)
  <2>1. t = s
    BY <1>1, <1>2 DEF CancelUntil, Level
  <2>2. \A i \in 1..Len(s.trail) : Lv(s, i) <= lv
    BY <1>0, <1>1, <1>2 DEF LevelsOK
  <2>3. Grows(s, s)
    BY <1>1 DEF Grows
  <2> QED BY <1>2, <2>1, <2>2, <2>3
<1>3. CASE Len(s.lim) > lv
  <2>0. PICK n : n = s.lim[lv + 1]
    OBVIOUS
  <2>1. /\ n \in 0..Len(s.trail) /\ Typed(t)
        /\ t.clause = s.clause /\ t.learnts = s.learnts /\ t.watches = s.watches
        /\ t.reason = s.reason /\ t.level = s.level /\ t.ok = s.ok /\ t.nextVar = s.nextVar
        /\ t.released = s.released /\ t.free = s.free
        /\ Len(t.trail) = n /\ t.qhead = n /\ (\A i \in 1..n : t.trail[i] = s.trail[i])
        /\ Len(t.lim) = lv /\ (\A l \in 1..lv : t.lim[l] = s.lim[l])
        /\ (\A q : q \in t.assigned <=> q \in s.assigned /\ \A i \in (n + 1)..Len(s.trail) : s.trail[i] # q)
        /\ (\A v : v \in t.heap <=> v \in s.heap \/ \E i \in (n + 1)..Len(s.trail) : s.trail[i][1] = v)
    BY SMTT(30), <1>3, <2>0, CancelFields DEF CancelledTo
  <2>2. PICK N \in Nat : N = Len(s.trail)
    BY <1>1
  <2>3. n \in Nat /\ n <= N /\ lv + 1 \in 1..Len(s.lim) /\ (\A i \in 1..n : i \in 1..N)
        /\ (\A i \in (n + 1)..N : i \in 1..N) /\ (\A i \in 1..N : i \in 1..n \/ i \in (n + 1)..N)
        /\ (\A i \in 1..n : i \notin (n + 1)..N) /\ (\A i \in 1..N : i \in 1..n <=> ~(i > n))
    BY <1>1, <1>3, <2>1, <2>2
  <2>4. \A i \in 1..n : Lv(t, i) = Lv(s, i)
    BY <2>1 DEF Lv
  <2>5. \A i \in 1..N : i \in 1..n <=> Lv(s, i) <= lv
    <3> SUFFICES ASSUME NEW i \in 1..N PROVE i \in 1..n <=> Lv(s, i) <= lv
      OBVIOUS
    <3>1. Lv(s, i) >= lv + 1 <=> i > n
      BY <1>0, <2>0, <2>2, <2>3 DEF LevelsOK
    <3>2. Lv(s, i) \in Nat
      BY <1>1, <2>2
    <3>3. Lv(s, i) >= lv + 1 <=> ~(Lv(s, i) <= lv)
      BY <3>2
    <3> QED BY <2>3, <3>1, <3>3
  <2>6. Grows(t, s)
    BY <2>1, <2>2, <2>3, <2>4 DEF Grows, InClause
  <2>7. \A v : IsFree(t, v) <=> IsFree(s, v)
    BY <2>1 DEF IsFree
  <2>8. \A q : Usable(t, q) <=> Usable(s, q)
    BY <2>1, <2>7 DEF Usable
  <2>9. /\ \A i, j \in 1..N : s.trail[i][1] = s.trail[j][1] => i = j
        /\ \A i \in 1..N : s.trail[i] \in s.assigned /\ Usable(s, s.trail[i])
        /\ \A q \in s.assigned : OnTrail(s, q) \/ IsFree(s, q[1])
        /\ \A q \in s.assigned : Neg(q) \notin s.assigned
    BY <1>0, <2>2 DEF TrailOK
  <2>10. \A q : AtRoot(t, q) <=> AtRoot(s, q)
    <3>1. \A i \in 1..N : Lv(s, i) = 0 => i \in 1..n
      <4>1. 0 <= lv
        OBVIOUS
      <4> QED BY <2>5, <4>1
    <3> QED BY SMTT(30), <2>1, <2>2, <2>3, <2>4, <3>1 DEF AtRoot
  <2>11. TrailOK(t)
    <3>1. \A i, j \in 1..n : t.trail[i][1] = t.trail[j][1] => i = j
      BY SMTT(30), <2>1, <2>3, <2>9
    <3>2. \A i \in 1..n : t.trail[i] \in t.assigned /\ Usable(t, t.trail[i])
      <4> SUFFICES ASSUME NEW i \in 1..n PROVE t.trail[i] \in t.assigned /\ Usable(t, t.trail[i])
        OBVIOUS
      <4>1. t.trail[i] = s.trail[i] /\ s.trail[i] \in s.assigned /\ Usable(t, s.trail[i])
        BY <2>1, <2>3, <2>8, <2>9
      <4>2. \A j \in (n + 1)..N : s.trail[j] # s.trail[i]
        BY <2>3, <2>9
      <4> QED BY <2>1, <2>2, <4>1, <4>2
    <3>3. \A q \in t.assigned : OnTrail(t, q) \/ IsFree(t, q[1])
      <4> SUFFICES ASSUME NEW q \in t.assigned, ~IsFree(s, q[1]) PROVE OnTrail(t, q)
        BY <2>7
      <4>1. q \in s.assigned /\ \A i \in (n + 1)..N : s.trail[i] # q
        BY <2>1, <2>2
      <4>2. PICK i \in 1..N : s.trail[i] = q
        BY <2>2, <2>9, <4>1 DEF OnTrail
      <4>3. i \in 1..n
        BY <2>3, <4>1, <4>2
      <4> QED BY <2>1, <4>2, <4>3 DEF OnTrail
    <3>4. \A q \in t.assigned : Neg(q) \notin t.assigned
      BY <2>1, <2>9
    <3> QED BY <2>1, <2>3, <3>1, <3>2, <3>3, <3>4 DEF TrailOK
  <2>12. LevelsOK(t)
    <3>1. /\ \A l \in 1..Len(s.lim) : s.lim[l] \in Nat
          /\ \A l, k \in 1..Len(s.lim) : l <= k => s.lim[l] <= s.lim[k]
          /\ \A i \in 1..N : \A l \in 1..Len(s.lim) : Lv(s, i) >= l <=> i > s.lim[l]
      BY <1>0, <1>1, <2>2 DEF LevelsOK
    <3>2. \A l \in 1..lv : l \in 1..Len(s.lim) /\ l <= lv + 1
      BY <1>1, <1>3
    <3>3. \A l \in 1..lv : t.lim[l] <= n
      BY <2>0, <2>1, <2>3, <3>1, <3>2
    <3>4. \A l, k \in 1..lv : l <= k => t.lim[l] <= t.lim[k]
      BY <2>1, <3>1, <3>2
    <3>5. \A i \in 1..n : Lv(t, i) <= lv /\ \A l \in 1..lv : Lv(t, i) >= l <=> i > t.lim[l]
      BY <2>1, <2>3, <2>4, <2>5, <3>1, <3>2
    <3> QED BY <2>1, <3>3, <3>4, <3>5 DEF LevelsOK
  <2>13. ReasonsOK(t)
    <3>1. \A x : \A i \in 1..n : Explains(s, x, i) => Explains(t, x, i)
      <4> SUFFICES ASSUME NEW x, NEW i \in 1..n, Explains(s, x, i) PROVE Explains(t, x, i)
        OBVIOUS
      <4>1. \A j \in 1..(i - 1) : j \in 1..n
        BY <2>3
      <4> QED BY <2>1, <4>1 DEF Explains
    <3>2. \A i \in 1..n : s.reason[s.trail[i][1]] # NoClause => Explains(s, s.reason[s.trail[i][1]], i)
      BY <1>0, <2>2, <2>3 DEF ReasonsOK
    <3>3. \A i \in 1..n : t.reason[t.trail[i][1]] = s.reason[s.trail[i][1]]
      BY <2>1
    <3> QED BY <2>1, <3>1, <3>2, <3>3 DEF ReasonsOK
  <2>14. \A i \in (n + 1)..N : s.trail[i][1] \in Vars /\ s.trail[i][1] < s.nextVar
    BY <1>1, <2>2, <2>3, <2>9 DEF Usable
  <2>15. HeapOK(t)
    <3>1. ASSUME NEW v \in 0..(t.nextVar - 1), Open(t, v), v \notin t.heap PROVE FALSE
      <4>1. ~Open(s, v) /\ v \in Vars
        <5>1. v \in 0..(s.nextVar - 1) /\ v \notin s.heap
          BY <2>1, <3>1
        <5>2. s.nextVar <= MaxVars /\ s.nextVar \in Nat /\ MaxVars \in Nat /\ Vars = 0..(MaxVars - 1)
          BY <1>0, TypedIs, Bounds DEF HeapOK
        <5> QED BY <1>0, <5>1, <5>2 DEF HeapOK
      <4>2. PICK q \in s.assigned : q[1] = v
        BY <1>0, <4>1, OpenIs
      <4>3. q \notin t.assigned
        BY <2>1, <3>1, <4>1, <4>2, OpenIs
      <4>4. PICK i \in (n + 1)..Len(s.trail) : s.trail[i] = q
        BY <2>1, <4>3
      <4> QED BY <2>1, <3>1, <4>2, <4>4
    <3>2. \A v \in t.heap : v < t.nextVar
      BY <1>0, <2>1, <2>2, <2>14 DEF HeapOK
    <3> QED BY <1>0, <2>1, <3>1, <3>2 DEF HeapOK
  <2>16. FreeOK(t)
    <3> SUFFICES ASSUME NEW i \in 1..Len(s.free) PROVE ~Open(t, s.free[i])
      BY <1>0, <2>1 DEF FreeOK
    <3>1. ~Open(s, s.free[i]) /\ s.free[i] \in Vars
      BY <1>0, TypedIs DEF FreeOK
    <3>2. PICK q \in s.assigned : q[1] = s.free[i]
      BY <1>0, <3>1, OpenIs
    <3>3. IsFree(s, q[1])
      BY <3>2 DEF IsFree
    <3>4. \A j \in (n + 1)..N : s.trail[j] # q
      BY <2>3, <2>9, <3>3 DEF Usable
    <3>5. q \in t.assigned
      BY <2>1, <2>2, <3>2, <3>4
    <3> QED BY <2>1, <3>1, <3>2, <3>5, OpenIs
  <2>17. Within(t, UsableLits(t))
    BY <1>0, <2>1, <2>8 DEF Within, UsableLits
  <2>18. Books(t)
    BY <2>1, <2>11, <2>12, <2>13, <2>15, <2>16, <2>17 DEF Books
  <2>19. WatchesOK(s) => WatchesOK(t)
    BY <2>1, <2>10, SameWatches
  <2>20. ASSUME AwakeTo(s, Bottom(s)) PROVE AwakeTo(t, n)
    <3>1. Bottom(s) \in Nat /\ n <= Bottom(s)
      <4>1. Len(s.lim) # 0 /\ Len(s.lim) \in 1..Len(s.lim) /\ lv + 1 <= Len(s.lim)
        BY <1>1, <1>3
      <4> QED BY <1>0, <1>1, <2>0, <2>3, <4>1 DEF Bottom, LevelsOK
    <3> SUFFICES ASSUME NEW r \in DOMAIN s.clause, NEW j \in 1..n, NEW k \in {1, 2}, t.trail[j] = Neg(t.clause[r][k])
                 PROVE  \E i \in 1..n : InClause(t, r, t.trail[i]) /\ Lv(t, i) <= Lv(t, j)
      BY <2>1 DEF AwakeTo, AwakeAt
    <3>2. j \in 1..Bottom(s) /\ s.trail[j] = Neg(s.clause[r][k])
      BY <2>1, <2>3, <3>1
    <3>3. PICK i \in 1..N : InClause(s, r, s.trail[i]) /\ Lv(s, i) <= Lv(s, j)
      BY <2>2, <2>20, <3>2 DEF AwakeTo, AwakeAt
    <3>4. Lv(s, i) \in Nat /\ Lv(s, j) \in Nat /\ Lv(s, j) <= lv
      BY <1>1, <2>2, <2>3, <2>5
    <3>5. i \in 1..n
      BY <2>5, <3>3, <3>4
    <3> QED BY <2>1, <2>4, <3>3, <3>5 DEF InClause
  <2>21. \A l \in 1..lv : l \in 1..Len(s.lim)
    BY <1>1, <1>3
  <2> QED BY <1>3, <2>1, <2>2, <2>5, <2>6, <2>10, <2>18, <2>19, <2>20, <2>21
<1> QED BY <1>2, <1>3

-----------------------------------------------------------------------------
(* attachClause()                                                          *)

\* t is s with the clause c as r.
Attached(s, t, r, c) ==
  /\ Typed(t)
  /\ t.learnts = s.learnts /\ t.trail = s.trail /\ t.lim = s.lim
  /\ t.qhead = s.qhead /\ t.assigned = s.assigned /\ t.reason = s.reason /\ t.level = s.level
  /\ t.heap = s.heap /\ t.ok = s.ok /\ t.nextVar = s.nextVar
  /\ t.released = s.released /\ t.free = s.free
  /\ DOMAIN t.clause = DOMAIN s.clause \cup {r} /\ t.clause[r] = c
  /\ \A x \in DOMAIN s.clause : t.clause[x] = s.clause[x]
  /\ t.watches[Neg(c[1])] = Append(s.watches[Neg(c[1])], [ref |-> r, blocker |-> c[2]])
  /\ t.watches[Neg(c[2])] = Append(s.watches[Neg(c[2])], [ref |-> r, blocker |-> c[1]])
  /\ \A p \in AllLits : p # Neg(c[1]) /\ p # Neg(c[2]) => t.watches[p] = s.watches[p]

\* What alloc() and attachClause() change.
LEMMA AttachFields ==
  ASSUME NEW s, Typed(s), NEW r \in Nat \ {0}, r \notin DOMAIN s.clause, NEW c \in ClauseSeq, NEW t, t = Attach(s, r, c)
  PROVE  Attached(s, t, r, c)
<1>1. s \in SolverType /\ IsFiniteSet(DOMAIN s.clause) /\ s.learnts \subseteq DOMAIN s.clause
  BY DEF Typed
<1>2. /\ c[1] \in AllLits /\ c[2] \in AllLits /\ Neg(c[1]) \in AllLits /\ Neg(c[2]) \in AllLits
      /\ Neg(c[1]) # Neg(c[2])
  <2>1. c[1] \in AllLits /\ c[2] \in AllLits /\ c[1][1] # c[2][1]
    BY ClauseIs
  <2> QED BY <2>1, Literals
<1>3. s.watches \in [AllLits -> Seq(Watcher)] /\ s.clause \in UNION {[D -> ClauseSeq] : D \in SUBSET (Nat \ {0})}
  BY <1>1 DEF SolverType
<1>4. PICK w : w = [s.watches EXCEPT ![Neg(c[1])] = Append(@, [ref |-> r, blocker |-> c[2]]),
                                     ![Neg(c[2])] = Append(@, [ref |-> r, blocker |-> c[1]])]
  OBVIOUS
<1>5. [ref |-> r, blocker |-> c[2]] \in Watcher /\ [ref |-> r, blocker |-> c[1]] \in Watcher
  BY <1>2 DEF Watcher
<1>6. /\ w[Neg(c[1])] = Append(s.watches[Neg(c[1])], [ref |-> r, blocker |-> c[2]])
      /\ w[Neg(c[2])] = Append(s.watches[Neg(c[2])], [ref |-> r, blocker |-> c[1]])
      /\ \A p \in AllLits : p # Neg(c[1]) /\ p # Neg(c[2]) => w[p] = s.watches[p]
  BY <1>2, <1>3, <1>4
<1>7. w \in [AllLits -> Seq(Watcher)]
  <2>1. DOMAIN w = AllLits /\ w = [p \in AllLits |-> w[p]]
    BY <1>3, <1>4
  <2>2. ASSUME NEW p \in AllLits PROVE w[p] \in Seq(Watcher)
    <3>1. s.watches[p] \in Seq(Watcher)
      BY <1>3
    <3>2. CASE p = Neg(c[1])
      BY <1>5, <1>6, <3>1, <3>2, AppendIs
    <3>3. CASE p = Neg(c[2])
      BY <1>5, <1>6, <3>1, <3>3, AppendIs
    <3>4. CASE p # Neg(c[1]) /\ p # Neg(c[2])
      BY <1>6, <3>1, <3>4
    <3> QED BY <3>2, <3>3, <3>4
  <2> QED BY <2>1, <2>2
<1>8. PICK k : k = With(s.clause, r, c)
  OBVIOUS
<1>9. DOMAIN k = DOMAIN s.clause \cup {r} /\ k[r] = c /\ \A x \in DOMAIN s.clause : k[x] = s.clause[x]
  BY <1>8 DEF With
<1>10. k \in UNION {[D -> ClauseSeq] : D \in SUBSET (Nat \ {0})}
  <2>1. PICK D \in SUBSET (Nat \ {0}) : s.clause \in [D -> ClauseSeq]
    BY <1>3
  <2>2. k \in [D \cup {r} -> ClauseSeq]
    BY <1>8, <2>1 DEF With
  <2>3. D \cup {r} \in SUBSET (Nat \ {0})
    OBVIOUS
  <2> QED BY <2>2, <2>3
<1>11. t = [s EXCEPT !.watches = w, !.clause = k]
  BY <1>1, <1>4, <1>8 DEF Attach, Watch, SolverType
<1>12. t \in SolverType
  BY <1>1, <1>7, <1>10, <1>11 DEF SolverType
<1>13. /\ t.learnts = s.learnts /\ t.trail = s.trail /\ t.lim = s.lim
       /\ t.qhead = s.qhead /\ t.assigned = s.assigned /\ t.reason = s.reason /\ t.level = s.level
       /\ t.heap = s.heap /\ t.ok = s.ok /\ t.nextVar = s.nextVar
       /\ t.released = s.released /\ t.free = s.free /\ t.watches = w /\ t.clause = k
  BY <1>1, <1>11 DEF SolverType
<1>14. IsFiniteSet(DOMAIN t.clause)
  BY <1>1, <1>9, <1>13, FS_AddElement
<1>15. Typed(t)
  BY <1>1, <1>9, <1>12, <1>13, <1>14 DEF Typed
<1> QED BY <1>6, <1>9, <1>13, <1>15 DEF Attached

\* One more watcher, of a clause that had none in the list.
LEMMA OneMoreWatcher ==
  ASSUME NEW s, NEW t, NEW p, NEW q, NEW ws, ws \in Seq(Watcher), WatchedBy(s, p, ws), NEW w \in Watcher,
         q = Append(ws, w),
         Watched(t, w.ref, Neg(p)), BlockerOK(t, w), ~Watched(s, w.ref, Neg(p)),
         \A x \in Watcher : Watched(s, x.ref, Neg(p)) /\ BlockerOK(s, x) => BlockerOK(t, x),
         \A r : r # w.ref => (Watched(t, r, Neg(p)) <=> Watched(s, r, Neg(p)))
  PROVE  WatchedBy(t, p, q)
<1>1. q \in Seq(Watcher) /\ Len(q) = Len(ws) + 1 /\ Len(ws) \in Nat
      /\ q[Len(ws) + 1] = w /\ \A i \in 1..Len(ws) : q[i] = ws[i]
  BY AppendIs
<1>2. PICK N \in Nat : N = Len(ws)
  BY <1>1
<1>3. \A i \in 1..N : ws[i] \in Watcher /\ Watched(s, ws[i].ref, Neg(p)) /\ BlockerOK(s, ws[i])
  BY <1>2, LenProperties DEF WatchedBy
<1>4. \A i \in 1..N : ws[i].ref # w.ref
  BY <1>3
<1>5. Len(q) = N + 1 /\ q[N + 1] = w /\ (\A i \in 1..N : q[i] = ws[i]) /\ (\A i \in 1..(N + 1) : i \in 1..N \/ i = N + 1)
      /\ (\A i \in 1..N : i \in 1..(N + 1)) /\ N + 1 \in 1..(N + 1)
  BY <1>1, <1>2
<1>6. \A i \in 1..(N + 1) : Watched(t, q[i].ref, Neg(p)) /\ BlockerOK(t, q[i])
  BY <1>3, <1>4, <1>5
<1>7. \A i, j \in 1..(N + 1) : q[i].ref = q[j].ref => i = j
  <2>1. \A i, j \in 1..N : ws[i].ref = ws[j].ref => i = j
    BY <1>2 DEF WatchedBy
  <2> QED BY <1>4, <1>5, <2>1
<1>8. ASSUME NEW r \in DOMAIN t.clause, Watched(t, r, Neg(p)) PROVE \E i \in 1..(N + 1) : q[i].ref = r
  <2>1. CASE r = w.ref
    BY <1>5, <2>1
  <2>2. CASE r # w.ref
    <3>1. Watched(s, r, Neg(p))
      BY <1>8, <2>2
    <3>2. r \in DOMAIN s.clause
      BY <3>1 DEF Watched
    <3>3. PICK i \in 1..N : ws[i].ref = r
      BY <1>2, <3>1, <3>2 DEF WatchedBy
    <3> QED BY <1>5, <3>3
  <2> QED BY <2>1, <2>2
<1> QED BY <1>5, <1>6, <1>7, <1>8 DEF WatchedBy

\* attachClause() of a clause of usable literals.
LEMMA AttachBooks ==
  ASSUME NEW s, Books(s), WatchesOK(s), NEW r \in Nat \ {0}, r \notin DOMAIN s.clause, NEW c \in ClauseSeq,
         \A k \in 1..Len(c) : Usable(s, c[k]), NEW t, t = Attach(s, r, c)
  PROVE  /\ Books(t) /\ Grows(s, t) /\ WatchesOK(t)
         /\ \A n \in 0..Len(s.trail) : \A x \in DOMAIN s.clause : \A j \in 1..n : AwakeTo(s, n) => AwakeAt(t, x, j)
         /\ \A L : Within(s, L) /\ (\A k \in 1..Len(c) : c[k] \in L) => Within(t, L)
<1>0. Typed(s) /\ TrailOK(s) /\ LevelsOK(s) /\ ReasonsOK(s) /\ HeapOK(s) /\ FreeOK(s) /\ Within(s, UsableLits(s))
  BY BooksAre
<1>1. /\ Typed(t)
      /\ t.learnts = s.learnts /\ t.trail = s.trail /\ t.lim = s.lim
      /\ t.qhead = s.qhead /\ t.assigned = s.assigned /\ t.reason = s.reason /\ t.level = s.level
      /\ t.heap = s.heap /\ t.ok = s.ok /\ t.nextVar = s.nextVar
      /\ t.released = s.released /\ t.free = s.free
      /\ DOMAIN t.clause = DOMAIN s.clause \cup {r} /\ t.clause[r] = c
      /\ (\A x \in DOMAIN s.clause : t.clause[x] = s.clause[x])
      /\ t.watches[Neg(c[1])] = Append(s.watches[Neg(c[1])], [ref |-> r, blocker |-> c[2]])
      /\ t.watches[Neg(c[2])] = Append(s.watches[Neg(c[2])], [ref |-> r, blocker |-> c[1]])
      /\ (\A p \in AllLits : p # Neg(c[1]) /\ p # Neg(c[2]) => t.watches[p] = s.watches[p])
  <2>1. Attached(s, t, r, c)
    BY <1>0, AttachFields
  <2> QED BY <2>1 DEF Attached
<1>2. /\ c[1] \in AllLits /\ c[2] \in AllLits /\ Neg(c[1]) \in AllLits /\ Neg(c[2]) \in AllLits
      /\ c[1] # c[2] /\ Neg(Neg(c[1])) = c[1] /\ Neg(Neg(c[2])) = c[2] /\ 1 \in 1..Len(c) /\ 2 \in 1..Len(c)
  <2>1. c[1] \in AllLits /\ c[2] \in AllLits /\ c[1][1] # c[2][1] /\ 1 \in 1..Len(c) /\ 2 \in 1..Len(c)
    BY ClauseIs
  <2> QED BY <2>1, Literals
<1>3. \A v : (Open(t, v) <=> Open(s, v)) /\ (IsFree(t, v) <=> IsFree(s, v))
  BY <1>1 DEF Open, IsFree
<1>4. \A p : (Usable(t, p) <=> Usable(s, p)) /\ (OnTrail(t, p) <=> OnTrail(s, p))
  BY <1>1, <1>3 DEF Usable, OnTrail
<1>5. \A i : Lv(t, i) = Lv(s, i)
  BY <1>1 DEF Lv
<1>6. Len(s.trail) \in Nat
  BY <1>0, TypedIs
<1>7. Grows(s, t)
  BY <1>1, <1>5, <1>6 DEF Grows, InClause
<1>8. TrailOK(t) /\ LevelsOK(t)
  BY <1>0, <1>1, <1>3, <1>4, <1>5 DEF TrailOK, LevelsOK
<1>9. ReasonsOK(t)
  <2>1. ASSUME NEW x, NEW i, Explains(s, x, i) PROVE Explains(t, x, i)
    <3>1. x \in DOMAIN s.clause /\ x \in DOMAIN t.clause /\ t.clause[x] = s.clause[x]
      BY <1>1, <2>1 DEF Explains
    <3> QED BY SMTT(30), <1>1, <2>1, <3>1 DEF Explains
  <2> QED BY <1>0, <1>1, <2>1 DEF ReasonsOK
<1>10. HeapOK(t) /\ FreeOK(t)
  <2>1. HeapOK(t)
    BY <1>0, <1>1, <1>3 DEF HeapOK
  <2>2. FreeOK(t)
    BY <1>0, <1>1, <1>3 DEF FreeOK
  <2> QED BY <2>1, <2>2
<1>11. ASSUME NEW L, Within(s, L), \A k \in 1..Len(c) : c[k] \in L PROVE Within(t, L)
  <2>1. ASSUME NEW x \in DOMAIN t.clause, NEW k \in 1..Len(t.clause[x]) PROVE t.clause[x][k] \in L
    <3>1. CASE x = r
      BY <1>1, <1>11, <2>1, <3>1
    <3>2. CASE x # r
      <4>1. x \in DOMAIN s.clause /\ t.clause[x] = s.clause[x]
        BY <1>1, <3>2
      <4> QED BY <1>11, <2>1, <4>1 DEF Within
    <3> QED BY <3>1, <3>2
  <2>2. ASSUME NEW p \in AllLits, NEW d \in L, t.watches[p] = Append(s.watches[p], [ref |-> r, blocker |-> d]), d \in AllLits
        PROVE  \A i \in 1..Len(t.watches[p]) : t.watches[p][i].blocker \in L
    <3>1. s.watches[p] \in Seq(Watcher)
      BY <1>0, TypedIs
    <3>2. [ref |-> r, blocker |-> d] \in Watcher
      BY <2>2 DEF Watcher
    <3>3. /\ Len(t.watches[p]) = Len(s.watches[p]) + 1 /\ Len(s.watches[p]) \in Nat
          /\ t.watches[p][Len(s.watches[p]) + 1] = [ref |-> r, blocker |-> d]
          /\ \A i \in 1..Len(s.watches[p]) : t.watches[p][i] = s.watches[p][i]
      BY <2>2, <3>1, <3>2, AppendIs
    <3>4. \A i \in 1..Len(s.watches[p]) : s.watches[p][i].blocker \in L
      BY <1>11 DEF Within
    <3>5. \A i \in 1..Len(t.watches[p]) : i \in 1..Len(s.watches[p]) \/ i = Len(s.watches[p]) + 1
      BY <3>3
    <3> QED BY <2>2, <3>3, <3>4, <3>5
  <2>3. ASSUME NEW p \in AllLits PROVE \A i \in 1..Len(t.watches[p]) : t.watches[p][i].blocker \in L
    <3>1. CASE p = Neg(c[1])
      <4>1. c[2] \in L /\ c[2] \in AllLits
        BY <1>2, <1>11
      <4>2. t.watches[p] = Append(s.watches[p], [ref |-> r, blocker |-> c[2]])
        BY ONLY <1>1, <3>1
      <4> QED BY ONLY p \in AllLits, <2>2, <4>1, <4>2
    <3>2. CASE p = Neg(c[2])
      <4>1. c[1] \in L /\ c[1] \in AllLits
        BY <1>2, <1>11
      <4>2. t.watches[p] = Append(s.watches[p], [ref |-> r, blocker |-> c[1]])
        BY ONLY <1>1, <3>2
      <4> QED BY ONLY p \in AllLits, <2>2, <4>1, <4>2
    <3>3. CASE p # Neg(c[1]) /\ p # Neg(c[2])
      BY <1>1, <1>11, <3>3 DEF Within
    <3> QED BY <3>1, <3>2, <3>3
  <2> QED BY <2>1, <2>3 DEF Within
<1>12. Within(t, UsableLits(t))
  <2>1. \A k \in 1..Len(c) : c[k] \in UsableLits(s)
    BY ClauseIs DEF UsableLits
  <2>2. UsableLits(t) = UsableLits(s)
    BY <1>4 DEF UsableLits
  <2> QED BY <1>0, <1>11, <2>1, <2>2
<1>13. Books(t)
  BY <1>1, <1>8, <1>9, <1>10, <1>12 DEF Books
<1>14. WatchesOK(t)
  <2>1. \A x, y : x # r => (Watched(t, x, y) <=> Watched(s, x, y))
    BY <1>1 DEF Watched
  <2>2. \A y : ~Watched(s, r, y) /\ (Watched(t, r, y) <=> y = c[1] \/ y = c[2])
    BY <1>1 DEF Watched
  <2>3. \A w \in Watcher : w.ref \in DOMAIN s.clause /\ BlockerOK(s, w) => BlockerOK(t, w)
    BY <1>0, <1>1, <1>7, GrowsIs
  <2>4. \A x, y : Watched(s, x, y) => x \in DOMAIN s.clause
    BY DEF Watched
  <2>5. ASSUME NEW p \in AllLits, NEW d \in {c[1], c[2]}, Neg(p) \in {c[1], c[2]},
               t.watches[p] = Append(s.watches[p], [ref |-> r, blocker |-> d])
        PROVE  WatchedBy(t, p, t.watches[p])
    <3>1. PICK w : w = [ref |-> r, blocker |-> d]
      OBVIOUS
    <3>2. w \in Watcher /\ w.ref = r /\ w.blocker = d
      BY <1>2, <2>5, <3>1 DEF Watcher
    <3>3. BlockerOK(t, w)
      BY <1>1, <1>2, <2>5, <3>2 DEF BlockerOK, InClause
    <3>4. s.watches[p] \in Seq(Watcher) /\ WatchedBy(s, p, s.watches[p])
      BY <1>0, TypedIs DEF WatchesOK
    <3>5. Watched(t, r, Neg(p)) /\ ~Watched(s, r, Neg(p))
      BY <2>2, <2>5
    <3>6. \A x \in Watcher : Watched(s, x.ref, Neg(p)) /\ BlockerOK(s, x) => BlockerOK(t, x)
      BY <2>3, <2>4
    <3>7. \A x : x # w.ref => (Watched(t, x, Neg(p)) <=> Watched(s, x, Neg(p)))
      BY <2>1, <3>2
    <3> QED BY <2>5, <3>1, <3>2, <3>3, <3>4, <3>5, <3>6, <3>7, OneMoreWatcher
  <2>6. ASSUME NEW p \in AllLits, p # Neg(c[1]), p # Neg(c[2]) PROVE WatchedBy(t, p, t.watches[p])
    <3>1. WatchedBy(s, p, s.watches[p]) /\ t.watches[p] = s.watches[p] /\ s.watches[p] \in Seq(Watcher)
      BY <1>0, <1>1, <2>6, TypedIs DEF WatchesOK
    <3>2. Neg(p) # c[1] /\ Neg(p) # c[2]
      BY <2>6, Literals
    <3>3. \A x : Watched(t, x, Neg(p)) <=> Watched(s, x, Neg(p))
      BY <2>1, <2>2, <3>2
    <3>4. \A i \in 1..Len(s.watches[p]) : s.watches[p][i] \in Watcher
      BY <3>1, LenProperties
    <3>5. PICK ws : ws = s.watches[p]
      OBVIOUS
    <3>6. WatchedBy(s, p, ws) /\ \A i \in 1..Len(ws) : ws[i] \in Watcher
      BY <3>1, <3>4, <3>5
    <3>7. WatchedBy(t, p, ws)
      BY <2>3, <2>4, <3>3, <3>6 DEF WatchedBy
    <3> QED BY <3>1, <3>5, <3>7
  <2>7. ASSUME NEW p \in AllLits PROVE WatchedBy(t, p, t.watches[p])
    <3>1. CASE p = Neg(c[1])
      BY <1>1, <1>2, <2>5, <3>1
    <3>2. CASE p = Neg(c[2])
      BY <1>1, <1>2, <2>5, <3>2
    <3> QED BY <2>6, <3>1, <3>2
  <2> QED BY <2>7 DEF WatchesOK
<1>15. ASSUME NEW n \in 0..Len(s.trail), AwakeTo(s, n), NEW x \in DOMAIN s.clause, NEW j \in 1..n
       PROVE  AwakeAt(t, x, j)
  <2>1. AwakeAt(s, x, j) /\ j \in 1..Len(s.trail)
    BY <1>6, <1>15 DEF AwakeTo
  <2> QED BY <1>0, <1>1, <1>7, <2>1, GrowsAwake
<1> QED BY <1>7, <1>11, <1>13, <1>14, <1>15

-----------------------------------------------------------------------------
(* propagate(): one watcher.                                               *)

\* The literals of clause r change places; the first stays if it is true.
Reordered(s, r, d) == [s EXCEPT !.clause[r] = d]

\* A clause with other literals in front keeps the books in order, if no
\* reason is disturbed.
LEMMA ReorderBooks ==
  ASSUME NEW s, Books(s), NEW r \in DOMAIN s.clause, NEW d \in ClauseSeq,
         SameLits(s.clause[r], d),
         d[1] = s.clause[r][1] \/ s.clause[r][1] \notin s.assigned,
         NEW t, t = Reordered(s, r, d)
  PROVE  /\ Books(t) /\ Grows(s, t)
         /\ t.learnts = s.learnts /\ t.watches = s.watches /\ t.trail = s.trail /\ t.lim = s.lim
         /\ t.qhead = s.qhead /\ t.assigned = s.assigned /\ t.reason = s.reason /\ t.level = s.level
         /\ t.heap = s.heap /\ t.ok = s.ok /\ t.nextVar = s.nextVar
         /\ t.released = s.released /\ t.free = s.free
         /\ DOMAIN t.clause = DOMAIN s.clause /\ t.clause[r] = d
         /\ \A x \in DOMAIN s.clause : x # r => t.clause[x] = s.clause[x]
         /\ \A x \in DOMAIN s.clause : \A p : InClause(s, x, p) <=> InClause(t, x, p)
<1>0. Typed(s) /\ TrailOK(s) /\ LevelsOK(s) /\ ReasonsOK(s) /\ HeapOK(s) /\ FreeOK(s) /\ Within(s, UsableLits(s))
  BY BooksAre
<1>1. s \in SolverType /\ Len(s.trail) \in Nat /\ s.clause[r] \in ClauseSeq
  BY <1>0, TypedIs
<1>2. s.clause \in UNION {[D -> ClauseSeq] : D \in SUBSET (Nat \ {0})}
  BY <1>1 DEF SolverType
<1>3. PICK k : k = [s.clause EXCEPT ![r] = d]
  OBVIOUS
<1>4. DOMAIN k = DOMAIN s.clause /\ k[r] = d /\ \A x \in DOMAIN s.clause : x # r => k[x] = s.clause[x]
  BY <1>3
<1>5. k \in UNION {[D -> ClauseSeq] : D \in SUBSET (Nat \ {0})}
  <2>1. PICK D \in SUBSET (Nat \ {0}) : s.clause \in [D -> ClauseSeq]
    BY <1>2
  <2>2. k \in [D -> ClauseSeq]
    BY <1>3, <2>1
  <2> QED BY <2>2
<1>6. t = [s EXCEPT !.clause = k]
  BY <1>1, <1>3 DEF SolverType, Reordered
<1>7. t \in SolverType
  BY <1>1, <1>5, <1>6 DEF SolverType
<1>8. /\ t.learnts = s.learnts /\ t.watches = s.watches /\ t.trail = s.trail /\ t.lim = s.lim
      /\ t.qhead = s.qhead /\ t.assigned = s.assigned /\ t.reason = s.reason /\ t.level = s.level
      /\ t.heap = s.heap /\ t.ok = s.ok /\ t.nextVar = s.nextVar
      /\ t.released = s.released /\ t.free = s.free /\ t.clause = k
  BY <1>1, <1>6 DEF SolverType
<1>9. Typed(t)
  BY <1>0, <1>4, <1>7, <1>8 DEF Typed
<1>10. \A v : (Open(t, v) <=> Open(s, v)) /\ (IsFree(t, v) <=> IsFree(s, v))
  BY <1>8 DEF Open, IsFree
<1>11. \A p : (Usable(t, p) <=> Usable(s, p)) /\ (OnTrail(t, p) <=> OnTrail(s, p))
  BY <1>8, <1>10 DEF Usable, OnTrail
<1>12. \A i : Lv(t, i) = Lv(s, i)
  BY <1>8 DEF Lv
<1>13. ASSUME NEW x \in DOMAIN s.clause, NEW p PROVE InClause(s, x, p) <=> InClause(t, x, p)
  <2>1. CASE x = r
    BY <1>4, <1>8, <2>1 DEF InClause, SameLits
  <2>2. CASE x # r
    BY <1>4, <1>8, <2>2 DEF InClause
  <2> QED BY <2>1, <2>2
<1>14. Grows(s, t)
  BY <1>1, <1>4, <1>8, <1>12, <1>13 DEF Grows
<1>15. TrailOK(t)
  BY <1>0, <1>8, <1>10, <1>11 DEF TrailOK
<1>16. LevelsOK(t)
  BY <1>0, <1>8, <1>12 DEF LevelsOK
<1>17. ReasonsOK(t)
  <2>1. ASSUME NEW x, NEW i \in 1..Len(s.trail), Explains(s, x, i) PROVE Explains(t, x, i)
    <3>1. x \in DOMAIN s.clause /\ s.clause[x][1] = s.trail[i]
      BY <2>1 DEF Explains
    <3>2. CASE x # r
      <4>1. t.clause[x] = s.clause[x] /\ x \in DOMAIN t.clause
        BY <1>4, <1>8, <3>1, <3>2
      <4>2. t.trail = s.trail
        BY <1>8
      <4> QED BY <2>1, <4>1, <4>2 DEF Explains
    <3>3. CASE x = r
      <4>1. s.trail[i] \in s.assigned
        BY <1>0, <2>1 DEF TrailOK
      <4>2. d[1] = s.clause[r][1]
        BY <3>1, <3>3, <4>1
      <4>3. ASSUME NEW l \in 2..Len(d) PROVE \E j \in 1..(i - 1) : t.trail[j] = Neg(d[l])
        <5>1. l \in 1..Len(d) /\ l # 1 /\ 1 \in 1..Len(d) /\ Len(s.clause[r]) \in Nat
          BY <1>1, ClauseIs
        <5>2. PICK m \in 1..Len(s.clause[r]) : s.clause[r][m] = d[l]
          BY <5>1 DEF SameLits
        <5>3. m # 1
          BY <4>2, <5>1, <5>2, ClauseIs
        <5>4. m \in 2..Len(s.clause[r])
          BY <5>1, <5>3
        <5>5. \E j \in 1..(i - 1) : s.trail[j] = Neg(s.clause[r][m])
          BY <2>1, <3>3, <5>4 DEF Explains
        <5> QED BY <1>8, <5>2, <5>5
      <4> QED BY <1>4, <1>8, <3>1, <3>3, <4>2, <4>3 DEF Explains
    <3> QED BY <3>2, <3>3
  <2> QED BY <1>0, <1>8, <2>1 DEF ReasonsOK
<1>18. HeapOK(t)
  BY <1>0, <1>8, <1>10 DEF HeapOK
<1>19. FreeOK(t)
  BY <1>0, <1>8, <1>10 DEF FreeOK
<1>20. Within(t, UsableLits(t))
  <2>1. UsableLits(t) = UsableLits(s)
    BY <1>11 DEF UsableLits
  <2>2. ASSUME NEW x \in DOMAIN s.clause, NEW l \in 1..Len(t.clause[x]) PROVE t.clause[x][l] \in UsableLits(s)
    <3>1. InClause(t, x, t.clause[x][l])
      BY DEF InClause
    <3>2. InClause(s, x, t.clause[x][l])
      BY <1>13, <3>1
    <3> QED BY <1>0, <3>2 DEF InClause, Within
  <2> QED BY <1>0, <1>4, <1>8, <2>1, <2>2 DEF Within
<1>21. Books(t)
  BY <1>9, <1>15, <1>16, <1>17, <1>18, <1>19, <1>20 DEF Books
<1> QED BY <1>4, <1>8, <1>13, <1>14, <1>21

\* The watch list of p while it is looked at: the watchers that stay and
\* those of ws after the i-th.
ListOK(s, p, ws, i, kept) ==
  /\ kept \in Seq(Watcher)
  /\ \A k \in 1..Len(kept) : Watched(s, kept[k].ref, Neg(p)) /\ BlockerOK(s, kept[k])
  /\ \A j \in (i + 1)..Len(ws) : Watched(s, ws[j].ref, Neg(p)) /\ BlockerOK(s, ws[j])
  /\ \A k, l \in 1..Len(kept) : kept[k].ref = kept[l].ref => k = l
  /\ \A k \in 1..Len(kept) : \A j \in (i + 1)..Len(ws) : kept[k].ref # ws[j].ref
  /\ \A r : Watched(s, r, Neg(p)) => \/ \E k \in 1..Len(kept) : kept[k].ref = r
                                     \/ \E j \in (i + 1)..Len(ws) : ws[j].ref = r

\* The watchers of ws are of different clauses.
DistinctRefs(ws) == \A i, j \in 1..Len(ws) : ws[i].ref = ws[j].ref => i = j

\* The next watcher stays, perhaps with another blocker.
LEMMA ListKeeps ==
  ASSUME NEW s, NEW t, NEW p, NEW ws \in Seq(Watcher), DistinctRefs(ws), NEW i \in 0..Len(ws), i # Len(ws),
         NEW kept, ListOK(s, p, ws, i, kept), NEW w \in Watcher, w.ref = ws[i + 1].ref, BlockerOK(t, w),
         \A r : Watched(t, r, Neg(p)) <=> Watched(s, r, Neg(p)),
         \A x \in Watcher : Watched(s, x.ref, Neg(p)) /\ BlockerOK(s, x) => BlockerOK(t, x)
  PROVE  ListOK(t, p, ws, i + 1, Append(kept, w))
<1>1. PICK q : q = Append(kept, w)
  OBVIOUS
<1>2. PICK N \in Nat : N = Len(kept)
  BY LenProperties DEF ListOK
<1>3. kept \in Seq(Watcher)
  BY DEF ListOK
<1>4. q \in Seq(Watcher) /\ Len(q) = N + 1 /\ q[N + 1] = w /\ \A k \in 1..N : q[k] = kept[k]
  BY <1>1, <1>2, <1>3, AppendIs
<1>5. PICK M \in Nat : M = Len(ws)
  BY LenProperties
<1>6. i \in Nat /\ i + 1 \in 1..M /\ (\A j \in ((i + 1) + 1)..M : j \in (i + 1)..M /\ j # i + 1 /\ j \in 1..M)
      /\ (\A j \in (i + 1)..M : j = i + 1 \/ j \in ((i + 1) + 1)..M) /\ i + 1 \in (i + 1)..M
      /\ (\A k \in 1..(N + 1) : k \in 1..N \/ k = N + 1) /\ (\A k \in 1..N : k \in 1..(N + 1)) /\ N + 1 \in 1..(N + 1)
  BY <1>2, <1>5
<1>7. (\A k \in 1..N : kept[k] \in Watcher) /\ (\A j \in 1..M : ws[j] \in Watcher)
  BY <1>2, <1>3, <1>5, LenProperties
<1>8. /\ \A k \in 1..N : Watched(s, kept[k].ref, Neg(p)) /\ BlockerOK(s, kept[k])
      /\ \A j \in (i + 1)..M : Watched(s, ws[j].ref, Neg(p)) /\ BlockerOK(s, ws[j])
      /\ \A k, l \in 1..N : kept[k].ref = kept[l].ref => k = l
      /\ \A k \in 1..N : \A j \in (i + 1)..M : kept[k].ref # ws[j].ref
      /\ \A r : Watched(s, r, Neg(p)) => \/ \E k \in 1..N : kept[k].ref = r
                                         \/ \E j \in (i + 1)..M : ws[j].ref = r
  BY <1>2, <1>5 DEF ListOK
<1>9. \A k \in 1..(N + 1) : Watched(t, q[k].ref, Neg(p)) /\ BlockerOK(t, q[k])
  BY <1>4, <1>6, <1>7, <1>8
<1>10. \A j \in ((i + 1) + 1)..M : Watched(t, ws[j].ref, Neg(p)) /\ BlockerOK(t, ws[j])
  BY <1>6, <1>7, <1>8
<1>11. \A k, l \in 1..(N + 1) : q[k].ref = q[l].ref => k = l
  BY <1>4, <1>6, <1>8
<1>12. \A k \in 1..(N + 1) : \A j \in ((i + 1) + 1)..M : q[k].ref # ws[j].ref
  BY <1>4, <1>5, <1>6, <1>8 DEF DistinctRefs
<1>13. \A r : Watched(t, r, Neg(p)) => \/ \E k \in 1..(N + 1) : q[k].ref = r
                                       \/ \E j \in ((i + 1) + 1)..M : ws[j].ref = r
  <2> SUFFICES ASSUME NEW r, Watched(t, r, Neg(p))
               PROVE  (\E k \in 1..(N + 1) : q[k].ref = r) \/ (\E j \in ((i + 1) + 1)..M : ws[j].ref = r)
    OBVIOUS
  <2>1. Watched(s, r, Neg(p))
    OBVIOUS
  <2>2. CASE \E k \in 1..N : kept[k].ref = r
    BY <1>4, <1>6, <2>2
  <2>3. CASE \E j \in (i + 1)..M : ws[j].ref = r
    BY <1>4, <1>6, <2>3
  <2> QED BY <1>8, <2>1, <2>2, <2>3
<1>14. ListOK(t, p, ws, i + 1, q)
  BY <1>4, <1>5, <1>9, <1>10, <1>11, <1>12, <1>13 DEF ListOK
<1> QED BY <1>1, <1>14

\* The next watcher goes to another list.
LEMMA ListDrops ==
  ASSUME NEW s, NEW t, NEW p, NEW ws \in Seq(Watcher), DistinctRefs(ws), NEW i \in 0..Len(ws), i # Len(ws),
         NEW kept, ListOK(s, p, ws, i, kept),
         \A r : Watched(t, r, Neg(p)) <=> Watched(s, r, Neg(p)) /\ r # ws[i + 1].ref,
         \A x \in Watcher : Watched(s, x.ref, Neg(p)) /\ BlockerOK(s, x) => BlockerOK(t, x)
  PROVE  ListOK(t, p, ws, i + 1, kept)
<1>2. PICK N \in Nat : N = Len(kept)
  BY LenProperties DEF ListOK
<1>3. kept \in Seq(Watcher)
  BY DEF ListOK
<1>5. PICK M \in Nat : M = Len(ws)
  BY LenProperties
<1>6. i \in Nat /\ i + 1 \in 1..M /\ (\A j \in ((i + 1) + 1)..M : j \in (i + 1)..M /\ j # i + 1 /\ j \in 1..M)
      /\ (\A j \in (i + 1)..M : j = i + 1 \/ j \in ((i + 1) + 1)..M) /\ i + 1 \in (i + 1)..M
  BY <1>2, <1>5
<1>7. (\A k \in 1..N : kept[k] \in Watcher) /\ (\A j \in 1..M : ws[j] \in Watcher)
  BY <1>2, <1>3, <1>5, LenProperties
<1>8. /\ \A k \in 1..N : Watched(s, kept[k].ref, Neg(p)) /\ BlockerOK(s, kept[k])
      /\ \A j \in (i + 1)..M : Watched(s, ws[j].ref, Neg(p)) /\ BlockerOK(s, ws[j])
      /\ \A k, l \in 1..N : kept[k].ref = kept[l].ref => k = l
      /\ \A k \in 1..N : \A j \in (i + 1)..M : kept[k].ref # ws[j].ref
      /\ \A r : Watched(s, r, Neg(p)) => \/ \E k \in 1..N : kept[k].ref = r
                                         \/ \E j \in (i + 1)..M : ws[j].ref = r
  BY <1>2, <1>5 DEF ListOK
<1>9. \A k \in 1..N : Watched(t, kept[k].ref, Neg(p)) /\ BlockerOK(t, kept[k])
  BY <1>6, <1>7, <1>8
<1>10. \A j \in ((i + 1) + 1)..M : Watched(t, ws[j].ref, Neg(p)) /\ BlockerOK(t, ws[j])
  <2>1. \A j \in ((i + 1) + 1)..M : ws[j].ref # ws[i + 1].ref
    BY <1>5, <1>6 DEF DistinctRefs
  <2> QED BY <1>6, <1>7, <1>8, <2>1
<1>11. \A r : Watched(t, r, Neg(p)) => \/ \E k \in 1..N : kept[k].ref = r
                                       \/ \E j \in ((i + 1) + 1)..M : ws[j].ref = r
  BY <1>6, <1>8
<1>12. \A k \in 1..N : \A j \in ((i + 1) + 1)..M : kept[k].ref # ws[j].ref
  BY <1>6, <1>8
<1> QED BY <1>2, <1>3, <1>5, <1>8, <1>9, <1>10, <1>11, <1>12 DEF ListOK

\* t is s after propagation: the trail has perhaps more literals, of the last
\* level and with reasons.
Extends(s, t) ==
  /\ Grows(s, t)
  /\ t.lim = s.lim /\ t.heap = s.heap /\ t.ok = s.ok /\ t.nextVar = s.nextVar
  /\ t.released = s.released /\ t.free = s.free /\ t.learnts = s.learnts
  /\ DOMAIN t.clause = DOMAIN s.clause
  /\ \A i \in (Len(s.trail) + 1)..Len(t.trail) : Lv(t, i) = Len(s.lim) /\ t.reason[t.trail[i][1]] # NoClause
  /\ \A i \in 1..Len(s.trail) : t.reason[s.trail[i][1]] = s.reason[s.trail[i][1]]

\* Extending the trail twice extends it.
LEMMA ExtendsTwice ==
  ASSUME NEW s, Typed(s), NEW t, Typed(t), NEW u, Typed(u), Extends(s, t), Extends(t, u)
  PROVE  Extends(s, u)
<1>1. Len(s.trail) \in Nat /\ Len(t.trail) \in Nat /\ Len(u.trail) \in Nat
  BY TypedIs
<1>2. Len(s.trail) <= Len(t.trail) /\ Len(t.trail) <= Len(u.trail)
  BY DEF Extends, Grows
<1>3. \A i \in 1..Len(s.trail) : i \in 1..Len(t.trail)
  BY <1>1, <1>2
<1>4. Grows(s, u)
  <2>1. \A i \in 1..Len(s.trail) : u.trail[i] = s.trail[i] /\ Lv(u, i) = Lv(s, i)
    BY <1>3 DEF Extends, Grows
  <2>2. \A r \in DOMAIN s.clause : r \in DOMAIN u.clause /\ \A p \in AllLits : InClause(s, r, p) <=> InClause(u, r, p)
    BY DEF Extends, Grows
  <2>3. Len(s.trail) <= Len(u.trail)
    BY <1>1, <1>2
  <2> QED BY <2>1, <2>2, <2>3 DEF Grows
<1>5. \A i \in (Len(s.trail) + 1)..Len(u.trail) : Lv(u, i) = Len(s.lim) /\ u.reason[u.trail[i][1]] # NoClause
  <2> SUFFICES ASSUME NEW i \in (Len(s.trail) + 1)..Len(u.trail)
               PROVE  Lv(u, i) = Len(s.lim) /\ u.reason[u.trail[i][1]] # NoClause
    OBVIOUS
  <2>1. CASE i \in 1..Len(t.trail)
    <3>1. i \in (Len(s.trail) + 1)..Len(t.trail)
      BY <1>1, <2>1
    <3>2. Lv(t, i) = Len(s.lim) /\ t.reason[t.trail[i][1]] # NoClause
      BY <3>1 DEF Extends
    <3>3. Lv(u, i) = Lv(t, i) /\ u.trail[i] = t.trail[i] /\ u.reason[t.trail[i][1]] = t.reason[t.trail[i][1]]
      BY <2>1 DEF Extends, Grows
    <3> QED BY <3>2, <3>3
  <2>2. CASE i \notin 1..Len(t.trail)
    <3>1. i \in (Len(t.trail) + 1)..Len(u.trail)
      BY <1>1, <2>2
    <3> QED BY <3>1 DEF Extends
  <2> QED BY <2>1, <2>2
<1>6. \A i \in 1..Len(s.trail) : u.reason[s.trail[i][1]] = s.reason[s.trail[i][1]]
  <2>1. \A i \in 1..Len(s.trail) : t.reason[s.trail[i][1]] = s.reason[s.trail[i][1]] /\ t.trail[i] = s.trail[i]
    BY DEF Extends, Grows
  <2>2. \A i \in 1..Len(t.trail) : u.reason[t.trail[i][1]] = t.reason[t.trail[i][1]]
    BY DEF Extends
  <2> QED BY ONLY <1>3, <2>1, <2>2
<1>7. /\ u.lim = s.lim /\ u.heap = s.heap /\ u.ok = s.ok /\ u.nextVar = s.nextVar
      /\ u.released = s.released /\ u.free = s.free /\ u.learnts = s.learnts
      /\ DOMAIN u.clause = DOMAIN s.clause
  BY DEF Extends
<1> QED BY <1>4, <1>5, <1>6, <1>7 DEF Extends

\* A solver extends itself.
LEMMA ExtendsSelf ==
  ASSUME NEW s, Typed(s)
  PROVE  Extends(s, s)
<1>1. Len(s.trail) \in Nat
  BY TypedIs
<1>2. ~\E i : i \in (Len(s.trail) + 1)..Len(s.trail)
  BY <1>1
<1> QED BY <1>1, <1>2 DEF Extends, Grows

\* All literals of clause r are false.
Falsified(s, r) == r \in DOMAIN s.clause /\ \A k \in 1..Len(s.clause[r]) : OnTrail(s, Neg(s.clause[r][k]))

\* propagate() looks at the watchers of p, the literal of s at the end of the
\* queue.
AtLiteral(s, p, ws) ==
  /\ Books(s) /\ p \in AllLits /\ ws \in Seq(Watcher) /\ DistinctRefs(ws)
  /\ s.qhead \in 1..Len(s.trail) /\ s.trail[s.qhead] = p /\ Lv(s, s.qhead) = Len(s.lim)

\* What holds after i watchers.
Visiting(u, s, p, ws, i) ==
  /\ u \in [s : SolverType, kept : Seq(Watcher), confl : Nat]
  /\ Books(u.s) /\ Extends(s, u.s) /\ u.s.watches[p] = ws
  /\ u.s.qhead = IF u.confl = NoClause THEN s.qhead ELSE Len(u.s.trail)
  /\ \A q \in AllLits : q # p => WatchedBy(u.s, q, u.s.watches[q])
  /\ ListOK(u.s, p, ws, i, u.kept)
  /\ u.confl # NoClause => Falsified(u.s, u.confl)
  /\ AwakeTo(s, s.qhead - 1) => AwakeTo(u.s, s.qhead - 1)
  /\ u.confl = NoClause =>
       \A r \in DOMAIN u.s.clause : AwakeAt(u.s, r, s.qhead) \/ \E j \in (i + 1)..Len(ws) : ws[j].ref = r
  /\ \A L : Within(s, L) => Within(u.s, L) /\ \A k \in 1..Len(u.kept) : u.kept[k].blocker \in L
  /\ \A m \in Models : Means(s, m) => Means(u.s, m)

\* A clause with a true literal is awake at the last level.
LEMMA TrueAwake ==
  ASSUME NEW t, Books(t), NEW r, NEW b, InClause(t, r, b), OnTrail(t, b), NEW n, Lv(t, n) = Len(t.lim)
  PROVE  AwakeAt(t, r, n)
<1>1. PICK i \in 1..Len(t.trail) : t.trail[i] = b
  BY DEF OnTrail
<1>2. Lv(t, i) <= Len(t.lim)
  BY BooksAre DEF LevelsOK
<1> QED BY <1>1, <1>2 DEF AwakeAt

\* Solvers s and t watch the same literals of each clause.
SameWatched(s, t) ==
  /\ \A r, q : Watched(t, r, q) <=> Watched(s, r, q)
  /\ \A r \in DOMAIN s.clause : \A k \in {1, 2} : \E l \in {1, 2} : t.clause[r][k] = s.clause[r][l]

\* What means s means t.
Preserves(s, t) == \A m \in Models : Means(s, m) => Means(t, m)

\* The next watcher stays in the list: t is the solver then.
LEMMA VisitStays ==
  ASSUME NEW s, NEW p, NEW ws, AtLiteral(s, p, ws), NEW i \in 0..Len(ws), i # Len(ws),
         NEW u, Visiting(u, s, p, ws, i),
         NEW t, Books(t), Extends(u.s, t), t.watches = u.s.watches,
         SameWatched(u.s, t), Preserves(u.s, t),
         NEW cf \in Nat, t.qhead = IF cf = NoClause THEN s.qhead ELSE Len(t.trail),
         cf # NoClause => Falsified(t, cf),
         cf = NoClause => u.confl = NoClause /\ AwakeAt(t, ws[i + 1].ref, s.qhead),
         NEW w \in Watcher, w = ws[i + 1] \/ (w.ref = ws[i + 1].ref /\ InClause(t, w.ref, w.blocker)),
         NEW x, x = [s |-> t, kept |-> Append(u.kept, w), confl |-> cf]
  PROVE  Visiting(x, s, p, ws, i + 1)
<1>1. /\ u.kept \in Seq(Watcher)
      /\ Books(u.s) /\ Extends(s, u.s) /\ u.s.watches[p] = ws
      /\ \A q \in AllLits : q # p => WatchedBy(u.s, q, u.s.watches[q])
      /\ ListOK(u.s, p, ws, i, u.kept)
      /\ (AwakeTo(s, s.qhead - 1) => AwakeTo(u.s, s.qhead - 1))
      /\ u.confl = NoClause =>
           \A r \in DOMAIN u.s.clause : AwakeAt(u.s, r, s.qhead) \/ \E j \in (i + 1)..Len(ws) : ws[j].ref = r
      /\ \A L : Within(s, L) => Within(u.s, L) /\ \A k \in 1..Len(u.kept) : u.kept[k].blocker \in L
      /\ \A m \in Models : Means(s, m) => Means(u.s, m)
  BY DEF Visiting
<1>2. Typed(s) /\ Typed(u.s) /\ Typed(t) /\ ws \in Seq(Watcher) /\ DistinctRefs(ws) /\ p \in AllLits
  BY <1>1, BooksAre DEF AtLiteral
<1>3. Grows(u.s, t) /\ DOMAIN t.clause = DOMAIN u.s.clause
  BY DEF Extends
<1>4. PICK y : y = u.s
  OBVIOUS
<1>5. \A z \in Watcher : z.ref \in DOMAIN y.clause /\ BlockerOK(y, z) => BlockerOK(t, z)
  BY <1>2, <1>3, <1>4, GrowsIs
<1>6. \A r, q : (Watched(t, r, q) <=> Watched(y, r, q)) /\ (Watched(y, r, q) => r \in DOMAIN y.clause)
  BY SMTT(30), <1>4 DEF Watched, SameWatched
<1>7. (\A j \in 1..Len(ws) : ws[j] \in Watcher) /\ Len(ws) \in Nat
  BY <1>2, LenProperties
<1>8. i + 1 \in 1..Len(ws) /\ i + 1 \in (i + 1)..Len(ws) /\ i \in Nat
  BY <1>7
<1>9. Watched(y, ws[i + 1].ref, Neg(p)) /\ BlockerOK(y, ws[i + 1]) /\ w.ref = ws[i + 1].ref
  BY <1>1, <1>4, <1>8 DEF ListOK
<1>10. BlockerOK(t, w)
  <2>1. CASE w = ws[i + 1]
    BY <1>5, <1>6, <1>7, <1>8, <1>9, <2>1
  <2>2. CASE InClause(t, w.ref, w.blocker)
    BY <2>2 DEF BlockerOK
  <2> QED BY <2>1, <2>2
<1>11. ListOK(t, p, ws, i + 1, Append(u.kept, w))
  <2>1. ListOK(y, p, ws, i, u.kept)
    BY <1>1, <1>4
  <2>2. \A z \in Watcher : Watched(y, z.ref, Neg(p)) /\ BlockerOK(y, z) => BlockerOK(t, z)
    BY <1>5, <1>6
  <2> QED BY <1>2, <1>6, <1>9, <1>10, <2>1, <2>2, ListKeeps
<1>12. \A q \in AllLits : q # p => WatchedBy(t, q, t.watches[q])
  <2> SUFFICES ASSUME NEW q \in AllLits, q # p PROVE WatchedBy(t, q, t.watches[q])
    OBVIOUS
  <2>1. PICK v : v = y.watches[q]
    OBVIOUS
  <2>2. WatchedBy(y, q, v) /\ t.watches[q] = v
    BY <1>1, <1>4, <2>1
  <2>3. \A j \in 1..Len(v) : v[j] \in Watcher
    <3>1. v \in Seq(Watcher)
      BY <1>2, <1>4, <2>1, TypedIs
    <3> QED BY <3>1, LenProperties
  <2>4. WatchedBy(t, q, v)
    BY <1>3, <1>4, <1>5, <1>6, <2>2, <2>3 DEF WatchedBy
  <2> QED BY <2>2, <2>4
<1>13. Len(y.trail) \in Nat /\ s.qhead \in Nat /\ s.qhead <= Len(y.trail) /\ 1 <= s.qhead /\ Len(s.trail) \in Nat
  <2>1. Len(y.trail) \in Nat /\ Len(s.trail) \in Nat
    BY <1>2, <1>4, TypedIs
  <2>2. Len(s.trail) <= Len(y.trail)
    BY <1>1, <1>4 DEF Extends, Grows
  <2> QED BY SMTT(30), <2>1, <2>2 DEF AtLiteral
<1>14. \A r \in DOMAIN y.clause : \A j \in 1..Len(y.trail) : AwakeAt(y, r, j) => AwakeAt(t, r, j)
  <2>1. \A r \in DOMAIN y.clause : \A k \in {1, 2} : \E l \in {1, 2} : t.clause[r][k] = y.clause[r][l]
    BY <1>4 DEF SameWatched
  <2>2. SUFFICES ASSUME NEW r \in DOMAIN y.clause, NEW j \in 1..Len(y.trail), AwakeAt(y, r, j) PROVE AwakeAt(t, r, j)
    OBVIOUS
  <2>3. Typed(y) /\ Typed(t) /\ Grows(y, t)
    BY ONLY <1>2, <1>3, <1>4
  <2>4. \A k \in {1, 2} : \E l \in {1, 2} : t.clause[r][k] = y.clause[r][l]
    BY ONLY <2>1, r \in DOMAIN y.clause
  <2> QED BY ONLY <2>2, <2>3, <2>4, r \in DOMAIN y.clause, j \in 1..Len(y.trail), GrowsAwake
<1>15. AwakeTo(s, s.qhead - 1) => AwakeTo(t, s.qhead - 1)
  <2>1. \A j \in 1..(s.qhead - 1) : j \in 1..Len(y.trail)
    BY <1>13
  <2> QED BY <1>1, <1>3, <1>4, <1>14, <2>1 DEF AwakeTo
<1>16. ASSUME cf = NoClause
       PROVE  \A r \in DOMAIN t.clause : AwakeAt(t, r, s.qhead) \/ \E j \in ((i + 1) + 1)..Len(ws) : ws[j].ref = r
  <2> SUFFICES ASSUME NEW r \in DOMAIN t.clause, ~AwakeAt(t, r, s.qhead) PROVE \E j \in ((i + 1) + 1)..Len(ws) : ws[j].ref = r
    OBVIOUS
  <2>1. s.qhead \in 1..Len(y.trail) /\ r \in DOMAIN y.clause
    BY <1>3, <1>4, <1>13
  <2>2. ~AwakeAt(y, r, s.qhead)
    BY <1>14, <2>1
  <2>3. PICK j \in (i + 1)..Len(ws) : ws[j].ref = r
    BY <1>1, <1>4, <1>16, <2>1, <2>2
  <2>4. j # i + 1
    BY <1>16, <2>3
  <2>5. j \in ((i + 1) + 1)..Len(ws)
    BY <1>7, <1>8, <2>4
  <2> QED BY <2>3, <2>5
<1>17. ASSUME NEW L, Within(s, L) PROVE Within(t, L) /\ \A k \in 1..Len(Append(u.kept, w)) : Append(u.kept, w)[k].blocker \in L
  <2>1. Within(y, L) /\ \A k \in 1..Len(u.kept) : u.kept[k].blocker \in L
    BY <1>1, <1>4, <1>17
  <2>2. ASSUME NEW r \in DOMAIN t.clause, NEW k \in 1..Len(t.clause[r]) PROVE t.clause[r][k] \in L
    <3>1. t.clause[r] \in ClauseSeq
      BY <1>2, TypedIs
    <3>2. InClause(t, r, t.clause[r][k]) /\ t.clause[r][k] \in AllLits
      BY <3>1, ClauseIs DEF InClause
    <3>3. InClause(y, r, t.clause[r][k])
      BY <1>3, <1>4, <3>2 DEF Grows
    <3> QED BY <1>3, <1>4, <2>1, <3>3 DEF InClause, Within
  <2>3. Within(t, L)
    BY <1>4, <2>1, <2>2 DEF Within
  <2>4. w.blocker \in L
    <3>1. CASE w = ws[i + 1]
      BY <1>1, <1>2, <1>4, <1>8, <2>1, <3>1 DEF Within
    <3>2. CASE InClause(t, w.ref, w.blocker)
      <4>1. w.ref \in DOMAIN t.clause
        BY <1>3, <1>4, <1>6, <1>9
      <4> QED BY <2>3, <3>2, <4>1 DEF InClause, Within
    <3> QED BY <3>1, <3>2
  <2>5. PICK v : v = Append(u.kept, w)
    OBVIOUS
  <2>6. Len(v) = Len(u.kept) + 1 /\ Len(u.kept) \in Nat /\ v[Len(u.kept) + 1] = w /\ \A k \in 1..Len(u.kept) : v[k] = u.kept[k]
    BY <1>1, <2>5, AppendIs
  <2>7. \A k \in 1..Len(v) : k \in 1..Len(u.kept) \/ k = Len(u.kept) + 1
    BY <2>6
  <2>8. \A k \in 1..Len(v) : v[k].blocker \in L
    BY <2>1, <2>4, <2>6, <2>7
  <2> QED BY <2>3, <2>5, <2>8
<1>18. Extends(s, t)
  BY <1>1, <1>2, ExtendsTwice
<1>19. x \in [s : SolverType, kept : Seq(Watcher), confl : Nat] /\ x.s = t /\ x.kept = Append(u.kept, w) /\ x.confl = cf
  <2>1. t \in SolverType /\ Append(u.kept, w) \in Seq(Watcher)
    BY <1>1, <1>2, AppendIs, TypedIs
  <2> QED BY <2>1
<1>20. t.watches[p] = ws
  BY <1>1
<1>21. \A m \in Models : Means(s, m) => Means(t, m)
  BY <1>1 DEF Preserves
<1> QED BY <1>11, <1>12, <1>15, <1>16, <1>17, <1>18, <1>19, <1>20, <1>21 DEF Visiting

\* Only the watch list of q changes.
WithList(s, q, v) == [s EXCEPT !.watches[q] = v]

\* Other watch lists disturb nothing else.
LEMMA WatchesBooks ==
  ASSUME NEW s, Books(s), NEW q \in AllLits, NEW v \in Seq(Watcher), \A k \in 1..Len(v) : Usable(s, v[k].blocker),
         NEW t, t = WithList(s, q, v)
  PROVE  /\ Books(t) /\ Extends(s, t)
         /\ t.clause = s.clause /\ t.learnts = s.learnts /\ t.trail = s.trail /\ t.lim = s.lim
         /\ t.qhead = s.qhead /\ t.assigned = s.assigned /\ t.reason = s.reason /\ t.level = s.level
         /\ t.heap = s.heap /\ t.ok = s.ok /\ t.nextVar = s.nextVar
         /\ t.released = s.released /\ t.free = s.free
         /\ t.watches[q] = v /\ \A p \in AllLits : p # q => t.watches[p] = s.watches[p]
<1>0. Typed(s) /\ TrailOK(s) /\ LevelsOK(s) /\ ReasonsOK(s) /\ HeapOK(s) /\ FreeOK(s) /\ Within(s, UsableLits(s))
  BY BooksAre
<1>1. s \in SolverType /\ s.watches \in [AllLits -> Seq(Watcher)]
  BY <1>0, TypedIs DEF SolverType
<1>2. PICK w : w = [s.watches EXCEPT ![q] = v]
  OBVIOUS
<1>3. w \in [AllLits -> Seq(Watcher)] /\ w[q] = v /\ \A p \in AllLits : p # q => w[p] = s.watches[p]
  BY <1>1, <1>2
<1>4. t = [s EXCEPT !.watches = w]
  BY <1>1, <1>2 DEF SolverType, WithList
<1>5. t \in SolverType
  BY <1>1, <1>3, <1>4 DEF SolverType
<1>6. /\ t.clause = s.clause /\ t.learnts = s.learnts /\ t.trail = s.trail /\ t.lim = s.lim
      /\ t.qhead = s.qhead /\ t.assigned = s.assigned /\ t.reason = s.reason /\ t.level = s.level
      /\ t.heap = s.heap /\ t.ok = s.ok /\ t.nextVar = s.nextVar
      /\ t.released = s.released /\ t.free = s.free /\ t.watches = w
  BY <1>1, <1>4 DEF SolverType
<1>7. Typed(t)
  BY <1>0, <1>5, <1>6 DEF Typed
<1>8. \A x : (Open(t, x) <=> Open(s, x)) /\ (IsFree(t, x) <=> IsFree(s, x))
  BY <1>6 DEF Open, IsFree
<1>9. \A p : (Usable(t, p) <=> Usable(s, p)) /\ (OnTrail(t, p) <=> OnTrail(s, p))
  BY <1>6, <1>8 DEF Usable, OnTrail
<1>10. \A i : Lv(t, i) = Lv(s, i)
  BY <1>6 DEF Lv
<1>11. TrailOK(t)
  BY <1>0, <1>6, <1>8, <1>9 DEF TrailOK
<1>12. LevelsOK(t)
  BY <1>0, <1>6, <1>10 DEF LevelsOK
<1>13. ReasonsOK(t)
  <2>1. \A x, i : Explains(t, x, i) <=> Explains(s, x, i)
    BY <1>6 DEF Explains
  <2> QED BY <1>0, <1>6, <2>1 DEF ReasonsOK
<1>14. HeapOK(t)
  BY <1>0, <1>6, <1>8 DEF HeapOK
<1>15. FreeOK(t)
  BY <1>0, <1>6, <1>8 DEF FreeOK
<1>16. Within(t, UsableLits(t))
  <2>1. UsableLits(t) = UsableLits(s)
    BY <1>9 DEF UsableLits
  <2>2. \A k \in 1..Len(v) : v[k].blocker \in UsableLits(s)
    BY DEF Usable, UsableLits
  <2>3. ASSUME NEW p \in AllLits PROVE \A i \in 1..Len(w[p]) : w[p][i].blocker \in UsableLits(s)
    <3>1. CASE p = q
      BY <1>3, <2>2, <3>1
    <3>2. CASE p # q
      BY <1>0, <1>3, <3>2 DEF Within
    <3> QED BY <3>1, <3>2
  <2> QED BY <1>0, <1>6, <2>1, <2>3 DEF Within
<1>17. Books(t)
  BY <1>7, <1>11, <1>12, <1>13, <1>14, <1>15, <1>16 DEF Books
<1>18. Extends(s, t)
  <2>1. Len(s.trail) \in Nat
    BY <1>0, TypedIs
  <2>2. Grows(s, t)
    BY <1>6, <1>10, <2>1 DEF Grows, InClause
  <2>3. ~\E i : i \in (Len(s.trail) + 1)..Len(s.trail)
    BY <2>1
  <2> QED BY <1>6, <2>2, <2>3 DEF Extends
<1> QED BY <1>3, <1>6, <1>17, <1>18

\* Only the head of the queue changes.
LEMMA QueueBooks ==
  ASSUME NEW s, Books(s), NEW n \in s.qhead..Len(s.trail), NEW t, t = [s EXCEPT !.qhead = n]
  PROVE  /\ Books(t) /\ Extends(s, t)
         /\ t.clause = s.clause /\ t.learnts = s.learnts /\ t.trail = s.trail /\ t.lim = s.lim
         /\ t.qhead = n /\ t.assigned = s.assigned /\ t.reason = s.reason /\ t.level = s.level
         /\ t.heap = s.heap /\ t.ok = s.ok /\ t.nextVar = s.nextVar
         /\ t.released = s.released /\ t.free = s.free /\ t.watches = s.watches
<1>0. Typed(s) /\ TrailOK(s) /\ LevelsOK(s) /\ ReasonsOK(s) /\ HeapOK(s) /\ FreeOK(s) /\ Within(s, UsableLits(s))
  BY BooksAre
<1>1. s \in SolverType /\ s.qhead \in Nat /\ Len(s.trail) \in Nat /\ \A l \in 1..Len(s.lim) : s.lim[l] \in Nat
  BY <1>0, TypedIs
<1>2. n \in Nat /\ s.qhead <= n /\ n <= Len(s.trail)
  BY <1>1
<1>5. t \in SolverType
  BY <1>1, <1>2 DEF SolverType
<1>6. /\ t.clause = s.clause /\ t.learnts = s.learnts /\ t.trail = s.trail /\ t.lim = s.lim
      /\ t.qhead = n /\ t.assigned = s.assigned /\ t.reason = s.reason /\ t.level = s.level
      /\ t.heap = s.heap /\ t.ok = s.ok /\ t.nextVar = s.nextVar
      /\ t.released = s.released /\ t.free = s.free /\ t.watches = s.watches
  BY <1>1 DEF SolverType
<1>7. Typed(t)
  BY <1>0, <1>5, <1>6 DEF Typed
<1>8. \A x : (Open(t, x) <=> Open(s, x)) /\ (IsFree(t, x) <=> IsFree(s, x))
  BY <1>6 DEF Open, IsFree
<1>9. \A p : (Usable(t, p) <=> Usable(s, p)) /\ (OnTrail(t, p) <=> OnTrail(s, p))
  BY <1>6, <1>8 DEF Usable, OnTrail
<1>10. \A i : Lv(t, i) = Lv(s, i)
  BY <1>6 DEF Lv
<1>11. TrailOK(t)
  BY <1>0, <1>2, <1>6, <1>8, <1>9 DEF TrailOK
<1>12. LevelsOK(t)
  <2>1. \A l \in 1..Len(s.lim) : s.lim[l] <= n
    BY <1>0, <1>1, <1>2 DEF LevelsOK
  <2> QED BY <1>0, <1>6, <1>10, <2>1 DEF LevelsOK
<1>13. ReasonsOK(t)
  <2>1. \A x, i : Explains(t, x, i) <=> Explains(s, x, i)
    BY <1>6 DEF Explains
  <2> QED BY <1>0, <1>6, <2>1 DEF ReasonsOK
<1>14. HeapOK(t)
  BY <1>0, <1>6, <1>8 DEF HeapOK
<1>15. FreeOK(t)
  BY <1>0, <1>6, <1>8 DEF FreeOK
<1>16. Within(t, UsableLits(t))
  <2>1. UsableLits(t) = UsableLits(s)
    BY <1>9 DEF UsableLits
  <2> QED BY <1>0, <1>6, <2>1 DEF Within
<1>17. Books(t)
  BY <1>7, <1>11, <1>12, <1>13, <1>14, <1>15, <1>16 DEF Books
<1>18. Extends(s, t)
  <2>2. Grows(s, t)
    BY <1>1, <1>6, <1>10 DEF Grows, InClause
  <2>3. ~\E i : i \in (Len(s.trail) + 1)..Len(s.trail)
    BY <1>1
  <2> QED BY <1>6, <2>2, <2>3 DEF Extends
<1> QED BY <1>6, <1>17, <1>18

\* What is not false is no obstacle to being awake.
LEMMA NotFalse ==
  ASSUME NEW s, Books(s), NEW q \in AllLits, ~False(s, q), NEW j \in 1..Len(s.trail)
  PROVE  s.trail[j] # Neg(q)
<1>1. s.trail[j] \in s.assigned
  BY BooksAre DEF TrailOK
<1> QED BY <1>1 DEF False

\* FalseSecond puts the false literal in the second place.
LEMMA FalseSecondIs ==
  ASSUME NEW c \in ClauseSeq, NEW f \in AllLits, c[1] = f \/ c[2] = f, NEW d, d = FalseSecond(c, f)
  PROVE  /\ d \in ClauseSeq /\ Len(d) = Len(c) /\ d[2] = f /\ d[1] # f
         /\ d[1] = c[1] \/ c[1] = f
         /\ \A k \in {1, 2} : \E l \in {1, 2} : d[k] = c[l]
         /\ \A k \in {1, 2} : \E l \in {1, 2} : c[k] = d[l]
         /\ SameLits(c, d)
<1>1. c[1][1] # c[2][1] /\ 1 \in 1..Len(c) /\ 2 \in 1..Len(c)
  BY ClauseIs
<1>2. CASE c[1] = f
  <2>1. d = Swapped(c, 1, 2)
    BY <1>2 DEF FalseSecond, Swapped
  <2>2. d \in ClauseSeq /\ Len(d) = Len(c) /\ d[1] = c[2] /\ d[2] = c[1]
    BY <1>1, <2>1, SwappedIs
  <2>3. SameLits(c, d)
    BY <1>1, <2>1, SwappedHas
  <2> QED BY <1>1, <1>2, <2>2, <2>3
<1>3. CASE c[1] # f
  <2>1. d = c
    BY <1>3 DEF FalseSecond
  <2> QED BY <1>1, <1>3, <2>1 DEF SameLits
<1> QED BY <1>2, <1>3

\* Having the same literals is transitive.
LEMMA SameLitsTwice ==
  ASSUME NEW c, NEW d, NEW e, SameLits(c, d), SameLits(d, e)
  PROVE  SameLits(c, e)
BY DEF SameLits

\* Clauses with the same literals and the same trail mean the same.
LEMMA SameMeaning ==
  ASSUME NEW s, Typed(s), NEW t, Typed(t), Grows(s, t), DOMAIN t.clause = DOMAIN s.clause, t.trail = s.trail,
         NEW m, Means(s, m)
  PROVE  Means(t, m)
<1>1. ASSUME NEW r \in DOMAIN t.clause PROVE \E k \in 1..Len(t.clause[r]) : t.clause[r][k] \in m
  <2>1. PICK k \in 1..Len(s.clause[r]) : s.clause[r][k] \in m
    BY DEF Means
  <2>2. s.clause[r][k] \in AllLits /\ InClause(s, r, s.clause[r][k])
    BY TypedIs, ClauseIs DEF InClause
  <2>3. InClause(t, r, s.clause[r][k])
    BY <2>2 DEF Grows
  <2> QED BY <2>1, <2>3 DEF InClause
<1>2. \A i \in 1..Len(t.trail) : Lv(t, i) = 0 => t.trail[i] \in m
  BY DEF Means, Grows
<1> QED BY <1>1, <1>2 DEF Means

\* What the clauses mention is what they mentioned.
LEMMA SameMentioned ==
  ASSUME NEW s, Typed(s), NEW t, Typed(t), Grows(s, t), DOMAIN t.clause = DOMAIN s.clause,
         NEW L, Within(s, L), NEW r \in DOMAIN t.clause, NEW k \in 1..Len(t.clause[r])
  PROVE  t.clause[r][k] \in L
<1>1. t.clause[r][k] \in AllLits /\ InClause(t, r, t.clause[r][k])
  BY TypedIs, ClauseIs DEF InClause
<1>2. InClause(s, r, t.clause[r][k])
  BY <1>1 DEF Grows
<1> QED BY <1>2 DEF InClause, Within

\* The clause r of watcher w is watched by its k-th literal instead of Neg(p).
Moving(u, p, w, r, d, k, e, v, t, x) ==
  /\ r = w.ref /\ d = FalseSecond(u.s.clause[r], Neg(p))
  /\ k \in 3..Len(d) /\ ~False(u.s, d[k]) /\ e = Swapped(d, 2, k)
  /\ v = Append(u.s.watches[Neg(d[k])], [ref |-> r, blocker |-> d[1]])
  /\ t = [[u.s EXCEPT !.clause[r] = e] EXCEPT !.watches[Neg(d[k])] = v]
  /\ x = [s |-> t, kept |-> u.kept, confl |-> NoClause]

\* The clause r of the next watcher is watched by its k-th literal from now on.
LEMMA VisitMoves ==
  ASSUME NEW s, NEW p, NEW ws, AtLiteral(s, p, ws), NEW i \in 0..Len(ws), i # Len(ws),
         NEW u, Visiting(u, s, p, ws, i), u.confl = NoClause,
         NEW r, NEW d, NEW k, NEW e, NEW v, NEW t, NEW x, Moving(u, p, ws[i + 1], r, d, k, e, v, t, x)
  PROVE  Visiting(x, s, p, ws, i + 1)
<1>1. PICK y : y = u.s
  OBVIOUS
<1>0. /\ r = ws[i + 1].ref /\ d = FalseSecond(y.clause[r], Neg(p))
      /\ k \in 3..Len(d) /\ ~False(y, d[k]) /\ e = Swapped(d, 2, k)
      /\ v = Append(y.watches[Neg(d[k])], [ref |-> r, blocker |-> d[1]])
  BY <1>1 DEF Moving
<1>2. /\ u.kept \in Seq(Watcher)
      /\ Books(y) /\ Extends(s, y) /\ y.watches[p] = ws
      /\ \A q \in AllLits : q # p => WatchedBy(y, q, y.watches[q])
      /\ ListOK(y, p, ws, i, u.kept)
      /\ (AwakeTo(s, s.qhead - 1) => AwakeTo(y, s.qhead - 1))
      /\ \A z \in DOMAIN y.clause : AwakeAt(y, z, s.qhead) \/ \E j \in (i + 1)..Len(ws) : ws[j].ref = z
      /\ \A L : Within(s, L) => Within(y, L) /\ \A j \in 1..Len(u.kept) : u.kept[j].blocker \in L
      /\ \A m \in Models : Means(s, m) => Means(y, m)
      /\ y.qhead = s.qhead
  BY <1>1 DEF Visiting
<1>3. Typed(s) /\ Typed(y) /\ ws \in Seq(Watcher) /\ DistinctRefs(ws) /\ p \in AllLits /\ Neg(p) \in AllLits /\ Neg(Neg(p)) = p
  BY <1>2, BooksAre, Literals DEF AtLiteral
<1>4. (\A j \in 1..Len(ws) : ws[j] \in Watcher) /\ Len(ws) \in Nat
  BY <1>3, LenProperties
<1>5. i + 1 \in 1..Len(ws) /\ i + 1 \in (i + 1)..Len(ws) /\ i \in Nat
  BY <1>4
<1>6. Watched(y, r, Neg(p)) /\ r \in DOMAIN y.clause /\ r \in Nat
  <2>1. Watched(y, r, Neg(p))
    BY <1>0, <1>2, <1>5 DEF ListOK
  <2> QED BY <1>3, <2>1, TypedIs DEF Watched
<1>7. PICK c : c = y.clause[r]
  OBVIOUS
<1>8. c \in ClauseSeq /\ (c[1] = Neg(p) \/ c[2] = Neg(p))
  BY <1>3, <1>6, <1>7, TypedIs DEF Watched
<1>9. d = FalseSecond(c, Neg(p))
  BY <1>0, <1>7
<1>10. /\ d \in ClauseSeq /\ Len(d) = Len(c) /\ d[2] = Neg(p) /\ d[1] # Neg(p)
       /\ d[1] = c[1] \/ c[1] = Neg(p)
       /\ \A n \in {1, 2} : \E l \in {1, 2} : d[n] = c[l]
       /\ \A n \in {1, 2} : \E l \in {1, 2} : c[n] = d[l]
       /\ SameLits(c, d)
  BY <1>3, <1>8, <1>9, FalseSecondIs
<1>11. /\ Len(d) \in Nat /\ 1 \in 1..Len(d) /\ 2 \in 1..Len(d) /\ (\A n \in 1..Len(d) : d[n] \in AllLits)
       /\ \A n, l \in 1..Len(d) : d[n][1] = d[l][1] => n = l
  BY <1>10, ClauseIs
<1>12. k \in 1..Len(d) /\ k # 1 /\ k # 2
  <2>1. k \in 3..Len(d) /\ Len(d) \in Nat
    BY <1>0, <1>11
  <2> QED BY <2>1
<1>13. e \in ClauseSeq /\ Len(e) = Len(d) /\ e[2] = d[k] /\ e[k] = d[2] /\ e[1] = d[1] /\ SameLits(d, e)
  <2>1. e \in ClauseSeq /\ Len(e) = Len(d)
        /\ e[2] = d[k] /\ e[k] = d[2] /\ \A n \in 1..Len(d) : n # 2 /\ n # k => e[n] = d[n]
    <3>1. d \in ClauseSeq /\ 2 \in 1..Len(d) /\ k \in 1..Len(d) /\ e = Swapped(d, 2, k)
      BY <1>0, <1>10, <1>11, <1>12
    <3> QED BY <3>1, SwappedIs
  <2>2. SameLits(d, e)
    BY <1>0, <1>10, <1>11, <1>12, SwappedHas
  <2> QED BY <1>11, <1>12, <2>1, <2>2
<1>14. d[k] # d[1] /\ d[k] # d[2] /\ d[1] # d[2] /\ d[k] \in AllLits /\ d[1] \in AllLits
  BY <1>11, <1>12
<1>15. PICK q : q = Neg(d[k])
  OBVIOUS
<1>16. q \in AllLits /\ Neg(q) = d[k] /\ q # p
  BY <1>10, <1>14, <1>15, Literals
<1>17. PICK t1 : t1 = Reordered(y, r, e)
  OBVIOUS
<1>18. /\ Books(t1) /\ Grows(y, t1)
       /\ t1.learnts = y.learnts /\ t1.watches = y.watches /\ t1.trail = y.trail /\ t1.lim = y.lim
       /\ t1.qhead = y.qhead /\ t1.assigned = y.assigned /\ t1.reason = y.reason /\ t1.level = y.level
       /\ t1.heap = y.heap /\ t1.ok = y.ok /\ t1.nextVar = y.nextVar
       /\ t1.released = y.released /\ t1.free = y.free
       /\ DOMAIN t1.clause = DOMAIN y.clause /\ t1.clause[r] = e
       /\ \A z \in DOMAIN y.clause : z # r => t1.clause[z] = y.clause[z]
  <2>1. SameLits(c, e)
    BY <1>10, <1>13, SameLitsTwice
  <2>2. e[1] = c[1] \/ c[1] \notin y.assigned
    <3>1. p \in y.assigned
      <4>1. s.qhead \in 1..Len(s.trail) /\ s.trail[s.qhead] = p /\ Len(s.trail) \in Nat
        BY <1>3, TypedIs DEF AtLiteral
      <4>2. y.trail[s.qhead] = p /\ s.qhead \in 1..Len(y.trail)
        <5>1. Len(s.trail) <= Len(y.trail) /\ y.trail[s.qhead] = s.trail[s.qhead]
          BY <1>2, <4>1 DEF Extends, Grows
        <5>2. Len(y.trail) \in Nat
          BY <1>3, TypedIs
        <5> QED BY <4>1, <5>1, <5>2
      <4> QED BY <1>2, <4>2, BooksAre DEF TrailOK
    <3>2. Neg(p) \notin y.assigned
      BY <1>2, <3>1, BooksAre DEF TrailOK
    <3> QED BY <1>10, <1>13, <3>2
  <2> QED BY <1>2, <1>6, <1>7, <1>13, <1>17, <2>1, <2>2, ReorderBooks
<1>19. v \in Seq(Watcher) /\ y.watches[q] \in Seq(Watcher) /\ [ref |-> r, blocker |-> d[1]] \in Watcher
       /\ v = Append(y.watches[q], [ref |-> r, blocker |-> d[1]])
  <2>1. y.watches[q] \in Seq(Watcher) /\ [ref |-> r, blocker |-> d[1]] \in Watcher
    BY <1>3, <1>6, <1>14, <1>16, TypedIs DEF Watcher
  <2> QED BY <1>0, <1>15, <2>1, AppendIs
<1>20. \A j \in 1..Len(v) : v[j].blocker \in UsableLits(t1) /\ \A L : Within(y, L) => v[j].blocker \in L
  <2>1. PICK g, b : g = y.watches[q] /\ b = [ref |-> r, blocker |-> d[1]]
    OBVIOUS
  <2>2. Len(v) = Len(g) + 1 /\ Len(g) \in Nat /\ v[Len(g) + 1] = b /\ \A j \in 1..Len(g) : v[j] = g[j]
    BY <1>19, <2>1, AppendIs
  <2>3. Within(t1, UsableLits(t1))
    BY <1>18, BooksAre
  <2>4. b.blocker = d[1] /\ d[1] = e[1] /\ 1 \in 1..Len(e)
    BY <1>11, <1>13, <2>1
  <2>5. b.blocker \in UsableLits(t1)
    BY <1>6, <1>18, <2>3, <2>4 DEF Within
  <2>6. ASSUME NEW L, Within(y, L) PROVE b.blocker \in L
    BY <1>3, <1>6, <1>18, <2>4, <2>6, BooksAre, SameMentioned
  <2>7. \A j \in 1..Len(v) : j \in 1..Len(g) \/ j = Len(g) + 1
    BY <2>2
  <2>8. \A j \in 1..Len(g) : g[j].blocker \in UsableLits(t1)
    BY <1>16, <1>18, <2>1, <2>3 DEF Within
  <2>9. ASSUME NEW L, Within(y, L) PROVE \A j \in 1..Len(g) : g[j].blocker \in L
    BY <1>16, <2>1, <2>9 DEF Within
  <2> QED BY <2>2, <2>5, <2>6, <2>7, <2>8, <2>9
<1>21. t = WithList(t1, q, v)
  BY <1>1, <1>15, <1>17 DEF Moving, WithList, Reordered
<1>22. /\ Books(t) /\ Extends(t1, t)
       /\ t.clause = t1.clause /\ t.learnts = t1.learnts /\ t.trail = t1.trail /\ t.lim = t1.lim
       /\ t.qhead = t1.qhead /\ t.assigned = t1.assigned /\ t.reason = t1.reason /\ t.level = t1.level
       /\ t.heap = t1.heap /\ t.ok = t1.ok /\ t.nextVar = t1.nextVar
       /\ t.released = t1.released /\ t.free = t1.free
       /\ t.watches[q] = v /\ \A l \in AllLits : l # q => t.watches[l] = t1.watches[l]
  <2>1. \A j \in 1..Len(v) : Usable(t1, v[j].blocker)
    BY <1>20 DEF UsableLits
  <2>2. Books(t1) /\ q \in AllLits /\ v \in Seq(Watcher)
    BY <1>16, <1>18, <1>19
  <2> QED BY <1>21, <2>1, <2>2, WatchesBooks
<1>23. Typed(t1) /\ Typed(t)
  BY <1>18, <1>22, BooksAre
<1>24. Extends(y, t)
  <2>1. ~\E j : j \in (Len(y.trail) + 1)..Len(y.trail)
    <3>1. Len(y.trail) \in Nat
      BY <1>3, TypedIs
    <3> QED BY <3>1
  <2>2. Extends(y, t1)
    BY <1>18, <2>1 DEF Extends
  <2> QED BY <1>3, <1>22, <1>23, <2>2, ExtendsTwice
<1>25. Extends(s, t)
  BY <1>2, <1>3, <1>23, <1>24, ExtendsTwice
<1>26. /\ DOMAIN t.clause = DOMAIN y.clause /\ t.clause[r] = e /\ t.trail = y.trail
       /\ \A z \in DOMAIN y.clause : z # r => t.clause[z] = y.clause[z]
  BY <1>18, <1>22
<1>27. \A z \in Watcher : z.ref \in DOMAIN y.clause /\ BlockerOK(y, z) => BlockerOK(t, z)
  BY <1>3, <1>23, <1>24, GrowsIs DEF Extends
<1>28. ASSUME NEW l PROVE Watched(t, r, l) <=> l = d[1] \/ l = d[k]
  BY <1>6, <1>13, <1>26 DEF Watched
<1>29. ASSUME NEW l PROVE Watched(y, r, l) <=> l = d[1] \/ l = d[2]
  <2>1. Watched(y, r, l) <=> l = c[1] \/ l = c[2]
    BY <1>6, <1>7 DEF Watched
  <2>2. (l = c[1] \/ l = c[2]) <=> (l = d[1] \/ l = d[2])
    BY <1>10
  <2> QED BY <2>1, <2>2
<1>30. \A z, l : z # r => (Watched(t, z, l) <=> Watched(y, z, l))
  BY <1>26 DEF Watched
<1>31. ASSUME NEW z, NEW l, Watched(y, z, l) PROVE z \in DOMAIN y.clause
  BY <1>31 DEF Watched
<1> HIDE DEF Watched
<1>32. ListOK(t, p, ws, i + 1, u.kept)
  <2>1. \A z : Watched(t, z, Neg(p)) <=> Watched(y, z, Neg(p)) /\ z # ws[i + 1].ref
    <3>1. ~Watched(t, r, Neg(p)) /\ r = ws[i + 1].ref
      BY <1>0, <1>10, <1>14, <1>28
    <3> QED BY <1>30, <3>1
  <2>2. \A z \in Watcher : Watched(y, z.ref, Neg(p)) /\ BlockerOK(y, z) => BlockerOK(t, z)
    BY <1>27, <1>31
  <2> QED BY <1>2, <1>3, <2>1, <2>2, ListDrops
<1>33. ASSUME NEW l \in AllLits, l # p PROVE WatchedBy(t, l, t.watches[l])
  <2>1. PICK g : g = y.watches[l]
    OBVIOUS
  <2>2. WatchedBy(y, l, g) /\ g \in Seq(Watcher) /\ \A j \in 1..Len(g) : g[j] \in Watcher
    <3>1. g \in Seq(Watcher)
      BY <1>3, <2>1, TypedIs
    <3> QED BY <1>2, <1>33, <2>1, <3>1, LenProperties
  <2>3. CASE l = q
    <3>1. PICK b : b = [ref |-> r, blocker |-> d[1]]
      OBVIOUS
    <3>2. b.ref = r /\ b.blocker = d[1] /\ b \in Watcher
      BY <1>19, <3>1
    <3>3. Watched(t, b.ref, Neg(l)) /\ ~Watched(y, b.ref, Neg(l))
      BY <1>14, <1>16, <1>28, <1>29, <2>3, <3>2
    <3>4. BlockerOK(t, b)
      <4>1. InClause(t, r, d[1])
        BY <1>11, <1>13, <1>26 DEF InClause
      <4> QED BY <3>2, <4>1 DEF BlockerOK
    <3>5. \A z \in Watcher : Watched(y, z.ref, Neg(l)) /\ BlockerOK(y, z) => BlockerOK(t, z)
      BY <1>27, <1>31
    <3>6. \A z : z # b.ref => (Watched(t, z, Neg(l)) <=> Watched(y, z, Neg(l)))
      BY <1>30, <3>2
    <3>7. v = Append(g, b)
      BY <1>19, <2>1, <2>3, <3>1
    <3>8. WatchedBy(t, l, v)
      BY <2>2, <3>2, <3>3, <3>4, <3>5, <3>6, <3>7, OneMoreWatcher
    <3> QED BY <1>22, <2>3, <3>8
  <2>4. CASE l # q
    <3>1. \A z : Watched(t, z, Neg(l)) <=> Watched(y, z, Neg(l))
      <4>1. Neg(l) # d[k] /\ Neg(l) # Neg(p)
        BY <1>3, <1>16, <1>33, <2>4, Literals
      <4> QED BY <1>10, <1>28, <1>29, <1>30, <4>1
    <3>2. WatchedBy(t, l, g)
      <4>1. \A j \in 1..Len(g) : Watched(t, g[j].ref, Neg(l)) /\ BlockerOK(t, g[j])
        BY <1>27, <1>31, <2>2, <3>1 DEF WatchedBy
      <4>2. \A j, n \in 1..Len(g) : g[j].ref = g[n].ref => j = n
        BY <2>2 DEF WatchedBy
      <4>3. \A z \in DOMAIN t.clause : Watched(t, z, Neg(l)) => \E j \in 1..Len(g) : g[j].ref = z
        BY <1>26, <2>2, <3>1 DEF WatchedBy
      <4> QED BY <4>1, <4>2, <4>3 DEF WatchedBy
    <3>3. t.watches[l] = g
      BY <1>18, <1>22, <2>1, <2>4
    <3> QED BY <3>2, <3>3
  <2> QED BY <2>3, <2>4
<1>34. Len(y.trail) \in Nat /\ s.qhead \in Nat /\ s.qhead <= Len(y.trail) /\ 1 <= s.qhead /\ Len(s.trail) \in Nat
       /\ y.trail[s.qhead] = p
  <2>1. Len(y.trail) \in Nat /\ Len(s.trail) \in Nat
    BY <1>3, TypedIs
  <2>2. Len(s.trail) <= Len(y.trail) /\ y.trail[s.qhead] = p
    BY <1>2 DEF Extends, Grows, AtLiteral
  <2> QED BY <2>1, <2>2 DEF AtLiteral
<1>35. ASSUME NEW z \in DOMAIN y.clause, NEW j \in 1..Len(y.trail), AwakeAt(y, z, j), z # r PROVE AwakeAt(t, z, j)
  <2>1. \A n \in {1, 2} : \E l \in {1, 2} : t.clause[z][n] = y.clause[z][l]
    BY <1>26, <1>35
  <2> QED BY <1>3, <1>23, <1>24, <1>35, <2>1, GrowsAwake DEF Extends
<1>36. ASSUME NEW j \in 1..Len(y.trail), AwakeAt(y, r, j) PROVE AwakeAt(t, r, j)
  <2>1. y.trail[j] # Neg(e[2])
    <3>1. ~False(y, d[k])
      BY <1>0
    <3> QED BY <1>2, <1>13, <1>14, <3>1, NotFalse
  <2>2. ASSUME y.trail[j] = Neg(e[1])
        PROVE  \E n \in 1..Len(t.trail) : InClause(t, r, t.trail[n]) /\ Lv(t, n) <= Lv(t, j)
    <3>1. PICK n \in {1, 2} : d[1] = c[n]
      BY <1>10
    <3>2. y.trail[j] = Neg(y.clause[r][n])
      BY <1>7, <1>13, <2>2, <3>1
    <3>3. PICK h \in 1..Len(y.trail) : InClause(y, r, y.trail[h]) /\ Lv(y, h) <= Lv(y, j)
      BY <1>36, <3>2 DEF AwakeAt
    <3>4. Lv(t, h) = Lv(y, h) /\ Lv(t, j) = Lv(y, j) /\ t.trail[h] = y.trail[h]
      BY <1>24 DEF Extends, Grows
    <3>5. InClause(t, r, t.trail[h])
      BY <1>3, <1>6, <1>24, <3>3, <3>4, TypedIs DEF Extends, Grows
    <3> QED BY <1>26, <3>3, <3>4, <3>5
  <2> QED BY <1>26, <2>1, <2>2 DEF AwakeAt
<1>37. AwakeTo(s, s.qhead - 1) => AwakeTo(t, s.qhead - 1)
  <2>1. \A j \in 1..(s.qhead - 1) : j \in 1..Len(y.trail)
    BY <1>34
  <2> QED BY <1>2, <1>26, <1>35, <1>36, <2>1 DEF AwakeTo
<1>38. AwakeAt(t, r, s.qhead)
  <2>1. p # Neg(e[1]) /\ p # Neg(e[2])
    <3>1. Neg(Neg(e[1])) = e[1] /\ Neg(Neg(e[2])) = e[2]
      BY <1>13, <1>14, Literals
    <3> QED BY <1>10, <1>13, <1>14, <3>1
  <2> QED BY <1>26, <1>34, <2>1 DEF AwakeAt
<1>39. ASSUME NEW z \in DOMAIN t.clause, ~AwakeAt(t, z, s.qhead) PROVE \E j \in ((i + 1) + 1)..Len(ws) : ws[j].ref = z
  <2>1. s.qhead \in 1..Len(y.trail) /\ z \in DOMAIN y.clause /\ z # r
    BY <1>26, <1>34, <1>38, <1>39
  <2>2. ~AwakeAt(y, z, s.qhead)
    BY <1>35, <1>39, <2>1
  <2>3. PICK j \in (i + 1)..Len(ws) : ws[j].ref = z
    BY <1>2, <2>1, <2>2
  <2>4. j # i + 1
    BY <1>0, <2>1, <2>3
  <2>5. j \in ((i + 1) + 1)..Len(ws)
    BY <1>4, <1>5, <2>4
  <2> QED BY <2>3, <2>5
<1>40. ASSUME NEW L, Within(s, L) PROVE Within(t, L) /\ \A j \in 1..Len(u.kept) : u.kept[j].blocker \in L
  <2>1. Within(y, L) /\ \A j \in 1..Len(u.kept) : u.kept[j].blocker \in L
    BY <1>2, <1>40
  <2>2. \A z \in DOMAIN t.clause : \A n \in 1..Len(t.clause[z]) : t.clause[z][n] \in L
    BY <1>3, <1>23, <1>24, <1>26, <2>1, SameMentioned DEF Extends
  <2>3. ASSUME NEW l \in AllLits PROVE \A j \in 1..Len(t.watches[l]) : t.watches[l][j].blocker \in L
    <3>1. CASE l = q
      <4>1. t.watches[l] = v
        BY <1>22, <3>1
      <4> QED BY <1>20, <2>1, <4>1
    <3>2. CASE l # q
      <4>1. t.watches[l] = y.watches[l]
        BY <1>18, <1>22, <3>2
      <4> QED BY <2>1, <4>1 DEF Within
    <3> QED BY <3>1, <3>2
  <2>4. Within(t, L)
    BY <2>2, <2>3 DEF Within
  <2> QED BY <2>1, <2>4
<1>41. ASSUME NEW m \in Models, Means(s, m) PROVE Means(t, m)
  <2>1. Means(y, m)
    BY <1>2, <1>41
  <2>2. Grows(y, t)
    BY <1>24 DEF Extends
  <2> QED BY <1>3, <1>23, <1>26, <2>1, <2>2, SameMeaning
<1>42. x \in [s : SolverType, kept : Seq(Watcher), confl : Nat] /\ x.s = t /\ x.kept = u.kept /\ x.confl = NoClause
  <2>1. t \in SolverType /\ NoClause \in Nat
    BY <1>23, TypedIs DEF NoClause
  <2> QED BY <1>2, <2>1 DEF Moving
<1>43. t.watches[p] = ws /\ t.qhead = s.qhead
  <2>1. t.watches[p] = t1.watches[p]
    BY <1>3, <1>16, <1>22
  <2>2. t1.watches[p] = y.watches[p]
    BY <1>18
  <2>3. t.qhead = t1.qhead /\ t1.qhead = y.qhead
    BY <1>18, <1>22
  <2> QED BY <1>2, <2>1, <2>2, <2>3
<1> QED BY <1>22, <1>25, <1>32, <1>33, <1>37, <1>39, <1>40, <1>41, <1>42, <1>43 DEF Visiting

\* uncheckedEnqueue() of what clause r implies extends the trail.
LEMMA EnqueueExtends ==
  ASSUME NEW s, Books(s), NEW p \in AllLits, Usable(s, p), Open(s, p[1]),
         NEW r \in Nat, r # NoClause, Implies1(s, r, p), NEW t, t = Enqueue(s, p, r)
  PROVE  /\ Books(t) /\ Extends(s, t) /\ OnTrail(t, p)
         /\ t.watches = s.watches /\ t.clause = s.clause /\ t.qhead = s.qhead
         /\ Preserves(s, t)
<1>1. Typed(s) /\ LevelsOK(s)
  BY BooksAre
<1>2. Books(t) /\ Grows(s, t) /\ Lv(t, Len(s.trail) + 1) = Len(s.lim)
  BY EnqueueBooks
<1>3. /\ Typed(t)
      /\ t.clause = s.clause /\ t.learnts = s.learnts /\ t.watches = s.watches /\ t.lim = s.lim
      /\ t.qhead = s.qhead /\ t.heap = s.heap /\ t.ok = s.ok /\ t.nextVar = s.nextVar
      /\ t.released = s.released /\ t.free = s.free
      /\ Len(t.trail) = Len(s.trail) + 1 /\ t.trail[Len(s.trail) + 1] = p
      /\ \A i \in 1..Len(s.trail) : t.trail[i] = s.trail[i]
      /\ t.reason[p[1]] = r
      /\ \A v \in Vars : v # p[1] => t.reason[v] = s.reason[v]
  BY <1>1, EnqueueFields
<1>4. Len(s.trail) \in Nat /\ (\A i \in 1..Len(s.trail) : s.trail[i] \in AllLits /\ s.trail[i][1] \in Vars) /\ Len(s.lim) \in Nat
      /\ \A i \in 1..Len(s.trail) : Lv(s, i) \in Nat
  BY <1>1, TypedIs
<1>5. \A i \in 1..Len(t.trail) : i \in 1..Len(s.trail) \/ i = Len(s.trail) + 1
  BY <1>3, <1>4
<1>6. Extends(s, t)
  <2>1. \A i \in (Len(s.trail) + 1)..Len(t.trail) : i = Len(s.trail) + 1
    BY <1>3, <1>4
  <2>2. \A i \in (Len(s.trail) + 1)..Len(t.trail) : Lv(t, i) = Len(s.lim) /\ t.reason[t.trail[i][1]] # NoClause
    BY <1>2, <1>3, <2>1
  <2>3. ASSUME NEW i \in 1..Len(s.trail) PROVE t.reason[s.trail[i][1]] = s.reason[s.trail[i][1]]
    <3>1. s.trail[i] \in s.assigned
      BY BooksAre DEF TrailOK
    <3>2. s.trail[i][1] # p[1]
      <4>1. \A q \in s.assigned : q[1] # p[1]
        BY <1>1, Literals, OpenIs
      <4> QED BY <3>1, <4>1
    <3> QED BY <1>3, <1>4, <3>2
  <2> QED BY <1>2, <1>3, <2>2, <2>3 DEF Extends
<1>7. OnTrail(t, p)
  <2>1. Len(s.trail) + 1 \in 1..Len(t.trail)
    BY <1>3, <1>4
  <2> QED BY <1>3, <2>1 DEF OnTrail
<1>8. ASSUME NEW m \in Models, Means(s, m) PROVE Means(t, m)
  <2>1. ASSUME Len(s.lim) = 0 PROVE p \in m
    <3>1. r \in DOMAIN s.clause /\ s.clause[r][1] = p
      BY DEF Implies1
    <3>2. s.clause[r] \in ClauseSeq
      BY <1>1, <3>1, TypedIs
    <3>3. PICK k \in 1..Len(s.clause[r]) : s.clause[r][k] \in m
      BY <1>8, <3>1 DEF Means
    <3>4. ASSUME k # 1 PROVE FALSE
      <4>1. k \in 2..Len(s.clause[r]) /\ s.clause[r][k] \in AllLits
        BY <3>2, <3>4, ClauseIs
      <4>2. OnTrail(s, Neg(s.clause[r][k]))
        BY <4>1 DEF Implies1
      <4>3. PICK i \in 1..Len(s.trail) : s.trail[i] = Neg(s.clause[r][k])
        BY <4>2 DEF OnTrail
      <4>4. Lv(s, i) = 0
        <5>1. Lv(s, i) <= Len(s.lim)
          BY <1>1 DEF LevelsOK
        <5> QED BY <1>4, <2>1, <5>1
      <4>5. Neg(s.clause[r][k]) \in m
        BY <1>8, <4>3, <4>4 DEF Means
      <4> QED BY <3>3, <4>1, <4>5 DEF Models
    <3> QED BY <3>1, <3>3, <3>4
  <2>2. ASSUME NEW i \in 1..Len(t.trail), Lv(t, i) = 0 PROVE t.trail[i] \in m
    <3>1. CASE i \in 1..Len(s.trail)
      <4>1. Lv(s, i) = 0 /\ t.trail[i] = s.trail[i]
        BY <1>2, <2>2, <3>1 DEF Grows
      <4> QED BY <1>8, <3>1, <4>1 DEF Means
    <3>2. CASE i = Len(s.trail) + 1
      BY <1>2, <1>3, <2>1, <2>2, <3>2
    <3> QED BY <1>5, <3>1, <3>2
  <2> QED BY <1>3, <1>8, <2>2 DEF Means
<1>9. Preserves(s, t)
  BY <1>8 DEF Preserves
<1> QED BY <1>2, <1>3, <1>6, <1>7, <1>9

\* The clause of watcher w has its false literal in the second place.
Turns(s, u, p, w, d, t) ==
  /\ Books(t) /\ Extends(u.s, t) /\ t.watches = u.s.watches /\ t.qhead = u.s.qhead
  /\ t.trail = u.s.trail /\ t.assigned = u.s.assigned
  /\ SameWatched(u.s, t) /\ Preserves(u.s, t)
  /\ w \in Watcher /\ w.ref \in DOMAIN t.clause /\ t.clause[w.ref] = d /\ d \in ClauseSeq /\ d[2] = Neg(p)
  /\ p \in AllLits /\ OnTrail(t, p) /\ Lv(t, s.qhead) = Len(t.lim)

\* The clause with its false literal in the second place.
LEMMA TurnedIs ==
  ASSUME NEW s, NEW p, NEW ws, AtLiteral(s, p, ws), NEW i \in 0..Len(ws), i # Len(ws),
         NEW u, Visiting(u, s, p, ws, i), NEW w, w = ws[i + 1],
         NEW d, d = FalseSecond(u.s.clause[w.ref], Neg(p)), NEW t, t = Reordered(u.s, w.ref, d)
  PROVE  Turns(s, u, p, w, d, t)
<1>1. PICK y : y = u.s
  OBVIOUS
<1>2. Books(y) /\ Extends(s, y) /\ ListOK(y, p, ws, i, u.kept)
  BY <1>1 DEF Visiting
<1>3. Typed(s) /\ Typed(y) /\ ws \in Seq(Watcher) /\ p \in AllLits /\ Neg(p) \in AllLits /\ Neg(Neg(p)) = p
  BY <1>2, BooksAre, Literals DEF AtLiteral
<1>4. (\A j \in 1..Len(ws) : ws[j] \in Watcher) /\ Len(ws) \in Nat
  BY <1>3, LenProperties
<1>5. i + 1 \in 1..Len(ws) /\ i + 1 \in (i + 1)..Len(ws) /\ i \in Nat
  BY <1>4
<1>6. Watched(y, w.ref, Neg(p)) /\ w.ref \in DOMAIN y.clause /\ w \in Watcher
  <2>1. Watched(y, w.ref, Neg(p)) /\ w \in Watcher
    BY <1>2, <1>4, <1>5 DEF ListOK
  <2> QED BY <1>3, <2>1, TypedIs DEF Watched
<1>7. PICK c : c = y.clause[w.ref]
  OBVIOUS
<1>8. c \in ClauseSeq /\ (c[1] = Neg(p) \/ c[2] = Neg(p))
  BY <1>3, <1>6, <1>7, TypedIs DEF Watched
<1>9. d = FalseSecond(c, Neg(p))
  BY <1>1, <1>7
<1>10. /\ d \in ClauseSeq /\ Len(d) = Len(c) /\ d[2] = Neg(p) /\ d[1] # Neg(p)
       /\ d[1] = c[1] \/ c[1] = Neg(p)
       /\ \A n \in {1, 2} : \E l \in {1, 2} : d[n] = c[l]
       /\ \A n \in {1, 2} : \E l \in {1, 2} : c[n] = d[l]
       /\ SameLits(c, d)
  BY <1>3, <1>8, <1>9, FalseSecondIs
<1>11. /\ s.qhead \in 1..Len(s.trail) /\ s.trail[s.qhead] = p /\ Len(s.trail) \in Nat /\ s.qhead \in 1..Len(y.trail)
       /\ y.trail[s.qhead] = p /\ Lv(y, s.qhead) = Len(s.lim) /\ s.lim = y.lim
  <2>1. s.qhead \in 1..Len(s.trail) /\ s.trail[s.qhead] = p /\ Len(s.trail) \in Nat /\ Lv(s, s.qhead) = Len(s.lim)
    BY <1>3, TypedIs DEF AtLiteral
  <2>2. y.trail[s.qhead] = p /\ Len(s.trail) <= Len(y.trail) /\ Lv(y, s.qhead) = Lv(s, s.qhead) /\ s.lim = y.lim
    BY <1>2, <2>1 DEF Extends, Grows
  <2>3. Len(y.trail) \in Nat
    BY <1>3, TypedIs
  <2> QED BY <2>1, <2>2, <2>3
<1>12. d[1] = c[1] \/ c[1] \notin y.assigned
  <2>1. p \in y.assigned
    BY <1>2, <1>11, BooksAre DEF TrailOK
  <2>2. Neg(p) \notin y.assigned
    BY <1>2, <2>1, BooksAre DEF TrailOK
  <2> QED BY <1>10, <2>2
<1>13. t = Reordered(y, w.ref, d)
  BY <1>1
<1>14. /\ Books(t) /\ Grows(y, t)
       /\ t.learnts = y.learnts /\ t.watches = y.watches /\ t.trail = y.trail /\ t.lim = y.lim
       /\ t.qhead = y.qhead /\ t.assigned = y.assigned /\ t.reason = y.reason /\ t.level = y.level
       /\ t.heap = y.heap /\ t.ok = y.ok /\ t.nextVar = y.nextVar
       /\ t.released = y.released /\ t.free = y.free
       /\ DOMAIN t.clause = DOMAIN y.clause /\ t.clause[w.ref] = d
       /\ \A z \in DOMAIN y.clause : z # w.ref => t.clause[z] = y.clause[z]
  <2>1. PICK r : r = w.ref
    OBVIOUS
  <2>2. /\ Books(y) /\ r \in DOMAIN y.clause /\ d \in ClauseSeq /\ SameLits(y.clause[r], d)
        /\ d[1] = y.clause[r][1] \/ y.clause[r][1] \notin y.assigned
        /\ t = Reordered(y, r, d)
    BY <1>2, <1>6, <1>7, <1>10, <1>12, <1>13, <2>1
  <2>3. /\ Books(t) /\ Grows(y, t)
        /\ t.learnts = y.learnts /\ t.watches = y.watches /\ t.trail = y.trail /\ t.lim = y.lim
        /\ t.qhead = y.qhead /\ t.assigned = y.assigned /\ t.reason = y.reason /\ t.level = y.level
        /\ t.heap = y.heap /\ t.ok = y.ok /\ t.nextVar = y.nextVar
        /\ t.released = y.released /\ t.free = y.free
        /\ DOMAIN t.clause = DOMAIN y.clause /\ t.clause[r] = d
        /\ \A z \in DOMAIN y.clause : z # r => t.clause[z] = y.clause[z]
    <3>1. Books(t) /\ Grows(y, t)
      <4> QED BY ONLY <2>2, ReorderBooks
    <3>2. /\ t.learnts = y.learnts /\ t.watches = y.watches /\ t.trail = y.trail /\ t.lim = y.lim
          /\ t.qhead = y.qhead /\ t.assigned = y.assigned /\ t.reason = y.reason /\ t.level = y.level
          /\ t.heap = y.heap /\ t.ok = y.ok /\ t.nextVar = y.nextVar
          /\ t.released = y.released /\ t.free = y.free
      <4>1. y \in SolverType
        BY <1>3, TypedIs
      <4> QED BY <2>2, <4>1 DEF Reordered, SolverType
    <3>3. DOMAIN t.clause = DOMAIN y.clause
      <4>1. y \in SolverType
        BY <1>3, TypedIs
      <4>2. t.clause = [y.clause EXCEPT ![r] = d]
        BY <2>2, <4>1 DEF Reordered, SolverType
      <4> QED BY <4>2
    <3>4. t.clause[r] = d /\ \A z \in DOMAIN y.clause : z # r => t.clause[z] = y.clause[z]
      <4>1. y \in SolverType /\ r \in DOMAIN y.clause
        BY <1>3, <2>2, TypedIs
      <4>2. t.clause = [y.clause EXCEPT ![r] = d]
        BY <2>2, <4>1 DEF Reordered, SolverType
      <4> QED BY <4>1, <4>2
    <3> QED BY <3>1, <3>2, <3>3, <3>4
  <2> QED BY <2>1, <2>3
<1>15. Extends(y, t)
  <2>1. ~\E j : j \in (Len(y.trail) + 1)..Len(y.trail)
    <3>1. Len(y.trail) \in Nat
      BY <1>3, TypedIs
    <3> QED BY <3>1
  <2> QED BY <1>14, <2>1 DEF Extends
<1>16. ASSUME NEW r, NEW q PROVE Watched(t, r, q) <=> Watched(y, r, q)
  <2>1. CASE r = w.ref
    <3>1. (q = c[1] \/ q = c[2]) <=> (q = d[1] \/ q = d[2])
      BY <1>10
    <3>2. Watched(t, r, q) <=> q = d[1] \/ q = d[2]
      BY <1>6, <1>14, <2>1 DEF Watched
    <3>3. Watched(y, r, q) <=> q = c[1] \/ q = c[2]
      BY <1>6, <1>7, <2>1 DEF Watched
    <3> QED BY <3>1, <3>2, <3>3
  <2>2. CASE r # w.ref
    BY ZenonT(40), <1>14, <2>2 DEF Watched
  <2> QED BY <2>1, <2>2
<1>17. ASSUME NEW r \in DOMAIN y.clause, NEW k \in {1, 2} PROVE \E l \in {1, 2} : t.clause[r][k] = y.clause[r][l]
  <2>1. CASE r = w.ref
    <3>1. PICK l \in {1, 2} : d[k] = c[l]
      BY <1>10
    <3>2. t.clause[r][k] = d[k] /\ y.clause[r][l] = c[l]
      BY <1>7, <1>14, <2>1
    <3> QED BY <3>1, <3>2
  <2>2. CASE r # w.ref
    BY <1>14, <2>2
  <2> QED BY <2>1, <2>2
<1>18. ASSUME NEW m \in Models, Means(y, m) PROVE Means(t, m)
  <2>1. Typed(t)
    BY <1>14, BooksAre
  <2> QED BY <1>3, <1>14, <1>18, <2>1, SameMeaning
<1>19. OnTrail(t, p) /\ Lv(t, s.qhead) = Len(t.lim)
  BY ZenonT(40), <1>11, <1>14 DEF OnTrail, Lv
<1>20. /\ Books(t) /\ Extends(u.s, t) /\ t.watches = u.s.watches /\ t.qhead = u.s.qhead
       /\ t.trail = u.s.trail /\ t.assigned = u.s.assigned
  BY <1>1, <1>14, <1>15
<1>21. Preserves(u.s, t)
  BY <1>1, <1>18 DEF Preserves
<1>22. SameWatched(u.s, t)
  BY <1>1, <1>16, <1>17 DEF SameWatched
<1>24. w \in Watcher /\ w.ref \in DOMAIN t.clause /\ t.clause[w.ref] = d /\ d \in ClauseSeq /\ d[2] = Neg(p) /\ p \in AllLits
  BY <1>3, <1>6, <1>10, <1>14
<1> QED BY <1>19, <1>20, <1>21, <1>22, <1>24 DEF Turns

\* What Visit works on.
VisitType == [s : SolverType, kept : Seq(Watcher), confl : Nat]

VisitResult(t, kept, confl_) == [s |-> t, kept |-> kept, confl |-> confl_]

AtEnd(s) == [s EXCEPT !.qhead = Len(s.trail)]

\* The cases of propagate()'s inner loop.
VisitCase(u, w, p, d, t, moved, x) ==
  \/ (u.confl # NoClause \/ True(u.s, w.blocker)) /\ x = VisitResult(u.s, Append(u.kept, w), u.confl)
  \/ u.confl = NoClause /\ True(t, d[1]) /\ x = VisitResult(t, Append(u.kept, moved), u.confl)
  \/ u.confl = NoClause /\ \E k, e, v, z : Moving(u, p, w, w.ref, d, k, e, v, z, x)
  \/ /\ u.confl = NoClause /\ False(t, d[1]) /\ \A k \in 3..Len(d) : False(t, d[k])
     /\ x = VisitResult(AtEnd(t), Append(u.kept, moved), w.ref)
  \/ /\ u.confl = NoClause /\ ~True(t, d[1]) /\ ~False(t, d[1]) /\ \A k \in 3..Len(d) : False(t, d[k])
     /\ x = VisitResult(Enqueue(t, d[1], w.ref), Append(u.kept, moved), u.confl)
  
\* The branches of Visit(), one by one.
LEMMA VisitCases ==
  ASSUME NEW u \in VisitType, NEW w, NEW p, w.ref \in DOMAIN u.s.clause,
         NEW d, d = FalseSecond(u.s.clause[w.ref], Neg(p)), Len(d) \in Nat, NEW t, t = Reordered(u.s, w.ref, d),
         NEW moved, moved = [ref |-> w.ref, blocker |-> d[1]], NEW x, x = Visit(u, w, p)
  PROVE  VisitCase(u, w, p, d, t, moved, x)
<1>1. u.s \in SolverType /\ u = [s |-> u.s, kept |-> u.kept, confl |-> u.confl]
  BY DEF VisitType
<1>2. CASE u.confl # NoClause \/ True(u.s, w.blocker)
  <2>1. x = [u EXCEPT !.kept = Append(@, w)]
    BY <1>2 DEF Visit
  <2>2. x = VisitResult(u.s, Append(u.kept, w), u.confl)
    BY <1>1, <2>1 DEF VisitResult
  <2> QED BY <1>2, <2>2 DEF VisitCase
<1>3. CASE ~(u.confl # NoClause \/ True(u.s, w.blocker))
  <2>1. PICK stays : stays = [u EXCEPT !.s = t, !.kept = Append(@, moved)]
    OBVIOUS
  <2>2. stays = VisitResult(t, Append(u.kept, moved), u.confl)
    BY <1>1, <2>1 DEF VisitResult
  <2>3. x = IF True(t, d[1]) THEN stays
            ELSE IF NewWatches(t, d) # {}
            THEN LET k == NextWatch(t, d)
                 IN  [u EXCEPT !.s = [t EXCEPT !.clause[w.ref] = [d EXCEPT ![2] = d[k], ![k] = d[2]],
                                               !.watches[Neg(d[k])] = Append(@, moved)]]
            ELSE IF False(t, d[1])
            THEN [stays EXCEPT !.confl = w.ref, !.s.qhead = Len(t.trail)]
            ELSE [stays EXCEPT !.s = Enqueue(t, d[1], w.ref)]
    <3>1. x = Look(u, w.ref, FalseSecond(u.s.clause[w.ref], Neg(p)),
                   [u.s EXCEPT !.clause[w.ref] = FalseSecond(u.s.clause[w.ref], Neg(p))])
      BY <1>3, Zenon DEF Visit
    <3>2. t = [u.s EXCEPT !.clause[w.ref] = d]
      BY DEF Reordered
    <3>3. x = Look(u, w.ref, d, t)
      BY <3>1, <3>2
    <3> QED BY <2>1, <3>3 DEF Look
  <2>4. CASE True(t, d[1])
    BY <1>3, <2>2, <2>3, <2>4 DEF VisitCase
  <2>5. CASE ~True(t, d[1]) /\ NewWatches(t, d) # {}
    <3>1. PICK k : k = NextWatch(t, d)
      OBVIOUS
    <3>2. k \in NewWatches(t, d)
      <4>1. \E i \in NewWatches(t, d) : \A j \in NewWatches(t, d) : i <= j
        <5>1. NewWatches(t, d) \subseteq Nat
          BY DEF NewWatches
        <5>2. PICK m \in NewWatches(t, d) : \A z \in NewWatches(t, d) : <<z, m>> \notin OpToRel(<, Nat)
          BY <2>5, <5>1, NatLessThanWellFounded, WFMin
        <5>3. ASSUME NEW z \in NewWatches(t, d) PROVE m <= z
          <6>1. m \in Nat /\ z \in Nat
            BY <5>1
          <6>2. ~(z < m)
            BY <5>2, <6>1 DEF OpToRel
          <6> QED BY <6>1, <6>2
        <5> QED BY <5>2, <5>3
      <4> QED BY <3>1, <4>1 DEF NextWatch
    <3>3. k \in 3..Len(d) /\ ~False(t, d[k])
      BY <3>2 DEF NewWatches
    <3>4. t.assigned = u.s.assigned /\ t.watches = u.s.watches
      BY <1>1 DEF Reordered, SolverType
    <3>5. PICK e : e = Swapped(d, 2, k)
      OBVIOUS
    <3>6. PICK v : v = Append(u.s.watches[Neg(d[k])], moved)
      OBVIOUS
    <3>7. PICK z : z = [[u.s EXCEPT !.clause[w.ref] = e] EXCEPT !.watches[Neg(d[k])] = v]
      OBVIOUS
    <3>8. z = [t EXCEPT !.clause[w.ref] = e, !.watches[Neg(d[k])] = Append(@, moved)]
      <4>1. [[u.s.clause EXCEPT ![w.ref] = d] EXCEPT ![w.ref] = e] = [u.s.clause EXCEPT ![w.ref] = e]
        OBVIOUS
      <4>2. t.clause = [u.s.clause EXCEPT ![w.ref] = d]
        BY <1>1 DEF Reordered, SolverType
      <4>3. PICK f, g : f = [u.s.clause EXCEPT ![w.ref] = e] /\ g = [u.s.watches EXCEPT ![Neg(d[k])] = v]
        OBVIOUS
      <4>4. z = [u.s EXCEPT !.clause = f, !.watches = g]
        BY <1>1, <3>7, <4>3 DEF SolverType
      <4>5. t = [u.s EXCEPT !.clause = t.clause]
        BY <1>1, <4>2 DEF Reordered, SolverType
      <4>6. [t EXCEPT !.clause[w.ref] = e, !.watches[Neg(d[k])] = Append(@, moved)] = [t EXCEPT !.clause = f, !.watches = g]
        BY <3>4, <3>6, <4>1, <4>2, <4>3
      <4>7. [t EXCEPT !.clause = f, !.watches = g] = [u.s EXCEPT !.clause = f, !.watches = g]
        BY <1>1, <4>5 DEF SolverType
      <4> QED BY <4>4, <4>6, <4>7
    <3>9. x = [u EXCEPT !.s = z]
      BY <2>3, <2>5, <3>1, <3>5, <3>8 DEF Swapped
    <3>10. x = [s |-> z, kept |-> u.kept, confl |-> NoClause]
      BY <1>1, <1>3, <3>9
    <3>11. ~False(u.s, d[k])
      BY <3>3, <3>4 DEF False
    <3>12. Moving(u, p, w, w.ref, d, k, e, v, z, x)
      BY <3>3, <3>5, <3>6, <3>7, <3>10, <3>11 DEF Moving
    <3> QED BY <1>3, <3>12 DEF VisitCase
  <2>6. CASE ~True(t, d[1]) /\ NewWatches(t, d) = {}
    <3>1. \A k \in 3..Len(d) : False(t, d[k])
      BY <2>6 DEF NewWatches
    <3>2. CASE False(t, d[1])
      <4>1. x = [stays EXCEPT !.confl = w.ref, !.s.qhead = Len(t.trail)]
        BY <2>3, <2>6, <3>2
      <4>2. x = VisitResult(AtEnd(t), Append(u.kept, moved), w.ref)
        BY <2>2, <4>1 DEF VisitResult, AtEnd
      <4> QED BY <1>3, <3>1, <3>2, <4>2 DEF VisitCase
    <3>3. CASE ~False(t, d[1])
      <4>1. x = [stays EXCEPT !.s = Enqueue(t, d[1], w.ref)]
        BY <2>3, <2>6, <3>3
      <4>2. x = VisitResult(Enqueue(t, d[1], w.ref), Append(u.kept, moved), u.confl)
        BY <2>2, <4>1 DEF VisitResult
      <4> QED BY <1>3, <2>6, <3>1, <3>3, <4>2 DEF VisitCase
    <3> QED BY <3>2, <3>3
  <2> QED BY <2>4, <2>5, <2>6
<1> QED BY <1>2, <1>3

\* One watcher: Visiting is kept.
LEMMA VisitOne ==
  ASSUME NEW s, NEW p, NEW ws, AtLiteral(s, p, ws), NEW i \in 0..Len(ws), i # Len(ws),
         NEW u, Visiting(u, s, p, ws, i), NEW w, w = ws[i + 1], NEW x, x = Visit(u, w, p)
  PROVE  Visiting(x, s, p, ws, i + 1)
<1>1. PICK d : d = FalseSecond(u.s.clause[w.ref], Neg(p))
  OBVIOUS
<1>2. PICK t : t = Reordered(u.s, w.ref, d)
  OBVIOUS
<1>0. Turns(s, u, p, w, d, t)
  BY <1>1, <1>2, TurnedIs
<1>3. /\ Books(t) /\ Extends(u.s, t) /\ t.watches = u.s.watches /\ t.qhead = u.s.qhead
      /\ t.trail = u.s.trail /\ t.assigned = u.s.assigned
      /\ w \in Watcher /\ w.ref \in DOMAIN t.clause /\ t.clause[w.ref] = d /\ d \in ClauseSeq /\ d[2] = Neg(p)
      /\ p \in AllLits /\ OnTrail(t, p) /\ Lv(t, s.qhead) = Len(t.lim)
  BY <1>0 DEF Turns
<1>4. SameWatched(u.s, t) /\ Preserves(u.s, t)
  BY <1>0 DEF Turns
<1>7. u \in VisitType /\ Books(u.s) /\ Typed(u.s) /\ u.s.watches[p] = ws /\ Typed(t) /\ u.confl \in Nat
      /\ (u.s.qhead = IF u.confl = NoClause THEN s.qhead ELSE Len(u.s.trail)) /\ (u.confl # NoClause => Falsified(u.s, u.confl))
      /\ Extends(s, u.s)
  BY <1>3, BooksAre DEF Visiting, VisitType
<1>8. w.ref \in DOMAIN u.s.clause /\ Len(d) \in Nat /\ (\A k \in 1..Len(d) : d[k] \in AllLits) /\ Len(d) >= 2
      /\ 1 \in 1..Len(d) /\ 2 \in 1..Len(d)
  BY <1>3, ClauseIs DEF Extends
<1>9. PICK moved : moved = [ref |-> w.ref, blocker |-> d[1]]
  OBVIOUS
<1>10. moved \in Watcher /\ moved.ref = w.ref /\ moved.blocker = d[1]
  BY <1>3, <1>8, <1>9 DEF Watcher
<1>11. InClause(t, w.ref, d[1])
  BY <1>3, <1>8 DEF InClause
<1>12. \A k \in 1..Len(d) : Usable(t, d[k])
  <2>1. Within(t, UsableLits(t))
    BY <1>3, BooksAre
  <2> QED BY <1>3, <2>1 DEF Within, UsableLits
<1>13. NoClause \in Nat
  BY DEF NoClause
<1>14. Lv(u.s, s.qhead) = Len(u.s.lim)
  <2>1. s.qhead \in 1..Len(s.trail) /\ Lv(s, s.qhead) = Len(s.lim)
    BY DEF AtLiteral
  <2> QED BY <1>7, <2>1 DEF Extends, Grows
<1>15. CASE (u.confl # NoClause \/ True(u.s, w.blocker)) /\ x = VisitResult(u.s, Append(u.kept, w), u.confl)
  <2>1. PICK y : y = u.s
    OBVIOUS
  <2>2. Books(y) /\ Extends(y, y) /\ Typed(y)
    BY <1>7, <2>1, ExtendsSelf
  <2>3. ASSUME u.confl = NoClause PROVE AwakeAt(y, w.ref, s.qhead)
    <3>1. True(y, w.blocker) /\ w.blocker \in y.assigned
      BY <1>15, <2>1, <2>3 DEF True
    <3>2. (\A j \in 1..Len(ws) : ws[j] \in Watcher) /\ Len(ws) \in Nat
      BY LenProperties DEF AtLiteral
    <3>3. i + 1 \in 1..Len(ws) /\ i + 1 \in (i + 1)..Len(ws) /\ i \in Nat
      BY <3>2
    <3>4. BlockerOK(y, w)
      <4>1. ListOK(y, p, ws, i, u.kept)
        BY <2>1 DEF Visiting
      <4> QED BY <3>3, <4>1 DEF ListOK
    <3>5. Usable(y, w.blocker) /\ w.blocker \in AllLits
      <4>1. Within(y, UsableLits(y)) /\ y.watches[p] = ws
        BY <1>7, <2>1, <2>2, BooksAre
      <4> QED BY <1>3, <3>3, <4>1 DEF Within, UsableLits, Usable
    <3>6. OnTrail(y, w.blocker) /\ ~OnTrail(y, Neg(w.blocker))
      BY <2>2, <3>1, <3>5, TrueIsOnTrail
    <3>7. InClause(y, w.ref, w.blocker)
      BY <3>4, <3>6 DEF BlockerOK, AtRoot, OnTrail
    <3> QED BY <1>14, <2>1, <2>2, <3>6, <3>7, TrueAwake
  <2>4. x = [s |-> y, kept |-> Append(u.kept, w), confl |-> u.confl]
    BY <1>15, <2>1 DEF VisitResult
  <2>5. /\ y.watches = u.s.watches /\ Books(y) /\ Extends(u.s, y)
        /\ SameWatched(u.s, y) /\ Preserves(u.s, y)
        /\ (y.qhead = IF u.confl = NoClause THEN s.qhead ELSE Len(y.trail))
        /\ (u.confl # NoClause => Falsified(y, u.confl))
        /\ (u.confl = NoClause => u.confl = NoClause /\ AwakeAt(y, ws[i + 1].ref, s.qhead))
    BY <1>7, <2>1, <2>2, <2>3 DEF SameWatched, Preserves
  <2>6. w = ws[i + 1] /\ w \in Watcher /\ u.confl \in Nat
    BY <1>3, <1>7
  <2> QED BY <2>4, <2>5, <2>6, VisitStays
<1>16. CASE u.confl = NoClause /\ True(t, d[1]) /\ x = VisitResult(t, Append(u.kept, moved), u.confl)
  <2>1. x = [s |-> t, kept |-> Append(u.kept, moved), confl |-> NoClause]
    BY <1>16 DEF VisitResult
  <2>2. OnTrail(t, d[1])
    BY <1>3, <1>8, <1>12, <1>16, TrueIsOnTrail
  <2>3. AwakeAt(t, w.ref, s.qhead)
    BY <1>3, <1>11, <2>2, TrueAwake
  <2>4. t.qhead = IF NoClause = NoClause THEN s.qhead ELSE Len(t.trail)
    BY <1>3, <1>7, <1>16
  <2>5. NoClause # NoClause => Falsified(t, NoClause)
    OBVIOUS
  <2>6. NoClause = NoClause => u.confl = NoClause /\ AwakeAt(t, ws[i + 1].ref, s.qhead)
    BY <1>16, <2>3
  <2>7. moved = ws[i + 1] \/ (moved.ref = ws[i + 1].ref /\ InClause(t, moved.ref, moved.blocker))
    BY <1>10, <1>11
  <2> QED BY <1>3, <1>4, <1>10, <1>13, <2>1, <2>4, <2>5, <2>6, <2>7, VisitStays
<1>17. CASE u.confl = NoClause /\ \E k, e, v, z : Moving(u, p, w, w.ref, d, k, e, v, z, x)
  <2>1. PICK k, e, v, z : Moving(u, p, w, w.ref, d, k, e, v, z, x)
    BY <1>17
  <2>2. Moving(u, p, ws[i + 1], w.ref, d, k, e, v, z, x)
    BY <2>1
  <2> QED BY <1>17, <2>2, VisitMoves
<1>18. CASE /\ u.confl = NoClause /\ False(t, d[1]) /\ \A k \in 3..Len(d) : False(t, d[k])
            /\ x = VisitResult(AtEnd(t), Append(u.kept, moved), w.ref)
  <2>1. PICK y : y = AtEnd(t)
    OBVIOUS
  <2>2. t.qhead \in Nat /\ Len(t.trail) \in Nat /\ t.qhead <= Len(t.trail)
    BY <1>3, <1>7, TypedIs, BooksAre DEF TrailOK
  <2>3. Len(t.trail) \in t.qhead..Len(t.trail)
    BY <2>2
  <2>4. PICK n : n = Len(t.trail)
    OBVIOUS
  <2>5. y = [t EXCEPT !.qhead = n]
    BY <2>1, <2>4 DEF AtEnd
  <2>6. /\ Books(y) /\ Extends(t, y)
        /\ y.clause = t.clause /\ y.trail = t.trail /\ y.qhead = n /\ y.watches = t.watches /\ y.level = t.level
    BY <1>3, <2>3, <2>4, <2>5, QueueBooks
  <2>7. \A r, q : Watched(y, r, q) <=> Watched(t, r, q)
    BY <2>6 DEF Watched
  <2>8. ASSUME NEW m, Means(t, m) PROVE Means(y, m)
    BY <2>6, <2>8 DEF Means, Lv
  <2>9. Falsified(y, w.ref)
    <3>1. ASSUME NEW k \in 1..Len(d) PROVE OnTrail(t, Neg(d[k]))
      <4>1. k = 2 \/ k = 1 \/ k \in 3..Len(d)
        BY <1>8
      <4>2. CASE k = 2
        <5>1. Neg(d[2]) = p
          BY <1>3, Literals
        <5> QED BY <1>3, <4>2, <5>1
      <4>3. CASE k # 2
        <5>1. False(t, d[k])
          BY <1>18, <4>1, <4>3
        <5> QED BY <1>3, <1>8, <1>12, <5>1, TrueIsOnTrail
      <4> QED BY <4>2, <4>3
    <3>2. \A q : OnTrail(y, q) <=> OnTrail(t, q)
      BY <2>6 DEF OnTrail
    <3> QED BY <1>3, <2>6, <3>1, <3>2 DEF Falsified
  <2>10. w.ref # NoClause /\ w.ref \in Nat
    BY <1>3, <1>7, TypedIs
  <2>11. x = [s |-> y, kept |-> Append(u.kept, moved), confl |-> w.ref]
    BY <1>18, <2>1 DEF VisitResult
  <2>12. Extends(u.s, y)
    BY <1>3, <1>7, <2>6, BooksAre, ExtendsTwice
  <2>13. moved = ws[i + 1] \/ (moved.ref = ws[i + 1].ref /\ InClause(y, moved.ref, moved.blocker))
    BY <1>10, <1>11, <2>6 DEF InClause
  <2>14. /\ y.watches = u.s.watches /\ Books(y) /\ Extends(u.s, y)
         /\ SameWatched(u.s, y) /\ Preserves(u.s, y)
         /\ (y.qhead = IF w.ref = NoClause THEN s.qhead ELSE Len(y.trail))
         /\ (w.ref # NoClause => Falsified(y, w.ref))
         /\ (w.ref = NoClause => u.confl = NoClause /\ AwakeAt(y, ws[i + 1].ref, s.qhead))
    <3>1. SameWatched(u.s, y) /\ Preserves(u.s, y)
      BY <1>4, <2>6, <2>7, <2>8 DEF SameWatched, Preserves
    <3> QED BY <1>3, <2>4, <2>6, <2>9, <2>10, <2>12, <3>1
  <2> QED BY <1>10, <2>10, <2>11, <2>13, <2>14, VisitStays
<1>19. CASE /\ u.confl = NoClause /\ ~True(t, d[1]) /\ ~False(t, d[1]) /\ \A k \in 3..Len(d) : False(t, d[k])
            /\ x = VisitResult(Enqueue(t, d[1], w.ref), Append(u.kept, moved), u.confl)
  <2>1. PICK y : y = Enqueue(t, d[1], w.ref)
    OBVIOUS
  <2>2. w.ref # NoClause /\ w.ref \in Nat
    BY <1>3, <1>7, TypedIs
  <2>3. Open(t, d[1][1]) /\ d[1] \in AllLits /\ Usable(t, d[1])
    <3>1. d[1] \in AllLits /\ d[1][1] \in Vars
      BY <1>8, Literals
    <3> QED BY <1>7, <1>8, <1>12, <1>19, <3>1, OpenIs
  <2>4. Implies1(t, w.ref, d[1])
    <3>1. ASSUME NEW k \in 2..Len(d) PROVE OnTrail(t, Neg(d[k]))
      <4>1. k \in 1..Len(d) /\ (k = 2 \/ k \in 3..Len(d))
        BY <1>8
      <4>2. CASE k = 2
        <5>1. Neg(d[2]) = p
          BY <1>3, Literals
        <5> QED BY <1>3, <4>2, <5>1
      <4>3. CASE k # 2
        <5>1. False(t, d[k])
          BY <1>19, <4>1, <4>3
        <5> QED BY <1>3, <1>8, <1>12, <4>1, <5>1, TrueIsOnTrail
      <4> QED BY <4>2, <4>3
    <3> QED BY <1>3, <3>1 DEF Implies1
  <2>5. /\ Books(y) /\ Extends(t, y) /\ OnTrail(y, d[1])
        /\ y.watches = t.watches /\ y.clause = t.clause /\ y.qhead = t.qhead
    BY <1>3, <2>1, <2>2, <2>3, <2>4, EnqueueExtends
  <2>6. Preserves(t, y)
    BY <1>3, <2>1, <2>2, <2>3, <2>4, EnqueueExtends
  <2>7. \A r, q : Watched(y, r, q) <=> Watched(t, r, q)
    BY <2>5 DEF Watched
  <2>8. AwakeAt(y, w.ref, s.qhead)
    <3>1. InClause(y, w.ref, d[1])
      BY <1>11, <2>5 DEF InClause
    <3>2. Lv(y, s.qhead) = Len(y.lim)
      <4>1. s.qhead \in 1..Len(t.trail)
        <5>1. s.qhead \in 1..Len(s.trail) /\ Typed(s)
          BY BooksAre DEF AtLiteral
        <5>2. Len(s.trail) <= Len(u.s.trail) /\ t.trail = u.s.trail
          BY <1>3, <1>7 DEF Extends, Grows
        <5>3. Len(s.trail) \in Nat /\ Len(u.s.trail) \in Nat
          BY <1>7, <5>1, TypedIs
        <5> QED BY <5>1, <5>2, <5>3
      <4> QED BY <1>3, <2>5, <4>1 DEF Extends, Grows
    <3> QED BY <2>5, <3>1, <3>2, TrueAwake
  <2>9. x = [s |-> y, kept |-> Append(u.kept, moved), confl |-> NoClause]
    BY <1>19, <2>1 DEF VisitResult
  <2>10. Extends(u.s, y)
    BY <1>3, <1>7, <2>5, BooksAre, ExtendsTwice
  <2>11. moved = ws[i + 1] \/ (moved.ref = ws[i + 1].ref /\ InClause(y, moved.ref, moved.blocker))
    BY <1>10, <1>11, <2>5 DEF InClause
  <2>12. /\ y.watches = u.s.watches /\ Books(y) /\ Extends(u.s, y)
         /\ SameWatched(u.s, y) /\ Preserves(u.s, y)
         /\ (y.qhead = IF NoClause = NoClause THEN s.qhead ELSE Len(y.trail))
         /\ (NoClause # NoClause => Falsified(y, NoClause))
         /\ (NoClause = NoClause => u.confl = NoClause /\ AwakeAt(y, ws[i + 1].ref, s.qhead))
    <3>1. SameWatched(u.s, y) /\ Preserves(u.s, y)
      BY <1>4, <2>5, <2>6, <2>7 DEF SameWatched, Preserves
    <3> QED BY <1>3, <1>7, <1>19, <2>5, <2>8, <2>10, <3>1
  <2> QED BY <1>10, <1>13, <2>9, <2>11, <2>12, VisitStays
<1>20. VisitCase(u, w, p, d, t, moved, x)
  BY <1>1, <1>2, <1>7, <1>8, <1>9, VisitCases
<1> QED BY <1>15, <1>16, <1>17, <1>18, <1>19, <1>20 DEF VisitCase

-----------------------------------------------------------------------------
(* propagate(): all watchers of all literals.                              *)

\* Before the first watcher.
LEMMA VisitStart ==
  ASSUME NEW s, NEW p, NEW ws, AtLiteral(s, p, ws), WatchesOK(s), s.watches[p] = ws,
         NEW x, x = VisitResult(s, <<>>, NoClause)
  PROVE  Visiting(x, s, p, ws, 0)
<1>1. Books(s) /\ Typed(s) /\ p \in AllLits /\ ws \in Seq(Watcher)
  BY BooksAre DEF AtLiteral
<1>2. x.s = s /\ x.kept = <<>> /\ x.confl = NoClause
  BY DEF VisitResult
<1>3. x \in [s : SolverType, kept : Seq(Watcher), confl : Nat]
  <2>1. s \in SolverType /\ <<>> \in Seq(Watcher) /\ NoClause \in Nat
    BY <1>1, TypedIs, EmptySeq DEF NoClause
  <2> QED BY <2>1 DEF VisitResult
<1>4. Extends(s, s)
  BY <1>1, ExtendsSelf
<1>5. Len(ws) \in Nat /\ \A j \in 1..Len(ws) : j \in (0 + 1)..Len(ws)
  <2>1. Len(ws) \in Nat
    BY <1>1, LenProperties
  <2> QED BY <2>1
<1>6. WatchedBy(s, p, ws)
  BY <1>1 DEF WatchesOK
<1>7. ListOK(s, p, ws, 0, <<>>)
  <2>1. Len(<<>>) = 0 /\ <<>> \in Seq(Watcher) /\ ~\E k : k \in 1..0
    BY EmptySeq
  <2>2. \A j \in (0 + 1)..Len(ws) : j \in 1..Len(ws)
    BY <1>5
  <2>3. \A r : Watched(s, r, Neg(p)) => \E j \in (0 + 1)..Len(ws) : ws[j].ref = r
    BY <1>5, <1>6 DEF WatchedBy, Watched
  <2> QED BY <1>6, <2>1, <2>2, <2>3 DEF ListOK, WatchedBy
<1>8. \A r \in DOMAIN s.clause : AwakeAt(s, r, s.qhead) \/ \E j \in (0 + 1)..Len(ws) : ws[j].ref = r
  <2> SUFFICES ASSUME NEW r \in DOMAIN s.clause, ~AwakeAt(s, r, s.qhead) PROVE \E j \in (0 + 1)..Len(ws) : ws[j].ref = r
    OBVIOUS
  <2>1. PICK k \in {1, 2} : s.trail[s.qhead] = Neg(s.clause[r][k])
    BY DEF AwakeAt
  <2>2. s.clause[r][k] \in AllLits
    BY <1>1, TypedIs, ClauseIs
  <2>3. Neg(p) = s.clause[r][k]
    BY <2>1, <2>2, Literals DEF AtLiteral
  <2>4. Watched(s, r, Neg(p))
    BY <2>3 DEF Watched
  <2> QED BY <1>5, <1>6, <2>4 DEF WatchedBy
<1>9. \A q \in AllLits : q # p => WatchedBy(s, q, s.watches[q])
  BY DEF WatchesOK
<1>10. \A k \in 1..Len(<<>>) : FALSE
  OBVIOUS
<1> QED BY <1>1, <1>2, <1>3, <1>4, <1>7, <1>8, <1>9, <1>10 DEF Visiting

\* All watchers of p.
LEMMA VisitAll ==
  ASSUME NEW s, NEW p, NEW ws, AtLiteral(s, p, ws), NEW b, Visiting(b, s, p, ws, 0), NEW x, x = Visited(b, p, ws)
  PROVE  Visiting(x, s, p, ws, Len(ws))
<1>1. PICK N \in Nat : N = Len(ws)
  BY LenProperties DEF AtLiteral
<1>2. PICK f : Rounds(f, "visit", p, b, ws, x)
  BY <1>1, VisitRounds
<1>3. f[0] = b /\ f[N] = x /\ \A i \in 1..N : f[i] = Visit(f[i - 1], ws[i], p)
  BY <1>1, <1>2 DEF Rounds, Stepped
<1> DEFINE Q == {i \in 0..N : Visiting(f[i], s, p, ws, i)}
<1>4. 0 \in Q
  BY <1>3
<1>5. \A i \in 0..N : i \in Q /\ i # N => i + 1 \in Q
  <2> SUFFICES ASSUME NEW i \in 0..N, i \in Q, i # N PROVE i + 1 \in Q
    OBVIOUS
  <2>1. i + 1 \in 1..N /\ i + 1 \in 0..N /\ (i + 1) - 1 = i
    OBVIOUS
  <2>2. PICK u, w, y : u = f[i] /\ w = ws[i + 1] /\ y = f[i + 1]
    OBVIOUS
  <2>3. y = Visit(u, w, p)
    BY <1>3, <2>1, <2>2
  <2>4. Visiting(u, s, p, ws, i)
    BY <2>2
  <2>5. i \in 0..Len(ws) /\ i # Len(ws)
    BY <1>1
  <2>6. Visiting(y, s, p, ws, i + 1)
    BY <2>2, <2>3, <2>4, <2>5, VisitOne
  <2> QED BY <2>1, <2>2, <2>6
<1> HIDE DEF Q
<1>6. 0..N \subseteq Q
  BY <1>4, <1>5, UpTo
<1>7. N \in Q
  BY <1>6
<1> QED BY <1>1, <1>3, <1>7 DEF Q

\* What holds in the loop of propagate(), which started with s.
Propagating(x, s) ==
  /\ x \in VisitType /\ Books(x.s) /\ Extends(s, x.s) /\ WatchesOK(x.s)
  /\ x.confl # NoClause => Falsified(x.s, x.confl) /\ x.s.qhead = Len(x.s.trail)
  /\ AwakeTo(s, s.qhead) => AwakeTo(x.s, IF x.confl = NoClause THEN x.s.qhead ELSE Bottom(x.s))
  /\ \A L : Within(s, L) => Within(x.s, L)
  /\ Preserves(s, x.s)

\* One round of propagate(): all watchers of a literal.
LEMMA PropagateLitIs ==
  ASSUME NEW s, Books(s), NEW x, Propagating(x, s), x.s.qhead < Len(x.s.trail), NEW y, y = PropagateLit(x)
  PROVE  Propagating(y, s) /\ y.s.qhead > x.s.qhead
<1>1. PICK t : t = x.s
  OBVIOUS
<1>2. /\ Books(t) /\ Typed(t) /\ Extends(s, t) /\ WatchesOK(t) /\ Typed(s)
      /\ t.qhead \in Nat /\ Len(t.trail) \in Nat /\ t.qhead < Len(t.trail) /\ x.confl = NoClause
      /\ (AwakeTo(s, s.qhead) => AwakeTo(t, t.qhead)) /\ Preserves(s, t)
  <2>1. Books(t) /\ Typed(t) /\ Extends(s, t) /\ WatchesOK(t) /\ Typed(s) /\ Preserves(s, t)
    BY <1>1, BooksAre DEF Propagating
  <2>2. t.qhead \in Nat /\ Len(t.trail) \in Nat /\ t.qhead < Len(t.trail)
    BY <1>1, <2>1, TypedIs
  <2>3. x.confl = NoClause
    BY <1>1, <2>2 DEF Propagating
  <2> QED BY <1>1, <2>1, <2>2, <2>3 DEF Propagating
<1>3. PICK h : h = t.qhead + 1
  OBVIOUS
<1>4. h \in 1..Len(t.trail) /\ h \in t.qhead..Len(t.trail) /\ h - 1 = t.qhead /\ h \in Nat /\ h > t.qhead
  BY <1>2, <1>3
<1>5. PICK a : a = [t EXCEPT !.qhead = h]
  OBVIOUS
<1>6. /\ Books(a) /\ Extends(t, a)
      /\ a.clause = t.clause /\ a.trail = t.trail /\ a.qhead = h /\ a.watches = t.watches /\ a.level = t.level /\ a.lim = t.lim
  BY <1>2, <1>4, <1>5, QueueBooks
<1>7. PICK p : p = t.trail[h]
  OBVIOUS
<1>8. PICK ws : ws = t.watches[p]
  OBVIOUS
<1>9. p \in AllLits /\ ws \in Seq(Watcher) /\ WatchedBy(t, p, ws) /\ Typed(a)
  <2>1. p \in AllLits
    BY <1>2, <1>4, <1>7, TypedIs
  <2> QED BY <1>2, <1>6, <1>8, <2>1, TypedIs, BooksAre DEF WatchesOK
<1>10. \A i \in 1..Len(t.trail) : Lv(a, i) = Lv(t, i)
  BY <1>6 DEF Lv
<1>11. WatchesOK(a)
  <2>1. \A q : AtRoot(t, q) => AtRoot(a, q)
    BY <1>6, <1>10 DEF AtRoot
  <2> QED BY <1>2, <1>6, <2>1, SameWatches
<1>12. AwakeTo(s, s.qhead) => AwakeTo(a, a.qhead - 1)
  <2>1. AwakeTo(s, s.qhead) => AwakeTo(a, t.qhead)
    BY <1>2, <1>6, SameAwake
  <2> QED BY <1>4, <1>6, <2>1
<1>13. Lv(a, h) = Len(a.lim)
  <2>1. LevelsOK(t)
    BY <1>2, BooksAre
  <2>2. Len(t.lim) \in Nat /\ Lv(t, h) \in Nat /\ \A l \in 1..Len(t.lim) : t.lim[l] \in Nat
    BY <1>2, <1>4, TypedIs
  <2>3. Lv(t, h) <= Len(t.lim)
    BY <1>4, <2>1 DEF LevelsOK
  <2>4. Lv(t, h) >= Len(t.lim)
    <3>1. CASE Len(t.lim) = 0
      BY <2>2, <3>1
    <3>2. CASE Len(t.lim) # 0
      <4>1. Len(t.lim) \in 1..Len(t.lim)
        BY <2>2, <3>2
      <4>2. t.lim[Len(t.lim)] <= t.qhead
        BY <2>1, <4>1 DEF LevelsOK
      <4>3. h > t.lim[Len(t.lim)]
        <5>1. PICK z, n : z = t.lim[Len(t.lim)] /\ n = t.qhead
          OBVIOUS
        <5>2. z \in Nat /\ n \in Nat /\ z <= n /\ h = n + 1
          BY <1>2, <1>3, <2>2, <4>1, <4>2, <5>1
        <5>3. h > z
          BY <5>2
        <5> QED BY <5>1, <5>3
      <4> QED BY <1>4, <2>1, <4>1, <4>3 DEF LevelsOK
    <3> QED BY <3>1, <3>2
  <2>5. Lv(t, h) = Len(t.lim)
    BY <2>2, <2>3, <2>4
  <2> QED BY <1>4, <1>6, <1>10, <2>5
<1>14. AtLiteral(a, p, ws)
  <2>1. DistinctRefs(ws)
    BY <1>9 DEF WatchedBy, DistinctRefs
  <2> QED BY <1>4, <1>6, <1>7, <1>9, <1>13, <2>1 DEF AtLiteral
<1>15. PICK b : b = VisitResult(a, <<>>, NoClause)
  OBVIOUS
<1>16. Visiting(b, a, p, ws, 0)
  BY <1>6, <1>8, <1>11, <1>14, <1>15, VisitStart
<1>17. PICK z : z = Visited(b, p, ws)
  OBVIOUS
<1>18. Visiting(z, a, p, ws, Len(ws))
  BY <1>14, <1>16, <1>17, VisitAll
<1>19. PICK c, kept : c = z.s /\ kept = z.kept
  OBVIOUS
<1>20. /\ z \in VisitType /\ kept \in Seq(Watcher) /\ z.confl \in Nat
       /\ Books(c) /\ Typed(c) /\ Extends(a, c) /\ c.watches[p] = ws
       /\ c.qhead = (IF z.confl = NoClause THEN h ELSE Len(c.trail))
       /\ \A q \in AllLits : q # p => WatchedBy(c, q, c.watches[q])
       /\ ListOK(c, p, ws, Len(ws), kept)
       /\ z.confl # NoClause => Falsified(c, z.confl)
       /\ (AwakeTo(s, s.qhead) => AwakeTo(c, h - 1))
       /\ z.confl = NoClause =>
            \A r \in DOMAIN c.clause : AwakeAt(c, r, h) \/ \E j \in (Len(ws) + 1)..Len(ws) : ws[j].ref = r
       /\ \A L : Within(a, L) => Within(c, L) /\ \A k \in 1..Len(kept) : kept[k].blocker \in L
       /\ Preserves(a, c)
  BY <1>6, <1>12, <1>18, <1>19, BooksAre DEF Visiting, VisitType, Preserves
<1>21. \A L : Within(t, L) => Within(a, L)
  BY <1>6 DEF Within
<1>22. Preserves(t, a)
  BY <1>6, <1>10 DEF Preserves, Means
<1>23. PICK d : d = WithList(c, p, kept)
  OBVIOUS
<1>24. y = VisitResult(d, kept, z.confl)
  <2>1. y = [Visited(b, p, ws) EXCEPT !.s.watches[p] = Visited(b, p, ws).kept]
    <3>1. a = [x.s EXCEPT !.qhead = @ + 1]
      BY <1>1, <1>3, <1>5
    <3>2. b = [s |-> [x.s EXCEPT !.qhead = @ + 1], kept |-> <<>>, confl |-> NoClause]
      BY <1>15, <3>1 DEF VisitResult
    <3>3. p = x.s.trail[x.s.qhead + 1]
      BY <1>1, <1>3, <1>7
    <3>4. y = [Visited([s |-> [x.s EXCEPT !.qhead = @ + 1], kept |-> <<>>, confl |-> NoClause],
                       x.s.trail[x.s.qhead + 1], x.s.watches[x.s.trail[x.s.qhead + 1]])
                 EXCEPT !.s.watches[x.s.trail[x.s.qhead + 1]] =
                   Visited([s |-> [x.s EXCEPT !.qhead = @ + 1], kept |-> <<>>, confl |-> NoClause],
                           x.s.trail[x.s.qhead + 1], x.s.watches[x.s.trail[x.s.qhead + 1]]).kept]
      BY Zenon DEF PropagateLit, Visited
    <3> QED BY <1>1, <1>8, <3>2, <3>3, <3>4
  <2>2. z = [s |-> c, kept |-> kept, confl |-> z.confl]
    BY <1>19, <1>20 DEF VisitType
  <2> QED BY <1>17, <1>19, <1>23, <2>1, <2>2 DEF VisitResult, WithList
<1>25. /\ Books(d) /\ Extends(c, d)
       /\ d.clause = c.clause /\ d.trail = c.trail /\ d.level = c.level /\ d.lim = c.lim
       /\ d.qhead = c.qhead
       /\ d.watches[p] = kept /\ \A q \in AllLits : q # p => d.watches[q] = c.watches[q]
  <2>1. \A k \in 1..Len(kept) : Usable(c, kept[k].blocker)
    <3>1. Within(a, UsableLits(a))
      BY <1>6, BooksAre
    <3>2. \A k \in 1..Len(kept) : kept[k].blocker \in UsableLits(a)
      BY <1>20, <3>1
    <3>3. \A q : Usable(a, q) => Usable(c, q)
      BY <1>20 DEF Extends, Usable, IsFree
    <3> QED BY <3>2, <3>3 DEF UsableLits
  <2> QED BY <1>9, <1>20, <1>23, <2>1, WatchesBooks
<1>26. Typed(d)
  BY <1>25, BooksAre
<1>27. \A q : AtRoot(c, q) => AtRoot(d, q)
  BY <1>25 DEF AtRoot, Lv
<1>28. /\ \A r, q : Watched(c, r, q) <=> Watched(d, r, q)
       /\ \A w : BlockerOK(c, w) => BlockerOK(d, w)
  BY <1>25, <1>27 DEF Watched, BlockerOK, InClause
<1>29. Len(ws) \in Nat /\ ~\E j : j \in (Len(ws) + 1)..Len(ws)
  <2>1. Len(ws) \in Nat
    BY <1>9, LenProperties
  <2> QED BY <2>1
<1>30. WatchesOK(d)
  <2> SUFFICES ASSUME NEW q \in AllLits PROVE WatchedBy(d, q, d.watches[q])
    BY DEF WatchesOK
  <2>1. CASE q = p
    <3>1. WatchedBy(d, p, kept)
      BY <1>20, <1>28, <1>29 DEF ListOK, WatchedBy
    <3> QED BY <1>25, <2>1, <3>1
  <2>2. CASE q # p
    <3>1. PICK v : v = c.watches[q]
      OBVIOUS
    <3>2. WatchedBy(c, q, v)
      BY <1>20, <2>2, <3>1
    <3>3. WatchedBy(d, q, v)
      BY <1>25, <1>28, <3>2 DEF WatchedBy
    <3> QED BY <1>25, <2>2, <3>1, <3>3
  <2> QED BY <2>1, <2>2
<1>31. Extends(s, d) /\ Extends(s, c)
  <2>1. Extends(s, a)
    BY <1>2, <1>6, <1>9, ExtendsTwice
  <2>2. Extends(s, c)
    BY <1>2, <1>9, <1>20, <2>1, ExtendsTwice
  <2> QED BY <1>2, <1>20, <1>25, <1>26, <2>2, ExtendsTwice
<1>32. Preserves(s, d)
  <2>1. Preserves(c, d)
    BY <1>25 DEF Preserves, Means, Lv
  <2> QED BY <1>2, <1>20, <1>22, <2>1 DEF Preserves
<1>33. ASSUME NEW L, Within(s, L) PROVE Within(d, L)
  <2>1. Within(c, L) /\ \A k \in 1..Len(kept) : kept[k].blocker \in L
    <3>1. Within(t, L)
      BY <1>1, <1>33 DEF Propagating
    <3> QED BY <1>20, <1>21, <3>1
  <2>2. \A r \in DOMAIN d.clause : \A k \in 1..Len(d.clause[r]) : d.clause[r][k] \in L
    BY <1>25, <2>1 DEF Within
  <2>3. ASSUME NEW q \in AllLits PROVE \A k \in 1..Len(d.watches[q]) : d.watches[q][k].blocker \in L
    <3>1. CASE q = p
      BY <1>25, <2>1, <3>1
    <3>2. CASE q # p
      BY <1>25, <2>1, <3>2 DEF Within
    <3> QED BY <3>1, <3>2
  <2> QED BY <2>2, <2>3 DEF Within
<1>34. y.s = d /\ y.confl = z.confl /\ y \in VisitType
  BY <1>20, <1>24, <1>26, TypedIs DEF VisitResult, VisitType
<1>35. ASSUME y.confl = NoClause, AwakeTo(s, s.qhead) PROVE AwakeTo(d, d.qhead)
  <2>1. c.qhead = h
    BY <1>20, <1>34, <1>35
  <2>2. \A r \in DOMAIN c.clause : AwakeAt(c, r, h)
    BY <1>20, <1>29, <1>34, <1>35
  <2>3. \A j \in 1..h : j \in 1..(h - 1) \/ j = h
    BY <1>4
  <2>4. AwakeTo(c, h)
    BY <1>20, <1>35, <2>2, <2>3 DEF AwakeTo
  <2> QED BY <1>25, <2>1, <2>4, SameAwake
<1>36. ASSUME y.confl # NoClause
       PROVE  Falsified(d, y.confl) /\ d.qhead = Len(d.trail) /\ (AwakeTo(s, s.qhead) => AwakeTo(d, Bottom(d)))
  <2>1. Falsified(c, z.confl) /\ c.qhead = Len(c.trail)
    BY <1>20, <1>34, <1>36
  <2>2. Falsified(d, z.confl)
    BY <1>25, <2>1 DEF Falsified, OnTrail
  <2>3. Bottom(d) = Bottom(t)
    BY <1>6, <1>20, <1>25 DEF Extends, Bottom
  <2>4. Bottom(t) \in Nat /\ Bottom(t) <= h - 1
    BY <1>2, <1>4, BottomIs
  <2>5. \A j \in 1..Bottom(t) : j \in 1..(h - 1)
    BY <1>4, <2>4
  <2>6. AwakeTo(s, s.qhead) => AwakeTo(c, Bottom(t))
    BY <1>20, <2>5 DEF AwakeTo
  <2> QED BY <1>25, <1>34, <2>1, <2>2, <2>3, <2>6, SameAwake
<1>37. Propagating(y, s)
  BY <1>25, <1>30, <1>31, <1>32, <1>33, <1>34, <1>35, <1>36 DEF Propagating
<1>38. y.s.qhead > x.s.qhead
  <2>1. CASE z.confl = NoClause
    BY <1>1, <1>4, <1>20, <1>25, <1>34, <2>1
  <2>2. CASE z.confl # NoClause
    <3>1. Len(t.trail) <= Len(c.trail) /\ Len(c.trail) \in Nat
      BY <1>6, <1>20, TypedIs DEF Extends, Grows
    <3>2. y.s.qhead = Len(c.trail)
      BY <1>20, <1>25, <1>34, <2>2
    <3> QED BY <1>1, <1>2, <3>1, <3>2
  <2> QED BY <2>1, <2>2
<1> QED BY <1>37, <1>38

\* The trail has no more literals than there are variables.
LEMMA TrailShort ==
  ASSUME NEW s, Books(s)
  PROVE  Len(s.trail) <= MaxVars
<1>1. Typed(s) /\ TrailOK(s)
  BY BooksAre
<1>2. Len(s.trail) \in Nat /\ \A i \in 1..Len(s.trail) : s.trail[i][1] \in Vars
  BY <1>1, TypedIs
<1>3. PICK n \in Nat : n = Len(s.trail)
  BY <1>2
<1> DEFINE f == [i \in 1..n |-> s.trail[i][1]]
<1>4. f \in [1..n -> Vars] /\ \A i, j \in 1..n : f[i] = f[j] => i = j
  BY <1>1, <1>2, <1>3 DEF TrailOK
<1>5. f \in Injection(1..n, Vars)
  BY <1>4 DEF Injection, IsInjective
<1> HIDE DEF f
<1>6. IsFiniteSet(Vars) /\ Cardinality(Vars) = MaxVars
  <2>1. MaxVars \in Nat /\ Vars = 0..(MaxVars - 1) /\ 0 \in Int /\ MaxVars - 1 \in Int
    BY Bounds
  <2>2. IsFiniteSet(Vars) /\ Cardinality(Vars) = IF 0 > MaxVars - 1 THEN 0 ELSE (MaxVars - 1) - 0 + 1
    BY <2>1, FS_Interval
  <2> QED BY <2>1, <2>2
<1>7. Cardinality(1..n) <= Cardinality(Vars)
  BY <1>5, <1>6, FS_Injection
<1>8. Cardinality(1..n) = n
  <2>1. Cardinality(1..n) = IF 1 > n THEN 0 ELSE n - 1 + 1
    BY FS_Interval
  <2> QED BY <2>1
<1> QED BY <1>3, <1>6, <1>7, <1>8

\* propagate(): nothing is left in the queue, and unless there is a conflict no
\* clause is overlooked.
LEMMA PropagateIs ==
  ASSUME NEW s, Books(s), WatchesOK(s), NEW x, x = Propagate(s)
  PROVE  Propagating(x, s) /\ x.s.qhead = Len(x.s.trail)
<1>1. Typed(s)
  BY BooksAre
<1>2. PICK b : b = VisitResult(s, <<>>, NoClause)
  OBVIOUS
<1>3. b.s = s /\ b.confl = NoClause
  BY <1>2 DEF VisitResult
<1>4. Propagating(b, s)
  <2>1. b \in VisitType
    BY <1>1, <1>2, TypedIs, EmptySeq DEF VisitResult, VisitType, NoClause
  <2>2. Extends(s, s) /\ Preserves(s, s)
    BY <1>1, ExtendsSelf DEF Preserves
  <2> QED BY <1>3, <2>1, <2>2 DEF Propagating
<1>5. PICK N \in Nat : N = MaxVars
  BY Bounds
<1>6. PICK seq : seq = [i \in 1..N |-> i]
  OBVIOUS
<1>7. Len(seq) = N
  BY <1>6
<1>8. PICK f : Rounds(f, "round", 0, b, seq, x)
  BY <1>2, <1>5, <1>6, PropagateRounds DEF VisitResult
<1>9. f[0] = b /\ f[N] = x
      /\ \A i \in 1..N : f[i] = IF f[i - 1].s.qhead < Len(f[i - 1].s.trail) THEN PropagateLit(f[i - 1]) ELSE f[i - 1]
  BY <1>7, <1>8 DEF Rounds, Stepped
<1> DEFINE Good(y, i) == Propagating(y, s) /\ (y.s.qhead < Len(y.s.trail) => y.s.qhead >= i)
           Q == {i \in 0..N : Good(f[i], i)}
<1>10. ASSUME NEW y, Propagating(y, s)
       PROVE  Books(y.s) /\ y.s.qhead \in Nat /\ Len(y.s.trail) \in Nat /\ y.s.qhead <= Len(y.s.trail) /\ Len(y.s.trail) <= N
  <2>1. PICK z : z = y.s
    OBVIOUS
  <2>2. Books(z) /\ Typed(z) /\ TrailOK(z)
    BY <1>10, <2>1, BooksAre DEF Propagating
  <2>3. z.qhead \in Nat /\ Len(z.trail) \in Nat /\ z.qhead <= Len(z.trail) /\ Len(z.trail) <= MaxVars
    BY <2>2, TypedIs, TrailShort DEF TrailOK
  <2> QED BY <1>5, <2>1, <2>2, <2>3
<1>11. 0 \in Q
  BY <1>4, <1>9, <1>10
<1>12. \A i \in 0..N : i \in Q /\ i # N => i + 1 \in Q
  <2> SUFFICES ASSUME NEW i \in 0..N, i \in Q, i # N PROVE i + 1 \in Q
    OBVIOUS
  <2>1. i + 1 \in 1..N /\ i + 1 \in 0..N /\ (i + 1) - 1 = i /\ i \in Nat
    OBVIOUS
  <2>2. PICK u, y : u = f[i] /\ y = f[i + 1]
    OBVIOUS
  <2>3. y = IF u.s.qhead < Len(u.s.trail) THEN PropagateLit(u) ELSE u
    BY <1>9, <2>1, <2>2
  <2>4. Good(u, i)
    BY <2>2
  <2>5. Good(y, i + 1)
    <3>1. CASE u.s.qhead < Len(u.s.trail)
      <4>1. Propagating(y, s) /\ y.s.qhead > u.s.qhead
        BY <2>3, <2>4, <3>1, PropagateLitIs
      <4>2. u.s.qhead >= i /\ u.s.qhead \in Nat /\ y.s.qhead \in Nat
        BY <1>10, <2>4, <3>1, <4>1
      <4>3. y.s.qhead >= i + 1
        BY <2>1, <4>1, <4>2
      <4> QED BY <4>1, <4>3
    <3>2. CASE ~(u.s.qhead < Len(u.s.trail))
      BY <2>3, <2>4, <3>2
    <3> QED BY <3>1, <3>2
  <2> QED BY <2>1, <2>2, <2>5
<1> HIDE DEF Q
<1>13. 0..N \subseteq Q
  BY <1>11, <1>12, UpTo
<1>14. N \in Q
  BY <1>13
<1>15. Good(x, N)
  BY <1>9, <1>14 DEF Q
<1>16. x.s.qhead = Len(x.s.trail)
  BY <1>10, <1>15
<1> QED BY <1>15, <1>16

-----------------------------------------------------------------------------
(* removeClause()                                                          *)

\* v is ws without the watcher of clause r.
LosesWatcher(v, ws, r) ==
  /\ v \in Seq(Watcher)
  /\ \A i \in 1..Len(v) : v[i].ref # r /\ \E k \in 1..Len(ws) : ws[k] = v[i]
  /\ \A k \in 1..Len(ws) : ws[k].ref # r => \E i \in 1..Len(v) : v[i] = ws[k]

\* A watch list without the watcher of clause r.
LEMMA UnwatchedIs ==
  ASSUME NEW ws \in Seq(Watcher), NEW r, NEW v, v = Unwatched(ws, r)
  PROVE  LosesWatcher(v, ws, r)
<1>1. PICK S : S = {w \in Range(ws) : w.ref # r}
  OBVIOUS
<1>2. v = Only(ws, S)
  BY <1>1 DEF Unwatched
<1>3. v \in Seq(Watcher)
  BY <1>2, OnlyHas
<1>4. \A i \in 1..Len(v) : v[i] \in S /\ \E k \in 1..Len(ws) : ws[k] = v[i]
  BY <1>2, OnlyHas
<1>5. \A k \in 1..Len(ws) : ws[k] \in S => \E i \in 1..Len(v) : v[i] = ws[k]
  BY SMTT(30), <1>2, OnlyHas
<1>6. \A k \in 1..Len(ws) : ws[k] \in Range(ws)
  BY SeqIs
<1>7. \A i \in 1..Len(v) : v[i].ref # r
  BY <1>1, <1>4
<1>8. \A k \in 1..Len(ws) : ws[k].ref # r => ws[k] \in S
  BY <1>1, <1>6
<1>9. \A k \in 1..Len(ws) : ws[k].ref # r => \E i \in 1..Len(v) : v[i] = ws[k]
  BY <1>5, <1>8
<1> QED BY <1>3, <1>4, <1>7, <1>9 DEF LosesWatcher

\* What is left of a list has each clause once.
LEMMA UnwatchedApart ==
  ASSUME NEW ws \in Seq(Watcher), DistinctRefs(ws), NEW r, NEW v, v = Unwatched(ws, r)
  PROVE  DistinctRefs(v)
<1>1. PICK S : S = {w \in Range(ws) : w.ref # r}
  OBVIOUS
<1>2. v = Only(ws, S)
  BY <1>1 DEF Unwatched
<1>3. \A i, j \in 1..Len(ws) : ws[i] = ws[j] => i = j
  BY DEF DistinctRefs
<1>4. \A i, j \in 1..Len(v) : v[i] = v[j] => i = j
  BY <1>2, <1>3, OnlyApart
<1>5. \A i \in 1..Len(v) : \E k \in 1..Len(ws) : ws[k] = v[i]
  BY UnwatchedIs DEF LosesWatcher
<1> QED BY <1>4, <1>5 DEF DistinctRefs

\* t is s without the clauses R.
Removes(s, t, R) ==
  /\ DOMAIN t.clause = DOMAIN s.clause \ R /\ t.learnts = s.learnts \ R
  /\ \A x \in DOMAIN t.clause : t.clause[x] = s.clause[x]
  /\ t.trail = s.trail /\ t.lim = s.lim /\ t.qhead = s.qhead /\ t.assigned = s.assigned /\ t.level = s.level
  /\ t.heap = s.heap /\ t.ok = s.ok /\ t.nextVar = s.nextVar /\ t.released = s.released /\ t.free = s.free
  /\ \A v \in Vars : t.reason[v] = s.reason[v] \/ t.reason[v] = NoClause
  /\ (\A r \in R : ~Locked(s, r)) => t.reason = s.reason
  /\ \A L : Within(s, L) => Within(t, L)

\* Removing clauses, and then more of them.
LEMMA RemovesTwice ==
  ASSUME NEW s, NEW t, NEW u, NEW R, NEW Q, NEW P, P = R \cup Q, R \subseteq DOMAIN s.clause, Q \subseteq DOMAIN t.clause,
         Removes(s, t, R), Removes(t, u, Q)
  PROVE  Removes(s, u, P)
<1>1. DOMAIN u.clause = DOMAIN s.clause \ P /\ u.learnts = s.learnts \ P
  BY DEF Removes
<1>2. \A x \in DOMAIN u.clause : u.clause[x] = s.clause[x]
  BY DEF Removes
<1>3. /\ u.trail = s.trail /\ u.lim = s.lim /\ u.qhead = s.qhead /\ u.assigned = s.assigned /\ u.level = s.level
      /\ u.heap = s.heap /\ u.ok = s.ok /\ u.nextVar = s.nextVar /\ u.released = s.released /\ u.free = s.free
  BY DEF Removes
<1>4. \A v \in Vars : u.reason[v] = s.reason[v] \/ u.reason[v] = NoClause
  BY DEF Removes
<1>5. ASSUME \A r \in P : ~Locked(s, r) PROVE u.reason = s.reason
  <2>1. t.reason = s.reason
    BY <1>5 DEF Removes
  <2>2. \A r \in Q : Locked(t, r) => Locked(s, r)
    <3>1. \A r \in Q : t.clause[r] = s.clause[r]
      BY DEF Removes
    <3>2. t.assigned = s.assigned
      BY DEF Removes
    <3> QED BY <2>1, <3>1, <3>2 DEF Locked, True
  <2>3. u.reason = t.reason
    BY <1>5, <2>2 DEF Removes
  <2> QED BY <2>1, <2>3
<1>6. \A L : Within(s, L) => Within(u, L)
  BY DEF Removes
<1> QED BY <1>1, <1>2, <1>3, <1>4, <1>5, <1>6 DEF Removes

\* removeClause()
LEMMA RemoveBooks ==
  ASSUME NEW s, Books(s), WatchesOK(s), NEW r \in DOMAIN s.clause, NEW t, t = RemoveClause(s, r)
  PROVE  Books(t) /\ WatchesOK(t) /\ Removes(s, t, {r})
<1>0. Typed(s) /\ TrailOK(s) /\ LevelsOK(s) /\ ReasonsOK(s) /\ HeapOK(s) /\ FreeOK(s) /\ Within(s, UsableLits(s))
  BY BooksAre
<1>1. s \in SolverType /\ s.clause[r] \in ClauseSeq /\ s.watches \in [AllLits -> Seq(Watcher)] /\ s.reason \in [Vars -> Nat]
  BY <1>0, TypedIs DEF SolverType
<1>2. PICK k : k = [x \in DOMAIN s.clause \ {r} |-> s.clause[x]]
  OBVIOUS
<1>3. PICK w : w = [p \in AllLits |-> Unwatched(s.watches[p], r)]
  OBVIOUS
<1>4. PICK e : e = IF Locked(s, r) THEN [s.reason EXCEPT ![s.clause[r][1][1]] = NoClause] ELSE s.reason
  OBVIOUS
<1>5. t = [s EXCEPT !.clause = k, !.learnts = s.learnts \ {r}, !.watches = w, !.reason = e]
  <2>1. DOMAIN s.watches = AllLits
    BY <1>1
  <2> QED BY <1>1, <1>2, <1>3, <1>4, <2>1 DEF RemoveClause, SolverType
<1>6. /\ t.clause = k /\ t.learnts = s.learnts \ {r} /\ t.watches = w /\ t.reason = e
      /\ t.trail = s.trail /\ t.lim = s.lim /\ t.qhead = s.qhead /\ t.assigned = s.assigned /\ t.level = s.level
      /\ t.heap = s.heap /\ t.ok = s.ok /\ t.nextVar = s.nextVar /\ t.released = s.released /\ t.free = s.free
  BY <1>1, <1>5 DEF SolverType
<1>7. DOMAIN k = DOMAIN s.clause \ {r} /\ \A x \in DOMAIN k : k[x] = s.clause[x]
  BY <1>2
<1>8. k \in UNION {[D -> ClauseSeq] : D \in SUBSET (Nat \ {0})}
  <2>1. s.clause \in UNION {[D -> ClauseSeq] : D \in SUBSET (Nat \ {0})}
    BY <1>1 DEF SolverType
  <2>2. PICK D \in SUBSET (Nat \ {0}) : s.clause \in [D -> ClauseSeq]
    BY <2>1
  <2>3. k \in [D \ {r} -> ClauseSeq] /\ D \ {r} \in SUBSET (Nat \ {0})
    BY <1>2, <2>2
  <2> QED BY <2>3
<1>9. ASSUME NEW p \in AllLits
      PROVE  /\ w[p] = Unwatched(s.watches[p], r) /\ s.watches[p] \in Seq(Watcher)
             /\ LosesWatcher(w[p], s.watches[p], r)
  <2>1. w[p] = Unwatched(s.watches[p], r) /\ s.watches[p] \in Seq(Watcher)
    BY <1>1, <1>3
  <2> QED BY <2>1, UnwatchedIs
<1>10. w \in [AllLits -> Seq(Watcher)]
  <2>1. \A p \in AllLits : Unwatched(s.watches[p], r) \in Seq(Watcher)
    BY <1>9 DEF LosesWatcher
  <2> QED BY <1>3, <2>1
<1>11. e \in [Vars -> Nat] /\ \A v \in Vars : e[v] = s.reason[v] \/ e[v] = NoClause
  BY <1>1, <1>4 DEF NoClause
<1>12. t \in SolverType
  <2>1. s.learnts \ {r} \in SUBSET Nat
    BY <1>1 DEF SolverType
  <2> QED BY <1>1, <1>5, <1>8, <1>10, <1>11, <2>1 DEF SolverType
<1>13. Typed(t)
  <2>1. IsFiniteSet(DOMAIN s.clause \ {r})
    BY <1>0, FS_Difference, FS_Singleton DEF Typed
  <2> QED BY <1>0, <1>6, <1>7, <1>12, <2>1 DEF Typed
<1>14. \A x : (Open(t, x) <=> Open(s, x)) /\ (IsFree(t, x) <=> IsFree(s, x))
  BY <1>6 DEF Open, IsFree
<1>15. \A p : (Usable(t, p) <=> Usable(s, p)) /\ (OnTrail(t, p) <=> OnTrail(s, p))
  BY <1>6, <1>14 DEF Usable, OnTrail
<1>16. \A i : Lv(t, i) = Lv(s, i)
  BY <1>6 DEF Lv
<1>17. TrailOK(t)
  BY <1>0, <1>6, <1>14, <1>15 DEF TrailOK
<1>18. LevelsOK(t)
  BY <1>0, <1>6, <1>16 DEF LevelsOK
<1>19. ReasonsOK(t)
  <2> SUFFICES ASSUME NEW i \in 1..Len(s.trail), e[s.trail[i][1]] # NoClause
               PROVE  Explains(t, e[s.trail[i][1]], i)
    BY <1>6 DEF ReasonsOK
  <2>1. s.trail[i] \in AllLits /\ s.trail[i][1] \in Vars
    BY <1>0, TypedIs
  <2>2. e[s.trail[i][1]] = s.reason[s.trail[i][1]]
    BY <1>11, <2>1
  <2>3. PICK x : x = s.reason[s.trail[i][1]]
    OBVIOUS
  <2>4. Explains(s, x, i)
    BY <1>0, <2>2, <2>3 DEF ReasonsOK
  <2>5. x # r
    <3> SUFFICES ASSUME x = r PROVE FALSE
      OBVIOUS
    <3>1. s.clause[r][1] = s.trail[i]
      BY <2>4 DEF Explains
    <3>2. s.trail[i] \in s.assigned
      BY <1>0 DEF TrailOK
    <3>3. Locked(s, r)
      BY <2>3, <3>1, <3>2 DEF Locked, True
    <3>4. e[s.trail[i][1]] = NoClause
      BY <1>1, <1>4, <2>1, <3>1, <3>3
    <3> QED BY <3>4
  <2>6. x \in DOMAIN t.clause /\ t.clause[x] = s.clause[x]
    BY <1>6, <1>7, <2>4, <2>5 DEF Explains
  <2>7. t.trail = s.trail
    BY <1>6
  <2>8. Explains(t, x, i)
    BY <2>4, <2>6, <2>7 DEF Explains
  <2> QED BY <2>2, <2>3, <2>8
<1>20. HeapOK(t)
  BY <1>0, <1>6, <1>14 DEF HeapOK
<1>21. FreeOK(t)
  BY <1>0, <1>6, <1>14 DEF FreeOK
<1>22. ASSUME NEW L, Within(s, L) PROVE Within(t, L)
  <2>1. \A x \in DOMAIN t.clause : \A i \in 1..Len(t.clause[x]) : t.clause[x][i] \in L
    BY <1>6, <1>7, <1>22 DEF Within
  <2>2. ASSUME NEW p \in AllLits PROVE \A i \in 1..Len(t.watches[p]) : t.watches[p][i].blocker \in L
    BY SMTT(30), <1>6, <1>9, <1>22 DEF Within, LosesWatcher
  <2> QED BY <2>1, <2>2 DEF Within
<1>23. Within(t, UsableLits(t))
  <2>1. UsableLits(t) = UsableLits(s)
    BY <1>15 DEF UsableLits
  <2> QED BY <1>0, <1>22, <2>1
<1>24. Books(t)
  BY <1>13, <1>17, <1>18, <1>19, <1>20, <1>21, <1>23 DEF Books
<1>25. Removes(s, t, {r})
  <2>1. (\A x \in {r} : ~Locked(s, x)) => t.reason = s.reason
    BY <1>4, <1>6
  <2> QED BY <1>6, <1>7, <1>11, <1>22, <2>1 DEF Removes
<1>26. WatchesOK(t)
  <2> SUFFICES ASSUME NEW p \in AllLits PROVE WatchedBy(t, p, t.watches[p])
    BY DEF WatchesOK
  <2>1. PICK ws, v : ws = s.watches[p] /\ v = w[p]
    OBVIOUS
  <2>2. /\ v = Unwatched(ws, r) /\ ws \in Seq(Watcher) /\ v \in Seq(Watcher)
        /\ \A i \in 1..Len(v) : v[i].ref # r /\ \E h \in 1..Len(ws) : ws[h] = v[i]
        /\ \A h \in 1..Len(ws) : ws[h].ref # r => \E i \in 1..Len(v) : v[i] = ws[h]
    BY <1>9, <2>1 DEF LosesWatcher
  <2>3. WatchedBy(s, p, ws)
    BY <2>1 DEF WatchesOK
  <2>4. \A x, q : x # r => (Watched(t, x, q) <=> Watched(s, x, q))
    BY <1>6, <1>7 DEF Watched
  <2>5. ASSUME NEW b, BlockerOK(s, b), b.ref # r, b.ref \in DOMAIN s.clause PROVE BlockerOK(t, b)
    <3>1. InClause(s, b.ref, b.blocker) => InClause(t, b.ref, b.blocker)
      BY <1>6, <1>7, <2>5 DEF InClause
    <3>2. AtRoot(s, Neg(b.blocker)) => AtRoot(t, Neg(b.blocker))
      BY <1>6, <1>16 DEF AtRoot
    <3> QED BY <2>5, <3>1, <3>2 DEF BlockerOK
  <2>6. \A i \in 1..Len(v) : Watched(t, v[i].ref, Neg(p)) /\ BlockerOK(t, v[i])
    <3> SUFFICES ASSUME NEW i \in 1..Len(v) PROVE Watched(t, v[i].ref, Neg(p)) /\ BlockerOK(t, v[i])
      OBVIOUS
    <3>1. PICK h \in 1..Len(ws) : ws[h] = v[i]
      BY <2>2
    <3>2. Watched(s, v[i].ref, Neg(p)) /\ BlockerOK(s, v[i]) /\ v[i].ref # r
      BY <2>2, <2>3, <3>1 DEF WatchedBy
    <3>3. v[i].ref \in DOMAIN s.clause
      BY <3>2 DEF Watched
    <3> QED BY <2>4, <2>5, <3>2, <3>3
  <2>7. \A i, j \in 1..Len(v) : v[i].ref = v[j].ref => i = j
    <3>1. DistinctRefs(ws)
      BY <2>3 DEF WatchedBy, DistinctRefs
    <3>2. DistinctRefs(v)
      BY <2>2, <3>1, UnwatchedApart
    <3> QED BY <3>2 DEF DistinctRefs
  <2>8. ASSUME NEW x \in DOMAIN t.clause, Watched(t, x, Neg(p)) PROVE \E i \in 1..Len(v) : v[i].ref = x
    <3>1. x # r /\ x \in DOMAIN s.clause
      BY <1>6, <1>7
    <3>2. PICK h \in 1..Len(ws) : ws[h].ref = x
      BY <2>3, <2>4, <2>8, <3>1 DEF WatchedBy
    <3> QED BY <2>2, <3>1, <3>2
  <2>9. WatchedBy(t, p, v)
    BY <2>6, <2>7, <2>8 DEF WatchedBy
  <2> QED BY <1>6, <2>1, <2>9
<1> QED BY <1>24, <1>25, <1>26

\* Removing nothing.
LEMMA RemovesNone ==
  ASSUME NEW s, Typed(s)
  PROVE  Removes(s, s, {})
  BY TypedIs DEF Removes

\* reduceDB() and removeSatisfied() remove clauses one by one.
LEMMA RemoveClausesIs ==
  ASSUME NEW s, Books(s), WatchesOK(s), NEW rs, rs \subseteq DOMAIN s.clause, NEW t, t = RemoveClauses(s, rs)
  PROVE  Books(t) /\ WatchesOK(t) /\ Removes(s, t, rs)
<1>1. Typed(s)
  BY BooksAre
<1>2. IsFiniteSet(rs)
  BY <1>1, FS_Subset DEF Typed
<1>3. PICK seq : seq = SetToSeq(rs)
  OBVIOUS
<1>4. PICK N : N = Cardinality(rs)
  OBVIOUS
<1>5. N \in Nat
  BY <1>2, <1>4, FS_CardinalityType
<1>6. seq \in Seq(rs) /\ Len(seq) = N
  BY <1>2, <1>3, <1>4, SetToSeqIs
<1>7. \A x \in rs : \E i \in 1..N : seq[i] = x
  BY <1>2, <1>3, <1>4, SetToSeqIs
<1>8. \A i, j \in 1..N : seq[i] = seq[j] => i = j
  BY <1>2, <1>3, <1>4, SetToSeqIs
<1>9. \A i \in 1..N : seq[i] \in rs
  BY <1>6, LenProperties
<1>10. t = Removed(s, seq)
  BY <1>3 DEF RemoveClauses, Removed
<1>11. Len(seq) \in Nat
  BY <1>5, <1>6
<1>12. PICK f : Rounds(f, "remove", 0, s, seq, t)
  BY <1>10, <1>11, RemoveRounds
<1>13. f[0] = s /\ f[N] = t /\ \A i \in 1..N : f[i] = RemoveClause(f[i - 1], seq[i])
  BY <1>6, <1>12 DEF Rounds, Stepped
<1> DEFINE Past(i) == {seq[j] : j \in 1..i}
           Good(y, i) == Books(y) /\ WatchesOK(y) /\ Removes(s, y, Past(i))
           Q == {i \in 0..N : Good(f[i], i)}
<1>14. 0 \in Q
  <2>1. Past(0) = {}
    OBVIOUS
  <2>2. Good(s, 0)
    BY <1>1, <2>1, RemovesNone
  <2> QED BY <1>5, <1>13, <2>2
<1>15. \A i \in 0..N : i \in Q /\ i # N => i + 1 \in Q
  <2> SUFFICES ASSUME NEW i \in 0..N, i \in Q, i # N PROVE i + 1 \in Q
    OBVIOUS
  <2>1. i + 1 \in 1..N /\ i + 1 \in 0..N /\ (i + 1) - 1 = i /\ i \in Nat
    BY <1>5
  <2>2. PICK u, y, r : u = f[i] /\ y = f[i + 1] /\ r = seq[i + 1]
    OBVIOUS
  <2>3. y = RemoveClause(u, r)
    BY <1>13, <2>1, <2>2
  <2>4. Good(u, i)
    BY <2>2
  <2>5. \A j \in 1..i : j \in 1..N /\ j # i + 1
    BY <1>5
  <2>6. r \in DOMAIN s.clause /\ r \notin Past(i)
    BY <1>8, <1>9, <2>1, <2>2, <2>5
  <2>7. r \in DOMAIN u.clause
    BY <2>4, <2>6 DEF Removes
  <2>8. Books(y) /\ WatchesOK(y) /\ Removes(u, y, {r})
    BY <2>3, <2>4, <2>7, RemoveBooks
  <2>9. Past(i + 1) = Past(i) \cup {r}
    <3>1. \A j : j \in 1..(i + 1) <=> j \in 1..i \/ j = i + 1
      BY <2>1
    <3> QED BY <2>2, <3>1
  <2>10. Past(i) \subseteq DOMAIN s.clause /\ {r} \subseteq DOMAIN u.clause
    BY <1>9, <2>5, <2>7
  <2>11. Removes(s, y, Past(i + 1))
    <3> HIDE DEF Past
    <3> QED BY <2>4, <2>8, <2>9, <2>10, RemovesTwice
  <2> QED BY <2>1, <2>2, <2>8, <2>11
<1> HIDE DEF Q
<1>16. 0..N \subseteq Q
  BY <1>5, <1>14, <1>15, UpTo
<1>17. N \in Q
  BY <1>5, <1>16
<1>18. Good(t, N)
  BY <1>13, <1>17 DEF Q
<1>19. Past(N) = rs
  BY <1>7, <1>9
<1> QED BY <1>18, <1>19

\* What holds when clauses are gone.
LEMMA RemovesKeeps ==
  ASSUME NEW s, NEW t, NEW R, Removes(s, t, R)
  PROVE  /\ Preserves(s, t)
         /\ \A n : AwakeTo(s, n) => AwakeTo(t, n)
         /\ \A p : (OnTrail(t, p) <=> OnTrail(s, p)) /\ (AtRoot(t, p) <=> AtRoot(s, p)) /\ (Usable(t, p) <=> Usable(s, p))
         /\ \A v : (Open(t, v) <=> Open(s, v))
         /\ \A i : Lv(t, i) = Lv(s, i)
<1>1. /\ t.trail = s.trail /\ t.lim = s.lim /\ t.qhead = s.qhead /\ t.assigned = s.assigned /\ t.level = s.level
      /\ t.heap = s.heap /\ t.ok = s.ok /\ t.nextVar = s.nextVar /\ t.released = s.released /\ t.free = s.free
      /\ DOMAIN t.clause = DOMAIN s.clause \ R
      /\ \A x \in DOMAIN t.clause : t.clause[x] = s.clause[x]
  BY DEF Removes
<1>2. \A i : Lv(t, i) = Lv(s, i)
  BY <1>1 DEF Lv
<1>3. \A v : (Open(t, v) <=> Open(s, v)) /\ (IsFree(t, v) <=> IsFree(s, v))
  BY <1>1 DEF Open, IsFree
<1>4. \A p : (OnTrail(t, p) <=> OnTrail(s, p)) /\ (AtRoot(t, p) <=> AtRoot(s, p)) /\ (Usable(t, p) <=> Usable(s, p))
  BY <1>1, <1>2, <1>3 DEF OnTrail, AtRoot, Usable
<1>5. Preserves(s, t)
  <2> SUFFICES ASSUME NEW m \in Models, Means(s, m) PROVE Means(t, m)
    BY DEF Preserves
  <2>1. \A r \in DOMAIN t.clause : \E k \in 1..Len(t.clause[r]) : t.clause[r][k] \in m
    BY <1>1 DEF Means
  <2>2. \A i \in 1..Len(t.trail) : Lv(t, i) = 0 => t.trail[i] \in m
    BY <1>1, <1>2 DEF Means
  <2> QED BY <2>1, <2>2 DEF Means
<1>6. ASSUME NEW n, AwakeTo(s, n) PROVE AwakeTo(t, n)
  <2> SUFFICES ASSUME NEW r \in DOMAIN t.clause, NEW j \in 1..n PROVE AwakeAt(t, r, j)
    BY DEF AwakeTo
  <2>1. AwakeAt(s, r, j)
    BY <1>1, <1>6 DEF AwakeTo
  <2>2. \A p : InClause(t, r, p) <=> InClause(s, r, p)
    BY <1>1 DEF InClause
  <2> SUFFICES ASSUME NEW k \in {1, 2}, t.trail[j] = Neg(t.clause[r][k])
               PROVE  \E i \in 1..Len(t.trail) : InClause(t, r, t.trail[i]) /\ Lv(t, i) <= Lv(t, j)
    BY DEF AwakeAt
  <2>3. s.trail[j] = Neg(s.clause[r][k])
    BY <1>1
  <2>4. PICK i \in 1..Len(s.trail) : InClause(s, r, s.trail[i]) /\ Lv(s, i) <= Lv(s, j)
    BY <2>1, <2>3 DEF AwakeAt
  <2> QED BY <1>1, <1>2, <2>2, <2>4
<1> QED BY <1>2, <1>3, <1>4, <1>5, <1>6

\* d is c without some literals, none of which is watched or not false.
Trimmed(s, d, c) ==
  /\ d \in ClauseSeq /\ d[1] = c[1] /\ d[2] = c[2]
  /\ \A i \in 1..Len(d) : \E k \in 1..Len(c) : c[k] = d[i]
  /\ \A k \in 1..Len(c) : (\E i \in 1..Len(d) : d[i] = c[k]) \/ False(s, c[k])
  /\ \A i \in 3..Len(d) : ~False(s, d[i])

\* removeSatisfied() of one clause.
LEMMA TrimIs ==
  ASSUME NEW s, NEW c \in ClauseSeq, NEW d, d = Trim(s, c)
  PROVE  Trimmed(s, d, c)
<1>1. PICK S : S = {c[1], c[2]} \cup {p \in Range(c) : ~False(s, p)}
  OBVIOUS
<1>2. /\ c \in Seq(AllLits) /\ Len(c) \in Nat /\ Len(c) >= 2 /\ 1 \in 1..Len(c) /\ 2 \in 1..Len(c)
      /\ \A i, j \in 1..Len(c) : c[i][1] = c[j][1] => i = j
  BY ClauseIs
<1>3. d = Only(c, S)
  BY <1>1 DEF Trim
<1>4. d \in Seq(AllLits) /\ \E e : Picks(e, d, c, S, Len(c))
  BY <1>2, <1>3, OnlyIs
<1>5. PICK e : Picks(e, d, c, S, Len(c))
  BY <1>4
<1>6. PICK M \in Nat : M = Len(d)
  BY <1>4, LenProperties
<1>7. PICK N \in Nat : N = Len(c)
  BY <1>2
<1>8. \A i \in 1..M : e[i] \in 1..N /\ d[i] = c[e[i]] /\ d[i] \in S
  BY <1>5, <1>6, <1>7 DEF Picks
<1>9. \A i, j \in 1..M : i < j => e[i] < e[j]
  BY <1>5, <1>6 DEF Picks
<1>10. \A k \in 1..N : c[k] \in S => \E i \in 1..M : e[i] = k
  BY <1>5, <1>6, <1>7 DEF Picks
<1>11. 1 \in 1..N /\ 2 \in 1..N /\ N >= 2
  BY <1>2, <1>7
<1>12. PICK i1 \in 1..M : e[i1] = 1
  BY <1>1, <1>10, <1>11
<1>13. PICK i2 \in 1..M : e[i2] = 2
  BY <1>1, <1>10, <1>11
<1>14. i1 = 1
  <2> SUFFICES ASSUME i1 # 1 PROVE FALSE
    OBVIOUS
  <2>1. 1 \in 1..M /\ 1 < i1
    OBVIOUS
  <2>2. e[1] < 1 /\ e[1] \in 1..N
    BY <1>8, <1>9, <1>12, <2>1
  <2> QED BY <2>2
<1>15. i2 = 2
  <2> SUFFICES ASSUME i2 # 2 PROVE FALSE
    OBVIOUS
  <2>1. i2 # 1
    BY <1>12, <1>13, <1>14
  <2>2. 2 \in 1..M /\ 2 < i2 /\ 1 \in 1..M /\ 1 < 2
    BY <2>1
  <2>3. e[2] < 2 /\ e[1] < e[2] /\ e[1] = 1 /\ e[2] \in 1..N
    BY <1>8, <1>9, <1>12, <1>13, <1>14, <2>2
  <2> QED BY <2>3
<1>16. d[1] = c[1] /\ d[2] = c[2] /\ M >= 2
  BY <1>8, <1>12, <1>13, <1>14, <1>15
<1>17. \A i, j \in 1..M : d[i][1] = d[j][1] => i = j
  <2> SUFFICES ASSUME NEW i \in 1..M, NEW j \in 1..M, d[i][1] = d[j][1], i # j PROVE FALSE
    OBVIOUS
  <2>1. e[i] = e[j] /\ e[i] \in 1..N /\ e[j] \in 1..N
    BY <1>2, <1>7, <1>8
  <2>2. i < j \/ j < i
    OBVIOUS
  <2>3. e[i] < e[j] \/ e[j] < e[i]
    BY <1>9, <2>2
  <2> QED BY <2>1, <2>3
<1>18. d \in ClauseSeq
  BY <1>4, <1>6, <1>16, <1>17 DEF ClauseSeq
<1>19. \A i \in 1..M : \E k \in 1..N : c[k] = d[i]
  BY <1>8
<1>20. ASSUME NEW k \in 1..N PROVE (\E i \in 1..M : d[i] = c[k]) \/ False(s, c[k])
  <2>1. c[k] \in Range(c)
    BY <1>2, <1>7, SeqIs
  <2>2. CASE c[k] \in S
    BY <1>8, <1>10, <2>2
  <2>3. CASE c[k] \notin S
    BY <1>1, <2>1, <2>3
  <2> QED BY <2>2, <2>3
<1>21. ASSUME NEW i \in 3..M PROVE ~False(s, d[i])
  <2>1. i \in 1..M /\ i # 1 /\ i # 2 /\ 1 \in 1..M /\ 2 \in 1..M
    BY <1>16
  <2>2. d[i] # d[1] /\ d[i] # d[2]
    BY <1>17, <2>1
  <2> QED BY <1>1, <1>8, <1>16, <2>1, <2>2
<1> QED BY <1>6, <1>7, <1>16, <1>18, <1>19, <1>20, <1>21 DEF Trimmed
=============================================================================
