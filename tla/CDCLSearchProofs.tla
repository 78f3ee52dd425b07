-------------------------- MODULE CDCLSearchProofs --------------------------
(***************************************************************************)
(* The search of the solver: what analyze() learns is implied, false but for *)
(* its first literal after the backjump, and every step of search() leaves *)
(* the solver in the state the next one needs.                             *)
(***************************************************************************)
EXTENDS CDCLProofs

-----------------------------------------------------------------------------
(* removeSatisfied()                                                       *)

\* t is s without the clauses that are satisfied, the others without false
\* literals; so no clause mentions a variable that has a value.
Cleaned(s, t) ==
  /\ t.trail = s.trail /\ t.lim = s.lim /\ t.qhead = s.qhead /\ t.assigned = s.assigned /\ t.level = s.level
  /\ t.heap = s.heap /\ t.ok = s.ok /\ t.nextVar = s.nextVar /\ t.released = s.released /\ t.free = s.free
  /\ DOMAIN t.clause \subseteq DOMAIN s.clause
  /\ t.learnts = s.learnts \cap DOMAIN t.clause
  /\ \A r \in DOMAIN t.clause : Trimmed(s, t.clause[r], s.clause[r])
  /\ \A r \in DOMAIN s.clause : r \in DOMAIN t.clause \/ \E k \in 1..Len(s.clause[r]) : AtRoot(s, s.clause[r][k])
  /\ \A r \in DOMAIN t.clause : \A k \in 1..Len(t.clause[r]) : ~True(s, t.clause[r][k]) /\ ~False(s, t.clause[r][k])
  /\ \A i \in 1..Len(s.trail) : t.reason[s.trail[i][1]] = NoClause

\* At level 0 all of the trail is.
LEMMA RootIs ==
  ASSUME NEW s, Books(s), Len(s.lim) = 0
  PROVE  /\ \A i \in 1..Len(s.trail) : Lv(s, i) = 0
         /\ \A p : OnTrail(s, p) <=> AtRoot(s, p)
         /\ \A p \in AllLits : Usable(s, p) => (True(s, p) <=> AtRoot(s, p)) /\ (False(s, p) <=> AtRoot(s, Neg(p)))
<1>1. Typed(s) /\ LevelsOK(s)
  BY BooksAre
<1>2. \A i \in 1..Len(s.trail) : Lv(s, i) \in Nat /\ Lv(s, i) <= 0
  BY <1>1, TypedIs DEF LevelsOK
<1>3. \A i \in 1..Len(s.trail) : Lv(s, i) = 0
  BY <1>2
<1>4. \A p : OnTrail(s, p) <=> AtRoot(s, p)
  BY <1>3 DEF OnTrail, AtRoot
<1>5. \A p \in AllLits : Usable(s, p) => (True(s, p) <=> AtRoot(s, p)) /\ (False(s, p) <=> AtRoot(s, Neg(p)))
  BY <1>4, TrueIsOnTrail
<1> QED BY <1>3, <1>4, <1>5

\* The assertion of removeSatisfied(): a clause that propagate() was woken for
\* and left with a false literal in front is true.
LEMMA TrimHolds ==
  ASSUME NEW s, Books(s), AwakeTo(s, Len(s.trail))
  PROVE  TrimDefined(s)
<1>1. Typed(s) /\ TrailOK(s) /\ Within(s, UsableLits(s))
  BY BooksAre
<1>2. ASSUME NEW r \in DOMAIN s.clause, NEW i \in {1, 2}, False(s, s.clause[r][i])
      PROVE  SatisfiedClause(s, r)
  <2>1. s.clause[r] \in ClauseSeq
    BY <1>1, TypedIs
  <2>2. DOMAIN s.clause[r] = 1..Len(s.clause[r]) /\ i \in 1..Len(s.clause[r])
    BY <2>1, ClauseIs
  <2>3. Usable(s, s.clause[r][i]) /\ s.clause[r][i] \in AllLits
    BY <1>1, <2>2 DEF Within, UsableLits
  <2>4. OnTrail(s, Neg(s.clause[r][i]))
    BY <1>2, <2>3, TrueIsOnTrail
  <2>5. PICK j \in 1..Len(s.trail) : s.trail[j] = Neg(s.clause[r][i])
    BY <2>4 DEF OnTrail
  <2>6. AwakeAt(s, r, j)
    BY DEF AwakeTo
  <2>7. PICK h \in 1..Len(s.trail) : InClause(s, r, s.trail[h])
    BY <2>5, <2>6 DEF AwakeAt
  <2>8. s.trail[h] \in s.assigned
    BY <1>1 DEF TrailOK
  <2> QED BY <2>2, <2>7, <2>8 DEF InClause, True, SatisfiedClause
<1> QED BY <1>2 DEF TrimDefined

\* removeSatisfied()
LEMMA RemoveSatisfiedIs ==
  ASSUME NEW s, Books(s), WatchesOK(s), Len(s.lim) = 0, AwakeTo(s, Len(s.trail)),
         NEW t, t = RemoveSatisfied(s)
  PROVE  Books(t) /\ WatchesOK(t) /\ Cleaned(s, t) /\ Preserves(s, t) /\ \A L : Within(s, L) => Within(t, L)
<1>0. Typed(s) /\ TrailOK(s) /\ LevelsOK(s) /\ Within(s, UsableLits(s))
  BY BooksAre
<1>1. PICK R : R = {r \in DOMAIN s.clause : SatisfiedClause(s, r)}
  OBVIOUS
<1>2. PICK u : u = RemoveClauses(s, R)
  OBVIOUS
<1>3. R \subseteq DOMAIN s.clause
  BY <1>1
<1>4. Books(u) /\ WatchesOK(u) /\ Removes(s, u, R)
  BY <1>2, <1>3, RemoveClausesIs
<1>5. Typed(u) /\ TrailOK(u) /\ LevelsOK(u) /\ ReasonsOK(u) /\ HeapOK(u) /\ FreeOK(u) /\ Within(u, UsableLits(u))
  BY <1>4, BooksAre
<1>6. /\ Preserves(s, u)
      /\ \A p : (OnTrail(u, p) <=> OnTrail(s, p)) /\ (AtRoot(u, p) <=> AtRoot(s, p)) /\ (Usable(u, p) <=> Usable(s, p))
      /\ \A i : Lv(u, i) = Lv(s, i)
  BY <1>4, RemovesKeeps
<1>7. /\ DOMAIN u.clause = DOMAIN s.clause \ R /\ u.learnts = s.learnts \ R
      /\ (\A x \in DOMAIN u.clause : u.clause[x] = s.clause[x])
      /\ u.trail = s.trail /\ u.lim = s.lim /\ u.qhead = s.qhead /\ u.assigned = s.assigned /\ u.level = s.level
      /\ u.heap = s.heap /\ u.ok = s.ok /\ u.nextVar = s.nextVar /\ u.released = s.released /\ u.free = s.free
      /\ \A L : Within(s, L) => Within(u, L)
  BY <1>4 DEF Removes
<1>8. PICK k : k = [r \in DOMAIN u.clause |-> Trim(s, u.clause[r])]
  OBVIOUS
<1>9. t = [u EXCEPT !.clause = k]
  <2>1. u \in SolverType
    BY <1>5, TypedIs
  <2> QED BY <1>1, <1>2, <1>8, <2>1 DEF RemoveSatisfied, SolverType
<1>10. DOMAIN k = DOMAIN u.clause /\ \A r \in DOMAIN u.clause : k[r] = Trim(s, u.clause[r])
  BY <1>8
<1>11. ASSUME NEW r \in DOMAIN u.clause PROVE Trimmed(s, k[r], s.clause[r]) /\ u.clause[r] = s.clause[r] /\ s.clause[r] \in ClauseSeq
  <2>1. u.clause[r] \in ClauseSeq /\ u.clause[r] = s.clause[r]
    BY <1>5, <1>7, TypedIs
  <2>2. PICK c : c = u.clause[r]
    OBVIOUS
  <2>3. Trimmed(s, k[r], c)
    BY <1>10, <2>1, <2>2, TrimIs
  <2> QED BY <2>1, <2>2, <2>3
<1>12. k \in UNION {[D -> ClauseSeq] : D \in SUBSET (Nat \ {0})}
  <2>1. \A r \in DOMAIN u.clause : Trim(s, u.clause[r]) \in ClauseSeq /\ r \in Nat \ {0}
    BY <1>5, <1>10, <1>11, TypedIs DEF Trimmed, NoClause
  <2>2. k \in [DOMAIN u.clause -> ClauseSeq]
    BY <1>8, <2>1
  <2> QED BY <2>1, <2>2
<1>13. /\ t.clause = k /\ t.learnts = u.learnts /\ t.watches = u.watches /\ t.reason = u.reason
       /\ t.trail = u.trail /\ t.lim = u.lim /\ t.qhead = u.qhead /\ t.assigned = u.assigned /\ t.level = u.level
       /\ t.heap = u.heap /\ t.ok = u.ok /\ t.nextVar = u.nextVar /\ t.released = u.released /\ t.free = u.free
       /\ t \in SolverType
  <2>1. u \in SolverType
    BY <1>5, TypedIs
  <2> QED BY <1>9, <1>12, <2>1 DEF SolverType
<1>14. Typed(t)
  BY <1>5, <1>10, <1>13 DEF Typed
<1>15. ASSUME NEW r \in DOMAIN u.clause, NEW i \in 1..Len(s.clause[r])
       PROVE  ~True(s, s.clause[r][i])
  <2>1. DOMAIN s.clause[r] = 1..Len(s.clause[r]) /\ r \in DOMAIN s.clause
    BY <1>7, <1>11, ClauseIs
  <2> QED BY <1>1, <1>7, <2>1 DEF SatisfiedClause
<1>16. \A p : (True(u, p) <=> True(s, p)) /\ (False(u, p) <=> False(s, p))
  BY <1>7 DEF True, False
<1>17. ASSUME NEW r \in DOMAIN u.clause, NEW i \in 1..Len(s.clause[r])
       PROVE  Usable(s, s.clause[r][i]) /\ s.clause[r][i] \in AllLits
  <2>1. r \in DOMAIN s.clause
    BY <1>7
  <2> QED BY <1>0, <2>1 DEF Within, UsableLits
<1>18. ASSUME NEW r \in DOMAIN u.clause, NEW i \in {1, 2} PROVE ~False(s, s.clause[r][i])
  <2>1. r \in DOMAIN s.clause /\ ~SatisfiedClause(s, r)
    BY <1>1, <1>7
  <2>2. TrimDefined(s)
    BY TrimHolds
  <2> QED BY <2>1, <2>2 DEF TrimDefined
<1>19. ASSUME NEW r \in DOMAIN u.clause, NEW i \in 1..Len(k[r]) PROVE ~True(s, k[r][i]) /\ ~False(s, k[r][i])
  <2>1. k[r] \in ClauseSeq /\ k[r][1] = s.clause[r][1] /\ k[r][2] = s.clause[r][2]
    BY <1>11 DEF Trimmed
  <2>2. Len(k[r]) \in Nat
    BY <2>1, ClauseIs
  <2>3. PICK j \in 1..Len(s.clause[r]) : s.clause[r][j] = k[r][i]
    BY <1>11 DEF Trimmed
  <2>4. ~True(s, k[r][i])
    BY <1>15, <2>3
  <2>5. CASE i \in 3..Len(k[r])
    BY <1>11, <1>16, <2>4, <2>5 DEF Trimmed
  <2>6. CASE i \in {1, 2}
    BY <1>18, <2>1, <2>4, <2>6
  <2>7. i \in 3..Len(k[r]) \/ i \in {1, 2}
    BY <2>2
  <2> QED BY <2>5, <2>6, <2>7
<1>20. \A v : (Open(t, v) <=> Open(u, v)) /\ (IsFree(t, v) <=> IsFree(u, v))
  BY <1>13 DEF Open, IsFree
<1>21. \A p : (Usable(t, p) <=> Usable(u, p)) /\ (OnTrail(t, p) <=> OnTrail(u, p))
  BY <1>13, <1>20 DEF Usable, OnTrail
<1>22. \A i : Lv(t, i) = Lv(u, i)
  BY <1>13 DEF Lv
<1>23. TrailOK(t)
  BY <1>5, <1>13, <1>20, <1>21 DEF TrailOK
<1>24. LevelsOK(t)
  BY <1>5, <1>13, <1>22 DEF LevelsOK
<1>25. \A i \in 1..Len(s.trail) : t.reason[s.trail[i][1]] = NoClause
  <2> SUFFICES ASSUME NEW i \in 1..Len(s.trail), u.reason[s.trail[i][1]] # NoClause PROVE FALSE
    BY <1>13
  <2>1. PICK r : r = u.reason[s.trail[i][1]]
    OBVIOUS
  <2>2. Explains(u, r, i)
    BY <1>5, <1>7, <2>1 DEF ReasonsOK
  <2>3. r \in DOMAIN u.clause /\ s.clause[r][1] = s.trail[i]
    BY <1>7, <2>2 DEF Explains
  <2>4. 1 \in 1..Len(s.clause[r])
    BY <1>11, <2>3, ClauseIs
  <2>5. True(s, s.clause[r][1])
    BY <1>0, <2>3 DEF TrailOK, True
  <2> QED BY <1>15, <2>3, <2>4, <2>5
<1>26. ReasonsOK(t)
  BY <1>7, <1>13, <1>25 DEF ReasonsOK
<1>27. HeapOK(t)
  BY <1>5, <1>13, <1>20 DEF HeapOK
<1>28. FreeOK(t)
  BY <1>5, <1>13, <1>20 DEF FreeOK
<1>29. ASSUME NEW L, Within(s, L) PROVE Within(t, L)
  <2>1. Within(u, L)
    BY <1>7, <1>29
  <2>2. ASSUME NEW r \in DOMAIN t.clause, NEW i \in 1..Len(t.clause[r]) PROVE t.clause[r][i] \in L
    <3>1. r \in DOMAIN u.clause
      BY <1>10, <1>13
    <3>2. PICK j \in 1..Len(s.clause[r]) : s.clause[r][j] = k[r][i]
      BY <1>11, <1>13, <3>1 DEF Trimmed
    <3>3. r \in DOMAIN s.clause
      BY <1>7, <3>1
    <3> QED BY <1>13, <1>29, <3>2, <3>3 DEF Within
  <2>3. \A p \in AllLits : \A i \in 1..Len(t.watches[p]) : t.watches[p][i].blocker \in L
    BY <1>13, <2>1 DEF Within
  <2> QED BY <2>2, <2>3 DEF Within
<1>30. Within(t, UsableLits(t))
  <2>1. UsableLits(t) = UsableLits(s)
    BY <1>6, <1>21 DEF UsableLits
  <2> QED BY <1>0, <1>29, <2>1
<1>31. Books(t)
  BY <1>14, <1>23, <1>24, <1>26, <1>27, <1>28, <1>30 DEF Books
<1>32. \A r \in DOMAIN u.clause : k[r][1] = u.clause[r][1] /\ k[r][2] = u.clause[r][2]
  BY <1>11 DEF Trimmed
<1>33. \A r, p : Watched(t, r, p) <=> Watched(u, r, p)
  BY <1>10, <1>13, <1>32 DEF Watched
<1>34. ASSUME NEW p \in AllLits PROVE WatchedBy(t, p, u.watches[p])
  <2>1. PICK ws : ws = u.watches[p]
    OBVIOUS
  <2>2. WatchedBy(u, p, ws)
    BY <1>4, <2>1 DEF WatchesOK
  <2>3. ASSUME NEW i \in 1..Len(ws) PROVE BlockerOK(t, ws[i])
    <3>1. PICK r, b : r = ws[i].ref /\ b = ws[i].blocker
      OBVIOUS
    <3>2. BlockerOK(u, ws[i]) /\ Watched(u, ws[i].ref, Neg(p))
      BY <2>2 DEF WatchedBy
    <3>3. r \in DOMAIN u.clause
      BY <3>1, <3>2 DEF Watched
    <3>4. CASE AtRoot(u, Neg(b))
      <4>1. AtRoot(t, Neg(b))
        BY <1>13, <1>22, <3>4 DEF AtRoot
      <4> QED BY <3>1, <4>1 DEF BlockerOK
    <3>5. CASE InClause(u, r, b)
      <4>1. PICK j \in 1..Len(s.clause[r]) : s.clause[r][j] = b
        BY <1>11, <3>3, <3>5 DEF InClause
      <4>2. CASE \E h \in 1..Len(k[r]) : k[r][h] = b
        BY <1>13, <3>1, <4>2 DEF InClause, BlockerOK
      <4>3. CASE False(s, b)
        <5>1. Usable(s, b) /\ b \in AllLits
          BY <1>17, <3>3, <4>1
        <5>2. AtRoot(s, Neg(b))
          BY <4>3, <5>1, RootIs
        <5>3. AtRoot(t, Neg(b))
          BY <1>7, <1>6, <1>13, <1>22, <5>2 DEF AtRoot
        <5> QED BY <3>1, <5>3 DEF BlockerOK
      <4>4. (\E h \in 1..Len(k[r]) : k[r][h] = s.clause[r][j]) \/ False(s, s.clause[r][j])
        BY <1>11, <3>3 DEF Trimmed
      <4> QED BY <4>1, <4>2, <4>3, <4>4
    <3> QED BY <3>1, <3>2, <3>4, <3>5 DEF BlockerOK
  <2>4. WatchedBy(t, p, ws)
    BY <1>10, <1>13, <1>33, <2>2, <2>3 DEF WatchedBy
  <2> QED BY <2>1, <2>4
<1>35. WatchesOK(t)
  BY <1>13, <1>34 DEF WatchesOK
<1>36. \A r \in DOMAIN s.clause : r \in DOMAIN t.clause \/ \E i \in 1..Len(s.clause[r]) : AtRoot(s, s.clause[r][i])
  <2> SUFFICES ASSUME NEW r \in DOMAIN s.clause, r \in R PROVE \E i \in 1..Len(s.clause[r]) : AtRoot(s, s.clause[r][i])
    BY <1>7, <1>10, <1>13
  <2>1. DOMAIN s.clause[r] = 1..Len(s.clause[r])
    BY <1>0, TypedIs, ClauseIs
  <2>2. PICK i \in 1..Len(s.clause[r]) : True(s, s.clause[r][i])
    BY <1>1, <2>1 DEF SatisfiedClause
  <2>3. Usable(s, s.clause[r][i]) /\ s.clause[r][i] \in AllLits
    BY <1>0 DEF Within, UsableLits
  <2>4. AtRoot(s, s.clause[r][i])
    BY <2>2, <2>3, RootIs
  <2> QED BY <2>4
<1>37. Cleaned(s, t)
  <2>1. \A r \in DOMAIN t.clause : Trimmed(s, t.clause[r], s.clause[r])
    BY <1>10, <1>11, <1>13
  <2>2. \A r \in DOMAIN t.clause : \A i \in 1..Len(t.clause[r]) : ~True(s, t.clause[r][i]) /\ ~False(s, t.clause[r][i])
    BY <1>10, <1>13, <1>19
  <2>3. t.learnts = s.learnts \cap DOMAIN t.clause
    <3>1. s.learnts \subseteq DOMAIN s.clause
      BY <1>0, TypedIs
    <3> QED BY <1>7, <1>10, <1>13, <3>1
  <2>4. DOMAIN t.clause \subseteq DOMAIN s.clause
    BY <1>7, <1>10, <1>13
  <2> QED BY <1>7, <1>13, <1>25, <1>36, <2>1, <2>2, <2>3, <2>4 DEF Cleaned
<1>38. Preserves(s, t)
  <2> SUFFICES ASSUME NEW m \in Models, Means(s, m) PROVE Means(t, m)
    BY DEF Preserves
  <2>1. Means(u, m)
    BY <1>6 DEF Preserves
  <2>2. \A i \in 1..Len(t.trail) : Lv(t, i) = 0 => t.trail[i] \in m
    BY <1>13, <1>22, <2>1 DEF Means
  <2>3. ASSUME NEW r \in DOMAIN t.clause PROVE \E i \in 1..Len(t.clause[r]) : t.clause[r][i] \in m
    <3>1. r \in DOMAIN u.clause /\ u.clause[r] = s.clause[r]
      BY <1>10, <1>11, <1>13
    <3>2. PICK j \in 1..Len(s.clause[r]) : s.clause[r][j] \in m
      BY <2>1, <3>1 DEF Means
    <3>3. ~False(s, s.clause[r][j])
      <4> SUFFICES ASSUME False(s, s.clause[r][j]) PROVE FALSE
        OBVIOUS
      <4>1. Usable(s, s.clause[r][j]) /\ s.clause[r][j] \in AllLits
        BY <1>17, <3>1
      <4>2. AtRoot(s, Neg(s.clause[r][j]))
        BY <4>1, RootIs
      <4>3. Neg(s.clause[r][j]) \in m
        BY <4>2 DEF AtRoot, Means
      <4> QED BY <3>2, <4>1, <4>3 DEF Models
    <3>4. Trimmed(s, t.clause[r], s.clause[r])
      BY <1>11, <1>13, <3>1
    <3>5. PICK i \in 1..Len(t.clause[r]) : t.clause[r][i] = s.clause[r][j]
      BY <3>2, <3>3, <3>4 DEF Trimmed
    <3> QED BY <3>2, <3>5
  <2> QED BY <2>2, <2>3 DEF Means
<1> QED BY <1>29, <1>31, <1>35, <1>37, <1>38

-----------------------------------------------------------------------------
(* simplify()                                                              *)

\* Concatenation, in terms of the members.
LEMMA ConcatIs ==
  ASSUME NEW S, NEW q \in Seq(S), NEW w \in Seq(S), NEW r, r = q \o w
  PROVE  /\ r \in Seq(S) /\ Len(r) = Len(q) + Len(w) /\ Len(q) \in Nat /\ Len(w) \in Nat
         /\ \A i \in 1..Len(q) : r[i] = q[i]
         /\ \A i \in 1..Len(w) : r[Len(q) + i] = w[i]
<1>1. Len(q) \in Nat /\ Len(w) \in Nat
  BY LenProperties
<1>2. r \in Seq(S) /\ Len(r) = Len(q) + Len(w)
      /\ \A i \in 1..(Len(q) + Len(w)) : r[i] = IF i <= Len(q) THEN q[i] ELSE w[i - Len(q)]
  BY ConcatProperties
<1>3. \A i \in 1..Len(q) : r[i] = q[i]
  <2> SUFFICES ASSUME NEW i \in 1..Len(q) PROVE r[i] = q[i]
    OBVIOUS
  <2>1. i \in 1..(Len(q) + Len(w)) /\ i <= Len(q)
    BY <1>1
  <2> QED BY <1>2, <2>1
<1>4. \A i \in 1..Len(w) : r[Len(q) + i] = w[i]
  <2> SUFFICES ASSUME NEW i \in 1..Len(w) PROVE r[Len(q) + i] = w[i]
    OBVIOUS
  <2>1. Len(q) + i \in 1..(Len(q) + Len(w)) /\ ~(Len(q) + i <= Len(q)) /\ (Len(q) + i) - Len(q) = i
    BY <1>1
  <2> QED BY <1>2, <2>1
<1> QED BY <1>1, <1>2, <1>3, <1>4

\* Sequence r has the members of q and those of w.
Joins(r, q, w) == \A x : (\E i \in 1..Len(r) : r[i] = x) <=> (\E i \in 1..Len(q) : q[i] = x) \/ (\E i \in 1..Len(w) : w[i] = x)

\* The members of q are distinct.
Distinct(q) == \A i, j \in 1..Len(q) : q[i] = q[j] => i = j

\* What is in one of two sequences is in both together.
LEMMA ConcatHas ==
  ASSUME NEW S, NEW q \in Seq(S), NEW w \in Seq(S), NEW r, r = q \o w
  PROVE  Joins(r, q, w)
<1>1. /\ Len(r) = Len(q) + Len(w) /\ Len(q) \in Nat /\ Len(w) \in Nat
      /\ \A i \in 1..Len(q) : r[i] = q[i]
      /\ \A i \in 1..Len(w) : r[Len(q) + i] = w[i]
  BY ConcatIs
<1>2. PICK M \in Nat, N \in Nat : M = Len(q) /\ N = Len(w)
  BY <1>1
<1>3. \A i \in 1..(M + N) : i \in 1..M \/ (i - M \in 1..N /\ M + (i - M) = i)
  OBVIOUS
<1>4. (\A i \in 1..M : i \in 1..(M + N)) /\ \A i \in 1..N : M + i \in 1..(M + N)
  OBVIOUS
<1>5. ASSUME NEW i \in 1..(M + N) PROVE (\E j \in 1..M : q[j] = r[i]) \/ (\E j \in 1..N : w[j] = r[i])
  <2>1. CASE i \in 1..M
    BY <1>1, <1>2, <2>1
  <2>2. CASE i - M \in 1..N /\ M + (i - M) = i
    <3>1. PICK j : j = i - M
      OBVIOUS
    <3>2. j \in 1..N /\ M + j = i
      BY <2>2, <3>1
    <3>3. r[i] = w[j]
      BY <1>1, <1>2, <3>2
    <3> QED BY <3>2, <3>3
  <2> QED BY <1>3, <2>1, <2>2
<1>6. ASSUME NEW i \in 1..M PROVE \E j \in 1..(M + N) : r[j] = q[i]
  BY <1>1, <1>2, <1>4
<1>7. ASSUME NEW i \in 1..N PROVE \E j \in 1..(M + N) : r[j] = w[i]
  <2>1. r[M + i] = w[i] /\ M + i \in 1..(M + N)
    BY <1>1, <1>2, <1>4
  <2> QED BY <2>1
<1>8. Len(r) = M + N
  BY <1>1, <1>2
<1> SUFFICES ASSUME NEW x
             PROVE  (\E i \in 1..Len(r) : r[i] = x) <=> (\E i \in 1..Len(q) : q[i] = x) \/ (\E i \in 1..Len(w) : w[i] = x)
  BY DEF Joins
<1>9. ASSUME NEW i \in 1..Len(r), r[i] = x PROVE (\E j \in 1..Len(q) : q[j] = x) \/ (\E j \in 1..Len(w) : w[j] = x)
  BY <1>2, <1>5, <1>8, <1>9
<1>10. ASSUME NEW i \in 1..Len(q), q[i] = x PROVE \E j \in 1..Len(r) : r[j] = x
  BY <1>2, <1>6, <1>8, <1>10
<1>11. ASSUME NEW i \in 1..Len(w), w[i] = x PROVE \E j \in 1..Len(r) : r[j] = x
  BY <1>2, <1>7, <1>8, <1>11
<1> QED BY <1>9, <1>10, <1>11

\* Two sequences without repetitions and without common members.
LEMMA ConcatApart ==
  ASSUME NEW S, NEW q \in Seq(S), NEW w \in Seq(S), NEW r, r = q \o w, Distinct(q), Distinct(w),
         \A i \in 1..Len(q) : \A j \in 1..Len(w) : q[i] # w[j]
  PROVE  Distinct(r)
<1>1. /\ Len(r) = Len(q) + Len(w) /\ Len(q) \in Nat /\ Len(w) \in Nat
      /\ \A i \in 1..Len(q) : r[i] = q[i]
      /\ \A i \in 1..Len(w) : r[Len(q) + i] = w[i]
  BY ConcatIs
<1>2. PICK M \in Nat, N \in Nat : M = Len(q) /\ N = Len(w)
  BY <1>1
<1>3. \A i \in 1..(M + N) : i \in 1..M \/ \E k \in 1..N : i = M + k
  <2> SUFFICES ASSUME NEW i \in 1..(M + N), i \notin 1..M PROVE \E k \in 1..N : i = M + k
    OBVIOUS
  <2>1. i - M \in 1..N /\ i = M + (i - M)
    OBVIOUS
  <2> QED BY <2>1
<1> SUFFICES ASSUME NEW i \in 1..(M + N), NEW j \in 1..(M + N), r[i] = r[j] PROVE i = j
  BY <1>1, <1>2 DEF Distinct
<1>4. CASE i \in 1..M /\ j \in 1..M
  BY <1>1, <1>2, <1>4 DEF Distinct
<1>5. CASE \E k \in 1..N : i = M + k
  <2>1. PICK k \in 1..N : i = M + k
    BY <1>5
  <2>2. r[i] = w[k]
    BY <1>1, <1>2, <2>1
  <2>3. CASE j \in 1..M
    <3>1. r[j] = q[j]
      BY <1>1, <1>2, <2>3
    <3> QED BY <1>2, <2>2, <2>3, <3>1
  <2>4. CASE \E l \in 1..N : j = M + l
    <3>1. PICK l \in 1..N : j = M + l
      BY <2>4
    <3>2. r[j] = w[l]
      BY <1>1, <1>2, <3>1
    <3>3. k = l
      BY <1>2, <2>2, <3>2 DEF Distinct
    <3> QED BY <2>1, <3>1, <3>3
  <2> QED BY <1>3, <2>3, <2>4
<1>6. CASE i \in 1..M /\ \E l \in 1..N : j = M + l
  <2>1. PICK l \in 1..N : j = M + l
    BY <1>6
  <2>2. r[j] = w[l] /\ r[i] = q[i]
    BY <1>1, <1>2, <1>6, <2>1
  <2> QED BY <1>2, <1>6, <2>2
<1> QED BY <1>3, <1>4, <1>5, <1>6

\* The user let variable v go, and it may not be handed out yet.
InReleased(s, v) == \E i \in 1..Len(s.released) : s.released[i] = v

\* Released variables have a value for good.
ReleasedOK(s) ==
  /\ Distinct(s.released)
  /\ \A i \in 1..Len(s.released) : \E j \in 1..Len(s.trail) : s.trail[j][1] = s.released[i] /\ Lv(s, j) = 0

\* What clauses may mention: of a released variable only the literal that is
\* true.
PureLits(s) == {p \in AllLits : Usable(s, p) /\ (InReleased(s, p[1]) => True(s, p))}

\* t is s after simplify().
SimplifiedTo(s, t) ==
  /\ t.lim = s.lim /\ t.qhead = Len(t.trail) /\ t.assigned = s.assigned /\ t.ok = s.ok /\ t.nextVar = s.nextVar
  /\ Len(t.released) = 0
  /\ \A v : IsFree(t, v) <=> IsFree(s, v) \/ InReleased(s, v)
  /\ \A p : AtRoot(t, p) <=> AtRoot(s, p) /\ ~InReleased(s, p[1])
  /\ DOMAIN t.clause \subseteq DOMAIN s.clause
  /\ t.learnts = s.learnts \cap DOMAIN t.clause
  /\ \A r \in DOMAIN s.clause : r \in DOMAIN t.clause \/ \E k \in 1..Len(s.clause[r]) : AtRoot(s, s.clause[r][k])
  /\ \A r \in DOMAIN t.clause : \A k \in 1..Len(t.clause[r]) : InClause(s, r, t.clause[r][k])
  /\ \A i \in 1..Len(t.trail) : t.reason[t.trail[i][1]] = NoClause

\* r has the members of seq that are in S.
Keeps(r, seq, S) ==
  /\ \A i \in 1..Len(r) : r[i] \in S /\ \E k \in 1..Len(seq) : seq[k] = r[i]
  /\ \A k \in 1..Len(seq) : seq[k] \in S => \E i \in 1..Len(r) : r[i] = seq[k]

\* The members that are kept come in the order they had.
LEMMA OnlyKeeps ==
  ASSUME NEW T, NEW seq \in Seq(T), NEW S, NEW r, r = Only(seq, S)
  PROVE  Keeps(r, seq, S)
<1>1. \A i \in 1..Len(r) : r[i] \in S /\ \E k \in 1..Len(seq) : seq[k] = r[i]
  BY OnlyHas
<1>2. \A k \in 1..Len(seq) : seq[k] \in S => \E i \in 1..Len(r) : r[i] = seq[k]
  BY SMTT(30), OnlyHas
<1> QED BY <1>1, <1>2 DEF Keeps

\* What simplify() does with the trail of a clean solver.
Drops(s, t, trail, free) ==
  /\ t.clause = s.clause /\ t.learnts = s.learnts /\ t.watches = s.watches /\ t.reason = s.reason /\ t.level = s.level
  /\ t.lim = s.lim /\ t.assigned = s.assigned /\ t.ok = s.ok /\ t.nextVar = s.nextVar
  /\ t.released = <<>> /\ t.trail = trail /\ t.qhead = Len(trail) /\ t.free = free
  /\ t.heap = {v \in 0..(s.nextVar - 1) : Open(s, v)}

\* What simplify() assigns.
LEMMA SimplifyFields ==
  ASSUME NEW s, NEW u, u = RemoveSatisfied(s), Typed(u), HeapOK(u), NEW t, t = Simplify(s)
  PROVE  \E trail, free :
           /\ trail = Only(u.trail, {p \in Range(u.trail) : p[1] \notin Range(u.released)})
           /\ free = u.free \o u.released
           /\ trail \in Seq(AllLits) /\ free \in Seq(Vars)
           /\ Drops(u, t, trail, free) /\ Typed(t)
<1>1. u \in SolverType /\ u.trail \in Seq(AllLits) /\ u.nextVar \in Nat /\ u.released \in Seq(Vars) /\ u.free \in Seq(Vars)
  BY TypedIs DEF SolverType
<1>2. PICK trail : trail = Only(u.trail, {p \in Range(u.trail) : p[1] \notin Range(u.released)})
  OBVIOUS
<1>3. PICK free : free = u.free \o u.released
  OBVIOUS
<1>4. PICK heap : heap = {v \in 0..(u.nextVar - 1) : Open(u, v)}
  OBVIOUS
<1>5. trail \in Seq(AllLits)
  BY <1>1, <1>2, OnlyIs
<1>6. free \in Seq(Vars)
  BY <1>1, <1>3, ConcatIs
<1>7. heap \in SUBSET Vars
  <2>1. u.nextVar <= MaxVars /\ MaxVars \in Nat /\ Vars = 0..(MaxVars - 1)
    BY Bounds DEF HeapOK
  <2>2. 0..(u.nextVar - 1) \subseteq Vars
    BY <1>1, <2>1
  <2> QED BY <1>4, <2>2
<1>8. Len(trail) \in Nat
  BY <1>5, LenProperties
<1>9. t = [u EXCEPT !.trail = trail, !.qhead = Len(trail), !.free = free, !.released = <<>>,
                    !.heap = heap, !.simplified = Len(trail)]
  BY <1>1, <1>2, <1>3, <1>4 DEF Simplify, SolverType
<1>10. <<>> \in Seq(Vars) /\ Len(trail) \in Int
  BY <1>8, EmptySeq
<1>11. t \in SolverType /\ Drops(u, t, trail, free)
  <2>1. t \in SolverType
    BY ZenonT(40), <1>1, <1>5, <1>6, <1>7, <1>8, <1>9, <1>10 DEF SolverType
  <2>2. Drops(u, t, trail, free)
    BY <1>1, <1>4, <1>9 DEF SolverType, Drops
  <2> QED BY <2>1, <2>2
<1>12. Typed(t)
  BY <1>11 DEF Typed, Drops
<1> QED BY <1>2, <1>3, <1>5, <1>6, <1>11, <1>12

\* The variables that are dropped from the trail are mentioned nowhere.
Dropped(s, t) ==
  /\ Books(t) /\ WatchesOK(t) /\ \A n \in 0..Len(t.trail) : AwakeTo(t, n)
  /\ \A v : IsFree(t, v) <=> IsFree(s, v) \/ InReleased(s, v)
  /\ \A p : AtRoot(t, p) <=> AtRoot(s, p) /\ ~InReleased(s, p[1])
  /\ \A i \in 1..Len(t.trail) : t.reason[t.trail[i][1]] = NoClause
  /\ Preserves(s, t)

\* No clause of s mentions a variable with a value, and none is a reason.
CleanOK(s) ==
  /\ \A r \in DOMAIN s.clause : \A k \in 1..Len(s.clause[r]) : ~True(s, s.clause[r][k]) /\ ~False(s, s.clause[r][k])
  /\ \A i \in 1..Len(s.trail) : s.reason[s.trail[i][1]] = NoClause

\* Variables that no clause mentions leave the trail.
LEMMA DropsBooks ==
  ASSUME NEW s, Books(s), WatchesOK(s), Len(s.lim) = 0, ReleasedOK(s), Within(s, PureLits(s)), CleanOK(s),
         NEW trail \in Seq(AllLits), NEW free \in Seq(Vars),
         trail = Only(s.trail, {p \in Range(s.trail) : p[1] \notin Range(s.released)}),
         free = s.free \o s.released,
         NEW t, Typed(t), Drops(s, t, trail, free)
  PROVE  Dropped(s, t)
<1> USE DEF CleanOK
<1>0. Typed(s) /\ TrailOK(s) /\ LevelsOK(s) /\ HeapOK(s) /\ FreeOK(s)
  BY BooksAre
<1>1. /\ t.clause = s.clause /\ t.learnts = s.learnts /\ t.watches = s.watches /\ t.reason = s.reason /\ t.level = s.level
      /\ t.lim = s.lim /\ t.assigned = s.assigned /\ t.ok = s.ok /\ t.nextVar = s.nextVar
      /\ t.released = <<>> /\ t.trail = trail /\ t.qhead = Len(trail) /\ t.free = free
      /\ t.heap = {v \in 0..(s.nextVar - 1) : Open(s, v)}
  BY DEF Drops
<1>2. s.trail \in Seq(AllLits) /\ s.released \in Seq(Vars) /\ s.free \in Seq(Vars) /\ Len(s.trail) \in Nat
  BY <1>0, TypedIs DEF SolverType
<1>3. \A v : v \in Range(s.released) <=> InReleased(s, v)
  BY <1>2, SeqIs DEF InReleased
<1>4. PICK S : S = {p \in Range(s.trail) : p[1] \notin Range(s.released)}
  OBVIOUS
<1>5. trail = Only(s.trail, S)
  BY <1>4
<1>51. Keeps(trail, s.trail, S)
  BY <1>2, <1>5, OnlyKeeps
<1>6. \A i \in 1..Len(trail) : trail[i] \in S /\ \E k \in 1..Len(s.trail) : s.trail[k] = trail[i]
  BY <1>51 DEF Keeps
<1>7. \A k \in 1..Len(s.trail) : s.trail[k] \in S => \E i \in 1..Len(trail) : trail[i] = s.trail[k]
  BY <1>51 DEF Keeps
<1>8. \A k \in 1..Len(s.trail) : s.trail[k] \in Range(s.trail)
  BY <1>2, SeqIs
<1>9. \A p : OnTrail(t, p) <=> OnTrail(s, p) /\ ~InReleased(s, p[1])
  <2> SUFFICES ASSUME NEW p PROVE OnTrail(t, p) <=> OnTrail(s, p) /\ ~InReleased(s, p[1])
    OBVIOUS
  <2>1. ASSUME OnTrail(t, p) PROVE OnTrail(s, p) /\ ~InReleased(s, p[1])
    <3>1. PICK i \in 1..Len(trail) : trail[i] = p
      BY <1>1, <2>1 DEF OnTrail
    <3>2. p \in S /\ \E k \in 1..Len(s.trail) : s.trail[k] = p
      BY <1>6, <3>1
    <3> QED BY <1>3, <1>4, <3>2 DEF OnTrail
  <2>2. ASSUME OnTrail(s, p), ~InReleased(s, p[1]) PROVE OnTrail(t, p)
    <3>1. PICK k \in 1..Len(s.trail) : s.trail[k] = p
      BY <2>2 DEF OnTrail
    <3>2. p \in S
      BY <1>3, <1>4, <1>8, <2>2, <3>1
    <3>3. \E i \in 1..Len(trail) : trail[i] = p
      BY <1>7, <3>1, <3>2
    <3> QED BY <1>1, <3>3 DEF OnTrail
  <2> QED BY <2>1, <2>2
<1>10. \A i, j \in 1..Len(trail) : trail[i][1] = trail[j][1] => i = j
  <2>1. \A i, j \in 1..Len(s.trail) : s.trail[i] = s.trail[j] => i = j
    BY <1>0 DEF TrailOK
  <2>2. \A i, j \in 1..Len(trail) : trail[i] = trail[j] => i = j
    BY SMTT(30), <1>2, <1>5, <2>1, OnlyApart
  <2> SUFFICES ASSUME NEW i \in 1..Len(trail), NEW j \in 1..Len(trail), trail[i][1] = trail[j][1] PROVE i = j
    OBVIOUS
  <2>3. PICK k \in 1..Len(s.trail) : s.trail[k] = trail[i]
    BY <1>6
  <2>4. PICK l \in 1..Len(s.trail) : s.trail[l] = trail[j]
    BY <1>6
  <2>5. k = l
    BY <1>0, <2>3, <2>4 DEF TrailOK
  <2> QED BY SMTT(30), <2>2, <2>3, <2>4, <2>5
<1>11. \A v : IsFree(t, v) <=> IsFree(s, v) \/ InReleased(s, v)
  <2>0. PICK a, b : a = s.free /\ b = s.released
    OBVIOUS
  <2>1. Joins(free, a, b)
    BY <1>2, <2>0, ConcatHas
  <2>2. \A v : (\E i \in 1..Len(free) : free[i] = v) <=> (\E i \in 1..Len(a) : a[i] = v) \/ (\E i \in 1..Len(b) : b[i] = v)
    BY <2>1 DEF Joins
  <2>3. \A v : (IsFree(t, v) <=> \E i \in 1..Len(free) : free[i] = v) /\ (IsFree(s, v) <=> \E i \in 1..Len(a) : a[i] = v)
               /\ (InReleased(s, v) <=> \E i \in 1..Len(b) : b[i] = v)
    BY <1>1, <2>0 DEF IsFree, InReleased
  <2> QED BY <2>2, <2>3
<1>12. \A v : Open(t, v) <=> Open(s, v)
  BY <1>1 DEF Open
<1>13. \A p : Usable(t, p) <=> Usable(s, p) /\ ~InReleased(s, p[1])
  BY <1>1, <1>11 DEF Usable
<1>14. \A i \in 1..Len(trail) : \E k \in 1..Len(s.trail) : s.trail[k] = trail[i] /\ Lv(t, i) = Lv(s, k) /\ Lv(s, k) = 0
  <2>1. \A k \in 1..Len(s.trail) : Lv(s, k) = 0
    BY RootIs
  <2> SUFFICES ASSUME NEW i \in 1..Len(trail) PROVE \E k \in 1..Len(s.trail) : s.trail[k] = trail[i] /\ Lv(t, i) = Lv(s, k) /\ Lv(s, k) = 0
    OBVIOUS
  <2>2. PICK k \in 1..Len(s.trail) : s.trail[k] = trail[i]
    BY <1>6
  <2>3. Lv(t, i) = t.level[trail[i][1]] /\ Lv(s, k) = s.level[s.trail[k][1]]
    BY <1>1 DEF Lv
  <2> QED BY <1>1, <2>1, <2>2, <2>3
<1>15. TrailOK(t)
  <2>1. \A i \in 1..Len(t.trail) : t.trail[i] \in t.assigned /\ Usable(t, t.trail[i])
    <3> SUFFICES ASSUME NEW i \in 1..Len(trail) PROVE trail[i] \in s.assigned /\ Usable(t, trail[i])
      BY <1>1
    <3>1. trail[i] \in S /\ \E k \in 1..Len(s.trail) : s.trail[k] = trail[i]
      BY <1>6
    <3>2. trail[i] \in s.assigned /\ Usable(s, trail[i]) /\ ~InReleased(s, trail[i][1])
      BY <1>0, <1>3, <1>4, <3>1 DEF TrailOK
    <3> QED BY <1>13, <3>2
  <2>2. \A p \in t.assigned : OnTrail(t, p) \/ IsFree(t, p[1])
    BY <1>0, <1>1, <1>9, <1>11 DEF TrailOK
  <2>3. \A p \in t.assigned : Neg(p) \notin t.assigned
    BY <1>0, <1>1 DEF TrailOK
  <2>4. t.qhead <= Len(t.trail)
    BY <1>1, LenProperties
  <2>5. \A i, j \in 1..Len(t.trail) : t.trail[i][1] = t.trail[j][1] => i = j
    BY <1>1, <1>10
  <2> QED BY <2>1, <2>2, <2>3, <2>4, <2>5 DEF TrailOK
<1>16. LevelsOK(t)
  <2>1. Len(t.lim) = 0 /\ \A l \in 1..Len(t.lim) : FALSE
    BY <1>1
  <2>2. \A i \in 1..Len(t.trail) : Lv(t, i) <= Len(t.lim)
    BY SMTT(30), <1>1, <1>14
  <2> QED BY <2>1, <2>2 DEF LevelsOK
<1>17. \A i \in 1..Len(t.trail) : t.reason[t.trail[i][1]] = NoClause
  <2> SUFFICES ASSUME NEW i \in 1..Len(trail) PROVE s.reason[trail[i][1]] = NoClause
    BY <1>1
  <2>1. PICK k \in 1..Len(s.trail) : s.trail[k] = trail[i]
    BY <1>6
  <2> QED BY <2>1
<1>18. ReasonsOK(t)
  BY <1>17 DEF ReasonsOK
<1>19. HeapOK(t)
  <2>1. s.nextVar \in Nat /\ s.nextVar <= MaxVars
    BY <1>0, TypedIs DEF HeapOK
  <2>2. \A v \in 0..(s.nextVar - 1) : v < s.nextVar
    BY <2>1
  <2> QED BY <1>1, <1>12, <2>1, <2>2 DEF HeapOK
<1>20. ASSUME NEW i \in 1..Len(s.released)
       PROVE  s.released[i] < s.nextVar /\ ~Open(s, s.released[i]) /\ ~IsFree(s, s.released[i]) /\ s.released[i] \in Vars
  <2>1. PICK j \in 1..Len(s.trail) : s.trail[j][1] = s.released[i]
    BY DEF ReleasedOK
  <2>2. s.trail[j] \in s.assigned /\ Usable(s, s.trail[j])
    BY <1>0 DEF TrailOK
  <2>3. s.released[i] \in Vars
    BY <1>2, LenProperties
  <2>4. ~Open(s, s.released[i])
    BY <1>0, <2>1, <2>2, <2>3, OpenIs
  <2> QED BY <2>1, <2>2, <2>3, <2>4 DEF Usable
<1>21. FreeOK(t)
  <2>1. Distinct(s.free) /\ Distinct(s.released)
    BY <1>0 DEF FreeOK, Distinct, ReleasedOK
  <2>2. \A i \in 1..Len(s.free) : \A j \in 1..Len(s.released) : s.free[i] # s.released[j]
    BY <1>20 DEF IsFree
  <2>21. PICK a, b : a = s.free /\ b = s.released
    OBVIOUS
  <2>22. Distinct(a) /\ Distinct(b) /\ (\A i \in 1..Len(a) : \A j \in 1..Len(b) : a[i] # b[j])
         /\ a \in Seq(Vars) /\ b \in Seq(Vars) /\ free = a \o b
    BY <1>2, <2>1, <2>2, <2>21
  <2>3. Distinct(free)
    BY <2>22, ConcatApart
  <2>4. ASSUME NEW i \in 1..Len(free) PROVE free[i] < t.nextVar /\ ~Open(t, free[i])
    <3>1. IsFree(t, free[i])
      BY <1>1 DEF IsFree
    <3>2. CASE IsFree(s, free[i])
      BY <1>0, <1>1, <1>12, <3>2 DEF FreeOK, IsFree
    <3>3. CASE InReleased(s, free[i])
      BY <1>1, <1>12, <1>20, <3>3 DEF InReleased
    <3> QED BY <1>11, <3>1, <3>2, <3>3
  <2>5. \A i, j \in 1..Len(free) : free[i] = free[j] => i = j
    BY <2>3 DEF Distinct
  <2>6. t.free = free
    BY <1>1
  <2> QED BY ZenonT(40), <2>4, <2>5, <2>6 DEF FreeOK
<1>22. ASSUME NEW p, p \in PureLits(s), ~True(s, p) PROVE p \in UsableLits(t) /\ ~InReleased(s, p[1])
  BY <1>13, <1>22 DEF PureLits, UsableLits
<1>23. \A r \in DOMAIN s.clause : \A k \in 1..Len(s.clause[r]) : s.clause[r][k] \in UsableLits(t) /\ ~InReleased(s, s.clause[r][k][1])
  BY <1>22 DEF Within
<1>24. ASSUME NEW p \in AllLits, NEW i \in 1..Len(s.watches[p])
       PROVE  /\ s.watches[p][i].blocker \in UsableLits(t) /\ ~InReleased(s, s.watches[p][i].blocker[1])
              /\ s.watches[p][i].blocker \in AllLits
  <2>1. PICK b, r : b = s.watches[p][i].blocker /\ r = s.watches[p][i].ref
    OBVIOUS
  <2>2. b \in PureLits(s)
    BY <2>1 DEF Within
  <2>3. WatchedBy(s, p, s.watches[p])
    BY DEF WatchesOK
  <2>4. r \in DOMAIN s.clause
    BY <2>1, <2>3 DEF WatchedBy, Watched
  <2>5. InClause(s, r, b) \/ AtRoot(s, Neg(b))
    BY <2>1, <2>3 DEF WatchedBy, BlockerOK
  <2>6. b \in AllLits /\ Usable(s, b)
    BY <2>2 DEF PureLits
  <2>7. ~True(s, b)
    <3>1. CASE InClause(s, r, b)
      BY <2>4, <3>1 DEF InClause
    <3>2. CASE AtRoot(s, Neg(b))
      BY <2>6, <3>2, RootIs, TrueIsOnTrail
    <3> QED BY <2>5, <3>1, <3>2
  <2> QED BY <1>22, <2>1, <2>2, <2>6, <2>7
<1>25. Within(t, UsableLits(t))
  BY <1>1, <1>23, <1>24 DEF Within
<1>26. Books(t)
  BY <1>15, <1>16, <1>18, <1>19, <1>21, <1>25 DEF Books
<1>27. \A p : AtRoot(t, p) <=> AtRoot(s, p) /\ ~InReleased(s, p[1])
  <2>1. \A p : (OnTrail(s, p) <=> AtRoot(s, p)) /\ (OnTrail(t, p) <=> AtRoot(t, p))
    BY <1>1, <1>26, RootIs
  <2> QED BY <1>9, <2>1
<1>28. WatchesOK(t)
  <2> SUFFICES ASSUME NEW p \in AllLits PROVE WatchedBy(t, p, t.watches[p])
    BY DEF WatchesOK
  <2>1. PICK ws : ws = s.watches[p]
    OBVIOUS
  <2>2. WatchedBy(s, p, ws)
    BY <2>1 DEF WatchesOK
  <2>3. \A r, q : Watched(t, r, q) <=> Watched(s, r, q)
    BY <1>1 DEF Watched
  <2>4. ASSUME NEW i \in 1..Len(ws) PROVE BlockerOK(t, ws[i])
    <3>1. PICK b, r : b = ws[i].blocker /\ r = ws[i].ref
      OBVIOUS
    <3>2. InClause(s, r, b) \/ AtRoot(s, Neg(b))
      BY <2>2, <3>1 DEF WatchedBy, BlockerOK
    <3>3. ~InReleased(s, b[1]) /\ b \in AllLits
      BY <1>24, <2>1, <3>1
    <3>4. AtRoot(s, Neg(b)) => AtRoot(t, Neg(b))
      BY <1>27, <3>3, Literals
    <3>5. InClause(s, r, b) => InClause(t, r, b)
      BY <1>1 DEF InClause
    <3> QED BY <3>1, <3>2, <3>4, <3>5 DEF BlockerOK
  <2>5. WatchedBy(t, p, ws)
    BY <1>1, <2>2, <2>3, <2>4 DEF WatchedBy
  <2> QED BY <1>1, <2>1, <2>5
<1>29. ASSUME NEW n \in 0..Len(t.trail) PROVE AwakeTo(t, n)
  <2> SUFFICES ASSUME NEW r \in DOMAIN t.clause, NEW j \in 1..n, NEW k \in {1, 2}, t.trail[j] = Neg(t.clause[r][k]) PROVE FALSE
    BY DEF AwakeTo, AwakeAt
  <2>1. s.clause[r] \in ClauseSeq
    BY <1>0, <1>1, TypedIs
  <2>2. k \in 1..Len(s.clause[r])
    BY <2>1, ClauseIs
  <2>3. ~False(s, s.clause[r][k])
    BY <1>1, <2>2
  <2>4. j \in 1..Len(t.trail)
    BY <1>1, LenProperties
  <2>5. t.trail[j] \in s.assigned
    BY <1>1, <1>15, <2>4 DEF TrailOK
  <2> QED BY <1>1, <2>3, <2>5 DEF False
<1>30. Preserves(s, t)
  <2> SUFFICES ASSUME NEW m \in Models, Means(s, m) PROVE Means(t, m)
    BY DEF Preserves
  <2>1. \A i \in 1..Len(trail) : trail[i] \in m
    BY <1>14 DEF Means
  <2> QED BY <1>1, <2>1 DEF Means
<1> QED BY <1>11, <1>17, <1>26, <1>27, <1>28, <1>29, <1>30 DEF Dropped

\* simplify()
LEMMA SimplifyIs ==
  ASSUME NEW s, Books(s), WatchesOK(s), Len(s.lim) = 0, AwakeTo(s, Len(s.trail)),
         ReleasedOK(s), Within(s, PureLits(s)), NEW t, t = Simplify(s)
  PROVE  /\ Books(t) /\ WatchesOK(t) /\ (\A n \in 0..Len(t.trail) : AwakeTo(t, n)) /\ SimplifiedTo(s, t)
         /\ Preserves(s, t) /\ \A L : Within(s, L) => Within(t, L)
<1>1. PICK u : u = RemoveSatisfied(s)
  OBVIOUS
<1>2. Books(u) /\ WatchesOK(u) /\ Cleaned(s, u) /\ Preserves(s, u) /\ \A L : Within(s, L) => Within(u, L)
  BY <1>1, RemoveSatisfiedIs
<1>3. Typed(u) /\ HeapOK(u) /\ Typed(s)
  BY <1>2, BooksAre
<1>4. PICK trail, free :
           /\ trail = Only(u.trail, {p \in Range(u.trail) : p[1] \notin Range(u.released)})
           /\ free = u.free \o u.released
           /\ trail \in Seq(AllLits) /\ free \in Seq(Vars)
           /\ Drops(u, t, trail, free) /\ Typed(t)
  BY <1>1, <1>3, SimplifyFields
<1>5. /\ u.trail = s.trail /\ u.lim = s.lim /\ u.qhead = s.qhead /\ u.assigned = s.assigned /\ u.level = s.level
      /\ u.heap = s.heap /\ u.ok = s.ok /\ u.nextVar = s.nextVar /\ u.released = s.released /\ u.free = s.free
      /\ DOMAIN u.clause \subseteq DOMAIN s.clause /\ u.learnts = s.learnts \cap DOMAIN u.clause
      /\ (\A r \in DOMAIN u.clause : Trimmed(s, u.clause[r], s.clause[r]))
      /\ (\A r \in DOMAIN s.clause : r \in DOMAIN u.clause \/ \E k \in 1..Len(s.clause[r]) : AtRoot(s, s.clause[r][k]))
      /\ (\A r \in DOMAIN u.clause : \A k \in 1..Len(u.clause[r]) : ~True(s, u.clause[r][k]) /\ ~False(s, u.clause[r][k]))
      /\ (\A i \in 1..Len(s.trail) : u.reason[s.trail[i][1]] = NoClause)
  BY <1>2 DEF Cleaned
<1>6. \A p : (True(u, p) <=> True(s, p)) /\ (False(u, p) <=> False(s, p))
  BY <1>5 DEF True, False
<1>7. \A i : Lv(u, i) = Lv(s, i)
  BY <1>5 DEF Lv
<1>8. \A v : (InReleased(u, v) <=> InReleased(s, v)) /\ (IsFree(u, v) <=> IsFree(s, v))
  BY <1>5 DEF InReleased, IsFree
<1>9. ReleasedOK(u)
  BY <1>5, <1>7 DEF ReleasedOK
<1>10. Within(u, PureLits(u))
  <2>1. PureLits(u) = PureLits(s)
    BY <1>5, <1>6, <1>8 DEF PureLits, Usable
  <2> QED BY <1>2, <2>1
<1>11. \A p : AtRoot(u, p) <=> AtRoot(s, p)
  BY <1>5, <1>7 DEF AtRoot
<1>12. \A r \in DOMAIN u.clause : \A k \in 1..Len(u.clause[r]) : ~True(u, u.clause[r][k]) /\ ~False(u, u.clause[r][k])
  BY <1>5, <1>6
<1>13. Len(u.lim) = 0 /\ \A i \in 1..Len(u.trail) : u.reason[u.trail[i][1]] = NoClause
  BY <1>5
<1>131. CleanOK(u)
  BY <1>12, <1>13 DEF CleanOK
<1>14. Dropped(u, t)
  BY <1>2, <1>4, <1>9, <1>10, <1>13, <1>131, DropsBooks
<1>15. /\ t.clause = u.clause /\ t.learnts = u.learnts /\ t.watches = u.watches
       /\ t.lim = u.lim /\ t.assigned = u.assigned /\ t.ok = u.ok /\ t.nextVar = u.nextVar
       /\ t.released = <<>> /\ t.trail = trail /\ t.qhead = Len(trail)
  BY <1>4 DEF Drops
<1>16. \A r \in DOMAIN t.clause : \A k \in 1..Len(t.clause[r]) : InClause(s, r, t.clause[r][k])
  <2>1. t.clause = u.clause
    BY <1>15
  <2>2. \A r \in DOMAIN u.clause : \A k \in 1..Len(u.clause[r]) : \E j \in 1..Len(s.clause[r]) : s.clause[r][j] = u.clause[r][k]
    BY <1>5 DEF Trimmed
  <2> QED BY <2>1, <2>2 DEF InClause
<1>17. SimplifiedTo(s, t)
  <2>1. Len(t.released) = 0
    BY <1>15
  <2>2. \A r \in DOMAIN s.clause : r \in DOMAIN t.clause \/ \E k \in 1..Len(s.clause[r]) : AtRoot(s, s.clause[r][k])
    BY <1>5, <1>15
  <2>3. /\ t.lim = s.lim /\ t.qhead = Len(t.trail) /\ t.assigned = s.assigned /\ t.ok = s.ok /\ t.nextVar = s.nextVar
        /\ DOMAIN t.clause \subseteq DOMAIN s.clause /\ t.learnts = s.learnts \cap DOMAIN t.clause
    BY <1>5, <1>15
  <2>4. \A v : IsFree(t, v) <=> IsFree(s, v) \/ InReleased(s, v)
    BY <1>8, <1>14 DEF Dropped
  <2>5. \A p : AtRoot(t, p) <=> AtRoot(s, p) /\ ~InReleased(s, p[1])
    BY <1>8, <1>11, <1>14 DEF Dropped
  <2> QED BY <1>14, <1>16, <2>1, <2>2, <2>3, <2>4, <2>5 DEF SimplifiedTo, Dropped
<1>18. Preserves(s, t)
  BY <1>2, <1>14 DEF Preserves, Dropped
<1>19. ASSUME NEW L, Within(s, L) PROVE Within(t, L)
  <2>1. Within(u, L)
    BY <1>2, <1>19
  <2> QED BY <1>15, <2>1 DEF Within
<1> QED BY <1>14, <1>17, <1>18, <1>19 DEF Dropped

-----------------------------------------------------------------------------
(* newVar()                                                                *)

\* t is s with one more variable v, which is nowhere mentioned.
HasNew(s, t, v) ==
  /\ t.clause = s.clause /\ t.learnts = s.learnts /\ t.trail = s.trail /\ t.lim = s.lim /\ t.qhead = s.qhead
  /\ t.ok = s.ok /\ t.released = s.released
  /\ v \in Vars /\ (IsFree(s, v) \/ v = s.nextVar)
  /\ t.nextVar = (IF Len(s.free) = 0 THEN s.nextVar + 1 ELSE s.nextVar)
  /\ (Len(s.free) = 0 <=> v = s.nextVar)
  /\ \A x : IsFree(t, x) <=> IsFree(s, x) /\ x # v
  /\ \A p : p \in t.assigned <=> p \in s.assigned /\ p[1] # v
  /\ \A p \in AllLits : Usable(t, p) <=> Usable(s, p) \/ p[1] = v
  /\ \A p \in AllLits : p[1] = v => ~Usable(s, p)
  /\ \A i \in 1..Len(s.trail) : Lv(t, i) = Lv(s, i)

\* r is q without its last member x.
LosesLast(S, r, q, x) ==
  /\ r \in Seq(S) /\ x \in S /\ Distinct(r) /\ (\E i \in 1..Len(q) : q[i] = x)
  /\ \A y : (\E i \in 1..Len(r) : r[i] = y) <=> (\E i \in 1..Len(q) : q[i] = y) /\ y # x

\* The last of the free variables is taken.
LEMMA LastOut ==
  ASSUME NEW S, NEW q \in Seq(S), Len(q) # 0, Distinct(q), NEW r, r = Front(q), NEW x, x = Last(q)
  PROVE  LosesLast(S, r, q, x)
<1>1. PICK N \in Nat : N = Len(q)
  BY LenProperties
<1>2. N - 1 \in 0..N /\ N \in 1..N /\ \A i \in 1..N : i \in 1..(N - 1) \/ i = N
  BY <1>1
<1>3. r = SubSeq(q, 1, N - 1) /\ x = q[N]
  BY <1>1 DEF Front, Last
<1>4. r \in Seq(S) /\ Len(r) = N - 1 /\ \A i \in 1..(N - 1) : r[i] = q[i]
  BY <1>1, <1>2, <1>3, FrontIs
<1>5. \A i, j \in 1..N : q[i] = q[j] => i = j
  BY <1>1 DEF Distinct
<1>6. Distinct(r)
  BY <1>4, <1>5 DEF Distinct
<1>7. x \in S
  BY <1>1, <1>2, <1>3, LenProperties
<1>8. ASSUME NEW y, NEW i \in 1..(N - 1), r[i] = y PROVE (\E j \in 1..N : q[j] = y) /\ y # x
  <2>1. i \in 1..N /\ i # N /\ q[i] = y
    BY <1>4, <1>8
  <2> QED BY <1>2, <1>3, <1>5, <2>1
<1>9. ASSUME NEW y, NEW i \in 1..N, q[i] = y, y # x PROVE \E j \in 1..(N - 1) : r[j] = y
  <2>1. i \in 1..(N - 1)
    BY <1>2, <1>3, <1>9
  <2> QED BY <1>4, <1>9, <2>1
<1>10. \A y : (\E i \in 1..(N - 1) : r[i] = y) => (\E i \in 1..N : q[i] = y) /\ y # x
  BY <1>8
<1>11. \A y : (\E i \in 1..N : q[i] = y) /\ y # x => \E i \in 1..(N - 1) : r[i] = y
  BY <1>9
<1>12. \E i \in 1..N : q[i] = x
  BY <1>2, <1>3
<1> QED BY <1>1, <1>4, <1>6, <1>7, <1>10, <1>11, <1>12 DEF LosesLast

\* What newVar() assigns.
LEMMA NewVarFields ==
  ASSUME NEW s, Typed(s), FreeOK(s), HeapOK(s), Len(s.free) # 0 \/ s.nextVar < MaxVars,
         NEW v, v = NewVarOf(s), NEW t, t = NewVar(s)
  PROVE  /\ Typed(t) /\ v \in Vars /\ (IsFree(s, v) \/ v = s.nextVar) /\ (Len(s.free) = 0 <=> v = s.nextVar)
         /\ t.clause = s.clause /\ t.learnts = s.learnts /\ t.trail = s.trail /\ t.lim = s.lim /\ t.qhead = s.qhead
         /\ t.ok = s.ok /\ t.released = s.released
         /\ t.nextVar = (IF Len(s.free) = 0 THEN s.nextVar + 1 ELSE s.nextVar)
         /\ Distinct(t.free) /\ (\A x : IsFree(t, x) <=> IsFree(s, x) /\ x # v)
         /\ (\A p : p \in t.assigned <=> p \in s.assigned /\ p[1] # v)
         /\ t.heap = s.heap \cup {v}
         /\ (\A x \in Vars : x # v => t.reason[x] = s.reason[x] /\ t.level[x] = s.level[x])
         /\ (\A p \in AllLits : p[1] # v => t.watches[p] = s.watches[p])
         /\ (\A p \in AllLits : p[1] = v => t.watches[p] = <<>>)
<1>1. /\ s \in SolverType /\ s.free \in Seq(Vars) /\ s.nextVar \in Nat /\ s.reason \in [Vars -> Nat] /\ s.level \in [Vars -> Nat]
      /\ s.watches \in [AllLits -> Seq(Watcher)] /\ s.assigned \in SUBSET AllLits /\ s.heap \in SUBSET Vars /\ Len(s.free) \in Nat
  BY TypedIs, LenProperties DEF SolverType
<1>2. MaxVars \in Nat /\ Vars = 0..(MaxVars - 1)
  BY Bounds
<1>3. s.free # <<>> <=> Len(s.free) # 0
  BY <1>1, EmptySeq
<1>4. PICK fr : fr = IF s.free # <<>> THEN Front(s.free) ELSE s.free
  OBVIOUS
<1>5. PICK nv : nv = IF s.free # <<>> THEN s.nextVar ELSE s.nextVar + 1
  OBVIOUS
<1>6. PICK w : w = [p \in AllLits |-> IF p[1] = v THEN <<>> ELSE s.watches[p]]
  OBVIOUS
<1>7. PICK a : a = s.assigned \ LitsOf({v})
  OBVIOUS
<1>8. PICK re : re = [s.reason EXCEPT ![v] = NoClause]
  OBVIOUS
<1>9. PICK le : le = [s.level EXCEPT ![v] = 0]
  OBVIOUS
<1>10. t = [s EXCEPT !.free = fr, !.nextVar = nv, !.watches = w, !.assigned = a, !.reason = re, !.level = le, !.heap = s.heap \cup {v}]
  <2>1. DOMAIN s.watches = AllLits
    BY <1>1
  <2> QED BY <1>1, <1>4, <1>5, <1>6, <1>7, <1>8, <1>9, <2>1 DEF NewVar, SolverType
<1>11. Distinct(s.free)
  BY DEF FreeOK, Distinct
<1>12. /\ v \in Vars /\ (IsFree(s, v) \/ v = s.nextVar) /\ (Len(s.free) = 0 <=> v = s.nextVar)
       /\ fr \in Seq(Vars) /\ Distinct(fr) /\ \A x : (\E i \in 1..Len(fr) : fr[i] = x) <=> IsFree(s, x) /\ x # v
  <2>1. CASE s.free = <<>>
    <3>1. v = s.nextVar /\ Len(s.free) = 0 /\ fr = s.free
      BY <1>3, <1>4, <2>1 DEF NewVarOf
    <3>2. v \in Vars
      BY <1>1, <1>2, <3>1
    <3>3. \A x : ~IsFree(s, x) /\ ~\E i \in 1..Len(fr) : fr[i] = x
      BY <3>1 DEF IsFree
    <3> QED BY <1>1, <1>11, <3>1, <3>2, <3>3
  <2>2. CASE s.free # <<>>
    <3>1. v = Last(s.free) /\ Len(s.free) # 0 /\ fr = Front(s.free)
      BY <1>3, <1>4, <2>2 DEF NewVarOf
    <3>2. PICK q : q = s.free
      OBVIOUS
    <3>3. q \in Seq(Vars) /\ Len(q) # 0 /\ Distinct(q) /\ v = Last(q) /\ fr = Front(q)
      BY <1>1, <1>11, <3>1, <3>2
    <3>4. /\ fr \in Seq(Vars) /\ v \in Vars /\ Distinct(fr) /\ (\E i \in 1..Len(q) : q[i] = v)
          /\ \A y : (\E i \in 1..Len(fr) : fr[i] = y) <=> (\E i \in 1..Len(q) : q[i] = y) /\ y # v
      <4>1. LosesLast(Vars, fr, q, v)
        BY <3>3, LastOut
      <4> QED BY <4>1 DEF LosesLast
    <3>5. \A y : IsFree(s, y) <=> \E i \in 1..Len(q) : q[i] = y
      BY <3>2 DEF IsFree
    <3>6. IsFree(s, v) /\ v # s.nextVar
      <4>1. IsFree(s, v)
        BY <3>4, <3>5
      <4>2. PICK i \in 1..Len(s.free) : s.free[i] = v
        BY <4>1 DEF IsFree
      <4>3. v < s.nextVar /\ v \in Nat
        <5>1. s.free[i] < s.nextVar
          BY <1>2, <4>2 DEF FreeOK
        <5>2. v \in Nat
          BY <3>4 DEF Vars
        <5> QED BY ONLY <4>2, <5>1, <5>2
      <4> QED BY <1>1, <4>1, <4>3
    <3> QED BY <3>1, <3>4, <3>5, <3>6
  <2> QED BY <2>1, <2>2
<1>13. nv \in Nat
  BY <1>1, <1>5
<1>14. w \in [AllLits -> Seq(Watcher)]
  <2>1. <<>> \in Seq(Watcher) /\ \A p \in AllLits : s.watches[p] \in Seq(Watcher)
    BY <1>1, EmptySeq
  <2>2. \A p \in AllLits : (IF p[1] = v THEN <<>> ELSE s.watches[p]) \in Seq(Watcher)
    BY <2>1
  <2> QED BY <1>6, <2>2
<1>15. a \in SUBSET AllLits /\ re \in [Vars -> Nat] /\ le \in [Vars -> Nat] /\ s.heap \cup {v} \in SUBSET Vars
  BY <1>1, <1>7, <1>8, <1>9, <1>12 DEF NoClause
<1>16. t \in SolverType
  <2>1. s.heap \cup {v} \in SUBSET Vars /\ fr \in Seq(Vars)
    BY <1>12, <1>15
  <2> QED BY ONLY <1>1, <1>10, <1>13, <1>14, <1>15, <2>1 DEF SolverType
<1>17. /\ t.clause = s.clause /\ t.learnts = s.learnts /\ t.trail = s.trail /\ t.lim = s.lim /\ t.qhead = s.qhead
       /\ t.ok = s.ok /\ t.released = s.released /\ t.free = fr /\ t.nextVar = nv /\ t.watches = w /\ t.assigned = a
       /\ t.reason = re /\ t.level = le /\ t.heap = s.heap \cup {v}
  BY <1>1, <1>10 DEF SolverType
<1>18. Typed(t)
  BY <1>16, <1>17 DEF Typed
<1>19. \A p : p \in a <=> p \in s.assigned /\ p[1] # v
  <2>1. ASSUME NEW p \in AllLits PROVE p \in LitsOf({v}) <=> p[1] = v
    <3>1. PICK x \in Vars : \E b \in BOOLEAN : p = <<x, b>>
      BY DEF AllLits, LitsOf
    <3>2. PICK b \in BOOLEAN : p = <<x, b>>
      BY <3>1
    <3>3. p[1] = x
      BY <3>2
    <3>4. ASSUME x = v PROVE p \in LitsOf({v})
      BY <3>2, <3>4 DEF LitsOf
    <3>5. ASSUME p \in LitsOf({v}) PROVE p[1] = v
      BY <3>5 DEF LitsOf
    <3> QED BY <3>3, <3>4, <3>5
  <2> QED BY <1>1, <1>7, <2>1
<1>20. \A x \in Vars : x # v => re[x] = s.reason[x] /\ le[x] = s.level[x]
  BY <1>1, <1>8, <1>9
<1>21. \A p \in AllLits : (p[1] # v => w[p] = s.watches[p]) /\ (p[1] = v => w[p] = <<>>)
  BY <1>6
<1>22. \A x : IsFree(t, x) <=> IsFree(s, x) /\ x # v
  BY <1>12, <1>17 DEF IsFree
<1>23. nv = (IF Len(s.free) = 0 THEN s.nextVar + 1 ELSE s.nextVar)
  BY <1>3, <1>5
<1> QED BY <1>12, <1>17, <1>18, <1>19, <1>20, <1>21, <1>22, <1>23

\* newVar()
LEMMA NewVarIs ==
  ASSUME NEW s, Books(s), WatchesOK(s), Len(s.free) # 0 \/ s.nextVar < MaxVars,
         NEW v, v = NewVarOf(s), NEW t, t = NewVar(s)
  PROVE  /\ Books(t) /\ WatchesOK(t) /\ HasNew(s, t, v) /\ \A n \in 0..Len(s.trail) : AwakeTo(s, n) => AwakeTo(t, n)
         /\ \A m : Means(s, m) <=> Means(t, m)
         /\ \A p : AtRoot(t, p) <=> AtRoot(s, p)
         /\ \A L : Within(s, L) => Within(t, L)
<1>0. Typed(s) /\ TrailOK(s) /\ LevelsOK(s) /\ ReasonsOK(s) /\ HeapOK(s) /\ FreeOK(s) /\ Within(s, UsableLits(s))
  BY BooksAre
<1>1. /\ Typed(t) /\ v \in Vars /\ (IsFree(s, v) \/ v = s.nextVar) /\ (Len(s.free) = 0 <=> v = s.nextVar)
      /\ t.clause = s.clause /\ t.learnts = s.learnts /\ t.trail = s.trail /\ t.lim = s.lim /\ t.qhead = s.qhead
      /\ t.ok = s.ok /\ t.released = s.released
      /\ t.nextVar = (IF Len(s.free) = 0 THEN s.nextVar + 1 ELSE s.nextVar)
      /\ Distinct(t.free) /\ (\A x : IsFree(t, x) <=> IsFree(s, x) /\ x # v)
      /\ (\A p : p \in t.assigned <=> p \in s.assigned /\ p[1] # v)
      /\ t.heap = s.heap \cup {v}
      /\ (\A x \in Vars : x # v => t.reason[x] = s.reason[x] /\ t.level[x] = s.level[x])
      /\ (\A p \in AllLits : p[1] # v => t.watches[p] = s.watches[p])
      /\ (\A p \in AllLits : p[1] = v => t.watches[p] = <<>>)
  BY <1>0, NewVarFields
<1>2. s.nextVar \in Nat /\ MaxVars \in Nat /\ Vars = 0..(MaxVars - 1) /\ v \in Nat /\ t.nextVar \in Nat /\ s.nextVar <= MaxVars
  BY <1>0, <1>1, Bounds, TypedIs DEF HeapOK
<1>3. \A p \in AllLits : p[1] = v => ~Usable(s, p)
  <2> SUFFICES ASSUME NEW p \in AllLits, p[1] = v, Usable(s, p) PROVE FALSE
    OBVIOUS
  <2>1. v < s.nextVar /\ ~IsFree(s, v)
    BY DEF Usable
  <2> QED BY <1>1, <1>2, <2>1
<1>4. \A i \in 1..Len(s.trail) : s.trail[i] \in AllLits /\ s.trail[i][1] \in Vars /\ s.trail[i][1] # v
  BY <1>0, <1>3, TypedIs DEF TrailOK
<1>5. \A r \in DOMAIN s.clause : \A k \in 1..Len(s.clause[r]) : s.clause[r][k][1] # v
  BY <1>0, <1>3 DEF Within, UsableLits
<1>6. \A p \in AllLits : t.watches[p] = s.watches[p]
  <2> SUFFICES ASSUME NEW p \in AllLits, p[1] = v PROVE s.watches[p] = <<>>
    BY <1>1
  <2>1. PICK ws : ws = s.watches[p]
    OBVIOUS
  <2>2. ws \in Seq(Watcher) /\ Len(ws) \in Nat
    BY <1>0, <2>1, TypedIs, LenProperties
  <2>3. ASSUME Len(ws) # 0 PROVE FALSE
    <3>1. 1 \in 1..Len(ws)
      BY <2>2, <2>3
    <3>2. WatchedBy(s, p, ws)
      BY <2>1 DEF WatchesOK
    <3>3. PICK r : r = ws[1].ref
      OBVIOUS
    <3>4. Watched(s, r, Neg(p))
      BY <3>1, <3>2, <3>3 DEF WatchedBy
    <3>5. r \in DOMAIN s.clause
      BY <3>4 DEF Watched
    <3>6. 1 \in 1..Len(s.clause[r]) /\ 2 \in 1..Len(s.clause[r])
      BY <1>0, <3>5, TypedIs, ClauseIs
    <3>7. Neg(p)[1] # v
      BY <1>5, <3>4, <3>5, <3>6 DEF Watched
    <3> QED BY <3>7, Literals
  <2> QED BY <2>1, <2>2, <2>3, EmptySeq
<1>7. \A i \in 1..Len(s.trail) : Lv(t, i) = Lv(s, i)
  BY <1>1, <1>4 DEF Lv
<1>8. \A p \in AllLits : Usable(t, p) <=> Usable(s, p) \/ p[1] = v
  <2> SUFFICES ASSUME NEW p \in AllLits PROVE Usable(t, p) <=> Usable(s, p) \/ p[1] = v
    OBVIOUS
  <2>1. p[1] \in Nat
    BY Literals
  <2>2. CASE p[1] = v
    <3>1. v < t.nextVar
      <4>1. CASE v = s.nextVar
        BY <1>1, <1>2, <4>1
      <4>2. CASE IsFree(s, v)
        <5>1. v < s.nextVar
          BY <1>0, <4>2 DEF FreeOK, IsFree
        <5> QED BY <1>1, <1>2, <5>1
      <4> QED BY <1>1, <4>1, <4>2
    <3> QED BY <1>1, <2>2, <3>1 DEF Usable
  <2>3. CASE p[1] # v
    <3>1. p[1] < t.nextVar <=> p[1] < s.nextVar
      BY <1>1, <1>2, <2>1, <2>3
    <3> QED BY <1>1, <2>3, <3>1 DEF Usable
  <2> QED BY <2>2, <2>3
<1>9. \A p : OnTrail(t, p) <=> OnTrail(s, p)
  BY <1>1 DEF OnTrail
<1>10. TrailOK(t)
  <2>1. \A i \in 1..Len(t.trail) : t.trail[i] \in t.assigned /\ Usable(t, t.trail[i])
    BY <1>0, <1>1, <1>4, <1>8 DEF TrailOK
  <2>2. \A p \in t.assigned : OnTrail(t, p) \/ IsFree(t, p[1])
    BY <1>0, <1>1, <1>9 DEF TrailOK
  <2>3. \A p \in t.assigned : Neg(p) \notin t.assigned
    BY <1>0, <1>1 DEF TrailOK
  <2>4. t.qhead <= Len(t.trail) /\ \A i, j \in 1..Len(t.trail) : t.trail[i][1] = t.trail[j][1] => i = j
    BY <1>0, <1>1 DEF TrailOK
  <2> QED BY <2>1, <2>2, <2>3, <2>4 DEF TrailOK
<1>11. LevelsOK(t)
  BY <1>0, <1>1, <1>7 DEF LevelsOK
<1>12. ReasonsOK(t)
  <2>1. \A x, i : Explains(t, x, i) <=> Explains(s, x, i)
    BY <1>1 DEF Explains
  <2>2. \A i \in 1..Len(s.trail) : t.reason[s.trail[i][1]] = s.reason[s.trail[i][1]]
    BY <1>1, <1>4
  <2> QED BY <1>0, <1>1, <2>1, <2>2 DEF ReasonsOK
<1>13. \A x \in Vars : x # v => (Open(t, x) <=> Open(s, x))
  <2> SUFFICES ASSUME NEW x \in Vars, x # v PROVE Open(t, x) <=> Open(s, x)
    OBVIOUS
  <2>1. Open(s, x) <=> \A q \in s.assigned : q[1] # x
    BY <1>0, OpenIs
  <2>2. Open(t, x) <=> \A q \in t.assigned : q[1] # x
    BY <1>1, OpenIs
  <2> QED BY <1>1, <2>1, <2>2
<1>14. HeapOK(t)
  <2>1. t.nextVar <= MaxVars
    <3>1. CASE Len(s.free) = 0
      BY <1>1, <1>2, <3>1
    <3>2. CASE Len(s.free) # 0
      BY <1>1, <1>2, <3>2
    <3> QED BY <3>1, <3>2
  <2>2. ASSUME NEW x \in 0..(t.nextVar - 1), Open(t, x) PROVE x \in t.heap
    <3>1. CASE x = v
      BY <1>1, <3>1
    <3>2. CASE x # v
      <4>1. x \in 0..(s.nextVar - 1)
        BY <1>1, <1>2, <3>2
      <4>2. x \in Vars
        BY <1>2, <4>1
      <4>3. Open(s, x)
        BY <1>13, <2>2, <3>2, <4>2
      <4> QED BY <1>0, <1>1, <4>1, <4>3 DEF HeapOK
    <3> QED BY <3>1, <3>2
  <2>3. ASSUME NEW x \in t.heap PROVE x < t.nextVar
    <3>1. CASE x = v
      <4>1. PICK p : p = <<v, TRUE>>
        OBVIOUS
      <4>2. p \in AllLits /\ p[1] = v
        BY <1>1, <4>1 DEF AllLits, LitsOf
      <4> QED BY <1>8, <3>1, <4>2 DEF Usable
    <3>2. CASE x # v
      <4>1. x \in s.heap /\ x \in Nat
        BY <1>0, <1>1, <1>2, <3>2, TypedIs
      <4>2. x < s.nextVar
        BY <1>0, <4>1 DEF HeapOK
      <4> QED BY <1>1, <1>2, <4>1, <4>2
    <3> QED BY <3>1, <3>2
  <2> QED BY <2>1, <2>2, <2>3 DEF HeapOK
<1>15. FreeOK(t)
  <2>1. ASSUME NEW i \in 1..Len(t.free) PROVE t.free[i] < t.nextVar /\ ~Open(t, t.free[i])
    <3>1. PICK x : x = t.free[i]
      OBVIOUS
    <3>2. IsFree(t, x)
      BY <3>1 DEF IsFree
    <3>3. IsFree(s, x) /\ x # v
      BY <1>1, <3>2
    <3>4. x < s.nextVar /\ ~Open(s, x)
      BY <1>0, <3>3 DEF FreeOK, IsFree
    <3>5. x \in Vars
      BY <1>1, <3>1, TypedIs, LenProperties DEF SolverType
    <3>6. x < t.nextVar
      BY <1>1, <1>2, <3>4, <3>5
    <3> QED BY <1>13, <3>1, <3>3, <3>4, <3>5, <3>6
  <2> QED BY <1>1, <2>1 DEF FreeOK, Distinct
<1>16. ASSUME NEW L, Within(s, L) PROVE Within(t, L)
  BY <1>1, <1>6, <1>16 DEF Within
<1>17. Within(t, UsableLits(t))
  <2>1. UsableLits(s) \subseteq UsableLits(t)
    BY <1>8 DEF UsableLits
  <2>2. Within(t, UsableLits(s))
    BY <1>0, <1>16
  <2> QED BY <2>1, <2>2 DEF Within
<1>18. Books(t)
  BY <1>1, <1>10, <1>11, <1>12, <1>14, <1>15, <1>17 DEF Books
<1>19. \A p : AtRoot(t, p) <=> AtRoot(s, p)
  BY <1>1, <1>7 DEF AtRoot
<1>20. WatchesOK(t)
  <2>1. \A r, p : (Watched(t, r, p) <=> Watched(s, r, p)) /\ (InClause(t, r, p) <=> InClause(s, r, p))
    BY <1>1 DEF Watched, InClause
  <2>2. \A b : BlockerOK(s, b) => BlockerOK(t, b)
    BY <1>19, <2>1 DEF BlockerOK
  <2>3. DOMAIN t.clause = DOMAIN s.clause
    BY <1>1
  <2>4. \A p \in AllLits : WatchedBy(s, p, s.watches[p])
    BY DEF WatchesOK
  <2>5. \A p, ws : WatchedBy(s, p, ws) => WatchedBy(t, p, ws)
    BY <2>1, <2>2, <2>3 DEF WatchedBy
  <2> QED BY <1>6, <2>4, <2>5 DEF WatchesOK
<1>21. ASSUME NEW n \in 0..Len(s.trail), AwakeTo(s, n) PROVE AwakeTo(t, n)
  <2> SUFFICES ASSUME NEW r \in DOMAIN t.clause, NEW j \in 1..n PROVE AwakeAt(t, r, j)
    BY DEF AwakeTo
  <2>1. AwakeAt(s, r, j)
    BY <1>1, <1>21 DEF AwakeTo
  <2>2. j \in 1..Len(s.trail)
    <3>1. Len(s.trail) \in Nat
      BY <1>0, TypedIs
    <3> QED BY <3>1
  <2>3. \A p : InClause(t, r, p) <=> InClause(s, r, p)
    BY <1>1 DEF InClause
  <2> SUFFICES ASSUME NEW k \in {1, 2}, t.trail[j] = Neg(t.clause[r][k])
               PROVE  \E i \in 1..Len(t.trail) : InClause(t, r, t.trail[i]) /\ Lv(t, i) <= Lv(t, j)
    BY DEF AwakeAt
  <2>4. s.trail[j] = Neg(s.clause[r][k])
    BY <1>1
  <2>5. PICK i \in 1..Len(s.trail) : InClause(s, r, s.trail[i]) /\ Lv(s, i) <= Lv(s, j)
    BY <2>1, <2>4 DEF AwakeAt
  <2> QED BY <1>1, <1>7, <2>2, <2>3, <2>5
<1>22. \A m : Means(s, m) <=> Means(t, m)
  BY <1>1, <1>7 DEF Means
<1>23. HasNew(s, t, v)
  BY <1>1, <1>3, <1>7, <1>8 DEF HasNew
<1> QED BY <1>16, <1>18, <1>19, <1>20, <1>21, <1>22, <1>23

-----------------------------------------------------------------------------
(* addClause_() and releaseVar()                                           *)

\* The solver between two calls: it is at level 0 and, unless the clauses are
\* known to be contradictory, nothing is left to propagate.
Resting(s) ==
  /\ Books(s) /\ WatchesOK(s) /\ Len(s.lim) = 0 /\ s.qhead = Len(s.trail)
  /\ s.ok => AwakeTo(s, Len(s.trail))

\* A clause of the literals lits is kept in some form.
Keeping(s, lits) ==
  \/ \E p \in lits : Neg(p) \in lits
  \/ \E p \in lits : AtRoot(s, p)
  \/ \E r \in Originals(s) : \A k \in 1..Len(s.clause[r]) : s.clause[r][k] \in lits

\* t is s with one more clause, of the literals lits.
AddedTo(s, t, lits) ==
  /\ Resting(t) /\ Grows(s, t)
  /\ t.nextVar = s.nextVar /\ t.free = s.free /\ t.released = s.released /\ t.learnts = s.learnts
  /\ t.ok => s.ok
  /\ t.ok => Keeping(t, lits)
  /\ \A m \in Models : s.ok /\ Means(s, m) /\ lits \cap m # {} => t.ok /\ Means(t, m)
  /\ \A L : Within(s, L) /\ lits \subseteq L => Within(t, L)

\* A clause that is false at level 0 has no model.
LEMMA RootFalse ==
  ASSUME NEW s, Books(s), Len(s.lim) = 0, NEW r, Falsified(s, r), NEW m \in Models, Means(s, m)
  PROVE  FALSE
<1>1. r \in DOMAIN s.clause /\ \A k \in 1..Len(s.clause[r]) : OnTrail(s, Neg(s.clause[r][k]))
  BY DEF Falsified
<1>2. PICK k \in 1..Len(s.clause[r]) : s.clause[r][k] \in m
  BY <1>1 DEF Means
<1>3. s.clause[r][k] \in AllLits
  BY <1>1, BooksAre DEF Within, UsableLits
<1>4. AtRoot(s, Neg(s.clause[r][k]))
  BY <1>1, RootIs
<1>5. Neg(s.clause[r][k]) \in m
  BY <1>4 DEF AtRoot, Means
<1> QED BY <1>2, <1>3, <1>5 DEF Models

\* t is s but for ok and what is released.
Alike(s, t) ==
  /\ t.clause = s.clause /\ t.learnts = s.learnts /\ t.watches = s.watches /\ t.trail = s.trail /\ t.lim = s.lim
  /\ t.qhead = s.qhead /\ t.assigned = s.assigned /\ t.reason = s.reason /\ t.level = s.level /\ t.heap = s.heap
  /\ t.nextVar = s.nextVar /\ t.free = s.free

\* t is s but for the heap, which has what is open, and which clauses are
\* learnt, what is released and ok.
Similar(s, t) ==
  /\ t.clause = s.clause /\ t.watches = s.watches /\ t.trail = s.trail /\ t.lim = s.lim
  /\ t.qhead = s.qhead /\ t.assigned = s.assigned /\ t.reason = s.reason /\ t.level = s.level
  /\ t.nextVar = s.nextVar /\ t.free = s.free
  /\ t \in SolverType /\ t.learnts \subseteq DOMAIN t.clause /\ HeapOK(t)

\* What similar solvers have in common.
InCommon(y, t) ==
  /\ Books(t) /\ (WatchesOK(y) => WatchesOK(t)) /\ (\A n : AwakeTo(y, n) => AwakeTo(t, n))
  /\ Grows(y, t)
  /\ (\A p : AtRoot(t, p) <=> AtRoot(y, p))
  /\ (\A m : Means(y, m) <=> Means(t, m))
  /\ (\A L : Within(y, L) => Within(t, L))
  /\ (\A v : Open(t, v) <=> Open(y, v))
  /\ (\A p : Usable(t, p) <=> Usable(y, p))

\* Solvers that differ in nothing the books are about.
LEMMA SimilarBooks ==
  ASSUME NEW y, Books(y), NEW t, Similar(y, t)
  PROVE  InCommon(y, t)
<1>1. Typed(y) /\ TrailOK(y) /\ LevelsOK(y) /\ ReasonsOK(y) /\ HeapOK(y) /\ FreeOK(y) /\ Within(y, UsableLits(y))
  BY BooksAre
<1>2. /\ t.clause = y.clause /\ t.watches = y.watches /\ t.trail = y.trail /\ t.lim = y.lim
      /\ t.qhead = y.qhead /\ t.assigned = y.assigned /\ t.reason = y.reason /\ t.level = y.level
      /\ t.nextVar = y.nextVar /\ t.free = y.free
      /\ t \in SolverType /\ t.learnts \subseteq DOMAIN t.clause /\ HeapOK(t)
  BY DEF Similar
<1>3. Typed(t)
  BY <1>1, <1>2 DEF Typed
<1>4. \A v : (Open(t, v) <=> Open(y, v)) /\ (IsFree(t, v) <=> IsFree(y, v))
  BY <1>2 DEF Open, IsFree
<1>5. \A q : (Usable(t, q) <=> Usable(y, q)) /\ (OnTrail(t, q) <=> OnTrail(y, q))
  BY <1>2, <1>4 DEF Usable, OnTrail
<1>6. \A i : Lv(t, i) = Lv(y, i)
  BY <1>2 DEF Lv
<1>7. TrailOK(t)
  BY <1>1, <1>2, <1>4, <1>5 DEF TrailOK
<1>8. LevelsOK(t)
  BY <1>1, <1>2, <1>6 DEF LevelsOK
<1>9. ReasonsOK(t)
  <2>1. \A z, i : Explains(t, z, i) <=> Explains(y, z, i)
    BY <1>2 DEF Explains
  <2> QED BY <1>1, <1>2, <2>1 DEF ReasonsOK
<1>10. HeapOK(t) /\ FreeOK(t)
  BY <1>1, <1>2, <1>4 DEF FreeOK
<1>11. \A L : Within(y, L) => Within(t, L)
  BY <1>2 DEF Within
<1>12. Within(t, UsableLits(t))
  <2>1. UsableLits(t) = UsableLits(y)
    BY <1>5 DEF UsableLits
  <2> QED BY <1>1, <1>11, <2>1
<1>13. Books(t)
  BY <1>3, <1>7, <1>8, <1>9, <1>10, <1>12 DEF Books
<1>14. \A p : AtRoot(t, p) <=> AtRoot(y, p)
  BY <1>2, <1>6 DEF AtRoot
<1>15. WatchesOK(y) => WatchesOK(t)
  <2>1. \A q : AtRoot(y, q) => AtRoot(t, q)
    BY <1>14
  <2>2. t.clause = y.clause /\ t.watches = y.watches
    BY <1>2
  <2> QED BY <2>1, <2>2, SameWatches
<1>16. \A n : AwakeTo(y, n) => AwakeTo(t, n)
  BY <1>2, SameAwake
<1>17. \A m : Means(y, m) <=> Means(t, m)
  BY <1>2, <1>6 DEF Means
<1>18. Grows(y, t)
  <2>1. Len(y.trail) \in Nat
    BY <1>1, TypedIs
  <2>2. \A r, q : InClause(y, r, q) <=> InClause(t, r, q)
    BY <1>2 DEF InClause
  <2> QED BY <1>2, <1>6, <2>1, <2>2 DEF Grows
<1> QED BY <1>4, <1>5, <1>11, <1>13, <1>14, <1>15, <1>16, <1>17, <1>18 DEF InCommon

\* Solvers that differ only in what was released, and in ok.
LEMMA AlikeBooks ==
  ASSUME NEW y, Books(y), NEW t \in SolverType, Alike(y, t)
  PROVE  /\ Books(t) /\ (WatchesOK(y) => WatchesOK(t)) /\ (\A n : AwakeTo(y, n) => AwakeTo(t, n))
         /\ Grows(y, t)
         /\ (\A p : AtRoot(t, p) <=> AtRoot(y, p))
         /\ (\A m : Means(y, m) <=> Means(t, m))
         /\ (\A L : Within(y, L) => Within(t, L))
         /\ (\A v : Open(t, v) <=> Open(y, v))
         /\ (\A p : Usable(t, p) <=> Usable(y, p))
<1>1. Typed(y) /\ HeapOK(y)
  BY BooksAre
<1>2. Similar(y, t)
  BY <1>1 DEF Alike, Similar, Typed, HeapOK, Open
<1> QED BY <1>2, SimilarBooks DEF InCommon

\* Growing twice is growing.
LEMMA GrowsTwice ==
  ASSUME NEW s, Typed(s), NEW e, Typed(e), NEW t, Typed(t), Grows(s, e), Grows(e, t)
  PROVE  Grows(s, t)
<1>1. Len(s.trail) \in Nat /\ Len(e.trail) \in Nat /\ Len(t.trail) \in Nat
  BY TypedIs
<1>2. Len(s.trail) <= Len(e.trail) /\ Len(e.trail) <= Len(t.trail)
  BY DEF Grows
<1>3. \A i \in 1..Len(s.trail) : i \in 1..Len(e.trail)
  BY <1>1, <1>2
<1>4. \A i \in 1..Len(s.trail) : t.trail[i] = s.trail[i] /\ Lv(t, i) = Lv(s, i)
  BY <1>3 DEF Grows
<1>5. \A r \in DOMAIN s.clause : r \in DOMAIN t.clause /\ \A q \in AllLits : InClause(s, r, q) <=> InClause(t, r, q)
  BY DEF Grows
<1>6. Len(s.trail) <= Len(t.trail)
  BY <1>1, <1>2
<1> QED BY <1>4, <1>5, <1>6 DEF Grows

\* t is s with p added at level 0 and propagated.
UnitAdded(s, t, p) ==
  /\ Resting(t) /\ Grows(s, t) /\ AtRoot(t, p)
  /\ t.nextVar = s.nextVar /\ t.free = s.free /\ t.released = s.released /\ t.learnts = s.learnts
  /\ \A m \in Models : Means(s, m) /\ p \in m => t.ok /\ Means(t, m)
  /\ \A L : Within(s, L) => Within(t, L)

WithOk(x) == [x.s EXCEPT !.ok = x.confl = NoClause]

\* A literal is added at level 0, as addClause_() and search() do.
LEMMA UnitIs ==
  ASSUME NEW s, Resting(s), s.ok, NEW p \in AllLits, Usable(s, p), Open(s, p[1]),
         NEW x, x = Propagate(Enqueue(s, p, NoClause)), NEW t, t = WithOk(x)
  PROVE  UnitAdded(s, t, p)
<1>1. Books(s) /\ WatchesOK(s) /\ Len(s.lim) = 0 /\ s.qhead = Len(s.trail) /\ AwakeTo(s, Len(s.trail)) /\ Typed(s)
  BY BooksAre DEF Resting
<1>2. PICK e : e = Enqueue(s, p, NoClause)
  OBVIOUS
<1>3. NoClause \in Nat /\ Len(s.trail) \in Nat /\ Len(s.trail) \in 0..Len(s.trail)
  BY <1>1, TypedIs DEF NoClause
<1>4. /\ Books(e) /\ Grows(s, e) /\ Lv(e, Len(s.trail) + 1) = Len(s.lim) /\ WatchesOK(e)
      /\ AwakeTo(e, Len(s.trail))
  BY <1>1, <1>2, <1>3, EnqueueBooks
<1>5. /\ e.clause = s.clause /\ e.learnts = s.learnts /\ e.watches = s.watches /\ e.lim = s.lim
      /\ e.qhead = s.qhead /\ e.nextVar = s.nextVar /\ e.released = s.released /\ e.free = s.free
      /\ Len(e.trail) = Len(s.trail) + 1 /\ e.trail[Len(s.trail) + 1] = p
      /\ \A i \in 1..Len(s.trail) : e.trail[i] = s.trail[i]
  BY <1>1, <1>2, <1>3, EnqueueFields
<1>6. Propagating(x, e) /\ x.s.qhead = Len(x.s.trail)
  BY <1>1, <1>2, <1>4, <1>5, PropagateIs
<1>7. PICK y, cf : y = x.s /\ cf = x.confl
  OBVIOUS
<1>8. /\ Books(y) /\ Extends(e, y) /\ WatchesOK(y) /\ y.qhead = Len(y.trail)
      /\ (cf = NoClause => AwakeTo(y, y.qhead))
      /\ (cf # NoClause => Falsified(y, cf))
      /\ (\A L : Within(e, L) => Within(y, L)) /\ Preserves(e, y)
  BY <1>1, <1>4, <1>5, <1>6, <1>7 DEF Propagating
<1>9. PICK o \in BOOLEAN : o = (cf = NoClause)
  OBVIOUS
<1>10. t = [y EXCEPT !.ok = o]
  BY <1>7, <1>9 DEF WithOk
<1>11. y \in SolverType
  BY <1>8, BooksAre, TypedIs
<1>12. /\ t.clause = y.clause /\ t.learnts = y.learnts /\ t.watches = y.watches /\ t.trail = y.trail /\ t.lim = y.lim
       /\ t.qhead = y.qhead /\ t.assigned = y.assigned /\ t.reason = y.reason /\ t.level = y.level /\ t.heap = y.heap
       /\ t.nextVar = y.nextVar /\ t.released = y.released /\ t.free = y.free /\ t.ok = o /\ t \in SolverType
  BY <1>10, <1>11 DEF SolverType
<1> HIDE DEF Resting
<1>120. Alike(y, t)
  BY <1>12 DEF Alike
<1>13. /\ Books(t) /\ WatchesOK(t) /\ (\A n : AwakeTo(y, n) => AwakeTo(t, n)) /\ Grows(y, t)
       /\ (\A m : Means(y, m) <=> Means(t, m)) /\ (\A L : Within(y, L) => Within(t, L))
  BY <1>8, <1>12, <1>120, AlikeBooks
<1>14. Len(t.lim) = 0 /\ t.qhead = Len(t.trail)
  BY <1>1, <1>5, <1>8, <1>12 DEF Extends
<1>15. Resting(t)
  BY <1>8, <1>9, <1>12, <1>13, <1>14 DEF Resting
<1>16. Typed(e) /\ Typed(y) /\ Typed(t)
  BY <1>4, <1>8, <1>13, BooksAre
<1>17. Grows(s, t)
  <2>1. Grows(e, y)
    BY <1>8 DEF Extends
  <2>2. Grows(s, y)
    BY <1>1, <1>4, <1>16, <2>1, GrowsTwice
  <2> QED BY <1>1, <1>13, <1>16, <2>2, GrowsTwice
<1>18. AtRoot(t, p)
  <2>1. Len(s.trail) + 1 \in 1..Len(e.trail)
    BY <1>3, <1>5
  <2>2. Len(e.trail) <= Len(y.trail) /\ y.trail[Len(s.trail) + 1] = p
    BY <1>5, <1>8, <2>1 DEF Extends, Grows
  <2>3. Len(s.trail) + 1 \in 1..Len(t.trail) /\ t.trail[Len(s.trail) + 1] = p
    BY <1>12, <1>16, <2>1, <2>2, TypedIs
  <2>4. OnTrail(t, p)
    BY <2>3 DEF OnTrail
  <2> QED BY <1>13, <1>14, <2>4, RootIs
<1>19. t.nextVar = s.nextVar /\ t.free = s.free /\ t.released = s.released /\ t.learnts = s.learnts
  BY <1>5, <1>8, <1>12 DEF Extends
<1>20. ASSUME NEW m \in Models, Means(s, m), p \in m PROVE t.ok /\ Means(t, m)
  <2>1. Means(e, m)
    <3>1. \A i \in 1..Len(e.trail) : i \in 1..Len(s.trail) \/ i = Len(s.trail) + 1
      BY <1>3, <1>5
    <3>2. \A i \in 1..Len(e.trail) : Lv(e, i) = 0 => e.trail[i] \in m
      BY <1>4, <1>5, <1>20, <3>1 DEF Grows, Means
    <3> QED BY <1>5, <1>20, <3>2 DEF Means
  <2>2. Means(y, m)
    BY <1>8, <2>1 DEF Preserves
  <2>3. cf = NoClause
    <3>1. Len(y.lim) = 0
      BY <1>12, <1>14
    <3> QED BY <1>8, <2>2, <3>1, RootFalse
  <2>4. Means(t, m)
    BY <1>13, <2>2
  <2> QED BY <1>9, <1>12, <2>3, <2>4
<1>21. ASSUME NEW L, Within(s, L) PROVE Within(t, L)
  <2>1. Within(e, L)
    BY <1>5, <1>21 DEF Within
  <2>2. Within(y, L)
    BY <1>8, <2>1
  <2> QED BY <1>13, <2>2
<1> QED BY <1>15, <1>17, <1>18, <1>19, <1>20, <1>21 DEF UnitAdded

\* c is what is left of the clause lits.
RestOf(s, lits, c) ==
  /\ c \in Seq(AllLits) /\ Len(c) \in Nat
  /\ \A i \in 1..Len(c) : c[i] \in lits /\ ~True(s, c[i]) /\ ~False(s, c[i])
  /\ \A p \in lits : (\E i \in 1..Len(c) : c[i] = p) \/ AtRoot(s, Neg(p))
  /\ \A i, j \in 1..Len(c) : c[i][1] = c[j][1] => i = j

Settles(s, lits) == \E p \in lits : True(s, p) \/ Neg(p) \in lits

\* addClause_() of literals none of which is true or opposed to another: those
\* that are not false, in order.
LEMMA RestOfClause ==
  ASSUME NEW s, Resting(s), NEW lits \in SUBSET AllLits, \A p \in lits : Usable(s, p),
         ~Settles(s, lits), NEW c, c = Sorted({p \in lits : ~False(s, p)})
  PROVE  RestOf(s, lits, c)
<1>0. ~\E p \in lits : True(s, p) \/ Neg(p) \in lits
  BY DEF Settles
<1>1. PICK S : S = {p \in lits : ~False(s, p)}
  OBVIOUS
<1>2. S \in SUBSET AllLits /\ \A p \in S : Neg(p) \notin S
  BY <1>0, <1>1
<1>3. c = Sorted(S)
  BY <1>1
<1>4. /\ c \in Seq(AllLits) /\ Len(c) \in Nat
      /\ \A p \in AllLits : p \in S <=> \E i \in 1..Len(c) : c[i] = p
      /\ \A i, j \in 1..Len(c) : c[i][1] = c[j][1] => i = j
  BY <1>2, <1>3, SortedIs
<1>5. \A i \in 1..Len(c) : c[i] \in S
  <2>1. \A i \in 1..Len(c) : c[i] \in AllLits
    BY <1>4, LenProperties
  <2> QED BY <1>4, <2>1
<1>6. \A p \in lits : p \in S \/ AtRoot(s, Neg(p))
  <2>1. Books(s) /\ Len(s.lim) = 0
    BY DEF Resting
  <2> QED BY <1>1, <2>1, RootIs
<1> QED BY <1>0, <1>1, <1>4, <1>5, <1>6 DEF RestOf

\* addClause_()
LEMMA AddClauseIs ==
  ASSUME NEW s, Resting(s), NEW lits \in SUBSET AllLits, \A p \in lits : Usable(s, p), NEW t, t = AddClause(s, lits)
  PROVE  AddedTo(s, t, lits)
<1>0. Books(s) /\ WatchesOK(s) /\ Len(s.lim) = 0 /\ s.qhead = Len(s.trail) /\ (s.ok => AwakeTo(s, Len(s.trail))) /\ Typed(s)
  BY BooksAre DEF Resting
<1>1. s \in SolverType /\ Len(s.trail) \in Nat /\ s.ok \in BOOLEAN
  BY <1>0, TypedIs
<1>2. Grows(s, s)
  BY <1>1 DEF Grows
<1>3. CASE ~s.ok \/ \E p \in lits : True(s, p) \/ Neg(p) \in lits
  <2>1. t = s
    BY <1>3 DEF AddClause
  <2>2. s.ok => Keeping(s, lits)
    BY <1>0, <1>3, RootIs DEF Keeping
  <2> QED BY <1>2, <2>1, <2>2 DEF AddedTo
<1>4. CASE s.ok /\ ~\E p \in lits : True(s, p) \/ Neg(p) \in lits
  <2>1. PICK c : c = Sorted({p \in lits : ~False(s, p)})
    OBVIOUS
  <2>20. ~Settles(s, lits)
    BY <1>4 DEF Settles
  <2>21. RestOf(s, lits, c)
    BY <2>1, <2>20, RestOfClause
  <2>2. /\ c \in Seq(AllLits) /\ Len(c) \in Nat
        /\ \A i \in 1..Len(c) : c[i] \in lits /\ ~True(s, c[i]) /\ ~False(s, c[i])
        /\ \A p \in lits : (\E i \in 1..Len(c) : c[i] = p) \/ AtRoot(s, Neg(p))
        /\ \A i, j \in 1..Len(c) : c[i][1] = c[j][1] => i = j
    BY <2>21 DEF RestOf
  <2>3. t = IF c = <<>> THEN [s EXCEPT !.ok = FALSE]
            ELSE IF Len(c) = 1
            THEN LET u == Propagate(Enqueue(s, c[1], NoClause))
                 IN  [u.s EXCEPT !.ok = u.confl = NoClause]
            ELSE Attach(s, FreshRef(s), c)
    BY <1>4, <2>1 DEF AddClause
  <2>4. c = <<>> <=> Len(c) = 0
    BY <2>2, EmptySeq
  <2>5. ASSUME NEW m \in Models, Means(s, m), lits \cap m # {} PROVE \E i \in 1..Len(c) : c[i] \in m
    <3>1. PICK p \in lits : p \in m
      BY <2>5
    <3>2. ~AtRoot(s, Neg(p))
      <4> SUFFICES ASSUME AtRoot(s, Neg(p)) PROVE FALSE
        OBVIOUS
      <4>1. Neg(p) \in m
        BY <2>5 DEF AtRoot, Means
      <4> QED BY <3>1, <4>1 DEF Models
    <3> QED BY <2>2, <3>1, <3>2
  <2>6. CASE Len(c) = 0
    <3>1. t = [s EXCEPT !.ok = FALSE]
      BY <2>3, <2>4, <2>6
    <3>2. t \in SolverType /\ Alike(s, t) /\ t.released = s.released /\ t.ok = FALSE
      BY <1>1, <3>1 DEF SolverType, Alike
    <3>3. Books(t) /\ WatchesOK(t) /\ Grows(s, t) /\ (\A L : Within(s, L) => Within(t, L))
      BY <1>0, <3>2, AlikeBooks
    <3>4. Resting(t)
      BY <1>0, <3>2, <3>3 DEF Resting, Alike
    <3>5. \A m \in Models : ~(Means(s, m) /\ lits \cap m # {})
      BY <2>5, <2>6
    <3> QED BY <3>2, <3>3, <3>4, <3>5 DEF AddedTo, Alike
  <2>7. CASE Len(c) = 1
    <3>1. PICK p : p = c[1]
      OBVIOUS
    <3>2. p \in lits /\ p \in AllLits /\ Usable(s, p) /\ ~True(s, p) /\ ~False(s, p)
      BY <2>2, <2>7, <3>1
    <3>3. Open(s, p[1])
      BY <1>0, <3>2, OpenIs, Literals
    <3>4. PICK u : u = Propagate(Enqueue(s, p, NoClause))
      OBVIOUS
    <3>5. t = WithOk(u)
      BY <2>3, <2>4, <2>7, <3>1, <3>4 DEF WithOk
    <3>60. UnitAdded(s, t, p)
      BY <1>4, <3>2, <3>3, <3>4, <3>5, UnitIs
    <3>6. /\ Resting(t) /\ Grows(s, t) /\ AtRoot(t, p)
          /\ t.nextVar = s.nextVar /\ t.free = s.free /\ t.released = s.released /\ t.learnts = s.learnts
          /\ \A m \in Models : Means(s, m) /\ p \in m => t.ok /\ Means(t, m)
          /\ \A L : Within(s, L) => Within(t, L)
      BY <3>60 DEF UnitAdded
    <3>7. \A m \in Models : Means(s, m) /\ lits \cap m # {} => t.ok /\ Means(t, m)
      BY <2>5, <2>7, <3>1, <3>6
    <3>8. Keeping(t, lits)
      BY <3>2, <3>6 DEF Keeping
    <3> QED BY <1>4, <3>6, <3>7, <3>8 DEF AddedTo
  <2>8. CASE Len(c) # 0 /\ Len(c) # 1
    <3>1. PICK r : r = FreshRef(s)
      OBVIOUS
    <3>2. r \in Nat \ {0} /\ r \notin DOMAIN s.clause
      BY <1>0, <3>1, FreshRefIs
    <3>3. c \in ClauseSeq
      <4>0. PICK n : n = Len(c)
        OBVIOUS
      <4>1. n >= 2
        <5>1. n \in Nat /\ n # 0 /\ n # 1
          BY <2>2, <2>8, <4>0
        <5> QED BY <5>1
      <4> QED BY <2>2, <4>0, <4>1 DEF ClauseSeq
    <3>4. t = Attach(s, r, c)
      BY <2>3, <2>4, <2>8, <3>1
    <3>5. \A k \in 1..Len(c) : Usable(s, c[k])
      BY <2>2
    <3>6. /\ Books(t) /\ Grows(s, t) /\ WatchesOK(t)
          /\ \A n \in 0..Len(s.trail) : \A x \in DOMAIN s.clause : \A j \in 1..n : AwakeTo(s, n) => AwakeAt(t, x, j)
          /\ \A L : Within(s, L) /\ (\A k \in 1..Len(c) : c[k] \in L) => Within(t, L)
      BY <1>0, <3>2, <3>3, <3>4, <3>5, AttachBooks
    <3>7. /\ t.learnts = s.learnts /\ t.trail = s.trail /\ t.lim = s.lim
          /\ t.qhead = s.qhead /\ t.assigned = s.assigned /\ t.level = s.level
          /\ t.ok = s.ok /\ t.nextVar = s.nextVar /\ t.released = s.released /\ t.free = s.free
          /\ DOMAIN t.clause = DOMAIN s.clause \cup {r} /\ t.clause[r] = c
          /\ \A x \in DOMAIN s.clause : t.clause[x] = s.clause[x]
      <4>1. Attached(s, t, r, c)
        BY <1>0, <3>2, <3>3, <3>4, AttachFields
      <4> QED BY <4>1 DEF Attached
    <3>8. AwakeTo(t, Len(t.trail))
      <4> SUFFICES ASSUME NEW x \in DOMAIN t.clause, NEW j \in 1..Len(t.trail) PROVE AwakeAt(t, x, j)
        BY DEF AwakeTo
      <4>1. CASE x # r
        <5>1. Len(s.trail) \in 0..Len(s.trail) /\ x \in DOMAIN s.clause
          BY <1>1, <3>7, <4>1
        <5> QED BY <1>0, <1>4, <3>6, <3>7, <5>1
      <4>2. CASE x = r
        <5> SUFFICES ASSUME NEW k \in {1, 2}, t.trail[j] = Neg(t.clause[x][k]) PROVE FALSE
          BY DEF AwakeAt
        <5>1. k \in 1..Len(c)
          BY <3>3, ClauseIs
        <5>2. t.trail[j] \in s.assigned
          BY <1>0, <3>7, BooksAre DEF TrailOK
        <5> QED BY <2>2, <3>7, <4>2, <5>1, <5>2 DEF False
      <4> QED BY <4>1, <4>2
    <3>9. Resting(t)
      BY <1>0, <3>6, <3>7, <3>8 DEF Resting
    <3>10. Keeping(t, lits)
      <4>1. s.learnts \subseteq DOMAIN s.clause
        BY <1>0, TypedIs
      <4>2. r \in Originals(t)
        BY <3>2, <3>7, <4>1 DEF Originals
      <4>3. \A k \in 1..Len(t.clause[r]) : t.clause[r][k] \in lits
        BY <2>2, <3>7
      <4> QED BY <4>2, <4>3 DEF Keeping
    <3>11. ASSUME NEW m \in Models, Means(s, m), lits \cap m # {} PROVE Means(t, m)
      <4>1. \A i : Lv(t, i) = Lv(s, i)
        BY <3>7 DEF Lv
      <4>2. \A x \in DOMAIN t.clause : \E k \in 1..Len(t.clause[x]) : t.clause[x][k] \in m
        BY <2>5, <3>7, <3>11 DEF Means
      <4>3. \A i \in 1..Len(t.trail) : Lv(t, i) = 0 => t.trail[i] \in m
        BY <3>7, <3>11, <4>1 DEF Means
      <4> QED BY <4>2, <4>3 DEF Means
    <3>12. \A L : Within(s, L) /\ lits \subseteq L => Within(t, L)
      BY <2>2, <3>6
    <3> QED BY <1>4, <3>6, <3>7, <3>9, <3>10, <3>11, <3>12 DEF AddedTo
  <2> QED BY <2>6, <2>7, <2>8
<1> QED BY <1>1, <1>3, <1>4

\* releaseVar(): the literal is added as a clause.
LEMMA ReleaseVarIs ==
  ASSUME NEW s, Resting(s), s.ok => ReleasedOK(s), NEW p \in AllLits, Usable(s, p), NEW t, t = ReleaseVar(s, p)
  PROVE  IF Open(s, p[1])
         THEN \E u : /\ AddedTo(s, u, {p}) /\ Resting(t) /\ Alike(u, t) /\ t.ok = u.ok
                     /\ t.released = Append(s.released, p[1])
                     /\ t.ok => AtRoot(t, p) /\ ReleasedOK(t)
         ELSE t = s
<1>1. CASE ~Open(s, p[1])
  BY <1>1 DEF ReleaseVar
<1>2. CASE Open(s, p[1])
  <2>1. PICK u : u = AddClause(s, {p})
    OBVIOUS
  <2>2. AddedTo(s, u, {p})
    BY <2>1, AddClauseIs
  <2>3. /\ Resting(u) /\ Grows(s, u)
        /\ u.nextVar = s.nextVar /\ u.free = s.free /\ u.released = s.released /\ u.learnts = s.learnts
        /\ u.ok => s.ok
        /\ u.ok => Keeping(u, {p})
    BY <2>2 DEF AddedTo
  <2>4. Books(u) /\ WatchesOK(u) /\ Len(u.lim) = 0 /\ u.qhead = Len(u.trail) /\ (u.ok => AwakeTo(u, Len(u.trail)))
        /\ Typed(u) /\ u \in SolverType
    BY <2>3, BooksAre, TypedIs DEF Resting
  <2>5. PICK re : re = Append(u.released, p[1])
    OBVIOUS
  <2>6. p[1] \in Vars /\ u.released \in Seq(Vars) /\ s.released \in Seq(Vars)
    BY <2>3, <2>4, Literals, TypedIs
  <2>7. re \in Seq(Vars) /\ Len(re) = Len(u.released) + 1 /\ Len(u.released) \in Nat
        /\ re[Len(u.released) + 1] = p[1] /\ \A i \in 1..Len(u.released) : re[i] = u.released[i]
    <3>1. PICK q, v : q = u.released /\ v = p[1]
      OBVIOUS
    <3>2. re = Append(q, v) /\ q \in Seq(Vars) /\ v \in Vars
      BY <2>5, <2>6, <3>1
    <3>3. re \in Seq(Vars) /\ Len(re) = Len(q) + 1 /\ Len(q) \in Nat
          /\ re[Len(q) + 1] = v /\ \A i \in 1..Len(q) : re[i] = q[i]
      BY <3>2, AppendIs
    <3> QED BY <3>1, <3>3
  <2>8. t = [u EXCEPT !.released = re]
    BY <1>2, <2>1, <2>5 DEF ReleaseVar
  <2>9. t \in SolverType /\ Alike(u, t) /\ t.ok = u.ok /\ t.released = re
    BY <2>4, <2>7, <2>8 DEF SolverType, Alike
  <2>10. /\ Books(t) /\ WatchesOK(t) /\ (\A n : AwakeTo(u, n) => AwakeTo(t, n)) /\ Grows(u, t)
         /\ (\A q : AtRoot(t, q) <=> AtRoot(u, q))
    BY <2>4, <2>9, AlikeBooks
  <2>11. Resting(t)
    BY <2>4, <2>9, <2>10 DEF Resting, Alike
  <2>12. ASSUME t.ok PROVE AtRoot(t, p) /\ ReleasedOK(t)
    <3>1. Keeping(u, {p})
      BY <2>3, <2>9, <2>12
    <3>2. AtRoot(u, p)
      <4>1. Neg(p) # p
        BY Literals
      <4>2. ASSUME NEW r \in Originals(u), \A k \in 1..Len(u.clause[r]) : u.clause[r][k] \in {p} PROVE FALSE
        <5>1. u.clause[r] \in ClauseSeq
          BY <2>4, TypedIs DEF Originals
        <5>2. 1 \in 1..Len(u.clause[r]) /\ 2 \in 1..Len(u.clause[r])
          BY <5>1, ClauseIs
        <5>3. u.clause[r][1] = p /\ u.clause[r][2] = p
          BY <4>2, <5>2
        <5>4. 1 = 2
          BY <5>1, <5>2, <5>3, ClauseIs
        <5> QED BY <5>4
      <4> QED BY <3>1, <4>1, <4>2 DEF Keeping
    <3>3. AtRoot(t, p)
      BY <2>10, <3>2
    <3>4. Books(s) /\ Typed(s) /\ ReleasedOK(s)
      BY <2>3, <2>9, <2>12, BooksAre DEF Resting
    <3>5. ASSUME NEW i \in 1..Len(s.released)
          PROVE  /\ s.released[i] # p[1]
                 /\ \E j \in 1..Len(t.trail) : t.trail[j][1] = s.released[i] /\ Lv(t, j) = 0
      <4>1. PICK j \in 1..Len(s.trail) : s.trail[j][1] = s.released[i] /\ Lv(s, j) = 0
        BY <3>4 DEF ReleasedOK
      <4>2. s.trail[j] \in s.assigned
        BY <3>4, BooksAre DEF TrailOK
      <4>3. s.released[i] # p[1]
        <5>1. \A q \in s.assigned : q[1] # p[1]
          BY <1>2, <2>6, <3>4, OpenIs
        <5> QED BY <4>1, <4>2, <5>1
      <4>4. Len(s.trail) \in Nat /\ Len(u.trail) \in Nat /\ Len(t.trail) \in Nat
        BY <2>4, <2>10, <3>4, BooksAre, TypedIs
      <4>5. Len(s.trail) <= Len(u.trail) /\ Len(u.trail) <= Len(t.trail)
        BY <2>3, <2>10 DEF Grows
      <4>6. j \in 1..Len(u.trail) /\ j \in 1..Len(t.trail)
        BY <4>4, <4>5
      <4>7. t.trail[j] = s.trail[j] /\ Lv(t, j) = 0
        BY <2>3, <2>10, <4>1, <4>6 DEF Grows
      <4> QED BY <4>1, <4>3, <4>6, <4>7
    <3>6. PICK N \in Nat : N = Len(u.released)
      BY <2>7
    <3>7. \A i \in 1..(N + 1) : i \in 1..N \/ i = N + 1
      OBVIOUS
    <3>8. Distinct(t.released)
      <4>1. \A i, j \in 1..N : re[i] = re[j] => i = j
        BY <2>3, <2>7, <3>4, <3>6 DEF ReleasedOK, Distinct
      <4>2. \A i \in 1..N : re[i] # re[N + 1]
        BY <2>3, <2>7, <3>5, <3>6
      <4>3. \A i, j \in 1..(N + 1) : re[i] = re[j] => i = j
        BY <3>7, <4>1, <4>2
      <4> QED BY <2>7, <2>9, <3>6, <4>3 DEF Distinct
    <3>9. \A i \in 1..(N + 1) : \E j \in 1..Len(t.trail) : t.trail[j][1] = re[i] /\ Lv(t, j) = 0
      <4>1. \E j \in 1..Len(t.trail) : t.trail[j][1] = p[1] /\ Lv(t, j) = 0
        BY <3>3 DEF AtRoot
      <4>2. ASSUME NEW i \in 1..N PROVE \E j \in 1..Len(t.trail) : t.trail[j][1] = re[i] /\ Lv(t, j) = 0
        <5>1. i \in 1..Len(s.released) /\ re[i] = s.released[i]
          BY <2>3, <2>7, <3>6
        <5> QED BY <3>5, <5>1
      <4>3. re[N + 1] = p[1]
        BY <2>7, <3>6
      <4> QED BY <3>7, <4>1, <4>2, <4>3
    <3>10. ReleasedOK(t)
      BY <2>7, <2>9, <3>6, <3>8, <3>9 DEF ReleasedOK
    <3> QED BY <3>3, <3>10
  <2>13. t.released = Append(s.released, p[1])
    BY <2>3, <2>5, <2>9
  <2> QED BY <1>2, <2>2, <2>9, <2>11, <2>12, <2>13
<1> QED BY <1>1, <1>2

-----------------------------------------------------------------------------
(* implies()                                                               *)

\* No assumption contradicts the state or an earlier assumption.
Unopposed(s, ps) ==
  \A i \in 1..Len(ps) : ~False(s, ps[i]) /\ \A j \in 1..(i - 1) : ps[j] # Neg(ps[i])

\* e is s with the first n assumptions made true.
Assuming(s, ps, e, n) ==
  /\ Books(e) /\ WatchesOK(e) /\ Grows(s, e)
  /\ e.clause = s.clause /\ e.learnts = s.learnts /\ e.watches = s.watches /\ e.lim = s.lim
  /\ e.qhead = s.qhead /\ e.heap = s.heap /\ e.ok = s.ok /\ e.nextVar = s.nextVar
  /\ e.released = s.released /\ e.free = s.free
  /\ \A k \in 0..Len(s.trail) : AwakeTo(s, k) => AwakeTo(e, k)
  /\ \A p : p \in e.assigned <=> p \in s.assigned \/ \E i \in 1..n : ps[i] = p
  /\ \A k \in (Len(s.trail) + 1)..Len(e.trail) : Lv(e, k) = Len(s.lim) /\ \E i \in 1..n : ps[i] = e.trail[k]

\* One assumption of implies().
LEMMA AssumeOne ==
  ASSUME NEW s, Books(s), NEW ps \in Seq(AllLits), \A i \in 1..Len(ps) : Usable(s, ps[i]), Unopposed(s, ps),
         NEW n \in 0..Len(ps), n # Len(ps), NEW e, Assuming(s, ps, e, n), NEW t, t = AssumeLit(e, ps[n + 1])
  PROVE  Assuming(s, ps, t, n + 1)
<1>1. PICK p : p = ps[n + 1]
  OBVIOUS
<1>2. Len(ps) \in Nat /\ n \in Nat /\ n + 1 \in 1..Len(ps) /\ n + 1 \in Nat
  <2>1. Len(ps) \in Nat
    BY LenProperties
  <2> QED BY <2>1
<1>3. p \in AllLits /\ Usable(s, p) /\ Neg(p) \in AllLits /\ p[1] \in Vars
  BY <1>1, <1>2, Literals DEF Usable
<1>4. /\ Books(e) /\ WatchesOK(e) /\ Grows(s, e) /\ Typed(e) /\ Typed(s)
      /\ e.clause = s.clause /\ e.learnts = s.learnts /\ e.watches = s.watches /\ e.lim = s.lim
      /\ e.qhead = s.qhead /\ e.heap = s.heap /\ e.ok = s.ok /\ e.nextVar = s.nextVar
      /\ e.released = s.released /\ e.free = s.free
      /\ \A k \in 0..Len(s.trail) : AwakeTo(s, k) => AwakeTo(e, k)
      /\ \A q : q \in e.assigned <=> q \in s.assigned \/ \E i \in 1..n : ps[i] = q
      /\ \A k \in (Len(s.trail) + 1)..Len(e.trail) : Lv(e, k) = Len(s.lim) /\ \E i \in 1..n : ps[i] = e.trail[k]
  BY BooksAre DEF Assuming
<1>5. \A q : (\E i \in 1..(n + 1) : ps[i] = q) <=> (\E i \in 1..n : ps[i] = q) \/ q = p
  <2>1. \A i \in 1..(n + 1) : i \in 1..n \/ i = n + 1
    BY <1>2
  <2>2. \A i \in 1..n : i \in 1..(n + 1)
    BY <1>2
  <2>3. n + 1 \in 1..(n + 1)
    BY <1>2
  <2> QED BY <1>1, <2>1, <2>2, <2>3
<1>6. ~False(e, p)
  <2> SUFFICES ASSUME Neg(p) \in e.assigned PROVE FALSE
    BY DEF False
  <2>1. Neg(p) \notin s.assigned
    BY <1>1, <1>2 DEF Unopposed, False
  <2>2. PICK i \in 1..n : ps[i] = Neg(p)
    BY <1>4, <2>1
  <2>3. i \in 1..((n + 1) - 1)
    BY <1>2
  <2> QED BY <1>1, <1>2, <2>2, <2>3 DEF Unopposed
<1>7. CASE True(e, p)
  <2>1. t = e
    BY <1>1, <1>7 DEF AssumeLit
  <2>2. \A q : q \in e.assigned <=> q \in s.assigned \/ \E i \in 1..(n + 1) : ps[i] = q
    BY <1>4, <1>5, <1>7 DEF True
  <2> QED BY <1>4, <1>5, <2>1, <2>2 DEF Assuming
<1>8. CASE ~True(e, p)
  <2>1. t = Enqueue(e, p, NoClause)
    BY <1>1, <1>8 DEF AssumeLit
  <2>2. Usable(e, p)
    BY <1>3, <1>4 DEF Usable, IsFree
  <2>3. Open(e, p[1])
    BY <1>3, <1>4, <1>6, <1>8, OpenIs
  <2>4. NoClause \in Nat
    BY DEF NoClause
  <2>5. Books(t) /\ Grows(e, t) /\ Lv(t, Len(e.trail) + 1) = Len(e.lim) /\ WatchesOK(t)
    BY <1>3, <1>4, <2>1, <2>2, <2>3, <2>4, EnqueueBooks
  <2>6. \A k \in 0..Len(e.trail) : AwakeTo(e, k) => AwakeTo(t, k)
    BY <1>3, <1>4, <2>1, <2>2, <2>3, <2>4, EnqueueBooks
  <2>7. /\ t.clause = e.clause /\ t.learnts = e.learnts /\ t.watches = e.watches /\ t.lim = e.lim
        /\ t.qhead = e.qhead /\ t.heap = e.heap /\ t.ok = e.ok /\ t.nextVar = e.nextVar
        /\ t.released = e.released /\ t.free = e.free
        /\ t.assigned = e.assigned \cup {p}
        /\ Len(t.trail) = Len(e.trail) + 1 /\ t.trail[Len(e.trail) + 1] = p
        /\ \A i \in 1..Len(e.trail) : t.trail[i] = e.trail[i]
    BY <1>3, <1>4, <2>1, <2>4, EnqueueFields
  <2>8. Typed(t)
    BY <2>5, BooksAre
  <2>9. Grows(s, t)
    BY <1>4, <2>5, <2>8, GrowsTwice
  <2>10. PICK N, M : N = Len(s.trail) /\ M = Len(e.trail)
    OBVIOUS
  <2>11. N \in Nat /\ M \in Nat /\ N <= M
    BY <1>4, <2>10, TypedIs DEF Grows
  <2>12. \A k \in 0..N : AwakeTo(s, k) => AwakeTo(t, k)
    <3>1. \A k \in 0..N : k \in 0..M
      BY <2>11
    <3> QED BY <1>4, <2>6, <2>10, <3>1
  <2>13. \A q : q \in t.assigned <=> q \in s.assigned \/ \E i \in 1..(n + 1) : ps[i] = q
    BY <1>4, <1>5, <2>7
  <2>14. ASSUME NEW k \in (N + 1)..Len(t.trail)
         PROVE  Lv(t, k) = Len(s.lim) /\ \E i \in 1..(n + 1) : ps[i] = t.trail[k]
    <3>1. k \in (N + 1)..(M + 1)
      BY <2>7, <2>10
    <3>2. (k \in (N + 1)..M /\ k \in 1..M) \/ k = M + 1
      BY <2>11, <3>1
    <3>3. CASE k = M + 1
      BY <1>4, <1>5, <2>5, <2>7, <2>10, <3>3
    <3>4. CASE k \in (N + 1)..M /\ k \in 1..M
      <4>1. t.trail[k] = e.trail[k] /\ Lv(t, k) = Lv(e, k)
        BY <2>5, <2>10, <3>4 DEF Grows
      <4> QED BY <1>4, <1>5, <2>10, <3>4, <4>1
    <3> QED BY <3>2, <3>3, <3>4
  <2> QED BY <1>4, <2>5, <2>7, <2>9, <2>10, <2>12, <2>13, <2>14 DEF Assuming
<1> QED BY <1>7, <1>8

\* All assumptions of implies().
LEMMA AssumedIs ==
  ASSUME NEW s, Books(s), WatchesOK(s), NEW ps \in Seq(AllLits), \A i \in 1..Len(ps) : Usable(s, ps[i]),
         Unopposed(s, ps), NEW e, e = Assumed(s, ps)
  PROVE  Assuming(s, ps, e, Len(ps))
<1>1. PICK N \in Nat : N = Len(ps)
  BY LenProperties
<1>2. PICK f : Rounds(f, "assume", 0, s, ps, e)
  BY <1>1, AssumeRounds
<1>3. f[0] = s /\ f[N] = e /\ \A i \in 1..N : f[i] = AssumeLit(f[i - 1], ps[i])
  BY <1>1, <1>2 DEF Rounds, Stepped
<1> DEFINE Q == {i \in 0..N : Assuming(s, ps, f[i], i)}
<1>4. 0 \in Q
  <2>1. Typed(s)
    BY BooksAre
  <2>2. Grows(s, s)
    BY <2>1, ExtendsSelf DEF Extends
  <2>3. Len(s.trail) \in Nat
    BY <2>1, TypedIs
  <2>4. ~\E k : k \in (Len(s.trail) + 1)..Len(s.trail)
    BY <2>3
  <2>5. ~\E i : i \in 1..0
    OBVIOUS
  <2>6. Assuming(s, ps, s, 0)
    BY <2>2, <2>4, <2>5 DEF Assuming
  <2> QED BY <1>3, <2>6
<1>5. \A i \in 0..N : i \in Q /\ i # N => i + 1 \in Q
  <2> SUFFICES ASSUME NEW i \in 0..N, i \in Q, i # N PROVE i + 1 \in Q
    OBVIOUS
  <2>1. i + 1 \in 1..N /\ i + 1 \in 0..N /\ (i + 1) - 1 = i
    OBVIOUS
  <2>2. PICK u, y : u = f[i] /\ y = f[i + 1]
    OBVIOUS
  <2>3. y = AssumeLit(u, ps[i + 1])
    BY <1>3, <2>1, <2>2
  <2>4. Assuming(s, ps, u, i)
    BY <2>2
  <2>5. i \in 0..Len(ps) /\ i # Len(ps)
    BY <1>1
  <2>6. Assuming(s, ps, y, i + 1)
    BY <2>3, <2>4, <2>5, AssumeOne
  <2> QED BY <2>1, <2>2, <2>6
<1> HIDE DEF Q
<1>6. 0..N \subseteq Q
  BY <1>4, <1>5, UpTo
<1>7. N \in Q
  BY <1>6
<1> QED BY <1>1, <1>3, <1>7 DEF Q

\* Assignment m has all that is assigned.
TrailIn(s, m) == \A i \in 1..Len(s.trail) : s.trail[i] \in m

ClausesIn(s, m) == \A r \in DOMAIN s.clause : \E k \in 1..Len(s.clause[r]) : s.clause[r][k] \in m

\* What propagation assigns follows from the clauses and what was assigned.
LEMMA ExtendsIn ==
  ASSUME NEW s, Books(s), NEW t, Books(t), Extends(s, t), NEW m \in Models, ClausesIn(t, m), TrailIn(s, m)
  PROVE  TrailIn(t, m)
<1>1. Typed(s) /\ Typed(t) /\ ReasonsOK(t)
  BY BooksAre
<1>2. PICK n, N : n = Len(s.trail) /\ N = Len(t.trail)
  OBVIOUS
<1>3. n \in Nat /\ N \in Nat /\ n <= N
  BY <1>1, <1>2, TypedIs DEF Extends, Grows
<1> DEFINE Q == {i \in 0..N : \A j \in 1..i : t.trail[j] \in m}
<1>4. 0 \in Q
  BY <1>3
<1>5. \A i \in 0..N : i \in Q /\ i # N => i + 1 \in Q
  <2> SUFFICES ASSUME NEW i \in 0..N, i \in Q, i # N PROVE i + 1 \in Q
    OBVIOUS
  <2>1. i + 1 \in 1..N /\ i + 1 \in 0..N /\ (i + 1) - 1 = i
    BY <1>3
  <2>2. t.trail[i + 1] \in m
    <3>1. CASE i + 1 \in 1..n
      <4>1. t.trail[i + 1] = s.trail[i + 1]
        BY <1>2, <3>1 DEF Extends, Grows
      <4> QED BY <1>2, <3>1, <4>1 DEF TrailIn
    <3>2. CASE i + 1 \notin 1..n
      <4>1. i + 1 \in (n + 1)..N
        BY <1>3, <2>1, <3>2
      <4>2. PICK h, r : h = i + 1 /\ r = t.reason[t.trail[h][1]]
        OBVIOUS
      <4>3. r # NoClause
        BY <1>2, <4>1, <4>2 DEF Extends
      <4>4. Explains(t, r, h)
        BY <1>1, <1>2, <2>1, <4>2, <4>3 DEF ReasonsOK
      <4>5. r \in DOMAIN t.clause /\ t.clause[r][1] = t.trail[h]
            /\ \A k \in 2..Len(t.clause[r]) : \E j \in 1..(h - 1) : t.trail[j] = Neg(t.clause[r][k])
        BY <4>4 DEF Explains
      <4>6. PICK k \in 1..Len(t.clause[r]) : t.clause[r][k] \in m
        BY <4>5 DEF ClausesIn
      <4>7. k = 1
        <5> SUFFICES ASSUME k # 1 PROVE FALSE
          OBVIOUS
        <5>1. t.clause[r] \in ClauseSeq
          BY <1>1, <4>5, TypedIs
        <5>2. Len(t.clause[r]) \in Nat /\ t.clause[r][k] \in AllLits
          BY <4>6, <5>1, ClauseIs
        <5>3. k \in 2..Len(t.clause[r])
          BY <5>2
        <5>4. PICK j \in 1..(h - 1) : t.trail[j] = Neg(t.clause[r][k])
          BY <4>5, <5>3
        <5>5. t.trail[j] \in m
          BY <2>1, <4>2, <5>4
        <5> QED BY <4>6, <5>2, <5>4, <5>5 DEF Models
      <4> QED BY <4>2, <4>5, <4>6, <4>7
    <3> QED BY <3>1, <3>2
  <2>3. \A j \in 1..(i + 1) : j \in 1..i \/ j = i + 1
    OBVIOUS
  <2> QED BY <2>1, <2>2, <2>3
<1> HIDE DEF Q
<1>6. 0..N \subseteq Q
  BY <1>3, <1>4, <1>5, UpTo
<1>7. N \in Q
  BY <1>3, <1>6
<1> QED BY <1>2, <1>7 DEF Q, TrailIn

\* t has the clauses and facts of s.
Undisturbed(s, t) ==
  /\ Resting(t) /\ Grows(s, t) /\ Grows(t, s)
  /\ t.nextVar = s.nextVar /\ t.free = s.free /\ t.released = s.released /\ t.learnts = s.learnts /\ t.ok = s.ok
  /\ DOMAIN t.clause = DOMAIN s.clause
  /\ \A p : AtRoot(t, p) <=> AtRoot(s, p)
  /\ Preserves(s, t)
  /\ \A L : Within(s, L) => Within(t, L)

\* The assumptions of implies(), and then propagate(), in s.
Deriving(s, ps, e, x) ==
  /\ Unopposed(s, ps) /\ e = Assumed(NewDecisionLevel(s), ps) /\ x = Propagate(e)

Derived(s, ps, e, x) ==
  /\ Assuming(NewDecisionLevel(s), ps, e, Len(ps))
  /\ Propagating(x, e) /\ x.s.qhead = Len(x.s.trail)
  /\ AwakeTo(s, Len(s.trail)) => AwakeTo(x.s, IF x.confl = NoClause THEN x.s.qhead ELSE Bottom(x.s))
  /\ Undisturbed(s, CancelUntil(x.s, 0))
  /\ \A m \in Models : Means(s, m) /\ (\A i \in 1..Len(ps) : ps[i] \in m) => x.confl = NoClause /\ TrailIn(x.s, m)

\* propagate() under the assumptions of implies(), and back to level 0.
LEMMA DerivingIs ==
  ASSUME NEW s, Resting(s), NEW ps \in Seq(AllLits), \A i \in 1..Len(ps) : Usable(s, ps[i]),
         NEW e, NEW x, Deriving(s, ps, e, x)
  PROVE  Derived(s, ps, e, x)
<1>1. Books(s) /\ WatchesOK(s) /\ Len(s.lim) = 0 /\ s.qhead = Len(s.trail) /\ (s.ok => AwakeTo(s, Len(s.trail))) /\ Typed(s)
  BY BooksAre DEF Resting
<1>2. PICK d : d = NewDecisionLevel(s)
  OBVIOUS
<1>300. OneLevelMore(s, d)
  BY <1>1, <1>2, NewLevelBooks
<1>3. /\ Books(d) /\ Grows(s, d) /\ Grows(d, s)
      /\ d.clause = s.clause /\ d.learnts = s.learnts /\ d.watches = s.watches /\ d.trail = s.trail
      /\ d.qhead = s.qhead /\ d.assigned = s.assigned /\ d.reason = s.reason /\ d.level = s.level
      /\ d.heap = s.heap /\ d.ok = s.ok /\ d.nextVar = s.nextVar
      /\ d.released = s.released /\ d.free = s.free
      /\ Len(d.lim) = Len(s.lim) + 1 /\ d.lim[Len(s.lim) + 1] = Len(s.trail)
      /\ WatchesOK(d)
  BY <1>1, <1>300 DEF OneLevelMore
<1>4. \A n \in 0..Len(s.trail) : AwakeTo(s, n) => AwakeTo(d, n)
  BY <1>300 DEF OneLevelMore
<1>5. Unopposed(d, ps) /\ (\A i \in 1..Len(ps) : Usable(d, ps[i])) /\ e = Assumed(d, ps) /\ x = Propagate(e)
  BY <1>2, <1>3 DEF Deriving, Unopposed, Usable, IsFree, False
<1>6. Assuming(d, ps, e, Len(ps))
  BY <1>3, <1>5, AssumedIs
<1>7. /\ Books(e) /\ WatchesOK(e) /\ Grows(d, e) /\ Typed(e)
      /\ e.clause = d.clause /\ e.learnts = d.learnts /\ e.watches = d.watches /\ e.lim = d.lim
      /\ e.qhead = d.qhead /\ e.heap = d.heap /\ e.ok = d.ok /\ e.nextVar = d.nextVar
      /\ e.released = d.released /\ e.free = d.free
      /\ (\A k \in 0..Len(d.trail) : AwakeTo(d, k) => AwakeTo(e, k))
      /\ (\A k \in (Len(d.trail) + 1)..Len(e.trail) : Lv(e, k) = Len(d.lim) /\ \E i \in 1..Len(ps) : ps[i] = e.trail[k])
  BY <1>6, BooksAre DEF Assuming
<1>8. Propagating(x, e) /\ x.s.qhead = Len(x.s.trail)
  BY <1>5, <1>7, PropagateIs
<1>9. PICK y, cf : y = x.s /\ cf = x.confl
  OBVIOUS
<1>10. Len(s.trail) \in Nat /\ Len(s.trail) \in 0..Len(s.trail) /\ Len(d.trail) = Len(s.trail)
  BY <1>1, <1>3, TypedIs
<1>11. AwakeTo(s, Len(s.trail)) => AwakeTo(e, e.qhead)
  BY <1>1, <1>3, <1>4, <1>7, <1>10
<1>12. /\ Books(y) /\ Extends(e, y) /\ WatchesOK(y) /\ y.qhead = Len(y.trail) /\ Typed(y)
       /\ (AwakeTo(e, e.qhead) => AwakeTo(y, IF cf = NoClause THEN y.qhead ELSE Bottom(y)))
       /\ (cf # NoClause => Falsified(y, cf))
       /\ (\A L : Within(e, L) => Within(y, L)) /\ Preserves(e, y)
  BY <1>8, <1>9, BooksAre DEF Propagating
<1>13. AwakeTo(s, Len(s.trail)) => AwakeTo(y, IF cf = NoClause THEN y.qhead ELSE Bottom(y))
  BY <1>11, <1>12
<1>14. y.lim = d.lim /\ Len(y.lim) = 1 /\ Len(y.lim) > 0 /\ y.lim[1] = Len(s.trail) /\ 0 \in Nat
  BY <1>1, <1>3, <1>7, <1>12 DEF Extends
<1>15. Bottom(y) = Len(s.trail)
  BY <1>14 DEF Bottom
<1>16. Len(y.trail) \in Nat /\ Len(e.trail) \in Nat /\ Len(s.trail) <= Len(e.trail) /\ Len(e.trail) <= Len(y.trail)
  BY <1>7, <1>10, <1>12, TypedIs DEF Extends, Grows
<1>17. AwakeTo(s, Len(s.trail)) => AwakeTo(y, Bottom(y))
  <2>1. AwakeTo(y, Len(y.trail)) => AwakeTo(y, Len(s.trail))
    BY <1>10, <1>16 DEF AwakeTo
  <2> QED BY <1>12, <1>13, <1>15, <2>1
<1>18. PICK t : t = CancelUntil(y, 0)
  OBVIOUS
<1>180. Cancelled(y, 0, t)
  BY <1>12, <1>14, <1>18, CancelBooks
<1>19. /\ Books(t) /\ Grows(t, y)
       /\ t.clause = y.clause /\ t.learnts = y.learnts /\ t.watches = y.watches
       /\ t.reason = y.reason /\ t.level = y.level /\ t.ok = y.ok /\ t.nextVar = y.nextVar
       /\ t.released = y.released /\ t.free = y.free
       /\ Len(t.lim) = 0 /\ t.qhead = Len(t.trail)
       /\ (\A p : AtRoot(t, p) <=> AtRoot(y, p))
       /\ WatchesOK(t)
  BY <1>12, <1>14, <1>180 DEF Cancelled
<1>20. AwakeTo(s, Len(s.trail)) => AwakeTo(t, Len(t.trail))
  BY <1>14, <1>17, <1>180 DEF Cancelled
<1>21. Len(t.trail) = Len(s.trail) /\ \A i \in 1..Len(s.trail) : t.trail[i] = y.trail[i]
  <2>1. PICK n : n = y.lim[0 + 1]
    OBVIOUS
  <2>2. CancelledTo(y, 0, n, t)
    BY <1>12, <1>14, <1>18, <2>1, CancelFields
  <2> QED BY <1>14, <2>1, <2>2 DEF CancelledTo
<1>22. t.ok = s.ok
  BY <1>3, <1>7, <1>12, <1>19 DEF Extends
<1>23. Resting(t)
  BY <1>1, <1>19, <1>20, <1>22 DEF Resting
<1>24. \A i \in 1..Len(s.trail) : y.trail[i] = s.trail[i] /\ Lv(y, i) = Lv(s, i)
  <2>1. \A i \in 1..Len(s.trail) : i \in 1..Len(e.trail)
    BY <1>10, <1>16
  <2> QED BY <1>3, <1>7, <1>12, <2>1 DEF Extends, Grows
<1>25. \A i : Lv(t, i) = t.level[t.trail[i][1]] /\ Lv(y, i) = y.level[y.trail[i][1]]
  BY DEF Lv
<1>26. \A i \in 1..Len(s.trail) : t.trail[i] = s.trail[i] /\ Lv(t, i) = Lv(s, i)
  BY <1>19, <1>21, <1>24, <1>25
<1>27. DOMAIN y.clause = DOMAIN s.clause /\ t.clause = y.clause
       /\ \A r \in DOMAIN s.clause : \A p \in AllLits : InClause(s, r, p) <=> InClause(y, r, p)
  <2>1. \A r, p : InClause(s, r, p) <=> InClause(e, r, p)
    BY <1>3, <1>7 DEF InClause
  <2> QED BY <1>3, <1>7, <1>12, <1>19, <2>1 DEF Extends, Grows
<1>28. \A r, p : InClause(t, r, p) <=> InClause(y, r, p)
  BY <1>27 DEF InClause
<1>29. Grows(s, t) /\ Grows(t, s)
  BY <1>10, <1>21, <1>26, <1>27, <1>28 DEF Grows
<1>301. \A p : AtRoot(t, p) <=> AtRoot(s, p)
  BY <1>21, <1>26 DEF AtRoot
<1>31. \A L : Within(s, L) => Within(t, L)
  <2>1. \A L : Within(s, L) => Within(e, L)
    BY <1>3, <1>7 DEF Within
  <2>2. \A L : Within(y, L) => Within(t, L)
    BY <1>19 DEF Within
  <2> QED BY <1>12, <2>1, <2>2
<1>32. \A m : ClausesIn(e, m) <=> ClausesIn(s, m)
  BY <1>3, <1>7 DEF ClausesIn
<1>33. \A m \in Models : Means(s, m) => ClausesIn(s, m) /\ TrailIn(s, m)
  <2>1. \A i \in 1..Len(s.trail) : Lv(s, i) = 0
    BY <1>1, RootIs
  <2> QED BY <2>1 DEF Means, ClausesIn, TrailIn
<1>34. ASSUME NEW m \in Models, Means(s, m) PROVE ClausesIn(y, m)
  <2> SUFFICES ASSUME NEW r \in DOMAIN y.clause PROVE \E k \in 1..Len(y.clause[r]) : y.clause[r][k] \in m
    BY DEF ClausesIn
  <2>1. PICK k \in 1..Len(s.clause[r]) : s.clause[r][k] \in m
    BY <1>27, <1>34 DEF Means
  <2>2. s.clause[r] \in ClauseSeq
    BY <1>1, <1>27, TypedIs
  <2>3. s.clause[r][k] \in AllLits
    BY <2>2, ClauseIs
  <2>4. InClause(s, r, s.clause[r][k])
    BY DEF InClause
  <2>5. InClause(y, r, s.clause[r][k])
    BY <1>27, <2>3, <2>4
  <2> QED BY <2>1, <2>5 DEF InClause
<1>35. Preserves(s, t)
  <2> SUFFICES ASSUME NEW m \in Models, Means(s, m) PROVE Means(t, m)
    BY DEF Preserves
  <2>1. ClausesIn(t, m)
    BY <1>27, <1>34 DEF ClausesIn
  <2>2. TrailIn(t, m)
    BY <1>21, <1>26, <1>33 DEF TrailIn
  <2> QED BY <2>1, <2>2 DEF Means, ClausesIn, TrailIn
<1>36. Undisturbed(s, t)
  BY <1>3, <1>7, <1>12, <1>19, <1>22, <1>23, <1>27, <1>29, <1>301, <1>31, <1>35 DEF Undisturbed, Extends
<1>37. ASSUME NEW m \in Models, Means(s, m), \A i \in 1..Len(ps) : ps[i] \in m PROVE cf = NoClause /\ TrailIn(y, m)
  <2>1. TrailIn(e, m)
    <3> SUFFICES ASSUME NEW i \in 1..Len(e.trail) PROVE e.trail[i] \in m
      BY DEF TrailIn
    <3>1. i \in 1..Len(s.trail) \/ i \in (Len(d.trail) + 1)..Len(e.trail)
      BY <1>10, <1>16
    <3>2. CASE i \in 1..Len(s.trail)
      <4>1. e.trail[i] = s.trail[i]
        BY <1>3, <1>7, <3>2 DEF Grows
      <4> QED BY <1>33, <1>37, <3>2, <4>1 DEF TrailIn
    <3>3. CASE i \in (Len(d.trail) + 1)..Len(e.trail)
      BY <1>7, <1>37, <3>3
    <3> QED BY <3>1, <3>2, <3>3
  <2>2. ClausesIn(y, m)
    BY <1>34, <1>37
  <2>3. TrailIn(y, m)
    BY <1>7, <1>12, <2>1, <2>2, ExtendsIn
  <2>4. cf = NoClause
    <3> SUFFICES ASSUME Falsified(y, cf) PROVE FALSE
      BY <1>12
    <3>1. cf \in DOMAIN y.clause /\ \A k \in 1..Len(y.clause[cf]) : OnTrail(y, Neg(y.clause[cf][k]))
      BY DEF Falsified
    <3>2. PICK k \in 1..Len(y.clause[cf]) : y.clause[cf][k] \in m
      BY <2>2, <3>1 DEF ClausesIn
    <3>3. Neg(y.clause[cf][k]) \in m
      BY <2>3, <3>1 DEF OnTrail, TrailIn
    <3>4. y.clause[cf] \in ClauseSeq
      BY <1>12, <3>1, TypedIs
    <3>5. y.clause[cf][k] \in AllLits
      BY <3>4, ClauseIs
    <3> QED BY <3>2, <3>3, <3>5 DEF Models
  <2> QED BY <2>3, <2>4
<1> QED BY <1>2, <1>6, <1>8, <1>9, <1>13, <1>18, <1>36, <1>37 DEF Derived

\* implies(): the solver is as before, and the answer follows.
Implying(s, ps, x) ==
  /\ Undisturbed(s, x.s)
  /\ \A m \in Models : Means(s, m) /\ (\A i \in 1..Len(ps) : ps[i] \in m) => x.ok /\ x.lits \subseteq m

\* A solver at rest is as it was.
LEMMA UndisturbedSelf ==
  ASSUME NEW s, Resting(s)
  PROVE  Undisturbed(s, s)
<1>1. Typed(s)
  BY BooksAre DEF Resting
<1>2. Grows(s, s)
  BY <1>1, ExtendsSelf DEF Extends
<1> QED BY <1>2 DEF Undisturbed, Preserves

\* What Implies() returns, in terms of its loops.
LEMMA ImpliesCases ==
  ASSUME NEW s, NEW ps, DOMAIN ps = 1..Len(ps), NEW x, x = Implies(s, ps)
  PROVE  \/ ~Unopposed(s, ps) /\ x = [s |-> s, ok |-> FALSE, lits |-> {}]
         \/ \E e, y : /\ Deriving(s, ps, e, y)
                      /\ x = [s    |-> CancelUntil(y.s, 0),
                              ok   |-> y.confl = NoClause,
                              lits |-> Range(SubSeq(y.s.trail, Len(e.trail) + 1, Len(y.s.trail)))]
<1>1. (\E i \in DOMAIN ps : False(s, ps[i]) \/ \E j \in 1..(i - 1) : ps[j] = Neg(ps[i])) <=> ~Unopposed(s, ps)
  BY DEF Unopposed
<1>2. CASE Unopposed(s, ps)
  <2>1. PICK e : e = Assumed(NewDecisionLevel(s), ps)
    OBVIOUS
  <2>2. PICK y : y = Propagate(e)
    OBVIOUS
  <2>3. Deriving(s, ps, e, y)
    BY <1>2, <2>1, <2>2 DEF Deriving
  <2>4. x = [s    |-> CancelUntil(y.s, 0),
             ok   |-> y.confl = NoClause,
             lits |-> Range(SubSeq(y.s.trail, Len(e.trail) + 1, Len(y.s.trail)))]
    BY <1>1, <1>2, <2>1, <2>2 DEF Implies, Assumed
  <2> QED BY <2>3, <2>4
<1>3. CASE ~Unopposed(s, ps)
  BY <1>1, <1>3 DEF Implies
<1> QED BY <1>2, <1>3

\* implies() leaves the solver as it was, and answers with consequences.
LEMMA ImpliesIs ==
  ASSUME NEW s, Resting(s), NEW ps \in Seq(AllLits), \A i \in 1..Len(ps) : Usable(s, ps[i]), NEW x, x = Implies(s, ps)
  PROVE  Implying(s, ps, x)
<1>0. Len(ps) \in Nat /\ DOMAIN ps = 1..Len(ps) /\ \A i \in 1..Len(ps) : ps[i] \in AllLits
  BY LenProperties
<1>1. Books(s) /\ Len(s.lim) = 0 /\ Typed(s)
  BY BooksAre DEF Resting
<1>2. CASE ~Unopposed(s, ps) /\ x = [s |-> s, ok |-> FALSE, lits |-> {}]
  <2>1. Undisturbed(s, x.s)
    BY <1>2, UndisturbedSelf
  <2>2. ASSUME NEW m \in Models, Means(s, m), \A i \in 1..Len(ps) : ps[i] \in m PROVE FALSE
    <3>1. PICK i \in 1..Len(ps) : False(s, ps[i]) \/ \E j \in 1..(i - 1) : ps[j] = Neg(ps[i])
      BY <1>2 DEF Unopposed
    <3>2. ps[i] \in AllLits /\ Neg(ps[i]) \notin m
      BY <1>0, <2>2 DEF Models
    <3>3. CASE False(s, ps[i])
      <4>1. AtRoot(s, Neg(ps[i]))
        BY <1>1, <3>2, <3>3, RootIs
      <4> QED BY <2>2, <3>2, <4>1 DEF AtRoot, Means
    <3>4. CASE \E j \in 1..(i - 1) : ps[j] = Neg(ps[i])
      <4>1. PICK j \in 1..(i - 1) : ps[j] = Neg(ps[i])
        BY <3>4
      <4>2. j \in 1..Len(ps)
        BY <1>0
      <4> QED BY <2>2, <3>2, <4>1, <4>2
    <3> QED BY <3>1, <3>3, <3>4
  <2> QED BY <2>1, <2>2 DEF Implying
<1>3. ASSUME NEW e, NEW y, Deriving(s, ps, e, y),
             x = [s    |-> CancelUntil(y.s, 0),
                  ok   |-> y.confl = NoClause,
                  lits |-> Range(SubSeq(y.s.trail, Len(e.trail) + 1, Len(y.s.trail)))]
      PROVE  Implying(s, ps, x)
  <2>1. Derived(s, ps, e, y)
    BY <1>3, DerivingIs
  <2>2. Undisturbed(s, x.s)
    BY <1>3, <2>1 DEF Derived
  <2>3. PICK z, tr : z = y.s /\ tr = z.trail
    OBVIOUS
  <2>4. Typed(z) /\ Grows(e, z) /\ Typed(e)
    BY <2>1, <2>3, BooksAre DEF Derived, Propagating, Extends, Assuming
  <2>5. tr \in Seq(AllLits) /\ Len(e.trail) \in 0..Len(tr)
    BY <2>3, <2>4, TypedIs DEF Grows
  <2>6. PICK n, rest : n = Len(e.trail) /\ rest = SubSeq(tr, n + 1, Len(tr))
    OBVIOUS
  <2>7. Range(rest) = {tr[i] : i \in (n + 1)..Len(tr)}
    BY <2>5, <2>6, RestRange
  <2>8. x.lits = Range(rest) /\ x.ok = (y.confl = NoClause)
    BY <1>3, <2>3, <2>6
  <2>9. \A i \in (n + 1)..Len(tr) : i \in 1..Len(tr)
    BY <2>5, <2>6
  <2>10. ASSUME NEW m \in Models, Means(s, m), \A i \in 1..Len(ps) : ps[i] \in m PROVE x.ok /\ x.lits \subseteq m
    <3>1. y.confl = NoClause /\ TrailIn(z, m)
      BY <2>1, <2>3, <2>10 DEF Derived
    <3>2. \A i \in 1..Len(tr) : tr[i] \in m
      BY <2>3, <3>1 DEF TrailIn
    <3>3. ASSUME NEW q \in x.lits PROVE q \in m
      <4>1. PICK i \in (n + 1)..Len(tr) : q = tr[i]
        BY <2>7, <2>8
      <4> QED BY <2>9, <3>2, <4>1
    <3> QED BY <2>8, <3>1, <3>3
  <2> QED BY <2>2, <2>10 DEF Implying
<1> QED BY <1>0, <1>2, <1>3, ImpliesCases

-----------------------------------------------------------------------------
(* Decisions and assumptions.                                              *)

\* The decisions are the first literals of their levels.
DecisionsOK(s) ==
  \A i \in 1..Len(s.trail) : s.reason[s.trail[i][1]] = NoClause /\ Lv(s, i) # 0 => i = s.lim[Lv(s, i)] + 1

\* The first levels are those of the assumptions a, which hold, and nothing
\* else is decided there.
AssumedOK(s, a) ==
  /\ \A l \in 1..Len(s.lim) : l <= Len(a) => \E i \in 1..Len(s.trail) : s.trail[i] = a[l] /\ Lv(s, i) <= l
  /\ \A i \in 1..Len(s.trail) :
       s.reason[s.trail[i][1]] = NoClause /\ Lv(s, i) # 0 /\ Lv(s, i) <= Len(a) => s.trail[i] = a[Lv(s, i)]

\* t is s with more levels for assumptions that hold.
Leveled(s, a, t) ==
  /\ Len(s.lim) <= Len(t.lim)
  /\ Books(t) /\ Grows(s, t) /\ Grows(t, s) /\ DecisionsOK(t) /\ AssumedOK(t, a)
  /\ t.clause = s.clause /\ t.learnts = s.learnts /\ t.watches = s.watches /\ t.trail = s.trail
  /\ t.qhead = s.qhead /\ t.assigned = s.assigned /\ t.reason = s.reason /\ t.level = s.level
  /\ t.heap = s.heap /\ t.ok = s.ok /\ t.nextVar = s.nextVar
  /\ t.released = s.released /\ t.free = s.free
  /\ WatchesOK(s) => WatchesOK(t)
  /\ \A n \in 0..Len(s.trail) : AwakeTo(s, n) => AwakeTo(t, n)

\* One more level for an assumption that holds.
LEMMA LevelOne ==
  ASSUME NEW s, Books(s), s.qhead = Len(s.trail), NEW a \in Seq(AllLits), \A i \in 1..Len(a) : Usable(s, a[i]),
         NEW t, Leveled(s, a, t), Level(t) < Len(a), True(t, a[Level(t) + 1]), NEW u, u = NewDecisionLevel(t)
  PROVE  Leveled(s, a, u) /\ Len(u.lim) = Len(t.lim) + 1
<1>1. /\ Len(s.lim) <= Len(t.lim)
      /\ Books(t) /\ Grows(s, t) /\ Grows(t, s) /\ DecisionsOK(t) /\ AssumedOK(t, a)
      /\ t.clause = s.clause /\ t.learnts = s.learnts /\ t.watches = s.watches /\ t.trail = s.trail
      /\ t.qhead = s.qhead /\ t.assigned = s.assigned /\ t.reason = s.reason /\ t.level = s.level
      /\ t.heap = s.heap /\ t.ok = s.ok /\ t.nextVar = s.nextVar
      /\ t.released = s.released /\ t.free = s.free
      /\ (WatchesOK(s) => WatchesOK(t))
      /\ (\A n \in 0..Len(s.trail) : AwakeTo(s, n) => AwakeTo(t, n))
  BY DEF Leveled
<1>2. OneLevelMore(t, u)
  BY <1>1, NewLevelBooks
<1>3. /\ Books(u) /\ Grows(t, u) /\ Grows(u, t)
      /\ u.clause = t.clause /\ u.learnts = t.learnts /\ u.watches = t.watches /\ u.trail = t.trail
      /\ u.qhead = t.qhead /\ u.assigned = t.assigned /\ u.reason = t.reason /\ u.level = t.level
      /\ u.heap = t.heap /\ u.ok = t.ok /\ u.nextVar = t.nextVar
      /\ u.released = t.released /\ u.free = t.free
      /\ Len(u.lim) = Len(t.lim) + 1 /\ u.lim[Len(t.lim) + 1] = Len(t.trail)
      /\ (\A l \in 1..Len(t.lim) : u.lim[l] = t.lim[l])
      /\ (WatchesOK(t) => WatchesOK(u))
      /\ (\A n \in 0..Len(t.trail) : AwakeTo(t, n) => AwakeTo(u, n))
  BY <1>2 DEF OneLevelMore
<1>4. Typed(s) /\ Typed(t) /\ Typed(u) /\ LevelsOK(t)
  BY <1>1, <1>3, BooksAre
<1>5. Grows(s, u) /\ Grows(u, s)
  BY <1>1, <1>3, <1>4, GrowsTwice
<1>6. \A i : Lv(u, i) = Lv(t, i)
  BY <1>3 DEF Lv
<1>7. Len(t.lim) \in Nat /\ Len(a) \in Nat /\ Len(t.trail) \in Nat /\ Level(t) = Len(t.lim)
      /\ \A i \in 1..Len(t.trail) : Lv(t, i) \in Nat /\ Lv(t, i) <= Len(t.lim)
  BY <1>4, TypedIs, LenProperties DEF LevelsOK, Level
<1>8. DecisionsOK(u)
  <2> SUFFICES ASSUME NEW i \in 1..Len(t.trail), t.reason[t.trail[i][1]] = NoClause, Lv(t, i) # 0
               PROVE  i = u.lim[Lv(t, i)] + 1
    BY <1>3, <1>6 DEF DecisionsOK
  <2>1. Lv(t, i) \in 1..Len(t.lim)
    BY <1>7
  <2> QED BY <1>1, <1>3, <2>1 DEF DecisionsOK
<1>9. AssumedOK(u, a)
  <2>1. ASSUME NEW l \in 1..Len(u.lim), l <= Len(a)
        PROVE  \E i \in 1..Len(u.trail) : u.trail[i] = a[l] /\ Lv(u, i) <= l
    <3>1. l \in 1..Len(t.lim) \/ l = Len(t.lim) + 1
      BY <1>3, <1>7
    <3>2. CASE l \in 1..Len(t.lim)
      BY <1>1, <1>3, <1>6, <2>1, <3>2 DEF AssumedOK
    <3>3. CASE l = Len(t.lim) + 1
      <4>1. a[l] \in AllLits /\ Usable(t, a[l]) /\ True(t, a[l])
        <5>1. l \in 1..Len(a)
          BY <1>7, <2>1, <3>3
        <5> QED BY <1>1, <1>7, <3>3, <5>1, LenProperties DEF Usable, IsFree
      <4>2. PICK i \in 1..Len(t.trail) : t.trail[i] = a[l]
        BY <1>1, <4>1, TrueIsOnTrail DEF OnTrail
      <4>3. Lv(t, i) <= l
        <5>1. Lv(t, i) \in Nat /\ Lv(t, i) <= Len(t.lim) /\ Len(t.lim) \in Nat
          BY <1>7
        <5> QED BY <3>3, <5>1
      <4> QED BY <1>3, <1>6, <4>2, <4>3
    <3> QED BY <3>1, <3>2, <3>3
  <2>2. \A i \in 1..Len(u.trail) :
          u.reason[u.trail[i][1]] = NoClause /\ Lv(u, i) # 0 /\ Lv(u, i) <= Len(a) => u.trail[i] = a[Lv(u, i)]
    BY <1>1, <1>3, <1>6 DEF AssumedOK
  <2> QED BY <2>1, <2>2 DEF AssumedOK
<1>10. /\ u.clause = s.clause /\ u.learnts = s.learnts /\ u.watches = s.watches /\ u.trail = s.trail
       /\ u.qhead = s.qhead /\ u.assigned = s.assigned /\ u.reason = s.reason /\ u.level = s.level
       /\ u.heap = s.heap /\ u.ok = s.ok /\ u.nextVar = s.nextVar
       /\ u.released = s.released /\ u.free = s.free
       /\ (WatchesOK(s) => WatchesOK(u))
       /\ (\A n \in 0..Len(s.trail) : AwakeTo(s, n) => AwakeTo(u, n))
  BY <1>1, <1>3
<1>11. Len(s.lim) <= Len(u.lim)
  <2>1. Len(s.lim) \in Nat /\ Len(t.lim) \in Nat
    BY <1>4, TypedIs
  <2>2. Len(s.lim) <= Len(t.lim) /\ Len(u.lim) = Len(t.lim) + 1
    BY <1>1, <1>3
  <2> QED BY ONLY <2>1, <2>2
<1> QED BY <1>3, <1>5, <1>8, <1>9, <1>10, <1>11 DEF Leveled

\* The top of the loop of search() that makes decisions: assumptions that hold
\* get a level each.
LEMMA LeveledIs ==
  ASSUME NEW s, Books(s), s.qhead = Len(s.trail), DecisionsOK(s), NEW a \in Seq(AllLits), AssumedOK(s, a),
         \A i \in 1..Len(a) : Usable(s, a[i]), NEW t, t = LevelsFor(s, a)
  PROVE  Leveled(s, a, t) /\ ~(Level(t) < Len(a) /\ True(t, a[Level(t) + 1]))
<1>1. PICK N \in Nat : N = Len(a)
  BY LenProperties
<1>2. PICK seq : seq = [i \in 1..N |-> i]
  OBVIOUS
<1>3. Len(seq) = N
  BY <1>2
<1>4. PICK f : Rounds(f, "level", a, s, seq, t)
  BY <1>1, <1>2, LevelRounds
<1> DEFINE Busy(x) == Level(x) < Len(a) /\ True(x, a[Level(x) + 1])
<1>5. f[0] = s /\ f[N] = t
      /\ \A i \in 1..N : f[i] = IF Busy(f[i - 1]) THEN NewDecisionLevel(f[i - 1]) ELSE f[i - 1]
  BY <1>3, <1>4 DEF Rounds, Stepped
<1> DEFINE Good(x, i) == Leveled(s, a, x) /\ Len(x.lim) \in Nat /\ (Busy(x) => Len(x.lim) >= i)
           Q == {i \in 0..N : Good(f[i], i)}
<1>6. 0 \in Q
  <2>1. Typed(s)
    BY BooksAre
  <2>2. Grows(s, s) /\ Len(s.lim) \in Nat
    BY <2>1, ExtendsSelf, TypedIs DEF Extends
  <2>3. Len(s.lim) >= 0 /\ Len(s.lim) <= Len(s.lim)
    BY <2>2
  <2>4. Leveled(s, a, s)
    BY <2>2, <2>3 DEF Leveled
  <2>5. Good(s, 0)
    BY <2>2, <2>3, <2>4
  <2> QED BY <1>5, <2>5
<1>7. \A i \in 0..N : i \in Q /\ i # N => i + 1 \in Q
  <2> SUFFICES ASSUME NEW i \in 0..N, i \in Q, i # N PROVE i + 1 \in Q
    OBVIOUS
  <2>1. i + 1 \in 1..N /\ i + 1 \in 0..N /\ (i + 1) - 1 = i /\ i \in Nat
    OBVIOUS
  <2>2. PICK u, y : u = f[i] /\ y = f[i + 1]
    OBVIOUS
  <2>3. y = IF Busy(u) THEN NewDecisionLevel(u) ELSE u
    BY <1>5, <2>1, <2>2
  <2>4. Good(u, i)
    BY <2>2
  <2>5. Good(y, i + 1)
    <3>1. CASE Busy(u)
      <4>1. Leveled(s, a, y) /\ Len(y.lim) = Len(u.lim) + 1
        BY <2>3, <2>4, <3>1, LevelOne
      <4>2. Len(y.lim) \in Nat /\ Len(y.lim) >= i + 1
        BY <2>1, <2>4, <3>1, <4>1
      <4> QED BY <4>1, <4>2
    <3>2. CASE ~Busy(u)
      BY <2>3, <2>4, <3>2
    <3> QED BY <3>1, <3>2
  <2> QED BY <2>1, <2>2, <2>5
<1> HIDE DEF Q
<1>8. 0..N \subseteq Q
  BY <1>6, <1>7, UpTo
<1>9. N \in Q
  BY <1>8
<1>10. Good(t, N)
  BY <1>5, <1>9 DEF Q
<1>11. ~Busy(t)
  BY <1>1, <1>10 DEF Level
<1> QED BY <1>10, <1>11

-----------------------------------------------------------------------------
(* analyze(): resolution along the trail.                                  *)

\* A sequence without repetitions is as long as its range is large.
LEMMA RangeSize ==
  ASSUME NEW T, NEW q \in Seq(T), Distinct(q), NEW R, \A x : x \in R <=> \E i \in 1..Len(q) : q[i] = x
  PROVE  IsFiniteSet(R) /\ Cardinality(R) = Len(q) /\ Len(q) \in Nat
<1>1. PICK n : n = Len(q)
  OBVIOUS
<1>2. n \in Nat /\ q \in [1..n -> T]
  BY <1>1, LenProperties
<1>3. q \in Bijection(1..n, R)
  <2>1. q \in [1..n -> R]
    BY <1>1, <1>2
  <2>2. \A i, j \in 1..n : q[i] = q[j] => i = j
    BY <1>1 DEF Distinct
  <2>3. \A x \in R : \E i \in 1..n : q[i] = x
    BY <1>1
  <2> QED BY <2>1, <2>2, <2>3 DEF Bijection, Injection, Surjection, IsInjective
<1>4. IsFiniteSet(1..n) /\ Cardinality(1..n) = n
  BY <1>2, FS_Interval
<1> QED BY <1>1, <1>2, <1>3, <1>4, FS_Bijection DEF ExistsBijection

\* The literals of a clause but the first.
LEMMA TailIs ==
  ASSUME NEW c \in ClauseSeq, NEW d, d = Tail(c)
  PROVE  /\ d \in Seq(AllLits) /\ Len(d) = Len(c) - 1 /\ Len(d) \in Nat
         /\ \A i \in 1..Len(d) : d[i] = c[i + 1] /\ i + 1 \in 2..Len(c)
         /\ \A i, j \in 1..Len(d) : d[i][1] = d[j][1] => i = j
<1>1. PICK n \in Nat : n = Len(c)
  BY ClauseIs
<1>2. n >= 2 /\ c \in Seq(AllLits) /\ \A i, j \in 1..n : c[i][1] = c[j][1] => i = j
  BY <1>1 DEF ClauseSeq
<1>3. c # <<>>
  BY <1>1, <1>2, EmptySeq
<1>4. d \in Seq(AllLits) /\ Len(d) = n - 1 /\ \A i \in 1..(n - 1) : d[i] = c[i + 1]
  BY <1>1, <1>2, <1>3, HeadTailProperties
<1>5. n - 1 \in Nat /\ \A i \in 1..(n - 1) : i + 1 \in 2..n /\ i + 1 \in 1..n /\ i \in Nat
  BY <1>2
<1>6. \A i, j \in 1..(n - 1) : d[i][1] = d[j][1] => i = j
  <2> SUFFICES ASSUME NEW i \in 1..(n - 1), NEW j \in 1..(n - 1), d[i][1] = d[j][1] PROVE i = j
    OBVIOUS
  <2>1. i + 1 = j + 1
    BY <1>2, <1>4, <1>5
  <2> QED BY <1>5, <2>1
<1> QED BY <1>1, <1>4, <1>5, <1>6

\* The records that analyze() works on.
WalkType == [seen : SUBSET Vars, out : Seq(AllLits), open : Int, uip : Seq(AllLits)]

InSeq(q, x) == \E i \in 1..Len(q) : q[i] = x

\* The literals of lits that were not seen yet, of levels above 0.
IsNew(s, t, lits, q) == InSeq(lits, q) /\ q[1] \notin t.seen /\ s.level[q[1]] > 0

\* Absorb() in terms of which literals there are.
Absorbed(s, t, lits, u) ==
  /\ u \in WalkType /\ u.uip = t.uip
  /\ \A v : v \in u.seen <=> v \in t.seen \/ \E q : IsNew(s, t, lits, q) /\ q[1] = v
  /\ \A q : InSeq(u.out, q) <=> InSeq(t.out, q) \/ (IsNew(s, t, lits, q) /\ s.level[q[1]] < Len(s.lim))
  /\ \E D : /\ IsFiniteSet(D) /\ u.open = t.open + Cardinality(D)
            /\ \A q : q \in D <=> IsNew(s, t, lits, q) /\ ~(s.level[q[1]] < Len(s.lim))
  /\ Distinct(t.out) /\ (\A q : InSeq(t.out, q) => q[1] \in t.seen) => Distinct(u.out)

\* What absorbing a clause changes.
LEMMA AbsorbIs ==
  ASSUME NEW s, Typed(s), NEW t \in WalkType, NEW lits \in Seq(AllLits),
         \A i, j \in 1..Len(lits) : lits[i][1] = lits[j][1] => i = j, NEW u, u = Absorb(s, t, lits)
  PROVE  Absorbed(s, t, lits, u)
<1>1. t.seen \in SUBSET Vars /\ t.out \in Seq(AllLits) /\ t.open \in Int /\ t.uip \in Seq(AllLits)
      /\ t = [seen |-> t.seen, out |-> t.out, open |-> t.open, uip |-> t.uip]
  BY DEF WalkType
<1>2. Distinct(lits)
  BY DEF Distinct
<1>3. PICK A : A = {q \in Range(lits) : q[1] \notin t.seen /\ s.level[q[1]] > 0}
  OBVIOUS
<1>4. PICK new : new = Only(lits, A)
  OBVIOUS
<1>5. \A q : q \in A <=> IsNew(s, t, lits, q)
  <2>1. DOMAIN lits = 1..Len(lits)
    BY LenProperties
  <2>2. \A q : q \in Range(lits) <=> InSeq(lits, q)
    BY <2>1 DEF Range, InSeq
  <2> QED BY <1>3, <2>2 DEF IsNew
<1>6. new \in Seq(AllLits) /\ Keeps(new, lits, A)
  BY <1>4, OnlyKeeps, OnlyHas
<1>7. \A q : InSeq(new, q) <=> IsNew(s, t, lits, q)
  BY <1>5, <1>6 DEF Keeps, InSeq, IsNew
<1>8. Distinct(new)
  BY <1>2, <1>4, OnlyApart DEF Distinct
<1>9. PICK B : B = {q \in Range(new) : s.level[q[1]] < Level(s)}
  OBVIOUS
<1>10. PICK low : low = Only(new, B)
  OBVIOUS
<1>11. DOMAIN new = 1..Len(new) /\ Range(new) = {new[i] : i \in 1..Len(new)}
  BY <1>6, LenProperties DEF Range
<1>12. \A q : q \in Range(new) <=> IsNew(s, t, lits, q)
  BY <1>7, <1>11 DEF InSeq
<1>13. \A q : q \in B <=> IsNew(s, t, lits, q) /\ s.level[q[1]] < Len(s.lim)
  BY <1>9, <1>12 DEF Level
<1>14. low \in Seq(AllLits) /\ Keeps(low, new, B)
  BY <1>6, <1>10, OnlyKeeps, OnlyHas
<1>15. \A q : InSeq(low, q) <=> q \in B
  BY <1>7, <1>13, <1>14 DEF Keeps, InSeq
<1>16. Distinct(low)
  BY SMTT(30), <1>6, <1>8, <1>10, OnlyApart DEF Distinct
<1>17. PICK w : w = t.out \o low
  OBVIOUS
<1>18. w \in Seq(AllLits) /\ Joins(w, t.out, low)
  BY <1>1, <1>14, <1>17, ConcatIs, ConcatHas
<1>19. PICK V : V = t.seen \cup VarsOf(Range(new))
  OBVIOUS
<1>20. \A v : v \in V <=> v \in t.seen \/ \E q : IsNew(s, t, lits, q) /\ q[1] = v
  BY <1>12, <1>19 DEF VarsOf
<1>21. V \in SUBSET Vars
  <2>1. \A q : IsNew(s, t, lits, q) => q[1] \in Vars
    <3>1. \A i \in 1..Len(lits) : lits[i] \in AllLits
      BY LenProperties
    <3> QED BY <3>1, Literals DEF IsNew, InSeq
  <2> QED BY <1>1, <1>20, <2>1
<1>22. PICK n : n = t.open + Len(new) - Len(low)
  OBVIOUS
<1>23. u = [seen |-> V, out |-> w, open |-> n, uip |-> t.uip]
  <2>1. u = [t EXCEPT !.seen = @ \cup VarsOf(Range(new)), !.out  = @ \o low, !.open = @ + Len(new) - Len(low)]
    BY <1>3, <1>4, <1>9, <1>10 DEF Absorb
  <2> QED BY <1>1, <1>17, <1>19, <1>22, <2>1
<1>24. Len(new) \in Nat /\ Len(low) \in Nat /\ n \in Int
  <2>1. Len(new) \in Nat /\ Len(low) \in Nat
    BY <1>6, <1>14, LenProperties
  <2> QED BY <1>1, <1>22, <2>1
<1>25. u \in WalkType /\ u.uip = t.uip /\ u.seen = V /\ u.out = w /\ u.open = n
  BY <1>1, <1>18, <1>21, <1>23, <1>24 DEF WalkType
<1>26. PICK D : D = A \ B
  OBVIOUS
<1>27. IsFiniteSet(D) /\ n = t.open + Cardinality(D)
  <2>1. IsFiniteSet(A) /\ Cardinality(A) = Len(new)
    <3>1. \A x : x \in A <=> \E i \in 1..Len(new) : new[i] = x
      BY <1>5, <1>7 DEF InSeq
    <3> QED BY <1>6, <1>8, <3>1, RangeSize
  <2>2. IsFiniteSet(B) /\ Cardinality(B) = Len(low)
    <3>1. \A x : x \in B <=> \E i \in 1..Len(low) : low[i] = x
      BY <1>15 DEF InSeq
    <3> QED BY <1>14, <1>16, <3>1, RangeSize
  <2>3. A \cap B = B
    BY <1>5, <1>13
  <2>4. IsFiniteSet(D) /\ Cardinality(D) = Len(new) - Len(low)
    <3>1. IsFiniteSet(A \ B) /\ Cardinality(A \ B) = Cardinality(A) - Cardinality(A \cap B)
      BY ONLY <2>1, FS_Difference
    <3>2. Cardinality(A \cap B) = Len(low)
      BY <2>2, <2>3
    <3> QED BY <1>26, <2>1, <3>1, <3>2
  <2> QED BY <1>1, <1>22, <1>24, <2>4
<1>28. \A q : q \in D <=> IsNew(s, t, lits, q) /\ ~(s.level[q[1]] < Len(s.lim))
  BY <1>5, <1>13, <1>26
<1>29. \A q : InSeq(w, q) <=> InSeq(t.out, q) \/ (IsNew(s, t, lits, q) /\ s.level[q[1]] < Len(s.lim))
  BY <1>13, <1>15, <1>18 DEF Joins, InSeq
<1>30. ASSUME Distinct(t.out), \A q : InSeq(t.out, q) => q[1] \in t.seen PROVE Distinct(w)
  <2>1. \A i \in 1..Len(t.out) : \A j \in 1..Len(low) : t.out[i] # low[j]
    BY <1>13, <1>15, <1>30 DEF InSeq, IsNew
  <2> QED BY <1>1, <1>14, <1>16, <1>17, <1>30, <2>1, ConcatApart
<1>31. \E E : /\ IsFiniteSet(E) /\ u.open = t.open + Cardinality(E)
              /\ \A q : q \in E <=> IsNew(s, t, lits, q) /\ ~(s.level[q[1]] < Len(s.lim))
  BY <1>25, <1>27, <1>28
<1>32. \A v : v \in u.seen <=> v \in t.seen \/ \E q : IsNew(s, t, lits, q) /\ q[1] = v
  BY <1>20, <1>25
<1>33. \A q : InSeq(u.out, q) <=> InSeq(t.out, q) \/ (IsNew(s, t, lits, q) /\ s.level[q[1]] < Len(s.lim))
  BY <1>25, <1>29
<1> QED BY <1>25, <1>30, <1>31, <1>32, <1>33 DEF Absorbed

Mentioned(s, q) == \E r \in DOMAIN s.clause : InClause(s, r, q)

\* What holds of the variables and literals that analyze() collected.
WalkCore(s, t) ==
  /\ t \in WalkType /\ Distinct(t.out)
  /\ \A q : InSeq(t.out, q) =>
       /\ q \in AllLits /\ OnTrail(s, Neg(q)) /\ s.level[q[1]] > 0 /\ s.level[q[1]] < Len(s.lim)
       /\ q[1] \in t.seen /\ Mentioned(s, q)
  /\ \A j \in 1..Len(s.trail) : s.trail[j][1] \in t.seen =>
       /\ Lv(s, j) > 0 /\ Mentioned(s, Neg(s.trail[j]))
       /\ Lv(s, j) < Len(s.lim) => InSeq(t.out, Neg(s.trail[j]))

\* Literals that the first n literals on the trail make false at the last
\* level, of the variables seen.
OpenLits(s, seen, n) ==
  {q \in AllLits : \E j \in 1..n : s.trail[j] = Neg(q) /\ Lv(s, j) = Len(s.lim) /\ q[1] \in seen}

\* Literals of a clause that the first n literals on the trail make false.
Backing(s, lits, n) ==
  /\ lits \in Seq(AllLits) /\ \A i, j \in 1..Len(lits) : lits[i][1] = lits[j][1] => i = j
  /\ \A k \in 1..Len(lits) : Mentioned(s, lits[k]) /\ \E j \in 1..n : s.trail[j] = Neg(lits[k])

\* Model m has a literal that was collected, or that is open.
Covers(s, t, n, m) ==
  (\E q \in m : InSeq(t.out, q)) \/ (\E q \in m : q \in OpenLits(s, t.seen, n))

AbsorbedCore(s, t, n, lits, u) ==
  /\ WalkCore(s, u) /\ u.uip = t.uip
  /\ \A q : InSeq(t.out, q) => InSeq(u.out, q)
  /\ t.seen \subseteq u.seen
  /\ \E D : /\ IsFiniteSet(D) /\ u.open = t.open + Cardinality(D)
            /\ \A q : q \in OpenLits(s, u.seen, n) <=> q \in OpenLits(s, t.seen, n) \/ q \in D
            /\ \A q \in D : q[1] \notin t.seen
  /\ \A m \in Models : Means(s, m) /\ (\E k \in 1..Len(lits) : lits[k] \in m) => Covers(s, u, n, m)

\* Absorbing a clause of which all literals are false.
LEMMA AbsorbCore ==
  ASSUME NEW s, Books(s), NEW t, WalkCore(s, t), NEW n \in 0..Len(s.trail), NEW lits, Backing(s, lits, n),
         NEW u, u = Absorb(s, t, lits)
  PROVE  AbsorbedCore(s, t, n, lits, u)
<1>1. Typed(s) /\ TrailOK(s) /\ LevelsOK(s)
  BY BooksAre
<1>2. /\ lits \in Seq(AllLits) /\ (\A i, j \in 1..Len(lits) : lits[i][1] = lits[j][1] => i = j)
      /\ \A k \in 1..Len(lits) : lits[k] \in AllLits
  BY LenProperties DEF Backing
<1>3. t \in WalkType
  BY DEF WalkCore
<1>4. Absorbed(s, t, lits, u)
  BY <1>1, <1>2, <1>3, AbsorbIs
<1>5. /\ u \in WalkType /\ u.uip = t.uip
      /\ (\A v : v \in u.seen <=> v \in t.seen \/ \E q : IsNew(s, t, lits, q) /\ q[1] = v)
      /\ (\A q : InSeq(u.out, q) <=> InSeq(t.out, q) \/ (IsNew(s, t, lits, q) /\ s.level[q[1]] < Len(s.lim)))
      /\ (Distinct(t.out) /\ (\A q : InSeq(t.out, q) => q[1] \in t.seen) => Distinct(u.out))
  BY <1>4 DEF Absorbed
<1>6. PICK D : /\ IsFiniteSet(D) /\ u.open = t.open + Cardinality(D)
               /\ \A q : q \in D <=> IsNew(s, t, lits, q) /\ ~(s.level[q[1]] < Len(s.lim))
  BY <1>4 DEF Absorbed
<1>7. Len(s.trail) \in Nat /\ n \in Nat /\ n <= Len(s.trail) /\ Len(s.lim) \in Nat
      /\ (\A j \in 1..n : j \in 1..Len(s.trail))
      /\ \A j \in 1..Len(s.trail) : s.trail[j] \in AllLits /\ Lv(s, j) \in Nat /\ Lv(s, j) <= Len(s.lim)
  BY <1>1, TypedIs DEF LevelsOK
<1>8. ASSUME NEW q, IsNew(s, t, lits, q)
      PROVE  /\ q \in AllLits /\ q[1] \notin t.seen /\ s.level[q[1]] > 0 /\ Mentioned(s, q)
             /\ \E j \in 1..n : s.trail[j] = Neg(q) /\ Lv(s, j) = s.level[q[1]]
  <2>1. PICK k \in 1..Len(lits) : lits[k] = q
    BY <1>8 DEF IsNew, InSeq
  <2>2. PICK j \in 1..n : s.trail[j] = Neg(q)
    BY <2>1 DEF Backing
  <2>3. q \in AllLits /\ Neg(q)[1] = q[1]
    BY <1>2, <2>1, Literals
  <2>4. Lv(s, j) = s.level[q[1]]
    BY <2>2, <2>3 DEF Lv
  <2> QED BY <1>8, <2>1, <2>2, <2>3, <2>4 DEF IsNew, Backing
<1>9. ASSUME NEW j \in 1..Len(s.trail), NEW q, IsNew(s, t, lits, q), q[1] = s.trail[j][1]
      PROVE  s.trail[j] = Neg(q) /\ j \in 1..n /\ q = Neg(s.trail[j]) /\ Lv(s, j) = s.level[q[1]]
  <2>1. PICK i \in 1..n : s.trail[i] = Neg(q) /\ Lv(s, i) = s.level[q[1]]
    BY <1>8, <1>9
  <2>2. q \in AllLits /\ Neg(q)[1] = q[1] /\ Neg(Neg(q)) = q
    BY <1>8, <1>9, Literals
  <2>3. i = j
    BY <1>1, <1>7, <1>9, <2>1, <2>2 DEF TrailOK
  <2> QED BY <2>1, <2>2, <2>3
<1>10. ASSUME NEW q, InSeq(u.out, q)
       PROVE  /\ q \in AllLits /\ OnTrail(s, Neg(q)) /\ s.level[q[1]] > 0 /\ s.level[q[1]] < Len(s.lim)
              /\ q[1] \in u.seen /\ Mentioned(s, q)
  <2>1. CASE InSeq(t.out, q)
    BY <1>5, <2>1 DEF WalkCore
  <2>2. CASE IsNew(s, t, lits, q) /\ s.level[q[1]] < Len(s.lim)
    <3>1. OnTrail(s, Neg(q))
      BY <1>7, <1>8, <2>2 DEF OnTrail
    <3> QED BY <1>5, <1>8, <2>2, <3>1
  <2> QED BY <1>5, <1>10, <2>1, <2>2
<1>11. ASSUME NEW j \in 1..Len(s.trail), s.trail[j][1] \in u.seen
       PROVE  /\ Lv(s, j) > 0 /\ Mentioned(s, Neg(s.trail[j]))
              /\ Lv(s, j) < Len(s.lim) => InSeq(u.out, Neg(s.trail[j]))
  <2>1. CASE s.trail[j][1] \in t.seen
    BY <1>5, <2>1 DEF WalkCore
  <2>2. CASE \E q : IsNew(s, t, lits, q) /\ q[1] = s.trail[j][1]
    <3>1. PICK q : IsNew(s, t, lits, q) /\ q[1] = s.trail[j][1]
      BY <2>2
    <3>2. q = Neg(s.trail[j]) /\ Lv(s, j) = s.level[q[1]]
      BY <1>9, <3>1
    <3>3. s.level[q[1]] > 0 /\ Mentioned(s, q)
      BY <1>8, <3>1
    <3>4. Lv(s, j) < Len(s.lim) => InSeq(u.out, q)
      BY <1>5, <3>1, <3>2
    <3> QED BY <3>2, <3>3, <3>4
  <2> QED BY <1>5, <1>11, <2>1, <2>2
<1>12. WalkCore(s, u)
  <2>1. Distinct(u.out)
    BY <1>5 DEF WalkCore
  <2> QED BY <1>5, <1>10, <1>11, <2>1 DEF WalkCore
<1>13. \A q : q \in OpenLits(s, u.seen, n) <=> q \in OpenLits(s, t.seen, n) \/ q \in D
  <2>1. ASSUME NEW q, q \in OpenLits(s, u.seen, n) PROVE q \in OpenLits(s, t.seen, n) \/ q \in D
    <3>1. PICK j \in 1..n : q \in AllLits /\ s.trail[j] = Neg(q) /\ Lv(s, j) = Len(s.lim) /\ q[1] \in u.seen
      BY <2>1 DEF OpenLits
    <3>2. CASE q[1] \in t.seen
      BY <3>1, <3>2 DEF OpenLits
    <3>3. CASE q[1] \notin t.seen
      <4>1. PICK p : IsNew(s, t, lits, p) /\ p[1] = q[1]
        BY <1>5, <3>1, <3>3
      <4>2. s.trail[j][1] = q[1] /\ Neg(s.trail[j]) = q
        BY <3>1, Literals
      <4>3. p = Neg(s.trail[j]) /\ Lv(s, j) = s.level[p[1]]
        BY <1>7, <1>9, <4>1, <4>2
      <4>4. ~(s.level[p[1]] < Len(s.lim))
        BY <1>7, <3>1, <4>3
      <4> QED BY <1>6, <4>1, <4>2, <4>3, <4>4
    <3> QED BY <3>2, <3>3
  <2>2. ASSUME NEW q, q \in OpenLits(s, t.seen, n) PROVE q \in OpenLits(s, u.seen, n)
    BY <1>5, <2>2 DEF OpenLits
  <2>3. ASSUME NEW q, q \in D PROVE q \in OpenLits(s, u.seen, n)
    <3>1. IsNew(s, t, lits, q) /\ ~(s.level[q[1]] < Len(s.lim))
      BY <1>6, <2>3
    <3>2. q \in AllLits /\ q[1] \in u.seen
      BY <1>5, <1>8, <3>1
    <3>3. PICK j \in 1..n : s.trail[j] = Neg(q) /\ Lv(s, j) = s.level[q[1]]
      BY <1>8, <3>1
    <3>4. Lv(s, j) = Len(s.lim)
      BY <1>7, <3>1, <3>3
    <3> QED BY <3>2, <3>3, <3>4 DEF OpenLits
  <2> QED BY <2>1, <2>2, <2>3
<1>14. \A q \in D : q[1] \notin t.seen
  BY <1>6 DEF IsNew
<1>15. ASSUME NEW m \in Models, Means(s, m), NEW k \in 1..Len(lits), lits[k] \in m PROVE Covers(s, u, n, m)
  <2>1. PICK q : q = lits[k]
    OBVIOUS
  <2>2. q \in AllLits /\ q \in m /\ InSeq(lits, q)
    BY <1>2, <1>15, <2>1 DEF InSeq
  <2>3. PICK j \in 1..n : s.trail[j] = Neg(q)
    BY <2>1 DEF Backing
  <2>4. j \in 1..Len(s.trail) /\ Lv(s, j) = s.level[q[1]] /\ Lv(s, j) \in Nat /\ Lv(s, j) <= Len(s.lim)
        /\ s.trail[j][1] = q[1] /\ q = Neg(s.trail[j])
    BY <1>7, <2>2, <2>3, Literals DEF Lv
  <2>5. Lv(s, j) > 0
    <3> SUFFICES ASSUME Lv(s, j) = 0 PROVE FALSE
      BY <2>4
    <3>1. Neg(q) \in m
      BY <1>15, <2>3, <2>4 DEF Means
    <3> QED BY <2>2, <3>1 DEF Models
  <2>6. q[1] \in u.seen
    BY <1>5, <2>2, <2>4, <2>5 DEF IsNew
  <2>7. CASE Lv(s, j) < Len(s.lim)
    <3>1. InSeq(u.out, q)
      BY <1>11, <2>4, <2>6, <2>7
    <3> QED BY <2>2, <3>1 DEF Covers
  <2>8. CASE ~(Lv(s, j) < Len(s.lim))
    <3>1. Lv(s, j) = Len(s.lim)
      BY <1>7, <2>4, <2>8
    <3>2. q \in OpenLits(s, u.seen, n)
      BY <2>2, <2>3, <2>6, <3>1 DEF OpenLits
    <3> QED BY <2>2, <3>2 DEF Covers
  <2> QED BY <2>7, <2>8
<1>16. /\ \A q : InSeq(t.out, q) => InSeq(u.out, q)
       /\ t.seen \subseteq u.seen
  BY <1>5
<1> QED BY <1>5, <1>6, <1>12, <1>13, <1>14, <1>15, <1>16 DEF AbsorbedCore

\* The literal that analyze() stops at: every model has its negation or a
\* literal that was collected.
Found(s, t) ==
  \E j \in 1..Len(s.trail) :
    /\ t.uip = <<s.trail[j]>> /\ Lv(s, j) = Len(s.lim) /\ Mentioned(s, Neg(s.trail[j]))
    /\ \A m \in Models : Means(s, m) => Neg(s.trail[j]) \in m \/ \E q \in m : InSeq(t.out, q)

\* Literals are open, and every model has one of them or one that was
\* collected.
Seeking(s, t, n) ==
  /\ t.uip = <<>>
  /\ IsFiniteSet(OpenLits(s, t.seen, n)) /\ t.open = Cardinality(OpenLits(s, t.seen, n)) /\ t.open >= 1
  /\ \A m \in Models : Means(s, m) => Covers(s, t, n, m)

\* What holds in the loop of analyze() above the first n literals of the
\* trail.
Walking(s, t, n) == WalkCore(s, t) /\ (Found(s, t) \/ Seeking(s, t, n))

\* The next literal of the trail is open, or not seen.
LEMMA OpenStep ==
  ASSUME NEW s, Books(s), NEW seen, NEW n \in 1..Len(s.trail), NEW O, O = OpenLits(s, seen, n),
         NEW N, N = OpenLits(s, seen, n - 1), NEW p, p = s.trail[n]
  PROVE  /\ p[1] \notin seen => N = O
         /\ p[1] \in seen /\ O # {} =>
              /\ Lv(s, n) = Len(s.lim) /\ Neg(p) \in O /\ Neg(p) \notin N /\ N = O \ {Neg(p)}
<1>1. Typed(s) /\ TrailOK(s) /\ LevelsOK(s)
  BY BooksAre
<1>2. Len(s.trail) \in Nat /\ Len(s.lim) \in Nat /\ n \in Nat /\ n - 1 \in Nat
      /\ (\A j \in 1..n : j \in 1..Len(s.trail) /\ j \in Nat /\ (j \in 1..(n - 1) \/ j = n))
      /\ (\A j \in 1..(n - 1) : j \in 1..n /\ j # n) /\ n \in 1..n
      /\ \A j \in 1..Len(s.trail) : s.trail[j] \in AllLits /\ Lv(s, j) \in Nat /\ Lv(s, j) <= Len(s.lim)
  BY <1>1, TypedIs DEF LevelsOK
<1>3. p \in AllLits /\ Neg(p) \in AllLits /\ Neg(Neg(p)) = p /\ Neg(p)[1] = p[1]
  BY <1>2, Literals
<1>4. \A q : q \in N => q \in O
  BY <1>2 DEF OpenLits
<1>5. ASSUME NEW q, q \in O, q \notin N PROVE q = Neg(p) /\ p[1] \in seen
  <2>1. PICK j \in 1..n : q \in AllLits /\ s.trail[j] = Neg(q) /\ Lv(s, j) = Len(s.lim) /\ q[1] \in seen
    BY <1>5 DEF OpenLits
  <2>2. j = n
    BY <1>2, <1>5, <2>1 DEF OpenLits
  <2> QED BY <2>1, <2>2, Literals
<1>6. ASSUME p[1] \notin seen PROVE N = O
  BY <1>4, <1>5, <1>6
<1>7. ASSUME p[1] \in seen, O # {} PROVE Lv(s, n) = Len(s.lim)
  <2>1. PICK q : q \in O
    BY <1>7
  <2>2. PICK j \in 1..n : s.trail[j] = Neg(q) /\ Lv(s, j) = Len(s.lim)
    BY <2>1 DEF OpenLits
  <2>3. PICK L \in Nat : L = Len(s.lim)
    BY <1>2
  <2>4. CASE L = 0
    BY <1>2, <2>3, <2>4
  <2>5. CASE L # 0
    <3>1. L \in 1..Len(s.lim)
      BY <2>3, <2>5
    <3>2. s.lim[L] \in Nat
      BY <1>1, <3>1, TypedIs
    <3>3. j > s.lim[L]
      BY <1>1, <1>2, <2>2, <2>3, <3>1 DEF LevelsOK
    <3>4. n > s.lim[L]
      BY <1>2, <3>2, <3>3
    <3>5. Lv(s, n) >= L
      BY <1>1, <1>2, <3>1, <3>4 DEF LevelsOK
    <3> QED BY <1>2, <2>3, <3>5
  <2> QED BY <2>4, <2>5
<1>8. ASSUME p[1] \in seen, O # {} PROVE Neg(p) \in O /\ Neg(p) \notin N /\ N = O \ {Neg(p)}
  <2>1. Neg(p) \in O
    BY <1>2, <1>3, <1>7, <1>8 DEF OpenLits
  <2>2. Neg(p) \notin N
    <3> SUFFICES ASSUME Neg(p) \in N PROVE FALSE
      OBVIOUS
    <3>1. PICK j \in 1..(n - 1) : s.trail[j] = Neg(Neg(p))
      BY DEF OpenLits
    <3>2. s.trail[j][1] = s.trail[n][1]
      BY <1>3, <3>1
    <3> QED BY <1>1, <1>2, <3>2 DEF TrailOK
  <2> QED BY <1>4, <1>5, <2>1, <2>2
<1> QED BY <1>6, <1>7, <1>8

\* The last open literal is found.
LEMMA ResolveLast ==
  ASSUME NEW s, Books(s), NEW n \in 1..Len(s.trail), NEW t, WalkCore(s, t), Seeking(s, t, n),
         NEW p, p = s.trail[n], p[1] \in t.seen, t.open = 1, NEW u, u = [t EXCEPT !.uip = <<p>>]
  PROVE  WalkCore(s, u) /\ Found(s, u)
<1>1. PICK O : O = OpenLits(s, t.seen, n)
  OBVIOUS
<1>2. IsFiniteSet(O) /\ Cardinality(O) = 1
  BY <1>1 DEF Seeking
<1>3. PICK x : O = {x}
  BY <1>2, FS_Singleton
<1>4. Lv(s, n) = Len(s.lim) /\ Neg(p) \in O
  <2>1. PICK N : N = OpenLits(s, t.seen, n - 1)
    OBVIOUS
  <2>2. O # {} /\ p[1] \in t.seen
    BY <1>3
  <2> QED BY <1>1, <2>1, <2>2, OpenStep
<1>5. O = {Neg(p)}
  BY <1>3, <1>4
<1>6. t \in WalkType /\ p \in AllLits
  <2>1. Typed(s)
    BY BooksAre
  <2> QED BY <2>1, TypedIs DEF WalkCore
<1>7. u.seen = t.seen /\ u.out = t.out /\ u.uip = <<p>> /\ u \in WalkType
  <2>1. <<p>> \in Seq(AllLits)
    BY <1>6
  <2> QED BY <1>6, <2>1 DEF WalkType
<1>8. WalkCore(s, u)
  BY <1>7 DEF WalkCore
<1>9. Mentioned(s, Neg(p))
  BY DEF WalkCore
<1>10. ASSUME NEW m \in Models, Means(s, m) PROVE Neg(p) \in m \/ \E q \in m : InSeq(u.out, q)
  <2>1. Covers(s, t, n, m)
    BY <1>10 DEF Seeking
  <2> QED BY <1>1, <1>5, <1>7, <2>1 DEF Covers
<1> QED BY <1>4, <1>7, <1>8, <1>9, <1>10 DEF Found

\* A literal of the last level that is not the only open one has a reason.
LEMMA ReasonThere ==
  ASSUME NEW s, Books(s), DecisionsOK(s), Len(s.lim) > 0, NEW n \in 1..Len(s.trail), NEW t, Seeking(s, t, n),
         NEW p, p = s.trail[n], p[1] \in t.seen, t.open # 1
  PROVE  Explains(s, s.reason[p[1]], n)
<1>1. Typed(s) /\ TrailOK(s) /\ LevelsOK(s) /\ ReasonsOK(s)
  BY BooksAre
<1>2. PICK O : O = OpenLits(s, t.seen, n)
  OBVIOUS
<1>3. IsFiniteSet(O) /\ t.open = Cardinality(O) /\ t.open >= 1
  BY <1>2 DEF Seeking
<1>4. O # {}
  <2> SUFFICES ASSUME O = {} PROVE FALSE
    OBVIOUS
  <2>1. Cardinality(O) = 0
    BY FS_EmptySet
  <2> QED BY <1>3, <2>1
<1>5. Lv(s, n) = Len(s.lim) /\ Neg(p) \in O
  BY <1>2, <1>4, OpenStep
<1>6. PICK q \in O : q # Neg(p)
  <2> SUFFICES ASSUME O = {Neg(p)} PROVE FALSE
    BY <1>5
  <2>1. Cardinality(O) = 1
    BY FS_Singleton
  <2> QED BY <1>3, <2>1
<1>7. PICK j \in 1..n : q \in AllLits /\ s.trail[j] = Neg(q) /\ Lv(s, j) = Len(s.lim)
  BY <1>2 DEF OpenLits
<1>8. j # n
  BY <1>6, <1>7, Literals
<1>9. PICK L \in Nat : L = Len(s.lim)
  BY <1>1, TypedIs
<1>10. L \in 1..Len(s.lim) /\ L # 0 /\ s.lim[L] \in Nat
  <2>1. L \in 1..Len(s.lim) /\ L # 0
    BY <1>9
  <2> QED BY <1>1, <2>1, TypedIs
<1>11. Len(s.trail) \in Nat /\ n \in Nat /\ j \in Nat /\ j < n /\ j \in 1..Len(s.trail)
  <2>1. Len(s.trail) \in Nat
    BY <1>1, TypedIs
  <2> QED BY <1>8, <2>1
<1>12. Lv(s, j) >= L
  BY <1>7, <1>9
<1>13. j > s.lim[L]
  BY <1>1, <1>10, <1>11, <1>12 DEF LevelsOK
<1>14. n # s.lim[L] + 1
  BY <1>10, <1>11, <1>13
<1>15. s.reason[p[1]] # NoClause
  BY <1>5, <1>9, <1>10, <1>14 DEF DecisionsOK
<1> QED BY <1>1, <1>15 DEF ReasonsOK

\* The other literals of a reason are false before what it implies.
LEMMA ReasonBacks ==
  ASSUME NEW s, Books(s), NEW n \in 1..Len(s.trail), NEW r, Explains(s, r, n), NEW lits, lits = Others(s, r)
  PROVE  /\ Backing(s, lits, n - 1)
         /\ \A m \in Models : Means(s, m) /\ Neg(s.trail[n]) \in m => \E k \in 1..Len(lits) : lits[k] \in m
<1>1. Typed(s) /\ r \in DOMAIN s.clause /\ s.clause[r][1] = s.trail[n]
      /\ \A k \in 2..Len(s.clause[r]) : \E j \in 1..(n - 1) : s.trail[j] = Neg(s.clause[r][k])
  BY BooksAre DEF Explains
<1>2. PICK c : c = s.clause[r]
  OBVIOUS
<1>3. c \in ClauseSeq /\ lits = Tail(c) /\ s.trail[n] \in AllLits
  BY <1>1, <1>2, TypedIs DEF Others
<1>4. /\ lits \in Seq(AllLits) /\ Len(lits) = Len(c) - 1 /\ Len(lits) \in Nat
      /\ (\A i \in 1..Len(lits) : lits[i] = c[i + 1] /\ i + 1 \in 2..Len(c))
      /\ \A i, j \in 1..Len(lits) : lits[i][1] = lits[j][1] => i = j
  BY <1>3, TailIs
<1>5. Len(c) \in Nat
  BY <1>3, ClauseIs
<1>6. \A i \in 2..Len(c) : i \in 1..Len(c)
  BY <1>5
<1>7. \A k \in 1..Len(lits) : Mentioned(s, lits[k]) /\ \E j \in 1..(n - 1) : s.trail[j] = Neg(lits[k])
  <2> SUFFICES ASSUME NEW k \in 1..Len(lits)
               PROVE  Mentioned(s, lits[k]) /\ \E j \in 1..(n - 1) : s.trail[j] = Neg(lits[k])
    OBVIOUS
  <2>1. PICK i \in 2..Len(c) : lits[k] = c[i]
    BY <1>4
  <2>2. \E j \in 1..(n - 1) : s.trail[j] = Neg(lits[k])
    BY <1>1, <1>2, <2>1
  <2>3. Mentioned(s, lits[k])
    BY <1>1, <1>2, <1>6, <2>1 DEF Mentioned, InClause
  <2> QED BY <2>2, <2>3
<1>8. ASSUME NEW m \in Models, Means(s, m), Neg(s.trail[n]) \in m PROVE \E k \in 1..Len(lits) : lits[k] \in m
  <2>1. PICK i \in 1..Len(c) : c[i] \in m
    BY <1>1, <1>2, <1>8 DEF Means
  <2>2. i # 1
    BY <1>1, <1>2, <1>3, <1>8, <2>1 DEF Models
  <2>3. i - 1 \in 1..Len(lits) /\ (i - 1) + 1 = i
    BY <1>4, <1>5, <2>2
  <2> QED BY <1>4, <2>1, <2>3
<1> QED BY <1>4, <1>7, <1>8 DEF Backing

\* Of the members of O, x makes room for those of D.
Replaces(O, U, D, x) ==
  /\ x \in O /\ \A q : q \in U <=> (q \in O /\ q # x) \/ q \in D
  /\ \A q \in D : q \in O => q = x

\* What is open changes by one literal resolved and those of its reason.
LEMMA CountOpen ==
  ASSUME NEW O, NEW U, NEW D, NEW x, IsFiniteSet(O), IsFiniteSet(D), Replaces(O, U, D, x),
         NEW a, a = Cardinality(O)
  PROVE  IsFiniteSet(U) /\ Cardinality(U) = (a - 1) + Cardinality(D) /\ a \in Nat /\ Cardinality(D) \in Nat
<1>0. PICK N : N = O \ {x}
  OBVIOUS
<1>1. U = N \cup D /\ N \cap D = {} /\ x \in O
  BY <1>0 DEF Replaces
<1>2. IsFiniteSet(N) /\ Cardinality(N) = a - 1
  BY <1>0, <1>1, FS_RemoveElement
<1>3. IsFiniteSet(N \cup D)
  BY <1>2, FS_Union
<1>4. Cardinality(N \cup D) = Cardinality(N) + Cardinality(D) - Cardinality(N \cap D)
  BY <1>2, FS_Union
<1>5. Cardinality(N \cap D) = 0
  BY <1>1, FS_EmptySet
<1>6. Cardinality(O) \in Nat /\ Cardinality(D) \in Nat
  BY FS_CardinalityType
<1>7. a \in Nat
  BY <1>6
<1>8. Cardinality(N \cup D) = (a - 1) + Cardinality(D)
  BY <1>2, <1>4, <1>5, <1>6, <1>7
<1> QED BY <1>1, <1>3, <1>6, <1>7, <1>8

\* An open literal that is not the last one is resolved with its reason.
LEMMA ResolveNext ==
  ASSUME NEW s, Books(s), DecisionsOK(s), Len(s.lim) > 0, NEW n \in 1..Len(s.trail),
         NEW t, WalkCore(s, t), Seeking(s, t, n),
         NEW p, p = s.trail[n], p[1] \in t.seen, t.open # 1,
         NEW u, u = Absorb(s, [t EXCEPT !.open = @ - 1], Others(s, s.reason[p[1]]))
  PROVE  WalkCore(s, u) /\ Seeking(s, u, n - 1)
<1>1. Explains(s, s.reason[p[1]], n)
  BY ReasonThere
<1>2. PICK lits : lits = Others(s, s.reason[p[1]])
  OBVIOUS
<1>3. /\ Backing(s, lits, n - 1)
      /\ \A m \in Models : Means(s, m) /\ Neg(p) \in m => \E k \in 1..Len(lits) : lits[k] \in m
  BY <1>1, <1>2, ReasonBacks
<1>4. PICK b : b = [t EXCEPT !.open = @ - 1]
  OBVIOUS
<1>5. b \in WalkType /\ b.seen = t.seen /\ b.out = t.out /\ b.uip = t.uip /\ b.open = t.open - 1 /\ t.open \in Int
  <2>1. t.seen \in SUBSET Vars /\ t.out \in Seq(AllLits) /\ t.open \in Int /\ t.uip \in Seq(AllLits)
        /\ t = [seen |-> t.seen, out |-> t.out, open |-> t.open, uip |-> t.uip]
    BY DEF WalkCore, WalkType
  <2>2. b = [seen |-> t.seen, out |-> t.out, open |-> t.open - 1, uip |-> t.uip]
    BY <1>4, <2>1
  <2>3. t.open - 1 \in Int
    BY <2>1
  <2> QED BY <2>1, <2>2, <2>3 DEF WalkType
<1>6. WalkCore(s, b)
  BY <1>5 DEF WalkCore
<1>7. n - 1 \in 0..Len(s.trail)
  <2>1. Typed(s)
    BY BooksAre
  <2>2. Len(s.trail) \in Nat
    BY <2>1, TypedIs
  <2> QED BY <2>2
<1>8. u = Absorb(s, b, lits)
  BY <1>2, <1>4
<1>9. AbsorbedCore(s, b, n - 1, lits, u)
  BY <1>3, <1>6, <1>7, <1>8, AbsorbCore
<1>10. /\ WalkCore(s, u) /\ u.uip = <<>> /\ t.seen \subseteq u.seen
       /\ (\A q : InSeq(t.out, q) => InSeq(u.out, q))
       /\ \A m \in Models : Means(s, m) /\ (\E k \in 1..Len(lits) : lits[k] \in m) => Covers(s, u, n - 1, m)
  BY <1>5, <1>9 DEF AbsorbedCore, Seeking
<1>11. PICK D : /\ IsFiniteSet(D) /\ u.open = b.open + Cardinality(D)
                /\ \A q : q \in OpenLits(s, u.seen, n - 1) <=> q \in OpenLits(s, b.seen, n - 1) \/ q \in D
                /\ \A q \in D : q[1] \notin b.seen
  BY <1>9 DEF AbsorbedCore
<1>12. PICK O : O = OpenLits(s, t.seen, n)
  OBVIOUS
<1>13. PICK N : N = OpenLits(s, t.seen, n - 1)
  OBVIOUS
<1>14. PICK U : U = OpenLits(s, u.seen, n - 1)
  OBVIOUS
<1>15. IsFiniteSet(O) /\ t.open = Cardinality(O) /\ t.open >= 1 /\ O # {}
  <2>1. IsFiniteSet(O) /\ t.open = Cardinality(O) /\ t.open >= 1
    BY <1>12 DEF Seeking
  <2>2. ASSUME O = {} PROVE FALSE
    <3>1. Cardinality(O) = 0
      BY <2>2, FS_EmptySet
    <3> QED BY <2>1, <3>1
  <2> QED BY <2>1, <2>2
<1>16. Neg(p) \in O /\ N = O \ {Neg(p)}
  BY <1>12, <1>13, <1>15, OpenStep
<1>17. \A q : q \in U <=> q \in N \/ q \in D
  BY <1>5, <1>11, <1>13, <1>14
<1>18. \A q \in D : q \notin N
  BY <1>5, <1>11, <1>13 DEF OpenLits
<1>19. IsFiniteSet(U) /\ Cardinality(U) = (t.open - 1) + Cardinality(D) /\ t.open \in Nat /\ Cardinality(D) \in Nat
  <2>1. PICK x : x = Neg(p)
    OBVIOUS
  <2>2. PICK a : a = t.open
    OBVIOUS
  <2>3. IsFiniteSet(O) /\ IsFiniteSet(D) /\ a = Cardinality(O)
    BY <1>11, <1>15, <2>2
  <2>5. Replaces(O, U, D, x)
    BY <1>16, <1>17, <1>18, <2>1 DEF Replaces
  <2>4. IsFiniteSet(U) /\ Cardinality(U) = (a - 1) + Cardinality(D) /\ a \in Nat /\ Cardinality(D) \in Nat
    BY <2>3, <2>5, CountOpen
  <2> QED BY <2>2, <2>4
<1>20. u.open = Cardinality(U) /\ u.open >= 1
  <2>1. u.open = (t.open - 1) + Cardinality(D)
    BY <1>5, <1>11
  <2>2. t.open # 1 /\ t.open >= 1
    BY <1>15
  <2>3. PICK a \in Nat : a = t.open
    BY <1>19
  <2>4. PICK d \in Nat : d = Cardinality(D)
    BY <1>19
  <2>5. a >= 1 /\ a # 1 /\ u.open = (a - 1) + d
    BY <2>1, <2>2, <2>3, <2>4
  <2>6. u.open >= 1
    BY <2>5
  <2> QED BY <1>19, <2>1, <2>6
<1>21. ASSUME NEW m \in Models, Means(s, m) PROVE Covers(s, u, n - 1, m)
  <2>1. Covers(s, t, n, m)
    BY <1>21 DEF Seeking
  <2>2. CASE \E q \in m : InSeq(t.out, q)
    BY <1>10, <2>2 DEF Covers
  <2>3. CASE \E q \in m : q \in O
    <3>1. PICK q \in m : q \in O
      BY <2>3
    <3>2. CASE q = Neg(p)
      <4>1. \E k \in 1..Len(lits) : lits[k] \in m
        BY <1>3, <1>21, <3>1, <3>2
      <4> QED BY <1>10, <1>21, <4>1
    <3>3. CASE q # Neg(p)
      <4>1. q \in U
        BY <1>16, <1>17, <3>1, <3>3
      <4> QED BY <1>14, <3>1, <4>1 DEF Covers
    <3> QED BY <3>2, <3>3
  <2> QED BY <1>12, <2>1, <2>2, <2>3 DEF Covers
<1>22. IsFiniteSet(OpenLits(s, u.seen, n - 1)) /\ u.open = Cardinality(OpenLits(s, u.seen, n - 1))
  BY <1>14, <1>19, <1>20
<1> QED BY <1>10, <1>20, <1>21, <1>22 DEF Seeking

\* One literal of the trail.
LEMMA ResolveIs ==
  ASSUME NEW s, Books(s), DecisionsOK(s), Len(s.lim) > 0, NEW n \in 1..Len(s.trail),
         NEW t, Walking(s, t, n), NEW p, p = s.trail[n], NEW u, u = Resolve(s, t, p)
  PROVE  Walking(s, u, n - 1)
<1>1. CASE t.uip # <<>>
  <2>1. u = t
    BY <1>1 DEF Resolve
  <2>2. WalkCore(s, t) /\ Found(s, t)
    BY <1>1 DEF Walking, Seeking
  <2> QED BY <2>1, <2>2 DEF Walking
<1>2. CASE t.uip = <<>>
  <2>0. <<>> # <<p>> /\ ~Found(s, t)
    <3>1. \A x : <<>> # <<x>>
      OBVIOUS
    <3> QED BY <1>2, <3>1 DEF Found
  <2>1. WalkCore(s, t) /\ Seeking(s, t, n)
    BY <2>0 DEF Walking
  <2>2. CASE p[1] \notin t.seen
    <3>1. u = t
      BY <2>2 DEF Resolve
    <3>2. OpenLits(s, t.seen, n - 1) = OpenLits(s, t.seen, n)
      BY <2>2, OpenStep
    <3>3. Seeking(s, t, n - 1)
      BY <2>1, <3>2 DEF Seeking, Covers
    <3> QED BY <2>1, <3>1, <3>3 DEF Walking
  <2>3. CASE p[1] \in t.seen /\ t.open = 1
    <3>1. u = [t EXCEPT !.uip = <<p>>]
      BY <1>2, <2>3 DEF Resolve
    <3>2. WalkCore(s, u) /\ Found(s, u)
      BY <2>1, <2>3, <3>1, ResolveLast
    <3> QED BY <3>2 DEF Walking
  <2>4. CASE p[1] \in t.seen /\ t.open # 1
    <3>1. u = Absorb(s, [t EXCEPT !.open = @ - 1], Others(s, s.reason[p[1]]))
      BY <1>2, <2>4 DEF Resolve
    <3>2. WalkCore(s, u) /\ Seeking(s, u, n - 1)
      BY <2>1, <2>4, <3>1, ResolveNext
    <3> QED BY <3>2 DEF Walking
  <2> QED BY <2>2, <2>3, <2>4
<1> QED BY <1>1, <1>2

\* Clause r is false, which could not be seen below the last level.
Conflicting(s, r) ==
  /\ Books(s) /\ DecisionsOK(s) /\ Len(s.lim) > 0 /\ Falsified(s, r) /\ AwakeTo(s, Bottom(s))

\* The literals that are watched in a false clause are of the last level.
LEMMA ConflictAtTop ==
  ASSUME NEW s, NEW r, Conflicting(s, r), NEW c, c = s.clause[r], NEW k \in {1, 2}
  PROVE  \E j \in 1..Len(s.trail) : s.trail[j] = Neg(c[k]) /\ Lv(s, j) = Len(s.lim)
<1>1. Books(s) /\ Typed(s) /\ TrailOK(s) /\ LevelsOK(s) /\ Len(s.lim) > 0 /\ r \in DOMAIN s.clause
      /\ \A i \in 1..Len(c) : OnTrail(s, Neg(c[i]))
  BY BooksAre DEF Conflicting, Falsified
<1>2. c \in ClauseSeq
  BY <1>1, TypedIs
<1>3. 1 \in 1..Len(c) /\ 2 \in 1..Len(c) /\ \A i \in 1..Len(c) : c[i] \in AllLits
  BY <1>2, ClauseIs
<1>4. PICK j \in 1..Len(s.trail) : s.trail[j] = Neg(c[k])
  BY <1>1, <1>3 DEF OnTrail
<1>5. PICK L \in Nat : L = Len(s.lim)
  BY <1>1, TypedIs
<1>6. L \in 1..Len(s.lim) /\ L # 0 /\ s.lim[L] \in Nat /\ Len(s.trail) \in Nat /\ j \in Nat
  <2>1. L \in 1..Len(s.lim) /\ L # 0
    BY <1>1, <1>5
  <2>2. Len(s.trail) \in Nat
    BY <1>1, TypedIs
  <2> QED BY <1>1, <2>1, <2>2, TypedIs
<1>7. Bottom(s) = s.lim[L]
  BY <1>5, <1>6 DEF Bottom
<1>8. j > s.lim[L]
  <2> SUFFICES ASSUME ~(j > s.lim[L]) PROVE FALSE
    OBVIOUS
  <2>1. j \in 1..Bottom(s)
    BY <1>6, <1>7
  <2>2. AwakeAt(s, r, j)
    BY <1>1, <2>1 DEF Conflicting, AwakeTo
  <2>3. PICK i \in 1..Len(s.trail) : InClause(s, r, s.trail[i])
    BY <1>4, <2>2 DEF AwakeAt
  <2>4. PICK l \in 1..Len(c) : c[l] = s.trail[i]
    BY <2>3 DEF InClause
  <2>5. OnTrail(s, c[l]) /\ OnTrail(s, Neg(c[l])) /\ c[l] \in AllLits
    BY <1>1, <1>3, <2>4 DEF OnTrail
  <2>6. c[l] \in s.assigned /\ Neg(c[l]) \in s.assigned
    BY SMTT(30), <1>1, <2>5 DEF OnTrail, TrailOK
  <2> QED BY <1>1, <2>6 DEF TrailOK
<1>9. Lv(s, j) >= L /\ Lv(s, j) <= L /\ Lv(s, j) \in Nat
  BY <1>1, <1>5, <1>6, <1>8, TypedIs DEF LevelsOK
<1> QED BY <1>4, <1>5, <1>9

\* What analyze() starts with.
NoneSeen == [seen |-> {}, out |-> <<>>, open |-> 0, uip |-> <<>>]

\* The walk back along the trail begins with the conflict.
LEMMA WalkStart ==
  ASSUME NEW s, NEW r, Conflicting(s, r), NEW u, u = Absorb(s, NoneSeen, s.clause[r])
  PROVE  Walking(s, u, Len(s.trail))
<1>1. Books(s) /\ Typed(s) /\ Len(s.lim) > 0 /\ r \in DOMAIN s.clause
  BY BooksAre DEF Conflicting, Falsified
<1>2. PICK c : c = s.clause[r]
  OBVIOUS
<1>3. c \in ClauseSeq
  BY <1>1, <1>2, TypedIs
<1>4. /\ c \in Seq(AllLits) /\ 1 \in 1..Len(c) /\ (\A i \in 1..Len(c) : c[i] \in AllLits)
      /\ \A i, j \in 1..Len(c) : c[i][1] = c[j][1] => i = j
  BY <1>3, ClauseIs
<1>5. Backing(s, c, Len(s.trail))
  <2>1. \A k \in 1..Len(c) : Mentioned(s, c[k])
    BY <1>1, <1>2 DEF Mentioned, InClause
  <2>2. \A k \in 1..Len(c) : \E j \in 1..Len(s.trail) : s.trail[j] = Neg(c[k])
    BY <1>2 DEF Conflicting, Falsified, OnTrail
  <2> QED BY <1>4, <2>1, <2>2 DEF Backing
<1>6. PICK t : t = NoneSeen
  OBVIOUS
<1>7. /\ t \in WalkType /\ t.seen = {} /\ t.out = <<>> /\ t.open = 0 /\ t.uip = <<>> /\ Len(t.out) = 0
      /\ \A q : ~InSeq(t.out, q)
  <2>1. t \in WalkType /\ t.seen = {} /\ t.out = <<>> /\ t.open = 0 /\ t.uip = <<>>
    BY <1>6 DEF NoneSeen, WalkType
  <2>2. Len(t.out) = 0
    BY <2>1
  <2>3. \A q : ~InSeq(t.out, q)
    BY <2>2 DEF InSeq
  <2> QED BY <2>1, <2>2, <2>3
<1>8. WalkCore(s, t)
  <2>1. Distinct(t.out)
    BY <1>7 DEF Distinct
  <2>2. \A j \in 1..Len(s.trail) : s.trail[j][1] \notin t.seen
    BY <1>7
  <2> QED BY <1>7, <2>1, <2>2 DEF WalkCore
<1>9. Len(s.trail) \in Nat /\ Len(s.trail) \in 0..Len(s.trail)
  <2>1. Len(s.trail) \in Nat
    BY <1>1, TypedIs
  <2> QED BY <2>1
<1>10. u = Absorb(s, t, c)
  BY <1>2, <1>6
<1>11. PICK n : n = Len(s.trail)
  OBVIOUS
<1>12. AbsorbedCore(s, t, n, c, u)
  BY <1>1, <1>5, <1>8, <1>9, <1>10, <1>11, AbsorbCore
<1>13. Absorbed(s, t, c, u)
  BY <1>1, <1>4, <1>7, <1>10, AbsorbIs
<1>14. c[1][1] \in u.seen
  <2>1. PICK j \in 1..Len(s.trail) : s.trail[j] = Neg(c[1]) /\ Lv(s, j) = Len(s.lim)
    BY <1>2, ConflictAtTop
  <2>2. s.level[c[1][1]] > 0
    BY <1>1, <1>4, <2>1, Literals DEF Lv
  <2>3. InSeq(c, c[1])
    BY <1>4 DEF InSeq
  <2>4. IsNew(s, t, c, c[1])
    BY <1>7, <2>2, <2>3 DEF IsNew
  <2> QED BY <1>13, <2>4 DEF Absorbed
<1>15. c[1] \in OpenLits(s, u.seen, n)
  <2>1. \E j \in 1..Len(s.trail) : s.trail[j] = Neg(c[1]) /\ Lv(s, j) = Len(s.lim)
    BY <1>2, ConflictAtTop
  <2> QED BY <1>4, <1>11, <1>14, <2>1 DEF OpenLits
<1>16. PICK D : /\ IsFiniteSet(D) /\ u.open = t.open + Cardinality(D)
                /\ \A q : q \in OpenLits(s, u.seen, n) <=> q \in OpenLits(s, t.seen, n) \/ q \in D
  BY <1>12 DEF AbsorbedCore
<1>17. \A q : q \notin OpenLits(s, t.seen, n)
  BY <1>7 DEF OpenLits
<1>18. OpenLits(s, u.seen, n) = D
  BY <1>16, <1>17
<1>19. u.open = Cardinality(D) /\ u.open >= 1
  <2>1. Cardinality(D) \in Nat
    BY <1>16, FS_CardinalityType
  <2>2. Cardinality(D) # 0
    <3>1. D # {}
      BY <1>15, <1>18
    <3> QED BY <1>16, <3>1, FS_EmptySet
  <2> QED BY <1>7, <1>16, <2>1, <2>2
<1>20. ASSUME NEW m \in Models, Means(s, m) PROVE Covers(s, u, n, m)
  <2>1. \E k \in 1..Len(c) : c[k] \in m
    BY <1>1, <1>2, <1>20 DEF Means
  <2> QED BY <1>12, <1>20, <2>1 DEF AbsorbedCore
<1>21. u.uip = <<>> /\ WalkCore(s, u)
  BY <1>7, <1>12 DEF AbsorbedCore
<1>22. Seeking(s, u, n)
  BY <1>16, <1>18, <1>19, <1>20, <1>21 DEF Seeking
<1> QED BY <1>11, <1>21, <1>22 DEF Walking

\* analyze(): the loop ends at a literal of the current level.
LEMMA FirstUIPIs ==
  ASSUME NEW s, NEW r, Conflicting(s, r), NEW t, t = FirstUIP(s, r)
  PROVE  WalkCore(s, t) /\ Found(s, t)
<1>1. Books(s) /\ Typed(s) /\ Len(s.lim) > 0 /\ DecisionsOK(s)
  BY BooksAre DEF Conflicting
<1>2. PICK n \in Nat : n = Len(s.trail)
  BY <1>1, TypedIs
<1>3. PICK b : b = Absorb(s, NoneSeen, s.clause[r])
  OBVIOUS
<1>4. PICK seq : seq = Reverse(s.trail)
  OBVIOUS
<1>5. Len(seq) = n /\ \A i \in 1..n : seq[i] = s.trail[(n - i) + 1]
  <2>1. seq = [i \in 1..n |-> s.trail[(n - i) + 1]]
    BY <1>2, <1>4 DEF Reverse
  <2>2. DOMAIN s.trail = 1..n /\ s.trail \in Seq(AllLits)
    BY <1>1, <1>2, TypedIs
  <2>3. \A i \in 1..n : (n - i) + 1 \in 1..n
    OBVIOUS
  <2>4. \A i \in 1..n : s.trail[(n - i) + 1] \in AllLits
    BY <1>1, <1>2, <2>3, TypedIs
  <2>5. seq \in [1..n -> AllLits]
    BY <2>1, <2>4
  <2>6. seq \in Seq(AllLits)
    BY <2>5, SeqDef
  <2>7. Len(seq) = n
    BY <2>1, <2>6, LenProperties
  <2> QED BY <2>1, <2>7
<1>6. t = Resolved(s, b, seq)
  BY <1>3, <1>4, Zenon DEF FirstUIP, NoneSeen, Resolved
<1>7. PICK f : Rounds(f, "resolve", s, b, seq, t)
  BY <1>5, <1>6, ResolveRounds
<1>8. f[0] = b /\ f[n] = t /\ \A i \in 1..n : f[i] = Resolve(s, f[i - 1], seq[i])
  BY <1>5, <1>7 DEF Rounds, Stepped
<1>9. PICK S : S = {i \in 0..n : Walking(s, f[i], n - i)}
  OBVIOUS
<1>10. 0 \in S
  <2>1. Walking(s, b, n)
    BY <1>2, <1>3, WalkStart
  <2>2. n - 0 = n /\ 0 \in 0..n
    OBVIOUS
  <2> QED BY <1>8, <1>9, <2>1, <2>2
<1>11. ASSUME NEW i \in 0..n, i \in S, i # n PROVE i + 1 \in S
  <2>1. i + 1 \in 1..n /\ i + 1 \in 0..n /\ n - i \in 1..n /\ (n - (i + 1)) + 1 = n - i /\ (n - i) - 1 = n - (i + 1)
        /\ (i + 1) - 1 = i
    BY <1>11
  <2>2. PICK k : k = n - i
    OBVIOUS
  <2>3. PICK x : x = f[i]
    OBVIOUS
  <2>4. PICK y : y = f[i + 1]
    OBVIOUS
  <2>5. PICK p : p = s.trail[k]
    OBVIOUS
  <2>6. y = Resolve(s, x, p)
    BY <1>5, <1>8, <2>1, <2>2, <2>3, <2>4, <2>5
  <2>7. Walking(s, x, k) /\ k \in 1..Len(s.trail)
    BY <1>2, <1>9, <1>11, <2>1, <2>2, <2>3
  <2>8. Walking(s, y, k - 1)
    BY <1>1, <2>5, <2>6, <2>7, ResolveIs
  <2> QED BY <1>9, <2>1, <2>2, <2>4, <2>8
<1>12. 0..n \subseteq S
  BY <1>10, <1>11, UpTo
<1>13. Walking(s, t, 0)
  <2>1. n \in S /\ n - n = 0
    BY <1>12
  <2> QED BY <1>8, <1>9, <2>1
<1>14. ~Seeking(s, t, 0)
  <2> SUFFICES ASSUME Seeking(s, t, 0) PROVE FALSE
    OBVIOUS
  <2>1. OpenLits(s, t.seen, 0) = {}
    BY DEF OpenLits
  <2>2. t.open = 0
    BY <2>1, FS_EmptySet DEF Seeking
  <2> QED BY <2>2 DEF Seeking
<1> QED BY <1>13, <1>14 DEF Walking

-----------------------------------------------------------------------------
(* litRedundant(), and the learnt clause.                                  *)

\* Variable v follows from the variables in source and known.
Known(s, source, known, v) == \E i \in 1..Len(s.trail) : s.trail[i][1] = v /\ Follows(s, source, known, s.trail[i])

\* litRedundant(): what is left out follows from the rest.
LEMMA RedundantIs ==
  ASSUME NEW s, Typed(s), NEW source, NEW K, K = Redundant(s, source)
  PROVE  \A v \in K : Known(s, source, K, v)
<1>1. PICK n \in Nat : n = Len(s.trail)
  BY TypedIs
<1>2. PICK f : Rounds(f, "follow", <<s, source>>, {}, s.trail, K)
  BY <1>1, FollowRounds
<1>3. <<s, source>>[1] = s /\ <<s, source>>[2] = source
  OBVIOUS
<1>4. f[0] = {} /\ f[n] = K
      /\ \A i \in 1..n : f[i] = IF Follows(s, source, f[i - 1], s.trail[i]) THEN f[i - 1] \cup {s.trail[i][1]} ELSE f[i - 1]
  BY <1>1, <1>2, <1>3 DEF Rounds, Stepped
<1>5. PICK S : S = {i \in 0..n : \A v \in f[i] : Known(s, source, f[i], v)}
  OBVIOUS
<1>6. 0 \in S
  BY <1>4, <1>5
<1>7. ASSUME NEW i \in 0..n, i \in S, i # n PROVE i + 1 \in S
  <2>1. i + 1 \in 1..n /\ i + 1 \in 0..n /\ (i + 1) - 1 = i
    BY <1>7
  <2>2. PICK A : A = f[i]
    OBVIOUS
  <2>3. PICK B : B = f[i + 1]
    OBVIOUS
  <2>4. PICK p : p = s.trail[i + 1]
    OBVIOUS
  <2>5. B = IF Follows(s, source, A, p) THEN A \cup {p[1]} ELSE A
    BY <1>4, <2>1, <2>2, <2>3, <2>4
  <2>6. \A q : Follows(s, source, A, q) => Follows(s, source, B, q)
    BY <2>5 DEF Follows
  <2>7. \A v \in A : Known(s, source, A, v)
    BY <1>5, <1>7, <2>2
  <2>8. ASSUME NEW v \in B PROVE Known(s, source, B, v)
    <3>1. CASE v \in A
      BY <2>6, <2>7, <3>1 DEF Known
    <3>2. CASE v \notin A
      <4>1. Follows(s, source, A, p) /\ v = p[1]
        BY <2>5, <3>2
      <4> QED BY <1>1, <2>1, <2>4, <2>6, <4>1 DEF Known
    <3> QED BY <3>1, <3>2
  <2> QED BY <1>5, <2>1, <2>3, <2>8
<1>8. 0..n \subseteq S
  BY <1>6, <1>7, UpTo
<1>9. n \in S
  BY <1>8
<1> QED BY <1>4, <1>5, <1>9

\* Clause r is true in m, so it implies its first literal from the others.
LEMMA ReasonIn ==
  ASSUME NEW s, Books(s), NEW m \in Models, Means(s, m), NEW n \in 1..Len(s.trail), NEW r, Explains(s, r, n),
         \A q \in Range(Others(s, r)) : Neg(q) \in m
  PROVE  s.trail[n] \in m
<1>1. PICK lits : lits = Others(s, r)
  OBVIOUS
<1>2. /\ Backing(s, lits, n - 1)
      /\ \A x \in Models : Means(s, x) /\ Neg(s.trail[n]) \in x => \E k \in 1..Len(lits) : lits[k] \in x
  BY <1>1, ReasonBacks
<1>3. Typed(s)
  BY BooksAre
<1>4. s.trail[n] \in AllLits
  BY <1>3, TypedIs
<1>5. SUFFICES ASSUME Neg(s.trail[n]) \in m PROVE FALSE
  BY <1>4 DEF Models
<1>6. PICK k \in 1..Len(lits) : lits[k] \in m
  BY <1>2, <1>5
<1>7. lits[k] \in Range(lits) /\ lits[k] \in AllLits
  BY <1>2, SeqIs DEF Backing
<1>8. Neg(lits[k]) \in m
  BY <1>1, <1>7
<1> QED BY <1>6, <1>7, <1>8 DEF Models

\* lean has the literals of out that do not follow from the others.
Leaner(s, out, lean) ==
  LET K == Redundant(s, VarsOf(Range(out))) IN \A q : InSeq(out, q) => q[1] \in K \/ InSeq(lean, q)

\* Literals that follow from the others may go.
LEMMA LeanIs ==
  ASSUME NEW s, Books(s), NEW t, WalkCore(s, t), NEW lean, Leaner(s, t.out, lean),
         NEW m \in Models, Means(s, m), \A q \in m : ~InSeq(lean, q)
  PROVE  \A q \in m : ~InSeq(t.out, q)
<1>1. Typed(s) /\ TrailOK(s) /\ ReasonsOK(s)
  BY BooksAre
<1>2. PICK n \in Nat : n = Len(s.trail)
  BY <1>1, TypedIs
<1>3. PICK out : out = t.out
  OBVIOUS
<1>4. out \in Seq(AllLits)
  BY <1>3 DEF WalkCore, WalkType
<1>5. PICK src : src = VarsOf(Range(out))
  OBVIOUS
<1>6. \A v : v \in src <=> \E q : InSeq(out, q) /\ q[1] = v
  <2>1. \A q : q \in Range(out) <=> InSeq(out, q)
    BY <1>4, SeqIs DEF InSeq
  <2> QED BY <1>5, <2>1 DEF VarsOf
<1>7. PICK K : K = Redundant(s, src)
  OBVIOUS
<1>8. \A v \in K : Known(s, src, K, v)
  BY <1>1, <1>7, RedundantIs
<1>9. \A q : InSeq(out, q) => q \in AllLits /\ OnTrail(s, Neg(q)) /\ (q[1] \in K \/ InSeq(lean, q))
  BY <1>3, <1>5, <1>7 DEF Leaner, WalkCore
<1>10. PICK S : S = {i \in 1..n : s.trail[i][1] \in src \cup K => s.trail[i] \in m}
  OBVIOUS
<1>11. \A i \in 1..n : s.trail[i] \in AllLits
  BY <1>1, <1>2, TypedIs
<1>12. ASSUME NEW i \in 1..n, \A k \in 1..n : k < i => k \in S PROVE i \in S
  <2> SUFFICES ASSUME s.trail[i][1] \in src \cup K PROVE s.trail[i] \in m
    BY <1>10
  <2>1. CASE s.trail[i][1] \in K
    <3>1. PICK j \in 1..n : s.trail[j][1] = s.trail[i][1] /\ Follows(s, src, K, s.trail[j])
      BY <1>2, <1>8, <2>1 DEF Known
    <3>2. j = i
      BY <1>1, <1>2, <3>1 DEF TrailOK
    <3>3. PICK r : r = s.reason[s.trail[i][1]]
      OBVIOUS
    <3>4. r # NoClause /\ \A q \in Range(Others(s, r)) : s.level[q[1]] = 0 \/ q[1] \in src \cup K
      BY <3>1, <3>2, <3>3 DEF Follows
    <3>5. Explains(s, r, i)
      BY <1>1, <1>2, <3>3, <3>4 DEF ReasonsOK
    <3>6. ASSUME NEW q \in Range(Others(s, r)) PROVE Neg(q) \in m
      <4>1. PICK d : d = Others(s, r)
        OBVIOUS
      <4>2. Backing(s, d, i - 1)
        BY <1>2, <3>5, <4>1, ReasonBacks
      <4>3. PICK k \in 1..Len(d) : d[k] = q
        BY <4>1, <4>2, SeqIs DEF Backing
      <4>4. PICK l \in 1..(i - 1) : s.trail[l] = Neg(q)
        BY <4>2, <4>3 DEF Backing
      <4>5. l \in 1..n /\ l < i
        OBVIOUS
      <4>6. q \in AllLits
        BY <4>2, <4>3, LenProperties DEF Backing
      <4>7. s.trail[l][1] = q[1] /\ Lv(s, l) = s.level[q[1]]
        BY <4>4, <4>6, Literals DEF Lv
      <4>8. CASE s.level[q[1]] = 0
        BY <1>2, <4>4, <4>5, <4>7, <4>8 DEF Means
      <4>9. CASE q[1] \in src \cup K
        BY <1>10, <1>12, <4>4, <4>5, <4>7, <4>9
      <4> QED BY <3>4, <4>8, <4>9
    <3> QED BY <1>2, <3>5, <3>6, ReasonIn
  <2>2. CASE s.trail[i][1] \notin K
    <3>1. PICK q : InSeq(out, q) /\ q[1] = s.trail[i][1]
      BY <1>6, <2>2
    <3>2. q \in AllLits /\ OnTrail(s, Neg(q)) /\ InSeq(lean, q)
      BY <1>9, <2>2, <3>1
    <3>3. PICK j \in 1..n : s.trail[j] = Neg(q)
      BY <1>2, <3>2 DEF OnTrail
    <3>4. j = i
      BY <1>1, <1>2, <3>1, <3>2, <3>3, Literals DEF TrailOK
    <3> QED BY <3>2, <3>3, <3>4 DEF Models
  <2> QED BY <2>1, <2>2
<1>13. 1..n \subseteq S
  <2>1. PICK D : D = 1..n
    OBVIOUS
  <2>2. D \in SUBSET Nat /\ \A i \in D : (\A k \in D : k < i => k \in S) => i \in S
    BY <1>12, <2>1
  <2> QED BY <2>1, <2>2, FromSmaller
<1>14. ASSUME NEW q \in m, InSeq(out, q) PROVE FALSE
  <2>1. q \in AllLits /\ OnTrail(s, Neg(q)) /\ q[1] \in src
    BY <1>6, <1>9, <1>14
  <2>2. PICK j \in 1..n : s.trail[j] = Neg(q)
    BY <1>2, <2>1 DEF OnTrail
  <2>3. Neg(q) \in m
    BY <1>10, <1>13, <2>1, <2>2, Literals
  <2> QED BY <1>14, <2>1, <2>3 DEF Models
<1> QED BY <1>3, <1>14

\* What of out does not follow from the rest.
LeanOf(s, out) == Only(out, {q \in Range(out) : q[1] \notin Redundant(s, VarsOf(Range(out)))})

\* Where in lean the first literal of the highest level is.
IsTop(s, lean, i) ==
  /\ \A j \in DOMAIN lean : s.level[lean[j][1]] <= s.level[lean[i][1]]
  /\ \A j \in 1..(i - 1) : s.level[lean[j][1]] < s.level[lean[i][1]]

TopOf(s, lean) ==
  CHOOSE i \in DOMAIN lean :
    /\ \A j \in DOMAIN lean : s.level[lean[j][1]] <= s.level[lean[i][1]]
    /\ \A j \in 1..(i - 1) : s.level[lean[j][1]] < s.level[lean[i][1]]

\* lean with the literal at k in front.
InFront(lean, k) == [lean EXCEPT ![1] = lean[k], ![k] = lean[1]]

LearntFrom(s, p, lean) ==
  IF lean = <<>> THEN <<Neg(p)>> ELSE <<Neg(p)>> \o InFront(lean, TopOf(s, lean))

\* The clause that is learnt, from its parts.
LEMMA LearntAs ==
  ASSUME NEW s, NEW r, NEW t, t = FirstUIP(s, r), NEW c, c = Learnt(s, r)
  PROVE  c = LearntFrom(s, t.uip[1], LeanOf(s, t.out))
<1>1. Learnt(s, r) = LearntFrom(s, FirstUIP(s, r).uip[1], LeanOf(s, FirstUIP(s, r).out))
  BY Zenon DEF Learnt, LearntFrom, InFront, TopOf, LeanOf
<1> QED BY <1>1

\* There is a first literal of the highest level.
LEMMA TopIs ==
  ASSUME NEW s, Typed(s), NEW lean \in Seq(AllLits), lean # <<>>, \A i \in 1..Len(lean) : s.level[lean[i][1]] <= Len(s.lim),
         NEW k, k = TopOf(s, lean)
  PROVE  k \in 1..Len(lean) /\ \A j \in 1..Len(lean) : s.level[lean[j][1]] <= s.level[lean[k][1]]
<1>1. Len(lean) \in Nat /\ Len(lean) # 0 /\ DOMAIN lean = 1..Len(lean) /\ \A i \in 1..Len(lean) : lean[i] \in AllLits
  BY LenProperties, EmptySeq
<1>2. PICK g : g = [i \in 1..Len(lean) |-> s.level[lean[i][1]]]
  OBVIOUS
<1>3. \A i \in 1..Len(lean) : g[i] = s.level[lean[i][1]] /\ g[i] \in Nat /\ g[i] <= Len(s.lim)
  <2>1. \A i \in 1..Len(lean) : lean[i][1] \in Vars
    BY <1>1, Literals
  <2>2. \A i \in 1..Len(lean) : s.level[lean[i][1]] \in Nat
    BY <2>1, TypedIs
  <2> QED BY <1>2, <2>2
<1>4. PICK N \in Nat : N = Len(s.lim)
  BY TypedIs
<1>5. PICK S : S = {g[i] : i \in 1..Len(lean)}
  OBVIOUS
<1>6. S \in SUBSET (0..N)
  BY <1>3, <1>4, <1>5
<1>7. PICK n \in S \cup {0} : \A m \in S : m <= n
  BY <1>6, Largest
<1>8. \E i \in 1..Len(lean) : g[i] = n
  <2>1. CASE n \in S
    BY <1>5, <2>1
  <2>2. CASE n \notin S
    <3>1. n = 0 /\ 1 \in 1..Len(lean)
      BY <1>1, <2>2
    <3>2. g[1] \in S /\ g[1] \in Nat
      BY <1>3, <1>5, <3>1
    <3>3. g[1] <= 0
      BY <1>7, <3>1, <3>2
    <3>4. g[1] = 0
      BY <3>2, <3>3
    <3> QED BY <3>1, <3>4
  <2> QED BY <2>1, <2>2
<1>9. \E i \in 1..Len(lean) : g[i] = n /\ \A j \in 1..Len(lean) : g[j] = n => ~(j < i)
  <2> SUFFICES ASSUME \A i \in 1..Len(lean) : g[i] = n => \E j \in 1..Len(lean) : g[j] = n /\ j < i PROVE FALSE
    OBVIOUS
  <2>1. PICK D : D = {i \in 1..Len(lean) : g[i] = n}
    OBVIOUS
  <2>2. PICK E : E = {}
    OBVIOUS
  <2>3. D \in SUBSET Nat /\ \A i \in D : (\A j \in D : j < i => j \in E) => i \in E
    BY <1>1, <2>1, <2>2
  <2>4. D \subseteq E
    BY <2>3, FromSmaller
  <2> QED BY <1>8, <2>1, <2>2, <2>4
<1>10. PICK i \in 1..Len(lean) : g[i] = n /\ \A j \in 1..Len(lean) : g[j] = n => ~(j < i)
  BY <1>9
<1>11. \A j \in 1..Len(lean) : g[j] <= n
  BY <1>5, <1>7
<1>12. \A j \in 1..(i - 1) : g[j] < n
  <2>1. \A j \in 1..(i - 1) : j \in 1..Len(lean) /\ j < i
    BY <1>1
  <2> SUFFICES ASSUME NEW j \in 1..(i - 1) PROVE g[j] < n
    OBVIOUS
  <2>2. g[j] <= n /\ g[j] # n /\ g[j] \in Nat
    BY <1>3, <1>10, <1>11, <2>1
  <2>3. n \in Nat
    BY <1>3, <1>10
  <2> QED BY <2>2, <2>3
<1>13. IsTop(s, lean, i)
  <2>1. \A j \in 1..(i - 1) : j \in 1..Len(lean)
    BY <1>1
  <2> QED BY <1>1, <1>3, <1>10, <1>11, <1>12, <2>1 DEF IsTop
<1>14. IsTop(s, lean, k) /\ k \in DOMAIN lean
  <2>1. k = CHOOSE x \in DOMAIN lean : IsTop(s, lean, x)
    BY Zenon DEF TopOf, IsTop
  <2>2. \E x \in DOMAIN lean : IsTop(s, lean, x)
    BY <1>1, <1>13
  <2> HIDE DEF IsTop
  <2> QED BY <2>1, <2>2
<1> QED BY <1>1, <1>14 DEF IsTop

\* d has the literals of lean, that at k in front.
Fronted(lean, k, d) ==
  /\ d \in Seq(AllLits) /\ Len(d) = Len(lean) /\ d[1] = lean[k]
  /\ \A i \in 1..Len(d) : \E j \in 1..Len(lean) : d[i] = lean[j]
  /\ \A j \in 1..Len(lean) : \E i \in 1..Len(d) : d[i] = lean[j]
  /\ Distinct(lean) => Distinct(d)

\* One of the highest level comes first.
LEMMA InFrontIs ==
  ASSUME NEW lean \in Seq(AllLits), NEW k \in 1..Len(lean), NEW d, d = InFront(lean, k)
  PROVE  Fronted(lean, k, d)
<1>1. Len(lean) \in Nat /\ 1 \in 1..Len(lean) /\ DOMAIN lean = 1..Len(lean) /\ \A i \in 1..Len(lean) : lean[i] \in AllLits
  <2>1. Len(lean) \in Nat
    BY LenProperties
  <2>2. 1 \in 1..Len(lean)
    BY <2>1
  <2> QED BY <2>1, <2>2, LenProperties
<1>2. \A i \in 1..Len(lean) : d[i] = IF i = k THEN lean[1] ELSE IF i = 1 THEN lean[k] ELSE lean[i]
  BY <1>1 DEF InFront
<1>3. d \in Seq(AllLits) /\ Len(d) = Len(lean)
  <2>1. d = [i \in 1..Len(lean) |-> d[i]]
    BY <1>1 DEF InFront
  <2>2. \A i \in 1..Len(lean) : d[i] \in AllLits
    BY <1>1, <1>2
  <2>3. d \in [1..Len(lean) -> AllLits]
    BY <2>1, <2>2
  <2>4. d \in Seq(AllLits)
    BY <1>1, <2>3, SeqDef
  <2> QED BY <1>1, <2>1, <2>4, LenProperties
<1>4. Distinct(lean) => Distinct(d)
  BY <1>1, <1>2, <1>3 DEF Distinct
<1>5. \A i \in 1..Len(lean) : \E j \in 1..Len(lean) : d[i] = lean[j]
  BY <1>1, <1>2
<1>6. \A j \in 1..Len(lean) : \E i \in 1..Len(lean) : d[i] = lean[j]
  BY <1>1, <1>2
<1>7. d[1] = lean[k]
  BY <1>1, <1>2
<1> QED BY <1>3, <1>4, <1>5, <1>6, <1>7 DEF Fronted

\* Clause c follows; its first literal is false at the last level and the
\* others at lower ones, the second at the highest of those.
LearntOK(s, c) ==
  /\ c \in Seq(AllLits) /\ Len(c) \in Nat /\ Len(c) >= 1 /\ \A i, j \in 1..Len(c) : c[i][1] = c[j][1] => i = j
  /\ \E j \in 1..Len(s.trail) : c[1] = Neg(s.trail[j]) /\ Lv(s, j) = Len(s.lim)
  /\ \A i \in 2..Len(c) : /\ OnTrail(s, Neg(c[i])) /\ s.level[c[i][1]] > 0 /\ s.level[c[i][1]] < Len(s.lim)
                          /\ s.level[c[i][1]] <= s.level[c[2][1]]
  /\ \A i \in 1..Len(c) : Mentioned(s, c[i])
  /\ \A m \in Models : Means(s, m) => \E i \in 1..Len(c) : c[i] \in m

\* What is known of the literals that are left.
LeanOK(s, p, lean) ==
  /\ lean \in Seq(AllLits) /\ Distinct(lean)
  /\ \A i \in 1..Len(lean) : /\ OnTrail(s, Neg(lean[i])) /\ s.level[lean[i][1]] > 0 /\ s.level[lean[i][1]] < Len(s.lim)
                             /\ Mentioned(s, lean[i])
  /\ \A m \in Models : Means(s, m) => Neg(p) \in m \/ \E q \in m : InSeq(lean, q)

\* The literals without the redundant ones.
LEMMA LeanOfIs ==
  ASSUME NEW s, Books(s), NEW t, WalkCore(s, t), Found(s, t), NEW lean, lean = LeanOf(s, t.out)
  PROVE  \E j \in 1..Len(s.trail) :
           t.uip = <<s.trail[j]>> /\ Lv(s, j) = Len(s.lim) /\ Mentioned(s, Neg(s.trail[j])) /\ LeanOK(s, s.trail[j], lean)
<1>1. PICK out : out = t.out
  OBVIOUS
<1>2. out \in Seq(AllLits) /\ Distinct(out)
  BY <1>1 DEF WalkCore, WalkType
<1>3. PICK K : K = Redundant(s, VarsOf(Range(out)))
  OBVIOUS
<1>4. PICK A : A = {q \in Range(out) : q[1] \notin K}
  OBVIOUS
<1>5. lean = Only(out, A)
  BY <1>1, <1>3, <1>4 DEF LeanOf
<1>6. lean \in Seq(AllLits) /\ Keeps(lean, out, A)
  BY <1>2, <1>5, OnlyKeeps, OnlyHas
<1>7. Distinct(lean)
  BY <1>2, <1>5, OnlyApart DEF Distinct
<1>8. \A q : q \in A <=> InSeq(out, q) /\ q[1] \notin K
  <2>1. \A q : q \in Range(out) <=> InSeq(out, q)
    BY <1>2, SeqIs DEF InSeq
  <2> QED BY <1>4, <2>1
<1>9. \A q : InSeq(lean, q) <=> q \in A
  BY <1>6, <1>8 DEF Keeps, InSeq
<1>10. Leaner(s, t.out, lean)
  BY <1>1, <1>3, <1>8, <1>9 DEF Leaner
<1>11. \A i \in 1..Len(lean) : /\ OnTrail(s, Neg(lean[i])) /\ s.level[lean[i][1]] > 0 /\ s.level[lean[i][1]] < Len(s.lim)
                               /\ Mentioned(s, lean[i])
  <2> SUFFICES ASSUME NEW i \in 1..Len(lean), NEW q, q = lean[i]
               PROVE  OnTrail(s, Neg(q)) /\ s.level[q[1]] > 0 /\ s.level[q[1]] < Len(s.lim) /\ Mentioned(s, q)
    OBVIOUS
  <2>1. InSeq(t.out, q)
    BY <1>1, <1>8, <1>9 DEF InSeq
  <2> QED BY <2>1 DEF WalkCore
<1>12. PICK j \in 1..Len(s.trail) :
         /\ t.uip = <<s.trail[j]>> /\ Lv(s, j) = Len(s.lim) /\ Mentioned(s, Neg(s.trail[j]))
         /\ \A m \in Models : Means(s, m) => Neg(s.trail[j]) \in m \/ \E q \in m : InSeq(t.out, q)
  BY DEF Found
<1>13. ASSUME NEW m \in Models, Means(s, m) PROVE Neg(s.trail[j]) \in m \/ \E q \in m : InSeq(lean, q)
  BY <1>10, <1>12, <1>13, LeanIs
<1> QED BY <1>6, <1>7, <1>11, <1>12, <1>13 DEF LeanOK

\* A single literal.
LEMMA LearntUnit ==
  ASSUME NEW s, Books(s), NEW j \in 1..Len(s.trail), Lv(s, j) = Len(s.lim), Mentioned(s, Neg(s.trail[j])),
         LeanOK(s, s.trail[j], <<>>), NEW c, c = <<Neg(s.trail[j])>>
  PROVE  LearntOK(s, c)
<1>1. s.trail[j] \in AllLits
  <2>1. Typed(s)
    BY BooksAre
  <2> QED BY <2>1, TypedIs
<1>2. Neg(s.trail[j]) \in AllLits
  BY <1>1, Literals
<1>3. PICK q : q = Neg(s.trail[j])
  OBVIOUS
<1>4. c \in Seq(AllLits) /\ Len(c) = 1 /\ c[1] = q
  BY <1>2, <1>3
<1>5. \A i \in 1..Len(c) : i = 1
  BY <1>4
<1>6. \A i \in 2..Len(c) : FALSE
  BY <1>4
<1>7. ASSUME NEW m \in Models, Means(s, m) PROVE \E i \in 1..Len(c) : c[i] \in m
  <2>1. Neg(s.trail[j]) \in m \/ \E x \in m : InSeq(<<>>, x)
    BY <1>7 DEF LeanOK
  <2>2. \A x : ~InSeq(<<>>, x)
    <3>1. \A i : i \notin 1..Len(<<>>)
      OBVIOUS
    <3> QED BY <3>1 DEF InSeq
  <2>3. q \in m
    BY <1>3, <2>1, <2>2
  <2> QED BY <1>4, <2>3
<1>8. \A i \in 1..Len(c) : Mentioned(s, c[i])
  BY <1>3, <1>4, <1>5
<1>9. \E k \in 1..Len(s.trail) : c[1] = Neg(s.trail[k]) /\ Lv(s, k) = Len(s.lim)
  BY <1>3, <1>4
<1> QED BY <1>4, <1>5, <1>6, <1>7, <1>8, <1>9 DEF LearntOK

\* More than one literal.
LEMMA LearntLonger ==
  ASSUME NEW s, Books(s), NEW j \in 1..Len(s.trail), Lv(s, j) = Len(s.lim), Mentioned(s, Neg(s.trail[j])),
         NEW lean, LeanOK(s, s.trail[j], lean), lean # <<>>,
         NEW c, c = <<Neg(s.trail[j])>> \o InFront(lean, TopOf(s, lean))
  PROVE  LearntOK(s, c)
<1>1. Typed(s) /\ TrailOK(s) /\ s.trail[j] \in AllLits
  <2>1. Typed(s) /\ TrailOK(s)
    BY BooksAre
  <2> QED BY <2>1, TypedIs
<1>2. PICK p : p = Neg(s.trail[j])
  OBVIOUS
<1>3. p \in AllLits /\ p[1] = s.trail[j][1] /\ s.level[p[1]] = Len(s.lim)
  BY <1>1, <1>2, Literals DEF Lv
<1>4. lean \in Seq(AllLits) /\ Distinct(lean)
  BY DEF LeanOK
<1>5. PICK k : k = TopOf(s, lean)
  OBVIOUS
<1>6. \A i \in 1..Len(lean) : s.level[lean[i][1]] <= Len(s.lim)
  <2>1. \A i \in 1..Len(lean) : lean[i] \in AllLits
    BY <1>4, LenProperties
  <2>2. \A i \in 1..Len(lean) : s.level[lean[i][1]] \in Nat
    BY <1>1, <2>1, Literals, TypedIs
  <2>3. Len(s.lim) \in Nat
    BY <1>1, TypedIs
  <2>4. \A i \in 1..Len(lean) : s.level[lean[i][1]] < Len(s.lim)
    BY DEF LeanOK
  <2> QED BY <2>2, <2>3, <2>4
<1>7. k \in 1..Len(lean) /\ \A i \in 1..Len(lean) : s.level[lean[i][1]] <= s.level[lean[k][1]]
  BY <1>1, <1>4, <1>5, <1>6, TopIs
<1>8. PICK d : d = InFront(lean, k)
  OBVIOUS
<1>9. /\ d \in Seq(AllLits) /\ Len(d) = Len(lean) /\ d[1] = lean[k]
      /\ (\A i \in 1..Len(d) : \E l \in 1..Len(lean) : d[i] = lean[l])
      /\ (\A l \in 1..Len(lean) : \E i \in 1..Len(d) : d[i] = lean[l])
      /\ (Distinct(lean) => Distinct(d))
  <2>1. Fronted(lean, k, d)
    BY <1>4, <1>7, <1>8, InFrontIs
  <2> QED BY <2>1 DEF Fronted
<1>10. PICK b : b = <<p>>
  OBVIOUS
<1>11. b \in Seq(AllLits) /\ Len(b) = 1 /\ b[1] = p
  BY <1>3, <1>10
<1>12. c = b \o d
  BY <1>2, <1>5, <1>8, <1>10
<1>13. /\ c \in Seq(AllLits) /\ Len(c) = 1 + Len(d) /\ Len(d) \in Nat
       /\ c[1] = p
       /\ \A i \in 1..Len(d) : c[1 + i] = d[i]
  <2>1. /\ c \in Seq(AllLits) /\ Len(c) = Len(b) + Len(d) /\ Len(b) \in Nat /\ Len(d) \in Nat
        /\ (\A i \in 1..Len(b) : c[i] = b[i])
        /\ \A i \in 1..Len(d) : c[Len(b) + i] = d[i]
    <3>1. b \in Seq(AllLits) /\ d \in Seq(AllLits) /\ c = b \o d
      BY <1>9, <1>11, <1>12
    <3> QED BY ONLY <3>1, ConcatIs
  <2>2. 1 \in 1..Len(b)
    BY <1>11
  <2> QED BY <1>11, <2>1, <2>2
<1>14. Len(c) \in Nat /\ Len(c) >= 2 /\ Len(d) >= 1
  <2>1. Len(lean) \in Nat /\ Len(lean) # 0
    BY <1>4, EmptySeq, LenProperties
  <2> QED BY <1>9, <1>13, <2>1
<1>15. \A i \in 2..Len(c) : i - 1 \in 1..Len(d) /\ c[i] = d[i - 1]
  <2>1. \A i \in 2..Len(c) : i - 1 \in 1..Len(d) /\ 1 + (i - 1) = i
    BY <1>13
  <2> QED BY <1>13, <2>1
<1>16. \A i \in 1..Len(c) : i = 1 \/ i \in 2..Len(c)
  BY <1>14
<1>17. ASSUME NEW i \in 2..Len(c)
       PROVE  /\ OnTrail(s, Neg(c[i])) /\ s.level[c[i][1]] > 0 /\ s.level[c[i][1]] < Len(s.lim)
              /\ s.level[c[i][1]] <= s.level[c[2][1]] /\ Mentioned(s, c[i])
  <2>1. PICK l \in 1..Len(lean) : c[i] = lean[l]
    BY ZenonT(40), <1>9, <1>15
  <2>2. c[2] = lean[k]
    <3>1. 2 \in 2..Len(c) /\ 2 - 1 = 1
      BY <1>14
    <3> QED BY <1>9, <1>15, <3>1
  <2>3. /\ OnTrail(s, Neg(lean[l])) /\ s.level[lean[l][1]] > 0 /\ s.level[lean[l][1]] < Len(s.lim)
        /\ Mentioned(s, lean[l])
    BY DEF LeanOK
  <2> QED BY <1>7, <2>1, <2>2, <2>3
<1>18. \A i \in 1..Len(c) : c[i] \in AllLits
  BY <1>13, LenProperties
<1>19. ASSUME NEW i \in 1..Len(c), NEW l \in 1..Len(c), c[i][1] = c[l][1] PROVE i = l
  <2>1. ASSUME NEW x \in 2..Len(c) PROVE c[x][1] # p[1]
    <3>1. s.level[c[x][1]] < Len(s.lim) /\ Len(s.lim) \in Nat
      BY <1>1, <1>17, TypedIs
    <3> QED BY SMTT(30), <1>3, <3>1
  <2>2. CASE i = 1 \/ l = 1
    BY <1>13, <1>16, <1>19, <2>1, <2>2
  <2>3. CASE i \in 2..Len(c) /\ l \in 2..Len(c)
    <3>1. PICK x \in 1..Len(s.trail) : s.trail[x] = Neg(c[i])
      BY <1>17, <2>3 DEF OnTrail
    <3>2. PICK y \in 1..Len(s.trail) : s.trail[y] = Neg(c[l])
      BY <1>17, <2>3 DEF OnTrail
    <3>3. s.trail[x][1] = s.trail[y][1]
      BY <1>18, <1>19, <3>1, <3>2, Literals
    <3>4. x = y
      BY <1>1, <3>3 DEF TrailOK
    <3>5. c[i] = c[l]
      <4>1. Neg(Neg(c[i])) = c[i] /\ Neg(Neg(c[l])) = c[l]
        BY <1>18, Literals
      <4> QED BY <3>1, <3>2, <3>4, <4>1
    <3>6. i - 1 = l - 1
      <4>1. i - 1 \in 1..Len(d) /\ l - 1 \in 1..Len(d) /\ d[i - 1] = d[l - 1]
        BY <1>15, <2>3, <3>5
      <4>2. Distinct(d)
        BY <1>4, <1>9
      <4> QED BY <4>1, <4>2 DEF Distinct
    <3> QED BY <3>6
  <2> QED BY <1>16, <2>2, <2>3
<1>20. ASSUME NEW m \in Models, Means(s, m) PROVE \E i \in 1..Len(c) : c[i] \in m
  <2>1. CASE p \in m
    <3>1. 1 \in 1..Len(c)
      BY <1>14
    <3> QED BY <1>13, <2>1, <3>1
  <2>2. CASE \E q \in m : InSeq(lean, q)
    <3>1. PICK l \in 1..Len(lean) : lean[l] \in m
      BY <2>2 DEF InSeq
    <3>2. PICK i \in 1..Len(d) : d[i] = lean[l]
      BY <1>9
    <3>3. 1 + i \in 1..Len(c)
      BY <1>13
    <3> QED BY <1>13, <3>1, <3>2, <3>3
  <2> QED BY <1>2, <1>20, <2>1, <2>2 DEF LeanOK
<1>21. \A i \in 1..Len(c) : Mentioned(s, c[i])
  BY <1>2, <1>13, <1>16, <1>17
<1>22. \E i \in 1..Len(s.trail) : c[1] = Neg(s.trail[i]) /\ Lv(s, i) = Len(s.lim)
  BY <1>2, <1>13
<1>23. c \in Seq(AllLits) /\ Len(c) \in Nat /\ Len(c) >= 1
  BY <1>13, <1>14
<1>24. \A i, l \in 1..Len(c) : c[i][1] = c[l][1] => i = l
  BY <1>19
<1>25. \A i \in 2..Len(c) : /\ OnTrail(s, Neg(c[i])) /\ s.level[c[i][1]] > 0 /\ s.level[c[i][1]] < Len(s.lim)
                             /\ s.level[c[i][1]] <= s.level[c[2][1]]
  BY <1>17
<1> QED BY <1>20, <1>21, <1>22, <1>23, <1>24, <1>25 DEF LearntOK

\* analyze()
LEMMA LearntIs ==
  ASSUME NEW s, NEW r, Conflicting(s, r), NEW c, c = Learnt(s, r)
  PROVE  LearntOK(s, c)
<1>1. PICK t : t = FirstUIP(s, r)
  OBVIOUS
<1>2. Books(s)
  BY DEF Conflicting
<1>3. WalkCore(s, t) /\ Found(s, t)
  BY <1>1, FirstUIPIs
<1>4. PICK lean : lean = LeanOf(s, t.out)
  OBVIOUS
<1>5. PICK j \in 1..Len(s.trail) :
        t.uip = <<s.trail[j]>> /\ Lv(s, j) = Len(s.lim) /\ Mentioned(s, Neg(s.trail[j])) /\ LeanOK(s, s.trail[j], lean)
  BY <1>2, <1>3, <1>4, LeanOfIs
<1>6. c = LearntFrom(s, s.trail[j], lean)
  <2>1. t.uip[1] = s.trail[j]
    BY <1>5
  <2>2. c = LearntFrom(s, t.uip[1], lean)
    BY <1>1, <1>4, LearntAs
  <2> QED BY <2>1, <2>2
<1>7. CASE lean = <<>>
  <2>1. c = <<Neg(s.trail[j])>>
    BY <1>6, <1>7 DEF LearntFrom
  <2> QED BY <1>2, <1>5, <1>7, <2>1, LearntUnit
<1>8. CASE lean # <<>>
  <2>1. c = <<Neg(s.trail[j])>> \o InFront(lean, TopOf(s, lean))
    BY <1>6, <1>8 DEF LearntFrom
  <2> QED BY <1>2, <1>5, <1>8, <2>1, LearntLonger
<1> QED BY <1>7, <1>8

-----------------------------------------------------------------------------
(* What a search keeps.                                                    *)

\* What the clauses and the facts at level 0 say is kept from s to t.
Upholds(s, t) ==
  /\ t.ok = s.ok /\ t.nextVar = s.nextVar /\ t.free = s.free /\ t.released = s.released
  /\ \A p : AtRoot(s, p) => AtRoot(t, p)
  /\ Preserves(s, t)
  /\ \A L : Within(s, L) => Within(t, L)
  /\ \A lits : Keeping(s, lits) => Keeping(t, lits)

\* Solver s in a search under the assumptions a.
Seeks(s, a) == Books(s) /\ WatchesOK(s) /\ DecisionsOK(s) /\ AssumedOK(s, a)

\* Upholding twice is upholding.
LEMMA UpholdsTwice ==
  ASSUME NEW s, NEW t, NEW u, Upholds(s, t), Upholds(t, u)
  PROVE  Upholds(s, u)
<1>1. u.ok = s.ok /\ u.nextVar = s.nextVar /\ u.free = s.free /\ u.released = s.released
  BY DEF Upholds
<1>2. \A p : AtRoot(s, p) => AtRoot(u, p)
  BY DEF Upholds
<1>3. Preserves(s, u)
  BY DEF Upholds, Preserves
<1>4. \A L : Within(s, L) => Within(u, L)
  BY DEF Upholds
<1>5. \A lits : Keeping(s, lits) => Keeping(u, lits)
  BY DEF Upholds
<1> QED BY <1>1, <1>2, <1>3, <1>4, <1>5 DEF Upholds

\* The same clauses and the same facts.
LEMMA UpholdsSame ==
  ASSUME NEW s, NEW t, t.clause = s.clause, t.learnts = s.learnts, t.watches = s.watches,
         t.ok = s.ok, t.nextVar = s.nextVar, t.free = s.free, t.released = s.released,
         \A p : AtRoot(t, p) <=> AtRoot(s, p)
  PROVE  Upholds(s, t)
<1>1. Preserves(s, t)
  <2> SUFFICES ASSUME NEW m \in Models, Means(s, m) PROVE Means(t, m)
    BY DEF Preserves
  <2>1. \A i \in 1..Len(t.trail) : Lv(t, i) = 0 => AtRoot(t, t.trail[i])
    BY DEF AtRoot
  <2>2. \A p : AtRoot(s, p) => p \in m
    BY DEF AtRoot, Means
  <2>3. \A i \in 1..Len(t.trail) : Lv(t, i) = 0 => t.trail[i] \in m
    BY <2>1, <2>2
  <2>4. \A r \in DOMAIN t.clause : \E k \in 1..Len(t.clause[r]) : t.clause[r][k] \in m
    BY DEF Means
  <2> QED BY <2>3, <2>4 DEF Means
<1>2. \A L : Within(s, L) => Within(t, L)
  BY DEF Within
<1>3. \A lits : Keeping(s, lits) => Keeping(t, lits)
  BY DEF Keeping, Originals
<1> QED BY <1>1, <1>2, <1>3 DEF Upholds

\* Clauses are kept while the trail grows and none is forgotten.
LEMMA GrowsKeeping ==
  ASSUME NEW s, Typed(s), NEW t, Typed(t), Grows(s, t), Originals(t) = Originals(s), NEW lits, Keeping(s, lits)
  PROVE  Keeping(t, lits)
<1>1. CASE \E p \in lits : Neg(p) \in lits
  BY <1>1 DEF Keeping
<1>2. CASE \E p \in lits : AtRoot(s, p)
  BY <1>2, GrowsIs DEF Keeping
<1>3. CASE \E r \in Originals(s) : \A k \in 1..Len(s.clause[r]) : s.clause[r][k] \in lits
  <2>1. PICK r \in Originals(s) : \A k \in 1..Len(s.clause[r]) : s.clause[r][k] \in lits
    BY <1>3
  <2>2. r \in DOMAIN s.clause
    BY <2>1 DEF Originals
  <2>3. r \in DOMAIN t.clause /\ \A p \in AllLits : InClause(s, r, p) <=> InClause(t, r, p)
    BY <2>2 DEF Grows
  <2>4. \A k \in 1..Len(t.clause[r]) : t.clause[r][k] \in AllLits
    BY <2>3, TypedIs, ClauseIs
  <2>5. \A k \in 1..Len(t.clause[r]) : InClause(s, r, t.clause[r][k])
    BY <2>3, <2>4 DEF InClause
  <2>6. \A k \in 1..Len(t.clause[r]) : t.clause[r][k] \in lits
    BY <2>1, <2>5 DEF InClause
  <2> QED BY <2>1, <2>6 DEF Keeping
<1> QED BY <1>1, <1>2, <1>3 DEF Keeping

\* cancelUntil()
LEMMA CancelSeeks ==
  ASSUME NEW s, NEW a, Seeks(s, a), NEW lv \in Nat, NEW t, t = CancelUntil(s, lv)
  PROVE  Seeks(t, a) /\ Upholds(s, t)
<1>1. Books(s) /\ WatchesOK(s) /\ Typed(s) /\ LevelsOK(s)
  BY BooksAre DEF Seeks
<1>2. Cancelled(s, lv, t)
  BY <1>1, CancelBooks
<1>3. Books(t) /\ WatchesOK(t) /\ Typed(t) /\ Grows(t, s)
  BY <1>1, <1>2, BooksAre DEF Cancelled
<1>4. Upholds(s, t)
  BY <1>2, UpholdsSame DEF Cancelled
<1>5. CASE Len(s.lim) > lv
  <2>1. Len(t.lim) = lv /\ (\A i \in 1..Len(s.trail) : i \in 1..Len(t.trail) <=> Lv(s, i) <= lv)
        /\ t.reason = s.reason /\ (\A l \in 1..Len(t.lim) : l \in 1..Len(s.lim) /\ t.lim[l] = s.lim[l])
    BY <1>2, <1>5 DEF Cancelled
  <2>2. Len(t.trail) <= Len(s.trail) /\ Len(s.trail) \in Nat /\ Len(t.trail) \in Nat
        /\ \A i \in 1..Len(t.trail) : t.trail[i] = s.trail[i] /\ Lv(t, i) = Lv(s, i)
    BY <1>1, <1>3, TypedIs DEF Grows
  <2>3. \A i \in 1..Len(t.trail) : i \in 1..Len(s.trail) /\ Lv(s, i) <= lv /\ Lv(s, i) \in Nat
    BY <1>1, <2>1, <2>2, TypedIs
  <2>4. DecisionsOK(t)
    <3> SUFFICES ASSUME NEW i \in 1..Len(t.trail), t.reason[t.trail[i][1]] = NoClause, Lv(t, i) # 0
                 PROVE  i = t.lim[Lv(t, i)] + 1
      BY DEF DecisionsOK
    <3>1. i = s.lim[Lv(s, i)] + 1
      BY <2>1, <2>2, <2>3 DEF DecisionsOK, Seeks
    <3>2. Lv(t, i) \in 1..Len(t.lim)
      BY <2>1, <2>2, <2>3
    <3> QED BY <2>1, <2>2, <3>1, <3>2
  <2>5. ASSUME NEW l \in 1..Len(t.lim), l <= Len(a)
        PROVE  \E i \in 1..Len(t.trail) : t.trail[i] = a[l] /\ Lv(t, i) <= l
    <3>1. l \in 1..Len(s.lim)
      BY <2>1
    <3>2. PICK i \in 1..Len(s.trail) : s.trail[i] = a[l] /\ Lv(s, i) <= l
      BY <2>5, <3>1 DEF AssumedOK, Seeks
    <3>3. Lv(s, i) \in Nat
      BY <1>1, TypedIs
    <3>4. Lv(s, i) <= lv
      BY <2>1, <3>2, <3>3
    <3>5. i \in 1..Len(t.trail)
      BY <2>1, <3>4
    <3> QED BY <2>2, <3>2, <3>5
  <2>6. ASSUME NEW i \in 1..Len(t.trail), t.reason[t.trail[i][1]] = NoClause, Lv(t, i) # 0, Lv(t, i) <= Len(a)
        PROVE  t.trail[i] = a[Lv(t, i)]
    BY <2>1, <2>2, <2>3, <2>6 DEF AssumedOK, Seeks
  <2>7. AssumedOK(t, a)
    BY <2>5, <2>6 DEF AssumedOK
  <2> QED BY <1>3, <1>4, <2>4, <2>7 DEF Seeks
<1>6. CASE ~(Len(s.lim) > lv)
  <2>1. t = s
    BY <1>2, <1>6 DEF Cancelled
  <2> QED BY <1>4, <2>1
<1> QED BY <1>5, <1>6

\* propagate()
LEMMA PropagateSeeks ==
  ASSUME NEW s, NEW a, Seeks(s, a), NEW x, x = Propagate(s)
  PROVE  Seeks(x.s, a) /\ Upholds(s, x.s)
<1>1. Books(s) /\ WatchesOK(s) /\ Typed(s) /\ LevelsOK(s) /\ DecisionsOK(s) /\ AssumedOK(s, a)
  BY BooksAre DEF Seeks
<1>2. PICK t : t = x.s
  OBVIOUS
<1>3. Propagating(x, s)
  BY <1>1, PropagateIs
<1>4. Books(t) /\ Typed(t) /\ WatchesOK(t) /\ Extends(s, t) /\ Preserves(s, t) /\ \A L : Within(s, L) => Within(t, L)
  BY <1>2, <1>3, BooksAre DEF Propagating
<1>5. /\ Grows(s, t)
      /\ t.lim = s.lim /\ t.ok = s.ok /\ t.nextVar = s.nextVar
      /\ t.released = s.released /\ t.free = s.free /\ t.learnts = s.learnts
      /\ DOMAIN t.clause = DOMAIN s.clause
      /\ \A i \in (Len(s.trail) + 1)..Len(t.trail) : t.reason[t.trail[i][1]] # NoClause
      /\ \A i \in 1..Len(s.trail) : t.reason[s.trail[i][1]] = s.reason[s.trail[i][1]]
  BY <1>4 DEF Extends
<1>6. Originals(t) = Originals(s)
  BY <1>5 DEF Originals
<1>7. \A lits : Keeping(s, lits) => Keeping(t, lits)
  BY <1>1, <1>4, <1>5, <1>6, GrowsKeeping
<1>8. \A p : AtRoot(s, p) => AtRoot(t, p)
  BY <1>1, <1>4, <1>5, GrowsIs
<1>9. Upholds(s, t)
  BY <1>4, <1>5, <1>7, <1>8 DEF Upholds
<1>10. Len(s.trail) \in Nat /\ Len(t.trail) \in Nat /\ Len(s.trail) <= Len(t.trail)
       /\ \A i \in 1..Len(s.trail) : t.trail[i] = s.trail[i] /\ Lv(t, i) = Lv(s, i)
  BY <1>1, <1>4, <1>5, TypedIs DEF Grows
<1>11. ASSUME NEW i \in 1..Len(t.trail), t.reason[t.trail[i][1]] = NoClause
       PROVE  i \in 1..Len(s.trail) /\ s.reason[s.trail[i][1]] = NoClause /\ t.trail[i] = s.trail[i] /\ Lv(t, i) = Lv(s, i)
  <2>1. i \in 1..Len(s.trail) \/ i \in (Len(s.trail) + 1)..Len(t.trail)
    BY <1>10
  <2> QED BY <1>5, <1>10, <1>11, <2>1
<1>12. DecisionsOK(t)
  BY <1>1, <1>5, <1>11 DEF DecisionsOK
<1>13. ASSUME NEW l \in 1..Len(t.lim), l <= Len(a)
       PROVE  \E i \in 1..Len(t.trail) : t.trail[i] = a[l] /\ Lv(t, i) <= l
  <2>1. PICK i \in 1..Len(s.trail) : s.trail[i] = a[l] /\ Lv(s, i) <= l
    BY <1>1, <1>5, <1>13 DEF AssumedOK
  <2>2. i \in 1..Len(t.trail)
    BY <1>10
  <2> QED BY <1>10, <2>1, <2>2
<1>14. ASSUME NEW i \in 1..Len(t.trail), t.reason[t.trail[i][1]] = NoClause, Lv(t, i) # 0, Lv(t, i) <= Len(a)
       PROVE  t.trail[i] = a[Lv(t, i)]
  BY <1>1, <1>11, <1>14 DEF AssumedOK
<1>15. AssumedOK(t, a)
  BY <1>13, <1>14 DEF AssumedOK
<1> QED BY <1>2, <1>4, <1>9, <1>12, <1>15 DEF Seeks

-----------------------------------------------------------------------------
(* The backjump and the learnt clause.                                     *)

\* Clause c can be learnt in b: but for the first literal, which is open, all
\* are false, the second at the current level.
Asserting(b, c) ==
  /\ c \in Seq(AllLits) /\ Len(c) \in Nat /\ Len(c) >= 1 /\ \A i, j \in 1..Len(c) : c[i][1] = c[j][1] => i = j
  /\ \A i \in 1..Len(c) : Usable(b, c[i]) /\ Mentioned(b, c[i])
  /\ Open(b, c[1][1]) /\ \A i \in 2..Len(c) : OnTrail(b, Neg(c[i]))
  /\ IF Len(c) = 1 THEN Len(b.lim) = 0
     ELSE \A j \in 1..Len(b.trail) : b.trail[j] = Neg(c[2]) => Lv(b, j) = Len(b.lim)
  /\ \A m \in Models : Means(b, m) => \E i \in 1..Len(c) : c[i] \in m

\* The backjump: of the learnt clause all literals but the first stay false.
LEMMA BackIs ==
  ASSUME NEW s, NEW a, Seeks(s, a), NEW r, Conflicting(s, r), NEW c, c = Learnt(s, r),
         NEW b, b = CancelUntil(s, BacktrackLevel(s, c))
  PROVE  Seeks(b, a) /\ Upholds(s, b) /\ Asserting(b, c) /\ b.qhead = Len(b.trail) /\ AwakeTo(b, Len(b.trail))
<1>1. Books(s) /\ WatchesOK(s) /\ Typed(s) /\ TrailOK(s) /\ LevelsOK(s) /\ Within(s, UsableLits(s))
      /\ Len(s.lim) > 0 /\ AwakeTo(s, Bottom(s))
  BY BooksAre DEF Seeks, Conflicting
<1>2. LearntOK(s, c)
  BY LearntIs
<1>3. /\ c \in Seq(AllLits) /\ Len(c) \in Nat /\ Len(c) >= 1 /\ (\A i, j \in 1..Len(c) : c[i][1] = c[j][1] => i = j)
      /\ (\A i \in 1..Len(c) : c[i] \in AllLits /\ Mentioned(s, c[i]))
      /\ (\A i \in 2..Len(c) : /\ OnTrail(s, Neg(c[i])) /\ s.level[c[i][1]] > 0 /\ s.level[c[i][1]] < Len(s.lim)
                               /\ s.level[c[i][1]] <= s.level[c[2][1]])
      /\ \A m \in Models : Means(s, m) => \E i \in 1..Len(c) : c[i] \in m
  BY <1>2, LenProperties DEF LearntOK
<1>20. Len(c) # 1 => 2 \in 2..Len(c) /\ 2 \in 1..Len(c)
  <2>1. PICK n \in Nat : n = Len(c)
    BY <1>3
  <2>2. n >= 1
    BY <1>3, <2>1
  <2>3. n # 1 => 2 \in 2..n /\ 2 \in 1..n
    BY <2>2
  <2> QED BY <2>1, <2>3
<1>4. PICK j \in 1..Len(s.trail) : c[1] = Neg(s.trail[j]) /\ Lv(s, j) = Len(s.lim)
  BY <1>2 DEF LearntOK
<1>5. PICK lv : lv = BacktrackLevel(s, c)
  OBVIOUS
<1>6. lv \in Nat /\ Len(s.lim) > lv /\ (Len(c) = 1 => lv = 0)
      /\ \A i \in 2..Len(c) : s.level[c[i][1]] <= lv /\ lv = s.level[c[2][1]]
  <2>1. CASE Len(c) = 1
    <3>1. lv = 0
      BY <1>5, <2>1 DEF BacktrackLevel
    <3>2. \A i \in 2..Len(c) : FALSE
      BY <2>1
    <3> QED BY <1>1, <3>1, <3>2
  <2>2. CASE Len(c) # 1
    <3>1. lv = s.level[c[2][1]]
      BY <1>5, <2>2 DEF BacktrackLevel
    <3>2. 2 \in 2..Len(c) /\ 2 \in 1..Len(c)
      BY <1>20, <2>2
    <3>3. lv \in Nat
      BY <1>1, <1>3, <3>1, <3>2, Literals, TypedIs
    <3>4. \A i \in 2..Len(c) : s.level[c[i][1]] <= lv
      BY <1>3, <3>1
    <3>5. Len(s.lim) \in Nat
      BY <1>1, TypedIs
    <3> QED BY <1>3, <2>2, <3>1, <3>2, <3>3, <3>4, <3>5
  <2> QED BY <2>1, <2>2
<1>7. Cancelled(s, lv, b)
  BY <1>1, <1>5, <1>6, CancelBooks
<1>8. Seeks(b, a) /\ Upholds(s, b)
  BY <1>5, <1>6, CancelSeeks
<1>9. /\ Books(b) /\ Typed(b) /\ Grows(b, s) /\ b.clause = s.clause /\ b.level = s.level
      /\ b.nextVar = s.nextVar /\ b.free = s.free
      /\ Len(b.lim) = lv /\ b.qhead = Len(b.trail) /\ AwakeTo(b, Len(b.trail))
      /\ \A i \in 1..Len(s.trail) : i \in 1..Len(b.trail) <=> Lv(s, i) <= lv
  BY <1>1, <1>6, <1>7, BooksAre DEF Cancelled
<1>10. Len(b.trail) <= Len(s.trail) /\ Len(s.trail) \in Nat /\ Len(b.trail) \in Nat
       /\ \A i \in 1..Len(b.trail) : i \in 1..Len(s.trail) /\ b.trail[i] = s.trail[i] /\ Lv(b, i) = Lv(s, i)
  <2>1. Len(b.trail) <= Len(s.trail) /\ Len(s.trail) \in Nat /\ Len(b.trail) \in Nat
        /\ \A i \in 1..Len(b.trail) : b.trail[i] = s.trail[i] /\ Lv(b, i) = Lv(s, i)
    BY <1>1, <1>9, TypedIs DEF Grows
  <2>2. \A i \in 1..Len(b.trail) : i \in 1..Len(s.trail)
    BY <2>1
  <2> QED BY <2>1, <2>2
<1>11. \A p : Usable(s, p) <=> Usable(b, p)
  BY <1>9 DEF Usable, IsFree
<1>12. ASSUME NEW i \in 1..Len(c) PROVE Usable(b, c[i]) /\ Mentioned(b, c[i])
  <2>1. PICK x \in DOMAIN s.clause : InClause(s, x, c[i])
    BY <1>3 DEF Mentioned
  <2>2. Usable(s, c[i])
    BY <1>1, <2>1 DEF InClause, Within, UsableLits
  <2>3. Mentioned(b, c[i])
    BY <1>9, <2>1 DEF Mentioned, InClause
  <2> QED BY <1>11, <2>2, <2>3
<1>13. 1 \in 1..Len(c)
  BY <1>3
<1>14. ASSUME NEW i \in 1..Len(b.trail) PROVE b.trail[i][1] # c[1][1]
  <2> SUFFICES ASSUME b.trail[i][1] = c[1][1] PROVE FALSE
    OBVIOUS
  <2>1. s.trail[i][1] = s.trail[j][1] /\ i \in 1..Len(s.trail)
    BY <1>1, <1>4, <1>10, Literals, TypedIs
  <2>2. i = j
    BY <1>1, <2>1 DEF TrailOK
  <2>3. Lv(s, j) <= lv
    BY <1>9, <2>1, <2>2
  <2>4. Len(s.lim) \in Nat
    BY <1>1, TypedIs
  <2> QED BY <1>4, <1>6, <2>3, <2>4
<1>15. Open(b, c[1][1])
  <2>1. c[1] \in AllLits /\ Usable(b, c[1]) /\ Neg(c[1])[1] = c[1][1] /\ c[1][1] \in Vars
    BY <1>3, <1>12, <1>13, Literals
  <2>2. ~OnTrail(b, c[1]) /\ ~OnTrail(b, Neg(c[1]))
    BY <1>14, <2>1 DEF OnTrail
  <2>3. ~True(b, c[1]) /\ ~False(b, c[1])
    BY <1>9, <2>1, <2>2, TrueIsOnTrail
  <2> QED BY <1>9, <2>1, <2>3, OpenIs
<1>16. ASSUME NEW i \in 2..Len(c) PROVE OnTrail(b, Neg(c[i]))
  <2>1. PICK k \in 1..Len(s.trail) : s.trail[k] = Neg(c[i])
    BY <1>3 DEF OnTrail
  <2>2. i \in 1..Len(c)
    BY <1>3
  <2>3. Lv(s, k) = s.level[c[i][1]]
    BY <1>3, <2>1, <2>2, Literals DEF Lv
  <2>4. k \in 1..Len(b.trail)
    BY <1>6, <1>9, <2>3
  <2> QED BY <1>10, <2>1, <2>4 DEF OnTrail
<1>17. IF Len(c) = 1 THEN Len(b.lim) = 0
       ELSE \A k \in 1..Len(b.trail) : b.trail[k] = Neg(c[2]) => Lv(b, k) = Len(b.lim)
  <2>1. CASE Len(c) = 1
    BY <1>6, <1>9, <2>1
  <2>2. CASE Len(c) # 1
    <3> SUFFICES ASSUME NEW k \in 1..Len(b.trail), b.trail[k] = Neg(c[2]) PROVE Lv(b, k) = Len(b.lim)
      BY <2>2
    <3>1. 2 \in 2..Len(c) /\ 2 \in 1..Len(c)
      BY <1>20, <2>2
    <3>2. Lv(b, k) = s.level[c[2][1]]
      BY <1>3, <1>9, <3>1, Literals DEF Lv
    <3> QED BY <1>6, <1>9, <3>1, <3>2
  <2> QED BY <2>1, <2>2
<1>18. ASSUME NEW m \in Models, Means(b, m) PROVE \E i \in 1..Len(c) : c[i] \in m
  <2>1. Means(s, m)
    <3>1. \A x \in DOMAIN s.clause : \E k \in 1..Len(s.clause[x]) : s.clause[x][k] \in m
      BY <1>9, <1>18 DEF Means
    <3>2. ASSUME NEW i \in 1..Len(s.trail), Lv(s, i) = 0 PROVE s.trail[i] \in m
      <4>1. i \in 1..Len(b.trail)
        BY <1>6, <1>9, <3>2
      <4> QED BY <1>10, <1>18, <3>2, <4>1 DEF Means
    <3> QED BY <3>1, <3>2 DEF Means
  <2> QED BY <1>3, <2>1
<1>19. Asserting(b, c)
  BY <1>3, <1>12, <1>15, <1>16, <1>17, <1>18 DEF Asserting
<1> QED BY <1>8, <1>9, <1>19

\* The two parts of AssumedOK.
AssumedHold(s, a, n) == \A l \in 1..n : l <= Len(a) => \E i \in 1..Len(s.trail) : s.trail[i] = a[l] /\ Lv(s, i) <= l

AssumedOnly(s, a) ==
  \A i \in 1..Len(s.trail) :
    s.reason[s.trail[i][1]] = NoClause /\ Lv(s, i) # 0 /\ Lv(s, i) <= Len(a) => s.trail[i] = a[Lv(s, i)]

\* Literal p is implied, or decided at the begin of a level.
Placed(s, a, p, r) ==
  r = NoClause => \/ Len(s.lim) = 0
                  \/ s.lim[Len(s.lim)] = Len(s.trail) /\ (Len(s.lim) <= Len(a) => p = a[Len(s.lim)])

\* uncheckedEnqueue() during the search.
LEMMA EnqueueDecided ==
  ASSUME NEW s, Books(s), DecisionsOK(s), NEW a, AssumedOnly(s, a), NEW p \in AllLits, Usable(s, p), Open(s, p[1]),
         NEW r \in Nat, r = NoClause \/ Implies1(s, r, p), Placed(s, a, p, r), NEW t, t = Enqueue(s, p, r)
  PROVE  /\ DecisionsOK(t) /\ AssumedOnly(t, a)
         /\ \A n : AssumedHold(s, a, n) => AssumedHold(t, a, n)
<1>1. Books(t) /\ Grows(s, t) /\ Lv(t, Len(s.trail) + 1) = Len(s.lim) /\ Typed(s) /\ Typed(t) /\ TrailOK(s)
  BY EnqueueBooks, BooksAre
<1>2. /\ t.lim = s.lim /\ Len(t.trail) = Len(s.trail) + 1 /\ t.trail[Len(s.trail) + 1] = p
      /\ (\A i \in 1..Len(s.trail) : t.trail[i] = s.trail[i])
      /\ t.reason[p[1]] = r /\ t.level[p[1]] = Len(s.lim)
      /\ \A v \in Vars : v # p[1] => t.reason[v] = s.reason[v] /\ t.level[v] = s.level[v]
  BY <1>1, EnqueueFields
<1>3. Len(s.trail) \in Nat /\ Len(s.lim) \in Nat /\ \A i \in 1..Len(s.trail) : s.trail[i] \in AllLits /\ s.trail[i][1] \in Vars
  BY <1>1, TypedIs
<1>4. \A i \in 1..Len(s.trail) : s.trail[i][1] # p[1]
  BY <1>1, OpenIs, Literals DEF TrailOK
<1>5. \A i \in 1..Len(t.trail) : i \in 1..Len(s.trail) \/ i = Len(s.trail) + 1
  BY <1>2, <1>3
<1>6. \A i \in 1..Len(s.trail) : Lv(t, i) = Lv(s, i) /\ t.trail[i] = s.trail[i] /\ t.reason[t.trail[i][1]] = s.reason[s.trail[i][1]]
  BY <1>2, <1>3, <1>4 DEF Lv
<1>7. DecisionsOK(t)
  <2> SUFFICES ASSUME NEW i \in 1..Len(t.trail), t.reason[t.trail[i][1]] = NoClause, Lv(t, i) # 0
               PROVE  i = t.lim[Lv(t, i)] + 1
    BY DEF DecisionsOK
  <2>1. CASE i \in 1..Len(s.trail)
    BY <1>2, <1>6, <2>1 DEF DecisionsOK
  <2>2. CASE i = Len(s.trail) + 1
    BY <1>1, <1>2, <2>2 DEF Placed
  <2> QED BY <1>5, <2>1, <2>2
<1>8. AssumedOnly(t, a)
  <2> SUFFICES ASSUME NEW i \in 1..Len(t.trail), t.reason[t.trail[i][1]] = NoClause, Lv(t, i) # 0, Lv(t, i) <= Len(a)
               PROVE  t.trail[i] = a[Lv(t, i)]
    BY DEF AssumedOnly
  <2>1. CASE i \in 1..Len(s.trail)
    BY <1>2, <1>6, <2>1 DEF AssumedOnly
  <2>2. CASE i = Len(s.trail) + 1
    BY <1>1, <1>2, <2>2 DEF Placed
  <2> QED BY <1>5, <2>1, <2>2
<1>9. ASSUME NEW n, AssumedHold(s, a, n) PROVE AssumedHold(t, a, n)
  <2> SUFFICES ASSUME NEW l \in 1..n, l <= Len(a) PROVE \E i \in 1..Len(t.trail) : t.trail[i] = a[l] /\ Lv(t, i) <= l
    BY DEF AssumedHold
  <2>1. PICK i \in 1..Len(s.trail) : s.trail[i] = a[l] /\ Lv(s, i) <= l
    BY <1>9 DEF AssumedHold
  <2>2. i \in 1..Len(t.trail)
    BY <1>2, <1>3
  <2> QED BY <1>6, <2>1, <2>2
<1> QED BY <1>7, <1>8, <1>9

\* What is learnt is enqueued.
LearnedTo(b, c) ==
  IF Len(c) = 1 THEN Enqueue(b, c[1], NoClause)
  ELSE Enqueue([Attach(b, FreshRef(b), c) EXCEPT !.learnts = @ \cup {FreshRef(b)}], c[1], FreshRef(b))

\* Means() of the new solver: its last literal follows at level 0.
LEMMA FirstFollows ==
  ASSUME NEW b, Books(b), NEW c, Asserting(b, c), Len(b.lim) = 0, NEW m \in Models, Means(b, m)
  PROVE  c[1] \in m
<1>1. PICK i \in 1..Len(c) : c[i] \in m
  BY DEF Asserting
<1>2. CASE i = 1
  BY <1>1, <1>2
<1>3. CASE i # 1
  <2>1. i \in 2..Len(c)
    BY <1>3 DEF Asserting
  <2>2. PICK j \in 1..Len(b.trail) : b.trail[j] = Neg(c[i])
    BY <2>1 DEF Asserting, OnTrail
  <2>3. Lv(b, j) = 0
    BY RootIs
  <2>4. Neg(c[i]) \in m
    BY <2>2, <2>3 DEF Means
  <2>5. c[i] \in AllLits
    BY LenProperties DEF Asserting
  <2> QED BY <1>1, <2>4, <2>5 DEF Models
<1> QED BY <1>2, <1>3

\* A clause of one literal.
LEMMA LearnUnit ==
  ASSUME NEW b, NEW a, Seeks(b, a), NEW c, Asserting(b, c), Len(c) = 1, b.qhead = Len(b.trail), AwakeTo(b, Len(b.trail)),
         NEW t, t = LearnedTo(b, c)
  PROVE  Seeks(t, a) /\ Upholds(b, t) /\ AwakeTo(t, t.qhead)
<1>1. t = Enqueue(b, c[1], NoClause)
  BY DEF LearnedTo
<1>2. PICK p : p = c[1]
  OBVIOUS
<1>3. 1 \in 1..Len(c)
  OBVIOUS
<1>4. p \in AllLits /\ Usable(b, p) /\ Open(b, p[1]) /\ NoClause \in Nat /\ Len(b.lim) = 0
  BY <1>2, <1>3, LenProperties DEF Asserting, NoClause
<1>5. Books(b) /\ Typed(b) /\ WatchesOK(b) /\ DecisionsOK(b) /\ AssumedOnly(b, a) /\ AssumedHold(b, a, Len(b.lim))
  BY BooksAre DEF Seeks, AssumedOK, AssumedOnly, AssumedHold
<1>6. t = Enqueue(b, p, NoClause)
  BY <1>1, <1>2
<1>7. Books(t) /\ Typed(t) /\ Grows(b, t) /\ WatchesOK(t) /\ Lv(t, Len(b.trail) + 1) = Len(b.lim)
  BY <1>4, <1>5, <1>6, EnqueueBooks, BooksAre
<1>8. \A n \in 0..Len(b.trail) : AwakeTo(b, n) => AwakeTo(t, n)
  BY <1>4, <1>5, <1>6, EnqueueBooks
<1>9. /\ t.clause = b.clause /\ t.learnts = b.learnts /\ t.watches = b.watches /\ t.lim = b.lim
      /\ t.qhead = b.qhead /\ t.ok = b.ok /\ t.nextVar = b.nextVar
      /\ t.released = b.released /\ t.free = b.free
      /\ Len(t.trail) = Len(b.trail) + 1 /\ t.trail[Len(b.trail) + 1] = p
      /\ \A i \in 1..Len(b.trail) : t.trail[i] = b.trail[i]
  BY <1>4, <1>5, <1>6, EnqueueFields
<1>10. Len(b.trail) \in Nat
  BY <1>5, TypedIs
<1>11. AwakeTo(t, t.qhead)
  <2>1. Len(b.trail) \in 0..Len(b.trail)
    BY <1>10
  <2> QED BY <1>8, <1>9, <2>1
<1>12. Placed(b, a, p, NoClause)
  BY <1>4 DEF Placed
<1>13. DecisionsOK(t) /\ AssumedOnly(t, a) /\ AssumedHold(t, a, Len(b.lim))
  BY <1>4, <1>5, <1>6, <1>12, EnqueueDecided
<1>14. AssumedOK(t, a)
  BY <1>9, <1>13 DEF AssumedOK, AssumedOnly, AssumedHold
<1>15. Seeks(t, a)
  BY <1>7, <1>13, <1>14 DEF Seeks
<1>16. Preserves(b, t)
  <2> SUFFICES ASSUME NEW m \in Models, Means(b, m) PROVE Means(t, m)
    BY DEF Preserves
  <2>1. p \in m
    BY <1>2, <1>4, <1>5, FirstFollows
  <2>2. \A x \in DOMAIN t.clause : \E k \in 1..Len(t.clause[x]) : t.clause[x][k] \in m
    BY <1>9 DEF Means
  <2>3. ASSUME NEW i \in 1..Len(t.trail), Lv(t, i) = 0 PROVE t.trail[i] \in m
    <3>1. i \in 1..Len(b.trail) \/ i = Len(b.trail) + 1
      BY <1>9, <1>10
    <3>2. CASE i \in 1..Len(b.trail)
      BY <1>7, <2>3, <3>2 DEF Grows, Means
    <3>3. CASE i = Len(b.trail) + 1
      BY <1>9, <2>1, <3>3
    <3> QED BY <3>1, <3>2, <3>3
  <2> QED BY <2>2, <2>3 DEF Means
<1>17. \A L : Within(b, L) => Within(t, L)
  BY <1>9 DEF Within
<1>18. Originals(t) = Originals(b)
  BY <1>9 DEF Originals
<1>19. \A lits : Keeping(b, lits) => Keeping(t, lits)
  BY <1>5, <1>7, <1>18, GrowsKeeping
<1>20. \A q : AtRoot(b, q) => AtRoot(t, q)
  BY <1>5, <1>7, GrowsIs
<1> QED BY <1>9, <1>11, <1>15, <1>16, <1>17, <1>19, <1>20 DEF Upholds

\* u is b with the learnt clause c as r.
Learning(b, u, r, c) ==
  /\ Books(u) /\ WatchesOK(u) /\ Grows(b, u)
  /\ u.learnts = b.learnts \cup {r} /\ u.trail = b.trail /\ u.lim = b.lim
  /\ u.qhead = b.qhead /\ u.assigned = b.assigned /\ u.reason = b.reason /\ u.level = b.level
  /\ u.ok = b.ok /\ u.nextVar = b.nextVar /\ u.released = b.released /\ u.free = b.free
  /\ DOMAIN u.clause = DOMAIN b.clause \cup {r} /\ u.clause[r] = c
  /\ \A x \in DOMAIN b.clause : u.clause[x] = b.clause[x]
  /\ \A x \in DOMAIN b.clause : \A j \in 1..Len(b.trail) : AwakeTo(b, Len(b.trail)) => AwakeAt(u, x, j)
  /\ \A L : Within(b, L) /\ (\A k \in 1..Len(c) : c[k] \in L) => Within(u, L)

\* The learnt clause is attached, and its first literal enqueued.
LEMMA LearningIs ==
  ASSUME NEW b, Books(b), WatchesOK(b), NEW r \in Nat \ {0}, r \notin DOMAIN b.clause, NEW c \in ClauseSeq,
         \A k \in 1..Len(c) : Usable(b, c[k]), NEW u, u = [Attach(b, r, c) EXCEPT !.learnts = @ \cup {r}]
  PROVE  Learning(b, u, r, c)
<1>1. PICK v : v = Attach(b, r, c)
  OBVIOUS
<1>2. Typed(b)
  BY BooksAre
<1>3. Attached(b, v, r, c)
  BY <1>1, <1>2, AttachFields
<1>4. /\ Books(v) /\ Grows(b, v) /\ WatchesOK(v)
      /\ (\A n \in 0..Len(b.trail) : \A x \in DOMAIN b.clause : \A j \in 1..n : AwakeTo(b, n) => AwakeAt(v, x, j))
      /\ \A L : Within(b, L) /\ (\A k \in 1..Len(c) : c[k] \in L) => Within(v, L)
  BY <1>1, AttachBooks
<1>5. Typed(v) /\ HeapOK(v)
  BY <1>4, BooksAre
<1>6. u = [v EXCEPT !.learnts = @ \cup {r}]
  BY <1>1
<1>7. /\ u.clause = v.clause /\ u.watches = v.watches /\ u.trail = v.trail /\ u.lim = v.lim
      /\ u.qhead = v.qhead /\ u.assigned = v.assigned /\ u.reason = v.reason /\ u.level = v.level
      /\ u.nextVar = v.nextVar /\ u.free = v.free /\ u.heap = v.heap
      /\ u.ok = v.ok /\ u.released = v.released
      /\ u.learnts = v.learnts \cup {r} /\ u \in SolverType
  <2>1. v \in SolverType /\ r \in Nat
    BY <1>5 DEF Typed
  <2>2. /\ u.clause = v.clause /\ u.watches = v.watches /\ u.trail = v.trail /\ u.lim = v.lim
        /\ u.qhead = v.qhead /\ u.assigned = v.assigned /\ u.reason = v.reason /\ u.level = v.level
        /\ u.nextVar = v.nextVar /\ u.free = v.free /\ u.heap = v.heap
        /\ u.ok = v.ok /\ u.released = v.released
        /\ u.learnts = v.learnts \cup {r}
    BY <1>6, <2>1 DEF SolverType
  <2>3. PICK ls : ls = v.learnts \cup {r}
    OBVIOUS
  <2>4. u = [v EXCEPT !.learnts = ls]
    BY <1>6, <2>3
  <2>5. ls \in SUBSET Nat
    BY <2>1, <2>3 DEF SolverType
  <2>6. u \in SolverType
    BY <2>1, <2>4, <2>5 DEF SolverType
  <2> QED BY <2>2, <2>6
<1>8. /\ v.learnts = b.learnts /\ v.trail = b.trail /\ v.lim = b.lim
      /\ v.qhead = b.qhead /\ v.assigned = b.assigned /\ v.reason = b.reason /\ v.level = b.level
      /\ v.ok = b.ok /\ v.nextVar = b.nextVar /\ v.released = b.released /\ v.free = b.free
      /\ DOMAIN v.clause = DOMAIN b.clause \cup {r} /\ v.clause[r] = c
      /\ \A x \in DOMAIN b.clause : v.clause[x] = b.clause[x]
  BY <1>3 DEF Attached
<1>9. Similar(v, u)
  <2>1. u.learnts \subseteq DOMAIN u.clause
    BY <1>2, <1>7, <1>8 DEF Typed
  <2>2. HeapOK(u)
    BY <1>5, <1>7 DEF HeapOK, Open
  <2> QED BY <1>7, <2>1, <2>2 DEF Similar
<1>10. InCommon(v, u)
  BY <1>4, <1>9, SimilarBooks
<1>11. Books(u) /\ WatchesOK(u) /\ Grows(v, u) /\ (\A L : Within(v, L) => Within(u, L)) /\ Typed(u)
  BY <1>4, <1>10, BooksAre DEF InCommon
<1>12. Grows(b, u)
  BY <1>2, <1>4, <1>5, <1>11, GrowsTwice
<1>13. ASSUME NEW x \in DOMAIN b.clause, NEW j \in 1..Len(b.trail), AwakeTo(b, Len(b.trail)) PROVE AwakeAt(u, x, j)
  <2>1. Len(b.trail) \in 0..Len(b.trail)
    BY <1>2, TypedIs
  <2>2. AwakeAt(v, x, j)
    BY <1>4, <1>13, <2>1
  <2> QED BY ZenonT(40), <1>7, <2>2 DEF AwakeAt, InClause, Lv
<1>14. \A L : Within(b, L) /\ (\A k \in 1..Len(c) : c[k] \in L) => Within(u, L)
  BY <1>4, <1>11
<1> QED BY <1>7, <1>8, <1>11, <1>12, <1>13, <1>14 DEF Learning

\* A clause of more literals.
LEMMA LearnClause ==
  ASSUME NEW b, NEW a, Seeks(b, a), NEW c, Asserting(b, c), Len(c) # 1, b.qhead = Len(b.trail), AwakeTo(b, Len(b.trail)),
         NEW t, t = LearnedTo(b, c)
  PROVE  Seeks(t, a) /\ Upholds(b, t) /\ AwakeTo(t, t.qhead)
<1>1. PICK r : r = FreshRef(b)
  OBVIOUS
<1>2. PICK u : u = [Attach(b, r, c) EXCEPT !.learnts = @ \cup {r}]
  OBVIOUS
<1>3. PICK p : p = c[1]
  OBVIOUS
<1>4. t = Enqueue(u, p, r)
  BY <1>1, <1>2, <1>3 DEF LearnedTo
<1>5. Books(b) /\ Typed(b) /\ WatchesOK(b) /\ DecisionsOK(b) /\ AssumedOnly(b, a) /\ AssumedHold(b, a, Len(b.lim))
  BY BooksAre DEF Seeks, AssumedOK, AssumedOnly, AssumedHold
<1>6. r \in Nat \ {0} /\ r \notin DOMAIN b.clause
  BY <1>1, <1>5, FreshRefIs
<1>7. Len(c) \in Nat /\ Len(c) >= 2 /\ c \in ClauseSeq
  <2>1. PICK n \in Nat : n = Len(c)
    BY DEF Asserting
  <2>2. n >= 1 /\ n # 1
    BY <2>1 DEF Asserting
  <2>3. n >= 2
    BY <2>2
  <2>4. c \in Seq(AllLits) /\ \A i, j \in 1..Len(c) : c[i][1] = c[j][1] => i = j
    BY DEF Asserting
  <2> QED BY <2>1, <2>3, <2>4 DEF ClauseSeq
<1>8. 1 \in 1..Len(c) /\ 2 \in 1..Len(c) /\ 2 \in 2..Len(c) /\ \A i \in 1..Len(c) : c[i] \in AllLits
  <2>1. 1 \in 1..Len(c) /\ 2 \in 1..Len(c) /\ \A i \in 1..Len(c) : c[i] \in AllLits
    BY <1>7, ClauseIs
  <2> QED BY <2>1
<1>9. /\ p \in AllLits /\ Usable(b, p) /\ Open(b, p[1]) /\ (\A i \in 2..Len(c) : OnTrail(b, Neg(c[i])))
      /\ (\A k \in 1..Len(c) : Usable(b, c[k]) /\ Mentioned(b, c[k]))
      /\ (\A j \in 1..Len(b.trail) : b.trail[j] = Neg(c[2]) => Lv(b, j) = Len(b.lim))
      /\ \A m \in Models : Means(b, m) => \E i \in 1..Len(c) : c[i] \in m
  BY <1>3, <1>8 DEF Asserting
<1>10. Learning(b, u, r, c)
  BY <1>2, <1>5, <1>6, <1>7, <1>9, LearningIs
<1>11. /\ Books(u) /\ WatchesOK(u) /\ Grows(b, u) /\ Typed(u)
       /\ u.learnts = b.learnts \cup {r} /\ u.trail = b.trail /\ u.lim = b.lim
       /\ u.qhead = b.qhead /\ u.assigned = b.assigned /\ u.reason = b.reason /\ u.level = b.level
       /\ u.ok = b.ok /\ u.nextVar = b.nextVar /\ u.released = b.released /\ u.free = b.free
       /\ DOMAIN u.clause = DOMAIN b.clause \cup {r} /\ u.clause[r] = c
       /\ \A x \in DOMAIN b.clause : u.clause[x] = b.clause[x]
  BY <1>10, BooksAre DEF Learning
<1>12. Usable(u, p) /\ Open(u, p[1]) /\ r \in Nat /\ r # NoClause
  BY <1>6, <1>9, <1>11 DEF Usable, IsFree, Open, NoClause
<1>13. Implies1(u, r, p)
  BY <1>3, <1>9, <1>11 DEF Implies1, OnTrail
<1>14. Books(t) /\ Typed(t) /\ Grows(u, t) /\ WatchesOK(t) /\ Lv(t, Len(u.trail) + 1) = Len(u.lim)
  BY <1>4, <1>9, <1>11, <1>12, <1>13, EnqueueBooks, BooksAre
<1>15. /\ t.clause = u.clause /\ t.learnts = u.learnts /\ t.watches = u.watches /\ t.lim = u.lim
       /\ t.qhead = u.qhead /\ t.ok = u.ok /\ t.nextVar = u.nextVar
       /\ t.released = u.released /\ t.free = u.free
       /\ Len(t.trail) = Len(u.trail) + 1 /\ t.trail[Len(u.trail) + 1] = p
       /\ \A i \in 1..Len(u.trail) : t.trail[i] = u.trail[i]
  BY SMTT(30), <1>4, <1>9, <1>11, <1>12, EnqueueFields
<1>16. Len(b.trail) \in Nat
  BY <1>5, TypedIs
<1>17. AwakeTo(t, t.qhead)
  <2> SUFFICES ASSUME NEW x \in DOMAIN t.clause, NEW j \in 1..Len(b.trail) PROVE AwakeAt(t, x, j)
    BY <1>11, <1>15 DEF AwakeTo
  <2>1. CASE x # r
    <3>1. x \in DOMAIN b.clause /\ x \in DOMAIN u.clause
      BY <1>11, <1>15, <2>1
    <3>2. AwakeAt(u, x, j) /\ j \in 1..Len(u.trail)
      BY <1>10, <1>11, <3>1 DEF Learning
    <3>3. \A k \in {1, 2} : \E l \in {1, 2} : t.clause[x][k] = u.clause[x][l]
      BY <1>15
    <3> QED BY <1>11, <1>14, <3>1, <3>2, <3>3, GrowsAwake
  <2>2. CASE x = r
    <3> SUFFICES ASSUME NEW k \in {1, 2}, t.trail[j] = Neg(t.clause[x][k])
                 PROVE  \E i \in 1..Len(t.trail) : InClause(t, x, t.trail[i]) /\ Lv(t, i) <= Lv(t, j)
      BY DEF AwakeAt
    <3>1. b.trail[j] = Neg(c[k]) /\ Lv(t, j) = Lv(b, j)
      <4>1. Lv(t, j) = Lv(u, j)
        BY <1>11, <1>14 DEF Grows
      <4>2. Lv(u, j) = Lv(b, j)
        BY <1>11 DEF Lv
      <4>3. t.trail[j] = b.trail[j] /\ t.clause[x] = c
        BY <1>11, <1>15, <2>2
      <4> QED BY <4>1, <4>2, <4>3
    <3>2. k # 1
      <4> SUFFICES ASSUME k = 1 PROVE FALSE
        OBVIOUS
      <4>1. b.trail[j] = Neg(p) /\ b.trail[j] \in b.assigned
        BY <1>3, <1>5, <3>1, BooksAre DEF TrailOK
      <4>2. Neg(p)[1] = p[1]
        BY <1>9, Literals
      <4> QED BY <1>5, <1>9, <4>1, <4>2, OpenIs, Literals
    <3>3. Lv(t, j) = Len(b.lim)
      BY <1>9, <3>1, <3>2
    <3>4. PICK n : n = Len(b.trail) + 1
      OBVIOUS
    <3>5. n \in 1..Len(t.trail) /\ t.trail[n] = p /\ Lv(t, n) = Len(b.lim)
      BY <1>11, <1>14, <1>15, <1>16, <3>4
    <3>6. InClause(t, x, p)
      BY <1>3, <1>8, <1>11, <1>15, <2>2 DEF InClause
    <3>7. Len(b.lim) \in Nat
      BY <1>5, TypedIs
    <3> QED BY <3>3, <3>5, <3>6, <3>7
  <2> QED BY <2>1, <2>2
<1>18. Placed(u, a, p, r)
  BY <1>12 DEF Placed
<1>19. \A i : Lv(u, i) = Lv(b, i)
  BY <1>11 DEF Lv
<1>20. DecisionsOK(u) /\ AssumedOnly(u, a) /\ AssumedHold(u, a, Len(b.lim))
  BY SMTT(30), <1>5, <1>11, <1>19 DEF DecisionsOK, AssumedOnly, AssumedHold
<1>21. DecisionsOK(t) /\ AssumedOnly(t, a) /\ AssumedHold(t, a, Len(b.lim))
  BY <1>4, <1>9, <1>11, <1>12, <1>13, <1>18, <1>20, EnqueueDecided
<1>22. AssumedOK(t, a)
  BY <1>11, <1>15, <1>21 DEF AssumedOK, AssumedOnly, AssumedHold
<1>23. Seeks(t, a)
  BY <1>14, <1>21, <1>22 DEF Seeks
<1>24. Grows(b, t)
  BY <1>5, <1>11, <1>14, GrowsTwice
<1>25. Preserves(b, t)
  <2> SUFFICES ASSUME NEW m \in Models, Means(b, m) PROVE Means(t, m)
    BY DEF Preserves
  <2>1. ASSUME NEW x \in DOMAIN t.clause PROVE \E k \in 1..Len(t.clause[x]) : t.clause[x][k] \in m
    <3>1. CASE x = r
      BY <1>9, <1>11, <1>15, <3>1
    <3>2. CASE x # r
      <4>1. x \in DOMAIN b.clause /\ t.clause[x] = b.clause[x]
        BY <1>11, <1>15, <3>2
      <4> QED BY <4>1 DEF Means
    <3> QED BY <3>1, <3>2
  <2>2. ASSUME NEW i \in 1..Len(t.trail), Lv(t, i) = 0 PROVE t.trail[i] \in m
    <3>1. i \in 1..Len(b.trail) \/ i = Len(b.trail) + 1
      BY <1>11, <1>15, <1>16
    <3>2. CASE i \in 1..Len(b.trail)
      BY <1>24, <2>2, <3>2 DEF Grows, Means
    <3>3. CASE i = Len(b.trail) + 1
      <4>1. Len(b.lim) = 0
        BY <1>11, <1>14, <2>2, <3>3
      <4>2. p \in m
        BY <1>3, <1>5, <4>1, FirstFollows
      <4> QED BY <1>11, <1>15, <3>3, <4>2
    <3> QED BY <3>1, <3>2, <3>3
  <2> QED BY <2>1, <2>2 DEF Means
<1>26. ASSUME NEW L, Within(b, L) PROVE Within(t, L)
  <2>1. \A k \in 1..Len(c) : c[k] \in L
    BY <1>9, <1>26 DEF Mentioned, InClause, Within
  <2>2. Within(u, L)
    BY <1>10, <1>26, <2>1 DEF Learning
  <2> QED BY <1>15, <2>2 DEF Within
<1>27. Originals(t) = Originals(b)
  BY <1>6, <1>11, <1>15 DEF Originals
<1>28. \A lits : Keeping(b, lits) => Keeping(t, lits)
  BY <1>5, <1>14, <1>24, <1>27, GrowsKeeping
<1>29. \A q : AtRoot(b, q) => AtRoot(t, q)
  BY <1>5, <1>14, <1>24, GrowsIs
<1>30. t.ok = b.ok /\ t.nextVar = b.nextVar /\ t.free = b.free /\ t.released = b.released
  BY <1>11, <1>15
<1> QED BY <1>17, <1>23, <1>25, <1>26, <1>28, <1>29, <1>30 DEF Upholds

\* A conflict above level 0: the solver goes back, learns a clause and assigns
\* what it implies.
LEMMA LearnIs ==
  ASSUME NEW s, NEW a, Seeks(s, a), NEW r, Conflicting(s, r), NEW c, c = Learnt(s, r),
         NEW b, b = CancelUntil(s, BacktrackLevel(s, c)), NEW t, t = LearnedTo(b, c)
  PROVE  Seeks(t, a) /\ Upholds(s, t) /\ AwakeTo(t, t.qhead)
<1>1. Seeks(b, a) /\ Upholds(s, b) /\ Asserting(b, c) /\ b.qhead = Len(b.trail) /\ AwakeTo(b, Len(b.trail))
  BY BackIs
<1>2. Seeks(t, a) /\ Upholds(b, t) /\ AwakeTo(t, t.qhead)
  BY <1>1, LearnUnit, LearnClause
<1> QED BY <1>1, <1>2, UpholdsTwice

-----------------------------------------------------------------------------
(* The steps of search().                                                  *)

\* Clauses mention released variables, which have a value for good, only by
\* the literals that are true.
Pure(s) == ReleasedOK(s) /\ Within(s, PureLits(s))

\* What a released variable's literals are.
LEMMA ReleasedTrue ==
  ASSUME NEW s, Books(s), ReleasedOK(s), NEW p \in AllLits, InReleased(s, p[1]), True(s, p), Usable(s, p)
  PROVE  AtRoot(s, p)
<1>1. PICK i \in 1..Len(s.released) : s.released[i] = p[1]
  BY DEF InReleased
<1>2. PICK j \in 1..Len(s.trail) : s.trail[j][1] = p[1] /\ Lv(s, j) = 0
  BY <1>1 DEF ReleasedOK
<1>3. OnTrail(s, p)
  BY TrueIsOnTrail
<1>4. PICK k \in 1..Len(s.trail) : s.trail[k] = p
  BY <1>3 DEF OnTrail
<1>5. k = j
  BY <1>2, <1>4, BooksAre DEF TrailOK
<1> QED BY <1>2, <1>4, <1>5 DEF AtRoot

\* What is upheld stays pure.
LEMMA UpholdsPure ==
  ASSUME NEW s, Books(s), NEW t, Books(t), Upholds(s, t), Pure(s)
  PROVE  Pure(t)
<1>1. Typed(s) /\ Typed(t) /\ ReleasedOK(s) /\ Within(s, PureLits(s))
  BY BooksAre DEF Pure
<1>2. /\ t.ok = s.ok /\ t.nextVar = s.nextVar /\ t.free = s.free /\ t.released = s.released
      /\ (\A p : AtRoot(s, p) => AtRoot(t, p)) /\ \A L : Within(s, L) => Within(t, L)
  BY DEF Upholds
<1>3. ReleasedOK(t)
  <2>1. Distinct(t.released)
    BY <1>1, <1>2 DEF ReleasedOK
  <2>2. ASSUME NEW i \in 1..Len(t.released)
        PROVE  \E j \in 1..Len(t.trail) : t.trail[j][1] = t.released[i] /\ Lv(t, j) = 0
    <3>1. PICK j \in 1..Len(s.trail) : s.trail[j][1] = s.released[i] /\ Lv(s, j) = 0
      BY <1>1, <1>2, <2>2 DEF ReleasedOK
    <3>2. PICK p : p = s.trail[j]
      OBVIOUS
    <3>3. AtRoot(s, p)
      BY <3>1, <3>2 DEF AtRoot
    <3>4. AtRoot(t, p)
      BY <1>2, <3>3
    <3> QED BY <1>2, <3>1, <3>2, <3>4 DEF AtRoot
  <2> QED BY <2>1, <2>2 DEF ReleasedOK
<1>4. ASSUME NEW p \in PureLits(s) PROVE p \in PureLits(t)
  <2>1. p \in AllLits /\ Usable(s, p) /\ (InReleased(s, p[1]) => True(s, p))
    BY <1>4 DEF PureLits
  <2>2. Usable(t, p)
    BY <1>2, <2>1 DEF Usable, IsFree
  <2>3. ASSUME InReleased(t, p[1]) PROVE True(t, p)
    <3>1. InReleased(s, p[1])
      BY <1>2, <2>3 DEF InReleased
    <3>2. AtRoot(s, p)
      BY <1>1, <2>1, <3>1, ReleasedTrue
    <3>3. OnTrail(t, p)
      BY <1>2, <3>2 DEF AtRoot, OnTrail
    <3> QED BY <2>1, <2>2, <3>3, TrueIsOnTrail
  <2> QED BY <2>1, <2>2, <2>3 DEF PureLits
<1>5. Within(t, PureLits(t))
  <2>1. Within(t, PureLits(s))
    BY <1>1, <1>2
  <2> QED BY <1>4, <2>1 DEF Within
<1> QED BY <1>3, <1>5 DEF Pure

\* What one step of the search does to the clauses: all models stay, released
\* variables may become free, and nothing else is mentioned than before.
Carries(s, t) ==
  /\ t.nextVar = s.nextVar /\ (t.ok => s.ok)
  /\ \A v : IsFree(t, v) => IsFree(s, v) \/ (s.ok /\ InReleased(s, v))
  /\ \A v : InReleased(t, v) => InReleased(s, v)
  /\ \A m \in Models : s.ok /\ Means(s, m) => t.ok /\ Means(t, m)
  /\ \A L : Within(s, L) => Within(t, L)
  /\ \A lits : s.ok /\ t.ok /\ Keeping(s, lits) =>
       Keeping(t, lits) \/ \E p \in lits : InReleased(s, p[1])

\* Upholding is one way of carrying on.
LEMMA UpholdsCarries ==
  ASSUME NEW s, NEW t, Upholds(s, t)
  PROVE  Carries(s, t)
<1>1. /\ t.ok = s.ok /\ t.nextVar = s.nextVar /\ t.free = s.free /\ t.released = s.released
      /\ Preserves(s, t) /\ (\A L : Within(s, L) => Within(t, L)) /\ \A lits : Keeping(s, lits) => Keeping(t, lits)
  BY DEF Upholds
<1>2. \A m \in Models : s.ok /\ Means(s, m) => t.ok /\ Means(t, m)
  BY <1>1 DEF Preserves
<1>3. \A v : IsFree(t, v) => IsFree(s, v)
  BY <1>1 DEF IsFree
<1>4. \A v : InReleased(t, v) => InReleased(s, v)
  BY <1>1 DEF InReleased
<1> QED BY <1>1, <1>2, <1>3, <1>4 DEF Carries

\* Carrying on twice is carrying on.
LEMMA CarriesTwice ==
  ASSUME NEW s, NEW u, NEW t, Carries(s, u), Carries(u, t)
  PROVE  Carries(s, t)
<1>1. /\ u.nextVar = s.nextVar /\ (u.ok => s.ok)
      /\ (\A v : IsFree(u, v) => IsFree(s, v) \/ (s.ok /\ InReleased(s, v)))
      /\ (\A v : InReleased(u, v) => InReleased(s, v))
      /\ (\A m \in Models : s.ok /\ Means(s, m) => u.ok /\ Means(u, m))
      /\ (\A L : Within(s, L) => Within(u, L))
      /\ (\A lits : s.ok /\ u.ok /\ Keeping(s, lits) => Keeping(u, lits) \/ \E p \in lits : InReleased(s, p[1]))
  BY DEF Carries
<1>2. /\ t.nextVar = u.nextVar /\ (t.ok => u.ok)
      /\ (\A v : IsFree(t, v) => IsFree(u, v) \/ (u.ok /\ InReleased(u, v)))
      /\ (\A v : InReleased(t, v) => InReleased(u, v))
      /\ (\A m \in Models : u.ok /\ Means(u, m) => t.ok /\ Means(t, m))
      /\ (\A L : Within(u, L) => Within(t, L))
      /\ (\A lits : u.ok /\ t.ok /\ Keeping(u, lits) => Keeping(t, lits) \/ \E p \in lits : InReleased(u, p[1]))
  BY DEF Carries
<1>3. t.nextVar = s.nextVar /\ (t.ok => s.ok)
  BY <1>1, <1>2
<1>4. \A v : IsFree(t, v) => IsFree(s, v) \/ (s.ok /\ InReleased(s, v))
  BY <1>1, <1>2
<1>5. \A v : InReleased(t, v) => InReleased(s, v)
  BY <1>1, <1>2
<1>6. \A m \in Models : s.ok /\ Means(s, m) => t.ok /\ Means(t, m)
  BY <1>1, <1>2
<1>7. \A L : Within(s, L) => Within(t, L)
  BY <1>1, <1>2
<1>8. ASSUME NEW lits, s.ok, t.ok, Keeping(s, lits) PROVE Keeping(t, lits) \/ \E p \in lits : InReleased(s, p[1])
  BY <1>1, <1>2, <1>8
<1> QED BY <1>3, <1>4, <1>5, <1>6, <1>7, <1>8 DEF Carries

\* The assumptions are about variables in use.
Asks(s, a) == a \in Seq(AllLits) /\ \A i \in 1..Len(a) : Usable(s, a[i]) /\ (s.ok => ~InReleased(s, a[i][1]))

\* A question stays one.
LEMMA CarriesAsks ==
  ASSUME NEW s, NEW t, Carries(s, t), NEW a, Asks(s, a), s.ok
  PROVE  Asks(t, a)
<1> SUFFICES ASSUME NEW i \in 1..Len(a) PROVE Usable(t, a[i]) /\ ~InReleased(t, a[i][1])
  BY DEF Asks
<1>1. Usable(s, a[i]) /\ ~InReleased(s, a[i][1])
  BY DEF Asks
<1>2. ~InReleased(t, a[i][1])
  BY <1>1 DEF Carries
<1>3. t.nextVar = s.nextVar /\ (IsFree(t, a[i][1]) => IsFree(s, a[i][1]) \/ InReleased(s, a[i][1]))
  BY DEF Carries
<1>4. Usable(t, a[i])
  BY <1>1, <1>3 DEF Usable
<1> QED BY <1>2, <1>4

\* reduceDB() removes no clause that is a reason, and none that was added.
LEMMA ReduceSeeks ==
  ASSUME NEW s, NEW a, Seeks(s, a), NEW rs, rs \subseteq Removable(s), NEW t, t = RemoveClauses(s, rs)
  PROVE  /\ Seeks(t, a) /\ Upholds(s, t) /\ t.trail = s.trail /\ t.lim = s.lim /\ t.qhead = s.qhead
         /\ \A n : AwakeTo(s, n) => AwakeTo(t, n)
<1>1. Books(s) /\ WatchesOK(s) /\ DecisionsOK(s) /\ AssumedOK(s, a) /\ Typed(s)
  BY BooksAre DEF Seeks
<1>2. rs \subseteq s.learnts /\ (\A r \in rs : ~Locked(s, r)) /\ rs \subseteq DOMAIN s.clause
  BY <1>1, TypedIs DEF Removable
<1>3. Books(t) /\ WatchesOK(t) /\ Removes(s, t, rs)
  BY <1>1, <1>2, RemoveClausesIs
<1>4. /\ Preserves(s, t) /\ (\A n : AwakeTo(s, n) => AwakeTo(t, n))
      /\ \A p : (OnTrail(t, p) <=> OnTrail(s, p)) /\ (AtRoot(t, p) <=> AtRoot(s, p)) /\ (Usable(t, p) <=> Usable(s, p))
      /\ \A v : (Open(t, v) <=> Open(s, v))
      /\ \A i : Lv(t, i) = Lv(s, i)
  BY <1>3, RemovesKeeps
<1>5. /\ DOMAIN t.clause = DOMAIN s.clause \ rs /\ t.learnts = s.learnts \ rs
      /\ \A x \in DOMAIN t.clause : t.clause[x] = s.clause[x]
      /\ t.trail = s.trail /\ t.lim = s.lim /\ t.qhead = s.qhead /\ t.reason = s.reason
      /\ t.ok = s.ok /\ t.nextVar = s.nextVar /\ t.released = s.released /\ t.free = s.free
      /\ \A L : Within(s, L) => Within(t, L)
  BY <1>2, <1>3 DEF Removes
<1>6. DecisionsOK(t) /\ AssumedOK(t, a)
  BY <1>1, <1>4, <1>5 DEF DecisionsOK, AssumedOK
<1>7. Originals(t) = Originals(s)
  BY <1>2, <1>5 DEF Originals
<1>8. ASSUME NEW lits, Keeping(s, lits) PROVE Keeping(t, lits)
  <2>1. CASE \E p \in lits : Neg(p) \in lits
    BY <2>1 DEF Keeping
  <2>2. CASE \E p \in lits : AtRoot(s, p)
    BY <1>4, <2>2 DEF Keeping
  <2>3. CASE \E r \in Originals(s) : \A k \in 1..Len(s.clause[r]) : s.clause[r][k] \in lits
    <3>1. PICK r \in Originals(s) : \A k \in 1..Len(s.clause[r]) : s.clause[r][k] \in lits
      BY <2>3
    <3>2. r \in Originals(t) /\ t.clause[r] = s.clause[r]
      BY <1>5, <1>7 DEF Originals
    <3> QED BY <3>1, <3>2 DEF Keeping
  <2> QED BY <1>8, <2>1, <2>2, <2>3 DEF Keeping
<1>9. Upholds(s, t)
  BY <1>4, <1>5, <1>8 DEF Upholds
<1> QED BY <1>3, <1>4, <1>5, <1>6, <1>9 DEF Seeks

-----------------------------------------------------------------------------
(* Decisions.                                                              *)

\* The levels for assumptions that hold already.
LEMMA LevelsSeeks ==
  ASSUME NEW s, NEW a, Seeks(s, a), Asks(s, a), s.qhead = Len(s.trail), AwakeTo(s, Len(s.trail)), NEW t, t = LevelsFor(s, a)
  PROVE  /\ Seeks(t, a) /\ Upholds(s, t) /\ t.qhead = Len(t.trail) /\ AwakeTo(t, Len(t.trail)) /\ t.heap = s.heap
         /\ ~(Level(t) < Len(a) /\ True(t, a[Level(t) + 1]))
<1>1. Books(s) /\ WatchesOK(s) /\ DecisionsOK(s) /\ AssumedOK(s, a) /\ Typed(s)
  BY BooksAre DEF Seeks
<1>2. a \in Seq(AllLits) /\ \A i \in 1..Len(a) : Usable(s, a[i])
  BY DEF Asks
<1>3. Leveled(s, a, t) /\ ~(Level(t) < Len(a) /\ True(t, a[Level(t) + 1]))
  BY <1>1, <1>2, LeveledIs
<1>4. /\ Books(t) /\ DecisionsOK(t) /\ AssumedOK(t, a)
      /\ t.clause = s.clause /\ t.learnts = s.learnts /\ t.watches = s.watches /\ t.trail = s.trail
      /\ t.qhead = s.qhead /\ t.level = s.level
      /\ t.heap = s.heap /\ t.ok = s.ok /\ t.nextVar = s.nextVar
      /\ t.released = s.released /\ t.free = s.free
      /\ WatchesOK(t)
      /\ \A n \in 0..Len(s.trail) : AwakeTo(s, n) => AwakeTo(t, n)
  BY <1>1, <1>3 DEF Leveled
<1>5. \A p : AtRoot(t, p) <=> AtRoot(s, p)
  BY <1>4 DEF AtRoot, Lv
<1>6. Upholds(s, t)
  BY <1>4, <1>5, UpholdsSame
<1>7. Len(s.trail) \in 0..Len(s.trail)
  BY <1>1, TypedIs
<1>8. AwakeTo(t, Len(t.trail))
  BY <1>4, <1>7
<1> QED BY <1>3, <1>4, <1>6, <1>8 DEF Seeks

\* p may be decided: it is the assumption if there is one for the level.
Decidable(s, a, p) ==
  p \in AllLits /\ Usable(s, p) /\ Open(s, p[1]) /\ (Len(s.lim) < Len(a) => p = a[Len(s.lim) + 1])

\* newDecisionLevel() and uncheckedEnqueue()
Decided(s, p) == Enqueue(NewDecisionLevel(s), p, NoClause)

\* A decision begins a level.
LEMMA DecideIs ==
  ASSUME NEW s, NEW a, Seeks(s, a), a \in Seq(AllLits), s.qhead = Len(s.trail), AwakeTo(s, Len(s.trail)),
         NEW p, Decidable(s, a, p), NEW t, t = Decided(s, p)
  PROVE  Seeks(t, a) /\ Upholds(s, t) /\ AwakeTo(t, t.qhead) /\ t.heap = s.heap /\ t.assigned = s.assigned \cup {p}
<1>1. Books(s) /\ WatchesOK(s) /\ DecisionsOK(s) /\ AssumedOK(s, a) /\ Typed(s) /\ LevelsOK(s)
  BY BooksAre DEF Seeks
<1>2. p \in AllLits /\ Usable(s, p) /\ Open(s, p[1]) /\ (Len(s.lim) < Len(a) => p = a[Len(s.lim) + 1])
  BY DEF Decidable
<1>3. PICK u : u = NewDecisionLevel(s)
  OBVIOUS
<1>4. OneLevelMore(s, u)
  BY <1>1, <1>3, NewLevelBooks
<1>5. /\ Books(u) /\ Grows(s, u) /\ Typed(u)
      /\ u.clause = s.clause /\ u.learnts = s.learnts /\ u.watches = s.watches /\ u.trail = s.trail
      /\ u.qhead = s.qhead /\ u.assigned = s.assigned /\ u.reason = s.reason /\ u.level = s.level
      /\ u.heap = s.heap /\ u.ok = s.ok /\ u.nextVar = s.nextVar
      /\ u.released = s.released /\ u.free = s.free
      /\ Len(u.lim) = Len(s.lim) + 1 /\ u.lim[Len(s.lim) + 1] = Len(s.trail)
      /\ \A l \in 1..Len(s.lim) : u.lim[l] = s.lim[l]
      /\ WatchesOK(u)
      /\ \A n \in 0..Len(s.trail) : AwakeTo(s, n) => AwakeTo(u, n)
  BY <1>1, <1>4, BooksAre DEF OneLevelMore
<1>6. t = Enqueue(u, p, NoClause) /\ NoClause \in Nat
  BY <1>3 DEF Decided, NoClause
<1>7. Usable(u, p) /\ Open(u, p[1])
  BY <1>2, <1>5 DEF Usable, IsFree, Open
<1>8. /\ Books(t) /\ Grows(u, t) /\ Typed(t) /\ Lv(t, Len(u.trail) + 1) = Len(u.lim) /\ WatchesOK(t)
      /\ \A n \in 0..Len(u.trail) : AwakeTo(u, n) => AwakeTo(t, n)
  BY <1>2, <1>5, <1>6, <1>7, EnqueueBooks, BooksAre
<1>20. PICK r \in Nat : r = NoClause
  BY <1>6
<1>9. /\ t.clause = u.clause /\ t.learnts = u.learnts /\ t.watches = u.watches /\ t.lim = u.lim
      /\ t.qhead = u.qhead /\ t.heap = u.heap /\ t.ok = u.ok /\ t.nextVar = u.nextVar
      /\ t.released = u.released /\ t.free = u.free
      /\ t.assigned = u.assigned \cup {p}
      /\ Len(t.trail) = Len(u.trail) + 1 /\ t.trail[Len(u.trail) + 1] = p
      /\ \A i \in 1..Len(u.trail) : t.trail[i] = u.trail[i]
  <2>1. p \in AllLits /\ Typed(u) /\ t = Enqueue(u, p, r)
    BY <1>2, <1>5, <1>6, <1>20
  <2> QED BY ONLY <2>1, r \in Nat, EnqueueFields
<1>10. PICK n \in Nat : n = Len(s.trail)
  BY <1>1, TypedIs
<1>11. PICK d \in Nat : d = Len(s.lim)
  BY <1>1, TypedIs
<1>12. \A i : Lv(u, i) = Lv(s, i)
  BY <1>5 DEF Lv
<1>13. DecisionsOK(u) /\ AssumedOnly(u, a) /\ AssumedHold(u, a, d)
  <2>1. ASSUME NEW i \in 1..Len(u.trail), u.reason[u.trail[i][1]] = NoClause, Lv(u, i) # 0
        PROVE  i = u.lim[Lv(u, i)] + 1
    <3>1. PICK l : l = Lv(s, i)
      OBVIOUS
    <3>2. l \in Nat /\ l <= d /\ l # 0
      BY <1>1, <1>5, <1>11, <1>12, <2>1, <3>1, TypedIs DEF LevelsOK
    <3>3. l \in 1..Len(s.lim)
      BY <1>11, <3>2
    <3>4. i = s.lim[l] + 1
      BY <1>1, <1>5, <1>12, <2>1, <3>1 DEF DecisionsOK
    <3> QED BY <1>5, <1>12, <3>1, <3>3, <3>4
  <2>2. AssumedOnly(u, a)
    BY <1>1, <1>5, <1>12 DEF AssumedOK, AssumedOnly
  <2>3. AssumedHold(u, a, d)
    BY <1>1, <1>5, <1>11, <1>12 DEF AssumedOK, AssumedHold
  <2> QED BY <2>1, <2>2, <2>3 DEF DecisionsOK
<1>14. Placed(u, a, p, NoClause)
  <2>1. Len(u.lim) = d + 1 /\ u.lim[d + 1] = Len(u.trail)
    BY <1>5, <1>11
  <2>2. ASSUME Len(u.lim) <= Len(a) PROVE p = a[Len(u.lim)]
    <3>1. PICK m \in Nat : m = Len(a)
      OBVIOUS
    <3>2. d < m
      BY <1>11, <2>1, <2>2, <3>1
    <3> QED BY <1>2, <1>11, <2>1, <3>1, <3>2
  <2> QED BY <2>1, <2>2 DEF Placed
<1>15. DecisionsOK(t) /\ AssumedOnly(t, a) /\ AssumedHold(t, a, d)
  BY <1>2, <1>5, <1>6, <1>7, <1>13, <1>14, EnqueueDecided
<1>16. AssumedOK(t, a)
  <2>1. ASSUME NEW l \in 1..Len(t.lim), l <= Len(a) PROVE \E i \in 1..Len(t.trail) : t.trail[i] = a[l] /\ Lv(t, i) <= l
    <3>1. Len(t.lim) = d + 1
      BY <1>5, <1>9, <1>11
    <3>2. CASE l \in 1..d
      BY <1>15, <2>1, <3>2 DEF AssumedHold
    <3>3. CASE l = d + 1
      <4>1. PICK m \in Nat : m = Len(a)
        OBVIOUS
      <4>2. d < m
        BY <1>11, <2>1, <3>3, <4>1
      <4>3. p = a[l]
        BY <1>2, <1>11, <3>3, <4>1, <4>2
      <4>4. n + 1 \in 1..Len(t.trail) /\ t.trail[n + 1] = p /\ Lv(t, n + 1) = d + 1
        BY <1>5, <1>8, <1>9, <1>10, <1>11
      <4> QED BY <3>3, <4>3, <4>4
    <3> QED BY <1>11, <2>1, <3>1, <3>2, <3>3
  <2> QED BY <1>15, <2>1 DEF AssumedOK, AssumedOnly
<1>17. AwakeTo(t, t.qhead)
  <2>1. t.qhead = n /\ n \in 0..Len(s.trail) /\ n \in 0..Len(u.trail) /\ AwakeTo(s, n)
    BY <1>5, <1>9, <1>10
  <2> QED BY <1>5, <1>8, <2>1
<1>18. Grows(s, t)
  BY <1>1, <1>5, <1>8, GrowsTwice
<1>19. Upholds(s, t)
  <2>1. Originals(t) = Originals(s)
    BY <1>5, <1>9 DEF Originals
  <2>2. \A lits : Keeping(s, lits) => Keeping(t, lits)
    BY <1>1, <1>8, <1>18, <2>1, GrowsKeeping
  <2>3. \A q : AtRoot(s, q) => AtRoot(t, q)
    BY <1>1, <1>8, <1>18, GrowsIs
  <2>4. Preserves(s, t)
    <3> SUFFICES ASSUME NEW m \in Models, Means(s, m) PROVE Means(t, m)
      BY DEF Preserves
    <3>1. t.clause = s.clause
      BY <1>5, <1>9
    <3>2. ASSUME NEW i \in 1..Len(t.trail), Lv(t, i) = 0 PROVE t.trail[i] \in m
      <4>1. i \in 1..Len(s.trail) \/ i = n + 1
        BY <1>5, <1>9, <1>10
      <4>2. CASE i \in 1..Len(s.trail)
        BY <1>18, <3>2, <4>2 DEF Grows, Means
      <4>3. CASE i = n + 1
        BY <1>5, <1>8, <1>10, <1>11, <3>2, <4>3
      <4> QED BY <4>1, <4>2, <4>3
    <3> QED BY <3>1, <3>2 DEF Means
  <2>5. \A L : Within(s, L) => Within(t, L)
    BY <1>5, <1>9 DEF Within
  <2> QED BY <1>5, <1>9, <2>2, <2>3, <2>4, <2>5 DEF Upholds
<1> QED BY <1>5, <1>8, <1>9, <1>15, <1>16, <1>17, <1>19 DEF Seeks

\* What a decision changes.
DecidedFields(s, p, t) ==
  /\ t \in SolverType
  /\ t.clause = s.clause /\ t.learnts = s.learnts /\ t.watches = s.watches /\ t.qhead = s.qhead
  /\ t.ok = s.ok /\ t.nextVar = s.nextVar /\ t.released = s.released /\ t.free = s.free /\ t.heap = s.heap
  /\ t.assigned = s.assigned \cup {p}
  /\ t.trail = Append(s.trail, p) /\ t.lim = Append(s.lim, Len(s.trail))
  /\ t.reason = [s.reason EXCEPT ![p[1]] = NoClause]
  /\ t.level = [s.level EXCEPT ![p[1]] = Len(Append(s.lim, Len(s.trail)))]

\* What a decision assigns.
LEMMA DecidedIs ==
  ASSUME NEW s \in SolverType, NEW p \in AllLits, NEW t, t = Decided(s, p)
  PROVE  DecidedFields(s, p, t)
<1>1. /\ s.lim \in Seq(Nat) /\ s.trail \in Seq(AllLits) /\ s.reason \in [Vars -> Nat] /\ s.level \in [Vars -> Nat]
      /\ s.assigned \in SUBSET AllLits /\ Len(s.trail) \in Nat /\ p[1] \in Vars /\ NoClause \in Nat
  BY Literals DEF SolverType, NoClause
<1>2. PICK u : u = NewDecisionLevel(s)
  OBVIOUS
<1>3. PICK q : q = Append(s.lim, Len(s.trail))
  OBVIOUS
<1>4. q \in Seq(Nat) /\ Len(q) \in Nat
  BY <1>1, <1>3
<1>5. u = [s EXCEPT !.lim = q]
  BY <1>1, <1>2, <1>3 DEF NewDecisionLevel, SolverType
<1>6. u \in SolverType
  BY <1>4, <1>5 DEF SolverType
<1>7. /\ u.clause = s.clause /\ u.learnts = s.learnts /\ u.watches = s.watches /\ u.trail = s.trail /\ u.lim = q
      /\ u.qhead = s.qhead /\ u.assigned = s.assigned /\ u.reason = s.reason /\ u.level = s.level
      /\ u.heap = s.heap /\ u.ok = s.ok /\ u.nextVar = s.nextVar
      /\ u.released = s.released /\ u.free = s.free
  BY <1>5 DEF SolverType
<1>8. PICK tr : tr = Append(s.trail, p)
  OBVIOUS
<1>9. PICK a : a = s.assigned \cup {p}
  OBVIOUS
<1>10. PICK f : f = [s.reason EXCEPT ![p[1]] = NoClause]
  OBVIOUS
<1>11. PICK g : g = [s.level EXCEPT ![p[1]] = Len(q)]
  OBVIOUS
<1>12. a \in SUBSET AllLits /\ f \in [Vars -> Nat] /\ g \in [Vars -> Nat] /\ tr \in Seq(AllLits)
  BY <1>1, <1>4, <1>8, <1>9, <1>10, <1>11
<1>13. t = [u EXCEPT !.assigned = a, !.trail = tr, !.reason = f, !.level = g]
  <2>1. t = Enqueue(u, p, NoClause)
    BY <1>2 DEF Decided
  <2> QED BY <1>6, <1>7, <1>8, <1>9, <1>10, <1>11, <2>1 DEF Enqueue, Level, SolverType
<1>14. t \in SolverType
  BY <1>6, <1>12, <1>13 DEF SolverType
<1>15. /\ t.clause = u.clause /\ t.learnts = u.learnts /\ t.watches = u.watches /\ t.lim = u.lim
       /\ t.qhead = u.qhead /\ t.heap = u.heap /\ t.ok = u.ok /\ t.nextVar = u.nextVar
       /\ t.released = u.released /\ t.free = u.free
       /\ t.assigned = a /\ t.trail = tr /\ t.reason = f /\ t.level = g
  BY <1>6, <1>13 DEF SolverType
<1> QED BY <1>3, <1>7, <1>8, <1>9, <1>10, <1>11, <1>14, <1>15 DEF DecidedFields

\* y is t but for the heap, which is h.
Reheaped(t, y, h) ==
  /\ y.clause = t.clause /\ y.learnts = t.learnts /\ y.watches = t.watches /\ y.trail = t.trail /\ y.lim = t.lim
  /\ y.qhead = t.qhead /\ y.assigned = t.assigned /\ y.reason = t.reason /\ y.level = t.level
  /\ y.nextVar = t.nextVar /\ y.free = t.free /\ y.ok = t.ok /\ y.released = t.released
  /\ y.heap = h /\ y \in SolverType

\* Another heap disturbs nothing else.
LEMMA ReheapedIs ==
  ASSUME NEW s \in SolverType, NEW h \in SUBSET Vars, NEW w, w = [s EXCEPT !.heap = h]
  PROVE  Reheaped(s, w, h)
<1>1. w \in SolverType
  BY DEF SolverType
<1>2. /\ w.clause = s.clause /\ w.learnts = s.learnts /\ w.watches = s.watches /\ w.trail = s.trail /\ w.lim = s.lim
      /\ w.qhead = s.qhead /\ w.assigned = s.assigned /\ w.reason = s.reason /\ w.level = s.level
      /\ w.nextVar = s.nextVar /\ w.free = s.free /\ w.ok = s.ok /\ w.released = s.released
      /\ w.heap = h
  BY DEF SolverType
<1> QED BY <1>1, <1>2 DEF Reheaped

\* pickBranchLit() takes variables from the heap before the decision.
LEMMA HeapLater ==
  ASSUME NEW s \in SolverType, NEW h, NEW p \in AllLits, NEW t, t = Decided(s, p),
         NEW w, Reheaped(s, w, h), NEW y, y = Decided(w, p)
  PROVE  Reheaped(t, y, h)
<1>1. w \in SolverType
  BY DEF Reheaped
<1>2. DecidedFields(s, p, t) /\ DecidedFields(w, p, y)
  BY <1>1, DecidedIs
<1> QED BY <1>2 DEF DecidedFields, Reheaped

\* Heap h has what is open.
HeapFor(t, h) == (\A v \in 0..(t.nextVar - 1) : Open(t, v) => v \in h) /\ (\A v \in h : v < t.nextVar)

\* A search goes on with another heap that has what is open.
LEMMA ReheapedSeeks ==
  ASSUME NEW t, NEW a, Seeks(t, a), NEW h \in SUBSET Vars, HeapFor(t, h), NEW y, Reheaped(t, y, h)
  PROVE  Seeks(y, a) /\ Upholds(t, y) /\ y.qhead = t.qhead /\ y.trail = t.trail /\ y.lim = t.lim /\ y.assigned = t.assigned
         /\ \A n : AwakeTo(t, n) => AwakeTo(y, n)
<1>1. Books(t) /\ WatchesOK(t) /\ DecisionsOK(t) /\ AssumedOK(t, a) /\ Typed(t) /\ HeapOK(t)
  BY BooksAre DEF Seeks
<1>2. t \in SolverType /\ t.learnts \subseteq DOMAIN t.clause
  BY <1>1 DEF Typed
<1>3. /\ y.clause = t.clause /\ y.learnts = t.learnts /\ y.watches = t.watches /\ y.trail = t.trail /\ y.lim = t.lim
      /\ y.qhead = t.qhead /\ y.assigned = t.assigned /\ y.reason = t.reason /\ y.level = t.level
      /\ y.nextVar = t.nextVar /\ y.free = t.free /\ y.ok = t.ok /\ y.released = t.released
      /\ y.heap = h /\ y \in SolverType
  BY DEF Reheaped
<1>5. HeapOK(y)
  BY <1>1, <1>3 DEF HeapOK, HeapFor, Open
<1>6. Similar(t, y)
  BY <1>2, <1>3, <1>5 DEF Similar
<1>7. InCommon(t, y)
  BY <1>1, <1>6, SimilarBooks
<1>8. /\ Books(y) /\ WatchesOK(y) /\ (\A n : AwakeTo(t, n) => AwakeTo(y, n)) /\ \A p : AtRoot(y, p) <=> AtRoot(t, p)
  BY <1>1, <1>7 DEF InCommon
<1>9. Upholds(t, y)
  BY <1>3, <1>8, UpholdsSame
<1>10. \A i : Lv(y, i) = Lv(t, i)
  BY <1>3 DEF Lv
<1>11. DecisionsOK(y) /\ AssumedOK(y, a)
  BY <1>1, <1>3, <1>10 DEF DecisionsOK, AssumedOK
<1> QED BY <1>3, <1>8, <1>9, <1>11 DEF Seeks

\* pickBranchLit() and the decision.
LEMMA BranchIs ==
  ASSUME NEW s, NEW a, Seeks(s, a), a \in Seq(AllLits), s.qhead = Len(s.trail), AwakeTo(s, Len(s.trail)),
         Level(s) >= Len(a), NEW v \in s.heap, Open(s, v), NEW b \in BOOLEAN,
         NEW h, h = {x \in s.heap \ {v} : Open(s, x)}, NEW y, y = Decided([s EXCEPT !.heap = h], <<v, b>>)
  PROVE  Seeks(y, a) /\ Upholds(s, y) /\ AwakeTo(y, y.qhead)
<1>1. Books(s) /\ Typed(s) /\ HeapOK(s) /\ FreeOK(s) /\ s \in SolverType /\ s.heap \subseteq Vars
  BY BooksAre, TypedIs DEF Seeks
<1>2. PICK p : p = <<v, b>>
  OBVIOUS
<1>3. p \in AllLits /\ p[1] = v /\ h \in SUBSET Vars
  BY <1>1, <1>2 DEF AllLits, LitsOf
<1>4. Usable(s, p)
  BY <1>1, <1>3 DEF Usable, IsFree, FreeOK, HeapOK
<1>5. Len(s.lim) < Len(a) => p = a[Len(s.lim) + 1]
  <2>1. PICK m \in Nat : m = Len(s.lim)
    BY <1>1, TypedIs
  <2>2. PICK n \in Nat : n = Len(a)
    OBVIOUS
  <2>3. ~(m < n)
    BY <2>1, <2>2 DEF Level
  <2> QED BY <2>1, <2>2, <2>3
<1>6. Decidable(s, a, p)
  BY <1>3, <1>4, <1>5 DEF Decidable
<1>7. PICK t : t = Decided(s, p)
  OBVIOUS
<1>8. Seeks(t, a) /\ Upholds(s, t) /\ AwakeTo(t, t.qhead) /\ t.heap = s.heap /\ t.assigned = s.assigned \cup {p}
  BY <1>6, <1>7, DecideIs
<1>9. y = Decided([s EXCEPT !.heap = h], p)
  BY <1>2
<1>10. Reheaped(t, y, h)
  <2>1. PICK w : w = [s EXCEPT !.heap = h]
    OBVIOUS
  <2>2. Reheaped(s, w, h) /\ y = Decided(w, p)
    BY <1>1, <1>3, <1>9, <2>1, ReheapedIs
  <2> QED BY <1>1, <1>3, <1>7, <2>2, HeapLater
<1>11. t.nextVar = s.nextVar
  BY <1>8 DEF Upholds
<1>12. ASSUME NEW x \in 0..(t.nextVar - 1), Open(t, x) PROVE x \in h
  <2>1. p \in t.assigned /\ p \in LitsOf({v})
    BY <1>2, <1>8 DEF LitsOf
  <2>2. x # v
    BY <1>12, <2>1 DEF Open
  <2>3. Open(s, x)
    BY <1>8, <1>12 DEF Open
  <2>4. x \in s.heap
    BY <1>1, <1>11, <1>12, <2>3 DEF HeapOK
  <2> QED BY <2>2, <2>3, <2>4
<1>13. \A x \in h : x < t.nextVar
  BY <1>1, <1>11 DEF HeapOK
<1>16. HeapFor(t, h)
  BY <1>12, <1>13 DEF HeapFor
<1>14. /\ Seeks(y, a) /\ Upholds(t, y) /\ y.qhead = t.qhead /\ y.trail = t.trail /\ y.lim = t.lim /\ y.assigned = t.assigned
       /\ \A n : AwakeTo(t, n) => AwakeTo(y, n)
  <2>1. h \in SUBSET Vars /\ Seeks(t, a) /\ HeapFor(t, h) /\ Reheaped(t, y, h)
    BY <1>3, <1>8, <1>10, <1>16
  <2> QED BY ONLY <2>1, ReheapedSeeks
<1>15. Upholds(s, y)
  BY <1>8, <1>14, UpholdsTwice
<1> QED BY <1>8, <1>14, <1>15

-----------------------------------------------------------------------------
(* The end of a search.                                                    *)

\* solve_() returns: the solver goes back to level 0, and is no longer ok unless b.
Finished(s, b) == [CancelUntil(s, 0) EXCEPT !.ok = @ /\ b]

NoModels(s) == \A m \in Models : ~Means(s, m)

\* The end of solve_(): back to level 0, and not ok if there are no models.
LEMMA FinishIs ==
  ASSUME NEW s, NEW a, Seeks(s, a), s.qhead = Len(s.trail), NEW b \in BOOLEAN,
         b /\ s.ok => AwakeTo(s, Len(s.trail)), b \/ ~s.ok \/ NoModels(s), s.ok => Pure(s),
         NEW t, t = Finished(s, b)
  PROVE  Resting(t) /\ (t.ok => Pure(t)) /\ Carries(s, t) /\ (t.ok <=> s.ok /\ b)
<1>1. Books(s) /\ WatchesOK(s) /\ DecisionsOK(s) /\ AssumedOK(s, a) /\ Typed(s) /\ s.ok \in BOOLEAN
  BY BooksAre, TypedIs DEF Seeks
<1>2. PICK v : v = CancelUntil(s, 0)
  OBVIOUS
<1>3. 0 \in Nat
  OBVIOUS
<1>4. Seeks(v, a) /\ Upholds(s, v)
  BY <1>2, <1>3, CancelSeeks
<1>5. Cancelled(s, 0, v)
  BY <1>1, <1>2, <1>3, CancelBooks
<1>6. Books(v) /\ WatchesOK(v) /\ Typed(v) /\ v.ok = s.ok /\ v \in SolverType
  BY <1>1, <1>4, BooksAre DEF Seeks, Upholds, Typed
<1>7. PICK o \in BOOLEAN : o = (v.ok /\ b)
  BY <1>1, <1>6
<1>8. t = [v EXCEPT !.ok = o]
  BY <1>2, <1>7 DEF Finished
<1>9. t \in SolverType
  BY <1>6, <1>8 DEF SolverType
<1>10. /\ t.clause = v.clause /\ t.learnts = v.learnts /\ t.watches = v.watches /\ t.trail = v.trail /\ t.lim = v.lim
       /\ t.qhead = v.qhead /\ t.assigned = v.assigned /\ t.reason = v.reason /\ t.level = v.level /\ t.heap = v.heap
       /\ t.nextVar = v.nextVar /\ t.free = v.free /\ t.ok = o /\ t.released = v.released
  BY <1>6, <1>8 DEF SolverType
<1>11. Alike(v, t)
  BY <1>10 DEF Alike
<1>12. /\ Books(t) /\ (WatchesOK(v) => WatchesOK(t)) /\ (\A n : AwakeTo(v, n) => AwakeTo(t, n))
       /\ Grows(v, t)
       /\ (\A p : AtRoot(t, p) <=> AtRoot(v, p))
       /\ (\A m : Means(v, m) <=> Means(t, m))
       /\ (\A L : Within(v, L) => Within(t, L))
       /\ (\A x : Open(t, x) <=> Open(v, x))
       /\ (\A p : Usable(t, p) <=> Usable(v, p))
  BY <1>6, <1>9, <1>11, AlikeBooks
<1>13. t.ok <=> s.ok /\ b
  BY <1>6, <1>7, <1>10
<1>14. Len(v.lim) = 0 /\ v.qhead = Len(v.trail)
  <2>1. PICK n \in Nat : n = Len(s.lim)
    BY <1>1, TypedIs
  <2>2. CASE n > 0
    BY <1>5, <2>1, <2>2 DEF Cancelled
  <2>3. CASE n = 0
    <3>1. v = s
      BY <1>5, <2>1, <2>3 DEF Cancelled
    <3> QED BY <2>1, <2>3, <3>1
  <2> QED BY <2>1, <2>2, <2>3
<1>15. ASSUME t.ok PROVE AwakeTo(t, Len(t.trail))
  <2>1. AwakeTo(s, Len(s.trail))
    BY <1>13, <1>15
  <2>2. PICK n \in Nat : n = Len(s.lim)
    BY <1>1, TypedIs
  <2>3. CASE n > 0
    <3>1. Bottom(s) \in 0..Len(s.trail) /\ Len(s.trail) \in Nat
      BY <1>1, BottomIs, TypedIs
    <3>2. AwakeTo(s, Bottom(s))
      BY <2>1, <3>1 DEF AwakeTo
    <3>3. AwakeTo(v, Len(v.trail))
      BY <1>5, <2>2, <2>3, <3>2 DEF Cancelled
    <3> QED BY <1>10, <1>12, <3>3
  <2>4. CASE n = 0
    <3>1. v = s
      BY <1>5, <2>2, <2>4 DEF Cancelled
    <3> QED BY <1>10, <1>12, <2>1, <3>1
  <2> QED BY <2>2, <2>3, <2>4
<1>16. Resting(t)
  BY <1>6, <1>10, <1>12, <1>14, <1>15 DEF Resting
<1>17. ASSUME t.ok PROVE Pure(t)
  <2>1. Pure(v)
    BY <1>1, <1>4, <1>6, <1>13, <1>17, UpholdsPure
  <2>2. ReleasedOK(t)
    BY <1>10, <2>1 DEF Pure, ReleasedOK, Lv
  <2>3. \A p \in PureLits(v) : p \in PureLits(t)
    BY <1>10, <1>12 DEF PureLits, InReleased, True
  <2>4. Within(t, PureLits(v))
    BY <1>12, <2>1 DEF Pure
  <2> QED BY <2>2, <2>3, <2>4 DEF Pure, Within
<1>18. /\ v.nextVar = s.nextVar /\ v.free = s.free /\ v.released = s.released
       /\ Preserves(s, v) /\ (\A L : Within(s, L) => Within(v, L)) /\ \A lits : Keeping(s, lits) => Keeping(v, lits)
  BY <1>4 DEF Upholds
<1>19. \A m \in Models : s.ok /\ Means(s, m) => t.ok /\ Means(t, m)
  BY <1>12, <1>13, <1>18 DEF Preserves, NoModels
<1>20. \A x : (IsFree(t, x) => IsFree(s, x)) /\ (InReleased(t, x) => InReleased(s, x))
  BY <1>10, <1>18 DEF IsFree, InReleased
<1>21. ASSUME NEW lits, Keeping(v, lits) PROVE Keeping(t, lits)
  <2>1. Originals(t) = Originals(v) /\ t.clause = v.clause
    BY <1>10 DEF Originals
  <2> QED BY <1>12, <1>21, <2>1 DEF Keeping
<1>22. Carries(s, t)
  BY <1>10, <1>12, <1>13, <1>18, <1>19, <1>20, <1>21 DEF Carries
<1> QED BY <1>13, <1>16, <1>17, <1>22

\* simplify(), at level 0.
LEMMA SimplifySeeks ==
  ASSUME NEW s, NEW a, Seeks(s, a), Len(s.lim) = 0, s.ok, AwakeTo(s, Len(s.trail)), Pure(s), NEW t, t = Simplify(s)
  PROVE  /\ Seeks(t, a) /\ Pure(t) /\ t.ok /\ t.qhead = Len(t.trail) /\ AwakeTo(t, Len(t.trail)) /\ Carries(s, t)
<1>1. Books(s) /\ WatchesOK(s) /\ Typed(s)
  BY BooksAre DEF Seeks
<1>2. ReleasedOK(s) /\ Within(s, PureLits(s))
  BY DEF Pure
<1>3. /\ Books(t) /\ WatchesOK(t) /\ (\A n \in 0..Len(t.trail) : AwakeTo(t, n)) /\ SimplifiedTo(s, t)
      /\ Preserves(s, t) /\ \A L : Within(s, L) => Within(t, L)
  BY <1>1, <1>2, SimplifyIs
<1>4. Typed(t) /\ LevelsOK(t) /\ Len(t.trail) \in Nat
  BY <1>3, BooksAre, TypedIs
<1>5. /\ t.lim = s.lim /\ t.qhead = Len(t.trail) /\ t.assigned = s.assigned /\ t.ok = s.ok /\ t.nextVar = s.nextVar
      /\ Len(t.released) = 0
      /\ \A v : IsFree(t, v) <=> IsFree(s, v) \/ InReleased(s, v)
      /\ \A p : AtRoot(t, p) <=> AtRoot(s, p) /\ ~InReleased(s, p[1])
      /\ DOMAIN t.clause \subseteq DOMAIN s.clause
      /\ t.learnts = s.learnts \cap DOMAIN t.clause
      /\ \A r \in DOMAIN s.clause : r \in DOMAIN t.clause \/ \E k \in 1..Len(s.clause[r]) : AtRoot(s, s.clause[r][k])
      /\ \A r \in DOMAIN t.clause : \A k \in 1..Len(t.clause[r]) : InClause(s, r, t.clause[r][k])
  BY <1>3 DEF SimplifiedTo
<1>6. \A i \in 1..Len(t.trail) : Lv(t, i) = 0
  BY <1>3, <1>5, RootIs
<1>7. DecisionsOK(t)
  BY <1>6 DEF DecisionsOK
<1>8. AssumedOK(t, a)
  <2>1. \A l : l \notin 1..Len(t.lim)
    BY <1>5
  <2> QED BY <1>6, <2>1 DEF AssumedOK
<1>9. \A v : ~InReleased(t, v)
  <2>1. \A i : i \notin 1..Len(t.released)
    BY <1>5
  <2> QED BY <2>1 DEF InReleased
<1>10. Pure(t)
  <2>1. ReleasedOK(t)
    <3>1. \A i : i \notin 1..Len(t.released)
      BY <1>5
    <3> QED BY <3>1 DEF ReleasedOK, Distinct
  <2>2. Within(t, UsableLits(t))
    BY <1>3, BooksAre
  <2>3. \A p \in UsableLits(t) : p \in PureLits(t)
    BY <1>9 DEF UsableLits, PureLits
  <2> QED BY <2>1, <2>2, <2>3 DEF Pure, Within
<1>11. AwakeTo(t, Len(t.trail))
  BY <1>3, <1>4
<1>12. ASSUME NEW lits, Keeping(s, lits)
       PROVE  Keeping(t, lits) \/ \E p \in lits : InReleased(s, p[1])
  <2>1. ASSUME NEW p \in lits, AtRoot(s, p) PROVE Keeping(t, lits) \/ \E q \in lits : InReleased(s, q[1])
    <3>1. CASE InReleased(s, p[1])
      BY <2>1, <3>1
    <3>2. CASE ~InReleased(s, p[1])
      <4>1. AtRoot(t, p)
        BY <1>5, <2>1, <3>2
      <4> QED BY <4>1 DEF Keeping
    <3> QED BY <3>1, <3>2
  <2>2. CASE \E p \in lits : Neg(p) \in lits
    BY <2>2 DEF Keeping
  <2>3. CASE \E r \in Originals(s) : \A k \in 1..Len(s.clause[r]) : s.clause[r][k] \in lits
    <3>1. PICK r \in Originals(s) : \A k \in 1..Len(s.clause[r]) : s.clause[r][k] \in lits
      BY <2>3
    <3>2. r \in DOMAIN s.clause /\ r \notin s.learnts
      BY <3>1 DEF Originals
    <3>3. CASE r \in DOMAIN t.clause
      <4>1. r \in Originals(t)
        BY <1>5, <3>2, <3>3 DEF Originals
      <4>2. \A k \in 1..Len(t.clause[r]) : t.clause[r][k] \in lits
        BY <1>5, <3>1, <3>3 DEF InClause
      <4> QED BY <4>1, <4>2 DEF Keeping
    <3>4. CASE \E k \in 1..Len(s.clause[r]) : AtRoot(s, s.clause[r][k])
      BY <2>1, <3>1, <3>4
    <3> QED BY <1>5, <3>2, <3>3, <3>4
  <2> QED BY <1>12, <2>1, <2>2, <2>3 DEF Keeping
<1>13. \A m \in Models : s.ok /\ Means(s, m) => t.ok /\ Means(t, m)
  BY <1>3, <1>5 DEF Preserves
<1>14. Carries(s, t)
  BY <1>3, <1>5, <1>9, <1>12, <1>13 DEF Carries
<1> QED BY <1>3, <1>5, <1>7, <1>8, <1>10, <1>11, <1>14 DEF Seeks

-----------------------------------------------------------------------------
(* The phases of search().                                                 *)

\* The solver in a search under the assumptions a.
Ready(s, a) == Seeks(s, a) /\ Asks(s, a) /\ (s.ok => Pure(s))

\* The solver in each phase.
InIdle(s) == Resting(s) /\ (s.ok => Pure(s))
InPropagate(s, a) == Ready(s, a) /\ IF s.ok THEN AwakeTo(s, s.qhead) ELSE Resting(s)
InConflict(s, a, r) ==
  Ready(s, a) /\ s.ok /\ s.qhead = Len(s.trail) /\ Falsified(s, r) /\ r # NoClause /\ AwakeTo(s, Bottom(s))
InSearch(s, a) == Ready(s, a) /\ s.ok /\ s.qhead = Len(s.trail) /\ AwakeTo(s, Len(s.trail))

\* What is upheld stays ready to search.
LEMMA UpholdsReady ==
  ASSUME NEW s, NEW a, Ready(s, a), s.ok, NEW t, Seeks(t, a), Upholds(s, t)
  PROVE  Ready(t, a) /\ t.ok /\ Carries(s, t)
<1>1. Books(s) /\ Books(t) /\ Pure(s) /\ Asks(s, a)
  BY DEF Ready, Seeks
<1>2. Pure(t) /\ Carries(s, t)
  BY <1>1, UpholdsPure, UpholdsCarries
<1>3. Asks(t, a)
  BY <1>1, <1>2, CarriesAsks
<1>4. t.ok
  BY DEF Upholds
<1> QED BY <1>2, <1>3, <1>4 DEF Ready

\* solve_() begins.
LEMMA StartIs ==
  ASSUME NEW s, InIdle(s), NEW a, Asks(s, a)
  PROVE  InPropagate(s, a)
<1>1. Resting(s) /\ (s.ok => Pure(s))
  BY DEF InIdle
<1>2. Books(s) /\ WatchesOK(s) /\ Len(s.lim) = 0 /\ s.qhead = Len(s.trail) /\ (s.ok => AwakeTo(s, s.qhead))
  BY <1>1 DEF Resting
<1>3. \A i \in 1..Len(s.trail) : Lv(s, i) = 0
  BY <1>2, RootIs
<1>4. DecisionsOK(s)
  BY <1>3 DEF DecisionsOK
<1>5. AssumedOK(s, a)
  <2>1. \A l : l \notin 1..Len(s.lim)
    BY <1>2
  <2> QED BY <1>3, <2>1 DEF AssumedOK
<1>6. Seeks(s, a)
  BY <1>2, <1>4, <1>5 DEF Seeks
<1> QED BY <1>1, <1>2, <1>6 DEF InPropagate, Ready

\* The solver was not ok before the search.
LEMMA ContradictoryIs ==
  ASSUME NEW s, NEW a, InPropagate(s, a), ~s.ok, NEW t, t = Finished(s, FALSE)
  PROVE  InIdle(t) /\ Carries(s, t)
<1>1. Seeks(s, a) /\ s.qhead = Len(s.trail)
  BY DEF InPropagate, Ready, Resting
<1>2. PICK b \in BOOLEAN : b = FALSE
  OBVIOUS
<1>3. /\ b /\ s.ok => AwakeTo(s, Len(s.trail))
      /\ b \/ ~s.ok \/ NoModels(s)
      /\ s.ok => Pure(s)
      /\ t = Finished(s, b)
  BY <1>2
<1>4. Resting(t) /\ (t.ok => Pure(t)) /\ Carries(s, t) /\ (t.ok <=> s.ok /\ b)
  BY <1>1, <1>3, FinishIs
<1> QED BY <1>4 DEF InIdle

\* The top of the loop of search().
LEMMA PropagateStep ==
  ASSUME NEW s, NEW a, InPropagate(s, a), s.ok, NEW x, x = Propagate(s)
  PROVE  (IF x.confl = NoClause THEN InSearch(x.s, a) ELSE InConflict(x.s, a, x.confl)) /\ Carries(s, x.s)
<1>1. Ready(s, a) /\ AwakeTo(s, s.qhead) /\ Seeks(s, a) /\ Books(s) /\ WatchesOK(s)
  BY DEF InPropagate, Ready, Seeks
<1>2. Seeks(x.s, a) /\ Upholds(s, x.s)
  BY <1>1, PropagateSeeks
<1>3. PICK t : t = x.s
  OBVIOUS
<1>4. Ready(t, a) /\ t.ok /\ Carries(s, t)
  BY <1>1, <1>2, <1>3, UpholdsReady
<1>5. Propagating(x, s) /\ x.s.qhead = Len(x.s.trail)
  BY <1>1, PropagateIs
<1>6. (x.confl # NoClause => Falsified(t, x.confl)) /\ AwakeTo(t, IF x.confl = NoClause THEN t.qhead ELSE Bottom(t))
      /\ t.qhead = Len(t.trail)
  BY <1>1, <1>3, <1>5 DEF Propagating
<1> QED BY <1>3, <1>4, <1>6 DEF InSearch, InConflict

\* A conflict at level 0.
LEMMA RootConflictIs ==
  ASSUME NEW s, NEW a, NEW r, InConflict(s, a, r), Level(s) = 0, NEW t, t = Finished(s, FALSE)
  PROVE  InIdle(t) /\ Carries(s, t) /\ ~t.ok
<1>1. Ready(s, a) /\ Seeks(s, a) /\ Books(s) /\ s.ok /\ s.qhead = Len(s.trail) /\ Falsified(s, r) /\ Pure(s) /\ Len(s.lim) = 0
  BY DEF InConflict, Ready, Seeks, Level
<1>2. NoModels(s)
  BY <1>1, RootFalse DEF NoModels
<1>3. PICK b \in BOOLEAN : b = FALSE
  OBVIOUS
<1>4. /\ b /\ s.ok => AwakeTo(s, Len(s.trail))
      /\ b \/ ~s.ok \/ NoModels(s)
      /\ s.ok => Pure(s)
      /\ t = Finished(s, b)
  BY <1>1, <1>2, <1>3
<1>5. Resting(t) /\ (t.ok => Pure(t)) /\ Carries(s, t) /\ (t.ok <=> s.ok /\ b)
  BY <1>1, <1>4, FinishIs
<1> QED BY <1>3, <1>5 DEF InIdle

\* What is learnt from clause r, and where it is added.
LearnFrom(s, r) == LearnedTo(CancelUntil(s, BacktrackLevel(s, Learnt(s, r))), Learnt(s, r))

\* A conflict above level 0.
LEMMA LearnStep ==
  ASSUME NEW s, NEW a, NEW r, InConflict(s, a, r), Level(s) > 0, NEW t, t = LearnFrom(s, r)
  PROVE  InPropagate(t, a) /\ Carries(s, t)
<1>1. Ready(s, a) /\ Seeks(s, a) /\ s.ok /\ Books(s) /\ DecisionsOK(s)
  BY DEF InConflict, Ready, Seeks
<1>2. Conflicting(s, r)
  BY <1>1 DEF InConflict, Conflicting, Level
<1>3. PICK c : c = Learnt(s, r)
  OBVIOUS
<1>4. PICK b : b = CancelUntil(s, BacktrackLevel(s, c))
  OBVIOUS
<1>5. t = LearnedTo(b, c)
  BY <1>3, <1>4 DEF LearnFrom
<1>6. Seeks(t, a) /\ Upholds(s, t) /\ AwakeTo(t, t.qhead)
  BY <1>1, <1>2, <1>3, <1>4, <1>5, LearnIs
<1>7. Ready(t, a) /\ t.ok /\ Carries(s, t)
  BY <1>1, <1>6, UpholdsReady
<1> QED BY <1>6, <1>7 DEF InPropagate

\* search() gives up, and starts again.
LEMMA RestartIs ==
  ASSUME NEW s, NEW a, InSearch(s, a), NEW t, t = CancelUntil(s, 0)
  PROVE  InPropagate(t, a) /\ Carries(s, t)
<1>1. Ready(s, a) /\ s.ok /\ s.qhead = Len(s.trail) /\ AwakeTo(s, Len(s.trail)) /\ Seeks(s, a) /\ Books(s) /\ Typed(s)
  BY BooksAre DEF InSearch, Ready, Seeks
<1>2. 0 \in Nat
  OBVIOUS
<1>3. Seeks(t, a) /\ Upholds(s, t)
  BY <1>1, <1>2, CancelSeeks
<1>4. Ready(t, a) /\ t.ok /\ Carries(s, t)
  BY <1>1, <1>3, UpholdsReady
<1>5. Cancelled(s, 0, t)
  BY <1>1, <1>2, CancelBooks
<1>6. PICK n \in Nat : n = Len(s.lim)
  BY <1>1, TypedIs
<1>7. AwakeTo(t, t.qhead)
  <2>1. CASE n > 0
    <3>1. Bottom(s) \in 0..Len(s.trail) /\ Len(s.trail) \in Nat
      BY <1>1, BottomIs, TypedIs
    <3>2. AwakeTo(s, Bottom(s))
      BY <1>1, <3>1 DEF AwakeTo
    <3> QED BY <1>5, <1>6, <2>1, <3>2 DEF Cancelled
  <2>2. CASE n = 0
    <3>1. t = s
      BY <1>5, <1>6, <2>2 DEF Cancelled
    <3> QED BY <1>1, <3>1
  <2> QED BY <1>6, <2>1, <2>2
<1> QED BY <1>4, <1>7 DEF InPropagate

\* The search ends without a contradiction.
LEMMA EndIs ==
  ASSUME NEW s, NEW a, InSearch(s, a), NEW t, t = Finished(s, TRUE)
  PROVE  InIdle(t) /\ Carries(s, t) /\ t.ok
<1>1. Ready(s, a) /\ Seeks(s, a) /\ s.ok /\ s.qhead = Len(s.trail) /\ AwakeTo(s, Len(s.trail)) /\ Pure(s)
  BY DEF InSearch, Ready
<1>2. PICK b \in BOOLEAN : b = TRUE
  OBVIOUS
<1>3. /\ b /\ s.ok => AwakeTo(s, Len(s.trail))
      /\ b \/ ~s.ok \/ NoModels(s)
      /\ s.ok => Pure(s)
      /\ t = Finished(s, b)
  BY <1>1, <1>2
<1>4. Resting(t) /\ (t.ok => Pure(t)) /\ Carries(s, t) /\ (t.ok <=> s.ok /\ b)
  BY <1>1, <1>3, FinishIs
<1> QED BY <1>1, <1>2, <1>4 DEF InIdle

\* The clauses are cleaned, if it is time, and learnt ones dropped.
LEMMA PrepareIs ==
  ASSUME NEW s, NEW a, InSearch(s, a), NEW u, u = s \/ (Level(s) = 0 /\ u = Simplify(s)),
         NEW rs, rs \subseteq Removable(u), NEW t, t = RemoveClauses(u, rs)
  PROVE  InSearch(t, a) /\ Carries(s, t)
<1>1. Ready(s, a) /\ Seeks(s, a) /\ s.ok /\ s.qhead = Len(s.trail) /\ AwakeTo(s, Len(s.trail)) /\ Pure(s) /\ Asks(s, a)
  BY DEF InSearch, Ready
<1>2. InSearch(u, a) /\ Carries(s, u)
  <2>1. CASE u = s
    <3>1. Upholds(s, s)
      BY UpholdsSame
    <3> QED BY <2>1, <3>1, UpholdsCarries
  <2>2. CASE Level(s) = 0 /\ u = Simplify(s)
    <3>1. Len(s.lim) = 0
      BY <2>2 DEF Level
    <3>2. /\ Seeks(u, a) /\ Pure(u) /\ u.ok /\ u.qhead = Len(u.trail) /\ AwakeTo(u, Len(u.trail)) /\ Carries(s, u)
      BY <1>1, <2>2, <3>1, SimplifySeeks
    <3>3. Asks(u, a)
      BY <1>1, <3>2, CarriesAsks
    <3> QED BY <3>2, <3>3 DEF InSearch, Ready
  <2> QED BY <2>1, <2>2
<1>3. Ready(u, a) /\ Seeks(u, a) /\ u.ok /\ u.qhead = Len(u.trail) /\ AwakeTo(u, Len(u.trail))
  BY <1>2 DEF InSearch, Ready
<1>4. /\ Seeks(t, a) /\ Upholds(u, t) /\ t.trail = u.trail /\ t.lim = u.lim /\ t.qhead = u.qhead
      /\ \A n : AwakeTo(u, n) => AwakeTo(t, n)
  BY <1>3, ReduceSeeks
<1>5. Ready(t, a) /\ t.ok /\ Carries(u, t)
  BY <1>3, <1>4, UpholdsReady
<1>6. InSearch(t, a)
  BY <1>3, <1>4, <1>5 DEF InSearch
<1> QED BY <1>2, <1>5, <1>6, CarriesTwice

\* Assumptions that hold get their levels first.
LEMMA LevelsIs ==
  ASSUME NEW s, NEW a, InSearch(s, a), NEW u, u = LevelsFor(s, a)
  PROVE  InSearch(u, a) /\ Upholds(s, u) /\ ~(Level(u) < Len(a) /\ True(u, a[Level(u) + 1])) /\ u.heap = s.heap
<1>1. Ready(s, a) /\ Seeks(s, a) /\ Asks(s, a) /\ s.ok /\ s.qhead = Len(s.trail) /\ AwakeTo(s, Len(s.trail))
  BY DEF InSearch, Ready
<1>2. /\ Seeks(u, a) /\ Upholds(s, u) /\ u.qhead = Len(u.trail) /\ AwakeTo(u, Len(u.trail)) /\ u.heap = s.heap
      /\ ~(Level(u) < Len(a) /\ True(u, a[Level(u) + 1]))
  BY <1>1, LevelsSeeks
<1>3. Ready(u, a) /\ u.ok
  BY <1>1, <1>2, UpholdsReady
<1> QED BY <1>2, <1>3 DEF InSearch

\* A decision is made in u.
LEMMA DecideStep ==
  ASSUME NEW s, NEW a, InSearch(s, a), NEW u, InSearch(u, a), Upholds(s, u),
         NEW t, Seeks(t, a), Upholds(u, t), AwakeTo(t, t.qhead)
  PROVE  InPropagate(t, a) /\ Carries(s, t)
<1>1. Ready(u, a) /\ u.ok
  BY DEF InSearch
<1>2. Ready(t, a) /\ t.ok /\ Carries(u, t)
  BY <1>1, UpholdsReady
<1>3. Carries(s, u)
  BY UpholdsCarries
<1>4. Carries(s, t)
  BY <1>2, <1>3, CarriesTwice
<1> QED BY <1>2, <1>4 DEF InPropagate

\* The next assumption is made.
LEMMA AssumeIs ==
  ASSUME NEW s, NEW a, InSearch(s, a), NEW u, u = LevelsFor(s, a), Level(u) < Len(a),
         NEW p, p = a[Level(u) + 1], ~False(u, p), NEW t, t = Decided(u, p)
  PROVE  InPropagate(t, a) /\ Carries(s, t)
<1>1. InSearch(u, a) /\ Upholds(s, u) /\ ~True(u, p)
  BY LevelsIs
<1>2. Ready(u, a) /\ Seeks(u, a) /\ Asks(u, a) /\ u.qhead = Len(u.trail) /\ AwakeTo(u, Len(u.trail)) /\ Books(u)
      /\ Typed(u) /\ a \in Seq(AllLits)
  BY <1>1, BooksAre DEF InSearch, Ready, Asks, Seeks
<1>3. PICK n \in Nat : n = Len(a)
  BY <1>2
<1>4. PICK d \in Nat : d = Len(u.lim)
  BY <1>2, TypedIs
<1>5. d + 1 \in 1..Len(a) /\ p = a[d + 1]
  BY <1>3, <1>4 DEF Level
<1>6. p \in AllLits /\ Usable(u, p) /\ p[1] \in Vars
  BY <1>2, <1>5, Literals DEF Asks
<1>7. Open(u, p[1])
  BY <1>1, <1>2, <1>6, OpenIs
<1>8. Decidable(u, a, p)
  BY <1>4, <1>5, <1>6, <1>7 DEF Decidable
<1>9. Seeks(t, a) /\ Upholds(u, t) /\ AwakeTo(t, t.qhead)
  BY <1>2, <1>8, DecideIs
<1> QED BY <1>1, <1>9, DecideStep

\* A variable is picked.
LEMMA PickIs ==
  ASSUME NEW s, NEW a, InSearch(s, a), NEW u, u = LevelsFor(s, a), Level(u) >= Len(a), NEW v \in u.heap, Open(u, v),
         NEW b \in BOOLEAN, NEW h, h = {x \in u.heap \ {v} : Open(u, x)}, NEW t, t = Decided([u EXCEPT !.heap = h], <<v, b>>)
  PROVE  InPropagate(t, a) /\ Carries(s, t)
<1>1. InSearch(u, a) /\ Upholds(s, u)
  BY LevelsIs
<1>2. Seeks(u, a) /\ a \in Seq(AllLits) /\ u.qhead = Len(u.trail) /\ AwakeTo(u, Len(u.trail))
  BY <1>1 DEF InSearch, Ready, Asks
<1>3. Seeks(t, a) /\ Upholds(u, t) /\ AwakeTo(t, t.qhead)
  BY <1>2, BranchIs
<1> QED BY <1>1, <1>3, DecideStep

\* The search ends after the levels for assumptions.
LEMMA EndLater ==
  ASSUME NEW s, NEW a, InSearch(s, a), NEW u, u = LevelsFor(s, a), NEW t, t = Finished(u, TRUE)
  PROVE  InIdle(t) /\ Carries(s, t) /\ t.ok
<1>1. InSearch(u, a) /\ Upholds(s, u)
  BY LevelsIs
<1>2. InIdle(t) /\ Carries(u, t) /\ t.ok
  BY <1>1, EndIs
<1> QED BY <1>1, <1>2, UpholdsCarries, CarriesTwice

\* No variable is left to pick: there is a model.
LEMMA ModelIs ==
  ASSUME NEW s, NEW a, InSearch(s, a), NEW u, u = LevelsFor(s, a), \A x \in u.heap : ~Open(u, x),
         NEW w, w = [u EXCEPT !.heap = {}], NEW t, t = Finished(w, TRUE)
  PROVE  InIdle(t) /\ Carries(s, t) /\ t.ok
<1>1. InSearch(u, a) /\ Upholds(s, u)
  BY LevelsIs
<1>2. Ready(u, a) /\ Seeks(u, a) /\ Books(u) /\ u.ok /\ u.qhead = Len(u.trail) /\ AwakeTo(u, Len(u.trail)) /\ HeapOK(u)
      /\ u \in SolverType
  BY <1>1, BooksAre, TypedIs DEF InSearch, Ready, Seeks
<1>3. PICK h : h = {}
  OBVIOUS
<1>4. h \in SUBSET Vars /\ w = [u EXCEPT !.heap = h]
  BY <1>3
<1>5. HeapFor(u, h)
  BY <1>2, <1>3 DEF HeapFor, HeapOK
<1>6. Reheaped(u, w, h)
  BY <1>2, <1>4, ReheapedIs
<1>7. /\ Seeks(w, a) /\ Upholds(u, w) /\ w.qhead = u.qhead /\ w.trail = u.trail /\ w.lim = u.lim /\ w.assigned = u.assigned
      /\ \A n : AwakeTo(u, n) => AwakeTo(w, n)
  <2>1. h \in SUBSET Vars /\ Seeks(u, a) /\ HeapFor(u, h) /\ Reheaped(u, w, h)
    BY <1>2, <1>4, <1>5, <1>6
  <2> QED BY ONLY <2>1, ReheapedSeeks
<1>8. Ready(w, a) /\ w.ok /\ Carries(u, w)
  BY <1>2, <1>7, UpholdsReady
<1>9. InSearch(w, a)
  BY <1>2, <1>7, <1>8 DEF InSearch
<1>10. InIdle(t) /\ Carries(w, t) /\ t.ok
  BY <1>9, EndIs
<1>11. Carries(s, u)
  BY <1>1, UpholdsCarries
<1>12. Carries(s, w)
  BY <1>8, <1>11, CarriesTwice
<1> QED BY <1>10, <1>12, CarriesTwice

-----------------------------------------------------------------------------
(* analyzeFinal()                                                          *)

\* What analyzeFinal() works on.
TraceType == [seen : SUBSET Vars, out : SUBSET AllLits]

\* After the trail was traced back to its n-th literal: the variables seen are
\* traced, and what was found are x and the opposites of decisions.
Tracing(s, x, t, n) ==
  /\ t \in TraceType /\ x \in t.out /\ x[1] \in t.seen
  /\ \A q \in t.out : q = x \/ \E i \in 1..Len(s.trail) :
       q = Neg(s.trail[i]) /\ s.reason[s.trail[i][1]] = NoClause /\ Lv(s, i) # 0
  /\ \A i \in (n + 1)..Len(s.trail) : s.trail[i][1] \in t.seen =>
       IF s.reason[s.trail[i][1]] = NoClause THEN Neg(s.trail[i]) \in t.out
       ELSE \A q \in Range(Others(s, s.reason[s.trail[i][1]])) : s.level[q[1]] > 0 => q[1] \in t.seen

\* One step of analyzeFinal().
LEMMA TraceIs ==
  ASSUME NEW s, Books(s), NEW x, NEW n \in 1..Len(s.trail), Lv(s, n) # 0, NEW t, Tracing(s, x, t, n),
         NEW q, q = s.trail[n], NEW u, u = Trace(s, t, q)
  PROVE  Tracing(s, x, u, n - 1)
<1>1. Typed(s) /\ TrailOK(s) /\ ReasonsOK(s)
  BY BooksAre
<1>2. PICK N \in Nat : N = Len(s.trail)
  BY <1>1, TypedIs
<1>3. n \in 1..N /\ (n - 1) + 1 = n /\ \A i \in n..N : i = n \/ i \in (n + 1)..N
  BY <1>2
<1>4. q \in AllLits /\ q[1] \in Vars
  BY <1>1, TypedIs
<1>5. t \in TraceType /\ x \in t.out /\ x[1] \in t.seen
  BY DEF Tracing
<1>6. CASE q[1] \notin t.seen
  <2>1. u = t
    BY <1>6 DEF Trace
  <2>2. ASSUME NEW i \in n..N, s.trail[i][1] \in t.seen PROVE i \in (n + 1)..N
    BY <1>3, <1>6, <2>2
  <2> QED BY <1>2, <1>3, <2>1, <2>2 DEF Tracing
<1>7. CASE q[1] \in t.seen /\ s.reason[q[1]] = NoClause
  <2>1. u = [t EXCEPT !.out = @ \cup {Neg(q)}]
    BY <1>7 DEF Trace
  <2>2. Neg(q) \in AllLits
    BY <1>4, Literals
  <2>3. u.seen = t.seen /\ u.out = t.out \cup {Neg(q)} /\ u \in TraceType
    BY <1>5, <2>1, <2>2 DEF TraceType
  <2>4. ASSUME NEW l \in u.out
        PROVE  l = x \/ \E i \in 1..Len(s.trail) : l = Neg(s.trail[i]) /\ s.reason[s.trail[i][1]] = NoClause /\ Lv(s, i) # 0
    BY <1>7, <2>3, <2>4 DEF Tracing
  <2>5. ASSUME NEW i \in n..N, s.trail[i][1] \in u.seen
        PROVE  IF s.reason[s.trail[i][1]] = NoClause THEN Neg(s.trail[i]) \in u.out
               ELSE \A l \in Range(Others(s, s.reason[s.trail[i][1]])) : s.level[l[1]] > 0 => l[1] \in u.seen
    <3>1. CASE i = n
      BY <1>7, <2>3, <3>1
    <3>2. CASE i \in (n + 1)..N
      BY <1>2, <2>3, <2>5, <3>2 DEF Tracing
    <3> QED BY <1>3, <3>1, <3>2
  <2> QED BY <1>2, <1>3, <1>5, <2>3, <2>4, <2>5 DEF Tracing
<1>8. CASE q[1] \in t.seen /\ s.reason[q[1]] # NoClause
  <2>1. PICK r : r = s.reason[q[1]]
    OBVIOUS
  <2>2. PICK lits : lits = Others(s, r)
    OBVIOUS
  <2>3. PICK new : new = VarsOf({l \in Range(lits) : s.level[l[1]] > 0})
    OBVIOUS
  <2>4. u = [t EXCEPT !.seen = @ \cup new]
    BY <1>8, <2>1, <2>2, <2>3 DEF Trace
  <2>5. Explains(s, r, n)
    BY <1>1, <1>8, <2>1 DEF ReasonsOK
  <2>6. Backing(s, lits, n - 1)
    BY <2>2, <2>5, ReasonBacks
  <2>7. lits \in Seq(AllLits) /\ \A k \in 1..Len(lits) : \E j \in 1..(n - 1) : s.trail[j] = Neg(lits[k])
    BY <2>6 DEF Backing
  <2>8. ASSUME NEW v \in new PROVE v \in Vars /\ \E j \in 1..(n - 1) : s.trail[j][1] = v
    <3>1. PICK l \in Range(lits) : l[1] = v
      BY <2>3, <2>8 DEF VarsOf
    <3>2. PICK k \in 1..Len(lits) : lits[k] = l
      BY <2>7, <3>1, SeqIs
    <3>3. l \in AllLits
      BY <2>7, <3>2, SeqIs
    <3>4. PICK j \in 1..(n - 1) : s.trail[j] = Neg(l)
      BY <2>7, <3>2
    <3> QED BY <3>1, <3>3, <3>4, Literals
  <2>9. new \in SUBSET Vars
    BY <2>8
  <2>10. u.seen = t.seen \cup new /\ u.out = t.out /\ u \in TraceType
    BY <1>5, <2>4, <2>9 DEF TraceType
  <2>11. ASSUME NEW i \in n..N, s.trail[i][1] \in u.seen
         PROVE  IF s.reason[s.trail[i][1]] = NoClause THEN Neg(s.trail[i]) \in u.out
                ELSE \A l \in Range(Others(s, s.reason[s.trail[i][1]])) : s.level[l[1]] > 0 => l[1] \in u.seen
    <3>1. CASE i = n
      <4>1. ASSUME NEW l \in Range(lits), s.level[l[1]] > 0 PROVE l[1] \in u.seen
        BY <2>3, <2>10, <4>1 DEF VarsOf
      <4> QED BY <1>8, <2>1, <2>2, <3>1, <4>1
    <3>2. CASE i \in (n + 1)..N
      <4>1. s.trail[i][1] \notin new
        <5> SUFFICES ASSUME s.trail[i][1] \in new PROVE FALSE
          OBVIOUS
        <5>1. PICK j \in 1..(n - 1) : s.trail[j][1] = s.trail[i][1]
          BY <2>8
        <5>2. j \in 1..N /\ i \in 1..N /\ j # i
          BY <1>3, <3>2
        <5> QED BY <1>1, <1>2, <5>1, <5>2 DEF TrailOK
      <4>2. s.trail[i][1] \in t.seen
        BY <2>10, <2>11, <4>1
      <4>3. IF s.reason[s.trail[i][1]] = NoClause THEN Neg(s.trail[i]) \in t.out
            ELSE \A l \in Range(Others(s, s.reason[s.trail[i][1]])) : s.level[l[1]] > 0 => l[1] \in t.seen
        BY <1>2, <3>2, <4>2 DEF Tracing
      <4> QED BY <2>10, <4>3
    <3> QED BY <1>3, <3>1, <3>2
  <2> QED BY <1>2, <1>3, <1>5, <2>10, <2>11 DEF Tracing
<1> QED BY <1>6, <1>7, <1>8

\* What is left of a trail after its first m literals, from the end.
LEMMA RestReversed ==
  ASSUME NEW q \in Seq(AllLits), NEW m \in 0..Len(q), NEW r, r = Reverse(SubSeq(q, m + 1, Len(q)))
  PROVE  Len(r) = Len(q) - m /\ \A i \in 1..(Len(q) - m) : r[i] = q[(Len(q) - i) + 1]
<1>1. PICK N \in Nat : N = Len(q)
  OBVIOUS
<1>2. PICK e : e = SubSeq(q, m + 1, Len(q))
  OBVIOUS
<1>3. e \in Seq(AllLits) /\ Len(e) = Len(q) - m /\ \A i \in 1..(Len(q) - m) : e[i] = q[m + i]
  BY <1>2, RestIs
<1>4. PICK d \in Nat : d = N - m
  <2>1. m \in 0..N
    BY <1>1
  <2> QED BY <2>1
<1>5. Len(e) = d /\ (\A i \in 1..d : e[i] = q[m + i])
  BY <1>1, <1>3, <1>4
<1>6. r = [i \in 1..d |-> e[(d - i) + 1]]
  BY <1>2, <1>5 DEF Reverse
<1>7. \A i \in 1..d : (d - i) + 1 \in 1..d
  OBVIOUS
<1>8. \A i \in 1..d : e[i] \in AllLits
  BY <1>3, <1>5, SeqIs
<1>9. r \in Seq(AllLits)
  <2>1. r \in [1..d -> AllLits]
    BY <1>6, <1>7, <1>8
  <2> QED BY <2>1, SeqDef
<1>10. Len(r) = d
  BY <1>6, <1>9, LenProperties
<1>11. ASSUME NEW i \in 1..d PROVE r[i] = q[(N - i) + 1]
  <2>1. m + ((d - i) + 1) = (N - i) + 1
    BY <1>1, <1>4
  <2> QED BY <1>5, <1>6, <1>7, <2>1
<1> QED BY <1>1, <1>4, <1>10, <1>11

\* analyzeFinal(), above level 0.
LEMMA TracedIs ==
  ASSUME NEW s, Books(s), Len(s.lim) > 0, NEW x \in AllLits, NEW t, t.out = FinalConflict(s, x),
         t = Traced(s, [seen |-> {x[1]}, out |-> {x}], Reverse(SubSeq(s.trail, s.lim[1] + 1, Len(s.trail))))
  PROVE  Tracing(s, x, t, s.lim[1])
<1>1. Typed(s) /\ LevelsOK(s) /\ TrailOK(s)
  BY BooksAre
<1>2. PICK N \in Nat : N = Len(s.trail)
  BY <1>1, TypedIs
<1>3. PICK d \in Nat : d = Len(s.lim)
  BY <1>1, TypedIs
<1>4. 1 \in 1..Len(s.lim) /\ d > 0
  BY <1>3
<1>5. PICK m \in Nat : m = s.lim[1]
  BY <1>1, <1>4, TypedIs
<1>6. m \in 0..N
  <2>1. PICK h \in Nat : h = s.qhead
    BY <1>1, TypedIs
  <2>2. m <= h /\ h <= N
    BY <1>1, <1>2, <1>4, <1>5, <2>1 DEF LevelsOK, TrailOK
  <2> QED BY <2>2
<1>7. \A i \in 1..N : i > m => Lv(s, i) # 0
  <2> SUFFICES ASSUME NEW i \in 1..N, i > m PROVE Lv(s, i) # 0
    OBVIOUS
  <2>1. Lv(s, i) >= 1 /\ Lv(s, i) \in Nat
    BY <1>1, <1>2, <1>4, <1>5, TypedIs DEF LevelsOK
  <2> QED BY <2>1
<1>8. PICK seq : seq = Reverse(SubSeq(s.trail, s.lim[1] + 1, Len(s.trail)))
  OBVIOUS
<1>9. s.trail \in Seq(AllLits)
  BY <1>1, TypedIs
<1>10. Len(seq) = N - m /\ \A i \in 1..(N - m) : seq[i] = s.trail[(N - i) + 1]
  BY ZenonT(40), <1>2, <1>5, <1>6, <1>8, <1>9, RestReversed
<1>11. PICK k \in Nat : k = N - m
  BY <1>6
<1>12. PICK b : b = [seen |-> {x[1]}, out |-> {x}]
  OBVIOUS
<1>13. t = Traced(s, b, seq)
  BY <1>8, <1>12
<1>14. PICK f : Rounds(f, "trace", s, b, seq, t)
  BY <1>10, <1>11, <1>13, TraceRounds
<1>15. f[0] = b /\ f[k] = t /\ \A i \in 1..k : f[i] = Trace(s, f[i - 1], seq[i])
  BY <1>10, <1>11, <1>14 DEF Rounds, Stepped
<1>16. PICK S : S = {i \in 0..k : Tracing(s, x, f[i], N - i)}
  OBVIOUS
<1>17. 0 \in S
  <2>1. b \in TraceType /\ b.out = {x} /\ b.seen = {x[1]}
    BY <1>12, Literals DEF TraceType
  <2>2. (N + 1)..N = {}
    OBVIOUS
  <2>3. Tracing(s, x, b, N)
    BY <1>2, <2>1, <2>2 DEF Tracing
  <2>4. N - 0 = N /\ 0 \in 0..k
    OBVIOUS
  <2> QED BY <1>15, <1>16, <2>3, <2>4
<1>18. ASSUME NEW i \in 0..k, i \in S, i # k PROVE i + 1 \in S
  <2>1. i + 1 \in 1..k /\ i + 1 \in 0..k /\ (i + 1) - 1 = i
    BY <1>18
  <2>2. PICK n : n = N - i
    OBVIOUS
  <2>3. n \in 1..N /\ n > m /\ n - 1 = N - (i + 1) /\ (N - (i + 1)) + 1 = n
    BY <1>6, <1>11, <1>18, <2>2
  <2>4. PICK y : y = f[i]
    OBVIOUS
  <2>5. PICK z : z = f[i + 1]
    OBVIOUS
  <2>6. PICK q : q = s.trail[n]
    OBVIOUS
  <2>7. z = Trace(s, y, q)
    BY <1>10, <1>11, <1>15, <2>1, <2>3, <2>4, <2>5, <2>6
  <2>8. Tracing(s, x, y, n) /\ n \in 1..Len(s.trail) /\ Lv(s, n) # 0
    BY <1>2, <1>7, <1>16, <1>18, <2>2, <2>3, <2>4
  <2>9. Tracing(s, x, z, n - 1)
    BY <2>6, <2>7, <2>8, TraceIs
  <2> QED BY <1>16, <2>1, <2>3, <2>5, <2>9
<1>19. 0..k \subseteq S
  BY <1>17, <1>18, UpTo
<1>20. k \in S /\ N - k = m
  BY <1>6, <1>11, <1>19
<1> QED BY <1>5, <1>15, <1>16, <1>20

\* The assumptions a for which literal x cannot be made false: D has x, and of
\* the others the opposites, and each model has one of them.
Conflict(s, a, x, D) ==
  /\ x \in D /\ \A q \in D : q \in AllLits /\ \E i \in 1..Len(a) : q = Neg(a[i])
  /\ \A m \in Models : Means(s, m) => \E q \in D : q \in m

\* What was traced holds in a model without the literals found.
LEMMA TracedHolds ==
  ASSUME NEW s, Books(s), Len(s.lim) > 0, NEW x, NEW t, Tracing(s, x, t, s.lim[1]),
         NEW m \in Models, Means(s, m), \A q \in t.out : q \notin m
  PROVE  \A i \in 1..Len(s.trail) : s.trail[i][1] \in t.seen => s.trail[i] \in m
<1>1. Typed(s) /\ TrailOK(s) /\ LevelsOK(s) /\ ReasonsOK(s)
  BY BooksAre
<1>2. PICK N \in Nat : N = Len(s.trail)
  BY <1>1, TypedIs
<1>3. PICK S : S = {i \in 1..N : Lv(s, i) = 0 \/ s.trail[i][1] \in t.seen => s.trail[i] \in m}
  OBVIOUS
<1>4. PICK D \in SUBSET Nat : D = 1..N
  OBVIOUS
<1>5. ASSUME NEW n \in D, \A k \in D : k < n => k \in S PROVE n \in S
  <2> SUFFICES ASSUME Lv(s, n) = 0 \/ s.trail[n][1] \in t.seen PROVE s.trail[n] \in m
    BY <1>3, <1>4
  <2>1. n \in 1..N /\ n \in 1..Len(s.trail)
    BY <1>2, <1>4
  <2>2. s.trail[n] \in AllLits /\ s.trail[n][1] \in Vars
    BY <1>1, <2>1, TypedIs
  <2>3. CASE Lv(s, n) = 0
    BY <2>1, <2>3 DEF Means
  <2>4. CASE Lv(s, n) # 0
    <3>1. n \in (s.lim[1] + 1)..N
      <4>1. PICK d \in Nat : d = Len(s.lim)
        BY <1>1, TypedIs
      <4>2. 1 \in 1..Len(s.lim)
        BY <4>1
      <4>3. PICK k \in Nat : k = s.lim[1]
        BY <1>1, <4>2, TypedIs
      <4>4. PICK l \in Nat : l = Lv(s, n)
        BY <1>1, <2>1, TypedIs
      <4>5. l >= 1
        BY <2>4, <4>4
      <4>6. n > k
        BY <1>1, <2>1, <4>2, <4>3, <4>4, <4>5 DEF LevelsOK
      <4> QED BY <2>1, <4>3, <4>6
    <3>2. s.trail[n][1] \in t.seen
      BY <2>4
    <3>3. IF s.reason[s.trail[n][1]] = NoClause THEN Neg(s.trail[n]) \in t.out
          ELSE \A q \in Range(Others(s, s.reason[s.trail[n][1]])) : s.level[q[1]] > 0 => q[1] \in t.seen
      BY <1>2, <3>1, <3>2 DEF Tracing
    <3>4. CASE s.reason[s.trail[n][1]] = NoClause
      <4>1. Neg(s.trail[n]) \notin m
        BY <3>3, <3>4
      <4> QED BY <2>2, <4>1 DEF Models
    <3>5. CASE s.reason[s.trail[n][1]] # NoClause
      <4>1. PICK r : r = s.reason[s.trail[n][1]]
        OBVIOUS
      <4>2. Explains(s, r, n)
        BY <1>1, <2>1, <3>5, <4>1 DEF ReasonsOK
      <4>3. PICK lits : lits = Others(s, r)
        OBVIOUS
      <4>4. Backing(s, lits, n - 1)
        BY <2>1, <4>2, <4>3, ReasonBacks
      <4>5. ASSUME NEW q \in Range(lits) PROVE Neg(q) \in m
        <5>1. lits \in Seq(AllLits)
          BY <4>4 DEF Backing
        <5>2. PICK k \in 1..Len(lits) : lits[k] = q
          BY <5>1, SeqIs
        <5>3. q \in AllLits
          BY <5>1, <5>2, SeqIs
        <5>4. PICK j \in 1..(n - 1) : s.trail[j] = Neg(q)
          BY <4>4, <5>2 DEF Backing
        <5>5. j \in D /\ j < n /\ j \in 1..Len(s.trail)
          BY <1>2, <1>4, <2>1
        <5>6. s.level[q[1]] = Lv(s, j) /\ s.trail[j][1] = q[1] /\ Lv(s, j) \in Nat
          BY <1>1, <5>3, <5>4, <5>5, Literals, TypedIs DEF Lv
        <5>7. Lv(s, j) = 0 \/ s.trail[j][1] \in t.seen
          <6>1. CASE s.level[q[1]] > 0
            BY <3>3, <3>5, <4>1, <4>3, <5>6, <6>1
          <6>2. CASE ~(s.level[q[1]] > 0)
            <7>1. PICK l \in Nat : l = Lv(s, j)
              BY <5>6
            <7>2. l = 0
              BY <5>6, <6>2, <7>1
            <7> QED BY <7>1, <7>2
          <6> QED BY <6>1, <6>2
        <5>8. j \in S
          BY <1>5, <5>5
        <5> QED BY <1>3, <5>4, <5>7, <5>8
      <4> QED BY <2>1, <4>2, <4>3, <4>5, ReasonIn
    <3> QED BY <3>4, <3>5
  <2> QED BY <2>3, <2>4
<1>6. D \subseteq S
  BY <1>5, FromSmaller
<1> QED BY <1>2, <1>3, <1>4, <1>6

\* analyzeFinal()
LEMMA FinalIs ==
  ASSUME NEW s, NEW a, Seeks(s, a), a \in Seq(AllLits), Len(s.lim) < Len(a), NEW x \in AllLits, OnTrail(s, x),
         x = Neg(a[Len(s.lim) + 1]), NEW D, D = FinalConflict(s, x)
  PROVE  Conflict(s, a, x, D)
<1>1. Books(s) /\ AssumedOK(s, a)
  BY DEF Seeks
<1>2. Typed(s) /\ LevelsOK(s)
  BY <1>1, BooksAre
<1>3. PICK d \in Nat : d = Len(s.lim)
  BY <1>2, TypedIs
<1>4. PICK A \in Nat : A = Len(a)
  OBVIOUS
<1>5. d < A /\ d + 1 \in 1..A
  BY <1>3, <1>4
<1>6. PICK j \in 1..Len(s.trail) : s.trail[j] = x
  BY DEF OnTrail
<1>7. CASE d = 0
  <2>1. D = {x}
    BY <1>3, <1>7 DEF FinalConflict, Level
  <2>2. Lv(s, j) = 0
    <3>1. PICK l \in Nat : l = Lv(s, j)
      BY <1>2, <1>6, TypedIs
    <3>2. l <= d
      BY <1>2, <1>3, <1>6, <3>1 DEF LevelsOK
    <3> QED BY <1>7, <3>1, <3>2
  <2>3. \A m \in Models : Means(s, m) => x \in m
    BY <1>6, <2>2 DEF Means
  <2>4. \E i \in 1..Len(a) : x = Neg(a[i])
    BY <1>3, <1>4, <1>5
  <2> QED BY <2>1, <2>3, <2>4 DEF Conflict
<1>8. CASE d # 0
  <2>1. PICK t : t = Traced(s, [seen |-> {x[1]}, out |-> {x}], Reverse(SubSeq(s.trail, s.lim[1] + 1, Len(s.trail))))
    OBVIOUS
  <2>2. D = t.out
    BY <1>3, <1>8, <2>1 DEF FinalConflict, Level, Traced
  <2>3. Len(s.lim) > 0
    BY <1>3, <1>8
  <2>4. Tracing(s, x, t, s.lim[1])
    BY <1>1, <2>1, <2>2, <2>3, TracedIs
  <2>5. t.out \in SUBSET AllLits /\ x \in t.out /\ x[1] \in t.seen
    BY <2>4 DEF Tracing, TraceType
  <2>6. ASSUME NEW q \in D PROVE \E i \in 1..Len(a) : q = Neg(a[i])
    <3>1. CASE q = x
      BY <1>3, <1>4, <1>5, <3>1
    <3>2. CASE q # x
      <4>1. PICK i \in 1..Len(s.trail) : q = Neg(s.trail[i]) /\ s.reason[s.trail[i][1]] = NoClause /\ Lv(s, i) # 0
        BY <2>2, <2>4, <3>2 DEF Tracing
      <4>2. PICK l \in Nat : l = Lv(s, i)
        BY <1>2, TypedIs
      <4>3. l <= d
        BY <1>2, <1>3, <4>2 DEF LevelsOK
      <4>4. l # 0 /\ l <= A /\ l \in 1..A
        BY <1>5, <4>1, <4>2, <4>3
      <4>5. s.trail[i] = a[l]
        BY <1>1, <1>4, <4>1, <4>2, <4>4 DEF AssumedOK
      <4> QED BY <1>4, <4>1, <4>4, <4>5
    <3> QED BY <3>1, <3>2
  <2>7. ASSUME NEW m \in Models, Means(s, m), \A q \in D : q \notin m PROVE FALSE
    <3>1. \A q \in t.out : q \notin m
      BY <2>2, <2>7
    <3>2. \A i \in 1..Len(s.trail) : s.trail[i][1] \in t.seen => s.trail[i] \in m
      BY <1>1, <2>3, <2>4, <2>7, <3>1, TracedHolds
    <3>3. x \in m
      BY <1>6, <2>5, <3>2
    <3> QED BY <2>5, <3>1, <3>3
  <2>8. \A m \in Models : Means(s, m) => \E q \in D : q \in m
    BY <2>7
  <2>9. \A q \in D : q \in AllLits
    BY <2>2, <2>5
  <2> QED BY <2>2, <2>5, <2>6, <2>8, <2>9 DEF Conflict
<1> QED BY <1>7, <1>8
=============================================================================
