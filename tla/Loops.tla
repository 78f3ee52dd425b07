------------------------------- MODULE Loops -------------------------------
(***************************************************************************)
(* The loops of the code as folds.                                         *)
(***************************************************************************)
EXTENDS Naturals, Sequences

\* Folds an operator over a sequence; unlike the library's folds it keeps the
\* intermediate results, which are used more than once.
Through(step(_, _), base, seq) ==
  LET after[i \in 0..Len(seq)] ==
        IF i = 0 THEN base ELSE LET b == after[i - 1] IN step(b, seq[i])
  IN  after[Len(seq)]

\* A while loop: step as long as busy, which takes at most n rounds.
Repeat(step(_), busy(_), base, n) ==
  LET after[i \in 0..n] ==
        IF i = 0 THEN base
        ELSE LET b == after[i - 1] IN IF busy(b) THEN step(b) ELSE b
  IN  after[n]

\* The members of seq that are in S, in their order.
Only(seq, S) ==
  LET kept[i \in 0..Len(seq)] ==
        IF i = 0 THEN <<>>
        ELSE IF seq[i] \in S THEN Append(kept[i - 1], seq[i]) ELSE kept[i - 1]
  IN  kept[Len(seq)]

\* The numbers of a set, smallest first.
Ascending(S) ==
  LET top == CHOOSE n \in S \cup {0} : \A m \in S : m <= n
      below[n \in 0..(top + 1)] ==
        IF n = 0 THEN <<>>
        ELSE IF n - 1 \in S THEN Append(below[n - 1], n - 1) ELSE below[n - 1]
  IN  below[top + 1]
=============================================================================
