-------------------------------- MODULE Pool --------------------------------
(***************************************************************************)
(* The pool of States as the search sees it: what each number in use       *)
(* stands for.  StatePool shows that the vector behind it behaves so.      *)
(***************************************************************************)
EXTENDS Naturals, FiniteSets

\* newState() hands out the lowest number that is not in use.
FreshState(pool) ==
  CHOOSE n \in 1..(Cardinality(DOMAIN pool) + 1) :
    n \notin DOMAIN pool /\ \A m \in 1..(n - 1) : m \in DOMAIN pool

NewState(pool, st) ==
  [n \in DOMAIN pool \cup {FreshState(pool)} |-> IF n \in DOMAIN pool THEN pool[n] ELSE st]

NoStates == [n \in {} |-> {}]

\* Faulty form of DelStates: frees the whole pool.
DelAllStates(pool, ns) == NoStates

DelStates(pool, ns) == [n \in DOMAIN pool \ ns |-> pool[n]]
=============================================================================
