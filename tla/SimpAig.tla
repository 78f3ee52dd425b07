------------------------------ MODULE SimpAig ------------------------------
(***************************************************************************)
(* The shared nodes of simpaig.c with their reference counts.  A pointer   *)
(* to a node is a literal, its address doubled, with the sign in the low   *)
(* bit as in the code; address 0 is the constant node of the manager.  The *)
(* addresses that are freed are handed out again.  The hash table is the   *)
(* set of nodes; that counts saturate at UINT_MAX is left out.             *)
(***************************************************************************)
EXTENDS Aiger

NothingMapped == [n \in {} |-> 0]

\* What mgr holds: the nodes, their reference counts, the assignment, the
\* cache and the indices, which all map nodes.
MgrInit ==
  [nodes |-> NothingMapped, ref |-> [n \in {0} |-> 0],
   rhs |-> NothingMapped, cache |-> NothingMapped, idx |-> NothingMapped]

IsConst(p) == Lit2Var(p) = 0

Node(mgr, p) == mgr.nodes[Lit2Var(p)]

IsVar(mgr, p) == ~IsConst(p) /\ Node(mgr, p).kind = "var"

CurrentNodes(mgr) == Cardinality(DOMAIN mgr.nodes) + mgr.ref[0]

Inc(mgr, p) == [mgr EXCEPT !.ref[Lit2Var(p)] = @ + 1]

\* A function that gives back a new reference to p.
Ref(mgr, p) == [mgr |-> Inc(mgr, p), aig |-> p]

Find(mgr, node) == {n \in DOMAIN mgr.nodes : mgr.nodes[n] = node}

NewNode(mgr, node) ==
  LET used == DOMAIN mgr.nodes
      n    == CHOOSE m \in 1..(Cardinality(used) + 1) : m \notin used
  IN  Ref([mgr EXCEPT !.nodes = (n :> node) @@ @, !.ref = (n :> 0) @@ @], Var2Lit(n))

\* Gives a reference back, and those that the last one kept alive.
DecKeepsChildren(mgr, p) ==
  LET n == Lit2Var(p)
      m == [mgr EXCEPT !.ref[n] = @ - 1]
  IN  IF m.ref[n] > 0 \/ IsConst(p) THEN m
      ELSE [m EXCEPT !.nodes = [i \in DOMAIN @ \ {n} |-> @[i]], !.ref = [i \in DOMAIN @ \ {n} |-> @[i]]]

RECURSIVE DecAll(_, _)
DecAll(mgr, p) ==
  LET n    == Lit2Var(p)
      m    == [mgr EXCEPT !.ref[n] = @ - 1]
      node == Node(m, p)
      rest == IF node.kind = "var" THEN m ELSE LET first == DecAll(m, node.c0) IN DecAll(first, node.c1)
  IN  IF m.ref[n] > 0 \/ IsConst(p) THEN m
      ELSE [rest EXCEPT !.nodes = [i \in DOMAIN @ \ {n} |-> @[i]], !.ref = [i \in DOMAIN @ \ {n} |-> @[i]]]

Dec(mgr, p) == DecAll(mgr, p)

SimpVar(mgr, var, slice) ==
  LET node  == [kind |-> "var", var |-> var, slice |-> slice]
      found == Find(mgr, node)
  IN  IF found = {} THEN NewNode(mgr, node) ELSE Ref(mgr, Var2Lit(CHOOSE n \in found : TRUE))

\* Not created if it is constant, equal to an argument, or there already with
\* the arguments in either order.
SimpAnd(mgr, c0, c1) ==
  LET node(l, r) == [kind |-> "and", c0 |-> l, c1 |-> r]
      found      == Find(mgr, node(c1, c0)) \cup Find(mgr, node(c0, c1))
  IN  CASE c0 = False \/ c1 = False \/ c0 = Not(c1) -> Ref(mgr, False)
        [] c0 = c1                                  -> Ref(mgr, c1)
        [] c0 = True /\ c1 > 1                      -> Ref(mgr, c1)
        [] c1 = True /\ c0 > 1                      -> Ref(mgr, c0)
        [] c0 > 1 /\ c1 > 1 /\ c0 # c1 /\ c0 # Not(c1) ->
             IF found = {} THEN NewNode(Inc(Inc(mgr, c0), c1), node(c0, c1))
             ELSE Ref(mgr, Var2Lit(CHOOSE n \in found : TRUE))

SimpOr(mgr, a, b) == LET none == SimpAnd(mgr, Not(a), Not(b)) IN [none EXCEPT !.aig = Not(@)]

-----------------------------------------------------------------------------
(* Substitution and shifting.  A map of nodes keeps its nodes and what     *)
(* they are mapped to alive.                                               *)

SimpAssign(mgr, lhs, rhs) ==
  [Inc(Inc(mgr, lhs), rhs) EXCEPT !.rhs = (Lit2Var(lhs) :> rhs) @@ @]

SimpCache(mgr, n, p) == [Inc(Inc(mgr, Var2Lit(n)), p) EXCEPT !.cache = (n :> p) @@ @]

\* Gives back what the entries of a map kept alive.
ResetMap(mgr, map) ==
  LET dec(m, n) == Dec(Dec(m, map[n]), Var2Lit(n)) IN Through(dec, mgr, Ascending(DOMAIN map))

ResetAssignment(mgr) == ResetMap([mgr EXCEPT !.rhs = NothingMapped], mgr.rhs)

ResetCache(mgr) == ResetMap([mgr EXCEPT !.cache = NothingMapped], mgr.cache)

\* The conjunction of two references, which are given back.
Conjunction(mgr, l, r) ==
  LET and == SimpAnd(mgr, l, r) IN [and EXCEPT !.mgr = Dec(Dec(@, l), r)]

\* A reference with the sign of p.
Signed(res, p) == IF Sign(p) = 0 THEN res ELSE [res EXCEPT !.aig = Not(@)]

Cached(res, n) == [res EXCEPT !.mgr = SimpCache(@, n, res.aig)]

RECURSIVE SubstituteRec(_, _)
SubstituteRec(mgr, p) ==
  LET n    == Lit2Var(p)
      node == Node(mgr, p)
      l    == SubstituteRec(mgr, node.c0)
      r    == SubstituteRec(l.mgr, node.c1)
      res  == CASE n \in DOMAIN mgr.cache -> Ref(mgr, mgr.cache[n])
                [] n \notin DOMAIN mgr.cache /\ node.kind = "and" -> Cached(Conjunction(r.mgr, l.aig, r.aig), n)
                [] n \notin DOMAIN mgr.cache /\ node.kind = "var" ->
                     Cached(IF n \notin DOMAIN mgr.rhs THEN Ref(mgr, Var2Lit(n))
                            ELSE IF IsConst(mgr.rhs[n]) THEN Ref(mgr, mgr.rhs[n])
                            ELSE SubstituteRec(mgr, mgr.rhs[n]), n)
  IN  Signed(res, p)

\* Also ends the assignment.
Substitute(mgr, p) ==
  LET res == SubstituteRec(mgr, p)
  IN  IF IsConst(p) THEN [mgr |-> ResetAssignment(Inc(mgr, p)), aig |-> p]
      ELSE [res EXCEPT !.mgr = ResetAssignment(ResetCache(@))]

RECURSIVE ShiftRec(_, _, _)
ShiftRec(mgr, p, delta) ==
  LET n    == Lit2Var(p)
      node == Node(mgr, p)
      l    == ShiftRec(mgr, node.c0, delta)
      r    == ShiftRec(l.mgr, node.c1, delta)
      res  == CASE n \in DOMAIN mgr.cache -> Ref(mgr, mgr.cache[n])
                [] n \notin DOMAIN mgr.cache /\ node.kind = "and" -> Cached(Conjunction(r.mgr, l.aig, r.aig), n)
                [] n \notin DOMAIN mgr.cache /\ node.kind = "var" ->
                     Cached(SimpVar(mgr, node.var, node.slice + delta), n)
  IN  Signed(res, p)

SimpShift(mgr, p, delta) ==
  LET res == ShiftRec(mgr, p, delta)
  IN  IF IsConst(p) THEN Ref(mgr, p) ELSE [res EXCEPT !.mgr = ResetCache(@)]

-----------------------------------------------------------------------------
(* Tseitin indices, children first.                                        *)

PushIndex(mgr, n) ==
  [Inc(mgr, Var2Lit(n)) EXCEPT !.idx = (n :> Cardinality(DOMAIN @) + 1) @@ @]

RECURSIVE AssignIndices(_, _)
AssignIndices(mgr, p) ==
  LET n     == Lit2Var(p)
      node  == Node(mgr, p)
      first == AssignIndices(mgr, node.c0)
  IN  IF IsConst(p) \/ n \in DOMAIN mgr.idx THEN mgr
      ELSE PushIndex(IF node.kind = "var" THEN mgr ELSE AssignIndices(first, node.c1), n)

ResetIndices(mgr) ==
  LET dec(m, n) == Dec(m, Var2Lit(n))
  IN  Through(dec, [mgr EXCEPT !.idx = NothingMapped], Ascending(DOMAIN mgr.idx))

UnsignedIndex(mgr, p) == (IF IsConst(p) THEN 0 ELSE Var2Lit(mgr.idx[Lit2Var(p)])) + Sign(p)

-----------------------------------------------------------------------------
(* What the nodes are for.                                                 *)

\* The values of all nodes, given the true ones among the variables, which are
\* pairs of a variable and a slice.
NodeValues(mgr, true) ==
  LET val[n \in DOMAIN mgr.nodes \cup {0}] ==
        /\ n # 0
        /\ LET node == mgr.nodes[n]
           IN  IF node.kind = "var" THEN <<node.var, node.slice>> \in true
               ELSE /\ val[Lit2Var(node.c0)] = (Sign(node.c0) = 0)
                    /\ val[Lit2Var(node.c1)] = (Sign(node.c1) = 0)
  IN  val

\* How many references to node n the manager itself has.
Held(mgr, n) ==
  LET ands      == {a \in DOMAIN mgr.nodes : mgr.nodes[a].kind = "and"}
      to(map)   == Cardinality({a \in DOMAIN map : Lit2Var(map[a]) = n})
      from(map) == IF n \in DOMAIN map THEN 1 ELSE 0
  IN  Cardinality({a \in ands : Lit2Var(mgr.nodes[a].c0) = n}) + Cardinality({a \in ands : Lit2Var(mgr.nodes[a].c1) = n})
        + to(mgr.rhs) + from(mgr.rhs) + to(mgr.cache) + from(mgr.cache) + from(mgr.idx)
=============================================================================
