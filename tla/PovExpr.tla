------------------------------ MODULE PovExpr ------------------------------
(***************************************************************************)
(* The expressions the PoV generator (POVGenerator.cpp) works on, and its  *)
(* two pure algorithms over constraint sets: unmerging the select          *)
(* expressions under a solution (UnmergeSelect / unmergeSelects) and       *)
(* detecting nonce pairs (POVGeneratorState::matchNoncePairs).             *)
(*                                                                         *)
(* Every symbolic input byte is a one-byte array; arrays are numbered in   *)
(* the order of their names (v1_receive_1 < v2_random_2 < ...), which is  *)
(* the order ReadExprComparator uses.  A byte holds 0..ByteMax.            *)
(***************************************************************************)
EXTENDS Integers, FiniteSets, Sequences, SequencesExt

CONSTANTS
  Arrays,     \* 1..K: the symbolic arrays, in name order
  ArrayKind,  \* [Arrays -> {"receive", "random", "other"}]: the raw name
  ByteMax     \* largest value of a byte

ASSUME Arrays \subseteq Nat /\ ArrayKind \in [Arrays -> {"receive", "random", "other"}]

Bytes == 0..ByteMax
Base == ByteMax + 1

\* POVGenerator::isReceive / isRandom on the root array of a read.
IsReceive(a) == ArrayKind[a] = "receive"
IsRandom(a) == ArrayKind[a] = "random"

Read(a) == [k |-> "read", arr |-> a]
CB(v) == [k |-> "const", val |-> v]
Concat(a, b) == [k |-> "concat", kids |-> <<a, b>>]
Sub(a, b) == [k |-> "sub", kids |-> <<a, b>>]
Select(c, t, f) == [k |-> "select", kids |-> <<c, t, f>>]
Eq(a, b) == [k |-> "eq", kids |-> <<a, b>>]
Not(c) == [k |-> "not", kids |-> <<c>>]

Kids(e) == IF e.k \in {"read", "const"} THEN <<>> ELSE e.kids

\* Width in bytes; a boolean has width 0.
RECURSIVE Width(_)
Width(e) ==
  CASE e.k \in {"read", "const"} -> 1
    [] e.k = "concat" -> Width(e.kids[1]) + Width(e.kids[2])
    [] e.k \in {"sub", "select"} -> Width(e.kids[Len(e.kids)])
    [] OTHER -> 0

\* An assignment of every array; Assignment::evaluate.
Assignments == [Arrays -> Bytes]

RECURSIVE Eval(_, _)
Eval(e, s) ==
  CASE e.k = "read" -> s[e.arr]
    [] e.k = "const" -> e.val
    [] e.k = "concat" -> Eval(e.kids[1], s) * Base^Width(e.kids[2]) + Eval(e.kids[2], s)
    [] e.k = "sub" -> (Eval(e.kids[1], s) - Eval(e.kids[2], s)) % Base^Width(e)
    [] e.k = "select" -> IF Eval(e.kids[1], s) THEN Eval(e.kids[2], s) ELSE Eval(e.kids[3], s)
    [] e.k = "eq" -> Eval(e.kids[1], s) = Eval(e.kids[2], s)
    [] e.k = "not" -> ~Eval(e.kids[1], s)

\* F applied to the value of e, evaluated once (as in RecipeExpr).
LetBe(e, F(_)) == CHOOSE v \in {F(x) : x \in {e}} : TRUE

Models(C) == {s \in Assignments : \A c \in C : Eval(c, s)}

\* findReads(e, false, reads): the arrays e reads.
RECURSIVE ReadsOf(_)
ReadsOf(e) ==
  IF e.k = "read" THEN {e.arr} ELSE UNION {ReadsOf(Kids(e)[i]) : i \in DOMAIN Kids(e)}

\* POVGeneratorState::collect, as sets ordered by name.
Collect(e) ==
  [receive |-> {a \in ReadsOf(e) : IsReceive(a)}, random |-> {a \in ReadsOf(e) : IsRandom(a)}]

-----------------------------------------------------------------------------
(* UnmergeSelect: the condition of every select on the path the solution  *)
(* takes through e, or its negation, recursing into the taken branch      *)
(* only.  The explored set only avoids visiting a shared subexpression    *)
(* twice, which cannot change the result.                                 *)

\* Mutant: the condition and its negation recorded the wrong way round.
RECURSIVE UnmergedSwapped(_, _)
UnmergedSwapped(e, s) ==
  IF e.k = "select"
  THEN IF Eval(e.kids[1], s) THEN {Not(e.kids[1])} \cup UnmergedSwapped(e.kids[2], s)
                             ELSE {e.kids[1]} \cup UnmergedSwapped(e.kids[3], s)
  ELSE UNION {UnmergedSwapped(Kids(e)[i], s) : i \in DOMAIN Kids(e)}

RECURSIVE Unmerged(_, _)
Unmerged(e, s) ==
  IF e.k = "select"
  THEN IF Eval(e.kids[1], s) THEN {e.kids[1]} \cup Unmerged(e.kids[2], s)
                             ELSE {Not(e.kids[1])} \cup Unmerged(e.kids[3], s)
  ELSE UNION {Unmerged(Kids(e)[i], s) : i \in DOMAIN Kids(e)}

\* POVGenerator::unmergeSelects: the constraint set with the unmerged
\* conditions added (each holds under s, so the s2e_assert never fires).
UnmergeSelects(C, s) == C \cup UNION {Unmerged(e, s) : e \in C}

-----------------------------------------------------------------------------
(* POVGeneratorState::matchNoncePairs.  A site is a pair [rcv, rnd] the   *)
(* code would store as remapping[rcv] = rnd; an outcome is [ok, sites].   *)

Fail == [ok |-> FALSE, sites |-> <<>>]
Sites(seq) == [ok |-> TRUE, sites |-> seq]

\* The pairs the recursive matchNoncePairs(a, b, visited, remapping)
\* visits, in order: (a, b), then the pairs of kids 0 and 1 of two Concats.
\* Mutant: kid 0 of one side paired with kid 1 of the other.
RECURSIVE TraversalCrossed(_, _)
TraversalCrossed(a, b) ==
  <<<<a, b>>>> \o (IF a.k = "concat" /\ b.k = "concat"
                   THEN TraversalCrossed(a.kids[1], b.kids[2]) \o TraversalCrossed(a.kids[2], b.kids[1])
                   ELSE <<>>)

RECURSIVE Traversal(_, _)
Traversal(a, b) ==
  <<<<a, b>>>> \o (IF a.k = "concat" /\ b.k = "concat"
                   THEN Traversal(a.kids[1], b.kids[1]) \o Traversal(a.kids[2], b.kids[2])
                   ELSE <<>>)

\* Mutant: the receive and random bytes of a pair swapped.
LeafOutcomeSwapped(a, b) ==
  LET ca == Collect(a)
      cb == Collect(b)
  IN  CASE (Cardinality(ca.receive) = 1 /\ Cardinality(cb.random) = 1)
             \/ (Cardinality(cb.receive) = 1 /\ Cardinality(ca.random) = 1) ->
             Sites(<<[rnd |-> Min(IF ca.receive # {} THEN ca.receive ELSE cb.receive),
                      rcv |-> Min(IF ca.random # {} THEN ca.random ELSE cb.random)]>>)
        [] (ca.receive \cup cb.receive) # {} /\ (ca.random \cup cb.random) # {} -> Fail
        [] OTHER -> Sites(<<>>)

\* The non-Concat case: one receive byte against one random byte is a
\* pair (the least name of each set), both kinds otherwise is a failure.
LeafOutcome(a, b) ==
  LET ca == Collect(a)
      cb == Collect(b)
      rcv == ca.receive \cup cb.receive
      rnd == ca.random \cup cb.random
  IN  CASE (Cardinality(ca.receive) = 1 /\ Cardinality(cb.random) = 1)
             \/ (Cardinality(cb.receive) = 1 /\ Cardinality(ca.random) = 1) ->
             Sites(<<[rcv |-> Min(IF ca.receive # {} THEN ca.receive ELSE cb.receive),
                      rnd |-> Min(IF ca.random # {} THEN ca.random ELSE cb.random)]>>)
        [] rcv # {} /\ rnd # {} -> Fail
        [] OTHER -> Sites(<<>>)

\* One call with a fresh visited set: it fails when a pair repeats an
\* expression of an earlier pair (circular dependency), when the two sides
\* differ in width, or at a failing leaf; otherwise its leaves' sites.
MatchConcatPair(a, b) ==
  LetBe(Traversal(a, b), LAMBDA t :
    LET IsLeaf(j) == ~(t[j][1].k = "concat" /\ t[j][2].k = "concat")
        leaves == [j \in DOMAIN t |-> IF IsLeaf(j) THEN LeafOutcome(t[j][1], t[j][2]) ELSE Sites(<<>>)]
    IN  IF \/ \E j \in DOMAIN t : \E i \in 1..(j - 1) : {t[j][1], t[j][2]} \cap {t[i][1], t[i][2]} # {}
           \/ \E j \in DOMAIN t : Width(t[j][1]) # Width(t[j][2])
           \/ \E j \in DOMAIN leaves : ~leaves[j].ok
        THEN Fail
        ELSE Sites(FlattenSeq([j \in DOMAIN leaves |-> leaves[j].sites])))

\* getConcatExprPairs is not part of these sources: the spec describes it
\* as finding the structurally parallel concatenations of an equality.
ConcatExprPairs(e) ==
  IF e.k = "eq" /\ e.kids[1].k = "concat" /\ e.kids[2].k = "concat"
  THEN {<<e.kids[1], e.kids[2]>>} ELSE {}

\* The outcome of one constraint of the set.
ConstraintSites(e) ==
  LET c == Collect(e)
      nrcv == Cardinality(c.receive)
      nrnd == Cardinality(c.random)
  IN  CASE nrcv = 1 /\ nrnd = 1 ->
             Sites(<<[rcv |-> Min(c.receive), rnd |-> Min(c.random)]>>)
        [] nrnd > 0 /\ nrcv = nrnd ->
             IF ConcatExprPairs(e) = {} THEN Fail
             ELSE LET p == CHOOSE p \in ConcatExprPairs(e) : TRUE IN MatchConcatPair(p[1], p[2])
        [] nrnd > 0 /\ nrcv > 0 -> Fail
        [] OTHER -> Sites(<<>>)

\* matchNoncePairs(constraints, remapping): every constraint must succeed
\* and no receive byte may be remapped twice, nor one remapped already by
\* the recipe (remap0).  Returns [ok, remap].
MatchNoncePairs(C, remap0) ==
  LetBe(SetToSeq(C), LAMBDA cs :
  LetBe([i \in DOMAIN cs |-> ConstraintSites(cs[i])], LAMBDA outs :
  LetBe(FlattenSeq([i \in DOMAIN outs |-> outs[i].sites]), LAMBDA sites :
    IF \/ \E i \in DOMAIN outs : ~outs[i].ok
       \/ \E i, j \in DOMAIN sites : i # j /\ sites[i].rcv = sites[j].rcv
       \/ \E i \in DOMAIN sites : sites[i].rcv \in DOMAIN remap0
    THEN [ok |-> FALSE, remap |-> remap0]
    ELSE [ok |-> TRUE,
          remap |-> remap0 @@ [r \in {sites[i].rcv : i \in DOMAIN sites} |->
                                 (CHOOSE x \in Range(sites) : x.rcv = r).rnd]])))

=============================================================================
