----------------------------- MODULE RecipeExpr -----------------------------
(***************************************************************************)
(* Symbolic bytes, path constraints and symbolic memory regions, as the    *)
(* recipe engine (Recipe.cpp) sees them.                                   *)
(*                                                                         *)
(* A byte expression is a constant or a read of one symbolic byte variable *)
(* through a table: identity for a plain input byte, another table for a   *)
(* read from a constant array indexed by an input byte (a jump table).     *)
(* Bytes, words and addresses are W bits wide (one byte per register and   *)
(* per pointer in the model).  The constraint solver is modelled by what   *)
(* it decides: a set of constraints is satisfiable iff some assignment of  *)
(* the variables makes all of them true.                                   *)
(***************************************************************************)
EXTENDS Integers, FiniteSets, Sequences, SequencesExt

CONSTANTS
  Vars,      \* symbolic byte variables (model values)
  W,         \* width in bits of a byte, a word and an address
  Tables,    \* tables through which a variable can be read
  Mapped,    \* addresses of the memory map (readMemory8 fails elsewhere)
  Exec,      \* addresses of executable pages
  PageSize

N == 2^W
Vals == 0..(N - 1)
Addrs == Vals
Identity == [v \in Vals |-> v]

ASSUME W \in Nat \ {0} /\ Identity \in Tables /\ Tables \subseteq [Vals -> Vals]
ASSUME Exec \subseteq Mapped /\ Mapped \subseteq Addrs /\ PageSize \in 1..N

Const(v) == [k |-> "const", val |-> v]
Sym(x) == [k |-> "sym", var |-> x, tbl |-> Identity]
Lut(x, t) == [k |-> "sym", var |-> x, tbl |-> t]
\* ref<Expr>::isNull()
NullExpr == [k |-> "null"]

Exprs == [k : {"const"}, val : Vals] \cup [k : {"sym"}, var : Vars, tbl : Tables]

IsConst(e) == e.k = "const"

\* F applied to the value of e: e is evaluated once and F sees a value
\* (a LET names an expression, which TLC may evaluate at every use).
LetBe(e, F(_)) == CHOOSE v \in {F(x) : x \in {e}} : TRUE

\* A constraint (E_EQ, or a negated one on a branch of the program).
Atoms == [op : {"eq", "ne"}, lhs : Exprs, rhs : Exprs]
E_EQ(a, b) == [op |-> "eq", lhs |-> a, rhs |-> b]
E_NE(a, b) == [op |-> "ne", lhs |-> a, rhs |-> b]

Assignments == [Vars -> Vals]
Eval(e, s) == IF IsConst(e) THEN e.val ELSE e.tbl[s[e.var]]
Holds(c, s) == (Eval(c.lhs, s) = Eval(c.rhs, s)) = (c.op = "eq")
Models(C) == {s \in Assignments : \A c \in C : Holds(c, s)}

\* S2EExecutionState::testConstraints: path constraints plus extra ones.
TestConstraints(path, C) == Models(path \cup C) # {}

\* E_EQ constant-folds to false: two different constants, or a constant
\* that the table a variable is read through never yields.
FoldsFalse(c) ==
  LET TblRange(e) == {e.tbl[v] : v \in Vals}
      Misses(e, f) == IsConst(f) /\ ~IsConst(e) /\ f.val \notin TblRange(e)
  IN  /\ c.op = "eq"
      /\ \/ IsConst(c.lhs) /\ IsConst(c.rhs) /\ c.lhs.val # c.rhs.val
         \/ Misses(c.lhs, c.rhs)
         \/ Misses(c.rhs, c.lhs)

\* Recipe::extractSymbolicBytes: the non-constant bytes of an expression.
ExtractSymbolicBytes(e) == IF IsConst(e) THEN {} ELSE {e}

\* Recipe::exprIn
ExprIn(e, used) == e \in used

-----------------------------------------------------------------------------
(* Symbolic regions (AddrSize).                                           *)

Page(a) == a - (a % PageSize)

\* The maximal runs of consecutive addresses of S.
Runs(S) ==
  {r \in [addr : S, size : 1..N] :
      /\ \A i \in 0..(r.size - 1) : r.addr + i \in S
      /\ r.addr - 1 \notin S
      /\ r.addr + r.size \notin S}

\* FindSequencesOfSymbolicData(state, memoryMap, exec, out): maximal runs
\* of mapped (executable, if asked) addresses that hold symbolic bytes.
FindSequencesOfSymbolicData(mem, exec) ==
  Runs({a \in Mapped : ~IsConst(mem[a]) /\ (exec => a \in Exec)})

\* Recipe::pruneSymbolicSequences: every byte of a run whose expression is
\* already used is marked concrete, and the run is split at those bytes.
PruneSymbolicSequences(mem, used, seqs) ==
  UNION {{[addr |-> q.addr + r.addr, size |-> r.size] :
            r \in Runs({i \in 0..(q.size - 1) : ~ExprIn(mem[q.addr + i], used)})}
         : q \in seqs}

\* std::sort(rbegin, rend) with AddrSize's order: largest region first,
\* the higher address first among regions of the same size.
SortDescending(seqs) ==
  SetToSortSeq(seqs, LAMBDA a, b : a.size > b.size \/ (a.size = b.size /\ a.addr > b.addr))

=============================================================================
