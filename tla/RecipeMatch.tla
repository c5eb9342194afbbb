----------------------------- MODULE RecipeMatch -----------------------------
(***************************************************************************)
(* The recipe matching engine of Recipe.cpp.  Between the engine's trigger *)
(* points the program runs (registers, memory, pc and path constraints     *)
(* change); at a trigger point (a call, a symbolic pc, an indirect call or *)
(* jump through a symbolic register) the engine tries the loaded recipes   *)
(* and emits a "PoV ready" event for each recipe whose preconditions it    *)
(* could satisfy.  A trigger is one atomic step: the engine runs the whole *)
(* search synchronously inside the callback.                               *)
(***************************************************************************)
EXTENDS RecipeExpr

CONSTANTS
  GPRs,        \* general purpose registers
  EIP,         \* the instruction pointer register
  ModuleOf,    \* [Vals -> Modules \cup {NoModule}]: module of a pc
  NoModule,
  NoCbid,      \* cbid setting left empty
  Recipes,     \* m_recipes: [1..R -> descriptor], in name order
  IctiOffsets, \* displacements of call/jmp DWORD PTR [reg+off]
  InitRegs, InitMem, InitPc,
  ExprChoices,   \* values the program may load into a register or byte
  BranchChoices, \* conditions the program may branch on
  MaxEnv         \* bound on program steps

Regs == GPRs \cup {EIP}

VARIABLES
  regs,      \* general purpose registers
  mem,       \* memory, one expression per address
  pc,        \* concrete program counter
  pathCons,  \* path constraints of the state
  envSteps,  \* program steps taken (bounded)
  emitted,   \* onPovReady events of the last step, in emission order
  halted     \* an s2e_assert killed the state

vars == <<regs, mem, pc, pathCons, envSteps, emitted, halted>>

-----------------------------------------------------------------------------
(* Results of the code's bool functions: ok, fail (return false) or       *)
(* assert (s2e_assert fired).                                             *)

Ok(v) == [st |-> "ok", val |-> v]
Fail == [st |-> "fail"]
Aborted == [st |-> "aborted"]

EmptyRc == [constraints |-> {}, usedRegs |-> {}, usedExprs |-> {}, remap |-> <<>>]

\* Recipe::getRegExpr / getRegbyteExpr (registers are one byte wide).
GetRegExpr(sc, r) ==
  IF r = EIP THEN IF sc.nextEip # NullExpr THEN sc.nextEip ELSE Const(pc)
             ELSE regs[r]

\* ModuleExecutionDetector::readMemory8 returns null outside the map.
ReadMemory8(a) == IF a \in Mapped THEN Ok(mem[a]) ELSE Fail

\* Recipe::getLeftExpr.  Pointers are added without truncation.
GetLeftExpr(sc, l) ==
  CASE l.type = "REGBYTE" -> Ok(GetRegExpr(sc, l.reg))
    [] l.type = "ADDR" -> ReadMemory8(l.addr)
    [] l.type = "REGPTR" ->
         LET base == GetRegExpr(sc, l.reg)
         IN  IF ~IsConst(base) THEN Aborted ELSE ReadMemory8(base.val + l.offset)
    [] l.type = "REGPTR_PTR" ->
         LET base == GetRegExpr(sc, l.reg)
             ptr == ReadMemory8(base.val + l.offset)
         IN  CASE ~IsConst(base) -> Aborted
               [] ptr.st # "ok" -> Fail
               [] ~IsConst(ptr.val) -> Aborted
               [] OTHER -> ReadMemory8(ptr.val.val + l.memOffset)
    [] l.type = "REGPTR_EXEC" -> Aborted

\* Recipe::isSymbolicRegPtr
IsSymbolicRegPtr(sc, l) ==
  l.type \in {"REGPTR", "REGPTR_EXEC"} /\ ~IsConst(GetRegExpr(sc, l.reg))

\* Recipe::checkUsedRegs
CheckUsedRegs(l, usedRegs) ==
  l.type \in {"REGBYTE", "REGPTR", "REGPTR_PTR"} /\ l.reg \in usedRegs

\* The constraint a CONCRETE or REGBYTE right side asks of left.
RightConstraint(sc, left, right) ==
  E_EQ(left, IF right.type = "REGBYTE" THEN GetRegExpr(sc, right.reg)
                                       ELSE Const(right.value))

\* Mutant: the remapping recorded the wrong way round (role -> variable).
ApplySimplePreconditionSwappedRemap(sc, left, right, rc) ==
  LET l == [rc EXCEPT !.usedExprs = @ \cup ExtractSymbolicBytes(left)]
  IN  IF right.type = "NEGOTIABLE"
      THEN IF IsConst(left) \/ left.var \in DOMAIN l.remap THEN Fail
           ELSE Ok([l EXCEPT !.remap = (right.name :> left.var) @@ @])
      ELSE LET c == RightConstraint(sc, left, right)
           IN  IF FoldsFalse(c) THEN Fail
               ELSE Ok([l EXCEPT !.constraints = @ \cup {c}])

\* Recipe::applySimplePrecondition, on a copy of the recipe conditions.
\* (Widths always match: every left is a byte; a symbolic byte depends on
\* exactly one one-byte variable.)
ApplySimplePrecondition(sc, left, right, rc) ==
  LET l == [rc EXCEPT !.usedExprs = @ \cup ExtractSymbolicBytes(left)]
  IN  IF right.type = "NEGOTIABLE"
      THEN IF IsConst(left) \/ left.var \in DOMAIN l.remap THEN Fail
           ELSE Ok([l EXCEPT !.remap = (left.var :> right.name) @@ @])
      ELSE LET c == RightConstraint(sc, left, right)
           IN  IF FoldsFalse(c) THEN Fail
               ELSE Ok([l EXCEPT !.constraints = @ \cup {c}])

(* The loops of Recipe.cpp that call applySimplePrecondition on one       *)
(* RecipeConditions, one precondition after the other, stopping at the    *)
(* first failure.  A precondition's constraint, used bytes and remapping  *)
(* do not depend on what the earlier ones added, except that a NEGOTIABLE *)
(* fails on a variable an earlier one remapped; so the loop is stated by  *)
(* the status of each step and its first failing step.                    *)

\* A step of such a loop: its left byte, or the status ("fail", "aborted",
\* "skip") the loop gives it without calling applySimplePrecondition.
Item(st, left, right) == [st |-> st, left |-> left, right |-> right]

\* The status of step j, given the result outs[j] of its
\* applySimplePrecondition on the loop's starting conditions.
ItemStatus(items, outs, j) ==
  LET RemappedBefore ==
        \E i \in 1..(j - 1) : /\ outs[i].st = "ok"
                              /\ items[i].right.type = "NEGOTIABLE"
                              /\ items[i].left.var = items[j].left.var
  IN  CASE items[j].st # "ok" -> items[j].st
        [] outs[j].st # "ok" -> "fail"
        [] items[j].right.type = "NEGOTIABLE" /\ RemappedBefore -> "fail"
        [] OTHER -> "ok"

\* The conditions after a loop whose steps all succeeded with results outs.
Applied(rc, outs, done) ==
  LET remapped == UNION {DOMAIN outs[j].val.remap : j \in done}
  IN  [constraints |-> rc.constraints \cup UNION {outs[j].val.constraints : j \in done},
       usedRegs |-> rc.usedRegs,
       usedExprs |-> rc.usedExprs \cup UNION {outs[j].val.usedExprs : j \in done},
       remap |-> [x \in remapped \cup DOMAIN rc.remap |->
                    IF x \in DOMAIN rc.remap THEN rc.remap[x]
                    ELSE LET j == CHOOSE j \in done : x \in DOMAIN outs[j].val.remap
                         IN  outs[j].val.remap[x]]]

\* The RecipeConditions after the loop, or its first failure.
ApplySequentially(sc, items, rc) ==
  LetBe(items, LAMBDA its :
  LetBe([j \in DOMAIN its |->
           IF its[j].st = "ok" THEN ApplySimplePrecondition(sc, its[j].left, its[j].right, rc)
           ELSE Fail], LAMBDA outs :
  LetBe([j \in DOMAIN its |-> ItemStatus(its, outs, j)], LAMBDA stat :
  LetBe(SelectInSeq(stat, LAMBDA st : st \in {"fail", "aborted"}), LAMBDA bad :
    CASE bad > 0 /\ stat[bad] = "aborted" -> Aborted
      [] bad > 0 -> Fail
      [] OTHER -> Ok(Applied(rc, outs, {j \in DOMAIN its : stat[j] = "ok"}))))))

\* The group's preconditions placed at base: each reads its byte with
\* readMemory8; a null read gives the step status onNull.
MemItems(mp, base, onNull) ==
  [j \in DOMAIN mp.preconditions |->
     LET p == mp.preconditions[j]
         r == ReadMemory8(base + p.left.offset)
     IN  IF r.st = "ok" THEN Item("ok", r.val, p.right) ELSE Item(onNull, NullExpr, p.right)]

\* Offsets Recipe::testMemPrecondition tries in a region.
TestOffsets(seq, mp) == 0..(seq.size - mp.requiredMemSize - 1)

\* Recipe::testMemPrecondition: the first offset at which every
\* precondition of the group applies and the constraints so far stay
\* satisfiable with the path (a superset being satisfiable, the check after
\* each step is the check after the last), or -1.
TestMemPrecondition(sc, mp, seq, rc) ==
  LET Works(i) == LetBe(ApplySequentially(sc, MemItems(mp, seq.addr + i, "fail"), rc),
                        LAMBDA a : a.st = "ok" /\ TestConstraints(pathCons, a.val.constraints))
  IN  LetBe({i \in TestOffsets(seq, mp) : Works(i)}, LAMBDA good :
        IF good = {} THEN -1 ELSE Min(good))

\* One iteration of the region loop of Recipe::applyMemPrecondition: the
\* region is too short, has no good offset, fails the pointer constraint,
\* fails the real application, or gives its result.
RegionOutcome(sc, mp, seq, rc) ==
  IF seq.size < mp.requiredMemSize THEN [st |-> "short"]
  ELSE LetBe(TestMemPrecondition(sc, mp, seq, rc), LAMBDA offset :
       IF offset < 0 THEN [st |-> "nooff"]
       ELSE LetBe(ApplySimplePrecondition(sc, mp.ptrExpr,
                    [type |-> "CONCRETE", value |-> seq.addr + offset], rc), LAMBDA ptr :
            IF ptr.st # "ok" THEN [st |-> "ptrfail"]
            ELSE LetBe(ApplySequentially(sc, MemItems(mp, seq.addr + offset, "aborted"),
                                         ptr.val), LAMBDA real :
                 IF real.st = "fail" THEN [st |-> "realfail"] ELSE real)))

\* The region loop: it stops at the first region that gives a result.
\* Otherwise `satisfiable' is what the last region not skipped as too short
\* left in it, and a pointer constraint that failed leaves it true.
MemRegionLoop(sc, mp, seqs, rc) ==
  LetBe([k \in DOMAIN seqs |-> RegionOutcome(sc, mp, seqs[k], rc)], LAMBDA out :
  LET hit == SelectInSeq(out, LAMBDA o : o.st \in {"ok", "aborted"})
      setters == {k \in DOMAIN out : out[k].st # "short"}
      satisfiable == setters # {} /\ out[Max(setters)].st = "ptrfail"
  IN  CASE hit > 0 -> out[hit]
        [] satisfiable -> Ok(rc)
        [] OTHER -> Fail)

\* Recipe::applyMemPrecondition
ApplyMemPrecondition(sc, mp, rc) ==
  LetBe([rc EXCEPT !.usedExprs = @ \cup ExtractSymbolicBytes(mp.ptrExpr)], LAMBDA l :
  LetBe(SortDescending(PruneSymbolicSequences(mem, l.usedExprs,
                         FindSequencesOfSymbolicData(mem, mp.exec))), LAMBDA seqs :
    IF seqs = <<>> THEN Fail ELSE MemRegionLoop(sc, mp, seqs, l)))

\* Recipe::classifyPreconditions: the simple preconditions in order, and
\* one MemPrecondition per register that holds a symbolic pointer.
ClassifyPreconditions(sc, ps) ==
  LET SymPtr(p) == IsSymbolicRegPtr(sc, p.left)
      G(r) == {j \in DOMAIN ps : SymPtr(ps[j]) /\ ps[j].left.reg = r}
  IN  [simple |-> SelectSeq(ps, LAMBDA p : ~SymPtr(p)),
       memory |-> [r \in {ps[j].left.reg : j \in {j \in DOMAIN ps : SymPtr(ps[j])}} |->
         [ptrExpr |-> GetRegExpr(sc, r),
          requiredMemSize |-> Max({ps[j].left.offset + 1 : j \in G(r)}),
          exec |-> \E j \in G(r) : ps[j].left.type = "REGPTR_EXEC",
          preconditions |-> SelectSeq(ps, LAMBDA p : /\ SymPtr(p) /\ p.left.reg = r
                                                     /\ p.left.type # "REGPTR_EXEC")]]]

ExecutablePages == {Page(a) : a \in Exec}

\* The loop over simple preconditions of Recipe::applyPreconditions: an
\* executable-pointer check, the used-register check, then getLeftExpr.
SimpleItems(sc, ps, rc) ==
  [j \in DOMAIN ps |->
     LET p == ps[j]
         left == GetLeftExpr(sc, p.left)
     IN  CASE p.left.type = "REGPTR_EXEC" ->
                Item(IF Page(GetRegExpr(sc, p.left.reg).val) \in ExecutablePages
                     THEN "skip" ELSE "fail", NullExpr, p.right)
           [] CheckUsedRegs(p.left, rc.usedRegs) -> Item("fail", NullExpr, p.right)
           [] left.st # "ok" -> Item(left.st, NullExpr, p.right)
           [] OTHER -> Item("ok", left.val, p.right)]

\* Recipe::applyPreconditions
ApplyPreconditions(sc, ps, rc) ==
  LetBe(ClassifyPreconditions(sc, ps), LAMBDA cls :
  LetBe(ApplySequentially(sc, SimpleItems(sc, cls.simple, rc), rc), LAMBDA simple :
    CASE simple.st # "ok" -> simple
      [] Cardinality(DOMAIN cls.memory) > 1 -> Aborted
      [] DOMAIN cls.memory = {} ->
           IF TestConstraints(pathCons, simple.val.constraints) THEN simple ELSE Fail
      [] OTHER ->
           LetBe(ApplyMemPrecondition(sc, cls.memory[CHOOSE r \in DOMAIN cls.memory : TRUE],
                                      simple.val), LAMBDA memRes :
             CASE memRes.st # "ok" -> memRes
               [] ~TestConstraints(pathCons, memRes.val.constraints) -> Fail
               [] OTHER -> memRes)))

\* RecipeDescriptor::mustTryRecipe (eip is state->getPc()).
MustTryRecipe(recipe, sc) ==
  /\ recipe.cbid = NoCbid \/ recipe.cbid = sc.module
  /\ \/ sc.eipType = "SYMBOLIC"
     \/ sc.eipType = "CONCRETE" /\ recipe.eipType = "CONCRETE" /\ recipe.target = pc

\* The onPovReady event of recipe n.
PovReadyEvent(n, rc, trig) ==
  [recipe |-> n, type |-> Recipes[n].type, pc |-> pc,
   constraints |-> rc.constraints, remap |-> rc.remap, trig |-> trig]

\* Recipe::tryRecipes: every recipe starts from the caller's conditions rc;
\* the events of the recipes that succeed, in load order, up to the first
\* one whose search hits an s2e_assert (the events before it are emitted).
TryRecipes(sc, rc, trig) ==
  LetBe([n \in DOMAIN Recipes |->
           IF MustTryRecipe(Recipes[n], sc)
           THEN ApplyPreconditions(sc, Recipes[n].preconditions, rc) ELSE Fail], LAMBDA res :
  LET stop == SelectInSeq(res, LAMBDA r : r.st = "aborted")
      ok == SelectSeq([n \in 1..(IF stop = 0 THEN Len(Recipes) ELSE stop - 1) |-> n],
                      LAMBDA n : res[n].st = "ok")
  IN  [st |-> IF stop = 0 THEN "ok" ELSE "aborted",
       val |-> [i \in DOMAIN ok |-> PovReadyEvent(ok[i], res[ok[i]].val, trig)]])

-----------------------------------------------------------------------------
(* Trigger points.  Each one is a whole callback: it builds the            *)
(* StateConditions, runs the search and emits the onPovReady events; an    *)
(* s2e_assert on the way kills the state.                                  *)

Finish(res) ==
  /\ emitted' = res.val
  /\ halted' = (res.st = "aborted")
  /\ UNCHANGED <<regs, mem, pc, pathCons, envSteps>>

Tracked(a) == ModuleOf[a] # NoModule

\* Recipe::onAfterCall: the module is the one of the call instruction.
OnAfterCall(callPc) ==
  /\ Tracked(callPc)
  /\ Finish(TryRecipes([eipType |-> "CONCRETE", module |-> ModuleOf[callPc], nextEip |-> NullExpr],
                       EmptyRc, [kind |-> "call"]))

\* The symbolic expressions a computed jump, call or ret can target.
SymbolicTargets == {e \in {regs[r] : r \in GPRs} \cup {mem[a] : a \in Mapped} : ~IsConst(e)}

\* Recipe::onSymbolicAddress with reason PC.
OnSymbolicAddress(nextEip) ==
  /\ Tracked(pc)
  /\ Finish(TryRecipes([eipType |-> "SYMBOLIC", module |-> ModuleOf[pc], nextEip |-> nextEip],
                       EmptyRc, [kind |-> "sympc", nextEip |-> nextEip]))

\* The byte addresses of the sorted regions, in the order the ICTI loop
\* visits them (pointers are one byte wide).
IctiCandidates(seqs) ==
  FlattenSeq([k \in DOMAIN seqs |-> [i \in 1..seqs[k].size |-> seqs[k].addr + i - 1]])

\* Mutant: the register value computed as addr + offset.
IctiRegValPlus(a, off) == (a + off) % N

\* The register value that makes [reg+off] hit address a, wrapped to the
\* pointer width.
IctiRegVal(a, off) == (a - off) % N

\* One iteration of the loop of Recipe::tryRecipesOnICTI: the pointer
\* constraint and used register and bytes, then tryRecipes with the byte
\* at a as the next EIP.  A constraint that folds to false skips a.
IctiAttempt(a, r, off, module) ==
  LET c == E_EQ(regs[r], Const(IctiRegVal(a, off)))
      rc == [constraints |-> {c}, usedRegs |-> {r},
             usedExprs |-> ExtractSymbolicBytes(mem[a]), remap |-> <<>>]
  IN  IF FoldsFalse(c) THEN [st |-> "ok", val |-> <<>>]
      ELSE TryRecipes([eipType |-> "SYMBOLIC", module |-> module, nextEip |-> mem[a]], rc,
                      [kind |-> "icti", reg |-> r, off |-> off, addr |-> a])

\* Recipe::handleICTI / tryRecipesOnICTI for call/jmp DWORD PTR [r+off]
\* through a symbolic register: the loop stops at the first candidate for
\* which some recipe succeeds (or an s2e_assert fires).
HandleICTI(r, off) ==
  /\ ~IsConst(regs[r])
  /\ Tracked(pc)
  /\ LET seqs == SortDescending(FindSequencesOfSymbolicData(mem, FALSE))
         cands == IctiCandidates(seqs)
         tries == [k \in DOMAIN cands |-> IctiAttempt(cands[k], r, off, ModuleOf[pc])]
         first == SelectInSeq(tries, LAMBDA t : t.st = "aborted" \/ t.val # <<>>)
     IN  /\ seqs # <<>>
         /\ Finish(IF first = 0 THEN [st |-> "ok", val |-> <<>>] ELSE tries[first])

-----------------------------------------------------------------------------
(* The program between trigger points: it loads registers and memory,      *)
(* jumps, and branches on symbolic data (the engine keeps the feasible     *)
(* side).                                                                  *)

ProgramStep ==
  /\ envSteps < MaxEnv
  /\ envSteps' = envSteps + 1
  /\ emitted' = <<>>
  /\ UNCHANGED halted

SetReg(r, e) == ProgramStep /\ regs' = [regs EXCEPT ![r] = e] /\ UNCHANGED <<mem, pc, pathCons>>
SetMem(a, e) == ProgramStep /\ mem' = [mem EXCEPT ![a] = e] /\ UNCHANGED <<regs, pc, pathCons>>
Jump(p) == ProgramStep /\ pc' = p /\ UNCHANGED <<regs, mem, pathCons>>
Branch(c) ==
  /\ TestConstraints(pathCons, {c})
  /\ ProgramStep
  /\ pathCons' = pathCons \cup {c}
  /\ UNCHANGED <<regs, mem, pc>>

Init ==
  /\ regs = InitRegs
  /\ mem = InitMem
  /\ pc = InitPc
  /\ pathCons = {}
  /\ envSteps = 0
  /\ emitted = <<>>
  /\ halted = FALSE

\* A killed state is gone: nothing happens to it any more.
Killed == halted /\ UNCHANGED vars

Running ==
  \/ \E a \in Vals : OnAfterCall(a)
  \/ \E e \in SymbolicTargets : OnSymbolicAddress(e)
  \/ \E r \in GPRs, off \in IctiOffsets : HandleICTI(r, off)
  \/ \E r \in GPRs, e \in ExprChoices : SetReg(r, e)
  \/ \E a \in Mapped, e \in ExprChoices : SetMem(a, e)
  \/ \E p \in Vals : Jump(p)
  \/ \E c \in BranchChoices : Branch(c)

Next == Killed \/ (~halted /\ Running)

Spec == Init /\ [][Next]_vars

-----------------------------------------------------------------------------
(* Properties.                                                             *)

NegotiableNames ==
  {p.right.name : p \in UNION {Range(Recipes[n].preconditions) : n \in DOMAIN Recipes}}
Remaps == UNION {[D -> NegotiableNames] : D \in SUBSET Vars}
Triggers ==
  [kind : {"call"}] \cup [kind : {"sympc"}, nextEip : Exprs] \cup
  [kind : {"icti"}, reg : GPRs, off : IctiOffsets, addr : Addrs]
\* An onPovReady event: the recipe, its PoV type, the fault pc, the extra
\* constraints, the remapping and the trigger that produced it.
EventOK(ev) ==
  /\ DOMAIN ev = {"recipe", "type", "pc", "constraints", "remap", "trig"}
  /\ ev.recipe \in DOMAIN Recipes
  /\ ev.type \in {"TYPE1", "TYPE2"}
  /\ ev.pc \in Vals
  /\ ev.constraints \subseteq Atoms
  /\ ev.remap \in Remaps
  /\ ev.trig \in Triggers

TypeOK ==
  /\ regs \in [GPRs -> Exprs]
  /\ mem \in [Addrs -> Exprs]
  /\ pc \in Vals
  /\ pathCons \subseteq Atoms
  /\ envSteps \in 0..MaxEnv
  /\ DOMAIN emitted = 1..Len(emitted)
  /\ \A i \in DOMAIN emitted : EventOK(emitted[i])
  /\ halted \in BOOLEAN

(* What a precondition means on the concrete machine the PoV replays: the *)
(* registers and memory under an input assignment s, the instruction       *)
(* pointer being where the trigger sends it, pointers wrapping at 2^W and  *)
(* an unmapped byte (value -1) satisfying nothing.                         *)
RefMem(s, a) == IF a \in Mapped THEN Eval(mem[a], s) ELSE -1
RefEip(ev, s) ==
  CASE ev.trig.kind = "call" -> ev.pc
    [] ev.trig.kind = "sympc" -> Eval(ev.trig.nextEip, s)
    [] ev.trig.kind = "icti" -> RefMem(s, (Eval(regs[ev.trig.reg], s) + ev.trig.off) % N)
RefReg(ev, s, r) == IF r = EIP THEN RefEip(ev, s) ELSE Eval(regs[r], s)
RefDeref(s, base, off) == IF base < 0 THEN -1 ELSE RefMem(s, (base + off) % N)
RefLeft(ev, s, l) ==
  CASE l.type = "REGBYTE" -> RefReg(ev, s, l.reg)
    [] l.type = "ADDR" -> RefMem(s, l.addr)
    [] l.type = "REGPTR" -> RefDeref(s, RefReg(ev, s, l.reg), l.offset)
    [] l.type = "REGPTR_PTR" ->
         RefDeref(s, RefDeref(s, RefReg(ev, s, l.reg), l.offset), l.memOffset)
PreconditionHolds(ev, s, p) ==
  IF p.left.type = "REGPTR_EXEC"
  THEN Page(RefReg(ev, s, p.left.reg)) \in ExecutablePages
  ELSE LET v == RefLeft(ev, s, p.left)
       IN  /\ v >= 0
           /\ CASE p.right.type = "CONCRETE" -> v = p.right.value
                [] p.right.type = "REGBYTE" -> v = RefReg(ev, s, p.right.reg)
                [] p.right.type = "NEGOTIABLE" ->
                     \E x \in DOMAIN ev.remap : ev.remap[x] = p.right.name /\ v = s[x]

(* onPovReady is sound: for every event tryRecipes emits, the path        *)
(* constraints together with the event's extra constraints have a model,  *)
(* and in every such model every precondition of the recipe holds on the  *)
(* machine, a NEGOTIABLE byte being the variable remapped to its role.   *)
(* This is what the simple, memory-group and ICTI searches of Recipe.cpp  *)
(* together must guarantee.                                               *)
PovReadyIsSound ==
  \A i \in DOMAIN emitted :
    LET ev == emitted[i]
        M == Models(pathCons \cup ev.constraints)
    IN  /\ M # {}
        /\ \A s \in M, j \in DOMAIN Recipes[ev.recipe].preconditions :
              PreconditionHolds(ev, s, Recipes[ev.recipe].preconditions[j])

=============================================================================
