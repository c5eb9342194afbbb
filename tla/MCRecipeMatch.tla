--------------------------- MODULE MCRecipeMatch ---------------------------
(***************************************************************************)
(* A small instance of the recipe engine: 2-bit bytes (4 addresses, all    *)
(* mapped, the first page executable), two registers besides EIP, two     *)
(* input variables and a recipe directory exercising every Left and Right *)
(* kind, a concrete-EIP recipe, a module filter and a memory group.       *)
(***************************************************************************)
EXTENDS RecipeMatch, TLC

CONSTANTS x1, x2

\* Preconditions as RecipeDescriptor::parsePreconditionLine builds them.
L(type, reg, addr, offset, memOffset) ==
  [type |-> type, reg |-> reg, addr |-> addr, offset |-> offset, memOffset |-> memOffset]
RegByte(r) == L("REGBYTE", r, 0, 0, 0)
AtAddr(a) == L("ADDR", "EAX", a, 0, 0)
RegPtr(r, o) == L("REGPTR", r, 0, o, 0)
RegPtrPtr(r, o, m) == L("REGPTR_PTR", r, 0, o, m)
RegPtrExec(r) == L("REGPTR_EXEC", r, 0, 0, 0)
R(type, value, reg, name) == [type |-> type, value |-> value, reg |-> reg, name |-> name]
Conc(v) == R("CONCRETE", v, "EAX", "none")
RegR(r) == R("REGBYTE", 0, r, "none")
Neg(name) == R("NEGOTIABLE", 0, "EAX", name)
P(l, r) == [left |-> l, right |-> r]
Recipe(cbid, eipType, target, type, pre) ==
  [cbid |-> cbid, eipType |-> eipType, target |-> target, type |-> type, preconditions |-> pre]

MCVars == {x1, x2}
MCGPRs == {"EAX", "ESI"}
MCTables == {Identity}
MCModuleOf == [v \in 0..3 |-> CASE v = 0 -> "lib" [] v = 3 -> "none" [] OTHER -> "svc"]

MCRecipes == <<
  \* a concrete-EIP recipe: EIP[0]==0x2, EAX[0]==0x1
  Recipe("", "CONCRETE", 2, "TYPE1", << P(RegByte("EIP"), Conc(2)), P(RegByte("EAX"), Conc(1)) >>),
  \* a type 1 recipe for the service: EIP[0]==TYPE1_EIP[0], EAX[0]==TYPE1_GP[0]
  Recipe("svc", "SYMBOLIC", 0, "TYPE1", << P(RegByte("EIP"), Neg("IP")), P(RegByte("EAX"), Neg("GP")) >>),
  \* a type 2 recipe with a memory group: [ESI+0]==0x2, [ESI+1]==EAX[0], [0x3]==EAX[0]
  Recipe("", "SYMBOLIC", 0, "TYPE2",
         << P(RegPtr("ESI", 0), Conc(2)), P(RegPtr("ESI", 1), RegR("EAX")), P(AtAddr(3), RegR("EAX")) >>),
  \* *EAX points to executable memory*, EIP[0]==EAX[0]
  Recipe("", "SYMBOLIC", 0, "TYPE1", << P(RegPtrExec("EAX"), Conc(0)), P(RegByte("EIP"), RegR("EAX")) >>),
  \* a one-byte memory group: [ESI+0]==EAX[0]
  Recipe("", "SYMBOLIC", 0, "TYPE2", << P(RegPtr("ESI", 0), RegR("EAX")) >>),
  \* [ESI+1][0]==0x3
  Recipe("", "SYMBOLIC", 0, "TYPE2", << P(RegPtrPtr("ESI", 1, 0), Conc(3)) >>)
>>

MCInitRegs == [r \in MCGPRs |-> IF r = "EAX" THEN Sym(x1) ELSE Const(0)]
MCInitMem == [a \in 0..3 |-> IF a \in {0, 1} THEN Sym(x2) ELSE Const(a)]
MCExprChoices == {Const(1), Sym(x1), Sym(x2)}
MCBranchChoices == {E_NE(Sym(x1), Const(1)), E_EQ(Sym(x2), Const(2))}

\* A jump table every entry of which points at address 3.
JumpTable == [v \in 0..3 |-> 3]
MCLutTables == {Identity, JumpTable}
MCLutExprChoices == MCExprChoices \cup {Lut(x1, JumpTable)}

=============================================================================
