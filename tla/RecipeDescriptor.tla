-------------------------- MODULE RecipeDescriptor --------------------------
(***************************************************************************)
(* The recipe file parser, RecipeDescriptor::fromFile and the two line     *)
(* parsers it calls, and RecipeDescriptor::mustTryRecipe.                  *)
(*                                                                         *)
(* A line is a token for the grammar case it matches (the regular          *)
(* expressions decide which); numbers stay text, a sequence of digits,     *)
(* because std::stoull(s, nullptr, 0) reads that text by its prefix: "0x"  *)
(* is hex, a leading 0 is octal (up to the first 8 or 9), anything else is *)
(* decimal, and a value beyond unsigned long long throws out_of_range,     *)
(* which nothing in the plugin catches.                                    *)
(***************************************************************************)
EXTENDS Integers, Sequences, SequencesExt, FiniteSets, TLC

CONSTANTS
  WordBits   \* width of unsigned long long (64 in the build)

ULLMax == 2^WordBits - 1
\* What the model records for a std::stoull that throws out_of_range.
OutOfRange == -1

\* F applied to the value of e, evaluated once.
LetBe(e, F(_)) == CHOOSE v \in {F(x) : x \in {e}} : TRUE

\* A numeral of numberRegex: "0x" and hex digits, or decimal digits.
Numeral(hex, digits) == [hex |-> hex, digits |-> digits]

\* std::stoull(s, nullptr, 0): the base from the prefix, then the longest
\* run of digits valid in that base; the rest of the text is ignored.
StoullBase(n) ==
  IF n.hex THEN 16 ELSE IF Len(n.digits) > 1 /\ n.digits[1] = 0 THEN 8 ELSE 10

Stoull(n) ==
  LetBe(StoullBase(n), LAMBDA b :
  LetBe(SelectInSeq(n.digits, LAMBDA d : d >= b), LAMBDA stop :
  LetBe(FoldLeft(LAMBDA acc, d : acc * b + d, 0,
                 IF stop = 0 THEN n.digits ELSE SubSeq(n.digits, 1, stop - 1)), LAMBDA v :
    IF v > ULLMax THEN OutOfRange ELSE v)))

\* The settings a descriptor starts with (RecipeDescriptor's constructor):
\* POV_GENERAL is no type, REG_INV no register.
Settings0 == [type |-> 0, gp |-> "REG_INV", regMask |-> 0, ipMask |-> 0, skip |-> 0, cbid |-> ""]
NoRight == [type |-> "NONE"]

\* The parse so far: "ok", "err" (goto err: fromFile returns NULL) or
\* "crash" (an exception escaped: the process terminates).
Start == [st |-> "ok", settings |-> Settings0, preconds |-> <<>>, eipType |-> "NONE", target |-> <<>>]
Fails(r) == [r EXCEPT !.st = "err"]
Crash(r) == [r EXCEPT !.st = "crash"]

\* parseSettingsLine: the last line of each setting wins.
SettingKinds == {"type", "gp", "regMask", "ipMask", "skip", "cbid"}
ParseSettingsLine(r, line) ==
  CASE line.k = "type" -> [r EXCEPT !.settings.type = line.n]
    [] line.k = "gp" -> [r EXCEPT !.settings.gp = line.reg]
    [] line.k = "cbid" -> [r EXCEPT !.settings.cbid = line.name]
    [] OTHER -> IF Stoull(line.num) = OutOfRange THEN Crash(r)
                ELSE [r EXCEPT !.settings[line.k] = Stoull(line.num)]

\* The numerals a Left or Right form hands to std::stoull.
Numbers(x) ==
  CASE x.k \in {"addr", "val"} -> <<x.num>>
    [] x.k = "regptr" -> <<x.off>>
    [] x.k = "regptrptr" -> <<x.off, x.off2>>
    [] OTHER -> <<>>

Throws(x) == \E i \in DOMAIN Numbers(x) : Stoull(Numbers(x)[i]) = OutOfRange

ParseLeft(l) ==
  CASE l.k = "regbyte" -> [type |-> "REGBYTE", reg |-> l.reg, idx |-> l.idx]
    [] l.k = "addr" -> [type |-> "ADDR", addr |-> Stoull(l.num)]
    [] l.k = "regptr" -> [type |-> "REGPTR", reg |-> l.reg, off |-> Stoull(l.off)]
    [] l.k = "regptrptr" -> [type |-> "REGPTR_PTR", reg |-> l.reg, off |-> Stoull(l.off),
                             off2 |-> Stoull(l.off2)]

ParseRight(x) ==
  CASE x.k = "val" -> [type |-> "CONCRETE", value |-> Stoull(x.num)]
    [] x.k = "char" -> [type |-> "CONCRETE", value |-> x.code]
    [] x.k = "tag" -> [type |-> "NEGOTIABLE", name |-> x.name, idx |-> x.idx]
    [] x.k = "regbyte" -> [type |-> "REGBYTE", reg |-> x.reg, idx |-> x.idx]

\* Mutant: the 8-bit check one too wide.
RightFitsOffByOne(x) == x.k = "val" => Stoull(x.num) <= 256

\* "Value must fit 8bit": v == truncateToNBits(v, Int8).
RightFits(x) == x.k = "val" => Stoull(x.num) < 256

Push(r, l, x) == [r EXCEPT !.preconds = Append(@, [left |-> l, right |-> x])]

\* parsePreconditionLine: the exec form, else LEFT==RIGHT with LEFT parsed
\* (and its numbers converted) before RIGHT is looked at.
ParsePreconditionLine(r, line) ==
  CASE line.k = "exec" -> Push(r, [type |-> "REGPTR_EXEC", reg |-> line.reg], NoRight)
    [] line.k # "assign" \/ line.left.k = "bad" -> Fails(r)
    [] Throws(line.left) -> Crash(r)
    [] line.right.k = "bad" -> Fails(r)
    [] Throws(line.right) -> Crash(r)
    [] ~RightFits(line.right) -> Fails(r)
    [] OTHER -> Push(r, ParseLeft(line.left), ParseRight(line.right))

\* One iteration of fromFile's loop over the lines ReadLines read and
\* trimmed: a line of blanks only is "blank" once trimmed.
ParseLine(r, line) ==
  CASE r.st # "ok" \/ line.k = "blank" -> r
    [] line.k \in SettingKinds -> ParseSettingsLine(r, line)
    [] OTHER -> ParsePreconditionLine(r, line)

\* isValid: a type is set, and a type 1 recipe names its GP register.
IsValid(s) == s.type # 0 /\ ~(s.type = 1 /\ s.gp = "REG_INV")

IsEipByte(p) == p.left.type = "REGBYTE" /\ p.left.reg = "EIP"

\* Mutant: the EIP bytes assembled big-endian.
TargetBytesBigEndian(bv, signExtends) ==
  <<bv[3], bv[2], bv[1], bv[0]>> \o [i \in 1..4 |-> IF signExtends /\ bv[3] >= 128 THEN 255 ELSE 0]

\* concreteTargetEIP as the 8 bytes of a uint64_t, little-endian.  The
\* uint8_t bytes are promoted to int, so b3 << 24 is negative when b3 has
\* its top bit set; whether the upper half is then 0 or sign-extended
\* depends on the declared width of the field, which these sources do not
\* include: signExtends chooses.
TargetBytes(bv, signExtends) ==
  <<bv[0], bv[1], bv[2], bv[3]>> \o [i \in 1..4 |-> IF signExtends /\ bv[3] >= 128 THEN 255 ELSE 0]

\* Mutant: a recipe that is not concrete left without a category.
ClassifyNoSymbolic(r, signExtends) ==
  LetBe(SelectSeq(r.preconds, IsEipByte), LAMBDA eip :
  LetBe(SelectInSeq(eip, LAMBDA p : p.right.type # "CONCRETE"), LAMBDA stop :
  LetBe(IF stop = 0 THEN eip ELSE SubSeq(eip, 1, stop - 1), LAMBDA conc :
    CASE ~IsValid(r.settings) -> Fails(r)
      [] Len(eip) > 4 -> Fails(r)
      [] \E i, j \in DOMAIN conc : i < j /\ conc[i].left.idx = conc[j].left.idx -> Fails(r)
      [] {conc[i].left.idx : i \in DOMAIN conc} = 0..3 ->
           [r EXCEPT !.eipType = "CONCRETE",
                     !.target = TargetBytes([b \in 0..3 |->
                                  conc[CHOOSE i \in DOMAIN conc : conc[i].left.idx = b].right.value],
                                  signExtends)]
      [] OTHER -> r)))

\* fromFile after the loop: validation, then the EIP category.  The loop
\* over the EIP preconditions stops at the first non-CONCRETE one and
\* rejects a byte index seen twice before it.
Classify(r, signExtends) ==
  LetBe(SelectSeq(r.preconds, IsEipByte), LAMBDA eip :
  LetBe(SelectInSeq(eip, LAMBDA p : p.right.type # "CONCRETE"), LAMBDA stop :
  LetBe(IF stop = 0 THEN eip ELSE SubSeq(eip, 1, stop - 1), LAMBDA conc :
    CASE ~IsValid(r.settings) -> Fails(r)
      [] Len(eip) > 4 -> Fails(r)
      [] \E i, j \in DOMAIN conc : i < j /\ conc[i].left.idx = conc[j].left.idx -> Fails(r)
      [] {conc[i].left.idx : i \in DOMAIN conc} = 0..3 ->
           [r EXCEPT !.eipType = "CONCRETE",
                     !.target = TargetBytes([b \in 0..3 |->
                                  conc[CHOOSE i \in DOMAIN conc : conc[i].left.idx = b].right.value],
                                  signExtends)]
      [] OTHER -> [r EXCEPT !.eipType = "SYMBOLIC"])))

\* RecipeDescriptor::fromFile on the lines of a file.
FromFile(lines, signExtends) ==
  LetBe(FoldLeft(ParseLine, Start, lines), LAMBDA r :
    IF r.st = "ok" THEN Classify(r, signExtends) ELSE r)

\* mustTryRecipe: the recipe's cbid, if set, names the module, and either
\* EIP is symbolic or both are concrete and the target is the pc.
MustTryRecipe(recipe, module, eipType, pc) ==
  /\ recipe.settings.cbid \in {"", module}
  /\ \/ eipType = "SYMBOLIC"
     \/ eipType = "CONCRETE" /\ recipe.eipType = "CONCRETE" /\ recipe.target = pc

=============================================================================
