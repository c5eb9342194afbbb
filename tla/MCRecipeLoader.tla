--------------------------- MODULE MCRecipeLoader ---------------------------
(***************************************************************************)
(* Recipe files for TLC.  unsigned long long is scaled from 64 to 12 bits  *)
(* (MCWordBits) so that a four-digit numeral overflows it as a 21-digit    *)
(* one overflows the real type; every literal below 4096 reads the same.   *)
(***************************************************************************)
EXTENDS RecipeLoader

MCWordBits == 12

\* Numerals as written in a recipe.
N65 == Numeral(FALSE, <<6, 5>>)
N200 == Numeral(FALSE, <<2, 0, 0>>)
N256 == Numeral(FALSE, <<2, 5, 6>>)
N9999 == Numeral(FALSE, <<9, 9, 9, 9>>)
X41 == Numeral(TRUE, <<4, 1>>)

\* *type 2*
Type2 == [k |-> "type", n |-> 2]
\* EIP[i]==num
EipVal(i, num) ==
  [k |-> "assign", left |-> [k |-> "regbyte", reg |-> "EIP", idx |-> i],
                   right |-> [k |-> "val", num |-> num]]
\* EIP[i]==EAX[0]
EipReg(i) ==
  [k |-> "assign", left |-> [k |-> "regbyte", reg |-> "EIP", idx |-> i],
                   right |-> [k |-> "regbyte", reg |-> "EAX", idx |-> 0]]

\* A type 2 recipe with a concrete EIP, a byte too large, a symbolic byte
\* and a numeral beyond unsigned long long.
MCLines == {Type2, EipVal(0, N65), EipVal(1, X41), EipVal(2, N65), EipVal(2, N256),
            EipVal(3, N200), EipReg(1), EipVal(1, N9999)}
MCLinesPartial == {Type2, EipVal(0, N65)}

=============================================================================
