--------------------------- MODULE MCPovGenerator ---------------------------
(***************************************************************************)
(* PovGenerator for TLC: two receive bytes (arrays 1, 2) and two random   *)
(* bytes (3, 4), one-bit bytes, two execution states.             *)
(***************************************************************************)
EXTENDS PovGenerator, TLC

CONSTANT EIP0  \* the role of a recipe's NEGOTIABLE byte (a model value)

MCArrays == 1..4
MCArrayKind == (1 :> "receive") @@ (2 :> "receive") @@ (3 :> "random") @@ (4 :> "random")
MCStates == 1..2

\* A two-byte nonce echoed back in one comparison of concatenations.
NonceConcat == Eq(Concat(Read(1), Read(2)), Concat(Read(3), Read(4)))
\* A merged branch on the input: byte 2 matters only when byte 1 is 1.
MergedInput == Eq(Select(Eq(Read(1), CB(1)), Read(2), CB(1)), CB(1))
\* One input byte compared with one random byte.
NonceByte == Eq(Read(1), Read(3))

NoExtras == [extras |-> {}, remap |-> <<>>]
ForceByte1 == [extras |-> {Eq(Read(1), CB(1))}, remap |-> <<>>]
Negotiated == [extras |-> {}, remap |-> (1 :> EIP0)]

MCConds == {NonceConcat}
MCCondsMerged == {MergedInput}
MCCondsNonceByte == {NonceByte}
MCOptions == {NoExtras, ForceByte1, Negotiated}
MCRoles == {EIP0}
\* Seed inputs: all zero, the nonce echoed with byte 1 set, or an input
\* that does not echo the nonce (the fork then hands the equal side to the
\* new state).
MCSeeds == {[a \in MCArrays |-> 0], (1 :> 1) @@ (2 :> 0) @@ (3 :> 1) @@ (4 :> 0),
            (1 :> 1) @@ (2 :> 0) @@ (3 :> 0) @@ (4 :> 0)}
=============================================================================
