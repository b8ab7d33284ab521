------------------------------ MODULE MCDriver ------------------------------
(***************************************************************************)
(* Model-checking instances of Driver over the field of 5 elements, with  *)
(* 7 as the other field of the cycle (larger, as Fq is larger than Fp).   *)
(***************************************************************************)
EXTENDS Driver

\* The all-zero and the "one" 16-bit vectors, LSB first.
MCPackBits == {[i \in 1 .. 16 |-> 0], [i \in 1 .. 16 |-> IF i = 1 THEN 1 ELSE 0]}

\* A constants bundle over F_5: round constants and an MDS matrix.
MCRoundConstants == [r \in 0 .. 54 |-> [c \in 0 .. 2 |-> (r + 2 * c) % 5]]
MCMds == [i \in 0 .. 2 |-> [j \in 0 .. 2 |-> IF i = j THEN 2 ELSE 1]]

\* The generic gadgets the spec and the tests expect to verify with an
\* honest witness.
CompleteGadgets ==
    {"var", "constant", "assert_eq", "or", "add", "sub", "equals", "scale",
     "cond_select", "zk", "assert_pack"}

\* The same with poseidon, whose digest the generic gadgets consume.
CompleteHashGadgets == CompleteGadgets \cup {"poseidon"}

\* Every custom-gate gadget on curve points and scalars: the complete-
\* addition gadgets, endo and the scalar endo_scalar makes, scalar_mul and
\* the shifted scalar scalar makes.
CurveGadgets == {"var", "endo_scalar", "add_group", "double", "endo", "assert_add_group",
                 "scalar", "scalar_mul"}

\* The gadgets that enforce a relation, assert_eq among them; and and
\* equals_old are in, whose incomplete rows break honest witnesses.
EnforcingGadgets == {"var", "constant", "assert_eq", "and", "or", "add", "sub", "equals",
                     "equals_old", "scale", "cond_select", "zk"}

\* The gadgets each violation run lets the closure call.
AndOnly == {"var", "and"}
EqualsOldOnly == {"var", "equals_old"}
\* constant supplies the second gate create() needs; assert_pack emits none.
PackAndConstant == {"var", "assert_pack", "constant"}

\* One public input, so the public rows of both drivers take part.
MCPublicInputs == <<3>>

\* A boolean public input, for the runs of boolean gadgets.
MCBoolPublicInputs == <<1>>

=============================================================================
