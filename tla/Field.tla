------------------------------- MODULE Field -------------------------------
(***************************************************************************)
(* The prime field F the circuit is written over (ark_ff PrimeField),     *)
(* shrunk to a small prime P.  Only the operations the gadgets use: add,   *)
(* sub, neg, mul, square, double, and inverse, which is partial.           *)
(***************************************************************************)
EXTENDS Naturals

CONSTANT P   \* the characteristic; an odd prime

ASSUME P \in Nat /\ P > 2 /\ \A d \in 2 .. P - 1 : P % d # 0

F == 0 .. P - 1

FAdd(a, b) == (a + b) % P
FNeg(a)    == (P - a) % P
FSub(a, b) == FAdd(a, FNeg(b))
FMul(a, b) == (a * b) % P
FSquare(a) == FMul(a, a)
FDouble(a) == FAdd(a, a)

(* inverse() returns None on zero.  FInv(0) is 0, what                    *)
(* inverse().unwrap_or(F::zero()) gives; where the code unwraps instead   *)
(* (or divides, which unwraps), the caller tests HasInverse and panics.    *)
HasInverse(a) == a # 0
FInv(a)       == IF a = 0 THEN 0 ELSE CHOOSE b \in F : FMul(a, b) = 1
FDiv(a, b)    == FMul(a, FInv(b))

=============================================================================
