------------------------------- MODULE Shifts -------------------------------
(***************************************************************************)
(* Shifts::new (kimchi/src/circuits/constraints.rs 151-205), which         *)
(* ConstraintSystem::create calls for the permutation argument: the first *)
(* shift is 1, and each other one is sampled until it is a quadratic       *)
(* non-residue outside the domain (sample) and differs from those before   *)
(* it; then every cell (col, row) is given shifts[col] * omega^row         *)
(* (cell_to_field), from which create builds the sigma polynomials.        *)
(* The field is a small prime Q and the domain d1 its subgroup of order N. *)
(* Blake2b of the counter is a random oracle: each call of sample draws    *)
(* any element of Samples, so the counter itself is not state.             *)
(***************************************************************************)
EXTENDS Naturals, FiniteSets

CONSTANTS
    Q,         \* the field's characteristic
    N,         \* domain.d1.size, a power of two dividing Q - 1
    Samples    \* the field elements the hash can yield

ASSUME Q \in Nat /\ Q > 2 /\ (Q - 1) % N = 0 /\ (Q - 1) * (Q - 1) < 2147483647
ASSUME Samples \subseteq 0 .. Q - 1

PERMUTS == 7   \* wires::PERMUTS

Fq == 0 .. Q - 1

VARIABLES
    shifts,   \* [0 .. PERMUTS - 1 -> Fq], zero where not yet sampled
    idx,      \* the shift the loop samples
    map,      \* cell (col, row) -> field element, once built
    pc        \* "sample" or "done"

vars == <<shifts, idx, map, pc>>

\* b^e in the field, reduced at each step.
RECURSIVE PowMod(_, _)
PowMod(b, e) == IF e = 0 THEN 1 ELSE (b * PowMod(b, e - 1)) % Q

\* The domain's elements omega^0 .. omega^(N-1), omega of order N.
Omega == CHOOSE w \in Fq : \A r \in 1 .. N - 1 : PowMod(w, r) # 1 /\ PowMod(w, N) = 1
Element(r) == PowMod(Omega, r)

\* shift.legendre().is_qnr(): non-zero and not a square.
IsQnr(v) == v # 0 /\ ~\E y \in Fq : (y * y) % Q = v

\* domain.evaluate_vanishing_polynomial(shift): shift^N - 1.
Vanishing(v) == (PowMod(v, N) + Q - 1) % Q

\* Variant: the vanishing test negated, an element of the domain kept.
GoodInDomain(v) == IsQnr(v) /\ Vanishing(v) = 0

\* The condition that ends sample's loop (line 191).
Good(v) == IsQnr(v) /\ Vanishing(v) # 0

\* shifts.contains(&shift), over the whole array.
Contains(v) == \E c \in 0 .. PERMUTS - 1 : shifts[c] = v

\* map[col][row] = shifts[col] * elements[row] (lines 168-170).
CellMap(s) == [c \in 0 .. PERMUTS - 1 |-> [r \in 0 .. N - 1 |-> (s[c] * Element(r)) % Q]]

Init ==
    /\ shifts = [c \in 0 .. PERMUTS - 1 |-> IF c = 0 THEN 1 ELSE 0]
    /\ idx = 1
    /\ map = << >>
    /\ pc = "sample"

\* Variant: the loop bound off by one (1..=PERMUTS).
AcceptPastEnd(v) ==
    /\ pc = "sample" /\ Good(v) /\ ~Contains(v)
    /\ shifts' = [shifts EXCEPT ![idx] = v]
    /\ idx' = idx + 1
    /\ IF idx = PERMUTS
       THEN pc' = "done" /\ map' = CellMap(shifts')
       ELSE UNCHANGED <<pc, map>>

(* A draw ends both of new's loops: the sample is good and new; it becomes *)
(* shifts[idx], and after the last one the cell map is built.              *)
Accept(v) ==
    /\ pc = "sample" /\ Good(v) /\ ~Contains(v)
    /\ shifts' = [shifts EXCEPT ![idx] = v]
    /\ idx' = idx + 1
    /\ IF idx + 1 = PERMUTS
       THEN pc' = "done" /\ map' = CellMap(shifts')
       ELSE UNCHANGED <<pc, map>>

(* A draw that sample rejects (line 191) or that new finds already taken   *)
(* (line 162): the loop hashes the next counter, nothing else changes.     *)
Resample(v) ==
    /\ pc = "sample" /\ ~(Good(v) /\ ~Contains(v))
    /\ UNCHANGED vars

Terminated == pc = "done" /\ UNCHANGED vars

Next == \/ \E v \in Samples : Accept(v) \/ Resample(v)
        \/ Terminated

(* Fairness: the hash is taken to be a random oracle, so a draw that ends *)
(* the loop, when the samples contain one, eventually comes.               *)
Spec == Init /\ [][Next]_vars /\ WF_vars(\E v \in Samples : Accept(v))

-----------------------------------------------------------------------------
(* Properties.                                                             *)

TypeOK ==
    /\ shifts \in [0 .. PERMUTS - 1 -> Fq]
    /\ idx \in 1 .. PERMUTS
    /\ pc \in {"sample", "done"}

(* new returns: the sampling loops end once enough good values exist.     *)
Termination == <>(pc = "done")

=============================================================================
