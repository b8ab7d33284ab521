-------------------------- MODULE ConstraintSystem --------------------------
(***************************************************************************)
(* The parts of kimchi's ConstraintSystem (kimchi/src/circuits/            *)
(* constraints.rs) the circuit writer's output meets: create() refuses a   *)
(* circuit of fewer than two gates, and verify() checks a witness row by   *)
(* row: the wires of the first PERMUTS columns (which must point into      *)
(* those columns and join equal values), the public rows' coefficient,     *)
(* and the gate itself.  create() pads the circuit with Zero gates wired   *)
(* to themselves and verify() pads the witness with zeros; such rows pass  *)
(* every check, so verify is stated over the emitted rows only.  Of the    *)
(* gate checks only the Generic one is stated (its code, in               *)
(* polynomials/generic.rs, is not part of this source tree); the custom    *)
(* gates' checks are taken to hold.                                        *)
(***************************************************************************)
EXTENDS Naturals, Sequences, Field

PERMUTS == 7   \* kimchi wires::PERMUTS: columns taking part in the permutation

\* create_with_shared_precomputations: assert!(gates.len() > 1) (line 258).
CreateSucceeds(gates) == Len(gates) > 1

\* coeffs.get(i).unwrap_or(0)
CoeffAt(cs, i) == IF i < Len(cs) THEN cs[i + 1] ELSE 0

(* A Generic row: two sub-gates, on columns 0-2 with coefficients 0-4 and  *)
(* on columns 3-5 with coefficients 5-9, each                              *)
(* ql l + qr r + qo o + qm l r + qc = 0, the first minus the row's public  *)
(* input.                                                                  *)
GenericSingleHolds(cs, w, coff, reg, pub) ==
    LET sum == FAdd(FAdd(FMul(CoeffAt(cs, coff), w[reg]),
                         FMul(CoeffAt(cs, coff + 1), w[reg + 1])),
                    FMul(CoeffAt(cs, coff + 2), w[reg + 2]))
        mul == FMul(CoeffAt(cs, coff + 3), FMul(w[reg], w[reg + 1]))
    IN  FSub(FAdd(FAdd(sum, mul), CoeffAt(cs, coff + 4)), pub) = 0

GenericHolds(cs, w, pub) ==
    /\ GenericSingleHolds(cs, w, 0, 0, pub)
    /\ GenericSingleHolds(cs, w, 5, 3, 0)

GateHolds(g, w, pub) == g.typ = "Generic" => GenericHolds(g.coeffs, w, pub)

PublicAt(public, r) == IF r < Len(public) THEN public[r + 1] ELSE 0

(* The checks of verify() (lines 509-542) on row r (from 0), in their     *)
(* order; the result is "ok" or the first error the row meets.             *)
RowError(gates, wires, witness, public, r) ==
    LET bad == {c \in 0 .. PERMUTS - 1 :
                  LET w == wires[[row |-> r, col |-> c]]
                  IN  w.col >= PERMUTS \/ witness[r + 1][c] # witness[w.row + 1][w.col]}
        c0  == CHOOSE c \in bad : \A d \in bad : c <= d
    IN  CASE bad # {} /\ wires[[row |-> r, col |-> c0]].col >= PERMUTS -> "WireOutsidePermuts"
          [] bad # {}                                        -> "DisconnectedWires"
          [] r < Len(public) /\ CoeffAt(gates[r + 1].coeffs, 0) # 1 -> "IncorrectPublic"
          [] ~GateHolds(gates[r + 1], witness[r + 1], PublicAt(public, r)) -> "GateUnsatisfied"
          [] OTHER -> "ok"

\* verify(): Ok, or the error of the first failing row.
Verify(gates, wires, witness, public) ==
    LET failing == {r \in 0 .. Len(gates) - 1 :
                      RowError(gates, wires, witness, public, r) # "ok"}
    IN  IF failing = {} THEN "ok"
        ELSE RowError(gates, wires, witness, public,
                      CHOOSE r \in failing : \A q \in failing : r <= q)

=============================================================================
