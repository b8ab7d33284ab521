---------------------------- MODULE Permutation ----------------------------
(***************************************************************************)
(* The permutation part of ConstraintSystem::create (kimchi/src/circuits/ *)
(* constraints.rs 248-299 and 440) composed with Shifts::new and with the *)
(* wires System::gates compiles: create checks the gate count and makes   *)
(* the domain, pads the gates with Zero gates wired to themselves, samples *)
(* the shifts, and sets sigma[col][row] to the cell map's value at the     *)
(* cell gate[row].wires[col] points to; the identity side is the map       *)
(* itself (shift[col] * sid[row], sid = map[0]).  The prover's             *)
(* permutation argument (polynomials/permutation.rs, not in this tree)    *)
(* proves, by its grand product over the domain, that the pairs            *)
(* (witness, identity) and (witness, sigma) of all cells are one multiset; *)
(* verify() checks the wires directly.  The witness is any a prover may   *)
(* choose, padded with zeros as verify pads it (lines 501-506).            *)
(***************************************************************************)
EXTENDS Shifts, Sequences, Bags

CONSTANTS
    Circuits,  \* gate lists System may emit: the variable in each of a row's PERMUTS columns
    Values     \* the values a prover may put in a cell

ZK_ROWS == 3   \* polynomials::permutation::ZK_ROWS

VARIABLES
    circuit,   \* the gate specs create is given
    witness,   \* cell -> value, over the whole domain
    wires,     \* cell -> cell: the compiled wires, then the padding rows'
    sigma,     \* sigmal1: [col -> [row -> field element]]
    step       \* "pad", "shifts" (Shifts::new runs), "end"

createVars == <<circuit, witness, wires, sigma, step>>
allVars == <<vars, createVars>>

Copy == INSTANCE CopyCycles WITH
            COLUMNS <- PERMUTS, MaxRows <- 0, VarIds <- Nat,
            specs <- circuit, wiring <- << >>

\* EvaluationDomains::create(n + ZK_ROWS): the least power of two >= m.
D1Size(m) == CHOOSE s \in {2 ^ k : k \in 0 .. 16} : s >= m /\ s < 2 * m

ASSUME \A c \in Circuits : Len(c) > 1 /\ D1Size(Len(c) + ZK_ROWS) = N

Rows == 0 .. N - 1
Cells == {Copy!Cell(r, c) : r \in Rows, c \in 0 .. PERMUTS - 1}

(* A cell that shares its variable with no other is wired to itself, and  *)
(* neither verify nor the grand product depends on its value: it is 0.    *)
Shared(c) == {x \in Copy!Emitted(c) :
                \E y \in Copy!Emitted(c) : y # x /\ Copy!VarAt(c, y) = Copy!VarAt(c, x)}

\* verify's padding: the witness columns extended with zeros to d1's size.
Witnesses(c) == {[x \in Cells |-> IF x \in Shared(c) THEN v[x] ELSE 0] : v \in [Shared(c) -> Values]}

CreateInit ==
    /\ Init
    /\ circuit \in Circuits
    /\ witness \in Witnesses(circuit)
    /\ wires = << >>
    /\ sigma = << >>
    /\ step = "pad"

\* Variant: the padding gates wired to row 0 (Wire { col, row: 0 }).
PadWiredToRowZero ==
    /\ step = "pad"
    /\ wires' = [x \in Cells |-> IF x.row < Len(circuit) THEN Copy!CopyWiring(circuit)[x]
                                 ELSE Copy!Cell(0, x.col)]
    /\ step' = "shifts"
    /\ UNCHANGED <<vars, circuit, witness, sigma>>

(* Lines 256-277: more than one gate, the domain for n + ZK_ROWS rows, and *)
(* a Zero gate for each row from n to d1's size, every cell its own wire. *)
Pad ==
    /\ step = "pad"
    /\ wires' = [x \in Cells |-> IF x.row < Len(circuit) THEN Copy!CopyWiring(circuit)[x] ELSE x]
    /\ step' = "shifts"
    /\ UNCHANGED <<vars, circuit, witness, sigma>>

\* Lines 279-280: Shifts::new(&domain.d1), the whole of Shifts' loop.
SampleShifts ==
    /\ step = "shifts"
    /\ \E v \in Samples : Accept(v) \/ Resample(v)
    /\ UNCHANGED createVars

(* Lines 290-299 once the shifts are sampled: for each row and column,     *)
(* sigma[col][row] = shifts.cell_to_field(gate.wires[col]).                *)
Sigma ==
    /\ step = "shifts" /\ pc = "done"
    /\ sigma' = [c \in 0 .. PERMUTS - 1 |->
                   [r \in Rows |-> map[wires[Copy!Cell(r, c)].col][wires[Copy!Cell(r, c)].row]]]
    /\ step' = "end"
    /\ UNCHANGED <<vars, circuit, witness, wires>>

\* create has returned.
Returned == step = "end" /\ UNCHANGED allVars

CreateNext == Pad \/ SampleShifts \/ Sigma \/ Returned

(* create runs to its end; the sampler is fair as in Shifts' Spec.        *)
CreateSpec ==
    /\ CreateInit /\ [][CreateNext]_allVars
    /\ WF_allVars(Pad) /\ WF_allVars(Sigma)
    /\ WF_allVars(step = "shifts" /\ \E v \in Samples : Accept(v) /\ UNCHANGED createVars)

-----------------------------------------------------------------------------
(* Properties.                                                             *)

\* The identity side of the argument at a cell: shift[col] * omega^row.
Id(x) == map[x.col][x.row]
SigmaAt(x) == sigma[x.col][x.row]

(* verify's wire check (lines 511-533): each cell's value equals that of  *)
(* the cell its wire points to.                                            *)
WiresRespected == \A x \in Cells : witness[x] = witness[wires[x]]

\* The multiset identity the grand product proves.
GrandProductHolds ==
    BagOfAll(LAMBDA x : <<witness[x], Id(x)>>, SetToBag(Cells))
        = BagOfAll(LAMBDA x : <<witness[x], SigmaAt(x)>>, SetToBag(Cells))

CreateTypeOK ==
    /\ TypeOK
    /\ step \in {"pad", "shifts", "end"}
    /\ step # "pad" => wires \in [Cells -> Cells]
    /\ step = "end" => sigma \in [0 .. PERMUTS - 1 -> [Rows -> Fq]]

(* Completeness of the copy constraints: a witness that verify's wire     *)
(* check accepts also satisfies the grand product over the sigma create   *)
(* computed, so an honest prover's permutation argument goes through; it   *)
(* needs the padding rows wired to themselves and sigma read through the  *)
(* wires of the compiled gates.                                            *)
PermutationComplete == step = "end" /\ WiresRespected => GrandProductHolds

(* Soundness of the copy constraints: a witness whose grand product holds *)
(* joins equal values on every wire.  PLONK needs the shifts in distinct   *)
(* cosets of the domain (the doc comment of Shifts::shifts: "create a     *)
(* coset"); Shifts::new only checks that they are distinct.                *)
PermutationSound == step = "end" /\ GrandProductHolds => WiresRespected

=============================================================================
