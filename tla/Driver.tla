------------------------------ MODULE Driver ------------------------------
(***************************************************************************)
(* A circuit's whole life as the drivers and the tests of lib.rs run it:  *)
(* the closure runs against both backends (Builder; the public rows are    *)
(* those generate_prover_index and prove create), System::gates compiles  *)
(* the specs into wires (the CopyCycles wiring, which Compiler.tla is      *)
(* checked to implement), ConstraintSystem::create takes the gates, and    *)
(* verify checks the witness columns against them with the public inputs. *)
(***************************************************************************)
EXTENDS CustomGadgets, ConstraintSystem

VARIABLE verdict   \* what verify() returned ("none" before it ran)

vars == <<next_variable, gates, rows, handles, assertionsHold, calls, phase, shifted, verdict>>

\* The variable index of each cell of each spec, as System::gates reads it.
Indices(gs) == [r \in 1 .. Len(gs) |-> gs[r].row]

(* System::gates fills each row's wires with array_init into GateWires,   *)
(* [Wire; PERMUTS]: only the first PERMUTS columns are walked and wired;  *)
(* a variable's cells in columns PERMUTS .. COLUMNS - 1 take no part.     *)
Copy == INSTANCE CopyCycles WITH
            COLUMNS <- PERMUTS, specs <- Indices(gates), wiring <- << >>, VarIds <- Nat

(* The closure returns; then, as the tests do (lib.rs 1316-1354, 1382):    *)
(* gates() and columns(), ConstraintSystem::create, which panics on fewer  *)
(* than two gates, and verify(witness, public).                            *)
Finish ==
    /\ phase = "build"
    /\ IF CreateSucceeds(gates)
       THEN /\ phase' = "verified"
            /\ verdict' = Verify(gates, Copy!CopyWiring(Indices(gates)), rows, PublicInputs)
       ELSE /\ phase' = "setup_panic"
            /\ UNCHANGED verdict
    /\ UNCHANGED <<next_variable, gates, rows, handles, assertionsHold, calls, shifted>>

\* Once the run has ended (verified, or a panic) nothing changes.
Terminated == phase # "build" /\ UNCHANGED vars

Init == BuilderInit /\ shifted = << >> /\ verdict = "none"

Next ==
    \/ GenericNext /\ UNCHANGED <<shifted, verdict>>
    \/ CustomNext /\ UNCHANGED verdict
    \/ Finish
    \/ Terminated

Spec == Init /\ [][Next]_vars

-----------------------------------------------------------------------------
(* Properties.                                                             *)

VarType == [index : Nat, value : F]

TypeOK ==
    /\ next_variable \in Nat
    /\ \A r \in 1 .. Len(gates) :
          /\ gates[r].typ \in {"Generic", "CompleteAdd", "VarBaseMul", "EndoMul",
                                "Poseidon", "Zero"}
          /\ gates[r].row \in [Cols -> 0 .. next_variable - 1]
          /\ gates[r].coeffs \in Seq(F)
    /\ rows \in Seq([Cols -> F]) /\ Len(rows) = Len(gates)
    /\ handles \in Seq(VarType)
    /\ shifted \in Seq(VarType)
    /\ assertionsHold \in BOOLEAN
    /\ calls \in 0 .. MaxCalls
    /\ phase \in {"build", "verified", "setup_panic", "witness_panic"}
    /\ verdict \in {"none", "ok", "WireOutsidePermuts", "DisconnectedWires",
                    "IncorrectPublic", "GateUnsatisfied"}

(* Completeness of witness generation (spec section 8, property 1): when   *)
(* every assertion the closure made is true of its input, the witness      *)
(* WitnessGenerator computed satisfies the circuit System built and        *)
(* compiled: ConstraintSystem::verify returns Ok.  It ties each gadget's   *)
(* var() thunks to its coefficient vector and row layout, the two          *)
(* backends' allocation orders to each other, and the compiler's wires to  *)
(* what verify accepts.                                                    *)
HonestWitnessVerifies ==
    phase = "verified" /\ assertionsHold => verdict = "ok"

(* Assertions are enforced: if verify accepts the witness, every          *)
(* assert_eq and assert_pack the closure made holds of the values, so a    *)
(* prover cannot complete a proof of a false assertion with the witness    *)
(* the closure computes.                                                   *)
AssertionsEnforced ==
    phase = "verified" /\ verdict = "ok" => assertionsHold

=============================================================================
