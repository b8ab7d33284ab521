----------------------------- MODULE Soundness -----------------------------
(***************************************************************************)
(* The generic gadgets against a dishonest prover.  The closure allocates  *)
(* free variables with var() and calls one gadget on them; System records  *)
(* its GateSpecs (Builder's call record, of which only the indices and     *)
(* coefficients are read here) and gates() wires them (CopyCycles).  The   *)
(* prover then gives every variable any value of the field, not the one    *)
(* WitnessGenerator computes, and ConstraintSystem::verify checks the      *)
(* rows.  A value per variable index satisfies every wire by construction; *)
(* a variable that only occupies cells no coefficient reaches cannot       *)
(* change what verify returns, and is 0.                                   *)
(***************************************************************************)
EXTENDS Naturals, Sequences, ConstraintSystem

CONSTANTS
    ConstVals,     \* the constants the closure passes to constant and scale
    SoundGadgets   \* the gadgets the closure may call

NumInputs == 3   \* the free variables allocated before the call

VARIABLES
    inst,      \* the call: gadget name, input Vars, constant, call record
    wires,     \* the wires gates() compiles for its rows
    val,       \* the prover's value of each variable a coefficient reaches
    verdict    \* what verify() returned ("none" before it ran)

vars == <<inst, wires, val, verdict>>

B == INSTANCE Builder WITH
        next_variable <- NumInputs, gates <- << >>, rows <- << >>, handles <- << >>,
        assertionsHold <- TRUE, calls <- 0, phase <- "build",
        PublicInputs <- << >>, PackBits <- {}, Gadgets <- {},
        MaxCalls <- 0, MaxRows <- 0, MaxHandles <- 0

\* The wires of GateWires, [Wire; PERMUTS], as in Driver.
Copy == INSTANCE CopyCycles WITH
        COLUMNS <- PERMUTS, MaxRows <- 0, VarIds <- Nat,
        specs <- << >>, wiring <- << >>

\* The i-th free variable, as System's var() returns it.
In(i) == [index |-> i, value |-> 0]

\* Two distinct variables, or one passed twice.
Pairs == {<<In(0), In(1)>>, <<In(0), In(0)>>}

BinaryCall(name, a) ==
    CASE name = "assert_eq" -> B!AssertEq(a[1], a[2], 0)
      [] name = "add"       -> B!Add(a[1], a[2], 0)
      [] name = "sub"       -> B!Sub(a[1], a[2], 0)
      [] name = "or"        -> B!Or(a[1], a[2], 0)
      [] name = "equals"    -> B!Equals(a[1], a[2], 0)

\* Every call of a gadget on the free variables.
Instances ==
    {[name |-> "constant", ins |-> << >>, x |-> x, call |-> B!Constant(x, 0)] : x \in ConstVals}
    \cup {[name |-> "scale", ins |-> <<In(0)>>, x |-> x, call |-> B!Scale(x, In(0), 0)] : x \in ConstVals}
    \cup {[name |-> n, ins |-> a, x |-> 0, call |-> BinaryCall(n, a)] :
            n \in {"assert_eq", "add", "sub", "or", "equals"}, a \in Pairs}
    \cup {[name |-> "cond_select", ins |-> a, x |-> 0, call |-> B!CondSelect(a[1], a[2], a[3], 0)] :
            a \in {<<In(0), In(1), In(2)>>, <<In(0), In(1), In(1)>>}}

\* System::gates: each spec's type, coefficients and variable indices.
GatesOf(c) ==
    [j \in 1 .. Len(c.specs) |->
        [typ |-> c.specs[j].typ, coeffs |-> c.specs[j].coeffs,
         row |-> [i \in B!Cols |-> c.specs[j].row[i].index]]]

(* The coefficients that multiply column c in the Generic gate's two      *)
(* sub-gates (ql, qm for l; qr, qm for r; qo for o).                      *)
TermCoeffs == <<{0, 3}, {1, 3}, {2}, {5, 8}, {6, 8}, {7}>>
Constrained(g, c) == g.typ = "Generic" /\ c < 6 /\ \E i \in TermCoeffs[c + 1] : CoeffAt(g.coeffs, i) # 0

\* The variables a coefficient reaches, and the gadget's inputs and results.
Relevant(i) ==
    LET gs == GatesOf(i.call)
    IN  UNION {{gs[r].row[c] : c \in {c \in B!Cols : Constrained(gs[r], c)}} : r \in 1 .. Len(gs)}
        \cup {i.ins[j].index : j \in DOMAIN i.ins} \cup {i.call.out[j].index : j \in DOMAIN i.call.out}

ValOf(v, i) == IF i \in DOMAIN v THEN v[i] ELSE 0

\* The witness columns the prover hands to verify: each cell its variable's value.
WitnessOf(gs, v) == [r \in 1 .. Len(gs) |-> [c \in B!Cols |-> ValOf(v, gs[r].row[c])]]

Init ==
    /\ inst \in {i \in Instances : i.name \in SoundGadgets}
    /\ wires = Copy!CopyWiring([r \in 1 .. Len(GatesOf(inst.call)) |-> GatesOf(inst.call)[r].row])
    /\ val = << >>
    /\ verdict = "none"

\* verify(witness, &[]) on the prover's values.
Prove ==
    /\ verdict = "none"
    /\ \E v \in [Relevant(inst) -> F] :
          /\ val' = v
          /\ verdict' = Verify(GatesOf(inst.call), wires, WitnessOf(GatesOf(inst.call), v), << >>)
    /\ UNCHANGED <<inst, wires>>

Done == verdict # "none" /\ UNCHANGED vars

Next == Prove \/ Done

Spec == Init /\ [][Next]_vars

-----------------------------------------------------------------------------
(* Properties.                                                             *)

\* What each gadget promises of its result (spec 4.2-4.4 and section 8).
Promised(name, x, a, r) ==
    CASE name = "constant"    -> r = x
      [] name = "scale"       -> r = FMul(x, a[1])
      [] name = "add"         -> r = FAdd(a[1], a[2])
      [] name = "sub"         -> r = FSub(a[1], a[2])
      [] name = "or"          -> r = FSub(FAdd(a[1], a[2]), FMul(a[1], a[2]))
      [] name = "equals"      -> r = IF a[1] = a[2] THEN 1 ELSE 0
      [] name = "cond_select" -> r = FAdd(a[3], FMul(a[1], FSub(a[2], a[3])))
      [] name = "assert_eq"   -> a[1] = a[2]

(* The gadgets are sound: whatever values a prover puts in the cells, if  *)
(* verify accepts them, each gadget's result is the function of its       *)
(* inputs it promises (equals' result is 1 exactly when its inputs are     *)
(* equal, cond_select's is f + b (t - f), ...) and assert_eq's inputs are *)
(* equal.  A gadget whose thunks compute the right value but whose rows   *)
(* leave the result free passes every honest-witness test and fails this. *)
GadgetsSound ==
    verdict = "ok" =>
        Promised(inst.name, inst.x,
                 [j \in DOMAIN inst.ins |-> ValOf(val, inst.ins[j].index)],
                 IF inst.call.out = << >> THEN 0 ELSE ValOf(val, inst.call.out[1].index))

=============================================================================
