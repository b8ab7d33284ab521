------------------------------ MODULE Builder ------------------------------
(***************************************************************************)
(* The dual-mode circuit builder of circuit-construction/src/lib.rs: the   *)
(* Cs trait's gadgets (default methods) run once against System, which     *)
(* numbers every var() and collects GateSpecs, and once against            *)
(* WitnessGenerator, which evaluates every var() thunk and collects rows   *)
(* of values.  The gadget code is shared by both backends and no branch of *)
(* it depends on a thunk's result (same_x_bool, bits_, witness, s are read *)
(* only inside later thunks), so the two runs allocate in the same order.  *)
(* The model therefore runs them in lockstep: a Var is the pair of the     *)
(* index System gives and the value WitnessGenerator gives at the same     *)
(* allocation.                                                             *)
(*                                                                         *)
(* A gadget is an operator of its arguments and of k, the number of var()  *)
(* calls made before it in the same user call (a gadget calling another    *)
(* passes its own count on).  It yields a call record: the GateSpecs it    *)
(* passes to gate() in order (rows of Vars), the number of var() calls it  *)
(* makes, the Vars it returns, whether a thunk panics, and whether the     *)
(* assertion it makes is true.  Run applies a call to both backends.       *)
(***************************************************************************)
EXTENDS Naturals, Sequences, FiniteSets, Field

LOCAL INSTANCE SequencesExt

CONSTANTS
    ConstVals,     \* field constants the closure passes to constant, scale, var
    PublicInputs,  \* the public input values, as given to both drivers
    PackBits,      \* LSB-first bit vectors the closure passes to assert_pack
    Gadgets,       \* names of the gadgets the closure may call
    MaxCalls,      \* bound on the number of calls the closure makes
    MaxRows,       \* bound on the number of rows emitted
    MaxHandles     \* bound on the number of Vars the closure holds

COLUMNS == 15                                   \* kimchi wires::COLUMNS
GENERICS == 3                                   \* lib.rs 18
SINGLE_GENERIC_COEFFS == 5                      \* lib.rs 21
GENERIC_ROW_COEFFS == 2 * SINGLE_GENERIC_COEFFS \* lib.rs 22
ZK_ROWS == 3                                    \* kimchi permutation::ZK_ROWS
Cols == 0 .. COLUMNS - 1

ASSUME ConstVals \subseteq F /\ PublicInputs \in Seq(F)
ASSUME \A bits \in PackBits : bits \in Seq({0, 1}) /\ Len(bits) % 16 = 0

VARIABLES
    next_variable,  \* System::next_variable
    gates,          \* System::gates: typ, variable index per column, coeffs
    rows,           \* WitnessGenerator::rows: value per column
    handles,        \* the Vars the user closure holds
    assertionsHold, \* history: every assert_eq / assert_pack made was true
    calls,          \* number of calls the closure has made
    phase           \* "build" while the closure runs

builderVars == <<next_variable, gates, rows, handles, assertionsHold, calls>>

HeldVars == {handles[i] : i \in 1 .. Len(handles)}

-----------------------------------------------------------------------------
(* The two backends' primitives.                                           *)

\* var(g): System returns index next_variable + k (k earlier allocations of
\* the same call), WitnessGenerator returns Some(g()).
NewVar(k, v) == [index |-> next_variable + k, value |-> v]

\* Variant: the fillers' indices shifted by one (an off-by-one in k + i).
LeadRowShifted(lead, k) ==
    [i \in Cols |-> IF i < Len(lead) THEN lead[i + 1]
                    ELSE NewVar(k + i - Len(lead) + 1, 0)]

\* array_init(|i| if i < Len(lead) { lead[i] } else { self.var(|| 0) }):
\* fillers are allocated in column order starting at offset k.
LeadRow(lead, k) ==
    [i \in Cols |-> IF i < Len(lead) THEN lead[i + 1]
                    ELSE NewVar(k + i - Len(lead), 0)]

\* array_init(|_| self.var(|| 0)) before some columns are overwritten.
FillRow(k) == [i \in Cols |-> NewVar(k + i, 0)]

\* A row written as the array literal [c0, ..., c14].
ColumnsOf(lit) == [i \in Cols |-> lit[i + 1]]

GSpec(typ, row, coeffs) == [typ |-> typ, row |-> row, coeffs |-> coeffs]

\* vec![0; GENERIC_ROW_COEFFS] with the first sub-gate's five slots set.
GenericCoeffs(ql, qr, qo, qm, qc) == <<ql, qr, qo, qm, qc, 0, 0, 0, 0, 0>>

\* gate(spec) on both backends: System pushes the spec (of indices),
\* WitnessGenerator pushes the row of values.
Emit(specs) ==
    /\ gates' = gates \o
         [j \in 1 .. Len(specs) |->
             [typ |-> specs[j].typ, coeffs |-> specs[j].coeffs,
              row |-> [i \in Cols |-> specs[j].row[i].index]]]
    /\ rows' = rows \o
         [j \in 1 .. Len(specs) |-> [i \in Cols |-> specs[j].row[i].value]]

\* A call that does not panic and asserts nothing.
Call(specs, used, out) ==
    [specs |-> specs, used |-> used, out |-> out, panics |-> FALSE, holds |-> TRUE]

\* The closure has room for the call within the bounds.
Room(nrows, nvars) ==
    /\ phase = "build"
    /\ calls < MaxCalls
    /\ calls' = calls + 1
    /\ Len(gates) + nrows <= MaxRows
    /\ Len(handles) + nvars <= MaxHandles

(* The closure calls gadget `name`, whose call record is c: on a panic    *)
(* the witness run ends (prove unwinds); otherwise both backends take     *)
(* its rows and allocations and the closure gets its results.             *)
Run(name, c) ==
    /\ name \in Gadgets
    /\ Room(Len(c.specs), Len(c.out))
    /\ IF c.panics
       THEN /\ phase' = "witness_panic"
            /\ UNCHANGED <<next_variable, gates, rows, handles, assertionsHold>>
       ELSE /\ Emit(c.specs)
            /\ next_variable' = next_variable + c.used
            /\ handles' = handles \o c.out
            /\ assertionsHold' = (assertionsHold /\ c.holds)
            /\ UNCHANGED phase

-----------------------------------------------------------------------------
(* The generic gadgets.                                                    *)

\* sys.var(|| v): a free variable, no row.
FreeVar(v, k) == Call(<< >>, 1, <<NewVar(k, v)>>)

AssertEq(x1, x2, k) ==
    [Call(<<GSpec("Generic", LeadRow(<<x1, x2>>, k), GenericCoeffs(1, FNeg(1), 0, 0, 0))>>,
          COLUMNS - 2, << >>)
     EXCEPT !.holds = (x1.value = x2.value)]

\* and / or / add / sub: res = var(val), row x1 x2 res, fillers after.
BinaryGate(x1, x2, val, coeffs, k) ==
    LET r == NewVar(k, val)
    IN  Call(<<GSpec("Generic", LeadRow(<<x1, x2, r>>, k + 1), coeffs)>>,
             1 + COLUMNS - 3, <<r>>)

\* and (lib.rs 229-254): res = x1 * x2 under x1 + x2 - 2 res = 0.
And(x1, x2, k) ==
    BinaryGate(x1, x2, FMul(x1.value, x2.value), GenericCoeffs(1, 1, FNeg(2), 0, 0), k)

\* or (lib.rs 256-282): res = x1 + x2 - x1 x2.
Or(x1, x2, k) ==
    BinaryGate(x1, x2, FSub(FAdd(x1.value, x2.value), FMul(x1.value, x2.value)),
               GenericCoeffs(1, 1, FNeg(1), FNeg(1), 0), k)

\* add (lib.rs 285-309)
Add(x1, x2, k) ==
    BinaryGate(x1, x2, FAdd(x1.value, x2.value), GenericCoeffs(1, 1, FNeg(1), 0, 0), k)

\* Variant of sub with the sign of qr flipped, as add has it.
SubFlipped(x1, x2, k) ==
    BinaryGate(x1, x2, FSub(x1.value, x2.value), GenericCoeffs(1, 1, FNeg(1), 0, 0), k)

\* sub (lib.rs 312-336)
Sub(x1, x2, k) ==
    BinaryGate(x1, x2, FSub(x1.value, x2.value), GenericCoeffs(1, FNeg(1), FNeg(1), 0, 0), k)

\* constant (lib.rs 515-530): v = var(x), then the row v, fillers.
Constant(x, k) ==
    LET v == NewVar(k, x)
    IN  Call(<<GSpec("Generic", LeadRow(<<v>>, k + 1), GenericCoeffs(1, 0, 0, 0, FNeg(x)))>>,
             COLUMNS, <<v>>)

\* Variant: equals without its third row res * diff = 0.
EqualsNoZeroCheck(x1, x2, k) ==
    LET d    == Sub(x2, x1, k)
        diff == d.out[1]
        inv  == NewVar(k + 13, FInv(diff.value))
        res  == NewVar(k + 14, IF x1.value = x2.value THEN 1 ELSE 0)
        omr  == NewVar(k + 15, FSub(1, res.value))
        one  == Constant(1, k + 16)
    IN  Call(d.specs \o one.specs \o
             <<GSpec("Generic", LeadRow(<<one.out[1], res, omr>>, k + 31),
                     GenericCoeffs(1, FNeg(1), FNeg(1), 0, 0)),
               GSpec("Generic", LeadRow(<<inv, diff, omr>>, k + 43),
                     GenericCoeffs(0, 0, FNeg(1), 1, 0))>>,
             68, <<res>>)

(* equals (lib.rs 434-512): diff = sub(x2, x1); inv, res, one_minus_res;   *)
(* constant(1) is called inside the first row's array_init, so its row is  *)
(* emitted before the three rows of equals itself.                         *)
Equals(x1, x2, k) ==
    LET d    == Sub(x2, x1, k)
        diff == d.out[1]
        inv  == NewVar(k + 13, FInv(diff.value))
        res  == NewVar(k + 14, IF x1.value = x2.value THEN 1 ELSE 0)
        omr  == NewVar(k + 15, FSub(1, res.value))
        one  == Constant(1, k + 16)
    IN  Call(d.specs \o one.specs \o
             <<GSpec("Generic", LeadRow(<<one.out[1], res, omr>>, k + 31),
                     GenericCoeffs(1, FNeg(1), FNeg(1), 0, 0)),
               GSpec("Generic", LeadRow(<<inv, diff, omr>>, k + 43),
                     GenericCoeffs(0, 0, FNeg(1), 1, 0)),
               GSpec("Generic", LeadRow(<<res, diff>>, k + 55),
                     GenericCoeffs(0, 0, 0, 1, 0))>>,
             68, <<res>>)

(* equals_old (lib.rs 348-426): inverses fall back to one; the second row's *)
(* coeffs are replaced by the 3-entry vec![1, -1, 1] (verify reads missing *)
(* entries as zero).                                                       *)
EqualsOld(x1, x2, k) ==
    LET d    == Sub(x2, x1, k)
        diff == d.out[1]
        inv  == NewVar(k + 13, IF HasInverse(diff.value) THEN FInv(diff.value) ELSE 1)
        inv2 == NewVar(k + 14, IF HasInverse(inv.value) THEN FInv(inv.value) ELSE 1)
        res  == NewVar(k + 15, IF x1.value = x2.value THEN 1 ELSE 0)
    IN  Call(d.specs \o
             <<GSpec("Generic", LeadRow(<<inv, inv2>>, k + 16), GenericCoeffs(0, FNeg(1), 1, 0, 0)),
               GSpec("Generic", LeadRow(<<x1, x2, diff>>, k + 29), <<1, FNeg(1), 1>>),
               GSpec("Generic", LeadRow(<<diff, inv, res>>, k + 41),
                     GenericCoeffs(0, 0, 1, FNeg(1), 0))>>,
             53, <<res>>)

Scale(x, v, k) ==
    LET xv == NewVar(k, FMul(v.value, x))
    IN  Call(<<GSpec("Generic", [FillRow(k + 1) EXCEPT ![0] = v, ![1] = xv],
                     GenericCoeffs(x, FNeg(1), 0, 0, 0))>>,
             1 + COLUMNS, <<xv>>)

\* cond_select (lib.rs 664-729): delta = t - f; res1 = b delta; res = f + res1.
CondSelect(b, t, f, k) ==
    LET delta == NewVar(k, FSub(t.value, f.value))
        res1  == NewVar(k + 1, FMul(b.value, delta.value))
        res   == NewVar(k + 2, FAdd(f.value, res1.value))
    IN  Call(<<GSpec("Generic", [FillRow(k + 3) EXCEPT ![0] = t, ![1] = f, ![2] = delta],
                     GenericCoeffs(1, FNeg(1), FNeg(1), 0, 0)),
               GSpec("Generic", [FillRow(k + 18) EXCEPT ![0] = b, ![1] = delta, ![2] = res1],
                     GenericCoeffs(0, 0, FNeg(1), 1, 0)),
               GSpec("Generic", [FillRow(k + 33) EXCEPT ![0] = res1, ![1] = f, ![2] = res],
                     GenericCoeffs(1, 1, FNeg(1), 0, 0))>>,
             3 + 3 * COLUMNS, <<res>>)

\* zk (lib.rs 976-985): ZK_ROWS Zero rows of fresh random cells; the values
\* are unconstrained, so one draw r stands for all of them.
ZK(r, k) ==
    Call([j \in 1 .. ZK_ROWS |->
             GSpec("Zero", [i \in Cols |-> NewVar(k + (j - 1) * COLUMNS + i, r)], << >>)],
         ZK_ROWS * COLUMNS, << >>)

(* assert_pack (lib.rs 919-974), called on bits the closure has just       *)
(* allocated with var.  Per 16 bits it allocates a row of fillers, then    *)
(* crumb, a, b, n for each of 8 crumbs and a last filler: n accumulates    *)
(* 4 n + crumb over the crumbs MSB-first, crumb = b0 + 2 b1 with b1 the    *)
(* higher bit.  No gate() call is ever made with the row.                  *)
RECURSIVE PackCrumbs(_, _)
PackCrumbs(n, msb) ==
    IF msb = << >> THEN n
    ELSE PackCrumbs(FAdd(FMul(4, n), FAdd(msb[2], FDouble(msb[1]))), Tail(Tail(msb)))

AssertPack(zero, x, bits, k) ==
    LET numRows == Len(bits) \div 16
    IN  [Call(<< >>, Len(bits) + 2 + numRows * (COLUMNS + 4 * 8 + 1), << >>)
         EXCEPT !.holds = (x.value = PackCrumbs(zero.value, Reverse(bits)))]

-----------------------------------------------------------------------------
(* generate_prover_index (lib.rs 1228-1253) emits one Generic row per      *)
(* public input, coefficients [1, 0, ..., 0], a fresh variable in column 0 *)
(* and fillers after it; prove (lib.rs 1173-1188) seeds the witness with   *)
(* the rows [x, 0, ..., 0] and hands the closure Vars of value x.          *)
PublicVar(i) == [index |-> (i - 1) * COLUMNS, value |-> PublicInputs[i]]

BuilderInit ==
    /\ next_variable = Len(PublicInputs) * COLUMNS
    /\ gates = [i \in 1 .. Len(PublicInputs) |->
                  [typ |-> "Generic", coeffs |-> <<1, 0, 0, 0, 0, 0, 0, 0, 0, 0>>,
                   row |-> [c \in Cols |-> (i - 1) * COLUMNS + c]]]
    /\ rows = [i \in 1 .. Len(PublicInputs) |->
                  [c \in Cols |-> IF c = 0 THEN PublicInputs[i] ELSE 0]]
    /\ handles = [i \in 1 .. Len(PublicInputs) |-> PublicVar(i)]
    /\ assertionsHold = TRUE
    /\ calls = 0
    /\ phase = "build"

\* One call of the closure to a generic gadget.
GenericNext ==
    \/ \E v \in ConstVals : Run("var", FreeVar(v, 0)) \/ Run("constant", Constant(v, 0))
    \/ \E x \in ConstVals, v \in HeldVars : Run("scale", Scale(x, v, 0))
    \/ \E x1, x2 \in HeldVars :
          \/ Run("assert_eq", AssertEq(x1, x2, 0))
          \/ Run("and", And(x1, x2, 0))
          \/ Run("or", Or(x1, x2, 0))
          \/ Run("add", Add(x1, x2, 0))
          \/ Run("sub", Sub(x1, x2, 0))
          \/ Run("equals", Equals(x1, x2, 0))
          \/ Run("equals_old", EqualsOld(x1, x2, 0))
    \/ \E b, t, f \in HeldVars : Run("cond_select", CondSelect(b, t, f, 0))
    \/ \E r \in F : Run("zk", ZK(r, 0))
    \/ \E zero, x \in HeldVars, bits \in PackBits : Run("assert_pack", AssertPack(zero, x, bits, 0))

=============================================================================
