--------------------------- MODULE CustomGadgets ---------------------------
(***************************************************************************)
(* The gadgets of lib.rs whose rows use kimchi's custom gates: add_group,  *)
(* double and assert_add_group (CompleteAdd), scalar_mul (VarBaseMul and   *)
(* Zero), endo (EndoMul and Zero) and poseidon (Poseidon and Zero), with   *)
(* scalar and endo_scalar, which make the scalars they consume.  Each is a *)
(* call record of Builder: rows, allocations, results, and whether a       *)
(* thunk panics (ark's field division and from_repr(..).unwrap() panic).  *)
(***************************************************************************)
EXTENDS Builder

CONSTANTS
    ENDO,               \* constants.endo, the endomorphism coefficient
    RoundConstants,     \* constants.poseidon.round_constants: round -> [0..2 -> F]
    Mds,                \* constants.poseidon.mds: [0..2 -> [0..2 -> F]]
    ALPHA,              \* the Poseidon S-box exponent
    ROUNDS_PER_ROW,     \* kimchi poseidon::ROUNDS_PER_ROW
    POS_ROWS_PER_HASH,  \* kimchi poseidon::POS_ROWS_PER_HASH
    R,                  \* modulus of the other field of the cycle (scalar's Fr)
    ScalarLengths,      \* lengths the closure passes to scalar
    ScalarInputs,       \* Fr values scalar's thunk returns
    EndoLengths,        \* lengths the closure passes to endo_scalar and endo
    EndoInputs,         \* integers endo_scalar's thunk returns
    NUM_BITS            \* scalar_mul's num_bits (255 in lib.rs 737)

SPONGE_WIDTH == 3       \* PlonkSpongeConstantsKimchi::SPONGE_WIDTH

ASSUME ENDO \in F /\ ALPHA \in Nat \ {0}
ASSUME R \in Nat /\ R > 2 /\ \A d \in 2 .. R - 1 : R % d # 0
ASSUME \A n \in ScalarLengths : n % 5 = 0
ASSUME \A n \in EndoLengths : n % 4 = 0 /\ n > 0
\* At least three row pairs: the first, a middle and the last one.
ASSUME NUM_BITS \in Nat /\ NUM_BITS % 5 = 0 /\ NUM_BITS >= 15

VARIABLE shifted   \* the ShiftedScalars the closure holds (made only by scalar)

-----------------------------------------------------------------------------
(* Complete addition.                                                      *)

(* The witnesses add_group (lib.rs 559-593) and assert_add_group (lib.rs   *)
(* 618-650) both allocate: same_x, x21_inv, s and inf_z.  The doubling     *)
(* slope divides by 2 y1; ark's div unwraps the inverse.                   *)
CompleteAddWitness(x1, y1, x2, y2, k) ==
    LET sameX == x1.value = x2.value
        x21   == NewVar(k + 1, IF sameX THEN 0 ELSE FInv(FSub(x2.value, x1.value)))
        s     == IF sameX
                 THEN FDiv(FAdd(FDouble(FSquare(x1.value)), FSquare(x1.value)), FDouble(y1.value))
                 ELSE FMul(FSub(y2.value, y1.value), x21.value)
    IN  [same   |-> NewVar(k, IF sameX THEN 1 ELSE 0),
         x21    |-> x21,
         s      |-> NewVar(k + 2, s),
         infZ   |-> NewVar(k + 3, IF y1.value # y2.value /\ sameX
                                  THEN FInv(FSub(y2.value, y1.value)) ELSE 0),
         panics |-> sameX /\ ~HasInverse(FDouble(y1.value))]

\* The CompleteAdd row: zero fills column 6 (inf) and columns 11-14.
CompleteAddRow(zero, x1, y1, x2, y2, x3, y3, w) ==
    GSpec("CompleteAdd",
          ColumnsOf(<<x1, y1, x2, y2, x3, y3, zero, w.same, w.s, w.infZ, w.x21,
                      zero, zero, zero, zero>>),
          << >>)

\* add_group (lib.rs 553-606)
AddGroup(zero, x1, y1, x2, y2, k) ==
    LET w  == CompleteAddWitness(x1, y1, x2, y2, k)
        x3 == NewVar(k + 4, FSub(FSquare(w.s.value), FAdd(x1.value, x2.value)))
        y3 == NewVar(k + 5, FSub(FMul(w.s.value, FSub(x1.value, x3.value)), y1.value))
    IN  [Call(<<CompleteAddRow(zero, x1, y1, x2, y2, x3, y3, w)>>, 6, <<x3, y3>>)
         EXCEPT !.panics = w.panics]

\* double (lib.rs 608-610)
Double(zero, x1, y1, k) == AddGroup(zero, x1, y1, x1, y1, k)

\* assert_add_group (lib.rs 612-662): the caller supplies (x3, y3).
AssertAddGroup(zero, x1, y1, x2, y2, x3, y3, k) ==
    LET w == CompleteAddWitness(x1, y1, x2, y2, k)
    IN  [Call(<<CompleteAddRow(zero, x1, y1, x2, y2, x3, y3, w)>>, 4, << >>)
         EXCEPT !.panics = w.panics]

-----------------------------------------------------------------------------
(* Scalars.                                                                *)

(* scalar (lib.rs 177-197): x = 2 y + shift in Fr, shift = 1 + 2^length;   *)
(* y's bits are read back as an F element, and from_repr(..).unwrap()      *)
(* panics when that integer is not below P.                                *)
Scalar(length, x, k) ==
    LET shift == (1 + 2 ^ length) % R
        y     == (((x + R - shift) % R) * ((R + 1) \div 2)) % R
    IN  [specs |-> << >>, used |-> 1, out |-> << >>, holds |-> TRUE,
         panics |-> y >= P, scalar |-> NewVar(k, y % P)]

\* endo_scalar (lib.rs 164-175): the integer's bits as an F element.
EndoScalar(length, n, k) ==
    [Call(<< >>, 1, <<NewVar(k, n % P)>>) EXCEPT !.panics = n >= P]

-----------------------------------------------------------------------------
(* Variable-base scalar multiplication.                                    *)

\* The last row 2, from b: its first two cells carry the result.
LastRow2(b, rx, ry) ==
    [FillRow(b) EXCEPT ![0] = NewVar(b, rx), ![1] = NewVar(b + 1, ry)]

(* scalar_mul (lib.rs 731-796): acc0 = add_group(T, T), one var whose     *)
(* thunk runs varbasemul::witness, then NUM_BITS / 5 pairs of rows of Vars *)
(* reading its columns: (VarBaseMul, Zero).  Row 1 of a pair carries xt,   *)
(* yt; the first also acc0 and zero, the last the scalar.  The result is   *)
(* the first two cells of the last row 2.  varbasemul::witness is not in   *)
(* this tree: the result's values are the inputs rx, ry, the other cells   *)
(* keep the zeros the columns start with.                                  *)
ScalarMul(zero, xt, yt, sc, rx, ry, k) ==
    LET pairs == NUM_BITS \div 5
        acc0  == AddGroup(zero, xt, yt, xt, yt, k)
        base(i) == k + 7 + 2 * COLUMNS * i
        row1(i) ==
            LET r  == [FillRow(base(i)) EXCEPT ![0] = xt, ![1] = yt]
                r0 == IF i = 0
                      THEN [r EXCEPT ![2] = acc0.out[1], ![3] = acc0.out[2], ![4] = zero]
                      ELSE r
            IN  IF i = pairs - 1 THEN [r0 EXCEPT ![5] = sc] ELSE r0
        row2(i) ==
            IF i = pairs - 1 THEN LastRow2(base(i) + COLUMNS, rx, ry)
            ELSE FillRow(base(i) + COLUMNS)
        ladder == [j \in 1 .. 2 * pairs |->
                     IF j % 2 = 1 THEN GSpec("VarBaseMul", row1((j - 1) \div 2), << >>)
                     ELSE GSpec("Zero", row2((j - 1) \div 2), << >>)]
    IN  [Call(acc0.specs \o ladder, 7 + 2 * COLUMNS * pairs,
              <<row2(pairs - 1)[0], row2(pairs - 1)[1]>>)
         EXCEPT !.panics = acc0.panics]

-----------------------------------------------------------------------------
(* Endomorphism scalar multiplication.                                     *)

\* (1 + (endo - 1) b) t and (2 b - 1) t: select +-T or +-phi(T).
EndoX(b, xt) == FMul(FAdd(1, FMul(FSub(ENDO, 1), b.value)), xt.value)
EndoY(b, yt) == FMul(FSub(FDouble(b.value), 1), yt.value)

(* One double-and-add of endo's loop (lib.rs 852-872 for the first,      *)
(* 874-882 the second) on field values, from p = (xp, yp) and            *)
(* q = (xq, yq): the slopes s and s2, s^2, and the result r.  Its two      *)
(* divisions panic on zero.                                                *)
EndoDoubleAdd(xp, yp, xq, yq) ==
    LET s   == FDiv(FSub(yq, yp), FSub(xq, xp))
        ssq == FSquare(s)
        d   == FSub(FAdd(FDouble(xp), xq), ssq)
        s2  == FSub(FDiv(FDouble(yp), d), s)
        xr  == FSub(FAdd(xq, FSquare(s2)), ssq)
    IN  [s |-> s, ssq |-> ssq, s2 |-> s2, xr |-> xr, yr |-> FSub(FMul(FSub(xp, xr), s2), yp),
         panics |-> ~HasInverse(FSub(xq, xp)) \/ ~HasInverse(d)]

(* The row's 14 vars from base, in the code's order, given its two         *)
(* double-and-adds h1 (from acc, to r) and h2 (from r, to s).              *)
EndoRow(zero, xt, yt, b, acc, nacc, base, h1, h2) ==
    LET xr == NewVar(base + 5, h1.xr)
        yr == NewVar(base + 6, h1.yr)
        n  == FAdd(FDouble(FAdd(FDouble(FAdd(FDouble(FAdd(FDouble(nacc.value), b[1].value)),
                                               b[2].value)), b[3].value)), b[4].value)
    IN  [spec   |-> GSpec("EndoMul",
                          ColumnsOf(<<xt, yt, zero, zero, acc[1], acc[2], nacc, xr, yr,
                                      NewVar(base + 2, h1.s), NewVar(base + 9, h2.s),
                                      b[1], b[2], b[3], b[4]>>), << >>),
         panics |-> h1.panics \/ h2.panics,
         acc    |-> <<NewVar(base + 12, h2.xr), NewVar(base + 13, h2.yr)>>,
         nacc   |-> NewVar(base + 14, n)]

(* One row of endo's loop (lib.rs 842-901): xq1, yq1 (vars base, base + 1) *)
(* select +-T or +-phi(T) by b1, b2; xq2, yq2 (base + 7, + 8) by b3, b4;  *)
(* s1^2, s3^2, s2, s4 are the vars base + 3, + 10, + 4, + 11, which no     *)
(* cell holds; then the EndoMul row and n_acc.                             *)
EndoHalves(zero, xt, yt, b, acc, nacc, base, h1) ==
    EndoRow(zero, xt, yt, b, acc, nacc, base, h1,
            EndoDoubleAdd(h1.xr, h1.yr, EndoX(b[3], xt), EndoY(b[4], yt)))
EndoStep(zero, xt, yt, b, acc, nacc, base) ==
    EndoHalves(zero, xt, yt, b, acc, nacc, base,
               EndoDoubleAdd(acc[1].value, acc[2].value, EndoX(b[1], xt), EndoY(b[2], yt)))

(* Iteration r of endo's loop (lines 842-901): the step from the previous *)
(* iteration's acc and n_acc, 15 vars further on; none past length / 4.    *)
(* Endo unrolls the loop MAX_ENDO_ROWS times.                              *)
MAX_ENDO_ROWS == 2
ASSUME \A n \in EndoLengths : n \div 4 <= MAX_ENDO_ROWS
EndoIter(zero, xt, yt, bits, length, st, r) ==
    IF r > length \div 4 THEN st
    ELSE LET step == EndoStep(zero, xt, yt, [j \in 1 .. 4 |-> bits[4 * (r - 1) + j]],
                              st.acc, st.nacc, st.base)
         IN  [specs  |-> Append(st.specs, step.spec), panics |-> st.panics \/ step.panics,
              acc    |-> step.acc, nacc |-> step.nacc, base |-> st.base + 15]

(* endo (lib.rs 798-918): length bit vars (MSB first, from the scalar's    *)
(* integer), acc = double(add_group((endo xt, yt), (xt, yt))) with the     *)
(* scale, the loop over length / 4 rows, and a last Zero row pinning acc   *)
(* and the scalar.                                                         *)
Endo(zero, xt, yt, sc, length, k) ==
    LET bits  == [i \in 1 .. length |->
                    NewVar(k + i - 1, (sc.value \div 2 ^ (length - i)) % 2)]
        phi   == Scale(ENDO, xt, k + length)
        ag    == AddGroup(zero, phi.out[1], yt, xt, yt, k + length + 16)
        db    == Double(zero, ag.out[1], ag.out[2], k + length + 22)
        start == [specs |-> << >>, panics |-> FALSE, acc |-> db.out, nacc |-> zero,
                  base |-> k + length + 28]
        done  == EndoIter(zero, xt, yt, bits, length,
                          EndoIter(zero, xt, yt, bits, length, start, 1), 2)
        last  == GSpec("Zero",
                       ColumnsOf(<<zero, zero, zero, zero, done.acc[1], done.acc[2], sc,
                                   zero, zero, zero, zero, zero, zero, zero, zero>>), << >>)
    IN  [Call(phi.specs \o ag.specs \o db.specs \o done.specs \o <<last>>,
              done.base - k, done.acc)
         EXCEPT !.panics = ag.panics \/ db.panics \/ done.panics]

-----------------------------------------------------------------------------
(* Poseidon.                                                               *)

\* permutation::full_round, as the spec states it: MDS (s + rc)^alpha.
\* (Tuples, not function constructors, so each round is evaluated once.)
Sbox(s, r, j) == (FAdd(s[j], RoundConstants[r][j - 1]) ^ ALPHA) % P
MdsRow(i, b) ==
    FAdd(FAdd(FMul(Mds[i][0], b[1]), FMul(Mds[i][1], b[2])), FMul(Mds[i][2], b[3]))
FullRound(s, r) ==
    LET b == <<Sbox(s, r, 1), Sbox(s, r, 2), Sbox(s, r, 3)>>
    IN  <<MdsRow(0, b), MdsRow(1, b), MdsRow(2, b)>>

(* The states of a hash from state s at round r: s, then a full round of  *)
(* it, and so on up to round n.                                            *)
RECURSIVE RoundStates(_, _, _)
RoundStates(s, r, n) ==
    IF r = n THEN <<s>> ELSE <<s>> \o RoundStates(FullRound(s, r), r + 1, n)

\* Every hash's states, for each input state.
PermutationStates ==
    [s \in [1 .. SPONGE_WIDTH -> F] |-> RoundStates(s, 0, POS_ROWS_PER_HASH * ROUNDS_PER_ROW)]

\* Variant: the final row's fillers allocated from one past their offset.
\* The final row: fresh zero Vars from b, the last state in columns 0-2.
FinalRow(b, last) ==
    [FillRow(b) EXCEPT ![0] = last[1], ![1] = last[2], ![2] = last[3]]

(* poseidon (lib.rs 987-1065): per row, ROUNDS_PER_ROW states of 3 fresh   *)
(* Vars, each a full round of the previous; the Poseidon row holds states *)
(* offset, offset+4, offset+1, offset+2, offset+3 and the row's 15 round   *)
(* constants; then a Zero row with the last state in columns 0-2.          *)
Poseidon(input, k) ==
    LET nr     == POS_ROWS_PER_HASH * ROUNDS_PER_ROW
        states == PermutationStates[<<input[1].value, input[2].value, input[3].value>>]
        St(t, c) == IF t = 0 THEN input[c + 1]
                    ELSE NewVar(k + 3 * (t - 1) + c, states[t + 1][c + 1])
        order  == <<0, 4, 1, 2, 3>>
        hashRow(row) ==
            LET offset == row * ROUNDS_PER_ROW
            IN  GSpec("Poseidon",
                      [c \in Cols |-> St(offset + order[c \div 3 + 1], c % 3)],
                      [i \in 1 .. 15 |->
                          RoundConstants[offset + (i - 1) \div SPONGE_WIDTH][(i - 1) % SPONGE_WIDTH]])
        final  == FinalRow(k + 3 * nr, <<St(nr, 0), St(nr, 1), St(nr, 2)>>)
    IN  Call([row \in 1 .. POS_ROWS_PER_HASH |-> hashRow(row - 1)] \o <<GSpec("Zero", final, << >>)>>,
             3 * nr + COLUMNS, <<St(nr, 0), St(nr, 1), St(nr, 2)>>)

-----------------------------------------------------------------------------
HeldScalars == {shifted[i] : i \in 1 .. Len(shifted)}

(* One call of the closure to a custom-gate gadget.  (Each disjunct first *)
(* asks whether the closure calls the gadget at all, before choosing its  *)
(* arguments.)                                                             *)
CustomNext ==
    \/ "scalar" \in Gadgets /\
       \E len \in ScalarLengths, x \in ScalarInputs :
          LET c == Scalar(len, x, 0)
          IN  /\ Run("scalar", c)
              /\ shifted' = IF c.panics THEN shifted ELSE Append(shifted, c.scalar)
    \/ "endo_scalar" \in Gadgets /\
       \E len \in EndoLengths, n \in EndoInputs :
          Run("endo_scalar", EndoScalar(len, n, 0)) /\ UNCHANGED shifted
    \/ "double" \in Gadgets /\
       \E zero, x1, y1 \in HeldVars :
          Run("double", Double(zero, x1, y1, 0)) /\ UNCHANGED shifted
    \/ "add_group" \in Gadgets /\
       \E zero, x1, y1, x2, y2 \in HeldVars :
          Run("add_group", AddGroup(zero, x1, y1, x2, y2, 0)) /\ UNCHANGED shifted
    \/ "assert_add_group" \in Gadgets /\
       \E zero, x1, y1, x2, y2, x3, y3 \in HeldVars :
          Run("assert_add_group", AssertAddGroup(zero, x1, y1, x2, y2, x3, y3, 0))
          /\ UNCHANGED shifted
    \/ "scalar_mul" \in Gadgets /\
       \E zero, xt, yt \in HeldVars, sc \in HeldScalars, rx, ry \in F :
          Run("scalar_mul", ScalarMul(zero, xt, yt, sc, rx, ry, 0)) /\ UNCHANGED shifted
    \/ "endo" \in Gadgets /\
       \E zero, xt, yt, sc \in HeldVars, len \in EndoLengths :
          Run("endo", Endo(zero, xt, yt, sc, len, 0)) /\ UNCHANGED shifted
    \/ "poseidon" \in Gadgets /\
       \E a, b, c \in HeldVars :
          Run("poseidon", Poseidon(<<a, b, c>>, 0)) /\ UNCHANGED shifted

=============================================================================
