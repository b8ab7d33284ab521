----------------------------- MODULE CopyCycles -----------------------------
(***************************************************************************)
(* What compiling a circuit promises about its copy constraints (spec     *)
(* section 4.11 and testable property 2): every cell of the emitted rows   *)
(* is wired to the previous cell holding the same variable index, and the  *)
(* first such cell to the last one, so that the wires form one cycle per   *)
(* variable.  The compilation happens in one step; Compiler.tla is the     *)
(* cell-by-cell algorithm of System::gates shown to implement it.          *)
(***************************************************************************)
EXTENDS Naturals, Sequences

CONSTANTS
    COLUMNS,   \* width of a row (kimchi wires::COLUMNS)
    MaxRows,   \* bound on the number of gate specs
    VarIds     \* variable indices a cell may hold

VARIABLES
    specs,     \* for each gate spec, the variable index in each column
    wiring     \* the compiled permutation: cell -> cell ( <<>> before )

Cols == 0 .. COLUMNS - 1

Cell(r, c) == [row |-> r, col |-> c]

\* Every list of gate specs of at most MaxRows rows.
SpecLists == UNION {[1 .. n -> [Cols -> VarIds]] : n \in 0 .. MaxRows}

\* The cells of the emitted rows; rows are numbered from 0 as in enumerate().
Emitted(s) == {Cell(r, c) : r \in 0 .. Len(s) - 1, c \in Cols}

VarAt(s, w) == s[w.row + 1][w.col]

\* Emission order: row by row, and within a row by column.
Precedes(a, b) == a.row < b.row \/ (a.row = b.row /\ a.col < b.col)

LatestOf(S) == CHOOSE a \in S : \A b \in S : ~Precedes(a, b)

\* The reference wiring: the previous cell of the same variable, and for the
\* first cell of a variable the last one.
CopyWiring(s) ==
    [w \in Emitted(s) |->
        LET same    == {a \in Emitted(s) : VarAt(s, a) = VarAt(s, w)}
            earlier == {a \in same : Precedes(a, w)}
        IN  IF earlier = {} THEN LatestOf(same) ELSE LatestOf(earlier)]

Init ==
    /\ specs \in SpecLists
    /\ wiring = << >>

Compile ==
    /\ wiring' = CopyWiring(specs)
    /\ UNCHANGED specs

Spec == Init /\ [][Compile]_<<specs, wiring>>

=============================================================================
