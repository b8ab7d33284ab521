------------------------------ MODULE Compiler ------------------------------
(***************************************************************************)
(* System::gates (circuit-construction/src/lib.rs 1114-1157): converts the *)
(* GateSpec list into CircuitGates, wiring each cell to the previous cell  *)
(* of the same variable index through the HashMap most_recent_cell, then   *)
(* closing every variable's cycle by iterating the HashMap first_cell in   *)
(* its (unspecified) iteration order.  One action per step of the loops:  *)
(* one cell of the array_init closure, the last cell of a row together     *)
(* with gates.push, one iteration of the closing loop, and the return.     *)
(***************************************************************************)
EXTENDS Naturals, Sequences, FiniteSets, TLC

CONSTANTS
    COLUMNS,   \* width of a row (kimchi wires::COLUMNS)
    MaxRows,   \* bound on the number of gate specs compiled
    VarIds     \* variable indices a cell may hold (compared only for equality)

ASSUME COLUMNS \in Nat \ {0} /\ MaxRows \in Nat

VARIABLES
    specs,            \* self.gates: the variable index in each column of each spec
    row,              \* the row of enumerate() being converted
    wires,            \* the wires of the current row produced so far (array_init)
    first_cell,       \* HashMap first_cell: variable -> its first Wire
    most_recent_cell, \* HashMap most_recent_cell: variable -> its latest Wire
    gates,            \* the Vec<CircuitGate> built so far (only their wires)
    closed,           \* variables of first_cell the closing loop has visited
    done              \* gates() has returned

vars == <<specs, row, wires, first_cell, most_recent_cell, gates, closed, done>>

Abs == INSTANCE CopyCycles WITH wiring <- << >>

Cols == 0 .. COLUMNS - 1
Cell(r, c) == Abs!Cell(r, c)
Wires == [row : 0 .. MaxRows, col : Cols]

-----------------------------------------------------------------------------
(* One cell of the array_init closure (lib.rs 1124-1139): insert the cell  *)
(* as the variable's most recent one; the wire is the cell it replaced, or *)
(* the cell itself when the variable is new (and then it is its first).    *)

\* The Wire written for the current cell.
CellWire ==
    LET var  == specs[row + 1][Len(wires)]
    IN  IF var \in DOMAIN most_recent_cell
        THEN most_recent_cell[var]
        ELSE Cell(row, Len(wires))

VisitCell ==
    LET var  == specs[row + 1][Len(wires)]
        curr == Cell(row, Len(wires))
    IN  /\ ~done
        /\ row < Len(specs)
        /\ most_recent_cell' = (var :> curr) @@ most_recent_cell
        /\ first_cell' = IF var \in DOMAIN most_recent_cell
                         THEN first_cell
                         ELSE (var :> curr) @@ first_cell

\* A cell before the last column: the closure continues.
ConvertCell ==
    /\ Len(wires) < COLUMNS - 1
    /\ VisitCell
    /\ wires' = Append(wires, CellWire)
    /\ UNCHANGED <<specs, row, gates, closed, done>>

\* Variant: the row counter is not advanced after the push.
PushGateStuck ==
    /\ Len(wires) = COLUMNS - 1
    /\ VisitCell
    /\ LET full == Append(wires, CellWire)
       IN  gates' = Append(gates, [c \in Cols |-> full[c + 1]])
    /\ wires' = << >>
    /\ UNCHANGED <<specs, row, closed, done>>

\* The last column: the array is complete and gates.push(g) (lib.rs 1141-1150).
PushGate ==
    /\ Len(wires) = COLUMNS - 1
    /\ VisitCell
    /\ LET full == Append(wires, CellWire)
       IN  gates' = Append(gates, [c \in Cols |-> full[c + 1]])
    /\ wires' = << >>
    /\ row' = row + 1
    /\ UNCHANGED <<specs, closed, done>>

\* Variant: the first cell is wired to itself instead of to the last one.
CloseCycleToFirst(var) ==
    /\ ~done
    /\ row = Len(specs)
    /\ var \in DOMAIN first_cell \ closed
    /\ gates' = [gates EXCEPT ![first_cell[var].row + 1][first_cell[var].col] = first_cell[var]]
    /\ closed' = closed \cup {var}
    /\ UNCHANGED <<specs, row, wires, first_cell, most_recent_cell, done>>

(* One iteration of the closing loop (lib.rs 1149-1153), for whichever     *)
(* variable the HashMap iteration yields next.                             *)
CloseCycle(var) ==
    /\ ~done
    /\ row = Len(specs)
    /\ var \in DOMAIN first_cell \ closed
    /\ LET first == first_cell[var]
           last  == most_recent_cell[var]
       IN  gates' = [gates EXCEPT ![first.row + 1][first.col] = last]
    /\ closed' = closed \cup {var}
    /\ UNCHANGED <<specs, row, wires, first_cell, most_recent_cell, done>>

\* Variant: returns without waiting for the closing loop to finish.
ReturnEarly ==
    /\ ~done
    /\ row = Len(specs)
    /\ done' = TRUE
    /\ UNCHANGED <<specs, row, wires, first_cell, most_recent_cell, gates, closed>>

\* The loop is exhausted and gates() returns (lib.rs 1155).
Return ==
    /\ ~done
    /\ row = Len(specs)
    /\ closed = DOMAIN first_cell
    /\ done' = TRUE
    /\ UNCHANGED <<specs, row, wires, first_cell, most_recent_cell, gates, closed>>

\* After returning nothing changes.
Terminated == done /\ UNCHANGED vars

Init ==
    /\ specs \in Abs!SpecLists
    /\ row = 0
    /\ wires = << >>
    /\ first_cell = [v \in {} |-> Cell(0, 0)]
    /\ most_recent_cell = [v \in {} |-> Cell(0, 0)]
    /\ gates = << >>
    /\ closed = {}
    /\ done = FALSE

Next ==
    \/ ConvertCell
    \/ PushGate
    \/ \E v \in VarIds : CloseCycle(v)
    \/ Return
    \/ Terminated

Spec == Init /\ [][Next]_vars

-----------------------------------------------------------------------------
(* Properties.                                                             *)

TypeOK ==
    /\ specs \in Abs!SpecLists
    /\ row \in 0 .. Len(specs)
    /\ wires \in Seq(Wires) /\ Len(wires) < COLUMNS
    /\ DOMAIN first_cell \subseteq VarIds /\ DOMAIN most_recent_cell = DOMAIN first_cell
    /\ \A v \in DOMAIN first_cell : first_cell[v] \in Wires /\ most_recent_cell[v] \in Wires
    /\ gates \in Seq([Cols -> Wires]) /\ Len(gates) = row
    /\ closed \subseteq DOMAIN first_cell
    /\ done \in BOOLEAN

\* The wiring gates() returned, as a function on the emitted cells.
Compiled == [w \in Abs!Emitted(specs) |-> gates[w.row + 1][w.col]]

\* Refinement: the cell-by-cell compilation, with its HashMap iterated in any
\* order, returns exactly the wiring CopyCycles promises (each cell to the
\* previous cell of its variable, the first cell to the last).
CopyCyclesSpec == INSTANCE CopyCycles WITH wiring <- IF done THEN Compiled ELSE << >>
ImplementsCopyCycles == CopyCyclesSpec!Spec

RECURSIVE Iterate(_, _, _)
Iterate(f, w, k) == IF k = 0 THEN w ELSE Iterate(f, f[w], k - 1)

Orbit(f, w) == {Iterate(f, w, k) : k \in 1 .. Cardinality(DOMAIN f)}

\* What the permutation argument needs of the wires gates() returns: they
\* map the emitted cells onto themselves, and the cycle through each cell
\* is exactly the set of cells holding the same variable, whatever order
\* the HashMap first_cell is iterated in when the cycles are closed.
CyclesAreVariableClasses ==
    done =>
        /\ \A w \in Abs!Emitted(specs) : Compiled[w] \in Abs!Emitted(specs)
        /\ \A w \in Abs!Emitted(specs) :
               Orbit(Compiled, w) =
                   {a \in Abs!Emitted(specs) : Abs!VarAt(specs, a) = Abs!VarAt(specs, w)}

=============================================================================
