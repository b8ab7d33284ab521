---------------------------- MODULE LookupTable ----------------------------
(***************************************************************************)
(* What LookupConstraintSystem::create (kimchi/src/circuits/lookup/       *)
(* index.rs) computes from the lookup tables, in one step: the tables     *)
(* concatenated column by column (a narrower table's missing columns are   *)
(* zero), the table-id vector beside them, both padded with zeros to       *)
(* max_num_entries; or the first error (steps 5-9, lines 100-229).  A      *)
(* column is represented by its evaluations over d1, from which            *)
(* interpolate() computes the polynomial one-to-one.                       *)
(***************************************************************************)
EXTENDS Integers, Sequences, Field

LOCAL INSTANCE SequencesExt
LOCAL INSTANCE FiniteSetsExt

CONSTANTS
    D1,       \* domain.d1.size()
    Inputs    \* the possible lookup_tables: sequences of [id, data]

VARIABLES
    tables,   \* gate tables followed by the caller's lookup_tables
    result    \* what create returns ("running" before it has)

ZK_ROWS == 3   \* polynomials::permutation::ZK_ROWS

\* Line 81: the rows left once the zk rows and the final-product row are taken.
MaxNumEntries == D1 - ZK_ROWS - 1

ASSUME MaxNumEntries \in Nat

\* table.data[0].len(): a table's length is that of its first column.
TableLen(tb) == Len(tb.data[1])
Consistent(tb) == \A c \in 1 .. Len(tb.data) : Len(tb.data[c]) = TableLen(tb)

(* The tables the loop stops at: one without columns, where data[0]      *)
(* panics (index out of bounds), or one whose columns differ in length.   *)
Offending(ts) == {i \in 1 .. Len(ts) : ts[i].data = << >> \/ ~Consistent(ts[i])}

\* max_table_width (lines 95-99): unwrap_or(0) of the widest table.
MaxTableWidth(ts) == Max({Len(ts[i].data) : i \in 1 .. Len(ts)} \cup {0})

\* o1_utils i32_to_field: a negative id is the field's negation of |id|.
IdToField(id) == id % P

Zeros(n) == [i \in 1 .. n |-> 0]

\* Column c of the concatenation: each table's column c, or its zeros.
ConcatColumn(ts, c) ==
    FlattenSeq([i \in 1 .. Len(ts) |->
                  IF c <= Len(ts[i].data) THEN ts[i].data[c] ELSE Zeros(TableLen(ts[i]))])
ConcatIds(ts) ==
    FlattenSeq([i \in 1 .. Len(ts) |-> [r \in 1 .. TableLen(ts[i]) |-> IdToField(ts[i].id)]])

PadTo(s) == s \o Zeros(MaxNumEntries - Len(s))

Running == [status |-> "running", lookup_table |-> << >>, table_ids |-> << >>,
            ids_some |-> FALSE]
Failed(e) == [Running EXCEPT !.status = e]

(* The result: the first table without columns panics and the first     *)
(* inconsistent one is an error, whichever comes first, wherever it is,    *)
(* since the length is checked after the loop; then the length, leaving a  *)
(* row for the dummy; then the padded table, and the ids only when some id *)
(* is not 0 (step 9).                                                      *)
Outcome(ts) ==
    CASE Offending(ts) # {} -> IF ts[Min(Offending(ts))].data = << >>
                                THEN Failed("panic") ELSE Failed("InconsistentTableLength")
      [] Len(ConcatIds(ts)) >= MaxNumEntries         -> Failed("LookupTableTooLong")
      [] OTHER -> [status       |-> "ok",
                   lookup_table |-> [c \in 1 .. MaxTableWidth(ts) |-> PadTo(ConcatColumn(ts, c))],
                   table_ids    |-> IF \E i \in 1 .. Len(ts) : ts[i].id # 0
                                    THEN PadTo(ConcatIds(ts)) ELSE << >>,
                   ids_some     |-> \E i \in 1 .. Len(ts) : ts[i].id # 0]

vars == <<tables, result>>

Init == tables \in Inputs /\ result = Running

Create == result.status = "running" /\ result' = Outcome(tables) /\ UNCHANGED tables

Spec == Init /\ [][Create]_vars

=============================================================================
