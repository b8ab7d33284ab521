---------------------------- MODULE LookupIndex ----------------------------
(***************************************************************************)
(* LookupConstraintSystem::create (kimchi/src/circuits/lookup/index.rs    *)
(* 64-232) once lookups are used: the loop over the tables that builds the *)
(* concatenated table and the table-id vector, its early return on an      *)
(* inconsistent column, the length check and the padding.  The lookup     *)
(* selectors and the gates' own tables come from LookupInfo, which is not *)
(* in this source tree: the gates' tables are part of the input sequence. *)
(* Each loop iteration over a table's columns is a step; the FFTs of      *)
(* steps 8-9 are the identity on the evaluations (see LookupTable).         *)
(***************************************************************************)
EXTENDS Integers, Sequences, Field

CONSTANTS D1, Inputs

VARIABLES
    tables,             \* lookup_tables, gate tables first
    result,             \* the Result returned ("running" before)
    lookup_table,       \* the concatenated columns (vec of max_table_width vecs)
    table_ids,          \* the table-id vector
    non_zero_table_id,  \* some table has an id other than 0
    t,                  \* the table the loop is at
    col,                \* the column of table t being copied
    pc                  \* "table": loop head; "columns": in table t; "done"

vars == <<tables, result, lookup_table, table_ids, non_zero_table_id, t, col, pc>>

LT == INSTANCE LookupTable

Table == tables[t]

(* Lines 75-145: max_num_entries, the tables, their maximum width, and    *)
(* the empty columns and id vector.                                        *)
Init ==
    /\ tables \in Inputs
    /\ result = LT!Running
    /\ lookup_table = [c \in 1 .. LT!MaxTableWidth(tables) |-> << >>]
    /\ table_ids = << >>
    /\ non_zero_table_id = FALSE
    /\ t = 1
    /\ col = 1
    /\ pc = "table"

\* Variant: the flag set from this table only, forgetting earlier ids.
NextTableFlagOverwritten ==
    /\ pc = "table" /\ t <= Len(tables) /\ Table.data # << >>
    /\ non_zero_table_id' = (Table.id # 0)
    /\ table_ids' = table_ids \o [r \in 1 .. LT!TableLen(Table) |-> LT!IdToField(Table.id)]
    /\ col' = 1 /\ pc' = "columns"
    /\ UNCHANGED <<tables, result, lookup_table, t>>

\* Variant: the raw i32 id pushed, without i32_to_field.
NextTableRawId ==
    /\ pc = "table" /\ t <= Len(tables) /\ Table.data # << >>
    /\ non_zero_table_id' = (non_zero_table_id \/ Table.id # 0)
    /\ table_ids' = table_ids \o [r \in 1 .. LT!TableLen(Table) |-> Table.id]
    /\ col' = 1 /\ pc' = "columns"
    /\ UNCHANGED <<tables, result, lookup_table, t>>

(* Lines 147-157: a table's length, the flag, and its id once per row.    *)
NextTable ==
    /\ pc = "table" /\ t <= Len(tables) /\ Table.data # << >>
    /\ non_zero_table_id' = (non_zero_table_id \/ Table.id # 0)
    /\ table_ids' = table_ids \o [r \in 1 .. LT!TableLen(Table) |-> LT!IdToField(Table.id)]
    /\ col' = 1 /\ pc' = "columns"
    /\ UNCHANGED <<tables, result, lookup_table, t>>

\* Line 148: table.data[0] of a table without columns panics.
NoColumns ==
    /\ pc = "table" /\ t <= Len(tables) /\ Table.data = << >>
    /\ result' = LT!Failed("panic")
    /\ pc' = "done"
    /\ UNCHANGED <<tables, lookup_table, table_ids, non_zero_table_id, t, col>>

\* Lines 160-165: a column of the table's length is appended to its own.
CopyColumn ==
    /\ pc = "columns" /\ col <= Len(Table.data)
    /\ Len(Table.data[col]) = LT!TableLen(Table)
    /\ lookup_table' = [lookup_table EXCEPT ![col] = @ \o Table.data[col]]
    /\ col' = col + 1
    /\ UNCHANGED <<tables, result, table_ids, non_zero_table_id, t, pc>>

\* Lines 161-162: any other length returns InconsistentTableLength.
RejectColumn ==
    /\ pc = "columns" /\ col <= Len(Table.data)
    /\ Len(Table.data[col]) # LT!TableLen(Table)
    /\ result' = LT!Failed("InconsistentTableLength")
    /\ pc' = "done"
    /\ UNCHANGED <<tables, lookup_table, table_ids, non_zero_table_id, t, col>>

\* Variant: skip(table.data.len() - 1), zeros after the last column too.
FillUnusedFromLast ==
    /\ pc = "columns" /\ col > Len(Table.data)
    /\ lookup_table' = [c \in DOMAIN lookup_table |->
                          IF c >= Len(Table.data) THEN lookup_table[c] \o LT!Zeros(LT!TableLen(Table))
                          ELSE lookup_table[c]]
    /\ t' = t + 1 /\ pc' = "table"
    /\ UNCHANGED <<tables, result, table_ids, non_zero_table_id, col>>

(* Lines 167-170: the columns past the table's width get its length of   *)
(* zeros; the loop moves to the next table.                                *)
FillUnused ==
    /\ pc = "columns" /\ col > Len(Table.data)
    /\ lookup_table' = [c \in DOMAIN lookup_table |->
                          IF c > Len(Table.data) THEN lookup_table[c] \o LT!Zeros(LT!TableLen(Table))
                          ELSE lookup_table[c]]
    /\ t' = t + 1 /\ pc' = "table"
    /\ UNCHANGED <<tables, result, table_ids, non_zero_table_id, col>>

\* Lines 173-179: a table of max_num_entries rows or more leaves no dummy row.
TooLong ==
    /\ pc = "table" /\ t > Len(tables)
    /\ Len(lookup_table[1]) >= LT!MaxNumEntries
    /\ result' = LT!Failed("LookupTableTooLong")
    /\ pc' = "done"
    /\ UNCHANGED <<tables, lookup_table, table_ids, non_zero_table_id, t, col>>

(* Lines 181-229: pad the columns and the ids with zeros (the dummy,      *)
(* all zeros in table 0), and return them; the ids only when some table   *)
(* had another id.                                                         *)
ReturnPadded ==
    /\ lookup_table' = [c \in DOMAIN lookup_table |-> LT!PadTo(lookup_table[c])]
    /\ table_ids' = LT!PadTo(table_ids)
    /\ result' = [status       |-> "ok",
                  lookup_table |-> [c \in DOMAIN lookup_table |-> LT!PadTo(lookup_table[c])],
                  table_ids    |-> IF non_zero_table_id THEN LT!PadTo(table_ids) ELSE << >>,
                  ids_some     |-> non_zero_table_id]
    /\ pc' = "done"
    /\ UNCHANGED <<tables, non_zero_table_id, t, col>>

\* Variant: `>` for `>=`, a table of exactly max_num_entries rows accepted.
FinishAtLimit ==
    /\ pc = "table" /\ t > Len(tables)
    /\ Len(lookup_table[1]) <= LT!MaxNumEntries
    /\ ReturnPadded

\* Lines 174-229 when the table leaves room: padded and returned.
Finish ==
    /\ pc = "table" /\ t > Len(tables)
    /\ Len(lookup_table[1]) < LT!MaxNumEntries
    /\ ReturnPadded

\* create has returned.
Terminated == pc = "done" /\ UNCHANGED vars

Next == NextTable \/ NoColumns \/ CopyColumn \/ RejectColumn \/ FillUnused \/ TooLong \/ Finish
        \/ Terminated

Spec == Init /\ [][Next]_vars

-----------------------------------------------------------------------------
(* Properties.                                                             *)

Row(r) == [c \in DOMAIN result.lookup_table |-> result.lookup_table[c][r]]
IdAt(r) == IF result.ids_some THEN result.table_ids[r] ELSE 0

TypeOK ==
    /\ lookup_table \in Seq(Seq(F))
    /\ table_ids \in Seq(F)
    /\ non_zero_table_id \in BOOLEAN
    /\ pc \in {"table", "columns", "done"}
    /\ result.status \in {"running", "ok", "InconsistentTableLength", "LookupTableTooLong", "panic"}

(* The dummy lookup (lines 181-186) is all zeros in table 0, and lookups  *)
(* the circuit does not use are this dummy: whenever create returns Ok,   *)
(* the concatenated table has a row of zeros whose table id is 0.  The    *)
(* `>=` of the length check (line 174) leaves that row free.              *)
DummyPresent ==
    result.status = "ok" =>
        \E r \in 1 .. LT!MaxNumEntries : Row(r) = LT!Zeros(Len(Row(r))) /\ IdAt(r) = 0

(* The prover reads an omitted table-id vector as all zeros: when create  *)
(* returns table_ids = None, every row of the concatenated table came from *)
(* a table whose id is 0 (or is padding), across all the loop's tables.   *)
IdsOmittedOnlyWhenZero ==
    result.status = "ok" /\ ~result.ids_some =>
        \A i \in 1 .. Len(tables) : LT!IdToField(tables[i].id) = 0

(* The loop implements the one-step concatenation: every behaviour of     *)
(* create, early returns included, is one of LookupTable's.                *)
ImplementsLookupTable == LT!Spec

(* No spurious entry: every row of the returned table, with its id, is an *)
(* entry of an input table with that id (its columns past the table's     *)
(* width zero), so that a lookup succeeds only on an entry of its table.  *)
(* LookupError::TableIDZeroMustHaveZeroEntry ("The table with id 0 must   *)
(* have an entry of all zeros") names what the dummy rows rely on.        *)
NoSpuriousEntries ==
    result.status = "ok" =>
        \A r \in 1 .. LT!MaxNumEntries :
            \E i \in 1 .. Len(tables) :
                /\ LT!IdToField(tables[i].id) = IdAt(r)
                /\ \E e \in 1 .. LT!TableLen(tables[i]) :
                      Row(r) = [c \in DOMAIN Row(r) |->
                                  IF c <= Len(tables[i].data) THEN tables[i].data[c][e] ELSE 0]

=============================================================================
