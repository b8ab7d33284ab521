--------------------------- MODULE MCLookupIndex ---------------------------
(* Model-checking instance of LookupIndex: one or two tables of none, one *)
(* or two columns, columns of one or two entries over {0, 1} (so some tables  *)
(* are inconsistent), ids 0, 1 and -1, and d1 = 8, so max_num_entries = 4  *)
(* and two tables of two rows meet the length limit exactly.               *)
EXTENDS LookupIndex

MCColumns == {<<0>>, <<1>>, <<0, 0>>, <<0, 1>>, <<1, 0>>, <<1, 1>>}

MCTables ==
    [id : {0, 1, -1}, data : {<< >>} \cup {<<c>> : c \in MCColumns} \cup (MCColumns \X MCColumns)]

MCInputs == {<<tb>> : tb \in MCTables} \cup (MCTables \X MCTables)

=============================================================================
