---------------------------- MODULE MCPermutation ----------------------------
(* Model-checking instance of Permutation: GF(73) and its subgroup of      *)
(* order 8, {1, 10, 22, 27, 46, 51, 63, 72}, the domain create makes for a *)
(* circuit of three rows (3 + ZK_ROWS <= 8).  The hash yields ten values:  *)
(* 0, the square 2 and the in-domain non-residue 10, which sample rejects, *)
(* and seven usable ones, one from each of six cosets (5, 7, 13, 15, 17,   *)
(* 20) and 62 = 5 * 10^2 in 5's coset; so the six shifts may avoid that    *)
(* pair or take both.                                                      *)
EXTENDS Permutation

MCSamples == {0, 2, 10, 5, 7, 13, 15, 17, 20, 62}

\* A three-row circuit in which the variables at the given cells are 0 and
\* every other cell has a variable of its own.
CircuitSharing(cells) ==
    [r \in 1 .. 3 |-> [c \in 0 .. PERMUTS - 1 |->
        IF <<r - 1, c>> \in cells THEN 0 ELSE 1 + PERMUTS * (r - 1) + c]]

\* One variable in cell (row 2, col 1) and (row 0, col 2), two rows apart;
\* one in a cycle through three columns and rows.
MCCircuits == {CircuitSharing({<<2, 1>>, <<0, 2>>}), CircuitSharing({<<0, 0>>, <<1, 3>>, <<2, 6>>})}

=============================================================================
