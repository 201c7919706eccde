---------------------------- MODULE MCClientTable ----------------------------
(* ClientTable with more connections than slots. *)
EXTENDS ClientTable, TLC

CONSTANTS c1, c2, c3, c4

const_Conns == {c1, c2, c3, c4}
const_Symmetry == Permutations(const_Conns)
=============================================================================
