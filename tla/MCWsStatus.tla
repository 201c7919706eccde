------------------------------ MODULE MCWsStatus ------------------------------
(* WsStatus on small sets of connections and properties. *)
EXTENDS WsStatus, TLC

CONSTANTS c1, c2, p1, p2, p3

const_Conns == {c1, c2}
const_Props1 == {p1}
const_Props2 == {p1, p2}
const_Symmetry == Permutations(const_Conns)
=============================================================================
