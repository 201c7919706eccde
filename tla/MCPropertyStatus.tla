--------------------------- MODULE MCPropertyStatus ---------------------------
(* PropertyStatus with the pause property and a throttled one. *)
EXTENDS PropertyStatus

CONSTANTS p1, p2

const_Props == {p1, p2}
=============================================================================
