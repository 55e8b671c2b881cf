--------------------------- MODULE MCGenericList ---------------------------
(* One list with room for two elements and one without a limit. *)
EXTENDS GenericList

CONSTANTS bounded, free

Capacity == [l \in {bounded, free} |-> IF l = bounded THEN 2 ELSE 0]
=============================================================================
