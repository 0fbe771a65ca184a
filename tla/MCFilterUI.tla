----------------------------- MODULE MCFilterUI -----------------------------
(* Small instances of FilterUI for TLC. *)
EXTENDS FilterUI

CONSTANTS all, few

\* Three pages without a filter, one with.
MCPages == [f \in Filter |-> IF f = all THEN 3 ELSE 1]
=============================================================================
