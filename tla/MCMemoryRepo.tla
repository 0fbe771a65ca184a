---------------------------- MODULE MCMemoryRepo ----------------------------
(* Small instances of MemoryRepo for TLC. *)
EXTENDS MemoryRepo

CONSTANTS c0, c1, c2

\* An empty catalog, one that loses a server if cut short and one that is
\* overrun if it is taken for the other.
MCSize == [c \in Catalog |-> CASE c = c0 -> 0 [] c = c1 -> 1 [] c = c2 -> 2]
MCHit  == [c \in Catalog |-> IF c = c0 THEN {} ELSE {MCSize[c]}]
=============================================================================
