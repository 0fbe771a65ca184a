---------------------------- MODULE MCLazyRoutes ----------------------------
(* Small instances of LazyRoutes for TLC. *)
EXTENDS LazyRoutes, TLC

Interchangeable == Permutations(Request)
=============================================================================
