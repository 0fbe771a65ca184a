-------------------------- MODULE MCCatalogService --------------------------
(* Small instances of CatalogService for TLC. *)
EXTENDS CatalogService, TLC

\* Uploads are alike, and so are queries: nothing tells them apart but the
\* slot they run in.  Payloads that parse are alike as well.
Interchangeable ==
  Permutations(Uploader) \cup Permutations(Getter)
    \cup Permutations(Parses)
=============================================================================
