--------------------------- MODULE MCLocationScan ---------------------------
(* A small instance of LocationScan for TLC. *)
EXTENDS LocationScan

\* No servers, a full page, rows that move by one, and more than three pages.
MCCatalog ==
  {<<>>, <<"a", "b">>, <<"b", "a", "c">>, <<"c", "b", "a">>,
   <<"a", "a", "b", "c", "c">>, <<"a", "a", "a", "a", "b", "b", "c">>}
=============================================================================
