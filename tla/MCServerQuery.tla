--------------------------- MODULE MCServerQuery ---------------------------
(* A small instance of ServerQuery for TLC: ints of 14 bits, so that eight *)
(* terabytes are one too many.                                             *)
EXTENDS ServerQuery

L(name, suffix, case) == [name |-> name, suffix |-> suffix, case |-> case]

MCHalf == 8192

D(count, size, unit, disk) ==
  [ok |-> TRUE, count |-> count, size |-> size, unit |-> unit, disk |-> disk]

NoHDD == [D(0, 0, "GB", NoLabel) EXCEPT !.ok = FALSE]

S(model, location, ram, hdd) ==
  [model |-> model, location |-> location, ram |-> ram, hdd |-> hdd,
   price |-> "number"]

MCText == {"", "dell", "hp", "ams"}
MCWithin == {<<t, t>> : t \in MCText} \cup {<<t, "">> : t \in MCText}
MCName == {"", "16GB", "4GB", "ecc", "SATA", "SSD"}
MCSuffix == {"", "DDR3", "2"}
MCGBName == {"16GB", "4GB"}

A == S("dell", "ams", L("16GB", "DDR3", "upper"), D(2, 2, "TB", L("SATA", "2", "upper")))
B == S("hp", "ams", L("4GB", "", "upper"), D(8, 120, "GB", L("SSD", "", "lower")))
C == S("dell", "hp", L("ecc", "2", "lower"), NoHDD)
N == [S("dell", "ams", L("4GB", "", "lower"), D(1, 500, "GB", L("SATA", "", "upper")))
        EXCEPT !.price = "NaN"]
H == S("hp", "", L("16GB", "", "lower"), D(4, 2, "TB", L("SATA", "", "upper")))

MCServer == {A, B, C, N, H}
MCCatalog == {<<>>, <<A>>, <<C, B>>, <<A, B, C>>, <<B, H, A>>,
              <<C, N>>, <<A, B, A, N, B>>}

MCQuery ==
  [model : {"", "dell"}, location : {"", "ams"},
   ram : {{}, {L("16GB", "", "lower")}, {NoLabel, L("16GB", "", "upper"), L("4GB", "", "upper")},
          {L("4GB", "", "upper"), L("SSD", "", "upper")}},
   disk : {NoLabel, L("SATA", "", "lower"), L("16GB", "", "upper")},
   min : {[unit |-> "none", n |-> 0], [unit |-> "GB", n |-> 960],
          [unit |-> "TB", n |-> 8], [unit |-> "bad", n |-> 0]},
   max : {[unit |-> "none", n |-> 0], [unit |-> "0", n |-> 0], [unit |-> "TB", n |-> 4],
          [unit |-> "bad", n |-> 0]},
   limit : {{}, {0}, {1}, {9}}, offset : {{}, {-1}, {1}, {7}}]

MCDefaultRAM == {L("16GB", "", "upper"), L("4GB", "", "upper")}
MCDefaultDisk == {L("SATA", "", "upper"), L("SSD", "", "upper")}
=============================================================================
