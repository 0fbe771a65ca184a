---------------------------- MODULE ServerQuery ----------------------------
(***************************************************************************)
(* GET /v1/servers: the query parameters become a filter and a page, the   *)
(* filter is matched against values that were parsed when the catalog was  *)
(* installed, and one page of the matches is answered.                     *)
(*                                                                         *)
(* A RAM or disk label is a record: a name ("16GB", "SATA"), what the data *)
(* appends to it ("DDR3", "2") and its case.  An HDD cell is its count,    *)
(* size, unit and label, or one ParseHDD refuses; a number too large for   *)
(* an int is refused by Atoi.  Texts are compared by Within alone.  The    *)
(* values of a parameter that is not given are {}, Empty, "none" or        *)
(* NoLabel; one given empty is like one not given.                         *)
(***************************************************************************)
EXTENDS Paging, FiniteSets

CONSTANTS
  Empty,       \* the text ""
  Text,        \* models, locations and what is searched in them
  Within,      \* <<t, f>>: t contains f, trimmed and in lower case
  Name, Suffix, \* parts of labels
  GBName,      \* the names of the form "<digits>GB"
  Half,        \* an int is in -Half..Half-1
  Server,      \* the rows of the catalogs
  Catalog,     \* what is uploaded: sequences of rows
  Query,       \* what is asked
  ConfiguredRAM, ConfiguredDisk,  \* allowed_ram, allowed_disk_types
  DefaultRAM, DefaultDisk

Int_ == -Half..Half - 1

Label == {l \in [name : Name, suffix : Suffix, case : {"upper", "lower"}] :
            l.name = Empty /\ l.suffix = Empty => l.case = "upper"}
NoLabel == [name |-> Empty, suffix |-> Empty, case |-> "upper"]

Unit == {"GB", "TB"}
HDD == [ok : BOOLEAN, count : 0..Half - 1, size : 0..Half - 1, unit : Unit,
        disk : Label]

\* An int that may be given.
Given == {{}} \cup {{n} : n \in Int_}

\* The storage parameters: not given, "0", an int with a unit, anything else.
Storage == [unit : {"none", "0", "bad"} \cup Unit, n : Int_]

ASSUME QueryAssumption ==
  /\ Half \in Nat \ {0}
  /\ Empty \in Text /\ \A t \in Text : <<t, Empty>> \in Within
  /\ Empty \in Name \cap Suffix /\ GBName \subseteq Name \ {Empty}
  /\ Server \subseteq [model : Text, location : Text, ram : Label, hdd : HDD,
                       price : {"number", "NaN"}]
  /\ Catalog \subseteq Seq(Server)
  /\ Query \subseteq [model : Text, location : Text, ram : SUBSET Label,
                      disk : Label, min : Storage, max : Storage,
                      limit : Given, offset : Given]
  /\ \A r \in {ConfiguredRAM, ConfiguredDisk, DefaultRAM, DefaultDisk} :
       r \subseteq Label

VARIABLES
  catalog,  \* the rows as they were uploaded
  index,    \* memoryRepository.servers
  query,    \* the request that is being answered
  reply     \* its answer

vars == <<catalog, index, query, reply>>
-----------------------------------------------------------------------------
(* model: formats.                                                         *)

\* What an int makes of a number.
Wrap(n) == ((n + Half) % (2 * Half)) - Half

Upper(label) == [label EXCEPT !.case = "upper"]
EqualFold(a, b) == Upper(a) = Upper(b)

\* Only a label that begins "<digits>GB" loses the rest.
RAMFamily(ram) ==
  [Upper(ram) EXCEPT !.suffix = IF ram.name \in GBName THEN Empty ELSE @]

NormalizeDiskType(disk) == [Upper(disk) EXCEPT !.suffix = Empty]

\* Mutant: terabytes are not brought to gigabytes.
HDDSizeUnscaled(hdd) == Wrap(hdd.count * hdd.size)

HDDSize(hdd) ==
  LET total == Wrap(hdd.count * hdd.size)
  IN  IF hdd.unit = "TB" THEN Wrap(total * 1024) ELSE total

\* ParseStorageValue of a parameter it accepts, {} for the nil pointer.
ParseStorage(s) ==
  CASE s.unit = "TB" -> {Wrap(s.n * 1024)}
    [] s.unit = "GB" -> {s.n}
    [] s.unit = "0"  -> {0}
    [] OTHER         -> {}
-----------------------------------------------------------------------------
(* handlers: the request builder.                                          *)

WithDefaults(configured, default) ==
  IF configured = {} THEN default ELSE configured

AllowedRAM == WithDefaults(ConfiguredRAM, DefaultRAM)
AllowedDisk == WithDefaults(ConfiguredDisk, DefaultDisk)

ContainsFold(list, label) == \E item \in list : EqualFold(item, label)

Param == {"ram", "disk_type", "storage_min", "storage_max", "limit", "offset"}

Invalid(p, q) ==
  \/ p = "ram" /\ \E r \in q.ram \ {NoLabel} : ~ContainsFold(AllowedRAM, r)
  \/ p = "disk_type" /\ q.disk # NoLabel /\ ~ContainsFold(AllowedDisk, q.disk)
  \/ p = "storage_min" /\ q.min.unit = "bad"
  \/ p = "storage_max" /\ q.max.unit = "bad"
  \/ p = "limit" /\ ~LimitOk(q.limit)
  \/ p = "offset" /\ ~OffsetOk(q.offset)

\* Mutant: the storage parameters are only looked at when the others are right.
ProblemsFirst(q) ==
  LET some == {p \in Param : Invalid(p, q)}
      other == some \ {"storage_min", "storage_max"}
  IN  IF other = {} THEN some ELSE other

\* errs: the parameters some With* method complained of.
Problems(q) == {p \in Param : Invalid(p, q)}

ToFilter(q) ==
  [model |-> q.model, location |-> q.location, ram |-> q.ram \ {NoLabel},
   disk |-> q.disk, min |-> ParseStorage(q.min), max |-> ParseStorage(q.max)]
-----------------------------------------------------------------------------
(* store: the index and the filter.                                        *)

NewIndexedServer(s) ==
  [server |-> s, ram |-> RAMFamily(s.ram),
   gb |-> IF s.hdd.ok THEN HDDSize(s.hdd) ELSE 0,
   disk |-> IF s.hdd.ok THEN NormalizeDiskType(s.hdd.disk) ELSE NoLabel]

\* Mutant: the RAM values of the filter are not brought to their families.
PrepareFilterRaw(f) == f

PrepareFilter(f) == [f EXCEPT !.ram = {RAMFamily(r) : r \in @}]

MatchesFilter(idx, f) ==
  /\ <<idx.server.model, f.model>> \in Within
  /\ f.ram = {} \/ idx.ram \in f.ram
  /\ <<idx.server.location, f.location>> \in Within
  /\ f.disk = NoLabel \/ EqualFold(f.disk, idx.disk)
  /\ \A m \in f.min : idx.gb >= m
  /\ \A m \in f.max : idx.gb <= m

\* result[n] is what the loop has collected after n rows.
ListServers(f) ==
  LET pf == PrepareFilter(f)
      result[n \in 0..Len(index)] ==
        IF n = 0 THEN <<>>
        ELSE IF MatchesFilter(index[n], pf)
          THEN Append(result[n - 1], index[n].server)
          ELSE result[n - 1]
  IN  result[Len(index)]
-----------------------------------------------------------------------------
(* The lock makes installing a catalog and listing it single steps (see    *)
(* MemoryRepo), so nothing comes between a question and its answer.        *)

NoStorage == [unit |-> "none", n |-> 0]
NoQuery == [model |-> Empty, location |-> Empty, ram |-> {}, disk |-> NoLabel,
            min |-> NoStorage, max |-> NoStorage, limit |-> {}, offset |-> {}]

\* A reply that lists nothing.
NoRows(status, problems) ==
  [status |-> status, problems |-> problems, data |-> <<>>, total |-> 0]
NoReply == NoRows(0, {})

Init ==
  /\ catalog = <<>> /\ index = <<>>
  /\ query = NoQuery /\ reply = NoReply

\* Mutant: rows of the old index are kept when the new catalog is shorter.
ReplaceServersInPlace(rows) ==
  /\ catalog' = rows
  /\ index' = [i \in 1..Len(rows) |-> NewIndexedServer(rows[i])]
                \o SubSeq(index, Len(rows) + 1, Len(index))
  /\ UNCHANGED <<query, reply>>

ReplaceServers(rows) ==
  /\ catalog' = rows
  /\ index' = [i \in 1..Len(rows) |-> NewIndexedServer(rows[i])]
  /\ UNCHANGED <<query, reply>>

\* json.Marshal refuses a price ParseFloat has made of "NaN" or "Inf".
Encodes(rows) == \A i \in DOMAIN rows : rows[i].price = "number"

\* Mutant: all matches are encoded before the page is cut.
AnswerEncodingAll(q) ==
  LET rows == ListServers(ToFilter(q))
      p == Page(rows, Limit(q.limit), Offset(q.offset))
  IN  IF Encodes(rows)
        THEN [status |-> 200, problems |-> {}, data |-> p.data, total |-> p.total]
        ELSE NoRows(500, {})

Answer(q) ==
  LET rows == ListServers(ToFilter(q))
      p == Page(rows, Limit(q.limit), Offset(q.offset))
  IN  IF Encodes(p.data)
        THEN [status |-> 200, problems |-> {}, data |-> p.data, total |-> p.total]
        ELSE NoRows(500, {})

Reject(q) == NoRows(400, Problems(q))

GetServers(q) ==
  /\ query' = q
  /\ reply' = IF Problems(q) = {} THEN Answer(q) ELSE Reject(q)
  /\ UNCHANGED <<catalog, index>>

Sent ==
  /\ reply # NoReply
  /\ query' = NoQuery /\ reply' = NoReply
  /\ UNCHANGED <<catalog, index>>

Next ==
  \/ reply = NoReply /\ \E rows \in Catalog : ReplaceServers(rows)
  \/ reply = NoReply /\ \E q \in Query : GetServers(q)
  \/ Sent

Spec == Init /\ [][Next]_vars
-----------------------------------------------------------------------------
TypeOK ==
  /\ catalog \in Catalog \cup {<<>>}
  /\ index \in Seq([server : Server, ram : Label, gb : Int_, disk : Label])
  /\ Len(index) = Len(catalog)
  /\ query \in Query \cup {NoQuery}
  /\ reply \in [status : {0, 200, 400, 500}, problems : SUBSET Param,
                data : Seq(Server), total : Nat]

\* What a question means, read off the rows themselves and in whole numbers.  A
\* row whose HDD cell does not parse has neither a type nor a size.
TrueSize(s) == s.hdd.count * s.hdd.size * (IF s.hdd.unit = "TB" THEN 1024 ELSE 1)

TrueBound(p) == p.n * (IF p.unit = "TB" THEN 1024 ELSE 1)

Bounded(p) == p.unit # "none"

Bound(p) == IF p.unit = "0" THEN 0 ELSE TrueBound(p)

SameRAM(a, b) ==
  a.name = b.name /\ (a.name \in GBName \/ a.suffix = b.suffix)

Asked(s, q) ==
  /\ <<s.model, q.model>> \in Within
  /\ <<s.location, q.location>> \in Within
  /\ q.ram \subseteq {NoLabel} \/ \E r \in q.ram \ {NoLabel} : SameRAM(r, s.ram)
  /\ q.disk # NoLabel => s.hdd.ok /\ s.hdd.disk.name = q.disk.name
                                  /\ q.disk.suffix = Empty
  /\ Bounded(q.min) => s.hdd.ok /\ TrueSize(s) >= Bound(q.min)
  /\ Bounded(q.max) => s.hdd.ok /\ TrueSize(s) <= Bound(q.max)

\* A row without a size that 0 GB in its place would let through.  The index has
\* it as 0 GB, so it is listed under every storage_max from 0 on (store.go:36-41,
\* 93), while the tests say that a cell that does not parse "would just silently
\* stop matching disk_type/storage_min/storage_max filters for that row" and
\* "would just quietly stop matching disk_type/storage filters"
\* (tests/real_data_filter_test.go:23-28, 200-206).  The two disagree, and the
\* properties about what is matched leave these rows out.
TakenForZero(s, q) ==
  /\ ~s.hdd.ok
  /\ Bounded(q.min) \/ Bounded(q.max)
  /\ Bounded(q.min) => Bound(q.min) <= 0
  /\ Bounded(q.max) => Bound(q.max) >= 0

SizesKnown == \A i \in DOMAIN catalog : ~TakenForZero(catalog[i], query)

\* No int has overflowed: count * size * 1024 and the parameters' terabytes are
\* not checked for it (server.go:102-105, 146).
NoOverflow ==
  /\ \A i \in DOMAIN catalog :
       catalog[i].hdd.ok => TrueSize(catalog[i]) \in Int_
  /\ \A p \in {query.min, query.max} : TrueBound(p) \in Int_

\* Every problem of a request is reported at once: what is wrong with one
\* parameter does not hide what is wrong with another (filter.go:48-52,
\* docs/api.md:111-113), and nothing is listed then.
Alone(p, q) ==
  [q EXCEPT !.ram = IF p = "ram" THEN @ ELSE {},
            !.disk = IF p = "disk_type" THEN @ ELSE NoLabel,
            !.min.unit = IF p = "storage_min" THEN @ ELSE "none",
            !.max.unit = IF p = "storage_max" THEN @ ELSE "none",
            !.limit = IF p = "limit" THEN @ ELSE {},
            !.offset = IF p = "offset" THEN @ ELSE {}]

ProblemsAll ==
  /\ reply.status = 400 =>
       \A p \in Param : p \in reply.problems <=> Problems(Alone(p, query)) # {}
  /\ reply.status \in {200, 500} =>
       \A p \in Param : Problems(Alone(p, query)) = {}

\* The values parsed when the catalog was installed say of each row what the
\* row says itself, for every accepted question: RAM by its family, a disk by
\* its type without generation, storage in gigabytes, all of them together
\* (store.go:35-97, server.go:88-153, docs/api.md:89-92).  Rows TakenForZero are
\* not meant: of these it is not true.
RowsMeant ==
  reply.status \in {200, 500} /\ NoOverflow =>
    \A i \in DOMAIN catalog : ~TakenForZero(catalog[i], query) =>
      (MatchesFilter(index[i], PrepareFilter(ToFilter(query)))
         <=> Asked(catalog[i], query))

\* Where the rows that are asked for stand in the catalog, which of them each
\* is, and how many of them are skipped.
HitAt == {i \in DOMAIN catalog : Asked(catalog[i], query)}
Place(i) == Cardinality({j \in HitAt : j <= i})
Skip == IF query.offset = {} THEN 0 ELSE CHOOSE n \in query.offset : TRUE

\* An answer is a run of the rows asked for in the catalog's order, from the
\* offset on, at most MaxLimit of them, and shorter than the limit only at the
\* end; total counts them all, past the end too (contracts.go:33-57,
\* filter.go:144-173, docs/api.md:153-155), unless a row is TakenForZero.
AnswerMeant ==
  reply.status = 200 /\ NoOverflow /\ SizesKnown =>
    LET n == Len(reply.data)
        hits == Cardinality(HitAt)
    IN  /\ reply.total = hits
        /\ \A k \in 1..n : \E i \in HitAt :
             Place(i) = Skip + k /\ reply.data[k] = catalog[i]
        /\ n <= MaxLimit /\ \A l \in query.limit : n <= l
        /\ n = MaxLimit \/ Skip + n >= hits \/ n \in query.limit
             \/ (query.limit = {} /\ n = DefaultLimit)

\* The page that is asked for.
OnPage(i) ==
  /\ Place(i) > Skip /\ Place(i) <= Skip + MaxLimit
  /\ \A l \in query.limit : Place(i) <= Skip + l
  /\ query.limit = {} => Place(i) <= Skip + DefaultLimit

\* A row with a price that is not a number, which an upload may bring in, fails
\* the pages it is on and no others (server.go:61-77, adapters.go:62-68), unless
\* a row is TakenForZero.
BadPriceStays ==
  reply.status \in {200, 500} /\ NoOverflow /\ SizesKnown =>
    (reply.status = 500 <=>
       \E i \in HitAt : catalog[i].price = "NaN" /\ OnPage(i))
=============================================================================
