---------------------------- MODULE LocationScan ----------------------------
(***************************************************************************)
(* populateLocations of web/index.html against the service: the page reads *)
(* the catalog page by page to list its locations, while uploads replace   *)
(* it as a whole.                                                          *)
(*                                                                         *)
(* A server is its city here.  Serving a page and replacing the catalog    *)
(* are single steps, as MemoryRepo shows.                                  *)
(***************************************************************************)
EXTENDS Paging, FiniteSets

CONSTANTS
  City,
  Catalog,    \* the catalogs that are uploaded, sequences of cities
  ScanLimit,  \* LOCATION_SCAN_LIMIT, 200
  ScanPages   \* LOCATION_SCAN_MAX_PAGES, 25

\* The script counts on getting the limit it asks for.
ASSUME ScanAssumption ==
  /\ Catalog \subseteq Seq(City) /\ Catalog # {}
  /\ ScanLimit \in 1..MaxLimit
  /\ ScanPages \in Nat \ {0}

VARIABLES
  served,   \* the catalog of the service
  pc,       \* awaiting the headers ("fetch") or the body, or over
  page,     \* the loop's counter
  offset,
  answer,   \* the body that is on its way
  cities,   \* cities collected so far
  options,  \* what the dropdown offers besides "Any"
  from,     \* history: the catalogs the pages were served from
  ending    \* how the loop was left

vars == <<served, pc, page, offset, answer, cities, options, from, ending>>

NoAnswer == [data |-> <<>>, total |-> 0]

TypeOK ==
  /\ served \in Catalog /\ from \subseteq Catalog
  /\ pc \in {"fetch", "body", "done"}
  /\ page \in 0..ScanPages /\ offset \in Nat
  /\ answer \in [data : Seq(City), total : Nat]
  /\ cities \subseteq City /\ options \subseteq City
  /\ ending \in {"running", "end", "status", "throw"}

Init ==
  /\ served \in Catalog /\ pc = "fetch" /\ page = 0 /\ offset = 0
  /\ answer = NoAnswer /\ cities = {} /\ options = {} /\ from = {}
  /\ ending = "running"

\* An upload, at any time.
Upload ==
  /\ served' \in Catalog \ {served}
  /\ UNCHANGED <<pc, page, offset, answer, cities, options, from, ending>>

\* GET /v1/servers, without a filter.
Serve ==
  /\ pc = "fetch"
  /\ pc' = "body"
  /\ answer' = Page(served, Limit({ScanLimit}), Offset({offset}))
  /\ from' = from \cup {served}
  /\ UNCHANGED <<served, page, offset, cities, options, ending>>

Leave(how, found) == pc' = "done" /\ ending' = how /\ options' = found

InAnswer == {answer.data[i] : i \in DOMAIN answer.data}

\* Mutant: the page that would be the last is not fetched.
ReceiveStopsEarly ==
  /\ pc = "body"
  /\ cities' = cities \cup InAnswer
  /\ offset' = offset + ScanLimit
  /\ page' = page + 1
  /\ IF offset' + ScanLimit >= answer.total \/ page' = ScanPages
       THEN Leave("end", cities')
       ELSE pc' = "fetch" /\ UNCHANGED <<ending, options>>
  /\ answer' = NoAnswer
  /\ UNCHANGED <<served, from>>

\* Mutant: without the cap on pages.
ReceiveUncapped ==
  /\ pc = "body"
  /\ cities' = cities \cup InAnswer
  /\ offset' = offset + ScanLimit
  /\ page' = page + 1
  /\ IF offset' >= answer.total
       THEN Leave("end", cities')
       ELSE pc' = "fetch" /\ UNCHANGED <<ending, options>>
  /\ answer' = NoAnswer
  /\ UNCHANGED <<served, from>>

\* The end is judged by the total of this page's catalog; the service always
\* sends a meta, so its absence, which would end the loop, does not come up.
Receive ==
  /\ pc = "body"
  /\ cities' = cities \cup InAnswer
  /\ offset' = offset + ScanLimit
  /\ page' = page + 1
  /\ IF offset' >= answer.total \/ page' = ScanPages
       THEN Leave("end", cities')
       ELSE pc' = "fetch" /\ UNCHANGED <<ending, options>>
  /\ answer' = NoAnswer
  /\ UNCHANGED <<served, from>>

\* A status that is not ok leaves the loop: what was collected is offered.
NotOk ==
  /\ pc = "fetch"
  /\ Leave("status", cities)
  /\ UNCHANGED <<served, page, offset, answer, cities, from>>

\* Mutant: the options are filled in a finally block.
ThrowOffers ==
  /\ pc \in {"fetch", "body"}
  /\ Leave("throw", cities)
  /\ UNCHANGED <<served, page, offset, answer, cities, from>>

\* Mutant: a scan that failed starts again.
ThrowRestarts ==
  /\ pc \in {"fetch", "body"}
  /\ pc' = "fetch" /\ page' = 0 /\ offset' = 0 /\ cities' = {}
  /\ UNCHANGED <<served, answer, options, from, ending>>

\* The network fails, or a body cannot be read: nothing is offered.
Throw ==
  /\ pc \in {"fetch", "body"}
  /\ Leave("throw", {})
  /\ UNCHANGED <<served, page, offset, answer, cities, from>>

Scan == Serve \/ Receive \/ NotOk \/ Throw
Next == Upload \/ Scan

Spec == Init /\ [][Next]_vars

\* A fetch is answered or fails: the server cuts off what takes longer than its
\* WriteTimeout (main.go:96).
FairSpec == Spec /\ WF_vars(Scan)
-----------------------------------------------------------------------------
\* Row i is the same city in every catalog a page came from.
Stays(i, city) == \A c \in from : i \in DOMAIN c /\ c[i] = city

\* How many rows from the first the loop has been through.
Reached == IF ending = "status" THEN offset ELSE ScanPages * ScanLimit

\* The pages of one scan may be of several catalogs, and a city that is in all
\* of them can be missed when its rows move; but a row that keeps its place is
\* always read, so with no upload between the first page and the last the list
\* is complete, up to the cap on pages, and up to the page that was refused
\* (index.html:419-438, contracts.go:37-57).
ListComplete ==
  ending \in {"end", "status"} =>
    \A i \in 1..Reached : \A city \in City :
      (from # {} /\ Stays(i, city)) => city \in options

\* Whatever is offered was served, and an exception offers nothing
\* (index.html:446-449).
ListHonest ==
  /\ \A city \in options : \E c \in from : \E i \in DOMAIN c : c[i] = city
  /\ ending = "throw" => options = {}

\* The scan asks for at most ScanPages pages and ends, however often the catalog
\* is replaced under it (index.html:425).
ScanEnds == <>(pc = "done")
=============================================================================
