# A TLA+ model of the server catalog

The repository is a Go service that holds a catalog of rentable servers in memory, answers
filtered queries over HTTP, takes a whole new catalog as a CSV upload, and serves a one-page
filter UI. This directory holds its TLA+ specifications, the TLC configurations that check
them on small instances, and proofs checked by TLAPS for instances of any size.

## 1. Inventory

| Part | State | Operations | Interacts with |
| --- | --- | --- | --- |
| Process (`cmd/main.go`, `platform/shutdown`) | running, draining or not | load the configuration and the data file, listen, wait for SIGINT/SIGTERM, drain for 5 s | calls the service before it listens; `Shutdown` waits for requests |
| Configuration (`internal/config`) | none once loaded | file, environment over it, checks | its token and allowed values are read by every request |
| Service and parser (`internal/service`) | none | `LoadServerData`, `UploadServerData`, `GetServers`, the logging decorator | called by `main` and handlers; calls the repository |
| Repository (`internal/store`) | the index of parsed servers under a `sync.RWMutex`; the upload directory | `ListServers`, `ReplaceServers`, `SaveUpload` | shared by every request goroutine; the directory outlives the process |
| Value formats and matching (`internal/model`, `store.go`) | none | RAM, HDD, storage values; index a row, prepare a filter, match | one side runs at upload, the other per request |
| Readiness (`handlers.Upload`, `routes.go`) | an `atomic.Bool` | set after a load or upload, read by `GET /readyz` | shared by `main` and all uploads |
| Routes (`internal/server/routes.go`) | `Server.once` | build the chain once, hand it out | read and written by every request, without a lock |
| Middleware and adapter (`middleware/*`, `handlers/adapters.go`, `api`, `httperr`) | per request: header map, recorder, compressor | recover, request ID, access log, gzip, size limit, auth, JSON, errors to statuses | wrap one another; share one response |
| Request parsing and paging (`handlers/filter.go`, `contracts.go`) | none | validate the query, read the form, cut a page | between the adapter and the service |
| Filter UI (`web/index.html`) | filter state, paging, requests under way, locations | one handler per control, debounce, fetch and render, location scan | `GET /v1/servers` |
| Logger, static files, Swagger UI, documents | none at run time | | |

**What is hard here.** An upload is ten steps (parse, create, write, sync, rename, swap, flag, ...)
that other uploads, queries, failures, a drain and a kill can come between; its directory survives
the process. The index is a slice, two words, shared with readers. The first requests of a
process race to build the handler chain. Layers of middleware touch one response in an order that
deferred calls and panics change. A row is parsed at upload and compared, requests later, with a
parameter another function parsed. In the page, answers arrive in any order while handlers change
the state they were asked for, and its scan for locations reads a catalog page by page that uploads
replace. `PROJECT.json` lists each of these hazards at its line.

**What makes each part correct.**

- *Service and process:* an upload is all or nothing and atomic for its callers; the flag agrees
  with the catalog; what is served was saved; a crash leaves no torn copy; requests and shutdown end.
- *Configuration:* the environment is applied before anything is judged, and it replaces.
- *Repository:* listing and swapping exclude each other; a result is of one catalog; no starvation.
- *Query:* the index says of a row what the row says; all problems are told at once; pages are runs
  of the matches; a row that cannot be encoded breaks its own pages only.
- *Routes:* nobody gets an incomplete chain; latecomers do not build.
- *Response path:* one status, told truthfully to client and logs; the ID on everything; no upload
  without the token in force; no fault goes unlogged or is blamed on the wrong side.
- *UI:* every change is asked for; the settled page shows the answer to the last question; the
  location scan ends, invents nothing, and misses only what moved under it.

## 2. Modules

| Module | Models | Abstract specification |
| --- | --- | --- |
| `CatalogRegister` | what callers of the catalog may rely on: an atomic register with failing puts | it is the abstract one |
| `CatalogService` | process, uploads, queries, flag, upload directory | implements `CatalogRegister` |
| `MemoryRepo` | `ListServers` and `ReplaceServers` around the lock, word by word | implements `CatalogRegister` |
| `LazyRoutes` | `Server.routes()` | |
| `ErrorMap` | `api.MapError`, what an upload can fail with, who logs it | |
| `ServerConfig` | `config.Load` | |
| `RequestPath` | one request through the middleware chain and back, from the boot on; extends `ErrorMap` and `ServerConfig` | |
| `Paging` | limit, offset, `mapServersResponse` | |
| `ServerQuery` | formats, index, filter, the request builder, `GET /v1/servers`; extends `Paging` | `Asked`, `Place`, `OnPage`: what a question means, read off the rows |
| `LocationScan` | `populateLocations` against uploads; extends `Paging` | |
| `FilterUI` | the rest of the page's script | |
| `*Proofs` | the theorems about the module they are named for; `PagingProofs` is used by those of `ServerQuery` and `LocationScan` | |
| `MC*` | values for constants, symmetry sets | |

The modules compose in two ways. By refinement: `MemoryRepo` shows that the lock makes `List` and
`Replace` single steps, which is how `CatalogService`, `ServerQuery` and `LocationScan` take them;
`CatalogService` shows that the whole upload is a single step for its callers. And by `EXTENDS`:
`RequestPath` runs a request with the configuration and the errors of the modules below it, and the
page and the service of `LocationScan` cut pages with the same `Paging`. What `LocationScan` takes for
granted of the service, that a request without a filter gets a page of the catalog as it was
uploaded, is the theorem `UnfilteredIsAll` of `ServerQueryProofs`.

### CatalogService

`pc[w]` is where upload `w` is: `form` (`NewUploadServerRequest`), `parse` (`io.ReadAll`, `Parse`),
`create`, `write`, `sync`, `rename` (`SaveUpload`), `replace` (`ReplaceServers`), `store`
(`Ready.Store(true)`), `ok` or `fail` (the answer). `Boot` is `main`'s own upload: it skips the form
and ends in `Listen`, whether it failed or not. The cuts are the points where another goroutine or a
kill can get in: system calls, the lock, the atomic flag. Every step that can return an error has a
failing twin (`ReadFails`, `CreateFails`, `SaveFails`) that does the clean-up of its path.

A file's content is a value of `Payload`; `Parses` is what `CSVParser.Parse` accepts. `dir[n]` is the
file named `n` in the upload directory and `tmp[w]` the temporary file of `w`. `source` and `raced`
are history variables for the properties: the name the catalog was uploaded under, and the names on
which two uploads crossed.

`Kill` stands for SIGKILL, for a signal before `runServer` waits for one, and for `logger.Fatalf`.
`Exit` empties everything but `dir`.

Assumed: `app.data_file` is not inside `app.upload_dir`; a kill ends the process and not the machine
(what was written stays written); `os.Remove` of a file just created succeeds (the code ignores its
error); nobody else writes to the directory.

### MemoryRepo

`ptr` and `len` are the words of the slice; `SetPtr`/`SetLen` and `ReadPtr`/`ReadLen` write and read
them one at a time. `Mutex`, `Announce`, `Enter`, `Unlock`, `Release`, `RLock` and `RUnlock` are the
steps of `sync.RWMutex` (external): writers queue on a mutex, the one that has it announces itself
(new readers block), waits for the readers inside, and on `Unlock` lets in the readers that waited.
`Size[c]` is how many servers array `c` has, `Hit[c]` the positions the filter keeps; the loop of
`ListServers` is one `Scan` per position. Which positions those are is the business of `ServerQuery`.

### LazyRoutes

`typ` and `data` are the words of the interface value `s.once`. A store writes both and a load reads
both, in either order, as Go's memory model leaves a racy access open; each word by itself is
coherent. `data` names the request whose chain it is, since every racing request builds its own.

### ErrorMap, ServerConfig, RequestPath

An error is the set of what `errors.As` and `errors.Is` can find in its chain, plus the status of the
`APIError` in it. `UploadErrors` are the six kinds an upload can end with; `MapError` is the order of
the tests; `DecoratorLogs` and `AdaptLogs` say which layer writes an error line.

A configuration file is its token, its port and whether the rest of it passes (`whole`); the
environment its token and its PORT. `Override` and `Valid` run in the order `Load` has them.

`RequestPath` has one action per layer on the way in (`Recover`, `RequestID`, `Logging`, `Gzip`, `Mux`,
`Auth`, `Handler`, `Body`) and out (`GzipClose`, `LogLine`, `Recovered`), after `Boot`, which refuses a
deployment or serves with it; `Redeploy` is the operator's. The response is the header map (names
only), what was sent (`wire`: status, 0 before there is one, the header map at that moment, kinds of
body bytes) and the recorder's status. `Answers` lists what each route's handler can answer; `Panic`
happens in a handler before or after it has sent its status. `net/http`'s own rules (one status,
headers frozen with it, an implicit 200 with the first byte, no body for 204 and 304, `serveError`
dropping `Content-Encoding`) are `SendStatus`, `SendBody` and `FileError` (external).

### Paging, ServerQuery

A parameter that is not given is `{}`, one given `n` is `{n}`. A RAM or disk label is its name, what
the data appends to it and its case; an HDD cell is count, size, unit and label, or one that
`ParseHDD` refuses; a price is a number or not, which is all that `json.Marshal` cares about. `Int_` is
an `int` of any width and `Wrap` what it makes of a number, so the products of `HDDSize` and
`ParseStorage` overflow in the model as they do in the program. Substring search is the relation
`Within`, free but for finding the empty text everywhere.

`ReplaceServers` builds the index, `GetServers` runs the builder's methods (`Problems`), and if none
complains `ListServers`, `Page` and the encoding. The loop of `ListServers` is a recursive function:
`result[n]` is what it has collected after `n` rows. `Asked` and `TrueSize` say what a question means
without any of these: by the rows as uploaded and in whole numbers. A row whose HDD cell does not parse
has no size, and no bound asks for it. The code has it as 0 GB (`store.go:36-41, 93`), which is not what
`tests/real_data_filter_test.go:23-28` and `200-206` say of such a cell; `TakenForZero` names the rows
this lets through, and the properties leave them out. `Place` numbers the rows asked for in the catalog's
order, and a page is a range of these numbers (`OnPage`).

### LocationScan, FilterUI

JavaScript runs a handler to its next `await`, so each such stretch is an action. In `LocationScan`,
`Serve` is the service's answer to one page, `Receive` the loop's body, `NotOk` and `Throw` the two
other ways out; `Upload` replaces the catalog at any time. `from` remembers the catalogs pages came
from.

In `FilterUI`, `filter` stands for all filter fields of `state`, `offset` counts pages. `inflight` holds
the calls of `fetchAndRender` that await `headers`, a `body`, or the body of a `problem`; `Headers`,
`Render` and `Fail` resume any of them. While a slider is held (`sliding`) the pointer is busy: other
controls cannot be used; every drag is taken to end with a `change` event, one back to where it began too.
The catalog does not change here.

## 3. Runs

Runs that pass:

| Run | Instance | Shows |
| --- | --- | --- |
| `CatalogSafety` | startup load and 2 uploads, 2 names, 2 good contents and a bad one, symmetry | the flag agrees with the catalog; audit copies whole and no temporary file without an owner; nothing acknowledged or served unsaved, and the copy equal to what is served unless two uploads of that name crossed |
| `CatalogPromise` | startup load, 2 uploads, 1 query, 1 name, fairness | the service is an atomic register; a live process never goes back to no catalog, no step takes back a saved copy; requests end, the boot goes on, a signal ends the process |
| `RepoPromise` | 2 readers, 2 writers, catalogs of 0, 1 and 2 servers, fairness | exclusion, whole answers from whole slices, atomic operations; no starvation either way |
| `RoutesSafety` | 3 racing requests, symmetry | only whole chains; latecomers do not build; a builder is served |
| `PathSafety` | every deployment, route, header, token, error and outcome, one request after another | rightly refused deployments, truthful access log, ID everywhere, one answer, a panic nobody was ahead of is the structured 500, no upload without the token in force, the error log's exact contents, faults told to the right side, bodies labelled as they are coded |
| `QuerySafety` | 7 catalogs of 5 kinds of rows, 12 288 questions, ints of 14 bits | all problems at once; a row matches just when it is asked for, but for rows without a size that 0 GB let through; answers are runs of the matches; a row that cannot be encoded fails the pages it is on, all of them, and no others |
| `ScanPromise` | 3 cities, 6 catalogs of up to 7 rows, 3 pages of 2, fairness | a row that keeps its place is found, nothing is invented, the scan ends however many uploads come |
| `UISafety` | 2 filters (3 pages and 1), at most 4 requests | every change is asked for; no negative page; never stuck at "Loading"; the settled page is right unless a request was overtaken between headers and body |

Runs that show a disagreement between the code and what it says of itself (the quotes are in
`PROJECT.json`, "findings"):

| Run | What the counterexample does |
| --- | --- |
| `CatalogSpill` | a large form without the field `file` is answered 400 and its temporary file stays |
| `RoutesTorn` | a request sees `s.once != nil` by the type word and gets a nil function |
| `PathPanic` | a panic under gzip: the deferred `Close` sends 200 before `recover` writes 500 |
| `UIStale` | a request superseded while its body is awaited renders over the newer one |

What else was seen while modelling is in the models and left out of the properties, each of which
says so:

- a CSV of nothing but a header loads, and `/readyz` then answers 200 over an empty catalog
  (`parser.go:31`, against `docs/api.md:234-236`);
- Next within the 300 ms of the debounce asks for page two of the new filter (`index.html:450, 504`,
  against the comment at 346-348);
- a panic skips the access-log line, which is not deferred (`logging.go:36`, against `docs/api.md:280`);
- a listing that cannot be encoded, because a price is not a number, is a 500 without an error line, and
  so is the 503 of `/readyz` (`adapters.go:65`, against `docs/api.md:282`);
- a file server's 404 under gzip is compressed without a `Content-Encoding`, which `net/http` removes
  from errors;
- a row whose HDD cell does not parse is listed under every `storage_max` from 0 on, and under a
  `storage_min` of 0, since 0 GB stand in for its size (`store.go:36-41, 93`); against
  `tests/real_data_filter_test.go:23-28`, such a cell "would just silently stop matching
  disk_type/storage_min/storage_max filters for that row", and 200-206, it "would just quietly stop
  matching disk_type/storage filters". `RowsMeant` leaves out such rows, `AnswerMeant` and `BadPriceStays`
  the questions of a catalog that lets one through (`TakenForZero`, `SizesKnown`);
- sizes and bounds overflow silently (`server.go:102, 146`), and an `allowed_disk_types` that names a
  generation is accepted and matches no row (`store.go:87`).

**Bounds.** Two uploads are the least that can cross, on one name or two, and the startup load is a
third writer of the same code; two good contents tell "mine" from "the other's", the bad one drives
every failure of the parser. Processes restart without bound: `Exit` goes back to a state with an
empty memory, so no counter is needed. A query only reads, so one is enough for the register. In
`MemoryRepo` the sizes 0, 1 and 2 make both mistakes visible, a list cut short and one that runs over.
Three requests give `LazyRoutes` two builders and a latecomer. `RequestPath` needs no bound: a request
is finite, nothing is shared between two, and the run has every route. `QuerySafety` has a row with
each kind of label (a family with and without suffix, one that is no family, a generation, lower case),
a cell that does not parse and a price that does not encode; its questions are every combination of
parameters absent, right, wrong and at the boundary; with 14 bits eight terabytes are one too many, so
the overflow happens, and with `MaxLimit` 3 a limit is capped and an offset runs past the end.
`ScanPromise` has catalogs shorter than a page, of a full page, longer than the cap of three pages, and
ones in which rows have moved. In `FilterUI`, `MaxRequests` = 4 is one request for the page load and
three more, enough for one to be overtaken by two others; its runs switch the deadlock check off because
the user stops there. Four also bounds `offset`. `ScanPromise` needs no such switch, because uploads go
on after the scan; none of the other runs can stop.

**Fairness.** `CatalogService.FairSpec` has weak fairness for each upload's steps (a runnable
goroutine runs, system calls return, the lock is granted as `MemoryRepo` shows), for the form
(`ReadTimeout` ends one that does not arrive, `main.go:95`), for the queries, for `Listen`, and for
the drain (`Drained`, or the timer of `GracefulShutdown`). Nothing obliges anybody to start, stop,
kill or call the process. `MemoryRepo.FairSpec` has weak fairness for steps that stay enabled once they
are, and strong fairness for `Mutex`, because `sync.Mutex` hands itself to a waiter that has waited for
more than a millisecond. `LocationScan.FairSpec` has weak fairness for the scan: a fetch is answered or
fails, because the server's `WriteTimeout` cuts off what takes longer (`main.go:96`), and uploads have
none. The other modules state no liveness: nothing in the page bounds a request by a time.

**Mutants.** Next to the definitions some variants are kept, commented "Mutant:", that change a
definition the way a bug would (an error dropped, a lock forgotten, a missing return). No
specification uses them; putting one in the place of the definition it varies violates the property
`PROJECT.json` names for it, which is how each property is known to say something of the code.

## 4. Proofs

`tlapm` checks every theorem, for any number of uploads, queries, readers, writers, names, contents,
rows, questions, cities, page sizes and requests. The assumptions are those the modules declare on
their constants: `Boot` is not an upload slot and calls are not both uploads and queries; the marker
values are not contents; `Size` and `Hit` describe each catalog, and the empty one is empty; the nil data
word is not a chain; the default limit is within the cap, and the page asks for no more than it; the
empty text is found in every text, and no label of the form `<digits>GB` is empty.

*CatalogServiceProofs.* `IInv` is the inductive invariant. Each checked property is made of its
conjuncts; none is inductive alone. `Readiness` (`ReadyFlag`) needs `Loaded` (past the swap there is a
catalog) and `Clean` (a process that is down has forgotten everything). `AuditIsWhole`
(`AuditDirectory`) needs `Parsed` (nothing past the parser is unparseable) and `Whole` (a temporary file
is whole by the time it is synced): without it the rename could publish a part. `AuditIsServed`
(`AuditCopy`) needs `Saved` (past the rename there is a copy, which `AuditIsWhole` says is whole: so
nothing is acknowledged that was not saved) and `Alone`: under a name on which nobody crossed, at most
one upload stands between its rename and its swap, and the directory holds its content, so the swap that
follows makes the two agree again. `LoadedForGood` is an action property; its half about the directory
rests on `OnlyRename`, that no step but a rename changes a name, and on `Parsed` and `Whole`.
`UploadsAdvance` gives each step an upload can be at a number and shows that every step of the upload
lowers it and nobody else's raises it. `Refinement` maps each step to a step of `CatalogRegister` or a
stutter: `Replace` is the `Put`, the failing steps are `FailPut`, `List` is the `Get`; `OneCall` and
`SameCalls` say which calls a step moves.

*MemoryRepoProofs.* `LockInv` ties the lock's fields to the program counters: one writer past the
mutex, which is its owner; announced exactly while it wants in or is in; departing exactly the readers
still inside; a reader blocked only while a writer is announced. `Exclusion` follows, and `NoStandstill`:
a blocked reader means an announced writer, an announced writer that drains means a reader inside, and
a reader inside can move, so some open call always can. `SliceInv` adds that the two words agree when no
writer is between them and that a reader's words agree once it has both; `ScanInv` is the loop invariant
(kept = the matches before `pos`), from which `AnswersWhole` follows at the loop's end. `Refinement`
linearises a swap at its first word and a listing at its last.

*LazyRoutesProofs.* The type word is never unset and a request that has built never builds again, so a
data word can only go from one whole chain to another (`WholeChains`, `BuildsOnce`); a builder's own
stores precede its load, so what it reads back cannot be nil (`Written`, `ReadBack`); whoever is past the
check has seen the type word set, so a request that arrives after one got through finds it set (`Typed`).
`RaceCloses` says when the danger is over: with the first request that has stored both words, and for
good. What cannot be proved, because it is false, is `FullyWired`.

*RequestPathProofs.* The invariant says layer by layer what is on the response and in the logs: nothing
has been answered on the way in (`Fresh`), the ID is in the header map before a status can be sent
(`Identified`), the recorder holds the status that was sent or will be implied (`Recorded`), the error
lines are those of the error and the panic so far (`Reported`), the label agrees with the compressor
(`Labelled`), what was applied was admitted (`Permitted`), and a panic before a status leaves `recover` a
response to write, unless the compressor's `Close` was there first (`Unwinding`). `AnswerShape` bounds
what the handlers can answer and `ErrorShape` what errors map to. All nine invariants of the run follow.
The module has no parameter but the set of routes, so these theorems say little that the run does not;
their use is the argument, which says why the order of the layers is right.

*ServerQueryProofs.* The invariant ties the index to the catalog row by row (`Indexed`) and a reply to
its request (`Replied`). The weight is in three groups of lemmas. About one row and one question:
`FamilySame`, `RAMMeant`, `DiskMeant`, `SizeMeant`, `BoundMeant` and `WrapKeeps` together give `RowMeant`,
that matching is being asked for, for any labels, any sizes and any width of `int`, as long as the true
numbers fit and the row is not one without a size that 0 GB let through (`TakenForZero`). About the problems: `ProblemAlone`, that a parameter is wrong by itself just when it is wrong
among the others. About the loop: `LoopMeant`, that after `n` rows it has collected the matches among
them, each at the place that counting the matches up to it gives. This is an induction, and the library's
induction theorems are out of reach because they take an operator; `SetInduction` states induction for a
*set* of numbers instead, and follows from the least element of its complement. `LoopMeant`, `RowMeant`
and `PageRows` give `InvListed`, and from it `AnswersMeant` and `BadPricesStay`. `UnfilteredIsAll` needs
no assumption on overflow or on sizes: without a filter no number is compared.

*PagingProofs.* `PageRows` says of any sequence, limit and offset what is on a page, in both directions,
and when a page is short. `PagesTile`: the pages at multiples of the limit hold every row exactly once.

*LocationScanProofs.* `ReadSoFar` is the loop invariant: every row below `offset` that has kept its place
in all the catalogs read has been collected. A page from a new catalog only makes fewer rows keep their
place, and `PageRows` says that a page holds the rows from `offset` to the next one or to the end; at the
end `Counters` (`offset = page * ScanLimit`) turns this into `ListComplete`. `ListHonest` follows from
`Collected` and `Offered`. The two meet in `QuietScan`: a scan that met one catalog under the cap ends
with exactly its locations. `ScanAdvances` counts the steps left from the cap, not from the total that
each page brings, which an upload may raise.

*FilterUIProofs.* What has been asked is the state unless a timer or a slider is about to ask it; a page
that says "Loading" has its newest request under way; and a request past its check is the newest, unless
`overtaken` records that it no longer is. From these `StateIsAsked`, `LoadingEnds` and `SettledIsRight`.
`NeverStale` is false, and `SettledShows` says exactly how far off it is; `RendersNewest` says the same of
every step that renders or raises the banner.

Every invariant of a passing run is a theorem, and so are its action property and both refinements. Only
model-checked is liveness (`RequestsEnd`, `BootEnds`, `ShutdownEnds`, `CallsReturn`, `ScanEnds`), which is
out of the prover's reach. The half of it that is a safety argument is proved: `UploadsAdvance` and
`ScanAdvances` are descents that end, and `NoStandstill` says that somebody can always go on. That the one
who can does is fairness, and that nobody is passed over forever is what the runs check.

## 5. Not modelled

- *CSV cells, header and price prefixes:* one row after another, without state; the parser is the
  predicate `Parses`, and what it makes of RAM, HDD and price cells is the input of `ServerQuery`.
- *Texts:* trimming and lower-casing are inside `Within`; the wording of messages, log fields, the JSON
  layout.
- *Clients with timeouts and retries:* nothing in the code knows a retry. It is one more upload of the
  same name and content, which `CatalogService` interleaves with the first; what the client saw of the
  first (`WriteTimeout` may cut it off) is outside.
- *Second errors of the file system:* `os.Remove` and `Close` failing, a full disk that tears a rename.
- *ETags:* `CacheableJSON` has the 304 as an outcome; the hash is a function of the body, and its clash
  is not a state of anything.
- *Drawing:* sliders' labels, rows, option elements.
- *Handler and repository construction, logger, static files, documents, fixtures:* constructors and
  I/O without state of their own; `AllowedRAM`, `AllowedDisk` and the docs routes are modelled where they
  are used.

## 6. How the project is ordered

1. The core: `CatalogRegister`, `CatalogService`, `MemoryRepo`, `LazyRoutes`, with their proofs.
2. The request: `ErrorMap`, `ServerConfig`, `RequestPath`.
3. The question: `Paging`, `ServerQuery`, with the reference definitions they are checked against.
4. The page: `FilterUI`, `LocationScan`.
5. The proofs about 2 to 4, and those that compose them: paging, the loop of `ListServers`, the descents.

What could still be added: a client around `CatalogService` that sends an upload again when it is cut off,
if the service ever gets a notion of a retry; the cells of a CSV row, if the formats grow beyond the
prefixes they have.
