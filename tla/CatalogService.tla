--------------------------- MODULE CatalogService ---------------------------
(***************************************************************************)
(* The life of one instance: the startup load, admin uploads, queries, the *)
(* readiness flag, the graceful shutdown, kills and restarts.              *)
(*                                                                         *)
(* Every upload runs in its own goroutine; the steps below are the points  *)
(* at which another request can get in between: a system call, the swap of *)
(* the catalog under the repository's lock, the store of the atomic flag.  *)
(* The upload directory outlives the process, everything else does not.    *)
(*                                                                         *)
(* ListServers and ReplaceServers are one step each here: MemoryRepo shows *)
(* that the lock makes them so.                                            *)
(***************************************************************************)

CONSTANTS
  Uploader,   \* upload requests that can be in progress at once
  Getter,     \* GET /v1/servers requests that can be in progress at once
  Boot,       \* main's own call of LoadServerData
  Name,       \* base names of uploaded files
  BootName,   \* the base name of app.data_file
  Payload,    \* contents of uploaded files
  Parses,     \* the contents Parser.Parse accepts, a header row alone included
  Unloaded,   \* the catalog of a process that has loaded nothing
  Absent,     \* no file of that name in the upload directory
  Torn,       \* a file of the upload directory that is not a whole upload
  CanSpill    \* whether a form may exceed MaxUploadMemory

Writer == Uploader \cup {Boot}

ASSUME WriterAssumption == Boot \notin Uploader /\ Writer \cap Getter = {}
ASSUME NameAssumption   == BootName \in Name
ASSUME PayloadAssumption ==
  /\ Parses \subseteq Payload
  /\ Payload # {}
  /\ {Unloaded, Absent, Torn} \cap Payload = {}
  /\ Absent # Torn
ASSUME SpillAssumption == CanSpill \in BOOLEAN

VARIABLES
  mode,     \* where main is; "down" between two processes
  catalog,  \* memoryRepository.servers, as the file it was parsed from
  ready,    \* the atomic.Bool behind GET /readyz
  pc,       \* pc[w]: the next step of upload w
  file,     \* file[w]: the name w saves under
  load,     \* load[w]: the content w uploads
  tmp,      \* tmp[w]: w's temporary file in the upload directory
  dir,      \* dir[n]: what file n of the upload directory holds
  spill,    \* spill[u]: an OS temporary file of u's multipart form exists
  gpc,      \* gpc[g]: the next step of query g
  seen,     \* seen[g]: the catalog g listed
  source,   \* history: the name the served catalog was uploaded under
  raced     \* history: names renamed to while another upload of that name
            \* stood between its own rename and its swap of the catalog

uploadVars == <<pc, file, load, tmp, spill>>
queryVars  == <<gpc, seen>>
vars == <<mode, catalog, ready, uploadVars, dir, queryVars, source, raced>>

Content == Payload \cup {Unloaded}

Saving   == {"write", "sync", "rename"}
Deciding == {"parse", "create", "replace"} \cup Saving
Step     == {"idle", "form", "store", "ok", "fail"} \cup Deciding

TypeOK ==
  /\ mode \in {"down", "boot", "serving", "draining"}
  /\ catalog \in Content
  /\ ready \in BOOLEAN
  /\ pc \in [Writer -> Step]
  /\ file \in [Writer -> Name]
  /\ load \in [Writer -> Content]
  /\ tmp \in [Writer -> {"none", "part", "whole"}]
  /\ dir \in [Name -> Payload \cup {Absent, Torn}]
  /\ spill \in [Uploader -> BOOLEAN]
  /\ gpc \in [Getter -> {"idle", "list", "reply"}]
  /\ seen \in [Getter -> Content]
  /\ source \in Name
  /\ raced \subseteq Name

\* What a process keeps in memory, when it starts and once it has ended.
NoStep  == [w \in Writer |-> "idle"]
NoFile  == [w \in Writer |-> BootName]
NoLoad  == [w \in Writer |-> Unloaded]
NoTmp   == [w \in Writer |-> "none"]
NoSpill == [u \in Uploader |-> FALSE]
NoQuery == [g \in Getter |-> "idle"]
NoReply == [g \in Getter |-> Unloaded]

Init ==
  /\ mode = "down" /\ catalog = Unloaded /\ ready = FALSE
  /\ pc = NoStep /\ file = NoFile /\ load = NoLoad
  /\ tmp = NoTmp /\ spill = NoSpill
  /\ dir = [n \in Name |-> Absent]
  /\ gpc = NoQuery /\ seen = NoReply
  /\ source = BootName /\ raced = {}
-----------------------------------------------------------------------------
(* The upload: UploadServerData, run by LoadServerData and by Upload.      *)

Goto(w, s) == pc' = [pc EXCEPT ![w] = s]

\* The request is over: its slot is as it was before.
Forget(w) ==
  /\ Goto(w, "idle")
  /\ file' = [file EXCEPT ![w] = BootName]
  /\ load' = [load EXCEPT ![w] = Unloaded]

\* os.Open of the data file or io.ReadAll of the form's file failed.
ReadFails(w) ==
  /\ pc[w] = "parse"
  /\ Goto(w, "fail")
  /\ UNCHANGED <<mode, catalog, ready, file, load, tmp, spill, dir, queryVars,
                 source, raced>>

\* Mutant: what is saved is read from the reader the parser has drained.
ParseDrains(w) ==
  /\ pc[w] = "parse"
  /\ load' = [load EXCEPT ![w] = Unloaded]
  /\ Goto(w, IF load[w] \in Parses THEN "create" ELSE "fail")
  /\ UNCHANGED <<mode, catalog, ready, file, tmp, spill, dir, queryVars, source,
                 raced>>

\* Mutant: the rows are parsed into the catalog itself.
ParseInPlace(w) ==
  /\ pc[w] = "parse"
  /\ catalog' = IF load[w] \in Parses THEN load[w] ELSE Unloaded
  /\ Goto(w, IF load[w] \in Parses THEN "create" ELSE "fail")
  /\ UNCHANGED <<mode, ready, file, load, tmp, spill, dir, queryVars, source,
                 raced>>

\* The whole file is parsed before anything is saved.
Parse(w) ==
  /\ pc[w] = "parse"
  /\ Goto(w, IF load[w] \in Parses THEN "create" ELSE "fail")
  /\ UNCHANGED <<mode, catalog, ready, file, load, tmp, spill, dir, queryVars,
                 source, raced>>

\* MkdirAll or CreateTemp failed: there is no temporary file yet.
CreateFails(w) ==
  /\ pc[w] = "create"
  /\ Goto(w, "fail")
  /\ UNCHANGED <<mode, catalog, ready, file, load, tmp, spill, dir, queryVars,
                 source, raced>>

\* CreateTemp picks a name of its own for every upload.
Create(w) ==
  /\ pc[w] = "create"
  /\ tmp' = [tmp EXCEPT ![w] = "part"]
  /\ Goto(w, "write")
  /\ UNCHANGED <<mode, catalog, ready, file, load, spill, dir, queryVars,
                 source, raced>>

Write(w) ==
  /\ pc[w] = "write"
  /\ tmp' = [tmp EXCEPT ![w] = "whole"]
  /\ Goto(w, "sync")
  /\ UNCHANGED <<mode, catalog, ready, file, load, spill, dir, queryVars,
                 source, raced>>

Sync(w) ==
  /\ pc[w] = "sync"
  /\ Goto(w, "rename")
  /\ UNCHANGED <<mode, catalog, ready, file, load, tmp, spill, dir, queryVars,
                 source, raced>>

\* Mutant: the error path forgets os.Remove.
SaveFailsNoRemove(w) ==
  /\ pc[w] \in Saving
  /\ Goto(w, "fail")
  /\ UNCHANGED <<mode, catalog, ready, file, load, tmp, spill, dir, queryVars,
                 source, raced>>

\* Mutant: SaveUpload's error is dropped.
SaveFailsIgnored(w) ==
  /\ pc[w] \in Saving
  /\ tmp' = [tmp EXCEPT ![w] = "none"]
  /\ Goto(w, "replace")
  /\ UNCHANGED <<mode, catalog, ready, file, load, spill, dir, queryVars,
                 source, raced>>

\* Mutant: a failed save is tried again without end.
SaveFailsRetried(w) ==
  /\ pc[w] \in Saving
  /\ tmp' = [tmp EXCEPT ![w] = "none"]
  /\ Goto(w, "create")
  /\ UNCHANGED <<mode, catalog, ready, file, load, spill, dir, queryVars,
                 source, raced>>

\* Write, Sync or Rename failed: each of the three paths removes the
\* temporary file.
SaveFails(w) ==
  /\ pc[w] \in Saving
  /\ tmp' = [tmp EXCEPT ![w] = "none"]
  /\ Goto(w, "fail")
  /\ UNCHANGED <<mode, catalog, ready, file, load, spill, dir, queryVars,
                 source, raced>>

\* The uploads of n between their rename and their swap.
Renamed(n) == {w \in Writer : pc[w] = "replace" /\ file[w] = n}

\* The rename replaces whatever the directory holds under that name.
Rename(w) ==
  LET n == file[w] IN
  /\ pc[w] = "rename"
  /\ dir' = [dir EXCEPT ![n] = IF tmp[w] = "whole" THEN load[w] ELSE Torn]
  /\ tmp' = [tmp EXCEPT ![w] = "none"]
  /\ raced' = IF Renamed(n) = {} THEN raced \ {n} ELSE raced \cup {n}
  /\ Goto(w, "replace")
  /\ UNCHANGED <<mode, catalog, ready, file, load, spill, queryVars, source>>

\* Mutant: the flag is not set after an upload.
ReplaceNotReady(w) ==
  /\ pc[w] = "replace"
  /\ catalog' = load[w]
  /\ source' = file[w]
  /\ Goto(w, "ok")
  /\ UNCHANGED <<mode, ready, file, load, tmp, spill, dir, queryVars, raced>>

\* ReplaceServers: one slice is swapped for another under the write lock.
Replace(w) ==
  /\ pc[w] = "replace"
  /\ catalog' = load[w]
  /\ source' = file[w]
  /\ Goto(w, "store")
  /\ UNCHANGED <<mode, ready, file, load, tmp, spill, dir, queryVars, raced>>

StoreReady(w) ==
  /\ pc[w] = "store"
  /\ ready' = TRUE
  /\ Goto(w, "ok")
  /\ UNCHANGED <<mode, catalog, file, load, tmp, spill, dir, queryVars,
                 source, raced>>
-----------------------------------------------------------------------------
(* The admin upload's request around it.                                   *)

\* A connection open before the shutdown may still deliver a request.
Accept(u) ==
  /\ mode \in {"serving", "draining"} /\ pc[u] = "idle"
  /\ Goto(u, "form")
  /\ UNCHANGED <<mode, catalog, ready, file, load, tmp, spill, dir, queryVars,
                 source, raced>>

\* 401, 413 or 400: ReadForm deletes what it spilled of a form it rejects.
FormRejected(u) ==
  /\ pc[u] = "form"
  /\ Forget(u)
  /\ UNCHANGED <<mode, catalog, ready, tmp, spill, dir, queryVars, source,
                 raced>>

\* A well-formed form with no field "file": Upload returns before it defers
\* RemoveAll, and net/http's own cleanup looks at the request it made, not
\* at the copy RequestID's WithContext handed on, which holds the form.
FormWithoutFile(u) ==
  /\ pc[u] = "form"
  /\ Forget(u)
  /\ \E s \in {FALSE, CanSpill} : spill' = [spill EXCEPT ![u] = s]
  /\ UNCHANGED <<mode, catalog, ready, tmp, dir, queryVars, source, raced>>

FormAccepted(u) ==
  /\ pc[u] = "form"
  /\ \E n \in Name, p \in Payload, s \in {FALSE, CanSpill} :
       /\ file' = [file EXCEPT ![u] = n]
       /\ load' = [load EXCEPT ![u] = p]
       /\ spill' = [spill EXCEPT ![u] = s]
  /\ Goto(u, "parse")
  /\ UNCHANGED <<mode, catalog, ready, tmp, dir, queryVars, source, raced>>

\* Upload returns, 204 or an error: its defers run, the client is answered.
Answer(u) ==
  /\ pc[u] \in {"ok", "fail"}
  /\ Forget(u)
  /\ spill' = [spill EXCEPT ![u] = FALSE]
  /\ UNCHANGED <<mode, catalog, ready, tmp, dir, queryVars, source, raced>>
-----------------------------------------------------------------------------
(* GET /v1/servers.                                                        *)

Query(g) ==
  /\ mode \in {"serving", "draining"} /\ gpc[g] = "idle"
  /\ gpc' = [gpc EXCEPT ![g] = "list"]
  /\ UNCHANGED <<mode, catalog, ready, uploadVars, dir, seen, source, raced>>

List(g) ==
  /\ gpc[g] = "list"
  /\ seen' = [seen EXCEPT ![g] = catalog]
  /\ gpc' = [gpc EXCEPT ![g] = "reply"]
  /\ UNCHANGED <<mode, catalog, ready, uploadVars, dir, source, raced>>

Reply(g) ==
  /\ gpc[g] = "reply"
  /\ seen' = [seen EXCEPT ![g] = Unloaded]
  /\ gpc' = [gpc EXCEPT ![g] = "idle"]
  /\ UNCHANGED <<mode, catalog, ready, uploadVars, dir, source, raced>>
-----------------------------------------------------------------------------
(* The process.                                                            *)

\* main loads the data file before it listens.
Start ==
  /\ mode = "down"
  /\ mode' = "boot"
  /\ \E p \in Payload : load' = [load EXCEPT ![Boot] = p]
  /\ Goto(Boot, "parse")
  /\ UNCHANGED <<catalog, ready, file, tmp, spill, dir, queryVars, source,
                 raced>>

\* Mutant: no data, no server.
ListenIfLoaded ==
  /\ mode = "boot" /\ pc[Boot] = "ok"
  /\ mode' = "serving"
  /\ Forget(Boot)
  /\ UNCHANGED <<catalog, ready, tmp, spill, dir, queryVars, source, raced>>

\* A load that failed is logged and the server starts all the same.
Listen ==
  /\ mode = "boot" /\ pc[Boot] \in {"ok", "fail"}
  /\ mode' = "serving"
  /\ Forget(Boot)
  /\ UNCHANGED <<catalog, ready, tmp, spill, dir, queryVars, source, raced>>

\* SIGINT or SIGTERM, once runServer waits for it.
Signal ==
  /\ mode = "serving"
  /\ mode' = "draining"
  /\ UNCHANGED <<catalog, ready, uploadVars, dir, queryVars, source, raced>>

\* The process ends. Its memory is lost, the directory stays; a temporary
\* file an upload still owned stays too, with nobody left to remove it, and so
\* does one a form spilled to: tmp and spill are what this process answers for.
Exit ==
  /\ mode' = "down" /\ catalog' = Unloaded /\ ready' = FALSE
  /\ pc' = NoStep /\ file' = NoFile /\ load' = NoLoad
  /\ tmp' = NoTmp /\ spill' = NoSpill
  /\ gpc' = NoQuery /\ seen' = NoReply
  /\ source' = BootName /\ raced' = {}
  /\ UNCHANGED dir

Quiet == /\ \A w \in Writer : pc[w] = "idle"
         /\ \A g \in Getter : gpc[g] = "idle"

\* srv.Shutdown returns when no connection is active.
Drained == mode = "draining" /\ Quiet /\ Exit

\* Mutant: the shutdown's context has no timeout.
DrainWaits == mode = "draining" /\ Quiet /\ Exit

\* GracefulShutdown's context expires: main returns over the open requests.
DrainExpires == mode = "draining" /\ ~Quiet /\ Exit

\* SIGKILL, a signal before runServer waits for one, or logger.Fatalf.
Kill == mode # "down" /\ Exit
-----------------------------------------------------------------------------
SaveStep(w) ==
  \/ CreateFails(w) \/ Create(w) \/ Write(w) \/ Sync(w)
  \/ SaveFails(w) \/ Rename(w)

WriterStep(w) ==
  ReadFails(w) \/ Parse(w) \/ SaveStep(w) \/ Replace(w) \/ StoreReady(w)

FormStep(u) == FormRejected(u) \/ FormWithoutFile(u) \/ FormAccepted(u)

Next ==
  \/ \E w \in Writer : WriterStep(w)
  \/ \E u \in Uploader : Accept(u) \/ FormStep(u) \/ Answer(u)
  \/ \E g \in Getter : Query(g) \/ List(g) \/ Reply(g)
  \/ Start \/ Listen \/ Signal
  \/ Drained \/ DrainExpires \/ Kill

Spec == Init /\ [][Next]_vars

\* A goroutine that can run does: system calls return, the lock is granted
\* (MemoryRepo), the read timeout ends a form that does not arrive, and the
\* shutdown's timer fires. Nobody has to start, stop or call the process.
Fairness ==
  /\ \A w \in Writer : WF_vars(WriterStep(w))
  /\ \A u \in Uploader : WF_vars(FormStep(u) \/ Answer(u))
  /\ \A g \in Getter : WF_vars(List(g) \/ Reply(g))
  /\ WF_vars(Listen)
  /\ WF_vars(Drained \/ DrainExpires)

FairSpec == Spec /\ Fairness
-----------------------------------------------------------------------------
\* GET /readyz answers 200 only when a catalog has been loaded, and an upload
\* is answered 204 only when the flag is up (servers.go:48-53, main.go:49-57).
ReadyAgrees ==
  /\ ready => catalog # Unloaded
  /\ \A w \in Writer : pc[w] = "ok" => ready

\* With no upload past its swap, the flag tells exactly whether there is a
\* catalog: no interleaving of uploads, failures and restarts leaves a loaded
\* instance out of rotation.
ReadySettles ==
  (\A w \in Writer : pc[w] # "store") => (ready <=> catalog # Unloaded)

\* /readyz says yes never too early, and never no for good once it is loaded.
ReadyFlag == ReadyAgrees /\ ReadySettles

\* A crash, a failed write or a rejected file never leaves a partial or
\* unparseable file under an uploaded name (memory_repo.go:70-88).
AuditComplete == \A n \in Name : dir[n] \in Parses \cup {Absent}

\* Every temporary file of the upload directory has an upload in progress
\* that will rename it or remove it (memory_repo.go:75-87).
TempOwned == \A w \in Writer : tmp[w] # "none" => pc[w] \in Saving

\* The upload directory holds whole uploads and files that will be gone.
AuditDirectory == AuditComplete /\ TempOwned

\* The served catalog's audit copy is the file it was parsed from, as long as
\* no two uploads of that name crossed between their rename and their swap
\* (service.go:52-55: SaveUpload and ReplaceServers are not one step).
AuditAgrees ==
  /\ catalog # Unloaded /\ source \notin raced /\ Renamed(source) = {}
  => dir[source] = catalog

\* Nothing is served that the directory holds no copy for.
SavedBeforeServed == catalog # Unloaded => dir[source] # Absent

\* An upload that is acknowledged is in the directory, under its name and whole,
\* whatever else was uploaded meanwhile (service.go:52-58).
SavedBeforeAnswered == \A w \in Writer : pc[w] = "ok" => dir[file[w]] \in Parses

\* What is served has its audit copy, the right one unless uploads raced, and
\* nothing is acknowledged before it has one.
AuditCopy == AuditAgrees /\ SavedBeforeServed /\ SavedBeforeAnswered

\* docs/api.md:191-192 and servers.go:38-41 say that a spilled form is deleted
\* once the request completes.
SpillDeleted == \A u \in Uploader : pc[u] = "idle" => ~spill[u]

\* A live process never goes back: once loaded it stays loaded and ready,
\* through failed uploads and a drain alike (docs/api.md:159-161).  And no step,
\* a failing one or the end of the process included, takes back what was saved:
\* a name that has a copy keeps a whole one (memory_repo.go:59-88).
NeverUnloads ==
  [][/\ mode' # "down" => /\ catalog # Unloaded => catalog' # Unloaded
                          /\ ready => ready'
     /\ \A n \in Name : dir[n] # Absent => dir'[n] \in Parses]_vars

\* An upload that fails or is rejected has not touched the catalog, the flag
\* or any file, and an accepted upload is in the catalog at the moment it is
\* made: the abstract register. A query lists the catalog of one instant.
CallOf(p) ==
  IF p \in Writer
    THEN CASE pc[p] \in Deciding ->
                [kind |-> "put", val |-> load[p], out |-> "open"]
           [] pc[p] \in {"store", "ok"} ->
                [kind |-> "put", val |-> load[p], out |-> "ok"]
           [] pc[p] = "fail" ->
                [kind |-> "put", val |-> load[p], out |-> "failed"]
           [] OTHER ->
                [kind |-> "none", val |-> Unloaded, out |-> "open"]
    ELSE CASE gpc[p] = "list" ->
                [kind |-> "get", val |-> Unloaded, out |-> "open"]
           [] gpc[p] = "reply" ->
                [kind |-> "get", val |-> seen[p], out |-> "ok"]
           [] OTHER ->
                [kind |-> "none", val |-> Unloaded, out |-> "open"]

Register == INSTANCE CatalogRegister
              WITH Proc <- Writer \cup Getter,
                   call <- [p \in Writer \cup Getter |-> CallOf(p)]

Implements == Register!Spec

\* Every upload and every query is answered or dies with the process.
RequestsEnd ==
  /\ \A u \in Uploader : pc[u] # "idle" ~> pc[u] = "idle"
  /\ \A g \in Getter : gpc[g] # "idle" ~> gpc[g] = "idle"

\* Whatever the startup load meets, the process gets past it (main.go:42-47).
BootEnds == mode = "boot" ~> mode # "boot"

\* A signal ends the process, however slow the open requests are.
ShutdownEnds == mode = "draining" ~> mode = "down"
=============================================================================
