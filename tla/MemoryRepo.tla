----------------------------- MODULE MemoryRepo -----------------------------
(***************************************************************************)
(* The in-memory repository: ListServers and ReplaceServers around one     *)
(* sync.RWMutex.                                                           *)
(*                                                                         *)
(* The catalog is a slice, two words that are read and written one at a    *)
(* time: the pointer to the array and its length.  (The capacity is never  *)
(* used; an array is never written once it has been published.)  The lock  *)
(* is modelled as sync implements it, not as an atomic guard: writers      *)
(* queue on a mutex, the one that gets it turns new readers away and waits *)
(* for those inside, and its Unlock lets in the readers it kept waiting    *)
(* before the next writer gets its turn.                                   *)
(***************************************************************************)
EXTENDS Naturals

CONSTANTS
  Reader,    \* calls of ListServers in progress at once
  Writer,    \* calls of ReplaceServers in progress at once
  Catalog,   \* the arrays that can be published
  Empty,     \* the nil slice of a new repository
  Size,      \* Size[c]: how many servers c holds
  Hit,       \* Hit[c]: the positions of c that match the readers' filter
  Nobody     \* the mutex is free

ASSUME ProcAssumption == Reader \cap Writer = {} /\ Nobody \notin Writer
ASSUME CatalogAssumption ==
  /\ Empty \in Catalog
  /\ Size \in [Catalog -> Nat] /\ Size[Empty] = 0
  /\ Hit \in [Catalog -> SUBSET Nat]
  /\ \A c \in Catalog : Hit[c] \subseteq 1..Size[c]

VARIABLES
  ptr, len,    \* the words of memoryRepository.servers
  owner,       \* RWMutex.w: the writer whose turn it is
  announced,   \* RWMutex.readerCount < 0: a writer is in or wants in
  departing,   \* RWMutex.readerWait: readers that writer still waits for
  rpc, wpc,    \* the next step of each call
  next,        \* next[w]: the array w built before it asked for the lock
  hdr, n,      \* hdr[r], n[r]: the slice r ranges over
  pos, kept    \* pos[r]: r's loop index; kept[r]: positions in its result

lockVars   == <<owner, announced, departing>>
readerVars == <<rpc, hdr, n, pos, kept>>
writerVars == <<wpc, next>>
vars == <<ptr, len, lockVars, readerVars, writerVars>>

Holding == {"ptr", "len", "scan", "unlock"}
Inside  == {"setptr", "setlen", "unlock"}

TypeOK ==
  /\ ptr \in Catalog /\ len \in Nat
  /\ owner \in Writer \cup {Nobody}
  /\ announced \in BOOLEAN
  /\ departing \subseteq Reader
  /\ rpc \in [Reader -> {"idle", "rlock", "blocked", "return"} \cup Holding]
  /\ wpc \in [Writer -> {"idle", "mutex", "announce", "drain", "release"}
                          \cup Inside]
  /\ next \in [Writer -> Catalog]
  /\ hdr \in [Reader -> Catalog]
  /\ n \in [Reader -> Nat] /\ pos \in [Reader -> Nat \ {0}]
  /\ kept \in [Reader -> SUBSET Nat]

Init ==
  /\ ptr = Empty /\ len = 0
  /\ owner = Nobody /\ announced = FALSE /\ departing = {}
  /\ rpc = [r \in Reader |-> "idle"]
  /\ wpc = [w \in Writer |-> "idle"]
  /\ next = [w \in Writer |-> Empty]
  /\ hdr = [r \in Reader |-> Empty] /\ n = [r \in Reader |-> 0]
  /\ pos = [r \in Reader |-> 1] /\ kept = [r \in Reader |-> {}]
-----------------------------------------------------------------------------
(* ListServers.                                                            *)

GotoR(r, s) == rpc' = [rpc EXCEPT ![r] = s]

\* Mutant: the read lock is not taken.
CallListUnlocked(r) ==
  /\ rpc[r] = "idle"
  /\ GotoR(r, "ptr")
  /\ UNCHANGED <<ptr, len, lockVars, hdr, n, pos, kept, writerVars>>

CallList(r) ==
  /\ rpc[r] = "idle"
  /\ GotoR(r, "rlock")
  /\ UNCHANGED <<ptr, len, lockVars, hdr, n, pos, kept, writerVars>>

\* RLock: one atomic add decides whether the reader comes before or after
\* the writer that announced itself.
RLock(r) ==
  /\ rpc[r] = "rlock"
  /\ GotoR(r, IF announced THEN "blocked" ELSE "ptr")
  /\ UNCHANGED <<ptr, len, lockVars, hdr, n, pos, kept, writerVars>>

ReadPtr(r) ==
  /\ rpc[r] = "ptr"
  /\ hdr' = [hdr EXCEPT ![r] = ptr]
  /\ GotoR(r, "len")
  /\ UNCHANGED <<ptr, len, lockVars, n, pos, kept, writerVars>>

ReadLen(r) ==
  /\ rpc[r] = "len"
  /\ n' = [n EXCEPT ![r] = len]
  /\ GotoR(r, "scan")
  /\ UNCHANGED <<ptr, len, lockVars, hdr, pos, kept, writerVars>>

\* Mutant: the loop leaves out the last server.
ScanShort(r) ==
  /\ rpc[r] = "scan"
  /\ IF pos[r] < n[r]
       THEN /\ kept' = [kept EXCEPT ![r] = @ \cup ({pos[r]} \cap Hit[hdr[r]])]
            /\ pos' = [pos EXCEPT ![r] = @ + 1]
            /\ UNCHANGED rpc
       ELSE GotoR(r, "unlock") /\ UNCHANGED <<pos, kept>>
  /\ UNCHANGED <<ptr, len, lockVars, hdr, n, writerVars>>

\* One turn of the loop over the slice, or its end.
Scan(r) ==
  /\ rpc[r] = "scan"
  /\ IF pos[r] <= n[r]
       THEN /\ kept' = [kept EXCEPT ![r] = @ \cup ({pos[r]} \cap Hit[hdr[r]])]
            /\ pos' = [pos EXCEPT ![r] = @ + 1]
            /\ UNCHANGED rpc
       ELSE GotoR(r, "unlock") /\ UNCHANGED <<pos, kept>>
  /\ UNCHANGED <<ptr, len, lockVars, hdr, n, writerVars>>

RUnlock(r) ==
  /\ rpc[r] = "unlock"
  /\ departing' = departing \ {r}
  /\ GotoR(r, "return")
  /\ UNCHANGED <<ptr, len, owner, announced, hdr, n, pos, kept, writerVars>>

\* Mutant: the next loop starts one position too early.
ReturnListZero(r) ==
  /\ rpc[r] = "return"
  /\ GotoR(r, "idle")
  /\ hdr' = [hdr EXCEPT ![r] = Empty] /\ n' = [n EXCEPT ![r] = 0]
  /\ pos' = [pos EXCEPT ![r] = 0] /\ kept' = [kept EXCEPT ![r] = {}]
  /\ UNCHANGED <<ptr, len, lockVars, writerVars>>

ReturnList(r) ==
  /\ rpc[r] = "return"
  /\ GotoR(r, "idle")
  /\ hdr' = [hdr EXCEPT ![r] = Empty] /\ n' = [n EXCEPT ![r] = 0]
  /\ pos' = [pos EXCEPT ![r] = 1] /\ kept' = [kept EXCEPT ![r] = {}]
  /\ UNCHANGED <<ptr, len, lockVars, writerVars>>
-----------------------------------------------------------------------------
(* ReplaceServers.                                                         *)

GotoW(w, s) == wpc' = [wpc EXCEPT ![w] = s]

\* Mutant: the write lock is not taken.
CallReplaceUnlocked(w) ==
  /\ wpc[w] = "idle"
  /\ \E c \in Catalog : next' = [next EXCEPT ![w] = c]
  /\ GotoW(w, "setptr")
  /\ UNCHANGED <<ptr, len, lockVars, readerVars>>

\* The new array is complete before the lock is asked for.
CallReplace(w) ==
  /\ wpc[w] = "idle"
  /\ \E c \in Catalog : next' = [next EXCEPT ![w] = c]
  /\ GotoW(w, "mutex")
  /\ UNCHANGED <<ptr, len, lockVars, readerVars>>

\* Lock, first half: one writer at a time gets past RWMutex.w.
Mutex(w) ==
  /\ wpc[w] = "mutex" /\ owner = Nobody
  /\ owner' = w
  /\ GotoW(w, "announce")
  /\ UNCHANGED <<ptr, len, announced, departing, readerVars, next>>

\* From here new readers wait; the writer waits for those inside.
Announce(w) ==
  /\ wpc[w] = "announce"
  /\ announced' = TRUE
  /\ departing' = {r \in Reader : rpc[r] \in Holding}
  /\ GotoW(w, "drain")
  /\ UNCHANGED <<ptr, len, owner, readerVars, next>>

Enter(w) ==
  /\ wpc[w] = "drain" /\ departing = {}
  /\ GotoW(w, "setptr")
  /\ UNCHANGED <<ptr, len, lockVars, readerVars, next>>

SetPtr(w) ==
  /\ wpc[w] = "setptr"
  /\ ptr' = next[w]
  /\ GotoW(w, "setlen")
  /\ UNCHANGED <<len, lockVars, readerVars, next>>

SetLen(w) ==
  /\ wpc[w] = "setlen"
  /\ len' = Size[next[w]]
  /\ GotoW(w, "unlock")
  /\ UNCHANGED <<ptr, lockVars, readerVars, next>>

\* Mutant: a return without the deferred Unlock.
UnlockForgotten(w) ==
  /\ wpc[w] = "unlock"
  /\ GotoW(w, "idle")
  /\ UNCHANGED <<ptr, len, lockVars, readerVars, next>>

\* Unlock, first half: every reader that waited is inside now.
Unlock(w) ==
  /\ wpc[w] = "unlock"
  /\ announced' = FALSE
  /\ rpc' = [r \in Reader |-> IF rpc[r] = "blocked" THEN "ptr" ELSE rpc[r]]
  /\ GotoW(w, "release")
  /\ UNCHANGED <<ptr, len, owner, departing, hdr, n, pos, kept, next>>

Release(w) ==
  /\ wpc[w] = "release"
  /\ owner' = Nobody
  /\ next' = [next EXCEPT ![w] = Empty]
  /\ GotoW(w, "idle")
  /\ UNCHANGED <<ptr, len, announced, departing, readerVars>>
-----------------------------------------------------------------------------
ReaderStep(r) ==
  RLock(r) \/ ReadPtr(r) \/ ReadLen(r) \/ Scan(r) \/ RUnlock(r)
    \/ ReturnList(r)

WriterStep(w) ==
  Announce(w) \/ Enter(w) \/ SetPtr(w) \/ SetLen(w) \/ Unlock(w)
    \/ Release(w)

Next ==
  \/ \E r \in Reader : CallList(r) \/ ReaderStep(r)
  \/ \E w \in Writer : CallReplace(w) \/ Mutex(w) \/ WriterStep(w)

Spec == Init /\ [][Next]_vars

\* Goroutines that can run do.  sync.Mutex hands itself to a waiter that has
\* waited too long, so a writer that keeps finding it free gets it.
FairSpec ==
  /\ Spec
  /\ \A r \in Reader : WF_vars(ReaderStep(r))
  /\ \A w \in Writer : SF_vars(Mutex(w)) /\ WF_vars(WriterStep(w))
-----------------------------------------------------------------------------
\* No reader is inside while a writer changes the slice, and no two writers
\* are (memory_repo.go:29-30 and 53-54).
Exclusion ==
  \A w \in Writer : wpc[w] \in Inside =>
    /\ \A r \in Reader : rpc[r] \notin Holding
    /\ \A v \in Writer : wpc[v] \in Inside => v = w

\* No query ranges over the array of one upload with the length of another:
\* that is an index out of range, or a catalog cut short.
NoTear == \A r \in Reader : rpc[r] \in {"scan", "unlock", "return"}
                              => n[r] = Size[hdr[r]]

\* A query's result is all of one catalog's matches and nothing else.
WholeAnswer == \A r \in Reader : rpc[r] \in {"unlock", "return"}
                                   => kept[r] = Hit[hdr[r]]

\* No query panics, and none answers with part of a catalog or parts of two.
AnswersWhole == NoTear /\ WholeAnswer

\* Under the lock the two calls are one atomic step each: the swap counts from
\* its first word, the listing from its last.  This is what lets
\* CatalogService take Replace and List as single actions.
CallOf(p) ==
  IF p \in Writer
    THEN CASE wpc[p] = "idle" ->
                [kind |-> "none", val |-> Empty, out |-> "open"]
           [] wpc[p] \in {"mutex", "announce", "drain", "setptr"} ->
                [kind |-> "put", val |-> next[p], out |-> "open"]
           [] OTHER ->
                [kind |-> "put", val |-> next[p], out |-> "ok"]
    ELSE CASE rpc[p] = "idle" ->
                [kind |-> "none", val |-> Empty, out |-> "open"]
           [] rpc[p] \in {"rlock", "blocked", "ptr", "len"} ->
                [kind |-> "get", val |-> Empty, out |-> "open"]
           [] OTHER ->
                [kind |-> "get", val |-> hdr[p], out |-> "ok"]

Register == INSTANCE CatalogRegister
              WITH Proc <- Reader \cup Writer, Payload <- Catalog,
                   Unloaded <- Empty, catalog <- ptr,
                   call <- [p \in Reader \cup Writer |-> CallOf(p)]

Linearizable == Register!Spec

\* Uploads cannot starve queries, nor queries uploads, however many of either
\* keep coming (memory_repo.go:29, 53).
CallsReturn ==
  /\ \A r \in Reader : rpc[r] = "rlock" ~> rpc[r] = "idle"
  /\ \A w \in Writer : wpc[w] = "mutex" ~> wpc[w] = "idle"
=============================================================================
