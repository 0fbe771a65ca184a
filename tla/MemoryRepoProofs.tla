-------------------------- MODULE MemoryRepoProofs --------------------------
(***************************************************************************)
(* Proofs about MemoryRepo for any number of queries and uploads and any   *)
(* catalogs.                                                               *)
(*                                                                         *)
(* The inductive invariant says who may be inside the lock (LockInv), that *)
(* the two words of the slice agree whenever a reader can see them         *)
(* (SliceInv), and what a reader's loop has collected (ScanInv).           *)
(***************************************************************************)
EXTENDS MemoryRepo, TLAPS

\* The writer past the mutex owns it.
OneOwner == \A w \in Writer : wpc[w] \notin {"idle", "mutex"} <=> owner = w

\* New readers are turned away exactly while that writer wants in or is in.
Announced == announced <=> \E w \in Writer : wpc[w] \in {"drain"} \cup Inside

\* A writer waits for every reader inside, and enters when there is none.
Departing ==
  /\ announced => departing = {r \in Reader : rpc[r] \in Holding}
  /\ ~announced => departing = {}
  /\ \A w \in Writer : wpc[w] \in Inside => departing = {}

\* A reader is turned away by a writer that is still there.
Blocked == \A r \in Reader : rpc[r] = "blocked" => announced

LockInv == OneOwner /\ Announced /\ Departing /\ Blocked

\* Between two swaps the length is that of the array.
Published == (\A w \in Writer : wpc[w] # "setlen") => len = Size[ptr]

Header ==
  \A r \in Reader :
    /\ rpc[r] = "len" => hdr[r] = ptr
    /\ rpc[r] \in {"scan", "unlock", "return"} => n[r] = Size[hdr[r]]

\* While a writer is between its words it is writing its own array.
SliceInv ==
  /\ Published /\ Header
  /\ \A w \in Writer : wpc[w] = "setlen" => ptr = next[w]

ScanInv ==
  \A r \in Reader :
    /\ rpc[r] \in {"unlock", "return"} => kept[r] = Hit[hdr[r]]
    /\ rpc[r] = "scan" => /\ pos[r] <= n[r] + 1
                          /\ kept[r] = {i \in Hit[hdr[r]] : i < pos[r]}
    /\ rpc[r] \notin {"scan", "unlock", "return"} => pos[r] = 1 /\ kept[r] = {}

IInv == TypeOK /\ LockInv /\ SliceInv /\ ScanInv

USE ProcAssumption, CatalogAssumption
-----------------------------------------------------------------------------
\* A new repository holds no lock and a nil slice.
LEMMA InitIInv == Init => IInv
<1> SUFFICES ASSUME Init PROVE IInv
  OBVIOUS
<1>1. TypeOK
  <2>1. pos \in [Reader -> Nat \ {0}]
    BY DEF Init
  <2>2. n \in [Reader -> Nat] /\ kept \in [Reader -> SUBSET Nat]
    BY DEF Init
  <2> QED
    BY <2>1, <2>2 DEF TypeOK, Init, Holding, Inside
<1>2. LockInv
  BY DEF LockInv, OneOwner, Announced, Departing, Blocked, Init, Holding, Inside
<1>3. SliceInv
  BY DEF SliceInv, Published, Header, Init
<1>4. ScanInv
  <2>1. \A r \in Reader : rpc[r] = "idle" /\ pos[r] = 1 /\ kept[r] = {}
    BY DEF Init
  <2> QED
    BY Zenon, <2>1 DEF ScanInv
<1> QED
  BY <1>1, <1>2, <1>3, <1>4 DEF IInv

\* Types are kept.
LEMMA TypeStep ==
  ASSUME TypeOK, [Next]_vars
  PROVE  TypeOK'
<1> USE DEF lockVars, readerVars, writerVars, TypeOK, Holding, Inside
<1>1. ASSUME NEW r \in Reader, CallList(r) PROVE TypeOK'
  BY <1>1 DEF CallList, GotoR
<1>2. ASSUME NEW r \in Reader, RLock(r) PROVE TypeOK'
  BY <1>2 DEF RLock, GotoR
<1>3. ASSUME NEW r \in Reader, ReadPtr(r) PROVE TypeOK'
  BY <1>3 DEF ReadPtr, GotoR
<1>4. ASSUME NEW r \in Reader, ReadLen(r) PROVE TypeOK'
  BY <1>4 DEF ReadLen, GotoR
<1>5. ASSUME NEW r \in Reader, Scan(r) PROVE TypeOK'
  BY <1>5 DEF Scan, GotoR
<1>6. ASSUME NEW r \in Reader, RUnlock(r) PROVE TypeOK'
  BY <1>6 DEF RUnlock, GotoR
<1>7. ASSUME NEW r \in Reader, ReturnList(r) PROVE TypeOK'
  BY <1>7 DEF ReturnList, GotoR
<1>8. ASSUME NEW w \in Writer, CallReplace(w) PROVE TypeOK'
  BY <1>8 DEF CallReplace, GotoW
<1>9. ASSUME NEW w \in Writer, Mutex(w) PROVE TypeOK'
  BY <1>9 DEF Mutex, GotoW
<1>10. ASSUME NEW w \in Writer, Announce(w) PROVE TypeOK'
  BY <1>10 DEF Announce, GotoW
<1>11. ASSUME NEW w \in Writer, Enter(w) PROVE TypeOK'
  BY <1>11 DEF Enter, GotoW
<1>12. ASSUME NEW w \in Writer, SetPtr(w) PROVE TypeOK'
  BY <1>12 DEF SetPtr, GotoW
<1>13. ASSUME NEW w \in Writer, SetLen(w) PROVE TypeOK'
  BY <1>13 DEF SetLen, GotoW
<1>14. ASSUME NEW w \in Writer, Unlock(w) PROVE TypeOK'
  BY <1>14 DEF Unlock, GotoW
<1>15. ASSUME NEW w \in Writer, Release(w) PROVE TypeOK'
  BY <1>15 DEF Release, GotoW
<1>16. ASSUME UNCHANGED vars PROVE TypeOK'
  BY <1>16 DEF vars
<1> QED
  BY <1>1, <1>2, <1>3, <1>4, <1>5, <1>6, <1>7, <1>8, <1>9, <1>10, <1>11,
     <1>12, <1>13, <1>14, <1>15, <1>16
  DEF Next, ReaderStep, WriterStep

\* RWMutex admits one writer at a time, and none next to a reader.
LEMMA LockStep ==
  ASSUME TypeOK, LockInv, [Next]_vars
  PROVE  LockInv'
<1> USE DEF lockVars, readerVars, writerVars, TypeOK, Holding, Inside,
            LockInv, OneOwner, Announced, Departing, Blocked
<1>1. ASSUME NEW r \in Reader, CallList(r) PROVE LockInv'
  BY <1>1 DEF CallList, GotoR
<1>2. ASSUME NEW r \in Reader, RLock(r) PROVE LockInv'
  BY <1>2 DEF RLock, GotoR
<1>3. ASSUME NEW r \in Reader, ReadPtr(r) PROVE LockInv'
  BY <1>3 DEF ReadPtr, GotoR
<1>4. ASSUME NEW r \in Reader, ReadLen(r) PROVE LockInv'
  BY <1>4 DEF ReadLen, GotoR
<1>5. ASSUME NEW r \in Reader, Scan(r) PROVE LockInv'
  BY <1>5 DEF Scan, GotoR
<1>6. ASSUME NEW r \in Reader, RUnlock(r) PROVE LockInv'
  BY <1>6 DEF RUnlock, GotoR
<1>7. ASSUME NEW r \in Reader, ReturnList(r) PROVE LockInv'
  BY <1>7 DEF ReturnList, GotoR
<1>8. ASSUME NEW w \in Writer, CallReplace(w) PROVE LockInv'
  BY <1>8 DEF CallReplace, GotoW
<1>9. ASSUME NEW w \in Writer, Mutex(w) PROVE LockInv'
  BY <1>9 DEF Mutex, GotoW
<1>10. ASSUME NEW w \in Writer, Announce(w) PROVE LockInv'
  BY <1>10 DEF Announce, GotoW
<1>11. ASSUME NEW w \in Writer, Enter(w) PROVE LockInv'
  BY <1>11 DEF Enter, GotoW
<1>12. ASSUME NEW w \in Writer, SetPtr(w) PROVE LockInv'
  BY <1>12 DEF SetPtr, GotoW
<1>13. ASSUME NEW w \in Writer, SetLen(w) PROVE LockInv'
  BY <1>13 DEF SetLen, GotoW
<1>14. ASSUME NEW w \in Writer, Unlock(w) PROVE LockInv'
  BY <1>14 DEF Unlock, GotoW
<1>15. ASSUME NEW w \in Writer, Release(w) PROVE LockInv'
  BY <1>15 DEF Release, GotoW
<1>16. ASSUME UNCHANGED vars PROVE LockInv'
  BY <1>16 DEF vars
<1> QED
  BY <1>1, <1>2, <1>3, <1>4, <1>5, <1>6, <1>7, <1>8, <1>9, <1>10, <1>11,
     <1>12, <1>13, <1>14, <1>15, <1>16
  DEF Next, ReaderStep, WriterStep

\* A reader that is inside sees the slice hold still.
LEMMA SliceStep ==
  ASSUME TypeOK, LockInv, SliceInv, [Next]_vars
  PROVE  SliceInv'
<1> USE DEF lockVars, readerVars, writerVars, TypeOK, Holding, Inside,
            LockInv, OneOwner, Announced, Departing, SliceInv, Published,
            Header
<1>1. ASSUME NEW r \in Reader, CallList(r) PROVE SliceInv'
  BY <1>1 DEF CallList, GotoR
<1>2. ASSUME NEW r \in Reader, RLock(r) PROVE SliceInv'
  BY <1>2 DEF RLock, GotoR
<1>3. ASSUME NEW r \in Reader, ReadPtr(r) PROVE SliceInv'
  BY <1>3 DEF ReadPtr, GotoR
<1>4. ASSUME NEW r \in Reader, ReadLen(r) PROVE SliceInv'
  BY <1>4 DEF ReadLen, GotoR
<1>5. ASSUME NEW r \in Reader, Scan(r) PROVE SliceInv'
  BY <1>5 DEF Scan, GotoR
<1>6. ASSUME NEW r \in Reader, RUnlock(r) PROVE SliceInv'
  BY <1>6 DEF RUnlock, GotoR
<1>7. ASSUME NEW r \in Reader, ReturnList(r) PROVE SliceInv'
  BY <1>7 DEF ReturnList, GotoR
<1>8. ASSUME NEW w \in Writer, CallReplace(w) PROVE SliceInv'
  BY <1>8 DEF CallReplace, GotoW
<1>9. ASSUME NEW w \in Writer, Mutex(w) PROVE SliceInv'
  BY <1>9 DEF Mutex, GotoW
<1>10. ASSUME NEW w \in Writer, Announce(w) PROVE SliceInv'
  BY <1>10 DEF Announce, GotoW
<1>11. ASSUME NEW w \in Writer, Enter(w) PROVE SliceInv'
  BY <1>11 DEF Enter, GotoW
<1>12. ASSUME NEW w \in Writer, SetPtr(w) PROVE SliceInv'
  BY <1>12 DEF SetPtr, GotoW
<1>13. ASSUME NEW w \in Writer, SetLen(w) PROVE SliceInv'
  BY <1>13 DEF SetLen, GotoW
<1>14. ASSUME NEW w \in Writer, Unlock(w) PROVE SliceInv'
  BY <1>14 DEF Unlock, GotoW
<1>15. ASSUME NEW w \in Writer, Release(w) PROVE SliceInv'
  BY <1>15 DEF Release, GotoW
<1>16. ASSUME UNCHANGED vars PROVE SliceInv'
  BY <1>16 DEF vars
<1> QED
  BY <1>1, <1>2, <1>3, <1>4, <1>5, <1>6, <1>7, <1>8, <1>9, <1>10, <1>11,
     <1>12, <1>13, <1>14, <1>15, <1>16
  DEF Next, ReaderStep, WriterStep

\* The loop keeps the matches of the positions it has passed.
LEMMA ScanStep ==
  ASSUME TypeOK, SliceInv, ScanInv, [Next]_vars
  PROVE  ScanInv'
<1> USE DEF lockVars, readerVars, writerVars, TypeOK, Holding, Inside,
            SliceInv, Header, ScanInv
<1>1. ASSUME NEW r \in Reader, CallList(r) PROVE ScanInv'
  BY <1>1 DEF CallList, GotoR
<1>2. ASSUME NEW r \in Reader, RLock(r) PROVE ScanInv'
  BY <1>2 DEF RLock, GotoR
<1>3. ASSUME NEW r \in Reader, ReadPtr(r) PROVE ScanInv'
  BY <1>3 DEF ReadPtr, GotoR
<1>4. ASSUME NEW r \in Reader, ReadLen(r) PROVE ScanInv'
  BY <1>4 DEF ReadLen, GotoR
<1>5. ASSUME NEW r \in Reader, Scan(r) PROVE ScanInv'
  <2>1. /\ rpc[r] = "scan" /\ n[r] = Size[hdr[r]]
        /\ pos[r] \in Nat /\ n[r] \in Nat /\ pos[r] <= n[r] + 1
        /\ kept[r] = {i \in Hit[hdr[r]] : i < pos[r]}
        /\ Hit[hdr[r]] \subseteq 1..n[r]
    BY <1>5 DEF Scan
  <2>2. CASE pos[r] <= n[r]
    <3>1. /\ rpc' = rpc
          /\ kept' = [kept EXCEPT ![r] =
                        kept[r] \cup ({pos[r]} \cap Hit[hdr[r]])]
          /\ pos' = [pos EXCEPT ![r] = pos[r] + 1]
          /\ UNCHANGED <<hdr, n>>
      BY <1>5, <2>2 DEF Scan
    <3>2. kept[r] \cup ({pos[r]} \cap Hit[hdr[r]])
            = {i \in Hit[hdr[r]] : i < pos[r] + 1}
      <4>1. ASSUME NEW i \in Hit[hdr[r]]
            PROVE  i < pos[r] + 1 <=> i < pos[r] \/ i = pos[r]
        <5>1. i \in Nat
          BY <2>1
        <5> QED
          BY ONLY <2>1, <5>1
      <4> QED
        BY Zenon, <2>1, <4>1
    <3> QED
      BY <2>1, <2>2, <3>1, <3>2
  <2>3. CASE ~(pos[r] <= n[r])
    <3>1. kept[r] = Hit[hdr[r]]
      BY <2>1, <2>3
    <3> QED
      BY <1>5, <2>1, <2>3, <3>1 DEF Scan, GotoR
  <2> QED
    BY <2>2, <2>3
<1>6. ASSUME NEW r \in Reader, RUnlock(r) PROVE ScanInv'
  BY <1>6 DEF RUnlock, GotoR
<1>7. ASSUME NEW r \in Reader, ReturnList(r) PROVE ScanInv'
  BY <1>7 DEF ReturnList, GotoR
<1>8. ASSUME NEW w \in Writer, CallReplace(w) PROVE ScanInv'
  BY <1>8 DEF CallReplace, GotoW
<1>9. ASSUME NEW w \in Writer, Mutex(w) PROVE ScanInv'
  BY <1>9 DEF Mutex, GotoW
<1>10. ASSUME NEW w \in Writer, Announce(w) PROVE ScanInv'
  BY <1>10 DEF Announce, GotoW
<1>11. ASSUME NEW w \in Writer, Enter(w) PROVE ScanInv'
  BY <1>11 DEF Enter, GotoW
<1>12. ASSUME NEW w \in Writer, SetPtr(w) PROVE ScanInv'
  BY <1>12 DEF SetPtr, GotoW
<1>13. ASSUME NEW w \in Writer, SetLen(w) PROVE ScanInv'
  BY <1>13 DEF SetLen, GotoW
<1>14. ASSUME NEW w \in Writer, Unlock(w) PROVE ScanInv'
  BY <1>14 DEF Unlock, GotoW
<1>15. ASSUME NEW w \in Writer, Release(w) PROVE ScanInv'
  BY <1>15 DEF Release, GotoW
<1>16. ASSUME UNCHANGED vars PROVE ScanInv'
  BY <1>16 DEF vars
<1> QED
  BY <1>1, <1>2, <1>3, <1>4, <1>5, <1>6, <1>7, <1>8, <1>9, <1>10, <1>11,
     <1>12, <1>13, <1>14, <1>15, <1>16
  DEF Next, ReaderStep, WriterStep

\* IInv is inductive.
LEMMA NextIInv == IInv /\ [Next]_vars => IInv'
BY TypeStep, LockStep, SliceStep, ScanStep DEF IInv

\* IInv holds of every reachable state.
THEOREM Invariance == Spec => []IInv
<1>1. Init => IInv
  BY InitIInv
<1>2. IInv /\ [Next]_vars => IInv'
  BY NextIInv
<1> QED
  BY <1>1, <1>2, PTL DEF Spec

\* Every variable keeps its type (memory_repo.go:12-16).
THEOREM TypeCorrect == Spec => []TypeOK
<1>1. IInv => TypeOK
  BY DEF IInv
<1> QED
  BY <1>1, Invariance, PTL

\* Whoever changes the slice is alone with it (memory_repo.go:29-30, 53-54).
THEOREM LockExcludes == Spec => []Exclusion
<1>1. IInv => Exclusion
  BY DEF IInv, TypeOK, LockInv, OneOwner, Announced, Departing, Exclusion,
         Inside
<1> QED
  BY <1>1, Invariance, PTL

\* Some call that is open is not waiting for another.
SomebodyMoves ==
  (\E r \in Reader : rpc[r] # "idle") \/ (\E w \in Writer : wpc[w] # "idle") =>
    \/ \E r \in Reader : rpc[r] \notin {"idle", "blocked"}
    \/ \E w \in Writer : wpc[w] \notin {"idle", "mutex", "drain"}
    \/ \E w \in Writer : wpc[w] = "mutex" /\ owner = Nobody
    \/ \E w \in Writer : wpc[w] = "drain" /\ departing = {}

\* The calls never all wait for each other, however many queries and uploads
\* there are: of the open ones at least one can take its next step
\* (memory_repo.go:29-30, 53-54).
THEOREM NoStandstill == Spec => []SomebodyMoves
<1>1. IInv => SomebodyMoves
  <2> SUFFICES ASSUME IInv,
                      \A r \in Reader : rpc[r] \in {"idle", "blocked"},
                      \A w \in Writer : wpc[w] \in {"idle", "mutex", "drain"},
                      \A w \in Writer : wpc[w] = "drain" => departing # {},
                      \A w \in Writer : wpc[w] = "mutex" => owner # Nobody
               PROVE  /\ \A r \in Reader : rpc[r] = "idle"
                      /\ \A w \in Writer : wpc[w] = "idle"
    BY DEF SomebodyMoves
  <2>1. TypeOK /\ OneOwner /\ Announced /\ Departing /\ Blocked
    BY DEF IInv, LockInv
  <2>2. \A w \in Writer : wpc[w] # "drain"
    \* Nobody is inside, so a writer that waits for those inside need not.
    <3>1. ASSUME NEW w \in Writer, wpc[w] = "drain" PROVE FALSE
      <4>1. announced /\ departing = {r \in Reader : rpc[r] \in Holding}
        BY <2>1, <3>1 DEF Announced, Departing
      <4>2. departing = {}
        BY <4>1 DEF Holding
      <4> QED
        BY <3>1, <4>2
    <3> QED
      BY <3>1
  <2>3. \A r \in Reader : rpc[r] # "blocked"
    BY <2>1, <2>2 DEF Announced, Blocked, Inside
  <2>4. \A w \in Writer : wpc[w] # "mutex"
    BY <2>1, <2>2 DEF TypeOK, OneOwner
  <2> QED
    BY <2>2, <2>3, <2>4
<1> QED
  BY <1>1, Invariance, PTL

\* Every query answers from the whole of one catalog (memory_repo.go:32-39).
THEOREM AnswersAreWhole == Spec => []AnswersWhole
<1>1. IInv => AnswersWhole
  BY DEF IInv, SliceInv, Header, ScanInv, NoTear, WholeAnswer, AnswersWhole
<1> QED
  BY <1>1, Invariance, PTL
-----------------------------------------------------------------------------
Calls == [p \in Reader \cup Writer |-> CallOf(p)]

\* A step that moves only p changes only p's call.
LEMMA OneCall ==
  ASSUME NEW p \in Reader \cup Writer,
         \A q \in Writer \ {p} : wpc'[q] = wpc[q] /\ next'[q] = next[q],
         \A q \in Reader \ {p} : rpc'[q] = rpc[q] /\ hdr'[q] = hdr[q]
  PROVE  Calls' = [Calls EXCEPT ![p] = CallOf(p)']
<1>1. ASSUME NEW q \in (Reader \cup Writer) \ {p}
      PROVE  CallOf(q)' = CallOf(q)
  BY DEF CallOf
<1> QED
  BY <1>1 DEF Calls

\* A listing takes effect when it has read the slice's second word.
LEMMA ReaderRegister ==
  ASSUME TypeOK, SliceInv, NEW r \in Reader, CallList(r) \/ ReaderStep(r)
  PROVE  Register!Next \/ (Calls' = Calls /\ ptr' = ptr)
<1> USE DEF GotoR, ReaderStep, writerVars
<1>1. Calls' = [Calls EXCEPT ![r] = CallOf(r)']
  BY OneCall DEF TypeOK, CallList, RLock, ReadPtr, ReadLen, Scan, RUnlock,
                 ReturnList
<1>2. Calls[r] = CallOf(r) /\ r \notin Writer
  BY DEF Calls
<1>3. CASE CallList(r)
  <2>1. CallOf(r).kind = "none"
    BY <1>2, <1>3 DEF CallOf, CallList
  <2>2. CallOf(r)' = [kind |-> "get", val |-> Empty, out |-> "open"]
    BY <1>2, <1>3 DEF CallOf, CallList, TypeOK
  <2>3. Register!InvokeGet(r)
    BY <1>1, <1>2, <1>3, <2>1, <2>2 DEF Register!InvokeGet, Calls, CallList
  <2> QED
    BY <2>3 DEF Register!Next
<1>4. CASE ReadLen(r)
  <2>1. CallOf(r) = [kind |-> "get", val |-> Empty, out |-> "open"]
    BY <1>2, <1>4 DEF CallOf, ReadLen
  <2>2. CallOf(r)' = [kind |-> "get", val |-> ptr, out |-> "ok"]
    BY <1>2, <1>4 DEF CallOf, ReadLen, TypeOK, SliceInv, Header
  <2>3. Calls[r].kind = "get" /\ Calls[r].out = "open"
    BY <1>2, <2>1
  <2>4. Register!Get(r)
    BY <1>1, <1>4, <2>2, <2>3 DEF Register!Get, Calls, ReadLen
  <2> QED
    BY <2>4 DEF Register!Next
<1>5. CASE ReturnList(r)
  <2>1. CallOf(r).out # "open"
    BY <1>2, <1>5 DEF CallOf, ReturnList
  <2>2. CallOf(r)' = Register!NoCall
    BY <1>2, <1>5 DEF CallOf, ReturnList, TypeOK, Register!NoCall
  <2>3. Register!Return(r)
    BY <1>1, <1>2, <1>5, <2>1, <2>2 DEF Register!Return, Calls, ReturnList
  <2> QED
    BY <2>3 DEF Register!Next
<1>6. CASE RLock(r) \/ ReadPtr(r) \/ Scan(r) \/ RUnlock(r)
  <2>1. CallOf(r)' = CallOf(r)
    BY <1>2, <1>6 DEF CallOf, RLock, ReadPtr, Scan, RUnlock, TypeOK
  <2> QED
    BY <1>1, <1>6, <2>1 DEF Calls, RLock, ReadPtr, Scan, RUnlock
<1> QED
  BY <1>3, <1>4, <1>5, <1>6

\* A replacement takes effect with its first word.
LEMMA WriterRegister ==
  ASSUME TypeOK, NEW w \in Writer,
         CallReplace(w) \/ Mutex(w) \/ WriterStep(w)
  PROVE  Register!Next \/ (Calls' = Calls /\ ptr' = ptr)
<1> USE DEF GotoW, WriterStep, readerVars
<1>1. Calls[w] = CallOf(w)
  BY DEF Calls
<1>2. CASE CallReplace(w)
  <2>1. PICK c \in Catalog : next' = [next EXCEPT ![w] = c]
    BY <1>2 DEF CallReplace
  <2>2. Calls' = [Calls EXCEPT ![w] = CallOf(w)']
    BY <1>2, <2>1, OneCall DEF TypeOK, CallReplace
  <2>3. CallOf(w).kind = "none"
    BY <1>2 DEF CallOf, CallReplace
  <2>4. CallOf(w)' = [kind |-> "put", val |-> c, out |-> "open"]
    BY <1>2, <2>1 DEF CallOf, CallReplace, TypeOK
  <2>5. Register!InvokePut(w, c)
    BY <1>1, <1>2, <2>2, <2>3, <2>4 DEF Register!InvokePut, Calls, CallReplace
  <2> QED
    BY <2>5 DEF Register!Next
<1>3. CASE SetPtr(w)
  <2>1. Calls' = [Calls EXCEPT ![w] = CallOf(w)']
    BY <1>3, OneCall DEF TypeOK, SetPtr
  <2>2. CallOf(w) = [kind |-> "put", val |-> next[w], out |-> "open"]
    BY <1>3 DEF CallOf, SetPtr
  <2>3. CallOf(w)' = [kind |-> "put", val |-> next[w], out |-> "ok"]
    BY <1>3 DEF CallOf, SetPtr, TypeOK
  <2>4. [Calls[w] EXCEPT !.out = "ok"] = CallOf(w)'
    BY <1>1, <2>2, <2>3
  <2>5. /\ Calls[w].kind = "put" /\ Calls[w].out = "open"
        /\ ptr' = Calls[w].val
    BY <1>1, <1>3, <2>2 DEF SetPtr
  <2>6. Register!Put(w)
    BY <2>1, <2>4, <2>5 DEF Register!Put, Calls
  <2> QED
    BY <2>6 DEF Register!Next
<1>4. CASE Release(w)
  <2>1. Calls' = [Calls EXCEPT ![w] = CallOf(w)']
    BY <1>4, OneCall DEF TypeOK, Release
  <2>2. CallOf(w).out # "open"
    BY <1>4 DEF CallOf, Release
  <2>3. CallOf(w)' = Register!NoCall
    BY <1>4 DEF CallOf, Release, TypeOK, Register!NoCall
  <2>4. Register!Return(w)
    BY <1>1, <1>4, <2>1, <2>2, <2>3 DEF Register!Return, Calls, Release
  <2> QED
    BY <2>4 DEF Register!Next
<1>5. CASE Unlock(w)
  <2>1. ASSUME NEW q \in Reader \cup Writer PROVE CallOf(q)' = CallOf(q)
    BY <1>5 DEF CallOf, Unlock, TypeOK
  <2> QED
    BY <1>5, <2>1 DEF Calls, Unlock
<1>6. CASE Mutex(w) \/ Announce(w) \/ Enter(w) \/ SetLen(w)
  <2>1. Calls' = [Calls EXCEPT ![w] = CallOf(w)']
    BY <1>6, OneCall DEF TypeOK, Mutex, Announce, Enter, SetLen
  <2>2. CallOf(w)' = CallOf(w)
    BY <1>6 DEF CallOf, Mutex, Announce, Enter, SetLen, TypeOK
  <2> QED
    BY <1>6, <2>1, <2>2 DEF Calls, Mutex, Announce, Enter, SetLen
<1> QED
  BY <1>2, <1>3, <1>4, <1>5, <1>6

\* Under the lock, listing and replacing are single atomic steps: what the
\* service's model takes for granted (memory_repo.go:25-57).
THEOREM Refinement == Spec => Linearizable
<1>1. Init => Register!Init
  <2> SUFFICES ASSUME Init PROVE Register!Init
    OBVIOUS
  <2>1. ASSUME NEW p \in Reader \cup Writer PROVE CallOf(p) = Register!NoCall
    BY DEF CallOf, Init, Register!NoCall
  <2> QED
    BY <2>1 DEF Register!Init, Init
<1>2. ASSUME IInv, [Next]_vars PROVE [Register!Next]_(Register!vars)
  <2>1. Register!Next \/ (Calls' = Calls /\ ptr' = ptr)
    <3>1. CASE UNCHANGED vars
      <4>1. ASSUME NEW q \in Reader \cup Writer PROVE CallOf(q)' = CallOf(q)
        BY <3>1 DEF CallOf, vars, readerVars, writerVars
      <4> QED
        BY <3>1, <4>1 DEF Calls, vars
    <3> QED
      BY <1>2, <3>1, ReaderRegister, WriterRegister DEF IInv, Next
  <2> QED
    BY <2>1 DEF Register!vars, Calls
<1> QED
  BY <1>1, <1>2, Invariance, PTL DEF Spec, Linearizable, Register!Spec
=============================================================================
