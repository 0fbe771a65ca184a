------------------------- MODULE LocationScanProofs -------------------------
(***************************************************************************)
(* Proofs about LocationScan for any cities, catalogs and page sizes: what *)
(* a scan under uploads can miss and what it cannot invent.                *)
(*                                                                         *)
(* The inductive invariant says what has been collected so far: every row  *)
(* below `offset' that kept its place in all the catalogs read, and no     *)
(* city that none of them has.                                             *)
(***************************************************************************)
EXTENDS LocationScan, PagingProofs

Running == pc \in {"fetch", "body"}

\* The loop's two counters, and when it goes on.
Counters ==
  /\ offset = page * ScanLimit
  /\ from = {} => offset = 0
  /\ Running => page < ScanPages
  /\ Running <=> ending = "running"

\* The answer on its way is a page of a catalog that was served.
Answered ==
  pc = "body" => \E c \in from : answer = Page(c, ScanLimit, offset)

\* What was collected is what was served.
Collected == \A city \in cities : \E c \in from : \E i \in DOMAIN c : c[i] = city

\* Every row below offset that has kept its place has been collected.
ReadSoFar ==
  Running =>
    \A i \in 1..offset : \A city \in City :
      (from # {} /\ Stays(i, city)) => city \in cities

\* Options are offered once, at the end.
Offered ==
  /\ ending \in {"running", "throw"} => options = {}
  /\ ending \in {"end", "status"} => options = cities

IInv == /\ TypeOK /\ Counters /\ Answered /\ Collected /\ ReadSoFar /\ Offered
        /\ ListComplete

USE PagingAssumption, ScanAssumption
-----------------------------------------------------------------------------
\* The script gets the limit and the offset it asks for (filter.go:147-171).
LEMMA AsAsked ==
  ASSUME NEW o \in Nat
  PROVE  Limit({ScanLimit}) = ScanLimit /\ Offset({o}) = o
<1>1. (CHOOSE n \in {ScanLimit} : TRUE) = ScanLimit /\ (CHOOSE n \in {o} : TRUE) = o
  OBVIOUS
<1>2. Least(ScanLimit, MaxLimit) = ScanLimit
  BY DEF Least
<1> QED
  BY <1>1, <1>2 DEF Limit, Offset

\* Before the first page.
LEMMA InitIInv == Init => IInv
<1> SUFFICES ASSUME Init PROVE IInv
  OBVIOUS
<1>1. TypeOK
  BY DEF Init, TypeOK, NoAnswer
<1>2. Counters /\ Answered /\ Collected /\ ReadSoFar /\ Offered /\ ListComplete
  BY DEF Init, Counters, Running, Answered, Collected, ReadSoFar, Offered,
         ListComplete
<1> QED
  BY <1>1, <1>2 DEF IInv

\* An upload changes nothing the script has.
LEMMA UploadStep == ASSUME IInv, Upload PROVE IInv'
<1>1. TypeOK'
  BY DEF IInv, Upload, TypeOK
<1>2. Counters' /\ Offered'
  BY DEF IInv, Upload, Counters, Running, Offered
<1>3. Answered' /\ Collected'
  BY DEF IInv, Upload, Answered, Collected
<1>4. ReadSoFar' /\ ListComplete'
  BY DEF IInv, Upload, ReadSoFar, Running, ListComplete, Stays, Reached
<1> QED
  BY <1>1, <1>2, <1>3, <1>4 DEF IInv

\* One more catalog has been read from: fewer rows have kept their place.
LEMMA ServeStep == ASSUME IInv, Serve PROVE IInv'
<1> USE DEF IInv, Serve
<1>1. /\ served \in Seq(City) /\ offset \in Nat /\ ScanLimit \in Nat
      /\ answer' = Page(served, ScanLimit, offset)
  <2>1. served \in Seq(City) /\ offset \in Nat /\ ScanLimit \in Nat
    BY DEF TypeOK
  <2>2. Limit({ScanLimit}) = ScanLimit /\ Offset({offset}) = offset
    BY <2>1, AsAsked
  <2> QED
    BY <2>1, <2>2
<1>2. TypeOK'
  <2>1. answer' \in [data : Seq(City), total : Nat]
    BY <1>1, PageRows
  <2> QED
    BY <2>1 DEF TypeOK
<1>3. Counters' /\ Offered'
  BY DEF Counters, Running, Offered
<1>4. Answered'
  BY <1>1 DEF Answered
<1>5. Collected'
  BY DEF Collected
<1>6. ReadSoFar'
  <2> SUFFICES ASSUME NEW i \in 1..offset, NEW city \in City, Stays(i, city)'
               PROVE  city \in cities
    BY DEF ReadSoFar
  <2>1. Running
    BY DEF Running
  <2>2. CASE from # {}
    <3>1. Stays(i, city)
      BY DEF Stays
    <3> QED
      BY <2>1, <2>2, <3>1 DEF ReadSoFar
  <2>3. CASE from = {}
    BY <1>1, <2>3 DEF Counters
  <2> QED
    BY <2>2, <2>3
<1>7. ListComplete'
  BY DEF ListComplete, Counters, Running
<1> QED
  BY <1>2, <1>3, <1>4, <1>5, <1>6, <1>7

\* A page has been read: the rows up to the next offset, or all there are.
LEMMA ReceiveStep == ASSUME IInv, Receive PROVE IInv'
<1> USE DEF IInv, Receive, Leave
<1>1. PICK c \in from : answer = Page(c, ScanLimit, offset)
  BY DEF Answered
<1>2. /\ c \in Seq(City) /\ offset \in Nat /\ page \in Nat
      /\ ScanLimit \in Nat /\ ScanLimit \in Nat \ {0}
      /\ offset' \in Nat /\ page' = page + 1 /\ ScanPages \in Nat
      /\ page < ScanPages
  BY DEF TypeOK, Counters, Running
<1>3. /\ answer \in [data : Seq(City), total : Nat]
      /\ answer.total = Len(c)
      /\ \A i \in DOMAIN answer.data : offset + i \in DOMAIN c
                                       /\ answer.data[i] = c[offset + i]
      /\ \A i \in offset + 1..offset + ScanLimit :
           i \in DOMAIN c => i - offset \in DOMAIN answer.data
                             /\ answer.data[i - offset] = c[i]
  <2> HIDE DEF IInv, Receive
  <2> DEFINE p == Page(c, ScanLimit, offset)
  <2>1. /\ p \in [data : Seq(City), total : Nat]
        /\ p.total = Len(c)
        /\ \A i \in DOMAIN p.data : offset + i \in DOMAIN c
                                    /\ p.data[i] = c[offset + i]
        /\ \A i \in offset + 1..offset + ScanLimit :
             i \in DOMAIN c => i - offset \in DOMAIN p.data
                               /\ p.data[i - offset] = c[i]
    BY <1>2, PageRows
  <2>2. answer = p
    BY <1>1
  <2> HIDE DEF p
  <2> QED
    BY <2>1, <2>2
<1>4. InAnswer \subseteq City
  BY <1>3 DEF InAnswer
<1>5. TypeOK'
  BY <1>2, <1>4 DEF TypeOK, NoAnswer
<1>6. Counters'
  <2>0. from # {}
    BY <1>1
  <2>1. offset' = page' * ScanLimit
    <3>1. (page + 1) * ScanLimit = page * ScanLimit + ScanLimit
      BY <1>2
    <3> QED
      BY <3>1 DEF Counters
  <2>2. (Running => page < ScanPages)' /\ (Running <=> ending = "running")'
    BY <1>2 DEF Counters, Running
  <2> QED
    BY <2>0, <2>1, <2>2 DEF Counters
<1>7. Answered'
  BY DEF Answered
<1>8. Collected'
  BY <1>3 DEF Collected, InAnswer
<1>9. \* What the invariant says of the rows read holds up to the next offset.
  ASSUME NEW i \in 1..offset', NEW city \in City, Stays(i, city)
  PROVE  city \in cities'
  <2>1. from # {}
    OBVIOUS
  <2>2. CASE i \in 1..offset
    BY <1>9, <2>1, <2>2 DEF ReadSoFar, Running
  <2>3. CASE i \notin 1..offset
    <3>1. i \in offset + 1..offset + ScanLimit
      BY <1>2, <2>3
    <3>2. i \in DOMAIN c /\ c[i] = city
      BY <1>9 DEF Stays
    <3>3. i - offset \in DOMAIN answer.data /\ answer.data[i - offset] = city
      BY <1>3, <3>1, <3>2
    <3> QED
      BY <3>3 DEF InAnswer
  <2> QED
    BY <2>2, <2>3
<1>10. ReadSoFar'
  BY <1>9 DEF ReadSoFar, Stays
<1>11. Offered'
  BY DEF Offered, Counters, Running
<1>12. ListComplete'
  <2> SUFFICES ASSUME pc' = "done", ending' = "end", options' = cities',
                      offset' >= answer.total \/ page' = ScanPages,
                      NEW i \in 1..ScanPages * ScanLimit, NEW city \in City,
                      Stays(i, city)
               PROVE  city \in cities'
    BY DEF ListComplete, Reached, Stays, Counters, Running
  <2>1. i \in DOMAIN c
    BY DEF Stays
  <2>2. i \in 1..offset'
    <3>1. CASE offset' >= answer.total
      BY <1>2, <1>3, <2>1, <3>1
    <3>2. CASE page' = ScanPages
      BY <1>6, <3>2 DEF Counters
    <3> QED
      BY <3>1, <3>2
  <2> QED
    BY <1>9, <2>2
<1> QED
  BY <1>5, <1>6, <1>7, <1>8, <1>10, <1>11, <1>12

\* A refused page: what has been read is offered.
LEMMA NotOkStep == ASSUME IInv, NotOk PROVE IInv'
<1> USE DEF IInv, NotOk, Leave
<1>1. TypeOK'
  BY DEF TypeOK
<1>2. Counters' /\ Offered' /\ Answered' /\ Collected' /\ ReadSoFar'
  BY DEF Counters, Running, Offered, Answered, Collected, ReadSoFar
<1>3. ListComplete'
  BY DEF ListComplete, Reached, Stays, ReadSoFar, Running
<1> QED
  BY <1>1, <1>2, <1>3

\* An exception: nothing is offered.
LEMMA ThrowStep == ASSUME IInv, Throw PROVE IInv'
<1> USE DEF IInv, Throw, Leave
<1>1. TypeOK'
  BY DEF TypeOK
<1>2. Counters' /\ Offered' /\ Answered' /\ Collected' /\ ReadSoFar'
  BY DEF Counters, Running, Offered, Answered, Collected, ReadSoFar
<1>3. ListComplete'
  BY DEF ListComplete
<1> QED
  BY <1>1, <1>2, <1>3

\* Every step keeps the invariant.
LEMMA NextIInv == IInv /\ [Next]_vars => IInv'
<1> SUFFICES ASSUME IInv, [Next]_vars PROVE IInv'
  OBVIOUS
<1>1. CASE Upload
  BY <1>1, UploadStep
<1>2. CASE Serve
  BY <1>2, ServeStep
<1>3. CASE Receive
  BY <1>3, ReceiveStep
<1>4. CASE NotOk
  BY <1>4, NotOkStep
<1>5. CASE Throw
  BY <1>5, ThrowStep
<1>6. CASE UNCHANGED vars
  BY <1>6 DEF vars, IInv, TypeOK, Counters, Running, Answered, Collected, ReadSoFar,
              Offered, ListComplete, Stays, Reached
<1> QED
  BY <1>1, <1>2, <1>3, <1>4, <1>5, <1>6 DEF Next, Scan
-----------------------------------------------------------------------------
\* The invariant holds throughout.
THEOREM Invariance == Spec => []IInv
BY InitIInv, NextIInv, PTL DEF Spec

\* The variables of the scan have their types.
THEOREM TypeCorrect == Spec => []TypeOK
<1>1. IInv => TypeOK
  BY DEF IInv
<1> QED
  BY <1>1, Invariance, PTL

\* For any page size, cap and uploads: a row that keeps its place in every
\* catalog the pages came from is in the dropdown, up to the cap and to the page
\* that was refused (index.html:419-438).
THEOREM RowsThatStay == Spec => []ListComplete
<1>1. IInv => ListComplete
  BY DEF IInv
<1> QED
  BY <1>1, Invariance, PTL

\* Whatever is in the dropdown was served, and an exception leaves it empty
\* (index.html:446-449).
THEOREM NothingInvented == Spec => []ListHonest
<1>1. IInv => ListHonest
  BY DEF IInv, Offered, Collected, ListHonest, TypeOK
<1> QED
  BY <1>1, Invariance, PTL

\* What the dropdown is when no upload comes between the pages.
QuietExact ==
  \A c \in Catalog :
    ending = "end" /\ from = {c} /\ Len(c) <= ScanPages * ScanLimit
      => options = {c[i] : i \in DOMAIN c}

\* A scan of one catalog that fits under the cap ends with just its locations,
\* whatever is uploaded before its first page and after its last
\* (index.html:419-442).
THEOREM QuietScan == Spec => []QuietExact
<1>1. IInv => QuietExact
  <2> SUFFICES ASSUME IInv, NEW c \in Catalog, ending = "end", from = {c},
                      Len(c) <= ScanPages * ScanLimit
               PROVE  options = {c[i] : i \in DOMAIN c}
    BY DEF QuietExact
  <2>1. c \in Seq(City) /\ ScanPages * ScanLimit \in Nat
    BY DEF IInv, TypeOK
  <2>2. \A i \in DOMAIN c : i \in 1..Reached /\ c[i] \in City /\ Stays(i, c[i])
    BY <2>1 DEF Reached, Stays
  <2>3. \A i \in DOMAIN c : c[i] \in options
    BY <2>2 DEF IInv, ListComplete
  <2>4. \A city \in options : \E i \in DOMAIN c : c[i] = city
    BY DEF IInv, Offered, Collected
  <2> QED
    BY <2>3, <2>4, Zenon
<1> QED
  BY <1>1, Invariance, PTL

\* How many steps the scan is from its end, at most: two for each page.
StepsLeft ==
  CASE pc = "fetch" -> 2 * (ScanPages - page)
    [] pc = "body"  -> 2 * (ScanPages - page) - 1
    [] OTHER        -> 0

\* Every step of the scan, also one that fails, brings it nearer to its end, and
\* no upload takes it farther away, although each page's catalog may call for
\* more pages than the one before (index.html:425-438).  With the fairness of
\* FairSpec this is why ScanEnds holds.
THEOREM ScanAdvances ==
  Spec => [][/\ StepsLeft' \in 0..2 * ScanPages
             /\ Scan => StepsLeft' < StepsLeft
             /\ Upload => StepsLeft' = StepsLeft]_vars
<1> DEFINE Nearer == /\ StepsLeft' \in 0..2 * ScanPages
                     /\ Scan => StepsLeft' < StepsLeft
                     /\ Upload => StepsLeft' = StepsLeft
<1>1. ASSUME IInv, IInv', [Next]_vars PROVE [Nearer]_vars
  <2>1. ScanPages \in Nat \ {0}
    OBVIOUS
  <2>2. /\ page \in 0..ScanPages /\ pc \in {"fetch", "body", "done"}
        /\ Running => page < ScanPages
    BY <1>1 DEF IInv, TypeOK, Counters
  <2>3. /\ page' \in 0..ScanPages /\ pc' \in {"fetch", "body", "done"}
        /\ pc' \in {"fetch", "body"} => page' < ScanPages
    BY <1>1 DEF IInv, TypeOK, Counters, Running
  <2>4. StepsLeft' \in 0..2 * ScanPages
    BY <2>1, <2>3 DEF StepsLeft
  <2>5. CASE Scan
    <3>1. ASSUME Serve PROVE StepsLeft' < StepsLeft
      BY <2>1, <2>2, <3>1 DEF Serve, StepsLeft
    <3>2. ASSUME Receive PROVE StepsLeft' < StepsLeft
      <4>1. pc = "body" /\ page' = page + 1 /\ pc' \in {"fetch", "done"}
        BY <3>2 DEF Receive, Leave
      <4> QED
        BY <2>1, <2>2, <2>3, <4>1 DEF StepsLeft, Running
    <3>3. ASSUME NotOk \/ Throw PROVE StepsLeft' < StepsLeft
      BY <2>1, <2>2, <3>3 DEF NotOk, Throw, Leave, StepsLeft, Running
    <3>4. StepsLeft' < StepsLeft
      BY <2>5, <3>1, <3>2, <3>3 DEF Scan
    <3>5. ~Upload
      BY <2>5 DEF Scan, Serve, Receive, NotOk, Throw, Leave, Upload
    <3> QED
      BY <2>4, <3>4, <3>5
  <2>6. CASE Upload
    <3>1. pc' = pc /\ page' = page
      BY <2>6 DEF Upload
    <3>2. ~Scan
      BY <2>6 DEF Scan, Serve, Receive, NotOk, Throw, Leave, Upload
    <3> QED
      BY <2>4, <3>1, <3>2 DEF StepsLeft
  <2> QED
    BY <1>1, <2>5, <2>6 DEF Next
<1> QED
  BY <1>1, Invariance, PTL DEF Spec
=============================================================================
