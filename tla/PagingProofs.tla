---------------------------- MODULE PagingProofs ----------------------------
(***************************************************************************)
(* Proofs about Paging for a result of any kind of rows and any page size: *)
(* what a page holds, and that the pages of one result hold it all.        *)
(***************************************************************************)
EXTENDS Paging, SequenceTheorems, TLAPS

\* A page is the rows from the offset on, no further than the limit and the
\* end, and it counts all of them (contracts.go:37-57).
LEMMA PageRows ==
  ASSUME NEW S, NEW s \in Seq(S), NEW l \in Nat, NEW o \in Nat
  PROVE  LET p == Page(s, l, o)
         IN  /\ p \in [data : Seq(S), total : Nat]
             /\ p.total = Len(s)
             /\ \A i \in DOMAIN p.data : o + i \in DOMAIN s /\ p.data[i] = s[o + i]
             /\ \A i \in o + 1..o + l :
                  i \in DOMAIN s => i - o \in DOMAIN p.data /\ p.data[i - o] = s[i]
             /\ Len(p.data) <= l /\ (Len(p.data) = l \/ o + Len(p.data) >= Len(s))
<1> DEFINE n     == Len(s)
           start == Least(o, n)
           end   == Least(start + l, n)
           data  == SubSeq(s, start + 1, end)
<1>1. n \in Nat /\ DOMAIN s = 1..n /\ \A i \in 1..n : s[i] \in S
  OBVIOUS
<1>2. Page(s, l, o) = [data |-> data, total |-> n]
  BY DEF Page
<1> HIDE DEF n, data
<1>3. start \in Nat /\ start <= n /\ (start = o \/ (start = n /\ n <= o))
  BY <1>1 DEF Least
<1> HIDE DEF start
<1>4. /\ end \in Nat /\ start <= end /\ end <= n /\ end <= start + l
      /\ end = start + l \/ end = n
  BY <1>1, <1>3 DEF Least
<1> HIDE DEF end
<1>5. data \in Seq(S) /\ Len(data) = end - start
      /\ \A i \in 1..end - start : data[i] = s[start + i]
  <2>1. start + 1 \in Int /\ end \in Int /\ \A i \in start + 1..end : s[i] \in S
    BY <1>1, <1>3, <1>4
  <2>2. /\ data \in Seq(S)
        /\ Len(data) = IF start + 1 <= end THEN end - (start + 1) + 1 ELSE 0
        /\ \A i \in 1..end - (start + 1) + 1 : data[i] = s[(start + 1) + i - 1]
    BY <2>1, SubSeqProperties DEF data
  <2>3. end - (start + 1) + 1 = end - start
        /\ \A i \in Int : (start + 1) + i - 1 = start + i
    BY <1>3, <1>4
  <2>4. Len(data) = end - start
    BY <1>3, <1>4, <2>2, <2>3
  <2>5. \A i \in 1..end - start : data[i] = s[start + i]
    <3>1. \A i \in 1..end - start : data[i] = s[(start + 1) + i - 1]
      BY <2>2, <2>3
    <3> QED
      BY <1>3, <1>4, <2>3, <3>1
  <2> QED
    BY <2>2, <2>4, <2>5
<1>6. DOMAIN data = 1..end - start
  BY <1>3, <1>4, <1>5
<1>7. \A i \in DOMAIN data : o + i \in DOMAIN s /\ data[i] = s[o + i]
  <2> SUFFICES ASSUME NEW i \in 1..end - start
               PROVE  o + i \in DOMAIN s /\ data[i] = s[o + i]
    BY <1>6
  <2>1. start = o /\ o + i \in 1..n
    BY <1>1, <1>3, <1>4
  <2>2. data[i] = s[start + i]
    BY <1>5
  <2> QED
    BY <1>1, <2>1, <2>2
<1>8. \A i \in o + 1..o + l :
        i \in DOMAIN s => i - o \in DOMAIN data /\ data[i - o] = s[i]
  <2> SUFFICES ASSUME NEW i \in o + 1..o + l, i \in 1..n
               PROVE  i - o \in DOMAIN data /\ data[i - o] = s[i]
    BY <1>1
  <2>1. start = o /\ i - o \in 1..end - start /\ start + (i - o) = i
    BY <1>1, <1>3, <1>4
  <2>2. data[i - o] = s[start + (i - o)]
    BY <1>5, <2>1
  <2> QED
    BY <1>6, <2>1, <2>2
<1>9. Len(data) <= l /\ (Len(data) = l \/ o + Len(data) >= n)
  <2>1. Len(data) = end - start
    BY <1>5
  <2> QED
    BY <1>1, <1>3, <1>4, <2>1
<1>10. n = Len(s)
  BY DEF n
<1> QED
  BY <1>1, <1>2, <1>5, <1>7, <1>8, <1>9, <1>10

\* Reading a result page by page, as docs/api.md:153-155 has clients do it and
\* the page's location scan does: every row is on one page and only one, at its
\* place on it (contracts.go:37-57).
THEOREM PagesTile ==
  ASSUME NEW S, NEW s \in Seq(S), NEW l \in Nat \ {0}, NEW i \in DOMAIN s
  PROVE  LET data(k) == Page(s, l, k * l).data
             On(k)   == i - k * l \in DOMAIN data(k)
         IN  /\ On((i - 1) \div l)
             /\ \A k \in Nat : On(k) => k = (i - 1) \div l /\ data(k)[i - k * l] = s[i]
<1> DEFINE q == (i - 1) \div l
<1>1. i \in Nat /\ i >= 1
  OBVIOUS
<1>2. q \in Nat /\ q * l <= i - 1 /\ i - 1 < q * l + l
  <2>1. ASSUME NEW a \in Nat
        PROVE  /\ a \div l \in Nat
               /\ (a \div l) * l <= a /\ a < (a \div l) * l + l
    <3>1. l \in Nat /\ l > 0
      OBVIOUS
    <3>2. a \div l \in Nat
      BY <3>1
    <3>3. l * (a \div l) <= a /\ a < l * (a \div l) + l
      BY <3>1
    <3> QED
      BY <3>1, <3>2, <3>3
  <2> QED
    BY <1>1, <2>1
<1> HIDE DEF q
<1>3. q * l \in Nat /\ i \in q * l + 1..q * l + l
  BY <1>1, <1>2
<1>4. i - q * l \in DOMAIN Page(s, l, q * l).data
  BY <1>3, PageRows
<1>5. ASSUME NEW k \in Nat, i - k * l \in DOMAIN Page(s, l, k * l).data
      PROVE  k = q /\ Page(s, l, k * l).data[i - k * l] = s[i]
  <2> DEFINE p == Page(s, l, k * l)
  <2>1. k * l \in Nat
    OBVIOUS
  <2>2. /\ p.data \in Seq(S) /\ Len(p.data) <= l
        /\ \A j \in DOMAIN p.data : k * l + j \in DOMAIN s /\ p.data[j] = s[k * l + j]
    BY <2>1, PageRows
  <2> HIDE DEF p
  <2>3. i - k * l \in 1..l
    BY <1>1, <1>5, <2>1, <2>2 DEF p
  <2>4. p.data[i - k * l] = s[i]
    BY <1>1, <1>5, <2>1, <2>2 DEF p
  <2>5. ~(k < q)
    <3>1. SUFFICES ASSUME k + 1 <= q PROVE FALSE
      BY <1>2
    <3>2. (k + 1) * l <= q * l
      BY <1>2, <3>1
    <3> QED
      BY <1>1, <1>2, <1>3, <2>1, <2>3, <3>2
  <2>6. ~(q < k)
    <3>1. SUFFICES ASSUME q + 1 <= k PROVE FALSE
      BY <1>2
    <3>2. (q + 1) * l <= k * l
      BY <1>2, <3>1
    <3> QED
      BY <1>1, <1>2, <1>3, <2>1, <2>3, <3>2
  <2> QED
    BY <1>2, <2>4, <2>5, <2>6 DEF p
<1> QED
  BY <1>4, <1>5 DEF q
=============================================================================
