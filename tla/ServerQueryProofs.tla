------------------------- MODULE ServerQueryProofs -------------------------
(***************************************************************************)
(* Proofs about ServerQuery for any rows, questions and width of int: the  *)
(* values that were parsed when a catalog was installed say of each row    *)
(* what the row says, unless an int has overflowed or an HDD cell that     *)
(* does not parse is taken for 0 GB; an answer is the page                 *)
(* that is asked for of the rows asked for; and no problem of a request    *)
(* hides another.                                                          *)
(*                                                                         *)
(* The inductive invariant ties the index to the catalog row by row and    *)
(* the reply to the request it answers; what matching means is then a fact *)
(* about one row and one request, parameter by parameter, and what the     *)
(* loop of ListServers collects is proved by induction over its rows.      *)
(***************************************************************************)
EXTENDS ServerQuery, PagingProofs, FiniteSetTheorems, WellFoundedInduction

Row == [model : Text, location : Text, ram : Label, hdd : HDD,
        price : {"number", "NaN"}]

Question == [model : Text, location : Text, ram : SUBSET Label, disk : Label,
             min : Storage, max : Storage, limit : Given, offset : Given]

\* The index is the catalog, row by row.
Indexed ==
  /\ catalog \in Seq(Server)
  /\ index = [i \in 1..Len(catalog) |-> NewIndexedServer(catalog[i])]

\* A reply is about the request it answers.
Replied ==
  /\ query \in Question
  /\ reply.status = 400 => reply.problems = Problems(query)
  /\ reply.status \in {200, 500} => Problems(query) = {} /\ reply = Answer(query)

IInv == TypeOK /\ Indexed /\ Replied

-----------------------------------------------------------------------------
\* Induction: the least number that is not in a set is 0 or comes after one
\* that is in it.
LEMMA LeastNumber ==
  ASSUME NEW S \in SUBSET Nat, S # {}
  PROVE  \E n \in S : \A m \in S : n <= m
<1>1. PICK n \in S : \A m \in S : <<m, n>> \notin OpToRel(<, Nat)
  BY NatLessThanWellFounded, WFMin, Zenon
<1>2. \A m \in S : m < n => <<m, n>> \in OpToRel(<, Nat)
  BY Zenon DEF OpToRel
<1>3. \A m \in S : ~(m < n)
  BY <1>1, <1>2, Zenon
<1> QED
  BY <1>3

LEMMA SetInduction ==
  ASSUME NEW T, 0 \in T, \A n \in Nat : n \in T => n + 1 \in T
  PROVE  Nat \subseteq T
<1> DEFINE S == Nat \ T
<1>1. SUFFICES ASSUME S # {} PROVE FALSE
  OBVIOUS
<1>2. PICK n \in S : \A m \in S : n <= m
  <2> HIDE DEF S
  <2>1. S \in SUBSET Nat
    BY DEF S
  <2> QED
    BY <1>1, <2>1, LeastNumber
<1>3. n \in Nat /\ n # 0
  OBVIOUS
<1>4. n - 1 \in Nat /\ n - 1 \in T
  BY <1>2, <1>3
<1> QED
  BY <1>4
-----------------------------------------------------------------------------
\* What the loop of ListServers has collected after each of m rows, `at' being
\* where the rows are that match (memory_repo.go:34-38).
Collects(g, rows, at, m) ==
  /\ g[0] = <<>>
  /\ \A n \in 1..m :
       g[n] = IF n \in at THEN Append(g[n - 1], rows[n]) ELSE g[n - 1]

\* The loop runs through all rows.
LEMMA LoopRuns ==
  ASSUME NEW S, NEW rows \in Seq(S), NEW at
  PROVE  \E g \in [0..Len(rows) -> Seq(S)] : Collects(g, rows, at, Len(rows))
<1> DEFINE L == Len(rows)
           P(m) == m <= L => \E g \in [0..L -> Seq(S)] : Collects(g, rows, at, m)
           T == {m \in Nat : P(m)}
<1>0. L \in Nat /\ \A n \in 1..L : rows[n] \in S
  OBVIOUS
<1> HIDE DEF L
<1>1. P(0)
  <2>1. [n \in 0..L |-> <<>>] \in [0..L -> Seq(S)]
    OBVIOUS
  <2>2. Collects([n \in 0..L |-> <<>>], rows, at, 0)
    BY <1>0 DEF Collects
  <2> QED
    BY <2>1, <2>2
<1>2. ASSUME NEW m \in Nat, P(m) PROVE P(m + 1)
  <2> SUFFICES ASSUME m + 1 <= L
               PROVE  \E h \in [0..L -> Seq(S)] : Collects(h, rows, at, m + 1)
    OBVIOUS
  <2>1. PICK g \in [0..L -> Seq(S)] : Collects(g, rows, at, m)
    BY <1>0, <1>2
  <2> DEFINE next == IF m + 1 \in at THEN Append(g[m], rows[m + 1]) ELSE g[m]
             h    == [g EXCEPT ![m + 1] = next]
  <2>2. m \in 0..L /\ m + 1 \in 1..L /\ m + 1 \in 0..L
    BY <1>0
  <2>3. next \in Seq(S)
    BY <1>0, <2>2
  <2> HIDE DEF next
  <2>4. h \in [0..L -> Seq(S)] /\ h[m + 1] = next /\ \A n \in 0..m : h[n] = g[n]
    BY <2>2, <2>3
  <2> HIDE DEF h
  <2>5. Collects(h, rows, at, m + 1)
    <3>1. h[0] = <<>>
      BY <2>1, <2>4 DEF Collects
    <3>2. ASSUME NEW n \in 1..m + 1
          PROVE  h[n] = IF n \in at THEN Append(h[n - 1], rows[n]) ELSE h[n - 1]
      <4>1. CASE n = m + 1
        BY <2>4, <4>1 DEF next
      <4>2. CASE n \in 1..m
        <5>1. n \in 0..m /\ n - 1 \in 0..m
          BY <4>2
        <5> QED
          BY <2>1, <2>4, <4>2, <5>1 DEF Collects
      <4> QED
        BY <4>1, <4>2
    <3> QED
      BY <3>1, <3>2 DEF Collects
  <2> QED
    BY <2>4, <2>5
<1> HIDE DEF P
<1>3. L \in T
  <2>1. 0 \in T /\ \A n \in Nat : n \in T => n + 1 \in T
    BY <1>1, <1>2
  <2> HIDE DEF T
  <2> QED
    BY <1>0, <2>1, SetInduction
<1> QED
  BY <1>0, <1>3 DEF L, P

\* What it has collected are rows.
LEMMA LoopType ==
  ASSUME NEW S, NEW rows \in Seq(S), NEW at, NEW g,
         Collects(g, rows, at, Len(rows))
  PROVE  \A m \in 0..Len(rows) : g[m] \in Seq(S)
<1> DEFINE L == Len(rows)
           T == {m \in Nat : m <= L => g[m] \in Seq(S)}
<1>1. L \in Nat /\ \A n \in 1..L : rows[n] \in S
  OBVIOUS
<1>2. 0 \in T
  <2>1. g[0] = <<>> /\ <<>> \in Seq(S)
    BY DEF Collects
  <2> QED
    BY <2>1
<1>3. ASSUME NEW m \in Nat, m \in T PROVE m + 1 \in T
  <2> SUFFICES ASSUME m + 1 <= L PROVE g[m + 1] \in Seq(S)
    OBVIOUS
  <2>1. m + 1 \in 1..L /\ g[m] \in Seq(S)
    BY <1>1, <1>3
  <2>2. g[m + 1] = IF m + 1 \in at THEN Append(g[m], rows[m + 1]) ELSE g[m]
    BY <2>1 DEF Collects
  <2> QED
    BY <1>1, <2>1, <2>2
<1>4. Nat \subseteq T
  <2> HIDE DEF T
  <2> QED
    BY <1>2, <1>3, SetInduction
<1> QED
  BY <1>1, <1>4

\* The rows up to n that match, and how many they are.
UpTo(at, n) == {j \in at : j <= n}

LEMMA CountUpTo ==
  ASSUME NEW L \in Nat, NEW at \in SUBSET (1..L), NEW n \in Nat
  PROVE  /\ UpTo(at, 0) = {} /\ UpTo(at, L) = at
         /\ IsFiniteSet(UpTo(at, n)) /\ Cardinality(UpTo(at, n)) \in Nat
<1>1. IsFiniteSet(UpTo(at, n)) /\ Cardinality(UpTo(at, n)) \in Nat
  <2>1. IsFiniteSet(1..L)
    BY FS_Interval
  <2>2. UpTo(at, n) \in SUBSET (1..L)
    BY DEF UpTo
  <2> QED
    BY <2>1, <2>2, FS_Subset, FS_CardinalityType
<1>2. UpTo(at, 0) = {} /\ UpTo(at, L) = at
  <2>1. \A j \in at : ~(j <= 0) /\ j <= L
    OBVIOUS
  <2> QED
    BY <2>1, Zenon DEF UpTo
<1> QED
  BY <1>1, <1>2

\* A row that does not match is not counted.
LEMMA CountSame ==
  ASSUME NEW L \in Nat, NEW at \in SUBSET (1..L), NEW n \in Nat, n + 1 \notin at
  PROVE  UpTo(at, n + 1) = UpTo(at, n)
<1>1. \A j \in at : j <= n + 1 <=> j <= n
  OBVIOUS
<1> QED
  BY <1>1, Zenon DEF UpTo

\* A row that matches is one more.
LEMMA CountMore ==
  ASSUME NEW L \in Nat, NEW at \in SUBSET (1..L), NEW n \in Nat, n + 1 \in at
  PROVE  /\ UpTo(at, n + 1) = UpTo(at, n) \cup {n + 1}
         /\ Cardinality(UpTo(at, n + 1)) = Cardinality(UpTo(at, n)) + 1
<1>1. (\A j \in at : j <= n + 1 <=> j <= n \/ j = n + 1) /\ ~(n + 1 <= n)
  OBVIOUS
<1>2. UpTo(at, n + 1) = UpTo(at, n) \cup {n + 1} /\ n + 1 \notin UpTo(at, n)
  BY <1>1, Zenon DEF UpTo
<1>3. IsFiniteSet(UpTo(at, n)) /\ Cardinality(UpTo(at, n)) \in Nat
  BY CountUpTo
<1>4. Cardinality(UpTo(at, n) \cup {n + 1}) = Cardinality(UpTo(at, n)) + 1
  BY <1>2, <1>3, FS_AddElement
<1> QED
  BY <1>2, <1>4

\* A list is the rows in `some', those of `at' up to one of them, each in its
\* place and no other rows.
Picks(list, rows, at, some) ==
  /\ Len(list) = Cardinality(some)
  /\ \A k \in 1..Len(list) : \E i \in some :
       Cardinality(UpTo(at, i)) = k /\ list[k] = rows[i]
  /\ \A i \in some : \E k \in 1..Len(list) :
       Cardinality(UpTo(at, i)) = k /\ list[k] = rows[i]

\* The loop collects the rows that match, all of them, in their order.
LEMMA LoopMeant ==
  ASSUME NEW S, NEW rows \in Seq(S), NEW at \in SUBSET (1..Len(rows)),
         NEW g \in [0..Len(rows) -> Seq(S)], Collects(g, rows, at, Len(rows))
  PROVE  g[Len(rows)] \in Seq(S) /\ Picks(g[Len(rows)], rows, at, at)
<1> DEFINE L       == Len(rows)
           Meant(m, list) == Picks(list, rows, at, UpTo(at, m))
           P(m) == m <= L => Meant(m, g[m])
           T == {m \in Nat : P(m)}
<1>0. L \in Nat /\ at \in SUBSET (1..L) /\ (\A n \in 1..L : rows[n] \in S)
      /\ g \in [0..L -> Seq(S)] /\ Collects(g, rows, at, L)
  OBVIOUS
<1> HIDE DEF L
<1>1. P(0)
  <2>1. g[0] = <<>> /\ UpTo(at, 0) = {}
    BY <1>0, CountUpTo DEF Collects
  <2> QED
    <3>1. Len(<<>>) = 0 /\ Cardinality({}) = 0
      BY FS_EmptySet
    <3>2. Picks(<<>>, rows, at, {})
      BY <3>1 DEF Picks
    <3> QED
      BY <2>1, <3>2
<1>2. ASSUME NEW m \in Nat, P(m) PROVE P(m + 1)
  <2> SUFFICES ASSUME m + 1 <= L PROVE Meant(m + 1, g[m + 1])
    OBVIOUS
  <2>1. m \in 0..L /\ m + 1 \in 1..L /\ m <= L
    BY <1>0
  <2>2. Meant(m, g[m]) /\ g[m] \in Seq(S) /\ rows[m + 1] \in S
    BY <1>0, <1>2, <2>1
  <2>3. g[m + 1] = IF m + 1 \in at THEN Append(g[m], rows[m + 1]) ELSE g[m]
    BY <1>0, <2>1 DEF Collects
  <2>4. L \in Nat /\ at \in SUBSET (1..L) /\ Cardinality(UpTo(at, m)) \in Nat
    BY <1>0, CountUpTo
  <2>5. CASE m + 1 \notin at
    <3>1. UpTo(at, m + 1) = UpTo(at, m)
      BY <2>4, <2>5, CountSame
    <3> QED
      BY <2>2, <2>3, <2>5, <3>1
  <2>6. CASE m + 1 \in at
    <3>0. /\ UpTo(at, m + 1) = UpTo(at, m) \cup {m + 1}
          /\ Cardinality(UpTo(at, m + 1)) = Cardinality(UpTo(at, m)) + 1
      BY <2>4, <2>6, CountMore
    <3> DEFINE list == Append(g[m], rows[m + 1])
    <3>1. /\ Len(list) = Len(g[m]) + 1 /\ Len(g[m]) \in Nat
          /\ list[Len(g[m]) + 1] = rows[m + 1]
          /\ \A k \in 1..Len(g[m]) : list[k] = g[m][k]
      BY <2>2
    <3> HIDE DEF list
    <3>2. Len(list) = Cardinality(UpTo(at, m + 1))
      BY <2>2, <2>4, <3>0, <3>1 DEF Picks
    <3>3. ASSUME NEW k \in 1..Len(list)
          PROVE  \E i \in UpTo(at, m + 1) :
                   Cardinality(UpTo(at, i)) = k /\ list[k] = rows[i]
      <4>1. CASE k = Len(g[m]) + 1
        BY <2>4, <3>0, <3>1, <3>2, <4>1
      <4>2. CASE k \in 1..Len(g[m])
        BY <2>2, <3>0, <3>1, <4>2 DEF Picks
      <4> QED
        BY <3>1, <4>1, <4>2
    <3>4. ASSUME NEW i \in UpTo(at, m + 1)
          PROVE  \E k \in 1..Len(list) :
                   Cardinality(UpTo(at, i)) = k /\ list[k] = rows[i]
      <4>1. CASE i = m + 1
        BY <2>4, <3>0, <3>1, <3>2, <4>1
      <4>2. CASE i \in UpTo(at, m)
        <5>1. PICK k \in 1..Len(g[m]) :
                Cardinality(UpTo(at, i)) = k /\ g[m][k] = rows[i]
          BY <2>2, <4>2 DEF Picks
        <5>2. k \in 1..Len(list) /\ list[k] = g[m][k]
          BY <3>1
        <5> QED
          BY <5>1, <5>2
      <4> QED
        BY <3>0, <4>1, <4>2
    <3> QED
      BY <2>3, <2>6, <3>2, <3>3, <3>4 DEF list, Picks
  <2> QED
    BY <2>5, <2>6
<1> HIDE DEF P
<1>3. L \in T
  <2>1. 0 \in T /\ \A n \in Nat : n \in T => n + 1 \in T
    BY <1>1, <1>2
  <2> HIDE DEF T
  <2> QED
    BY <1>0, <2>1, SetInduction
<1>4. Meant(L, g[L]) /\ UpTo(at, L) = at
  BY <1>0, <1>3, CountUpTo DEF P
<1>5. g[L] \in Seq(S)
  BY <1>0
<1> QED
  BY <1>4, <1>5 DEF L

\* The rows whose index matches a filter.
MatchAt(f) == {i \in DOMAIN catalog : MatchesFilter(index[i], PrepareFilter(f))}

\* What is listed are the rows whose index matches the filter, each of them, in
\* the catalog's order.
LEMMA ListMeant ==
  ASSUME Indexed, NEW f
  PROVE  LET list == ListServers(f)
             at   == MatchAt(f)
         IN  list \in Seq(Server) /\ Picks(list, catalog, at, at)
<1> DEFINE L      == Len(index)
           at     == MatchAt(f)
           Def(g) == g = [n \in 0..Len(index) |->
                            IF n = 0 THEN <<>>
                            ELSE IF MatchesFilter(index[n], PrepareFilter(f))
                              THEN Append(g[n - 1], index[n].server)
                              ELSE g[n - 1]]
           result == CHOOSE g : Def(g)
<1>1. ListServers(f) = result[L]
  BY DEF ListServers
<1>2. /\ catalog \in Seq(Server) /\ L = Len(catalog) /\ L \in Nat
      /\ DOMAIN catalog = 1..L /\ at \in SUBSET (1..L)
      /\ \A n \in 1..L : index[n].server = catalog[n]
  BY DEF Indexed, NewIndexedServer, MatchAt
<1>3. \A n \in 1..L : n \in at <=> MatchesFilter(index[n], PrepareFilter(f))
  BY <1>2 DEF MatchAt
<1> HIDE DEF at
<1>4. \E g : Def(g)
  <2>1. PICK g \in [0..L -> Seq(Server)] : Collects(g, catalog, at, L)
    BY <1>2, LoopRuns
  <2>2. ASSUME NEW n \in 0..L
        PROVE  g[n] = IF n = 0 THEN <<>>
                      ELSE IF MatchesFilter(index[n], PrepareFilter(f))
                        THEN Append(g[n - 1], index[n].server)
                        ELSE g[n - 1]
    <3>1. CASE n = 0
      BY <2>1, <3>1 DEF Collects
    <3>2. CASE n \in 1..L
      <4>1. /\ n \in at <=> MatchesFilter(index[n], PrepareFilter(f))
            /\ index[n].server = catalog[n] /\ n # 0
        BY <1>2, <1>3, <3>2
      <4>2. g[n] = IF n \in at THEN Append(g[n - 1], catalog[n]) ELSE g[n - 1]
        BY <2>1, <3>2 DEF Collects
      <4> QED
        BY <4>1, <4>2, Zenon
    <3> QED
      BY <1>2, <3>1, <3>2
  <2>3. Def(g)
    BY <2>2
  <2> QED
    BY <2>3
<1>5. Def(result)
  <2> HIDE DEF Def
  <2> QED
    BY <1>4
<1> HIDE DEF result
<1>6. Collects(result, catalog, at, L) /\ DOMAIN result = 0..L
  <2>1. \A n \in 0..L :
          result[n] = IF n = 0 THEN <<>>
                      ELSE IF MatchesFilter(index[n], PrepareFilter(f))
                        THEN Append(result[n - 1], index[n].server)
                        ELSE result[n - 1]
    BY <1>5
  <2>2. DOMAIN result = 0..L
    BY <1>5
  <2> HIDE DEF Def
  <2>3. result[0] = <<>>
    BY <1>2, <2>1
  <2>4. ASSUME NEW n \in 1..L
        PROVE  result[n] = IF n \in at THEN Append(result[n - 1], catalog[n])
                           ELSE result[n - 1]
    <3>1. /\ n \in at <=> MatchesFilter(index[n], PrepareFilter(f))
          /\ index[n].server = catalog[n] /\ n # 0 /\ n \in 0..L
      BY <1>2, <1>3
    <3>2. result[n] = IF n = 0 THEN <<>>
                      ELSE IF MatchesFilter(index[n], PrepareFilter(f))
                        THEN Append(result[n - 1], index[n].server)
                        ELSE result[n - 1]
      BY <2>1, <3>1
    <3> QED
      BY <3>1, <3>2, Zenon
  <2> QED
    BY <2>2, <2>3, <2>4 DEF Collects
<1>7. result \in [0..L -> Seq(Server)]
  <2>1. result = [n \in 0..L |-> result[n]]
    BY <1>5
  <2>2. \A m \in 0..L : result[m] \in Seq(Server)
    BY <1>2, <1>6, LoopType
  <2> HIDE DEF Def
  <2> QED
    BY <2>1, <2>2
<1>8. result[L] \in Seq(Server) /\ Picks(result[L], catalog, at, at)
  <2>1. /\ catalog \in Seq(Server) /\ at \in SUBSET (1..Len(catalog))
        /\ Collects(result, catalog, at, Len(catalog))
        /\ result \in [0..Len(catalog) -> Seq(Server)]
    BY <1>2, <1>6, <1>7
  <2>2. /\ result[Len(catalog)] \in Seq(Server)
        /\ Picks(result[Len(catalog)], catalog, at, at)
    BY <2>1, LoopMeant
  <2> QED
    BY <1>2, <2>2
<1> QED
  BY <1>1, <1>8 DEF at
-----------------------------------------------------------------------------
USE QueryAssumption, PagingAssumption

\* An int keeps a number it can hold.
LEMMA WrapKeeps == ASSUME NEW n \in Int_ PROVE n \in Int /\ Wrap(n) = n
<1>1. n \in Int /\ Half \in Int /\ Half > 0 /\ n + Half >= 0 /\ n + Half < 2 * Half
  BY DEF Int_
<1>2. ASSUME NEW m \in Int, NEW k \in Int, 0 <= m, m < k PROVE m % k = m
  BY <1>2
<1>3. (n + Half) % (2 * Half) = n + Half
  BY <1>1, <1>2
<1> QED
  BY <1>1, <1>3 DEF Wrap

\* Labels, and the label that is not there, are records.
LEMMA LabelRecord ==
  /\ NoLabel \in Label
  /\ \A l \in Label :
       /\ l \in [name : Name, suffix : Suffix, case : {"upper", "lower"}]
       /\ Upper(l) = [name |-> l.name, suffix |-> l.suffix, case |-> "upper"]
       /\ Upper(l) \in [name : Name, suffix : Suffix, case : {"upper", "lower"}]
<1>1. NoLabel \in Label
  BY DEF NoLabel, Label
<1>2. ASSUME NEW l \in [name : Name, suffix : Suffix, case : {"upper", "lower"}]
      PROVE  /\ Upper(l) = [name |-> l.name, suffix |-> l.suffix, case |-> "upper"]
             /\ Upper(l) \in [name : Name, suffix : Suffix, case : {"upper", "lower"}]
  BY DEF Upper
<1>3. \A l \in Label : l \in [name : Name, suffix : Suffix, case : {"upper", "lower"}]
  BY DEF Label
<1> QED
  BY <1>1, <1>2, <1>3

\* A row's RAM has the family that is asked for just when it is the same RAM.
LEMMA FamilySame ==
  ASSUME NEW a \in Label, NEW b \in Label
  PROVE  RAMFamily(a) = RAMFamily(b) <=> SameRAM(a, b)
<1> DEFINE Rest(l) == IF l.name \in GBName THEN Empty ELSE l.suffix
<1>1. ASSUME NEW l \in Label
      PROVE  RAMFamily(l) = [name |-> l.name, suffix |-> Rest(l), case |-> "upper"]
  <2>1. Upper(l) = [name |-> l.name, suffix |-> l.suffix, case |-> "upper"]
    BY LabelRecord
  <2> QED
    BY <2>1 DEF RAMFamily
<1> HIDE DEF Rest
<1>2. RAMFamily(a) = RAMFamily(b) <=> a.name = b.name /\ Rest(a) = Rest(b)
  <2>1. ASSUME RAMFamily(a) = RAMFamily(b) PROVE a.name = b.name /\ Rest(a) = Rest(b)
    <3>1. /\ RAMFamily(a).name = a.name /\ RAMFamily(a).suffix = Rest(a)
          /\ RAMFamily(b).name = b.name /\ RAMFamily(b).suffix = Rest(b)
      BY <1>1
    <3> QED
      BY <2>1, <3>1
  <2>2. ASSUME a.name = b.name, Rest(a) = Rest(b) PROVE RAMFamily(a) = RAMFamily(b)
    BY <1>1, <2>2
  <2> QED
    BY <2>1, <2>2
<1> QED
  BY <1>2 DEF SameRAM, Rest

\* So for the RAM values of a request.
LEMMA RAMMeant ==
  ASSUME NEW s \in Row, NEW q \in Question
  PROVE  LET f == PrepareFilter(ToFilter(q))
         IN  (f.ram = {} \/ NewIndexedServer(s).ram \in f.ram)
             <=> (q.ram \subseteq {NoLabel}
                  \/ \E r \in q.ram \ {NoLabel} : SameRAM(r, s.ram))
<1>1. PrepareFilter(ToFilter(q)).ram = {RAMFamily(r) : r \in q.ram \ {NoLabel}}
  BY DEF PrepareFilter, ToFilter
<1>2. NewIndexedServer(s).ram = RAMFamily(s.ram)
  BY DEF NewIndexedServer
<1>3. s.ram \in Label /\ q.ram \subseteq Label
  BY DEF Row, Question
<1>4. \A r \in q.ram \ {NoLabel} : RAMFamily(s.ram) = RAMFamily(r) <=> SameRAM(r, s.ram)
  BY <1>3, FamilySame
<1> QED
  BY <1>1, <1>2, <1>4

\* The type of disk that is asked for.
LEMMA DiskMeant ==
  ASSUME NEW s \in Row, NEW q \in Question
  PROVE  LET f == PrepareFilter(ToFilter(q))
         IN  (f.disk = NoLabel \/ EqualFold(f.disk, NewIndexedServer(s).disk))
             <=> (q.disk # NoLabel => /\ s.hdd.ok /\ s.hdd.disk.name = q.disk.name
                                      /\ q.disk.suffix = Empty)
<1>1. PrepareFilter(ToFilter(q)).disk = q.disk
  BY DEF PrepareFilter, ToFilter
<1>2. NewIndexedServer(s).disk =
        IF s.hdd.ok THEN NormalizeDiskType(s.hdd.disk) ELSE NoLabel
  BY DEF NewIndexedServer
<1>3. q.disk \in Label /\ s.hdd.disk \in Label /\ s.hdd.ok \in BOOLEAN
  BY DEF Row, Question, HDD
<1>4. \A l \in Label :
        Upper(l) = [name |-> l.name, suffix |-> l.suffix, case |-> "upper"]
  BY LabelRecord
<1>5. CASE s.hdd.ok
  <2> DEFINE type == [name |-> s.hdd.disk.name, suffix |-> Empty, case |-> "upper"]
  <2>1. NormalizeDiskType(s.hdd.disk) = type
    BY <1>3, <1>4 DEF NormalizeDiskType
  <2>2. Upper(type) = type
    BY DEF Upper
  <2>3. EqualFold(q.disk, type) <=>
          [name |-> q.disk.name, suffix |-> q.disk.suffix, case |-> "upper"] = type
    BY <1>3, <1>4, <2>2 DEF EqualFold
  <2>4. [name |-> q.disk.name, suffix |-> q.disk.suffix, case |-> "upper"] = type
          <=> q.disk.name = s.hdd.disk.name /\ q.disk.suffix = Empty
    BY SMT
  <2> HIDE DEF type
  <2> QED
    BY <1>1, <1>2, <1>5, <2>1, <2>3, <2>4
<1>6. CASE ~s.hdd.ok
  <2>1. Upper(NoLabel) = NoLabel
    BY DEF Upper, NoLabel
  <2>2. EqualFold(q.disk, NoLabel) =>
          [name |-> q.disk.name, suffix |-> q.disk.suffix, case |-> "upper"] = NoLabel
    BY <1>3, <1>4, <2>1 DEF EqualFold
  <2>3. EqualFold(q.disk, NoLabel) => q.disk.name = Empty /\ q.disk.suffix = Empty
    BY <2>2 DEF NoLabel
  <2>4. EqualFold(q.disk, NoLabel) => q.disk = NoLabel
    BY <1>3, <2>3 DEF NoLabel, Label
  <2> QED
    BY <1>1, <1>2, <1>6, <2>4
<1> QED
  BY <1>3, <1>5, <1>6

\* The size of a row in gigabytes.
LEMMA SizeMeant ==
  ASSUME NEW s \in Row, s.hdd.ok, TrueSize(s) \in Int_
  PROVE  NewIndexedServer(s).gb = TrueSize(s) /\ TrueSize(s) \in Int
<1>1. NewIndexedServer(s).gb = HDDSize(s.hdd)
  BY DEF NewIndexedServer
<1>2. s.hdd.count \in Nat /\ s.hdd.size \in Nat /\ s.hdd.unit \in Unit
  BY DEF Row, HDD
<1>3. PICK total \in Nat : total = s.hdd.count * s.hdd.size
  BY <1>2
<1>4. CASE s.hdd.unit = "TB"
  <2>1. TrueSize(s) = total * 1024
    BY <1>3, <1>4 DEF TrueSize
  <2>2. total * 1024 \in Int_ /\ total \in Int_
    BY <1>3, <2>1 DEF Int_
  <2>3. HDDSize(s.hdd) = total * 1024
    BY <1>3, <1>4, <2>2, WrapKeeps DEF HDDSize
  <2> QED
    BY <1>1, <2>1, <2>3
<1>5. CASE s.hdd.unit = "GB"
  <2>1. TrueSize(s) = total
    BY <1>3, <1>5 DEF TrueSize
  <2>2. HDDSize(s.hdd) = total
    BY <1>3, <1>5, <2>1, WrapKeeps DEF HDDSize
  <2> QED
    BY <1>1, <2>1, <2>2
<1> QED
  BY <1>2, <1>4, <1>5 DEF Unit

\* The bound a storage parameter that is accepted sets.
LEMMA BoundMeant ==
  ASSUME NEW p \in Storage, p.unit # "bad", TrueBound(p) \in Int_
  PROVE  ParseStorage(p) = (IF Bounded(p) THEN {Bound(p)} ELSE {})
<1>1. p.n \in Int /\ p.unit \in {"none", "0", "GB", "TB"}
  BY DEF Storage, Int_, Unit
<1>2. CASE p.unit = "TB"
  <2>1. TrueBound(p) = p.n * 1024
    BY <1>2 DEF TrueBound
  <2> QED
    BY <1>1, <1>2, <2>1, WrapKeeps DEF ParseStorage, Bounded, Bound
<1>3. CASE p.unit = "GB"
  <2>1. TrueBound(p) = p.n
    BY <1>1, <1>3 DEF TrueBound
  <2> QED
    BY <1>3, <2>1 DEF ParseStorage, Bounded, Bound
<1>4. CASE p.unit \in {"none", "0"}
  BY <1>4 DEF ParseStorage, Bounded, Bound
<1> QED
  BY <1>1, <1>2, <1>3, <1>4

\* A bound is a number.
LEMMA BoundInt == ASSUME NEW p \in Storage, TrueBound(p) \in Int_ PROVE Bound(p) \in Int
BY DEF Bound, Int_

\* A row matches a question that was accepted just when it is asked for, unless
\* it has no size and 0 GB let it through.
LEMMA RowMeant ==
  ASSUME NEW s \in Row, NEW q \in Question, Problems(q) = {},
         s.hdd.ok => TrueSize(s) \in Int_, ~TakenForZero(s, q),
         TrueBound(q.min) \in Int_, TrueBound(q.max) \in Int_
  PROVE  MatchesFilter(NewIndexedServer(s), PrepareFilter(ToFilter(q))) <=> Asked(s, q)
<1> DEFINE f   == PrepareFilter(ToFilter(q))
           idx == NewIndexedServer(s)
<1>1. /\ f.model = q.model /\ f.location = q.location
      /\ f.min = ParseStorage(q.min) /\ f.max = ParseStorage(q.max)
  BY DEF PrepareFilter, ToFilter
<1>2. idx.server = s
  BY DEF NewIndexedServer
<1>3. idx.gb = IF s.hdd.ok THEN TrueSize(s) ELSE 0
  <2>1. ASSUME s.hdd.ok PROVE idx.gb = TrueSize(s)
    BY <2>1, SizeMeant
  <2>2. ASSUME ~s.hdd.ok PROVE idx.gb = 0
    BY <2>2 DEF NewIndexedServer
  <2> HIDE DEF idx
  <2> QED
    BY <2>1, <2>2
<1>4. /\ f.min = (IF Bounded(q.min) THEN {Bound(q.min)} ELSE {})
      /\ f.max = (IF Bounded(q.max) THEN {Bound(q.max)} ELSE {})
  <2>1. q.min.unit # "bad" /\ q.max.unit # "bad"
    BY DEF Problems, Invalid, Param
  <2>2. q.min \in Storage /\ q.max \in Storage
    BY DEF Question
  <2> QED
    BY <1>1, <2>1, <2>2, BoundMeant
<1>5. (\A m \in f.min : idx.gb >= m) /\ (\A m \in f.max : idx.gb <= m)
        <=> /\ Bounded(q.min) => s.hdd.ok /\ TrueSize(s) >= Bound(q.min)
            /\ Bounded(q.max) => s.hdd.ok /\ TrueSize(s) <= Bound(q.max)
  <2> HIDE DEF f, idx
  <2>1. CASE s.hdd.ok
    BY <1>3, <1>4, <2>1
  <2>2. CASE ~s.hdd.ok
    \* 0 GB is out of the bounds that are asked for, or none is.
    <3>1. Bound(q.min) \in Int /\ Bound(q.max) \in Int
      BY BoundInt DEF Question
    <3>2. \/ ~Bounded(q.min) /\ ~Bounded(q.max)
          \/ Bounded(q.min) /\ ~(0 >= Bound(q.min))
          \/ Bounded(q.max) /\ ~(0 <= Bound(q.max))
      BY <2>2, <3>1 DEF TakenForZero
    <3> QED
      BY <1>3, <1>4, <2>2, <3>2
  <2> QED
    BY <2>1, <2>2
<1>6. (f.ram = {} \/ idx.ram \in f.ram)
        <=> (q.ram \subseteq {NoLabel} \/ \E r \in q.ram \ {NoLabel} : SameRAM(r, s.ram))
  BY RAMMeant
<1>7. (f.disk = NoLabel \/ EqualFold(f.disk, idx.disk))
        <=> (q.disk # NoLabel => /\ s.hdd.ok /\ s.hdd.disk.name = q.disk.name
                                 /\ q.disk.suffix = Empty)
  BY DiskMeant
<1> HIDE DEF f, idx
<1>8. MatchesFilter(idx, f) <=> Asked(s, q)
  BY <1>1, <1>2, <1>5, <1>6, <1>7 DEF MatchesFilter, Asked
<1> QED
  BY <1>8 DEF f, idx

\* A parameter is wrong by itself just when it is wrong among the others.
LEMMA ProblemAlone ==
  ASSUME NEW q \in Question, NEW p \in Param
  PROVE  Problems(Alone(p, q)) # {} <=> p \in Problems(q)
<1> DEFINE a == Alone(p, q)
<1>1. /\ a.ram = IF p = "ram" THEN q.ram ELSE {}
      /\ a.disk = IF p = "disk_type" THEN q.disk ELSE NoLabel
      /\ a.min.unit = IF p = "storage_min" THEN q.min.unit ELSE "none"
      /\ a.max.unit = IF p = "storage_max" THEN q.max.unit ELSE "none"
      /\ a.limit = IF p = "limit" THEN q.limit ELSE {}
      /\ a.offset = IF p = "offset" THEN q.offset ELSE {}
  BY DEF Alone, Question, Storage
<1> HIDE DEF a
<1>2. Invalid("ram", a) <=> p = "ram" /\ Invalid("ram", q)
  BY <1>1 DEF Invalid
<1>3. Invalid("disk_type", a) <=> p = "disk_type" /\ Invalid("disk_type", q)
  BY <1>1 DEF Invalid
<1>4. /\ Invalid("storage_min", a) <=> p = "storage_min" /\ Invalid("storage_min", q)
      /\ Invalid("storage_max", a) <=> p = "storage_max" /\ Invalid("storage_max", q)
  BY <1>1 DEF Invalid
<1>5. /\ Invalid("limit", a) <=> p = "limit" /\ Invalid("limit", q)
      /\ Invalid("offset", a) <=> p = "offset" /\ Invalid("offset", q)
  BY <1>1 DEF Invalid, LimitOk, OffsetOk
<1>6. \A r \in Param : Invalid(r, a) <=> p = r /\ Invalid(r, q)
  BY <1>2, <1>3, <1>4, <1>5 DEF Param
<1>7. Problems(a) # {} <=> p \in Problems(q)
  BY <1>6 DEF Problems
<1> QED
  BY <1>7 DEF a
-----------------------------------------------------------------------------
\* An int is an int.
LEMMA WrapFits == ASSUME NEW n \in Int PROVE Wrap(n) \in Int_
<1>1. Half \in Int /\ Half > 0 /\ n + Half \in Int /\ 2 * Half \in Int /\ 2 * Half > 0
  OBVIOUS
<1>2. ASSUME NEW m \in Int, NEW k \in Int, k > 0 PROVE m % k \in 0..k - 1
  BY <1>2
<1>3. (n + Half) % (2 * Half) \in 0..2 * Half - 1
  BY <1>1, <1>2
<1> QED
  BY <1>1, <1>3 DEF Wrap, Int_

\* What is indexed of a row is a label, a size or the row.
LEMMA IndexedType ==
  ASSUME NEW s \in Server
  PROVE  NewIndexedServer(s) \in [server : Server, ram : Label, gb : Int_, disk : Label]
<1>1. s \in Row
  BY DEF Row
<1>2. s.ram \in Label /\ s.hdd \in HDD
  BY <1>1 DEF Row
<1>3. ASSUME NEW l \in Label PROVE RAMFamily(l) \in Label
  <2>1. /\ Upper(l) = [name |-> l.name, suffix |-> l.suffix, case |-> "upper"]
        /\ l.name \in Name /\ l.suffix \in Suffix
    BY LabelRecord
  <2>2. RAMFamily(l) = [name |-> l.name, case |-> "upper",
                        suffix |-> IF l.name \in GBName THEN Empty ELSE l.suffix]
    BY <2>1 DEF RAMFamily
  <2> QED
    BY <2>1, <2>2 DEF Label
<1>4. ASSUME NEW l \in Label PROVE NormalizeDiskType(l) \in Label
  <2>1. /\ Upper(l) = [name |-> l.name, suffix |-> l.suffix, case |-> "upper"]
        /\ l.name \in Name
    BY LabelRecord
  <2>2. NormalizeDiskType(l) = [name |-> l.name, suffix |-> Empty, case |-> "upper"]
    BY <2>1 DEF NormalizeDiskType
  <2> QED
    BY <2>1, <2>2 DEF Label
<1>5. ASSUME NEW h \in HDD PROVE HDDSize(h) \in Int_ /\ h.disk \in Label
  <2>1. h.count \in Nat /\ h.size \in Nat /\ h.disk \in Label
    BY DEF HDD
  <2>2. PICK total \in Nat : total = h.count * h.size
    BY <2>1
  <2>3. Wrap(total) \in Int_ /\ Wrap(total) \in Int
    BY WrapFits DEF Int_
  <2>4. Wrap(Wrap(total) * 1024) \in Int_
    BY <2>3, WrapFits
  <2> QED
    BY <2>1, <2>2, <2>3, <2>4 DEF HDDSize
<1>6. 0 \in Int_ /\ NoLabel \in Label
  BY LabelRecord DEF Int_
<1> QED
  BY <1>2, <1>3, <1>4, <1>5, <1>6 DEF NewIndexedServer

\* The limit and the offset that are used, of a question that is accepted.
LEMMA PageAsked ==
  ASSUME NEW q \in Question, Problems(q) = {}
  PROVE  LET l == Limit(q.limit)
         IN  /\ l \in 1..MaxLimit /\ Offset(q.offset) \in Nat
             /\ \A n \in q.limit : l <= n
             /\ q.limit = {} => l = DefaultLimit
             /\ l = MaxLimit \/ l \in q.limit \/ q.limit = {}
<1>1. LimitOk(q.limit) /\ OffsetOk(q.offset)
  BY DEF Problems, Invalid, Param
<1>2. q.limit \in Given /\ q.offset \in Given
  BY DEF Question
<1>3. Offset(q.offset) \in Nat
  <2>1. CASE q.offset = {}
    BY <2>1 DEF Offset
  <2>2. ASSUME NEW n \in Int_, q.offset = {n} PROVE Offset(q.offset) \in Nat
    BY <1>1, <2>2 DEF Offset, OffsetOk, Int_
  <2> QED
    BY <1>2, <2>1, <2>2 DEF Given
<1>4. CASE q.limit = {}
  BY <1>3, <1>4 DEF Limit
<1>5. ASSUME NEW n \in Int_, q.limit = {n}
      PROVE  /\ Limit(q.limit) \in 1..MaxLimit /\ Limit(q.limit) <= n
             /\ Limit(q.limit) = MaxLimit \/ Limit(q.limit) = n
  <2>1. n \in Int /\ n >= 1
    BY <1>1, <1>5 DEF LimitOk, Int_
  <2>2. Limit(q.limit) = Least(n, MaxLimit)
    BY <1>5 DEF Limit
  <2> QED
    BY <2>1, <2>2 DEF Least
<1> QED
  BY <1>2, <1>3, <1>4, <1>5 DEF Given
-----------------------------------------------------------------------------
\* An answer is a reply, with rows or without.
Reply == [status : {0, 200, 400, 500}, problems : SUBSET Param,
          data : Seq(Server), total : Nat]

LEMMA AnswerType ==
  ASSUME Indexed, NEW q \in Question, Problems(q) = {}
  PROVE  Answer(q) \in Reply /\ Answer(q).status \in {200, 500}
<1> DEFINE rows == ListServers(ToFilter(q))
           p    == Page(rows, Limit(q.limit), Offset(q.offset))
<1>1. rows \in Seq(Server)
  BY ListMeant
<1>2. Limit(q.limit) \in Nat /\ Offset(q.offset) \in Nat
  BY PageAsked
<1> HIDE DEF rows
<1>3. p \in [data : Seq(Server), total : Nat]
  BY <1>1, <1>2, PageRows
<1>4. Answer(q) = IF Encodes(p.data)
                    THEN [status |-> 200, problems |-> {}, data |-> p.data,
                          total |-> p.total]
                    ELSE NoRows(500, {})
  BY DEF Answer, rows
<1> HIDE DEF p
<1>5. p.data \in Seq(Server) /\ p.total \in Nat
  BY <1>3
<1>6. NoRows(500, {}) \in Reply /\ NoRows(500, {}).status = 500
  BY DEF NoRows, Reply
<1> QED
  BY <1>4, <1>5, <1>6 DEF Reply

\* No reply is a reply, and no question a question.
LEMMA Nothing ==
  /\ NoQuery \in Question /\ NoReply \in Reply /\ NoReply.status = 0
  /\ <<>> \in Seq([server : Server, ram : Label, gb : Int_, disk : Label])
<1>1. 0 \in Int_ /\ NoLabel \in Label /\ Empty \in Text /\ {} \in Given
  BY LabelRecord DEF Int_, Given
<1>2. NoStorage \in Storage
  BY <1>1 DEF NoStorage, Storage
<1>3. NoQuery \in Question
  BY <1>1, <1>2 DEF NoQuery, Question
<1>4. NoReply \in Reply /\ NoReply.status = 0
  BY DEF NoReply, NoRows, Reply
<1> QED
  BY <1>3, <1>4

\* Nothing is asked and nothing is installed at first.
LEMMA InitIInv == Init => IInv
<1> SUFFICES ASSUME Init PROVE IInv
  OBVIOUS
<1>1. Indexed
  BY DEF Init, Indexed
<1>2. TypeOK
  BY Nothing DEF Init, TypeOK, Reply
<1>3. Replied
  BY Nothing DEF Init, Replied
<1> QED
  BY <1>1, <1>2, <1>3 DEF IInv

\* Installing a catalog makes its index; no reply is under way then.
LEMMA ReplaceStep ==
  ASSUME IInv, reply = NoReply, NEW rows \in Catalog, ReplaceServers(rows)
  PROVE  IInv'
<1>1. rows \in Seq(Server)
  OBVIOUS
<1>2. Indexed'
  BY <1>1 DEF ReplaceServers, Indexed
<1>3. TypeOK'
  <2>1. \A i \in 1..Len(rows) :
          NewIndexedServer(rows[i])
            \in [server : Server, ram : Label, gb : Int_, disk : Label]
    BY <1>1, IndexedType
  <2>2. /\ index' \in Seq([server : Server, ram : Label, gb : Int_, disk : Label])
        /\ Len(index') = Len(rows)
    <3>1. Len(rows) \in Nat
      BY <1>1
    <3>2. index' = [i \in 1..Len(rows) |-> NewIndexedServer(rows[i])]
      BY DEF ReplaceServers
    <3> QED
      BY <2>1, <3>1, <3>2
  <2> QED
    BY <2>2 DEF IInv, TypeOK, ReplaceServers
<1>4. Replied'
  <2>1. query' = query /\ reply' = NoReply
    BY DEF ReplaceServers
  <2>2. reply'.status = 0 /\ query' \in Question
    BY <2>1, Nothing DEF IInv, Replied
  <2> QED
    BY <2>2 DEF Replied
<1> QED
  BY <1>2, <1>3, <1>4 DEF IInv

\* A request is rejected with its problems or answered when it has none.
LEMMA GetStep ==
  ASSUME IInv, NEW q \in Query, GetServers(q)
  PROVE  IInv'
<1>1. catalog' = catalog /\ index' = index /\ query' = q
      /\ reply' = IF Problems(q) = {} THEN Answer(q) ELSE Reject(q)
  BY DEF GetServers
<1>2. Indexed /\ Indexed'
  BY <1>1 DEF IInv, Indexed
<1>3. q \in Question
  BY DEF Question
<1>4. /\ Reject(q) \in Reply
      /\ Reject(q).status = 400 /\ Reject(q).problems = Problems(q)
  <2>1. Problems(q) \in SUBSET Param
    BY DEF Problems
  <2> QED
    BY <2>1 DEF Reject, NoRows, Reply
<1>5. Problems(q) = {} => Answer(q) \in Reply /\ Answer(q).status \in {200, 500}
  BY <1>2, <1>3, AnswerType
<1>6. TypeOK'
  <2>1. reply' \in Reply
    BY <1>1, <1>4, <1>5
  <2> QED
    BY <1>1, <2>1 DEF IInv, TypeOK, Reply
<1>7. Problems(query)' = Problems(q) /\ Answer(query)' = Answer(q)
  <2>1. Problems(query)' = Problems(q)
    BY <1>1
  <2>2. Answer(query)' = Answer(q)
    BY <1>1 DEF Answer, ListServers
  <2> QED
    BY <2>1, <2>2
<1>8. Replied'
  BY <1>1, <1>3, <1>4, <1>5, <1>7 DEF Replied
<1> QED
  BY <1>2, <1>6, <1>8 DEF IInv

\* A reply that is sent leaves no request.
LEMMA SentStep == ASSUME IInv, Sent PROVE IInv'
<1>1. catalog' = catalog /\ index' = index /\ query' = NoQuery /\ reply' = NoReply
  BY DEF Sent
<1>2. Indexed'
  BY <1>1 DEF IInv, Indexed
<1>3. TypeOK'
  BY <1>1, Nothing DEF IInv, TypeOK, Reply
<1>4. Replied'
  <2>1. query' \in Question /\ reply'.status = 0
    BY <1>1, Nothing
  <2> QED
    BY <2>1 DEF Replied
<1> QED
  BY <1>2, <1>3, <1>4 DEF IInv

\* Every step keeps the invariant.
LEMMA NextIInv == IInv /\ [Next]_vars => IInv'
<1> SUFFICES ASSUME IInv, [Next]_vars PROVE IInv'
  OBVIOUS
<1>1. CASE reply = NoReply /\ \E rows \in Catalog : ReplaceServers(rows)
  BY <1>1, ReplaceStep
<1>2. CASE reply = NoReply /\ \E q \in Query : GetServers(q)
  BY <1>2, GetStep
<1>3. CASE Sent
  BY <1>3, SentStep
<1>4. CASE UNCHANGED vars
  <2>1. catalog' = catalog /\ index' = index /\ query' = query /\ reply' = reply
    BY <1>4 DEF vars
  <2>2. TypeOK' /\ Indexed'
    BY <2>1 DEF IInv, TypeOK, Indexed
  <2>3. Problems(query)' = Problems(query) /\ Answer(query)' = Answer(query)
    BY <2>1 DEF Answer, ListServers
  <2>4. Replied'
    BY <2>1, <2>3 DEF IInv, Replied
  <2> QED
    BY <2>2, <2>4 DEF IInv
<1> QED
  BY <1>1, <1>2, <1>3, <1>4 DEF Next
-----------------------------------------------------------------------------
\* The invariant says of every row what the request asks.
LEMMA InvRowsMeant == IInv => RowsMeant
<1> SUFFICES ASSUME IInv, reply.status \in {200, 500}, NoOverflow,
                    NEW i \in DOMAIN catalog, ~TakenForZero(catalog[i], query)
             PROVE  MatchesFilter(index[i], PrepareFilter(ToFilter(query)))
                      <=> Asked(catalog[i], query)
  BY DEF RowsMeant
<1>1. catalog[i] \in Row /\ index[i] = NewIndexedServer(catalog[i])
  <2>1. catalog[i] \in Server /\ index[i] = NewIndexedServer(catalog[i])
    BY DEF IInv, Indexed
  <2> QED
    BY <2>1 DEF Row
<1>2. query \in Question /\ Problems(query) = {}
  BY DEF IInv, Replied
<1>3. /\ catalog[i].hdd.ok => TrueSize(catalog[i]) \in Int_
      /\ TrueBound(query.min) \in Int_ /\ TrueBound(query.max) \in Int_
  BY DEF NoOverflow
<1> QED
  BY <1>1, <1>2, <1>3, RowMeant

\* The rows asked for are counted.
LEMMA InvPlace == ASSUME IInv PROVE \A i \in HitAt : Place(i) \in Nat
<1> SUFFICES ASSUME NEW i \in HitAt PROVE Place(i) \in Nat
  OBVIOUS
<1>1. Len(catalog) \in Nat /\ HitAt \in SUBSET (1..Len(catalog)) /\ i \in Nat
  BY DEF IInv, Indexed, HitAt
<1>2. Cardinality(UpTo(HitAt, i)) \in Nat
  BY <1>1, CountUpTo
<1> QED
  BY <1>2 DEF Place, UpTo

\* What an answered request lists: the rows that are asked for, and the page of
\* them that is encoded.
LEMMA InvListed ==
  ASSUME IInv, reply.status \in {200, 500}, NoOverflow, SizesKnown
  PROVE  LET l    == Limit(query.limit)
             list == ListServers(ToFilter(query))
             p    == Page(list, l, Skip)
         IN  /\ reply.status = 200 <=> Encodes(p.data)
             /\ reply.status = 200 => reply.data = p.data /\ reply.total = p.total
             /\ p.total = Cardinality(HitAt) /\ p.data \in Seq(Server)
             /\ l \in 1..MaxLimit /\ Skip \in Nat /\ Len(p.data) <= l
             /\ Len(p.data) = l \/ Skip + Len(p.data) >= p.total
             /\ \A k \in 1..Len(p.data) : \E i \in HitAt :
                  Place(i) = Skip + k /\ p.data[k] = catalog[i]
             /\ \A i \in HitAt : Place(i) \in Skip + 1..Skip + l =>
                  \E k \in DOMAIN p.data : p.data[k] = catalog[i]
<1> DEFINE f    == ToFilter(query)
           l    == Limit(query.limit)
           list == ListServers(f)
           p    == Page(list, l, Skip)
           at   == MatchAt(f)
<1>1. query \in Question /\ Problems(query) = {} /\ reply = Answer(query) /\ Indexed
  BY DEF IInv, Replied
<1>2. l \in 1..MaxLimit /\ l \in Nat /\ Skip \in Nat /\ Skip = Offset(query.offset)
  BY <1>1, PageAsked DEF Offset, Skip
<1>3. at = HitAt
  <2>1. \A i \in DOMAIN catalog :
          MatchesFilter(index[i], PrepareFilter(f)) <=> Asked(catalog[i], query)
    BY InvRowsMeant DEF RowsMeant, SizesKnown
  <2>2. \A i : i \in MatchAt(f) <=> i \in HitAt
    BY <2>1 DEF HitAt, MatchAt
  <2> QED
    BY <2>2, Zenon
<1>4. /\ list \in Seq(Server) /\ Len(list) = Cardinality(HitAt)
      /\ \A k \in 1..Len(list) : \E i \in HitAt :
           Place(i) = k /\ list[k] = catalog[i]
      /\ \A i \in HitAt : \E k \in 1..Len(list) :
           Place(i) = k /\ list[k] = catalog[i]
  <2>1. list \in Seq(Server) /\ Picks(list, catalog, at, at)
    BY <1>1, ListMeant
  <2>2. \A i : Place(i) = Cardinality(UpTo(HitAt, i))
    BY DEF Place, UpTo
  <2> HIDE DEF list, at
  <2> QED
    BY <1>3, <2>1, <2>2 DEF Picks
<1>5. reply = IF Encodes(p.data)
                THEN [status |-> 200, problems |-> {}, data |-> p.data, total |-> p.total]
                ELSE NoRows(500, {})
  BY <1>1, <1>2 DEF Answer
<1> HIDE DEF list, l
<1>6. /\ p.data \in Seq(Server) /\ p.total = Len(list)
      /\ \A k \in DOMAIN p.data : Skip + k \in DOMAIN list /\ p.data[k] = list[Skip + k]
      /\ Len(p.data) <= l /\ (Len(p.data) = l \/ Skip + Len(p.data) >= Len(list))
      /\ \A k \in Skip + 1..Skip + l :
           k \in DOMAIN list => k - Skip \in DOMAIN p.data /\ p.data[k - Skip] = list[k]
  <2>1. list \in Seq(Server) /\ l \in Nat /\ Skip \in Nat
    BY <1>2, <1>4
  <2>2. p \in [data : Seq(Server), total : Nat]
    BY <2>1, PageRows
  <2>3. /\ p.total = Len(list)
        /\ \A k \in DOMAIN p.data : Skip + k \in DOMAIN list /\ p.data[k] = list[Skip + k]
        /\ Len(p.data) <= l /\ (Len(p.data) = l \/ Skip + Len(p.data) >= Len(list))
    BY <2>1, PageRows
  <2>4. \A k \in Skip + 1..Skip + l :
          k \in DOMAIN list => k - Skip \in DOMAIN p.data /\ p.data[k - Skip] = list[k]
    BY <2>1, PageRows
  <2> HIDE DEF p
  <2> QED
    BY <2>2, <2>3, <2>4
<1> HIDE DEF p
<1>7. /\ reply.status = 200 <=> Encodes(p.data)
      /\ reply.status = 200 => reply.data = p.data /\ reply.total = p.total
  BY <1>5 DEF NoRows
<1>8. \A k \in 1..Len(p.data) : \E i \in HitAt :
        Place(i) = Skip + k /\ p.data[k] = catalog[i]
  BY <1>4, <1>6
<1>9. ASSUME NEW i \in HitAt, Place(i) \in Skip + 1..Skip + l
      PROVE  \E k \in DOMAIN p.data : p.data[k] = catalog[i]
  <2>1. Place(i) \in DOMAIN list /\ list[Place(i)] = catalog[i]
    BY <1>4
  <2> QED
    BY <1>6, <1>9, <2>1
<1> QED
  BY <1>2, <1>4, <1>6, <1>7, <1>8, <1>9 DEF l, list, p

\* A question that asks for no particular servers.
Unfiltered(q) ==
  /\ q.model = Empty /\ q.location = Empty
  /\ q.ram \subseteq {NoLabel} /\ q.disk = NoLabel
  /\ q.min.unit = "none" /\ q.max.unit = "none"

\* It lists the catalog as it was uploaded.
LEMMA ListsAll ==
  ASSUME Indexed, NEW q \in Question, Unfiltered(q)
  PROVE  ListServers(ToFilter(q)) = catalog
<1> DEFINE f    == ToFilter(q)
           list == ListServers(f)
           L    == Len(catalog)
<1>1. /\ catalog \in Seq(Server) /\ L \in Nat /\ DOMAIN catalog = 1..L
      /\ \A i \in 1..L : catalog[i] \in Server /\ index[i].server = catalog[i]
  BY DEF Indexed, NewIndexedServer
<1>2. MatchAt(f) = 1..L
  <2>1. /\ PrepareFilter(f).model = Empty /\ PrepareFilter(f).location = Empty
        /\ PrepareFilter(f).ram = {} /\ PrepareFilter(f).disk = NoLabel
        /\ PrepareFilter(f).min = {} /\ PrepareFilter(f).max = {}
    <3>1. /\ f.model = Empty /\ f.location = Empty /\ f.ram = {}
          /\ f.disk = NoLabel /\ f.min = {} /\ f.max = {}
      BY DEF ToFilter, Unfiltered, ParseStorage
    <3>2. f = [model |-> f.model, location |-> f.location, ram |-> f.ram,
               disk |-> f.disk, min |-> f.min, max |-> f.max]
      BY DEF ToFilter
    <3> HIDE DEF f
    <3> QED
      BY <3>1, <3>2 DEF PrepareFilter
  <2>2. ASSUME NEW i \in 1..L
        PROVE  MatchesFilter(index[i], PrepareFilter(f))
    <3>1. index[i].server.model \in Text /\ index[i].server.location \in Text
      BY <1>1
    <3>2. /\ <<index[i].server.model, Empty>> \in Within
          /\ <<index[i].server.location, Empty>> \in Within
      BY <3>1
    <3> HIDE DEF f
    <3> QED
      BY <2>1, <3>2 DEF MatchesFilter
  <2> HIDE DEF L, f
  <2> QED
    BY <1>1, <2>2, Zenon DEF MatchAt
<1>3. list \in Seq(Server) /\ Picks(list, catalog, 1..L, 1..L)
  BY <1>2, ListMeant
<1> HIDE DEF list
<1>4. ASSUME NEW i \in 1..L PROVE Cardinality(UpTo(1..L, i)) = i
  <2>1. \A j : j \in UpTo(1..L, i) <=> j \in 1..i
    BY <1>1 DEF UpTo
  <2>2. UpTo(1..L, i) = 1..i
    BY <2>1, Zenon
  <2> QED
    BY <2>2, FS_Interval
<1>5. Cardinality(1..L) = L
  BY <1>1, FS_Interval
<1>6. Len(list) = L
  BY <1>3, <1>5 DEF Picks
<1>7. \A k \in 1..L : list[k] = catalog[k]
  BY <1>3, <1>4, <1>6 DEF Picks
<1>8. list = catalog
  BY <1>1, <1>3, <1>6, <1>7
<1> QED
  BY <1>8 DEF list

\* The invariant holds throughout.
THEOREM Invariance == Spec => []IInv
BY InitIInv, NextIInv, PTL DEF Spec

\* Every variable keeps its type; the index has a row for each of the catalog
\* (memory_repo.go:45-57).
THEOREM TypeCorrect == Spec => []TypeOK
<1>1. IInv => TypeOK
  BY DEF IInv
<1> QED
  BY <1>1, Invariance, PTL

\* For any rows and any accepted question, whatever the width of an int, a row
\* is matched just when it is asked for, unless an int has overflowed or the row
\* is TakenForZero (store.go:35-97, server.go:88-153, docs/api.md:89-92).
THEOREM MatchIsMeant == Spec => []RowsMeant
BY InvRowsMeant, Invariance, PTL

\* A rejection names every parameter that is wrong by itself, and nothing is
\* listed when there is one (filter.go:48-52, docs/api.md:111-113).
THEOREM ProblemsTogether == Spec => []ProblemsAll
<1>1. IInv => ProblemsAll
  BY ProblemAlone DEF IInv, Replied, ProblemsAll
<1> QED
  BY <1>1, Invariance, PTL

\* For any rows, any accepted question and any limits, an answer is the rows
\* asked for in the catalog's order, each of them in its place, from the offset
\* on and no more than the limit, and total counts them all, unless an int has
\* overflowed or a row is TakenForZero (contracts.go:33-57, filter.go:144-173,
\* docs/api.md:153-155).
THEOREM AnswersMeant == Spec => []AnswerMeant
<1>1. IInv => AnswerMeant
  <2> SUFFICES ASSUME IInv, reply.status = 200, NoOverflow, SizesKnown
               PROVE  AnswerMeant
    BY DEF AnswerMeant
  <2> DEFINE l == Limit(query.limit)
             p == Page(ListServers(ToFilter(query)), l, Skip)
  <2>1. /\ reply.data = p.data /\ reply.total = p.total
        /\ p.total = Cardinality(HitAt) /\ p.data \in Seq(Server)
        /\ l \in 1..MaxLimit /\ Skip \in Nat /\ Len(p.data) <= l
        /\ Len(p.data) = l \/ Skip + Len(p.data) >= p.total
        /\ \A k \in 1..Len(p.data) : \E i \in HitAt :
             Place(i) = Skip + k /\ p.data[k] = catalog[i]
    BY InvListed
  <2>2. /\ \A n \in query.limit : l <= n /\ n \in Int
        /\ query.limit = {} => l = DefaultLimit
        /\ l = MaxLimit \/ l \in query.limit \/ query.limit = {}
    <3>1. query \in Question /\ Problems(query) = {}
      BY DEF IInv, Replied
    <3>2. query.limit \subseteq Int
      BY <3>1 DEF Question, Given, Int_
    <3> QED
      BY <3>1, <3>2, PageAsked
  <2> HIDE DEF l, p
  <2>3. Len(p.data) \in Nat /\ MaxLimit \in Nat
    BY <2>1
  <2> QED
    BY <2>1, <2>2, <2>3 DEF AnswerMeant
<1> QED
  BY <1>1, Invariance, PTL

\* For any catalog, a request that is accepted fails just when a row whose price
\* is not a number is on the page it asks for, unless an int has overflowed or a
\* row is TakenForZero (server.go:61-77, adapters.go:62-68).
THEOREM BadPricesStay == Spec => []BadPriceStays
<1>1. IInv => BadPriceStays
  <2> SUFFICES ASSUME IInv, reply.status \in {200, 500}, NoOverflow, SizesKnown
               PROVE  reply.status = 500 <=>
                        \E i \in HitAt : catalog[i].price = "NaN" /\ OnPage(i)
    BY DEF BadPriceStays
  <2> DEFINE l == Limit(query.limit)
             p == Page(ListServers(ToFilter(query)), l, Skip)
  <2>1. /\ reply.status = 200 <=> Encodes(p.data)
        /\ p.data \in Seq(Server)
        /\ l \in 1..MaxLimit /\ Skip \in Nat /\ Len(p.data) <= l
        /\ \A k \in 1..Len(p.data) : \E i \in HitAt :
             Place(i) = Skip + k /\ p.data[k] = catalog[i]
        /\ \A i \in HitAt : Place(i) \in Skip + 1..Skip + l =>
             \E k \in DOMAIN p.data : p.data[k] = catalog[i]
    BY InvListed
  <2>2. /\ query \in Question /\ Problems(query) = {} /\ query.limit \subseteq Int
        /\ \A n \in query.limit : l <= n
        /\ query.limit = {} => l = DefaultLimit
        /\ l = MaxLimit \/ l \in query.limit \/ query.limit = {}
    <3>1. query \in Question /\ Problems(query) = {}
      BY DEF IInv, Replied
    <3>2. query.limit \subseteq Int
      BY <3>1 DEF Question, Given, Int_
    <3> QED
      BY <3>1, <3>2, PageAsked
  <2> HIDE DEF l, p
  <2>3. \A i \in HitAt : Place(i) \in Int => (OnPage(i) <=> Place(i) \in Skip + 1..Skip + l)
    BY <2>1, <2>2 DEF OnPage
  <2>4. ASSUME ~Encodes(p.data)
        PROVE  \E i \in HitAt : catalog[i].price = "NaN" /\ OnPage(i)
    <3>1. PICK k \in DOMAIN p.data : p.data[k].price # "number"
      BY <2>4 DEF Encodes
    <3>2. k \in 1..Len(p.data) /\ p.data[k] \in Server
      BY <2>1
    <3>3. p.data[k].price = "NaN"
      BY <3>1, <3>2
    <3>4. PICK i \in HitAt : Place(i) = Skip + k /\ p.data[k] = catalog[i]
      <4>1. \A n \in 1..Len(p.data) : \E i \in HitAt :
              Place(i) = Skip + n /\ p.data[n] = catalog[i]
        BY <2>1
      <4> QED
        BY <3>2, <4>1
    <3>5. Place(i) \in Int /\ Place(i) \in Skip + 1..Skip + l
      BY <2>1, <3>2, <3>4
    <3> QED
      BY <2>3, <3>3, <3>4, <3>5
  <2>5. ASSUME NEW i \in HitAt, catalog[i].price = "NaN", OnPage(i)
        PROVE  ~Encodes(p.data)
    <3>1. Place(i) \in Skip + 1..Skip + l
      BY <2>3, <2>5, InvPlace
    <3>2. PICK k \in DOMAIN p.data : p.data[k] = catalog[i]
      BY <2>1, <3>1
    <3> QED
      BY <2>5, <3>2 DEF Encodes
  <2> QED
    BY <2>1, <2>4, <2>5
<1> QED
  BY <1>1, Invariance, PTL

\* What the page's scan reads: a page of the catalog itself.
CatalogPaged ==
  reply.status = 200 /\ Unfiltered(query) =>
    LET p == Page(catalog, Limit(query.limit), Offset(query.offset))
    IN  reply.data = p.data /\ reply.total = Len(catalog)

\* A question without a filter is answered with a page of the catalog as it was
\* uploaded, whatever overflows in its rows: what LocationScan takes for granted
\* of the service (store.go:73-97, index.html:427).
THEOREM UnfilteredIsAll == Spec => []CatalogPaged
<1>1. IInv => CatalogPaged
  <2> SUFFICES ASSUME IInv, reply.status = 200, Unfiltered(query)
               PROVE  LET p == Page(catalog, Limit(query.limit), Offset(query.offset))
                      IN  reply.data = p.data /\ reply.total = Len(catalog)
    BY DEF CatalogPaged
  <2> DEFINE p == Page(catalog, Limit(query.limit), Offset(query.offset))
  <2>1. Indexed /\ query \in Question /\ reply = Answer(query)
    BY DEF IInv, Replied
  <2>2. ListServers(ToFilter(query)) = catalog
    BY <2>1, ListsAll
  <2>3. reply = IF Encodes(p.data)
                  THEN [status |-> 200, problems |-> {}, data |-> p.data,
                        total |-> p.total]
                  ELSE NoRows(500, {})
    BY <2>1, <2>2 DEF Answer
  <2>4. p.total = Len(catalog)
    BY DEF Page
  <2> HIDE DEF p
  <2> QED
    BY <2>3, <2>4 DEF NoRows, p
<1> QED
  BY <1>1, Invariance, PTL
=============================================================================
