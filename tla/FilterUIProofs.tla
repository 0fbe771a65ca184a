--------------------------- MODULE FilterUIProofs ---------------------------
(***************************************************************************)
(* Proofs about FilterUI for any filters, any sizes of results and any     *)
(* number of requests: what the page shows whatever the order of answers.  *)
(*                                                                         *)
(* The inductive invariant follows the newest request: as long as it is in *)
(* flight it carries what was asked, and once it is over the page tells    *)
(* how it ended.                                                           *)
(***************************************************************************)
EXTENDS FilterUI, TLAPS

\* The newest request was made of what was asked.
NewestAsked == \A c \in inflight : Newest(c) => c.query = asked

\* While the summary says "Loading" there is a request to change that.
Awaited ==
  Open => summary \in {"count", "dash"} \/ \E c \in inflight : Newest(c)

\* A request that got past the check is the newest until one overtakes it.
BodiesNewest ==
  ~overtaken => \A c \in inflight : c.at = "body" => Newest(c)

\* The answer to what was asked is shown, or an error, or it is awaited.
Shown ==
  Open /\ ~overtaken =>
    banner \/ table = asked \/ \E c \in inflight : Newest(c)

IInv == /\ TypeOK /\ AskedIsState
        /\ NewestAsked /\ Awaited /\ BodiesNewest /\ Shown

USE FilterAssumption

Untouched == <<inflight, requestSeq, asked, overtaken, banner, table, summary>>
-----------------------------------------------------------------------------
\* The page before its script has run to the end.
LEMMA InitIInv == Init => IInv
<1> SUFFICES ASSUME Init PROVE IInv
  OBVIOUS
<1> USE DEF Init
<1>1. None \in Query
  BY DEF None, Query
<1>2. TypeOK
  <2>1. /\ filter \in Filter /\ offset \in Nat /\ requestSeq \in 0..MaxRequests
        /\ summary \in {"blank", "loading", "count", "dash"}
    OBVIOUS
  <2>2. /\ timer \in BOOLEAN /\ sliding \in BOOLEAN /\ prevOn \in BOOLEAN
        /\ nextOn \in BOOLEAN /\ banner \in BOOLEAN /\ overtaken \in BOOLEAN
    OBVIOUS
  <2> QED
    BY <1>1, <2>1, <2>2 DEF TypeOK
<1>3. AskedIsState /\ NewestAsked /\ Awaited /\ BodiesNewest /\ Shown
  BY DEF AskedIsState, NewestAsked, Awaited, BodiesNewest, Shown, Open
<1> QED
  BY <1>2, <1>3 DEF IInv

\* A request begins: it is the newest, and it is made of the state.
LEMMA FetchStep ==
  ASSUME IInv, NEW f \in Filter, NEW o \in Nat, FetchAndRender(f, o),
         timer' \in BOOLEAN, sliding' \in BOOLEAN
  PROVE  IInv'
<1> DEFINE q == [filter |-> f, offset |-> o]
           new == [seq |-> requestSeq + 1, query |-> q, at |-> "headers"]
           Call(k) == [seq : 1..k, query : Query,
                       at : {"headers", "body", "problem"}]
<1>1. /\ requestSeq < MaxRequests /\ requestSeq' = requestSeq + 1
      /\ filter' = f /\ offset' = o /\ asked' = q
      /\ inflight' = inflight \cup {new}
      /\ banner' = FALSE /\ summary' = "loading"
      /\ table' = table /\ prevOn' = prevOn /\ nextOn' = nextOn
  BY DEF FetchAndRender
<1>2. ~overtaken' => ~overtaken /\ \A c \in inflight : c.at # "body"
  BY Zenon DEF FetchAndRender
<1>3. overtaken' \in BOOLEAN
  BY Zenon DEF FetchAndRender
<1>4. q \in Query /\ requestSeq \in Nat /\ inflight \subseteq Call(requestSeq)
  BY DEF IInv, TypeOK, Query
<1>5. new \in Call(requestSeq + 1) /\ new.seq = requestSeq + 1 /\ new.query = q
      /\ new.at = "headers"
  BY <1>4
<1> HIDE DEF new, q
<1>6. inflight' \subseteq Call(requestSeq')
  BY <1>1, <1>4, <1>5
<1>7. TypeOK'
  <2>1. /\ requestSeq' \in 0..MaxRequests /\ filter' \in Filter /\ offset' \in Nat
        /\ asked' \in Query
    BY <1>1, <1>4
  <2>2. /\ table' \in Query /\ prevOn' \in BOOLEAN /\ nextOn' \in BOOLEAN
        /\ banner' \in BOOLEAN
        /\ summary' \in {"blank", "loading", "count", "dash"}
    BY <1>1 DEF IInv, TypeOK
  <2> QED
    BY <1>3, <1>6, <2>1, <2>2 DEF TypeOK
<1>8. AskedIsState'
  BY <1>1 DEF AskedIsState, q
<1>9. \A c \in inflight : c.seq # requestSeq'
  BY <1>1, <1>4
<1>10. NewestAsked'
  BY <1>1, <1>5, <1>9 DEF NewestAsked, Newest
<1>11. Awaited' /\ Shown'
  BY <1>1, <1>5 DEF Awaited, Shown, Newest
<1>12. BodiesNewest'
  BY <1>1, <1>2, <1>5 DEF BodiesNewest
<1> QED
  BY <1>7, <1>8, <1>10, <1>11, <1>12 DEF IInv

\* The state moves on, and a request for it is due.
LEMMA DueStep ==
  ASSUME IInv, filter' \in Filter, offset' = offset, timer' \in BOOLEAN,
         sliding' \in BOOLEAN, timer' \/ sliding', prevOn' = prevOn,
         nextOn' = nextOn, UNCHANGED Untouched
  PROVE  IInv'
BY DEF IInv, TypeOK, AskedIsState, NewestAsked, Awaited, BodiesNewest, Shown,
       Newest, Open, Untouched

\* Every handler of a control is one or the other.
LEMMA ControlStep ==
  ASSUME IInv,
         \/ PageLoad \/ DebounceFires \/ StorageChange
         \/ \E f \in Filter : ModelInput(f) \/ StorageInput(f) \/ Select(f)
         \/ Reset \/ Prev \/ Next1
  PROVE  IInv'
<1>1. filter \in Filter /\ offset \in Nat /\ timer \in BOOLEAN
        /\ sliding \in BOOLEAN /\ NoFilter \in Filter
  BY DEF IInv, TypeOK
<1>2. CASE PageLoad \/ Reset
  BY <1>1, <1>2, FetchStep DEF PageLoad, Reset
<1>3. CASE DebounceFires \/ StorageChange
  BY <1>1, <1>3, FetchStep DEF DebounceFires, StorageChange
<1>4. ASSUME NEW f \in Filter, Select(f) PROVE IInv'
  BY <1>1, <1>4, FetchStep DEF Select
<1>5. ASSUME NEW f \in Filter, ModelInput(f) \/ StorageInput(f) PROVE IInv'
  BY <1>1, <1>5, DueStep DEF ModelInput, StorageInput, Untouched
<1>6. CASE Prev
  <2>1. (IF offset = 0 THEN 0 ELSE offset - 1) \in Nat
    BY <1>1
  <2> QED
    BY <1>1, <1>6, <2>1, FetchStep DEF Prev
<1>7. CASE Next1
  BY <1>1, <1>7, FetchStep DEF Next1
<1> QED
  BY <1>2, <1>3, <1>4, <1>5, <1>6, <1>7
-----------------------------------------------------------------------------
\* The headers have arrived: the newest request goes on, another one ends.
LEMMA HeadersStep ==
  ASSUME IInv, NEW c \in inflight, Headers(c)
  PROVE  IInv'
<1> USE DEF IInv, Headers, Idle, Newest, Open
<1>1. c \in [seq : 1..requestSeq, query : Query,
             at : {"headers", "body", "problem"}]
  BY DEF TypeOK
<1>2. AskedIsState'
  BY DEF AskedIsState
<1>3. CASE Newest(c)
  <2>1. PICK at \in {"body", "problem"} :
          inflight' = (inflight \ {c}) \cup {[c EXCEPT !.at = at]}
    BY <1>3
  <2> DEFINE d == [c EXCEPT !.at = at]
  <2>2. d \in [seq : 1..requestSeq, query : Query,
               at : {"headers", "body", "problem"}]
        /\ d.seq = requestSeq /\ d.query = c.query /\ d \in inflight'
    BY <1>1, <1>3, <2>1
  <2> HIDE DEF d
  <2>3. TypeOK' /\ NewestAsked'
    BY <1>3, <2>1, <2>2 DEF TypeOK, NewestAsked, d
  <2>4. Awaited' /\ Shown' /\ BodiesNewest'
    BY <2>1, <2>2 DEF Awaited, Shown, BodiesNewest, d
  <2> QED
    BY <1>2, <2>3, <2>4
<1>4. CASE ~Newest(c)
  BY <1>2, <1>4 DEF TypeOK, NewestAsked, Awaited, BodiesNewest, Shown
<1> QED
  BY <1>3, <1>4

\* The rows are shown: what was asked, unless the request was overtaken.
LEMMA RenderStep ==
  ASSUME IInv, NEW c \in inflight, Render(c)
  PROVE  IInv'
<1> USE DEF IInv, Render, Idle, Newest, Open
<1>1. c.query \in Query /\ c.query.offset \in Int
      /\ Pages[c.query.filter] \in Nat
  BY DEF TypeOK, Query
<1>2. TypeOK'
  <2>1. /\ prevOn' = (c.query.offset > 0)
        /\ nextOn' = (c.query.offset + 1 < Pages[c.query.filter])
    OBVIOUS
  <2>2. prevOn' \in BOOLEAN /\ nextOn' \in BOOLEAN
    BY <1>1, <2>1, SMT
  <2> QED
    BY <1>1, <2>2 DEF TypeOK
<1>3. AskedIsState' /\ NewestAsked' /\ Awaited' /\ BodiesNewest'
  BY DEF AskedIsState, NewestAsked, Awaited, BodiesNewest
<1>4. Shown'
  BY DEF Shown, BodiesNewest, NewestAsked
<1> QED
  BY <1>2, <1>3, <1>4

\* A request fails: the newest one tells, another one is left out.
LEMMA FailStep ==
  ASSUME IInv, NEW c \in inflight, Fail(c)
  PROVE  IInv'
BY DEF IInv, Fail, Idle, Newest, Open, TypeOK, AskedIsState, NewestAsked,
       Awaited, BodiesNewest, Shown

\* IInv is inductive.
LEMMA NextIInv == IInv /\ [Next]_vars => IInv'
<1> SUFFICES ASSUME IInv, [Next]_vars PROVE IInv'
  OBVIOUS
<1>1. ASSUME NEW c \in inflight, Headers(c) \/ Render(c) \/ Fail(c)
      PROVE  IInv'
  BY <1>1, HeadersStep, RenderStep, FailStep
<1>2. CASE UNCHANGED vars
  BY <1>2 DEF vars, IInv, TypeOK, AskedIsState, NewestAsked, Awaited,
              BodiesNewest, Shown, Newest, Open
<1> QED
  BY <1>1, <1>2, ControlStep DEF Next
-----------------------------------------------------------------------------
\* IInv holds of every reachable state.
THEOREM Invariance == Spec => []IInv
<1> QED
  BY InitIInv, NextIInv, PTL DEF Spec

\* Every variable keeps its type, and the offset is never negative
\* (index.html:500-507).
THEOREM TypeCorrect == Spec => []TypeOK
<1>1. IInv => TypeOK
  BY DEF IInv
<1> QED
  BY <1>1, Invariance, PTL

\* Whatever control changed the filter, what is asked is what the controls say
\* once no timer and no slider holds it back (index.html:450-507).
THEOREM StateIsAsked == Spec => []AskedIsState
<1>1. IInv => AskedIsState
  BY DEF IInv
<1> QED
  BY <1>1, Invariance, PTL

\* However requests overtake each other and fail, the page does not stay at
\* "Loading" when the last of them is over (index.html:383-405).
THEOREM LoadingEnds == Spec => []NeverStuckLoading
<1>1. IInv => NeverStuckLoading
  BY DEF IInv, Awaited, NeverStuckLoading
<1> QED
  BY <1>1, Invariance, PTL

\* A settled page shows what was asked last, or an error, unless a request was
\* overtaken between its two awaits (index.html:386-395).
THEOREM SettledIsRight == Spec => []SettledShows
<1>1. IInv => SettledShows
  BY DEF IInv, Shown, SettledShows, Settled, ShowsAnswer
<1> QED
  BY <1>1, Invariance, PTL

\* Rows are never replaced by those of a request that is not the newest, before
\* or after the page has settled, unless a request was overtaken between its two
\* awaits; and the error banner is raised by the newest request only
\* (index.html:386-405).
THEOREM RendersNewest ==
  Spec => [][/\ table' # table => table' = asked' \/ overtaken
             /\ banner' /\ ~banner => \E c \in inflight : Newest(c)]_vars
<1> DEFINE Promised == /\ table' # table => table' = asked' \/ overtaken
                       /\ banner' /\ ~banner => \E c \in inflight : Newest(c)
<1>1. ASSUME IInv, [Next]_vars PROVE [Promised]_vars
  <2>1. ASSUME NEW c \in inflight, Render(c) PROVE Promised
    <3>1. asked' = asked /\ banner' = banner /\ table' = c.query
      BY <2>1 DEF Render, Idle
    <3>2. overtaken \/ c.query = asked
      BY <1>1, <2>1 DEF IInv, BodiesNewest, NewestAsked, Render
    <3> QED
      BY <3>1, <3>2
  <2>2. ASSUME NEW c \in inflight, Headers(c) \/ Fail(c) PROVE Promised
    BY <2>2 DEF Headers, Fail, Idle
  <2>3. ASSUME NEW f, NEW o, FetchAndRender(f, o) PROVE Promised
    BY <2>3 DEF FetchAndRender
  <2>4. CASE \E f \in Filter : ModelInput(f) \/ StorageInput(f)
    BY <2>4 DEF ModelInput, StorageInput
  <2>5. CASE \/ PageLoad \/ DebounceFires \/ StorageChange \/ Reset \/ Prev \/ Next1
             \/ \E f \in Filter : Select(f)
    BY <2>3, <2>5 DEF PageLoad, DebounceFires, StorageChange, Reset, Prev, Next1,
                      Select
  <2> QED
    BY <1>1, <2>1, <2>2, <2>4, <2>5 DEF Next
<1> QED
  BY <1>1, Invariance, PTL DEF Spec
=============================================================================
