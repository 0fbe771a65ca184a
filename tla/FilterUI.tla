------------------------------ MODULE FilterUI ------------------------------
(***************************************************************************)
(* The script of web/index.html: the filter's controls, the debounced      *)
(* model field, paging, and the requests whose answers come back in any    *)
(* order while the user goes on.                                           *)
(*                                                                         *)
(* JavaScript runs one handler at a time up to its next await, so each     *)
(* action is one such stretch.  All the filter fields of `state' are one   *)
(* value here, and every control may set it to any value; an offset counts *)
(* pages.  The catalog does not change.                                    *)
(***************************************************************************)
EXTENDS Integers, FiniteSets

CONSTANTS
  Filter,      \* settings of the filter controls
  NoFilter,    \* the settings after a reset
  Pages,       \* Pages[f]: pages of servers that match f
  MaxRequests  \* bound on the requests of a run, for TLC only

ASSUME FilterAssumption ==
  /\ NoFilter \in Filter
  /\ Pages \in [Filter -> Nat]
  /\ MaxRequests \in Nat

VARIABLES
  filter, offset,  \* state
  timer,           \* debouncedFetch's timeout is pending
  sliding,         \* a storage slider is held: "input" but no "change" yet
  requestSeq,      \* as in the script
  inflight,        \* calls of fetchAndRender that are at an await
  asked,           \* the newest request: what buildQuery made of the state
  table,           \* the request whose rows are shown, None before the first
  prevOn, nextOn,  \* the paging buttons are enabled
  summary,         \* summaryText
  banner,          \* the error banner is shown
  overtaken        \* history: a request was superseded between the arrival
                   \* of its headers and that of its body

vars == <<filter, offset, timer, sliding, requestSeq, inflight, asked, table,
          prevOn, nextOn, summary, banner, overtaken>>

None == [filter |-> NoFilter, offset |-> -1]

Query == [filter : Filter, offset : Int]

\* The Previous button, enabled for the page on show, takes no state that has
\* moved on below the first page: an offset is never negative (index.html:501).
TypeOK ==
  /\ filter \in Filter /\ offset \in Nat
  /\ timer \in BOOLEAN /\ sliding \in BOOLEAN
  /\ requestSeq \in 0..MaxRequests
  /\ inflight \subseteq [seq : 1..requestSeq, query : Query,
                        at : {"headers", "body", "problem"}]
  /\ asked \in Query /\ table \in Query
  /\ prevOn \in BOOLEAN /\ nextOn \in BOOLEAN /\ banner \in BOOLEAN
  /\ summary \in {"blank", "loading", "count", "dash"}
  /\ overtaken \in BOOLEAN

\* The buttons are enabled in the page's markup.
Init ==
  /\ filter = NoFilter /\ offset = 0 /\ timer = FALSE /\ sliding = FALSE
  /\ requestSeq = 0 /\ inflight = {} /\ asked = None /\ table = None
  /\ prevOn = TRUE /\ nextOn = TRUE
  /\ summary = "blank" /\ banner = FALSE /\ overtaken = FALSE
-----------------------------------------------------------------------------
\* fetchAndRender up to its first await, with the state the caller has set.
FetchAndRender(f, o) ==
  LET q == [filter |-> f, offset |-> o] IN
  /\ requestSeq < MaxRequests
  /\ filter' = f /\ offset' = o
  /\ requestSeq' = requestSeq + 1
  /\ inflight' = inflight \cup
                   {[seq |-> requestSeq + 1, query |-> q, at |-> "headers"]}
  /\ asked' = q
  /\ banner' = FALSE /\ summary' = "loading"
  /\ overtaken' = (overtaken \/ \E c \in inflight : c.at = "body")
  /\ UNCHANGED <<table, prevOn, nextOn>>

PageLoad == requestSeq = 0 /\ FetchAndRender(NoFilter, 0)
              /\ UNCHANGED <<timer, sliding>>

\* A held slider has the pointer.
Open == requestSeq > 0
Free == Open /\ ~sliding

\* The model field: the state changes now, the request waits 300 ms.
ModelInput(f) ==
  /\ Free
  /\ filter' = f /\ timer' = TRUE
  /\ UNCHANGED <<offset, sliding, requestSeq, inflight, asked, table, prevOn,
                 nextOn, summary, banner, overtaken>>

DebounceFires ==
  /\ timer
  /\ timer' = FALSE
  /\ FetchAndRender(filter, 0)
  /\ UNCHANGED sliding

\* The sliders: the state follows the handle, the request waits for "change".
StorageInput(f) ==
  /\ Open
  /\ filter' = f /\ sliding' = TRUE
  /\ UNCHANGED <<offset, timer, requestSeq, inflight, asked, table, prevOn,
                 nextOn, summary, banner, overtaken>>

\* Taken to follow every drag, one back to where it began too.
StorageChange ==
  /\ sliding
  /\ sliding' = FALSE
  /\ FetchAndRender(filter, 0)
  /\ UNCHANGED timer

\* Mutant: the handler changes the state and sends nothing.
SelectOnly(f) ==
  /\ Free
  /\ filter' = f /\ offset' = 0
  /\ UNCHANGED <<timer, sliding, requestSeq, inflight, asked, table, prevOn,
                 nextOn, summary, banner, overtaken>>

\* RAM boxes (index.html:299-304), disk type, location, submit (which changes no
\* setting).
Select(f) == Free /\ FetchAndRender(f, 0) /\ UNCHANGED <<timer, sliding>>

\* Reset leaves a pending timeout pending.
Reset == Free /\ FetchAndRender(NoFilter, 0) /\ UNCHANGED <<timer, sliding>>

\* Mutant: without Math.max.
PrevUnclamped ==
  /\ Free /\ prevOn
  /\ FetchAndRender(filter, offset - 1)
  /\ UNCHANGED <<timer, sliding>>

Prev ==
  /\ Free /\ prevOn
  /\ FetchAndRender(filter, IF offset = 0 THEN 0 ELSE offset - 1)
  /\ UNCHANGED <<timer, sliding>>

Next1 ==
  /\ Free /\ nextOn
  /\ FetchAndRender(filter, offset + 1)
  /\ UNCHANGED <<timer, sliding>>
-----------------------------------------------------------------------------
(* What comes back.                                                        *)

Newest(c) == c.seq = requestSeq

Idle == UNCHANGED <<filter, offset, timer, sliding, requestSeq, asked,
                    overtaken>>

\* Mutant: without the check after the first await.
HeadersUnchecked(c) ==
  /\ c.at = "headers"
  /\ \E at \in {"body", "problem"} :
       inflight' = (inflight \ {c}) \cup {[c EXCEPT !.at = at]}
  /\ Idle /\ UNCHANGED <<table, prevOn, nextOn, summary, banner>>

\* fetch resolved: a request that is no longer the newest ends here.
Headers(c) ==
  /\ c.at = "headers"
  /\ IF Newest(c)
       THEN \E at \in {"body", "problem"} :
              inflight' = (inflight \ {c}) \cup {[c EXCEPT !.at = at]}
       ELSE inflight' = inflight \ {c}
  /\ Idle /\ UNCHANGED <<table, prevOn, nextOn, summary, banner>>

\* res.json() resolved: the rows are shown, with no second check.
Render(c) ==
  LET q == c.query IN
  /\ c.at = "body"
  /\ inflight' = inflight \ {c}
  /\ table' = q
  /\ summary' = "count"
  /\ prevOn' = (q.offset > 0)
  /\ nextOn' = (q.offset + 1 < Pages[q.filter])
  /\ Idle /\ UNCHANGED banner

\* Mutant: the summary is left as it was.
FailSilently(c) ==
  /\ inflight' = inflight \ {c}
  /\ banner' = (Newest(c) \/ banner)
  /\ Idle /\ UNCHANGED <<table, prevOn, nextOn, summary>>

\* The catch: the network, a status that is not ok, or an unreadable body.
Fail(c) ==
  /\ inflight' = inflight \ {c}
  /\ IF Newest(c) THEN banner' = TRUE /\ summary' = "dash"
                  ELSE UNCHANGED <<banner, summary>>
  /\ Idle /\ UNCHANGED <<table, prevOn, nextOn>>

Next ==
  \/ PageLoad \/ DebounceFires \/ StorageChange
  \/ \E f \in Filter : ModelInput(f) \/ StorageInput(f) \/ Select(f)
  \/ Reset \/ Prev \/ Next1
  \/ \E c \in inflight : Headers(c) \/ Render(c) \/ Fail(c)

Spec == Init /\ [][Next]_vars
-----------------------------------------------------------------------------
Settled == inflight = {} /\ ~timer /\ ~sliding /\ Open

\* Every change of the filter ends in a request for it, from whichever control
\* and however the handlers interleave (index.html:450-507).
AskedIsState ==
  Open /\ ~timer /\ ~sliding => asked = [filter |-> filter, offset |-> offset]

\* Once everything has come back the page shows an answer or an error, never
\* "Loading" (index.html:383, 398, 403).
NeverStuckLoading == inflight = {} /\ Open => summary \in {"count", "dash"}

\* What the settled page shows is what was asked last, as long as no request
\* was superseded between its headers and its body (index.html:386-395).
ShowsAnswer == ~banner => table = asked

SettledShows == Settled /\ ~overtaken => ShowsAnswer

\* index.html:387 says that an answer a newer request has superseded is
\* dropped.
NeverStale == Settled => ShowsAnswer
=============================================================================
