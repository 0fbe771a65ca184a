----------------------------- MODULE LazyRoutes -----------------------------
(***************************************************************************)
(* Server.routes(): the handler chain is built by the first request and    *)
(* kept in s.once, with no lock and no sync.Once, while every connection   *)
(* runs ServeHTTP in a goroutine of its own.                               *)
(*                                                                         *)
(* s.once is an interface: a type word and a data word.  A store writes    *)
(* both, a load reads both, one at a time and in the order the compiler    *)
(* and the processor choose; the test s.once != nil reads the type word.   *)
(* Every chain has the same type, so the type word is only set or not.     *)
(* Each word by itself is coherent.                                        *)
(***************************************************************************)

CONSTANTS
  Request,   \* requests that can be in progress at once
  NoChain    \* the nil data word

ASSUME ChainAssumption == NoChain \notin Request

VARIABLES
  typ,       \* the type word of s.once is set
  data,      \* the data word of s.once: the request whose chain it is
  pc,        \* pc[r]: the next step of request r
  order,     \* order[r]: the word r's store writes first
  stage,     \* stage[r]: how far the chain r builds is
  got,       \* got[r]: the interface value routes() returned to r
  late,      \* history: r arrived after some request had been dispatched
  opened     \* history: some request has been dispatched

vars == <<typ, data, pc, order, stage, got, late, opened>>

Nil == [typ |-> FALSE, data |-> NoChain]

Building == {"mux", "wrap", "store1", "store2"}

TypeOK ==
  /\ typ \in BOOLEAN
  /\ data \in Request \cup {NoChain}
  /\ pc \in [Request -> {"idle", "check", "load", "load2", "call", "gone"}
                          \cup Building]
  /\ order \in [Request -> {"typ", "data"}]
  /\ stage \in [Request -> {"none", "mux", "chain"}]
  /\ got \in [Request -> [typ : BOOLEAN, data : Request \cup {NoChain}]]
  /\ late \in [Request -> BOOLEAN]
  /\ opened \in BOOLEAN

\* NewServer leaves once nil.
Init ==
  /\ typ = FALSE /\ data = NoChain
  /\ pc = [r \in Request |-> "idle"]
  /\ order = [r \in Request |-> "typ"]
  /\ stage = [r \in Request |-> "none"]
  /\ got = [r \in Request |-> Nil]
  /\ late = [r \in Request |-> FALSE]
  /\ opened = FALSE

Goto(r, s) == pc' = [pc EXCEPT ![r] = s]

Arrive(r) ==
  /\ pc[r] = "idle"
  /\ late' = [late EXCEPT ![r] = opened]
  /\ Goto(r, "check")
  /\ UNCHANGED <<typ, data, order, stage, got, opened>>

\* if s.once != nil
Check(r) ==
  /\ pc[r] = "check"
  /\ Goto(r, IF typ THEN "load" ELSE "mux")
  /\ UNCHANGED <<typ, data, order, stage, got, late, opened>>

\* Mutant: the mux is published before the middlewares are around it.
BuildMuxAndPublish(r) ==
  /\ pc[r] = "mux"
  /\ stage' = [stage EXCEPT ![r] = "mux"]
  /\ typ' = TRUE /\ data' = r
  /\ Goto(r, "wrap")
  /\ UNCHANGED <<order, got, late, opened>>

\* The routes are registered on a mux of the request's own.
BuildMux(r) ==
  /\ pc[r] = "mux"
  /\ stage' = [stage EXCEPT ![r] = "mux"]
  /\ Goto(r, "wrap")
  /\ UNCHANGED <<typ, data, order, got, late, opened>>

\* Mutant: Chain's loop stops one middleware short.
WrapShort(r) ==
  /\ pc[r] = "wrap"
  /\ stage' = [stage EXCEPT ![r] = "short"]
  /\ Goto(r, "store1")
  /\ UNCHANGED <<typ, data, order, got, late, opened>>

\* Mutant: the chain is returned and never kept.
WrapAndReturn(r) ==
  /\ pc[r] = "wrap"
  /\ stage' = [stage EXCEPT ![r] = "chain"]
  /\ got' = [got EXCEPT ![r] = [typ |-> TRUE, data |-> r]]
  /\ Goto(r, "call")
  /\ UNCHANGED <<typ, data, order, late, opened>>

\* middleware.Chain puts recover, request ID, logging and gzip around it.
Wrap(r) ==
  /\ pc[r] = "wrap"
  /\ stage' = [stage EXCEPT ![r] = "chain"]
  /\ \E o \in {"typ", "data"} : order' = [order EXCEPT ![r] = o]
  /\ Goto(r, "store1")
  /\ UNCHANGED <<typ, data, got, late, opened>>

StoreWord(r, word) ==
  IF word = "typ" THEN typ' = TRUE /\ UNCHANGED data
                  ELSE data' = r /\ UNCHANGED typ

\* Mutant: what is stored is a typed nil, a type word without a function.
Store1Only(r) ==
  /\ pc[r] = "store1"
  /\ typ' = TRUE /\ UNCHANGED data
  /\ Goto(r, "load")
  /\ UNCHANGED <<order, stage, got, late, opened>>

\* s.once = middleware.Chain(...)
Store1(r) ==
  /\ pc[r] = "store1"
  /\ StoreWord(r, order[r])
  /\ Goto(r, "store2")
  /\ UNCHANGED <<order, stage, got, late, opened>>

Store2(r) ==
  /\ pc[r] = "store2"
  /\ StoreWord(r, IF order[r] = "typ" THEN "data" ELSE "typ")
  /\ Goto(r, "load")
  /\ UNCHANGED <<order, stage, got, late, opened>>

\* return s.once, after the check or after the store: either word may be read
\* first.
Load1(r) ==
  /\ pc[r] = "load"
  /\ \/ got' = [got EXCEPT ![r] = [typ |-> typ, data |-> NoChain]]
        /\ order' = [order EXCEPT ![r] = "data"]
     \/ got' = [got EXCEPT ![r] = [typ |-> FALSE, data |-> data]]
        /\ order' = [order EXCEPT ![r] = "typ"]
  /\ Goto(r, "load2")
  /\ UNCHANGED <<typ, data, stage, late, opened>>

Load2(r) ==
  /\ pc[r] = "load2"
  /\ got' = IF order[r] = "data" THEN [got EXCEPT ![r].data = data]
                                 ELSE [got EXCEPT ![r].typ = typ]
  /\ Goto(r, "call")
  /\ UNCHANGED <<typ, data, order, stage, late, opened>>

\* .ServeHTTP(w, r) on what routes() returned: a chain, or a nil function,
\* whose panic no middleware is around to recover.
Call(r) ==
  /\ pc[r] = "call"
  /\ opened' = TRUE
  /\ Goto(r, "gone")
  /\ UNCHANGED <<typ, data, order, stage, got, late>>

\* Another request on the same connection slot.
Finish(r) ==
  /\ pc[r] = "gone"
  /\ got' = [got EXCEPT ![r] = Nil]
  /\ order' = [order EXCEPT ![r] = "typ"]
  /\ late' = [late EXCEPT ![r] = FALSE]
  /\ Goto(r, "idle")
  /\ UNCHANGED <<typ, data, stage, opened>>

RequestStep(r) ==
  Check(r) \/ BuildMux(r) \/ Wrap(r) \/ Store1(r) \/ Store2(r)
    \/ Load1(r) \/ Load2(r) \/ Call(r) \/ Finish(r)

Next == \E r \in Request : Arrive(r) \/ RequestStep(r)

Spec == Init /\ [][Next]_vars
-----------------------------------------------------------------------------
\* Whatever chain a request goes through has every route and every middleware,
\* whoever built it and however many are built (routes.go:24-75).
OnlyWholeChains ==
  \A r \in Request :
    pc[r] = "call" /\ got[r].data # NoChain => stage[got[r].data] = "chain"

\* Only the requests of the first burst build: once one request has got
\* through, those that come later use what is there (routes.go:20-22).
BuiltOnce == \A r \in Request : late[r] => pc[r] \notin Building

\* A request that built a chain itself is never handed a half-written value:
\* other builders can only replace its words by their own (routes.go:70-76).
BuilderIsServed ==
  \A r \in Request :
    /\ pc[r] = "call" /\ stage[r] = "chain"
    => got[r].typ /\ got[r].data # NoChain

\* server.go:3-5 says that no caller can end up with a Server in a
\* partially-wired state: no request meets a half-written handler.
FullyWired == \A r \in Request : pc[r] = "call" => got[r].data # NoChain
=============================================================================
