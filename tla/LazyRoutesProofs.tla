-------------------------- MODULE LazyRoutesProofs --------------------------
(***************************************************************************)
(* Proofs about LazyRoutes for any number of racing requests: what the     *)
(* unsynchronised s.once guarantees all the same.                          *)
(*                                                                         *)
(* The inductive invariant says what each word of s.once allows one to     *)
(* conclude, which chains are whole, and how far the copy a builder of a   *)
(* chain reads back can be from a whole interface value.                   *)
(***************************************************************************)
EXTENDS LazyRoutes, TLAPS

\* A chain that has been stored, or has been handed out, is whole.
WholeChains ==
  /\ data # NoChain => stage[data] = "chain"
  /\ \A r \in Request : got[r].data # NoChain => stage[got[r].data] = "chain"

\* Nobody builds who has built: a chain is never taken apart again.
BuildsOnce ==
  \A r \in Request :
    /\ pc[r] \in {"mux", "wrap"} => stage[r] # "chain"
    /\ pc[r] \in {"store1", "store2"} => stage[r] = "chain"

\* Between its two stores a builder has written the word it chose first;
\* after them both words are set, by it or by another builder.
Written ==
  \A r \in Request :
    /\ pc[r] = "store2" => IF order[r] = "typ" THEN typ ELSE data # NoChain
    /\ stage[r] = "chain" /\ pc[r] \notin {"store1", "store2"}
         => typ /\ data # NoChain

\* What a builder has read back so far is not nil.
ReadBack ==
  \A r \in Request :
    stage[r] = "chain" =>
      /\ pc[r] = "load2" => IF order[r] = "data" THEN got[r].typ
                                                 ELSE got[r].data # NoChain
      /\ pc[r] = "call" => got[r].typ /\ got[r].data # NoChain

\* A request is past the check only if the type word is set, and it stays set.
Typed ==
  /\ opened => typ
  /\ \A r \in Request :
       /\ pc[r] \in {"load", "load2", "call", "gone"} => typ
       /\ late[r] => typ /\ pc[r] \notin Building

IInv == TypeOK /\ WholeChains /\ BuildsOnce /\ Written /\ ReadBack /\ Typed

USE ChainAssumption
-----------------------------------------------------------------------------
\* A new Server has no chain and no requests.
LEMMA InitIInv == Init => IInv
<1> SUFFICES ASSUME Init PROVE IInv
  OBVIOUS
<1> USE DEF Init, Nil, Building
<1>1. TypeOK
  BY DEF TypeOK
<1>2. WholeChains /\ BuildsOnce
  BY DEF WholeChains, BuildsOnce
<1>3. Written /\ ReadBack /\ Typed
  BY DEF Written, ReadBack, Typed
<1> QED
  BY <1>1, <1>2, <1>3 DEF IInv

\* Types are kept.
LEMMA TypeStep ==
  ASSUME TypeOK, [Next]_vars
  PROVE  TypeOK'
<1> USE DEF TypeOK, Building
<1>1. ASSUME NEW r \in Request, Arrive(r) PROVE TypeOK'
  BY <1>1 DEF Arrive, Goto
<1>2. ASSUME NEW r \in Request, Check(r) PROVE TypeOK'
  BY <1>2 DEF Check, Goto
<1>3. ASSUME NEW r \in Request, BuildMux(r) PROVE TypeOK'
  BY <1>3 DEF BuildMux, Goto
<1>4. ASSUME NEW r \in Request, Wrap(r) PROVE TypeOK'
  BY <1>4 DEF Wrap, Goto
<1>5. ASSUME NEW r \in Request, Store1(r) PROVE TypeOK'
  BY <1>5 DEF Store1, Goto, StoreWord
<1>6. ASSUME NEW r \in Request, Store2(r) PROVE TypeOK'
  BY <1>6 DEF Store2, Goto, StoreWord
<1>7. ASSUME NEW r \in Request, Load1(r) PROVE TypeOK'
  <2>1. PICK v \in [typ : BOOLEAN, data : Request \cup {NoChain}],
             o \in {"typ", "data"} :
          got' = [got EXCEPT ![r] = v] /\ order' = [order EXCEPT ![r] = o]
    BY <1>7 DEF Load1
  <2> QED
    BY <1>7, <2>1 DEF Load1, Goto
<1>8. ASSUME NEW r \in Request, Load2(r) PROVE TypeOK'
  BY <1>8 DEF Load2, Goto
<1>9. ASSUME NEW r \in Request, Call(r) PROVE TypeOK'
  BY <1>9 DEF Call, Goto
<1>10. ASSUME NEW r \in Request, Finish(r) PROVE TypeOK'
  BY <1>10 DEF Finish, Goto, Nil
<1>11. ASSUME UNCHANGED vars PROVE TypeOK'
  BY <1>11 DEF vars
<1> QED
  BY <1>1, <1>2, <1>3, <1>4, <1>5, <1>6, <1>7, <1>8,
     <1>9, <1>10, <1>11
  DEF Next, RequestStep

\* Chains are whole before they are stored and stay so.
LEMMA ChainStep ==
  ASSUME TypeOK, WholeChains, BuildsOnce, Written, [Next]_vars
  PROVE  WholeChains' /\ BuildsOnce'
<1> USE DEF TypeOK, Building, WholeChains, BuildsOnce, Written
<1>1. ASSUME NEW r \in Request, Arrive(r)
      PROVE  WholeChains' /\ BuildsOnce'
  BY <1>1 DEF Arrive, Goto
<1>2. ASSUME NEW r \in Request, Check(r)
      PROVE  WholeChains' /\ BuildsOnce'
  BY <1>2 DEF Check, Goto
<1>3. ASSUME NEW r \in Request, BuildMux(r)
      PROVE  WholeChains' /\ BuildsOnce'
  BY <1>3 DEF BuildMux, Goto
<1>4. ASSUME NEW r \in Request, Wrap(r)
      PROVE  WholeChains' /\ BuildsOnce'
  BY <1>4 DEF Wrap, Goto
<1>5. ASSUME NEW r \in Request, Store1(r)
      PROVE  WholeChains' /\ BuildsOnce'
  BY <1>5 DEF Store1, Goto, StoreWord
<1>6. ASSUME NEW r \in Request, Store2(r)
      PROVE  WholeChains' /\ BuildsOnce'
  BY <1>6 DEF Store2, Goto, StoreWord
<1>7. ASSUME NEW r \in Request, Load1(r)
      PROVE  WholeChains' /\ BuildsOnce'
  BY <1>7 DEF Load1, Goto
<1>8. ASSUME NEW r \in Request, Load2(r)
      PROVE  WholeChains' /\ BuildsOnce'
  BY <1>8 DEF Load2, Goto
<1>9. ASSUME NEW r \in Request, Call(r)
      PROVE  WholeChains' /\ BuildsOnce'
  BY <1>9 DEF Call, Goto
<1>10. ASSUME NEW r \in Request, Finish(r)
      PROVE  WholeChains' /\ BuildsOnce'
  BY <1>10 DEF Finish, Goto, Nil
<1>11. ASSUME UNCHANGED vars PROVE WholeChains' /\ BuildsOnce'
  BY <1>11 DEF vars
<1> QED
  BY <1>1, <1>2, <1>3, <1>4, <1>5, <1>6, <1>7, <1>8,
     <1>9, <1>10, <1>11
  DEF Next, RequestStep

\* The words of s.once never go back to nil.
LEMMA WordStep ==
  ASSUME TypeOK, BuildsOnce, Written, ReadBack, Typed, [Next]_vars
  PROVE  Written' /\ ReadBack' /\ Typed'
<1> USE DEF TypeOK, Building, BuildsOnce, Written, ReadBack, Typed
<1>1. ASSUME NEW r \in Request, Arrive(r)
      PROVE  Written' /\ ReadBack' /\ Typed'
  BY <1>1 DEF Arrive, Goto
<1>2. ASSUME NEW r \in Request, Check(r)
      PROVE  Written' /\ ReadBack' /\ Typed'
  BY <1>2 DEF Check, Goto
<1>3. ASSUME NEW r \in Request, BuildMux(r)
      PROVE  Written' /\ ReadBack' /\ Typed'
  BY <1>3 DEF BuildMux, Goto
<1>4. ASSUME NEW r \in Request, Wrap(r)
      PROVE  Written' /\ ReadBack' /\ Typed'
  BY <1>4 DEF Wrap, Goto
<1>5. ASSUME NEW r \in Request, Store1(r)
      PROVE  Written' /\ ReadBack' /\ Typed'
  BY <1>5 DEF Store1, Goto, StoreWord
<1>6. ASSUME NEW r \in Request, Store2(r)
      PROVE  Written' /\ ReadBack' /\ Typed'
  BY <1>6 DEF Store2, Goto, StoreWord
<1>7. ASSUME NEW r \in Request, Load1(r)
      PROVE  Written' /\ ReadBack' /\ Typed'
  BY <1>7 DEF Load1, Goto
<1>8. ASSUME NEW r \in Request, Load2(r)
      PROVE  Written' /\ ReadBack' /\ Typed'
  BY <1>8 DEF Load2, Goto
<1>9. ASSUME NEW r \in Request, Call(r)
      PROVE  Written' /\ ReadBack' /\ Typed'
  BY <1>9 DEF Call, Goto
<1>10. ASSUME NEW r \in Request, Finish(r)
      PROVE  Written' /\ ReadBack' /\ Typed'
  BY <1>10 DEF Finish, Goto, Nil
<1>11. ASSUME UNCHANGED vars PROVE Written' /\ ReadBack' /\ Typed'
  BY <1>11 DEF vars
<1> QED
  BY <1>1, <1>2, <1>3, <1>4, <1>5, <1>6, <1>7, <1>8,
     <1>9, <1>10, <1>11
  DEF Next, RequestStep

\* IInv is inductive.
LEMMA NextIInv == IInv /\ [Next]_vars => IInv'
BY TypeStep, ChainStep, WordStep DEF IInv

\* IInv holds of every reachable state.
THEOREM Invariance == Spec => []IInv
<1>1. Init => IInv
  BY InitIInv
<1>2. IInv /\ [Next]_vars => IInv'
  BY NextIInv
<1> QED
  BY <1>1, <1>2, PTL DEF Spec

\* The words of s.once hold nothing but chains some request built.
THEOREM TypeCorrect == Spec => []TypeOK
<1>1. IInv => TypeOK
  BY DEF IInv
<1> QED
  BY <1>1, Invariance, PTL

\* However many requests race for the first use of the routes, none goes
\* through a chain that lacks a route or a middleware (routes.go:24-75).
THEOREM ChainsAreWhole == Spec => []OnlyWholeChains
<1>1. IInv => OnlyWholeChains
  BY DEF IInv, WholeChains, OnlyWholeChains
<1> QED
  BY <1>1, Invariance, PTL

\* The race is over with the first request that gets through: those that come
\* later build nothing (routes.go:20-22).
THEOREM RaceEnds == Spec => []BuiltOnce
<1>1. IInv => BuiltOnce
  BY DEF IInv, Typed, BuiltOnce
<1> QED
  BY <1>1, Invariance, PTL

\* Only a request that found s.once set by another can be handed half of it
\* (routes.go:70-76).
THEOREM BuildersAreServed == Spec => []BuilderIsServed
<1>1. IInv => BuilderIsServed
  BY DEF IInv, ReadBack, BuilderIsServed
<1> QED
  BY <1>1, Invariance, PTL

\* Some request has built a chain and stored it.
Stored == \E b \in Request : stage[b] = "chain" /\ pc[b] \notin {"store1", "store2"}

\* The race of the first requests closes: once one of them has stored its chain
\* both words of s.once are set, and they stay set, whatever the others that are
\* still building store over them; a request that loads s.once from then on
\* gets a handler (routes.go:20-76).
THEOREM RaceCloses ==
  Spec => /\ [](Stored => typ /\ data # NoChain)
          /\ [][Stored => Stored']_vars
<1>1. IInv => (Stored => typ /\ data # NoChain)
  BY DEF IInv, Written, Stored
<1>2. ASSUME IInv, [Next]_vars PROVE [Stored => Stored']_vars
  <2> SUFFICES ASSUME NEW b \in Request, stage[b] = "chain",
                      pc[b] \notin {"store1", "store2"}
               PROVE  stage'[b] = "chain" /\ pc'[b] \notin {"store1", "store2"}
    BY DEF Stored
  <2>1. TypeOK /\ pc[b] \notin {"mux", "wrap"}
    BY <1>2 DEF IInv, BuildsOnce
  <2>2. ASSUME NEW r \in Request, Arrive(r) \/ RequestStep(r)
        PROVE  stage'[b] = "chain" /\ pc'[b] \notin {"store1", "store2"}
    BY <2>1, <2>2 DEF TypeOK, Arrive, RequestStep, Check, BuildMux, Wrap, Store1,
                      Store2, Load1, Load2, Call, Finish, Goto
  <2>3. CASE UNCHANGED vars
    BY <2>3 DEF vars
  <2> QED
    BY <1>2, <2>2, <2>3 DEF Next
<1> QED
  BY <1>1, <1>2, Invariance, PTL DEF Spec
=============================================================================
