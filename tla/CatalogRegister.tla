--------------------------- MODULE CatalogRegister ---------------------------
(***************************************************************************)
(* What the catalog service promises to its callers, with no files, no     *)
(* parsing and no lifecycle: one catalog, read and replaced atomically.    *)
(*                                                                         *)
(* Every call takes effect at one instant between its invocation and its   *)
(* return.  An upload either replaces the whole catalog or fails and       *)
(* leaves it as it was; a query sees the catalog of one instant; only the  *)
(* end of the process forgets the catalog.                                 *)
(***************************************************************************)

CONSTANTS
  Proc,       \* the calls that can be open at once, the startup load included
  Payload,    \* the files that can be uploaded; one that parses is a catalog
  Unloaded    \* the catalog of a process that has loaded nothing

VARIABLES
  catalog,    \* the file the served catalog was parsed from, or Unloaded
  call        \* call[p]: the call p has open, if it has one

vars == <<catalog, call>>

Content == Payload \cup {Unloaded}

NoCall == [kind |-> "none", val |-> Unloaded, out |-> "open"]

Call == [kind : {"none", "put", "get"},
         val  : Content,
         out  : {"open", "ok", "failed"}]

Init ==
  /\ catalog = Unloaded
  /\ call = [p \in Proc |-> NoCall]

InvokePut(p, f) ==
  /\ call[p].kind = "none"
  /\ call' = [call EXCEPT ![p] = [kind |-> "put", val |-> f, out |-> "open"]]
  /\ UNCHANGED catalog

InvokeGet(p) ==
  /\ call[p].kind = "none"
  /\ call' = [call EXCEPT ![p] =
                [kind |-> "get", val |-> Unloaded, out |-> "open"]]
  /\ UNCHANGED catalog

\* The whole catalog is replaced at once.
Put(p) ==
  /\ call[p].kind = "put" /\ call[p].out = "open"
  /\ catalog' = call[p].val
  /\ call' = [call EXCEPT ![p].out = "ok"]

\* A failed upload changes nothing but its own outcome.
FailPut(p) ==
  /\ call[p].kind = "put" /\ call[p].out = "open"
  /\ call' = [call EXCEPT ![p].out = "failed"]
  /\ UNCHANGED catalog

Get(p) ==
  /\ call[p].kind = "get" /\ call[p].out = "open"
  /\ call' = [call EXCEPT ![p] =
                [kind |-> "get", val |-> catalog, out |-> "ok"]]
  /\ UNCHANGED catalog

Return(p) ==
  /\ call[p].out # "open"
  /\ call' = [call EXCEPT ![p] = NoCall]
  /\ UNCHANGED catalog

\* The process ends: open calls are never answered, the catalog is lost.
Exit ==
  /\ catalog' = Unloaded
  /\ call' = [p \in Proc |-> NoCall]

Next ==
  \/ \E p \in Proc :
       \/ \E f \in Payload : InvokePut(p, f)
       \/ InvokeGet(p)
       \/ Put(p)
       \/ FailPut(p)
       \/ Get(p)
       \/ Return(p)
  \/ Exit

Spec == Init /\ [][Next]_vars
=============================================================================
