------------------------------- MODULE Paging -------------------------------
(***************************************************************************)
(* How a listing is cut into pages: the parameters limit and offset, and   *)
(* mapServersResponse.                                                     *)
(*                                                                         *)
(* A parameter that is not given is {}, one that is given {n}.  A text     *)
(* that is no integer is refused like an integer out of range, so those    *)
(* stand for it.                                                           *)
(***************************************************************************)
EXTENDS Integers, Sequences

CONSTANTS DefaultLimit, MaxLimit   \* 50 and 200

ASSUME PagingAssumption ==
  MaxLimit \in Nat \ {0} /\ DefaultLimit \in 1..MaxLimit

Least(a, b) == IF a < b THEN a ELSE b

LimitOk(raw) == \A n \in raw : n >= 1
OffsetOk(raw) == \A n \in raw : n >= 0

\* The limit is capped, not refused.
Limit(raw) ==
  IF raw = {} THEN DefaultLimit ELSE Least(CHOOSE n \in raw : TRUE, MaxLimit)

Offset(raw) == IF raw = {} THEN 0 ELSE CHOOSE n \in raw : TRUE

\* Mutant: the end is not moved to the end of the result, as if the limit were
\* counted from the beginning.
PageShort(servers, limit, offset) ==
  LET total == Len(servers)
      start == Least(offset, total)
  IN  [data |-> SubSeq(servers, start + 1, Least(limit, total)),
       total |-> total]

\* Both ends are moved into the result; total counts every match.
Page(servers, limit, offset) ==
  LET total == Len(servers)
      start == Least(offset, total)
  IN  [data |-> SubSeq(servers, start + 1, Least(start + limit, total)),
       total |-> total]
=============================================================================
