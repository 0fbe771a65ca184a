------------------------ MODULE CatalogServiceProofs ------------------------
(***************************************************************************)
(* Proofs about CatalogService for any number of uploads, queries, names   *)
(* and payloads.                                                           *)
(*                                                                         *)
(* None of the properties is inductive alone.  The inductive invariant     *)
(* IInv adds what the code knows at each step of an upload: that the file  *)
(* has been parsed, that the temporary file is whole before it is renamed, *)
(* that a saved copy precedes the swap, and that the only upload between   *)
(* rename and swap under a name no two uploads crossed on is the one the   *)
(* directory holds.                                                        *)
(***************************************************************************)
EXTENDS CatalogService, Naturals, TLAPS

\* A process that is down has no catalog, no flag and no request.
Clean ==
  mode = "down" => /\ catalog = Unloaded /\ ready = FALSE
                   /\ pc = NoStep /\ gpc = NoQuery

Past == {"create", "replace", "store", "ok"} \cup Saving

\* What an upload has done by the step it is at.
Parsed == \A w \in Writer : pc[w] \in Past => load[w] \in Parses
Whole  == \A w \in Writer : pc[w] \in {"sync", "rename"} => tmp[w] = "whole"
Saved  == \A w \in Writer :
            pc[w] \in {"replace", "store", "ok"} => dir[file[w]] # Absent
Loaded == \A w \in Writer : pc[w] \in {"store", "ok"} => catalog # Unloaded

\* No two uploads of a name are between rename and swap unless they crossed.
Alone ==
  \A n \in Name \ raced : \A v, w \in Renamed(n) : v = w /\ dir[n] = load[w]

ReadyInv == ReadyAgrees /\ ReadySettles /\ Loaded
FileInv  == Parsed /\ Whole /\ TempOwned /\ AuditComplete
AuditInv == Saved /\ SavedBeforeServed /\ Alone /\ AuditAgrees

IInv == TypeOK /\ Clean /\ ReadyInv /\ FileInv /\ AuditInv

USE WriterAssumption, NameAssumption, PayloadAssumption, SpillAssumption
-----------------------------------------------------------------------------
\* A fresh process over an empty upload directory satisfies IInv.
LEMMA InitIInv == Init => IInv
<1> SUFFICES ASSUME Init PROVE IInv
  OBVIOUS
<1> USE DEF Init, NoStep, NoFile, NoLoad, NoTmp, NoSpill, NoQuery, NoReply
<1>1. TypeOK
  BY DEF TypeOK, Step, Content
<1>2. Clean
  BY DEF Clean
<1>3. ReadyInv
  BY DEF ReadyInv, ReadyAgrees, ReadySettles, Loaded, Writer
<1>4. FileInv
  BY DEF FileInv, Parsed, Whole, TempOwned, AuditComplete, Past, Saving
<1>5. AuditInv
  BY DEF AuditInv, Saved, SavedBeforeServed, Alone, AuditAgrees, Renamed
<1> QED
  BY <1>1, <1>2, <1>3, <1>4, <1>5 DEF IInv

\* Types are kept; that a renamed file is a whole upload needs FileInv.
LEMMA TypeStep ==
  ASSUME TypeOK, FileInv, [Next]_vars
  PROVE  TypeOK'
<1> USE DEF uploadVars, queryVars, TypeOK, FileInv, Parsed, Past, Step,
            Deciding, Saving, Content, Writer
<1>1. ASSUME NEW w \in Writer, ReadFails(w) PROVE TypeOK'
  BY <1>1 DEF ReadFails, Goto
<1>2. ASSUME NEW w \in Writer, Parse(w) PROVE TypeOK'
  BY <1>2 DEF Parse, Goto
<1>3. ASSUME NEW w \in Writer, CreateFails(w) PROVE TypeOK'
  BY <1>3 DEF CreateFails, Goto
<1>4. ASSUME NEW w \in Writer, Create(w) PROVE TypeOK'
  BY <1>4 DEF Create, Goto
<1>5. ASSUME NEW w \in Writer, Write(w) PROVE TypeOK'
  BY <1>5 DEF Write, Goto
<1>6. ASSUME NEW w \in Writer, Sync(w) PROVE TypeOK'
  BY <1>6 DEF Sync, Goto
<1>7. ASSUME NEW w \in Writer, SaveFails(w) PROVE TypeOK'
  BY <1>7 DEF SaveFails, Goto
<1>8. ASSUME NEW w \in Writer, Rename(w) PROVE TypeOK'
  BY <1>8 DEF Rename, Goto
<1>9. ASSUME NEW w \in Writer, Replace(w) PROVE TypeOK'
  BY <1>9 DEF Replace, Goto
<1>10. ASSUME NEW w \in Writer, StoreReady(w) PROVE TypeOK'
  BY <1>10 DEF StoreReady, Goto
<1>11. ASSUME NEW u \in Uploader, Accept(u) PROVE TypeOK'
  BY <1>11 DEF Accept, Goto
<1>12. ASSUME NEW u \in Uploader, FormRejected(u) PROVE TypeOK'
  BY <1>12 DEF FormRejected, Forget, Goto
<1>13. ASSUME NEW u \in Uploader, FormWithoutFile(u) PROVE TypeOK'
  <2>1. PICK s \in {FALSE, CanSpill} : spill' = [spill EXCEPT ![u] = s]
    BY <1>13 DEF FormWithoutFile
  <2>2. s \in BOOLEAN
    BY Zenon
  <2> QED
    BY <1>13, <2>1, <2>2 DEF FormWithoutFile, Forget, Goto
<1>14. ASSUME NEW u \in Uploader, FormAccepted(u) PROVE TypeOK'
  <2>1. PICK n \in Name, p \in Payload, s \in {FALSE, CanSpill} :
          /\ file' = [file EXCEPT ![u] = n]
          /\ load' = [load EXCEPT ![u] = p]
          /\ spill' = [spill EXCEPT ![u] = s]
    BY <1>14 DEF FormAccepted
  <2>2. s \in BOOLEAN
    BY Zenon
  <2> QED
    BY <1>14, <2>1, <2>2 DEF FormAccepted, Goto
<1>15. ASSUME NEW u \in Uploader, Answer(u) PROVE TypeOK'
  BY <1>15 DEF Answer, Forget, Goto
<1>16. ASSUME NEW g \in Getter, Query(g) PROVE TypeOK'
  BY <1>16 DEF Query
<1>17. ASSUME NEW g \in Getter, List(g) PROVE TypeOK'
  BY <1>17 DEF List
<1>18. ASSUME NEW g \in Getter, Reply(g) PROVE TypeOK'
  BY <1>18 DEF Reply
<1>19. ASSUME Start PROVE TypeOK'
  BY <1>19 DEF Start, Goto
<1>20. ASSUME Listen PROVE TypeOK'
  BY <1>20 DEF Listen, Forget, Goto
<1>21. ASSUME Signal PROVE TypeOK'
  BY <1>21 DEF Signal
<1>22. ASSUME Drained PROVE TypeOK'
  BY <1>22 DEF Drained, Exit, NoStep, NoFile, NoLoad, NoTmp, NoSpill, NoQuery,
               NoReply
<1>23. ASSUME DrainExpires PROVE TypeOK'
  BY <1>23 DEF DrainExpires, Exit, NoStep, NoFile, NoLoad, NoTmp, NoSpill,
               NoQuery, NoReply
<1>24. ASSUME Kill PROVE TypeOK'
  BY <1>24 DEF Kill, Exit, NoStep, NoFile, NoLoad, NoTmp, NoSpill, NoQuery,
               NoReply
<1>25. ASSUME UNCHANGED vars PROVE TypeOK'
  BY <1>25 DEF vars
<1> QED
  BY <1>1, <1>2, <1>3, <1>4, <1>5, <1>6, <1>7, <1>8, <1>9, <1>10, <1>11,
     <1>12, <1>13, <1>14, <1>15, <1>16, <1>17, <1>18, <1>19, <1>20, <1>21,
     <1>22, <1>23, <1>24, <1>25
  DEF Next, WriterStep, SaveStep, FormStep

\* Only Start leaves "down", and every way out of a process empties it.
LEMMA CleanStep ==
  ASSUME TypeOK, Clean, [Next]_vars
  PROVE  Clean'
<1> USE DEF uploadVars, queryVars, TypeOK, Clean, NoStep, NoQuery
<1>1. ASSUME NEW w \in Writer, ReadFails(w) PROVE Clean'
  BY <1>1 DEF ReadFails, Goto
<1>2. ASSUME NEW w \in Writer, Parse(w) PROVE Clean'
  BY <1>2 DEF Parse, Goto
<1>3. ASSUME NEW w \in Writer, CreateFails(w) PROVE Clean'
  BY <1>3 DEF CreateFails, Goto
<1>4. ASSUME NEW w \in Writer, Create(w) PROVE Clean'
  BY <1>4 DEF Create, Goto
<1>5. ASSUME NEW w \in Writer, Write(w) PROVE Clean'
  BY <1>5 DEF Write, Goto
<1>6. ASSUME NEW w \in Writer, Sync(w) PROVE Clean'
  BY <1>6 DEF Sync, Goto
<1>7. ASSUME NEW w \in Writer, SaveFails(w) PROVE Clean'
  BY <1>7 DEF SaveFails, Goto, Saving
<1>8. ASSUME NEW w \in Writer, Rename(w) PROVE Clean'
  BY <1>8 DEF Rename, Goto
<1>9. ASSUME NEW w \in Writer, Replace(w) PROVE Clean'
  BY <1>9 DEF Replace, Goto
<1>10. ASSUME NEW w \in Writer, StoreReady(w) PROVE Clean'
  BY <1>10 DEF StoreReady, Goto
<1>11. ASSUME NEW u \in Uploader, Accept(u) PROVE Clean'
  BY <1>11 DEF Accept, Goto
<1>12. ASSUME NEW u \in Uploader, FormRejected(u) PROVE Clean'
  BY <1>12 DEF FormRejected, Forget, Goto
<1>13. ASSUME NEW u \in Uploader, FormWithoutFile(u) PROVE Clean'
  BY <1>13 DEF FormWithoutFile, Forget, Goto
<1>14. ASSUME NEW u \in Uploader, FormAccepted(u) PROVE Clean'
  BY <1>14 DEF FormAccepted, Goto
<1>15. ASSUME NEW u \in Uploader, Answer(u) PROVE Clean'
  BY <1>15 DEF Answer, Forget, Goto
<1>16. ASSUME NEW g \in Getter, Query(g) PROVE Clean'
  BY <1>16 DEF Query
<1>17. ASSUME NEW g \in Getter, List(g) PROVE Clean'
  BY <1>17 DEF List
<1>18. ASSUME NEW g \in Getter, Reply(g) PROVE Clean'
  BY <1>18 DEF Reply
<1>19. ASSUME Start PROVE Clean'
  BY <1>19 DEF Start, Goto
<1>20. ASSUME Listen PROVE Clean'
  BY <1>20 DEF Listen, Forget, Goto
<1>21. ASSUME Signal PROVE Clean'
  BY <1>21 DEF Signal
<1>22. ASSUME Drained PROVE Clean'
  BY <1>22 DEF Drained, Exit, NoStep, NoFile, NoLoad, NoTmp, NoSpill, NoQuery,
               NoReply
<1>23. ASSUME DrainExpires PROVE Clean'
  BY <1>23 DEF DrainExpires, Exit, NoStep, NoFile, NoLoad, NoTmp, NoSpill,
               NoQuery, NoReply
<1>24. ASSUME Kill PROVE Clean'
  BY <1>24 DEF Kill, Exit, NoStep, NoFile, NoLoad, NoTmp, NoSpill, NoQuery,
               NoReply
<1>25. ASSUME UNCHANGED vars PROVE Clean'
  BY <1>25 DEF vars
<1> QED
  BY <1>1, <1>2, <1>3, <1>4, <1>5, <1>6, <1>7, <1>8, <1>9, <1>10, <1>11,
     <1>12, <1>13, <1>14, <1>15, <1>16, <1>17, <1>18, <1>19, <1>20, <1>21,
     <1>22, <1>23, <1>24, <1>25
  DEF Next, WriterStep, SaveStep, FormStep

\* The steps of a save keep the upload directory whole.
LEMMA FileStep ==
  ASSUME TypeOK, Clean, FileInv, [Next]_vars
  PROVE  FileInv'
<1> USE DEF uploadVars, queryVars, TypeOK, FileInv, Parsed, Whole, TempOwned,
            AuditComplete, Writer, Past, Saving, Deciding, Step
<1>1. ASSUME NEW w \in Writer, ReadFails(w) PROVE FileInv'
  BY <1>1 DEF ReadFails, Goto
<1>2. ASSUME NEW w \in Writer, Parse(w) PROVE FileInv'
  BY <1>2 DEF Parse, Goto
<1>3. ASSUME NEW w \in Writer, CreateFails(w) PROVE FileInv'
  BY <1>3 DEF CreateFails, Goto
<1>4. ASSUME NEW w \in Writer, Create(w) PROVE FileInv'
  BY <1>4 DEF Create, Goto
<1>5. ASSUME NEW w \in Writer, Write(w) PROVE FileInv'
  BY <1>5 DEF Write, Goto
<1>6. ASSUME NEW w \in Writer, Sync(w) PROVE FileInv'
  BY <1>6 DEF Sync, Goto
<1>7. ASSUME NEW w \in Writer, SaveFails(w) PROVE FileInv'
  BY <1>7 DEF SaveFails, Goto
<1>8. ASSUME NEW w \in Writer, Rename(w) PROVE FileInv'
  BY <1>8 DEF Rename, Goto
<1>9. ASSUME NEW w \in Writer, Replace(w) PROVE FileInv'
  BY <1>9 DEF Replace, Goto
<1>10. ASSUME NEW w \in Writer, StoreReady(w) PROVE FileInv'
  BY <1>10 DEF StoreReady, Goto
<1>11. ASSUME NEW u \in Uploader, Accept(u) PROVE FileInv'
  BY <1>11 DEF Accept, Goto
<1>12. ASSUME NEW u \in Uploader, FormRejected(u) PROVE FileInv'
  BY <1>12 DEF FormRejected, Forget, Goto
<1>13. ASSUME NEW u \in Uploader, FormWithoutFile(u) PROVE FileInv'
  BY <1>13 DEF FormWithoutFile, Forget, Goto
<1>14. ASSUME NEW u \in Uploader, FormAccepted(u) PROVE FileInv'
  BY <1>14 DEF FormAccepted, Goto
<1>15. ASSUME NEW u \in Uploader, Answer(u) PROVE FileInv'
  BY <1>15 DEF Answer, Forget, Goto
<1>16. ASSUME NEW g \in Getter, Query(g) PROVE FileInv'
  BY <1>16 DEF Query
<1>17. ASSUME NEW g \in Getter, List(g) PROVE FileInv'
  BY <1>17 DEF List
<1>18. ASSUME NEW g \in Getter, Reply(g) PROVE FileInv'
  BY <1>18 DEF Reply
<1>19. ASSUME Start PROVE FileInv'
  <2>1. /\ pc' = [pc EXCEPT ![Boot] = "parse"]
        /\ \A w \in Writer \ {Boot} : load'[w] = load[w]
        /\ UNCHANGED <<tmp, dir>>
    BY <1>19 DEF Start, Goto
  <2>2. Parsed'
    BY <2>1
  <2>3. Whole' /\ AuditComplete'
    BY <2>1
  <2>4. tmp[Boot] = "none" /\ TempOwned'
    BY <1>19, <2>1 DEF Start, Clean, NoStep
  <2> QED
    BY <2>2, <2>3, <2>4
<1>20. ASSUME Listen PROVE FileInv'
  BY <1>20 DEF Listen, Forget, Goto
<1>21. ASSUME Signal PROVE FileInv'
  BY <1>21 DEF Signal
<1>22. ASSUME Drained PROVE FileInv'
  BY <1>22 DEF Drained, Exit, NoStep, NoFile, NoLoad, NoTmp, NoSpill, NoQuery,
               NoReply
<1>23. ASSUME DrainExpires PROVE FileInv'
  BY <1>23 DEF DrainExpires, Exit, NoStep, NoFile, NoLoad, NoTmp, NoSpill,
               NoQuery, NoReply
<1>24. ASSUME Kill PROVE FileInv'
  BY <1>24 DEF Kill, Exit, NoStep, NoFile, NoLoad, NoTmp, NoSpill, NoQuery,
               NoReply
<1>25. ASSUME UNCHANGED vars PROVE FileInv'
  BY <1>25 DEF vars
<1> QED
  BY <1>1, <1>2, <1>3, <1>4, <1>5, <1>6, <1>7, <1>8, <1>9, <1>10, <1>11,
     <1>12, <1>13, <1>14, <1>15, <1>16, <1>17, <1>18, <1>19, <1>20, <1>21,
     <1>22, <1>23, <1>24, <1>25
  DEF Next, WriterStep, SaveStep, FormStep

\* The flag follows the swap of the catalog and is never taken back.
LEMMA ReadyStep ==
  ASSUME TypeOK, Clean, FileInv, ReadyInv, [Next]_vars
  PROVE  ReadyInv'
<1> USE DEF uploadVars, queryVars, TypeOK, Clean, FileInv, Parsed, ReadyInv,
            ReadyAgrees, ReadySettles, Loaded, Past, Saving, Deciding, Step
<1>1. ASSUME NEW w \in Writer, ReadFails(w) PROVE ReadyInv'
  BY <1>1 DEF ReadFails, Goto
<1>2. ASSUME NEW w \in Writer, Parse(w) PROVE ReadyInv'
  BY <1>2 DEF Parse, Goto
<1>3. ASSUME NEW w \in Writer, CreateFails(w) PROVE ReadyInv'
  BY <1>3 DEF CreateFails, Goto
<1>4. ASSUME NEW w \in Writer, Create(w) PROVE ReadyInv'
  BY <1>4 DEF Create, Goto
<1>5. ASSUME NEW w \in Writer, Write(w) PROVE ReadyInv'
  BY <1>5 DEF Write, Goto
<1>6. ASSUME NEW w \in Writer, Sync(w) PROVE ReadyInv'
  BY <1>6 DEF Sync, Goto
<1>7. ASSUME NEW w \in Writer, SaveFails(w) PROVE ReadyInv'
  BY <1>7 DEF SaveFails, Goto
<1>8. ASSUME NEW w \in Writer, Rename(w) PROVE ReadyInv'
  BY <1>8 DEF Rename, Goto
<1>9. ASSUME NEW w \in Writer, Replace(w) PROVE ReadyInv'
  BY <1>9 DEF Replace, Goto
<1>10. ASSUME NEW w \in Writer, StoreReady(w) PROVE ReadyInv'
  BY <1>10 DEF StoreReady, Goto
<1>11. ASSUME NEW u \in Uploader, Accept(u) PROVE ReadyInv'
  BY <1>11 DEF Accept, Goto
<1>12. ASSUME NEW u \in Uploader, FormRejected(u) PROVE ReadyInv'
  BY <1>12 DEF FormRejected, Forget, Goto
<1>13. ASSUME NEW u \in Uploader, FormWithoutFile(u) PROVE ReadyInv'
  BY <1>13 DEF FormWithoutFile, Forget, Goto
<1>14. ASSUME NEW u \in Uploader, FormAccepted(u) PROVE ReadyInv'
  BY <1>14 DEF FormAccepted, Goto
<1>15. ASSUME NEW u \in Uploader, Answer(u) PROVE ReadyInv'
  BY <1>15 DEF Answer, Forget, Goto
<1>16. ASSUME NEW g \in Getter, Query(g) PROVE ReadyInv'
  BY <1>16 DEF Query
<1>17. ASSUME NEW g \in Getter, List(g) PROVE ReadyInv'
  BY <1>17 DEF List
<1>18. ASSUME NEW g \in Getter, Reply(g) PROVE ReadyInv'
  BY <1>18 DEF Reply
<1>19. ASSUME Start PROVE ReadyInv'
  BY <1>19 DEF Start, Goto
<1>20. ASSUME Listen PROVE ReadyInv'
  BY <1>20 DEF Listen, Forget, Goto
<1>21. ASSUME Signal PROVE ReadyInv'
  BY <1>21 DEF Signal
<1>22. ASSUME Drained PROVE ReadyInv'
  BY <1>22 DEF Drained, Exit, NoStep, NoFile, NoLoad, NoTmp, NoSpill, NoQuery,
               NoReply
<1>23. ASSUME DrainExpires PROVE ReadyInv'
  BY <1>23 DEF DrainExpires, Exit, NoStep, NoFile, NoLoad, NoTmp, NoSpill,
               NoQuery, NoReply
<1>24. ASSUME Kill PROVE ReadyInv'
  BY <1>24 DEF Kill, Exit, NoStep, NoFile, NoLoad, NoTmp, NoSpill, NoQuery,
               NoReply
<1>25. ASSUME UNCHANGED vars PROVE ReadyInv'
  BY <1>25 DEF vars
<1> QED
  BY <1>1, <1>2, <1>3, <1>4, <1>5, <1>6, <1>7, <1>8, <1>9, <1>10, <1>11,
     <1>12, <1>13, <1>14, <1>15, <1>16, <1>17, <1>18, <1>19, <1>20, <1>21,
     <1>22, <1>23, <1>24, <1>25
  DEF Next, WriterStep, SaveStep, FormStep

\* Rename and Replace keep the audit copies of uncrossed names in step.
LEMMA AuditStep ==
  ASSUME TypeOK, Clean, FileInv, AuditInv, [Next]_vars
  PROVE  AuditInv'
<1> USE DEF uploadVars, queryVars, TypeOK, Clean, FileInv, Parsed, Whole,
            AuditInv, Saved, SavedBeforeServed, Alone, AuditAgrees, Renamed,
            Past, Saving, Deciding, Step
<1>1. ASSUME NEW w \in Writer, ReadFails(w) PROVE AuditInv'
  BY <1>1 DEF ReadFails, Goto
<1>2. ASSUME NEW w \in Writer, Parse(w) PROVE AuditInv'
  BY <1>2 DEF Parse, Goto
<1>3. ASSUME NEW w \in Writer, CreateFails(w) PROVE AuditInv'
  BY <1>3 DEF CreateFails, Goto
<1>4. ASSUME NEW w \in Writer, Create(w) PROVE AuditInv'
  BY <1>4 DEF Create, Goto
<1>5. ASSUME NEW w \in Writer, Write(w) PROVE AuditInv'
  BY <1>5 DEF Write, Goto
<1>6. ASSUME NEW w \in Writer, Sync(w) PROVE AuditInv'
  BY <1>6 DEF Sync, Goto
<1>7. ASSUME NEW w \in Writer, SaveFails(w) PROVE AuditInv'
  BY <1>7 DEF SaveFails, Goto
<1>8. ASSUME NEW w \in Writer, Rename(w) PROVE AuditInv'
  BY <1>8 DEF Rename, Goto
<1>9. ASSUME NEW w \in Writer, Replace(w) PROVE AuditInv'
  BY <1>9 DEF Replace, Goto
<1>10. ASSUME NEW w \in Writer, StoreReady(w) PROVE AuditInv'
  BY <1>10 DEF StoreReady, Goto
<1>11. ASSUME NEW u \in Uploader, Accept(u) PROVE AuditInv'
  BY <1>11 DEF Accept, Goto
<1>12. ASSUME NEW u \in Uploader, FormRejected(u) PROVE AuditInv'
  BY <1>12 DEF FormRejected, Forget, Goto
<1>13. ASSUME NEW u \in Uploader, FormWithoutFile(u) PROVE AuditInv'
  BY <1>13 DEF FormWithoutFile, Forget, Goto
<1>14. ASSUME NEW u \in Uploader, FormAccepted(u) PROVE AuditInv'
  BY <1>14 DEF FormAccepted, Goto
<1>15. ASSUME NEW u \in Uploader, Answer(u) PROVE AuditInv'
  BY <1>15 DEF Answer, Forget, Goto
<1>16. ASSUME NEW g \in Getter, Query(g) PROVE AuditInv'
  BY <1>16 DEF Query
<1>17. ASSUME NEW g \in Getter, List(g) PROVE AuditInv'
  BY <1>17 DEF List
<1>18. ASSUME NEW g \in Getter, Reply(g) PROVE AuditInv'
  BY <1>18 DEF Reply
<1>19. ASSUME Start PROVE AuditInv'
  BY <1>19 DEF Start, Goto
<1>20. ASSUME Listen PROVE AuditInv'
  BY <1>20 DEF Listen, Forget, Goto
<1>21. ASSUME Signal PROVE AuditInv'
  BY <1>21 DEF Signal
<1>22. ASSUME Drained PROVE AuditInv'
  BY <1>22 DEF Drained, Exit, NoStep, NoFile, NoLoad, NoTmp, NoSpill, NoQuery,
               NoReply
<1>23. ASSUME DrainExpires PROVE AuditInv'
  BY <1>23 DEF DrainExpires, Exit, NoStep, NoFile, NoLoad, NoTmp, NoSpill,
               NoQuery, NoReply
<1>24. ASSUME Kill PROVE AuditInv'
  BY <1>24 DEF Kill, Exit, NoStep, NoFile, NoLoad, NoTmp, NoSpill, NoQuery,
               NoReply
<1>25. ASSUME UNCHANGED vars PROVE AuditInv'
  BY <1>25 DEF vars
<1> QED
  BY <1>1, <1>2, <1>3, <1>4, <1>5, <1>6, <1>7, <1>8, <1>9, <1>10, <1>11,
     <1>12, <1>13, <1>14, <1>15, <1>16, <1>17, <1>18, <1>19, <1>20, <1>21,
     <1>22, <1>23, <1>24, <1>25
  DEF Next, WriterStep, SaveStep, FormStep

\* IInv is inductive.
LEMMA NextIInv == IInv /\ [Next]_vars => IInv'
BY TypeStep, CleanStep, FileStep, ReadyStep, AuditStep DEF IInv

-----------------------------------------------------------------------------
Calls == [p \in Writer \cup Getter |-> CallOf(p)]

\* A step that moves only p's upload or query changes only p's call.
LEMMA OneCall ==
  ASSUME NEW p \in Writer \cup Getter,
         \A q \in Writer \ {p} : pc'[q] = pc[q] /\ load'[q] = load[q],
         \A q \in Getter \ {p} : gpc'[q] = gpc[q] /\ seen'[q] = seen[q]
  PROVE  Calls' = [Calls EXCEPT ![p] = CallOf(p)']
<1>1. ASSUME NEW q \in (Writer \cup Getter) \ {p}
      PROVE  CallOf(q)' = CallOf(q)
  BY DEF CallOf
<1> QED
  BY <1>1 DEF Calls

\* A step that moves no upload and no query changes no call.
LEMMA SameCalls ==
  ASSUME \A q \in Writer : pc'[q] = pc[q] /\ load'[q] = load[q],
         \A q \in Getter : gpc'[q] = gpc[q] /\ seen'[q] = seen[q]
  PROVE  Calls' = Calls
<1>1. ASSUME NEW q \in Writer \cup Getter
      PROVE  CallOf(q)' = CallOf(q)
  BY DEF CallOf
<1> QED
  BY <1>1 DEF Calls

\* An undecided upload that fails is a failed put of the register.
LEMMA FailPutStep ==
  ASSUME TypeOK, NEW w \in Writer, pc[w] \in Deciding, Goto(w, "fail"),
         UNCHANGED <<catalog, load, gpc, seen>>
  PROVE  Register!FailPut(w)
<1>1. Calls' = [Calls EXCEPT ![w] = CallOf(w)']
  BY OneCall DEF TypeOK, Goto
<1>2. CallOf(w) = [kind |-> "put", val |-> load[w], out |-> "open"]
  BY DEF CallOf, Deciding, Saving
<1>3. CallOf(w)' = [kind |-> "put", val |-> load[w], out |-> "failed"]
  BY DEF CallOf, TypeOK, Goto, Deciding, Saving
<1>4. Calls[w] = CallOf(w)
  BY DEF Calls
<1>5. [Calls[w] EXCEPT !.out = "failed"] = CallOf(w)'
  BY <1>2, <1>3, <1>4
<1>6. Calls[w].kind = "put" /\ Calls[w].out = "open"
  BY <1>2, <1>4
<1> QED
  BY <1>1, <1>5, <1>6 DEF Register!FailPut, Calls

\* A slot that becomes idle ends the call it had.
LEMMA ReturnStep ==
  ASSUME TypeOK, NEW w \in Writer, pc[w] \in {"ok", "fail"}, Forget(w),
         UNCHANGED <<catalog, gpc, seen>>
  PROVE  Register!Return(w)
<1>1. Calls' = [Calls EXCEPT ![w] = CallOf(w)']
  BY OneCall DEF TypeOK, Forget, Goto
<1>2. CallOf(w).out # "open"
  BY DEF CallOf, Deciding, Saving
<1>3. CallOf(w)' = Register!NoCall
  BY DEF CallOf, TypeOK, Forget, Goto, Deciding, Saving, Register!NoCall
<1>4. Calls[w] = CallOf(w)
  BY DEF Calls
<1> QED
  BY <1>1, <1>2, <1>3, <1>4 DEF Register!Return, Calls

\* A slot that goes from one step without a call to another.
LEMMA NoCallStep ==
  ASSUME TypeOK, NEW w \in Writer, pc[w] \in {"idle", "form"},
         pc'[w] \in {"idle", "form"}, Goto(w, pc'[w]),
         \A q \in Writer \ {w} : load'[q] = load[q],
         UNCHANGED <<gpc, seen>>
  PROVE  Calls' = Calls
<1>1. Calls' = [Calls EXCEPT ![w] = CallOf(w)']
  BY OneCall DEF TypeOK, Goto
<1>2. CallOf(w)' = CallOf(w)
  BY DEF CallOf, Deciding, Saving
<1> QED
  BY <1>1, <1>2 DEF Calls

\* A step between two of an upload that is still undecided.
LEMMA UndecidedStep ==
  ASSUME TypeOK, NEW w \in Writer, pc[w] \in Deciding, NEW s \in Deciding,
         Goto(w, s), UNCHANGED <<load, gpc, seen>>
  PROVE  Calls' = Calls
<1>1. Calls' = [Calls EXCEPT ![w] = CallOf(w)']
  BY OneCall DEF TypeOK, Goto
<1>2. CallOf(w)' = CallOf(w)
  BY DEF CallOf, Deciding, Saving, TypeOK, Goto
<1> QED
  BY <1>1, <1>2 DEF Calls

\* A file handed to UploadServerData is a put invoked.
LEMMA InvokePutStep ==
  ASSUME TypeOK, NEW w \in Writer, pc[w] \in {"idle", "form"},
         NEW f \in Payload, Goto(w, "parse"), load' = [load EXCEPT ![w] = f],
         UNCHANGED <<catalog, gpc, seen>>
  PROVE  Register!InvokePut(w, f)
<1>1. Calls' = [Calls EXCEPT ![w] = CallOf(w)']
  BY OneCall DEF TypeOK, Goto
<1>2. CallOf(w).kind = "none"
  BY DEF CallOf, Deciding, Saving
<1>3. CallOf(w)' = [kind |-> "put", val |-> f, out |-> "open"]
  BY DEF CallOf, TypeOK, Goto, Deciding, Saving
<1>4. Calls[w] = CallOf(w)
  BY DEF Calls
<1> QED
  BY <1>1, <1>2, <1>3, <1>4 DEF Register!InvokePut, Calls

\* The swap of the catalog is the moment an upload takes effect.
LEMMA PutStep ==
  ASSUME TypeOK, NEW w \in Writer, Replace(w)
  PROVE  Register!Put(w)
<1>1. Calls' = [Calls EXCEPT ![w] = CallOf(w)']
  BY OneCall DEF TypeOK, Replace, Goto, queryVars
<1>2. CallOf(w) = [kind |-> "put", val |-> load[w], out |-> "open"]
  BY DEF CallOf, Replace, Deciding, Saving
<1>3. CallOf(w)' = [kind |-> "put", val |-> load[w], out |-> "ok"]
  BY DEF CallOf, TypeOK, Replace, Goto, Deciding, Saving
<1>4. Calls[w] = CallOf(w)
  BY DEF Calls
<1>5. [Calls[w] EXCEPT !.out = "ok"] = CallOf(w)'
  BY <1>2, <1>3, <1>4
<1>6. /\ Calls[w].kind = "put" /\ Calls[w].out = "open"
      /\ catalog' = Calls[w].val
  BY <1>2, <1>4 DEF Replace
<1> QED
  BY <1>1, <1>5, <1>6 DEF Register!Put, Calls

\* A query's steps are those of a get.
LEMMA QueryStep ==
  ASSUME TypeOK, NEW g \in Getter, Query(g) \/ List(g) \/ Reply(g)
  PROVE  Register!InvokeGet(g) \/ Register!Get(g) \/ Register!Return(g)
<1>1. Calls' = [Calls EXCEPT ![g] = CallOf(g)']
  BY OneCall DEF TypeOK, Query, List, Reply, uploadVars
<1>2. Calls[g] = CallOf(g) /\ g \notin Writer
  BY DEF Calls
<1>3. CASE Query(g)
  <2>1. CallOf(g).kind = "none"
    BY <1>2, <1>3 DEF CallOf, Query
  <2>2. CallOf(g)' = [kind |-> "get", val |-> Unloaded, out |-> "open"]
    BY <1>2, <1>3 DEF CallOf, Query, TypeOK
  <2> QED
    BY <1>1, <1>2, <1>3, <2>1, <2>2 DEF Register!InvokeGet, Calls, Query
<1>4. CASE List(g)
  <2>1. CallOf(g) = [kind |-> "get", val |-> Unloaded, out |-> "open"]
    BY <1>2, <1>4 DEF CallOf, List
  <2>2. CallOf(g)' = [kind |-> "get", val |-> catalog, out |-> "ok"]
    BY <1>2, <1>4 DEF CallOf, List, TypeOK
  <2>3. Calls[g].kind = "get" /\ Calls[g].out = "open"
    BY <1>2, <2>1
  <2> QED
    BY <1>1, <1>4, <2>2, <2>3 DEF Register!Get, Calls, List
<1>5. CASE Reply(g)
  <2>1. CallOf(g).out # "open"
    BY <1>2, <1>5 DEF CallOf, Reply
  <2>2. CallOf(g)' = Register!NoCall
    BY <1>2, <1>5 DEF CallOf, Reply, TypeOK, Register!NoCall
  <2> QED
    BY <1>1, <1>2, <1>5, <2>1, <2>2 DEF Register!Return, Calls, Reply
<1> QED
  BY <1>3, <1>4, <1>5

\* The end of the process is the register's.
LEMMA ExitStep ==
  ASSUME TypeOK, Exit
  PROVE  Register!Exit
<1>1. ASSUME NEW p \in Writer \cup Getter
      PROVE  CallOf(p)' = Register!NoCall
  BY DEF CallOf, Exit, NoStep, NoQuery, Deciding, Saving, Register!NoCall
<1> QED
  BY <1>1 DEF Register!Exit, Exit

\* No call is open initially.
LEMMA InitRegister == Init => Register!Init
<1> SUFFICES ASSUME Init PROVE Register!Init
  OBVIOUS
<1>1. ASSUME NEW p \in Writer \cup Getter
      PROVE  CallOf(p) = Register!NoCall
  BY DEF CallOf, Init, NoStep, NoQuery, Deciding, Saving, Register!NoCall
<1> QED
  BY <1>1 DEF Register!Init, Init

\* Every step of the service is a step of the register or a stutter.
LEMMA NextRegister ==
  ASSUME TypeOK, Clean, FileInv, [Next]_vars
  PROVE  [Register!Next]_(Register!vars)
<1> DEFINE Same == Calls' = Calls /\ catalog' = catalog
<1>1. SUFFICES Register!Next \/ Same
  BY DEF Register!vars, Calls
<1>2. ASSUME NEW w \in Writer, WriterStep(w) PROVE Register!Next \/ Same
  <2>1. CASE ReadFails(w) \/ CreateFails(w) \/ SaveFails(w)
    <3>1. Register!FailPut(w)
      BY <2>1, FailPutStep
         DEF ReadFails, CreateFails, SaveFails, Deciding, Saving, queryVars
    <3> QED
      BY <3>1 DEF Register!Next
  <2>2. CASE Parse(w)
    <3>1. CASE load[w] \in Parses
      BY <2>2, <3>1, UndecidedStep DEF Parse, Deciding, Saving, queryVars
    <3>2. CASE load[w] \notin Parses
      <4>1. Register!FailPut(w)
        BY <2>2, <3>2, FailPutStep DEF Parse, Deciding, Saving, queryVars
      <4> QED
        BY <4>1 DEF Register!Next
    <3> QED
      BY <3>1, <3>2
  <2>3. CASE Create(w) \/ Write(w) \/ Sync(w) \/ Rename(w)
    <3>1. UNCHANGED <<catalog, load, gpc, seen>>
      BY <2>3 DEF Create, Write, Sync, Rename, queryVars
    <3>2. PICK s \in Deciding : pc[w] \in Deciding /\ Goto(w, s)
      BY <2>3 DEF Create, Write, Sync, Rename, Deciding, Saving
    <3> QED
      BY <3>1, <3>2, UndecidedStep
  <2>4. CASE Replace(w)
    BY <2>4, PutStep DEF Register!Next
  <2>5. CASE StoreReady(w)
    <3>1. Calls' = [Calls EXCEPT ![w] = CallOf(w)']
      BY <2>5, OneCall DEF TypeOK, StoreReady, Goto, queryVars
    <3>2. CallOf(w)' = CallOf(w)
      BY <2>5 DEF CallOf, StoreReady, Goto, TypeOK, Deciding, Saving
    <3> QED
      BY <2>5, <3>1, <3>2 DEF Calls, StoreReady
  <2> QED
    BY <1>2, <2>1, <2>2, <2>3, <2>4, <2>5 DEF WriterStep, SaveStep
<1>3. ASSUME NEW u \in Uploader, Accept(u) \/ FormStep(u) \/ Answer(u)
      PROVE  Register!Next \/ Same
  <2>1. u \in Writer
    BY DEF Writer
  <2>2. CASE Accept(u) \/ FormRejected(u) \/ FormWithoutFile(u)
    <3>1. /\ pc[u] \in {"idle", "form"} /\ pc'[u] \in {"idle", "form"}
          /\ Goto(u, pc'[u])
          /\ \A q \in Writer \ {u} : load'[q] = load[q]
          /\ UNCHANGED <<catalog, gpc, seen>>
      BY <2>1, <2>2 DEF Accept, FormRejected, FormWithoutFile, Forget, Goto,
                        TypeOK, queryVars
    <3> QED
      BY <2>1, <3>1, NoCallStep
  <2>3. CASE FormAccepted(u)
    <3>1. PICK f \in Payload : load' = [load EXCEPT ![u] = f]
      BY <2>3 DEF FormAccepted
    <3>2. Register!InvokePut(u, f)
      BY <2>1, <2>3, <3>1, InvokePutStep DEF FormAccepted, queryVars
    <3> QED
      BY <2>1, <3>2 DEF Register!Next
  <2>4. CASE Answer(u)
    <3>1. Register!Return(u)
      BY <2>1, <2>4, ReturnStep DEF Answer, queryVars
    <3> QED
      BY <2>1, <3>1 DEF Register!Next
  <2> QED
    BY <1>3, <2>2, <2>3, <2>4 DEF FormStep
<1>4. ASSUME NEW g \in Getter, Query(g) \/ List(g) \/ Reply(g)
      PROVE  Register!Next \/ Same
  BY <1>4, QueryStep DEF Register!Next
<1>5. CASE Start
  <2>1. Boot \in Writer /\ pc[Boot] = "idle"
    BY <1>5 DEF Writer, Start, Clean, NoStep
  <2>2. PICK f \in Payload : load' = [load EXCEPT ![Boot] = f]
    BY <1>5 DEF Start
  <2>3. Register!InvokePut(Boot, f)
    BY <1>5, <2>1, <2>2, InvokePutStep DEF Start, queryVars
  <2> QED
    BY <2>1, <2>3 DEF Register!Next
<1>6. CASE Listen
  <2>1. Boot \in Writer
    BY DEF Writer
  <2>2. Register!Return(Boot)
    BY <1>6, <2>1, ReturnStep DEF Listen, queryVars
  <2> QED
    BY <2>1, <2>2 DEF Register!Next
<1>7. CASE Signal \/ UNCHANGED vars
  BY <1>7, SameCalls DEF Signal, vars, uploadVars, queryVars
<1>8. CASE Drained \/ DrainExpires \/ Kill
  BY <1>8, ExitStep DEF Drained, DrainExpires, Kill, Register!Next
<1> QED
  BY <1>2, <1>3, <1>4, <1>5, <1>6, <1>7, <1>8 DEF Next

-----------------------------------------------------------------------------
\* IInv holds of every reachable state.
THEOREM Invariance == Spec => []IInv
<1>1. Init => IInv
  BY InitIInv
<1>2. IInv /\ [Next]_vars => IInv'
  BY NextIInv
<1> QED
  BY <1>1, <1>2, PTL DEF Spec

\* Every variable keeps its type; in particular nothing but whole uploads is
\* ever renamed into the upload directory (memory_repo.go:59-88).
THEOREM TypeCorrect == Spec => []TypeOK
<1>1. IInv => TypeOK
  BY DEF IInv
<1> QED
  BY <1>1, Invariance, PTL

\* The readiness flag and the catalog agree, however uploads, failures, kills
\* and restarts interleave (servers.go:48-53, main.go:48-57).
THEOREM Readiness == Spec => []ReadyFlag
<1>1. IInv => ReadyFlag
  BY DEF IInv, ReadyInv, ReadyFlag
<1> QED
  BY <1>1, Invariance, PTL

\* The upload directory never holds a partial or an unparseable file, and its
\* temporary files all have an owner (memory_repo.go:70-88).
THEOREM AuditIsWhole == Spec => []AuditDirectory
<1>1. IInv => AuditDirectory
  BY DEF IInv, FileInv, AuditDirectory
<1> QED
  BY <1>1, Invariance, PTL

\* Whatever is served was saved first, and where no two uploads of its name
\* crossed, the saved copy is what is served (service.go:52-55).
THEOREM AuditIsServed == Spec => []AuditCopy
<1>1. IInv => AuditCopy
  BY DEF IInv, TypeOK, FileInv, AuditComplete, AuditInv, Saved, AuditCopy,
         SavedBeforeAnswered
<1> QED
  BY <1>1, Invariance, PTL

\* Only a rename changes the directory.
LEMMA OnlyRename ==
  ASSUME [Next]_vars, \A w \in Writer : ~Rename(w)
  PROVE  dir' = dir
<1>1. ASSUME NEW w \in Writer, WriterStep(w) PROVE dir' = dir
  BY <1>1 DEF WriterStep, SaveStep, ReadFails, Parse, CreateFails, Create, Write,
              Sync, SaveFails, Replace, StoreReady
<1>2. ASSUME NEW u \in Uploader, Accept(u) \/ FormStep(u) \/ Answer(u)
      PROVE  dir' = dir
  BY <1>2 DEF Accept, FormStep, FormRejected, FormWithoutFile, FormAccepted, Answer
<1>3. ASSUME NEW g \in Getter, Query(g) \/ List(g) \/ Reply(g) PROVE dir' = dir
  BY <1>3 DEF Query, List, Reply
<1>4. CASE Start \/ Listen \/ Signal
  BY <1>4 DEF Start, Listen, Signal
<1>5. CASE Drained \/ DrainExpires \/ Kill
  BY <1>5 DEF Drained, DrainExpires, Kill, Exit
<1>6. CASE UNCHANGED vars
  BY <1>6 DEF vars
<1> QED
  BY <1>1, <1>2, <1>3, <1>4, <1>5, <1>6 DEF Next

\* A live process never forgets its catalog or takes back its readiness, and a
\* name that has a copy in the directory keeps a whole one, through failures,
\* races, kills and restarts (docs/api.md:159-161, memory_repo.go:59-88).
THEOREM LoadedForGood == Spec => NeverUnloads
<1> DEFINE Loads ==
      mode' # "down" => /\ catalog # Unloaded => catalog' # Unloaded
                        /\ ready => ready'
           Copies == \A n \in Name : dir[n] # Absent => dir'[n] \in Parses
<1>1. ASSUME IInv, [Next]_vars PROVE [Loads]_vars
  <2>1. ASSUME NEW w \in Writer, WriterStep(w) PROVE Loads
    <3>1. ready => ready'
      BY <2>1 DEF WriterStep, SaveStep, ReadFails, Parse, CreateFails, Create,
                  Write, Sync, SaveFails, Rename, Replace, StoreReady
    <3>2. CASE Replace(w)
      BY <1>1, <3>1, <3>2 DEF Replace, IInv, FileInv, Parsed, Past
    <3>3. CASE ~Replace(w)
      BY <2>1, <3>1, <3>3
         DEF WriterStep, SaveStep, ReadFails, Parse, CreateFails, Create,
             Write, Sync, SaveFails, Rename, StoreReady
    <3> QED
      BY <3>2, <3>3
  <2>2. ASSUME NEW u \in Uploader, Accept(u) \/ FormStep(u) \/ Answer(u)
        PROVE  Loads
    BY <2>2 DEF Accept, FormStep, FormRejected, FormWithoutFile, FormAccepted,
                Answer
  <2>3. ASSUME NEW g \in Getter, Query(g) \/ List(g) \/ Reply(g) PROVE Loads
    BY <2>3 DEF Query, List, Reply
  <2>4. CASE Start \/ Listen \/ Signal
    BY <2>4 DEF Start, Listen, Signal
  <2>5. CASE Drained \/ DrainExpires \/ Kill
    BY <2>5 DEF Drained, DrainExpires, Kill, Exit
  <2> QED
    BY <1>1, <2>1, <2>2, <2>3, <2>4, <2>5 DEF Next
<1>2. ASSUME IInv, [Next]_vars PROVE Copies
  <2>1. dir \in [Name -> Payload \cup {Absent, Torn}] /\ AuditComplete
    BY <1>2 DEF IInv, TypeOK, FileInv
  <2>2. CASE \E w \in Writer : Rename(w)
    <3>1. PICK w \in Writer : Rename(w)
      BY <2>2
    <3>2. tmp[w] = "whole" /\ load[w] \in Parses
      BY <1>2, <3>1 DEF IInv, FileInv, Whole, Parsed, Past, Saving, Rename
    <3>3. dir' = [dir EXCEPT ![file[w]] = load[w]]
      BY <3>1, <3>2 DEF Rename
    <3> QED
      BY <2>1, <3>2, <3>3 DEF AuditComplete
  <2>3. CASE \A w \in Writer : ~Rename(w)
    BY <1>2, <2>1, <2>3, OnlyRename DEF AuditComplete
  <2> QED
    BY <2>2, <2>3
<1>3. ASSUME IInv, [Next]_vars PROVE [Loads /\ Copies]_vars
  BY <1>1, <1>2, <1>3
<1> QED
  BY <1>3, Invariance, PTL DEF Spec, NeverUnloads

\* How many steps an upload is from the end of its slot, at most.
Left == [idle |-> 0, ok |-> 1, fail |-> 1, store |-> 2, replace |-> 3,
         rename |-> 4, sync |-> 5, write |-> 6, create |-> 7, parse |-> 8,
         form |-> 9]

\* Every step an upload takes, whether it succeeds, fails or dies with the
\* process, brings it nearer to its answer: nothing is tried again, and no other
\* upload, query or shutdown sends it back (service.go:32-58, memory_repo.go:59-88).
\* With the fairness of FairSpec this is why RequestsEnd holds.
THEOREM UploadsAdvance ==
  Spec => [][\A w \in Writer : WriterStep(w) \/ (pc[w] # "idle" /\ pc'[w] # pc[w])
               => Left[pc'[w]] < Left[pc[w]]]_vars
<1> DEFINE Nearer == \A w \in Writer : pc[w] # "idle" /\ pc'[w] # pc[w]
                        => Left[pc'[w]] < Left[pc[w]]
           Lowers == \A w \in Writer : WriterStep(w) => Left[pc'[w]] < Left[pc[w]]
           Advance == \A w \in Writer :
                        WriterStep(w) \/ (pc[w] # "idle" /\ pc'[w] # pc[w])
                          => Left[pc'[w]] < Left[pc[w]]
<1>1. ASSUME IInv PROVE Lowers
  <2> USE DEF Goto, Left
  <2>0. pc \in [Writer -> Step]
    BY <1>1 DEF IInv, TypeOK
  <2> SUFFICES ASSUME NEW w \in Writer, WriterStep(w)
               PROVE  Left[pc'[w]] < Left[pc[w]]
    OBVIOUS
  <2>1. CASE ReadFails(w) \/ Parse(w)
    BY <2>0, <2>1 DEF ReadFails, Parse
  <2>2. CASE CreateFails(w) \/ Create(w) \/ Write(w) \/ Sync(w)
    BY <2>0, <2>2 DEF CreateFails, Create, Write, Sync
  <2>3. CASE SaveFails(w) \/ Rename(w)
    BY <2>0, <2>3 DEF SaveFails, Rename, Saving
  <2>4. CASE Replace(w) \/ StoreReady(w)
    BY <2>0, <2>4 DEF Replace, StoreReady
  <2> QED
    BY <2>1, <2>2, <2>3, <2>4 DEF WriterStep, SaveStep
<1>2. ASSUME IInv, [Next]_vars PROVE [Nearer]_vars
  <2> USE DEF Goto, Forget, Left, Saving
  <2>0. pc \in [Writer -> Step]
    BY <1>2 DEF IInv, TypeOK
  <2>1. ASSUME NEW w \in Writer, WriterStep(w) PROVE Nearer
    <3>1. CASE ReadFails(w) \/ Parse(w)
      BY <2>0, <3>1 DEF ReadFails, Parse
    <3>2. CASE CreateFails(w) \/ Create(w) \/ Write(w) \/ Sync(w)
      BY <2>0, <3>2 DEF CreateFails, Create, Write, Sync
    <3>3. CASE SaveFails(w) \/ Rename(w)
      BY <2>0, <3>3 DEF SaveFails, Rename
    <3>4. CASE Replace(w) \/ StoreReady(w)
      BY <2>0, <3>4 DEF Replace, StoreReady
    <3> QED
      BY <2>1, <3>1, <3>2, <3>3, <3>4 DEF WriterStep, SaveStep
  <2>2. ASSUME NEW u \in Uploader, Accept(u) \/ FormStep(u) \/ Answer(u)
        PROVE  Nearer
    BY <2>0, <2>2 DEF Accept, FormStep, FormRejected, FormWithoutFile, FormAccepted,
                Answer
  <2>3. ASSUME NEW g \in Getter, Query(g) \/ List(g) \/ Reply(g) PROVE Nearer
    BY <2>3 DEF Query, List, Reply, uploadVars
  <2>4. CASE Listen \/ Signal
    BY <2>0, <2>4 DEF Listen, Signal, uploadVars
  <2>5. CASE Start
    <3>1. pc[Boot] = "idle"
      BY <1>2, <2>5 DEF IInv, Clean, NoStep, Start, Writer
    <3> QED
      BY <2>0, <2>5, <3>1 DEF Start
  <2>6. CASE Drained \/ DrainExpires \/ Kill
    BY <2>0, <2>6 DEF Drained, DrainExpires, Kill, Exit, NoStep, Step, Deciding
  <2> QED
    BY <1>2, <2>1, <2>2, <2>3, <2>4, <2>5, <2>6 DEF Next
<1>3. ASSUME IInv, [Next]_vars PROVE [Advance]_vars
  BY <1>1, <1>2, <1>3
<1> QED
  BY <1>3, Invariance, PTL DEF Spec

\* The service is an atomic register: its uploads and queries, with all their
\* steps, failures and crashes, implement CatalogRegister.
THEOREM Refinement == Spec => Implements
<1>1. Init => Register!Init
  BY InitRegister
<1>2. ASSUME IInv, [Next]_vars PROVE [Register!Next]_(Register!vars)
  BY <1>2, NextRegister DEF IInv
<1> QED
  BY <1>1, <1>2, Invariance, PTL DEF Spec, Implements, Register!Spec
=============================================================================
