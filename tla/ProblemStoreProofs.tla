------------------------- MODULE ProblemStoreProofs ------------------------
(* Theorems about ProblemStore, for all sets of requests and all budgets. *)
EXTENDS ProblemStore, TLAPS

(***************************************************************************)
(* Types.                                                                  *)
(***************************************************************************)

LEMMA SpendKeepsType ==
  ASSUME NEW k \in FaultKind, budget \in [FaultKind -> Nat], Spend(k)
  PROVE  budget' \in [FaultKind -> Nat]
BY SMT DEF Spend, FaultKind

LEMMA GotoKeepsType ==
  ASSUME TypeOK, NEW h \in Handler,
         NEW place \in {"idle", "reading", "upload", "commit", "select",
                        "codes", "list", "wipe", "drop", "end"},
         Goto(h, place)
  PROVE  pc' \in [Handler -> {"idle", "reading", "upload", "commit", "select",
                              "codes", "list", "wipe", "drop", "end"}]
BY DEF TypeOK, Goto

LEMMA BlameKeepsType ==
  ASSUME TypeOK, NEW h \in Handler, NEW m \in Mishap, Blame(h, m)
  PROVE  mishap' \in [Handler -> SUBSET Mishap]
BY DEF TypeOK, Blame

LEMMA DropKeepsType ==
  ASSUME TypeOK, NEW d \in Deleter, NEW also \in SUBSET Mishap, DropMishaps(d, also)
  PROVE  mishap' \in [Handler -> SUBSET Mishap]
BY DEF TypeOK, DropMishaps, Mishap

LEMMA NextKey ==
  ASSUME TypeOK, NEW c \in Creator, uploaded[c] < 2 * Testcases
  PROVE  /\ [by |-> c, file |-> uploaded[c] + 1] \in Key
         /\ uploaded[c] + 1 \in 0..(2 * Testcases)
BY StoreAssumption DEF TypeOK, Key, Files

(* The deletion of an account touches rows of submissions only.            *)
LEMMA AccountFrame ==
  ASSUME TypeOK, NEW own \in SUBSET Submitter, DeleteAccount(own)
  PROVE  /\ UNCHANGED <<problem, objects, codes, pc, uploaded, found, seen, todo, listed>>
         /\ \A h \in Handler : mishap[h] \subseteq mishap'[h]
BY DEF DeleteAccount, locals, TypeOK

LEMMA TypeStep == TypeOK /\ [Next]_vars => TypeOK'
<1> SUFFICES ASSUME TypeOK, [Next]_vars PROVE TypeOK'
  OBVIOUS
<1> USE StoreAssumption
<1>1. ASSUME NEW c \in Creator, CreateStep(c) PROVE TypeOK'
  <2>0. c \in Handler
    BY DEF Handler
  <2>1. CASE CreateBegin(c)
    BY <2>0, <2>1, GotoKeepsType DEF CreateBegin, rows, locals, TypeOK
  <2>2. CASE CreateRejects(c)
    BY <2>0, <2>2, GotoKeepsType DEF CreateRejects, rows, locals, TypeOK
  <2>3. CASE CreateFlush(c)
    <3>1. pc' \in [Handler -> {"idle", "reading", "upload", "commit", "select",
                               "codes", "list", "wipe", "drop", "end"}]
      BY <2>0, <2>3, GotoKeepsType DEF CreateFlush
    <3>2. mishap' \in [Handler -> SUBSET Mishap]
      <4>1. problem # None => problem \in Handler
        BY DEF TypeOK, Handler
      <4>2. "robbed" \in Mishap
        BY DEF Mishap
      <4> QED BY <2>3, <4>1, <4>2, BlameKeepsType DEF CreateFlush, TypeOK
    <3> QED BY <2>3, <3>1, <3>2 DEF CreateFlush, rows, locals, TypeOK
  <2>4. CASE UploadFile(c)
    BY <2>4, NextKey DEF UploadFile, rows, TypeOK
  <2>5. CASE CommitProblem(c)
    BY <2>0, <2>5, GotoKeepsType DEF CommitProblem, locals, TypeOK
  <2> QED BY <1>1, <2>1, <2>2, <2>3, <2>4, <2>5 DEF CreateStep
<1>2. ASSUME NEW h \in Creator \cup Deleter, FolderStep(h) PROVE TypeOK'
  <2>0. h \in Handler /\ AfterFolder(h) \in {"end", "drop"}
    BY DEF Handler, AfterFolder
  <2>1. CASE ListFolder(h)
    <3>1. PICK page \in SUBSET objects :
            /\ UNCHANGED mishap \/ Blame(h, "short")
            /\ listed' = [listed EXCEPT ![h] = page]
            /\ Goto(h, IF page = {} THEN AfterFolder(h) ELSE "wipe")
      BY <2>1 DEF ListFolder
    <3>2. listed' \in [Creator \cup Deleter -> SUBSET Key]
      BY <3>1 DEF TypeOK
    <3>3. mishap' \in [Handler -> SUBSET Mishap]
      BY <2>0, <3>1, BlameKeepsType DEF TypeOK, Mishap
    <3>4. pc' \in [Handler -> {"idle", "reading", "upload", "commit", "select",
                               "codes", "list", "wipe", "drop", "end"}]
      BY <2>0, <3>1, GotoKeepsType
    <3> QED BY <2>1, <3>2, <3>3, <3>4 DEF ListFolder, rows, TypeOK
  <2>2. CASE DeleteListed(h)
    BY <2>0, <2>2, GotoKeepsType DEF DeleteListed, rows, locals, TypeOK
  <2> QED BY <1>2, <2>1, <2>2 DEF FolderStep
<1>3. ASSUME NEW d \in Deleter, DeleteStep(d) PROVE TypeOK'
  <2>0. d \in Handler
    BY DEF Handler
  <2>1. CASE DeleteBegin(d)
    BY <2>0, <2>1, GotoKeepsType DEF DeleteBegin, rows, TypeOK
  <2>2. CASE ReadSubmissions(d)
    BY <2>0, <2>2, GotoKeepsType DEF ReadSubmissions, rows, TypeOK
  <2>3. CASE DeleteCode(d)
    BY <2>3 DEF DeleteCode, rows, TypeOK
  <2>4. CASE CodesDeleted(d)
    BY <2>0, <2>4, GotoKeepsType DEF CodesDeleted, rows, locals, TypeOK
  <2>5. CASE DropRows(d)
    <3>1. mishap' \in [Handler -> SUBSET Mishap]
      BY <2>5, DropKeepsType DEF DropRows
    <3> QED BY <2>0, <2>5, <3>1, GotoKeepsType DEF DropRows, locals, TypeOK
  <2> QED BY <1>3, <2>1, <2>2, <2>3, <2>4, <2>5 DEF DeleteStep
<1>4. ASSUME NEW s \in Submitter, SubmitStep(s) PROVE TypeOK'
  <2>0. s \in Handler
    BY DEF Handler
  <2>1. CASE SubmitBegin(s)
    BY <2>0, <2>1, GotoKeepsType DEF SubmitBegin, rows, locals, TypeOK
  <2>2. CASE UploadCode(s)
    BY <2>0, <2>2, GotoKeepsType DEF UploadCode, rows, locals, TypeOK
  <2>3. CASE CommitSubmission(s)
    <3>1. mishap' \in [Handler -> SUBSET Mishap]
      BY <2>0, <2>3, BlameKeepsType DEF CommitSubmission, Mishap, TypeOK
    <3> QED BY <2>0, <2>3, <3>1, GotoKeepsType DEF CommitSubmission, locals, TypeOK
  <2> QED BY <1>4, <2>1, <2>2, <2>3 DEF SubmitStep
<1>5. CASE FaultStep
  <2>0. /\ "error" \in FaultKind /\ "crash" \in FaultKind
        /\ "raised" \in Mishap /\ "failed" \in Mishap
    BY DEF FaultKind, Mishap
  <2>1. ASSUME NEW c \in Creator, FlushFails(c) PROVE TypeOK'
    <3>1. mishap' \in [Handler -> SUBSET Mishap]
      BY <2>1 DEF FlushFails, Mishap, TypeOK
    <3>2. c \in Handler
      BY DEF Handler
    <3> QED BY <2>0, <2>1, <3>1, <3>2, GotoKeepsType, SpendKeepsType
            DEF FlushFails, rows, locals, TypeOK
  <2>2. ASSUME NEW c \in Creator, UploadFails(c) \/ CommitProblemFails(c) PROVE TypeOK'
    <3>1. c \in Handler
      BY DEF Handler
    <3>2. mishap' \in [Handler -> SUBSET Mishap]
      BY <2>0, <2>2, <3>1, BlameKeepsType DEF UploadFails, CommitProblemFails
    <3>3. objects' \subseteq Key /\ problem' \in Creator \cup {None}
      BY <2>2, NextKey DEF UploadFails, CommitProblemFails, rows, TypeOK
    <3> QED BY <2>0, <2>2, <3>1, <3>2, <3>3, GotoKeepsType, SpendKeepsType
            DEF UploadFails, CommitProblemFails, rows, locals, TypeOK
  <2>3. ASSUME NEW h \in Creator \cup Deleter, ListFails(h) \/ DeleteListedFails(h)
        PROVE  TypeOK'
    <3>1. h \in Handler /\ AfterFolder(h) \in {"end", "drop"}
      BY DEF Handler, AfterFolder
    <3>2. mishap' \in [Handler -> SUBSET Mishap]
      BY <2>0, <2>3, <3>1, BlameKeepsType DEF ListFails, DeleteListedFails
    <3>3. objects' \subseteq Key
      BY <2>3 DEF ListFails, DeleteListedFails, TypeOK
    <3> QED BY <2>0, <2>3, <3>1, <3>2, <3>3, GotoKeepsType, SpendKeepsType
            DEF ListFails, DeleteListedFails, rows, locals, TypeOK
  <2>4. ASSUME NEW d \in Deleter, DeleteCodeFails(d) PROVE TypeOK'
    <3>1. d \in Handler
      BY DEF Handler
    <3>2. mishap' \in [Handler -> SUBSET Mishap]
      BY <2>0, <2>4, <3>1, BlameKeepsType DEF DeleteCodeFails
    <3> QED BY <2>0, <2>4, <3>1, <3>2, GotoKeepsType, SpendKeepsType
            DEF DeleteCodeFails, rows, locals, TypeOK
  <2>5. ASSUME NEW d \in Deleter, DropRowsFails(d) PROVE TypeOK'
    <3>1. d \in Handler
      BY DEF Handler
    <3>2. mishap' \in [Handler -> SUBSET Mishap]
      BY <2>0, <2>5, <3>1, BlameKeepsType, DropKeepsType DEF DropRowsFails
    <3> QED BY <2>0, <2>5, <3>1, <3>2, GotoKeepsType, SpendKeepsType
            DEF DropRowsFails, rows, locals, TypeOK
  <2>6. ASSUME NEW s \in Submitter, UploadCodeFails(s) \/ CommitSubmissionFails(s)
        PROVE  TypeOK'
    <3>1. s \in Handler
      BY DEF Handler
    <3>2. mishap' \in [Handler -> SUBSET Mishap]
      BY <2>0, <2>6, <3>1, BlameKeepsType DEF UploadCodeFails, CommitSubmissionFails
    <3> QED BY <2>0, <2>6, <3>1, <3>2, GotoKeepsType, SpendKeepsType
            DEF UploadCodeFails, CommitSubmissionFails, rows, locals, TypeOK
  <2>7. CASE Crash
    <3>1. mishap' \in [Handler -> SUBSET Mishap]
      BY <2>0, <2>7 DEF Crash, TypeOK
    <3> QED BY <2>0, <2>7, <3>1, SpendKeepsType DEF Crash, rows, locals, TypeOK
  <2> QED BY <1>5, <2>1, <2>2, <2>3, <2>4, <2>5, <2>6, <2>7 DEF FaultStep
<1>6. ASSUME NEW own \in SUBSET Submitter, DeleteAccount(own) PROVE TypeOK'
  BY <1>6 DEF DeleteAccount, Mishap, locals, TypeOK
<1>7. CASE UNCHANGED vars
  BY <1>7 DEF vars, rows, locals, TypeOK
<1> QED BY <1>1, <1>2, <1>3, <1>4, <1>5, <1>6, <1>7 DEF Next

(* Every variable keeps its type; in particular no create uploads beyond   *)
(* the files of its bundle (problems.py:204-221).                          *)
THEOREM TypeCorrect == Spec => []TypeOK
<1>1. Init => TypeOK
  BY StoreAssumption DEF Init, TypeOK
<1> QED BY <1>1, TypeStep, PTL DEF Spec

(***************************************************************************)
(* Submissions and their code.  What a delete has read has ended, and of   *)
(* what it has read only todo[d] still has its code once it deletes.       *)
(***************************************************************************)
CodesInv ==
  /\ \A s \in submissions : pc[s] = "end"
  /\ \A s \in Submitter : pc[s] = "commit" => s \in codes
  /\ \A s \in codes : pc[s] \in {"commit", "end"}
  /\ \A d \in Deleter : todo[d] \subseteq seen[d]
  /\ \A d \in Deleter : \A s \in seen[d] : pc[s] = "end"
  /\ \A d \in Deleter : \A s \in seen[d] \cap codes :
       ~ Wiping(d) /\ (pc[d] = "codes" => s \in todo[d])
  /\ SubmissionReadable
  /\ CodesAccounted

(* Steps that touch no submission and no code object, by a create or by a  *)
(* delete that moves on, or that ends for good or in failure.              *)
LEMMA CodesFrame ==
  ASSUME TypeOK, CodesInv, UNCHANGED <<submissions, codes, seen, todo>>,
         \A h \in Handler : mishap[h] \subseteq mishap'[h],
         \A s \in Submitter : pc'[s] = pc[s],
         \A d \in Deleter :
           \/ pc'[d] = pc[d]
           \/ pc[d] \in {"idle", "select"} /\ pc'[d] \in {"select", "end"}
           \/ Wiping(d) /\ Wiping(d)'
           \/ pc[d] = "codes" /\ todo[d] = {} /\ Wiping(d)'
           \/ pc'[d] = "end" /\ "failed" \in mishap'[d]
  PROVE  CodesInv'
<1> USE DEF Handler
<1>1. /\ \A s \in submissions' : pc'[s] = "end"
      /\ \A s \in Submitter : pc'[s] = "commit" => s \in codes'
      /\ \A s \in codes' : pc'[s] \in {"commit", "end"}
      /\ \A d \in Deleter : todo'[d] \subseteq seen'[d]
      /\ \A d \in Deleter : \A s \in seen'[d] : pc'[s] = "end"
  BY DEF CodesInv, TypeOK
<1>2. ASSUME NEW d \in Deleter, NEW s \in seen'[d] \cap codes'
      PROVE  ~ Wiping(d)' /\ (pc'[d] = "codes" => s \in todo'[d])
  BY <1>2 DEF CodesInv, Wiping
<1>3. SubmissionReadable'
  <2> SUFFICES ASSUME NEW s \in submissions' \ codes'
               PROVE  \E d \in Deleter :
                        /\ s \in seen'[d]
                        /\ \/ pc'[d] \in {"codes", "list", "wipe", "drop"}
                           \/ "failed" \in mishap'[d]
    BY DEF SubmissionReadable, Wiping
  <2>1. PICK d \in Deleter :
          /\ s \in seen[d]
          /\ pc[d] = "codes" \/ Wiping(d) \/ "failed" \in mishap[d]
    BY DEF CodesInv, SubmissionReadable
  <2>2. pc'[d] \in {"codes", "list", "wipe", "drop"} \/ "failed" \in mishap'[d]
    BY <2>1 DEF Wiping
  <2> QED BY <2>1, <2>2
<1>4. CodesAccounted'
  BY DEF CodesInv, CodesAccounted, Busy, TypeOK
<1> QED BY <1>1, <1>2, <1>3, <1>4 DEF CodesInv

LEMMA CodesStep == TypeOK /\ CodesInv /\ [Next]_vars => CodesInv'
<1> SUFFICES ASSUME TypeOK, CodesInv, [Next]_vars PROVE CodesInv'
  OBVIOUS
<1> USE StoreAssumption DEF Handler
<1>1. ASSUME NEW c \in Creator,
             CreateStep(c) \/ FlushFails(c) \/ UploadFails(c) \/ CommitProblemFails(c)
      PROVE  CodesInv'
  <2>1. UNCHANGED <<submissions, codes, seen, todo>>
    BY <1>1 DEF CreateStep, CreateBegin, CreateRejects, CreateFlush, UploadFile,
         CommitProblem, FlushFails, UploadFails, CommitProblemFails, rows, locals
  <2>2. \A h \in Handler : mishap[h] \subseteq mishap'[h]
    BY <1>1 DEF CreateStep, CreateBegin, CreateRejects, CreateFlush, UploadFile,
         CommitProblem, FlushFails, UploadFails, CommitProblemFails, Blame, TypeOK
  <2>3. \A h \in Deleter \cup Submitter : pc'[h] = pc[h]
    BY <1>1 DEF CreateStep, CreateBegin, CreateRejects, CreateFlush, UploadFile,
         CommitProblem, FlushFails, UploadFails, CommitProblemFails, Goto, TypeOK
  <2> QED BY <2>1, <2>2, <2>3, CodesFrame
<1>2. ASSUME NEW h \in Creator \cup Deleter,
             FolderStep(h) \/ ListFails(h) \/ DeleteListedFails(h)
      PROVE  CodesInv'
  <2>1. UNCHANGED <<submissions, codes, seen, todo>>
    BY <1>2 DEF FolderStep, ListFolder, DeleteListed, ListFails, DeleteListedFails,
         rows, locals
  <2>2. \A g \in Handler : mishap[g] \subseteq mishap'[g]
    BY <1>2 DEF FolderStep, ListFolder, DeleteListed, ListFails, DeleteListedFails,
         Blame, TypeOK
  <2>3. \A g \in Handler \ {h} : pc'[g] = pc[g]
    BY <1>2 DEF FolderStep, ListFolder, DeleteListed, ListFails, DeleteListedFails,
         Goto, TypeOK
  <2>4. h \in Deleter =>
          \/ Wiping(h) /\ Wiping(h)'
          \/ pc'[h] = "end" /\ "failed" \in mishap'[h]
    BY <1>2 DEF FolderStep, ListFolder, DeleteListed, ListFails, DeleteListedFails,
         Goto, Blame, AfterFolder, Wiping, TypeOK
  <2> QED BY <2>1, <2>2, <2>3, <2>4, CodesFrame
<1>3. ASSUME NEW d \in Deleter, DeleteBegin(d) \/ CodesDeleted(d) PROVE CodesInv'
  <2>1. UNCHANGED <<submissions, codes, seen, todo, mishap>>
    BY <1>3 DEF DeleteBegin, CodesDeleted, rows, locals
  <2>2. \A g \in Handler \ {d} : pc'[g] = pc[g]
    BY <1>3 DEF DeleteBegin, CodesDeleted, Goto, TypeOK
  <2>3. \/ pc[d] \in {"idle", "select"} /\ pc'[d] \in {"select", "end"}
        \/ pc[d] = "codes" /\ todo[d] = {} /\ Wiping(d)'
    BY <1>3 DEF DeleteBegin, CodesDeleted, Goto, Wiping, TypeOK
  <2> QED BY <2>1, <2>2, <2>3, CodesFrame
<1>4. ASSUME NEW d \in Deleter, ReadSubmissions(d) PROVE CodesInv'
  BY <1>4 DEF ReadSubmissions, CodesInv, SubmissionReadable, CodesAccounted, Wiping,
       Busy, Goto, rows, TypeOK
<1>5. ASSUME NEW d \in Deleter, DeleteCode(d) PROVE CodesInv'
  BY <1>5 DEF DeleteCode, CodesInv, SubmissionReadable, CodesAccounted, Wiping,
       Busy, rows, TypeOK
<1>6. ASSUME NEW d \in Deleter, DeleteCodeFails(d) PROVE CodesInv'
  BY <1>6 DEF DeleteCodeFails, CodesInv, SubmissionReadable, CodesAccounted, Wiping,
       Busy, Goto, Blame, rows, locals, TypeOK
<1>7. ASSUME NEW d \in Deleter, DropRows(d) \/ DropRowsFails(d) PROVE CodesInv'
  <2>0. /\ pc[d] = "drop" /\ pc' = [pc EXCEPT ![d] = "end"]
        /\ UNCHANGED <<codes, seen, todo>>
    BY <1>7 DEF DropRows, DropRowsFails, Goto, locals
  <2>1. CASE UNCHANGED <<problem, submissions>> /\ Blame(d, "failed")
    <3>1. \A h \in Handler : mishap[h] \subseteq mishap'[h]
      BY <2>1 DEF Blame, TypeOK
    <3>2. pc'[d] = "end" /\ "failed" \in mishap'[d]
      BY <2>0, <2>1 DEF Blame, TypeOK
    <3>3. \A h \in Handler \ {d} : pc'[h] = pc[h]
      BY <2>0 DEF TypeOK
    <3> QED BY <2>0, <2>1, <3>1, <3>2, <3>3, CodesFrame DEF rows
  <2>2. ASSUME NEW also, submissions' = {}, DropMishaps(d, also) PROVE CodesInv'
    <3>1. /\ \A s \in Submitter : pc'[s] = pc[s] /\ mishap[s] \subseteq mishap'[s]
          /\ \A s \in Submitter : s \in submissions \ seen[d] => "unseen" \in mishap'[s]
      BY <2>0, <2>2 DEF DropMishaps, Unseen, TypeOK
    <3>2. \A s \in seen[d] : s \notin codes
      BY <2>0 DEF CodesInv, Wiping
    <3>3. CodesAccounted'
      BY <2>0, <2>2, <3>1, <3>2 DEF CodesInv, CodesAccounted, Busy, TypeOK
    <3>4. ASSUME NEW e \in Deleter, NEW s \in seen'[e] \cap codes'
          PROVE  ~ Wiping(e)' /\ (pc'[e] = "codes" => s \in todo'[e])
      BY <2>0, <3>4 DEF CodesInv, Wiping, TypeOK
    <3>5. SubmissionReadable'
      BY <2>2 DEF SubmissionReadable
    <3> QED BY <2>0, <2>2, <3>1, <3>3, <3>4, <3>5 DEF CodesInv, TypeOK
  <2> QED BY <1>7, <2>1, <2>2 DEF DropRows, DropRowsFails
<1>8. ASSUME NEW s \in Submitter, SubmitBegin(s) PROVE CodesInv'
  BY <1>8 DEF SubmitBegin, CodesInv, SubmissionReadable, CodesAccounted, Wiping, Busy,
       Goto, rows, locals, TypeOK
<1>9. ASSUME NEW s \in Submitter, UploadCode(s) \/ UploadCodeFails(s) PROVE CodesInv'
  <2>1. /\ pc[s] = "upload" /\ UNCHANGED <<submissions, seen, todo>>
        /\ codes \subseteq codes' /\ codes' \subseteq codes \cup {s}
        /\ \A h \in Handler \ {s} : pc'[h] = pc[h] /\ mishap'[h] = mishap[h]
        /\ \/ pc'[s] = "commit" /\ s \in codes'
           \/ pc'[s] = "end" /\ "failed" \in mishap'[s]
    BY <1>9 DEF UploadCode, UploadCodeFails, Goto, Blame, rows, locals, TypeOK
  <2>2. s \notin submissions /\ \A d \in Deleter : s \notin seen[d]
    BY <2>1 DEF CodesInv
  <2>3. CodesAccounted'
    BY <2>1 DEF CodesInv, CodesAccounted, Busy, TypeOK
  <2>4. SubmissionReadable'
    BY <2>1, <2>2 DEF CodesInv, SubmissionReadable, Wiping, TypeOK
  <2> QED BY <2>1, <2>2, <2>3, <2>4 DEF CodesInv, Wiping, TypeOK
<1>10. ASSUME NEW s \in Submitter, CommitSubmission(s) \/ CommitSubmissionFails(s)
       PROVE  CodesInv'
  <2>1. /\ pc[s] = "commit" /\ pc'[s] = "end" /\ UNCHANGED <<codes, seen, todo>>
        /\ submissions \subseteq submissions' /\ submissions' \subseteq submissions \cup {s}
        /\ \A h \in Handler \ {s} : pc'[h] = pc[h] /\ mishap'[h] = mishap[h]
    BY <1>10 DEF CommitSubmission, CommitSubmissionFails, Goto, Blame, rows, locals, TypeOK
  <2>0. s \in submissions' \/ "refused" \in mishap'[s] \/ "failed" \in mishap'[s]
    BY <1>10 DEF CommitSubmission, CommitSubmissionFails, Blame, TypeOK
  <2>2. s \in codes
    BY <2>1 DEF CodesInv
  <2>3. CodesAccounted'
    BY <2>0, <2>1 DEF CodesInv, CodesAccounted, Busy, TypeOK
  <2>4. SubmissionReadable'
    BY <2>1, <2>2 DEF CodesInv, SubmissionReadable, Wiping, TypeOK
  <2> QED BY <2>1, <2>2, <2>3, <2>4 DEF CodesInv, Wiping, TypeOK
<1>11. CASE Crash
  BY <1>11 DEF Crash, CodesInv, SubmissionReadable, CodesAccounted, Wiping, Busy,
       rows, locals, TypeOK
<1>12. ASSUME NEW own \in SUBSET Submitter, DeleteAccount(own) PROVE CodesInv'
  <2>1. /\ submissions' = submissions \ own /\ UNCHANGED <<codes, seen, todo, pc>>
        /\ \A h \in Handler : mishap[h] \subseteq mishap'[h]
        /\ \A s \in submissions \cap own : "orphaned" \in mishap'[s]
    BY <1>12 DEF DeleteAccount, locals, TypeOK
  <2>2. CodesAccounted'
    BY <2>1 DEF CodesInv, CodesAccounted, Busy, TypeOK
  <2>3. SubmissionReadable'
    BY <2>1 DEF CodesInv, SubmissionReadable, Wiping, TypeOK
  <2> QED BY <2>1, <2>2, <2>3 DEF CodesInv, Wiping
<1>13. CASE UNCHANGED vars
  BY <1>13, CodesFrame DEF vars, rows, locals
<1> QED BY <1>1, <1>2, <1>3, <1>4, <1>5, <1>6, <1>7, <1>8, <1>9, <1>10,
        <1>11, <1>12, <1>13
        DEF Next, DeleteStep, SubmitStep, FaultStep

LEMMA CodesInvariant == Spec => [](TypeOK /\ CodesInv)
<1>1. Init => TypeOK /\ CodesInv
  BY StoreAssumption DEF Init, TypeOK, CodesInv, SubmissionReadable, CodesAccounted,
     Wiping, Handler
<1> QED BY <1>1, TypeStep, CodesStep, PTL DEF Spec

(* A submission's row has its code object except between the deletions of  *)
(* delete_problem and its commit (problems.py:253-259).                    *)
THEOREM SubmissionsReadable == Spec => []SubmissionReadable
BY CodesInvariant, PTL DEF CodesInv

(* A code object without a row has one of the named causes                 *)
(* (submissions.py:27-41, problems.py:252-258).                            *)
THEOREM CodesAreAccounted == Spec => []CodesAccounted
BY CodesInvariant, PTL DEF CodesInv

(***************************************************************************)
(* The folder.  While a create works the row is either absent, its own or  *)
(* one it robs; a delete has read a row whose create no longer uploads, so *)
(* that its listing, when it fits a page, has all that create's objects.   *)
(***************************************************************************)
Working(c) == pc[c] \notin {"idle", "reading", "end"}
Uploaded(c) == {k \in Key : k.by = c /\ k.file <= uploaded[c]}
Settled(c) == pc[c] \in {"list", "wipe", "end"}

LoopInv ==
  /\ \A c, b \in Creator : Working(c) /\ Working(b) => c = b
  /\ \A c \in Creator : pc[c] \in {"idle", "reading", "upload", "list", "wipe", "end"}
  /\ \A c \in Creator : pc[c] = "upload" => problem = None
  /\ \A c \in Creator : pc[c] \in {"list", "wipe"} =>
       problem = None \/ mishap[problem] \cap {"raised", "robbed"} # {}
  /\ problem # None => Settled(problem)
  /\ \A d \in Deleter : Busy(d) => found[d] \in Creator /\ Settled(found[d])

(* Steps of the other requests: no create moves and no row appears.        *)
LEMMA LoopFrame ==
  ASSUME TypeOK, LoopInv, UNCHANGED found, problem' \in {problem, None},
         \A c \in Creator : pc'[c] = pc[c] /\ mishap[c] \subseteq mishap'[c],
         \A d \in Deleter : Busy(d)' => Busy(d)
  PROVE  LoopInv'
BY StoreAssumption DEF LoopInv, Working, Settled, Busy, TypeOK, Handler

LEMMA LoopStep == TypeOK /\ LoopInv /\ [Next]_vars => LoopInv'
<1> SUFFICES ASSUME TypeOK, LoopInv, [Next]_vars PROVE LoopInv'
  OBVIOUS
<1> USE StoreAssumption DEF Handler
<1>1. ASSUME NEW c \in Creator, CreateBegin(c) \/ CreateRejects(c) PROVE LoopInv'
  BY <1>1 DEF CreateBegin, CreateRejects, LoopInv, LoopFree, Working, Settled, Busy, Goto,
       rows, locals, TypeOK
<1>2. ASSUME NEW c \in Creator, CreateFlush(c) PROVE LoopInv'
  <2>1. /\ \A b \in Creator : ~ Working(b)
        /\ UNCHANGED <<problem, found>>
        /\ \A h \in Handler \ {c} : pc'[h] = pc[h]
    BY <1>2 DEF CreateFlush, LoopFree, Working, Goto, rows, locals, TypeOK
  <2>2. CASE problem = None /\ pc'[c] = "upload" /\ UNCHANGED mishap
    BY <1>2, <2>1, <2>2 DEF LoopInv, Working, Settled, Busy, CreateFlush, TypeOK
  <2>3. CASE problem # None /\ pc'[c] = "list" /\ "robbed" \in mishap'[problem]
    BY <1>2, <2>1, <2>3 DEF LoopInv, Working, Settled, Busy, CreateFlush, TypeOK
  <2>4. problem # None => problem \in Handler
    BY DEF TypeOK
  <2> QED BY <1>2, <2>2, <2>3, <2>4 DEF CreateFlush, Goto, Blame, TypeOK
<1>3. ASSUME NEW c \in Creator, FlushFails(c) PROVE LoopInv'
  BY <1>3 DEF FlushFails, LoopInv, LoopFree, Working, Settled, Busy, Goto, Blame,
       rows, locals, TypeOK
<1>4. ASSUME NEW c \in Creator, UploadFile(c) PROVE LoopInv'
  BY <1>4, LoopFrame DEF UploadFile, Busy, rows
<1>5. ASSUME NEW c \in Creator, UploadFails(c) \/ CommitProblemFails(c) PROVE LoopInv'
  <2>1. /\ pc[c] = "upload" /\ pc'[c] = "list" /\ UNCHANGED found
        /\ problem' \in {problem, c} /\ "raised" \in mishap'[c]
        /\ \A h \in Handler \ {c} : pc'[h] = pc[h]
    BY <1>5 DEF UploadFails, CommitProblemFails, Goto, Blame, rows, locals, TypeOK
  <2>2. problem = None /\ \A b \in Creator \ {c} : ~ Working(b)
    BY <2>1 DEF LoopInv, Working
  <2> QED BY <2>1, <2>2 DEF LoopInv, Working, Settled, Busy, TypeOK
<1>6. ASSUME NEW c \in Creator, CommitProblem(c) PROVE LoopInv'
  BY <1>6 DEF CommitProblem, LoopInv, Working, Settled, Busy, Goto, rows, locals, TypeOK
<1>7. ASSUME NEW h \in Creator \cup Deleter,
             FolderStep(h) \/ ListFails(h) \/ DeleteListedFails(h)
      PROVE  LoopInv'
  <2>1. /\ pc[h] \in {"list", "wipe"}
        /\ pc'[h] \in {"wipe", "end"} \/ h \in Deleter
        /\ \A g \in Handler \ {h} : pc'[g] = pc[g]
        /\ UNCHANGED <<problem, found>>
    BY <1>7 DEF FolderStep, ListFolder, DeleteListed, ListFails, DeleteListedFails,
         AfterFolder, Goto, rows, locals, TypeOK
  <2>2. \A g \in Handler : mishap[g] \subseteq mishap'[g]
    BY <1>7 DEF FolderStep, ListFolder, DeleteListed, ListFails, DeleteListedFails,
         Blame, TypeOK
  <2> QED BY <2>1, <2>2 DEF LoopInv, Working, Settled, Busy, TypeOK
<1>8. ASSUME NEW d \in Deleter, DeleteBegin(d) PROVE LoopInv'
  BY <1>8 DEF DeleteBegin, LoopInv, Working, Settled, Busy, Goto, rows, TypeOK
<1>9. ASSUME NEW d \in Deleter,
             \/ ReadSubmissions(d) \/ DeleteCode(d) \/ CodesDeleted(d)
             \/ DropRows(d) \/ DeleteCodeFails(d) \/ DropRowsFails(d)
      PROVE  LoopInv'
  <2>1. /\ UNCHANGED found /\ problem' \in {problem, None} /\ Busy(d)
        /\ \A h \in Handler \ {d} : pc'[h] = pc[h]
    BY <1>9 DEF ReadSubmissions, DeleteCode, CodesDeleted, DropRows, DeleteCodeFails,
         DropRowsFails, Goto, Busy, rows, locals, TypeOK
  <2>2. \A h \in Handler : mishap[h] \subseteq mishap'[h]
    BY <1>9 DEF ReadSubmissions, DeleteCode, CodesDeleted, DropRows, DeleteCodeFails,
         DropRowsFails, Blame, DropMishaps, TypeOK
  <2> QED BY <2>1, <2>2, LoopFrame DEF Busy
<1>10. ASSUME NEW s \in Submitter,
              SubmitStep(s) \/ UploadCodeFails(s) \/ CommitSubmissionFails(s)
       PROVE  LoopInv'
  <2>1. /\ UNCHANGED <<found, problem>>
        /\ \A h \in Handler \ {s} : pc'[h] = pc[h] /\ mishap'[h] = mishap[h]
    BY <1>10 DEF SubmitStep, SubmitBegin, UploadCode, CommitSubmission, UploadCodeFails,
         CommitSubmissionFails, Goto, Blame, rows, locals, TypeOK
  <2> QED BY <2>1, LoopFrame DEF Busy
<1>11. CASE Crash
  BY <1>11 DEF Crash, LoopInv, Working, Settled, Busy, rows, locals, TypeOK
<1>12. ASSUME NEW own \in SUBSET Submitter, DeleteAccount(own) PROVE LoopInv'
  BY <1>12, AccountFrame, LoopFrame DEF Busy
<1>13. CASE UNCHANGED vars
  BY <1>13, LoopFrame DEF vars, rows, locals, Busy
<1> QED BY <1>1, <1>2, <1>3, <1>4, <1>5, <1>6, <1>7, <1>8, <1>9, <1>10, <1>11, <1>12,
        <1>13
        DEF Next, CreateStep, DeleteStep, FaultStep

LEMMA LoopInvariant == Spec => [](TypeOK /\ LoopInv)
<1>1. Init => TypeOK /\ LoopInv
  BY StoreAssumption DEF Init, TypeOK, LoopInv, Working, Settled, Busy, Handler
<1> QED BY <1>1, TypeStep, LoopStep, PTL DEF Spec

(***************************************************************************)
(* The row's objects: what a create has uploaded is there when it commits, *)
(* or a delete of an older row took it.                                    *)
(***************************************************************************)
TestsInv ==
  /\ \A c \in Creator : pc[c] \in {"idle", "reading"} => uploaded[c] = 0
  /\ \A c \in Creator : pc[c] = "upload" => Uploaded(c) \subseteq objects \/ ExcusedDelete
  /\ TestsPresent

(* An excuse stays one, unless its delete drops the rows. *)
LEMMA ExcuseStays ==
  ASSUME TypeOK, ExcusedDelete,
         \A d \in Deleter : mishap[d] \subseteq mishap'[d],
         \A d \in Deleter : Wiping(d) =>
           pc'[d] \in {"list", "wipe", "drop"} \/ mishap'[d] \cap {"failed", "outrun"} # {}
  PROVE  ExcusedDelete'
<1>1. PICK d \in Deleter : Wiping(d) \/ mishap[d] \cap {"failed", "outrun"} # {}
  BY DEF ExcusedDelete
<1>2. pc'[d] \in {"list", "wipe", "drop"} \/ mishap'[d] \cap {"failed", "outrun"} # {}
  BY <1>1
<1> QED BY <1>2 DEF ExcusedDelete, Wiping

LEMMA TestsFrame ==
  ASSUME TypeOK, TestsInv, UNCHANGED uploaded, problem' \in {problem, None},
         \A h \in Handler : mishap[h] \subseteq mishap'[h],
         ExcusedDelete => ExcusedDelete', objects \subseteq objects',
         \A c \in Creator : \/ pc'[c] = pc[c]
                            \/ pc'[c] = "reading" /\ pc[c] = "idle"
                            \/ pc'[c] \in {"list", "wipe", "end"}
  PROVE  TestsInv'
<1>1. \A c \in Creator : pc'[c] = "upload" => Uploaded(c)' \subseteq objects' \/ ExcusedDelete'
  BY DEF TestsInv, Uploaded
<1>2. TestsPresent'
  BY DEF TestsInv, TestsPresent, Intact, Bundle, TypeOK, Handler
<1>3. \A c \in Creator : pc'[c] \in {"idle", "reading"} => uploaded'[c] = 0
  BY DEF TestsInv
<1> QED BY <1>1, <1>2, <1>3 DEF TestsInv

LEMMA TestsStep == TypeOK /\ LoopInv /\ TestsInv /\ [Next]_vars => TestsInv'
<1> SUFFICES ASSUME TypeOK, LoopInv, TestsInv, [Next]_vars PROVE TestsInv'
  OBVIOUS
<1> USE StoreAssumption DEF Handler
<1>1. ASSUME NEW c \in Creator,
             CreateBegin(c) \/ CreateRejects(c) \/ FlushFails(c) \/ UploadFails(c)
      PROVE  TestsInv'
  <2>1. /\ UNCHANGED <<uploaded, problem>> /\ objects \subseteq objects'
        /\ \A h \in Handler \ {c} : pc'[h] = pc[h]
        /\ \/ pc'[c] = "reading" /\ pc[c] = "idle"
           \/ pc'[c] \in {"list", "end"}
    BY <1>1 DEF CreateBegin, CreateRejects, FlushFails, UploadFails, Goto, rows, locals, TypeOK
  <2>2. \A h \in Handler : mishap[h] \subseteq mishap'[h]
    BY <1>1 DEF CreateBegin, CreateRejects, FlushFails, UploadFails, Blame, TypeOK
  <2>3. ExcusedDelete => ExcusedDelete'
    BY <2>1, <2>2, ExcuseStays DEF Wiping
  <2> QED BY <2>1, <2>2, <2>3, TestsFrame
<1>2. ASSUME NEW c \in Creator, CreateFlush(c) PROVE TestsInv'
  <2>1. /\ UNCHANGED <<uploaded, problem, objects>> /\ pc[c] = "reading"
        /\ pc'[c] \in {"upload", "list"}
        /\ \A h \in Handler \ {c} : pc'[h] = pc[h]
        /\ \A b \in Creator : ~ Working(b)
    BY <1>2 DEF CreateFlush, LoopFree, Working, Goto, rows, locals, TypeOK
  <2>2. \A h \in Handler : mishap[h] \subseteq mishap'[h]
    BY <1>2 DEF CreateFlush, Blame, TypeOK
  <2>3. ExcusedDelete => ExcusedDelete'
    BY <2>1, <2>2, ExcuseStays DEF Wiping
  <2>4. uploaded[c] = 0 /\ Uploaded(c)' = {}
    BY <2>1 DEF TestsInv, Uploaded, Key, Files
  <2>5. \A b \in Creator : pc'[b] = "upload" => Uploaded(b)' \subseteq objects' \/ ExcusedDelete'
    BY <2>1, <2>4 DEF Working
  <2>6. TestsPresent'
    BY <2>1, <2>2, <2>3 DEF TestsInv, TestsPresent, Intact, Bundle, TypeOK
  <2>7. \A b \in Creator : pc'[b] \in {"idle", "reading"} => uploaded'[b] = 0
    BY <2>1 DEF TestsInv
  <2> QED BY <2>5, <2>6, <2>7 DEF TestsInv
<1>3. ASSUME NEW c \in Creator, UploadFile(c) PROVE TestsInv'
  <2>1. /\ UNCHANGED <<pc, mishap, problem>> /\ pc[c] = "upload"
        /\ objects' = objects \cup {[by |-> c, file |-> uploaded[c] + 1]}
        /\ uploaded' = [uploaded EXCEPT ![c] = uploaded[c] + 1]
    BY <1>3 DEF UploadFile, rows
  <2>2. ExcusedDelete => ExcusedDelete'
    BY <2>1 DEF ExcusedDelete, Wiping
  <2>3. uploaded'[c] = uploaded[c] + 1 /\ \A b \in Creator \ {c} : uploaded'[b] = uploaded[b]
    BY <2>1 DEF TypeOK
  <2>4. ASSUME Uploaded(c) \subseteq objects, NEW k \in Uploaded(c)' PROVE k \in objects'
    <3>1. k \in Key /\ k.by = c /\ k.file \in Int /\ k.file <= uploaded[c] + 1
      BY <2>3, <2>4 DEF Uploaded, Key, Files
    <3>2. uploaded[c] \in Int
      BY DEF TypeOK
    <3>3. CASE k.file <= uploaded[c]
      BY <2>1, <2>4, <3>1, <3>3 DEF Uploaded
    <3>4. CASE k.file = uploaded[c] + 1
      BY <2>1, <3>1, <3>4 DEF Key
    <3> QED BY <3>1, <3>2, <3>3, <3>4
  <2>5. \A b \in Creator : pc'[b] = "upload" => b = c
    BY <2>1 DEF LoopInv, Working
  <2>6. Uploaded(c) \subseteq objects \/ ExcusedDelete
    BY <2>1 DEF TestsInv
  <2>7. \A b \in Creator : pc'[b] = "upload" => Uploaded(b)' \subseteq objects' \/ ExcusedDelete'
    BY <2>2, <2>4, <2>5, <2>6
  <2>8. TestsPresent'
    BY <2>1, <2>2 DEF TestsInv, TestsPresent, Intact, Bundle
  <2>9. \A b \in Creator : pc'[b] \in {"idle", "reading"} => uploaded'[b] = 0
    BY <2>1, <2>3 DEF TestsInv
  <2> QED BY <2>7, <2>8, <2>9 DEF TestsInv
<1>4. ASSUME NEW c \in Creator, CommitProblem(c) \/ CommitProblemFails(c) PROVE TestsInv'
  <2>1. /\ UNCHANGED <<uploaded, objects>> /\ pc[c] = "upload"
        /\ uploaded[c] = 2 * Testcases
        /\ pc'[c] \in {"list", "end"} /\ problem' \in {problem, c}
        /\ \A h \in Handler \ {c} : pc'[h] = pc[h]
    BY <1>4 DEF CommitProblem, CommitProblemFails, Goto, rows, locals, TypeOK
  <2>2. \A h \in Handler : mishap[h] \subseteq mishap'[h]
    BY <1>4 DEF CommitProblem, CommitProblemFails, Blame, TypeOK
  <2>3. ExcusedDelete => ExcusedDelete'
    BY <2>1, <2>2, ExcuseStays DEF Wiping
  <2>4. problem = None /\ \A b \in Creator : pc'[b] # "upload"
    BY <2>1 DEF LoopInv, Working
  <2>5. Bundle(c) = Uploaded(c)
    BY <2>1 DEF Bundle, Uploaded, Key, Files
  <2>6. TestsPresent'
    BY <2>1, <2>3, <2>4, <2>5 DEF TestsInv, TestsPresent, Intact, Bundle
  <2>7. \A b \in Creator : pc'[b] \in {"idle", "reading"} => uploaded'[b] = 0
    BY <2>1 DEF TestsInv
  <2> QED BY <2>4, <2>6, <2>7 DEF TestsInv
<1>5. ASSUME NEW h \in Creator \cup Deleter, ListFolder(h) \/ ListFails(h) PROVE TestsInv'
  <2>1. /\ UNCHANGED <<uploaded, problem, objects>> /\ pc[h] = "list"
        /\ \A g \in Handler \ {h} : pc'[g] = pc[g]
        /\ h \in Creator => pc'[h] \in {"wipe", "end"}
        /\ h \in Deleter => pc'[h] \in {"wipe", "drop"} \/ "failed" \in mishap'[h]
    BY <1>5 DEF ListFolder, ListFails, AfterFolder, Goto, Blame, rows, locals, TypeOK
  <2>2. \A g \in Handler : mishap[g] \subseteq mishap'[g]
    BY <1>5 DEF ListFolder, ListFails, Blame, TypeOK
  <2>3. ExcusedDelete => ExcusedDelete'
    BY <2>1, <2>2, ExcuseStays DEF Wiping
  <2>4. \A c \in Creator : pc'[c] = pc[c] \/ pc'[c] \in {"wipe", "end"}
    BY <2>1
  <2> QED BY <2>1, <2>2, <2>3, <2>4, TestsFrame
<1>6. ASSUME NEW h \in Creator \cup Deleter, DeleteListed(h) \/ DeleteListedFails(h)
      PROVE  TestsInv'
  <2>1. /\ UNCHANGED <<uploaded, problem>> /\ pc[h] = "wipe"
        /\ \A g \in Handler \ {h} : pc'[g] = pc[g]
        /\ h \in Creator => pc'[h] = "end"
        /\ h \in Deleter => pc'[h] = "drop" \/ "failed" \in mishap'[h]
    BY <1>6 DEF DeleteListed, DeleteListedFails, AfterFolder, Goto, Blame, rows, locals, TypeOK
  <2>2. \A g \in Handler : mishap[g] \subseteq mishap'[g]
    BY <1>6 DEF DeleteListed, DeleteListedFails, Blame, TypeOK
  <2>3. \A b \in Creator : pc'[b] \in {"idle", "reading"} => uploaded'[b] = 0
    BY <2>1 DEF TestsInv
  <2>4. CASE h \in Creator
    <3>1. \A b \in Creator : pc'[b] # "upload"
      BY <2>1, <2>4 DEF LoopInv, Working
    <3>2. problem = None \/ mishap'[problem] \cap {"raised", "robbed"} # {}
      BY <2>1, <2>2, <2>4 DEF LoopInv, TypeOK
    <3>3. TestsPresent'
      BY <2>1, <3>2 DEF TestsPresent, Intact
    <3> QED BY <2>3, <3>1, <3>3 DEF TestsInv
  <2>5. CASE h \in Deleter
    <3>1. ExcusedDelete'
      BY <2>1, <2>5 DEF ExcusedDelete, Wiping
    <3> QED BY <2>3, <3>1 DEF TestsInv, TestsPresent
  <2> QED BY <2>4, <2>5
<1>7. ASSUME NEW d \in Deleter,
             \/ DeleteBegin(d) \/ ReadSubmissions(d) \/ DeleteCode(d) \/ CodesDeleted(d)
             \/ DeleteCodeFails(d)
      PROVE  TestsInv'
  <2>1. /\ UNCHANGED <<uploaded, problem, objects>> /\ ~ Wiping(d)
        /\ \A h \in Handler \ {d} : pc'[h] = pc[h]
    BY <1>7 DEF DeleteBegin, ReadSubmissions, DeleteCode, CodesDeleted, DeleteCodeFails,
         Wiping, Goto, rows, locals, TypeOK
  <2>2. \A h \in Handler : mishap[h] \subseteq mishap'[h]
    BY <1>7 DEF DeleteBegin, ReadSubmissions, DeleteCode, CodesDeleted, DeleteCodeFails,
         Blame, TypeOK
  <2>3. ExcusedDelete => ExcusedDelete'
    BY <2>1, <2>2, ExcuseStays DEF Wiping
  <2> QED BY <2>1, <2>2, <2>3, TestsFrame
<1>8. ASSUME NEW d \in Deleter, DropRows(d) \/ DropRowsFails(d) PROVE TestsInv'
  <2>1. /\ UNCHANGED <<uploaded, objects>> /\ pc[d] = "drop"
        /\ problem' \in {problem, None}
        /\ \A h \in Handler \ {d} : pc'[h] = pc[h]
    BY <1>8 DEF DropRows, DropRowsFails, Goto, rows, locals, TypeOK
  <2>2. \A h \in Handler : mishap[h] \subseteq mishap'[h]
    BY <1>8 DEF DropRows, DropRowsFails, DropMishaps, Blame, TypeOK
  <2>3. CASE \A c \in Creator : pc[c] # "upload"
    <3>1. problem' = None \/ "failed" \in mishap'[d]
      <4>1. Blame(d, "failed") => "failed" \in mishap'[d]
        BY DEF Blame, TypeOK
      <4> QED BY <1>8, <4>1 DEF DropRows, DropRowsFails
    <3>2. TestsPresent'
      BY <3>1 DEF TestsPresent, Intact, ExcusedDelete
    <3> QED BY <2>1, <2>3, <3>2 DEF TestsInv
  <2>4. CASE \E c \in Creator : pc[c] = "upload"
    <3>1. problem = None /\ found[d] # None
      BY <2>1, <2>4 DEF LoopInv, Busy, TypeOK
    <3>2. mishap'[d] \cap {"failed", "outrun"} # {}
      <4>1. Blame(d, "failed") => "failed" \in mishap'[d]
        BY DEF Blame, TypeOK
      <4>2. ASSUME NEW also, DropMishaps(d, also) PROVE "outrun" \in mishap'[d]
        BY <3>1, <4>2 DEF DropMishaps
      <4> QED BY <1>8, <4>1, <4>2 DEF DropRows, DropRowsFails
    <3>3. ExcusedDelete'
      BY <3>2 DEF ExcusedDelete
    <3> QED BY <2>1, <2>2, <3>3, TestsFrame
  <2> QED BY <2>3, <2>4
<1>9. ASSUME NEW s \in Submitter,
             SubmitStep(s) \/ UploadCodeFails(s) \/ CommitSubmissionFails(s)
      PROVE  TestsInv'
  <2>1. /\ UNCHANGED <<uploaded, problem, objects>>
        /\ \A h \in Handler \ {s} : pc'[h] = pc[h]
    BY <1>9 DEF SubmitStep, SubmitBegin, UploadCode, CommitSubmission, UploadCodeFails,
         CommitSubmissionFails, Goto, rows, locals, TypeOK
  <2>2. \A h \in Handler : mishap[h] \subseteq mishap'[h]
    BY <1>9 DEF SubmitStep, SubmitBegin, UploadCode, CommitSubmission, UploadCodeFails,
         CommitSubmissionFails, Blame, TypeOK
  <2>3. ExcusedDelete => ExcusedDelete'
    BY <2>1, <2>2, ExcuseStays DEF Wiping
  <2> QED BY <2>1, <2>2, <2>3, TestsFrame
<1>10. CASE Crash
  <2>1. /\ UNCHANGED <<uploaded, problem, objects>>
        /\ \A h \in Handler : mishap[h] \subseteq mishap'[h]
        /\ \A h \in Handler : pc'[h] \in {"idle", "end"}
        /\ \A h \in Handler : pc'[h] = "idle" => pc[h] = "idle"
        /\ \A h \in Handler : Busy(h) => "failed" \in mishap'[h]
    BY <1>10 DEF Crash, Busy, rows, locals, TypeOK
  <2>2. ExcusedDelete => ExcusedDelete'
    BY <2>1, ExcuseStays DEF Wiping, Busy
  <2>3. \A c \in Creator : pc'[c] = pc[c] \/ pc'[c] = "end"
    BY <2>1
  <2> QED BY <2>1, <2>2, <2>3, TestsFrame
<1>11. ASSUME NEW own \in SUBSET Submitter, DeleteAccount(own) PROVE TestsInv'
  <2>1. ExcusedDelete => ExcusedDelete'
    BY <1>11, AccountFrame, ExcuseStays DEF Wiping
  <2> QED BY <1>11, <2>1, AccountFrame, TestsFrame
<1>12. CASE UNCHANGED vars
  BY <1>12 DEF vars, rows, locals, TestsInv, Uploaded, TestsPresent, ExcusedDelete,
     Wiping, Intact, Bundle
<1> QED BY <1>1, <1>2, <1>3, <1>4, <1>5, <1>6, <1>7, <1>8, <1>9, <1>10, <1>11, <1>12
        DEF Next, CreateStep, FolderStep, DeleteStep, FaultStep

(* A committed problem has its test objects but for the named deletes and  *)
(* clean-ups (problems.py:199-259).                                        *)
THEOREM TestsArePresent == Spec => []TestsPresent
<1>1. Init => TestsInv
  BY StoreAssumption DEF Init, TestsInv, Handler, TestsPresent, Intact
<1>2. TestsInv => TestsPresent
  BY DEF TestsInv
<1> QED BY <1>1, <1>2, LoopInvariant, TestsStep, PTL DEF Spec

(***************************************************************************)
(* The folder's objects: what a clean-up of h is to take of create c.      *)
(***************************************************************************)
Clears(h, c) ==
  /\ pc[h] = "wipe" /\ "short" \notin mishap[h] =>
       \A k \in objects : k.by = c => k \in listed[h]
  /\ pc[h] = "drop" /\ mishap[h] \cap {"short", "failed"} = {} =>
       \A k \in objects : k.by # c

LitterInv ==
  /\ \A k \in objects : pc[k.by] \notin {"idle", "reading"}
  /\ \A c \in Creator : Clears(c, c)
  /\ \A d \in Deleter : Clears(d, found[d])
  /\ NoLitter

(* Steps that neither add nor list objects, nor drop rows.                 *)
LEMMA LitterFrame ==
  ASSUME TypeOK, LoopInv, LitterInv, UNCHANGED <<objects, listed, problem>>,
         \A h \in Handler : mishap[h] \subseteq mishap'[h],
         \A h \in Creator \cup Deleter : pc'[h] = pc[h] \/ pc'[h] \notin {"wipe", "drop"},
         \A d \in Deleter : found'[d] = found[d] \/ pc'[d] \notin {"wipe", "drop"},
         \A c \in Creator :
           \/ pc'[c] = pc[c]
           \/ pc[c] \in {"idle", "reading"}
           \/ Busy(c) /\ pc'[c] \in {"upload", "list"}
           \/ pc'[c] = "end" /\ "failed" \in mishap'[c]
  PROVE  LitterInv'
<1> USE DEF Handler
<1>0. \A k \in objects : k.by \in Creator
  BY DEF TypeOK, Key
<1>1. \A k \in objects' : pc'[k.by] \notin {"idle", "reading"}
  BY <1>0 DEF LitterInv, TypeOK
<1>2. ASSUME NEW c \in Creator PROVE Clears(c, c)'
  BY DEF LitterInv, Clears
<1>3. ASSUME NEW d \in Deleter PROVE Clears(d, found[d])'
  BY DEF LitterInv, Clears
<1>4. NoLitter'
  <2> SUFFICES ASSUME NEW k \in objects
               PROVE  \/ k.by = problem \/ Busy(k.by)'
                      \/ mishap'[k.by] \cap {"failed", "short"} # {}
                      \/ \E d \in Deleter : mishap'[d] \cap {"failed", "short", "outrun"} # {}
    BY DEF NoLitter
  <2>1. \/ k.by = problem \/ Busy(k.by)
        \/ mishap[k.by] \cap {"failed", "short"} # {}
        \/ \E d \in Deleter : mishap[d] \cap {"failed", "short", "outrun"} # {}
    BY DEF LitterInv, NoLitter
  <2>2. pc[k.by] \notin {"idle", "reading"}
    BY DEF LitterInv
  <2>3. Busy(k.by) => Busy(k.by)' \/ "failed" \in mishap'[k.by]
    BY <1>0, <2>2 DEF Busy
  <2> QED BY <1>0, <2>1, <2>3
<1> QED BY <1>1, <1>2, <1>3, <1>4 DEF LitterInv

LEMMA LitterStep == TypeOK /\ LoopInv /\ LitterInv /\ [Next]_vars => LitterInv'
<1> SUFFICES ASSUME TypeOK, LoopInv, LitterInv, [Next]_vars PROVE LitterInv'
  OBVIOUS
<1> USE StoreAssumption DEF Handler
<1>0. \A k \in objects : k.by \in Creator
  BY DEF TypeOK, Key
<1>1. ASSUME NEW c \in Creator,
             CreateBegin(c) \/ CreateRejects(c) \/ CreateFlush(c) \/ FlushFails(c)
      PROVE  LitterInv'
  <2>1. /\ UNCHANGED <<objects, listed, problem, found>> /\ pc[c] \in {"idle", "reading"}
        /\ pc'[c] \notin {"wipe", "drop"}
        /\ \A h \in Handler \ {c} : pc'[h] = pc[h]
    BY <1>1 DEF CreateBegin, CreateRejects, CreateFlush, FlushFails, Goto, rows, locals, TypeOK
  <2>2. \A h \in Handler : mishap[h] \subseteq mishap'[h]
    BY <1>1 DEF CreateBegin, CreateRejects, CreateFlush, FlushFails, Blame, TypeOK
  <2> QED BY <2>1, <2>2, LitterFrame
<1>2. ASSUME NEW c \in Creator, UploadFile(c) \/ UploadFails(c) PROVE LitterInv'
  <2>1. /\ UNCHANGED <<listed, problem, found>> /\ pc[c] = "upload"
        /\ pc'[c] \in {"upload", "list"}
        /\ \A h \in Handler \ {c} : pc'[h] = pc[h] /\ mishap'[h] = mishap[h]
        /\ \A k \in objects' : k \in objects \/ k.by = c
    BY <1>2 DEF UploadFile, UploadFails, Goto, Blame, rows, locals, TypeOK
  <2>2. mishap[c] \subseteq mishap'[c]
    BY <1>2 DEF UploadFile, UploadFails, Blame, TypeOK
  <2>3. \A d \in Deleter : Busy(d) => found[d] # c
    BY <2>1 DEF LoopInv, Settled
  <2>4. \A k \in objects' : pc'[k.by] \notin {"idle", "reading"}
    BY <1>0, <2>1 DEF LitterInv
  <2>5. ASSUME NEW b \in Creator PROVE Clears(b, b)'
    BY <2>1 DEF LitterInv, Clears
  <2>6. ASSUME NEW d \in Deleter PROVE Clears(d, found[d])'
    BY <2>1, <2>3 DEF LitterInv, Clears, Busy
  <2>7. NoLitter'
    BY <1>0, <2>1, <2>2 DEF LitterInv, NoLitter, Busy
  <2> QED BY <2>4, <2>5, <2>6, <2>7 DEF LitterInv
<1>3. ASSUME NEW c \in Creator, CommitProblem(c) \/ CommitProblemFails(c) PROVE LitterInv'
  <2>1. /\ UNCHANGED <<objects, listed, found>> /\ pc[c] = "upload"
        /\ pc'[c] \in {"list", "end"} /\ problem' \in {problem, c}
        /\ pc'[c] = "end" => problem' = c
        /\ \A h \in Handler \ {c} : pc'[h] = pc[h] /\ mishap'[h] = mishap[h]
    BY <1>3 DEF CommitProblem, CommitProblemFails, Goto, Blame, rows, locals, TypeOK
  <2>2. mishap[c] \subseteq mishap'[c]
    BY <1>3 DEF CommitProblem, CommitProblemFails, Blame, TypeOK
  <2>3. problem = None
    BY <2>1 DEF LoopInv
  <2>4. \A k \in objects' : pc'[k.by] \notin {"idle", "reading"}
    BY <1>0, <2>1 DEF LitterInv
  <2>5. ASSUME NEW b \in Creator PROVE Clears(b, b)'
    BY <2>1 DEF LitterInv, Clears
  <2>6. ASSUME NEW d \in Deleter PROVE Clears(d, found[d])'
    BY <2>1 DEF LitterInv, Clears
  <2>7. NoLitter'
    BY <1>0, <2>1, <2>2, <2>3 DEF LitterInv, NoLitter, Busy
  <2> QED BY <2>4, <2>5, <2>6, <2>7 DEF LitterInv
<1>4. ASSUME NEW h \in Creator \cup Deleter, ListFolder(h) PROVE LitterInv'
  <2>1. PICK page \in SUBSET objects :
          /\ page = objects \/ Blame(h, "short")
          /\ listed' = [listed EXCEPT ![h] = page]
          /\ pc' = [pc EXCEPT ![h] = IF page = {} THEN AfterFolder(h) ELSE "wipe"]
    BY <1>4 DEF ListFolder, Goto
  <2>0. page = objects \/ "short" \in mishap'[h]
    BY <2>1 DEF Blame, TypeOK
  <2>2. /\ UNCHANGED <<objects, problem, found>> /\ pc[h] = "list"
        /\ \A g \in Handler \ {h} : pc'[g] = pc[g] /\ mishap'[g] = mishap[g]
        /\ mishap[h] \subseteq mishap'[h]
    BY <1>4 DEF ListFolder, Goto, Blame, rows, TypeOK
  <2>3. /\ listed'[h] = page
        /\ \A g \in (Creator \cup Deleter) \ {h} : listed'[g] = listed[g]
        /\ pc'[h] \in {"wipe", "drop", "end"}
        /\ pc'[h] \in {"drop", "end"} => page = {}
        /\ pc'[h] = "end" => h \in Creator
    BY <2>1 DEF AfterFolder, TypeOK
  <2>4. \A k \in objects' : pc'[k.by] \notin {"idle", "reading"}
    BY <1>0, <2>2, <2>3 DEF LitterInv
  <2>5. ASSUME NEW b \in Creator PROVE Clears(b, b)'
    BY <2>0, <2>1, <2>2, <2>3 DEF LitterInv, Clears
  <2>6. ASSUME NEW d \in Deleter PROVE Clears(d, found[d])'
    BY <2>0, <2>1, <2>2, <2>3 DEF LitterInv, Clears
  <2>7. NoLitter'
    BY <1>0, <2>0, <2>1, <2>2, <2>3 DEF LitterInv, NoLitter, Busy
  <2> QED BY <2>4, <2>5, <2>6, <2>7 DEF LitterInv
<1>5. ASSUME NEW h \in Creator \cup Deleter, DeleteListed(h) PROVE LitterInv'
  <2>1. /\ UNCHANGED <<listed, problem, found, mishap>> /\ pc[h] = "wipe"
        /\ objects' = objects \ listed[h]
        /\ pc'[h] = AfterFolder(h)
        /\ \A g \in Handler \ {h} : pc'[g] = pc[g]
    BY <1>5 DEF DeleteListed, Goto, rows, locals, TypeOK
  <2>4. \A k \in objects' : pc'[k.by] \notin {"idle", "reading"}
    BY <1>0, <2>1 DEF LitterInv, AfterFolder
  <2>5. ASSUME NEW b \in Creator PROVE Clears(b, b)'
    BY <2>1 DEF LitterInv, Clears, AfterFolder
  <2>6. ASSUME NEW d \in Deleter PROVE Clears(d, found[d])'
    BY <2>1 DEF LitterInv, Clears, AfterFolder
  <2>7. h \in Creator /\ "short" \notin mishap[h] => \A k \in objects' : k.by # h
    BY <2>1 DEF LitterInv, Clears
  <2>8. NoLitter'
    BY <1>0, <2>1, <2>7 DEF LitterInv, NoLitter, Busy
  <2> QED BY <2>4, <2>5, <2>6, <2>8 DEF LitterInv
<1>6. ASSUME NEW h \in Creator \cup Deleter, DeleteListedFails(h) PROVE LitterInv'
  <2>1. /\ UNCHANGED <<listed, problem, found>> /\ pc[h] = "wipe"
        /\ objects' \subseteq objects
        /\ pc'[h] \in {"end", "drop"} /\ "failed" \in mishap'[h]
        /\ \A g \in Handler \ {h} : pc'[g] = pc[g] /\ mishap'[g] = mishap[g]
    BY <1>6 DEF DeleteListedFails, Goto, Blame, AfterFolder, rows, locals, TypeOK
  <2>2. mishap[h] \subseteq mishap'[h]
    BY <1>6 DEF DeleteListedFails, Blame, TypeOK
  <2>4. \A k \in objects' : pc'[k.by] \notin {"idle", "reading"}
    BY <1>0, <2>1 DEF LitterInv
  <2>5. ASSUME NEW b \in Creator PROVE Clears(b, b)'
    BY <2>1 DEF LitterInv, Clears
  <2>6. ASSUME NEW d \in Deleter PROVE Clears(d, found[d])'
    BY <2>1 DEF LitterInv, Clears
  <2>7. NoLitter'
    BY <1>0, <2>1, <2>2 DEF LitterInv, NoLitter, Busy
  <2> QED BY <2>4, <2>5, <2>6, <2>7 DEF LitterInv
<1>7. ASSUME NEW h \in Creator \cup Deleter, ListFails(h) PROVE LitterInv'
  <2>1. /\ UNCHANGED <<objects, listed, problem, found>>
        /\ pc'[h] = "end" /\ "failed" \in mishap'[h]
        /\ \A g \in Handler \ {h} : pc'[g] = pc[g]
        /\ \A g \in Handler : mishap[g] \subseteq mishap'[g]
    BY <1>7 DEF ListFails, Goto, Blame, rows, locals, TypeOK
  <2> QED BY <2>1, LitterFrame
<1>8. ASSUME NEW d \in Deleter,
             \/ DeleteBegin(d) \/ ReadSubmissions(d) \/ DeleteCode(d) \/ CodesDeleted(d)
             \/ DeleteCodeFails(d)
      PROVE  LitterInv'
  <2>1. /\ UNCHANGED <<objects, listed, problem>>
        /\ \A e \in Deleter \ {d} : found'[e] = found[e]
        /\ pc'[d] \notin {"wipe", "drop"}
        /\ \A h \in Handler \ {d} : pc'[h] = pc[h]
    BY <1>8 DEF DeleteBegin, ReadSubmissions, DeleteCode, CodesDeleted, DeleteCodeFails,
         Goto, rows, locals, TypeOK
  <2>2. \A h \in Handler : mishap[h] \subseteq mishap'[h]
    BY <1>8 DEF DeleteBegin, ReadSubmissions, DeleteCode, CodesDeleted, DeleteCodeFails,
         Blame, TypeOK
  <2>3. \A e \in Deleter : found'[e] = found[e] \/ pc'[e] \notin {"wipe", "drop"}
    BY <2>1
  <2>4. \A c \in Creator : pc'[c] = pc[c]
    BY <2>1
  <2>5. \A h \in Creator \cup Deleter : pc'[h] = pc[h] \/ pc'[h] \notin {"wipe", "drop"}
    BY <2>1
  <2> QED BY <2>1, <2>2, <2>3, <2>4, <2>5, LitterFrame
<1>9. ASSUME NEW d \in Deleter, DropRows(d) \/ DropRowsFails(d) PROVE LitterInv'
  <2>1. /\ UNCHANGED <<objects, listed, found>> /\ pc[d] = "drop" /\ pc'[d] = "end"
        /\ problem' \in {problem, None}
        /\ \A h \in Handler \ {d} : pc'[h] = pc[h]
    BY <1>9 DEF DropRows, DropRowsFails, Goto, rows, locals, TypeOK
  <2>2. \A h \in Handler : mishap[h] \subseteq mishap'[h]
    BY <1>9 DEF DropRows, DropRowsFails, DropMishaps, Blame, TypeOK
  <2>3. problem # found[d] => mishap'[d] \cap {"failed", "outrun"} # {}
    <3>1. Blame(d, "failed") => "failed" \in mishap'[d]
      BY DEF Blame, TypeOK
    <3>2. ASSUME NEW also, DropMishaps(d, also), problem # found[d]
          PROVE  "outrun" \in mishap'[d]
      BY <3>2 DEF DropMishaps
    <3> QED BY <1>9, <3>1, <3>2 DEF DropRows, DropRowsFails
  <2>4. \A k \in objects' : pc'[k.by] \notin {"idle", "reading"}
    BY <1>0, <2>1 DEF LitterInv
  <2>5. ASSUME NEW b \in Creator PROVE Clears(b, b)'
    BY <2>1, <2>2 DEF LitterInv, Clears
  <2>6. ASSUME NEW e \in Deleter PROVE Clears(e, found[e])'
    BY <2>1, <2>2 DEF LitterInv, Clears
  <2>7. ASSUME NEW k \in objects, k.by = problem, problem = found[d]
        PROVE  mishap[d] \cap {"short", "failed"} # {}
    BY <2>1, <2>7 DEF LitterInv, Clears
  <2>8. NoLitter'
    <3> SUFFICES ASSUME NEW k \in objects, k.by # problem', ~ Busy(k.by)',
                        mishap'[k.by] \cap {"failed", "short"} = {}
                 PROVE  \E e \in Deleter : mishap'[e] \cap {"failed", "short", "outrun"} # {}
      BY <2>1 DEF NoLitter
    <3>1. CASE k.by = problem
      BY <2>2, <2>3, <2>7, <3>1
    <3>2. CASE k.by # problem
      BY <1>0, <2>1, <2>2, <3>2 DEF LitterInv, NoLitter, Busy
    <3> QED BY <3>1, <3>2
  <2> QED BY <2>4, <2>5, <2>6, <2>8 DEF LitterInv
<1>10. ASSUME NEW s \in Submitter,
              SubmitStep(s) \/ UploadCodeFails(s) \/ CommitSubmissionFails(s)
       PROVE  LitterInv'
  <2>1. /\ UNCHANGED <<objects, listed, problem, found>>
        /\ \A h \in Handler \ {s} : pc'[h] = pc[h]
    BY <1>10 DEF SubmitStep, SubmitBegin, UploadCode, CommitSubmission, UploadCodeFails,
         CommitSubmissionFails, Goto, rows, locals, TypeOK
  <2>2. \A h \in Handler : mishap[h] \subseteq mishap'[h]
    BY <1>10 DEF SubmitStep, SubmitBegin, UploadCode, CommitSubmission, UploadCodeFails,
         CommitSubmissionFails, Blame, TypeOK
  <2>3. \A h \in Creator \cup Deleter : pc'[h] = pc[h]
    BY <2>1
  <2> QED BY <2>1, <2>2, <2>3, LitterFrame
<1>11. CASE Crash
  <2>1. /\ UNCHANGED <<objects, listed, problem, found>>
        /\ \A h \in Handler : mishap[h] \subseteq mishap'[h]
        /\ \A h \in Handler : pc'[h] \in {pc[h], "end"}
        /\ \A h \in Handler : pc'[h] # pc[h] => "failed" \in mishap'[h]
    BY <1>11 DEF Crash, Busy, rows, locals, TypeOK
  <2>2. \A c \in Creator : pc'[c] = pc[c] \/ (pc'[c] = "end" /\ "failed" \in mishap'[c])
    BY <2>1
  <2> QED BY <2>1, <2>2, LitterFrame
<1>12. ASSUME NEW own \in SUBSET Submitter, DeleteAccount(own) PROVE LitterInv'
  BY <1>12, AccountFrame, LitterFrame
<1>13. CASE UNCHANGED vars
  BY <1>13, LitterFrame DEF vars, rows, locals
<1> QED BY <1>1, <1>2, <1>3, <1>4, <1>5, <1>6, <1>7, <1>8, <1>9, <1>10, <1>11, <1>12,
        <1>13
        DEF Next, CreateStep, FolderStep, DeleteStep, FaultStep

(* Test objects belong to the row, to a create at work or cut off, or to a *)
(* row that a delete removed without all of its folder                     *)
(* (problems.py:231-259, storage.py:81-105).                               *)
THEOREM NoLitterStays == Spec => []NoLitter
<1>1. Init => LitterInv
  BY StoreAssumption DEF Init, LitterInv, Clears, NoLitter, Handler
<1>2. LitterInv => NoLitter
  BY DEF LitterInv
<1> QED BY <1>1, <1>2, LoopInvariant, LitterStep, PTL DEF Spec
=============================================================================
