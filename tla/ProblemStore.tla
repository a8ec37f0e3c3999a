---------------------------- MODULE ProblemStore ---------------------------
(***************************************************************************)
(* One problem id in the API (src/api/app/routes/problems.py,              *)
(* submissions.py and users.py): its row in the database, its folder of    *)
(* test objects in MinIO and the objects with the submitted code.  Two ids *)
(* share no row and no folder, so one id is enough.                        *)
(*                                                                         *)
(* A handler is one request, named before it comes.  create_problem is a   *)
(* coroutine: it shares the event loop of the one API process with the     *)
(* other creates and leaves it only where it awaits the zip file.          *)
(* delete_problem and create_submission run in threads of their own.  A    *)
(* database transaction commits once and is one step; DELETE /users/me is  *)
(* one such step from here, where only its effect on the rows matters.     *)
(***************************************************************************)
EXTENDS Integers, FiniteSets

CONSTANTS
  Creator,    \* requests POST /problems/
  Deleter,    \* requests DELETE /problems/
  Submitter,  \* requests POST /submissions/
  None,       \* no row
  Testcases,  \* pairs of files in a bundle
  PageLimit,  \* keys in one answer of list_objects_v2
  Faults      \* bound: how often each kind of fault happens

FaultKind == {"error", "crash"}
Handler == Creator \cup Deleter \cup Submitter
Files == 1..(2 * Testcases)   \* input and output files, in upload order

ASSUME StoreAssumption ==
  /\ IsFiniteSet(Creator)
  /\ Creator \cap Deleter = {} /\ Creator \cap Submitter = {}
  /\ Deleter \cap Submitter = {} /\ None \notin Creator
  /\ Testcases \in Nat \ {0} /\ PageLimit \in Nat \ {0}
  /\ Faults \in [FaultKind -> Nat]

VARIABLES
  problem,      \* the create request whose row is committed, or None
  submissions,  \* submit requests whose row is committed
  closed,       \* submit requests whose account is deleted
  objects,      \* test objects in the folder of the problem
  codes,        \* submit requests whose code object exists
  pc,           \* where each handler is
  uploaded,     \* files a create request has uploaded
  found,        \* the row a delete request has read
  seen,         \* the submissions it has read
  todo,         \* those whose code it has still to delete
  listed,       \* the keys delete_problem_folder has read
  mishap,       \* history: what went wrong under each handler
  budget        \* faults still allowed

rows == <<problem, submissions, closed>>
locals == <<uploaded, found, seen, todo, listed>>
vars == <<rows, objects, codes, pc, locals, mishap, budget>>

Key == [by : Creator, file : Files]    \* the uuid in a key makes it the request's own
Bundle(c) == {k \in Key : k.by = c}
Mishap == {"raised", "failed", "short", "robbed", "outrun", "refused", "unseen",
           "orphaned"}

Goto(h, place) == pc' = [pc EXCEPT ![h] = place]
Blame(h, m) == mishap' = [mishap EXCEPT ![h] = @ \cup {m}]
Busy(h) == pc[h] \notin {"idle", "end"}
(* No create request is between two awaits. *)
LoopFree == \A c \in Creator : pc[c] \in {"idle", "reading", "end"}
-----------------------------------------------------------------------------
(* create_problem *)

CreateBegin(c) ==
  /\ pc[c] = "idle" /\ LoopFree
  /\ \/ problem = None /\ Goto(c, "reading")
     \/ Goto(c, "end")      \* the id exists, or the file is no zip
  /\ UNCHANGED <<rows, objects, codes, locals, mishap, budget>>

CreateRejects(c) ==
  /\ pc[c] = "reading" /\ LoopFree
  /\ Goto(c, "end")
  /\ UNCHANGED <<rows, objects, codes, locals, mishap, budget>>

CreateFlush(c) ==
  /\ pc[c] = "reading" /\ LoopFree
  /\ \/ problem = None /\ Goto(c, "upload") /\ UNCHANGED mishap
     \/ problem # None /\ Goto(c, "list") /\ Blame(problem, "robbed")
  /\ UNCHANGED <<rows, objects, codes, locals, budget>>

UploadFile_one_more(c) ==
  /\ pc[c] = "upload" /\ uploaded[c] <= 2 * Testcases
  /\ uploaded' = [uploaded EXCEPT ![c] = @ + 1]
  /\ objects' = objects \cup {[by |-> c, file |-> uploaded[c] + 1]}
  /\ UNCHANGED <<rows, codes, pc, found, seen, todo, listed, mishap, budget>>

UploadFile(c) ==
  /\ pc[c] = "upload" /\ uploaded[c] < 2 * Testcases
  /\ uploaded' = [uploaded EXCEPT ![c] = @ + 1]
  /\ objects' = objects \cup {[by |-> c, file |-> uploaded[c] + 1]}
  /\ UNCHANGED <<rows, codes, pc, found, seen, todo, listed, mishap, budget>>

CommitProblem(c) ==
  /\ pc[c] = "upload" /\ uploaded[c] = 2 * Testcases
  /\ problem' = c
  /\ Goto(c, "end")
  /\ UNCHANGED <<submissions, closed, objects, codes, locals, mishap, budget>>
-----------------------------------------------------------------------------
(* delete_problem_folder, for the handlers of both kinds *)

AfterFolder(h) == IF h \in Creator THEN "end" ELSE "drop"

(* The first page of keys; one page is all the code asks for. *)
ListFolder(h) ==
  /\ pc[h] = "list"
  /\ \E page \in SUBSET objects :
       /\ \/ page = objects /\ Cardinality(page) <= PageLimit /\ UNCHANGED mishap
          \/ page # objects /\ Cardinality(page) = PageLimit /\ Blame(h, "short")
       /\ listed' = [listed EXCEPT ![h] = page]
       /\ Goto(h, IF page = {} THEN AfterFolder(h) ELSE "wipe")
  /\ UNCHANGED <<rows, objects, codes, uploaded, found, seen, todo, budget>>

DeleteBegin_unchecked(d) ==
  /\ pc[d] = "idle"
  /\ found' = [found EXCEPT ![d] = problem]
  /\ Goto(d, "select")
  /\ UNCHANGED <<rows, objects, codes, uploaded, seen, todo, listed, mishap, budget>>

DeleteListed(h) ==
  /\ pc[h] = "wipe"
  /\ objects' = objects \ listed[h]
  /\ Goto(h, AfterFolder(h))
  /\ UNCHANGED <<rows, codes, locals, mishap, budget>>
-----------------------------------------------------------------------------
(* delete_problem *)

DeleteBegin(d) ==
  /\ pc[d] = "idle"
  /\ found' = [found EXCEPT ![d] = problem]
  /\ Goto(d, IF problem = None THEN "end" ELSE "select")
  /\ UNCHANGED <<rows, objects, codes, uploaded, seen, todo, listed, mishap, budget>>

ReadSubmissions(d) ==
  /\ pc[d] = "select"
  /\ seen' = [seen EXCEPT ![d] = submissions]
  /\ todo' = [todo EXCEPT ![d] = submissions]
  /\ Goto(d, "codes")
  /\ UNCHANGED <<rows, objects, codes, uploaded, found, listed, mishap, budget>>

DeleteCode(d) ==
  /\ pc[d] = "codes"
  /\ \E s \in todo[d] :
       /\ todo' = [todo EXCEPT ![d] = @ \ {s}]
       /\ codes' = codes \ {s}
  /\ UNCHANGED <<rows, objects, pc, uploaded, found, seen, listed, mishap, budget>>

CodesDeleted_early(d) ==
  /\ pc[d] = "codes"
  /\ Goto(d, "list")
  /\ UNCHANGED <<rows, objects, codes, locals, mishap, budget>>

CodesDeleted(d) ==
  /\ pc[d] = "codes" /\ todo[d] = {}
  /\ Goto(d, "list")
  /\ UNCHANGED <<rows, objects, codes, locals, mishap, budget>>

(* What the cascade removes without its code: rows newer than line 252. *)
Unseen(d) == submissions \ seen[d]
DropMishaps(d, also) ==
  mishap' = [h \in Handler |-> mishap[h]
    \cup (IF h \in Unseen(d) THEN {"unseen"} ELSE {})
    \cup (IF h = d /\ problem # found[d] THEN {"outrun"} ELSE {})
    \cup (IF h = d THEN also ELSE {})]

DropRows_no_cascade(d) ==
  /\ pc[d] = "drop"
  /\ problem' = None /\ UNCHANGED submissions
  /\ DropMishaps(d, {})
  /\ Goto(d, "end")
  /\ UNCHANGED <<closed, objects, codes, locals, budget>>

(* Deletes by primary key: the row there now, with its submissions. *)
DropRows(d) ==
  /\ pc[d] = "drop"
  /\ problem' = None /\ submissions' = {}
  /\ DropMishaps(d, {})
  /\ Goto(d, "end")
  /\ UNCHANGED <<closed, objects, codes, locals, budget>>
-----------------------------------------------------------------------------
(* create_submission, up to the commit *)

SubmitBegin(s) ==
  /\ pc[s] = "idle"
  /\ \/ s \notin closed /\ problem # None /\ Goto(s, "upload")
     \/ Goto(s, "end")      \* no such account or row, or not visible
  /\ UNCHANGED <<rows, objects, codes, locals, mishap, budget>>

UploadCode(s) ==
  /\ pc[s] = "upload"
  /\ codes' = codes \cup {s}
  /\ Goto(s, "commit")
  /\ UNCHANGED <<rows, objects, locals, mishap, budget>>

(* Foreign keys refuse a submission whose problem or account is gone. *)
Referenced(s) == problem # None /\ s \notin closed

CommitSubmission(s) ==
  /\ pc[s] = "commit"
  /\ \/ Referenced(s) /\ submissions' = submissions \cup {s} /\ UNCHANGED mishap
     \/ ~ Referenced(s) /\ Blame(s, "refused") /\ UNCHANGED submissions
  /\ Goto(s, "end")
  /\ UNCHANGED <<problem, closed, objects, codes, locals, budget>>
-----------------------------------------------------------------------------
(* delete_current_user: an account goes, and the cascade takes the rows of *)
(* its requests and leaves their code objects.  Which requests are its own *)
(* is chosen here; each belongs to one account.                            *)
DeleteAccount(own) ==
  /\ own # {} /\ own \cap closed = {}
  /\ closed' = closed \cup own
  /\ submissions' = submissions \ own
  /\ mishap' = [h \in Handler |-> mishap[h]
       \cup (IF h \in submissions \cap own THEN {"orphaned"} ELSE {})]
  /\ UNCHANGED <<problem, objects, codes, pc, locals, budget>>
-----------------------------------------------------------------------------
(* Faults: a call to MinIO or to the database raises, with or without its  *)
(* effect, or the API process dies.                                        *)

Spend(k) == budget[k] > 0 /\ budget' = [budget EXCEPT ![k] = @ - 1]

FlushFails(c) ==
  /\ pc[c] = "reading" /\ LoopFree /\ Spend("error")
  /\ Goto(c, "list")
  /\ mishap' = [h \in Handler |-> mishap[h]
       \cup (IF h = c THEN {"raised"} ELSE {})
       \cup (IF h = problem THEN {"robbed"} ELSE {})]
  /\ UNCHANGED <<rows, objects, codes, locals>>

UploadFails_keeps(c) ==
  /\ pc[c] = "upload" /\ uploaded[c] < 2 * Testcases /\ Spend("error")
  /\ \/ objects' = objects \cup {[by |-> c, file |-> uploaded[c] + 1]}
     \/ UNCHANGED objects
  /\ Goto(c, "end") /\ Blame(c, "raised")
  /\ UNCHANGED <<rows, codes, locals>>

UploadFails(c) ==
  /\ pc[c] = "upload" /\ uploaded[c] < 2 * Testcases /\ Spend("error")
  /\ \/ objects' = objects \cup {[by |-> c, file |-> uploaded[c] + 1]}
     \/ UNCHANGED objects
  /\ Goto(c, "list") /\ Blame(c, "raised")
  /\ UNCHANGED <<rows, codes, locals>>

CommitProblemFails(c) ==
  /\ pc[c] = "upload" /\ uploaded[c] = 2 * Testcases /\ Spend("error")
  /\ problem' \in {problem, c}
  /\ Goto(c, "list") /\ Blame(c, "raised")
  /\ UNCHANGED <<submissions, closed, objects, codes, locals>>

ListFails(h) ==
  /\ pc[h] = "list" /\ Spend("error")
  /\ Goto(h, "end") /\ Blame(h, "failed")
  /\ UNCHANGED <<rows, objects, codes, locals>>

(* Some keys are deleted; the answer reports the others, unread, or never  *)
(* comes.                                                                  *)
DeleteListedFails(h) ==
  /\ pc[h] = "wipe" /\ Spend("error")
  /\ \E gone \in SUBSET listed[h] : objects' = objects \ gone
  /\ Goto(h, "end") \/ Goto(h, AfterFolder(h))
  /\ Blame(h, "failed")
  /\ UNCHANGED <<rows, codes, locals>>

DeleteCodeFails(d) ==
  /\ pc[d] = "codes" /\ Spend("error")
  /\ \E s \in todo[d] : codes' \in {codes, codes \ {s}}
  /\ Goto(d, "end") /\ Blame(d, "failed")
  /\ UNCHANGED <<rows, objects, locals>>

DropRowsFails(d) ==
  /\ pc[d] = "drop" /\ Spend("error")
  /\ \/ problem' = None /\ submissions' = {} /\ DropMishaps(d, {"failed"})
     \/ UNCHANGED <<problem, submissions>> /\ Blame(d, "failed")
  /\ Goto(d, "end")
  /\ UNCHANGED <<closed, objects, codes, locals>>

UploadCodeFails(s) ==
  /\ pc[s] = "upload" /\ Spend("error")
  /\ codes' \in {codes, codes \cup {s}}
  /\ Goto(s, "end") /\ Blame(s, "failed")
  /\ UNCHANGED <<rows, objects, locals>>

CommitSubmissionFails(s) ==
  /\ pc[s] = "commit" /\ Spend("error")
  /\ \/ UNCHANGED submissions
     \/ Referenced(s) /\ submissions' = submissions \cup {s}
  /\ Goto(s, "end") /\ Blame(s, "failed")
  /\ UNCHANGED <<problem, closed, objects, codes, locals>>

(* Open transactions roll back; nobody resumes what the handlers did. *)
Crash ==
  /\ Spend("crash")
  /\ \E h \in Handler : Busy(h)
  /\ pc' = [h \in Handler |-> IF Busy(h) THEN "end" ELSE pc[h]]
  /\ mishap' = [h \in Handler |->
       IF Busy(h) THEN mishap[h] \cup {"failed"} ELSE mishap[h]]
  /\ UNCHANGED <<rows, objects, codes, locals>>
-----------------------------------------------------------------------------
Init ==
  /\ problem = None /\ submissions = {} /\ closed = {} /\ objects = {} /\ codes = {}
  /\ pc = [h \in Handler |-> "idle"]
  /\ uploaded = [c \in Creator |-> 0]
  /\ found = [d \in Deleter |-> None]
  /\ seen = [d \in Deleter |-> {}] /\ todo = [d \in Deleter |-> {}]
  /\ listed = [h \in Creator \cup Deleter |-> {}]
  /\ mishap = [h \in Handler |-> {}]
  /\ budget = Faults

CreateStep(c) ==
  \/ CreateBegin(c) \/ CreateRejects(c) \/ CreateFlush(c)
  \/ UploadFile(c) \/ CommitProblem(c)

FolderStep(h) == ListFolder(h) \/ DeleteListed(h)

DeleteStep(d) ==
  \/ DeleteBegin(d) \/ ReadSubmissions(d) \/ DeleteCode(d)
  \/ CodesDeleted(d) \/ DropRows(d)

SubmitStep(s) == SubmitBegin(s) \/ UploadCode(s) \/ CommitSubmission(s)

FaultStep ==
  \/ \E c \in Creator : FlushFails(c) \/ UploadFails(c) \/ CommitProblemFails(c)
  \/ \E h \in Creator \cup Deleter : ListFails(h) \/ DeleteListedFails(h)
  \/ \E d \in Deleter : DeleteCodeFails(d) \/ DropRowsFails(d)
  \/ \E s \in Submitter : UploadCodeFails(s) \/ CommitSubmissionFails(s)
  \/ Crash

Next ==
  \/ \E c \in Creator : CreateStep(c)
  \/ \E h \in Creator \cup Deleter : FolderStep(h)
  \/ \E d \in Deleter : DeleteStep(d)
  \/ \E s \in Submitter : SubmitStep(s)
  \/ \E own \in SUBSET Submitter : DeleteAccount(own)
  \/ FaultStep

Spec == Init /\ [][Next]_vars
-----------------------------------------------------------------------------
(* Mishaps. "raised": an exception the except clause of create_problem     *)
(* caught; "failed": a handler that ended, or went on, with its work half  *)
(* done; "short": a folder larger than one page; "robbed": a create whose  *)
(* committed row the INSERT of another one met; "outrun": a delete that at *)
(* its end found another row than it had read; "refused": a submission     *)
(* whose problem or account was deleted meanwhile; "unseen": one that the  *)
(* cascade of a problem removed and line 252 had not returned; "orphaned": *)
(* one that the cascade of an account removed.                             *)

(* Every variable keeps its type: in particular a handler never uploads    *)
(* beyond its bundle (create_problem's loop over the zip).                 *)
TypeOK ==
  /\ problem \in Creator \cup {None} /\ submissions \subseteq Submitter
  /\ closed \subseteq Submitter
  /\ objects \subseteq Key /\ codes \subseteq Submitter
  /\ pc \in [Handler -> {"idle", "reading", "upload", "commit", "select",
                         "codes", "list", "wipe", "drop", "end"}]
  /\ uploaded \in [Creator -> 0..(2 * Testcases)]
  /\ found \in [Deleter -> Creator \cup {None}]
  /\ seen \in [Deleter -> SUBSET Submitter]
  /\ todo \in [Deleter -> SUBSET Submitter]
  /\ listed \in [Creator \cup Deleter -> SUBSET Key]
  /\ mishap \in [Handler -> SUBSET Mishap]
  /\ budget \in [FaultKind -> Nat]

Wiping(d) == pc[d] \in {"list", "wipe", "drop"}
Intact == problem = None \/ Bundle(problem) \subseteq objects

(* Deletes that may have taken objects of a row that stays.                *)
ExcusedDelete ==
  \E d \in Deleter : Wiping(d) \/ mishap[d] \cap {"failed", "outrun"} # {}

(* A committed problem has all its test objects, the ones the judge will   *)
(* ask for, unless a delete is at work on them or ended half-way, or the   *)
(* commit itself answered with an error, or another create of the same id  *)
(* came too late and cleaned up after itself (problems.py:199-259).        *)
TestsPresent ==
  Intact \/ ExcusedDelete \/ mishap[problem] \cap {"raised", "robbed"} # {}

(* The same without the last excuse: what README.md:225 needs of a problem *)
(* that nobody deletes (problems.py:233).                                  *)
TestsIntact ==
  Intact \/ ExcusedDelete \/ "raised" \in mishap[problem]

(* Every test object belongs to the committed row, to a create that is     *)
(* still at work or was cut off, or to a row that a delete removed without *)
(* all of its folder: the rollback of create_problem and delete_problem    *)
(* leave no litter otherwise (problems.py:231-234, storage.py:81-105).     *)
NoLitter ==
  \A k \in objects :
    \/ k.by = problem \/ Busy(k.by)
    \/ mishap[k.by] \cap {"failed", "short"} # {}
    \/ \E d \in Deleter : mishap[d] \cap {"failed", "short", "outrun"} # {}

(* A submission's row has its code object, which GET /submissions/{id} and *)
(* the judge read, unless a delete is between line 253 and its commit or   *)
(* ended there (submissions.py:27-41, problems.py:252-259).                *)
SubmissionReadable ==
  \A s \in submissions \ codes :
    \E d \in Deleter :
      /\ s \in seen[d]
      /\ pc[d] = "codes" \/ Wiping(d) \/ "failed" \in mishap[d]

(* A code object has its row unless the request is still at work, its      *)
(* commit was refused or failed, the row came after the delete had read    *)
(* the submissions, or it went with its account (submissions.py:27-41,     *)
(* problems.py:252-258, users.py:47-50).                                   *)
CodesAccounted ==
  \A s \in codes \ submissions :
    Busy(s) \/ mishap[s] \cap {"refused", "failed", "unseen", "orphaned"} # {}
-----------------------------------------------------------------------------
=============================================================================
