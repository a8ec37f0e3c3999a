----------------------------- MODULE JobService -----------------------------
(***************************************************************************)
(* What the judging service promises its users, without its machinery: the *)
(* life of a submission as GET /submissions/{submission_id} shows it.  A   *)
(* submission is pending until it gets one verdict or is abandoned, and    *)
(* both are for good; a deletion ends everything.  The one exception is a  *)
(* submission that an accident sent to be judged again: it may be judged   *)
(* late, and it may be judged anew.                                        *)
(***************************************************************************)
CONSTANTS Submission, FinalVerdict

VARIABLES
  status,
  again     \* the submissions sent to be judged once more

Waiting == {s \in Submission : status[s] = "pending"}
Reopened == {s \in again : status[s] \in FinalVerdict \cup {"abandoned"}}
Submitted == {s \in Submission : status[s] # "absent"}

Init == status = [s \in Submission |-> "absent"] /\ again = {}

Submit(s) ==
  /\ status[s] = "absent" /\ status' = [status EXCEPT ![s] = "pending"]
  /\ UNCHANGED again

\* The verdict is recorded; when the answer to that is lost, s is judged again.
Judge(s, v) ==
  /\ s \in Waiting \cup Reopened /\ status' = [status EXCEPT ![s] = v]
  /\ again' \in {again, again \cup {s}}

\* The processes that had the submissions S dropped them, all at once when the
\* whole service is interrupted, or those in R are sent once more.
Accident(S, R) ==
  /\ S \cup R # {}
  /\ again' = again \cup R
  /\ status' = [s \in Submission |-> IF s \in S THEN "abandoned" ELSE status[s]]

Delete(s) ==
  /\ status[s] \notin {"absent", "deleted"}
  /\ status' = [status EXCEPT ![s] = "deleted"]
  /\ UNCHANGED again

Next ==
  \/ \E s \in Submission : Submit(s) \/ Delete(s) \/ \E v \in FinalVerdict : Judge(s, v)
  \/ \E S \in SUBSET Waiting, R \in SUBSET Submitted : Accident(S, R)

Spec == Init /\ [][Next]_<<status, again>>
=============================================================================
