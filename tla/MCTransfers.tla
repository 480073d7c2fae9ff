---------------------------- MODULE MCTransfers ----------------------------
(***************************************************************************)
(* Three things that cross to another store by calls which may act and not  *)
(* answer: scores to the gradebook, essays to Google Drive, drawings to the *)
(* server's object storage.  They share no state, so a behaviour runs one   *)
(* of them, and `part` says which: the states add, not multiply.            *)
(***************************************************************************)
EXTENDS GradebookSend, DocsRelease, DrawingUpload, TLC

CONSTANTS a1, q1, q2, t1, t2, p1, p2, r1, r2, w1, w2

VARIABLE part

\* Students, and the workers of a send, are told apart by nothing.
ClassSymmetry == Permutations({p1, p2}) \cup Permutations({w1, w2})

\* The dialog as a teacher resumes it; the drafts box only widens the class.
SkipChoices == {[mode |-> "skip", drafts |-> FALSE, transfer |-> TRUE]}

\* A total is read by nothing but the plan of a send, so it changes before one.
BeforeAPlan == total' = total \/ \E q \in Sends : send[q].at = "plan"

\* Which slot the first send of Docs takes says nothing: the first.
FirstIsR1 == sends = 0 => release'[r2] = release[r2]

Init ==
  /\ part \in {"gradebook", "docs", "drawing"}
  /\ ReleaseInit /\ DrawingInit
  /\ GradebookInit /\ total = Nothing

Next ==
  /\ UNCHANGED part
  /\ \/ part = "gradebook" /\ GradebookNext /\ UNCHANGED <<releaseVars, drawingVars>> /\ BeforeAPlan
     \/ part = "docs" /\ ReleaseNext /\ UNCHANGED <<gradebookVars, drawingVars>> /\ FirstIsR1
     \/ part = "drawing" /\ DrawingNext /\ UNCHANGED <<gradebookVars, releaseVars>>

Spec == Init /\ [][Next]_<<part, gradebookVars, releaseVars, drawingVars>>

=============================================================================
