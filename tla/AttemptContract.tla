---------------------------- MODULE AttemptContract ----------------------------
(***************************************************************************)
(* What the attempt plane promises about a student's attempt, whatever the   *)
(* interleaving of the requests: which life the attempt leads, and that an   *)
(* answer reaches the database only if it was accepted while that same       *)
(* attempt was in progress.  AttemptPlane is shown to implement it.          *)
(*                                                                           *)
(* The promise is weaker than "nothing changes after the hand-in": an answer *)
(* accepted before it may still land after it, and a hand-in that loses the  *)
(* race is applied again.  That is what read-then-update handlers give.      *)
(***************************************************************************)
EXTENDS Integers

CONSTANTS Sittings, Requests, Answers, NoAnswer

VARIABLES
  id,        \* which attempt of the student this is
  status,    \* absent, in_progress or submitted
  place,     \* the sitting a live attempt is bound to
  answer,    \* the stored answer
  accepted   \* the writes accepted and not yet landed, one per request

vars == <<id, status, place, answer, accepted>>

Nothing == <<>>
Accepted == (Nat \X (Answers \cup {NoAnswer})) \cup {Nothing}

Init ==
  /\ id = 0 /\ status = "absent" /\ place \in Sittings
  /\ answer = NoAnswer
  /\ accepted = [r \in Requests |-> Nothing]

\* A join creates an attempt only where there is none.
Start ==
  /\ status = "absent" /\ status' = "in_progress"
  /\ id' = id + 1 /\ place' \in Sittings
  /\ UNCHANGED <<answer, accepted>>

\* A join through another sitting moves work in progress, never a record.
Move ==
  /\ status = "in_progress" /\ place' \in Sittings
  /\ UNCHANGED <<id, status, answer, accepted>>

Accept(r, v) ==
  /\ status = "in_progress" /\ accepted[r] = Nothing
  /\ accepted' = [accepted EXCEPT ![r] = <<id, v>>]
  /\ UNCHANGED <<id, status, place, answer>>

Land(r) ==
  /\ accepted[r] # Nothing
  /\ status # "absent" /\ accepted[r][1] = id
  /\ answer' = accepted[r][2]
  /\ accepted' = [accepted EXCEPT ![r] = Nothing]
  /\ UNCHANGED <<id, status, place>>

\* Refused at a later check, or the attempt it was for is gone.
Drop(r) ==
  /\ accepted[r] # Nothing
  /\ accepted' = [accepted EXCEPT ![r] = Nothing]
  /\ UNCHANGED <<id, status, place, answer>>

HandIn ==
  /\ status = "in_progress" /\ status' = "submitted"
  /\ UNCHANGED <<id, place, answer, accepted>>

\* A pass back keeps the sitting of record and every answer.
Reopen ==
  /\ status = "submitted" /\ status' = "in_progress"
  /\ UNCHANGED <<id, place, answer, accepted>>

Delete ==
  /\ status # "absent" /\ status' = "absent"
  /\ answer' = NoAnswer
  /\ place' \in Sittings /\ UNCHANGED <<id, accepted>>

Next ==
  \/ Start \/ Move \/ HandIn \/ Reopen \/ Delete
  \/ \E r \in Requests : Land(r) \/ Drop(r)
  \/ \E r \in Requests, v \in Answers \cup {NoAnswer} : Accept(r, v)

Spec == Init /\ [][Next]_vars
=============================================================================
