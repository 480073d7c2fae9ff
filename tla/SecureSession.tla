---------------------------- MODULE SecureSession ----------------------------
(***************************************************************************)
(* What the lockdown promises the student and the host application: a Mac  *)
(* that is locked, an exit somebody asked for, and no exit that is asked    *)
(* for and then forgotten.  An application whose ways out are all blocked   *)
(* is wedged: what the implementation must say for itself.                  *)
(***************************************************************************)
VARIABLES
  phase,   \* "open", "locked", "gone" once the process has exited, or "wedged"
  asked    \* an exit was asked for and has not been answered

vars == <<phase, asked>>

Init == phase = "open" /\ asked = FALSE

Lock == phase = "open" /\ phase' = "locked" /\ UNCHANGED asked

\* Asked once; a later request joins the first.
Ask == phase = "locked" /\ ~asked /\ asked' = TRUE /\ UNCHANGED phase

\* The framework confirms: whatever was asked is answered.
Release == phase = "locked" /\ phase' = "open" /\ asked' = FALSE

\* The process exits, which unlocks the Mac.
Kill == phase \notin {"gone", "wedged"} /\ phase' = "gone" /\ asked' = FALSE

\* Every way out is blocked at once, and none opens again.
Wedge == phase = "locked" /\ phase' = "wedged" /\ asked' = FALSE

Next == Lock \/ Ask \/ Release \/ Kill \/ Wedge

Answer == asked /\ (Release \/ Kill \/ Wedge)

Spec == Init /\ [][Next]_vars /\ WF_vars(Answer)
=============================================================================
