----------------------------- MODULE MCSecureExit -----------------------------
(***************************************************************************)
(* The lockdown of a development build, every timer armed, twice over:     *)
(* under the host that calls it, and by itself, called in any order while  *)
(* the host rests on the attempt screen.                                   *)
(***************************************************************************)
EXTENDS SecureExit

VARIABLE hosted

MCInit == HostInit /\ hosted \in BOOLEAN

MCNext ==
  /\ UNCHANGED hosted
  /\ \/ hosted /\ HostNext
     \/ ~hosted /\ screen = "entry" /\ OpenAttempt
     \/ ~hosted /\ screen = "attempt" /\ Next /\ UNCHANGED host

\* What the host's fairness is about is never enabled while the host rests.
MCSpec == MCInit /\ [][MCNext]_<<hosted, allVars>> /\ Fairness /\ HostFairness
=============================================================================
