----------------------------- MODULE MCScreening -----------------------------
(***************************************************************************)
(* The screening on two scales.  "race": one answer, which a pass of the   *)
(* hand-in or of a scoring and the retry read, alert about and mark while  *)
(* it is edited at any time.  "queue": two answers, of which the retry     *)
(* takes one up at a time; the hand-ins' own passes are lost, the task is  *)
(* not restarted, no alert is acknowledged, and an answer gets another     *)
(* text only before it is handed in or after it was passed back.           *)
(***************************************************************************)
EXTENDS Screening

CONSTANTS a1, a2, retry, other, worry, trick, blank

VARIABLE scale

\* One text worries, one tries to steer the scorer, one is blank.
ReportedConcerns ==
  [e \in Essays |-> IF e = worry THEN {"wellbeing"}
                    ELSE IF e = trick THEN {"prompt_injection"} ELSE {}]

MCInit ==
  /\ ScreeningInit
  /\ \/ scale = "race" /\ essay[a2] = blank
     \/ scale = "queue" /\ trick \notin {essay[a1], essay[a2]}

\* What is left of a step on each scale.
OnScale ==
  \/ scale = "race" /\ essay'[a2] = essay[a2] /\ a2 \notin Range(line')
  \/ /\ scale = "queue" /\ restarts' = restarts
     /\ \A q \in Lookers : pass'[q] = Asleep
     /\ \A a \in Answers :
          /\ open[a] \subseteq open'[a] /\ heard[a] \subseteq heard'[a]
          /\ essay'[a] # essay[a] => a \notin Range(line) /\ essay'[a] # trick

MCNext == ScreeningNext /\ OnScale /\ UNCHANGED scale

MCSpec == MCInit /\ [][MCNext]_<<scale, screeningVars>> /\ RetryFairness

=============================================================================
