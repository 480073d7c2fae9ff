---------------------------- MODULE MCScoreLedger ----------------------------
(* One answer, whose item the runs take through the methods of Scorings. *)
EXTENDS ScoreLedger, TLC
CONSTANTS r1, q1, q2, t1, t2

\* q1 is the scorer's slot, q2 a teacher's and the student's; both can score.
MCRoutes == (q1 :> {"handIn", "autoScore", "batch", "rescore", "change", "approve"})
         @@ (q2 :> {"batch", "rerun", "score", "change", "rescore", "restore", "passBack", "write"})
ReopenRoutes == (q1 :> {"handIn", "autoScore", "batch"}) @@ (q2 :> {"passBack", "write"})
TextSymmetry == Permutations({t1, t2})
=============================================================================
