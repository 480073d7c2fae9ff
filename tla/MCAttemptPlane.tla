---------------------------- MODULE MCAttemptPlane ----------------------------
(* Instances of AttemptPlane for TLC. *)
EXTENDS AttemptPlane, TLC

CONSTANTS s1, s2, r1, r2

\* The first sitting is the short one.
MCExpiry == (s1 :> MaxNow - 1) @@ [s \in Sittings \ {s1} |-> MaxNow + 1]

\* One slot for the student's requests; the other for a teacher's, or for the
\* same student's start on a second device.
MCRoutes == (r1 :> StudentKinds) @@ (r2 :> StaffKinds \cup {"join"})
=============================================================================
