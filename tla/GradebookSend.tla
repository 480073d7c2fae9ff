--------------------------- MODULE GradebookSend ---------------------------
(***************************************************************************)
(* Sending the scores of one section to PowerSchool.  The server keeps one  *)
(* live row per section (the push) naming the assignment it created there,  *)
(* and under it what each attempt last sent; a later send updates changed   *)
(* scores and skips unchanged ones.  Two sends may overlap, each call to    *)
(* PowerSchool may fail with or without having acted, a send may die, and   *)
(* a teacher may delete the assignment in PowerTeacher Pro.                 *)
(*                                                                          *)
(* Not modelled: the publish flags of the assignment, categories and names, *)
(* the notes and the summary of a send, the remembered destination, and a   *)
(* score edited by hand in PowerTeacher Pro.                                *)
(***************************************************************************)
EXTENDS Integers, Sequences

CONSTANTS
  Candidates,      \* attempts of the section, on the roster
  Totals,          \* point totals
  NoTotal,         \* not handed in or not fully scored; nothing sent
  Sends,           \* bound: slots for sends in flight
  MaxPushes,       \* bound: gradebook_pushes rows
  MaxAssignments,  \* bound: assignments created in PowerSchool
  MaxLosses        \* bound: lost answers and dead sends

ASSUME GradebookAssumption ==
  /\ NoTotal \notin Totals
  /\ MaxPushes \in Nat /\ MaxAssignments \in Nat /\ MaxLosses \in Nat

VARIABLES
  total,      \* the total each attempt has now
  pushes,     \* the gradebook_pushes rows of the section, with their sent scores
  gradebook,  \* the assignments in PowerSchool
  send,       \* the sends in flight
  losses,     \* lost answers and dead sends so far
  lostCreate, \* an assignment may exist that no push names (history)
  doubtful    \* attempts written with no orderly record after it (history)

gradebookVars == <<total, pushes, gradebook, send, losses, lostCreate, doubtful>>
histories == <<losses, lostCreate, doubtful>>

Nothing == [a \in Candidates |-> NoTotal]
Points == [Candidates -> Totals \cup {NoTotal}]
Some(points) == {a \in Candidates : points[a] # NoTotal}

\* A claim is a push whose external_assignment_id is still null; `old` says
\* that CLAIM_STALE_MS have passed since it was made.
Push == [state : {"claim", "live", "archived", "deleted"}, old : BOOLEAN,
         assignment : 0..MaxAssignments, sent : Points]
Assignment == [exists : BOOLEAN, cell : Points]

\* What a send holds between two awaits: the push it found or made, the scores
\* recorded before, and the writes it planned and has still to do.
Send == [at : {"idle", "prior", "plan", "check", "claim", "create", "created", "put", "record"},
         push : 0..MaxPushes, assignment : 0..MaxAssignments, prior : Points, todo : Points]
Idling == [at |-> "idle", push |-> 0, assignment |-> 0, prior |-> Nothing, todo |-> Nothing]

Continue(q, at) == send' = [send EXCEPT ![q].at = at]
Finish(q) == send' = [send EXCEPT ![q] = Idling]
Live(rows) == {i \in DOMAIN rows : rows[i].state \in {"claim", "live"}}

-----------------------------------------------------------------------------
(* The plan: what is in the gradebook already, and what changed since *)

\* livePush: a fresh claim means another first send is at work, and is refused;
\* an old one is passed over, to be removed by the claim.
SendStart(q) ==
  /\ send[q].at = "idle"
  /\ \A i \in Live(pushes) : pushes[i].state = "claim" => pushes[i].old
  /\ LET found == {i \in Live(pushes) : pushes[i].state = "live"} IN
       IF found = {} THEN send' = [send EXCEPT ![q] = [Idling EXCEPT !.at = "plan"]]
       ELSE \E i \in found :
              send' = [send EXCEPT ![q] = [Idling EXCEPT !.at = "prior", !.push = i,
                                             !.assignment = pushes[i].assignment]]
  /\ UNCHANGED <<total, pushes, gradebook, histories>>

PriorScores(q) ==
  /\ send[q].at = "prior"
  /\ send' = [send EXCEPT ![q].prior = pushes[send[q].push].sent, ![q].at = "plan"]
  /\ UNCHANGED <<total, pushes, gradebook, histories>>

\* planSend: an attempt not fully scored is held back, a total that matches
\* what was last sent is skipped.
PlannedWrites(prior) ==
  [a \in Candidates |-> IF total[a] = prior[a] THEN NoTotal ELSE total[a]]

\* Nothing to write never creates an empty assignment.
Plan(q) ==
  /\ send[q].at = "plan"
  /\ LET writes == PlannedWrites(send[q].prior) IN
       IF send[q].push = 0 /\ Some(writes) = {} THEN Finish(q)
       ELSE send' = [send EXCEPT ![q].todo = writes,
                                 ![q].at = IF send[q].push = 0 THEN "claim" ELSE "check"]
  /\ UNCHANGED <<total, pushes, gradebook, histories>>

Archive(i) == pushes' = [pushes EXCEPT ![i].state = "archived"]

\* listSectionAssignments before a send again: unavailable, deleted in
\* PowerTeacher Pro (the push is retired), or there.
CheckAssignment(q) ==
  /\ send[q].at = "check"
  /\ \/ Finish(q) /\ UNCHANGED pushes
     \/ /\ ~gradebook[send[q].assignment].exists
        /\ Archive(send[q].push)
        /\ Finish(q)
     \/ /\ gradebook[send[q].assignment].exists
        /\ IF Some(send[q].todo) = {} THEN Finish(q) ELSE Continue(q, "put")
        /\ UNCHANGED pushes
  /\ UNCHANGED <<total, gradebook, histories>>

-----------------------------------------------------------------------------
(* The first send claims the slot, then creates the assignment *)

\* The claims older than CLAIM_STALE_MS are deleted.
WithoutOldClaims ==
  [i \in DOMAIN pushes |-> IF pushes[i].state = "claim" /\ pushes[i].old
                           THEN [pushes[i] EXCEPT !.state = "deleted"] ELSE pushes[i]]

\* The send that made a claim has not died, and may have been in PowerSchool.
HeldBySomeone(i) == \E q \in Sends : send[q].push = i /\ send[q].at \in {"create", "created"}

\* Mutant: the unique index does not cover a claim.
MutantRefused(rows) == \E i \in DOMAIN rows : rows[i].state = "live"

\* gradebook_pushes_live_unq: a live row or a claim stands in the way.
Refused(rows) == Live(rows) # {}

\* The categories may be unavailable; a unique violation answers send_in_progress.
Claim(q) ==
  /\ send[q].at = "claim"
  /\ \/ Finish(q) /\ UNCHANGED <<pushes, lostCreate>>
     \/ /\ Len(pushes) < MaxPushes
        /\ LET rows == WithoutOldClaims IN
             IF Refused(rows) THEN pushes' = rows /\ Finish(q)
             ELSE /\ pushes' = Append(rows, [state |-> "claim", old |-> FALSE,
                                             assignment |-> 0, sent |-> Nothing])
                  /\ send' = [send EXCEPT ![q].push = Len(pushes) + 1, ![q].at = "create"]
        /\ lostCreate' = (lostCreate \/ \E i \in DOMAIN pushes :
             pushes'[i].state = "deleted" /\ pushes[i].state = "claim" /\ HeldBySomeone(i))
  /\ UNCHANGED <<total, gradebook, losses, doubtful>>

DeleteClaim(i) ==
  pushes' = [pushes EXCEPT ![i].state = IF @ = "claim" THEN "deleted" ELSE @]

\* createAssignment: created; refused, and the claim is given up; or created
\* with an answer that is lost or unreadable, which looks like a refusal.
Create(q) ==
  /\ send[q].at = "create"
  /\ \/ /\ Len(gradebook) < MaxAssignments
        /\ gradebook' = Append(gradebook, [exists |-> TRUE, cell |-> Nothing])
        /\ \/ /\ send' = [send EXCEPT ![q].assignment = Len(gradebook) + 1, ![q].at = "created"]
              /\ UNCHANGED <<pushes, losses, lostCreate>>
           \/ /\ losses < MaxLosses /\ losses' = losses + 1
              /\ lostCreate' = TRUE
              /\ DeleteClaim(send[q].push)
              /\ Finish(q)
     \/ /\ DeleteClaim(send[q].push)
        /\ Finish(q)
        /\ UNCHANGED <<gradebook, losses, lostCreate>>
  /\ UNCHANGED <<total, doubtful>>

\* The push takes the assignment's id.  A claim another send removed as stale
\* is not there to take it, and the send fails.
Created(q) ==
  /\ send[q].at = "created"
  /\ IF pushes[send[q].push].state = "claim"
     THEN /\ pushes' = [pushes EXCEPT ![send[q].push].state = "live",
                                      ![send[q].push].assignment = send[q].assignment]
          /\ Continue(q, "put")
     ELSE Finish(q) /\ UNCHANGED pushes
  /\ UNCHANGED <<total, gradebook, histories>>

-----------------------------------------------------------------------------
(* The scores *)

\* Another send has written this attempt's score and not recorded it yet.
Unrecorded(q, a) ==
  \E p \in Sends \ {q} : send[p].at = "record" /\ send[p].todo[a] # NoTotal

Only(points, as) == [a \in Candidates |-> IF a \in as THEN points[a] ELSE NoTotal]
WriteCells(g, points) ==
  gradebook' = [gradebook EXCEPT ![g].cell =
                  [a \in Candidates |-> IF points[a] = NoTotal THEN @[a] ELSE points[a]]]

\* Mutant: a row PowerSchool refused is recorded with the others.
MutantAccepted(points, as) == points

\* The rows of the answer that carry no error: the others are reported, not recorded.
Accepted(points, as) == Only(points, as)

\* writeScores: the assignment is missing and the push is retired; the rows of
\* `as` are written and the others refused, one by one, as students PowerSchool
\* does not have in the section, or all together; or the answer is lost.
Put(q) ==
  /\ send[q].at = "put"
  /\ LET g == send[q].assignment IN
     \/ /\ ~gradebook[g].exists
        /\ Archive(send[q].push)
        /\ Finish(q)
        /\ UNCHANGED <<gradebook, losses, doubtful>>
     \/ \E as \in SUBSET Some(send[q].todo) :
          /\ as # {} => gradebook[g].exists
          /\ WriteCells(g, Only(send[q].todo, as))
          /\ LET accepted == Accepted(send[q].todo, as) IN
             \/ /\ IF Some(accepted) = {} THEN Finish(q)
                   ELSE send' = [send EXCEPT ![q].todo = accepted, ![q].at = "record"]
                /\ doubtful' = (doubtful \ as) \cup {a \in as : Unrecorded(q, a)}
                /\ UNCHANGED losses
             \/ /\ losses < MaxLosses /\ losses' = losses + 1
                /\ doubtful' = doubtful \cup as
                /\ Finish(q)
          /\ UNCHANGED pushes
  /\ UNCHANGED <<total, lostCreate>>

\* One upsert of gradebook_push_scores per accepted row.
Record(q, a) ==
  /\ send[q].at = "record" /\ send[q].todo[a] # NoTotal
  /\ pushes' = [pushes EXCEPT ![send[q].push].sent[a] = send[q].todo[a]]
  /\ IF Some(send[q].todo) = {a} THEN Finish(q)
     ELSE send' = [send EXCEPT ![q].todo[a] = NoTotal]
  /\ UNCHANGED <<total, gradebook, histories>>

-----------------------------------------------------------------------------
(* What happens around a send *)

\* The process dies, or a statement fails: the claim and the cells stay.
SendDies(q) ==
  /\ send[q].at \notin {"idle", "prior", "plan"}
  /\ losses < MaxLosses /\ losses' = losses + 1
  /\ lostCreate' = (lostCreate \/ send[q].at = "created")
  /\ doubtful' = IF send[q].at = "record" THEN doubtful \cup Some(send[q].todo) ELSE doubtful
  /\ Finish(q)
  /\ UNCHANGED <<total, pushes, gradebook>>

\* CLAIM_STALE_MS pass, whether or not the claim's send is still waiting.
ClaimAges(i) ==
  /\ i \in DOMAIN pushes
  /\ pushes[i].state = "claim" /\ ~pushes[i].old
  /\ pushes' = [pushes EXCEPT ![i].old = TRUE]
  /\ UNCHANGED <<total, gradebook, send, histories>>

\* A teacher deletes the assignment in PowerTeacher Pro.
DeleteAssignment(g) ==
  /\ g \in DOMAIN gradebook
  /\ gradebook[g].exists
  /\ gradebook' = [gradebook EXCEPT ![g].exists = FALSE]
  /\ UNCHANGED <<total, pushes, send, histories>>

\* Scoring, a changed score, a pass back: the attempt's total changes.
TotalChanges(a, t) ==
  /\ total' = [total EXCEPT ![a] = t]
  /\ UNCHANGED <<pushes, gradebook, send, histories>>

-----------------------------------------------------------------------------
GradebookInit ==
  /\ total \in Points
  /\ pushes = <<>> /\ gradebook = <<>>
  /\ send = [q \in Sends |-> Idling]
  /\ losses = 0 /\ lostCreate = FALSE /\ doubtful = {}

GradebookNext ==
  \/ \E q \in Sends :
       \/ SendStart(q) \/ PriorScores(q) \/ Plan(q) \/ CheckAssignment(q) \/ Claim(q)
       \/ Create(q) \/ Created(q) \/ Put(q) \/ SendDies(q)
       \/ \E a \in Candidates : Record(q, a)
  \/ \E i \in 1..MaxPushes : ClaimAges(i)
  \/ \E g \in 1..MaxAssignments : DeleteAssignment(g)
  \/ \E a \in Candidates, t \in Totals \cup {NoTotal} : TotalChanges(a, t)

GradebookSpec == GradebookInit /\ [][GradebookNext]_gradebookVars

-----------------------------------------------------------------------------
(* Properties *)

\* The rows, the assignments and the sends in flight have the types they model.
GradebookTypeOK ==
  /\ total \in Points
  /\ pushes \in Seq(Push) /\ Len(pushes) <= MaxPushes
  /\ gradebook \in Seq(Assignment) /\ Len(gradebook) <= MaxAssignments
  /\ send \in [Sends -> Send]
  /\ losses \in 0..MaxLosses /\ lostCreate \in BOOLEAN
  /\ doubtful \subseteq Candidates

\* "Two concurrent first sends cannot both create an assignment": a section has
\* at most one assignment in PowerSchool, unless an answer to a create was
\* lost, its send died before noting the id, or a claim was taken over as
\* stale from a send that was still waiting for PowerSchool.
NoSecondAssignment ==
  ~lostCreate => \A g, h \in DOMAIN gradebook :
                   gradebook[g].exists /\ gradebook[h].exists => g = h

\* What the push says an attempt last sent is what stands in the gradebook, so
\* that a score skipped as unchanged really is there: whenever no send is
\* between the two writes, and the last write was neither lost nor overlapped
\* another send's write of the same attempt.
RecordIsTheGradebook ==
  \A i \in DOMAIN pushes : \A a \in Candidates \ doubtful :
    /\ pushes[i].state = "live"
    /\ gradebook[pushes[i].assignment].exists
    /\ \A q \in Sends : ~(send[q].at = "record" /\ send[q].todo[a] # NoTotal)
    => pushes[i].sent[a] = gradebook[pushes[i].assignment].cell[a]

=============================================================================
