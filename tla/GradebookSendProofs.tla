------------------------- MODULE GradebookSendProofs -------------------------
(***************************************************************************)
(* Proofs about GradebookSend, for every value of its constants: however    *)
(* many sends of a section overlap, are refused, lost or die, it gets one   *)
(* assignment, and the scores it records as sent are those that stand there.*)
(*                                                                          *)
(* NoSecondAssignment alone is not inductive.  Inv adds why it holds: a     *)
(* section has one live row, claim or not; a send in PowerSchool owns the   *)
(* claim it made, nobody else's; and an assignment that exists is named by  *)
(* the live row, or by the send that is about to write it there.            *)
(* RecordIsTheGradebook needs on top of it (Said) who owes the record of a  *)
(* write, that only the live row's assignment is written, and that a row    *)
(* which takes an assignment's id and that assignment are both still empty. *)
(***************************************************************************)
EXTENDS GradebookSend, SequenceTheorems, TLAPS

-----------------------------------------------------------------------------
(* The invariant *)

\* The sends that work on a push with an assignment, and those that hold a claim.
Works(q) == send[q].push # 0 /\ send[q].at \in {"prior", "plan", "check", "put", "record"}
Claims(q) == send[q].at \in {"create", "created"}

\* gradebook_pushes_live_unq
OneLive == \A i, j \in Live(pushes) : i = j

\* A push with an assignment keeps it, live or archived, while sends work on it.
WorksOnItsPush(q) ==
  /\ send[q].push \in DOMAIN pushes
  /\ pushes[send[q].push].state \in {"live", "archived"}
  /\ pushes[send[q].push].assignment = send[q].assignment

\* A claim is there for the send that made it, unless it was taken over.
OwnsItsClaim(q) ==
  /\ send[q].push \in DOMAIN pushes
  /\ ~lostCreate => pushes[send[q].push].state = "claim"

\* Who names an assignment.
NamedByPush(g) == \E i \in DOMAIN pushes : pushes[i].state = "live" /\ pushes[i].assignment = g
NamedBySend(g) == \E q \in Sends : send[q].at = "created" /\ send[q].assignment = g
Named == \A g \in DOMAIN gradebook : gradebook[g].exists => NamedByPush(g) \/ NamedBySend(g)

\* What holds of the rows, the sends and the assignments together.
OneSlot ==
  /\ OneLive
  /\ \A q \in Sends : send[q].at \in {"prior", "check", "put", "record"} => send[q].push # 0
  /\ \A q \in Sends : Works(q) => WorksOnItsPush(q)
  /\ \A q \in Sends : Claims(q) => OwnsItsClaim(q)
  /\ \A p, q \in Sends : Claims(p) /\ Claims(q) /\ send[p].push = send[q].push => p = q
  /\ ~lostCreate => Named

Inv == GradebookTypeOK /\ OneSlot

-----------------------------------------------------------------------------
(* The types *)

\* A planned write, a reduced one and a new record of points are points.
LEMMA PointsTypes ==
  /\ Nothing \in Points
  /\ \A p \in Points : total \in Points => PlannedWrites(p) \in Points
  /\ \A p \in Points : \A as : Only(p, as) \in Points
  BY DEF Nothing, Points, PlannedWrites, Only

\* A send that is not in flight is a send.
LEMMA IdlingType == Idling \in Send
  BY PointsTypes, GradebookAssumption DEF Idling, Send

\* A row of a sequence of rows is replaced by another.
LEMMA RowReplaced ==
  ASSUME NEW S, NEW rows \in Seq(S), NEW i \in DOMAIN rows, NEW e \in S
  PROVE  /\ [rows EXCEPT ![i] = e] \in Seq(S)
         /\ Len([rows EXCEPT ![i] = e]) = Len(rows)
  BY ExceptSeq, LenProperties

\* What the types say of a row.
LEMMA Rows ==
  ASSUME GradebookTypeOK
  PROVE  /\ \A i \in DOMAIN pushes : i \in 1..MaxPushes /\ pushes[i] \in Push
         /\ \A g \in DOMAIN gradebook : g \in 1..MaxAssignments /\ gradebook[g] \in Assignment
         /\ DOMAIN pushes = 1..Len(pushes) /\ Len(pushes) \in Nat
         /\ DOMAIN gradebook = 1..Len(gradebook) /\ Len(gradebook) \in Nat
<1>1. /\ DOMAIN pushes = 1..Len(pushes) /\ Len(pushes) \in Nat
      /\ pushes \in [1..Len(pushes) -> Push]
  BY LenProperties DEF GradebookTypeOK
<1>2. /\ DOMAIN gradebook = 1..Len(gradebook) /\ Len(gradebook) \in Nat
      /\ gradebook \in [1..Len(gradebook) -> Assignment]
  BY LenProperties DEF GradebookTypeOK
<1>3. Len(pushes) <= MaxPushes /\ Len(gradebook) <= MaxAssignments
  BY DEF GradebookTypeOK
<1> QED
  BY <1>1, <1>2, <1>3, GradebookAssumption

\* A section not yet sent has no row, no claim and no assignment.
LEMMA InitInv == GradebookInit => Inv
<1> SUFFICES ASSUME GradebookInit PROVE Inv
  OBVIOUS
<1>1. GradebookTypeOK
  <2>1. pushes \in Seq(Push) /\ Len(pushes) = 0 /\ gradebook \in Seq(Assignment) /\ Len(gradebook) = 0
    BY EmptySeq DEF GradebookInit
  <2>2. send \in [Sends -> Send]
    BY IdlingType DEF GradebookInit
  <2>3. Len(pushes) <= MaxPushes /\ Len(gradebook) <= MaxAssignments /\ losses \in 0..MaxLosses
    BY <2>1, GradebookAssumption DEF GradebookInit
  <2>4. total \in Points /\ lostCreate \in BOOLEAN /\ doubtful \subseteq Candidates
    BY DEF GradebookInit
  <2> QED
    BY <2>1, <2>2, <2>3, <2>4 DEF GradebookTypeOK
<1>2. \A q \in Sends : send[q] = Idling
  BY DEF GradebookInit
<1>3. OneLive /\ Named
  BY DEF GradebookInit, OneLive, Live, Named
<1> QED
  BY <1>1, <1>2, <1>3 DEF Inv, OneSlot, Idling, Works, Claims

\* A send that ends or goes on has the type of a send.
Steps == {"idle", "prior", "plan", "check", "claim", "create", "created", "put", "record"}

\* A send that ends keeps the types.
LEMMA FinishTypes ==
  ASSUME GradebookTypeOK, NEW q \in Sends, Finish(q)
  PROVE  send' \in [Sends -> Send]
  BY IdlingType DEF Finish, GradebookTypeOK

\* A send that goes on keeps the types.
LEMMA ContinueTypes ==
  ASSUME GradebookTypeOK, NEW q \in Sends, NEW at \in Steps, Continue(q, at)
  PROVE  send' \in [Sends -> Send]
<1>1. [send[q] EXCEPT !.at = at] \in Send
  BY DEF GradebookTypeOK, Send, Steps
<1> QED
  BY <1>1 DEF Continue, GradebookTypeOK

\* One step of each kind keeps the types.
LEMMA SendStartTypes ==
  ASSUME GradebookTypeOK, NEW q \in Sends, SendStart(q)
  PROVE  GradebookTypeOK'
<1>1. \A i \in DOMAIN pushes : i \in 0..MaxPushes /\ pushes[i].assignment \in 0..MaxAssignments
  BY Rows, GradebookAssumption DEF Push
<1>2. [Idling EXCEPT !.at = "plan"] \in Send
  BY IdlingType DEF Send
<1>3. \A i \in DOMAIN pushes : [Idling EXCEPT !.at = "prior", !.push = i,
                                             !.assignment = pushes[i].assignment] \in Send
  BY <1>1, IdlingType DEF Send
<1>4. send' \in [Sends -> Send]
  BY <1>2, <1>3 DEF SendStart, GradebookTypeOK, Live
<1> QED
  BY <1>4 DEF SendStart, GradebookTypeOK, histories

\* What the push says was last sent is points.
LEMMA PriorScoresTypes ==
  ASSUME Inv, NEW q \in Sends, PriorScores(q)
  PROVE  GradebookTypeOK'
<1>1. send[q].push \in DOMAIN pushes
  BY DEF PriorScores, Inv, OneSlot, Works, WorksOnItsPush
<1>2. pushes[send[q].push].sent \in Points
  BY <1>1, Rows DEF Inv, OneSlot, Push
<1>3. send' \in [Sends -> Send]
  BY <1>2 DEF PriorScores, Inv, GradebookTypeOK, Send
<1> QED
  BY <1>3 DEF PriorScores, Inv, GradebookTypeOK, histories

\* What is planned is points, under the totals of the moment.
LEMMA PlanTypes ==
  ASSUME GradebookTypeOK, NEW q \in Sends, Plan(q)
  PROVE  GradebookTypeOK'
<1>1. PlannedWrites(send[q].prior) \in Points
  BY PointsTypes DEF GradebookTypeOK, Send
<1>2. send' \in [Sends -> Send]
  <2>1. CASE Finish(q)
    BY <2>1, FinishTypes
  <2>2. CASE ~Finish(q)
    <3> DEFINE at == IF send[q].push = 0 THEN "claim" ELSE "check"
               s  == [send[q] EXCEPT !.todo = PlannedWrites(send[q].prior), !.at = at]
    <3>1. s \in Send
      BY <1>1 DEF GradebookTypeOK, Send
    <3>2. send' = [send EXCEPT ![q] = s]
      BY <2>2 DEF Plan
    <3> HIDE DEF s
    <3> QED
      BY <3>1, <3>2 DEF GradebookTypeOK
  <2> QED
    BY <2>1, <2>2
<1> QED
  BY <1>2 DEF Plan, GradebookTypeOK, histories

\* A row's state changes.
LEMMA StateTypes ==
  ASSUME GradebookTypeOK, NEW i \in DOMAIN pushes,
         NEW st \in {"claim", "live", "archived", "deleted"}
  PROVE  LET rows == [pushes EXCEPT ![i].state = st]
         IN  rows \in Seq(Push) /\ Len(rows) = Len(pushes)
<1>1. [pushes[i] EXCEPT !.state = st] \in Push
  BY Rows DEF Push
<1> QED
  BY <1>1, RowReplaced DEF GradebookTypeOK

\* Archiving the push whose assignment is gone keeps the types.
LEMMA CheckAssignmentTypes ==
  ASSUME Inv, NEW q \in Sends, CheckAssignment(q)
  PROVE  GradebookTypeOK'
<1>1. send[q].push \in DOMAIN pushes
  BY DEF CheckAssignment, Inv, OneSlot, Works, WorksOnItsPush
<1>2. pushes' \in Seq(Push) /\ Len(pushes') = Len(pushes)
  <2>1. CASE UNCHANGED pushes
    BY <2>1 DEF Inv, GradebookTypeOK
  <2>2. CASE Archive(send[q].push)
    BY <1>1, <2>2, StateTypes DEF Archive, Inv
  <2> QED
    BY <2>1, <2>2 DEF CheckAssignment
<1>3. send' \in [Sends -> Send]
  BY FinishTypes, ContinueTypes DEF CheckAssignment, Inv, Steps
<1> QED
  BY <1>2, <1>3 DEF CheckAssignment, Inv, GradebookTypeOK, histories

\* The rows without the old claims are rows, as many as before.
LEMMA WithoutOldClaimsTypes ==
  ASSUME GradebookTypeOK
  PROVE  WithoutOldClaims \in Seq(Push) /\ Len(WithoutOldClaims) = Len(pushes)
<1>1. \A i \in DOMAIN pushes : [pushes[i] EXCEPT !.state = "deleted"] \in Push
  BY Rows DEF Push
<1>2. WithoutOldClaims \in [1..Len(pushes) -> Push]
  BY <1>1, Rows DEF WithoutOldClaims
<1> QED
  BY <1>2, Rows, SeqDef

\* The insert of the claim, with or without an old one removed.
LEMMA ClaimTypes ==
  ASSUME GradebookTypeOK, NEW q \in Sends, Claim(q)
  PROVE  GradebookTypeOK'
<1> DEFINE row == [state |-> "claim", old |-> FALSE, assignment |-> 0, sent |-> Nothing]
<1>1. row \in Push
  BY PointsTypes, GradebookAssumption DEF Push
<1>2. /\ Append(WithoutOldClaims, row) \in Seq(Push)
      /\ Len(Append(WithoutOldClaims, row)) = Len(pushes) + 1
  BY <1>1, WithoutOldClaimsTypes, AppendProperties
<1>3. CASE Finish(q) /\ UNCHANGED <<pushes, lostCreate>>
  <2>1. send' \in [Sends -> Send]
    BY <1>3, FinishTypes
  <2> QED
    BY <1>3, <2>1 DEF Claim, GradebookTypeOK
<1>4. CASE Len(pushes) < MaxPushes /\ lostCreate' \in BOOLEAN
           /\ pushes' = WithoutOldClaims /\ Finish(q)
  <2>1. send' \in [Sends -> Send]
    BY <1>4, FinishTypes
  <2>2. pushes' \in Seq(Push) /\ Len(pushes') <= MaxPushes
    BY <1>4, WithoutOldClaimsTypes DEF GradebookTypeOK
  <2> QED
    BY <1>4, <2>1, <2>2 DEF Claim, GradebookTypeOK
<1>5. CASE Len(pushes) < MaxPushes /\ lostCreate' \in BOOLEAN
           /\ pushes' = Append(WithoutOldClaims, row)
           /\ send' = [send EXCEPT ![q].push = Len(pushes) + 1, ![q].at = "create"]
  <2> DEFINE s == [send[q] EXCEPT !.push = Len(pushes) + 1, !.at = "create"]
  <2>1. Len(pushes) + 1 \in 0..MaxPushes
    BY <1>5, Rows, GradebookAssumption
  <2>2. s \in Send
    BY <2>1 DEF GradebookTypeOK, Send
  <2>3. send' = [send EXCEPT ![q] = s]
    BY <1>5
  <2> HIDE DEF s
  <2>4. send' \in [Sends -> Send]
    BY <2>2, <2>3 DEF GradebookTypeOK
  <2>5. pushes' \in Seq(Push) /\ Len(pushes') <= MaxPushes
    BY <1>2, <1>5, <2>1
  <2> QED
    BY <1>5, <2>4, <2>5 DEF Claim, GradebookTypeOK
<1> QED
  BY <1>3, <1>4, <1>5 DEF Claim

\* A claim given up leaves rows.
LEMMA DeleteClaimTypes ==
  ASSUME GradebookTypeOK, NEW i \in DOMAIN pushes, DeleteClaim(i)
  PROVE  pushes' \in Seq(Push) /\ Len(pushes') = Len(pushes)
<1> DEFINE st == IF pushes[i].state = "claim" THEN "deleted" ELSE pushes[i].state
<1>1. st \in {"claim", "live", "archived", "deleted"}
  BY Rows DEF Push
<1>2. pushes' = [pushes EXCEPT ![i].state = st]
  BY DEF DeleteClaim
<1> HIDE DEF st
<1> QED
  BY <1>1, <1>2, StateTypes

\* PowerSchool has one assignment more.
LEMMA CreatedTypes ==
  ASSUME GradebookTypeOK, Len(gradebook) < MaxAssignments
  PROVE  LET g == Append(gradebook, [exists |-> TRUE, cell |-> Nothing])
         IN  g \in Seq(Assignment) /\ Len(g) = Len(gradebook) + 1 /\ Len(g) \in 0..MaxAssignments
<1>1. [exists |-> TRUE, cell |-> Nothing] \in Assignment
  BY PointsTypes DEF Assignment
<1>2. /\ Append(gradebook, [exists |-> TRUE, cell |-> Nothing]) \in Seq(Assignment)
      /\ Len(Append(gradebook, [exists |-> TRUE, cell |-> Nothing])) = Len(gradebook) + 1
  BY <1>1, AppendProperties DEF GradebookTypeOK
<1>3. Len(gradebook) + 1 \in 0..MaxAssignments
  BY Rows, GradebookAssumption
<1> QED
  BY <1>2, <1>3

\* Each way a create can end keeps the types.
LEMMA CreateTypes ==
  ASSUME Inv, NEW q \in Sends, Create(q)
  PROVE  GradebookTypeOK'
<1>1. GradebookTypeOK /\ send[q].push \in DOMAIN pushes
  BY DEF Create, Inv, OneSlot, Claims, OwnsItsClaim
<1>2. pushes' \in Seq(Push) /\ Len(pushes') <= MaxPushes
  <2>1. CASE UNCHANGED pushes
    BY <1>1, <2>1 DEF GradebookTypeOK
  <2>2. CASE DeleteClaim(send[q].push)
    BY <1>1, <2>2, DeleteClaimTypes DEF GradebookTypeOK
  <2> QED
    BY <2>1, <2>2 DEF Create
<1>3. gradebook' \in Seq(Assignment) /\ Len(gradebook') <= MaxAssignments
  <2>1. CASE UNCHANGED gradebook
    BY <1>1, <2>1 DEF GradebookTypeOK
  <2>2. CASE /\ Len(gradebook) < MaxAssignments
             /\ gradebook' = Append(gradebook, [exists |-> TRUE, cell |-> Nothing])
    <3>1. gradebook' \in Seq(Assignment) /\ Len(gradebook') \in 0..MaxAssignments
      BY <1>1, <2>2, CreatedTypes
    <3> QED
      BY <3>1, GradebookAssumption
  <2> QED
    BY <2>1, <2>2 DEF Create
<1>4. send' \in [Sends -> Send]
  <2>1. CASE Finish(q)
    BY <1>1, <2>1, FinishTypes
  <2>2. CASE /\ Len(gradebook) < MaxAssignments
             /\ send' = [send EXCEPT ![q].assignment = Len(gradebook) + 1, ![q].at = "created"]
    <3>1. [send[q] EXCEPT !.assignment = Len(gradebook) + 1, !.at = "created"] \in Send
      BY <1>1, <2>2, CreatedTypes DEF GradebookTypeOK, Send
    <3> QED
      BY <1>1, <2>2, <3>1 DEF GradebookTypeOK
  <2> QED
    BY <2>1, <2>2 DEF Create
<1>5. losses' \in 0..MaxLosses
  BY <1>1, GradebookAssumption DEF Create, GradebookTypeOK
<1>6. lostCreate' \in BOOLEAN
  BY <1>1 DEF Create, GradebookTypeOK
<1> QED
  BY <1>1, <1>2, <1>3, <1>4, <1>5, <1>6 DEF Create, GradebookTypeOK

\* Noting the assignment in the claimed row, or finding the row gone.
LEMMA CreatedStepTypes ==
  ASSUME Inv, NEW q \in Sends, Created(q)
  PROVE  GradebookTypeOK'
<1> DEFINE i == send[q].push
           row == [pushes[i] EXCEPT !.state = "live", !.assignment = send[q].assignment]
<1>1. GradebookTypeOK /\ i \in DOMAIN pushes
  BY DEF Created, Inv, OneSlot, Claims, OwnsItsClaim
<1>2. row \in Push
  BY <1>1, Rows DEF Push, GradebookTypeOK, Send
<1>3. pushes' \in Seq(Push) /\ Len(pushes') = Len(pushes)
  <2>1. CASE UNCHANGED pushes
    BY <1>1, <2>1 DEF GradebookTypeOK
  <2>2. CASE ~UNCHANGED pushes
    <3>1. pushes' = [pushes EXCEPT ![i] = row]
      BY <2>2 DEF Created
    <3> HIDE DEF i, row
    <3> QED
      BY <1>1, <1>2, <3>1, RowReplaced DEF GradebookTypeOK
  <2> QED
    BY <2>1, <2>2
<1>4. send' \in [Sends -> Send]
  BY <1>1, FinishTypes, ContinueTypes DEF Created, Steps
<1> QED
  BY <1>1, <1>3, <1>4 DEF Created, GradebookTypeOK, histories

\* The cells of an assignment are written.
LEMMA WriteCellsTypes ==
  ASSUME GradebookTypeOK, NEW g, NEW points \in Points, WriteCells(g, points)
  PROVE  gradebook' \in Seq(Assignment) /\ Len(gradebook') = Len(gradebook)
<1>0. CASE g \notin DOMAIN gradebook
  <2>1. gradebook \in [1..Len(gradebook) -> Assignment] /\ DOMAIN gradebook = 1..Len(gradebook)
    BY LenProperties DEF GradebookTypeOK
  <2>2. gradebook' = gradebook
    BY <1>0, <2>1 DEF WriteCells
  <2> QED
    BY <2>2 DEF GradebookTypeOK
<1> SUFFICES ASSUME g \in DOMAIN gradebook
             PROVE  gradebook' \in Seq(Assignment) /\ Len(gradebook') = Len(gradebook)
  BY <1>0
<1> DEFINE cell == [a \in Candidates |-> IF points[a] = NoTotal THEN gradebook[g].cell[a] ELSE points[a]]
<1>1. cell \in Points
  BY Rows DEF Assignment, Points
<1>2. gradebook' = [gradebook EXCEPT ![g].cell = cell]
  BY DEF WriteCells
<1> HIDE DEF cell
<1>3. [gradebook[g] EXCEPT !.cell = cell] \in Assignment
  BY <1>1, Rows DEF Assignment
<1> QED
  BY <1>2, <1>3, RowReplaced DEF GradebookTypeOK

\* Each way the write of the scores can end keeps the types.
LEMMA PutTypes ==
  ASSUME Inv, NEW q \in Sends, Put(q)
  PROVE  GradebookTypeOK'
<1> DEFINE g == send[q].assignment
<1>1. /\ GradebookTypeOK /\ send[q].push \in DOMAIN pushes
      /\ send[q].todo \in Points
  BY DEF Put, Inv, OneSlot, Works, WorksOnItsPush, GradebookTypeOK, Send
<1>2. CASE Archive(send[q].push) /\ Finish(q) /\ UNCHANGED <<gradebook, losses, doubtful>>
  <2>1. pushes' \in Seq(Push) /\ Len(pushes') = Len(pushes)
    BY <1>1, <1>2, StateTypes DEF Archive
  <2>2. send' \in [Sends -> Send]
    BY <1>1, <1>2, FinishTypes
  <2> QED
    BY <1>1, <1>2, <2>1, <2>2 DEF Put, GradebookTypeOK
<1>3. ASSUME NEW as \in SUBSET Candidates, WriteCells(g, Only(send[q].todo, as)), UNCHANGED pushes,
             \/ /\ \/ Finish(q)
                   \/ send' = [send EXCEPT ![q].todo = Accepted(send[q].todo, as), ![q].at = "record"]
                /\ doubtful' = (doubtful \ as) \cup {a \in as : Unrecorded(q, a)}
                /\ UNCHANGED losses
             \/ /\ losses < MaxLosses /\ losses' = losses + 1
                /\ doubtful' = doubtful \cup as
                /\ Finish(q)
      PROVE  GradebookTypeOK'
  <2>1. Only(send[q].todo, as) \in Points
    BY <1>1, PointsTypes
  <2>2. gradebook' \in Seq(Assignment) /\ Len(gradebook') = Len(gradebook)
    BY <1>1, <1>3, <2>1, WriteCellsTypes
  <2>3. [send[q] EXCEPT !.todo = Accepted(send[q].todo, as), !.at = "record"] \in Send
    BY <1>1, <2>1 DEF Accepted, GradebookTypeOK, Send
  <2>4. send' \in [Sends -> Send]
    <3>1. CASE Finish(q)
      BY <1>1, <3>1, FinishTypes
    <3>2. CASE ~Finish(q)
      BY <1>1, <1>3, <2>3, <3>2 DEF GradebookTypeOK
    <3> QED
      BY <3>1, <3>2
  <2>5. losses' \in 0..MaxLosses
    <3>1. losses' = losses \/ (losses < MaxLosses /\ losses' = losses + 1)
      BY <1>3
    <3> QED
      BY <1>1, <3>1, GradebookAssumption DEF GradebookTypeOK
  <2>6. doubtful' \subseteq Candidates
    BY <1>1, <1>3 DEF GradebookTypeOK
  <2> QED
    BY <1>1, <1>3, <2>2, <2>4, <2>5, <2>6 DEF Put, GradebookTypeOK
<1>4. CASE \E as \in SUBSET Some(send[q].todo) :
             /\ WriteCells(g, Only(send[q].todo, as)) /\ UNCHANGED pushes
             /\ \/ /\ \/ Finish(q)
                      \/ send' = [send EXCEPT ![q].todo = Accepted(send[q].todo, as), ![q].at = "record"]
                   /\ doubtful' = (doubtful \ as) \cup {a \in as : Unrecorded(q, a)}
                   /\ UNCHANGED losses
                \/ /\ losses < MaxLosses /\ losses' = losses + 1
                   /\ doubtful' = doubtful \cup as
                   /\ Finish(q)
  BY <1>3, <1>4 DEF Some
<1> QED
  BY <1>2, <1>4 DEF Put

\* The record of each score sent is points.
LEMMA RecordTypes ==
  ASSUME Inv, NEW q \in Sends, NEW a \in Candidates, Record(q, a)
  PROVE  GradebookTypeOK'
<1> DEFINE i == send[q].push
           sent == [pushes[i].sent EXCEPT ![a] = send[q].todo[a]]
           todo == [send[q].todo EXCEPT ![a] = NoTotal]
<1>1. /\ GradebookTypeOK /\ i \in DOMAIN pushes
      /\ send[q].todo \in Points /\ pushes[i] \in Push
  BY Rows DEF Record, Inv, OneSlot, Works, WorksOnItsPush, GradebookTypeOK, Send
<1>2. sent \in Points /\ todo \in Points
  BY <1>1 DEF Push, Points
<1>3. [pushes[i] EXCEPT !.sent = sent] \in Push
  BY <1>1, <1>2 DEF Push
<1>4. pushes' = [pushes EXCEPT ![i] = [pushes[i] EXCEPT !.sent = sent]]
  BY DEF Record
<1>5. [send[q] EXCEPT !.todo = todo] \in Send
  BY <1>1, <1>2 DEF GradebookTypeOK, Send
<1>6. Finish(q) \/ send' = [send EXCEPT ![q] = [send[q] EXCEPT !.todo = todo]]
  BY DEF Record
<1> HIDE DEF i, sent, todo
<1>7. pushes' \in Seq(Push) /\ Len(pushes') = Len(pushes)
  BY <1>1, <1>3, <1>4, RowReplaced DEF GradebookTypeOK
<1>8. send' \in [Sends -> Send]
  BY <1>1, <1>5, <1>6, FinishTypes DEF GradebookTypeOK
<1> QED
  BY <1>1, <1>7, <1>8 DEF Record, GradebookTypeOK, histories

\* A send that dies leaves its rows.
LEMMA SendDiesTypes ==
  ASSUME GradebookTypeOK, NEW q \in Sends, SendDies(q)
  PROVE  GradebookTypeOK'
<1>1. send' \in [Sends -> Send]
  BY FinishTypes DEF SendDies
<1>2. losses' \in 0..MaxLosses
  BY GradebookAssumption DEF SendDies, GradebookTypeOK
<1>3. lostCreate' \in BOOLEAN /\ doubtful' \subseteq Candidates
  BY DEF SendDies, GradebookTypeOK, Some
<1> QED
  BY <1>1, <1>2, <1>3 DEF SendDies, GradebookTypeOK

\* A claim that ages is still a row.
LEMMA ClaimAgesTypes ==
  ASSUME GradebookTypeOK, NEW i, ClaimAges(i)
  PROVE  GradebookTypeOK'
<1>1. [pushes[i] EXCEPT !.old = TRUE] \in Push
  BY Rows DEF ClaimAges, Push
<1>2. pushes' \in Seq(Push) /\ Len(pushes') = Len(pushes)
  BY <1>1, RowReplaced DEF ClaimAges, GradebookTypeOK
<1> QED
  BY <1>2 DEF ClaimAges, GradebookTypeOK, histories

\* An assignment deleted by hand is still one of the gradebook's.
LEMMA DeleteAssignmentTypes ==
  ASSUME GradebookTypeOK, NEW g, DeleteAssignment(g)
  PROVE  GradebookTypeOK'
<1>1. [gradebook[g] EXCEPT !.exists = FALSE] \in Assignment
  BY Rows DEF DeleteAssignment, Assignment
<1>2. gradebook' \in Seq(Assignment) /\ Len(gradebook') = Len(gradebook)
  BY <1>1, RowReplaced DEF DeleteAssignment, GradebookTypeOK
<1> QED
  BY <1>2 DEF DeleteAssignment, GradebookTypeOK, histories

\* A rescored attempt has points.
LEMMA TotalChangesTypes ==
  ASSUME GradebookTypeOK, NEW a \in Candidates, NEW t \in Totals \cup {NoTotal}, TotalChanges(a, t)
  PROVE  GradebookTypeOK'
  BY DEF TotalChanges, GradebookTypeOK, Points, histories

\* Every step keeps the types.
LEMMA TypesStep == Inv /\ [GradebookNext]_gradebookVars => GradebookTypeOK'
<1> SUFFICES ASSUME Inv, [GradebookNext]_gradebookVars PROVE GradebookTypeOK'
  OBVIOUS
<1>1. GradebookTypeOK
  BY DEF Inv
<1>2. ASSUME NEW q \in Sends,
             \/ SendStart(q) \/ PriorScores(q) \/ Plan(q) \/ CheckAssignment(q) \/ Claim(q)
             \/ Create(q) \/ Created(q) \/ Put(q) \/ SendDies(q)
      PROVE  GradebookTypeOK'
  BY <1>1, <1>2, SendStartTypes, PriorScoresTypes, PlanTypes, CheckAssignmentTypes, ClaimTypes,
     CreateTypes, CreatedStepTypes, PutTypes, SendDiesTypes
<1>3. ASSUME NEW q \in Sends, NEW a \in Candidates, Record(q, a) PROVE GradebookTypeOK'
  BY <1>3, RecordTypes
<1>4. ASSUME NEW i, ClaimAges(i) \/ DeleteAssignment(i) PROVE GradebookTypeOK'
  BY <1>1, <1>4, ClaimAgesTypes, DeleteAssignmentTypes
<1>5. ASSUME NEW a \in Candidates, NEW t \in Totals \cup {NoTotal}, TotalChanges(a, t)
      PROVE  GradebookTypeOK'
  BY <1>1, <1>5, TotalChangesTypes
<1>6. CASE UNCHANGED gradebookVars
  BY <1>1, <1>6 DEF gradebookVars, GradebookTypeOK
<1> QED
  BY <1>2, <1>3, <1>4, <1>5, <1>6 DEF GradebookNext

-----------------------------------------------------------------------------
(* One slot *)

\* Most steps leave the claims alone: sends go on or end, holding no claim and
\* on a push that has its assignment; a push may be archived once its
\* assignment is gone; assignments disappear.
LEMMA Moves ==
  ASSUME Inv, NEW moved \in SUBSET Sends,
         \A p \in Sends \ moved : send'[p] = send[p],
         \A q \in moved : /\ send'[q].at \in {"prior", "check", "put", "record"} => send'[q].push # 0
                          /\ ~Claims(q)'
                          /\ Works(q)' => WorksOnItsPush(q)'
                          /\ ~lostCreate' => send[q].at # "created",
         DOMAIN pushes' = DOMAIN pushes,
         \A i \in DOMAIN pushes :
           /\ pushes'[i].assignment = pushes[i].assignment
           /\ \/ pushes'[i].state = pushes[i].state
              \/ /\ pushes[i].state \in {"live", "archived"} /\ pushes'[i].state = "archived"
                 /\ ~gradebook[pushes[i].assignment].exists,
         \A g \in DOMAIN gradebook' : g \in DOMAIN gradebook /\ (gradebook'[g].exists => gradebook[g].exists),
         lostCreate => lostCreate'
  PROVE  OneSlot'
<1>1. OneLive'
  BY DEF Inv, OneSlot, OneLive, Live
<1>2. \A p \in Sends : (send[p].at \in {"prior", "check", "put", "record"} => send[p].push # 0)'
  BY DEF Inv, OneSlot
<1>3. ASSUME NEW p \in Sends, Works(p)' PROVE WorksOnItsPush(p)'
  <2>1. CASE p \notin moved
    BY <1>3, <2>1 DEF Inv, OneSlot, Works, WorksOnItsPush
  <2> QED
    BY <1>3, <2>1
<1>4. ASSUME NEW p \in Sends, Claims(p)'
      PROVE  OwnsItsClaim(p)' /\ p \notin moved /\ send'[p] = send[p] /\ Claims(p)
  BY <1>4 DEF Inv, OneSlot, Claims, OwnsItsClaim
<1>5. \A p, q \in Sends : (Claims(p) /\ Claims(q) /\ send[p].push = send[q].push => p = q)'
  BY <1>4 DEF Inv, OneSlot
<1>6. ASSUME ~lostCreate', NEW g \in DOMAIN gradebook', gradebook'[g].exists
      PROVE  (NamedByPush(g) \/ NamedBySend(g))'
  <2>1. NamedByPush(g) \/ NamedBySend(g)
    BY <1>6 DEF Inv, OneSlot, Named
  <2>2. CASE NamedByPush(g)
    BY <1>6, <2>2 DEF NamedByPush
  <2>3. CASE NamedBySend(g)
    BY <1>6, <2>3 DEF NamedBySend
  <2> QED
    BY <2>1, <2>2, <2>3
<1> QED
  BY <1>1, <1>2, <1>3, <1>4, <1>5, <1>6 DEF OneSlot, Named

\* Finish, seen from each send.
LEMMA Finished ==
  ASSUME GradebookTypeOK, NEW q \in Sends, Finish(q)
  PROVE  /\ \A p \in Sends \ {q} : send'[p] = send[p]
         /\ send'[q] = Idling /\ ~Works(q)' /\ ~Claims(q)' /\ send'[q].at = "idle"
  BY DEF Finish, GradebookTypeOK, Idling, Works, Claims

\* A claim is given up by the send that owns it, or removed as stale, which the
\* send that may still own it is charged for (lostCreate): nothing becomes live.
LEMMA ClaimsRemoved ==
  ASSUME Inv, NEW q \in Sends, send[q].at # "created", Finish(q),
         ~lostCreate' => UNCHANGED gradebook,
         lostCreate => lostCreate',
         DOMAIN pushes' = DOMAIN pushes,
         \A i \in DOMAIN pushes :
           /\ pushes'[i].assignment = pushes[i].assignment
           /\ \/ pushes'[i].state = pushes[i].state
              \/ pushes[i].state = "claim" /\ pushes'[i].state = "deleted",
         \A p \in Sends \ {q} : Claims(p) /\ ~lostCreate' =>
           pushes'[send[p].push].state = pushes[send[p].push].state
  PROVE  OneSlot'
<1>1. OneLive'
  BY DEF Inv, OneSlot, OneLive, Live
<1>2. \A p \in Sends : (send[p].at \in {"prior", "check", "put", "record"} => send[p].push # 0)'
  BY Finished DEF Inv, OneSlot
<1>3. ASSUME NEW p \in Sends, Works(p)' PROVE WorksOnItsPush(p)'
  <2>1. p # q /\ send'[p] = send[p] /\ Works(p)
    BY <1>3, Finished DEF Inv, Works
  <2> QED
    BY <2>1 DEF Inv, OneSlot, WorksOnItsPush
<1>4. ASSUME NEW p \in Sends, Claims(p)'
      PROVE  OwnsItsClaim(p)' /\ send'[p] = send[p] /\ Claims(p)
  <2>1. p # q /\ send'[p] = send[p] /\ Claims(p)
    BY <1>4, Finished DEF Inv, Claims
  <2> QED
    BY <2>1 DEF Inv, OneSlot, OwnsItsClaim
<1>5. \A p, r \in Sends : (Claims(p) /\ Claims(r) /\ send[p].push = send[r].push => p = r)'
  BY <1>4 DEF Inv, OneSlot
<1>6. ASSUME ~lostCreate', NEW g \in DOMAIN gradebook', gradebook'[g].exists
      PROVE  (NamedByPush(g) \/ NamedBySend(g))'
  <2>1. NamedByPush(g) \/ NamedBySend(g)
    BY <1>6 DEF Inv, OneSlot, Named
  <2>2. CASE NamedByPush(g)
    BY <2>2 DEF NamedByPush
  <2>3. CASE NamedBySend(g)
    BY <2>3, Finished DEF Inv, NamedBySend
  <2> QED
    BY <2>1, <2>2, <2>3
<1> QED
  BY <1>1, <1>2, <1>3, <1>4, <1>5, <1>6 DEF OneSlot, Named

\* A send takes the live row as it is, and works on it only when it has its assignment.
LEMMA SendStartSlot ==
  ASSUME Inv, NEW q \in Sends, SendStart(q)
  PROVE  OneSlot'
<1>1. \A p \in Sends \ {q} : send'[p] = send[p]
  BY DEF SendStart, Inv, GradebookTypeOK
<1>2. \A i \in DOMAIN pushes : i # 0
  BY Rows DEF Inv
<1>3. \/ send'[q].at = "plan" /\ send'[q].push = 0
      \/ \E i \in DOMAIN pushes :
           /\ pushes[i].state = "live"
           /\ send'[q].at = "prior" /\ send'[q].push = i /\ send'[q].assignment = pushes[i].assignment
  BY DEF SendStart, Inv, GradebookTypeOK, Idling, Live
<1>4. /\ send'[q].at \in {"prior", "check", "put", "record"} => send'[q].push # 0
      /\ ~Claims(q)' /\ (Works(q)' => WorksOnItsPush(q)')
  BY <1>2, <1>3 DEF SendStart, Works, WorksOnItsPush, Claims
<1> QED
  BY <1>1, <1>4, Moves, {q} \in SUBSET Sends DEF SendStart, histories

\* Reading the prior scores takes no claim.
LEMMA PriorScoresSlot ==
  ASSUME Inv, NEW q \in Sends, PriorScores(q)
  PROVE  OneSlot'
<1>1. /\ \A p \in Sends \ {q} : send'[p] = send[p]
      /\ send'[q].at = "plan" /\ send'[q].push = send[q].push /\ send'[q].assignment = send[q].assignment
  BY DEF PriorScores, Inv, GradebookTypeOK, Send
<1>2. WorksOnItsPush(q)
  BY DEF PriorScores, Inv, OneSlot, Works
<1>3. ~Claims(q)' /\ WorksOnItsPush(q)'
  BY <1>1, <1>2 DEF PriorScores, WorksOnItsPush, Claims
<1> QED
  BY <1>1, <1>3, Moves, {q} \in SUBSET Sends DEF PriorScores, histories

\* Planning takes no claim; a first send goes on to ask for one.
LEMMA PlanSlot ==
  ASSUME Inv, NEW q \in Sends, Plan(q)
  PROVE  OneSlot'
<1>1. \A p \in Sends \ {q} : send'[p] = send[p]
  BY DEF Plan, Finish, Inv, GradebookTypeOK
<1>2. \/ send'[q] = Idling
      \/ /\ send'[q].push = send[q].push /\ send'[q].assignment = send[q].assignment
         /\ send'[q].at = IF send[q].push = 0 THEN "claim" ELSE "check"
  BY DEF Plan, Finish, Inv, GradebookTypeOK, Send
<1>3. send[q].push # 0 => WorksOnItsPush(q)
  BY DEF Plan, Inv, OneSlot, Works
<1>4. /\ send'[q].at \in {"prior", "check", "put", "record"} => send'[q].push # 0
      /\ ~Claims(q)' /\ (Works(q)' => WorksOnItsPush(q)')
  BY <1>2, <1>3 DEF Plan, Idling, Works, WorksOnItsPush, Claims
<1> QED
  BY <1>1, <1>4, Moves, {q} \in SUBSET Sends DEF Plan, histories

\* A push is archived by a send that found its assignment gone.
LEMMA ArchiveSlot ==
  ASSUME Inv, NEW q \in Sends, send[q].at \in {"check", "put"}, Archive(send[q].push), Finish(q),
         ~gradebook[send[q].assignment].exists, UNCHANGED <<gradebook, lostCreate>>
  PROVE  OneSlot'
<1>1. WorksOnItsPush(q)
  BY DEF Inv, OneSlot, Works
<1>2. DOMAIN pushes' = DOMAIN pushes
  BY DEF Archive
<1>3. \A i \in DOMAIN pushes :
           /\ pushes'[i].assignment = pushes[i].assignment
           /\ \/ pushes'[i].state = pushes[i].state
              \/ /\ pushes[i].state \in {"live", "archived"} /\ pushes'[i].state = "archived"
                 /\ ~gradebook[pushes[i].assignment].exists
  BY <1>1, Rows DEF Archive, WorksOnItsPush, Inv, Push
<1> QED
  BY <1>2, <1>3, Finished, Moves, {q} \in SUBSET Sends DEF Inv

\* A row is archived only when its assignment is gone, so it names none that exists.
LEMMA CheckAssignmentSlot ==
  ASSUME Inv, NEW q \in Sends, CheckAssignment(q)
  PROVE  OneSlot'
<1>1. CASE Archive(send[q].push) /\ Finish(q) /\ ~gradebook[send[q].assignment].exists
  BY <1>1, ArchiveSlot DEF CheckAssignment, histories
<1>2. CASE Finish(q) /\ UNCHANGED pushes
  BY <1>2, Finished, Moves, {q} \in SUBSET Sends DEF CheckAssignment, Inv, histories
<1>3. CASE Continue(q, "put") /\ UNCHANGED pushes
  <2>1. /\ \A p \in Sends \ {q} : send'[p] = send[p]
        /\ send'[q].at = "put" /\ send'[q].push = send[q].push /\ send'[q].assignment = send[q].assignment
    BY <1>3 DEF Continue, Inv, GradebookTypeOK, Send
  <2>2. send[q].push # 0 /\ WorksOnItsPush(q)
    BY DEF CheckAssignment, Inv, OneSlot, Works
  <2>3. ~Claims(q)' /\ WorksOnItsPush(q)'
    BY <1>3, <2>1, <2>2 DEF WorksOnItsPush, Claims
  <2> QED
    BY <1>3, <2>1, <2>2, <2>3, Moves, {q} \in SUBSET Sends DEF CheckAssignment, histories
<1> QED
  BY <1>1, <1>2, <1>3 DEF CheckAssignment

\* What the removal of stale claims leaves.
LEMMA WithoutOldClaimsRows ==
  ASSUME GradebookTypeOK
  PROVE  /\ DOMAIN WithoutOldClaims = DOMAIN pushes
         /\ \A i \in DOMAIN pushes :
              /\ WithoutOldClaims[i].assignment = pushes[i].assignment
              /\ \/ WithoutOldClaims[i].state = pushes[i].state
                 \/ pushes[i].state = "claim" /\ WithoutOldClaims[i].state = "deleted"
  BY Rows DEF WithoutOldClaims, Push

\* The claim: refused, or made where no live row or claim is left.
LEMMA ClaimSlot ==
  ASSUME Inv, NEW q \in Sends, Claim(q)
  PROVE  OneSlot'
<1> DEFINE n == Len(pushes) + 1
           row == [state |-> "claim", old |-> FALSE, assignment |-> 0, sent |-> Nothing]
<1>1. GradebookTypeOK /\ send[q].at = "claim" /\ ~Claims(q)
  BY DEF Claim, Inv, Claims
<1>2. CASE Finish(q) /\ UNCHANGED <<pushes, lostCreate>>
  BY <1>1, <1>2, Finished, Moves, {q} \in SUBSET Sends DEF Claim
<1> DEFINE Charged == lostCreate' = (lostCreate \/ \E i \in DOMAIN pushes :
             pushes'[i].state = "deleted" /\ pushes[i].state = "claim" /\ HeldBySomeone(i))
<1>3. ASSUME Charged, NEW p \in Sends, Claims(p), ~lostCreate'
      PROVE  /\ send[p].push \in DOMAIN pushes /\ pushes[send[p].push].state = "claim"
             /\ pushes'[send[p].push].state # "deleted"
  <2>1. send[p].push \in DOMAIN pushes /\ pushes[send[p].push].state = "claim"
    BY <1>3 DEF Inv, OneSlot, OwnsItsClaim
  <2>2. HeldBySomeone(send[p].push)
    BY <1>3 DEF Claims, HeldBySomeone
  <2> QED
    BY <1>3, <2>1, <2>2
<1>4. CASE Charged /\ pushes' = WithoutOldClaims /\ Finish(q)
  <2>1. lostCreate => lostCreate'
    BY <1>4
  <2>2. \A p \in Sends \ {q} : Claims(p) /\ ~lostCreate' =>
           pushes'[send[p].push].state = pushes[send[p].push].state
    BY <1>1, <1>3, <1>4, WithoutOldClaimsRows
  <2>3. UNCHANGED gradebook
    BY DEF Claim
  <2> HIDE DEF Charged
  <2> QED
    BY <1>1, <1>4, <2>1, <2>2, <2>3, WithoutOldClaimsRows, ClaimsRemoved
<1>5. CASE /\ Charged /\ ~Refused(WithoutOldClaims) /\ pushes' = Append(WithoutOldClaims, row)
           /\ send' = [send EXCEPT ![q].push = n, ![q].at = "create"]
  <2>1. /\ DOMAIN pushes = 1..Len(pushes) /\ Len(pushes) \in Nat /\ n \notin DOMAIN pushes
        /\ DOMAIN pushes' = 1..n
        /\ \A i \in DOMAIN pushes : pushes'[i] = WithoutOldClaims[i]
        /\ pushes'[n] = row
    <3>1. WithoutOldClaims \in Seq(Push) /\ Len(WithoutOldClaims) = Len(pushes)
      BY <1>1, WithoutOldClaimsTypes
    <3>2. row \in Push
      BY PointsTypes, GradebookAssumption DEF Push
    <3> HIDE DEF row
    <3>3. /\ pushes' \in Seq(Push) /\ Len(pushes') = n
          /\ \A i \in 1..Len(pushes) : pushes'[i] = WithoutOldClaims[i]
          /\ pushes'[n] = row
      BY <1>5, <3>1, <3>2, AppendProperties
    <3> QED
      BY <1>1, <3>3, Rows, LenProperties
  <2>2. /\ \A p \in Sends \ {q} : send'[p] = send[p]
        /\ send'[q].at = "create" /\ send'[q].push = n
    BY <1>1, <1>5 DEF GradebookTypeOK, Send
  <2>3. UNCHANGED gradebook /\ (lostCreate => lostCreate')
    BY <1>5 DEF Claim
  <2>4. \A i \in DOMAIN pushes : pushes'[i].state \notin {"claim", "live"}
    BY <1>1, <1>5, <2>1, WithoutOldClaimsRows DEF Refused, Live
  <2> HIDE DEF n, Charged
  <2>5. OneLive'
    BY <2>1, <2>4 DEF OneLive, Live, n
  <2>6. \A p \in Sends : (send[p].at \in {"prior", "check", "put", "record"} => send[p].push # 0)'
    BY <2>2 DEF Inv, OneSlot
  <2>7. ASSUME NEW p \in Sends, Works(p)' PROVE WorksOnItsPush(p)'
    <3>1. p # q /\ send'[p] = send[p] /\ Works(p)
      BY <2>2, <2>7 DEF Works
    <3>2. WorksOnItsPush(p)
      BY <3>1 DEF Inv, OneSlot
    <3> QED
      BY <1>1, <2>1, <3>1, <3>2, WithoutOldClaimsRows DEF WorksOnItsPush, n
  <2>8. ASSUME NEW p \in Sends \ {q}, Claims(p)'
        PROVE  send'[p] = send[p] /\ Claims(p) /\ send[p].push \in DOMAIN pushes /\ lostCreate'
    <3>1. send'[p] = send[p] /\ Claims(p)
      BY <2>2, <2>8 DEF Claims
    <3>2. send[p].push \in DOMAIN pushes
      BY <3>1 DEF Inv, OneSlot, OwnsItsClaim
    <3>3. lostCreate'
      BY <1>1, <1>3, <1>5, <2>1, <2>4, <3>1, WithoutOldClaimsRows
    <3> QED
      BY <3>1, <3>2, <3>3
  <2>9. \A p \in Sends : (Claims(p) => OwnsItsClaim(p))'
    BY <2>1, <2>2, <2>8 DEF OwnsItsClaim, n
  <2>10. \A p, r \in Sends : (Claims(p) /\ Claims(r) /\ send[p].push = send[r].push => p = r)'
    BY <2>1, <2>2, <2>8 DEF Inv, OneSlot
  <2>11. ASSUME ~lostCreate', NEW g \in DOMAIN gradebook', gradebook'[g].exists
         PROVE  (NamedByPush(g) \/ NamedBySend(g))'
    <3>1. NamedByPush(g) \/ NamedBySend(g)
      BY <2>3, <2>11 DEF Inv, OneSlot, Named
    <3>2. ~NamedByPush(g)
      BY <1>1, <2>1, <2>4, WithoutOldClaimsRows DEF NamedByPush
    <3>3. CASE NamedBySend(g)
      BY <1>1, <2>2, <3>3 DEF NamedBySend
    <3> QED
      BY <3>1, <3>2, <3>3
  <2> QED
    BY <2>5, <2>6, <2>7, <2>9, <2>10, <2>11 DEF OneSlot, Named
<1> QED
  BY <1>2, <1>4, <1>5 DEF Claim

\* DeleteClaim, row by row.
LEMMA DeleteClaimRows ==
  ASSUME GradebookTypeOK, NEW i \in DOMAIN pushes, DeleteClaim(i)
  PROVE  /\ DOMAIN pushes' = DOMAIN pushes
         /\ \A j \in DOMAIN pushes :
              /\ pushes'[j].assignment = pushes[j].assignment
              /\ \/ pushes'[j].state = pushes[j].state
                 \/ pushes[j].state = "claim" /\ pushes'[j].state = "deleted" /\ j = i
  BY Rows DEF DeleteClaim, Push

\* Only the owner of the claim creates, and a refused one gives the claim up.
LEMMA CreateSlot ==
  ASSUME Inv, NEW q \in Sends, Create(q)
  PROVE  OneSlot'
<1> DEFINE n == Len(gradebook) + 1
<1>1. /\ GradebookTypeOK /\ send[q].at = "create" /\ Claims(q) /\ OwnsItsClaim(q)
      /\ send[q].push \in DOMAIN pushes
  BY DEF Create, Inv, OneSlot, Claims, OwnsItsClaim
<1>2. CASE /\ DeleteClaim(send[q].push) /\ Finish(q) /\ (lostCreate => lostCreate')
           /\ ~lostCreate' => UNCHANGED gradebook
  <2>1. \A p \in Sends \ {q} : Claims(p) => send[p].push # send[q].push /\ send[p].push \in DOMAIN pushes
    BY <1>1 DEF Inv, OneSlot, OwnsItsClaim
  <2>2. \A p \in Sends \ {q} : Claims(p) /\ ~lostCreate' =>
           pushes'[send[p].push].state = pushes[send[p].push].state
    BY <1>1, <1>2, <2>1, DeleteClaimRows
  <2> QED
    BY <1>1, <1>2, <2>2, DeleteClaimRows, ClaimsRemoved
<1>3. CASE /\ Len(gradebook) < MaxAssignments
           /\ gradebook' = Append(gradebook, [exists |-> TRUE, cell |-> Nothing])
           /\ send' = [send EXCEPT ![q].assignment = n, ![q].at = "created"]
           /\ UNCHANGED <<pushes, lostCreate>>
  <2>1. /\ DOMAIN gradebook' = 1..n /\ DOMAIN gradebook = 1..Len(gradebook) /\ Len(gradebook) \in Nat
        /\ \A g \in DOMAIN gradebook : gradebook'[g] = gradebook[g]
    <3>1. [exists |-> TRUE, cell |-> Nothing] \in Assignment
      BY PointsTypes DEF Assignment
    <3>2. /\ gradebook' \in Seq(Assignment) /\ Len(gradebook') = n
          /\ \A g \in 1..Len(gradebook) : gradebook'[g] = gradebook[g]
      BY <1>1, <1>3, <3>1, AppendProperties DEF GradebookTypeOK
    <3> QED
      BY <1>1, <3>2, Rows, LenProperties
  <2>2. /\ \A p \in Sends \ {q} : send'[p] = send[p]
        /\ send'[q].at = "created" /\ send'[q].push = send[q].push /\ send'[q].assignment = n
    BY <1>1, <1>3 DEF GradebookTypeOK, Send
  <2> HIDE DEF n
  <2>3. OneLive'
    BY <1>3 DEF Inv, OneSlot, OneLive, Live
  <2>4. \A p \in Sends : (send[p].at \in {"prior", "check", "put", "record"} => send[p].push # 0)'
    BY <2>2 DEF Inv, OneSlot
  <2>5. ASSUME NEW p \in Sends, Works(p)' PROVE WorksOnItsPush(p)'
    <3>1. p # q /\ send'[p] = send[p] /\ Works(p)
      BY <2>2, <2>5 DEF Works
    <3> QED
      BY <1>3, <3>1 DEF Inv, OneSlot, WorksOnItsPush
  <2>6. ASSUME NEW p \in Sends, Claims(p)'
        PROVE  Claims(p) /\ send'[p].push = send[p].push /\ OwnsItsClaim(p)'
    <3>1. Claims(p) /\ send'[p].push = send[p].push
      BY <1>1, <2>2, <2>6 DEF Claims
    <3>2. OwnsItsClaim(p)
      BY <3>1 DEF Inv, OneSlot
    <3> QED
      BY <1>3, <3>1, <3>2 DEF OwnsItsClaim
  <2>7. \A p, r \in Sends : (Claims(p) /\ Claims(r) /\ send[p].push = send[r].push => p = r)'
    BY <2>6 DEF Inv, OneSlot
  <2>8. ASSUME ~lostCreate', NEW g \in DOMAIN gradebook', gradebook'[g].exists
        PROVE  (NamedByPush(g) \/ NamedBySend(g))'
    <3>1. CASE g = n
      BY <2>2, <3>1 DEF NamedBySend
    <3>2. CASE g # n
      <4>1. g \in DOMAIN gradebook /\ gradebook[g].exists
        BY <2>1, <2>8, <3>2 DEF n
      <4>2. NamedByPush(g) \/ NamedBySend(g)
        BY <1>3, <2>8, <4>1 DEF Inv, OneSlot, Named
      <4>3. CASE NamedByPush(g)
        BY <1>3, <4>3 DEF NamedByPush
      <4>4. CASE NamedBySend(g)
        BY <1>1, <2>2, <4>4 DEF NamedBySend
      <4> QED
        BY <4>2, <4>3, <4>4
    <3> QED
      BY <3>1, <3>2
  <2> QED
    BY <2>3, <2>4, <2>5, <2>6, <2>7, <2>8 DEF OneSlot, Named
<1> QED
  BY <1>2, <1>3 DEF Create

\* The claim becomes the push of the assignment: it names it from now on.
LEMMA CreatedSlot ==
  ASSUME Inv, NEW q \in Sends, Created(q)
  PROVE  OneSlot'
<1> DEFINE i == send[q].push
<1>1. /\ GradebookTypeOK /\ send[q].at = "created" /\ Claims(q) /\ OwnsItsClaim(q)
      /\ i \in DOMAIN pushes
  BY DEF Created, Inv, OneSlot, Claims, OwnsItsClaim
<1>2. CASE pushes[i].state # "claim"
  <2>1. lostCreate
    BY <1>1, <1>2 DEF OwnsItsClaim
  <2>2. lostCreate' /\ Finish(q) /\ UNCHANGED <<pushes, gradebook>>
    BY <1>2, <2>1 DEF Created, histories
  <2> QED
    BY <1>1, <2>2, Finished, Moves, {q} \in SUBSET Sends
<1>3. CASE pushes[i].state = "claim"
  <2>1. /\ DOMAIN pushes' = DOMAIN pushes
        /\ \A j \in DOMAIN pushes \ {i} : pushes'[j] = pushes[j]
        /\ pushes'[i].state = "live" /\ pushes'[i].assignment = send[q].assignment
    <3> DEFINE row == [pushes[i] EXCEPT !.state = "live", !.assignment = send[q].assignment]
    <3>1. row.state = "live" /\ row.assignment = send[q].assignment
      BY <1>1, Rows DEF Push
    <3>2. pushes' = [pushes EXCEPT ![i] = row]
      BY <1>3 DEF Created
    <3> HIDE DEF row, i
    <3> QED
      BY <1>1, <3>1, <3>2
  <2>2. /\ \A p \in Sends \ {q} : send'[p] = send[p]
        /\ send'[q].at = "put" /\ send'[q].push = i /\ send'[q].assignment = send[q].assignment
    BY <1>1, <1>3 DEF Created, Continue, GradebookTypeOK, Send
  <2>3. UNCHANGED <<gradebook, lostCreate>>
    BY DEF Created, histories
  <2>4. i # 0
    BY <1>1, Rows
  <2> HIDE DEF i
  <2>5. OneLive'
    BY <1>1, <1>3, <2>1 DEF Inv, OneSlot, OneLive, Live
  <2>6. \A p \in Sends : (send[p].at \in {"prior", "check", "put", "record"} => send[p].push # 0)'
    BY <2>2, <2>4 DEF Inv, OneSlot
  <2>7. ASSUME NEW p \in Sends, Works(p)' PROVE WorksOnItsPush(p)'
    <3>1. CASE p = q
      BY <1>1, <2>1, <2>2, <3>1 DEF WorksOnItsPush
    <3>2. CASE p # q
      <4>1. send'[p] = send[p] /\ WorksOnItsPush(p)
        BY <2>2, <2>7, <3>2 DEF Works, Inv, OneSlot
      <4> QED
        BY <1>3, <2>1, <4>1 DEF WorksOnItsPush
    <3> QED
      BY <3>1, <3>2
  <2>8. ASSUME NEW p \in Sends, Claims(p)'
        PROVE  Claims(p) /\ send'[p] = send[p] /\ OwnsItsClaim(p)'
    <3>1. p # q /\ send'[p] = send[p] /\ Claims(p)
      BY <2>2, <2>8 DEF Claims
    <3>2. OwnsItsClaim(p) /\ send[p].push # i
      BY <1>1, <3>1 DEF Inv, OneSlot, i
    <3> QED
      BY <2>1, <2>3, <3>1, <3>2 DEF OwnsItsClaim
  <2>9. \A p, r \in Sends : (Claims(p) /\ Claims(r) /\ send[p].push = send[r].push => p = r)'
    BY <2>8 DEF Inv, OneSlot
  <2>10. ASSUME ~lostCreate', NEW g \in DOMAIN gradebook', gradebook'[g].exists
         PROVE  (NamedByPush(g) \/ NamedBySend(g))'
    <3>1. NamedByPush(g) \/ NamedBySend(g)
      BY <2>3, <2>10 DEF Inv, OneSlot, Named
    <3>2. CASE NamedByPush(g)
      BY <1>3, <2>1, <3>2 DEF NamedByPush
    <3>3. CASE NamedBySend(g)
      BY <1>1, <2>1, <2>2, <3>3 DEF NamedBySend, NamedByPush
    <3> QED
      BY <3>1, <3>2, <3>3
  <2> QED
    BY <2>5, <2>6, <2>7, <2>8, <2>9, <2>10 DEF OneSlot, Named
<1> QED
  BY <1>2, <1>3

\* The scores change no row's state and no assignment.
LEMMA PutSlot ==
  ASSUME Inv, NEW q \in Sends, Put(q)
  PROVE  OneSlot'
<1>1. GradebookTypeOK /\ send[q].at = "put" /\ send[q].push # 0 /\ WorksOnItsPush(q)
  BY DEF Put, Inv, OneSlot, Works
<1>2. CASE Archive(send[q].push) /\ Finish(q) /\ ~gradebook[send[q].assignment].exists /\ UNCHANGED gradebook
  BY <1>1, <1>2, ArchiveSlot DEF Put
<1>3. ASSUME NEW points, WriteCells(send[q].assignment, points)
      PROVE  \A g \in DOMAIN gradebook' : g \in DOMAIN gradebook /\ (gradebook'[g].exists => gradebook[g].exists)
  <2> DEFINE g == send[q].assignment
             cell == [a \in Candidates |-> IF points[a] = NoTotal THEN gradebook[g].cell[a] ELSE points[a]]
  <2>1. gradebook' = [gradebook EXCEPT ![g].cell = cell]
    BY <1>3 DEF WriteCells
  <2> HIDE DEF g, cell
  <2>2. \A h \in DOMAIN gradebook : [gradebook[h] EXCEPT !.cell = cell].exists = gradebook[h].exists
    BY <1>1, Rows DEF Assignment
  <2> QED
    BY <2>1, <2>2
<1>4. ASSUME NEW todo, UNCHANGED pushes, send' = [send EXCEPT ![q].todo = todo, ![q].at = "record"]
      PROVE  /\ \A p \in Sends \ {q} : send'[p] = send[p]
             /\ send'[q].at = "record" /\ send'[q].push # 0 /\ ~Claims(q)' /\ WorksOnItsPush(q)'
  <2>1. /\ \A p \in Sends \ {q} : send'[p] = send[p]
        /\ send'[q].at = "record" /\ send'[q].push = send[q].push /\ send'[q].assignment = send[q].assignment
    BY <1>1, <1>4 DEF GradebookTypeOK, Send
  <2> QED
    BY <1>1, <1>4, <2>1 DEF WorksOnItsPush, Claims
<1>5. CASE /\ UNCHANGED pushes /\ \E points : WriteCells(send[q].assignment, points)
           /\ Finish(q) \/ \E todo : send' = [send EXCEPT ![q].todo = todo, ![q].at = "record"]
  <2>1. /\ \A p \in Sends \ {q} : send'[p] = send[p]
        /\ send'[q].at \in {"prior", "check", "put", "record"} => send'[q].push # 0
        /\ ~Claims(q)' /\ (Works(q)' => WorksOnItsPush(q)')
    BY <1>1, <1>4, <1>5, Finished
  <2>2. UNCHANGED lostCreate
    BY DEF Put
  <2> QED
    BY <1>1, <1>3, <1>5, <2>1, <2>2, Moves, {q} \in SUBSET Sends
<1>6. (Archive(send[q].push) /\ Finish(q) /\ ~gradebook[send[q].assignment].exists /\ UNCHANGED gradebook)
      \/ \E as \in SUBSET Some(send[q].todo) :
           /\ UNCHANGED pushes /\ WriteCells(send[q].assignment, Only(send[q].todo, as))
           /\ \/ Finish(q)
              \/ send' = [send EXCEPT ![q].todo = Accepted(send[q].todo, as), ![q].at = "record"]
  BY DEF Put
<1> QED
  BY <1>2, <1>5, <1>6

\* The record of a score changes no row's state.
LEMMA RecordSlot ==
  ASSUME Inv, NEW q \in Sends, NEW a \in Candidates, Record(q, a)
  PROVE  OneSlot'
<1> DEFINE i == send[q].push
           sent == [pushes[i].sent EXCEPT ![a] = send[q].todo[a]]
           todo == [send[q].todo EXCEPT ![a] = NoTotal]
<1>1. GradebookTypeOK /\ send[q].at = "record" /\ send[q].push # 0 /\ WorksOnItsPush(q)
  BY DEF Record, Inv, OneSlot, Works
<1>2. pushes' = [pushes EXCEPT ![i].sent = sent]
  BY DEF Record
<1>3. Finish(q) \/ send' = [send EXCEPT ![q].todo = todo]
  BY DEF Record
<1> HIDE DEF i, sent, todo
<1>4. /\ DOMAIN pushes' = DOMAIN pushes
      /\ \A j \in DOMAIN pushes : pushes'[j].state = pushes[j].state
                                  /\ pushes'[j].assignment = pushes[j].assignment
  <2>1. \A j \in DOMAIN pushes : /\ [pushes[j] EXCEPT !.sent = sent].state = pushes[j].state
                                 /\ [pushes[j] EXCEPT !.sent = sent].assignment = pushes[j].assignment
    BY <1>1, Rows DEF Push
  <2> QED
    BY <1>2, <2>1
<1>5. /\ \A p \in Sends \ {q} : send'[p] = send[p]
      /\ send'[q].at \in {"prior", "check", "put", "record"} => send'[q].push # 0
      /\ ~Claims(q)' /\ (Works(q)' => WorksOnItsPush(q)')
  <2>1. CASE Finish(q)
    BY <1>1, <2>1, Finished
  <2>2. CASE send' = [send EXCEPT ![q].todo = todo]
    <3>1. /\ \A p \in Sends \ {q} : send'[p] = send[p]
          /\ send'[q].at = "record" /\ send'[q].push = send[q].push /\ send'[q].assignment = send[q].assignment
      BY <1>1, <2>2 DEF GradebookTypeOK, Send
    <3> QED
      BY <1>1, <1>4, <3>1 DEF WorksOnItsPush, Claims
  <2> QED
    BY <1>3, <2>1, <2>2
<1> QED
  BY <1>1, <1>4, <1>5, Moves, {q} \in SUBSET Sends DEF Record, histories

\* A send that dies before noting the id is charged for (lostCreate).
LEMMA SendDiesSlot ==
  ASSUME Inv, NEW q \in Sends, SendDies(q)
  PROVE  OneSlot'
<1>1. /\ Finish(q) /\ UNCHANGED <<pushes, gradebook>>
      /\ (lostCreate => lostCreate') /\ (~lostCreate' => send[q].at # "created")
  BY DEF SendDies
<1> QED
  BY <1>1, Finished, Moves, {q} \in SUBSET Sends DEF Inv

\* What happens around the sends: claims age, assignments are deleted, scores change.
LEMMA AroundSlot ==
  ASSUME Inv,
         \/ \E i : ClaimAges(i) \/ DeleteAssignment(i)
         \/ \E a \in Candidates, t \in Totals \cup {NoTotal} : TotalChanges(a, t)
         \/ UNCHANGED gradebookVars
  PROVE  OneSlot'
<1>1. UNCHANGED <<send, lostCreate>>
  BY DEF ClaimAges, DeleteAssignment, TotalChanges, gradebookVars, histories
<1>2. /\ DOMAIN pushes' = DOMAIN pushes
      /\ \A j \in DOMAIN pushes : pushes'[j].state = pushes[j].state
                                  /\ pushes'[j].assignment = pushes[j].assignment
  <2>1. CASE UNCHANGED pushes
    BY <2>1
  <2>2. ASSUME NEW i, ClaimAges(i)
        PROVE  /\ DOMAIN pushes' = DOMAIN pushes
               /\ \A j \in DOMAIN pushes : pushes'[j].state = pushes[j].state
                                           /\ pushes'[j].assignment = pushes[j].assignment
    BY <2>2, Rows DEF ClaimAges, Inv, Push
  <2> QED
    BY <2>1, <2>2 DEF DeleteAssignment, TotalChanges, gradebookVars
<1>3. \A g \in DOMAIN gradebook' : g \in DOMAIN gradebook /\ (gradebook'[g].exists => gradebook[g].exists)
  <2>1. CASE UNCHANGED gradebook
    BY <2>1
  <2>2. ASSUME NEW h, DeleteAssignment(h)
        PROVE  \A g \in DOMAIN gradebook' : g \in DOMAIN gradebook /\ (gradebook'[g].exists => gradebook[g].exists)
    BY <2>2, Rows DEF DeleteAssignment, Inv, Assignment
  <2> QED
    BY <2>1, <2>2 DEF ClaimAges, TotalChanges, gradebookVars, histories
<1> QED
  BY <1>1, <1>2, <1>3, Moves, {} \in SUBSET Sends

\* Every step keeps the invariant.
LEMMA InvStep == Inv /\ [GradebookNext]_gradebookVars => Inv'
<1> SUFFICES ASSUME Inv, [GradebookNext]_gradebookVars PROVE Inv'
  OBVIOUS
<1>1. GradebookTypeOK'
  BY TypesStep
<1>2. ASSUME NEW q \in Sends,
             \/ SendStart(q) \/ PriorScores(q) \/ Plan(q) \/ CheckAssignment(q) \/ Claim(q)
             \/ Create(q) \/ Created(q) \/ Put(q) \/ SendDies(q)
      PROVE  OneSlot'
  BY <1>2, SendStartSlot, PriorScoresSlot, PlanSlot, CheckAssignmentSlot, ClaimSlot, CreateSlot,
     CreatedSlot, PutSlot, SendDiesSlot
<1>3. ASSUME NEW q \in Sends, NEW a \in Candidates, Record(q, a) PROVE OneSlot'
  BY <1>3, RecordSlot
<1>4. ASSUME NEW i, ClaimAges(i) \/ DeleteAssignment(i) PROVE OneSlot'
  BY <1>4, AroundSlot
<1>5. ASSUME NEW a \in Candidates, NEW t \in Totals \cup {NoTotal}, TotalChanges(a, t)
      PROVE  OneSlot'
  BY <1>5, AroundSlot
<1>6. ASSUME UNCHANGED gradebookVars PROVE OneSlot'
  BY <1>6, AroundSlot
<1>7. OneSlot'
  <2>1. CASE GradebookNext
    BY <1>2, <1>3, <1>4, <1>5, <2>1 DEF GradebookNext
  <2> QED
    BY <1>6, <2>1
<1> QED
  BY <1>1, <1>7 DEF Inv

\* The live row names the assignment, or the one send about to write it does.
LEMMA InvImplies == Inv => NoSecondAssignment
<1> SUFFICES ASSUME Inv, ~lostCreate, NEW g \in DOMAIN gradebook, NEW h \in DOMAIN gradebook,
                    gradebook[g].exists, gradebook[h].exists
             PROVE  g = h
  BY DEF NoSecondAssignment
<1>1. (NamedByPush(g) \/ NamedBySend(g)) /\ (NamedByPush(h) \/ NamedBySend(h))
  BY DEF Inv, OneSlot, Named
<1>2. \A p \in Sends : send[p].at = "created" =>
        Claims(p) /\ send[p].push \in Live(pushes) /\ pushes[send[p].push].state = "claim"
  BY DEF Inv, OneSlot, Claims, OwnsItsClaim, Live
<1>3. CASE NamedByPush(g) /\ NamedByPush(h)
  BY <1>3 DEF NamedByPush, Inv, OneSlot, OneLive, Live
<1>4. ASSUME NEW f, NEW e, NamedByPush(f), NamedBySend(e) PROVE FALSE
  BY <1>2, <1>4 DEF NamedByPush, NamedBySend, Inv, OneSlot, OneLive, Live
<1>5. CASE NamedBySend(g) /\ NamedBySend(h)
  BY <1>2, <1>5 DEF NamedBySend, Inv, OneSlot, OneLive
<1> QED
  BY <1>1, <1>3, <1>4, <1>5

-----------------------------------------------------------------------------
(* What the records say *)

\* A send has written an attempt's score and not recorded it yet.
Owes(q, a) == send[q].at = "record" /\ send[q].todo[a] # NoTotal

\* A push with an assignment names one there is, gone if the push is archived;
\* a claim has sent nothing.
Placed ==
  \A i \in DOMAIN pushes :
    /\ pushes[i].state \in {"live", "archived"} => pushes[i].assignment \in DOMAIN gradebook
    /\ pushes[i].state = "archived" => ~gradebook[pushes[i].assignment].exists
    /\ pushes[i].state = "claim" => pushes[i].sent = Nothing

\* An assignment whose id is not noted yet is nobody else's, and empty.
Unnoted(q) ==
  /\ send[q].assignment \in DOMAIN gradebook
  /\ gradebook[send[q].assignment].cell = Nothing
  /\ \A i \in DOMAIN pushes :
       pushes[i].state \in {"live", "archived"} => pushes[i].assignment # send[q].assignment
  /\ \A p \in Sends : send[p].at = "created" /\ send[p].assignment = send[q].assignment => p = q
Fresh == \A q \in Sends : send[q].at = "created" => Unnoted(q)

\* Of an attempt that is not doubtful one send at most owes the record, of what
\* stands in the gradebook; where none does, the record says what stands there.
OneOwes(a) == \A p, q \in Sends : Owes(p, a) /\ Owes(q, a) => p = q
OwesTheCell(a) ==
  \A q \in Sends : Owes(q, a) /\ pushes[send[q].push].state = "live" =>
    gradebook[send[q].assignment].cell[a] = send[q].todo[a]
SaysTheCell(a) ==
  \A i \in DOMAIN pushes :
    pushes[i].state = "live" /\ (\A q \in Sends : Owes(q, a) => send[q].push # i) =>
      pushes[i].sent[a] = gradebook[pushes[i].assignment].cell[a]
Recorded == \A a \in Candidates \ doubtful : OneOwes(a) /\ OwesTheCell(a) /\ SaysTheCell(a)

Said == Placed /\ Fresh /\ Recorded

\* What most steps do to the rows: their records stay, a push is archived once
\* its assignment is gone, a claim is deleted, or made.
RowsGo ==
  /\ DOMAIN pushes \subseteq DOMAIN pushes'
  /\ \A i \in DOMAIN pushes :
       /\ pushes'[i].sent = pushes[i].sent /\ pushes'[i].assignment = pushes[i].assignment
       /\ \/ pushes'[i].state = pushes[i].state
          \/ /\ pushes[i].state \in {"live", "archived"} /\ pushes'[i].state = "archived"
             /\ ~gradebook[pushes[i].assignment].exists
          \/ pushes[i].state = "claim" /\ pushes'[i].state = "deleted"
  /\ \A i \in DOMAIN pushes' \ DOMAIN pushes :
       pushes'[i].state = "claim" /\ pushes'[i].sent = Nothing

\* And to the assignments: their cells stay.
CellsGo ==
  /\ DOMAIN gradebook \subseteq DOMAIN gradebook'
  /\ \A g \in DOMAIN gradebook :
       /\ gradebook'[g].cell = gradebook[g].cell
       /\ gradebook'[g].exists => gradebook[g].exists

\* Such a step leaves every push where it was placed,
LEMMA PlacedStays ==
  ASSUME Placed, RowsGo, CellsGo
  PROVE  Placed'
<1> SUFFICES ASSUME NEW i \in DOMAIN pushes'
             PROVE  /\ pushes'[i].state \in {"live", "archived"} => pushes'[i].assignment \in DOMAIN gradebook'
                    /\ pushes'[i].state = "archived" => ~gradebook'[pushes'[i].assignment].exists
                    /\ pushes'[i].state = "claim" => pushes'[i].sent = Nothing
  BY DEF Placed
<1>1. CASE i \notin DOMAIN pushes
  BY <1>1 DEF RowsGo
<1>2. CASE i \in DOMAIN pushes
  <2>1. /\ pushes'[i].sent = pushes[i].sent /\ pushes'[i].assignment = pushes[i].assignment
        /\ \/ pushes'[i].state = pushes[i].state
           \/ /\ pushes[i].state \in {"live", "archived"} /\ pushes'[i].state = "archived"
              /\ ~gradebook[pushes[i].assignment].exists
           \/ pushes[i].state = "claim" /\ pushes'[i].state = "deleted"
    BY <1>2 DEF RowsGo
  <2>2. /\ pushes[i].state \in {"live", "archived"} => pushes[i].assignment \in DOMAIN gradebook
        /\ pushes[i].state = "archived" => ~gradebook[pushes[i].assignment].exists
        /\ pushes[i].state = "claim" => pushes[i].sent = Nothing
    BY <1>2 DEF Placed
  <2> QED
    BY <2>1, <2>2 DEF CellsGo
<1> QED
  BY <1>1, <1>2

\* every assignment that is not noted yet to its send,
LEMMA FreshStays ==
  ASSUME Placed, Fresh, RowsGo, CellsGo, NEW moved \in SUBSET Sends,
         \A p \in Sends \ moved : send'[p] = send[p],
         \A p \in moved : send'[p].at # "created"
  PROVE  Fresh'
<1> SUFFICES ASSUME NEW q \in Sends, send'[q].at = "created" PROVE Unnoted(q)'
  BY DEF Fresh
<1>1. send'[q] = send[q] /\ Unnoted(q)
  BY DEF Fresh
<1>2. ASSUME NEW i \in DOMAIN pushes', pushes'[i].state \in {"live", "archived"}
      PROVE  pushes'[i].assignment # send[q].assignment
  BY <1>1, <1>2 DEF RowsGo, Unnoted
<1>3. \A p \in Sends : send'[p].at = "created" => send'[p] = send[p]
  OBVIOUS
<1>4. send[q].assignment \in DOMAIN gradebook' /\ gradebook'[send[q].assignment].cell = Nothing
  BY <1>1 DEF CellsGo, Unnoted
<1> QED
  BY <1>1, <1>2, <1>3, <1>4 DEF Unnoted

\* and every record as true as it was.
LEMMA RecordedStays ==
  ASSUME Inv, Placed, Recorded, RowsGo, CellsGo, doubtful \subseteq doubtful',
         NEW moved \in SUBSET Sends,
         \A p \in Sends \ moved : send'[p] = send[p],
         \A p \in moved : \A a \in Candidates : ~Owes(p, a)' /\ (Owes(p, a) => a \in doubtful')
  PROVE  Recorded'
<1> SUFFICES ASSUME NEW a \in Candidates \ doubtful'
             PROVE  OneOwes(a)' /\ OwesTheCell(a)' /\ SaysTheCell(a)'
  BY DEF Recorded
<1>1. OneOwes(a) /\ OwesTheCell(a) /\ SaysTheCell(a)
  BY DEF Recorded
<1>2. \A q \in Sends : /\ Owes(q, a)' <=> Owes(q, a)
                       /\ Owes(q, a)' => send'[q] = send[q]
  BY DEF Owes
<1>3. OneOwes(a)'
  BY <1>1, <1>2 DEF OneOwes
<1>4. ASSUME NEW q \in Sends, Owes(q, a)', pushes'[send'[q].push].state = "live"
      PROVE  gradebook'[send'[q].assignment].cell[a] = send'[q].todo[a]
  <2>1. Owes(q, a) /\ send'[q] = send[q]
    BY <1>2, <1>4
  <2>2. WorksOnItsPush(q)
    BY <2>1 DEF Owes, Inv, OneSlot, Works
  <2>3. pushes[send[q].push].state = "live" /\ send[q].assignment \in DOMAIN gradebook
    BY <1>4, <2>1, <2>2 DEF RowsGo, WorksOnItsPush, Placed
  <2> QED
    BY <1>1, <2>1, <2>3 DEF CellsGo, OwesTheCell
<1>5. ASSUME NEW i \in DOMAIN pushes', pushes'[i].state = "live",
             \A q \in Sends : Owes(q, a)' => send'[q].push # i
      PROVE  pushes'[i].sent[a] = gradebook'[pushes'[i].assignment].cell[a]
  <2>1. /\ i \in DOMAIN pushes /\ pushes[i].state = "live"
        /\ pushes'[i].sent = pushes[i].sent /\ pushes'[i].assignment = pushes[i].assignment
    BY <1>5 DEF RowsGo
  <2>2. pushes[i].assignment \in DOMAIN gradebook
    BY <2>1 DEF Placed
  <2>3. \A q \in Sends : Owes(q, a) => send[q].push # i
    BY <1>2, <1>5
  <2> QED
    BY <1>1, <2>1, <2>2, <2>3 DEF CellsGo, SaysTheCell
<1> QED
  BY <1>3, <1>4, <1>5 DEF OwesTheCell, SaysTheCell

\* A section not yet sent has nothing to record.
LEMMA InitSaid == GradebookInit => Said
<1> SUFFICES ASSUME GradebookInit PROVE Said
  OBVIOUS
<1>1. \A q \in Sends : send[q].at = "idle"
  BY DEF GradebookInit, Idling
<1>2. DOMAIN pushes = {} /\ Placed
  BY DEF GradebookInit, Placed
<1> QED
  BY <1>1, <1>2 DEF Said, Fresh, Recorded, OneOwes, OwesTheCell, SaysTheCell, Owes

\* The steps of a send that neither creates nor writes: it starts, reads, plans,
\* checks, is refused, or ends.
LEMMA SaidStays ==
  ASSUME Inv, Said, RowsGo, CellsGo, doubtful \subseteq doubtful',
         NEW moved \in SUBSET Sends,
         \A p \in Sends \ moved : send'[p] = send[p],
         \A p \in moved : /\ send'[p].at \notin {"created", "record"}
                          /\ \A a \in Candidates : Owes(p, a) => a \in doubtful'
  PROVE  Said'
<1>1. \A p \in moved : \A a \in Candidates : ~Owes(p, a)'
  BY DEF Owes
<1> QED
  BY <1>1, PlacedStays, FreshStays, RecordedStays DEF Said

\* Rows that stay.
LEMMA NoRowGoes == UNCHANGED pushes => RowsGo
  BY DEF RowsGo

\* Cells that stay.
LEMMA NoCellGoes == UNCHANGED gradebook => CellsGo
  BY DEF CellsGo

\* Planning and reading, and a send that dies with its writes doubtful.
LEMMA ReadingSaid ==
  ASSUME Inv, Said, NEW q \in Sends, SendStart(q) \/ PriorScores(q) \/ Plan(q) \/ SendDies(q)
  PROVE  Said'
<1>1. RowsGo /\ CellsGo
  BY NoRowGoes, NoCellGoes DEF SendStart, PriorScores, Plan, SendDies
<1>2. \A p \in Sends \ {q} : send'[p] = send[p]
  BY DEF SendStart, PriorScores, Plan, SendDies, Finish, Inv, GradebookTypeOK
<1>3. send'[q].at \in {"idle", "prior", "plan", "claim", "check"}
  <2>1. CASE SendStart(q)
    BY <2>1 DEF SendStart, Inv, GradebookTypeOK, Idling
  <2>2. CASE PriorScores(q)
    BY <2>2 DEF PriorScores, Inv, GradebookTypeOK, Send
  <2>3. CASE Plan(q)
    BY <2>3 DEF Plan, Finish, Idling, Inv, GradebookTypeOK, Send
  <2>4. CASE SendDies(q)
    BY <2>4, Finished DEF SendDies, Inv
  <2> QED
    BY <2>1, <2>2, <2>3, <2>4
<1>4. doubtful \subseteq doubtful' /\ \A a \in Candidates : Owes(q, a) => a \in doubtful'
  BY DEF SendStart, PriorScores, Plan, SendDies, Owes, Some, histories
<1> QED
  BY <1>1, <1>2, <1>3, <1>4, SaidStays, {q} \in SUBSET Sends

\* Archiving a push whose assignment is gone.
LEMMA ArchiveGoes ==
  ASSUME Inv, NEW q \in Sends, send[q].at \in {"check", "put"}, Archive(send[q].push),
         ~gradebook[send[q].assignment].exists
  PROVE  RowsGo
<1>1. WorksOnItsPush(q)
  BY DEF Inv, OneSlot, Works
<1> QED
  BY <1>1, Rows DEF Archive, WorksOnItsPush, Inv, Push, RowsGo

\* The check of the assignment writes nothing.
LEMMA CheckSaid ==
  ASSUME Inv, Said, NEW q \in Sends, CheckAssignment(q)
  PROVE  Said'
<1>1. RowsGo /\ CellsGo
  BY NoRowGoes, NoCellGoes, ArchiveGoes DEF CheckAssignment
<1>2. (\A p \in Sends \ {q} : send'[p] = send[p]) /\ send'[q].at \in {"idle", "put"}
  BY DEF CheckAssignment, Finish, Continue, Idling, Inv, GradebookTypeOK, Send
<1>3. UNCHANGED doubtful /\ \A a \in Candidates : ~Owes(q, a)
  BY DEF CheckAssignment, Owes, histories
<1> QED
  BY <1>1, <1>2, <1>3, SaidStays, {q} \in SUBSET Sends

\* The removal of stale claims, and a new claim after it.
LEMMA ClaimGoes ==
  ASSUME GradebookTypeOK, NEW q \in Sends, Claim(q)
  PROVE  RowsGo
<1> DEFINE row == [state |-> "claim", old |-> FALSE, assignment |-> 0, sent |-> Nothing]
<1>1. /\ DOMAIN WithoutOldClaims = DOMAIN pushes
      /\ \A i \in DOMAIN pushes :
           /\ WithoutOldClaims[i].sent = pushes[i].sent
           /\ WithoutOldClaims[i].assignment = pushes[i].assignment
           /\ \/ WithoutOldClaims[i].state = pushes[i].state
              \/ pushes[i].state = "claim" /\ WithoutOldClaims[i].state = "deleted"
  BY Rows DEF WithoutOldClaims, Push
<1>2. CASE UNCHANGED pushes
  BY <1>2, NoRowGoes
<1>3. CASE pushes' = WithoutOldClaims
  BY <1>1, <1>3 DEF RowsGo
<1>4. CASE pushes' = Append(WithoutOldClaims, row)
  <2>1. WithoutOldClaims \in Seq(Push) /\ Len(WithoutOldClaims) = Len(pushes)
    BY WithoutOldClaimsTypes
  <2>2. row \in Push
    BY PointsTypes, GradebookAssumption DEF Push
  <2>3. row.state = "claim" /\ row.sent = Nothing
    OBVIOUS
  <2> HIDE DEF row
  <2>4. /\ pushes' \in Seq(Push) /\ Len(pushes') = Len(pushes) + 1
        /\ \A i \in 1..Len(pushes) : pushes'[i] = WithoutOldClaims[i]
        /\ pushes'[Len(pushes) + 1] = row
    BY <1>4, <2>1, <2>2, AppendProperties
  <2>5. DOMAIN pushes' = 1..Len(pushes) + 1 /\ DOMAIN pushes = 1..Len(pushes) /\ Len(pushes) \in Nat
    BY <2>4, Rows, LenProperties
  <2> QED
    BY <1>1, <2>3, <2>4, <2>5 DEF RowsGo
<1> QED
  BY <1>2, <1>3, <1>4 DEF Claim

\* A claim, made or refused, has sent nothing.
LEMMA ClaimSaid ==
  ASSUME Inv, Said, NEW q \in Sends, Claim(q)
  PROVE  Said'
<1>1. RowsGo /\ CellsGo
  BY NoCellGoes, ClaimGoes DEF Claim, Inv
<1>2. (\A p \in Sends \ {q} : send'[p] = send[p]) /\ send'[q].at \in {"idle", "create"}
  BY DEF Claim, Finish, Idling, Inv, GradebookTypeOK, Send
<1>3. UNCHANGED doubtful /\ \A a \in Candidates : ~Owes(q, a)
  BY DEF Claim, Owes
<1> QED
  BY <1>1, <1>2, <1>3, SaidStays, {q} \in SUBSET Sends

\* A new assignment is nobody's and empty.
LEMMA CreateSaid ==
  ASSUME Inv, Said, NEW q \in Sends, Create(q)
  PROVE  Said'
<1> DEFINE n == Len(gradebook) + 1
<1>1. GradebookTypeOK /\ send[q].at = "create" /\ send[q].push \in DOMAIN pushes
  BY DEF Create, Inv, OneSlot, Claims, OwnsItsClaim
<1>2. RowsGo
  <2>1. ASSUME DeleteClaim(send[q].push) PROVE RowsGo
    BY <1>1, <2>1, Rows DEF DeleteClaim, Push, RowsGo
  <2> QED
    BY <2>1, NoRowGoes DEF Create
<1>3. ASSUME Len(gradebook) < MaxAssignments,
             gradebook' = Append(gradebook, [exists |-> TRUE, cell |-> Nothing])
      PROVE  /\ n \notin DOMAIN gradebook /\ n \in DOMAIN gradebook'
             /\ gradebook'[n].cell = Nothing /\ CellsGo
  <2> DEFINE one == [exists |-> TRUE, cell |-> Nothing]
  <2>1. one \in Assignment /\ one.cell = Nothing
    BY PointsTypes DEF Assignment
  <2> HIDE DEF one
  <2>2. /\ gradebook' \in Seq(Assignment) /\ Len(gradebook') = n
        /\ \A g \in 1..Len(gradebook) : gradebook'[g] = gradebook[g]
        /\ gradebook'[n] = one
    BY <1>1, <1>3, <2>1, AppendProperties DEF GradebookTypeOK, one
  <2>3. DOMAIN gradebook' = 1..n /\ DOMAIN gradebook = 1..Len(gradebook) /\ Len(gradebook) \in Nat
    BY <1>1, <2>2, Rows, LenProperties
  <2> QED
    BY <2>1, <2>2, <2>3 DEF CellsGo
<1>4. CellsGo
  BY <1>3, NoCellGoes DEF Create
<1>5. UNCHANGED doubtful /\ \A a \in Candidates : ~Owes(q, a)
  BY <1>1 DEF Create, Owes
<1>6. CASE Finish(q)
  BY <1>1, <1>2, <1>4, <1>5, <1>6, Finished, SaidStays, {q} \in SUBSET Sends
<1>7. CASE /\ Len(gradebook) < MaxAssignments
           /\ gradebook' = Append(gradebook, [exists |-> TRUE, cell |-> Nothing])
           /\ send' = [send EXCEPT ![q].assignment = n, ![q].at = "created"]
           /\ UNCHANGED pushes
  <2>1. /\ \A p \in Sends \ {q} : send'[p] = send[p]
        /\ send'[q].at = "created" /\ send'[q].assignment = n
    BY <1>1, <1>7 DEF GradebookTypeOK, Send
  <2>2. /\ n \notin DOMAIN gradebook /\ n \in DOMAIN gradebook' /\ gradebook'[n].cell = Nothing
    BY <1>3, <1>7
  <2> HIDE DEF n
  <2>3. \A a \in Candidates : ~Owes(q, a)'
    BY <2>1 DEF Owes
  <2>4. Placed' /\ Recorded'
    BY <1>2, <1>4, <1>5, <2>1, <2>3, PlacedStays, RecordedStays, {q} \in SUBSET Sends DEF Said
  <2>5. \A i \in DOMAIN pushes : pushes[i].state \in {"live", "archived"} => pushes[i].assignment # n
    BY <2>2 DEF Said, Placed
  <2>6. \A p \in Sends \ {q} : send[p].at = "created" => send[p].assignment # n
    BY <2>2 DEF Said, Fresh, Unnoted
  <2>7. Unnoted(q)'
    BY <1>7, <2>1, <2>2, <2>5, <2>6 DEF Unnoted
  <2>8. ASSUME NEW p \in Sends \ {q}, send'[p].at = "created" PROVE Unnoted(p)'
    <3>1. send'[p] = send[p] /\ Unnoted(p)
      BY <2>1, <2>8 DEF Said, Fresh
    <3>2. \A o \in Sends : send'[o].at = "created" /\ send'[o].assignment = send[p].assignment => o = p
      BY <2>1, <2>6, <2>8, <3>1 DEF Unnoted
    <3>3. send[p].assignment \in DOMAIN gradebook' /\ gradebook'[send[p].assignment].cell = Nothing
      BY <1>4, <3>1 DEF CellsGo, Unnoted
    <3> QED
      BY <1>7, <3>1, <3>2, <3>3 DEF Unnoted
  <2> QED
    BY <2>4, <2>7, <2>8 DEF Said, Fresh
<1> QED
  BY <1>6, <1>7 DEF Create

\* The push whose assignment is noted has sent nothing, and nothing is there.
LEMMA CreatedSaid ==
  ASSUME Inv, Said, NEW q \in Sends, Created(q)
  PROVE  Said'
<1> DEFINE i == send[q].push
           row == [pushes[i] EXCEPT !.state = "live", !.assignment = send[q].assignment]
<1>1. /\ GradebookTypeOK /\ send[q].at = "created" /\ i \in DOMAIN pushes /\ Unnoted(q)
  BY DEF Created, Inv, Said, Fresh, OneSlot, Claims, OwnsItsClaim
<1>2. UNCHANGED <<gradebook, doubtful>> /\ \A a \in Candidates : ~Owes(q, a)
  BY <1>1 DEF Created, Owes, histories
<1>3. CASE pushes[i].state # "claim"
  <2>1. Finish(q) /\ UNCHANGED pushes
    BY <1>3 DEF Created
  <2> QED
    BY <1>1, <1>2, <2>1, NoRowGoes, NoCellGoes, Finished, SaidStays, {q} \in SUBSET Sends
<1>4. CASE pushes[i].state = "claim"
  <2>1. pushes' = [pushes EXCEPT ![i] = row] /\ Continue(q, "put")
    BY <1>4 DEF Created
  <2>2. row.state = "live" /\ row.assignment = send[q].assignment /\ row.sent = Nothing
    BY <1>1, <1>4, Rows DEF Push, Said, Placed
  <2>3. /\ \A p \in Sends \ {q} : send'[p] = send[p]
        /\ send'[q].at = "put"
    BY <1>1, <2>1 DEF Continue, GradebookTypeOK, Send
  <2>4. \A a \in Candidates : Nothing[a] = NoTotal
    BY DEF Nothing
  <2> HIDE DEF i, row
  <2>5. /\ DOMAIN pushes' = DOMAIN pushes /\ pushes'[i] = row
        /\ \A j \in DOMAIN pushes \ {i} : pushes'[j] = pushes[j]
    BY <1>1, <2>1
  <2>6. Placed'
    BY <1>1, <1>2, <2>2, <2>5 DEF Said, Placed, Unnoted
  <2>7. ASSUME NEW p \in Sends, send'[p].at = "created" PROVE Unnoted(p)'
    <3>1. p # q /\ send'[p] = send[p] /\ Unnoted(p)
      BY <2>3, <2>7 DEF Said, Fresh
    <3>2. send[p].assignment # send[q].assignment
      BY <1>1, <2>7, <3>1 DEF Unnoted
    <3>3. \A o \in Sends : send'[o].at = "created" => send'[o] = send[o]
      BY <2>3
    <3> QED
      BY <1>2, <2>2, <2>5, <3>1, <3>2, <3>3 DEF Unnoted
  <2>8. ASSUME NEW a \in Candidates \ doubtful'
        PROVE  OneOwes(a)' /\ OwesTheCell(a)' /\ SaysTheCell(a)'
    <3>1. OneOwes(a) /\ OwesTheCell(a) /\ SaysTheCell(a)
      BY <1>2, <2>8 DEF Said, Recorded
    <3>2. \A p \in Sends : /\ Owes(p, a)' <=> Owes(p, a)
                           /\ Owes(p, a) => send'[p] = send[p]
      BY <1>2, <2>3 DEF Owes
    <3>3. \A p \in Sends : Owes(p, a) => send[p].push # i /\ send[p].push \in DOMAIN pushes
      BY <1>4 DEF Owes, Inv, OneSlot, Works, WorksOnItsPush, i
    <3>4. OwesTheCell(a)'
      BY <1>2, <2>5, <3>1, <3>2, <3>3 DEF OwesTheCell
    <3>5. ASSUME NEW j \in DOMAIN pushes', pushes'[j].state = "live",
                 \A p \in Sends : Owes(p, a)' => send'[p].push # j
          PROVE  pushes'[j].sent[a] = gradebook'[pushes'[j].assignment].cell[a]
      <4>1. CASE j = i
        BY <1>1, <1>2, <2>2, <2>5, <4>1 DEF Unnoted
      <4>2. CASE j # i
        BY <1>2, <2>5, <3>1, <3>2, <3>5, <4>2 DEF SaysTheCell
      <4> QED
        BY <4>1, <4>2
    <3> QED
      BY <3>1, <3>2, <3>4, <3>5 DEF OneOwes, SaysTheCell
  <2> QED
    BY <2>6, <2>7, <2>8 DEF Said, Fresh, Recorded
<1> QED
  BY <1>3, <1>4

\* A write of the scores of `as`, cell by cell.
Written(g, points, as) ==
  /\ DOMAIN gradebook' = DOMAIN gradebook
  /\ \A h \in DOMAIN gradebook :
       /\ gradebook'[h].exists = gradebook[h].exists
       /\ \A a \in Candidates : gradebook'[h].cell[a] =
            IF h = g /\ a \in as THEN points[a] ELSE gradebook[h].cell[a]
  /\ as = {} => UNCHANGED gradebook

LEMMA CellsWritten ==
  ASSUME GradebookTypeOK, NEW g \in DOMAIN gradebook, NEW points \in Points, NEW as \in SUBSET Some(points),
         WriteCells(g, Only(points, as))
  PROVE  Written(g, points, as)
<1> DEFINE cell == [a \in Candidates |-> IF Only(points, as)[a] = NoTotal THEN gradebook[g].cell[a]
                                         ELSE Only(points, as)[a]]
<1>1. \A a \in Candidates : cell[a] = IF a \in as THEN points[a] ELSE gradebook[g].cell[a]
  BY DEF Only, Some
<1>2. gradebook' = [gradebook EXCEPT ![g] = [gradebook[g] EXCEPT !.cell = cell]]
  BY DEF WriteCells
<1>3. gradebook[g] \in Assignment /\ gradebook[g].cell \in [Candidates -> Totals \cup {NoTotal}]
  BY Rows DEF Assignment, Points
<1>4. as = {} => cell = gradebook[g].cell
  BY <1>1, <1>3
<1> HIDE DEF cell
<1>5. /\ [gradebook[g] EXCEPT !.cell = cell].exists = gradebook[g].exists
      /\ [gradebook[g] EXCEPT !.cell = cell].cell = cell
      /\ cell = gradebook[g].cell => [gradebook[g] EXCEPT !.cell = cell] = gradebook[g]
  BY <1>3 DEF Assignment
<1>6. cell = gradebook[g].cell => gradebook' = gradebook
  BY <1>2, <1>5, LenProperties DEF GradebookTypeOK
<1> QED
  BY <1>1, <1>2, <1>4, <1>5, <1>6 DEF Written

\* A write that was not answered, or nothing written: whatever was is doubtful.
\* A write that was is owed by its send, and by it alone unless it is doubtful.
LEMMA WriteSaid ==
  ASSUME Inv, Said, NEW q \in Sends, send[q].at = "put", NEW as \in SUBSET Some(send[q].todo),
         as # {} => gradebook[send[q].assignment].exists,
         WriteCells(send[q].assignment, Only(send[q].todo, as)), UNCHANGED pushes,
         doubtful \ as \subseteq doubtful',
         \/ Finish(q) /\ as \subseteq doubtful'
         \/ /\ send' = [send EXCEPT ![q].todo = Accepted(send[q].todo, as), ![q].at = "record"]
            /\ \A a \in as : Unrecorded(q, a) => a \in doubtful'
  PROVE  Said'
<1> DEFINE i == send[q].push
           g == send[q].assignment
<1>1. /\ GradebookTypeOK /\ send[q].todo \in Points /\ WorksOnItsPush(q)
      /\ i \in DOMAIN pushes /\ g \in DOMAIN gradebook /\ pushes[i].assignment = g
  <2>1. GradebookTypeOK /\ WorksOnItsPush(q)
    BY DEF Inv, OneSlot, Works
  <2>2. i \in DOMAIN pushes /\ pushes[i].assignment = g /\ pushes[i].state \in {"live", "archived"}
    BY <2>1 DEF WorksOnItsPush
  <2> QED
    BY <2>1, <2>2 DEF GradebookTypeOK, Send, Said, Placed
<1>2. /\ DOMAIN gradebook' = DOMAIN gradebook
      /\ \A h \in DOMAIN gradebook :
           /\ gradebook'[h].exists = gradebook[h].exists
           /\ \A a \in Candidates : gradebook'[h].cell[a] =
                IF h = g /\ a \in as THEN send[q].todo[a] ELSE gradebook[h].cell[a]
      /\ as = {} => UNCHANGED gradebook
  <2>1. Written(g, send[q].todo, as)
    BY <1>1, CellsWritten
  <2> QED
    BY <2>1 DEF Written
<1>3. as # {} => pushes[i].state = "live"
  BY <1>1 DEF Said, Placed, WorksOnItsPush
<1>4. as # {} => \A j \in DOMAIN pushes : pushes[j].state = "live" => j = i
  BY <1>1, <1>3 DEF Inv, OneSlot, OneLive, Live
<1>5. as \subseteq Candidates /\ \A a \in as : send[q].todo[a] # NoTotal
  BY DEF Some
<1>6. /\ \A p \in Sends \ {q} : send'[p] = send[p]
      /\ send'[q].at \in {"idle", "record"}
      /\ send'[q].at = "record" =>
           /\ send'[q].push = i /\ send'[q].assignment = g
           /\ \A a \in as : Unrecorded(q, a) => a \in doubtful'
           /\ \A a \in Candidates : send'[q].todo[a] = IF a \in as THEN send[q].todo[a] ELSE NoTotal
      /\ send'[q].at = "idle" => as \subseteq doubtful'
  <2>1. CASE Finish(q) /\ as \subseteq doubtful'
    BY <1>1, <2>1, Finished
  <2>2. CASE /\ send' = [send EXCEPT ![q].todo = Accepted(send[q].todo, as), ![q].at = "record"]
             /\ \A a \in as : Unrecorded(q, a) => a \in doubtful'
    <3> DEFINE t == Accepted(send[q].todo, as)
    <3>1. \A a \in Candidates : t[a] = IF a \in as THEN send[q].todo[a] ELSE NoTotal
      BY DEF Accepted, Only
    <3>2. send' = [send EXCEPT ![q].todo = t, ![q].at = "record"]
      BY <2>2
    <3> HIDE DEF t
    <3>3. /\ \A p \in Sends \ {q} : send'[p] = send[p]
          /\ send'[q].at = "record" /\ send'[q].push = i /\ send'[q].assignment = g /\ send'[q].todo = t
      BY <1>1, <3>2 DEF GradebookTypeOK, Send
    <3> QED
      BY <2>2, <3>1, <3>3
  <2> QED
    BY <2>1, <2>2
<1> HIDE DEF i, g
<1>7. Placed'
  BY <1>2 DEF Said, Placed
<1>8. ASSUME NEW p \in Sends, send'[p].at = "created" PROVE Unnoted(p)'
  <2>1. p # q /\ send'[p] = send[p] /\ Unnoted(p)
    BY <1>6, <1>8 DEF Said, Fresh
  <2>2. send[p].assignment # g \/ as = {}
    BY <1>1, <1>3, <2>1 DEF Unnoted
  <2>3. gradebook'[send[p].assignment].cell = Nothing
    <3>1. CASE as = {}
      BY <1>2, <2>1, <3>1 DEF Unnoted
    <3>2. CASE send[p].assignment # g
      <4>1. gradebook[send[p].assignment].cell = Nothing /\ send[p].assignment \in DOMAIN gradebook
        BY <2>1 DEF Unnoted
      <4>2. gradebook'[send[p].assignment] = gradebook[send[p].assignment]
        BY <3>2, <4>1 DEF WriteCells, g
      <4> QED
        BY <4>1, <4>2
    <3> QED
      BY <2>2, <3>1, <3>2
  <2>4. \A o \in Sends : send'[o].at = "created" => send'[o] = send[o]
    BY <1>6
  <2> QED
    BY <1>2, <2>1, <2>3, <2>4 DEF Unnoted
<1>9. ASSUME NEW a \in Candidates \ doubtful'
      PROVE  OneOwes(a)' /\ OwesTheCell(a)' /\ SaysTheCell(a)'
  <2>1. CASE a \in as
    <3>1. /\ send'[q].at = "record" /\ send'[q].push = i /\ send'[q].assignment = g
          /\ ~Unrecorded(q, a) /\ send'[q].todo[a] = send[q].todo[a]
      BY <1>6, <1>9, <2>1
    <3>2. \A p \in Sends : Owes(p, a)' => p = q
      BY <1>6, <3>1 DEF Owes, Unrecorded
    <3>3. gradebook'[g].cell[a] = send'[q].todo[a]
      BY <1>1, <1>2, <2>1, <3>1
    <3>4. Owes(q, a)'
      BY <1>5, <2>1, <3>1 DEF Owes
    <3>5. \A j \in DOMAIN pushes : pushes[j].state = "live" => j = i
      BY <1>4, <2>1
    <3> QED
      BY <3>1, <3>2, <3>3, <3>4, <3>5 DEF OneOwes, OwesTheCell, SaysTheCell
  <2>2. CASE a \notin as
    <3>1. OneOwes(a) /\ OwesTheCell(a) /\ SaysTheCell(a)
      BY <1>9, <2>2 DEF Said, Recorded
    <3>2. \A p \in Sends : /\ Owes(p, a)' <=> Owes(p, a)
                           /\ Owes(p, a) => send'[p] = send[p]
      BY <1>6, <2>2 DEF Owes
    <3>3. \A h \in DOMAIN gradebook : gradebook'[h].cell[a] = gradebook[h].cell[a]
      BY <1>2, <2>2
    <3>4. ASSUME NEW p \in Sends, Owes(p, a) PROVE send[p].assignment \in DOMAIN gradebook
      <4>1. WorksOnItsPush(p)
        BY <3>4 DEF Owes, Inv, OneSlot, Works
      <4> QED
        BY <4>1 DEF WorksOnItsPush, Said, Placed
    <3>5. OwesTheCell(a)'
      BY <3>1, <3>2, <3>3, <3>4 DEF OwesTheCell
    <3>6. \A j \in DOMAIN pushes : pushes[j].state = "live" => pushes[j].assignment \in DOMAIN gradebook
      BY DEF Said, Placed
    <3>7. SaysTheCell(a)'
      BY <3>1, <3>2, <3>3, <3>6 DEF SaysTheCell
    <3> QED
      BY <3>1, <3>2, <3>5, <3>7 DEF OneOwes
  <2> QED
    BY <2>1, <2>2
<1> QED
  BY <1>7, <1>8, <1>9 DEF Said, Fresh, Recorded

\* Every way the write of the scores can end.
LEMMA PutSaid ==
  ASSUME Inv, Said, NEW q \in Sends, Put(q)
  PROVE  Said'
<1>1. CASE /\ ~gradebook[send[q].assignment].exists /\ Archive(send[q].push) /\ Finish(q)
           /\ UNCHANGED <<gradebook, losses, doubtful>>
  <2>1. RowsGo /\ CellsGo /\ send[q].at = "put"
    BY <1>1, ArchiveGoes, NoCellGoes DEF Put
  <2>2. \A a \in Candidates : ~Owes(q, a)
    BY <2>1 DEF Owes
  <2> QED
    BY <1>1, <2>1, <2>2, Finished, SaidStays, {q} \in SUBSET Sends DEF Inv
<1>2. ASSUME NEW as \in SUBSET Some(send[q].todo),
             as # {} => gradebook[send[q].assignment].exists,
             WriteCells(send[q].assignment, Only(send[q].todo, as)), UNCHANGED pushes,
             \/ /\ IF Some(Accepted(send[q].todo, as)) = {} THEN Finish(q)
                   ELSE send' = [send EXCEPT ![q].todo = Accepted(send[q].todo, as), ![q].at = "record"]
                /\ doubtful' = (doubtful \ as) \cup {a \in as : Unrecorded(q, a)}
             \/ doubtful' = doubtful \cup as /\ Finish(q)
      PROVE  Said'
  <2>1. as \subseteq Some(Accepted(send[q].todo, as))
    BY <1>2 DEF Some, Accepted, Only
  <2>2. doubtful \ as \subseteq doubtful'
    BY <1>2
  <2>3. \/ Finish(q) /\ as \subseteq doubtful'
        \/ /\ send' = [send EXCEPT ![q].todo = Accepted(send[q].todo, as), ![q].at = "record"]
           /\ \A a \in as : Unrecorded(q, a) => a \in doubtful'
    BY <1>2, <2>1
  <2> QED
    BY <1>2, <2>2, <2>3, WriteSaid DEF Put
<1> QED
  BY <1>1, <1>2 DEF Put

\* A record says what its send wrote.
LEMMA RecordSaid ==
  ASSUME Inv, Said, NEW q \in Sends, NEW b \in Candidates, Record(q, b)
  PROVE  Said'
<1> DEFINE i == send[q].push
           sent == [pushes[i].sent EXCEPT ![b] = send[q].todo[b]]
<1>1. /\ GradebookTypeOK /\ send[q].todo \in Points /\ Owes(q, b) /\ WorksOnItsPush(q)
      /\ i \in DOMAIN pushes /\ pushes[i] \in Push
  <2>1. GradebookTypeOK /\ WorksOnItsPush(q)
    BY DEF Record, Inv, OneSlot, Works
  <2> QED
    BY <2>1, Rows DEF Record, GradebookTypeOK, Send, Owes, WorksOnItsPush
<1>2. UNCHANGED <<gradebook, doubtful>>
  BY DEF Record, histories
<1>3. /\ \A p \in Sends \ {q} : send'[p] = send[p]
      /\ send'[q].at \in {"idle", "record"}
      /\ \A a \in Candidates : Owes(q, a)' <=> Owes(q, a) /\ a # b
      /\ send'[q].at = "record" =>
           /\ send'[q].push = i /\ send'[q].assignment = send[q].assignment
           /\ \A a \in Candidates \ {b} : send'[q].todo[a] = send[q].todo[a]
  <2>1. CASE Finish(q) /\ Some(send[q].todo) = {b}
    BY <1>1, <2>1, Finished DEF Owes, Some
  <2>2. CASE send' = [send EXCEPT ![q].todo[b] = NoTotal]
    <3> DEFINE t == [send[q].todo EXCEPT ![b] = NoTotal]
    <3>1. t[b] = NoTotal /\ \A a \in Candidates \ {b} : t[a] = send[q].todo[a]
      BY <1>1 DEF Points
    <3>2. send' = [send EXCEPT ![q].todo = t]
      BY <2>2
    <3> HIDE DEF t
    <3>3. /\ \A p \in Sends \ {q} : send'[p] = send[p]
          /\ send'[q].at = "record" /\ send'[q].push = i
          /\ send'[q].assignment = send[q].assignment /\ send'[q].todo = t
      BY <1>1, <3>2 DEF GradebookTypeOK, Send, Owes
    <3> QED
      BY <1>1, <3>1, <3>3 DEF Owes
  <2> QED
    BY <2>1, <2>2 DEF Record
<1>4. /\ DOMAIN pushes' = DOMAIN pushes
      /\ \A j \in DOMAIN pushes : /\ pushes'[j].state = pushes[j].state
                                  /\ pushes'[j].assignment = pushes[j].assignment
                                  /\ j # i => pushes'[j] = pushes[j]
      /\ \A a \in Candidates : pushes'[i].sent[a] = IF a = b THEN send[q].todo[b] ELSE pushes[i].sent[a]
  <2>1. pushes' = [pushes EXCEPT ![i].sent = sent]
    BY DEF Record
  <2>2. \A a \in Candidates : sent[a] = IF a = b THEN send[q].todo[b] ELSE pushes[i].sent[a]
    BY <1>1 DEF Push, Points
  <2> HIDE DEF sent
  <2>3. /\ [pushes[i] EXCEPT !.sent = sent].state = pushes[i].state
        /\ [pushes[i] EXCEPT !.sent = sent].assignment = pushes[i].assignment
        /\ [pushes[i] EXCEPT !.sent = sent].sent = sent
    BY <1>1 DEF Push
  <2> HIDE DEF i
  <2> QED
    BY <1>1, <2>1, <2>2, <2>3
<1>5. pushes[i].state # "claim" /\ pushes[i].assignment = send[q].assignment
  BY <1>1 DEF WorksOnItsPush
<1> HIDE DEF i
<1>6. Placed'
  BY <1>2, <1>4, <1>5 DEF Said, Placed
<1>7. ASSUME NEW p \in Sends, send'[p].at = "created" PROVE Unnoted(p)'
  <2>1. send'[p] = send[p] /\ Unnoted(p)
    BY <1>3, <1>7 DEF Said, Fresh
  <2>2. \A o \in Sends : send'[o].at = "created" => send'[o] = send[o]
    BY <1>3
  <2> QED
    BY <1>2, <1>4, <2>1, <2>2 DEF Unnoted
<1>8. ASSUME NEW a \in Candidates \ doubtful'
      PROVE  OneOwes(a)' /\ OwesTheCell(a)' /\ SaysTheCell(a)'
  <2>1. OneOwes(a) /\ OwesTheCell(a) /\ SaysTheCell(a)
    BY <1>2, <1>8 DEF Said, Recorded
  <2>2. \A p \in Sends : Owes(p, a)' => /\ Owes(p, a) /\ send'[p].push = send[p].push
                                        /\ send'[p].assignment = send[p].assignment
                                        /\ send'[p].todo[a] = send[p].todo[a]
    BY <1>3 DEF Owes, i
  <2>3. OneOwes(a)'
    BY <2>1, <2>2 DEF OneOwes
  <2>4. ASSUME NEW p \in Sends, Owes(p, a)', pushes'[send'[p].push].state = "live"
        PROVE  gradebook'[send'[p].assignment].cell[a] = send'[p].todo[a]
    <3>1. send[p].push \in DOMAIN pushes
      BY <2>2, <2>4 DEF Owes, Inv, OneSlot, Works, WorksOnItsPush
    <3> QED
      BY <1>2, <1>4, <2>1, <2>2, <2>4, <3>1 DEF OwesTheCell
  <2>5. ASSUME NEW j \in DOMAIN pushes', pushes'[j].state = "live",
               \A p \in Sends : Owes(p, a)' => send'[p].push # j
        PROVE  pushes'[j].sent[a] = gradebook'[pushes'[j].assignment].cell[a]
    <3>1. j \in DOMAIN pushes /\ pushes[j].state = "live" /\ pushes'[j].assignment = pushes[j].assignment
      BY <1>4, <2>5
    <3>2. CASE j = i /\ a = b
      <4>1. gradebook[send[q].assignment].cell[b] = send[q].todo[b]
        BY <1>1, <2>1, <3>1, <3>2 DEF OwesTheCell, i
      <4> QED
        BY <1>2, <1>4, <1>5, <3>1, <3>2, <4>1
    <3>3. CASE j # i \/ a # b
      <4>1. \A p \in Sends : Owes(p, a) => send[p].push # j
        <5>1. \A p \in Sends \ {q} : Owes(p, a) => Owes(p, a)' /\ send'[p] = send[p]
          BY <1>3 DEF Owes
        <5>2. Owes(q, a) => send[q].push # j
          BY <1>3, <2>5, <3>3 DEF i, Owes
        <5> QED
          BY <2>5, <5>1, <5>2
      <4>2. pushes'[j].sent[a] = pushes[j].sent[a]
        BY <1>4, <3>1, <3>3
      <4> QED
        BY <1>2, <2>1, <3>1, <4>1, <4>2 DEF SaysTheCell
    <3> QED
      BY <3>2, <3>3
  <2> QED
    BY <2>3, <2>4, <2>5 DEF OwesTheCell, SaysTheCell
<1> QED
  BY <1>6, <1>7, <1>8 DEF Said, Fresh, Recorded

\* What happens around the sends changes no record and no cell.
LEMMA AroundSaid ==
  ASSUME Inv, Said,
         \/ \E i : ClaimAges(i) \/ DeleteAssignment(i)
         \/ \E a \in Candidates, t \in Totals \cup {NoTotal} : TotalChanges(a, t)
         \/ UNCHANGED gradebookVars
  PROVE  Said'
<1>1. UNCHANGED <<send, doubtful>>
  BY DEF ClaimAges, DeleteAssignment, TotalChanges, gradebookVars, histories
<1>2. RowsGo
  <2>1. ASSUME NEW i, ClaimAges(i) PROVE RowsGo
    BY <2>1, Rows DEF ClaimAges, Inv, Push, RowsGo
  <2> QED
    BY <2>1, NoRowGoes DEF DeleteAssignment, TotalChanges, gradebookVars
<1>3. CellsGo
  <2>1. ASSUME NEW h, DeleteAssignment(h) PROVE CellsGo
    BY <2>1, Rows DEF DeleteAssignment, Inv, Assignment, CellsGo
  <2> QED
    BY <2>1, NoCellGoes DEF ClaimAges, TotalChanges, gradebookVars
<1> QED
  BY <1>1, <1>2, <1>3, SaidStays, {} \in SUBSET Sends

\* Every step keeps the records true.
LEMMA SaidStep == Inv /\ Said /\ [GradebookNext]_gradebookVars => Said'
<1> SUFFICES ASSUME Inv, Said, [GradebookNext]_gradebookVars PROVE Said'
  OBVIOUS
<1>1. ASSUME NEW q \in Sends,
             \/ SendStart(q) \/ PriorScores(q) \/ Plan(q) \/ CheckAssignment(q) \/ Claim(q)
             \/ Create(q) \/ Created(q) \/ Put(q) \/ SendDies(q)
      PROVE  Said'
  BY <1>1, ReadingSaid, CheckSaid, ClaimSaid, CreateSaid, CreatedSaid, PutSaid
<1>2. ASSUME NEW q \in Sends, NEW a \in Candidates, Record(q, a) PROVE Said'
  BY <1>2, RecordSaid
<1>3. ASSUME NEW i, ClaimAges(i) \/ DeleteAssignment(i) PROVE Said'
  BY <1>3, AroundSaid
<1>4. ASSUME NEW a \in Candidates, NEW t \in Totals \cup {NoTotal}, TotalChanges(a, t) PROVE Said'
  BY <1>4, AroundSaid
<1>5. ASSUME UNCHANGED gradebookVars PROVE Said'
  BY <1>5, AroundSaid
<1> QED
  BY <1>1, <1>2, <1>3, <1>4, <1>5 DEF GradebookNext

-----------------------------------------------------------------------------
(* The theorems *)

\* The inductive invariant of the sends of a section.
THEOREM GradebookInvariant == GradebookSpec => []Inv
  BY InitInv, InvStep, PTL DEF GradebookSpec

\* Rows, assignments and sends keep their types (livePush, planSend, writeScores).
THEOREM GradebookTypes == GradebookSpec => []GradebookTypeOK
<1>1. Inv => GradebookTypeOK
  BY DEF Inv
<1> QED
  BY <1>1, GradebookInvariant, PTL

\* The claim keeps two first sends from both creating an assignment, whatever
\* fails or dies (sendPowerSchool's insert before its create).
THEOREM OneAssignment == GradebookSpec => []NoSecondAssignment
  BY InvImplies, GradebookInvariant, PTL

\* What the records of a section need.
THEOREM RecordInvariant == GradebookSpec => [](Inv /\ Said)
  BY InitInv, InitSaid, InvStep, SaidStep, PTL DEF GradebookSpec

\* A score that is skipped as unchanged is in the gradebook (planSend reads
\* what writeScores' accepted rows left in gradebook_push_scores).
THEOREM RecordsHold == GradebookSpec => []RecordIsTheGradebook
<1>1. Inv /\ Said => RecordIsTheGradebook
  BY DEF Said, Recorded, SaysTheCell, Owes, RecordIsTheGradebook
<1> QED
  BY <1>1, RecordInvariant, PTL

=============================================================================
