-------------------------- MODULE AttemptPlaneProofs --------------------------
(***************************************************************************)
(* Proofs about AttemptPlane, for every value of its constants: its         *)
(* invariant, and that it implements AttemptContract.                       *)
(*                                                                          *)
(* The inductive invariant Inv is the types, that the hand-in columns of    *)
(* the one attempts row agree (Good), and that a free slot holds nothing    *)
(* (Slot).  The last is what the refinement needs of it: a request's        *)
(* leftovers cannot be taken for a write.                                   *)
(***************************************************************************)
EXTENDS AttemptPlane, TLAPS

-----------------------------------------------------------------------------
(* The operators keep the types *)

\* Some sitting exists: an attempts row always names one (test_session_id).
LEMMA AnySittingType == AnySitting \in Sittings
  BY SittingsAssumption DEF AnySitting

\* The absent row has the type of a row.
LEMMA NoRowType == NoRow \in Row
  BY AnySittingType DEF NoRow, Row, Instant, Null

\* A free slot has the type of a request.
LEMMA IdleType == Idle \in Request
  BY AnySittingType, NoRowType DEF Idle, Request, Kinds, Steps, Instant, Null

\* The columns a handler goes on to use of the row it read are a row.
LEMMA SeenType ==
  ASSUME NEW row \in Row PROVE Seen(row) \in Row
  BY DEF Seen, Row, Instant, Null

\* A row reduced to the id a later UPDATE names is a row.
LEMMA ByIdType ==
  ASSUME NEW row \in Row PROVE ById(row) \in Row
  BY NoRowType DEF ById, Row

\* A hand-in (handInAttempt, the student's submit) leaves a row.
LEMMA HandedInType ==
  ASSUME attempt \in Row, now \in Nat, NEW row, NEW byStaff \in BOOLEAN
  PROVE  HandedIn(row, byStaff) \in Row
  BY DEF HandedIn, Row, Instant

\* An extension (extendAttempt) leaves a row.
LEMMA ExtendedType ==
  ASSUME attempt \in Row, NEW row, NEW endsAt \in Instant
  PROVE  Extended(row, endsAt) \in Row
  BY DEF Extended, Row, Instant

\* A pass back (passBackAttempt) leaves a row, with or without a new deadline.
LEMMA PassedBackType ==
  ASSUME attempt \in Row, NEW r \in Requests, req[r] \in Request
  PROVE  PassedBack(r) \in Row
<1> DEFINE override == IF req[r].endsAt = Null THEN attempt.override ELSE req[r].endsAt
<1>1. attempt.passBacks + 1 \in Nat
  BY DEF Row
<1>2. override \in Instant
  BY DEF Row, Request
<1>3. Null \in Instant
  BY DEF Instant
<1>4. PassedBack(r) = [attempt EXCEPT !.status = "in_progress", !.submittedAt = Null,
                                      !.byStaff = FALSE, !.passBacks = attempt.passBacks + 1,
                                      !.override = override]
  BY DEF PassedBack
<1> HIDE DEF override
<1> QED
  BY <1>1, <1>2, <1>3, <1>4 DEF Row

-----------------------------------------------------------------------------
(* The invariant *)

\* The hand-in columns of a row agree.
Agree(a) ==
  /\ a.status = "submitted" <=> a.submittedAt # Null
  /\ a.byStaff => a.status = "submitted"
Good(a) == a \in Row /\ Agree(a)

\* A free slot holds nothing of the request that left it.
Slot(q) == q \in Request /\ (q.pc = "idle" => q = Idle)

SittingRow == [status : {"open", "closed"}, updated : Nat, noLimit : BOOLEAN]

Inv ==
  /\ now \in Nat
  /\ sitting \in [Sittings -> SittingRow]
  /\ Good(attempt)
  /\ answer \in Answers \cup {NoAnswer}
  /\ req \in [Requests -> Request]
  /\ \A r \in Requests : Slot(req[r])

\* The absent row says nowhere that it was handed in.
LEMMA NoRowGood == Good(NoRow)
  BY NoRowType DEF Good, Agree, NoRow

\* The hand-in sets the status and the instant together, so a row whose hand-in
\* columns agreed still agrees, even when the hand-in is applied twice.
LEMMA HandedInGood ==
  ASSUME Good(attempt), now \in Nat, NEW row, NEW byStaff \in BOOLEAN
  PROVE  Good(HandedIn(row, byStaff))
<1>1. HandedIn(row, byStaff) \in Row
  BY HandedInType DEF Good
<1>2. CASE StillThere(row)
  <2>1. HandedIn(row, byStaff).status = "submitted" /\ HandedIn(row, byStaff).submittedAt = now
    BY <1>2 DEF HandedIn, Good, Row
  <2>2. now # Null
    BY DEF Null
  <2> QED
    BY <1>1, <2>1, <2>2 DEF Good, Agree
<1>3. CASE ~StillThere(row)
  BY <1>3 DEF HandedIn
<1> QED
  BY <1>2, <1>3

\* An extension touches none of the hand-in columns.
LEMMA ExtendedGood ==
  ASSUME Good(attempt), NEW row, NEW endsAt \in Instant
  PROVE  Good(Extended(row, endsAt))
<1>1. Extended(row, endsAt) \in Row
  BY ExtendedType DEF Good
<1>2. /\ Extended(row, endsAt).status = attempt.status
      /\ Extended(row, endsAt).submittedAt = attempt.submittedAt
      /\ Extended(row, endsAt).byStaff = attempt.byStaff
  BY DEF Extended, Good, Row
<1> QED
  BY <1>1, <1>2 DEF Good, Agree

\* A pass back clears the status, the instant and the staff mark together: the
\* step that needs all three of passBackAttempt's assignments.
LEMMA PassedBackGood ==
  ASSUME Good(attempt), NEW r \in Requests, req[r] \in Request
  PROVE  Good(PassedBack(r))
<1>1. PassedBack(r) \in Row
  BY PassedBackType DEF Good
<1>2. /\ PassedBack(r).status = "in_progress"
      /\ PassedBack(r).submittedAt = Null
      /\ PassedBack(r).byStaff = FALSE
  BY DEF PassedBack, Good, Row
<1> QED
  BY <1>1, <1>2 DEF Good, Agree

\* The row a join inserts is in progress and carries no hand-in (POST attempts).
LEMMA InsertedGood ==
  ASSUME Good(attempt), now \in Nat, NEW s \in Sittings
  PROVE  Good([NoRow EXCEPT !.id = attempt.id + 1, !.status = "in_progress",
                            !.sitting = s, !.started = now])
<1> DEFINE a == [NoRow EXCEPT !.id = attempt.id + 1, !.status = "in_progress",
                              !.sitting = s, !.started = now]
<1>1. attempt.id + 1 \in Nat
  BY DEF Good, Row
<1>2. a \in Row
  BY <1>1, NoRowType DEF Row
<1>3. a.status = "in_progress" /\ a.submittedAt = Null /\ a.byStaff = FALSE
  BY DEF NoRow
<1> QED
  BY <1>2, <1>3 DEF Good, Agree

\* Following the student to another sitting touches no hand-in column.
LEMMA ReboundGood ==
  ASSUME Good(attempt), NEW s \in Sittings
  PROVE  Good([attempt EXCEPT !.sitting = s])
  BY DEF Good, Agree, Row

\* What is left of a deleted attempt is its id.
LEMMA DeletedGood ==
  ASSUME Good(attempt)
  PROVE  Good([NoRow EXCEPT !.id = attempt.id])
  BY NoRowType DEF Good, Agree, NoRow, Row

\* What a handler does to its slot: finish, or go on with new values.
LEMMA IdleSlot == Slot(Idle)
  BY IdleType DEF Slot

\* A request a handler launches, in each of the shapes the Load actions give it.
LEMMA Launched ==
  ASSUME NEW kind \in Kinds, NEW pc \in Steps \ {"idle"}, NEW row \in Row,
         NEW s \in Sittings, NEW flag \in BOOLEAN, NEW v \in Answers \cup {NoAnswer},
         NEW endsAt \in Instant, NEW t \in Nat
  PROVE  /\ Slot([Launch(kind, pc) EXCEPT !.sit = s, !.flag = flag])
         /\ Slot([Launch(kind, pc) EXCEPT !.row = row, !.body = v])
         /\ Slot([Launch(kind, pc) EXCEPT !.row = row])
         /\ Slot([Launch(kind, pc) EXCEPT !.sit = s, !.flag = flag, !.at = t])
         /\ Slot([Launch(kind, pc) EXCEPT !.row = row, !.endsAt = endsAt])
         /\ Slot([Launch(kind, pc) EXCEPT !.sit = s, !.endsAt = endsAt, !.at = t])
         /\ Slot([Launch(kind, pc) EXCEPT !.sit = s])
<1>1. Launch(kind, pc) \in Request /\ Launch(kind, pc).pc = pc
  BY IdleType DEF Launch, Request
<1> QED
  BY <1>1 DEF Slot, Request

\* A request that goes on to its next await keeps its type.
LEMMA Moved ==
  ASSUME NEW q, Slot(q), NEW pc \in Steps \ {"idle"}, NEW row \in Row
  PROVE  Slot([q EXCEPT !.pc = pc]) /\ Slot([q EXCEPT !.row = row, !.pc = pc])
  BY DEF Slot, Request

\* Giving one slot a good value keeps every slot good.
LEMMA SlotChange ==
  ASSUME Inv, NEW r \in Requests, NEW q, Slot(q), req' = [req EXCEPT ![r] = q]
  PROVE  /\ req' \in [Requests -> Request]
         /\ \A p \in Requests : Slot(req'[p])
  BY DEF Inv, Slot

\* Finishing, going on and deciding keep every slot good.
LEMMA Slots ==
  ASSUME Inv, NEW r \in Requests
  PROVE  /\ Done(r) => req' \in [Requests -> Request] /\ \A p \in Requests : Slot(req'[p])
         /\ \A pc \in Steps \ {"idle"} :
              Goto(r, pc) => req' \in [Requests -> Request] /\ \A p \in Requests : Slot(req'[p])
         /\ \A row \in Row :
              Decided(r, row) => req' \in [Requests -> Request] /\ \A p \in Requests : Slot(req'[p])
<1>1. Done(r) => req' \in [Requests -> Request] /\ \A p \in Requests : Slot(req'[p])
  BY IdleSlot, SlotChange DEF Done
<1>2. ASSUME NEW pc \in Steps \ {"idle"}, Goto(r, pc)
      PROVE  req' \in [Requests -> Request] /\ \A p \in Requests : Slot(req'[p])
  <2>1. req' = [req EXCEPT ![r] = [req[r] EXCEPT !.pc = pc]]
    BY <1>2 DEF Goto
  <2>2. Slot([req[r] EXCEPT !.pc = pc])
    BY NoRowType, Moved DEF Inv
  <2> QED
    BY <2>1, <2>2, SlotChange
<1>3. ASSUME NEW row \in Row, Decided(r, row)
      PROVE  req' \in [Requests -> Request] /\ \A p \in Requests : Slot(req'[p])
  <2>1. req' = [req EXCEPT ![r] = [req[r] EXCEPT !.row = ById(row), !.pc = "checked"]]
    BY <1>3 DEF Decided
  <2>2. Slot([req[r] EXCEPT !.row = ById(row), !.pc = "checked"])
    BY ByIdType, Moved DEF Inv, Steps
  <2> QED
    BY <2>1, <2>2, SlotChange
<1> QED
  BY <1>1, <1>2, <1>3

-----------------------------------------------------------------------------
(* The steps *)

\* The database starts with no attempt and no request in flight.
LEMMA InitInv == Init => Inv
<1> SUFFICES ASSUME Init PROVE Inv
  OBVIOUS
<1>1. sitting \in [Sittings -> SittingRow]
  BY DEF Init, SittingRow
<1>2. now \in Nat /\ answer \in Answers \cup {NoAnswer}
  BY DEF Init
<1>3. Good(attempt)
  BY NoRowGood DEF Init
<1>4. req \in [Requests -> Request] /\ \A r \in Requests : Slot(req[r])
  BY IdleType, IdleSlot DEF Init
<1> QED
  BY <1>1, <1>2, <1>3, <1>4 DEF Inv

\* Every step of the student's three routes (join, write, submit) keeps the
\* invariant; one step of the proof for each await-to-await stretch of a handler.
LEMMA StudentInv ==
  ASSUME Inv, NEW r \in Requests, StudentStep(r)
  PROVE  Inv'
<1> DEFINE SlotsOK == req' \in [Requests -> Request] /\ \A p \in Requests : Slot(req'[p])
<1>0. req[r] \in Request /\ attempt \in Row /\ now \in Nat
  BY DEF Inv, Good
<1>i. Null \in Instant /\ 0 \in Nat
  BY DEF Instant
<1>k. Kinds = {"none", "join", "write", "submit", "handIn", "handInAll", "extend",
               "extendAll", "passBack", "delete", "close"}
  BY DEF Kinds, StudentKinds, StaffKinds
<1>f. req[r].sit \in Sittings /\ req[r].row \in Row /\ req[r].flag \in BOOLEAN
      /\ req[r].body \in Answers \cup {NoAnswer} /\ req[r].endsAt \in Instant
  BY <1>0 DEF Request
<1>1. ASSUME NEW s \in Sittings, JoinLoad(r, s)
      PROVE  Inv'
  <2> DEFINE q == [Launch("join", "sitting") EXCEPT !.sit = s, !.flag = sitting[s].noLimit]
  <2>1. sitting[s].noLimit \in BOOLEAN
    BY DEF Inv, SittingRow
  <2>3. Slot(q)
    BY <2>1, <1>i, <1>k, NoRowType, Launched DEF Steps
  <2>4. SlotsOK
    BY <1>1, <2>3, SlotChange DEF JoinLoad
  <2> QED
    BY <1>1, <2>4 DEF JoinLoad, Inv, Good, Agree
<1>2. ASSUME JoinRow(r) PROVE Inv'
  <2> DEFINE pc == IF attempt.status = "absent" THEN "insert" ELSE "rebind"
  <2>1. Slot([req[r] EXCEPT !.row = Seen(attempt), !.pc = pc])
    BY <1>0, SeenType, Moved DEF Inv, Steps
  <2>2. req' = [req EXCEPT ![r] = [req[r] EXCEPT !.row = Seen(attempt), !.pc = pc]]
    BY <1>2 DEF JoinRow
  <2>3. SlotsOK
    BY <2>1, <2>2, SlotChange
  <2> QED
    BY <1>2, <2>3 DEF JoinRow, Inv, Good, Agree
<1>3. ASSUME JoinInsert(r) PROVE Inv'
  <2> DEFINE a == [NoRow EXCEPT !.id = attempt.id + 1, !.status = "in_progress",
                                !.sitting = req[r].sit, !.started = now]
  <2>1. CASE UniqueConflict
    <3>1. SlotsOK
      BY <1>3, <2>1, Slots DEF JoinInsert, Steps
    <3> QED
      BY <1>3, <2>1, <3>1 DEF JoinInsert, Inv, Good, Agree
  <2>2. CASE ~UniqueConflict
    <3>1. attempt' = a /\ req' = [req EXCEPT ![r] = [req[r] EXCEPT !.row = Seen(a), !.pc = "apply"]]
      BY <1>3, <2>2 DEF JoinInsert
    <3>2. Good(a)
      BY <1>f, InsertedGood DEF Inv
    <3>3. Slot([req[r] EXCEPT !.row = Seen(a), !.pc = "apply"])
      BY <3>2, SeenType, Moved DEF Inv, Steps, Good
    <3>4. SlotsOK
      BY <3>1, <3>3, SlotChange
    <3>5. Good(attempt')
      BY <3>1, <3>2
    <3> HIDE DEF a
    <3> QED
      BY <1>3, <3>4, <3>5 DEF JoinInsert, Inv, Good, Agree
  <2> QED
    BY <2>1, <2>2
<1>4. ASSUME JoinReread(r) PROVE Inv'
  <2>1. CASE attempt.status = "absent"
    BY <1>4, <2>1, Slots DEF JoinReread, Inv, Good, Agree
  <2>2. CASE attempt.status # "absent"
    <3>1. req' = [req EXCEPT ![r] = [req[r] EXCEPT !.row = Seen(attempt), !.pc = "rebind"]]
      BY <1>4, <2>2 DEF JoinReread
    <3>2. Slot([req[r] EXCEPT !.row = Seen(attempt), !.pc = "rebind"])
      BY <1>0, SeenType, Moved DEF Inv, Steps
    <3>3. SlotsOK
      BY <3>1, <3>2, SlotChange
    <3> QED
      BY <1>4, <3>3 DEF JoinReread, Inv, Good, Agree
  <2> QED
    BY <2>1, <2>2
<1>5. ASSUME JoinRebind(r) PROVE Inv'
  <2> DEFINE row == req[r].row
             moves == row.status = "in_progress" /\ row.sitting # req[r].sit /\ RebindTarget(row)
             a == IF moves THEN [attempt EXCEPT !.sitting = req[r].sit] ELSE attempt
             seen == IF moves THEN Seen(a) ELSE row
  <2>1. Good(a)
    BY <1>f, ReboundGood DEF Inv
  <2>2. attempt' = a /\ req' = [req EXCEPT ![r] = [req[r] EXCEPT !.row = seen, !.pc = "apply"]]
    BY <1>5 DEF JoinRebind
  <2>3. seen \in Row
    BY <1>f, <2>1, SeenType DEF Good
  <2> HIDE DEF a, seen, moves, row
  <2>4. Slot([req[r] EXCEPT !.row = seen, !.pc = "apply"])
    BY <2>3, Moved DEF Inv, Steps
  <2>5. SlotsOK
    BY <2>2, <2>4, SlotChange
  <2>6. Good(attempt')
    BY <2>1, <2>2
  <2> QED
    BY <1>5, <2>5, <2>6 DEF JoinRebind, Inv, Good, Agree
<1>6. ASSUME JoinApply(r) PROVE Inv'
  <2>1. Good(attempt')
    BY <1>6, <1>i, ExtendedGood DEF JoinApply, InheritNoLimit, Inv
  <2>2. SlotsOK
    BY <1>6, Slots DEF JoinApply
  <2> QED
    BY <1>6, <2>1, <2>2 DEF JoinApply, Inv, Good, Agree
<1>7. ASSUME NEW v \in Answers \cup {NoAnswer}, WriteLoad(r, v) PROVE Inv'
  <2>1. Slot([Launch("write", "loaded") EXCEPT !.row = Seen(attempt), !.body = v])
    BY <1>0, <1>i, <1>k, SeenType, AnySittingType, Launched DEF Steps
  <2>2. SlotsOK
    BY <1>7, <2>1, SlotChange DEF WriteLoad
  <2> QED
    BY <1>7, <2>2 DEF WriteLoad, Inv, Good, Agree
<1>8. ASSUME WriteCheck(r) PROVE Inv'
  <2>1. SlotsOK
    BY <1>8, <1>f, Slots DEF WriteCheck
  <2> QED
    BY <1>8, <2>1 DEF WriteCheck, Inv, Good, Agree
<1>9. ASSUME WriteCommit(r) PROVE Inv'
  <2>1. SlotsOK
    BY <1>9, Slots DEF WriteCommit
  <2>2. answer' \in Answers \cup {NoAnswer}
    BY <1>9, <1>f DEF WriteCommit, Inv
  <2> QED
    BY <1>9, <2>1, <2>2 DEF WriteCommit, Inv, Good, Agree
<1>10. ASSUME SubmitLoad(r) PROVE Inv'
  <2>1. Slot([Launch("submit", "loaded") EXCEPT !.row = Seen(attempt)])
    BY <1>0, <1>i, <1>k, SeenType, AnySittingType, Launched DEF Steps
  <2>2. SlotsOK
    BY <1>10, <2>1, SlotChange DEF SubmitLoad
  <2> QED
    BY <1>10, <2>2 DEF SubmitLoad, Inv, Good, Agree
<1>11. ASSUME SubmitCheck(r) PROVE Inv'
  <2>1. SlotsOK
    BY <1>11, <1>f, Slots DEF SubmitCheck
  <2> QED
    BY <1>11, <2>1 DEF SubmitCheck, Inv, Good, Agree
<1>12. ASSUME SubmitCommit(r) PROVE Inv'
  <2>1. Good(attempt')
    BY <1>12, HandedInGood DEF SubmitCommit, Inv
  <2>2. SlotsOK
    BY <1>12, Slots DEF SubmitCommit
  <2> QED
    BY <1>12, <2>1, <2>2 DEF SubmitCommit, Inv, Good, Agree
<1> QED
  BY <1>1, <1>2, <1>3, <1>4, <1>5, <1>6, <1>7, <1>8, <1>9, <1>10, <1>11, <1>12
     DEF StudentStep

\* Every step of the seven staff routes keeps the invariant.
LEMMA StaffInv ==
  ASSUME Inv, NEW r \in Requests, StaffStep(r)
  PROVE  Inv'
<1> DEFINE SlotsOK == req' \in [Requests -> Request] /\ \A p \in Requests : Slot(req'[p])
<1>0. req[r] \in Request /\ attempt \in Row /\ now \in Nat
  BY DEF Inv, Good
<1>i. Null \in Instant /\ 0 \in Nat
  BY DEF Instant
<1>k. Kinds = {"none", "join", "write", "submit", "handIn", "handInAll", "extend",
               "extendAll", "passBack", "delete", "close"}
  BY DEF Kinds, StudentKinds, StaffKinds
<1>f. req[r].sit \in Sittings /\ req[r].row \in Row /\ req[r].endsAt \in Instant
      /\ req[r].at \in Nat
  BY <1>0 DEF Request
<1>e. \A t \in Ends : t \in Instant
  BY TimesAssumption DEF Ends, Instant
<1>m. \A s \in Managed : s \in Sittings
  BY SittingsAssumption
<1>1. ASSUME HandInLoad(r) PROVE Inv'
  <2>1. Slot([Launch("handIn", "loaded") EXCEPT !.row = Seen(attempt)])
    BY <1>0, <1>i, <1>k, SeenType, AnySittingType, Launched DEF Steps
  <2>2. SlotsOK
    BY <1>1, <2>1, SlotChange DEF HandInLoad
  <2> QED
    BY <1>1, <2>2 DEF HandInLoad, Inv, Good, Agree
<1>2. ASSUME HandInCheck(r) PROVE Inv'
  <2>1. SlotsOK
    BY <1>2, <1>f, Slots DEF HandInCheck
  <2> QED
    BY <1>2, <2>1 DEF HandInCheck, Inv, Good, Agree
<1>3. ASSUME HandInCommit(r) PROVE Inv'
  <2>1. Good(attempt')
    BY <1>3, HandedInGood DEF HandInCommit, Inv
  <2>2. SlotsOK
    BY <1>3, Slots DEF HandInCommit
  <2> QED
    BY <1>3, <2>1, <2>2 DEF HandInCommit, Inv, Good, Agree
<1>4. ASSUME NEW s \in Managed, HandInAllLoad(r, s) PROVE Inv'
  <2> DEFINE flag == ~SittingIsOver(s, now, 0)
  <2>1. flag \in BOOLEAN
    BY DEF SittingIsOver
  <2> HIDE DEF flag
  <2>2. Slot([Launch("handInAll", "select") EXCEPT !.sit = s, !.flag = flag, !.at = now])
    BY <2>1, <1>0, <1>i, <1>k, <1>m, NoRowType, Launched DEF Steps
  <2>3. SlotsOK
    BY <1>4, <2>2, SlotChange DEF HandInAllLoad, flag
  <2> QED
    BY <1>4, <2>3 DEF HandInAllLoad, Inv, Good, Agree
<1>5. ASSUME HandInAllSelect(r) PROVE Inv'
  <2>1. SlotsOK
    BY <1>5, <1>0, Slots DEF HandInAllSelect
  <2> QED
    BY <1>5, <2>1 DEF HandInAllSelect, Inv, Good, Agree
<1>6. ASSUME NEW t \in Ends, ExtendLoad(r, t) PROVE Inv'
  <2>1. Slot([Launch("extend", "checked") EXCEPT !.row = ById(attempt), !.endsAt = t])
    BY <1>0, <1>i, <1>k, <1>e, ByIdType, AnySittingType, Launched DEF Steps
  <2>2. SlotsOK
    BY <1>6, <2>1, SlotChange DEF ExtendLoad
  <2> QED
    BY <1>6, <2>2 DEF ExtendLoad, Inv, Good, Agree
<1>7. ASSUME NEW s \in Managed, NEW t \in Ends, ExtendAllLoad(r, s, t) PROVE Inv'
  <2>1. Slot([Launch("extendAll", "select") EXCEPT !.sit = s, !.endsAt = t, !.at = now])
    BY <1>0, <1>k, <1>e, <1>m, NoRowType, Launched DEF Steps
  <2>2. SlotsOK
    BY <1>7, <2>1, SlotChange DEF ExtendAllLoad
  <2> QED
    BY <1>7, <2>2 DEF ExtendAllLoad, Inv, Good, Agree
<1>8. ASSUME ExtendAllSelect(r) PROVE Inv'
  <2>1. SlotsOK
    BY <1>8, <1>0, Slots DEF ExtendAllSelect, Steps
  <2> QED
    BY <1>8, <2>1 DEF ExtendAllSelect, Inv, Good, Agree
<1>9. ASSUME ExtendCommit(r) PROVE Inv'
  <2>1. Good(attempt')
    BY <1>9, <1>f, ExtendedGood DEF ExtendCommit, Inv
  <2>2. SlotsOK
    BY <1>9, Slots DEF ExtendCommit, Steps
  <2> QED
    BY <1>9, <2>1, <2>2 DEF ExtendCommit, Inv, Good, Agree
<1>10. ASSUME ExtendAllFlag(r) PROVE Inv'
  <2> DEFINE s == req[r].sit
             stamp == IF sitting[s].status = "closed" THEN req[r].at ELSE sitting[s].updated
             flag == (req[r].endsAt = Null)
  <2>1. sitting[s] \in SittingRow /\ stamp \in Nat /\ flag \in BOOLEAN
    BY <1>f DEF Inv, SittingRow
  <2>2. sitting' = [sitting EXCEPT ![s] = [sitting[s] EXCEPT !.noLimit = flag, !.updated = stamp]]
    BY <1>10, <1>f DEF ExtendAllFlag, Inv, SittingRow
  <2> HIDE DEF stamp, flag
  <2>3. [sitting[s] EXCEPT !.noLimit = flag, !.updated = stamp] \in SittingRow
    BY <2>1 DEF SittingRow
  <2>4. sitting' \in [Sittings -> SittingRow]
    BY <2>2, <2>3 DEF Inv
  <2>5. SlotsOK
    BY <1>10, Slots DEF ExtendAllFlag
  <2> QED
    BY <1>10, <2>4, <2>5 DEF ExtendAllFlag, Inv, Good, Agree
<1>11. ASSUME NEW t \in Ends, PassBackLoad(r, t) PROVE Inv'
  <2> DEFINE endsAt == IF AttemptIsTimed(attempt) THEN t ELSE Null
  <2>1. endsAt \in Instant
    BY <1>e, <1>i
  <2>2. req' = [req EXCEPT ![r] = [Launch("passBack", "checked") EXCEPT
                                     !.row = ById(attempt), !.endsAt = endsAt]]
    BY <1>11 DEF PassBackLoad
  <2> HIDE DEF endsAt
  <2>3. Slot([Launch("passBack", "checked") EXCEPT !.row = ById(attempt), !.endsAt = endsAt])
    BY <2>1, <1>0, <1>i, <1>k, ByIdType, AnySittingType, Launched DEF Steps
  <2>4. SlotsOK
    BY <2>2, <2>3, SlotChange
  <2> QED
    BY <1>11, <2>4 DEF PassBackLoad, Inv, Good, Agree
<1>12. ASSUME PassBackCommit(r) PROVE Inv'
  <2>1. Good(attempt')
    BY <1>12, <1>0, PassedBackGood DEF PassBackCommit, Inv
  <2>2. SlotsOK
    BY <1>12, Slots DEF PassBackCommit
  <2> QED
    BY <1>12, <2>1, <2>2 DEF PassBackCommit, Inv, Good, Agree
<1>13. ASSUME DeleteLoad(r) PROVE Inv'
  <2>1. Slot([Launch("delete", "loaded") EXCEPT !.row = Seen(attempt)])
    BY <1>0, <1>i, <1>k, SeenType, AnySittingType, Launched DEF Steps
  <2>2. SlotsOK
    BY <1>13, <2>1, SlotChange DEF DeleteLoad
  <2> QED
    BY <1>13, <2>2 DEF DeleteLoad, Inv, Good, Agree
<1>14. ASSUME DeleteCheck(r) PROVE Inv'
  <2>1. SlotsOK
    BY <1>14, <1>f, Slots DEF DeleteCheck
  <2> QED
    BY <1>14, <2>1 DEF DeleteCheck, Inv, Good, Agree
<1>15. ASSUME DeleteCommit(r) PROVE Inv'
  <2>1. SlotsOK
    BY <1>15, Slots DEF DeleteCommit
  <2>2. Good(attempt') /\ answer' \in Answers \cup {NoAnswer}
    BY <1>15, DeletedGood DEF DeleteCommit, Inv
  <2> QED
    BY <1>15, <2>1, <2>2 DEF DeleteCommit, Inv, Good, Agree
<1>16. ASSUME NEW s \in Managed, CloseLoad(r, s) PROVE Inv'
  <2>1. Slot([Launch("close", "checked") EXCEPT !.sit = s])
    BY <1>i, <1>k, <1>m, NoRowType, Launched DEF Steps
  <2>2. SlotsOK
    BY <1>16, <2>1, SlotChange DEF CloseLoad
  <2> QED
    BY <1>16, <2>2 DEF CloseLoad, Inv, Good, Agree
<1>17. ASSUME CloseCommit(r) PROVE Inv'
  <2> DEFINE s == req[r].sit
  <2>1. sitting' = [sitting EXCEPT ![s] = [sitting[s] EXCEPT !.status = "closed", !.updated = now]]
    BY <1>17, <1>f DEF CloseCommit, Inv, SittingRow
  <2>2. [sitting[s] EXCEPT !.status = "closed", !.updated = now] \in SittingRow
    BY <1>0, <1>f DEF Inv, SittingRow
  <2>3. sitting' \in [Sittings -> SittingRow]
    BY <2>1, <2>2 DEF Inv
  <2>4. SlotsOK
    BY <1>17, Slots DEF CloseCommit
  <2> QED
    BY <1>17, <2>3, <2>4 DEF CloseCommit, Inv, Good, Agree
<1> QED
  BY <1>1, <1>2, <1>3, <1>4, <1>5, <1>6, <1>7, <1>8, <1>9, <1>10, <1>11, <1>12,
     <1>13, <1>14, <1>15, <1>16, <1>17 DEF StaffStep

\* The invariant is inductive.
LEMMA NextInv == Inv /\ [Next]_vars => Inv'
<1> SUFFICES ASSUME Inv, [Next]_vars PROVE Inv'
  OBVIOUS
<1>1. CASE Tick
  BY <1>1 DEF Tick, Inv, Good, Agree
<1>2. ASSUME NEW r \in Requests, StudentStep(r) PROVE Inv'
  BY <1>2, StudentInv
<1>3. ASSUME NEW r \in Requests, StaffStep(r) PROVE Inv'
  BY <1>3, StaffInv
<1>4. CASE UNCHANGED vars
  BY <1>4 DEF vars, Inv, Good, Agree
<1> QED
  BY <1>1, <1>2, <1>3, <1>4 DEF Next

\* The inductive invariant of the attempt plane, for every number of requests in
\* flight, every sitting, limit, grace and bound.
THEOREM AttemptInvariant == Spec => []Inv
  BY InitInv, NextInv, PTL DEF Spec

\* The tables and the requests keep their types; the pass-back count never goes
\* below zero (passBackAttempt's increment).
THEOREM AttemptTypes == Spec => []TypeOK
<1>1. Inv => TypeOK
  BY DEF Inv, TypeOK, Good, SittingRow
<1> QED
  BY <1>1, AttemptInvariant, PTL

\* However the handlers race, an attempt is submitted exactly when it carries a
\* hand-in instant, and no open attempt says a teacher handed it in: what
\* handInAttempt, submit and passBackAttempt promise each other by hand.
THEOREM ColumnsAgree == Spec => []HandedInColumnsAgree
<1>1. Inv => HandedInColumnsAgree
  BY DEF Inv, Good, Agree, HandedInColumnsAgree
<1> QED
  BY <1>1, AttemptInvariant, PTL

-----------------------------------------------------------------------------
(* What a step may never do *)

\* Every step either leaves the attempt alone or changes it in one of these
\* ways.
Change(r) ==
  \/ attempt.status = "absent"
  \/ attempt'.status = "absent"
  \/ attempt.status = "in_progress" /\ \E s \in Sittings :
       attempt' = [attempt EXCEPT !.sitting = s]
  \/ \E row, byStaff : attempt' = HandedIn(row, byStaff)
  \/ \E row, endsAt : attempt' = Extended(row, endsAt)
  \/ attempt' = PassedBack(r)
  \/ attempt' = attempt

\* Every write of every handler to the attempts row is of one of those forms.
LEMMA Changes ==
  ASSUME Inv, [Next]_vars PROVE attempt' = attempt \/ \E r \in Requests : Change(r)
<1>1. CASE Tick
  BY <1>1 DEF Tick
<1>2. CASE UNCHANGED vars
  BY <1>2 DEF vars
<1>3. ASSUME NEW r \in Requests, StudentStep(r)
      PROVE  attempt' = attempt \/ Change(r)
  <2>1. ASSUME JoinInsert(r) PROVE Change(r) 
    BY <2>1 DEF JoinInsert, UniqueConflict, Change
  <2>2. ASSUME JoinRebind(r) PROVE Change(r)
    BY <2>2 DEF JoinRebind, RebindTarget, Change, Inv, Request
  <2>3. ASSUME JoinApply(r) PROVE Change(r)
    BY <2>3 DEF JoinApply, InheritNoLimit, Change
  <2>4. ASSUME SubmitCommit(r) PROVE Change(r)
    BY <2>4 DEF SubmitCommit, Change
  <2> QED
    BY <1>3, <2>1, <2>2, <2>3, <2>4
       DEF StudentStep, JoinLoad, JoinRow, JoinReread, WriteLoad, WriteCheck, WriteCommit,
           SubmitLoad, SubmitCheck
<1>4. ASSUME NEW r \in Requests, StaffStep(r)
      PROVE  attempt' = attempt \/ Change(r)
  <2>1. ASSUME HandInCommit(r) PROVE Change(r)
    BY <2>1 DEF HandInCommit, Change
  <2>2. ASSUME ExtendCommit(r) PROVE Change(r)
    BY <2>2 DEF ExtendCommit, Change
  <2>3. ASSUME PassBackCommit(r) PROVE Change(r)
    BY <2>3 DEF PassBackCommit, Change
  <2>4. ASSUME DeleteCommit(r) PROVE Change(r)
    BY <2>4 DEF DeleteCommit, Change, NoRow
  <2> QED
    BY <1>4, <2>1, <2>2, <2>3, <2>4
       DEF StaffStep, HandInLoad, HandInCheck, HandInAllLoad, HandInAllSelect, ExtendLoad,
           ExtendAllLoad, ExtendAllSelect, ExtendAllFlag, PassBackLoad, DeleteLoad,
           DeleteCheck, CloseLoad, CloseCommit
<1> QED
  BY <1>1, <1>2, <1>3, <1>4 DEF Next

\* No form of write moves a submitted row: rebindIfMoved repeats its status guard
\* in the UPDATE's WHERE clause, the others do not name the sitting.
LEMMA RecordStays ==
  ASSUME Inv, [Next]_vars, attempt.status = "submitted", attempt'.status # "absent"
  PROVE  attempt'.sitting = attempt.sitting
<1>1. ASSUME NEW r \in Requests, Change(r) PROVE attempt'.sitting = attempt.sitting
  BY <1>1 DEF Change, HandedIn, Extended, PassedBack, Inv, Good, Row
<1> QED
  BY <1>1, Changes

\* A submitted attempt stays bound to the sitting it was submitted in, even when
\* a join that loaded it in progress races the hand-in (rebindIfMoved).
THEOREM StaysInItsSitting == Spec => SubmittedStaysInItsSitting
<1>1. Inv /\ [Next]_vars =>
        [attempt.status = "submitted" /\ attempt'.status # "absent"
           => attempt'.sitting = attempt.sitting]_attempt
  BY RecordStays
<1> QED
  BY <1>1, AttemptInvariant, PTL DEF Spec, SubmittedStaysInItsSitting

\* Two rows with the same start, override and removal have the same deadline.
LEMMA SameDeadline ==
  ASSUME NEW a \in Row, NEW b \in Row,
         b.removed = a.removed, b.override = a.override, b.started = a.started
  PROVE  NoLater(DeadlineFor(a), DeadlineFor(b))
<1>1. DeadlineFor(a) \in Instant
  BY TimesAssumption DEF DeadlineFor, Row, Instant, Null
<1>2. DeadlineFor(b) = DeadlineFor(a)
  BY DEF DeadlineFor
<1> QED
  BY <1>1, <1>2 DEF NoLater, Instant, Null

\* No step of a student's request shortens the attempt's time: a join re-reads,
\* re-binds or lifts the limit, and a submit leaves all three columns alone.
LEMMA StudentTime ==
  ASSUME Inv, NEW r \in Requests, StudentStep(r), attempt.status # "absent"
  PROVE  attempt'.id = attempt.id /\ NoLater(DeadlineFor(attempt), DeadlineFor(attempt'))
<1> DEFINE Kept == attempt'.id = attempt.id
                   /\ NoLater(DeadlineFor(attempt), DeadlineFor(attempt'))
<1>0. attempt \in Row /\ attempt' \in Row
  BY StudentInv DEF Inv, Good
<1>1. CASE attempt' = attempt
  BY <1>0, <1>1, SameDeadline
<1>2. ASSUME JoinInsert(r) PROVE Kept
  BY <1>1, <1>2 DEF JoinInsert, UniqueConflict
<1>3. ASSUME JoinRebind(r) PROVE Kept
  <2>1. /\ attempt'.id = attempt.id /\ attempt'.removed = attempt.removed
        /\ attempt'.override = attempt.override /\ attempt'.started = attempt.started
    BY <1>0, <1>3 DEF JoinRebind, Row
  <2> QED
    BY <1>0, <2>1, SameDeadline
<1>4. ASSUME JoinApply(r) PROVE Kept
  <2>1. attempt' = attempt \/ (attempt'.id = attempt.id /\ attempt'.removed = TRUE)
    BY <1>0, <1>4 DEF JoinApply, InheritNoLimit, Extended, Row
  <2> QED
    BY <1>1, <2>1 DEF NoLater, DeadlineFor
<1>5. ASSUME SubmitCommit(r) PROVE Kept
  <2>1. /\ attempt'.id = attempt.id /\ attempt'.removed = attempt.removed
        /\ attempt'.override = attempt.override /\ attempt'.started = attempt.started
    BY <1>0, <1>5 DEF SubmitCommit, HandedIn, Row
  <2> QED
    BY <1>0, <2>1, SameDeadline
<1> QED
  BY <1>1, <1>2, <1>3, <1>4, <1>5
     DEF StudentStep, JoinLoad, JoinRow, JoinReread, WriteLoad, WriteCheck, WriteCommit,
         SubmitLoad, SubmitCheck

\* A step of one slot leaves the others alone.
LEMMA OneSlot ==
  ASSUME Inv, NEW r \in Requests, StudentStep(r) \/ StaffStep(r), NEW p \in Requests, p # r
  PROVE  req'[p] = req[p]
  BY DEF Inv, StudentStep, StaffStep, JoinLoad, JoinRow, JoinInsert, JoinReread, JoinRebind,
         JoinApply, WriteLoad, WriteCheck, WriteCommit, SubmitLoad, SubmitCheck, SubmitCommit,
         HandInLoad, HandInCheck, HandInAllLoad, HandInAllSelect, HandInCommit, ExtendLoad,
         ExtendAllLoad, ExtendAllSelect, ExtendCommit, ExtendAllFlag, PassBackLoad,
         PassBackCommit, DeleteLoad, DeleteCheck, DeleteCommit, CloseLoad, CloseCommit,
         Done, Goto, Decided

\* A teacher's step is never one of a slot that holds a student's request.
LEMMA StaffSlot ==
  ASSUME Inv, NEW r \in Requests, StaffStep(r)
  PROVE  req[r].kind \notin StudentKinds
<1>1. req[r].pc = "idle" => req[r].kind = "none"
  BY DEF Inv, Slot, Idle
<1> QED
  BY <1>1 DEF StaffStep, MayLaunch, At, StudentKinds,
         HandInLoad, HandInCheck, HandInAllLoad, HandInAllSelect, HandInCommit, ExtendLoad,
         ExtendAllLoad, ExtendAllSelect, ExtendCommit, ExtendAllFlag, PassBackLoad,
         PassBackCommit, DeleteLoad, DeleteCheck, DeleteCommit, CloseLoad, CloseCommit

\* A student who relaunches, rejoins or follows a sitting never has less time than
\* before (attemptDeadline: the attempt keeps the deadline it began with).
THEOREM KeepsTheirTime == Spec => StudentKeepsTheirTime
<1> DEFINE Moves == \E r \in Requests : req[r].kind \in StudentKinds /\ req'[r] # req[r]
           Kept == attempt'.id = attempt.id
                   /\ NoLater(DeadlineFor(attempt), DeadlineFor(attempt'))
<1>1. ASSUME Inv, [Next]_vars, Moves, attempt.status # "absent"
      PROVE  Kept
  <2>1. PICK p \in Requests : req[p].kind \in StudentKinds /\ req'[p] # req[p]
    BY <1>1
  <2>2. PICK r \in Requests : StudentStep(r) \/ StaffStep(r)
    BY <1>1, <2>1 DEF Next, Tick, vars
  <2>3. p = r
    BY <1>1, <2>1, <2>2, OneSlot
  <2>4. StudentStep(r)
    BY <1>1, <2>1, <2>2, <2>3, StaffSlot
  <2> QED
    BY <1>1, <2>4, StudentTime
<1>2. Inv /\ [Next]_vars => [Moves /\ attempt.status # "absent" => Kept]_vars
  BY <1>1
<1> QED
  BY <1>2, AttemptInvariant, PTL DEF Spec, StudentKeepsTheirTime

-----------------------------------------------------------------------------
(* The refinement: each step of a handler is a step of AttemptContract or    *)
(* leaves what the contract speaks of unchanged                              *)

\* What the contract calls `accepted`, and the entry of one slot's value.
EntryOf(q) == IF q.kind = "write" THEN <<q.row.id, q.body>> ELSE <<>>
Acc == [r \in Requests |-> IF req[r].kind = "write" THEN <<req[r].row.id, req[r].body>> ELSE <<>>]

\* A step of one slot changes that slot's entry of `accepted` and no other.
LEMMA SlotEntry ==
  ASSUME Inv, NEW r \in Requests, NEW q, req' = [req EXCEPT ![r] = q]
  PROVE  Acc' = [Acc EXCEPT ![r] = EntryOf(q)] /\ Acc[r] = EntryOf(req[r])
  BY DEF Acc, EntryOf, Inv

\* A slot that holds no write before and after, or the same write.
LEMMA SameEntry ==
  ASSUME Inv, NEW r \in Requests, NEW q, req' = [req EXCEPT ![r] = q],
         EntryOf(q) = EntryOf(req[r])
  PROVE  Acc' = Acc
<1>1. Acc' = [Acc EXCEPT ![r] = Acc[r]]
  BY SlotEntry
<1> QED
  BY <1>1 DEF Acc

\* A slot that held no write, or was free, and holds none after it: nothing
\* accepted changes.
LEMMA NoWrite ==
  ASSUME Inv, NEW r \in Requests, req[r].kind # "write" \/ req[r].pc = "idle",
         NEW q, q.kind # "write", req' = [req EXCEPT ![r] = q]
  PROVE  Acc' = Acc
<1>1. req[r].kind # "write"
  BY DEF Inv, Slot, Idle
<1> QED
  BY <1>1, SameEntry DEF EntryOf

\* The same for the three ways a handler leaves its slot.
LEMMA NotWrite ==
  ASSUME Inv, NEW r \in Requests, req[r].kind # "write"
  PROVE  /\ Done(r) => Acc' = Acc
         /\ \A pc : Goto(r, pc) => Acc' = Acc
         /\ \A row : Decided(r, row) => Acc' = Acc
         /\ \A row, pc : req' = [req EXCEPT ![r].row = row, ![r].pc = pc] => Acc' = Acc
<1>0. req[r] \in Request
  BY DEF Inv
<1>1. Done(r) => Acc' = Acc
  BY NoWrite DEF Done, Idle
<1>2. ASSUME NEW pc, Goto(r, pc) PROVE Acc' = Acc
  <2>1. [req[r] EXCEPT !.pc = pc].kind # "write"
    BY <1>0 DEF Request
  <2> QED
    BY <1>2, <2>1, NoWrite DEF Goto
<1>3. ASSUME NEW row, NEW pc, req' = [req EXCEPT ![r].row = row, ![r].pc = pc]
      PROVE  Acc' = Acc
  <2>1. [req[r] EXCEPT !.row = row, !.pc = pc].kind # "write"
    BY <1>0 DEF Request
  <2>2. req' = [req EXCEPT ![r] = [req[r] EXCEPT !.row = row, !.pc = pc]]
    BY <1>3
  <2> QED
    BY <2>1, <2>2, NoWrite
<1>4. ASSUME NEW row, Decided(r, row) PROVE Acc' = Acc
  BY <1>3, <1>4 DEF Decided
<1> QED
  BY <1>1, <1>2, <1>3, <1>4

-----------------------------------------------------------------------------
(* The steps that change nothing the contract speaks of *)

Same == /\ attempt'.id = attempt.id /\ attempt'.status = attempt.status
        /\ attempt'.sitting = attempt.sitting
        /\ answer' = answer /\ Acc' = Acc
Step == [Contract!Next]_(Contract!vars)

\* A step that changes nothing the contract speaks of is a stutter of it.
LEMMA SameIsStep == ASSUME Same PROVE Step
  BY DEF Same, Step, Acc, Contract!vars

\* The contract says nothing of deadlines: an extension is a stutter.
LEMMA ExtendedSame ==
  ASSUME Inv, NEW row, NEW endsAt, attempt' = Extended(row, endsAt), answer' = answer,
         Acc' = Acc
  PROVE  Same
  BY DEF Same, Inv, Good, Extended, Row

\* An update by id is the contract's HandIn when it finds the attempt in progress,
\* and a stutter when the attempt is gone or was handed in already.
LEMMA HandedInIsStep ==
  ASSUME Inv, NEW row, NEW byStaff, attempt' = HandedIn(row, byStaff), answer' = answer,
         Acc' = Acc
  PROVE  Step
<1>1. CASE ~StillThere(row)
  BY <1>1, SameIsStep DEF HandedIn, Same
<1>2. CASE StillThere(row)
  <2>1. /\ attempt'.id = attempt.id /\ attempt'.status = "submitted"
        /\ attempt'.sitting = attempt.sitting
    BY <1>2 DEF HandedIn, Inv, Good, Row
  <2>2. CASE attempt.status = "submitted"
    BY <2>1, <2>2, SameIsStep DEF Same
  <2>3. CASE attempt.status = "in_progress"
    <3>1. Contract!HandIn
      BY <2>1, <2>3 DEF Contract!HandIn, Acc
    <3> QED
      BY <3>1 DEF Step, Contract!Next
  <2> QED
    BY <1>2, <2>2, <2>3 DEF StillThere, Inv, Good, Row
<1> QED
  BY <1>1, <1>2

\* POST attempts: the insert is Start, the re-bind is Move, the rest stutters.
LEMMA JoinSteps ==
  ASSUME Inv, NEW r \in Requests,
         \/ \E s \in Sittings : JoinLoad(r, s)
         \/ JoinRow(r) \/ JoinInsert(r) \/ JoinReread(r) \/ JoinRebind(r) \/ JoinApply(r)
  PROVE  Step
<1>0. req[r] \in Request /\ attempt \in Row
  BY DEF Inv, Good
<1>1. ASSUME NEW s \in Sittings, JoinLoad(r, s) PROVE Step
  <2>1. Acc' = Acc
    BY <1>1, NoWrite DEF JoinLoad, MayLaunch, Launch, Idle
  <2> QED
    BY <1>1, <2>1, SameIsStep DEF JoinLoad, Same
<1>2. ASSUME JoinRow(r) PROVE Step
  <2>1. Acc' = Acc
    BY <1>2, NotWrite DEF JoinRow, At
  <2> QED
    BY <1>2, <2>1, SameIsStep DEF JoinRow, Same
<1>3. ASSUME JoinInsert(r) PROVE Step
  <2>1. Acc' = Acc
    BY <1>3, NotWrite DEF JoinInsert, At
  <2>2. CASE UniqueConflict
    BY <1>3, <2>1, <2>2, SameIsStep DEF JoinInsert, Same
  <2>3. CASE ~UniqueConflict
    <3>1. /\ attempt'.id = attempt.id + 1 /\ attempt'.status = "in_progress"
          /\ attempt'.sitting = req[r].sit
      BY <1>3, <2>3 DEF JoinInsert, NoRow
    <3>2. Contract!Start
      BY <1>0, <1>3, <2>1, <2>3, <3>1
         DEF Contract!Start, Acc, JoinInsert, UniqueConflict, Request
    <3> QED
      BY <3>2 DEF Step, Contract!Next
  <2> QED
    BY <2>2, <2>3
<1>4. ASSUME JoinReread(r) PROVE Step
  <2>1. Acc' = Acc
    BY <1>4, NotWrite DEF JoinReread, At
  <2> QED
    BY <1>4, <2>1, SameIsStep DEF JoinReread, Same
<1>5. ASSUME JoinRebind(r) PROVE Step
  <2>1. Acc' = Acc
    BY <1>5, NotWrite DEF JoinRebind, At
  <2>2. CASE attempt' = attempt
    BY <1>5, <2>1, <2>2, SameIsStep DEF JoinRebind, Same
  <2>3. CASE attempt' # attempt
    <3>1. attempt.status = "in_progress" /\ attempt' = [attempt EXCEPT !.sitting = req[r].sit]
      BY <1>5, <2>3 DEF JoinRebind, RebindTarget
    <3>2. /\ attempt'.id = attempt.id /\ attempt'.status = attempt.status
          /\ attempt'.sitting = req[r].sit
      BY <1>0, <3>1 DEF Row
    <3>3. Contract!Move
      BY <1>0, <1>5, <2>1, <3>1, <3>2 DEF Contract!Move, Acc, JoinRebind, Request
    <3> QED
      BY <3>3 DEF Step, Contract!Next
  <2> QED
    BY <2>2, <2>3
<1>6. ASSUME JoinApply(r) PROVE Step
  <2>1. Acc' = Acc
    BY <1>6, NotWrite DEF JoinApply, At
  <2>2. CASE attempt' = attempt
    BY <1>6, <2>1, <2>2, SameIsStep DEF JoinApply, Same
  <2>3. CASE attempt' = Extended(req[r].row, Null)
    BY <1>6, <2>1, <2>3, ExtendedSame, SameIsStep DEF JoinApply
  <2> QED
    BY <1>6, <2>2, <2>3 DEF JoinApply, InheritNoLimit
<1> QED
  BY <1>1, <1>2, <1>3, <1>4, <1>5, <1>6

-----------------------------------------------------------------------------
(* A write is accepted, and lands or is dropped *)

\* A slot that finishes holds no accepted write any more.
LEMMA Freed ==
  ASSUME Inv, NEW r \in Requests, Done(r)
  PROVE  Acc' = [Acc EXCEPT ![r] = <<>>] /\ Acc[r] = EntryOf(req[r])
<1>1. Idle.kind = "none"
  BY DEF Idle
<1>2. EntryOf(Idle) = <<>>
  BY <1>1 DEF EntryOf
<1> QED
  BY <1>2, SlotEntry DEF Done

\* PUT and DELETE of an answer: the load that finds the attempt in progress is
\* Accept, a refusal at the checks is Drop, and the upsert is Land, or Drop when
\* the attempt it was for is gone.
LEMMA WriteSteps ==
  ASSUME Inv, NEW r \in Requests,
         \/ \E v \in Answers \cup {NoAnswer} : WriteLoad(r, v)
         \/ WriteCheck(r) \/ WriteCommit(r)
  PROVE  Step
<1>0. req[r] \in Request /\ attempt \in Row
  BY DEF Inv, Good
<1>d. ASSUME req[r].kind = "write", Done(r), attempt' = attempt, answer' = answer
      PROVE  Step
  <2>0. Acc' = [Acc EXCEPT ![r] = <<>>] /\ Acc[r] = <<req[r].row.id, req[r].body>>
    BY <1>d, Freed DEF EntryOf
  <2>1. Acc' = [Acc EXCEPT ![r] = <<>>] /\ Acc[r] # <<>>
    BY <2>0
  <2>2. Contract!Drop(r)
    BY <1>d, <2>1 DEF Contract!Drop, Contract!Nothing, Acc
  <2> QED
    BY <2>2 DEF Step, Contract!Next
<1>1. ASSUME NEW v \in Answers \cup {NoAnswer}, WriteLoad(r, v) PROVE Step
  <2> DEFINE q == [Launch("write", "loaded") EXCEPT !.row = Seen(attempt), !.body = v]
  <2>1. EntryOf(q) = <<attempt.id, v>>
    BY <1>0 DEF EntryOf, Launch, Idle, Seen, Row
  <2>2. req' = [req EXCEPT ![r] = q]
    BY <1>1 DEF WriteLoad
  <2>3. req[r].kind # "write"
    <3>1. req[r].pc = "idle" /\ Slot(req[r])
      BY <1>1 DEF WriteLoad, MayLaunch, Inv
    <3> QED
      BY <3>1 DEF Slot, Idle
  <2>4. Acc' = [Acc EXCEPT ![r] = <<attempt.id, v>>] /\ Acc[r] = <<>>
    BY <2>1, <2>2, <2>3, SlotEntry DEF EntryOf
  <2>5. Contract!Accept(r, v)
    BY <1>1, <2>4 DEF Contract!Accept, Contract!Nothing, Acc, WriteLoad, AcceptsWrites
  <2> QED
    BY <2>5 DEF Step, Contract!Next
<1>2. ASSUME WriteCheck(r) PROVE Step
  <2>1. CASE Done(r)
    BY <1>2, <1>d, <2>1 DEF WriteCheck, At
  <2>2. CASE Decided(r, req[r].row)
    <3> DEFINE q == [req[r] EXCEPT !.row = ById(req[r].row), !.pc = "checked"]
    <3>1. EntryOf(q) = EntryOf(req[r])
      BY <1>0 DEF EntryOf, ById, NoRow, Request, Row
    <3>2. req' = [req EXCEPT ![r] = q]
      BY <2>2 DEF Decided
    <3>3. Acc' = Acc
      BY <3>1, <3>2, SameEntry
    <3> QED
      BY <1>2, <3>3, SameIsStep DEF WriteCheck, Same
  <2> QED
    BY <1>2, <2>1, <2>2 DEF WriteCheck
<1>3. ASSUME WriteCommit(r) PROVE Step
  <2>1. CASE ~StillThere(req[r].row)
    BY <1>3, <1>d, <2>1 DEF WriteCommit, At
  <2>2. CASE StillThere(req[r].row)
    <3>0. /\ req[r].kind = "write" /\ Done(r)
          /\ req[r].row.id = attempt.id
      BY <1>3, <2>2 DEF WriteCommit, At, StillThere
    <3>1. Acc' = [Acc EXCEPT ![r] = <<>>] /\ Acc[r] = <<attempt.id, req[r].body>>
      BY <3>0, Freed DEF EntryOf
    <3>2. Acc[r] # <<>> /\ Acc[r][1] = attempt.id /\ Acc[r][2] = req[r].body
      BY <3>1
    <3>3. Contract!Land(r)
      BY <1>3, <2>2, <3>1, <3>2
         DEF Contract!Land, Contract!Nothing, Acc, WriteCommit, StillThere
    <3> QED
      BY <3>3 DEF Step, Contract!Next
  <2> QED
    BY <2>1, <2>2
<1> QED
  BY <1>1, <1>2, <1>3

-----------------------------------------------------------------------------
(* The other handlers *)

\* POST submit: the update is HandIn, even when another hand-in came first.
LEMMA SubmitSteps ==
  ASSUME Inv, NEW r \in Requests, SubmitLoad(r) \/ SubmitCheck(r) \/ SubmitCommit(r)
  PROVE  Step
<1>1. CASE SubmitLoad(r)
  <2>1. Acc' = Acc
    BY <1>1, NoWrite DEF SubmitLoad, MayLaunch, Launch, Idle
  <2> QED
    BY <1>1, <2>1, SameIsStep DEF SubmitLoad, Same
<1>2. CASE SubmitCheck(r)
  <2>1. Acc' = Acc
    BY <1>2, NotWrite DEF SubmitCheck, At
  <2> QED
    BY <1>2, <2>1, SameIsStep DEF SubmitCheck, Same
<1>3. CASE SubmitCommit(r)
  <2>1. Acc' = Acc
    BY <1>3, NotWrite DEF SubmitCommit, At
  <2> QED
    BY <1>3, <2>1, HandedInIsStep DEF SubmitCommit
<1> QED
  BY <1>1, <1>2, <1>3

\* A teacher's step never touches the entry of a write.
LEMMA StaffEntry ==
  ASSUME Inv, NEW r \in Requests, StaffStep(r)
  PROVE  Acc' = Acc
<1>1. req[r].kind # "write"
  BY StaffSlot DEF StudentKinds
<1>2. \A p \in Requests \ {r} : req'[p] = req[p]
  BY OneSlot
<1>3. req'[r].kind # "write"
  <2>1. req[r] \in Request /\ req \in [Requests -> Request]
    BY DEF Inv
  <2>2. Done(r) => req'[r].kind # "write"
    BY <2>1 DEF Done, Idle
  <2>3. \A pc : Goto(r, pc) => req'[r].kind # "write"
    BY <1>1, <2>1 DEF Goto, Request
  <2>4. \A row : Decided(r, row) => req'[r].kind # "write"
    BY <1>1, <2>1 DEF Decided, Request
  <2>5. HandInLoad(r) \/ DeleteLoad(r) => req'[r].kind # "write"
    BY <2>1 DEF HandInLoad, DeleteLoad, Launch, Idle
  <2>6. \A s : HandInAllLoad(r, s) \/ CloseLoad(r, s) => req'[r].kind # "write"
    BY <2>1 DEF HandInAllLoad, CloseLoad, Launch, Idle
  <2>7. \A t : ExtendLoad(r, t) \/ PassBackLoad(r, t) => req'[r].kind # "write"
    BY <2>1 DEF ExtendLoad, PassBackLoad, Launch, Idle
  <2>8. \A s, t : ExtendAllLoad(r, s, t) => req'[r].kind # "write"
    BY <2>1 DEF ExtendAllLoad, Launch, Idle
  <2> QED
    BY <2>2, <2>3, <2>4, <2>5, <2>6, <2>7, <2>8
       DEF StaffStep, HandInCheck, HandInAllSelect, HandInCommit, ExtendAllSelect,
           ExtendCommit, ExtendAllFlag, PassBackCommit, DeleteCheck, DeleteCommit, CloseCommit
<1> QED
  BY <1>1, <1>2, <1>3 DEF Acc

\* The staff routes: hand-ins are HandIn, a pass back is Reopen, a delete is
\* Delete, and extensions and closes stutter.
LEMMA StaffSteps ==
  ASSUME Inv, NEW r \in Requests, StaffStep(r)
  PROVE  Step
<1>0. attempt \in Row /\ Acc' = Acc
  BY StaffEntry DEF Inv, Good
<1>1. CASE HandInCommit(r)
  BY <1>0, <1>1, HandedInIsStep DEF HandInCommit
<1>2. CASE ExtendCommit(r)
  BY <1>0, <1>2, ExtendedSame, SameIsStep DEF ExtendCommit
<1>3. CASE PassBackCommit(r)
  <2>1. CASE ~StillThere(req[r].row)
    BY <1>0, <1>3, <2>1, SameIsStep DEF PassBackCommit, Same
  <2>2. CASE StillThere(req[r].row)
    <3>1. /\ attempt'.id = attempt.id /\ attempt'.status = "in_progress"
          /\ attempt'.sitting = attempt.sitting
      BY <1>0, <1>3, <2>2 DEF PassBackCommit, PassedBack, Row
    <3>2. CASE attempt.status = "in_progress"
      BY <1>0, <1>3, <3>1, <3>2, SameIsStep DEF PassBackCommit, Same
    <3>3. CASE attempt.status = "submitted"
      <4>1. Contract!Reopen
        BY <1>0, <1>3, <3>1, <3>3 DEF Contract!Reopen, PassBackCommit, Acc
      <4> QED
        BY <4>1 DEF Step, Contract!Next
    <3> QED
      BY <1>0, <2>2, <3>2, <3>3 DEF StillThere, Row
  <2> QED
    BY <2>1, <2>2
<1>4. CASE DeleteCommit(r)
  <2>1. CASE ~StillThere(req[r].row)
    BY <1>0, <1>4, <2>1, SameIsStep DEF DeleteCommit, Same
  <2>2. CASE StillThere(req[r].row)
    <3>1. /\ attempt'.id = attempt.id /\ attempt'.status = "absent"
          /\ attempt'.sitting = AnySitting /\ answer' = NoAnswer
      BY <1>4, <2>2 DEF DeleteCommit, NoRow
    <3>2. Contract!Delete
      BY <1>0, <2>2, <3>1, AnySittingType DEF Contract!Delete, StillThere, Acc
    <3> QED
      BY <3>2 DEF Step, Contract!Next
  <2> QED
    BY <2>1, <2>2
<1>5. CASE UNCHANGED <<attempt, answer>>
  BY <1>0, <1>5, SameIsStep DEF Same
<1> QED
  BY <1>1, <1>2, <1>3, <1>4, <1>5
     DEF StaffStep, HandInLoad, HandInCheck, HandInAllLoad, HandInAllSelect, ExtendLoad,
         ExtendAllLoad, ExtendAllSelect, ExtendAllFlag, PassBackLoad, DeleteLoad,
         DeleteCheck, CloseLoad, CloseCommit

-----------------------------------------------------------------------------
\* The read-then-update handlers keep the contract, whatever their interleaving:
\* one life per attempt row, no second attempt beside a live one, and no answer
\* stored that was not accepted while that same attempt was in progress.
THEOREM Implements == Spec => ImplementsContract
<1>1. Init => Contract!Init
  BY AnySittingType DEF Init, Contract!Init, Contract!Nothing, NoRow, Idle
<1>2. ASSUME Inv, [Next]_vars PROVE [Contract!Next]_(Contract!vars)
  <2>1. CASE Tick \/ UNCHANGED vars
    BY <2>1, SameIsStep DEF Tick, vars, Same, Step, Acc
  <2>2. ASSUME NEW r \in Requests, StudentStep(r) PROVE Step
    BY <1>2, <2>2, JoinSteps, WriteSteps, SubmitSteps DEF StudentStep
  <2>3. ASSUME NEW r \in Requests, StaffStep(r) PROVE Step
    BY <1>2, <2>3, StaffSteps
  <2> QED
    BY <1>2, <2>1, <2>2, <2>3 DEF Next, Step
<1> QED
  BY <1>1, <1>2, AttemptInvariant, PTL DEF Spec, ImplementsContract, Contract!Spec

=============================================================================
