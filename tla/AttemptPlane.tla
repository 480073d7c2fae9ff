----------------------------- MODULE AttemptPlane -----------------------------
(***************************************************************************)
(* The attempt plane of the design-tool server: one student's attempt at    *)
(* one assessment, the sittings (test_sessions) it can be joined through,   *)
(* one item's stored answer, and the request handlers that read and write   *)
(* them.                                                                    *)
(*                                                                          *)
(* No handler holds a lock or a transaction across its reads and its write: *)
(* it loads the attempt row, decides on what it loaded, and updates by id   *)
(* later.  Each in-flight request therefore keeps the row it READ, and each *)
(* await point at which another request can change the database separates   *)
(* two actions: Load (the first read and the early returns it decides),     *)
(* Check (the reads of the sitting and of the time limit) and Commit.       *)
(*                                                                          *)
(* Time is a counter of ticks; every instant the code stores is a tick.     *)
(***************************************************************************)
EXTENDS Integers

CONSTANTS
  Sittings,       \* test_sessions of the assessment
  Expiry,         \* expires_at of each sitting
  Requests,       \* bound: slots for requests in flight, the student's or a teacher's
  Routes,         \* bound: the routes each slot exercises
  Answers,        \* answers to the item
  NoAnswer,       \* no responses row
  TimeLimit,      \* assessments.time_limit_seconds, 0 for none
  DeadlineGrace,  \* DEADLINE_GRACE_SECONDS
  CloseGrace,     \* SITTING_CLOSE_GRACE_SECONDS
  Managed,        \* bound: the sittings teachers close, sweep and extend
  Deadlines,      \* bound: the instants a teacher may name as a new deadline
  MaxNow,         \* bound: the last tick
  MaxId,          \* bound: attempts created for the student
  MaxPassBacks    \* bound: pass backs of an attempt

ASSUME TimesAssumption ==
  /\ TimeLimit \in Nat /\ DeadlineGrace \in Nat /\ CloseGrace \in Nat
  /\ Deadlines \subseteq Nat /\ MaxNow \in Nat /\ MaxId \in Nat /\ MaxPassBacks \in Nat
  /\ Expiry \in [Sittings -> Nat]
ASSUME NoAnswerAssumption == NoAnswer \notin Answers
ASSUME SittingsAssumption == Sittings # {} /\ Managed \subseteq Sittings

VARIABLES
  now,       \* the clock
  sitting,   \* the test_sessions rows
  attempt,   \* the attempts row; status "absent" when there is none
  answer,    \* the responses row of the item
  req        \* the requests in flight

vars == <<now, sitting, attempt, answer, req>>

Null == -1                 \* SQL null, for an instant
Instant == Nat \cup {Null}
AnySitting == CHOOSE s \in Sittings : TRUE

Row == [id : Nat, status : {"absent", "in_progress", "submitted"},
        sitting : Sittings, started : Nat, override : Instant,
        removed : BOOLEAN, submittedAt : Instant, byStaff : BOOLEAN,
        passBacks : Nat]

NoRow == [id |-> 0, status |-> "absent", sitting |-> AnySitting, started |-> 0,
          override |-> Null, removed |-> FALSE, submittedAt |-> Null,
          byStaff |-> FALSE, passBacks |-> 0]

StudentKinds == {"join", "write", "submit"}
StaffKinds == {"handIn", "handInAll", "extend", "extendAll", "passBack", "delete", "close"}
Kinds == {"none"} \cup StudentKinds \cup StaffKinds
Steps == {"idle", "sitting", "insert", "reread", "rebind", "apply", "select", "loaded",
          "checked", "flag"}

\* What a handler holds between two awaits: the row it read, the sitting named
\* by the request and its flag, the answer sent, the deadline asked for, and
\* the instant it captured.
Request == [kind : Kinds, pc : Steps, row : Row, sit : Sittings, flag : BOOLEAN,
            body : Answers \cup {NoAnswer}, endsAt : Instant, at : Nat]

Idle == [kind |-> "none", pc |-> "idle", row |-> NoRow, sit |-> AnySitting,
         flag |-> FALSE, body |-> NoAnswer, endsAt |-> Null, at |-> 0]

-----------------------------------------------------------------------------
(* Rules shared by the handlers *)

\* deadlineFor: a removed limit beats the override, which beats the
\* assessment's own limit.
DeadlineFor(a) ==
  IF a.removed THEN Null
  ELSE IF a.override # Null THEN a.override
  ELSE IF TimeLimit = 0 THEN Null ELSE a.started + TimeLimit

IsPastDeadline(t, a) == DeadlineFor(a) # Null /\ t > DeadlineFor(a) + DeadlineGrace

AttemptIsTimed(a) == ~a.removed /\ (TimeLimit > 0 \/ a.override # Null)

\* sittingIsOver as of `grace` after the fact, read from the sitting row.
SittingIsOver(s, t, grace) ==
  IF sitting[s].status = "closed"
  THEN grace = 0 \/ t >= sitting[s].updated + grace
  ELSE Expiry[s] + grace <= t

\* UPDATE/DELETE ... WHERE id = row.id finds a row.
StillThere(row) == attempt.status # "absent" /\ attempt.id = row.id

Launch(kind, pc) == [Idle EXCEPT !.kind = kind, !.pc = pc]
At(r, kind, pc) == req[r].kind = kind /\ req[r].pc = pc
Done(r) == req' = [req EXCEPT ![r] = Idle]
Goto(r, pc) == req' = [req EXCEPT ![r].pc = pc]

\* What a handler goes on to use of the row it reads.
Seen(row) == [row EXCEPT !.submittedAt = Null, !.byStaff = FALSE, !.passBacks = 0]

\* Once decided, a handler uses nothing of the row it read but its id.
ById(row) == [NoRow EXCEPT !.id = row.id]
Decided(r, row) == req' = [req EXCEPT ![r].row = ById(row), ![r].pc = "checked"]

MayLaunch(r, kind) ==
  /\ req[r].pc = "idle"
  /\ kind \in Routes[r]

\* handInAttempt and the student's submit both update by id alone.
HandedIn(row, byStaff) ==
  IF StillThere(row)
  THEN [attempt EXCEPT !.status = "submitted", !.submittedAt = now,
                       !.byStaff = @ \/ byStaff]
  ELSE attempt

\* extendAttempt: an instant clears the removal, a removal clears the override.
Extended(row, endsAt) ==
  IF StillThere(row)
  THEN [attempt EXCEPT !.override = endsAt, !.removed = (endsAt = Null)]
  ELSE attempt

-----------------------------------------------------------------------------
(* POST /api/attempts: create or resume, then follow the student *)

\* loadJoinableSitting: open and not expired.
JoinLoad(r, s) ==
  /\ MayLaunch(r, "join")
  /\ ~SittingIsOver(s, now, 0)
  /\ req' = [req EXCEPT ![r] = [Launch("join", "sitting") EXCEPT
                                   !.sit = s, !.flag = sitting[s].noLimit]]
  /\ UNCHANGED <<now, sitting, attempt, answer>>

JoinRow(r) ==
  /\ At(r, "join", "sitting")
  /\ req' = [req EXCEPT ![r].row = Seen(attempt),
                        ![r].pc = IF attempt.status = "absent" THEN "insert" ELSE "rebind"]
  /\ UNCHANGED <<now, sitting, attempt, answer>>

\* The unique (assessment, student) constraint refuses a second row.
UniqueConflict == attempt.status # "absent"

JoinInsert(r) ==
  /\ At(r, "join", "insert")
  /\ IF UniqueConflict
     THEN Goto(r, "reread") /\ UNCHANGED attempt
     ELSE /\ attempt' = [NoRow EXCEPT !.id = attempt.id + 1, !.status = "in_progress",
                                      !.sitting = req[r].sit, !.started = now]
          /\ req' = [req EXCEPT ![r].row = Seen(attempt'), ![r].pc = "apply"]
  /\ UNCHANGED <<now, sitting, answer>>

\* The loser of two concurrent inserts reads what the winner wrote.
JoinReread(r) ==
  /\ At(r, "join", "reread")
  /\ IF attempt.status = "absent" THEN Done(r)
     ELSE req' = [req EXCEPT ![r].row = Seen(attempt), ![r].pc = "rebind"]
  /\ UNCHANGED <<now, sitting, attempt, answer>>

MutantRebindTarget(row) == StillThere(row)

\* The status guard is repeated in the UPDATE's WHERE clause.
RebindTarget(row) == StillThere(row) /\ attempt.status = "in_progress"

JoinRebind(r) ==
  LET row == req[r].row
      moves == row.status = "in_progress" /\ row.sitting # req[r].sit /\ RebindTarget(row)
  IN /\ At(r, "join", "rebind")
     /\ attempt' = IF moves THEN [attempt EXCEPT !.sitting = req[r].sit] ELSE attempt
     /\ req' = [req EXCEPT ![r].row = IF moves THEN Seen(attempt') ELSE row, ![r].pc = "apply"]
     /\ UNCHANGED <<now, sitting, answer>>

MutantInheritNoLimit(r) == [attempt EXCEPT !.removed = req[r].flag]

\* applySittingNoLimit, decided on the row the request holds.
InheritNoLimit(r) ==
  IF req[r].flag /\ req[r].row.status = "in_progress" /\ ~req[r].row.removed
  THEN Extended(req[r].row, Null)
  ELSE attempt

JoinApply(r) ==
  /\ At(r, "join", "apply")
  /\ attempt' = InheritNoLimit(r)
  /\ Done(r)
  /\ UNCHANGED <<now, sitting, answer>>

-----------------------------------------------------------------------------
(* PUT and DELETE /api/attempts/[attemptId]/responses/[itemId] *)

MutantAcceptsWrites(a) == a.status # "absent"

\* attemptAcceptsWrites
AcceptsWrites(a) == a.status = "in_progress"

WriteLoad(r, v) ==
  /\ MayLaunch(r, "write")
  /\ AcceptsWrites(attempt)
  /\ req' = [req EXCEPT ![r] = [Launch("write", "loaded") EXCEPT
                                   !.row = Seen(attempt), !.body = v]]
  /\ UNCHANGED <<now, sitting, attempt, answer>>

\* refuseIfSittingOver with the close grace, then refuseIfPastDeadline.
WriteCheck(r) ==
  LET row == req[r].row
      refused == SittingIsOver(row.sitting, now, CloseGrace) \/ IsPastDeadline(now, row)
  IN /\ At(r, "write", "loaded")
     /\ IF refused THEN Done(r) ELSE Decided(r, row)
     /\ UNCHANGED <<now, sitting, attempt, answer>>

\* The upsert (or the delete): a foreign key, not the status, is what it can
\* still fail on.
WriteCommit(r) ==
  /\ At(r, "write", "checked")
  /\ answer' = IF StillThere(req[r].row) THEN req[r].body ELSE answer
  /\ Done(r)
  /\ UNCHANGED <<now, sitting, attempt>>

-----------------------------------------------------------------------------
(* POST /api/attempts/[attemptId]/submit *)

\* A submitted attempt is answered as it stands: nothing is launched.
SubmitLoad(r) ==
  /\ MayLaunch(r, "submit")
  /\ attempt.status = "in_progress"
  /\ req' = [req EXCEPT ![r] = [Launch("submit", "loaded") EXCEPT !.row = Seen(attempt)]]
  /\ UNCHANGED <<now, sitting, attempt, answer>>

SubmitCheck(r) ==
  LET row == req[r].row
      refused == SittingIsOver(row.sitting, now, 0) \/ IsPastDeadline(now, row)
  IN /\ At(r, "submit", "loaded")
     /\ IF refused THEN Done(r) ELSE Decided(r, row)
     /\ UNCHANGED <<now, sitting, attempt, answer>>

SubmitCommit(r) ==
  /\ At(r, "submit", "checked")
  /\ attempt' = HandedIn(req[r].row, FALSE)
  /\ Done(r)
  /\ UNCHANGED <<now, sitting, answer>>

-----------------------------------------------------------------------------
(* POST hand-in and hand-in-all *)

\* sittingIsOpen reads the status alone, not the expiry.
HandInLoad(r) ==
  /\ MayLaunch(r, "handIn")
  /\ attempt.status = "in_progress"
  /\ req' = [req EXCEPT ![r] = [Launch("handIn", "loaded") EXCEPT !.row = Seen(attempt)]]
  /\ UNCHANGED <<now, sitting, attempt, answer>>

HandInCheck(r) ==
  LET row == req[r].row
      refused == ~IsPastDeadline(now, row) /\ sitting[row.sitting].status = "open"
  IN /\ At(r, "handIn", "loaded")
     /\ IF refused THEN Done(r) ELSE Decided(r, row)
     /\ UNCHANGED <<now, sitting, attempt, answer>>

HandInAllLoad(r, s) ==
  /\ MayLaunch(r, "handInAll")
  /\ req' = [req EXCEPT ![r] = [Launch("handInAll", "select") EXCEPT
                 !.sit = s, !.flag = ~SittingIsOver(s, now, 0), !.at = now]]
  /\ UNCHANGED <<now, sitting, attempt, answer>>

\* The sweep's rows are read once, up front.
HandInAllSelect(r) ==
  LET swept == /\ attempt.status = "in_progress"
               /\ attempt.sitting = req[r].sit
               /\ req[r].flag => IsPastDeadline(req[r].at, attempt)
  IN /\ At(r, "handInAll", "select")
     /\ IF swept THEN Decided(r, attempt) ELSE Done(r)
     /\ UNCHANGED <<now, sitting, attempt, answer>>

HandInCommit(r) ==
  /\ req[r].kind \in {"handIn", "handInAll"} /\ req[r].pc = "checked"
  /\ attempt' = HandedIn(req[r].row, TRUE)
  /\ Done(r)
  /\ UNCHANGED <<now, sitting, answer>>

-----------------------------------------------------------------------------
(* POST extend, for one attempt and for a whole sitting *)

\* endsAt = Null asks for no limit; an instant must lie in the future.
ExtendLoad(r, endsAt) ==
  /\ MayLaunch(r, "extend")
  /\ endsAt # Null => endsAt > now
  /\ attempt.status = "in_progress"
  /\ req' = [req EXCEPT ![r] = [Launch("extend", "checked") EXCEPT
                                   !.row = ById(attempt), !.endsAt = endsAt]]
  /\ UNCHANGED <<now, sitting, attempt, answer>>

ExtendAllLoad(r, s, endsAt) ==
  /\ MayLaunch(r, "extendAll")
  /\ endsAt # Null => endsAt > now
  /\ req' = [req EXCEPT ![r] = [Launch("extendAll", "select") EXCEPT
                                   !.sit = s, !.endsAt = endsAt, !.at = now]]
  /\ UNCHANGED <<now, sitting, attempt, answer>>

ExtendAllSelect(r) ==
  /\ At(r, "extendAll", "select")
  /\ IF attempt.status = "in_progress" /\ attempt.sitting = req[r].sit
     THEN Decided(r, attempt)
     ELSE Goto(r, "flag")
  /\ UNCHANGED <<now, sitting, attempt, answer>>

ExtendCommit(r) ==
  /\ req[r].kind \in {"extend", "extendAll"} /\ req[r].pc = "checked"
  /\ attempt' = Extended(req[r].row, req[r].endsAt)
  /\ IF req[r].kind = "extend" THEN Done(r) ELSE Goto(r, "flag")
  /\ UNCHANGED <<now, sitting, answer>>

\* The flag later joiners inherit; the same UPDATE stamps updated_at, which is
\* read only of a sitting that is closed.
ExtendAllFlag(r) ==
  /\ At(r, "extendAll", "flag")
  /\ sitting' = [sitting EXCEPT
       ![req[r].sit].noLimit = (req[r].endsAt = Null),
       ![req[r].sit].updated = IF sitting[req[r].sit].status = "closed" THEN req[r].at ELSE @]
  /\ Done(r)
  /\ UNCHANGED <<now, attempt, answer>>

-----------------------------------------------------------------------------
(* POST pass-back, DELETE attempt, POST close *)

\* A timed attempt needs a new deadline ahead of it; another ignores one.
PassBackLoad(r, endsAt) ==
  /\ MayLaunch(r, "passBack")
  /\ attempt.status = "submitted"
  /\ AttemptIsTimed(attempt) => endsAt > now
  /\ attempt.passBacks < MaxPassBacks
  /\ req' = [req EXCEPT ![r] = [Launch("passBack", "checked") EXCEPT
                 !.row = ById(attempt),
                 !.endsAt = IF AttemptIsTimed(attempt) THEN endsAt ELSE Null]]
  /\ UNCHANGED <<now, sitting, attempt, answer>>

MutantPassedBack(r) ==
  [attempt EXCEPT !.status = "in_progress", !.submittedAt = Null,
                  !.passBacks = @ + 1,
                  !.override = IF req[r].endsAt = Null THEN @ ELSE req[r].endsAt]

MutantCountDown(r) ==
  [attempt EXCEPT !.status = "in_progress", !.submittedAt = Null, !.byStaff = FALSE,
                  !.passBacks = @ - 1]

PassedBack(r) ==
  [attempt EXCEPT !.status = "in_progress", !.submittedAt = Null, !.byStaff = FALSE,
                  !.passBacks = @ + 1,
                  !.override = IF req[r].endsAt = Null THEN @ ELSE req[r].endsAt]

PassBackCommit(r) ==
  /\ At(r, "passBack", "checked")
  /\ attempt' = IF StillThere(req[r].row) THEN PassedBack(r) ELSE attempt
  /\ Done(r)
  /\ UNCHANGED <<now, sitting, answer>>

DeleteLoad(r) ==
  /\ MayLaunch(r, "delete")
  /\ attempt.status # "absent" /\ attempt.id < MaxId
  /\ req' = [req EXCEPT ![r] = [Launch("delete", "loaded") EXCEPT !.row = Seen(attempt)]]
  /\ UNCHANGED <<now, sitting, attempt, answer>>

DeleteCheck(r) ==
  LET row == req[r].row
      refused == row.status = "in_progress" /\ sitting[row.sitting].status = "open"
  IN /\ At(r, "delete", "loaded")
     /\ IF refused THEN Done(r) ELSE Decided(r, row)
     /\ UNCHANGED <<now, sitting, attempt, answer>>

\* The delete cascades to the attempt's answers.
DeleteCommit(r) ==
  /\ At(r, "delete", "checked")
  /\ IF StillThere(req[r].row)
     THEN attempt' = [NoRow EXCEPT !.id = attempt.id] /\ answer' = NoAnswer
     ELSE UNCHANGED <<attempt, answer>>
  /\ Done(r)
  /\ UNCHANGED <<now, sitting>>

\* Closing a closed sitting answers with the row and writes nothing.
CloseLoad(r, s) ==
  /\ MayLaunch(r, "close")
  /\ sitting[s].status = "open"
  /\ req' = [req EXCEPT ![r] = [Launch("close", "checked") EXCEPT !.sit = s]]
  /\ UNCHANGED <<now, sitting, attempt, answer>>

CloseCommit(r) ==
  LET s == req[r].sit
  IN /\ At(r, "close", "checked")
     /\ sitting' = [sitting EXCEPT ![s].status = "closed", ![s].updated = now]
     /\ Done(r)
     /\ UNCHANGED <<now, attempt, answer>>

-----------------------------------------------------------------------------
Tick == now < MaxNow /\ now' = now + 1 /\ UNCHANGED <<sitting, attempt, answer, req>>

Init ==
  /\ now = 0
  /\ sitting = [s \in Sittings |-> [status |-> "open", updated |-> 0, noLimit |-> FALSE]]
  /\ attempt = NoRow
  /\ answer = NoAnswer
  /\ req = [r \in Requests |-> Idle]

Ends == {Null} \cup Deadlines

StudentStep(r) ==
  \/ \E s \in Sittings : JoinLoad(r, s)
  \/ JoinRow(r) \/ JoinInsert(r) \/ JoinReread(r) \/ JoinRebind(r) \/ JoinApply(r)
  \/ \E v \in Answers \cup {NoAnswer} : WriteLoad(r, v)
  \/ WriteCheck(r) \/ WriteCommit(r)
  \/ SubmitLoad(r) \/ SubmitCheck(r) \/ SubmitCommit(r)

StaffStep(r) ==
  \/ HandInLoad(r) \/ HandInCheck(r) \/ HandInCommit(r)
  \/ \E s \in Managed : HandInAllLoad(r, s)
  \/ HandInAllSelect(r)
  \/ \E t \in Ends : ExtendLoad(r, t)
  \/ \E s \in Managed, t \in Ends : ExtendAllLoad(r, s, t)
  \/ ExtendAllSelect(r) \/ ExtendCommit(r) \/ ExtendAllFlag(r)
  \/ \E t \in Ends : PassBackLoad(r, t)
  \/ PassBackCommit(r)
  \/ DeleteLoad(r) \/ DeleteCheck(r) \/ DeleteCommit(r)
  \/ \E s \in Managed : CloseLoad(r, s)
  \/ CloseCommit(r)

Next == Tick \/ \E r \in Requests : StudentStep(r) \/ StaffStep(r)

Spec == Init /\ [][Next]_vars

-----------------------------------------------------------------------------
(* Properties *)

\* Every variable keeps its type.
TypeOK ==
  /\ now \in Nat
  /\ sitting \in [Sittings -> [status : {"open", "closed"}, updated : Nat, noLimit : BOOLEAN]]
  /\ attempt \in Row
  /\ answer \in Answers \cup {NoAnswer}
  /\ req \in [Requests -> Request]

\* The columns that say "handed in" agree whichever handlers raced: an attempt
\* is submitted exactly when it carries a hand-in instant, and nothing is left
\* on an open attempt that says a teacher handed it in (pass-back's promise).
HandedInColumnsAgree ==
  /\ attempt.status = "submitted" <=> attempt.submittedAt # Null
  /\ attempt.byStaff => attempt.status = "submitted"

\* A submitted attempt is a record of where it was submitted: no join that
\* races the hand-in moves it to another sitting (rebindIfMoved).
SubmittedStaysInItsSitting ==
  [][attempt.status = "submitted" /\ attempt'.status # "absent"
       => attempt'.sitting = attempt.sitting]_attempt

\* Only a teacher's request shortens the time of an attempt: starting, resuming
\* and following a sitting leave its deadline or lift it (attemptDeadline.ts:
\* "a student who relaunches ... keeps the deadline their attempt began with").
NoLater(d, e) == e = Null \/ (d # Null /\ d <= e)
StudentKeepsTheirTime ==
  [][(\E r \in Requests : req[r].kind \in StudentKinds /\ req'[r] # req[r])
       /\ attempt.status # "absent"
       => attempt'.id = attempt.id /\ NoLater(DeadlineFor(attempt), DeadlineFor(attempt'))]_vars

\* What the interleavings of the handlers amount to.
Contract == INSTANCE AttemptContract WITH
  id <- attempt.id, status <- attempt.status, place <- attempt.sitting,
  accepted <- [r \in Requests |->
                 IF req[r].kind = "write" THEN <<req[r].row.id, req[r].body>> ELSE <<>>]
ImplementsContract == Contract!Spec
=============================================================================
