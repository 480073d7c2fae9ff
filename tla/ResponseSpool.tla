--------------------------- MODULE ResponseSpool ---------------------------
(***************************************************************************)
(* The way of a student's answer from the page to the server, for one       *)
(* attempt: the spool on the Mac's disk, the flushes that empty it, the     *)
(* hand-in that follows one, and the trips home and back that start a new   *)
(* screen with a spool actor of its own over the same file, while flushes   *)
(* of the screens before may still be out.                                  *)
(*                                                                          *)
(* The n-th value of an item that reaches the disk, a withdrawal included,  *)
(* is the number n, also when it equals an earlier one.  A flush is a task; *)
(* a task waits for the earlier tasks of its own screen, reads the queue    *)
(* when its turn comes, and has one request on the wire at a time, which    *)
(* can fail before or after the server acts.  The actor is re-entrant, so   *)
(* the student types between any two steps.                                 *)
(*                                                                          *)
(* The server's side of a write is one step here, and refuses for a closed  *)
(* sitting or a hand-in only: AttemptPlane has its steps, the time limit,   *)
(* past which answers are refused for good, and the close grace.  Not       *)
(* modelled: the purge of rows a day old, the rows of other attempts,       *)
(* and the order of two items' entries; DrawingUpload has drawings.         *)
(***************************************************************************)
EXTENDS Integers, Sequences

CONSTANTS
  Items,
  NoItem,
  MaxEdits,    \* bound: values a student gives one item
  MaxScreens,  \* bound: times the student opens the test
  MaxTasks     \* bound: flushes asked for and not finished

ASSUME SpoolAssumption ==
  /\ NoItem \notin Items
  /\ MaxEdits \in Nat /\ MaxScreens \in Nat /\ MaxTasks \in Nat

VARIABLES
  place,    \* where the student is
  screen,   \* how many times the test was opened; the last one is on screen
  posted,   \* items with a value on its way from the page to the disk
  typed,    \* the last value of each item that reached the disk (history)
  revised,  \* items given anew since Finish was pressed on a screen (history)
  disk,     \* pending_responses: the row of each item
  tasks,    \* the flushes of all screens, in the order they were asked for
  crossed,  \* items that flushes of two screens have carried at once (history)
  finish,   \* the hand-in of each screen
  stored,   \* the server's responses rows
  attempt,  \* the server's attempts.status
  sitting   \* the sitting the attempt is bound to

vars == <<place, screen, posted, typed, revised, disk, tasks, crossed, finish, stored, attempt,
          sitting>>
given == <<posted, typed, revised>>
server == <<stored, attempt, sitting>>

Screens == 1..MaxScreens
Values == 0..MaxEdits                                  \* 0: none yet
Row == {r \in [v : Values, deferred : BOOLEAN] : r.deferred => r.v # 0}
NoRow == [v |-> 0, deferred |-> FALSE]                 \* v = 0: no row
Entry == [item : Items \cup {NoItem}, v : Values]
NoEntry == [item |-> NoItem, v |-> 0]
Task == [screen : Screens, kind : {"record", "finish", "retry"},
         at : {"waiting", "ready", "out", "stored", "closed", "refused", "failed"},
         todo : SUBSET Entry, cur : Entry, sawClosed : BOOLEAN]
Hand == {"none", "flushing", "submitting", "taken", "refused", "failed", "done"}

NewTask(kind) == [screen |-> screen, kind |-> kind, at |-> "waiting", todo |-> {},
                  cur |-> NoEntry, sawClosed |-> FALSE]
Ask(kind) == Len(tasks) < MaxTasks /\ tasks' = Append(tasks, NewTask(kind))
Without(k) == SubSeq(tasks, 1, k - 1) \o SubSeq(tasks, k + 1, Len(tasks))

\* The items a flush has an entry of, still to send or on the wire.
Carries(t) == {e.item : e \in t.todo \cup {t.cur}}

\* pending(): the rows a normal flush sends.  deferredEntries(): the held ones.
Rows(held) == {i \in Items : disk[i].v # 0 /\ disk[i].deferred = held}
Entries(held) == {[item |-> i, v |-> disk[i].v] : i \in Rows(held)}

-----------------------------------------------------------------------------
(* The student *)

\* A join goes through an open sitting and rebinds the attempt to it; the
\* new screen first runs the retry pass over the held rows.  The round trip
\* outlasts the page's last messages, but not a flush on the wire or a hand-in.
Join ==
  /\ place = "home" /\ attempt = "in_progress" /\ posted = {}
  /\ screen < MaxScreens
  /\ screen' = screen + 1
  /\ sitting' = "open"
  /\ place' = "opening"
  /\ Len(tasks) < MaxTasks
  /\ tasks' = Append(tasks, [NewTask("retry") EXCEPT !.screen = screen + 1])
  /\ UNCHANGED <<given, disk, crossed, finish, stored, attempt>>

\* The page's message: taken unless the hand-in is known to have been taken.
Type(i) ==
  /\ place = "test" /\ i \notin posted /\ typed[i] < MaxEdits
  /\ posted' = posted \cup {i}
  /\ UNCHANGED <<place, screen, typed, revised, disk, tasks, crossed, finish, server>>

\* record and handleWithdraw, in a Task of their own: to disk first (upsert,
\* which releases a held row), then a flush.
Record(i) ==
  /\ i \in posted /\ posted' = posted \ {i}
  /\ typed' = [typed EXCEPT ![i] = @ + 1]
  /\ disk' = [disk EXCEPT ![i] = [v |-> typed[i] + 1, deferred |-> FALSE]]
  /\ revised' = [c \in Screens |-> revised[c] \cup {i}]
  /\ Ask("record")
  /\ UNCHANGED <<place, screen, crossed, finish, server>>

\* handleSubmit: Finish is pressed.  The main actor runs its Tasks in order, so
\* the messages the page sent before are on disk.
Finish ==
  /\ place = "test" /\ finish[screen] = "none" /\ posted = {}
  /\ finish' = [finish EXCEPT ![screen] = "flushing"]
  /\ revised' = [revised EXCEPT ![screen] = {}]
  /\ Ask("finish")
  /\ UNCHANGED <<place, screen, posted, typed, disk, crossed, server>>

-----------------------------------------------------------------------------
(* A flush *)

\* Mutant: a flush does not wait for the one before.
MutantMayTurn(k) == TRUE

\* serialized: after the screen's earlier flushes.
MayTurn(k) == \A j \in 1..(k - 1) : tasks[j].screen # tasks[k].screen

\* What the flush reads of the queue that a flush of another screen carries.
Crossing(k) ==
  {i \in Rows(tasks[k].kind = "retry") :
     \E j \in DOMAIN tasks : tasks[j].screen # tasks[k].screen /\ i \in Carries(tasks[j])}

Turn(k) ==
  /\ tasks[k].at = "waiting" /\ MayTurn(k)
  /\ tasks' = [tasks EXCEPT ![k].at = "ready", ![k].todo = Entries(tasks[k].kind = "retry")]
  /\ crossed' = crossed \cup Crossing(k)
  /\ UNCHANGED <<place, screen, given, disk, finish, server>>

Send(k) ==
  /\ tasks[k].at = "ready"
  /\ \E e \in tasks[k].todo :
       tasks' = [tasks EXCEPT ![k].at = "out", ![k].cur = e, ![k].todo = @ \ {e}]
  /\ UNCHANGED <<place, screen, given, disk, crossed, finish, server>>

\* PUT or DELETE responses/[itemId]: refused once handed in, then while the
\* sitting is over.
Serve(k) ==
  /\ tasks[k].at = "out"
  /\ LET e == tasks[k].cur
         answered(how) == tasks' = [tasks EXCEPT ![k].at = how]
     IN \/ attempt = "submitted" /\ answered("refused") /\ UNCHANGED stored
        \/ attempt = "in_progress" /\ sitting = "closed" /\ answered("closed") /\ UNCHANGED stored
        \/ /\ attempt = "in_progress" /\ sitting = "open"
           /\ answered("stored")
           /\ stored' = [stored EXCEPT ![e.item] = e.v]
  /\ UNCHANGED <<place, screen, given, disk, crossed, finish, attempt, sitting>>

\* The request or its answer is lost, or the server fails: try again later.
Lose(k) ==
  /\ tasks[k].at \in {"out", "stored", "closed", "refused"}
  /\ tasks' = [tasks EXCEPT ![k].at = "failed"]
  /\ UNCHANGED <<place, screen, given, disk, crossed, finish, server>>

\* Mutant: the row is deleted by its key.
MutantRemoveIfUnchanged(e) == [disk EXCEPT ![e.item] = NoRow]

\* removeIfUnchanged: only the payload that was sent.
RemoveIfUnchanged(e) == [disk EXCEPT ![e.item] = IF @.v = e.v THEN NoRow ELSE @]

\* Stored, or refused for good.
Settle(k) ==
  /\ tasks[k].at \in {"stored", "refused"}
  /\ disk' = RemoveIfUnchanged(tasks[k].cur)
  /\ tasks' = [tasks EXCEPT ![k].at = "ready", ![k].cur = NoEntry]
  /\ UNCHANGED <<place, screen, given, crossed, finish, server>>

\* Mutant: the refusal of a closed sitting is final.
MutantHeld(i) == [disk EXCEPT ![i] = NoRow]

\* markDeferred: the row of the item, whatever it now says, if there is one.
Held(i) == [disk EXCEPT ![i].deferred = @ \/ disk[i].v # 0]

\* sitting_closed: the row is held and the queue goes on.
Hold(k) ==
  /\ tasks[k].at = "closed"
  /\ disk' = Held(tasks[k].cur.item)
  /\ tasks' = [tasks EXCEPT ![k].at = "ready", ![k].cur = NoEntry,
                            ![k].sawClosed = tasks[k].kind # "retry"]
  /\ UNCHANGED <<place, screen, given, crossed, finish, server>>

\* Mutant: a failed entry is tried again at once.
MutantStop(k) ==
  /\ tasks[k].at = "failed"
  /\ tasks' = [tasks EXCEPT ![k].at = "ready", ![k].cur = NoEntry,
                            ![k].todo = @ \cup {tasks[k].cur}]
  /\ UNCHANGED <<place, screen, given, disk, crossed, finish, server>>

\* Anything else stops the flush; what is left stays queued.
Stop(k) ==
  /\ tasks[k].at = "failed"
  /\ tasks' = [tasks EXCEPT ![k].at = "ready", ![k].cur = NoEntry, ![k].todo = {}]
  /\ UNCHANGED <<place, screen, given, disk, crossed, finish, server>>

\* Mutant: what is left of the flush's own queue counts, which a stop empties.
MutantRemaining == {}

\* FlushResult.remaining, by which a hand-in goes on: held rows do not count.
Remaining == Rows(FALSE)

\* The flush returns.  A retry pass goes on to fetch the bundle, which can
\* fail and is refused for a closed sitting or a handed-in attempt; a hand-in
\* goes on if nothing remains; a closed sitting sends the student home.
EndFlush(k) ==
  /\ tasks[k].at = "ready" /\ tasks[k].todo = {}
  /\ tasks' = Without(k)
  /\ LET t == tasks[k]
         current == t.screen = screen
     IN /\ finish' = IF t.kind = "finish"
                     THEN [finish EXCEPT ![t.screen] =
                             IF Remaining = {} THEN "submitting" ELSE "none"]
                     ELSE finish
        /\ \/ /\ t.kind = "retry" /\ current /\ place = "opening"
              /\ place' \in IF attempt = "in_progress" /\ sitting = "open"
                            THEN {"test", "home"} ELSE {"home"}
           \/ /\ ~(t.kind = "retry" /\ current /\ place = "opening")
              /\ place' = IF t.sawClosed /\ current /\ place = "test" THEN "home" ELSE place
  /\ UNCHANGED <<screen, given, disk, crossed, server>>

-----------------------------------------------------------------------------
(* The hand-in that follows a flush *)

\* POST submit: idempotent once handed in, refused while the sitting is over.
SubmitServe(c) ==
  /\ finish[c] = "submitting"
  /\ IF attempt = "in_progress" /\ sitting = "closed"
     THEN /\ finish' = [finish EXCEPT ![c] = "refused"]
          /\ UNCHANGED attempt
     ELSE /\ finish' = [finish EXCEPT ![c] = "taken"]
          /\ attempt' = "submitted"
  /\ UNCHANGED <<place, screen, given, disk, tasks, crossed, stored, sitting>>

SubmitLose(c) ==
  /\ finish[c] \in {"submitting", "taken", "refused"}
  /\ finish' = [finish EXCEPT ![c] = "failed"]
  /\ UNCHANGED <<place, screen, given, disk, tasks, crossed, server>>

\* spool.clear(attemptID): every row of the attempt.
Cleared == [i \in Items |-> NoRow]

\* Handed in: the disk is cleared, the page takes no more answers, and the host
\* ends the session, also that of a screen opened since.
SubmitTaken(c) ==
  /\ finish[c] = "taken"
  /\ disk' = Cleared
  /\ finish' = [finish EXCEPT ![c] = "done"]
  /\ \/ place = "test" /\ place' = "over"
     \/ (place # "test" \/ c # screen) /\ place' = place
  /\ UNCHANGED <<screen, given, tasks, crossed, server>>

\* Refused or failed: the button is back, and a closed sitting goes home.
SubmitNotTaken(c) ==
  /\ finish[c] \in {"refused", "failed"}
  /\ finish' = [finish EXCEPT ![c] = "none"]
  /\ place' = IF finish[c] = "refused" /\ c = screen /\ place = "test" THEN "home" ELSE place
  /\ UNCHANGED <<screen, given, disk, tasks, crossed, server>>

-----------------------------------------------------------------------------
(* The teacher, the poll and the Mac *)

CloseSitting ==
  /\ sitting = "open" /\ sitting' = "closed"
  /\ UNCHANGED <<place, screen, given, disk, tasks, crossed, finish, stored, attempt>>

TeacherHandsIn ==
  /\ attempt = "in_progress" /\ attempt' = "submitted"
  /\ UNCHANGED <<place, screen, given, disk, tasks, crossed, finish, stored, sitting>>

\* The peek poll learns of the close: home, with the flushes still running.
NoticeClosed ==
  /\ sitting = "closed" /\ place \in {"opening", "test"}
  /\ place' = "home"
  /\ UNCHANGED <<screen, given, disk, tasks, crossed, finish, server>>

\* The app dies and is started again; only the disk is left.  A request on the
\* wire has reached the server by then or never does.
Crash ==
  /\ screen > 0
  /\ place' = "home" /\ tasks' = <<>>
  /\ finish' = [c \in Screens |-> "none"] /\ posted' = {}
  /\ UNCHANGED <<screen, typed, revised, disk, crossed, server>>

-----------------------------------------------------------------------------
Init ==
  /\ place = "home" /\ screen = 0
  /\ posted = {} /\ revised = [c \in Screens |-> Items]
  /\ typed = [i \in Items |-> 0] /\ stored = [i \in Items |-> 0]
  /\ disk = [i \in Items |-> NoRow]
  /\ tasks = <<>> /\ crossed = {} /\ finish = [c \in Screens |-> "none"]
  /\ attempt = "in_progress" /\ sitting = "open"

\* A flush's own steps, and the wire's: every request is answered or times out.
Step(k) == Turn(k) \/ Send(k) \/ Serve(k) \/ Lose(k) \/ Settle(k) \/ Hold(k) \/ Stop(k)
             \/ EndFlush(k)
FlushStep(c) == \E k \in 1..Len(tasks) : tasks[k].screen = c /\ Step(k)
SubmitStep(c) == SubmitServe(c) \/ SubmitLose(c) \/ SubmitTaken(c) \/ SubmitNotTaken(c)

Next ==
  \/ Join \/ (\E i \in Items : Type(i) \/ Record(i)) \/ Finish
  \/ \E c \in Screens : FlushStep(c) \/ SubmitStep(c)
  \/ CloseSitting \/ TeacherHandsIn \/ NoticeClosed \/ Crash

Spec == /\ Init /\ [][Next]_vars
        /\ \A c \in Screens : WF_vars(FlushStep(c)) /\ WF_vars(SubmitStep(c))

-----------------------------------------------------------------------------
(* Properties *)

\* The variables have the types of the code's state.
TypeOK ==
  /\ place \in {"home", "opening", "test", "over"} /\ screen \in 0..MaxScreens
  /\ posted \subseteq Items /\ revised \in [Screens -> SUBSET Items]
  /\ typed \in [Items -> Values] /\ stored \in [Items -> Values]
  /\ disk \in [Items -> Row]
  /\ tasks \in Seq(Task) /\ Len(tasks) <= MaxTasks /\ crossed \subseteq Items
  /\ finish \in [Screens -> Hand]
  /\ attempt \in {"in_progress", "submitted"} /\ sitting \in {"open", "closed"}

\* Until the attempt is handed in, the last thing a student gave an item is on
\* the server or on the Mac's disk: no crash, lost answer, refusal for a closed
\* sitting, or typing while an older value is on the wire loses it.  A trip home
\* and back over flushes still out does not either, except of an item that
\* flushes of two screens carried at once.
NoAnswerLost ==
  attempt = "in_progress" =>
    \A i \in Items \ crossed : typed[i] \in {stored[i], disk[i].v}

\* The server's copy of an item never goes back to an older value, although a
\* send whose answer was lost is repeated and a flush is asked for on every
\* edit, and a new screen's flushes run beside those of the screen before.  Only
\* an item that flushes of two screens carried at once can go back.
NeverGoesBack == [][\A i \in Items \ crossed : stored'[i] >= stored[i]]_vars

\* The hand-in carries what the student had given when Finish was pressed:
\* when the server takes it, each item's stored answer is the last one given, or
\* that was refused by a closed sitting and is held on the Mac, or was given
\* since, or flushes of two screens carried the item at once.
HandInCarriesTheAnswers ==
  [][\A c \in Screens :
       attempt = "in_progress" /\ finish[c] = "submitting" /\ finish'[c] = "taken" =>
         \A i \in Items \ (crossed \cup revised[c]) :
           stored[i] = typed[i] \/ disk[i].deferred]_vars

\* A pressed Finish is always answered: no flush waits for ever on the one
\* before it.
FinishIsAnswered ==
  \A c \in Screens : finish[c] \notin {"none", "done"} ~> finish[c] \in {"none", "done"}

\* serialized: two overlapping flushes could let "an older answer ... overwrite
\* a newer one on the server.  Each flush waits for the one before it": the
\* server's copy of no item goes back, whichever screens' flushes carry it.
NewestLandsLast == [][\A i \in Items : stored'[i] >= stored[i]]_vars

\* "The flush has to succeed COMPLETELY or the hand-in does not happen": when
\* the server takes the hand-in of the screen the student is on, no row that was
\* there when Finish was pressed is held back on the Mac.
HandInIsComplete ==
  [][\A c \in Screens :
       attempt = "in_progress" /\ c = screen /\ finish[c] = "submitting" /\ finish'[c] = "taken" =>
         Rows(TRUE) \subseteq revised[c]]_vars

=============================================================================
