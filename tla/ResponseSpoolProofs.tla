------------------------- MODULE ResponseSpoolProofs -------------------------
(***************************************************************************)
(* The way of an answer to the server, for any number of items, edits,      *)
(* screens and flushes, those of a screen the student has left included.    *)
(* The argument: the flushes of one screen wait for each other, so an item  *)
(* has entries in two flushes at once only when two screens carry it; what  *)
(* is on the wire of any other item is the one entry there is of it, no     *)
(* older than the server's copy and no newer than what the student gave     *)
(* last.                                                                    *)
(***************************************************************************)
EXTENDS ResponseSpool, SequenceTheorems, TLAPS

-----------------------------------------------------------------------------
(* The invariant *)

\* The types, room for a value that is on its way to the disk, and a test that
\* was opened before anything was typed.
Types ==
  /\ TypeOK
  /\ \A i \in posted : typed[i] < MaxEdits
  /\ screen = 0 => place = "home" /\ posted = {}

OnTheWire == {"out", "stored", "closed", "refused", "failed"}

\* An entry in flight was given, and unless two screens have carried its item,
\* it is no older than the server's copy.
Fresh(e) ==
  /\ e.item \in Items /\ e.v # 0 /\ e.v <= typed[e.item]
  /\ e.item \notin crossed => stored[e.item] <= e.v

\* A flush has at most one entry of an item, none before its turn, and what it
\* knows of the server's answer is so.
Flying(t) ==
  /\ \A e \in t.todo : Fresh(e) /\ (t.at \in OnTheWire => e.item # t.cur.item)
  /\ \A e, f \in t.todo : e.item = f.item => e = f
  /\ t.at \in OnTheWire => Fresh(t.cur)
  /\ t.at \notin OnTheWire => t.cur = NoEntry
  /\ t.at = "waiting" => t.todo = {}
  /\ t.at = "stored" /\ t.cur.item \notin crossed => stored[t.cur.item] = t.cur.v
  /\ t.at = "refused" => attempt = "submitted"
Known == \A k \in DOMAIN tasks : Flying(tasks[k])

\* A flush that has had its turn is the first of its screen.
InTurn ==
  \A k \in DOMAIN tasks : tasks[k].at # "waiting" =>
    \A j \in DOMAIN tasks : j < k => tasks[j].screen # tasks[k].screen

\* Two flushes carry an item only if it has crossed.
OneCarrier ==
  \A j, k \in DOMAIN tasks : j # k =>
    \A i \in Items : i \in Carries(tasks[j]) /\ i \in Carries(tasks[k]) => i \in crossed

Serial == Known /\ InTurn /\ OneCarrier

\* A hand-in taken is taken.
TakenIsTaken ==
  \A c \in Screens : finish[c] \in {"taken", "done"} => attempt = "submitted"

\* A row on disk is the last value of its item.
DiskIsLast ==
  \A i \in Items : disk[i].v \in {0, typed[i]} /\ stored[i] <= typed[i]

\* A hand-in goes on with no row left to send: what is left is held, or was
\* given since.
LeftIsHeld ==
  \A c \in Screens : finish[c] = "submitting" =>
    \A i \in Items \ revised[c] : disk[i].v # 0 => disk[i].deferred

Inv == Types /\ Serial /\ TakenIsTaken /\ DiskIsLast /\ LeftIsHeld /\ NoAnswerLost

-----------------------------------------------------------------------------
(* The list of flushes *)

Becomes(k, t) == tasks' = [tasks EXCEPT ![k] = t] /\ t.screen = tasks[k].screen

\* What the list is.
LEMMA TasksOf ==
  ASSUME NEW list \in Seq(Task)
  PROVE  /\ Len(list) \in Nat /\ DOMAIN list = 1..Len(list) /\ list \in [1..Len(list) -> Task]
         /\ \A k \in DOMAIN list : list[k] \in Task
<1>1. Len(list) \in Nat /\ DOMAIN list = 1..Len(list) /\ list \in [1..Len(list) -> Task]
  BY LenProperties
<1> QED
  BY <1>1

\* A flush is asked for: it comes last.
LEMMA Asked ==
  ASSUME NEW list \in Seq(Task), NEW t \in Task
  PROVE  /\ Append(list, t) \in Seq(Task) /\ Len(Append(list, t)) = Len(list) + 1
         /\ DOMAIN Append(list, t) = 1..(Len(list) + 1)
         /\ \A k \in DOMAIN list : Append(list, t)[k] = list[k]
         /\ Append(list, t)[Len(list) + 1] = t
<1>1. Len(list) \in Nat /\ DOMAIN list = 1..Len(list)
  BY TasksOf
<1>2. /\ Append(list, t) \in Seq(Task) /\ Len(Append(list, t)) = Len(list) + 1
      /\ \A k \in DOMAIN list : Append(list, t)[k] = list[k]
      /\ Append(list, t)[Len(list) + 1] = t
  BY <1>1, AppendProperties
<1>3. DOMAIN Append(list, t) = 1..(Len(list) + 1)
  BY <1>2, LenProperties
<1> QED
  BY <1>2, <1>3

\* A flush returns: the later ones move up.
LEMMA Returned ==
  ASSUME tasks \in Seq(Task), NEW k \in DOMAIN tasks
  PROVE  /\ Without(k) \in Seq(Task) /\ Len(Without(k)) = Len(tasks) - 1
         /\ DOMAIN Without(k) = 1..(Len(tasks) - 1)
         /\ \A j \in 1..(Len(tasks) - 1) :
              Without(k)[j] = IF j < k THEN tasks[j] ELSE tasks[j + 1]
<1> DEFINE n == Len(tasks)
           front == SubSeq(tasks, 1, k - 1)
           back == SubSeq(tasks, k + 1, n)
<1>1. n \in Nat /\ DOMAIN tasks = 1..n /\ k \in 1..n
  BY TasksOf
<1>2. /\ front \in Seq(Task) /\ Len(front) = k - 1
      /\ \A j \in 1..(k - 1) : front[j] = tasks[j]
  BY <1>1, SubSeqProperties
<1>3. /\ back \in Seq(Task) /\ Len(back) = n - k
      /\ \A j \in 1..(n - k) : back[j] = tasks[k + j]
  BY <1>1, SubSeqProperties
<1> HIDE DEF front, back
<1>4. /\ front \o back \in Seq(Task) /\ Len(front \o back) = Len(front) + Len(back)
      /\ \A j \in 1..Len(front) + Len(back) :
           (front \o back)[j] = IF j <= Len(front) THEN front[j] ELSE back[j - Len(front)]
  BY <1>2, <1>3, ConcatProperties
<1>5. Without(k) = front \o back
  BY DEF Without, front, back
<1>6. Len(Without(k)) = n - 1 /\ Without(k) \in Seq(Task)
  <2>1. Len(front) + Len(back) = n - 1
    BY <1>1, <1>2, <1>3
  <2> QED
    BY <1>4, <1>5, <2>1
<1>7. DOMAIN Without(k) = 1..(n - 1)
  BY <1>6, LenProperties
<1>8. ASSUME NEW j \in 1..(n - 1) PROVE Without(k)[j] = IF j < k THEN tasks[j] ELSE tasks[j + 1]
  <2>1. Without(k)[j] = IF j <= k - 1 THEN front[j] ELSE back[j - (k - 1)]
    <3>1. Len(front) + Len(back) = n - 1
      BY <1>1, <1>2, <1>3
    <3>2. (front \o back)[j] = IF j <= Len(front) THEN front[j] ELSE back[j - Len(front)]
      BY <1>4, <1>8, <3>1
    <3> QED
      BY <1>2, <1>5, <3>2
  <2>2. CASE j < k
    BY <1>1, <1>2, <2>1, <2>2
  <2>3. CASE j >= k
    <3>1. j - (k - 1) \in 1..(n - k) /\ k + (j - (k - 1)) = j + 1
      BY <1>1, <2>3
    <3>2. back[j - (k - 1)] = tasks[k + (j - (k - 1))]
      BY <1>3, <3>1
    <3> QED
      BY <1>1, <2>1, <2>3, <3>1, <3>2
  <2> QED
    BY <1>1, <2>2, <2>3
<1> QED
  BY <1>6, <1>7, <1>8

\* A new flush waits, with nothing to send yet.
Idle(t) == t.at = "waiting" /\ t.todo = {} /\ t.cur = NoEntry

LEMMA NewTaskType ==
  ASSUME NEW kind \in {"record", "finish", "retry"}, screen \in Screens
  PROVE  NewTask(kind) \in Task /\ NewTask(kind).screen = screen /\ Idle(NewTask(kind))
  BY SpoolAssumption DEF NewTask, Idle, Task, NoEntry, Entry, Values, Screens

\* A flush goes on: the others stay where they are.
LEMMA Changed ==
  ASSUME tasks \in Seq(Task), NEW k \in DOMAIN tasks, NEW t \in Task,
         tasks' = [tasks EXCEPT ![k] = t]
  PROVE  /\ tasks' \in Seq(Task) /\ Len(tasks') = Len(tasks) /\ DOMAIN tasks' = DOMAIN tasks
         /\ tasks'[k] = t /\ \A j \in DOMAIN tasks \ {k} : tasks'[j] = tasks[j]
<1>1. /\ Len(tasks) \in Nat /\ DOMAIN tasks = 1..Len(tasks)
      /\ \A j \in DOMAIN tasks : tasks[j] \in Task
  BY TasksOf
<1>2. tasks' \in [1..Len(tasks) -> Task]
  BY <1>1
<1>3. tasks' \in Seq(Task) /\ Len(tasks') = Len(tasks)
  BY <1>1, <1>2, SeqDef, LenProperties
<1> QED
  BY <1>1, <1>3

\* The entries of the queue are entries.
LEMMA EntriesType ==
  ASSUME TypeOK, NEW held
  PROVE  /\ Entries(held) \in SUBSET Entry
         /\ \A e \in Entries(held) : e.item \in Items /\ e.v = disk[e.item].v /\ e.v # 0
         /\ \A e, f \in Entries(held) : e.item = f.item => e = f
  BY DEF TypeOK, Entries, Rows, Row, Entry

\* What a step of a flush makes of it.
LEMMA FlushMoves ==
  ASSUME TypeOK, NEW k \in DOMAIN tasks
  PROVE  /\ Turn(k) => \E t \in Task :
              /\ Becomes(k, t) /\ t.at = "ready" /\ t.cur = tasks[k].cur
              /\ t.todo = Entries(tasks[k].kind = "retry")
         /\ Send(k) => \E t \in Task :
              /\ Becomes(k, t) /\ t.at = "out"
              /\ t.cur \in tasks[k].todo /\ t.todo = tasks[k].todo \ {t.cur}
         /\ \A at \in {"stored", "closed", "refused", "failed"} :
              tasks' = [tasks EXCEPT ![k].at = at] => \E t \in Task :
                Becomes(k, t) /\ t.at = at /\ t.cur = tasks[k].cur /\ t.todo = tasks[k].todo
         /\ Settle(k) \/ Hold(k) => \E t \in Task :
              Becomes(k, t) /\ t.at = "ready" /\ t.cur = NoEntry /\ t.todo = tasks[k].todo
         /\ Stop(k) => \E t \in Task :
              Becomes(k, t) /\ t.at = "ready" /\ t.cur = NoEntry /\ t.todo = {}
<1> DEFINE old == tasks[k]
<1>1. old \in Task /\ NoEntry \in Entry /\ tasks \in Seq(Task)
  BY TasksOf, SpoolAssumption DEF TypeOK, NoEntry, Entry, Values
<1> USE DEF Becomes
<1>2. ASSUME Turn(k)
      PROVE  \E t \in Task :
               /\ Becomes(k, t) /\ t.at = "ready" /\ t.cur = old.cur
               /\ t.todo = Entries(old.kind = "retry")
  <2> DEFINE todo == Entries(old.kind = "retry")
             t == [old EXCEPT !.at = "ready", !.todo = todo]
  <2>1. todo \in SUBSET Entry
    BY EntriesType
  <2> HIDE DEF todo
  <2>2. /\ t \in Task /\ t.screen = old.screen /\ t.at = "ready" /\ t.cur = old.cur
        /\ t.todo = todo
    BY <1>1, <2>1 DEF Task
  <2>3. tasks' = [tasks EXCEPT ![k] = t]
    BY <1>2 DEF Turn, todo
  <2> HIDE DEF t
  <2> QED
    BY <1>2, <2>2, <2>3 DEF todo
<1>3. ASSUME Send(k)
      PROVE  \E t \in Task : /\ Becomes(k, t) /\ t.at = "out"
                             /\ t.cur \in old.todo /\ t.todo = old.todo \ {t.cur}
  <2>1. PICK e \in old.todo :
          tasks' = [tasks EXCEPT ![k].at = "out", ![k].cur = e, ![k].todo = @ \ {e}]
    BY <1>3 DEF Send
  <2> DEFINE t == [old EXCEPT !.at = "out", !.cur = e, !.todo = @ \ {e}]
  <2>2. /\ t \in Task /\ t.screen = old.screen /\ t.at = "out" /\ t.cur = e
        /\ t.todo = old.todo \ {e}
    BY <1>1 DEF Task
  <2>3. tasks' = [tasks EXCEPT ![k] = t]
    BY <2>1
  <2> HIDE DEF t
  <2> QED
    BY <1>3, <2>2, <2>3
<1>4. ASSUME NEW at \in {"stored", "closed", "refused", "failed"},
             tasks' = [tasks EXCEPT ![k].at = at]
      PROVE  \E t \in Task :
               Becomes(k, t) /\ t.at = at /\ t.cur = old.cur /\ t.todo = old.todo
  <2> DEFINE t == [old EXCEPT !.at = at]
  <2>1. /\ t \in Task /\ t.screen = old.screen /\ t.at = at /\ t.cur = old.cur
        /\ t.todo = old.todo
    BY <1>1 DEF Task
  <2>2. tasks' = [tasks EXCEPT ![k] = t]
    BY <1>4
  <2> HIDE DEF t
  <2> QED
    BY <2>1, <2>2
<1>5. ASSUME Settle(k) \/ Hold(k)
      PROVE  \E t \in Task :
               Becomes(k, t) /\ t.at = "ready" /\ t.cur = NoEntry /\ t.todo = old.todo
  <2>1. PICK saw \in BOOLEAN :
          tasks' = [tasks EXCEPT ![k].at = "ready", ![k].cur = NoEntry, ![k].sawClosed = saw]
    <3>1. CASE Settle(k)
      <4> DEFINE one == [old EXCEPT !.at = "ready", !.cur = NoEntry]
      <4>1. one = [one EXCEPT !.sawClosed = old.sawClosed]
        BY <1>1 DEF Task
      <4>2. tasks' = [tasks EXCEPT ![k] = one]
        BY <3>1 DEF Settle
      <4>3. tasks' = [tasks EXCEPT ![k].at = "ready", ![k].cur = NoEntry,
                                   ![k].sawClosed = old.sawClosed]
        BY <4>1, <4>2
      <4>4. old.sawClosed \in BOOLEAN
        BY <1>1 DEF Task
      <4> QED
        BY <4>3, <4>4
    <3>2. CASE Hold(k)
      BY <3>2 DEF Hold
    <3> QED
      BY <1>5, <3>1, <3>2
  <2> DEFINE t == [old EXCEPT !.at = "ready", !.cur = NoEntry, !.sawClosed = saw]
  <2>2. /\ t \in Task /\ t.screen = old.screen /\ t.at = "ready" /\ t.cur = NoEntry
        /\ t.todo = old.todo
    BY <1>1 DEF Task
  <2>3. tasks' = [tasks EXCEPT ![k] = t]
    BY <2>1
  <2> HIDE DEF t
  <2> QED
    BY <1>5, <2>2, <2>3
<1>6. ASSUME Stop(k)
      PROVE  \E t \in Task : Becomes(k, t) /\ t.at = "ready" /\ t.cur = NoEntry /\ t.todo = {}
  <2> DEFINE t == [old EXCEPT !.at = "ready", !.cur = NoEntry, !.todo = {}]
  <2>1. /\ t \in Task /\ t.screen = old.screen /\ t.at = "ready" /\ t.cur = NoEntry
        /\ t.todo = {}
    BY <1>1 DEF Task
  <2>2. tasks' = [tasks EXCEPT ![k] = t]
    BY <1>6 DEF Stop
  <2> HIDE DEF t
  <2> QED
    BY <1>6, <2>1, <2>2
<1> QED
  BY <1>2, <1>3, <1>4, <1>5, <1>6

-----------------------------------------------------------------------------
(* The types *)

AFlush(k) ==
  Turn(k) \/ Send(k) \/ Serve(k) \/ Lose(k) \/ Settle(k) \/ Hold(k) \/ Stop(k)

\* Next, with a flush's steps told from its return.
LEMMA Nexts ==
  ASSUME TypeOK, Next
  PROVE  \/ Join \/ (\E i \in Items : Type(i) \/ Record(i)) \/ Finish
         \/ \E k \in DOMAIN tasks : AFlush(k) \/ EndFlush(k)
         \/ \E c \in Screens : SubmitStep(c)
         \/ CloseSitting \/ TeacherHandsIn \/ NoticeClosed \/ Crash
<1>1. DOMAIN tasks = 1..Len(tasks)
  BY TasksOf DEF TypeOK
<1> QED
  BY <1>1 DEF Next, FlushStep, Step, AFlush

\* The list of flushes stays one, within its bound.
LEMMA TasksKept ==
  ASSUME Types, Next PROVE tasks' \in Seq(Task) /\ Len(tasks') <= MaxTasks
<1>1. /\ tasks \in Seq(Task) /\ Len(tasks) \in Nat /\ Len(tasks) <= MaxTasks /\ MaxTasks \in Nat
      /\ MaxScreens \in Nat /\ screen \in 0..MaxScreens
  BY TasksOf, SpoolAssumption DEF Types, TypeOK
<1>2. ASSUME NEW t \in Task, Len(tasks) < MaxTasks, tasks' = Append(tasks, t)
      PROVE  tasks' \in Seq(Task) /\ Len(tasks') <= MaxTasks
  BY <1>1, <1>2, Asked
<1>3. CASE Join
  <2> DEFINE t == [NewTask("retry") EXCEPT !.screen = screen + 1]
  <2>1. screen + 1 \in Screens
    BY <1>1, <1>3 DEF Join, Screens
  <2>2. t \in Task
    <3>1. NewTask("retry") \in
            [screen : 0..MaxScreens, kind : {"record", "finish", "retry"},
             at : {"waiting", "ready", "out", "stored", "closed", "refused", "failed"},
             todo : SUBSET Entry, cur : Entry, sawClosed : BOOLEAN]
      BY <1>1, SpoolAssumption DEF NewTask, NoEntry, Entry, Values
    <3> QED
      BY <2>1, <3>1 DEF Task
  <2> QED
    BY <1>2, <1>3, <2>2 DEF Join
<1>4. CASE Finish \/ \E i \in Items : Record(i)
  <2>1. PICK kind \in {"record", "finish"} : Ask(kind)
    BY <1>4 DEF Finish, Record
  <2>2. screen \in Screens
    BY <1>1, <1>4 DEF Finish, Record, Types, Screens
  <2> QED
    BY <1>2, <2>1, <2>2, NewTaskType DEF Ask
<1>5. CASE \E k \in DOMAIN tasks : AFlush(k)
  <2>1. PICK k \in DOMAIN tasks : AFlush(k)
    BY <1>5
  <2>2. Serve(k) \/ Lose(k) =>
          \E at \in {"stored", "closed", "refused", "failed"} : tasks' = [tasks EXCEPT ![k].at = at]
    BY DEF Serve, Lose
  <2>3. \E t \in Task : Becomes(k, t)
    BY <2>1, <2>2, FlushMoves DEF AFlush, Types
  <2> QED
    BY <1>1, <2>3, Changed DEF Becomes
<1>6. CASE \E k \in DOMAIN tasks : EndFlush(k)
  <2>1. PICK k \in DOMAIN tasks : tasks' = Without(k)
    BY <1>6 DEF EndFlush
  <2> QED
    BY <1>1, <2>1, Returned
<1>7. CASE Crash
  BY <1>1, <1>7, EmptySeq DEF Crash
<1>8. CASE UNCHANGED tasks
  BY <1>1, <1>8
<1> QED
  BY <1>3, <1>4, <1>5, <1>6, <1>7, <1>8, Nexts
     DEF Type, SubmitStep, SubmitServe, SubmitLose, SubmitTaken, SubmitNotTaken, CloseSitting,
         TeacherHandsIn, NoticeClosed, Types

\* What the screen, the hand-ins and the server say.
LEMMA PlacesKept ==
  ASSUME Types, Next
  PROVE  /\ place' \in {"home", "opening", "test", "over"} /\ screen' \in 0..MaxScreens
         /\ finish' \in [Screens -> Hand]
         /\ attempt' \in {"in_progress", "submitted"} /\ sitting' \in {"open", "closed"}
         /\ screen' = 0 => place' = "home" /\ posted' = {}
<1> USE SpoolAssumption DEF Types, TypeOK
<1>1. CASE Join
  BY <1>1 DEF Join, given
<1>2. CASE \E i \in Items : Type(i) \/ Record(i)
  BY <1>2 DEF Type, Record, server
<1>3. CASE Finish
  BY <1>3 DEF Finish, server, Hand
<1>4. CASE \E k \in DOMAIN tasks : AFlush(k)
  BY <1>4 DEF AFlush, Turn, Send, Serve, Lose, Settle, Hold, Stop, server, given
<1>5. CASE \E k \in DOMAIN tasks : EndFlush(k)
  <2>1. PICK k \in DOMAIN tasks : EndFlush(k)
    BY <1>5
  <2>2. finish' \in [Screens -> Hand]
    BY <2>1 DEF EndFlush, Hand
  <2> QED
    BY <2>1, <2>2 DEF EndFlush, server, given
<1>6. CASE \E c \in Screens : SubmitStep(c)
  <2>1. PICK c \in Screens : SubmitStep(c)
    BY <1>6
  <2>2. finish' \in [Screens -> Hand]
    BY <2>1 DEF SubmitStep, SubmitServe, SubmitLose, SubmitTaken, SubmitNotTaken, Hand
  <2> QED
    BY <2>1, <2>2 DEF SubmitStep, SubmitServe, SubmitLose, SubmitTaken, SubmitNotTaken, server, given
<1>7. CASE CloseSitting \/ TeacherHandsIn \/ NoticeClosed
  BY <1>7 DEF CloseSitting, TeacherHandsIn, NoticeClosed, server, given
<1>8. CASE Crash
  BY <1>8 DEF Crash, server, Hand
<1> QED
  BY <1>1, <1>2, <1>3, <1>4, <1>5, <1>6, <1>7, <1>8, Nexts

\* What the values say: of the page, the disk and the server.
LEMMA ValuesKept ==
  ASSUME Types, Next
  PROVE  /\ posted' \subseteq Items /\ revised' \in [Screens -> SUBSET Items]
         /\ typed' \in [Items -> Values] /\ stored' \in [Items -> Values]
         /\ disk' \in [Items -> Row]
         /\ \A i \in posted' : typed'[i] < MaxEdits
<1>1. /\ posted \subseteq Items /\ revised \in [Screens -> SUBSET Items]
      /\ typed \in [Items -> Values] /\ stored \in [Items -> Values]
      /\ disk \in [Items -> Row] /\ MaxEdits \in Nat
      /\ \A i \in posted : typed[i] < MaxEdits
  BY SpoolAssumption DEF Types, TypeOK
<1>2. CASE UNCHANGED <<posted, revised, typed, stored, disk>>
  BY <1>1, <1>2
<1>3. NoRow \in Row
  BY SpoolAssumption DEF NoRow, Row, Values
<1>4. ASSUME NEW i \in Items, Type(i) PROVE \A j \in posted' : typed'[j] < MaxEdits
  BY <1>1, <1>4 DEF Type
<1>5. CASE \E i \in Items : Type(i)
  BY <1>1, <1>4, <1>5 DEF Type, server
<1>6. CASE \E i \in Items : Record(i)
  <2>1. PICK i \in Items : Record(i)
    BY <1>6
  <2>2. typed[i] + 1 \in Values /\ [v |-> typed[i] + 1, deferred |-> FALSE] \in Row
    BY <1>1, <2>1 DEF Record, Values, Row
  <2> QED
    BY <1>1, <2>1, <2>2 DEF Record, server
<1>7. CASE Finish
  BY <1>1, <1>7 DEF Finish, server
<1>8. CASE \E k \in DOMAIN tasks : AFlush(k)
  <2>1. PICK k \in DOMAIN tasks : AFlush(k)
    BY <1>8
  <2>2. CASE Turn(k) \/ Send(k) \/ Lose(k) \/ Stop(k)
    BY <1>2, <2>2 DEF Turn, Send, Lose, Stop, given, server
  <2>3. CASE Serve(k)
    <3>1. tasks[k].cur.v \in Values
      BY TasksOf DEF Types, TypeOK, Task, Entry
    <3> QED
      BY <1>1, <2>3, <3>1 DEF Serve, given
  <2>4. CASE Settle(k)
    <3>1. disk' \in [Items -> Row]
      BY <1>1, <1>3, <2>4 DEF Settle, RemoveIfUnchanged
    <3> QED
      BY <1>1, <2>4, <3>1 DEF Settle, given, server
  <2>5. CASE Hold(k)
    <3> DEFINE i == tasks[k].cur.item
    <3>1. disk' = [disk EXCEPT ![i].deferred = disk[i].deferred \/ disk[i].v # 0]
      BY <2>5 DEF Hold, Held
    <3>2. i \in Items => [disk[i] EXCEPT !.deferred = disk[i].deferred \/ disk[i].v # 0] \in Row
      BY <1>1 DEF Row
    <3>3. disk' \in [Items -> Row]
      BY <1>1, <3>1, <3>2
    <3> QED
      BY <1>1, <2>5, <3>3 DEF Hold, given, server
  <2> QED
    BY <2>1, <2>2, <2>3, <2>4, <2>5 DEF AFlush
<1>9. CASE \E c \in Screens : SubmitStep(c)
  <2>1. disk' \in {disk, Cleared} /\ UNCHANGED <<given, stored>>
    BY <1>9 DEF SubmitStep, SubmitServe, SubmitLose, SubmitTaken, SubmitNotTaken, server
  <2>2. Cleared \in [Items -> Row]
    BY <1>3 DEF Cleared
  <2> QED
    BY <1>1, <2>1, <2>2 DEF given
<1>10. CASE Crash
  BY <1>1, <1>10 DEF Crash, server
<1>11. CASE \E k \in DOMAIN tasks : EndFlush(k)
  BY <1>2, <1>11 DEF EndFlush, given, server
<1>12. CASE Join \/ CloseSitting \/ TeacherHandsIn \/ NoticeClosed
  BY <1>2, <1>12 DEF Join, CloseSitting, TeacherHandsIn, NoticeClosed, given, server
<1> QED
  BY <1>5, <1>6, <1>7, <1>8, <1>9, <1>10, <1>11, <1>12, Nexts DEF Types

\* The items that have crossed are items.
LEMMA CrossedKept == ASSUME Types, Next PROVE crossed' \subseteq Items /\ crossed \subseteq crossed'
<1>1. CASE UNCHANGED crossed
  BY <1>1 DEF Types, TypeOK
<1>2. ASSUME NEW k \in DOMAIN tasks, Turn(k) PROVE crossed' \subseteq Items /\ crossed \subseteq crossed'
  BY <1>2 DEF Turn, Crossing, Rows, Types, TypeOK
<1> QED
  BY <1>1, <1>2, Nexts DEF Types, Join, Type, Record, Finish, AFlush, Send, Serve, Lose, Settle,
     Hold, Stop, EndFlush, SubmitStep, SubmitServe, SubmitLose, SubmitTaken, SubmitNotTaken,
     CloseSitting, TeacherHandsIn, NoticeClosed, Crash

\* The types are inductive.
LEMMA TypesKept == Types /\ [Next]_vars => Types'
<1>1. ASSUME Types, Next PROVE Types'
  BY <1>1, TasksKept, PlacesKept, ValuesKept, CrossedKept DEF Types, TypeOK
<1>2. ASSUME Types, UNCHANGED vars PROVE Types'
  BY <1>2 DEF Types, TypeOK, vars, given, server
<1> QED
  BY <1>1, <1>2

\* They hold before anything is typed.
LEMMA TypesInit == Init => Types
<1> SUFFICES ASSUME Init PROVE Types
  OBVIOUS
<1>1. NoRow \in Row /\ 0 \in Values /\ MaxScreens \in Nat /\ MaxTasks \in Nat
  BY SpoolAssumption DEF NoRow, Row, Values
<1>2. tasks \in Seq(Task) /\ Len(tasks) <= MaxTasks
  BY <1>1, EmptySeq DEF Init
<1>3. /\ revised \in [Screens -> SUBSET Items] /\ typed \in [Items -> Values] /\ stored \in [Items -> Values]
      /\ disk \in [Items -> Row]
  BY <1>1 DEF Init
<1> QED
  BY <1>1, <1>2, <1>3 DEF Init, Types, TypeOK, Hand

-----------------------------------------------------------------------------
(* What the flushes carry *)

\* The flushes of the list are flushes.
LEMMA TaskAt ==
  ASSUME Types
  PROVE  /\ tasks \in Seq(Task) /\ Len(tasks) \in Nat /\ DOMAIN tasks = 1..Len(tasks)
         /\ \A k \in DOMAIN tasks : tasks[k] \in Task
  BY TasksOf DEF Types, TypeOK

\* Values are numbers.
LEMMA ValueTypes ==
  ASSUME Types
  PROVE  \A i \in Items : /\ typed[i] \in Nat /\ stored[i] \in Nat
                          /\ disk[i].v \in Nat /\ disk[i].deferred \in BOOLEAN
  BY SpoolAssumption DEF Types, TypeOK, Values, Row

\* What a flush in flight knows stays so while the server stores nothing of
\* what it alone carries.
LEMMA FlyingStays ==
  ASSUME Types, Types', NEW t \in Task, Flying(t), crossed \subseteq crossed',
         \A i \in Items : i \in Carries(t) /\ i \notin crossed' => stored'[i] = stored[i],
         \A i \in Items : typed[i] <= typed'[i],
         attempt = "submitted" => attempt' = "submitted"
  PROVE  Flying(t)'
<1>1. ASSUME NEW e \in Entry, Fresh(e), e.item \in Carries(t) PROVE Fresh(e)'
  <2>1. e.v \in Nat /\ typed[e.item] \in Nat /\ typed'[e.item] \in Nat
    BY <1>1, SpoolAssumption DEF Fresh, Entry, Types, TypeOK, Values
  <2> QED
    BY <1>1, <2>1 DEF Fresh
<1>2. \A e \in t.todo \cup {t.cur} : e \in Entry /\ e.item \in Carries(t)
  BY DEF Task, Carries
<1>3. \A e \in t.todo : Fresh(e)' /\ (t.at \in OnTheWire => e.item # t.cur.item)
  BY <1>1, <1>2 DEF Flying
<1>4. t.at \in OnTheWire => Fresh(t.cur)'
  BY <1>1, <1>2 DEF Flying
<1>5. t.at = "stored" /\ t.cur.item \notin crossed' => stored'[t.cur.item] = t.cur.v
  BY <1>2 DEF Flying, OnTheWire, Fresh
<1> QED
  BY <1>3, <1>4, <1>5 DEF Flying

\* Flushes that wait join at the end, and the others stay as they are.
LEMMA SerialStays ==
  ASSUME Types, Types', Serial, UNCHANGED <<stored, crossed>>,
         \A i \in Items : typed[i] <= typed'[i],
         attempt = "submitted" => attempt' = "submitted",
         \A k \in DOMAIN tasks' :
           \/ k \in DOMAIN tasks /\ tasks'[k] = tasks[k]
           \/ k \notin DOMAIN tasks /\ Idle(tasks'[k])
  PROVE  Serial'
<1>1. /\ Len(tasks) \in Nat /\ DOMAIN tasks = 1..Len(tasks)
      /\ \A k \in DOMAIN tasks : tasks[k] \in Task
      /\ Len(tasks') \in Nat /\ DOMAIN tasks' = 1..Len(tasks')
  <2>1. tasks' \in Seq(Task)
    BY DEF Types, TypeOK
  <2>2. Len(tasks') \in Nat /\ DOMAIN tasks' = 1..Len(tasks')
    BY <2>1, LenProperties
  <2> QED
    BY <2>2, TaskAt
<1>2. Known'
  <2> SUFFICES ASSUME NEW k \in DOMAIN tasks' PROVE Flying(tasks[k])'
    BY DEF Known
  <2>1. CASE k \in DOMAIN tasks /\ tasks'[k] = tasks[k]
    <3>1. PICK t \in Task : t = tasks[k]
      BY <1>1, <2>1
    <3>2. Flying(t)
      BY <2>1, <3>1 DEF Serial, Known
    <3>3. Flying(t)'
      BY <3>2, FlyingStays
    <3> QED
      BY <2>1, <3>1, <3>3 DEF Flying, Fresh
  <2>2. CASE Idle(tasks'[k])
    BY <2>2 DEF Idle, Flying, OnTheWire
  <2> QED
    BY <2>1, <2>2
<1>3. InTurn'
  <2> SUFFICES ASSUME NEW k \in DOMAIN tasks', tasks'[k].at # "waiting",
                      NEW j \in DOMAIN tasks', j < k
               PROVE  tasks'[j].screen # tasks'[k].screen
    BY DEF InTurn
  <2>1. k \in DOMAIN tasks /\ tasks'[k] = tasks[k]
    BY DEF Idle
  <2>2. j \in DOMAIN tasks /\ tasks'[j] = tasks[j]
    BY <1>1, <2>1
  <2> QED
    BY <2>1, <2>2 DEF Serial, InTurn
<1>4. OneCarrier'
  <2> SUFFICES ASSUME NEW j \in DOMAIN tasks', NEW k \in DOMAIN tasks', j # k, NEW i \in Items,
                      i \in Carries(tasks'[j]), i \in Carries(tasks'[k])
               PROVE  i \in crossed
    BY DEF OneCarrier, Carries
  <2>1. \A t : Idle(t) => i \notin Carries(t)
    BY SpoolAssumption DEF Idle, Carries, NoEntry
  <2> QED
    BY <2>1 DEF Serial, OneCarrier
<1> QED
  BY <1>2, <1>3, <1>4 DEF Serial

\* A flush goes on, carrying nothing new but what has crossed.
LEMMA SerialMoves ==
  ASSUME Types, Types', Serial, NEW k \in DOMAIN tasks, NEW t \in Task, Becomes(k, t),
         crossed \subseteq crossed', UNCHANGED typed,
         attempt = "submitted" => attempt' = "submitted",
         \A j \in DOMAIN tasks : j < k => tasks[j].screen # tasks[k].screen,
         Flying(t)',
         \A j \in DOMAIN tasks \ {k} : \A i \in Items :
           i \in Carries(tasks[j]) /\ i \notin crossed' => stored'[i] = stored[i] /\ i \notin Carries(t)
  PROVE  Serial'
<1>1. /\ DOMAIN tasks' = DOMAIN tasks /\ tasks'[k] = t /\ t.screen = tasks[k].screen
      /\ \A j \in DOMAIN tasks \ {k} : tasks'[j] = tasks[j]
  BY Changed DEF Types, TypeOK, Becomes
<1>2. Known'
  <2> SUFFICES ASSUME NEW j \in DOMAIN tasks' PROVE Flying(tasks[j])'
    BY DEF Known
  <2>1. CASE j = k
    BY <1>1, <2>1 DEF Flying, Fresh
  <2>2. CASE j # k
    <3>1. PICK u \in Task : u = tasks[j]
      BY <1>1, TaskAt
    <3>2. Flying(u)
      BY <1>1, <3>1 DEF Serial, Known
    <3>3. \A i \in Items : i \in Carries(u) /\ i \notin crossed' => stored'[i] = stored[i]
      BY <1>1, <2>2, <3>1
    <3>4. \A i \in Items : typed[i] <= typed'[i]
      BY ValueTypes
    <3>5. Flying(u)'
      BY <3>2, <3>3, <3>4, FlyingStays
    <3> QED
      BY <1>1, <2>2, <3>1, <3>5 DEF Flying, Fresh
  <2> QED
    BY <2>1, <2>2
<1>3. InTurn'
  BY <1>1, TaskAt DEF Serial, InTurn
<1>4. OneCarrier'
  <2> SUFFICES ASSUME NEW i \in DOMAIN tasks, NEW j \in DOMAIN tasks, i # j, NEW x \in Items,
                      x \in Carries(tasks'[i]), x \in Carries(tasks'[j]), x \notin crossed'
               PROVE  FALSE
    BY <1>1 DEF OneCarrier, Carries
  <2> QED
    BY <1>1 DEF Serial, OneCarrier
<1> QED
  BY <1>2, <1>3, <1>4 DEF Serial

\* What the invariant says of values and hand-ins.
ValuesInv == TakenIsTaken /\ DiskIsLast /\ LeftIsHeld /\ NoAnswerLost

\* A step that leaves the values and the hand-ins alone.
LEMMA ValuesStay ==
  ASSUME ValuesInv, UNCHANGED <<typed, revised, disk, stored, finish>>, crossed \subseteq crossed',
         attempt = "submitted" => attempt' = "submitted", attempt' # attempt => attempt' = "submitted"
  PROVE  ValuesInv'
  BY DEF ValuesInv, TakenIsTaken, DiskIsLast, LeftIsHeld, NoAnswerLost

\* The steps that touch no flush and no value.
LEMMA QuietKept ==
  ASSUME Inv, Types',
         (\E i \in Items : Type(i)) \/ CloseSitting \/ TeacherHandsIn \/ NoticeClosed \/ UNCHANGED vars
  PROVE  Inv'
<1>1. /\ UNCHANGED <<typed, revised, disk, stored, crossed, finish, tasks>>
      /\ attempt = "submitted" => attempt' = "submitted"
      /\ attempt' # attempt => attempt' = "submitted"
  BY DEF Inv, Types, TypeOK, Type, CloseSitting, TeacherHandsIn, NoticeClosed, vars, given, server
<1>2. ValuesInv'
  BY <1>1, ValuesStay DEF Inv, ValuesInv
<1>3. Serial'
  <2>1. \A i \in Items : typed[i] <= typed'[i]
    BY <1>1, ValueTypes DEF Inv
  <2> QED
    BY <1>1, <2>1, SerialStays DEF Inv
<1> QED
  BY <1>2, <1>3 DEF Inv, ValuesInv

\* A value reaches the disk: it is the last one, and given since any Finish.
LEMMA RecordKept ==
  ASSUME Inv, Types', NEW i \in Items, Record(i) PROVE Inv'
<1>1. /\ typed' = [typed EXCEPT ![i] = typed[i] + 1]
      /\ disk' = [disk EXCEPT ![i] = [v |-> typed[i] + 1, deferred |-> FALSE]]
      /\ revised' = [c \in Screens |-> revised[c] \cup {i}]
      /\ tasks' = Append(tasks, NewTask("record"))
      /\ UNCHANGED <<screen, crossed, finish, stored, attempt>>
  BY DEF Record, Ask, server
<1>2. /\ \A j \in Items \ {i} : typed'[j] = typed[j] /\ disk'[j] = disk[j]
      /\ typed'[i] = typed[i] + 1 /\ disk'[i].v = typed[i] + 1
  BY <1>1 DEF Inv, Types, TypeOK
<1>3. \A j \in Items : /\ typed[j] \in Nat /\ stored[j] \in Nat
                       /\ typed[j] <= typed'[j]
  BY <1>2, ValueTypes DEF Inv
<1>4. ValuesInv'
  <2>1. TakenIsTaken'
    BY <1>1 DEF Inv, TakenIsTaken
  <2>2. DiskIsLast'
    BY <1>1, <1>2, <1>3 DEF Inv, DiskIsLast
  <2>3. LeftIsHeld'
    BY <1>1, <1>2 DEF Inv, LeftIsHeld
  <2>4. NoAnswerLost'
    BY <1>1, <1>2 DEF Inv, NoAnswerLost
  <2> QED
    BY <2>1, <2>2, <2>3, <2>4 DEF ValuesInv
<1>5. Serial'
  <2>1. screen \in Screens
    BY SpoolAssumption DEF Inv, Types, TypeOK, Record, Screens
  <2>2. NewTask("record") \in Task /\ Idle(NewTask("record"))
    BY <2>1, NewTaskType
  <2>3. tasks \in Seq(Task) /\ Len(tasks) \in Nat /\ DOMAIN tasks = 1..Len(tasks)
    BY TaskAt DEF Inv
  <2>4. \A k \in DOMAIN tasks' : \/ k \in DOMAIN tasks /\ tasks'[k] = tasks[k]
                                 \/ k \notin DOMAIN tasks /\ Idle(tasks'[k])
    BY <1>1, <2>2, <2>3, Asked
  <2> QED
    BY <1>1, <1>3, <2>4, SerialStays DEF Inv
<1> QED
  BY <1>4, <1>5 DEF Inv, ValuesInv

\* Finish, and a screen that opens: a flush more, and nothing sent or stored.
LEMMA AskKept ==
  ASSUME Inv, Types', Finish \/ Join PROVE Inv'
<1>1. UNCHANGED <<typed, disk, crossed, stored, attempt>>
  BY DEF Finish, Join, given, server
<1>2. \A j \in Items : typed[j] <= typed'[j]
  BY <1>1, ValueTypes DEF Inv
<1>3. ValuesInv'
  <2>1. DiskIsLast' /\ NoAnswerLost'
    BY <1>1 DEF Inv, DiskIsLast, NoAnswerLost
  <2>2. \A c \in Screens : \/ finish'[c] = finish[c] /\ revised'[c] = revised[c]
                           \/ finish'[c] = "flushing"
    BY DEF Inv, Types, TypeOK, Finish, Join, given
  <2>3. TakenIsTaken' /\ LeftIsHeld'
    BY <1>1, <2>2 DEF Inv, TakenIsTaken, LeftIsHeld
  <2> QED
    BY <2>1, <2>3 DEF ValuesInv
<1>4. PICK t \in Task : tasks' = Append(tasks, t) /\ Idle(t)
  <2>1. CASE Finish
    <3>1. screen \in Screens
      BY <2>1, SpoolAssumption DEF Inv, Types, TypeOK, Finish, Screens
    <3> QED
      BY <2>1, <3>1, NewTaskType DEF Finish, Ask
  <2>2. CASE Join
    <3> DEFINE t == [NewTask("retry") EXCEPT !.screen = screen + 1]
    <3>1. screen + 1 \in Screens
      BY <2>2, SpoolAssumption DEF Inv, Types, TypeOK, Join, Screens
    <3>2. NewTask("retry") \in
            [screen : 0..MaxScreens, kind : {"record", "finish", "retry"},
             at : {"waiting", "ready", "out", "stored", "closed", "refused", "failed"},
             todo : SUBSET Entry, cur : Entry, sawClosed : BOOLEAN]
      BY SpoolAssumption DEF Inv, Types, TypeOK, NewTask, NoEntry, Entry, Values
    <3>3. t \in Task
      BY <3>1, <3>2 DEF Task
    <3>4. Idle(t)
      BY DEF Idle, NewTask
    <3> QED
      BY <2>2, <3>3, <3>4 DEF Join
  <2> QED
    BY <2>1, <2>2
<1>5. Serial'
  <2>1. tasks \in Seq(Task) /\ Len(tasks) \in Nat /\ DOMAIN tasks = 1..Len(tasks)
    BY TaskAt DEF Inv
  <2>2. \A k \in DOMAIN tasks' : \/ k \in DOMAIN tasks /\ tasks'[k] = tasks[k]
                                 \/ k \notin DOMAIN tasks /\ Idle(tasks'[k])
    BY <1>4, <2>1, Asked
  <2> QED
    BY <1>1, <1>2, <2>2, SerialStays DEF Inv
<1> QED
  BY <1>3, <1>5 DEF Inv, ValuesInv

\* Only the disk is left.
LEMMA CrashKept ==
  ASSUME Inv, Types', Crash PROVE Inv'
<1>1. /\ tasks' = <<>> /\ finish' = [c \in Screens |-> "none"]
      /\ UNCHANGED <<typed, revised, disk, crossed, stored, attempt>>
  BY DEF Crash, server
<1>2. DOMAIN tasks' = {}
  BY <1>1, EmptySeq
<1>3. Serial'
  BY <1>2 DEF Serial, Known, InTurn, OneCarrier
<1>4. ValuesInv'
  BY <1>1 DEF Inv, ValuesInv, TakenIsTaken, DiskIsLast, LeftIsHeld, NoAnswerLost
<1> QED
  BY <1>3, <1>4 DEF Inv, ValuesInv

\* The hand-in: it clears the disk once the server has taken it.
LEMMA SubmitKept ==
  ASSUME Inv, Types', NEW c \in Screens, SubmitStep(c) PROVE Inv'
<1>1. /\ UNCHANGED <<typed, revised, crossed, stored, tasks>>
      /\ attempt = "submitted" => attempt' = "submitted"
  BY DEF SubmitStep, SubmitServe, SubmitLose, SubmitTaken, SubmitNotTaken, given, server
<1>2. PICK how \in {"taken", "refused", "failed", "done", "none"} :
        /\ finish' = [finish EXCEPT ![c] = how]
        /\ how \in {"taken", "done"} => attempt' = "submitted"
        /\ disk' = disk \/ (disk' = Cleared /\ attempt' = "submitted")
        /\ attempt' # attempt => attempt' = "submitted"
  <2>1. CASE SubmitServe(c)
    BY <2>1 DEF SubmitServe
  <2>2. CASE SubmitLose(c)
    BY <2>2 DEF SubmitLose, server
  <2>3. CASE SubmitTaken(c)
    BY <2>3 DEF SubmitTaken, server, Inv, TakenIsTaken
  <2>4. CASE SubmitNotTaken(c)
    BY <2>4 DEF SubmitNotTaken, server
  <2> QED
    BY <2>1, <2>2, <2>3, <2>4 DEF SubmitStep
<1>3. \A d \in Screens : finish'[d] = IF d = c THEN how ELSE finish[d]
  BY <1>2 DEF Inv, Types, TypeOK
<1>4. Serial'
  <2>1. \A i \in Items : typed[i] <= typed'[i]
    BY <1>1, ValueTypes DEF Inv
  <2> QED
    BY <1>1, <2>1, SerialStays DEF Inv
<1>5. TakenIsTaken'
  BY <1>1, <1>2, <1>3 DEF Inv, TakenIsTaken
<1>6. \A i \in Items : disk'[i] = disk[i] \/ (disk'[i].v = 0 /\ attempt' = "submitted")
  BY <1>2 DEF Cleared, NoRow
<1>7. DiskIsLast'
  BY <1>1, <1>6 DEF Inv, DiskIsLast
<1>8. LeftIsHeld'
  BY <1>1, <1>3, <1>6 DEF Inv, LeftIsHeld
<1>9. NoAnswerLost'
  BY <1>1, <1>2, <1>6 DEF Inv, NoAnswerLost
<1> QED
  BY <1>4, <1>5, <1>7, <1>8, <1>9 DEF Inv

\* What the flush that takes a step is: the first of its screen, and no other
\* flush carries what it alone may store.
LEMMA Steps ==
  ASSUME Inv, NEW k \in DOMAIN tasks, AFlush(k)
  PROVE  /\ tasks[k] \in Task /\ Flying(tasks[k])
         /\ \A j \in DOMAIN tasks : j < k => tasks[j].screen # tasks[k].screen
         /\ \A j \in DOMAIN tasks \ {k} : \A i \in Items :
              i \in Carries(tasks[j]) /\ i \in Carries(tasks[k]) => i \in crossed
<1>1. tasks[k] \in Task /\ DOMAIN tasks = 1..Len(tasks) /\ Len(tasks) \in Nat
  BY TaskAt DEF Inv
<1>2. CASE Turn(k)
  BY <1>1, <1>2 DEF Turn, MayTurn, Inv, Serial, Known, OneCarrier
<1>3. CASE ~Turn(k)
  <2>1. tasks[k].at # "waiting"
    BY <1>3 DEF AFlush, Send, Serve, Lose, Settle, Hold, Stop
  <2> QED
    BY <1>1, <2>1 DEF Inv, Serial, Known, InTurn, OneCarrier
<1> QED
  BY <1>2, <1>3

\* A flush whose turn comes reads the last values, and what another screen
\* carries of them has crossed.
LEMMA TurnKept ==
  ASSUME Inv, Types', NEW k \in DOMAIN tasks, Turn(k) PROVE Inv'
<1>1. /\ UNCHANGED <<typed, revised, disk, stored, finish, attempt>>
      /\ crossed' = crossed \cup Crossing(k)
  BY DEF Turn, given, server
<1>2. ValuesInv'
  BY <1>1, ValuesStay DEF Inv, ValuesInv
<1>3. /\ tasks[k] \in Task /\ Flying(tasks[k]) /\ tasks[k].at = "waiting"
      /\ \A j \in DOMAIN tasks : j < k => tasks[j].screen # tasks[k].screen
  BY Steps DEF AFlush, Turn
<1> DEFINE held == tasks[k].kind = "retry"
<1>4. PICK t \in Task :
        Becomes(k, t) /\ t.at = "ready" /\ t.cur = tasks[k].cur /\ t.todo = Entries(held)
  BY FlushMoves DEF Inv, Types
<1>5. t.cur = NoEntry
  BY <1>3, <1>4 DEF Flying, OnTheWire
<1>6. Flying(t)'
  <2>1. /\ \A e \in t.todo : e.item \in Items /\ e.v = disk[e.item].v /\ e.v # 0
        /\ \A e, f \in t.todo : e.item = f.item => e = f
    BY <1>4, EntriesType DEF Inv, Types
  <2>2. \A e \in t.todo : Fresh(e)'
    BY <1>1, <2>1, ValueTypes DEF Inv, DiskIsLast, Fresh
  <2> QED
    BY <1>4, <1>5, <2>1, <2>2 DEF Flying, OnTheWire
<1>7. ASSUME NEW j \in DOMAIN tasks \ {k}, NEW i \in Items,
             i \in Carries(tasks[j]), i \notin crossed', i \in Carries(t)
      PROVE  FALSE
  <2>1. i \in Rows(held)
    BY <1>4, <1>5, <1>7, SpoolAssumption DEF Carries, Entries, Rows, NoEntry
  <2>2. tasks[j].screen = tasks[k].screen
    BY <1>1, <1>7, <2>1 DEF Crossing
  <2>3. j > k
    BY <1>3, <1>7, <2>2, TaskAt DEF Inv
  <2>4. tasks[j].at = "waiting"
    BY <1>7, <2>2, <2>3 DEF Inv, Serial, InTurn
  <2>5. tasks[j].todo = {} /\ tasks[j].cur = NoEntry
    BY <1>7, <2>4 DEF Inv, Serial, Known, Flying, OnTheWire
  <2> QED
    BY <1>7, <2>5, SpoolAssumption DEF Carries, NoEntry
<1>8. Serial'
  BY <1>1, <1>3, <1>4, <1>6, <1>7, SerialMoves DEF Inv
<1> QED
  BY <1>2, <1>8 DEF Inv, ValuesInv

\* The steps on the Mac's side and the wire's that leave the values alone.
LEMMA WireKept ==
  ASSUME Inv, Types', NEW k \in DOMAIN tasks, Send(k) \/ Lose(k) \/ Stop(k)
  PROVE  Inv'
<1>1. UNCHANGED <<typed, revised, disk, stored, crossed, finish, attempt>>
  BY DEF Send, Lose, Stop, given, server
<1>2. ValuesInv'
  BY <1>1, ValuesStay DEF Inv, ValuesInv
<1>3. /\ tasks[k] \in Task /\ Flying(tasks[k])
      /\ \A j \in DOMAIN tasks : j < k => tasks[j].screen # tasks[k].screen
      /\ \A j \in DOMAIN tasks \ {k} : \A i \in Items :
           i \in Carries(tasks[j]) /\ i \in Carries(tasks[k]) => i \in crossed
  BY Steps DEF AFlush
<1>4. PICK t \in Task : /\ Becomes(k, t) /\ Flying(t)
                        /\ \A i \in Items : i \in Carries(t) => i \in Carries(tasks[k])
  <2>1. CASE Send(k)
    <3>1. PICK t \in Task : /\ Becomes(k, t) /\ t.at = "out"
                           /\ t.cur \in tasks[k].todo /\ t.todo = tasks[k].todo \ {t.cur}
      BY <2>1, FlushMoves DEF Inv, Types
    <3>2. Flying(t)
      BY <1>3, <2>1, <3>1 DEF Flying, Send, OnTheWire
    <3>3. \A i \in Items : i \in Carries(t) => i \in Carries(tasks[k])
      BY <3>1 DEF Carries
    <3> QED
      BY <3>1, <3>2, <3>3
  <2>2. CASE Lose(k)
    <3>1. PICK t \in Task :
            Becomes(k, t) /\ t.at = "failed" /\ t.cur = tasks[k].cur /\ t.todo = tasks[k].todo
      BY <2>2, FlushMoves DEF Lose, Inv, Types
    <3>2. Flying(t)
      BY <1>3, <2>2, <3>1 DEF Flying, Lose, OnTheWire
    <3>3. \A i \in Items : i \in Carries(t) => i \in Carries(tasks[k])
      BY <3>1 DEF Carries
    <3> QED
      BY <3>1, <3>2, <3>3
  <2>3. CASE Stop(k)
    <3>1. PICK t \in Task : Becomes(k, t) /\ t.at = "ready" /\ t.cur = NoEntry /\ t.todo = {}
      BY <2>3, FlushMoves DEF Inv, Types
    <3>2. Flying(t)
      BY <3>1 DEF Flying, OnTheWire
    <3>3. \A i \in Items : i \notin Carries(t)
      BY <3>1, SpoolAssumption DEF Carries, NoEntry
    <3> QED
      BY <3>1, <3>2, <3>3
  <2> QED
    BY <2>1, <2>2, <2>3
<1>5. Flying(t)'
  BY <1>1, <1>4 DEF Flying, Fresh
<1>6. Serial'
  BY <1>1, <1>3, <1>4, <1>5, SerialMoves DEF Inv
<1> QED
  BY <1>2, <1>6 DEF Inv, ValuesInv

\* The server answers: unless another screen carried it too, what it stores is
\* the only entry there is of the item.
LEMMA ServeKept ==
  ASSUME Inv, Types', NEW k \in DOMAIN tasks, Serve(k) PROVE Inv'
<1> DEFINE e == tasks[k].cur
<1>1. /\ tasks[k].at = "out"
      /\ UNCHANGED <<typed, revised, disk, crossed, finish, attempt>>
  BY DEF Serve, given
<1>2. /\ tasks[k] \in Task /\ Flying(tasks[k])
      /\ \A j \in DOMAIN tasks : j < k => tasks[j].screen # tasks[k].screen
      /\ \A j \in DOMAIN tasks \ {k} : \A i \in Items :
           i \in Carries(tasks[j]) /\ i \in Carries(tasks[k]) => i \in crossed
  BY Steps DEF AFlush
<1>3. /\ e.item \in Items /\ e.v # 0 /\ e.v \in Nat /\ e.v <= typed[e.item]
      /\ e.item \notin crossed => stored[e.item] <= e.v
      /\ \A f \in tasks[k].todo : f.item # e.item
      /\ e.item \in Carries(tasks[k])
  <2>1. e.v \in Nat
    BY <1>2, SpoolAssumption DEF Task, Entry, Values
  <2> QED
    BY <1>1, <1>2, <2>1 DEF Flying, Fresh, OnTheWire, Carries
<1>4. PICK at \in {"stored", "closed", "refused"} :
        /\ tasks' = [tasks EXCEPT ![k].at = at]
        /\ stored' = IF at = "stored" THEN [stored EXCEPT ![e.item] = e.v] ELSE stored
        /\ at = "refused" => attempt = "submitted"
  BY DEF Serve
<1>5. \A i \in Items : stored'[i] = IF at = "stored" /\ i = e.item THEN e.v ELSE stored[i]
  BY <1>3, <1>4 DEF Inv, Types, TypeOK
<1> HIDE DEF e
<1>6. ValuesInv'
  <2>1. TakenIsTaken' /\ LeftIsHeld'
    BY <1>1 DEF Inv, TakenIsTaken, LeftIsHeld
  <2>2. DiskIsLast'
    BY <1>1, <1>3, <1>5 DEF Inv, DiskIsLast
  <2>3. NoAnswerLost'
    <3> SUFFICES ASSUME attempt = "in_progress", NEW i \in Items \ crossed
                 PROVE  typed[i] \in {stored'[i], disk[i].v}
      BY <1>1 DEF NoAnswerLost
    <3>1. typed[i] \in {stored[i], disk[i].v}
      BY DEF Inv, NoAnswerLost
    <3>2. typed[i] \in Nat /\ stored[i] \in Nat
      BY ValueTypes DEF Inv
    <3> QED
      BY <1>3, <1>5, <3>1, <3>2
  <2> QED
    BY <2>1, <2>2, <2>3 DEF ValuesInv
<1>7. PICK t \in Task : Becomes(k, t) /\ t.at = at /\ t.cur = e /\ t.todo = tasks[k].todo
  <2>1. TypeOK /\ at \in {"stored", "closed", "refused", "failed"} /\ e = tasks[k].cur
    BY DEF Inv, Types, e
  <2>2. tasks' = [tasks EXCEPT ![k].at = at]
    BY <1>4
  <2>3. \A how \in {"stored", "closed", "refused", "failed"} :
          tasks' = [tasks EXCEPT ![k].at = how] => \E t \in Task :
            Becomes(k, t) /\ t.at = how /\ t.cur = tasks[k].cur /\ t.todo = tasks[k].todo
    BY <2>1, FlushMoves
  <2> QED
    BY <2>1, <2>2, <2>3
<1>8. Flying(t)'
  <2>1. \A f \in t.todo : Fresh(f)' /\ f.item # e.item
    BY <1>1, <1>2, <1>3, <1>5, <1>7 DEF Flying, Fresh
  <2>2. \A f, g \in t.todo : f.item = g.item => f = g
    BY <1>2, <1>7 DEF Flying
  <2>3. Fresh(t.cur)'
    BY <1>1, <1>3, <1>5, <1>7 DEF Fresh
  <2>4. at = "stored" => stored'[e.item] = e.v
    BY <1>3, <1>5
  <2>5. at = "refused" => attempt' = "submitted"
    BY <1>1, <1>4
  <2> QED
    BY <1>7, <2>1, <2>2, <2>3, <2>4, <2>5 DEF Flying, OnTheWire
<1>9. ASSUME NEW j \in DOMAIN tasks \ {k}, NEW i \in Items,
             i \in Carries(tasks[j]), i \notin crossed
      PROVE  stored'[i] = stored[i] /\ i \notin Carries(t)
  <2>1. i \notin Carries(tasks[k])
    BY <1>2, <1>9
  <2>2. Carries(t) = Carries(tasks[k])
    BY <1>7 DEF Carries, e
  <2> QED
    BY <1>3, <1>5, <2>1, <2>2
<1>10. Serial'
  BY <1>1, <1>2, <1>7, <1>8, <1>9, SerialMoves DEF Inv
<1> QED
  BY <1>6, <1>10 DEF Inv, ValuesInv

\* A row leaves the disk when what was sent of it is stored, or when the
\* attempt is handed in.
LEMMA SettleKept ==
  ASSUME Inv, Types', NEW k \in DOMAIN tasks, Settle(k) \/ Hold(k) PROVE Inv'
<1> DEFINE e == tasks[k].cur
<1>1. /\ tasks[k].at \in {"stored", "closed", "refused"}
      /\ UNCHANGED <<typed, revised, stored, crossed, finish, attempt>>
  BY DEF Settle, Hold, given, server
<1>2. /\ tasks[k] \in Task /\ Flying(tasks[k])
      /\ \A j \in DOMAIN tasks : j < k => tasks[j].screen # tasks[k].screen
      /\ \A j \in DOMAIN tasks \ {k} : \A i \in Items :
           i \in Carries(tasks[j]) /\ i \in Carries(tasks[k]) => i \in crossed
  BY Steps DEF AFlush
<1>3. /\ e.item \in Items
      /\ tasks[k].at = "stored" /\ e.item \notin crossed => stored[e.item] = e.v
      /\ tasks[k].at = "refused" => attempt = "submitted"
  BY <1>1, <1>2 DEF Flying, Fresh, OnTheWire
<1>4. \A i \in Items :
        \/ disk'[i].v = disk[i].v /\ (disk[i].deferred => disk'[i].deferred)
        \/ /\ disk'[i].v = 0 /\ i = e.item /\ disk[i].v = e.v
           /\ tasks[k].at \in {"stored", "refused"}
  <2>1. CASE Settle(k)
    <3>1. \A i \in Items : disk'[i] = IF i = e.item /\ disk[i].v = e.v THEN NoRow ELSE disk[i]
      BY <1>3, <2>1 DEF Settle, RemoveIfUnchanged, Inv, Types, TypeOK
    <3> QED
      BY <2>1, <3>1 DEF Settle, NoRow
  <2>2. CASE Hold(k)
    <3> SUFFICES ASSUME NEW i \in Items
                 PROVE  disk'[i].v = disk[i].v /\ (disk[i].deferred => disk'[i].deferred)
      OBVIOUS
    <3>1. disk' = [disk EXCEPT ![e.item].deferred = disk[e.item].deferred \/ disk[e.item].v # 0]
      BY <2>2 DEF Hold, Held
    <3>2. disk \in [Items -> Row] /\ disk[i] \in [v : Values, deferred : BOOLEAN]
      BY DEF Inv, Types, TypeOK, Row
    <3>3. CASE i # e.item
      BY <3>1, <3>2, <3>3
    <3>4. CASE i = e.item
      <4>1. disk'[i] = [disk[i] EXCEPT !.deferred = disk[i].deferred \/ disk[i].v # 0]
        BY <3>1, <3>2, <3>4
      <4>2. disk'[i].deferred = (disk[i].deferred \/ disk[i].v # 0) /\ disk'[i].v = disk[i].v
        BY <3>2, <4>1
      <4> QED
        BY <4>2
    <3> QED
      BY <3>3, <3>4
  <2> QED
    BY <2>1, <2>2
<1> HIDE DEF e
<1>5. ValuesInv'
  <2>1. TakenIsTaken'
    BY <1>1 DEF Inv, TakenIsTaken
  <2>2. LeftIsHeld'
    BY <1>1, <1>4 DEF Inv, LeftIsHeld
  <2>3. DiskIsLast'
    BY <1>1, <1>4 DEF Inv, DiskIsLast
  <2>4. NoAnswerLost'
    <3> SUFFICES ASSUME attempt = "in_progress", NEW i \in Items \ crossed
                 PROVE  typed[i] \in {stored[i], disk'[i].v}
      BY <1>1 DEF NoAnswerLost
    <3>1. typed[i] \in {stored[i], disk[i].v}
      BY DEF Inv, NoAnswerLost
    <3>2. CASE disk'[i].v = disk[i].v
      BY <3>1, <3>2
    <3>3. CASE i = e.item /\ disk[i].v = e.v /\ tasks[k].at \in {"stored", "refused"}
      <4>1. stored[i] = e.v
        BY <1>3, <3>3
      <4> QED
        BY <3>1, <3>3, <4>1
    <3> QED
      BY <1>4, <3>2, <3>3
  <2> QED
    BY <2>1, <2>2, <2>3, <2>4 DEF ValuesInv
<1>6. PICK t \in Task : Becomes(k, t) /\ t.at = "ready" /\ t.cur = NoEntry /\ t.todo = tasks[k].todo
  BY FlushMoves DEF Inv, Types
<1>7. Flying(t)'
  BY <1>1, <1>2, <1>6 DEF Flying, Fresh, OnTheWire
<1>8. \A i \in Items : i \in Carries(t) => i \in Carries(tasks[k])
  BY <1>6, SpoolAssumption DEF Carries, NoEntry
<1>9. Serial'
  BY <1>1, <1>2, <1>6, <1>7, <1>8, SerialMoves DEF Inv
<1> QED
  BY <1>5, <1>9 DEF Inv, ValuesInv

\* A flush returns: the next of its screen has its turn, and a hand-in goes on
\* with no row but held ones.
LEMMA EndFlushKept ==
  ASSUME Inv, Types', NEW k \in DOMAIN tasks, EndFlush(k) PROVE Inv'
<1>1. /\ tasks' = Without(k)
      /\ UNCHANGED <<typed, revised, disk, stored, crossed, attempt>>
  BY DEF EndFlush, given, server
<1>2. PICK how \in {"submitting", "none"} :
        /\ finish' = finish \/ finish' = [finish EXCEPT ![tasks[k].screen] = how]
        /\ how = "submitting" => Rows(FALSE) = {}
  BY DEF EndFlush, Remaining
<1>3. \A c \in Screens : finish'[c] = finish[c] \/ finish'[c] = how
  BY <1>2 DEF Inv, Types, TypeOK
<1>4. ValuesInv'
  <2>1. TakenIsTaken'
    BY <1>1, <1>3 DEF Inv, TakenIsTaken
  <2>2. DiskIsLast' /\ NoAnswerLost'
    BY <1>1 DEF Inv, DiskIsLast, NoAnswerLost
  <2>3. LeftIsHeld'
    <3> SUFFICES ASSUME NEW c \in Screens, finish'[c] = "submitting",
                        NEW i \in Items \ revised[c], disk[i].v # 0
                 PROVE  disk[i].deferred
      BY <1>1 DEF LeftIsHeld
    <3>1. CASE finish[c] = "submitting"
      BY <3>1 DEF Inv, LeftIsHeld
    <3>2. CASE finish[c] # "submitting"
      <4>1. Rows(FALSE) = {}
        BY <1>2, <1>3, <3>2
      <4>2. disk[i].deferred # FALSE
        BY <4>1 DEF Rows
      <4>3. disk[i].deferred \in BOOLEAN
        BY ValueTypes DEF Inv
      <4> QED
        BY <4>2, <4>3
    <3> QED
      BY <3>1, <3>2
  <2> QED
    BY <2>1, <2>2, <2>3 DEF ValuesInv
<1> DEFINE from(j) == IF j < k THEN j ELSE j + 1
<1>5. \A j \in DOMAIN tasks' : from(j) \in DOMAIN tasks /\ tasks'[j] = tasks[from(j)]
  <2>1. /\ tasks \in Seq(Task) /\ Len(tasks) \in Nat /\ DOMAIN tasks = 1..Len(tasks)
    BY TaskAt DEF Inv
  <2>2. /\ DOMAIN tasks' = 1..(Len(tasks) - 1)
        /\ \A j \in 1..(Len(tasks) - 1) : tasks'[j] = IF j < k THEN tasks[j] ELSE tasks[j + 1]
    BY <1>1, <2>1, Returned
  <2> QED
    BY <2>1, <2>2
<1>6. \A j \in DOMAIN tasks' : j \in Nat
  <2>1. tasks' \in Seq(Task)
    BY DEF Types, TypeOK
  <2>2. DOMAIN tasks' = 1..Len(tasks') /\ Len(tasks') \in Nat
    BY <2>1, LenProperties
  <2> QED
    BY <2>2
<1>7. k \in Nat
  BY TaskAt DEF Inv
<1>8. \A i, j \in DOMAIN tasks' : (i < j => from(i) < from(j)) /\ (i # j => from(i) # from(j))
  BY <1>6, <1>7
<1> HIDE DEF from
<1>9. Known'
  BY <1>1, <1>5 DEF Inv, Serial, Known, Flying, Fresh
<1>10. InTurn'
  <2> SUFFICES ASSUME NEW j \in DOMAIN tasks', tasks'[j].at # "waiting",
                      NEW i \in DOMAIN tasks', i < j
               PROVE  tasks'[i].screen # tasks'[j].screen
    BY DEF InTurn
  <2>1. /\ from(i) \in DOMAIN tasks /\ tasks'[i] = tasks[from(i)]
        /\ from(j) \in DOMAIN tasks /\ tasks'[j] = tasks[from(j)]
        /\ from(i) < from(j)
    BY <1>5, <1>8
  <2>2. tasks[from(i)].screen # tasks[from(j)].screen
    BY <2>1 DEF Inv, Serial, InTurn
  <2> QED
    BY <2>1, <2>2
<1>11. OneCarrier'
  <2> SUFFICES ASSUME NEW i \in DOMAIN tasks', NEW j \in DOMAIN tasks', i # j, NEW x \in Items,
                      x \in Carries(tasks'[i]), x \in Carries(tasks'[j])
               PROVE  x \in crossed
    BY <1>1 DEF OneCarrier, Carries
  <2>1. /\ from(i) \in DOMAIN tasks /\ tasks'[i] = tasks[from(i)]
        /\ from(j) \in DOMAIN tasks /\ tasks'[j] = tasks[from(j)]
        /\ from(i) # from(j)
    BY <1>5, <1>8
  <2>2. x \in Carries(tasks[from(i)]) /\ x \in Carries(tasks[from(j)])
    BY <2>1
  <2> QED
    BY <2>1, <2>2 DEF Inv, Serial, OneCarrier
<1> QED
  BY <1>4, <1>9, <1>10, <1>11 DEF Inv, ValuesInv, Serial

-----------------------------------------------------------------------------
(* The theorems *)

\* The spool starts with nothing in it.
LEMMA InitInv == Init => Inv
<1> SUFFICES ASSUME Init PROVE Inv
  OBVIOUS
<1>1. Types
  BY TypesInit
<1>2. DOMAIN tasks = {}
  BY EmptySeq DEF Init
<1>3. Serial
  BY <1>2 DEF Serial, Known, InTurn, OneCarrier
<1>4. TakenIsTaken /\ LeftIsHeld
  BY DEF Init, TakenIsTaken, LeftIsHeld
<1>5. \A i \in Items : typed[i] = 0 /\ stored[i] = 0 /\ disk[i].v = 0
  BY DEF Init, NoRow
<1> QED
  BY <1>1, <1>3, <1>4, <1>5 DEF Inv, DiskIsLast, NoAnswerLost

\* The invariant is inductive.
LEMMA InvStep == Inv /\ [Next]_vars => Inv'
<1> SUFFICES ASSUME Inv, [Next]_vars PROVE Inv'
  OBVIOUS
<1>1. Types'
  BY TypesKept DEF Inv
<1>2. CASE UNCHANGED vars
  BY <1>1, <1>2, QuietKept
<1>3. CASE Next
  <2>1. TypeOK
    BY DEF Inv, Types
  <2>2. CASE Join \/ Finish
    BY <1>1, <2>2, AskKept
  <2>3. CASE \E i \in Items : Type(i) \/ Record(i)
    BY <1>1, <2>3, QuietKept, RecordKept
  <2>4. CASE \E k \in DOMAIN tasks : AFlush(k) \/ EndFlush(k)
    BY <1>1, <2>4, TurnKept, WireKept, ServeKept, SettleKept, EndFlushKept DEF AFlush
  <2>5. CASE \E c \in Screens : SubmitStep(c)
    BY <1>1, <2>5, SubmitKept
  <2>6. CASE CloseSitting \/ TeacherHandsIn \/ NoticeClosed
    BY <1>1, <2>6, QuietKept
  <2>7. CASE Crash
    BY <1>1, <2>7, CrashKept
  <2> QED
    BY <1>3, <2>1, <2>2, <2>3, <2>4, <2>5, <2>6, <2>7, Nexts
<1> QED
  BY <1>2, <1>3

\* The variables keep the types of the code's state.
THEOREM SpoolTypes == Spec => []TypeOK
<1>1. Types => TypeOK
  BY DEF Types
<1> QED
  BY <1>1, TypesInit, TypesKept, PTL DEF Spec

\* Every reachable state satisfies the invariant, whatever the screens' flushes
\* overlap with.
THEOREM SpoolInvariant == Spec => []Inv
  BY InitInv, InvStep, PTL DEF Spec

\* Until the attempt is handed in, what a student gave last is on the server or
\* on the Mac's disk, for every item that no two screens' flushes carried at
\* once.
THEOREM NothingLost == Spec => []NoAnswerLost
<1>1. Inv => NoAnswerLost
  BY DEF Inv
<1> QED
  BY <1>1, SpoolInvariant, PTL

\* The server's copy of such an item never goes back to an older value: what
\* is stored is the one entry of its item in flight, no older than the copy.
THEOREM NeverBack == Spec => NeverGoesBack
<1>1. Inv /\ [Next]_vars => [\A i \in Items \ crossed : stored'[i] >= stored[i]]_vars
  <2> SUFFICES ASSUME Inv, Next PROVE \A i \in Items \ crossed : stored'[i] >= stored[i]
    OBVIOUS
  <2>1. \A i \in Items : stored[i] \in Nat
    BY ValueTypes DEF Inv
  <2>2. CASE \E k \in DOMAIN tasks : Serve(k)
    <3>1. PICK k \in DOMAIN tasks : Serve(k)
      BY <2>2
    <3>2. tasks[k].at = "out" /\ tasks[k] \in Task /\ Flying(tasks[k])
      BY <3>1, Steps DEF AFlush, Serve
    <3>3. /\ tasks[k].cur.item \in Items /\ tasks[k].cur.v \in Nat
          /\ tasks[k].cur.item \notin crossed => stored[tasks[k].cur.item] <= tasks[k].cur.v
      BY <3>2, SpoolAssumption DEF Flying, Fresh, OnTheWire, Task, Entry, Values
    <3>4. stored' \in {stored, [stored EXCEPT ![tasks[k].cur.item] = tasks[k].cur.v]}
      BY <3>1 DEF Serve
    <3>5. \A i \in Items : \/ stored'[i] = stored[i]
                           \/ i = tasks[k].cur.item /\ stored'[i] = tasks[k].cur.v
      BY <3>4 DEF Inv, Types, TypeOK
    <3> QED
      BY <2>1, <3>3, <3>5
  <2>3. CASE UNCHANGED stored
    BY <2>1, <2>3
  <2> QED
    BY <2>2, <2>3, Nexts DEF Inv, Types, Join, Type, Record, Finish, AFlush, Turn, Send, Lose,
       Settle, Hold, Stop, EndFlush, SubmitStep, SubmitServe, SubmitLose, SubmitTaken,
       SubmitNotTaken, CloseSitting, TeacherHandsIn, NoticeClosed, Crash, server
<1> QED
  BY <1>1, SpoolInvariant, PTL DEF Spec, NeverGoesBack

\* The hand-in the server takes finds every such answer stored, or held on the
\* Mac after a closed sitting refused it, or given since Finish was pressed.
THEOREM CarriesTheAnswers == Spec => HandInCarriesTheAnswers
<1> DEFINE Carried ==
      \A c \in Screens :
        attempt = "in_progress" /\ finish[c] = "submitting" /\ finish'[c] = "taken" =>
          \A i \in Items \ (crossed \cup revised[c]) :
            stored[i] = typed[i] \/ disk[i].deferred
<1>1. Inv => Carried
  <2> SUFFICES ASSUME Inv, NEW c \in Screens, attempt = "in_progress", finish[c] = "submitting",
                      NEW i \in Items \ (crossed \cup revised[c]), ~disk[i].deferred
               PROVE  stored[i] = typed[i]
    OBVIOUS
  <2>1. disk[i].v = 0
    BY DEF Inv, LeftIsHeld
  <2>2. typed[i] \in {stored[i], disk[i].v} /\ stored[i] <= typed[i]
    BY DEF Inv, NoAnswerLost, DiskIsLast
  <2> QED
    BY <2>1, <2>2, ValueTypes DEF Inv
<1>2. Inv /\ [Next]_vars => [Carried]_vars
  BY <1>1
<1> HIDE DEF Carried
<1>3. Spec => [][Carried]_vars
  BY <1>2, SpoolInvariant, PTL DEF Spec
<1> QED
  BY <1>3 DEF HandInCarriesTheAnswers, Carried
=============================================================================
