------------------------------ MODULE PeekPlane ------------------------------
(***************************************************************************)
(* The teacher's look at a student's screen, and the poll that carries it.  *)
(* Staff ask for a look; the student's application polls, discloses it on a *)
(* strip, renders and uploads one frame; the first reader collects it and   *)
(* the server drops it.  The same poll tells the application of a closed    *)
(* sitting and of a changed or removed time limit, and the countdown's      *)
(* notices use the same strip.                                              *)
(*                                                                          *)
(* `hops` is the main queue: the poll's and the countdown's callbacks post  *)
(* to it and run later, in order.  A deadline of 0 is no limit.  Not         *)
(* modelled: a second device, the answers to the monitor, the tolerance for *)
(* jitter, and everything after the end of the student's session.           *)
(***************************************************************************)
EXTENDS Integers, Sequences, FiniteSets

CONSTANTS
  Staff,        \* monitors open on the attempt
  MaxPeeks,     \* bound: peek_requests rows
  MaxDeadlines, \* bound: deadlines a teacher chooses between
  MaxHops,      \* bound: blocks waiting on the main queue
  MaxLost       \* bound: polls and uploads that fail

ASSUME PeekAssumption ==
  /\ MaxPeeks \in Nat /\ MaxDeadlines \in Nat \ {0} /\ MaxHops \in Nat /\ MaxLost \in Nat

VARIABLES
  peeks,     \* the peek_requests rows, in the order they were inserted
  asking,    \* each monitor's POST in flight
  reading,   \* each monitor's GET in flight: the ready row it read, or 0
  handed,    \* how often each frame was given to a reader (history)
  deadline,  \* the attempt's deadline, 0 if its limit was removed
  closed,    \* the sitting is over
  poll,      \* the student's poll in flight: the answer on its way
  polling,   \* the responder's timer is armed
  lastSeen,  \* lastSeenID
  hops,      \* the main queue
  uploads,   \* frames on their way
  clock,     \* the countdown's deadline, 0 if there is none
  stage,     \* whether it runs, has given its notice, or has reached zero
  strip,     \* what the notice strip says
  armed,     \* its auto-dismiss is armed: a later notice takes the token of it
  over,      \* how the session ended for the application
  lost       \* failed polls and uploads so far

rows == <<peeks, asking, reading, handed>>
sitting == <<deadline, closed>>
responder == <<poll, polling, lastSeen, uploads, lost>>
countdown == <<clock, stage>>
notice == <<strip, armed>>
peekVars == <<rows, sitting, responder, countdown, notice, hops, over>>

\* A row is young (under PEEK_RATE_LIMIT_MS), good, or dead: its question after
\* PEEK_PENDING_TTL_MS, its frame after PEEK_IMAGE_TTL_MS.
Peek == [at : {"asked", "delivered", "viewed", "swept", "replaced"},
         age : {"young", "good", "dead"}]
Hop == [what : {"deadline", "removed", "closed", "peek", "render", "notice", "expired"},
        no : 0..MaxPeeks + MaxDeadlines]
PollAnswer == [peek : 0..MaxPeeks, time : 0..MaxDeadlines, closed : BOOLEAN]
NoPoll == [peek |-> 0, time |-> 0, closed |-> FALSE, out |-> FALSE]

Newest(ids) == IF ids = {} THEN 0 ELSE CHOOSE i \in ids : \A j \in ids : j <= i
Questions == {i \in DOMAIN peeks : peeks[i].at = "asked" /\ peeks[i].age # "dead"}

-----------------------------------------------------------------------------
(* The monitor asks *)

\* sweepExpiredPeekImages
Swept == [i \in DOMAIN peeks |-> IF peeks[i].at = "delivered" /\ peeks[i].age = "dead"
                                 THEN [peeks[i] EXCEPT !.at = "swept"] ELSE peeks[i]]

\* The attempt is in progress, and no request was made in the last seconds.
AskPeek(t) ==
  /\ asking[t] = "idle"
  /\ peeks' = Swept
  /\ asking' = IF \E i \in DOMAIN peeks : peeks[i].at # "replaced" /\ peeks[i].age = "young"
               THEN asking ELSE [asking EXCEPT ![t] = "delete"]
  /\ UNCHANGED <<reading, handed, sitting, responder, countdown, notice, hops, over>>

\* "Replace, don't stack."
DeleteOpen(t) ==
  /\ asking[t] = "delete"
  /\ peeks' = [i \in DOMAIN peeks |-> IF peeks[i].at = "asked"
                                      THEN [peeks[i] EXCEPT !.at = "replaced"] ELSE peeks[i]]
  /\ asking' = [asking EXCEPT ![t] = "insert"]
  /\ UNCHANGED <<reading, handed, sitting, responder, countdown, notice, hops, over>>

InsertPeek(t) ==
  /\ asking[t] = "insert" /\ Len(peeks) < MaxPeeks
  /\ peeks' = Append(peeks, [at |-> "asked", age |-> "young"])
  /\ handed' = Append(handed, 0)
  /\ asking' = [asking EXCEPT ![t] = "idle"]
  /\ UNCHANGED <<reading, sitting, responder, countdown, notice, hops, over>>

\* Requests and frames age; an older request is never the younger.
PeekAges(i) ==
  /\ i \in DOMAIN peeks
  /\ \/ /\ peeks[i].age = "young" /\ peeks[i].at # "replaced"
        /\ peeks' = [peeks EXCEPT ![i].age = "good"]
     \/ /\ peeks[i].age = "good" /\ peeks[i].at \in {"asked", "delivered"}
        /\ \A j \in 1..(i - 1) : peeks[j].at = peeks[i].at => peeks[j].age = "dead"
        /\ peeks' = [peeks EXCEPT ![i].age = "dead"]
  /\ UNCHANGED <<asking, reading, handed, sitting, responder, countdown, notice, hops, over>>

-----------------------------------------------------------------------------
(* The monitor collects *)

ReadReady(t) ==
  /\ reading[t] = 0
  /\ peeks' = Swept
  /\ reading' = [reading EXCEPT ![t] = Newest({i \in DOMAIN peeks : Swept[i].at = "delivered"})]
  /\ UNCHANGED <<asking, handed, sitting, responder, countdown, notice, hops, over>>

\* Mutant: the UPDATE is by id alone.
MutantMayView(i) == TRUE

\* The UPDATE's viewed_at IS NULL; the frame itself was read before.
MayView(i) == peeks[i].at # "viewed"

\* The reader that flips viewed_at has the frame; the other is told to wait.
Collect(t) ==
  /\ reading[t] # 0
  /\ LET i == reading[t] IN
       IF MayView(i)
       THEN peeks' = [peeks EXCEPT ![i].at = "viewed"] /\ handed' = [handed EXCEPT ![i] = @ + 1]
       ELSE UNCHANGED <<peeks, handed>>
  /\ reading' = [reading EXCEPT ![t] = 0]
  /\ UNCHANGED <<asking, sitting, responder, countdown, notice, hops, over>>

-----------------------------------------------------------------------------
(* The sitting *)

\* A teacher sets another deadline, or removes the limit.
ChangeTime ==
  /\ deadline' \in (0..MaxDeadlines) \ {deadline}
  /\ UNCHANGED <<closed, rows, responder, countdown, notice, hops, over>>

CloseSitting ==
  /\ ~closed /\ closed' = TRUE
  /\ UNCHANGED <<deadline, rows, responder, countdown, notice, hops, over>>

-----------------------------------------------------------------------------
(* The student's poll *)

\* tick() and the server's reads: one poll at a time.
Poll ==
  /\ polling /\ ~poll.out
  /\ peeks' = Swept
  /\ poll' = [peek |-> Newest(Questions), time |-> deadline, closed |-> closed, out |-> TRUE]
  /\ UNCHANGED <<asking, reading, handed, sitting, polling, lastSeen, uploads, lost, countdown,
                 notice, hops, over>>

PollFails ==
  /\ poll.out /\ lost < MaxLost /\ lost' = lost + 1
  /\ poll' = NoPoll
  /\ UNCHANGED <<rows, sitting, polling, lastSeen, uploads, countdown, notice, hops, over>>

Post(blocks) == Len(hops) + Len(blocks) <= MaxHops /\ hops' = hops \o blocks

\* handle(): nothing after stop(); a closed sitting is the last news; a peek is
\* asked of the application once.
PollArrives ==
  /\ poll.out /\ poll' = NoPoll
  /\ IF ~polling THEN UNCHANGED <<polling, lastSeen, hops>>
     ELSE IF poll.closed
     THEN polling' = FALSE /\ Post(<<[what |-> "closed", no |-> 0]>>) /\ UNCHANGED lastSeen
     ELSE LET time == [what |-> IF poll.time = 0 THEN "removed" ELSE "deadline", no |-> poll.time]
              new  == poll.peek \notin {0, lastSeen}
          IN /\ Post(<<time>> \o IF new THEN <<[what |-> "peek", no |-> poll.peek]>> ELSE <<>>)
             /\ lastSeen' = IF new THEN poll.peek ELSE lastSeen
             /\ UNCHANGED polling
  /\ UNCHANGED <<rows, sitting, uploads, lost, countdown, notice, over>>

\* The upload: one UPDATE, of a question still open.
Upload(i) ==
  /\ i \in uploads /\ uploads' = uploads \ {i}
  /\ peeks' = IF i \in Questions THEN [peeks EXCEPT ![i].at = "delivered"] ELSE peeks
  /\ UNCHANGED <<asking, reading, handed, sitting, poll, polling, lastSeen, lost, countdown,
                 notice, hops, over>>

UploadFails(i) ==
  /\ i \in uploads /\ uploads' = uploads \ {i}
  /\ lost < MaxLost /\ lost' = lost + 1
  /\ UNCHANGED <<rows, sitting, poll, polling, lastSeen, countdown, notice, hops, over>>

-----------------------------------------------------------------------------
(* The strip *)

\* Mutant: the disclosure does not take the notice token.
MutantShowDisclosure == strip' = "peek" /\ UNCHANGED armed

ShowDisclosure == strip' = "peek" /\ armed' = FALSE
ShowTimeNotice == strip' = "time" /\ armed' = TRUE

DismissNotice ==
  /\ strip # "none" /\ strip' = "none" /\ armed' = FALSE
  /\ UNCHANGED <<rows, sitting, responder, countdown, hops, over>>

\* After eight seconds, if nothing has been shown since.
AutoDismiss ==
  /\ armed /\ armed' = FALSE /\ strip' = "none"
  /\ UNCHANGED <<rows, sitting, responder, countdown, hops, over>>

-----------------------------------------------------------------------------
(* The countdown, and the blocks on the main queue *)

\* "5 minutes left", once a clock.
GiveNotice ==
  /\ clock # 0 /\ stage = "runs"
  /\ stage' = "warned"
  /\ Post(<<[what |-> "notice", no |-> 0]>>)
  /\ UNCHANGED <<rows, sitting, responder, clock, notice, over>>

\* Zero: the clock disarms itself and reports.
Rings ==
  /\ clock # 0 /\ stage # "zero"
  /\ stage' = "zero"
  /\ Post(<<[what |-> "expired", no |-> clock]>>)
  /\ UNCHANGED <<rows, sitting, responder, clock, notice, over>>

Runs(what) == hops # <<>> /\ Head(hops).what = what
Rest == hops' = Tail(hops)

\* Mutant: a clock that runs is left alone.
MutantDeadlineChanged(d) == clock = 0

\* deadlineChanged: against the clock's own; without one always.
DeadlineChanged(d) == d # clock

DeadlineReported ==
  /\ Runs("deadline") /\ Rest
  /\ IF DeadlineChanged(Head(hops).no)
     THEN /\ clock' = Head(hops).no /\ stage' = "runs"
          /\ ShowTimeNotice
     ELSE UNCHANGED <<countdown, notice>>
  /\ UNCHANGED <<rows, sitting, responder, over>>

TimeLimitRemoved ==
  /\ Runs("removed") /\ Rest
  /\ IF clock # 0
     THEN clock' = 0 /\ stage' = "runs" /\ ShowTimeNotice
     ELSE UNCHANGED <<countdown, notice>>
  /\ UNCHANGED <<rows, sitting, responder, over>>

NoticeShown ==
  /\ Runs("notice") /\ Rest
  /\ ShowTimeNotice
  /\ UNCHANGED <<rows, sitting, responder, countdown, over>>

\* timeLimitExpired asks nobody which clock rang.
TimeLimitExpired ==
  /\ Runs("expired") /\ Rest
  /\ over' = "time"
  /\ UNCHANGED <<rows, sitting, responder, countdown, notice>>

\* The responder stops itself; the clock is stopped.
SittingClosed ==
  /\ Runs("closed") /\ Rest
  /\ over' = "closed"
  /\ UNCHANGED <<rows, sitting, responder, countdown, notice>>

\* The banner first; a turn of the queue for it to draw; then the render.
PeekRequested ==
  /\ Runs("peek")
  /\ hops' = Append(Tail(hops), [what |-> "render", no |-> Head(hops).no])
  /\ ShowDisclosure
  /\ UNCHANGED <<rows, sitting, responder, countdown, over>>

RenderFrame ==
  /\ Runs("render") /\ Rest
  /\ uploads' = uploads \cup {Head(hops).no}
  /\ ShowDisclosure
  /\ UNCHANGED <<rows, sitting, poll, polling, lastSeen, lost, countdown, over>>

HandIn ==
  /\ over' = "handedIn"
  /\ polling' = FALSE
  /\ UNCHANGED <<rows, sitting, poll, lastSeen, uploads, lost, countdown, notice, hops>>

-----------------------------------------------------------------------------
PeekInit ==
  /\ peeks = <<>> /\ handed = <<>>
  /\ asking = [t \in Staff |-> "idle"] /\ reading = [t \in Staff |-> 0]
  /\ deadline = 1 /\ closed = FALSE
  /\ poll = NoPoll /\ polling = TRUE /\ lastSeen = 0 /\ uploads = {} /\ lost = 0
  /\ clock = 1 /\ stage = "runs"
  /\ strip = "none" /\ armed = FALSE
  /\ hops = <<>> /\ over = "no"

HopRuns ==
  \/ DeadlineReported \/ TimeLimitRemoved \/ NoticeShown \/ TimeLimitExpired
  \/ SittingClosed \/ PeekRequested \/ RenderFrame

AtWork == over = "no"
PeekNext ==
  /\ AtWork
  /\ \/ \E t \in Staff : AskPeek(t) \/ DeleteOpen(t) \/ InsertPeek(t) \/ ReadReady(t) \/ Collect(t)
     \/ \E i \in 1..MaxPeeks : PeekAges(i) \/ Upload(i) \/ UploadFails(i)
     \/ ChangeTime \/ CloseSitting
     \/ Poll \/ PollFails \/ PollArrives
     \/ DismissNotice \/ AutoDismiss \/ GiveNotice \/ Rings
     \/ HopRuns \/ HandIn

PeekSpec == PeekInit /\ [][PeekNext]_peekVars

\* The poll's timer fires, requests come back, the main queue drains.
PollFairness ==
  /\ WF_peekVars(AtWork /\ Poll) /\ WF_peekVars(AtWork /\ PollArrives)
  /\ WF_peekVars(AtWork /\ HopRuns)

PeekFairSpec == PeekSpec /\ PollFairness

-----------------------------------------------------------------------------
(* Properties *)

\* The rows, the requests in flight and the application's state have their types.
PeekTypeOK ==
  /\ peeks \in Seq(Peek) /\ Len(peeks) <= MaxPeeks
  /\ handed \in Seq(Nat) /\ Len(handed) = Len(peeks)
  /\ asking \in [Staff -> {"idle", "delete", "insert"}] /\ reading \in [Staff -> 0..MaxPeeks]
  /\ deadline \in 0..MaxDeadlines /\ closed \in BOOLEAN
  /\ poll \in [peek : 0..MaxPeeks, time : 0..MaxDeadlines, closed : BOOLEAN, out : BOOLEAN]
  /\ polling \in BOOLEAN /\ lastSeen \in 0..MaxPeeks /\ uploads \subseteq 1..MaxPeeks
  /\ lost \in 0..MaxLost
  /\ clock \in 0..MaxDeadlines /\ stage \in {"runs", "warned", "zero"}
  /\ strip \in {"none", "peek", "time"} /\ armed \in BOOLEAN
  /\ hops \in Seq(Hop) /\ Len(hops) <= MaxHops + 1
  /\ over \in {"no", "time", "closed", "handedIn"}

\* Delete on read: two monitors that collect at once never both get the frame.
FrameGoesToOne == \A i \in DOMAIN handed : handed[i] <= 1

\* The disclosure stays until the student closes it or a later notice takes its
\* place: the timer of an earlier notice never takes it down.
DisclosureStays == [][AutoDismiss => strip # "peek"]_peekVars

\* A changed or removed time limit, and a closed sitting, reach a student at
\* work through the poll.
NewsReachesTheStudent ==
  /\ \A d \in 0..MaxDeadlines : deadline = d ~> (clock = d \/ deadline # d \/ over # "no")
  /\ closed ~> over # "no"

\* A frame shows that the student was told.
FrameShowsTheDisclosure == [][RenderFrame => strip = "peek"]_peekVars

\* At most one open question to the client at a time.
OneOpenQuestion == Cardinality(Questions) <= 1

\* A student is sent home by the clock that runs, not by one a teacher's
\* change has replaced.
OldClockEndsNothing ==
  [][over' = "time" => Head(hops).no = clock]_peekVars

=============================================================================
