-------------------------- MODULE AssessmentLockdown --------------------------
(***************************************************************************)
(* The client's lockdown lifecycle: the state machine that begins and ends  *)
(* the assessment session locking a student's Mac, its development          *)
(* watchdog, and the teardown handshake that guarantees a way out.          *)
(*                                                                          *)
(* Two threads run it.  The main queue runs begin, end, the teardown        *)
(* request, the watchdog's ticks and the session's events.  The backstop    *)
(* queue runs the two last-resort timers, also when the main queue is hung. *)
(* A timer's delay is not counted: an armed timer may fire at any time,     *)
(* which is every order the two queues and the framework can produce.       *)
(*                                                                          *)
(* The framework (AEAssessmentSession) is the environment: it may answer at *)
(* any time or never, and drops an end() it gets before its session began.  *)
(***************************************************************************)
EXTENDS Integers

CONSTANTS
  WatchdogAsked,   \* Timings.watchdog in ticks, 0 for nil
  Floor            \* Timings.floor in ticks

ASSUME WatchdogAssumption == WatchdogAsked \in Nat /\ Floor \in Nat

VARIABLES
  state,      \* AssessmentLockdown.state
  os,         \* the framework's session: what the Mac really does
  endAsked,   \* an end() reached the session after it began
  dropped,    \* an end() reached it before: the framework dropped it (history)
  deferred,   \* endDeferred
  watchdog,   \* the watchdog's repeating timer is armed
  remaining,  \* ticks left to it
  escalation, \* the timer armed when the watchdog ends a session
  backstop,   \* the teardown's grace timer
  owed,       \* teardownCompletion is set
  taken,      \* the completion the backstop's closure holds
  queueStep,  \* where the backstop queue's closure stands
  called,     \* completion calls for the latest teardown (history)
  alive,      \* the process runs
  mainHung,   \* the main queue drains no more
  logHeld     \* it hung in the error log, holding the log's lock

timers == <<watchdog, remaining, escalation, backstop>>
machine == <<state, deferred, owed, called>>
session == <<os, endAsked, dropped>>
queue == <<taken, queueStep>>
process == <<alive, mainHung, logHeld>>
vars == <<state, os, endAsked, dropped, deferred, watchdog, remaining, escalation,
          backstop, owed, taken, queueStep, called, alive, mainHung, logHeld>>

\* The requested watchdog raised to the floor; 0 when there is none.
EffectiveWatchdog ==
  IF WatchdogAsked = 0 THEN 0
  ELSE IF WatchdogAsked < Floor THEN Floor ELSE WatchdogAsked

Main == alive /\ ~mainHung

\* The backstop queue waits for the log's lock, for ever.
Stuck == queueStep = "stuck"

\* Every variable keeps its type; the watchdog's tick count never goes below 0.
TypeOK ==
  /\ state \in {"idle", "starting", "active"}
  /\ os \in {"none", "beginning", "running"}
  /\ remaining \in Nat
  /\ called \in 0..2
  /\ queueStep \in {"off", "fired", "took", "stuck"}
  /\ endAsked \in BOOLEAN /\ dropped \in BOOLEAN /\ deferred \in BOOLEAN
  /\ watchdog \in BOOLEAN /\ escalation \in BOOLEAN /\ backstop \in BOOLEAN
  /\ owed \in BOOLEAN /\ taken \in BOOLEAN
  /\ alive \in BOOLEAN /\ mainHung \in BOOLEAN /\ logHeld \in BOOLEAN

Init ==
  /\ state = "idle" /\ os = "none"
  /\ endAsked = FALSE /\ dropped = FALSE /\ deferred = FALSE
  /\ watchdog = FALSE /\ remaining = 0 /\ escalation = FALSE /\ backstop = FALSE
  /\ owed = FALSE /\ taken = FALSE /\ queueStep = "off" /\ called = 0
  /\ alive = TRUE /\ mainHung = FALSE /\ logHeld = FALSE

-----------------------------------------------------------------------------
(* The main queue *)

MutantArmWatchdog == UNCHANGED <<watchdog, remaining>>

ArmWatchdog ==
  /\ watchdog' = (EffectiveWatchdog > 0)
  /\ remaining' = EffectiveWatchdog

\* begin(): armed first, then the session is asked to begin.
Begin ==
  /\ Main /\ state = "idle"
  /\ state' = "starting" /\ os' = "beginning" /\ endAsked' = FALSE
  /\ ArmWatchdog
  /\ UNCHANGED <<dropped, deferred, escalation, backstop, owed, called, queue, process>>

\* What session.end() does to the framework's session.
PhysicalEnd ==
  /\ endAsked' = (endAsked \/ os = "running")
  /\ dropped' = (dropped \/ os = "beginning")

MutantEndSession == PhysicalEnd /\ UNCHANGED deferred

\* end() of a session that is up: deferred while it is starting.
EndSession ==
  IF state = "starting"
  THEN deferred' = TRUE /\ UNCHANGED <<endAsked, dropped>>
  ELSE PhysicalEnd /\ UNCHANGED deferred

\* The public end().
End ==
  /\ Main /\ state # "idle"
  /\ EndSession
  /\ UNCHANGED <<state, os, timers, owed, called, queue, process>>

ArmBackstop == backstop' = TRUE

\* endBeforeTeardown of a session that is up.  A second request while one is
\* pending returns at once and its completion is dropped.
Teardown ==
  /\ Main /\ state # "idle" /\ ~owed
  /\ owed' = TRUE /\ called' = 0
  /\ ArmBackstop
  /\ EndSession
  /\ UNCHANGED <<state, os, watchdog, remaining, escalation, queue, process>>

MutantTickExpiry == watchdog' = FALSE /\ UNCHANGED escalation

\* The last tick disarms the watchdog and arms the escalation before ending.
TickExpiry == watchdog' = FALSE /\ escalation' = TRUE

MutantMoreTicks == remaining > -1

MoreTicks == remaining > 1

Tick ==
  /\ Main /\ watchdog
  /\ IF MoreTicks
     THEN /\ remaining' = remaining - 1
          /\ UNCHANGED <<watchdog, escalation, session, deferred>>
     ELSE /\ remaining' = 0
          /\ TickExpiry
          /\ EndSession /\ UNCHANGED os
  /\ UNCHANGED <<state, backstop, owed, called, queue, process>>

MutantClearTimers == watchdog' = FALSE /\ remaining' = 0 /\ backstop' = FALSE /\ UNCHANGED escalation

ClearTimers == watchdog' = FALSE /\ remaining' = 0 /\ backstop' = FALSE /\ escalation' = FALSE

\* clear(), ending in finishTeardown(): the session is confirmed gone.
Clear ==
  /\ state' = "idle" /\ deferred' = FALSE
  /\ ClearTimers
  /\ owed' = FALSE
  /\ called' = IF owed /\ called < 2 THEN called + 1 ELSE called
  /\ UNCHANGED <<queue, process>>

\* The end owed since `starting` is issued once the framework will honour it.
DidBegin ==
  /\ Main /\ os = "beginning"
  /\ os' = "running" /\ state' = "active"
  /\ deferred' = FALSE /\ endAsked' = deferred
  /\ UNCHANGED <<dropped, timers, owed, called, queue, process>>

FailedToBegin ==
  /\ Main /\ os = "beginning"
  /\ os' = "none" /\ Clear /\ UNCHANGED <<endAsked, dropped>>

DidEnd ==
  /\ Main /\ os = "running" /\ endAsked
  /\ os' = "none" /\ Clear /\ UNCHANGED <<endAsked, dropped>>

Interrupted ==
  /\ Main /\ os = "running"
  /\ os' = "none" /\ Clear /\ UNCHANGED <<endAsked, dropped>>

\* The main thread hangs anywhere: also in the write, rename or open that
\* ClientErrorLog does while it holds its lock.
MainHangs ==
  /\ Main /\ mainHung' = TRUE /\ logHeld' \in BOOLEAN
  /\ UNCHANGED <<machine, session, timers, queue, alive>>

-----------------------------------------------------------------------------
(* The backstop queue: serial, so one closure at a time *)

MutantUnrecoverable == UNCHANGED alive /\ queueStep' = "off"

\* onUnrecoverable: asks the error log for the attempt's id, under the log's
\* lock, and exits the process.
Unrecoverable ==
  \/ ~logHeld /\ alive' = FALSE /\ queueStep' = "off"
  \/ logHeld /\ UNCHANGED alive /\ queueStep' = "stuck"

EscalationFires ==
  /\ alive /\ escalation /\ queueStep = "off"
  /\ Unrecoverable /\ escalation' = FALSE
  /\ UNCHANGED <<machine, session, watchdog, remaining, backstop, taken, mainHung, logHeld>>

MutantBackstopQueue == Main

\* Rule 3: the last resort does not run on the queue it watches.
BackstopQueue == alive

\* The grace timer fired; cancelling it no longer stops its closure.
BackstopFires ==
  /\ BackstopQueue /\ backstop /\ queueStep = "off"
  /\ queueStep' = "fired" /\ backstop' = FALSE
  /\ UNCHANGED <<machine, session, watchdog, remaining, escalation, taken, process>>

\* finishTeardown() on this queue reads the completion that clear() may be
\* reading on the main one: nothing orders the two.
BackstopTakes ==
  /\ BackstopQueue /\ queueStep = "fired"
  /\ queueStep' = "took" /\ taken' = owed
  /\ UNCHANGED <<machine, session, timers, process>>

BackstopFinishes ==
  /\ BackstopQueue /\ queueStep = "took"
  /\ taken' = FALSE
  /\ owed' = FALSE
  /\ called' = IF taken /\ called < 2 THEN called + 1 ELSE called
  /\ backstop' = FALSE /\ Unrecoverable
  /\ UNCHANGED <<state, deferred, session, watchdog, remaining, escalation, mainHung, logHeld>>

-----------------------------------------------------------------------------
Next ==
  \/ Begin \/ End \/ Teardown \/ Tick
  \/ DidBegin \/ FailedToBegin \/ DidEnd \/ Interrupted \/ MainHangs
  \/ EscalationFires \/ BackstopFires \/ BackstopTakes \/ BackstopFinishes

\* An armed dispatch timer fires and its closure runs to the end; the watchdog
\* ticks while the main queue drains.  Of the framework nothing is assumed.
Fairness ==
  /\ WF_vars(EscalationFires)
  /\ WF_vars(BackstopFires) /\ WF_vars(BackstopTakes) /\ WF_vars(BackstopFinishes)
  /\ WF_vars(Tick)

Spec == Init /\ [][Next]_vars /\ Fairness

-----------------------------------------------------------------------------
(* Properties *)

\* Rules 1 and 4: no session is up that nothing will end.  While the process
\* runs, a live session has its watchdog or the escalation that follows it
\* when the build arms one, and a teardown that is owed has the grace timer
\* armed or its closure on the queue.  A closure that is stuck watches nothing.
NothingUnwatched ==
  alive /\ ~Stuck =>
    /\ state # "idle" /\ EffectiveWatchdog > 0 => watchdog \/ escalation
    /\ owed => state # "idle" /\ (backstop \/ queueStep # "off")

\* Rule 5: no end() is ever dropped by the framework, whoever asked for it and
\* however early.
NoEndIsDropped == ~dropped

\* A session that is gone leaves nothing armed, deferred or owed that could end
\* the next one early (clear() and finishTeardown()).
NothingOutlivesTheSession ==
  state = "idle" => ~watchdog /\ ~escalation /\ ~backstop /\ ~deferred /\ ~owed

\* Confirmation, not hope: a teardown's completion is called when the session
\* is confirmed gone or on the way to the process exit (which then may be stuck),
\* never otherwise.
CompletionIsConfirmed ==
  [][called' > called => (state' = "idle" /\ os' = "none") \/ ~alive' \/ Stuck']_vars

\* The lockdown keeps the promise of SecureSession: every exit asked for is
\* answered, by the framework's confirmation or by the process exit, also with
\* the main queue hung and a framework that never answers.  The one way to break
\* it is a main thread that hung with the log's lock held: the promise then ends
\* wedged, and in no other case.
Promise == INSTANCE SecureSession WITH
  phase <- IF ~alive THEN "gone"
           ELSE IF state = "idle" THEN "open"
           ELSE IF Stuck /\ mainHung /\ logHeld THEN "wedged" ELSE "locked",
  asked <- alive /\ ~Stuck /\ owed
KeepsThePromise == Promise!Spec

\* Timings: the teardown backstop "is separate, always armed, and is what
\* actually guarantees an exit."  An exit that was asked for is always answered.
ExitIsGuaranteed == owed ~> (state = "idle" \/ ~alive)

\* endBeforeTeardown: calls back "exactly once, whichever happens first": the
\* confirmation on the main queue or the expiry of the grace on the other.
CompletedOnce == called <= 1

\* A session left behind in a development build ends itself, whatever the
\* framework does, as long as the main queue drains.
WatchdogEndsTheSession ==
  (EffectiveWatchdog > 0 /\ state # "idle") ~> (state = "idle" \/ ~alive \/ mainHung)
=============================================================================
