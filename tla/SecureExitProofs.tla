--------------------------- MODULE SecureExitProofs ---------------------------
(***************************************************************************)
(* The lockdown and the host around it, for every watchdog and floor.       *)
(*                                                                          *)
(* The lockdown first, from one inductive invariant.  What it adds to the   *)
(* invariants themselves is that the state the client believes in is the    *)
(* state of the framework's session: a session the client thinks is         *)
(* starting has not begun, and one it thinks is active has.  Without that,  *)
(* an end() sent to an "active" session could still be one the framework    *)
(* drops.                                                                   *)
(*                                                                          *)
(* Then the host: what a student who is back on "Your tests" may have left  *)
(* behind, and under whose session a test is drawn.  The lockdown's         *)
(* invariant carries over: a step of the host is a step of the lockdown,    *)
(* leaves it alone, or ends the process.  The host acts on a session's      *)
(* change later than it happened, so the invariant speaks of the Tasks      *)
(* still queued: while the screen's attempt has no session of its own, none *)
(* of them can open its gate.                                               *)
(***************************************************************************)
EXTENDS SecureExit, SequenceTheorems, TLAPS

-----------------------------------------------------------------------------
(* The lockdown *)

StateTracksTheSession ==
  /\ state = "idle" <=> os = "none"
  /\ state = "starting" <=> os = "beginning"
  /\ state = "active" <=> os = "running"

\* The two halves of TypeOK, each for the prover that can do it.
Counted ==
  /\ state \in {"idle", "starting", "active"}
  /\ os \in {"none", "beginning", "running"}
  /\ remaining \in Nat
  /\ called \in 0..2
  /\ queueStep \in {"off", "fired", "took", "stuck"}
Flags ==
  /\ endAsked \in BOOLEAN /\ dropped \in BOOLEAN /\ deferred \in BOOLEAN
  /\ watchdog \in BOOLEAN /\ escalation \in BOOLEAN /\ backstop \in BOOLEAN
  /\ owed \in BOOLEAN /\ taken \in BOOLEAN
  /\ alive \in BOOLEAN /\ mainHung \in BOOLEAN /\ logHeld \in BOOLEAN

\* The log's lock is held by a main thread that hung, and the backstop queue is
\* stuck only behind it.
StuckBehindTheLog ==
  /\ logHeld => mainHung
  /\ Stuck => logHeld

Inv ==
  /\ TypeOK
  /\ StateTracksTheSession
  /\ StuckBehindTheLog
  /\ NothingUnwatched
  /\ NoEndIsDropped
  /\ NothingOutlivesTheSession

\* The watchdog never runs for less than nothing: raising the request to the
\* floor keeps it a number of ticks (effectiveWatchdog).
LEMMA WatchdogType == EffectiveWatchdog \in Nat
BY WatchdogAssumption DEF EffectiveWatchdog

\* The client starts with no session and nothing armed (the initial values).
LEMMA InitInv == Init => Inv
<1> SUFFICES ASSUME Init PROVE Inv
  OBVIOUS
<1>1. TypeOK
  <2>1. Counted
    BY DEF Init, Counted
  <2>2. Flags
    BY DEF Init, Flags
  <2> QED
    BY <2>1, <2>2 DEF Counted, Flags, TypeOK
<1>2. StateTracksTheSession /\ StuckBehindTheLog
  BY DEF Init, StateTracksTheSession, StuckBehindTheLog, Stuck
<1>3. NothingUnwatched
  BY DEF Init, NothingUnwatched, StuckBehindTheLog, Stuck
<1>4. NoEndIsDropped /\ NothingOutlivesTheSession
  BY DEF Init, NoEndIsDropped, NothingOutlivesTheSession
<1> QED
  BY <1>1, <1>2, <1>3, <1>4 DEF Inv

-----------------------------------------------------------------------------
(* One lemma per action *)

\* begin() arms the watchdog before anything can go wrong.
LEMMA BeginInv == ASSUME Inv, Begin PROVE Inv'
<1>1. TypeOK'
  <2>1. Counted'
    BY WatchdogType DEF Inv, TypeOK, Counted, Begin, ArmWatchdog, Main, queue, process
  <2>2. Flags'
    <3>1. watchdog' \in BOOLEAN
      BY WatchdogType DEF Begin, ArmWatchdog
    <3> QED
      BY <3>1 DEF Inv, TypeOK, Flags, Begin, queue, process
  <2> QED
    BY <2>1, <2>2 DEF Counted, Flags, TypeOK
<1>2. StateTracksTheSession' /\ StuckBehindTheLog'
  BY WatchdogType DEF Inv, TypeOK, StateTracksTheSession, Begin, ArmWatchdog, Main, queue, process,
     StuckBehindTheLog, Stuck
<1>3. NothingUnwatched'
  BY WatchdogType DEF Inv, TypeOK, StateTracksTheSession, NothingUnwatched,
     NothingOutlivesTheSession, Begin, ArmWatchdog, Main, queue, process, StuckBehindTheLog, Stuck
<1>4. NoEndIsDropped' /\ NothingOutlivesTheSession'
  BY WatchdogType DEF Inv, TypeOK, StateTracksTheSession, NoEndIsDropped,
     NothingOutlivesTheSession, Begin, ArmWatchdog, Main, queue, process, StuckBehindTheLog, Stuck
<1> QED
  BY <1>1, <1>2, <1>3, <1>4 DEF Inv

\* end() is deferred exactly while the framework would drop it.
LEMMA EndInv == ASSUME Inv, End PROVE Inv'
BY DEF Inv, TypeOK, StateTracksTheSession, NothingUnwatched, NoEndIsDropped,
       NothingOutlivesTheSession, End, EndSession, PhysicalEnd, Main, timers,
       machine, session, queue, process, StuckBehindTheLog, Stuck

\* endBeforeTeardown arms its grace timer with the debt it records.
LEMMA TeardownInv == ASSUME Inv, Teardown PROVE Inv'
<1>1. TypeOK'
  <2>1. Counted'
    BY DEF Inv, TypeOK, Counted, Teardown, ArmBackstop, EndSession, PhysicalEnd,
     Main, queue, process
  <2>2. Flags'
    BY DEF Inv, TypeOK, Flags, Teardown, ArmBackstop, EndSession, PhysicalEnd,
     Main, queue, process
  <2> QED
    BY <2>1, <2>2 DEF Counted, Flags, TypeOK
<1>2. StateTracksTheSession' /\ StuckBehindTheLog'
  BY DEF Inv, TypeOK, StateTracksTheSession, Teardown, ArmBackstop, EndSession, PhysicalEnd,
     Main, queue, process, StuckBehindTheLog, Stuck
<1>3. NothingUnwatched'
  BY DEF Inv, TypeOK, StateTracksTheSession, NothingUnwatched,
     NothingOutlivesTheSession, Teardown, ArmBackstop, EndSession, PhysicalEnd,
     Main, queue, process, StuckBehindTheLog, Stuck
<1>4. NoEndIsDropped' /\ NothingOutlivesTheSession'
  BY DEF Inv, TypeOK, StateTracksTheSession, NoEndIsDropped,
     NothingOutlivesTheSession, Teardown, ArmBackstop, EndSession, PhysicalEnd,
     Main, queue, process, StuckBehindTheLog, Stuck
<1> QED
  BY <1>1, <1>2, <1>3, <1>4 DEF Inv

\* The watchdog hands over to the escalation in the tick that disarms it.
LEMMA TickInv == ASSUME Inv, Tick PROVE Inv'
<1>1. CASE MoreTicks
  BY <1>1
     DEF Inv, TypeOK, StateTracksTheSession, NothingUnwatched, NoEndIsDropped,
         NothingOutlivesTheSession, Tick, MoreTicks, Main, timers, machine,
         session, queue, process, StuckBehindTheLog, Stuck
<1>2. CASE ~MoreTicks
  <2>1. TypeOK'
    <3>1. Counted'
      BY <1>2 DEF Inv, TypeOK, Counted, Tick, queue
    <3>2. Flags'
      BY <1>2
         DEF Inv, TypeOK, Flags, Tick, TickExpiry, EndSession, PhysicalEnd, queue, process
    <3> QED
      BY <3>1, <3>2 DEF Counted, Flags, TypeOK
  <2>2. StateTracksTheSession' /\ StuckBehindTheLog' /\ NothingUnwatched'
    BY <1>2
       DEF Inv, TypeOK, StateTracksTheSession, NothingUnwatched,
           NothingOutlivesTheSession, Tick, TickExpiry, queue, process, StuckBehindTheLog, Stuck
  <2>3. NoEndIsDropped' /\ NothingOutlivesTheSession'
    BY <1>2
       DEF Inv, TypeOK, StateTracksTheSession, NoEndIsDropped,
           NothingOutlivesTheSession, Tick, EndSession, PhysicalEnd, queue, process,
           StuckBehindTheLog, Stuck
  <2> QED
    BY <2>1, <2>2, <2>3 DEF Inv
<1> QED
  BY <1>1, <1>2

\* didBegin issues the end that was deferred, to a session that has begun.
LEMMA DidBeginInv == ASSUME Inv, DidBegin PROVE Inv'
BY DEF Inv, TypeOK, StateTracksTheSession, NothingUnwatched, NoEndIsDropped,
       NothingOutlivesTheSession, DidBegin, Main, timers, machine, session,
       queue, process, StuckBehindTheLog, Stuck

\* clear() disarms, forgets and answers everything at once.
LEMMA ClearInv ==
  ASSUME Inv, Clear, os' = "none", UNCHANGED <<endAsked, dropped>> PROVE Inv'
<1>1. TypeOK'
  <2>1. Counted'
    BY DEF Inv, TypeOK, Counted, Clear, ClearTimers, queue, process
  <2>2. Flags'
    BY DEF Inv, TypeOK, Flags, Clear, ClearTimers, queue, process
  <2> QED
    BY <2>1, <2>2 DEF Counted, Flags, TypeOK
<1>2. StateTracksTheSession' /\ StuckBehindTheLog'
  BY DEF Inv, TypeOK, StateTracksTheSession, Clear, ClearTimers, queue, process,
     StuckBehindTheLog, Stuck
<1>3. NothingUnwatched'
  BY DEF Inv, TypeOK, StateTracksTheSession, NothingUnwatched,
     NothingOutlivesTheSession, Clear, ClearTimers, queue, process, StuckBehindTheLog, Stuck
<1>4. NoEndIsDropped' /\ NothingOutlivesTheSession'
  BY DEF Inv, TypeOK, StateTracksTheSession, NoEndIsDropped,
     NothingOutlivesTheSession, Clear, ClearTimers, queue, process, StuckBehindTheLog, Stuck
<1> QED
  BY <1>1, <1>2, <1>3, <1>4 DEF Inv

\* The three events that end a session all go through clear().
LEMMA EventsInv ==
  ASSUME Inv, FailedToBegin \/ DidEnd \/ Interrupted PROVE Inv'
BY ClearInv DEF FailedToBegin, DidEnd, Interrupted

\* A hung main queue disarms nothing.
LEMMA MainHangsInv == ASSUME Inv, MainHangs PROVE Inv'
<1>1. /\ mainHung' = TRUE /\ logHeld' \in BOOLEAN
      /\ UNCHANGED <<state, deferred, owed, called, os, endAsked, dropped, watchdog, remaining,
                     escalation, backstop, taken, queueStep, alive>>
  BY DEF MainHangs, timers, machine, session, queue
<1>2. TypeOK'
  <2>1. Counted'
    BY <1>1 DEF Inv, TypeOK, Counted
  <2>2. Flags'
    BY <1>1 DEF Inv, TypeOK, Flags
  <2> QED
    BY <2>1, <2>2 DEF Counted, Flags, TypeOK
<1>3. ~Stuck
  BY DEF Inv, StuckBehindTheLog, MainHangs, Main
<1> QED
  BY <1>1, <1>2, <1>3
     DEF Inv, StateTracksTheSession, NothingUnwatched, NoEndIsDropped, NothingOutlivesTheSession,
         StuckBehindTheLog, Stuck

\* The backstop queue trades its timer for its closure, and its closure for
\* the process exit: a debt is watched by one of them throughout.
LEMMA BackstopQueueInv ==
  ASSUME Inv, EscalationFires \/ BackstopFires \/ BackstopTakes \/ BackstopFinishes
  PROVE  Inv'
<1>1. CASE EscalationFires
  BY <1>1
     DEF Inv, TypeOK, StateTracksTheSession, NothingUnwatched, NoEndIsDropped,
         NothingOutlivesTheSession, EscalationFires, Unrecoverable, timers, machine,
         session, queue, process, StuckBehindTheLog, Stuck
<1>2. CASE BackstopFires
  BY <1>2
     DEF Inv, TypeOK, StateTracksTheSession, NothingUnwatched, NoEndIsDropped,
         NothingOutlivesTheSession, BackstopFires, BackstopQueue, timers, machine,
         session, queue, process, StuckBehindTheLog, Stuck
<1>3. CASE BackstopTakes
  BY <1>3
     DEF Inv, TypeOK, StateTracksTheSession, NothingUnwatched, NoEndIsDropped,
         NothingOutlivesTheSession, BackstopTakes, BackstopQueue, timers, machine,
         session, queue, process, StuckBehindTheLog, Stuck
<1>4. CASE BackstopFinishes
  <2>1. TypeOK'
    <3>1. Counted'
      <4>1. queueStep' \in {"off", "stuck"}
        BY <1>4 DEF BackstopFinishes, Unrecoverable
      <4> QED
        BY <1>4, <4>1 DEF Inv, TypeOK, Counted, BackstopFinishes, session
    <3>2. Flags'
      BY <1>4 DEF Inv, TypeOK, Flags, BackstopFinishes, Unrecoverable, session
    <3> QED
      BY <3>1, <3>2 DEF Counted, Flags, TypeOK
  <2>2. StateTracksTheSession' /\ StuckBehindTheLog' /\ NothingUnwatched'
    BY <1>4
       DEF Inv, StateTracksTheSession, NothingUnwatched, BackstopFinishes, Unrecoverable, session,
          StuckBehindTheLog, Stuck
  <2>3. NoEndIsDropped' /\ NothingOutlivesTheSession'
    BY <1>4
       DEF Inv, NoEndIsDropped, NothingOutlivesTheSession, BackstopFinishes, session
  <2> QED
    BY <2>1, <2>2, <2>3 DEF Inv
<1> QED
  BY <1>1, <1>2, <1>3, <1>4

\* Every step of either queue or of the framework keeps the invariant.
LEMMA NextInv == Inv /\ [Next]_vars => Inv'
<1> SUFFICES ASSUME Inv, [Next]_vars PROVE Inv'
  OBVIOUS
<1>1. CASE UNCHANGED vars
  BY <1>1
     DEF vars, Inv, TypeOK, StateTracksTheSession, NothingUnwatched, NoEndIsDropped,
         NothingOutlivesTheSession, StuckBehindTheLog, Stuck
<1>2. CASE Next
  BY <1>2, BeginInv, EndInv, TeardownInv, TickInv, DidBeginInv, EventsInv,
     MainHangsInv, BackstopQueueInv
     DEF Next
<1> QED
  BY <1>1, <1>2

\* The inductive invariant of the lockdown's state machine and its two queues.
THEOREM LockdownInvariant == Spec => []Inv
BY InitInv, NextInv, PTL DEF Spec

-----------------------------------------------------------------------------
(* What follows *)

\* The variables keep their types; in particular the watchdog never counts
\* below zero (tick).
THEOREM LockdownTypes == Spec => []TypeOK
<1>1. Inv => TypeOK
  BY DEF Inv
<1> QED
  BY <1>1, LockdownInvariant, PTL

\* Rules 1 and 4, for every watchdog and floor: nothing is up, and nothing is
\* owed, without a timer that will end it.
THEOREM Watched == Spec => []NothingUnwatched
<1>1. Inv => NothingUnwatched
  BY DEF Inv
<1> QED
  BY <1>1, LockdownInvariant, PTL

\* Rule 5: the framework never gets an end() it would drop.
THEOREM EndsAreHonoured == Spec => []NoEndIsDropped
<1>1. Inv => NoEndIsDropped
  BY DEF Inv
<1> QED
  BY <1>1, LockdownInvariant, PTL

\* A new session starts with nothing of the last one armed or owed (clear).
THEOREM CleanSlate == Spec => []NothingOutlivesTheSession
<1>1. Inv => NothingOutlivesTheSession
  BY DEF Inv
<1> QED
  BY <1>1, LockdownInvariant, PTL

\* A completion is called only with the session gone or the process going
\* (finishTeardown's two callers).
THEOREM Confirmed == Spec => CompletionIsConfirmed
<1>1. ASSUME Inv, Next, called' > called
      PROVE  (state' = "idle" /\ os' = "none") \/ ~alive' \/ Stuck'
  <2>1. CASE FailedToBegin \/ DidEnd \/ Interrupted
    BY <2>1 DEF FailedToBegin, DidEnd, Interrupted, Clear
  <2>2. CASE BackstopFinishes
    BY <2>2 DEF BackstopFinishes, Unrecoverable, Stuck
  <2>3. CASE Teardown
    BY <1>1, <2>3 DEF Inv, TypeOK, Teardown
  <2>4. ASSUME UNCHANGED called PROVE FALSE
    BY <1>1, <2>4 DEF Inv, TypeOK
  <2> QED
    BY <1>1, <2>1, <2>2, <2>3, <2>4
       DEF Next, Begin, End, Tick, DidBegin, MainHangs, EscalationFires,
           BackstopFires, BackstopTakes, machine
<1>2. Inv /\ [Next]_vars
      => [called' > called => (state' = "idle" /\ os' = "none") \/ ~alive' \/ Stuck']_vars
  BY <1>1
<1> QED
  BY <1>2, LockdownInvariant, PTL DEF Spec, CompletionIsConfirmed

\* Every step of the lockdown is a step of SecureSession or none of its
\* business: the safety half of KeepsThePromise, whose liveness half is TLC's
\* (begin, endBeforeTeardown, clear and the backstop are its four actions).
THEOREM KeepsThePromiseSafely == Spec => Promise!Init /\ [][Promise!Next]_(Promise!vars)
<1>1. Init => Promise!Init
  BY DEF Init, Promise!Init
<1>2. Inv /\ [Next]_vars => [Promise!Next]_(Promise!vars)
  <2> SUFFICES ASSUME Inv, [Next]_vars PROVE [Promise!Next]_(Promise!vars)
    OBVIOUS
  <2> USE DEF Promise!Next, Promise!vars
  <2>1. CASE Begin
    <3>1. Promise!Lock
      BY <2>1 DEF Inv, NothingOutlivesTheSession, Begin, Main, queue, process, StuckBehindTheLog,
         Stuck, Promise!Lock
    <3> QED
      BY <3>1
  <2>2. CASE Teardown
    <3>1. Promise!Ask
      BY <2>2 DEF Inv, Teardown, Main, queue, process, StuckBehindTheLog, Stuck, Promise!Ask
    <3> QED
      BY <3>1
  <2>3. CASE FailedToBegin \/ DidEnd \/ Interrupted
    <3>1. Promise!Release
      BY <2>3
         DEF Inv, StateTracksTheSession, FailedToBegin, DidEnd, Interrupted, Clear,
             Main, queue, process, StuckBehindTheLog, Stuck, Promise!Release
    <3> QED
      BY <3>1
  <2>4. CASE EscalationFires \/ BackstopFinishes
    <3>1. ~Stuck /\ alive /\ UNCHANGED <<state, mainHung, logHeld>>
      BY <2>4 DEF EscalationFires, BackstopFinishes, BackstopQueue, Stuck, machine
    <3>2. (logHeld => alive' /\ Stuck') /\ (~logHeld => ~alive')
      BY <2>4, <3>1 DEF EscalationFires, BackstopFinishes, Unrecoverable, Stuck
    <3>3. CASE ~logHeld
      <4>1. Promise!Kill
        BY <3>1, <3>2, <3>3 DEF Promise!Kill
      <4> QED
        BY <4>1
    <3>4. CASE logHeld /\ state # "idle"
      <4>1. mainHung
        BY <3>4 DEF Inv, StuckBehindTheLog
      <4>2. Promise!Wedge
        BY <3>1, <3>2, <3>4, <4>1 DEF Promise!Wedge
      <4> QED
        BY <4>2
    <3>5. CASE logHeld /\ state = "idle"
      <4>1. ~owed
        BY <3>5 DEF Inv, NothingOutlivesTheSession
      <4> QED
        BY <3>1, <3>2, <3>5, <4>1
    <3> QED
      BY <3>3, <3>4, <3>5 DEF Inv, TypeOK
  <2>5. ASSUME UNCHANGED <<state, owed, alive>>, ~Stuck, ~Stuck' PROVE UNCHANGED Promise!vars
    BY <2>5
  <2>6. CASE End \/ Tick \/ MainHangs \/ BackstopFires \/ BackstopTakes
    <3>1. ~Stuck /\ ~Stuck'
      BY <2>6 DEF Inv, StuckBehindTheLog, Stuck, End, Tick, MainHangs, BackstopFires, BackstopTakes,
         Main, queue
    <3> QED
      BY <2>5, <2>6, <3>1
         DEF End, Tick, MainHangs, BackstopFires, BackstopTakes, machine, process
  <2>7. CASE DidBegin
    BY <2>7 DEF Inv, StateTracksTheSession, StuckBehindTheLog, Stuck, DidBegin, Main, queue, process
  <2>8. CASE UNCHANGED vars
    BY <2>8 DEF vars, Stuck
  <2> QED
    BY <2>1, <2>2, <2>3, <2>4, <2>6, <2>7, <2>8 DEF Next
<1> QED
  BY <1>1, <1>2, LockdownInvariant, PTL DEF Spec

-----------------------------------------------------------------------------
(* The host *)

\* The end of a session that is still starting is deferred, never asked: the
\* framework would drop it.  Of one that is active it has been asked.
StartingIsDeferred ==
  /\ state = "starting" => ~endAsked /\ (owed => deferred)
  /\ state = "active" => (owed => endAsked)

\* An attempt has begun no session before its bundle loaded.
OwnIsLoaded == screen = "attempt" /\ own => loaded

\* A hand-in came from a loaded page, and the session that was up has its end owed.
HandInEndsTheSession ==
  /\ page => loaded
  /\ handedIn => loaded /\ (alive /\ ~Stuck /\ state # "idle" => owed)

Queued(task) == \E i \in DOMAIN hops : hops[i] = task

\* On a screen whose attempt began no session, a session of an earlier attempt
\* has been asked to end: it does not open the gate, now or when it becomes active.
GateIsHeld ==
  screen = "attempt" /\ ~own /\ ~stray =>
    /\ gate # "opened" /\ ~Queued("active")
    /\ alive /\ state = "starting" => deferred

HostInv ==
  /\ Inv
  /\ HostTypeOK
  /\ StartingIsDeferred
  /\ OwnIsLoaded
  /\ HandInEndsTheSession
  /\ GateIsHeld
  /\ LeavingAsksForTheEnd

-----------------------------------------------------------------------------
(* The lockdown under the host *)

\* A process that exits leaves everything else where it was.
Exits == Terminate

\* What a step of the host does to the lockdown: one of its steps, or nothing,
\* or the end of the process (NSApp.terminate).
LEMMA HostStep ==
  ASSUME HostNext PROVE [Next]_vars \/ Exits
<1>1. UNCHANGED lockdown => UNCHANGED vars
  BY DEF lockdown, machine, session, timers, queue, process, vars
<1>2. CASE SessionBegins
  BY <1>2 DEF SessionBegins, Next
<1>3. CASE SessionEnds
  BY <1>3 DEF SessionEnds, Next
<1>4. CASE LockdownAlone
  BY <1>4 DEF LockdownAlone, Next
<1>5. EndLockdown => [Next]_vars
  BY <1>1 DEF EndLockdown, Next
<1>6. CASE StartRefused \/ HandIn \/ EmergencyEnd \/ TimeUp \/ SittingClosed
  BY <1>5, <1>6 DEF StartRefused, HandIn, EmergencyEnd, TimeUp, SittingClosed
<1>7. CASE RunHop
  BY <1>1, <1>7 DEF RunHop, Exits
<1>8. CASE GoHome \/ OpenAttempt \/ PageBuilds \/ BackToTests
  BY <1>1, <1>8 DEF GoHome, OpenAttempt, PageBuilds, BackToTests
<1>9. CASE BundleLoaded
  BY <1>1, <1>9 DEF BundleLoaded, Next
<1>10. CASE Quit
  BY <1>1, <1>10 DEF Quit, Exits, Next
<1> QED
  BY <1>2, <1>3, <1>4, <1>6, <1>7, <1>8, <1>9, <1>10 DEF HostNext

\* The lockdown's invariant survives the process exit, and so every step.
LEMMA LockdownKept ==
  ASSUME Inv, HostNext PROVE Inv'
<1>1. CASE [Next]_vars
  BY <1>1, NextInv
<1>2. CASE Exits
  <2>1. /\ ~alive'
        /\ UNCHANGED <<state, deferred, owed, called, os, endAsked, dropped, watchdog, remaining,
                       escalation, backstop, taken, queueStep, mainHung, logHeld>>
    BY <1>2 DEF Exits, Terminate, machine, session, timers, queue
  <2>2. TypeOK'
    <3>1. Counted'
      BY <2>1 DEF Inv, TypeOK, Counted
    <3>2. Flags'
      <4>1. alive' \in BOOLEAN
        BY <1>2 DEF Exits, Terminate
      <4> QED
        BY <2>1, <4>1 DEF Inv, TypeOK, Flags
    <3> QED
      BY <3>1, <3>2 DEF Counted, Flags, TypeOK
  <2> QED
    BY <2>1, <2>2
       DEF Inv, StateTracksTheSession, NothingUnwatched, NoEndIsDropped, NothingOutlivesTheSession,
           StuckBehindTheLog, Stuck
<1> QED
  BY <1>1, <1>2, HostStep

\* What was asked of a session that is still up, asked it stays: owed until the
\* session is gone, and deferred until it is asked for.
LEMMA AskedStays ==
  ASSUME Inv, StartingIsDeferred, HostNext, state # "idle", state' # "idle", alive'
  PROVE  /\ owed => owed' \/ Stuck'
         /\ deferred => deferred' \/ endAsked'
         /\ endAsked => endAsked'
         /\ state' = "starting" => state = "starting" /\ (deferred => deferred')
<1>1. ASSUME UNCHANGED <<state, owed, deferred, endAsked>>
      PROVE  /\ owed => owed' \/ Stuck'
             /\ deferred => deferred' \/ endAsked'
             /\ endAsked => endAsked'
             /\ state' = "starting" => state = "starting" /\ (deferred => deferred')
  BY <1>1
<1>2. ASSUME EndSession, UNCHANGED state, owed => owed' \/ Stuck'
      PROVE  /\ owed => owed' \/ Stuck'
             /\ deferred => deferred' \/ endAsked'
             /\ endAsked => endAsked'
             /\ state' = "starting" => state = "starting" /\ (deferred => deferred')
  <2>1. CASE state = "starting"
    BY <1>2, <2>1 DEF EndSession
  <2>2. CASE state # "starting"
    <3>1. endAsked => endAsked'
      BY <1>2, <2>2 DEF EndSession, PhysicalEnd
    <3>2. UNCHANGED <<state, deferred>> /\ (owed => owed' \/ Stuck')
      BY <1>2, <2>2 DEF EndSession
    <3> QED
      BY <2>2, <3>1, <3>2
  <2> QED
    BY <2>1, <2>2
<1>3. CASE UNCHANGED vars
  BY <1>1, <1>3 DEF vars
<1>4. CASE Exits
  BY <1>4 DEF Exits, Terminate
<1>5. CASE Next
  <2>1. CASE Begin \/ FailedToBegin \/ DidEnd \/ Interrupted
    BY <2>1 DEF Begin, FailedToBegin, DidEnd, Interrupted, Clear
  <2>2. CASE End
    BY <1>2, <2>2 DEF End
  <2>3. CASE Teardown
    BY <1>2, <2>3 DEF Teardown
  <2>4. CASE Tick
    BY <1>1, <1>2, <2>4 DEF Tick, session
  <2>5. CASE DidBegin
    BY <2>5 DEF DidBegin, Inv, StateTracksTheSession, StartingIsDeferred
  <2>6. CASE MainHangs \/ BackstopFires \/ BackstopTakes
    BY <1>1, <2>6 DEF MainHangs, BackstopFires, BackstopTakes, machine, session
  <2>7. CASE EscalationFires \/ BackstopFinishes
    <3>1. Stuck'
      BY <2>7 DEF EscalationFires, BackstopFinishes, Unrecoverable, Stuck
    <3>2. UNCHANGED <<state, deferred, endAsked>>
      BY <2>7 DEF EscalationFires, BackstopFinishes, machine, session
    <3> QED
      BY <3>1, <3>2
  <2> QED
    BY <1>5, <2>1, <2>2, <2>3, <2>4, <2>5, <2>6, <2>7 DEF Next
<1> QED
  BY <1>3, <1>4, <1>5, HostStep

\* An end of a session that is starting is deferred, whoever asks for it.
LEMMA StartingKept ==
  ASSUME Inv, StartingIsDeferred, HostNext PROVE StartingIsDeferred'
<1> USE DEF StartingIsDeferred
<1>1. CASE Exits \/ UNCHANGED vars
  BY <1>1 DEF Exits, Terminate, machine, session, vars
<1>2. CASE Next
  <2>1. CASE FailedToBegin \/ DidEnd \/ Interrupted
    BY <2>1 DEF FailedToBegin, DidEnd, Interrupted, Clear
  <2>5. CASE DidBegin
    BY <2>5 DEF DidBegin, Inv, StateTracksTheSession
  <2>2. CASE Begin
    BY <2>2 DEF Begin, Inv, NothingOutlivesTheSession
  <2>3. CASE End \/ Teardown \/ Tick
    <3>1. UNCHANGED <<state, os>>
      BY <2>3 DEF End, Teardown, Tick, session
    <3>2. CASE EndSession /\ (Teardown \/ UNCHANGED owed)
      BY <3>1, <3>2 DEF EndSession, PhysicalEnd, Inv, StateTracksTheSession
    <3>3. CASE UNCHANGED <<deferred, endAsked, owed>>
      BY <3>1, <3>3
    <3> QED
      BY <2>3, <3>2, <3>3 DEF End, Teardown, Tick, session
  <2>4. CASE MainHangs \/ EscalationFires \/ BackstopFires \/ BackstopTakes \/ BackstopFinishes
    BY <2>4 DEF MainHangs, EscalationFires, BackstopFires, BackstopTakes, BackstopFinishes,
       machine, session
  <2> QED
    BY <1>2, <2>1, <2>2, <2>3, <2>4, <2>5 DEF Next
<1> QED
  BY <1>1, <1>2, HostStep

\* Only a loaded bundle begins a session.
LEMMA OnlyTheBundleBegins ==
  ASSUME Inv, HostNext, state = "idle", state' # "idle" PROVE BundleLoaded
<1>1. UNCHANGED lockdown => state' = state
  BY DEF lockdown, machine
<1>2. EndLockdown => state' = state
  BY <1>1 DEF EndLockdown, Teardown
<1>3. ~(StartRefused \/ HandIn \/ EmergencyEnd \/ TimeUp \/ SittingClosed)
  BY <1>2 DEF StartRefused, HandIn, EmergencyEnd, TimeUp, SittingClosed
<1>4. ~(SessionEnds \/ LockdownAlone)
  BY DEF SessionEnds, FailedToBegin, DidEnd, Interrupted, Clear, LockdownAlone, Tick, MainHangs,
     EscalationFires, BackstopFires, BackstopTakes, BackstopFinishes, machine
<1>5. ~(RunHop \/ GoHome \/ OpenAttempt \/ PageBuilds \/ BackToTests \/ Quit)
  BY <1>1 DEF RunHop, GoHome, OpenAttempt, PageBuilds, BackToTests, Quit, Terminate, machine
<1>6. ~SessionBegins
  BY DEF SessionBegins, DidBegin, Inv, StateTracksTheSession
<1> QED
  BY <1>3, <1>4, <1>5, <1>6 DEF HostNext

-----------------------------------------------------------------------------
(* The queue of Tasks *)

Task == {"active", "activeOwed", "idle", "terminate"}

\* Tasks posted join the queue's end.
LEMMA Posting ==
  ASSUME hops \in Seq(Task), NEW tasks \in Seq(Task), Post(tasks)
  PROVE  /\ hops' \in Seq(Task)
         /\ Queued("active")' => Queued("active") \/ tasks \notin Seq(Task \ {"active"})
<1>1. /\ hops \o tasks \in Seq(Task) /\ Len(hops \o tasks) = Len(hops) + Len(tasks)
      /\ \A i \in 1..Len(hops) + Len(tasks) :
           (hops \o tasks)[i] = IF i <= Len(hops) THEN hops[i] ELSE tasks[i - Len(hops)]
  BY ConcatProperties
<1>2. /\ DOMAIN hops = 1..Len(hops) /\ Len(hops) \in Nat
      /\ DOMAIN tasks = 1..Len(tasks) /\ Len(tasks) \in Nat
      /\ DOMAIN (hops \o tasks) = 1..Len(hops \o tasks)
  BY <1>1, LenProperties
<1>3. ASSUME NEW i \in DOMAIN (hops \o tasks), (hops \o tasks)[i] = "active"
      PROVE  Queued("active") \/ \E j \in DOMAIN tasks : tasks[j] = "active"
  <2>1. CASE i <= Len(hops)
    BY <1>1, <1>2, <1>3, <2>1 DEF Queued
  <2>2. CASE i > Len(hops)
    <3>1. i - Len(hops) \in DOMAIN tasks
      BY <1>1, <1>2, <1>3, <2>2
    <3> QED
      BY <1>1, <1>2, <1>3, <2>2, <3>1
  <2> QED
    BY <1>1, <1>2, <2>1, <2>2
<1>4. tasks \in Seq(Task \ {"active"}) => \A j \in DOMAIN tasks : tasks[j] # "active"
  BY ElementOfSeq, <1>2
<1> QED
  BY <1>1, <1>3, <1>4 DEF Post, Queued

\* A Task that runs leaves the queue, and was in it.
LEMMA Running ==
  ASSUME hops \in Seq(Task), hops # <<>>, hops' = Tail(hops)
  PROVE  /\ hops' \in Seq(Task) /\ Head(hops) \in Task
         /\ \A task : Queued(task)' => Queued(task)
         /\ Queued(Head(hops))
<1>1. /\ Head(hops) \in Task /\ Tail(hops) \in Seq(Task) /\ Len(Tail(hops)) = Len(hops) - 1
      /\ \A i \in 1..Len(Tail(hops)) : Tail(hops)[i] = hops[i + 1]
  BY HeadTailProperties
<1>2. /\ DOMAIN hops = 1..Len(hops) /\ Len(hops) \in Nat \ {0}
      /\ DOMAIN Tail(hops) = 1..Len(Tail(hops)) /\ Head(hops) = hops[1]
  BY <1>1, LenProperties, EmptySeq
<1>3. \A i \in DOMAIN Tail(hops) : i + 1 \in DOMAIN hops /\ Tail(hops)[i] = hops[i + 1]
  BY <1>1, <1>2
<1> QED
  BY <1>1, <1>2, <1>3 DEF Queued

\* The Tasks a session's change posts: only one that begins, with no end owed,
\* posts one that opens the gate.
LEMMA Posted ==
  /\ <<ActiveHop>> \in Seq(Task) /\ <<"idle">> \o Completion \in Seq(Task)
  /\ <<"idle">> \o Completion \in Seq(Task \ {"active"})
  /\ deferred => <<ActiveHop>> \in Seq(Task \ {"active"})
<1>1. ASSUME NEW S, NEW task \in S PROVE <<task>> \in Seq(S)
  OBVIOUS
<1>2. ASSUME NEW S, "idle" \in S, "terminate" \in S PROVE <<"idle">> \o Completion \in Seq(S)
  <2>1. Completion \in Seq(S)
    BY <1>1, <1>2, EmptySeq DEF Completion
  <2> QED
    BY <1>1, <1>2, <2>1, ConcatProperties
<1>3. ActiveHop \in Task /\ (deferred => ActiveHop \in Task \ {"active"})
  BY DEF ActiveHop, Task
<1>4. "idle" \in Task \ {"active"} /\ "terminate" \in Task \ {"active"}
  BY DEF Task
<1> QED
  BY <1>1, <1>2, <1>3, <1>4

-----------------------------------------------------------------------------
(* The types of the host *)

Screens == /\ screen \in {"entry", "attempt"} /\ gate \in {"shut", "opened", "refused"}
           /\ owner \in {"none", "home", "quit"}
ScreenFlags ==
  /\ loaded \in BOOLEAN /\ own \in BOOLEAN /\ page \in BOOLEAN
  /\ becameActive \in BOOLEAN /\ handedIn \in BOOLEAN /\ leaveOwed \in BOOLEAN
  /\ sheetShown \in BOOLEAN /\ leaving \in BOOLEAN
  /\ quitInProgress \in BOOLEAN /\ stray \in BOOLEAN

\* The Tasks queued.
LEMMA QueueKept ==
  ASSUME HostTypeOK, HostNext PROVE hops' \in Seq(Task)
<1>1. hops \in Seq(Task)
  BY DEF HostTypeOK, Task
<1>2. CASE SessionBegins \/ SessionEnds
  BY <1>1, <1>2, Posting, Posted DEF SessionBegins, SessionEnds
<1>3. CASE RunHop
  BY <1>1, <1>3, Running DEF RunHop
<1>4. ASSUME UNCHANGED hops PROVE hops' \in Seq(Task)
  BY <1>1, <1>4
<1>5. CASE LockdownAlone
  BY <1>4, <1>5 DEF LockdownAlone, host
<1> QED
  BY <1>2, <1>3, <1>4, <1>5
     DEF HostNext, GoHome, OpenAttempt, BundleLoaded, PageBuilds, StartRefused, HandIn,
         EmergencyEnd, TimeUp, SittingClosed, BackToTests, Quit

\* Where the student is, the gate and who asked for the teardown.
LEMMA ScreensKept ==
  ASSUME Screens, HostNext PROVE Screens'
<1> USE DEF Screens
<1>1. EndLockdown => owner' \in {"none", "home", "quit"}
  BY DEF EndLockdown
<1>2. CASE SessionBegins \/ SessionEnds \/ LockdownAlone
  BY <1>2 DEF SessionBegins, SessionEnds, LockdownAlone, host, screenVars, attemptVars, quitVars
<1>3. CASE RunHop
  BY <1>3 DEF RunHop, OnActive, OnIdle, RefusedGate, screenVars, attemptVars, quitVars
<1>4. CASE GoHome \/ OpenAttempt \/ BundleLoaded \/ PageBuilds \/ BackToTests \/ Quit
  BY <1>4 DEF GoHome, OpenAttempt, BundleLoaded, PageBuilds, BackToTests, Quit, ShowEntry,
     FreshAttempt, screenVars, attemptVars, quitVars
<1>5. CASE StartRefused \/ HandIn \/ EmergencyEnd \/ TimeUp \/ SittingClosed
  BY <1>1, <1>5 DEF StartRefused, HandIn, EmergencyEnd, TimeUp, SittingClosed, ShowEntry,
     screenVars, attemptVars
<1> QED
  BY <1>2, <1>3, <1>4, <1>5 DEF HostNext

\* The host's flags.
LEMMA ScreenFlagsKept ==
  ASSUME ScreenFlags, HostNext PROVE ScreenFlags'
<1>1. ReturnHome => sheetShown' \in BOOLEAN /\ leaving' \in BOOLEAN
  BY DEF ReturnHome
<1>2. CASE SessionBegins \/ SessionEnds \/ LockdownAlone
  BY <1>2 DEF ScreenFlags, SessionBegins, SessionEnds, LockdownAlone, host, screenVars, attemptVars,
     quitVars, exits
<1>3. CASE RunHop
  <2>1. CASE OnIdle /\ UNCHANGED quitVars
    BY <1>1, <2>1 DEF ScreenFlags, OnIdle, quitVars, exits
  <2>2. CASE (OnActive(FALSE) \/ OnActive(TRUE) \/ UNCHANGED screenVars) /\ UNCHANGED quitVars
    BY <2>2 DEF ScreenFlags, OnActive, screenVars, attemptVars, quitVars, exits
  <2> QED
    BY <1>3, <2>1, <2>2 DEF RunHop
<1>4. CASE GoHome
  <2>1. stray' \in BOOLEAN
    BY <1>4 DEF GoHome
  <2> QED
    BY <1>4, <2>1 DEF ScreenFlags, GoHome, ShowEntry, attemptVars
<1>5. CASE OpenAttempt
  <2>1. stray' \in BOOLEAN
    BY <1>5 DEF OpenAttempt
  <2> QED
    BY <1>5, <2>1 DEF ScreenFlags, OpenAttempt, FreshAttempt
<1>6. CASE BundleLoaded
  <2>1. own' \in BOOLEAN
    BY <1>6 DEF BundleLoaded
  <2>2. UNCHANGED <<page, becameActive, handedIn, leaveOwed, sheetShown, leaving, exits>>
        /\ loaded' = TRUE
    BY <1>6 DEF BundleLoaded, quitVars
  <2> QED
    BY <2>1, <2>2 DEF ScreenFlags, exits
<1>7. CASE PageBuilds \/ BackToTests \/ Quit
  <2>1. CASE PageBuilds
    BY <2>1 DEF ScreenFlags, PageBuilds, quitVars, exits
  <2>2. CASE BackToTests
    <3>1. UNCHANGED <<leaving, exits>>
      BY <2>2 DEF BackToTests, quitVars
    <3>2. /\ loaded' \in {loaded, FALSE} /\ page' \in {page, FALSE}
          /\ handedIn' \in {handedIn, FALSE} /\ leaveOwed' \in BOOLEAN
          /\ sheetShown' \in {sheetShown, FALSE} /\ UNCHANGED <<own, becameActive>>
      BY <2>2 DEF BackToTests, ShowEntry
    <3> QED
      BY <3>1, <3>2 DEF ScreenFlags, exits
  <2>3. CASE Quit
    <3>1. UNCHANGED screenVars
      BY <2>3 DEF Quit
    <3>2. UNCHANGED stray /\ quitInProgress' \in {quitInProgress, TRUE}
      BY <2>3 DEF Quit, quitVars, exits
    <3> QED
      BY <3>1, <3>2 DEF ScreenFlags, screenVars, attemptVars
  <2> QED
    BY <1>7, <2>1, <2>2, <2>3
<1>8. CASE StartRefused \/ HandIn \/ EmergencyEnd
  <2>1. CASE StartRefused
    BY <2>1 DEF ScreenFlags, StartRefused, ShowEntry, exits
  <2>2. CASE HandIn
    BY <2>2 DEF ScreenFlags, HandIn, exits
  <2>3. CASE EmergencyEnd
    BY <2>3 DEF ScreenFlags, EmergencyEnd, screenVars, attemptVars, exits
  <2> QED
    BY <1>8, <2>1, <2>2, <2>3
<1>9. CASE TimeUp \/ SittingClosed
  <2>1. sheetShown' \in BOOLEAN /\ leaving' \in BOOLEAN
    BY <1>1, <1>9 DEF ScreenFlags, TimeUp, SittingClosed
  <2> QED
    BY <1>9, <2>1 DEF ScreenFlags, TimeUp, SittingClosed, exits
<1> QED
  BY <1>2, <1>3, <1>4, <1>5, <1>6, <1>7, <1>8, <1>9 DEF HostNext

\* HostTypeOK is kept.
LEMMA HostTypesKept ==
  ASSUME Inv, HostTypeOK, HostNext PROVE HostTypeOK'
<1>1. TypeOK'
  BY LockdownKept DEF Inv
<1>2. Screens /\ ScreenFlags
  BY DEF HostTypeOK, Screens, ScreenFlags
<1>3. Screens' /\ ScreenFlags' /\ hops' \in Seq(Task)
  BY <1>2, ScreensKept, ScreenFlagsKept, QueueKept
<1> QED
  BY <1>1, <1>3 DEF HostTypeOK, Screens, ScreenFlags, Task

-----------------------------------------------------------------------------
(* The parts of the invariant *)

\* A process that runs has run.
LEMMA AliveBefore ==
  ASSUME HostNext, alive' PROVE alive
<1>1. CASE Exits \/ UNCHANGED vars
  BY <1>1 DEF Exits, Terminate, vars
<1>2. CASE Next
  BY <1>2 DEF Next, Begin, End, Teardown, Tick, DidBegin, FailedToBegin, DidEnd, Interrupted,
     MainHangs, EscalationFires, BackstopFires, BackstopTakes, BackstopFinishes, BackstopQueue, Main
<1> QED
  BY <1>1, <1>2, HostStep

\* A queue that is stuck stays so.
LEMMA StuckStays ==
  ASSUME HostNext, Stuck PROVE Stuck'
<1> USE DEF Stuck
<1>1. CASE Exits \/ UNCHANGED vars
  BY <1>1 DEF Exits, Terminate, queue, vars
<1>2. CASE Next
  BY <1>2 DEF Next, Begin, End, Teardown, Tick, DidBegin, FailedToBegin, DidEnd, Interrupted, Clear,
     MainHangs, EscalationFires, BackstopFires, BackstopTakes, BackstopFinishes, queue
<1> QED
  BY <1>1, <1>2, HostStep

\* endLockdown leaves the session gone or its end owed.
LEMMA EndIsOwed ==
  ASSUME EndLockdown, state' # "idle" PROVE owed'
<1>1. UNCHANGED lockdown => UNCHANGED <<state, owed>>
  BY DEF lockdown, machine
<1> QED
  BY <1>1 DEF EndLockdown, Teardown

\* A bundle loads once on a screen, and takes its session then.
LEMMA OwnIsLoadedKept ==
  ASSUME OwnIsLoaded, HostNext PROVE OwnIsLoaded'
<1> USE DEF OwnIsLoaded
<1>1. CASE UNCHANGED <<screen, own, loaded>>
  BY <1>1
<1>2. CASE OpenAttempt \/ BundleLoaded
  BY <1>2 DEF OpenAttempt, BundleLoaded, FreshAttempt
<1>3. CASE GoHome \/ StartRefused \/ BackToTests
  BY <1>3 DEF GoHome, StartRefused, BackToTests, ShowEntry, attemptVars
<1>4. CASE RunHop
  <2>1. CASE OnIdle
    BY <1>1, <2>1 DEF OnIdle
  <2>2. CASE OnActive(TRUE) \/ OnActive(FALSE) \/ UNCHANGED screenVars
    BY <1>1, <2>2 DEF OnActive, screenVars, attemptVars
  <2> QED
    BY <1>4, <2>1, <2>2 DEF RunHop
<1>5. CASE SessionBegins \/ SessionEnds \/ LockdownAlone
  BY <1>1, <1>5 DEF SessionBegins, SessionEnds, LockdownAlone, host, screenVars, attemptVars
<1>6. CASE PageBuilds \/ HandIn \/ EmergencyEnd \/ TimeUp \/ SittingClosed \/ Quit
  BY <1>1, <1>6 DEF PageBuilds, HandIn, EmergencyEnd, TimeUp, SittingClosed, Quit, screenVars,
     attemptVars
<1> QED
  BY <1>2, <1>3, <1>4, <1>5, <1>6 DEF HostNext

\* What the steps do to the flags of the attempt on screen.
LEMMA AttemptFlags ==
  ASSUME HostNext
  PROVE  \/ HandIn
         \/ PageBuilds
         \/ UNCHANGED <<page, handedIn>> /\ (loaded' = loaded \/ BundleLoaded)
         \/ ~page' /\ ~handedIn'
<1>1. CASE OpenAttempt \/ BundleLoaded
  BY <1>1 DEF OpenAttempt, BundleLoaded, FreshAttempt
<1>2. CASE GoHome \/ StartRefused \/ BackToTests
  BY <1>2 DEF GoHome, StartRefused, BackToTests, ShowEntry, attemptVars
<1>3. CASE RunHop
  BY <1>3 DEF RunHop, OnActive, OnIdle, screenVars, attemptVars
<1>4. CASE SessionBegins \/ SessionEnds \/ LockdownAlone
  BY <1>4 DEF SessionBegins, SessionEnds, LockdownAlone, host, screenVars, attemptVars
<1>5. CASE EmergencyEnd \/ TimeUp \/ SittingClosed \/ Quit
  BY <1>5 DEF EmergencyEnd, TimeUp, SittingClosed, Quit, screenVars, attemptVars
<1> QED
  BY <1>1, <1>2, <1>3, <1>4, <1>5 DEF HostNext

\* A hand-in asks for the end, and no bundle loads after it on that screen.
LEMMA HandInKept ==
  ASSUME Inv, StartingIsDeferred, HandInEndsTheSession, HostNext PROVE HandInEndsTheSession'
<1>1. CASE HandIn
  BY <1>1, EndIsOwed DEF HandIn, HandInEndsTheSession
<1>2. CASE PageBuilds
  BY <1>2 DEF PageBuilds, HandInEndsTheSession, Stuck, lockdown, machine, queue, process
<1>3. CASE ~page' /\ ~handedIn'
  BY <1>3 DEF HandInEndsTheSession
<1>4. CASE BundleLoaded
  BY <1>4 DEF BundleLoaded, HandInEndsTheSession
<1>5. CASE UNCHANGED <<page, handedIn, loaded>> /\ ~BundleLoaded
  <2>1. page' => loaded'
    BY <1>5 DEF HandInEndsTheSession
  <2>2. ASSUME handedIn', alive', ~Stuck', state' # "idle" PROVE owed'
    <3>1. alive /\ ~Stuck /\ state # "idle"
      BY <1>5, <2>2, AliveBefore, StuckStays, OnlyTheBundleBegins
    <3> QED
      BY <1>5, <2>2, <3>1, AskedStays DEF HandInEndsTheSession
  <2> QED
    BY <1>5, <2>1, <2>2 DEF HandInEndsTheSession
<1> QED
  BY <1>1, <1>2, <1>3, <1>4, <1>5, AttemptFlags

\* No route off the attempt screen leaves a session up with no end asked for,
\* but for a goHome that was pending; and nothing takes the asking back.
LEMMA LeavingKept ==
  ASSUME HostInv, HostNext PROVE LeavingAsksForTheEnd'
<1> SUFFICES ASSUME alive', screen' = "entry", state' # "idle"
             PROVE  owed' \/ deferred' \/ endAsked' \/ stray'
  BY DEF LeavingAsksForTheEnd
<1>1. alive
  BY AliveBefore
<1>2. ~BundleLoaded /\ ~OpenAttempt
  <2>1. BundleLoaded => screen' = "attempt"
    BY DEF BundleLoaded
  <2>2. OpenAttempt => screen' = "attempt"
    BY DEF OpenAttempt
  <2> QED
    BY <2>1, <2>2
<1>3. state # "idle"
  BY <1>2, OnlyTheBundleBegins DEF HostInv
<1>4. CASE screen = "entry"
  <2>1. stray => stray'
    BY <1>2, <1>4 DEF HostNext, SessionBegins, SessionEnds, LockdownAlone, RunHop, GoHome, PageBuilds,
       StartRefused, HandIn, EmergencyEnd, TimeUp, SittingClosed, BackToTests, Quit, host, quitVars,
       exits
  <2>2. deferred \/ endAsked \/ stray
    BY <1>1, <1>3, <1>4 DEF HostInv, Inv, TypeOK, LeavingAsksForTheEnd, StartingIsDeferred
  <2> QED
    BY <1>1, <1>3, <2>1, <2>2, AskedStays DEF HostInv
<1>5. CASE screen = "attempt"
  <2>1. CASE StartRefused
    BY <2>1, EndIsOwed DEF StartRefused
  <2>2. CASE GoHome
    BY <1>3, <1>5, <2>2 DEF GoHome
  <2>3. CASE BackToTests
    BY <1>3, <1>5, <2>3 DEF BackToTests, MayLeave
  <2>4. CASE RunHop
    <3>1. OnIdle /\ handedIn /\ UNCHANGED lockdown
      BY <1>5, <2>4 DEF RunHop, OnActive, OnIdle, Terminate, screenVars, attemptVars
    <3>2. ~Stuck
      BY <2>4 DEF RunHop, Main, HostInv, Inv, StuckBehindTheLog
    <3> QED
      BY <1>1, <1>3, <3>1, <3>2 DEF HostInv, HandInEndsTheSession, lockdown, machine
  <2>5. CASE UNCHANGED screen
    BY <1>5, <2>5
  <2> QED
    BY <1>2, <2>1, <2>2, <2>3, <2>4, <2>5
       DEF HostNext, SessionBegins, SessionEnds, LockdownAlone, PageBuilds, HandIn, EmergencyEnd,
           TimeUp, SittingClosed, Quit, host, screenVars
<1> QED
  BY <1>4, <1>5 DEF HostInv, HostTypeOK

\* A session asked to end before the screen's attempt opened does not open its gate.
LEMMA GateKept ==
  ASSUME HostInv, HostNext PROVE GateIsHeld'
<1> SUFFICES ASSUME screen' = "attempt", ~own', ~stray'
             PROVE  /\ gate' # "opened" /\ ~Queued("active")'
                    /\ alive' /\ state' = "starting" => deferred'
  BY DEF GateIsHeld
<1>1. hops \in Seq(Task)
  BY DEF HostInv, HostTypeOK, Task
<1>2. CASE OpenAttempt
  <2>1. gate' = "shut" /\ hops' = <<>> /\ UNCHANGED lockdown /\ alive /\ screen = "entry"
    BY <1>2 DEF OpenAttempt, FreshAttempt, Main
  <2>2. ~Queued("active")'
    BY <2>1, EmptySeq DEF Queued
  <2>3. state = "starting" => deferred
    <3>1. state # "idle" => ~stray
      BY <1>2 DEF OpenAttempt
    <3> QED
      BY <2>1, <3>1 DEF HostInv, LeavingAsksForTheEnd, StartingIsDeferred
  <2> QED
    BY <2>1, <2>2, <2>3 DEF lockdown, machine
<1>3. CASE ~OpenAttempt
  <2>1. screen = "attempt" /\ ~stray
    BY <1>3 DEF HostNext, SessionBegins, SessionEnds, LockdownAlone, RunHop, GoHome, BundleLoaded,
       PageBuilds, StartRefused, HandIn, EmergencyEnd, TimeUp, SittingClosed, BackToTests, Quit,
       ShowEntry, OnActive, OnIdle, host, quitVars, exits, screenVars, attemptVars
  <2>2. ~own
    <3>1. CASE BundleLoaded
      BY <2>1, <3>1 DEF BundleLoaded, HostInv, OwnIsLoaded
    <3>2. CASE ~BundleLoaded
      BY <1>3, <3>2 DEF HostNext, SessionBegins, SessionEnds, LockdownAlone, RunHop, GoHome,
         PageBuilds, StartRefused, HandIn, EmergencyEnd, TimeUp, SittingClosed, BackToTests, Quit,
         ShowEntry, OnActive, OnIdle, host, screenVars, attemptVars
    <3> QED
      BY <3>1, <3>2
  <2>3. /\ gate # "opened" /\ ~Queued("active")
        /\ alive /\ state = "starting" => deferred
    BY <2>1, <2>2 DEF HostInv, GateIsHeld
  <2>4. ASSUME alive', state' = "starting" PROVE deferred'
    <3>1. alive
      BY <2>4, AliveBefore
    <3>2. CASE state = "idle"
      <4>1. BundleLoaded
        BY <2>4, <3>2, OnlyTheBundleBegins DEF HostInv
      <4> QED
        BY <3>2, <4>1 DEF BundleLoaded
    <3>3. CASE state # "idle"
      BY <2>3, <2>4, <3>1, <3>3, AskedStays DEF HostInv
    <3> QED
      BY <3>2, <3>3
  <2>5. CASE SessionBegins
    <3>1. deferred /\ UNCHANGED gate
      BY <2>3, <2>5 DEF SessionBegins, DidBegin, Main, HostInv, Inv, StateTracksTheSession,
         screenVars, attemptVars
    <3>2. ~Queued("active")'
      BY <1>1, <2>3, <2>5, <3>1, Posting, Posted DEF SessionBegins
    <3> QED
      BY <2>3, <2>4, <3>1, <3>2
  <2>6. CASE SessionEnds
    <3>1. ~Queued("active")'
      BY <1>1, <2>3, <2>6, Posting, Posted DEF SessionEnds
    <3>2. UNCHANGED gate
      BY <2>6 DEF SessionEnds, screenVars, attemptVars
    <3> QED
      BY <2>3, <2>4, <3>1, <3>2
  <2>7. CASE RunHop
    <3>1. /\ hops # <<>> /\ hops' = Tail(hops)
      BY <2>7 DEF RunHop
    <3>2. ~Queued("active")' /\ Head(hops) # "active"
      BY <1>1, <2>3, <3>1, Running
    <3>3. gate' # "opened"
      BY <2>3, <2>7, <3>2 DEF RunHop, OnActive, OnIdle, RefusedGate, screenVars, attemptVars
    <3> QED
      BY <2>4, <3>2, <3>3
  <2>8. CASE UNCHANGED <<gate, hops>>
    BY <2>3, <2>4, <2>8 DEF Queued
  <2>9. CASE LockdownAlone
    BY <2>8, <2>9 DEF LockdownAlone, host, screenVars, attemptVars
  <2>10. CASE GoHome \/ BundleLoaded \/ PageBuilds \/ StartRefused \/ HandIn \/ EmergencyEnd
              \/ TimeUp \/ SittingClosed \/ BackToTests \/ Quit
    BY <2>8, <2>10 DEF GoHome, BundleLoaded, PageBuilds, StartRefused, HandIn, EmergencyEnd,
       TimeUp, SittingClosed, BackToTests, Quit, ShowEntry, screenVars, attemptVars
  <2> QED
    BY <1>3, <2>5, <2>6, <2>7, <2>9, <2>10 DEF HostNext
<1> QED
  BY <1>2, <1>3

-----------------------------------------------------------------------------
(* The theorems *)

\* The client starts on the entry screen with nothing queued.
LEMMA HostInitInv == HostInit => HostInv
<1> SUFFICES ASSUME HostInit PROVE HostInv
  OBVIOUS
<1>1. Inv
  BY InitInv DEF HostInit
<1>2. HostTypeOK
  <2>1. Screens /\ hops \in Seq(Task)
    BY EmptySeq DEF HostInit, Screens
  <2>2. ScreenFlags
    BY DEF HostInit, ScreenFlags
  <2> QED
    BY <1>1, <2>1, <2>2 DEF HostTypeOK, Screens, ScreenFlags, Task, Inv
<1>3. StartingIsDeferred /\ OwnIsLoaded /\ HandInEndsTheSession
  BY DEF HostInit, Init, StartingIsDeferred, OwnIsLoaded, HandInEndsTheSession
<1>4. GateIsHeld /\ LeavingAsksForTheEnd
  BY DEF HostInit, Init, GateIsHeld, LeavingAsksForTheEnd
<1> QED
  BY <1>1, <1>2, <1>3, <1>4 DEF HostInv

\* HostInv is inductive.
LEMMA HostInvStep == HostInv /\ [HostNext]_allVars => HostInv'
<1> SUFFICES ASSUME HostInv, [HostNext]_allVars PROVE HostInv'
  OBVIOUS
<1>1. CASE HostNext
  BY <1>1, LockdownKept, HostTypesKept, StartingKept, OwnIsLoadedKept, HandInKept, GateKept,
     LeavingKept DEF HostInv
<1>2. CASE UNCHANGED allVars
  <2>1. UNCHANGED vars /\ UNCHANGED host
    BY <1>2 DEF allVars, lockdown, machine, session, timers, queue, process, vars
  <2>2. Inv'
    BY <2>1, NextInv DEF HostInv
  <2>3. HostTypeOK'
    <3>1. Screens' /\ ScreenFlags' /\ hops' \in Seq(Task)
      BY <2>1 DEF HostInv, HostTypeOK, Screens, ScreenFlags, Task, host, screenVars, attemptVars,
         quitVars, exits
    <3> QED
      BY <2>2, <3>1 DEF HostTypeOK, Screens, ScreenFlags, Task, Inv
  <2>4. StartingIsDeferred' /\ OwnIsLoaded' /\ HandInEndsTheSession'
    BY <2>1 DEF HostInv, StartingIsDeferred, OwnIsLoaded, HandInEndsTheSession, Stuck, vars, host,
       screenVars, attemptVars
  <2>5. GateIsHeld' /\ LeavingAsksForTheEnd'
    BY <2>1 DEF HostInv, GateIsHeld, Queued, LeavingAsksForTheEnd, vars, host, screenVars,
       attemptVars, quitVars, exits
  <2> QED
    BY <2>2, <2>3, <2>4, <2>5 DEF HostInv
<1> QED
  BY <1>1, <1>2

\* HostInv holds in every reachable state of the client.
THEOREM HostInvariant == HostSpec => []HostInv
  BY HostInitInv, HostInvStep, PTL DEF HostSpec

\* The host's flags and its queue keep their types.
THEOREM HostTypes == HostSpec => []HostTypeOK
<1>1. HostInv => HostTypeOK
  BY DEF HostInv
<1> QED
  BY <1>1, HostInvariant, PTL

\* No way off the attempt screen leaves the Mac locked with no end asked for,
\* but a goHome that was pending (showEntry's callers, bridge audit H-1).
THEOREM LeavingEnds == HostSpec => []LeavingAsksForTheEnd
<1>1. HostInv => LeavingAsksForTheEnd
  BY DEF HostInv
<1> QED
  BY <1>1, HostInvariant, PTL

\* No test is drawn under a session of an earlier attempt (PageLoadGate and
\* the endIsOwedOnBegin hop, EX-3).
THEOREM DrawnUnderOwn == HostSpec => DrawnUnderItsOwnSession
<1>1. ASSUME HostInv, HostNext, page', ~page PROVE own \/ stray
  <2>1. PageBuilds
    BY <1>1 DEF HostNext, SessionBegins, SessionEnds, LockdownAlone, RunHop, GoHome, OpenAttempt,
       BundleLoaded, StartRefused, HandIn, EmergencyEnd, TimeUp, SittingClosed, BackToTests, Quit,
       ShowEntry, FreshAttempt, OnActive, OnIdle, host, screenVars, attemptVars
  <2> QED
    BY <1>1, <2>1 DEF PageBuilds, HostInv, GateIsHeld
<1>2. HostInv /\ [HostNext]_allVars => [page' /\ ~page => own \/ stray]_allVars
  BY <1>1
<1> QED
  BY <1>2, HostInvariant, PTL DEF HostSpec, DrawnUnderItsOwnSession

\* The lockdown keeps its own invariant under the host: its rules hold in the
\* application, not in the component alone.
THEOREM LockdownUnderTheHost == HostSpec => [](NothingUnwatched /\ NoEndIsDropped)
<1>1. HostInv => NothingUnwatched /\ NoEndIsDropped
  BY DEF HostInv, Inv
<1> QED
  BY <1>1, HostInvariant, PTL
=============================================================================
