------------------------------ MODULE SecureExit ------------------------------
(***************************************************************************)
(* The host application around the lockdown: AppDelegate's attempt screen,  *)
(* the gate that holds the test page back until the session is active, and  *)
(* the four ways off the screen (a refused start, the session's end, the    *)
(* hand-in, a quit).                                                        *)
(*                                                                          *)
(* AssessmentLockdown is the component below.  Its state changes reach the  *)
(* host as Tasks on the main actor, so the host acts on a change later than *)
(* it happened: `hops` is that queue.  A teardown's completion belongs to   *)
(* whoever asked first; `owner` is that caller.                             *)
(*                                                                          *)
(* Left out: the confirmation sheets (a quit or an end here is one already  *)
(* confirmed), instant feedback, and the offline bundle.                    *)
(***************************************************************************)
EXTENDS AssessmentLockdown, Sequences

VARIABLES
  screen,         \* AppDelegate.screen: "entry" or "attempt"
  loaded,         \* onBundleLoaded ran for the attempt on screen
  own,            \* its begin() began the session (history)
  page,           \* its test page is in the web view
  gate,           \* its pageLoadGate
  becameActive,   \* lockdownBecameActive
  handedIn,       \* attemptHandedIn
  leaveOwed,      \* leaveOwedAtSessionEnd
  sheetShown,     \* sessionEndedSheetShown
  leaving,        \* flushPendingInput's goHome is pending
  quitInProgress, \* quitInProgress
  owner,          \* who asked for the teardown that is owed
  stray,          \* a goHome left the session up with the screen (history)
  hops            \* main-actor Tasks not run yet

attemptVars == <<loaded, own, page, gate, becameActive, handedIn, leaveOwed, sheetShown>>
screenVars == <<screen, attemptVars, leaving>>
exits == <<quitInProgress, stray>>
quitVars == <<exits, owner>>
host == <<screenVars, quitVars, hops>>
lockdown == <<machine, session, timers, queue, process>>
allVars == <<lockdown, host>>

\* The host's flags and its queue of Tasks keep their types, over the lockdown's.
HostTypeOK ==
  /\ TypeOK
  /\ screen \in {"entry", "attempt"}
  /\ gate \in {"shut", "opened", "refused"}
  /\ owner \in {"none", "home", "quit"}
  /\ loaded \in BOOLEAN /\ own \in BOOLEAN /\ page \in BOOLEAN
  /\ becameActive \in BOOLEAN /\ handedIn \in BOOLEAN /\ leaveOwed \in BOOLEAN
  /\ sheetShown \in BOOLEAN /\ leaving \in BOOLEAN
  /\ quitInProgress \in BOOLEAN /\ stray \in BOOLEAN
  /\ hops \in Seq({"active", "activeOwed", "idle", "terminate"})

FreshAttempt ==
  /\ loaded' = FALSE /\ own' = FALSE /\ page' = FALSE
  /\ gate' = "shut" /\ becameActive' = FALSE
  /\ handedIn' = FALSE /\ leaveOwed' = FALSE /\ sheetShown' = FALSE

HostInit ==
  /\ Init
  /\ screen = "entry"
  /\ loaded = FALSE /\ own = FALSE /\ page = FALSE
  /\ gate = "shut" /\ becameActive = FALSE
  /\ handedIn = FALSE /\ leaveOwed = FALSE /\ sheetShown = FALSE
  /\ leaving = FALSE /\ quitInProgress = FALSE /\ stray = FALSE
  /\ owner = "none" /\ hops = <<>>

-----------------------------------------------------------------------------
(* The lockdown's own steps, and what they post to the main actor *)

Post(tasks) == hops' = hops \o tasks

MutantActiveHop == "active"

\* onState reads endIsOwedOnBegin before the hop: after it, it is always false.
ActiveHop == IF deferred THEN "activeOwed" ELSE "active"

SessionBegins ==
  /\ DidBegin
  /\ Post(<<ActiveHop>>)
  /\ UNCHANGED <<screenVars, quitVars>>

MutantCompletion == <<>>

\* The completion a quit hands to endBeforeTeardown; the others hand over {}.
Completion == IF owed /\ owner = "quit" THEN <<"terminate">> ELSE <<>>

\* clear() sets the state, then calls the completion: two Tasks in that order.
SessionEnds ==
  /\ FailedToBegin \/ DidEnd \/ Interrupted
  /\ Post(<<"idle">> \o Completion)
  /\ owner' = "none"
  /\ UNCHANGED <<screenVars, exits>>

\* The backstop queue posts a quit's completion too, but exits before it runs, or
\* the main queue it is posted to is hung.
LockdownAlone ==
  /\ \/ Tick \/ MainHangs
     \/ EscalationFires \/ BackstopFires \/ BackstopTakes \/ BackstopFinishes
  /\ UNCHANGED host

-----------------------------------------------------------------------------
(* Leaving *)

\* showEntry(): the attempt and its page are torn down; a quit in progress, the
\* session and a goHome that is pending are not its business.
ShowEntry ==
  /\ screen' = "entry"
  /\ loaded' = FALSE /\ page' = FALSE
  /\ handedIn' = FALSE /\ leaveOwed' = FALSE /\ sheetShown' = FALSE
  /\ UNCHANGED <<own, gate, becameActive>>

\* endLockdown: endBeforeTeardown {}, joining a teardown already owed.
EndLockdown ==
  IF state # "idle" /\ ~owed
  THEN Teardown /\ owner' = "home"
  ELSE UNCHANGED <<lockdown, owner>>

MayReturnHome == screen = "attempt" /\ ~handedIn /\ ~quitInProgress /\ ~sheetShown

MutantReturnHome == sheetShown' = (sheetShown \/ MayReturnHome) /\ UNCHANGED leaving

\* returnHomeAfterSessionEnd: flush the page's input, then go.
ReturnHome ==
  /\ sheetShown' = (sheetShown \/ MayReturnHome)
  /\ leaving' = (leaving \/ MayReturnHome)

\* goHome, 0.35 s and a JavaScript round trip later: the bundle may have loaded
\* meanwhile, and nothing ends the session it began.
GoHome ==
  /\ Main /\ leaving /\ leaving' = FALSE
  /\ IF screen = "attempt" THEN ShowEntry ELSE UNCHANGED <<screen, attemptVars>>
  /\ stray' = (stray \/ (screen = "attempt" /\ state # "idle"))
  /\ UNCHANGED <<lockdown, quitInProgress, owner, hops>>

-----------------------------------------------------------------------------
(* lockdownStateChanged and the quit's completion, on the main actor *)

\* The session is active: open the gate, unless its end is already owed.
OnActive(held) ==
  /\ becameActive' = TRUE
  /\ gate' = IF gate = "shut" /\ ~held THEN "opened" ELSE gate
  /\ UNCHANGED <<screen, loaded, own, page, handedIn, leaveOwed, sheetShown, leaving>>

RefusedGate == IF gate = "shut" /\ ~becameActive THEN "refused" ELSE gate

OnIdle ==
  IF handedIn /\ leaveOwed
  THEN /\ screen' = "entry" /\ loaded' = FALSE /\ page' = FALSE
       /\ handedIn' = FALSE /\ leaveOwed' = FALSE /\ sheetShown' = FALSE
       /\ gate' = RefusedGate
       /\ UNCHANGED <<own, becameActive, leaving>>
  ELSE /\ gate' = RefusedGate
       /\ ReturnHome
       /\ UNCHANGED <<screen, loaded, own, page, becameActive, handedIn, leaveOwed>>

\* NSApp.terminate, with no session up.
Terminate == alive' = FALSE /\ UNCHANGED <<machine, session, timers, queue, mainHung, logHeld>>

RunHop ==
  /\ Main /\ hops # <<>> /\ hops' = Tail(hops)
  /\ \/ Head(hops) = "active" /\ OnActive(FALSE) /\ UNCHANGED <<lockdown, quitVars>>
     \/ Head(hops) = "activeOwed" /\ OnActive(TRUE) /\ UNCHANGED <<lockdown, quitVars>>
     \/ Head(hops) = "idle" /\ OnIdle /\ UNCHANGED <<lockdown, quitVars>>
     \/ Head(hops) = "terminate" /\ Terminate /\ UNCHANGED <<screenVars, quitVars>>

-----------------------------------------------------------------------------
(* The attempt screen *)

\* A join takes a round trip to the server: the hops of the screen it leaves
\* have run by then.
OpenAttempt ==
  /\ Main /\ screen = "entry" /\ hops = <<>> /\ ~leaving
  /\ screen' = "attempt" /\ FreshAttempt
  /\ stray' = (stray /\ state # "idle")
  /\ UNCHANGED <<lockdown, leaving, quitInProgress, owner, hops>>

\* onBundleLoaded, which calls beginLockdown(): begin() refuses while a session
\* is up, and the gate of this attempt then stays shut.
BundleLoaded ==
  /\ Main /\ screen = "attempt" /\ ~loaded
  /\ loaded' = TRUE /\ own' = (state = "idle")
  /\ IF state = "idle" THEN Begin ELSE UNCHANGED lockdown
  /\ UNCHANGED <<screen, page, gate, becameActive, handedIn, leaveOwed, sheetShown,
                 leaving, quitVars, hops>>

\* The gate's waiter resumes; a retired controller discards what it waited for.
PageBuilds ==
  /\ Main /\ screen = "attempt" /\ loaded /\ ~page /\ gate = "opened"
  /\ page' = TRUE
  /\ UNCHANGED <<lockdown, screen, loaded, own, gate, becameActive, handedIn, leaveOwed,
                 sheetShown, leaving, quitVars, hops>>

\* couldNotStartSecurely, on a refused gate or after its 60 s.
StartRefused ==
  /\ Main /\ screen = "attempt" /\ loaded /\ ~page /\ gate \in {"shut", "refused"}
  /\ EndLockdown
  /\ ShowEntry
  /\ UNCHANGED <<leaving, exits, hops>>

\* onHandedIn: the server accepted the submit.
HandIn ==
  /\ Main /\ screen = "attempt" /\ page /\ ~handedIn
  /\ handedIn' = TRUE
  /\ EndLockdown
  /\ UNCHANGED <<screen, loaded, own, page, gate, becameActive, leaveOwed, sheetShown,
                 leaving, exits, hops>>

\* The emergency end: enabled while a session is up, whatever is on screen.
EmergencyEnd ==
  /\ Main /\ state # "idle"
  /\ EndLockdown
  /\ UNCHANGED <<screenVars, exits, hops>>

\* The countdown, started with the bundle, reaches zero.
TimeUp ==
  /\ Main /\ screen = "attempt" /\ loaded /\ ~handedIn
  /\ EndLockdown
  /\ IF state = "idle" THEN ReturnHome ELSE UNCHANGED <<sheetShown, leaving>>
  /\ UNCHANGED <<screen, loaded, own, page, gate, becameActive, handedIn, leaveOwed,
                 exits, hops>>

\* The peek poll, which runs from the moment the screen is up, says that the
\* teacher closed the sitting.
SittingClosed ==
  /\ Main /\ screen = "attempt" /\ ~handedIn /\ ~quitInProgress /\ ~sheetShown
  /\ EndLockdown
  /\ IF state = "idle" THEN ReturnHome ELSE UNCHANGED <<sheetShown, leaving>>
  /\ UNCHANGED <<screen, loaded, own, page, gate, becameActive, handedIn, leaveOwed,
                 exits, hops>>

MutantMayLeave == TRUE

\* BackToTests.decide: never out of a session that is still up.
MayLeave == state = "idle"

BackToTests ==
  /\ Main /\ screen = "attempt" /\ page
  /\ \/ MayLeave /\ ShowEntry
     \/ ~MayLeave /\ handedIn /\ leaveOwed' = TRUE
        /\ UNCHANGED <<screen, loaded, own, page, gate, becameActive, handedIn, sheetShown>>
  /\ UNCHANGED <<lockdown, leaving, quitVars, hops>>

-----------------------------------------------------------------------------
(* Quitting *)

\* applicationShouldTerminate, confirmed or sent by the system: the session
\* ends first and the quit is re-issued from the completion.
Quit ==
  /\ Main
  /\ IF state = "idle"
     THEN Terminate /\ UNCHANGED quitVars
     ELSE /\ quitInProgress' = TRUE /\ UNCHANGED stray
          /\ IF owed THEN UNCHANGED <<lockdown, owner>>
             ELSE Teardown /\ owner' = "quit"
  /\ UNCHANGED <<screenVars, hops>>

-----------------------------------------------------------------------------
HostNext ==
  \/ SessionBegins \/ SessionEnds \/ LockdownAlone
  \/ RunHop \/ GoHome
  \/ OpenAttempt \/ BundleLoaded \/ PageBuilds \/ StartRefused
  \/ HandIn \/ EmergencyEnd \/ TimeUp \/ SittingClosed \/ BackToTests
  \/ Quit

\* The main actor drains its Tasks, the flush comes back, the gate's waiter
\* resumes or times out, and the lockdown's timers fire.  Nothing is assumed of
\* the student, the teacher, the server or the framework.
HostFairness ==
  /\ WF_allVars(RunHop) /\ WF_allVars(GoHome)
  /\ WF_allVars(PageBuilds) /\ WF_allVars(StartRefused)
  /\ WF_allVars(EscalationFires /\ UNCHANGED host)
  /\ WF_allVars(BackstopFires /\ UNCHANGED host)
  /\ WF_allVars(BackstopTakes /\ UNCHANGED host)
  /\ WF_allVars(BackstopFinishes /\ UNCHANGED host)

HostSpec == HostInit /\ [][HostNext]_allVars /\ HostFairness

-----------------------------------------------------------------------------
(* Properties *)

\* Whichever way the student goes home, the session still up has an end asked
\* of it: no route off the attempt screen leaves the Mac locked behind it
\* (bridge audit H-1), but for a goHome that was already pending.
LeavingAsksForTheEnd ==
  alive /\ screen = "entry" /\ state # "idle" => owed \/ deferred \/ endAsked \/ stray

\* A test is drawn only under a session its own attempt began, never under a
\* previous attempt's that is still on its way down (ending-session race,
\* EX-3).  A session left up by a pending goHome is one nobody asked to end.
DrawnUnderItsOwnSession == [][page' /\ ~page => own \/ stray]_allVars

Stopped == ~alive \/ mainHung

\* A session that ends without a hand-in or a quit takes the student off the
\* test, however the end and the screen interleave.
EndedSessionLeavesTheTest ==
  (screen = "attempt" /\ loaded /\ state = "idle" /\ ~handedIn)
    ~> (screen = "entry" \/ handedIn \/ quitInProgress \/ Stopped)

\* A quit whose own teardown is pending does quit.
QuitCompletes == (owed /\ owner = "quit") ~> Stopped

\* BackToTests: the home button is refused because "going home there tore the
\* attempt screen down WITHOUT ending lockdown".  A student on "Your tests" is
\* never on a Mac that is locked with no end asked for, whatever took them there.
HomeIsNeverLockedIn ==
  alive /\ screen = "entry" /\ state # "idle" => owed \/ deferred \/ endAsked

\* AppDelegate: "the test is on screen only while the assessment session is
\* active. After ANY end that is not a hand-in ... the student goes back to
\* 'Your tests'."  Any end includes one that a quit arrived during.
TestLeavesWithItsSession ==
  (screen = "attempt" /\ page /\ state = "idle" /\ ~handedIn)
    ~> (screen = "entry" \/ handedIn \/ Stopped)
=============================================================================
