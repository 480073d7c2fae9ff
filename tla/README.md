# A verification project for secure-test

secure-test gives tests in a school: students take them in a macOS application that
locks the Mac while a test is open (`src/client`), against a web server where teachers
write, run and score tests (`src/design-tool`), over Postgres. This directory holds TLA+ models
of its core, the TLC runs that check them on small instances, and the TLAPS proofs of
what holds for every instance.

    tlasany M.tla                          parse a module
    tlc -workers 2 -config X.cfg MCM       check a model (the run table below pairs them)
    tlapm M.tla                            check the proofs of a module

## 1. The system

| part | where | state | operations | talks to |
|---|---|---|---|---|
| attempt plane | `design-tool/app/api/attempts`, `test-sessions`, `lib/api/*Attempt*.ts`, `sittingOver.ts` | rows `attempts`, `test_sessions`, `responses` | join, save, submit; hand in (one, all), extend (one, all), pass back, delete, close | spool (its client), score ledger (hand-in and pass back) |
| score ledger | `lib/scoring`, `app/api/responses`, `scores`, `response-revisions` | rows `scores`, the claim on `responses` | auto pass, AI run and re-run, approve, score, change, rescore, restore | attempt plane, items, screening |
| response spool | `ResponseSpool.swift`, `AssessmentViewController.swift` | `pending_responses` (SQLite on the Mac), one task chain per screen | enqueue, flush, retry pass, hand-in, clear | attempt plane over HTTP |
| lockdown | `AssessmentLockdown.swift`, `LockdownScheduler.swift` | state machine, four timers, the framework's session | begin, end, endBeforeTeardown, events, ticks | AEAssessmentSession below, host above |
| host application | `AppDelegate.swift`, `PageLoadGate.swift`, `BackToTests.swift` | the screen, the gate, flags, Tasks on the main actor | open, hand in, go home, time up, sitting closed, quit | lockdown (callbacks), spool, peek poll |
| peek, countdown | `PeekResponder.swift`, `api/.../peek`, `TimeLimitCountdown.swift` | `peek_requests` rows, waiters, one timer, the notice strip | ask, poll, disclose, render, upload, collect; re-arm | host, attempt plane |
| drawings | `AssessmentPage.swift`, `UploadGate.swift`, `responseUploads.ts` | the canvas, a post's task, the gate's count, `response_uploads`, objects in storage | draw, post, register, upload, enqueue, prune, write, hand in | spool, attempt plane, object storage |
| screening and alerts | `lib/safeguarding` | alert rows, screened marks | screen after hand-in, before scoring, and hourly | score ledger, the providers |
| gradebook send | `lib/gradebook`, `api/.../gradebook` | `gradebook_pushes`, `gradebook_push_scores` | claim, plan, check, create, write and record each score | PowerSchool |
| Docs release | `lib/googleDocs` | `google_doc_releases`, a send's workers | decide, folders, upload, share, transfer, record, resume | Google Drive |
| editor | `AssessmentEditor.tsx`, `autosave.ts`, `api/.../items`, `itemSnapshots.ts` | the card, its autosaver, `items`, `item_snapshots` | edit, flush, restore, change type, accept a suggestion | |
| error log | `ClientErrorLog.swift`, `ClientErrorDrain.swift`, `CrashReporter.swift`, `api/client-errors` | the file, its descriptors and counters, a lock, drains under way | record, cap, drain, crash line, exit(70) line | lockdown (the backstop), the server |
| the rest | see `components` in PROJECT.json | | import, access, roster, renderer delivery, reporting | |

What makes it hard:

- **Handlers hold nothing.** A route loads a row, decides, awaits, and updates by id.
  Only pass back, restore, change of a score and rescore are transactions, and those lock
  nothing their readers read. What keeps the data right is a handful of
  `WHERE status = ...` clauses, two unique indexes and a lease.
- **Two threads and an operating system** run the lockdown. The framework drops an `end()`
  that comes too early and may never answer; the main queue may hang; the timers that get a
  student out run on a second queue and share one field with the first.
- **The host hears late.** Each state change of the lockdown reaches it in a Task that runs
  after more has happened, and each way off the screen is asynchronous.
- **The wire loses answers** before or after the server acts, the application dies, the
  student goes home and comes back, and the answer must get through.
- **Another system keeps the other half.** An assignment in PowerSchool, a Doc in Drive and the row that
  names it are written by separate calls, each of which may act and not answer; the send that wrote one
  may die before the other, and the teacher sends again.
- **A pass reads, asks a slow provider, and marks**, while the answer is edited, handed in, passed back
  or looked at by another pass.
- **The page and the server each hold a copy.** An edit, its save, its answer, a restore
  and the next edit of the same card overlap on the wire.

What makes each part correct is stated in section 4; what can go wrong, at its line, is
the `hazards` list of PROJECT.json.

## 2. Modules

    AttemptContract <---implements--- AttemptPlane       <- MCAttemptPlane
                                        ^  AttemptPlaneProofs
    SecureSession   <---implements--- AssessmentLockdown
                                        +- SecureExit (the host over it) <- MCSecureExit
                                             ^  SecureExitProofs (the lockdown's proofs and the host's)
    ScoreLedger                                          <- MCScoreLedger
       ^  ScoreLedgerProofs
    ResponseSpool                                        <- MCResponseSpool
       ^  ResponseSpoolProofs
    Screening                                            <- MCScreening
    GradebookSend, DocsRelease, DrawingUpload            <- MCTransfers
       ^  GradebookSendProofs, DocsReleaseProofs, DrawingUploadProofs
    PeekPlane, ItemAutosave, ErrorLog                    <- MCBesideTheTest
    PeekPlane, ItemAutosave, Screening
       ^  BesideTheTestProofs

The MC modules hold values of constants. MCTransfers and MCBesideTheTest also run modules that share no state under one
specification: a variable says which one a behaviour runs, so their states add. MCSecureExit and
MCScreening choose in the same way between the lockdown with its host and alone, and between two scales
of the screening. Operators named `Mutant...` are versions of
the operator below them with a plausible bug; no specification uses them. They are there
so that each property can be shown to fail when the code is broken.

**AttemptPlane.** One student, one assessment, the attempt row (`attempt`), its sittings,
one item's stored answer, a clock in ticks, and slots of requests in flight (`req`). A route
is split where it awaits: `XxxLoad` is the first read with the early returns it decides,
`XxxCheck` the reads of the sitting and the limit, `XxxCommit` the write. A request keeps
the row it read (`Seen`), then only its id (`ById`), because that is what the UPDATE uses.
Deadlines, graces and the expiry are the code's rules (`DeadlineFor`, `SittingIsOver`,
`IsPastDeadline`). `id` counts the attempts a student has had, so that a write for a deleted one is
told from one for its successor. Passing the attempt back needs a new deadline when it is timed,
as in the route.

**AttemptContract.** What those handlers amount to: the life of an attempt
(absent, in progress, submitted, back), and that an answer reaches the database only if
it was accepted while that same attempt was in progress. It is weaker than "nothing
changes after the hand-in" on purpose: an answer accepted before may land after.

**ScoreLedger.** Per answer a sequence of `scores` rows with method, status, points and
the row each replaced (`from`, the `changed_from` of the rationale); the answer's text and
the item's key; the AI claim with its expiry; and requests. `Conflicts`
is the partial unique index, `Claimable`/`Claim`/`Released` the lease, `Scored` the skip under it.
The verdict of the screening and of the AI provider is a choice. Approving an AI *final* only
marks it as reviewed and is left out.

**ResponseSpool.** One attempt from the student's keyboard to the server. The n-th value of
an item is the number n, so "older" is `<`. `disk` is the spool; `tasks` are the flushes of all
screens in the order asked for, each waiting for the earlier ones of its own screen (`MayTurn` is
`serialized`), with one request on the wire at a time, which may be lost before or after
the server acts. Each screen has a spool actor of its own over the one file, so the flushes
of two screens run beside each other; `crossed` are the items that flushes of two screens have
carried at once, `revised` those given anew since Finish (both history). `finish` is the hand-in of
each screen. The server's side is one step: AttemptPlane has its interleavings.

**AssessmentLockdown.** One action per operation, event or timer. `os` and `endAsked` are
what the framework really does, `state` what the machine believes. `Main` guards what runs
on the main queue, `BackstopQueue` what does not. `finishTeardown` on the backstop queue is
split in the read of the completion and its use, as nothing orders it with the main queue.
The exit itself asks the error log for the attempt's id, under the log's lock: when the main thread hung with
that lock held (`logHeld`) the backstop's closure is stuck and the process stays.
A timer's length is not counted: an armed one may fire at any time, which includes
every real order. The half-grace timer only logs.

**SecureSession.** Open, locked, gone or wedged, and an exit that is asked for: what
the lockdown owes the host. Wedged is the one broken promise, and the refinement says that nothing but the
log's lock leads there.

**SecureExit.** EXTENDS the lockdown and adds the host. `hops` are the Tasks on the main
actor; `owner` is whose completion a teardown will call; `leaving` is a goHome that
waits for the page's flush. `stray` and `own` are history: the session a pending goHome
left behind, and whether the attempt on screen began the session itself.

**GradebookSend.** One section of an assessment. `pushes` are its rows, a claim being one whose
assignment is still null, with what each attempt last sent; `gradebook` is PowerSchool; `send` holds what
a request read. The order is the code's: prior scores, plan, check (which archives a push whose assignment is gone),
claim, create, note, then per student the write and, only after it, the record. A call may be
lost before or after PowerSchool acts, a send may die between any two steps, a claim ages past
`CLAIM_STALE_MS` while its send still waits, and totals change all the time. `lostCreate` and `doubtful` are
history: where one half is known to be unconfirmed.

**DocsRelease.** A section's students in one Drive. `Decide` takes every student's outcome before Drive is touched;
`worker` runs jobs off `queue`, one call a step. A refused token stops the queue (`authLost`), an exception
makes the request fail while its other workers go on, as `Promise.all` does, and a resumed send skips
whoever has a record. A share and the answer to it are two steps (`Share`, `ShareAnswered`): Drive may have acted
when the answer is lost, unreadable, or comes to a worker that is gone. `slipped` are the students that was done to
with nothing left to record it, and those whom two sends had in hand at once.

**DrawingUpload.** A drawing from the canvas to the answer, across four actors. The page keeps `dirty` and `inFlight`
and posts one picture at a time; the host's task (`upload`) asks for a slot, sends the bytes to storage, puts the
response that names the slot in the spool (`row`) and flushes it; `gate` counts tasks, each of which tells the gate it is over
by a task of its own (`ending`); the server (`put`) checks the slot, reads the item's other slots, deletes
them, and writes the answer, and any of these may be the last thing a handler does. `finish` is the
hand-in: posts what is dirty, waits for the gate, flushes, submits. Slots are numbered in the order they were
registered. `due`, `behind`, `told`, `restored`, `unsaved`, `outrun` and `torn` are history: what was owed when Finish
was pressed, and the cases the code admits or section 6 reports.

**Screening.** `mark` is what `safeguarding_screened_at` says against the last edit; `line` the submitted attempts
in order of hand-in; `pass` the passes under way, each with the list it took and the text it read. The
retry takes the `Batch` oldest stale answers whose grace is over. Either half, the screener or the guardrail,
may fail; a mark is written only when both answered. Both orders of alert and edit, a restart between any
two steps and a failed write are there. `overtaken` are the answers whose mark came from a pass that had read an
older text: the mark is written by id, with the time of writing.

**PeekPlane.** The rows and five routes of a look, each split at its awaits; the student's poll, which brings the
question, a changed limit and a closed sitting in one answer; and `hops`, the blocks of the main queue, which run
later than what posted them. The strip shows the last of the disclosure and the time notices, and a
timer of the second kind must not take down the first (`armed` is its token). The countdown is restarted,
warned, or removed by what the poll says. SecureExit has what follows the end of the session.

**ItemAutosave.** A card (`shown`), what the editor last heard was saved (`persisted`), the autosaver's debounce, flight
and trailing value, the hold of a restore or a change of type, the PATCHes on the wire, each of which may be
stored with its answer lost, and the server's item with its capped, throttled history. The card has one
`saving` for the PATCHes of its three paths, as the page has one `itemSave`: whichever is answered first
puts it back, the others still out. `unsure` is the history of what follows from that. `Synced` is the
render after each change, which offers the card again; React runs it before anything else can happen.

**ErrorLog.** The n-th error line is the number n. `file` is what errors.log holds, `unended` that its last line has no
newline, into which the next write goes. A write cut short leaves a line that is itself, no JSON, or no UTF-8, and
that difference decides what `ReadEntries` and a rewrite make of the file. `lock` is the log's NSLock with what its holder
does next: `Write`, then, past a bound, `Rewrite` (the new file goes over the path) and `Reopen` (the descriptor), the
pair a drain's removal takes too. `drain` holds what each drain read, and how much of it the server took.
`crashes` says whether the number the crash handler keeps still names the file. The process may
end at any step (`Quit`, `CrashSignal`, `ExitUnrecoverable`) and is launched again. `trimmed`, and `stale`
of a drain whose file was shortened under it, are history.

## 3. Runs

| run | module, cfg | states | shows |
|---|---|---|---|
| attempt | MCAttemptPlane, AttemptPlane.cfg | 3 501 725 | any two routes interleaved, at every await |
| secure_exit | MCSecureExit, SecureExit.cfg | 120 183 | the lockdown by itself and under its host, every event in every order |
| scores | MCScoreLedger, ScoreLedger.cfg | 2.6 million | two overlapping requests of eleven kinds on an answer |
| spool | MCResponseSpool, ResponseSpool.cfg | 466 889 | typing, losses, crash, closed sitting, a trip home over flushes still out, hand-in in every order |
| screening | MCScreening, Screening.cfg | 498 832 | passes after a hand-in, before scoring and hourly, over an answer that changes; the retry between two answers |
| transfers | MCTransfers, Transfers.cfg | 3 714 239 | two overlapping gradebook sends; two Docs sends of two workers each; a drawing from canvas to hand-in |
| beside_the_test | MCBesideTheTest, BesideTheTest.cfg | 295 640 | three days of a monitor; one card of the editor; the error log |
| lost_quit | SecureExit, SecureExitLostQuit.cfg | violation | see section 6 |
| locked_in | SecureExit, SecureExitLockedIn.cfg | violation | see section 6 |
| score_reopened | MCScoreLedger, ScoreReopened.cfg | violation | see section 6 |
| spool_hand_in | MCResponseSpool, SpoolHandIn.cfg | violation | see section 6 |
| spool_overlap | MCResponseSpool, SpoolOverlap.cfg | violation | see section 6 |

Bounds, and why they are enough:

- *attempt*: two slots. The races of this code are of a request with what happened between
  its read and its write, which a second slot produces in any order; a third adds only
  chains of the same. Slot `r1` runs the student's routes, `r2` a teacher's, or a second
  device's join. Two sittings, since a rebind needs two; teachers act on the first. One answer
  value besides none; ticks 0..2 with limit 1, close grace 1, one deadline to name, so that
  every check is met on both sides of its instant. Two attempts (`MaxId`), one pass back.
- *scores*: one answer. The rules never relate two answers of an attempt, but for the
  order a batch takes them in, and a batch claims one at a time. Two texts, symmetric; four
  rows, two pass backs; `Routes` says which kinds each slot runs.
- *spool*: one item with two values, two screens, three flushes at once, so that two of one screen
  can meet one of the other. The properties are about one item at a time; a flush that stops half-way
  and leaves a second item behind is in *spool_overlap*, *spool_hand_in* and the proofs, which bound nothing.
- *secure_exit*: no bound on behaviour: the state is finite. The watchdog is asked for 1 tick and raised to the floor of 2.
- *screening*: on the scale "race" one answer, since passes over different answers share nothing; on the scale
  "queue" two, which share the batch, of size 1, so that the retry must choose, and the hand-ins' own passes are lost,
  which is what the retry is for. On the second scale nobody acknowledges alerts, the task is not restarted, and a text changes only before
  the answer is handed in or after it was passed back. Three texts, one of each kind that matters: one raises a concern, one
  also steers the scorer, one is blank. The retry, one other pass, one restart, one failed write.
- *transfers*: two sends overlap, which is what the claim is for. One candidate, two totals, two pushes, two
  assignments: a second of either is what must not happen; the students and workers of a class are symmetric, and the
  slot that sends Docs first is the first. A total is read by nothing but a send's plan, so it changes
  before one. One loss: the properties excuse a student whose call was lost, and a second loss only excuses more. For Docs two students and two workers, so
  that one fails while another works; two Docs, two sends, one change around them; the dialog as it is
  when a send is resumed, with the transfer on. For the drawing two pictures in two slots, so that an older one
  can follow a newer, one response at the server at a time, two faults: a request lost on either side, a dead handler
  or a crash of the application, so that what one of them leaves meets another. Responses that overlap at the server, and
  the case `restored`, which takes a third slot, are left to the proofs, which bound nothing.
- *beside_the_test*: two monitors, two looks, two deadlines besides no limit, so that a running clock is moved
  to another as well as removed, two waiting blocks, one lost poll. The days bound what happens together, not in which order: both
  monitors collect while the sitting stays as it is; or one asks while the limit goes and comes back and the clock runs out; or
  nobody asks and the news of the sitting must arrive. Two contents of the card, which three paths may send
  at once, a history of two, one failed PATCH.
  Three error lines where two may stay, one of double length, one line to a request, so that the cap meets a drain that has sent
  half; two drains; two faults, so that a line cut short meets a failed rewrite, a lost answer or a second end.

Deadlock is checked in *attempt*. The others may stop: the process exits, or the test is
handed in, the editor left, or every bound used up.

Seventeen more configurations of the same modules are kept for the counterexamples of section 6 that have no run:
LockdownWedged, LockdownTwice (on AssessmentLockdown), ScreeningStarved, ScreeningOvertaken (on MCScreening),
DocsResumed (on MCTransfers), DrawingHandedIn, DrawingSaved (on DrawingUpload), PeekFrame, PeekStack, PeekOldClock
(on PeekPlane), EditorSaved, EditorLeft, EditorReplace (on ItemAutosave) and ErrorLogFront, ErrorLogHalfLine,
ErrorLogLastWords, ErrorLogBytes (on ErrorLog). TLC ends each with a violation.

Only *attempt* and *secure_exit* run their type invariant. Those of SecureExit, ScoreLedger, ResponseSpool,
GradebookSend, DocsRelease, DrawingUpload, PeekPlane and ItemAutosave are proved; those of Screening and ErrorLog hold of
the same instances, and are kept out of the runs, which say more.

## 4. Properties

*AttemptPlane*: `HandedInColumnsAgree` (submitted iff there is a hand-in instant; no open
attempt says a teacher handed it in); `SubmittedStaysInItsSitting` (no racing join moves a
record); `StudentKeepsTheirTime` (only a teacher shortens an attempt's time);
`ImplementsContract`.

*ScoreLedger*: `HistoryIsAChain` (at most one final, no row replaced twice, replacements
point back at superseded rows); `OneAiScorePerAnswer` (of overlapping runs, by the check under the claim; a run
whose claim another took over as expired may add a second, and is left out); `HandGivenScoreStands` (a scorer's late
result or a rescore never replaces a teacher's own score); `HolderKeepsTheClaim` (a late release
never frees the claim of the request that took over).

*ResponseSpool*: `NoAnswerLost` (until the hand-in, the last value is on the server or on
the disk); `NeverGoesBack`; `HandInCarriesTheAnswers` (what had been given when Finish was pressed); and, as
liveness, `FinishIsAnswered`. A student may go home and come back over flushes still out. The three safety
properties then leave out one thing by name: an item that flushes of two screens have carried at once (`crossed`), of which
*spool_overlap* shows what becomes.

*AssessmentLockdown*: `NothingUnwatched`, `NoEndIsDropped`, `NothingOutlivesTheSession`,
`CompletionIsConfirmed` (when a completion is called; that both queues may call it is `CompletedOnce`, section 6),
`KeepsThePromise` (refinement of SecureSession, with its liveness: every exit asked for is answered, unless
the main thread hung with the log's lock held) and `WatchdogEndsTheSession`.

*SecureExit*: `LeavingAsksForTheEnd`, `DrawnUnderItsOwnSession`, and, as liveness,
`EndedSessionLeavesTheTest` and `QuitCompletes`.

*Screening*: `ScreenedMeansHeard` (of an answer that is marked by passes which read it as it stands, all concerns have been
before the teacher, whichever passes, outages and restarts raced; the mark of a pass whose answer was edited under it is
section 6's) and, as liveness, `EveryAnswerIsScreened` (the retry finds each answer among the others, unless again and again
blank ones fill its batch or handed-in ones are edited, which puts them back at the head of the line).

*GradebookSend*: `NoSecondAssignment`, `RecordIsTheGradebook` (a score skipped as unchanged really
is there). *DocsRelease*: `NoSecondDoc` (resuming gives a student a second Doc in no other way
than the two of `slipped`), `EveryPupilIsAnswered` (the answer accounts for the whole class). Their exceptions are the cases
where a call's outcome is unknown and two sends that overlap; each is history the model keeps. `RecordIsTheGradebook` is
therefore about refused, unchanged and archived rows, not about answers that were lost.

*DrawingUpload*: `DrawingIsHandedIn` (the picture on the canvas when Finish was pressed, or a later one, is the
answer when the attempt is handed in) and `AnswerHasItsDrawing` (whatever is deleted for an upload, resent or refused, the
answer never names a slot without its bytes). The exceptions of the first are the student who was told that it could not
be saved before the hand-in went on (`told`); Finish over a post that was out (`behind`, section 6); a test opened again on a
picture of the server's newer than the one the spool still has to send, which then replaces it (`restored`: two crashes
around a response that was stored and not heard); and, as in the second, responses that overlapped or died
half-way at the server (`outrun`, `torn`).

*PeekPlane*: `FrameGoesToOne`, `DisclosureStays`, and, as liveness, `NewsReachesTheStudent`.
*ItemAutosave*: `SavedMeansSaved`, `ReplacedIsKept`, and, as liveness, `EditsReachTheServer`. All three leave out `unsure`:
a PATCH stored beside another path's, or after another path's answer had put the one `itemSave` back, or whose answer was
lost. *EditorSaved* shows why (section 6).
*ErrorLog*: `TakenBeforeItGoes` (no line goes that neither the server has nor the cap dropped) and, as liveness,
`EveryLineIsSent`; both with the cases of section 6 left out by name (`StaleRemoval`, `Unreadable`, `CutShort`).

**Fairness.** AttemptPlane, ScoreLedger, GradebookSend, DocsRelease and DrawingUpload have none, and no liveness is asked of them: a
request may die anywhere. The lockdown assumes that an armed dispatch timer fires and its
closure ends, and that the watchdog ticks while the main queue drains; of the framework it
assumes nothing. SecureExit adds that the main actor drains its Tasks, the script
call that flushes the page before going home answers (with an error if the page is dead), and the
gate's waiter resumes or times out after its 60 s. The spool
assumes that a flush's own steps and the hand-in's are taken, and every request is answered or
times out, which `URLSession` does; never that one succeeds. PeekPlane assumes that the poll's timer fires, that its
request comes back (bounded failures) and that the main queue drains. ItemAutosave assumes that the debounce fires,
continuations run, and requests are stored or fail. ErrorLog assumes that the holder of the lock goes on, that a drain's requests come
back, and that the entry screen opens signed in again, as it does before every test. Screening assumes that the hourly retry ticks and takes its
steps, and, strongly, that a pass which asks about an answer again and again is some time answered by both
halves: the screening is for outages that end.

## 5. Proofs

| theorem | module | says |
|---|---|---|
| AttemptInvariant | AttemptPlaneProofs | `Spec => []Inv`, the inductive invariant |
| AttemptTypes, ColumnsAgree | AttemptPlaneProofs | `[]TypeOK`, `[]HandedInColumnsAgree` |
| StaysInItsSitting, KeepsTheirTime | AttemptPlaneProofs | the two action properties |
| Implements | AttemptPlaneProofs | `Spec => ImplementsContract` |
| LockdownInvariant | SecureExitProofs | `Spec => []Inv` |
| LockdownTypes, Watched, EndsAreHonoured, CleanSlate | SecureExitProofs | the four invariants of the run |
| Confirmed | SecureExitProofs | `CompletionIsConfirmed` |
| KeepsThePromiseSafely | SecureExitProofs | the safety half of `KeepsThePromise` |
| HostInvariant | SecureExitProofs | `HostSpec => []HostInv` |
| HostTypes, LeavingEnds | SecureExitProofs | `[]HostTypeOK`, `[]LeavingAsksForTheEnd` |
| DrawnUnderOwn | SecureExitProofs | `DrawnUnderItsOwnSession` |
| LockdownUnderTheHost | SecureExitProofs | the lockdown's `NothingUnwatched` and `NoEndIsDropped`, with the host over it |
| LedgerInvariant | ScoreLedgerProofs | `Spec => []Inv` |
| LedgerTypes, ScoreHistory, OneAiScore | ScoreLedgerProofs | `[]TypeOK`, `[]HistoryIsAChain`, `[]OneAiScorePerAnswer` |
| HandGivenStands, HolderKeeps | ScoreLedgerProofs | the two action properties |
| SpoolTypes | ResponseSpoolProofs | `[]TypeOK` |
| SpoolInvariant | ResponseSpoolProofs | `Spec => []Inv` |
| NothingLost, NeverBack, CarriesTheAnswers | ResponseSpoolProofs | `[]NoAnswerLost`, `NeverGoesBack`, `HandInCarriesTheAnswers` |
| GradebookInvariant | GradebookSendProofs | `GradebookSpec => []Inv` |
| GradebookTypes, OneAssignment | GradebookSendProofs | `[]GradebookTypeOK`, `[]NoSecondAssignment` |
| RecordInvariant, RecordsHold | GradebookSendProofs | `[](Inv /\ Said)`, `[]RecordIsTheGradebook` |
| DocsInvariant | DocsReleaseProofs | `ReleaseSpec => []DocsInv` |
| DocsTypes, NoSecond, EveryoneAnswered | DocsReleaseProofs | `[]ReleaseTypeOK`, `[]NoSecondDoc`, `[]EveryPupilIsAnswered` |
| DrawingInvariant, HandInInvariant | DrawingUploadProofs | `DrawingSpec => []AnswerInv`, `DrawingSpec => []HandInInv` |
| DrawingTypes, AnswerDrawn | DrawingUploadProofs | `[]DrawingTypeOK`, `[]AnswerHasItsDrawing` |
| HandedIn | DrawingUploadProofs | `DrawingIsHandedIn` |
| PeekInvariant, AutosaveInvariant, ScreeningInvariant | BesideTheTestProofs | `PeekSpec => []PeekInv`, `AutosaveSpec => []AutosaveInv`, `ScreeningSpec => []ScreenedInv` |
| PeekTypes, AutosaveTypes | BesideTheTestProofs | `[]PeekTypeOK`, `[]AutosaveTypeOK` |
| OneReader, DisclosureIsKept | BesideTheTestProofs | `[]FrameGoesToOne`, `DisclosureStays` |
| AllChangesSaved, RestoreLosesNothing | BesideTheTestProofs | `[]SavedMeansSaved`, `ReplacedIsKept` |
| Heard | BesideTheTestProofs | `[]ScreenedMeansHeard` |

They hold for any set of sittings, requests, answers and texts, any limit, grace and bound, any items, screens and
flushes of a student, any sends, students, totals, workers and Docs of a section, any pictures, slots, handlers and
faults of a drawing, any monitors, requests and deadlines of a look, any contents and copies of a card, and any answers,
texts, concerns and passes of a screening, under the modules' own
assumptions (`TimesAssumption`, `NoAnswerAssumption`, `SittingsAssumption`;
`WatchdogAssumption`; `LedgerAssumption`; `SpoolAssumption`; `GradebookAssumption`; `ReleaseAssumption`;
`DrawingAssumption`; `PeekAssumption`; `AutosaveAssumption`; `ScreeningAssumption`), which TLC evaluates in the runs. They say that values that stand for nothing are none of the
real ones and that bounds are numbers. No theorem assumes anything else: what a property leaves out is in the property.

*Attempt plane.* `HandedInColumnsAgree` alone is not inductive: a write puts what a request holds into the
row, so the types of both are needed with it. `Inv` is the types, `Good` of the attempt row (a row
whose hand-in columns agree) and `Slot` of each request (a free slot holds nothing of the request
that left it, without which the refinement could take leftovers for a write). The proof has a step per action. For
`StudentKeepsTheirTime` the argument is that a student's request changes a deadline in one place only, the
inherited removal of a limit, which is never later than none; a submit keeps the columns
`DeadlineFor` reads.
The refinement maps a write in flight to an accepted
answer, everything else a request holds to nothing; each action is one step of the
contract or a stutter, by cases on whether the row the request updates is still there.

*Lockdown.* No safety property is inductive alone: that nothing is armed when idle needs that
the machine's state follows the framework's (`StateTracksTheSession`), and that an owed
teardown is watched needs where the backstop's closure stands, which is stuck only behind a hung main thread that holds
the log's lock (`StuckBehindTheLog`). `Inv` is the
conjunction of all of them.

*Host.* A step of the host is one of the lockdown's, leaves the lockdown alone, or ends the process, so the
lockdown's `Inv` carries over. What is new is that the host hears late. `HostInv` therefore speaks of the Tasks still
queued: on a screen whose attempt began no session of its own, none of them opens its gate (`GateIsHeld`), since whatever
session there is has been asked to end. `LeavingAsksForTheEnd` needs in addition that a session still
starting defers its end, which the framework would otherwise drop, and that a hand-in came from a page
that had loaded.

*Score ledger.* The rows of an answer are a chain (`Sound`), but an insert keeps them so only if what the request
read still holds. `InStep` ties each request to the rows: a plan to replace names a row there is and the unique index
stops the second of two; an approval comes after a row the AI wrote; a scorer holds the answer's claim and no AI row
has come since its check, or it lost the claim to a takeover, which `tookOver` recalls. The two action properties go by
the few steps that supersede a final or free a claim.

*Response spool.* The flushes of one screen wait for each other (`InTurn`), so two flushes with entries in flight are of two
screens, and an item that both carry has crossed (`OneCarrier`). Of any other item one flush has the one entry there
is, no older than the server's copy and no newer than what was given last (`Known`), and a row on the disk is its item's
last value (`DiskIsLast`). A hand-in goes on only when the rows that are left are held back by a closed sitting or were given
since (`LeftIsHeld`); `HandInCarriesTheAnswers` is
about the others, which by `NoAnswerLost` are then on the server.

*Gradebook.* `NoSecondAssignment` says nothing of why a second create cannot start. `Inv` adds it: a section has
one live row, claim or not (the unique index); a send that creates owns the claim it made, unless the claim was
taken over as stale, which `lostCreate` records; and an assignment that exists is named by the live row, or by
the one send that is about to write it there. Two assignments would then be named by the same row, by
the same send, or by a live row and a claim at once. Most actions move sends that hold no claim,
which one lemma (`Moves`) covers; the claim, the create and the note of the id have each their own.
`RecordIsTheGradebook` needs `Said` on top: of an attempt that is not doubtful one send at most owes the record, and it owes
what stands in the gradebook (`OwesTheCell`); an archived row's assignment is gone, so only the one live row's is written;
and when a row takes an assignment's id, the row has sent nothing and no cell is filled (`Placed`, `Unnoted`), so that a new push
starts true. A write that finds another one unrecorded is the case `doubtful` is for.

*Docs.* Of every send, `Told` says where each student is: decided at once, in the queue, in one worker's hand, or
answered, which gives `EveryPupilIsAnswered` of a send that did not throw. `OwnDocs` says that no two workers have the same Doc
in hand. With every send skipping whoever has a record, `Kept` says that a student who has not `slipped` is in one hand
at most and has one Doc at most, recorded or with the worker that is about to record it; a student still waiting or being
shared with has none. A share that was not answered, and a worker that fails after it, make the student slip. Counting Docs is then showing that two are equal.

*Drawing.* `AnswerInv` (one post at a time, counted by the gate; whatever names a slot names one that is there; the
response that is listened to is of the flush that runs; one deletes at a time unless `torn`) gives
`AnswerHasItsDrawing`. The hand-in needs the order of pictures as well: `InTime` says that the slots older than the answer's are gone
and those sent are no newer than the row, and that at each stage of the hand-in a picture no older than the one due
is saved or on its way. It holds only of a history without excuse, so `HandInInv` has it under `Clean`.
Looking for it corrected the property: an earlier form excused whatever could not be saved at some time (`unsaved`) instead of
what the student was told when the hand-in went on, and had no `restored`; it held with one fault and
failed with two. *transfers* has two faults since.

*Look.* `HandedOnce` ties the history to the row: a frame handed out once has its row marked as viewed, and no handler
takes that mark off, the sweep, the deletes and the late upload included. `DisclosureStays` is that an armed
timer belongs to a notice (`StripOK`). The types need that each block on the main queue names a deadline or a request there
is (`HopSays`), since it is used after the poll that posted it.

*Card.* The server's content and the editor's `persisted` differ while a PATCH is out. `Agree` says how: unless the history is
`unsure`, at most one PATCH is stored and not answered, it is what the server holds, and the card still reads saving;
with none, `persisted` is what the server holds. `ReplacedIsKept` adds that a replacement on its way, of saved content, replaces what the server still holds (`OverHolds`),
and a fact about the pruned history: the content copied last survives the pruning (`CopiesStep`).

*Screening.* A pass marks long after it read. `HasRead` says that a pass whose answer was not edited since still has
its text; `Reports` that of what both halves reported everything is an alert or about to be one, and at the mark
an alert. An edit parts the passes from the text (`moved`); a mark of theirs makes the answer `overtaken`, until a pass that read
the new text marks it. What a retry still has
to do is left open: which answers `SelectSeq` picks is of no account.

Only model-checked: every liveness property (fairness and ENABLED are beyond this prover), and with it
the liveness half of `KeepsThePromise`; `TakenBeforeItGoes` of ErrorLog, which counts lines of the file against the entries that `SelectSeq` picked of
it, and so needs an induction over the file; and for the same reason `ScreeningTypeOK`, whose lists come out of `SelectSeq`.

## 6. What the models found

Each is a run whose one property the code's own comment states and TLC finds violated;
`findings` in PROJECT.json quotes the lines.

- **lost_quit.** Cmd-E (or time up, or a closed sitting), then Cmd-Q before the end is
  confirmed. The second teardown request is dropped with its completion, but `quitInProgress` is
  set. The session ends, nothing quits, and the guard on `quitInProgress` keeps the
  student from being sent home: the test stays up on an unlocked Mac.
- **locked_in.** The poll (or the clock) sends the student home before the bundle has
  loaded. The bundle loads while goHome waits for the page's flush, begins a session, and
  goHome then leaves the screen without ending it.
- **score_reopened.** An auto pass or AI run reads, the teacher passes the attempt back,
  the run inserts a final. After the student's corrections the next pass skips the answer.
- **spool_hand_in.** A row held back by a closed sitting, whose retry after the next join
  was lost on the wire, does not count as remaining: Finish submits without it.
- **spool_overlap.** The student goes home while a flush is on the wire, comes back and edits: the new screen's spool
  knows nothing of the old one's, both send, and the older value lands after the newer, whose row has left the disk.

The same without a run of its own, each found by TLC in the configuration named:

- **The last way out takes a lock** (LockdownWedged). exit(70) asks the log for the attempt's id first; a main thread that
  hangs while it writes a line holds that log's lock, and the Mac stays locked.
- **Called twice** (LockdownTwice). The main queue confirms the end between the backstop's read of the completion and its
  write: both call it.
- **Screened, but not this text** (ScreeningOvertaken). The answer is edited while a pass is at work on it; the pass's mark is
  by id and newer than the edit, and a text nobody screened counts as screened.
- **A second Doc after a resumed send** (DocsResumed). Drive has shared the Doc, its answer is lost, nothing is recorded, and
  the send that skips whoever has a record makes another.
- **Blank answers starve the retry** (ScreeningStarved). A blank answer is passed over and never marked, so it stays
  at the head of every batch; a batch full of them keeps every later answer from being screened.
- **The last strokes stay behind** (DrawingHandedIn). Finish while a post is out: the newer picture is posted when the
  page hears of that one, and the hand-in, woken by the gate, does not wait for the page.
- **"Saved." and gone** (DrawingSaved). The response of an older slot deletes the slot of the upload under way;
  the newer response is refused for good, and the host reports it saved.
- **A clock that was replaced sends the student home** (PeekOldClock). The expiry waits on the main queue behind
  the block that restarts the countdown.
- **A frame without the disclosure** (PeekFrame). A time notice takes the strip between the banner and the render.
- **Two open questions** (PeekStack). Two monitors both delete, then both insert.
- **"All changes saved" when they are not** (EditorSaved). The answer to one path's PATCH puts the card's one `itemSave` to saved
  while another path's PATCH is out, which is then stored over it. No failure is needed; with one, a PATCH that is stored
  and whose answer is lost does the same to a card that went back to its old content.
- **Left with what was typed in between** (EditorLeft). The card is back at its saved content while the PATCH
  of the other is on the wire: nothing is pending, and leaving flushes nothing.
- **Typing lost under a change of type** (EditorReplace). What is typed while the flush waits is overwritten.

- **A line dropped that nobody has** (ErrorLogFront). The cap moves the front of the file while a drain waits for the
  server; the drain then removes that many lines from the new front.
- **Half a line wipes the file** (ErrorLogHalfLine). Cut inside a character, it makes the file no UTF-8: nothing is
  read, and the next rewrite writes an empty file.
- **The crash line goes elsewhere** (ErrorLogLastWords). The crash handler keeps the number of the descriptor of
  launch, which each rewrite closes.
- **The byte bound does not trim** (ErrorLogBytes). Past it the newest `maxLines` are kept, however long.

## 7. Not modelled, and the plan

Left out of modelled parts: extend of selected attempts, the lock on items already correct in a
passed-back attempt, practice attempts, audit events; research rows and rubric checks;
revisions rows; the spool's purge and rows of other attempts; the time limit's
refusals in the spool (AttemptPlane has them); sheets, feedback and the offline bundle in the host. Components
left out altogether are in PROJECT.json with the reason.

Of the newer modules: the attempt events, a batch the server refuses for its contents (ErrorLog); a file that storage fails to delete, the development route that carries the bytes, a teacher's
hand-in over an upload (DrawingUpload); a second device and the monitor's dialog (PeekPlane); the e-mail, the 14 day
window and the force of a teacher over an injection alert (Screening); publish flags, categories, notes and the remembered
destination (GradebookSend); the content of Docs and single-student sends (DocsRelease); the publish lock, the order and
deletion of questions, sets and importers (ItemAutosave).

Why the share of the code that is mapped stays small: most of the repository is React pages, parsers and
renderers for imports, markup and graphs, schema declarations, stacks and proofs of concept. They are
functions of their input or views of rows; the state and the races are in the parts modelled here.

Next, in this order:

1. Text and score related in ScoreLedger for every method, for the stale restore and approve;
   the hand-in instant under a retried submit; the close instant under an extend.
2. The verdict of Screening composed with ScoreLedger's `Withhold`, with a forced score.
3. Roster sync: what a nightly snapshot does to manual edits made during it.
4. The attempt events: posts that are reordered, lost or retried against the monitor's active alert.
5. What the score ledger and the spool promise, as abstract specifications like AttemptContract, and the proof that
   they implement them.
6. Each counterexample of section 6 that has no run, as the code is changed: the property it violates then replaces the one
   with the exception.
