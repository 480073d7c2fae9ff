----------------------------- MODULE Screening -----------------------------
(***************************************************************************)
(* The safeguarding screening of handed-in answers.  A pass reads an answer *)
(* that was never screened or was edited since, sends its text to a         *)
(* screener and a guardrail, opens an alert for each concern that has none  *)
(* open, and marks the answer as screened.  Passes run after a hand-in,     *)
(* before a teacher's Score with AI, and from an hourly retry; they overlap *)
(* each other, and the answer may be edited under them.                     *)
(*                                                                          *)
(* Each answer stands for an attempt with one screened answer.  Not         *)
(* modelled: two open alerts of one kind (an alert is open or not here),    *)
(* the e-mail, practice attempts, and the 14 days after which the retry     *)
(* gives an answer up: all of it happens within that window.                *)
(***************************************************************************)
EXTENDS Integers, Sequences, SequencesExt

CONSTANTS
  Answers,    \* essay and short-text responses, one per attempt
  NoAnswer,
  Essays,     \* texts
  BlankEssays,\* those with nothing but white space
  Concerns,   \* what the screener reports of each text
  Retries,    \* the hourly retry of each process
  Lookers,    \* bound: slots for the other passes
  Batch,      \* RETRY_BATCH: answers one retry takes up
  MaxRestarts,\* bound: restarts of the task
  MaxFailedWrites \* bound: failed writes of the database

Kinds == {"wellbeing", "prompt_injection"}
Passes == Retries \cup Lookers

ASSUME ScreeningAssumption ==
  /\ NoAnswer \notin Answers
  /\ Retries \cap Lookers = {}
  /\ BlankEssays \subseteq Essays
  /\ Concerns \in [Essays -> SUBSET Kinds]
  /\ Batch \in Nat \ {0} /\ MaxRestarts \in Nat /\ MaxFailedWrites \in Nat

VARIABLES
  essay,      \* responses.response
  mark,       \* safeguarding_screened_at: null, older than the last edit, or not
  open,       \* the kinds of concern with an unacknowledged alert
  line,       \* submitted attempts, oldest hand-in first
  settled,    \* of those, the ones handed in longer than the grace ago
  hooks,      \* hand-ins whose own pass has still to run
  pass,       \* the passes under way
  restarts,   \* restarts of the task so far
  failedWrites,   \* failed writes so far
  heard,      \* the kinds with an alert open at some time since the last edit (history)
  overtaken   \* marked by a pass that had read an older text, and not since by
              \* one that had read this (history)

screeningVars == <<essay, mark, open, line, settled, hooks, pass, restarts, failedWrites, heard, overtaken>>
faults == <<restarts, failedWrites>>
attempts == <<line, settled, hooks>>
alerts == <<open, heard>>

Pass == [at : {"idle", "look", "screen", "alert", "stamp"}, todo : Seq(Answers),
         cur : Answers \cup {NoAnswer}, read : Essays, found : SUBSET Kinds,
         ok : BOOLEAN, moved : BOOLEAN]
Asleep == [at |-> "idle", todo |-> <<>>, cur |-> NoAnswer, read |-> CHOOSE e \in Essays : TRUE,
           found |-> {}, ok |-> FALSE, moved |-> FALSE]

\* Never screened, or edited since.
Stale(a) == mark[a] \in {"never", "old"}

\* The pass is done with its answer: the retry goes on with its batch.
OnWith(q, todo) ==
  pass' = [pass EXCEPT ![q] = IF todo = <<>> THEN Asleep
                              ELSE [Asleep EXCEPT !.at = "look", !.todo = todo]]

-----------------------------------------------------------------------------
(* Picking answers *)

\* screenCandidates leaves out an answer that is blank, and marks nothing.
Screenable(a) == Stale(a) /\ essay[a] \notin BlankEssays
Begin(q, a, todo) ==
  pass' = [pass EXCEPT ![q] = [Asleep EXCEPT !.at = "screen", !.todo = todo, !.cur = a,
                                             !.read = essay[a]]]

\* screenAttempt after a hand-in: the answer is read whatever became of the
\* attempt since.
LookAfterHandIn(q, a) ==
  /\ q \in Lookers /\ pass[q].at = "idle"
  /\ a \in hooks /\ hooks' = hooks \ {a}
  /\ IF Screenable(a) THEN Begin(q, a, <<>>) ELSE UNCHANGED pass
  /\ UNCHANGED <<essay, mark, alerts, line, settled, overtaken, faults>>

\* screenResponse before a teacher's Score with AI.
LookBeforeScoring(q, a) ==
  /\ q \in Lookers /\ pass[q].at = "idle"
  /\ a \in Range(line)
  /\ Screenable(a)
  /\ Begin(q, a, <<>>)
  /\ UNCHANGED <<essay, mark, alerts, attempts, overtaken, faults>>

\* screenPending: the oldest hand-ins that are stale, a batch of them.  Runs of
\* one process never overlap.
Pending == SelectSeq(line, LAMBDA a : a \in settled /\ Stale(a))

\* Mutant: the limit is applied before the screened answers are left out.
MutantPicked == SelectSeq(SubSeq(line, 1, IF Len(line) < Batch THEN Len(line) ELSE Batch), Stale)

Picked == SubSeq(Pending, 1, IF Len(Pending) < Batch THEN Len(Pending) ELSE Batch)
RetryPick(q) ==
  /\ pass[q].at = "idle" /\ Pending # <<>>
  /\ OnWith(q, Picked)
  /\ UNCHANGED <<essay, mark, alerts, attempts, overtaken, faults>>

\* screenResponse reads the row again, and passes over what was screened meanwhile.
RetryLook(q) ==
  /\ pass[q].at = "look"
  /\ LET a == Head(pass[q].todo) IN
       IF Screenable(a) THEN Begin(q, a, Tail(pass[q].todo)) ELSE OnWith(q, Tail(pass[q].todo))
  /\ UNCHANGED <<essay, mark, alerts, attempts, overtaken, faults>>

-----------------------------------------------------------------------------
(* Screening one answer *)

\* The two halves run side by side; what either found counts even if the other
\* failed.  The screener reports both kinds, the guardrail injections only.
Screened(q, screener, guardrail, found) ==
  /\ pass[q].at = "screen"
  /\ LET all == Concerns[pass[q].read] IN
       /\ IF screener THEN found = all
          ELSE found \in SUBSET (IF guardrail THEN all \ {"wellbeing"} ELSE {})
       /\ pass' = [pass EXCEPT ![q].at = "alert", ![q].found = found,
                               ![q].ok = screener /\ guardrail]
  /\ UNCHANGED <<essay, mark, alerts, attempts, overtaken, faults>>

\* An alert for a kind that has none open.
Alert(q, k) ==
  /\ pass[q].at = "alert" /\ k \in pass[q].found
  /\ LET a == pass[q].cur IN
       /\ open' = [open EXCEPT ![a] = @ \cup {k}]
       /\ heard' = [heard EXCEPT ![a] = @ \cup {k}]
  /\ pass' = [pass EXCEPT ![q].found = @ \ {k}]
  /\ UNCHANGED <<essay, mark, attempts, overtaken, faults>>

\* Mutant: the answer is marked when either half answered.
MutantGoesToStamp(q) == TRUE

\* Only an answer both halves answered for is marked.
GoesToStamp(q) == pass[q].ok

Alerted(q) ==
  /\ pass[q].at = "alert" /\ pass[q].found = {}
  /\ IF GoesToStamp(q) THEN pass' = [pass EXCEPT ![q].at = "stamp"]
     ELSE OnWith(q, pass[q].todo)
  /\ UNCHANGED <<essay, mark, alerts, attempts, overtaken, faults>>

\* safeguarding_screened_at = now(), by the answer's id alone.
Stamp(q) ==
  /\ pass[q].at = "stamp"
  /\ LET a == pass[q].cur IN
       /\ mark' = [mark EXCEPT ![a] = "fresh"]
       /\ overtaken' = IF ~pass[q].moved THEN overtaken \ {a}
                       ELSE IF mark[a] = "fresh" THEN overtaken ELSE overtaken \cup {a}
  /\ OnWith(q, pass[q].todo)
  /\ UNCHANGED <<essay, alerts, attempts, faults>>

\* An insert or the mark fails: logged, and the pass goes on to the next answer.
PassFails(q) ==
  /\ pass[q].at \in {"alert", "stamp"}
  /\ failedWrites < MaxFailedWrites /\ failedWrites' = failedWrites + 1
  /\ OnWith(q, pass[q].todo)
  /\ UNCHANGED <<essay, mark, alerts, attempts, overtaken, restarts>>

\* The task stops, with its passes and the hand-ins' passes still to run.
Restart ==
  /\ restarts < MaxRestarts /\ restarts' = restarts + 1
  /\ pass' = [q \in Passes |-> Asleep]
  /\ hooks' = {}
  /\ UNCHANGED <<essay, mark, alerts, line, settled, overtaken, failedWrites>>

-----------------------------------------------------------------------------
(* Around the screening *)

\* The student saves the answer, or a teacher restores an earlier one.
Edit(a, e) ==
  /\ essay' = [essay EXCEPT ![a] = e]
  /\ mark' = [mark EXCEPT ![a] = IF @ = "never" THEN @ ELSE "old"]
  /\ heard' = [heard EXCEPT ![a] = open[a]]
  /\ overtaken' = overtaken \ {a}
  /\ pass' = [q \in Passes |-> IF pass[q].cur = a THEN [pass[q] EXCEPT !.moved = TRUE] ELSE pass[q]]
  /\ UNCHANGED <<open, attempts, faults>>

SubmitAttempt(a) ==
  /\ a \notin Range(line)
  /\ line' = Append(line, a) /\ hooks' = hooks \cup {a}
  /\ UNCHANGED <<essay, mark, alerts, settled, pass, overtaken, faults>>

PassBackWork(a) ==
  /\ a \in Range(line)
  /\ line' = SelectSeq(line, LAMBDA b : b # a) /\ settled' = settled \ {a}
  /\ UNCHANGED <<essay, mark, alerts, hooks, pass, overtaken, faults>>

\* RETRY_GRACE_MS have passed since the hand-in.
GracePasses(a) ==
  /\ a \in Range(line) \ settled
  /\ settled' = settled \cup {a}
  /\ UNCHANGED <<essay, mark, alerts, line, hooks, pass, overtaken, faults>>

Acknowledge(a, k) ==
  /\ k \in open[a]
  /\ open' = [open EXCEPT ![a] = @ \ {k}]
  /\ UNCHANGED <<essay, mark, heard, attempts, pass, overtaken, faults>>

-----------------------------------------------------------------------------
ScreeningInit ==
  /\ essay \in [Answers -> Essays]
  /\ mark = [a \in Answers |-> "never"]
  /\ open = [a \in Answers |-> {}] /\ heard = [a \in Answers |-> {}]
  /\ line = <<>> /\ settled = {} /\ hooks = {}
  /\ pass = [q \in Passes |-> Asleep]
  /\ overtaken = {} /\ restarts = 0 /\ failedWrites = 0

Working(q) ==
  \/ RetryLook(q) \/ Alerted(q) \/ Stamp(q) \/ PassFails(q)
  \/ \E k \in Kinds : Alert(q, k)
  \/ \E screener, guardrail \in BOOLEAN, found \in SUBSET Kinds :
       Screened(q, screener, guardrail, found)

ScreeningNext ==
  \/ \E q \in Passes : Working(q)
  \/ \E q \in Retries : RetryPick(q)
  \/ \E q \in Lookers, a \in Answers : LookAfterHandIn(q, a) \/ LookBeforeScoring(q, a)
  \/ \E a \in Answers :
       \/ SubmitAttempt(a) \/ PassBackWork(a) \/ GracePasses(a)
       \/ \E e \in Essays : Edit(a, e)
       \/ \E k \in Kinds : Acknowledge(a, k)
  \/ Restart

ScreeningSpec == ScreeningInit /\ [][ScreeningNext]_screeningVars

\* An answer's grace passes; the retry ticks and goes through its batch; and
\* no outage of the providers lasts for ever: a retry that asks again and again
\* about an answer has both halves answer some time.
RetryFairness ==
  /\ \A a \in Answers : WF_screeningVars(GracePasses(a))
  /\ \A q \in Retries :
       /\ WF_screeningVars(RetryPick(q)) /\ WF_screeningVars(Working(q))
       /\ \A a \in Answers :
            SF_screeningVars(pass[q].cur = a /\ \E f \in SUBSET Kinds : Screened(q, TRUE, TRUE, f))

ScreeningFairSpec == ScreeningSpec /\ RetryFairness

-----------------------------------------------------------------------------
(* Properties *)

\* The marks, the line of hand-ins and the passes have the types they model.
ScreeningTypeOK ==
  /\ essay \in [Answers -> Essays]
  /\ mark \in [Answers -> {"never", "old", "fresh"}]
  /\ open \in [Answers -> SUBSET Kinds] /\ heard \in [Answers -> SUBSET Kinds]
  /\ line \in Seq(Answers) /\ settled \subseteq Range(line) /\ hooks \subseteq Answers
  /\ pass \in [Passes -> Pass]
  /\ overtaken \subseteq Answers /\ restarts \in 0..MaxRestarts /\ failedWrites \in 0..MaxFailedWrites

WasHeard(a) == essay[a] \notin BlankEssays /\ Concerns[essay[a]] \subseteq heard[a]

\* An answer marked as screened by passes that read it as it stands (overtaken
\* are those marked by a pass that had read an older text) is one of which every
\* concern has been before the teacher as an alert since it was last edited,
\* whichever passes, outages, failed writes and restarts led there.
ScreenedMeansHeard ==
  \A a \in Answers \ overtaken : mark[a] = "fresh" => WasHeard(a)

\* screenedForScoring: a hybrid score may become final only when the answer is
\* "actually screened", the mark "set and not older than the answer's last
\* edit".  Of an answer that was edited under a pass, the mark of that pass
\* says so of a text that nobody screened.
MarkedMeansHeard == \A a \in Answers : mark[a] = "fresh" => WasHeard(a)

Unscreened(a) == a \in Range(line) /\ essay[a] \notin BlankEssays /\ mark[a] # "fresh"

\* A full batch of nothing but blank answers, which no pass ever marks.
BatchIsBlank ==
  Len(Pending) >= Batch /\ \A i \in 1..Batch : essay[Pending[i]] \in BlankEssays

\* A screened answer is edited where it stands in the line, and so goes ahead of
\* every later hand-in again.
EditedInLine == \E a \in Range(line) : mark[a] = "fresh" /\ mark'[a] = "old"

\* The retry finds every answer among the others, in whatever order they were
\* handed in, failed, were passed over and came back: an answer that is handed in
\* is screened in the end, or taken back or emptied, unless blank answers fill the
\* batch, or handed-in answers are edited, again and again.
EveryAnswerIsScreened ==
  \A a \in Answers :
    \/ []<>BatchIsBlank \/ []<><<EditedInLine>>_screeningVars
    \/ Unscreened(a) ~> ~Unscreened(a)

\* "Picks up every handed-in essay / short-text answer the hand-in
\* pass missed", without an exception.
RetryMissesNothing == \A a \in Answers : Unscreened(a) ~> ~Unscreened(a)

=============================================================================
