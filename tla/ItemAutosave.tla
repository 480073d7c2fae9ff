---------------------------- MODULE ItemAutosave ----------------------------
(***************************************************************************)
(* One question card of the editor.  Each edit is saved a second after the  *)
(* last, with one autosave on the wire and a trailing one behind it; a      *)
(* restore from History and a change of type first flush, then hold the     *)
(* autosave and PATCH by themselves; an accepted suggestion PATCHes a clean *)
(* card at once.  The server copies what a PATCH replaces to the item's     *)
(* history, at most one copy in two minutes but for the forced ones.        *)
(*                                                                          *)
(* The page renders, and with that offers the card to the autosaver, after  *)
(* each change: `Synced` is part of every action.  Not modelled: the publish *)
(* lock and the holds for an unfinished card, deleting the card, a second   *)
(* tab, and the waits between a promise and its continuation.               *)
(***************************************************************************)
EXTENDS Integers, Sequences, SequencesExt

CONSTANTS
  Contents,   \* what a card can say (fingerprints)
  Stored,     \* what it says when the editor opens
  NoContent,
  Keep,       \* SNAPSHOT_KEEP: copies an item keeps
  MaxFailures \* bound: PATCHes refused, lost, or whose answer is lost

ASSUME AutosaveAssumption ==
  /\ NoContent \notin Contents /\ Stored \in Contents
  /\ Keep \in Nat \ {0} /\ MaxFailures \in Nat

\* The three ways a card is PATCHed: the autosaver; a restore or a change of
\* type; an accepted suggestion.
Paths == {"auto", "replace", "tag"}

VARIABLES
  shown,     \* the card
  persisted, \* the content of the last PATCH the server confirmed
  failed,    \* the card shows an error (itemErrors)
  saving,    \* the card's itemSave reads "saving": one state for the three paths
  saver,     \* the card's autosaver
  replace,   \* the restore or change of type under way
  wire,      \* the PATCHes in flight
  here,      \* the editor is open
  server,    \* items
  copies,    \* item_snapshots, newest last
  recent,    \* the newest copy is younger than SNAPSHOT_INTERVAL_MS
  failures,  \* failed PATCHes so far
  unsure     \* the PATCH last stored came in beside another or under a card that did
             \* not wait for it, or its answer never came (history)

card == <<shown, persisted, failed, saving, here>>
history == <<copies, recent>>
autosaveVars == <<card, saver, replace, wire, server, history, failures, unsure>>

Maybe == Contents \cup {NoContent}
\* Of a replacement: what it shows next, what it puts back if refused, and the
\* content it replaced, when that was saved.
\* `timer` is the value the debounce will send, `trailing` the one behind the
\* flight, `scheduled` the fingerprint last offered.
Saver == [timer : Maybe, trailing : Maybe, scheduled : Maybe, held : BOOLEAN]
Replace == [step : {"none", "flush", "patch"}, by : {"restore", "type"}, next : Maybe, back : Maybe,
            over : Maybe]
Patch == [at : {"none", "sent", "stored"}, content : Maybe]
NoReplace == [step |-> "none", by |-> "type", next |-> NoContent, back |-> NoContent,
              over |-> NoContent]
NoPatch == [at |-> "none", content |-> NoContent]

Out(p) == wire[p].at # "none"
Sent(c) == [at |-> "sent", content |-> c]

\* "All changes saved": the card is clean, and its itemSave does not read saving.
Saved == shown = persisted /\ ~saving

\* persistItem takes the error off the card.
Persist(p, c) == wire' = [wire EXCEPT ![p] = Sent(c)] /\ failed' = FALSE /\ saving' = TRUE
NoPersist == UNCHANGED <<wire, failed, saving>>

-----------------------------------------------------------------------------
(* The autosaver *)

\* Mutant: what was last offered is not forgotten.
MutantCancelled(s) == [s EXCEPT !.timer = NoContent]

\* cancel(): the debounced value is dropped; the flight and what trails it stay.
Cancelled(s) == [s EXCEPT !.timer = NoContent, !.scheduled = NoContent]

\* sync(): a card that is clean or held drops its pending save; one whose
\* content was not offered before restarts its timer; nothing renders once the
\* editor is left.
Synced(s, c, saved) ==
  IF ~here THEN s
  ELSE IF c = saved \/ s.held THEN Cancelled(s)
  ELSE IF s.scheduled = c THEN s ELSE [s EXCEPT !.timer = c, !.scheduled = c]

\* save(): nothing is sent for what was saved meanwhile by another path.
SendAuto(c, s) ==
  saver' = s /\ IF c = persisted THEN NoPersist ELSE Persist("auto", c)

\* fire(): behind a flight the value waits, replacing one that waits already.
Fire(s) ==
  IF Out("auto")
  THEN saver' = [s EXCEPT !.timer = NoContent, !.trailing = s.timer] /\ NoPersist
  ELSE SendAuto(s.timer, [s EXCEPT !.timer = NoContent])

TimerFires ==
  /\ saver.timer # NoContent
  /\ Fire(saver)
  /\ UNCHANGED <<shown, persisted, here, replace, server, history, failures, unsure>>

-----------------------------------------------------------------------------
(* The teacher *)

\* The History dialog lets nothing else be clicked until its restore is done.
Free == here /\ (replace.step = "none" \/ replace.by = "type")

Show(c, saved, s) == shown' = c /\ saver' = Synced(s, c, saved)

Type(c) ==
  /\ Free /\ c # shown
  /\ Show(c, persisted, saver)
  /\ UNCHANGED <<persisted, failed, saving, here, replace, wire, server, history, failures, unsure>>

\* acceptSuggestion: the tag joins the card; a card with nothing unsaved is
\* sent at once, beside the autosave its own edit schedules (one at a time here).
AcceptSuggestion(c) ==
  /\ Free /\ c # shown /\ ~Out("tag")
  /\ Show(c, persisted, saver)
  /\ IF shown = persisted THEN Persist("tag", c) ELSE NoPersist
  /\ UNCHANGED <<persisted, here, replace, server, history, failures, unsure>>

\* retryFailedSaves: schedule, then flush.
RetryFailed ==
  /\ here /\ failed /\ shown # persisted
  /\ Fire([saver EXCEPT !.timer = shown])
  /\ UNCHANGED <<shown, persisted, here, replace, server, history, failures, unsure>>

\* restoreVersion of a copy, changeType: flush() sends what waits for its timer.
StartReplace(by, c) ==
  /\ Free /\ replace.step = "none" /\ c # shown
  /\ by = "restore" => c \in Range(copies)
  /\ replace' = [NoReplace EXCEPT !.step = "flush", !.by = by, !.next = c, !.back = shown]
  /\ IF saver.timer = NoContent THEN UNCHANGED saver /\ NoPersist ELSE Fire(saver)
  /\ UNCHANGED <<shown, persisted, here, server, history, failures, unsure>>

\* flush() resolves with the last flight of the chain, whatever became of it:
\* the card is held, shows the new content and sends it.
Flushed == replace.step = "flush" /\ ~Out("auto")
Replaces ==
  /\ Flushed
  /\ replace' = [replace EXCEPT !.step = "patch", 
                                 !.over = IF Saved THEN shown ELSE NoContent]
  /\ shown' = replace.next
  /\ saver' = Cancelled([saver EXCEPT !.held = TRUE])
  /\ Persist("replace", replace.next)
  /\ UNCHANGED <<persisted, here, server, history, failures, unsure>>

\* Leaving flushes; what is on the wire or trails goes on.
Leave ==
  /\ Free /\ replace.step = "none" /\ here' = FALSE
  /\ IF saver.timer = NoContent THEN UNCHANGED saver /\ NoPersist ELSE Fire(saver)
  /\ UNCHANGED <<shown, persisted, replace, server, history, failures, unsure>>

-----------------------------------------------------------------------------
(* The server *)

\* Mutant: a restore is coalesced like any save.
MutantCaptures(p, c) ==
  server # c /\ (copies = <<>> \/ (Last(copies) # server /\ ~recent))

\* shouldCapture: the content changes, the newest copy does not hold it, and
\* the copy is forced, the first, or two minutes after the last.
Captures(p, c) ==
  server # c /\ (copies = <<>> \/ (Last(copies) # server /\ (p = "replace" \/ ~recent)))

\* The row is locked while it is written and copied, and the copies pruned.
StorePatch(p) ==
  /\ wire[p].at = "sent"
  /\ wire' = [wire EXCEPT ![p].at = "stored"]
  /\ server' = wire[p].content
  /\ IF Captures(p, wire[p].content)
     THEN LET all == Append(copies, server) IN
            /\ copies' = SubSeq(all, IF Len(all) > Keep THEN 2 ELSE 1, Len(all))
            /\ recent' = TRUE
     ELSE UNCHANGED history
  /\ unsure' = (~saving \/ \E o \in Paths \ {p} : Out(o))
  /\ UNCHANGED <<card, saver, replace, failures>>

IntervalPasses ==
  /\ recent /\ recent' = FALSE
  /\ UNCHANGED <<card, saver, replace, wire, server, copies, failures, unsure>>

-----------------------------------------------------------------------------
(* The answer comes back *)

\* The flight's promise settles; a trailing value takes off, and is skipped
\* when it says what has been saved by now.
After(saved, error) ==
  /\ saver' = Synced([saver EXCEPT !.trailing = NoContent], shown, saved)
  /\ IF saver.trailing \notin {NoContent, saved} THEN Persist("auto", saver.trailing)
     ELSE wire' = [wire EXCEPT !["auto"] = NoPatch] /\ failed' = error /\ saving' = FALSE

\* Mutant: the snapshot is what the card shows by then, not what was sent.
MutantSnapshot(p) == shown

\* "The snapshot is what we SENT."
Snapshot(p) == wire[p].content

Confirmed(p) ==
  /\ wire[p].at = "stored"
  /\ persisted' = Snapshot(p)
  /\ IF p = "auto" THEN After(Snapshot(p), failed) /\ UNCHANGED replace
     ELSE /\ wire' = [wire EXCEPT ![p] = NoPatch] /\ saving' = FALSE /\ UNCHANGED failed
          /\ replace' = IF p = "replace" THEN NoReplace ELSE replace
          /\ saver' = Synced(IF p = "replace" THEN [saver EXCEPT !.held = FALSE] ELSE saver,
                             shown, Snapshot(p))
  /\ UNCHANGED <<shown, here, server, history, failures, unsure>>

\* The request was refused or lost, or was stored and its answer lost; a
\* replacement that failed puts the card back as it was.
PatchFails(p) ==
  /\ Out(p) /\ failures < MaxFailures /\ failures' = failures + 1
  /\ unsure' = (unsure \/ \E o \in Paths : wire[o].at = "stored")
  /\ IF p = "auto" THEN After(persisted, TRUE) /\ UNCHANGED <<shown, replace>>
     ELSE /\ wire' = [wire EXCEPT ![p] = NoPatch] /\ saving' = FALSE /\ failed' = TRUE
          /\ IF p = "replace"
             THEN /\ replace' = NoReplace
                  /\ Show(replace.back, persisted, [saver EXCEPT !.held = FALSE])
             ELSE UNCHANGED <<shown, replace, saver>>
  /\ UNCHANGED <<persisted, here, server, history>>

-----------------------------------------------------------------------------
AutosaveInit ==
  /\ shown = Stored /\ persisted = Stored /\ server = Stored
  /\ failed = FALSE /\ saving = FALSE /\ here = TRUE
  /\ saver = [timer |-> NoContent, trailing |-> NoContent, scheduled |-> NoContent, held |-> FALSE]
  /\ replace = NoReplace
  /\ wire = [p \in Paths |-> NoPatch]
  /\ copies = <<>> /\ recent = FALSE
  /\ failures = 0 /\ unsure = FALSE

Answered(p) == Confirmed(p) \/ PatchFails(p)

\* A flush's continuation runs before any other task of the page.
AutosaveNext ==
  \/ Replaces
  \/ /\ ~Flushed
     /\ \/ TimerFires \/ RetryFailed \/ Leave
        \/ \E c \in Contents : Type(c) \/ AcceptSuggestion(c)
        \/ \E by \in {"restore", "type"}, c \in Contents : StartReplace(by, c)
        \/ \E p \in Paths : Answered(p)
  \/ \E p \in Paths : StorePatch(p)
  \/ IntervalPasses

AutosaveSpec == AutosaveInit /\ [][AutosaveNext]_autosaveVars

\* Timers fire, continuations run, the server stores what reaches it, and every
\* request is answered or fails.
AutosaveFairness ==
  /\ WF_autosaveVars(TimerFires /\ ~Flushed) /\ WF_autosaveVars(Replaces)
  /\ \A p \in Paths : WF_autosaveVars(StorePatch(p)) /\ WF_autosaveVars(Answered(p) /\ ~Flushed)

AutosaveFairSpec == AutosaveSpec /\ AutosaveFairness

-----------------------------------------------------------------------------
(* Properties *)

\* The card, the autosaver and the PATCHes have the types they model.
AutosaveTypeOK ==
  /\ shown \in Contents /\ persisted \in Contents /\ server \in Contents
  /\ failed \in BOOLEAN /\ saving \in BOOLEAN /\ here \in BOOLEAN /\ recent \in BOOLEAN /\ unsure \in BOOLEAN
  /\ saver \in Saver /\ replace \in Replace
  /\ wire \in [Paths -> Patch]
  /\ copies \in Seq(Contents) /\ Len(copies) <= Keep
  /\ failures \in 0..MaxFailures

\* "All changes saved" is true: when the card is clean and reads saved, with the
\* PATCHes of other paths perhaps still on their way, the server holds what the
\* card shows; but for a PATCH that was stored beside another path's, or after
\* another path's answer had put the one itemSave back, or whose answer was lost.
SavedMeansSaved ==
  here /\ Saved => server = shown \/ unsure

\* "Restoring the wrong version loses nothing": what the card showed and called
\* saved when a restore or a change of type set out is in the history once the
\* replacement is stored, but for the PATCHes that SavedMeansSaved leaves out.
ReplacedIsKept ==
  [][\A c \in Contents :
       wire["replace"] = Sent(c) /\ wire'["replace"].at = "stored" /\ ~unsure
       => replace.over \in Range(copies') \cup {c, NoContent}]_autosaveVars

\* Each edit is confirmed by the server, is edited again, or is marked as not
\* saved, in an editor that stays open; and what was confirmed is there, but for
\* the PATCHes that SavedMeansSaved leaves out.
EditsReachTheServer ==
  \A c \in Contents :
    shown = c ~> ((persisted = c /\ (server = c \/ unsure)) \/ shown # c \/ failed \/ ~here)

\* Without the exceptions: "All changes saved" while the server holds something
\* else.  No failure is needed: one path's answer puts the card's one itemSave to
\* saved while another path's PATCH is out, to be stored over it.
SavedIsTrue == here /\ Saved => server = shown

\* "A card edited back to its saved content ... the in-between text is never
\* written": what the server is left with is what the card showed.
LeftAsShown ==
  ~here /\ failures = 0 /\ saver.timer = NoContent /\ (\A p \in Paths : ~Out(p))
  => server = shown

\* A change of type replaces the card it was computed from.
ReplacesWhatItSaw == [][Replaces => shown = replace.back]_autosaveVars

=============================================================================
