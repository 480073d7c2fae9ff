--------------------------- MODULE DrawingUpload ---------------------------
(***************************************************************************)
(* A drawing's way from the canvas to the answer.  The page posts a picture *)
(* when its author pauses, leaves the question or presses Finish, one at a  *)
(* time; the host asks for an upload slot, puts the bytes in storage,       *)
(* writes a response that names the slot to the spool and flushes it.  The  *)
(* server checks that the slot has its bytes, deletes the item's other      *)
(* slots, and stores the response.  A gate counts the uploads in flight,    *)
(* and the hand-in waits for it.                                            *)
(*                                                                          *)
(* One attempt with one drawing item; answers to other items only start     *)
(* flushes (`other`).  The n-th picture is the number n, 0 the blank canvas *)
(* or none.  The spool's row of the item is the slot its response names;    *)
(* ResponseSpool has the rows, their order and closed sittings.  Not        *)
(* modelled: a file that storage fails to delete, the development route     *)
(* that carries the bytes through the server, a hand-in by the teacher, a   *)
(* Save over a restored picture whose bytes could not be read.              *)
(***************************************************************************)
EXTENDS Integers, Sequences

CONSTANTS
  MaxPictures, \* bound: pictures drawn
  MaxSlots,    \* bound: response_uploads rows
  Handlers,    \* bound: PUTs of the response the server works on
  MaxFaults    \* bound: lost requests, dead handlers, crashes of the application

ASSUME DrawingAssumption ==
  /\ MaxPictures \in Nat /\ MaxSlots \in Nat /\ MaxFaults \in Nat

VARIABLES
  canvas,    \* the picture on screen
  drawn,     \* pictures drawn so far
  dirty,     \* the picture changed since it was last posted
  inFlight,  \* the page waits for the result of a post
  result,    \* that result, on its way to the page
  upload,    \* the host's task for the post
  gate,      \* UploadGate: the uploads counted
  ending,    \* tasks that are over but for telling the gate (0 or 1)
  finish,    \* the hand-in
  row,       \* pending_responses: the slot the item's row names
  flush,     \* the spool's flush that runs
  put,       \* the responses the server works on
  slots,     \* response_uploads rows with the objects behind them
  answer,    \* responses: the slot the answer names
  submitted, \* attempts.status
  faults,    \* faults so far
  due,       \* the canvas when Finish was pressed (history)
  behind,    \* Finish was pressed while a newer picture waited for an upload (history)
  told,      \* the hand-in went on though the student was told of a failed post (history)
  restored,  \* the test was opened again on a newer picture than the spool's (history)
  unsaved,   \* a post failed, the student was told, and none went since (history)
  outrun,    \* a slot was deleted for the sake of an older one (history)
  torn       \* a PUT died after deleting, or two overlapped (history)

page == <<canvas, drawn, dirty, inFlight, result>>
host == <<upload, gate, ending>>
spool == <<row, flush>>
server == <<put, slots, answer, submitted>>
handIn == <<finish, due, behind, told, restored>>
drawingVars == <<page, host, spool, server, handIn, faults, unsaved, outrun, torn>>

Pictures == 0..MaxPictures
SlotIds == 0..MaxSlots
UploadTask == [at : {"none", "slot", "bytes", "enqueue", "flush", "report"},
           picture : Pictures, slot : SlotIds, ok : BOOLEAN]
NoUpload == [at |-> "none", picture |-> 0, slot |-> 0, ok |-> TRUE]
Flushing == [by : {"none", "upload", "finish", "other"}, slot : SlotIds]
NoFlush == [by |-> "none", slot |-> 0]
\* `heard`: the client still waits for this PUT's answer.
PutRequest == [at : {"none", "check", "prune", "delete", "write"}, slot : SlotIds,
        doomed : SUBSET (1..MaxSlots), heard : BOOLEAN]
NoPut == [at |-> "none", slot |-> 0, doomed |-> {}, heard |-> FALSE]
Slot == [picture : Pictures, registered : BOOLEAN, stored : BOOLEAN]

PictureOf(s) == IF s = 0 THEN 0 ELSE slots[s].picture
Fault == faults < MaxFaults /\ faults' = faults + 1

-----------------------------------------------------------------------------
(* The page *)

\* handleDrawing: the post reaches the host, which counts it and starts a task;
\* once handed in, it is ignored.
Post(picture) ==
  /\ inFlight' = TRUE /\ dirty' = FALSE
  /\ IF finish = "done" THEN UNCHANGED <<upload, gate>>
     ELSE /\ upload' = [NoUpload EXCEPT !.at = "slot", !.picture = picture]
          /\ gate' = gate + 1
\* flushNow: nothing when there is nothing new, and while a post is out.
MustPost == dirty /\ ~inFlight
KeepsStill == UNCHANGED <<dirty, inFlight, upload, gate>>

\* touched(): a stroke or an undo that leaves something; `dirty` until posted.
Draw ==
  /\ finish # "done" /\ drawn < MaxPictures
  /\ drawn' = drawn + 1 /\ canvas' = drawn + 1 /\ dirty' = TRUE
  /\ UNCHANGED <<inFlight, result, host, spool, server, handIn, faults, unsaved, outrun, torn>>

\* A blank canvas is not an answer: the one that was saved stays.
Clear ==
  /\ finish # "done" /\ canvas # 0
  /\ canvas' = 0 /\ dirty' = FALSE
  /\ UNCHANGED <<drawn, inFlight, result, host, spool, server, handIn, faults, unsaved, outrun, torn>>

\* The idle timer, the focus leaving the item, a page turn.
FlushNow ==
  /\ finish # "done" /\ MustPost
  /\ Post(canvas)
  /\ UNCHANGED <<canvas, drawn, result, ending, spool, server, handIn, faults, unsaved, outrun, torn>>

\* The Save drawing button, on an unchanged picture too.
SaveDrawing ==
  /\ finish # "done" /\ canvas # 0
  /\ IF inFlight THEN /\ dirty' = TRUE
                      /\ UNCHANGED <<inFlight, upload, gate>>
     ELSE Post(canvas)
  /\ UNCHANGED <<canvas, drawn, result, ending, spool, server, handIn, faults, unsaved, outrun, torn>>

\* __drawingSaved: what was drawn meanwhile goes now; a failure retries nothing.
ResultArrives ==
  /\ result # "none" /\ result' = "none"
  /\ IF result = "ok" /\ dirty THEN Post(canvas)
     ELSE inFlight' = FALSE /\ UNCHANGED <<dirty, upload, gate>>
  /\ UNCHANGED <<canvas, drawn, ending, spool, server, handIn, faults, unsaved, outrun, torn>>

-----------------------------------------------------------------------------
(* The host's task for one post *)

UploadFails ==
  /\ upload' = [upload EXCEPT !.at = "report", !.ok = FALSE]
  /\ unsaved' = TRUE
Register ==
  /\ Len(slots) < MaxSlots
  /\ slots' = Append(slots, [picture |-> upload.picture, registered |-> TRUE, stored |-> FALSE])

\* requestUpload: a slot is registered, unless the attempt is handed in.
RequestUpload ==
  /\ upload.at = "slot"
  /\ \/ /\ ~submitted /\ Register
        /\ upload' = [upload EXCEPT !.at = "bytes", !.slot = Len(slots) + 1]
        /\ UNCHANGED <<faults, unsaved>>
     \/ submitted /\ UploadFails /\ UNCHANGED <<slots, faults>>
     \/ /\ Fault /\ UploadFails
        /\ (UNCHANGED slots \/ (~submitted /\ Register))
  /\ UNCHANGED <<page, gate, ending, spool, put, answer, submitted, handIn, outrun, torn>>

\* uploadBytes: straight to storage, whatever has become of the slot's row.
UploadBytes ==
  /\ upload.at = "bytes"
  /\ \/ /\ slots' = [slots EXCEPT ![upload.slot].stored = TRUE]
        /\ \/ upload' = [upload EXCEPT !.at = "enqueue"] /\ UNCHANGED <<faults, unsaved>>
           \/ Fault /\ UploadFails
     \/ Fault /\ UploadFails /\ UNCHANGED slots
  /\ UNCHANGED <<page, gate, ending, spool, put, answer, submitted, handIn, outrun, torn>>

\* The response that names the slot, to disk; then a flush of its own.
Enqueue ==
  /\ upload.at = "enqueue"
  /\ row' = upload.slot
  /\ upload' = [upload EXCEPT !.at = "flush"]
  /\ UNCHANGED <<page, gate, ending, flush, server, handIn, faults, unsaved, outrun, torn>>

\* reportDrawing, and the task's end, whose word to the gate is a task again
\* (bound: one such word at a time).
Report ==
  /\ upload.at = "report" /\ ending = 0
  /\ result' = IF upload.ok THEN "ok" ELSE "failed"
  /\ upload' = NoUpload
  /\ ending' = ending + 1
  /\ unsaved' = (unsaved /\ ~upload.ok)
  /\ UNCHANGED <<canvas, drawn, dirty, inFlight, gate, spool, server, handIn, faults, outrun, torn>>

\* UploadGate.end: the last one wakes whoever waits.
GateEnds ==
  /\ ending > 0 /\ ending' = ending - 1
  /\ gate' = IF gate > 0 THEN gate - 1 ELSE 0
  /\ finish' = IF gate' = 0 /\ finish = "waiting" THEN "woken" ELSE finish
  /\ UNCHANGED <<page, upload, spool, server, due, behind, told, restored, faults, unsaved, outrun, torn>>

-----------------------------------------------------------------------------
(* The hand-in *)

\* Finish: the page posts what is dirty, unless a post is out, then the submit;
\* the main actor runs the two messages' tasks in order.
PressFinish ==
  /\ finish = "none" /\ finish' = "asked"
  /\ due' = canvas
  /\ behind' = (dirty /\ inFlight)
  /\ IF MustPost THEN Post(canvas) ELSE KeepsStill
  /\ UNCHANGED <<canvas, drawn, result, ending, spool, server, told, restored, faults, unsaved,
                 outrun, torn>>

\* Mutant: the hand-in does not wait for the uploads.
MutantWaitForIdle ==
  /\ finish = "asked" /\ finish' = "flush"
  /\ told' = unsaved
  /\ UNCHANGED <<page, host, spool, server, due, behind, restored, faults, unsaved, outrun, torn>>

\* waitForIdle: at once when idle; woken by the last end or after 20 seconds,
\* the count is read again, and an upload still out refuses the hand-in.
WaitForIdle ==
  /\ \/ finish = "asked" /\ finish' = IF gate = 0 THEN "flush" ELSE "waiting"
     \/ finish = "waiting" /\ finish' = "woken"
     \/ finish = "woken" /\ finish' = IF gate = 0 THEN "flush" ELSE "none"
  /\ told' = IF finish' = "flush" THEN unsaved ELSE told
  /\ UNCHANGED <<page, host, spool, server, due, behind, restored, faults, unsaved, outrun, torn>>

\* submit, once the flush left nothing; taken or lost before or after, and
\* then the student may press again.  Its success clears the spool.
Submit ==
  /\ finish = "submit"
  /\ \/ submitted' = TRUE /\ finish' = "done" /\ row' = 0 /\ UNCHANGED faults
     \/ Fault /\ finish' = "none" /\ UNCHANGED row /\ submitted' \in {submitted, TRUE}
  /\ UNCHANGED <<page, host, flush, put, slots, answer, due, behind, told, restored, unsaved, outrun, torn>>

-----------------------------------------------------------------------------
(* The spool *)

\* A flush is over and leaves this row, and whoever asked for it goes on.  An
\* upload's task does not look at what came of it; the hand-in wants no row.
Flushed(by, left) ==
  /\ row' = left
  /\ flush' = NoFlush
  /\ upload' = IF by = "upload" THEN [upload EXCEPT !.at = "report"] ELSE upload
  /\ finish' = IF by # "finish" THEN finish ELSE IF left = 0 THEN "submit" ELSE "none"
\* removeIfUnchanged: of a row that was taken, or refused for good.
AfterRemoval == IF row = flush.slot THEN 0 ELSE row

Asks(by) ==
  \/ by = "upload" /\ upload.at = "flush"
  \/ by = "finish" /\ finish = "flush"
  \/ by = "other" /\ row # 0 /\ finish # "done"

\* One at a time; each reads the queue when its turn comes.
StartFlush(by, h) ==
  /\ flush.by = "none" /\ Asks(by)
  /\ IF row = 0 THEN Flushed(by, 0) /\ UNCHANGED put
     ELSE /\ put[h].at = "none"
          /\ put' = [put EXCEPT ![h] = [NoPut EXCEPT !.at = "check", !.slot = row, !.heard = TRUE]]
          /\ flush' = [by |-> by, slot |-> row]
          /\ UNCHANGED <<row, upload, finish>>
  /\ UNCHANGED <<page, gate, ending, slots, answer, submitted, due, behind, told, restored, faults, unsaved, outrun, torn>>

\* The client hears nothing (or a 5xx) and stops; the server may still act.
FlushFails ==
  /\ flush.by # "none" /\ Fault
  /\ put' = [h \in Handlers |-> [put[h] EXCEPT !.heard = FALSE]]
  /\ Flushed(flush.by, row)
  /\ UNCHANGED <<page, gate, ending, slots, answer, submitted, due, behind, told, restored, unsaved, outrun, torn>>

-----------------------------------------------------------------------------
(* The server's PUT of a response that names a slot *)

\* The client gets its answer, if it still waits for one.
Answers(h) ==
  /\ put' = [put EXCEPT ![h] = NoPut]
  /\ IF put[h].heard THEN Flushed(flush.by, AfterRemoval)
     ELSE UNCHANGED <<row, flush, upload, finish>>
Deletes(h) == put[h].at \in {"prune", "delete", "write"}

\* Mutant: a slot that is gone is taken.
MutantMayBeNamed(s) == slots[s].stored
\* loadUploadForItem and settlePendingUpload: the slot is this item's and
\* storage has its bytes.
MayBeNamed(s) == slots[s].registered /\ slots[s].stored

CheckSlot(h) ==
  /\ put[h].at = "check"
  /\ IF submitted \/ ~MayBeNamed(put[h].slot)
     THEN Answers(h) /\ UNCHANGED torn
     ELSE /\ put' = [put EXCEPT ![h].at = "prune"]
          /\ torn' = (torn \/ \E o \in Handlers \ {h} : Deletes(o))
          /\ UNCHANGED <<row, flush, upload, finish>>
  /\ UNCHANGED <<page, gate, ending, slots, answer, submitted, due, behind, told, restored, faults, unsaved, outrun>>

Superseded(s) == {o \in DOMAIN slots : slots[o].registered /\ o # s}

\* pruneSupersededUploads reads the item's slots, then deletes objects and rows.
ReadSlots(h) ==
  /\ put[h].at = "prune"
  /\ put' = [put EXCEPT ![h].at = "delete", ![h].doomed = Superseded(put[h].slot)]
  /\ UNCHANGED <<page, host, spool, slots, answer, submitted, handIn, faults, unsaved, outrun, torn>>

DeleteSlots(h) ==
  /\ put[h].at = "delete"
  /\ put' = [put EXCEPT ![h].at = "write"]
  /\ slots' = [s \in DOMAIN slots |->
                 IF s \in put[h].doomed THEN [slots[s] EXCEPT !.registered = FALSE, !.stored = FALSE]
                 ELSE slots[s]]
  /\ outrun' = (outrun \/ \E s \in put[h].doomed : s > put[h].slot)
  /\ UNCHANGED <<page, host, spool, answer, submitted, handIn, faults, unsaved, torn>>

WriteAnswer(h) ==
  /\ put[h].at = "write"
  /\ answer' = put[h].slot
  /\ Answers(h)
  /\ UNCHANGED <<page, gate, ending, slots, submitted, due, behind, told, restored, faults, unsaved, outrun, torn>>

\* The handler dies; the client hears a failure.
PutDies(h) ==
  /\ put[h].at # "none" /\ Fault
  /\ torn' = (torn \/ put[h].at \in {"delete", "write"})
  /\ put' = [put EXCEPT ![h] = NoPut]
  /\ IF put[h].heard THEN Flushed(flush.by, row) ELSE UNCHANGED <<row, flush, upload, finish>>
  /\ UNCHANGED <<page, gate, ending, slots, answer, submitted, due, behind, told, restored, unsaved, outrun>>

-----------------------------------------------------------------------------
\* The application dies and the test is opened again: the disk is all that is
\* left, and the canvas shows the saved picture, if it can be read.
Crash ==
  /\ finish # "done" /\ ~submitted /\ Fault
  /\ canvas' = IF answer # 0 /\ slots[answer].stored THEN PictureOf(answer) ELSE 0
  /\ dirty' = FALSE /\ inFlight' = FALSE /\ result' = "none"
  /\ upload' = NoUpload /\ gate' = 0 /\ ending' = 0
  /\ finish' = "none" /\ flush' = NoFlush
  /\ put' = [h \in Handlers |-> [put[h] EXCEPT !.heard = FALSE]]
  /\ unsaved' = FALSE /\ due' = 0 /\ behind' = FALSE /\ told' = FALSE
  /\ restored' = (restored \/ (row # 0 /\ PictureOf(row) < canvas'))
  /\ UNCHANGED <<drawn, row, slots, answer, submitted, outrun, torn>>

DrawingInit ==
  /\ canvas = 0 /\ drawn = 0 /\ dirty = FALSE /\ inFlight = FALSE /\ result = "none"
  /\ upload = NoUpload /\ gate = 0 /\ ending = 0
  /\ row = 0 /\ flush = NoFlush
  /\ put = [h \in Handlers |-> NoPut] /\ slots = <<>> /\ answer = 0 /\ submitted = FALSE
  /\ finish = "none" /\ due = 0 /\ behind = FALSE /\ told = FALSE /\ restored = FALSE
  /\ faults = 0 /\ unsaved = FALSE /\ outrun = FALSE /\ torn = FALSE

DrawingNext ==
  \/ Draw \/ Clear \/ FlushNow \/ SaveDrawing \/ ResultArrives
  \/ RequestUpload \/ UploadBytes \/ Enqueue \/ Report \/ GateEnds
  \/ PressFinish \/ WaitForIdle \/ Submit
  \/ \E h \in Handlers :
       \/ \E by \in {"upload", "finish", "other"} : StartFlush(by, h)
       \/ CheckSlot(h) \/ ReadSlots(h) \/ DeleteSlots(h) \/ WriteAnswer(h) \/ PutDies(h)
  \/ FlushFails \/ Crash

DrawingSpec == DrawingInit /\ [][DrawingNext]_drawingVars

-----------------------------------------------------------------------------
(* Properties *)

\* The page, the task, the gate, the hand-in and the server's rows have their types.
DrawingTypeOK ==
  /\ canvas \in Pictures /\ drawn \in Pictures /\ due \in Pictures
  /\ dirty \in BOOLEAN /\ inFlight \in BOOLEAN
  /\ behind \in BOOLEAN /\ told \in BOOLEAN /\ restored \in BOOLEAN
  /\ result \in {"none", "ok", "failed"} /\ upload \in UploadTask
  /\ gate \in 0..2 /\ ending \in 0..1
  /\ finish \in {"none", "asked", "waiting", "woken", "flush", "submit", "done"}
  /\ row \in SlotIds /\ flush \in Flushing
  /\ put \in [Handlers -> PutRequest]
  /\ slots \in Seq(Slot) /\ Len(slots) <= MaxSlots
  /\ answer \in SlotIds /\ submitted \in BOOLEAN
  /\ faults \in 0..MaxFaults
  /\ unsaved \in BOOLEAN /\ outrun \in BOOLEAN /\ torn \in BOOLEAN

\* The answer names a slot that is there with its bytes, between the PUTs that
\* replace one by another, whatever else is deleted for them; unless one died
\* half-way or two overlapped.
AnswerHasItsDrawing ==
  answer # 0 /\ ~torn /\ (\A h \in Handlers : put[h].at # "write")
  => slots[answer].registered /\ slots[answer].stored

\* "Finish pressed mid-stroke still hands in with the drawing": the attempt is
\* handed in only with the picture that was on the canvas when Finish was
\* pressed, or a later one, unless the student had been told that it could not
\* be saved when the hand-in went on, or one of the cases of the history: Finish
\* over a post that was out; a test opened again on a picture of the server's
\* that is newer than the one the spool still has to send, which replaces it;
\* and PUTs that overlapped, or died half-way.
DrawingIsHandedIn ==
  [][submitted' # submitted =>
       PictureOf(answer) >= due \/ told \/ behind \/ restored \/ outrun \/ torn]_drawingVars

\* Without the second case: Finish while a post is out sends the newer picture
\* only when its result arrives, and the gate is idle before that.
LastStrokesAreHandedIn ==
  [][submitted' # submitted =>
       PictureOf(answer) >= due \/ told \/ restored \/ outrun \/ torn]_drawingVars

\* "The student is told their work is saved only when it is": a picture
\* reported as saved is the answer, or its response waits in the spool.
SavedIsStored ==
  [][Report /\ upload.ok /\ ~submitted /\ ~torn
     => row = upload.slot \/ PictureOf(answer) >= upload.picture]_drawingVars

=============================================================================
