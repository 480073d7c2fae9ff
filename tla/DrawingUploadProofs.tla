------------------------ MODULE DrawingUploadProofs ------------------------
(***************************************************************************)
(* Proofs about DrawingUpload, for every value of its constants: the answer *)
(* names a slot that is there with its bytes, and an attempt is handed in   *)
(* with what was on the canvas when Finish was pressed.                     *)
(*                                                                          *)
(* The first needs AnswerInv: one post at a time, counted by the gate;      *)
(* whatever names a slot names one there is; the PUT that is listened to is *)
(* of the flush that runs; and one PUT deletes at a time.  The second needs *)
(* the order of the pictures too, of a history without excuse (Clean): the  *)
(* slots older than the answer are gone, those sent are no newer than the   *)
(* row, and at each stage of the hand-in a picture no older than the one    *)
(* due is saved or on its way (Due).                                        *)
(***************************************************************************)
EXTENDS DrawingUpload, SequenceTheorems, TLAPS

-----------------------------------------------------------------------------
(* the invariant *)

Held(s) == slots[s].registered /\ slots[s].stored
Out(h) == put[h].at # "none"

\* One post at a time, and the gate counts its task and the word it owes.
OnePost ==
  /\ gate = (IF upload.at = "none" THEN 0 ELSE 1) + ending
  /\ upload.at # "none" \/ result # "none" => inFlight
  /\ upload.at = "none" \/ result = "none"
  /\ upload.at \notin {"none", "report"} => upload.ok

\* What names a slot names one there is, and the upload's has its picture.
Named ==
  /\ row <= Len(slots) /\ flush.slot <= Len(slots) /\ answer <= Len(slots)
  /\ upload.slot <= Len(slots)
  /\ upload.at \in {"bytes", "enqueue"} =>
       upload.slot # 0 /\ slots[upload.slot].picture = upload.picture
  /\ upload.at = "flush" => upload.slot # 0
  /\ \A h \in Handlers :
       /\ Out(h) => put[h].slot \in 1..Len(slots)
       /\ put[h].doomed \subseteq DOMAIN slots
       /\ put[h].at = "delete" => put[h].slot \notin put[h].doomed

\* The PUT the client listens to is of the flush that runs.
Listening ==
  /\ \A h \in Handlers : put[h].heard => Out(h) /\ flush.by # "none" /\ put[h].slot = flush.slot
  /\ \A h, o \in Handlers : put[h].heard /\ put[o].heard => h = o
  /\ flush.by = "upload" => upload.at = "flush"
  /\ flush.by = "finish" => finish = "flush"
  /\ flush.by # "none" /\ ~submitted => row # 0

\* One PUT deletes at a time; its slot is held, and so is the answer's when
\* none is between its deletes and its write.
Whole ==
  ~torn =>
    /\ \A h, o \in Handlers : Deletes(h) /\ Deletes(o) => h = o
    /\ \A h \in Handlers : Deletes(h) => Held(put[h].slot)
    /\ answer # 0 /\ (\A h \in Handlers : put[h].at # "write") => Held(answer)

AnswerInv == DrawingTypeOK /\ OnePost /\ Named /\ Listening /\ Whole

-----------------------------------------------------------------------------
(* what a step changes *)

\* What the list of slots is.
LEMMA SlotsAre ==
  ASSUME DrawingTypeOK
  PROVE  /\ Len(slots) \in 0..MaxSlots /\ DOMAIN slots = 1..Len(slots)
         /\ \A s \in DOMAIN slots : slots[s] \in Slot /\ s \in 1..MaxSlots
<1>1. Len(slots) \in Nat /\ DOMAIN slots = 1..Len(slots) /\ slots \in [1..Len(slots) -> Slot]
  BY LenProperties DEF DrawingTypeOK
<1> QED
  BY <1>1, DrawingAssumption DEF DrawingTypeOK

\* Slots keep their pictures, and nothing is deleted.
SlotsStay ==
  /\ slots' \in Seq(Slot) /\ Len(slots') \in Len(slots)..MaxSlots
  /\ DOMAIN slots' = 1..Len(slots')
  /\ \A s \in DOMAIN slots :
       /\ slots'[s].picture = slots[s].picture /\ slots'[s].registered = slots[s].registered
       /\ slots[s].stored => slots'[s].stored

LEMMA SlotsUnchanged ==
  ASSUME DrawingTypeOK, UNCHANGED slots
  PROVE  SlotsStay
BY SlotsAre, DrawingAssumption DEF SlotsStay, DrawingTypeOK

LEMMA SlotRegistered ==
  ASSUME DrawingTypeOK, Register
  PROVE  /\ SlotsStay /\ Len(slots') = Len(slots) + 1
         /\ slots'[Len(slots')] = [picture |-> upload.picture, registered |-> TRUE, stored |-> FALSE]
<1> DEFINE new == [picture |-> upload.picture, registered |-> TRUE, stored |-> FALSE]
<1>1. Len(slots) \in 0..MaxSlots /\ DOMAIN slots = 1..Len(slots) /\ slots \in Seq(Slot)
  BY SlotsAre DEF DrawingTypeOK
<1>2. new \in Slot
  BY DEF DrawingTypeOK, UploadTask, Slot
<1>3. slots' = Append(slots, new) /\ Len(slots) < MaxSlots
  BY DEF Register
<1> HIDE DEF new
<1>4. /\ slots' \in Seq(Slot) /\ Len(slots') = Len(slots) + 1 /\ slots'[Len(slots) + 1] = new
      /\ \A s \in 1..Len(slots) : slots'[s] = slots[s]
  BY <1>1, <1>2, <1>3, AppendProperties
<1>5. DOMAIN slots' = 1..Len(slots')
  BY <1>4, LenProperties
<1>6. Len(slots') \in Len(slots)..MaxSlots
  BY <1>1, <1>3, <1>4, DrawingAssumption
<1> QED
  BY <1>1, <1>4, <1>5, <1>6 DEF SlotsStay, new

LEMMA SlotStored ==
  ASSUME DrawingTypeOK, upload.slot \in DOMAIN slots,
         slots' = [slots EXCEPT ![upload.slot].stored = TRUE]
  PROVE  SlotsStay /\ Len(slots') = Len(slots) /\ slots'[upload.slot].stored
<1> DEFINE new == [slots[upload.slot] EXCEPT !.stored = TRUE]
<1>1. /\ Len(slots) \in 0..MaxSlots /\ DOMAIN slots = 1..Len(slots) /\ slots \in Seq(Slot)
      /\ slots[upload.slot] \in Slot
  BY SlotsAre DEF DrawingTypeOK
<1>2. /\ new \in Slot /\ new.stored = TRUE /\ new.picture = slots[upload.slot].picture
      /\ new.registered = slots[upload.slot].registered
  BY <1>1 DEF Slot
<1>3. slots' = [slots EXCEPT ![upload.slot] = new]
  OBVIOUS
<1> HIDE DEF new
<1>4. slots' \in Seq(Slot) /\ Len(slots') = Len(slots) /\ DOMAIN slots' = DOMAIN slots
  BY <1>1, <1>2, <1>3, ExceptSeq, LenProperties
<1> QED
  BY <1>1, <1>2, <1>3, <1>4, DrawingAssumption DEF SlotsStay

\* A slot stays held.
LEMMA HeldStays ==
  ASSUME SlotsStay, NEW s \in DOMAIN slots, Held(s)
  PROVE  Held(s)'
BY DEF SlotsStay, Held

\* The picture of a slot stays.
LEMMA PictureStays ==
  ASSUME DrawingTypeOK, SlotsStay, NEW s \in 0..Len(slots)
  PROVE  PictureOf(s)' = PictureOf(s)
BY SlotsAre DEF SlotsStay, PictureOf

\* The server, when it does nothing.
LEMMA WholeStays ==
  ASSUME DrawingTypeOK, Named, Whole, SlotsStay, UNCHANGED <<answer, torn>>,
         \A h \in Handlers : put'[h].at = put[h].at /\ put'[h].slot = put[h].slot
  PROVE  Whole'
<1>1. Len(slots) \in 0..MaxSlots /\ DOMAIN slots = 1..Len(slots)
  BY SlotsAre
<1>2. \A h \in Handlers : Deletes(h)' => Deletes(h) /\ put[h].slot \in DOMAIN slots
  BY <1>1 DEF Named, Out, Deletes
<1>3. answer # 0 => answer \in DOMAIN slots
  BY <1>1 DEF Named, DrawingTypeOK, SlotIds
<1> QED
  BY <1>2, <1>3, HeldStays DEF Whole, Held, SlotsStay

\* A post: the host has a task for it, or the attempt is handed in.
LEMMA PostIsOne ==
  ASSUME DrawingTypeOK, OnePost, NEW picture \in Pictures, upload.at = "none", Post(picture),
         result' = "none", ending' = ending
  PROVE  /\ OnePost' /\ upload' \in UploadTask /\ gate' \in 0..2 /\ inFlight' \in BOOLEAN
         /\ dirty' = FALSE
         /\ \/ /\ upload'.at = "slot" /\ upload'.slot = 0 /\ upload'.picture = picture /\ upload'.ok
               /\ finish # "done"
            \/ upload' = upload /\ finish = "done"
<1>1. NoUpload \in UploadTask
  BY DrawingAssumption DEF NoUpload, UploadTask, Pictures, SlotIds
<1>2. CASE finish = "done"
  BY <1>2 DEF Post, OnePost, DrawingTypeOK
<1>3. CASE finish # "done"
  <2> DEFINE x == [NoUpload EXCEPT !.at = "slot", !.picture = picture]
  <2>1. /\ x \in UploadTask /\ x.at = "slot" /\ x.slot = 0 /\ x.picture = picture /\ x.ok = TRUE
    BY <1>1 DEF UploadTask, NoUpload
  <2>2. upload' = x /\ gate' = gate + 1 /\ inFlight' = TRUE /\ dirty' = FALSE
    BY <1>3 DEF Post
  <2> HIDE DEF x
  <2> QED
    BY <1>3, <2>1, <2>2 DEF OnePost, DrawingTypeOK
<1> QED
  BY <1>2, <1>3

-----------------------------------------------------------------------------
(* the answer has its picture *)

\* A step of the page: at most a new task.
LEMMA PageStep ==
  ASSUME AnswerInv, DrawingTypeOK', OnePost',
         \/ upload' = upload
         \/ upload.at = "none" /\ upload'.at = "slot" /\ upload'.slot = 0,
         finish' = finish \/ finish = "none",
         UNCHANGED <<spool, server, torn>>
  PROVE  AnswerInv'
<1>1. UNCHANGED <<row, flush, put, slots, answer, submitted, torn>>
  BY DEF spool, server
<1>2. SlotsStay /\ Len(slots) \in 0..MaxSlots
  BY <1>1, SlotsUnchanged, SlotsAre DEF AnswerInv
<1>3. Named'
  BY <1>1, <1>2 DEF AnswerInv, Named, Out
<1>4. Listening'
  BY <1>1 DEF AnswerInv, Listening, Out
<1>5. Whole'
  BY <1>1, <1>2, WholeStays DEF AnswerInv
<1> QED
  BY <1>3, <1>4, <1>5 DEF AnswerInv

LEMMA DrawKept == ASSUME AnswerInv, Draw \/ Clear PROVE AnswerInv'
<1>1. UNCHANGED <<inFlight, result, host, spool, server, handIn, faults, unsaved, outrun, torn>>
  BY DEF Draw, Clear
<1>2. canvas' \in Pictures /\ drawn' \in Pictures
  <2>1. drawn \in 0..MaxPictures /\ canvas \in 0..MaxPictures /\ MaxPictures \in Nat
    BY DrawingAssumption DEF AnswerInv, DrawingTypeOK, Pictures
  <2>2. CASE Draw
    <3>1. canvas' = drawn + 1 /\ drawn' = drawn + 1 /\ drawn < MaxPictures
      BY <2>2 DEF Draw
    <3> QED
      BY <2>1, <3>1 DEF Pictures
  <2>3. CASE Clear
    <3>1. canvas' = 0 /\ drawn' = drawn
      BY <2>3 DEF Clear
    <3> QED
      BY <2>1, <3>1 DEF Pictures
  <2> QED
    BY <2>2, <2>3
<1>3. dirty' \in BOOLEAN
  BY DEF Draw, Clear
<1>4. DrawingTypeOK'
  BY <1>1, <1>2, <1>3 DEF AnswerInv, DrawingTypeOK, host, spool, server, handIn
<1>5. OnePost'
  BY <1>1 DEF AnswerInv, OnePost, host
<1> QED
  BY <1>1, <1>4, <1>5, PageStep DEF host, handIn

\* A post goes, or nothing does.
LEMMA PostStep ==
  ASSUME AnswerInv,
         \/ upload.at = "none" /\ Post(canvas) /\ result' = "none"
         \/ /\ UNCHANGED <<upload, gate>> /\ dirty' \in BOOLEAN /\ inFlight' \in BOOLEAN
            /\ upload.at # "none" \/ result' # "none" => inFlight'
            /\ result' \in {result, "none"},
         UNCHANGED <<canvas, drawn, ending, spool, server, faults, unsaved, outrun, torn>>,
         \/ UNCHANGED handIn
         \/ /\ finish = "none" /\ finish' = "asked" /\ due' \in Pictures
            /\ behind' \in BOOLEAN /\ UNCHANGED <<told, restored>>
  PROVE  AnswerInv'
<1>1. /\ upload' \in UploadTask /\ gate' \in 0..2 /\ inFlight' \in BOOLEAN /\ dirty' \in BOOLEAN
      /\ result' \in {"none", "ok", "failed"} /\ OnePost'
      /\ \/ upload' = upload
         \/ upload.at = "none" /\ upload'.at = "slot" /\ upload'.slot = 0
  <2>1. CASE upload.at = "none" /\ Post(canvas) /\ result' = "none"
    BY <2>1, PostIsOne DEF AnswerInv, DrawingTypeOK
  <2>2. CASE /\ UNCHANGED <<upload, gate>> /\ dirty' \in BOOLEAN /\ inFlight' \in BOOLEAN
             /\ upload.at # "none" \/ result' # "none" => inFlight'
             /\ result' \in {result, "none"}
    BY <2>2 DEF AnswerInv, DrawingTypeOK, OnePost
  <2> QED
    BY <2>1, <2>2
<1>2. /\ finish' \in {"none", "asked", "waiting", "woken", "flush", "submit", "done"}
      /\ due' \in Pictures /\ behind' \in BOOLEAN /\ told' \in BOOLEAN /\ restored' \in BOOLEAN
      /\ finish' = finish \/ finish = "none"
  BY DEF handIn, AnswerInv, DrawingTypeOK
<1>3. DrawingTypeOK'
  BY <1>1, <1>2 DEF AnswerInv, DrawingTypeOK, spool, server
<1> QED
  BY <1>1, <1>2, <1>3, PageStep

LEMMA PageKept ==
  ASSUME AnswerInv, FlushNow \/ SaveDrawing \/ ResultArrives \/ PressFinish
  PROVE  AnswerInv'
<1>1. ~inFlight => upload.at = "none" /\ result = "none"
  BY DEF AnswerInv, OnePost
<1>2. result # "none" => upload.at = "none"
  BY DEF AnswerInv, OnePost
<1>3. dirty \in BOOLEAN /\ inFlight \in BOOLEAN /\ canvas \in Pictures
      /\ (upload.at # "none" \/ result # "none" => inFlight)
  BY DEF AnswerInv, DrawingTypeOK, OnePost
<1>4. CASE FlushNow
  BY <1>1, <1>4, PostStep DEF FlushNow, MustPost
<1>5. CASE SaveDrawing
  BY <1>1, <1>3, <1>5, PostStep DEF SaveDrawing
<1>6. CASE ResultArrives
  BY <1>2, <1>3, <1>6, PostStep DEF ResultArrives
<1>7. CASE PressFinish
  BY <1>1, <1>3, <1>7, PostStep DEF PressFinish, MustPost, KeepsStill
<1> QED
  BY <1>4, <1>5, <1>6, <1>7

\* A step of the host's task on the slots, or of nobody's.
LEMMA TaskStep ==
  ASSUME AnswerInv, SlotsStay, NEW x \in UploadTask, upload' = x,
         upload.at \notin {"none", "flush"}, x.at \notin {"none"},
         x.at # "report" => x.ok,
         x.slot <= Len(slots'),
         x.at \in {"bytes", "enqueue", "flush"} => x.slot # 0,
         x.at \in {"bytes", "enqueue"} => slots'[x.slot].picture = x.picture,
         row' \in SlotIds, row' <= Len(slots'), row' # 0 \/ row' = row,
         faults' \in 0..MaxFaults, unsaved' \in BOOLEAN,
         UNCHANGED <<page, gate, ending, flush, put, answer, submitted, handIn, outrun, torn>>
  PROVE  AnswerInv'
<1>1. Len(slots) \in 0..MaxSlots /\ Len(slots') \in Len(slots)..MaxSlots
      /\ DOMAIN slots = 1..Len(slots) /\ DOMAIN slots' = 1..Len(slots')
  BY SlotsAre DEF AnswerInv, SlotsStay
<1>2. DrawingTypeOK'
  BY <1>1, DrawingAssumption DEF AnswerInv, DrawingTypeOK, SlotsStay, page, handIn
<1>3. OnePost'
  BY DEF AnswerInv, OnePost, page
<1>4. Named'
  <2>1. /\ row' <= Len(slots') /\ flush'.slot <= Len(slots') /\ answer' <= Len(slots')
    BY <1>1 DEF AnswerInv, Named, DrawingTypeOK, SlotIds, Flushing
  <2>2. ASSUME NEW h \in Handlers
        PROVE  /\ Out(h)' => put'[h].slot \in 1..Len(slots')
               /\ put'[h].doomed \subseteq DOMAIN slots'
               /\ put'[h].at = "delete" => put'[h].slot \notin put'[h].doomed
    BY <1>1 DEF AnswerInv, Named, Out
  <2> QED
    BY <2>1, <2>2 DEF Named
<1>5. Listening'
  BY DEF AnswerInv, Listening, Out, handIn
<1>6. Whole'
  BY WholeStays DEF AnswerInv
<1> QED
  BY <1>2, <1>3, <1>4, <1>5, <1>6 DEF AnswerInv

\* An upload that fails is over but for its report.
LEMMA Failed ==
  ASSUME AnswerInv, upload.at # "none", UploadFails
  PROVE  /\ upload' \in UploadTask /\ upload'.at = "report" /\ upload'.slot = upload.slot
         /\ ~upload'.ok /\ unsaved'
BY DEF AnswerInv, DrawingTypeOK, UploadFails, UploadTask

LEMMA FaultCounts ==
  ASSUME AnswerInv, Fault
  PROVE  faults' \in 0..MaxFaults
BY DrawingAssumption DEF AnswerInv, DrawingTypeOK, Fault

LEMMA RequestKept == ASSUME AnswerInv, RequestUpload PROVE AnswerInv'
<1>1. /\ upload.at = "slot" /\ upload \in UploadTask /\ upload.slot <= Len(slots) /\ upload.ok
      /\ row <= Len(slots) /\ row \in SlotIds /\ faults \in 0..MaxFaults /\ unsaved \in BOOLEAN
  BY DEF RequestUpload, AnswerInv, DrawingTypeOK, Named, OnePost
<1>2. UNCHANGED <<page, gate, ending, row, flush, put, answer, submitted, handIn, outrun, torn>>
  BY DEF RequestUpload, spool
<1>3. Len(slots) \in 0..MaxSlots
  BY SlotsAre DEF AnswerInv
<1>4. CASE /\ Register
           /\ upload' = [upload EXCEPT !.at = "bytes", !.slot = Len(slots) + 1]
           /\ UNCHANGED <<faults, unsaved>>
  <2>1. /\ SlotsStay /\ Len(slots') = Len(slots) + 1 /\ Len(slots') \in 0..MaxSlots
        /\ slots'[Len(slots')].picture = upload.picture
    <3>1. /\ SlotsStay /\ Len(slots') = Len(slots) + 1
          /\ slots'[Len(slots')] = [picture |-> upload.picture, registered |-> TRUE, stored |-> FALSE]
      BY <1>4, SlotRegistered DEF AnswerInv
    <3>2. Len(slots') \in 0..MaxSlots
      BY <1>3, <3>1 DEF SlotsStay
    <3> QED
      BY <3>1, <3>2
  <2>2. /\ upload' \in UploadTask /\ upload'.at = "bytes" /\ upload'.slot = Len(slots')
        /\ upload'.picture = upload.picture /\ upload'.ok
    BY <1>1, <1>4, <2>1 DEF UploadTask, SlotIds
  <2>3. row <= Len(slots') /\ upload'.slot <= Len(slots') /\ upload'.slot # 0
    BY <1>1, <1>3, <2>1, <2>2 DEF SlotIds
  <2> QED
    BY <1>1, <1>2, <1>4, <2>1, <2>2, <2>3, TaskStep
<1>5. CASE UploadFails /\ (UNCHANGED slots \/ Register) /\ faults' \in 0..MaxFaults
  <2>1. SlotsStay
    BY <1>5, SlotsUnchanged, SlotRegistered DEF AnswerInv
  <2>2. row <= Len(slots') /\ upload.slot <= Len(slots')
    BY <1>1, <1>3, <2>1 DEF SlotsStay, UploadTask, SlotIds
  <2>3. upload' \in UploadTask /\ upload'.at = "report" /\ upload'.slot = upload.slot /\ unsaved' \in BOOLEAN
    BY <1>1, <1>5, Failed
  <2> QED
    BY <1>1, <1>2, <1>5, <2>1, <2>2, <2>3, TaskStep
<1> QED
  BY <1>1, <1>4, <1>5, FaultCounts DEF RequestUpload

LEMMA BytesKept == ASSUME AnswerInv, UploadBytes PROVE AnswerInv'
<1>1. /\ upload.at = "bytes" /\ upload \in UploadTask /\ upload.ok
      /\ upload.slot <= Len(slots) /\ upload.slot # 0 /\ slots[upload.slot].picture = upload.picture
      /\ row <= Len(slots) /\ row \in SlotIds /\ faults \in 0..MaxFaults /\ unsaved \in BOOLEAN
  BY DEF UploadBytes, AnswerInv, DrawingTypeOK, Named, OnePost
<1>2. UNCHANGED <<page, gate, ending, row, flush, put, answer, submitted, handIn, outrun, torn>>
  BY DEF UploadBytes, spool
<1>3. /\ Len(slots) \in 0..MaxSlots /\ upload.slot \in DOMAIN slots
  BY <1>1, SlotsAre DEF AnswerInv, UploadTask, SlotIds
<1>4. SlotsStay /\ Len(slots') = Len(slots)
  <2>1. CASE slots' = [slots EXCEPT ![upload.slot].stored = TRUE]
    BY <1>3, <2>1, SlotStored DEF AnswerInv
  <2>2. CASE UNCHANGED slots
    BY <2>2, SlotsUnchanged DEF AnswerInv
  <2> QED
    BY <2>1, <2>2 DEF UploadBytes
<1>5. CASE upload' = [upload EXCEPT !.at = "enqueue"] /\ UNCHANGED <<faults, unsaved>>
  <2>1. /\ upload' \in UploadTask /\ upload'.at = "enqueue" /\ upload'.slot = upload.slot
        /\ upload'.picture = upload.picture /\ upload'.ok
    BY <1>1, <1>5 DEF UploadTask
  <2>2. slots'[upload'.slot].picture = upload'.picture
    BY <1>1, <1>3, <1>4, <2>1 DEF SlotsStay
  <2> QED
    BY <1>1, <1>2, <1>4, <1>5, <2>1, <2>2, TaskStep
<1>6. CASE UploadFails /\ Fault
  BY <1>1, <1>2, <1>4, <1>6, Failed, FaultCounts, TaskStep
<1> QED
  BY <1>5, <1>6 DEF UploadBytes

LEMMA EnqueueKept == ASSUME AnswerInv, Enqueue PROVE AnswerInv'
<1>1. /\ upload.at = "enqueue" /\ upload \in UploadTask /\ upload.ok
      /\ upload.slot <= Len(slots) /\ upload.slot # 0 /\ slots[upload.slot].picture = upload.picture
      /\ faults \in 0..MaxFaults /\ unsaved \in BOOLEAN
  BY DEF Enqueue, AnswerInv, DrawingTypeOK, Named, OnePost
<1>2. UNCHANGED <<page, gate, ending, flush, put, slots, answer, submitted, handIn, outrun, torn,
                  faults, unsaved>>
  BY DEF Enqueue, server
<1>3. SlotsStay
  BY <1>2, SlotsUnchanged DEF AnswerInv
<1>4. /\ upload' \in UploadTask /\ upload'.at = "flush" /\ upload'.slot = upload.slot /\ upload'.ok
      /\ row' = upload.slot /\ row' \in SlotIds
  BY <1>1 DEF Enqueue, UploadTask
<1> QED
  BY <1>1, <1>2, <1>3, <1>4, TaskStep

\* The report, and the word to the gate.
LEMMA ReportKept == ASSUME AnswerInv, Report \/ GateEnds PROVE AnswerInv'
<1>1. /\ UNCHANGED <<spool, put, slots, answer, submitted, due, behind, told, restored, faults,
                     outrun, torn, canvas, drawn, dirty, inFlight>>
      /\ SlotsStay /\ Len(slots) \in 0..MaxSlots
  BY SlotsUnchanged, SlotsAre DEF Report, GateEnds, server, page, handIn, AnswerInv
<1>2. NoUpload \in UploadTask /\ NoUpload.at = "none" /\ NoUpload.slot = 0
  BY DrawingAssumption DEF NoUpload, UploadTask, Pictures, SlotIds
<1>3. CASE Report
  <2>1. /\ upload.at = "report" /\ upload' = NoUpload /\ gate' = gate /\ ending' = ending + 1
        /\ ending = 0 /\ result' \in {"ok", "failed"} /\ unsaved' \in BOOLEAN /\ finish' = finish
    BY <1>3 DEF Report, AnswerInv, DrawingTypeOK, UploadTask, handIn
  <2>2. DrawingTypeOK'
    BY <1>1, <1>2, <2>1 DEF AnswerInv, DrawingTypeOK, spool
  <2>3. OnePost'
    BY <1>1, <1>2, <2>1 DEF AnswerInv, OnePost, DrawingTypeOK
  <2>4. Named'
    BY <1>1, <1>2, <2>1 DEF AnswerInv, Named, Out, spool
  <2>5. Listening'
    BY <1>1, <1>2, <2>1 DEF AnswerInv, Listening, Out, spool
  <2>6. Whole'
    BY <1>1, WholeStays DEF AnswerInv
  <2> QED
    BY <2>2, <2>3, <2>4, <2>5, <2>6 DEF AnswerInv
<1>4. CASE GateEnds
  <2>1. /\ ending > 0 /\ ending' = ending - 1 /\ upload' = upload /\ result' = result
        /\ unsaved' = unsaved
        /\ gate' = IF gate > 0 THEN gate - 1 ELSE 0
        /\ finish' = finish \/ (finish = "waiting" /\ finish' = "woken")
    BY <1>4 DEF GateEnds, page
  <2>2. gate' = gate - 1 /\ gate' \in 0..2 /\ ending' \in 0..1
    BY <2>1 DEF AnswerInv, OnePost, DrawingTypeOK
  <2>3. DrawingTypeOK'
    BY <1>1, <2>1, <2>2 DEF AnswerInv, DrawingTypeOK, spool
  <2>4. OnePost'
    BY <1>1, <2>1, <2>2 DEF AnswerInv, OnePost, DrawingTypeOK
  <2>5. Named'
    BY <1>1, <2>1 DEF AnswerInv, Named, Out, spool
  <2>6. Listening'
    BY <1>1, <2>1 DEF AnswerInv, Listening, Out, spool
  <2>7. Whole'
    BY <1>1, WholeStays DEF AnswerInv
  <2> QED
    BY <2>3, <2>4, <2>5, <2>6, <2>7 DEF AnswerInv
<1> QED
  BY <1>3, <1>4

\* The hand-in waits, and goes on or gives up.
LEMMA WaitKept == ASSUME AnswerInv, WaitForIdle PROVE AnswerInv'
<1>1. /\ UNCHANGED <<canvas, drawn, dirty, inFlight, result, upload, gate, ending, row, flush,
                     put, slots, answer, submitted, due, behind, restored, faults, unsaved, outrun, torn>>
      /\ SlotsStay /\ Len(slots) \in 0..MaxSlots
  BY SlotsUnchanged, SlotsAre DEF WaitForIdle, page, host, spool, server, AnswerInv
<1>2. /\ finish \in {"asked", "waiting", "woken"}
      /\ finish' \in {"flush", "waiting", "woken", "none"} /\ told' \in BOOLEAN
  BY DEF WaitForIdle, AnswerInv, DrawingTypeOK
<1>3. DrawingTypeOK'
  BY <1>1, <1>2 DEF AnswerInv, DrawingTypeOK
<1>4. OnePost' /\ Named'
  BY <1>1 DEF AnswerInv, OnePost, Named, Out
<1>5. Listening'
  BY <1>1, <1>2 DEF AnswerInv, Listening, Out
<1>6. Whole'
  BY <1>1, WholeStays DEF AnswerInv
<1> QED
  BY <1>3, <1>4, <1>5, <1>6 DEF AnswerInv

LEMMA SubmitKept == ASSUME AnswerInv, Submit PROVE AnswerInv'
<1>1. /\ UNCHANGED <<canvas, drawn, dirty, inFlight, result, upload, gate, ending, flush,
                     put, slots, answer, due, behind, told, restored, unsaved, outrun, torn>>
      /\ SlotsStay /\ Len(slots) \in 0..MaxSlots
  BY SlotsUnchanged, SlotsAre DEF Submit, page, host, AnswerInv
<1>2. /\ finish = "submit" /\ finish' \in {"done", "none"} /\ row' \in {row, 0}
      /\ (submitted => submitted') /\ (row' = row \/ submitted')
  <2>1. CASE submitted' = TRUE /\ finish' = "done" /\ row' = 0
    BY <2>1 DEF Submit
  <2>2. CASE finish' = "none" /\ UNCHANGED row /\ submitted' \in {submitted, TRUE}
    <3>1. submitted => submitted'
      BY <2>2
    <3> QED
      BY <2>2, <3>1 DEF Submit
  <2> QED
    BY <2>1, <2>2 DEF Submit
<1>3. faults' \in 0..MaxFaults /\ submitted' \in BOOLEAN
  <2>1. faults' \in 0..MaxFaults
    BY FaultCounts DEF Submit, AnswerInv, DrawingTypeOK
  <2>2. submitted' \in BOOLEAN
    BY DEF Submit, AnswerInv, DrawingTypeOK
  <2> QED
    BY <2>1, <2>2
<1>4. DrawingTypeOK'
  BY <1>1, <1>2, <1>3, DrawingAssumption DEF AnswerInv, DrawingTypeOK, SlotIds
<1>5. OnePost'
  BY <1>1 DEF AnswerInv, OnePost
<1>6. Named'
  BY <1>1, <1>2 DEF AnswerInv, Named, Out
<1>7. Listening'
  BY <1>1, <1>2 DEF AnswerInv, Listening, Out
<1>8. Whole'
  BY <1>1, WholeStays DEF AnswerInv
<1> QED
  BY <1>4, <1>5, <1>6, <1>7, <1>8 DEF AnswerInv

\* What the end of a flush does.
LEMMA FlushOver ==
  ASSUME AnswerInv, NEW by \in {"none", "upload", "finish", "other"}, NEW left \in SlotIds, Flushed(by, left),
         by = "upload" => upload.at = "flush", by = "finish" => finish = "flush"
  PROVE  /\ row' = left /\ flush' = NoFlush /\ upload' \in UploadTask
         /\ upload'.slot = upload.slot /\ upload'.picture = upload.picture /\ upload'.ok = upload.ok
         /\ \/ upload'.at = upload.at
            \/ by = "upload" /\ upload.at = "flush" /\ upload'.at = "report"
         /\ \/ finish' = finish /\ by # "finish"
            \/ by = "finish" /\ finish' = IF left = 0 THEN "submit" ELSE "none"
<1>1. upload \in UploadTask
  BY DEF AnswerInv, DrawingTypeOK
<1>2. CASE by = "upload"
  BY <1>1, <1>2 DEF Flushed, UploadTask
<1>3. CASE by # "upload"
  BY <1>1, <1>3 DEF Flushed
<1> QED
  BY <1>2, <1>3

\* Slots after a PUT's step: only what is there of them may have changed.
SlotsRemain ==
  /\ slots' \in Seq(Slot) /\ Len(slots') = Len(slots) /\ DOMAIN slots' = DOMAIN slots
  /\ \A s \in DOMAIN slots : slots'[s].picture = slots[s].picture

\* A PUT that names a slot.
PutIsRight(x) ==
  /\ x.at # "none" => x.slot \in 1..Len(slots)
  /\ x.doomed \subseteq DOMAIN slots
  /\ x.at = "delete" => x.slot \notin x.doomed

\* The end of a flush, but for what the slots hold.
LEMMA FlushEnds ==
  ASSUME AnswerInv, NEW by \in {"none", "upload", "finish", "other"}, NEW left \in SlotIds, left <= Len(slots),
         Flushed(by, left), by = "upload" => upload.at = "flush", by = "finish" => finish = "flush",
         put' \in [Handlers -> PutRequest], \A h \in Handlers : ~put'[h].heard /\ PutIsRight(put'[h]),
         SlotsRemain, answer' \in SlotIds, answer' <= Len(slots),
         faults' \in 0..MaxFaults, outrun' \in BOOLEAN, torn' \in BOOLEAN,
         UNCHANGED <<page, gate, ending, submitted, due, behind, told, restored, unsaved>>
  PROVE  DrawingTypeOK' /\ OnePost' /\ Named' /\ Listening'
<1>1. Len(slots) \in 0..MaxSlots /\ DOMAIN slots = 1..Len(slots)
  BY SlotsAre DEF AnswerInv
<1>2. /\ row' = left /\ flush' = NoFlush /\ upload' \in UploadTask
      /\ upload'.slot = upload.slot /\ upload'.picture = upload.picture /\ upload'.ok = upload.ok
      /\ \/ upload'.at = upload.at
         \/ by = "upload" /\ upload.at = "flush" /\ upload'.at = "report"
      /\ \/ finish' = finish
         \/ by = "finish" /\ finish' \in {"submit", "none"}
  BY FlushOver
<1>3. NoFlush \in Flushing /\ NoFlush.by = "none" /\ NoFlush.slot = 0
  BY DrawingAssumption DEF NoFlush, Flushing, SlotIds
<1>4. DrawingTypeOK'
  BY <1>1, <1>2, <1>3 DEF AnswerInv, DrawingTypeOK, SlotsRemain, page
<1>5. OnePost'
  BY <1>2 DEF AnswerInv, OnePost, page
<1>6. Named'
  <2>1. /\ upload'.slot <= Len(slots') /\ row' <= Len(slots') /\ answer' <= Len(slots')
        /\ flush'.slot <= Len(slots') /\ (upload'.at = "flush" => upload'.slot # 0)
    BY <1>1, <1>2, <1>3 DEF AnswerInv, Named, SlotsRemain
  <2>2. upload'.at \in {"bytes", "enqueue"} => upload'.slot # 0 /\ slots'[upload'.slot].picture = upload'.picture
    BY <1>1, <1>2 DEF AnswerInv, Named, SlotsRemain, DrawingTypeOK, UploadTask, SlotIds
  <2> QED
    BY <2>1, <2>2 DEF Named, Out, PutIsRight, SlotsRemain
<1>7. Listening'
  BY <1>2, <1>3 DEF AnswerInv, Listening
<1> QED
  BY <1>4, <1>5, <1>6, <1>7

\* A PUT goes on and its flush waits, but for what the slots hold.
LEMMA PutGoes ==
  ASSUME AnswerInv, NEW h \in Handlers, NEW x \in PutRequest,
         put' = [put EXCEPT ![h] = x], PutIsRight(x), x.heard = put[h].heard,
         x.heard => x.at # "none" /\ x.slot = put[h].slot,
         SlotsRemain, answer' \in SlotIds, answer' <= Len(slots),
         faults' \in 0..MaxFaults, outrun' \in BOOLEAN, torn' \in BOOLEAN,
         UNCHANGED <<row, flush, upload, finish>>,
         UNCHANGED <<page, gate, ending, submitted, due, behind, told, restored, unsaved>>
  PROVE  DrawingTypeOK' /\ OnePost' /\ Named' /\ Listening'
<1>1. Len(slots) \in 0..MaxSlots /\ DOMAIN slots = 1..Len(slots)
  BY SlotsAre DEF AnswerInv
<1>2. /\ put' \in [Handlers -> PutRequest] /\ put'[h] = x
      /\ \A o \in Handlers \ {h} : put'[o] = put[o]
  BY DEF AnswerInv, DrawingTypeOK
<1>3. DrawingTypeOK'
  BY <1>1, <1>2 DEF AnswerInv, DrawingTypeOK, SlotsRemain, page
<1>4. OnePost'
  BY DEF AnswerInv, OnePost, page
<1>5. Named'
  <2>1. /\ upload'.slot <= Len(slots') /\ row' <= Len(slots') /\ answer' <= Len(slots')
        /\ flush'.slot <= Len(slots') /\ (upload'.at = "flush" => upload'.slot # 0)
    BY DEF AnswerInv, Named, SlotsRemain
  <2>2. upload'.at \in {"bytes", "enqueue"} => upload'.slot # 0 /\ slots'[upload'.slot].picture = upload'.picture
    BY <1>1 DEF AnswerInv, Named, SlotsRemain, DrawingTypeOK, UploadTask, SlotIds
  <2>3. \A o \in Handlers : PutIsRight(put'[o])
    BY <1>2 DEF AnswerInv, Named, Out, PutIsRight
  <2> QED
    BY <2>1, <2>2, <2>3 DEF Named, Out, PutIsRight, SlotsRemain
<1>6. Listening'
  <2>1. \A o \in Handlers : put'[o].heard => put[o].heard /\ put'[o].slot = put[o].slot /\ Out(o)'
    BY <1>2 DEF AnswerInv, Listening, Out
  <2> QED
    BY <2>1 DEF AnswerInv, Listening
<1> QED
  BY <1>3, <1>4, <1>5, <1>6

\* A PUT's answer ends the flush of who listens.
LEMMA AnswersEnd ==
  ASSUME AnswerInv, NEW h \in Handlers, Answers(h),
         SlotsRemain, answer' \in SlotIds, answer' <= Len(slots),
         faults' = faults, outrun' \in BOOLEAN, torn' \in BOOLEAN,
         UNCHANGED <<page, gate, ending, submitted, due, behind, told, restored, unsaved>>
  PROVE  /\ DrawingTypeOK' /\ OnePost' /\ Named' /\ Listening'
         /\ put' = [put EXCEPT ![h] = NoPut] /\ put' \in [Handlers -> PutRequest]
<1>1. NoPut \in PutRequest /\ NoPut.at = "none" /\ NoPut.heard = FALSE /\ PutIsRight(NoPut)
  BY DrawingAssumption DEF NoPut, PutRequest, SlotIds, PutIsRight
<1>2. /\ put' = [put EXCEPT ![h] = NoPut] /\ put' \in [Handlers -> PutRequest]
      /\ put'[h] = NoPut /\ \A o \in Handlers \ {h} : put'[o] = put[o]
  BY <1>1 DEF Answers, AnswerInv, DrawingTypeOK
<1>3. CASE put[h].heard
  <2>1. flush.by = "upload" => upload.at = "flush"
    BY DEF AnswerInv, Listening
  <2>2. flush.by = "finish" => finish = "flush"
    BY DEF AnswerInv, Listening
  <2>3. /\ AfterRemoval \in SlotIds /\ AfterRemoval <= Len(slots)
        /\ flush.by \in {"none", "upload", "finish", "other"} /\ faults \in 0..MaxFaults
    BY SlotsAre, DrawingAssumption DEF AfterRemoval, AnswerInv, DrawingTypeOK, Named, SlotIds, Flushing
  <2>4. \A o \in Handlers : ~put'[o].heard /\ PutIsRight(put'[o])
    BY <1>1, <1>2, <1>3 DEF AnswerInv, Listening, Named, Out, PutIsRight
  <2>5. Flushed(flush.by, AfterRemoval)
    BY <1>3 DEF Answers
  <2> QED
    BY <1>2, <2>1, <2>2, <2>3, <2>4, <2>5, FlushEnds
<1>4. CASE ~put[h].heard
  <2>1. UNCHANGED <<row, flush, upload, finish>> /\ faults \in 0..MaxFaults
    BY <1>4 DEF Answers, AnswerInv, DrawingTypeOK
  <2>2. put[h].heard = FALSE
    BY <1>4 DEF AnswerInv, DrawingTypeOK, PutRequest
  <2> QED
    BY <1>1, <1>2, <2>1, <2>2, PutGoes
<1> QED
  BY <1>3, <1>4

\* Slots left alone.
LEMMA SlotsAlone ==
  ASSUME AnswerInv, UNCHANGED slots
  PROVE  /\ SlotsRemain /\ SlotsStay
         /\ answer \in SlotIds /\ answer <= Len(slots) /\ faults \in 0..MaxFaults
         /\ outrun \in BOOLEAN /\ torn \in BOOLEAN
BY SlotsUnchanged DEF AnswerInv, DrawingTypeOK, Named, SlotsRemain

LEMMA StartKept ==
  ASSUME AnswerInv, NEW by \in {"upload", "finish", "other"}, NEW h \in Handlers, StartFlush(by, h)
  PROVE  AnswerInv'
<1>1. /\ UNCHANGED <<page, gate, ending, slots, answer, submitted, due, behind, told, restored,
                     faults, unsaved, outrun, torn>>
      /\ flush.by = "none" /\ Asks(by)
      /\ \A o \in Handlers : ~put[o].heard
  BY DEF StartFlush, AnswerInv, Listening
<1>2. /\ by = "upload" => upload.at = "flush"
      /\ by = "finish" => finish = "flush"
  BY <1>1 DEF Asks
<1>3. SlotsRemain /\ SlotsStay /\ answer' \in SlotIds /\ answer' <= Len(slots) /\ faults' \in 0..MaxFaults
      /\ outrun' \in BOOLEAN /\ torn' \in BOOLEAN
  BY <1>1, SlotsAlone
<1>4. CASE row = 0
  <2>1. Flushed(by, 0) /\ UNCHANGED put
    BY <1>4 DEF StartFlush
  <2>2. 0 \in SlotIds /\ 0 <= Len(slots) /\ put' \in [Handlers -> PutRequest]
    BY <2>1, SlotsAre, DrawingAssumption DEF SlotIds, AnswerInv, DrawingTypeOK
  <2>3. \A o \in Handlers : ~put'[o].heard /\ PutIsRight(put'[o])
    BY <1>1, <2>1 DEF AnswerInv, Named, Out, PutIsRight
  <2>4. DrawingTypeOK' /\ OnePost' /\ Named' /\ Listening'
    BY <1>1, <1>2, <1>3, <2>1, <2>2, <2>3, FlushEnds
  <2>5. Whole'
    BY <1>1, <1>3, <2>1, WholeStays DEF AnswerInv
  <2> QED
    BY <2>4, <2>5 DEF AnswerInv
<1>5. CASE row # 0
  <2> DEFINE x == [NoPut EXCEPT !.at = "check", !.slot = row, !.heard = TRUE]
  <2>1. /\ put' = [put EXCEPT ![h] = x] /\ put[h].at = "none"
        /\ flush' = [by |-> by, slot |-> row] /\ UNCHANGED <<row, upload, finish>>
    BY <1>5 DEF StartFlush
  <2>2. NoPut \in PutRequest /\ row \in SlotIds /\ row <= Len(slots)
    BY DrawingAssumption DEF NoPut, PutRequest, SlotIds, AnswerInv, DrawingTypeOK, Named
  <2>3. /\ x \in PutRequest /\ x.at = "check" /\ x.slot = row /\ x.heard = TRUE /\ x.doomed = {}
    BY <2>2 DEF PutRequest, NoPut
  <2> HIDE DEF x
  <2>4. /\ put' \in [Handlers -> PutRequest] /\ put'[h] = x
        /\ \A o \in Handlers \ {h} : put'[o] = put[o]
    BY <2>1, <2>3 DEF AnswerInv, DrawingTypeOK
  <2>5. flush' \in Flushing /\ flush'.by = by /\ flush'.slot = row
    BY <2>1, <2>2 DEF Flushing
  <2>6. DrawingTypeOK'
    BY <1>1, <2>1, <2>4, <2>5 DEF AnswerInv, DrawingTypeOK, page
  <2>7. OnePost'
    BY <1>1, <2>1 DEF AnswerInv, OnePost, page
  <2>8. Named'
    <3>1. row \in 1..Len(slots)
      BY <1>5, <2>2, SlotsAre DEF AnswerInv, SlotIds
    <3>2. \A o \in Handlers : /\ Out(o)' => put'[o].slot \in 1..Len(slots)
                              /\ put'[o].doomed \subseteq DOMAIN slots
                              /\ put'[o].at = "delete" => put'[o].slot \notin put'[o].doomed
      BY <2>3, <2>4, <3>1 DEF AnswerInv, Named, Out
    <3> QED
      BY <1>1, <2>1, <2>2, <2>5, <3>2 DEF AnswerInv, Named
  <2>9. Listening'
    BY <1>1, <1>2, <1>5, <2>1, <2>3, <2>4, <2>5 DEF Listening, Out
  <2>10. Whole'
    <3>1. \A o \in Handlers : Deletes(o)' => Deletes(o) /\ put'[o] = put[o]
      BY <2>3, <2>4 DEF Deletes
    <3>2. \A o \in Handlers : put[o].at = "write" => put'[o].at = "write"
      BY <2>1, <2>4
    <3> QED
      BY <1>1, <3>1, <3>2 DEF AnswerInv, Whole, Held
  <2> QED
    BY <2>6, <2>7, <2>8, <2>9, <2>10 DEF AnswerInv
<1> QED
  BY <1>4, <1>5

\* PUTs that nobody listens to any more.
LEMMA Unheard ==
  ASSUME AnswerInv, put' = [h \in Handlers |-> [put[h] EXCEPT !.heard = FALSE]]
  PROVE  /\ put' \in [Handlers -> PutRequest]
         /\ \A h \in Handlers : /\ put'[h].at = put[h].at /\ put'[h].slot = put[h].slot
                                /\ put'[h].doomed = put[h].doomed /\ put'[h].heard = FALSE
                                /\ PutIsRight(put'[h])
<1>1. \A h \in Handlers : put[h] \in PutRequest
  BY DEF AnswerInv, DrawingTypeOK
<1>2. \A h \in Handlers : /\ put'[h] \in PutRequest
                          /\ put'[h].at = put[h].at /\ put'[h].slot = put[h].slot
                          /\ put'[h].doomed = put[h].doomed /\ put'[h].heard = FALSE
  BY <1>1 DEF PutRequest
<1>3. put' \in [Handlers -> PutRequest]
  BY <1>2
<1>4. \A h \in Handlers : PutIsRight(put'[h])
  BY <1>2 DEF AnswerInv, Named, Out, PutIsRight
<1> QED
  BY <1>2, <1>3, <1>4

LEMMA FlushFailsKept == ASSUME AnswerInv, FlushFails PROVE AnswerInv'
<1>1. /\ UNCHANGED <<page, gate, ending, slots, answer, submitted, due, behind, told, restored,
                     unsaved, outrun, torn>>
      /\ Flushed(flush.by, row) /\ Fault
      /\ put' = [h \in Handlers |-> [put[h] EXCEPT !.heard = FALSE]]
  BY DEF FlushFails
<1>2. /\ SlotsRemain /\ SlotsStay /\ answer' \in SlotIds /\ answer' <= Len(slots)
      /\ outrun' \in BOOLEAN /\ torn' \in BOOLEAN
  BY <1>1, SlotsAlone
<1>3. faults' \in 0..MaxFaults
  BY <1>1, FaultCounts
<1>4. /\ put' \in [Handlers -> PutRequest]
      /\ \A h \in Handlers : /\ put'[h].at = put[h].at /\ put'[h].slot = put[h].slot
                             /\ ~put'[h].heard /\ PutIsRight(put'[h])
  BY <1>1, Unheard
<1>5. /\ row \in SlotIds /\ row <= Len(slots) /\ flush.by \in {"none", "upload", "finish", "other"}
      /\ flush.by = "upload" => upload.at = "flush"
      /\ flush.by = "finish" => finish = "flush"
  BY DEF AnswerInv, DrawingTypeOK, Named, Listening, Flushing
<1>6. DrawingTypeOK' /\ OnePost' /\ Named' /\ Listening'
  BY <1>1, <1>2, <1>3, <1>4, <1>5, FlushEnds
<1>7. Whole'
  BY <1>1, <1>2, <1>4, WholeStays DEF AnswerInv
<1> QED
  BY <1>6, <1>7 DEF AnswerInv

LEMMA CheckKept == ASSUME AnswerInv, NEW h \in Handlers, CheckSlot(h) PROVE AnswerInv'
<1>1. /\ UNCHANGED <<page, gate, ending, slots, answer, submitted, due, behind, told, restored,
                     faults, unsaved, outrun>>
      /\ put[h].at = "check"
  BY DEF CheckSlot
<1>2. /\ SlotsRemain /\ SlotsStay /\ answer' \in SlotIds /\ answer' <= Len(slots)
      /\ outrun' \in BOOLEAN /\ torn \in BOOLEAN /\ faults' \in 0..MaxFaults
  BY <1>1, SlotsAlone
<1>3. CASE Answers(h) /\ UNCHANGED torn
  <2>1. /\ DrawingTypeOK' /\ OnePost' /\ Named' /\ Listening'
        /\ put' = [put EXCEPT ![h] = NoPut] /\ put' \in [Handlers -> PutRequest]
    BY <1>1, <1>2, <1>3, AnswersEnd
  <2>2. Whole'
    <3>1. \A o \in Handlers : Deletes(o)' => Deletes(o) /\ put'[o] = put[o]
      BY <2>1 DEF Deletes, NoPut, AnswerInv, DrawingTypeOK
    <3>2. \A o \in Handlers : put[o].at = "write" => put'[o].at = "write"
      BY <1>1, <2>1 DEF AnswerInv, DrawingTypeOK
    <3> QED
      BY <1>1, <1>3, <3>1, <3>2 DEF AnswerInv, Whole, Held
  <2> QED
    BY <2>1, <2>2 DEF AnswerInv
<1>4. CASE ~(Answers(h) /\ UNCHANGED torn)
  <2> DEFINE x == [put[h] EXCEPT !.at = "prune"]
  <2>1. /\ ~submitted /\ MayBeNamed(put[h].slot) /\ put' = [put EXCEPT ![h] = x]
        /\ torn' = (torn \/ \E o \in Handlers \ {h} : Deletes(o))
        /\ UNCHANGED <<row, flush, upload, finish>>
    BY <1>4 DEF CheckSlot
  <2>2. put[h] \in PutRequest /\ PutIsRight(put[h])
    BY DEF AnswerInv, DrawingTypeOK, Named, Out, PutIsRight
  <2>3. /\ x \in PutRequest /\ x.at = "prune" /\ x.slot = put[h].slot /\ x.heard = put[h].heard
        /\ x.doomed = put[h].doomed
    BY <2>2 DEF PutRequest
  <2> HIDE DEF x
  <2>4. PutIsRight(x)
    BY <1>1, <2>2, <2>3 DEF PutIsRight
  <2>5. torn' \in BOOLEAN
    BY <1>2, <2>1
  <2>6. DrawingTypeOK' /\ OnePost' /\ Named' /\ Listening'
    BY <1>1, <1>2, <2>1, <2>3, <2>4, <2>5, PutGoes
  <2>7. put'[h] = x /\ \A o \in Handlers \ {h} : put'[o] = put[o]
    BY <2>1 DEF AnswerInv, DrawingTypeOK
  <2>8. ASSUME ~torn'
        PROVE  /\ \A o, u \in Handlers : Deletes(o)' /\ Deletes(u)' => o = u
               /\ \A o \in Handlers : Deletes(o)' => Held(put'[o].slot)
    <3>1. ~torn /\ \A o \in Handlers \ {h} : ~Deletes(o)
      BY <2>1, <2>8
    <3>2. \A o \in Handlers : Deletes(o)' => o = h
      BY <2>7, <3>1 DEF Deletes
    <3> QED
      BY <2>1, <2>3, <2>7, <3>2 DEF MayBeNamed, Held
  <2>9. \A o \in Handlers : put[o].at = "write" => put'[o].at = "write"
    BY <1>1, <2>7
  <2>10. Whole'
    BY <1>1, <2>1, <2>8, <2>9 DEF AnswerInv, Whole, Held
  <2> QED
    BY <2>6, <2>10 DEF AnswerInv
<1> QED
  BY <1>3, <1>4

LEMMA ReadKept == ASSUME AnswerInv, NEW h \in Handlers, ReadSlots(h) PROVE AnswerInv'
<1> DEFINE x == [put[h] EXCEPT !.at = "delete", !.doomed = Superseded(put[h].slot)]
<1>1. /\ put[h].at = "prune"
      /\ UNCHANGED <<page, gate, ending, row, flush, upload, finish, slots, answer, submitted, due,
                     behind, told, restored, faults, unsaved, outrun, torn>>
  BY DEF ReadSlots, host, spool, handIn
<1>2. put[h] \in PutRequest /\ PutIsRight(put[h]) /\ DOMAIN slots \subseteq 1..MaxSlots
  BY SlotsAre DEF AnswerInv, DrawingTypeOK, Named, Out, PutIsRight
<1>3. Superseded(put[h].slot) \subseteq DOMAIN slots /\ put[h].slot \notin Superseded(put[h].slot)
  BY DEF Superseded
<1>4. /\ x \in PutRequest /\ x.at = "delete" /\ x.slot = put[h].slot /\ x.heard = put[h].heard
      /\ x.doomed = Superseded(put[h].slot)
  BY <1>2, <1>3 DEF PutRequest
<1>5. put' = [put EXCEPT ![h] = x]
  BY DEF ReadSlots, AnswerInv, DrawingTypeOK
<1> HIDE DEF x
<1>6. PutIsRight(x)
  BY <1>1, <1>2, <1>3, <1>4 DEF PutIsRight
<1>7. DrawingTypeOK' /\ OnePost' /\ Named' /\ Listening'
  BY <1>1, <1>4, <1>5, <1>6, SlotsAlone, PutGoes
<1>8. put'[h] = x /\ \A o \in Handlers \ {h} : put'[o] = put[o]
  BY <1>5 DEF AnswerInv, DrawingTypeOK
<1>9. Whole'
  <2>1. \A o \in Handlers : Deletes(o)' => Deletes(o) /\ put'[o].slot = put[o].slot
    BY <1>1, <1>4, <1>8 DEF Deletes
  <2>2. \A o \in Handlers : put[o].at = "write" => put'[o].at = "write"
    BY <1>1, <1>8
  <2> QED
    BY <1>1, <2>1, <2>2 DEF AnswerInv, Whole, Held
<1> QED
  BY <1>7, <1>9 DEF AnswerInv

\* The slots after the deletes.
LEMMA Deleted ==
  ASSUME AnswerInv, NEW h \in Handlers, DeleteSlots(h)
  PROVE  /\ SlotsRemain
         /\ \A s \in DOMAIN slots : s \in put[h].doomed => ~slots'[s].registered
         /\ \A s \in DOMAIN slots : s \notin put[h].doomed => slots'[s] = slots[s]
         /\ \A s \in DOMAIN slots : slots'[s].registered => slots[s].registered
<1> DEFINE less(s) == [slots[s] EXCEPT !.registered = FALSE, !.stored = FALSE]
<1>1. /\ Len(slots) \in 0..MaxSlots /\ DOMAIN slots = 1..Len(slots)
      /\ \A s \in DOMAIN slots : slots[s] \in Slot
  BY SlotsAre DEF AnswerInv
<1>2. \A s \in DOMAIN slots : less(s) \in Slot /\ less(s).picture = slots[s].picture /\ ~less(s).registered
  BY <1>1 DEF Slot
<1>3. slots' = [s \in DOMAIN slots |-> IF s \in put[h].doomed THEN less(s) ELSE slots[s]]
  BY DEF DeleteSlots
<1> HIDE DEF less
<1>4. slots' \in [1..Len(slots) -> Slot] /\ DOMAIN slots' = DOMAIN slots
  BY <1>1, <1>2, <1>3
<1>5. slots' \in Seq(Slot)
  BY <1>1, <1>4, SeqDef
<1>6. Len(slots') = Len(slots)
  BY <1>1, <1>4, <1>5, LenProperties
<1> QED
  BY <1>2, <1>3, <1>4, <1>5, <1>6 DEF SlotsRemain

LEMMA DeleteKept == ASSUME AnswerInv, NEW h \in Handlers, DeleteSlots(h) PROVE AnswerInv'
<1> DEFINE x == [put[h] EXCEPT !.at = "write"]
<1>1. /\ put[h].at = "delete" /\ put' = [put EXCEPT ![h] = x]
      /\ UNCHANGED <<page, gate, ending, row, flush, upload, finish, answer, submitted, due,
                     behind, told, restored, faults, unsaved, torn>>
  BY DEF DeleteSlots, host, spool, handIn
<1>2. put[h] \in PutRequest /\ PutIsRight(put[h])
  BY DEF AnswerInv, DrawingTypeOK, Named, Out, PutIsRight
<1>3. /\ x \in PutRequest /\ x.at = "write" /\ x.slot = put[h].slot /\ x.heard = put[h].heard
      /\ x.doomed = put[h].doomed
  BY <1>2 DEF PutRequest
<1> HIDE DEF x
<1>4. PutIsRight(x)
  BY <1>1, <1>2, <1>3 DEF PutIsRight
<1>5. /\ SlotsRemain
      /\ \A s \in DOMAIN slots : s \notin put[h].doomed => slots'[s] = slots[s]
  BY Deleted
<1>6. outrun' \in BOOLEAN
  BY DEF DeleteSlots, AnswerInv, DrawingTypeOK
<1>7. answer' \in SlotIds /\ answer' <= Len(slots) /\ faults' \in 0..MaxFaults /\ torn' \in BOOLEAN
  BY <1>1 DEF AnswerInv, DrawingTypeOK, Named
<1>8. DrawingTypeOK' /\ OnePost' /\ Named' /\ Listening'
  BY <1>1, <1>3, <1>4, <1>5, <1>6, <1>7, PutGoes
<1>9. put'[h] = x /\ \A o \in Handlers \ {h} : put'[o] = put[o]
  BY <1>1 DEF AnswerInv, DrawingTypeOK
<1>10. Whole'
  <2>1. \A o \in Handlers : Deletes(o)' => Deletes(o) /\ put'[o].slot = put[o].slot
    BY <1>1, <1>3, <1>9 DEF Deletes
  <2>2. ASSUME ~torn, NEW o \in Handlers, Deletes(o)'
        PROVE  slots'[put'[o].slot].registered /\ slots'[put'[o].slot].stored
    <3>1. o = h
      BY <1>1, <2>1, <2>2 DEF AnswerInv, Whole, Deletes
    <3>2. Held(put[h].slot) /\ put[h].slot \notin put[h].doomed /\ put[h].slot \in DOMAIN slots
      BY <1>1, <1>2, <2>2, SlotsAre DEF AnswerInv, Whole, Deletes, PutIsRight
    <3> QED
      BY <1>5, <2>1, <2>2, <3>1, <3>2 DEF Held
  <2>3. put'[h].at = "write"
    BY <1>3, <1>9
  <2> QED
    BY <1>1, <2>1, <2>2, <2>3 DEF AnswerInv, Whole, Held
<1> QED
  BY <1>8, <1>10 DEF AnswerInv

LEMMA WriteKept == ASSUME AnswerInv, NEW h \in Handlers, WriteAnswer(h) PROVE AnswerInv'
<1>1. /\ put[h].at = "write" /\ answer' = put[h].slot /\ Answers(h)
      /\ UNCHANGED <<page, gate, ending, slots, submitted, due, behind, told, restored,
                     faults, unsaved, outrun, torn>>
  BY DEF WriteAnswer
<1>2. SlotsRemain /\ torn' \in BOOLEAN /\ outrun' \in BOOLEAN
  BY <1>1, SlotsAlone
<1>3. answer' \in SlotIds /\ answer' <= Len(slots)
  BY <1>1, SlotsAre DEF AnswerInv, DrawingTypeOK, PutRequest, Named, Out
<1>4. /\ DrawingTypeOK' /\ OnePost' /\ Named' /\ Listening'
      /\ put' = [put EXCEPT ![h] = NoPut]
  BY <1>1, <1>2, <1>3, AnswersEnd
<1>5. \A o \in Handlers : Deletes(o)' => Deletes(o) /\ put'[o] = put[o]
  BY <1>4 DEF Deletes, NoPut, AnswerInv, DrawingTypeOK
<1>6. ~torn => Held(answer')
  BY <1>1 DEF AnswerInv, Whole, Deletes
<1>7. Whole'
  BY <1>1, <1>5, <1>6 DEF AnswerInv, Whole, Held
<1> QED
  BY <1>4, <1>7 DEF AnswerInv

LEMMA DiesKept == ASSUME AnswerInv, NEW h \in Handlers, PutDies(h) PROVE AnswerInv'
<1>1. /\ UNCHANGED <<page, gate, ending, slots, answer, submitted, due, behind, told, restored,
                     unsaved, outrun>>
      /\ put' = [put EXCEPT ![h] = NoPut] /\ Fault
      /\ torn' = (torn \/ put[h].at \in {"delete", "write"})
  BY DEF PutDies
<1>2. NoPut \in PutRequest /\ NoPut.at = "none" /\ NoPut.heard = FALSE /\ PutIsRight(NoPut)
  BY DrawingAssumption DEF NoPut, PutRequest, SlotIds, PutIsRight
<1>3. /\ put' \in [Handlers -> PutRequest]
      /\ put'[h] = NoPut /\ \A o \in Handlers \ {h} : put'[o] = put[o]
  BY <1>1, <1>2 DEF AnswerInv, DrawingTypeOK
<1>4. /\ SlotsRemain /\ answer' \in SlotIds /\ answer' <= Len(slots) /\ outrun' \in BOOLEAN
  BY <1>1, SlotsAlone
<1>5. torn' \in BOOLEAN
  BY <1>1 DEF AnswerInv, DrawingTypeOK
<1>6. faults' \in 0..MaxFaults
  BY <1>1, FaultCounts
<1>7. DrawingTypeOK' /\ OnePost' /\ Named' /\ Listening'
  <2>1. CASE put[h].heard
    <3>1. /\ row \in SlotIds /\ row <= Len(slots) /\ flush.by \in {"none", "upload", "finish", "other"}
          /\ flush.by = "upload" => upload.at = "flush"
          /\ flush.by = "finish" => finish = "flush"
      BY DEF AnswerInv, DrawingTypeOK, Named, Listening, Flushing
    <3>2. Flushed(flush.by, row)
      BY <2>1 DEF PutDies
    <3>3. \A o \in Handlers : ~put'[o].heard /\ PutIsRight(put'[o])
      BY <1>2, <1>3, <2>1 DEF AnswerInv, Listening, Named, Out, PutIsRight
    <3> QED
      BY <1>1, <1>3, <1>4, <1>5, <1>6, <3>1, <3>2, <3>3, FlushEnds
  <2>2. CASE ~put[h].heard
    <3>1. UNCHANGED <<row, flush, upload, finish>>
      BY <2>2 DEF PutDies
    <3>2. put[h].heard = FALSE
      BY <2>2 DEF AnswerInv, DrawingTypeOK, PutRequest
    <3> QED
      BY <1>1, <1>2, <1>4, <1>5, <1>6, <3>1, <3>2, PutGoes
  <2> QED
    BY <2>1, <2>2
<1>8. Whole'
  <2>1. \A o \in Handlers : Deletes(o)' => Deletes(o) /\ put'[o] = put[o]
    BY <1>2, <1>3 DEF Deletes
  <2>2. ~torn' => ~torn /\ \A o \in Handlers : put[o].at = "write" => put'[o].at = "write"
    BY <1>1, <1>3
  <2> QED
    BY <1>1, <2>1, <2>2 DEF AnswerInv, Whole, Held
<1> QED
  BY <1>7, <1>8 DEF AnswerInv

\* What the page and the host start from.
LEMMA AtStart ==
  /\ NoUpload \in UploadTask /\ NoUpload.at = "none" /\ NoUpload.slot = 0
  /\ NoFlush \in Flushing /\ NoFlush.by = "none" /\ NoFlush.slot = 0
  /\ NoPut \in PutRequest /\ NoPut.at = "none" /\ NoPut.heard = FALSE /\ NoPut.doomed = {}
  /\ 0 \in Pictures /\ 0 \in SlotIds
BY DrawingAssumption DEF NoUpload, UploadTask, NoFlush, Flushing, NoPut, PutRequest, Pictures, SlotIds

LEMMA CrashKept == ASSUME AnswerInv, Crash PROVE AnswerInv'
<1>1. /\ UNCHANGED <<drawn, row, slots, answer, submitted, outrun, torn>> /\ Fault
      /\ dirty' = FALSE /\ inFlight' = FALSE /\ result' = "none"
      /\ upload' = NoUpload /\ gate' = 0 /\ ending' = 0 /\ finish' = "none" /\ flush' = NoFlush
      /\ put' = [h \in Handlers |-> [put[h] EXCEPT !.heard = FALSE]]
      /\ unsaved' = FALSE /\ due' = 0 /\ behind' = FALSE /\ told' = FALSE
  BY DEF Crash
<1>2. restored' \in BOOLEAN
  BY DEF Crash, AnswerInv, DrawingTypeOK
<1>3. canvas' \in Pictures
  <2>1. answer # 0 => answer \in DOMAIN slots /\ slots[answer].picture \in Pictures
    BY SlotsAre DEF AnswerInv, DrawingTypeOK, Named, SlotIds, Slot
  <2>2. canvas' \in {0, PictureOf(answer)}
    BY DEF Crash
  <2> QED
    BY <2>1, <2>2, AtStart DEF PictureOf
<1>4. faults' \in 0..MaxFaults
  BY <1>1, FaultCounts
<1>5. /\ put' \in [Handlers -> PutRequest]
      /\ \A h \in Handlers : /\ put'[h].at = put[h].at /\ put'[h].slot = put[h].slot
                             /\ ~put'[h].heard /\ PutIsRight(put'[h])
  BY <1>1, Unheard
<1>6. DrawingTypeOK'
  <2>1. DrawingTypeOK
    BY DEF AnswerInv
  <2>2. 0 \in 0..2 /\ 0 \in 0..1
    OBVIOUS
  <2>3. /\ drawn' \in Pictures /\ due' \in Pictures /\ row' \in SlotIds /\ answer' \in SlotIds
        /\ slots' \in Seq(Slot) /\ Len(slots') <= MaxSlots /\ gate' \in 0..2 /\ ending' \in 0..1
    BY <1>1, <2>1, <2>2, AtStart DEF DrawingTypeOK
  <2>4. /\ dirty' \in BOOLEAN /\ inFlight' \in BOOLEAN /\ behind' \in BOOLEAN
        /\ told' \in BOOLEAN /\ unsaved' \in BOOLEAN
    BY <1>1
  <2>5. submitted' \in BOOLEAN /\ outrun' \in BOOLEAN /\ torn' \in BOOLEAN
    BY <1>1, <2>1 DEF DrawingTypeOK
  <2>6. /\ result' \in {"none", "ok", "failed"} /\ upload' \in UploadTask /\ flush' \in Flushing
        /\ finish' \in {"none", "asked", "waiting", "woken", "flush", "submit", "done"}
    BY <1>1, AtStart
  <2> QED
    BY <1>2, <1>3, <1>4, <1>5, <2>3, <2>4, <2>5, <2>6 DEF DrawingTypeOK
<1>7. OnePost'
  BY <1>1, AtStart DEF OnePost
<1>8. Named'
  BY <1>1, <1>5, AtStart, SlotsAre DEF AnswerInv, Named, Out, PutIsRight
<1>9. Listening'
  BY <1>1, <1>5, AtStart DEF Listening
<1>10. Whole'
  BY <1>1, <1>5, SlotsAlone, WholeStays DEF AnswerInv
<1> QED
  BY <1>6, <1>7, <1>8, <1>9, <1>10 DEF AnswerInv

LEMMA InitAnswer == DrawingInit => AnswerInv
<1> SUFFICES ASSUME DrawingInit PROVE AnswerInv
  OBVIOUS
<1>1. slots \in Seq(Slot) /\ Len(slots) = 0 /\ \A h \in Handlers : put[h] = NoPut
  BY EmptySeq DEF DrawingInit
<1>2. DrawingTypeOK
  <2>1. /\ canvas \in Pictures /\ drawn \in Pictures /\ due \in Pictures
        /\ row \in SlotIds /\ answer \in SlotIds
    BY AtStart DEF DrawingInit
  <2>2. gate \in 0..2 /\ ending \in 0..1 /\ faults \in 0..MaxFaults /\ Len(slots) <= MaxSlots
    BY <1>1, DrawingAssumption DEF DrawingInit
  <2>3. /\ dirty \in BOOLEAN /\ inFlight \in BOOLEAN /\ behind \in BOOLEAN /\ told \in BOOLEAN
        /\ restored \in BOOLEAN /\ submitted \in BOOLEAN /\ unsaved \in BOOLEAN
        /\ outrun \in BOOLEAN /\ torn \in BOOLEAN
    BY DEF DrawingInit
  <2>4. /\ result \in {"none", "ok", "failed"} /\ upload \in UploadTask /\ flush \in Flushing
        /\ finish \in {"none", "asked", "waiting", "woken", "flush", "submit", "done"}
    BY AtStart DEF DrawingInit
  <2>5. put \in [Handlers -> PutRequest]
    BY AtStart DEF DrawingInit
  <2> QED
    BY <1>1, <2>1, <2>2, <2>3, <2>4, <2>5 DEF DrawingTypeOK
<1>3. OnePost
  BY AtStart DEF DrawingInit, OnePost
<1>4. Named
  BY <1>1, AtStart DEF DrawingInit, Named, Out
<1>5. Listening
  BY <1>1, AtStart DEF DrawingInit, Listening, Out
<1>6. Whole
  BY <1>1, AtStart DEF DrawingInit, Whole, Deletes
<1> QED
  BY <1>2, <1>3, <1>4, <1>5, <1>6 DEF AnswerInv

LEMMA AnswerStep == AnswerInv /\ [DrawingNext]_drawingVars => AnswerInv'
<1> SUFFICES ASSUME AnswerInv, [DrawingNext]_drawingVars PROVE AnswerInv'
  OBVIOUS
<1>1. CASE Draw \/ Clear \/ FlushNow \/ SaveDrawing \/ ResultArrives \/ PressFinish
  BY <1>1, DrawKept, PageKept
<1>2. CASE RequestUpload \/ UploadBytes \/ Enqueue \/ Report \/ GateEnds
  BY <1>2, RequestKept, BytesKept, EnqueueKept, ReportKept
<1>3. CASE WaitForIdle \/ Submit \/ FlushFails \/ Crash
  BY <1>3, WaitKept, SubmitKept, FlushFailsKept, CrashKept
<1>4. ASSUME NEW h \in Handlers, NEW by \in {"upload", "finish", "other"}, StartFlush(by, h)
      PROVE  AnswerInv'
  BY <1>4, StartKept
<1>5. ASSUME NEW h \in Handlers,
             CheckSlot(h) \/ ReadSlots(h) \/ DeleteSlots(h) \/ WriteAnswer(h) \/ PutDies(h)
      PROVE  AnswerInv'
  BY <1>5, CheckKept, ReadKept, DeleteKept, WriteKept, DiesKept
<1>6. CASE UNCHANGED drawingVars
  <2>1. UNCHANGED <<canvas, drawn, dirty, inFlight, result, upload, gate, ending, row, flush, put,
                    slots, answer, submitted, finish, due, behind, told, restored, faults, unsaved,
                    outrun, torn>>
    BY <1>6 DEF drawingVars, page, host, spool, server, handIn
  <2>2. DrawingTypeOK' /\ OnePost'
    BY <2>1 DEF AnswerInv, DrawingTypeOK, OnePost
  <2>3. Named' /\ Listening'
    BY <2>1 DEF AnswerInv, Named, Listening, Out
  <2>4. Whole'
    BY <2>1 DEF AnswerInv, Whole, Deletes, Held
  <2> QED
    BY <2>2, <2>3, <2>4 DEF AnswerInv
<1> QED
  BY <1>1, <1>2, <1>3, <1>4, <1>5, <1>6 DEF DrawingNext

\* The invariant of the drawing's way to the answer.
THEOREM DrawingInvariant == DrawingSpec => []AnswerInv
<1> QED
  BY InitAnswer, AnswerStep, PTL DEF DrawingSpec

\* The page, the task, the gate, the hand-in and the server's rows have their types.
THEOREM DrawingTypes == DrawingSpec => []DrawingTypeOK
<1>1. AnswerInv => DrawingTypeOK
  BY DEF AnswerInv
<1> QED
  BY <1>1, DrawingInvariant, PTL

\* The answer names a slot that is there with its bytes.
THEOREM AnswerDrawn == DrawingSpec => []AnswerHasItsDrawing
<1>1. AnswerInv => AnswerHasItsDrawing
  BY DEF AnswerInv, Whole, Held, AnswerHasItsDrawing
<1> QED
  BY <1>1, DrawingInvariant, PTL

-----------------------------------------------------------------------------
(* the hand-in has it *)

\* Nothing was deleted out of order and the attempt is open.
Clean == ~torn /\ ~outrun /\ ~restored /\ ~submitted

\* Slots older than the answer are gone, and so they are before it is written.
Replaced ==
  /\ \A s \in DOMAIN slots : s < answer => ~slots[s].registered
  /\ \A h \in Handlers : \A s \in DOMAIN slots : s < put[h].slot =>
       /\ put[h].at = "write" => ~slots[s].registered
       /\ put[h].at = "delete" /\ slots[s].registered => s \in put[h].doomed

\* The upload's slot is the newest, the row's no older than what was sent, and
\* with no row everything sent is answered.
RowInOrder ==
  /\ row # 0 => Held(row) /\ answer <= row /\ \A h \in Handlers : Out(h) => put[h].slot <= row
  /\ row = 0 => \A h \in Handlers : Out(h) => put[h].slot <= answer
InOrder ==
  /\ upload.at = "bytes" => slots[upload.slot].registered
  /\ upload.at = "enqueue" => Held(upload.slot)
  /\ upload.at \in {"bytes", "enqueue"} =>
       /\ row < upload.slot /\ answer < upload.slot
       /\ \A h \in Handlers : Out(h) => put[h].slot < upload.slot
  /\ RowInOrder

\* The picture saved last, and one that is saved or on its way to be.
Saved == IF row # 0 THEN PictureOf(row) ELSE PictureOf(answer)
OnItsWay(c) == upload.at \in {"slot", "bytes", "enqueue"} => upload.picture >= c
Caught(c) ==
  /\ OnItsWay(c)
  /\ upload.at \in {"flush", "report"} /\ upload.ok => Saved >= c
  /\ ~unsaved /\ upload.at \notin {"slot", "bytes", "enqueue"} => Saved >= c

\* No picture is newer than the one drawn last.
Canvas ==
  /\ canvas <= drawn /\ due <= drawn /\ (canvas = 0 \/ canvas >= due)
  /\ upload.picture <= drawn /\ \A s \in DOMAIN slots : slots[s].picture <= drawn
  /\ dirty => canvas # 0
  /\ finish = "done" => submitted

\* What was on the canvas when Finish was pressed, at each stage of the hand-in.
Answered ==
  /\ PictureOf(answer) >= due
  /\ \A h \in Handlers : Out(h) /\ put[h].slot > answer => PictureOf(put[h].slot) >= due
Due ==
  /\ finish \in {"asked", "waiting", "woken"} => Caught(due)
  /\ finish \in {"flush", "submit"} /\ ~told => OnItsWay(due) /\ Saved >= due
  /\ finish = "submit" /\ ~told => Answered

InTime == Replaced /\ InOrder /\ (~dirty => Caught(canvas)) /\ (~behind => Due)
HandInInv == AnswerInv /\ Canvas /\ (Clean => InTime)

ArePictures ==
  /\ Saved \in Pictures /\ PictureOf(answer) \in Pictures /\ PictureOf(row) \in Pictures
  /\ canvas \in Pictures /\ due \in Pictures /\ drawn \in Pictures /\ upload.picture \in Pictures
  /\ MaxPictures \in Nat /\ Pictures = 0..MaxPictures

LEMMA SavedIs == AnswerInv => ArePictures
<1> SUFFICES ASSUME AnswerInv PROVE ArePictures
  OBVIOUS
<1>1. \A s \in SlotIds : s <= Len(slots) => PictureOf(s) \in Pictures
  <2> SUFFICES ASSUME NEW s \in SlotIds, s <= Len(slots) PROVE PictureOf(s) \in Pictures
    OBVIOUS
  <2>1. CASE s = 0
    BY <2>1, AtStart DEF PictureOf
  <2>2. CASE s # 0
    <3>1. s \in DOMAIN slots
      BY <2>2, SlotsAre DEF AnswerInv, SlotIds
    <3> QED
      BY <2>2, <3>1, SlotsAre DEF AnswerInv, PictureOf, Slot
  <2> QED
    BY <2>1, <2>2
<1>2. /\ row \in SlotIds /\ row <= Len(slots) /\ answer \in SlotIds /\ answer <= Len(slots)
      /\ canvas \in Pictures /\ due \in Pictures /\ drawn \in Pictures /\ upload.picture \in Pictures
  BY DEF AnswerInv, DrawingTypeOK, Named, UploadTask
<1> QED
  BY <1>1, <1>2, DrawingAssumption DEF ArePictures, Saved, Pictures

LEMMA SavedIsNext == AnswerInv' => ArePictures'
BY SavedIs, PTL

\* A step of the spool or the server loses no picture: what was saved stays so.
UploadGoesOn ==
  /\ upload'.slot = upload.slot /\ upload'.picture = upload.picture /\ upload'.ok = upload.ok
  /\ upload'.at = upload.at \/ (upload.at = "flush" /\ upload'.at = "report")

LEMMA CaughtStays ==
  ASSUME AnswerInv, AnswerInv', Saved' >= Saved, unsaved' = unsaved, UploadGoesOn
  PROVE  \A c \in Pictures : (Caught(c) => Caught(c)') /\ (OnItsWay(c) => OnItsWay(c)')
<1>1. Saved \in Pictures /\ Saved' \in Pictures /\ Pictures = 0..MaxPictures /\ MaxPictures \in Nat
  BY SavedIs, SavedIsNext DEF ArePictures
<1> SUFFICES ASSUME NEW c \in Pictures
             PROVE  (Caught(c) => Caught(c)') /\ (OnItsWay(c) => OnItsWay(c)')
  OBVIOUS
<1>2. OnItsWay(c) => OnItsWay(c)'
  BY DEF OnItsWay, UploadGoesOn
<1>3. Saved >= c => Saved' >= c
  BY <1>1
<1> QED
  BY <1>2, <1>3 DEF Caught, UploadGoesOn

LEMMA InTimeStays ==
  ASSUME AnswerInv, AnswerInv', InTime, Replaced', InOrder',
         Saved' >= Saved, unsaved' = unsaved, UploadGoesOn,
         UNCHANGED <<canvas, dirty, due, behind, told>>,
         \/ finish' = finish \/ finish' = "none"
         \/ finish = "waiting" /\ finish' = "woken"
         \/ finish = "flush" /\ finish' = "submit",
         Due /\ finish' = "submit" /\ ~told => Answered'
  PROVE  InTime'
<1>1. \A c \in Pictures : (Caught(c) => Caught(c)') /\ (OnItsWay(c) => OnItsWay(c)')
  BY CaughtStays
<1>2. /\ canvas \in Pictures /\ due \in Pictures /\ Saved \in Pictures /\ Saved' \in Pictures
      /\ Pictures = 0..MaxPictures /\ MaxPictures \in Nat
  BY SavedIs, SavedIsNext DEF ArePictures
<1>3. Caught(canvas) => Caught(canvas)'
  BY <1>1, <1>2 DEF Caught, OnItsWay
<1>4. (Caught(due) => Caught(due)') /\ (OnItsWay(due) => OnItsWay(due)')
  BY <1>1, <1>2 DEF Caught, OnItsWay
<1>5. Saved >= due => Saved' >= due'
  BY <1>2
<1>6. ~behind' => Due'
  <2> SUFFICES ASSUME ~behind' PROVE Due'
    OBVIOUS
  <2>1. Due
    BY DEF InTime
  <2>2. finish' \in {"asked", "waiting", "woken"} => Caught(due)'
    BY <1>4, <2>1 DEF Due
  <2>3. finish' \in {"flush", "submit"} /\ ~told' => OnItsWay(due)' /\ Saved' >= due'
    BY <1>4, <1>5, <2>1 DEF Due
  <2>4. finish' = "submit" /\ ~told' => Answered'
    BY <2>1
  <2> QED
    BY <2>2, <2>3, <2>4 DEF Due
<1> QED
  BY <1>3, <1>6 DEF InTime

\* Slots that stay keep the order of the PUTs.
LEMMA ReplacedStays ==
  ASSUME AnswerInv, AnswerInv', Replaced, SlotsStay, UNCHANGED answer,
         \A h \in Handlers : \/ put'[h].at \notin {"delete", "write"}
                             \/ /\ put'[h].at = put[h].at /\ put'[h].slot = put[h].slot
                                /\ put'[h].doomed = put[h].doomed
  PROVE  Replaced'
<1>1. /\ Len(slots) \in 0..MaxSlots /\ DOMAIN slots = 1..Len(slots)
      /\ DOMAIN slots' = 1..Len(slots') /\ Len(slots') \in Len(slots)..MaxSlots
  BY SlotsAre DEF AnswerInv, SlotsStay
<1>2. answer <= Len(slots) /\ answer \in Nat
  BY DrawingAssumption DEF AnswerInv, Named, DrawingTypeOK, SlotIds
<1>3. ASSUME NEW s \in DOMAIN slots', s < answer PROVE ~slots'[s].registered
  BY <1>1, <1>2, <1>3, DrawingAssumption DEF Replaced, SlotsStay
<1>4. ASSUME NEW h \in Handlers, NEW s \in DOMAIN slots', s < put[h].slot, Out(h)
      PROVE  s \in DOMAIN slots /\ slots'[s].registered = slots[s].registered
  <2>1. put[h].slot \in 1..Len(slots)
    BY <1>4 DEF AnswerInv, Named
  <2> QED
    BY <1>1, <1>4, <2>1, DrawingAssumption DEF SlotsStay
<1> QED
  BY <1>3, <1>4 DEF Replaced, Out

LEMMA OrderStays ==
  ASSUME AnswerInv, InOrder, UNCHANGED <<slots, answer>>, row' = row,
         \A h \in Handlers : Out(h)' => Out(h) /\ put'[h].slot = put[h].slot,
         \/ upload'.at = upload.at /\ upload'.slot = upload.slot
         \/ upload'.at \notin {"bytes", "enqueue"}
  PROVE  InOrder'
BY DEF InOrder, RowInOrder, Held

LEMMA CanvasStays ==
  ASSUME AnswerInv, AnswerInv', Canvas, UNCHANGED <<canvas, drawn, due, dirty>>,
         upload'.picture \in {0, upload.picture},
         \A s \in DOMAIN slots' : \/ s \in DOMAIN slots /\ slots'[s].picture = slots[s].picture
                                  \/ slots'[s].picture = upload.picture,
         finish' = "done" => submitted'
  PROVE  Canvas'
BY SavedIs DEF ArePictures, Canvas, Pictures

\* What spoils a hand-in is not undone.
LEMMA CleanBefore == AnswerInv /\ [DrawingNext]_drawingVars /\ Clean' => Clean
<1> SUFFICES ASSUME AnswerInv, [DrawingNext]_drawingVars, ~torn', ~outrun', ~restored', ~submitted'
             PROVE  ~torn /\ ~outrun /\ ~restored /\ ~submitted
  BY DEF Clean
<1>1. CASE Draw \/ Clear \/ FlushNow \/ SaveDrawing \/ ResultArrives \/ PressFinish
  BY <1>1 DEF Draw, Clear, FlushNow, SaveDrawing, ResultArrives, PressFinish, server, handIn
<1>2. CASE RequestUpload \/ UploadBytes \/ Enqueue \/ Report \/ GateEnds
  BY <1>2 DEF RequestUpload, UploadBytes, Enqueue, Report, GateEnds, server, handIn
<1>3. CASE WaitForIdle \/ Submit \/ FlushFails \/ Crash
  <2>1. CASE WaitForIdle \/ FlushFails
    BY <2>1 DEF WaitForIdle, FlushFails, server
  <2>2. CASE Submit
    <3>1. UNCHANGED <<torn, outrun, restored>>
      BY <2>2 DEF Submit
    <3>2. submitted => submitted'
      BY <2>2 DEF Submit
    <3> QED
      BY <3>1, <3>2
  <2>3. CASE Crash
    <3>1. UNCHANGED <<torn, outrun, submitted>>
      BY <2>3 DEF Crash
    <3>2. restored => restored'
      BY <2>3 DEF Crash
    <3> QED
      BY <3>1, <3>2
  <2> QED
    BY <1>3, <2>1, <2>2, <2>3
<1>4. ASSUME NEW h \in Handlers, NEW by \in {"upload", "finish", "other"}, StartFlush(by, h)
      PROVE  ~torn /\ ~outrun /\ ~restored /\ ~submitted
  <2>1. UNCHANGED <<torn, outrun, restored, submitted>>
    BY <1>4 DEF StartFlush
  <2> QED
    BY <2>1
<1>5. ASSUME NEW h \in Handlers, CheckSlot(h) \/ ReadSlots(h) \/ DeleteSlots(h)
      PROVE  ~torn /\ ~outrun /\ ~restored /\ ~submitted
  <2>1. restored' = restored /\ submitted' = submitted
    BY <1>5 DEF CheckSlot, ReadSlots, DeleteSlots, handIn
  <2>2. torn => torn'
    BY <1>5 DEF CheckSlot, ReadSlots, DeleteSlots, handIn
  <2>3. outrun => outrun'
    BY <1>5 DEF CheckSlot, ReadSlots, DeleteSlots, handIn
  <2> QED
    BY <2>1, <2>2, <2>3
<1>6. ASSUME NEW h \in Handlers, WriteAnswer(h) \/ PutDies(h)
      PROVE  ~torn /\ ~outrun /\ ~restored /\ ~submitted
  <2>1. outrun' = outrun /\ restored' = restored /\ submitted' = submitted
    BY <1>6 DEF WriteAnswer, PutDies
  <2>2. torn => torn'
    BY <1>6 DEF WriteAnswer, PutDies
  <2> QED
    BY <2>1, <2>2
<1>7. CASE UNCHANGED drawingVars
  BY <1>7 DEF drawingVars, server, handIn
<1> QED
  BY <1>1, <1>2, <1>3, <1>4, <1>5, <1>6, <1>7 DEF DrawingNext

\* A post has the canvas on its way.
LEMMA PostCatches ==
  ASSUME AnswerInv, AnswerInv', upload.at = "none", finish # "done", Post(canvas), canvas' = canvas
  PROVE  /\ upload'.at = "slot" /\ upload'.picture = canvas
         /\ Caught(canvas)'
         /\ \A c \in Pictures : canvas >= c => Caught(c)' /\ OnItsWay(c)'
<1>1. NoUpload \in UploadTask
  BY AtStart
<1>2. upload' = [NoUpload EXCEPT !.at = "slot", !.picture = canvas] /\ canvas \in Pictures
  BY SavedIs DEF Post, ArePictures
<1>3. upload'.at = "slot" /\ upload'.picture = canvas
  BY <1>1, <1>2 DEF UploadTask
<1>4. canvas' >= canvas /\ canvas >= canvas'
  BY SavedIs DEF ArePictures
<1>5. Caught(canvas)'
  BY <1>3, <1>4 DEF Caught, OnItsWay
<1>6. \A c \in Pictures : canvas >= c => Caught(c)' /\ OnItsWay(c)'
  BY <1>3 DEF Caught, OnItsWay
<1> QED
  BY <1>3, <1>5, <1>6

\* A post keeps the canvas' order; no post changes none.
LEMMA PageCanvas ==
  ASSUME HandInInv, AnswerInv', UNCHANGED <<canvas, drawn, server>>,
         \/ Post(canvas) /\ dirty' = FALSE
         \/ upload' = upload /\ (dirty' => dirty \/ canvas # 0),
         \/ UNCHANGED handIn
         \/ finish' = "asked" /\ due' = canvas
  PROVE  Canvas'
<1>1. Canvas /\ ArePictures
  BY SavedIs DEF HandInInv
<1>2. upload'.picture <= drawn
  <2>1. CASE upload' = upload
    BY <1>1, <2>1 DEF Canvas
  <2>2. CASE Post(canvas) /\ finish # "done"
    <3>1. NoUpload \in UploadTask /\ upload' = [NoUpload EXCEPT !.at = "slot", !.picture = canvas]
      BY <2>2, AtStart DEF Post
    <3>2. upload'.picture = canvas
      BY <3>1 DEF UploadTask
    <3> QED
      BY <1>1, <3>2 DEF Canvas
  <2>3. CASE Post(canvas) /\ finish = "done"
    BY <1>1, <2>3 DEF Post, Canvas
  <2> QED
    BY <2>1, <2>2, <2>3
<1>3. dirty' => canvas # 0
  BY <1>1 DEF Canvas
<1>4. due' <= drawn /\ (canvas = 0 \/ canvas >= due') /\ (finish' = "done" => submitted')
  BY <1>1 DEF Canvas, handIn, server, ArePictures
<1> QED
  BY <1>1, <1>2, <1>3, <1>4 DEF Canvas, server

\* The page's steps leave the server's order as it is.
LEMMA PageOrder ==
  ASSUME AnswerInv, AnswerInv', InTime, UNCHANGED <<spool, server>>,
         upload' = upload \/ upload'.at = "slot"
  PROVE  Replaced' /\ InOrder' /\ Saved' = Saved
<1>1. UNCHANGED <<row, flush, put, slots, answer, submitted>>
  BY DEF spool, server
<1>2. SlotsStay
  BY <1>1, SlotsAlone
<1>3. Replaced'
  BY <1>1, <1>2, ReplacedStays DEF InTime
<1>4. InOrder'
  BY <1>1, OrderStays DEF InTime, Out
<1>5. Saved' = Saved
  BY <1>1 DEF Saved, PictureOf
<1> QED
  BY <1>3, <1>4, <1>5

LEMMA DrawInTime ==
  ASSUME HandInInv, AnswerInv', InTime, Draw \/ Clear
  PROVE  InTime'
<1>1. UNCHANGED <<inFlight, result, host, spool, server, handIn, faults, unsaved, outrun, torn>>
  BY DEF Draw, Clear
<1>2. Replaced' /\ InOrder' /\ Saved' = Saved
  BY <1>1, PageOrder DEF HandInInv, host
<1>3. ArePictures /\ ArePictures'
  BY SavedIs, SavedIsNext DEF HandInInv
<1>4. ~dirty' => Caught(canvas)'
  <2> SUFFICES ASSUME ~dirty' PROVE Caught(canvas)'
    OBVIOUS
  <2>1. canvas' = 0
    BY DEF Draw, Clear
  <2> QED
    BY <1>3, <2>1 DEF Caught, OnItsWay, ArePictures
<1>5. ~behind' => Due'
  BY <1>1, <1>2 DEF InTime, Due, Caught, OnItsWay, Answered, Out, PictureOf, host, spool, server, handIn
<1> QED
  BY <1>2, <1>4, <1>5 DEF InTime

LEMMA DrawCanvas ==
  ASSUME HandInInv, AnswerInv', Draw \/ Clear
  PROVE  Canvas'
<1>1. /\ due' = due /\ upload' = upload /\ slots' = slots /\ finish' = finish /\ submitted' = submitted
      /\ Canvas /\ ArePictures
  BY SavedIs DEF Draw, Clear, HandInInv, host, server, handIn
<1>2. CASE Draw
  <2>1. canvas' = drawn + 1 /\ drawn' = drawn + 1
    BY <1>2 DEF Draw
  <2>2. canvas' <= drawn' /\ due' <= drawn' /\ canvas' >= due' /\ canvas' # 0 /\ upload'.picture <= drawn'
    BY <1>1, <2>1 DEF Canvas, ArePictures
  <2>3. \A s \in DOMAIN slots : slots[s].picture \in Pictures
    BY SlotsAre DEF HandInInv, AnswerInv, Slot
  <2>4. \A s \in DOMAIN slots' : slots'[s].picture <= drawn'
    BY <1>1, <2>1, <2>3 DEF Canvas, ArePictures
  <2> QED
    BY <1>1, <2>2, <2>4 DEF Canvas
<1>3. CASE Clear
  <2>1. canvas' = 0 /\ drawn' = drawn /\ dirty' = FALSE
    BY <1>3 DEF Clear
  <2> QED
    BY <1>1, <2>1 DEF Canvas, ArePictures
<1> QED
  BY <1>2, <1>3

\* A step of the page that posts the canvas, or posts nothing.
LEMMA PageInTime ==
  ASSUME HandInInv, AnswerInv', InTime, UNCHANGED <<canvas, drawn, spool, server, unsaved>>,
         \/ upload.at = "none" /\ Post(canvas) /\ canvas # 0 /\ finish # "done"
         \/ upload' = upload /\ (dirty' \/ ~dirty),
         \/ UNCHANGED handIn
         \/ /\ finish = "none" /\ finish' = "asked" /\ due' = canvas /\ UNCHANGED told
            /\ ~behind' => Post(canvas) \/ ~dirty
  PROVE  InTime'
<1> DEFINE posts == upload.at = "none" /\ Post(canvas) /\ canvas # 0 /\ finish # "done"
<1>1. posts => /\ upload'.at = "slot" /\ upload'.picture = canvas /\ Caught(canvas)'
               /\ \A c \in Pictures : canvas >= c => Caught(c)' /\ OnItsWay(c)'
  BY PostCatches DEF HandInInv
<1>2. Replaced' /\ InOrder' /\ Saved' = Saved
  BY <1>1, PageOrder DEF HandInInv
<1>3. ArePictures /\ ArePictures' /\ Canvas
  BY SavedIs, SavedIsNext DEF HandInInv
<1>4. upload' = upload => \A c \in Pictures : (Caught(c) => Caught(c)') /\ (OnItsWay(c) => OnItsWay(c)')
  BY <1>2 DEF Caught, OnItsWay
<1>5. ~dirty' => Caught(canvas)'
  BY <1>1, <1>2 DEF InTime, Caught, OnItsWay
<1>6. ASSUME ~behind', UNCHANGED handIn PROVE Due'
  <2>1. Due /\ UNCHANGED <<finish, due, behind, told>>
    BY <1>6 DEF InTime, handIn
  <2>2. Answered => Answered'
    BY <2>1 DEF Answered, Out, PictureOf, server
  <2>3. CASE posts
    <3>1. canvas >= due
      BY <1>3, <2>3 DEF Canvas
    <3>2. upload'.at = "slot" /\ upload'.picture >= due'
      BY <1>1, <2>1, <2>3, <3>1
    <3> HIDE DEF posts
    <3> QED
      BY <1>2, <2>1, <2>2, <3>2 DEF Due, Caught, OnItsWay
  <2>4. CASE upload' = upload
    BY <1>2, <2>1, <2>2, <2>4 DEF Due, Caught, OnItsWay
  <2> QED
    BY <2>3, <2>4
<1>7. ASSUME ~behind', finish = "none", finish' = "asked", due' = canvas,
             Post(canvas) \/ ~dirty
      PROVE  Due'
  <2>1. Caught(due)'
    <3>1. CASE posts
      <4>1. upload'.at = "slot" /\ upload'.picture >= due'
        BY <1>1, <1>3, <1>7, <3>1 DEF ArePictures
      <4> QED
        BY <4>1 DEF Caught, OnItsWay
    <3>2. CASE upload' = upload /\ ~dirty
      BY <1>2, <1>7, <3>2 DEF InTime, Caught, OnItsWay
    <3>3. CASE upload' = upload /\ Post(canvas)
      <4>1. upload'.at = "slot" /\ upload'.picture = canvas
        BY <1>7, <3>3, AtStart, SavedIs DEF HandInInv, Post, UploadTask, ArePictures
      <4> QED
        BY <1>3, <1>7, <4>1 DEF Caught, OnItsWay, ArePictures
    <3> QED
      BY <1>7, <3>1, <3>2, <3>3
  <2> QED
    BY <1>7, <2>1 DEF Due
<1> QED
  BY <1>2, <1>5, <1>6, <1>7 DEF InTime

LEMMA PostsInTime ==
  ASSUME HandInInv, AnswerInv', InTime, Clean, FlushNow \/ SaveDrawing \/ ResultArrives \/ PressFinish
  PROVE  InTime'
<1>1. /\ ~inFlight => upload.at = "none" /\ result = "none"
      /\ result # "none" => upload.at = "none"
      /\ dirty => canvas # 0
      /\ finish # "done"
  BY DEF HandInInv, AnswerInv, OnePost, Canvas, Clean
<1>2. CASE FlushNow
  BY <1>1, <1>2, PageInTime DEF FlushNow, MustPost
<1>3. CASE SaveDrawing
  BY <1>1, <1>3, PageInTime DEF SaveDrawing
<1>4. CASE ResultArrives
  BY <1>1, <1>4, PageInTime DEF ResultArrives
<1>5. CASE PressFinish
  <2>1. /\ UNCHANGED <<canvas, drawn, spool, server, unsaved>>
        /\ finish = "none" /\ finish' = "asked" /\ due' = canvas /\ UNCHANGED told
    BY <1>5 DEF PressFinish
  <2>2. CASE MustPost
    BY <1>1, <1>5, <2>1, <2>2, PageInTime DEF PressFinish, MustPost
  <2>3. CASE ~MustPost
    <3>1. upload' = upload /\ dirty' = dirty
      BY <1>5, <2>3 DEF PressFinish, KeepsStill
    <3>2. ~behind' => ~dirty
      BY <1>5, <2>3 DEF PressFinish, MustPost
    <3> QED
      BY <2>1, <3>1, <3>2, PageInTime
  <2> QED
    BY <2>2, <2>3
<1> QED
  BY <1>2, <1>3, <1>4, <1>5

LEMMA PostsCanvas ==
  ASSUME HandInInv, AnswerInv', FlushNow \/ SaveDrawing \/ ResultArrives \/ PressFinish
  PROVE  Canvas'
<1>1. /\ ~inFlight => upload.at = "none" /\ result = "none"
      /\ result # "none" => upload.at = "none"
      /\ dirty => canvas # 0
  BY DEF HandInInv, AnswerInv, OnePost, Canvas
<1>2. CASE FlushNow
  BY <1>1, <1>2, PageCanvas DEF FlushNow, MustPost, Post
<1>3. CASE SaveDrawing
  BY <1>1, <1>3, PageCanvas DEF SaveDrawing, Post
<1>4. CASE ResultArrives
  BY <1>1, <1>4, PageCanvas DEF ResultArrives, Post
<1>5. CASE PressFinish
  BY <1>1, <1>5, PageCanvas DEF PressFinish, MustPost, KeepsStill, Post
<1> QED
  BY <1>2, <1>3, <1>4, <1>5

\* Slots that stay, with the same row, answer and PUTs.
LEMMA SlotsInTime ==
  ASSUME AnswerInv, AnswerInv', InTime, SlotsStay, UNCHANGED <<row, put, answer, due>>
  PROVE  Replaced' /\ RowInOrder' /\ Saved' = Saved /\ (Answered => Answered')
<1>1. /\ Len(slots) \in 0..MaxSlots /\ DOMAIN slots = 1..Len(slots)
      /\ row \in 0..Len(slots) /\ answer \in 0..Len(slots)
      /\ \A h \in Handlers : Out(h) => put[h].slot \in 1..Len(slots)
  BY SlotsAre, DrawingAssumption DEF AnswerInv, DrawingTypeOK, Named, SlotIds
<1>2. Replaced'
  BY ReplacedStays DEF InTime
<1>3. row # 0 => (Held(row) => Held(row)')
  BY <1>1 DEF SlotsStay, Held
<1>4. RowInOrder'
  BY <1>3 DEF InTime, InOrder, RowInOrder, Out
<1>5. PictureOf(answer)' = PictureOf(answer) /\ PictureOf(row)' = PictureOf(row)
  BY <1>1 DEF SlotsStay, PictureOf
<1>6. \A h \in Handlers : Out(h) => slots'[put[h].slot].picture = slots[put[h].slot].picture
  BY <1>1 DEF SlotsStay
<1>7. Saved' = Saved
  BY <1>5 DEF Saved
<1>8. Answered => Answered'
  BY <1>1, <1>5, <1>6 DEF Answered, PictureOf, Out
<1> QED
  BY <1>2, <1>4, <1>7, <1>8

\* An upload that fails: what it had is not to be relied on.
LEMMA FailsInTime ==
  ASSUME AnswerInv, AnswerInv', InTime, SlotsStay, upload.at # "none", UploadFails,
         UNCHANGED <<page, row, put, answer, handIn>>
  PROVE  InTime'
<1>1. upload'.at = "report" /\ ~upload'.ok /\ unsaved'
  BY Failed
<1>2. Caught(canvas)' /\ Caught(due)' /\ OnItsWay(due)'
  BY <1>1 DEF Caught, OnItsWay
<1>3. Replaced' /\ RowInOrder' /\ Saved' = Saved /\ (Answered => Answered')
  BY SlotsInTime DEF handIn
<1>4. InOrder'
  BY <1>1, <1>3 DEF InOrder
<1>5. ~behind' => Due'
  BY <1>2, <1>3 DEF InTime, Due, handIn
<1> QED
  BY <1>2, <1>3, <1>4, <1>5 DEF InTime

\* An upload that goes on before its response is enqueued.
LEMMA GoesInTime ==
  ASSUME AnswerInv, AnswerInv', InTime, SlotsStay,
         upload.at \in {"slot", "bytes"}, upload'.at \in {"bytes", "enqueue"},
         upload'.picture = upload.picture, unsaved' = unsaved,
         slots'[upload'.slot].registered, upload'.at = "enqueue" => slots'[upload'.slot].stored,
         row < upload'.slot, answer < upload'.slot,
         \A h \in Handlers : Out(h) => put[h].slot < upload'.slot,
         UNCHANGED <<page, row, put, answer, handIn>>
  PROVE  InTime'
<1>1. \A c \in Pictures : (Caught(c) => Caught(c)') /\ (OnItsWay(c) => OnItsWay(c)')
  BY DEF Caught, OnItsWay
<1>2. Replaced' /\ RowInOrder' /\ Saved' = Saved /\ (Answered => Answered')
  BY SlotsInTime DEF handIn
<1>3. InOrder'
  BY <1>2 DEF InOrder, Held, Out
<1>4. ~dirty' => Caught(canvas)'
  BY SavedIs DEF InTime, Caught, OnItsWay, page, ArePictures
<1>5. ~behind' => Due'
  BY <1>2 DEF InTime, Due, Caught, OnItsWay, handIn
<1> QED
  BY <1>2, <1>3, <1>4, <1>5 DEF InTime

LEMMA RequestInTime ==
  ASSUME HandInInv, AnswerInv', InTime, Clean, RequestUpload
  PROVE  InTime'
<1>1. /\ UNCHANGED <<page, row, put, answer, handIn>> /\ upload.at = "slot" /\ ~submitted
      /\ AnswerInv /\ upload \in UploadTask
  BY DEF RequestUpload, spool, Clean, HandInInv, AnswerInv, DrawingTypeOK
<1>2. CASE Register /\ upload' = [upload EXCEPT !.at = "bytes", !.slot = Len(slots) + 1] /\ unsaved' = unsaved
  <2>1. upload'.at = "bytes" /\ upload'.slot = Len(slots) + 1 /\ upload'.picture = upload.picture
    BY <1>1, <1>2 DEF UploadTask
  <2>2. SlotsStay /\ slots'[Len(slots) + 1].registered
    BY <1>1, <1>2, SlotRegistered DEF AnswerInv
  <2>3. /\ row < Len(slots) + 1 /\ answer < Len(slots) + 1
        /\ \A h \in Handlers : Out(h) => put[h].slot < Len(slots) + 1
    BY <1>1, SlotsAre, DrawingAssumption DEF AnswerInv, DrawingTypeOK, Named, SlotIds
  <2> QED
    BY <1>1, <1>2, <2>1, <2>2, <2>3, GoesInTime
<1>3. CASE UploadFails
  <2>1. SlotsStay
    BY <1>1, SlotRegistered, SlotsUnchanged DEF RequestUpload, AnswerInv
  <2> QED
    BY <1>1, <1>3, <2>1, FailsInTime
<1> QED
  BY <1>1, <1>2, <1>3 DEF RequestUpload

LEMMA BytesInTime ==
  ASSUME HandInInv, AnswerInv', InTime, UploadBytes
  PROVE  InTime'
<1>1. /\ UNCHANGED <<page, row, put, answer, handIn>> /\ upload.at = "bytes"
      /\ AnswerInv /\ upload \in UploadTask /\ upload.slot \in DOMAIN slots
  BY SlotsAre DEF UploadBytes, spool, HandInInv, AnswerInv, DrawingTypeOK, Named, UploadTask, SlotIds
<1>2. CASE /\ slots' = [slots EXCEPT ![upload.slot].stored = TRUE]
           /\ upload' = [upload EXCEPT !.at = "enqueue"] /\ unsaved' = unsaved
  <2>1. upload'.at = "enqueue" /\ upload'.slot = upload.slot /\ upload'.picture = upload.picture
    BY <1>1, <1>2 DEF UploadTask
  <2>2. SlotsStay /\ slots'[upload.slot].stored
    BY <1>1, <1>2, SlotStored DEF AnswerInv
  <2>3. slots'[upload.slot].registered
    BY <1>1, <2>2 DEF InTime, InOrder, SlotsStay
  <2> QED
    BY <1>1, <1>2, <2>1, <2>2, <2>3, GoesInTime DEF InTime, InOrder
<1>3. CASE UploadFails
  <2>1. SlotsStay
    BY <1>1, SlotStored, SlotsUnchanged DEF UploadBytes, AnswerInv
  <2> QED
    BY <1>1, <1>3, <2>1, FailsInTime
<1> QED
  BY <1>2, <1>3 DEF UploadBytes

LEMMA EnqueueInTime ==
  ASSUME HandInInv, AnswerInv', InTime, Enqueue
  PROVE  InTime'
<1>1. /\ UNCHANGED <<page, put, slots, answer, handIn, unsaved>> /\ upload.at = "enqueue"
      /\ row' = upload.slot /\ AnswerInv /\ upload \in UploadTask
      /\ upload.slot \in DOMAIN slots /\ upload.slot \in 1..Len(slots)
      /\ slots[upload.slot].picture = upload.picture
  BY SlotsAre DEF Enqueue, server, HandInInv, AnswerInv, DrawingTypeOK, Named, UploadTask, SlotIds
<1>2. upload'.at = "flush" /\ upload'.picture = upload.picture /\ upload'.slot = upload.slot
  BY <1>1 DEF Enqueue, UploadTask
<1>3. Saved' = upload.picture
  BY <1>1 DEF Saved, PictureOf
<1>4. OnItsWay(canvas) => Caught(canvas)'
  BY <1>1, <1>2, <1>3, SavedIs DEF Caught, OnItsWay, page, ArePictures
<1>5. OnItsWay(due) => Caught(due)' /\ OnItsWay(due)' /\ Saved' >= due'
  BY <1>1, <1>2, <1>3, SavedIs DEF Caught, OnItsWay, handIn, ArePictures
<1>6. Replaced'
  BY <1>1, SlotsAlone, ReplacedStays DEF InTime
<1>7. InOrder'
  <2>1. Held(row)' /\ row' # 0
    BY <1>1 DEF InTime, InOrder, Held
  <2>2. answer < upload.slot /\ \A h \in Handlers : Out(h) => put[h].slot < upload.slot
    BY <1>1 DEF InTime, InOrder
  <2>3. /\ answer \in Int /\ upload.slot \in Int
        /\ \A h \in Handlers : Out(h) => put[h].slot \in Int
    BY <1>1, DrawingAssumption DEF AnswerInv, DrawingTypeOK, Named, SlotIds
  <2>4. answer' <= row' /\ \A h \in Handlers : Out(h)' => put'[h].slot <= row'
    BY <1>1, <2>2, <2>3 DEF Out
  <2> QED
    BY <1>2, <2>1, <2>4 DEF InOrder, RowInOrder
<1>8. Answered => Answered'
  BY <1>1 DEF Answered, Out, PictureOf, handIn
<1>9. ~behind' => Due'
  BY <1>1, <1>5, <1>8 DEF InTime, Due, Caught, handIn
<1>10. ~dirty' => Caught(canvas)'
  BY <1>1, <1>4 DEF InTime, Caught, page
<1> QED
  BY <1>6, <1>7, <1>9, <1>10 DEF InTime

LEMMA ReportInTime ==
  ASSUME HandInInv, AnswerInv', InTime, Report
  PROVE  InTime'
<1>1. /\ UNCHANGED <<canvas, dirty, row, flush, put, slots, answer, finish, due, behind, told>>
      /\ upload.at = "report" /\ upload'.at = "none" /\ unsaved' = (unsaved /\ ~upload.ok)
      /\ AnswerInv
  BY AtStart DEF Report, spool, server, handIn, HandInInv
<1>2. SlotsStay
  BY <1>1, SlotsAlone
<1>3. Replaced' /\ RowInOrder' /\ Saved' = Saved /\ (Answered => Answered')
  BY <1>1, <1>2, SlotsInTime
<1>4. InOrder'
  BY <1>1, <1>3 DEF InOrder
<1>5. Caught(canvas) => Caught(canvas)'
  BY <1>1, <1>3 DEF Caught, OnItsWay
<1>6. (Caught(due) => Caught(due)') /\ OnItsWay(due)'
  BY <1>1, <1>3 DEF Caught, OnItsWay
<1>7. ~behind' => Due'
  BY <1>1, <1>3, <1>6 DEF InTime, Due
<1> QED
  BY <1>1, <1>3, <1>4, <1>5, <1>7 DEF InTime

LEMMA GateInTime ==
  ASSUME HandInInv, AnswerInv', InTime, GateEnds
  PROVE  InTime'
<1>1. /\ UNCHANGED <<canvas, dirty, row, flush, put, slots, answer, upload, due, behind, told, unsaved>>
      /\ finish' = finish \/ (finish = "waiting" /\ finish' = "woken")
      /\ AnswerInv
  BY DEF GateEnds, page, spool, server, HandInInv
<1>2. SlotsStay
  BY <1>1, SlotsAlone
<1>3. Replaced' /\ RowInOrder' /\ Saved' = Saved /\ (Answered => Answered')
  BY <1>1, <1>2, SlotsInTime
<1>4. InOrder'
  BY <1>1, <1>3 DEF InTime, InOrder, Held, Out
<1>5. Due /\ finish' = "submit" /\ ~told => Answered'
  BY <1>1, <1>3 DEF Due
<1> QED
  BY <1>1, <1>3, <1>4, <1>5, SavedIs, InTimeStays DEF UploadGoesOn, ArePictures

\* The hand-in goes on to its flush when no post is with the host.
LEMMA WaitInTime ==
  ASSUME HandInInv, AnswerInv', InTime, WaitForIdle
  PROVE  InTime'
<1>1. /\ UNCHANGED <<page, row, flush, put, slots, answer, upload, gate, ending, due, behind, unsaved>>
      /\ finish \in {"asked", "waiting", "woken"} /\ AnswerInv
  BY DEF WaitForIdle, host, spool, server, HandInInv
<1>2. Replaced' /\ RowInOrder' /\ Saved' = Saved
  BY <1>1, SlotsAlone, SlotsInTime
<1>3. InOrder'
  BY <1>1, <1>2 DEF InTime, InOrder, Held, Out
<1>4. Caught(canvas) => Caught(canvas)'
  BY <1>1, <1>2 DEF Caught, OnItsWay, page
<1>5. Caught(due) => Caught(due)'
  BY <1>1, <1>2 DEF Caught, OnItsWay
<1>6. ~behind' => Due'
  <2> SUFFICES ASSUME ~behind' PROVE Due'
    OBVIOUS
  <2>1. Caught(due) /\ Caught(due)'
    BY <1>1, <1>5 DEF InTime, Due
  <2>2. CASE finish' = "flush"
    <3>1. gate = 0 /\ told' = unsaved
      BY <2>2 DEF WaitForIdle
    <3>2. upload.at = "none"
      BY <1>1, <3>1 DEF AnswerInv, OnePost, DrawingTypeOK
    <3>3. ~told' => Saved >= due
      BY <2>1, <3>1, <3>2 DEF Caught
    <3> QED
      BY <1>1, <1>2, <2>2, <3>2, <3>3 DEF Due, OnItsWay
  <2>3. CASE finish' # "flush"
    <3>1. finish' \notin {"flush", "submit"}
      BY <2>3 DEF WaitForIdle
    <3> QED
      BY <2>1, <3>1 DEF Due
  <2> QED
    BY <2>2, <2>3
<1> QED
  BY <1>1, <1>2, <1>3, <1>4, <1>6 DEF InTime, page

LEMMA SubmitInTime ==
  ASSUME HandInInv, AnswerInv', InTime, Clean', Submit
  PROVE  InTime'
<1>1. /\ UNCHANGED <<page, host, flush, put, slots, answer, due, behind, told, unsaved>>
      /\ row' = row /\ finish' = "none" /\ AnswerInv
  BY DEF Submit, Clean, HandInInv
<1>2. UNCHANGED <<upload, canvas, dirty>>
  BY <1>1 DEF host, page
<1>3. Replaced' /\ RowInOrder' /\ Saved' = Saved
  BY <1>1, SlotsAlone, SlotsInTime
<1>4. InOrder'
  BY <1>1, <1>2, <1>3 DEF InTime, InOrder, Held, Out
<1> QED
  BY <1>1, <1>2, <1>3, <1>4, SavedIs, InTimeStays DEF UploadGoesOn, ArePictures

\* The test is opened again: nothing is under way, and what is shown is saved
\* or waits in the spool.
LEMMA CrashInTime ==
  ASSUME HandInInv, AnswerInv', InTime, Clean', Crash
  PROVE  InTime'
<1>1. /\ UNCHANGED <<row, slots, answer>> /\ finish' = "none" /\ upload'.at = "none" /\ AnswerInv
      /\ put' = [h \in Handlers |-> [put[h] EXCEPT !.heard = FALSE]]
  BY AtStart DEF Crash, HandInInv
<1>2. \A h \in Handlers : /\ put'[h].at = put[h].at /\ put'[h].slot = put[h].slot
                          /\ put'[h].doomed = put[h].doomed
  BY <1>1, Unheard
<1>3. Replaced'
  BY <1>1, <1>2, SlotsAlone, ReplacedStays DEF InTime
<1>4. InOrder'
  BY <1>1, <1>2, OrderStays DEF InTime, Out
<1>5. Saved' = Saved /\ ArePictures /\ ArePictures'
  BY <1>1, SavedIs, SavedIsNext DEF Saved, PictureOf
<1>6. canvas' = 0 \/ (canvas' = PictureOf(answer))
  BY DEF Crash
<1>7. row # 0 => ~(PictureOf(row) < canvas')
  <2>1. ~restored' /\ restored' = (restored \/ (row # 0 /\ PictureOf(row) < canvas'))
    BY DEF Clean, Crash
  <2> QED
    BY <2>1
<1>8. Saved' >= canvas'
  BY <1>5, <1>6, <1>7 DEF Saved, ArePictures
<1>9. Caught(canvas)'
  BY <1>1, <1>8 DEF Caught, OnItsWay
<1>10. Due'
  BY <1>1 DEF Due
<1> QED
  BY <1>3, <1>4, <1>9, <1>10 DEF InTime

-----------------------------------------------------------------------------
(* the spool and the server are in time *)

\* A PUT goes on or is over, and the flush it was of leaves the row.
LEMMA QuietInTime ==
  ASSUME AnswerInv, AnswerInv', InTime, Replaced', UploadGoesOn, finish' \in {finish, "none"},
         \A h \in Handlers : Out(h)' => Out(h) /\ put'[h].slot = put[h].slot,
         UNCHANGED <<row, slots, answer, canvas, dirty, due, behind, told, unsaved>>
  PROVE  InTime'
<1>1. InOrder'
  BY OrderStays DEF InTime, UploadGoesOn
<1>2. Saved' = Saved
  BY DEF Saved, PictureOf
<1>3. Due /\ finish' = "submit" /\ ~told => Answered'
  BY DEF Due, Answered, PictureOf
<1> QED
  BY <1>1, <1>2, <1>3, SavedIs, InTimeStays DEF ArePictures

LEMMA FlushQuiet ==
  ASSUME AnswerInv, ~submitted, flush.by # "none", Flushed(flush.by, row)
  PROVE  UploadGoesOn /\ finish' \in {finish, "none"} /\ row' = row
<1>1. /\ row # 0 /\ row \in SlotIds /\ flush.by \in {"none", "upload", "finish", "other"}
      /\ flush.by = "upload" => upload.at = "flush"
      /\ flush.by = "finish" => finish = "flush"
  BY DEF AnswerInv, Listening, DrawingTypeOK, Flushing
<1> QED
  BY <1>1, FlushOver DEF UploadGoesOn

LEMMA FlushFailsInTime ==
  ASSUME HandInInv, AnswerInv', InTime, Clean, FlushFails
  PROVE  InTime'
<1>1. /\ UNCHANGED <<page, slots, answer, submitted, due, behind, told, unsaved>>
      /\ flush.by # "none" /\ Flushed(flush.by, row) /\ AnswerInv
      /\ put' = [h \in Handlers |-> [put[h] EXCEPT !.heard = FALSE]]
  BY DEF FlushFails, HandInInv
<1>2. \A h \in Handlers : /\ put'[h].at = put[h].at /\ put'[h].slot = put[h].slot
                          /\ put'[h].doomed = put[h].doomed
  BY <1>1, Unheard
<1>3. Replaced'
  BY <1>1, <1>2, SlotsAlone, ReplacedStays DEF InTime
<1>4. UploadGoesOn /\ finish' \in {finish, "none"} /\ row' = row
  BY <1>1, FlushQuiet DEF Clean
<1> QED
  BY <1>1, <1>2, <1>3, <1>4, QuietInTime DEF page, Out

\* A PUT that ends without an answer written.
LEMMA EndInTime ==
  ASSUME HandInInv, AnswerInv', InTime, NEW h \in Handlers, put' = [put EXCEPT ![h] = NoPut],
         UploadGoesOn, finish' \in {finish, "none"},
         UNCHANGED <<page, row, slots, answer, due, behind, told, unsaved>>
  PROVE  InTime'
<1>1. /\ put'[h].at = "none"
      /\ \A o \in Handlers \ {h} : put'[o] = put[o]
  BY AtStart DEF HandInInv, AnswerInv, DrawingTypeOK
<1>2. Replaced'
  BY <1>1, SlotsAlone, ReplacedStays DEF InTime, HandInInv
<1>3. \A o \in Handlers : Out(o)' => Out(o) /\ put'[o].slot = put[o].slot
  BY <1>1 DEF Out
<1> QED
  BY <1>2, <1>3, QuietInTime DEF page, HandInInv

LEMMA DiesInTime ==
  ASSUME HandInInv, AnswerInv', InTime, Clean, NEW h \in Handlers, PutDies(h)
  PROVE  InTime'
<1>1. /\ UNCHANGED <<page, slots, answer, due, behind, told, unsaved>> /\ AnswerInv
      /\ put' = [put EXCEPT ![h] = NoPut]
  BY DEF PutDies, HandInInv
<1>2. CASE put[h].heard
  <2>1. flush.by # "none" /\ Flushed(flush.by, row)
    BY <1>1, <1>2 DEF PutDies, AnswerInv, Listening
  <2> QED
    BY <1>1, <2>1, FlushQuiet, EndInTime DEF Clean
<1>3. CASE ~put[h].heard
  <2>1. UNCHANGED <<row, upload, finish>>
    BY <1>3 DEF PutDies
  <2> QED
    BY <1>1, <2>1, EndInTime DEF UploadGoesOn
<1> QED
  BY <1>2, <1>3

\* A PUT is refused only for a slot that the row no longer names.
LEMMA CheckInTime ==
  ASSUME HandInInv, AnswerInv', InTime, Clean, NEW h \in Handlers, CheckSlot(h)
  PROVE  InTime'
<1>1. /\ UNCHANGED <<page, slots, answer, due, behind, told, unsaved>> /\ AnswerInv
      /\ put[h].at = "check" /\ ~submitted
  BY DEF CheckSlot, HandInInv, Clean
<1>2. CASE ~MayBeNamed(put[h].slot)
  <2>1. Answers(h)
    BY <1>2 DEF CheckSlot
  <2>2. CASE put[h].heard
    <3>1. /\ flush.by # "none" /\ Flushed(flush.by, AfterRemoval) /\ put[h].slot = flush.slot /\ row # 0
      BY <1>1, <2>1, <2>2 DEF Answers, AnswerInv, Listening
    <3>2. AfterRemoval = row
      BY <1>2, <3>1 DEF AfterRemoval, InTime, InOrder, RowInOrder, Held, MayBeNamed
    <3>3. Flushed(flush.by, row)
      BY <3>1, <3>2 DEF Flushed
    <3> QED
      BY <1>1, <2>1, <3>1, <3>3, FlushQuiet, EndInTime DEF Answers
  <2>3. CASE ~put[h].heard
    <3>1. UNCHANGED <<row, upload, finish>>
      BY <2>1, <2>3 DEF Answers
    <3> QED
      BY <1>1, <2>1, <3>1, EndInTime DEF UploadGoesOn, Answers
  <2> QED
    BY <2>2, <2>3
<1>3. CASE MayBeNamed(put[h].slot)
  <2> DEFINE x == [put[h] EXCEPT !.at = "prune"]
  <2>1. put' = [put EXCEPT ![h] = x] /\ UNCHANGED <<row, flush, upload, finish>>
    BY <1>1, <1>3 DEF CheckSlot
  <2>2. x.at = "prune" /\ x.slot = put[h].slot
    BY <1>1 DEF AnswerInv, DrawingTypeOK, PutRequest
  <2> HIDE DEF x
  <2>3. put'[h] = x /\ \A o \in Handlers \ {h} : put'[o] = put[o]
    BY <1>1, <2>1 DEF AnswerInv, DrawingTypeOK
  <2>4. Replaced'
    BY <1>1, <2>2, <2>3, SlotsAlone, ReplacedStays DEF InTime
  <2>5. \A o \in Handlers : Out(o)' => Out(o) /\ put'[o].slot = put[o].slot
    BY <1>1, <2>2, <2>3 DEF Out
  <2> QED
    BY <1>1, <2>1, <2>4, <2>5, QuietInTime DEF page, UploadGoesOn
<1> QED
  BY <1>2, <1>3

LEMMA ReadInTime ==
  ASSUME HandInInv, AnswerInv', InTime, NEW h \in Handlers, ReadSlots(h)
  PROVE  InTime'
<1>1. /\ UNCHANGED <<page, row, flush, upload, finish, slots, answer, due, behind, told, unsaved>>
      /\ AnswerInv /\ put[h].at = "prune"
  BY DEF ReadSlots, host, spool, handIn, HandInInv
<1> DEFINE x == [put[h] EXCEPT !.at = "delete", !.doomed = Superseded(put[h].slot)]
<1>2. put' = [put EXCEPT ![h] = x]
  BY <1>1 DEF ReadSlots, AnswerInv, DrawingTypeOK
<1>3. x.at = "delete" /\ x.slot = put[h].slot /\ x.doomed = Superseded(put[h].slot)
  BY <1>1 DEF AnswerInv, DrawingTypeOK, PutRequest
<1> HIDE DEF x
<1>4. put'[h] = x /\ \A o \in Handlers \ {h} : put'[o] = put[o]
  BY <1>1, <1>2 DEF AnswerInv, DrawingTypeOK
<1>5. Replaced'
  <2>1. \A s \in DOMAIN slots : s < put[h].slot /\ slots[s].registered => s \in Superseded(put[h].slot)
    BY <1>1, SlotsAre DEF Superseded, AnswerInv, Named, Out
  <2> QED
    BY <1>1, <1>3, <1>4, <2>1 DEF InTime, Replaced
<1>6. \A o \in Handlers : Out(o)' => Out(o) /\ put'[o].slot = put[o].slot
  BY <1>1, <1>3, <1>4 DEF Out
<1> QED
  BY <1>1, <1>5, <1>6, QuietInTime DEF page, UploadGoesOn

\* What a PUT deletes is older than its own slot, or the hand-in is excused.
LEMMA DeleteInTime ==
  ASSUME HandInInv, AnswerInv', InTime, Clean, Clean', NEW h \in Handlers, DeleteSlots(h)
  PROVE  InTime'
<1>1. /\ UNCHANGED <<page, row, flush, upload, finish, answer, due, behind, told, unsaved>>
      /\ AnswerInv /\ put[h].at = "delete" /\ ~torn
  BY DEF DeleteSlots, host, spool, handIn, HandInInv, Clean
<1>2. /\ SlotsRemain
      /\ \A s \in DOMAIN slots : s \in put[h].doomed => ~slots'[s].registered
      /\ \A s \in DOMAIN slots : s \notin put[h].doomed => slots'[s] = slots[s]
      /\ \A s \in DOMAIN slots : slots'[s].registered => slots[s].registered
  BY <1>1, Deleted
<1>3. /\ Len(slots) \in 0..MaxSlots /\ DOMAIN slots = 1..Len(slots) /\ DOMAIN slots' = DOMAIN slots
      /\ row \in 0..Len(slots) /\ answer \in 0..Len(slots) /\ upload.slot \in 0..Len(slots)
      /\ put[h].slot \in 1..Len(slots) /\ put[h].doomed \subseteq 1..Len(slots)
  BY <1>1, <1>2, SlotsAre, DrawingAssumption
     DEF AnswerInv, DrawingTypeOK, Named, SlotIds, UploadTask, Out, SlotsRemain
<1>4. \A s \in put[h].doomed : s <= put[h].slot /\ s # put[h].slot
  <2>1. ~\E s \in put[h].doomed : s > put[h].slot
    BY DEF DeleteSlots, Clean
  <2>2. put[h].slot \notin put[h].doomed
    BY <1>1 DEF AnswerInv, Named
  <2> QED
    BY <1>3, <2>1, <2>2
<1>5. \A s \in 1..Len(slots) : s >= put[h].slot => slots'[s] = slots[s]
  BY <1>2, <1>3, <1>4
<1> DEFINE x == [put[h] EXCEPT !.at = "write"]
<1>6. put' = [put EXCEPT ![h] = x]
  BY DEF DeleteSlots
<1>7. x.at = "write" /\ x.slot = put[h].slot
  BY <1>1 DEF AnswerInv, DrawingTypeOK, PutRequest
<1> HIDE DEF x
<1>8. put'[h] = x /\ \A o \in Handlers \ {h} : put'[o] = put[o]
  BY <1>1, <1>6 DEF AnswerInv, DrawingTypeOK
<1>9. \A o \in Handlers \ {h} : put[o].at \notin {"delete", "write"}
  BY <1>1 DEF AnswerInv, Whole, Deletes
<1>10. Replaced'
  <2>1. \A s \in DOMAIN slots : s < answer => ~slots'[s].registered
    BY <1>2 DEF InTime, Replaced
  <2>2. \A s \in DOMAIN slots : s < put[h].slot => ~slots'[s].registered
    BY <1>1, <1>2 DEF InTime, Replaced
  <2> QED
    BY <1>1, <1>3, <1>7, <1>8, <1>9, <2>1, <2>2 DEF Replaced
<1>11. InOrder'
  <2>1. \A o \in Handlers : Out(o)' => Out(o) /\ put'[o].slot = put[o].slot
    BY <1>1, <1>7, <1>8 DEF Out
  <2>2. row # 0 => put[h].slot <= row
    BY <1>1 DEF InTime, InOrder, RowInOrder, Out
  <2>3. row # 0 => slots'[row] = slots[row]
    BY <1>3, <1>5, <2>2
  <2>4. upload.at \in {"bytes", "enqueue"} => slots'[upload.slot] = slots[upload.slot]
    <3>1. upload.at \in {"bytes", "enqueue"} => put[h].slot < upload.slot
      BY <1>1 DEF InTime, InOrder, Out
    <3> QED
      BY <1>3, <1>5, <3>1
  <2>5. RowInOrder'
    BY <1>1, <2>1, <2>3 DEF InTime, InOrder, RowInOrder, Held
  <2> QED
    BY <1>1, <2>1, <2>4, <2>5 DEF InTime, InOrder, Held
<1>12. /\ PictureOf(answer)' = PictureOf(answer) /\ PictureOf(row)' = PictureOf(row)
       /\ \A o \in Handlers : Out(o) => slots'[put[o].slot].picture = slots[put[o].slot].picture
  BY <1>1, <1>2, <1>3 DEF PictureOf, SlotsRemain, AnswerInv, Named, Out
<1>13. Saved' = Saved
  BY <1>1, <1>12 DEF Saved
<1>14. Answered => Answered'
  <2>1. \A o \in Handlers : Out(o)' => Out(o) /\ put'[o].slot = put[o].slot
    BY <1>1, <1>7, <1>8 DEF Out
  <2> QED
    BY <1>1, <1>12, <2>1 DEF Answered, PictureOf
<1>15. Due /\ finish' = "submit" /\ ~told => Answered'
  BY <1>1, <1>14 DEF Due
<1> QED
  BY <1>1, <1>10, <1>11, <1>13, <1>15, SavedIs, InTimeStays DEF UploadGoesOn, page, ArePictures

\* The answer is written: no older than the one before.
LEMMA WriteInTime ==
  ASSUME HandInInv, AnswerInv', InTime, Clean, NEW h \in Handlers, WriteAnswer(h)
  PROVE  InTime'
<1>1. /\ UNCHANGED <<page, slots, due, behind, told, unsaved>>
      /\ AnswerInv /\ put[h].at = "write" /\ ~torn /\ ~submitted
      /\ answer' = put[h].slot /\ Answers(h) /\ put' = [put EXCEPT ![h] = NoPut]
  BY DEF WriteAnswer, Answers, HandInInv, Clean
<1>2. put'[h].at = "none" /\ \A o \in Handlers \ {h} : put'[o] = put[o]
  BY <1>1, AtStart DEF AnswerInv, DrawingTypeOK
<1>3. /\ Len(slots) \in 0..MaxSlots /\ DOMAIN slots = 1..Len(slots)
      /\ row \in 0..Len(slots) /\ answer \in 0..Len(slots) /\ put[h].slot \in 1..Len(slots)
  BY <1>1, SlotsAre, DrawingAssumption DEF AnswerInv, DrawingTypeOK, Named, SlotIds, Out
<1>4. \A o \in Handlers : Out(o)' => Out(o) /\ o # h /\ put'[o] = put[o] /\ put[o].slot \in 1..Len(slots)
  BY <1>1, <1>2 DEF Out, AnswerInv, Named
<1>5. answer <= put[h].slot
  <2>1. slots[put[h].slot].registered
    BY <1>1 DEF AnswerInv, Whole, Deletes, Held
  <2> QED
    BY <1>3, <2>1 DEF InTime, Replaced
<1>6. \A o \in Handlers \ {h} : put[o].at \notin {"delete", "write"}
  BY <1>1 DEF AnswerInv, Whole, Deletes
<1>7. Replaced'
  <2>1. \A s \in DOMAIN slots : s < put[h].slot => ~slots[s].registered
    BY <1>1 DEF InTime, Replaced
  <2> QED
    BY <1>1, <1>2, <1>6, <2>1 DEF Replaced
<1>8. row # 0 => put[h].slot <= row
  BY <1>1 DEF InTime, InOrder, RowInOrder, Out
<1>9. row = 0 => put[h].slot = answer
  <2>1. row = 0 => put[h].slot <= answer
    BY <1>1 DEF InTime, InOrder, RowInOrder, Out
  <2> QED
    BY <1>3, <1>5, <2>1
<1>10. /\ UploadGoesOn
       /\ row' = row \/ (row # 0 /\ row' = 0 /\ row = put[h].slot)
       /\ \/ finish' = finish \/ finish' = "none"
          \/ finish = "flush" /\ finish' = "submit" /\ row = put[h].slot
  <2>1. CASE put[h].heard
    <3>1. /\ flush.by # "none" /\ Flushed(flush.by, AfterRemoval) /\ put[h].slot = flush.slot /\ row # 0
          /\ flush.by \in {"none", "upload", "finish", "other"}
          /\ flush.by = "upload" => upload.at = "flush"
          /\ flush.by = "finish" => finish = "flush"
      BY <1>1, <2>1 DEF Answers, AnswerInv, Listening, DrawingTypeOK, Flushing
    <3>2. AfterRemoval \in SlotIds /\ (AfterRemoval = row \/ (AfterRemoval = 0 /\ row = put[h].slot))
      BY <1>1, <3>1, AtStart DEF AfterRemoval, AnswerInv, DrawingTypeOK
    <3> QED
      BY <1>1, <3>1, <3>2, FlushOver DEF UploadGoesOn
  <2>2. CASE ~put[h].heard
    BY <1>1, <2>2 DEF Answers, UploadGoesOn
  <2> QED
    BY <2>1, <2>2
<1>11. Saved' = Saved
  BY <1>1, <1>3, <1>9, <1>10 DEF Saved, PictureOf
<1>12. InOrder'
  <2>1. RowInOrder'
    <3>1. CASE row' = row /\ row # 0
      BY <1>1, <1>4, <1>8, <3>1 DEF InTime, InOrder, RowInOrder, Held
    <3>2. CASE row' = row /\ row = 0
      BY <1>1, <1>4, <1>9, <3>2 DEF InTime, InOrder, RowInOrder
    <3>3. CASE row # 0 /\ row' = 0 /\ row = put[h].slot
      BY <1>1, <1>4, <3>3 DEF InTime, InOrder, RowInOrder
    <3> QED
      BY <1>10, <3>1, <3>2, <3>3
  <2>2. upload'.at \in {"bytes", "enqueue"} => upload'.at = upload.at /\ upload'.slot = upload.slot
    BY <1>10 DEF UploadGoesOn
  <2>3. ASSUME upload.at \in {"bytes", "enqueue"}
        PROVE  /\ row' < upload.slot /\ answer' < upload.slot
               /\ \A o \in Handlers : Out(o)' => put'[o].slot < upload.slot
    <3>1. /\ row < upload.slot /\ put[h].slot < upload.slot
          /\ \A o \in Handlers : Out(o) => put[o].slot < upload.slot
      BY <1>1, <2>3 DEF InTime, InOrder, Out
    <3>2. upload.slot \in 1..Len(slots)
      BY <1>1, <1>3, <2>3, DrawingAssumption DEF AnswerInv, Named, DrawingTypeOK, UploadTask, SlotIds
    <3> QED
      BY <1>1, <1>3, <1>4, <1>10, <3>1, <3>2
  <2> QED
    BY <1>1, <2>1, <2>2, <2>3 DEF InTime, InOrder, Held
<1>13. ASSUME Due, finish' = "submit", ~told PROVE Answered'
  <2>1. due \in 0..MaxPictures /\ MaxPictures \in Nat /\ \A s \in 1..Len(slots) : slots[s].picture \in 0..MaxPictures
    BY <1>1, <1>3, SavedIs, SlotsAre DEF AnswerInv, ArePictures, Slot
  <2>2. CASE finish = "submit"
    <3>1. Answered
      BY <1>13, <2>2 DEF Due
    <3>2. slots[put[h].slot].picture >= due
      BY <1>1, <1>3, <1>5, <3>1 DEF Answered, PictureOf, Out
    <3>3. \A o \in Handlers : Out(o)' /\ put'[o].slot > answer' => put[o].slot > answer /\ Out(o)
      BY <1>1, <1>3, <1>4, <1>5
    <3> QED
      BY <1>1, <1>3, <1>4, <3>1, <3>2, <3>3 DEF Answered, PictureOf
  <2>3. CASE finish = "flush" /\ row = put[h].slot
    <3>1. slots[put[h].slot].picture >= due
      BY <1>3, <1>13, <2>3 DEF Due, Saved, PictureOf
    <3>2. \A o \in Handlers : Out(o)' => put'[o].slot <= answer'
      BY <1>1, <1>3, <1>4, <2>3 DEF InTime, InOrder, RowInOrder
    <3> QED
      BY <1>1, <1>3, <1>4, <3>1, <3>2 DEF Answered, PictureOf
  <2> QED
    BY <1>10, <1>13, <2>2, <2>3
<1> QED
  BY <1>1, <1>7, <1>10, <1>11, <1>12, <1>13, SavedIs, InTimeStays DEF page, ArePictures

\* A flush of nothing is over at once; a PUT that goes has the row's picture.
LEMMA StartInTime ==
  ASSUME HandInInv, AnswerInv', InTime, Clean,
         NEW by \in {"upload", "finish", "other"}, NEW h \in Handlers, StartFlush(by, h)
  PROVE  InTime'
<1>1. /\ UNCHANGED <<page, slots, answer, due, behind, told, unsaved>> /\ AnswerInv
      /\ by = "upload" => upload.at = "flush"
      /\ by = "finish" => finish = "flush"
  BY DEF StartFlush, Asks, HandInInv
<1>2. /\ Len(slots) \in 0..MaxSlots /\ DOMAIN slots = 1..Len(slots)
      /\ row \in 0..Len(slots) /\ answer \in 0..Len(slots)
  BY <1>1, SlotsAre, DrawingAssumption DEF AnswerInv, DrawingTypeOK, Named, SlotIds
<1>3. CASE row = 0
  <2>1. UNCHANGED put /\ Flushed(by, 0)
    BY <1>3 DEF StartFlush
  <2>2. UploadGoesOn /\ row' = 0 /\ (finish' = finish \/ (finish = "flush" /\ finish' = "submit"))
    BY <1>1, <2>1, FlushOver, AtStart DEF UploadGoesOn
  <2>3. Saved' = Saved /\ PictureOf(answer)' = PictureOf(answer)
    BY <1>1, <1>3, <2>2 DEF Saved, PictureOf
  <2>4. Replaced'
    BY <1>1, <2>1, SlotsAlone, ReplacedStays DEF InTime
  <2>5. InOrder'
    BY <1>1, <1>3, <2>1, <2>2, OrderStays DEF InTime, UploadGoesOn, Out
  <2>6. Due /\ finish' = "submit" /\ ~told => Answered'
    <3>1. Due /\ finish = "submit" /\ ~told => Answered'
      BY <1>1, <2>1 DEF Due, Answered, Out, PictureOf
    <3>2. Due /\ finish = "flush" /\ ~told => PictureOf(answer) >= due
      BY <1>3 DEF Due, Saved
    <3>3. \A o \in Handlers : Out(o) => put[o].slot \in 1..Len(slots) /\ put[o].slot <= answer
      BY <1>1, <1>3 DEF InTime, InOrder, RowInOrder, AnswerInv, Named
    <3>4. \A o \in Handlers : Out(o)' => ~(put'[o].slot > answer')
      BY <1>1, <1>2, <2>1, <3>3 DEF Out
    <3> QED
      BY <1>1, <2>2, <2>3, <3>1, <3>2, <3>4 DEF Answered
  <2> QED
    BY <1>1, <2>2, <2>3, <2>4, <2>5, <2>6, SavedIs, InTimeStays DEF page, ArePictures
<1>4. CASE row # 0
  <2> DEFINE x == [NoPut EXCEPT !.at = "check", !.slot = row, !.heard = TRUE]
  <2>1. put' = [put EXCEPT ![h] = x] /\ UNCHANGED <<row, upload, finish>>
    BY <1>4 DEF StartFlush
  <2>2. x.at = "check" /\ x.slot = row
    BY AtStart DEF PutRequest
  <2> HIDE DEF x
  <2>3. put'[h] = x /\ \A o \in Handlers \ {h} : put'[o] = put[o]
    BY <1>1, <2>1 DEF AnswerInv, DrawingTypeOK
  <2>4. Saved' = Saved
    BY <1>1, <2>1 DEF Saved, PictureOf
  <2>5. Replaced'
    BY <1>1, <2>2, <2>3, SlotsAlone, ReplacedStays DEF InTime
  <2>6. \A o \in Handlers : Out(o)' => (Out(o) /\ put'[o] = put[o]) \/ put'[o].slot = row
    BY <2>2, <2>3 DEF Out
  <2>7. InOrder'
    BY <1>1, <1>2, <1>4, <2>1, <2>6 DEF InTime, InOrder, RowInOrder, Held
  <2>8. Due /\ finish' = "submit" /\ ~told => Answered'
    <3>1. Due /\ finish = "submit" /\ ~told => PictureOf(row) >= due
      BY <1>4 DEF Due, Saved
    <3> QED
      BY <1>1, <2>1, <2>6, <3>1 DEF Due, Answered, PictureOf
  <2> QED
    BY <1>1, <2>1, <2>4, <2>5, <2>7, <2>8, SavedIs, InTimeStays DEF page, UploadGoesOn, ArePictures
<1> QED
  BY <1>3, <1>4

-----------------------------------------------------------------------------
(* every step *)

\* The spool and the server leave the canvas and every picture as they are.
LEMMA ServerCanvas ==
  ASSUME HandInInv, AnswerInv', UNCHANGED <<page, due>>, UploadGoesOn \/ upload' = upload,
         SlotsRemain, finish' = "done" => finish = "done", submitted' = submitted
  PROVE  Canvas'
<1>1. \A s \in DOMAIN slots' : s \in DOMAIN slots /\ slots'[s].picture = slots[s].picture
  BY DEF SlotsRemain
<1> QED
  BY <1>1, CanvasStays DEF HandInInv, Canvas, UploadGoesOn, page

LEMMA FlushedCanvas ==
  ASSUME AnswerInv, NEW by \in {"none", "upload", "finish", "other"}, NEW left \in SlotIds,
         Flushed(by, left), by = "upload" => upload.at = "flush", by = "finish" => finish = "flush"
  PROVE  UploadGoesOn /\ (finish' = "done" => finish = "done")
BY FlushOver DEF UploadGoesOn

LEMMA AnswersCanvas ==
  ASSUME AnswerInv, NEW h \in Handlers, put[h].at # "none",
         \/ Answers(h)
         \/ put[h].heard /\ Flushed(flush.by, row)
         \/ UNCHANGED <<upload, finish>>
  PROVE  UploadGoesOn /\ (finish' = "done" => finish = "done")
<1>1. /\ flush.by \in {"none", "upload", "finish", "other"} /\ row \in SlotIds /\ AfterRemoval \in SlotIds
      /\ flush.by = "upload" => upload.at = "flush"
      /\ flush.by = "finish" => finish = "flush"
  BY AtStart DEF AnswerInv, DrawingTypeOK, Flushing, Listening, AfterRemoval
<1>2. CASE Answers(h)
  BY <1>1, <1>2, FlushedCanvas DEF Answers, UploadGoesOn
<1>3. CASE Flushed(flush.by, row)
  BY <1>1, <1>3, FlushedCanvas
<1>4. CASE UNCHANGED <<upload, finish>>
  BY <1>4 DEF UploadGoesOn
<1> QED
  BY <1>2, <1>3, <1>4

LEMMA TaskCanvas ==
  ASSUME HandInInv, AnswerInv', RequestUpload \/ UploadBytes \/ Enqueue \/ Report \/ GateEnds
  PROVE  Canvas'
<1>1. /\ UNCHANGED <<canvas, drawn, due, dirty>> /\ submitted' = submitted /\ AnswerInv
      /\ upload \in UploadTask
  BY DEF RequestUpload, UploadBytes, Enqueue, Report, GateEnds, page, handIn, server, HandInInv,
         AnswerInv, DrawingTypeOK
<1>2. upload'.picture \in {0, upload.picture}
  <2>1. CASE RequestUpload
    BY <1>1, <2>1 DEF RequestUpload, UploadFails, UploadTask
  <2>2. CASE UploadBytes \/ Enqueue
    BY <1>1, <2>2 DEF UploadBytes, Enqueue, UploadFails, UploadTask
  <2>3. CASE Report \/ GateEnds
    BY <2>3 DEF Report, GateEnds, NoUpload
  <2> QED
    BY <2>1, <2>2, <2>3
<1>3. finish' = "done" => finish = "done"
  BY DEF RequestUpload, UploadBytes, Enqueue, Report, GateEnds, handIn
<1>4. \A s \in DOMAIN slots' : \/ s \in DOMAIN slots /\ slots'[s].picture = slots[s].picture
                               \/ slots'[s].picture = upload.picture
  <2>1. CASE UNCHANGED slots
    BY <2>1
  <2>2. CASE Register
    <3>1. /\ SlotsStay /\ Len(slots') = Len(slots) + 1 /\ slots'[Len(slots')].picture = upload.picture
          /\ Len(slots) \in 0..MaxSlots /\ DOMAIN slots = 1..Len(slots)
      BY <1>1, <2>2, SlotRegistered, SlotsAre DEF AnswerInv
    <3> QED
      BY <3>1, DrawingAssumption DEF SlotsStay
  <2>3. CASE slots' = [slots EXCEPT ![upload.slot].stored = TRUE] /\ upload.at = "bytes"
    <3>1. /\ upload.slot \in DOMAIN slots
          /\ Len(slots) \in 0..MaxSlots /\ DOMAIN slots = 1..Len(slots)
      BY <1>1, <2>3, SlotsAre DEF AnswerInv, Named, UploadTask, SlotIds
    <3>2. SlotsStay /\ Len(slots') = Len(slots)
      BY <1>1, <2>3, <3>1, SlotStored DEF AnswerInv
    <3> QED
      BY <3>1, <3>2 DEF SlotsStay
  <2> QED
    BY <2>1, <2>2, <2>3 DEF RequestUpload, UploadBytes, Enqueue, Report, GateEnds, server
<1> QED
  BY <1>1, <1>2, <1>3, <1>4, CanvasStays DEF HandInInv, Canvas

LEMMA CanvasStep == HandInInv /\ AnswerInv' /\ [DrawingNext]_drawingVars => Canvas'
<1> SUFFICES ASSUME HandInInv, AnswerInv', [DrawingNext]_drawingVars PROVE Canvas'
  OBVIOUS
<1>1. AnswerInv /\ Canvas
  BY DEF HandInInv
<1>2. UNCHANGED slots => SlotsRemain
  BY <1>1, SlotsAlone
<1>3. CASE FlushNow \/ SaveDrawing \/ ResultArrives \/ PressFinish
  BY <1>3, PostsCanvas
<1>4. CASE RequestUpload \/ UploadBytes \/ Enqueue \/ Report \/ GateEnds
  BY <1>4, TaskCanvas
<1>5. CASE WaitForIdle
  BY <1>2, <1>5, ServerCanvas DEF WaitForIdle, host, server
<1>6. CASE Submit
  <2>1. /\ UNCHANGED <<canvas, drawn, due, dirty, upload, slots>>
        /\ finish' = "done" => submitted'
    BY <1>6 DEF Submit, page, host
  <2> QED
    BY <1>1, <2>1, CanvasStays
<1>7. CASE FlushFails
  <2>1. /\ UNCHANGED <<page, due, slots>> /\ submitted' = submitted /\ Flushed(flush.by, row)
    BY <1>7 DEF FlushFails
  <2>2. /\ flush.by \in {"none", "upload", "finish", "other"} /\ row \in SlotIds
        /\ flush.by = "upload" => upload.at = "flush"
        /\ flush.by = "finish" => finish = "flush"
    BY <1>1 DEF AnswerInv, DrawingTypeOK, Flushing, Listening
  <2>3. UploadGoesOn /\ (finish' = "done" => finish = "done")
    BY <1>1, <2>1, <2>2, FlushedCanvas
  <2> QED
    BY <1>2, <2>1, <2>3, ServerCanvas
<1>8. CASE Crash
  <2>1. /\ UNCHANGED <<drawn, slots>> /\ dirty' = FALSE /\ upload' = NoUpload /\ finish' = "none" /\ due' = 0
        /\ canvas' \in {0, PictureOf(answer)}
    BY <1>8 DEF Crash
  <2>2. ArePictures /\ ArePictures'
    BY <1>1, SavedIs, SavedIsNext
  <2>3. PictureOf(answer) <= drawn
    <3>1. answer # 0 => answer \in DOMAIN slots
      BY <1>1, SlotsAre DEF AnswerInv, DrawingTypeOK, Named, SlotIds
    <3> QED
      BY <1>1, <2>2, <3>1 DEF Canvas, PictureOf, ArePictures
  <2>4. canvas' <= drawn' /\ due' <= drawn' /\ canvas' >= due'
    BY <2>1, <2>2, <2>3 DEF ArePictures
  <2>5. upload'.picture <= drawn'
    BY <2>1, <2>2 DEF NoUpload, ArePictures
  <2> QED
    BY <1>1, <2>1, <2>4, <2>5 DEF Canvas
<1>9. ASSUME NEW h \in Handlers, NEW by \in {"upload", "finish", "other"}, StartFlush(by, h)
      PROVE  Canvas'
  <2>1. /\ UNCHANGED <<page, due, slots>> /\ submitted' = submitted
        /\ by = "upload" => upload.at = "flush"
        /\ by = "finish" => finish = "flush"
        /\ Flushed(by, 0) \/ UNCHANGED <<upload, finish>>
    BY <1>9 DEF StartFlush, Asks
  <2>2. UploadGoesOn /\ (finish' = "done" => finish = "done")
    BY <1>1, <2>1, FlushedCanvas, AtStart DEF UploadGoesOn
  <2> QED
    BY <1>2, <2>1, <2>2, ServerCanvas
<1>10. ASSUME NEW h \in Handlers, CheckSlot(h) \/ WriteAnswer(h) \/ PutDies(h)
       PROVE  Canvas'
  <2>1. /\ UNCHANGED <<page, due, slots>> /\ submitted' = submitted /\ put[h].at # "none"
        /\ \/ Answers(h)
           \/ put[h].heard /\ Flushed(flush.by, row)
           \/ UNCHANGED <<upload, finish>>
    BY <1>10 DEF CheckSlot, WriteAnswer, PutDies
  <2>2. UploadGoesOn /\ (finish' = "done" => finish = "done")
    BY <1>1, <2>1, AnswersCanvas
  <2> QED
    BY <1>2, <2>1, <2>2, ServerCanvas
<1>11. ASSUME NEW h \in Handlers, ReadSlots(h) PROVE Canvas'
  BY <1>2, <1>11, ServerCanvas DEF ReadSlots, host, handIn
<1>12. ASSUME NEW h \in Handlers, DeleteSlots(h) PROVE Canvas'
  <2>1. SlotsRemain
    BY <1>1, <1>12, Deleted
  <2> QED
    BY <1>12, <2>1, ServerCanvas DEF DeleteSlots, host, handIn
<1>13. CASE UNCHANGED drawingVars
  BY <1>1, <1>13 DEF Canvas, drawingVars, page, host, server, handIn
<1>14. CASE Clear \/ Draw
  BY <1>14, DrawCanvas
<1> QED
  BY <1>3, <1>4, <1>5, <1>6, <1>7, <1>8, <1>9, <1>10, <1>11, <1>12, <1>13, <1>14 DEF DrawingNext

LEMMA InitHandIn == DrawingInit => HandInInv
<1> SUFFICES ASSUME DrawingInit PROVE HandInInv
  OBVIOUS
<1>1. AnswerInv /\ DOMAIN slots = {} /\ \A h \in Handlers : put[h] = NoPut
  BY InitAnswer DEF DrawingInit
<1>2. /\ canvas = 0 /\ drawn = 0 /\ due = 0 /\ dirty = FALSE /\ finish = "none" /\ row = 0 /\ answer = 0
      /\ upload.at = "none" /\ upload.picture = 0
  BY AtStart DEF DrawingInit, NoUpload
<1>3. Canvas
  BY <1>1, <1>2 DEF Canvas
<1>4. Replaced
  BY <1>1 DEF Replaced
<1>5. InOrder
  BY <1>1, <1>2, AtStart DEF InOrder, RowInOrder, Out
<1>6. Caught(canvas)
  BY <1>2 DEF Caught, OnItsWay, Saved, PictureOf
<1>7. Due
  BY <1>2 DEF Due
<1> QED
  BY <1>1, <1>3, <1>4, <1>5, <1>6, <1>7 DEF HandInInv, InTime

LEMMA HandInStep == HandInInv /\ [DrawingNext]_drawingVars => HandInInv'
<1> SUFFICES ASSUME HandInInv, [DrawingNext]_drawingVars PROVE HandInInv'
  OBVIOUS
<1>1. AnswerInv'
  BY AnswerStep DEF HandInInv
<1>2. Canvas'
  BY <1>1, CanvasStep
<1>3. ASSUME Clean' PROVE InTime'
  <2>1. Clean /\ InTime
    BY <1>3, CleanBefore DEF HandInInv
  <2>2. CASE Draw \/ Clear \/ FlushNow \/ SaveDrawing \/ ResultArrives \/ PressFinish
    BY <1>1, <2>1, <2>2, DrawInTime, PostsInTime
  <2>3. CASE RequestUpload \/ UploadBytes \/ Enqueue \/ Report \/ GateEnds
    BY <1>1, <2>1, <2>3, RequestInTime, BytesInTime, EnqueueInTime, ReportInTime, GateInTime
  <2>4. CASE WaitForIdle \/ Submit \/ FlushFails \/ Crash
    BY <1>1, <1>3, <2>1, <2>4, WaitInTime, SubmitInTime, FlushFailsInTime, CrashInTime
  <2>5. ASSUME NEW h \in Handlers, NEW by \in {"upload", "finish", "other"}, StartFlush(by, h)
        PROVE  InTime'
    BY <1>1, <2>1, <2>5, StartInTime
  <2>6. ASSUME NEW h \in Handlers,
               CheckSlot(h) \/ ReadSlots(h) \/ DeleteSlots(h) \/ WriteAnswer(h) \/ PutDies(h)
        PROVE  InTime'
    BY <1>1, <1>3, <2>1, <2>6, CheckInTime, ReadInTime, DeleteInTime, WriteInTime, DiesInTime
  <2>7. CASE UNCHANGED drawingVars
    <3>1. UNCHANGED <<canvas, dirty, upload, row, put, slots, answer, finish, due, behind, told, unsaved>>
      BY <2>7 DEF drawingVars, page, host, spool, server, handIn
    <3>2. Replaced' /\ InOrder'
      BY <2>1, <3>1 DEF InTime, Replaced, InOrder, RowInOrder, Held, Out
    <3>3. \A h \in Handlers : Out(h)' => Out(h) /\ put'[h].slot = put[h].slot
      BY <3>1 DEF Out
    <3> QED
      BY <1>1, <2>1, <3>1, <3>2, <3>3, QuietInTime DEF HandInInv, UploadGoesOn
  <2> QED
    BY <2>2, <2>3, <2>4, <2>5, <2>6, <2>7 DEF DrawingNext
<1> QED
  BY <1>1, <1>2, <1>3 DEF HandInInv

\* The invariant of the hand-in.
THEOREM HandInInvariant == DrawingSpec => []HandInInv
<1> QED
  BY InitHandIn, HandInStep, PTL DEF DrawingSpec

\* "Finish pressed mid-stroke still hands in with the drawing": the attempt is
\* handed in only with the picture that was on the canvas when Finish was
\* pressed, or a later one, unless the student had been told that it could not
\* be saved or the history names why.
THEOREM HandedIn == DrawingSpec => DrawingIsHandedIn
<1>1. HandInInv /\ [DrawingNext]_drawingVars
      => [submitted' # submitted =>
            PictureOf(answer) >= due \/ told \/ behind \/ restored \/ outrun \/ torn]_drawingVars
  <2> SUFFICES ASSUME HandInInv, DrawingNext, submitted' # submitted,
                      ~told, ~behind, ~restored, ~outrun, ~torn
               PROVE  PictureOf(answer) >= due
    BY DEF drawingVars, server
  <2>1. submitted \in BOOLEAN
    BY DEF HandInInv, AnswerInv, DrawingTypeOK
  <2>2. Submit
    BY DEF DrawingNext, Draw, Clear, FlushNow, SaveDrawing, ResultArrives, RequestUpload, UploadBytes,
           Enqueue, Report, GateEnds, PressFinish, WaitForIdle, StartFlush, CheckSlot, ReadSlots,
           DeleteSlots, WriteAnswer, PutDies, FlushFails, Crash, server
  <2>3. finish = "submit"
    BY <2>2 DEF Submit
  <2>4. ~submitted
    BY <2>1, <2>2 DEF Submit
  <2> QED
    BY <2>3, <2>4 DEF HandInInv, Clean, InTime, Due, Answered
<1> QED
  BY <1>1, HandInInvariant, PTL DEF DrawingSpec, DrawingIsHandedIn

=============================================================================
