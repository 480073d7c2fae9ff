------------------------------ MODULE ErrorLog ------------------------------
(***************************************************************************)
(* errors.log, the client's buffer of error lines: appended to by whatever *)
(* fails and by the process as it dies, capped, and drained to the server  *)
(* each time the entry screen opens signed in.  The file is shortened by   *)
(* writing a new one over its path and opening that; a drain removes from  *)
(* the front as many lines as the server took.  A lock orders all this but *)
(* the two writers of last resort, which write to the descriptor they were *)
(* given at launch.                                                        *)
(*                                                                         *)
(* The n-th line is the number n.  A write cut short by a full disk or the *)
(* end of the process leaves a line that reads as itself without its       *)
(* newline, as no JSON, or as no UTF-8 (cut inside a character); the next  *)
(* write goes on in that line.  Not modelled: what a line says, a server   *)
(* that refuses a batch for its contents, the copy an error line sends to  *)
(* the monitor, a launch that cannot open the file.                        *)
(***************************************************************************)
EXTENDS Integers, SequencesExt

CONSTANTS
  Drains,     \* bound: drains under way at once
  MaxLines,   \* maxLines, the newest that a trim keeps
  MaxBytes,   \* maxBytes, in units of a short line
  BatchSize,  \* entries a request carries
  Long,       \* the lines of two units
  MaxRecords, \* bound: lines made
  MaxFaults   \* bound: full disks, lost requests, ends of the process

ASSUME ErrorLogAssumption ==
  /\ MaxLines \in Nat \ {0} /\ MaxBytes \in Nat \ {0} /\ BatchSize \in Nat \ {0}
  /\ MaxRecords \in Nat /\ MaxFaults \in Nat

VARIABLES
  file,      \* the lines of the file at the log's path
  unended,   \* its last line has no newline yet
  recorded,  \* lines made so far, on file or not
  lineCount, \* the log's counters, kept beside the file
  byteCount,
  sink,      \* descriptor: the log holds the file open
  crashes,   \* crashDescriptor still names that file
  lock,      \* who holds it and what comes next
  drain,     \* the drains
  hung,      \* the backstop has fired: the main thread is presumed gone
  received,  \* client_error_events: the lines in it
  trimmed,   \* lines that the cap dropped (history)
  mishaps    \* faults so far

disk == <<file, unended>>
counters == <<lineCount, byteCount>>
errorLogVars == <<disk, recorded, counters, sink, crashes, lock, drain, hung,
                  received, trimmed, mishaps>>

NotJson == 0
NotText == -1
Numbers == 1..MaxRecords
Writer == "writer"
Unlocked == [by |-> "none", next |-> "none"]
Idle == [at |-> "idle", entries |-> <<>>, accepted |-> 0, stale |-> FALSE]
Units(n) == IF n \in Long THEN 2 ELSE 1
Bytes(lines) == FoldLeft(LAMBDA sum, line : sum + Units(line), 0, lines)
Fault == mishaps < MaxFaults /\ mishaps' = mishaps + 1
OnFile(f) == ToSet(f) \cap Numbers

-----------------------------------------------------------------------------
(* The file *)

\* write(2) of the n-th line: all of it, or only as much as reads as `part`.
Appended(part) ==
  IF ~unended THEN Append(file, part)
  ELSE ReplaceAt(file, Len(file), IF NotText \in {part, Last(file)} THEN NotText ELSE NotJson)
Writes(part, whole) == file' = Appended(part) /\ unended' = ~whole

\* What a rewrite reads: no text at all when one line is none.
Text == IF NotText \in ToSet(file) THEN <<>> ELSE file
NewestLines(lines) == SubSeq(lines, Len(lines) - MaxLines + 1, Len(lines))
\* suffix(maxLines), whichever bound was passed.
Trimmed(lines) == IF Len(lines) > MaxLines THEN NewestLines(lines) ELSE lines

\* Mutant: the drain empties the file.
MutantWithoutFirst(lines, count) == <<>>
\* removeFirstLines: lines, of whatever kind, as many as entries were accepted.
WithoutFirst(lines, count) == SubSeq(lines, count + 1, Len(lines))

\* Mutant: a line that does not parse costs the drain.
MutantReadEntries == IF {NotJson, NotText} \cap ToSet(file) # {} THEN <<>> ELSE file
\* readEntries: the lines that parse.
ReadEntries == SelectSeq(Text, LAMBDA line : line \in Numbers)

-----------------------------------------------------------------------------
(* record *)

\* The lock is taken; without a descriptor the line goes to stderr only.
Record ==
  /\ lock = Unlocked /\ recorded < MaxRecords
  /\ IF sink THEN lock' = [by |-> Writer, next |-> "write"] /\ UNCHANGED recorded
     ELSE recorded' = recorded + 1 /\ UNCHANGED lock
  /\ UNCHANGED <<disk, counters, sink, crashes, drain, hung, received, trimmed, mishaps>>

\* writeRaw: the line, the counters, and the cap by the counters.  A full disk
\* takes part of the line, or none; the line is counted all the same.
Write ==
  /\ lock = [by |-> Writer, next |-> "write"]
  /\ recorded' = recorded + 1
  /\ \/ Writes(recorded', TRUE) /\ byteCount' = byteCount + Units(recorded')
        /\ UNCHANGED mishaps
     \/ /\ Fault /\ UNCHANGED byteCount
        /\ \/ \E part \in {recorded', NotJson, NotText} : Writes(part, FALSE)
           \/ UNCHANGED disk
  /\ lineCount' = lineCount + 1
  /\ lock' = IF lineCount' > MaxLines \/ byteCount' > MaxBytes
             THEN [by |-> Writer, next |-> "replace"] ELSE Unlocked
  /\ UNCHANGED <<sink, crashes, drain, hung, received, trimmed>>

-----------------------------------------------------------------------------
(* rewriteLocked, for the cap or for a drain *)

\* The file is read, cut and written over the path, or not (the error is
\* dropped); the counters say what should be there.
Rewrite ==
  LET rest == IF lock.by = Writer THEN Trimmed(Text) ELSE WithoutFirst(Text, drain[lock.by].accepted)
  IN /\ lock.next = "replace"
     /\ lineCount' = Len(rest)
     /\ byteCount' = Bytes(rest)
     /\ \/ /\ file' = rest /\ unended' = FALSE /\ crashes' = FALSE /\ UNCHANGED mishaps
           /\ drain' = [d \in Drains |-> IF rest # file /\ d # lock.by
                                         THEN [drain[d] EXCEPT !.stale = drain[d].at # "idle"] ELSE drain[d]]
           /\ trimmed' = IF lock.by = Writer THEN trimmed \cup (OnFile(Text) \ OnFile(rest)) ELSE trimmed
        \/ Fault /\ UNCHANGED <<disk, crashes, drain, trimmed>>
     /\ lock' = [lock EXCEPT !.next = "reopen"]
     /\ UNCHANGED <<recorded, sink, hung, received>>

\* The old descriptor is closed and the path opened, under the same number
\* unless another thread of the process has taken it, or not at all.
Reopen ==
  /\ lock.next = "reopen"
  /\ \/ sink' = TRUE /\ crashes' \in BOOLEAN /\ UNCHANGED mishaps
     \/ Fault /\ sink' = FALSE /\ UNCHANGED crashes
  /\ lock' = Unlocked
  /\ drain' = IF lock.by = Writer THEN drain ELSE [drain EXCEPT ![lock.by] = Idle]
  /\ UNCHANGED <<disk, recorded, counters, hung, received, trimmed>>

-----------------------------------------------------------------------------
(* ClientErrorDrain *)

\* Each showEntry and each sign-in starts one, whatever others are at.
Drain(d) ==
  /\ drain[d].at = "idle" /\ lock = Unlocked /\ ReadEntries # <<>>
  /\ drain' = [drain EXCEPT ![d] = [Idle EXCEPT !.at = "post", !.entries = ReadEntries]]
  /\ UNCHANGED <<disk, recorded, counters, sink, crashes, lock, hung, received, trimmed, mishaps>>

NextBatch(d) ==
  LET first == drain[d].accepted + 1
  IN SubSeq(drain[d].entries, first, Min({first + BatchSize - 1, Len(drain[d].entries)}))

\* postClientErrors: one insert for the batch.
BatchTaken(d) ==
  /\ drain[d].at = "post"
  /\ received' = received \cup ToSet(NextBatch(d))
  /\ LET accepted == drain[d].accepted + Len(NextBatch(d))
     IN drain' = [drain EXCEPT ![d].accepted = accepted,
                               ![d].at = IF accepted = Len(drain[d].entries) THEN "remove" ELSE "post"]
  /\ UNCHANGED <<disk, recorded, counters, sink, crashes, lock, hung, trimmed, mishaps>>

\* Refused, or the answer is lost: the drain stops, and keeps what went before.
BatchFails(d) ==
  /\ drain[d].at = "post" /\ Fault
  /\ received' \in {received, received \cup ToSet(NextBatch(d))}
  /\ drain' = [drain EXCEPT ![d] = IF @.accepted > 0 THEN [@ EXCEPT !.at = "remove"] ELSE Idle]
  /\ UNCHANGED <<disk, recorded, counters, sink, crashes, lock, hung, trimmed>>

RemoveFirstLines(d) ==
  /\ drain[d].at = "remove" /\ lock = Unlocked
  /\ lock' = [by |-> d, next |-> "replace"]
  /\ UNCHANGED <<disk, recorded, counters, sink, crashes, drain, hung, received, trimmed, mishaps>>

-----------------------------------------------------------------------------
(* The end of the process *)

\* The process is gone and the app launched again: the counters are read from
\* the file, and the crash reporter is given the new descriptor.
Relaunch ==
  /\ lineCount' = Len(file') - (IF unended' THEN 1 ELSE 0)
  /\ byteCount' = Bytes(file')
  /\ sink' = TRUE /\ crashes' = TRUE /\ lock' = Unlocked /\ hung' = FALSE
  /\ drain' = [d \in Drains |-> Idle]
  /\ UNCHANGED <<received, trimmed>>

\* One line to the descriptor of launch, whole or cut short, and no lock.
LastWords ==
  /\ recorded < MaxRecords /\ recorded' = recorded + 1
  /\ \/ crashes /\ Writes(recorded', TRUE)
     \/ crashes /\ \E part \in {recorded', NotJson, NotText} : Writes(part, FALSE)
     \/ ~crashes /\ UNCHANGED disk

Quit == Fault /\ UNCHANGED <<disk, recorded>> /\ Relaunch

\* secureTestCrashSignalHandler, on any thread at any moment.
CrashSignal == Fault /\ LastWords /\ Relaunch

\* exit(70), from the backstop's own queue: the line names the attempt, which
\* the log tells under its lock.
BackstopFires ==
  /\ ~hung /\ Fault /\ hung' = TRUE
  /\ UNCHANGED <<disk, recorded, counters, sink, crashes, lock, drain, received, trimmed>>
ExitUnrecoverable ==
  /\ hung /\ lock = Unlocked
  /\ \/ LastWords
     \/ recorded = MaxRecords /\ UNCHANGED <<disk, recorded>>
  /\ Relaunch /\ UNCHANGED mishaps

-----------------------------------------------------------------------------
ErrorLogInit ==
  /\ file = <<>> /\ unended = FALSE /\ recorded = 0 /\ lineCount = 0 /\ byteCount = 0
  /\ sink = TRUE /\ crashes = TRUE /\ lock = Unlocked /\ hung = FALSE
  /\ drain = [d \in Drains |-> Idle]
  /\ received = {} /\ trimmed = {} /\ mishaps = 0

ErrorLogNext ==
  \/ Record \/ Write \/ Rewrite \/ Reopen
  \/ \E d \in Drains : Drain(d) \/ BatchTaken(d) \/ BatchFails(d) \/ RemoveFirstLines(d)
  \/ Quit \/ CrashSignal \/ BackstopFires \/ ExitUnrecoverable

ErrorLogSpec == ErrorLogInit /\ [][ErrorLogNext]_errorLogVars

\* Whoever has the lock goes on, a drain under way too, and the student's Mac
\* comes back to the entry screen signed in, as it does before every test.
ErrorLogFairness ==
  /\ WF_errorLogVars(Write \/ Rewrite \/ Reopen)
  /\ \A d \in Drains : WF_errorLogVars(Drain(d) \/ BatchTaken(d) \/ RemoveFirstLines(d))
ErrorLogFairSpec == ErrorLogSpec /\ ErrorLogFairness

-----------------------------------------------------------------------------
(* Properties *)

\* The file, its counters, the lock and the drains have the types they model.
ErrorLogTypeOK ==
  /\ file \in Seq(Numbers \cup {NotJson, NotText}) /\ Len(file) <= MaxLines + MaxRecords
  /\ unended \in BOOLEAN /\ (unended => file # <<>>)
  /\ recorded \in 0..MaxRecords /\ lineCount \in Nat /\ byteCount \in Nat
  /\ sink \in BOOLEAN /\ crashes \in BOOLEAN /\ hung \in BOOLEAN
  /\ lock \in [by : {"none", Writer} \cup Drains, next : {"none", "write", "replace", "reopen"}]
  /\ drain \in [Drains -> [at : {"idle", "post", "remove"}, entries : Seq(Numbers),
                           accepted : 0..MaxRecords, stale : BOOLEAN]]
  /\ received \subseteq Numbers /\ trimmed \subseteq Numbers /\ mishaps \in 0..MaxFaults

Lost == OnFile(file) \ (OnFile(file') \cup received \cup trimmed')
CutShort(n) == unended /\ n = Last(file)
StaleRemoval == lock.by \in Drains /\ drain[lock.by].stale
Unreadable == NotText \in ToSet(file)

\* "A line leaves the file only once the server has said it took it": no step
\* takes a line off the file that neither the server has nor the cap dropped,
\* whatever is recorded, refused, cut short or ended meanwhile; but for the
\* line that was cut short itself, and the two cases below.
TakenBeforeItGoes ==
  [][\A n \in Lost : CutShort(n) \/ StaleRemoval \/ Unreadable]_errorLogVars

\* Without the first case: lines are counted from the front, which moves when
\* the cap or another drain shortens the file while the server is asked.
CountedFromTheSameFront ==
  [][\A n \in Lost : CutShort(n) \/ Unreadable]_errorLogVars

\* "A half-written line from a crash mid-write should cost the crash line":
\* one line cut inside a character makes the next rewrite drop all the others.
HalfLineCostsItself ==
  [][\A n \in Lost : CutShort(n) \/ StaleRemoval]_errorLogVars

\* "The next sign-in tries again": once errors stop (here, at the bound), every
\* line on file is sent or dropped in the end, those behind lines that do not
\* parse too, after batches that fail half-way and processes that end; unless
\* the file is no text.
EveryLineIsSent ==
  OnFile(file) # {} ~> OnFile(file) = {} \/ Unreadable \/ recorded < MaxRecords

\* "The pre-opened descriptor the crash handler writes to.  Never closed while
\* the process lives": what a dying process writes is in the file.
LastWordsReachTheFile ==
  [][recorded' # recorded /\ (CrashSignal \/ ExitUnrecoverable) /\ ~unended => file' # file]_errorLogVars

\* "The byte bound trims long before the line bound": after a trim the file is
\* within maxBytes, or down to one line.
TrimmedToItsBytes ==
  [][lock = [by |-> Writer, next |-> "reopen"] /\ Reopen
       => Bytes(file) <= MaxBytes \/ Len(file) <= 1]_errorLogVars

=============================================================================
