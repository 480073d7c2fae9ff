---------------------------- MODULE DocsRelease ----------------------------
(***************************************************************************)
(* Releasing a class's essays as Google Docs.  A send decides every student *)
(* before Drive is touched, makes the folders, and lets a few workers       *)
(* upload, share, perhaps hand over and record one Doc after another.  The  *)
(* sender's Drive token may be refused at any call, and the teacher then    *)
(* authorizes again and resumes in the mode that skips whoever has a Doc.   *)
(* Two sends of one teacher may overlap: nothing locks, and a request that  *)
(* the load balancer gave up on, or that failed on one student, works on.   *)
(*                                                                          *)
(* A Drive call may act and its answer be lost or unreadable: sharing a Doc *)
(* is a step, and hearing of it another.                                    *)
(*                                                                          *)
(* Not modelled: what a Doc contains, pictures, single-student sends, a     *)
(* Doc made by an upload whose answer was lost (nobody is given it), the    *)
(* remembered boxes, and the order of the queue (by name; any here).        *)
(***************************************************************************)
EXTENDS Integers, Sequences, FiniteSets

CONSTANTS
  Pupils,     \* attempts of the section with text to release and an address
  NoPupil,
  Releases,   \* bound: slots for sends
  Workers,    \* a send's workers (CONCURRENCY)
  Choices,    \* bound: what the dialog sends, of DialogChoices
  MaxDocs,    \* bound: Docs made in the sender's Drive
  MaxSends,   \* bound: sends
  MaxChanges  \* bound: hand-ins, pass backs and alerts around them

\* mode, include_drafts and transfer_ownership.
DialogChoices == [mode : {"skip", "new"}, drafts : BOOLEAN, transfer : BOOLEAN]

ASSUME ReleaseAssumption ==
  /\ NoPupil \notin Pupils
  /\ Choices \subseteq DialogChoices
  /\ MaxDocs \in Nat /\ MaxSends \in Nat /\ MaxChanges \in Nat

VARIABLES
  handedIn,   \* students whose attempt is submitted
  alerted,    \* students with an open safeguarding alert
  docs,       \* the Docs in the sender's Drive
  release,    \* the sends
  worker,     \* their workers
  sends,      \* sends so far
  changes,    \* hand-ins, pass backs and alerts so far
  slipped     \* students given a Doc that no worker has left to record, or whom two
              \* sends had in hand at once (history)

releaseVars == <<handedIn, alerted, docs, release, worker, sends, changes, slipped>>
work == <<handedIn, alerted, changes>>

\* A google_doc_releases row is the last step of its Doc, so it is a stage of it.
Doc == [pupil : Pupils, by : 1..MaxSends, stage : {"uploaded", "shared", "recorded"}]

Outcomes == {"none", "skipped", "auth", "failed", "sent"}
Release == [no : 0..MaxSends, at : {"idle", "folders", "working", "answered"}, queue : SUBSET Pupils,
            outcome : [Pupils -> Outcomes], authLost : BOOLEAN, threw : BOOLEAN,
            transfer : BOOLEAN]
Resting == [no |-> 0, at |-> "idle", queue |-> {}, outcome |-> [p \in Pupils |-> "none"],
            authLost |-> FALSE, threw |-> FALSE, transfer |-> FALSE]
Worker == [at : {"idle", "upload", "share", "shared", "transfer", "insert", "gone"},
           pupil : Pupils \cup {NoPupil}, doc : 0..MaxDocs]
Unemployed == [at |-> "idle", pupil |-> NoPupil, doc |-> 0]

DocsOf(p, stages) == {d \in DOMAIN docs : docs[d].pupil = p /\ docs[d].stage \in stages}
Busy(q) == {w \in Workers : worker[q][w].at \notin {"idle", "gone"}}
\* A worker still has something to do, whether or not the request was answered.
Running(q) ==
  \/ Busy(q) # {}
  \/ release[q].queue # {} /\ \E w \in Workers : worker[q][w].at = "idle"

-----------------------------------------------------------------------------
(* Deciding every student, and the folders *)

\* Mutant: the mode that skips does not look at the records.
MutantLeftOut(choice) ==
  {p \in Pupils : \/ p \notin handedIn /\ ~choice.drafts
                  \/ p \in alerted}

\* Students a send leaves out before Drive is touched.
LeftOut(choice) ==
  {p \in Pupils : \/ p \notin handedIn /\ ~choice.drafts
                  \/ p \in alerted
                  \/ choice.mode = "skip" /\ DocsOf(p, {"recorded"}) # {}}

\* Students another send has still to make a Doc of.
InHand(q) ==
  UNION {release[o].queue \cup {worker[o][w].pupil : w \in Busy(o)} :
           o \in {o \in Releases \ {q} : Running(o)}}

\* The reads of the decision are separate statements over separate tables; no
\* student's decision compares two of them.
Decide(q, choice) ==
  /\ release[q].at \in {"idle", "answered"} /\ ~Running(q)
  /\ sends < MaxSends /\ sends' = sends + 1
  /\ LET out == LeftOut(choice)
         chosen == Pupils \ out
     IN /\ release' = [release EXCEPT ![q] =
             [Resting EXCEPT !.no = sends + 1, !.at = IF chosen = {} THEN "answered" ELSE "folders",
                             !.queue = chosen, !.transfer = choice.transfer,
                             !.outcome = [p \in Pupils |-> IF p \in out THEN "skipped" ELSE "none"]]]
        /\ worker' = [worker EXCEPT ![q] = [w \in Workers |-> Unemployed]]
        /\ slipped' = slipped \cup (chosen \cap InHand(q))
  /\ UNCHANGED <<work, docs>>

\* ensureFolder, three levels: the token may be refused, and everyone is
\* skipped; another Drive error is not caught, and the request fails.
Folders(q) ==
  /\ release[q].at = "folders"
  /\ \/ release' = [release EXCEPT ![q].at = "working"]
     \/ release' = [release EXCEPT ![q].at = "answered", ![q].queue = {}, ![q].authLost = TRUE,
                      ![q].outcome = [p \in Pupils |-> IF p \in release[q].queue THEN "auth" ELSE @[p]]]
     \/ release' = [release EXCEPT ![q].at = "answered", ![q].queue = {}, ![q].threw = TRUE]
  /\ UNCHANGED <<work, docs, worker, sends, slipped>>

-----------------------------------------------------------------------------
(* The workers *)

\* Mutant: a worker goes home when the token was refused.
MutantTakes(q) == IF release[q].authLost THEN {} ELSE release[q].queue

\* The jobs a worker goes through, the token refused or not.
Takes(q) == release[q].queue

\* The next job: skipped when the token was refused meanwhile.
TakeJob(q, w, p) ==
  /\ release[q].at \in {"working", "answered"}
  /\ worker[q][w].at = "idle" /\ p \in Takes(q)
  /\ IF release[q].authLost
     THEN /\ release' = [release EXCEPT ![q].queue = @ \ {p}, ![q].outcome[p] = "auth"]
          /\ UNCHANGED worker
     ELSE /\ release' = [release EXCEPT ![q].queue = @ \ {p}]
          /\ worker' = [worker EXCEPT ![q][w] = [@ EXCEPT !.at = "upload", !.pupil = p]]
  /\ UNCHANGED <<work, docs, sends, slipped>>

\* A Drive call of a job is refused: the token is gone, or one Doc failed.
Refuse(q, w) ==
  /\ \/ release' = [release EXCEPT ![q].authLost = TRUE, ![q].outcome[worker[q][w].pupil] = "auth"]
     \/ release' = [release EXCEPT ![q].outcome[worker[q][w].pupil] = "failed"]
  /\ worker' = [worker EXCEPT ![q][w] = Unemployed]

Proceed(q, w, at) ==
  /\ worker' = [worker EXCEPT ![q][w].at = at]
  /\ UNCHANGED release

Upload(q, w) ==
  /\ worker[q][w].at = "upload"
  /\ \/ /\ Len(docs) < MaxDocs
        /\ docs' = Append(docs, [pupil |-> worker[q][w].pupil, by |-> release[q].no, stage |-> "uploaded"])
        /\ worker' = [worker EXCEPT ![q][w].at = "share", ![q][w].doc = Len(docs) + 1]
        /\ UNCHANGED release
     \/ Refuse(q, w) /\ UNCHANGED docs
  /\ UNCHANGED <<work, sends, slipped>>

\* Drive shares the Doc, and mails the student of it; or the call is refused, and
\* the Doc stays in the sender's Drive, given to nobody.
Share(q, w) ==
  /\ worker[q][w].at = "share"
  /\ \/ /\ docs' = [docs EXCEPT ![worker[q][w].doc].stage = "shared"]
        /\ Proceed(q, w, "shared")
     \/ Refuse(q, w) /\ UNCHANGED docs
  /\ UNCHANGED <<work, sends, slipped>>

\* The answer of the share.  An error after it acted (a 5xx, and what the retries
\* of it met) is the answer of one that did not: the student is reported failed,
\* or skipped, and nothing records the Doc they were given.
ShareAnswered(q, w) ==
  /\ worker[q][w].at = "shared"
  /\ \/ /\ Proceed(q, w, IF release[q].transfer THEN "transfer" ELSE "insert")
        /\ UNCHANGED slipped
     \/ Refuse(q, w) /\ slipped' = slipped \cup {worker[q][w].pupil}
  /\ UNCHANGED <<work, docs, sends>>

\* A failed transfer is reported, never a failed send; a refused token in it
\* stops the other jobs.
Transfer(q, w) ==
  /\ worker[q][w].at = "transfer"
  /\ worker' = [worker EXCEPT ![q][w].at = "insert"]
  /\ \E lost \in BOOLEAN : release' = [release EXCEPT ![q].authLost = @ \/ lost]
  /\ UNCHANGED <<work, docs, sends, slipped>>

\* An error that is not Drive's own ends its worker and fails the request at
\* once; the other workers carry on unseen.
WorkerGone(q, w) ==
  /\ release' = [release EXCEPT ![q].threw = TRUE, ![q].at = "answered"]
  /\ worker' = [worker EXCEPT ![q][w] = [Unemployed EXCEPT !.at = "gone"]]

\* The record of the Doc; the outcome follows it, unless the database's answer
\* is lost.
InsertRelease(q, w) ==
  /\ worker[q][w].at = "insert"
  /\ docs' = [docs EXCEPT ![worker[q][w].doc].stage = "recorded"]
  /\ \/ /\ release' = [release EXCEPT ![q].outcome[worker[q][w].pupil] = "sent"]
        /\ worker' = [worker EXCEPT ![q][w] = Unemployed]
     \/ WorkerGone(q, w)
  /\ UNCHANGED <<work, sends, slipped>>

\* The network or the database fails a step, or an answer cannot be read; a Doc
\* that was shared has nobody left to record it.
Throw(q, w) ==
  /\ w \in Busy(q)
  /\ WorkerGone(q, w)
  /\ slipped' = IF worker[q][w].at \in {"shared", "transfer", "insert"}
                THEN slipped \cup {worker[q][w].pupil} ELSE slipped
  /\ UNCHANGED <<work, docs, sends>>

\* Promise.all: every worker came to the end of the queue.
Answer(q) ==
  /\ release[q].at = "working"
  /\ Takes(q) = {} /\ Busy(q) = {}
  /\ release' = [release EXCEPT ![q].at = "answered"]
  /\ UNCHANGED <<work, docs, worker, sends, slipped>>

-----------------------------------------------------------------------------
(* Around the sends *)

\* The task stops: its sends and their workers, those of a failed request too,
\* are gone.
TaskStops(q) ==
  /\ release[q].at \in {"folders", "working"} \/ Running(q)
  /\ slipped' = slipped \cup
       {worker[q][w].pupil :
          w \in {w \in Busy(q) : worker[q][w].at \in {"shared", "transfer", "insert"}}}
  /\ release' = [release EXCEPT ![q] = [Resting EXCEPT !.at = "answered", !.threw = TRUE]]
  /\ worker' = [worker EXCEPT ![q] = [w \in Workers |-> Unemployed]]
  /\ UNCHANGED <<work, docs, sends>>

\* Students hand in and are passed back; alerts are raised and acknowledged.
WorkChanges(p) ==
  /\ changes < MaxChanges /\ changes' = changes + 1
  /\ \/ handedIn' = (handedIn \ {p}) \cup ({p} \ handedIn) /\ UNCHANGED alerted
     \/ alerted' = (alerted \ {p}) \cup ({p} \ alerted) /\ UNCHANGED handedIn
  /\ UNCHANGED <<docs, release, worker, sends, slipped>>

-----------------------------------------------------------------------------
ReleaseInit ==
  /\ handedIn = Pupils /\ alerted = {} /\ changes = 0
  /\ docs = <<>> /\ sends = 0 /\ slipped = {}
  /\ release = [q \in Releases |-> Resting]
  /\ worker = [q \in Releases |-> [w \in Workers |-> Unemployed]]

ReleaseNext ==
  \/ \E q \in Releases :
       \/ \E choice \in Choices : Decide(q, choice)
       \/ Folders(q) \/ Answer(q) \/ TaskStops(q)
       \/ \E w \in Workers :
            \/ Upload(q, w) \/ Share(q, w) \/ ShareAnswered(q, w)
            \/ Transfer(q, w) \/ InsertRelease(q, w) \/ Throw(q, w)
            \/ \E p \in Pupils : TakeJob(q, w, p)
  \/ \E p \in Pupils : WorkChanges(p)

ReleaseSpec == ReleaseInit /\ [][ReleaseNext]_releaseVars

-----------------------------------------------------------------------------
(* Properties *)

\* The Docs, the sends and their workers have the types they model.
ReleaseTypeOK ==
  /\ handedIn \subseteq Pupils /\ alerted \subseteq Pupils /\ slipped \subseteq Pupils
  /\ docs \in Seq(Doc) /\ Len(docs) <= MaxDocs
  /\ release \in [Releases -> Release]
  /\ worker \in [Releases -> [Workers -> Worker]]
  /\ sends \in 0..MaxSends /\ changes \in 0..MaxChanges

SkipsOnly == \A choice \in Choices : choice.mode = "skip"
Given(p) == DocsOf(p, {"shared", "recorded"})

\* Resuming in the mode that skips gives no student a second Doc by any other
\* way than the two of `slipped`: the student was given one that nothing was
\* left to record (the share was not answered, its worker failed or the task
\* stopped), or two sends had the student in hand at once.  In particular not
\* after a refused token, a failed transfer, a record whose answer was lost, a
\* failed request whose other workers carried on, or a hand-in in between.
NoSecondDoc == SkipsOnly => \A p \in Pupils \ slipped : Cardinality(Given(p)) <= 1

\* What the page is told of the resumed send, whose skipping "keeps the next
\* press from duplicating" Docs: one Doc a student at most.  The code does not
\* keep it even for sends one after the other: see ShareAnswered.
SkipDuplicatesNothing == SkipsOnly => \A p \in Pupils : Cardinality(Given(p)) <= 1

\* The answer of a send that did not fail accounts for the whole class: every
\* student has one outcome, who is reported sent has a Doc of theirs on
\* record, and a student skipped for the refused token comes with the answer
\* that makes the page authorize again.
EveryPupilIsAnswered ==
  \A q \in Releases :
    release[q].at = "answered" /\ ~release[q].threw =>
      \A p \in Pupils :
        /\ release[q].outcome[p] # "none"
        /\ release[q].outcome[p] = "sent" =>
             \E d \in DocsOf(p, {"recorded"}) : docs[d].by = release[q].no
        /\ release[q].outcome[p] = "auth" => release[q].authLost

=============================================================================
