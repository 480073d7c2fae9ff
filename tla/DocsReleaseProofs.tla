------------------------- MODULE DocsReleaseProofs -------------------------
(***************************************************************************)
(* Proofs about DocsRelease, for every value of its constants: a send that  *)
(* did not fail accounts for the whole class, and sends that skip whoever   *)
(* has a Doc share a second one with a student only after a slip: a Doc     *)
(* shared that nobody is left to record, or two sends with one student.     *)
(*                                                                          *)
(* The invariant DocsInv is the types; of every send, where each student    *)
(* is (Told) and what each worker has in hand (Job); that no two workers    *)
(* have the same Doc; and, when every send skips, that a student who has    *)
(* not slipped is in one hand and has one Doc at most (Kept).               *)
(***************************************************************************)
EXTENDS DocsRelease, SequenceTheorems, FiniteSetTheorems, TLAPS

-----------------------------------------------------------------------------
(* the invariant *)

HasDoc == {"share", "shared", "transfer", "insert"}
AtWork == {"upload"} \cup HasDoc
Holds(q, w, p) == worker[q][w].at \in AtWork /\ worker[q][w].pupil = p
Waits(q, p) == p \in release[q].queue /\ \E w \in Workers : worker[q][w].at # "gone"

\* A worker's job, its Doc, and the send both are of.
Job(q, w) ==
  /\ worker[q][w].at \in AtWork =>
       /\ worker[q][w].pupil \in Pupils
       /\ release[q].no # 0 /\ release[q].at \in {"working", "answered"}
  /\ worker[q][w].at \in HasDoc =>
       /\ worker[q][w].doc \in DOMAIN docs
       /\ docs[worker[q][w].doc].pupil = worker[q][w].pupil
       /\ docs[worker[q][w].doc].by = release[q].no
       /\ docs[worker[q][w].doc].stage = IF worker[q][w].at = "share" THEN "uploaded" ELSE "shared"

\* No two workers have the same Doc.
OwnDocs ==
  \A q, o \in Releases : \A w, v \in Workers :
    worker[q][w].at \in HasDoc /\ worker[o][v].at \in HasDoc /\ worker[q][w].doc = worker[o][v].doc
    => q = o /\ w = v

\* A student of a send that did not fail has an outcome, waits, or is with a
\* worker; the outcomes are so.
Told(q) ==
  /\ release[q].queue # {} => release[q].no # 0
  /\ release[q].at = "answered" /\ ~release[q].threw =>
       release[q].queue = {} /\ \A w \in Workers : worker[q][w].at \notin AtWork
  /\ release[q].at # "idle" /\ ~release[q].threw =>
       \A p \in Pupils : \/ release[q].outcome[p] # "none"
                         \/ p \in release[q].queue
                         \/ \E w \in Workers : Holds(q, w, p)
  /\ \A p \in Pupils :
       /\ release[q].outcome[p] = "sent" =>
            \E d \in DocsOf(p, {"recorded"}) : docs[d].by = release[q].no
       /\ release[q].outcome[p] = "auth" => release[q].authLost

\* A student is in one hand: one queue, or one worker.
InOneHand(p) ==
  /\ \A q, o \in Releases : Waits(q, p) /\ Waits(o, p) => q = o
  /\ \A q, o \in Releases : \A w \in Workers : ~(Waits(q, p) /\ Holds(o, w, p))
  /\ \A q, o \in Releases : \A w, v \in Workers : Holds(q, w, p) /\ Holds(o, v, p) => q = o /\ w = v

\* A student has one Doc, none before a worker shares it, and one shared but
\* not recorded is still with its worker.
OneDoc(p) ==
  /\ \A d, e \in Given(p) : d = e
  /\ \A q \in Releases : Waits(q, p) => Given(p) = {}
  /\ \A q \in Releases : \A w \in Workers :
       Holds(q, w, p) /\ worker[q][w].at \in {"upload", "share"} => Given(p) = {}
  /\ \A d \in DocsOf(p, {"shared"}) : \E q \in Releases : \E w \in Workers :
       worker[q][w].at \in {"shared", "transfer", "insert"} /\ worker[q][w].doc = d

Kept == \A p \in Pupils \ slipped : InOneHand(p) /\ OneDoc(p)

DocsInv ==
  /\ ReleaseTypeOK
  /\ \A q \in Releases : Told(q) /\ \A w \in Workers : Job(q, w)
  /\ OwnDocs
  /\ SkipsOnly => Kept

-----------------------------------------------------------------------------
(* what a step changes *)

\* A worker's step, its send's row included.
Moves(q, w, r, x) ==
  release' = [release EXCEPT ![q] = r] /\ worker' = [worker EXCEPT ![q][w] = x]

\* The Docs after it: only the worker's own may have changed, and only its stage.
DocsGo(q, w) ==
  /\ docs' \in Seq(Doc) /\ Len(docs') <= MaxDocs
  /\ \A d \in DOMAIN docs :
       /\ d \in DOMAIN docs' /\ docs'[d].pupil = docs[d].pupil /\ docs'[d].by = docs[d].by
       /\ \/ docs'[d].stage = docs[d].stage
          \/ worker[q][w].at \in HasDoc /\ d = worker[q][w].doc

\* What the list of Docs is.
LEMMA DocsAre ==
  ASSUME ReleaseTypeOK
  PROVE  /\ Len(docs) \in 0..MaxDocs /\ DOMAIN docs = 1..Len(docs)
         /\ \A d \in DOMAIN docs : docs[d] \in Doc /\ d \in 1..MaxDocs
<1>1. Len(docs) \in Nat /\ DOMAIN docs = 1..Len(docs) /\ docs \in [1..Len(docs) -> Doc]
  BY LenProperties DEF ReleaseTypeOK
<1> QED
  BY <1>1, ReleaseAssumption DEF ReleaseTypeOK

\* The rows of the sends and the workers, before a step and after it.
LEMMA Cells ==
  ASSUME ReleaseTypeOK, NEW q \in Releases, NEW w \in Workers,
         NEW r \in Release, NEW x \in Worker, Moves(q, w, r, x)
  PROVE  /\ release' \in [Releases -> Release] /\ worker' \in [Releases -> [Workers -> Worker]]
         /\ release'[q] = r /\ worker'[q][w] = x
         /\ \A o \in Releases \ {q} : release'[o] = release[o]
         /\ \A o \in Releases : \A v \in Workers :
              o # q \/ v # w => worker'[o][v] = worker[o][v]
  BY DEF ReleaseTypeOK, Moves

\* A worker's step leaves the other workers, and the other sends, as they were.
LEMMA OthersStay ==
  ASSUME DocsInv, NEW q \in Releases, NEW w \in Workers,
         NEW r \in Release, NEW x \in Worker, Moves(q, w, r, x), DocsGo(q, w),
         r.no = release[q].no, r.at \in {release[q].at, "answered"}
  PROVE  /\ \A o \in Releases \ {q} : Told(o)'
         /\ \A o \in Releases : \A v \in Workers : o # q \/ v # w => Job(o, v)'
<1>1. /\ release'[q] = r /\ \A o \in Releases \ {q} : release'[o] = release[o]
      /\ \A o \in Releases : \A v \in Workers :
           o # q \/ v # w => worker'[o][v] = worker[o][v]
  BY Cells DEF DocsInv
<1>2. \A d \in DOMAIN docs : docs[d].stage = "recorded" => docs'[d].stage = "recorded"
  BY DEF DocsInv, Job, DocsGo
<1>3. ASSUME NEW o \in Releases \ {q} PROVE Told(o)'
  <2>1. \A p \in Pupils : \A v \in Workers : Holds(o, v, p) => Holds(o, v, p)'
    BY <1>1, <1>3 DEF Holds
  <2>2. \A p \in Pupils : \A d \in DocsOf(p, {"recorded"}) :
          d \in DocsOf(p, {"recorded"})' /\ docs'[d].by = docs[d].by
    BY <1>2 DEF DocsOf, DocsGo
  <2>3. Told(o)
    BY DEF DocsInv
  <2> QED
    BY <1>1, <1>3, <2>1, <2>2, <2>3 DEF Told
<1>4. ASSUME NEW o \in Releases, NEW v \in Workers, o # q \/ v # w PROVE Job(o, v)'
  <2>1. Job(o, v)
    BY DEF DocsInv
  <2>2. worker'[o][v] = worker[o][v]
    BY <1>1, <1>4
  <2>3. release'[o].no = release[o].no /\ release'[o].at \in {release[o].at, "answered"}
    BY <1>1
  <2>4. worker[o][v].at \in HasDoc /\ worker[q][w].at \in HasDoc =>
          worker[o][v].doc # worker[q][w].doc
    BY <1>4 DEF DocsInv, OwnDocs
  <2> QED
    BY <2>1, <2>2, <2>3, <2>4 DEF Job, DocsGo
<1> QED
  BY <1>3, <1>4

\* A worker that has a Doc had it before, or it is a new one.
LEMMA OwnDocsStay ==
  ASSUME DocsInv, NEW q \in Releases, NEW w \in Workers,
         NEW r \in Release, NEW x \in Worker, Moves(q, w, r, x),
         x.at \in HasDoc => \/ worker[q][w].at \in HasDoc /\ x.doc = worker[q][w].doc
                            \/ x.doc \notin DOMAIN docs
  PROVE  OwnDocs'
<1>1. /\ worker'[q][w] = x
      /\ \A o \in Releases : \A v \in Workers :
           o # q \/ v # w => worker'[o][v] = worker[o][v]
  BY Cells DEF DocsInv
<1>2. \A o \in Releases : \A v \in Workers :
        worker[o][v].at \in HasDoc => worker[o][v].doc \in DOMAIN docs
  BY DEF DocsInv, Job
<1>3. ASSUME NEW o \in Releases, NEW v \in Workers, o # q \/ v # w,
             worker'[o][v].at \in HasDoc, x.at \in HasDoc
      PROVE  worker'[o][v].doc # x.doc
  BY <1>1, <1>2, <1>3 DEF DocsInv, OwnDocs
<1> SUFFICES ASSUME NEW o \in Releases, NEW u \in Releases, NEW v \in Workers, NEW y \in Workers,
                    worker'[o][v].at \in HasDoc, worker'[u][y].at \in HasDoc,
                    worker'[o][v].doc = worker'[u][y].doc
             PROVE  o = u /\ v = y
  BY DEF OwnDocs
<1>4. CASE (o = q /\ v = w) \/ (u = q /\ y = w)
  BY <1>1, <1>3, <1>4
<1>5. CASE (o # q \/ v # w) /\ (u # q \/ y # w)
  BY <1>1, <1>5 DEF DocsInv, OwnDocs
<1> QED
  BY <1>4, <1>5

\* Nobody of the worker's send is forgotten.
LEMMA ToldStays ==
  ASSUME DocsInv, NEW q \in Releases, NEW w \in Workers,
         NEW r \in Release, NEW x \in Worker, Moves(q, w, r, x), DocsGo(q, w),
         r.no = release[q].no, r.at = release[q].at, r.threw = release[q].threw,
         r.queue \subseteq release[q].queue,
         release[q].queue # {} \/ worker[q][w].at \in AtWork,
         \A p \in Pupils : \/ r.outcome[p] # "none"
                           \/ /\ release[q].outcome[p] = "none"
                              /\ p \in release[q].queue => p \in r.queue
                              /\ Holds(q, w, p) => x.at \in AtWork /\ x.pupil = p
                           \/ x.at \in AtWork /\ x.pupil = p,
         \A p \in Pupils : r.outcome[p] = "sent" =>
           \/ release[q].outcome[p] = "sent"
           \/ \E d \in DocsOf(p, {"recorded"})' : docs'[d].by = r.no,
         \A p \in Pupils : r.outcome[p] = "auth" => r.authLost
  PROVE  Told(q)'
<1>1. /\ release'[q] = r /\ worker'[q][w] = x
      /\ \A v \in Workers : v # w => worker'[q][v] = worker[q][v]
  BY Cells DEF DocsInv
<1>2. Told(q)
  BY DEF DocsInv
<1>3. ~(r.at = "answered" /\ ~r.threw)
  BY <1>2 DEF Told
<1>4. ASSUME NEW p \in Pupils, r.at # "idle", ~r.threw
      PROVE  r.outcome[p] # "none" \/ p \in r.queue \/ \E v \in Workers : Holds(q, v, p)'
  <2>1. CASE x.at \in AtWork /\ x.pupil = p
    BY <1>1, <2>1 DEF Holds
  <2>2. CASE /\ release[q].outcome[p] = "none" /\ (p \in release[q].queue => p \in r.queue)
             /\ Holds(q, w, p) => x.at \in AtWork /\ x.pupil = p
    BY <1>1, <1>2, <1>4, <2>2 DEF Told, Holds
  <2> QED
    BY <2>1, <2>2
<1>5. ASSUME NEW p \in Pupils, r.outcome[p] = "sent"
      PROVE  \E d \in DocsOf(p, {"recorded"})' : docs'[d].by = r.no
  <2>1. CASE release[q].outcome[p] = "sent"
    <3>1. PICK d \in DocsOf(p, {"recorded"}) : docs[d].by = release[q].no
      BY <1>2, <2>1 DEF Told
    <3>2. d \in DocsOf(p, {"recorded"})' /\ docs'[d].by = docs[d].by
      BY <3>1 DEF DocsOf, DocsGo, DocsInv, Job
    <3> QED
      BY <3>1, <3>2
  <2> QED
    BY <1>5, <2>1
<1> QED
  BY <1>1, <1>2, <1>3, <1>4, <1>5 DEF Told

\* A student stays in one hand when a worker takes nobody it does not take from
\* the queue.
LEMMA HandsStay ==
  ASSUME DocsInv, NEW q \in Releases, NEW w \in Workers,
         NEW r \in Release, NEW x \in Worker, Moves(q, w, r, x),
         r.queue \subseteq release[q].queue, worker[q][w].at # "gone",
         x.at \in AtWork => \/ worker[q][w].at \in AtWork /\ x.pupil = worker[q][w].pupil
                            \/ x.pupil \in release[q].queue /\ x.pupil \notin r.queue,
         NEW p \in Pupils, InOneHand(p)
  PROVE  /\ InOneHand(p)'
         /\ \A o \in Releases : Waits(o, p)' => Waits(o, p)
         /\ Waits(q, p)' => p \in r.queue
         /\ x.at \in AtWork /\ x.pupil = p => Waits(q, p) \/ Holds(q, w, p)
<1>1. /\ release'[q] = r /\ worker'[q][w] = x
      /\ \A o \in Releases \ {q} : release'[o] = release[o]
      /\ \A o \in Releases : \A v \in Workers :
           o # q \/ v # w => worker'[o][v] = worker[o][v]
  BY Cells DEF DocsInv
<1>2. \A o \in Releases : Waits(o, p)' => Waits(o, p) /\ (o = q => p \in r.queue)
  <2> SUFFICES ASSUME NEW o \in Releases, Waits(o, p)' PROVE Waits(o, p) /\ (o = q => p \in r.queue)
    OBVIOUS
  <2>1. CASE o = q
    BY <1>1, <2>1 DEF Waits
  <2>2. CASE o # q
    BY <1>1, <2>2 DEF Waits
  <2> QED
    BY <2>1, <2>2
<1>3. \A o \in Releases : \A v \in Workers :
        Holds(o, v, p)' /\ (o # q \/ v # w) => Holds(o, v, p)
  BY <1>1 DEF Holds
<1>4. Holds(q, w, p)' => Holds(q, w, p) \/ (Waits(q, p) /\ ~Waits(q, p)')
  BY <1>1, <1>2 DEF Holds, Waits
<1>5. ASSUME NEW o \in Releases, NEW u \in Releases, Waits(o, p)', Waits(u, p)' PROVE o = u
  BY <1>2, <1>5 DEF InOneHand
<1>6. ASSUME NEW o \in Releases, NEW u \in Releases, NEW v \in Workers,
             Waits(o, p)', Holds(u, v, p)'
      PROVE  FALSE
  BY <1>2, <1>3, <1>4, <1>6 DEF InOneHand
<1>7. ASSUME NEW o \in Releases, NEW u \in Releases, NEW v \in Workers, NEW y \in Workers,
             Holds(o, v, p)', Holds(u, y, p)'
      PROVE  o = u /\ v = y
  BY <1>3, <1>4, <1>7 DEF InOneHand
<1>8. x.at \in AtWork /\ x.pupil = p => Waits(q, p) \/ Holds(q, w, p)
  BY DEF Waits, Holds
<1> QED
  BY <1>2, <1>5, <1>6, <1>7, <1>8 DEF InOneHand

\* A step that shares and records nothing of a student's, and loses no Doc
\* shared with them.
LEMMA DocStays ==
  ASSUME DocsInv, NEW q \in Releases, NEW w \in Workers,
         NEW r \in Release, NEW x \in Worker, Moves(q, w, r, x),
         NEW p \in Pupils, OneDoc(p),
         \A o \in Releases : Waits(o, p)' => Waits(o, p),
         x.at \in {"upload", "share"} /\ x.pupil = p =>
           Waits(q, p) \/ (Holds(q, w, p) /\ worker[q][w].at \in {"upload", "share"}),
         worker[q][w].at \in {"shared", "transfer", "insert"} =>
           \/ worker[q][w].pupil # p
           \/ x.at \in {"shared", "transfer", "insert"} /\ x.doc = worker[q][w].doc,
         \A stages \in {{"shared", "recorded"}, {"shared"}} : DocsOf(p, stages)' = DocsOf(p, stages)
  PROVE  OneDoc(p)'
<1>1. /\ worker'[q][w] = x
      /\ \A o \in Releases : \A v \in Workers :
           o # q \/ v # w => worker'[o][v] = worker[o][v]
  BY Cells DEF DocsInv
<1>2. Given(p)' = Given(p) /\ DocsOf(p, {"shared"})' = DocsOf(p, {"shared"})
  BY DEF Given
<1>3. ASSUME NEW o \in Releases, NEW v \in Workers,
             Holds(o, v, p)', worker'[o][v].at \in {"upload", "share"}
      PROVE  Given(p) = {}
  BY <1>1, <1>3 DEF OneDoc, Holds
<1>4. ASSUME NEW d \in DocsOf(p, {"shared"})
      PROVE  \E o \in Releases : \E v \in Workers :
               worker'[o][v].at \in {"shared", "transfer", "insert"} /\ worker'[o][v].doc = d
  <2>1. PICK o \in Releases, v \in Workers :
          worker[o][v].at \in {"shared", "transfer", "insert"} /\ worker[o][v].doc = d
    BY DEF OneDoc
  <2>2. worker'[o][v].at \in {"shared", "transfer", "insert"} /\ worker'[o][v].doc = d
    <3>1. Job(o, v) /\ docs[d].pupil = p
      BY DEF DocsInv, DocsOf
    <3>2. worker[o][v].pupil = p
      BY <2>1, <3>1 DEF Job, HasDoc
    <3> QED
      BY <1>1, <2>1, <3>2
  <2> QED
    BY <2>2
<1> QED
  BY <1>2, <1>3, <1>4 DEF OneDoc

\* A worker's step keeps the invariant, if it does for the worker itself, its
\* send, and the student it is about.
LEMMA WorkerStep ==
  ASSUME DocsInv, NEW q \in Releases, NEW w \in Workers,
         NEW r \in Release, NEW x \in Worker, Moves(q, w, r, x), DocsGo(q, w),
         UNCHANGED <<work, sends>>, slipped \subseteq slipped', slipped' \ slipped \subseteq Pupils,
         r.no = release[q].no, r.at \in {release[q].at, "answered"}, Told(q)', Job(q, w)',
         x.at \in HasDoc => \/ worker[q][w].at \in HasDoc /\ x.doc = worker[q][w].doc
                            \/ x.doc \notin DOMAIN docs,
         \A p \in Pupils \ slipped' :
           InOneHand(p) /\ OneDoc(p) => InOneHand(p)' /\ OneDoc(p)'
  PROVE  DocsInv'
<1>1. ReleaseTypeOK'
  BY Cells DEF DocsInv, ReleaseTypeOK, DocsGo, work
<1>2. \A o \in Releases : Told(o)' /\ \A v \in Workers : Job(o, v)'
  BY OthersStay
<1>3. OwnDocs'
  BY OwnDocsStay
<1>4. SkipsOnly => Kept'
  BY DEF DocsInv, Kept
<1> QED
  BY <1>1, <1>2, <1>3, <1>4 DEF DocsInv, SkipsOnly

\* What a worker's step starts from.
LEMMA AtHand ==
  ASSUME DocsInv, NEW q \in Releases, NEW w \in Workers
  PROVE  /\ release[q] \in Release /\ worker[q][w] \in Worker /\ Unemployed \in Worker
         /\ Told(q) /\ Job(q, w)
         /\ [release EXCEPT ![q] = release[q]] = release
         /\ [worker EXCEPT ![q][w] = worker[q][w]] = worker
<1>1. release[q] \in Release /\ worker[q][w] \in Worker
  BY DEF DocsInv, ReleaseTypeOK
<1>2. Unemployed \in Worker
  BY ReleaseAssumption DEF Unemployed, Worker
<1>3. Told(q) /\ Job(q, w)
  BY DEF DocsInv
<1>4. /\ [release EXCEPT ![q] = release[q]] = release
      /\ [worker EXCEPT ![q][w] = worker[q][w]] = worker
  BY DEF DocsInv, ReleaseTypeOK
<1> QED
  BY <1>1, <1>2, <1>3, <1>4

\* Docs left alone.
LEMMA DocsAlone ==
  ASSUME DocsInv, UNCHANGED docs
  PROVE  /\ \A q \in Releases : \A w \in Workers : DocsGo(q, w)
         /\ \A p \in Pupils : \A stages : DocsOf(p, stages)' = DocsOf(p, stages)
  BY DEF DocsInv, ReleaseTypeOK, DocsGo, DocsOf

\* A row of a send with one outcome more, and perhaps the token gone.
Reports(q, r, p, how) ==
  /\ r.no = release[q].no /\ r.at = release[q].at /\ r.threw = release[q].threw
  /\ r.outcome = [release[q].outcome EXCEPT ![p] = how]
  /\ release[q].authLost \/ how = "auth" => r.authLost

\* The next job, skipped if the token was refused.
LEMMA TakeJobKept ==
  ASSUME DocsInv, NEW q \in Releases, NEW w \in Workers, NEW p \in Pupils, TakeJob(q, w, p)
  PROVE  DocsInv'
<1>1. /\ release[q] \in Release /\ worker[q][w] \in Worker /\ Told(q)
      /\ [worker EXCEPT ![q][w] = worker[q][w]] = worker
  BY AtHand
<1>2. /\ worker[q][w].at = "idle" /\ p \in release[q].queue
      /\ release[q].at \in {"working", "answered"} /\ release[q].no # 0
      /\ UNCHANGED <<docs, work, sends, slipped>>
  BY <1>1 DEF TakeJob, Takes, Told
<1>3. PICK r \in Release, x \in Worker :
        /\ Moves(q, w, r, x)
        /\ r.queue = release[q].queue \ {p}
        /\ \/ release[q].authLost /\ Reports(q, r, p, "auth") /\ x = worker[q][w]
           \/ /\ r.no = release[q].no /\ r.at = release[q].at /\ r.threw = release[q].threw
              /\ r.outcome = release[q].outcome /\ r.authLost = release[q].authLost
              /\ x.at = "upload" /\ x.pupil = p
  <2>1. CASE release[q].authLost
    <3> DEFINE r == [release[q] EXCEPT !.queue = @ \ {p}, !.outcome[p] = "auth"]
    <3>1. /\ r \in Release /\ Reports(q, r, p, "auth") /\ r.queue = release[q].queue \ {p}
      <4>1. [release[q].outcome EXCEPT ![p] = "auth"] \in [Pupils -> Outcomes]
        BY <1>1 DEF Release, Outcomes
      <4> QED
        BY <1>1, <2>1, <4>1 DEF Release, Reports
    <3>2. release' = [release EXCEPT ![q] = r] /\ UNCHANGED worker
      BY <2>1 DEF TakeJob, DocsInv, ReleaseTypeOK
    <3> HIDE DEF r
    <3> QED
      BY <1>1, <2>1, <3>1, <3>2 DEF Moves
  <2>2. CASE ~release[q].authLost
    <3> DEFINE r == [release[q] EXCEPT !.queue = @ \ {p}]
               x == [worker[q][w] EXCEPT !.at = "upload", !.pupil = p]
    <3>1. /\ r \in Release /\ r.queue = release[q].queue \ {p}
          /\ r.no = release[q].no /\ r.at = release[q].at /\ r.threw = release[q].threw
          /\ r.outcome = release[q].outcome /\ r.authLost = release[q].authLost
      BY <1>1 DEF Release
    <3>2. x \in Worker /\ x.at = "upload" /\ x.pupil = p
      BY <1>1 DEF Worker
    <3>3. release' = [release EXCEPT ![q] = r] /\ worker' = [worker EXCEPT ![q][w] = x]
      BY <2>2 DEF TakeJob, DocsInv, ReleaseTypeOK
    <3> HIDE DEF r, x
    <3> QED
      BY <3>1, <3>2, <3>3 DEF Moves
  <2> QED
    BY <2>1, <2>2
<1>4. /\ release'[q] = r /\ worker'[q][w] = x
  BY <1>3, Cells DEF DocsInv
<1>5. /\ r.no = release[q].no /\ r.at = release[q].at /\ r.threw = release[q].threw
  BY <1>3 DEF Reports
<1>6. DocsGo(q, w)
  BY <1>2, DocsAlone
<1>7. Job(q, w)'
  BY <1>2, <1>3, <1>4, <1>5 DEF Job, AtWork, HasDoc
<1>8. Told(q)'
  <2>1. \A o \in Pupils : r.outcome[o] = IF r.outcome # release[q].outcome /\ o = p THEN "auth"
                                        ELSE release[q].outcome[o]
    BY <1>1, <1>3 DEF Reports, Release
  <2>2. \A o \in Pupils : \/ r.outcome[o] # "none"
                          \/ /\ release[q].outcome[o] = "none"
                             /\ o \in release[q].queue => o \in r.queue
                             /\ Holds(q, w, o) => x.at \in AtWork /\ x.pupil = o
                          \/ x.at \in AtWork /\ x.pupil = o
    <3>1. \A o \in Pupils : ~Holds(q, w, o)
      BY <1>2 DEF Holds, AtWork, HasDoc
    <3>2. CASE x.at = "upload" /\ x.pupil = p
      BY <1>3, <2>1, <3>1, <3>2 DEF AtWork, Reports
    <3>3. CASE Reports(q, r, p, "auth")
      <4>1. r.outcome[p] = "auth"
        BY <1>1, <3>3 DEF Reports, Release
      <4> QED
        BY <1>3, <2>1, <3>1, <4>1
    <3> QED
      BY <1>3, <3>2, <3>3
  <2>3. \A o \in Pupils : r.outcome[o] = "sent" => release[q].outcome[o] = "sent"
    BY <2>1
  <2>4. \A o \in Pupils : r.outcome[o] = "auth" => r.authLost
    BY <1>1, <1>3, <2>1 DEF Told, Reports
  <2> QED
    BY <1>2, <1>3, <1>5, <1>6, <2>2, <2>3, <2>4, ToldStays
<1>9. ASSUME NEW o \in Pupils, InOneHand(o), OneDoc(o) PROVE InOneHand(o)' /\ OneDoc(o)'
  <2>1. /\ InOneHand(o)' /\ \A u \in Releases : Waits(u, o)' => Waits(u, o)
        /\ x.at \in AtWork /\ x.pupil = o => Waits(q, o) \/ Holds(q, w, o)
    BY <1>2, <1>3, <1>9, HandsStay DEF AtWork, HasDoc
  <2>2. ~Holds(q, w, o)
    BY <1>2 DEF Holds, AtWork, HasDoc
  <2>3. \A stages \in {{"shared", "recorded"}, {"shared"}} : DocsOf(o, stages)' = DocsOf(o, stages)
    BY <1>2, DocsAlone
  <2>4. x.at \in {"upload", "share"} /\ x.pupil = o => Waits(q, o)
    BY <2>1, <2>2 DEF AtWork, HasDoc
  <2> QED
    BY <1>2, <1>3, <1>9, <2>1, <2>3, <2>4, DocStays
<1> QED
  BY <1>2, <1>3, <1>5, <1>6, <1>7, <1>8, <1>9, WorkerStep DEF HasDoc

\* A refused call: the student has an outcome and the worker is free; one that had
\* shared the Doc is a slip.
LEMMA RefuseKept ==
  ASSUME DocsInv, NEW q \in Releases, NEW w \in Workers,
         worker[q][w].at \in {"upload", "share", "shared"}, Refuse(q, w),
         UNCHANGED <<docs, work, sends>>,
         slipped' = slipped \/ slipped' = slipped \cup {worker[q][w].pupil},
         worker[q][w].at = "shared" => worker[q][w].pupil \in slipped'
  PROVE  DocsInv'
<1> DEFINE p == worker[q][w].pupil
           x == Unemployed
<1>1. /\ release[q] \in Release /\ Unemployed \in Worker /\ Told(q)
      /\ p \in Pupils /\ Unemployed.at = "idle"
  BY AtHand DEF Job, AtWork, HasDoc, Unemployed
<1>2. PICK r \in Release, how \in {"auth", "failed"} :
        Moves(q, w, r, x) /\ r.queue = release[q].queue /\ Reports(q, r, p, how)
  <2>1. PICK lost \in {release[q].authLost, TRUE}, how \in {"auth", "failed"} :
          /\ release' = [release EXCEPT ![q].authLost = lost, ![q].outcome[p] = how]
          /\ how = "auth" => lost
    <3>1. CASE release' = [release EXCEPT ![q].authLost = TRUE, ![q].outcome[p] = "auth"]
      BY <3>1
    <3>2. CASE release' = [release EXCEPT ![q].outcome[p] = "failed"]
      <4>1. [release[q] EXCEPT !.authLost = release[q].authLost] = release[q]
        BY <1>1 DEF Release
      <4>2. release' = [release EXCEPT ![q].authLost = release[q].authLost, ![q].outcome[p] = "failed"]
        BY <3>2, <4>1 DEF DocsInv, ReleaseTypeOK
      <4> QED
        BY <4>2
    <3> QED
      BY <3>1, <3>2 DEF Refuse
  <2> DEFINE r == [release[q] EXCEPT !.authLost = lost, !.outcome[p] = how]
  <2>2. r \in Release /\ r.queue = release[q].queue /\ Reports(q, r, p, how)
    <3>1. [release[q].outcome EXCEPT ![p] = how] \in [Pupils -> Outcomes] /\ lost \in BOOLEAN
      BY <1>1 DEF Release, Outcomes
    <3>2. release[q].authLost => lost
      BY <1>1 DEF Release
    <3> QED
      BY <1>1, <2>1, <3>1, <3>2 DEF Release, Reports
  <2>3. release' = [release EXCEPT ![q] = r]
    <3>1. release \in [Releases -> Release]
      BY DEF DocsInv, ReleaseTypeOK
    <3> QED
      BY <2>1, <3>1
  <2>4. worker' = [worker EXCEPT ![q][w] = x]
    BY DEF Refuse
  <2> HIDE DEF r
  <2> QED
    BY <2>2, <2>3, <2>4 DEF Moves
<1>3. /\ release'[q] = r /\ worker'[q][w] = x
  BY <1>1, <1>2, Cells DEF DocsInv
<1>4. DocsGo(q, w)
  BY DocsAlone
<1>5. Job(q, w)'
  BY <1>1, <1>3 DEF Job, AtWork, HasDoc
<1>6. \A o \in Pupils : r.outcome[o] = IF o = p THEN how ELSE release[q].outcome[o]
  BY <1>1, <1>2 DEF Reports, Release
<1>7. Told(q)'
  <2>1. worker[q][w].at \in AtWork
    BY DEF AtWork, HasDoc
  <2>2. \A o \in Pupils : \/ r.outcome[o] # "none"
                          \/ /\ release[q].outcome[o] = "none"
                             /\ o \in release[q].queue => o \in r.queue
                             /\ Holds(q, w, o) => x.at \in AtWork /\ x.pupil = o
                          \/ x.at \in AtWork /\ x.pupil = o
    BY <1>2, <1>6 DEF Holds
  <2>3. \A o \in Pupils : r.outcome[o] = "sent" => release[q].outcome[o] = "sent"
    BY <1>6
  <2>4. \A o \in Pupils : r.outcome[o] = "auth" => r.authLost
    BY <1>1, <1>2, <1>6 DEF Told, Reports
  <2>5. r.no = release[q].no /\ r.at = release[q].at /\ r.threw = release[q].threw
    BY <1>2 DEF Reports
  <2> HIDE DEF p, x
  <2> QED
    BY <1>1, <1>2, <1>4, <2>1, <2>2, <2>3, <2>4, <2>5, ToldStays DEF x
<1>8. ASSUME NEW o \in Pupils \ slipped', InOneHand(o), OneDoc(o) PROVE InOneHand(o)' /\ OneDoc(o)'
  <2>1. /\ InOneHand(o)' /\ \A u \in Releases : Waits(u, o)' => Waits(u, o)
    BY <1>1, <1>2, <1>8, HandsStay DEF AtWork, HasDoc
  <2>2. \A stages \in {{"shared", "recorded"}, {"shared"}} : DocsOf(o, stages)' = DocsOf(o, stages)
    BY DocsAlone
  <2>3. worker[q][w].at \in {"shared", "transfer", "insert"} => p # o
    BY <1>8
  <2> QED
    BY <1>1, <1>2, <1>8, <2>1, <2>2, <2>3, DocStays
<1>9. slipped \subseteq slipped' /\ slipped' \ slipped \subseteq Pupils
  BY <1>1
<1> QED
  BY <1>1, <1>2, <1>4, <1>5, <1>7, <1>8, <1>9, WorkerStep DEF Reports, HasDoc

\* A worker's step that reports nothing.
LEMMA QuietToldStays ==
  ASSUME DocsInv, NEW q \in Releases, NEW w \in Workers,
         NEW r \in Release, NEW x \in Worker, Moves(q, w, r, x), DocsGo(q, w),
         r.no = release[q].no, r.at = release[q].at, r.threw = release[q].threw,
         r.queue = release[q].queue, r.outcome = release[q].outcome,
         release[q].authLost => r.authLost,
         worker[q][w].at \in AtWork, x.at \in AtWork, x.pupil = worker[q][w].pupil
  PROVE  Told(q)'
<1>1. Told(q)
  BY AtHand
<1>2. \A p \in Pupils : \/ r.outcome[p] # "none"
                        \/ /\ release[q].outcome[p] = "none"
                           /\ p \in release[q].queue => p \in r.queue
                           /\ Holds(q, w, p) => x.at \in AtWork /\ x.pupil = p
                        \/ x.at \in AtWork /\ x.pupil = p
  BY DEF Holds
<1>3. \A p \in Pupils : r.outcome[p] = "auth" => r.authLost
  BY <1>1 DEF Told
<1> QED
  BY <1>2, <1>3, ToldStays

\* A Doc is made: nobody has it yet.
LEMMA UploadKept ==
  ASSUME DocsInv, NEW q \in Releases, NEW w \in Workers, Upload(q, w)
  PROVE  DocsInv'
<1>1. worker[q][w].at = "upload" /\ UNCHANGED <<work, sends, slipped>>
  BY DEF Upload
<1>2. CASE Refuse(q, w) /\ UNCHANGED docs
  BY <1>1, <1>2, RefuseKept
<1>3. CASE ~(Refuse(q, w) /\ UNCHANGED docs)
  <2> DEFINE d0 == Len(docs) + 1
             doc == [pupil |-> worker[q][w].pupil, by |-> release[q].no, stage |-> "uploaded"]
             x == [worker[q][w] EXCEPT !.at = "share", !.doc = d0]
  <2>1. /\ Len(docs) < MaxDocs /\ docs' = Append(docs, doc)
        /\ worker' = [worker EXCEPT ![q][w].at = "share", ![q][w].doc = d0]
        /\ UNCHANGED release
    BY <1>3 DEF Upload
  <2>2. /\ release[q] \in Release /\ worker[q][w] \in Worker /\ Job(q, w)
        /\ [release EXCEPT ![q] = release[q]] = release
    BY AtHand
  <2>3. /\ worker[q][w].pupil \in Pupils /\ release[q].no # 0
        /\ release[q].at \in {"working", "answered"}
    BY <1>1, <2>2 DEF Job, AtWork
  <2>4. /\ Len(docs) \in 0..MaxDocs /\ DOMAIN docs = 1..Len(docs) /\ docs \in Seq(Doc)
    BY DocsAre DEF DocsInv, ReleaseTypeOK
  <2>5. doc \in Doc
    BY <2>2, <2>3, ReleaseAssumption DEF Doc, Release
  <2>6. d0 \in 0..MaxDocs /\ d0 \notin DOMAIN docs
    BY <2>1, <2>4, ReleaseAssumption
  <2>7. /\ docs' \in Seq(Doc) /\ Len(docs') = d0 /\ docs'[d0] = doc
        /\ DOMAIN docs' = 1..d0 /\ \A d \in DOMAIN docs : docs'[d] = docs[d]
    <3> HIDE DEF doc
    <3>1. /\ docs' \in Seq(Doc) /\ Len(docs') = d0 /\ docs'[d0] = doc
          /\ \A d \in 1..Len(docs) : docs'[d] = docs[d]
      BY <2>1, <2>4, <2>5, AppendProperties
    <3> QED
      BY <2>4, <3>1, LenProperties
  <2>8. x \in Worker /\ x.at = "share" /\ x.doc = d0 /\ x.pupil = worker[q][w].pupil
    BY <2>2, <2>6 DEF Worker
  <2>9. Moves(q, w, release[q], x)
    <3>1. worker' = [worker EXCEPT ![q][w] = x]
      BY <2>1
    <3> HIDE DEF x
    <3> QED
      BY <2>1, <2>2, <3>1 DEF Moves
  <2>10. /\ doc.stage = "uploaded" /\ doc.by = release[q].no /\ doc.pupil = worker[q][w].pupil
    OBVIOUS
  <2> HIDE DEF x, doc
  <2>11. worker'[q][w] = x /\ release'[q] = release[q]
    BY <2>2, <2>8, <2>9, Cells DEF DocsInv
  <2>12. DocsGo(q, w)
    BY <2>1, <2>4, <2>6, <2>7 DEF DocsGo
  <2>13. Job(q, w)'
    BY <2>3, <2>4, <2>7, <2>8, <2>10, <2>11 DEF Job, AtWork, HasDoc
  <2>14. Told(q)'
    BY <1>1, <2>2, <2>8, <2>9, <2>12, QuietToldStays DEF AtWork, HasDoc
  <2>15. ASSUME NEW o \in Pupils, InOneHand(o), OneDoc(o) PROVE InOneHand(o)' /\ OneDoc(o)'
    <3>1. /\ InOneHand(o)' /\ \A u \in Releases : Waits(u, o)' => Waits(u, o)
      BY <1>1, <2>2, <2>8, <2>9, <2>15, HandsStay DEF AtWork, HasDoc
    <3>2. \A stages \in {{"shared", "recorded"}, {"shared"}} : DocsOf(o, stages)' = DocsOf(o, stages)
      <4>1. \A d \in DOMAIN docs' : d \in DOMAIN docs \/ d = d0
        BY <2>4, <2>7
      <4> QED
        BY <2>4, <2>6, <2>7, <2>10, <4>1 DEF DocsOf
    <3>3. x.at \in {"upload", "share"} /\ x.pupil = o =>
            Holds(q, w, o) /\ worker[q][w].at \in {"upload", "share"}
      BY <1>1, <2>8 DEF Holds, AtWork
    <3> QED
      BY <1>1, <2>2, <2>8, <2>9, <2>15, <3>1, <3>2, <3>3, DocStays
  <2> QED
    BY <1>1, <2>2, <2>6, <2>8, <2>9, <2>12, <2>13, <2>14, <2>15, WorkerStep
<1> QED
  BY <1>2, <1>3

\* A transfer is tried: the Doc stays shared, whatever came of it.
LEMMA TransferKept ==
  ASSUME DocsInv, NEW q \in Releases, NEW w \in Workers, Transfer(q, w)
  PROVE  DocsInv'
<1> DEFINE x == [worker[q][w] EXCEPT !.at = "insert"]
<1>1. worker[q][w].at = "transfer" /\ UNCHANGED <<docs, work, sends, slipped>>
  BY DEF Transfer
<1>2. /\ release[q] \in Release /\ worker[q][w] \in Worker /\ Job(q, w)
  BY AtHand
<1>3. PICK lost \in BOOLEAN : release' = [release EXCEPT ![q].authLost = @ \/ lost]
  BY DEF Transfer
<1> DEFINE r == [release[q] EXCEPT !.authLost = @ \/ lost]
<1>4. /\ r \in Release /\ r.no = release[q].no /\ r.at = release[q].at /\ r.threw = release[q].threw
      /\ r.queue = release[q].queue /\ r.outcome = release[q].outcome
  BY <1>2 DEF Release
<1>5. release[q].authLost => r.authLost
  BY <1>2 DEF Release
<1>6. x \in Worker /\ x.at = "insert" /\ x.doc = worker[q][w].doc /\ x.pupil = worker[q][w].pupil
  BY <1>2 DEF Worker
<1>7. Moves(q, w, r, x)
  BY <1>3 DEF Moves, Transfer
<1> HIDE DEF x, r
<1>8. worker'[q][w] = x /\ release'[q] = r
  BY <1>4, <1>6, <1>7, Cells DEF DocsInv
<1>9. DocsGo(q, w)
  BY <1>1, DocsAlone
<1>10. Job(q, w)'
  BY <1>1, <1>2, <1>4, <1>6, <1>8 DEF Job, AtWork, HasDoc
<1>11. Told(q)'
  BY <1>1, <1>4, <1>5, <1>6, <1>7, <1>9, QuietToldStays DEF AtWork, HasDoc
<1>12. ASSUME NEW o \in Pupils, InOneHand(o), OneDoc(o) PROVE InOneHand(o)' /\ OneDoc(o)'
  <2>1. /\ InOneHand(o)' /\ \A u \in Releases : Waits(u, o)' => Waits(u, o)
    BY <1>1, <1>4, <1>6, <1>7, <1>12, HandsStay DEF AtWork, HasDoc
  <2>2. \A stages \in {{"shared", "recorded"}, {"shared"}} : DocsOf(o, stages)' = DocsOf(o, stages)
    BY <1>1, DocsAlone
  <2> QED
    BY <1>1, <1>4, <1>6, <1>7, <1>12, <2>1, <2>2, DocStays
<1> QED
  BY <1>1, <1>4, <1>6, <1>7, <1>9, <1>10, <1>11, <1>12, WorkerStep DEF HasDoc

\* The share is answered: the worker goes on, or the Doc is a slip.
LEMMA ShareAnsweredKept ==
  ASSUME DocsInv, NEW q \in Releases, NEW w \in Workers, ShareAnswered(q, w)
  PROVE  DocsInv'
<1>1. worker[q][w].at = "shared" /\ UNCHANGED <<docs, work, sends>>
  BY DEF ShareAnswered
<1>2. CASE Refuse(q, w) /\ slipped' = slipped \cup {worker[q][w].pupil}
  BY <1>1, <1>2, RefuseKept
<1>3. CASE ~(Refuse(q, w) /\ slipped' = slipped \cup {worker[q][w].pupil})
  <2> DEFINE next == IF release[q].transfer THEN "transfer" ELSE "insert"
             x == [worker[q][w] EXCEPT !.at = next]
  <2>1. worker' = [worker EXCEPT ![q][w].at = next] /\ UNCHANGED <<release, slipped>>
    BY <1>3 DEF ShareAnswered, Proceed
  <2>2. /\ release[q] \in Release /\ worker[q][w] \in Worker /\ Job(q, w)
        /\ [release EXCEPT ![q] = release[q]] = release
    BY AtHand
  <2>3. next \in {"transfer", "insert"}
    OBVIOUS
  <2> HIDE DEF next
  <2>4. x \in Worker /\ x.at = next /\ x.doc = worker[q][w].doc /\ x.pupil = worker[q][w].pupil
    BY <2>2, <2>3 DEF Worker
  <2>5. Moves(q, w, release[q], x)
    BY <2>1, <2>2 DEF Moves
  <2> HIDE DEF x
  <2>6. worker'[q][w] = x /\ release'[q] = release[q]
    BY <2>2, <2>4, <2>5, Cells DEF DocsInv
  <2>7. DocsGo(q, w)
    BY <1>1, DocsAlone
  <2>8. Job(q, w)'
    BY <1>1, <2>2, <2>3, <2>4, <2>6 DEF Job, AtWork, HasDoc
  <2>9. Told(q)'
    BY <1>1, <2>2, <2>3, <2>4, <2>5, <2>7, QuietToldStays DEF AtWork, HasDoc
  <2>10. ASSUME NEW o \in Pupils, InOneHand(o), OneDoc(o) PROVE InOneHand(o)' /\ OneDoc(o)'
    <3>1. /\ InOneHand(o)' /\ \A u \in Releases : Waits(u, o)' => Waits(u, o)
      BY <1>1, <2>2, <2>3, <2>4, <2>5, <2>10, HandsStay DEF AtWork, HasDoc
    <3>2. \A stages \in {{"shared", "recorded"}, {"shared"}} : DocsOf(o, stages)' = DocsOf(o, stages)
      BY <1>1, DocsAlone
    <3> QED
      BY <1>1, <2>2, <2>3, <2>4, <2>5, <2>10, <3>1, <3>2, DocStays
  <2> QED
    BY <1>1, <2>1, <2>2, <2>3, <2>4, <2>5, <2>7, <2>8, <2>9, <2>10, WorkerStep DEF HasDoc
<1> QED
  BY <1>2, <1>3

\* A Doc moves to its next stage.
LEMMA Staged ==
  ASSUME DocsInv, NEW d0 \in DOMAIN docs, NEW stage \in {"uploaded", "shared", "recorded"},
         docs' = [docs EXCEPT ![d0].stage = stage]
  PROVE  /\ docs' \in Seq(Doc) /\ Len(docs') <= MaxDocs /\ DOMAIN docs' = DOMAIN docs
         /\ docs'[d0].stage = stage
         /\ docs'[d0].pupil = docs[d0].pupil /\ docs'[d0].by = docs[d0].by
         /\ \A d \in DOMAIN docs \ {d0} : docs'[d] = docs[d]
<1>1. /\ docs \in Seq(Doc) /\ Len(docs) <= MaxDocs /\ docs[d0] \in Doc
  BY DocsAre DEF DocsInv, ReleaseTypeOK
<1> DEFINE doc == [docs[d0] EXCEPT !.stage = stage]
<1>2. /\ doc \in Doc /\ doc.stage = stage /\ doc.pupil = docs[d0].pupil /\ doc.by = docs[d0].by
  BY <1>1 DEF Doc
<1>3. docs' = [docs EXCEPT ![d0] = doc]
  OBVIOUS
<1> HIDE DEF doc
<1>4. docs' \in Seq(Doc) /\ Len(docs') = Len(docs)
  BY <1>1, <1>2, <1>3, ExceptSeq, LenProperties
<1> QED
  BY <1>1, <1>2, <1>3, <1>4

\* A Doc is shared: the first of its student.
LEMMA ShareKept ==
  ASSUME DocsInv, NEW q \in Releases, NEW w \in Workers, Share(q, w)
  PROVE  DocsInv'
<1>1. worker[q][w].at = "share" /\ UNCHANGED <<work, sends, slipped>>
  BY DEF Share
<1>2. CASE Refuse(q, w) /\ UNCHANGED docs
  BY <1>1, <1>2, RefuseKept
<1>3. CASE ~(Refuse(q, w) /\ UNCHANGED docs)
  <2> DEFINE d0 == worker[q][w].doc
             next == "shared"
             x == [worker[q][w] EXCEPT !.at = next]
  <2>1. /\ docs' = [docs EXCEPT ![d0].stage = "shared"]
        /\ worker' = [worker EXCEPT ![q][w].at = next]
        /\ UNCHANGED release
    BY <1>3 DEF Share, Proceed
  <2>2. /\ release[q] \in Release /\ worker[q][w] \in Worker /\ Job(q, w)
        /\ [release EXCEPT ![q] = release[q]] = release
    BY AtHand
  <2>3. /\ d0 \in DOMAIN docs /\ docs[d0].pupil = worker[q][w].pupil
        /\ docs[d0].by = release[q].no /\ docs[d0].stage = "uploaded"
        /\ worker[q][w].pupil \in Pupils /\ release[q].no # 0
        /\ release[q].at \in {"working", "answered"}
    BY <1>1, <2>2 DEF Job, AtWork, HasDoc
  <2>4. next = "shared"
    OBVIOUS
  <2> HIDE DEF next
  <2>5. /\ x \in Worker /\ x.at = next /\ x.doc = d0 /\ x.pupil = worker[q][w].pupil
    BY <2>2, <2>4 DEF Worker
  <2>6. Moves(q, w, release[q], x)
    BY <2>1, <2>2 DEF Moves
  <2> HIDE DEF x, d0
  <2>7. worker'[q][w] = x /\ release'[q] = release[q]
    BY <2>2, <2>5, <2>6, Cells DEF DocsInv
  <2>8. /\ docs' \in Seq(Doc) /\ Len(docs') <= MaxDocs /\ DOMAIN docs' = DOMAIN docs
        /\ docs'[d0].stage = "shared"
        /\ docs'[d0].pupil = docs[d0].pupil /\ docs'[d0].by = docs[d0].by
        /\ \A d \in DOMAIN docs \ {d0} : docs'[d] = docs[d]
    BY <2>1, <2>3, Staged
  <2>9. DocsGo(q, w)
    BY <1>1, <2>8 DEF DocsGo, HasDoc, d0
  <2>10. Job(q, w)'
    BY <2>3, <2>4, <2>5, <2>7, <2>8 DEF Job, AtWork, HasDoc
  <2>11. Told(q)'
    BY <1>1, <2>2, <2>4, <2>5, <2>6, <2>9, QuietToldStays DEF AtWork, HasDoc
  <2>12. ASSUME NEW o \in Pupils, InOneHand(o), OneDoc(o) PROVE InOneHand(o)' /\ OneDoc(o)'
    <3>1. /\ InOneHand(o)' /\ \A u \in Releases : Waits(u, o)' => Waits(u, o)
      BY <1>1, <2>2, <2>4, <2>5, <2>6, <2>12, HandsStay DEF AtWork, HasDoc
    <3>2. CASE o # worker[q][w].pupil
      <4>1. \A stages \in {{"shared", "recorded"}, {"shared"}} : DocsOf(o, stages)' = DocsOf(o, stages)
        BY <2>3, <2>8, <3>2 DEF DocsOf
      <4> QED
        BY <1>1, <2>2, <2>4, <2>5, <2>6, <2>12, <3>1, <4>1, DocStays
    <3>3. CASE o = worker[q][w].pupil
      <4>1. Holds(q, w, o) /\ Given(o) = {}
        BY <1>1, <2>12, <3>3 DEF Holds, AtWork, HasDoc, OneDoc
      <4>2. Given(o)' = {d0} /\ DocsOf(o, {"shared"})' = {d0}
        BY <2>3, <2>8, <3>3, <4>1 DEF Given, DocsOf
      <4>3. \A u \in Releases : ~Waits(u, o)'
        BY <2>12, <3>1, <4>1 DEF InOneHand
      <4>4. Holds(q, w, o)'
        BY <2>4, <2>5, <2>7, <3>3 DEF Holds, AtWork, HasDoc
      <4>5. ASSUME NEW u \in Releases, NEW v \in Workers,
                   Holds(u, v, o)', worker'[u][v].at \in {"upload", "share"}
            PROVE  FALSE
        <5>1. u = q /\ v = w
          BY <3>1, <4>4, <4>5 DEF InOneHand
        <5> QED
          BY <2>4, <2>5, <2>7, <4>5, <5>1
      <4>6. worker'[q][w].at \in {"shared", "transfer", "insert"} /\ worker'[q][w].doc = d0
        BY <2>4, <2>5, <2>7
      <4> QED
        BY <3>1, <4>2, <4>3, <4>5, <4>6 DEF OneDoc
    <3> QED
      BY <3>2, <3>3
  <2> QED
    BY <1>1, <2>2, <2>5, <2>6, <2>9, <2>10, <2>11, <2>12, WorkerStep DEF HasDoc, d0
<1> QED
  BY <1>2, <1>3

\* The row of a send one of whose workers is gone.
GoneRow(q, r) ==
  /\ r.no = release[q].no /\ r.queue = release[q].queue /\ r.outcome = release[q].outcome
  /\ r.authLost = release[q].authLost /\ r.threw = TRUE /\ r.at = "answered"

LEMMA GoneMoves ==
  ASSUME DocsInv, NEW q \in Releases, NEW w \in Workers, WorkerGone(q, w)
  PROVE  \E r \in Release, x \in Worker : Moves(q, w, r, x) /\ x.at = "gone" /\ GoneRow(q, r)
<1> DEFINE r == [release[q] EXCEPT !.threw = TRUE, !.at = "answered"]
           x == [Unemployed EXCEPT !.at = "gone"]
<1>1. release[q] \in Release /\ Unemployed \in Worker
  BY AtHand
<1>2. r \in Release /\ GoneRow(q, r)
  BY <1>1 DEF Release, GoneRow
<1>3. x \in Worker /\ x.at = "gone"
  BY <1>1 DEF Worker
<1>4. Moves(q, w, r, x)
  BY DEF WorkerGone, Moves, DocsInv, ReleaseTypeOK
<1> HIDE DEF r, x
<1> QED
  BY <1>2, <1>3, <1>4

\* A Doc is recorded: the same Doc, and the student is told.
LEMMA InsertKept ==
  ASSUME DocsInv, NEW q \in Releases, NEW w \in Workers, InsertRelease(q, w)
  PROVE  DocsInv'
<1> DEFINE d0 == worker[q][w].doc
           p == worker[q][w].pupil
<1>1. worker[q][w].at = "insert" /\ UNCHANGED <<work, sends, slipped>>
  BY DEF InsertRelease
<1>2. /\ release[q] \in Release /\ worker[q][w] \in Worker /\ Job(q, w) /\ Told(q)
      /\ Unemployed \in Worker /\ Unemployed.at = "idle"
  BY AtHand DEF Unemployed
<1>3. /\ d0 \in DOMAIN docs /\ docs[d0].pupil = p
      /\ docs[d0].by = release[q].no /\ docs[d0].stage = "shared" /\ p \in Pupils
  BY <1>1, <1>2 DEF Job, AtWork, HasDoc
<1>4. PICK r \in Release, x \in Worker :
        /\ Moves(q, w, r, x) /\ x.at \in {"idle", "gone"}
        /\ r.queue = release[q].queue /\ r.no = release[q].no /\ r.authLost = release[q].authLost
        /\ \/ /\ r.at = release[q].at /\ r.threw = release[q].threw
              /\ \A o \in Pupils : r.outcome[o] = IF o = p THEN "sent" ELSE release[q].outcome[o]
           \/ r.at = "answered" /\ r.threw = TRUE /\ r.outcome = release[q].outcome
  <2>1. CASE WorkerGone(q, w)
    <3>1. PICK r \in Release, x \in Worker :
            /\ Moves(q, w, r, x) /\ x.at = "gone" /\ GoneRow(q, r)
      BY <2>1, GoneMoves
    <3> QED
      BY <3>1 DEF GoneRow
  <2>2. CASE /\ release' = [release EXCEPT ![q].outcome[p] = "sent"]
             /\ worker' = [worker EXCEPT ![q][w] = Unemployed]
    <3> DEFINE r == [release[q] EXCEPT !.outcome[p] = "sent"]
    <3>1. [release[q].outcome EXCEPT ![p] = "sent"] \in [Pupils -> Outcomes]
      BY <1>2 DEF Release, Outcomes
    <3>2. /\ r \in Release /\ r.queue = release[q].queue
          /\ r.no = release[q].no /\ r.at = release[q].at /\ r.threw = release[q].threw
          /\ r.outcome = [release[q].outcome EXCEPT ![p] = "sent"] /\ r.authLost = release[q].authLost
      BY <1>2, <3>1 DEF Release
    <3>3. Moves(q, w, r, Unemployed)
      BY <2>2 DEF Moves
    <3> HIDE DEF r
    <3>4. \A o \in Pupils : r.outcome[o] = IF o = p THEN "sent" ELSE release[q].outcome[o]
      BY <1>2, <3>2 DEF Release
    <3> QED
      BY <1>2, <3>2, <3>3, <3>4
  <2> QED
    BY <2>1, <2>2 DEF InsertRelease
<1>5. r.at \in {release[q].at, "answered"} /\ x.at \notin AtWork
  BY <1>4 DEF AtWork, HasDoc
<1>6. Moves(q, w, r, x) /\ docs' = [docs EXCEPT ![d0].stage = "recorded"]
  BY <1>4 DEF InsertRelease
<1> HIDE DEF d0
<1>7. worker'[q][w] = x /\ release'[q] = r
  BY <1>6, Cells DEF DocsInv
<1>8. /\ docs' \in Seq(Doc) /\ Len(docs') <= MaxDocs /\ DOMAIN docs' = DOMAIN docs
      /\ docs'[d0].stage = "recorded"
      /\ docs'[d0].pupil = docs[d0].pupil /\ docs'[d0].by = docs[d0].by
      /\ \A d \in DOMAIN docs \ {d0} : docs'[d] = docs[d]
  BY <1>3, <1>6, Staged
<1>9. DocsGo(q, w)
  BY <1>1, <1>8 DEF DocsGo, HasDoc, d0
<1>10. Job(q, w)'
  BY <1>5, <1>7 DEF Job, AtWork, HasDoc
<1>11. Told(q)'
  <2>1. worker[q][w].at \in AtWork
    BY <1>1 DEF AtWork, HasDoc
  <2>2. CASE /\ r.at = release[q].at /\ r.threw = release[q].threw
             /\ \A o \in Pupils : r.outcome[o] = IF o = p THEN "sent" ELSE release[q].outcome[o]
    <3>1. \A o \in Pupils : \/ r.outcome[o] # "none"
                            \/ /\ release[q].outcome[o] = "none"
                               /\ o \in release[q].queue => o \in r.queue
                               /\ Holds(q, w, o) => x.at \in AtWork /\ x.pupil = o
                            \/ x.at \in AtWork /\ x.pupil = o
      BY <1>4, <2>2 DEF Holds
    <3>2. \A o \in Pupils : o = p => d0 \in DocsOf(o, {"recorded"})' /\ docs'[d0].by = r.no
      BY <1>3, <1>4, <1>8 DEF DocsOf
    <3>3. \A o \in Pupils : r.outcome[o] = "sent" =>
            \/ release[q].outcome[o] = "sent"
            \/ \E d \in DocsOf(o, {"recorded"})' : docs'[d].by = r.no
      BY <2>2, <3>2
    <3>4. \A o \in Pupils : r.outcome[o] = "auth" => r.authLost
      BY <1>2, <1>4, <2>2 DEF Told
    <3>5. r.queue \subseteq release[q].queue /\ (release[q].queue # {} \/ worker[q][w].at \in AtWork)
      BY <1>4, <2>1
    <3> HIDE DEF p
    <3> QED
      BY <1>4, <1>6, <1>9, <2>2, <3>1, <3>3, <3>4, <3>5, ToldStays
  <2>3. CASE r.at = "answered" /\ r.threw = TRUE /\ r.outcome = release[q].outcome
    <3>1. \A o \in Pupils : \A d \in DocsOf(o, {"recorded"}) :
            d \in DocsOf(o, {"recorded"})' /\ docs'[d].by = docs[d].by
      BY <1>3, <1>8 DEF DocsOf
    <3>2. /\ r.queue # {} => r.no # 0
          /\ \A o \in Pupils : r.outcome[o] = "auth" => r.authLost
      BY <1>2, <1>4, <2>3 DEF Told
    <3>3. \A o \in Pupils : r.outcome[o] = "sent" =>
            \E d \in DocsOf(o, {"recorded"})' : docs'[d].by = r.no
      BY <1>2, <1>4, <2>3, <3>1 DEF Told
    <3> QED
      BY <1>7, <2>3, <3>2, <3>3 DEF Told
  <2> QED
    BY <1>4, <2>2, <2>3
<1>12. ASSUME NEW o \in Pupils, InOneHand(o), OneDoc(o) PROVE InOneHand(o)' /\ OneDoc(o)'
  <2>1. /\ InOneHand(o)' /\ \A u \in Releases : Waits(u, o)' => Waits(u, o)
    BY <1>1, <1>4, <1>5, <1>6, <1>12, HandsStay
  <2>2. CASE o # p
    <3>1. \A stages \in {{"shared", "recorded"}, {"shared"}} : DocsOf(o, stages)' = DocsOf(o, stages)
      BY <1>3, <1>8, <2>2 DEF DocsOf
    <3> QED
      BY <1>4, <1>6, <1>12, <2>1, <2>2, <3>1, DocStays
  <2>3. CASE o = p
    <3>1. Holds(q, w, o)
      BY <1>1, <2>3 DEF Holds, AtWork, HasDoc
    <3>2. d0 \in Given(o)
      BY <1>3, <2>3 DEF Given, DocsOf
    <3>3. Given(o)' = Given(o)
      BY <1>3, <1>8, <2>3 DEF Given, DocsOf
    <3>4. DocsOf(o, {"shared"})' = {}
      <4>1. DocsOf(o, {"shared"})' \subseteq Given(o)' \ {d0}
        BY <1>8 DEF Given, DocsOf
      <4>2. \A d \in Given(o) : d = d0
        BY <1>12, <3>2 DEF OneDoc
      <4> QED
        BY <3>3, <4>1, <4>2
    <3>5. \A u \in Releases : ~Waits(u, o)'
      BY <1>12, <2>1, <3>1 DEF InOneHand
    <3>6. \A u \in Releases : \A v \in Workers : ~Holds(u, v, o)'
      <4>1. \A u \in Releases : \A v \in Workers : u # q \/ v # w => worker'[u][v] = worker[u][v]
        BY <1>4, <1>6, Cells DEF DocsInv
      <4>2. ~Holds(q, w, o)'
        BY <1>5, <1>7 DEF Holds
      <4> QED
        BY <1>12, <3>1, <4>1, <4>2 DEF Holds, InOneHand
    <3> QED
      BY <1>12, <2>1, <3>3, <3>4, <3>5, <3>6 DEF OneDoc
  <2> QED
    BY <2>2, <2>3
<1> QED
  BY <1>1, <1>4, <1>5, <1>6, <1>9, <1>10, <1>11, <1>12, WorkerStep DEF AtWork

\* A worker is lost: a Doc it shared and did not record is a slip.
LEMMA ThrowKept ==
  ASSUME DocsInv, NEW q \in Releases, NEW w \in Workers, Throw(q, w)
  PROVE  DocsInv'
<1>1. /\ release[q] \in Release /\ worker[q][w] \in Worker /\ Told(q) /\ Job(q, w)
  BY AtHand
<1>2. worker[q][w].at \in AtWork /\ UNCHANGED <<work, docs, sends>>
  BY <1>1 DEF Throw, Busy, Worker, AtWork, HasDoc
<1>3. /\ slipped \subseteq slipped' /\ slipped' \ slipped \subseteq Pupils
      /\ worker[q][w].at \in {"shared", "transfer", "insert"} => worker[q][w].pupil \in slipped'
  BY <1>1, <1>2 DEF Throw, Job
<1>4. PICK r \in Release, x \in Worker : Moves(q, w, r, x) /\ x.at = "gone" /\ GoneRow(q, r)
  BY GoneMoves DEF Throw
<1>5. /\ r.no = release[q].no /\ r.queue = release[q].queue /\ r.outcome = release[q].outcome
      /\ r.authLost = release[q].authLost /\ r.threw = TRUE /\ r.at = "answered"
  BY <1>4 DEF GoneRow
<1>6. Moves(q, w, r, x) /\ x.at = "gone"
  BY <1>4
<1>7. worker'[q][w] = x /\ release'[q] = r
  BY <1>6, Cells DEF DocsInv
<1>8. DocsGo(q, w) /\ \A p \in Pupils : \A stages : DocsOf(p, stages)' = DocsOf(p, stages)
  BY <1>2, DocsAlone
<1>9. Job(q, w)'
  BY <1>6, <1>7 DEF Job, AtWork, HasDoc
<1>10. Told(q)'
  <2>1. \A p \in Pupils : DocsOf(p, {"recorded"})' = DocsOf(p, {"recorded"})
    BY <1>8
  <2> QED
    BY <1>1, <1>2, <1>5, <1>7, <2>1 DEF Told
<1>11. ASSUME NEW p \in Pupils \ slipped', InOneHand(p), OneDoc(p) PROVE InOneHand(p)' /\ OneDoc(p)'
  <2>1. /\ InOneHand(p)' /\ \A o \in Releases : Waits(o, p)' => Waits(o, p)
    BY <1>2, <1>5, <1>6, <1>11, HandsStay DEF AtWork, HasDoc
  <2>2. worker[q][w].at \in {"shared", "transfer", "insert"} => worker[q][w].pupil # p
    BY <1>3, <1>11
  <2>3. \A stages \in {{"shared", "recorded"}, {"shared"}} : DocsOf(p, stages)' = DocsOf(p, stages)
    BY <1>8
  <2> QED
    BY <1>5, <1>6, <1>11, <2>1, <2>2, <2>3, DocStays
<1> QED
  BY <1>2, <1>3, <1>5, <1>6, <1>8, <1>9, <1>10, <1>11, WorkerStep DEF HasDoc

-----------------------------------------------------------------------------
(* the steps of a send *)

\* A step of a send that makes no Doc and leaves its workers without a job, if
\* whom it queues has no Doc and is in no other hand.
LEMMA SendStep ==
  ASSUME DocsInv, NEW q \in Releases, NEW r \in Release, NEW xs \in [Workers -> Worker],
         release' = [release EXCEPT ![q] = r], worker' = [worker EXCEPT ![q] = xs],
         UNCHANGED <<work, docs>>, sends' \in 0..MaxSends,
         slipped \subseteq slipped', slipped' \ slipped \subseteq Pupils,
         \A w \in Workers : xs[w].at \notin AtWork,
         Told(q)',
         \A p \in Pupils \ slipped' : SkipsOnly /\ InOneHand(p) /\ OneDoc(p) =>
           /\ \A w \in Workers : worker[q][w].at \in {"shared", "transfer", "insert"} => worker[q][w].pupil # p
           /\ Waits(q, p)' =>
                /\ Given(p) = {}
                /\ \A o \in Releases \ {q} : ~Waits(o, p) /\ \A v \in Workers : ~Holds(o, v, p)
  PROVE  DocsInv'
<1>1. /\ release'[q] = r /\ worker'[q] = xs
      /\ release' \in [Releases -> Release] /\ worker' \in [Releases -> [Workers -> Worker]]
      /\ \A o \in Releases \ {q} : release'[o] = release[o] /\ worker'[o] = worker[o]
  BY DEF DocsInv, ReleaseTypeOK
<1>2. ReleaseTypeOK'
  BY <1>1 DEF DocsInv, ReleaseTypeOK, work
<1>3. \A p \in Pupils : \A stages : DocsOf(p, stages)' = DocsOf(p, stages)
  BY DocsAlone
<1>4. ASSUME NEW o \in Releases PROVE Told(o)' /\ \A w \in Workers : Job(o, w)'
  <2>1. CASE o = q
    BY <1>1, <2>1 DEF Job, HasDoc, AtWork
  <2>2. CASE o # q
    <3>1. Told(o) /\ \A w \in Workers : Job(o, w)
      BY DEF DocsInv
    <3>2. Told(o)'
      <4>1. \A p \in Pupils : DocsOf(p, {"recorded"})' = DocsOf(p, {"recorded"})
        BY <1>3
      <4> QED
        BY <1>1, <2>2, <3>1, <4>1 DEF Told, Holds
    <3>3. \A w \in Workers : Job(o, w)'
      BY <1>1, <2>2, <3>1 DEF Job
    <3> QED
      BY <3>2, <3>3
  <2> QED
    BY <2>1, <2>2
<1>5. ASSUME NEW o \in Releases, NEW w \in Workers, worker'[o][w].at \in AtWork
      PROVE  o # q /\ worker'[o][w] = worker[o][w]
  BY <1>1, <1>5
<1>6. OwnDocs'
  BY <1>5 DEF OwnDocs, DocsInv, AtWork
<1>7. ASSUME NEW p \in Pupils \ slipped', SkipsOnly PROVE InOneHand(p)' /\ OneDoc(p)'
  <2>1. InOneHand(p) /\ OneDoc(p)
    BY <1>7 DEF DocsInv, Kept
  <2>2. /\ \A w \in Workers : worker[q][w].at \in {"shared", "transfer", "insert"} => worker[q][w].pupil # p
        /\ Waits(q, p)' =>
             /\ Given(p) = {}
             /\ \A o \in Releases \ {q} : ~Waits(o, p) /\ \A v \in Workers : ~Holds(o, v, p)
    BY <1>7, <2>1
  <2>3. \A o \in Releases \ {q} : Waits(o, p)' => Waits(o, p)
    BY <1>1 DEF Waits
  <2>4. \A o \in Releases : \A w \in Workers : Holds(o, w, p)' => o # q /\ Holds(o, w, p)
    BY <1>5 DEF Holds
  <2>5. InOneHand(p)'
    <3>1. ASSUME NEW o \in Releases, NEW u \in Releases, Waits(o, p)', Waits(u, p)' PROVE o = u
      BY <2>1, <2>2, <2>3, <3>1 DEF InOneHand
    <3>2. ASSUME NEW o \in Releases, NEW u \in Releases, NEW w \in Workers,
                 Waits(o, p)', Holds(u, w, p)'
          PROVE  FALSE
      BY <2>1, <2>2, <2>3, <2>4, <3>2 DEF InOneHand
    <3>3. ASSUME NEW o \in Releases, NEW u \in Releases, NEW w \in Workers, NEW v \in Workers,
                 Holds(o, w, p)', Holds(u, v, p)'
          PROVE  o = u /\ w = v
      BY <2>1, <2>4, <3>3 DEF InOneHand
    <3> QED
      BY <3>1, <3>2, <3>3 DEF InOneHand
  <2>6. Given(p)' = Given(p) /\ DocsOf(p, {"shared"})' = DocsOf(p, {"shared"})
    BY <1>3 DEF Given
  <2>7. \A o \in Releases : Waits(o, p)' => Given(p) = {}
    BY <2>1, <2>2, <2>3 DEF OneDoc
  <2>8. ASSUME NEW o \in Releases, NEW w \in Workers,
               Holds(o, w, p)', worker'[o][w].at \in {"upload", "share"}
        PROVE  Given(p) = {}
    BY <1>5, <2>1, <2>4, <2>8 DEF OneDoc, Holds
  <2>9. ASSUME NEW d \in DocsOf(p, {"shared"})
        PROVE  \E o \in Releases : \E w \in Workers :
                 worker'[o][w].at \in {"shared", "transfer", "insert"} /\ worker'[o][w].doc = d
    <3>1. PICK o \in Releases, w \in Workers :
            worker[o][w].at \in {"shared", "transfer", "insert"} /\ worker[o][w].doc = d
      BY <2>1 DEF OneDoc
    <3>2. Job(o, w) /\ docs[d].pupil = p
      BY DEF DocsInv, DocsOf
    <3>3. worker[o][w].pupil = p
      BY <3>1, <3>2 DEF Job, HasDoc
    <3>4. worker'[o][w] = worker[o][w]
      BY <1>1, <2>2, <3>1, <3>3
    <3> QED
      BY <3>1, <3>4
  <2> QED
    BY <2>1, <2>5, <2>6, <2>7, <2>8, <2>9 DEF OneDoc
<1> QED
  BY <1>2, <1>4, <1>6, <1>7 DEF DocsInv, Kept, SkipsOnly

\* The rows a send's step starts from.
LEMMA SendAtHand ==
  ASSUME DocsInv, NEW q \in Releases
  PROVE  /\ release[q] \in Release /\ worker[q] \in [Workers -> Worker]
         /\ Told(q) /\ \A w \in Workers : Job(q, w) /\ worker[q][w] \in Worker
         /\ worker = [worker EXCEPT ![q] = worker[q]]
  BY DEF DocsInv, ReleaseTypeOK

\* The folders are made, or the send is over.
LEMMA FoldersKept ==
  ASSUME DocsInv, NEW q \in Releases, Folders(q)
  PROVE  DocsInv'
<1>1. /\ release[q] \in Release /\ worker[q] \in [Workers -> Worker]
      /\ Told(q) /\ \A w \in Workers : Job(q, w)
      /\ worker = [worker EXCEPT ![q] = worker[q]]
  BY SendAtHand
<1>2. /\ release[q].at = "folders" /\ UNCHANGED <<work, docs, worker, sends, slipped>>
  BY DEF Folders
<1>3. \A w \in Workers : worker[q][w].at \notin AtWork
  BY <1>1, <1>2 DEF Job
<1>4. PICK r \in Release :
        /\ release' = [release EXCEPT ![q] = r] /\ r.no = release[q].no
        /\ \/ /\ r.queue = release[q].queue /\ r.outcome = release[q].outcome
              /\ r.at = "working" /\ r.threw = release[q].threw /\ r.authLost = release[q].authLost
           \/ /\ r.queue = {} /\ r.threw = release[q].threw /\ r.authLost = TRUE
              /\ \A p \in Pupils : r.outcome[p] =
                   IF p \in release[q].queue THEN "auth" ELSE release[q].outcome[p]
           \/ /\ r.queue = {} /\ r.outcome = release[q].outcome
              /\ r.threw = TRUE /\ r.authLost = release[q].authLost
  <2>1. CASE release' = [release EXCEPT ![q].at = "working"]
    <3> DEFINE r == [release[q] EXCEPT !.at = "working"]
    <3>1. /\ r \in Release /\ r.no = release[q].no /\ r.queue = release[q].queue
          /\ r.outcome = release[q].outcome /\ r.at = "working" /\ r.threw = release[q].threw
          /\ r.authLost = release[q].authLost
      BY <1>1 DEF Release
    <3>2. release' = [release EXCEPT ![q] = r]
      BY <2>1
    <3> HIDE DEF r
    <3> QED
      BY <3>1, <3>2
  <2>2. CASE release' = [release EXCEPT ![q].at = "answered", ![q].queue = {}, ![q].authLost = TRUE,
               ![q].outcome = [p \in Pupils |-> IF p \in release[q].queue THEN "auth" ELSE @[p]]]
    <3> DEFINE news == [p \in Pupils |-> IF p \in release[q].queue THEN "auth"
                                         ELSE release[q].outcome[p]]
               r == [release[q] EXCEPT !.at = "answered", !.queue = {}, !.authLost = TRUE,
                                       !.outcome = news]
    <3>1. news \in [Pupils -> Outcomes]
      BY <1>1 DEF Release, Outcomes
    <3>2. \A p \in Pupils : news[p] = IF p \in release[q].queue THEN "auth" ELSE release[q].outcome[p]
      OBVIOUS
    <3>3. release' = [release EXCEPT ![q] = r]
      BY <2>2 DEF DocsInv, ReleaseTypeOK
    <3> HIDE DEF news
    <3>4. /\ r \in Release /\ r.no = release[q].no /\ r.queue = {} /\ r.outcome = news
          /\ r.threw = release[q].threw /\ r.authLost = TRUE
      BY <1>1, <3>1 DEF Release
    <3> HIDE DEF r
    <3> QED
      BY <3>2, <3>3, <3>4
  <2>3. CASE release' = [release EXCEPT ![q].at = "answered", ![q].queue = {}, ![q].threw = TRUE]
    <3> DEFINE r == [release[q] EXCEPT !.at = "answered", !.queue = {}, !.threw = TRUE]
    <3>1. /\ r \in Release /\ r.no = release[q].no /\ r.queue = {}
          /\ r.outcome = release[q].outcome /\ r.threw = TRUE /\ r.authLost = release[q].authLost
      BY <1>1 DEF Release
    <3>2. release' = [release EXCEPT ![q] = r]
      BY <2>3 DEF DocsInv, ReleaseTypeOK
    <3> HIDE DEF r
    <3> QED
      BY <3>1, <3>2
  <2> QED
    BY <2>1, <2>2, <2>3 DEF Folders
<1>5. release'[q] = r
  BY <1>4 DEF DocsInv, ReleaseTypeOK
<1>6. \A p \in Pupils : DocsOf(p, {"recorded"})' = DocsOf(p, {"recorded"})
  BY <1>2, DocsAlone
<1>7. \A p \in Pupils : \A w \in Workers : ~Holds(q, w, p)
  BY <1>3 DEF Holds
<1>8. Told(q)'
  <2>1. ASSUME NEW p \in Pupils, ~r.threw, r.outcome[p] = "none" PROVE p \in r.queue
    BY <1>1, <1>2, <1>4, <1>7, <2>1 DEF Told
  <2>2. ASSUME NEW p \in Pupils, r.outcome[p] = "sent"
        PROVE  \E d \in DocsOf(p, {"recorded"}) : docs[d].by = r.no
    BY <1>1, <1>4, <2>2 DEF Told
  <2>3. ASSUME NEW p \in Pupils, r.outcome[p] = "auth" PROVE r.authLost
    BY <1>1, <1>4, <2>3 DEF Told
  <2>4. /\ r.queue # {} => r.no # 0
        /\ r.at = "answered" /\ ~r.threw => r.queue = {}
    BY <1>1, <1>4 DEF Told
  <2> QED
    BY <1>2, <1>3, <1>5, <1>6, <2>1, <2>2, <2>3, <2>4 DEF Told
<1>9. \A p \in Pupils : Waits(q, p)' => Waits(q, p)
  BY <1>2, <1>4, <1>5 DEF Waits
<1>10. \A p \in Pupils : InOneHand(p) /\ OneDoc(p) =>
         /\ \A w \in Workers : worker[q][w].at \in {"shared", "transfer", "insert"} => worker[q][w].pupil # p
         /\ Waits(q, p)' =>
              /\ Given(p) = {}
              /\ \A o \in Releases \ {q} : ~Waits(o, p) /\ \A v \in Workers : ~Holds(o, v, p)
  BY <1>3, <1>9 DEF InOneHand, OneDoc, AtWork, HasDoc
<1>11. /\ worker' = [worker EXCEPT ![q] = worker[q]] /\ UNCHANGED <<work, docs>>
       /\ sends' \in 0..MaxSends /\ slipped' = slipped
  BY <1>1, <1>2 DEF DocsInv, ReleaseTypeOK
<1> QED
  BY <1>1, <1>3, <1>4, <1>8, <1>10, <1>11, SendStep

\* The answer: the queue is empty and nobody has a job.
LEMMA AnswerKept ==
  ASSUME DocsInv, NEW q \in Releases, Answer(q)
  PROVE  DocsInv'
<1> DEFINE r == [release[q] EXCEPT !.at = "answered"]
<1>1. /\ release[q] \in Release /\ worker[q] \in [Workers -> Worker] /\ Told(q)
      /\ worker = [worker EXCEPT ![q] = worker[q]]
  BY SendAtHand
<1>2. /\ release[q].at = "working" /\ release[q].queue = {}
      /\ \A w \in Workers : worker[q][w].at \notin AtWork
      /\ UNCHANGED <<work, docs, worker, sends, slipped>>
  BY DEF Answer, Takes, Busy, AtWork, HasDoc
<1>3. /\ r \in Release /\ r.no = release[q].no /\ r.queue = release[q].queue
      /\ r.outcome = release[q].outcome /\ r.at = "answered" /\ r.threw = release[q].threw
      /\ r.authLost = release[q].authLost
  BY <1>1 DEF Release
<1>4. release' = [release EXCEPT ![q] = r]
  BY DEF Answer
<1> HIDE DEF r
<1>5. release'[q] = r
  BY <1>4 DEF DocsInv, ReleaseTypeOK
<1>6. Told(q)'
  <2>1. \A p \in Pupils : DocsOf(p, {"recorded"})' = DocsOf(p, {"recorded"})
    BY <1>2, DocsAlone
  <2>2. \A p \in Pupils : \A w \in Workers : ~Holds(q, w, p)
    BY <1>2 DEF Holds
  <2> QED
    BY <1>1, <1>2, <1>3, <1>5, <2>1, <2>2 DEF Told
<1>7. \A p \in Pupils : ~Waits(q, p)'
  BY <1>2, <1>3, <1>5 DEF Waits
<1>8. \A p \in Pupils :
        /\ \A w \in Workers : worker[q][w].at \in {"shared", "transfer", "insert"} => worker[q][w].pupil # p
        /\ Waits(q, p)' =>
             /\ Given(p) = {}
             /\ \A o \in Releases \ {q} : ~Waits(o, p) /\ \A v \in Workers : ~Holds(o, v, p)
  BY <1>2, <1>7 DEF AtWork, HasDoc
<1>9. /\ worker' = [worker EXCEPT ![q] = worker[q]] /\ UNCHANGED <<work, docs>>
      /\ sends' \in 0..MaxSends /\ slipped' = slipped
  BY <1>1, <1>2 DEF DocsInv, ReleaseTypeOK
<1> QED
  BY <1>1, <1>2, <1>3, <1>4, <1>6, <1>8, <1>9, SendStep

\* Workers and a send at rest.
LEMMA AtRest ==
  /\ Resting \in Release /\ Unemployed \in Worker
  /\ Resting.no = 0 /\ Resting.at = "idle" /\ Resting.queue = {} /\ Resting.threw = FALSE
  /\ \A p \in Pupils : Resting.outcome[p] = "none"
  /\ Unemployed.at = "idle" /\ [w \in Workers |-> Unemployed] \in [Workers -> Worker]
<1>1. [p \in Pupils |-> "none"] \in [Pupils -> Outcomes]
  BY DEF Outcomes
<1>2. Resting \in Release /\ Resting.no = 0
  BY <1>1, ReleaseAssumption DEF Resting, Release
<1>3. Unemployed \in Worker
  BY ReleaseAssumption DEF Unemployed, Worker
<1> QED
  BY <1>2, <1>3 DEF Resting, Unemployed

\* The task stops: the Docs its workers shared and did not record are slips.
LEMMA TaskStopsKept ==
  ASSUME DocsInv, NEW q \in Releases, TaskStops(q)
  PROVE  DocsInv'
<1> DEFINE r == [Resting EXCEPT !.at = "answered", !.threw = TRUE]
           xs == [w \in Workers |-> Unemployed]
<1>1. \A w \in Workers : Job(q, w)
  BY SendAtHand
<1>2. /\ r \in Release /\ r.no = 0 /\ r.queue = {} /\ r.threw = TRUE
      /\ \A p \in Pupils : r.outcome[p] = "none"
  BY AtRest DEF Release
<1>3. xs \in [Workers -> Worker] /\ \A w \in Workers : xs[w].at = "idle"
  BY AtRest
<1>4. /\ release' = [release EXCEPT ![q] = r] /\ worker' = [worker EXCEPT ![q] = xs]
      /\ UNCHANGED <<work, docs, sends>>
  BY DEF TaskStops
<1> HIDE DEF r, xs
<1>5. release'[q] = r
  BY <1>4 DEF DocsInv, ReleaseTypeOK
<1>6. /\ slipped \subseteq slipped' /\ slipped' \ slipped \subseteq Pupils
      /\ \A w \in Workers : worker[q][w].at \in {"shared", "transfer", "insert"} => worker[q][w].pupil \in slipped'
  <2>1. \A w \in Workers : worker[q][w].at \in {"shared", "transfer", "insert"} =>
          w \in Busy(q) /\ worker[q][w].pupil \in Pupils
    BY <1>1 DEF Busy, Job, AtWork, HasDoc
  <2> DEFINE late == {w \in Busy(q) : worker[q][w].at \in {"shared", "transfer", "insert"}}
  <2>2. slipped' = slipped \cup {worker[q][w].pupil : w \in late}
    BY DEF TaskStops
  <2>3. \A w \in Workers : worker[q][w].at \in {"shared", "transfer", "insert"} => w \in late
    BY <2>1
  <2>4. \A w \in late : worker[q][w].pupil \in Pupils
    BY <2>1 DEF Busy
  <2> HIDE DEF late
  <2> QED
    BY <2>2, <2>3, <2>4
<1>7. Told(q)'
  BY <1>2, <1>5 DEF Told
<1>8. \A p \in Pupils : ~Waits(q, p)'
  BY <1>2, <1>5 DEF Waits
<1>9. \A p \in Pupils \ slipped' :
        /\ \A w \in Workers : worker[q][w].at \in {"shared", "transfer", "insert"} => worker[q][w].pupil # p
        /\ Waits(q, p)' =>
             /\ Given(p) = {}
             /\ \A o \in Releases \ {q} : ~Waits(o, p) /\ \A v \in Workers : ~Holds(o, v, p)
  BY <1>6, <1>8
<1>10. sends' \in 0..MaxSends /\ UNCHANGED <<work, docs>>
  BY <1>4 DEF DocsInv, ReleaseTypeOK
<1>11. \A w \in Workers : xs[w].at \notin AtWork
  BY <1>3 DEF AtWork, HasDoc
<1> QED
  BY <1>2, <1>3, <1>4, <1>6, <1>7, <1>9, <1>10, <1>11, SendStep

\* A student another send has still to make a Doc of is in its hand.
LEMMA HandsSeen ==
  ASSUME DocsInv, NEW q \in Releases, NEW o \in Releases \ {q}, NEW p \in Pupils, p \notin InHand(q)
  PROVE  ~Waits(o, p) /\ \A v \in Workers : ~Holds(o, v, p)
<1>1. Running(o) => p \notin release[o].queue /\ p \notin {worker[o][v].pupil : v \in Busy(o)}
  BY DEF InHand
<1>2. ASSUME Waits(o, p) PROVE FALSE
  <2>1. PICK v \in Workers : worker[o][v].at # "gone"
    BY <1>2 DEF Waits
  <2>2. v \in Busy(o) \/ worker[o][v].at = "idle"
    BY <2>1 DEF Busy
  <2> QED
    BY <1>1, <1>2, <2>2 DEF Running, Waits
<1>3. ASSUME NEW v \in Workers, Holds(o, v, p) PROVE FALSE
  <2>1. v \in Busy(o) /\ worker[o][v].pupil = p
    BY <1>3 DEF Busy, Holds, AtWork, HasDoc
  <2> QED
    BY <1>1, <2>1 DEF Running
<1> QED
  BY <1>2, <1>3

\* A send decides: it queues nobody who has a Doc, and whom another send has in
\* hand is a slip.
LEMMA DecideKept ==
  ASSUME DocsInv, NEW q \in Releases, NEW choice \in Choices, Decide(q, choice)
  PROVE  DocsInv'
<1> DEFINE out == LeftOut(choice)
           chosen == Pupils \ out
           r == [Resting EXCEPT !.no = sends + 1, !.at = IF chosen = {} THEN "answered" ELSE "folders",
                                !.queue = chosen, !.transfer = choice.transfer,
                                !.outcome = [p \in Pupils |-> IF p \in out THEN "skipped" ELSE "none"]]
           xs == [w \in Workers |-> Unemployed]
<1>1. /\ sends + 1 \in 1..MaxSends /\ sends' = sends + 1 /\ UNCHANGED <<work, docs>>
      /\ release' = [release EXCEPT ![q] = r] /\ worker' = [worker EXCEPT ![q] = xs]
      /\ slipped' = slipped \cup (chosen \cap InHand(q))
      /\ \A w \in Workers : worker[q][w].at \notin AtWork
  <2>1. sends \in 0..MaxSends /\ sends < MaxSends /\ MaxSends \in Nat
    BY ReleaseAssumption DEF Decide, DocsInv, ReleaseTypeOK
  <2>2. \A w \in Workers : worker[q][w].at \notin AtWork
    BY DEF Decide, Running, Busy, AtWork, HasDoc
  <2> QED
    BY <2>1, <2>2 DEF Decide
<1> HIDE DEF out
<1>2. /\ r \in Release /\ r.no # 0 /\ r.queue = chosen /\ r.threw = FALSE
      /\ r.at = "answered" => chosen = {}
      /\ \A p \in Pupils : r.outcome[p] = IF p \in chosen THEN "none" ELSE "skipped"
  <2> DEFINE news == [p \in Pupils |-> IF p \in out THEN "skipped" ELSE "none"]
  <2>1. news \in [Pupils -> Outcomes] /\ \A p \in Pupils : news[p] = IF p \in chosen THEN "none" ELSE "skipped"
    BY DEF Outcomes
  <2>2. choice.transfer \in BOOLEAN
    BY ReleaseAssumption DEF DialogChoices
  <2>3. sends + 1 \in 0..MaxSends /\ sends + 1 # 0
    BY <1>1
  <2>4. chosen \subseteq Pupils
    OBVIOUS
  <2> HIDE DEF news, chosen
  <2>5. r \in Release
    BY <2>1, <2>2, <2>3, <2>4, AtRest DEF Release, news
  <2>6. r.no = sends + 1 /\ r.queue = chosen /\ r.outcome = news /\ r.threw = FALSE
    BY AtRest DEF Release, news
  <2>7. r.at = "answered" => chosen = {}
    BY AtRest DEF Release
  <2> QED
    BY <2>1, <2>3, <2>5, <2>6, <2>7
<1>3. xs \in [Workers -> Worker] /\ \A w \in Workers : xs[w].at = "idle"
  BY AtRest
<1> HIDE DEF r, xs
<1>4. release'[q] = r /\ worker'[q] = xs
  BY <1>1 DEF DocsInv, ReleaseTypeOK
<1>5. \A w \in Workers : xs[w].at \notin AtWork
  BY <1>3 DEF AtWork, HasDoc
<1>6. Told(q)'
  BY <1>2, <1>4, <1>5 DEF Told
<1>7. ASSUME NEW p \in Pupils \ slipped', SkipsOnly, InOneHand(p), OneDoc(p), Waits(q, p)'
      PROVE  /\ Given(p) = {}
             /\ \A o \in Releases \ {q} : ~Waits(o, p) /\ \A v \in Workers : ~Holds(o, v, p)
  <2>1. p \in chosen /\ p \notin InHand(q)
    BY <1>1, <1>2, <1>4, <1>7 DEF Waits
  <2>2. \A o \in Releases \ {q} : ~Waits(o, p) /\ \A v \in Workers : ~Holds(o, v, p)
    BY <2>1, HandsSeen
  <2>3. DocsOf(p, {"recorded"}) = {}
    BY <1>7, <2>1 DEF SkipsOnly, out, LeftOut
  <2>4. ASSUME NEW d \in DocsOf(p, {"shared"}) PROVE FALSE
    <3>1. PICK o \in Releases, v \in Workers :
            worker[o][v].at \in {"shared", "transfer", "insert"} /\ worker[o][v].doc = d
      BY <1>7 DEF OneDoc
    <3>2. Job(o, v) /\ docs[d].pupil = p
      BY DEF DocsInv, DocsOf
    <3>3. Holds(o, v, p)
      BY <3>1, <3>2 DEF Job, Holds, AtWork, HasDoc
    <3> QED
      BY <1>1, <2>2, <3>3 DEF Holds
  <2>5. Given(p) = {}
    BY <2>3, <2>4 DEF Given, DocsOf
  <2> QED
    BY <2>2, <2>5
<1>8. \A p \in Pupils \ slipped' : SkipsOnly /\ InOneHand(p) /\ OneDoc(p) =>
        /\ \A w \in Workers : worker[q][w].at \in {"shared", "transfer", "insert"} => worker[q][w].pupil # p
        /\ Waits(q, p)' =>
             /\ Given(p) = {}
             /\ \A o \in Releases \ {q} : ~Waits(o, p) /\ \A v \in Workers : ~Holds(o, v, p)
  BY <1>1, <1>7 DEF AtWork, HasDoc
<1>9. /\ slipped \subseteq slipped' /\ slipped' \ slipped \subseteq Pupils
      /\ sends' \in 0..MaxSends
  BY <1>1
<1> QED
  BY <1>1, <1>2, <1>3, <1>5, <1>6, <1>8, <1>9, SendStep

\* Hand-ins, pass backs and alerts.
LEMMA WorkChangesKept ==
  ASSUME DocsInv, NEW p \in Pupils, WorkChanges(p)
  PROVE  DocsInv'
<1>1. UNCHANGED <<docs, release, worker, sends, slipped>>
  BY DEF WorkChanges
<1>2. handedIn' \subseteq Pupils /\ alerted' \subseteq Pupils /\ changes' \in 0..MaxChanges
  BY ReleaseAssumption DEF WorkChanges, DocsInv, ReleaseTypeOK
<1>3. ReleaseTypeOK'
  BY <1>1, <1>2 DEF DocsInv, ReleaseTypeOK
<1>4. \A q \in Releases : Told(q)' /\ \A w \in Workers : Job(q, w)'
  BY <1>1 DEF DocsInv, Told, Job, Holds, DocsOf
<1>5. OwnDocs'
  BY <1>1 DEF DocsInv, OwnDocs
<1>6. SkipsOnly => Kept'
  BY <1>1 DEF DocsInv, Kept, InOneHand, OneDoc, Waits, Holds, Given, DocsOf
<1> QED
  BY <1>3, <1>4, <1>5, <1>6 DEF DocsInv, SkipsOnly

-----------------------------------------------------------------------------
(* the theorems *)

LEMMA InitDocs == ReleaseInit => DocsInv
<1> SUFFICES ASSUME ReleaseInit PROVE DocsInv
  OBVIOUS
<1>1. /\ \A q \in Releases : release[q] = Resting
      /\ \A q \in Releases : \A w \in Workers : worker[q][w] = Unemployed
      /\ docs = <<>> /\ slipped = {}
  BY DEF ReleaseInit
<1>2. ReleaseTypeOK
  <2>1. docs \in Seq(Doc) /\ Len(docs) = 0
    BY <1>1, EmptySeq
  <2>2. /\ release \in [Releases -> Release] /\ worker \in [Releases -> [Workers -> Worker]]
    BY AtRest DEF ReleaseInit
  <2> QED
    BY <2>1, <2>2, ReleaseAssumption DEF ReleaseInit, ReleaseTypeOK
<1>3. \A q \in Releases : \A w \in Workers : worker[q][w].at \notin AtWork
  BY <1>1, AtRest DEF AtWork, HasDoc
<1>4. \A p \in Pupils : \A stages : DocsOf(p, stages) = {}
  BY <1>1, EmptySeq DEF DocsOf
<1>5. \A q \in Releases : Told(q) /\ \A w \in Workers : Job(q, w)
  BY <1>1, <1>3, AtRest DEF Told, Job, AtWork
<1>6. OwnDocs
  BY <1>3 DEF OwnDocs, AtWork
<1>7. \A p \in Pupils : \A q \in Releases : ~Waits(q, p) /\ \A w \in Workers : ~Holds(q, w, p)
  BY <1>1, <1>3, AtRest DEF Waits, Holds
<1>8. \A p \in Pupils : InOneHand(p) /\ OneDoc(p)
  BY <1>4, <1>7 DEF InOneHand, OneDoc, Given
<1> QED
  BY <1>2, <1>5, <1>6, <1>8 DEF DocsInv, Kept

LEMMA DocsStep == DocsInv /\ [ReleaseNext]_releaseVars => DocsInv'
<1> SUFFICES ASSUME DocsInv, [ReleaseNext]_releaseVars PROVE DocsInv'
  OBVIOUS
<1>1. CASE UNCHANGED releaseVars
  <2>1. UNCHANGED <<handedIn, alerted, docs, release, worker, sends, changes, slipped>>
    BY <1>1 DEF releaseVars
  <2>2. ReleaseTypeOK'
    BY <2>1 DEF DocsInv, ReleaseTypeOK
  <2>3. \A q \in Releases : Told(q)' /\ \A w \in Workers : Job(q, w)'
    BY <2>1 DEF DocsInv, Told, Job, Holds, DocsOf
  <2>4. OwnDocs'
    BY <2>1 DEF DocsInv, OwnDocs
  <2>5. SkipsOnly => Kept'
    BY <2>1 DEF DocsInv, Kept, InOneHand, OneDoc, Waits, Holds, Given, DocsOf
  <2> QED
    BY <2>2, <2>3, <2>4, <2>5 DEF DocsInv, SkipsOnly
<1>2. ASSUME NEW q \in Releases, NEW choice \in Choices, Decide(q, choice) PROVE DocsInv'
  BY <1>2, DecideKept
<1>3. ASSUME NEW q \in Releases, Folders(q) \/ Answer(q) \/ TaskStops(q) PROVE DocsInv'
  BY <1>3, FoldersKept, AnswerKept, TaskStopsKept
<1>4. ASSUME NEW q \in Releases, NEW w \in Workers,
             \/ Upload(q, w) \/ Share(q, w) \/ ShareAnswered(q, w)
             \/ Transfer(q, w) \/ InsertRelease(q, w) \/ Throw(q, w)
      PROVE  DocsInv'
  BY <1>4, UploadKept, ShareKept, ShareAnsweredKept, TransferKept, InsertKept, ThrowKept
<1>5. ASSUME NEW q \in Releases, NEW w \in Workers, NEW p \in Pupils, TakeJob(q, w, p)
      PROVE  DocsInv'
  BY <1>5, TakeJobKept
<1>6. ASSUME NEW p \in Pupils, WorkChanges(p) PROVE DocsInv'
  BY <1>6, WorkChangesKept
<1> QED
  BY <1>1, <1>2, <1>3, <1>4, <1>5, <1>6 DEF ReleaseNext

\* The invariant of the sends of Docs.
THEOREM DocsInvariant == ReleaseSpec => []DocsInv
<1> QED
  BY InitDocs, DocsStep, PTL DEF ReleaseSpec

\* The Docs, the sends and their workers have the types they model
\* (releaseToGoogleDocs).
THEOREM DocsTypes == ReleaseSpec => []ReleaseTypeOK
<1>1. DocsInv => ReleaseTypeOK
  BY DEF DocsInv
<1> QED
  BY <1>1, DocsInvariant, PTL

\* Sends that skip whoever has a Doc (releaseToGoogleDocs) share a second one with
\* a student in no way but two: the first was shared and nothing was left to
\* record it, or two sends had the student in hand at once.
THEOREM NoSecond == ReleaseSpec => []NoSecondDoc
<1>1. DocsInv => NoSecondDoc
  <2> SUFFICES ASSUME DocsInv, SkipsOnly, NEW p \in Pupils \ slipped
               PROVE  Cardinality(Given(p)) <= 1
    BY DEF NoSecondDoc, SkipsOnly, Given
  <2>1. \A d, e \in Given(p) : d = e
    BY DEF DocsInv, Kept, OneDoc
  <2>2. CASE Given(p) = {}
    BY <2>2, FS_EmptySet
  <2>3. CASE Given(p) # {}
    <3>1. PICK d \in Given(p) : Given(p) = {d}
      BY <2>1, <2>3
    <3>2. Cardinality({d}) = 1
      BY FS_Singleton
    <3> QED
      BY <3>1, <3>2
  <2> QED
    BY <2>2, <2>3
<1> QED
  BY <1>1, DocsInvariant, PTL

\* The answer of a send that did not fail tells of every student, truly: who is
\* reported sent has a Doc of the send on record, and one skipped for a refused
\* token comes with the answer that makes the page authorize again.
THEOREM EveryoneAnswered == ReleaseSpec => []EveryPupilIsAnswered
<1>1. DocsInv => EveryPupilIsAnswered
  <2> SUFFICES ASSUME DocsInv, NEW q \in Releases, release[q].at = "answered", ~release[q].threw,
                      NEW p \in Pupils
               PROVE  /\ release[q].outcome[p] # "none"
                      /\ release[q].outcome[p] = "sent" =>
                           \E d \in DocsOf(p, {"recorded"}) : docs[d].by = release[q].no
                      /\ release[q].outcome[p] = "auth" => release[q].authLost
    BY DEF EveryPupilIsAnswered
  <2>1. Told(q)
    BY DEF DocsInv
  <2>2. release[q].queue = {} /\ \A w \in Workers : ~Holds(q, w, p)
    BY <2>1 DEF Told, Holds
  <2>3. release[q].outcome[p] # "none"
    BY <2>1, <2>2 DEF Told
  <2> QED
    BY <2>1, <2>3 DEF Told
<1> QED
  BY <1>1, DocsInvariant, PTL

=============================================================================
