-------------------------- MODULE ScoreLedgerProofs --------------------------
(***************************************************************************)
(* Proofs about ScoreLedger, for every value of its constants.  None of     *)
(* its properties is inductive.  What an answer's rows say must be tied to  *)
(* what the requests in flight have read of them: a plan to replace a row   *)
(* names a row there is; an approval comes after a row the AI wrote; a run  *)
(* that scores an answer holds the answer's claim, or lost it to a takeover *)
(* that `tookOver` recalls.                                                 *)
(***************************************************************************)
EXTENDS ScoreLedger, SequenceTheorems, TLAPS

-----------------------------------------------------------------------------
(* The invariant *)

\* HistoryIsAChain, of the rows of one answer.
Chain(rows) ==
  \A i, j \in DOMAIN rows :
    /\ i # j => ~(rows[i].status = "final" /\ rows[j].status = "final")
    /\ i # j /\ rows[i].from = rows[j].from => rows[i].from = 0
    /\ rows[i].from # 0 => rows[i].from < i /\ rows[rows[i].from].status = "superseded"

\* Only the AI scorer proposes.
Sound(rows) ==
  /\ rows \in Seq(Row)
  /\ Chain(rows)
  /\ \A i \in DOMAIN rows : rows[i].status = "proposed" => rows[i].method = "ai"

ByTheAi(rows) == \E i \in DOMAIN rows : rows[i].method = "ai"

\* A request is about an answer from its start to its end, and the text it will
\* write is one.
OfAnAnswer == {"recheck", "scoring", "release", "approveChain", "approveInsert",
               "scoreInsert", "changeCommit", "restoreCommit", "writeCommit"}
AboutItsAnswer(q) ==
  /\ req[q].at \in OfAnAnswer => req[q].cur \in Responses
  /\ req[q].at \in {"restoreCommit", "writeCommit"} => req[q].text[req[q].cur] \in Texts

\* A plan names a row that is there.
PlanIsOfRows(q) ==
  req[q].at = "rescoreApply" => \A r \in req[q].todo : req[q].seen[r] \in 0..Len(ledger[r])

\* An approval copies a row of the AI.
ApprovesTheAi(q) ==
  req[q].at \in {"approveChain", "approveInsert"} => ByTheAi(ledger[req[q].cur])

\* A run at work on an answer has the claim, unless it was taken over.
HasItsClaim(q) ==
  req[q].at \in {"recheck", "scoring", "release"} => claim[req[q].cur] = q \/ tookOver[req[q].cur]

\* OneAiScorePerAnswer, of one run.
ScoresItOnce(q) ==
  req[q].at = "scoring" /\ req[q].skipIfScored /\ ~tookOver[req[q].cur]
    => ~ByTheAi(ledger[req[q].cur])

InStep(q) ==
  AboutItsAnswer(q) /\ PlanIsOfRows(q) /\ ApprovesTheAi(q) /\ HasItsClaim(q) /\ ScoresItOnce(q)

Inv ==
  /\ TypeOK
  /\ \A r \in Responses : Sound(ledger[r])
  /\ \A q \in Requests : InStep(q)

-----------------------------------------------------------------------------
(* The table's operators *)

\* Rows are never removed and keep their method.
Grows(rows, new) ==
  Len(rows) <= Len(new) /\ \A i \in DOMAIN rows : new[i].method = rows[i].method

\* What a sequence of rows is.
LEMMA RowsOf ==
  ASSUME NEW rows \in Seq(Row)
  PROVE  /\ Len(rows) \in Nat /\ DOMAIN rows = 1..Len(rows) /\ rows \in [1..Len(rows) -> Row]
         /\ \A i \in DOMAIN rows : rows[i] \in Row /\ rows[i].from \in Nat
<1>1. Len(rows) \in Nat /\ DOMAIN rows = 1..Len(rows) /\ rows \in [1..Len(rows) -> Row]
  BY LenProperties
<1>2. \A i \in DOMAIN rows : rows[i] \in Row
  BY <1>1
<1> QED
  BY <1>1, <1>2 DEF Row

\* A row is added that names no row, or one that nobody names and is set aside,
\* and that is not a second final (scores_one_final_per_response_unq).
LEMMA AppendIsSound ==
  ASSUME NEW rows, Sound(rows), NEW row \in Row,
         row.status = "final" => Finals(rows) = {},
         row.status = "proposed" => row.method = "ai",
         row.from # 0 => /\ row.from \in DOMAIN rows /\ rows[row.from].status = "superseded"
                         /\ \A i \in DOMAIN rows : rows[i].from # row.from
  PROVE  /\ Sound(Append(rows, row)) /\ Grows(rows, Append(rows, row))
         /\ Len(Append(rows, row)) = Len(rows) + 1
         /\ row.method # "ai" /\ ByTheAi(Append(rows, row)) => ByTheAi(rows)
<1> DEFINE new == Append(rows, row)
<1>1. /\ rows \in Seq(Row) /\ Len(rows) \in Nat /\ DOMAIN rows = 1..Len(rows)
      /\ \A i \in DOMAIN rows : rows[i].from \in Nat
  BY RowsOf DEF Sound
<1>2. /\ new \in Seq(Row) /\ Len(new) = Len(rows) + 1
      /\ \A i \in DOMAIN rows : new[i] = rows[i]
      /\ new[Len(rows) + 1] = row
  BY <1>1, AppendProperties
<1>3. DOMAIN new = 1..(Len(rows) + 1)
  BY <1>2, LenProperties
<1> HIDE DEF new
<1>4. \A i \in DOMAIN new : i = Len(rows) + 1 \/ i \in DOMAIN rows
  BY <1>1, <1>3
<1>5. Chain(new)
  <2> SUFFICES ASSUME NEW i \in DOMAIN new, NEW j \in DOMAIN new
               PROVE  /\ i # j => ~(new[i].status = "final" /\ new[j].status = "final")
                      /\ i # j /\ new[i].from = new[j].from => new[i].from = 0
                      /\ new[i].from # 0 => /\ new[i].from < i
                                            /\ new[new[i].from].status = "superseded"
    BY DEF Chain
  <2>1. i # j => ~(new[i].status = "final" /\ new[j].status = "final")
    BY <1>1, <1>2, <1>4 DEF Sound, Chain, Finals
  <2>2. i # j /\ new[i].from = new[j].from => new[i].from = 0
    BY <1>1, <1>2, <1>4 DEF Sound, Chain
  <2>3. new[i].from # 0 => new[i].from < i /\ new[new[i].from].status = "superseded"
    <3>1. CASE i = Len(rows) + 1
      BY <1>1, <1>2, <3>1
    <3>2. CASE i \in DOMAIN rows
      <4>1. rows[i].from # 0 => rows[i].from \in DOMAIN rows
        BY <1>1, <3>2 DEF Sound, Chain
      <4> QED
        BY <1>2, <3>2, <4>1 DEF Sound, Chain
    <3> QED
      BY <1>4, <3>1, <3>2
  <2> QED
    BY <2>1, <2>2, <2>3
<1>6. \A i \in DOMAIN new : new[i].status = "proposed" => new[i].method = "ai"
  BY <1>2, <1>4 DEF Sound
<1>7. Grows(rows, new) /\ (row.method # "ai" /\ ByTheAi(new) => ByTheAi(rows))
  BY <1>1, <1>2, <1>4 DEF Grows, ByTheAi
<1> QED
  BY <1>2, <1>5, <1>6, <1>7 DEF Sound, new

\* An insert that the index lets through or drops.
LEMMA InsertIsSound ==
  ASSUME NEW rows, Sound(rows), NEW row \in Row,
         row.status = "proposed" => row.method = "ai",
         row.from # 0 => /\ row.from \in DOMAIN rows /\ rows[row.from].status = "superseded"
                         /\ \A i \in DOMAIN rows : rows[i].from # row.from
  PROVE  /\ Sound(Insert(rows, row)) /\ Grows(rows, Insert(rows, row))
         /\ Len(Insert(rows, row)) <= Len(rows) + 1
         /\ row.method # "ai" /\ ByTheAi(Insert(rows, row)) => ByTheAi(rows)
<1>1. CASE Conflicts(rows, row)
  BY <1>1, RowsOf DEF Insert, Grows, Sound
<1>2. CASE ~Conflicts(rows, row)
  BY <1>2, AppendIsSound, RowsOf DEF Insert, Conflicts, Sound
<1> QED
  BY <1>1, <1>2

\* Rows only change by being set aside: some of them, by any rule.
LEMMA SupersededIsSound ==
  ASSUME NEW rows, Sound(rows), NEW new \in [DOMAIN rows -> Row],
         \A i \in DOMAIN rows :
           /\ new[i].method = rows[i].method /\ new[i].from = rows[i].from
           /\ new[i].status \in {rows[i].status, "superseded"}
  PROVE  /\ Sound(new) /\ Grows(rows, new) /\ Len(new) = Len(rows)
         /\ ByTheAi(new) => ByTheAi(rows)
<1>1. /\ rows \in Seq(Row) /\ Len(rows) \in Nat /\ DOMAIN rows = 1..Len(rows)
      /\ \A i \in DOMAIN rows : rows[i].from \in Nat
  BY RowsOf DEF Sound
<1>2. new \in Seq(Row)
  BY <1>1, SeqDef
<1>3. DOMAIN new = DOMAIN rows /\ Len(new) = Len(rows)
  BY <1>1, <1>2, LenProperties
<1>4. Chain(new)
  <2> SUFFICES ASSUME NEW i \in DOMAIN rows, NEW j \in DOMAIN rows
               PROVE  /\ i # j => ~(new[i].status = "final" /\ new[j].status = "final")
                      /\ i # j /\ new[i].from = new[j].from => new[i].from = 0
                      /\ new[i].from # 0 => /\ new[i].from < i
                                            /\ new[new[i].from].status = "superseded"
    BY <1>3 DEF Chain
  <2>1. i # j => ~(new[i].status = "final" /\ new[j].status = "final")
    BY DEF Sound, Chain
  <2>2. i # j /\ new[i].from = new[j].from => new[i].from = 0
    BY DEF Sound, Chain
  <2>3. rows[i].from # 0 => /\ rows[i].from \in DOMAIN rows /\ rows[i].from < i
                            /\ rows[rows[i].from].status = "superseded"
    BY <1>1 DEF Sound, Chain
  <2> QED
    BY <2>1, <2>2, <2>3
<1>5. \A i \in DOMAIN new : new[i].status = "proposed" => new[i].method = "ai"
  BY <1>3 DEF Sound
<1>6. Grows(rows, new) /\ (ByTheAi(new) => ByTheAi(rows))
  BY <1>1, <1>3 DEF Grows, ByTheAi
<1> QED
  BY <1>2, <1>3, <1>4, <1>5, <1>6 DEF Sound

\* SetAside: no row of these statuses is left.
LEMMA SetAsideIsSound ==
  ASSUME NEW rows, Sound(rows), NEW statuses
  PROVE  /\ Sound(SetAside(rows, statuses)) /\ Grows(rows, SetAside(rows, statuses))
         /\ Len(SetAside(rows, statuses)) = Len(rows)
         /\ ByTheAi(SetAside(rows, statuses)) => ByTheAi(rows)
<1> DEFINE new == SetAside(rows, statuses)
<1>1. \A i \in DOMAIN rows : rows[i] \in Row
  BY RowsOf DEF Sound
<1>2. new \in [DOMAIN rows -> Row]
  BY <1>1 DEF SetAside, Row
<1>3. \A i \in DOMAIN rows :
        /\ new[i].method = rows[i].method /\ new[i].from = rows[i].from
        /\ new[i].status \in {rows[i].status, "superseded"}
  BY <1>1 DEF SetAside, Row
<1> HIDE DEF new
<1>4. Sound(new) /\ Grows(rows, new) /\ Len(new) = Len(rows) /\ (ByTheAi(new) => ByTheAi(rows))
  BY <1>2, <1>3, SupersededIsSound
<1> QED
  BY <1>4 DEF new

\* The flip of one row.
LEMMA FlipIsSound ==
  ASSUME NEW rows, Sound(rows), NEW i \in DOMAIN rows
  PROVE  LET new == [rows EXCEPT ![i].status = "superseded"]
         IN  /\ Sound(new) /\ Grows(rows, new) /\ Len(new) = Len(rows)
             /\ ByTheAi(new) => ByTheAi(rows)
<1> DEFINE new == [rows EXCEPT ![i].status = "superseded"]
<1>1. \A j \in DOMAIN rows : rows[j] \in Row
  BY RowsOf DEF Sound
<1>2. new \in [DOMAIN rows -> Row]
  <2>1. [rows[i] EXCEPT !.status = "superseded"] \in Row
    BY <1>1 DEF Row
  <2> QED
    BY <1>1, <2>1, RowsOf DEF Sound
<1>3. \A j \in DOMAIN rows :
        /\ new[j].method = rows[j].method /\ new[j].from = rows[j].from
        /\ new[j].status \in {rows[j].status, "superseded"}
  BY <1>1, RowsOf DEF Sound, Row
<1> HIDE DEF new
<1>4. Sound(new) /\ Grows(rows, new) /\ Len(new) = Len(rows) /\ (ByTheAi(new) => ByTheAi(rows))
  BY <1>2, <1>3, SupersededIsSound
<1> QED
  BY <1>4 DEF new

-----------------------------------------------------------------------------
(* What a step does to the requests that do not take it *)

\* The other requests stay in step with rows that grow, claims that go only to
\* a takeover, and AI rows that are not added under a run at work.
LEMMA OthersInStep ==
  ASSUME Inv, NEW q, \A p \in Requests \ {q} : req'[p] = req[p],
         \A r \in Responses : Grows(ledger[r], ledger'[r]) /\ ledger'[r] \in Seq(Row),
         \A r \in Responses : tookOver[r] => tookOver'[r],
         \A r \in Responses : \A p \in Requests \ {q} :
           claim[r] = p => claim'[r] = p \/ tookOver'[r],
         \A r \in Responses : ByTheAi(ledger'[r]) =>
           \/ ByTheAi(ledger[r])
           \/ \A p \in Requests \ {q} :
                req[p].at = "scoring" /\ req[p].cur = r => tookOver'[r]
  PROVE  \A p \in Requests \ {q} : InStep(p)'
<1> SUFFICES ASSUME NEW p \in Requests \ {q} PROVE InStep(p)'
  OBVIOUS
<1>1. InStep(p) /\ req'[p] = req[p] /\ req[p] \in Request
  BY DEF Inv, TypeOK
<1>2. AboutItsAnswer(p)'
  BY <1>1 DEF InStep, AboutItsAnswer
<1>3. PlanIsOfRows(p)'
  <2> SUFFICES ASSUME req[p].at = "rescoreApply", NEW r \in req[p].todo
               PROVE  req[p].seen[r] \in 0..Len(ledger'[r])
    BY <1>1 DEF PlanIsOfRows
  <2>1. r \in Responses
    BY <1>1 DEF Request
  <2>2. Len(ledger[r]) <= Len(ledger'[r]) /\ Len(ledger[r]) \in Nat /\ Len(ledger'[r]) \in Nat
    BY <2>1, RowsOf DEF Inv, Sound, Grows
  <2> QED
    BY <1>1, <2>2 DEF InStep, PlanIsOfRows
<1>4. ApprovesTheAi(p)'
  <2> SUFFICES ASSUME req[p].at \in {"approveChain", "approveInsert"}
               PROVE  ByTheAi(ledger'[req[p].cur])
    BY <1>1 DEF ApprovesTheAi
  <2> DEFINE r == req[p].cur
  <2>1. r \in Responses /\ ByTheAi(ledger[r])
    BY <1>1 DEF InStep, AboutItsAnswer, OfAnAnswer, ApprovesTheAi
  <2>2. DOMAIN ledger[r] \subseteq DOMAIN ledger'[r]
    BY <2>1, RowsOf DEF Inv, Sound, Grows
  <2> QED
    BY <2>1, <2>2 DEF ByTheAi, Grows
<1>5. HasItsClaim(p)'
  BY <1>1 DEF InStep, AboutItsAnswer, OfAnAnswer, HasItsClaim
<1>6. ScoresItOnce(p)'
  BY <1>1 DEF InStep, AboutItsAnswer, OfAnAnswer, ScoresItOnce
<1> QED
  BY <1>2, <1>3, <1>4, <1>5, <1>6 DEF InStep

\* The steps at which a request holds nothing that must stay in step.
Plain == {"idle", "autoRead", "autoFinals", "autoInsert", "snapshot", "next", "passBackCommit"}

\* At those steps every part of InStep holds.
LEMMA PlainIsInStep ==
  ASSUME NEW q, req[q].at \in Plain
  PROVE  InStep(q)
  BY DEF Plain, InStep, AboutItsAnswer, OfAnAnswer, PlanIsOfRows, ApprovesTheAi, HasItsClaim,
     ScoresItOnce

\* A request's own move keeps the types of the requests.
LEMMA Moves ==
  ASSUME TypeOK, NEW q \in Requests, NEW new \in Request, req' = [req EXCEPT ![q] = new]
  PROVE  /\ req' \in [Requests -> Request] /\ req'[q] = new
         /\ \A p \in Requests \ {q} : req'[p] = req[p]
  BY DEF TypeOK

\* The idle request, and one that starts on an answer.
LEMMA IdleType ==
  /\ Idle \in Request /\ Idle.at = "idle"
  /\ \A r \in Responses \cup {NoResponse}, at \in Steps :
       [Idle EXCEPT !.at = at, !.cur = r] \in Request
<1>1. Idle \in Request
  BY DEF Idle, Blank, Request, Steps
<1>2. Idle.at = "idle"
  BY DEF Idle
<1>3. \A r \in Responses \cup {NoResponse}, at \in Steps :
        [Idle EXCEPT !.at = at, !.cur = r] \in Request
  BY <1>1 DEF Request
<1> QED
  BY <1>1, <1>2, <1>3

\* A request goes on to its next step.
LEMMA GoesOn ==
  ASSUME TypeOK, NEW q \in Requests, NEW at \in Steps
  PROVE  /\ [req[q] EXCEPT !.at = at] \in Request /\ req[q] \in Request
         /\ [req[q] EXCEPT !.at = at].at = at /\ [req[q] EXCEPT !.at = at].cur = req[q].cur
<1>1. req[q] \in Request
  BY DEF TypeOK
<1>2. /\ [req[q] EXCEPT !.at = at] \in Request
      /\ [req[q] EXCEPT !.at = at].at = at /\ [req[q] EXCEPT !.at = at].cur = req[q].cur
  BY <1>1 DEF Request
<1> QED
  BY <1>1, <1>2

\* A step that changes its own request and perhaps the attempt's status.
LEMMA QuietStep ==
  ASSUME Inv, NEW q \in Requests, NEW new \in Request, req' = [req EXCEPT ![q] = new],
         UNCHANGED <<rest, text, ledger, claims>>, handedIn' \in BOOLEAN,
         new.at \in Plain \/ InStep(q)'
  PROVE  Inv'
<1>1. /\ req' \in [Requests -> Request] /\ req'[q] = new
      /\ \A p \in Requests \ {q} : req'[p] = req[p]
  BY Moves DEF Inv
<1>2. TypeOK'
  BY <1>1 DEF Inv, TypeOK, rest, claims
<1>3. \A r \in Responses : Sound(ledger[r])'
  BY DEF Inv
<1>4. InStep(q)'
  <2>1. ASSUME new.at \in Plain PROVE InStep(q)'
    <3>1. req'[q].at \in Plain
      BY <1>1, <2>1
    <3> QED
      BY <3>1 DEF Plain, InStep, AboutItsAnswer, OfAnAnswer, PlanIsOfRows, ApprovesTheAi,
         HasItsClaim, ScoresItOnce
  <2> QED
    BY <2>1
<1>5. \A p \in Requests \ {q} : InStep(p)'
  <2>1. \A r \in Responses : Grows(ledger[r], ledger'[r]) /\ ledger'[r] \in Seq(Row)
    BY RowsOf DEF Inv, Sound, Grows
  <2>2. claim' = claim /\ tookOver' = tookOver /\ ledger' = ledger
    BY DEF claims
  <2> QED
    BY <1>1, <2>1, <2>2, OthersInStep
<1> QED
  BY <1>2, <1>3, <1>4, <1>5 DEF Inv

\* A step that writes to the table, or to an answer, and is done.
LEMMA WritingStep ==
  ASSUME Inv, NEW q \in Requests, Done(q),
         UNCHANGED <<key, scoring, claims>>,
         handedIn' \in BOOLEAN, passBacks' \in 0..MaxPassBacks,
         text' \in [Responses -> Texts],
         ledger' \in [Responses -> Seq(Row)],
         \A r \in Responses : /\ Sound(ledger'[r]) /\ Grows(ledger[r], ledger'[r])
                              /\ Len(ledger'[r]) <= MaxRows
                              /\ ByTheAi(ledger'[r]) => ByTheAi(ledger[r])
  PROVE  Inv'
<1>1. /\ req' \in [Requests -> Request] /\ req'[q].at = "idle"
      /\ \A p \in Requests \ {q} : req'[p] = req[p]
  BY Moves, IdleType DEF Inv, Done
<1>2. TypeOK'
  BY <1>1 DEF Inv, TypeOK, claims
<1>3. \A r \in Responses : Sound(ledger[r])'
  OBVIOUS
<1>4. InStep(q)'
  BY <1>1 DEF InStep, AboutItsAnswer, OfAnAnswer, PlanIsOfRows, ApprovesTheAi, HasItsClaim,
     ScoresItOnce
<1>5. \A p \in Requests \ {q} : InStep(p)'
  BY <1>1, OthersInStep DEF claims
<1> QED
  BY <1>2, <1>3, <1>4, <1>5 DEF Inv

-----------------------------------------------------------------------------
(* The steps that read *)

\* Onward leaves a request idle or at its next answer.
LEMMA OnwardMoves ==
  ASSUME TypeOK, NEW q \in Requests, NEW todo \in SUBSET Responses, Onward(q, todo)
  PROVE  \E new \in Request : new.at \in Plain /\ req' = [req EXCEPT ![q] = new]
<1> DEFINE on == [req[q] EXCEPT !.at = "next", !.cur = NoResponse, !.todo = todo]
           new == IF todo = {} THEN Idle ELSE on
<1>1. on \in Request /\ on.at = "next"
  <2>1. req[q] \in Request
    BY DEF TypeOK
  <2> QED
    BY <2>1 DEF Request, Steps
<1>2. new \in Request /\ new.at \in Plain
  BY <1>1, IdleType DEF Plain
<1>3. req' = [req EXCEPT ![q] = new]
  BY DEF Onward, TypeOK
<1> QED
  BY <1>2, <1>3

\* The auto pass, up to its insert.
LEMMA AutoReads ==
  ASSUME Inv, NEW q \in Requests, HandIn(q) \/ ScoreAttempt(q) \/ AutoRead(q) \/ AutoFinals(q)
  PROVE  Inv'
<1>1. CASE HandIn(q) \/ ScoreAttempt(q)
  <2> DEFINE new == [Idle EXCEPT !.at = "autoRead", !.cur = NoResponse]
  <2>1. new \in Request /\ new.at \in Plain
    BY IdleType DEF Idle, Plain, Steps
  <2>2. req' = [req EXCEPT ![q] = new]
    BY <1>1 DEF HandIn, ScoreAttempt, Start
  <2>3. handedIn' \in BOOLEAN /\ UNCHANGED <<rest, text, ledger, claims>>
    BY <1>1 DEF HandIn, ScoreAttempt, Inv, TypeOK
  <2> HIDE DEF new
  <2> QED
    BY <2>1, <2>2, <2>3, QuietStep
<1>2. CASE AutoRead(q)
  <2> DEFINE new == [req[q] EXCEPT !.text = text, !.key = key, !.at = "autoFinals"]
  <2>1. new \in Request /\ new.at \in Plain
    <3>1. /\ req[q] \in Request /\ text \in [Responses -> Texts \cup {NoText}]
          /\ key \in [Responses -> Texts \cup {NoText}]
      BY DEF Inv, TypeOK
    <3>2. "autoFinals" \in Steps \cap Plain
      BY DEF Steps, Plain
    <3> QED
      BY <3>1, <3>2 DEF Request
  <2>2. req' = [req EXCEPT ![q] = new]
    BY <1>2 DEF AutoRead, Inv, TypeOK
  <2>3. handedIn' \in BOOLEAN /\ UNCHANGED <<rest, text, ledger, claims>>
    BY <1>2 DEF AutoRead, Inv, TypeOK
  <2> HIDE DEF new
  <2> QED
    BY <2>1, <2>2, <2>3, QuietStep
<1>3. CASE AutoFinals(q)
  <2> DEFINE todo == {r \in Responses : scoring[r] = "auto" /\ ~HasFinal(r)}
             new == IF todo = {} THEN Idle ELSE [req[q] EXCEPT !.todo = todo, !.at = "autoInsert"]
  <2>1. new \in Request /\ new.at \in Plain
    <3>1. req[q] \in Request /\ todo \in SUBSET Responses
      BY DEF Inv, TypeOK
    <3> HIDE DEF todo
    <3>2. [req[q] EXCEPT !.todo = todo, !.at = "autoInsert"] \in Request
      BY <3>1 DEF Request, Steps
    <3>3. [req[q] EXCEPT !.todo = todo, !.at = "autoInsert"].at = "autoInsert"
      BY <3>1 DEF Request
    <3> QED
      BY <3>2, <3>3, IdleType DEF Plain
  <2>2. req' = [req EXCEPT ![q] = new]
    BY <1>3 DEF AutoFinals, Done, Inv, TypeOK
  <2>3. handedIn' \in BOOLEAN /\ UNCHANGED <<rest, text, ledger, claims>>
    BY <1>3 DEF AutoFinals, Inv, TypeOK
  <2> HIDE DEF new
  <2> QED
    BY <2>1, <2>2, <2>3, QuietStep
<1> QED
  BY <1>1, <1>2, <1>3

\* A run's start, its snapshot, and the answers it leaves out.
LEMMA RunReads ==
  ASSUME Inv, NEW q \in Requests,
         BatchStart(q) \/ BatchSnapshot(q) \/ \E r \in Responses : Rerun(q, r) \/ Withhold(q, r)
  PROVE  Inv'
<1>1. CASE BatchStart(q)
  <2> DEFINE new == [Idle EXCEPT !.at = "snapshot", !.skipIfScored = TRUE]
  <2>1. new \in Request /\ new.at \in Plain
    <3>1. new \in Request
      BY DEF Idle, Blank, Request, Steps
    <3>2. new.at \in Plain
      BY DEF Idle, Plain
    <3> QED
      BY <3>1, <3>2
  <2>2. req' = [req EXCEPT ![q] = new]
    BY <1>1 DEF BatchStart
  <2>3. handedIn' \in BOOLEAN /\ UNCHANGED <<rest, text, ledger, claims>>
    BY <1>1 DEF BatchStart, Inv, TypeOK
  <2> HIDE DEF new
  <2> QED
    BY <2>1, <2>2, <2>3, QuietStep
<1>2. CASE BatchSnapshot(q)
  <2>1. {r \in Responses : ByAi(r) /\ ledger[r] = <<>>} \in SUBSET Responses
    OBVIOUS
  <2>2. PICK new \in Request : new.at \in Plain /\ req' = [req EXCEPT ![q] = new]
    BY <1>2, <2>1, OnwardMoves DEF BatchSnapshot, Inv
  <2>3. handedIn' \in BOOLEAN /\ UNCHANGED <<rest, text, ledger, claims>>
    BY <1>2 DEF BatchSnapshot, Inv, TypeOK
  <2> QED
    BY <2>2, <2>3, QuietStep
<1>3. ASSUME NEW r \in Responses, Rerun(q, r) PROVE Inv'
  <2> DEFINE new == [Idle EXCEPT !.todo = {r}, !.at = "next"]
  <2>1. new \in Request /\ new.at \in Plain
    <3>1. new \in Request
      BY DEF Idle, Blank, Request, Steps
    <3>2. new.at \in Plain
      BY DEF Idle, Plain
    <3> QED
      BY <3>1, <3>2
  <2>2. req' = [req EXCEPT ![q] = new]
    BY <1>3 DEF Rerun
  <2>3. handedIn' \in BOOLEAN /\ UNCHANGED <<rest, text, ledger, claims>>
    BY <1>3 DEF Rerun, Inv, TypeOK
  <2> HIDE DEF new
  <2> QED
    BY <2>1, <2>2, <2>3, QuietStep
<1>4. ASSUME NEW r \in Responses, Withhold(q, r) PROVE Inv'
  <2>1. req[q].todo \ {r} \in SUBSET Responses
    BY DEF Inv, TypeOK, Request
  <2>2. PICK new \in Request : new.at \in Plain /\ req' = [req EXCEPT ![q] = new]
    BY <1>4, <2>1, OnwardMoves DEF Withhold, Inv
  <2>3. handedIn' \in BOOLEAN /\ UNCHANGED <<rest, text, ledger, claims>>
    BY <1>4 DEF Withhold, Inv, TypeOK
  <2> QED
    BY <2>2, <2>3, QuietStep
<1> QED
  BY <1>1, <1>2, <1>3, <1>4

\* The recheck under the claim: the run scores an answer that has no row at all.
LEMMA RecheckInv ==
  ASSUME Inv, NEW q \in Requests, Recheck(q)
  PROVE  Inv'
<1> DEFINE r == req[q].cur
           new == [req[q] EXCEPT !.at = IF Scored(r) THEN "release" ELSE "scoring"]
<1>1. new \in Request /\ req[q] \in Request
  <2>1. (IF Scored(r) THEN "release" ELSE "scoring") \in Steps
    BY DEF Steps
  <2> QED
    BY <2>1, GoesOn DEF Inv
<1>2. req' = [req EXCEPT ![q] = new]
  BY DEF Recheck, Goto, Inv, TypeOK
<1>3. UNCHANGED <<rest, text, ledger, claims>> /\ handedIn' \in BOOLEAN
  BY DEF Recheck, Inv, TypeOK
<1>4. req'[q] = new /\ new.at \in {"release", "scoring"} /\ new.cur = r
  BY <1>1, <1>2, Moves DEF Inv, Request
<1>5. r \in Responses /\ (claim[r] = q \/ tookOver[r])
  BY DEF Recheck, Inv, InStep, AboutItsAnswer, OfAnAnswer, HasItsClaim
<1>6. new.at = "scoring" => ~ByTheAi(ledger[r])
  BY <1>1 DEF Scored, ByTheAi, Request
<1> HIDE DEF new
<1>7. InStep(q)'
  BY <1>3, <1>4, <1>5, <1>6
     DEF InStep, AboutItsAnswer, OfAnAnswer, PlanIsOfRows, ApprovesTheAi, HasItsClaim, ScoresItOnce,
         claims
<1> QED
  BY <1>1, <1>2, <1>3, <1>7, QuietStep

\* A teacher's decision reads: the proposal approved is a row of the AI's.
LEMMA DecisionReads ==
  ASSUME Inv, NEW q \in Requests, NEW r \in Responses, Approve(q, r) \/ Score(q, r) \/ Change(q, r)
  PROVE  Inv'
<1>1. PICK at \in {"approveChain", "scoreInsert", "changeCommit"} :
        /\ req' = [req EXCEPT ![q] = [Idle EXCEPT !.at = at, !.cur = r]]
        /\ at = "approveChain" => ByTheAi(ledger[r])
  BY DEF Approve, Score, Change, Start, Inv, Sound, ByTheAi
<1> DEFINE new == [Idle EXCEPT !.at = at, !.cur = r]
<1>2. new \in Request /\ new.at = at /\ new.cur = r
  BY IdleType DEF Steps, Idle
<1>3. UNCHANGED <<rest, text, ledger, claims>> /\ handedIn' \in BOOLEAN
  BY DEF Approve, Score, Change, Inv, TypeOK
<1> HIDE DEF new
<1>4. req' = [req EXCEPT ![q] = new]
  BY <1>1 DEF new
<1>5. req'[q] = new
  BY <1>2, <1>4, Moves DEF Inv
<1>6. InStep(q)'
  BY <1>1, <1>2, <1>3, <1>5
     DEF InStep, AboutItsAnswer, OfAnAnswer, PlanIsOfRows, ApprovesTheAi, HasItsClaim, ScoresItOnce
<1> QED
  BY <1>2, <1>3, <1>4, <1>6, QuietStep

\* loadResponseChain goes on to the insert or gives up.
LEMMA ApproveChainInv ==
  ASSUME Inv, NEW q \in Requests, ApproveChain(q)
  PROVE  Inv'
<1> DEFINE on == [req[q] EXCEPT !.at = "approveInsert"]
<1>1. on \in Request /\ on.at = "approveInsert" /\ on.cur = req[q].cur
  <2>1. "approveInsert" \in Steps
    BY DEF Steps
  <2> QED
    BY <2>1, GoesOn DEF Inv
<1>2. UNCHANGED <<rest, text, ledger, claims>> /\ handedIn' \in BOOLEAN
  BY DEF ApproveChain, Inv, TypeOK
<1>3. CASE Done(q)
  BY <1>2, <1>3, IdleType, QuietStep DEF Done, Plain
<1>4. CASE ~Done(q)
  <2>1. req' = [req EXCEPT ![q] = on]
    BY <1>4 DEF ApproveChain, Goto, Inv, TypeOK
  <2>2. req'[q] = on
    BY <1>1, <2>1, Moves DEF Inv
  <2>3. req[q].cur \in Responses /\ ByTheAi(ledger[req[q].cur])
    BY DEF ApproveChain, Inv, InStep, AboutItsAnswer, OfAnAnswer, ApprovesTheAi
  <2> HIDE DEF on
  <2>4. InStep(q)'
    BY <1>1, <1>2, <2>2, <2>3
       DEF InStep, AboutItsAnswer, OfAnAnswer, PlanIsOfRows, ApprovesTheAi, HasItsClaim, ScoresItOnce
  <2> QED
    BY <1>1, <1>2, <2>1, <2>4, QuietStep
<1> QED
  BY <1>3, <1>4

\* planRescore: the row a plan replaces is one of the answer's.
LEMMA FinalOfARow ==
  ASSUME NEW rows \in Seq(Row)
  PROVE  FinalOf(rows) \in 0..Len(rows) /\ FinalOf(rows) \in Nat
<1>1. Len(rows) \in Nat /\ Finals(rows) \subseteq 1..Len(rows)
  BY RowsOf DEF Finals
<1>2. Finals(rows) # {} => FinalOf(rows) \in Finals(rows)
  BY DEF FinalOf
<1> QED
  BY <1>1, <1>2 DEF FinalOf

\* A plan is made of rows there are.
LEMMA RescoreInv ==
  ASSUME Inv, NEW q \in Requests, Rescore(q)
  PROVE  Inv'
<1> DEFINE seen == [r \in Responses |-> IF Rescores(r) THEN FinalOf(ledger[r]) ELSE 0]
           todo == {r \in Responses : Rescores(r)}
           new == [Idle EXCEPT !.at = "rescoreApply", !.text = text, !.key = key,
                               !.todo = todo, !.seen = seen]
<1>1. /\ seen \in [Responses -> Nat] /\ todo \in SUBSET Responses
      /\ \A r \in Responses : seen[r] \in 0..Len(ledger[r])
  BY FinalOfARow, RowsOf DEF Inv, Sound
<1>2. req' = [req EXCEPT ![q] = new]
  BY DEF Rescore
<1>3. text \in [Responses -> Texts] /\ key \in [Responses -> Texts]
  BY DEF Inv, TypeOK
<1> HIDE DEF seen, todo
<1>4. new \in Request
  BY <1>1, <1>3 DEF Idle, Blank, Request, Steps
<1>5. new.at = "rescoreApply" /\ new.seen = seen /\ new.todo = todo
  BY DEF Idle
<1>6. UNCHANGED <<rest, text, ledger, claims>> /\ handedIn' \in BOOLEAN
  BY DEF Rescore, Inv, TypeOK
<1> HIDE DEF new
<1>7. req'[q] = new
  BY <1>2, <1>4, Moves DEF Inv
<1>8. InStep(q)'
  BY <1>1, <1>5, <1>6, <1>7
     DEF InStep, AboutItsAnswer, OfAnAnswer, PlanIsOfRows, ApprovesTheAi, HasItsClaim, ScoresItOnce
<1> QED
  BY <1>2, <1>4, <1>6, <1>8, QuietStep

\* A restore and a student's save hold the text they will write.
LEMMA TextReads ==
  ASSUME Inv, NEW q \in Requests, NEW r \in Responses, NEW t \in Texts, Restore(q, r, t) \/ Write(q, r, t)
  PROVE  Inv'
<1>1. PICK at \in {"restoreCommit", "writeCommit"}, read \in BOOLEAN :
        req' = [req EXCEPT ![q] = [Idle EXCEPT !.at = at, !.cur = r, !.text[r] = t,
                                               !.handedIn = read]]
  <2>1. CASE Restore(q, r, t)
    BY <2>1 DEF Restore, Inv, TypeOK
  <2>2. CASE Write(q, r, t)
    <3> DEFINE one == [Idle EXCEPT !.at = "writeCommit", !.cur = r, !.text[r] = t]
    <3>1. one = [one EXCEPT !.handedIn = FALSE]
      <4>1. one.handedIn = FALSE
        BY DEF Idle
      <4>2. one \in Request
        BY DEF Idle, Blank, Request, Steps
      <4> HIDE DEF one
      <4> QED
        BY <4>1, <4>2 DEF Request
    <3>2. [one EXCEPT !.handedIn = FALSE]
            = [Idle EXCEPT !.at = "writeCommit", !.cur = r, !.text[r] = t, !.handedIn = FALSE]
      OBVIOUS
    <3> QED
      BY <2>2, <3>1, <3>2 DEF Write
  <2> QED
    BY <2>1, <2>2
<1> DEFINE new == [Idle EXCEPT !.at = at, !.cur = r, !.text[r] = t, !.handedIn = read]
<1>2. new \in Request
  BY DEF Idle, Blank, Request, Steps
<1>3. new.at = at /\ new.cur = r /\ new.text[r] = t
  BY DEF Idle, Blank
<1>4. UNCHANGED <<rest, text, ledger, claims>> /\ handedIn' \in BOOLEAN
  BY DEF Restore, Write, Inv, TypeOK
<1> HIDE DEF new
<1>5. req' = [req EXCEPT ![q] = new]
  BY <1>1 DEF new
<1>6. req'[q] = new
  BY <1>2, <1>5, Moves DEF Inv
<1>7. InStep(q)'
  BY <1>3, <1>4, <1>6
     DEF InStep, AboutItsAnswer, OfAnAnswer, PlanIsOfRows, ApprovesTheAi, HasItsClaim, ScoresItOnce
<1> QED
  BY <1>2, <1>4, <1>5, <1>7, QuietStep

\* Pass back has read that the attempt is handed in.
LEMMA PassBackInv ==
  ASSUME Inv, NEW q \in Requests, PassBack(q)
  PROVE  Inv'
<1> DEFINE new == [Idle EXCEPT !.at = "passBackCommit", !.cur = NoResponse]
<1>1. new \in Request /\ new.at \in Plain
  BY IdleType DEF Idle, Plain, Steps
<1>2. req' = [req EXCEPT ![q] = new] /\ UNCHANGED <<rest, text, ledger, claims>>
  BY DEF PassBack, Start
<1>3. handedIn' \in BOOLEAN
  BY DEF PassBack, Inv, TypeOK
<1> HIDE DEF new
<1> QED
  BY <1>1, <1>2, <1>3, QuietStep

-----------------------------------------------------------------------------
(* The claim *)

\* Claims that change hands as the lease allows leave the others in step.
LEMMA ClaimsStep ==
  ASSUME Inv, NEW q \in Requests, req' \in [Requests -> Request],
         \A p \in Requests \ {q} : req'[p] = req[p],
         UNCHANGED <<rest, handedIn, text, ledger>>,
         claim' \in [Responses -> Requests \cup {Free, Abandoned}],
         expired' \in [Responses -> BOOLEAN], tookOver' \in [Responses -> BOOLEAN],
         \A r \in Responses : tookOver[r] => tookOver'[r],
         \A r \in Responses : \A p \in Requests \ {q} :
           claim[r] = p => claim'[r] = p \/ tookOver'[r],
         InStep(q)'
  PROVE  Inv'
<1>1. TypeOK'
  BY DEF Inv, TypeOK, rest
<1>2. \A r \in Responses : Sound(ledger[r])'
  BY DEF Inv
<1>3. \A p \in Requests \ {q} : InStep(p)'
  <2>1. \A r \in Responses : Grows(ledger[r], ledger'[r]) /\ ledger'[r] \in Seq(Row)
    BY RowsOf DEF Inv, Sound, Grows
  <2> QED
    BY <2>1, OthersInStep
<1> QED
  BY <1>1, <1>2, <1>3 DEF Inv

\* A claim is taken from nobody, from a task that died, or by a takeover.
LEMMA ClaimInv ==
  ASSUME Inv, NEW q \in Requests, NEW r \in Responses, Claim(q, r)
  PROVE  Inv'
<1>1. CASE ~Claimable(r)
  <2>1. req[q].todo \ {r} \in SUBSET Responses
    BY DEF Inv, TypeOK, Request
  <2>2. PICK new \in Request : new.at \in Plain /\ req' = [req EXCEPT ![q] = new]
    BY <1>1, <2>1, OnwardMoves DEF Claim, Inv
  <2>3. handedIn' \in BOOLEAN /\ UNCHANGED <<rest, text, ledger, claims>>
    BY <1>1 DEF Claim, Inv, TypeOK
  <2> QED
    BY <2>2, <2>3, QuietStep
<1>2. CASE Claimable(r)
  <2> DEFINE new == [req[q] EXCEPT !.cur = r,
                       !.at = IF req[q].skipIfScored THEN "recheck" ELSE "scoring"]
  <2>1. /\ new \in Request /\ new.cur = r
        /\ \/ new.at = "recheck"
           \/ new.at = "scoring" /\ ~new.skipIfScored
    <3>1. req[q] \in Request
      BY DEF Inv, TypeOK
    <3> QED
      BY <3>1 DEF Request, Steps
  <2>2. /\ req' = [req EXCEPT ![q] = new]
        /\ claim' = [claim EXCEPT ![r] = q]
        /\ expired' = [expired EXCEPT ![r] = FALSE]
        /\ tookOver' = [tookOver EXCEPT ![r] = @ \/ claim[r] \in Requests]
        /\ UNCHANGED <<rest, handedIn, text, ledger>>
    BY <1>2 DEF Claim, Inv, TypeOK
  <2> HIDE DEF new
  <2>3. /\ req' \in [Requests -> Request] /\ req'[q] = new
        /\ \A p \in Requests \ {q} : req'[p] = req[p]
    BY <2>1, <2>2, Moves DEF Inv
  <2>4. claim' \in [Responses -> Requests \cup {Free, Abandoned}] /\ claim'[r] = q
    BY <2>2 DEF Inv, TypeOK
  <2>5. expired' \in [Responses -> BOOLEAN] /\ tookOver' \in [Responses -> BOOLEAN]
    BY <2>2 DEF Inv, TypeOK
  <2>6. \A s \in Responses : tookOver[s] => tookOver'[s]
    BY <2>2 DEF Inv, TypeOK
  <2>7. ASSUME NEW s \in Responses, NEW p \in Requests \ {q}, claim[s] = p
        PROVE  claim'[s] = p \/ tookOver'[s]
    BY <2>2, <2>7 DEF Inv, TypeOK
  <2>8. InStep(q)'
    BY <2>1, <2>3, <2>4
       DEF InStep, AboutItsAnswer, OfAnAnswer, PlanIsOfRows, ApprovesTheAi, HasItsClaim, ScoresItOnce
  <2> QED
    BY <2>2, <2>3, <2>4, <2>5, <2>6, <2>7, <2>8, ClaimsStep
<1> QED
  BY <1>1, <1>2

\* The finally block frees its own claim and nobody else's.
LEMMA ReleaseInv ==
  ASSUME Inv, NEW q \in Requests, Release(q)
  PROVE  Inv'
<1> DEFINE r == req[q].cur
<1>1. r \in Responses
  BY DEF Release, Inv, InStep, AboutItsAnswer, OfAnAnswer
<1>2. req[q].todo \ {r} \in SUBSET Responses
  BY DEF Inv, TypeOK, Request
<1>3. PICK new \in Request : new.at \in Plain /\ req' = [req EXCEPT ![q] = new]
  BY <1>2, OnwardMoves DEF Release, Inv
<1>4. /\ claim' = [claim EXCEPT ![r] = Released(q, r)]
      /\ expired' = [expired EXCEPT ![r] = @ /\ claim'[r] # Free]
      /\ UNCHANGED <<rest, handedIn, text, ledger, tookOver>>
  BY DEF Release
<1>5. /\ req' \in [Requests -> Request] /\ req'[q] = new
      /\ \A p \in Requests \ {q} : req'[p] = req[p]
  BY <1>3, Moves DEF Inv
<1>6. claim' \in [Responses -> Requests \cup {Free, Abandoned}]
  BY <1>1, <1>4 DEF Released, Inv, TypeOK
<1>7. expired' \in [Responses -> BOOLEAN] /\ tookOver' \in [Responses -> BOOLEAN]
  BY <1>4 DEF Inv, TypeOK
<1>8. \A s \in Responses : \A p \in Requests \ {q} : claim[s] = p => claim'[s] = p
  BY <1>1, <1>4 DEF Released, Inv, TypeOK
<1>9. InStep(q)'
  <2>1. req'[q].at \in Plain
    BY <1>3, <1>5
  <2> QED
    BY <2>1 DEF Plain, InStep, AboutItsAnswer, OfAnAnswer, PlanIsOfRows, ApprovesTheAi,
       HasItsClaim, ScoresItOnce
<1> QED
  BY <1>4, <1>5, <1>6, <1>7, <1>8, <1>9, ClaimsStep

\* A request that dies leaves its claims to nobody.
LEMMA DieInv ==
  ASSUME Inv, NEW q \in Requests, Die(q)
  PROVE  Inv'
<1>1. /\ req' \in [Requests -> Request] /\ req'[q] = Idle
      /\ \A p \in Requests \ {q} : req'[p] = req[p]
  BY Moves, IdleType DEF Die, Done, Inv
<1>2. /\ claim' = [r \in Responses |-> IF claim[r] = q THEN Abandoned ELSE claim[r]]
      /\ UNCHANGED <<rest, handedIn, text, ledger, expired, tookOver>>
  BY DEF Die
<1>3. claim' \in [Responses -> Requests \cup {Free, Abandoned}]
  BY <1>2 DEF Inv, TypeOK
<1>4. expired' \in [Responses -> BOOLEAN] /\ tookOver' \in [Responses -> BOOLEAN]
  BY <1>2 DEF Inv, TypeOK
<1>5. \A r \in Responses : \A p \in Requests \ {q} : claim[r] = p => claim'[r] = p
  BY <1>2
<1>6. InStep(q)'
  <2>1. req'[q].at = "idle"
    BY <1>1, IdleType
  <2> QED
    BY <2>1 DEF InStep, AboutItsAnswer, OfAnAnswer, PlanIsOfRows, ApprovesTheAi, HasItsClaim,
       ScoresItOnce
<1> QED
  BY <1>1, <1>2, <1>3, <1>4, <1>5, <1>6, ClaimsStep

\* The TTL passes and a teacher edits a key: nothing a request relies on.
LEMMA AroundInv ==
  ASSUME Inv, \/ \E r \in Responses : Expire(r)
              \/ \E r \in Responses, t \in Texts : EditKey(r, t)
              \/ UNCHANGED vars
  PROVE  Inv'
<1>1. UNCHANGED <<handedIn, passBacks, scoring, text, ledger, claim, tookOver, req>>
  BY DEF Expire, EditKey, vars, rest, claims
<1>2. key' \in [Responses -> Texts]
  BY DEF Inv, TypeOK, Expire, EditKey, vars, rest
<1>3. expired' \in [Responses -> BOOLEAN]
  BY DEF Inv, TypeOK, Expire, EditKey, vars, claims
<1>4. TypeOK'
  BY <1>1, <1>2, <1>3 DEF Inv, TypeOK
<1>5. \A q \in Requests : InStep(q)'
  BY <1>1 DEF Inv, InStep, AboutItsAnswer, PlanIsOfRows, ApprovesTheAi, HasItsClaim, ScoresItOnce
<1> QED
  BY <1>1, <1>4, <1>5 DEF Inv

-----------------------------------------------------------------------------
(* The steps that write *)

\* NewRow makes a row.
LEMMA NewRowType ==
  ASSUME NEW method \in {"auto", "ai", "human"}, NEW status \in {"proposed", "final", "superseded"}
  PROVE  /\ NewRow(method, status) \in Row
         /\ NewRow(method, status).method = method /\ NewRow(method, status).status = status
         /\ NewRow(method, status).from = 0
  BY DEF NewRow, Row

\* Rows that are left alone.
LEMMA KeptIsSound ==
  ASSUME Inv, NEW r \in Responses
  PROVE  /\ Sound(ledger[r]) /\ Grows(ledger[r], ledger[r]) /\ Len(ledger[r]) \in 0..MaxRows
  BY RowsOf, LedgerAssumption DEF Inv, TypeOK, Sound, Grows

\* WritingStep, of the rows of one answer.
LEMMA OneAnswerWritten ==
  ASSUME Inv, NEW q \in Requests, Done(q),
         UNCHANGED <<rest, handedIn, claims>>, text' \in [Responses -> Texts],
         NEW r \in Responses, NEW rows, ledger' = [ledger EXCEPT ![r] = rows],
         Sound(rows), Grows(ledger[r], rows), Len(rows) <= MaxRows,
         ByTheAi(rows) => ByTheAi(ledger[r])
  PROVE  Inv'
<1>1. /\ key' = key /\ scoring' = scoring /\ UNCHANGED claims
      /\ handedIn' \in BOOLEAN /\ passBacks' \in 0..MaxPassBacks
  BY DEF Inv, TypeOK, rest
<1>2. ledger' \in [Responses -> Seq(Row)]
  BY DEF Inv, TypeOK, Sound
<1>3. ASSUME NEW s \in Responses
      PROVE  /\ Sound(ledger'[s]) /\ Grows(ledger[s], ledger'[s])
             /\ Len(ledger'[s]) <= MaxRows
             /\ ByTheAi(ledger'[s]) => ByTheAi(ledger[s])
  BY KeptIsSound DEF Inv, TypeOK
<1> QED
  BY <1>1, <1>2, <1>3, WritingStep

\* The auto pass puts down a row of its own.
LEMMA AutoFinalType ==
  ASSUME NEW q \in Requests, NEW r \in Responses
  PROVE  /\ AutoFinal(q, r) \in Row /\ AutoFinal(q, r).method = "auto"
         /\ AutoFinal(q, r).status = "final" /\ AutoFinal(q, r).from = 0
<1>1. Worth(req[q].text[r], req[q].key[r]) \in {0, 1}
  BY DEF Worth
<1> QED
  BY <1>1 DEF AutoFinal, NewRow, Row

\* A rescore's row names the one it replaces.
LEMMA RescoredType ==
  ASSUME NEW q \in Requests, NEW r \in Responses, NEW i \in Nat
  PROVE  LET row == [AutoFinal(q, r) EXCEPT !.from = i]
         IN  row \in Row /\ row.method = "auto" /\ row.status = "final" /\ row.from = i
<1>1. Worth(req[q].text[r], req[q].key[r]) \in {0, 1}
  BY DEF Worth
<1> QED
  BY <1>1 DEF AutoFinal, NewRow, Row

\* The auto pass adds finals where the index lets it.
LEMMA AutoInsertInv ==
  ASSUME Inv, NEW q \in Requests, AutoInsert(q)
  PROVE  Inv'
<1>1. ASSUME NEW r \in Responses
      PROVE  /\ Sound(ledger'[r]) /\ Grows(ledger[r], ledger'[r]) /\ Len(ledger'[r]) <= MaxRows
             /\ ByTheAi(ledger'[r]) => ByTheAi(ledger[r])
  <2>1. CASE r \notin req[q].todo
    <3>1. ledger'[r] = ledger[r]
      BY <2>1 DEF AutoInsert
    <3> QED
      BY <3>1, KeptIsSound
  <2>2. CASE r \in req[q].todo
    <3>1. /\ AutoFinal(q, r) \in Row /\ AutoFinal(q, r).method = "auto"
          /\ AutoFinal(q, r).status = "final" /\ AutoFinal(q, r).from = 0
      BY AutoFinalType
    <3>2. ledger'[r] = Insert(ledger[r], AutoFinal(q, r)) /\ Len(ledger[r]) < MaxRows
      <4>1. Room(r)
        BY <2>2 DEF AutoInsert
      <4>2. ledger'[r] = Insert(ledger[r], AutoFinal(q, r))
        BY <2>2 DEF AutoInsert
      <4> QED
        BY <4>1, <4>2 DEF Room
    <3>3. Sound(ledger[r]) /\ Len(ledger[r]) \in Nat
      BY KeptIsSound
    <3>4. /\ Sound(Insert(ledger[r], AutoFinal(q, r)))
          /\ Grows(ledger[r], Insert(ledger[r], AutoFinal(q, r)))
          /\ Len(Insert(ledger[r], AutoFinal(q, r))) <= Len(ledger[r]) + 1
          /\ ByTheAi(Insert(ledger[r], AutoFinal(q, r))) => ByTheAi(ledger[r])
      BY <3>1, <3>3, InsertIsSound
    <3>5. Len(ledger'[r]) \in Nat
      BY <3>2, <3>4, RowsOf DEF Sound
    <3> QED
      BY <3>2, <3>3, <3>4, <3>5, LedgerAssumption
  <2> QED
    BY <2>1, <2>2
<1>2. ledger' \in [Responses -> Seq(Row)]
  BY <1>1 DEF AutoInsert, Sound
<1>3. /\ Done(q) /\ UNCHANGED <<key, scoring, claims>> /\ handedIn' \in BOOLEAN
      /\ passBacks' \in 0..MaxPassBacks /\ text' \in [Responses -> Texts]
  BY DEF AutoInsert, rest, Inv, TypeOK
<1> QED
  BY <1>1, <1>2, <1>3, WritingStep

\* The scorer's result comes under a claim: the others at work on that answer
\* have lost theirs.
LEMMA AiInsertInv ==
  ASSUME Inv, NEW q \in Requests, AiInsert(q)
  PROVE  Inv'
<1> DEFINE r == req[q].cur
           new == [req[q] EXCEPT !.at = "release"]
<1>1. r \in Responses /\ (claim[r] = q \/ tookOver[r])
  BY DEF AiInsert, Inv, InStep, AboutItsAnswer, OfAnAnswer, HasItsClaim
<1>2. new \in Request /\ new.at = "release" /\ new.cur = r
  <2>1. "release" \in Steps
    BY DEF Steps
  <2> QED
    BY <2>1, GoesOn DEF Inv
<1>3. req' = [req EXCEPT ![q] = new] /\ UNCHANGED <<rest, handedIn, text, claims>>
  BY DEF AiInsert, Goto, Inv, TypeOK
<1> HIDE DEF new
<1>4. /\ req' \in [Requests -> Request] /\ req'[q] = new
      /\ \A p \in Requests \ {q} : req'[p] = req[p]
  BY <1>2, <1>3, Moves DEF Inv
<1>5. PICK rows : /\ ledger' = [ledger EXCEPT ![r] = rows]
                  /\ Sound(rows) /\ Grows(ledger[r], rows) /\ Len(rows) <= MaxRows
  <2>1. Sound(ledger[r]) /\ Grows(ledger[r], ledger[r]) /\ Len(ledger[r]) \in 0..MaxRows
    BY <1>1, KeptIsSound
  <2>2. ASSUME UNCHANGED ledger
        PROVE  ledger' = [ledger EXCEPT ![r] = ledger[r]] /\ Len(ledger[r]) <= MaxRows
    BY <2>1, <2>2 DEF Inv, TypeOK
  <2>3. ASSUME NEW status \in {"proposed", "final"}, Room(r)
        PROVE  /\ Sound(Insert(ledger[r], NewRow("ai", status)))
               /\ Grows(ledger[r], Insert(ledger[r], NewRow("ai", status)))
               /\ Len(Insert(ledger[r], NewRow("ai", status))) <= MaxRows
    <3>1. /\ NewRow("ai", status) \in Row /\ NewRow("ai", status).method = "ai"
          /\ NewRow("ai", status).from = 0
      BY NewRowType
    <3>2. /\ Sound(Insert(ledger[r], NewRow("ai", status)))
          /\ Grows(ledger[r], Insert(ledger[r], NewRow("ai", status)))
          /\ Len(Insert(ledger[r], NewRow("ai", status))) <= Len(ledger[r]) + 1
      BY <2>1, <3>1, InsertIsSound
    <3>3. Len(Insert(ledger[r], NewRow("ai", status))) \in Nat
      BY <3>2, RowsOf DEF Sound
    <3> QED
      BY <2>1, <2>3, <3>2, <3>3, LedgerAssumption DEF Room
  <2>4. CASE UNCHANGED ledger
    BY <2>1, <2>2, <2>4
  <2>5. CASE ~UNCHANGED ledger
    <3>1. PICK status \in {"proposed", "final"} :
            Room(r) /\ ledger' = [ledger EXCEPT ![r] = Insert(ledger[r], NewRow("ai", status))]
      BY <2>5 DEF AiInsert
    <3> QED
      BY <2>3, <3>1
  <2> QED
    BY <2>4, <2>5
<1>6. /\ ledger'[r] = rows /\ ledger' \in [Responses -> Seq(Row)]
      /\ \A s \in Responses \ {r} : ledger'[s] = ledger[s]
  BY <1>1, <1>5 DEF Inv, TypeOK, Sound
<1>7. ASSUME NEW s \in Responses
      PROVE  Sound(ledger'[s]) /\ Grows(ledger[s], ledger'[s]) /\ Len(ledger'[s]) <= MaxRows
  BY <1>5, <1>6, KeptIsSound DEF Inv, TypeOK
<1>8. TypeOK'
  BY <1>3, <1>4, <1>6, <1>7 DEF Inv, TypeOK, rest, claims
<1>9. InStep(q)'
  BY <1>1, <1>2, <1>3, <1>4
     DEF InStep, AboutItsAnswer, OfAnAnswer, PlanIsOfRows, ApprovesTheAi, HasItsClaim, ScoresItOnce,
         claims
<1>10. \A p \in Requests \ {q} : InStep(p)'
  <2>1. claim' = claim /\ tookOver' = tookOver
    BY <1>3 DEF claims
  <2>2. \A p \in Requests \ {q} : req[p].at = "scoring" /\ req[p].cur = r => tookOver[r]
    BY <1>1 DEF Inv, InStep, HasItsClaim
  <2>3. \A s \in Responses : ByTheAi(ledger'[s]) =>
          \/ ByTheAi(ledger[s])
          \/ \A p \in Requests \ {q} : req[p].at = "scoring" /\ req[p].cur = s => tookOver'[s]
    BY <1>6, <2>1, <2>2
  <2>4. \A s \in Responses : Grows(ledger[s], ledger'[s]) /\ ledger'[s] \in Seq(Row)
    BY <1>6, <1>7
  <2> QED
    BY <1>4, <2>1, <2>3, <2>4, OthersInStep
<1> QED
  BY <1>7, <1>8, <1>9, <1>10 DEF Inv

\* The first score given by hand, and an approved copy of a proposal of the AI.
LEMMA GivenInv ==
  ASSUME Inv, NEW q \in Requests, ApproveInsert(q) \/ ScoreInsert(q)
  PROVE  Inv'
<1> DEFINE r == req[q].cur
<1>1. r \in Responses
  BY DEF ApproveInsert, ScoreInsert, Inv, InStep, AboutItsAnswer, OfAnAnswer
<1>2. PICK method \in {"ai", "human"} :
        /\ ledger' = [ledger EXCEPT ![r] = Insert(ledger[r], NewRow(method, "final"))]
        /\ method = "ai" => ByTheAi(ledger[r])
  BY <1>1 DEF ApproveInsert, ScoreInsert, Inv, InStep, ApprovesTheAi
<1>3. /\ Room(r) /\ Done(q) /\ UNCHANGED <<rest, handedIn, claims>>
      /\ text' \in [Responses -> Texts]
  BY DEF ApproveInsert, ScoreInsert, Inv, TypeOK
<1> DEFINE row == NewRow(method, "final")
<1>4. row \in Row /\ row.method = method /\ row.status = "final" /\ row.from = 0
  BY NewRowType
<1>5. Sound(ledger[r]) /\ Len(ledger[r]) \in Nat
  BY <1>1, KeptIsSound
<1> HIDE DEF row
<1>6. /\ Sound(Insert(ledger[r], row)) /\ Grows(ledger[r], Insert(ledger[r], row))
      /\ Len(Insert(ledger[r], row)) <= Len(ledger[r]) + 1
      /\ row.method # "ai" /\ ByTheAi(Insert(ledger[r], row)) => ByTheAi(ledger[r])
  BY <1>4, <1>5, InsertIsSound
<1>7. Len(Insert(ledger[r], row)) <= MaxRows
  <2>1. Len(Insert(ledger[r], row)) \in Nat
    BY <1>6, RowsOf DEF Sound
  <2> QED
    BY <1>3, <1>5, <1>6, <2>1, LedgerAssumption DEF Room
<1>8. ledger' = [ledger EXCEPT ![r] = Insert(ledger[r], row)]
  BY <1>2 DEF row
<1> QED
  BY <1>1, <1>2, <1>3, <1>4, <1>6, <1>7, <1>8, OneAnswerWritten

\* No final row has been replaced, so the change can be of it.
LEMMA FinalIsReplacedOnce ==
  ASSUME NEW rows, Sound(rows), NEW i \in Finals(rows)
  PROVE  /\ i \in DOMAIN rows /\ i # 0
         /\ \A j \in DOMAIN rows : rows[j].from # i
<1>1. i \in DOMAIN rows /\ rows[i].status = "final" /\ i # 0
  BY RowsOf DEF Finals, Sound
<1> QED
  BY <1>1 DEF Sound, Chain

\* changeFinalScore: the final that was flipped is the one the new row names.
LEMMA ChangeCommitInv ==
  ASSUME Inv, NEW q \in Requests, ChangeCommit(q)
  PROVE  Inv'
<1> DEFINE r == req[q].cur
           kept == SetAside(ledger[r], {"final"})
<1>1. r \in Responses
  BY DEF ChangeCommit, Inv, InStep, AboutItsAnswer, OfAnAnswer
<1>2. /\ Done(q) /\ UNCHANGED <<rest, handedIn, claims>> /\ text' \in [Responses -> Texts]
  BY DEF ChangeCommit, Inv, TypeOK
<1>3. Sound(ledger[r]) /\ Grows(ledger[r], ledger[r]) /\ Len(ledger[r]) \in 0..MaxRows
  BY <1>1, KeptIsSound
<1>4. CASE Finals(ledger[r]) = {}
  <2>1. ledger' = [ledger EXCEPT ![r] = ledger[r]]
    BY <1>4 DEF ChangeCommit, Inv, TypeOK
  <2>2. Len(ledger[r]) <= MaxRows
    BY <1>3
  <2> QED
    BY <1>1, <1>2, <1>3, <2>1, <2>2, OneAnswerWritten
<1>5. CASE Finals(ledger[r]) # {}
  <2>1. PICK i \in Finals(ledger[r]) :
          ledger' = [ledger EXCEPT ![r] =
                       Append(kept, [NewRow("human", "final") EXCEPT !.from = i])]
    BY <1>5 DEF ChangeCommit
  <2>2. Room(r)
    BY <1>5 DEF ChangeCommit
  <2>3. /\ i \in DOMAIN ledger[r] /\ i # 0
        /\ \A j \in DOMAIN ledger[r] : ledger[r][j].from # i
    BY <1>3, FinalIsReplacedOnce
  <2>4. /\ Sound(kept) /\ Grows(ledger[r], kept) /\ Len(kept) = Len(ledger[r])
        /\ ByTheAi(kept) => ByTheAi(ledger[r])
    BY <1>3, SetAsideIsSound
  <2>5. DOMAIN kept = DOMAIN ledger[r] /\ \A j \in DOMAIN ledger[r] : ledger[r][j] \in Row
    BY <1>3, RowsOf DEF SetAside, Sound
  <2>6. \A j \in DOMAIN kept : /\ kept[j].from = ledger[r][j].from
                               /\ kept[j].status # "final"
    BY <2>5 DEF SetAside, Row
  <2>7. kept[i].status = "superseded" /\ Finals(kept) = {}
    BY <2>1, <2>3, <2>5, <2>6 DEF SetAside, Row, Finals
  <2> DEFINE row == [NewRow("human", "final") EXCEPT !.from = i]
  <2>8. row \in Row /\ row.method = "human" /\ row.status = "final" /\ row.from = i
    BY <1>3, <2>3, RowsOf DEF NewRow, Row, Sound
  <2> HIDE DEF row, kept
  <2>9. /\ Sound(Append(kept, row)) /\ Grows(kept, Append(kept, row))
        /\ Len(Append(kept, row)) = Len(kept) + 1
        /\ ByTheAi(Append(kept, row)) => ByTheAi(kept)
    BY <2>3, <2>4, <2>5, <2>6, <2>7, <2>8, AppendIsSound
  <2>10. Len(Append(kept, row)) <= MaxRows
    BY <1>3, <2>2, <2>4, <2>9, LedgerAssumption DEF Room
  <2>11. Grows(ledger[r], Append(kept, row))
    BY <1>3, <2>4, <2>5, <2>9 DEF Grows
  <2>12. ledger' = [ledger EXCEPT ![r] = Append(kept, row)]
    BY <2>1 DEF row, kept
  <2> QED
    BY <1>1, <1>2, <2>4, <2>9, <2>10, <2>11, <2>12, OneAnswerWritten
<1> QED
  BY <1>4, <1>5

\* A rescore: of each planned answer the row it replaces is the auto final the
\* plan saw, or nothing is written.
LEMMA RescoredIsSound ==
  ASSUME Inv, NEW q \in Requests, NEW r \in Responses, req[q].seen[r] \in 0..Len(ledger[r]), Room(r)
  PROVE  /\ Sound(Rescored(q, r)) /\ Grows(ledger[r], Rescored(q, r))
         /\ Len(Rescored(q, r)) <= MaxRows
         /\ ByTheAi(Rescored(q, r)) => ByTheAi(ledger[r])
<1> DEFINE rows == ledger[r]
           i == req[q].seen[r]
           row == [AutoFinal(q, r) EXCEPT !.from = i]
           flipped == [rows EXCEPT ![i].status = "superseded"]
<1>1. Sound(rows) /\ Grows(rows, rows) /\ Len(rows) \in Nat /\ Len(rows) < MaxRows
  BY KeptIsSound DEF Room
<1>2. i \in Nat /\ DOMAIN rows = 1..Len(rows)
  BY <1>1, RowsOf DEF Sound
<1>3. /\ row \in Row /\ row.method = "auto" /\ row.status = "final" /\ row.from = i
  BY <1>2, RescoredType
<1>4. Rescored(q, r) = IF i = 0 THEN Insert(rows, row)
                       ELSE IF ~StillReplaceable(rows, i) THEN rows ELSE Insert(flipped, row)
  BY DEF Rescored
<1> HIDE DEF row
<1>5. CASE i = 0
  <2>1. /\ Sound(Insert(rows, row)) /\ Grows(rows, Insert(rows, row))
        /\ Len(Insert(rows, row)) <= Len(rows) + 1
        /\ ByTheAi(Insert(rows, row)) => ByTheAi(rows)
    BY <1>1, <1>3, <1>5, InsertIsSound
  <2>2. Len(Insert(rows, row)) \in Nat
    BY <2>1, RowsOf DEF Sound
  <2> QED
    BY <1>1, <1>4, <1>5, <2>1, <2>2, LedgerAssumption
<1>6. CASE i # 0 /\ ~StillReplaceable(rows, i)
  BY <1>1, <1>4, <1>6, LedgerAssumption
<1>7. CASE i # 0 /\ StillReplaceable(rows, i)
  <2>1. i \in DOMAIN rows /\ i \in Finals(rows)
    BY <1>2, <1>7 DEF StillReplaceable, Finals
  <2>2. /\ Sound(flipped) /\ Grows(rows, flipped) /\ Len(flipped) = Len(rows)
        /\ ByTheAi(flipped) => ByTheAi(rows)
    BY <1>1, <2>1, FlipIsSound
  <2>3. \A j \in DOMAIN rows : rows[j].from # i /\ rows[j] \in Row
    BY <1>1, <2>1, FinalIsReplacedOnce, RowsOf DEF Sound
  <2>4. /\ DOMAIN flipped = DOMAIN rows /\ flipped[i].status = "superseded"
        /\ \A j \in DOMAIN flipped : flipped[j].from # i
    BY <2>1, <2>3 DEF Row
  <2> HIDE DEF flipped
  <2>5. /\ Sound(Insert(flipped, row)) /\ Grows(flipped, Insert(flipped, row))
        /\ Len(Insert(flipped, row)) <= Len(flipped) + 1
        /\ ByTheAi(Insert(flipped, row)) => ByTheAi(flipped)
    BY <1>3, <2>1, <2>2, <2>4, InsertIsSound
  <2>6. Len(Insert(flipped, row)) \in Nat
    BY <2>5, RowsOf DEF Sound
  <2>7. Grows(rows, Insert(flipped, row)) /\ Len(Insert(flipped, row)) <= MaxRows
    BY <1>1, <2>2, <2>4, <2>5, <2>6, LedgerAssumption DEF Grows
  <2> QED
    BY <1>4, <1>7, <2>2, <2>5, <2>7
<1> QED
  BY <1>5, <1>6, <1>7

\* applyRescore does so for every planned answer.
LEMMA RescoreApplyInv ==
  ASSUME Inv, NEW q \in Requests, RescoreApply(q)
  PROVE  Inv'
<1>1. ASSUME NEW r \in Responses
      PROVE  /\ Sound(ledger'[r]) /\ Grows(ledger[r], ledger'[r]) /\ Len(ledger'[r]) <= MaxRows
             /\ ByTheAi(ledger'[r]) => ByTheAi(ledger[r])
  <2>1. CASE r \notin req[q].todo
    BY <2>1, KeptIsSound DEF RescoreApply
  <2>2. CASE r \in req[q].todo
    <3>1. req[q].seen[r] \in 0..Len(ledger[r]) /\ Room(r)
      BY <2>2 DEF RescoreApply, Inv, InStep, PlanIsOfRows
    <3>2. ledger'[r] = Rescored(q, r)
      BY <2>2 DEF RescoreApply
    <3> QED
      BY <3>1, <3>2, RescoredIsSound
  <2> QED
    BY <2>1, <2>2
<1>2. ledger' \in [Responses -> Seq(Row)]
  BY <1>1 DEF RescoreApply, Sound
<1>3. /\ Done(q) /\ UNCHANGED <<key, scoring, claims>> /\ handedIn' \in BOOLEAN
      /\ passBacks' \in 0..MaxPassBacks /\ text' \in [Responses -> Texts]
  BY DEF RescoreApply, rest, Inv, TypeOK
<1> QED
  BY <1>1, <1>2, <1>3, WritingStep

\* A restore sets the scores of the answer aside, and a save leaves them.
LEMMA TextCommits ==
  ASSUME Inv, NEW q \in Requests, RestoreCommit(q) \/ WriteCommit(q)
  PROVE  Inv'
<1> DEFINE r == req[q].cur
<1>1. r \in Responses /\ req[q].text[r] \in Texts
  BY DEF RestoreCommit, WriteCommit, Inv, InStep, AboutItsAnswer, OfAnAnswer
<1>2. text' = [text EXCEPT ![r] = req[q].text[r]]
  BY DEF RestoreCommit, WriteCommit
<1>3. text' \in [Responses -> Texts]
  BY <1>1, <1>2 DEF Inv, TypeOK
<1>4. Done(q) /\ UNCHANGED <<rest, handedIn, claims>>
  BY DEF RestoreCommit, WriteCommit
<1>5. Sound(ledger[r]) /\ Grows(ledger[r], ledger[r]) /\ Len(ledger[r]) \in 0..MaxRows
  BY <1>1, KeptIsSound
<1> DEFINE kept == SetAside(ledger[r], {"final", "proposed"})
<1>6. /\ Sound(kept) /\ Grows(ledger[r], kept) /\ Len(kept) = Len(ledger[r])
      /\ ByTheAi(kept) => ByTheAi(ledger[r])
  BY <1>5, SetAsideIsSound
<1>7. PICK rows \in {ledger[r], kept} : ledger' = [ledger EXCEPT ![r] = rows]
  <2>1. [ledger EXCEPT ![r] = ledger[r]] = ledger
    BY DEF Inv, TypeOK
  <2> QED
    BY <2>1 DEF RestoreCommit, WriteCommit
<1> HIDE DEF kept
<1>8. /\ Sound(rows) /\ Grows(ledger[r], rows) /\ Len(rows) <= MaxRows
      /\ ByTheAi(rows) => ByTheAi(ledger[r])
  BY <1>5, <1>6, <1>7, LedgerAssumption
<1> QED
  BY <1>1, <1>3, <1>4, <1>7, <1>8, OneAnswerWritten

\* passBackAttempt sets every final aside.
LEMMA PassBackCommitInv ==
  ASSUME Inv, NEW q \in Requests, PassBackCommit(q)
  PROVE  Inv'
<1>1. ASSUME NEW r \in Responses
      PROVE  /\ Sound(ledger'[r]) /\ Grows(ledger[r], ledger'[r]) /\ Len(ledger'[r]) <= MaxRows
             /\ ByTheAi(ledger'[r]) => ByTheAi(ledger[r])
  <2>1. ledger'[r] = SetAside(ledger[r], {"final"})
    BY DEF PassBackCommit
  <2>2. Sound(ledger[r]) /\ Len(ledger[r]) \in 0..MaxRows
    BY KeptIsSound
  <2>3. /\ Sound(SetAside(ledger[r], {"final"})) /\ Grows(ledger[r], SetAside(ledger[r], {"final"}))
        /\ Len(SetAside(ledger[r], {"final"})) = Len(ledger[r])
        /\ ByTheAi(SetAside(ledger[r], {"final"})) => ByTheAi(ledger[r])
    BY <2>2, SetAsideIsSound
  <2> QED
    BY <2>1, <2>2, <2>3
<1>2. ledger' \in [Responses -> Seq(Row)]
  BY <1>1 DEF PassBackCommit, Sound
<1>3. passBacks' \in 0..MaxPassBacks
  BY LedgerAssumption DEF PassBackCommit, Inv, TypeOK
<1>4. /\ Done(q) /\ UNCHANGED <<key, scoring, claims>> /\ handedIn' \in BOOLEAN
      /\ text' \in [Responses -> Texts]
  BY DEF PassBackCommit, Inv, TypeOK
<1> QED
  BY <1>1, <1>2, <1>3, <1>4, WritingStep

-----------------------------------------------------------------------------
(* The theorems *)

\* Every table starts empty and every slot idle.
LEMMA InitInv == Init => Inv
<1> SUFFICES ASSUME Init PROVE Inv
  OBVIOUS
<1>1. <<>> \in Seq(Row) /\ Len(<<>>) = 0 /\ DOMAIN <<>> = {}
  BY EmptySeq
<1>2. TypeOK
  <2>1. passBacks \in 0..MaxPassBacks
    BY LedgerAssumption DEF Init
  <2>2. ledger \in [Responses -> Seq(Row)] /\ \A r \in Responses : Len(ledger[r]) <= MaxRows
    BY <1>1, LedgerAssumption DEF Init
  <2>3. req \in [Requests -> Request]
    BY IdleType DEF Init
  <2> QED
    BY <2>1, <2>2, <2>3 DEF Init, TypeOK
<1>3. Sound(<<>>)
  BY <1>1 DEF Sound, Chain
<1>4. \A q \in Requests : InStep(q)
  <2> SUFFICES ASSUME NEW q \in Requests PROVE InStep(q)
    OBVIOUS
  <2>1. req[q].at \in Plain
    BY IdleType DEF Init, Plain
  <2> QED
    BY <2>1, PlainIsInStep
<1> QED
  BY <1>2, <1>3, <1>4 DEF Init, Inv

\* One case per step of the scorers.
LEMMA ScoringInv ==
  ASSUME Inv, NEW q \in Requests, Scoring(q)
  PROVE  Inv'
<1>1. CASE HandIn(q) \/ ScoreAttempt(q) \/ AutoRead(q) \/ AutoFinals(q)
  BY <1>1, AutoReads
<1>2. CASE AutoInsert(q)
  BY <1>2, AutoInsertInv
<1>3. CASE BatchStart(q) \/ BatchSnapshot(q) \/ \E r \in Responses : Rerun(q, r) \/ Withhold(q, r)
  BY <1>3, RunReads
<1>4. CASE Recheck(q)
  BY <1>4, RecheckInv
<1>5. CASE AiInsert(q)
  BY <1>5, AiInsertInv
<1>6. CASE Release(q)
  BY <1>6, ReleaseInv
<1>7. CASE \E r \in Responses : Claim(q, r)
  BY <1>7, ClaimInv
<1> QED
  BY <1>1, <1>2, <1>3, <1>4, <1>5, <1>6, <1>7 DEF Scoring

\* One case per step of a teacher, and of a student's save.
LEMMA DecidingInv ==
  ASSUME Inv, NEW q \in Requests, Deciding(q)
  PROVE  Inv'
<1>1. CASE ApproveChain(q)
  BY <1>1, ApproveChainInv
<1>2. CASE ApproveInsert(q) \/ ScoreInsert(q)
  BY <1>2, GivenInv
<1>3. CASE ChangeCommit(q)
  BY <1>3, ChangeCommitInv
<1>4. CASE Rescore(q)
  BY <1>4, RescoreInv
<1>5. CASE RescoreApply(q)
  BY <1>5, RescoreApplyInv
<1>6. CASE RestoreCommit(q) \/ WriteCommit(q)
  BY <1>6, TextCommits
<1>7. CASE PassBack(q)
  BY <1>7, PassBackInv
<1>8. CASE PassBackCommit(q)
  BY <1>8, PassBackCommitInv
<1>9. CASE Die(q)
  BY <1>9, DieInv
<1>10. CASE \E r \in Responses : Approve(q, r) \/ Score(q, r) \/ Change(q, r)
  BY <1>10, DecisionReads
<1>11. CASE \E r \in Responses, t \in Texts : Restore(q, r, t) \/ Write(q, r, t)
  BY <1>11, TextReads
<1> QED
  BY <1>1, <1>2, <1>3, <1>4, <1>5, <1>6, <1>7, <1>8, <1>9, <1>10, <1>11 DEF Deciding

\* Inv is inductive.
LEMMA InvStep == Inv /\ [Next]_vars => Inv'
<1> SUFFICES ASSUME Inv, [Next]_vars PROVE Inv'
  OBVIOUS
<1>1. CASE \E q \in Requests : Scoring(q)
  BY <1>1, ScoringInv
<1>2. CASE \E q \in Requests : Deciding(q)
  BY <1>2, DecidingInv
<1>3. CASE \/ \E r \in Responses : Expire(r)
           \/ \E r \in Responses, t \in Texts : EditKey(r, t)
           \/ UNCHANGED vars
  BY <1>3, AroundInv
<1> QED
  BY <1>1, <1>2, <1>3 DEF Next

\* Inv holds in every reachable state.
THEOREM LedgerInvariant == Spec => []Inv
  BY InitInv, InvStep, PTL DEF Spec

\* The columns and the requests have their types.
THEOREM LedgerTypes == Spec => []TypeOK
<1>1. Inv => TypeOK
  BY DEF Inv
<1> QED
  BY <1>1, LedgerInvariant, PTL

\* The rows of an answer are one chain, whatever requests overlap: a change and
\* a rescore name a final row, and no final row has been replaced yet.
THEOREM ScoreHistory == Spec => []HistoryIsAChain
<1>1. Inv => HistoryIsAChain
  BY DEF Inv, Sound, Chain, HistoryIsAChain
<1> QED
  BY <1>1, LedgerInvariant, PTL

\* Runs over a whole attempt score an answer once, except after a takeover.
THEOREM OneAiScore == Spec => []OneAiScorePerAnswer
<1>1. Inv => OneAiScorePerAnswer
  BY DEF Inv, InStep, ScoresItOnce, ByTheAi, OneAiScorePerAnswer
<1> QED
  BY <1>1, LedgerInvariant, PTL

-----------------------------------------------------------------------------
(* What a step may not do *)

\* An insert keeps the rows there are as they are.
LEMMA InsertKeeps ==
  ASSUME NEW rows \in Seq(Row), NEW row \in Row, NEW i \in DOMAIN rows
  PROVE  i \in DOMAIN Insert(rows, row) /\ Insert(rows, row)[i] = rows[i]
<1>1. CASE Conflicts(rows, row)
  BY <1>1 DEF Insert
<1>2. CASE ~Conflicts(rows, row)
  <2>1. Len(rows) \in Nat /\ DOMAIN rows = 1..Len(rows)
    BY RowsOf
  <2>2. /\ Append(rows, row) \in Seq(Row) /\ Len(Append(rows, row)) = Len(rows) + 1
        /\ Append(rows, row)[i] = rows[i]
    BY <2>1, AppendProperties
  <2>3. DOMAIN Append(rows, row) = 1..(Len(rows) + 1)
    BY <2>2, LenProperties
  <2> QED
    BY <1>2, <2>1, <2>2, <2>3 DEF Insert
<1> QED
  BY <1>1, <1>2

\* A rescore flips rows of the auto pass only.
LEMMA RescoredKeeps ==
  ASSUME Inv, NEW q \in Requests, NEW r \in Responses, req[q].seen[r] \in 0..Len(ledger[r]),
         NEW i \in DOMAIN ledger[r], ledger[r][i].method # "auto"
  PROVE  i \in DOMAIN Rescored(q, r) /\ Rescored(q, r)[i] = ledger[r][i]
<1> DEFINE rows == ledger[r]
           j == req[q].seen[r]
           row == [AutoFinal(q, r) EXCEPT !.from = j]
           flipped == [rows EXCEPT ![j].status = "superseded"]
<1>1. rows \in Seq(Row) /\ Len(rows) \in Nat /\ Sound(rows)
  BY KeptIsSound DEF Sound
<1>2. row \in Row
  BY <1>1, RescoredType
<1>3. Rescored(q, r) = IF j = 0 THEN Insert(rows, row)
                       ELSE IF ~StillReplaceable(rows, j) THEN rows ELSE Insert(flipped, row)
  BY DEF Rescored
<1> HIDE DEF row
<1>4. CASE j = 0
  BY <1>1, <1>2, <1>3, <1>4, InsertKeeps
<1>5. CASE j # 0 /\ ~StillReplaceable(rows, j)
  BY <1>3, <1>5
<1>6. CASE j # 0 /\ StillReplaceable(rows, j)
  <2>1. j \in DOMAIN rows /\ j # i
    BY <1>1, <1>6, RowsOf DEF StillReplaceable
  <2>2. flipped \in Seq(Row)
    BY <1>1, <2>1, FlipIsSound DEF Sound
  <2>3. i \in DOMAIN flipped /\ flipped[i] = rows[i]
    BY <2>1
  <2> HIDE DEF flipped
  <2> QED
    BY <1>2, <1>3, <1>6, <2>2, <2>3, InsertKeeps
<1> QED
  BY <1>4, <1>5, <1>6

\* A score given by hand is set aside by a change, a restore or a pass back only.
LEMMA OnlyATeacherTakes ==
  ASSUME Inv, [Next]_vars, NEW r \in Responses, NEW i \in Finals(ledger[r]),
         ledger[r][i].method = "human"
  PROVE  \/ i \in Finals(ledger'[r])
         \/ \E q \in Requests : ChangeCommit(q) \/ RestoreCommit(q) \/ PassBackCommit(q)
<1>1. i \in DOMAIN ledger[r] /\ ledger[r][i].status = "final" /\ ledger[r] \in Seq(Row)
  BY DEF Finals, Inv, Sound
<1>2. SUFFICES ASSUME NEW q \in Requests,
                      \/ AutoInsert(q) \/ AiInsert(q) \/ ApproveInsert(q) \/ ScoreInsert(q)
                      \/ RescoreApply(q)
               PROVE  i \in DOMAIN ledger'[r] /\ ledger'[r][i] = ledger[r][i]
  <2>1. \/ UNCHANGED ledger
        \/ \E q \in Requests : \/ AutoInsert(q) \/ AiInsert(q) \/ ApproveInsert(q)
                               \/ ScoreInsert(q) \/ RescoreApply(q)
        \/ \E q \in Requests : ChangeCommit(q) \/ RestoreCommit(q) \/ PassBackCommit(q)
    <3>1. ASSUME NEW q \in Requests, Scoring(q)
          PROVE  UNCHANGED ledger \/ AutoInsert(q) \/ AiInsert(q)
      BY <3>1 DEF Scoring, HandIn, ScoreAttempt, AutoRead, AutoFinals, BatchStart, BatchSnapshot,
         Recheck, Release, Rerun, Withhold, Claim
    <3>2. ASSUME NEW q \in Requests, Deciding(q)
          PROVE  \/ UNCHANGED ledger \/ ApproveInsert(q) \/ ScoreInsert(q) \/ RescoreApply(q)
                 \/ ChangeCommit(q) \/ RestoreCommit(q) \/ PassBackCommit(q)
      BY <3>2 DEF Deciding, ApproveChain, Rescore, PassBack, WriteCommit, Die, Approve, Score,
         Change, Restore, Write
    <3>3. ASSUME \/ \E s \in Responses : Expire(s)
                 \/ \E s \in Responses, t \in Texts : EditKey(s, t)
                 \/ UNCHANGED vars
          PROVE  UNCHANGED ledger
      BY <3>3 DEF Expire, EditKey, vars
    <3> QED
      BY <3>1, <3>2, <3>3 DEF Next
  <2> QED
    BY <1>1, <1>2, <2>1 DEF Finals
<1>3. CASE AutoInsert(q)
  <2>1. AutoFinal(q, r) \in Row
    BY AutoFinalType
  <2>2. ledger'[r] \in {ledger[r], Insert(ledger[r], AutoFinal(q, r))}
    BY <1>3 DEF AutoInsert
  <2> QED
    BY <1>1, <2>1, <2>2, InsertKeeps
<1>4. CASE AiInsert(q) \/ ApproveInsert(q) \/ ScoreInsert(q)
  <2>1. PICK row \in Row : ledger'[r] \in {ledger[r], Insert(ledger[r], row)}
    BY <1>4, NewRowType DEF AiInsert, ApproveInsert, ScoreInsert, Inv, TypeOK
  <2> QED
    BY <1>1, <2>1, InsertKeeps
<1>5. CASE RescoreApply(q)
  <2>1. CASE r \notin req[q].todo
    BY <1>1, <1>5, <2>1 DEF RescoreApply
  <2>2. CASE r \in req[q].todo
    <3>1. req[q].seen[r] \in 0..Len(ledger[r]) /\ ledger'[r] = Rescored(q, r)
      BY <1>5, <2>2 DEF RescoreApply, Inv, InStep, PlanIsOfRows
    <3> QED
      BY <1>1, <3>1, RescoredKeeps
  <2> QED
    BY <2>1, <2>2
<1> QED
  BY <1>2, <1>3, <1>4, <1>5

\* A score a teacher gave by hand stands until a teacher takes it away.
THEOREM HandGivenStands == Spec => HandGivenScoreStands
<1>1. Inv /\ [Next]_vars =>
        [\A r \in Responses : \A i \in Finals(ledger[r]) :
           ledger[r][i].method = "human" /\ i \notin Finals(ledger'[r]) =>
             \E q \in Requests :
               /\ req[q].at \in {"changeCommit", "restoreCommit", "passBackCommit"}
               /\ req'[q] = Idle]_vars
  <2> SUFFICES ASSUME Inv, [Next]_vars, NEW r \in Responses, NEW i \in Finals(ledger[r]),
                      ledger[r][i].method = "human", i \notin Finals(ledger'[r])
               PROVE  \E q \in Requests :
                        /\ req[q].at \in {"changeCommit", "restoreCommit", "passBackCommit"}
                        /\ req'[q] = Idle
    OBVIOUS
  <2>1. PICK q \in Requests : ChangeCommit(q) \/ RestoreCommit(q) \/ PassBackCommit(q)
    BY OnlyATeacherTakes
  <2>2. req[q].at \in {"changeCommit", "restoreCommit", "passBackCommit"} /\ Done(q)
    BY <2>1 DEF ChangeCommit, RestoreCommit, PassBackCommit
  <2>3. req'[q] = Idle
    BY <2>2 DEF Done, Inv, TypeOK
  <2> QED
    BY <2>2, <2>3
<1> QED
  BY <1>1, LedgerInvariant, PTL DEF Spec, HandGivenScoreStands

\* A claim in force is freed or taken only by a step of its holder.
LEMMA OnlyTheHolderLetsGo ==
  ASSUME Inv, [Next]_vars, NEW r \in Responses,
         claim[r] \in Requests, ~expired[r], claim'[r] # claim[r]
  PROVE  req'[claim[r]].at # req[claim[r]].at
<1>1. \E q \in Requests : \/ \E s \in Responses : Claim(q, s)
                          \/ Release(q) \/ Die(q)
  <2>1. ASSUME NEW q \in Requests, Scoring(q)
        PROVE  UNCHANGED claim \/ Release(q) \/ \E s \in Responses : Claim(q, s)
    BY <2>1 DEF Scoring, HandIn, ScoreAttempt, AutoRead, AutoFinals, AutoInsert, BatchStart,
       BatchSnapshot, Recheck, AiInsert, Rerun, Withhold, claims
  <2>2. ASSUME NEW q \in Requests, Deciding(q)
        PROVE  UNCHANGED claim \/ Die(q)
    BY <2>2 DEF Deciding, ApproveChain, ApproveInsert, ScoreInsert, ChangeCommit, Rescore,
       RescoreApply, RestoreCommit, PassBack, PassBackCommit, WriteCommit, Approve, Score, Change,
       Restore, Write, claims
  <2>3. ASSUME \/ \E s \in Responses : Expire(s)
               \/ \E s \in Responses, t \in Texts : EditKey(s, t)
               \/ UNCHANGED vars
        PROVE  UNCHANGED claim
    BY <2>3 DEF Expire, EditKey, vars, claims
  <2> QED
    BY <2>1, <2>2, <2>3 DEF Next
<1>2. PICK q \in Requests : (\E s \in Responses : Claim(q, s)) \/ Release(q) \/ Die(q)
  BY <1>1
<1>3. CASE \E s \in Responses : Claim(q, s)
  <2>1. PICK s \in Responses : Claim(q, s)
    BY <1>3
  <2>2. claim'[r] = claim[r]
    BY <2>1, LedgerAssumption DEF Claim, Claimable, claims, Inv, TypeOK
  <2> QED
    BY <2>2
<1>4. CASE Release(q)
  <2>1. claim[r] = q
    BY <1>4 DEF Release, Released, Inv, TypeOK
  <2>2. req[q].todo \ {req[q].cur} \in SUBSET Responses
    BY DEF Inv, TypeOK, Request
  <2>3. PICK new \in Request : new.at \in Plain /\ req' = [req EXCEPT ![q] = new]
    BY <1>4, <2>2, OnwardMoves DEF Release, Inv
  <2>4. req'[q].at \in Plain
    BY <2>3, Moves DEF Inv
  <2> QED
    BY <1>4, <2>1, <2>4 DEF Release, Plain
<1>5. CASE Die(q)
  <2>1. claim[r] = q
    BY <1>5 DEF Die
  <2>2. req'[q].at = "idle"
    BY <1>5, IdleType DEF Die, Done, Inv, TypeOK
  <2> QED
    BY <1>5, <2>1, <2>2 DEF Die
<1> QED
  BY <1>2, <1>3, <1>4, <1>5

\* While a claim has not expired nobody but its holder ends it, a finally block
\* of a request that was taken over included.
THEOREM HolderKeeps == Spec => HolderKeepsTheClaim
<1>1. Inv /\ [Next]_vars =>
        [\A r \in Responses :
           claim[r] \in Requests /\ ~expired[r] /\ claim'[r] # claim[r] =>
             req'[claim[r]].at # req[claim[r]].at]_vars
  BY OnlyTheHolderLetsGo
<1> QED
  BY <1>1, LedgerInvariant, PTL DEF Spec, HolderKeepsTheClaim

=============================================================================
