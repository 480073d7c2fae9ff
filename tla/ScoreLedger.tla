---------------------------- MODULE ScoreLedger ----------------------------
(***************************************************************************)
(* The scores table of the design-tool server: for every answer of one      *)
(* handed-in attempt an append-only list of rows, at most one of them       *)
(* final, written by the auto pass, the AI scorer, approvals, hand-given    *)
(* scores, changes of a score and rescores with a new key, and set aside    *)
(* by pass back and by restoring an earlier answer.                         *)
(*                                                                          *)
(* Only a change of score, a rescore, a restore and a pass back run in a    *)
(* transaction, and none of them locks what the others read: a request      *)
(* keeps what it read, and every await point separates two actions.  The    *)
(* AI scorer alone takes a claim on the answer, a lease that another        *)
(* request may take over when it has expired.                               *)
(*                                                                          *)
(* Not modelled: research rows (no teacher route sees them), points of AI   *)
(* and hand-given scores, reviewed_by_sub, and what the screening of an     *)
(* answer decides, which is a choice here.                                  *)
(***************************************************************************)
EXTENDS Integers, Sequences

CONSTANTS
  Responses,    \* responses rows of the attempt
  NoResponse,
  NoText,       \* nothing read
  Texts,        \* answers, and the keys that accept one of them
  Scorings,     \* the items' effective scoring methods
  Requests,     \* bound: slots for requests in flight
  Free,         \* no claim on an answer
  Abandoned,    \* a claim whose holder died
  Routes,       \* bound: the routes each slot exercises
  MaxRows,      \* bound: scores rows of an answer
  MaxPassBacks  \* bound: pass backs of the attempt

ASSUME LedgerAssumption ==
  /\ NoResponse \notin Responses /\ NoText \notin Texts
  /\ Scorings \subseteq {"auto", "ai", "hybrid", "human"}
  /\ Free \notin Requests /\ Abandoned \notin Requests /\ Free # Abandoned
  /\ MaxRows \in Nat /\ MaxPassBacks \in Nat

VARIABLES
  handedIn,   \* attempts.status is submitted
  passBacks,  \* attempts.pass_back_count
  text,       \* responses.response
  key,        \* the items' keys: the text each accepts
  scoring,    \* the items' scoring methods
  ledger,     \* the scores rows of each answer, oldest first
  claim,      \* who holds responses.ai_scoring_claimed_at
  expired,    \* that claim is older than the TTL
  tookOver,   \* a claim was taken from a request still at work (history)
  req         \* the requests in flight

vars == <<handedIn, passBacks, text, key, scoring, ledger, claim, expired, tookOver, req>>
rest == <<passBacks, key, scoring>>
claims == <<claim, expired, tookOver>>

Row == [method : {"auto", "ai", "human"}, status : {"proposed", "final", "superseded"},
        points : {0, 1}, from : Nat]
NewRow(method, status) == [method |-> method, status |-> status, points |-> 0, from |-> 0]

Kinds == {"handIn", "autoScore", "batch", "rerun", "approve", "score", "change",
          "rescore", "restore", "passBack", "write"}
Steps == {"idle", "autoRead", "autoFinals", "autoInsert", "snapshot", "next", "recheck",
          "scoring", "release", "approveChain", "approveInsert", "scoreInsert",
          "changeCommit", "rescoreApply", "restoreCommit", "passBackCommit", "writeCommit"}

\* What a handler holds between two awaits: the texts and keys it read, the
\* answers it has still to do, the one it is at, the row it read of each, the
\* attempt's status as read, and the batch's policy to skip scored answers.
Request == [at : Steps, text : [Responses -> Texts \cup {NoText}],
            key : [Responses -> Texts \cup {NoText}],
            todo : SUBSET Responses, cur : Responses \cup {NoResponse},
            seen : [Responses -> Nat], handedIn : BOOLEAN, skipIfScored : BOOLEAN]
Blank == [r \in Responses |-> NoText]
Idle == [at |-> "idle", text |-> Blank, key |-> Blank, todo |-> {}, cur |-> NoResponse,
         seen |-> [r \in Responses |-> 0], handedIn |-> FALSE, skipIfScored |-> FALSE]

-----------------------------------------------------------------------------
(* The table *)

Finals(rows) == {i \in DOMAIN rows : rows[i].status = "final"}
HasFinal(r) == Finals(ledger[r]) # {}

\* Mutant: the unique index leaves out the final rows of the auto pass.
MutantConflicts(rows, row) == row.status = "final" /\ row.method # "auto" /\ Finals(rows) # {}

\* scores_one_final_per_response_unq with ON CONFLICT DO NOTHING.
Conflicts(rows, row) == row.status = "final" /\ Finals(rows) # {}
Insert(rows, row) == IF Conflicts(rows, row) THEN rows ELSE Append(rows, row)

\* UPDATE scores SET status = 'superseded' of the rows of one answer whose
\* status is among `statuses`.
SetAside(rows, statuses) ==
  [i \in DOMAIN rows |-> IF rows[i].status \in statuses
                         THEN [rows[i] EXCEPT !.status = "superseded"] ELSE rows[i]]

Room(r) == Len(ledger[r]) < MaxRows

\* scoreResponse: the points of a text under a key.
Worth(t, k) == IF t = k THEN 1 ELSE 0

Launch(q, kind) == req[q].at = "idle" /\ kind \in Routes[q]
Start(q, r, at) == req' = [req EXCEPT ![q] = [Idle EXCEPT !.at = at, !.cur = r]]
Goto(q, at) == req' = [req EXCEPT ![q].at = at]
Done(q) == req' = [req EXCEPT ![q] = Idle]

-----------------------------------------------------------------------------
(* Hand-in and the auto pass (submit, hand-in and score routes) *)

HandIn(q) ==
  /\ Launch(q, "handIn")
  /\ ~handedIn
  /\ handedIn' = TRUE
  /\ Start(q, NoResponse, "autoRead")
  /\ UNCHANGED <<rest, text, ledger, claims>>

ScoreAttempt(q) ==
  /\ Launch(q, "autoScore")
  /\ handedIn
  /\ Start(q, NoResponse, "autoRead")
  /\ UNCHANGED <<rest, handedIn, text, ledger, claims>>

\* runAutoScoringPass reads the items and the responses ...
AutoRead(q) ==
  /\ req[q].at = "autoRead"
  /\ req' = [req EXCEPT ![q].text = text, ![q].key = key, ![q].at = "autoFinals"]
  /\ UNCHANGED <<rest, handedIn, text, ledger, claims>>

\* ... then which of them have a final ...
AutoFinals(q) ==
  /\ req[q].at = "autoFinals"
  /\ LET open == {r \in Responses : scoring[r] = "auto" /\ ~HasFinal(r)} IN
       IF open = {} THEN Done(q)
       ELSE req' = [req EXCEPT ![q].todo = open, ![q].at = "autoInsert"]
  /\ UNCHANGED <<rest, handedIn, text, ledger, claims>>

\* ... and inserts a final for the others in one statement.
AutoFinal(q, r) ==
  [NewRow("auto", "final") EXCEPT !.points = Worth(req[q].text[r], req[q].key[r])]

AutoInsert(q) ==
  /\ req[q].at = "autoInsert"
  /\ \A r \in req[q].todo : Room(r)
  /\ ledger' = [r \in Responses |->
                  IF r \in req[q].todo THEN Insert(ledger[r], AutoFinal(q, r)) ELSE ledger[r]]
  /\ Done(q)
  /\ UNCHANGED <<rest, handedIn, text, claims>>

-----------------------------------------------------------------------------
(* AI scoring: the attempt-wide run and the re-run of one answer *)

BatchStart(q) ==
  /\ Launch(q, "batch")
  /\ handedIn
  /\ req' = [req EXCEPT ![q] = [Idle EXCEPT !.at = "snapshot", !.skipIfScored = TRUE]]
  /\ UNCHANGED <<rest, handedIn, text, ledger, claims>>

\* The rest of a run over the answers of `todo`.
Onward(q, todo) ==
  req' = [req EXCEPT ![q] = IF todo = {} THEN Idle
                            ELSE [@ EXCEPT !.at = "next", !.cur = NoResponse, !.todo = todo]]

ByAi(r) == scoring[r] \in {"ai", "hybrid"}

\* The answers already scored when the run starts: any row counts.
BatchSnapshot(q) ==
  /\ req[q].at = "snapshot"
  /\ Onward(q, {r \in Responses : ByAi(r) /\ ledger[r] = <<>>})
  /\ UNCHANGED <<rest, handedIn, text, ledger, claims>>

\* rescore-ai: refused when a final stands, and never skips.
Rerun(q, r) ==
  /\ Launch(q, "rerun")
  /\ handedIn /\ ~HasFinal(r) /\ ByAi(r)
  /\ req' = [req EXCEPT ![q] = [Idle EXCEPT !.todo = {r}, !.at = "next"]]
  /\ UNCHANGED <<rest, handedIn, text, ledger, claims>>

\* A flagged or unscreened answer is left out.
Withhold(q, r) ==
  /\ req[q].at = "next" /\ r \in req[q].todo
  /\ Onward(q, req[q].todo \ {r})
  /\ UNCHANGED <<rest, handedIn, text, ledger, claims>>

Claimable(r) == claim[r] = Free \/ expired[r]

\* aiScoreResponse takes the claim in one statement, or gives up: in_progress.
Claim(q, r) ==
  /\ req[q].at = "next" /\ r \in req[q].todo
  /\ IF Claimable(r)
     THEN /\ claim' = [claim EXCEPT ![r] = q]
          /\ expired' = [expired EXCEPT ![r] = FALSE]
          /\ tookOver' = [tookOver EXCEPT ![r] = @ \/ claim[r] \in Requests]
          /\ req' = [req EXCEPT ![q].cur = r,
                                ![q].at = IF req[q].skipIfScored THEN "recheck" ELSE "scoring"]
     ELSE /\ Onward(q, req[q].todo \ {r})
          /\ UNCHANGED claims
  /\ UNCHANGED <<rest, handedIn, text, ledger>>

\* Mutant: only a final counts as scored.
MutantScored(r) == HasFinal(r)

\* skipIfScored: a row a concurrent request wrote since the snapshot.
Scored(r) == ledger[r] # <<>>

Recheck(q) ==
  /\ req[q].at = "recheck"
  /\ Goto(q, IF Scored(req[q].cur) THEN "release" ELSE "scoring")
  /\ UNCHANGED <<rest, handedIn, text, ledger, claims>>

\* scoreClaimed: nothing when the scorer fails, is blocked or finds no text; a
\* final when the item is hybrid, the score confident and the answer clean.
AiInsert(q) ==
  /\ req[q].at = "scoring"
  /\ LET r == req[q].cur IN
       \/ UNCHANGED ledger
       \/ \E status \in {"proposed", "final"} :
            /\ Room(r)
            /\ status = "final" => scoring[r] = "hybrid"
            /\ ledger' = [ledger EXCEPT ![r] = Insert(@, NewRow("ai", status))]
  /\ Goto(q, "release")
  /\ UNCHANGED <<rest, handedIn, text, claims>>

\* Mutant: the release does not compare the token.
MutantReleased(q, r) == Free

\* The finally block: only a claim that is still its own.
Released(q, r) == IF claim[r] = q THEN Free ELSE claim[r]

Release(q) ==
  /\ req[q].at = "release"
  /\ LET r == req[q].cur IN
       /\ claim' = [claim EXCEPT ![r] = Released(q, r)]
       /\ expired' = [expired EXCEPT ![r] = @ /\ claim'[r] # Free]
       /\ Onward(q, req[q].todo \ {r})
  /\ UNCHANGED <<rest, handedIn, text, ledger, tookOver>>

\* AI_SCORING_CLAIM_TTL_MINUTES have passed.
Expire(r) ==
  /\ claim[r] # Free /\ ~expired[r]
  /\ expired' = [expired EXCEPT ![r] = TRUE]
  /\ UNCHANGED <<rest, handedIn, text, ledger, claim, tookOver, req>>

-----------------------------------------------------------------------------
(* A teacher's decisions *)

\* scores/[scoreId]/approve of a proposal: the proposal's status as read ...
Approve(q, r) ==
  /\ Launch(q, "approve")
  /\ \E i \in DOMAIN ledger[r] :
       /\ ledger[r][i].status = "proposed"
       /\ req' = [req EXCEPT ![q] = [Idle EXCEPT !.at = "approveChain", !.cur = r]]
  /\ UNCHANGED <<rest, handedIn, text, ledger, claims>>

\* ... loadResponseChain: handed in, and no final yet ...
ApproveChain(q) ==
  /\ req[q].at = "approveChain"
  /\ IF handedIn /\ ~HasFinal(req[q].cur) THEN Goto(q, "approveInsert") ELSE Done(q)
  /\ UNCHANGED <<rest, handedIn, text, ledger, claims>>

\* ... and a copy of the proposal as the final.
ApproveInsert(q) ==
  /\ req[q].at = "approveInsert"
  /\ Room(req[q].cur)
  /\ ledger' = [ledger EXCEPT ![req[q].cur] = Insert(@, NewRow("ai", "final"))]
  /\ Done(q)
  /\ UNCHANGED <<rest, handedIn, text, claims>>

\* responses/[responseId]/score: the first score given by hand.
Score(q, r) ==
  /\ Launch(q, "score")
  /\ handedIn /\ ~HasFinal(r)
  /\ Start(q, r, "scoreInsert")
  /\ UNCHANGED <<rest, handedIn, text, ledger, claims>>

ScoreInsert(q) ==
  /\ req[q].at = "scoreInsert"
  /\ Room(req[q].cur)
  /\ ledger' = [ledger EXCEPT ![req[q].cur] = Insert(@, NewRow("human", "final"))]
  /\ Done(q)
  /\ UNCHANGED <<rest, handedIn, text, claims>>

\* responses/[responseId]/change-score: refused without a final.
Change(q, r) ==
  /\ Launch(q, "change")
  /\ handedIn /\ HasFinal(r)
  /\ Start(q, r, "changeCommit")
  /\ UNCHANGED <<rest, handedIn, text, ledger, claims>>

\* changeFinalScore: the flip is the read; no final left means no_final.
ChangeCommit(q) ==
  /\ req[q].at = "changeCommit"
  /\ LET rows == ledger[req[q].cur] IN
       IF Finals(rows) = {} THEN UNCHANGED ledger
       ELSE /\ Room(req[q].cur)
            /\ \E i \in Finals(rows) :
                 ledger' = [ledger EXCEPT ![req[q].cur] =
                              Append(SetAside(rows, {"final"}),
                                     [NewRow("human", "final") EXCEPT !.from = i])]
  /\ Done(q)
  /\ UNCHANGED <<rest, handedIn, text, claims>>

\* The final a plan would replace, 0 when the answer has none.
FinalOf(rows) == IF Finals(rows) = {} THEN 0 ELSE CHOOSE i \in Finals(rows) : TRUE

\* planRescore: auto items only; a new score, or an auto final whose points
\* the current key changes.  A final of another method is kept.
Rescores(r) ==
  /\ scoring[r] = "auto"
  /\ \A i \in Finals(ledger[r]) : /\ ledger[r][i].method = "auto"
                                  /\ ledger[r][i].points # Worth(text[r], key[r])

Rescore(q) ==
  /\ Launch(q, "rescore")
  /\ handedIn
  /\ \E r \in Responses : Rescores(r)
  /\ req' = [req EXCEPT ![q] = [Idle EXCEPT
       !.at = "rescoreApply", !.text = text, !.key = key,
       !.todo = {r \in Responses : Rescores(r)},
       !.seen = [r \in Responses |-> IF Rescores(r) THEN FinalOf(ledger[r]) ELSE 0]]]
  /\ UNCHANGED <<rest, handedIn, text, ledger, claims>>

\* applyRescore flips the planned row only if it is still the auto final.
StillReplaceable(rows, i) == rows[i].status = "final" /\ rows[i].method = "auto"

\* Mutant: the flip names the answer, not the planned row.
MutantRescored(q, r) ==
  LET row == [AutoFinal(q, r) EXCEPT !.from = req[q].seen[r]]
  IN Insert(IF req[q].seen[r] = 0 THEN ledger[r] ELSE SetAside(ledger[r], {"final"}), row)

\* The rows of one answer after applyRescore's two statements for it.
Rescored(q, r) ==
  LET rows == ledger[r]
      i == req[q].seen[r]
      row == [AutoFinal(q, r) EXCEPT !.from = i]
  IN IF i = 0 THEN Insert(rows, row)
     ELSE IF ~StillReplaceable(rows, i) THEN rows
     ELSE Insert([rows EXCEPT ![i].status = "superseded"], row)

RescoreApply(q) ==
  /\ req[q].at = "rescoreApply"
  /\ \A r \in req[q].todo : Room(r)
  /\ ledger' = [r \in Responses |-> IF r \in req[q].todo THEN Rescored(q, r) ELSE ledger[r]]
  /\ Done(q)
  /\ UNCHANGED <<rest, handedIn, text, claims>>

-----------------------------------------------------------------------------
(* The answer and the attempt change under the scores *)

\* response-revisions/[revisionId]/restore: the attempt's status as read.
Restore(q, r, t) ==
  /\ Launch(q, "restore")
  /\ req' = [req EXCEPT ![q] = [Idle EXCEPT !.at = "restoreCommit", !.cur = r,
                                  !.text[r] = t, !.handedIn = handedIn]]
  /\ UNCHANGED <<rest, handedIn, text, ledger, claims>>

\* restoreAnswerVersion: the scores of a handed-in attempt are set aside.
RestoreCommit(q) ==
  /\ req[q].at = "restoreCommit"
  /\ LET r == req[q].cur
         t == req[q].text[r]
     IN /\ text' = [text EXCEPT ![r] = t]
        /\ ledger' = IF t # text[r] /\ req[q].handedIn
                     THEN [ledger EXCEPT ![r] = SetAside(@, {"final", "proposed"})]
                     ELSE ledger
  /\ Done(q)
  /\ UNCHANGED <<rest, handedIn, claims>>

PassBack(q) ==
  /\ Launch(q, "passBack")
  /\ handedIn /\ passBacks < MaxPassBacks
  /\ Start(q, NoResponse, "passBackCommit")
  /\ UNCHANGED <<rest, handedIn, text, ledger, claims>>

\* passBackAttempt: the finals are set aside, proposals are left alone.
PassBackCommit(q) ==
  /\ req[q].at = "passBackCommit"
  /\ passBacks < MaxPassBacks
  /\ ledger' = [r \in Responses |-> SetAside(ledger[r], {"final"})]
  /\ handedIn' = FALSE
  /\ passBacks' = passBacks + 1
  /\ Done(q)
  /\ UNCHANGED <<key, scoring, text, claims>>

\* The student saves an answer; the attempt was in progress when read.
Write(q, r, t) ==
  /\ Launch(q, "write")
  /\ ~handedIn
  /\ req' = [req EXCEPT ![q] = [Idle EXCEPT !.at = "writeCommit", !.cur = r, !.text[r] = t]]
  /\ UNCHANGED <<rest, handedIn, text, ledger, claims>>

WriteCommit(q) ==
  /\ req[q].at = "writeCommit"
  /\ text' = [text EXCEPT ![req[q].cur] = req[q].text[req[q].cur]]
  /\ Done(q)
  /\ UNCHANGED <<rest, handedIn, ledger, claims>>

\* A teacher edits an item's key.
EditKey(r, t) ==
  /\ key' = [key EXCEPT ![r] = t]
  /\ UNCHANGED <<handedIn, passBacks, scoring, text, ledger, claims, req>>

\* A request fails or its task dies; a claim it held stays behind.
Die(q) ==
  /\ req[q].at # "idle"
  /\ claim' = [r \in Responses |-> IF claim[r] = q THEN Abandoned ELSE claim[r]]
  /\ Done(q)
  /\ UNCHANGED <<rest, handedIn, text, ledger, expired, tookOver>>

-----------------------------------------------------------------------------
Init ==
  /\ handedIn = FALSE /\ passBacks = 0
  /\ text \in [Responses -> Texts] /\ key \in [Responses -> Texts]
  /\ scoring \in [Responses -> Scorings]
  /\ ledger = [r \in Responses |-> <<>>]
  /\ claim = [r \in Responses |-> Free]
  /\ expired = [r \in Responses |-> FALSE]
  /\ tookOver = [r \in Responses |-> FALSE]
  /\ req = [q \in Requests |-> Idle]

Scoring(q) ==
  \/ HandIn(q) \/ ScoreAttempt(q) \/ AutoRead(q) \/ AutoFinals(q) \/ AutoInsert(q)
  \/ BatchStart(q) \/ BatchSnapshot(q) \/ Recheck(q) \/ AiInsert(q) \/ Release(q)
  \/ \E r \in Responses : Rerun(q, r) \/ Withhold(q, r) \/ Claim(q, r)

Deciding(q) ==
  \/ ApproveChain(q) \/ ApproveInsert(q) \/ ScoreInsert(q) \/ ChangeCommit(q)
  \/ Rescore(q) \/ RescoreApply(q) \/ RestoreCommit(q) \/ PassBack(q)
  \/ PassBackCommit(q) \/ WriteCommit(q) \/ Die(q)
  \/ \E r \in Responses : Approve(q, r) \/ Score(q, r) \/ Change(q, r)
  \/ \E r \in Responses, t \in Texts : Restore(q, r, t) \/ Write(q, r, t)

Next ==
  \/ \E q \in Requests : Scoring(q) \/ Deciding(q)
  \/ \E r \in Responses : Expire(r)
  \/ \E r \in Responses, t \in Texts : EditKey(r, t)

Spec == Init /\ [][Next]_vars

-----------------------------------------------------------------------------
(* Properties *)

\* The variables have the types of the columns they model.
TypeOK ==
  /\ handedIn \in BOOLEAN /\ passBacks \in 0..MaxPassBacks
  /\ text \in [Responses -> Texts] /\ key \in [Responses -> Texts]
  /\ scoring \in [Responses -> Scorings]
  /\ ledger \in [Responses -> Seq(Row)] /\ \A r \in Responses : Len(ledger[r]) <= MaxRows
  /\ claim \in [Responses -> Requests \cup {Free, Abandoned}]
  /\ expired \in [Responses -> BOOLEAN] /\ tookOver \in [Responses -> BOOLEAN]
  /\ req \in [Requests -> Request]

\* The history of an answer's score is one chain: a row that names the row it
\* replaced names an earlier, superseded one, no row is replaced twice, and at
\* most one row is final, whichever change and rescore requests overlap.  The
\* report of earlier scores reads each row's cause off these links.
HistoryIsAChain ==
  \A r \in Responses : \A i, j \in DOMAIN ledger[r] :
    LET rows == ledger[r] IN
      /\ i # j => ~(rows[i].status = "final" /\ rows[j].status = "final")
      /\ i # j /\ rows[i].from = rows[j].from => rows[i].from = 0
      /\ rows[i].from # 0 => rows[i].from < i /\ rows[rows[i].from].status = "superseded"

\* A score a teacher gave by hand is taken away only by a teacher: by changing
\* it, passing the attempt back or restoring an answer.  No scorer's late
\* result and no rescore replaces it, whatever the plan was made from.
HandGivenScoreStands ==
  [][\A r \in Responses : \A i \in Finals(ledger[r]) :
       ledger[r][i].method = "human" /\ i \notin Finals(ledger'[r]) =>
         \E q \in Requests :
           /\ req[q].at \in {"changeCommit", "restoreCommit", "passBackCommit"}
           /\ req'[q] = Idle]_vars

\* While a request works under a claim that has not expired, nobody else frees
\* or takes that claim, not even a request that lost its own to a takeover
\* and now clears up.
HolderKeepsTheClaim ==
  [][\A r \in Responses :
       claim[r] \in Requests /\ ~expired[r] /\ claim'[r] # claim[r] =>
         req'[claim[r]].at # req[claim[r]].at]_vars

\* Overlapping runs over a whole attempt score an answer once: a run that is
\* about to call the scorer and insert its result holds a claim under which
\* the answer had no AI row and got none since, unless a claim outlived its
\* five minutes while its holder was still at work.
OneAiScorePerAnswer ==
  \A q \in Requests :
    LET r == req[q].cur IN
      req[q].at = "scoring" /\ req[q].skipIfScored /\ ~tookOver[r]
        => \A i \in DOMAIN ledger[r] : ledger[r][i].method # "ai"

\* "A status flip without the score supersession leaves the OLD score sitting
\* on an answer the student is now free to change": an attempt that is open
\* has no final score.
NoFinalOnAnOpenAttempt ==
  ~handedIn => \A r \in Responses : ~HasFinal(r)

=============================================================================
