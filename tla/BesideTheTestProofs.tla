------------------------- MODULE BesideTheTestProofs -------------------------
(***************************************************************************)
(* Proofs about three components beside the test, for every value of their  *)
(* constants.                                                               *)
(*                                                                          *)
(* The look at a screen: a frame goes to one reader, and no timer takes the *)
(* disclosure down; its types too, for which the blocks on the main queue   *)
(* must name a deadline or a request there is.                              *)
(*                                                                          *)
(* One card of the editor: "All changes saved" is true, and what a restore  *)
(* replaces is kept.  Both rest on Agree: unless answers were lost or came  *)
(* out of order, at most one PATCH is stored and not answered, and it is    *)
(* what the server holds.                                                   *)
(*                                                                          *)
(* The screening: an answer that counts as screened was heard.  A pass      *)
(* whose answer was not edited under it still has the text, and by the time *)
(* it marks all the concerns of that text have been alerts.  What a pass    *)
(* has still to do is left open: nothing here depends on it.                *)
(***************************************************************************)
EXTENDS PeekPlane, ItemAutosave, Screening, SequenceTheorems, WellFoundedInduction, TLAPS

\* A set of natural numbers has a least one.
LEMMA NatMin == ASSUME NEW T \in SUBSET Nat, T # {} PROVE \E x \in T : \A y \in T : x <= y
<1> DEFINE R == OpToRel(<, Nat)
<1>1. \A x, y \in Nat : y < x => <<y, x>> \in R
  BY DEF OpToRel
<1>2. IsWellFoundedOn(R, Nat)
  BY NatLessThanWellFounded
<1> HIDE DEF R
<1>3. PICK x \in T : \A y \in T : <<y, x>> \notin R
  BY <1>2, WFMin
<1>4. \A y \in T : x <= y
  <2> SUFFICES ASSUME NEW y \in T PROVE x <= y
    OBVIOUS
  <2>1. x \in Nat /\ y \in Nat /\ ~(y < x)
    BY <1>1, <1>3
  <2> QED
    BY <2>1
<1> QED
  BY <1>4

\* The newest of some rows is one of them, or 0 when there is none.
LEMMA NewestIs ==
  ASSUME NEW n \in Nat, NEW ids \in SUBSET (1..n)
  PROVE  Newest(ids) \in ids \cup {0}
<1>1. CASE ids = {}
  BY <1>1 DEF Newest
<1>2. CASE ids # {}
  <2> DEFINE T == {k \in Nat : \E i \in ids : k = n - i}
  <2>1. PICK x \in T : \A y \in T : x <= y
    <3>1. PICK i \in ids : TRUE
      BY <1>2
    <3>2. n - i \in T
      OBVIOUS
    <3>3. T \in SUBSET Nat /\ T # {}
      BY <3>2
    <3> HIDE DEF T
    <3> QED
      BY <3>3, NatMin
  <2>2. PICK i \in ids : x = n - i
    BY <2>1
  <2>3. \A j \in ids : j <= i
    <3> SUFFICES ASSUME NEW j \in ids PROVE j <= i
      OBVIOUS
    <3>1. n - j \in T
      OBVIOUS
    <3>2. x <= n - j
      BY <2>1, <3>1
    <3>3. i \in Int /\ j \in Int /\ n \in Int
      OBVIOUS
    <3> HIDE DEF T
    <3> QED
      BY <2>2, <3>2, <3>3
  <2> QED
    BY <1>2, <2>2, <2>3 DEF Newest
<1> QED
  BY <1>1, <1>2

\* A function on the first n numbers is a list of n.
LEMMA FunctionIsSeq ==
  ASSUME NEW S, NEW n \in Nat, NEW f \in [1..n -> S]
  PROVE  f \in Seq(S) /\ Len(f) = n /\ DOMAIN f = 1..n
OBVIOUS

-----------------------------------------------------------------------------
(* The look at a screen *)

\* The rows and the requests of the monitors.
RowsOK ==
  /\ peeks \in Seq(Peek) /\ Len(peeks) <= MaxPeeks
  /\ handed \in Seq(Nat) /\ Len(handed) = Len(peeks)
  /\ asking \in [Staff -> {"idle", "delete", "insert"}] /\ reading \in [Staff -> 0..MaxPeeks]

\* A frame was handed out once, if it was, and its row says so.
HandedOnce ==
  \A i \in DOMAIN handed : handed[i] <= 1 /\ (handed[i] = 1 => peeks[i].at = "viewed")

\* A block tells the deadline or names the request it is for.
HopSays(h) ==
  /\ h.what = "deadline" => h.no \in 1..MaxDeadlines
  /\ h.what \in {"peek", "render"} => h.no \in 1..MaxPeeks
GoodHops == {h \in Hop : HopSays(h)}

\* The main queue.
HopsOK == hops \in Seq(GoodHops) /\ Len(hops) <= MaxHops + 1

\* The application and the sitting.
ScreenOK ==
  /\ deadline \in 0..MaxDeadlines /\ closed \in BOOLEAN
  /\ poll \in [peek : 0..MaxPeeks, time : 0..MaxDeadlines, closed : BOOLEAN, out : BOOLEAN]
  /\ polling \in BOOLEAN /\ lastSeen \in 0..MaxPeeks /\ uploads \subseteq 1..MaxPeeks
  /\ lost \in 0..MaxLost
  /\ clock \in 0..MaxDeadlines /\ stage \in {"runs", "warned", "zero"}
  /\ over \in {"no", "time", "closed", "handedIn"}

\* The strip's timer runs for a notice, never for the disclosure.
StripOK ==
  /\ strip \in {"none", "peek", "time"} /\ armed \in BOOLEAN
  /\ armed => strip # "peek"

\* The inductive invariant of the look.
PeekInv == RowsOK /\ HandedOnce /\ HopsOK /\ ScreenOK /\ StripOK

\* What the lists of rows are.
LEMMA RowsAre ==
  ASSUME RowsOK
  PROVE  /\ Len(peeks) \in 0..MaxPeeks /\ DOMAIN peeks = 1..Len(peeks) /\ DOMAIN handed = DOMAIN peeks
         /\ peeks \in [1..Len(peeks) -> Peek] /\ handed \in [1..Len(peeks) -> Nat]
<1>1. /\ Len(peeks) \in Nat /\ DOMAIN peeks = 1..Len(peeks) /\ peeks \in [1..Len(peeks) -> Peek]
      /\ DOMAIN handed = 1..Len(handed) /\ handed \in [1..Len(handed) -> Nat]
  BY LenProperties DEF RowsOK
<1> QED
  BY <1>1, PeekAssumption DEF RowsOK

\* The rows change in place, and a frame that was viewed stays viewed.
Moves ==
  /\ peeks' \in [1..Len(peeks) -> Peek]
  /\ \A i \in 1..Len(peeks) : peeks[i].at = "viewed" => peeks'[i].at = "viewed"

\* Rows that change in place keep their types, and what was handed out.
LEMMA RowsMove ==
  ASSUME RowsOK, HandedOnce, Moves, UNCHANGED handed,
         asking' \in [Staff -> {"idle", "delete", "insert"}], reading' \in [Staff -> 0..MaxPeeks]
  PROVE  RowsOK' /\ HandedOnce'
<1>1. /\ Len(peeks) \in 0..MaxPeeks /\ DOMAIN handed = 1..Len(peeks)
  BY RowsAre
<1>2. peeks' \in Seq(Peek) /\ Len(peeks') = Len(peeks)
  BY <1>1, FunctionIsSeq DEF Moves
<1>3. RowsOK'
  BY <1>2 DEF RowsOK
<1>4. HandedOnce'
  BY <1>1 DEF HandedOnce, Moves
<1> QED
  BY <1>3, <1>4

\* sweepExpiredPeekImages changes rows in place, and makes no frame ready.
LEMMA SweptMoves ==
  ASSUME RowsOK
  PROVE  /\ Swept \in [1..Len(peeks) -> Peek]
         /\ \A i \in 1..Len(peeks) :
              /\ peeks[i].at = "viewed" => Swept[i].at = "viewed"
              /\ Swept[i].at = "delivered" => peeks[i].at = "delivered"
<1>1. DOMAIN peeks = 1..Len(peeks) /\ peeks \in [1..Len(peeks) -> Peek]
  BY RowsAre
<1>2. ASSUME NEW i \in 1..Len(peeks)
      PROVE  [peeks[i] EXCEPT !.at = "swept"] \in Peek /\ [peeks[i] EXCEPT !.at = "swept"].at = "swept"
  <2>1. peeks[i] \in Peek
    BY <1>1
  <2> QED
    BY <2>1 DEF Peek
<1> QED
  BY <1>1, <1>2 DEF Swept

\* A list of numbers within the rows'.
LEMMA NewestRow ==
  ASSUME RowsOK, NEW ids \in SUBSET (1..Len(peeks))
  PROVE  Newest(ids) \in 0..MaxPeeks
<1>1. Len(peeks) \in 0..MaxPeeks
  BY RowsAre
<1>2. \A n \in Nat : \A s \in SUBSET (1..n) : Newest(s) \in s \cup {0}
  BY NewestIs
<1>3. Len(peeks) \in Nat
  BY <1>1, PeekAssumption
<1>4. Newest(ids) \in ids \cup {0}
  BY <1>2, <1>3
<1>5. \A i \in ids \cup {0} : i \in 0..MaxPeeks
  BY <1>1, PeekAssumption
<1> QED
  BY <1>4, <1>5

\* The monitors: a request is made, the open one replaced, a frame collected.
LEMMA MonitorStep ==
  ASSUME RowsOK, HandedOnce, NEW t \in Staff,
         AskPeek(t) \/ DeleteOpen(t) \/ InsertPeek(t) \/ ReadReady(t) \/ Collect(t)
  PROVE  RowsOK' /\ HandedOnce'
<1>1. /\ Len(peeks) \in 0..MaxPeeks /\ DOMAIN peeks = 1..Len(peeks) /\ DOMAIN handed = DOMAIN peeks
      /\ peeks \in [1..Len(peeks) -> Peek] /\ handed \in [1..Len(peeks) -> Nat]
  BY RowsAre
<1>2. CASE AskPeek(t)
  <2>1. Moves
    BY <1>2, SweptMoves DEF AskPeek, Moves
  <2>2. /\ UNCHANGED <<handed, reading>>
        /\ asking' \in [Staff -> {"idle", "delete", "insert"}]
    BY <1>2 DEF AskPeek, RowsOK
  <2> QED
    BY <2>1, <2>2, RowsMove DEF RowsOK
<1>3. CASE DeleteOpen(t)
  <2>1. ASSUME NEW i \in 1..Len(peeks)
        PROVE  [peeks[i] EXCEPT !.at = "replaced"] \in Peek
    <3>1. peeks[i] \in Peek
      BY <1>1
    <3> QED
      BY <3>1 DEF Peek
  <2>2. Moves
    BY <1>1, <1>3, <2>1 DEF DeleteOpen, Moves
  <2>3. /\ UNCHANGED <<handed, reading>>
        /\ asking' \in [Staff -> {"idle", "delete", "insert"}]
    BY <1>3 DEF DeleteOpen, RowsOK
  <2> QED
    BY <2>2, <2>3, RowsMove DEF RowsOK
<1>4. CASE InsertPeek(t)
  <2> DEFINE new == [at |-> "asked", age |-> "young"]
  <2>1. new \in Peek
    BY DEF Peek
  <2>2. /\ Len(peeks) < MaxPeeks /\ UNCHANGED reading
        /\ peeks' = Append(peeks, new) /\ handed' = Append(handed, 0)
        /\ asking' \in [Staff -> {"idle", "delete", "insert"}]
    BY <1>4 DEF InsertPeek, RowsOK
  <2> HIDE DEF new
  <2>3. /\ peeks' \in Seq(Peek) /\ Len(peeks') = Len(peeks) + 1
        /\ \A i \in 1..Len(peeks) : peeks'[i] = peeks[i]
    BY <2>1, <2>2, AppendProperties DEF RowsOK
  <2>4. /\ handed' \in Seq(Nat) /\ Len(handed') = Len(peeks) + 1
        /\ \A i \in 1..Len(peeks) : handed'[i] = handed[i]
        /\ handed'[Len(peeks) + 1] = 0
    BY <2>2, AppendProperties DEF RowsOK
  <2>5. DOMAIN handed' = 1..(Len(peeks) + 1)
    BY <2>4, LenProperties
  <2>6. HandedOnce'
    BY <1>1, <2>3, <2>4, <2>5 DEF HandedOnce
  <2> QED
    BY <1>1, <2>2, <2>3, <2>4, <2>6, PeekAssumption DEF RowsOK
<1>5. CASE ReadReady(t)
  <2>1. Moves
    BY <1>5, SweptMoves DEF ReadReady, Moves
  <2> DEFINE ids == {i \in DOMAIN peeks : Swept[i].at = "delivered"}
  <2>2. Newest(ids) \in 0..MaxPeeks
    BY <1>1, NewestRow
  <2>3. UNCHANGED <<handed, asking>> /\ reading' = [reading EXCEPT ![t] = Newest(ids)]
    BY <1>5 DEF ReadReady
  <2> HIDE DEF ids
  <2>4. reading' \in [Staff -> 0..MaxPeeks]
    BY <2>2, <2>3 DEF RowsOK
  <2> QED
    BY <2>1, <2>3, <2>4, RowsMove DEF RowsOK
<1>6. CASE Collect(t)
  <2> DEFINE i == reading[t]
  <2>1. UNCHANGED asking /\ reading' \in [Staff -> 0..MaxPeeks]
    BY <1>6, PeekAssumption DEF Collect, RowsOK
  <2>2. CASE UNCHANGED <<peeks, handed>>
    BY <2>1, <2>2 DEF RowsOK, HandedOnce
  <2>3. CASE /\ peeks[i].at # "viewed"
             /\ peeks' = [peeks EXCEPT ![i].at = "viewed"] /\ handed' = [handed EXCEPT ![i] = @ + 1]
    <3>1. CASE i \in 1..Len(peeks)
      <4>1. peeks[i] \in Peek /\ handed[i] = 0
        BY <1>1, <2>3, <3>1 DEF HandedOnce
      <4>2. [peeks[i] EXCEPT !.at = "viewed"] \in Peek /\ [peeks[i] EXCEPT !.at = "viewed"].at = "viewed"
        BY <4>1 DEF Peek
      <4>3. /\ peeks' \in [1..Len(peeks) -> Peek] /\ peeks'[i].at = "viewed"
            /\ \A j \in 1..Len(peeks) : j # i => peeks'[j] = peeks[j]
        BY <1>1, <2>3, <3>1, <4>2
      <4>4. /\ handed' \in [1..Len(peeks) -> Nat] /\ handed'[i] = 1
            /\ \A j \in 1..Len(peeks) : j # i => handed'[j] = handed[j]
        BY <1>1, <2>3, <3>1, <4>1
      <4>5. /\ peeks' \in Seq(Peek) /\ Len(peeks') = Len(peeks)
            /\ handed' \in Seq(Nat) /\ Len(handed') = Len(peeks) /\ DOMAIN handed' = 1..Len(peeks)
        <5>1. Len(peeks) \in Nat
          BY <1>1
        <5>2. peeks' \in Seq(Peek) /\ Len(peeks') = Len(peeks)
          BY <4>3, <5>1, FunctionIsSeq
        <5>3. handed' \in Seq(Nat) /\ Len(handed') = Len(peeks) /\ DOMAIN handed' = 1..Len(peeks)
          BY <4>4, <5>1, FunctionIsSeq
        <5> QED
          BY <5>2, <5>3
      <4>6. HandedOnce'
        BY <1>1, <4>3, <4>4, <4>5 DEF HandedOnce
      <4> QED
        BY <2>1, <4>5, <4>6 DEF RowsOK
    <3>2. CASE i \notin 1..Len(peeks)
      <4>1. peeks' = peeks /\ handed' = handed
        BY <1>1, <2>3, <3>2
      <4> QED
        BY <2>1, <4>1 DEF RowsOK, HandedOnce
    <3> QED
      BY <3>1, <3>2
  <2> QED
    BY <1>6, <2>2, <2>3 DEF Collect, MayView
<1> QED
  BY <1>2, <1>3, <1>4, <1>5, <1>6

\* PeekAges and the uploads.
LEMMA RowStep ==
  ASSUME RowsOK, HandedOnce, NEW i \in 1..MaxPeeks, PeekAges(i) \/ Upload(i)
  PROVE  RowsOK' /\ HandedOnce'
<1>1. /\ DOMAIN peeks = 1..Len(peeks) /\ peeks \in [1..Len(peeks) -> Peek]
  BY RowsAre
<1>2. UNCHANGED <<asking, reading, handed>>
  BY DEF PeekAges, Upload
<1>3. CASE UNCHANGED peeks
  BY <1>2, <1>3 DEF RowsOK, HandedOnce
<1>4. ASSUME i \in DOMAIN peeks,
             \/ \E a \in {"good", "dead"} : peeks' = [peeks EXCEPT ![i].age = a]
             \/ peeks[i].at # "viewed" /\ peeks' = [peeks EXCEPT ![i].at = "delivered"]
      PROVE  Moves
  <2>1. peeks[i] \in Peek
    BY <1>1, <1>4
  <2>2. /\ \A a \in {"good", "dead"} : /\ [peeks[i] EXCEPT !.age = a] \in Peek
                                       /\ [peeks[i] EXCEPT !.age = a].at = peeks[i].at
        /\ [peeks[i] EXCEPT !.at = "delivered"] \in Peek
    BY <2>1 DEF Peek
  <2> QED
    BY <1>1, <1>4, <2>2 DEF Moves
<1>5. CASE PeekAges(i)
  <2>1. Moves
    BY <1>4, <1>5 DEF PeekAges
  <2> QED
    BY <1>2, <2>1, RowsMove DEF RowsOK
<1>6. CASE Upload(i)
  <2>1. CASE i \in Questions
    <3>1. Moves
      BY <1>4, <1>6, <2>1 DEF Upload, Questions
    <3> QED
      BY <1>2, <3>1, RowsMove DEF RowsOK
  <2> QED
    BY <1>3, <1>6, <2>1 DEF Upload
<1> QED
  BY <1>5, <1>6

\* The poll sweeps too.
LEMMA PollRows ==
  ASSUME RowsOK, HandedOnce, Poll
  PROVE  RowsOK' /\ HandedOnce'
<1>1. UNCHANGED <<asking, reading, handed>> /\ peeks' = Swept
  BY DEF Poll
<1>2. Moves
  BY <1>1, SweptMoves DEF Moves
<1> QED
  BY <1>1, <1>2, RowsMove DEF RowsOK

-----------------------------------------------------------------------------
(* The main queue, the application, the strip *)

\* The blocks wait in line: one more at the end, or the first one gone.
LEMMA Posted ==
  ASSUME HopsOK, NEW blocks \in Seq(GoodHops), Post(blocks)
  PROVE  HopsOK'
<1>1. hops \in Seq(GoodHops)
  BY DEF HopsOK
<1>2. hops' = hops \o blocks /\ Len(hops) + Len(blocks) <= MaxHops
  BY DEF Post
<1>3. hops' \in Seq(GoodHops) /\ Len(hops') = Len(hops) + Len(blocks)
  BY <1>1, <1>2, ConcatProperties
<1>4. Len(hops) \in Nat /\ Len(blocks) \in Nat
  BY <1>1, LenProperties
<1>5. Len(hops') <= MaxHops + 1
  BY <1>2, <1>3, <1>4, PeekAssumption
<1> QED
  BY <1>3, <1>5 DEF HopsOK, GoodHops, HopSays

\* The first block, gone or followed by what it posts.
LEMMA Ran ==
  ASSUME HopsOK, hops # <<>>
  PROVE  /\ Head(hops) \in GoodHops
         /\ Tail(hops) \in Seq(GoodHops) /\ Len(Tail(hops)) = Len(hops) - 1 /\ Len(hops) \in Nat
  BY HeadTailProperties, LenProperties DEF HopsOK

\* The first block ran and is gone.
LEMMA RestOK ==
  ASSUME HopsOK, hops # <<>>, Rest
  PROVE  HopsOK'
<1>1. /\ Tail(hops) \in Seq(GoodHops) /\ Len(Tail(hops)) = Len(hops) - 1 /\ Len(hops) \in Nat
      /\ Len(hops) <= MaxHops + 1 /\ hops' = Tail(hops)
  BY Ran DEF HopsOK, Rest
<1>2. Len(hops') <= MaxHops + 1
  BY <1>1, PeekAssumption
<1> QED
  BY <1>1, <1>2 DEF HopsOK, GoodHops, HopSays

\* What the poll brings, and the countdown.
LEMMA PostStep ==
  ASSUME HopsOK, ScreenOK, PollArrives \/ GiveNotice \/ Rings
  PROVE  HopsOK'
<1>1. /\ poll.peek \in 0..MaxPeeks /\ poll.time \in 0..MaxDeadlines /\ clock \in 0..MaxDeadlines
      /\ MaxPeeks \in Nat /\ MaxDeadlines \in Nat
  BY PeekAssumption DEF ScreenOK
<1>2. ASSUME NEW h \in GoodHops, Post(<<h>>) PROVE HopsOK'
  <2>1. <<h>> \in Seq(GoodHops)
    OBVIOUS
  <2> QED
    BY <1>2, <2>1, Posted
<1>3. /\ [what |-> "closed", no |-> 0] \in GoodHops /\ [what |-> "notice", no |-> 0] \in GoodHops
      /\ [what |-> "expired", no |-> clock] \in GoodHops
  BY <1>1 DEF GoodHops, HopSays, Hop
<1>4. CASE GiveNotice
  BY <1>2, <1>3, <1>4 DEF GiveNotice
<1>5. CASE Rings
  BY <1>2, <1>3, <1>5 DEF Rings
<1>6. CASE PollArrives
  <2>1. CASE UNCHANGED hops
    BY <2>1 DEF HopsOK, GoodHops, HopSays
  <2>2. CASE Post(<<[what |-> "closed", no |-> 0]>>)
    BY <1>2, <1>3, <2>2
  <2> DEFINE time == [what |-> IF poll.time = 0 THEN "removed" ELSE "deadline", no |-> poll.time]
             peek == [what |-> "peek", no |-> poll.peek]
             new  == poll.peek \notin {0, lastSeen}
  <2>3. CASE Post(<<time>> \o IF new THEN <<peek>> ELSE <<>>)
    <3>1. time \in GoodHops
      BY <1>1 DEF GoodHops, HopSays, Hop
    <3>2. new => peek \in GoodHops
      BY <1>1 DEF GoodHops, HopSays, Hop
    <3> HIDE DEF time, peek, new
    <3>3. <<time>> \in Seq(GoodHops) /\ (new => <<peek>> \in Seq(GoodHops)) /\ <<>> \in Seq(GoodHops)
      BY <3>1, <3>2
    <3>4. (<<time>> \o IF new THEN <<peek>> ELSE <<>>) \in Seq(GoodHops)
      BY <3>3, ConcatProperties
    <3> QED
      BY <2>3, <3>4, Posted
  <2> QED
    BY <1>6, <2>1, <2>2, <2>3 DEF PollArrives
<1> QED
  BY <1>4, <1>5, <1>6

\* A block runs: gone, or followed by the render it posts.
LEMMA HopStep ==
  ASSUME HopsOK, HopRuns
  PROVE  HopsOK'
<1>1. hops # <<>>
  BY DEF HopRuns, Runs, DeadlineReported, TimeLimitRemoved, NoticeShown, TimeLimitExpired,
         SittingClosed, PeekRequested, RenderFrame
<1>2. CASE Rest
  BY <1>1, <1>2, RestOK
<1>3. CASE PeekRequested
  <2> DEFINE render == [what |-> "render", no |-> Head(hops).no]
  <2>1. /\ Head(hops) \in GoodHops /\ Head(hops).what = "peek"
        /\ Tail(hops) \in Seq(GoodHops) /\ Len(Tail(hops)) = Len(hops) - 1 /\ Len(hops) \in Nat
        /\ Len(hops) <= MaxHops + 1
    BY <1>1, <1>3, Ran DEF PeekRequested, Runs, HopsOK
  <2>2. render \in GoodHops
    BY <2>1 DEF GoodHops, HopSays, Hop
  <2>3. hops' = Append(Tail(hops), render)
    BY <1>3 DEF PeekRequested
  <2> HIDE DEF render
  <2>4. hops' \in Seq(GoodHops) /\ Len(hops') = Len(Tail(hops)) + 1
    BY <2>1, <2>2, <2>3, AppendProperties
  <2>5. Len(hops') <= MaxHops + 1
    BY <2>1, <2>4
  <2> QED
    BY <2>4, <2>5 DEF HopsOK, GoodHops, HopSays
<1> QED
  BY <1>2, <1>3 DEF HopRuns, DeadlineReported, TimeLimitRemoved, NoticeShown, TimeLimitExpired,
                    SittingClosed, RenderFrame

\* The first block says a deadline or a request there is.
LEMMA HeadSays ==
  ASSUME HopsOK, hops # <<>>
  PROVE  HopSays(Head(hops))
  BY Ran DEF GoodHops

\* The application and the sitting.
LEMMA ScreenStep ==
  ASSUME RowsOK, HopsOK, ScreenOK, PeekNext
  PROVE  ScreenOK'
<1> USE PeekAssumption DEF ScreenOK
<1>1. ASSUME NEW t \in Staff,
             AskPeek(t) \/ DeleteOpen(t) \/ InsertPeek(t) \/ ReadReady(t) \/ Collect(t)
      PROVE  ScreenOK'
  BY <1>1 DEF AskPeek, DeleteOpen, InsertPeek, ReadReady, Collect, sitting, responder, countdown
<1>2. ASSUME NEW i \in 1..MaxPeeks, PeekAges(i) \/ Upload(i) \/ UploadFails(i)
      PROVE  ScreenOK'
  BY <1>2 DEF PeekAges, Upload, UploadFails, sitting, responder, countdown
<1>3. CASE ChangeTime \/ CloseSitting
  BY <1>3 DEF ChangeTime, CloseSitting, responder, countdown
<1>4. CASE Poll
  <2>1. Questions \in SUBSET (1..Len(peeks))
    BY RowsAre DEF Questions
  <2>2. Newest(Questions) \in 0..MaxPeeks
    BY <2>1, NewestRow
  <2>3. poll' \in [peek : 0..MaxPeeks, time : 0..MaxDeadlines, closed : BOOLEAN, out : BOOLEAN]
    BY <1>4, <2>2 DEF Poll
  <2> QED
    BY <1>4, <2>3 DEF Poll, sitting, countdown
<1>5. CASE PollFails
  BY <1>5 DEF PollFails, NoPoll, sitting, countdown
<1>6. CASE PollArrives
  <2>1. /\ poll' = NoPoll /\ polling' \in BOOLEAN /\ lastSeen' \in {lastSeen, poll.peek}
        /\ UNCHANGED <<sitting, uploads, lost, countdown, over>>
    BY <1>6 DEF PollArrives
  <2> QED
    BY <2>1 DEF NoPoll, sitting, countdown
<1>7. CASE DismissNotice \/ AutoDismiss \/ GiveNotice \/ Rings
  BY <1>7 DEF DismissNotice, AutoDismiss, GiveNotice, Rings, sitting, responder, countdown
<1>8. CASE HandIn
  BY <1>8 DEF HandIn, sitting, countdown
<1>9. CASE DeadlineReported
  <2>1. Head(hops).no \in 1..MaxDeadlines
    BY <1>9, HeadSays DEF DeadlineReported, Runs, HopSays
  <2> QED
    BY <1>9, <2>1 DEF DeadlineReported, sitting, responder, countdown
<1>10. CASE TimeLimitRemoved \/ NoticeShown \/ TimeLimitExpired \/ SittingClosed \/ PeekRequested
  <2>1. UNCHANGED <<sitting, responder>> /\ over' \in {over, "time", "closed"}
    BY <1>10 DEF TimeLimitRemoved, NoticeShown, TimeLimitExpired, SittingClosed, PeekRequested
  <2>2. clock' \in {0, clock} /\ stage' \in {stage, "runs"}
    BY <1>10 DEF TimeLimitRemoved, NoticeShown, TimeLimitExpired, SittingClosed, PeekRequested, countdown
  <2> QED
    BY <2>1, <2>2 DEF sitting, responder
<1>11. CASE RenderFrame
  <2>1. Head(hops).no \in 1..MaxPeeks
    BY <1>11, HeadSays DEF RenderFrame, Runs, HopSays
  <2> QED
    BY <1>11, <2>1 DEF RenderFrame, sitting, responder, countdown
<1> QED
  BY <1>1, <1>2, <1>3, <1>4, <1>5, <1>6, <1>7, <1>8, <1>9, <1>10, <1>11 DEF PeekNext, HopRuns

\* The strip.
LEMMA StripStep ==
  ASSUME StripOK, PeekNext
  PROVE  StripOK'
<1>1. CASE UNCHANGED notice
  BY <1>1 DEF notice, StripOK
<1>2. CASE ShowDisclosure \/ ShowTimeNotice
  BY <1>2 DEF ShowDisclosure, ShowTimeNotice, StripOK
<1>3. CASE DismissNotice \/ AutoDismiss
  BY <1>3 DEF DismissNotice, AutoDismiss, StripOK
<1> QED
  BY <1>1, <1>2, <1>3
  DEF PeekNext, HopRuns, AskPeek, DeleteOpen, InsertPeek, ReadReady, Collect, PeekAges, Upload,
      UploadFails, ChangeTime, CloseSitting, Poll, PollFails, PollArrives, GiveNotice, Rings, HandIn,
      DeadlineReported, TimeLimitRemoved, NoticeShown, TimeLimitExpired, SittingClosed,
      PeekRequested, RenderFrame

\* Every step of the look.
LEMMA PeekStep == PeekInv /\ [PeekNext]_peekVars => PeekInv'
<1> SUFFICES ASSUME PeekInv, [PeekNext]_peekVars PROVE PeekInv'
  OBVIOUS
<1>1. CASE UNCHANGED peekVars
  BY <1>1 DEF PeekInv, RowsOK, HandedOnce, HopsOK, GoodHops, HopSays, ScreenOK, StripOK, peekVars, rows,
              sitting, responder, countdown, notice
<1>2. CASE PeekNext
  <2>1. RowsOK /\ HandedOnce /\ HopsOK /\ ScreenOK /\ StripOK
    BY DEF PeekInv
  <2>2. RowsOK' /\ HandedOnce'
    <3>1. CASE UNCHANGED rows
      BY <2>1, <3>1 DEF rows, RowsOK, HandedOnce
    <3> QED
      BY <1>2, <2>1, <3>1, MonitorStep, RowStep, PollRows
      DEF PeekNext, HopRuns, UploadFails, ChangeTime, CloseSitting, PollFails, PollArrives,
          DismissNotice, AutoDismiss, GiveNotice, Rings, HandIn,
          DeadlineReported, TimeLimitRemoved, NoticeShown, TimeLimitExpired, SittingClosed,
          PeekRequested, RenderFrame
  <2>3. HopsOK'
    <3>1. CASE UNCHANGED hops
      BY <2>1, <3>1 DEF HopsOK, GoodHops, HopSays
    <3> QED
      BY <1>2, <2>1, <3>1, PostStep, HopStep
      DEF PeekNext, AskPeek, DeleteOpen, InsertPeek, ReadReady, Collect, PeekAges, Upload,
          UploadFails, ChangeTime, CloseSitting, Poll, PollFails, DismissNotice, AutoDismiss, HandIn
  <2>4. ScreenOK' /\ StripOK'
    BY <1>2, <2>1, ScreenStep, StripStep
  <2> QED
    BY <2>2, <2>3, <2>4 DEF PeekInv
<1> QED
  BY <1>1, <1>2

\* The look starts well.
LEMMA PeekStarts == PeekInit => PeekInv
<1> SUFFICES ASSUME PeekInit PROVE PeekInv
  OBVIOUS
<1> USE PeekAssumption
<1>1. RowsOK /\ HandedOnce
  BY DEF PeekInit, RowsOK, HandedOnce
<1>2. HopsOK
  <2>1. hops = <<>> /\ hops \in Seq(GoodHops) /\ Len(hops) = 0
    BY DEF PeekInit
  <2> QED
    BY <2>1 DEF HopsOK
<1>3. StripOK
  BY DEF PeekInit, StripOK
<1>4. ScreenOK
  <2>1. poll \in [peek : 0..MaxPeeks, time : 0..MaxDeadlines, closed : BOOLEAN, out : BOOLEAN]
    BY DEF PeekInit, NoPoll
  <2>2. closed \in BOOLEAN /\ polling \in BOOLEAN
    BY Zenon DEF PeekInit
  <2>3. /\ deadline \in 0..MaxDeadlines /\ lastSeen \in 0..MaxPeeks /\ uploads \subseteq 1..MaxPeeks /\ lost \in 0..MaxLost
        /\ clock \in 0..MaxDeadlines /\ stage = "runs" /\ over = "no"
    BY DEF PeekInit
  <2> QED
    BY <2>1, <2>2, <2>3 DEF ScreenOK
<1> QED
  BY <1>1, <1>2, <1>3, <1>4 DEF PeekInv

\* The inductive invariant of the look: types, frames handed out once at most, blocks that
\* name a request or a deadline there is, and a strip whose timer never runs for the disclosure.
THEOREM PeekInvariant == PeekSpec => []PeekInv
  BY PeekStarts, PeekStep, PTL DEF PeekSpec

\* What the invariant says in the properties' own words.
LEMMA PeekInvSays == PeekInv => PeekTypeOK /\ FrameGoesToOne
<1> SUFFICES ASSUME PeekInv PROVE PeekTypeOK /\ FrameGoesToOne
  OBVIOUS
<1>1. hops \in Seq(Hop)
  <2>1. hops \in [1..Len(hops) -> GoodHops] /\ Len(hops) \in Nat
    BY LenProperties DEF PeekInv, HopsOK
  <2>2. hops \in [1..Len(hops) -> Hop]
    BY <2>1 DEF GoodHops
  <2> QED
    BY <2>1, <2>2, FunctionIsSeq
<1>2. PeekTypeOK
  BY <1>1 DEF PeekInv, RowsOK, HopsOK, ScreenOK, StripOK, PeekTypeOK
<1> QED
  BY <1>2 DEF PeekInv, HandedOnce, FrameGoesToOne

\* For any monitors, requests, deadlines and queue the look keeps its types.
THEOREM PeekTypes == PeekSpec => []PeekTypeOK
  BY PeekInvariant, PeekInvSays, PTL

\* However many monitors read a row before one of them collects, its frame goes to one.
THEOREM OneReader == PeekSpec => []FrameGoesToOne
  BY PeekInvariant, PeekInvSays, PTL

\* No timer of an earlier notice takes the disclosure down.
THEOREM DisclosureIsKept == PeekSpec => DisclosureStays
<1>1. PeekInv => [AutoDismiss => strip # "peek"]_peekVars
  BY DEF PeekInv, StripOK, AutoDismiss
<1> QED
  BY <1>1, PeekInvariant, PTL DEF DisclosureStays

-----------------------------------------------------------------------------
(* One card of the editor *)

\* The card, the saver and the counters.
CardOK ==
  /\ shown \in Contents /\ persisted \in Contents /\ server \in Contents
  /\ failed \in BOOLEAN /\ saving \in BOOLEAN
  /\ here \in BOOLEAN /\ recent \in BOOLEAN /\ unsure \in BOOLEAN
  /\ saver \in Saver /\ failures \in 0..MaxFailures
CopiesOK == copies \in Seq(Contents) /\ Len(copies) <= Keep

\* A PATCH in flight has a content.
WireOK == wire \in [Paths -> Patch] /\ \A p \in Paths : Out(p) => wire[p].content \in Contents

\* A replacement under way has the cards it goes between, and its PATCH in its last step.
ReplaceOK ==
  /\ replace \in Replace
  /\ Out("replace") <=> replace.step = "patch"
  /\ replace.step # "none" => replace.next \in Contents /\ replace.back \in Contents

\* The one PATCH that was stored and not answered is what the server holds, and the card
\* still reads saving; with none, the editor knows what the server holds.
Agree ==
  ~unsure =>
    /\ \A p, o \in Paths : wire[p].at = "stored" /\ wire[o].at = "stored" => p = o
    /\ \A p \in Paths : wire[p].at = "stored" => server = wire[p].content
    /\ (\A p \in Paths : wire[p].at # "stored") => server = persisted
    /\ saving \/ \A p \in Paths : wire[p].at # "stored"

\* A replacement on its way replaces what was saved when it set out.
OverHolds ==
  wire["replace"].at = "sent" /\ ~unsure /\ replace.over # NoContent => replace.over = server

\* The inductive invariant of the card.
AutosaveInv == CardOK /\ CopiesOK /\ WireOK /\ ReplaceOK /\ Agree /\ OverHolds

\* What the autosaver becomes.
LEMMA SaverIs ==
  ASSUME NEW s \in Saver
  PROVE  /\ \A c \in Maybe : [s EXCEPT !.timer = c] \in Saver /\ [s EXCEPT !.trailing = c] \in Saver
         /\ \A c, d \in Maybe : /\ [s EXCEPT !.timer = c, !.trailing = d] \in Saver
                                /\ [s EXCEPT !.timer = c, !.scheduled = d] \in Saver
         /\ \A b \in BOOLEAN : [s EXCEPT !.held = b] \in Saver
         /\ s.timer \in Maybe /\ s.trailing \in Maybe /\ s.scheduled \in Maybe
  BY DEF Saver

\* What an offered card makes of the saver.
LEMMA SyncedIs ==
  ASSUME NEW s \in Saver, NEW c \in Contents, NEW saved
  PROVE  Synced(s, c, saved) \in Saver /\ Cancelled(s) \in Saver
  BY SaverIs DEF Synced, Cancelled, Maybe

\* The autosaver's PATCH is on the wire, or nothing is new there.
Sends ==
  \/ wire' = wire /\ UNCHANGED saving
  \/ ~Out("auto") /\ \E c \in Contents : Persist("auto", c)

\* A value that fires is sent, or waits behind the flight.
LEMMA FireIs ==
  ASSUME failed \in BOOLEAN, NEW s \in Saver, s.timer \in Contents, Fire(s)
  PROVE  saver' \in Saver /\ failed' \in BOOLEAN /\ Sends
<1>1. NoContent \in Maybe /\ s.timer \in Maybe
  BY DEF Maybe
<1>2. /\ [s EXCEPT !.timer = NoContent, !.trailing = s.timer] \in Saver
      /\ [s EXCEPT !.timer = NoContent] \in Saver
  BY <1>1, SaverIs
<1>3. CASE Out("auto")
  BY <1>2, <1>3 DEF Fire, NoPersist, Sends
<1>4. CASE ~Out("auto")
  <2>1. saver' = [s EXCEPT !.timer = NoContent] /\ (NoPersist \/ Persist("auto", s.timer))
    BY <1>4 DEF Fire, SendAuto
  <2> QED
    BY <1>2, <1>4, <2>1 DEF NoPersist, Persist, Sends
<1> QED
  BY <1>3, <1>4

\* A PATCH takes off on a path that has none, or whose request has failed.
LEMMA Sending ==
  ASSUME WireOK, Agree, NEW p \in Paths, NEW c \in Contents, wire[p].at # "stored",
         Persist(p, c), UNCHANGED <<server, persisted, unsure>>
  PROVE  WireOK' /\ Agree' /\ Out(p)' /\ saving' = TRUE
<1>1. Sent(c) \in Patch /\ Sent(c).at = "sent" /\ Sent(c).content = c
  BY DEF Sent, Patch, Maybe
<1>2. wire'[p] = Sent(c) /\ (\A o \in Paths \ {p} : wire'[o] = wire[o]) /\ wire' \in [Paths -> Patch]
  BY <1>1 DEF WireOK, Persist
<1>3. WireOK'
  BY <1>1, <1>2 DEF WireOK, Out
<1>4. saving' = TRUE
  BY DEF Persist
<1>5. Agree'
  BY <1>1, <1>2, <1>4 DEF Agree
<1> QED
  BY <1>1, <1>2, <1>3, <1>4, <1>5 DEF Out

\* A step of the editor: what the server holds and what is known of it stay.
LEMMA EditorStep ==
  ASSUME AutosaveInv, UNCHANGED <<persisted, server, history, failures, unsure>>,
         shown' \in Contents, failed' \in BOOLEAN, saving' \in BOOLEAN, here' \in BOOLEAN,
         saver' \in Saver,
         WireOK', ReplaceOK', Agree', OverHolds'
  PROVE  AutosaveInv'
  BY DEF AutosaveInv, CardOK, CopiesOK, history

\* The replacement under way, of another path's PATCH.
LEMMA ReplaceStays ==
  ASSUME AutosaveInv, UNCHANGED <<replace, server, unsure>>, wire'["replace"] = wire["replace"]
  PROVE  ReplaceOK' /\ OverHolds'
  BY DEF AutosaveInv, ReplaceOK, OverHolds, Out

\* The autosaver's PATCH changes nothing that is known, nor the replacement's.
LEMMA SendsKeep ==
  ASSUME AutosaveInv, Sends, UNCHANGED <<server, persisted, unsure>>
  PROVE  WireOK' /\ Agree' /\ wire'["replace"] = wire["replace"] /\ saving' \in BOOLEAN
<1>1. CASE wire' = wire /\ UNCHANGED saving
  BY <1>1 DEF AutosaveInv, CardOK, WireOK, Agree, Out
<1>2. ASSUME NEW c \in Contents, ~Out("auto"), Persist("auto", c)
      PROVE  WireOK' /\ Agree' /\ wire'["replace"] = wire["replace"] /\ saving' \in BOOLEAN
  <2>1. wire["auto"].at # "stored" /\ "auto" \in Paths
    BY <1>2 DEF Out, Paths
  <2>2. wire'["replace"] = wire["replace"]
    BY <1>2 DEF AutosaveInv, WireOK, Paths, Persist
  <2> QED
    BY <1>2, <2>1, <2>2, Sending DEF AutosaveInv
<1> QED
  BY <1>1, <1>2 DEF Sends

\* The timer, a retry, typing, leaving, and the flush of a replacement.
LEMMA SaverStep ==
  ASSUME AutosaveInv,
         \/ TimerFires \/ RetryFailed \/ Leave
         \/ \E c \in Contents : Type(c)
         \/ \E by \in {"restore", "type"}, c \in Contents : StartReplace(by, c)
  PROVE  AutosaveInv'
<1>1. /\ shown \in Contents /\ failed \in BOOLEAN /\ here \in BOOLEAN /\ saver \in Saver
      /\ NoContent \notin Contents
  BY AutosaveAssumption DEF AutosaveInv, CardOK
<1>2. saver.timer # NoContent => saver.timer \in Contents
  BY <1>1 DEF Saver, Maybe
<1>4. CASE TimerFires
  <2>1. /\ saver' \in Saver /\ failed' \in BOOLEAN /\ Sends
        /\ UNCHANGED <<shown, persisted, here, replace, server, history, failures, unsure>>
    BY <1>1, <1>2, <1>4, FireIs DEF TimerFires
  <2>2. WireOK' /\ Agree' /\ ReplaceOK' /\ OverHolds' /\ saving' \in BOOLEAN
    BY <2>1, SendsKeep, ReplaceStays
  <2> QED
    BY <1>1, <2>1, <2>2, EditorStep
<1>5. CASE RetryFailed
  <2> DEFINE s == [saver EXCEPT !.timer = shown]
  <2>1. s \in Saver /\ s.timer \in Contents
    BY <1>1 DEF Saver, Maybe
  <2>2. Fire(s) /\ UNCHANGED <<shown, persisted, here, replace, server, history, failures, unsure>>
    BY <1>5 DEF RetryFailed
  <2> HIDE DEF s
  <2>3. saver' \in Saver /\ failed' \in BOOLEAN /\ Sends
    BY <1>1, <2>1, <2>2, FireIs
  <2>4. WireOK' /\ Agree' /\ ReplaceOK' /\ OverHolds' /\ saving' \in BOOLEAN
    BY <2>2, <2>3, SendsKeep, ReplaceStays
  <2> QED
    BY <1>1, <2>2, <2>3, <2>4, EditorStep
<1>6. CASE Leave
  <2>1. /\ UNCHANGED <<shown, persisted, replace, server, history, failures, unsure>> /\ here' \in BOOLEAN
        /\ (saver' = saver /\ NoPersist) \/ (saver.timer # NoContent /\ Fire(saver))
    BY <1>6 DEF Leave
  <2>2. saver' \in Saver /\ failed' \in BOOLEAN /\ Sends
    BY <1>1, <1>2, <2>1, FireIs DEF Sends, NoPersist
  <2>3. WireOK' /\ Agree' /\ ReplaceOK' /\ OverHolds' /\ saving' \in BOOLEAN
    BY <2>1, <2>2, SendsKeep, ReplaceStays
  <2> QED
    BY <1>1, <2>1, <2>2, <2>3, EditorStep
<1>7. ASSUME NEW c \in Contents, Type(c) PROVE AutosaveInv'
  <2>1. /\ shown' = c /\ saver' \in Saver /\ Sends
        /\ UNCHANGED <<persisted, failed, saving, here, replace, wire, server, history, failures, unsure>>
    BY <1>1, <1>7, SyncedIs DEF Type, Show, Sends
  <2>2. WireOK' /\ Agree' /\ ReplaceOK' /\ OverHolds' /\ saving' \in BOOLEAN
    BY <2>1, SendsKeep, ReplaceStays
  <2> QED
    BY <1>1, <2>1, <2>2, EditorStep
<1>8. ASSUME NEW by \in {"restore", "type"}, NEW c \in Contents, StartReplace(by, c)
      PROVE  AutosaveInv'
  <2> DEFINE r == [NoReplace EXCEPT !.step = "flush", !.by = by, !.next = c, !.back = shown]
  <2>1. r \in Replace /\ r.step = "flush" /\ r.next = c /\ r.back = shown /\ r.over = NoContent
    BY <1>1 DEF NoReplace, Replace, Maybe
  <2>2. replace' = r /\ replace.step = "none"
    BY <1>8 DEF StartReplace
  <2> HIDE DEF r
  <2>3. /\ UNCHANGED <<shown, persisted, here, server, history, failures, unsure>>
        /\ (saver' = saver /\ NoPersist) \/ (saver.timer # NoContent /\ Fire(saver))
    BY <1>8 DEF StartReplace
  <2>4. saver' \in Saver /\ failed' \in BOOLEAN /\ Sends
    BY <1>1, <1>2, <2>3, FireIs DEF Sends, NoPersist
  <2>5. WireOK' /\ Agree' /\ wire'["replace"] = wire["replace"] /\ saving' \in BOOLEAN
    BY <2>3, <2>4, SendsKeep
  <2>6. ReplaceOK' /\ OverHolds'
    BY <1>1, <2>1, <2>2, <2>5 DEF AutosaveInv, ReplaceOK, OverHolds, Out
  <2> QED
    BY <1>1, <2>3, <2>4, <2>5, <2>6, EditorStep
<1> QED
  BY <1>4, <1>5, <1>6, <1>7, <1>8

\* An accepted suggestion: its PATCH goes beside the others.
LEMMA AcceptStep ==
  ASSUME AutosaveInv, NEW c \in Contents, AcceptSuggestion(c)
  PROVE  AutosaveInv'
<1>1. /\ shown' = c /\ saver' \in Saver /\ ~Out("tag")
      /\ UNCHANGED <<persisted, here, replace, server, history, failures, unsure>>
  BY SyncedIs DEF AcceptSuggestion, Show, AutosaveInv, CardOK
<1>2. failed' \in BOOLEAN /\ ((wire' = wire /\ UNCHANGED saving) \/ Persist("tag", c))
  BY DEF AcceptSuggestion, AutosaveInv, CardOK, NoPersist, Persist
<1>3. WireOK' /\ Agree' /\ wire'["replace"] = wire["replace"] /\ saving' \in BOOLEAN
  <2>1. CASE wire' = wire /\ UNCHANGED saving
    BY <1>1, <2>1 DEF AutosaveInv, CardOK, WireOK, Agree, Out
  <2>2. CASE Persist("tag", c)
    <3>1. wire["tag"].at # "stored" /\ "tag" \in Paths
      BY <1>1 DEF Out, Paths
    <3>2. WireOK' /\ Agree' /\ saving' \in BOOLEAN
      BY <1>1, <2>2, <3>1, Sending DEF AutosaveInv
    <3>3. wire'["replace"] = wire["replace"]
      BY <2>2 DEF AutosaveInv, WireOK, Paths, Persist
    <3> QED
      BY <3>2, <3>3
  <2> QED
    BY <1>2, <2>1, <2>2
<1>4. ReplaceOK' /\ OverHolds'
  BY <1>1, <1>3, ReplaceStays
<1>5. here' \in BOOLEAN
  BY <1>1 DEF AutosaveInv, CardOK
<1> QED
  BY <1>1, <1>2, <1>3, <1>4, <1>5, EditorStep

\* The card is replaced: over what the server holds, when all was saved.
LEMMA ReplacesStep ==
  ASSUME AutosaveInv, Replaces
  PROVE  AutosaveInv'
<1> DEFINE r == [replace EXCEPT !.step = "patch", !.over = IF Saved THEN shown ELSE NoContent]
<1>1. /\ replace \in Replace /\ replace.step = "flush" /\ replace.next \in Contents
      /\ replace.back \in Contents /\ ~Out("replace") /\ shown \in Contents /\ saver \in Saver
  BY DEF Replaces, Flushed, AutosaveInv, ReplaceOK, CardOK
<1>2. /\ r \in Replace /\ r.step = "patch" /\ r.next = replace.next /\ r.back = replace.back
      /\ r.over = IF Saved THEN shown ELSE NoContent
  BY <1>1 DEF Replace, Maybe
<1>3. /\ replace' = r /\ shown' = replace.next /\ failed' = FALSE
      /\ saver' = Cancelled([saver EXCEPT !.held = TRUE])
      /\ Persist("replace", replace.next)
      /\ UNCHANGED <<persisted, here, server, history, failures, unsure>>
  BY DEF Replaces, Persist
<1> HIDE DEF r
<1>4. saver' \in Saver
  <2>1. [saver EXCEPT !.held = TRUE] \in Saver
    BY <1>1, SaverIs
  <2> QED
    BY <1>1, <1>3, <2>1, SyncedIs
<1>5. WireOK' /\ Agree' /\ Out("replace")' /\ saving' = TRUE
  <2>1. wire["replace"].at # "stored" /\ "replace" \in Paths
    BY <1>1 DEF Out, Paths
  <2> QED
    BY <1>1, <1>3, <2>1, Sending DEF AutosaveInv
<1>6. ReplaceOK'
  BY <1>1, <1>2, <1>3, <1>5 DEF ReplaceOK
<1>7. OverHolds'
  <2>1. Saved /\ ~unsure => server = shown
    BY DEF AutosaveInv, Agree, Saved, Out
  <2> QED
    BY <1>2, <1>3, <2>1 DEF OverHolds
<1>8. failed' \in BOOLEAN /\ here' \in BOOLEAN
  BY <1>3 DEF AutosaveInv, CardOK
<1> QED
  BY <1>1, <1>3, <1>4, <1>5, <1>6, <1>7, <1>8, EditorStep

\* What the server copies before it stores.
LEMMA CopiesStep ==
  ASSUME CopiesOK, server \in Contents, NEW p \in Paths, StorePatch(p)
  PROVE  /\ CopiesOK'
         /\ p = "replace" => server \in Range(copies') \cup {wire[p].content}
<1> DEFINE all == Append(copies, server)
           from == IF Len(all) > Keep THEN 2 ELSE 1
<1>1. /\ all \in Seq(Contents) /\ Len(all) = Len(copies) + 1 /\ all[Len(all)] = server
      /\ Len(copies) \in Nat /\ Len(all) \in 1..(Keep + 1)
      /\ \A i \in 1..Len(all) : all[i] \in Contents
  <2>1. all \in Seq(Contents) /\ Len(all) = Len(copies) + 1 /\ all[Len(copies) + 1] = server
    BY AppendProperties DEF CopiesOK
  <2>2. Len(copies) \in Nat
    BY LenProperties DEF CopiesOK
  <2> QED
    BY <2>1, <2>2, AutosaveAssumption, ElementOfSeq DEF CopiesOK
<1>2. CASE Captures(p, wire[p].content)
  <2>1. copies' = SubSeq(all, from, Len(all))
    BY <1>2 DEF StorePatch
  <2>2. from \in 1..Len(all) /\ Len(all) - from + 1 <= Keep
    BY <1>1, AutosaveAssumption
  <2> HIDE DEF all, from
  <2>3. /\ copies' \in Seq(Contents) /\ Len(copies') = Len(all) - from + 1
        /\ copies'[Len(all) - from + 1] = all[Len(all)]
    <3>1. from \in Int /\ Len(all) \in Int /\ \A i \in from..Len(all) : all[i] \in Contents
      BY <1>1, <2>2
    <3>2. /\ SubSeq(all, from, Len(all)) \in Seq(Contents)
          /\ Len(SubSeq(all, from, Len(all))) = IF from <= Len(all) THEN Len(all) - from + 1 ELSE 0
          /\ \A i \in 1..Len(all) - from + 1 : SubSeq(all, from, Len(all))[i] = all[from + i - 1]
      BY <3>1, SubSeqProperties
    <3>3. Len(all) - from + 1 \in 1..Len(all) - from + 1 /\ from + (Len(all) - from + 1) - 1 = Len(all)
      BY <1>1, <2>2
    <3> QED
      BY <2>1, <2>2, <3>1, <3>2, <3>3
  <2>4. server \in Range(copies')
    <3>1. Len(all) - from + 1 \in DOMAIN copies'
      BY <1>1, <2>2, <2>3, LenProperties
    <3> QED
      BY <1>1, <2>3, <3>1 DEF Range
  <2> QED
    BY <2>2, <2>3, <2>4 DEF CopiesOK
<1>3. CASE ~Captures(p, wire[p].content)
  <2>1. UNCHANGED copies
    BY <1>3 DEF StorePatch, history
  <2>2. p = "replace" => server \in Range(copies) \cup {wire[p].content}
    <3> SUFFICES ASSUME p = "replace", server # wire[p].content, copies # <<>>, Last(copies) = server
                 PROVE  server \in Range(copies)
      BY <1>3 DEF Captures
    <3>1. Len(copies) \in DOMAIN copies
      BY LenProperties, EmptySeq DEF CopiesOK
    <3> QED
      BY <3>1 DEF Range, Last
  <2> QED
    BY <2>1, <2>2 DEF CopiesOK
<1> QED
  BY <1>2, <1>3

\* The server stores: alone on the wire and waited for it is known, else the editor is unsure.
LEMMA StoreStep ==
  ASSUME AutosaveInv, NEW p \in Paths, StorePatch(p)
  PROVE  AutosaveInv'
<1>1. /\ wire[p].at = "sent" /\ wire' = [wire EXCEPT ![p].at = "stored"] /\ server' = wire[p].content
      /\ UNCHANGED <<card, saver, replace, failures>>
      /\ unsure' = (~saving \/ \E o \in Paths \ {p} : Out(o)) /\ saving' = saving
  BY DEF StorePatch, card
<1>2. wire[p] \in Patch /\ wire[p].content \in Contents
  BY <1>1 DEF AutosaveInv, WireOK, Out
<1>3. /\ wire' \in [Paths -> Patch] /\ wire'[p].at = "stored" /\ wire'[p].content = wire[p].content
      /\ \A o \in Paths \ {p} : wire'[o] = wire[o]
  <2>1. /\ [wire[p] EXCEPT !.at = "stored"] \in Patch
        /\ [wire[p] EXCEPT !.at = "stored"].at = "stored"
        /\ [wire[p] EXCEPT !.at = "stored"].content = wire[p].content
    BY <1>2 DEF Patch
  <2> QED
    BY <1>1, <2>1 DEF AutosaveInv, WireOK
<1>4. CardOK'
  <2>1. recent' \in BOOLEAN
    BY DEF StorePatch, history, AutosaveInv, CardOK
  <2>2. unsure' \in BOOLEAN
    BY <1>1
  <2> QED
    BY <1>1, <1>2, <2>1, <2>2 DEF AutosaveInv, CardOK, card
<1>5. CopiesOK'
  BY CopiesStep DEF AutosaveInv, CardOK
<1>6. WireOK' /\ \A o \in Paths : Out(o)' <=> Out(o)
  BY <1>1, <1>2, <1>3 DEF AutosaveInv, WireOK, Out
<1>7. ReplaceOK'
  BY <1>1, <1>6 DEF AutosaveInv, ReplaceOK, Paths
<1>8. Agree'
  BY <1>1, <1>3 DEF Agree, Out
<1>9. OverHolds'
  <2> SUFFICES ASSUME wire'["replace"].at = "sent" PROVE unsure'
    BY DEF OverHolds
  <2>1. p # "replace" /\ "replace" \in Paths
    BY <1>3 DEF Paths
  <2>2. Out("replace")
    BY <1>3, <2>1 DEF Out
  <2> QED
    BY <1>1, <2>1, <2>2
<1> QED
  BY <1>4, <1>5, <1>6, <1>7, <1>8, <1>9 DEF AutosaveInv

\* The path's request is over; the autosaver's may be followed by the next.
Over(p) ==
  /\ \A o \in Paths \ {p} : wire'[o] = wire[o]
  /\ wire'[p].at \in {"none", "sent"}

\* The autosaver's flight is over, and what trails it may take off.
LEMMA AfterIs ==
  ASSUME AutosaveInv, NEW saved \in Contents, NEW error \in BOOLEAN, After(saved, error)
  PROVE  saver' \in Saver /\ WireOK' /\ Over("auto") /\ failed' \in BOOLEAN /\ saving' \in BOOLEAN
<1>1. saver \in Saver /\ saver.trailing \in Maybe /\ NoContent \in Maybe /\ shown \in Contents
  BY SaverIs DEF AutosaveInv, CardOK, Maybe
<1> DEFINE s == [saver EXCEPT !.trailing = NoContent]
           next == IF saver.trailing \notin {NoContent, saved} THEN Sent(saver.trailing) ELSE NoPatch
<1>2. s \in Saver
  BY <1>1, SaverIs
<1>3. next \in Patch /\ next.at \in {"none", "sent"} /\ (next.at # "none" => next.content \in Contents)
  BY <1>1 DEF Sent, NoPatch, Patch, Maybe
<1>4. saver' = Synced(s, shown, saved) /\ wire' = [wire EXCEPT !["auto"] = next]
  BY DEF After, Persist
<1>7. failed' \in BOOLEAN /\ saving' \in BOOLEAN
  BY DEF After, Persist
<1> HIDE DEF s, next
<1>5. saver' \in Saver
  BY <1>1, <1>2, <1>4, SyncedIs
<1>6. wire' \in [Paths -> Patch] /\ wire'["auto"] = next /\ \A o \in Paths \ {"auto"} : wire'[o] = wire[o]
  BY <1>3, <1>4 DEF AutosaveInv, WireOK, Paths
<1> QED
  BY <1>3, <1>5, <1>6, <1>7 DEF AutosaveInv, WireOK, Out, Over

\* The flight of another path is over.
LEMMA OffTheWire ==
  ASSUME AutosaveInv, NEW p \in Paths, wire' = [wire EXCEPT ![p] = NoPatch]
  PROVE  WireOK' /\ Over(p) /\ ~Out(p)'
<1>1. NoPatch \in Patch /\ NoPatch.at = "none"
  BY DEF NoPatch, Patch, Maybe
<1>2. wire' \in [Paths -> Patch] /\ wire'[p] = NoPatch /\ \A o \in Paths \ {p} : wire'[o] = wire[o]
  BY <1>1 DEF AutosaveInv, WireOK
<1> QED
  BY <1>1, <1>2 DEF AutosaveInv, WireOK, Out, Over

\* The replacement when an answer comes: over with its own, else as it was.
LEMMA ReplaceAnswered ==
  ASSUME AutosaveInv, NEW p \in Paths, WireOK', Over(p), UNCHANGED server, unsure => unsure',
         IF p = "replace" THEN replace' = NoReplace /\ ~Out("replace")' ELSE UNCHANGED replace
  PROVE  ReplaceOK' /\ OverHolds'
<1>1. CASE p = "replace"
  <2>1. NoReplace \in Replace /\ NoReplace.step = "none"
    BY DEF NoReplace, Replace, Maybe
  <2> QED
    BY <1>1, <2>1 DEF ReplaceOK, OverHolds, Out
<1>2. CASE p # "replace"
  <2>1. wire'["replace"] = wire["replace"] /\ replace' = replace
    BY <1>2 DEF Over, Paths
  <2> QED
    BY <2>1 DEF AutosaveInv, ReplaceOK, OverHolds, Out
<1> QED
  BY <1>1, <1>2

\* The editor hears that its PATCH was stored.
LEMMA ConfirmedStep ==
  ASSUME AutosaveInv, NEW p \in Paths, Confirmed(p)
  PROVE  AutosaveInv'
<1>1. /\ wire[p].at = "stored" /\ persisted' = wire[p].content
      /\ UNCHANGED <<shown, here, server, history, failures, unsure>>
  BY DEF Confirmed, Snapshot
<1>2. /\ wire[p].content \in Contents /\ saver \in Saver /\ shown \in Contents
      /\ failed \in BOOLEAN
  BY <1>1 DEF AutosaveInv, WireOK, Out, CardOK
<1>3. /\ saver' \in Saver /\ WireOK' /\ Over(p) /\ failed' \in BOOLEAN /\ saving' \in BOOLEAN
      /\ IF p = "replace" THEN replace' = NoReplace /\ ~Out("replace")' ELSE UNCHANGED replace
  <2>1. CASE p = "auto"
    BY <1>2, <2>1, AfterIs DEF Confirmed, Snapshot
  <2>2. CASE p # "auto"
    <3>1. /\ WireOK' /\ Over(p) /\ ~Out(p)'
          /\ failed' \in BOOLEAN /\ saving' \in BOOLEAN
      BY <1>2, <2>2, OffTheWire DEF Confirmed
    <3>2. replace' = IF p = "replace" THEN NoReplace ELSE replace
      BY <2>2 DEF Confirmed
    <3>3. [saver EXCEPT !.held = FALSE] \in Saver
      BY <1>2, SaverIs
    <3>4. saver' \in Saver
      BY <1>2, <2>2, <3>3, SyncedIs DEF Confirmed
    <3> QED
      BY <3>1, <3>2, <3>4
  <2> QED
    BY <2>1, <2>2
<1>4. Agree'
  BY <1>1, <1>3 DEF AutosaveInv, Agree, Over
<1>5. ReplaceOK' /\ OverHolds'
  BY <1>1, <1>3, ReplaceAnswered
<1> QED
  BY <1>1, <1>2, <1>3, <1>4, <1>5 DEF AutosaveInv, CardOK, CopiesOK, history

\* A PATCH failed, or its answer was lost.
LEMMA FailsStep ==
  ASSUME AutosaveInv, NEW p \in Paths, PatchFails(p)
  PROVE  AutosaveInv'
<1>1. /\ Out(p) /\ failures' \in 0..MaxFailures
      /\ UNCHANGED <<persisted, here, server, history>>
  BY AutosaveAssumption DEF PatchFails, AutosaveInv, CardOK
<1>2. /\ unsure \/ (\E o \in Paths : wire[o].at = "stored") => unsure'
      /\ unsure' \in BOOLEAN
  BY DEF PatchFails
<1>3. saver \in Saver /\ shown \in Contents /\ persisted \in Contents
  BY DEF AutosaveInv, CardOK
<1>4. /\ saver' \in Saver /\ shown' \in Contents /\ WireOK' /\ Over(p)
      /\ failed' \in BOOLEAN /\ saving' \in BOOLEAN
      /\ IF p = "replace" THEN replace' = NoReplace /\ ~Out("replace")' ELSE UNCHANGED replace
  <2>1. CASE p = "auto"
    BY <1>3, <2>1, AfterIs DEF PatchFails
  <2>2. CASE p # "auto"
    <3>1. /\ WireOK' /\ Over(p) /\ ~Out(p)'
          /\ failed' \in BOOLEAN /\ saving' \in BOOLEAN
      BY <2>2, OffTheWire DEF PatchFails
    <3>2. CASE p = "replace"
      <4>1. replace.back \in Contents
        BY <1>1, <3>2 DEF AutosaveInv, ReplaceOK
      <4>2. [saver EXCEPT !.held = FALSE] \in Saver
        BY <1>3, SaverIs
      <4>3. Show(replace.back, persisted, [saver EXCEPT !.held = FALSE]) /\ replace' = NoReplace
        BY <3>2 DEF PatchFails
      <4>4. saver' \in Saver /\ shown' \in Contents
        BY <4>1, <4>2, <4>3, SyncedIs DEF Show
      <4> QED
        BY <3>1, <3>2, <4>3, <4>4
    <3>3. CASE p # "replace"
      BY <1>3, <2>2, <3>1, <3>3 DEF PatchFails
    <3> QED
      BY <3>2, <3>3
  <2> QED
    BY <2>1, <2>2
<1>5. Agree'
  BY <1>1, <1>2, <1>4 DEF AutosaveInv, Agree, Over
<1>6. ReplaceOK' /\ OverHolds'
  BY <1>1, <1>2, <1>4, ReplaceAnswered
<1> QED
  BY <1>1, <1>2, <1>3, <1>4, <1>5, <1>6 DEF AutosaveInv, CardOK, CopiesOK, history

\* Every step of the card.
LEMMA AutosaveStep == AutosaveInv /\ [AutosaveNext]_autosaveVars => AutosaveInv'
<1> SUFFICES ASSUME AutosaveInv, [AutosaveNext]_autosaveVars PROVE AutosaveInv'
  OBVIOUS
<1>1. CASE UNCHANGED autosaveVars
  BY <1>1 DEF AutosaveInv, CardOK, CopiesOK, WireOK, ReplaceOK, Agree, OverHolds, Out, autosaveVars,
              card, history
<1>2. CASE IntervalPasses
  BY <1>2 DEF IntervalPasses, AutosaveInv, CardOK, CopiesOK, WireOK, ReplaceOK, Agree, OverHolds, Out,
              card, history
<1>3. ASSUME NEW p \in Paths, Answered(p) PROVE AutosaveInv'
  BY <1>3, ConfirmedStep, FailsStep DEF Answered
<1> QED
  BY <1>1, <1>2, <1>3, ReplacesStep, SaverStep, AcceptStep, StoreStep DEF AutosaveNext

\* The card starts well.
LEMMA AutosaveStarts == AutosaveInit => AutosaveInv
<1> SUFFICES ASSUME AutosaveInit PROVE AutosaveInv
  OBVIOUS
<1> USE AutosaveAssumption
<1>1. CardOK
  <2>1. saver \in Saver
    BY DEF AutosaveInit, Saver, Maybe
  <2>2. failed \in BOOLEAN /\ saving \in BOOLEAN /\ here \in BOOLEAN /\ recent \in BOOLEAN /\ unsure \in BOOLEAN
    BY Zenon DEF AutosaveInit
  <2> QED
    BY <2>1, <2>2 DEF AutosaveInit, CardOK
<1>2. CopiesOK
  BY DEF AutosaveInit, CopiesOK
<1>3. \A p \in Paths : wire[p] = NoPatch /\ ~Out(p)
  BY DEF AutosaveInit, NoPatch, Out
<1>4. WireOK
  <2>1. NoPatch \in Patch
    BY DEF NoPatch, Patch, Maybe
  <2> QED
    BY <1>3, <2>1 DEF AutosaveInit, WireOK
<1>5. ReplaceOK
  BY <1>3 DEF AutosaveInit, ReplaceOK, NoReplace, Replace, Maybe, Paths
<1>6. Agree /\ OverHolds
  BY <1>3 DEF AutosaveInit, Agree, OverHolds, Paths, NoPatch
<1> QED
  BY <1>1, <1>2, <1>4, <1>5, <1>6 DEF AutosaveInv

\* The inductive invariant of the card: types, at most one PATCH stored and not answered,
\* and a replacement that replaces what was saved when it set out.
THEOREM AutosaveInvariant == AutosaveSpec => []AutosaveInv
  BY AutosaveStarts, AutosaveStep, PTL DEF AutosaveSpec

\* For any contents, copies and failures the card keeps its types.
THEOREM AutosaveTypes == AutosaveSpec => []AutosaveTypeOK
<1>1. AutosaveInv => AutosaveTypeOK
  BY DEF AutosaveInv, CardOK, CopiesOK, WireOK, ReplaceOK, AutosaveTypeOK
<1> QED
  BY <1>1, AutosaveInvariant, PTL

\* "All changes saved" is true, of PATCHes stored one at a time under a card that waits for
\* them and whose answers come; other paths' may be on their way.
THEOREM AllChangesSaved == AutosaveSpec => []SavedMeansSaved
<1>1. AutosaveInv => SavedMeansSaved
  BY DEF AutosaveInv, Agree, SavedMeansSaved, Saved, Out
<1> QED
  BY <1>1, AutosaveInvariant, PTL

\* Only the server stores a replacement's PATCH: what fires is the autosaver's.
LEMMA FireKeeps ==
  ASSUME WireOK, NEW s, Fire(s)
  PROVE  wire'["replace"] = wire["replace"]
  BY DEF Fire, SendAuto, Persist, NoPersist, WireOK, Paths

\* So a replacement that is stored was stored by the server.
LEMMA OnlyStored ==
  ASSUME AutosaveInv, [AutosaveNext]_autosaveVars,
         wire["replace"].at = "sent", wire'["replace"].at = "stored"
  PROVE  StorePatch("replace")
<1>1. WireOK /\ wire'["replace"] # wire["replace"] /\ "replace" \in Paths
  BY DEF AutosaveInv, Paths
<1>2. CASE UNCHANGED wire
  BY <1>1, <1>2
<1>3. CASE TimerFires \/ RetryFailed \/ Leave
  BY <1>1, <1>3, FireKeeps DEF TimerFires, RetryFailed, Leave, NoPersist
<1>4. ASSUME NEW c, Type(c) \/ AcceptSuggestion(c) PROVE FALSE
  BY <1>1, <1>4 DEF Type, AcceptSuggestion, Persist, NoPersist, WireOK, Paths
<1>5. ASSUME NEW by, NEW c, StartReplace(by, c) PROVE FALSE
  BY <1>1, <1>5, FireKeeps DEF StartReplace, NoPersist
<1>6. ASSUME NEW p \in Paths, Answered(p) PROVE FALSE
  <2>1. CASE p = "auto"
    BY <1>1, <1>6, <2>1 DEF Answered, Confirmed, PatchFails, After, Persist, WireOK, Paths
  <2>2. CASE p # "auto"
    <3>1. wire' = [wire EXCEPT ![p] = NoPatch]
      BY <1>6, <2>2 DEF Answered, Confirmed, PatchFails
    <3> QED
      BY <1>1, <3>1 DEF WireOK, NoPatch
  <2> QED
    BY <2>1, <2>2
<1>7. CASE Replaces
  BY <1>1, <1>7 DEF Replaces, Persist, WireOK, Sent
<1>8. ASSUME NEW p \in Paths, StorePatch(p) PROVE p = "replace"
  BY <1>1, <1>8 DEF StorePatch, WireOK
<1> QED
  BY <1>1, <1>2, <1>3, <1>4, <1>5, <1>6, <1>7, <1>8 DEF AutosaveNext, autosaveVars, IntervalPasses

\* And what it was to replace is copied, or is what it says itself.
LEMMA KeepsWhatItReplaces ==
  ASSUME AutosaveInv, [AutosaveNext]_autosaveVars, NEW c \in Contents,
         wire["replace"] = Sent(c), wire'["replace"].at = "stored", ~unsure
  PROVE  replace.over \in Range(copies') \cup {c, NoContent}
<1>1. wire["replace"].at = "sent" /\ wire["replace"].content = c /\ "replace" \in Paths
  BY DEF Sent, Paths
<1>2. StorePatch("replace")
  BY <1>1, OnlyStored
<1>3. server \in Range(copies') \cup {c}
  BY <1>1, <1>2, CopiesStep DEF AutosaveInv, CardOK
<1>4. replace.over \in {server, NoContent}
  BY <1>1 DEF AutosaveInv, OverHolds
<1> QED
  BY <1>3, <1>4

\* A restore or a change of type leaves a copy of what the card called saved, of PATCHes as in
\* AllChangesSaved.
THEOREM RestoreLosesNothing == AutosaveSpec => ReplacedIsKept
<1> DEFINE Kept == \A c \in Contents :
                     wire["replace"] = Sent(c) /\ wire'["replace"].at = "stored" /\ ~unsure
                     => replace.over \in Range(copies') \cup {c, NoContent}
<1>1. AutosaveInv /\ [AutosaveNext]_autosaveVars => [Kept]_autosaveVars
  BY KeepsWhatItReplaces
<1> QED
  BY <1>1, AutosaveInvariant, PTL DEF AutosaveSpec, ReplacedIsKept

-----------------------------------------------------------------------------
(* Screening *)

\* A pass has its fields, whatever is in them.
PassFields == {"at", "todo", "cur", "read", "found", "ok", "moved"}
IsPass(x) == x = [f \in PassFields |-> x[f]]
ArePasses == pass = [q \in Passes |-> pass[q]] /\ \A q \in Passes : IsPass(pass[q])

\* A pass at work on an answer that was not edited since has read its text.
AtWorkOn(q) == pass[q].at \in {"screen", "alert", "stamp"}
Current(q) == pass[q].cur \in Answers /\ ~pass[q].moved
HasRead(q) ==
  AtWorkOn(q) /\ Current(q) =>
    pass[q].read = essay[pass[q].cur] /\ essay[pass[q].cur] \notin BlankEssays

\* What both halves reported is alerted or about to be, and all of it before the mark.
Reports(q) ==
  Current(q) =>
    /\ pass[q].at = "alert" /\ pass[q].ok =>
         Concerns[essay[pass[q].cur]] \subseteq pass[q].found \cup heard[pass[q].cur]
    /\ pass[q].at = "stamp" => Concerns[essay[pass[q].cur]] \subseteq heard[pass[q].cur]

\* The inductive invariant of the screening.
ScreenedInv ==
  /\ mark = [a \in Answers |-> mark[a]] /\ heard = [a \in Answers |-> heard[a]]
  /\ essay = [a \in Answers |-> essay[a]]
  /\ ArePasses
  /\ \A q \in Passes : HasRead(q) /\ Reports(q)
  /\ ScreenedMeansHeard

\* Asleep, or on the way to an answer, a pass is at work on none.
LEMMA NotAtWork ==
  /\ IsPass(Asleep) /\ Asleep.at = "idle"
  /\ \A todo : LET x == [Asleep EXCEPT !.at = "look", !.todo = todo] IN IsPass(x) /\ x.at = "look"
<1>1. IsPass(Asleep)
  <2>1. ASSUME NEW at, NEW todo, NEW cur, NEW read, NEW found, NEW ok, NEW moved
        PROVE  IsPass([at |-> at, todo |-> todo, cur |-> cur, read |-> read, found |-> found,
                       ok |-> ok, moved |-> moved])
    BY Zenon DEF IsPass, PassFields
  <2> QED
    BY <2>1 DEF Asleep
<1>2. Asleep.at = "idle"
  BY DEF Asleep
<1> QED
  BY <1>1, <1>2 DEF IsPass, PassFields

\* Pass q goes on to x, the others stay.
Goes(q, x) == /\ ArePasses' /\ pass'[q] = x /\ \A p \in Passes \ {q} : pass'[p] = pass[p]

\* A pass that is assigned anew leaves the others as they were.
LEMMA GoesIs ==
  ASSUME ArePasses, NEW q \in Passes, NEW x, IsPass(x), pass' = [pass EXCEPT ![q] = x]
  PROVE  Goes(q, x)
  BY DEF Goes, ArePasses

\* What a pass that ends an answer becomes.
LEMMA OnWithIs ==
  ASSUME ArePasses, NEW q \in Passes, NEW todo, OnWith(q, todo)
  PROVE  \E x : Goes(q, x) /\ x.at \in {"idle", "look"}
<1>1. PICK x : pass' = [pass EXCEPT ![q] = x] /\ IsPass(x) /\ x.at \in {"idle", "look"}
  BY NotAtWork DEF OnWith
<1> QED
  BY <1>1, GoesIs

\* A pass that takes an answer up has its text.
LEMMA BeginIs ==
  ASSUME ArePasses, NEW q \in Passes, NEW a, NEW todo, Begin(q, a, todo)
  PROVE  \E x : Goes(q, x) /\ x.at = "screen" /\ x.cur = a /\ x.read = essay[a]
<1> DEFINE x == [Asleep EXCEPT !.at = "screen", !.todo = todo, !.cur = a, !.read = essay[a]]
<1>1. IsPass(x) /\ x.at = "screen" /\ x.cur = a /\ x.read = essay[a]
  BY NotAtWork DEF IsPass, PassFields
<1>2. pass' = [pass EXCEPT ![q] = x]
  BY DEF Begin
<1> HIDE DEF x
<1> QED
  BY <1>1, <1>2, GoesIs

\* A pass goes on, the texts stay and nothing is unheard: what the others are at still holds.
LEMMA OthersStay ==
  ASSUME ScreenedInv, NEW q \in Passes, NEW x, Goes(q, x), UNCHANGED essay,
         \A a \in Answers : heard[a] \subseteq heard'[a],
         HasRead(q)', Reports(q)'
  PROVE  \A p \in Passes : HasRead(p)' /\ Reports(p)'
<1> SUFFICES ASSUME NEW p \in Passes PROVE HasRead(p)' /\ Reports(p)'
  OBVIOUS
<1>1. CASE p = q
  BY <1>1
<1>2. CASE p # q
  <2>1. pass'[p] = pass[p] /\ HasRead(p) /\ Reports(p)
    BY <1>2 DEF ScreenedInv, Goes
  <2>2. HasRead(p)'
    BY <2>1 DEF HasRead, AtWorkOn, Current
  <2>3. Reports(p)'
    <3>1. CASE Current(p)
      <4>1. heard[pass[p].cur] \subseteq heard'[pass[p].cur]
        BY <3>1 DEF Current
      <4> QED
        BY <2>1, <3>1, <4>1 DEF Reports, Current
    <3>2. CASE ~Current(p)
      BY <2>1, <3>2 DEF Reports, Current
    <3> QED
      BY <3>1, <3>2
  <2> QED
    BY <2>2, <2>3
<1> QED
  BY <1>1, <1>2

\* Taking up an answer, or finding it screened meanwhile.
LEMMA LookStep ==
  ASSUME ScreenedInv, NEW q \in Passes,
         \/ RetryPick(q) \/ RetryLook(q)
         \/ \E a \in Answers : LookAfterHandIn(q, a) \/ LookBeforeScoring(q, a)
  PROVE  ScreenedInv'
<1>1. UNCHANGED <<essay, mark, overtaken, heard>> /\ ArePasses
  BY DEF RetryPick, RetryLook, LookAfterHandIn, LookBeforeScoring, alerts, ScreenedInv
<1>2. ASSUME ArePasses', \A p \in Passes : HasRead(p)' /\ Reports(p)' PROVE ScreenedInv'
  BY <1>1, <1>2 DEF ScreenedInv, ScreenedMeansHeard, WasHeard
<1>3. ASSUME NEW a, NEW todo, Begin(q, a, todo), Screenable(a) PROVE ScreenedInv'
  <2>1. PICK x : Goes(q, x) /\ x.at = "screen" /\ x.cur = a /\ x.read = essay[a]
    BY <1>1, <1>3, BeginIs
  <2>2. HasRead(q)' /\ Reports(q)'
    BY <1>1, <1>3, <2>1 DEF HasRead, Reports, Current, Screenable, Goes
  <2> QED
    BY <1>1, <1>2, <2>1, <2>2, OthersStay DEF Goes
<1>4. ASSUME NEW todo, OnWith(q, todo) PROVE ScreenedInv'
  <2>1. PICK x : Goes(q, x) /\ x.at \in {"idle", "look"}
    BY <1>1, <1>4, OnWithIs
  <2>2. HasRead(q)' /\ Reports(q)'
    BY <2>1 DEF Goes, HasRead, Reports, AtWorkOn
  <2> QED
    BY <1>1, <1>2, <2>1, <2>2, OthersStay DEF Goes
<1>5. CASE UNCHANGED pass
  BY <1>1, <1>2, <1>5 DEF ScreenedInv, ArePasses, HasRead, AtWorkOn, Reports, Current
<1>6. ASSUME RetryPick(q) PROVE ScreenedInv'
  BY <1>4, <1>6 DEF RetryPick
<1>7. ASSUME RetryLook(q) PROVE ScreenedInv'
  BY <1>3, <1>4, <1>7 DEF RetryLook
<1>8. ASSUME NEW a \in Answers, LookAfterHandIn(q, a) PROVE ScreenedInv'
  BY <1>3, <1>5, <1>8 DEF LookAfterHandIn
<1>9. ASSUME NEW a \in Answers, LookBeforeScoring(q, a) PROVE ScreenedInv'
  BY <1>3, <1>9 DEF LookBeforeScoring
<1> QED
  BY <1>6, <1>7, <1>8, <1>9

\* A pass hears from the providers, alerts, and goes on or gives up.
LEMMA WorkStep ==
  ASSUME ScreenedInv, NEW q \in Passes,
         \/ Alerted(q) \/ PassFails(q)
         \/ \E k \in Kinds : Alert(q, k)
         \/ \E screener, guardrail \in BOOLEAN, found \in SUBSET Kinds :
              Screened(q, screener, guardrail, found)
  PROVE  ScreenedInv'
<1>1. UNCHANGED <<essay, mark, overtaken>> /\ ArePasses /\ HasRead(q) /\ Reports(q)
  BY DEF Alerted, PassFails, Alert, Screened, ScreenedInv
<1>2. ASSUME NEW x, Goes(q, x), heard' = [a \in Answers |-> heard'[a]],
             \A a \in Answers : heard[a] \subseteq heard'[a], HasRead(q)', Reports(q)'
      PROVE  ScreenedInv'
  <2>1. \A p \in Passes : HasRead(p)' /\ Reports(p)'
    BY <1>1, <1>2, OthersStay
  <2>2. ScreenedMeansHeard'
    BY <1>1, <1>2 DEF ScreenedInv, ScreenedMeansHeard, WasHeard
  <2> QED
    BY <1>1, <1>2, <2>1, <2>2 DEF ScreenedInv, Goes
<1>3. ASSUME NEW todo, OnWith(q, todo), UNCHANGED heard PROVE ScreenedInv'
  <2>1. PICK x : Goes(q, x) /\ x.at \in {"idle", "look"}
    BY <1>1, <1>3, OnWithIs
  <2>2. HasRead(q)' /\ Reports(q)'
    BY <2>1 DEF Goes, HasRead, Reports, AtWorkOn
  <2>3. heard' = [a \in Answers |-> heard'[a]] /\ \A a \in Answers : heard[a] \subseteq heard'[a]
    BY <1>3 DEF ScreenedInv
  <2> QED
    BY <1>2, <2>1, <2>2, <2>3
<1>4. ASSUME NEW screener \in BOOLEAN, NEW guardrail \in BOOLEAN, NEW found \in SUBSET Kinds,
             Screened(q, screener, guardrail, found)
      PROVE  ScreenedInv'
  <2> DEFINE x == [pass[q] EXCEPT !.at = "alert", !.found = found, !.ok = screener /\ guardrail]
  <2>1. /\ IsPass(x) /\ x.at = "alert" /\ x.found = found /\ x.ok = (screener /\ guardrail)
        /\ x.cur = pass[q].cur /\ x.read = pass[q].read /\ x.moved = pass[q].moved
    <3>1. pass[q] = [f \in PassFields |-> pass[q][f]]
      BY <1>1 DEF ArePasses, IsPass
    <3> QED
      BY <3>1 DEF IsPass, PassFields
  <2>2. pass' = [pass EXCEPT ![q] = x]
    BY <1>4 DEF Screened
  <2> HIDE DEF x
  <2>3. Goes(q, x)
    BY <1>1, <2>1, <2>2, GoesIs
  <2>4. pass[q].at = "screen" /\ UNCHANGED heard /\ (screener => found = Concerns[pass[q].read])
    BY <1>4 DEF Screened, alerts
  <2>5. HasRead(q)'
    BY <1>1, <2>1, <2>3, <2>4 DEF HasRead, AtWorkOn, Current, Goes
  <2>6. Reports(q)'
    BY <1>1, <2>1, <2>3, <2>4 DEF HasRead, AtWorkOn, Current, Goes, Reports
  <2> QED
    BY <1>2, <2>3, <2>4, <2>5, <2>6 DEF ScreenedInv
<1>5. ASSUME NEW k \in Kinds, Alert(q, k) PROVE ScreenedInv'
  <2> DEFINE x == [pass[q] EXCEPT !.found = @ \ {k}]
             a == pass[q].cur
  <2>1. /\ IsPass(x) /\ x.at = pass[q].at /\ x.found = pass[q].found \ {k} /\ x.ok = pass[q].ok
        /\ x.cur = a /\ x.read = pass[q].read /\ x.moved = pass[q].moved
    BY <1>1 DEF ArePasses, IsPass, PassFields
  <2>2. pass' = [pass EXCEPT ![q] = x]
    BY <1>5 DEF Alert
  <2> HIDE DEF x
  <2>3. Goes(q, x)
    BY <1>1, <2>1, <2>2, GoesIs
  <2>4. pass[q].at = "alert" /\ heard' = [heard EXCEPT ![a] = @ \cup {k}]
    BY <1>5 DEF Alert
  <2>5. /\ heard' = [b \in Answers |-> heard'[b]] /\ \A b \in Answers : heard[b] \subseteq heard'[b]
        /\ a \in Answers => heard'[a] = heard[a] \cup {k}
    BY <2>4 DEF ScreenedInv
  <2> HIDE DEF a
  <2>6. HasRead(q)'
    BY <1>1, <2>1, <2>3, <2>4 DEF HasRead, AtWorkOn, Current, Goes, a
  <2>7. Reports(q)'
    BY <1>1, <2>1, <2>3, <2>4, <2>5 DEF Current, Goes, Reports, a
  <2> QED
    BY <1>2, <2>3, <2>5, <2>6, <2>7
<1>6. ASSUME Alerted(q) PROVE ScreenedInv'
  <2>1. CASE pass' = [pass EXCEPT ![q].at = "stamp"] /\ pass[q].ok
    <3> DEFINE x == [pass[q] EXCEPT !.at = "stamp"]
    <3>1. /\ IsPass(x) /\ x.at = "stamp" /\ x.cur = pass[q].cur /\ x.read = pass[q].read
          /\ x.moved = pass[q].moved
      BY <1>1 DEF ArePasses, IsPass, PassFields
    <3>2. pass' = [pass EXCEPT ![q] = x]
      BY <2>1
    <3> HIDE DEF x
    <3>3. Goes(q, x)
      BY <1>1, <3>1, <3>2, GoesIs
    <3>4. pass[q].at = "alert" /\ pass[q].found = {} /\ UNCHANGED heard
      BY <1>6 DEF Alerted, alerts
    <3>5. HasRead(q)' /\ Reports(q)'
      BY <1>1, <2>1, <3>1, <3>3, <3>4 DEF HasRead, AtWorkOn, Current, Goes, Reports
    <3> QED
      BY <1>2, <3>3, <3>4, <3>5 DEF ScreenedInv
  <2> QED
    BY <1>3, <1>6, <2>1 DEF Alerted, GoesToStamp, alerts
<1>7. ASSUME PassFails(q) PROVE ScreenedInv'
  BY <1>3, <1>7 DEF PassFails, alerts
<1> QED
  BY <1>4, <1>5, <1>6, <1>7

\* The mark: of a text that was read and alerted, or of one that was overtaken.
LEMMA StampStep ==
  ASSUME ScreenedInv, NEW q \in Passes, Stamp(q)
  PROVE  ScreenedInv'
<1> DEFINE a == pass[q].cur
<1>1. /\ UNCHANGED <<essay, heard>> /\ ArePasses /\ HasRead(q) /\ Reports(q) /\ pass[q].at = "stamp"
      /\ mark' = [mark EXCEPT ![a] = "fresh"]
      /\ overtaken' = IF ~pass[q].moved THEN overtaken \ {a}
                      ELSE IF mark[a] = "fresh" THEN overtaken ELSE overtaken \cup {a}
  BY DEF Stamp, ScreenedInv, alerts
<1>2. PICK x : Goes(q, x) /\ x.at \in {"idle", "look"}
  BY <1>1, OnWithIs DEF Stamp
<1>3. HasRead(q)' /\ Reports(q)'
  BY <1>2 DEF Goes, HasRead, Reports, AtWorkOn
<1>4. \A p \in Passes : HasRead(p)' /\ Reports(p)'
  BY <1>1, <1>2, <1>3, OthersStay
<1>5. ScreenedMeansHeard'
  <2> SUFFICES ASSUME NEW b \in Answers \ overtaken', mark'[b] = "fresh"
               PROVE  essay[b] \notin BlankEssays /\ Concerns[essay[b]] \subseteq heard[b]
    BY <1>1 DEF ScreenedMeansHeard, WasHeard
  <2>1. CASE b = a /\ ~pass[q].moved
    BY <1>1, <2>1 DEF HasRead, Reports, Current, AtWorkOn
  <2>2. CASE ~(b = a /\ ~pass[q].moved)
    <3>1. b \notin overtaken /\ mark[b] = "fresh"
      BY <1>1, <2>2 DEF ScreenedInv
    <3> QED
      BY <3>1 DEF ScreenedInv, ScreenedMeansHeard, WasHeard
  <2> QED
    BY <2>1, <2>2
<1>6. mark' = [b \in Answers |-> mark'[b]]
  BY <1>1 DEF ScreenedInv
<1> QED
  BY <1>1, <1>2, <1>4, <1>5, <1>6 DEF ScreenedInv, Goes

\* An edit makes the mark old, and parts the passes from the text.
LEMMA EditStep ==
  ASSUME ScreenedInv, NEW a \in Answers, NEW e \in Essays, Edit(a, e)
  PROVE  ScreenedInv'
<1>1. /\ \A b \in Answers \ {a} : essay'[b] = essay[b] /\ mark'[b] = mark[b] /\ heard'[b] = heard[b]
      /\ mark'[a] # "fresh" /\ \A b \in Answers \ {a} : b \in overtaken' <=> b \in overtaken
      /\ mark' = [b \in Answers |-> mark'[b]] /\ heard' = [b \in Answers |-> heard'[b]]
      /\ essay' = [b \in Answers |-> essay'[b]]
  BY DEF Edit, ScreenedInv
<1>2. ASSUME NEW q \in Passes
      PROVE  /\ IsPass(pass'[q])
             /\ IF pass[q].cur = a THEN pass'[q].moved = TRUE /\ pass'[q].cur = a
                ELSE pass'[q] = pass[q]
  <2>1. IsPass(pass[q])
    BY DEF ScreenedInv, ArePasses
  <2>2. pass'[q] = IF pass[q].cur = a THEN [pass[q] EXCEPT !.moved = TRUE] ELSE pass[q]
    BY DEF Edit
  <2> QED
    BY <2>1, <2>2 DEF IsPass, PassFields
<1>3. ArePasses'
  <2>1. pass' = [q \in Passes |-> pass'[q]]
    BY DEF Edit
  <2> QED
    BY <1>2, <2>1 DEF ArePasses
<1>4. ASSUME NEW q \in Passes PROVE HasRead(q)' /\ Reports(q)'
  <2>1. CASE pass[q].cur = a
    BY <1>2, <2>1 DEF HasRead, Reports, Current
  <2>2. CASE pass[q].cur # a
    <3>1. HasRead(q) /\ Reports(q) /\ pass'[q] = pass[q]
      BY <1>2, <2>2 DEF ScreenedInv
    <3>2. CASE pass[q].cur \in Answers
      <4>1. essay'[pass[q].cur] = essay[pass[q].cur] /\ heard'[pass[q].cur] = heard[pass[q].cur]
        BY <1>1, <2>2, <3>2
      <4> QED
        BY <3>1, <4>1 DEF HasRead, Reports, Current, AtWorkOn
    <3>3. CASE pass[q].cur \notin Answers
      BY <3>1, <3>3 DEF HasRead, Reports, Current
    <3> QED
      BY <3>2, <3>3
  <2> QED
    BY <2>1, <2>2
<1>5. ScreenedMeansHeard'
  BY <1>1 DEF ScreenedInv, ScreenedMeansHeard, WasHeard
<1> QED
  BY <1>1, <1>3, <1>4, <1>5 DEF ScreenedInv

\* Everything else leaves the passes alone, or puts them to sleep.
LEMMA ScreeningStep == ScreenedInv /\ [ScreeningNext]_screeningVars => ScreenedInv'
<1> SUFFICES ASSUME ScreenedInv, [ScreeningNext]_screeningVars PROVE ScreenedInv'
  OBVIOUS
<1>1. ASSUME UNCHANGED <<essay, mark, heard, pass, overtaken>> PROVE ScreenedInv'
  BY <1>1 DEF ScreenedInv, ArePasses, HasRead, Reports, AtWorkOn, Current, ScreenedMeansHeard, WasHeard
<1>2. ASSUME NEW q \in Passes, Working(q) PROVE ScreenedInv'
  BY <1>2, LookStep, WorkStep, StampStep DEF Working
<1>3. ASSUME NEW q \in Retries, RetryPick(q) PROVE ScreenedInv'
  BY <1>3, LookStep DEF Passes
<1>4. ASSUME NEW q \in Lookers, NEW a \in Answers, LookAfterHandIn(q, a) \/ LookBeforeScoring(q, a)
      PROVE  ScreenedInv'
  BY <1>4, LookStep DEF Passes
<1>5. ASSUME NEW a \in Answers,
             \/ SubmitAttempt(a) \/ PassBackWork(a) \/ GracePasses(a)
             \/ \E k \in Kinds : Acknowledge(a, k)
      PROVE  ScreenedInv'
  BY <1>1, <1>5 DEF SubmitAttempt, PassBackWork, GracePasses, Acknowledge, alerts
<1>6. ASSUME NEW a \in Answers, NEW e \in Essays, Edit(a, e) PROVE ScreenedInv'
  BY <1>6, EditStep
<1>7. ASSUME Restart PROVE ScreenedInv'
  <2>1. UNCHANGED <<essay, mark, heard, overtaken>> /\ pass' = [q \in Passes |-> Asleep]
    BY <1>7 DEF Restart, alerts
  <2>2. ArePasses' /\ \A q \in Passes : pass'[q].at = "idle"
    BY <2>1, NotAtWork DEF ArePasses
  <2>3. \A q \in Passes : HasRead(q)' /\ Reports(q)'
    BY <2>2 DEF HasRead, Reports, AtWorkOn
  <2> QED
    BY <2>1, <2>2, <2>3 DEF ScreenedInv, ScreenedMeansHeard, WasHeard
<1>8. CASE UNCHANGED screeningVars
  BY <1>1, <1>8 DEF screeningVars
<1> QED
  BY <1>2, <1>3, <1>4, <1>5, <1>6, <1>7, <1>8 DEF ScreeningNext

\* No answer is marked at first.
LEMMA ScreeningStarts == ScreeningInit => ScreenedInv
<1> SUFFICES ASSUME ScreeningInit PROVE ScreenedInv
  OBVIOUS
<1>1. ArePasses /\ \A q \in Passes : pass[q].at = "idle"
  BY NotAtWork DEF ScreeningInit, ArePasses
<1>2. \A q \in Passes : HasRead(q) /\ Reports(q)
  BY <1>1 DEF HasRead, Reports, AtWorkOn
<1> QED
  BY <1>1, <1>2 DEF ScreeningInit, ScreenedInv, ScreenedMeansHeard, WasHeard

\* The inductive invariant of the screening: a pass whose answer was not edited has its text,
\* and all the concerns of it are heard before it marks.
THEOREM ScreeningInvariant == ScreeningSpec => []ScreenedInv
  BY ScreeningStarts, ScreeningStep, PTL DEF ScreeningSpec

\* However many passes overlap and fail, the concerns of an answer that was marked by a pass
\* that had read it as it stands were before the teacher.
THEOREM Heard == ScreeningSpec => []ScreenedMeansHeard
<1>1. ScreenedInv => ScreenedMeansHeard
  BY DEF ScreenedInv
<1> QED
  BY <1>1, ScreeningInvariant, PTL

=============================================================================
