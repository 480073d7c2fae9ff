-------------------------- MODULE MCBesideTheTest --------------------------
(***************************************************************************)
(* Three things beside the test: the monitor's look at a screen, one card  *)
(* of the editor, and the client's error log.  They share no state, so a   *)
(* behaviour runs one of them and the others rest in their initial states; *)
(* the monitor has three bounded days.  "look": both monitors collect      *)
(* and one asks, twice over, while the sitting goes on.  "notice":        *)
(* a monitor asks once while the limit goes and comes back and the clock   *)
(* runs out.  "news": nobody asks while the limit goes, comes back or is   *)
(* moved, the sitting closes, the clock runs out and polls are lost.       *)
(***************************************************************************)
EXTENDS PeekPlane, ItemAutosave, ErrorLog

CONSTANTS t1, t2, c1, c2

VARIABLE side

MCStaff == {t1, t2}
MCContents == {c1, c2}

Days == {"look", "notice", "news"}
OfTheDay ==
  \/ /\ side = "look"
     /\ sitting' = sitting /\ countdown' = countdown /\ ~DismissNotice
     /\ asking'[t2] = asking[t2]
  \/ /\ side = "notice"
     /\ reading' = reading /\ asking'[t2] = asking[t2] /\ Len(peeks') <= 1
     /\ closed' = closed /\ lost' = lost /\ deadline' \in {0, 1}
  \/ side = "news" /\ asking' = asking /\ reading' = reading

Init == side \in Days \cup {"editor", "errors"} /\ PeekInit /\ AutosaveInit /\ ErrorLogInit

Next ==
  /\ UNCHANGED side
  /\ \/ PeekNext /\ OfTheDay /\ UNCHANGED <<autosaveVars, errorLogVars>>
     \/ side = "editor" /\ AutosaveNext /\ UNCHANGED <<peekVars, errorLogVars>>
     \/ side = "errors" /\ ErrorLogNext /\ UNCHANGED <<peekVars, autosaveVars>>

\* PollFairness, on the monitor's days.
DayFairness ==
  \A step \in {"poll", "arrival", "hop"} :
    WF_peekVars(/\ side \in Days /\ AtWork
                /\ \/ step = "poll" /\ Poll
                   \/ step = "arrival" /\ PollArrives
                   \/ step = "hop" /\ HopRuns)

Spec ==
  /\ Init /\ [][Next]_<<side, peekVars, autosaveVars, errorLogVars>>
  /\ DayFairness /\ AutosaveFairness /\ ErrorLogFairness

=============================================================================
