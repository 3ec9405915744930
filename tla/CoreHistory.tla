---------------------------- MODULE CoreHistory ----------------------------
(***************************************************************************)
(* The core service with a history variable: which transactions overlapped *)
(* which.  It only watches; without it the behaviours are the service's.   *)
(***************************************************************************)
EXTENDS CoreService

VARIABLE beside   \* beside[c]: the calls that held a row when c loaded its own

historyVars == <<coreVars, beside>>

HoldingRows == {c \in Calls : phase[c] = "loaded"}

HistoryTypeOK == TypeOK /\ beside \in [Calls -> SUBSET Calls]

HistoryInit == Init /\ beside = [c \in Calls |-> {}]

\* Call c made a step of the service.
Watch(c) ==
  beside' = IF phase[c] # "loaded" /\ phase'[c] = "loaded"
            THEN [beside EXCEPT ![c] = HoldingRows] ELSE beside

HistoryNext == \E c \in Calls : (Submit(c) \/ Serve(c)) /\ Watch(c)

HistorySpec == HistoryInit /\ [][HistoryNext]_historyVars

\* Each of the two loaded its row before the other answered.
Overlapped(c, d) == c \in beside[d] \/ d \in beside[c]

-----------------------------------------------------------------------------

\* A grade update that was answered OK is neither in its row nor replaced by
\* another such update in one case only: a drop that was answered OK too put
\* back the grade it had loaded, and it had loaded it before the update was
\* through, and was not through itself when the update loaded the row.  Drops
\* that were over by then, or begin afterwards, are not to blame, even if they
\* write the old grade once more.
LostGradeNeedsOverlappingDrop ==
  \A c \in Calls : Succeeded(c, "grade") =>
    \/ GradeIsOfSomeUpdate(Key(c))
    \/ \E d \in Calls : /\ Succeeded(d, "drop") /\ Key(d) = Key(c)
                        /\ Overlapped(c, d)
                        /\ entity[d].grade = table[Key(c)].grade
=============================================================================
