---------------------------- MODULE ListLifecycle ---------------------------
(***************************************************************************)
(* What a segment engine promises the application that owns the lists,      *)
(* without its queue, its replies and its segments (the comments of         *)
(* src/inc/SegmentExecutionEngine.h): one list runs at a time, every run    *)
(* ends with one static callback before the next begins, an edit moves the  *)
(* run to another list, and a list is not freed while it runs.              *)
(***************************************************************************)
CONSTANTS Lists, Null

VARIABLES
    phase,    \* "idle", "running", "editing", or "telling": the callback
    running,  \* the list that runs, or ran until the callback returns
    exists    \* the lists that are created and not destroyed

vars == <<phase, running, exists>>

Init == phase = "idle" /\ running = Null /\ exists = {}

SeCreateSegmentList(l) ==
    /\ l \notin exists
    /\ exists' = exists \cup {l}
    /\ UNCHANGED <<phase, running>>

(* Destroying waits for the list to stop.  What an edit leaves is free at   *)
(* once: in the middle of it neither list is protected.                     *)
SeDestroySegmentList(l) ==
    /\ l \in exists
    /\ ~(phase = "running" /\ running = l)
    /\ exists' = exists \ {l}
    /\ UNCHANGED <<phase, running>>

SeStartSegmentList(l) ==
    /\ phase = "idle" /\ l \in exists
    /\ phase' = "running" /\ running' = l
    /\ UNCHANGED exists

(* "The original list is unmodified, except for no longer running."         *)
BeginEdit ==
    /\ phase = "running" /\ phase' = "editing"
    /\ UNCHANGED <<running, exists>>
EndEdit(l) ==
    /\ phase = "editing" /\ l \in exists \ {running}
    /\ phase' = "running" /\ running' = l
    /\ UNCHANGED exists

(* The list stops, for whatever reason, and the application is told.        *)
StopList ==
    /\ phase = "running" /\ phase' = "telling"
    /\ UNCHANGED <<running, exists>>
Told ==
    /\ phase = "telling" /\ phase' = "idle"
    /\ running' = Null
    /\ UNCHANGED exists

Next ==
    \/ \E l \in Lists : \/ SeCreateSegmentList(l) \/ SeDestroySegmentList(l)
                        \/ SeStartSegmentList(l) \/ EndEdit(l)
    \/ BeginEdit \/ StopList \/ Told

Spec == Init /\ [][Next]_vars
=============================================================================
