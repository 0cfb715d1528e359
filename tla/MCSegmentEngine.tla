--------------------------- MODULE MCSegmentEngine --------------------------
(* Small instances of SegmentEngine.                                        *)
EXTENDS SegmentEngine, TLC

CONSTANTS l1, l2

Simple(t)  == [kind |-> "simple",  tag |-> t, index |-> 0, count |-> 0]
Instant(t) == [kind |-> "instant", tag |-> t, index |-> 0, count |-> 0]
Abort(t)   == [kind |-> "abort",   tag |-> t, index |-> 0, count |-> 0]
Repeat(t, i, n) == [kind |-> "repeat", tag |-> t, index |-> i, count |-> n]

(* Lists for the interleavings of clients: an edit may keep the active      *)
(* segment, delete it, or turn the one with tag 2 into another kind.        *)
ControlLists == (l1 :> <<Simple(1), Repeat(2, 0, 1)>>) @@ (l2 :> <<Simple(3), Simple(2)>>)

(* The least that shows a stale message: one segment, and its edit.         *)
SmallLists == (l1 :> <<Simple(1)>>) @@ (l2 :> <<Simple(1)>>)

(* Lists for the interpreter: two guards in a row, nested repeats, a guard  *)
(* with nothing to guard, and edits that add and delete repeats.            *)
ProgramLists ==
    (l1 :> <<Abort(1), Simple(3), Repeat(4, 1, 1), Repeat(5, 0, 1)>>) @@
    (l2 :> <<Abort(7), Abort(8), Simple(3), Repeat(6, 0, 1), Instant(2), Abort(1)>>)
=============================================================================
