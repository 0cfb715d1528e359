---------------------------- MODULE SegmentLists ----------------------------
(***************************************************************************)
(* The data of the segment engine (src/SegmentExecutionEngine): segment     *)
(* lists as SeCreateSegmentList builds them, what the callbacks of a        *)
(* segment may return, and the pure steps of the repeat segment and of a    *)
(* list edit.                                                               *)
(*                                                                          *)
(* Segment indices are the code's: 0 .. size-1.  A list never changes after *)
(* it has been parsed, so its contents are a constant, SegmentsOf.          *)
(***************************************************************************)
EXTENDS Integers, Sequences

CONSTANTS
    Lists,        \* handles of segment lists
    SegmentsOf,   \* the parsed segments of each list
    Null          \* the NULL handle: a message that carries no list

(***************************************************************************)
(* kind  "instant"  only a Start callback (ISegmentInstant)                 *)
(*       "simple"   Start, Run, Stop and Modify (ISegmentSimple)            *)
(*       "abort"    Start and Run, ScfAbortConditional (ISegmentAbort)      *)
(*       "repeat"   the built-in CsRepeat, ScfRepeat, with an Extension     *)
(* tag   SegmentBits_t.UniqueTag, by which an edit lines up two lists       *)
(* index, count  CsRepeatData_t, 0 for the other kinds                      *)
(***************************************************************************)
Kinds == {"instant", "simple", "abort", "repeat"}
Segment == [kind : Kinds, tag : Nat, index : Nat, count : Nat]

Total(l) == Len(SegmentsOf[l])
Indices(l) == 0 .. Total(l) - 1
Seg(l, i) == SegmentsOf[l][i + 1]

HasRun(s) == s.kind \in {"simple", "abort"}
HasSetup(s) == s.kind = "repeat"

(* RepeatValidateCallback: no branch off the list, ahead or onto itself,    *)
(* and at least one repetition.                                             *)
RepeatValid(l, i) ==
    /\ Seg(l, i).index < Total(l)
    /\ Seg(l, i).index < i
    /\ Seg(l, i).count # 0

(* CheckForDuplicateSegmentIds.                                             *)
TagsUnique(l) ==
    \A i, j \in Indices(l) : Seg(l, i).tag = Seg(l, j).tag => i = j

(* What SeCreateSegmentList accepts: at least one segment (a zero Length is *)
(* refused), unique tags, every repeat valid.                               *)
ListValid(l) ==
    /\ Total(l) > 0
    /\ TagsUnique(l)
    /\ \A i \in Indices(l) : Seg(l, i).kind = "repeat" => RepeatValid(l, i)

ASSUME NullAssumption == Null \notin Lists
ASSUME SegmentsAssumption == SegmentsOf \in [Lists -> Seq(Segment)]
ASSUME ListsAssumption == \A l \in Lists : ListValid(l)

-----------------------------------------------------------------------------
(* SeStatus, as far as the engine tells the values apart.                   *)
SegmentStatus == {"Success", "Continue", "Error", "IndexModified",
                  "AbortAttach", "AbortSkip", "AbortTrue", "AbortFalse"}
ReplyStatus == {"Success", "CommandIgnored", "DeletedCurrentSegment"}

(* What the application's callbacks may return, by kind of segment.  The    *)
(* built-in repeat is computed, by RepeatStart below.                       *)
StartResults(s) ==
    IF s.kind = "abort" THEN {"AbortAttach", "AbortSkip"}
                        ELSE {"Success", "Continue", "Error"}
RunResults(s) ==
    IF s.kind = "abort" THEN {"AbortTrue", "AbortFalse", "Error"}
                        ELSE {"Success", "Continue", "Error"}

-----------------------------------------------------------------------------
(* Segment_t.Extension.  Only the repeat has one, a Repeat_t; "freed" is a  *)
(* pointer its Cleanup callback has deleted and nobody has cleared.         *)
Extension == [mem : {"null", "live", "freed"}, count : Nat, complete : BOOLEAN]

NoExtension  == [mem |-> "null", count |-> 0, complete |-> FALSE]
NewExtension == [mem |-> "live", count |-> 0, complete |-> FALSE]
Freed(e) == IF e.mem = "live" THEN [NoExtension EXCEPT !.mem = "freed"] ELSE e

(* A repeat that has run to its end starts afresh when it is reached again. *)
(* (Fault: it starts afresh every time.)                                    *)
RearmAlways(e) == [e EXCEPT !.complete = FALSE, !.count = 0]
Rearm(e) == IF e.complete THEN [e EXCEPT !.complete = FALSE, !.count = 0] ELSE e

RepeatBranches(s, e) == Rearm(e).count < s.count

(* RepeatStartCallback: the extension it leaves behind ...                  *)
RepeatExtension(s, e) ==
    IF RepeatBranches(s, e)
      THEN [Rearm(e) EXCEPT !.count = @ + 1]
      ELSE [Rearm(e) EXCEPT !.complete = TRUE]
(* ... and the status it returns.                                           *)
RepeatStatus(s, e) == IF RepeatBranches(s, e) THEN "IndexModified" ELSE "Success"

-----------------------------------------------------------------------------
(* SetupAllSegments and CleanupAllSegments, on the extensions e of list l.  *)
SetupAllSegments(l, e) ==
    [i \in Indices(l) |-> IF HasSetup(Seg(l, i)) THEN NewExtension ELSE e[i]]
CleanupAllSegments(l, e) ==
    [i \in Indices(l) |-> IF HasSetup(Seg(l, i)) THEN Freed(e[i]) ELSE e[i]]

(* No two lists give the same tag to a repeat and to another kind.          *)
TagsKeepKind ==
    \A l, m \in Lists : \A i \in Indices(l), j \in Indices(m) :
        Seg(l, i).tag = Seg(m, j).tag => (HasSetup(Seg(l, i)) <=> HasSetup(Seg(m, j)))

(* The indices of list m that hold a segment with the tag of (l, i).        *)
SameTag(l, i, m) == {j \in Indices(m) : Seg(m, j).tag = Seg(l, i).tag}

(* Fault: the second pass, which sets up the added segments, is missing.    *)
ImportedOnly(old, oldExt, new, newExt) ==
    [j \in Indices(new) |->
        LET moved == {i \in SameTag(new, j, old) : oldExt[i].mem # "null"}
        IN IF moved # {} THEN oldExt[CHOOSE i \in moved : TRUE] ELSE newExt[j]]

(* ImportSegmentExtensions(old, new): an extension moves to the segment     *)
(* with the same tag ...                                                    *)
ImportedExtensions(old, oldExt, new, newExt) ==
    [j \in Indices(new) |->
        LET from == SameTag(new, j, old)
            moved == {i \in from : oldExt[i].mem # "null"}
        IN IF moved # {} THEN oldExt[CHOOSE i \in moved : TRUE]
           ELSE IF newExt[j].mem = "null" /\ from = {} /\ HasSetup(Seg(new, j))
           THEN NewExtension
           ELSE newExt[j]]
(* ... and one that has nowhere to go is cleaned up, its pointer left as is.*)
RemainingExtensions(old, oldExt, new) ==
    [i \in Indices(old) |->
        IF oldExt[i].mem = "null" THEN oldExt[i]
        ELSE IF SameTag(old, i, new) # {} THEN NoExtension
        ELSE IF HasSetup(Seg(old, i)) THEN Freed(oldExt[i])
        ELSE oldExt[i]]
=============================================================================
