------------------------------ MODULE Sublists ------------------------------
(***************************************************************************)
(* The libraries' loops over a std::list that keep, copy or count what      *)
(* passes a test: Sublist is SelectSeq with the set of what passes, as a    *)
(* recursive function, which proofs can follow element by element.          *)
(***************************************************************************)
EXTENDS Integers, Sequences

\* What is left of list, in its order, when only the elements of S are kept.
Sublist(list, S) ==
    LET kept[n \in 0 .. Len(list)] ==
            IF n = 0 THEN <<>>
            ELSE IF list[n] \in S THEN Append(kept[n - 1], list[n]) ELSE kept[n - 1]
    IN  kept[Len(list)]
=============================================================================
