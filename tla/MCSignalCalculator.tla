-------------------------- MODULE MCSignalCalculator ------------------------
(* Instances of SignalCalculator: the repository's own test programs, and   *)
(* small applications with interleavings, resets and changes of delays.     *)
EXTENDS SignalCalculator, SignalTests, TLC

CONSTANTS r1

(* A backward-looking signal on top of a forward-looking one, added in the  *)
(* wrong order; the delays of one may be changed while the calculator runs. *)
Mixed == <<Raw("X"), Back("A", "B", 1), Calc("B", <<In("X", 1, 1)>>), Fwd("C", "A", 1)>>
Edits == {[id |-> "B", inputs |-> <<In("X", 0, 2)>>], [id |-> "A", inputs |-> <<In("B", 2, 0)>>]}
Interactive ==
    [Test(Mixed, 7, <<>>, <<>>) EXCEPT !.resets = 2, !.edits = Edits]
Asynchronous ==
    [Test(<<Raw("X"), Calc("A", <<In("X", 1, 1)>>)>>, 5, <<>>, <<>>)
        EXCEPT !.resets = 2, !.async = 2, !.syncs = 3, !.traced = TRUE]

(* Declarations the calculator must refuse.                                 *)
Refused == {Test(<<Raw("X"), Back("A", "B", 1), Back("B", "A", 1)>>, 1, <<>>, <<>>),
            Test(<<Raw("X"), Calc("A", <<In("X", 0, 0), In("A", 1, 0)>>)>>, 1, <<>>, <<>>),
            Test(<<Raw("X"), Raw("X")>>, 1, <<>>, <<>>),
            Test(<<Back("A", "X", 1), Back("A", "X", 0)>>, 1, <<>>, <<>>),
            Test(<<Raw("X"), Back("A", "Y", 1)>>, 1, <<>>, <<>>)}

AllApps == Tests \cup {Interactive, Asynchronous} \cup Refused

(* Two and three inputs, all of whose delays the application changes.       *)
Pair  == <<In("X", 0, 0), In("Y", 0, 0)>>
Three == <<In("X", 0, 0), In("Y", 0, 0), In("Z", 0, 0)>>
Doubled(ins) == [i \in DOMAIN ins |-> In(ins[i].id, 2, 0)]
EditApps ==
    {[Test(<<Raw("X"), Raw("Y"), Raw("Z"), Calc("A", ins)>>, 3, <<>>, <<>>)
        EXCEPT !.resets = 1, !.edits = {[id |-> "A", inputs |-> Doubled(ins)]}] :
            ins \in {Pair, Three}}

AllIds == UNION {{a.signals[i].id : i \in DOMAIN a.signals} : a \in AllApps} \cup {"Y", "Z"}
=============================================================================
