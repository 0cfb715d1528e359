----------------------------- MODULE SignalTests ----------------------------
(***************************************************************************)
(* The applications of src/SignalManagerUnitTest: the signals each adds, in *)
(* its order, how often it runs the calculations, and what its table of     *)
(* expected results says: the order of the calculated columns and, for      *)
(* each, how many of the first rows have no value.  Their functions read    *)
(* exactly the windows declared here.                                       *)
(***************************************************************************)
EXTENDS SignalGraph

Test(signals, runs, columns, missing) ==
    [signals |-> signals, runs |-> runs, columns |-> columns, missing |-> missing,
     resets |-> 0, edits |-> {}, async |-> 0, syncs |-> 0, traced |-> FALSE]

UnitTestRaw == Test(<<Raw("X"), Raw("Y")>>, 10, <<>>, <<>>)
UnitTestRawRealTime == Test(<<Raw("X"), Raw("Y")>>, 10, <<>>, <<>>)

SameIndex(id, ins) == Calc(id, [i \in DOMAIN ins |-> In(ins[i], 0, 0)])

UnitTestSort1 ==
    Test(<<Raw("Z"), Raw("Y"), Raw("X"),
           SameIndex("H", <<"G", "F">>), SameIndex("G", <<"E", "C">>),
           SameIndex("F", <<"C">>), SameIndex("E", <<"C", "B">>),
           SameIndex("D", <<"X", "B">>), SameIndex("C", <<"Z", "X">>),
           SameIndex("B", <<"X", "Y">>), SameIndex("A", <<"X">>)>>,
         1, <<"C", "B", "A", "F", "E", "D", "G", "H">>, [c \in 1 .. 8 |-> 0])

UnitTestSort2 ==
    Test(<<SameIndex("D", <<"E">>), SameIndex("C", <<"B">>),
           SameIndex("B", <<"A">>), SameIndex("A", <<"X">>),
           SameIndex("H", <<"D", "X", "Y", "Z">>), SameIndex("G", <<"Y", "Z">>),
           SameIndex("F", <<"C">>), SameIndex("E", <<"F">>),
           Raw("Y"), Raw("Z"), Raw("X")>>,
         1, <<"G", "A", "B", "C", "F", "E", "D", "H">>, [c \in 1 .. 8 |-> 0])

Back(id, s, n) == Calc(id, <<In(s, n, 0)>>)
Fwd(id, s, n) == Calc(id, <<In(s, 0, n)>>)

BkwdSignals ==
         <<Raw("X"), Raw("Y"),
           Back("BkwdAvg3X", "X", 2), Back("BkwdAvg6X", "X", 5),
           Back("BkwdAvg4Y", "Y", 3), Back("BkwdAvg7Y", "Y", 6),
           Calc("BkwdAvg5XY", <<In("X", 4, 0), In("Y", 4, 0)>>),
           Back("BkwdDelay5X", "X", 4),
           Calc("BkwdFcnX9A", <<In("BkwdAvg3X", 1, 0), In("BkwdAvg6X", 2, 0)>>),
           Calc("BkwdFcnY11A", <<In("BkwdAvg4Y", 4, 0), In("BkwdAvg7Y", 2, 0)>>),
           Calc("BkwdFcnXYA", <<In("BkwdFcnX9A", 3, 0), In("BkwdFcnY11A", 3, 0)>>)>>
UnitTestBkwd ==
    Test(BkwdSignals, 30,
         <<"BkwdAvg3X", "BkwdAvg6X", "BkwdDelay5X", "BkwdAvg4Y", "BkwdAvg7Y",
           "BkwdAvg5XY", "BkwdFcnX9A", "BkwdFcnY11A", "BkwdFcnXYA">>,
         <<2, 5, 4, 3, 6, 4, 7, 8, 11>>)

FwdSignals ==
         <<Raw("X"), Raw("Y"), Raw("Z"),
           Fwd("FwdAvg3X", "X", 2), Fwd("FwdAvg6X", "X", 5),
           Fwd("FwdAvg4Y", "Y", 3), Fwd("FwdAvg7Y", "Y", 6),
           Calc("FwdAvg5XY", <<In("X", 0, 4), In("Y", 0, 4)>>), Fwd("Delay5X", "X", 4),
           Calc("FcnX9A", <<In("FwdAvg3X", 0, 1), In("FwdAvg6X", 0, 2)>>),
           Calc("FcnY11A", <<In("FwdAvg4Y", 0, 4), In("FwdAvg7Y", 0, 2)>>),
           Calc("FcnXYA", <<In("FcnX9A", 0, 3), In("FcnY11A", 0, 3)>>)>>
UnitTestFwd ==
    Test(FwdSignals, 30,
         <<"FwdAvg3X", "FwdAvg6X", "Delay5X", "FwdAvg4Y", "FwdAvg7Y",
           "FwdAvg5XY", "FcnX9A", "FcnY11A", "FcnXYA">>,
         [c \in 1 .. 9 |-> 0])

(* Both of the above in one table, which interleaves them by the sort.      *)
IndependentSignals ==
    LET calcs(signals) == SelectSeq(signals, LAMBDA s : ~ s.raw)
    IN <<Raw("X"), Raw("Y")>> \o calcs(FwdSignals) \o calcs(BkwdSignals)
UnitTestFwdBkwdIndependent ==
    Test(IndependentSignals, 30,
         <<"FwdAvg3X", "FwdAvg6X", "Delay5X", "BkwdAvg3X", "BkwdAvg6X", "BkwdDelay5X",
           "FwdAvg4Y", "FwdAvg7Y", "FwdAvg5XY", "BkwdAvg4Y", "BkwdAvg7Y", "BkwdAvg5XY",
           "FcnX9A", "BkwdFcnX9A", "FcnY11A", "BkwdFcnY11A", "FcnXYA", "BkwdFcnXYA">>,
         <<0, 0, 0, 2, 5, 4, 0, 0, 0, 3, 6, 4, 0, 7, 0, 8, 0, 11>>)

UnitTestFwdBkwdWindowAvg ==
    Test(<<Raw("X"), Raw("Y"),
           Calc("SimpleAvg3", <<In("X", 3, 3)>>), Calc("Delay1Fwd3Sum", <<In("X", 1, 3)>>),
           Calc("Delay3Fwd1Sum", <<In("X", 3, 1)>>),
           Calc("ForwardBackwardWindow", <<In("X", 2, 3)>>)>>,
         30,
         <<"SimpleAvg3", "Delay1Fwd3Sum", "Delay3Fwd1Sum", "ForwardBackwardWindow">>,
         <<3, 1, 3, 2>>)

(* Queued to the calculator's own thread, and stopped after 240 runs of     *)
(* which 150 rows come out: windows of N = 60 samples, three deep.          *)
Window(id, s) == Calc(id, <<In(s, 29, 30)>>)
UnitTestMdscIndicies ==
    [Test(<<Raw("X"), Window("MinIndex1", "X"), Window("MaxIndex1", "X"),
               Window("MinIndex2", "MinIndex1"), Window("MaxIndex2", "MinIndex1"),
               Window("MinIndex3", "MinIndex2"), Window("MaxIndex3", "MinIndex2")>>,
         240,
         <<"MinIndex1", "MaxIndex1", "MinIndex2", "MaxIndex2", "MinIndex3", "MaxIndex3">>,
         <<29, 29, 58, 58, 87, 87>>) EXCEPT !.async = 1]

(* Fewer runs than either delay, and a reset that must still deliver them.  *)
UnitTestEarlyReset ==
    [Test(<<Raw("X"), Back("DelayX", "X", 5), Fwd("FwdDelayX", "X", 5)>>,
          4, <<"DelayX", "FwdDelayX">>, <<4, 4>>) EXCEPT !.resets = 1]

UnitTestSelectDataOut1 ==
    Test(<<Raw("X"), Raw("Y"), Raw("Z"), SameIndex("Calc1", <<"X">>),
           SameIndex("Calc2", <<"Y">>), SameIndex("Calc3", <<"Z">>)>>,
         30, <<"Calc1", "Calc2", "Calc3">>, <<0, 0, 0>>)
UnitTestSelectDataOut2 == UnitTestSelectDataOut1  \* it looks at other columns

Tests == {UnitTestRaw, UnitTestRawRealTime, UnitTestSort1, UnitTestSort2, UnitTestBkwd, UnitTestFwd,
          UnitTestFwdBkwdIndependent, UnitTestFwdBkwdWindowAvg, UnitTestMdscIndicies,
          UnitTestEarlyReset, UnitTestSelectDataOut1, UnitTestSelectDataOut2}
=============================================================================
