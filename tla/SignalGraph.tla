----------------------------- MODULE SignalGraph ----------------------------
(***************************************************************************)
(* The pure algorithms of the signal calculator (src/SignalCalculator): the *)
(* order in which calculated signals are evaluated (tsort.h, SortSignals)   *)
(* and how far each of them looks back and ahead (Find...Buffering).        *)
(*                                                                          *)
(* A signal is raw (a sample) or calculated from input signals.  inputs is  *)
(* a function from the calculated signals to their INPUT_SIGNAL lists; an   *)
(* id outside its domain is raw.                                            *)
(***************************************************************************)
EXTENDS Integers, Sequences, FiniteSets, FiniteSetsExt, SequencesExt, Sublists

CONSTANTS SignalIds     \* every signal id an application may use

(* INPUT_SIGNAL: the signal, and how far back and ahead of its own index a  *)
(* calculation may read it.                                                 *)
Input(Ids) == [id : Ids, back : Nat, fwd : Nat]
In(id, back, fwd) == [id |-> id, back |-> back, fwd |-> fwd]

(* What SmAddRawSignal and SmAddCalcSignal are given.                       *)
Signal == [id : SignalIds, raw : BOOLEAN, inputs : Seq(Input(SignalIds))]
Raw(id) == [id |-> id, raw |-> TRUE, inputs |-> <<>>]
Calc(id, ins) == [id |-> id, raw |-> FALSE, inputs |-> ins]

IsLeaf(inputs, s) == s \notin DOMAIN inputs
InputIds(inputs, s) == {inputs[s][i].id : i \in DOMAIN inputs[s]}

(* The largest of a set of delays, 0 when it is empty: each search of the   *)
(* code starts from 0.                                                      *)
Largest(S) == Max(S \cup {0})

-----------------------------------------------------------------------------
(* SortSignals.  The vertices are the raw signals and then the calculated   *)
(* ones, in the order they were added; a vertex has an edge to each other   *)
(* calculated signal that reads it, in that order too.  A signal that reads *)
(* itself gets no edge (the css == cs test).                                *)
Readers(inputs, calcs, v) ==
    Sublist(calcs, {c \in Range(calcs) \ {v} : v \in InputIds(inputs, c)})

(* TopologicalSort::Sort, one vertex taken from S: its edges go, and those  *)
(* that have no other incoming edge left are appended to S.                 *)
Unsorted(calcs, raws, sorted) == (Range(raws) \cup Range(calcs)) \ Range(sorted)
TakeVertex(inputs, raws, calcs, t) ==
    IF t.S = <<>> THEN t
    ELSE LET n == Head(t.S)
             L == Append(t.L, n)
             ready == Sublist(Readers(inputs, calcs, n),
                          {m \in Range(calcs) :
                              InputIds(inputs, m) \cap Unsorted(calcs, raws, L) \subseteq {m}})
         IN [S |-> Tail(t.S) \o ready, L |-> L]

Preload(inputs, raws, calcs) ==
    [S |-> Sublist(raws \o calcs,
               {v \in Range(raws) \cup Range(calcs) :
                   IsLeaf(inputs, v)
                   \/ InputIds(inputs, v) \cap Unsorted(calcs, raws, <<>>) \subseteq {v}}),
     L |-> <<>>]
TopologicalSort(inputs, raws, calcs) ==
    LET takes[n \in 0 .. Len(raws \o calcs)] ==
            IF n = 0 THEN Preload(inputs, raws, calcs)
            ELSE TakeVertex(inputs, raws, calcs, takes[n - 1])
    IN takes[Len(raws \o calcs)].L

(* Sort() succeeds when no edge is left: every vertex was taken.            *)
Sorted(raws, calcs, L) == Unsorted(calcs, raws, L) = {}

(* What SortSignals leaves in CalcSignalTable.                              *)
(* Fault: push_front for push_back.                                         *)
CalcOrderReversed(inputs, L) == Sublist(Reverse(L), DOMAIN inputs)
CalcOrder(inputs, L) == Sublist(L, DOMAIN inputs)

-----------------------------------------------------------------------------
(* FindRelativeBackwardsBuffering and FindRelativeForwardsBuffering.        *)
RelativeBack(inputs, s) == Largest({inputs[s][i].back : i \in DOMAIN inputs[s]})
RelativeFwd(inputs, s)  == Largest({inputs[s][i].fwd  : i \in DOMAIN inputs[s]})

(* FindAbsoluteBackwardsBuffering and FindAbsoluteForwardsBuffering: the    *)
(* delays summed along the dependency chains, down to the raw signals.      *)
(* Fault: the delays of the inputs are not added.                           *)
AbsoluteBackFlat(inputs) == [s \in DOMAIN inputs |-> RelativeBack(inputs, s)]
AbsoluteBack(inputs) ==
    LET back[s \in SignalIds] ==
            IF IsLeaf(inputs, s) THEN 0
            ELSE Largest({inputs[s][i].back + back[inputs[s][i].id] :
                              i \in DOMAIN inputs[s]})
    IN [s \in DOMAIN inputs |-> back[s]]

AbsoluteFwd(inputs) ==
    LET fwd[s \in SignalIds] ==
            IF IsLeaf(inputs, s) THEN 0
            ELSE Largest({inputs[s][i].fwd + fwd[inputs[s][i].id] :
                              i \in DOMAIN inputs[s]})
    IN [s \in DOMAIN inputs |-> fwd[s]]

Delays(inputs) ==
    [s \in DOMAIN inputs |->
        [relBack |-> RelativeBack(inputs, s), relFwd |-> RelativeFwd(inputs, s),
         absBack |-> AbsoluteBack(inputs)[s], absFwd |-> AbsoluteFwd(inputs)[s]]]

(* MaxBuffering: the rows the Results ring holds, one more than the widest  *)
(* span any calculation needs, for "now".                                   *)
(* Fault: no row for "now".                                                 *)
BufferingShort(delay) ==
    Largest({delay[s].relBack + delay[s].absFwd : s \in DOMAIN delay} \cup {1})
Buffering(delay) ==
    Largest({delay[s].relBack + delay[s].absFwd : s \in DOMAIN delay}) + 1

=============================================================================
