------------------------------ MODULE RowStream -----------------------------
(***************************************************************************)
(* What the signal calculator promises, without its ring of results, its    *)
(* per-signal indices and its countdowns: samples are taken one at a time,  *)
(* and the rows come out each once and in order, each as soon as every      *)
(* signal of it is decided, with a value exactly where the samples that the *)
(* value depends on exist.  A reset delivers the rows that were held back,  *)
(* decided as far as the samples go, and starts over.                       *)
(***************************************************************************)
EXTENDS Integers, Sequences, FiniteSets

CONSTANTS SignalIds, DNE

VARIABLES
    inputs,   \* the calculated signals and what each reads
    raws,     \* the set of raw signals
    taken,    \* samples taken since the last reset
    sent,     \* rows delivered since then
    out       \* the rows the last step delivered

vars == <<inputs, raws, taken, sent, out>>

(* Index k of signal s reaches back to no sample before the first ...       *)
Exists(s, k) ==
    LET exists[p \in SignalIds \X Int] ==
            /\ p[2] >= 0
            /\ p[1] \in DOMAIN inputs =>
                  \A i \in DOMAIN inputs[p[1]] :
                     exists[<<inputs[p[1]][i].id, p[2] - inputs[p[1]][i].back>>]
    IN exists[<<s, k>>]

(* ... and ahead to none after the n taken so far.                          *)
Ready(s, k, n) ==
    LET ready[p \in SignalIds \X Int] ==
            /\ p[2] < n
            /\ p[1] \in DOMAIN inputs =>
                  \A i \in DOMAIN inputs[p[1]] :
                     ready[<<inputs[p[1]][i].id, p[2] + inputs[p[1]][i].fwd>>]
    IN ready[<<s, k>>]

Signals == raws \cup DOMAIN inputs
IdealRow(k, n) == [s \in Signals |-> IF Exists(s, k) /\ Ready(s, k, n) THEN k ELSE DNE]
IdealRows(from, to, n) == [i \in 1 .. to - from |-> IdealRow(from + i - 1, n)]

(* Rows 0 .. m-1 are decided by n samples.                                  *)
Decided(n) == Cardinality({k \in 0 .. n - 1 : \A s \in Signals : Ready(s, k, n)})

Init == /\ inputs = <<>> /\ raws = {}
        /\ taken = 0 /\ sent = 0 /\ out = <<>>

(* The application declares its signals, or changes what they read: only    *)
(* while no sample is held.                                                 *)
Declare ==
    /\ taken = 0 /\ taken' = 0 /\ sent' = 0 /\ out' = <<>>
    /\ raws \subseteq raws' /\ DOMAIN inputs \subseteq DOMAIN inputs'

Sample ==
    /\ taken' = taken + 1
    /\ sent' = Decided(taken + 1)
    /\ out' = IdealRows(sent, sent', taken + 1)
    /\ UNCHANGED <<inputs, raws>>

(* The flush uses the samples taken: those of the current row are all in.   *)
Reset ==
    /\ taken' = 0 /\ sent' = 0
    /\ out' = IdealRows(sent, taken, taken)
    /\ UNCHANGED raws /\ DOMAIN inputs' = DOMAIN inputs

Quiet == out' = <<>> /\ UNCHANGED <<inputs, raws, taken, sent>>

Next == Declare \/ Sample \/ Reset \/ Quiet
Spec == Init /\ [][Next]_vars
=============================================================================
