--------------------------- MODULE SignalCalculator -------------------------
(***************************************************************************)
(* The signal calculator (src/SignalCalculator): a table of raw and         *)
(* calculated signals, the ring of results, and the threads around it: the  *)
(* one that runs the calculations (SmRunCalculations, called or queued), a  *)
(* control thread that resets the calculator or changes delays, and threads *)
(* that register callbacks.                                                 *)
(*                                                                          *)
(* The value a signal has at index k is written k: a calculation gets it    *)
(* right only when every cell it reads holds the index it asked for.        *)
(***************************************************************************)
EXTENDS SignalGraph

CONSTANTS
    DNE,          \* SM_DBL_DNE, the result that does not exist
    Junk,         \* a value computed from a cell that held another index
    Apps,         \* the applications to check: see App
    Registrants,  \* threads that register data-synced callbacks
    Null

ASSUME CellsAssumption == DNE \notin Nat /\ Junk \notin Nat /\ DNE # Junk
ASSUME NullAssumption == Null # "control"

(***************************************************************************)
(* An application: the signals it adds, in its order, and what it calls.    *)
(* runs, resets and edits bound its calls of SmRunCalculations between two  *)
(* resets, of SmResetCalculator and of SmChangeInputSignalIndicies; async   *)
(* is how many runs it lets wait in the work queue (0: it calls directly);  *)
(* syncs bounds the registrations of each registrant; traced says that it   *)
(* traces.  columns and missing are what the test programs of the           *)
(* repository expect, when the application is one of them.                  *)
(*                                                                          *)
(* A change of delays is for a signal it added, and lists that signal's own *)
(* inputs in their order (the code ASSERTs each id).                        *)
(***************************************************************************)
SameIds(ins, others) ==
    [i \in DOMAIN ins |-> ins[i].id] = [i \in DOMAIN others |-> others[i].id]
ASSUME AppsAssumption ==
    \A a \in Apps :
        /\ a.signals \in Seq(Signal)
        /\ \A e \in a.edits :
              /\ e.inputs \in Seq(Input(SignalIds))
              /\ \E i \in DOMAIN a.signals : a.signals[i].id = e.id
              /\ \A i \in DOMAIN a.signals :
                    a.signals[i].id = e.id =>
                        /\ ~ a.signals[i].raw
                        /\ SameIds(e.inputs, a.signals[i].inputs)

VARIABLES
    app,       \* the application of this behaviour
    added,     \* how many of its signals it has added
    SmState,   \* "Init", "Runable", "IndexChanged", or "Aborted" by an ASSERT
    raws,      \* RawSignalTable
    calcs,     \* CalcSignalTable
    inputs,    \* CalcSignal::InputSignalList
    delay,     \* CalcSignal::Relative... and Absolute...MaxIndex
    maxBuffering, \* MaxBuffering
    now,       \* CurrentGlobalIndex
    index,     \* CalcSignal::Index
    dneCount,  \* CalcSignal::SignalDneCount
    results,   \* Results: per signal, its column of the ring
    synced,    \* DataSyncedCallbackList
    ready,     \* DataReadyCallbackList
    runLock,   \* who holds RunLock across calls: "control" or Null
    queued,    \* SmRunCalculations calls waiting in the work queue
    reg,       \* per registrant: the trigger it read and has not queued yet
    out,       \* history: the rows the last step delivered
    epoch,     \* history: resets so far, bounded by app.resets
    fired      \* history: the callbacks the last step fired

tableVars == <<raws, calcs, inputs>>
sizeVars == <<delay, maxBuffering>>
runVars == <<now, index, dneCount, results>>
callbackVars == <<synced, ready, reg>>
history == <<out, epoch, fired>>
vars == <<app, added, SmState, tableVars, sizeVars, runVars, callbackVars,
          runLock, queued, history>>

Ids == Range(raws) \cup Range(calcs)

Init ==
    /\ app \in Apps /\ added = 0 /\ SmState = "Init"
    /\ raws = <<>> /\ calcs = <<>> /\ inputs = <<>>
    /\ delay = <<>> /\ maxBuffering = 0
    /\ now = 0 /\ index = <<>> /\ dneCount = <<>> /\ results = <<>>
    /\ synced = <<>> /\ ready = <<>> /\ runLock = Null /\ queued = 0
    /\ reg = [r \in Registrants |-> [trigger |-> Null, count |-> 0]]
    /\ out = <<>> /\ epoch = 0 /\ fired = <<>>

Silent == out' = <<>> /\ fired' = <<>> /\ UNCHANGED epoch

-----------------------------------------------------------------------------
(* Set-up.  SmAddRawSignal and SmAddCalcSignal: refused (ASSERT) for an id  *)
(* that is taken.                                                           *)
NextSignal == app.signals[added + 1]
Adding(raw) ==
    /\ SmState = "Init" /\ added < Len(app.signals) /\ NextSignal.raw = raw
    /\ added' = added + 1
    /\ UNCHANGED <<app, sizeVars, runVars, callbackVars, runLock, queued>> /\ Silent

SmAddRawSignal ==
    /\ Adding(TRUE)
    /\ IF NextSignal.id \in Ids
       THEN SmState' = "Aborted" /\ UNCHANGED tableVars
       ELSE raws' = Append(raws, NextSignal.id) /\ UNCHANGED <<calcs, inputs, SmState>>

SmAddCalcSignal ==
    /\ Adding(FALSE)
    /\ IF NextSignal.id \in Ids
       THEN SmState' = "Aborted" /\ UNCHANGED tableVars
       ELSE /\ calcs' = Append(calcs, NextSignal.id)
            /\ inputs' = [s \in DOMAIN inputs \cup {NextSignal.id} |->
                             IF s = NextSignal.id THEN NextSignal.inputs ELSE inputs[s]]
            /\ UNCHANGED <<raws, SmState>>

(* PrivateResetCalculator, with the delays d and the ring size size: every  *)
(* signal starts over, a forward-looking one at an index before the first.  *)
(* Fault: the countdown of a signal that looks back is not restarted.       *)
PrivateResetNoCount(d, size) ==
    /\ results' = [s \in Ids |-> [b \in 0 .. size - 1 |-> DNE]]
    /\ now' = 0
    /\ dneCount' = [s \in DOMAIN d |-> IF s \in DOMAIN dneCount THEN dneCount[s]
                                                             ELSE d[s].absBack]
    /\ index' = [s \in DOMAIN d |-> 0 - d[s].absFwd]
    /\ synced' = <<>> /\ fired' = synced
PrivateResetCalculator(d, size) ==
    /\ results' = [s \in Ids |-> [b \in 0 .. size - 1 |-> DNE]]
    /\ now' = 0
    /\ dneCount' = [s \in DOMAIN d |-> d[s].absBack]
    /\ index' = [s \in DOMAIN d |-> 0 - d[s].absFwd]
    /\ synced' = <<>> /\ fired' = synced

(* A signal with an input nobody added (a NULL Signal), one that reads      *)
(* itself (the search for its delays never returns) and a cycle all end the *)
(* process.                                                                 *)
InputsKnown == \A s \in Range(calcs) : InputIds(inputs, s) \subseteq Ids
SelfInput == \E s \in Range(calcs) : s \in InputIds(inputs, s)

SmInitCalculator ==
    /\ SmState = "Init" /\ added = Len(app.signals)
    /\ LET L == TopologicalSort(inputs, raws, calcs) IN
       IF ~ InputsKnown \/ SelfInput \/ ~ Sorted(raws, calcs, L)
       THEN SmState' = "Aborted" /\ UNCHANGED <<calcs, sizeVars, runVars, synced>> /\ Silent
       ELSE /\ SmState' = "Runable"
            /\ calcs' = CalcOrder(inputs, L)
            /\ delay' = Delays(inputs) /\ maxBuffering' = Buffering(delay')
            /\ PrivateResetCalculator(delay', maxBuffering')
            /\ out' = <<>> /\ UNCHANGED epoch
    /\ UNCHANGED <<app, added, raws, inputs, ready, reg, runLock, queued>>

-----------------------------------------------------------------------------
(* SmRunCalculations.                                                       *)
Slot(k) == k % maxBuffering

(* A calculation at index k of s, over everything it may ask for through    *)
(* SmGetInputResult; the ring r already holds what this round calculated    *)
(* before it.                                                               *)
CalcSignalFunction(r, s, k) ==
    LET read(in, o) == r[in.id][Slot(k + o)] = k + o /\ k + o >= 0
    IN IF \A i \in DOMAIN inputs[s] : \A o \in -inputs[s][i].back .. inputs[s][i].fwd :
              read(inputs[s][i], o)
       THEN k ELSE Junk

CountDown(s) ==
    IF index[s] >= 0 /\ dneCount[s] > 0 THEN dneCount[s] - 1 ELSE dneCount[s]

Calculated(s) == index[s] >= 0 /\ dneCount[s] = 0
RunSignal(r, s) ==
    IF Calculated(s)
    THEN [r EXCEPT ![s][Slot(index[s])] = CalcSignalFunction(r, s, index[s])]
    ELSE r
RawResults == [s \in Ids |-> IF s \in Range(raws)
                             THEN [results[s] EXCEPT ![Slot(now)] = now]
                             ELSE results[s]]

(* The samples, then the calculations in the order of the table.            *)
RoundResults ==
    LET run[i \in 0 .. Len(calcs)] ==
            IF i = 0 THEN RawResults ELSE RunSignal(run[i - 1], calcs[i])
    IN run[Len(calcs)]

(* GetResultRow, as SendDataReadyCallbacks ships it.                        *)
Row(r, k) == [s \in Ids |-> r[s][Slot(k)]]

UncompletedSignals == \E s \in Range(calcs) : index[s] < 0
MinIndexCompleted == Min({now} \cup {index[s] : s \in {c \in Range(calcs) : index[c] >= 0}})

(* SendDataSyncedCallbacks: from the front, up to the first whose trigger   *)
(* is not reached.                                                          *)
(* Fault: one row early.                                                    *)
TriggeredEarly(last) ==
    CHOOSE n \in 0 .. Len(synced) :
        /\ \A i \in 1 .. n : synced[i].trigger <= last + 1
        /\ n < Len(synced) => synced[n + 1].trigger > last + 1
Triggered(last) ==
    CHOOSE n \in 0 .. Len(synced) :
        /\ \A i \in 1 .. n : synced[i].trigger <= last
        /\ n < Len(synced) => synced[n + 1].trigger > last
SendDataSyncedCallbacks(last) ==
    /\ fired' = SubSeq(synced, 1, Triggered(last))
    /\ synced' = SubSeq(synced, Triggered(last) + 1, Len(synced))

(* Fault: RunLock is not taken.                                             *)
RunLockIgnored == TRUE
RunLockFree == runLock = Null

RunCalculations ==
    /\ RunLockFree /\ now < app.runs
    /\ IF SmState # "Runable"
       THEN SmState' = "Aborted" /\ UNCHANGED <<runVars, synced>> /\ Silent
       ELSE /\ results' = RoundResults
            /\ dneCount' = [s \in DOMAIN dneCount |-> CountDown(s)]
            /\ index' = [s \in DOMAIN index |-> index[s] + 1]
            /\ now' = now + 1
            /\ IF UncompletedSignals
               THEN out' = <<>> /\ fired' = <<>> /\ UNCHANGED synced
               ELSE /\ SendDataSyncedCallbacks(MinIndexCompleted)
                    /\ out' = <<Row(results', MinIndexCompleted)>>
            /\ UNCHANGED <<epoch, SmState>>
    /\ UNCHANGED <<app, added, tableVars, sizeVars, ready, reg, runLock>>

(* The application calls the calculator only once it is set up, and not     *)
(* after an ASSERT.                                                         *)
Started == SmState \in {"Runable", "IndexChanged"}
SmRunCalculations ==
    /\ app.async = 0 /\ Started
    /\ RunCalculations /\ UNCHANGED queued

(* SmRunCalculationsAsync and the worker thread of its queue.               *)
SmRunCalculationsAsync ==
    /\ Started /\ queued < app.async
    /\ queued' = queued + 1
    /\ UNCHANGED <<app, added, SmState, tableVars, sizeVars, runVars, callbackVars, runLock>>
    /\ Silent
RunCalculationsCallback ==
    /\ Started /\ queued > 0
    /\ RunCalculations /\ queued' = queued - 1

-----------------------------------------------------------------------------
(* FlushIncompleteRows.  Pass 1 stops at the first signal that has not      *)
(* reached index 0; the others are marked DNE up to now.  Pass 2 delivers.  *)
BeforeFirstUncompleted ==
    {i \in DOMAIN calcs : \A j \in 1 .. i : index[calcs[j]] >= 0}
FlushedResults ==
    LET lagging == {calcs[i] : i \in BeforeFirstUncompleted}
        missed(s) == {Slot(k) : k \in index[s] .. now - 1}
    IN [s \in Ids |-> IF s \notin lagging THEN results[s]
                      ELSE [b \in DOMAIN results[s] |->
                               IF b \in missed(s) THEN DNE ELSE results[s][b]]]
FlushFrom == IF UncompletedSignals THEN 0 ELSE MinIndexCompleted
FlushIncompleteRows ==
    LET filled == FlushedResults IN
    out' = IF now = 0 THEN <<>>
           ELSE [i \in 1 .. now - FlushFrom |-> Row(filled, FlushFrom + i - 1)]

(* The control thread takes RunLock, or already holds it (it is recursive). *)
(* A flush and the reset after it fire every data-synced callback.          *)
Control == Started /\ added = Len(app.signals)
SmResetCalculator ==
    /\ Control /\ SmState = "Runable" /\ epoch < app.resets
    /\ FlushIncompleteRows
    /\ PrivateResetCalculator(delay, maxBuffering)
    /\ epoch' = epoch + 1
    /\ UNCHANGED <<app, added, SmState, tableVars, sizeVars, ready, reg, runLock, queued>>

SmAcquireInternalRunLock ==
    /\ Control /\ runLock = Null /\ app.edits # {} /\ epoch < app.resets
    /\ runLock' = "control"
    /\ UNCHANGED <<app, added, SmState, tableVars, sizeVars, runVars, callbackVars, queued>>
    /\ Silent
SmReleaseInternalRunLock ==
    /\ Control /\ runLock = "control" /\ SmState = "Runable"
    /\ runLock' = Null
    /\ UNCHANGED <<app, added, SmState, tableVars, sizeVars, runVars, callbackVars, queued>>
    /\ Silent

(* CalcSignal::ChangeInputSignalIndicies.  The loop advances i twice a      *)
(* round, so every second input keeps its delays, and the ASSERT after it   *)
(* holds only for an odd number of inputs.                                  *)
ChangedInputs(old, new) ==
    [i \in DOMAIN old |-> IF i % 2 = 1 THEN new[i] ELSE old[i]]
LoopEndsAtSentinel(old) == Len(old) % 2 = 1

SmChangeInputSignalIndicies(e) ==
    /\ Control /\ e \in app.edits /\ runLock = "control"
    /\ SmState = "Runable" => epoch < app.resets
    /\ inputs' = [inputs EXCEPT ![e.id] = ChangedInputs(@, e.inputs)]
    /\ IF SmState = "Runable"
       THEN /\ FlushIncompleteRows
            /\ PrivateResetCalculator(delay, maxBuffering)
            /\ epoch' = epoch + 1
       ELSE UNCHANGED <<runVars, synced>> /\ Silent
    /\ SmState' = IF LoopEndsAtSentinel(inputs[e.id]) THEN "IndexChanged" ELSE "Aborted"
    /\ UNCHANGED <<app, added, raws, calcs, sizeVars, ready, reg, runLock, queued>>

SmCalculateDelaysAndBufferingWithReset ==
    /\ Control /\ SmState = "IndexChanged" /\ runLock = "control"
    /\ SmState' = "Runable"
    /\ delay' = Delays(inputs) /\ maxBuffering' = Buffering(delay')
    /\ out' = <<>> /\ UNCHANGED epoch
    /\ PrivateResetCalculator(delay', maxBuffering')
    /\ UNCHANGED <<app, added, tableVars, ready, reg, runLock, queued>>

-----------------------------------------------------------------------------
(* Callbacks.  SmRegisterDataSyncedCallback reads the index first and takes *)
(* RunLock only then.                                                       *)
ReadTrigger(r) ==
    /\ Started /\ reg[r].trigger = Null /\ reg[r].count < app.syncs
    /\ reg' = [reg EXCEPT ![r] = [trigger |-> now, count |-> @.count + 1]]
    /\ UNCHANGED <<app, added, SmState, tableVars, sizeVars, runVars, synced, ready,
                   runLock, queued>>
    /\ Silent
SmRegisterDataSyncedCallback(r) ==
    /\ Started /\ reg[r].trigger # Null /\ RunLockFree
    /\ synced' = Append(synced, [cb |-> r, trigger |-> reg[r].trigger, epoch |-> epoch])
    /\ reg' = [reg EXCEPT ![r].trigger = Null]
    /\ UNCHANGED <<app, added, SmState, tableVars, sizeVars, runVars, ready, runLock, queued>>
    /\ Silent
SmUnregisterDataSyncedCallback(r) ==
    /\ Started /\ RunLockFree
    /\ \E i \in DOMAIN synced :
          /\ synced[i].cb = r /\ \A j \in 1 .. i - 1 : synced[j].cb # r
          /\ synced' = RemoveAt(synced, i)
    /\ UNCHANGED <<app, added, SmState, tableVars, sizeVars, runVars, ready, reg,
                   runLock, queued>>
    /\ Silent

(* SmStartSignalTrace and SmStopSignalTrace, around                         *)
(* SmRegisterDataReadyCallback and its counterpart; Active is "in the list".*)
SmStartSignalTrace ==
    /\ Started /\ app.traced /\ RunLockFree /\ ready = <<>>
    /\ ready' = <<"trace">> \o ready
    /\ UNCHANGED <<app, added, SmState, tableVars, sizeVars, runVars, synced, reg,
                   runLock, queued>>
    /\ Silent
SmStopSignalTrace ==
    /\ Started /\ RunLockFree /\ ready # <<>>
    /\ ready' = Tail(ready)
    /\ UNCHANGED <<app, added, SmState, tableVars, sizeVars, runVars, synced, reg,
                   runLock, queued>>
    /\ Silent

ChangeIndicies == \E e \in app.edits : SmChangeInputSignalIndicies(e)
ReadSomeTrigger == \E r \in Registrants : ReadTrigger(r)
RegisterSynced == \E r \in Registrants : SmRegisterDataSyncedCallback(r)
UnregisterSynced == \E r \in Registrants : SmUnregisterDataSyncedCallback(r)

Next ==
    \/ SmAddRawSignal \/ SmAddCalcSignal \/ SmInitCalculator
    \/ SmRunCalculations \/ SmRunCalculationsAsync \/ RunCalculationsCallback
    \/ SmResetCalculator \/ SmAcquireInternalRunLock \/ SmReleaseInternalRunLock
    \/ ChangeIndicies \/ SmCalculateDelaysAndBufferingWithReset
    \/ ReadSomeTrigger \/ RegisterSynced \/ UnregisterSynced
    \/ SmStartSignalTrace \/ SmStopSignalTrace

Spec == Init /\ [][Next]_vars

-----------------------------------------------------------------------------
(* Properties.                                                              *)

(* The calculator implements the row stream: however deep the dependencies, *)
(* the ring, the per-signal indices and the flush deliver every row once,   *)
(* in order, no later than it is decided, with a value exactly where the    *)
(* samples it depends on exist.                                             *)
RowsSent == IF ~ Started \/ now = 0 \/ UncompletedSignals THEN 0
            ELSE Min({now} \cup {index[s] : s \in Range(calcs)})
Ideal == INSTANCE RowStream WITH raws <- Range(raws), taken <- now, sent <- RowsSent
RowsAreIdeal == Ideal!Spec

(* SmGetRealtimeResult and SmGetRealtimeResultFromId.                       *)
LatestIndex(s) == IF s \in Range(raws) THEN now - 1 ELSE index[s] - 1
SmGetRealtimeResult(s) ==
    IF SmState = "IndexChanged" \/ LatestIndex(s) < 0 THEN DNE
    ELSE results[s][Slot(LatestIndex(s))]

(* Between two calls a reader of a signal gets its newest value, never the  *)
(* remains of an older lap of the ring or of the epoch before a reset, and  *)
(* DNE only while the signal still lacks the history it looks back on.      *)
RealtimeIsLatest ==
    Started => \A s \in Ids :
        SmGetRealtimeResult(s) =
            IF LatestIndex(s) >= 0 /\ (s \in Range(calcs) => LatestIndex(s) >= delay[s].absBack)
            THEN LatestIndex(s) ELSE DNE

(* The sort: once set up, every calculated signal comes after the           *)
(* calculated signals it reads, so that none reads a cell this round has    *)
(* not filled yet.                                                          *)
DependenciesFirst ==
    Started => \A i, j \in DOMAIN calcs :
        calcs[j] \in InputIds(inputs, calcs[i]) => j < i

(* A data-synced callback fires in a run only when every row up to the      *)
(* index it was registered at is out, the one this run delivers included,   *)
(* whatever epoch that index was read in.                                   *)
RowsOut == IF now = 0 THEN 0 ELSE Ideal!Decided(now)
SyncedNotEarly ==
    [][epoch' = epoch /\ now' > now =>
          \A i \in DOMAIN fired' : fired'[i].trigger < RowsOut']_vars

(* The test programs' tables of expected results: the order of the columns  *)
(* and, per column, how many of the first rows have no value.               *)
AsTested ==
    app.columns # <<>> /\ Started =>
        /\ calcs = app.columns
        /\ \A i \in DOMAIN out : \A c \in DOMAIN calcs :
              (out[i][calcs[c]] = DNE) = (out[i][raws[1]] < app.missing[c])

(* ChangeInputSignalIndicies gives a signal the delays it was asked for     *)
(* (CalculatorPrivate.h: "change the Forwards and Backwards delays for a    *)
(* set of input Signals").                                                  *)
EditTakesEffect ==
    [][\A e \in app.edits : SmChangeInputSignalIndicies(e) => inputs'[e.id] = e.inputs]_vars

(* No ASSERT of the calculator fires, and none of its searches fails to     *)
(* return, for signals with distinct ids and known inputs and no cycle, in  *)
(* an application that holds the run lock across a change of delays.        *)
Acyclic ==
    \A S \in (SUBSET DOMAIN inputs) \ {{}} : \E s \in S : InputIds(inputs, s) \cap S = {}
NoAssert ==
    SmState = "Aborted" =>
        \/ \E i, j \in DOMAIN app.signals : i # j /\ app.signals[i].id = app.signals[j].id
        \/ ~ InputsKnown
        \/ ~ Acyclic
=============================================================================
