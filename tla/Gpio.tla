-------------------------------- MODULE Gpio --------------------------------
(***************************************************************************)
(* The GPIO library (src/Gpio): a configuration file names the pins, one    *)
(* thread polls the inputs and calls back on a change, clients set outputs. *)
(* The kernel's sysfs files are external: a pin works or does not, and an   *)
(* input's level changes by itself.                                         *)
(***************************************************************************)
EXTENDS Integers, SequencesExt

CONSTANTS
    GpioConfigs,    \* the boards: [lines, works], the lines of the file, <<>> \o for
                    \* none, and the tags whose pin can be set up
    GpioCallbacks,
    MaxPolls,
    MaxLevelChanges \* the times an input's level changes or a write is made

\* GetGpioIndexFromName: inputs and outputs are numbered from 0 each.
GpioIndex ==
    [EXCHANGER_FAULT |-> 0, FAULT_1 |-> 1, FAULT_2 |-> 2, HEATER_FAULT |-> 3, SYNC |-> 4,
     NO_CAN_PWR |-> 5, UART1_DTR |-> 6,
     EXCHANGER_OFF |-> 0, HEATER_OFF |-> 1, EVENT |-> 2, GAS |-> 3, RED_LED |-> 4]

GpioInputs == 0 .. 6
GpioOutputs == 0 .. 4

(***************************************************************************)
(* ParseConfigFile.  A line is a section's title, noise (a comment, a blank *)
(* line), or a pin's: [kind, tag, columns, value], value the default of an  *)
(* output.  The tables hold, per index, the tag and whether the pin is      *)
(* valid, and for an output its level.                                      *)
(***************************************************************************)
NoPin == [tag |-> "", valid |-> FALSE]
NoOutput == [tag |-> "", valid |-> FALSE, level |-> 0]
Unparsed == [section |-> "none", inputs |-> [i \in GpioInputs |-> NoPin],
             outputs |-> [o \in GpioOutputs |-> NoOutput], defined |-> TRUE]

\* Gpio::Init: Export, SetSense and SetDirection; Valid is never cleared.
InitInput(pin, tag, works) == [tag |-> tag, valid |-> pin.valid \/ tag \in works]
InitOutput(pin, line, works) ==
    [tag |-> line.tag, valid |-> pin.valid \/ line.tag \in works,
     level |-> IF line.tag \in works THEN line.value ELSE pin.level]

\* A pin's line in the section it is found in; GpioOutputs has no entry for
\* the last two inputs' indexes.
ParsePin(parsed, line, works) ==
    CASE line.tag \notin DOMAIN GpioIndex \/ parsed.section = "none" -> parsed
      [] line.tag \in DOMAIN GpioIndex /\ parsed.section = "INPUTS" ->
            IF line.columns < 3 THEN parsed
            ELSE [parsed EXCEPT !.inputs[GpioIndex[line.tag]] = InitInput(@, line.tag, works)]
      [] OTHER ->
            IF line.columns < 4 THEN parsed
            ELSE IF GpioIndex[line.tag] \notin GpioOutputs THEN [parsed EXCEPT !.defined = FALSE]
            ELSE [parsed EXCEPT !.outputs[GpioIndex[line.tag]] = InitOutput(@, line, works)]

ParseLine(parsed, line, works) ==
    CASE line.kind = "noise" -> parsed
      [] line.kind = "title" -> [parsed EXCEPT !.section = line.tag]
      [] OTHER -> ParsePin(parsed, line, works)

ParseConfigFile(config) ==
    FoldLeft(LAMBDA parsed, line : ParseLine(parsed, line, config.works), Unparsed, config.lines)

VARIABLES
    board,      \* the configuration
    gpioPc,     \* "new", "sleeping", "polling", "failed", or "undefined"
    inputs, outputs,
    levels,     \* external: per input tag 0, 1, or -1 when it cannot be read
    CallbackList, \* per input
    callback,   \* per callback [IsDirty, IoValue]
    pollNext,   \* the input the poll reads next
    ioValues,   \* per input what was read last
    told,       \* history: per callback the values it was called with
    since,      \* history: per callback the polls before it was registered
    polls, changes

gpioVars == <<board, gpioPc, inputs, outputs, levels, CallbackList, callback, pollNext,
              ioValues, told, since, polls, changes>>

InputTags(table) == {table[i].tag : i \in {j \in GpioInputs : table[j].valid}}

GpioInit ==
    /\ board \in GpioConfigs
    /\ gpioPc = "new" /\ inputs = Unparsed.inputs /\ outputs = Unparsed.outputs
    /\ levels = <<>> /\ CallbackList = [i \in GpioInputs |-> <<>>]
    /\ callback = <<>> /\ pollNext = 0 /\ ioValues = [i \in GpioInputs |-> 0]
    /\ told = [c \in GpioCallbacks |-> <<>>] /\ since = [c \in GpioCallbacks |-> 0]
    /\ polls = 0 /\ changes = 0

\* Whatever lines fail to parse, it succeeds; only a missing file is an error.
TaGpioInit ==
    LET parsed == ParseConfigFile(board) IN
    /\ gpioPc = "new"
    /\ gpioPc' = IF board.lines = <<>> THEN "failed"
                 ELSE IF parsed.defined THEN "sleeping" ELSE "undefined"
    /\ inputs' = parsed.inputs /\ outputs' = parsed.outputs
    /\ levels' = [t \in InputTags(parsed.inputs) |-> 0]
    /\ UNCHANGED <<board, CallbackList, callback, pollNext, ioValues, told, since, polls, changes>>

LevelChanges ==
    /\ changes < MaxLevelChanges /\ gpioPc \in {"sleeping", "polling"}
    /\ changes' = changes + 1
    /\ \E t \in DOMAIN levels, level \in {-1, 0, 1} :
          levels[t] # level /\ levels' = [levels EXCEPT ![t] = level]
    /\ UNCHANGED <<board, gpioPc, inputs, outputs, CallbackList, callback, pollNext, ioValues,
                   told, since, polls>>

\* Under InputLock; -1 for an input that is not valid.
NewCallbackClean == [IsDirty |-> FALSE, IoValue |-> 0]  \* Fault: the first value is not told.
NewCallback == [IsDirty |-> TRUE, IoValue |-> 0]

TaGpioRegisterInputChangeCallback ==
    /\ gpioPc = "sleeping"
    /\ \E c \in GpioCallbacks \ DOMAIN callback, i \in GpioInputs :
          /\ inputs[i].valid
          /\ CallbackList' = [CallbackList EXCEPT ![i] = <<c>> \o @]
          /\ callback' = [d \in DOMAIN callback \cup {c} |->
                              IF d = c THEN NewCallback ELSE callback[d]]
          /\ since' = [since EXCEPT ![c] = polls]
    /\ UNCHANGED <<board, gpioPc, inputs, outputs, levels, pollNext, ioValues, told, polls, changes>>

\* GpioOutput::Write, under OutputLock; an output that is not valid stays.
TaGpioWrite ==
    /\ changes < MaxLevelChanges /\ gpioPc \in {"sleeping", "polling"}
    /\ changes' = changes + 1
    /\ \E o \in GpioOutputs, value \in {0, 1, 2} :
          outputs[o].valid /\ outputs' = [outputs EXCEPT ![o].level = IF value = 0 THEN 0 ELSE 1]
    /\ UNCHANGED <<board, gpioPc, inputs, levels, CallbackList, callback, pollNext, ioValues,
                   told, since, polls>>

\* InputMonitorThread wakes and takes InputLock.
PollBegins ==
    /\ gpioPc = "sleeping" /\ polls < MaxPolls
    /\ gpioPc' = "polling" /\ pollNext' = 0
    /\ UNCHANGED <<board, inputs, outputs, levels, CallbackList, callback, ioValues, told, since,
                   polls, changes>>

\* GpioInputCallbackData::Execute
Tells(c, value) == callback[c].IsDirty \/ callback[c].IoValue # value

\* GpioInput::Execute of one input: it is read only when it has a callback.
PollInput ==
    LET called == Range(CallbackList[pollNext])
        value == levels[inputs[pollNext].tag] IN
    /\ gpioPc = "polling" /\ pollNext \in GpioInputs
    /\ pollNext' = pollNext + 1
    /\ IF called = {} THEN UNCHANGED <<ioValues, callback, told>>
       ELSE /\ ioValues' = [ioValues EXCEPT ![pollNext] = value]
            /\ callback' = [c \in DOMAIN callback |->
                  IF c \in called THEN [IsDirty |-> FALSE, IoValue |-> value] ELSE callback[c]]
            /\ told' = [c \in GpioCallbacks |->
                  IF c \in called /\ Tells(c, value) THEN Append(told[c], value) ELSE told[c]]
    /\ UNCHANGED <<board, gpioPc, inputs, outputs, levels, CallbackList, since, polls, changes>>

PollEnds ==
    /\ gpioPc = "polling" /\ pollNext \notin GpioInputs
    /\ gpioPc' = "sleeping" /\ polls' = polls + 1
    /\ UNCHANGED <<board, inputs, outputs, levels, CallbackList, callback, pollNext, ioValues,
                   told, since, changes>>

GpioNext == TaGpioInit \/ LevelChanges \/ TaGpioRegisterInputChangeCallback \/ TaGpioWrite
            \/ PollBegins \/ PollInput \/ PollEnds

\* GpioInput::Execute, GpioInputCallbackData::Execute: after each poll a
\* callback was told the value its input has, the first one too, and it is
\* never told one value twice in a row.
CallbacksCurrent ==
    \A i \in GpioInputs : \A c \in Range(CallbackList[i]) :
        /\ \A k \in 2 .. Len(told[c]) : told[c][k] # told[c][k - 1]
        /\ gpioPc = "sleeping" /\ since[c] < polls =>
              told[c] # <<>> /\ Last(told[c]) = ioValues[i]
=============================================================================
