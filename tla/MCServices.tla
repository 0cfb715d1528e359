----------------------------- MODULE MCServices -----------------------------
(***************************************************************************)
(* Small instances of the service libraries for TLC.                        *)
(***************************************************************************)
EXTENDS Services

Delays == {0, 600, 1000}
Lengths == [a |-> 1, b |-> 2]

Title(tag) == [kind |-> "title", tag |-> tag, columns |-> 1, value |-> 0]
Noise == [kind |-> "noise", tag |-> "", columns |-> 0, value |-> 0]
Pin(tag, columns, value) == [kind |-> "pin", tag |-> tag, columns |-> columns, value |-> value]

\* A board as gpio-bd.conf has it, with a pin that does not work and a line
\* cut short; one whose output stands among the inputs, and one with an
\* input among the outputs; no file.
Board == [lines |-> <<Noise, Title("INPUTS"), Pin("FAULT_1", 3, 0), Pin("SYNC", 3, 0), Pin("UART1_DTR", 2, 0),
                      Title("OUTPUTS"), Pin("RED_LED", 4, 1), Pin("GAS", 4, 0)>>,
          works |-> {"FAULT_1", "SYNC", "RED_LED", "UART1_DTR"}]
Misplaced == [lines |-> <<Pin("SYNC", 3, 0), Title("INPUTS"), Pin("HEATER_OFF", 3, 0), Pin("PUMP", 3, 0)>>,
              works |-> {"HEATER_OFF", "SYNC"}]
Outside == [lines |-> <<Title("OUTPUTS"), Pin("UART1_DTR", 4, 0)>>, works |-> {"UART1_DTR"}]
Missing == [lines |-> <<>>, works |-> {}]
Boards == {Board, Misplaced, Outside, Missing}
=============================================================================
