------------------------------ MODULE Services ------------------------------
(***************************************************************************)
(* The service libraries side by side.  They share no state, and none calls *)
(* another but to log and to convert times, so the steps of one never       *)
(* enable, disable or change those of another: a behaviour in which one     *)
(* library runs shows all there is to see of it.                            *)
(***************************************************************************)
EXTENDS Timers, WorkQueue, LogLib, SystemEvents, DataStore, Gpio

VARIABLE service  \* the library that runs

vars == <<service, timersVars, workVars, logVars, eventVars, storeVars, gpioVars>>

\* Which board it is matters to the GPIO library alone.
Init ==
    /\ TimersInit /\ WorkInit /\ LogInit /\ EventInit /\ StoreInit /\ GpioInit
    /\ service \in {"Timers", "WorkQueue", "LogLib", "SystemEvents", "DataStore", "Gpio"}
    /\ service # "Gpio" => board = CHOOSE b \in GpioConfigs : TRUE

TimersRun == service = "Timers" /\ TimersNext
             /\ UNCHANGED <<service, workVars, logVars, eventVars, storeVars, gpioVars>>
WorkQueueRuns == service = "WorkQueue" /\ WorkNext
                 /\ UNCHANGED <<service, timersVars, logVars, eventVars, storeVars, gpioVars>>
LogRuns == service = "LogLib" /\ LogNext
           /\ UNCHANGED <<service, timersVars, workVars, eventVars, storeVars, gpioVars>>
EventsRun == service = "SystemEvents" /\ EventNext
             /\ UNCHANGED <<service, timersVars, workVars, logVars, storeVars, gpioVars>>
StoreRuns == service = "DataStore" /\ StoreNext
             /\ UNCHANGED <<service, timersVars, workVars, logVars, eventVars, gpioVars>>
GpioRuns == service = "Gpio" /\ GpioNext
            /\ UNCHANGED <<service, timersVars, workVars, logVars, eventVars, storeVars>>

Next == TimersRun \/ WorkQueueRuns \/ LogRuns \/ EventsRun \/ StoreRuns \/ GpioRuns

\* The clock goes on, and the threads of the libraries run.
Fairness == /\ WF_vars(TimersRun /\ Tick) /\ WF_vars(TimersRun /\ ExpirerStep)
            /\ WF_vars(WorkQueueRuns /\ WorkerStep)

Spec == Init /\ [][Next]_vars /\ Fairness
=============================================================================
