--------------------------- MODULE MCCiiSessions ---------------------------
(***************************************************************************)
(* Applications of the common instrument interface for TLC: one or two      *)
(* connections each.                                                        *)
(***************************************************************************)
EXTENDS CiiSessions, TLC

CONSTANTS c1, c2

M(type, does) == [type |-> type, does |-> does]
App(script, hangups, drops, nr) ==
    [script |-> script, hangups |-> hangups, drops |-> drops, statuses |-> nr, early |-> FALSE]
Login(level) == M("Login", level)

\* Two clients want to be the master and act; one sends a broken header.
Masters == App((c1 :> <<Login("AlMaster"), M("Action", "MsSuccess")>>) @@
               (c2 :> <<Login("AlMaster"), M("Action", "MsSuccess"), M("Garbage", "")>>), {c1}, {}, 0)
\* Local UIs come and go.
LocalUIs == App((c1 :> <<Login("AlLocalUI")>>) @@
                (c2 :> <<Login("AlLocalUI"), M("Action", "MsFailed")>>), {c1, c2}, {}, 0)
\* Commands the application keeps, in flight with statuses, and a hang up.
Pending == App(c1 :> <<Login("AlViewOnly"), M("Get", "MsPending"), M("Get", "MsPending")>>, {c1}, {}, 1)
\* Every refusal, and a message of another type.
Refused == App(c1 :> <<M("Get", "MsSuccess"), Login("AlViewOnly"), M("Action", "MsSuccess"),
                       M("Get", "MsUnknownCommand"), M("Get", "MsDeprecated"), M("Other", "")>>, {}, {}, 0)
\* Logins that are refused: of an unknown level, and the second.
BadLogin == App(c1 :> <<Login("bad")>>, {}, {}, 0)
SecondLogin == App(c1 :> <<Login("AlViewOnly"), Login("AlMaster")>>, {}, {}, 0)
\* Commands completed in their callback, and by a thread that does not wait
\* for the callback to return.
Within == App(c1 :> <<Login("AlMaster"), M("Action", "MsCompleted"), M("Get", "MsCompleted")>>, {c1}, {}, 1)
Early == [App(c1 :> <<Login("AlMaster"), M("Action", "MsPending"), M("Get", "MsPending")>>, {c1}, {}, 0)
             EXCEPT !.early = TRUE]
\* More statuses than the queue holds, a slow client, and a debug drop.
Flooded == App(c1 :> <<Login("AlEngineering")>>, {}, {c1}, 3)

AllApps == {Masters, LocalUIs, Pending, Refused, BadLogin, SecondLogin, Within, Early, Flooded}
\* Two clients whose commands are for the application.
TwoCallers == {App([c \in {c1, c2} |-> <<Login("AlViewOnly"), M("Get", "MsSuccess")>>], {}, {}, 0)}
OneApp == {App(c1 :> <<>>, {c1}, {}, 0)}
=============================================================================
