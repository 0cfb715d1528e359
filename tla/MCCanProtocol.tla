--------------------------- MODULE MCCanProtocol ---------------------------
(***************************************************************************)
(* Applications of the CANbus protocol for TLC: two threads on node "a",    *)
(* one on node "b", and a node "c" that listens.                            *)
(***************************************************************************)
EXTENDS CanProtocol, TLC

NodeOf == [t \in Threads |-> IF t = "b1" THEN "b" ELSE "a"]
Msg(type, mid, did, packets) == [type |-> type, mid |-> mid, did |-> did, packets |-> packets]
Row(mids, st) == [mids |-> mids, status |-> st]
Group(priority, rows) == [priority |-> priority, rows |-> rows]

App(a1, a2, b1, sl, timely, losses, failures, interrupts) ==
    [node |-> NodeOf, program |-> [t \in Threads |-> CASE t = "a1" -> a1 [] t = "a2" -> a2 [] t = "b1" -> b1],
     slots |-> sl, timely |-> timely, losses |-> losses, failures |-> failures,
     interrupts |-> interrupts]

\* "b" accepts 1 and 3 and refuses 2: the last slot that matches decides.
Serving == [a |-> <<Group(FALSE, <<Row({4}, 0)>>)>>,
            b |-> <<Group(FALSE, <<Row({1, 2, 3}, 0), Row({2}, 256)>>)>>]
Listened == [Serving EXCEPT !.b = <<>>] @@ [c |-> <<Group(FALSE, <<Row({5, 6}, 0)>>)>>]
\* The slots of "b" in two groups, the second added in front of the first.
Grouped == [b |-> <<Group(FALSE, <<Row({2}, 256)>>), Group(TRUE, <<Row({1, 2, 3}, 0)>>)>>] @@ Serving

\* One id used twice, answers in time, frames lost and writes refused.
Reused == App(<<Msg("CMD", 1, "b", 1), Msg("CMD", 1, "b", 1)>>, <<>>, <<>>, Serving, TRUE, 3, 1, 0)
ReusedExt == App(<<Msg("EXT_CMD", 1, "b", 2), Msg("EXT_CMD", 1, "b", 3)>>, <<>>, <<>>, Serving, TRUE, 2, 1, 0)
\* Answers may come late, but the next command has another id.
Late == App(<<Msg("CMD", 1, "b", 1), Msg("CMD", 2, "b", 1)>>, <<>>, <<>>, Serving, FALSE, 0, 0, 0)
\* Two threads of a node at once.
Parallel == App(<<Msg("CMD", 1, "b", 1)>>, <<Msg("EXT_CMD", 2, "b", 2)>>, <<>>, Serving, TRUE, 1, 0, 0)
\* Both nodes send at once, and waits are interrupted.
Crossed == App(<<Msg("CMD", 1, "b", 1)>>, <<>>, <<Msg("EXT_CMD", 4, "a", 2)>>, Serving, TRUE, 1, 0, 1)
\* Announcements and a command on a bus of three, slots added meanwhile.
Announced == App(<<Msg("EXT_ANN", 5, Broadcast, 2), Msg("ANN", 6, Broadcast, 1)>>, <<>>,
                 <<Msg("CMD", 4, "a", 1)>>, Listened, TRUE, 1, 1, 0)
Refused == App(<<Msg("CMD", 2, "b", 1), Msg("EXT_CMD", 2, "b", 1)>>, <<>>, <<>>, Grouped, TRUE, 1, 0, 1)

AllApps == {Reused, ReusedExt, Late, Parallel, Crossed, Announced, Refused}
=============================================================================
