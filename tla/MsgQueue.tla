------------------------------ MODULE MsgQueue ------------------------------
(***************************************************************************)
(* What os/msg.c promises of a message queue: a sequence of messages in a  *)
(* limited number of bytes, sent at the end and received by type, each     *)
(* once.  Msg, with headers, space, locks and sleeps, is shown to          *)
(* implement this module.                                                  *)
(***************************************************************************)
EXTENDS MsgSpace

VARIABLE queue     \* of each slot: is there a queue, its messages and limit

Init ==
    queue = [s \in Slots |-> [live |-> FALSE, seq |-> 0, msgs |-> <<>>, limit |-> 0]]

-----------------------------------------------------------------------------
Sizes(msgs) == [i \in DOMAIN msgs |-> msgs[i].size]

\* The message that msgrcv with msgtyp t receives is the i-th: the first of
\* all, the first of type t, or the first of the lowest type up to -t.
Wanted(msgs, t, i) ==
    LET ok == {j \in DOMAIN msgs : \/ t = 0
                                   \/ t > 0 /\ msgs[j].type = t
                                   \/ t < 0 /\ msgs[j].type <= -t}
        low == {j \in ok : t < 0 => \A k \in ok : msgs[j].type <= msgs[k].type}
    IN  i \in low /\ \A j \in low : i <= j

Create(s) ==
    /\ ~queue[s].live
    /\ queue' = [queue EXCEPT ![s].live = TRUE, ![s].limit = msgmnb]

\* The messages on it are gone, and no later queue has the same id.
Remove(s) ==
    /\ queue[s].live
    /\ queue' = [queue EXCEPT ![s].live = FALSE, ![s].seq = @ + 1, ![s].msgs = <<>>]

SetLimit(s, n) ==
    /\ queue[s].live /\ (n <= queue[s].limit \/ Superuser)
    /\ queue' = [queue EXCEPT ![s].limit = n]

Send(s, m) ==
    /\ queue[s].live /\ Bytes(Sizes(queue[s].msgs)) + m.size <= queue[s].limit
    /\ queue' = [queue EXCEPT ![s].msgs = Append(@, m)]

Receive(s, i) ==
    /\ queue[s].live /\ \E t \in Selects : Wanted(queue[s].msgs, t, i)
    /\ queue' = [queue EXCEPT ![s].msgs = SubSeq(@, 1, i - 1) \o SubSeq(@, i + 1, Len(@))]

Next == \E s \in Slots :
    \/ Create(s) \/ Remove(s)
    \/ \E n \in Limits : SetLimit(s, n)
    \/ \E m \in [type : MsgTypes, size : MsgSizes] : Send(s, m)
    \/ \E i \in DOMAIN queue[s].msgs : Receive(s, i)

Spec == Init /\ [][Next]_queue
=============================================================================
