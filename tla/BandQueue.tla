----------------------------- MODULE BandQueue -----------------------------
(***************************************************************************)
(* What a STREAMS queue promises its users (the comments of putq, putbq    *)
(* and getq in io/stream.c): messages come in classes, 2 the high priority *)
(* messages, 1 those of the priority band, 0 the normal ones; each class   *)
(* is first in first out, a message is taken from the highest class that   *)
(* has one, and one that comes back comes before the others of its class.  *)
(***************************************************************************)
EXTENDS Naturals, Sequences, FiniteSetsExt

CONSTANT Msg
VARIABLES
    que,      \* the messages of each class
    taken     \* those that somebody has taken and not yet freed

vars == <<que, taken>>
Class == 0 .. 2
Queued == UNION {{que[c][i] : i \in DOMAIN que[c]} : c \in Class}

Empty == [c \in Class |-> <<>>]
Init == que = Empty /\ taken = {}

\* canput, bcanput, qsize and strqget only look.
Look == UNCHANGED vars

\* putq: behind the messages of its class.
Put(m, c) == que' = [que EXCEPT ![c] = Append(@, m)] /\ UNCHANGED taken

\* getq: the first of the highest class.
Get ==
    LET c == Max({d \in Class : que[d] # <<>>})
    IN  /\ Queued # {} /\ que' = [que EXCEPT ![c] = Tail(@)]
        /\ taken' = taken \cup {Head(que[c])}

\* putbq: before the messages of its class.
Putback(m, c) == que' = [que EXCEPT ![c] = <<m>> \o @] /\ taken' = taken \ {m}
Free(m) == taken' = taken \ {m} /\ UNCHANGED que

\* M_FLUSH: everything; the normal band, in which high priority messages are
\* counted; the priority band, of which the last of several messages stays.
Flush == que' = Empty /\ UNCHANGED taken
FlushNormal == que' = [que EXCEPT ![0] = <<>>, ![2] = <<>>] /\ UNCHANGED taken
FlushBand ==
    /\ que' = [que EXCEPT ![1] = IF Len(@) < 2 THEN <<>> ELSE <<@[Len(@)]>>]
    /\ UNCHANGED taken

Next ==
    \/ Look
    \/ \E m \in Msg \ (Queued \cup taken), c \in Class : Put(m, c)
    \/ \E m \in taken : Free(m) \/ \E c \in Class : Putback(m, c)
    \/ Get \/ Flush \/ FlushNormal \/ FlushBand

Spec == Init /\ [][Next]_vars
=============================================================================
