------------------------------ MODULE MsgSpace ------------------------------
(* Queues, ids and messages: what MsgQueue and Msg share.                   *)
EXTENDS CoreMap, Sequences

CONSTANTS
    msgmni,   \* # of message queue identifiers
    msgmnb,   \* max # bytes on queue
    MsgTypes, \* the message types that are sent
    MsgSizes, \* and the sizes of their text, in bytes
    Selects,  \* the msgtyp arguments of msgrcv
    Limits,   \* the limits set with IPC_SET
    Superuser, \* somebody may raise a limit
    MaxSeq    \* bound: no queue's sequence number passes it

Slots == 0 .. msgmni - 1
Id    == Slots \X (0 .. MaxSeq)        \* msqid = seq * msgmni + slot

\* The bytes of messages of these sizes.
Bytes(sizes) ==
    LET sum[n \in 0 .. Len(sizes)] == IF n = 0 THEN 0 ELSE sum[n - 1] + sizes[n]
    IN  sum[Len(sizes)]

ASSUME MsgSpaceAssumption ==
    /\ msgmni \in Nat \ {0} /\ msgmnb \in Nat /\ MaxSeq \in Nat
    /\ MsgTypes \subseteq Nat \ {0} /\ MsgSizes \subseteq Nat
    /\ Selects \subseteq Int /\ Limits \subseteq Nat /\ Superuser \in BOOLEAN
=============================================================================
