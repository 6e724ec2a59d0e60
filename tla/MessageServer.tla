---------------------------- MODULE MessageServer ---------------------------
(***************************************************************************)
(* What a client may rely on when it talks to the language server.  Until  *)
(* it slips, the server handles the messages one by one, in the order they *)
(* were sent and as they were sent; only a message cut off by a reset of   *)
(* the connection may be handled as something else, and nothing is after   *)
(* it.  It may slip, lose its place in the stream, once it has handled a   *)
(* message: then messages are lost, and what is none may be handled as     *)
(* one, but what is handled as it was sent is still handled once, and in   *)
(* order.  A reply is to a request that has just been handled.             *)
(***************************************************************************)
EXTENDS Naturals, Sequences

CONSTANT Message    \* messages, each with a field request

VARIABLES
    sent,       \* the messages the client has sent
    handled,    \* the numbers of those handled, 0 for what is not one
    replies,    \* the numbers of the messages replied to
    reset,      \* has the connection been reset?
    slipped     \* has the server lost its place?

vars == <<sent, handled, replies, reset, slipped>>

Garbled == 0

Init == /\ sent = <<>> /\ handled = <<>> /\ replies = <<>>
        /\ reset = FALSE /\ slipped = FALSE

Send == /\ \E m \in Message : sent' = Append(sent, m)
        /\ UNCHANGED <<handled, replies, reset, slipped>>

Reset == /\ reset' = TRUE
         /\ UNCHANGED <<sent, handled, replies, slipped>>

Slip == /\ handled # <<>>
        /\ slipped' = TRUE
        /\ UNCHANGED <<sent, handled, replies, reset>>

Intact == \A i \in 1 .. Len(handled) : handled[i] # Garbled

Handle(n) ==
    /\ \A i \in 1 .. Len(handled) : handled[i] < n
    /\ slipped \/ (Intact /\ n = Len(handled) + 1)
    /\ handled' = Append(handled, n)
    /\ replies' = IF sent[n].request THEN Append(replies, n) ELSE replies
    /\ UNCHANGED <<sent, reset, slipped>>

HandleGarbled ==
    /\ slipped \/ (Intact /\ reset)
    /\ handled' = Append(handled, Garbled)
    /\ replies' \in {replies, Append(replies, Garbled)}
    /\ UNCHANGED <<sent, reset, slipped>>

Next == \/ Send \/ Reset \/ Slip \/ HandleGarbled
        \/ \E n \in 1 .. Len(sent) : Handle(n)

Spec == Init /\ [][Next]_vars
=============================================================================
