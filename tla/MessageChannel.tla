--------------------------- MODULE MessageChannel ---------------------------
(***************************************************************************)
(* What the message layer (lib/messages) promises to core 0 of each board: *)
(* two independent channels, one per direction, that deliver every message *)
(* handed to enqueue_spi_message exactly once, in order and unchanged to   *)
(* dequeue_spi_message on the other board.  Message n is the n-th one      *)
(* enqueued in its direction.                                              *)
(***************************************************************************)
EXTENDS Naturals

Board == {"master", "slave"}
Other(b) == IF b = "master" THEN "slave" ELSE "master"

VARIABLES
    sent,       \* sent[b]: messages board b has handed to the layer
    delivered,  \* delivered[b]: messages board b has taken out of it
    last        \* last[b]: the last message board b took out, 0 before any

channelVars == <<sent, delivered, last>>

ChannelInit ==
    /\ sent = [b \in Board |-> 0]
    /\ delivered = [b \in Board |-> 0]
    /\ last = [b \in Board |-> 0]

\* enqueue_spi_message on board b.
Send(b) ==
    /\ sent' = [sent EXCEPT ![b] = @ + 1]
    /\ UNCHANGED <<delivered, last>>

\* A successful dequeue_spi_message on board b: the next message, and that one.
Deliver(b) ==
    /\ delivered[b] < sent[Other(b)]
    /\ delivered' = [delivered EXCEPT ![b] = @ + 1]
    /\ last' = [last EXCEPT ![b] = delivered'[b]]
    /\ UNCHANGED sent

ChannelNext == \E b \in Board : Send(b) \/ Deliver(b)

ChannelSpec == ChannelInit /\ [][ChannelNext]_channelVars
=============================================================================
