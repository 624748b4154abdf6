---------------------------- MODULE SpiSyncProps ----------------------------
(***************************************************************************)
(* What the message layer modelled in SpiSync guarantees: the named parts  *)
(* of its inductive invariant, the channel it implements and the progress  *)
(* it makes.                                                               *)
(***************************************************************************)
EXTENDS SpiSync

-----------------------------------------------------------------------------
(* Types.                                                                  *)

MasterPc == {"check", "drain", "await", "count", "readcount", "gather", "copy",
             "store"}
SlavePc == {"raise", "recv", "lower", "store", "level", "reply"}

QueueTypes ==
    /\ tx \in [Board -> Seq(Nat)]
    /\ rx \in [Board -> Seq(Nat)]
    /\ \A b \in Board : Len(tx[b]) <= Capacity /\ Len(rx[b]) <= Capacity

FrameTypes ==
    /\ wire \in [Board -> Seq(Frame)]
    /\ hand \in [Board -> Frame]
    /\ buf \in Frame

ControlTypes ==
    /\ pc \in [Board -> MasterPc \cup SlavePc]
    /\ pc["master"] \in MasterPc /\ pc["slave"] \in SlavePc
    /\ core0 \in [Board -> {"run", "gate", "knock", "add"}]
    /\ core0["slave"] \in {"run", "add"}
    /\ waitingPin \in BOOLEAN
    /\ attachedPin \in BOOLEAN

NumberTypes ==
    /\ recCount \in [Board -> Nat]
    /\ c0msg \in [Board -> Nat]
    /\ added \in [Board -> Nat]
    /\ taken \in [Board -> Nat]
    /\ got \in [Board -> Nat]

\* Every variable has its type, the queues of both boards never exceed the
\* capacity they were created with (messages.c:64-65) and counters stay natural.
TypeOK == QueueTypes /\ FrameTypes /\ ControlTypes /\ NumberTypes

-----------------------------------------------------------------------------
(* The phases of the handshake.                                            *)

\* The slave has read the query and not yet finished answering it.
Answering ==
    \/ pc["slave"] \in {"level", "reply"}
    \/ pc["slave"] = "lower" /\ hand["slave"].type = "query"

QueryOnWire == pc["master"] = "count" /\ ~Answering
CountOnWire == pc["master"] = "count" /\ pc["slave"] = "reply"
Gathering == pc["master"] \in {"gather", "copy", "store"}

\* What the slave has still to hand over in this round.
Owed == IF pc["slave"] = "reply" THEN recCount["slave"] + Len(wire["slave"]) ELSE 0

\* The slave's pin is up exactly while it is inside recieve_message
\* (messages.c:120-130), and core 1 of each board holds a frame of the kind its
\* place in sync() calls for.
PinPhase ==
    /\ waitingPin <=> pc["slave"] \in {"recv", "lower"}
    /\ pc["master"] = "await" => hand["master"].type \in {"data", "query"}
    /\ pc["slave"] = "lower" => hand["slave"].type \in {"data", "query"}
    /\ pc["slave"] = "store" => hand["slave"].type = "data"

\* Master to slave: data frames, followed by the query while it is in flight;
\* nothing while the query is being answered.
MasterWire ==
    /\ \A i \in 1..Len(wire["master"]) :
          wire["master"][i].type =
             IF QueryOnWire /\ i = Len(wire["master"]) THEN "query" ELSE "data"
    /\ QueryOnWire => wire["master"] # <<>>
    /\ Answering => wire["master"] = <<>>
    /\ pc["master"] = "readcount" \/ Gathering => wire["master"] = <<>>

\* Slave to master: at most one frame, only while the slave answers.
SlaveWire ==
    /\ Len(wire["slave"]) <= 1
    /\ wire["slave"] # <<>> => pc["slave"] = "reply"
    /\ CountOnWire => wire["slave"] = <<Count(recCount["slave"])>>
    /\ ~CountOnWire /\ wire["slave"] # <<>> => wire["slave"][1].type = "data"
    /\ Answering /\ pc["slave"] # "reply" => pc["master"] = "count"

\* sync() asserts that the answer to a query has length 1 (messages.c:198).
\* Whatever reaches the master after a query is the slave's count and nothing
\* else, even when knocks overwrite the buffer.
AnswerIsCount ==
    pc["master"] = "count" /\ wire["slave"] # <<>> =>
        wire["slave"][1].type = "count"

\* Between the slave's queue_get_level_unsafe and its last queue_remove_blocking
\* tx never holds less than what was announced (messages.c:216-222): the slave
\* does not block in the remove while the master is waiting for it.
SlaveNeverStarves == pc["slave"] = "reply" => recCount["slave"] <= Len(tx["slave"])

\* The two loops over rec_count (messages.c:200, 219) agree on how many messages
\* are left in the round, so neither board is left waiting for the other.  A
\* knock over the answer makes the master read 0.
CountAgreement ==
    /\ pc["master"] = "readcount" /\ buf.type = "count" => buf.id = Owed
    /\ pc["master"] = "readcount" /\ buf.type # "count" => Knocks
    /\ Gathering => \/ recCount["master"] = Owed
                    \/ Knocks /\ recCount["master"] = 0 /\ pc["master"] = "gather"
    /\ pc["master"] \in {"check", "drain", "await"} => Owed = 0 \/ Knocks

-----------------------------------------------------------------------------
(* Order: the messages on their way from one board to the other.           *)

One(p) == IF p THEN 1 ELSE 0

\* How many messages (0 or 1) core 1 of board b has read and not yet stored.
Holding(b) ==
    One(IF b = "master" THEN pc[b] \in {"copy", "store"}
        ELSE pc[b] = "store" \/ (pc[b] = "lower" /\ hand[b].type = "data"))

\* The messages to board b that its core 1 has stored in rx, and has read.
Stored(b) == taken[b] + Len(rx[b])
Arrived(b) == Stored(b) + Holding(b)

DataOnWire(b) ==
    Len(wire[b]) - One(IF b = "master" THEN QueryOnWire ELSE CountOnWire)

\* The messages from board b that have left it, and those out of its tx queue.
Departed(b) == Arrived(Other(b)) + DataOnWire(b)
Sending(b) == One(b = "master" /\ pc[b] = "await" /\ hand[b].type = "data")
Removed(b) == Departed(b) + Sending(b)
Adding(b) == One(core0[b] = "add")

\* A place in the pipeline holds message n, or a payload lost to a knock.
Is(x, n) == x = n \/ (Knocks /\ x = 0)

\* What core 1 of a board holds between reading a frame and storing it.
Held(b) ==
    IF Holding(b) = 0 THEN 0
    ELSE IF pc[b] = "copy" THEN IF buf.type = "data" THEN buf.id ELSE 0
    ELSE hand[b].id

\* Nothing is lost or duplicated: what core 0 handed over is in the other
\* board's hands, on its way, in tx, or being added.
NoneLost ==
    \A b \in Board :
        Removed(b) + Len(tx[b]) + Adding(b) = added[b]

InRx == \A b \in Board : \A i \in 1..Len(rx[b]) : Is(rx[b][i], taken[b] + i)

InHand ==
    /\ \A b \in Board : Holding(b) = 1 => Is(Held(b), Stored(b) + 1)
    /\ Sending("master") = 1 => Is(hand["master"].id, Departed("master") + 1)

OnWire ==
    \A b \in Board : \A i \in 1..DataOnWire(b) :
        Is(wire[b][i].id, Arrived(Other(b)) + i)

InTx ==
    /\ \A b \in Board : \A i \in 1..Len(tx[b]) : Is(tx[b][i], Removed(b) + i)
    /\ \A b \in Board : Adding(b) = 1 => Is(c0msg[b], added[b])

\* Every message keeps its place: along rx, the receiver's hand, the wire, the
\* sender's hand and tx the messages of a direction stand in the order of their
\* enqueue, without gap or repetition (messages.c:184-224).
InOrder == NoneLost /\ InRx /\ InHand /\ OnWire /\ InTx

\* Core 0 receives the messages in order; without knocks it receives each one
\* unchanged.
GotInOrder == \A b \in Board : Is(got[b], taken[b])

\* Without knocks the master's bugger holds what core 1 read from the slave.
BufferMine ==
    ~Knocks => /\ pc["master"] = "readcount" => buf.type = "count"
               /\ pc["master"] = "copy" => buf.type = "data"

\* knock_on_slave_edpt copies its own message out of bugger (messages.c:168-175)
\* unless core 1 wrote there in the meantime.
KnockMine ==
    core0["master"] = "knock" =>
        Knocks /\ (buf.type = "knock" => buf.id = added["master"] + 1)

\* The inductive invariant: SpiSyncProofs and SpiSyncOrder prove it.
PhaseInv == PinPhase /\ MasterWire /\ SlaveWire /\ CountAgreement
IndInv ==
    /\ TypeOK /\ PhaseInv /\ SlaveNeverStarves /\ BufferMine
    /\ InOrder /\ GotInOrder /\ KnockMine

-----------------------------------------------------------------------------
(* The abstract channel, progress, and what the comments promise.          *)

\* Without knocks the layer implements the abstract channel: each message core
\* 0 hands over is taken out on the other board once, in order and unchanged.
Channel == INSTANCE MessageChannel WITH sent <- added, delivered <- taken, last <- got
ImplementsChannel == Channel!ChannelSpec

\* Both cores of a board block on a full queue the other one should empty
\* (queue_add_blocking, messages.c:73): core 0 on tx, core 1 on rx.
Gridlock(b) ==
    /\ core0[b] = "add" /\ Len(tx[b]) = Capacity
    /\ pc[b] = "store" /\ Len(rx[b]) = Capacity

\* A board gridlocks only when more than a queueful is on its way in each
\* direction: with at most Capacity messages outstanding one way it cannot.
GridlockNeedsBacklog ==
    \A b \in Board : Gridlock(b) =>
        /\ added[b] - taken[Other(b)] > Capacity
        /\ added[Other(b)] - taken[b] > Capacity

\* While a device stays attached every message handed over is taken out on the
\* other board, unless a board gridlocks.
Delivery ==
    (<>[]attachedPin /\ []~(\E b \in Board : Gridlock(b))) =>
        \A b \in Board : \A n \in 1..MaxMsg : added[b] >= n ~> taken[Other(b)] >= n

\* messages.h:23 documents GPIO_SLAVE_WAITING_PIN as "Slave ready to receive
\* over SPI": the master sends only to a slave that is receiving.
SendsToReadySlave == [][MasterSend => pc["slave"] = "recv"]_vars

\* messages.c:114-115: "Receives message from other microcontroller" into "Data
\* buffer to write message in": what sync() copies out of bugger is that message.
CopiesReceivedMessage == pc["master"] = "copy" => buf.type = "data"
=============================================================================
