------------------------------ MODULE SpiSync ------------------------------
(***************************************************************************)
(* The message layer of the firewall (lib/messages/messages.c): the two    *)
(* boards, the two cores of each, the tx/rx queues between the cores, and  *)
(* the sync() handshake that core 1 of the boards runs over SPI and the    *)
(* two GPIO pins.                                                          *)
(*                                                                         *)
(* A message is the number of its enqueue in its direction; 0 stands for a *)
(* payload whose bytes were overwritten on the way.  A frame is what       *)
(* spi_send_blocking puts on the wire: data (a queued message), query      *)
(* (SLAVE_DATA_QUERY) or count (the slave's one-byte answer).  The wire    *)
(* delivers frames whole and in order.                                     *)
(***************************************************************************)
EXTENDS Integers, Sequences

CONSTANTS
    Capacity,   \* SPI_QUEUE_MAX_CAPACITY
    MaxMsg,     \* bound: messages enqueued per direction
    Knocks      \* whether core 0 of the master calls knock_on_slave_edpt

\* The level of a queue fits the byte the slave answers with (messages.c:216).
ASSUME SpiSyncAssumption ==
    /\ Capacity \in 1..255
    /\ MaxMsg \in Nat
    /\ Knocks \in BOOLEAN

Board == {"master", "slave"}
Other(b) == IF b = "master" THEN "slave" ELSE "master"

Data(n) == [type |-> "data", id |-> n]
Query == [type |-> "query", id |-> 0]
Count(n) == [type |-> "count", id |-> n]
Knocking(n) == [type |-> "knock", id |-> n]
NoFrame == [type |-> "none", id |-> 0]
Frame == [type : {"data", "query", "count", "knock", "none"}, id : Nat]

VARIABLES
    tx, rx,      \* the queues between the cores of a board
    wire,        \* wire[b]: frames board b has sent and the other not yet read
    pc,          \* where core 1 of a board is in sync()
    hand,        \* the local msg of sync() (with the flag it arrived with)
    buf,         \* bugger of the master (messages.c:19), shared by its cores
    recCount,    \* the local rec_count of sync()
    waitingPin,  \* GPIO_SLAVE_WAITING_PIN, set by the slave
    attachedPin, \* GPIO_SLAVE_DEVICE_ATTACHED_PIN, set by the slave
    core0,       \* where core 0 of a board is in the message layer
    c0msg,       \* the message core 0 is adding to tx
    added,       \* history: messages core 0 has handed to the layer
    taken, got   \* history: messages core 0 has dequeued, and the last one

sharedVars == <<tx, rx>>
core1Vars == <<wire, pc, hand, recCount, waitingPin>>
core0Vars == <<attachedPin, core0, c0msg, added, taken, got>>
vars == <<tx, rx, wire, pc, hand, buf, recCount, waitingPin, attachedPin,
          core0, c0msg, added, taken, got>>

Init ==
    /\ tx = [b \in Board |-> <<>>]
    /\ rx = [b \in Board |-> <<>>]
    /\ wire = [b \in Board |-> <<>>]
    /\ pc = [b \in Board |-> IF b = "master" THEN "check" ELSE "raise"]
    /\ hand = [b \in Board |-> NoFrame]
    /\ buf = NoFrame
    /\ recCount = [b \in Board |-> 0]
    /\ waitingPin = FALSE
    /\ attachedPin = FALSE
    /\ core0 = [b \in Board |-> "run"]
    /\ c0msg = [b \in Board |-> 0]
    /\ added = [b \in Board |-> 0]
    /\ taken = [b \in Board |-> 0]
    /\ got = [b \in Board |-> 0]

-----------------------------------------------------------------------------
(* Core 1 of the master: one round of sync().                              *)

\* sync() returns at once, and is called again, until a device is attached.
SyncStart ==
    /\ pc["master"] = "check"
    /\ attachedPin
    /\ pc' = [pc EXCEPT !["master"] = "drain"]
    /\ UNCHANGED <<sharedVars, wire, hand, buf, recCount, waitingPin, core0Vars>>

\* Fault: the message is read from tx and stays there.
MasterTakePeek ==
    /\ pc["master"] = "drain"
    /\ tx["master"] # <<>>
    /\ hand' = [hand EXCEPT !["master"] = Data(Head(tx["master"]))]
    /\ pc' = [pc EXCEPT !["master"] = "await"]
    /\ UNCHANGED <<sharedVars, wire, buf, recCount, waitingPin, core0Vars>>

\* while (!queue_is_empty(&tx)) queue_remove_blocking(&tx, &msg): only core 1
\* removes from tx, so the remove that follows the test finds the message.
MasterTake ==
    /\ pc["master"] = "drain"
    /\ tx["master"] # <<>>
    /\ hand' = [hand EXCEPT !["master"] = Data(Head(tx["master"]))]
    /\ tx' = [tx EXCEPT !["master"] = Tail(@)]
    /\ pc' = [pc EXCEPT !["master"] = "await"]
    /\ UNCHANGED <<rx, wire, buf, recCount, waitingPin, core0Vars>>

\* tx is empty: the next frame to send is the SLAVE_DATA_QUERY.
MasterQuery ==
    /\ pc["master"] = "drain"
    /\ tx["master"] = <<>>
    /\ hand' = [hand EXCEPT !["master"] = Query]
    /\ pc' = [pc EXCEPT !["master"] = "await"]
    /\ UNCHANGED <<sharedVars, wire, buf, recCount, waitingPin, core0Vars>>

\* send_message: spin until the slave's pin is high, then send.
MasterSend ==
    /\ pc["master"] = "await"
    /\ waitingPin
    /\ wire' = [wire EXCEPT !["master"] = Append(@, hand["master"])]
    /\ pc' = [pc EXCEPT !["master"] =
                 IF hand["master"].type = "query" THEN "count" ELSE "drain"]
    /\ UNCHANGED <<sharedVars, hand, buf, recCount, waitingPin, core0Vars>>

\* recieve_message(bugger) of the answer to the query.
MasterCount ==
    /\ pc["master"] = "count"
    /\ wire["slave"] # <<>>
    /\ buf' = Head(wire["slave"])
    /\ wire' = [wire EXCEPT !["slave"] = Tail(@)]
    /\ pc' = [pc EXCEPT !["master"] = "readcount"]
    /\ UNCHANGED <<sharedVars, hand, recCount, waitingPin, core0Vars>>

\* Fault: the count is taken to include the answer itself.
ReadCountLess ==
    /\ pc["master"] = "readcount"
    /\ recCount' = [recCount EXCEPT !["master"] =
                      IF buf.type = "count" /\ buf.id > 0 THEN buf.id - 1 ELSE 0]
    /\ pc' = [pc EXCEPT !["master"] = "gather"]
    /\ UNCHANGED <<sharedVars, wire, hand, buf, waitingPin, core0Vars>>

\* rec_count = bugger[0].  A knock that got in between left a 0 there: it
\* clears at least the first byte (its len is the device's packet size).
ReadCount ==
    /\ pc["master"] = "readcount"
    /\ recCount' = [recCount EXCEPT !["master"] =
                      IF buf.type = "count" THEN buf.id ELSE 0]
    /\ pc' = [pc EXCEPT !["master"] = "gather"]
    /\ UNCHANGED <<sharedVars, wire, hand, buf, waitingPin, core0Vars>>

\* while (rec_count--) recieve_message(bugger).
MasterGather ==
    /\ pc["master"] = "gather"
    /\ recCount["master"] > 0
    /\ wire["slave"] # <<>>
    /\ buf' = Head(wire["slave"])
    /\ wire' = [wire EXCEPT !["slave"] = Tail(@)]
    /\ recCount' = [recCount EXCEPT !["master"] = @ - 1]
    /\ pc' = [pc EXCEPT !["master"] = "copy"]
    /\ UNCHANGED <<sharedVars, hand, waitingPin, core0Vars>>

\* queue_add_with_copy: malloc and memcpy out of bugger.
MasterCopy ==
    /\ pc["master"] = "copy"
    /\ hand' = [hand EXCEPT !["master"] =
                  Data(IF buf.type = "data" THEN buf.id ELSE 0)]
    /\ pc' = [pc EXCEPT !["master"] = "store"]
    /\ UNCHANGED <<sharedVars, wire, buf, recCount, waitingPin, core0Vars>>

\* Fault: the message is added to rx whether or not there is room.
MasterStoreAnyway ==
    /\ pc["master"] = "store"
    /\ rx' = [rx EXCEPT !["master"] = Append(@, hand["master"].id)]
    /\ pc' = [pc EXCEPT !["master"] = "gather"]
    /\ UNCHANGED <<tx, wire, hand, buf, recCount, waitingPin, core0Vars>>

\* Fault: queue_try_add, which drops the message when rx is full.
MasterStoreTry ==
    /\ pc["master"] = "store"
    /\ rx' = [rx EXCEPT !["master"] =
                 IF Len(@) < Capacity THEN Append(@, hand["master"].id) ELSE @]
    /\ pc' = [pc EXCEPT !["master"] = "gather"]
    /\ UNCHANGED <<tx, wire, hand, buf, recCount, waitingPin, core0Vars>>

\* queue_add_blocking(&rx, ...), which blocks while rx is full.
MasterStore ==
    /\ pc["master"] = "store"
    /\ Len(rx["master"]) < Capacity
    /\ rx' = [rx EXCEPT !["master"] = Append(@, hand["master"].id)]
    /\ pc' = [pc EXCEPT !["master"] = "gather"]
    /\ UNCHANGED <<tx, wire, hand, buf, recCount, waitingPin, core0Vars>>

MasterRoundEnd ==
    /\ pc["master"] = "gather"
    /\ recCount["master"] = 0
    /\ pc' = [pc EXCEPT !["master"] = "check"]
    /\ UNCHANGED <<sharedVars, wire, hand, buf, recCount, waitingPin, core0Vars>>

-----------------------------------------------------------------------------
(* Core 1 of the slave: receive until the query, then answer it.           *)

\* Fault: the pin is left low.
SlaveRaiseLow ==
    /\ pc["slave"] = "raise"
    /\ pc' = [pc EXCEPT !["slave"] = "recv"]
    /\ UNCHANGED <<sharedVars, wire, hand, buf, recCount, waitingPin, core0Vars>>

\* recieve_message: raise GPIO_SLAVE_WAITING_PIN ...
SlaveRaise ==
    /\ pc["slave"] = "raise"
    /\ waitingPin' = TRUE
    /\ pc' = [pc EXCEPT !["slave"] = "recv"]
    /\ UNCHANGED <<sharedVars, wire, hand, buf, recCount, core0Vars>>

\* ... spi_receive_blocking ...
SlaveReceive ==
    /\ pc["slave"] = "recv"
    /\ wire["master"] # <<>>
    /\ hand' = [hand EXCEPT !["slave"] = Head(wire["master"])]
    /\ wire' = [wire EXCEPT !["master"] = Tail(@)]
    /\ pc' = [pc EXCEPT !["slave"] = "lower"]
    /\ UNCHANGED <<sharedVars, buf, recCount, waitingPin, core0Vars>>

\* Fault: the flag of the frame is not looked at.
SlaveLowerAlwaysData ==
    /\ pc["slave"] = "lower"
    /\ waitingPin' = FALSE
    /\ pc' = [pc EXCEPT !["slave"] = "store"]
    /\ UNCHANGED <<sharedVars, wire, hand, buf, recCount, core0Vars>>

\* ... and lower the pin, then look at the flag the frame carried.
SlaveLower ==
    /\ pc["slave"] = "lower"
    /\ waitingPin' = FALSE
    /\ pc' = [pc EXCEPT !["slave"] =
                 IF hand["slave"].type = "query" THEN "level" ELSE "store"]
    /\ UNCHANGED <<sharedVars, wire, hand, buf, recCount, core0Vars>>

\* queue_add_with_copy(&rx, ...): nothing else touches the slave's bugger.
SlaveStore ==
    /\ pc["slave"] = "store"
    /\ Len(rx["slave"]) < Capacity
    /\ rx' = [rx EXCEPT !["slave"] = Append(@, hand["slave"].id)]
    /\ pc' = [pc EXCEPT !["slave"] = "raise"]
    /\ UNCHANGED <<tx, wire, hand, buf, recCount, waitingPin, core0Vars>>

\* Fault: the messages are sent without announcing how many.
SlaveLevelSilent ==
    /\ pc["slave"] = "level"
    /\ recCount' = [recCount EXCEPT !["slave"] = Len(tx["slave"])]
    /\ pc' = [pc EXCEPT !["slave"] = "reply"]
    /\ UNCHANGED <<sharedVars, wire, hand, buf, waitingPin, core0Vars>>

\* Fault: the level counts the message core 0 is still adding.
SlaveLevelEarly ==
    /\ pc["slave"] = "level"
    /\ LET n == Len(tx["slave"]) + (IF core0["slave"] = "add" THEN 1 ELSE 0)
       IN  /\ recCount' = [recCount EXCEPT !["slave"] = n]
           /\ wire' = [wire EXCEPT !["slave"] = Append(@, Count(n))]
    /\ pc' = [pc EXCEPT !["slave"] = "reply"]
    /\ UNCHANGED <<sharedVars, hand, buf, waitingPin, core0Vars>>

\* queue_get_level_unsafe(&tx) and the one-byte answer.
SlaveLevel ==
    /\ pc["slave"] = "level"
    /\ recCount' = [recCount EXCEPT !["slave"] = Len(tx["slave"])]
    /\ wire' = [wire EXCEPT !["slave"] = Append(@, Count(Len(tx["slave"])))]
    /\ pc' = [pc EXCEPT !["slave"] = "reply"]
    /\ UNCHANGED <<sharedVars, hand, buf, waitingPin, core0Vars>>

\* Fault: the message is sent and stays in tx.
SlaveSendPeek ==
    /\ pc["slave"] = "reply"
    /\ wire["slave"] = <<>>
    /\ recCount["slave"] > 0
    /\ tx["slave"] # <<>>
    /\ wire' = [wire EXCEPT !["slave"] = Append(@, Data(Head(tx["slave"])))]
    /\ recCount' = [recCount EXCEPT !["slave"] = @ - 1]
    /\ UNCHANGED <<sharedVars, pc, hand, buf, waitingPin, core0Vars>>

\* while (rec_count--) queue_remove_blocking, spi_send_blocking: the slave
\* leaves spi_send_blocking only when the master has clocked the frame out.
SlaveSend ==
    /\ pc["slave"] = "reply"
    /\ wire["slave"] = <<>>
    /\ recCount["slave"] > 0
    /\ tx["slave"] # <<>>
    /\ wire' = [wire EXCEPT !["slave"] = Append(@, Data(Head(tx["slave"])))]
    /\ tx' = [tx EXCEPT !["slave"] = Tail(@)]
    /\ recCount' = [recCount EXCEPT !["slave"] = @ - 1]
    /\ UNCHANGED <<rx, pc, hand, buf, waitingPin, core0Vars>>

SlaveRoundEnd ==
    /\ pc["slave"] = "reply"
    /\ wire["slave"] = <<>>
    /\ recCount["slave"] = 0
    /\ pc' = [pc EXCEPT !["slave"] = "raise"]
    /\ UNCHANGED <<sharedVars, wire, hand, buf, recCount, waitingPin, core0Vars>>

-----------------------------------------------------------------------------
(* Core 0 of either board.                                                 *)

\* enqueue_spi_message: the payload is copied, then queue_add_blocking.
Enqueue(b) ==
    /\ core0[b] = "run"
    /\ added[b] < MaxMsg
    /\ added' = [added EXCEPT ![b] = @ + 1]
    /\ c0msg' = [c0msg EXCEPT ![b] = added[b] + 1]
    /\ core0' = [core0 EXCEPT ![b] = "add"]
    /\ UNCHANGED <<sharedVars, core1Vars, buf, attachedPin, taken, got>>

QueueAdd(b) ==
    /\ core0[b] = "add"
    /\ Len(tx[b]) < Capacity
    /\ tx' = [tx EXCEPT ![b] = Append(@, c0msg[b])]
    /\ core0' = [core0 EXCEPT ![b] = "run"]
    /\ UNCHANGED <<rx, core1Vars, buf, attachedPin, c0msg, added, taken, got>>

\* The bus-reset and setup handlers of the master spin until a device is
\* attached and only then enqueue their message.
Gate ==
    /\ core0["master"] = "run"
    /\ added["master"] < MaxMsg
    /\ core0' = [core0 EXCEPT !["master"] = "gate"]
    /\ UNCHANGED <<sharedVars, core1Vars, buf, attachedPin, c0msg, added, taken, got>>

GateOpen ==
    /\ core0["master"] = "gate"
    /\ attachedPin
    /\ added' = [added EXCEPT !["master"] = @ + 1]
    /\ c0msg' = [c0msg EXCEPT !["master"] = added["master"] + 1]
    /\ core0' = [core0 EXCEPT !["master"] = "add"]
    /\ UNCHANGED <<sharedVars, core1Vars, buf, attachedPin, taken, got>>

\* knock_on_slave_edpt builds its message in bugger, core 1's receive buffer ...
Knock ==
    /\ Knocks
    /\ core0["master"] = "run"
    /\ added["master"] < MaxMsg
    /\ buf' = Knocking(added["master"] + 1)
    /\ core0' = [core0 EXCEPT !["master"] = "knock"]
    /\ UNCHANGED <<sharedVars, core1Vars, attachedPin, c0msg, added, taken, got>>

\* ... and enqueue_spi_message copies it from there.
KnockCopy ==
    /\ core0["master"] = "knock"
    /\ added' = [added EXCEPT !["master"] = @ + 1]
    /\ c0msg' = [c0msg EXCEPT !["master"] =
                   IF buf.type = "knock" THEN buf.id ELSE 0]
    /\ core0' = [core0 EXCEPT !["master"] = "add"]
    /\ UNCHANGED <<sharedVars, core1Vars, buf, attachedPin, taken, got>>

\* dequeue_spi_message, tried once per iteration of core0_loop.
Dequeue(b) ==
    /\ core0[b] = "run"
    /\ rx[b] # <<>>
    /\ got' = [got EXCEPT ![b] = Head(rx[b])]
    /\ rx' = [rx EXCEPT ![b] = Tail(@)]
    /\ taken' = [taken EXCEPT ![b] = @ + 1]
    /\ UNCHANGED <<tx, core1Vars, buf, attachedPin, core0, c0msg, added>>

\* hcd_event_device_attach and hcd_event_device_remove, which core0_loop's poll
\* of the controller calls.
DeviceAttach ==
    /\ core0["slave"] = "run"
    /\ ~attachedPin
    /\ attachedPin' = TRUE
    /\ UNCHANGED <<sharedVars, core1Vars, buf, core0, c0msg, added, taken, got>>

DeviceDetach ==
    /\ core0["slave"] = "run"
    /\ attachedPin
    /\ attachedPin' = FALSE
    /\ UNCHANGED <<sharedVars, core1Vars, buf, core0, c0msg, added, taken, got>>

-----------------------------------------------------------------------------
MasterSync ==
    \/ SyncStart \/ MasterTake \/ MasterQuery \/ MasterSend \/ MasterCount
    \/ ReadCount \/ MasterGather \/ MasterCopy \/ MasterStore \/ MasterRoundEnd

SlaveSync ==
    \/ SlaveRaise \/ SlaveReceive \/ SlaveLower \/ SlaveStore \/ SlaveLevel
    \/ SlaveSend \/ SlaveRoundEnd

Core0(b) == Enqueue(b) \/ QueueAdd(b) \/ Dequeue(b)
MasterCore0 == Gate \/ GateOpen \/ Knock \/ KnockCopy
SlaveCore0 == DeviceAttach \/ DeviceDetach

Next ==
    \/ MasterSync \/ SlaveSync
    \/ \E b \in Board : Core0(b)
    \/ MasterCore0 \/ SlaveCore0

Spec == Init /\ [][Next]_vars

\* Each core runs its own loop forever on its own processor: a step it can take
\* it takes.  Enqueues, attach and detach come from USB and need not happen.
FairSpec ==
    /\ Spec
    /\ WF_vars(MasterSync)
    /\ WF_vars(SlaveSync)
    /\ \A b \in Board : WF_vars(QueueAdd(b)) /\ WF_vars(Dequeue(b))
    /\ WF_vars(GateOpen)
    /\ WF_vars(KnockCopy)
=============================================================================
