---------------------------- MODULE HostControl ----------------------------
(***************************************************************************)
(* Control transfers on the slave, the USB host of the firewall: core 0's  *)
(* loop (main.c) that polls the controller (hcd_rp2040_irq_new) and takes  *)
(* one message of the master (slavework), the software endpoint EPX, the   *)
(* stage `level' of the transfer, and, as environment, the controller's    *)
(* registers, the attached device and the master relaying requests.        *)
(*                                                                         *)
(* ctl is what the driver and the controller hold of the transfer.  The    *)
(* operators on it (StartNextBuffer ... TransComplete) are the functions   *)
(* of the driver: they take ctl and return the next one.                   *)
(*   ep     EPX: direction, device address, next PID, wMaxPacketSize,      *)
(*          remaining_len and xferred_len                                  *)
(*   level  stage: 0 setup, 1 data (or status of an OUT), 2 done           *)
(*   sie    what the last write of sie_ctrl started                        *)
(*   trans  the transaction the controller has to carry out                *)
(*   buf    EPX's buffer control word                                      *)
(*   out    the packets of this poll handed to send_event_to_master        *)
(***************************************************************************)
EXTENDS Integers, Sequences, FiniteSetsExt

CONSTANTS
    PacketSizes,  \* bMaxPacketSize0 of the devices that may be attached
    Lengths,      \* lengths of requests (wLength) and of device data
    StatusLength, \* the buglen of a request without data (64)
    Patience,     \* when the master's host sends the next request
    ExactFits,    \* whether a device may fill wLength with whole packets
    Swaps         \* whether a device of another packet size may take its place

ASSUME HostControlAssumption ==
    /\ PacketSizes \subseteq Nat \ {0} /\ Lengths \subseteq Nat \ {0}
    /\ StatusLength \in Nat \ {0}
    /\ Patience \in {"idle", "answered"}
    /\ ExactFits \in BOOLEAN /\ Swaps \in BOOLEAN

NewAddress == 7    \* CHG_ADDR_SETUP.wValue
SetupLength == 8

\* A request: in is its direction, len its wLength, data what the device has to
\* answer; "descriptor" is GET_DESCRIPTOR(device), which is never empty, and
\* "address" SET_ADDRESS.  Requests that send data to the device are not relayed.
RequestOf(kind, in, lens, datas) ==
    [kind : {kind}, in : {in}, len : lens, data : datas]
SetAddress == [kind |-> "address", in |-> FALSE, len |-> 0, data |-> 0]
Request ==
    RequestOf("descriptor", TRUE, Lengths, Lengths)
    \cup RequestOf("other", TRUE, Lengths, Lengths \cup {0})
    \cup RequestOf("other", FALSE, {0}, {0})
    \cup {SetAddress}

\* A wLength met exactly by two or more whole packets.
Exact(r, size) ==
    r.in /\ r.data >= r.len /\ r.len > size /\ r.len % size = 0

VARIABLES
    ctl,        \* see above
    setup,      \* setup_packet
    devAddr,    \* dev_addr
    buffStatus, \* bit 0 of the controller's BUFF_STATUS
    transDone,  \* TRANS_COMPLETE
    panic,      \* error() was called: core 0 has stopped
    dev,        \* the device
    inbox,      \* messages of the master not yet dequeued
    pending,    \* a request has been handed to slavework and not answered
    fresh,      \* the bus was reset and the device not yet described
    seen,       \* history: the device has received the current setup packet
    sent,       \* history: bytes of the current answer passed to the master
    answer      \* history: bytes of the last answer, and what it should have

hostVars == <<ctl, setup, devAddr, buffStatus, transDone, panic>>
masterVars == <<inbox, fresh>>
history == <<seen, sent, answer>>
vars == <<hostVars, dev, masterVars, pending, history>>

NoTrans == [kind |-> "none", addr |-> 0]
NoBuf == [len |-> 0, pid |-> 0, full |-> FALSE, last |-> FALSE]

NewDevice(size) ==
    [size |-> size, addr |-> 0, stage |-> "idle", left |-> 0, pid |-> 0, passed |-> 0]

Init ==
    /\ ctl = [ep |-> [dir |-> "out", addr |-> 0, pid |-> 0, mps |-> 0, rem |-> 0, xfer |-> 0],
              level |-> 0, sie |-> "base", trans |-> NoTrans, buf |-> NoBuf, out |-> <<>>]
    /\ setup = SetAddress
    /\ devAddr = 0
    /\ buffStatus = FALSE /\ transDone = FALSE /\ panic = FALSE
    /\ \E s \in PacketSizes : dev = NewDevice(s)
    /\ inbox = <<[type |-> "reset"]>>
    /\ pending = FALSE
    /\ fresh = TRUE
    /\ seen = FALSE
    /\ sent = 0
    /\ answer = [got |-> 0, want |-> 0]

-----------------------------------------------------------------------------
(* The driver.                                                             *)

\* Fault: the PID goes on from the transfer before.
EndpointInitKeeping(ep, addr, dir) == [ep EXCEPT !.addr = addr, !.dir = dir]

\* _hw_endpoint_init of EPX: the response to a setup starts with DATA1.
EndpointInit(ep, addr, dir) == [ep EXCEPT !.addr = addr, !.dir = dir, !.pid = 1]

\* Fault: the PID turns with every buffer, however many packets remain.
StartNextBufferTurning(c) ==
    LET n == Min({c.ep.rem, c.ep.mps})
    IN  [c EXCEPT !.ep.rem = @ - n, !.ep.pid = 1 - @,
                  !.buf = [len |-> c.ep.rem, pid |-> c.ep.pid,
                           full |-> c.ep.dir = "out", last |-> c.ep.rem = n]]

\* Fault: a whole packet is taken off remaining_len when less is left.
StartNextBufferWhole(c) ==
    [StartNextBufferTurning(c) EXCEPT !.ep.rem = c.ep.rem - c.ep.mps]

\* _hw_endpoint_start_next_buffer on the slave: the buffer is offered with all of
\* remaining_len, which drops by one packet; the PID turns with an odd count of
\* packets.
StartNextBuffer(c) ==
    LET n == Min({c.ep.rem, c.ep.mps})
        left == c.ep.rem - n
        turns == n = 0 \/ (1 + (left + n - 1) \div c.ep.mps) % 2 = 1
    IN  [c EXCEPT !.ep.rem = left,
                  !.ep.pid = IF turns THEN 1 - @ ELSE @,
                  !.buf = [len |-> c.ep.rem, pid |-> c.ep.pid,
                           full |-> c.ep.dir = "out", last |-> left = 0]]

\* hw_endpoint_xfer_start.
XferStart(c, len) == StartNextBuffer([c EXCEPT !.ep.rem = len, !.ep.xfer = 0])

\* hcd_edpt_xfer on endpoint 0: a change of direction initialises EPX again; the
\* transaction replaces one still on its way.
EndpointXfer(c, addr, dir, len) ==
    LET ep == IF dir = c.ep.dir THEN c.ep ELSE EndpointInit(c.ep, addr, dir)
    IN  [XferStart([c EXCEPT !.ep = ep], len)
            EXCEPT !.sie = dir, !.trans = [kind |-> dir, addr |-> addr]]

\* hcd_setup_send.
SetupSend(c, addr) ==
    [c EXCEPT !.ep = [EndpointInit(@, addr, "out") EXCEPT !.rem = SetupLength],
              !.sie = "setup", !.trans = [kind |-> "setup", addr |-> addr]]

\* hcd_event_xfer_complete for EPX: done is XFER_RESULT_SUCCESS, else result 4.
XferEvent(c, n, done) ==
    LET len == IF setup.in THEN setup.len ELSE StatusLength
        packet == [c EXCEPT !.out = Append(@, [len |-> n, last |-> done])]
    IN  CASE c.level = 0 ->
                EndpointXfer([c EXCEPT !.level = 1], c.ep.addr, "in", len)
          [] c.level = 1 /\ ~done ->
                EndpointXfer(packet, c.ep.addr, "in", len)
          [] c.level = 1 /\ done /\ setup.in ->
                EndpointXfer([packet EXCEPT !.level = 2], c.ep.addr, "out", 0)
          [] c.level = 1 /\ done /\ ~setup.in -> [packet EXCEPT !.level = 2]
          [] OTHER -> c

\* hw_endpoint_reset_transfer_new.
ResetTransfer(c) == [c EXCEPT !.ep.rem = 0, !.ep.xfer = 0]

\* hw_xfer_complete: the transfer is reset before the event unless it goes on.
XferComplete(c, done) ==
    XferEvent(IF done THEN ResetTransfer(c) ELSE c, c.ep.xfer, done)

\* Fault: a packet of exactly wMaxPacketSize counts as short.
SyncBufferAtMost(c) ==
    [c EXCEPT !.ep.xfer = @ + c.buf.len,
              !.ep.rem = IF c.buf.len <= c.ep.mps \/ c.ep.mps = 0 THEN 0 ELSE @]

\* Fault: a short packet does not end the transfer.
SyncBufferNeverShort(c) == [c EXCEPT !.ep.xfer = @ + c.buf.len]

\* sync_ep_buffer: a packet shorter than wMaxPacketSize ends the transfer, and
\* so does the first one while the packet size is unknown.
SyncBuffer(c) ==
    [c EXCEPT !.ep.xfer = @ + c.buf.len,
              !.ep.rem = IF c.buf.len < c.ep.mps \/ c.ep.mps = 0 THEN 0 ELSE @]

\* _handle_buff_status_bit with hw_endpoint_xfer_continue.
BuffStatus(c) ==
    LET synced == SyncBuffer(c)
        done == synced.ep.rem = 0
    IN  XferComplete(IF done THEN synced ELSE StartNextBuffer(synced), done)

\* hw_trans_complete: of interest only if sie_ctrl still says SEND_SETUP.
TransComplete(c) == IF c.sie = "setup" THEN XferComplete(c, TRUE) ELSE c

\* What the assertions along these paths demand: sync_ep_buffer that a buffer was
\* emptied (OUT) or filled (IN), hcd_event_xfer_complete that setup moved no data.
AssertsHold ==
    /\ buffStatus => ctl.buf.full = (ctl.ep.dir = "in")
    /\ buffStatus /\ ctl.level = 0 => SyncBuffer(ctl).ep.xfer = 0
    /\ transDone /\ ctl.sie = "setup" /\ ctl.level = 0 => ctl.ep.xfer = 0

\* The packets a poll passed to the master: the answer ends with the last one.
Passed(out) ==
    LET n == sent + (IF out = <<>> THEN 0 ELSE out[1].len)
        want == IF ~setup.in THEN 0
                ELSE IF ctl.ep.mps = 0 THEN Min({setup.len, setup.data, dev.size})
                ELSE Min({setup.len, setup.data})
        ends == out # <<>> /\ out[1].last
    IN  /\ sent' = n
        /\ answer' = IF ends THEN [got |-> n, want |-> want] ELSE answer
        /\ pending' = (pending /\ ~ends)
        /\ inbox' = IF ends /\ setup.kind = "descriptor"
                    THEN Append(inbox, [type |-> "packetsize", size |-> dev.size]) ELSE inbox

\* hcd_rp2040_irq_new, called by core0_loop: the buffers first, then the end of a
\* transaction.  The master answers a device descriptor with CHG_EPX_PACKETSIZE.
Poll ==
    /\ ~panic
    /\ buffStatus \/ transDone
    /\ panic' = ~AssertsHold
    /\ \E buffers \in {IF buffStatus THEN BuffStatus(ctl) ELSE ctl} :
       \E all \in {IF transDone THEN TransComplete(buffers) ELSE buffers} :
           /\ ctl' = [all EXCEPT !.out = <<>>]
           /\ Passed(all.out)
    /\ buffStatus' = FALSE
    /\ transDone' = FALSE
    /\ fresh' = (fresh /\ setup.kind # "descriptor")
    /\ UNCHANGED <<setup, devAddr, dev, seen>>

-----------------------------------------------------------------------------
(* slavework: one message of the master.                                   *)

Dequeue(type) ==
    /\ ~panic
    /\ inbox # <<>>
    /\ Head(inbox).type = type
    /\ inbox' = Tail(inbox)

\* RESET_USB: the reset bus returns the device to address 0.
ResetUsb ==
    /\ Dequeue("reset")
    /\ devAddr' = 0
    /\ dev' = NewDevice(dev.size)
    /\ UNCHANGED <<ctl, setup, buffStatus, transDone, panic, fresh, pending, history>>

\* Fault: the stage is not set, or a setup without data starts in stage 1.
SetupDataStage(level) ==
    /\ Dequeue("setup")
    /\ setup' = Head(inbox).request
    /\ ctl' = SetupSend([ctl EXCEPT !.level = level], devAddr)
    /\ seen' = FALSE
    /\ sent' = 0
    /\ UNCHANGED <<devAddr, buffStatus, transDone, panic, dev, fresh, pending, answer>>
SetupDataSameStage == SetupDataStage(ctl.level)
SetupDataNoStage == SetupDataStage(IF Head(inbox).request.in THEN 0 ELSE 1)

\* SETUP_DATA.
SetupData ==
    /\ Dequeue("setup")
    /\ setup' = Head(inbox).request
    /\ ctl' = SetupSend([ctl EXCEPT !.level = 0], devAddr)
    /\ seen' = FALSE
    /\ sent' = 0
    /\ UNCHANGED <<devAddr, buffStatus, transDone, panic, dev, fresh, pending, answer>>

\* Fault: dev_addr changes before the packet is sent.
ChangeAddressFirst ==
    /\ Dequeue("address")
    /\ setup' = SetAddress
    /\ devAddr' = NewAddress
    /\ ctl' = SetupSend([ctl EXCEPT !.level = 0], devAddr')
    /\ seen' = FALSE
    /\ sent' = 0
    /\ UNCHANGED <<buffStatus, transDone, panic, dev, fresh, pending, answer>>

\* CHG_ADDR: the slave makes up the packet; the old address serves this transfer.
ChangeAddress ==
    /\ Dequeue("address")
    /\ setup' = SetAddress
    /\ ctl' = SetupSend([ctl EXCEPT !.level = 0], devAddr)
    /\ devAddr' = NewAddress
    /\ seen' = FALSE
    /\ sent' = 0
    /\ UNCHANGED <<buffStatus, transDone, panic, dev, fresh, pending, answer>>

\* CHG_EPX_PACKETSIZE.
ChangePacketSize ==
    /\ Dequeue("packetsize")
    /\ ctl' = [ctl EXCEPT !.ep.mps = Head(inbox).size]
    /\ UNCHANGED <<setup, devAddr, buffStatus, transDone, panic, dev, fresh, pending, history>>

-----------------------------------------------------------------------------
(* The controller and the device.  A transaction to an address or in a     *)
(* stage the device does not answer stays where it is.                     *)

Answers(kind, stages) ==
    /\ ctl.trans.kind = kind
    /\ ctl.trans.addr = dev.addr
    /\ dev.stage \in stages

\* The setup packet: the device begins the data stage, or the status stage of a
\* request without data, with DATA1.
DeviceSetup ==
    /\ Answers("setup", {"idle", "data", "status", "ack"})
    /\ dev' = [dev EXCEPT !.stage = IF setup.in THEN "data" ELSE "status",
                          !.left = Min({setup.len, setup.data}), !.pid = 1, !.passed = 0]
    /\ ctl' = [ctl EXCEPT !.trans = NoTrans]
    /\ transDone' = TRUE
    /\ seen' = TRUE
    /\ UNCHANGED <<setup, devAddr, buffStatus, panic, masterVars, pending, sent, answer>>

\* A data packet, or the empty one of the status stage.  The data stage is over
\* with a short packet or when wLength bytes have passed; a new address counts
\* from the end of the status stage.  A wrong PID is a DATA_SEQ error: error().
DeviceIn ==
    /\ Answers("in", {"data", "status"})
    /\ LET n == Min({dev.left, dev.size})
           over == dev.stage = "data" /\ (n < dev.size \/ dev.passed + n = setup.len)
       IN  /\ dev' = [dev EXCEPT !.left = @ - n, !.pid = 1 - @, !.passed = @ + n,
                                 !.stage = IF @ = "status" THEN "idle"
                                           ELSE IF over THEN "ack" ELSE "data",
                                 !.addr = IF dev.stage = "status" /\ setup.kind = "address"
                                          THEN NewAddress ELSE @]
           /\ ctl' = [ctl EXCEPT !.trans = NoTrans, !.buf.len = n, !.buf.full = TRUE]
    /\ buffStatus' = TRUE
    /\ transDone' = (transDone \/ ctl.buf.last)
    /\ panic' = (panic \/ ctl.buf.pid # dev.pid)
    /\ UNCHANGED <<setup, devAddr, masterVars, pending, history>>

\* The status stage of an IN request: an empty OUT packet, which also cuts short
\* an unfinished data stage.
DeviceOut ==
    /\ Answers("out", {"data", "ack"})
    /\ dev' = [dev EXCEPT !.stage = "idle"]
    /\ ctl' = [ctl EXCEPT !.trans = NoTrans, !.buf.full = FALSE]
    /\ buffStatus' = TRUE
    /\ transDone' = (transDone \/ ctl.buf.last)
    /\ UNCHANGED <<setup, devAddr, panic, masterVars, pending, history>>

-----------------------------------------------------------------------------
(* The master and its host.                                                *)

\* The next request follows the answer to the last one: "answered".  "idle"
\* assumes that the device has by then acknowledged the status stage as well.
MayRequest ==
    /\ ~panic
    /\ inbox = <<>>
    /\ ~pending
    /\ Patience = "idle" =>
          ctl.trans = NoTrans /\ ~buffStatus /\ ~transDone /\ dev.stage = "idle"

\* dcd_event_setup_received_new on the master: SET_ADDRESS becomes CHG_ADDR, every
\* other request of these is forwarded.
NewRequest(r) ==
    /\ MayRequest
    /\ fresh => r.kind = "descriptor"
    /\ ExactFits \/ ~Exact(r, dev.size)
    /\ inbox' = IF r = SetAddress THEN <<[type |-> "address"]>>
                ELSE <<[type |-> "setup", request |-> r]>>
    /\ pending' = TRUE
    /\ UNCHANGED <<hostVars, dev, fresh, history>>

\* The host resets the bus.
NewReset ==
    /\ MayRequest
    /\ inbox' = <<[type |-> "reset"]>>
    /\ fresh' = TRUE
    /\ UNCHANGED <<hostVars, dev, pending, history>>

\* Another device is attached; the host resets the bus before it uses it.
Swap ==
    /\ MayRequest
    /\ \E s \in PacketSizes : (s = dev.size \/ Swaps) /\ dev' = NewDevice(s)
    /\ inbox' = <<[type |-> "reset"]>>
    /\ fresh' = TRUE
    /\ UNCHANGED <<hostVars, pending, history>>

-----------------------------------------------------------------------------
SlaveWork == ResetUsb \/ SetupData \/ ChangeAddress \/ ChangePacketSize
Device == DeviceSetup \/ DeviceIn \/ DeviceOut
Master == (\E r \in Request : NewRequest(r)) \/ NewReset \/ Swap

Next == Poll \/ SlaveWork \/ Device \/ Master

Spec == Init /\ [][Next]_vars

\* core0_loop polls and dequeues forever, and a device answers a transaction of
\* the stage it is in.  Requests need not come.
FairSpec == Spec /\ WF_vars(Poll) /\ WF_vars(SlaveWork) /\ WF_vars(Device)

-----------------------------------------------------------------------------
(* Properties.                                                             *)

Pid == {0, 1}
Dir == {"in", "out"}

\* Every variable has its type.
TypeOK ==
    /\ ctl.ep \in [dir : Dir, addr : {0, NewAddress}, pid : Pid,
                   mps : PacketSizes \cup {0}, rem : Nat, xfer : Nat]
    /\ ctl.level \in 0..2 /\ ctl.out = <<>>
    /\ ctl.sie \in Dir \cup {"setup", "base"}
    /\ ctl.trans \in [kind : Dir \cup {"setup", "none"}, addr : {0, NewAddress}]
    /\ ctl.buf \in [len : Nat, pid : Pid, full : BOOLEAN, last : BOOLEAN]
    /\ setup \in Request /\ devAddr \in {0, NewAddress}
    /\ dev \in [size : PacketSizes, addr : {0, NewAddress}, left : Nat, pid : Pid,
                passed : Nat, stage : {"idle", "data", "status", "ack"}]
    /\ {buffStatus, transDone, panic, pending, fresh, seen} \subseteq BOOLEAN
    /\ \A i \in 1..Len(inbox) : inbox[i].type \in {"reset", "setup", "address", "packetsize"}
    /\ sent \in Nat /\ answer \in [got : Nat, want : Nat]

\* The answer handed to the master as complete (LAST_PACKET) has every byte the
\* device had for the request: the first packet while the packet size is unknown
\* (rp2040_usb.c:317), wLength or all the data afterwards.
AnswerIsWhole == answer.got = answer.want

\* However often a transfer is started again in the middle
\* (host_event_handlers.c:171 after rp2040_usb.c:353), the PID offered for a packet
\* is the one the device sends: the two parity computations of
\* rp2040_usb.c:185-195 always add up to one turn per packet.
PidAgrees ==
    ctl.trans.kind = "in" /\ dev.stage \in {"data", "status"} => ctl.buf.pid = dev.pid

\* Every transaction goes to the address the device answers to, through
\* SET_ADDRESS, whose status stage still uses the old one although dev_addr has
\* changed at once (host_event_handlers.c:88-89), and through resets.
AddressAgrees == ctl.trans.kind # "none" => ctl.trans.addr = dev.addr

\* No assertion on the way of a transfer fails and no packet has a wrong PID
\* (host_event_handlers.c:151-152, rp2040_usb.c:287, 295, hcd_rp2040.c:215-222).
NoPanic == ~panic

\* The slave asks for a packet only while the device has one to send: it never
\* waits in the data stage of a device that has passed to the status stage.
AsksOnlyForMore == ctl.trans.kind = "in" => dev.stage \in {"data", "status"}

\* host_event_handlers.c:149: "Setup packet is sent to device. Now need to read
\* data.": data is read only of a device that has received the setup packet.
SetupSentFirst == ctl.level = 1 => seen

\* rp2040_usb.c:325: hw_endpoint_xfer_continue "Returns true if transfer is
\* complete": once wLength bytes have come the slave is not left in the data stage.
CompleteWhenAllCame == ctl.level = 1 /\ setup.in => sent < setup.len

\* Every request is answered.
Answered == pending ~> ~pending
=============================================================================
