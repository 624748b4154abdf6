--------------------------- MODULE HostEndpoints ---------------------------
(***************************************************************************)
(* All endpoints of the slave, the USB host of the firewall: the pool of   *)
(* hcd_rp2040.c, in which slot 0 is EPX and the others are taken by        *)
(* EDPT_OPEN, active_ep, and the level that control transfers share with   *)
(* USB_DATA.  Bulk endpoints use the buffer and the registers of EPX, an   *)
(* interrupt endpoint has its own.  HostControl has the lengths of control *)
(* transfers; here one is a single short packet or none.  Environment: the *)
(* controller, a device (mass storage or two interrupt endpoints) and the  *)
(* drivers of the master.                                                  *)
(*                                                                         *)
(* drv is what the slave and its controller hold:                          *)
(*   pool    slot |-> address, next PID, wMaxPacketSize, interrupt_num,    *)
(*           configured, remaining_len, xferred_len and whether user_buf   *)
(*           is set                                                        *)
(*   active  the slot active_ep points to                                  *)
(*   level   0 setup, 1 data or status, 2 acknowledge, 3 USB_DATA          *)
(*   reads   the direction in setup_packet is IN                           *)
(*   bugger  the endpoint whose data the shared buffer holds               *)
(*   sie, trans   what sie_ctrl last started, and what of it is to be done *)
(*   bufs    buffer control words: 0 is EPX's, i that of interrupt slot i  *)
(*   out     the packets of this poll handed to send_event_to_master       *)
(***************************************************************************)
EXTENDS Integers, Sequences, FiniteSetsExt, SequencesExt

CONSTANTS
    Slots,          \* endpoints of the pool besides EPX
    BulkSize,       \* wMaxPacketSize of the bulk endpoints (64)
    InterruptSizes, \* wMaxPacketSize of the interrupt endpoints
    Asks,           \* how much a knock asks for: bMaxPacketSize0 of the device
    OutPackets,     \* how many data packets a SCSI command may send
    Apart,          \* whether USB_DATA and control transfers keep apart
    Paced,          \* whether a device reports once per knock at most
    ShortReports    \* whether a short packet may answer a request of several

NotInterrupt == 255 \* interrupt_num, a byte, of an endpoint that is not one

ASSUME HostEndpointsAssumption ==
    /\ Slots \in 2..NotInterrupt /\ BulkSize \in Nat \ {0}
    /\ InterruptSizes \subseteq Nat \ {0} /\ Asks \subseteq Nat \ {0}
    /\ OutPackets \subseteq Nat
    /\ {Apart, Paced, ShortReports} \subseteq BOOLEAN

SetupLength == 8
StatusLength == 64  \* buglen of a request without data

Address(num, in) == [num |-> num, in |-> in]
Control(in) == Address(0, in)
BulkOut == Address(2, FALSE)
BulkIn == Address(1, TRUE)
Addresses == {Control(TRUE), Control(FALSE), BulkOut, BulkIn, Address(2, TRUE)}

\* What a device is: its endpoint descriptors in the order of its configuration,
\* and the size of its control packets.
Descriptor(addr, bulk, mps) == [addr |-> addr, bulk |-> bulk, mps |-> mps]
Storage == [config |-> <<Descriptor(BulkOut, TRUE, BulkSize),
                         Descriptor(BulkIn, TRUE, BulkSize)>>, ask |-> BulkSize]
Hid(m1, m2, ask) == [config |-> <<Descriptor(Address(1, TRUE), FALSE, m1),
                                  Descriptor(Address(2, TRUE), FALSE, m2)>>, ask |-> ask]
Devices ==
    {Storage} \cup UNION {{Hid(m1, m2, a) : a \in Asks, m2 \in {m \in InterruptSizes : m > m1}} :
                             m1 \in InterruptSizes}

VARIABLES
    device,    \* the device, which does not change
    drv,       \* see above
    bits,      \* BUFF_STATUS, as numbers of buffers
    transDone, \* TRANS_COMPLETE
    inbox,     \* messages of the master
    outbox,    \* packets for the master
    dev,       \* the state of the device
    drivers    \* the master's drivers and its host

vars == <<device, drv, bits, transDone, inbox, outbox, dev, drivers>>

NoTrans == [kind |-> "none", num |-> 0]
NoBuf == [avail |-> FALSE, len |-> 0, pid |-> 0, full |-> FALSE, last |-> FALSE,
          src |-> Control(FALSE)]
FreeSlot == [addr |-> Control(FALSE), pid |-> 0, mps |-> 0, inum |-> 0, conf |-> FALSE,
             rem |-> 0, xfer |-> 0, user |-> FALSE]

\* The device has been described: EPX has its packet size.
Init ==
    /\ device \in Devices
    /\ drv = [pool |-> [i \in 0..Slots |->
                           IF i = 0 THEN [FreeSlot EXCEPT !.mps = device.ask, !.conf = TRUE,
                                                          !.inum = NotInterrupt]
                           ELSE FreeSlot],
              active |-> 0, level |-> 2, reads |-> TRUE, bugger |-> Control(TRUE),
              sie |-> "base", trans |-> NoTrans, bufs |-> [i \in 0..Slots |-> NoBuf],
              out |-> <<>>, panic |-> FALSE]
    /\ bits = {} /\ transDone = FALSE
    /\ inbox = <<>> /\ outbox = <<>>
    /\ dev = [stage |-> "idle", pid |-> [a \in Addresses |-> IF a.num = 0 THEN 1 ELSE 0],
              busy |-> FALSE, left |-> 0]
    /\ drivers = [control |-> FALSE, configured |-> FALSE, phase |-> "idle", want |-> {}]

-----------------------------------------------------------------------------
(* Endpoints: allocation and lookup.                                       *)

\* get_dev_ep: the first configured slot with this address; EPX for endpoint 0.
SlotsOf(d, a) ==
    IF a.num = 0 THEN {0}
    ELSE {i \in 1..Slots : d.pool[i].conf /\ d.pool[i].addr = a}
SlotOf(d, a) == Min(SlotsOf(d, a))

\* Fault: the last slot whether or not one is free.
NextFreeSlotLast(d) == Slots

\* _next_free_interrupt_ep: the first slot that is free, or else the last one.
NextFreeSlot(d) ==
    LET free == {i \in 1..Slots : ~d.pool[i].conf}
    IN  IF free = {} THEN Slots ELSE Min(free)

\* Fault: every endpoint uses EPX's buffer.
BufOfEpx(ep) == 0

\* The buffer a slot uses: its own, or EPX's.
BufOf(ep) == IF ep.inum = NotInterrupt THEN 0 ELSE ep.inum + 1

\* _hw_endpoint_init.
EndpointInit(ep, a, mps) ==
    [ep EXCEPT !.addr = a, !.mps = mps, !.conf = TRUE,
               !.pid = IF a.num = 0 THEN 1 ELSE 0]

\* _hw_endpoint_allocate for slot i and hcd_edpt_open.  An interrupt endpoint that
\* takes over the slot of another kind has 255 for an index.
OpenSlot(d, e, i) ==
    LET inum == IF e.bulk THEN NotInterrupt
                ELSE IF d.pool[i].conf THEN d.pool[i].inum ELSE i - 1
    IN  [d EXCEPT !.pool[i] = EndpointInit([@ EXCEPT !.inum = inum], e.addr, e.mps),
                  !.panic = @ \/ (~e.bulk /\ inum = NotInterrupt)]

\* Fault: an endpoint that is open already is opened again in its own slot.
EdptOpenInPlace(d, e) ==
    OpenSlot(d, e, IF SlotsOf(d, e.addr) = {} THEN NextFreeSlot(d) ELSE SlotOf(d, e.addr))

EdptOpen(d, e) == OpenSlot(d, e, NextFreeSlot(d))

-----------------------------------------------------------------------------
(* Transfers.  Each operator takes drv and returns the next one.           *)

\* Op applied to d, which TLC evaluates once, also where it decides ENABLED.
Then(d, Op(_)) == CHOOSE r \in {Op(e) : e \in {d}} : TRUE

\* The endpoint in slot i offers its buffer: all of remaining_len, of which left
\* remains for the next one.
Offer(d, i, left, nextPid) ==
    LET ep == d.pool[i]
    IN  [d EXCEPT !.pool[i].rem = left, !.pool[i].pid = nextPid,
                  !.bufs[BufOf(ep)] = [@ EXCEPT !.avail = TRUE, !.len = ep.rem, !.pid = ep.pid,
                                                !.full = ~ep.addr.in, !.last = left = 0]]

\* Fault: the PID turns with every buffer, however many packets remain.
StartNextBufferTurning(d, i) ==
    LET ep == d.pool[i] IN Offer(d, i, ep.rem - Min({ep.rem, ep.mps}), 1 - ep.pid)

\* Fault: a whole packet is taken off remaining_len when less is left.
StartNextBufferWhole(d, i) ==
    LET ep == d.pool[i] IN Offer(d, i, ep.rem - ep.mps, 1 - ep.pid)

\* _hw_endpoint_start_next_buffer: remaining_len drops by one packet; the PID turns
\* with an odd count of packets.
StartNextBuffer(d, i) ==
    LET ep == d.pool[i]
        n == Min({ep.rem, ep.mps})
        left == ep.rem - n
        turns == n = 0 \/ (1 + (left + n - 1) \div ep.mps) % 2 = 1
    IN  Offer(d, i, left, IF turns THEN 1 - ep.pid ELSE ep.pid)

\* hw_endpoint_xfer_start.
XferStart(d, i, len) ==
    Then([d EXCEPT !.pool[i] = [@ EXCEPT !.rem = len, !.xfer = 0, !.user = TRUE]],
         LAMBDA e : StartNextBuffer(e, i))

\* hcd_edpt_xfer: the endpoint becomes the active one, EPX turns round if its
\* direction is the other one, and a transaction is started for any endpoint; an
\* address that is not open fails an assertion.
EdptXfer(d, a, len) ==
    LET i == SlotOf(d, a)
        ep == d.pool[i]
        faced == IF ep.addr = a THEN ep ELSE EndpointInit(ep, a, ep.mps)
        kind == IF a.in THEN "in" ELSE "out"
    IN  IF SlotsOf(d, a) = {} THEN [d EXCEPT !.panic = TRUE]
        ELSE XferStart([d EXCEPT !.active = i, !.pool[i] = faced,
                                 !.sie = kind, !.trans = [kind |-> kind, num |-> a.num]],
                       i, len)

\* hcd_setup_send.
SetupSend(d) ==
    [d EXCEPT !.pool[0] = [EndpointInit(@, Control(FALSE), @.mps)
                              EXCEPT !.inum = NotInterrupt, !.rem = SetupLength],
              !.active = 0, !.sie = "setup", !.trans = [kind |-> "setup", num |-> 0]]

\* hcd_event_xfer_complete for the endpoint in slot i; done is
\* XFER_RESULT_SUCCESS, else result 4.  Only endpoint 0 looks at the level.
XferEvent(d, i, n, done) ==
    LET a == d.pool[i].addr
        len == IF d.reads THEN device.ask ELSE StatusLength
        packet == [addr |-> a, len |-> n, last |-> done, src |-> d.bugger]
        told == [d EXCEPT !.out = Append(@, packet)]
    IN  CASE a.num # 0 -> told
          [] a.num = 0 /\ d.level = 0 ->
                EdptXfer([d EXCEPT !.level = 1, !.panic = @ \/ n # 0 \/ ~done],
                         Control(TRUE), len)
          [] a.num = 0 /\ d.level = 1 /\ ~done -> EdptXfer(told, Control(TRUE), len)
          [] a.num = 0 /\ d.level = 1 /\ done ->
                LET over == [told EXCEPT !.level = 2]
                IN  IF d.reads THEN EdptXfer(over, Control(FALSE), 0) ELSE over
          [] OTHER -> d

\* hw_xfer_complete: the transfer is reset before the event unless it goes on.
XferComplete(d, i, done) ==
    LET n == d.pool[i].xfer
    IN  Then(IF done THEN [d EXCEPT !.pool[i] = [@ EXCEPT !.rem = 0, !.xfer = 0, !.user = FALSE]]
             ELSE d,
             LAMBDA e : XferEvent(e, i, n, done))

\* sync_ep_buffer: data goes to the shared buffer, or to a reserve while the
\* transfer has none; a packet shorter than wMaxPacketSize ends the transfer.
SyncBuffer(d, i) ==
    LET ep == d.pool[i]
        buf == d.bufs[BufOf(ep)]
        short == buf.len < ep.mps \/ ep.mps = 0
    IN  [d EXCEPT !.pool[i].xfer = @ + buf.len,
                  !.pool[i].user = @ \/ (ep.addr.in /\ buf.len > 0),
                  !.pool[i].rem = IF short THEN 0 ELSE @,
                  !.bugger = IF ep.addr.in /\ ep.user THEN buf.src ELSE @,
                  !.panic = @ \/ buf.full # ep.addr.in]

\* _handle_buff_status_bit with hw_endpoint_xfer_continue.
BuffStatusBit(d, i) ==
    Then(SyncBuffer(d, i),
         LAMBDA e : IF e.pool[i].rem = 0 THEN XferComplete(e, i, TRUE)
                    ELSE Then(StartNextBuffer(e, i), LAMBDA f : XferComplete(f, i, FALSE)))

\* EPX's buffer, which is taken for that of the active endpoint, and the one of slot i.
EpxBit(d) == IF 0 \in bits THEN BuffStatusBit(d, d.active) ELSE d
SlotBit(d, i) == IF i \in bits THEN BuffStatusBit(d, i) ELSE d

\* hw_handle_buff_status: EPX's buffer, then each slot's.
Handled(d) ==
    LET upTo[i \in 0..Slots] ==
            IF i = 0 THEN EpxBit(d) ELSE Then(upTo[i-1], LAMBDA e : SlotBit(e, i))
    IN  upTo
BuffStatus(d) == Handled(d)[Slots]

\* hw_trans_complete: of interest only if sie_ctrl still says SEND_SETUP.
TransComplete(d) == IF d.sie = "setup" THEN XferComplete(d, 0, TRUE) ELSE d

\* A poll that clears some of the bits it has handled.
PollClearing(cleared) ==
    /\ ~drv.panic
    /\ bits # {} \/ transDone
    /\ \E all \in {Then(BuffStatus(drv), LAMBDA d : IF transDone THEN TransComplete(d) ELSE d)} :
          /\ drv' = [all EXCEPT !.out = <<>>]
          /\ outbox' = outbox \o all.out
    /\ bits' = bits \ cleared
    /\ transDone' = FALSE
    /\ UNCHANGED <<device, inbox, dev, drivers>>

\* Fault: only EPX's bit of BUFF_STATUS is cleared.
PollKeepingBits == PollClearing({0})

\* hcd_rp2040_irq_new: the buffers, then the end of a transaction.
Poll == PollClearing(bits)

-----------------------------------------------------------------------------
(* slavework: one message of the master.                                   *)

Dequeue(type) ==
    /\ ~drv.panic
    /\ inbox # <<>>
    /\ Head(inbox).type = type
    /\ inbox' = Tail(inbox)
    /\ UNCHANGED <<device, bits, transDone, outbox, dev, drivers>>

\* EDPT_OPEN.
OpenEndpoint ==
    /\ Dequeue("open")
    /\ drv' = EdptOpen(drv, Head(inbox).desc)

\* Fault: the level of the last transfer stays.
SetupDataSameLevel ==
    /\ Dequeue("setup")
    /\ drv' = SetupSend([drv EXCEPT !.reads = Head(inbox).reads])

\* SETUP_DATA.
SetupData ==
    /\ Dequeue("setup")
    /\ drv' = SetupSend([drv EXCEPT !.reads = Head(inbox).reads, !.level = 0])

\* USB_DATA: data for an OUT endpoint, or a knock, whose zeros are copied as well.
UsbData ==
    /\ Dequeue("data")
    /\ LET m == Head(inbox)
       IN  drv' = EdptXfer([drv EXCEPT !.level = 3, !.bugger = m.addr], m.addr, m.len)

-----------------------------------------------------------------------------
(* The controller and the device.                                          *)

\* The controller carries a transaction out when EPX's buffer is available.
Transaction(kind, nums) ==
    /\ drv.trans.kind = kind /\ drv.trans.num \in nums
    /\ kind = "setup" \/ drv.bufs[0].avail

\* A transaction has used buffer b for the endpoint a: n bytes came or went.
Done(b, a, n) ==
    /\ drv' = [drv EXCEPT !.trans = IF b = 0 THEN NoTrans ELSE @,
                          !.bufs[b] = [@ EXCEPT !.avail = FALSE, !.full = a.in, !.len = n,
                                                !.src = a],
                          !.panic = @ \/ (a.in /\ drv.bufs[b].pid # dev.pid[a])]
    /\ bits' = bits \cup {b}
    /\ transDone' = (transDone \/ drv.bufs[b].last)
    /\ UNCHANGED <<device, inbox, outbox, drivers>>

\* The setup packet: the device begins the data or the status stage with DATA1.
DeviceSetup ==
    /\ Transaction("setup", {0})
    /\ dev' = [dev EXCEPT !.stage = IF drv.reads THEN "data" ELSE "status",
                          !.pid[Control(TRUE)] = 1]
    /\ drv' = [drv EXCEPT !.trans = NoTrans]
    /\ transDone' = TRUE
    /\ UNCHANGED <<device, bits, inbox, outbox, drivers>>

\* The answer to a control request: one short packet, or the empty one of a status.
DeviceAnswer ==
    /\ Transaction("in", {0})
    /\ dev.stage \in {"data", "status"}
    /\ dev' = [dev EXCEPT !.stage = IF @ = "data" THEN "ack" ELSE "idle"]
    /\ Done(0, Control(TRUE), IF dev.stage = "data" THEN 1 ELSE 0)

DeviceAck ==
    /\ Transaction("out", {0})
    /\ dev.stage = "ack"
    /\ dev' = [dev EXCEPT !.stage = "idle"]
    /\ Done(0, Control(FALSE), 0)

\* A packet of a bulk OUT endpoint: a new command, which says how many data packets
\* follow, or one of these.  A packet with the PID of the last one is dropped.
DeviceBulkOut ==
    /\ Transaction("out", {BulkOut.num})
    /\ IF drv.bufs[0].pid # dev.pid[BulkOut] THEN dev' = dev
       ELSE \E n \in IF dev.busy THEN {dev.left - 1} ELSE OutPackets :
                dev' = [dev EXCEPT !.pid[BulkOut] = 1 - @, !.busy = TRUE, !.left = n]
    /\ Done(0, BulkOut, drv.bufs[0].len)

\* A data packet or, once, the status of a command that has all its data.
DeviceBulkIn ==
    /\ Transaction("in", {BulkIn.num})
    /\ dev.busy /\ dev.left = 0
    /\ \E over \in BOOLEAN :
          dev' = [dev EXCEPT !.pid[BulkIn] = 1 - @, !.busy = ~over]
    /\ \E n \in {1, BulkSize} : Done(0, BulkIn, n)

\* The knocks for endpoint a that the slave has handled are not yet answered.
Awaited(a) ==
    /\ a \in drivers.want
    /\ \A k \in 1..Len(inbox) : inbox[k].type = "data" => inbox[k].addr # a
    /\ \A k \in 1..Len(outbox) : outbox[k].addr # a
    /\ \A i \in SlotsOf(drv, a) : i \notin bits

\* A setup packet is about to be sent.
SetupWaits ==
    \/ drv.trans.kind = "setup"
    \/ \E k \in 1..Len(inbox) : inbox[k].type = "setup"

\* An interrupt endpoint that has something to report.
Reporting(i) ==
    LET ep == drv.pool[i]
    IN  /\ ep.conf /\ ep.inum # NotInterrupt
        /\ drv.bufs[BufOf(ep)].avail
        /\ Paced => Awaited(ep.addr)
        /\ Apart => ~SetupWaits
DeviceReport(i) ==
    LET ep == drv.pool[i]
    IN  /\ Reporting(i)
        /\ dev' = [dev EXCEPT !.pid[ep.addr] = 1 - @]
        /\ \E n \in {1, Min({ep.mps, device.ask})} :
              /\ n = ep.mps \/ device.ask <= ep.mps \/ ShortReports
              /\ Done(BufOf(ep), ep.addr, n)

-----------------------------------------------------------------------------
(* The drivers of the master and its host.                                 *)

\* A control transfer is on its way, its status stage included.
ControlGoing ==
    \/ drivers.control \/ dev.stage # "idle"
    \/ 0 \in bits /\ drv.active = 0

Data(a, len) == [type |-> "data", addr |-> a, len |-> len]
Ask(a) == Data(a, device.ask)

Enqueue(messages) ==
    /\ inbox' = inbox \o messages
    /\ UNCHANGED <<device, drv, bits, transDone, outbox, dev>>

NewControl(in) ==
    /\ ~ControlGoing
    /\ Apart => inbox = <<>> /\ drivers.phase = "idle" /\ ~transDone
    /\ drivers' = [drivers EXCEPT !.control = TRUE]
    /\ Enqueue(<<[type |-> "setup", reads |-> in]>>)

\* A SCSI command, and the data of one that still expects some.
SendOut ==
    /\ BulkOut \notin drivers.want
    /\ drivers' = [drivers EXCEPT !.phase = "sent", !.want = @ \cup {BulkOut}]
    /\ Enqueue(<<Data(BulkOut, BulkSize)>>)
NewCommand ==
    /\ device = Storage
    /\ drivers.configured /\ drivers.phase = "idle"
    /\ Apart => ~ControlGoing
    /\ SendOut
SendData ==
    /\ drivers.phase = "asked" /\ dev.left > 0
    /\ SendOut

\* A report was read, or the report descriptor: ask for the next one.
Knock(a) ==
    /\ device # Storage
    /\ drivers.configured
    /\ a \notin drivers.want
    /\ Apart => ~ControlGoing
    /\ drivers' = [drivers EXCEPT !.want = @ \cup {a}]
    /\ Enqueue(<<Ask(a)>>)

Take(p) ==
    /\ outbox # <<>>
    /\ p = Head(outbox)
    /\ outbox' = Tail(outbox)
    /\ UNCHANGED <<device, drv, bits, transDone, dev>>

\* A control answer; that of a configuration descriptor opens its endpoints.
TakeControl ==
    /\ \E p \in ToSet(outbox) : Take(p) /\ p.addr.num = 0
    /\ \E opens \in BOOLEAN :
          /\ drivers' = [drivers EXCEPT !.control = FALSE, !.configured = @ \/ opens]
          /\ inbox' = IF ~opens THEN inbox
                      ELSE inbox \o [i \in 1..2 |-> [type |-> "open", desc |-> device.config[i]]]

\* An OUT packet is gone: ask the IN endpoint.
TakeOut ==
    /\ \E p \in ToSet(outbox) : Take(p) /\ p.addr = BulkOut
    /\ drivers' = [drivers EXCEPT !.phase = "asked", !.want = (@ \ {BulkOut}) \cup {BulkIn}]
    /\ inbox' = Append(inbox, Ask(BulkIn))

\* An IN packet: after the status of the command nothing is asked for.
TakeIn ==
    /\ device = Storage
    /\ \E p \in ToSet(outbox) : Take(p) /\ p.addr = BulkIn
    /\ drivers' = [drivers EXCEPT !.phase = IF dev.busy THEN "asked" ELSE "idle",
                                  !.want = IF dev.busy THEN @ ELSE @ \ {BulkIn}]
    /\ inbox' = IF dev.busy THEN Append(inbox, Ask(BulkIn)) ELSE inbox

TakeReport ==
    /\ device # Storage
    /\ \E p \in ToSet(outbox) :
          Take(p) /\ p.addr.num # 0 /\ drivers' = [drivers EXCEPT !.want = @ \ {p.addr}]
    /\ UNCHANGED inbox

-----------------------------------------------------------------------------
SlaveWork == OpenEndpoint \/ SetupData \/ UsbData
Device == DeviceSetup \/ DeviceAnswer \/ DeviceAck \/ DeviceBulkOut \/ DeviceBulkIn
Masters == TakeControl \/ TakeOut \/ TakeIn \/ TakeReport

Next ==
    \/ Poll \/ SlaveWork \/ Device \/ Masters
    \/ \E i \in 1..Slots : DeviceReport(i)
    \/ \E in \in BOOLEAN : NewControl(in)
    \/ NewCommand \/ SendData
    \/ \E a \in {e.addr : e \in ToSet(device.config)} : Knock(a)

Spec == Init /\ [][Next]_vars

\* core0_loop polls and dequeues forever, a device answers what it is asked, the
\* master takes its messages and a command goes on.  Reports, knocks, commands and
\* control requests need not come.
FairSpec ==
    Spec /\ WF_vars(Poll) /\ WF_vars(SlaveWork) /\ WF_vars(Device) /\ WF_vars(Masters)
         /\ WF_vars(SendData)

-----------------------------------------------------------------------------
(* Properties.                                                             *)

Pid == {0, 1}

\* Every variable has its type.
TypeOK ==
    /\ device \in Devices
    /\ \A i \in 0..Slots :
          drv.pool[i] \in [addr : Addresses, pid : Pid, mps : Nat, conf : BOOLEAN,
                           inum : 0..(Slots - 1) \cup {NotInterrupt},
                           rem : Nat, xfer : Nat, user : BOOLEAN]
    /\ drv.active \in 0..Slots /\ drv.level \in 0..3 /\ drv.out = <<>>
    /\ drv.trans \in [kind : {"none", "setup", "in", "out"}, num : 0..2]
    /\ drv.sie \in {"base", "setup", "in", "out"}
    /\ \A b \in 0..Slots :
          drv.bufs[b] \in [avail : BOOLEAN, len : Nat, pid : Pid, full : BOOLEAN,
                           last : BOOLEAN, src : Addresses]
    /\ drv.bugger \in Addresses /\ {drv.reads, drv.panic, transDone} \subseteq BOOLEAN
    /\ bits \subseteq 0..Slots
    /\ \A k \in 1..Len(inbox) : inbox[k].type \in {"open", "setup", "data"}
    /\ \A k \in 1..Len(outbox) :
          outbox[k] \in [addr : Addresses, len : Nat, last : BOOLEAN, src : Addresses]
    /\ dev \in [stage : {"idle", "data", "status", "ack"}, pid : [Addresses -> Pid],
                busy : BOOLEAN, left : Nat]
    /\ drivers \in [control : BOOLEAN, configured : BOOLEAN,
                    phase : {"idle", "sent", "asked"}, want : SUBSET Addresses]

\* The PID of a buffer the device is about to use is the one it expects: although
\* all bulk endpoints share a buffer and each keeps its own next_pid, although an IN
\* transfer that data for the OUT endpoint cuts short has turned it already
\* (rp2040_usb.c:185-195), and although an endpoint may be opened a second time.
PidAgrees ==
    /\ Transaction("in", {0}) /\ dev.stage \in {"data", "status"} =>
          drv.bufs[0].pid = dev.pid[Control(TRUE)]
    /\ Transaction("in", {BulkIn.num}) /\ dev.busy /\ dev.left = 0 =>
          drv.bufs[0].pid = dev.pid[BulkIn]
    /\ Transaction("out", {BulkOut.num}) => drv.bufs[0].pid = dev.pid[BulkOut]
    /\ \A i \in 1..Slots :
          Reporting(i) => drv.bufs[BufOf(drv.pool[i])].pid = dev.pid[drv.pool[i].addr]

\* A packet is passed to the master under the address of the endpoint it came from,
\* although EPX's completion belongs to whatever active_ep is by then
\* (hcd_rp2040.c:106) and all data goes through one buffer
\* (host_event_handlers.c:129-133).
PacketFromOwner ==
    \A k \in 1..Len(outbox) :
        outbox[k].addr.in /\ outbox[k].len > 0 => outbox[k].src = outbox[k].addr

\* Once the endpoints of the device have been opened, each address leads to a slot
\* of its own packet size and kind, even when the configuration is read so often that
\* the pool is full and the last slot is given away again (hcd_rp2040.c:233-244).
EndpointsKept ==
    \A e \in ToSet(device.config) :
        /\ drivers.configured
        /\ \A k \in 1..Len(inbox) : inbox[k].type = "open" => inbox[k].desc # e
        => /\ SlotsOf(drv, e.addr) # {}
           /\ LET ep == drv.pool[SlotOf(drv, e.addr)]
              IN  ep.mps = e.mps /\ (ep.inum = NotInterrupt) = e.bulk

\* A knock or an OUT packet is answered at most once, and only after it has been
\* handled: no completion is counted twice and no buffer that was offered for a
\* second packet (hcd_rp2040.c:90-91) brings an answer of its own.
AnsweredOnce ==
    \A k \in 1..Len(outbox) :
        LET a == outbox[k].addr
        IN  a.num # 0 =>
              /\ a \in drivers.want
              /\ \A j \in 1..Len(outbox) : outbox[j].addr = a => j = k
              /\ \A j \in 1..Len(inbox) : inbox[j].type = "data" => inbox[j].addr # a

\* No assertion fails (host_event_handlers.c:151-152, hcd_rp2040.c:401,
\* rp2040_usb.c:287), no slot is taken over by another kind of endpoint and no packet
\* has a wrong PID (hcd_rp2040.c:215-222).
NoPanic == ~drv.panic

\* Every control request is answered, whatever level USB_DATA has left behind
\* (host_event_handlers.c:70), every OUT packet is acknowledged, and every command
\* comes to its status or goes on with data.
Answered ==
    /\ drivers.control ~> ~drivers.control
    /\ BulkOut \in drivers.want ~> BulkOut \notin drivers.want
    /\ drivers.phase = "asked" ~> \/ drivers.phase # "asked"
                                  \/ outbox # <<>> /\ Head(outbox).addr = BulkIn
=============================================================================
