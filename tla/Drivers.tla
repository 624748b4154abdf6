------------------------------ MODULE Drivers ------------------------------
(***************************************************************************)
(* The data endpoints of the master, the USB device of the firewall: the   *)
(* endpoints a configuration descriptor opens (device_event_handlers.c),   *)
(* their packet memory and their part of the poll (dcd_rp2040.c), the      *)
(* drivers for mass storage and HID (drivers.c), and the check that bans   *)
(* keyboards (validator.c).  Endpoint 0 is in DeviceControl: here a        *)
(* control request is the message that answers it.  Environment: the host, *)
(* and the slave with the device, of which HostEndpoints shows that each   *)
(* request for a packet is answered once.                                  *)
(*                                                                         *)
(* m is what the master holds; the operators on it are the functions of    *)
(* the code and return the next one:                                       *)
(*   eps     address |-> open, packet memory (at, size), next PID, buffer  *)
(*   next    next_buffer_ptr, in blocks of 64 bytes                        *)
(*   driver, itf   the tables edpt_driver and itf_copy                     *)
(*   other, permit, counted   other_edpt, permit_0x81, count0x81 > 0       *)
(*   writing the aggregator has an answer to empty (setup_response_dir)    *)
(*   msgs    the messages enqueued in this step                            *)
(*   panic   error() was called or an assertion failed: core 0 has stopped *)
(***************************************************************************)
EXTENDS Integers, Sequences, FiniteSets, SequencesExt

CONSTANTS
    Kinds,       \* the devices that may be attached, see Config
    MemUnits,    \* packet memory, in blocks of 64 bytes (58)
    MaxReads,    \* times the configuration is read between bus resets
    MaxResets,   \* bus resets while the device is enumerated
    DataLengths, \* lengths of the packets a mass storage device returns
    MaxOut,      \* data packets that follow a command, at most
    MaxIn,       \* data packets a command returns, at most
    MaxCommands, \* commands of the host
    MaxReports,  \* reports of a HID device
    Rereads      \* whether the configuration is also read in operation

ASSUME DriversAssumption ==
    /\ Kinds \subseteq {"storage", "mouse", "keyboard", "vendor"}
    /\ {MemUnits, MaxReads, MaxResets, MaxOut, MaxIn, MaxCommands, MaxReports} \subseteq Nat
    /\ DataLengths \subseteq Nat
    /\ Rereads \in BOOLEAN

CommandLength == 31 \* a SCSI command ...
StatusLength == 13  \* ... and its status
ReportLength == 4   \* a report of a HID device
FullLength == 64    \* data of a SCSI command

Address(num, in) == [num |-> num, in |-> in]
BulkOut == Address(2, FALSE)
In(n) == Address(n, TRUE)
Addresses == {BulkOut, In(1), In(2)}

\* Interfaces: their class and protocol.
Interface(class, protocol) == [class |-> class, protocol |-> protocol]
Storage == Interface(8, 80)
Mouse == Interface(3, 2)
Keyboard == Interface(3, 1)
Vendor == Interface(255, 0)
NoInterface == Interface(0, 0)

\* The descriptors of a configuration; an endpoint belongs to the interface before
\* it.  A mouse and a keyboard both have an interface of the other kind.
OfInterface(itf) == [type |-> "interface", itf |-> itf]
OfEndpoint(a, bulk) == [type |-> "endpoint", addr |-> a, bulk |-> bulk]
HidConfig(first, second) ==
    <<OfInterface(first), OfEndpoint(In(1), FALSE), OfInterface(second), OfEndpoint(In(2), FALSE)>>
Config(k) ==
    CASE k = "storage"  -> <<OfInterface(Storage), OfEndpoint(BulkOut, TRUE), OfEndpoint(In(1), TRUE)>>
      [] k = "mouse"    -> HidConfig(Mouse, Keyboard)
      [] k = "keyboard" -> HidConfig(Keyboard, Mouse)
      [] k = "vendor"   -> <<OfInterface(Vendor), OfEndpoint(In(1), FALSE)>>

\* The n-th packet of its direction; left: how many more the transfer has for sure.
Packet(n, len, left) == [n |-> n, len |-> len, left |-> left]
NoPacket == Packet(0, 0, 0)
NoBuf == [avail |-> FALSE, full |-> FALSE, pid |-> 0, packet |-> NoPacket]

Message(type, a, p) == [type |-> type, addr |-> a, packet |-> p]

VARIABLES
    kind,    \* the attached device, which does not change
    m,       \* see above
    turn,    \* which half of core0_loop comes next
    reset,   \* the controller reports a bus reset
    bits,    \* BUFF_STATUS, as addresses
    inbox,   \* messages of the slave
    toSlave, \* messages to the slave
    slave,   \* the slave and the device
    host     \* the host

vars == <<kind, m, turn, reset, bits, inbox, toSlave, slave, host>>

ClosedEndpoint == [open |-> FALSE, at |-> 0, size |-> 0, pid |-> 0, buf |-> NoBuf]

\* idx, of the tables.
Idx(a) == IF a.in THEN a.num + 16 ELSE a.num
Indexes == {Idx(a) : a \in Addresses}

Init ==
    /\ kind \in Kinds
    /\ m = [eps |-> [a \in Addresses |-> ClosedEndpoint], next |-> 0,
            driver |-> [i \in Indexes |-> "none"], itf |-> [i \in Indexes |-> NoInterface],
            other |-> Address(0, FALSE), permit |-> FALSE, counted |-> FALSE, writing |-> FALSE,
            msgs |-> <<>>, panic |-> FALSE]
    /\ turn = "event" /\ reset = FALSE /\ bits = {}
    /\ inbox = <<>> /\ toSlave = <<>>
    /\ slave = [asked |-> {}, busy |-> FALSE, left |-> 0, data |-> 0,
                sent |-> 0, got |-> 0, last |-> 0]
    /\ host = [stage |-> "enumerating", reads |-> 0, resets |-> 0, described |-> FALSE,
               commands |-> 0, busy |-> FALSE, left |-> 0, pid |-> [a \in Addresses |-> 0],
               sent |-> 0, got |-> 0, last |-> 0]

-----------------------------------------------------------------------------
(* Endpoints and transfers.                                                *)

Panic(d) == [d EXCEPT !.panic = TRUE]
Send(d, msg) == [d EXCEPT !.msgs = Append(@, msg)]

\* An endpoint of size blocks takes the memory at the pointer, which goes on by step.
Allocate(d, a, size, step) ==
    [d EXCEPT !.eps[a] = [open |-> TRUE, at |-> d.next, size |-> size, pid |-> 0, buf |-> NoBuf],
              !.next = @ + step,
              !.panic = @ \/ d.next + step > MemUnits]

\* Fault: the pointer is not doubled for a bulk endpoint.
EdptOpenNarrow(d, e) == Allocate(d, e.addr, IF e.bulk THEN 2 ELSE 1, 1)

\* dcd_edpt_open_new with hw_endpoint_init and _hw_endpoint_alloc: twice the size for
\* a bulk endpoint.
EdptOpen(d, e) ==
    LET size == IF e.bulk THEN 2 ELSE 1 IN Allocate(d, e.addr, size, size)

Offer(d, a, p, pid) ==
    IF ~d.eps[a].open THEN Panic(d)
    ELSE [d EXCEPT !.eps[a].buf = [avail |-> TRUE, full |-> a.in, pid |-> d.eps[a].pid, packet |-> p],
                   !.eps[a].pid = pid]

\* Fault: next_pid counts on.
XferCounting(d, a, p) == Offer(d, a, p, d.eps[a].pid + 1)

\* dcd_edpt_xfer_new and dcd_edpt_xfer_partial for one packet: a transfer still
\* active is replaced, the PID turns; an endpoint without registers is no endpoint.
Xfer(d, a, p) == Offer(d, a, p, 1 - d.eps[a].pid)

\* knock_on_slave_edpt.
Knock(d, a) == Send(d, Message("ask", a, NoPacket))

-----------------------------------------------------------------------------
(* The drivers.                                                            *)

\* msc_spi: an OUT packet is gone, or an IN packet has come.
MscSpi(d, a, p) ==
    IF a.in THEN Xfer([d EXCEPT !.permit = TRUE, !.counted = TRUE], a, p)
    ELSE Xfer(Knock(d, d.other), a, NoPacket)

\* Fault: whether an IN packet follows depends on its length alone.
MscXferAsking(d, a, p) ==
    IF a.in THEN (IF p.len # FullLength THEN d ELSE Knock(d, a))
    ELSE Send([d EXCEPT !.permit = FALSE, !.counted = FALSE], Message("data", a, p))

\* msc_xfer: a command or its data is passed on; after an IN packet the next one is
\* asked for, unless it was the status.
MscXfer(d, a, p) ==
    IF ~a.in THEN Send([d EXCEPT !.permit = FALSE, !.counted = FALSE], Message("data", a, p))
    ELSE IF d.permit /\ ~(p.len = StatusLength /\ d.counted) THEN Knock(d, a)
    ELSE d

\* Fault: the next report is asked for as soon as this one is in the buffer.
HidSpiAsking(d, a, p) == Knock(Xfer(d, a, p), a)

\* hid_spi.
HidSpi(d, a, p) == Xfer(d, a, p)

\* Fault: as msc_xfer, only if permitted.
HidXferPermitted(d, a) == IF d.permit THEN Knock(d, a) ELSE d

\* hid_xfer.
HidXfer(d, a) == Knock(d, a)

\* register_driver_for_edpt.
RegisterDriver(d, a, itf) ==
    LET driven(name) == [d EXCEPT !.itf[Idx(a)] = itf, !.driver[Idx(a)] = name]
    IN  CASE itf.class = 3 -> driven("hid")
          [] itf.class = 8 /\ ~a.in -> Xfer(driven("storage"), a, NoPacket)
          [] itf.class = 8 /\ a.in -> [driven("storage") EXCEPT !.other = a]
          [] OTHER -> Panic([d EXCEPT !.itf[Idx(a)] = itf])

\* Fault: the other protocol of a boot interface is banned.
BannedMouse(itf) == itf = Mouse

\* check_comm.
Banned(itf) == itf.class = 3 /\ itf.protocol = 1

\* handle_spi_slave_event_with_driver.
SlaveData(d, a, p) ==
    CASE Banned(d.itf[Idx(a)]) -> Panic(d)
      [] ~Banned(d.itf[Idx(a)]) /\ d.driver[Idx(a)] = "storage" -> MscSpi(d, a, p)
      [] ~Banned(d.itf[Idx(a)]) /\ d.driver[Idx(a)] = "hid" -> HidSpi(d, a, p)
      [] OTHER -> Panic(d)

\* handle_device_xfer_complete_with_driver.
XferCompleted(d, a, p) ==
    CASE d.driver[Idx(a)] = "storage" -> MscXfer(d, a, p)
      [] d.driver[Idx(a)] = "hid" -> HidXfer(d, a)
      [] OTHER -> Panic(d)

\* Opens the endpoint e of interface itf and tells the slave.
OpenEndpoint(d, e, itf) ==
    LET r == RegisterDriver(EdptOpen(d, e), e.addr, itf)
    IN  IF r.panic THEN r ELSE Send(r, Message("open", e.addr, NoPacket))

\* Fault: every endpoint belongs to the first interface.
AtDescriptorFirst(w, x) ==
    IF x.type = "interface" THEN [w EXCEPT !.itf = IF @ = NoInterface THEN x.itf ELSE @]
    ELSE IF w.d.panic THEN w
    ELSE [w EXCEPT !.d = OpenEndpoint(@, x, w.itf)]

\* The walk over a configuration at descriptor x; w: what the master holds, and the
\* interface it has seen last.  Nothing is opened after error().
AtDescriptor(w, x) ==
    IF x.type = "interface" THEN [w EXCEPT !.itf = x.itf]
    ELSE IF w.d.panic THEN w
    ELSE [w EXCEPT !.d = OpenEndpoint(@, x, w.itf)]

\* handle_setup_response for a configuration: each endpoint belongs to the interface
\* before it.
HandleConfiguration(d) ==
    LET at[k \in 0..Len(Config(kind))] ==
            IF k = 0 THEN [d |-> d, itf |-> NoInterface] ELSE AtDescriptor(at[k-1], Config(kind)[k])
    IN  at[Len(Config(kind))].d

-----------------------------------------------------------------------------
(* core0_loop: handle_spi_slave_event ...                                  *)

Enact(d) ==
    /\ m' = [d EXCEPT !.msgs = <<>>]
    /\ toSlave' = toSlave \o d.msgs

SlaveEvent ==
    /\ ~m.panic
    /\ turn = "event"
    /\ turn' = "irq"
    /\ UNCHANGED <<kind, reset, bits, slave, host>>

NothingReceived ==
    /\ SlaveEvent
    /\ ~m.writing /\ inbox = <<>>
    /\ UNCHANGED <<m, toSlave, inbox>>

\* send_packet_upstream, of the aggregator.
SendUpstream ==
    /\ SlaveEvent
    /\ m.writing
    /\ m' = [m EXCEPT !.writing = FALSE]
    /\ UNCHANGED <<toSlave, inbox>>

Dequeue(type) ==
    /\ SlaveEvent
    /\ ~m.writing /\ inbox # <<>>
    /\ Head(inbox).type = type
    /\ inbox' = Tail(inbox)

\* The end of the answer to a request for the configuration ...
ConfigurationRead ==
    /\ Dequeue("config")
    /\ \E d \in {HandleConfiguration([m EXCEPT !.writing = TRUE])} : Enact(d)

\* ... or for the report descriptor of interface 1, which starts the endpoint 0x81.
ReportRead ==
    /\ Dequeue("report")
    /\ Enact(Knock([m EXCEPT !.writing = TRUE], In(1)))

\* A packet of another endpoint.
PacketReceived ==
    /\ Dequeue("packet")
    /\ \E d \in {SlaveData(m, Head(inbox).addr, Head(inbox).packet)} : Enact(d)

-----------------------------------------------------------------------------
(* ... and dcd_rp2040_irq_new.                                             *)

\* Fault: the pointer into packet memory stays.
BusResetKeeping(d) ==
    Send([d EXCEPT !.eps = [a \in Addresses |-> ClosedEndpoint]], Message("reset", In(0), NoPacket))

\* reset_non_control_endpoints and device_event_bus_reset.
BusReset(d) ==
    Send([d EXCEPT !.eps = [a \in Addresses |-> ClosedEndpoint], !.next = 0],
         Message("reset", In(0), NoPacket))

\* hw_handle_buff_status_bit: the buffer was emptied (IN) or filled (OUT).
BufferDone(d, a) ==
    IF d.eps[a].buf.full = a.in THEN Panic(d)
    ELSE XferCompleted(d, a, d.eps[a].buf.packet)

\* A poll that handles these of the buffers: OUT before IN.
PollOf(buffers, clear) ==
    LET Handle(d, a) == IF a \in buffers /\ ~d.panic THEN BufferDone(d, a) ELSE d
    IN  /\ ~m.panic
        /\ turn = "irq"
        /\ turn' = "event"
        /\ \E d0 \in {IF reset THEN BusReset(m) ELSE m} :
           \E d1 \in {Handle(d0, BulkOut)} :
           \E d2 \in {Handle(d1, In(1))} :
           \E d3 \in {Handle(d2, In(2))} : Enact(d3)
        /\ reset' = FALSE
        /\ bits' = bits \ clear
        /\ UNCHANGED <<kind, inbox, slave, host>>

\* hw_handle_buff_status: when an OUT buffer is done, EP1 IN has to wait for the next
\* poll (buf_status keeps its bit).
Due == IF BulkOut \in bits THEN bits \ {In(1)} ELSE bits

\* Fault: the bit of an OUT buffer is not cleared.
IrqKeepingOut == PollOf(Due, Due \ {BulkOut})

Irq == PollOf(Due, Due)

-----------------------------------------------------------------------------
(* The slave and the device.                                               *)

\* The slave takes a message.  Data takes the place of a request for IN data on EPX;
\* the device has the data and the slave says so.
SlaveTake ==
    /\ toSlave # <<>>
    /\ toSlave' = Tail(toSlave)
    /\ LET x == Head(toSlave)
           answer == CASE x.type = "data" -> <<Message("packet", x.addr, NoPacket)>>
                       [] x.type \in {"config", "report"} -> <<x>>
                       [] OTHER -> <<>>
           received == [slave EXCEPT !.asked = {}, !.busy = TRUE, !.left = x.packet.left,
                                     !.data = IF x.packet.len = CommandLength /\ x.packet.left = 0
                                              THEN MaxIn ELSE 0,
                                     !.got = @ + 1, !.last = x.packet.n]
       IN  /\ inbox' = inbox \o answer
           /\ slave' = CASE x.type = "data" -> received
                         [] x.type = "ask" -> [slave EXCEPT !.asked = @ \cup {x.addr}]
                         [] OTHER -> slave
    /\ UNCHANGED <<kind, m, turn, reset, bits, host>>

\* The endpoint a of the device returns a packet it was asked for.
Return(a, p) ==
    /\ a \in slave.asked
    /\ inbox' = Append(inbox, Message("packet", a, p))
    /\ UNCHANGED <<kind, m, turn, reset, bits, toSlave, host>>

\* Mass storage: a packet of data, or the status, which may come early.
DeviceReturn ==
    /\ slave.busy /\ slave.left = 0
    /\ \E over \in BOOLEAN, len \in DataLengths :
          /\ over \/ slave.data > 0
          /\ Return(In(1), Packet(slave.sent + 1, IF over THEN StatusLength ELSE len, IF over THEN 0 ELSE 1))
          /\ slave' = [slave EXCEPT !.asked = {}, !.busy = ~over, !.sent = @ + 1,
                                    !.data = IF over THEN 0 ELSE @ - 1]

\* HID: a report of either endpoint.
DeviceReport ==
    /\ kind # "storage"
    /\ slave.sent < MaxReports
    /\ \E a \in Addresses :
          /\ Return(a, Packet(slave.sent + 1, ReportLength, 0))
          /\ slave' = [slave EXCEPT !.asked = @ \ {a}, !.sent = @ + 1]

-----------------------------------------------------------------------------
(* The host.                                                               *)

ControlGoing ==
    \E x \in ToSet(toSlave) \cup ToSet(inbox) : x.type \in {"config", "report"}

\* A control request, which the slave answers when it has handled what came before.
Request(type) ==
    /\ ~ControlGoing /\ ~reset
    /\ toSlave' = Append(toSlave, Message(type, In(0), NoPacket))
    /\ UNCHANGED <<kind, m, turn, reset, bits, inbox, slave>>

ReadConfiguration ==
    /\ host.stage = "enumerating" \/ Rereads
    /\ host.reads < MaxReads
    /\ Request("config")
    /\ host' = [host EXCEPT !.reads = @ + 1]

HostReset ==
    /\ host.stage = "enumerating"
    /\ ~ControlGoing /\ ~reset
    /\ host.resets < MaxResets
    /\ reset' = TRUE
    /\ host' = [host EXCEPT !.resets = @ + 1, !.reads = 0]
    /\ UNCHANGED <<kind, m, turn, bits, inbox, toSlave, slave>>

\* SET_CONFIGURATION.
Configure ==
    /\ host.stage = "enumerating" /\ host.reads > 0
    /\ ~ControlGoing /\ ~reset
    /\ host' = [host EXCEPT !.stage = "operating"]
    /\ UNCHANGED <<kind, m, turn, reset, bits, inbox, toSlave, slave>>

ReadReport ==
    /\ host.stage = "operating" /\ ~host.described
    /\ kind \in {"mouse", "keyboard"}
    /\ Request("report")
    /\ host' = [host EXCEPT !.described = TRUE]

\* The host fills the OUT buffer; a packet with another PID would be dropped.
HostOut(len, left) ==
    LET buf == m.eps[BulkOut].buf
    IN  /\ buf.avail
        /\ buf.pid = host.pid[BulkOut]
        /\ m' = [m EXCEPT !.eps[BulkOut].buf =
                             [@ EXCEPT !.avail = FALSE, !.full = TRUE,
                                       !.packet = Packet(host.sent + 1, len, left)]]
        /\ bits' = bits \cup {BulkOut}
        /\ host' = [host EXCEPT !.sent = @ + 1, !.pid[BulkOut] = 1 - @, !.busy = TRUE, !.left = left,
                                !.commands = IF len = CommandLength THEN @ + 1 ELSE @]
        /\ UNCHANGED <<kind, turn, reset, inbox, toSlave, slave>>

HostCommand ==
    /\ host.stage = "operating" /\ ~host.busy
    /\ host.commands < MaxCommands
    /\ \E left \in 0..MaxOut : HostOut(CommandLength, left)

HostData == host.busy /\ host.left > 0 /\ HostOut(FullLength, host.left - 1)

\* The host reads an IN buffer; it drops a packet that has the PID of the last one.
HostIn ==
    \E a \in Addresses :
        LET buf == m.eps[a].buf
            new == buf.pid = host.pid[a]
        IN  /\ a.in /\ buf.avail
            /\ host.stage = "operating"
            /\ m' = [m EXCEPT !.eps[a].buf = [@ EXCEPT !.avail = FALSE, !.full = FALSE]]
            /\ bits' = bits \cup {a}
            /\ host' = IF ~new THEN host
                       ELSE [host EXCEPT !.pid[a] = 1 - @, !.got = @ + 1, !.last = buf.packet.n,
                                         !.busy = @ /\ buf.packet.left > 0]
            /\ UNCHANGED <<kind, turn, reset, inbox, toSlave, slave>>

-----------------------------------------------------------------------------
Core0 ==
    NothingReceived \/ SendUpstream \/ ConfigurationRead \/ ReportRead \/ PacketReceived \/ Irq
Host ==
    \/ ReadConfiguration \/ HostReset \/ Configure \/ ReadReport
    \/ HostCommand \/ HostData \/ HostIn

Next == Core0 \/ SlaveTake \/ DeviceReturn \/ DeviceReport \/ Host

Spec == Init /\ [][Next]_vars

\* core0_loop runs forever, the slave takes its messages, a storage device goes on
\* with a command, and so does the host.  Commands and reports need not come.
FairSpec ==
    Spec /\ WF_vars(Core0) /\ WF_vars(SlaveTake) /\ WF_vars(DeviceReturn)
         /\ WF_vars(HostData) /\ WF_vars(HostIn)

-----------------------------------------------------------------------------
(* Properties.                                                             *)

Pid == {0, 1}
Allowed == {"storage", "mouse"}
PacketSet == [n : Nat, len : {0, CommandLength, StatusLength, ReportLength, FullLength} \cup DataLengths,
              left : Nat]

\* Every variable has its type.
TypeOK ==
    /\ kind \in Kinds
    /\ \A a \in Addresses :
          m.eps[a] \in [open : BOOLEAN, at : Nat, size : 0..2, pid : Pid,
                        buf : [avail : BOOLEAN, full : BOOLEAN, pid : Pid, packet : PacketSet]]
    /\ m.next \in Nat /\ m.other \in Addresses \cup {Address(0, FALSE)}
    /\ m.driver \in [Indexes -> {"none", "hid", "storage"}]
    /\ m.itf \in [Indexes -> {NoInterface, Storage, Mouse, Keyboard, Vendor}]
    /\ {m.permit, m.counted, m.writing, m.panic, reset} \subseteq BOOLEAN /\ m.msgs = <<>>
    /\ turn \in {"event", "irq"} /\ bits \subseteq Addresses
    /\ \A x \in ToSet(inbox) : x.type \in {"config", "report", "packet"} /\ x.packet \in PacketSet
    /\ \A x \in ToSet(toSlave) :
          /\ x.type \in {"config", "report", "open", "reset", "ask", "data"}
          /\ x.packet \in PacketSet
    /\ slave \in [asked : SUBSET Addresses, busy : BOOLEAN, left : 0..MaxOut, data : 0..MaxIn,
                  sent : Nat, got : Nat, last : Nat]
    /\ host \in [stage : {"enumerating", "operating"}, reads : 0..MaxReads, resets : 0..MaxResets,
                 described : BOOLEAN, commands : 0..MaxCommands, busy : BOOLEAN, left : 0..MaxOut,
                 pid : [Addresses -> Pid], sent : Nat, got : Nat, last : Nat]

\* The packet memory of two open endpoints does not overlap and is there, however
\* often a configuration is read and the bus is reset (dcd_rp2040.c:70-75, 196-206).
MemoryDisjoint ==
    \A a, b \in Addresses :
        LET p == m.eps[a]
            q == m.eps[b]
        IN  p.open /\ q.open /\ a # b /\ ~m.panic =>
              /\ p.at + p.size <= q.at \/ q.at + q.size <= p.at
              /\ p.at + p.size <= MemUnits

\* The interface an open endpoint is judged by is the one that stands before it in
\* the configuration of the device (device_event_handlers.c:163, drivers.c:109): a
\* device with several interfaces is not judged by another one of them.
JudgedByOwner ==
    \A i, j \in DOMAIN Config(kind) :
        LET first == Config(kind)[i]
            e == Config(kind)[j]
        IN  /\ i < j /\ first.type = "interface" /\ e.type = "endpoint"
            /\ \A k \in i+1..j : Config(kind)[k].type = "endpoint"
            /\ m.eps[e.addr].open
            => m.itf[Idx(e.addr)] = first.itf

\* The firewall's promise: nothing a keyboard or an unknown device says reaches the
\* host, and no packet of it lies in a buffer the host could read.
NothingForbidden ==
    kind \notin Allowed => host.got = 0 /\ \A a \in Addresses : ~m.eps[a].buf.avail

\* The packets that were asked for, are on their way, or wait for the host: at most
\* one for each IN endpoint, although the requests come from three places
\* (device_event_handlers.c:203, drivers.c:33 and 74, drivers.c:89).  The buffer of an
\* endpoint is thus never filled again before it was read.
OneQuestion ==
    \A a \in {b \in Addresses : b.in} :
        Cardinality({k \in DOMAIN toSlave : toSlave[k].type = "ask" /\ toSlave[k].addr = a})
        + Cardinality({k \in DOMAIN inbox : inbox[k].type = "packet" /\ inbox[k].addr = a})
        + (IF a \in slave.asked THEN 1 ELSE 0) + (IF m.eps[a].buf.avail THEN 1 ELSE 0) <= 1

\* A mass storage device or a mouse never stops the firewall: no assertion fails, no
\* endpoint is used that is not open, and packet memory is enough for 14 readings of
\* the configuration between two bus resets (dcd_rp2040.c:75).
NoPanic == kind \in Allowed => ~m.panic

\* What the firewall is for the host and the device: a channel for each direction in
\* which every packet arrives once, in order and unchanged, although it stops in a
\* buffer, a message and a second buffer, each with PIDs of its own.
Pipe == INSTANCE MessageChannel WITH
    sent <- [master |-> host.sent, slave |-> slave.sent],
    delivered <- [master |-> host.got, slave |-> slave.got],
    last <- [master |-> host.last, slave |-> slave.last]
ImplementsPipe == Pipe!ChannelSpec

\* Every command comes to its status, whether the device returns all the data, some
\* of it or none: the next packet is asked for after data of every length but 13, and
\* after the status nothing is (drivers.c:60-65).
CommandEnds == host.busy ~> ~host.busy

\* A mouse whose report descriptor was read is asked for a report again and again,
\* whatever it has sent before (drivers.c:88-90).
MouseAsked == kind = "mouse" /\ host.described ~> In(1) \in slave.asked
=============================================================================
