--------------------------- MODULE DeviceControl ---------------------------
(***************************************************************************)
(* Control transfers on the master, the USB device of the firewall: core   *)
(* 0's loop (main.c), which in turn takes one message of the slave         *)
(* (handle_spi_slave_event) and polls the controller (dcd_rp2040_irq_new), *)
(* and, as environment, the controller's registers, the USB host and the   *)
(* slave that answers forwarded requests.                                  *)
(*                                                                         *)
(* ctl is what the driver holds and writes to the controller.  The         *)
(* operators on it (XferStart ... BufferDone) are the functions of the     *)
(* driver: they take ctl and return the next one.                          *)
(*   setup  the static setup of device_event_handlers.c                    *)
(*   pid    next_pid of endpoint 0, IN and OUT                             *)
(*   buf    the buffer control words of endpoint 0                         *)
(*   addr   dev_addr_ctrl                                                  *)
(*   msgs   the messages enqueued for the slave in this step               *)
(*   panic  error() was called or an assertion failed: core 0 has stopped  *)
(*                                                                         *)
(* A packet is its request, its number in the answer, and whether it ends  *)
(* it; packets fit endpoint 0, so a transfer on it is one packet.          *)
(* Requests for a configuration, whose answer opens endpoints, are in      *)
(* Drivers.                                                                *)
(***************************************************************************)
EXTENDS Integers, Sequences

CONSTANTS
    MaxRequests, \* bound: requests and bus resets of the host
    MaxPackets,  \* bound: packets of an answer
    Quick        \* whether core 0 polls between two steps of its partners

ASSUME DeviceControlAssumption ==
    MaxRequests \in Nat /\ MaxPackets \in Nat \ {0} /\ Quick \in BOOLEAN

Dir == {"in", "out"}
Ids == 0..MaxRequests
NewAddress == 1 \* wValue of the host's SET_ADDRESS

\* in: the data stage is IN; packets: how many the slave answers with.
Requests(id) ==
    [id : {id}, kind : {"device", "other"}, in : {TRUE}, packets : 1..MaxPackets]
    \cup [id : {id}, kind : {"address", "command"}, in : {FALSE}, packets : {1}]
    \cup {[id |-> id, kind |-> "qualifier", in |-> TRUE, packets |-> 0],
          [id |-> id, kind |-> "report", in |-> FALSE, packets |-> 0]}
NoRequest == [id |-> 0, kind |-> "other", in |-> TRUE, packets |-> 0]

\* The requests that are passed on to the slave.
Relayed(r) == r.kind \notin {"qualifier", "report"}

Packet(id, n, last) == [id |-> id, n |-> n, last |-> last]
Zlp(id) == Packet(id, 1, TRUE)
NoBuf == [avail |-> FALSE, full |-> FALSE, pid |-> 0, packet |-> Zlp(0)]

VARIABLES
    ctl,      \* see above
    turn,     \* which half of core0_loop comes next
    dir,      \* setup_response_dir
    response, \* bugger[0 .. len) of the aggregator, as packets
    packet,   \* usb_dpram->setup_packet
    status,   \* what the controller reports
    toSlave,  \* messages to the slave
    inbox,    \* messages of the slave
    slave,    \* the slave: what it is answering and how far it is
    host,     \* the host's transfer
    handled   \* history: the last answer handle_setup_response worked on

core0Vars == <<ctl, turn, dir, response, handled>>
slaveVars == <<toSlave, slave>>
vars == <<core0Vars, packet, status, slaveVars, inbox, host>>

Init ==
    /\ ctl = [setup |-> NoRequest, pid |-> [d \in Dir |-> 0],
              buf |-> [d \in Dir |-> NoBuf], addr |-> 0, msgs |-> <<>>, panic |-> FALSE]
    /\ turn = "event"
    /\ dir = "reading"
    /\ response = <<>>
    /\ packet = NoRequest
    /\ status = {}
    /\ toSlave = <<>> /\ inbox = <<>>
    /\ slave = [request |-> NoRequest, sent |-> 0]
    /\ host = [stage |-> "idle", request |-> NoRequest, pid |-> 0, got |-> <<>>,
               addr |-> 0, count |-> 0]
    /\ handled = [request |-> NoRequest, answer |-> <<>>]

-----------------------------------------------------------------------------
(* The driver.                                                             *)

\* Fault: next_pid counts on instead of turning.
XferStartCounting(c, d, p) ==
    [c EXCEPT !.pid[d] = @ + 1,
              !.buf[d] = [avail |-> TRUE, full |-> d = "in", pid |-> c.pid[d], packet |-> p]]

\* hw_endpoint_xfer_start and prepare_ep_buffer on endpoint 0: a transfer still
\* active is replaced.
XferStart(c, d, p) ==
    [c EXCEPT !.pid[d] = 1 - @,
              !.buf[d] = [avail |-> TRUE, full |-> d = "in", pid |-> c.pid[d], packet |-> p]]

Send(c, msg) == [c EXCEPT !.msgs = Append(@, msg)]
Message(type, r) == [type |-> type, request |-> r]

\* reset_ep0_pid.
ResetPid(c) == [c EXCEPT !.pid = [d \in Dir |-> 1]]

\* device_event_bus_reset, with the address cleared before it.
BusReset(c) == Send([c EXCEPT !.addr = 0], Message("reset", NoRequest))

\* Fault: the PIDs are not reset for a new setup.
SetupReceivedSamePid(c) ==
    Send([c EXCEPT !.setup = packet],
         Message(IF packet.kind = "address" THEN "address" ELSE "setup", packet))

\* Fault: the address changes when SET_ADDRESS is received.
SetupReceivedAddress(c) ==
    [SetupReceivedSamePid(ResetPid(c)) EXCEPT
        !.addr = IF packet.kind = "address" THEN NewAddress ELSE @]

\* dcd_event_setup_received_new: what becomes of each kind of request.
SetupReceived(c) ==
    LET s == [ResetPid(c) EXCEPT !.setup = packet]
    IN  CASE packet.kind = "address"   -> Send(s, Message("address", packet))
          [] packet.kind = "qualifier" -> XferStart(s, "in", Zlp(packet.id))
          [] packet.kind = "report"    -> XferStart(s, "out", Zlp(packet.id))
          [] OTHER                     -> Send(s, Message("setup", packet))

\* hw_handle_buff_status_bit of endpoint 0 with sync_ep_buffer, which demands that
\* a buffer was emptied (IN) or filled (OUT), and dcd_event_xfer_complete_new.
BufferDone(c, d) ==
    [c EXCEPT !.panic = @ \/ c.buf[d].full = (d = "in"),
              !.addr = IF d = "in" /\ c.setup.kind = "address" THEN NewAddress ELSE @]

\* What the master's core 0 does in a step: ctl' without the messages it sent.
Enact(c) ==
    /\ ctl' = [c EXCEPT !.msgs = <<>>]
    /\ toSlave' = toSlave \o c.msgs

-----------------------------------------------------------------------------
(* core0_loop: handle_spi_slave_event ...                                  *)

SlaveEvent ==
    /\ ~ctl.panic
    /\ turn = "event"
    /\ turn' = "irq"

NothingReceived ==
    /\ SlaveEvent
    /\ dir = "reading" /\ inbox = <<>>
    /\ UNCHANGED <<ctl, dir, response, handled, packet, status, slaveVars, inbox, host>>

\* Fault: len is not cleared.
SendUpstreamKeeping ==
    /\ SlaveEvent
    /\ dir = "writing"
    /\ dir' = "reading"
    /\ UNCHANGED <<ctl, response, handled, packet, status, slaveVars, inbox, host>>

\* Fault: the OUT buffer of the status stage is started a second time.
SendUpstreamAgain ==
    /\ SlaveEvent
    /\ dir = "writing"
    /\ response' = <<>>
    /\ dir' = "reading"
    /\ Enact(IF ctl.setup.in THEN XferStart(ctl, "out", Zlp(ctl.setup.id)) ELSE ctl)
    /\ UNCHANGED <<handled, packet, status, slave, inbox, host>>

\* send_packet_upstream empties the aggregator.
SendUpstream ==
    /\ SlaveEvent
    /\ dir = "writing"
    /\ response' = <<>>
    /\ dir' = "reading"
    /\ UNCHANGED <<ctl, handled, packet, status, slaveVars, inbox, host>>

\* A packet of an answer: register_response.
Register(p) ==
    /\ dir = "reading" /\ inbox # <<>>
    /\ p = Head(inbox)
    /\ inbox' = Tail(inbox)
    /\ response' = Append(response, p)

\* Fault: the packet is only kept, not passed on to the host.
ResponseHeld ==
    /\ SlaveEvent
    /\ \E p \in {inbox[i] : i \in 1..Len(inbox)} : Register(p) /\ ~p.last
    /\ UNCHANGED <<ctl, dir, handled, packet, status, slaveVars, host>>

Response ==
    /\ SlaveEvent
    /\ \E p \in {inbox[i] : i \in 1..Len(inbox)} :
          /\ Register(p)
          /\ ~p.last
          /\ Enact(XferStart(ctl, "in", p))
    /\ UNCHANGED <<dir, handled, packet, status, slave, host>>

\* Fault: no OUT buffer for the status stage.
LastResponseNoStatus ==
    /\ SlaveEvent
    /\ \E p \in {inbox[i] : i \in 1..Len(inbox)} :
          Register(p) /\ p.last /\ Enact(XferStart(ctl, "in", p))
    /\ dir' = "writing"
    /\ handled' = [request |-> ctl.setup, answer |-> response']
    /\ UNCHANGED <<packet, status, slave, host>>

\* The last packet: handle_setup_response, and the OUT buffer for the status stage.
LastResponse ==
    /\ SlaveEvent
    /\ \E p \in {inbox[i] : i \in 1..Len(inbox)} :
          /\ Register(p)
          /\ p.last
          /\ LET sent == XferStart(ctl, "in", p)
                 told == IF ctl.setup.kind = "device"
                         THEN Send(sent, Message("packetsize", ctl.setup)) ELSE sent
             IN  Enact(IF ctl.setup.in THEN XferStart(told, "out", Zlp(p.id)) ELSE told)
    /\ dir' = "writing"
    /\ handled' = [request |-> ctl.setup, answer |-> response']
    /\ UNCHANGED <<packet, status, slave, host>>

\* ... and dcd_rp2040_irq_new: the reset, the setup, EP0 OUT, then EP0 IN.
Irq ==
    /\ ~ctl.panic
    /\ turn = "irq"
    /\ turn' = "event"
    /\ LET Handle(bit, done, c) == IF bit \in status THEN done ELSE c
           reset == Handle("reset", BusReset(ctl), ctl)
           begun == Handle("setup", SetupReceived(reset), reset)
           read == Handle("out", BufferDone(begun, "out"), begun)
       IN  Enact(Handle("in", BufferDone(read, "in"), read))
    /\ status' = {}
    /\ UNCHANGED <<dir, response, handled, packet, slave, inbox, host>>

-----------------------------------------------------------------------------
(* The slave: it answers the latest request with the packets it has.       *)

\* Quick: what one partner does reaches the other before it does the next thing.
Settled == Quick => status = {} /\ inbox = <<>> /\ ~ctl.buf["in"].avail

SlaveTake ==
    /\ toSlave # <<>>
    /\ toSlave' = Tail(toSlave)
    /\ slave' = IF Head(toSlave).type \in {"setup", "address"}
                THEN [request |-> Head(toSlave).request, sent |-> 0] ELSE slave
    /\ UNCHANGED <<core0Vars, packet, status, inbox, host>>

SlaveAnswer ==
    /\ Settled
    /\ slave.sent < slave.request.packets
    /\ LET n == slave.sent + 1
       IN  /\ inbox' = Append(inbox, Packet(slave.request.id, n, n = slave.request.packets))
           /\ slave' = [slave EXCEPT !.sent = n]
    /\ UNCHANGED <<core0Vars, packet, status, toSlave, host>>

-----------------------------------------------------------------------------
(* The host.                                                               *)

\* A new request; a device that does not have the host's address does not see it.
HostSetup(r) ==
    /\ Settled
    /\ host.stage = "idle"
    /\ host.count < MaxRequests
    /\ host.addr = ctl.addr
    /\ packet' = r
    /\ status' = status \cup {"setup"}
    /\ host' = [host EXCEPT !.request = r, !.pid = 1, !.got = <<>>, !.count = @ + 1,
                            !.stage = IF r.in THEN "data"
                                      ELSE IF r.kind = "report" THEN "report" ELSE "status"]
    /\ UNCHANGED <<core0Vars, slaveVars, inbox>>

\* The host reads endpoint 0; it drops a packet that has the PID of the last one.
HostIn ==
    /\ host.stage \in {"data", "status"}
    /\ ctl.buf["in"].avail
    /\ LET p == ctl.buf["in"].packet
           new == ctl.buf["in"].pid = host.pid
           over == new /\ p.last
       IN  host' = [host EXCEPT
                      !.pid = IF new THEN 1 - @ ELSE @,
                      !.got = IF new THEN Append(@, p) ELSE @,
                      !.stage = IF ~over THEN @ ELSE IF @ = "data" THEN "ack" ELSE "idle",
                      !.addr = IF over /\ host.request.kind = "address" THEN NewAddress ELSE @]
    /\ ctl' = [ctl EXCEPT !.buf["in"].avail = FALSE, !.buf["in"].full = FALSE]
    /\ status' = status \cup {"in"}
    /\ UNCHANGED <<turn, dir, response, handled, packet, slaveVars, inbox>>

\* The status stage of an IN request, or the data of a report.
HostOut ==
    /\ host.stage \in {"ack", "report"}
    /\ ctl.buf["out"].avail
    /\ host' = [host EXCEPT !.stage = IF @ = "ack" THEN "idle" ELSE "status"]
    /\ ctl' = [ctl EXCEPT !.buf["out"].avail = FALSE, !.buf["out"].full = TRUE]
    /\ status' = status \cup {"out"}
    /\ UNCHANGED <<turn, dir, response, handled, packet, slaveVars, inbox>>

HostReset ==
    /\ Settled
    /\ host.stage = "idle"
    /\ host.count < MaxRequests
    /\ status' = status \cup {"reset"}
    /\ host' = [host EXCEPT !.addr = 0, !.count = @ + 1]
    /\ UNCHANGED <<core0Vars, packet, slaveVars, inbox>>

\* The host's timer runs out when nothing can happen any more.
HostGiveUp ==
    /\ host.stage # "idle"
    /\ ~Relayed(host.request)
    /\ status = {}
    /\ ~ctl.buf[IF host.stage \in {"data", "status"} THEN "in" ELSE "out"].avail
    /\ host' = [host EXCEPT !.stage = "idle"]
    /\ UNCHANGED <<core0Vars, packet, status, slaveVars, inbox>>

-----------------------------------------------------------------------------
Core0 == NothingReceived \/ SendUpstream \/ Response \/ LastResponse \/ Irq
Slave == SlaveTake \/ SlaveAnswer
Host == HostIn \/ HostOut \/ HostReset \/ HostGiveUp

Next ==
    \/ Core0 \/ Slave \/ Host
    \/ \E r \in Requests(host.count + 1) : HostSetup(r)

Spec == Init /\ [][Next]_vars

\* core0_loop runs forever, the slave takes its messages and answers, and a host
\* in the middle of a request goes on with it.  Requests need not come.
FairSpec ==
    /\ Spec
    /\ WF_vars(Core0)
    /\ WF_vars(SlaveTake)
    /\ WF_vars(SlaveAnswer)
    /\ WF_vars(HostIn)
    /\ WF_vars(HostOut)

-----------------------------------------------------------------------------
(* Properties.                                                             *)

PacketSet == [id : Ids, n : 1..MaxPackets, last : BOOLEAN]
Bit == {0, 1}
RequestSet == {NoRequest} \cup UNION {Requests(id) : id \in Ids}
MessageSet == [type : {"reset", "setup", "address", "packetsize"}, request : RequestSet]

\* Every variable has its type.
TypeOK ==
    /\ ctl \in [setup : RequestSet, pid : [Dir -> Bit], addr : {0, NewAddress},
                msgs : {<<>>}, panic : BOOLEAN,
                buf : [Dir -> [avail : BOOLEAN, full : BOOLEAN, pid : Bit, packet : PacketSet]]]
    /\ turn \in {"event", "irq"} /\ dir \in {"reading", "writing"}
    /\ \A s \in {response, inbox, host.got, handled.answer} :
          \A i \in 1..Len(s) : s[i] \in PacketSet
    /\ packet \in RequestSet /\ handled.request \in RequestSet
    /\ status \subseteq Dir \cup {"reset", "setup"}
    /\ \A i \in 1..Len(toSlave) : toSlave[i] \in MessageSet
    /\ slave.request \in RequestSet /\ slave.sent \in 0..slave.request.packets
    /\ host.stage \in {"idle", "data", "ack", "status", "report"}
    /\ host.request \in RequestSet /\ host.addr \in {0, NewAddress}
    /\ host.count \in 0..MaxRequests /\ host.pid \in Bit

\* The first n packets of the answer to request r.
Answer(r, n) == [i \in 1..n |-> Packet(r.id, i, i = r.packets)]

\* The host reads the packets of the answer to its own request, each once and in
\* order: none is overwritten in endpoint 0 before it is read
\* (rp2040_usb.c:212-219) and none is dropped for its PID.
HostReadsAnswer ==
    Relayed(host.request) => host.got = Answer(host.request, Len(host.got))

\* What handle_setup_response works on (device_event_handlers.c:122-124) is the
\* whole answer to the request in setup, with nothing left of an earlier one in
\* the aggregator (setup_response_aggregator.c:21-37).
AnswerHandledWhole ==
    handled.answer = Answer(handled.request, handled.request.packets)

\* The PID of a buffer the host is about to use is the one it expects, although
\* next_pid turns when a transfer starts and is reset by a poll that comes after
\* the setup packet (dcd_rp2040.c:186-194).
PidAgrees ==
    /\ host.stage \in {"data", "status"} /\ ctl.buf["in"].avail =>
          ctl.buf["in"].pid = host.pid
    /\ host.stage = "ack" /\ ctl.buf["out"].avail => ctl.buf["out"].pid = 1

\* The address register changes only to the address the host has begun to use:
\* after the status stage of SET_ADDRESS and after a reset, never in between
\* (device_event_handlers.c:211-217, dcd_rp2040.c:221).
AddressFollowsHost == [][ctl'.addr # ctl.addr => ctl'.addr = host.addr]_vars

\* No assertion fails: rp2040_usb.c:285-287, "If we are TX, we have successfully
\* sent some data", so the IN buffer is not full when its completion is handled,
\* and the OUT buffer is not empty (rp2040_usb.c:295-298).
NoPanic == ~ctl.panic

\* Every request that is relayed is answered to its end: the host reads the data
\* and finds endpoint 0 ready for the status stage.
Completed == host.stage # "idle" /\ Relayed(host.request) ~> host.stage = "idle"
=============================================================================
