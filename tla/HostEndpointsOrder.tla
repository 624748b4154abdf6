------------------------ MODULE HostEndpointsOrder ------------------------
(***************************************************************************)
(* Proofs about HostEndpoints: packets go to the master under the address  *)
(* of their endpoint, once each, PIDs agree and no assertion fails.  They  *)
(* need what the constants of HostEndpoints are about: Orderly.            *)
(*                                                                         *)
(* The invariant says where a control transfer is (ControlInv), and next   *)
(* to it a command of mass storage (CommandInv) or the report of each      *)
(* interrupt endpoint (ReportInv): in each place, what the driver, the     *)
(* controller, the device and both queues hold.                            *)
(***************************************************************************)
EXTENDS HostEndpointsProofs

USE HostEndpointsAssumption

\* Transfers through EPX keep apart, a device sends one report for each knock and as much
\* as it was asked for, the pool has more slots than a device has endpoints, and the number
\* of data packets of a command is even.
Orderly ==
    /\ Apart /\ Paced /\ ~ShortReports
    /\ Slots > 2
    /\ \A n \in OutPackets : n % 2 = 0

-----------------------------------------------------------------------------
(* What is in the queues.                                                  *)

Ctl == Control(TRUE)
Addr(k) == device.config[k].addr

\* The endpoints a message in the inbox is for, and those a packet in the outbox is from.
Asked == {inbox[k].addr : k \in {j \in DOMAIN inbox : inbox[j].type = "data"}}
From(s) == {s[k].addr : k \in DOMAIN s}
Answers == From(outbox)

\* An endpoint is opened before a message for it is taken.
InboxInv ==
    /\ \A j, k \in DOMAIN inbox :
          inbox[j].type = "data" /\ inbox[k].type = "data" /\ inbox[j].addr = inbox[k].addr => j = k
    /\ \A k \in DOMAIN inbox : inbox[k].type = "data" =>
          \E i \in {1, 2} :
             /\ inbox[k] = Ask(Addr(i))
             /\ drv.pool[i].conf \/ \E j \in 1..(k-1) : inbox[j] = Open(device.config[i])
    /\ \A k \in DOMAIN inbox : inbox[k].type = "setup" => Len(inbox) = 1
    /\ device = Storage => \A j, k \in DOMAIN inbox :
          inbox[j] = Ask(BulkIn) /\ inbox[k] = Ask(BulkOut) => j < k

\* Packets of different endpoints, each with data of its own.
Proper(s) ==
    /\ \A j, k \in DOMAIN s : s[j].addr = s[k].addr => j = k
    /\ \A k \in DOMAIN s :
          /\ s[k].addr \in {Ctl, Addr(1), Addr(2)}
          /\ s[k].addr.in /\ s[k].len > 0 => s[k].src = s[k].addr

OutboxInv == Proper(outbox)

\* What is never touched.
DriverInv ==
    /\ ~drv.panic
    /\ drv.pool[0].mps = device.ask /\ drv.pool[0].inum = NotInterrupt
    /\ \A k \in {1, 2} : ~drv.pool[k].conf => drv.pool[k].pid = 0
    /\ \A i \in 3..Slots : ~drv.bufs[i].avail
    /\ drv.active \in {0, 1, 2}
    /\ bits \subseteq {0, 1, 2}
    /\ device = Storage => bits \subseteq {0}
    /\ dev.pid[Ctl] = 1 /\ dev.left \in Nat

-----------------------------------------------------------------------------
(* Where a control transfer is.                                            *)

EpxIdle(d) ==
    /\ d.trans.kind # "setup" /\ (d.trans.kind \in {"in", "out"} => d.trans.num # 0)
    /\ d.sie # "setup" /\ d.pool[0].xfer = 0

\* No control transfer, or its answer waits for the master.
Idle ==
    /\ EpxIdle(drv)
    /\ dev.stage = "idle"
    /\ 0 \in bits => drv.active # 0
    /\ \A k \in DOMAIN inbox : inbox[k].type # "setup"
    /\ drivers.control <=> Ctl \in Answers
    /\ drivers.control => inbox = <<>> /\ drivers.phase = "idle"

InProgress == drivers.control /\ Ctl \notin Answers /\ drivers.phase = "idle"

Requested ==
    /\ InProgress
    /\ EpxIdle(drv)
    /\ dev.stage = "idle"
    /\ 0 \notin bits /\ ~transDone
    /\ Len(inbox) = 1 /\ inbox[1].type = "setup"

SettingUp(d) ==
    /\ d.sie = "setup" /\ d.level = 0 /\ d.active = 0
    /\ d.pool[0].addr = Control(FALSE) /\ d.pool[0].xfer = 0

SetupSent ==
    /\ InProgress /\ inbox = <<>> /\ dev.stage = "idle"
    /\ 0 \notin bits /\ ~transDone
    /\ SettingUp(drv) /\ drv.trans = [kind |-> "setup", num |-> 0]

Asking == IF drv.reads THEN "data" ELSE "status"

SetupDone ==
    /\ InProgress /\ inbox = <<>> /\ dev.stage = Asking
    /\ 0 \notin bits /\ transDone
    /\ SettingUp(drv) /\ drv.trans = NoTrans

\* The controller has been told to read the answer.
Reading(d) ==
    /\ d.sie = "in" /\ d.level = 1 /\ d.active = 0
    /\ d.pool[0].addr = Ctl /\ d.pool[0].xfer = 0 /\ d.pool[0].user
    /\ d.reads => d.pool[0].rem = 0
AnswerDue(d) == Reading(d) /\ d.trans = [kind |-> "in", num |-> 0] /\ d.bufs[0].pid = 1

AnswerAwaited ==
    /\ InProgress /\ inbox = <<>> /\ dev.stage = Asking
    /\ 0 \notin bits
    /\ AnswerDue(drv)

AnswerCame ==
    /\ InProgress /\ inbox = <<>> /\ dev.stage = IF drv.reads THEN "ack" ELSE "idle"
    /\ 0 \in bits
    /\ Reading(drv) /\ drv.trans = NoTrans
    /\ drv.bufs[0].full /\ drv.bufs[0].src = Ctl /\ drv.bufs[0].len = IF drv.reads THEN 1 ELSE 0

\* The master may have the answer before the device has seen the acknowledgement.
Passed ==
    /\ drivers.phase = "idle" /\ Asked = {}
    /\ \A k \in DOMAIN inbox : inbox[k].type # "setup"
    /\ drivers.control <=> Ctl \in Answers
    /\ drivers.control => inbox = <<>>

Acking(d) ==
    /\ d.sie = "out" /\ d.level = 2 /\ d.active = 0
    /\ d.pool[0].addr = Control(FALSE) /\ d.pool[0].rem = 0 /\ d.pool[0].xfer = 0
AckDue(d) == Acking(d) /\ d.trans = [kind |-> "out", num |-> 0]

AckAwaited ==
    /\ Passed /\ dev.stage = "ack"
    /\ 0 \notin bits
    /\ AckDue(drv)

Acked ==
    /\ Passed /\ dev.stage = "idle"
    /\ 0 \in bits
    /\ Acking(drv) /\ drv.trans = NoTrans
    /\ ~drv.bufs[0].full /\ drv.bufs[0].len = 0

ControlInv ==
    \/ Idle \/ Requested \/ SetupSent \/ SetupDone \/ AnswerAwaited \/ AnswerCame
    \/ AckAwaited \/ Acked

-----------------------------------------------------------------------------
(* Where a report of an interrupt endpoint is.                             *)

Turned(p, b) == IF b THEN 1 - p ELSE p

\* A request of len bytes turns the PID.
Flips(len, mps) == len = 0 \/ (1 + (len - 1) \div mps) % 2 = 1
Rest(len, mps) == IF len <= mps THEN 0 ELSE len - mps

\* Endpoint k has been asked for a report; the next PID of the device is p.
Started(d, k, p) ==
    LET ep == d.pool[k]
    IN  /\ ep.conf /\ ep.user
        /\ ep.rem = Rest(device.ask, ep.mps)
        /\ ep.pid = Turned(p, Flips(device.ask, ep.mps))

ReportNone(k) ==
    /\ Addr(k) \notin Asked /\ Addr(k) \notin Answers /\ k \notin bits
    /\ Addr(k) \notin drivers.want
    /\ drv.pool[k].pid = dev.pid[Addr(k)]

ReportAsked(k) ==
    /\ Addr(k) \in Asked /\ Addr(k) \notin Answers /\ k \notin bits
    /\ Addr(k) \in drivers.want
    /\ drv.pool[k].pid = dev.pid[Addr(k)]

ReportAwaited(k) ==
    /\ Addr(k) \notin Asked /\ Addr(k) \notin Answers /\ k \notin bits
    /\ Addr(k) \in drivers.want
    /\ Started(drv, k, dev.pid[Addr(k)])
    /\ drv.bufs[k].pid = dev.pid[Addr(k)]

ReportCame(k) ==
    /\ Addr(k) \notin Asked /\ Addr(k) \notin Answers /\ k \in bits
    /\ Addr(k) \in drivers.want
    /\ Started(drv, k, 1 - dev.pid[Addr(k)])
    /\ drv.bufs[k].full /\ drv.bufs[k].src = Addr(k)
    /\ device.ask > drv.pool[k].mps => drv.bufs[k].len = drv.pool[k].mps

ReportPassed(k) ==
    /\ Addr(k) \notin Asked /\ Addr(k) \in Answers /\ k \notin bits
    /\ Addr(k) \in drivers.want
    /\ drv.pool[k].pid = dev.pid[Addr(k)]

ReportPlaced(k) ==
    ReportNone(k) \/ ReportAsked(k) \/ ReportAwaited(k) \/ ReportCame(k) \/ ReportPassed(k)

ReportInv ==
    /\ ~dev.busy /\ drivers.phase = "idle"
    /\ drv.trans.kind = "out" => drv.trans.num = 0
    /\ 0 \in bits => drv.active = 0
    /\ ReportPlaced(1) /\ ReportPlaced(2)

-----------------------------------------------------------------------------
(* Where a command of mass storage is.                                     *)

Odd(n) == n % 2 = 1

\* EPX's buffer is not used by a bulk endpoint.
NoBulk == (drv.trans.kind \in {"in", "out"} => drv.trans.num = 0) /\ (0 \in bits => drv.active = 0)

OutPid == drv.pool[1].pid = dev.pid[BulkOut]
\* The PID of the IN endpoint, which turns each time it is asked.
InPid(n) == drv.pool[2].pid = Turned(dev.pid[BulkIn], Odd(n))

\* The IN endpoint is asked, before data for the command arrives or to be answered.
InGoing ==
    /\ 0 \notin bits
    /\ drv.active = 2 /\ drv.trans = [kind |-> "in", num |-> BulkIn.num]
    /\ drv.pool[2].conf /\ drv.pool[2].user /\ drv.pool[2].rem = 0
    /\ drv.bufs[0].pid = Turned(dev.pid[BulkIn], Odd(dev.left))
    /\ InPid(dev.left + 1)

NoCommand ==
    /\ drivers.phase = "idle" /\ ~dev.busy
    /\ Asked = {} /\ Answers \subseteq {Ctl}
    /\ NoBulk /\ OutPid /\ InPid(0)

Sent ==
    /\ drivers.phase = "sent" /\ BulkOut \in drivers.want
    /\ dev.busy => dev.left > 0

\* The message is in the inbox; that of the IN endpoint before it, perhaps, or taken.
OutQueued ==
    /\ Sent
    /\ BulkOut \in Asked /\ Answers = {}
    /\ OutPid
    /\ \/ ~dev.busy /\ BulkIn \notin Asked /\ NoBulk /\ InPid(0)
       \/ dev.busy /\ BulkIn \in Asked /\ NoBulk /\ InPid(dev.left)
       \/ dev.busy /\ BulkIn \notin Asked /\ InGoing

OutGoing ==
    /\ Sent
    /\ Asked = {} /\ Answers = {} /\ 0 \notin bits
    /\ drv.active = 1 /\ drv.trans = [kind |-> "out", num |-> BulkOut.num]
    /\ drv.pool[1].conf /\ drv.pool[1].rem = 0
    /\ drv.bufs[0].pid = dev.pid[BulkOut] /\ drv.pool[1].pid = 1 - dev.pid[BulkOut]
    /\ IF dev.busy THEN InPid(dev.left + 1) ELSE InPid(0)

OutGone ==
    /\ drivers.phase = "sent" /\ BulkOut \in drivers.want /\ dev.busy
    /\ Asked = {} /\ Answers = {} /\ 0 \in bits
    /\ drv.active = 1 /\ drv.trans = NoTrans
    /\ drv.pool[1].conf /\ drv.pool[1].rem = 0
    /\ ~drv.bufs[0].full
    /\ OutPid /\ InPid(dev.left)

OutPassed ==
    /\ drivers.phase = "sent" /\ BulkOut \in drivers.want /\ dev.busy
    /\ Asked = {} /\ Answers = {BulkOut} /\ NoBulk
    /\ OutPid /\ InPid(dev.left)

Due == drivers.phase = "asked" /\ BulkIn \in drivers.want /\ OutPid

InQueued ==
    /\ Due /\ dev.busy
    /\ Asked = {BulkIn} /\ Answers = {} /\ NoBulk /\ InPid(dev.left)

InAwaited ==
    /\ Due /\ dev.busy
    /\ Asked = {} /\ Answers = {} /\ InGoing

InCame ==
    /\ Due /\ dev.left = 0
    /\ Asked = {} /\ Answers = {} /\ 0 \in bits
    /\ drv.active = 2 /\ drv.trans = NoTrans
    /\ drv.pool[2].conf /\ drv.pool[2].user /\ drv.pool[2].rem = 0
    /\ drv.bufs[0].full /\ drv.bufs[0].src = BulkIn
    /\ InPid(0)

InPassed ==
    /\ Due /\ dev.left = 0
    /\ Asked = {} /\ Answers = {BulkIn} /\ NoBulk /\ InPid(0)

CommandInv ==
    \/ NoCommand \/ OutQueued \/ OutGoing \/ OutGone \/ OutPassed
    \/ InQueued \/ InAwaited \/ InCame \/ InPassed

\* Commands are for a device whose configuration was read.
ConfiguredInv == drivers.phase # "idle" => drivers.configured

OrderInv ==
    /\ ConfiguredInv
    /\ InboxInv /\ OutboxInv /\ DriverInv /\ ControlInv
    /\ IF device = Storage THEN CommandInv ELSE ReportInv

-----------------------------------------------------------------------------
(* What the functions of the driver return.                                *)

\* Nothing but slot i, buffer b and what is passed on differs.
Aside(d, e, i, b) ==
    /\ \A k \in 0..Slots : k # i => e.pool[k] = d.pool[k]
    /\ \A k \in 0..Slots : k # b => e.bufs[k] = d.bufs[k]
    /\ e.reads = d.reads /\ e.panic = d.panic

Engine(d, e) == e.active = d.active /\ e.level = d.level /\ e.sie = d.sie /\ e.trans = d.trans

\* Both are the same endpoint.
Likewise(ep, fp) ==
    fp.addr = ep.addr /\ fp.mps = ep.mps /\ fp.inum = ep.inum /\ fp.conf = ep.conf

\* A request of any length leaves a number, and turns a PID into a PID.
LEMMA Resting ==
    ASSUME NEW len \in Nat, NEW mps \in Nat, NEW p \in Pid, NEW b \in BOOLEAN
    PROVE  Rest(len, mps) \in Nat /\ Turned(p, b) \in Pid /\ Turned(1 - p, b) = 1 - Turned(p, b)
  BY DEF Rest, Turned, Pid

\* The endpoint in slot i offers its buffer.
LEMMA Offered ==
    ASSUME NEW d \in DrvSet, NEW i \in 0..Slots, NEW left \in Nat, NEW pid \in Pid,
           NEW b, b = BufOf(d.pool[i]), NEW e, e = Offer(d, i, left, pid)
    PROVE  /\ e \in DrvSet /\ Aside(d, e, i, b) /\ Engine(d, e)
           /\ e.bugger = d.bugger /\ e.out = d.out
           /\ Likewise(d.pool[i], e.pool[i])
           /\ e.pool[i].rem = left /\ e.pool[i].pid = pid
           /\ e.pool[i].xfer = d.pool[i].xfer /\ e.pool[i].user = d.pool[i].user
           /\ e.bufs[b].pid = d.pool[i].pid /\ e.bufs[b].avail
<1> DEFINE ep == d.pool[i]
           old == d.bufs[b]
           new == [ep EXCEPT !.rem = left, !.pid = pid]
           buf == [old EXCEPT !.avail = TRUE, !.len = ep.rem, !.pid = ep.pid,
                              !.full = ~ep.addr.in, !.last = left = 0]
<1>1. ep \in EpSet /\ b \in 0..Slots /\ old \in BufSet
  BY OwnBuf DEF DrvSet
<1>2. /\ Likewise(ep, new) /\ new.rem = left /\ new.pid = pid
      /\ new.xfer = ep.xfer /\ new.user = ep.user
  BY <1>1 DEF EpSet, Likewise
<1>3. buf.pid = ep.pid /\ buf.avail
  BY <1>1 DEF BufSet
<1>4. e = [d EXCEPT !.pool[i] = new, !.bufs[b] = buf]
  BY DEF Offer
<1> HIDE DEF new, buf
<1>5. e.pool = [d.pool EXCEPT ![i] = new] /\ e.bufs = [d.bufs EXCEPT ![b] = buf]
  BY <1>4 DEF DrvSet
<1>6. Engine(d, e) /\ e.bugger = d.bugger /\ e.out = d.out /\ e.reads = d.reads /\ e.panic = d.panic
  BY <1>4 DEF DrvSet, Engine
<1>7. d.pool \in [0..Slots -> EpSet] /\ d.bufs \in [0..Slots -> BufSet]
  BY DEF DrvSet
<1>8. Aside(d, e, i, b) /\ e.pool[i] = new /\ e.bufs[b] = buf
  BY <1>1, <1>5, <1>6, <1>7 DEF Aside
<1>9. e \in DrvSet
  BY Offers DEF Keeps
<1> QED BY <1>2, <1>3, <1>6, <1>8, <1>9

\* _hw_endpoint_start_next_buffer for an endpoint that has a packet size.
LEMMA NextOffered ==
    ASSUME NEW d \in DrvSet, NEW i \in 0..Slots, NEW b, b = BufOf(d.pool[i]), d.pool[i].mps > 0,
           NEW e, e = StartNextBuffer(d, i)
    PROVE  /\ e \in DrvSet /\ Aside(d, e, i, b) /\ Engine(d, e)
           /\ e.bugger = d.bugger /\ e.out = d.out
           /\ Likewise(d.pool[i], e.pool[i])
           /\ e.pool[i].rem = Rest(d.pool[i].rem, d.pool[i].mps)
           /\ e.pool[i].pid = Turned(d.pool[i].pid, Flips(d.pool[i].rem, d.pool[i].mps))
           /\ e.pool[i].xfer = d.pool[i].xfer /\ e.pool[i].user = d.pool[i].user
           /\ e.bufs[b].pid = d.pool[i].pid /\ e.bufs[b].avail
<1> DEFINE ep == d.pool[i]
           n == Min({ep.rem, ep.mps})
           left == ep.rem - n
           turns == n = 0 \/ (1 + (left + n - 1) \div ep.mps) % 2 = 1
           pid == IF turns THEN 1 - ep.pid ELSE ep.pid
<1>1. ep \in EpSet
  BY DEF DrvSet
<1>2. ep.rem \in Nat /\ ep.mps \in Nat /\ ep.pid \in Pid
  BY <1>1 DEF EpSet
<1>3. n = (IF ep.rem <= ep.mps THEN ep.rem ELSE ep.mps)
  BY <1>2, Two
<1>4. left = Rest(ep.rem, ep.mps) /\ left + n - 1 = ep.rem - 1 /\ (n = 0 <=> ep.rem = 0)
  BY <1>2, <1>3 DEF Rest
<1>5. turns <=> Flips(ep.rem, ep.mps)
  BY <1>4 DEF Flips
<1>6. e = Offer(d, i, left, pid)
  BY DEF StartNextBuffer
<1> HIDE DEF turns
<1>7. pid = Turned(ep.pid, Flips(ep.rem, ep.mps))
  BY <1>5 DEF Turned
<1>8. left \in Nat /\ pid \in Pid
  BY <1>2, <1>4, <1>7 DEF Rest, Turned, Pid
<1> HIDE DEF left, pid, n, ep
<1>9. /\ e \in DrvSet /\ Aside(d, e, i, b) /\ Engine(d, e)
      /\ e.bugger = d.bugger /\ e.out = d.out
      /\ Likewise(d.pool[i], e.pool[i])
      /\ e.pool[i].rem = left /\ e.pool[i].pid = pid
      /\ e.pool[i].xfer = d.pool[i].xfer /\ e.pool[i].user = d.pool[i].user
      /\ e.bufs[b].pid = d.pool[i].pid /\ e.bufs[b].avail
  BY <1>6, <1>8, Offered
<1> QED BY <1>4, <1>7, <1>9 DEF ep

\* hw_endpoint_xfer_start.
LEMMA Begun ==
    ASSUME NEW d \in DrvSet, NEW i \in 0..Slots, NEW b, b = BufOf(d.pool[i]), d.pool[i].mps > 0,
           NEW len \in Nat, NEW e, e = XferStart(d, i, len)
    PROVE  /\ e \in DrvSet /\ Aside(d, e, i, b) /\ Engine(d, e)
           /\ e.bugger = d.bugger /\ e.out = d.out
           /\ Likewise(d.pool[i], e.pool[i])
           /\ e.pool[i].rem = Rest(len, d.pool[i].mps)
           /\ e.pool[i].pid = Turned(d.pool[i].pid, Flips(len, d.pool[i].mps))
           /\ e.pool[i].xfer = 0 /\ e.pool[i].user
           /\ e.bufs[b].pid = d.pool[i].pid /\ e.bufs[b].avail
<1> DEFINE ep == [d.pool[i] EXCEPT !.rem = len, !.xfer = 0, !.user = TRUE]
           f == [d EXCEPT !.pool[i] = ep]
<1>1. /\ d.pool[i] \in EpSet /\ d.pool \in [0..Slots -> EpSet]
  BY DEF DrvSet
<1>2. /\ ep \in EpSet /\ Likewise(d.pool[i], ep) /\ ep.rem = len /\ ep.pid = d.pool[i].pid
      /\ ep.xfer = 0 /\ ep.user
  BY <1>1 DEF EpSet, Likewise
<1>3. e = StartNextBuffer(f, i)
  BY DEF XferStart, Then
<1> HIDE DEF ep
<1>4. /\ f \in DrvSet /\ f.pool = [d.pool EXCEPT ![i] = ep] /\ f.bufs = d.bufs
      /\ Engine(d, f) /\ f.bugger = d.bugger /\ f.out = d.out
      /\ f.reads = d.reads /\ f.panic = d.panic
  BY <1>2 DEF DrvSet, Engine
<1> HIDE DEF f
<1>5. f.pool[i] = ep /\ \A k \in 0..Slots : k # i => f.pool[k] = d.pool[k]
  BY <1>1, <1>4
<1>6. b = BufOf(f.pool[i]) /\ f.pool[i].mps > 0
  BY <1>2, <1>5 DEF BufOf, Likewise
<1>7. /\ e \in DrvSet /\ Aside(f, e, i, b) /\ Engine(f, e)
      /\ e.bugger = f.bugger /\ e.out = f.out
      /\ Likewise(f.pool[i], e.pool[i])
      /\ e.pool[i].rem = Rest(f.pool[i].rem, f.pool[i].mps)
      /\ e.pool[i].pid = Turned(f.pool[i].pid, Flips(f.pool[i].rem, f.pool[i].mps))
      /\ e.pool[i].xfer = f.pool[i].xfer /\ e.pool[i].user = f.pool[i].user
      /\ e.bufs[b].pid = f.pool[i].pid /\ e.bufs[b].avail
  BY <1>3, <1>4, <1>6, NextOffered
<1>8. Aside(d, e, i, b) /\ Engine(d, e) /\ Likewise(d.pool[i], e.pool[i])
  BY <1>2, <1>4, <1>5, <1>7 DEF Aside, Engine, Likewise
<1> QED BY <1>2, <1>4, <1>5, <1>7, <1>8 DEF Likewise

\* The PID an endpoint has when it is started: EPX begins anew when it turns round.
PidFor(ep, a) == IF ep.addr = a THEN ep.pid ELSE 1

\* What hcd_edpt_xfer does with the slot i and its buffer b.
TransferredAs(d, e, a, len, i, b) ==
    /\ e \in DrvSet /\ Aside(d, e, i, b)
    /\ e.active = i /\ e.level = d.level /\ e.bugger = d.bugger /\ e.out = d.out
    /\ e.sie = (IF a.in THEN "in" ELSE "out")
    /\ e.trans = [kind |-> IF a.in THEN "in" ELSE "out", num |-> a.num]
    /\ e.pool[i].addr = a /\ e.pool[i].mps = d.pool[i].mps /\ e.pool[i].inum = d.pool[i].inum
    /\ d.pool[i].conf => e.pool[i].conf
    /\ e.pool[i].rem = Rest(len, d.pool[i].mps)
    /\ e.pool[i].pid = Turned(PidFor(d.pool[i], a), Flips(len, d.pool[i].mps))
    /\ e.pool[i].xfer = 0 /\ e.pool[i].user
    /\ e.bufs[b].pid = PidFor(d.pool[i], a) /\ e.bufs[b].avail

\* hcd_edpt_xfer for an endpoint that is open.
LEMMA Transferred ==
    ASSUME NEW d \in DrvSet, NEW a \in Addresses, NEW len \in Nat, SlotsOf(d, a) # {},
           NEW i, i = SlotOf(d, a), NEW b, b = BufOf(d.pool[i]), d.pool[i].mps > 0
    PROVE  TransferredAs(d, EdptXfer(d, a, len), a, len, i, b)
<1> DEFINE e == EdptXfer(d, a, len)
<1> DEFINE old == d.pool[i]
           ep == IF old.addr = a THEN old ELSE EndpointInit(old, a, old.mps)
           kind == IF a.in THEN "in" ELSE "out"
           trans == [kind |-> kind, num |-> a.num]
           f == [d EXCEPT !.active = i, !.pool[i] = ep, !.sie = kind, !.trans = trans]
<1>1. i \in 0..Slots /\ (a.num = 0 <=> i = 0) /\ (i # 0 => old.addr = a)
  BY Finds
<1>2. old \in EpSet /\ d.pool \in [0..Slots -> EpSet]
  BY <1>1 DEF DrvSet
<1>3. /\ ep \in EpSet /\ ep.addr = a /\ ep.mps = old.mps /\ ep.inum = old.inum
      /\ ep.pid = PidFor(old, a) /\ (old.conf => ep.conf)
  <2>1. CASE old.addr = a
    BY <1>2, <2>1 DEF PidFor
  <2>2. CASE old.addr # a
    <3>1. a.num = 0
      BY <1>1, <2>2
    <3>2. old.mps \in Nat
      BY <1>2 DEF EpSet
    <3>3. EndpointInit(old, a, old.mps).pid = 1
      BY <1>2, <3>1 DEF EndpointInit, EpSet
    <3> DEFINE g == EndpointInit(old, a, old.mps)
    <3>4. g \in EpSet /\ g.addr = a /\ g.mps = old.mps /\ g.inum = old.inum /\ g.conf
      <4> HIDE DEF old, ep
      <4>1. old \in EpSet /\ old.mps \in Nat /\ a \in Addresses
        BY <1>2, <3>2
      <4> QED BY <4>1, Inits
    <3>5. ep = g /\ PidFor(old, a) = 1 /\ g.pid = 1
      BY <2>2, <3>3 DEF PidFor
    <3> HIDE DEF g, ep, old
    <3> QED BY <3>4, <3>5
  <2> QED BY <2>1, <2>2
<1>4. e = XferStart(f, i, len)
  BY DEF EdptXfer
<1>5. kind \in {"in", "out"} /\ trans \in TransSet
  BY Addressing DEF TransSet
<1> HIDE DEF ep, trans, kind
<1>6. /\ f.pool = [d.pool EXCEPT ![i] = ep] /\ f.bufs = d.bufs
      /\ f.active = i /\ f.sie = kind /\ f.trans = trans /\ f.level = d.level
      /\ f.bugger = d.bugger /\ f.out = d.out /\ f.reads = d.reads /\ f.panic = d.panic
  BY DEF DrvSet
<1>7. f \in DrvSet
  <2>1. f.pool \in [0..Slots -> EpSet]
    <3> HIDE DEF f, old
    <3> QED BY <1>2, <1>3, <1>6
  <2> QED BY <1>1, <1>5, <2>1 DEF DrvSet
<1> HIDE DEF f, e
<1>8. f.pool[i] = ep /\ \A k \in 0..Slots : k # i => f.pool[k] = d.pool[k]
  BY <1>1, <1>2, <1>6
<1>9. b = BufOf(f.pool[i]) /\ f.pool[i].mps > 0
  BY <1>3, <1>8 DEF BufOf
<1>10. /\ e \in DrvSet /\ Aside(f, e, i, b) /\ Engine(f, e)
       /\ e.bugger = f.bugger /\ e.out = f.out
       /\ Likewise(f.pool[i], e.pool[i])
       /\ e.pool[i].rem = Rest(len, f.pool[i].mps)
       /\ e.pool[i].pid = Turned(f.pool[i].pid, Flips(len, f.pool[i].mps))
       /\ e.pool[i].xfer = 0 /\ e.pool[i].user
       /\ e.bufs[b].pid = f.pool[i].pid /\ e.bufs[b].avail
  BY <1>1, <1>4, <1>7, <1>9, Begun
<1>11. Aside(d, e, i, b)
  BY <1>6, <1>8, <1>10 DEF Aside
<1>12. /\ e.active = i /\ e.level = d.level /\ e.bugger = d.bugger /\ e.out = d.out
       /\ e.sie = kind /\ e.trans = trans
  BY <1>6, <1>10 DEF Engine
<1>13. /\ e.pool[i].addr = a /\ e.pool[i].mps = old.mps /\ e.pool[i].inum = old.inum
       /\ old.conf => e.pool[i].conf
  BY <1>3, <1>8, <1>10 DEF Likewise
<1>14. /\ e.pool[i].rem = Rest(len, old.mps)
       /\ e.pool[i].pid = Turned(PidFor(old, a), Flips(len, old.mps))
       /\ e.bufs[b].pid = PidFor(old, a)
  BY <1>3, <1>8, <1>10
<1>15. TransferredAs(d, e, a, len, i, b)
  BY <1>10, <1>11, <1>12, <1>13, <1>14 DEF trans, kind, TransferredAs
<1> QED BY <1>15 DEF e

Short(ep, len) == len < ep.mps \/ ep.mps = 0

\* What sync_ep_buffer writes.
LEMMA SyncWrites ==
    ASSUME NEW d \in DrvSet, NEW i \in 0..Slots
    PROVE  LET old == d.pool[i]
               buf == d.bufs[BufOf(old)]
               ep == [old EXCEPT !.xfer = @ + buf.len,
                                 !.user = @ \/ (old.addr.in /\ buf.len > 0),
                                 !.rem = IF buf.len < old.mps \/ old.mps = 0 THEN 0 ELSE @]
               bugger == IF old.addr.in /\ old.user THEN buf.src ELSE d.bugger
               panic == d.panic \/ buf.full # old.addr.in
           IN  SyncBuffer(d, i) = [d EXCEPT !.pool[i] = ep, !.bugger = bugger, !.panic = panic]
  BY DEF SyncBuffer, DrvSet

\* The slot i after a packet in its direction has come or gone.
SyncedAs(d, e, i, b) ==
    /\ e \in DrvSet /\ Aside(d, e, i, b) /\ Engine(d, e)
    /\ e.out = d.out /\ e.bufs = d.bufs
    /\ e.bugger = IF d.pool[i].addr.in /\ d.pool[i].user THEN d.bufs[b].src ELSE d.bugger
    /\ Likewise(d.pool[i], e.pool[i]) /\ e.pool[i].pid = d.pool[i].pid
    /\ e.pool[i].rem = IF Short(d.pool[i], d.bufs[b].len) THEN 0 ELSE d.pool[i].rem
    /\ e.pool[i].xfer = d.pool[i].xfer + d.bufs[b].len

\* sync_ep_buffer with a packet in the direction of the endpoint.
LEMMA Synced ==
    ASSUME NEW d \in DrvSet, NEW i \in 0..Slots, NEW b, b = BufOf(d.pool[i]),
           d.bufs[b].full = d.pool[i].addr.in
    PROVE  SyncedAs(d, SyncBuffer(d, i), i, b)
<1> DEFINE e == SyncBuffer(d, i)
<1> DEFINE old == d.pool[i]
           buf == d.bufs[BufOf(old)]
           ep == [old EXCEPT !.xfer = @ + buf.len,
                             !.user = @ \/ (old.addr.in /\ buf.len > 0),
                             !.rem = IF buf.len < old.mps \/ old.mps = 0 THEN 0 ELSE @]
           bugger == IF old.addr.in /\ old.user THEN buf.src ELSE d.bugger
           panic == d.panic \/ buf.full # old.addr.in
<1>1. old \in EpSet /\ buf \in BufSet /\ d.pool \in [0..Slots -> EpSet] /\ buf = d.bufs[b]
  BY OwnBuf DEF DrvSet
<1>2. e = [d EXCEPT !.pool[i] = ep, !.bugger = bugger, !.panic = panic]
  BY SyncWrites
<1>3. /\ Likewise(old, ep) /\ ep.pid = old.pid
      /\ ep.rem = (IF Short(old, buf.len) THEN 0 ELSE old.rem) /\ ep.xfer = old.xfer + buf.len
  <2> HIDE DEF buf, old
  <2> QED BY <1>1 DEF EpSet, Likewise, Short
<1>4. panic = d.panic
  <2>1. (d.panic \/ buf.full # old.addr.in) <=> d.panic
    BY <1>1
  <2>2. d.panic \in BOOLEAN
    BY DEF DrvSet
  <2> QED BY <2>1, <2>2
<1> HIDE DEF ep, bugger, panic, e
<1>5. /\ e.pool = [d.pool EXCEPT ![i] = ep] /\ e.bugger = bugger /\ e.panic = panic
      /\ Engine(d, e) /\ e.out = d.out /\ e.bufs = d.bufs /\ e.reads = d.reads
  BY <1>2 DEF DrvSet, Engine
<1>7. e.pool[i] = ep /\ \A k \in 0..Slots : k # i => e.pool[k] = d.pool[k]
  BY <1>1, <1>5
<1>8. e \in DrvSet
  BY Syncs DEF Keeps, e
<1>9. Aside(d, e, i, b)
  BY <1>4, <1>5, <1>7 DEF Aside
<1>10. SyncedAs(d, e, i, b)
  BY <1>1, <1>3, <1>5, <1>7, <1>8, <1>9 DEF bugger, SyncedAs
<1> QED BY <1>10 DEF e

\* hw_xfer_complete of a transfer that is over: it is reset, then the event is handled.
LEMMA Finished ==
    ASSUME NEW d \in DrvSet, NEW i \in 0..Slots
    PROVE  \E f \in DrvSet :
              /\ XferComplete(d, i, TRUE) = XferEvent(f, i, d.pool[i].xfer, TRUE)
              /\ \A b : Aside(d, f, i, b)
              /\ Engine(d, f) /\ f.out = d.out /\ f.bufs = d.bufs /\ f.bugger = d.bugger
              /\ Likewise(d.pool[i], f.pool[i]) /\ f.pool[i].pid = d.pool[i].pid
              /\ f.pool[i].rem = 0 /\ f.pool[i].xfer = 0
<1> DEFINE old == d.pool[i]
           ep == [old EXCEPT !.rem = 0, !.xfer = 0, !.user = FALSE]
           f == [d EXCEPT !.pool[i] = ep]
<1>1. old \in EpSet /\ d.pool \in [0..Slots -> EpSet]
  BY DEF DrvSet
<1>2. /\ ep \in EpSet /\ Likewise(old, ep) /\ ep.pid = old.pid /\ ep.rem = 0 /\ ep.xfer = 0
  BY <1>1 DEF EpSet, Likewise
<1>3. XferComplete(d, i, TRUE) = XferEvent(f, i, old.xfer, TRUE)
  BY DEF XferComplete, Then
<1> HIDE DEF ep
<1>4. /\ f \in DrvSet /\ f.pool = [d.pool EXCEPT ![i] = ep] /\ f.bufs = d.bufs
      /\ Engine(d, f) /\ f.bugger = d.bugger /\ f.out = d.out
      /\ f.reads = d.reads /\ f.panic = d.panic
  BY <1>2 DEF DrvSet, Engine
<1> HIDE DEF f
<1>5. f.pool[i] = ep /\ \A k \in 0..Slots : k # i => f.pool[k] = d.pool[k]
  BY <1>1, <1>4
<1>6. \A b : Aside(d, f, i, b)
  BY <1>4, <1>5 DEF Aside
<1> QED BY <1>2, <1>3, <1>4, <1>5, <1>6

\* The event of an endpoint other than 0 is passed on.
Announced(d, e, i) ==
    /\ e \in DrvSet /\ Aside(d, e, i, BufOf(d.pool[i])) /\ Engine(d, e)
    /\ e.bufs = d.bufs /\ e.bugger = d.bugger /\ e.pool = d.pool
    /\ \E x \in PacketSet : /\ e.out = Append(d.out, x)
                            /\ x.addr = d.pool[i].addr /\ x.src = d.bugger

\* It is.
LEMMA Reported ==
    ASSUME NEW d \in DrvSet, NEW i \in 0..Slots, d.pool[i].addr.num # 0, NEW n \in Nat,
           NEW done \in BOOLEAN
    PROVE  Announced(d, XferEvent(d, i, n, done), i)
<1> DEFINE e == XferEvent(d, i, n, done)
           x == [addr |-> d.pool[i].addr, len |-> n, last |-> done, src |-> d.bugger]
<1>1. x \in PacketSet /\ x.addr = d.pool[i].addr /\ x.src = d.bugger
  BY DEF DrvSet, EpSet, PacketSet
<1>2. e = [d EXCEPT !.out = Append(@, x)]
  BY DEF XferEvent
<1> HIDE DEF x, e
<1>3. d.out \in Seq(PacketSet) /\ Append(d.out, x) \in Seq(PacketSet)
  BY <1>1 DEF DrvSet
<1>4. /\ e \in DrvSet /\ e.out = Append(d.out, x) /\ Engine(d, e)
      /\ e.pool = d.pool /\ e.bufs = d.bufs /\ e.bugger = d.bugger
      /\ e.reads = d.reads /\ e.panic = d.panic
  BY <1>2, <1>3 DEF DrvSet, Engine
<1>5. Announced(d, e, i)
  BY <1>1, <1>4 DEF Aside, Announced
<1> QED BY <1>5 DEF e

\* A packet of endpoint i has come or gone; what remains of its request is rem.
Passing(d, e, i, b) ==
    /\ e \in DrvSet /\ Aside(d, e, i, b) /\ Engine(d, e)
    /\ Likewise(d.pool[i], e.pool[i])
    /\ \E x \in PacketSet :
          /\ e.out = Append(d.out, x) /\ x.addr = d.pool[i].addr
          /\ x.addr.in /\ d.pool[i].user => x.src = d.bufs[b].src

\* _handle_buff_status_bit where the transfer is over.
LEMMA PacketDone ==
    ASSUME NEW d \in DrvSet, device \in Devices, NEW i \in 0..Slots, NEW b, b = BufOf(d.pool[i]),
           d.bufs[b].full = d.pool[i].addr.in, d.pool[i].addr.num # 0,
           d.pool[i].rem = 0 \/ Short(d.pool[i], d.bufs[b].len),
           NEW e, e = BuffStatusBit(d, i)
    PROVE  Passing(d, e, i, b) /\ e.pool[i].pid = d.pool[i].pid
<1> DEFINE s == SyncBuffer(d, i)
<1>1. /\ s \in DrvSet /\ Aside(d, s, i, b) /\ Engine(d, s)
      /\ s.out = d.out /\ s.bufs = d.bufs
      /\ s.bugger = IF d.pool[i].addr.in /\ d.pool[i].user THEN d.bufs[b].src ELSE d.bugger
      /\ Likewise(d.pool[i], s.pool[i]) /\ s.pool[i].pid = d.pool[i].pid
      /\ s.pool[i].rem = 0
  <2>1. SyncedAs(d, s, i, b)
    BY Synced
  <2> HIDE DEF s
  <2> QED BY <2>1 DEF SyncedAs
<1>2. BuffStatusBit(d, i) = XferComplete(s, i, TRUE)
  <2> DEFINE More == [f \in {StartNextBuffer(s, i)} |-> XferComplete(f, i, FALSE)]
  <2>1. s.pool[i].rem = 0
    BY <1>1
  <2> QED BY <2>1 DEF BuffStatusBit, Then
<1> HIDE DEF s
<1>3. PICK f \in DrvSet :
              /\ XferComplete(s, i, TRUE) = XferEvent(f, i, s.pool[i].xfer, TRUE)
              /\ \A c : Aside(s, f, i, c)
              /\ Engine(s, f) /\ f.out = s.out /\ f.bufs = s.bufs /\ f.bugger = s.bugger
              /\ Likewise(s.pool[i], f.pool[i]) /\ f.pool[i].pid = s.pool[i].pid
              /\ f.pool[i].rem = 0 /\ f.pool[i].xfer = 0
  BY <1>1, Finished
<1>4. s.pool[i].xfer \in Nat
  BY <1>1 DEF DrvSet, EpSet
<1>5. /\ f.pool[i].addr = d.pool[i].addr /\ Likewise(d.pool[i], f.pool[i])
      /\ f.pool[i].pid = d.pool[i].pid /\ f.out = d.out /\ f.bufs = d.bufs
      /\ f.bugger = IF d.pool[i].addr.in /\ d.pool[i].user THEN d.bufs[b].src ELSE d.bugger
      /\ Engine(d, f)
  BY <1>1, <1>3 DEF Likewise, Engine
<1>6. Aside(d, f, i, b)
  BY <1>1, <1>3 DEF Aside
<1>7. /\ e \in DrvSet /\ Aside(f, e, i, BufOf(f.pool[i])) /\ Engine(f, e)
      /\ e.bufs = f.bufs /\ e.bugger = f.bugger /\ e.pool = f.pool
      /\ \E x \in PacketSet : /\ e.out = Append(f.out, x)
                              /\ x.addr = f.pool[i].addr /\ x.src = f.bugger
  <2> DEFINE n == s.pool[i].xfer
             done == TRUE
  <2>1. n \in Nat /\ e = XferEvent(f, i, n, done) /\ f \in DrvSet /\ f.pool[i].addr.num # 0
    BY <1>2, <1>3, <1>4, <1>5
  <2>2. done \in BOOLEAN
    OBVIOUS
  <2> HIDE DEF n, done
  <2>3. Announced(f, XferEvent(f, i, n, done), i)
    BY <2>1, <2>2, Reported
  <2> QED BY <2>1, <2>3 DEF Announced
<1>8. Aside(d, e, i, b) /\ Engine(d, e)
  BY <1>5, <1>6, <1>7 DEF Aside, Engine
<1>9. \E x \in PacketSet :
          /\ e.out = Append(d.out, x) /\ x.addr = d.pool[i].addr
          /\ x.addr.in /\ d.pool[i].user => x.src = d.bufs[b].src
  BY <1>5, <1>7
<1> QED BY <1>5, <1>7, <1>8, <1>9 DEF Passing

\* _handle_buff_status_bit where the transfer goes on.
LEMMA PacketMore ==
    ASSUME NEW d \in DrvSet, device \in Devices, NEW i \in 0..Slots, NEW b, b = BufOf(d.pool[i]),
           d.bufs[b].full = d.pool[i].addr.in, d.pool[i].addr.num # 0,
           d.pool[i].mps > 0, d.pool[i].rem > 0, ~Short(d.pool[i], d.bufs[b].len),
           NEW e, e = BuffStatusBit(d, i)
    PROVE  /\ Passing(d, e, i, b)
           /\ e.pool[i].pid = Turned(d.pool[i].pid, Flips(d.pool[i].rem, d.pool[i].mps))
<1> DEFINE s == SyncBuffer(d, i)
           f == StartNextBuffer(s, i)
<1>1. /\ s \in DrvSet /\ Aside(d, s, i, b) /\ Engine(d, s)
      /\ s.out = d.out /\ s.bufs = d.bufs
      /\ s.bugger = IF d.pool[i].addr.in /\ d.pool[i].user THEN d.bufs[b].src ELSE d.bugger
      /\ Likewise(d.pool[i], s.pool[i]) /\ s.pool[i].pid = d.pool[i].pid
      /\ s.pool[i].rem = d.pool[i].rem
  <2>1. SyncedAs(d, s, i, b)
    BY Synced
  <2> HIDE DEF s
  <2> QED BY <2>1 DEF SyncedAs
<1>2. BuffStatusBit(d, i) = XferComplete(f, i, FALSE)
  <2>1. s.pool[i].rem # 0
    BY <1>1
  <2> HIDE DEF s
  <2>2. Then(s, LAMBDA g : IF g.pool[i].rem = 0 THEN XferComplete(g, i, TRUE)
                           ELSE Then(StartNextBuffer(g, i), LAMBDA h : XferComplete(h, i, FALSE)))
        = XferComplete(f, i, FALSE)
    BY <2>1 DEF Then
  <2> QED BY <2>2 DEF BuffStatusBit, s
<1> HIDE DEF s
<1>3. b = BufOf(s.pool[i]) /\ s.pool[i].mps > 0
  BY <1>1 DEF Likewise, BufOf
<1>4. /\ f \in DrvSet /\ Aside(s, f, i, b) /\ Engine(s, f)
      /\ f.bugger = s.bugger /\ f.out = s.out
      /\ Likewise(s.pool[i], f.pool[i])
      /\ f.pool[i].pid = Turned(s.pool[i].pid, Flips(s.pool[i].rem, s.pool[i].mps))
  BY <1>1, <1>3, NextOffered
<1> HIDE DEF f
<1>5. /\ f.pool[i].addr = d.pool[i].addr /\ Likewise(d.pool[i], f.pool[i])
      /\ f.pool[i].pid = Turned(d.pool[i].pid, Flips(d.pool[i].rem, d.pool[i].mps))
      /\ f.out = d.out
      /\ f.bugger = IF d.pool[i].addr.in /\ d.pool[i].user THEN d.bufs[b].src ELSE d.bugger
      /\ Engine(d, f)
  BY <1>1, <1>4 DEF Likewise, Engine
<1>6. Aside(d, f, i, b)
  BY <1>1, <1>4 DEF Aside
<1>7. XferComplete(f, i, FALSE) = XferEvent(f, i, f.pool[i].xfer, FALSE) /\ f.pool[i].xfer \in Nat
  <2>1. f.pool[i].xfer \in Nat
    BY <1>4 DEF DrvSet, EpSet
  <2>2. XferComplete(f, i, FALSE) = XferEvent(f, i, f.pool[i].xfer, FALSE)
    BY DEF XferComplete, Then
  <2> QED BY <2>1, <2>2
<1>8. /\ e \in DrvSet /\ Aside(f, e, i, BufOf(f.pool[i])) /\ Engine(f, e)
      /\ e.bufs = f.bufs /\ e.bugger = f.bugger /\ e.pool = f.pool
      /\ \E x \in PacketSet : /\ e.out = Append(f.out, x)
                              /\ x.addr = f.pool[i].addr /\ x.src = f.bugger
  <2> DEFINE n == f.pool[i].xfer
             done == FALSE
  <2>1. n \in Nat /\ e = XferEvent(f, i, n, done) /\ f \in DrvSet /\ f.pool[i].addr.num # 0
    BY <1>2, <1>4, <1>5, <1>7
  <2>2. done \in BOOLEAN
    OBVIOUS
  <2> HIDE DEF n, done
  <2>3. Announced(f, XferEvent(f, i, n, done), i)
    BY <2>1, <2>2, Reported
  <2> QED BY <2>1, <2>3 DEF Announced
<1>9. Aside(d, e, i, b) /\ Engine(d, e)
  BY <1>5, <1>6, <1>8 DEF Aside, Engine
<1>10. \E x \in PacketSet :
          /\ e.out = Append(d.out, x) /\ x.addr = d.pool[i].addr
          /\ x.addr.in /\ d.pool[i].user => x.src = d.bufs[b].src
  BY <1>5, <1>8
<1> QED BY <1>5, <1>8, <1>9, <1>10 DEF Passing

\* A request of more than a packet turns the PID, or what is left after one does.
LEMMA Parity ==
    ASSUME NEW mps \in Nat \ {0}, NEW len \in Nat, len > 0
    PROVE  /\ len <= mps => Flips(len, mps)
           /\ len > mps => (Flips(len, mps) <=> ~Flips(len - mps, mps))
<1> DEFINE a == len - 1
           q == a \div mps
<1>1. a \in Nat /\ mps \in Nat /\ mps > 0
  OBVIOUS
<1>2. q \in Nat
  BY <1>1, Z3
<1>3. CASE len <= mps
  <2>1. q = 0
    BY <1>1, <1>3, Z3
  <2>2. (1 + q) % 2 = 1
    BY <2>1
  <2> QED BY <1>3, <2>2 DEF Flips
<1>4. CASE len > mps
  <2>1. a >= mps /\ len - mps # 0 /\ len # 0 /\ (len - mps) - 1 = a - mps
    BY <1>4
  <2>2. (a - mps) \div mps = q - 1
    BY <1>1, <2>1, Z3
  <2>3. q >= 1
    BY <1>1, <2>1, Z3
  <2> HIDE DEF q
  <2>4. (1 + q) % 2 = 1 <=> ~((1 + (q - 1)) % 2 = 1)
    BY <1>2, <2>3, Z3
  <2> HIDE DEF a
  <2>5. Flips(len, mps) <=> (1 + q) % 2 = 1
    BY <2>1 DEF Flips, q, a
  <2>6. Flips(len - mps, mps) <=> (1 + (q - 1)) % 2 = 1
    BY <2>1, <2>2 DEF Flips
  <2> QED BY <1>4, <2>4, <2>5, <2>6
<1> QED BY <1>3, <1>4

-----------------------------------------------------------------------------
(* Control transfers: what EPX's completions do.                           *)

\* EPX is described and looks after its own buffer.
Epx(d) == d.pool[0].mps = device.ask /\ d.pool[0].inum = NotInterrupt

\* EPX is found at either address of endpoint 0, and has a packet size.
LEMMA EpxFacts ==
    ASSUME device \in Devices, NEW d \in DrvSet, Epx(d)
    PROVE  /\ \A in \in BOOLEAN : SlotsOf(d, Control(in)) = {0} /\ SlotOf(d, Control(in)) = 0
           /\ BufOf(d.pool[0]) = 0 /\ d.pool[0].mps > 0 /\ 0 \in 0..Slots
           /\ device.ask \in Nat /\ device.ask > 0 /\ Ctl # Control(FALSE)
           /\ Ctl \in Addresses /\ Control(FALSE) \in Addresses
<1>1. device.ask \in Nat \ {0}
  BY DeviceFacts DEF DeviceFact
<1>2. \A in \in BOOLEAN : SlotsOf(d, Control(in)) = {0}
  BY DEF SlotsOf, Control, Address
<1>3. Min({0}) = 0
  <2>1. {0} \subseteq Nat /\ {0} # {}
    OBVIOUS
  <2>2. Min({0}) \in {0}
    BY <2>1, Lowest
  <2> QED BY <2>2
<1>4. \A in \in BOOLEAN : SlotOf(d, Control(in)) = 0
  BY <1>2, <1>3 DEF SlotOf
<1>5. Ctl # Control(FALSE) /\ Ctl \in Addresses /\ Control(FALSE) \in Addresses
  BY Addressing DEF Ctl, Control, Address
<1>6. BufOf(d.pool[0]) = 0 /\ d.pool[0].mps = device.ask
  BY DEF Epx, BufOf
<1>7. device.ask > 0 /\ d.pool[0].mps > 0 /\ 0 \in 0..Slots
  BY <1>1, <1>6
<1> QED BY <1>1, <1>2, <1>4, <1>5, <1>6, <1>7

\* EPX and its buffer may differ; what is handed to the master are the packets o.
Handled0(d, e) == e \in DrvSet /\ Aside(d, e, 0, 0) /\ Epx(e) /\ e.active = 0

\* The answer is passed on, and acknowledged if it was data.
AnswerHandledAs(d, e) ==
    /\ Handled0(d, e)
    /\ \E x \in PacketSet : e.out = Append(d.out, x) /\ x.addr = Ctl /\ x.src = Ctl
    /\ IF d.reads THEN AckDue(e) ELSE EpxIdle(e) /\ e.trans = NoTrans

\* The event of an answer.
LEMMA AnswerEvent ==
    ASSUME NEW f \in DrvSet, device \in Devices, Epx(f), f.level = 1, f.active = 0,
           f.pool[0].addr = Ctl, f.pool[0].xfer = 0, f.sie = "in", f.trans = NoTrans,
           f.bugger = Ctl, NEW n \in Nat
    PROVE  AnswerHandledAs(f, XferEvent(f, 0, n, TRUE))
<1> DEFINE x == [addr |-> f.pool[0].addr, len |-> n, last |-> TRUE, src |-> f.bugger]
           told == [f EXCEPT !.out = Append(@, x)]
           over == [told EXCEPT !.level = 2]
           e == XferEvent(f, 0, n, TRUE)
<1>1. x \in PacketSet /\ x.addr = Ctl /\ x.src = Ctl
  BY Addressing DEF Ctl, PacketSet
<1>2. e = IF f.reads THEN EdptXfer(over, Control(FALSE), 0) ELSE over
  <2>1. f.pool[0].addr.num = 0
    BY Addressing DEF Ctl
  <2> QED BY <2>1 DEF XferEvent
<1> HIDE DEF x
<1>3. f.out \in Seq(PacketSet) /\ Append(f.out, x) \in Seq(PacketSet)
  BY <1>1 DEF DrvSet
<1>4. /\ told \in DrvSet /\ told.out = Append(f.out, x) /\ told.pool = f.pool
      /\ told.bufs = f.bufs /\ told.reads = f.reads /\ told.panic = f.panic
      /\ told.active = f.active /\ told.sie = f.sie /\ told.trans = f.trans
  BY <1>3 DEF DrvSet
<1> HIDE DEF told
<1>5. /\ over \in DrvSet /\ over.out = Append(f.out, x) /\ over.pool = f.pool
      /\ over.bufs = f.bufs /\ over.reads = f.reads /\ over.panic = f.panic
      /\ over.active = f.active /\ over.sie = f.sie /\ over.trans = f.trans /\ over.level = 2
  <2>1. 2 \in 0..3
    OBVIOUS
  <2> QED BY <1>4, <2>1 DEF DrvSet
<1> HIDE DEF over, e
<1>6. Aside(f, over, 0, 0) /\ Epx(over)
  BY <1>5 DEF Aside, Epx
<1>7. CASE ~f.reads
  <2>1. EpxIdle(over)
    BY <1>5 DEF EpxIdle, NoTrans
  <2> QED BY <1>1, <1>2, <1>5, <1>6, <1>7, <2>1 DEF AnswerHandledAs, Handled0, e
<1>8. CASE f.reads
  <2> DEFINE a == Control(FALSE)
             len == 0
             i == 0
             b == 0
  <2>1. /\ SlotsOf(over, a) # {} /\ i = SlotOf(over, a) /\ b = BufOf(over.pool[i])
        /\ over.pool[i].mps > 0 /\ a \in Addresses /\ len \in Nat /\ e = EdptXfer(over, a, len)
        /\ ~a.in /\ a.num = 0
    BY <1>2, <1>5, <1>6, <1>8, EpxFacts, Addressing
  <2> HIDE DEF a, len, i, b
  <2>2. /\ e \in DrvSet /\ Aside(over, e, i, b)
        /\ e.active = i /\ e.level = over.level /\ e.out = over.out
        /\ e.sie = (IF a.in THEN "in" ELSE "out")
        /\ e.trans = [kind |-> IF a.in THEN "in" ELSE "out", num |-> a.num]
        /\ e.pool[i].addr = a /\ e.pool[i].mps = over.pool[i].mps
        /\ e.pool[i].inum = over.pool[i].inum
        /\ e.pool[i].rem = Rest(len, over.pool[i].mps) /\ e.pool[i].xfer = 0
    <3>1. TransferredAs(over, e, a, len, i, b)
      BY <1>5, <2>1, Transferred
    <3> QED BY <3>1 DEF TransferredAs
  <2> USE DEF i, b
  <2>3. Epx(e) /\ Aside(f, e, 0, 0)
    BY <1>5, <1>6, <2>2 DEF Epx, Aside
  <2>4. e.pool[0].rem = 0
    <3>1. over.pool[0].mps \in Nat
      BY <1>6, EpxFacts DEF Epx
    <3> QED BY <2>2, <3>1 DEF Rest, len
  <2>5. AckDue(e)
    BY <1>5, <2>1, <2>2, <2>4 DEF AckDue, Acking, a
  <2> QED BY <1>1, <1>5, <1>8, <2>2, <2>3, <2>5 DEF AnswerHandledAs, Handled0, e
<1> QED BY <1>7, <1>8

\* EPX's buffer has the answer of a control request.
LEMMA AnswerHandled ==
    ASSUME NEW d \in DrvSet, device \in Devices, Epx(d), Reading(d), d.trans = NoTrans,
           d.bufs[0].full, d.bufs[0].src = Ctl, d.bufs[0].len = IF d.reads THEN 1 ELSE 0
    PROVE  AnswerHandledAs(d, BuffStatusBit(d, 0))
<1> DEFINE i == 0
           b == 0
           s == SyncBuffer(d, i)
<1>1. i \in 0..Slots /\ b = BufOf(d.pool[i]) /\ d.pool[i].mps > 0 /\ d.pool[i].addr.in
  BY EpxFacts, Addressing DEF Reading, Ctl
<1>2. d.bufs[b].full = d.pool[i].addr.in
  <2>1. d.bufs[b].full \in BOOLEAN /\ d.pool[i].addr.in \in BOOLEAN
    BY <1>1, EpxFacts, Addressing DEF DrvSet, BufSet, Reading
  <2> QED BY <1>1, <2>1
<1>3. d.pool[i].rem = 0 \/ Short(d.pool[i], d.bufs[b].len)
  BY <1>1 DEF Reading, Short
<1> HIDE DEF i, b
<1>4. /\ s \in DrvSet /\ Aside(d, s, i, b) /\ Engine(d, s)
      /\ s.out = d.out /\ s.bufs = d.bufs
      /\ s.bugger = IF d.pool[i].addr.in /\ d.pool[i].user THEN d.bufs[b].src ELSE d.bugger
      /\ Likewise(d.pool[i], s.pool[i])
      /\ s.pool[i].rem = IF Short(d.pool[i], d.bufs[b].len) THEN 0 ELSE d.pool[i].rem
  <2>1. SyncedAs(d, s, i, b)
    BY <1>1, <1>2, Synced
  <2> HIDE DEF s
  <2> QED BY <2>1 DEF SyncedAs
<1>5. s.pool[i].rem = 0
  BY <1>3, <1>4
<1>6. BuffStatusBit(d, i) = XferComplete(s, i, TRUE)
  BY <1>5 DEF BuffStatusBit, Then
<1> HIDE DEF s
<1>7. PICK f \in DrvSet :
              /\ XferComplete(s, i, TRUE) = XferEvent(f, i, s.pool[i].xfer, TRUE)
              /\ \A c : Aside(s, f, i, c)
              /\ Engine(s, f) /\ f.out = s.out /\ f.bufs = s.bufs /\ f.bugger = s.bugger
              /\ Likewise(s.pool[i], f.pool[i]) /\ f.pool[i].xfer = 0
  BY <1>1, <1>4, Finished
<1>8. s.pool[i].xfer \in Nat
  BY <1>1, <1>4 DEF DrvSet, EpSet
<1> USE DEF i, b
<1>9. /\ f.pool[0].addr = Ctl /\ Epx(f) /\ f.level = 1 /\ f.active = 0 /\ f.sie = "in"
      /\ f.trans = NoTrans /\ f.bugger = Ctl /\ f.pool[0].xfer = 0 /\ f.reads = d.reads
      /\ f.out = d.out
  BY <1>1, <1>4, <1>7 DEF Likewise, Engine, Epx, Reading, Aside
<1>10. Aside(d, f, 0, 0)
  BY <1>4, <1>7 DEF Aside
<1> DEFINE e == XferEvent(f, 0, s.pool[0].xfer, TRUE)
<1>11. AnswerHandledAs(f, e)
  BY <1>8, <1>9, AnswerEvent
<1>12. e = BuffStatusBit(d, 0)
  BY <1>6, <1>7
<1> HIDE DEF e
<1>13. Aside(d, e, 0, 0)
  BY <1>10, <1>11 DEF AnswerHandledAs, Handled0, Aside
<1>14. AnswerHandledAs(d, e)
  BY <1>9, <1>11, <1>13 DEF AnswerHandledAs, Handled0
<1> QED BY <1>12, <1>14

\* The acknowledgement changes nothing: level 2 tells nobody.
AckHandledAs(d, e) == Handled0(d, e) /\ e.out = d.out /\ EpxIdle(e) /\ e.trans = NoTrans

\* EPX's buffer has the acknowledgement of the device.
LEMMA AckHandled ==
    ASSUME NEW d \in DrvSet, device \in Devices, Epx(d), Acking(d), d.trans = NoTrans,
           ~d.bufs[0].full
    PROVE  AckHandledAs(d, BuffStatusBit(d, 0))
<1> DEFINE i == 0
           b == 0
           s == SyncBuffer(d, i)
<1>1. i \in 0..Slots /\ b = BufOf(d.pool[i]) /\ d.pool[i].mps > 0 /\ ~d.pool[i].addr.in
  BY EpxFacts, Addressing DEF Acking
<1>2. d.bufs[b].full = d.pool[i].addr.in
  <2>1. d.bufs[b].full \in BOOLEAN /\ d.pool[i].addr.in \in BOOLEAN
    BY <1>1, EpxFacts, Addressing DEF DrvSet, BufSet, Acking
  <2> QED BY <1>1, <2>1
<1>3. d.pool[i].rem = 0
  BY DEF Acking
<1> HIDE DEF i, b
<1>4. /\ s \in DrvSet /\ Aside(d, s, i, b) /\ Engine(d, s)
      /\ s.out = d.out /\ s.bufs = d.bufs
      /\ Likewise(d.pool[i], s.pool[i])
      /\ s.pool[i].rem = IF Short(d.pool[i], d.bufs[b].len) THEN 0 ELSE d.pool[i].rem
  <2>1. SyncedAs(d, s, i, b)
    BY <1>1, <1>2, Synced
  <2> HIDE DEF s
  <2> QED BY <2>1 DEF SyncedAs
<1>5. s.pool[i].rem = 0
  BY <1>3, <1>4
<1>6. BuffStatusBit(d, i) = XferComplete(s, i, TRUE)
  BY <1>5 DEF BuffStatusBit, Then
<1> HIDE DEF s
<1>7. PICK f \in DrvSet :
              /\ XferComplete(s, i, TRUE) = XferEvent(f, i, s.pool[i].xfer, TRUE)
              /\ \A c : Aside(s, f, i, c)
              /\ Engine(s, f) /\ f.out = s.out /\ f.bufs = s.bufs
              /\ Likewise(s.pool[i], f.pool[i]) /\ f.pool[i].xfer = 0
  BY <1>1, <1>4, Finished
<1> USE DEF i, b
<1>8. /\ f.pool[0].addr = Control(FALSE) /\ Epx(f) /\ f.level = 2 /\ f.active = 0
      /\ f.sie = "out" /\ f.trans = NoTrans /\ f.pool[0].xfer = 0 /\ f.out = d.out
  BY <1>1, <1>4, <1>7 DEF Likewise, Engine, Epx, Acking, Aside
<1>9. Aside(d, f, 0, 0)
  BY <1>4, <1>7 DEF Aside
<1>10. XferEvent(f, 0, s.pool[0].xfer, TRUE) = f
  <2>1. f.pool[0].addr.num = 0
    BY <1>8, Addressing
  <2>2. f.level # 0 /\ f.level # 1
    BY <1>8
  <2> QED BY <2>1, <2>2 DEF XferEvent
<1>11. BuffStatusBit(d, 0) = f
  BY <1>6, <1>7, <1>10
<1>12. EpxIdle(f)
  BY <1>8 DEF EpxIdle, NoTrans
<1> QED BY <1>8, <1>9, <1>11, <1>12 DEF AckHandledAs, Handled0

\* The setup packet has gone: the answer is asked for.
SetupHandledAs(d, e) == Handled0(d, e) /\ e.out = d.out /\ AnswerDue(e)

\* TRANS_COMPLETE of a setup packet.
LEMMA SetupHandled ==
    ASSUME NEW d \in DrvSet, device \in Devices, Epx(d), SettingUp(d)
    PROVE  SetupHandledAs(d, TransComplete(d))
<1> DEFINE i == 0
           done == TRUE
           n == d.pool[i].xfer
<1>1. i \in 0..Slots
  OBVIOUS
<1>2. TransComplete(d) = XferComplete(d, i, TRUE)
  BY DEF TransComplete, SettingUp
<1>3. PICK f \in DrvSet :
              /\ XferComplete(d, i, TRUE) = XferEvent(f, i, n, TRUE)
              /\ \A c : Aside(d, f, i, c)
              /\ Engine(d, f) /\ f.out = d.out /\ f.bufs = d.bufs
              /\ Likewise(d.pool[i], f.pool[i]) /\ f.pool[i].xfer = 0
  BY <1>1, Finished
<1>4. /\ f.pool[0].addr = Control(FALSE) /\ Epx(f) /\ f.level = 0 /\ f.active = 0
      /\ f.out = d.out /\ n = 0 /\ f.reads = d.reads /\ f.panic = d.panic
  BY <1>1, <1>3 DEF Likewise, Engine, Epx, SettingUp, Aside
<1> HIDE DEF n
<1> DEFINE begun == [f EXCEPT !.level = 1, !.panic = @ \/ n # 0 \/ ~TRUE]
           len == IF f.reads THEN device.ask ELSE StatusLength
<1>5. XferEvent(f, 0, n, TRUE) = EdptXfer(begun, Ctl, len)
  <2>1. f.pool[0].addr.num = 0
    BY <1>4, Addressing
  <2> QED BY <1>4, <2>1 DEF XferEvent, Ctl
<1>6. (f.panic \/ n # 0 \/ ~TRUE) = f.panic
  <2>1. f.panic \in BOOLEAN
    BY DEF DrvSet
  <2>2. (f.panic \/ n # 0 \/ ~TRUE) <=> f.panic
    BY <1>4
  <2> QED BY <2>1, <2>2
<1>7. /\ begun \in DrvSet /\ begun.level = 1 /\ begun.panic = f.panic /\ begun.pool = f.pool
      /\ begun.bufs = f.bufs /\ begun.out = f.out /\ begun.reads = f.reads
  <2> DEFINE panic == f.panic \/ n # 0 \/ ~TRUE
             level == 1
  <2>1. begun = [f EXCEPT !.level = level, !.panic = panic] /\ panic = f.panic /\ panic \in BOOLEAN
    BY <1>6 DEF DrvSet
  <2>2. level \in 0..3 /\ level = 1
    OBVIOUS
  <2> HIDE DEF panic, begun, level
  <2> QED BY <2>1, <2>2 DEF DrvSet
<1> HIDE DEF begun
<1>8. Epx(begun)
  BY <1>4, <1>7 DEF Epx
<1> DEFINE e == EdptXfer(begun, Ctl, len)
           a == Ctl
           b == 0
<1>9. /\ SlotsOf(begun, a) # {} /\ i = SlotOf(begun, a) /\ b = BufOf(begun.pool[i])
      /\ begun.pool[i].mps > 0 /\ a \in Addresses /\ len \in Nat /\ e = EdptXfer(begun, a, len)
      /\ a.in /\ a.num = 0
  BY <1>7, <1>8, EpxFacts, Addressing DEF StatusLength, Ctl
<1> HIDE DEF a, i, b, e
<1>10. /\ e \in DrvSet /\ Aside(begun, e, i, b)
       /\ e.active = i /\ e.level = begun.level /\ e.out = begun.out
       /\ e.sie = (IF a.in THEN "in" ELSE "out")
       /\ e.trans = [kind |-> IF a.in THEN "in" ELSE "out", num |-> a.num]
       /\ e.pool[i].addr = a /\ e.pool[i].mps = begun.pool[i].mps
       /\ e.pool[i].inum = begun.pool[i].inum
       /\ e.pool[i].rem = Rest(len, begun.pool[i].mps) /\ e.pool[i].xfer = 0 /\ e.pool[i].user
       /\ e.bufs[b].pid = PidFor(begun.pool[i], a)
  <2>1. TransferredAs(begun, e, a, len, i, b)
    BY <1>7, <1>9, Transferred
  <2> QED BY <2>1 DEF TransferredAs
<1> USE DEF i, b
<1>11. Epx(e) /\ Aside(d, e, 0, 0)
  BY <1>3, <1>7, <1>8, <1>10 DEF Epx, Aside
<1>12. e.bufs[0].pid = 1
  <2>1. begun.pool[0].addr # a
    BY <1>4, <1>7, EpxFacts DEF a
  <2> QED BY <1>10, <2>1 DEF PidFor
<1>13. e.reads => e.pool[0].rem = 0
  <2>1. e.reads = f.reads
    BY <1>7, <1>10 DEF Aside
  <2>2. device.ask \in Nat
    BY EpxFacts
  <2> QED BY <1>8, <1>10, <2>1, <2>2 DEF Rest, Epx
<1>14. AnswerDue(e)
  BY <1>7, <1>9, <1>10, <1>12, <1>13 DEF AnswerDue, Reading, a
<1>15. e = TransComplete(d)
  BY <1>2, <1>3, <1>5 DEF e
<1> QED BY <1>4, <1>7, <1>10, <1>11, <1>14, <1>15 DEF SetupHandledAs, Handled0

-----------------------------------------------------------------------------
(* The slots of the device's endpoints.                                    *)

\* The device's two endpoints.
LEMMA AddrFacts ==
    ASSUME Types
    PROVE  /\ Addr(1) # Addr(2)
           /\ \A k \in {1, 2} : /\ Addr(k) \in Addresses /\ Addr(k).num # 0
                                /\ Addr(k) # Ctl /\ Addr(k) # Control(FALSE)
                                /\ device.config[k].mps \in Nat /\ device.config[k].mps > 0
           /\ Addr(1).in \in BOOLEAN /\ Addr(2).in \in BOOLEAN
           /\ device # Storage => Addr(1).in /\ Addr(2).in
           /\ device = Storage => /\ Addr(1) = BulkOut /\ Addr(2) = BulkIn /\ device.ask = BulkSize
                                  /\ \A k \in {1, 2} : device.config[k].mps = BulkSize
                                                       /\ device.config[k].bulk
           /\ device # Storage => \A k \in {1, 2} : ~device.config[k].bulk
           /\ device.ask \in Nat /\ device.ask > 0
<1>1. DeviceFact(device)
  BY DeviceFacts DEF Types
<1>2. /\ Addr(1) # Addr(2) /\ device.ask \in Nat /\ device.ask > 0
      /\ device # Storage => Addr(1).in /\ Addr(2).in
  BY <1>1 DEF DeviceFact, Addr
<1>3. \A k \in {1, 2} : /\ Addr(k) \in Addresses /\ Addr(k).num # 0
                        /\ device.config[k].mps \in Nat /\ device.config[k].mps > 0
  BY <1>1 DEF DeviceFact, Addr, DescSet
<1>4. \A k \in {1, 2} : Addr(k) # Ctl /\ Addr(k) # Control(FALSE)
  BY <1>3, Addressing DEF Ctl
<1>5. Addr(1).in \in BOOLEAN /\ Addr(2).in \in BOOLEAN
  BY <1>3, Addressing
<1>6. ASSUME device = Storage
      PROVE  /\ Addr(1) = BulkOut /\ Addr(2) = BulkIn /\ device.ask = BulkSize
             /\ \A k \in {1, 2} : device.config[k].mps = BulkSize /\ device.config[k].bulk
  <2> DEFINE x == Descriptor(BulkOut, TRUE, BulkSize)
             y == Descriptor(BulkIn, TRUE, BulkSize)
  <2>1. device.config = <<x, y>> /\ device.ask = BulkSize
    BY <1>6 DEF Storage
  <2>2. /\ x.addr = BulkOut /\ y.addr = BulkIn /\ x.mps = BulkSize /\ y.mps = BulkSize
        /\ x.bulk /\ y.bulk
    BY DEF Descriptor
  <2> HIDE DEF x, y
  <2>3. device.config[1] = x /\ device.config[2] = y
    BY <2>1
  <2> QED BY <2>1, <2>2, <2>3 DEF Addr
<1>7. ASSUME device # Storage PROVE \A k \in {1, 2} : ~device.config[k].bulk
  <2>1. PICK m1 \in InterruptSizes, m2 \in InterruptSizes, a \in Asks : device = Hid(m1, m2, a)
    BY <1>7 DEF Types, Devices
  <2> DEFINE x == Descriptor(Address(1, TRUE), FALSE, m1)
             y == Descriptor(Address(2, TRUE), FALSE, m2)
  <2>2. device.config = <<x, y>>
    BY <2>1 DEF Hid
  <2>3. ~x.bulk /\ ~y.bulk
    BY DEF Descriptor
  <2> HIDE DEF x, y
  <2>4. device.config[1] = x /\ device.config[2] = y
    BY <2>2
  <2> QED BY <2>3, <2>4
<1> QED BY <1>2, <1>3, <1>4, <1>5, <1>6, <1>7

\* The endpoints have the first two slots, one each.
Placed ==
    /\ \A k \in {1, 2} : drv.pool[k].conf =>
          /\ Belongs(drv.pool, k, device.config[k])
          /\ SlotsOf(drv, Addr(k)) # {} /\ SlotOf(drv, Addr(k)) = k
          /\ drv.pool[k].mps = device.config[k].mps
          /\ BufOf(drv.pool[k]) = IF device = Storage THEN 0 ELSE k
    /\ \A i \in 1..Slots : drv.pool[i].conf =>
          IF device = Storage THEN drv.pool[i].inum = NotInterrupt
          ELSE drv.pool[i].inum = i - 1 /\ BufOf(drv.pool[i]) = i /\ drv.pool[i].inum # NotInterrupt

\* They do.
LEMMA Places ==
    ASSUME SlotInv, Slots > 2
    PROVE  Placed
<1> DEFINE c(k) == device.config[k]
<1>1. PICK n \in 0..Slots : Taken(drv.pool, HalfOpen, n)
  BY DEF SlotInv, PoolInv
<1>2. 1 % 2 = 1 /\ 2 % 2 # 1
  OBVIOUS
<1>3. /\ drv.pool[1].conf => Belongs(drv.pool, 1, c(1))
      /\ drv.pool[2].conf => Belongs(drv.pool, 2, c(2)) /\ drv.pool[1].conf
  <2>1. CASE n = 0
    BY <1>1, <2>1 DEF Taken
  <2>2. CASE n = 1
    BY <1>1, <1>2, <2>2 DEF Taken
  <2>3. CASE n = 2
    BY <1>1, <1>2, <2>3 DEF Taken
  <2>4. CASE n > 2
    <3>1. 1 < n /\ 2 < n /\ 1 \in 1..Slots /\ 2 \in 1..Slots
      BY <2>4
    <3> QED BY <1>1, <1>2, <3>1 DEF Taken
  <2> QED BY <2>1, <2>2, <2>3, <2>4
<1>4. Types
  BY DEF SlotInv
<1>5. ASSUME NEW i \in 1..Slots, drv.pool[i].conf
      PROVE  IF device = Storage THEN drv.pool[i].inum = NotInterrupt
             ELSE drv.pool[i].inum = i - 1 /\ BufOf(drv.pool[i]) = i
                  /\ drv.pool[i].inum # NotInterrupt
  <2>1. \E k \in {1, 2} : Belongs(drv.pool, i, c(k))
    <3>1. i <= n
      BY <1>1, <1>5 DEF Taken
    <3>2. CASE i < n
      BY <1>1, <3>2 DEF Taken
    <3>3. CASE i = n
      BY <1>1, <3>3 DEF Taken
    <3> QED BY <3>1, <3>2, <3>3
  <2>2. i - 1 # NotInterrupt /\ (i - 1) + 1 = i
    BY DEF NotInterrupt
  <2> QED BY <1>4, <2>1, <2>2, AddrFacts DEF Belongs, BufOf
<1>6. ASSUME NEW k \in {1, 2}, drv.pool[k].conf
      PROVE  SlotsOf(drv, Addr(k)) # {} /\ SlotOf(drv, Addr(k)) = k
  <2> DEFINE S == SlotsOf(drv, Addr(k))
  <2>1. S = {i \in 1..Slots : drv.pool[i].conf /\ drv.pool[i].addr = Addr(k)}
    BY <1>4, AddrFacts DEF SlotsOf
  <2>2. k \in S
    BY <1>3, <1>6, <2>1 DEF Belongs, Addr
  <2>3. k = 2 => 1 \notin S
    <3>1. k = 2 => drv.pool[1].addr = Addr(1)
      BY <1>3, <1>6 DEF Belongs, Addr
    <3> QED BY <1>4, <2>1, <3>1, AddrFacts
  <2>4. S \subseteq Nat /\ S # {} /\ \A i \in S : i >= 1
    BY <2>1, <2>2
  <2>5. Min(S) \in S /\ \A i \in S : Min(S) <= i
    <3> HIDE DEF S
    <3> QED BY <2>4, Lowest
  <2> HIDE DEF S
  <2>6. Min(S) = k
    <3>1. Min(S) <= k /\ Min(S) >= 1 /\ Min(S) \in Nat
      BY <2>2, <2>4, <2>5
    <3>2. k = 2 => Min(S) # 1
      BY <2>3, <2>5
    <3> QED BY <3>1, <3>2
  <2> QED BY <2>2, <2>6 DEF S, SlotOf
<1>7. ASSUME NEW k \in {1, 2}, drv.pool[k].conf
      PROVE  /\ Belongs(drv.pool, k, c(k)) /\ drv.pool[k].mps = c(k).mps
             /\ BufOf(drv.pool[k]) = IF device = Storage THEN 0 ELSE k
  <2>1. k \in 1..Slots /\ Belongs(drv.pool, k, c(k))
    BY <1>3, <1>7
  <2> QED BY <1>5, <1>7, <2>1 DEF Belongs, BufOf
<1> QED BY <1>5, <1>6, <1>7 DEF Placed

\* Once the configuration has been read an endpoint is open or about to be opened.
LEMMA Opening ==
    ASSUME SlotInv, Slots > 2, drivers.configured, NEW k \in {1, 2}
    PROVE  drv.pool[k].conf \/ \E j \in DOMAIN inbox : inbox[j] = Open(device.config[k])
<1>1. PICK n \in 0..Slots : Taken(drv.pool, HalfOpen, n) /\ Told(n)
  BY DEF SlotInv, PoolInv
<1>2. 1 % 2 = 1
  OBVIOUS
<1>3. CASE n = 0
  <2>1. PICK j \in DOMAIN inbox : inbox[j] = Open(device.config[1])
    BY <1>1, <1>3 DEF Told
  <2>2. j + 1 \in DOMAIN inbox /\ inbox[j+1] = Open(device.config[2])
    BY <2>1, OpenFacts DEF SlotInv, PairInv
  <2> QED BY <2>1, <2>2
<1>4. CASE n = 1
  <2>1. drv.pool[1].conf /\ HalfOpen
    BY <1>1, <1>2, <1>4 DEF Taken
  <2>2. 1 \in DOMAIN inbox /\ inbox[1] = Open(device.config[2])
    BY <2>1 DEF HalfOpen, SlotInv, Types
  <2> QED BY <2>1, <2>2
<1>5. CASE n > 1
  <2>1. k \in 1..Slots /\ k <= n
    BY <1>5
  <2> QED BY <1>1, <2>1 DEF Taken
<1> QED BY <1>3, <1>4, <1>5

\* The endpoint that EDPT_OPEN opens: what is not its description stays.
OpenedAs(d, e, i, f) ==
    /\ e.pool = [d.pool EXCEPT ![i] = f]
    /\ f.pid = 0 /\ f.rem = d.pool[i].rem /\ f.xfer = d.pool[i].xfer /\ f.user = d.pool[i].user
    /\ f.conf
    /\ e.bufs = d.bufs /\ e.reads = d.reads /\ e.panic = d.panic /\ Engine(d, e)

\* EDPT_OPEN takes a slot without a failed assertion.
LEMMA OpensSlot ==
    ASSUME SlotInv, Slots > 2, NEW k \in {1, 2}, NEW e, e = EdptOpen(drv, device.config[k]),
           NEW i, i = NextFreeSlot(drv), i \in 1..Slots
    PROVE  \E f : OpenedAs(drv, e, i, f)
<1> DEFINE x == device.config[k]
           old == drv.pool[i]
           inum == IF x.bulk THEN NotInterrupt ELSE IF old.conf THEN old.inum ELSE i - 1
           set == [old EXCEPT !.inum = inum]
           f == EndpointInit(set, x.addr, x.mps)
           panic == drv.panic \/ (~x.bulk /\ inum = NotInterrupt)
<1>1. Types /\ Placed
  BY Places DEF SlotInv
<1>2. old \in EpSet /\ drv.pool \in [0..Slots -> EpSet] /\ drv \in DrvSet
  BY <1>1 DEF Types, DrvSet
<1>3. x.addr.num # 0
  BY <1>1, AddrFacts DEF Addr
<1>4. f.pid = 0 /\ f.rem = old.rem /\ f.xfer = old.xfer /\ f.user = old.user /\ f.conf
  <2> HIDE DEF inum, old, x
  <2> QED BY <1>2, <1>3 DEF EndpointInit, EpSet
<1>5. e = [drv EXCEPT !.pool[i] = f, !.panic = panic]
  BY DEF EdptOpen, OpenSlot
<1>6. panic = drv.panic
  <2>1. ~(~x.bulk /\ inum = NotInterrupt)
    <3>1. i - 1 # NotInterrupt
      BY DEF NotInterrupt
    <3>2. x.bulk <=> device = Storage
      BY <1>1, AddrFacts
    <3> QED BY <1>1, <3>1, <3>2 DEF Placed
  <2>2. drv.panic \in BOOLEAN
    BY <1>2 DEF DrvSet
  <2> HIDE DEF x, inum
  <2> QED BY <2>1, <2>2
<1> HIDE DEF f, panic, old
<1>7. /\ e.pool = [drv.pool EXCEPT ![i] = f]
      /\ e.bufs = drv.bufs /\ e.reads = drv.reads /\ e.panic = panic /\ Engine(drv, e)
  BY <1>2, <1>5 DEF DrvSet, Engine
<1> QED BY <1>4, <1>6, <1>7 DEF OpenedAs, old

\* What EDPT_OPEN leaves of the driver, whichever slot it takes.
OpenLeaves ==
    /\ drv'.pool[0] = drv.pool[0] /\ drv'.bufs = drv.bufs /\ drv'.reads = drv.reads
    /\ drv'.panic = drv.panic /\ Engine(drv, drv')
    /\ \A k \in {1, 2} :
          /\ drv'.pool[k].pid = drv.pool[k].pid /\ drv'.pool[k].rem = drv.pool[k].rem
          /\ drv'.pool[k].user = drv.pool[k].user
          /\ drv.pool[k].conf => drv'.pool[k] = drv.pool[k]
          /\ Head(inbox) = Open(device.config[k]) => drv'.pool[k].conf

\* EDPT_OPEN for one of the first two slots finds it as it was at first.
LEMMA Opens12 ==
    ASSUME SlotInv, Slots > 2, DriverInv, OpenEndpoint
    PROVE  OpenLeaves
<1> DEFINE x == Head(inbox)
           i == NextFreeSlot(drv)
<1>1. /\ inbox # <<>> /\ x.type = "open" /\ inbox' = Tail(inbox) /\ drv' = EdptOpen(drv, x.desc)
      /\ UNCHANGED <<device, bits, transDone, outbox, dev, drivers>>
  BY DEF OpenEndpoint, Dequeue
<1>2. /\ x = IF HalfOpen THEN Open(device.config[2]) ELSE Open(device.config[1])
      /\ Open(device.config[1]) # Open(device.config[2])
  BY <1>1, TakenMessage, OpenFacts DEF SlotInv
<1>3. PICK k \in {1, 2} : x.desc = device.config[k] /\ (k = 2 <=> HalfOpen)
  BY <1>2, OpenFacts DEF SlotInv
<1>4. PICK n \in 0..Slots : Taken(drv.pool, HalfOpen, n) /\ Told(n)
  BY DEF SlotInv, PoolInv
<1>5. i = (IF n < Slots THEN n + 1 ELSE Slots) /\ i \in 1..Slots
  BY <1>4, Free DEF SlotInv, Types
<1> HIDE DEF i, x
<1>6. PICK f : OpenedAs(drv, drv', i, f)
  BY <1>1, <1>3, <1>5, OpensSlot DEF i
<1>7. drv.pool \in [0..Slots -> EpSet]
  BY DEF SlotInv, Types, DrvSet
<1>8. drv'.pool[i] = f /\ \A j \in 0..Slots : j # i => drv'.pool[j] = drv.pool[j]
  BY <1>5, <1>6, <1>7 DEF OpenedAs
<1>9. i \in {1, 2} => ~drv.pool[i].conf /\ drv.pool[i].pid = 0
  <2> SUFFICES ASSUME i \in {1, 2} PROVE ~drv.pool[i].conf
    BY DEF DriverInv
  <2>1. n < i
    BY <1>5
  <2> QED BY <1>4, <1>5, <2>1 DEF Taken
<1>10. \A j \in {1, 2} :
          /\ drv'.pool[j].pid = drv.pool[j].pid /\ drv'.pool[j].rem = drv.pool[j].rem
          /\ drv'.pool[j].user = drv.pool[j].user
          /\ drv.pool[j].conf => drv'.pool[j] = drv.pool[j]
  BY <1>6, <1>8, <1>9 DEF OpenedAs
<1>11. x = Open(device.config[1]) => drv'.pool[1].conf
  <2>1. n >= 1 => drv.pool[1].conf
    BY <1>4 DEF Taken
  <2>2. n = 0 => i = 1
    BY <1>5
  <2> QED BY <1>6, <1>8, <1>10, <2>1, <2>2 DEF OpenedAs
<1>12. x = Open(device.config[2]) => drv'.pool[2].conf
  <2> SUFFICES ASSUME x = Open(device.config[2]) PROVE drv'.pool[2].conf
    OBVIOUS
  <2>1. n # 0
    BY <1>2, <1>4 DEF Taken
  <2>2. n >= 2 => drv.pool[2].conf
    BY <1>4 DEF Taken
  <2>3. n = 1 => i = 2
    BY <1>5
  <2> QED BY <1>6, <1>8, <1>10, <2>1, <2>2, <2>3 DEF OpenedAs
<1> QED BY <1>5, <1>6, <1>8, <1>10, <1>11, <1>12 DEF OpenLeaves, OpenedAs, x

-----------------------------------------------------------------------------
(* Messages and packets come and go.                                       *)

NoSetup == \A k \in DOMAIN inbox : inbox[k].type # "setup"

\* No endpoint is closed.
StillOpen == \A k \in {1, 2} : drv.pool[k].conf => drv'.pool[k].conf

\* The inbox stays as it is.
LEMMA InboxStays ==
    ASSUME InboxInv, UNCHANGED <<device, inbox>>, StillOpen
    PROVE  InboxInv' /\ Asked' = Asked
<1>1. Asked' = Asked
  BY DEF Asked
<1>2. \A a : Ask(a)' = Ask(a)
  BY DEF Ask
<1>3. \A k : Addr(k)' = Addr(k)
  BY DEF Addr
<1>4. ASSUME NEW k \in DOMAIN inbox, inbox[k].type = "data"
      PROVE  \E i \in {1, 2} :
                /\ inbox[k] = Ask(Addr(i))
                /\ drv'.pool[i].conf \/ \E j \in 1..(k-1) : inbox[j] = Open(device.config[i])
  BY <1>4 DEF InboxInv, StillOpen
<1>5. InboxInv'
  BY <1>4 DEF InboxInv, Ask, Addr
<1> QED BY <1>1, <1>5

\* The slave takes the message at the head.
InboxTakenAs(x) ==
    /\ Asked' = IF x.type = "data" THEN Asked \ {x.addr} ELSE Asked
    /\ x.type = "data" =>
          /\ x.addr \in Asked
          /\ \E i \in {1, 2} : x = Ask(Addr(i)) /\ drv.pool[i].conf
          /\ device = Storage /\ x.addr = BulkOut => BulkIn \notin Asked
    /\ x.type = "setup" => Len(inbox) = 1
    /\ NoSetup => NoSetup'

\* The rest of the inbox is in order.
LEMMA InboxTaken ==
    ASSUME Types, InboxInv, inbox # <<>>, inbox' = Tail(inbox), device' = device, StillOpen,
           \A k \in {1, 2} : Head(inbox) = Open(device.config[k]) => drv'.pool[k].conf
    PROVE  InboxInv' /\ InboxTakenAs(Head(inbox))
<1> DEFINE s == inbox
           u == Tail(s)
           x == Head(s)
<1>1. /\ \A k \in DOMAIN u : k + 1 \in DOMAIN s /\ u[k] = s[k+1] /\ k \in Nat /\ k >= 1
      /\ \A k \in DOMAIN s : k = 1 \/ (k - 1 \in DOMAIN u /\ u[k-1] = s[k])
      /\ \A k \in DOMAIN s : k \in Nat /\ k >= 1
      /\ 1 \in DOMAIN s /\ x = s[1] /\ Len(u) = Len(s) - 1 /\ Len(s) \in Nat
      /\ DOMAIN u = 1..Len(u) /\ DOMAIN s = 1..Len(s)
  BY DEF Types
<1> HIDE DEF u, x
<1>2. inbox' = u
  BY DEF u
<1>3. \A j, k \in DOMAIN u :
          u[j].type = "data" /\ u[k].type = "data" /\ u[j].addr = u[k].addr => j = k
  <2> SUFFICES ASSUME NEW j \in DOMAIN u, NEW k \in DOMAIN u,
                      u[j].type = "data", u[k].type = "data", u[j].addr = u[k].addr
               PROVE  j = k
    OBVIOUS
  <2>1. j + 1 = k + 1
    BY <1>1 DEF InboxInv
  <2> QED BY <1>1, <2>1
<1>4. ASSUME NEW k \in DOMAIN u, u[k].type = "data"
      PROVE  \E i \in {1, 2} :
                /\ u[k] = Ask(Addr(i))
                /\ drv'.pool[i].conf \/ \E j \in 1..(k-1) : u[j] = Open(device.config[i])
  <2>1. k + 1 \in DOMAIN s /\ u[k] = s[k+1]
    BY <1>1
  <2> DEFINE m == k + 1
  <2>0. m \in DOMAIN s /\ s[m].type = "data" /\ s[m] = u[k]
    BY <1>4, <2>1
  <2> HIDE DEF m
  <2>2. PICK i \in {1, 2} :
           /\ s[m] = Ask(Addr(i))
           /\ drv.pool[i].conf \/ \E j \in 1..(m-1) : s[j] = Open(device.config[i])
    BY <2>0 DEF InboxInv
  <2>3. CASE drv.pool[i].conf
    BY <2>0, <2>2, <2>3 DEF StillOpen
  <2>4. ASSUME NEW j \in 1..(m-1), s[j] = Open(device.config[i])
        PROVE  drv'.pool[i].conf \/ \E h \in 1..(k-1) : u[h] = Open(device.config[i])
    <3>1. j \in DOMAIN s /\ j \in 1..k
      BY <1>1, <2>1 DEF m
    <3>2. CASE j = 1
      BY <1>1, <2>4, <3>2 DEF x
    <3>3. CASE j # 1
      <4>1. j - 1 \in 1..(k-1) /\ u[j-1] = Open(device.config[i])
        BY <1>1, <2>4, <3>1, <3>3
      <4> QED BY <4>1
    <3> QED BY <3>2, <3>3
  <2> QED BY <2>0, <2>2, <2>3, <2>4
<1>5. \A k \in DOMAIN u : u[k].type # "setup"
  <2> SUFFICES ASSUME NEW k \in DOMAIN u, u[k].type = "setup" PROVE FALSE
    OBVIOUS
  <2>1. Len(s) = 1
    BY <1>1 DEF InboxInv
  <2> QED BY <1>1, <2>1
<1>6. device = Storage => \A j, k \in DOMAIN u : u[j] = Ask(BulkIn) /\ u[k] = Ask(BulkOut) => j < k
  <2> SUFFICES ASSUME device = Storage, NEW j \in DOMAIN u, NEW k \in DOMAIN u,
                      u[j] = Ask(BulkIn), u[k] = Ask(BulkOut)
               PROVE  j < k
    OBVIOUS
  <2>1. j + 1 < k + 1
    BY <1>1 DEF InboxInv
  <2> QED BY <1>1, <2>1
<1>7. InboxInv'
  <2>1. \A k \in DOMAIN u : u[k].type = "data" =>
          \E i \in {1, 2} :
             /\ u[k] = Ask(Addr(i))'
             /\ drv'.pool[i].conf \/ \E j \in 1..(k-1) : u[j] = Open(device.config[i])
    BY <1>4 DEF Ask, Addr
  <2>2. device = Storage => \A j, k \in DOMAIN u :
            u[j] = Ask(BulkIn)' /\ u[k] = Ask(BulkOut)' => j < k
    BY <1>6 DEF Ask
  <2> QED BY <1>2, <1>3, <1>5, <2>1, <2>2 DEF InboxInv
<1>8. Asked = {s[k].addr : k \in {j \in DOMAIN s : s[j].type = "data"}}
  BY DEF Asked
<1>9. Asked' = {u[k].addr : k \in {j \in DOMAIN u : u[j].type = "data"}}
  BY <1>2 DEF Asked
<1>10. Asked' = IF x.type = "data" THEN Asked \ {x.addr} ELSE Asked
  <2>1. ASSUME NEW k \in DOMAIN u, u[k].type = "data"
        PROVE  u[k].addr \in Asked /\ (x.type = "data" => u[k].addr # x.addr)
    <3>1. k + 1 \in DOMAIN s /\ u[k] = s[k+1] /\ k + 1 # 1
      BY <1>1
    <3> QED BY <1>1, <1>8, <2>1, <3>1 DEF InboxInv
  <2>2. ASSUME NEW k \in DOMAIN s, s[k].type = "data", k # 1
        PROVE  s[k].addr \in Asked'
    <3>1. k - 1 \in DOMAIN u /\ u[k-1] = s[k]
      BY <1>1, <2>2
    <3> QED BY <1>9, <2>2, <3>1
  <2>3. \A a : a \in Asked' => a \in Asked /\ (x.type = "data" => a # x.addr)
    BY <1>9, <2>1
  <2>4. \A a : a \in Asked => a \in Asked' \/ (x.type = "data" /\ a = x.addr)
    BY <1>1, <1>8, <2>2
  <2>5. CASE x.type = "data"
    <3>1. Asked' = Asked \ {x.addr}
      BY <2>3, <2>4, <2>5
    <3> QED BY <2>5, <3>1
  <2>6. CASE x.type # "data"
    <3>1. Asked' = Asked
      BY <2>3, <2>4, <2>6
    <3> QED BY <2>6, <3>1
  <2> QED BY <2>5, <2>6
<1>11. x.type = "data" =>
          /\ x.addr \in Asked
          /\ \E i \in {1, 2} : x = Ask(Addr(i)) /\ drv.pool[i].conf
          /\ device = Storage /\ x.addr = BulkOut => BulkIn \notin Asked
  <2> SUFFICES ASSUME x.type = "data"
               PROVE  /\ x.addr \in Asked
                      /\ \E i \in {1, 2} : x = Ask(Addr(i)) /\ drv.pool[i].conf
                      /\ device = Storage /\ x.addr = BulkOut => BulkIn \notin Asked
    OBVIOUS
  <2>1. x.addr \in Asked
    BY <1>1, <1>8
  <2>2. \E i \in {1, 2} : x = Ask(Addr(i)) /\ drv.pool[i].conf
    <3>1. PICK i \in {1, 2} :
             /\ s[1] = Ask(Addr(i))
             /\ drv.pool[i].conf \/ \E j \in 1..(1-1) : s[j] = Open(device.config[i])
      BY <1>1 DEF InboxInv
    <3> QED BY <1>1, <3>1
  <2>3. ASSUME device = Storage, x.addr = BulkOut, BulkIn \in Asked PROVE FALSE
    <3>1. PICK k \in DOMAIN s : s[k].type = "data" /\ s[k].addr = BulkIn
      BY <1>8, <2>3
    <3>2. \A i \in {1, 2} : Ask(Addr(i)).addr = Addr(i)
      BY DEF Ask, Data
    <3>3. x = Ask(BulkOut)
      BY <2>2, <2>3, <3>2
    <3>4. s[k] = Ask(BulkIn)
      BY <3>1, <3>2 DEF InboxInv
    <3>5. k < 1
      BY <1>1, <2>3, <3>3, <3>4 DEF InboxInv
    <3> QED BY <1>1, <3>5
  <2> QED BY <2>1, <2>2, <2>3
<1>12. x.type = "setup" => Len(inbox) = 1
  BY <1>1 DEF InboxInv
<1>13. NoSetup'
  BY <1>2, <1>5 DEF NoSetup
<1>14. InboxTakenAs(x)
  BY <1>10, <1>11, <1>12, <1>13 DEF InboxTakenAs
<1> QED BY <1>7, <1>14 DEF x

\* A knock or data for an endpoint that has none in the inbox.
LEMMA InboxAsks ==
    ASSUME Types, InboxInv, NoSetup, NEW i \in {1, 2}, Addr(i) \notin Asked,
           inbox' = Append(inbox, Ask(Addr(i))), UNCHANGED <<device, drv>>,
           drv.pool[i].conf \/ \E j \in DOMAIN inbox : inbox[j] = Open(device.config[i]),
           device = Storage /\ i = 2 => BulkOut \notin Asked
    PROVE  InboxInv' /\ Asked' = Asked \cup {Addr(i)} /\ NoSetup'
<1> DEFINE s == inbox
           x == Ask(Addr(i))
           u == Append(s, x)
           n == Len(s)
<1>1. /\ DOMAIN s = 1..n /\ n \in Nat /\ DOMAIN u = 1..(n+1) /\ u[n+1] = x
      /\ \A k \in DOMAIN s : u[k] = s[k]
  BY DEF Types
<1>2. x.type = "data" /\ x.addr = Addr(i)
  BY DEF Ask, Data
<1> HIDE DEF u, n, x
<1>3. inbox' = u
  BY DEF u, x
<1>4. \A k \in DOMAIN s : s[k].type = "data" => s[k].addr \in Asked
  BY DEF Asked
<1>5. \A j, k \in DOMAIN u :
          u[j].type = "data" /\ u[k].type = "data" /\ u[j].addr = u[k].addr => j = k
  <2>1. \A k \in DOMAIN u : k \in DOMAIN s \/ k = n + 1
    BY <1>1
  <2>2. \A k \in DOMAIN s : u[k].type = "data" => u[k].addr # x.addr
    BY <1>1, <1>2, <1>4
  <2>3. \A j, k \in DOMAIN s :
          u[j].type = "data" /\ u[k].type = "data" /\ u[j].addr = u[k].addr => j = k
    BY <1>1 DEF InboxInv
  <2> QED BY <1>1, <2>1, <2>2, <2>3
<1>6. ASSUME NEW k \in DOMAIN u, u[k].type = "data"
      PROVE  \E h \in {1, 2} :
                /\ u[k] = Ask(Addr(h))
                /\ drv.pool[h].conf \/ \E j \in 1..(k-1) : u[j] = Open(device.config[h])
  <2>1. CASE k \in DOMAIN s
    <3>1. PICK h \in {1, 2} :
                /\ s[k] = Ask(Addr(h))
                /\ drv.pool[h].conf \/ \E j \in 1..(k-1) : s[j] = Open(device.config[h])
      BY <1>1, <1>6, <2>1 DEF InboxInv
    <3>2. \A j \in 1..(k-1) : u[j] = s[j]
      BY <1>1, <2>1
    <3> QED BY <1>1, <2>1, <3>1, <3>2
  <2>2. CASE k = n + 1
    <3>1. u[k] = Ask(Addr(i))
      BY <1>1, <2>2 DEF x
    <3>2. drv.pool[i].conf \/ \E j \in 1..(k-1) : u[j] = Open(device.config[i])
      <4>1. k - 1 = n
        BY <1>1, <2>2
      <4> QED BY <1>1, <4>1
    <3> QED BY <3>1, <3>2
  <2> QED BY <1>1, <2>1, <2>2
<1>7. \A k \in DOMAIN u : u[k].type # "setup"
  BY <1>1, <1>2 DEF NoSetup
<1>8. device = Storage => \A j, k \in DOMAIN u : u[j] = Ask(BulkIn) /\ u[k] = Ask(BulkOut) => j < k
  <2> SUFFICES ASSUME device = Storage, NEW j \in DOMAIN u, NEW k \in DOMAIN u,
                      u[j] = Ask(BulkIn), u[k] = Ask(BulkOut)
               PROVE  j < k
    OBVIOUS
  <2>1. Ask(BulkIn) # Ask(BulkOut) /\ Ask(BulkOut).type = "data" /\ Ask(BulkOut).addr = BulkOut
    BY Addressing DEF Ask, Data
  <2>2. CASE j \in DOMAIN s /\ k \in DOMAIN s
    BY <1>1, <2>2 DEF InboxInv
  <2>3. CASE j = n + 1 /\ k \in DOMAIN s
    <3>1. x = Ask(BulkIn)
      BY <1>1, <2>3
    <3>2. i = 2
      BY <1>2, <3>1, AddrFacts DEF Ask, Data
    <3>3. BulkOut \in Asked
      BY <1>1, <1>4, <2>1, <2>3
    <3> QED BY <3>2, <3>3
  <2>4. CASE j \in DOMAIN s /\ k = n + 1
    BY <1>1, <2>4
  <2>5. CASE j = n + 1 /\ k = n + 1
    BY <1>1, <2>1, <2>5
  <2> QED BY <1>1, <2>2, <2>3, <2>4, <2>5
<1>9. InboxInv'
  <2>1. \A k \in DOMAIN u : u[k].type = "data" =>
          \E h \in {1, 2} :
             /\ u[k] = Ask(Addr(h))'
             /\ drv'.pool[h].conf \/ \E j \in 1..(k-1) : u[j] = Open(device.config[h])
    BY <1>6 DEF Ask, Addr
  <2>2. device = Storage => \A j, k \in DOMAIN u :
            u[j] = Ask(BulkIn)' /\ u[k] = Ask(BulkOut)' => j < k
    BY <1>8 DEF Ask
  <2> QED BY <1>3, <1>5, <1>7, <2>1, <2>2 DEF InboxInv
<1>10. Asked' = Asked \cup {Addr(i)}
  <2>1. Asked' = {u[k].addr : k \in {j \in DOMAIN u : u[j].type = "data"}}
    BY <1>3 DEF Asked
  <2>2. \A a : a \in Asked' <=> a \in Asked \/ a = Addr(i)
    <3>1. \A k \in DOMAIN u : u[k].type = "data" => u[k].addr \in Asked \/ u[k].addr = Addr(i)
      BY <1>1, <1>2, <1>4
    <3>2. \A a \in Asked : \E k \in DOMAIN u : u[k].type = "data" /\ u[k].addr = a
      BY <1>1 DEF Asked
    <3>3. n + 1 \in DOMAIN u /\ u[n+1].type = "data" /\ u[n+1].addr = Addr(i)
      BY <1>1, <1>2
    <3> QED BY <2>1, <3>1, <3>2, <3>3
  <2> QED BY <2>2
<1>11. NoSetup'
  BY <1>3, <1>7 DEF NoSetup
<1> QED BY <1>9, <1>10, <1>11

\* The endpoints of a configuration are to be opened.
LEMMA InboxOpens ==
    ASSUME Types, InboxInv, NoSetup, inbox' = inbox \o Opens, UNCHANGED <<device, drv>>
    PROVE  InboxInv' /\ Asked' = Asked /\ NoSetup'
<1> DEFINE s == inbox
           o == Opens
           u == s \o o
           n == Len(s)
<1>0. o \in Seq(MessageSet) /\ Len(o) = 2 /\ o[1].type = "open" /\ o[2].type = "open"
  <2>1. \A i \in 1..2 : Open(device.config[i]) \in MessageSet
    BY DeviceFacts DEF Types, DeviceFact, Open, MessageSet
  <2> QED BY <2>1, OpenFacts DEF Opens
<1>1. /\ DOMAIN s = 1..n /\ n \in Nat /\ DOMAIN u = 1..(n+2)
      /\ \A k \in DOMAIN s : u[k] = s[k]
      /\ \A k \in DOMAIN u : k \in DOMAIN s \/ u[k].type = "open"
  <2> HIDE DEF o
  <2>1. s \in Seq(MessageSet)
    BY DEF Types
  <2>2. /\ Len(u) = n + 2 /\ DOMAIN u = 1..(n + 2) /\ DOMAIN s = 1..n /\ n \in Nat
        /\ \A k \in 1..n : u[k] = s[k]
        /\ u[n+1] = o[1] /\ u[n+2] = o[2]
    BY <1>0, <2>1, TwoMore
  <2> HIDE DEF u, n
  <2> QED BY <1>0, <2>2
<1> HIDE DEF u, n, o
<1>2. inbox' = u
  BY DEF u, o
<1>3. \A k \in DOMAIN u : u[k].type \in {"data", "setup"} => k \in DOMAIN s /\ u[k] = s[k]
  BY <1>1
<1>4. ASSUME NEW k \in DOMAIN u, u[k].type = "data"
      PROVE  \E h \in {1, 2} :
                /\ u[k] = Ask(Addr(h))
                /\ drv.pool[h].conf \/ \E j \in 1..(k-1) : u[j] = Open(device.config[h])
  <2>1. k \in DOMAIN s /\ u[k] = s[k]
    BY <1>3, <1>4
  <2>2. \A j \in 1..(k-1) : u[j] = s[j]
    BY <1>1, <2>1
  <2> QED BY <1>4, <2>1, <2>2 DEF InboxInv
<1>5. \A k \in DOMAIN u : u[k].type # "setup"
  BY <1>3 DEF NoSetup
<1>6. device = Storage => \A j, k \in DOMAIN u : u[j] = Ask(BulkIn) /\ u[k] = Ask(BulkOut) => j < k
  <2>1. Ask(BulkIn).type = "data" /\ Ask(BulkOut).type = "data"
    BY DEF Ask, Data
  <2> QED BY <1>3, <2>1 DEF InboxInv
<1>7. InboxInv'
  <2>1. \A k \in DOMAIN u : u[k].type = "data" =>
          \E h \in {1, 2} :
             /\ u[k] = Ask(Addr(h))'
             /\ drv'.pool[h].conf \/ \E j \in 1..(k-1) : u[j] = Open(device.config[h])
    BY <1>4 DEF Ask, Addr
  <2>2. device = Storage => \A j, k \in DOMAIN u :
            u[j] = Ask(BulkIn)' /\ u[k] = Ask(BulkOut)' => j < k
    BY <1>6 DEF Ask
  <2>3. \A j, k \in DOMAIN u :
          u[j].type = "data" /\ u[k].type = "data" /\ u[j].addr = u[k].addr => j = k
    BY <1>3 DEF InboxInv
  <2> QED BY <1>2, <1>5, <2>1, <2>2, <2>3 DEF InboxInv
<1>8. Asked' = Asked
  <2>1. Asked' = {u[k].addr : k \in {j \in DOMAIN u : u[j].type = "data"}}
    BY <1>2 DEF Asked
  <2>2. \A k \in DOMAIN s : k \in DOMAIN u /\ u[k] = s[k]
    BY <1>1
  <2>3. \A a : a \in Asked' <=> a \in Asked
    BY <1>3, <2>1, <2>2 DEF Asked
  <2> QED BY <2>3
<1>9. NoSetup'
  BY <1>2, <1>5 DEF NoSetup
<1> QED BY <1>7, <1>8, <1>9

\* A control request comes into an empty inbox.
LEMMA InboxRequests ==
    ASSUME Types, inbox = <<>>, NEW in \in BOOLEAN,
           inbox' = inbox \o <<[type |-> "setup", reads |-> in]>>
    PROVE  InboxInv' /\ Asked' = {} /\ Len(inbox') = 1 /\ inbox'[1].type = "setup" /\ Asked = {}
<1> DEFINE x == [type |-> "setup", reads |-> in]
           u == <<x>>
<1>1. x.type = "setup"
  OBVIOUS
<1> HIDE DEF x
<1>2. inbox' = u
  BY DEF x
<1>3. Len(u) = 1 /\ DOMAIN u = {1} /\ u[1] = x
  OBVIOUS
<1> HIDE DEF u
<1>4. \A k \in DOMAIN u : u[k].type = "setup"
  BY <1>1, <1>3
<1>5. Asked' = {} /\ Asked = {}
  BY <1>2, <1>4 DEF Asked
<1>6. Ask(BulkIn)'.type = "data"
  BY DEF Ask, Data
<1>7. InboxInv'
  BY <1>2, <1>3, <1>4, <1>6 DEF InboxInv
<1> QED BY <1>1, <1>2, <1>3, <1>5, <1>7

\* A packet of an endpoint that has none in the outbox.
LEMMA Adds ==
    ASSUME NEW s \in Seq(PacketSet), NEW x \in PacketSet, Proper(s), x.addr \notin From(s),
           x.addr \in {Ctl, Addr(1), Addr(2)}, x.addr.in => x.src = x.addr
    PROVE  /\ Append(s, x) \in Seq(PacketSet) /\ Proper(Append(s, x))
           /\ From(Append(s, x)) = From(s) \cup {x.addr}
<1> DEFINE u == Append(s, x)
           n == Len(s)
<1>1. /\ DOMAIN s = 1..n /\ n \in Nat /\ DOMAIN u = 1..(n+1) /\ u[n+1] = x
      /\ \A k \in DOMAIN s : u[k] = s[k]
      /\ u \in Seq(PacketSet)
  OBVIOUS
<1> HIDE DEF u, n
<1>2. \A k \in DOMAIN s : s[k].addr \in From(s)
  BY DEF From
<1>3. \A k \in DOMAIN u : k \in DOMAIN s \/ k = n + 1
  BY <1>1
<1>4. From(u) = From(s) \cup {x.addr}
  BY <1>1, <1>3 DEF From
<1>5. \A j, k \in DOMAIN u : u[j].addr = u[k].addr => j = k
  BY <1>1, <1>2, <1>3 DEF Proper
<1>6. \A k \in DOMAIN u :
          /\ u[k].addr \in {Ctl, Addr(1), Addr(2)}
          /\ u[k].addr.in /\ u[k].len > 0 => u[k].src = u[k].addr
  BY <1>1, <1>3 DEF Proper
<1>7. Proper(u)
  BY <1>5, <1>6 DEF Proper
<1> QED BY <1>1, <1>4, <1>7 DEF u

\* The master takes a packet.
LEMMA OutboxTaken ==
    ASSUME Types, OutboxInv, device' = device, outbox # <<>>, outbox' = Tail(outbox)
    PROVE  /\ OutboxInv' /\ Answers' = Answers \ {Head(outbox).addr}
           /\ Head(outbox).addr \in Answers /\ Head(outbox).addr \in {Ctl, Addr(1), Addr(2)}
<1> DEFINE s == outbox
           u == Tail(s)
           x == Head(s)
<1>1. /\ \A k \in DOMAIN u : k + 1 \in DOMAIN s /\ u[k] = s[k+1] /\ k \in Nat /\ k >= 1
      /\ \A k \in DOMAIN s : k = 1 \/ (k - 1 \in DOMAIN u /\ u[k-1] = s[k])
      /\ 1 \in DOMAIN s /\ x = s[1]
  BY DEF Types
<1> HIDE DEF u, x
<1>2. outbox' = u
  BY DEF u
<1>3. \A j, k \in DOMAIN s : s[j].addr = s[k].addr => j = k
  BY DEF OutboxInv, Proper
<1>4. \A j, k \in DOMAIN u : u[j].addr = u[k].addr => j = k
  <2> SUFFICES ASSUME NEW j \in DOMAIN u, NEW k \in DOMAIN u, u[j].addr = u[k].addr
               PROVE  j = k
    OBVIOUS
  <2>1. j + 1 = k + 1
    BY <1>1, <1>3
  <2> QED BY <1>1, <2>1
<1>5. \A k \in DOMAIN u :
          /\ u[k].addr \in {Ctl, Addr(1), Addr(2)}
          /\ u[k].addr.in /\ u[k].len > 0 => u[k].src = u[k].addr
  BY <1>1 DEF OutboxInv, Proper
<1>6. OutboxInv'
  <2>1. Ctl' = Ctl /\ Addr(1)' = Addr(1) /\ Addr(2)' = Addr(2)
    BY DEF Ctl, Addr
  <2> QED BY <1>2, <1>4, <1>5, <2>1 DEF OutboxInv, Proper
<1>7. Answers' = {u[k].addr : k \in DOMAIN u} /\ Answers = {s[k].addr : k \in DOMAIN s}
  BY <1>2 DEF Answers, From
<1>8. Answers' = Answers \ {x.addr}
  <2>1. \A k \in DOMAIN u : u[k].addr \in Answers /\ u[k].addr # x.addr
    <3> SUFFICES ASSUME NEW k \in DOMAIN u PROVE u[k].addr \in Answers /\ u[k].addr # x.addr
      OBVIOUS
    <3>1. k + 1 \in DOMAIN s /\ u[k] = s[k+1] /\ k + 1 # 1
      BY <1>1
    <3> QED BY <1>1, <1>3, <1>7, <3>1
  <2>2. \A k \in DOMAIN s : s[k].addr \in Answers' \/ s[k].addr = x.addr
    BY <1>1, <1>7
  <2> QED BY <1>7, <2>1, <2>2
<1>9. x.addr \in Answers /\ x.addr \in {Ctl, Addr(1), Addr(2)}
  BY <1>1, <1>7 DEF OutboxInv, Proper
<1> QED BY <1>6, <1>8, <1>9 DEF x

-----------------------------------------------------------------------------
(* What stays where it is.                                                 *)

\* Asked, Answers and what is wanted of endpoint k stay, and so do its slot and its buffer.
SamePlace(k) ==
    /\ Addr(k) \in Asked' <=> Addr(k) \in Asked
    /\ Addr(k) \in Answers' <=> Addr(k) \in Answers
    /\ Addr(k) \in drivers'.want <=> Addr(k) \in drivers.want
    /\ k \in bits' <=> k \in bits
    /\ drv'.pool[k].pid = drv.pool[k].pid
    /\ drv.pool[k].conf => drv'.pool[k] = drv.pool[k]
    /\ drv'.bufs[k] = drv.bufs[k]
    /\ dev'.pid[Addr(k)] = dev.pid[Addr(k)]

\* A report stays where it is.
LEMMA ReportStays ==
    ASSUME NEW k \in {1, 2}, ReportPlaced(k), SamePlace(k), device' = device
    PROVE  ReportPlaced(k)'
<1>1. Addr(k)' = Addr(k)
  BY DEF Addr
<1>2. \A p : Started(drv, k, p) => Started(drv', k, p)
  BY DEF Started, SamePlace
<1>4. CASE ReportNone(k)
  BY <1>1, <1>4 DEF ReportNone, SamePlace, ReportPlaced
<1>5. CASE ReportAsked(k)
  BY <1>1, <1>5 DEF ReportAsked, SamePlace, ReportPlaced
<1>6. CASE ReportAwaited(k)
  BY <1>1, <1>2, <1>6 DEF ReportAwaited, SamePlace, ReportPlaced, Started
<1>7. CASE ReportCame(k)
  BY <1>1, <1>2, <1>7 DEF ReportCame, SamePlace, ReportPlaced, Started
<1>8. CASE ReportPassed(k)
  BY <1>1, <1>8 DEF ReportPassed, SamePlace, ReportPlaced
<1> QED BY <1>4, <1>5, <1>6, <1>7, <1>8 DEF ReportPlaced

\* Without a command there is nothing under way.
LEMMA CommandIdle ==
    ASSUME CommandInv, drivers.phase = "idle"
    PROVE  NoCommand
  BY DEF CommandInv, OutQueued, OutGoing, OutGone, OutPassed, InQueued, InAwaited, InCame,
         InPassed, Sent, Due

\* Between control transfers.
LEMMA ControlNone ==
    ASSUME ControlInv, ~ControlGoing, Types
    PROVE  Idle /\ drivers.control = FALSE /\ Ctl \notin Answers
<1>1. drivers.control = FALSE /\ dev.stage = "idle" /\ ~ (0 \in bits /\ drv.active = 0)
  BY DEF ControlGoing, Types, DriversSet
<1>2. Idle
  BY <1>1 DEF ControlInv, Requested, SetupSent, SetupDone, AnswerAwaited, AnswerCame,
              AckAwaited, Acked, InProgress, Acking
<1> QED BY <1>1, <1>2 DEF Idle

\* Steps of the master that send a message leave the driver's part alone.
LEMMA DriverStays ==
    ASSUME DriverInv, UNCHANGED <<device, drv, bits, dev>>
    PROVE  DriverInv'
  BY DEF DriverInv, Ctl

\* Between control transfers other messages change nothing.
LEMMA ControlWaits ==
    ASSUME Idle, UNCHANGED <<device, drv, bits, dev>>, NoSetup', drivers'.control = FALSE,
           Ctl \notin Answers'
    PROVE  ControlInv'
<1>1. EpxIdle(drv)' = EpxIdle(drv)
  BY DEF EpxIdle
<1>2. Ctl' = Ctl
  BY DEF Ctl
<1> QED BY <1>1, <1>2 DEF ControlInv, Idle, NoSetup

\* A control request.
LEMMA NewControlKeeps ==
    ASSUME Orderly, SlotInv, OrderInv, NEW in \in BOOLEAN, NewControl(in)
    PROVE  OrderInv'
<1>1. /\ inbox = <<>> /\ drivers.phase = "idle" /\ ~transDone /\ ~ControlGoing
      /\ drivers' = [drivers EXCEPT !.control = TRUE]
      /\ inbox' = inbox \o <<[type |-> "setup", reads |-> in]>>
      /\ UNCHANGED <<device, drv, bits, transDone, outbox, dev>>
  BY DEF NewControl, Enqueue, Orderly
<1>2. Types
  BY DEF SlotInv
<1>3. Idle /\ Ctl \notin Answers
  BY <1>1, <1>2, ControlNone DEF OrderInv
<1>4. InboxInv' /\ Asked' = {} /\ Len(inbox') = 1 /\ inbox'[1].type = "setup" /\ Asked = {}
  BY <1>1, <1>2, InboxRequests
<1>5. /\ drivers'.control /\ drivers'.phase = drivers.phase /\ drivers'.want = drivers.want
      /\ ConfiguredInv'
  BY <1>1, <1>2 DEF Types, DriversSet, OrderInv, ConfiguredInv
<1>6. device = Storage => NoCommand
  BY <1>1, CommandIdle DEF OrderInv
<1>7. 0 \notin bits
  BY <1>3, <1>6 DEF OrderInv, ReportInv, NoCommand, NoBulk, Idle
<1>8. Ctl' = Ctl /\ Answers' = Answers
  BY <1>1 DEF Ctl, Answers, From
<1>9. OutboxInv' /\ DriverInv'
  BY <1>1, DriverStays DEF OrderInv, OutboxInv, Proper, Ctl, Addr
<1>10. Requested'
  BY <1>1, <1>3, <1>4, <1>5, <1>7, <1>8 DEF Requested, InProgress, Idle, EpxIdle
<1>11. device = Storage => CommandInv'
  BY <1>1, <1>4, <1>5, <1>6, <1>8 DEF CommandInv, NoCommand, NoBulk, OutPid, InPid
<1>12. device # Storage => ReportInv'
  <2> SUFFICES ASSUME device # Storage PROVE ReportInv'
    OBVIOUS
  <2>1. ReportInv
    BY DEF OrderInv
  <2>2. \A k \in {1, 2} : SamePlace(k)
    BY <1>1, <1>4, <1>5, <1>8 DEF SamePlace
  <2>3. ReportPlaced(1)' /\ ReportPlaced(2)'
    BY <1>1, <2>1, <2>2, ReportStays DEF ReportInv
  <2> QED BY <1>1, <1>5, <2>1, <2>3 DEF ReportInv
<1> QED BY <1>1, <1>4, <1>5, <1>9, <1>10, <1>11, <1>12 DEF OrderInv, ControlInv

\* A knock.
LEMMA KnockKeeps ==
    ASSUME Orderly, SlotInv, OrderInv, NEW a \in {e.addr : e \in ToSet(device.config)}, Knock(a)
    PROVE  OrderInv'
<1>1. /\ device # Storage /\ drivers.configured /\ a \notin drivers.want /\ ~ControlGoing
      /\ drivers' = [drivers EXCEPT !.want = @ \cup {a}]
      /\ inbox' = inbox \o <<Ask(a)>>
      /\ UNCHANGED <<device, drv, bits, transDone, outbox, dev>>
  BY DEF Knock, Enqueue, Orderly
<1>2. Types /\ ReportInv /\ InboxInv
  BY <1>1 DEF SlotInv, OrderInv
<1>3. Idle /\ drivers.control = FALSE /\ Ctl \notin Answers
  BY <1>1, <1>2, ControlNone DEF OrderInv
<1>4. PICK i \in {1, 2} : a = Addr(i)
  BY <1>2, DeviceFacts DEF Types, DeviceFact, Addr
<1>5. PICK k \in {1, 2} : k # i
  OBVIOUS
<1>6. Addr(k) # Addr(i)
  BY <1>2, <1>5, AddrFacts
<1>7. /\ drivers'.control = FALSE /\ drivers'.phase = drivers.phase
      /\ drivers'.want = drivers.want \cup {a} /\ ConfiguredInv'
  BY <1>1, <1>2, <1>3 DEF Types, DriversSet, ConfiguredInv
<1>8. ReportNone(i) /\ Addr(i) \notin Asked
  <2>1. ReportPlaced(i) /\ Addr(i) \notin drivers.want
    BY <1>1, <1>2, <1>4 DEF ReportInv
  <2> QED BY <2>1 DEF ReportPlaced, ReportNone, ReportAsked, ReportAwaited, ReportCame, ReportPassed
<1>9. InboxInv' /\ Asked' = Asked \cup {Addr(i)} /\ NoSetup'
  <2>1. inbox' = Append(inbox, Ask(Addr(i)))
    BY <1>1, <1>2, <1>4 DEF Types
  <2>2. NoSetup
    BY <1>3 DEF Idle, NoSetup
  <2>3. drv.pool[i].conf \/ \E j \in DOMAIN inbox : inbox[j] = Open(device.config[i])
    BY <1>1, Opening DEF Orderly
  <2> QED BY <1>1, <1>2, <1>8, <2>1, <2>2, <2>3, InboxAsks
<1>10. Answers' = Answers
  BY <1>1 DEF Answers, From
<1>11. OutboxInv' /\ DriverInv'
  BY <1>1, DriverStays DEF OrderInv, OutboxInv, Proper, Ctl, Addr
<1>12. ControlInv'
  BY <1>1, <1>3, <1>7, <1>9, <1>10, ControlWaits
<1>13. ReportPlaced(k)'
  <2>1. SamePlace(k)
    BY <1>1, <1>4, <1>6, <1>7, <1>9, <1>10 DEF SamePlace
  <2>2. ReportPlaced(k)
    BY <1>2 DEF ReportInv
  <2> QED BY <1>1, <2>1, <2>2, ReportStays
<1>14. ReportPlaced(i)'
  <2>1. Addr(i)' = Addr(i)
    BY <1>1 DEF Addr
  <2>2. ReportAsked(i)'
    BY <1>1, <1>4, <1>7, <1>8, <1>9, <1>10, <2>1 DEF ReportNone, ReportAsked
  <2> QED BY <2>2 DEF ReportPlaced
<1>15. ReportInv'
  BY <1>1, <1>2, <1>5, <1>7, <1>13, <1>14 DEF ReportInv
<1> QED BY <1>1, <1>7, <1>9, <1>11, <1>12, <1>15 DEF OrderInv

\* A SCSI command.
LEMMA NewCommandKeeps ==
    ASSUME Orderly, SlotInv, OrderInv, NewCommand
    PROVE  OrderInv'
<1>1. /\ device = Storage /\ drivers.configured /\ drivers.phase = "idle" /\ ~ControlGoing
      /\ drivers' = [drivers EXCEPT !.phase = "sent", !.want = @ \cup {BulkOut}]
      /\ inbox' = inbox \o <<Data(BulkOut, BulkSize)>>
      /\ UNCHANGED <<device, drv, bits, transDone, outbox, dev>>
  BY DEF NewCommand, SendOut, Enqueue, Orderly
<1>2. Types /\ NoCommand /\ InboxInv
  BY <1>1, CommandIdle DEF SlotInv, OrderInv
<1>3. Idle /\ drivers.control = FALSE /\ Ctl \notin Answers
  BY <1>1, <1>2, ControlNone DEF OrderInv
<1>4. Addr(1) = BulkOut /\ Addr(2) = BulkIn /\ device.ask = BulkSize /\ BulkOut # BulkIn
  BY <1>1, <1>2, AddrFacts, Addressing
<1>5. /\ drivers'.control = FALSE /\ drivers'.phase = "sent" /\ BulkOut \in drivers'.want
      /\ ConfiguredInv'
  BY <1>1, <1>2, <1>3 DEF Types, DriversSet, ConfiguredInv
<1>6. Asked = {} /\ Answers = {}
  BY <1>2, <1>3 DEF NoCommand
<1>7. InboxInv' /\ Asked' = {BulkOut} /\ NoSetup'
  <2> DEFINE i == 1
  <2>1. inbox' = Append(inbox, Ask(Addr(i)))
    BY <1>1, <1>2, <1>4 DEF Types, Ask
  <2>2. NoSetup
    BY <1>3 DEF Idle, NoSetup
  <2>3. i \in {1, 2} /\ Addr(i) \notin Asked /\ i # 2
    BY <1>6
  <2> HIDE DEF i
  <2>4. drv.pool[i].conf \/ \E j \in DOMAIN inbox : inbox[j] = Open(device.config[i])
    BY <1>1, <2>3, Opening DEF Orderly
  <2>5. InboxInv' /\ Asked' = Asked \cup {Addr(i)} /\ NoSetup'
    BY <1>1, <1>2, <2>1, <2>2, <2>3, <2>4, InboxAsks
  <2> QED BY <1>4, <1>6, <2>5 DEF i
<1>8. Answers' = {}
  BY <1>1, <1>6 DEF Answers, From
<1>9. OutboxInv' /\ DriverInv'
  BY <1>1, DriverStays DEF OrderInv, OutboxInv, Proper, Ctl, Addr
<1>10. ControlInv'
  BY <1>1, <1>3, <1>5, <1>7, <1>8, ControlWaits
<1>11. OutQueued'
  BY <1>1, <1>2, <1>4, <1>5, <1>7, <1>8 DEF OutQueued, Sent, NoCommand, NoBulk, OutPid, InPid
<1> QED BY <1>1, <1>5, <1>7, <1>9, <1>10, <1>11 DEF OrderInv, CommandInv

\* A command is under way only between control transfers.
LEMMA ControlApart ==
    ASSUME ControlInv, drivers.phase # "idle", Types
    PROVE  Idle /\ drivers.control = FALSE /\ Ctl \notin Answers
<1>1. Idle
  BY DEF ControlInv, Requested, SetupSent, SetupDone, AnswerAwaited, AnswerCame,
         AckAwaited, Acked, InProgress, Passed
<1> QED BY <1>1 DEF Idle, Types, DriversSet

\* The next data of a command.
LEMMA SendDataKeeps ==
    ASSUME Orderly, SlotInv, OrderInv, SendData
    PROVE  OrderInv'
<1>1. /\ drivers.phase = "asked" /\ dev.left > 0
      /\ drivers' = [drivers EXCEPT !.phase = "sent", !.want = @ \cup {BulkOut}]
      /\ inbox' = inbox \o <<Data(BulkOut, BulkSize)>>
      /\ UNCHANGED <<device, drv, bits, transDone, outbox, dev>>
  BY DEF SendData, SendOut, Enqueue
<1>2. device = Storage
  BY <1>1 DEF OrderInv, ReportInv
<1>3. Types /\ CommandInv /\ InboxInv /\ drivers.configured
  BY <1>1, <1>2 DEF SlotInv, OrderInv, ConfiguredInv
<1>4. InQueued \/ InAwaited
  BY <1>1, <1>3 DEF CommandInv, NoCommand, OutQueued, OutGoing, OutGone, OutPassed, Sent,
                    InCame, InPassed
<1>5. Idle /\ drivers.control = FALSE /\ Ctl \notin Answers
  BY <1>1, <1>3, ControlApart DEF OrderInv
<1>6. Addr(1) = BulkOut /\ Addr(2) = BulkIn /\ device.ask = BulkSize /\ BulkOut # BulkIn
  BY <1>2, <1>3, AddrFacts, Addressing
<1>7. /\ drivers'.control = FALSE /\ drivers'.phase = "sent" /\ BulkOut \in drivers'.want
      /\ ConfiguredInv'
  BY <1>1, <1>3, <1>5 DEF Types, DriversSet, ConfiguredInv
<1>8. BulkOut \notin Asked /\ Answers = {}
  BY <1>4, <1>6 DEF InQueued, InAwaited
<1>9. InboxInv' /\ Asked' = Asked \cup {BulkOut} /\ NoSetup'
  <2> DEFINE i == 1
  <2>1. inbox' = Append(inbox, Ask(Addr(i)))
    BY <1>1, <1>3, <1>6 DEF Types, Ask
  <2>2. NoSetup
    BY <1>5 DEF Idle, NoSetup
  <2>3. i \in {1, 2} /\ Addr(i) \notin Asked /\ i # 2
    BY <1>6, <1>8
  <2> HIDE DEF i
  <2>4. drv.pool[i].conf \/ \E j \in DOMAIN inbox : inbox[j] = Open(device.config[i])
    BY <1>3, <2>3, Opening DEF Orderly
  <2>5. InboxInv' /\ Asked' = Asked \cup {Addr(i)} /\ NoSetup'
    BY <1>1, <1>3, <2>1, <2>2, <2>3, <2>4, InboxAsks
  <2> QED BY <1>6, <2>5 DEF i
<1>10. Answers' = {}
  BY <1>1, <1>8 DEF Answers, From
<1>11. OutboxInv' /\ DriverInv'
  BY <1>1, DriverStays DEF OrderInv, OutboxInv, Proper, Ctl, Addr
<1>12. ControlInv'
  BY <1>1, <1>5, <1>7, <1>9, <1>10, ControlWaits
<1>13. OutQueued'
  <2>1. CASE InQueued
    BY <1>1, <1>6, <1>7, <1>9, <1>10, <2>1
       DEF OutQueued, Sent, InQueued, Due, NoBulk, OutPid, InPid
  <2>2. CASE InAwaited
    BY <1>1, <1>6, <1>7, <1>9, <1>10, <2>2
       DEF OutQueued, Sent, InAwaited, InGoing, Due, OutPid, InPid
  <2> QED BY <1>4, <2>1, <2>2
<1> QED BY <1>1, <1>2, <1>7, <1>9, <1>11, <1>12, <1>13 DEF OrderInv, CommandInv

\* The master takes a packet: where it is from.
LEMMA TakenPacket ==
    ASSUME OrderInv, Types, NEW p, p \in ToSet(outbox), Take(p)
    PROVE  /\ p = Head(outbox) /\ UNCHANGED <<device, drv, bits, transDone, dev>>
           /\ OutboxInv' /\ DriverInv' /\ Answers' = Answers \ {p.addr} /\ p.addr \in Answers
           /\ p.addr \in {Ctl, Addr(1), Addr(2)}
<1>1. /\ outbox # <<>> /\ p = Head(outbox) /\ outbox' = Tail(outbox)
      /\ UNCHANGED <<device, drv, bits, transDone, dev>>
  BY DEF Take
<1>2. OutboxInv' /\ Answers' = Answers \ {p.addr} /\ p.addr \in Answers
      /\ p.addr \in {Ctl, Addr(1), Addr(2)}
  BY <1>1, OutboxTaken DEF OrderInv
<1>3. DriverInv'
  BY <1>1, DriverStays DEF OrderInv
<1> QED BY <1>1, <1>2, <1>3

\* An OUT packet is gone: the IN endpoint is asked.
LEMMA TakeOutKeeps ==
    ASSUME Orderly, SlotInv, OrderInv, TakeOut
    PROVE  OrderInv'
<1>1. PICK p \in ToSet(outbox) : Take(p) /\ p.addr = BulkOut
  BY DEF TakeOut
<1>2. /\ drivers' = [drivers EXCEPT !.phase = "asked", !.want = (@ \ {BulkOut}) \cup {BulkIn}]
      /\ inbox' = Append(inbox, Ask(BulkIn))
  BY DEF TakeOut
<1>3. Types /\ InboxInv
  BY DEF SlotInv, OrderInv
<1>4. /\ UNCHANGED <<device, drv, bits, transDone, dev>>
      /\ OutboxInv' /\ DriverInv' /\ Answers' = Answers \ {BulkOut} /\ BulkOut \in Answers
      /\ BulkOut \in {Ctl, Addr(1), Addr(2)}
  BY <1>1, <1>3, TakenPacket
<1>5. device = Storage
  BY <1>3, <1>4, AddrFacts, Addressing DEF Ctl
<1>6. Addr(1) = BulkOut /\ Addr(2) = BulkIn /\ BulkOut # BulkIn /\ Ctl # BulkOut
  BY <1>3, <1>5, AddrFacts, Addressing DEF Ctl
<1>7. OutPassed
  <2>1. CommandInv
    BY <1>5 DEF OrderInv
  <2> QED BY <1>4, <1>6, <2>1 DEF CommandInv, NoCommand, OutQueued, OutGoing, OutGone,
                    InQueued, InAwaited, InCame, InPassed
<1>8. Idle /\ drivers.control = FALSE /\ Ctl \notin Answers /\ drivers.configured
  BY <1>3, <1>7, ControlApart DEF OrderInv, OutPassed, ConfiguredInv
<1>9. /\ drivers'.control = FALSE /\ drivers'.phase = "asked" /\ BulkIn \in drivers'.want
      /\ ConfiguredInv'
  BY <1>2, <1>3, <1>8, Addressing DEF Types, DriversSet, ConfiguredInv
<1>10. InboxInv' /\ Asked' = {BulkIn} /\ NoSetup'
  <2> DEFINE i == 2
  <2>1. inbox' = Append(inbox, Ask(Addr(i)))
    BY <1>2, <1>6
  <2>2. NoSetup
    BY <1>8 DEF Idle, NoSetup
  <2>3. i \in {1, 2} /\ Asked = {}
    BY <1>7 DEF OutPassed
  <2> HIDE DEF i
  <2>4. drv.pool[i].conf \/ \E j \in DOMAIN inbox : inbox[j] = Open(device.config[i])
    BY <1>8, <2>3, Opening DEF Orderly
  <2>5. InboxInv' /\ Asked' = Asked \cup {Addr(i)} /\ NoSetup'
    BY <1>3, <1>4, <2>1, <2>2, <2>3, <2>4, InboxAsks
  <2> QED BY <1>6, <2>3, <2>5 DEF i
<1>11. Answers' = {}
  BY <1>4, <1>7 DEF OutPassed
<1>12. ControlInv'
  BY <1>4, <1>8, <1>9, <1>10, <1>11, ControlWaits
<1>13. InQueued'
  BY <1>4, <1>7, <1>9, <1>10, <1>11
     DEF InQueued, Due, OutPassed, NoBulk, OutPid, InPid
<1> QED BY <1>4, <1>5, <1>9, <1>10, <1>12, <1>13 DEF OrderInv, CommandInv

\* A packet of the IN endpoint: the command goes on or is over.
LEMMA TakeInKeeps ==
    ASSUME Orderly, SlotInv, OrderInv, TakeIn
    PROVE  OrderInv'
<1>1. PICK p \in ToSet(outbox) : Take(p) /\ p.addr = BulkIn
  BY DEF TakeIn
<1>2. /\ drivers' = [drivers EXCEPT !.phase = IF dev.busy THEN "asked" ELSE "idle",
                                    !.want = IF dev.busy THEN @ ELSE @ \ {BulkIn}]
      /\ inbox' = IF dev.busy THEN Append(inbox, Ask(BulkIn)) ELSE inbox
      /\ device = Storage
  BY DEF TakeIn
<1>3. Types /\ InboxInv
  BY DEF SlotInv, OrderInv
<1>4. /\ UNCHANGED <<device, drv, bits, transDone, dev>>
      /\ OutboxInv' /\ DriverInv' /\ Answers' = Answers \ {BulkIn} /\ BulkIn \in Answers
  BY <1>1, <1>3, TakenPacket
<1>5. Addr(1) = BulkOut /\ Addr(2) = BulkIn /\ BulkOut # BulkIn /\ Ctl # BulkIn
  BY <1>2, <1>3, AddrFacts, Addressing DEF Ctl
<1>6. InPassed
  <2>1. CommandInv
    BY <1>2 DEF OrderInv
  <2> QED BY <1>4, <1>5, <2>1 DEF CommandInv, NoCommand, OutQueued, OutGoing, OutGone, OutPassed,
                    InQueued, InAwaited, InCame
<1>7. Idle /\ drivers.control = FALSE /\ Ctl \notin Answers /\ drivers.configured
  BY <1>3, <1>6, ControlApart DEF OrderInv, InPassed, Due, ConfiguredInv
<1>8. /\ drivers'.control = FALSE
      /\ drivers'.phase = IF dev.busy THEN "asked" ELSE "idle"
      /\ dev.busy => drivers'.want = drivers.want
      /\ ConfiguredInv'
  BY <1>2, <1>3, <1>7 DEF Types, DriversSet, ConfiguredInv
<1>9. NoSetup /\ Asked = {} /\ Answers' = {}
  BY <1>4, <1>6, <1>7 DEF Idle, NoSetup, InPassed
<1>10. CASE dev.busy
  <2>1. InboxInv' /\ Asked' = {BulkIn} /\ NoSetup'
    <3> DEFINE i == 2
    <3>1. inbox' = Append(inbox, Ask(Addr(i)))
      BY <1>2, <1>5, <1>10
    <3>2. i \in {1, 2}
      OBVIOUS
    <3> HIDE DEF i
    <3>3. drv.pool[i].conf \/ \E j \in DOMAIN inbox : inbox[j] = Open(device.config[i])
      BY <1>7, <3>2, Opening DEF Orderly
    <3>4. InboxInv' /\ Asked' = Asked \cup {Addr(i)} /\ NoSetup'
      BY <1>3, <1>4, <1>9, <3>1, <3>2, <3>3, InboxAsks
    <3> QED BY <1>5, <1>9, <3>4 DEF i
  <2>2. ControlInv'
    BY <1>4, <1>7, <1>8, <1>9, <2>1, ControlWaits
  <2>3. InQueued'
    BY <1>4, <1>6, <1>8, <1>9, <1>10, <2>1 DEF InQueued, Due, InPassed, NoBulk, OutPid, InPid
  <2> QED BY <1>2, <1>4, <1>8, <2>1, <2>2, <2>3 DEF OrderInv, CommandInv
<1>11. CASE ~dev.busy
  <2>1. InboxInv' /\ Asked' = {} /\ NoSetup'
    <3>1. UNCHANGED <<device, inbox>> /\ StillOpen
      BY <1>2, <1>4, <1>11 DEF StillOpen
    <3> QED BY <1>3, <1>9, <3>1, InboxStays DEF NoSetup
  <2>2. ControlInv'
    BY <1>4, <1>7, <1>8, <1>9, <2>1, ControlWaits
  <2>3. NoCommand'
    BY <1>4, <1>6, <1>8, <1>9, <1>11, <2>1 DEF NoCommand, Due, InPassed, NoBulk, OutPid, InPid
  <2> QED BY <1>2, <1>4, <1>8, <2>1, <2>2, <2>3 DEF OrderInv, CommandInv
<1> QED BY <1>10, <1>11

\* EPX, its buffer and what the controller is to do stay.
EpxSame ==
    /\ drv'.pool[0] = drv.pool[0] /\ drv'.bufs[0] = drv.bufs[0] /\ drv'.reads = drv.reads
    /\ Engine(drv, drv')
    /\ 0 \in bits' <=> 0 \in bits

\* A control transfer stays where it is.
LEMMA ControlStays ==
    ASSUME ControlInv, EpxSame, UNCHANGED <<device, inbox>>, dev'.stage = dev.stage,
           drivers'.control = drivers.control, drivers'.phase = drivers.phase,
           Ctl \in Answers' <=> Ctl \in Answers,
           SetupDone => transDone', transDone' => transDone \/ ~SetupWaits
    PROVE  ControlInv'
<1>1. Ctl' = Ctl /\ Asked' = Asked /\ (InProgress => InProgress') /\ (Passed => Passed')
  BY DEF Ctl, Asked, InProgress, Passed
<1>2. EpxIdle(drv) => EpxIdle(drv')
  BY DEF EpxIdle, EpxSame, Engine
<1>3. SettingUp(drv) => SettingUp(drv')
  BY DEF SettingUp, EpxSame, Engine
<1>4. Reading(drv) => Reading(drv')
  BY DEF Reading, EpxSame, Engine
<1>5. Acking(drv) => Acking(drv')
  BY DEF Acking, EpxSame, Engine
<1>6. CASE Idle
  <2>1. Idle'
    BY <1>1, <1>2, <1>6 DEF Idle, EpxSame, Engine
  <2> QED BY <2>1 DEF ControlInv
<1>7. CASE Requested
  <2>1. SetupWaits
    BY <1>7 DEF Requested, SetupWaits
  <2>2. Requested'
    BY <1>1, <1>2, <1>7, <2>1 DEF Requested, EpxSame
  <2> QED BY <2>2 DEF ControlInv
<1>8. CASE SetupSent
  <2>1. SetupWaits
    BY <1>8 DEF SetupSent, SetupWaits
  <2>2. SetupSent'
    BY <1>1, <1>3, <1>8, <2>1 DEF SetupSent, EpxSame, Engine
  <2> QED BY <2>2 DEF ControlInv
<1>9. CASE SetupDone
  <2>1. Asking' = Asking
    BY DEF Asking, EpxSame
  <2>2. SetupDone'
    BY <1>1, <1>3, <1>9, <2>1 DEF SetupDone, EpxSame, Engine
  <2> QED BY <2>2 DEF ControlInv
<1>10. CASE AnswerAwaited
  <2>1. Asking' = Asking
    BY DEF Asking, EpxSame
  <2>2. AnswerAwaited'
    BY <1>1, <1>4, <1>10, <2>1 DEF AnswerAwaited, AnswerDue, EpxSame, Engine
  <2> QED BY <2>2 DEF ControlInv
<1>11. CASE AnswerCame
  <2>1. AnswerCame'
    BY <1>1, <1>4, <1>11 DEF AnswerCame, EpxSame, Engine
  <2> QED BY <2>1 DEF ControlInv
<1>12. CASE AckAwaited
  <2>1. AckAwaited'
    BY <1>1, <1>5, <1>12 DEF AckAwaited, AckDue, EpxSame, Engine
  <2> QED BY <2>1 DEF ControlInv
<1>13. CASE Acked
  <2>1. Acked'
    BY <1>1, <1>5, <1>13 DEF Acked, EpxSame, Engine
  <2> QED BY <2>1 DEF ControlInv
<1> QED BY <1>6, <1>7, <1>8, <1>9, <1>10, <1>11, <1>12, <1>13 DEF ControlInv

\* A control answer, after which endpoints may be opened.
LEMMA TakeControlKeeps ==
    ASSUME Orderly, SlotInv, OrderInv, TakeControl
    PROVE  OrderInv'
<1>1. PICK p \in ToSet(outbox) : Take(p) /\ p.addr.num = 0
  BY DEF TakeControl
<1>2. Types /\ InboxInv /\ ControlInv
  BY DEF SlotInv, OrderInv
<1>3. /\ UNCHANGED <<device, drv, bits, transDone, dev>>
      /\ OutboxInv' /\ DriverInv' /\ Answers' = Answers \ {p.addr} /\ p.addr \in Answers
      /\ p.addr \in {Ctl, Addr(1), Addr(2)}
  BY <1>1, <1>2, TakenPacket
<1>4. p.addr = Ctl /\ Addr(1) # Ctl /\ Addr(2) # Ctl
  BY <1>1, <1>2, <1>3, AddrFacts
<1>5. PICK opens \in BOOLEAN :
          /\ drivers' = [drivers EXCEPT !.control = FALSE, !.configured = @ \/ opens]
          /\ inbox' = IF ~opens THEN inbox ELSE inbox \o Opens
  BY <1>3 DEF TakeControl, Opens, Open
<1>6. /\ drivers'.control = FALSE /\ drivers'.phase = drivers.phase
      /\ drivers'.want = drivers.want
  BY <1>2, <1>5 DEF Types, DriversSet
<1>7. /\ Idle \/ AckAwaited \/ Acked
      /\ drivers.phase = "idle" /\ inbox = <<>> /\ NoSetup
  BY <1>2, <1>3, <1>4 DEF ControlInv, Requested, SetupSent, SetupDone, AnswerAwaited, AnswerCame,
                          InProgress, Idle, AckAwaited, Acked, Passed, NoSetup
<1>8. InboxInv' /\ Asked' = Asked /\ NoSetup'
  <2>1. CASE opens
    BY <1>2, <1>3, <1>5, <1>7, <2>1, InboxOpens
  <2>2. CASE ~opens
    <3>1. UNCHANGED <<device, inbox>> /\ StillOpen
      BY <1>3, <1>5, <2>2 DEF StillOpen
    <3> QED BY <1>2, <1>7, <3>1, InboxStays DEF NoSetup
  <2> QED BY <2>1, <2>2
<1>9. ControlInv'
  <2>1. Ctl' = Ctl /\ Ctl \notin Answers'
    BY <1>3, <1>4 DEF Ctl
  <2>2. CASE Idle
    BY <1>3, <1>6, <1>8, <2>1, <2>2, ControlWaits
  <2>3. CASE AckAwaited
    <3>1. AckAwaited'
      BY <1>3, <1>6, <1>8, <2>1, <2>3 DEF AckAwaited, Passed, AckDue, Acking, NoSetup
    <3> QED BY <3>1 DEF ControlInv
  <2>4. CASE Acked
    <3>1. Acked'
      BY <1>3, <1>6, <1>8, <2>1, <2>4 DEF Acked, Passed, Acking, NoSetup
    <3> QED BY <3>1 DEF ControlInv
  <2> QED BY <1>7, <2>2, <2>3, <2>4
<1>10. device = Storage => CommandInv'
  <2> SUFFICES ASSUME device = Storage PROVE NoCommand'
    BY DEF CommandInv
  <2>1. NoCommand
    BY <1>7, CommandIdle DEF OrderInv
  <2>2. Ctl' = Ctl
    BY DEF Ctl
  <2> QED BY <1>3, <1>6, <1>8, <2>1, <2>2 DEF NoCommand, NoBulk, OutPid, InPid
<1>11. device # Storage => ReportInv'
  <2> SUFFICES ASSUME device # Storage PROVE ReportInv'
    OBVIOUS
  <2>1. ReportInv
    BY DEF OrderInv
  <2>2. \A k \in {1, 2} : SamePlace(k)
    BY <1>3, <1>4, <1>6, <1>8 DEF SamePlace
  <2>3. ReportPlaced(1)' /\ ReportPlaced(2)'
    BY <1>3, <2>1, <2>2, ReportStays DEF ReportInv
  <2> QED BY <1>3, <1>6, <2>1, <2>3 DEF ReportInv
<1>12. ConfiguredInv'
  BY <1>6, <1>7 DEF ConfiguredInv
<1> QED BY <1>3, <1>8, <1>9, <1>10, <1>11, <1>12 DEF OrderInv

\* A report.
LEMMA TakeReportKeeps ==
    ASSUME Orderly, SlotInv, OrderInv, TakeReport
    PROVE  OrderInv'
<1>1. PICK p \in ToSet(outbox) :
          Take(p) /\ p.addr.num # 0 /\ drivers' = [drivers EXCEPT !.want = @ \ {p.addr}]
  BY DEF TakeReport
<1>2. Types /\ InboxInv /\ ControlInv /\ device # Storage /\ inbox' = inbox /\ ReportInv
  BY DEF SlotInv, OrderInv, TakeReport
<1>3. /\ UNCHANGED <<device, drv, bits, transDone, dev>>
      /\ OutboxInv' /\ DriverInv' /\ Answers' = Answers \ {p.addr} /\ p.addr \in Answers
      /\ p.addr \in {Ctl, Addr(1), Addr(2)}
  BY <1>1, <1>2, TakenPacket
<1>4. PICK i \in {1, 2} : p.addr = Addr(i)
  BY <1>1, <1>3, Addressing DEF Ctl
<1>5. PICK k \in {1, 2} : k # i
  OBVIOUS
<1>6. Addr(k) # Addr(i) /\ Addr(i) # Ctl
  BY <1>2, <1>5, AddrFacts
<1>7. /\ drivers'.control = drivers.control /\ drivers'.phase = drivers.phase
      /\ drivers'.want = drivers.want \ {p.addr} /\ drivers'.configured = drivers.configured
  BY <1>1, <1>2 DEF Types, DriversSet
<1>8. InboxInv' /\ Asked' = Asked
  <2>1. StillOpen
    BY <1>3 DEF StillOpen
  <2> QED BY <1>2, <1>3, <2>1, InboxStays
<1>9. ControlInv'
  <2>1. EpxSame
    BY <1>3 DEF EpxSame, Engine
  <2> QED BY <1>2, <1>3, <1>4, <1>6, <1>7, <2>1, ControlStays DEF SetupDone
<1>10. ReportPlaced(k)'
  <2>1. SamePlace(k)
    BY <1>3, <1>4, <1>6, <1>7, <1>8 DEF SamePlace
  <2>2. ReportPlaced(k)
    BY <1>2 DEF ReportInv
  <2> QED BY <1>3, <2>1, <2>2, ReportStays
<1>11. ReportPassed(i)
  <2>1. ReportPlaced(i)
    BY <1>2 DEF ReportInv
  <2> QED BY <1>3, <1>4, <2>1 DEF ReportPlaced, ReportNone, ReportAsked, ReportAwaited, ReportCame
<1>12. ReportPlaced(i)'
  <2>1. Addr(i)' = Addr(i)
    BY <1>3 DEF Addr
  <2>2. ReportNone(i)'
    BY <1>3, <1>4, <1>7, <1>8, <1>11, <2>1 DEF ReportNone, ReportPassed
  <2> QED BY <2>2 DEF ReportPlaced
<1>13. ReportInv'
  BY <1>2, <1>3, <1>5, <1>7, <1>10, <1>12 DEF ReportInv
<1>14. ConfiguredInv'
  BY <1>2, <1>7 DEF ReportInv, ConfiguredInv
<1> QED BY <1>2, <1>3, <1>8, <1>9, <1>13, <1>14 DEF OrderInv

-----------------------------------------------------------------------------
(* The slave takes a message.                                              *)

\* The outbox stays as it is.
LEMMA OutboxStays ==
    ASSUME OutboxInv, UNCHANGED <<device, outbox>>
    PROVE  OutboxInv' /\ Answers' = Answers /\ Ctl' = Ctl
<1>1. Answers' = Answers
  BY DEF Answers, From
<1>2. Ctl' = Ctl /\ Addr(1)' = Addr(1) /\ Addr(2)' = Addr(2)
  BY DEF Ctl, Addr
<1>3. OutboxInv'
  BY <1>2 DEF OutboxInv, Proper
<1> QED BY <1>1, <1>2, <1>3

\* The inbox asks endpoints of the device.
LEMMA AskedOf ==
    ASSUME InboxInv
    PROVE  Asked \subseteq {Addr(1), Addr(2)}
<1>1. \A a : Ask(a).addr = a
  BY DEF Ask, Data
<1> QED BY <1>1 DEF InboxInv, Asked

\* The next request finds the PID turned, or turned back.
LEMMA OddNext ==
    ASSUME NEW n \in Nat, NEW p \in Pid
    PROVE  /\ Turned(p, Odd(n + 1)) = 1 - Turned(p, Odd(n))
           /\ Turned(p, Odd(n)) \in Pid /\ Turned(p, Odd(0)) = p
<1>1. Odd(n + 1) <=> ~Odd(n)
  BY Z3 DEF Odd
<1>2. Odd(n) \in BOOLEAN /\ ~Odd(0)
  BY DEF Odd
<1> QED BY <1>1, <1>2 DEF Turned, Pid

\* What a command stands on stays, while endpoints are opened.
LEMMA CommandStays ==
    ASSUME CommandInv, UNCHANGED <<device, bits, dev, drivers>>, Asked' = Asked,
           Answers' = Answers, drv'.active = drv.active, drv'.trans = drv.trans,
           drv'.bufs[0] = drv.bufs[0],
           \A k \in {1, 2} :
              /\ drv'.pool[k].pid = drv.pool[k].pid
              /\ drv.pool[k].conf => drv'.pool[k] = drv.pool[k]
    PROVE  CommandInv'
<1>1. Ctl' = Ctl /\ (NoBulk => NoBulk') /\ (OutPid => OutPid') /\ (Sent => Sent') /\ (Due => Due')
  BY DEF Ctl, NoBulk, OutPid, Sent, Due
<1>2. \A n : InPid(n) => InPid(n)'
  BY DEF InPid
<1>3. InPid(dev.left) => InPid(dev.left)'
  BY DEF InPid
<1>4. InPid(dev.left + 1) => InPid(dev.left + 1)'
  BY DEF InPid
<1>5. InGoing => InGoing'
  BY <1>4 DEF InGoing
<1>6. CASE NoCommand
  <2>1. NoCommand'
    BY <1>1, <1>2, <1>6 DEF NoCommand
  <2> QED BY <2>1 DEF CommandInv
<1>7. CASE OutQueued
  <2>1. OutQueued'
    BY <1>1, <1>2, <1>3, <1>5, <1>7 DEF OutQueued
  <2> QED BY <2>1 DEF CommandInv
<1>8. CASE OutGoing
  <2>1. OutGoing'
    BY <1>1, <1>2, <1>4, <1>8 DEF OutGoing
  <2> QED BY <2>1 DEF CommandInv
<1>9. CASE OutGone
  <2>1. OutGone'
    BY <1>1, <1>3, <1>9 DEF OutGone
  <2> QED BY <2>1 DEF CommandInv
<1>10. CASE OutPassed
  <2>1. OutPassed'
    BY <1>1, <1>3, <1>10 DEF OutPassed
  <2> QED BY <2>1 DEF CommandInv
<1>11. CASE InQueued
  <2>1. InQueued'
    BY <1>1, <1>3, <1>11 DEF InQueued
  <2> QED BY <2>1 DEF CommandInv
<1>12. CASE InAwaited
  <2>1. InAwaited'
    BY <1>1, <1>5, <1>12 DEF InAwaited
  <2> QED BY <2>1 DEF CommandInv
<1>13. CASE InCame
  <2>1. InCame'
    BY <1>1, <1>2, <1>13 DEF InCame
  <2> QED BY <2>1 DEF CommandInv
<1>14. CASE InPassed
  <2>1. InPassed'
    BY <1>1, <1>2, <1>14 DEF InPassed
  <2> QED BY <2>1 DEF CommandInv
<1> QED BY <1>6, <1>7, <1>8, <1>9, <1>10, <1>11, <1>12, <1>13, <1>14 DEF CommandInv

\* EDPT_OPEN.
LEMMA OpenEndpointKeeps ==
    ASSUME Orderly, SlotInv, OrderInv, OpenEndpoint
    PROVE  OrderInv'
<1>1. Types /\ InboxInv /\ ControlInv /\ DriverInv /\ OpenLeaves
  BY Opens12 DEF SlotInv, OrderInv, Orderly
<1>2. /\ inbox # <<>> /\ Head(inbox).type = "open" /\ inbox' = Tail(inbox)
      /\ UNCHANGED <<device, bits, transDone, outbox, dev, drivers>>
  BY DEF OpenEndpoint, Dequeue
<1>3. InboxInv' /\ Asked' = Asked /\ (NoSetup => NoSetup')
  <2>1. StillOpen
    BY <1>1 DEF OpenLeaves, StillOpen
  <2>2. InboxInv' /\ InboxTakenAs(Head(inbox))
    BY <1>1, <1>2, <2>1, InboxTaken DEF OpenLeaves
  <2> QED BY <1>2, <2>2 DEF InboxTakenAs
<1>4. Answers' = Answers /\ OutboxInv' /\ Ctl' = Ctl
  BY <1>2, OutboxStays DEF OrderInv
<1>5. DriverInv'
  BY <1>1, <1>2, <1>4 DEF DriverInv, OpenLeaves, Engine
<1>6. ControlInv'
  <2>1. Head(inbox) = inbox[1] /\ 1 \in DOMAIN inbox
    BY <1>1, <1>2 DEF Types
  <2>2. Idle \/ AckAwaited \/ Acked
    BY <1>1, <1>2, <2>1 DEF ControlInv, Requested, SetupSent, SetupDone, AnswerAwaited, AnswerCame
  <2>3. NoSetup /\ drivers.control = FALSE /\ Ctl \notin Answers
    BY <1>1, <1>2, <2>2 DEF Idle, AckAwaited, Acked, Passed, NoSetup, Types, DriversSet
  <2>4. CASE Idle
    <3>1. Idle'
      BY <1>1, <1>2, <1>3, <1>4, <2>3, <2>4 DEF Idle, EpxIdle, NoSetup, OpenLeaves, Engine
    <3> QED BY <3>1 DEF ControlInv
  <2>5. CASE AckAwaited
    <3>1. AckAwaited'
      BY <1>1, <1>2, <1>3, <1>4, <2>3, <2>5
         DEF AckAwaited, Passed, AckDue, Acking, NoSetup, OpenLeaves, Engine
    <3> QED BY <3>1 DEF ControlInv
  <2>6. CASE Acked
    <3>1. Acked'
      BY <1>1, <1>2, <1>3, <1>4, <2>3, <2>6 DEF Acked, Passed, Acking, NoSetup, OpenLeaves, Engine
    <3> QED BY <3>1 DEF ControlInv
  <2> QED BY <2>2, <2>4, <2>5, <2>6
<1>7. device = Storage => CommandInv'
  BY <1>1, <1>2, <1>3, <1>4, CommandStays DEF OpenLeaves, Engine, OrderInv
<1>8. device # Storage => ReportInv'
  <2> SUFFICES ASSUME device # Storage PROVE ReportInv'
    OBVIOUS
  <2>1. ReportInv
    BY DEF OrderInv
  <2>2. \A k \in {1, 2} : SamePlace(k)
    BY <1>1, <1>2, <1>3, <1>4 DEF SamePlace, OpenLeaves
  <2>3. ReportPlaced(1)' /\ ReportPlaced(2)'
    BY <1>2, <2>1, <2>2, ReportStays DEF ReportInv
  <2> QED BY <1>1, <1>2, <2>1, <2>3 DEF ReportInv, OpenLeaves, Engine
<1>9. ConfiguredInv'
  BY <1>2 DEF OrderInv, ConfiguredInv
<1> QED BY <1>2, <1>3, <1>4, <1>5, <1>6, <1>7, <1>8, <1>9 DEF OrderInv

\* What SETUP_DATA does with the driver: EPX alone is set up.
SetupStarted ==
    /\ SettingUp(drv') /\ drv'.trans = [kind |-> "setup", num |-> 0]
    /\ drv'.pool[0].mps = drv.pool[0].mps /\ drv'.pool[0].inum = NotInterrupt
    /\ \A k \in 0..Slots : k # 0 => drv'.pool[k] = drv.pool[k]
    /\ drv'.bufs = drv.bufs /\ drv'.panic = drv.panic

\* It does.
LEMMA SetupStarts ==
    ASSUME Types, SetupData, drv.pool[0].xfer = 0
    PROVE  SetupStarted
<1> DEFINE reads == Head(inbox).reads
           level == 0
           d == [drv EXCEPT !.reads = reads, !.level = level]
           old == drv.pool[0]
           init == EndpointInit(old, Control(FALSE), old.mps)
           ep == [init EXCEPT !.inum = NotInterrupt, !.rem = SetupLength]
           t == [kind |-> "setup", num |-> 0]
<1>1. drv' = SetupSend(d)
  BY DEF SetupData
<1>2. old \in EpSet /\ drv.pool \in [0..Slots -> EpSet] /\ drv \in DrvSet
  <2>1. 0 \in 0..Slots
    OBVIOUS
  <2> QED BY <2>1 DEF Types, DrvSet
<1>3. level = 0
  OBVIOUS
<1> HIDE DEF level, reads
<1>4. /\ d.pool = drv.pool /\ d.bufs = drv.bufs /\ d.level = level /\ d.panic = drv.panic
      /\ d = [drv EXCEPT !.reads = reads, !.level = level]
  BY <1>2 DEF DrvSet
<1>5. /\ ep.addr = Control(FALSE) /\ ep.xfer = old.xfer /\ ep.mps = old.mps
      /\ ep.inum = NotInterrupt
  <2> HIDE DEF old
  <2> QED BY <1>2 DEF EndpointInit, EpSet
<1>6. drv' = [d EXCEPT !.pool[0] = ep, !.active = 0, !.sie = "setup", !.trans = t]
  <2>1. d.pool[0] = old
    BY <1>4
  <2> HIDE DEF d
  <2> QED BY <1>1, <2>1 DEF SetupSend
<1> HIDE DEF ep, t
<1>7. /\ drv'.pool = [drv.pool EXCEPT ![0] = ep] /\ drv'.bufs = drv.bufs
      /\ drv'.panic = drv.panic /\ drv'.level = level /\ drv'.active = 0
      /\ drv'.sie = "setup" /\ drv'.trans = t
  <2> DEFINE p == [drv.pool EXCEPT ![0] = ep]
  <2>1. drv' = [drv EXCEPT !.reads = reads, !.level = level, !.pool = p, !.active = 0,
                           !.sie = "setup", !.trans = t]
    BY <1>2, <1>6 DEF DrvSet
  <2> HIDE DEF p, d
  <2>2. /\ drv'.pool = p /\ drv'.bufs = drv.bufs
        /\ drv'.panic = drv.panic /\ drv'.level = level /\ drv'.active = 0
        /\ drv'.sie = "setup" /\ drv'.trans = t
    BY <1>2, <2>1 DEF DrvSet
  <2> QED BY <2>2 DEF p
<1>8. drv'.pool[0] = ep /\ \A k \in 0..Slots : k # 0 => drv'.pool[k] = drv.pool[k]
  BY <1>2, <1>7
<1> QED BY <1>3, <1>5, <1>7, <1>8 DEF SetupStarted, SettingUp, t

\* What a command stands on while a control transfer uses EPX.
LEMMA NoCommandStays ==
    ASSUME NoCommand, device' = device, drivers'.phase = "idle", dev'.busy = dev.busy,
           dev'.pid[BulkOut] = dev.pid[BulkOut], dev'.pid[BulkIn] = dev.pid[BulkIn],
           Asked' = {}, Answers' \subseteq {Ctl}, NoBulk',
           drv'.pool[1].pid = drv.pool[1].pid, drv'.pool[2].pid = drv.pool[2].pid
    PROVE  CommandInv'
<1>1. Ctl' = Ctl
  BY DEF Ctl
<1>2. NoCommand'
  BY <1>1 DEF NoCommand, OutPid, InPid
<1> QED BY <1>2 DEF CommandInv

\* SETUP_DATA.
LEMMA SetupDataKeeps ==
    ASSUME Orderly, SlotInv, OrderInv, SetupData
    PROVE  OrderInv'
<1>1. Types /\ InboxInv /\ ControlInv /\ DriverInv
  BY DEF SlotInv, OrderInv
<1>2. /\ inbox # <<>> /\ Head(inbox).type = "setup" /\ inbox' = Tail(inbox)
      /\ UNCHANGED <<device, bits, transDone, outbox, dev, drivers>>
  BY DEF SetupData, Dequeue
<1>3. Head(inbox) = inbox[1] /\ 1 \in DOMAIN inbox
  BY <1>1, <1>2 DEF Types
<1>4. Requested
  BY <1>1, <1>2, <1>3 DEF ControlInv, Idle, SetupSent, SetupDone, AnswerAwaited, AnswerCame,
                          AckAwaited, Acked, Passed
<1>5. SetupStarted
  BY <1>1, <1>4, SetupStarts DEF Requested, EpxIdle
<1>6. \A k \in {1, 2} : drv'.pool[k] = drv.pool[k]
  BY <1>5 DEF SetupStarted
<1>7. InboxInv' /\ Asked' = Asked
  <2>1. StillOpen
    BY <1>6 DEF StillOpen
  <2>2. \A k \in {1, 2} : Head(inbox) # Open(device.config[k])
    BY <1>2 DEF Open
  <2>3. InboxInv' /\ InboxTakenAs(Head(inbox))
    BY <1>1, <1>2, <2>1, <2>2, InboxTaken
  <2> QED BY <1>2, <2>3 DEF InboxTakenAs
<1>8. Answers' = Answers /\ OutboxInv' /\ Ctl' = Ctl
  BY <1>2, OutboxStays DEF OrderInv
<1>9. DriverInv'
  BY <1>1, <1>2, <1>5, <1>6, <1>8 DEF DriverInv, SetupStarted, SettingUp
<1>10. SetupSent'
  <2>1. inbox' = <<>>
    BY <1>1, <1>2, <1>4 DEF Requested, Types
  <2>2. InProgress'
    BY <1>2, <1>4, <1>8 DEF Requested, InProgress
  <2> QED BY <1>2, <1>4, <1>5, <2>1, <2>2 DEF SetupSent, Requested, SetupStarted
<1>11. device = Storage => CommandInv'
  <2> SUFFICES ASSUME device = Storage PROVE CommandInv'
    OBVIOUS
  <2>1. NoCommand
    BY <1>4, CommandIdle DEF OrderInv, Requested, InProgress
  <2>2. NoBulk'
    BY <1>2, <1>4, <1>5 DEF NoBulk, SetupStarted, Requested
  <2>3. drivers'.phase = "idle" /\ Asked' = {} /\ Answers' \subseteq {Ctl}
    BY <1>2, <1>7, <1>8, <2>1 DEF NoCommand
  <2> QED BY <1>2, <1>6, <2>1, <2>2, <2>3, NoCommandStays
<1>12. device # Storage => ReportInv'
  <2> SUFFICES ASSUME device # Storage PROVE ReportInv'
    OBVIOUS
  <2>1. ReportInv
    BY DEF OrderInv
  <2>2. \A k \in {1, 2} : SamePlace(k)
    BY <1>2, <1>5, <1>6, <1>7, <1>8 DEF SamePlace, SetupStarted
  <2>3. ReportPlaced(1)' /\ ReportPlaced(2)'
    BY <1>2, <2>1, <2>2, ReportStays DEF ReportInv
  <2> QED BY <1>2, <1>4, <1>5, <2>1, <2>3 DEF ReportInv, SetupStarted, Requested
<1>13. ConfiguredInv'
  BY <1>2 DEF OrderInv, ConfiguredInv
<1> QED BY <1>2, <1>7, <1>8, <1>9, <1>10, <1>11, <1>12, <1>13 DEF OrderInv, ControlInv

\* What USB_DATA does with the slot of endpoint i.
DataStarted(i) ==
    LET ep == drv'.pool[i]
        kind == IF Addr(i).in THEN "in" ELSE "out"
        b == IF device = Storage THEN 0 ELSE i
    IN  /\ drv'.active = i /\ drv'.sie = kind
        /\ drv'.trans = [kind |-> kind, num |-> Addr(i).num]
        /\ \A k \in 0..Slots : k # i => drv'.pool[k] = drv.pool[k]
        /\ \A k \in 0..Slots : k # b => drv'.bufs[k] = drv.bufs[k]
        /\ drv'.panic = drv.panic
        /\ ep.conf /\ ep.user
        /\ ep.rem = Rest(device.ask, drv.pool[i].mps) /\ ep.mps = drv.pool[i].mps
        /\ ep.pid = Turned(drv.pool[i].pid, Flips(device.ask, drv.pool[i].mps))
        /\ drv'.bufs[b].pid = drv.pool[i].pid

\* It starts the endpoint it is for.
LEMMA DataStarts ==
    ASSUME Types, Placed, UsbData, NEW i \in {1, 2}, drv.pool[i].conf, Head(inbox) = Ask(Addr(i))
    PROVE  DataStarted(i)
<1> DEFINE a == Addr(i)
           len == device.ask
           level == 3
           b == IF device = Storage THEN 0 ELSE i
           d == [drv EXCEPT !.level = level, !.bugger = a]
           e == EdptXfer(d, a, len)
<1>1. Head(inbox).addr = a /\ Head(inbox).len = len
  BY DEF Ask, Data
<1>2. drv' = e
  BY <1>1 DEF UsbData
<1>3. level \in 0..3 /\ a \in Addresses /\ len \in Nat /\ drv \in DrvSet
  <2>1. level \in 0..3
    OBVIOUS
  <2>2. a \in Addresses /\ len \in Nat
    BY AddrFacts
  <2> QED BY <2>1, <2>2 DEF Types
<1> HIDE DEF level, a, len
<1>4. /\ d \in DrvSet /\ d.pool = drv.pool /\ d.bufs = drv.bufs /\ d.panic = drv.panic
  BY <1>3 DEF DrvSet
<1> HIDE DEF d
<1>5. SlotsOf(d, a) = SlotsOf(drv, a)
  BY <1>4 DEF SlotsOf
<1>6. /\ SlotsOf(d, a) # {} /\ i = SlotOf(d, a) /\ b = BufOf(d.pool[i])
      /\ d.pool[i].mps > 0 /\ d.pool[i].addr = a
  <2>1. SlotsOf(drv, a) # {} /\ SlotOf(drv, a) = i /\ drv.pool[i].mps = device.config[i].mps
        /\ BufOf(drv.pool[i]) = b /\ drv.pool[i].addr = a
    BY DEF Placed, Belongs, a, Addr
  <2>2. device.config[i].mps > 0
    BY AddrFacts
  <2> QED BY <1>4, <1>5, <2>1, <2>2 DEF SlotOf
<1> HIDE DEF b
<1>7. TransferredAs(d, e, a, len, i, b)
  BY <1>3, <1>4, <1>6, Transferred
<1> HIDE DEF e
<1>8. PidFor(d.pool[i], a) = drv.pool[i].pid
  BY <1>4, <1>6 DEF PidFor
<1> QED BY <1>2, <1>4, <1>7, <1>8 DEF TransferredAs, Aside, DataStarted, a, b, len

\* Data or a knock, but for what becomes of the command or of the reports.
UsbDataAs(i) ==
    /\ InboxInv' /\ OutboxInv' /\ DriverInv' /\ ControlInv'
    /\ Addr(i) \in Asked /\ Asked' = Asked \ {Addr(i)} /\ Answers' = Answers
    /\ device = Storage /\ i = 1 => BulkIn \notin Asked
    /\ 0 \notin bits /\ drv.pool[i].conf /\ DataStarted(i)

\* Between control transfers, it is.
LEMMA UsbDataTaken ==
    ASSUME Orderly, SlotInv, OrderInv, UsbData
    PROVE  \E i \in {1, 2} : UsbDataAs(i)
<1>1. Types /\ InboxInv /\ ControlInv /\ DriverInv
  BY DEF SlotInv, OrderInv
<1>2. /\ inbox # <<>> /\ Head(inbox).type = "data" /\ inbox' = Tail(inbox)
      /\ UNCHANGED <<device, bits, transDone, outbox, dev, drivers>>
  BY DEF UsbData, Dequeue
<1>3. Head(inbox) = inbox[1] /\ 1 \in DOMAIN inbox
  BY <1>1, <1>2 DEF Types
<1>4. Head(inbox).addr \in Asked
  BY <1>2, <1>3 DEF Asked
<1>5. Idle /\ drivers.control = FALSE /\ Ctl \notin Answers
  <2>1. Idle
    BY <1>1, <1>2, <1>3, <1>4 DEF ControlInv, Requested, SetupSent, SetupDone, AnswerAwaited,
                                  AnswerCame, AckAwaited, Acked, Passed
  <2> QED BY <1>1, <1>2, <2>1 DEF Idle, Types, DriversSet
<1>6. Placed
  BY Places DEF Orderly
<1>7. PICK i \in {1, 2} : Head(inbox) = Ask(Addr(i)) /\ drv.pool[i].conf
  <2>1. PICK i \in {1, 2} :
           /\ inbox[1] = Ask(Addr(i))
           /\ drv.pool[i].conf \/ \E j \in 1..(1-1) : inbox[j] = Open(device.config[i])
    BY <1>1, <1>2, <1>3 DEF InboxInv
  <2> QED BY <1>3, <2>1
<1>8. Head(inbox).addr = Addr(i)
  BY <1>7 DEF Ask, Data
<1>9. DataStarted(i)
  BY <1>1, <1>6, <1>7, DataStarts
<1>10. i \in 0..Slots /\ i # 0 /\ 0 \in 0..Slots
  OBVIOUS
<1>11. \A k \in {1, 2} : drv.pool[k].conf => drv'.pool[k].conf
  BY <1>9 DEF DataStarted
<1>12. InboxInv' /\ InboxTakenAs(Head(inbox))
  <2>1. StillOpen
    BY <1>11 DEF StillOpen
  <2>2. \A k \in {1, 2} : Head(inbox) # Open(device.config[k])
    BY <1>2 DEF Open
  <2> QED BY <1>1, <1>2, <2>1, <2>2, InboxTaken
<1>13. /\ Asked' = Asked \ {Addr(i)} /\ Addr(i) \in Asked /\ NoSetup'
       /\ device = Storage /\ i = 1 => BulkIn \notin Asked
  <2>1. NoSetup
    BY <1>5 DEF Idle, NoSetup
  <2>2. device = Storage => Addr(1) = BulkOut
    BY <1>1, AddrFacts
  <2> QED BY <1>2, <1>8, <1>12, <2>1, <2>2 DEF InboxTakenAs
<1>14. Answers' = Answers /\ OutboxInv' /\ Ctl' = Ctl
  BY <1>2, OutboxStays DEF OrderInv
<1>15. 0 \notin bits
  <2>1. CASE device = Storage
    <3>1. OutQueued \/ InQueued
      BY <1>13, <2>1 DEF OrderInv, CommandInv, NoCommand, OutGoing, OutGone, OutPassed, InAwaited,
                         InCame, InPassed
    <3> QED BY <1>5, <3>1 DEF OutQueued, InQueued, NoBulk, InGoing, Idle
  <2>2. CASE device # Storage
    BY <1>5, <2>2 DEF OrderInv, ReportInv, Idle
  <2> QED BY <2>1, <2>2
<1>16. DriverInv'
  <2>1. \A k \in 3..Slots : drv'.bufs[k] = drv.bufs[k]
    BY <1>9 DEF DataStarted
  <2>2. drv'.pool[0] = drv.pool[0] /\ drv'.panic = drv.panic /\ drv'.active \in {0, 1, 2}
    BY <1>9, <1>10 DEF DataStarted
  <2>3. \A k \in {1, 2} : ~drv'.pool[k].conf => drv'.pool[k].pid = 0
    BY <1>1, <1>9 DEF DataStarted, DriverInv
  <2> QED BY <1>1, <1>2, <1>14, <2>1, <2>2, <2>3 DEF DriverInv
<1>17. ControlInv'
  <2>1. Addr(i).num # 0
    BY <1>1, AddrFacts
  <2>2. drv'.pool[0] = drv.pool[0]
    BY <1>9, <1>10 DEF DataStarted
  <2>3. EpxIdle(drv')
    BY <1>5, <1>9, <2>1, <2>2 DEF EpxIdle, DataStarted, Idle
  <2>4. Idle'
    BY <1>2, <1>5, <1>13, <1>14, <1>15, <2>3 DEF Idle, NoSetup, EpxIdle
  <2> QED BY <2>4 DEF ControlInv
<1> QED BY <1>7, <1>9, <1>12, <1>13, <1>14, <1>15, <1>16, <1>17 DEF UsbDataAs

\* A report is asked for.
LEMMA KnockStarts ==
    ASSUME Types, Placed, device # Storage, ReportInv, NEW i \in {1, 2}, UsbDataAs(i),
           UNCHANGED <<device, bits, dev, drivers>>
    PROVE  ReportInv'
<1>1. DataStarted(i) /\ Addr(i) \in Asked /\ Asked' = Asked \ {Addr(i)} /\ Answers' = Answers
      /\ 0 \notin bits /\ drv.pool[i].conf
  BY DEF UsbDataAs
<1>2. PICK k \in {1, 2} : k # i
  OBVIOUS
<1>3. Addr(k) # Addr(i) /\ Addr(i).in
  BY <1>2, AddrFacts
<1>4. i \in 0..Slots /\ k \in 0..Slots
  OBVIOUS
<1>5. ReportPlaced(k)'
  <2>1. SamePlace(k)
    BY <1>1, <1>2, <1>3, <1>4 DEF SamePlace, DataStarted
  <2>2. ReportPlaced(k)
    BY DEF ReportInv
  <2> QED BY <2>1, <2>2, ReportStays
<1>6. ReportAsked(i)
  <2>1. ReportPlaced(i)
    BY DEF ReportInv
  <2> QED BY <1>1, <2>1 DEF ReportPlaced, ReportNone, ReportAwaited, ReportCame, ReportPassed
<1>7. ReportAwaited(i)'
  <2>1. Addr(i)' = Addr(i)
    BY DEF Addr
  <2>2. Started(drv', i, dev.pid[Addr(i)])
    BY <1>1, <1>6 DEF DataStarted, Started, ReportAsked
  <2>3. drv'.bufs[i].pid = dev.pid[Addr(i)]
    BY <1>1, <1>6 DEF DataStarted, ReportAsked
  <2> QED BY <1>1, <1>6, <2>1, <2>2, <2>3 DEF ReportAwaited, ReportAsked, Started
<1>8. ReportPlaced(1)' /\ ReportPlaced(2)'
  BY <1>2, <1>5, <1>7 DEF ReportPlaced
<1>9. drv'.trans.kind = "in"
  BY <1>1, <1>3 DEF DataStarted
<1> QED BY <1>1, <1>8, <1>9 DEF ReportInv

\* Data for the OUT endpoint, or the IN endpoint is asked.
LEMMA BulkStarts ==
    ASSUME Types, Placed, device = Storage, CommandInv, InboxInv, NEW i \in {1, 2}, UsbDataAs(i),
           UNCHANGED <<device, bits, dev, drivers>>, dev.left \in Nat
    PROVE  CommandInv'
<1>1. /\ DataStarted(i) /\ Addr(i) \in Asked /\ Asked' = Asked \ {Addr(i)} /\ Answers' = Answers
      /\ 0 \notin bits /\ drv.pool[i].conf /\ (i = 1 => BulkIn \notin Asked)
  BY DEF UsbDataAs
<1>2. /\ Addr(1) = BulkOut /\ Addr(2) = BulkIn /\ BulkOut # BulkIn /\ device.ask = BulkSize
      /\ ~BulkOut.in /\ BulkIn.in
  BY AddrFacts, Addressing
<1>3. Asked \subseteq {BulkOut, BulkIn}
  BY <1>2, AskedOf
<1>4. drv.pool[i].mps = BulkSize /\ BulkSize \in Nat \ {0}
  BY <1>1, AddrFacts DEF Placed
<1>5. drv.pool[i].pid \in Pid
  <2>1. i \in 0..Slots
    OBVIOUS
  <2>2. drv.pool[i] \in EpSet
    BY <2>1 DEF Types, DrvSet
  <2> QED BY <2>2 DEF EpSet
<1>6. /\ drv'.pool[i].conf /\ drv'.pool[i].user /\ drv'.pool[i].rem = 0
      /\ drv'.pool[i].pid = 1 - drv.pool[i].pid
      /\ drv'.active = i /\ drv'.bufs[0].pid = drv.pool[i].pid
  <2>1. Flips(BulkSize, BulkSize) /\ Rest(BulkSize, BulkSize) = 0
    <3>1. BulkSize \in Nat /\ BulkSize > 0 /\ BulkSize <= BulkSize
      BY <1>4
    <3>2. Flips(BulkSize, BulkSize)
      BY <1>4, <3>1, Parity
    <3> QED BY <3>1, <3>2 DEF Rest
  <2>2. Turned(drv.pool[i].pid, TRUE) = 1 - drv.pool[i].pid
    BY DEF Turned
  <2> QED BY <1>1, <1>2, <1>4, <2>1, <2>2 DEF DataStarted, Turned
<1>7. drv'.trans = [kind |-> IF Addr(i).in THEN "in" ELSE "out", num |-> Addr(i).num]
  BY <1>1 DEF DataStarted
<1>8. dev.pid[BulkIn] \in Pid
  BY Addressing DEF Types, DevSet
<1>9. CASE i = 1
  <2>1. drv'.pool[2] = drv.pool[2]
    <3>1. 2 \in 0..Slots /\ 2 # i
      BY <1>9
    <3> QED BY <1>1, <3>1 DEF DataStarted
  <2>2. OutQueued /\ Asked' = {}
    <3>1. Asked = {BulkOut}
      BY <1>1, <1>2, <1>3, <1>9
    <3>2. OutQueued
      BY <1>2, <3>1 DEF CommandInv, NoCommand, OutGoing, OutGone, OutPassed, InQueued, InAwaited,
                         InCame, InPassed
    <3> QED BY <1>1, <1>2, <1>9, <3>1, <3>2
  <2>3. IF dev.busy THEN InPid(dev.left + 1) ELSE InPid(0)
    BY <1>1, <1>9, <2>2 DEF OutQueued, InGoing
  <2>4. OutGoing'
    <3>1. Sent' /\ Answers' = {} /\ 0 \notin bits'
      BY <1>1, <2>2 DEF OutQueued, Sent
    <3>2. drv.pool[1].pid = dev.pid[BulkOut]
      BY <2>2 DEF OutQueued, OutPid
    <3>3. IF dev'.busy THEN InPid(dev.left + 1)' ELSE InPid(0)'
      BY <2>1, <2>3 DEF InPid
    <3>4. drv'.trans = [kind |-> "out", num |-> BulkOut.num]
      BY <1>2, <1>7, <1>9
    <3> QED BY <1>6, <1>9, <2>2, <3>1, <3>2, <3>3, <3>4 DEF OutGoing
  <2> QED BY <2>4 DEF CommandInv
<1>10. CASE i = 2
  <2>1. drv'.pool[1] = drv.pool[1]
    <3>1. 1 \in 0..Slots /\ 1 # i
      BY <1>10
    <3> QED BY <1>1, <3>1 DEF DataStarted
  <2>2. OutPid => OutPid'
    BY <2>1 DEF OutPid
  <2>3. drv'.trans = [kind |-> "in", num |-> BulkIn.num]
    BY <1>2, <1>7, <1>10
  <2>4. InPid(dev.left) => InGoing'
    <3> SUFFICES ASSUME InPid(dev.left) PROVE InGoing'
      OBVIOUS
    <3>1. drv'.pool[2].pid = Turned(dev.pid[BulkIn], Odd(dev.left + 1))
      BY <1>6, <1>8, <1>10, OddNext DEF InPid
    <3>2. drv'.bufs[0].pid = Turned(dev.pid[BulkIn], Odd(dev.left))
      BY <1>6, <1>10 DEF InPid
    <3> QED BY <1>1, <1>6, <1>10, <2>3, <3>1, <3>2 DEF InGoing, InPid
  <2>5. (OutQueued /\ BulkOut \in Asked') \/ (InQueued /\ Asked' = {})
    <3>1. OutQueued \/ InQueued
      BY <1>1, <1>2, <1>10 DEF CommandInv, NoCommand, OutGoing, OutGone, OutPassed, InAwaited,
                               InCame, InPassed
    <3>2. OutQueued => BulkOut \in Asked'
      BY <1>1, <1>2, <1>10 DEF OutQueued
    <3>3. InQueued => Asked' = {}
      BY <1>1, <1>2, <1>10 DEF InQueued
    <3> QED BY <3>1, <3>2, <3>3
  <2>6. BulkIn \notin Asked' /\ BulkIn \in Asked
    BY <1>1, <1>2, <1>10
  <2>7. CASE OutQueued /\ BulkOut \in Asked'
    <3>1. OutQueued'
      BY <1>1, <2>2, <2>4, <2>6, <2>7 DEF OutQueued, Sent
    <3> QED BY <3>1 DEF CommandInv
  <2>8. CASE InQueued /\ Asked' = {}
    <3>1. InAwaited'
      BY <1>1, <2>2, <2>4, <2>8 DEF InAwaited, InQueued, Due
    <3> QED BY <3>1 DEF CommandInv
  <2> QED BY <2>5, <2>7, <2>8
<1> QED BY <1>9, <1>10

\* USB_DATA.
LEMMA UsbDataKeeps ==
    ASSUME Orderly, SlotInv, OrderInv, UsbData
    PROVE  OrderInv'
<1>1. PICK i \in {1, 2} : UsbDataAs(i)
  BY UsbDataTaken
<1>2. Types /\ Placed /\ UNCHANGED <<device, bits, dev, drivers>> /\ dev.left \in Nat /\ InboxInv
  BY Places DEF SlotInv, Orderly, UsbData, Dequeue, OrderInv, DriverInv
<1>3. IF device = Storage THEN CommandInv' ELSE ReportInv'
  BY <1>1, <1>2, KnockStarts, BulkStarts DEF OrderInv
<1>4. ConfiguredInv'
  BY <1>2 DEF OrderInv, ConfiguredInv
<1> QED BY <1>1, <1>2, <1>3, <1>4 DEF OrderInv, UsbDataAs

-----------------------------------------------------------------------------
(* The device.                                                             *)

\* What a transaction over buffer b leaves, and what it brings.
DoneAs(b, a, n) ==
    /\ drv'.pool = drv.pool /\ drv'.active = drv.active /\ drv'.level = drv.level
    /\ drv'.sie = drv.sie /\ drv'.reads = drv.reads /\ drv'.panic = drv.panic
    /\ drv'.trans = IF b = 0 THEN NoTrans ELSE drv.trans
    /\ \A k \in 0..Slots : k # b => drv'.bufs[k] = drv.bufs[k]
    /\ ~drv'.bufs[b].avail /\ drv'.bufs[b].full = a.in /\ drv'.bufs[b].len = n
    /\ drv'.bufs[b].src = a
    /\ bits' = bits \cup {b} /\ transDone' = (transDone \/ drv.bufs[b].last)
    /\ UNCHANGED <<device, inbox, outbox, drivers>>

\* The PID of the buffer is the one the device expects.
LEMMA DoneWell ==
    ASSUME Types, NEW b \in 0..Slots, NEW a \in Addresses, NEW n, Done(b, a, n),
           a.in => drv.bufs[b].pid = dev.pid[a]
    PROVE  DoneAs(b, a, n)
<1> DEFINE t == IF b = 0 THEN NoTrans ELSE drv.trans
           old == drv.bufs[b]
           buf == [old EXCEPT !.avail = FALSE, !.full = a.in, !.len = n, !.src = a]
           panic == drv.panic \/ (a.in /\ drv.bufs[b].pid # dev.pid[a])
<1>1. old \in BufSet /\ drv.bufs \in [0..Slots -> BufSet] /\ drv \in DrvSet
  BY DEF Types, DrvSet
<1>2. ~buf.avail /\ buf.full = a.in /\ buf.len = n /\ buf.src = a
  <2> HIDE DEF old
  <2> QED BY <1>1 DEF BufSet
<1>3. drv' = [drv EXCEPT !.trans = t, !.bufs[b] = buf, !.panic = panic]
  BY DEF Done, Types, DrvSet
<1>4. panic = drv.panic
  <2>1. drv.panic \in BOOLEAN /\ a.in \in BOOLEAN
    BY <1>1, Addressing DEF DrvSet
  <2>2. (drv.panic \/ (a.in /\ drv.bufs[b].pid # dev.pid[a])) <=> drv.panic
    BY <2>1
  <2> QED BY <2>1, <2>2
<1> HIDE DEF t, buf, panic
<1>5. /\ drv'.pool = drv.pool /\ drv'.active = drv.active /\ drv'.level = drv.level
      /\ drv'.sie = drv.sie /\ drv'.reads = drv.reads /\ drv'.panic = panic
      /\ drv'.trans = t /\ drv'.bufs = [drv.bufs EXCEPT ![b] = buf]
  BY <1>1, <1>3 DEF DrvSet
<1>6. drv'.bufs[b] = buf /\ \A k \in 0..Slots : k # b => drv'.bufs[k] = drv.bufs[k]
  BY <1>1, <1>5
<1>7. /\ bits' = bits \cup {b} /\ transDone' = (transDone \/ drv.bufs[b].last)
      /\ UNCHANGED <<device, inbox, outbox, drivers>>
  BY DEF Done
<1> QED BY <1>2, <1>4, <1>5, <1>6, <1>7 DEF DoneAs, t

\* An endpoint other than EPX, and the reports, are not what a transaction of EPX is for.
LEMMA ReportsStay ==
    ASSUME ReportInv, device' = device, dev'.busy = dev.busy, drivers' = drivers,
           Asked' = Asked, Answers' = Answers, drv'.pool = drv.pool,
           \A k \in {1, 2} : /\ k \in bits' <=> k \in bits
                             /\ drv'.bufs[k] = drv.bufs[k]
                             /\ dev'.pid[Addr(k)] = dev.pid[Addr(k)],
           drv'.trans.kind = "out" => drv'.trans.num = 0,
           0 \in bits' => drv'.active = 0
    PROVE  ReportInv'
<1>1. \A k \in {1, 2} : SamePlace(k)
  BY DEF SamePlace
<1>2. ReportPlaced(1)' /\ ReportPlaced(2)'
  BY <1>1, ReportStays DEF ReportInv
<1> QED BY <1>2 DEF ReportInv

\* The setup packet.
LEMMA DeviceSetupKeeps ==
    ASSUME Orderly, SlotInv, OrderInv, DeviceSetup
    PROVE  OrderInv'
<1>1. Types /\ InboxInv /\ ControlInv /\ DriverInv
  BY DEF SlotInv, OrderInv
<1>2. /\ drv.trans.kind = "setup"
      /\ dev' = [dev EXCEPT !.stage = IF drv.reads THEN "data" ELSE "status",
                            !.pid[Control(TRUE)] = 1]
      /\ drv' = [drv EXCEPT !.trans = NoTrans] /\ transDone' = TRUE
      /\ UNCHANGED <<device, bits, inbox, outbox, drivers>>
  BY DEF DeviceSetup, Transaction
<1>3. /\ drv'.pool = drv.pool /\ drv'.active = drv.active /\ drv'.level = drv.level
      /\ drv'.sie = drv.sie /\ drv'.reads = drv.reads /\ drv'.panic = drv.panic
      /\ drv'.bufs = drv.bufs /\ drv'.trans = NoTrans
  BY <1>1, <1>2 DEF Types, DrvSet
<1>4. /\ dev'.stage = Asking /\ dev'.busy = dev.busy /\ dev'.left = dev.left
      /\ dev'.pid = [dev.pid EXCEPT ![Ctl] = 1]
  BY <1>1, <1>2 DEF Types, DevSet, Asking, Ctl
<1>5. dev'.pid[Ctl] = 1 /\ \A a \in Addresses : a # Ctl => dev'.pid[a] = dev.pid[a]
  BY <1>1, <1>4, Addressing DEF Types, DevSet, Ctl
<1>6. SetupSent
  BY <1>1, <1>2 DEF ControlInv, Idle, Requested, EpxIdle, SetupDone, AnswerAwaited, AnswerDue,
                    AnswerCame, AckAwaited, AckDue, Acked, NoTrans
<1>7. InboxInv' /\ Asked' = Asked
  <2>1. StillOpen
    BY <1>3 DEF StillOpen
  <2> QED BY <1>1, <1>2, <2>1, InboxStays
<1>8. Answers' = Answers /\ OutboxInv' /\ Ctl' = Ctl
  BY <1>2, OutboxStays DEF OrderInv
<1>9. DriverInv'
  BY <1>1, <1>2, <1>3, <1>4, <1>5, <1>8 DEF DriverInv
<1>10. SetupDone'
  <2>1. Asking' = Asking
    BY <1>3 DEF Asking
  <2> QED BY <1>2, <1>3, <1>4, <1>6, <1>8, <2>1 DEF SetupDone, SetupSent, InProgress, SettingUp
<1>11. \A k \in {1, 2} : dev'.pid[Addr(k)] = dev.pid[Addr(k)]
  BY <1>1, <1>5, AddrFacts
<1>12. device = Storage => CommandInv'
  <2> SUFFICES ASSUME device = Storage PROVE CommandInv'
    OBVIOUS
  <2>1. NoCommand
    BY <1>6, CommandIdle DEF OrderInv, SetupSent, InProgress
  <2>2. NoBulk'
    BY <1>2, <1>3, <2>1 DEF NoBulk, NoCommand, NoTrans
  <2>3. drivers'.phase = "idle" /\ Asked' = {} /\ Answers' \subseteq {Ctl}
    BY <1>2, <1>7, <1>8, <2>1 DEF NoCommand
  <2>4. Addr(1) = BulkOut /\ Addr(2) = BulkIn
    BY <1>1, AddrFacts
  <2>5. dev'.pid[BulkOut] = dev.pid[BulkOut] /\ dev'.pid[BulkIn] = dev.pid[BulkIn]
    BY <1>11, <2>4
  <2> QED BY <1>2, <1>3, <1>4, <2>1, <2>2, <2>3, <2>5, NoCommandStays
<1>13. device # Storage => ReportInv'
  <2> SUFFICES ASSUME device # Storage PROVE ReportInv'
    OBVIOUS
  <2>1. ReportInv
    BY DEF OrderInv
  <2>2. drv'.trans.kind = "out" => drv'.trans.num = 0
    BY <1>3 DEF NoTrans
  <2> QED BY <1>2, <1>3, <1>4, <1>7, <1>8, <1>11, <2>1, <2>2, ReportsStay DEF ReportInv
<1>14. ConfiguredInv'
  BY <1>2 DEF OrderInv, ConfiguredInv
<1> QED BY <1>2, <1>7, <1>8, <1>9, <1>10, <1>12, <1>13, <1>14 DEF OrderInv, ControlInv

\* What a transaction of EPX for endpoint 0 leaves.
EpxDone(in, n) ==
    /\ DoneAs(0, Control(in), n)
    /\ dev'.busy = dev.busy /\ dev'.left = dev.left /\ dev'.pid = dev.pid
    /\ drv.active = 0 /\ drivers.phase = "idle"

\* Packets of endpoint 0 are no part of a command or a report.
LEMMA EpxDoneKeeps ==
    ASSUME Orderly, SlotInv, OrderInv, NEW in \in BOOLEAN, NEW n, EpxDone(in, n)
    PROVE  /\ InboxInv' /\ OutboxInv' /\ DriverInv' /\ ConfiguredInv'
           /\ IF device = Storage THEN CommandInv' ELSE ReportInv'
           /\ Asked' = Asked /\ Answers' = Answers /\ Ctl' = Ctl
<1>1. Types /\ InboxInv /\ DriverInv
  BY DEF SlotInv, OrderInv
<1>2. /\ drv'.pool = drv.pool /\ drv'.active = 0
      /\ drv'.panic = drv.panic /\ drv'.trans = NoTrans
      /\ \A k \in 0..Slots : k # 0 => drv'.bufs[k] = drv.bufs[k]
      /\ bits' = bits \cup {0}
      /\ UNCHANGED <<device, inbox, outbox, drivers>>
      /\ dev'.busy = dev.busy /\ dev'.left = dev.left /\ dev'.pid = dev.pid
      /\ drivers.phase = "idle"
  BY DEF EpxDone, DoneAs
<1>3. InboxInv' /\ Asked' = Asked
  <2>1. StillOpen
    BY <1>2 DEF StillOpen
  <2> QED BY <1>1, <1>2, <2>1, InboxStays
<1>4. Answers' = Answers /\ OutboxInv' /\ Ctl' = Ctl
  BY <1>2, OutboxStays DEF OrderInv
<1>5. \A k \in 1..Slots : drv'.bufs[k] = drv.bufs[k]
  BY <1>2
<1>6. DriverInv'
  BY <1>1, <1>2, <1>4, <1>5 DEF DriverInv
<1>7. device = Storage => CommandInv'
  <2> SUFFICES ASSUME device = Storage PROVE CommandInv'
    OBVIOUS
  <2>1. NoCommand
    BY <1>2, CommandIdle DEF OrderInv
  <2>2. NoBulk'
    BY <1>2 DEF NoBulk, NoTrans
  <2>3. drivers'.phase = "idle" /\ Asked' = {} /\ Answers' \subseteq {Ctl}
    BY <1>2, <1>3, <1>4, <2>1 DEF NoCommand
  <2> QED BY <1>2, <2>1, <2>2, <2>3, NoCommandStays
<1>8. device # Storage => ReportInv'
  <2> SUFFICES ASSUME device # Storage PROVE ReportInv'
    OBVIOUS
  <2>1. ReportInv
    BY DEF OrderInv
  <2>2. drv'.trans.kind = "out" => drv'.trans.num = 0
    BY <1>2 DEF NoTrans
  <2>3. \A k \in {1, 2} : (k \in bits' <=> k \in bits) /\ drv'.bufs[k] = drv.bufs[k]
                          /\ dev'.pid[Addr(k)] = dev.pid[Addr(k)]
    BY <1>2, <1>5
  <2> QED BY <1>2, <1>3, <1>4, <2>1, <2>2, <2>3, ReportsStay
<1>9. ConfiguredInv'
  BY <1>2 DEF ConfiguredInv
<1> QED BY <1>3, <1>4, <1>6, <1>7, <1>8, <1>9

\* The answer to a control request.
LEMMA DeviceAnswerKeeps ==
    ASSUME Orderly, SlotInv, OrderInv, DeviceAnswer
    PROVE  OrderInv'
<1>1. Types /\ ControlInv /\ DriverInv
  BY DEF SlotInv, OrderInv
<1> DEFINE n == IF dev.stage = "data" THEN 1 ELSE 0
           stage == IF dev.stage = "data" THEN "ack" ELSE "idle"
<1>2. /\ drv.trans.kind = "in" /\ drv.trans.num = 0 /\ dev.stage \in {"data", "status"}
      /\ dev' = [dev EXCEPT !.stage = stage]
      /\ Done(0, Ctl, n)
  BY DEF DeviceAnswer, Transaction, Ctl
<1> HIDE DEF n, stage
<1>3. /\ dev'.stage = stage /\ dev'.busy = dev.busy /\ dev'.left = dev.left /\ dev'.pid = dev.pid
  BY <1>1, <1>2 DEF Types, DevSet
<1>4. AnswerAwaited
  BY <1>1, <1>2 DEF ControlInv, Idle, Requested, EpxIdle, SetupSent, SetupDone,
                    AnswerCame, AckAwaited, Acked, NoTrans
<1>5. DoneAs(0, Ctl, n)
  <2>1. drv.bufs[0].pid = dev.pid[Ctl]
    BY <1>1, <1>4 DEF AnswerAwaited, AnswerDue, DriverInv
  <2>2. Ctl \in Addresses
    BY Addressing DEF Ctl
  <2>3. 0 \in 0..Slots
    OBVIOUS
  <2> QED BY <1>1, <1>2, <2>1, <2>2, <2>3, DoneWell
<1>6. EpxDone(TRUE, n)
  BY <1>3, <1>4, <1>5 DEF EpxDone, Ctl, AnswerAwaited, AnswerDue, Reading, InProgress
<1>7. /\ InboxInv' /\ OutboxInv' /\ DriverInv' /\ ConfiguredInv'
      /\ IF device = Storage THEN CommandInv' ELSE ReportInv'
      /\ Asked' = Asked /\ Answers' = Answers /\ Ctl' = Ctl
  BY <1>6, EpxDoneKeeps
<1>8. AnswerCame'
  <2>1. InProgress' /\ inbox' = <<>>
    BY <1>4, <1>5, <1>7 DEF AnswerAwaited, InProgress, DoneAs
  <2>2. Reading(drv')
    BY <1>4, <1>5 DEF AnswerAwaited, AnswerDue, Reading, DoneAs
  <2>3. /\ dev'.stage = IF drv'.reads THEN "ack" ELSE "idle"
        /\ n = IF drv'.reads THEN 1 ELSE 0
    BY <1>3, <1>4, <1>5 DEF AnswerAwaited, Asking, DoneAs, n, stage
  <2>4. drv'.bufs[0].full /\ drv'.bufs[0].src = Ctl /\ drv'.bufs[0].len = n
        /\ 0 \in bits' /\ drv'.trans = NoTrans
    BY <1>5, Addressing DEF DoneAs, Ctl
  <2> QED BY <1>5, <1>7, <2>1, <2>2, <2>3, <2>4 DEF AnswerCame, DoneAs, Reading
<1> QED BY <1>5, <1>7, <1>8 DEF OrderInv, ControlInv, DoneAs

\* The acknowledgement of data.
LEMMA DeviceAckKeeps ==
    ASSUME Orderly, SlotInv, OrderInv, DeviceAck
    PROVE  OrderInv'
<1>1. Types /\ ControlInv /\ DriverInv
  BY DEF SlotInv, OrderInv
<1>2. /\ drv.trans.kind = "out" /\ drv.trans.num = 0 /\ dev.stage = "ack"
      /\ dev' = [dev EXCEPT !.stage = "idle"]
      /\ Done(0, Control(FALSE), 0)
  BY DEF DeviceAck, Transaction
<1>3. /\ dev'.stage = "idle" /\ dev'.busy = dev.busy /\ dev'.left = dev.left /\ dev'.pid = dev.pid
  BY <1>1, <1>2 DEF Types, DevSet
<1>4. AckAwaited
  BY <1>1, <1>2 DEF ControlInv, Idle, Requested, EpxIdle, SetupSent, SetupDone, Asking,
                    AnswerAwaited, AnswerCame, Acked, NoTrans
<1>5. DoneAs(0, Control(FALSE), 0)
  <2>1. 0 \in 0..Slots
    OBVIOUS
  <2>2. Control(FALSE) \in Addresses /\ ~Control(FALSE).in
    BY Addressing
  <2> QED BY <1>1, <1>2, <2>1, <2>2, DoneWell
<1> DEFINE in == FALSE
           n == 0
<1>6. EpxDone(in, n) /\ in \in BOOLEAN
  BY <1>3, <1>4, <1>5 DEF EpxDone, AckAwaited, AckDue, Acking, Passed
<1> HIDE DEF in, n
<1>7. /\ InboxInv' /\ OutboxInv' /\ DriverInv' /\ ConfiguredInv'
      /\ IF device = Storage THEN CommandInv' ELSE ReportInv'
      /\ Asked' = Asked /\ Answers' = Answers /\ Ctl' = Ctl
  BY <1>6, EpxDoneKeeps
<1>8. Acked'
  <2>1. Passed'
    BY <1>4, <1>5, <1>7 DEF AckAwaited, Passed, DoneAs
  <2>2. Acking(drv')
    BY <1>4, <1>5 DEF AckAwaited, AckDue, Acking, DoneAs
  <2>3. ~drv'.bufs[0].full /\ drv'.bufs[0].len = 0 /\ 0 \in bits' /\ drv'.trans = NoTrans
    BY <1>5, Addressing DEF DoneAs
  <2> QED BY <1>3, <2>1, <2>2, <2>3 DEF Acked
<1> QED BY <1>5, <1>7, <1>8 DEF OrderInv, ControlInv, DoneAs

\* A transaction of EPX for a bulk endpoint, which leaves control transfers alone.
BulkDone(a, n) ==
    /\ DoneAs(0, a, n) /\ device = Storage
    /\ dev'.stage = dev.stage /\ dev'.left \in Nat /\ dev'.pid[Ctl] = dev.pid[Ctl]
    /\ drv.active # 0 /\ drivers.phase # "idle"

\* It does.
LEMMA BulkDoneKeeps ==
    ASSUME Orderly, SlotInv, OrderInv, NEW a, NEW n, BulkDone(a, n)
    PROVE  /\ InboxInv' /\ OutboxInv' /\ DriverInv' /\ ConfiguredInv' /\ ControlInv'
           /\ Asked' = Asked /\ Answers' = Answers
<1>1. Types /\ InboxInv /\ DriverInv
  BY DEF SlotInv, OrderInv
<1>2. /\ drv'.pool = drv.pool /\ drv'.active = drv.active /\ drv'.sie = drv.sie
      /\ drv'.panic = drv.panic /\ drv'.trans = NoTrans
      /\ \A k \in 0..Slots : k # 0 => drv'.bufs[k] = drv.bufs[k]
      /\ bits' = bits \cup {0}
      /\ UNCHANGED <<device, inbox, outbox, drivers>>
      /\ dev'.stage = dev.stage /\ dev'.left \in Nat /\ dev'.pid[Ctl] = dev.pid[Ctl]
      /\ drv.active # 0 /\ drivers.phase # "idle" /\ device = Storage
  BY DEF BulkDone, DoneAs
<1>3. InboxInv' /\ Asked' = Asked
  <2>1. StillOpen
    BY <1>2 DEF StillOpen
  <2> QED BY <1>1, <1>2, <2>1, InboxStays
<1>4. Answers' = Answers /\ OutboxInv' /\ Ctl' = Ctl
  BY <1>2, OutboxStays DEF OrderInv
<1>5. \A k \in 1..Slots : drv'.bufs[k] = drv.bufs[k]
  BY <1>2
<1>6. DriverInv'
  BY <1>1, <1>2, <1>4, <1>5 DEF DriverInv
<1>7. Idle
  BY <1>1, <1>2, ControlApart DEF OrderInv
<1>8. Idle'
  <2>1. EpxIdle(drv')
    BY <1>2, <1>7 DEF Idle, EpxIdle, NoTrans
  <2> QED BY <1>2, <1>4, <1>7, <2>1 DEF Idle, EpxIdle
<1>9. ConfiguredInv'
  BY <1>2 DEF OrderInv, ConfiguredInv
<1> QED BY <1>3, <1>4, <1>6, <1>8, <1>9 DEF ControlInv

\* A packet of the OUT endpoint: a command, or data of one.
LEMMA DeviceBulkOutKeeps ==
    ASSUME Orderly, SlotInv, OrderInv, DeviceBulkOut
    PROVE  OrderInv'
<1>1. Types /\ DriverInv
  BY DEF SlotInv, OrderInv
<1>2. /\ drv.trans.kind = "out" /\ drv.trans.num = BulkOut.num
      /\ Done(0, BulkOut, drv.bufs[0].len)
  BY DEF DeviceBulkOut, Transaction
<1>3. device = Storage
  BY <1>2, Addressing DEF OrderInv, ReportInv
<1>4. OutGoing
  BY <1>2, <1>3, Addressing DEF OrderInv, CommandInv, NoCommand, OutQueued, OutGone, OutPassed,
                    InQueued, InAwaited, InCame, InPassed, NoBulk, InGoing, NoTrans
<1>5. PICK n \in IF dev.busy THEN {dev.left - 1} ELSE OutPackets :
          dev' = [dev EXCEPT !.pid[BulkOut] = 1 - @, !.busy = TRUE, !.left = n]
  BY <1>4 DEF DeviceBulkOut, OutGoing
<1>6. /\ dev'.stage = dev.stage /\ dev'.busy /\ dev'.left = n
      /\ dev'.pid = [dev.pid EXCEPT ![BulkOut] = 1 - @]
  BY <1>1, <1>5 DEF Types, DevSet
<1>7. /\ Ctl \in Addresses /\ BulkOut \in Addresses /\ BulkIn \in Addresses
      /\ Ctl # BulkOut /\ BulkIn # BulkOut /\ ~BulkOut.in
  BY Addressing DEF Ctl
<1>8. /\ dev'.pid[Ctl] = dev.pid[Ctl] /\ dev'.pid[BulkIn] = dev.pid[BulkIn]
      /\ dev'.pid[BulkOut] = 1 - dev.pid[BulkOut]
  BY <1>1, <1>6, <1>7 DEF Types, DevSet
<1>9. n \in Nat /\ (IF dev.busy THEN dev.left \in Nat /\ Odd(dev.left + 1) = Odd(n)
                    ELSE Odd(0) = Odd(n))
  <2>1. CASE dev.busy
    <3>1. dev.left \in Nat /\ dev.left > 0 /\ n = dev.left - 1
      BY <1>1, <1>4, <1>5, <2>1 DEF OutGoing, Sent, DriverInv
    <3>2. (dev.left + 1) % 2 = n % 2
      BY <3>1, Z3
    <3> QED BY <2>1, <3>1, <3>2 DEF Odd
  <2>2. CASE ~dev.busy
    <3>1. n \in Nat /\ n % 2 = 0
      BY <1>5, <2>2 DEF Orderly
    <3>2. 0 % 2 = 0
      OBVIOUS
    <3> QED BY <2>2, <3>1, <3>2 DEF Odd
  <2> QED BY <2>1, <2>2
<1>10. DoneAs(0, BulkOut, drv.bufs[0].len)
  <2>1. 0 \in 0..Slots
    OBVIOUS
  <2> QED BY <1>1, <1>2, <1>7, <2>1, DoneWell
<1>11. BulkDone(BulkOut, drv.bufs[0].len)
  BY <1>3, <1>4, <1>6, <1>8, <1>9, <1>10 DEF BulkDone, OutGoing, Sent
<1>12. /\ InboxInv' /\ OutboxInv' /\ DriverInv' /\ ConfiguredInv' /\ ControlInv'
       /\ Asked' = Asked /\ Answers' = Answers
  BY <1>11, BulkDoneKeeps
<1>13. OutGone'
  <2>1. /\ drv'.pool = drv.pool /\ drv'.active = drv.active /\ drv'.trans = NoTrans
        /\ 0 \in bits' /\ drivers' = drivers /\ ~drv'.bufs[0].full
    BY <1>7, <1>10 DEF DoneAs
  <2>2. InPid(n)
    BY <1>4, <1>9 DEF OutGoing, InPid
  <2>3. OutPid' /\ InPid(dev.left)'
    BY <1>4, <1>6, <1>8, <2>1, <2>2 DEF OutPid, InPid, OutGoing
  <2> QED BY <1>4, <1>6, <1>12, <2>1, <2>3 DEF OutGone, OutGoing, Sent
<1> QED BY <1>3, <1>10, <1>12, <1>13 DEF OrderInv, CommandInv, DoneAs

\* A packet of the IN endpoint.
LEMMA DeviceBulkInKeeps ==
    ASSUME Orderly, SlotInv, OrderInv, DeviceBulkIn
    PROVE  OrderInv'
<1>1. Types /\ DriverInv
  BY DEF SlotInv, OrderInv
<1>2. drv.trans.kind = "in" /\ drv.trans.num = BulkIn.num /\ dev.busy /\ dev.left = 0
  BY DEF DeviceBulkIn, Transaction
<1>3. PICK over \in BOOLEAN, n \in {1, BulkSize} :
          /\ dev' = [dev EXCEPT !.pid[BulkIn] = 1 - @, !.busy = ~over]
          /\ Done(0, BulkIn, n)
  BY DEF DeviceBulkIn
<1>4. device = Storage
  BY <1>2 DEF OrderInv, ReportInv
<1>5. InAwaited
  BY <1>2, <1>4, Addressing DEF OrderInv, CommandInv, NoCommand, OutQueued, OutGone, OutPassed,
                    InQueued, OutGoing, InCame, InPassed, NoBulk, Sent, NoTrans
<1>6. /\ dev'.stage = dev.stage /\ dev'.left = 0
      /\ dev'.pid = [dev.pid EXCEPT ![BulkIn] = 1 - @]
  BY <1>1, <1>2, <1>3 DEF Types, DevSet
<1>7. /\ Ctl \in Addresses /\ BulkOut \in Addresses /\ BulkIn \in Addresses
      /\ Ctl # BulkIn /\ BulkIn # BulkOut /\ BulkIn.in
  BY Addressing DEF Ctl
<1>8. /\ dev'.pid[Ctl] = dev.pid[Ctl] /\ dev'.pid[BulkOut] = dev.pid[BulkOut]
      /\ dev'.pid[BulkIn] = 1 - dev.pid[BulkIn]
  BY <1>1, <1>6, <1>7 DEF Types, DevSet
<1>9. dev.pid[BulkIn] \in Pid /\ 1 - dev.pid[BulkIn] \in Pid
  <2>1. dev.pid[BulkIn] \in Pid
    BY <1>1, <1>7 DEF Types, DevSet
  <2> QED BY <2>1 DEF Pid
<1>10. /\ drv.bufs[0].pid = dev.pid[BulkIn]
       /\ drv.pool[2].pid = Turned(dev'.pid[BulkIn], Odd(0))
  <2> DEFINE p == dev.pid[BulkIn]
             zero == 0
  <2>1. p \in Pid /\ 1 - p \in Pid /\ zero \in Nat /\ zero = 0
    BY <1>9
  <2>2. drv.bufs[0].pid = Turned(p, Odd(zero)) /\ drv.pool[2].pid = Turned(p, Odd(zero + 1))
    BY <1>2, <1>5 DEF InAwaited, InGoing, InPid
  <2> HIDE DEF p, zero
  <2>3. /\ Turned(p, Odd(zero + 1)) = 1 - Turned(p, Odd(zero))
        /\ Turned(p, Odd(0)) = p /\ Turned(1 - p, Odd(0)) = 1 - p
    BY <2>1, OddNext
  <2>4. drv.bufs[0].pid = p /\ drv.pool[2].pid = Turned(1 - p, Odd(0))
    BY <2>1, <2>2, <2>3
  <2> QED BY <1>8, <2>4 DEF p
<1>11. DoneAs(0, BulkIn, n)
  <2>1. 0 \in 0..Slots
    OBVIOUS
  <2> QED BY <1>1, <1>3, <1>7, <1>10, <2>1, DoneWell
<1>12. BulkDone(BulkIn, n)
  BY <1>4, <1>5, <1>6, <1>8, <1>11 DEF BulkDone, InAwaited, InGoing, Due
<1>13. /\ InboxInv' /\ OutboxInv' /\ DriverInv' /\ ConfiguredInv' /\ ControlInv'
       /\ Asked' = Asked /\ Answers' = Answers
  BY <1>12, BulkDoneKeeps
<1>14. InCame'
  <2>1. /\ drv'.pool = drv.pool /\ drv'.active = drv.active /\ drv'.trans = NoTrans
        /\ 0 \in bits' /\ drivers' = drivers
        /\ drv'.bufs[0].full /\ drv'.bufs[0].src = BulkIn
    BY <1>7, <1>11 DEF DoneAs
  <2>2. Due' /\ InPid(0)'
    BY <1>5, <1>8, <1>10, <2>1 DEF OutPid, InPid, InAwaited, Due
  <2> QED BY <1>5, <1>6, <1>13, <2>1, <2>2 DEF InCame, InAwaited, InGoing
<1> QED BY <1>4, <1>11, <1>13, <1>14 DEF OrderInv, CommandInv, DoneAs

\* An endpoint that reports was asked, and uses its own buffer.
LEMMA ReportDue ==
    ASSUME Orderly, SlotInv, OrderInv, NEW i \in 1..Slots, Reporting(i)
    PROVE  /\ device # Storage /\ BufOf(drv.pool[i]) = i /\ i \in {1, 2}
           /\ drv.pool[i].addr = Addr(i) /\ ReportAwaited(i)
<1> DEFINE ep == drv.pool[i]
<1>1. Types /\ DriverInv /\ Placed
  BY Places DEF SlotInv, OrderInv, Orderly
<1>3. ep.conf /\ ep.inum # NotInterrupt /\ drv.bufs[BufOf(ep)].avail /\ Awaited(ep.addr)
  BY DEF Reporting, Orderly
<1>4. device # Storage /\ BufOf(ep) = i
  BY <1>1, <1>3 DEF Placed
<1>5. i \in {1, 2}
  BY <1>1, <1>3, <1>4 DEF DriverInv
<1>6. ep.addr = Addr(i) /\ SlotsOf(drv, Addr(i)) # {} /\ SlotOf(drv, Addr(i)) = i
  BY <1>1, <1>3, <1>5 DEF Placed, Belongs, Addr
<1>7. /\ Addr(i) \in Addresses /\ Addr(i).in /\ Addr(i).num # 0 /\ Addr(i) # Ctl
      /\ Ctl \in Addresses
  BY <1>1, <1>4, <1>5, AddrFacts, Addressing DEF Ctl
<1>8. ReportAwaited(i)
  <2>1. Addr(i) \in drivers.want /\ Addr(i) \notin Answers /\ Addr(i) \notin Asked
    BY <1>1, <1>3, <1>6 DEF Awaited, Answers, From, Asked, Types
  <2>2. i \notin bits
    <3>1. i \in SlotsOf(drv, Addr(i))
      BY <1>3, <1>6, <1>7 DEF SlotsOf
    <3> QED BY <1>3, <1>6, <3>1 DEF Awaited
  <2>3. ReportPlaced(i)
    BY <1>4, <1>5 DEF OrderInv, ReportInv
  <2> QED BY <2>1, <2>2, <2>3 DEF ReportPlaced, ReportNone, ReportAsked, ReportCame, ReportPassed
<1> QED BY <1>4, <1>5, <1>6, <1>8

\* A report.
LEMMA DeviceReportKeeps ==
    ASSUME Orderly, SlotInv, OrderInv, NEW i \in 1..Slots, DeviceReport(i)
    PROVE  OrderInv'
<1> DEFINE ep == drv.pool[i]
<1>1. Types /\ DriverInv /\ Placed /\ ControlInv /\ InboxInv
  BY Places DEF SlotInv, OrderInv, Orderly
<1>2. PICK n \in {1, Min({ep.mps, device.ask})} :
          /\ n = ep.mps \/ device.ask <= ep.mps
          /\ Done(BufOf(ep), ep.addr, n)
  BY DEF DeviceReport, Orderly
<1>3. /\ ep.conf /\ ep.inum # NotInterrupt /\ drv.bufs[BufOf(ep)].avail
      /\ Awaited(ep.addr) /\ ~SetupWaits
      /\ dev' = [dev EXCEPT !.pid[ep.addr] = 1 - @]
  BY DEF DeviceReport, Reporting, Orderly
<1>4. device # Storage /\ BufOf(ep) = i /\ i \in {1, 2} /\ ep.addr = Addr(i) /\ ReportAwaited(i)
  BY ReportDue DEF DeviceReport
<1>7. /\ Addr(i) \in Addresses /\ Addr(i).in /\ Addr(i).num # 0 /\ Addr(i) # Ctl
      /\ Ctl \in Addresses
  BY <1>1, <1>4, AddrFacts, Addressing DEF Ctl
<1>9. /\ dev'.stage = dev.stage /\ dev'.busy = dev.busy /\ dev'.left = dev.left
      /\ dev'.pid[Addr(i)] = 1 - dev.pid[Addr(i)]
      /\ \A a \in Addresses : a # Addr(i) => dev'.pid[a] = dev.pid[a]
  <2>1. dev' = [dev EXCEPT !.pid[Addr(i)] = 1 - @]
    BY <1>3, <1>4
  <2>2. /\ dev'.stage = dev.stage /\ dev'.busy = dev.busy /\ dev'.left = dev.left
        /\ dev'.pid = [dev.pid EXCEPT ![Addr(i)] = 1 - @]
    BY <1>1, <2>1 DEF Types, DevSet
  <2> QED BY <1>1, <1>7, <2>2 DEF Types, DevSet
<1>10. DoneAs(i, Addr(i), n)
  <2>1. Done(i, Addr(i), n) /\ i \in 0..Slots
    BY <1>2, <1>4
  <2>2. drv.bufs[i].pid = dev.pid[Addr(i)]
    BY <1>4 DEF ReportAwaited
  <2> QED BY <1>1, <1>7, <2>1, <2>2, DoneWell
<1> HIDE DEF ep
<1>11. /\ drv'.pool = drv.pool /\ drv'.active = drv.active /\ drv'.level = drv.level
       /\ drv'.sie = drv.sie /\ drv'.reads = drv.reads /\ drv'.panic = drv.panic
       /\ drv'.trans = drv.trans
       /\ \A k \in 0..Slots : k # i => drv'.bufs[k] = drv.bufs[k]
       /\ ~drv'.bufs[i].avail /\ drv'.bufs[i].full /\ drv'.bufs[i].len = n
       /\ drv'.bufs[i].src = Addr(i)
       /\ bits' = bits \cup {i} /\ transDone' = (transDone \/ drv.bufs[i].last)
       /\ UNCHANGED <<device, inbox, outbox, drivers>>
  BY <1>7, <1>10 DEF DoneAs
<1>12. InboxInv' /\ Asked' = Asked
  <2>1. StillOpen
    BY <1>11 DEF StillOpen
  <2> QED BY <1>1, <1>11, <2>1, InboxStays
<1>13. Answers' = Answers /\ OutboxInv' /\ Ctl' = Ctl
  BY <1>11, OutboxStays DEF OrderInv
<1>14. DriverInv'
  <2>1. \A k \in 3..Slots : ~drv'.bufs[k].avail
    BY <1>1, <1>4, <1>11 DEF DriverInv
  <2>2. bits' \subseteq {0, 1, 2}
    BY <1>1, <1>4, <1>11 DEF DriverInv
  <2>3. dev'.pid[Ctl] = 1
    BY <1>1, <1>7, <1>9 DEF DriverInv
  <2> QED BY <1>1, <1>4, <1>9, <1>11, <1>13, <2>1, <2>2, <2>3 DEF DriverInv
<1>15. ControlInv'
  <2>1. EpxSame
    <3>1. 0 \in 0..Slots /\ i # 0
      OBVIOUS
    <3> QED BY <1>11, <3>1 DEF EpxSame, Engine
  <2>2. SetupDone => transDone'
    BY <1>11 DEF SetupDone
  <2> QED BY <1>1, <1>3, <1>9, <1>11, <1>13, <2>1, <2>2, ControlStays
<1>16. PICK k \in {1, 2} : k # i
  OBVIOUS
<1>17. ReportPlaced(k)'
  <2>1. Addr(k) # Addr(i) /\ Addr(k) \in Addresses
    BY <1>1, <1>4, <1>16, AddrFacts
  <2>2. k \in 0..Slots
    OBVIOUS
  <2>3. SamePlace(k)
    BY <1>9, <1>11, <1>12, <1>13, <1>16, <2>1, <2>2 DEF SamePlace
  <2>4. ReportPlaced(k)
    BY <1>4 DEF OrderInv, ReportInv
  <2> QED BY <1>11, <2>3, <2>4, ReportStays
<1>18. ReportCame(i)'
  <2>1. Addr(i)' = Addr(i)
    BY <1>11 DEF Addr
  <2>2. dev.pid[Addr(i)] \in Pid
    BY <1>1, <1>7 DEF Types, DevSet
  <2>3. 1 - dev'.pid[Addr(i)] = dev.pid[Addr(i)]
    BY <1>9, <2>2 DEF Pid
  <2>4. Started(drv', i, 1 - dev'.pid[Addr(i)])
    BY <1>4, <1>11, <2>3 DEF Started, ReportAwaited
  <2>5. device.ask > drv.pool[i].mps => n = drv.pool[i].mps
    <3>1. device.ask \in Nat
      BY <1>1, AddrFacts
    <3>2. drv.pool[i] \in EpSet
      BY <1>1 DEF Types, DrvSet
    <3>3. drv.pool[i].mps \in Nat
      BY <3>2 DEF EpSet
    <3> QED BY <1>2, <3>1, <3>3 DEF ep
  <2> QED BY <1>4, <1>11, <1>12, <1>13, <2>1, <2>4, <2>5 DEF ReportCame, ReportAwaited, Started
<1>19. ReportInv'
  <2>1. 0 \in bits' <=> 0 \in bits
    BY <1>4, <1>11
  <2>2. ReportPlaced(1)' /\ ReportPlaced(2)'
    BY <1>4, <1>16, <1>17, <1>18 DEF ReportPlaced
  <2> QED BY <1>4, <1>9, <1>11, <2>1, <2>2 DEF OrderInv, ReportInv
<1>20. ConfiguredInv'
  BY <1>11 DEF OrderInv, ConfiguredInv
<1> QED BY <1>4, <1>11, <1>12, <1>13, <1>14, <1>15, <1>19, <1>20 DEF OrderInv

-----------------------------------------------------------------------------
(* The poll.                                                               *)

\* Buffers that are done are EPX's and those of the first two slots.
Buffers == SlotBit(SlotBit(EpxBit(drv), 1), 2)

\* The walk over all slots comes to no other.
LEMMA BuffersHandled ==
    ASSUME bits \subseteq {0, 1, 2}, Slots > 2
    PROVE  BuffStatus(drv) = Buffers
<1> DEFINE h == Handled(drv)
           n == Slots - 2
           S == {j \in 0..n : h[j + 2] = h[2]}
<1>1. h[0] = EpxBit(drv) /\ h[1] = SlotBit(h[0], 1) /\ h[2] = SlotBit(h[1], 2)
  <2>1. 1 \in 1..Slots /\ 2 \in 1..Slots /\ 1 - 1 = 0 /\ 2 - 1 = 1
    OBVIOUS
  <2> QED BY <2>1, Handling
<1>2. ASSUME NEW j \in 0..(n-1), j \in S PROVE j + 1 \in S
  <2>1. j + 3 \in 1..Slots /\ (j + 3) - 1 = j + 2 /\ j + 3 \notin bits /\ (j + 1) + 2 = j + 3
        /\ j + 1 \in 0..n
    OBVIOUS
  <2>2. h[j + 3] = SlotBit(h[j + 2], j + 3)
    BY <2>1, Handling
  <2>3. SlotBit(h[j + 2], j + 3) = h[j + 2]
    BY <2>1 DEF SlotBit
  <2>4. h[j + 2] = h[2]
    BY <1>2
  <2>5. h[(j + 1) + 2] = h[2]
    BY <2>1, <2>2, <2>3, <2>4
  <2> HIDE DEF h, n
  <2> QED BY <2>1, <2>5
<1>3. n \in S
  <2>1. n \in Nat /\ 0 \in S
    OBVIOUS
  <2> HIDE DEF S, n
  <2>2. 0..n \subseteq S
    BY <1>2, <2>1, Climbing
  <2> QED BY <2>1, <2>2
<1>4. h[Slots] = h[2]
  <2>1. n + 2 = Slots
    OBVIOUS
  <2> HIDE DEF h, n
  <2> QED BY <1>3, <2>1
<1> QED BY <1>1, <1>4 DEF BuffStatus, Buffers

\* A poll ends with the driver e, but for its packets, which are in the outbox.
PolledAs(e) ==
    /\ drv'.pool = e.pool /\ drv'.active = e.active /\ drv'.level = e.level
    /\ drv'.reads = e.reads /\ drv'.sie = e.sie /\ drv'.trans = e.trans
    /\ drv'.bufs = e.bufs /\ drv'.panic = e.panic
    /\ outbox' = outbox \o e.out /\ bits' = {} /\ transDone' = FALSE
    /\ UNCHANGED <<device, inbox, dev, drivers>>

\* hcd_rp2040_irq_new.
LEMMA PollDoes ==
    ASSUME Poll
    PROVE  LET b == BuffStatus(drv)
               e == IF transDone THEN TransComplete(b) ELSE b
               f == [e EXCEPT !.out = <<>>]
           IN  /\ drv' = f /\ outbox' = outbox \o e.out
               /\ bits' = bits \ bits /\ transDone' = FALSE
               /\ UNCHANGED <<device, inbox, dev, drivers>>
  BY DEF Poll, PollClearing, Then

\* The buffers, then the end of a transaction.
LEMMA Polling ==
    ASSUME Types, bits \subseteq {0, 1, 2}, Slots > 2, Poll
    PROVE  PolledAs(IF transDone THEN TransComplete(Buffers) ELSE Buffers)
<1> DEFINE b == BuffStatus(drv)
           e == IF transDone THEN TransComplete(b) ELSE b
           f == [e EXCEPT !.out = <<>>]
<1>1. b = Buffers
  BY BuffersHandled
<1>2. Keeps(drv, b)
  BY Polls DEF Types
<1>3. e \in DrvSet
  <2> HIDE DEF b
  <2>1. transDone => Keeps(b, TransComplete(b))
    BY <1>2, Polls DEF Types, Keeps
  <2> QED BY <1>2, <2>1 DEF Keeps
<1>4. /\ drv' = f /\ outbox' = outbox \o e.out
      /\ bits' = bits \ bits /\ transDone' = FALSE
      /\ UNCHANGED <<device, inbox, dev, drivers>>
  BY PollDoes
<1> HIDE DEF e, b
<1>5. PolledAs(e)
  BY <1>3, <1>4 DEF PolledAs, DrvSet
<1> QED BY <1>1, <1>5 DEF e

\* A packet handed over is the last one of the outbox.
LEMMA LastOne ==
    ASSUME NEW s \in Seq(PacketSet), NEW t \in Seq(PacketSet), NEW x \in PacketSet
    PROVE  s \o Append(t, x) = Append(s \o t, x) /\ s \o t \in Seq(PacketSet)
<1>1. s \o t \in Seq(PacketSet) /\ Append(t, x) \in Seq(PacketSet)
  OBVIOUS
<1> DEFINE l == s \o Append(t, x)
           r == Append(s \o t, x)
           n == Len(s) + Len(t) + 1
<1>2. l \in Seq(PacketSet) /\ r \in Seq(PacketSet) /\ Len(l) = n /\ Len(r) = n
  BY <1>1
<1>3. \A k \in 1..n : l[k] = r[k]
  OBVIOUS
<1>4. l = r
  <2> HIDE DEF l, r, n
  <2> QED BY <1>2, <1>3, SeqEqual
<1> QED BY <1>1, <1>4

\* Slot k has been polled.
SlotPolledAs(d, e, k) ==
    /\ e \in DrvSet /\ Aside(d, e, k, k) /\ Engine(d, e) /\ Likewise(d.pool[k], e.pool[k])
    /\ Proper(outbox \o e.out)
    /\ IF k \in bits THEN /\ e.pool[k].pid = dev.pid[Addr(k)]
                          /\ From(outbox \o e.out) = From(outbox \o d.out) \cup {Addr(k)}
       ELSE e = d

\* Its report is passed on, and its PID is that of the device.
LEMMA SlotPolled ==
    ASSUME Types, Placed, device # Storage, NEW k \in {1, 2}, ReportPlaced(k), NEW d \in DrvSet,
           d.pool[k] = drv.pool[k], d.bufs[k] = drv.bufs[k], Proper(outbox \o d.out),
           k \in bits => Addr(k) \notin From(outbox \o d.out)
    PROVE  SlotPolledAs(d, SlotBit(d, k), k)
<1>1. CASE k \notin bits
  <2>1. SlotBit(d, k) = d
    BY <1>1 DEF SlotBit
  <2> QED BY <1>1, <2>1 DEF SlotPolledAs, Aside, Engine, Likewise
<1>2. CASE k \in bits
  <2> DEFINE ep == d.pool[k]
             p == dev.pid[Addr(k)]
             ask == device.ask
             s == outbox \o d.out
             e == SlotBit(d, k)
  <2>1. ReportCame(k)
    BY <1>2 DEF ReportPlaced, ReportNone, ReportAsked, ReportAwaited, ReportPassed
  <2>2. /\ ep.conf /\ ep.user /\ ep.rem = Rest(ask, ep.mps)
        /\ ep.pid = Turned(1 - p, Flips(ask, ep.mps))
        /\ d.bufs[k].full /\ d.bufs[k].src = Addr(k)
        /\ ask > ep.mps => d.bufs[k].len = ep.mps
    BY <2>1 DEF ReportCame, Started
  <2>3. /\ Addr(k) \in Addresses /\ Addr(k).in /\ Addr(k).num # 0 /\ ask \in Nat /\ ask > 0
    BY AddrFacts
  <2>4. /\ ep.addr = Addr(k) /\ k = BufOf(ep) /\ ep.mps \in Nat /\ ep.mps > 0
    <3>1. ep.addr = Addr(k) /\ k = BufOf(ep) /\ ep.mps = device.config[k].mps
      BY <2>2 DEF Placed, Belongs, Addr
    <3> QED BY <3>1, AddrFacts
  <2>5. p \in Pid
    BY <2>3 DEF Types, DevSet
  <2>6. e = BuffStatusBit(d, k) /\ k \in 0..Slots /\ device \in Devices
    BY <1>2 DEF SlotBit, Types
  <2>7. d.bufs[k].full = ep.addr.in
    <3>1. d.bufs[k] \in BufSet /\ ep.addr.in \in BOOLEAN
      BY <2>3, <2>4, <2>6, Addressing DEF DrvSet
    <3>2. d.bufs[k].full \in BOOLEAN
      BY <3>1 DEF BufSet
    <3> QED BY <2>2, <2>3, <2>4, <3>1, <3>2
  <2> HIDE DEF p, ask, e
  <2>8. Passing(d, e, k, k) /\ e.pool[k].pid = p
    <3>1. CASE ask <= ep.mps
      <4>1. ep.rem = 0
        BY <2>2, <3>1 DEF Rest
      <4>2. Passing(d, e, k, k) /\ e.pool[k].pid = ep.pid
        BY <2>3, <2>4, <2>6, <2>7, <4>1, PacketDone
      <4>3. Flips(ask, ep.mps)
        BY <2>3, <2>4, <3>1, Parity
      <4>4. ep.pid = p
        BY <2>2, <2>5, <4>3 DEF Turned, Pid
      <4> QED BY <4>2, <4>4
    <3>2. CASE ask > ep.mps
      <4>1. ep.rem = ask - ep.mps /\ ep.rem > 0 /\ ~Short(ep, d.bufs[k].len)
        BY <2>2, <2>3, <2>4, <3>2 DEF Rest, Short
      <4>2. Passing(d, e, k, k) /\ e.pool[k].pid = Turned(ep.pid, Flips(ep.rem, ep.mps))
        <5> HIDE DEF ep
        <5>1. d.pool[k].mps > 0 /\ d.pool[k].rem > 0 /\ ~Short(d.pool[k], d.bufs[k].len)
              /\ d.bufs[k].full = d.pool[k].addr.in /\ d.pool[k].addr.num # 0
              /\ k = BufOf(d.pool[k])
          BY <2>3, <2>4, <2>7, <4>1 DEF ep
        <5>2. Passing(d, e, k, k)
              /\ e.pool[k].pid = Turned(d.pool[k].pid, Flips(d.pool[k].rem, d.pool[k].mps))
          BY <2>6, <5>1, PacketMore
        <5> QED BY <5>2 DEF ep
      <4>3. Flips(ask, ep.mps) <=> ~Flips(ep.rem, ep.mps)
        BY <2>3, <2>4, <3>2, <4>1, Parity
      <4>4. Turned(ep.pid, Flips(ep.rem, ep.mps)) = p
        BY <2>2, <2>5, <4>3 DEF Turned, Pid
      <4> QED BY <4>2, <4>4
    <3> QED BY <2>3, <2>4, <3>1, <3>2
  <2>9. /\ e \in DrvSet /\ Aside(d, e, k, k) /\ Engine(d, e) /\ Likewise(ep, e.pool[k])
        /\ \E x \in PacketSet :
              /\ e.out = Append(d.out, x) /\ x.addr = ep.addr
              /\ x.addr.in /\ ep.user => x.src = d.bufs[k].src
    BY <2>8 DEF Passing
  <2>10. PICK x \in PacketSet :
            /\ e.out = Append(d.out, x) /\ x.addr = Addr(k) /\ x.src = Addr(k)
    BY <2>2, <2>3, <2>4, <2>9
  <2>11. outbox \in Seq(PacketSet) /\ d.out \in Seq(PacketSet)
    BY DEF Types, DrvSet
  <2>12. outbox \o e.out = Append(s, x) /\ s \in Seq(PacketSet)
    BY <2>10, <2>11, LastOne
  <2>13. x.addr \in {Ctl, Addr(1), Addr(2)} /\ x.addr \notin From(s)
    BY <1>2, <2>10
  <2>14. Proper(s)
    OBVIOUS
  <2> HIDE DEF s
  <2>15. Proper(outbox \o e.out) /\ From(outbox \o e.out) = From(s) \cup {Addr(k)}
    BY <2>10, <2>12, <2>13, <2>14, Adds
  <2> QED BY <1>2, <2>8, <2>9, <2>15 DEF SlotPolledAs, s, p, e
<1> QED BY <1>1, <1>2

\* EPX's buffer has been looked at.
EpxPolled(d) ==
    /\ d \in DrvSet /\ d.panic = drv.panic /\ d.reads = drv.reads
    /\ Epx(d) /\ d.active \in {0, 1, 2}
    /\ \A k \in {1, 2} : d.pool[k].conf = drv.pool[k].conf /\ d.pool[k].pid = drv.pool[k].pid
    /\ \A k \in 1..Slots : d.bufs[k] = drv.bufs[k]
    /\ Proper(outbox \o d.out)
    /\ device # Storage => /\ \A k \in {1, 2} : d.pool[k] = drv.pool[k]
                           /\ From(outbox \o d.out) \cup {Ctl} = Answers \cup {Ctl}

\* So have the buffers of the slots: EPX is as it was.
SlotsPolledAs(d, e) ==
    /\ e \in DrvSet /\ Engine(d, e) /\ e.pool[0] = d.pool[0] /\ e.bufs[0] = d.bufs[0]
    /\ e.reads = d.reads /\ e.panic = d.panic
    /\ \A k \in {1, 2} :
          /\ e.pool[k].conf = d.pool[k].conf
          /\ IF k \in bits THEN e.pool[k].pid = dev.pid[Addr(k)]
             ELSE e.pool[k] = d.pool[k] /\ e.bufs[k] = d.bufs[k]
    /\ \A k \in 3..Slots : e.bufs[k] = d.bufs[k]
    /\ Proper(outbox \o e.out)
    /\ From(outbox \o e.out) = From(outbox \o d.out) \cup {Addr(k) : k \in bits \ {0}}

\* The reports of both slots are passed on.
LEMMA SlotsPolled ==
    ASSUME Orderly, SlotInv, OrderInv, NEW d, EpxPolled(d)
    PROVE  SlotsPolledAs(d, SlotBit(SlotBit(d, 1), 2))
<1>1. Types /\ Placed /\ DriverInv /\ bits \subseteq {0, 1, 2}
  BY Places DEF SlotInv, OrderInv, Orderly, DriverInv
<1>2. CASE device = Storage
  <2>1. 1 \notin bits /\ 2 \notin bits /\ bits \ {0} = {}
    BY <1>1, <1>2 DEF DriverInv
  <2>2. SlotBit(SlotBit(d, 1), 2) = d
    BY <2>1 DEF SlotBit
  <2> QED BY <2>1, <2>2 DEF SlotsPolledAs, EpxPolled, Engine
<1>3. CASE device # Storage
  <2> DEFINE f == SlotBit(d, 1)
             e == SlotBit(f, 2)
             s == From(outbox \o d.out)
  <2>1. ReportPlaced(1) /\ ReportPlaced(2)
    BY <1>3 DEF OrderInv, ReportInv
  <2>2. /\ Addr(1) # Addr(2) /\ Addr(1) # Ctl /\ Addr(2) # Ctl
    BY <1>1, AddrFacts
  <2>3. \A k \in {1, 2} : k \in bits => Addr(k) \notin Answers
    BY <2>1 DEF ReportPlaced, ReportNone, ReportAsked, ReportAwaited, ReportCame, ReportPassed
  <2>4. \A k \in {1, 2} : k \in bits => Addr(k) \notin s
    BY <1>3, <2>2, <2>3 DEF EpxPolled
  <2>5. /\ d \in DrvSet /\ Proper(outbox \o d.out)
        /\ \A k \in {1, 2} : d.pool[k] = drv.pool[k] /\ d.bufs[k] = drv.bufs[k]
    BY <1>3 DEF EpxPolled
  <2>6. SlotPolledAs(d, f, 1)
    BY <1>1, <1>3, <2>1, <2>4, <2>5, SlotPolled
  <2> HIDE DEF f
  <2>7. /\ f \in DrvSet /\ Aside(d, f, 1, 1) /\ Engine(d, f) /\ Likewise(d.pool[1], f.pool[1])
        /\ Proper(outbox \o f.out)
        /\ IF 1 \in bits THEN /\ f.pool[1].pid = dev.pid[Addr(1)]
                              /\ From(outbox \o f.out) = s \cup {Addr(1)}
           ELSE f = d
    BY <2>6 DEF SlotPolledAs
  <2>8. f.pool[2] = drv.pool[2] /\ f.bufs[2] = drv.bufs[2]
    <3>1. 2 \in 0..Slots
      OBVIOUS
    <3> QED BY <2>5, <2>7, <3>1 DEF Aside
  <2>9. 2 \in bits => Addr(2) \notin From(outbox \o f.out)
    BY <2>2, <2>4, <2>7
  <2>10. SlotPolledAs(f, e, 2)
    BY <1>1, <1>3, <2>1, <2>7, <2>8, <2>9, SlotPolled
  <2> HIDE DEF e
  <2>11. /\ e \in DrvSet /\ Aside(f, e, 2, 2) /\ Engine(f, e) /\ Likewise(f.pool[2], e.pool[2])
         /\ Proper(outbox \o e.out)
         /\ IF 2 \in bits THEN /\ e.pool[2].pid = dev.pid[Addr(2)]
                               /\ From(outbox \o e.out) = From(outbox \o f.out) \cup {Addr(2)}
            ELSE e = f
    BY <2>10 DEF SlotPolledAs
  <2>12. Engine(d, e)
    BY <2>7, <2>11 DEF Engine
  <2>13. 0 \in 0..Slots /\ 1 \in 0..Slots /\ \A k \in 3..Slots : k \in 0..Slots /\ k # 1 /\ k # 2
    OBVIOUS
  <2>14. /\ e.pool[0] = d.pool[0] /\ e.bufs[0] = d.bufs[0]
         /\ e.reads = d.reads /\ e.panic = d.panic
         /\ \A k \in 3..Slots : e.bufs[k] = d.bufs[k]
         /\ e.pool[1] = f.pool[1] /\ e.bufs[1] = f.bufs[1]
    BY <2>7, <2>11, <2>13 DEF Aside
  <2>15. /\ e.pool[1].conf = d.pool[1].conf
         /\ IF 1 \in bits THEN e.pool[1].pid = dev.pid[Addr(1)]
            ELSE e.pool[1] = d.pool[1] /\ e.bufs[1] = d.bufs[1]
    BY <2>7, <2>14 DEF Likewise
  <2>16. /\ e.pool[2].conf = d.pool[2].conf
         /\ IF 2 \in bits THEN e.pool[2].pid = dev.pid[Addr(2)]
            ELSE e.pool[2] = d.pool[2] /\ e.bufs[2] = d.bufs[2]
    BY <2>5, <2>8, <2>11 DEF Likewise
  <2>17. From(outbox \o e.out) = s \cup {Addr(k) : k \in bits \ {0}}
    <3>1. From(outbox \o e.out) = s \cup (IF 1 \in bits THEN {Addr(1)} ELSE {})
                                    \cup (IF 2 \in bits THEN {Addr(2)} ELSE {})
      BY <2>7, <2>11
    <3> HIDE DEF s
    <3> QED BY <1>1, <3>1
  <2> QED BY <2>11, <2>12, <2>14, <2>15, <2>16, <2>17 DEF SlotsPolledAs, e, f
<1> QED BY <1>2, <1>3

\* A poll that has looked at EPX leaves what is not EPX's in order.
SettledAs(d, f) ==
    /\ InboxInv' /\ OutboxInv' /\ DriverInv' /\ ConfiguredInv'
    /\ Asked' = Asked /\ Ctl' = Ctl
    /\ Answers' = From(outbox \o d.out) \cup {Addr(k) : k \in bits \ {0}}
    /\ device # Storage /\ (f.trans.kind = "out" => f.trans.num = 0) => ReportInv'

\* It does.
LEMMA Settles ==
    ASSUME Orderly, SlotInv, OrderInv, NEW d, EpxPolled(d), NEW e, SlotsPolledAs(d, e),
           NEW f \in DrvSet, Aside(e, f, 0, 0), Epx(f), f.active \in {0, 1, 2}, f.out = e.out,
           PolledAs(f)
    PROVE  SettledAs(d, f)
<1>1. Types /\ InboxInv /\ DriverInv /\ bits \subseteq {0, 1, 2}
  BY DEF SlotInv, OrderInv, DriverInv
<1>2. /\ drv'.pool = f.pool /\ drv'.active = f.active /\ drv'.trans = f.trans
      /\ drv'.bufs = f.bufs /\ drv'.panic = f.panic
      /\ outbox' = outbox \o e.out /\ bits' = {}
      /\ UNCHANGED <<device, inbox, dev, drivers>>
  BY DEF PolledAs
<1>3. /\ 1 \in 0..Slots /\ 2 \in 0..Slots
      /\ \A k \in 3..Slots : k \in 0..Slots /\ k # 0 /\ k \in 1..Slots
  OBVIOUS
<1>4. /\ \A k \in {1, 2} : drv'.pool[k] = e.pool[k] /\ drv'.bufs[k] = e.bufs[k]
      /\ \A k \in 3..Slots : drv'.bufs[k] = e.bufs[k]
      /\ drv'.panic = e.panic
  BY <1>2, <1>3 DEF Aside
<1>5. /\ \A k \in {1, 2} : drv'.pool[k].conf = drv.pool[k].conf
      /\ \A k \in 3..Slots : drv'.bufs[k] = drv.bufs[k]
      /\ drv'.panic = drv.panic
  BY <1>3, <1>4 DEF SlotsPolledAs, EpxPolled
<1>6. \A k \in {1, 2} : k \notin bits => drv'.pool[k].pid = drv.pool[k].pid
  BY <1>4 DEF SlotsPolledAs, EpxPolled
<1>7. InboxInv' /\ Asked' = Asked
  <2>1. StillOpen
    BY <1>5 DEF StillOpen
  <2> QED BY <1>1, <1>2, <2>1, InboxStays
<1>8. Ctl' = Ctl /\ Addr(1)' = Addr(1) /\ Addr(2)' = Addr(2)
  BY <1>2 DEF Ctl, Addr
<1>9. OutboxInv'
  <2>1. Proper(outbox')
    BY <1>2 DEF SlotsPolledAs
  <2> QED BY <1>8, <2>1 DEF OutboxInv, Proper
<1>10. Answers' = From(outbox \o d.out) \cup {Addr(k) : k \in bits \ {0}}
  <2>1. Answers' = From(outbox')
    BY DEF Answers, From
  <2> QED BY <1>2, <2>1 DEF SlotsPolledAs
<1>11. ASSUME NEW k \in {1, 2}, k \in bits PROVE device # Storage /\ ReportCame(k)
  <2>1. device # Storage
    BY <1>1, <1>11 DEF DriverInv
  <2>2. ReportPlaced(k)
    BY <2>1 DEF OrderInv, ReportInv
  <2> QED BY <1>11, <2>1, <2>2
          DEF ReportPlaced, ReportNone, ReportAsked, ReportAwaited, ReportPassed
<1>12. DriverInv'
  <2>1. \A k \in {1, 2} : ~drv'.pool[k].conf => drv'.pool[k].pid = 0
    <3> SUFFICES ASSUME NEW k \in {1, 2}, ~drv'.pool[k].conf PROVE drv'.pool[k].pid = 0
      OBVIOUS
    <3>1. ~drv.pool[k].conf
      BY <1>5
    <3>2. k \notin bits
      BY <1>11, <3>1 DEF ReportCame, Started
    <3> QED BY <1>1, <1>6, <3>1, <3>2 DEF DriverInv
  <2>2. drv'.pool[0].mps = device.ask /\ drv'.pool[0].inum = NotInterrupt
    BY <1>2 DEF Epx
  <2> QED BY <1>1, <1>2, <1>5, <1>8, <2>1, <2>2 DEF DriverInv
<1>13. ConfiguredInv'
  BY <1>2 DEF OrderInv, ConfiguredInv
<1>14. ASSUME device # Storage, f.trans.kind = "out" => f.trans.num = 0
       PROVE  ReportInv'
  <2>1. ReportInv
    BY <1>14 DEF OrderInv
  <2>2. ASSUME NEW k \in {1, 2} PROVE ReportPlaced(k)'
    <3>1. ReportPlaced(k) /\ Addr(k)' = Addr(k)
      BY <1>2, <2>1 DEF ReportInv, Addr
    <3>2. CASE k \in bits
      <4>1. ReportCame(k)
        BY <1>11, <3>2
      <4>2. Addr(k) \in Answers'
        BY <1>10, <3>2
      <4>3. drv'.pool[k].pid = dev.pid[Addr(k)]
        BY <1>4, <3>2 DEF SlotsPolledAs
      <4>4. ReportPassed(k)'
        BY <1>2, <1>7, <3>1, <4>1, <4>2, <4>3 DEF ReportCame, ReportPassed
      <4> QED BY <4>4 DEF ReportPlaced
    <3>3. CASE k \notin bits
      <4>1. drv'.pool[k] = drv.pool[k] /\ drv'.bufs[k] = drv.bufs[k]
        BY <1>3, <1>4, <1>14, <3>3 DEF SlotsPolledAs, EpxPolled
      <4>2. Addr(k) \in Answers' <=> Addr(k) \in Answers
        <5>1. Addr(k) # Ctl /\ Addr(1) # Addr(2)
          BY <1>1, AddrFacts
        <5>2. Addr(k) \in From(outbox \o d.out) <=> Addr(k) \in Answers
          BY <1>14, <5>1 DEF EpxPolled
        <5>3. \A j \in bits \ {0} : Addr(j) # Addr(k)
          BY <1>1, <3>3, <5>1
        <5> QED BY <1>10, <5>2, <5>3
      <4>3. SamePlace(k)
        BY <1>2, <1>7, <3>3, <4>1, <4>2 DEF SamePlace
      <4> QED BY <1>2, <3>1, <4>3, ReportStays
    <3> QED BY <3>2, <3>3
  <2>3. ReportPlaced(1)' /\ ReportPlaced(2)'
    BY <2>2
  <2> QED BY <1>2, <1>14, <2>1, <2>3 DEF ReportInv
<1> QED BY <1>7, <1>8, <1>9, <1>10, <1>12, <1>13, <1>14 DEF SettledAs

\* EPX's buffer is not done.
LEMMA EpxUntouched ==
    ASSUME OrderInv, Types, 0 \notin bits
    PROVE  /\ EpxPolled(drv) /\ EpxBit(drv) = drv /\ outbox \o drv.out = outbox
           /\ Answers = From(outbox \o drv.out)
<1>1. EpxBit(drv) = drv
  BY DEF EpxBit
<1>2. outbox \o drv.out = outbox
  BY DEF Types
<1>3. DriverInv /\ OutboxInv
  BY DEF OrderInv
<1>4. Epx(drv) /\ drv \in DrvSet
  BY <1>3 DEF Epx, DriverInv, Types
<1>5. EpxPolled(drv)
  BY <1>2, <1>3, <1>4 DEF EpxPolled, DriverInv, OutboxInv, Answers
<1> QED BY <1>1, <1>2, <1>5 DEF Answers

\* A packet of EPX's buffer is added to the outbox.
LEMMA EpxPasses ==
    ASSUME OrderInv, Types, NEW d, d \in DrvSet, NEW x \in PacketSet, d.out = Append(drv.out, x),
           x.addr \in {Ctl, Addr(1), Addr(2)}, x.addr \notin Answers, x.addr.in => x.src = x.addr
    PROVE  Proper(outbox \o d.out) /\ From(outbox \o d.out) = Answers \cup {x.addr}
<1>1. outbox \o d.out = Append(outbox, x) /\ outbox \in Seq(PacketSet)
  BY DEF Types
<1>2. Proper(outbox) /\ x.addr \notin From(outbox)
  BY DEF OrderInv, OutboxInv, Answers
<1> QED BY <1>1, <1>2, Adds DEF Answers

\* TRANS_COMPLETE of a setup packet: the answer is asked for.
LEMMA PollSetupKeeps ==
    ASSUME Orderly, SlotInv, OrderInv, Poll, transDone, drv.sie = "setup"
    PROVE  OrderInv'
<1> DEFINE e == Buffers
           f == TransComplete(e)
<1>1. /\ Types /\ ControlInv /\ DriverInv /\ bits \subseteq {0, 1, 2} /\ Slots > 2
      /\ device \in Devices
  BY DEF SlotInv, OrderInv, DriverInv, Orderly, Types
<1>2. SetupDone
  BY DEF OrderInv, ControlInv, Idle, Requested, EpxIdle, SetupSent, AnswerAwaited, AnswerDue,
         AnswerCame, Reading, AckAwaited, AckDue, Acked, Acking
<1>3. EpxPolled(drv) /\ EpxBit(drv) = drv /\ Answers = From(outbox \o drv.out)
  BY <1>1, <1>2, EpxUntouched DEF SetupDone
<1>4. SlotsPolledAs(drv, e)
  BY <1>3, SlotsPolled DEF Buffers
<1>5. PolledAs(f)
  BY <1>1, Polling
<1> HIDE DEF e
<1>6. e \in DrvSet /\ Epx(e) /\ SettingUp(e) /\ e.reads = drv.reads
  BY <1>2, <1>3, <1>4 DEF SlotsPolledAs, EpxPolled, Epx, SetupDone, SettingUp, Engine
<1>7. SetupHandledAs(e, f)
  BY <1>1, <1>6, SetupHandled
<1> HIDE DEF f
<1>8. /\ f \in DrvSet /\ Aside(e, f, 0, 0) /\ Epx(f) /\ f.active = 0 /\ f.out = e.out
      /\ AnswerDue(f)
  BY <1>7 DEF SetupHandledAs, Handled0
<1>9. f.trans = [kind |-> "in", num |-> 0]
  BY <1>8 DEF AnswerDue
<1>10. SettledAs(drv, f)
  BY <1>3, <1>4, <1>5, <1>8, Settles
<1>11. /\ drv'.pool = f.pool /\ drv'.active = f.active /\ drv'.level = f.level
       /\ drv'.reads = f.reads /\ drv'.sie = f.sie /\ drv'.trans = f.trans
       /\ drv'.bufs = f.bufs /\ bits' = {}
       /\ UNCHANGED <<device, inbox, dev, drivers>>
  BY <1>5 DEF PolledAs
<1>12. /\ Asked' = Asked /\ Ctl' = Ctl
       /\ Answers' = Answers \cup {Addr(k) : k \in bits \ {0}}
  BY <1>3, <1>10 DEF SettledAs
<1>13. Ctl \notin Answers'
  <2>1. \A k \in bits \ {0} : Addr(k) # Ctl
    BY <1>1, AddrFacts
  <2> QED BY <1>2, <1>12, <2>1 DEF SetupDone, InProgress
<1>14. AnswerAwaited'
  <2>1. AnswerDue(drv')
    BY <1>8, <1>11 DEF AnswerDue, Reading
  <2>2. Asking' = Asking
    BY <1>6, <1>8, <1>11 DEF Asking, Aside
  <2> QED BY <1>2, <1>11, <1>12, <1>13, <2>1, <2>2 DEF AnswerAwaited, SetupDone, InProgress
<1>15. device = Storage => CommandInv'
  <2> SUFFICES ASSUME device = Storage PROVE CommandInv'
    OBVIOUS
  <2>1. NoCommand /\ drivers.phase = "idle"
    BY <1>2, CommandIdle DEF OrderInv, SetupDone, InProgress
  <2>2. bits = {}
    BY <1>1, <1>2 DEF DriverInv, SetupDone
  <2>3. Answers' = Answers
    BY <1>12, <2>2
  <2>4. drv'.pool[1].pid = drv.pool[1].pid /\ drv'.pool[2].pid = drv.pool[2].pid
    <3>1. 1 \in 0..Slots /\ 2 \in 0..Slots
      BY <1>1
    <3> QED BY <1>4, <1>8, <1>11, <2>2, <3>1 DEF SlotsPolledAs, Aside
  <2>5. NoBulk'
    BY <1>9, <1>11 DEF NoBulk
  <2>6. Asked' = {} /\ Answers' \subseteq {Ctl}
    BY <1>12, <2>1, <2>3 DEF NoCommand
  <2> QED BY <1>11, <2>1, <2>4, <2>5, <2>6, NoCommandStays
<1>16. device # Storage => ReportInv'
  BY <1>9, <1>10 DEF SettledAs
<1> QED BY <1>10, <1>11, <1>14, <1>15, <1>16 DEF OrderInv, ControlInv, SettledAs

\* A poll that finds EPX's buffer done for endpoint 0.
Epx0PolledAs(d) ==
    /\ EpxPolled(d) /\ Aside(drv, d, 0, 0) /\ d.active = 0
    /\ d.sie # "setup" /\ d.trans.num = 0
    /\ From(outbox \o d.out) \subseteq Answers \cup {Ctl}
    /\ drivers.phase = "idle"

\* The rest of it.
LEMMA Epx0PollKeeps ==
    ASSUME Orderly, SlotInv, OrderInv, Poll, NEW d, d = EpxBit(drv), Epx0PolledAs(d),
           (/\ drv'.pool[0] = d.pool[0] /\ drv'.bufs[0] = d.bufs[0] /\ drv'.reads = d.reads
            /\ drv'.active = d.active /\ drv'.level = d.level /\ drv'.sie = d.sie
            /\ drv'.trans = d.trans
            /\ bits' = {} /\ UNCHANGED <<device, inbox, dev, drivers>>
            /\ Asked' = Asked /\ Ctl' = Ctl
            /\ Ctl \in Answers' <=> Ctl \in From(outbox \o d.out)) => ControlInv'
    PROVE  OrderInv'
<1> DEFINE e == Buffers
<1>1. Types /\ DriverInv /\ bits \subseteq {0, 1, 2} /\ Slots > 2 /\ device \in Devices
  BY DEF SlotInv, OrderInv, DriverInv, Orderly, Types
<1>2. EpxPolled(d) /\ Aside(drv, d, 0, 0) /\ d.active = 0 /\ d.sie # "setup" /\ d.trans.num = 0
      /\ From(outbox \o d.out) \subseteq Answers \cup {Ctl} /\ drivers.phase = "idle"
  BY DEF Epx0PolledAs
<1>3. SlotsPolledAs(d, e)
  BY <1>2, SlotsPolled DEF Buffers
<1>4. PolledAs(IF transDone THEN TransComplete(e) ELSE e)
  BY <1>1, Polling
<1> HIDE DEF e
<1>5. /\ e \in DrvSet /\ Engine(d, e) /\ e.pool[0] = d.pool[0] /\ e.bufs[0] = d.bufs[0]
      /\ e.reads = d.reads
  BY <1>3 DEF SlotsPolledAs
<1>6. PolledAs(e)
  <2>1. TransComplete(e) = e
    BY <1>2, <1>5 DEF TransComplete, Engine
  <2> QED BY <1>4, <2>1
<1>7. Aside(e, e, 0, 0) /\ Epx(e) /\ e.active \in {0, 1, 2}
  BY <1>2, <1>5 DEF Aside, Epx, EpxPolled, Engine
<1>8. SettledAs(d, e)
  BY <1>2, <1>3, <1>5, <1>6, <1>7, Settles
<1>9. /\ drv'.pool = e.pool /\ drv'.bufs = e.bufs /\ drv'.reads = d.reads
      /\ drv'.active = d.active /\ drv'.level = d.level /\ drv'.sie = d.sie
      /\ drv'.trans = d.trans /\ bits' = {}
      /\ UNCHANGED <<device, inbox, dev, drivers>>
  BY <1>5, <1>6 DEF PolledAs, Engine
<1>10. /\ Asked' = Asked /\ Ctl' = Ctl
       /\ Answers' = From(outbox \o d.out) \cup {Addr(k) : k \in bits \ {0}}
  BY <1>8 DEF SettledAs
<1>11. Ctl \in Answers' <=> Ctl \in From(outbox \o d.out)
  <2>1. \A k \in bits \ {0} : Addr(k) # Ctl
    BY <1>1, AddrFacts
  <2> QED BY <1>10, <2>1
<1>12. ControlInv'
  BY <1>5, <1>9, <1>10, <1>11
<1>13. device = Storage => CommandInv'
  <2> SUFFICES ASSUME device = Storage PROVE CommandInv'
    OBVIOUS
  <2>1. NoCommand
    BY <1>2, CommandIdle DEF OrderInv
  <2>2. bits \ {0} = {} /\ 1 \notin bits /\ 2 \notin bits
    BY <1>1 DEF DriverInv
  <2>3. drv'.pool[1].pid = drv.pool[1].pid /\ drv'.pool[2].pid = drv.pool[2].pid
    BY <1>2, <1>3, <1>9, <2>2 DEF SlotsPolledAs, EpxPolled
  <2>4. NoBulk'
    BY <1>2, <1>9 DEF NoBulk
  <2>5. Asked' = {} /\ Answers' \subseteq {Ctl}
    BY <1>2, <1>10, <2>1, <2>2 DEF NoCommand
  <2> QED BY <1>2, <1>9, <2>1, <2>3, <2>4, <2>5, NoCommandStays
<1>14. device # Storage => ReportInv'
  BY <1>2, <1>5, <1>8 DEF SettledAs, Engine
<1> QED BY <1>8, <1>9, <1>12, <1>13, <1>14 DEF OrderInv, SettledAs

\* The answer of a control request.
LEMMA PollAnswerKeeps ==
    ASSUME Orderly, SlotInv, OrderInv, Poll, AnswerCame
    PROVE  OrderInv'
<1> DEFINE d == EpxBit(drv)
<1>1. Types /\ DriverInv /\ device \in Devices /\ drv \in DrvSet /\ drv.out = <<>>
  BY DEF SlotInv, OrderInv, Types
<1>2. d = BuffStatusBit(drv, 0)
  BY DEF AnswerCame, Reading, EpxBit
<1>3. AnswerHandledAs(drv, d)
  <2>1. Epx(drv)
    BY <1>1 DEF DriverInv, Epx
  <2> QED BY <1>1, <1>2, <2>1, AnswerHandled DEF AnswerCame
<1> HIDE DEF d
<1>4. /\ d \in DrvSet /\ Aside(drv, d, 0, 0) /\ Epx(d) /\ d.active = 0
      /\ IF drv.reads THEN AckDue(d) ELSE EpxIdle(d) /\ d.trans = NoTrans
  BY <1>3 DEF AnswerHandledAs, Handled0
<1>5. PICK x \in PacketSet : d.out = Append(drv.out, x) /\ x.addr = Ctl /\ x.src = Ctl
  BY <1>3 DEF AnswerHandledAs
<1>6. Proper(outbox \o d.out) /\ From(outbox \o d.out) = Answers \cup {Ctl}
  <2>1. Ctl \notin Answers
    BY DEF AnswerCame, InProgress
  <2> QED BY <1>1, <1>4, <1>5, <2>1, EpxPasses
<1>7. /\ \A k \in {1, 2} : d.pool[k] = drv.pool[k]
      /\ \A k \in 1..Slots : d.bufs[k] = drv.bufs[k]
  <2>1. 1 \in 0..Slots /\ 2 \in 0..Slots /\ \A k \in 1..Slots : k \in 0..Slots /\ k # 0
    OBVIOUS
  <2> QED BY <1>4, <2>1 DEF Aside
<1>8. EpxPolled(d)
  BY <1>4, <1>6, <1>7 DEF EpxPolled, Aside
<1>9. d.sie # "setup" /\ d.trans.num = 0
  <2>1. CASE drv.reads
    <3>1. d.sie = "out" /\ d.trans = [kind |-> "out", num |-> 0]
      BY <1>4, <2>1 DEF AckDue, Acking
    <3> QED BY <3>1
  <2>2. CASE ~drv.reads
    <3>1. d.sie # "setup" /\ d.trans = NoTrans
      BY <1>4, <2>2 DEF EpxIdle
    <3> QED BY <3>1 DEF NoTrans
  <2> QED BY <2>1, <2>2
<1>10. Epx0PolledAs(d)
  BY <1>4, <1>6, <1>8, <1>9 DEF Epx0PolledAs, AnswerCame, InProgress
<1>11. ASSUME /\ drv'.pool[0] = d.pool[0] /\ drv'.bufs[0] = d.bufs[0] /\ drv'.reads = d.reads
              /\ drv'.active = d.active /\ drv'.level = d.level /\ drv'.sie = d.sie
              /\ drv'.trans = d.trans
              /\ bits' = {} /\ UNCHANGED <<device, inbox, dev, drivers>>
              /\ Asked' = Asked /\ Ctl' = Ctl
              /\ Ctl \in Answers' <=> Ctl \in From(outbox \o d.out)
       PROVE  ControlInv'
  <2>1. Ctl \in Answers'
    BY <1>6, <1>11
  <2>2. drivers.control /\ inbox = <<>> /\ drivers.phase = "idle" /\ Asked = {}
    BY DEF AnswerCame, InProgress, Asked
  <2>3. CASE drv.reads
    <3>1. AckDue(d) /\ dev.stage = "ack"
      BY <1>4, <2>3 DEF AnswerCame
    <3>2. AckDue(drv')
      BY <1>11, <3>1 DEF AckDue, Acking
    <3>3. Passed'
      BY <1>11, <2>1, <2>2 DEF Passed
    <3> QED BY <1>11, <3>1, <3>2, <3>3 DEF ControlInv, AckAwaited
  <2>4. CASE ~drv.reads
    <3>1. EpxIdle(d) /\ dev.stage = "idle"
      BY <1>4, <2>4 DEF AnswerCame
    <3>2. EpxIdle(drv')
      BY <1>11, <3>1 DEF EpxIdle
    <3>3. Idle'
      BY <1>11, <2>1, <2>2, <3>1, <3>2 DEF Idle
    <3> QED BY <3>3 DEF ControlInv
  <2> QED BY <2>3, <2>4
<1> QED BY <1>10, <1>11, Epx0PollKeeps DEF d

\* The acknowledgement of the device.
LEMMA PollAckKeeps ==
    ASSUME Orderly, SlotInv, OrderInv, Poll, Acked
    PROVE  OrderInv'
<1> DEFINE d == EpxBit(drv)
<1>1. Types /\ DriverInv /\ device \in Devices /\ drv \in DrvSet /\ drv.out = <<>>
  BY DEF SlotInv, OrderInv, Types
<1>2. d = BuffStatusBit(drv, 0)
  BY DEF Acked, Acking, EpxBit
<1>3. AckHandledAs(drv, d)
  <2>1. Epx(drv)
    BY <1>1 DEF DriverInv, Epx
  <2> QED BY <1>1, <1>2, <2>1, AckHandled DEF Acked
<1> HIDE DEF d
<1>4. /\ d \in DrvSet /\ Aside(drv, d, 0, 0) /\ Epx(d) /\ d.active = 0 /\ d.out = drv.out
      /\ EpxIdle(d) /\ d.trans = NoTrans
  BY <1>3 DEF AckHandledAs, Handled0
<1>5. outbox \o d.out = outbox
  BY <1>1, <1>4 DEF Types
<1>6. Proper(outbox \o d.out) /\ From(outbox \o d.out) = Answers
  BY <1>5 DEF OrderInv, OutboxInv, Answers
<1>7. /\ \A k \in {1, 2} : d.pool[k] = drv.pool[k]
      /\ \A k \in 1..Slots : d.bufs[k] = drv.bufs[k]
  <2>1. 1 \in 0..Slots /\ 2 \in 0..Slots /\ \A k \in 1..Slots : k \in 0..Slots /\ k # 0
    OBVIOUS
  <2> QED BY <1>4, <2>1 DEF Aside
<1>8. EpxPolled(d)
  BY <1>4, <1>6, <1>7 DEF EpxPolled, Aside
<1>9. d.sie # "setup" /\ d.trans.num = 0
  BY <1>4 DEF EpxIdle, NoTrans
<1>10. Epx0PolledAs(d)
  BY <1>4, <1>6, <1>8, <1>9 DEF Epx0PolledAs, Acked, Passed
<1>11. ASSUME /\ drv'.pool[0] = d.pool[0] /\ drv'.bufs[0] = d.bufs[0] /\ drv'.reads = d.reads
              /\ drv'.active = d.active /\ drv'.level = d.level /\ drv'.sie = d.sie
              /\ drv'.trans = d.trans
              /\ bits' = {} /\ UNCHANGED <<device, inbox, dev, drivers>>
              /\ Asked' = Asked /\ Ctl' = Ctl
              /\ Ctl \in Answers' <=> Ctl \in From(outbox \o d.out)
       PROVE  ControlInv'
  <2>1. EpxIdle(drv')
    BY <1>4, <1>11 DEF EpxIdle
  <2>2. Idle'
    BY <1>6, <1>11, <2>1 DEF Idle, Acked, Passed
  <2> QED BY <2>2 DEF ControlInv
<1> QED BY <1>10, <1>11, Epx0PollKeeps DEF d

\* No buffer of EPX: reports alone, or the end of a transaction that does not matter.
LEMMA PollOthersKeeps ==
    ASSUME Orderly, SlotInv, OrderInv, Poll, 0 \notin bits, ~(transDone /\ drv.sie = "setup")
    PROVE  OrderInv'
<1> DEFINE e == Buffers
<1>1. /\ Types /\ DriverInv /\ ControlInv /\ bits \subseteq {0, 1, 2} /\ Slots > 2
      /\ device \in Devices
  BY DEF SlotInv, OrderInv, DriverInv, Orderly, Types
<1>2. EpxPolled(drv) /\ EpxBit(drv) = drv /\ Answers = From(outbox \o drv.out)
  BY <1>1, EpxUntouched
<1>3. SlotsPolledAs(drv, e)
  BY <1>2, SlotsPolled DEF Buffers
<1>4. PolledAs(IF transDone THEN TransComplete(e) ELSE e)
  BY <1>1, Polling
<1> HIDE DEF e
<1>5. /\ e \in DrvSet /\ Engine(drv, e) /\ e.pool[0] = drv.pool[0]
      /\ e.bufs[0] = drv.bufs[0] /\ e.reads = drv.reads
  BY <1>3 DEF SlotsPolledAs
<1>6. PolledAs(e)
  <2>1. transDone => TransComplete(e) = e
    BY <1>5 DEF TransComplete, Engine
  <2> QED BY <1>4, <2>1
<1>7. Aside(e, e, 0, 0) /\ Epx(e) /\ e.active \in {0, 1, 2}
  BY <1>2, <1>5 DEF Aside, Epx, EpxPolled, Engine
<1>8. SettledAs(drv, e)
  BY <1>2, <1>3, <1>5, <1>6, <1>7, Settles
<1>9. /\ drv'.pool = e.pool /\ drv'.bufs = e.bufs /\ drv'.reads = drv.reads
      /\ drv'.active = drv.active /\ drv'.level = drv.level /\ drv'.sie = drv.sie
      /\ drv'.trans = drv.trans /\ bits' = {} /\ transDone' = FALSE
      /\ UNCHANGED <<device, inbox, dev, drivers>>
  BY <1>5, <1>6 DEF PolledAs, Engine
<1>10. /\ Asked' = Asked /\ Ctl' = Ctl
       /\ Answers' = Answers \cup {Addr(k) : k \in bits \ {0}}
  BY <1>2, <1>8 DEF SettledAs
<1>11. Ctl \in Answers' <=> Ctl \in Answers
  <2>1. \A k \in bits \ {0} : Addr(k) # Ctl
    BY <1>1, AddrFacts
  <2> QED BY <1>10, <2>1
<1>12. ControlInv'
  <2>1. EpxSame
    BY <1>5, <1>9 DEF EpxSame, Engine
  <2>2. ~SetupDone
    BY DEF SetupDone, SettingUp
  <2> QED BY <1>1, <1>9, <1>11, <2>1, <2>2, ControlStays
<1>13. device = Storage => CommandInv'
  <2> SUFFICES ASSUME device = Storage PROVE CommandInv'
    OBVIOUS
  <2>1. bits = {}
    BY <1>1 DEF DriverInv
  <2>2. \A k \in {1, 2} : drv'.pool[k] = drv.pool[k]
    BY <1>3, <1>9, <2>1 DEF SlotsPolledAs
  <2>3. Answers' = Answers /\ bits' = bits
    BY <1>9, <1>10, <2>1
  <2>4. drv'.bufs[0] = drv.bufs[0]
    BY <1>5, <1>9
  <2>5. CommandInv
    BY DEF OrderInv
  <2> QED BY <1>9, <1>10, <2>2, <2>3, <2>4, <2>5, CommandStays
<1>14. device # Storage => ReportInv'
  BY <1>5, <1>8 DEF SettledAs, Engine, OrderInv, ReportInv
<1> QED BY <1>8, <1>9, <1>12, <1>13, <1>14 DEF OrderInv, SettledAs

\* A packet of a bulk endpoint: it is passed on.
BulkPolledAs(i) ==
    /\ drv'.trans = NoTrans /\ bits' = {} /\ Asked' = Asked /\ Ctl' = Ctl
    /\ Answers' = {Addr(i)}
    /\ UNCHANGED <<device, inbox, dev, drivers>>
    /\ \A k \in {1, 2} : drv'.pool[k].pid = drv.pool[k].pid
    /\ InboxInv' /\ OutboxInv' /\ DriverInv' /\ ConfiguredInv' /\ ControlInv'

\* What both directions have in common.
LEMMA BulkPolled ==
    ASSUME Orderly, SlotInv, OrderInv, Poll, device = Storage, 0 \in bits, NEW i \in {1, 2},
           drv.active = i, drv.trans = NoTrans, drivers.phase # "idle", Answers = {},
           drv.pool[i].conf, drv.pool[i].rem = 0, drv.bufs[0].full <=> i = 2,
           i = 2 => drv.pool[i].user /\ drv.bufs[0].src = Addr(i)
    PROVE  BulkPolledAs(i)
<1> DEFINE d == EpxBit(drv)
           e == Buffers
           b == 0
<1>1. /\ Types /\ DriverInv /\ ControlInv /\ Placed /\ bits = {0} /\ Slots > 2
      /\ device \in Devices /\ drv \in DrvSet /\ drv.out = <<>>
  <2>1. Types /\ DriverInv /\ ControlInv /\ Placed /\ Slots > 2
    BY Places DEF SlotInv, OrderInv, Orderly
  <2>2. bits \subseteq {0}
    BY <2>1 DEF DriverInv
  <2> QED BY <2>1, <2>2 DEF Types
<1>2. Idle /\ drivers.control = FALSE
  BY <1>1, ControlApart
<1>3. /\ Addr(1) = BulkOut /\ Addr(2) = BulkIn /\ Addr(i) \in Addresses /\ Addr(i).num # 0
      /\ Addr(i) # Ctl
  BY <1>1, AddrFacts
<1>4. Addr(i).in <=> i = 2
  BY <1>3 DEF BulkOut, BulkIn, Address
<1>5. d = BuffStatusBit(drv, i)
  BY DEF EpxBit
<1>6. i \in 0..Slots /\ i # 0 /\ b = BufOf(drv.pool[i]) /\ drv.pool[i].addr = Addr(i)
  BY <1>1 DEF Placed, Belongs, Addr
<1>7. drv.bufs[b].full = drv.pool[i].addr.in
  <2>1. 0 \in 0..Slots
    BY <1>1
  <2>2. drv.bufs[0] \in BufSet
    BY <1>1, <2>1 DEF DrvSet
  <2>3. drv.bufs[0].full \in BOOLEAN /\ Addr(i).in \in BOOLEAN
    BY <1>3, <2>2, Addressing DEF BufSet
  <2> QED BY <1>4, <1>6, <2>3
<1>8. Passing(drv, d, i, b) /\ d.pool[i].pid = drv.pool[i].pid
  <2> HIDE DEF d, b
  <2> QED BY <1>1, <1>3, <1>5, <1>6, <1>7, PacketDone
<1> HIDE DEF d
<1>9. /\ d \in DrvSet /\ Aside(drv, d, i, 0) /\ Engine(drv, d)
      /\ Likewise(drv.pool[i], d.pool[i])
  BY <1>8 DEF Passing
<1>10. PICK x \in PacketSet :
          /\ d.out = Append(drv.out, x) /\ x.addr = Addr(i)
          /\ x.addr.in /\ drv.pool[i].user => x.src = drv.bufs[0].src
  BY <1>6, <1>8 DEF Passing
<1>11. Proper(outbox \o d.out) /\ From(outbox \o d.out) = {Addr(i)}
  <2>1. x.addr \in {Ctl, Addr(1), Addr(2)} /\ x.addr \notin Answers
    BY <1>10
  <2>2. x.addr.in => x.src = x.addr
    BY <1>4, <1>10
  <2> QED BY <1>1, <1>9, <1>10, <2>1, <2>2, EpxPasses
<1>12. /\ d.pool[0] = drv.pool[0]
       /\ \A k \in {1, 2} : d.pool[k].conf = drv.pool[k].conf /\ d.pool[k].pid = drv.pool[k].pid
       /\ \A k \in 1..Slots : d.bufs[k] = drv.bufs[k]
  <2>1. 0 \in 0..Slots /\ 1 \in 0..Slots /\ 2 \in 0..Slots
        /\ \A k \in 1..Slots : k \in 0..Slots /\ k # 0
    BY <1>1
  <2> QED BY <1>6, <1>8, <1>9, <2>1 DEF Aside, Likewise
<1>13. EpxPolled(d)
  BY <1>1, <1>9, <1>11, <1>12 DEF EpxPolled, Epx, DriverInv, Aside, Engine
<1>14. SlotsPolledAs(d, e)
  BY <1>13, SlotsPolled DEF Buffers, d
<1>15. PolledAs(IF transDone THEN TransComplete(e) ELSE e)
  BY <1>1, Polling
<1> HIDE DEF e
<1>16. /\ e \in DrvSet /\ e.pool[0] = drv.pool[0] /\ e.sie = drv.sie /\ e.trans = NoTrans
       /\ e.active = i
       /\ \A k \in {1, 2} : e.pool[k].pid = drv.pool[k].pid
  BY <1>1, <1>9, <1>12, <1>14 DEF SlotsPolledAs, Engine
<1>17. PolledAs(e)
  <2>1. TransComplete(e) = e
    BY <1>2, <1>16 DEF TransComplete, Idle, EpxIdle
  <2> QED BY <1>15, <2>1
<1>18. Aside(e, e, 0, 0) /\ Epx(e) /\ e.active \in {0, 1, 2}
  BY <1>1, <1>16 DEF Aside, Epx, DriverInv
<1>19. SettledAs(d, e)
  BY <1>13, <1>14, <1>16, <1>17, <1>18, Settles
<1>20. /\ drv'.pool = e.pool /\ drv'.sie = e.sie /\ drv'.trans = NoTrans /\ bits' = {}
       /\ UNCHANGED <<device, inbox, dev, drivers>>
  BY <1>16, <1>17 DEF PolledAs
<1>21. /\ Asked' = Asked /\ Ctl' = Ctl /\ Answers' = {Addr(i)}
       /\ InboxInv' /\ OutboxInv' /\ DriverInv' /\ ConfiguredInv'
  BY <1>1, <1>11, <1>19 DEF SettledAs
<1>22. ControlInv'
  <2>1. EpxIdle(drv')
    BY <1>2, <1>16, <1>20 DEF Idle, EpxIdle, NoTrans
  <2>2. Idle'
    BY <1>2, <1>3, <1>20, <1>21, <2>1 DEF Idle
  <2> QED BY <2>2 DEF ControlInv
<1> QED BY <1>16, <1>20, <1>21, <1>22 DEF BulkPolledAs

\* A bulk endpoint's packet.
LEMMA PollBulkKeeps ==
    ASSUME Orderly, SlotInv, OrderInv, Poll, 0 \in bits, drv.active # 0
    PROVE  OrderInv'
<1>1. device = Storage /\ CommandInv /\ Types
  BY DEF OrderInv, ReportInv, SlotInv
<1>2. OutGone \/ InCame
  BY <1>1 DEF CommandInv, NoCommand, NoBulk, OutQueued, InGoing, OutGoing, OutPassed, InQueued,
              InAwaited, InPassed
<1>3. Addr(1) = BulkOut /\ Addr(2) = BulkIn
  BY <1>1, AddrFacts
<1>4. CASE OutGone
  <2> DEFINE i == 1
  <2>1. /\ i \in {1, 2} /\ i # 2 /\ drv.active = i /\ drv.trans = NoTrans
        /\ drivers.phase # "idle" /\ Answers = {}
        /\ drv.pool[i].conf /\ drv.pool[i].rem = 0 /\ ~drv.bufs[0].full
    BY <1>4 DEF OutGone
  <2> HIDE DEF i
  <2>2. BulkPolledAs(i)
    BY <1>1, <2>1, BulkPolled
  <2> USE DEF i
  <2>3. /\ drv'.trans = NoTrans /\ bits' = {} /\ Asked' = Asked /\ Ctl' = Ctl
        /\ Answers' = {BulkOut}
        /\ UNCHANGED <<device, dev, drivers>>
        /\ drv'.pool[1].pid = drv.pool[1].pid /\ drv'.pool[2].pid = drv.pool[2].pid
    BY <1>3, <2>2 DEF BulkPolledAs
  <2>4. NoBulk'
    BY <2>3 DEF NoBulk, NoTrans
  <2>5. OutPid' /\ InPid(dev.left)'
    BY <1>4, <2>3 DEF OutGone, OutPid, InPid
  <2>6. OutPassed'
    BY <1>4, <2>3, <2>4, <2>5 DEF OutGone, OutPassed
  <2> QED BY <1>1, <2>2, <2>3, <2>6 DEF BulkPolledAs, OrderInv, CommandInv
<1>5. CASE InCame
  <2> DEFINE i == 2
  <2>1. /\ i \in {1, 2} /\ i = 2 /\ drv.active = i /\ drv.trans = NoTrans
        /\ drivers.phase # "idle" /\ Answers = {}
        /\ drv.pool[i].conf /\ drv.pool[i].rem = 0 /\ drv.bufs[0].full
        /\ drv.pool[i].user /\ drv.bufs[0].src = Addr(i)
    BY <1>3, <1>5 DEF InCame, Due
  <2> HIDE DEF i
  <2>2. BulkPolledAs(i)
    BY <1>1, <2>1, BulkPolled
  <2> USE DEF i
  <2>3. /\ drv'.trans = NoTrans /\ bits' = {} /\ Asked' = Asked /\ Ctl' = Ctl
        /\ Answers' = {BulkIn}
        /\ UNCHANGED <<device, dev, drivers>>
        /\ drv'.pool[1].pid = drv.pool[1].pid /\ drv'.pool[2].pid = drv.pool[2].pid
    BY <1>3, <2>2 DEF BulkPolledAs
  <2>4. NoBulk'
    BY <2>3 DEF NoBulk, NoTrans
  <2>5. Due' /\ InPid(0)'
    BY <1>5, <2>3 DEF InCame, Due, OutPid, InPid
  <2>6. InPassed'
    BY <1>5, <2>3, <2>4, <2>5 DEF InCame, InPassed
  <2> QED BY <1>1, <2>2, <2>3, <2>6 DEF BulkPolledAs, OrderInv, CommandInv
<1> QED BY <1>2, <1>4, <1>5

\* Any poll.
LEMMA PollKeeps ==
    ASSUME Orderly, SlotInv, OrderInv, Poll
    PROVE  OrderInv'
<1>1. ControlInv
  BY DEF OrderInv
<1>2. CASE 0 \in bits /\ drv.active = 0
  <2>1. AnswerCame \/ Acked
    BY <1>1, <1>2 DEF ControlInv, Idle, Requested, SetupSent, SetupDone, AnswerAwaited, AckAwaited
  <2> QED BY <2>1, PollAnswerKeeps, PollAckKeeps
<1>3. CASE 0 \in bits /\ drv.active # 0
  BY <1>3, PollBulkKeeps
<1>4. CASE 0 \notin bits
  BY <1>4, PollSetupKeeps, PollOthersKeeps
<1> QED BY <1>2, <1>3, <1>4

-----------------------------------------------------------------------------
(* The invariant.                                                          *)

\* At first nothing is under way.
LEMMA OrderInitially ==
    ASSUME Init, Orderly
    PROVE  OrderInv
<1>1. SlotInv /\ Types
  BY Initially DEF SlotInv
<1>2. /\ bits = {} /\ transDone = FALSE /\ inbox = <<>> /\ outbox = <<>>
      /\ dev.stage = "idle" /\ ~dev.busy /\ dev.left = 0
      /\ dev.pid = [a \in Addresses |-> IF a.num = 0 THEN 1 ELSE 0]
      /\ drivers = [control |-> FALSE, configured |-> FALSE, phase |-> "idle", want |-> {}]
      /\ drv.active = 0 /\ drv.sie = "base" /\ drv.trans = NoTrans /\ ~drv.panic
      /\ drv.pool = [i \in 0..Slots |->
                        IF i = 0 THEN [FreeSlot EXCEPT !.mps = device.ask, !.conf = TRUE,
                                                       !.inum = NotInterrupt]
                        ELSE FreeSlot]
      /\ drv.bufs = [i \in 0..Slots |-> NoBuf]
  BY DEF Init
<1>3. /\ drv.pool[0].mps = device.ask /\ drv.pool[0].inum = NotInterrupt /\ drv.pool[0].xfer = 0
      /\ \A k \in {1, 2} : drv.pool[k].pid = 0
  <2> DEFINE epx == [FreeSlot EXCEPT !.mps = device.ask, !.conf = TRUE, !.inum = NotInterrupt]
  <2>1. epx.mps = device.ask /\ epx.inum = NotInterrupt /\ epx.xfer = 0 /\ FreeSlot.pid = 0
    BY DEF FreeSlot
  <2> HIDE DEF epx
  <2>2. 0 \in 0..Slots /\ 1 \in 0..Slots /\ 2 \in 0..Slots /\ 1 # 0 /\ 2 # 0
    BY DEF Orderly
  <2>3. drv.pool = [i \in 0..Slots |-> IF i = 0 THEN epx ELSE FreeSlot]
    BY <1>2 DEF epx
  <2>4. drv.pool[0] = epx /\ drv.pool[1] = FreeSlot /\ drv.pool[2] = FreeSlot
    BY <2>2, <2>3
  <2> QED BY <2>1, <2>4
<1>4. \A i \in 3..Slots : ~drv.bufs[i].avail
  <2>1. \A i \in 3..Slots : i \in 0..Slots
    OBVIOUS
  <2> QED BY <1>2, <2>1 DEF NoBuf
<1>5. dev.pid[Ctl] = 1 /\ \A k \in {1, 2} : dev.pid[Addr(k)] = 0
  <2>1. Ctl \in Addresses /\ Ctl.num = 0
    BY Addressing DEF Ctl
  <2>2. \A k \in {1, 2} : Addr(k) \in Addresses /\ Addr(k).num # 0
    BY <1>1, AddrFacts
  <2> QED BY <1>2, <2>1, <2>2
<1>6. InboxInv /\ OutboxInv /\ Asked = {} /\ Answers = {}
  BY <1>2 DEF InboxInv, OutboxInv, Proper, Asked, Answers, From
<1>7. DriverInv
  BY <1>2, <1>3, <1>4, <1>5 DEF DriverInv
<1>8. drivers.control = FALSE /\ drivers.phase = "idle" /\ drivers.want = {}
  BY <1>2
<1>9. ControlInv
  <2>1. EpxIdle(drv)
    BY <1>2, <1>3 DEF EpxIdle, NoTrans
  <2> QED BY <1>2, <1>6, <1>8, <2>1 DEF ControlInv, Idle
<1>10. ConfiguredInv
  BY <1>8 DEF ConfiguredInv
<1>11. ASSUME device = Storage PROVE CommandInv
  <2>1. dev.pid[BulkOut] = 0 /\ dev.pid[BulkIn] = 0
    <3>1. Addr(1) = BulkOut /\ Addr(2) = BulkIn
      BY <1>1, <1>11, AddrFacts
    <3> QED BY <1>5, <3>1
  <2>2. NoBulk
    BY <1>2 DEF NoBulk, NoTrans
  <2>3. InPid(0)
    <3>1. 0 \in Nat /\ 0 \in Pid
      BY DEF Pid
    <3> QED BY <1>3, <2>1, <3>1, OddNext DEF InPid
  <2>4. OutPid
    BY <1>3, <2>1 DEF OutPid
  <2> QED BY <1>2, <1>6, <1>8, <2>2, <2>3, <2>4 DEF CommandInv, NoCommand
<1>12. ASSUME device # Storage PROVE ReportInv
  <2>1. ReportPlaced(1) /\ ReportPlaced(2)
    BY <1>2, <1>3, <1>5, <1>6, <1>8 DEF ReportPlaced, ReportNone
  <2>2. drv.trans.kind # "out"
    BY <1>2 DEF NoTrans
  <2> QED BY <1>2, <1>8, <2>1, <2>2 DEF ReportInv
<1> QED BY <1>6, <1>7, <1>9, <1>10, <1>11, <1>12 DEF OrderInv

\* A step of nobody.
LEMMA OrderStutters ==
    ASSUME SlotInv, OrderInv, UNCHANGED vars
    PROVE  OrderInv'
<1>1. UNCHANGED <<device, drv, bits, transDone, inbox, outbox, dev, drivers>>
  BY DEF vars
<1>2. InboxInv' /\ Asked' = Asked
  BY <1>1, InboxStays DEF OrderInv, StillOpen
<1>3. OutboxInv' /\ Answers' = Answers /\ Ctl' = Ctl
  BY <1>1, OutboxStays DEF OrderInv
<1>4. DriverInv'
  BY <1>1, DriverStays DEF OrderInv
<1>5. ControlInv'
  <2>1. EpxSame
    BY <1>1 DEF EpxSame, Engine
  <2>2. SetupDone => transDone'
    BY <1>1 DEF SetupDone
  <2> QED BY <1>1, <1>3, <2>1, <2>2, ControlStays DEF OrderInv
<1>6. ConfiguredInv'
  BY <1>1 DEF OrderInv, ConfiguredInv
<1>7. device = Storage => CommandInv'
  BY <1>1, <1>2, <1>3, CommandStays DEF OrderInv
<1>8. device # Storage => ReportInv'
  BY <1>1, <1>2, <1>3, ReportsStay DEF OrderInv, ReportInv
<1> QED BY <1>1, <1>2, <1>3, <1>4, <1>5, <1>6, <1>7, <1>8 DEF OrderInv

\* OrderInv is inductive.
LEMMA OrderStep ==
    ASSUME Orderly, SlotInv, OrderInv, [Next]_vars
    PROVE  OrderInv'
<1>1. CASE Poll
  BY <1>1, PollKeeps
<1>2. CASE SlaveWork
  BY <1>2, OpenEndpointKeeps, SetupDataKeeps, UsbDataKeeps DEF SlaveWork
<1>3. CASE Device
  BY <1>3, DeviceSetupKeeps, DeviceAnswerKeeps, DeviceAckKeeps, DeviceBulkOutKeeps,
     DeviceBulkInKeeps DEF Device
<1>4. CASE \E i \in 1..Slots : DeviceReport(i)
  BY <1>4, DeviceReportKeeps
<1>5. CASE Masters
  BY <1>5, TakeControlKeeps, TakeOutKeeps, TakeInKeeps, TakeReportKeeps DEF Masters
<1>6. CASE \E in \in BOOLEAN : NewControl(in)
  BY <1>6, NewControlKeeps
<1>7. CASE NewCommand \/ SendData
  BY <1>7, NewCommandKeeps, SendDataKeeps
<1>8. CASE \E a \in {e.addr : e \in ToSet(device.config)} : Knock(a)
  BY <1>8, KnockKeeps
<1>9. CASE UNCHANGED vars
  BY <1>9, OrderStutters
<1> QED BY <1>1, <1>2, <1>3, <1>4, <1>5, <1>6, <1>7, <1>8, <1>9 DEF Next

\* Where the control transfer, the command or the reports of a device are, for every pool,
\* packet size and length of a command: which endpoint the shared buffer, active_ep, the PIDs
\* and the messages in both directions belong to.
THEOREM Ordering == Orderly => (Spec => []OrderInv)
<1> SUFFICES ASSUME Orderly PROVE Spec => []OrderInv
  OBVIOUS
<1>1. Init => OrderInv
  BY OrderInitially
<1>2. SlotInv /\ OrderInv /\ [Next]_vars => OrderInv'
  BY OrderStep
<1> QED BY <1>1, <1>2, Invariance, PTL DEF Spec

-----------------------------------------------------------------------------
(* What it means.                                                          *)

\* Every variable has its type: the packets a command still expects are a number.
THEOREM TypeCorrect == Orderly => (Spec => []TypeOK)
<1> SUFFICES ASSUME Orderly PROVE Spec => []TypeOK
  OBVIOUS
<1>1. SlotInv /\ OrderInv => TypeOK
  <2> SUFFICES ASSUME SlotInv, OrderInv PROVE TypeOK
    OBVIOUS
  <2>1. Types /\ dev.left \in Nat
    BY DEF SlotInv, OrderInv, DriverInv
  <2>2. drv.pool \in [0..Slots -> EpSet] /\ drv.bufs \in [0..Slots -> BufSet]
    BY <2>1 DEF Types, DrvSet
  <2>3. \A i \in 0..Slots :
           drv.pool[i] \in [addr : Addresses, pid : Pid, mps : Nat, conf : BOOLEAN,
                            inum : 0..(Slots - 1) \cup {NotInterrupt},
                            rem : Nat, xfer : Nat, user : BOOLEAN]
    BY <2>2 DEF EpSet
  <2>4. \A b \in 0..Slots :
           drv.bufs[b] \in [avail : BOOLEAN, len : Nat, pid : Pid, full : BOOLEAN,
                            last : BOOLEAN, src : Addresses]
    BY <2>2 DEF BufSet
  <2>5. /\ drv.active \in 0..Slots /\ drv.level \in 0..3 /\ drv.out = <<>>
        /\ drv.trans \in [kind : {"none", "setup", "in", "out"}, num : 0..2]
        /\ drv.sie \in {"base", "setup", "in", "out"}
        /\ drv.bugger \in Addresses /\ {drv.reads, drv.panic, transDone} \subseteq BOOLEAN
        /\ bits \subseteq 0..Slots /\ device \in Devices
    BY <2>1 DEF Types, DrvSet, TransSet
  <2>6. \A k \in 1..Len(inbox) : inbox[k].type \in {"open", "setup", "data"}
    <3>1. \A m \in MessageSet : m.type \in {"open", "setup", "data"}
      BY DEF MessageSet
    <3> QED BY <2>1, <3>1 DEF Types
  <2>7. \A k \in 1..Len(outbox) :
           outbox[k] \in [addr : Addresses, len : Nat, last : BOOLEAN, src : Addresses]
    <3>1. \A k \in 1..Len(outbox) : outbox[k] \in PacketSet
      BY <2>1 DEF Types
    <3> QED BY <3>1 DEF PacketSet
  <2>8. dev \in [stage : {"idle", "data", "status", "ack"}, pid : [Addresses -> Pid],
                 busy : BOOLEAN, left : Nat]
    BY <2>1 DEF Types, DevSet
  <2>9. drivers \in [control : BOOLEAN, configured : BOOLEAN,
                     phase : {"idle", "sent", "asked"}, want : SUBSET Addresses]
    BY <2>1 DEF Types, DriversSet
  <2> QED BY <2>3, <2>4, <2>5, <2>6, <2>7, <2>8, <2>9 DEF TypeOK
<1> QED BY <1>1, Ordering, Invariance, PTL

\* The PID of a buffer the device uses is the one it expects: next_pid of an endpoint stays
\* with it while other endpoints use EPX's buffer, and what a request that data for the OUT
\* endpoint cut short has turned is turned back by the next one (rp2040_usb.c:185-195).
THEOREM PidsAgree == Orderly => (Spec => []PidAgrees)
<1> SUFFICES ASSUME Orderly PROVE Spec => []PidAgrees
  OBVIOUS
<1>1. SlotInv /\ OrderInv => PidAgrees
  <2> SUFFICES ASSUME SlotInv, OrderInv PROVE PidAgrees
    OBVIOUS
  <2>1. Types /\ DriverInv /\ ControlInv
    BY DEF SlotInv, OrderInv
  <2>2. ASSUME Transaction("in", {0}), dev.stage \in {"data", "status"}
        PROVE  drv.bufs[0].pid = dev.pid[Control(TRUE)]
    <3>1. drv.trans.kind = "in"
      BY <2>2 DEF Transaction
    <3>2. AnswerAwaited
      BY <2>1, <2>2, <3>1 DEF ControlInv, Idle, Requested, SetupSent, SetupDone, AnswerCame,
                              AckAwaited, Acked, NoTrans
    <3> QED BY <2>1, <3>2 DEF AnswerAwaited, AnswerDue, DriverInv, Ctl
  <2>3. ASSUME Transaction("in", {BulkIn.num}), dev.busy, dev.left = 0
        PROVE  drv.bufs[0].pid = dev.pid[BulkIn]
    <3>1. device = Storage /\ CommandInv
      BY <2>3 DEF OrderInv, ReportInv
    <3>2. drv.trans.kind = "in" /\ drv.trans.num # 0
      BY <2>3 DEF Transaction, BulkIn, Address
    <3>3. InGoing
      BY <3>1, <3>2 DEF CommandInv, NoCommand, NoBulk, OutQueued, OutGoing, OutGone, OutPassed,
                        InQueued, InAwaited, InCame, InPassed, NoTrans
    <3>4. dev.pid[BulkIn] \in Pid /\ 0 \in Nat
      BY <2>1, Addressing DEF Types, DevSet
    <3> QED BY <2>3, <3>3, <3>4, OddNext DEF InGoing
  <2>4. ASSUME Transaction("out", {BulkOut.num})
        PROVE  drv.bufs[0].pid = dev.pid[BulkOut]
    <3>1. drv.trans.kind = "out" /\ drv.trans.num # 0
      BY <2>4 DEF Transaction, BulkOut, Address
    <3>2. device = Storage /\ CommandInv
      BY <3>1 DEF OrderInv, ReportInv
    <3>3. OutGoing
      BY <3>1, <3>2 DEF CommandInv, NoCommand, NoBulk, OutQueued, InGoing, OutGone, OutPassed,
                        InQueued, InAwaited, InCame, InPassed, NoTrans
    <3> QED BY <3>3 DEF OutGoing
  <2>5. ASSUME NEW i \in 1..Slots, Reporting(i)
        PROVE  drv.bufs[BufOf(drv.pool[i])].pid = dev.pid[drv.pool[i].addr]
    BY <2>5, ReportDue DEF ReportAwaited
  <2> QED BY <2>2, <2>3, <2>4, <2>5 DEF PidAgrees
<1> QED BY <1>1, Ordering, Invariance, PTL

\* A packet goes to the master under the address of the endpoint it came from, although
\* EPX's completion belongs to whatever active_ep is by then (hcd_rp2040.c:106) and all
\* data goes through one buffer (host_event_handlers.c:129-133).
THEOREM PacketsFromOwners == Orderly => (Spec => []PacketFromOwner)
<1> SUFFICES ASSUME Orderly PROVE Spec => []PacketFromOwner
  OBVIOUS
<1>1. SlotInv /\ OrderInv => PacketFromOwner
  BY DEF SlotInv, Types, OrderInv, OutboxInv, Proper, PacketFromOwner
<1> QED BY <1>1, Ordering, Invariance, PTL

\* A knock or an OUT packet is answered once, after it has been handled: no completion is
\* counted twice, and a buffer that was offered for a second packet (hcd_rp2040.c:90-91)
\* brings no answer of its own.
THEOREM AnsweredOnceOnly == Orderly => (Spec => []AnsweredOnce)
<1> SUFFICES ASSUME Orderly PROVE Spec => []AnsweredOnce
  OBVIOUS
<1>1. SlotInv /\ OrderInv => AnsweredOnce
  <2> SUFFICES ASSUME SlotInv, OrderInv, NEW k \in 1..Len(outbox), NEW a,
                      a = outbox[k].addr, a.num # 0
               PROVE  /\ a \in drivers.want
                      /\ \A j \in 1..Len(outbox) : outbox[j].addr = a => j = k
                      /\ \A j \in 1..Len(inbox) : inbox[j].type = "data" => inbox[j].addr # a
    BY DEF AnsweredOnce
  <2>1. Types /\ OutboxInv /\ DOMAIN outbox = 1..Len(outbox) /\ DOMAIN inbox = 1..Len(inbox)
    BY DEF SlotInv, OrderInv, Types
  <2>2. a \in Answers /\ a # Ctl /\ a \in {Addr(1), Addr(2)}
    BY <2>1, Addressing DEF OutboxInv, Proper, Answers, From, Ctl
  <2>3. \A j \in 1..Len(outbox) : outbox[j].addr = a => j = k
    BY <2>1 DEF OutboxInv, Proper
  <2>4. a \in drivers.want /\ a \notin Asked
    <3>1. CASE device = Storage
      <4>1. CommandInv
        BY <3>1 DEF OrderInv
      <4>2. OutPassed \/ InPassed
        BY <2>2, <4>1 DEF CommandInv, NoCommand, OutQueued, OutGoing, OutGone, InQueued,
                          InAwaited, InCame
      <4> QED BY <2>2, <4>2 DEF OutPassed, InPassed, Due
    <3>2. CASE device # Storage
      <4>1. PICK i \in {1, 2} : a = Addr(i)
        BY <2>2
      <4>2. ReportPlaced(i)
        BY <3>2 DEF OrderInv, ReportInv
      <4> QED BY <2>2, <4>1, <4>2 DEF ReportPlaced, ReportNone, ReportAsked, ReportAwaited,
                                      ReportCame, ReportPassed
    <3> QED BY <3>1, <3>2
  <2> QED BY <2>1, <2>3, <2>4 DEF Asked
<1> QED BY <1>1, Ordering, Invariance, PTL

\* No assertion of the driver fails (host_event_handlers.c:151-152, hcd_rp2040.c:401,
\* rp2040_usb.c:287), no slot is taken over by another kind of endpoint and no packet has a
\* wrong PID (hcd_rp2040.c:215-222).
THEOREM NeverPanics == Orderly => (Spec => []NoPanic)
<1> SUFFICES ASSUME Orderly PROVE Spec => []NoPanic
  OBVIOUS
<1>1. OrderInv => NoPanic
  BY DEF OrderInv, DriverInv, NoPanic
<1> QED BY <1>1, Ordering, PTL
=============================================================================
