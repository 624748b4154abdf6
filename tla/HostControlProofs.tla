------------------------- MODULE HostControlProofs -------------------------
(***************************************************************************)
(* Proofs, for every set of packet sizes and of lengths, of the safety     *)
(* properties of HostControl, provided that the master's host waits until  *)
(* the device is idle and that the packet size stays: Orderly.  Two of     *)
(* them also need that no answer ends exactly with wLength in whole        *)
(* packets.  The runs host_control_late, host_control_swap and             *)
(* host_control_exact show what happens otherwise.                         *)
(*                                                                         *)
(* The inductive invariant names the phases of a control transfer and, for *)
(* each, what driver, controller and device agree on.                      *)
(***************************************************************************)
EXTENDS HostControl, TLAPS

Orderly == Patience = "idle" /\ ~Swaps

\* Whether the host may send request r to a device of packet size n.
Fits(r, n) == ExactFits \/ ~Exact(r, n)

Least(a, b) == IF a <= b THEN a ELSE b

\* How many bytes the device has for the request.
Whole == Least(setup.len, setup.data)

\* With which length a transfer of the data or status stage is started.
AskedFor == IF setup.in THEN setup.len ELSE StatusLength

\* Whether the PID turns when a buffer is started with len bytes remaining.
Turns(len, mps) == mps = 0 \/ len = 0 \/ (1 + (len - 1) \div mps) % 2 = 1

-----------------------------------------------------------------------------
(* The inductive invariant.                                                *)

EpSet == [dir : Dir, addr : {0, NewAddress}, pid : Pid, mps : PacketSizes \cup {0},
          rem : Nat, xfer : Nat]
TransSet == [kind : Dir \cup {"setup", "none"}, addr : {0, NewAddress}]
BufSet == [len : Nat, pid : Pid, full : BOOLEAN, last : BOOLEAN]
OutSet == [len : Nat, last : BOOLEAN]
CtlSet == [ep : EpSet, level : 0..2, sie : Dir \cup {"setup", "base"}, trans : TransSet,
           buf : BufSet, out : {<<>>} \cup {<<p>> : p \in OutSet}]
DevSet == [size : PacketSizes, addr : {0, NewAddress}, left : Nat, pid : Pid,
           passed : Nat, stage : {"idle", "data", "status", "ack"}]

\* TypeOK, with what never changes: the packet size is unknown or the device's, and
\* no bytes are counted between two steps.
Types ==
    /\ ctl \in CtlSet /\ ctl.out = <<>>
    /\ setup \in Request /\ devAddr \in {0, NewAddress}
    /\ dev \in DevSet
    /\ buffStatus \in BOOLEAN /\ transDone \in BOOLEAN /\ pending \in BOOLEAN
    /\ fresh \in BOOLEAN /\ seen \in BOOLEAN
    /\ sent \in Nat /\ answer \in [got : Nat, want : Nat]
    /\ ctl.ep.mps \in {0, dev.size} /\ ctl.ep.xfer = 0
    /\ panic = FALSE

\* What the master may have sent.
Reset == [type |-> "reset"]
PacketSize(size) == [type |-> "packetsize", size |-> size]
InboxInv ==
    \/ inbox = <<>>
    \/ inbox = <<Reset>> /\ ~pending
    \/ inbox = <<PacketSize(dev.size)>> /\ ~pending
    \/ inbox = <<[type |-> "address"]>> /\ pending
    \/ /\ pending
       /\ \E r \in Request :
             inbox = <<[type |-> "setup", request |-> r]>> /\ r.kind # "address"
             /\ Fits(r, dev.size)

\* Nothing is under way; a request waits in inbox or there is none.
Quiet ==
    /\ ctl.trans.kind = "none" /\ ~buffStatus /\ ~transDone /\ dev.stage = "idle"
    /\ ctl.level # 1
    /\ pending => inbox # <<>>
    /\ inbox = <<Reset>> \/ devAddr = dev.addr

\* The slave works on a request.
Busy == pending /\ inbox = <<>> /\ Fits(setup, dev.size)

\* The new address is in dev_addr before the device has it.
AddressSet == devAddr = IF setup.kind = "address" THEN NewAddress ELSE dev.addr

\* The setup packet is on its way ...
SetupSent ==
    /\ Busy /\ AddressSet /\ ~buffStatus /\ ~transDone
    /\ ctl.level = 0 /\ ctl.sie = "setup" /\ ctl.ep.dir = "out" /\ ctl.ep.addr = dev.addr
    /\ ctl.trans.kind = "setup" /\ ctl.trans.addr = dev.addr
    /\ dev.stage = "idle" /\ sent = 0

\* ... and has been received by the device.
SetupTaken ==
    /\ Busy /\ AddressSet /\ ~buffStatus /\ transDone /\ seen
    /\ ctl.level = 0 /\ ctl.sie = "setup" /\ ctl.ep.dir = "out" /\ ctl.ep.addr = dev.addr
    /\ ctl.trans.kind = "none"
    /\ dev.stage = (IF setup.in THEN "data" ELSE "status")
    /\ dev.left = Whole /\ dev.pid = 1 /\ dev.passed = 0 /\ sent = 0

\* What a buffer is offered with: remaining_len has dropped by a packet, and the PID
\* has turned with the parity of the packets that were to come.
Offered ==
    /\ ctl.ep.dir = "in" /\ ctl.sie = "in" /\ ctl.level = 1 /\ seen
    /\ ctl.ep.rem = AskedFor - Least(AskedFor, ctl.ep.mps)
    /\ ctl.ep.pid = IF Turns(AskedFor, ctl.ep.mps) THEN 1 - ctl.buf.pid ELSE ctl.buf.pid
    /\ setup.in =>
         /\ sent < setup.len /\ sent <= Whole
         /\ \E k \in Nat : sent = k * dev.size
         /\ ctl.ep.mps = 0 => sent = 0
    /\ ~setup.in => sent = 0

\* A packet of the device is awaited ...
Awaited ==
    /\ Busy /\ AddressSet /\ ~buffStatus /\ ~transDone /\ Offered
    /\ ctl.trans.kind = "in" /\ ctl.trans.addr = dev.addr /\ ctl.ep.addr = dev.addr
    /\ ctl.buf.pid = dev.pid
    /\ dev.stage = (IF setup.in THEN "data" ELSE "status")
    /\ dev.left = Whole - sent /\ dev.passed = sent

\* ... and has come.
Come ==
    /\ Busy /\ devAddr = dev.addr /\ buffStatus /\ Offered
    /\ ctl.trans.kind = "none"
    /\ dev.pid = 1 - ctl.buf.pid /\ ctl.buf.full
    /\ ctl.buf.len = Least(Whole - sent, dev.size)
    /\ setup.in =>
         /\ ctl.ep.addr = dev.addr
         /\ dev.left = Whole - (sent + ctl.buf.len) /\ dev.passed = sent + ctl.buf.len
         /\ dev.stage = IF ctl.buf.len < dev.size \/ dev.passed = setup.len
                        THEN "ack" ELSE "data"
    /\ ~setup.in => dev.stage = "idle"

\* The empty packet of an IN request's status stage is on its way ...
Acking ==
    /\ ~pending /\ devAddr = dev.addr /\ ~buffStatus /\ ~transDone
    /\ inbox \in {<<>>, <<PacketSize(dev.size)>>}
    /\ ctl.level = 2 /\ ctl.sie = "out" /\ ctl.ep.dir = "out" /\ ctl.buf.len = 0
    /\ ctl.trans.kind = "out" /\ ctl.trans.addr = dev.addr
    /\ dev.stage \in {"data", "ack"}

\* ... and has been received.
Acked ==
    /\ ~pending /\ devAddr = dev.addr /\ buffStatus
    /\ inbox \in {<<>>, <<PacketSize(dev.size)>>}
    /\ ctl.level = 2 /\ ctl.sie = "out" /\ ctl.ep.dir = "out"
    /\ ctl.buf.len = 0 /\ ~ctl.buf.full
    /\ ctl.trans.kind = "none" /\ dev.stage = "idle"

\* All wLength bytes have come, in whole packets: the slave awaits one more, which
\* the device does not send.
Stuck ==
    /\ Busy /\ devAddr = dev.addr /\ ~buffStatus /\ ~transDone /\ seen /\ ExactFits
    /\ ctl.level = 1 /\ ctl.trans.kind = "in" /\ ctl.trans.addr = dev.addr
    /\ dev.stage = "ack"

PhaseInv ==
    Quiet \/ SetupSent \/ SetupTaken \/ Awaited \/ Come \/ Stuck \/ Acking \/ Acked
IInv == Types /\ InboxInv /\ PhaseInv /\ AnswerIsWhole

-----------------------------------------------------------------------------
(* Arithmetic.                                                             *)

\* Min of the community modules on two numbers.
LEMMA MinTwo ==
    ASSUME NEW a \in Nat, NEW b \in Nat
    PROVE  Min({a, b}) = Least(a, b)
  <1> DEFINE P(x) == x \in {a, b} /\ \A y \in {a, b} : x <= y
  <1>1. P(Least(a, b))
    BY DEF Least
  <1>2. \A x : P(x) => x = Least(a, b)
    BY DEF Least
  <1>3. Min({a, b}) = CHOOSE x \in {a, b} : \A y \in {a, b} : x <= y
    BY DEF Min
  <1> QED
    BY <1>1, <1>2, <1>3

\* Taking one whole packet off changes the parity of the packets to come.
LEMMA ParityTurns ==
    ASSUME NEW m \in Nat \ {0}, NEW len \in Nat, len > m
    PROVE  Turns(len, m) <=> ~Turns(len - m, m)
  <1> DEFINE a == len - 1
             q == a \div m
  <1>1. a \in Nat /\ a >= m /\ len - m # 0 /\ len # 0 /\ m # 0 /\ (len - m) - 1 = a - m
    OBVIOUS
  <1>2. (a - m) \div m = q - 1
    BY <1>1, Z3
  <1>3. q \in Nat
    BY <1>1, Z3
  <1>4. q >= 1
    BY <1>1, Z3
  <1> HIDE DEF q
  <1>5. (1 + q) % 2 = 1 <=> ~((1 + (q - 1)) % 2 = 1)
    BY <1>3, <1>4, Z3
  <1> QED
    BY <1>1, <1>2, <1>5 DEF Turns, q

\* Whether wLength is met exactly by whole packets.
LEMMA ExactMultiple ==
    ASSUME NEW m \in Nat \ {0}, NEW k \in Nat, NEW len \in Nat, len = k * m + m
    PROVE  len % m = 0
  BY Z3

-----------------------------------------------------------------------------
(* Facts about requests and the types of the fields.                       *)

\* Sizes and lengths are positive numbers.
LEMMA ConstantFacts ==
    /\ \A n \in PacketSizes : n \in Nat /\ n > 0
    /\ \A n \in Lengths : n \in Nat /\ n > 0
    /\ StatusLength \in Nat /\ StatusLength > 0
  <1>1. /\ PacketSizes \subseteq Nat \ {0} /\ Lengths \subseteq Nat \ {0}
        /\ StatusLength \in Nat \ {0}
    BY HostControlAssumption, Zenon
  <1> QED
    BY <1>1

\* What a request may be.
LEMMA RequestFacts ==
    ASSUME NEW r \in Request
    PROVE  /\ r.in \in BOOLEAN /\ r.len \in Nat /\ r.data \in Nat
           /\ r.kind \in {"descriptor", "other", "address"}
           /\ r.in => r.len > 0
           /\ ~r.in => r.len = 0 /\ r.data = 0
           /\ r.kind = "address" => ~r.in
           /\ r.kind = "address" <=> r = SetAddress
  <1>1. CASE r \in RequestOf("descriptor", TRUE, Lengths, Lengths)
               \cup RequestOf("other", TRUE, Lengths, Lengths \cup {0})
    <2>1. /\ r.in = TRUE /\ r.kind \in {"descriptor", "other"}
          /\ r.len \in Lengths /\ r.data \in Lengths \cup {0}
      BY <1>1 DEF RequestOf
    <2>2. r.in \in BOOLEAN
      BY <2>1, Zenon
    <2>3. r.len \in Nat /\ r.len > 0 /\ r.data \in Nat
      BY <2>1, ConstantFacts
    <2>4. r # SetAddress
      BY <2>1 DEF SetAddress
    <2>5. r.in
      BY <2>1
    <2> QED
      BY <2>1, <2>2, <2>3, <2>4, <2>5
  <1>2. CASE r \in RequestOf("other", FALSE, {0}, {0})
    <2>1. r.in = FALSE /\ r.kind = "other" /\ r.len = 0 /\ r.data = 0
      BY <1>2 DEF RequestOf
    <2>2. r.in \in BOOLEAN
      BY <2>1, Zenon
    <2> QED
      BY <2>1, <2>2 DEF SetAddress
  <1>3. CASE r = SetAddress
    BY <1>3 DEF SetAddress
  <1> QED
    BY <1>1, <1>2, <1>3 DEF Request

\* The types of the fields of what the driver holds.
LEMMA CtlFacts ==
    ASSUME NEW c \in CtlSet
    PROVE  /\ c.ep \in EpSet /\ c.level \in 0..2 /\ c.sie \in Dir \cup {"setup", "base"}
           /\ c.trans \in TransSet /\ c.buf \in BufSet
           /\ c.out \in {<<>>} \cup {<<p>> : p \in OutSet}
           /\ c.ep.dir \in Dir /\ c.ep.addr \in {0, NewAddress} /\ c.ep.pid \in {0, 1}
           /\ c.ep.mps \in Nat /\ c.ep.mps \in PacketSizes \cup {0}
           /\ c.ep.rem \in Nat /\ c.ep.xfer \in Nat
           /\ c.trans.kind \in Dir \cup {"setup", "none"} /\ c.trans.addr \in {0, NewAddress}
           /\ c.buf.len \in Nat /\ c.buf.pid \in {0, 1}
           /\ c.buf.full \in BOOLEAN /\ c.buf.last \in BOOLEAN
  <1>1. /\ c.ep \in EpSet /\ c.level \in 0..2 /\ c.sie \in Dir \cup {"setup", "base"}
        /\ c.trans \in TransSet /\ c.buf \in BufSet
        /\ c.out \in {<<>>} \cup {<<p>> : p \in OutSet}
    BY DEF CtlSet
  <1>2. /\ c.ep.dir \in Dir /\ c.ep.addr \in {0, NewAddress} /\ c.ep.pid \in {0, 1}
        /\ c.ep.mps \in PacketSizes \cup {0} /\ c.ep.rem \in Nat /\ c.ep.xfer \in Nat
    BY <1>1 DEF EpSet, Pid
  <1>3. c.ep.mps \in Nat
    BY <1>2, ConstantFacts
  <1>4. c.trans.kind \in Dir \cup {"setup", "none"} /\ c.trans.addr \in {0, NewAddress}
    BY <1>1 DEF TransSet
  <1>5. /\ c.buf.len \in Nat /\ c.buf.pid \in {0, 1}
        /\ c.buf.full \in BOOLEAN /\ c.buf.last \in BOOLEAN
    BY <1>1 DEF BufSet, Pid
  <1> QED
    BY <1>1, <1>2, <1>3, <1>4, <1>5

\* The types of the fields of the device.
LEMMA DevFacts ==
    ASSUME NEW d \in DevSet
    PROVE  /\ d.size \in PacketSizes /\ d.size \in Nat \ {0} /\ d.addr \in {0, NewAddress}
           /\ d.left \in Nat /\ d.pid \in {0, 1} /\ d.passed \in Nat
           /\ d.stage \in {"idle", "data", "status", "ack"}
  BY HostControlAssumption DEF DevSet, Pid

-----------------------------------------------------------------------------
(* What the functions of the driver return.                                *)

\* A buffer is started.
LEMMA Started ==
    ASSUME NEW c \in CtlSet
    PROVE  LET e == StartNextBuffer(c)
           IN  /\ e \in CtlSet
               /\ e.ep.dir = c.ep.dir /\ e.ep.addr = c.ep.addr /\ e.ep.mps = c.ep.mps
               /\ e.ep.xfer = c.ep.xfer
               /\ e.ep.rem = c.ep.rem - Least(c.ep.rem, c.ep.mps)
               /\ e.ep.pid = IF Turns(c.ep.rem, c.ep.mps) THEN 1 - c.ep.pid ELSE c.ep.pid
               /\ e.buf.len = c.ep.rem /\ e.buf.pid = c.ep.pid
               /\ (e.buf.full <=> c.ep.dir = "out")
               /\ e.level = c.level /\ e.sie = c.sie /\ e.trans = c.trans /\ e.out = c.out
  <1> DEFINE n == Least(c.ep.rem, c.ep.mps)
             left == c.ep.rem - n
             p == IF Turns(c.ep.rem, c.ep.mps) THEN 1 - c.ep.pid ELSE c.ep.pid
             ep == [c.ep EXCEPT !.rem = left, !.pid = p]
             b == [len |-> c.ep.rem, pid |-> c.ep.pid, full |-> c.ep.dir = "out",
                   last |-> left = 0]
  <1>1. c.ep.rem \in Nat /\ c.ep.mps \in Nat /\ c.ep.pid \in {0, 1} /\ c.ep \in EpSet
    BY CtlFacts
  <1>2. Min({c.ep.rem, c.ep.mps}) = n
    BY <1>1, MinTwo
  <1>3. /\ n \in Nat /\ left \in Nat /\ left + n - 1 = c.ep.rem - 1
        /\ (n = 0 <=> c.ep.rem = 0 \/ c.ep.mps = 0)
    BY <1>1 DEF Least
  <1>4. (n = 0 \/ (1 + (left + n - 1) \div c.ep.mps) % 2 = 1) <=> Turns(c.ep.rem, c.ep.mps)
    BY <1>3 DEF Turns
  <1>5. StartNextBuffer(c) = [c EXCEPT !.ep = ep, !.buf = b]
    <2> DEFINE t == n = 0 \/ (1 + (left + n - 1) \div c.ep.mps) % 2 = 1
    <2>1. StartNextBuffer(c) = [c EXCEPT !.ep.rem = left, !.ep.pid = IF t THEN 1 - @ ELSE @,
                                         !.buf = b]
      BY <1>2 DEF StartNextBuffer
    <2> HIDE DEF t, left, b
    <2>2. (IF t THEN 1 - c.ep.pid ELSE c.ep.pid) = p
      BY <1>4 DEF t, left
    <2> QED
      BY <2>1, <2>2, <1>1 DEF CtlSet, EpSet
  <1>6. p \in Pid
    BY <1>1 DEF Pid
  <1> HIDE DEF p, left, n
  <1>7. /\ ep \in EpSet /\ ep.rem = left /\ ep.pid = p /\ ep.dir = c.ep.dir
        /\ ep.addr = c.ep.addr /\ ep.mps = c.ep.mps /\ ep.xfer = c.ep.xfer
    BY <1>1, <1>3, <1>6 DEF EpSet
  <1>8. /\ b \in BufSet /\ b.len = c.ep.rem /\ b.pid = c.ep.pid
        /\ (b.full <=> c.ep.dir = "out")
    BY <1>1 DEF BufSet, Pid
  <1> HIDE DEF ep, b
  <1>9. LET e == [c EXCEPT !.ep = ep, !.buf = b]
        IN  /\ e \in CtlSet /\ e.ep = ep /\ e.buf = b
            /\ e.level = c.level /\ e.sie = c.sie /\ e.trans = c.trans /\ e.out = c.out
    BY <1>7, <1>8 DEF CtlSet
  <1> QED
    BY <1>5, <1>7, <1>8, <1>9 DEF p, left, n

\* e is c with a transfer of len bytes started on endpoint 0.
Starts(e, c, addr, dir, len) ==
    /\ e \in CtlSet
    /\ e.ep.dir = dir
    /\ e.ep.addr = IF dir = c.ep.dir THEN c.ep.addr ELSE addr
    /\ e.ep.mps = c.ep.mps /\ e.ep.xfer = 0
    /\ e.ep.rem = len - Least(len, c.ep.mps)
    /\ e.buf.pid = IF dir = c.ep.dir THEN c.ep.pid ELSE 1
    /\ e.ep.pid = IF Turns(len, c.ep.mps) THEN 1 - e.buf.pid ELSE e.buf.pid
    /\ e.buf.len = len /\ (e.buf.full <=> dir = "out")
    /\ e.level = c.level /\ e.sie = dir /\ e.out = c.out
    /\ e.trans.kind = dir /\ e.trans.addr = addr

\* A transfer is started on endpoint 0.
LEMMA Transferred ==
    ASSUME NEW c \in CtlSet, NEW addr \in {0, NewAddress}, NEW dir \in Dir, NEW len \in Nat
    PROVE  Starts(EndpointXfer(c, addr, dir, len), c, addr, dir, len)
  <1> DEFINE ep == IF dir = c.ep.dir THEN c.ep ELSE EndpointInit(c.ep, addr, dir)
             started == [ep EXCEPT !.rem = len, !.xfer = 0]
             d == [c EXCEPT !.ep = started]
             s == StartNextBuffer(d)
             t == [kind |-> dir, addr |-> addr]
  <1>1. /\ ep \in EpSet /\ ep.dir = dir /\ ep.mps = c.ep.mps
        /\ ep.addr = IF dir = c.ep.dir THEN c.ep.addr ELSE addr
        /\ ep.pid = IF dir = c.ep.dir THEN c.ep.pid ELSE 1
    BY CtlFacts DEF EndpointInit, EpSet, Pid
  <1> HIDE DEF ep
  <1>2. /\ started \in EpSet /\ started.dir = dir /\ started.mps = c.ep.mps
        /\ started.addr = ep.addr /\ started.pid = ep.pid
        /\ started.rem = len /\ started.xfer = 0
    BY <1>1 DEF EpSet
  <1>3. EndpointXfer(c, addr, dir, len) = [s EXCEPT !.sie = dir, !.trans = t]
    <2>1. [[c EXCEPT !.ep = ep] EXCEPT !.ep.rem = len, !.ep.xfer = 0] = d
      BY <1>1 DEF CtlSet, EpSet
    <2> QED
      BY <2>1 DEF EndpointXfer, XferStart, ep
  <1> HIDE DEF started
  <1>4. /\ d \in CtlSet /\ d.ep = started /\ d.level = c.level /\ d.sie = c.sie
        /\ d.trans = c.trans /\ d.out = c.out
    BY <1>2 DEF CtlSet
  <1> HIDE DEF d
  <1>5. /\ s \in CtlSet
        /\ s.ep.dir = dir /\ s.ep.addr = ep.addr /\ s.ep.mps = c.ep.mps /\ s.ep.xfer = 0
        /\ s.ep.rem = len - Least(len, c.ep.mps)
        /\ s.ep.pid = IF Turns(len, c.ep.mps) THEN 1 - ep.pid ELSE ep.pid
        /\ s.buf.len = len /\ s.buf.pid = ep.pid /\ (s.buf.full <=> dir = "out")
        /\ s.level = c.level /\ s.out = c.out
    BY <1>2, <1>4, Started
  <1> HIDE DEF s
  <1>6. t \in TransSet /\ t.kind = dir /\ t.addr = addr
    BY DEF TransSet
  <1> HIDE DEF t
  <1>7. LET e == [s EXCEPT !.sie = dir, !.trans = t]
        IN  /\ e \in CtlSet /\ e.ep = s.ep /\ e.buf = s.buf /\ e.level = s.level
            /\ e.out = s.out /\ e.sie = dir /\ e.trans = t
    BY <1>5, <1>6 DEF CtlSet
  <1> QED
    BY <1>1, <1>3, <1>5, <1>6, <1>7 DEF Starts

\* A setup packet is sent.
LEMMA Setup ==
    ASSUME NEW c \in CtlSet, NEW addr \in {0, NewAddress}
    PROVE  LET e == SetupSend([c EXCEPT !.level = 0], addr)
           IN  /\ e \in CtlSet
               /\ e.ep.dir = "out" /\ e.ep.addr = addr
               /\ e.ep.mps = c.ep.mps /\ e.ep.xfer = c.ep.xfer
               /\ e.level = 0 /\ e.sie = "setup" /\ e.out = c.out
               /\ e.trans.kind = "setup" /\ e.trans.addr = addr
  <1> DEFINE d == [c EXCEPT !.level = 0]
             ep == [EndpointInit(d.ep, addr, "out") EXCEPT !.rem = SetupLength]
             t == [kind |-> "setup", addr |-> addr]
  <1>1. d \in CtlSet /\ d.ep = c.ep /\ d.level = 0 /\ d.out = c.out
    BY DEF CtlSet
  <1>2. SetupSend(d, addr) = [d EXCEPT !.ep = ep, !.sie = "setup", !.trans = t]
    BY DEF SetupSend, CtlSet
  <1> HIDE DEF d
  <1>3. /\ ep \in EpSet /\ ep.dir = "out" /\ ep.addr = addr
        /\ ep.mps = d.ep.mps /\ ep.xfer = d.ep.xfer
    BY <1>1, CtlFacts DEF EndpointInit, EpSet, Pid, Dir, SetupLength
  <1>4. t \in TransSet /\ t.kind = "setup" /\ t.addr = addr
    BY DEF TransSet
  <1> HIDE DEF ep, t
  <1>5. LET e == [d EXCEPT !.ep = ep, !.sie = "setup", !.trans = t]
        IN  /\ e \in CtlSet /\ e.ep = ep /\ e.level = d.level /\ e.sie = "setup"
            /\ e.trans = t /\ e.out = d.out
    BY <1>1, <1>3, <1>4 DEF CtlSet
  <1> QED
    BY <1>1, <1>2, <1>3, <1>4, <1>5 DEF d

\* A packet has come into the buffer or gone out of it.
LEMMA Synced ==
    ASSUME NEW c \in CtlSet
    PROVE  LET e == SyncBuffer(c)
           IN  /\ e \in CtlSet
               /\ e.ep.dir = c.ep.dir /\ e.ep.addr = c.ep.addr /\ e.ep.mps = c.ep.mps
               /\ e.ep.pid = c.ep.pid /\ e.ep.xfer = c.ep.xfer + c.buf.len
               /\ e.ep.rem = IF c.buf.len < c.ep.mps \/ c.ep.mps = 0 THEN 0 ELSE c.ep.rem
               /\ e.level = c.level /\ e.sie = c.sie /\ e.trans = c.trans
               /\ e.buf = c.buf /\ e.out = c.out
  <1> DEFINE x == c.ep.xfer + c.buf.len
             r == IF c.buf.len < c.ep.mps \/ c.ep.mps = 0 THEN 0 ELSE c.ep.rem
             ep == [c.ep EXCEPT !.xfer = x, !.rem = r]
  <1>1. x \in Nat /\ r \in Nat
    BY CtlFacts
  <1>2. SyncBuffer(c) = [c EXCEPT !.ep = ep]
    BY DEF SyncBuffer, CtlSet, EpSet
  <1> HIDE DEF x, r
  <1>3. /\ ep \in EpSet /\ ep.xfer = x /\ ep.rem = r /\ ep.dir = c.ep.dir
        /\ ep.addr = c.ep.addr /\ ep.mps = c.ep.mps /\ ep.pid = c.ep.pid
    BY <1>1, CtlFacts DEF EpSet
  <1> HIDE DEF ep
  <1>4. LET e == [c EXCEPT !.ep = ep]
        IN  /\ e \in CtlSet /\ e.ep = ep /\ e.level = c.level /\ e.sie = c.sie
            /\ e.trans = c.trans /\ e.buf = c.buf /\ e.out = c.out
    BY <1>3 DEF CtlSet
  <1> QED
    BY <1>2, <1>3, <1>4 DEF x, r

\* The transfer is reset.
LEMMA TransferReset ==
    ASSUME NEW c \in CtlSet
    PROVE  LET e == ResetTransfer(c)
           IN  /\ e \in CtlSet
               /\ e.ep.dir = c.ep.dir /\ e.ep.addr = c.ep.addr /\ e.ep.mps = c.ep.mps
               /\ e.ep.pid = c.ep.pid /\ e.ep.xfer = 0 /\ e.ep.rem = 0
               /\ e.level = c.level /\ e.sie = c.sie /\ e.trans = c.trans
               /\ e.buf = c.buf /\ e.out = c.out
  <1> DEFINE ep == [c.ep EXCEPT !.rem = 0, !.xfer = 0]
  <1>1. ResetTransfer(c) = [c EXCEPT !.ep = ep]
    BY DEF ResetTransfer, CtlSet, EpSet
  <1>2. /\ ep \in EpSet /\ ep.xfer = 0 /\ ep.rem = 0 /\ ep.dir = c.ep.dir
        /\ ep.addr = c.ep.addr /\ ep.mps = c.ep.mps /\ ep.pid = c.ep.pid
    BY CtlFacts DEF EpSet
  <1> HIDE DEF ep
  <1>3. LET e == [c EXCEPT !.ep = ep]
        IN  /\ e \in CtlSet /\ e.ep = ep /\ e.level = c.level /\ e.sie = c.sie
            /\ e.trans = c.trans /\ e.buf = c.buf /\ e.out = c.out
    BY <1>2 DEF CtlSet
  <1> QED
    BY <1>1, <1>2, <1>3

-----------------------------------------------------------------------------
(* The messages.                                                           *)

\* What a message taken from the inbox was.
LEMMA Dequeued ==
    ASSUME InboxInv, NEW type, Dequeue(type)
    PROVE  /\ inbox # <<>> /\ inbox' = <<>>
           /\ type = "reset" => inbox = <<Reset>> /\ ~pending
           /\ type = "packetsize" =>
                 inbox = <<PacketSize(dev.size)>> /\ Head(inbox).size = dev.size /\ ~pending
           /\ type = "address" => pending
           /\ type = "setup" =>
                 /\ pending
                 /\ \E r \in Request : /\ Head(inbox).request = r /\ r.kind # "address"
                                       /\ Fits(r, dev.size)
  <1>1. inbox # <<>> /\ inbox' = Tail(inbox) /\ Head(inbox).type = type
    BY DEF Dequeue
  <1>2. CASE inbox = <<Reset>> /\ ~pending
    <2>1. Head(inbox) = Reset /\ Tail(inbox) = <<>>
      BY <1>2
    <2> QED
      BY <1>1, <1>2, <2>1 DEF Reset
  <1>3. CASE inbox = <<PacketSize(dev.size)>> /\ ~pending
    <2>1. Head(inbox) = PacketSize(dev.size) /\ Tail(inbox) = <<>>
      BY <1>3
    <2> QED
      BY <1>1, <1>3, <2>1 DEF PacketSize
  <1>4. CASE inbox = <<[type |-> "address"]>> /\ pending
    <2>1. Head(inbox) = [type |-> "address"] /\ Tail(inbox) = <<>>
      BY <1>4
    <2> QED
      BY <1>1, <1>4, <2>1
  <1>5. CASE pending /\ \E r \in Request :
                /\ inbox = <<[type |-> "setup", request |-> r]>>
                /\ r.kind # "address" /\ Fits(r, dev.size)
    <2>1. PICK r \in Request : /\ inbox = <<[type |-> "setup", request |-> r]>>
                               /\ r.kind # "address" /\ Fits(r, dev.size)
      BY <1>5
    <2> DEFINE m == [type |-> "setup", request |-> r]
    <2>2. m.type = "setup" /\ m.request = r
      OBVIOUS
    <2> HIDE DEF m
    <2>3. Head(inbox) = m /\ Tail(inbox) = <<>>
      BY <2>1 DEF m
    <2> QED
      BY <1>1, <1>5, <2>1, <2>2, <2>3
  <1> QED
    BY <1>1, <1>2, <1>3, <1>4, <1>5 DEF InboxInv

\* A message other than a packet size finds the slave with nothing under way.
LEMMA QuietAtMessage ==
    ASSUME PhaseInv, inbox # <<>>, inbox # <<PacketSize(dev.size)>>
    PROVE  Quiet
  BY DEF PhaseInv, SetupSent, SetupTaken, Awaited, Come, Stuck, Busy, Acking,
         Acked

\* What the device is after a reset.
LEMMA DeviceReset ==
    ASSUME NEW n \in PacketSizes
    PROVE  LET d == NewDevice(n)
           IN  d \in DevSet /\ d.size = n /\ d.addr = 0 /\ d.stage = "idle"
  BY DEF NewDevice, DevSet, Pid

\* RESET_USB leaves driver and device with nothing under way.
LEMMA ResetUsbKeeps ==
    ASSUME IInv, ResetUsb
    PROVE  IInv'
  <1>1. inbox' = <<>> /\ inbox = <<Reset>> /\ ~pending
    BY Dequeued DEF IInv, ResetUsb
  <1>2. Reset # PacketSize(dev.size)
    BY DEF Reset, PacketSize
  <1>3. Quiet
    <2>1. inbox # <<>> /\ inbox # <<PacketSize(dev.size)>>
      BY <1>1, <1>2
    <2> QED
      BY <2>1, QuietAtMessage DEF IInv
  <1>4. /\ dev' \in DevSet /\ dev'.size = dev.size /\ dev'.addr = 0 /\ dev'.stage = "idle"
    <2>1. dev.size \in PacketSizes
      BY DevFacts DEF IInv, Types
    <2> QED
      BY <2>1, DeviceReset DEF ResetUsb
  <1>5. UNCHANGED <<ctl, setup, buffStatus, transDone, panic, fresh, pending, seen, sent, answer>>
        /\ devAddr' = 0
    BY DEF ResetUsb, history
  <1>6. Types'
    BY <1>4, <1>5 DEF IInv, Types
  <1>7. Quiet'
    BY <1>1, <1>3, <1>4, <1>5 DEF Quiet
  <1> QED
    BY <1>1, <1>5, <1>6, <1>7 DEF IInv, InboxInv, PhaseInv, AnswerIsWhole

\* SETUP_DATA puts the setup packet on its way.
LEMMA SetupDataKeeps ==
    ASSUME IInv, SetupData
    PROVE  IInv'
  <1>1. /\ inbox # <<>> /\ inbox' = <<>> /\ pending
        /\ \E r \in Request : /\ Head(inbox).request = r /\ r.kind # "address"
                              /\ Fits(r, dev.size)
    BY Dequeued DEF IInv, SetupData
  <1>2. setup' \in Request /\ setup'.kind # "address" /\ Fits(setup', dev.size)
    BY <1>1 DEF SetupData
  <1>3. inbox # <<Reset>> /\ inbox # <<PacketSize(dev.size)>>
    <2>1. Head(inbox).type = "setup"
      BY DEF SetupData, Dequeue
    <2> QED
      BY <2>1 DEF Reset, PacketSize
  <1>4. Quiet /\ devAddr = dev.addr
    BY <1>1, <1>3, QuietAtMessage DEF IInv, Quiet
  <1>5. /\ ctl' \in CtlSet
        /\ ctl'.ep.dir = "out" /\ ctl'.ep.addr = devAddr
        /\ ctl'.ep.mps = ctl.ep.mps /\ ctl'.ep.xfer = ctl.ep.xfer
        /\ ctl'.level = 0 /\ ctl'.sie = "setup" /\ ctl'.out = ctl.out
        /\ ctl'.trans.kind = "setup" /\ ctl'.trans.addr = devAddr
    <2>1. ctl \in CtlSet /\ devAddr \in {0, NewAddress}
      BY DEF IInv, Types
    <2>2. ctl' = SetupSend([ctl EXCEPT !.level = 0], devAddr)
      BY DEF SetupData
    <2> QED
      BY <2>1, <2>2, Setup
  <1>6. /\ seen' = FALSE /\ sent' = 0
        /\ UNCHANGED <<devAddr, buffStatus, transDone, panic, dev, fresh, pending, answer>>
    BY DEF SetupData
  <1>7. Types'
    BY <1>2, <1>5, <1>6 DEF IInv, Types
  <1>8. SetupSent'
    <2>1. Busy'
      BY <1>1, <1>2, <1>6 DEF Busy
    <2>2. AddressSet'
      BY <1>2, <1>4, <1>6 DEF AddressSet
    <2> QED
      BY <1>4, <1>5, <1>6, <2>1, <2>2 DEF SetupSent, Quiet
  <1> QED
    BY <1>1, <1>6, <1>7, <1>8 DEF IInv, InboxInv, PhaseInv, AnswerIsWhole

\* CHG_ADDR puts SET_ADDRESS on its way, to the old address.
LEMMA ChangeAddressKeeps ==
    ASSUME IInv, ChangeAddress
    PROVE  IInv'
  <1>1. inbox # <<>> /\ inbox' = <<>> /\ pending
    BY Dequeued DEF IInv, ChangeAddress
  <1>2. setup' = SetAddress /\ setup' \in Request /\ setup'.kind = "address" /\ ~setup'.in
    BY DEF ChangeAddress, Request, SetAddress
  <1>3. inbox # <<Reset>> /\ inbox # <<PacketSize(dev.size)>>
    <2>1. Head(inbox).type = "address"
      BY DEF ChangeAddress, Dequeue
    <2> QED
      BY <2>1 DEF Reset, PacketSize
  <1>4. Quiet /\ devAddr = dev.addr
    BY <1>1, <1>3, QuietAtMessage DEF IInv, Quiet
  <1>5. /\ ctl' \in CtlSet
        /\ ctl'.ep.dir = "out" /\ ctl'.ep.addr = devAddr
        /\ ctl'.ep.mps = ctl.ep.mps /\ ctl'.ep.xfer = ctl.ep.xfer
        /\ ctl'.level = 0 /\ ctl'.sie = "setup" /\ ctl'.out = ctl.out
        /\ ctl'.trans.kind = "setup" /\ ctl'.trans.addr = devAddr
    <2>1. ctl \in CtlSet /\ devAddr \in {0, NewAddress}
      BY DEF IInv, Types
    <2>2. ctl' = SetupSend([ctl EXCEPT !.level = 0], devAddr)
      BY DEF ChangeAddress
    <2> QED
      BY <2>1, <2>2, Setup
  <1>6. /\ seen' = FALSE /\ sent' = 0 /\ devAddr' = NewAddress
        /\ UNCHANGED <<buffStatus, transDone, panic, dev, fresh, pending, answer>>
    BY DEF ChangeAddress
  <1>7. Types'
    BY <1>2, <1>5, <1>6 DEF IInv, Types
  <1>8. SetupSent'
    <2>1. Busy'
      BY <1>1, <1>2, <1>6 DEF Busy, Fits, Exact
    <2>2. AddressSet'
      BY <1>2, <1>6 DEF AddressSet
    <2> QED
      BY <1>4, <1>5, <1>6, <2>1, <2>2 DEF SetupSent, Quiet
  <1> QED
    BY <1>1, <1>6, <1>7, <1>8 DEF IInv, InboxInv, PhaseInv, AnswerIsWhole

\* CHG_EPX_PACKETSIZE makes the packet size known, between requests.
LEMMA ChangePacketSizeKeeps ==
    ASSUME IInv, ChangePacketSize
    PROVE  IInv'
  <1> DEFINE size == Head(inbox).size
             ep == [ctl.ep EXCEPT !.mps = size]
  <1>1. /\ inbox # <<>> /\ inbox' = <<>> /\ ~pending
        /\ inbox = <<PacketSize(dev.size)>> /\ size = dev.size
    BY Dequeued DEF IInv, ChangePacketSize
  <1>2. ctl \in CtlSet /\ dev.size \in PacketSizes /\ ctl.ep.xfer = 0 /\ ctl.out = <<>>
    BY DevFacts DEF IInv, Types
  <1> HIDE DEF size
  <1>3. /\ ep \in EpSet /\ ep.mps = dev.size /\ ep.dir = ctl.ep.dir
        /\ ep.xfer = ctl.ep.xfer
    BY <1>1, <1>2, CtlFacts DEF EpSet
  <1>4. ctl' = [ctl EXCEPT !.ep = ep]
    BY <1>2 DEF ChangePacketSize, CtlSet, EpSet, size
  <1> HIDE DEF ep
  <1>5. /\ ctl' \in CtlSet /\ ctl'.ep = ep /\ ctl'.level = ctl.level /\ ctl'.sie = ctl.sie
        /\ ctl'.trans = ctl.trans /\ ctl'.buf = ctl.buf /\ ctl'.out = ctl.out
    BY <1>2, <1>3, <1>4 DEF CtlSet
  <1>6. UNCHANGED <<setup, devAddr, buffStatus, transDone, panic, dev, fresh, pending,
                    seen, sent, answer>>
    BY DEF ChangePacketSize, history
  <1>7. Types'
    BY <1>2, <1>3, <1>5, <1>6 DEF IInv, Types
  <1>8. Quiet \/ Acking \/ Acked
    BY <1>1 DEF IInv, PhaseInv, SetupSent, SetupTaken, Awaited, Come, Stuck, Busy
  <1>9. Quiet => Quiet'
    BY <1>1, <1>5, <1>6 DEF Quiet, Reset, PacketSize
  <1>10. Acking => Acking'
    BY <1>1, <1>3, <1>5, <1>6 DEF Acking
  <1>11. Acked => Acked'
    BY <1>1, <1>3, <1>5, <1>6 DEF Acked
  <1> QED
    BY <1>1, <1>6, <1>7, <1>8, <1>9, <1>10, <1>11 DEF IInv, InboxInv, PhaseInv, AnswerIsWhole

\* When the master's host may go on, nothing is under way.
LEMMA QuietAtRequest ==
    ASSUME Orderly, IInv, MayRequest
    PROVE  Quiet /\ inbox = <<>> /\ ~pending /\ devAddr = dev.addr
  <1>1. /\ inbox = <<>> /\ ~pending
        /\ ctl.trans.kind = "none" /\ ~buffStatus
    BY DEF MayRequest, Orderly, NoTrans
  <1>2. Quiet
    BY <1>1 DEF IInv, PhaseInv, SetupSent, SetupTaken, Awaited, Come, Stuck, Acking, Acked,
                   Busy
  <1>3. inbox # <<Reset>>
    BY <1>1
  <1> QED
    BY <1>1, <1>2, <1>3 DEF Quiet

\* The master's host sends a request.
LEMMA NewRequestKeeps ==
    ASSUME Orderly, IInv, NEW r \in Request, NewRequest(r)
    PROVE  IInv'
  <1>1. Quiet /\ devAddr = dev.addr
    BY QuietAtRequest DEF NewRequest
  <1>2. /\ pending' = TRUE
        /\ inbox' = IF r = SetAddress THEN <<[type |-> "address"]>>
                    ELSE <<[type |-> "setup", request |-> r]>>
        /\ UNCHANGED <<ctl, setup, devAddr, buffStatus, transDone, panic, dev, fresh,
                       seen, sent, answer>>
    BY DEF NewRequest, hostVars, history
  <1>3. Fits(r, dev.size)
    BY DEF NewRequest, Fits
  <1>4. r # SetAddress => r.kind # "address"
    BY RequestFacts
  <1>5. InboxInv'
    BY <1>2, <1>3, <1>4 DEF InboxInv
  <1>6. Types'
    BY <1>2 DEF IInv, Types
  <1>7. Quiet'
    BY <1>1, <1>2 DEF Quiet
  <1> QED
    BY <1>2, <1>5, <1>6, <1>7 DEF IInv, PhaseInv, AnswerIsWhole

\* The master's host resets the bus.
LEMMA NewResetKeeps ==
    ASSUME Orderly, IInv, NewReset
    PROVE  IInv'
  <1>1. Quiet /\ ~pending
    BY QuietAtRequest DEF NewReset
  <1>2. /\ inbox' = <<Reset>> /\ fresh' = TRUE
        /\ UNCHANGED <<ctl, setup, devAddr, buffStatus, transDone, panic, dev, pending,
                       seen, sent, answer>>
    BY DEF NewReset, Reset, hostVars, history
  <1>3. Types'
    BY <1>2 DEF IInv, Types
  <1>4. Quiet'
    BY <1>1, <1>2 DEF Quiet
  <1> QED
    BY <1>1, <1>2, <1>3, <1>4 DEF IInv, InboxInv, PhaseInv, AnswerIsWhole

\* A device of the same packet size takes the place of the old one.
LEMMA SwapKeeps ==
    ASSUME Orderly, IInv, Swap
    PROVE  IInv'
  <1>1. Quiet /\ ~pending
    BY QuietAtRequest DEF Swap
  <1>2. /\ inbox' = <<Reset>> /\ fresh' = TRUE
        /\ UNCHANGED <<ctl, setup, devAddr, buffStatus, transDone, panic, pending,
                       seen, sent, answer>>
    BY DEF Swap, Reset, hostVars, history
  <1>3. dev' = NewDevice(dev.size)
    BY DEF Swap, Orderly
  <1>4. /\ dev' \in DevSet /\ dev'.size = dev.size /\ dev'.addr = 0 /\ dev'.stage = "idle"
    <2>1. dev.size \in PacketSizes
      BY DevFacts DEF IInv, Types
    <2> QED
      BY <1>3, <2>1, DeviceReset
  <1>5. Types'
    BY <1>2, <1>4 DEF IInv, Types
  <1>6. Quiet'
    BY <1>1, <1>2, <1>4 DEF Quiet
  <1> QED
    BY <1>1, <1>2, <1>5, <1>6 DEF IInv, InboxInv, PhaseInv, AnswerIsWhole

-----------------------------------------------------------------------------
(* The device.                                                             *)

\* The controller has carried out a transaction: the buffer is b.
LEMMA TransactionOver ==
    ASSUME NEW c \in CtlSet, NEW b \in BufSet
    PROVE  LET e == [c EXCEPT !.trans = NoTrans, !.buf = b]
           IN  /\ e \in CtlSet /\ e.trans.kind = "none" /\ e.buf = b
               /\ e.ep = c.ep /\ e.level = c.level /\ e.sie = c.sie /\ e.out = c.out
  <1>1. NoTrans \in TransSet /\ NoTrans.kind = "none"
    BY DEF NoTrans, TransSet
  <1> QED
    BY <1>1 DEF CtlSet

\* What the device has to answer.
LEMMA WholeFacts ==
    ASSUME setup \in Request
    PROVE  Whole \in Nat /\ Min({setup.len, setup.data}) = Whole
  BY RequestFacts, MinTwo DEF Whole, Least

\* The device receives the setup packet.
LEMMA DeviceSetupKeeps ==
    ASSUME IInv, DeviceSetup
    PROVE  IInv'
  <1> DEFINE stage == IF setup.in THEN "data" ELSE "status"
  <1>1. SetupSent
    <2>1. ctl.trans.kind = "setup"
      BY DEF DeviceSetup, Answers
    <2> QED
      BY <2>1 DEF IInv, PhaseInv, Quiet, SetupTaken, Awaited, Come, Stuck, Acking, Acked
  <1>2. /\ transDone' = TRUE /\ seen' = TRUE
        /\ UNCHANGED <<setup, devAddr, buffStatus, panic, inbox, fresh, pending, sent, answer>>
    BY DEF DeviceSetup, masterVars
  <1>3. ctl \in CtlSet /\ dev \in DevSet /\ setup \in Request
    BY DEF IInv, Types
  <1>4. /\ ctl' \in CtlSet /\ ctl'.trans.kind = "none" /\ ctl'.buf = ctl.buf
        /\ ctl'.ep = ctl.ep /\ ctl'.level = ctl.level /\ ctl'.sie = ctl.sie
        /\ ctl'.out = ctl.out
    <2>1. ctl' = [ctl EXCEPT !.trans = NoTrans] /\ ctl.buf \in BufSet
      BY <1>3, CtlFacts DEF DeviceSetup
    <2>2. NoTrans \in TransSet /\ NoTrans.kind = "none"
      BY DEF NoTrans, TransSet
    <2> QED
      BY <1>3, <2>1, <2>2 DEF CtlSet
  <1>5. Whole \in Nat /\ Whole' = Whole
    BY <1>2, <1>3, WholeFacts DEF Whole
  <1>6. /\ dev' \in DevSet /\ dev'.stage = stage /\ dev'.left = Whole /\ dev'.pid = 1
        /\ dev'.passed = 0 /\ dev'.size = dev.size /\ dev'.addr = dev.addr
    <2>1. dev' = [dev EXCEPT !.stage = stage, !.left = Whole, !.pid = 1, !.passed = 0]
      BY <1>3, WholeFacts DEF DeviceSetup
    <2>2. stage \in {"idle", "data", "status", "ack"}
      OBVIOUS
    <2> HIDE DEF stage
    <2> QED
      BY <1>3, <1>5, <2>1, <2>2 DEF DevSet, Pid
  <1>7. Types'
    BY <1>2, <1>4, <1>6 DEF IInv, Types
  <1>8. SetupTaken'
    <2>1. Busy' /\ AddressSet'
      BY <1>1, <1>2, <1>6 DEF SetupSent, Busy, AddressSet, Fits, Exact
    <2> QED
      BY <1>1, <1>2, <1>4, <1>5, <1>6, <2>1 DEF SetupSent, SetupTaken
  <1>9. InboxInv'
    BY <1>1, <1>2 DEF SetupSent, Busy, InboxInv
  <1> QED
    BY <1>2, <1>7, <1>8, <1>9 DEF IInv, PhaseInv, AnswerIsWhole

\* The device sends a packet.
LEMMA DeviceInKeeps ==
    ASSUME IInv, DeviceIn
    PROVE  IInv'
  <1> DEFINE n == Least(dev.left, dev.size)
             over == dev.stage = "data" /\ (n < dev.size \/ dev.passed + n = setup.len)
             stage == IF dev.stage = "status" THEN "idle" ELSE IF over THEN "ack" ELSE "data"
             addr == IF dev.stage = "status" /\ setup.kind = "address"
                     THEN NewAddress ELSE dev.addr
             b == [ctl.buf EXCEPT !.len = n, !.full = TRUE]
  <1>1. Awaited
    <2>1. ctl.trans.kind = "in" /\ dev.stage # "ack"
      BY DEF DeviceIn, Answers
    <2> QED
      BY <2>1 DEF IInv, PhaseInv, Quiet, SetupSent, SetupTaken, Come, Stuck, Acking, Acked
  <1>2. ctl \in CtlSet /\ dev \in DevSet /\ setup \in Request /\ sent \in Nat
    BY DEF IInv, Types
  <1>3. /\ dev.left \in Nat /\ dev.size \in Nat \ {0} /\ dev.pid \in {0, 1}
        /\ dev.passed \in Nat /\ dev.addr \in {0, NewAddress}
        /\ Min({dev.left, dev.size}) = n /\ n \in Nat /\ n <= dev.left
    BY <1>2, DevFacts, MinTwo DEF Least
  <1>4. buffStatus' = TRUE /\ transDone' \in BOOLEAN /\ panic' = FALSE
    <2>1. ctl.buf.pid = dev.pid /\ transDone \in BOOLEAN /\ panic = FALSE
      BY <1>1 DEF Awaited, IInv, Types
    <2>2. ctl.buf.last \in BOOLEAN
      BY <1>2, CtlFacts
    <2>3. /\ buffStatus' = TRUE /\ transDone' = (transDone \/ ctl.buf.last)
          /\ panic' = (panic \/ ctl.buf.pid # dev.pid)
      BY DEF DeviceIn
    <2> QED
      BY <2>1, <2>2, <2>3
  <1>5. UNCHANGED <<setup, devAddr, inbox, fresh, pending, seen, sent, answer>>
    BY DEF DeviceIn, masterVars, history
  <1>6. /\ dev' = [dev EXCEPT !.left = dev.left - n, !.pid = 1 - dev.pid,
                              !.passed = dev.passed + n, !.stage = stage, !.addr = addr]
        /\ ctl' = [ctl EXCEPT !.trans = NoTrans, !.buf = b]
    <2>1. /\ dev' = [dev EXCEPT !.left = @ - n, !.pid = 1 - @, !.passed = @ + n,
                                !.stage = IF @ = "status" THEN "idle"
                                          ELSE IF over THEN "ack" ELSE "data",
                                !.addr = IF dev.stage = "status" /\ setup.kind = "address"
                                         THEN NewAddress ELSE @]
          /\ ctl' = [ctl EXCEPT !.trans = NoTrans, !.buf.len = n, !.buf.full = TRUE]
      BY <1>3 DEF DeviceIn
    <2> HIDE DEF n, over
    <2> QED
      BY <1>2, <2>1 DEF DevSet, CtlSet, BufSet
  <1>7. stage \in {"idle", "data", "status", "ack"} /\ addr \in {0, NewAddress}
    BY <1>3
  <1> HIDE DEF n
  <1>8. /\ b \in BufSet /\ b.len = n /\ b.full /\ b.pid = ctl.buf.pid
    BY <1>2, <1>3, CtlFacts DEF BufSet
  <1> HIDE DEF b, stage, addr, over
  <1>9. /\ ctl' \in CtlSet /\ ctl'.trans.kind = "none" /\ ctl'.buf = b
        /\ ctl'.ep = ctl.ep /\ ctl'.level = ctl.level /\ ctl'.sie = ctl.sie
        /\ ctl'.out = ctl.out
    BY <1>2, <1>6, <1>8, TransactionOver
  <1>10. /\ dev' \in DevSet /\ dev'.left = dev.left - n /\ dev'.pid = 1 - dev.pid
         /\ dev'.passed = dev.passed + n /\ dev'.stage = stage /\ dev'.addr = addr
         /\ dev'.size = dev.size
    <2> DEFINE l == dev.left - n
               p == dev.passed + n
               q == 1 - dev.pid
    <2>1. l \in Nat /\ p \in Nat /\ q \in Pid
      BY <1>3 DEF Pid
    <2>2. dev' = [dev EXCEPT !.left = l, !.pid = q, !.passed = p, !.stage = stage,
                             !.addr = addr]
      BY <1>6
    <2> HIDE DEF l, p, q
    <2>3. dev' \in DevSet /\ dev'.left = l /\ dev'.pid = q /\ dev'.passed = p
          /\ dev'.stage = stage /\ dev'.addr = addr /\ dev'.size = dev.size
      BY <1>2, <1>7, <2>1, <2>2 DEF DevSet
    <2> QED
      BY <2>3 DEF l, p, q
  <1>11. Types'
    BY <1>4, <1>5, <1>9, <1>10 DEF IInv, Types
  <1>12. Busy'
    BY <1>1, <1>5, <1>10 DEF Awaited, Busy, Fits, Exact
  <1>13. devAddr' = dev'.addr
    <2>1. dev.stage = "status" <=> ~setup.in
      BY <1>1 DEF Awaited
    <2>2. setup.kind = "address" => ~setup.in
      BY <1>2, RequestFacts
    <2> QED
      BY <1>1, <1>5, <1>10, <2>1, <2>2 DEF Awaited, AddressSet, addr
  <1>14. Offered'
    <2>1. AskedFor' = AskedFor /\ Whole' = Whole
      BY <1>5 DEF AskedFor, Whole
    <2>2. ctl'.buf.pid = ctl.buf.pid
      BY <1>8, <1>9
    <2> QED
      BY <1>1, <1>5, <1>9, <1>10, <2>1, <2>2 DEF Awaited, Offered
  <1>15. /\ dev'.pid = 1 - ctl'.buf.pid /\ ctl'.buf.full
         /\ ctl'.buf.len = Least(Whole' - sent', dev'.size)
    <2>1. dev.left = Whole - sent /\ ctl.buf.pid = dev.pid
      BY <1>1 DEF Awaited
    <2>2. Whole' = Whole /\ sent' = sent
      BY <1>5 DEF Whole
    <2> QED
      BY <1>8, <1>9, <1>10, <2>1, <2>2 DEF n
  <1>16. setup'.in =>
            /\ ctl'.ep.addr = dev'.addr
            /\ dev'.left = Whole' - (sent' + ctl'.buf.len)
            /\ dev'.passed = sent' + ctl'.buf.len
            /\ dev'.stage = IF ctl'.buf.len < dev'.size \/ dev'.passed = setup'.len
                            THEN "ack" ELSE "data"
    <2> SUFFICES ASSUME setup.in
                 PROVE  /\ ctl.ep.addr = addr
                        /\ dev.left - n = Whole - (sent + n)
                        /\ dev.passed + n = sent + n
                        /\ stage = IF n < dev.size \/ dev.passed + n = setup.len
                                   THEN "ack" ELSE "data"
      BY <1>5, <1>8, <1>9, <1>10 DEF Whole
    <2>1. dev.stage = "data" /\ dev.left = Whole - sent /\ dev.passed = sent
          /\ ctl.ep.addr = dev.addr
      BY <1>1 DEF Awaited
    <2>2. Whole \in Nat
      BY <1>2, WholeFacts
    <2> QED
      BY <1>2, <1>3, <2>1, <2>2 DEF stage, over, addr
  <1>17. ~setup'.in => dev'.stage = "idle"
    BY <1>1, <1>5, <1>10 DEF Awaited, stage
  <1>18. Come'
    BY <1>4, <1>9, <1>12, <1>13, <1>14, <1>15, <1>16, <1>17 DEF Come
  <1>19. InboxInv'
    BY <1>12 DEF Busy, InboxInv
  <1> QED
    BY <1>5, <1>11, <1>18, <1>19 DEF IInv, PhaseInv, AnswerIsWhole

\* The device receives the empty packet of the status stage.
LEMMA DeviceOutKeeps ==
    ASSUME IInv, DeviceOut
    PROVE  IInv'
  <1> DEFINE b == [ctl.buf EXCEPT !.full = FALSE]
  <1>1. Acking
    <2>1. ctl.trans.kind = "out"
      BY DEF DeviceOut, Answers
    <2> QED
      BY <2>1 DEF IInv, PhaseInv, Quiet, SetupSent, SetupTaken, Awaited, Come, Stuck, Acked
  <1>2. ctl \in CtlSet /\ dev \in DevSet
    BY DEF IInv, Types
  <1>3. buffStatus' = TRUE /\ transDone' \in BOOLEAN
    <2>1. ctl.buf.last \in BOOLEAN
      BY <1>2, CtlFacts
    <2>2. buffStatus' = TRUE /\ transDone' = (transDone \/ ctl.buf.last)
      BY DEF DeviceOut
    <2>3. transDone \in BOOLEAN
      BY DEF IInv, Types
    <2> QED
      BY <2>1, <2>2, <2>3
  <1>4. UNCHANGED <<setup, devAddr, panic, inbox, fresh, pending, seen, sent, answer>>
    BY DEF DeviceOut, masterVars, history
  <1>5. b \in BufSet /\ b.len = ctl.buf.len /\ ~b.full
    BY <1>2, CtlFacts DEF BufSet
  <1>6. ctl' = [ctl EXCEPT !.trans = NoTrans, !.buf = b]
    BY <1>2 DEF DeviceOut, CtlSet, BufSet
  <1> HIDE DEF b
  <1>7. /\ ctl' \in CtlSet /\ ctl'.trans.kind = "none" /\ ctl'.buf = b
        /\ ctl'.ep = ctl.ep /\ ctl'.level = ctl.level /\ ctl'.sie = ctl.sie
        /\ ctl'.out = ctl.out
    BY <1>2, <1>5, <1>6, TransactionOver
  <1>8. /\ dev' \in DevSet /\ dev'.stage = "idle" /\ dev'.size = dev.size
        /\ dev'.addr = dev.addr
    BY <1>2 DEF DeviceOut, DevSet
  <1>9. Types'
    BY <1>3, <1>4, <1>7, <1>8 DEF IInv, Types
  <1>10. Acked'
    BY <1>1, <1>3, <1>4, <1>5, <1>7, <1>8 DEF Acking, Acked
  <1>11. InboxInv'
    BY <1>4, <1>8 DEF IInv, InboxInv
  <1> QED
    BY <1>4, <1>9, <1>10, <1>11 DEF IInv, PhaseInv, AnswerIsWhole

-----------------------------------------------------------------------------
(* hcd_event_xfer_complete, stage by stage.                                *)

Passing(c, p) == [c EXCEPT !.out = Append(@, p)]
AtStage(c, level) == [c EXCEPT !.level = level]

\* A packet is handed to the master.
LEMMA Passes ==
    ASSUME NEW c \in CtlSet, c.out = <<>>, NEW p \in OutSet
    PROVE  LET e == Passing(c, p)
           IN  /\ e \in CtlSet /\ e.out = <<p>>
               /\ e.ep = c.ep /\ e.level = c.level /\ e.sie = c.sie
               /\ e.trans = c.trans /\ e.buf = c.buf
  <1>1. Append(c.out, p) = <<p>>
    OBVIOUS
  <1>2. Passing(c, p) = [c EXCEPT !.out = <<p>>]
    BY <1>1 DEF Passing, CtlSet
  <1> DEFINE o == <<p>>
  <1>3. o \in {<<>>} \cup {<<q>> : q \in OutSet}
    OBVIOUS
  <1> HIDE DEF o
  <1>4. LET e == [c EXCEPT !.out = o]
        IN  /\ e \in CtlSet /\ e.out = o
            /\ e.ep = c.ep /\ e.level = c.level /\ e.sie = c.sie
            /\ e.trans = c.trans /\ e.buf = c.buf
    BY <1>3 DEF CtlSet
  <1> QED
    BY <1>2, <1>4 DEF o

\* The stage changes.
LEMMA Stage ==
    ASSUME NEW c \in CtlSet, NEW l \in 0..2
    PROVE  LET e == AtStage(c, l)
           IN  /\ e \in CtlSet /\ e.level = l
               /\ e.ep = c.ep /\ e.out = c.out /\ e.sie = c.sie
               /\ e.trans = c.trans /\ e.buf = c.buf
  BY DEF AtStage, CtlSet

\* The setup packet has been received: the first buffer is offered, with DATA1.
LEMMA AfterSetup ==
    ASSUME NEW c \in CtlSet, setup \in Request, c.sie = "setup", c.level = 0, c.ep.dir = "out"
    PROVE  LET e == TransComplete(c)
           IN  /\ e \in CtlSet /\ e.out = c.out
               /\ e.level = 1 /\ e.sie = "in" /\ e.ep.dir = "in" /\ e.ep.addr = c.ep.addr
               /\ e.trans.kind = "in" /\ e.trans.addr = c.ep.addr
               /\ e.ep.mps = c.ep.mps /\ e.ep.xfer = 0 /\ e.buf.pid = 1
               /\ e.ep.rem = AskedFor - Least(AskedFor, c.ep.mps)
               /\ e.ep.pid = IF Turns(AskedFor, c.ep.mps) THEN 1 - e.buf.pid ELSE e.buf.pid
  <1> DEFINE r == ResetTransfer(c)
             s == AtStage(r, 1)
  <1>1. /\ r \in CtlSet /\ r.ep.dir = "out" /\ r.ep.addr = c.ep.addr
        /\ r.ep.mps = c.ep.mps /\ r.level = 0 /\ r.out = c.out
    BY TransferReset
  <1>2. TransComplete(c) = EndpointXfer(s, r.ep.addr, "in", AskedFor)
    <2>1. TransComplete(c) = XferEvent(r, c.ep.xfer, TRUE)
      BY DEF TransComplete, XferComplete
    <2> HIDE DEF r
    <2>2. XferEvent(r, c.ep.xfer, TRUE) = EndpointXfer(s, r.ep.addr, "in", AskedFor)
      BY <1>1 DEF XferEvent, AskedFor, AtStage
    <2> QED
      BY <2>1, <2>2
  <1> HIDE DEF r
  <1>3. s \in CtlSet /\ s.ep = r.ep /\ s.out = r.out /\ s.level = 1
    BY <1>1, Stage
  <1> HIDE DEF s
  <1>4. AskedFor \in Nat /\ r.ep.addr \in {0, NewAddress} /\ "in" \in Dir
    BY <1>1, CtlFacts, RequestFacts, ConstantFacts DEF AskedFor, Dir
  <1> DEFINE e == EndpointXfer(s, r.ep.addr, "in", AskedFor)
  <1>5. /\ e \in CtlSet /\ e.out = s.out
        /\ e.level = s.level /\ e.sie = "in" /\ e.ep.dir = "in" /\ e.ep.addr = r.ep.addr
        /\ e.trans.kind = "in" /\ e.trans.addr = r.ep.addr
        /\ e.ep.mps = s.ep.mps /\ e.ep.xfer = 0 /\ e.buf.pid = 1
        /\ e.ep.rem = AskedFor - Least(AskedFor, s.ep.mps)
        /\ e.ep.pid = IF Turns(AskedFor, s.ep.mps) THEN 1 - e.buf.pid ELSE e.buf.pid
    <2>1. s.ep.dir # "in"
      BY <1>1, <1>3
    <2>2. Starts(e, s, r.ep.addr, "in", AskedFor)
      BY <1>3, <1>4, Transferred
    <2> HIDE DEF e
    <2> QED
      BY <2>1, <2>2 DEF Starts
  <1> HIDE DEF e
  <1> QED
    BY <1>1, <1>2, <1>3, <1>5 DEF e

\* The last packet of an answer has come: the empty packet is offered.
LEMMA AfterLast ==
    ASSUME NEW c \in CtlSet, setup \in Request, setup.in,
           c.level = 1, c.out = <<>>, c.ep.dir = "in", c.ep.xfer = 0,
           SyncBuffer(c).ep.rem = 0
    PROVE  LET e == BuffStatus(c)
           IN  /\ e \in CtlSet /\ e.out = <<[len |-> c.buf.len, last |-> TRUE]>>
               /\ e.level = 2 /\ e.sie = "out" /\ e.ep.dir = "out"
               /\ e.trans.kind = "out" /\ e.trans.addr = c.ep.addr
               /\ e.ep.mps = c.ep.mps /\ e.ep.xfer = 0 /\ e.buf.len = 0
  <1> DEFINE s == SyncBuffer(c)
             r == ResetTransfer(s)
             p == [len |-> s.ep.xfer, last |-> TRUE]
             q == Passing(r, p)
             t == AtStage(q, 2)
  <1>1. /\ s \in CtlSet /\ s.ep.addr = c.ep.addr /\ s.ep.mps = c.ep.mps /\ s.ep.dir = "in"
        /\ s.ep.xfer = c.buf.len /\ s.level = 1 /\ s.out = <<>> /\ s.ep.rem = 0
        /\ c.buf.len \in Nat
    BY Synced, CtlFacts
  <1>2. BuffStatus(c) = XferEvent(r, s.ep.xfer, TRUE)
    BY <1>1 DEF BuffStatus, XferComplete
  <1> HIDE DEF s
  <1>3. /\ r \in CtlSet /\ r.ep.addr = c.ep.addr /\ r.ep.mps = c.ep.mps /\ r.ep.dir = "in"
        /\ r.level = 1 /\ r.out = <<>>
    BY <1>1, TransferReset
  <1> HIDE DEF r
  <1>4. XferEvent(r, s.ep.xfer, TRUE) = EndpointXfer(t, r.ep.addr, "out", 0)
    BY <1>3 DEF XferEvent, Passing, AtStage
  <1>5. p \in OutSet /\ p = [len |-> c.buf.len, last |-> TRUE]
    BY <1>1 DEF OutSet
  <1> HIDE DEF p
  <1>6. q \in CtlSet /\ q.out = <<p>> /\ q.ep = r.ep
    BY <1>3, <1>5, Passes
  <1> HIDE DEF q
  <1>7. t \in CtlSet /\ t.out = <<p>> /\ t.ep = r.ep /\ t.level = 2
    BY <1>6, Stage
  <1> HIDE DEF t
  <1>8. r.ep.addr \in {0, NewAddress} /\ "out" \in Dir /\ 0 \in Nat
    BY <1>3, CtlFacts DEF Dir
  <1> DEFINE e == EndpointXfer(t, r.ep.addr, "out", 0)
  <1>9. /\ e \in CtlSet /\ e.out = t.out
        /\ e.level = t.level /\ e.sie = "out" /\ e.ep.dir = "out"
        /\ e.trans.kind = "out" /\ e.trans.addr = r.ep.addr
        /\ e.ep.mps = t.ep.mps /\ e.ep.xfer = 0 /\ e.buf.len = 0
    <2>1. Starts(e, t, r.ep.addr, "out", 0)
      BY <1>7, <1>8, Transferred
    <2> HIDE DEF e
    <2> QED
      BY <2>1 DEF Starts
  <1> HIDE DEF e
  <1> QED
    BY <1>2, <1>3, <1>4, <1>5, <1>7, <1>9 DEF e

\* The status stage of a request without data is over.
LEMMA AfterStatus ==
    ASSUME NEW c \in CtlSet, setup \in Request, ~setup.in,
           c.level = 1, c.out = <<>>, c.ep.xfer = 0,
           SyncBuffer(c).ep.rem = 0
    PROVE  LET e == BuffStatus(c)
           IN  /\ e \in CtlSet /\ e.out = <<[len |-> c.buf.len, last |-> TRUE]>>
               /\ e.level = 2 /\ e.sie = c.sie /\ e.trans = c.trans
               /\ e.ep.mps = c.ep.mps /\ e.ep.xfer = 0
  <1> DEFINE s == SyncBuffer(c)
             r == ResetTransfer(s)
             p == [len |-> s.ep.xfer, last |-> TRUE]
             q == Passing(r, p)
             t == AtStage(q, 2)
  <1>1. /\ s \in CtlSet /\ s.ep.mps = c.ep.mps /\ s.sie = c.sie /\ s.trans = c.trans
        /\ s.ep.xfer = c.buf.len /\ s.level = 1 /\ s.out = <<>> /\ s.ep.rem = 0
        /\ c.buf.len \in Nat
    BY Synced, CtlFacts
  <1>2. BuffStatus(c) = XferEvent(r, s.ep.xfer, TRUE)
    BY <1>1 DEF BuffStatus, XferComplete
  <1> HIDE DEF s
  <1>3. /\ r \in CtlSet /\ r.ep.mps = c.ep.mps /\ r.ep.xfer = 0
        /\ r.level = 1 /\ r.out = <<>> /\ r.sie = c.sie /\ r.trans = c.trans
    BY <1>1, TransferReset
  <1> HIDE DEF r
  <1>4. XferEvent(r, s.ep.xfer, TRUE) = t
    BY <1>3 DEF XferEvent, Passing, AtStage
  <1>5. p \in OutSet /\ p = [len |-> c.buf.len, last |-> TRUE]
    BY <1>1 DEF OutSet
  <1> HIDE DEF p
  <1>6. q \in CtlSet /\ q.out = <<p>> /\ q.ep = r.ep /\ q.sie = r.sie /\ q.trans = r.trans
    BY <1>3, <1>5, Passes
  <1> HIDE DEF q
  <1>7. /\ t \in CtlSet /\ t.out = <<p>> /\ t.ep = r.ep /\ t.level = 2
        /\ t.sie = r.sie /\ t.trans = r.trans
    BY <1>6, Stage
  <1> QED
    BY <1>2, <1>3, <1>4, <1>5, <1>7

\* A packet in the middle of an answer has come: the next buffer is offered, with
\* the PID that two starts have left.
LEMMA AfterMiddle ==
    ASSUME NEW c \in CtlSet, setup \in Request,
           c.level = 1, c.out = <<>>, c.ep.dir = "in", c.ep.xfer = 0,
           SyncBuffer(c).ep.rem # 0
    PROVE  LET e == BuffStatus(c)
           IN  /\ e \in CtlSet /\ e.out = <<[len |-> c.buf.len, last |-> FALSE]>>
               /\ e.level = 1 /\ e.sie = "in" /\ e.ep.dir = "in" /\ e.ep.addr = c.ep.addr
               /\ e.trans.kind = "in" /\ e.trans.addr = c.ep.addr
               /\ e.ep.mps = c.ep.mps /\ e.ep.xfer = 0
               /\ e.buf.pid = IF Turns(c.ep.rem, c.ep.mps) THEN 1 - c.ep.pid ELSE c.ep.pid
               /\ e.ep.rem = AskedFor - Least(AskedFor, c.ep.mps)
               /\ e.ep.pid = IF Turns(AskedFor, c.ep.mps) THEN 1 - e.buf.pid ELSE e.buf.pid
  <1> DEFINE s == SyncBuffer(c)
             r == StartNextBuffer(s)
             p == [len |-> r.ep.xfer, last |-> FALSE]
             q == Passing(r, p)
  <1>1. /\ s \in CtlSet /\ s.ep.addr = c.ep.addr /\ s.ep.mps = c.ep.mps /\ s.ep.dir = "in"
        /\ s.ep.xfer = c.buf.len /\ s.level = 1 /\ s.out = <<>> /\ s.ep.rem = c.ep.rem
        /\ s.ep.pid = c.ep.pid /\ c.buf.len \in Nat
    BY Synced, CtlFacts
  <1>2. BuffStatus(c) = XferEvent(r, r.ep.xfer, FALSE)
    BY DEF BuffStatus, XferComplete
  <1> HIDE DEF s
  <1>3. /\ r \in CtlSet /\ r.ep.addr = c.ep.addr /\ r.ep.mps = c.ep.mps /\ r.ep.dir = "in"
        /\ r.level = 1 /\ r.out = <<>> /\ r.ep.xfer = c.buf.len
        /\ r.ep.pid = IF Turns(c.ep.rem, c.ep.mps) THEN 1 - c.ep.pid ELSE c.ep.pid
    BY <1>1, Started
  <1> HIDE DEF r
  <1>4. XferEvent(r, r.ep.xfer, FALSE) = EndpointXfer(q, r.ep.addr, "in", AskedFor)
    BY <1>3 DEF XferEvent, Passing, AskedFor
  <1>5. p \in OutSet /\ p = [len |-> c.buf.len, last |-> FALSE]
    BY <1>1, <1>3 DEF OutSet
  <1> HIDE DEF p
  <1>6. q \in CtlSet /\ q.out = <<p>> /\ q.ep = r.ep /\ q.level = 1
    BY <1>3, <1>5, Passes
  <1> HIDE DEF q
  <1>7. AskedFor \in Nat /\ r.ep.addr \in {0, NewAddress} /\ "in" \in Dir
    BY <1>3, CtlFacts, RequestFacts, ConstantFacts DEF AskedFor, Dir
  <1> DEFINE e == EndpointXfer(q, r.ep.addr, "in", AskedFor)
  <1>8. /\ e \in CtlSet /\ e.out = q.out
        /\ e.level = q.level /\ e.sie = "in" /\ e.ep.dir = "in" /\ e.ep.addr = q.ep.addr
        /\ e.trans.kind = "in" /\ e.trans.addr = r.ep.addr
        /\ e.ep.mps = q.ep.mps /\ e.ep.xfer = 0 /\ e.buf.pid = q.ep.pid
        /\ e.ep.rem = AskedFor - Least(AskedFor, q.ep.mps)
        /\ e.ep.pid = IF Turns(AskedFor, q.ep.mps) THEN 1 - e.buf.pid ELSE e.buf.pid
    <2>1. q.ep.dir = "in"
      BY <1>3, <1>6
    <2>2. Starts(e, q, r.ep.addr, "in", AskedFor)
      BY <1>6, <1>7, Transferred
    <2> HIDE DEF e
    <2> QED
      BY <2>1, <2>2 DEF Starts
  <1> HIDE DEF e
  <1> QED
    BY <1>2, <1>3, <1>4, <1>5, <1>6, <1>8 DEF e

\* The empty packet of the status stage has gone: the transfer is over.
LEMMA AfterAck ==
    ASSUME NEW c \in CtlSet, c.level = 2, c.buf.len = 0
    PROVE  LET e == BuffStatus(c)
           IN  /\ e \in CtlSet /\ e.out = c.out /\ e.level = 2 /\ e.sie = c.sie
               /\ e.trans = c.trans /\ e.ep.mps = c.ep.mps /\ e.ep.xfer = 0
  <1> DEFINE s == SyncBuffer(c)
             r == ResetTransfer(s)
  <1>1. /\ s \in CtlSet /\ s.ep.mps = c.ep.mps /\ s.sie = c.sie /\ s.trans = c.trans
        /\ s.level = 2 /\ s.out = c.out /\ s.ep.rem = 0
    <2>1. c.buf.len < c.ep.mps \/ c.ep.mps = 0
      BY CtlFacts
    <2> QED
      BY <2>1, Synced
  <1>2. BuffStatus(c) = XferEvent(r, s.ep.xfer, TRUE)
    BY <1>1 DEF BuffStatus, XferComplete
  <1> HIDE DEF s
  <1>3. /\ r \in CtlSet /\ r.ep.mps = c.ep.mps /\ r.ep.xfer = 0
        /\ r.level = 2 /\ r.out = c.out /\ r.sie = c.sie /\ r.trans = c.trans
    BY <1>1, TransferReset
  <1> HIDE DEF r
  <1>4. XferEvent(r, s.ep.xfer, TRUE) = r
    BY <1>3 DEF XferEvent
  <1> QED
    BY <1>2, <1>3, <1>4

-----------------------------------------------------------------------------
(* hcd_rp2040_irq_new, phase by phase.                                     *)

\* Min of the community modules on three numbers.
LEMMA MinThree ==
    ASSUME NEW a \in Nat, NEW b \in Nat, NEW c \in Nat
    PROVE  Min({a, b, c}) = Least(Least(a, b), c)
  <1> DEFINE S == {a, b, c}
             l == Least(Least(a, b), c)
  <1>1. l \in S /\ \A y \in S : l <= y
    BY DEF Least
  <1>2. \A x \in S : (\A y \in S : x <= y) => x = l
    BY <1>1 DEF Least
  <1>3. Min(S) = CHOOSE x \in S : \A y \in S : x <= y
    BY DEF Min
  <1> HIDE DEF l, S
  <1>4. (CHOOSE x \in S : \A y \in S : x <= y) = l
    BY <1>1, <1>2
  <1> QED
    BY <1>3, <1>4 DEF l, S

\* The bytes an answer should have.
Wanted ==
    IF ~setup.in THEN 0
    ELSE IF ctl.ep.mps = 0 THEN Least(Whole, dev.size) ELSE Whole

\* A poll that passed nothing to the master.
LEMMA PassedNothing ==
    ASSUME Types, Passed(<<>>)
    PROVE  UNCHANGED <<sent, answer, pending, inbox>>
  <1>1. sent \in Nat /\ pending \in BOOLEAN
    BY DEF Types
  <1>2. /\ sent' = sent + 0 /\ answer' = answer /\ inbox' = inbox
        /\ pending' = (pending /\ ~FALSE)
    BY DEF Passed
  <1> QED
    BY <1>1, <1>2

\* A poll that passed a packet in the middle of an answer.
LEMMA PassedMiddle ==
    ASSUME Types, NEW n \in Nat, Passed(<<[len |-> n, last |-> FALSE]>>)
    PROVE  sent' = sent + n /\ UNCHANGED <<answer, pending, inbox>>
  <1> DEFINE p == [len |-> n, last |-> FALSE]
             o == <<p>>
  <1>1. p.len = n /\ ~p.last
    OBVIOUS
  <1> HIDE DEF p
  <1>2. o # <<>> /\ o[1] = p
    OBVIOUS
  <1>3. Passed(o)
    BY DEF p
  <1> HIDE DEF o
  <1>4. pending \in BOOLEAN
    BY DEF Types
  <1>5. sent' = sent + n /\ answer' = answer /\ inbox' = inbox
    BY <1>1, <1>2, <1>3 DEF Passed
  <1>6. pending' = (pending /\ ~(o # <<>> /\ o[1].last))
    BY <1>3 DEF Passed
  <1> QED
    BY <1>1, <1>2, <1>4, <1>5, <1>6

\* A poll that passed the last packet of an answer.
LEMMA PassedLast ==
    ASSUME Types, inbox = <<>>, NEW n \in Nat, Passed(<<[len |-> n, last |-> TRUE]>>)
    PROVE  /\ sent' = sent + n /\ answer' = [got |-> sent + n, want |-> Wanted]
           /\ pending' = FALSE
           /\ inbox' \in {<<>>, <<PacketSize(dev.size)>>}
  <1> DEFINE p == [len |-> n, last |-> TRUE]
             o == <<p>>
             want == IF ~setup.in THEN 0
                     ELSE IF ctl.ep.mps = 0 THEN Min({setup.len, setup.data, dev.size})
                     ELSE Min({setup.len, setup.data})
  <1>1. p.len = n /\ p.last
    OBVIOUS
  <1> HIDE DEF p
  <1>2. o # <<>> /\ o[1] = p
    OBVIOUS
  <1>3. Passed(o)
    BY DEF p
  <1> HIDE DEF o
  <1>4. want = Wanted
    <2>1. /\ setup \in Request /\ setup.len \in Nat /\ setup.data \in Nat /\ dev.size \in Nat
      BY RequestFacts, DevFacts DEF Types
    <2>2. /\ Min({setup.len, setup.data, dev.size}) = Least(Whole, dev.size)
          /\ Min({setup.len, setup.data}) = Whole
      BY <2>1, MinThree, MinTwo DEF Whole
    <2> QED
      BY <2>2 DEF Wanted
  <1>5. sent' = sent + n /\ answer' = [got |-> sent + n, want |-> want]
    BY <1>1, <1>2, <1>3 DEF Passed
  <1>6. pending' = FALSE
    BY <1>1, <1>2, <1>3 DEF Passed
  <1>7. inbox' = IF setup.kind = "descriptor"
                 THEN Append(inbox, PacketSize(dev.size)) ELSE inbox
    BY <1>1, <1>2, <1>3 DEF Passed, PacketSize
  <1>8. Append(<<>>, PacketSize(dev.size)) = <<PacketSize(dev.size)>>
    OBVIOUS
  <1> QED
    BY <1>4, <1>5, <1>6, <1>7, <1>8

\* The packets are taken out of ctl at the end of a poll.
LEMMA OutTaken ==
    ASSUME NEW c \in CtlSet
    PROVE  LET e == [c EXCEPT !.out = <<>>]
           IN  /\ e \in CtlSet /\ e.out = <<>> /\ e.ep = c.ep /\ e.level = c.level
               /\ e.sie = c.sie /\ e.trans = c.trans /\ e.buf = c.buf
  BY DEF CtlSet

\* What a poll leaves and sets whatever the phase.
LEMMA Polled ==
    ASSUME Types, Poll
    PROVE  /\ ~buffStatus' /\ ~transDone' /\ fresh' \in BOOLEAN
           /\ buffStatus' \in BOOLEAN /\ transDone' \in BOOLEAN
           /\ (AssertsHold => panic' = FALSE)
           /\ UNCHANGED <<setup, devAddr, dev, seen>>
  <1>1. fresh \in BOOLEAN
    BY DEF Types
  <1>2. /\ buffStatus' = FALSE /\ transDone' = FALSE /\ panic' = ~AssertsHold
        /\ fresh' = (fresh /\ setup.kind # "descriptor")
        /\ UNCHANGED <<setup, devAddr, dev, seen>>
    BY DEF Poll
  <1> QED
    BY <1>1, <1>2

\* After the setup stage the first packet is awaited.
LEMMA PollSetupTaken ==
    ASSUME IInv, SetupTaken, Poll
    PROVE  IInv'
  <1> DEFINE e == TransComplete(ctl)
  <1>1. /\ ctl \in CtlSet /\ setup \in Request /\ ctl.out = <<>> /\ dev \in DevSet
        /\ Types
    BY DEF IInv, Types
  <1>2. /\ e \in CtlSet /\ e.out = <<>>
        /\ e.level = 1 /\ e.sie = "in" /\ e.ep.dir = "in" /\ e.ep.addr = dev.addr
        /\ e.trans.kind = "in" /\ e.trans.addr = dev.addr
        /\ e.ep.mps = ctl.ep.mps /\ e.ep.xfer = 0 /\ e.buf.pid = 1
        /\ e.ep.rem = AskedFor - Least(AskedFor, ctl.ep.mps)
        /\ e.ep.pid = IF Turns(AskedFor, ctl.ep.mps) THEN 1 - e.buf.pid ELSE e.buf.pid
    BY <1>1, AfterSetup DEF SetupTaken
  <1>3. ctl' = [e EXCEPT !.out = <<>>] /\ Passed(e.out)
    BY DEF Poll, SetupTaken
  <1> HIDE DEF e
  <1>4. /\ ctl' \in CtlSet /\ ctl'.out = <<>> /\ ctl'.ep = e.ep /\ ctl'.level = e.level
        /\ ctl'.sie = e.sie /\ ctl'.trans = e.trans /\ ctl'.buf = e.buf
    BY <1>2, <1>3, OutTaken
  <1>5. UNCHANGED <<sent, answer, pending, inbox>>
    BY <1>1, <1>2, <1>3, PassedNothing
  <1>6. /\ ~buffStatus' /\ ~transDone' /\ fresh' \in BOOLEAN
        /\ buffStatus' \in BOOLEAN /\ transDone' \in BOOLEAN
        /\ (AssertsHold => panic' = FALSE)
        /\ UNCHANGED <<setup, devAddr, dev, seen>>
    BY <1>1, Polled
  <1>7. AssertsHold
    <2>1. ~buffStatus /\ ctl.ep.xfer = 0
      BY DEF SetupTaken, IInv, Types
    <2> QED
      BY <2>1 DEF AssertsHold
  <1>8. Types'
    BY <1>2, <1>4, <1>5, <1>6, <1>7 DEF IInv, Types
  <1>9. Awaited'
    <2>1. Busy' /\ AddressSet'
      BY <1>5, <1>6 DEF SetupTaken, Busy, AddressSet, Fits, Exact
    <2>2. AskedFor' = AskedFor /\ Whole' = Whole /\ Whole \in Nat
      BY <1>1, <1>6, WholeFacts DEF AskedFor, Whole
    <2>3. sent = 0 /\ seen /\ dev.pid = 1 /\ dev.left = Whole /\ dev.passed = 0
          /\ dev.stage = (IF setup.in THEN "data" ELSE "status")
      BY DEF SetupTaken
    <2>4. setup.in => 0 < setup.len /\ 0 <= Whole /\ \E k \in Nat : 0 = k * dev.size
      <3>1. 0 = 0 * dev.size /\ 0 \in Nat
        BY <1>1, DevFacts
      <3> QED
        BY <1>1, <2>2, <3>1, RequestFacts
    <2>5. Offered'
      BY <1>2, <1>4, <1>5, <1>6, <2>2, <2>3, <2>4 DEF Offered
    <2> QED
      BY <1>2, <1>4, <1>5, <1>6, <2>1, <2>2, <2>3, <2>5 DEF Awaited
  <1> QED
    BY <1>5, <1>6, <1>8, <1>9 DEF IInv, InboxInv, PhaseInv, AnswerIsWhole

\* What a poll does with a packet: the end of the transaction adds nothing.
LEMMA PollBuffer ==
    ASSUME Poll, buffStatus, BuffStatus(ctl) \in CtlSet, BuffStatus(ctl).sie # "setup"
    PROVE  /\ ctl' = [BuffStatus(ctl) EXCEPT !.out = <<>>]
           /\ Passed(BuffStatus(ctl).out)
  <1> DEFINE b == BuffStatus(ctl)
             all == IF transDone THEN TransComplete(b) ELSE b
  <1>1. all = b
    BY DEF TransComplete
  <1>2. ctl' = [all EXCEPT !.out = <<>>] /\ Passed(all.out)
    BY DEF Poll
  <1> QED
    BY <1>1, <1>2

\* No assertion fails at a packet that has come.
LEMMA AssertsAtPacket ==
    ASSUME Types, Come
    PROVE  AssertsHold
  <1>1. ctl.buf.full /\ ctl.ep.dir = "in" /\ ctl.level = 1 /\ ctl.sie = "in"
    BY DEF Come, Offered
  <1>2. ctl.buf.full \in BOOLEAN
    BY CtlFacts DEF Types
  <1>3. ctl.buf.full = (ctl.ep.dir = "in")
    BY <1>1, <1>2, Zenon
  <1>4. ctl.level # 0 /\ ctl.sie # "setup"
    BY <1>1
  <1> QED
    BY <1>3, <1>4, Zenon DEF AssertsHold

\* After the last packet of an answer the empty packet is on its way.
LEMMA PollLast ==
    ASSUME IInv, Come, Poll, setup.in, SyncBuffer(ctl).ep.rem = 0
    PROVE  IInv'
  <1> DEFINE e == BuffStatus(ctl)
             n == ctl.buf.len
  <1>1. /\ ctl \in CtlSet /\ setup \in Request /\ ctl.out = <<>> /\ dev \in DevSet
        /\ Types /\ sent \in Nat /\ ctl.ep.xfer = 0
    BY DEF IInv, Types
  <1>2. /\ e \in CtlSet /\ e.out = <<[len |-> n, last |-> TRUE]>>
        /\ e.level = 2 /\ e.sie = "out" /\ e.ep.dir = "out"
        /\ e.trans.kind = "out" /\ e.trans.addr = ctl.ep.addr
        /\ e.ep.mps = ctl.ep.mps /\ e.ep.xfer = 0 /\ e.buf.len = 0
    BY <1>1, AfterLast DEF Come, Offered
  <1>3. ctl' = [e EXCEPT !.out = <<>>] /\ Passed(e.out)
    BY <1>2, PollBuffer DEF Come
  <1> HIDE DEF e
  <1>4. /\ ctl' \in CtlSet /\ ctl'.out = <<>> /\ ctl'.ep = e.ep /\ ctl'.level = e.level
        /\ ctl'.sie = e.sie /\ ctl'.trans = e.trans /\ ctl'.buf = e.buf
    BY <1>2, <1>3, OutTaken
  <1>5. n \in Nat
    BY <1>1, CtlFacts
  <1>6. /\ sent' = sent + n /\ answer' = [got |-> sent + n, want |-> Wanted]
        /\ pending' = FALSE /\ inbox' \in {<<>>, <<PacketSize(dev.size)>>}
    <2>1. inbox = <<>> /\ Passed(<<[len |-> n, last |-> TRUE]>>)
      BY <1>2, <1>3 DEF Come, Busy
    <2> QED
      BY <1>1, <1>5, <2>1, PassedLast
  <1>7. /\ ~buffStatus' /\ ~transDone' /\ fresh' \in BOOLEAN
        /\ buffStatus' \in BOOLEAN /\ transDone' \in BOOLEAN
        /\ panic' = FALSE
        /\ UNCHANGED <<setup, devAddr, dev, seen>>
    BY <1>1, Polled, AssertsAtPacket
  <1>8. Wanted = sent + n
    <2>1. /\ Whole \in Nat /\ setup.len \in Nat /\ dev.size \in Nat \ {0} /\ Whole <= setup.len
          /\ ctl.ep.mps \in {0, dev.size} /\ ctl.ep.mps \in Nat /\ ctl.ep.rem \in Nat
      BY <1>1, WholeFacts, RequestFacts, DevFacts, CtlFacts DEF Types, Whole, Least
    <2>2. /\ n = Least(Whole - sent, dev.size) /\ sent <= Whole /\ sent < setup.len
          /\ \E k \in Nat : sent = k * dev.size
          /\ (ctl.ep.mps = 0 => sent = 0)
          /\ ctl.ep.rem = setup.len - Least(setup.len, ctl.ep.mps)
      BY DEF Come, Offered, AskedFor
    <2>3. n < ctl.ep.mps \/ ctl.ep.mps = 0 \/ ctl.ep.rem = 0
      BY <1>1, Synced
    <2>4. CASE ctl.ep.mps = 0
      BY <2>1, <2>2, <2>4 DEF Wanted, Least
    <2>5. CASE ctl.ep.mps # 0 /\ n < ctl.ep.mps
      BY <1>1, <2>1, <2>2, <2>5 DEF Wanted, Least
    <2>6. CASE ctl.ep.mps # 0 /\ ~(n < ctl.ep.mps)
      <3>1. ctl.ep.mps = dev.size /\ setup.len <= dev.size
        BY <2>1, <2>2, <2>3, <2>6 DEF Least
      <3>2. sent = 0
        <4>1. PICK k \in Nat : sent = k * dev.size
          BY <2>2
        <4>2. k = 0 \/ k >= 1
          OBVIOUS
        <4>3. k >= 1 => k * dev.size >= dev.size
          BY <2>1, Z3
        <4>4. sent < dev.size
          BY <1>1, <2>1, <2>2, <3>1
        <4>5. k = 0
          BY <1>1, <2>1, <4>1, <4>2, <4>3, <4>4
        <4>6. 0 * dev.size = 0
          BY <2>1
        <4> QED
          BY <4>1, <4>5, <4>6
      <3>3. n = Least(Whole, dev.size) /\ ~(n < dev.size)
        BY <2>1, <2>2, <2>6, <3>1, <3>2
      <3>4. n = Whole
        BY <2>1, <3>1, <3>3 DEF Least
      <3>5. Wanted = Whole
        BY <2>6 DEF Wanted
      <3> QED
        BY <2>1, <3>2, <3>4, <3>5
    <2> QED
      BY <2>4, <2>5, <2>6
  <1>9. Types'
    <2>1. sent + n \in Nat
      BY <1>1, <1>5
    <2>2. answer' \in [got : Nat, want : Nat] /\ sent' \in Nat
      BY <1>6, <1>8, <2>1
    <2>3. pending' \in BOOLEAN
      BY <1>6
    <2> QED
      BY <1>2, <1>4, <1>7, <2>2, <2>3 DEF IInv, Types
  <1>10. AnswerIsWhole'
    BY <1>6, <1>8 DEF AnswerIsWhole
  <1>11. Acking'
    <2>1. devAddr = dev.addr /\ ctl.ep.addr = dev.addr /\ dev.stage \in {"data", "ack"}
      BY DEF Come
    <2> QED
      BY <1>2, <1>4, <1>6, <1>7, <2>1 DEF Acking
  <1>12. InboxInv'
    BY <1>6, <1>7 DEF InboxInv
  <1> QED
    BY <1>9, <1>10, <1>11, <1>12 DEF IInv, PhaseInv

\* After the status stage of a request without data nothing is under way.
LEMMA PollStatus ==
    ASSUME IInv, Come, Poll, ~setup.in, SyncBuffer(ctl).ep.rem = 0
    PROVE  IInv'
  <1> DEFINE e == BuffStatus(ctl)
             n == ctl.buf.len
  <1>1. /\ ctl \in CtlSet /\ setup \in Request /\ ctl.out = <<>> /\ dev \in DevSet
        /\ Types /\ sent \in Nat /\ ctl.ep.xfer = 0
    BY DEF IInv, Types
  <1>2. /\ e \in CtlSet /\ e.out = <<[len |-> n, last |-> TRUE]>>
        /\ e.level = 2 /\ e.sie = "in" /\ e.trans = ctl.trans
        /\ e.ep.mps = ctl.ep.mps /\ e.ep.xfer = 0
    BY <1>1, AfterStatus DEF Come, Offered
  <1>3. ctl' = [e EXCEPT !.out = <<>>] /\ Passed(e.out)
    BY <1>2, PollBuffer DEF Come
  <1> HIDE DEF e
  <1>4. /\ ctl' \in CtlSet /\ ctl'.out = <<>> /\ ctl'.ep = e.ep /\ ctl'.level = e.level
        /\ ctl'.sie = e.sie /\ ctl'.trans = e.trans /\ ctl'.buf = e.buf
    BY <1>2, <1>3, OutTaken
  <1>5. n = 0 /\ sent = 0 /\ n \in Nat
    <2>1. Whole = 0
      BY <1>1, RequestFacts DEF Whole, Least
    <2>2. n = Least(Whole - sent, dev.size) /\ sent = 0
      BY DEF Come, Offered
    <2> QED
      BY <1>1, <2>1, <2>2, DevFacts DEF Least
  <1>6. /\ sent' = sent + n /\ answer' = [got |-> sent + n, want |-> Wanted]
        /\ pending' = FALSE /\ inbox' \in {<<>>, <<PacketSize(dev.size)>>}
    <2>1. inbox = <<>> /\ Passed(<<[len |-> n, last |-> TRUE]>>)
      BY <1>2, <1>3 DEF Come, Busy
    <2> QED
      BY <1>1, <1>5, <2>1, PassedLast
  <1>7. /\ ~buffStatus' /\ ~transDone' /\ fresh' \in BOOLEAN
        /\ buffStatus' \in BOOLEAN /\ transDone' \in BOOLEAN
        /\ panic' = FALSE
        /\ UNCHANGED <<setup, devAddr, dev, seen>>
    BY <1>1, Polled, AssertsAtPacket
  <1>8. Wanted = 0 /\ sent + n = 0
    BY <1>5 DEF Wanted
  <1>9. Types'
    <2>1. answer' \in [got : Nat, want : Nat] /\ sent' \in Nat
      BY <1>6, <1>8
    <2>2. pending' \in BOOLEAN
      BY <1>6
    <2> QED
      BY <1>2, <1>4, <1>7, <2>1, <2>2 DEF IInv, Types
  <1>10. AnswerIsWhole'
    BY <1>6, <1>8 DEF AnswerIsWhole
  <1>11. Quiet'
    <2>1. devAddr = dev.addr /\ ctl.trans.kind = "none" /\ dev.stage = "idle"
      BY DEF Come
    <2> QED
      BY <1>2, <1>4, <1>6, <1>7, <2>1 DEF Quiet
  <1>12. InboxInv'
    BY <1>6, <1>7 DEF InboxInv
  <1> QED
    BY <1>9, <1>10, <1>11, <1>12 DEF IInv, PhaseInv

\* After a packet in the middle of an answer the next one is awaited.
LEMMA PollMiddle ==
    ASSUME IInv, Come, Poll, SyncBuffer(ctl).ep.rem # 0
    PROVE  IInv'
  <1> DEFINE e == BuffStatus(ctl)
             n == ctl.buf.len
             m == dev.size
             len == setup.len
  <1>1. /\ ctl \in CtlSet /\ setup \in Request /\ ctl.out = <<>> /\ dev \in DevSet
        /\ Types /\ sent \in Nat /\ ctl.ep.xfer = 0
    BY DEF IInv, Types
  <1>2. /\ e \in CtlSet /\ e.out = <<[len |-> n, last |-> FALSE]>>
        /\ e.level = 1 /\ e.sie = "in" /\ e.ep.dir = "in" /\ e.ep.addr = ctl.ep.addr
        /\ e.trans.kind = "in" /\ e.trans.addr = ctl.ep.addr
        /\ e.ep.mps = ctl.ep.mps /\ e.ep.xfer = 0
        /\ e.buf.pid = IF Turns(ctl.ep.rem, ctl.ep.mps) THEN 1 - ctl.ep.pid ELSE ctl.ep.pid
        /\ e.ep.rem = AskedFor - Least(AskedFor, ctl.ep.mps)
        /\ e.ep.pid = IF Turns(AskedFor, ctl.ep.mps) THEN 1 - e.buf.pid ELSE e.buf.pid
    BY <1>1, AfterMiddle DEF Come, Offered
  <1>3. ctl' = [e EXCEPT !.out = <<>>] /\ Passed(e.out)
    BY <1>2, PollBuffer DEF Come
  <1> HIDE DEF e
  <1>4. /\ ctl' \in CtlSet /\ ctl'.out = <<>> /\ ctl'.ep = e.ep /\ ctl'.level = e.level
        /\ ctl'.sie = e.sie /\ ctl'.trans = e.trans /\ ctl'.buf = e.buf
    BY <1>2, <1>3, OutTaken
  <1>5. n \in Nat /\ ctl.ep.pid \in {0, 1} /\ ctl.buf.pid \in {0, 1}
    BY <1>1, CtlFacts
  <1>6. sent' = sent + n /\ UNCHANGED <<answer, pending, inbox>>
    BY <1>1, <1>2, <1>3, <1>5, PassedMiddle
  <1>7. /\ ~buffStatus' /\ ~transDone' /\ fresh' \in BOOLEAN
        /\ buffStatus' \in BOOLEAN /\ transDone' \in BOOLEAN
        /\ panic' = FALSE
        /\ UNCHANGED <<setup, devAddr, dev, seen>>
    BY <1>1, Polled, AssertsAtPacket
  <1>8. /\ Whole \in Nat /\ len \in Nat /\ m \in Nat \ {0} /\ Whole <= len
        /\ setup.data \in Nat /\ ctl.ep.mps \in {0, m}
    BY <1>1, WholeFacts, RequestFacts, DevFacts DEF Types, Whole, Least
  <1>9. ctl.ep.mps = m /\ ~(n < m) /\ ctl.ep.rem # 0
    BY <1>1, <1>5, <1>8, Synced
  <1>10. setup.in
    <2>1. SUFFICES ASSUME ~setup.in PROVE FALSE
      OBVIOUS
    <2>2. Whole = 0 /\ sent = 0
      BY <1>1, <2>1, RequestFacts DEF Whole, Least, Come, Offered
    <2>3. n = Least(Whole - sent, m)
      BY DEF Come
    <2> QED
      BY <1>8, <1>9, <2>2, <2>3 DEF Least
  <1>11. /\ AskedFor = len
         /\ n = Least(Whole - sent, m) /\ sent <= Whole /\ sent < len
         /\ ctl.ep.rem = len - Least(len, m)
         /\ ctl.ep.pid = IF Turns(len, m) THEN 1 - ctl.buf.pid ELSE ctl.buf.pid
         /\ ctl.ep.addr = dev.addr /\ dev.pid = 1 - ctl.buf.pid
         /\ dev.left = Whole - (sent + n) /\ dev.passed = sent + n
         /\ dev.stage = IF n < m \/ dev.passed = len THEN "ack" ELSE "data"
    BY <1>9, <1>10 DEF Come, Offered, AskedFor
  <1>12. n = m /\ len > m /\ ctl.ep.rem = len - m /\ sent + m <= Whole
    BY <1>1, <1>8, <1>9, <1>11 DEF Least
  <1>13. PICK k \in Nat : sent = k * m
    BY <1>10 DEF Come, Offered
  <1>14. sent + n = len => ExactFits
    <2>1. SUFFICES ASSUME sent + n = len PROVE ExactFits
      OBVIOUS
    <2>2. len = k * m + m
      BY <1>12, <1>13, <2>1
    <2>3. len % m = 0
      BY <1>8, <2>2, ExactMultiple
    <2>4. setup.data >= len
      BY <1>8, <1>12, <2>1 DEF Whole, Least
    <2>5. Fits(setup, m)
      BY DEF Come, Busy
    <2> QED
      BY <1>10, <1>12, <2>3, <2>4, <2>5 DEF Fits, Exact
  <1>15. \E j \in Nat : sent + n = j * m
    <2>1. k + 1 \in Nat /\ k * m + m = (k + 1) * m
      BY <1>8, Z3
    <2> QED
      BY <1>12, <1>13, <2>1
  <1>16. e.buf.pid = dev.pid
    <2>1. Turns(len, m) <=> ~Turns(len - m, m)
      BY <1>8, <1>12, ParityTurns
    <2> QED
      BY <1>2, <1>5, <1>9, <1>11, <1>12, <2>1
  <1>17. Types'
    BY <1>1, <1>2, <1>4, <1>5, <1>6, <1>7 DEF IInv, Types
  <1>18. Busy' /\ AddressSet' /\ devAddr = dev.addr /\ seen
    <2>1. setup.kind # "address"
      BY <1>1, <1>10, RequestFacts
    <2> QED
      BY <1>6, <1>7, <2>1 DEF Come, Busy, AddressSet, Fits, Exact, Offered
  <1>19. CASE sent + n = len
    <2>1. dev.stage = "ack"
      BY <1>11, <1>19
    <2>2. Stuck'
      BY <1>2, <1>4, <1>6, <1>7, <1>11, <1>14, <1>18, <1>19, <2>1 DEF Stuck
    <2> QED
      BY <1>6, <1>7, <1>17, <2>2 DEF IInv, InboxInv, PhaseInv, AnswerIsWhole
  <1>20. CASE sent + n # len
    <2>1. AskedFor' = AskedFor /\ Whole' = Whole
      BY <1>7 DEF AskedFor, Whole
    <2>2. sent + n < len /\ sent + n <= Whole
      BY <1>1, <1>5, <1>8, <1>12, <1>20
    <2>3. Offered'
      BY <1>2, <1>4, <1>6, <1>7, <1>8, <1>9, <1>10, <1>15, <1>18, <2>1, <2>2 DEF Offered
    <2>4. dev.stage = "data"
      BY <1>8, <1>11, <1>12, <1>20
    <2>5. Awaited'
      BY <1>2, <1>4, <1>6, <1>7, <1>10, <1>11, <1>16, <1>18, <2>1, <2>3, <2>4 DEF Awaited
    <2> QED
      BY <1>6, <1>7, <1>17, <2>5 DEF IInv, InboxInv, PhaseInv, AnswerIsWhole
  <1> QED
    BY <1>19, <1>20

\* After the empty packet of the status stage nothing is under way.
LEMMA PollAcked ==
    ASSUME IInv, Acked, Poll
    PROVE  IInv'
  <1> DEFINE e == BuffStatus(ctl)
  <1>1. ctl \in CtlSet /\ ctl.out = <<>> /\ dev \in DevSet /\ Types
    BY DEF IInv, Types
  <1>2. /\ e \in CtlSet /\ e.out = <<>> /\ e.level = 2 /\ e.sie = "out"
        /\ e.trans = ctl.trans /\ e.ep.mps = ctl.ep.mps /\ e.ep.xfer = 0
    BY <1>1, AfterAck DEF Acked
  <1>3. ctl' = [e EXCEPT !.out = <<>>] /\ Passed(e.out)
    BY <1>2, PollBuffer DEF Acked
  <1> HIDE DEF e
  <1>4. /\ ctl' \in CtlSet /\ ctl'.out = <<>> /\ ctl'.ep = e.ep /\ ctl'.level = e.level
        /\ ctl'.sie = e.sie /\ ctl'.trans = e.trans /\ ctl'.buf = e.buf
    BY <1>2, <1>3, OutTaken
  <1>5. UNCHANGED <<sent, answer, pending, inbox>>
    BY <1>1, <1>2, <1>3, PassedNothing
  <1>6. AssertsHold
    <2>1. ~ctl.buf.full /\ ctl.ep.dir = "out" /\ ctl.level = 2
      BY DEF Acked
    <2>2. ctl.buf.full \in BOOLEAN
      BY <1>1, CtlFacts
    <2> QED
      BY <2>1, <2>2 DEF AssertsHold
  <1>7. /\ ~buffStatus' /\ ~transDone' /\ fresh' \in BOOLEAN
        /\ buffStatus' \in BOOLEAN /\ transDone' \in BOOLEAN
        /\ panic' = FALSE
        /\ UNCHANGED <<setup, devAddr, dev, seen>>
    BY <1>1, <1>6, Polled
  <1>8. Types'
    BY <1>2, <1>4, <1>5, <1>7 DEF IInv, Types
  <1>9. Quiet'
    BY <1>2, <1>4, <1>5, <1>7 DEF Acked, Quiet
  <1> QED
    BY <1>5, <1>7, <1>8, <1>9 DEF IInv, InboxInv, PhaseInv, AnswerIsWhole

-----------------------------------------------------------------------------
(* The invariant.                                                          *)

\* The slave starts with nothing under way, the bus reset waiting in its inbox.
LEMMA Initially ==
    ASSUME Init
    PROVE  IInv
  <1>1. PICK n \in PacketSizes : dev = NewDevice(n)
    BY DEF Init
  <1>2. dev \in DevSet /\ dev.size = n /\ dev.addr = 0 /\ dev.stage = "idle"
    BY <1>1, DeviceReset
  <1> DEFINE ep == [dir |-> "out", addr |-> 0, pid |-> 0, mps |-> 0, rem |-> 0, xfer |-> 0]
  <1>3. /\ ctl \in CtlSet /\ ctl.out = <<>> /\ ctl.ep.mps = 0 /\ ctl.ep.xfer = 0
        /\ ctl.trans.kind = "none" /\ ctl.level = 0
    <2>1. ep \in EpSet /\ ep.mps = 0 /\ ep.xfer = 0
      BY DEF EpSet, Dir, Pid
    <2>2. NoTrans \in TransSet /\ NoTrans.kind = "none" /\ NoBuf \in BufSet
      BY DEF NoTrans, NoBuf, TransSet, BufSet, Pid
    <2>3. ctl = [ep |-> ep, level |-> 0, sie |-> "base", trans |-> NoTrans,
                 buf |-> NoBuf, out |-> <<>>]
      BY DEF Init
    <2> HIDE DEF ep
    <2> QED
      BY <2>1, <2>2, <2>3 DEF CtlSet
  <1>4. setup \in Request
    BY DEF Init, Request
  <1>5. Types
    BY <1>2, <1>3, <1>4 DEF Init, Types
  <1>6. Quiet
    BY <1>2, <1>3 DEF Init, Quiet, Reset
  <1> QED
    BY <1>5, <1>6 DEF IInv, InboxInv, PhaseInv, AnswerIsWhole, Init, Reset

\* A poll keeps the invariant, whatever has come.
LEMMA PollKeeps ==
    ASSUME IInv, Poll
    PROVE  IInv'
  <1>1. buffStatus \/ transDone
    BY DEF Poll
  <1>2. SetupTaken \/ Come \/ Acked
    BY <1>1 DEF IInv, PhaseInv, Quiet, SetupSent, Awaited, Stuck, Acking
  <1>3. CASE Come
    <2>1. CASE setup.in /\ SyncBuffer(ctl).ep.rem = 0
      BY <1>3, <2>1, PollLast
    <2>2. CASE ~setup.in /\ SyncBuffer(ctl).ep.rem = 0
      BY <1>3, <2>2, PollStatus
    <2>3. CASE SyncBuffer(ctl).ep.rem # 0
      BY <1>3, <2>3, PollMiddle
    <2> QED
      BY <2>1, <2>2, <2>3
  <1> QED
    BY <1>2, <1>3, PollSetupTaken, PollAcked

\* Every step keeps the invariant.
LEMMA Stepwise ==
    ASSUME Orderly, IInv, [Next]_vars
    PROVE  IInv'
  <1>1. CASE Poll
    BY <1>1, PollKeeps
  <1>2. CASE ResetUsb
    BY <1>2, ResetUsbKeeps
  <1>3. CASE SetupData
    BY <1>3, SetupDataKeeps
  <1>4. CASE ChangeAddress
    BY <1>4, ChangeAddressKeeps
  <1>5. CASE ChangePacketSize
    BY <1>5, ChangePacketSizeKeeps
  <1>6. CASE DeviceSetup
    BY <1>6, DeviceSetupKeeps
  <1>7. CASE DeviceIn
    BY <1>7, DeviceInKeeps
  <1>8. CASE DeviceOut
    BY <1>8, DeviceOutKeeps
  <1>9. CASE \E r \in Request : NewRequest(r)
    BY <1>9, NewRequestKeeps
  <1>10. CASE NewReset
    BY <1>10, NewResetKeeps
  <1>11. CASE Swap
    BY <1>11, SwapKeeps
  <1>12. CASE UNCHANGED vars
    <2>1. UNCHANGED <<ctl, setup, devAddr, buffStatus, transDone, panic, dev, inbox, fresh,
                      pending, seen, sent, answer>>
      BY <1>12 DEF vars, hostVars, masterVars, history
    <2>2. Types' /\ InboxInv' /\ AnswerIsWhole'
      BY <2>1 DEF IInv, Types, InboxInv, AnswerIsWhole
    <2>3. Whole' = Whole /\ AskedFor' = AskedFor
      BY <2>1 DEF Whole, AskedFor
    <2>4. PhaseInv'
      <3>1. (Quiet => Quiet') /\ (Acking => Acking') /\ (Acked => Acked')
        BY <2>1 DEF Quiet, Acking, Acked
      <3>2. (Busy => Busy') /\ (AddressSet => AddressSet') /\ (Offered => Offered')
        BY <2>1, <2>3 DEF Busy, Fits, Exact, AddressSet, Offered
      <3>3. (SetupSent => SetupSent') /\ (SetupTaken => SetupTaken')
        BY <2>1, <2>3, <3>2 DEF SetupSent, SetupTaken
      <3>4. (Awaited => Awaited') /\ (Come => Come')
        BY <2>1, <2>3, <3>2 DEF Awaited, Come
      <3>5. Stuck => Stuck'
        BY <2>1, <3>2 DEF Stuck
      <3> QED
        BY <3>1, <3>3, <3>4, <3>5 DEF IInv, PhaseInv
    <2> QED
      BY <2>2, <2>4 DEF IInv
  <1> QED
    BY <1>1, <1>2, <1>3, <1>4, <1>5, <1>6, <1>7, <1>8, <1>9, <1>10, <1>11, <1>12
       DEF Next, SlaveWork, Device, Master

\* What the invariant says of the types, property by property.
LEMMA TypesHold == IInv => TypeOK
  <1> SUFFICES ASSUME IInv PROVE TypeOK
    OBVIOUS
  <1>1. /\ ctl.ep \in EpSet /\ ctl.level \in 0..2 /\ ctl.sie \in Dir \cup {"setup", "base"}
        /\ ctl.trans \in TransSet /\ ctl.buf \in BufSet /\ ctl.out = <<>>
    BY CtlFacts DEF IInv, Types
  <1>2. \A i \in 1..Len(inbox) : inbox[i].type \in {"reset", "setup", "address", "packetsize"}
    <2>1. CASE inbox = <<>>
      BY <2>1
    <2>2. CASE \E m : inbox = <<m>> /\ m.type \in {"reset", "setup", "address", "packetsize"}
      BY <2>2
    <2>3. CASE inbox = <<Reset>>
      <3>1. Reset.type = "reset"
        BY DEF Reset
      <3> QED
        BY <2>2, <2>3, <3>1
    <2>4. CASE inbox = <<PacketSize(dev.size)>>
      <3>1. PacketSize(dev.size).type = "packetsize"
        BY DEF PacketSize
      <3> QED
        BY <2>2, <2>4, <3>1
    <2>5. CASE inbox = <<[type |-> "address"]>>
      BY <2>2, <2>5
    <2>6. CASE \E r \in Request : inbox = <<[type |-> "setup", request |-> r]>>
      <3>1. PICK r \in Request : inbox = <<[type |-> "setup", request |-> r]>>
        BY <2>6
      <3> DEFINE m == [type |-> "setup", request |-> r]
      <3>2. m.type = "setup" /\ inbox = <<m>>
        BY <3>1
      <3> HIDE DEF m
      <3> QED
        BY <2>2, <3>2
    <2> QED
      BY <2>1, <2>3, <2>4, <2>5, <2>6 DEF IInv, InboxInv
  <1>3. {buffStatus, transDone, panic, pending, fresh, seen} \subseteq BOOLEAN
    BY DEF IInv, Types
  <1>4. /\ setup \in Request /\ devAddr \in {0, NewAddress} /\ dev \in DevSet
        /\ sent \in Nat /\ answer \in [got : Nat, want : Nat]
    BY DEF IInv, Types
  <1> QED
    BY <1>1, <1>2, <1>3, <1>4 DEF TypeOK, EpSet, TransSet, BufSet, DevSet

\* What the phases say of the transaction the controller has to carry out.
LEMMA TransactionsHold == IInv => PidAgrees /\ AddressAgrees /\ SetupSentFirst
  BY DEF IInv, PhaseInv, Quiet, SetupSent, SetupTaken, Awaited, Come, Stuck, Acking, Acked,
         Offered, PidAgrees, AddressAgrees, SetupSentFirst

\* What they say when no answer ends with wLength in whole packets.
LEMMA DataStageHolds == ~ExactFits /\ IInv => AsksOnlyForMore /\ CompleteWhenAllCame
  BY DEF IInv, PhaseInv, Quiet, SetupSent, SetupTaken, Awaited, Come, Stuck, Acking, Acked,
         Offered, AsksOnlyForMore, CompleteWhenAllCame

\* Between any two steps the transfer is in one of its phases, and driver,
\* controller and device agree on what the phase says.
THEOREM Invariance == Orderly => (Spec => []IInv)
  <1> SUFFICES ASSUME Orderly PROVE Spec => []IInv
    OBVIOUS
  <1>1. Init => IInv
    BY Initially
  <1>2. IInv /\ [Next]_vars => IInv'
    BY Stepwise
  <1> QED
    BY <1>1, <1>2, PTL DEF Spec

\* Every variable has its type.
THEOREM TypeCorrect == Orderly => (Spec => []TypeOK)
  BY Invariance, TypesHold, PTL

\* Every answer the master is given as complete has all the bytes the device had,
\* whatever wLength, the device's data and the packet size are: the short-packet
\* rule and the parity of remaining_len (rp2040_usb.c:185-195, 317-325) never end an
\* answer early.
THEOREM AnswersWhole == Orderly => (Spec => []AnswerIsWhole)
  <1>1. IInv => AnswerIsWhole
    BY DEF IInv
  <1> QED
    BY <1>1, Invariance, PTL

\* The PID offered for a packet is the one the device sends, for any number of
\* packets: two starts of a buffer per packet turn it exactly once.
THEOREM PidsAgree == Orderly => (Spec => []PidAgrees)
  BY Invariance, TransactionsHold, PTL

\* Every transaction goes to the address the device answers to, also while
\* SET_ADDRESS is under way and through resets.
THEOREM AddressesAgree == Orderly => (Spec => []AddressAgrees)
  BY Invariance, TransactionsHold, PTL

\* The data stage is entered only with a device that has received the setup packet
\* (host_event_handlers.c:149).
THEOREM SetupFirst == Orderly => (Spec => []SetupSentFirst)
  BY Invariance, TransactionsHold, PTL

\* No assertion of the driver fails and no packet has a wrong PID.
THEOREM NeverPanics == Orderly => (Spec => []NoPanic)
  <1>1. IInv => NoPanic
    BY DEF IInv, Types, NoPanic
  <1> QED
    BY <1>1, Invariance, PTL

\* Unless an answer ends with wLength in whole packets, the slave never waits for a
\* packet the device does not send.
THEOREM NeverAsksTooMuch == Orderly /\ ~ExactFits => (Spec => []AsksOnlyForMore)
  <1> SUFFICES ASSUME Orderly, ~ExactFits PROVE Spec => []AsksOnlyForMore
    OBVIOUS
  <1>1. IInv => AsksOnlyForMore
    BY DataStageHolds
  <1>2. Spec => []IInv
    BY Invariance
  <1> QED
    BY <1>1, <1>2, PTL

\* That is the only way in which the transfer can be left in its data stage after
\* wLength bytes (rp2040_usb.c:325, the run host_control_exact).
THEOREM CompleteUnlessExact == Orderly /\ ~ExactFits => (Spec => []CompleteWhenAllCame)
  <1> SUFFICES ASSUME Orderly, ~ExactFits PROVE Spec => []CompleteWhenAllCame
    OBVIOUS
  <1>1. IInv => CompleteWhenAllCame
    BY DataStageHolds
  <1>2. Spec => []IInv
    BY Invariance
  <1> QED
    BY <1>1, <1>2, PTL
=============================================================================
