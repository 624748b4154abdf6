------------------------ MODULE DeviceControlProofs ------------------------
(***************************************************************************)
(* Proofs, for every number of requests and every length of an answer, of  *)
(* the safety properties of DeviceControl, provided that core 0 polls      *)
(* before a partner does the next thing (Quick).                           *)
(*                                                                         *)
(* The inductive invariant says where the next packet of an answer is:     *)
(* nowhere, in a message of the slave, or in the buffer of endpoint 0 IN.  *)
(***************************************************************************)
EXTENDS DeviceControl, SequenceTheorems, TLAPS

In == ctl.buf["in"]
Out == ctl.buf["out"]

\* Core 0 has handled the setup packet of the host's request.
Begun == "setup" \notin status

\* The messages that pass a request on to the slave.
IsSetup(msg) == msg.type \in {"setup", "address"}

\* The stage a request begins with.
Start(r) == IF r.in THEN "data" ELSE IF r.kind = "report" THEN "report" ELSE "status"

\* How many packets of its answer core 0 has registered.
Registered == slave.sent - Len(inbox)

-----------------------------------------------------------------------------
(* The inductive invariant.                                                *)

BufferSet == [avail : BOOLEAN, full : BOOLEAN, pid : Bit, packet : PacketSet]
CtlSet == [setup : RequestSet, pid : [Dir -> Bit], buf : [Dir -> BufferSet],
           addr : {0, NewAddress}, msgs : Seq(MessageSet), panic : BOOLEAN]
HostSet == [stage : {"idle", "data", "ack", "status", "report"}, request : RequestSet,
            pid : Bit, got : Seq(PacketSet), addr : {0, NewAddress}, count : 0..MaxRequests]

\* TypeOK, with sequences.
Types ==
    /\ ctl \in CtlSet /\ ctl.msgs = <<>>
    /\ turn \in {"event", "irq"} /\ dir \in {"reading", "writing"}
    /\ response \in Seq(PacketSet)
    /\ packet \in RequestSet
    /\ status \in SUBSET (Dir \cup {"reset", "setup"})
    /\ toSlave \in Seq(MessageSet)
    /\ inbox \in Seq(PacketSet)
    /\ slave \in [request : RequestSet, sent : Nat]
    /\ host \in HostSet
    /\ handled \in [request : RequestSet, answer : Seq(PacketSet)]

\* No message to the slave carries a request that it has not begun.
NoneToTake == \A i \in 1..Len(toSlave) : ~IsSetup(toSlave[i])

\* The slave has answered all it was asked.
SlaveDone == slave.sent = slave.request.packets /\ NoneToTake /\ inbox = <<>>

\* The controller's bits do not mix, and a completion finds the buffer as it expects.
StatusInv ==
    /\ ~ctl.panic
    /\ IF Begun THEN ctl.setup = host.request ELSE packet = host.request
    /\ "setup" \in status => status = {"setup"}
    /\ "reset" \in status => status = {"reset"} /\ host.stage = "idle" /\ host.addr = 0
    /\ "in" \in status => ~In.avail /\ ~In.full /\ inbox = <<>>
    /\ "out" \in status => ~Out.avail /\ Out.full /\ inbox = <<>>
    /\ "in" \in status /\ ctl.setup.kind = "address" => host.addr = NewAddress

\* Nothing is left in a buffer or on its way between two requests.
QuietInv ==
    host.stage = "idle" \/ ~Begun => ~In.avail /\ ~Out.avail /\ SlaveDone

\* The PIDs of both sides.
PidInv ==
    /\ Begun => ctl.pid["in"] = IF In.avail THEN 1 - host.pid ELSE host.pid
    /\ In.avail => In.pid = host.pid /\ host.stage \in {"data", "status"}
    /\ Out.avail => Out.pid = 1 /\ host.stage \in {"data", "ack", "report"}

\* The host's request waits for the poll.
WaitingInv ==
    ~Begun =>
      /\ host.got = <<>> /\ host.pid = 1 /\ host.stage = Start(host.request)
      /\ Relayed(host.request) => host.request.packets > 0
      /\ IF dir = "reading" THEN response = <<>> ELSE turn = "event"

\* A request is on its way to the slave.
SentInv ==
    Begun /\ Relayed(host.request) /\ ~NoneToTake =>
      /\ \E k \in 1..Len(toSlave) :
            /\ IsSetup(toSlave[k]) /\ toSlave[k].request = host.request
            /\ \A i \in 1..Len(toSlave) : i # k => ~IsSetup(toSlave[i])
      /\ slave.sent = slave.request.packets /\ inbox = <<>> /\ status = {}
      /\ ~In.avail /\ ~Out.avail /\ ctl.pid["out"] = 1
      /\ host.got = <<>> /\ host.stage = Start(host.request) /\ host.request.packets > 0
      /\ dir = "reading" /\ response = <<>>

\* The slave answers: the host has all packets but the one on its way.
AnsweringInv ==
    Begun /\ Relayed(host.request) /\ NoneToTake =>
      LET r == host.request
          n == Len(host.got)
          next == Packet(r.id, slave.sent, slave.sent = r.packets)
      IN  /\ slave.request = r /\ slave.sent <= r.packets
          /\ host.got = Answer(r, n)
          /\ Len(inbox) <= 1
          /\ inbox # <<>> => inbox = <<next>> /\ ~In.avail
          /\ In.avail => In.packet = next
          /\ slave.sent = n + (IF inbox # <<>> \/ In.avail THEN 1 ELSE 0)
          /\ n < r.packets => host.stage = Start(r)
          /\ n = r.packets => host.stage = "idle" \/ (host.stage = "ack" /\ r.in)
          /\ "in" \in status => n > 0

\* The aggregator holds what was registered until it is told to send it.
AggregatorInv ==
    Begun /\ Relayed(host.request) /\ NoneToTake =>
      LET r == host.request
      IN  /\ dir = "writing" => Registered = r.packets
          /\ dir = "writing" /\ turn = "irq" => In.avail \/ "in" \in status
          /\ dir = "reading" =>
                response = IF Registered < r.packets THEN Answer(r, Registered) ELSE <<>>
          /\ Registered < r.packets =>
                ctl.pid["out"] = 1 /\ ~Out.avail /\ "out" \notin status
          /\ Out.avail => r.in

\* A request that the master answers itself.
LocalInv ==
    Begun /\ ~Relayed(host.request) =>
      /\ SlaveDone /\ dir = "reading" /\ response = <<>>
      /\ In.avail => host.request.kind = "qualifier" /\ host.stage = "data"
      /\ Out.avail => host.request.kind = "report" /\ host.stage = "report"

FlowInv == WaitingInv /\ SentInv /\ AnsweringInv /\ AggregatorInv /\ LocalInv
IInv == Types /\ StatusInv /\ QuietInv /\ PidInv /\ FlowInv /\ AnswerHandledWhole

-----------------------------------------------------------------------------
(* Facts about requests, packets, answers and sequences.                   *)

Kinds == {"device", "other", "address", "command", "qualifier", "report"}

\* What a request may be.
LEMMA RequestFacts ==
    ASSUME NEW r \in RequestSet
    PROVE  /\ r.id \in Ids /\ r.kind \in Kinds /\ r.in \in BOOLEAN
           /\ r.packets \in 0..MaxPackets
           /\ r.kind \in {"device", "other", "qualifier"} <=> r.in
           /\ Relayed(r) => r.packets > 0 \/ r = NoRequest
           /\ Relayed(r) /\ ~r.in => r.packets = 1
           /\ r.kind = "address" => r.packets = 1
           /\ Start(r) \in {"data", "status", "report"}
           /\ Relayed(r) => Start(r) \in {"data", "status"}
           /\ r.in => Start(r) = "data"
  <1>1. CASE r = NoRequest
    BY <1>1, DeviceControlAssumption DEF NoRequest, Relayed, Ids, Kinds, Start
  <1>2. CASE r # NoRequest
    <2>1. PICK id \in Ids : r \in Requests(id)
      BY <1>2 DEF RequestSet
    <2>2. CASE r \in [id : {id}, kind : {"device", "other"}, in : {TRUE}, packets : 1..MaxPackets]
      <3>1. r.id = id /\ r.kind \in {"device", "other"} /\ r.in = TRUE
            /\ r.packets \in 1..MaxPackets
        BY <2>2
      <3>2. r.in \in BOOLEAN
        BY <3>1, Zenon
      <3> QED
        BY <3>1, <3>2, DeviceControlAssumption DEF Relayed, Kinds, Start
    <2>3. CASE r \in [id : {id}, kind : {"address", "command"}, in : {FALSE}, packets : {1}]
      <3>1. r.id = id /\ r.kind \in {"address", "command"} /\ r.in = FALSE /\ r.packets = 1
        BY <2>3
      <3>2. r.in \in BOOLEAN
        BY <3>1, Zenon
      <3> QED
        BY <3>1, <3>2, DeviceControlAssumption DEF Relayed, Kinds, Start
    <2>4. CASE r = [id |-> id, kind |-> "qualifier", in |-> TRUE, packets |-> 0]
      BY <2>4, DeviceControlAssumption DEF Relayed, Kinds, Start
    <2>5. CASE r = [id |-> id, kind |-> "report", in |-> FALSE, packets |-> 0]
      BY <2>5, DeviceControlAssumption DEF Relayed, Kinds, Start
    <2> QED
      BY <2>1, <2>2, <2>3, <2>4, <2>5 DEF Requests
  <1> QED
    BY <1>1, <1>2

\* The request of a controller that has seen none is of their type.
LEMMA NoRequestIn == NoRequest \in RequestSet
  BY DEF RequestSet

\* A request of the host.
LEMMA RequestIn ==
    ASSUME NEW id \in Ids, NEW r \in Requests(id)
    PROVE  r \in RequestSet /\ (Relayed(r) => r.packets > 0)
  <1>1. Relayed(r) => r.packets > 0
    <2>1. CASE r \in [id : {id}, kind : {"device", "other"}, in : {TRUE}, packets : 1..MaxPackets]
      BY <2>1, DeviceControlAssumption
    <2>2. CASE r \in [id : {id}, kind : {"address", "command"}, in : {FALSE}, packets : {1}]
      BY <2>2
    <2>3. CASE r.kind \in {"qualifier", "report"}
      BY <2>3 DEF Relayed
    <2>4. CASE r \in {[id |-> id, kind |-> "qualifier", in |-> TRUE, packets |-> 0],
                      [id |-> id, kind |-> "report", in |-> FALSE, packets |-> 0]}
      BY <2>3, <2>4
    <2> QED
      BY <2>1, <2>2, <2>4 DEF Requests
  <1> QED
    BY <1>1 DEF RequestSet

\* A packet has the fields it is made of.
LEMMA PacketFacts ==
    ASSUME NEW id \in Ids, NEW n \in 1..MaxPackets, NEW last \in BOOLEAN
    PROVE  /\ Packet(id, n, last) \in PacketSet /\ Zlp(id) \in PacketSet
           /\ Packet(id, n, last).id = id
           /\ Packet(id, n, last).last = last
  BY DeviceControlAssumption DEF Packet, PacketSet, Zlp

\* The answer grows by its next packet.
LEMMA AnswerFacts ==
    ASSUME NEW r \in RequestSet
    PROVE  /\ Answer(r, 0) = <<>>
           /\ \A n \in Nat :
                 /\ Len(Answer(r, n)) = n
                 /\ Append(Answer(r, n), Packet(r.id, n + 1, n + 1 = r.packets)) = Answer(r, n + 1)
  <1>1. Answer(r, 0) = <<>>
    BY DEF Answer
  <1>2. ASSUME NEW n \in Nat
        PROVE  /\ Len(Answer(r, n)) = n
               /\ Append(Answer(r, n), Packet(r.id, n + 1, n + 1 = r.packets)) = Answer(r, n + 1)
    <2> DEFINE X == {Packet(r.id, i, i = r.packets) : i \in Nat}
    <2>1. Answer(r, n) \in Seq(X) /\ Len(Answer(r, n)) = n
      BY DEF Answer
    <2>2. Answer(r, n + 1) \in Seq(X) /\ Len(Answer(r, n + 1)) = n + 1
      <3> DEFINE m == n + 1
      <3>1. m \in Nat /\ Answer(r, m) \in [1..m -> X]
        BY DEF Answer
      <3> HIDE DEF X, m
      <3>2. Answer(r, m) \in Seq(X) /\ Len(Answer(r, m)) = m
        BY <3>1
      <3> QED
        BY <3>2 DEF m
    <2>3. \A i \in 1..n : Answer(r, n)[i] = Answer(r, n + 1)[i]
      BY DEF Answer
    <2>4. Answer(r, n + 1)[n + 1] = Packet(r.id, n + 1, n + 1 = r.packets)
      BY DEF Answer
    <2> DEFINE p == Packet(r.id, n + 1, n + 1 = r.packets)
               s == Answer(r, n)
               t == Answer(r, n + 1)
    <2>5. p \in X
      OBVIOUS
    <2> HIDE DEF X, p, s, t
    <2>6. Append(s, p) \in Seq(X) /\ Len(Append(s, p)) = n + 1
      BY <2>1, <2>5 DEF s
    <2>7. \A i \in 1..n + 1 : Append(s, p)[i] = t[i]
      BY <2>1, <2>3, <2>4, <2>5 DEF s, t, p
    <2>8. Append(s, p) = t
      BY <2>2, <2>6, <2>7, SeqEqual DEF t
    <2> QED
      BY <2>1, <2>8 DEF s, t, p
  <1> QED
    BY <1>1, <1>2

\* What Head, Tail, Append and concatenation do to messages.
LEMMA MessageFacts ==
    ASSUME NEW s \in Seq(MessageSet), NEW x \in MessageSet
    PROVE  /\ s \o <<>> = s
           /\ s \o <<x>> \in Seq(MessageSet)
           /\ Len(s \o <<x>>) = Len(s) + 1
           /\ \A i \in 1..Len(s) : (s \o <<x>>)[i] = s[i]
           /\ (s \o <<x>>)[Len(s) + 1] = x
           /\ s # <<>> => /\ Tail(s) \in Seq(MessageSet)
                          /\ Len(Tail(s)) = Len(s) - 1
                          /\ \A i \in 1..Len(Tail(s)) : Tail(s)[i] = s[i + 1]
                          /\ Head(s) = s[1] /\ Head(s) \in MessageSet
                          /\ Len(s) > 0
  OBVIOUS

\* The same for packets, of which at most one is on its way.
LEMMA InboxFacts ==
    ASSUME NEW s \in Seq(PacketSet), NEW p \in PacketSet
    PROVE  /\ Append(s, p) \in Seq(PacketSet)
           /\ Append(s, p) # <<>>
           /\ Len(<<p>>) = 1 /\ Head(<<p>>) = p /\ Tail(<<p>>) = <<>>
           /\ Append(<<>>, p) = <<p>> /\ Len(<<>>) = 0
  <1>1. <<p>> \in Seq(PacketSet) /\ Len(<<p>>) = 1 /\ Head(<<p>>) = p
    OBVIOUS
  <1>2. Tail(<<p>>) \in Seq(PacketSet) /\ Len(Tail(<<p>>)) = 0
    BY <1>1
  <1>3. Tail(<<p>>) = <<>>
    BY <1>2, EmptySeq
  <1>4. Append(s, p) \in Seq(PacketSet) /\ Len(Append(s, p)) = Len(s) + 1 /\ Len(s) >= 0
    OBVIOUS
  <1>5. Append(s, p) # <<>>
    BY <1>4
  <1>6. Append(<<>>, p) = <<p>> /\ Len(<<>>) = 0
    OBVIOUS
  <1> QED
    BY <1>1, <1>3, <1>4, <1>5, <1>6

\* The types of the fields.
LEMMA FieldFacts ==
    ASSUME Types
    PROVE  /\ ctl.setup \in RequestSet /\ ctl.addr \in {0, NewAddress}
           /\ ctl.msgs = <<>> /\ ctl.panic \in BOOLEAN
           /\ ctl.pid["in"] \in Bit /\ ctl.pid["out"] \in Bit
           /\ In \in BufferSet /\ In.avail \in BOOLEAN /\ In.full \in BOOLEAN
           /\ In.pid \in Bit /\ In.packet \in PacketSet
           /\ Out \in BufferSet /\ Out.avail \in BOOLEAN /\ Out.full \in BOOLEAN
           /\ Out.pid \in Bit /\ Out.packet \in PacketSet
           /\ slave.request \in RequestSet /\ slave.sent \in Nat
           /\ host.stage \in {"idle", "data", "ack", "status", "report"}
           /\ host.request \in RequestSet /\ host.pid \in Bit /\ host.got \in Seq(PacketSet)
           /\ host.addr \in {0, NewAddress} /\ host.count \in 0..MaxRequests
           /\ Len(host.got) \in Nat /\ Len(inbox) \in Nat /\ Len(toSlave) \in Nat
           /\ handled.request \in RequestSet /\ handled.answer \in Seq(PacketSet)
  <1>1. /\ ctl.setup \in RequestSet /\ ctl.addr \in {0, NewAddress}
        /\ ctl.msgs = <<>> /\ ctl.panic \in BOOLEAN
        /\ ctl.pid \in [Dir -> Bit] /\ ctl.buf \in [Dir -> BufferSet]
    BY DEF Types, CtlSet
  <1>2. ctl.pid["in"] \in Bit /\ ctl.pid["out"] \in Bit /\ In \in BufferSet /\ Out \in BufferSet
    BY <1>1 DEF Dir, In, Out
  <1>3. /\ In.avail \in BOOLEAN /\ In.full \in BOOLEAN /\ In.pid \in Bit /\ In.packet \in PacketSet
        /\ Out.avail \in BOOLEAN /\ Out.full \in BOOLEAN /\ Out.pid \in Bit
        /\ Out.packet \in PacketSet
    BY <1>2 DEF BufferSet
  <1>4. /\ slave.request \in RequestSet /\ slave.sent \in Nat
        /\ host.stage \in {"idle", "data", "ack", "status", "report"}
        /\ host.request \in RequestSet /\ host.pid \in Bit /\ host.got \in Seq(PacketSet)
        /\ host.addr \in {0, NewAddress} /\ host.count \in 0..MaxRequests
        /\ handled.request \in RequestSet /\ handled.answer \in Seq(PacketSet)
    BY DEF Types, HostSet
  <1>5. Len(host.got) \in Nat /\ Len(inbox) \in Nat /\ Len(toSlave) \in Nat
    BY <1>4 DEF Types
  <1> QED
    BY <1>1, <1>2, <1>3, <1>4, <1>5

-----------------------------------------------------------------------------
(* Every step preserves the invariant.                                     *)

\* What the host's use of a buffer leaves of ctl (HostIn, HostOut).
Used(c, d) == [c EXCEPT !.buf[d].avail = FALSE, !.buf[d].full = d = "out"]

\* The host reads or fills the buffer of endpoint 0.
LEMMA EndpointUsed ==
    ASSUME NEW c \in CtlSet, NEW d \in Dir
    PROVE  LET e == Used(c, d)
           IN  /\ e \in CtlSet
               /\ e.setup = c.setup /\ e.pid = c.pid /\ e.addr = c.addr
               /\ e.panic = c.panic /\ e.msgs = c.msgs
               /\ ~e.buf[d].avail /\ (e.buf[d].full <=> d = "out")
               /\ \A o \in Dir \ {d} : e.buf[o] = c.buf[o]
  <1> DEFINE e == Used(c, d)
             b == [c.buf[d] EXCEPT !.avail = FALSE, !.full = d = "out"]
             bufs == [c.buf EXCEPT ![d] = b]
  <1>1. e = [c EXCEPT !.buf = bufs]
    BY DEF CtlSet, Used
  <1> HIDE DEF e
  <1>2. b \in BufferSet /\ ~b.avail /\ (b.full <=> d = "out")
    BY DEF CtlSet, BufferSet
  <1> HIDE DEF b
  <1>3. bufs \in [Dir -> BufferSet] /\ bufs[d] = b /\ \A o \in Dir \ {d} : bufs[o] = c.buf[o]
    BY <1>2 DEF CtlSet
  <1> HIDE DEF bufs
  <1>4. /\ e \in CtlSet /\ e.buf = bufs
        /\ e.setup = c.setup /\ e.pid = c.pid /\ e.addr = c.addr
        /\ e.panic = c.panic /\ e.msgs = c.msgs
    BY <1>1, <1>3 DEF CtlSet
  <1> QED
    BY <1>2, <1>3, <1>4 DEF e

\* A transfer starts.
LEMMA XferStarted ==
    ASSUME NEW c \in CtlSet, NEW d \in Dir, NEW p \in PacketSet
    PROVE  LET e == XferStart(c, d, p)
           IN  /\ e \in CtlSet
               /\ e.setup = c.setup /\ e.addr = c.addr /\ e.panic = c.panic /\ e.msgs = c.msgs
               /\ e.pid[d] = 1 - c.pid[d]
               /\ e.buf[d].avail /\ (e.buf[d].full <=> d = "in")
               /\ e.buf[d].pid = c.pid[d] /\ e.buf[d].packet = p
               /\ \A o \in Dir \ {d} : e.pid[o] = c.pid[o] /\ e.buf[o] = c.buf[o]
  <1> DEFINE e == XferStart(c, d, p)
             b == [avail |-> TRUE, full |-> d = "in", pid |-> c.pid[d], packet |-> p]
             bufs == [c.buf EXCEPT ![d] = b]
             pids == [c.pid EXCEPT ![d] = 1 - @]
  <1>1. e = [c EXCEPT !.pid = pids, !.buf = bufs]
    BY DEF CtlSet, XferStart
  <1> HIDE DEF e
  <1>2. /\ b \in BufferSet /\ b.avail /\ (b.full <=> d = "in")
        /\ b.pid = c.pid[d] /\ b.packet = p
    BY DEF CtlSet, BufferSet
  <1> HIDE DEF b
  <1>3. bufs \in [Dir -> BufferSet] /\ bufs[d] = b /\ \A o \in Dir \ {d} : bufs[o] = c.buf[o]
    BY <1>2 DEF CtlSet
  <1>4. /\ pids \in [Dir -> Bit] /\ pids[d] = 1 - c.pid[d]
        /\ \A o \in Dir \ {d} : pids[o] = c.pid[o]
    BY DEF CtlSet, Bit
  <1> HIDE DEF bufs, pids
  <1>5. /\ e \in CtlSet /\ e.buf = bufs /\ e.pid = pids
        /\ e.setup = c.setup /\ e.addr = c.addr /\ e.panic = c.panic /\ e.msgs = c.msgs
    BY <1>1, <1>3, <1>4 DEF CtlSet
  <1> QED
    BY <1>2, <1>3, <1>4, <1>5 DEF e

\* A message is enqueued.
LEMMA Sent ==
    ASSUME NEW c \in CtlSet, NEW msg \in MessageSet
    PROVE  LET e == Send(c, msg)
           IN  /\ e \in CtlSet /\ e.msgs = Append(c.msgs, msg)
               /\ e.setup = c.setup /\ e.addr = c.addr /\ e.panic = c.panic
               /\ e.pid = c.pid /\ e.buf = c.buf
  <1> DEFINE m == Append(c.msgs, msg)
  <1>1. m \in Seq(MessageSet)
    BY DEF CtlSet
  <1>2. Send(c, msg) = [c EXCEPT !.msgs = m]
    BY DEF CtlSet, Send
  <1> HIDE DEF m
  <1>3. LET e == [c EXCEPT !.msgs = m]
        IN  /\ e \in CtlSet /\ e.msgs = m
            /\ e.setup = c.setup /\ e.addr = c.addr /\ e.panic = c.panic
            /\ e.pid = c.pid /\ e.buf = c.buf
    BY <1>1 DEF CtlSet
  <1> QED
    BY <1>2, <1>3 DEF m

\* A transfer on endpoint 0 is completed.
LEMMA Completion ==
    ASSUME NEW c \in CtlSet, NEW d \in Dir
    PROVE  LET e == BufferDone(c, d)
           IN  /\ e \in CtlSet /\ e.setup = c.setup /\ e.msgs = c.msgs
               /\ e.pid = c.pid /\ e.buf = c.buf
               /\ e.panic => c.panic \/ (c.buf[d].full <=> d = "in")
               /\ e.addr = IF d = "in" /\ c.setup.kind = "address" THEN NewAddress ELSE c.addr
  <1> DEFINE a == IF d = "in" /\ c.setup.kind = "address" THEN NewAddress ELSE c.addr
             b == c.panic \/ c.buf[d].full = (d = "in")
             e == BufferDone(c, d)
  <1>1. e = [c EXCEPT !.panic = b, !.addr = a]
    BY DEF BufferDone, CtlSet
  <1>2. b \in BOOLEAN /\ a \in {0, NewAddress}
    BY DEF CtlSet
  <1>3. b => c.panic \/ (c.buf[d].full <=> d = "in")
    BY DEF CtlSet, BufferSet
  <1> HIDE DEF a, b, e
  <1>4. /\ e \in CtlSet /\ e.setup = c.setup /\ e.msgs = c.msgs
        /\ e.pid = c.pid /\ e.buf = c.buf /\ (e.panic <=> b) /\ e.addr = a
    BY <1>1, <1>2 DEF CtlSet
  <1> QED
    BY <1>3, <1>4 DEF a, e

\* A new setup packet: what the driver holds afterwards.
LEMMA SetupHandled ==
    ASSUME NEW c \in CtlSet, c.msgs = <<>>, packet \in RequestSet
    PROVE  LET e == SetupReceived(c)
           IN  /\ e \in CtlSet /\ e.setup = packet /\ e.addr = c.addr /\ e.panic = c.panic
               /\ packet.kind = "qualifier" =>
                    /\ e.msgs = <<>> /\ e.pid["in"] = 0 /\ e.pid["out"] = 1
                    /\ e.buf["in"].avail /\ e.buf["in"].pid = 1
                    /\ e.buf["out"] = c.buf["out"]
               /\ packet.kind = "report" =>
                    /\ e.msgs = <<>> /\ e.pid["in"] = 1 /\ e.pid["out"] = 0
                    /\ e.buf["out"].avail /\ e.buf["out"].pid = 1
                    /\ e.buf["in"] = c.buf["in"]
               /\ Relayed(packet) =>
                    /\ \E type \in {"setup", "address"} : e.msgs = <<Message(type, packet)>>
                    /\ e.pid["in"] = 1 /\ e.pid["out"] = 1 /\ e.buf = c.buf
  <1> DEFINE ones == [d \in Dir |-> 1]
             s == [ResetPid(c) EXCEPT !.setup = packet]
             e == SetupReceived(c)
  <1>1. ones \in [Dir -> Bit] /\ ones["in"] = 1 /\ ones["out"] = 1
    BY DEF Dir, Bit
  <1>2. s = [c EXCEPT !.pid = ones, !.setup = packet]
    BY DEF ResetPid, CtlSet
  <1>3. e = CASE packet.kind = "address"   -> Send(s, Message("address", packet))
              [] packet.kind = "qualifier" -> XferStart(s, "in", Zlp(packet.id))
              [] packet.kind = "report"    -> XferStart(s, "out", Zlp(packet.id))
              [] OTHER                     -> Send(s, Message("setup", packet))
    BY DEF SetupReceived
  <1> HIDE DEF ones, s, e
  <1>4. /\ s \in CtlSet /\ s.setup = packet /\ s.addr = c.addr /\ s.panic = c.panic
        /\ s.msgs = <<>> /\ s.buf = c.buf /\ s.pid["in"] = 1 /\ s.pid["out"] = 1
    BY <1>1, <1>2 DEF CtlSet
  <1>5. "in" \in Dir /\ "out" \in Dir /\ "in" \in Dir \ {"out"} /\ "out" \in Dir \ {"in"}
    BY DEF Dir
  <1>6. Zlp(packet.id) \in PacketSet
    BY RequestFacts, DeviceControlAssumption DEF Zlp, Packet, PacketSet
  <1>7. ASSUME NEW type \in {"setup", "address"}, e = Send(s, Message(type, packet))
        PROVE  /\ e \in CtlSet /\ e.setup = packet /\ e.addr = c.addr /\ e.panic = c.panic
               /\ e.msgs = <<Message(type, packet)>>
               /\ e.pid["in"] = 1 /\ e.pid["out"] = 1 /\ e.buf = c.buf
    <2> DEFINE msg == Message(type, packet)
    <2>1. msg \in MessageSet
      BY DEF Message, MessageSet
    <2>2. Append(<<>>, msg) = <<msg>>
      OBVIOUS
    <2> HIDE DEF msg
    <2>3. e = Send(s, msg)
      BY <1>7 DEF msg
    <2>4. /\ e \in CtlSet /\ e.setup = packet /\ e.addr = c.addr /\ e.panic = c.panic
          /\ e.msgs = <<msg>> /\ e.pid["in"] = 1 /\ e.pid["out"] = 1 /\ e.buf = c.buf
      BY <1>4, <2>1, <2>2, <2>3, Sent
    <2> QED
      BY <2>4 DEF msg
  <1>8. CASE packet.kind = "address"
    BY <1>3, <1>7, <1>8 DEF Relayed, e
  <1>9. CASE packet.kind = "qualifier"
    <2>1. e = XferStart(s, "in", Zlp(packet.id))
      BY <1>3, <1>9
    <2> QED
      BY <1>4, <1>5, <1>6, <1>9, <2>1, XferStarted DEF Relayed, e
  <1>10. CASE packet.kind = "report"
    <2>1. e = XferStart(s, "out", Zlp(packet.id))
      BY <1>3, <1>10
    <2> QED
      BY <1>4, <1>5, <1>6, <1>10, <2>1, XferStarted DEF Relayed, e
  <1>11. CASE packet.kind \notin {"address", "qualifier", "report"}
    BY <1>3, <1>7, <1>11 DEF Relayed, e
  <1> QED
    BY <1>8, <1>9, <1>10, <1>11 DEF e

\* A step of core 0 ends.
LEMMA Enacted ==
    ASSUME NEW c \in CtlSet, Enact(c)
    PROVE  /\ ctl' \in CtlSet /\ ctl'.msgs = <<>> /\ toSlave' = toSlave \o c.msgs
           /\ ctl'.setup = c.setup /\ ctl'.addr = c.addr /\ ctl'.panic = c.panic
           /\ ctl'.pid = c.pid /\ In' = c.buf["in"] /\ Out' = c.buf["out"]
  <1>1. <<>> \in Seq(MessageSet)
    OBVIOUS
  <1>2. ctl' = [c EXCEPT !.msgs = <<>>] /\ toSlave' = toSlave \o c.msgs
    BY DEF Enact
  <1> QED
    BY <1>1, <1>2 DEF CtlSet, In, Out

\* Which packet core 0 receives.
LEMMA Received ==
    ASSUME IInv, dir = "reading", inbox # <<>>, NEW p, Register(p)
    PROVE  LET r == host.request
               n == Len(host.got)
           IN  /\ status = {} /\ Begun /\ Relayed(r) /\ NoneToTake /\ host.stage # "idle"
               /\ ctl.setup = r /\ r \in RequestSet /\ r.packets \in 0..MaxPackets
               /\ slave.request = r /\ slave.sent = n + 1 /\ n \in Nat /\ n + 1 <= r.packets
               /\ p = Packet(r.id, slave.sent, slave.sent = r.packets) /\ p \in PacketSet
               /\ p.id = r.id /\ (p.last <=> slave.sent = r.packets)
               /\ host.got = Answer(r, n) /\ host.stage = Start(r)
               /\ Len(inbox) = 1 /\ inbox' = <<>> /\ Registered = n
               /\ ~In.avail /\ ~Out.avail /\ ctl.pid["out"] = 1 /\ ctl.pid["in"] = host.pid
               /\ response' = Answer(r, n + 1)
  <1> DEFINE r == host.request
             n == Len(host.got)
             next == Packet(r.id, slave.sent, slave.sent = r.packets)
  <1>1. ~SlaveDone
    BY DEF SlaveDone
  <1>2. Begun /\ host.stage # "idle" /\ Relayed(r) /\ NoneToTake /\ ctl.setup = r
    BY <1>1 DEF IInv, QuietInv, FlowInv, LocalInv, SentInv, StatusInv
  <1>3. status = {}
    BY <1>2 DEF IInv, Types, StatusInv, Dir, Begun
  <1>4. /\ r \in RequestSet /\ r.packets \in 0..MaxPackets /\ n \in Nat /\ r.id \in Ids
        /\ slave.sent \in Nat /\ Len(inbox) \in Nat
    BY FieldFacts, RequestFacts DEF IInv
  <1>5. /\ slave.request = r /\ slave.sent <= r.packets /\ host.got = Answer(r, n)
        /\ inbox = <<next>> /\ Len(inbox) <= 1 /\ ~In.avail /\ slave.sent = n + 1
        /\ n < r.packets => host.stage = Start(r)
    BY <1>2 DEF IInv, FlowInv, AnsweringInv
  <1>6. next \in PacketSet
    <2>1. slave.sent \in 1..MaxPackets
      BY <1>4, <1>5, DeviceControlAssumption
    <2> QED
      BY <1>4, <2>1, PacketFacts
  <1>7. p = next /\ inbox' = <<>> /\ Len(inbox) = 1
    BY <1>5, <1>6, InboxFacts DEF Register
  <1>8. p.last <=> slave.sent = r.packets
    <2>1. ASSUME NEW b \in BOOLEAN, NEW q, q = Packet(r.id, slave.sent, b) PROVE q.last <=> b
      BY <2>1 DEF Packet
    <2> QED
      BY <1>7, <2>1, Zenon
  <1>9. p.id = r.id
    BY <1>7 DEF Packet
  <1>10. Registered = n
    BY <1>4, <1>5, <1>7 DEF Registered
  <1>11. /\ response = Answer(r, n) /\ ctl.pid["out"] = 1 /\ ~Out.avail
    BY <1>2, <1>4, <1>5, <1>10 DEF IInv, FlowInv, AggregatorInv
  <1>12. response' = Answer(r, n + 1)
    <2>1. response' = Append(Answer(r, n), Packet(r.id, n + 1, n + 1 = r.packets))
      BY <1>5, <1>7, <1>11 DEF Register
    <2> QED
      BY <1>4, <2>1, AnswerFacts, Zenon
  <1>13. ctl.pid["in"] = host.pid
    BY <1>2, <1>5 DEF IInv, PidInv
  <1> QED
    BY <1>2, <1>3, <1>4, <1>5, <1>6, <1>7, <1>8, <1>9, <1>10, <1>11, <1>12, <1>13

\* The host gives up a request the master answers itself: both buffers are empty.
LEMMA HostGiveUpStep ==
    ASSUME IInv, HostGiveUp
    PROVE  IInv'
  <1>1. /\ host' \in HostSet
        /\ host'.stage = "idle" /\ host'.request = host.request /\ host'.pid = host.pid
        /\ host'.got = host.got /\ host'.addr = host.addr
    BY DEF IInv, Types, HostSet, HostGiveUp
  <1>2. /\ UNCHANGED <<ctl, turn, dir, response, packet, status, toSlave, inbox, slave, handled>>
        /\ In' = In /\ Out' = Out /\ (Begun <=> Begun') /\ NoneToTake' = NoneToTake
        /\ Begun /\ status = {} /\ ~Relayed(host.request) /\ host.stage # "idle"
        /\ SlaveDone /\ ~In.avail /\ ~Out.avail
    BY FieldFacts DEF IInv, FlowInv, LocalInv, HostGiveUp, core0Vars, slaveVars, In, Out, Begun,
       NoneToTake
  <1>3. Types'
    BY <1>1, <1>2 DEF IInv, Types
  <1>4. StatusInv'
    BY <1>1, <1>2 DEF IInv, StatusInv
  <1>5. QuietInv' /\ SlaveDone'
    BY <1>1, <1>2 DEF QuietInv, SlaveDone
  <1>6. PidInv'
    BY <1>1, <1>2 DEF IInv, PidInv
  <1>7. FlowInv'
    BY <1>1, <1>2, <1>5 DEF IInv, FlowInv, WaitingInv, SentInv, AnsweringInv, AggregatorInv,
       LocalInv
  <1>8. AnswerHandledWhole'
    BY <1>2 DEF IInv, AnswerHandledWhole
  <1> QED
    BY <1>3, <1>4, <1>5, <1>6, <1>7, <1>8 DEF IInv

\* The host resets the bus between two requests: nothing is on its way.
LEMMA HostResetStep ==
    ASSUME Quick, IInv, HostReset
    PROVE  IInv'
  <1>1. /\ host' \in HostSet
        /\ host'.stage = "idle" /\ host'.request = host.request /\ host'.pid = host.pid
        /\ host'.got = host.got /\ host'.addr = 0
    <2>1. host.count + 1 \in 0..MaxRequests
      BY FieldFacts, DeviceControlAssumption DEF IInv, HostReset
    <2> QED
      BY <2>1 DEF IInv, Types, HostSet, HostReset
  <1>2. /\ UNCHANGED <<ctl, turn, dir, response, packet, toSlave, inbox, slave, handled>>
        /\ In' = In /\ Out' = Out /\ Begun /\ Begun' /\ NoneToTake' = NoneToTake
        /\ status = {} /\ status' = {"reset"} /\ host.stage = "idle"
        /\ SlaveDone /\ NoneToTake /\ ~In.avail /\ ~Out.avail
    BY DEF IInv, QuietInv, SlaveDone, HostReset, Settled, core0Vars, slaveVars, In, Out, Begun,
       NoneToTake
  <1>3. Types'
    BY <1>1, <1>2 DEF IInv, Types
  <1>4. StatusInv'
    BY <1>1, <1>2 DEF IInv, StatusInv
  <1>5. QuietInv' /\ SlaveDone'
    BY <1>1, <1>2 DEF QuietInv, SlaveDone
  <1>6. PidInv'
    BY <1>1, <1>2 DEF IInv, PidInv
  <1>7. FlowInv'
    BY <1>1, <1>2, <1>5 DEF IInv, FlowInv, WaitingInv, SentInv, AnsweringInv, AggregatorInv,
       LocalInv, Registered
  <1>8. AnswerHandledWhole'
    BY <1>2 DEF IInv, AnswerHandledWhole
  <1> QED
    BY <1>3, <1>4, <1>5, <1>6, <1>7, <1>8 DEF IInv

\* The host begins a request: nothing is left of the one before, nor in the aggregator.
LEMMA HostSetupStep ==
    ASSUME Quick, IInv, NEW r \in Requests(host.count + 1), HostSetup(r)
    PROVE  IInv'
  <1>1. r \in RequestSet /\ (Relayed(r) => r.packets > 0)
    <2>1. host.count + 1 \in Ids
      BY FieldFacts, DeviceControlAssumption DEF IInv, HostSetup, Ids
    <2> QED
      BY <2>1, RequestIn
  <1>2. Start(r) \in {"data", "status", "report"}
    BY <1>1, RequestFacts
  <1>3. /\ host' \in HostSet
        /\ host'.stage = Start(r) /\ host'.request = r /\ host'.pid = 1
        /\ host'.got = <<>> /\ host'.addr = host.addr
    <2>1. host.count + 1 \in 0..MaxRequests
      BY FieldFacts, DeviceControlAssumption DEF IInv, HostSetup
    <2>2. host' = [stage |-> Start(r), request |-> r, pid |-> 1, got |-> <<>>,
                   addr |-> host.addr, count |-> host.count + 1]
      BY DEF IInv, Types, HostSet, HostSetup, Start
    <2>3. host.addr \in {0, NewAddress} /\ <<>> \in Seq(PacketSet)
      BY FieldFacts DEF IInv
    <2> QED
      BY <1>1, <1>2, <2>1, <2>2, <2>3 DEF HostSet, Bit
  <1>4. /\ UNCHANGED <<ctl, turn, dir, response, toSlave, inbox, slave, handled>>
        /\ In' = In /\ Out' = Out /\ Begun /\ ~Begun' /\ packet' = r
        /\ status = {} /\ status' = {"setup"} /\ host.stage = "idle"
        /\ SlaveDone /\ NoneToTake /\ ~In.avail /\ ~Out.avail
    BY DEF IInv, QuietInv, SlaveDone, HostSetup, Settled, core0Vars, slaveVars, In, Out, Begun
  <1>5. Types'
    BY <1>1, <1>3, <1>4 DEF IInv, Types
  <1>6. StatusInv'
    BY <1>3, <1>4 DEF IInv, StatusInv
  <1>7. QuietInv' /\ SlaveDone'
    BY <1>3, <1>4 DEF QuietInv, SlaveDone, NoneToTake
  <1>8. PidInv'
    BY <1>3, <1>4 DEF IInv, PidInv
  <1>9. IF dir = "reading" THEN response = <<>> ELSE turn = "event"
    <2>1. CASE Relayed(host.request)
      <3>1. inbox = <<>> /\ Len(inbox) = 0 /\ slave.sent = slave.request.packets
        BY <1>4 DEF SlaveDone
      <3>2. slave.request = host.request /\ slave.request.packets \in Nat
        BY <1>4, <2>1, FieldFacts, RequestFacts, DeviceControlAssumption
        DEF IInv, FlowInv, AnsweringInv
      <3>3. Registered = host.request.packets
        BY <3>1, <3>2 DEF Registered
      <3>4. /\ dir = "writing" /\ turn = "irq" => In.avail \/ "in" \in status
            /\ dir = "reading" => response = <<>>
        BY <1>4, <2>1, <3>2, <3>3 DEF IInv, FlowInv, AggregatorInv
      <3> QED
        BY <1>4, <3>4 DEF IInv, Types
    <2>2. CASE ~Relayed(host.request)
      BY <2>2, <1>4 DEF IInv, FlowInv, LocalInv
    <2> QED
      BY <2>1, <2>2
  <1>10. FlowInv'
    BY <1>1, <1>3, <1>4, <1>9 DEF FlowInv, WaitingInv, SentInv, AnsweringInv, AggregatorInv,
       LocalInv
  <1>11. AnswerHandledWhole'
    BY <1>4 DEF IInv, AnswerHandledWhole
  <1> QED
    BY <1>5, <1>6, <1>7, <1>8, <1>10, <1>11 DEF IInv

\* Core 0 finds no message.
LEMMA NothingReceivedStep ==
    ASSUME IInv, NothingReceived
    PROVE  IInv'
  <1>1. /\ UNCHANGED <<ctl, dir, response, packet, status, toSlave, inbox, slave, host, handled>>
        /\ In' = In /\ Out' = Out /\ (Begun <=> Begun') /\ NoneToTake' = NoneToTake
        /\ SlaveDone' = SlaveDone /\ Registered' = Registered
        /\ turn' = "irq" /\ dir = "reading"
    BY DEF NothingReceived, SlaveEvent, slaveVars, In, Out, Begun, NoneToTake, SlaveDone, Registered
  <1>2. Types' /\ StatusInv' /\ QuietInv' /\ PidInv' /\ AnswerHandledWhole'
    BY <1>1 DEF IInv, Types, StatusInv, QuietInv, PidInv, AnswerHandledWhole
  <1>3. FlowInv'
    BY <1>1 DEF IInv, FlowInv, WaitingInv, SentInv, AnsweringInv, AggregatorInv, LocalInv
  <1> QED
    BY <1>2, <1>3 DEF IInv

\* The aggregator is emptied after the whole answer was registered.
LEMMA SendUpstreamStep ==
    ASSUME IInv, SendUpstream
    PROVE  IInv'
  <1>1. /\ UNCHANGED <<ctl, packet, status, toSlave, inbox, slave, host, handled>>
        /\ In' = In /\ Out' = Out /\ (Begun <=> Begun') /\ NoneToTake' = NoneToTake
        /\ SlaveDone' = SlaveDone /\ Registered' = Registered
        /\ turn' = "irq" /\ dir = "writing" /\ dir' = "reading" /\ response' = <<>>
    BY DEF SendUpstream, SlaveEvent, slaveVars, In, Out, Begun, NoneToTake, SlaveDone, Registered
  <1>2. Types' /\ StatusInv' /\ QuietInv' /\ PidInv' /\ AnswerHandledWhole'
    BY <1>1 DEF IInv, Types, StatusInv, QuietInv, PidInv, AnswerHandledWhole
  <1>3. host.request.packets \in Int
    BY FieldFacts, RequestFacts, DeviceControlAssumption DEF IInv
  <1>4. WaitingInv' /\ SentInv' /\ AnsweringInv' /\ LocalInv'
    BY <1>1, <1>3 DEF IInv, FlowInv, WaitingInv, SentInv, AnsweringInv, LocalInv
  <1>5. AggregatorInv'
    BY <1>1, <1>3 DEF IInv, FlowInv, AggregatorInv
  <1> QED
    BY <1>2, <1>4, <1>5 DEF IInv, FlowInv

\* The slave answers: the packet on its way is the one after those the host has.
LEMMA SlaveAnswerStep ==
    ASSUME Quick, IInv, SlaveAnswer
    PROVE  IInv'
  <1> DEFINE r == host.request
             n == slave.sent + 1
             next == Packet(r.id, n, n = r.packets)
  <1>1. /\ status = {} /\ inbox = <<>> /\ ~In.avail /\ Begun /\ Begun'
        /\ slave.sent < slave.request.packets /\ ~SlaveDone
        /\ UNCHANGED <<ctl, turn, dir, response, packet, status, toSlave, host, handled>>
        /\ In' = In /\ Out' = Out /\ NoneToTake' = NoneToTake
    BY FieldFacts, RequestFacts, DeviceControlAssumption
    DEF IInv, SlaveAnswer, Settled, SlaveDone, core0Vars, In, Out, Begun, NoneToTake
  <1>2. host.stage # "idle" /\ Relayed(r) /\ NoneToTake /\ slave.request = r
    BY <1>1, FieldFacts, RequestFacts, DeviceControlAssumption
    DEF IInv, QuietInv, FlowInv, LocalInv, SentInv, AnsweringInv
  <1>3. r \in RequestSet /\ r.id \in Ids /\ r.packets \in 0..MaxPackets /\ slave.sent \in Nat
        /\ n \in 1..MaxPackets
    BY <1>1, <1>2, FieldFacts, RequestFacts, DeviceControlAssumption DEF IInv
  <1>4. next \in PacketSet
    BY <1>3, PacketFacts
  <1>5. /\ inbox' = <<next>> /\ inbox' # <<>> /\ Len(inbox) = 0 /\ Len(inbox') = 1
        /\ inbox' \in Seq(PacketSet)
        /\ slave' = [request |-> r, sent |-> n]
    <2>1. inbox' = Append(<<>>, next)
      BY <1>1, <1>2 DEF SlaveAnswer
    <2>2. inbox' = <<next>> /\ inbox' # <<>> /\ Len(inbox') = 1 /\ inbox' \in Seq(PacketSet)
      BY <2>1, <1>4
    <2> QED
      BY <1>1, <1>2, <2>2 DEF SlaveAnswer, IInv, Types
  <1>6. Registered' = Registered
    BY <1>3, <1>5 DEF Registered
  <1>7. Types'
    BY <1>1, <1>3, <1>5 DEF IInv, Types
  <1>8. StatusInv' /\ QuietInv' /\ PidInv' /\ AnswerHandledWhole'
    BY <1>1, <1>2 DEF IInv, StatusInv, QuietInv, PidInv, AnswerHandledWhole
  <1>9. WaitingInv' /\ SentInv' /\ LocalInv'
    BY <1>1, <1>2 DEF WaitingInv, SentInv, LocalInv
  <1>10. AnsweringInv'
    BY <1>1, <1>2, <1>3, <1>5 DEF IInv, FlowInv, AnsweringInv
  <1>11. AggregatorInv'
    BY <1>1, <1>2, <1>6 DEF IInv, FlowInv, AggregatorInv
  <1> QED
    BY <1>7, <1>8, <1>9, <1>10, <1>11 DEF IInv, FlowInv

\* The host reads: the packet is the next of its answer, and has the PID it expects.
LEMMA HostInStep ==
    ASSUME IInv, HostIn
    PROVE  IInv'
  <1> DEFINE r == host.request
             n == Len(host.got)
             p == In.packet
  <1>1. /\ In.avail /\ Begun /\ host.stage \in {"data", "status"}
        /\ In.pid = host.pid /\ ctl.pid["in"] = 1 - host.pid
        /\ (Out.avail => host.stage = "data" /\ Out.pid = 1)
        /\ host.pid \in Bit /\ p \in PacketSet /\ r \in RequestSet /\ ctl.setup = r
    BY FieldFacts DEF IInv, HostIn, In, QuietInv, PidInv, StatusInv
  <1>2. /\ UNCHANGED <<turn, dir, response, packet, toSlave, inbox, slave, handled>>
        /\ status' = status \cup {"in"} /\ Begun'
        /\ NoneToTake' = NoneToTake /\ Registered' = Registered /\ SlaveDone' = SlaveDone
    BY <1>1 DEF HostIn, slaveVars, Begun, NoneToTake, Registered, SlaveDone
  <1>3. /\ ctl' \in CtlSet /\ ctl'.msgs = <<>>
        /\ ctl'.setup = ctl.setup /\ ctl'.pid = ctl.pid /\ ctl'.addr = ctl.addr
        /\ ctl'.panic = ctl.panic
        /\ ~In'.avail /\ ~In'.full /\ Out' = Out
    <2>1. /\ ctl \in CtlSet /\ ctl.msgs = <<>> /\ "in" \in Dir /\ "out" \in Dir \ {"in"}
          /\ ctl' = Used(ctl, "in")
      BY DEF Used, IInv, Types, HostIn, Dir
    <2>2. /\ ctl' \in CtlSet /\ ctl'.msgs = ctl.msgs
          /\ ctl'.setup = ctl.setup /\ ctl'.pid = ctl.pid /\ ctl'.addr = ctl.addr
          /\ ctl'.panic = ctl.panic
          /\ ~ctl'.buf["in"].avail /\ ~ctl'.buf["in"].full
          /\ ctl'.buf["out"] = ctl.buf["out"]
      BY <2>1, EndpointUsed
    <2> QED
      BY <2>1, <2>2 DEF In, Out
  <1>4. /\ host' \in HostSet
        /\ host'.request = r /\ host'.pid = 1 - host.pid /\ host'.got = Append(host.got, p)
        /\ host'.stage = IF ~p.last THEN host.stage
                         ELSE IF host.stage = "data" THEN "ack" ELSE "idle"
        /\ p.last /\ r.kind = "address" => host'.addr = NewAddress
        /\ ~(p.last /\ r.kind = "address") => host'.addr = host.addr
    <2>1. 1 - host.pid \in Bit /\ Append(host.got, p) \in Seq(PacketSet)
      BY <1>1, FieldFacts DEF IInv, Bit
    <2> QED
      BY <1>1, <2>1, FieldFacts DEF IInv, Types, HostIn, HostSet, In
  <1>5. status \in SUBSET Dir /\ host.stage # "idle" /\ "in" \notin status
    BY <1>1 DEF IInv, Types, StatusInv, Begun
  <1>6. Relayed(r) =>
          /\ NoneToTake /\ slave.request = r /\ inbox = <<>> /\ Registered = slave.sent
          /\ slave.sent = n + 1 /\ slave.sent <= r.packets /\ n < r.packets
          /\ p = Packet(r.id, slave.sent, slave.sent = r.packets)
          /\ (p.last <=> slave.sent = r.packets) /\ host.stage = Start(r)
          /\ host.got = Answer(r, n)
    <2>1. ASSUME Relayed(r) PROVE NoneToTake
      BY <1>1, <2>1 DEF IInv, FlowInv, SentInv
    <2>2. ASSUME Relayed(r)
          PROVE  /\ slave.request = r /\ inbox = <<>> /\ slave.sent = n + 1
                 /\ slave.sent <= r.packets
                 /\ p = Packet(r.id, slave.sent, slave.sent = r.packets)
                 /\ n < r.packets => host.stage = Start(r)
                 /\ host.got = Answer(r, n)
      BY <1>1, <2>1, <2>2 DEF IInv, FlowInv, AnsweringInv
    <2>3. n \in Nat /\ r.packets \in Nat /\ Len(<<>>) = 0
      BY <1>1, FieldFacts, RequestFacts, DeviceControlAssumption DEF IInv
    <2>4. Relayed(r) => Registered = slave.sent
      BY <2>2, <2>3, FieldFacts DEF Registered, IInv
    <2>5. Relayed(r) => (p.last <=> slave.sent = r.packets)
      <3>1. ASSUME NEW b \in BOOLEAN, NEW q, q = Packet(r.id, slave.sent, b) PROVE q.last <=> b
        BY <3>1 DEF Packet
      <3> QED
        BY <2>2, <3>1, Zenon
    <2> QED
      BY <2>1, <2>2, <2>3, <2>4, <2>5
  <1>7. ~Relayed(r) => SlaveDone /\ inbox = <<>> /\ host.stage = "data" /\ ~Out.avail
    BY <1>1 DEF IInv, FlowInv, LocalInv, SlaveDone
  <1>8. r.kind = "address" => Relayed(r) /\ r.packets = 1
    BY <1>1, RequestFacts DEF Relayed
  <1>9. Types'
    BY <1>2, <1>3, <1>4 DEF IInv, Types, Dir
  <1>10. StatusInv'
    <2>1. r.kind = "address" => p.last
      <3>1. n \in Nat /\ slave.sent \in Nat
        BY FieldFacts DEF IInv
      <3> QED
        BY <1>6, <1>8, <3>1
    <2> QED
      BY <1>1, <1>2, <1>3, <1>4, <1>5, <1>6, <1>7, <2>1 DEF IInv, StatusInv, Dir
  <1>11. host'.stage = "idle" => SlaveDone /\ host.stage = "status"
    BY <1>4, <1>5, <1>6, <1>7, <1>1 DEF SlaveDone
  <1>12. QuietInv' /\ PidInv'
    BY <1>1, <1>2, <1>3, <1>4, <1>11, FieldFacts DEF IInv, QuietInv, PidInv, Bit
  <1>13. WaitingInv' /\ SentInv' /\ LocalInv'
    BY <1>1, <1>2, <1>3, <1>4, <1>6, <1>7 DEF IInv, FlowInv, WaitingInv, SentInv, LocalInv
  <1>14. AnsweringInv'
    <2>1. CASE Relayed(r)
      <3>1. n \in Nat /\ Len(host'.got) = n + 1 /\ host'.got = Answer(r, n + 1)
        <4>1. n \in Nat /\ r \in RequestSet
          BY <1>1, FieldFacts DEF IInv
        <4>2. host'.got = Append(Answer(r, n), Packet(r.id, n + 1, n + 1 = r.packets))
          BY <1>4, <1>6, <2>1
        <4>3. n + 1 \in Nat
          BY <4>1
        <4>4. host'.got = Answer(r, n + 1)
          BY <4>1, <4>2, AnswerFacts, Zenon
        <4> QED
          BY <4>1, <4>3, <4>4, AnswerFacts
      <3>2. /\ slave.sent < r.packets => host'.stage = Start(r)
            /\ slave.sent = r.packets => host'.stage = "idle" \/ (host'.stage = "ack" /\ r.in)
        BY <1>1, <1>4, <1>6, <2>1, RequestFacts DEF Start
      <3> QED
        <4>1. /\ r = host'.request /\ slave' = slave /\ inbox' = <<>> /\ ~In'.avail
              /\ slave.request = r /\ slave.sent = Len(host'.got)
              /\ host'.got = Answer(r, Len(host'.got)) /\ Len(host'.got) > 0
              /\ Len(inbox') = 0 /\ slave.sent <= r.packets
          BY <1>2, <1>3, <1>4, <1>6, <2>1, <3>1
        <4> QED
          BY <4>1, <3>2, FieldFacts DEF AnsweringInv, IInv
    <2>2. CASE ~Relayed(r)
      BY <1>4, <2>2 DEF AnsweringInv
    <2> QED
      BY <2>1, <2>2
  <1>15. AggregatorInv'
    BY <1>1, <1>2, <1>3, <1>4 DEF IInv, FlowInv, AggregatorInv
  <1>16. AnswerHandledWhole'
    BY <1>2 DEF IInv, AnswerHandledWhole
  <1> QED
    BY <1>9, <1>10, <1>12, <1>13, <1>14, <1>15, <1>16 DEF IInv, FlowInv

\* The host writes: it has the whole answer, or sends the data of a report.
LEMMA HostOutStep ==
    ASSUME IInv, HostOut
    PROVE  IInv'
  <1> DEFINE r == host.request
             n == Len(host.got)
  <1>1. /\ Out.avail /\ Begun /\ host.stage \in {"ack", "report"} /\ ~In.avail
        /\ r \in RequestSet /\ ctl.setup = r
    BY FieldFacts DEF IInv, HostOut, Out, QuietInv, PidInv, StatusInv
  <1>2. /\ UNCHANGED <<turn, dir, response, packet, toSlave, inbox, slave, handled>>
        /\ status' = status \cup {"out"} /\ Begun'
        /\ NoneToTake' = NoneToTake /\ Registered' = Registered /\ SlaveDone' = SlaveDone
    BY <1>1 DEF HostOut, slaveVars, Begun, NoneToTake, Registered, SlaveDone
  <1>3. /\ ctl' \in CtlSet /\ ctl'.msgs = <<>>
        /\ ctl'.setup = ctl.setup /\ ctl'.pid = ctl.pid /\ ctl'.addr = ctl.addr
        /\ ctl'.panic = ctl.panic
        /\ ~Out'.avail /\ Out'.full /\ In' = In
    <2>1. /\ ctl \in CtlSet /\ ctl.msgs = <<>> /\ "out" \in Dir /\ "in" \in Dir \ {"out"}
          /\ ctl' = Used(ctl, "out")
      BY DEF Used, IInv, Types, HostOut, Dir
    <2>2. /\ ctl' \in CtlSet /\ ctl'.msgs = ctl.msgs
          /\ ctl'.setup = ctl.setup /\ ctl'.pid = ctl.pid /\ ctl'.addr = ctl.addr
          /\ ctl'.panic = ctl.panic
          /\ ~ctl'.buf["out"].avail /\ ctl'.buf["out"].full
          /\ ctl'.buf["in"] = ctl.buf["in"]
      BY <2>1, EndpointUsed
    <2> QED
      BY <2>1, <2>2 DEF In, Out
  <1>4. /\ host' \in HostSet
        /\ host'.request = r /\ host'.pid = host.pid /\ host'.got = host.got
        /\ host'.addr = host.addr
        /\ host'.stage = IF host.stage = "ack" THEN "idle" ELSE "status"
    BY <1>1 DEF IInv, Types, HostOut, HostSet
  <1>5. status \in SUBSET Dir /\ host.stage # "idle" /\ "out" \notin status
    BY <1>1 DEF IInv, Types, StatusInv, Begun
  <1>6. Relayed(r) => SlaveDone /\ n = r.packets /\ host.stage = "ack" /\ ~(Registered < r.packets)
    <2>1. ASSUME Relayed(r) PROVE NoneToTake
      BY <1>1, <2>1 DEF IInv, FlowInv, SentInv
    <2>2. ASSUME Relayed(r)
          PROVE  /\ slave.request = r /\ slave.sent <= r.packets
                 /\ (inbox # <<>> => inbox = <<Packet(r.id, slave.sent, slave.sent = r.packets)>>)
                 /\ slave.sent = n + (IF inbox # <<>> THEN 1 ELSE 0)
                 /\ n < r.packets => host.stage = Start(r)
                 /\ n = r.packets => host.stage # "report"
                 /\ ~(Registered < r.packets)
      BY <1>1, <2>1, <2>2 DEF IInv, FlowInv, AnsweringInv, AggregatorInv
    <2>3. /\ n \in Nat /\ r.packets \in Nat /\ slave.sent \in Nat /\ Len(<<>>) = 0
          /\ (Relayed(r) => Start(r) \in {"data", "status"})
      BY <1>1, FieldFacts, RequestFacts, DeviceControlAssumption DEF IInv
    <2>4. ASSUME Relayed(r), inbox # <<>> PROVE FALSE
      <3>1. Len(inbox) = 1
        BY <2>2, <2>4
      <3> QED
        BY <2>2, <2>3, <2>4, <3>1 DEF Registered
    <2>5. ASSUME Relayed(r)
          PROVE  /\ inbox = <<>> /\ slave.sent = n /\ slave.request = r
                 /\ slave.sent = r.packets /\ host.stage = "ack"
      <3>1. inbox = <<>> /\ Len(inbox) = 0
        BY <2>3, <2>4, <2>5
      <3>2. slave.sent = r.packets /\ slave.sent = n
        BY <2>2, <2>3, <2>5, <3>1 DEF Registered
      <3> QED
        BY <1>1, <2>2, <2>5, <3>1, <3>2
    <2> QED
      BY <2>1, <2>2, <2>5 DEF SlaveDone
  <1>7. ~Relayed(r) => SlaveDone
    BY <1>1 DEF IInv, FlowInv, LocalInv
  <1>8. Types'
    BY <1>2, <1>3, <1>4 DEF IInv, Types, Dir
  <1>9. StatusInv'
    BY <1>1, <1>2, <1>3, <1>4, <1>5, <1>6, <1>7 DEF IInv, StatusInv, Dir, SlaveDone
  <1>10. QuietInv' /\ PidInv'
    BY <1>1, <1>2, <1>3, <1>4, <1>6, <1>7 DEF IInv, QuietInv, PidInv
  <1>11. WaitingInv' /\ SentInv' /\ LocalInv'
    BY <1>1, <1>2, <1>3, <1>4, <1>6, <1>7
    DEF IInv, FlowInv, WaitingInv, SentInv, LocalInv, SlaveDone
  <1>12. AnsweringInv'
    <2>1. CASE Relayed(r)
      <3>1. /\ r = host'.request /\ slave' = slave /\ inbox' = inbox /\ In' = In
            /\ host'.got = host.got /\ host'.stage = "idle" /\ n = r.packets /\ NoneToTake
            /\ "in" \in status' => "in" \in status
        BY <1>2, <1>3, <1>4, <1>6, <2>1 DEF SlaveDone
      <3>2. n = r.packets /\ n \in Nat
        BY <3>1, FieldFacts DEF IInv
      <3> QED
        BY <1>1, <2>1, <3>1, <3>2 DEF IInv, FlowInv, AnsweringInv
    <2>2. CASE ~Relayed(r)
      BY <1>4, <2>2 DEF AnsweringInv
    <2> QED
      BY <2>1, <2>2
  <1>13. AggregatorInv'
    BY <1>1, <1>2, <1>3, <1>4, <1>6 DEF IInv, FlowInv, AggregatorInv
  <1>14. AnswerHandledWhole'
    BY <1>2 DEF IInv, AnswerHandledWhole
  <1> QED
    BY <1>8, <1>9, <1>10, <1>11, <1>12, <1>13, <1>14 DEF IInv, FlowInv

\* A packet that is not the last goes to endpoint 0 IN, which is empty.
LEMMA ResponseStep ==
    ASSUME IInv, Response
    PROVE  IInv'
  <1> DEFINE r == host.request
             n == Len(host.got)
  <1>1. PICK p : Register(p) /\ ~p.last /\ Enact(XferStart(ctl, "in", p))
    BY DEF Response
  <1>2. /\ dir = "reading" /\ dir' = "reading" /\ inbox # <<>> /\ turn' = "irq"
        /\ UNCHANGED <<packet, status, slave, host, handled>>
    BY <1>1 DEF Response, SlaveEvent, Register
  <1>3. /\ status = {} /\ Begun /\ Relayed(r) /\ NoneToTake /\ host.stage # "idle"
        /\ ctl.setup = r /\ r \in RequestSet /\ r.packets \in 0..MaxPackets
        /\ slave.request = r /\ slave.sent = n + 1 /\ n \in Nat /\ n + 1 < r.packets
        /\ p = Packet(r.id, slave.sent, slave.sent = r.packets) /\ p \in PacketSet
        /\ host.got = Answer(r, n) /\ host.stage = Start(r)
        /\ Len(inbox) = 1 /\ inbox' = <<>> /\ Registered = n
        /\ ~In.avail /\ ~Out.avail /\ ctl.pid["out"] = 1 /\ ctl.pid["in"] = host.pid
        /\ response' = Answer(r, n + 1)
    BY <1>1, <1>2, Received
  <1>4. /\ ctl' \in CtlSet /\ ctl'.msgs = <<>> /\ ctl'.setup = r /\ ctl'.addr = ctl.addr
        /\ ctl'.panic = ctl.panic /\ toSlave' = toSlave
        /\ ctl'.pid["in"] = 1 - host.pid /\ ctl'.pid["out"] = 1
        /\ In'.avail /\ In'.pid = host.pid /\ In'.packet = p /\ Out' = Out
    <2> DEFINE c == XferStart(ctl, "in", p)
    <2>1. /\ c \in CtlSet /\ c.setup = r /\ c.addr = ctl.addr /\ c.panic = ctl.panic
          /\ c.msgs = <<>> /\ c.pid["in"] = 1 - host.pid /\ c.pid["out"] = 1
          /\ c.buf["in"].avail /\ c.buf["in"].pid = host.pid /\ c.buf["in"].packet = p
          /\ c.buf["out"] = Out
      <3>1. ctl \in CtlSet /\ ctl.msgs = <<>> /\ "in" \in Dir /\ "out" \in Dir \ {"in"}
        BY DEF IInv, Types, Dir
      <3> QED
        BY <1>3, <3>1, XferStarted DEF Out
    <2> HIDE DEF c
    <2>2. Enact(c)
      BY <1>1 DEF c
    <2>3. toSlave \o <<>> = toSlave
      BY DEF IInv, Types
    <2> QED
      BY <2>1, <2>2, <2>3, Enacted
  <1>5. NoneToTake' /\ Begun' /\ Len(inbox') = 0 /\ Registered' = n + 1
    BY <1>2, <1>3, <1>4, InboxFacts DEF NoneToTake, Begun, Registered
  <1>6. Types'
    <2>1. response' \in Seq(PacketSet)
      BY <1>1, <1>3 DEF Register, IInv, Types
    <2> QED
      BY <1>2, <1>3, <1>4, <2>1, EmptySeq DEF IInv, Types
  <1>7. StatusInv' /\ QuietInv' /\ AnswerHandledWhole'
    BY <1>2, <1>3, <1>4, <1>5 DEF IInv, StatusInv, QuietInv, AnswerHandledWhole
  <1>8. PidInv'
    BY <1>2, <1>3, <1>4, RequestFacts DEF PidInv
  <1>9. WaitingInv' /\ SentInv' /\ LocalInv'
    BY <1>2, <1>3, <1>5 DEF WaitingInv, SentInv, LocalInv
  <1>10. AnsweringInv'
    BY <1>2, <1>3, <1>4, <1>5 DEF AnsweringInv
  <1>11. AggregatorInv'
    BY <1>2, <1>3, <1>4, <1>5 DEF AggregatorInv
  <1> QED
    BY <1>6, <1>7, <1>8, <1>9, <1>10, <1>11 DEF IInv, FlowInv

\* The last packet: the answer in the aggregator is whole.
LEMMA LastResponseStep ==
    ASSUME IInv, LastResponse
    PROVE  IInv'
  <1> DEFINE r == host.request
             n == Len(host.got)
             Told(c) == IF ctl.setup.kind = "device"
                        THEN Send(c, Message("packetsize", ctl.setup)) ELSE c
             Ready(c, p) == IF ctl.setup.in THEN XferStart(c, "out", Zlp(p.id)) ELSE c
  <1>1. PICK p : Register(p) /\ p.last /\ Enact(Ready(Told(XferStart(ctl, "in", p)), p))
    BY DEF LastResponse
  <1>2. /\ dir = "reading" /\ dir' = "writing" /\ inbox # <<>> /\ turn' = "irq"
        /\ UNCHANGED <<packet, status, slave, host>>
        /\ handled' = [request |-> ctl.setup, answer |-> response']
    BY <1>1 DEF LastResponse, SlaveEvent, Register
  <1>3. /\ status = {} /\ Begun /\ Relayed(r) /\ NoneToTake /\ host.stage # "idle"
        /\ ctl.setup = r /\ r \in RequestSet /\ r.packets \in 0..MaxPackets
        /\ slave.request = r /\ slave.sent = n + 1 /\ n \in Nat /\ n + 1 = r.packets
        /\ p = Packet(r.id, slave.sent, slave.sent = r.packets) /\ p \in PacketSet
        /\ p.id = r.id
        /\ host.got = Answer(r, n) /\ host.stage = Start(r)
        /\ Len(inbox) = 1 /\ inbox' = <<>> /\ Registered = n
        /\ ~In.avail /\ ~Out.avail /\ ctl.pid["out"] = 1 /\ ctl.pid["in"] = host.pid
        /\ response' = Answer(r, n + 1)
    BY <1>1, <1>2, Received
  <1>4. /\ ctl' \in CtlSet /\ ctl'.msgs = <<>> /\ ctl'.setup = r /\ ctl'.addr = ctl.addr
        /\ ctl'.panic = ctl.panic
        /\ ctl'.pid["in"] = 1 - host.pid
        /\ In'.avail /\ In'.pid = host.pid /\ In'.packet = p
        /\ Out'.avail => Out'.pid = 1 /\ r.in
        /\ toSlave' = toSlave \/ toSlave' = toSlave \o <<Message("packetsize", r)>>
    <2> DEFINE c == XferStart(ctl, "in", p)
               t == Told(c)
               e == Ready(t, p)
    <2>1. /\ c \in CtlSet /\ c.setup = r /\ c.addr = ctl.addr /\ c.panic = ctl.panic
          /\ c.msgs = <<>> /\ c.pid["in"] = 1 - host.pid /\ c.pid["out"] = 1
          /\ c.buf["in"].avail /\ c.buf["in"].pid = host.pid /\ c.buf["in"].packet = p
          /\ ~c.buf["out"].avail
      <3>1. ctl \in CtlSet /\ ctl.msgs = <<>> /\ "in" \in Dir /\ "out" \in Dir \ {"in"}
        BY DEF IInv, Types, Dir
      <3> QED
        BY <1>3, <3>1, XferStarted DEF Out
    <2> HIDE DEF c
    <2>2. /\ t \in CtlSet /\ t.setup = r /\ t.addr = ctl.addr /\ t.panic = ctl.panic
          /\ t.msgs = <<>> \/ t.msgs = <<Message("packetsize", r)>>
          /\ t.pid = c.pid /\ t.buf = c.buf
      <3>1. Message("packetsize", r) \in MessageSet
        BY <1>3 DEF Message, MessageSet
      <3>2. Append(<<>>, Message("packetsize", r)) = <<Message("packetsize", r)>>
        OBVIOUS
      <3> QED
        BY <1>3, <2>1, <3>1, <3>2, Sent
    <2> HIDE DEF t
    <2>3. /\ e \in CtlSet /\ e.setup = r /\ e.addr = ctl.addr /\ e.panic = ctl.panic
          /\ e.msgs = t.msgs /\ e.pid["in"] = 1 - host.pid
          /\ e.buf["in"].avail /\ e.buf["in"].pid = host.pid /\ e.buf["in"].packet = p
          /\ e.buf["out"].avail => e.buf["out"].pid = 1 /\ r.in
      <3>1. "out" \in Dir /\ "in" \in Dir \ {"out"}
        BY DEF Dir
      <3>2. Zlp(p.id) \in PacketSet
        BY <1>3, RequestFacts, DeviceControlAssumption DEF Zlp, Packet, PacketSet
      <3>3. CASE r.in
        BY <1>3, <2>1, <2>2, <3>1, <3>2, <3>3, XferStarted
      <3>4. CASE ~r.in
        BY <1>3, <2>1, <2>2, <3>4
      <3> QED
        BY <3>3, <3>4
    <2> HIDE DEF e
    <2>4. Enact(e)
      BY <1>1 DEF c, t, e
    <2>5. toSlave \o <<>> = toSlave
      BY DEF IInv, Types
    <2> QED
      BY <2>2, <2>3, <2>4, <2>5, Enacted
  <1>5. NoneToTake' /\ toSlave' \in Seq(MessageSet)
    <2>1. CASE toSlave' = toSlave
      BY <1>3, <2>1 DEF NoneToTake, IInv, Types
    <2>2. CASE toSlave' = toSlave \o <<Message("packetsize", r)>>
      <3> DEFINE msg == Message("packetsize", r)
      <3>1. msg \in MessageSet /\ ~IsSetup(msg)
        BY <1>3 DEF Message, MessageSet, IsSetup
      <3> HIDE DEF msg
      <3>2. toSlave' = toSlave \o <<msg>> /\ toSlave \in Seq(MessageSet)
        BY <2>2 DEF msg, IInv, Types
      <3>3. /\ toSlave' \in Seq(MessageSet) /\ Len(toSlave') = Len(toSlave) + 1
            /\ \A i \in 1..Len(toSlave) : toSlave'[i] = toSlave[i]
            /\ toSlave'[Len(toSlave) + 1] = msg /\ Len(toSlave) \in Nat
        BY <3>1, <3>2, MessageFacts
      <3> QED
        BY <1>3, <3>1, <3>3 DEF NoneToTake
    <2> QED
      BY <1>4, <2>1, <2>2
  <1>6. Begun' /\ Len(inbox') = 0 /\ Registered' = r.packets
    BY <1>2, <1>3, InboxFacts DEF Begun, Registered
  <1>7. Types'
    <2>1. response' \in Seq(PacketSet)
      BY <1>1, <1>3 DEF Register, IInv, Types
    <2> QED
      BY <1>2, <1>3, <1>4, <1>5, <2>1, EmptySeq DEF IInv, Types
  <1>8. StatusInv' /\ QuietInv'
    BY <1>2, <1>3, <1>4, <1>6 DEF IInv, StatusInv, QuietInv
  <1>9. AnswerHandledWhole'
    BY <1>2, <1>3 DEF AnswerHandledWhole
  <1>10. PidInv'
    BY <1>2, <1>3, <1>4, RequestFacts DEF PidInv
  <1>11. WaitingInv' /\ SentInv' /\ LocalInv'
    BY <1>2, <1>3, <1>5, <1>6 DEF WaitingInv, SentInv, LocalInv
  <1>12. AnsweringInv'
    BY <1>2, <1>3, <1>4, <1>6 DEF AnsweringInv
  <1>13. AggregatorInv'
    BY <1>2, <1>3, <1>4, <1>6 DEF AggregatorInv
  <1> QED
    BY <1>7, <1>8, <1>9, <1>10, <1>11, <1>12, <1>13 DEF IInv, FlowInv

\* The slave takes a message: a request among them is the one the host waits for.
LEMMA SlaveTakeStep ==
    ASSUME IInv, SlaveTake
    PROVE  IInv'
  <1> DEFINE r == host.request
             first == Head(toSlave)
             taken == IF IsSetup(first) THEN [request |-> first.request, sent |-> 0] ELSE slave
  <1>1. /\ toSlave # <<>> /\ toSlave' = Tail(toSlave) /\ slave' = taken
        /\ UNCHANGED <<ctl, turn, dir, response, packet, status, inbox, host, handled>>
        /\ In' = In /\ Out' = Out /\ (Begun <=> Begun')
    BY DEF SlaveTake, core0Vars, In, Out, Begun, IsSetup
  <1>2. /\ toSlave' \in Seq(MessageSet) /\ Len(toSlave') = Len(toSlave) - 1
        /\ Len(toSlave) \in Nat /\ Len(toSlave) > 0 /\ Len(toSlave') \in Nat
        /\ \A i \in 1..Len(toSlave') : toSlave'[i] = toSlave[i + 1]
        /\ first = toSlave[1] /\ first \in MessageSet
    <2>1. toSlave \in Seq(MessageSet)
      BY DEF IInv, Types
    <2> QED
      BY <1>1, <2>1
  <1>3. NoneToTake => NoneToTake' /\ slave' = slave
    BY <1>1, <1>2 DEF NoneToTake
  <1>4. Types'
    <2>1. slave' \in [request : RequestSet, sent : Nat]
      BY <1>1, <1>2 DEF IInv, Types, MessageSet
    <2> QED
      BY <1>1, <1>2, <2>1 DEF IInv, Types
  <1>5. StatusInv' /\ PidInv' /\ WaitingInv' /\ AnswerHandledWhole'
    BY <1>1 DEF IInv, FlowInv, StatusInv, PidInv, WaitingInv, AnswerHandledWhole
  <1>6. QuietInv' /\ LocalInv'
    BY <1>1, <1>3 DEF IInv, FlowInv, QuietInv, LocalInv, SlaveDone
  <1>7. CASE NoneToTake
    <2>1. SentInv' /\ AnsweringInv' /\ AggregatorInv'
      BY <1>1, <1>3, <1>7 DEF IInv, FlowInv, SentInv, AnsweringInv, AggregatorInv, Registered
    <2> QED
      BY <1>4, <1>5, <1>6, <2>1 DEF IInv, FlowInv
  <1>8. CASE ~NoneToTake
    <2>1. Begun /\ Relayed(r)
      BY <1>8 DEF IInv, FlowInv, QuietInv, LocalInv, SlaveDone
    <2>2. /\ slave.sent = slave.request.packets /\ inbox = <<>> /\ status = {}
          /\ ~In.avail /\ ~Out.avail /\ ctl.pid["out"] = 1
          /\ host.got = <<>> /\ host.stage = Start(r) /\ r.packets > 0
          /\ dir = "reading" /\ response = <<>>
      BY <1>8, <2>1 DEF IInv, FlowInv, SentInv
    <2>3. PICK k \in 1..Len(toSlave) :
             /\ IsSetup(toSlave[k]) /\ toSlave[k].request = r
             /\ \A i \in 1..Len(toSlave) : i # k => ~IsSetup(toSlave[i])
      BY <1>8, <2>1 DEF IInv, FlowInv, SentInv
    <2>4. CASE k = 1
      <3>1. slave'.request = r /\ slave'.sent = 0 /\ NoneToTake'
        BY <1>1, <1>2, <2>3, <2>4 DEF NoneToTake
      <3>2. r \in RequestSet /\ r.packets \in Nat /\ Len(inbox) = 0 /\ Len(host.got) = 0
        BY <2>2, FieldFacts, RequestFacts, InboxFacts DEF IInv
      <3>3. host.got = Answer(r, 0) /\ response = Answer(r, 0)
        BY <2>2, <3>2, AnswerFacts
      <3>4. AnsweringInv'
        BY <1>1, <2>2, <3>1, <3>2, <3>3 DEF AnsweringInv
      <3>5. Registered' = 0
        BY <1>1, <3>1, <3>2 DEF Registered
      <3>6. AggregatorInv'
        BY <1>1, <2>2, <3>1, <3>2, <3>3, <3>5 DEF AggregatorInv
      <3>7. SentInv'
        BY <3>1 DEF SentInv
      <3> QED
        BY <1>4, <1>5, <1>6, <3>4, <3>6, <3>7 DEF IInv, FlowInv
    <2>5. CASE k # 1
      <3>1. slave' = slave /\ ~IsSetup(first)
        BY <1>1, <1>2, <2>3, <2>5
      <3>2. /\ k - 1 \in 1..Len(toSlave')
            /\ toSlave'[k - 1] = toSlave[k]
            /\ \A i \in 1..Len(toSlave') : i # k - 1 => ~IsSetup(toSlave'[i])
        <4>1. k - 1 \in 1..Len(toSlave') /\ (k - 1) + 1 = k
          BY <1>2, <2>5
        <4>2. ASSUME NEW i \in 1..Len(toSlave'), i # k - 1 PROVE ~IsSetup(toSlave'[i])
          <5>1. i + 1 \in 1..Len(toSlave) /\ i + 1 # k
            BY <1>2, <4>2
          <5> QED
            BY <1>2, <2>3, <5>1
        <4> QED
          BY <1>2, <4>1, <4>2
      <3>3. ~NoneToTake'
        BY <2>3, <3>2 DEF NoneToTake
      <3>4. SentInv'
        BY <1>1, <2>2, <2>3, <3>1, <3>2 DEF SentInv
      <3> QED
        BY <1>4, <1>5, <1>6, <3>3, <3>4 DEF IInv, FlowInv, AnsweringInv, AggregatorInv
    <2> QED
      BY <2>4, <2>5
  <1> QED
    BY <1>7, <1>8

\* What the poll of core 0 does, by what the controller reports.
LEMMA Polled ==
    ASSUME IInv, Irq
    PROVE  /\ "reset" \in status => Enact(BusReset(ctl))
           /\ "setup" \in status => Enact(SetupReceived(ctl))
           /\ "reset" \notin status /\ "setup" \notin status =>
                LET q == IF "out" \in status THEN BufferDone(ctl, "out") ELSE ctl
                IN  Enact(IF "in" \in status THEN BufferDone(q, "in") ELSE q)
  <1>1. CASE "reset" \in status
    <2>1. status = {"reset"}
      BY <1>1 DEF IInv, StatusInv
    <2> QED
      BY <2>1 DEF Irq
  <1>2. CASE "setup" \in status
    <2>1. status = {"setup"}
      BY <1>2 DEF IInv, StatusInv
    <2> QED
      BY <2>1 DEF Irq
  <1>3. CASE "reset" \notin status /\ "setup" \notin status
    BY <1>3 DEF Irq
  <1> QED
    BY <1>1, <1>2, <1>3

\* The poll: a reset, a setup packet, or the end of transfers.
LEMMA IrqStep ==
    ASSUME IInv, Irq
    PROVE  IInv' /\ (ctl'.addr # ctl.addr => ctl'.addr = host.addr)
  <1> DEFINE r == host.request
  <1>1. /\ turn = "irq" /\ turn' = "event" /\ status' = {} /\ Begun'
        /\ UNCHANGED <<dir, response, handled, packet, slave, inbox, host>>
        /\ Registered' = Registered
        /\ ctl \in CtlSet /\ ctl.msgs = <<>> /\ toSlave \in Seq(MessageSet)
        /\ toSlave \o <<>> = toSlave
    BY DEF Irq, Begun, Registered, IInv, Types
  <1>2. CASE "setup" \in status
    <2>1. /\ ~Begun /\ packet = r /\ r \in RequestSet /\ ~ctl.panic
          /\ ~In.avail /\ ~Out.avail /\ SlaveDone /\ NoneToTake
          /\ host.got = <<>> /\ host.pid = 1 /\ host.stage = Start(r) /\ host.stage # "idle"
          /\ Relayed(r) => r.packets > 0
          /\ dir = "reading" /\ response = <<>>
      BY <1>1, <1>2, RequestFacts DEF IInv, Types, FlowInv, StatusInv, QuietInv, WaitingInv,
         SlaveDone, Begun
    <2> DEFINE e == SetupReceived(ctl)
    <2>2. /\ e \in CtlSet /\ e.setup = packet /\ e.addr = ctl.addr /\ e.panic = ctl.panic
          /\ packet.kind = "qualifier" =>
               /\ e.msgs = <<>> /\ e.pid["in"] = 0 /\ e.pid["out"] = 1
               /\ e.buf["in"].avail /\ e.buf["in"].pid = 1
               /\ e.buf["out"] = ctl.buf["out"]
          /\ packet.kind = "report" =>
               /\ e.msgs = <<>> /\ e.pid["in"] = 1 /\ e.pid["out"] = 0
               /\ e.buf["out"].avail /\ e.buf["out"].pid = 1
               /\ e.buf["in"] = ctl.buf["in"]
          /\ Relayed(packet) =>
               /\ \E type \in {"setup", "address"} : e.msgs = <<Message(type, packet)>>
               /\ e.pid["in"] = 1 /\ e.pid["out"] = 1 /\ e.buf = ctl.buf
      BY <1>1, <2>1, SetupHandled
    <2>3. Enact(e)
      BY <1>2, Polled
    <2> HIDE DEF e
    <2>4. /\ ctl' \in CtlSet /\ ctl'.msgs = <<>> /\ toSlave' = toSlave \o e.msgs
          /\ ctl'.setup = r /\ ctl'.addr = ctl.addr /\ ~ctl'.panic
          /\ ctl'.pid = e.pid /\ In' = e.buf["in"] /\ Out' = e.buf["out"]
      BY <2>1, <2>2, <2>3, Enacted
    <2>5. CASE Relayed(r)
      <3>1. PICK type \in {"setup", "address"} : e.msgs = <<Message(type, r)>>
        BY <2>1, <2>2, <2>5
      <3> DEFINE msg == Message(type, r)
                 k == Len(toSlave) + 1
      <3>2. msg \in MessageSet /\ IsSetup(msg) /\ msg.request = r
        BY <2>1 DEF Message, MessageSet, IsSetup
      <3> HIDE DEF msg
      <3>3. /\ ctl'.pid["in"] = 1 /\ ctl'.pid["out"] = 1 /\ ~In'.avail /\ ~Out'.avail
            /\ toSlave' = toSlave \o <<msg>>
        BY <2>1, <2>2, <2>4, <2>5, <3>1 DEF In, Out, msg
      <3>4. /\ toSlave' \in Seq(MessageSet) /\ Len(toSlave') = k /\ toSlave'[k] = msg
            /\ k \in Nat /\ k > 0
            /\ \A i \in 1..Len(toSlave) : toSlave'[i] = toSlave[i]
        BY <1>1, <3>2, <3>3, MessageFacts
      <3>5. k \in 1..Len(toSlave') /\ \A i \in 1..Len(toSlave') : i # k => ~IsSetup(toSlave'[i])
        BY <2>1, <3>4 DEF NoneToTake
      <3>6. ~NoneToTake'
        BY <3>2, <3>4, <3>5 DEF NoneToTake
      <3>7. Types'
        BY <1>1, <2>4, <3>4 DEF IInv, Types
      <3>8. StatusInv' /\ QuietInv' /\ PidInv' /\ AnswerHandledWhole'
        BY <1>1, <2>1, <2>4, <3>3 DEF IInv, StatusInv, QuietInv, PidInv, AnswerHandledWhole
      <3>9. SentInv'
        BY <1>1, <2>1, <2>5, <3>2, <3>3, <3>4, <3>5 DEF SentInv, SlaveDone
      <3>10. WaitingInv' /\ AnsweringInv' /\ AggregatorInv' /\ LocalInv'
        BY <1>1, <2>5, <3>6 DEF WaitingInv, AnsweringInv, AggregatorInv, LocalInv
      <3> QED
        BY <2>4, <3>7, <3>8, <3>9, <3>10 DEF IInv, FlowInv
    <2>6. CASE ~Relayed(r)
      <3>1. /\ toSlave' = toSlave /\ NoneToTake' /\ SlaveDone'
            /\ r.kind \in {"qualifier", "report"}
            /\ r.kind = "qualifier" => ctl'.pid["in"] = 0 /\ In'.avail /\ In'.pid = 1 /\ ~Out'.avail
            /\ r.kind = "report" => ctl'.pid["in"] = 1 /\ Out'.avail /\ Out'.pid = 1 /\ ~In'.avail
        BY <1>1, <2>1, <2>2, <2>4, <2>6 DEF In, Out, Relayed, NoneToTake, SlaveDone
      <3>2. /\ r.kind = "qualifier" => host.stage = "data"
            /\ r.kind = "report" => host.stage = "report"
        BY <2>1, RequestFacts DEF Start
      <3>3. Types'
        BY <1>1, <2>4, <3>1 DEF IInv, Types
      <3>4. StatusInv' /\ QuietInv' /\ PidInv' /\ AnswerHandledWhole'
        BY <1>1, <2>1, <2>4, <3>1, <3>2 DEF IInv, StatusInv, QuietInv, PidInv, AnswerHandledWhole
      <3>5. FlowInv'
        BY <1>1, <2>1, <2>6, <3>1, <3>2
        DEF FlowInv, WaitingInv, SentInv, AnsweringInv, AggregatorInv, LocalInv
      <3> QED
        BY <2>4, <3>3, <3>4, <3>5 DEF IInv
    <2> QED
      BY <2>5, <2>6
  <1>3. CASE "reset" \in status
    <2>1. /\ Begun /\ host.stage = "idle" /\ host.addr = 0 /\ ~ctl.panic /\ ctl.setup = r
          /\ ~In.avail /\ ~Out.avail /\ SlaveDone /\ NoneToTake
      BY <1>3 DEF IInv, StatusInv, QuietInv, SlaveDone, Begun
    <2> DEFINE msg == Message("reset", NoRequest)
               c == [ctl EXCEPT !.addr = 0]
               e == Send(c, msg)
    <2>2. msg \in MessageSet /\ ~IsSetup(msg)
      BY NoRequestIn DEF Message, MessageSet, IsSetup
    <2>3. Append(<<>>, msg) = <<msg>>
      OBVIOUS
    <2>4. /\ c \in CtlSet /\ c.msgs = <<>> /\ c.setup = ctl.setup /\ c.addr = 0
          /\ c.panic = ctl.panic /\ c.pid = ctl.pid /\ c.buf = ctl.buf
      BY <1>1 DEF CtlSet
    <2>5. Enact(e)
      BY <1>3, Polled DEF BusReset
    <2> HIDE DEF msg, c
    <2>6. /\ e \in CtlSet /\ e.msgs = <<msg>> /\ e.setup = ctl.setup /\ e.addr = 0
          /\ e.panic = ctl.panic /\ e.pid = ctl.pid /\ e.buf = ctl.buf
      BY <2>2, <2>3, <2>4, Sent
    <2> HIDE DEF e
    <2>7. /\ ctl' \in CtlSet /\ ctl'.msgs = <<>> /\ toSlave' = toSlave \o <<msg>>
          /\ ctl'.setup = r /\ ctl'.addr = 0 /\ ~ctl'.panic
          /\ ctl'.pid = ctl.pid /\ In' = In /\ Out' = Out
      BY <2>1, <2>5, <2>6, Enacted DEF In, Out
    <2>8. toSlave' \in Seq(MessageSet) /\ NoneToTake' /\ SlaveDone'
      <3>1. /\ toSlave' \in Seq(MessageSet) /\ Len(toSlave') = Len(toSlave) + 1
            /\ \A i \in 1..Len(toSlave) : toSlave'[i] = toSlave[i]
            /\ toSlave'[Len(toSlave) + 1] = msg /\ Len(toSlave) \in Nat
        BY <1>1, <2>2, <2>7, MessageFacts
      <3> QED
        BY <1>1, <2>1, <2>2, <3>1 DEF NoneToTake, SlaveDone
    <2>9. Types'
      BY <1>1, <2>7, <2>8 DEF IInv, Types
    <2>10. StatusInv' /\ QuietInv' /\ PidInv' /\ AnswerHandledWhole'
      BY <1>1, <2>1, <2>7, <2>8 DEF IInv, StatusInv, QuietInv, PidInv, AnswerHandledWhole
    <2>11. FlowInv'
      BY <1>1, <2>1, <2>7, <2>8
      DEF IInv, FlowInv, WaitingInv, SentInv, AnsweringInv, AggregatorInv, LocalInv
    <2> QED
      BY <2>1, <2>7, <2>9, <2>10, <2>11 DEF IInv
  <1>4. CASE "reset" \notin status /\ "setup" \notin status
    <2> DEFINE q == IF "out" \in status THEN BufferDone(ctl, "out") ELSE ctl
               e == IF "in" \in status THEN BufferDone(q, "in") ELSE q
    <2>1. /\ Begun /\ ~ctl.panic /\ ctl.setup = r
          /\ "in" \in status => ~In.full
          /\ "out" \in status => Out.full
          /\ "in" \in status /\ ctl.setup.kind = "address" => host.addr = NewAddress
      BY <1>4 DEF IInv, StatusInv, Begun
    <2>2. Enact(e)
      BY <1>4, Polled
    <2>3. "in" \in Dir /\ "out" \in Dir
      BY DEF Dir
    <2>4. /\ q \in CtlSet /\ q.setup = ctl.setup /\ q.msgs = <<>> /\ q.pid = ctl.pid
          /\ q.buf = ctl.buf /\ ~q.panic /\ q.addr = ctl.addr
      BY <1>1, <2>1, <2>3, Completion DEF Out
    <2> HIDE DEF q
    <2>5. /\ e \in CtlSet /\ e.setup = ctl.setup /\ e.msgs = <<>> /\ e.pid = ctl.pid
          /\ e.buf = ctl.buf /\ ~e.panic /\ (e.addr # ctl.addr => e.addr = host.addr)
      BY <2>1, <2>3, <2>4, Completion DEF In
    <2> HIDE DEF e
    <2>6. /\ ctl' \in CtlSet /\ ctl'.msgs = <<>> /\ toSlave' = toSlave
          /\ ctl'.setup = r /\ ~ctl'.panic /\ (ctl'.addr # ctl.addr => ctl'.addr = host.addr)
          /\ ctl'.pid = ctl.pid /\ In' = In /\ Out' = Out
      BY <1>1, <2>1, <2>2, <2>5, Enacted DEF In, Out
    <2>7. NoneToTake' = NoneToTake /\ SlaveDone' = SlaveDone
      BY <1>1, <2>6 DEF NoneToTake, SlaveDone
    <2>8. Types'
      BY <1>1, <2>6 DEF IInv, Types
    <2>9. StatusInv' /\ QuietInv' /\ PidInv' /\ AnswerHandledWhole'
      BY <1>1, <2>1, <2>6, <2>7 DEF IInv, StatusInv, QuietInv, PidInv, AnswerHandledWhole
    <2>10. WaitingInv' /\ SentInv' /\ LocalInv'
      BY <1>1, <2>1, <2>6, <2>7 DEF IInv, FlowInv, WaitingInv, SentInv, LocalInv, NoneToTake
    <2>11. AnsweringInv' /\ AggregatorInv'
      BY <1>1, <2>1, <2>6, <2>7 DEF IInv, FlowInv, AnsweringInv, AggregatorInv
    <2> QED
      BY <2>6, <2>8, <2>9, <2>10, <2>11 DEF IInv, FlowInv
  <1> QED
    BY <1>2, <1>3, <1>4

\* The initial states satisfy the invariant.
LEMMA Initially ==
    ASSUME Init
    PROVE  IInv
  <1> DEFINE r == NoRequest
  <1>1. /\ r \in RequestSet /\ r.packets = 0 /\ Relayed(r) /\ Answer(r, 0) = <<>>
        /\ Len(<<>>) = 0 /\ r.id = 0 /\ r.kind = "other"
    BY NoRequestIn, AnswerFacts DEF NoRequest, Relayed
  <1>2. NoBuf \in BufferSet /\ ~NoBuf.avail
    BY DeviceControlAssumption DEF NoBuf, BufferSet, Zlp, Packet, PacketSet, Ids, Bit
  <1>3. /\ ctl \in CtlSet /\ ctl.msgs = <<>> /\ ctl.setup = r /\ ctl.pid["in"] = 0
        /\ ~ctl.panic /\ ~In.avail /\ ~Out.avail
    <2>1. [d \in Dir |-> NoBuf] \in [Dir -> BufferSet] /\ [d \in Dir |-> 0] \in [Dir -> Bit]
      BY <1>2 DEF Bit
    <2>2. <<>> \in Seq(MessageSet)
      OBVIOUS
    <2> QED
      BY <1>1, <1>2, <2>1, <2>2 DEF Init, CtlSet, In, Out, Dir
  <1>4. /\ host \in HostSet /\ host.stage = "idle" /\ host.request = r /\ host.pid = 0
        /\ host.got = <<>>
    BY <1>1, DeviceControlAssumption DEF Init, HostSet, Bit
  <1>5. /\ slave \in [request : RequestSet, sent : Nat] /\ slave.request = r /\ slave.sent = 0
        /\ handled \in [request : RequestSet, answer : Seq(PacketSet)]
        /\ handled.request = r /\ handled.answer = <<>>
    BY <1>1 DEF Init
  <1>6. /\ turn = "event" /\ dir = "reading" /\ response = <<>> /\ packet = r /\ status = {}
        /\ toSlave = <<>> /\ inbox = <<>>
    BY DEF Init
  <1>7. Begun /\ NoneToTake /\ SlaveDone /\ Registered = 0
    <2>1. Begun /\ NoneToTake
      BY <1>1, <1>6 DEF Begun, NoneToTake
    <2>2. Len(inbox) = 0 /\ slave.request.packets = 0
      BY <1>1, <1>5, <1>6
    <2>3. SlaveDone
      BY <1>5, <1>6, <2>1, <2>2 DEF SlaveDone
    <2>4. Registered = 0
      BY <1>5, <2>2 DEF Registered
    <2> QED
      BY <2>1, <2>3, <2>4
  <1>8. Types
    BY <1>1, <1>3, <1>4, <1>5, <1>6 DEF Types
  <1>9. StatusInv /\ QuietInv /\ PidInv
    BY <1>3, <1>4, <1>6, <1>7 DEF StatusInv, QuietInv, PidInv
  <1>10. WaitingInv /\ SentInv /\ LocalInv
    BY <1>1, <1>4, <1>7 DEF WaitingInv, SentInv, LocalInv
  <1>11. AnsweringInv
    BY <1>1, <1>3, <1>4, <1>5, <1>6, <1>7 DEF AnsweringInv
  <1>12. AggregatorInv /\ AnswerHandledWhole
    BY <1>1, <1>3, <1>4, <1>5, <1>6, <1>7 DEF AggregatorInv, AnswerHandledWhole
  <1> QED
    BY <1>8, <1>9, <1>10, <1>11, <1>12 DEF IInv, FlowInv

\* Every step preserves the invariant, and moves the address to the host's.
LEMMA Stepwise ==
    ASSUME Quick, IInv, [Next]_vars
    PROVE  IInv' /\ (ctl'.addr # ctl.addr => ctl'.addr = host.addr)
  <1>1. CASE UNCHANGED vars
    <2>1. /\ UNCHANGED <<ctl, turn, dir, response, packet, status, toSlave, inbox, slave, host,
                         handled>>
          /\ In' = In /\ Out' = Out /\ (Begun <=> Begun') /\ NoneToTake' = NoneToTake
          /\ SlaveDone' = SlaveDone /\ Registered' = Registered
      BY <1>1 DEF vars, core0Vars, slaveVars, In, Out, Begun, NoneToTake, SlaveDone, Registered
    <2>2. Types' /\ StatusInv' /\ QuietInv' /\ PidInv' /\ AnswerHandledWhole'
      BY <2>1 DEF IInv, Types, StatusInv, QuietInv, PidInv, AnswerHandledWhole
    <2>3. FlowInv'
      BY <2>1 DEF IInv, FlowInv, WaitingInv, SentInv, AnsweringInv, AggregatorInv, LocalInv
    <2> QED
      BY <2>1, <2>2, <2>3 DEF IInv
  <1>2. CASE NothingReceived
    BY <1>2, NothingReceivedStep DEF NothingReceived
  <1>3. CASE SendUpstream
    BY <1>3, SendUpstreamStep DEF SendUpstream
  <1>4. CASE Response
    <2>1. ctl'.addr = ctl.addr
      BY <1>4 DEF Response, Enact, XferStart, IInv, Types, CtlSet
    <2> QED
      BY <1>4, <2>1, ResponseStep
  <1>5. CASE LastResponse
    <2>1. ctl'.addr = ctl.addr
      BY <1>5 DEF LastResponse, Enact, XferStart, Send, IInv, Types, CtlSet
    <2> QED
      BY <1>5, <2>1, LastResponseStep
  <1>6. CASE Irq
    BY <1>6, IrqStep
  <1>7. CASE SlaveTake
    BY <1>7, SlaveTakeStep DEF SlaveTake, core0Vars
  <1>8. CASE SlaveAnswer
    BY <1>8, SlaveAnswerStep DEF SlaveAnswer, core0Vars
  <1>9. CASE HostIn
    <2>1. ctl'.addr = ctl.addr
      BY <1>9 DEF HostIn, IInv, Types, CtlSet
    <2> QED
      BY <1>9, <2>1, HostInStep
  <1>10. CASE HostOut
    <2>1. ctl'.addr = ctl.addr
      BY <1>10 DEF HostOut, IInv, Types, CtlSet
    <2> QED
      BY <1>10, <2>1, HostOutStep
  <1>11. CASE HostReset
    BY <1>11, HostResetStep DEF HostReset, core0Vars
  <1>12. CASE HostGiveUp
    BY <1>12, HostGiveUpStep DEF HostGiveUp, core0Vars
  <1>13. CASE \E r \in Requests(host.count + 1) : HostSetup(r)
    <2>1. PICK r \in Requests(host.count + 1) : HostSetup(r)
      BY <1>13
    <2> QED
      BY <2>1, HostSetupStep DEF HostSetup, core0Vars
  <1> QED
    BY <1>1, <1>2, <1>3, <1>4, <1>5, <1>6, <1>7, <1>8, <1>9, <1>10, <1>11, <1>12, <1>13
    DEF Next, Core0, Slave, Host

-----------------------------------------------------------------------------
(* The theorems.                                                           *)

\* The invariant holds in every reachable state.
THEOREM Invariant ==
    ASSUME Quick
    PROVE  Spec => []IInv
  <1>1. Init => IInv
    BY Initially
  <1>2. IInv /\ [Next]_vars => IInv'
    BY Stepwise
  <1> QED
    BY <1>1, <1>2, PTL DEF Spec

\* Every variable has its type, whatever the numbers of requests and packets.
THEOREM TypeCorrect ==
    ASSUME Quick
    PROVE  Spec => []TypeOK
  <1>1. IInv => TypeOK
    <2> SUFFICES ASSUME IInv PROVE TypeOK
      OBVIOUS
    <2>1. slave.sent \in 0..slave.request.packets
      <3>1. slave.sent \in Nat /\ slave.request.packets \in Nat
        BY FieldFacts, RequestFacts DEF IInv
      <3>2. slave.sent <= slave.request.packets
        <4>1. CASE ~Begun
          BY <3>1, <4>1 DEF IInv, QuietInv, SlaveDone
        <4>2. CASE Begun /\ ~Relayed(host.request)
          BY <3>1, <4>2 DEF IInv, FlowInv, LocalInv, SlaveDone
        <4>3. CASE Begun /\ Relayed(host.request) /\ ~NoneToTake
          BY <3>1, <4>3 DEF IInv, FlowInv, SentInv
        <4>4. CASE Begun /\ Relayed(host.request) /\ NoneToTake
          BY <4>4 DEF IInv, FlowInv, AnsweringInv
        <4> QED
          BY <4>1, <4>2, <4>3, <4>4
      <3> QED
        BY <3>1, <3>2
    <2>2. \A s \in {response, inbox, host.got, handled.answer} :
             \A i \in 1..Len(s) : s[i] \in PacketSet
      BY FieldFacts DEF IInv, Types
    <2>3. \A i \in 1..Len(toSlave) : toSlave[i] \in MessageSet
      BY DEF IInv, Types
    <2>4. ctl \in [setup : RequestSet, pid : [Dir -> Bit], addr : {0, NewAddress},
                   msgs : {<<>>}, panic : BOOLEAN,
                   buf : [Dir -> [avail : BOOLEAN, full : BOOLEAN, pid : Bit,
                                  packet : PacketSet]]]
      BY DEF IInv, Types, CtlSet, BufferSet
    <2> QED
      BY <2>1, <2>2, <2>3, <2>4, FieldFacts DEF IInv, Types, TypeOK
  <1> QED
    BY <1>1, Invariant, PTL

\* The host reads the packets of its own answer, each once and in order.
THEOREM AnswerReadInOrder ==
    ASSUME Quick
    PROVE  Spec => []HostReadsAnswer
  <1>1. IInv => HostReadsAnswer
    <2>1. IInv => host.request \in RequestSet
      BY FieldFacts DEF IInv
    <2>2. IInv /\ Relayed(host.request) =>
             host.got = <<>> \/ host.got = Answer(host.request, Len(host.got))
      BY DEF IInv, FlowInv, WaitingInv, SentInv, AnsweringInv
    <2>3. Len(<<>>) = 0
      OBVIOUS
    <2> QED
      BY <2>1, <2>2, <2>3, AnswerFacts DEF HostReadsAnswer
  <1> QED
    BY <1>1, Invariant, PTL

\* handle_setup_response works on the whole answer to the request in setup.
THEOREM ResponseWhole ==
    ASSUME Quick
    PROVE  Spec => []AnswerHandledWhole
  <1>1. IInv => AnswerHandledWhole
    BY DEF IInv
  <1> QED
    BY <1>1, Invariant, PTL

\* A buffer the host is about to use has the PID the host expects.
THEOREM PidsAgree ==
    ASSUME Quick
    PROVE  Spec => []PidAgrees
  <1>1. IInv => PidAgrees
    BY DEF IInv, PidInv, PidAgrees, In, Out
  <1> QED
    BY <1>1, Invariant, PTL

\* No assertion of the driver fails.
THEOREM NeverPanics ==
    ASSUME Quick
    PROVE  Spec => []NoPanic
  <1>1. IInv => NoPanic
    BY DEF IInv, StatusInv, NoPanic
  <1> QED
    BY <1>1, Invariant, PTL

\* The address register changes only to the address the host has begun to use.
THEOREM AddressMovesWithHost ==
    ASSUME Quick
    PROVE  Spec => AddressFollowsHost
  <1>1. IInv /\ [Next]_vars => [ctl'.addr # ctl.addr => ctl'.addr = host.addr]_vars
    BY Stepwise
  <1> QED
    BY <1>1, Invariant, PTL DEF Spec, AddressFollowsHost
=============================================================================
