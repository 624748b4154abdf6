---------------------------- MODULE DriversOrder ----------------------------
(***************************************************************************)
(* Proofs about Drivers: one question at a time, core 0 of the master goes *)
(* on, and every packet arrives once and in order.  For a device that is   *)
(* allowed they need that the configuration is read only during            *)
(* enumeration, and that the packet memory is enough for so many readings: *)
(* Enough.  Readings in operation, and a smaller memory, do stop core 0.   *)
(*                                                                         *)
(* There is one OUT packet at a time and one question for an IN packet;    *)
(* the invariant says where each of them is.                               *)
(***************************************************************************)
EXTENDS DriversProofs, FiniteSetTheorems

\* A device takes at most four blocks each time its configuration is read.
Enough == ~Rereads /\ 4 * MaxReads <= MemUnits

-----------------------------------------------------------------------------
(* What is in the queues.                                                  *)

Single == {"ask", "data", "config", "report"}

Queued(type) == \E k \in DOMAIN toSlave : toSlave[k].type = type
Arrived(type) == inbox # <<>> /\ inbox[1].type = type
Came(a) == Arrived("packet") /\ inbox[1].addr = a
Going(type) == Queued(type) \/ Arrived(type)

\* One message of each kind, data at the end, requests for the first endpoint only, and
\* one answer at a time, which no control request overtakes.
QueueInv ==
    /\ \A j, k \in DOMAIN toSlave :
          toSlave[j].type \in Single /\ toSlave[j].type = toSlave[k].type => j = k
    /\ \A k \in DOMAIN toSlave :
          /\ toSlave[k].type = "data" => k = Len(toSlave)
          /\ toSlave[k].type = "ask" => toSlave[k].addr = In(1)
    /\ Len(inbox) <= 1
    /\ Queued("config") \/ Queued("report") => inbox = <<>>

-----------------------------------------------------------------------------
(* Where a packet is.                                                      *)

OutPlaces == {"closed", "host", "done", "data", "back"}

\* The OUT buffer waits for the host, was filled, is a message, or the slave has
\* answered it; or the endpoint is closed.
OutAt(p) ==
    /\ m.eps[BulkOut].buf.avail <=> p = "host"
    /\ BulkOut \in bits <=> p = "done"
    /\ Queued("data") <=> p = "data"
    /\ Came(BulkOut) <=> p = "back"

\* The OUT packet: PIDs, numbers, and how much of the command follows.
OutInv(p) ==
    /\ OutAt(p)
    /\ m.eps[BulkOut].pid = IF p = "host" THEN 1 - host.pid[BulkOut] ELSE host.pid[BulkOut]
    /\ p = "host" => m.eps[BulkOut].buf.pid = host.pid[BulkOut]
    /\ p = "done" =>
          /\ m.eps[BulkOut].buf.full
          /\ m.eps[BulkOut].buf.packet.n = host.sent /\ m.eps[BulkOut].buf.packet.left = host.left
    /\ \A k \in DOMAIN toSlave : toSlave[k].type = "data" =>
          toSlave[k].packet.n = host.sent /\ toSlave[k].packet.left = host.left
    /\ host.sent = IF p \in {"done", "data"} THEN slave.got + 1 ELSE slave.got
    /\ p \in {"closed", "host", "back"} => slave.left = host.left

\* An IN packet the host has read was the last, or its command is over, and the poll
\* that has not seen it yet will ask for nothing.
Spent ==
    /\ In(1) \in bits /\ kind = "storage"
    /\ ~m.permit \/ (m.counted /\ m.eps[In(1)].buf.packet.len = StatusLength)

InPlaces == {"none", "ask", "asked", "packet", "buffer", "read"}

\* The question for an IN packet is on its way, the device is asked, the packet is on
\* its way, waits for the host, or was read and the next question is due.
InAt(q) ==
    /\ Queued("ask") <=> q = "ask"
    /\ In(1) \in slave.asked <=> q = "asked"
    /\ Came(In(1)) <=> q = "packet"
    /\ m.eps[In(1)].buf.avail <=> q = "buffer"
    /\ In(1) \in bits /\ ~Spent <=> q = "read"

\* The packet p is the last one the device returned; one without a rest is a status.
Newest(p) == p.n = slave.sent /\ (kind = "storage" /\ p.left = 0 => p.len = StatusLength)

\* The IN packet: PIDs and numbers.
InInv(q) ==
    /\ InAt(q)
    /\ m.eps[In(1)].pid = IF q = "buffer" THEN 1 - host.pid[In(1)] ELSE host.pid[In(1)]
    /\ q = "buffer" =>
          /\ m.eps[In(1)].buf.pid = host.pid[In(1)]
          /\ Newest(m.eps[In(1)].buf.packet)
          /\ kind = "storage" => m.permit /\ m.counted
    /\ In(1) \in bits => ~m.eps[In(1)].buf.full
    /\ q = "packet" => Newest(inbox[1].packet)
    /\ slave.sent = IF q \in {"packet", "buffer"} THEN host.got + 1 ELSE host.got

\* Nobody asks for the second endpoint of a mouse.
SecondIdle ==
    /\ In(2) \notin slave.asked /\ ~Came(In(2))
    /\ ~m.eps[In(2)].buf.avail /\ In(2) \notin bits

-----------------------------------------------------------------------------
(* How the two go together.                                                *)

\* Mass storage: no question before the whole command has arrived but one that data
\* will replace; a spent packet is seen by a poll before the next one arrives.
StorageInv(p, q) ==
    kind = "storage" =>
        /\ p \in {"done", "data", "back"} => host.busy
        /\ q # "none" => host.busy /\ p \notin {"back", "closed"}
        /\ q \in {"ask", "asked"} /\ p \in {"done", "data"} => slave.left > 0
        /\ q \in {"packet", "buffer", "read"} => p = "host" /\ host.left = 0
        /\ Spent => /\ q # "buffer"
                    /\ q \in {"ask", "asked"} => turn = "irq" \/ p \in {"done", "data"}
                    /\ q = "packet" => turn = "irq"

MouseInv(p, q) == kind = "mouse" => p = "closed" /\ (~host.described => q = "none")

\* A configuration is read during enumeration, a report descriptor in operation.
ControlInv(q) ==
    /\ Going("config") => host.stage = "enumerating" /\ ~reset
    /\ Going("report") => host.stage = "operating" /\ kind = "mouse" /\ host.described /\ q = "none"

\* The endpoints of the device are open and have their driver.
Ready ==
    /\ m.eps[In(1)].open
    /\ kind = "storage" => /\ m.eps[BulkOut].open
                           /\ m.driver[Idx(BulkOut)] = "storage" /\ m.driver[Idx(In(1))] = "storage"
    /\ kind = "mouse" => m.driver[Idx(In(1))] = "hid"

EnumerationInv(p, q) ==
    /\ host.stage = "enumerating" =>
          /\ p \in {"closed", "host"} /\ q = "none" /\ bits = {}
          /\ host.pid[BulkOut] = 0 /\ host.pid[In(1)] = 0
          /\ host.left = 0 /\ ~host.busy /\ ~host.described
    /\ host.stage = "operating" \/ (host.reads > 0 /\ ~Going("config")) => Ready
    /\ reset => host.stage = "enumerating" /\ host.reads = 0
    /\ ~reset => m.next + (IF Going("config") THEN 4 ELSE 0) <= 4 * host.reads

At(p, q) ==
    /\ OutInv(p) /\ InInv(q) /\ StorageInv(p, q) /\ MouseInv(p, q)
    /\ ControlInv(q) /\ EnumerationInv(p, q)

Placed ==
    /\ ~m.panic /\ QueueInv /\ SecondIdle
    /\ \E p \in OutPlaces, q \in InPlaces : At(p, q)

\* A device that is not allowed is asked at most once, after its report descriptor was
\* read; what it answers stops core 0.
Chain(x) == x.type \in {"report", "ask", "packet"}
Silent(s) == \A k \in DOMAIN s : ~Chain(s[k])
Alone(s) == \A j, k \in DOMAIN s : Chain(s[j]) /\ Chain(s[k]) => j = k
Quiet ==
    /\ Alone(toSlave) /\ Alone(inbox)
    /\ Silent(toSlave) \/ Silent(inbox)
    /\ slave.asked = {} \/ (Silent(toSlave) /\ Silent(inbox))
    /\ ~host.described => slave.asked = {} /\ Silent(toSlave) /\ Silent(inbox)

OrderInv == IF kind \in Allowed THEN Placed ELSE Quiet

-----------------------------------------------------------------------------
(* Messages that come and go.                                              *)

\* A message of another kind than the four that are single changes nothing of the queue.
LEMMA QuietlySent ==
    ASSUME toSlave \in Seq(Sent), QueueInv, ~Queued("data"), NEW t \in Seq(Sent),
           \A k \in DOMAIN t : t[k].type \in {"open", "reset"},
           toSlave' = toSlave \o t, inbox' = inbox \/ inbox' = <<>>
    PROVE  QueueInv' /\ \A type \in Single : Queued(type)' <=> Queued(type)
<1> DEFINE s == toSlave
           u == s \o t
<1>1. /\ \A k \in DOMAIN u : \/ k \in DOMAIN s /\ u[k] = s[k]
                             \/ u[k].type \in {"open", "reset"}
      /\ \A k \in DOMAIN s : k \in DOMAIN u /\ u[k] = s[k]
  OBVIOUS
<1> HIDE DEF u
<1>2. toSlave' = u
  BY DEF u
<1>3. \A k \in DOMAIN u : u[k].type \in Single => k \in DOMAIN s /\ u[k] = s[k]
  BY <1>1 DEF Single
<1>4. \A type \in Single : Queued(type)' <=> Queued(type)
  <2> SUFFICES ASSUME NEW type \in Single
               PROVE  (\E k \in DOMAIN u : u[k].type = type) <=> (\E k \in DOMAIN s : s[k].type = type)
    BY <1>2 DEF Queued
  <2> QED BY <1>1, <1>3
<1>5. /\ \A j, k \in DOMAIN s : s[j].type \in Single /\ s[j].type = s[k].type => j = k
      /\ \A k \in DOMAIN s : s[k].type # "data" /\ (s[k].type = "ask" => s[k].addr = In(1))
      /\ Len(inbox) <= 1
      /\ Queued("config") \/ Queued("report") => inbox = <<>>
  BY DEF QueueInv, Queued
<1>6. \A j, k \in DOMAIN u : u[j].type \in Single /\ u[j].type = u[k].type => j = k
  BY <1>3, <1>5
<1>7. \A k \in DOMAIN u : u[k].type # "data" /\ (u[k].type = "ask" => u[k].addr = In(1))
  BY <1>3, <1>5 DEF Single
<1>8. Len(inbox') <= 1 /\ (Queued("config")' \/ Queued("report")' => inbox' = <<>>)
  BY <1>4, <1>5 DEF Single
<1>9. QueueInv'
  BY <1>2, <1>6, <1>7, <1>8 DEF QueueInv
<1> QED BY <1>4, <1>9

\* A single message of which there was none.
LEMMA Appended ==
    ASSUME toSlave \in Seq(Sent), QueueInv, ~Queued("data"), NEW x \in Sent,
           x.type \in Single, ~Queued(x.type), x.type = "ask" => x.addr = In(1),
           toSlave' = Append(toSlave, x), inbox' = inbox \/ inbox' = <<>>,
           x.type \in {"config", "report"} => inbox' = <<>>
    PROVE  /\ QueueInv' /\ Queued(x.type)'
           /\ \A type \in Single : type # x.type => (Queued(type)' <=> Queued(type))
           /\ \A k \in DOMAIN toSlave' : toSlave'[k].type = x.type => toSlave'[k] = x
<1> DEFINE s == toSlave
           u == Append(s, x)
           n == Len(s) + 1
<1>1. /\ \A k \in DOMAIN u : (k \in DOMAIN s /\ u[k] = s[k]) \/ k = n
      /\ u[n] = x /\ n \in DOMAIN u /\ n \notin DOMAIN s /\ Len(u) = n
      /\ \A k \in DOMAIN s : k \in DOMAIN u /\ u[k] = s[k]
  OBVIOUS
<1> HIDE DEF u, n
<1>2. toSlave' = u
  BY DEF u
<1>3. \A k \in DOMAIN s : s[k].type # x.type /\ s[k].type # "data"
  BY DEF Queued
<1>4. Queued(x.type)'
  BY <1>1, <1>2 DEF Queued
<1>5. ASSUME NEW type \in Single, type # x.type
      PROVE  Queued(type)' <=> Queued(type)
  <2>1. (\E k \in DOMAIN u : u[k].type = type) <=> (\E k \in DOMAIN s : s[k].type = type)
    BY <1>1, <1>5
  <2> QED BY <1>2, <2>1 DEF Queued
<1>6. /\ \A j, k \in DOMAIN s : s[j].type \in Single /\ s[j].type = s[k].type => j = k
      /\ \A k \in DOMAIN s : s[k].type = "ask" => s[k].addr = In(1)
      /\ Len(inbox) <= 1
      /\ Queued("config") \/ Queued("report") => inbox = <<>>
  BY DEF QueueInv
<1>7. \A j, k \in DOMAIN u : u[j].type \in Single /\ u[j].type = u[k].type => j = k
  BY <1>1, <1>3, <1>6
<1>8. \A k \in DOMAIN u : /\ u[k].type = "data" => k = Len(u)
                          /\ u[k].type = "ask" => u[k].addr = In(1)
  BY <1>1, <1>3, <1>6
<1>9. Len(inbox') <= 1 /\ (Queued("config")' \/ Queued("report")' => inbox' = <<>>)
  <2>1. Len(inbox') <= 1
    BY <1>6
  <2>2. "config" \in Single /\ "report" \in Single
    BY DEF Single
  <2>3. CASE x.type \in {"config", "report"}
    BY <2>1, <2>3
  <2>4. CASE x.type \notin {"config", "report"}
    BY <1>5, <1>6, <2>1, <2>2, <2>4
  <2> QED BY <2>3, <2>4
<1>10. QueueInv'
  BY <1>2, <1>7, <1>8, <1>9 DEF QueueInv
<1>11. \A k \in DOMAIN u : u[k].type = x.type => u[k] = x
  BY <1>1, <1>3
<1> QED BY <1>2, <1>4, <1>5, <1>10, <1>11

\* The slave takes the first message.
LEMMA Taken ==
    ASSUME toSlave \in Seq(Sent), QueueInv, toSlave # <<>>, toSlave' = Tail(toSlave)
    PROVE  /\ \A type \in Single : Queued(type)' <=> Queued(type) /\ Head(toSlave).type # type
           /\ \A type : Head(toSlave).type = type => Queued(type)
           /\ Head(toSlave).type = "data" => toSlave' = <<>>
           /\ Head(toSlave).type = "ask" => Head(toSlave).addr = In(1)
           /\ \A k \in DOMAIN toSlave' : k + 1 \in DOMAIN toSlave /\ toSlave'[k] = toSlave[k+1]
           /\ \A j, k \in DOMAIN toSlave' :
                 toSlave'[j].type \in Single /\ toSlave'[j].type = toSlave'[k].type => j = k
           /\ \A k \in DOMAIN toSlave' :
                 /\ toSlave'[k].type = "data" => k = Len(toSlave')
                 /\ toSlave'[k].type = "ask" => toSlave'[k].addr = In(1)
<1> DEFINE s == toSlave
           u == Tail(s)
           x == Head(s)
<1>1. /\ \A k \in DOMAIN u : k + 1 \in DOMAIN s /\ u[k] = s[k+1] /\ k \in Nat /\ k >= 1
      /\ \A k \in DOMAIN s : k = 1 \/ (k - 1 \in DOMAIN u /\ u[k-1] = s[k])
      /\ 1 \in DOMAIN s /\ x = s[1] /\ Len(s) = Len(u) + 1 /\ DOMAIN s = 1..Len(s)
      /\ DOMAIN u = 1..Len(u) /\ Len(u) \in Nat /\ u \in Seq(Sent)
  OBVIOUS
<1> HIDE DEF u, x
<1>2. toSlave' = u
  BY DEF u
<1>3. /\ \A j, k \in DOMAIN s : s[j].type \in Single /\ s[j].type = s[k].type => j = k
      /\ \A k \in DOMAIN s : /\ s[k].type = "data" => k = Len(s)
                             /\ s[k].type = "ask" => s[k].addr = In(1)
  BY DEF QueueInv
<1>4. ASSUME NEW type \in Single
      PROVE  (\E k \in DOMAIN u : u[k].type = type) <=> (\E k \in DOMAIN s : s[k].type = type) /\ x.type # type
  <2>1. ASSUME NEW k \in DOMAIN u, u[k].type = type
        PROVE  (\E l \in DOMAIN s : s[l].type = type) /\ x.type # type
    <3>1. k + 1 \in DOMAIN s /\ s[k+1].type = type /\ k + 1 # 1
      BY <1>1, <2>1
    <3> QED BY <1>1, <1>3, <3>1
  <2>2. ASSUME NEW k \in DOMAIN s, s[k].type = type, x.type # type
        PROVE  \E l \in DOMAIN u : u[l].type = type
    BY <1>1, <2>2
  <2> QED BY <2>1, <2>2
<1>5. \A type \in Single : Queued(type)' <=> Queued(type) /\ x.type # type
  BY <1>2, <1>4 DEF Queued
<1>6. \A type : x.type = type => Queued(type)
  BY <1>1 DEF Queued
<1>7. x.type = "data" => u = <<>>
  <2> SUFFICES ASSUME x.type = "data" PROVE u = <<>>
    OBVIOUS
  <2>1. Len(s) = 1
    BY <1>1, <1>3
  <2> QED BY <1>1, <2>1
<1>8. ASSUME NEW j \in DOMAIN u, NEW k \in DOMAIN u, u[j].type \in Single, u[j].type = u[k].type
      PROVE  j = k
  <2>1. j + 1 = k + 1
    BY <1>1, <1>3, <1>8
  <2> QED BY <1>1, <2>1
<1>9. ASSUME NEW k \in DOMAIN u
      PROVE  /\ u[k].type = "data" => k = Len(u)
             /\ u[k].type = "ask" => u[k].addr = In(1)
  BY <1>1, <1>3
<1> QED BY <1>1, <1>2, <1>3, <1>5, <1>6, <1>7, <1>8, <1>9 DEF x

-----------------------------------------------------------------------------
(* What the drivers do for a device that is allowed.                       *)

\* Buffer a has p, and nothing else has changed but what the drivers count.
Filled(d, e, a, p) ==
    /\ SameRest(d, e) /\ e.panic = d.panic
    /\ \A c \in Addresses : c # a => e.eps[c] = d.eps[c]
    /\ e.eps[a].open = d.eps[a].open /\ e.eps[a].pid = 1 - d.eps[a].pid
    /\ e.eps[a].buf.avail /\ e.eps[a].buf.pid = d.eps[a].pid /\ e.eps[a].buf.packet = p

Counting(d, e) == e.permit = d.permit /\ e.counted = d.counted

\* A transfer over an open endpoint.
LEMMA Fills ==
    ASSUME NEW d, Held(d), NEW a \in Addresses, NEW p \in PacketSet,
           a = BulkOut => p.left \in 0..MaxOut, kind \in Allowed, d.eps[a].open
    PROVE  /\ Held(Xfer(d, a, p)) /\ Filled(d, Xfer(d, a, p), a, p)
           /\ Counting(d, Xfer(d, a, p)) /\ Xfer(d, a, p).msgs = d.msgs
<1> DEFINE e == Xfer(d, a, p)
           b == [avail |-> TRUE, full |-> a.in, pid |-> d.eps[a].pid, packet |-> p]
           pid == 1 - d.eps[a].pid
<1>1. Held(e) /\ OfferedAt(d, e, a, p, pid)
  BY Transfers
<1> HIDE DEF e, pid
<1>2. d.eps \in [Addresses -> EndpointSet]
  BY DEF Held, MasterSet
<1>3. e.eps = [[d.eps EXCEPT ![a].buf = b] EXCEPT ![a].pid = pid]
  BY <1>1 DEF OfferedAt
<1>4. b.avail /\ b.pid = d.eps[a].pid /\ b.packet = p
  OBVIOUS
<1> HIDE DEF b
<1> DEFINE f == [d.eps[a] EXCEPT !.buf = b]
           g == [f EXCEPT !.pid = pid]
<1>5. /\ \A c \in Addresses : c # a => e.eps[c] = d.eps[c]
      /\ e.eps[a].open = d.eps[a].open /\ e.eps[a].pid = pid /\ e.eps[a].buf = b
  <2>1. d.eps[a] \in EndpointSet
    BY <1>2
  <2>2. g.open = d.eps[a].open /\ g.pid = pid /\ g.buf = b
    BY <2>1 DEF EndpointSet
  <2>3. e.eps = [d.eps EXCEPT ![a] = g]
    BY <1>2, <1>3
  <2> HIDE DEF g
  <2> QED BY <1>2, <2>2, <2>3
<1>6. Filled(d, e, a, p)
  BY <1>1, <1>4, <1>5 DEF Filled, OfferedAt, pid
<1>7. Counting(d, e) /\ e.msgs = d.msgs
  BY <1>1 DEF OfferedAt, Counting
<1> QED BY <1>1, <1>6, <1>7 DEF e

\* Asking for a packet of the first IN endpoint.
LEMMA Asks ==
    ASSUME NEW d, Held(d)
    PROVE  /\ Held(Knock(d, In(1))) /\ SameRest(d, Knock(d, In(1))) /\ Counting(d, Knock(d, In(1)))
           /\ Knock(d, In(1)).panic = d.panic /\ Knock(d, In(1)).eps = d.eps
           /\ Knock(d, In(1)).msgs = Append(d.msgs, Message("ask", In(1), NoPacket))
<1>1. Counting(d, Knock(d, In(1)))
  BY DEF Counting, Knock, Send, Held, MasterSet
<1> QED BY <1>1, Knocks DEF InAddresses

\* The OUT packet was taken: the next may come, and an IN packet is asked for.
LEMMA OutAnswered ==
    ASSUME NEW d, Held(d), Paired(d), ~d.panic, d.eps[BulkOut].open, NEW p \in PacketSet,
           d.driver[Idx(BulkOut)] = "storage"
    PROVE  LET e == SlaveData(d, BulkOut, p)
           IN  /\ Held(e) /\ Filled(d, e, BulkOut, NoPacket) /\ Counting(d, e)
               /\ e.msgs = Append(d.msgs, Message("ask", In(1), NoPacket))
<1> DEFINE c == Knock(d, In(1))
           e == Xfer(c, BulkOut, NoPacket)
<1>1. d.itf[Idx(BulkOut)] = Storage /\ kind \in Allowed
  BY OwnerFacts DEF Held, Judged, Addresses
<1>2. d.other = In(1)
  BY DEF Paired
<1>3. SlaveData(d, BulkOut, p) = e
  <2>1. ~Banned(d.itf[Idx(BulkOut)])
    BY <1>1, InterfaceFacts
  <2>2. SlaveData(d, BulkOut, p) = MscSpi(d, BulkOut, p)
    BY <2>1 DEF SlaveData
  <2> QED BY <1>2, <2>2, Addressing DEF MscSpi
<1>4. /\ Held(c) /\ SameRest(d, c) /\ Counting(d, c) /\ c.panic = d.panic /\ c.eps = d.eps
      /\ c.msgs = Append(d.msgs, Message("ask", In(1), NoPacket))
  BY Asks
<1> HIDE DEF c
<1>5. Held(e) /\ Filled(c, e, BulkOut, NoPacket) /\ Counting(c, e) /\ e.msgs = c.msgs
  BY <1>1, <1>4, Fills, PacketFacts, BoundFacts DEF Addresses
<1> HIDE DEF e
<1>6. Filled(d, e, BulkOut, NoPacket) /\ Counting(d, e)
  BY <1>4, <1>5 DEF Filled, SameRest, Counting
<1> QED BY <1>3, <1>4, <1>5, <1>6

\* An IN packet has come and waits for the host.
LEMMA InAnswered ==
    ASSUME NEW d, Held(d), ~d.panic, d.eps[In(1)].open, NEW p \in PacketSet, kind \in Allowed,
           kind = "storage" => d.driver[Idx(In(1))] = "storage",
           kind = "mouse" => d.driver[Idx(In(1))] = "hid"
    PROVE  LET e == SlaveData(d, In(1), p)
           IN  /\ Held(e) /\ Filled(d, e, In(1), p) /\ e.msgs = d.msgs
               /\ kind = "storage" => e.permit /\ e.counted
<1>1. d.itf[Idx(In(1))] = Owner(In(1)) /\ In(1) \in Addresses /\ In(1) # BulkOut
  BY Addressing DEF Held, Judged, Addresses
<1>2. ~Banned(d.itf[Idx(In(1))])
  BY <1>1, OwnersOf, InterfaceFacts DEF Allowed
<1>3. CASE kind = "storage"
  <2> DEFINE c == [d EXCEPT !.permit = TRUE, !.counted = TRUE]
             e == Xfer(c, In(1), p)
  <2>1. SlaveData(d, In(1), p) = e
    <3>1. SlaveData(d, In(1), p) = MscSpi(d, In(1), p)
      BY <1>2, <1>3 DEF SlaveData
    <3> QED BY <3>1, Addressing DEF MscSpi
  <2>2. /\ Held(c) /\ SameRest(d, c) /\ c.panic = d.panic /\ c.eps = d.eps
        /\ c.msgs = d.msgs /\ c.permit /\ c.counted
    BY Counts
  <2> HIDE DEF c
  <2>3. Held(e) /\ Filled(c, e, In(1), p) /\ Counting(c, e) /\ e.msgs = c.msgs
    BY <1>1, <2>2, Fills
  <2> HIDE DEF e
  <2>4. Filled(d, e, In(1), p) /\ e.permit /\ e.counted
    BY <2>2, <2>3 DEF Filled, SameRest, Counting
  <2> QED BY <2>1, <2>2, <2>3, <2>4
<1>4. CASE kind = "mouse"
  <2>1. SlaveData(d, In(1), p) = Xfer(d, In(1), p)
    BY <1>2, <1>4 DEF SlaveData, HidSpi
  <2>2. Held(Xfer(d, In(1), p)) /\ Filled(d, Xfer(d, In(1), p), In(1), p) /\ Xfer(d, In(1), p).msgs = d.msgs
    BY <1>1, Fills
  <2> QED BY <1>4, <2>1, <2>2
<1> QED BY <1>3, <1>4 DEF Allowed

\* The host has filled the OUT buffer: its packet goes to the slave.
LEMMA OutPassed ==
    ASSUME NEW d, Held(d), ~d.panic, d.driver[Idx(BulkOut)] = "storage", d.eps[BulkOut].buf.full
    PROVE  LET e == BufferDone(d, BulkOut)
           IN  /\ Held(e) /\ SameRest(d, e) /\ e.panic = d.panic /\ e.eps = d.eps
               /\ ~e.permit /\ ~e.counted
               /\ e.msgs = Append(d.msgs, Message("data", BulkOut, d.eps[BulkOut].buf.packet))
<1> DEFINE c == [d EXCEPT !.permit = FALSE, !.counted = FALSE]
           x == Message("data", BulkOut, d.eps[BulkOut].buf.packet)
           e == Send(c, x)
<1>1. d.eps \in [Addresses -> EndpointSet] /\ d.eps[BulkOut].buf.packet.left \in 0..MaxOut
  BY DEF Held, MasterSet, OutFits
<1>2. d.eps[BulkOut].buf \in BufSet
  BY <1>1 DEF EndpointSet, Addresses
<1>3. x \in Sent
  BY <1>1, <1>2, MessageFacts DEF BufSet
<1>4. BufferDone(d, BulkOut) = e
  <2>1. BulkOut.in = FALSE /\ d.eps[BulkOut].buf.full = TRUE
    BY <1>2, Addressing, IndexOwn DEF BufSet, Addresses
  <2>2. BufferDone(d, BulkOut) = XferCompleted(d, BulkOut, d.eps[BulkOut].buf.packet)
    BY <2>1 DEF BufferDone
  <2> QED BY <2>1, <2>2 DEF XferCompleted, MscXfer
<1>5. /\ Held(c) /\ SameRest(d, c) /\ c.panic = d.panic /\ c.eps = d.eps
      /\ c.msgs = d.msgs /\ c.permit = FALSE /\ c.counted = FALSE
  BY Counts
<1> HIDE DEF c, x
<1>6. Held(e) /\ SameRest(c, e) /\ e.panic = c.panic /\ e.eps = c.eps /\ e.msgs = Append(c.msgs, x)
  BY <1>3, <1>5, Sends
<1>7. e.permit = c.permit /\ e.counted = c.counted
  BY <1>5 DEF Send, Held, MasterSet
<1> HIDE DEF e
<1>8. SameRest(d, e) /\ e.panic = d.panic /\ e.eps = d.eps /\ ~e.permit /\ ~e.counted /\ e.msgs = Append(d.msgs, x)
  BY <1>5, <1>6, <1>7 DEF SameRest
<1> QED BY <1>4, <1>6, <1>8 DEF x

\* Whether the next packet is asked for after one the host has read.
Onward(d) ==
    kind = "mouse" \/ (d.permit /\ ~(d.eps[In(1)].buf.packet.len = StatusLength /\ d.counted))

\* The host has read the IN buffer.
LEMMA InPassed ==
    ASSUME NEW d, Held(d), ~d.panic, ~d.eps[In(1)].buf.full, kind \in Allowed,
           kind = "storage" => d.driver[Idx(In(1))] = "storage",
           kind = "mouse" => d.driver[Idx(In(1))] = "hid"
    PROVE  BufferDone(d, In(1)) = IF Onward(d) THEN Knock(d, In(1)) ELSE d
<1> DEFINE p == d.eps[In(1)].buf.packet
<1>1. d.eps[In(1)].buf.full # In(1).in
  BY Addressing
<1>2. BufferDone(d, In(1)) = XferCompleted(d, In(1), p)
  BY <1>1 DEF BufferDone
<1>3. CASE kind = "storage"
  <2>1. BufferDone(d, In(1)) = MscXfer(d, In(1), p)
    BY <1>2, <1>3 DEF XferCompleted
  <2> QED BY <1>3, <2>1, Addressing DEF MscXfer, Onward
<1>4. CASE kind = "mouse"
  <2>1. BufferDone(d, In(1)) = HidXfer(d, In(1))
    BY <1>2, <1>4 DEF XferCompleted
  <2> QED BY <1>4, <2>1 DEF HidXfer, Onward
<1> QED BY <1>3, <1>4 DEF Allowed

-----------------------------------------------------------------------------
(* What a step leaves where it is.                                         *)

\* A step that leaves the OUT packet alone.
LEMMA OutStays ==
    ASSUME NEW p, OutInv(p),
           m'.eps[BulkOut] = m.eps[BulkOut], BulkOut \in bits' <=> BulkOut \in bits,
           Queued("data")' <=> Queued("data"), toSlave' = toSlave \/ ~Queued("data"),
           Came(BulkOut)' <=> Came(BulkOut),
           host'.pid[BulkOut] = host.pid[BulkOut], host'.sent = host.sent, host'.left = host.left,
           slave'.got = slave.got, slave'.left = slave.left
    PROVE  OutInv(p)'
<1>1. OutAt(p)'
  BY DEF OutInv, OutAt
<1>2. \A k \in DOMAIN toSlave' : toSlave'[k].type = "data" =>
         toSlave'[k].packet.n = host'.sent /\ toSlave'[k].packet.left = host'.left
  <2>1. CASE toSlave' = toSlave
    BY <2>1 DEF OutInv
  <2>2. CASE ~Queued("data")
    <3>1. ~Queued("data")'
      BY <2>2
    <3> QED BY <3>1 DEF Queued
  <2> QED BY <2>1, <2>2
<1> QED BY <1>1, <1>2 DEF OutInv

\* A step that leaves the IN packet alone.
LEMMA InStays ==
    ASSUME NEW q, InInv(q), kind' = kind,
           m'.eps[In(1)] = m.eps[In(1)], In(1) \in bits' <=> In(1) \in bits,
           m'.permit = m.permit, m'.counted = m.counted,
           Queued("ask")' <=> Queued("ask"), In(1) \in slave'.asked <=> In(1) \in slave.asked,
           Came(In(1))' <=> Came(In(1)), inbox' = inbox \/ q # "packet",
           host'.pid[In(1)] = host.pid[In(1)], host'.got = host.got, slave'.sent = slave.sent
    PROVE  InInv(q)' /\ (Spent' <=> Spent)
<1>1. Spent' <=> Spent
  BY DEF Spent
<1>2. InAt(q)'
  BY <1>1 DEF InInv, InAt
<1>3. q = "packet" => Newest(inbox[1].packet)'
  BY DEF InInv, Newest
<1>4. q = "buffer" => Newest(m.eps[In(1)].buf.packet)'
  BY DEF InInv, Newest
<1> QED BY <1>1, <1>2, <1>3, <1>4 DEF InInv

\* With the inbox and the queue as they are, so is what is in them.
LEMMA QueuesStay ==
    ASSUME inbox' = inbox, toSlave' = toSlave
    PROVE  /\ \A type : (Queued(type)' <=> Queued(type)) /\ (Going(type)' <=> Going(type))
           /\ \A a : Came(a)' <=> Came(a)
           /\ QueueInv => QueueInv'
<1>1. \A type : (Queued(type)' <=> Queued(type)) /\ (Arrived(type)' <=> Arrived(type))
  BY DEF Queued, Arrived
<1>2. \A type : Going(type)' <=> Going(type)
  BY <1>1 DEF Going
<1>3. \A a : Came(a)' <=> Came(a)
  BY <1>1 DEF Came
<1>4. QueueInv => QueueInv'
  BY DEF QueueInv, Queued
<1> QED BY <1>1, <1>2, <1>3, <1>4

\* Core 0 with nothing to do, or with an answer to pass upstream.
LEMMA IdlePlaces ==
    ASSUME SafeInv, kind \in Allowed, Placed, NothingReceived \/ SendUpstream
    PROVE  Placed'
<1>1. /\ kind' = kind /\ reset' = reset /\ bits' = bits /\ slave' = slave /\ host' = host
      /\ inbox' = inbox /\ toSlave' = toSlave /\ turn' = "irq"
      /\ m'.panic = m.panic /\ m'.eps = m.eps /\ m'.driver = m.driver /\ m'.next = m.next
      /\ m'.permit = m.permit /\ m'.counted = m.counted
  <2>1. CASE NothingReceived
    BY <2>1 DEF NothingReceived, SlaveEvent
  <2>2. CASE SendUpstream
    <3> DEFINE e == [m EXCEPT !.writing = FALSE]
    <3>1. m' = e
      BY <2>2 DEF SendUpstream
    <3>2. /\ e.panic = m.panic /\ e.eps = m.eps /\ e.driver = m.driver /\ e.next = m.next
          /\ e.permit = m.permit /\ e.counted = m.counted
      BY Writes DEF SafeInv
    <3> QED BY <2>2, <3>1, <3>2 DEF SendUpstream, SlaveEvent
  <2> QED BY <2>1, <2>2
<1>2. PICK p \in OutPlaces, q \in InPlaces : At(p, q)
  BY DEF Placed
<1>3. /\ \A type : (Queued(type)' <=> Queued(type)) /\ (Going(type)' <=> Going(type))
      /\ \A a : Came(a)' <=> Came(a)
      /\ QueueInv'
  BY <1>1, QueuesStay DEF Placed
<1>4. OutInv(p)'
  BY <1>1, <1>2, <1>3, OutStays DEF At
<1>5. InInv(q)' /\ (Spent' <=> Spent)
  BY <1>1, <1>2, <1>3, InStays DEF At
<1>6. StorageInv(p, q)' /\ MouseInv(p, q)'
  BY <1>1, <1>2, <1>5 DEF At, StorageInv, MouseInv
<1>7. ControlInv(q)'
  BY <1>1, <1>2, <1>3 DEF At, ControlInv
<1>8. EnumerationInv(p, q)'
  BY <1>1, <1>2, <1>3 DEF At, EnumerationInv, Ready
<1>9. SecondIdle'
  BY <1>1, <1>3 DEF Placed, SecondIdle
<1> QED BY <1>1, <1>3, <1>4, <1>5, <1>6, <1>7, <1>8, <1>9 DEF Placed, At

-----------------------------------------------------------------------------
(* The device.                                                             *)

\* The inbox has one of the messages that may arrive, or none.
LEMMA InboxKnown ==
    ASSUME SafeInv
    PROVE  /\ inbox \in Seq(Received) /\ toSlave \in Seq(Sent)
           /\ \/ inbox = <<>> \/ Arrived("config") \/ Arrived("report")
              \/ Came(BulkOut) \/ Came(In(1)) \/ Came(In(2))
<1>1. inbox \in Seq(Received) /\ toSlave \in Seq(Sent)
  BY DEF SafeInv, Types
<1>2. ASSUME inbox # <<>>
      PROVE  /\ inbox[1].type \in {"config", "report", "packet"}
             /\ inbox[1].type = "packet" => inbox[1].addr \in Addresses
  <2>1. inbox[1] \in Received
    BY <1>1, <1>2
  <2> QED BY <2>1 DEF Received
<1> QED BY <1>1, <1>2 DEF Arrived, Came, Addresses

\* The device answers the question for an IN packet with x.
LEMMA ReturnPlaces ==
    ASSUME SafeInv, kind \in Allowed, Placed, NEW x \in PacketSet, Return(In(1), x),
           In(1) \notin slave'.asked, In(2) \notin slave'.asked, slave'.sent = slave.sent + 1,
           slave'.got = slave.got, slave'.left = slave.left, x.n = slave.sent + 1,
           kind = "storage" => slave.left = 0 /\ (x.left = 0 => x.len = StatusLength)
    PROVE  Placed'
<1> DEFINE y == Message("packet", In(1), x)
<1>1. /\ kind' = kind /\ m' = m /\ turn' = turn /\ reset' = reset /\ bits' = bits
      /\ toSlave' = toSlave /\ host' = host /\ inbox' = Append(inbox, y)
      /\ In(1) \in slave.asked
  BY DEF Return
<1>2. PICK p \in OutPlaces, q \in InPlaces : At(p, q)
  BY DEF Placed
<1>3. q = "asked"
  BY <1>1, <1>2 DEF At, InInv, InAt
<1>4. p \in {"host", "closed"} /\ (kind = "storage" => p = "host" /\ host.left = 0)
  <2>1. CASE kind = "storage"
    <3>1. p \notin {"back", "closed"} /\ p \notin {"done", "data"}
      BY <1>2, <1>3, <2>1 DEF At, StorageInv
    <3>2. p = "host"
      BY <3>1 DEF OutPlaces
    <3> QED BY <1>2, <2>1, <3>2 DEF At, OutInv
  <2>2. CASE kind = "mouse"
    BY <1>2, <2>2 DEF At, MouseInv
  <2> QED BY <2>1, <2>2 DEF Allowed
<1>5. inbox = <<>>
  <2>1. ~Came(BulkOut) /\ ~Came(In(1)) /\ ~Came(In(2))
    BY <1>2, <1>3, <1>4 DEF At, OutInv, OutAt, InInv, InAt, Placed, SecondIdle
  <2>2. host.stage # "enumerating" /\ ~Going("report")
    BY <1>2, <1>3 DEF At, EnumerationInv, ControlInv
  <2>3. ~Arrived("config") /\ ~Arrived("report")
    BY <1>2, <2>2 DEF At, ControlInv, Going
  <2> QED BY <2>1, <2>3, InboxKnown
<1>6. inbox' = <<y>> /\ inbox'[1] = y /\ Len(inbox') = 1
  BY <1>1, <1>5
<1>7. /\ \A type : (Queued(type)' <=> Queued(type)) /\ (Arrived(type)' <=> type = "packet")
      /\ \A a : Came(a)' <=> a = In(1)
  <2>1. inbox' # <<>> /\ y.type = "packet" /\ y.addr = In(1)
    BY <1>6 DEF Message
  <2> HIDE DEF y
  <2> QED BY <1>1, <1>6, <2>1 DEF Queued, Arrived, Came
<1>8. \A type \in {"config", "report"} : Going(type)' <=> Going(type)
  <2>1. \A type : ~Arrived(type)
    BY <1>5 DEF Arrived
  <2> QED BY <1>7, <2>1 DEF Going
<1>9. ~Queued("config") /\ ~Queued("report")
  BY <1>2, <1>3 DEF At, ControlInv, EnumerationInv, Going
<1>10. QueueInv'
  BY <1>1, <1>6, <1>7, <1>9 DEF Placed, QueueInv
<1>11. OutInv(p)'
  <2>1. ~Came(BulkOut)
    BY <1>5 DEF Came, Arrived
  <2> QED BY <1>1, <1>2, <1>7, <2>1, OutStays, Addressing DEF At
<1>12. Spent' <=> Spent
  BY <1>1 DEF Spent
<1>13. InInv("packet")'
  <2>1. InAt("packet")'
    BY <1>1, <1>2, <1>3, <1>7, <1>12 DEF At, InInv, InAt
  <2>2. Newest(inbox[1].packet)'
    BY <1>1, <1>6 DEF Newest, Message
  <2> QED BY <1>1, <1>2, <1>3, <2>1, <2>2 DEF At, InInv
<1>14. StorageInv(p, "packet")' /\ MouseInv(p, "packet")'
  BY <1>1, <1>2, <1>3, <1>4, <1>12 DEF At, StorageInv, MouseInv
<1>15. ControlInv("packet")'
  BY <1>1, <1>2, <1>3, <1>8 DEF At, ControlInv
<1>16. EnumerationInv(p, "packet")'
  BY <1>1, <1>2, <1>3, <1>8 DEF At, EnumerationInv, Ready
<1>17. SecondIdle'
  BY <1>1, <1>7, Addressing DEF Placed, SecondIdle
<1>18. At(p, "packet")' /\ "packet" \in InPlaces
  BY <1>11, <1>13, <1>14, <1>15, <1>16 DEF At, InPlaces
<1> QED BY <1>1, <1>10, <1>17, <1>18 DEF Placed

\* A packet or the status of a mass storage device.
LEMMA DeviceReturnPlaces ==
    ASSUME SafeInv, kind \in Allowed, Placed, DeviceReturn
    PROVE  Placed'
<1>1. slave \in SlaveSet
  BY DEF SafeInv, Types
<1>2. PICK over \in BOOLEAN, len \in DataLengths :
        /\ over \/ slave.data > 0
        /\ Return(In(1), Packet(slave.sent + 1, IF over THEN StatusLength ELSE len, IF over THEN 0 ELSE 1))
        /\ slave' = [slave EXCEPT !.asked = {}, !.busy = ~over, !.sent = @ + 1,
                                  !.data = IF over THEN 0 ELSE @ - 1]
  BY DEF DeviceReturn
<1> DEFINE x == Packet(slave.sent + 1, IF over THEN StatusLength ELSE len, IF over THEN 0 ELSE 1)
<1>3. slave.left = 0
  BY DEF DeviceReturn
<1>4. slave.sent + 1 \in Nat
  BY <1>1 DEF SlaveSet
<1>5. x \in PacketSet /\ x.n = slave.sent + 1 /\ (x.left = 0 => x.len = StatusLength)
  BY <1>4 DEF Packet, PacketSet
<1> HIDE DEF x
<1>6. /\ slave'.asked = {} /\ slave'.sent = slave.sent + 1 /\ slave'.got = slave.got
      /\ slave'.left = slave.left
  BY <1>1, <1>2 DEF SlaveSet
<1>7. Return(In(1), x)
  BY <1>2 DEF x
<1> QED BY <1>3, <1>5, <1>6, <1>7, ReturnPlaces

\* A report of a mouse.
LEMMA DeviceReportPlaces ==
    ASSUME SafeInv, kind \in Allowed, Placed, DeviceReport
    PROVE  Placed'
<1>1. slave \in SlaveSet /\ kind # "storage"
  BY DEF SafeInv, Types, DeviceReport
<1>2. PICK a \in Addresses :
        /\ Return(a, Packet(slave.sent + 1, ReportLength, 0))
        /\ slave' = [slave EXCEPT !.asked = @ \ {a}, !.sent = @ + 1]
  BY DEF DeviceReport
<1>3. a = In(1) /\ In(2) \notin slave.asked
  <2>1. a \in slave.asked /\ slave.asked \subseteq InAddresses
    BY <1>1, <1>2 DEF Return, SlaveSet
  <2> QED BY <2>1 DEF Placed, SecondIdle, InAddresses
<1> DEFINE x == Packet(slave.sent + 1, ReportLength, 0)
<1>4. slave.sent + 1 \in Nat
  BY <1>1 DEF SlaveSet
<1>5. x \in PacketSet /\ x.n = slave.sent + 1
  BY <1>4 DEF Packet, PacketSet
<1>6. /\ slave'.asked = slave.asked \ {In(1)} /\ slave'.sent = slave.sent + 1
      /\ slave'.got = slave.got /\ slave'.left = slave.left
  BY <1>1, <1>2, <1>3 DEF SlaveSet
<1>7. Return(In(1), x)
  BY <1>2, <1>3
<1> HIDE DEF x
<1> QED BY <1>1, <1>3, <1>5, <1>6, <1>7, ReturnPlaces

-----------------------------------------------------------------------------
(* The slave takes a message.                                              *)

\* A question: the device is asked.
LEMMA TakeAskPlaces ==
    ASSUME SafeInv, kind \in Allowed, Placed, SlaveTake, Head(toSlave).type = "ask"
    PROVE  Placed'
<1> DEFINE x == Head(toSlave)
<1>1. /\ kind' = kind /\ m' = m /\ turn' = turn /\ reset' = reset /\ bits' = bits /\ host' = host
      /\ toSlave # <<>> /\ toSlave' = Tail(toSlave)
      /\ inbox' = inbox \o <<>> /\ slave' = [slave EXCEPT !.asked = @ \cup {x.addr}]
  BY DEF SlaveTake
<1>2. PICK p \in OutPlaces, q \in InPlaces : At(p, q)
  BY DEF Placed
<1>3. toSlave \in Seq(Sent) /\ inbox' = inbox /\ slave \in SlaveSet
  <2>1. inbox \in Seq(Received)
    BY InboxKnown
  <2> QED BY <1>1, <2>1, InboxKnown DEF SafeInv, Types
<1>4. /\ \A type \in Single : Queued(type)' <=> Queued(type) /\ type # "ask"
      /\ Queued("ask") /\ x.addr = In(1)
      /\ \A k \in DOMAIN toSlave' : k + 1 \in DOMAIN toSlave /\ toSlave'[k] = toSlave[k+1]
      /\ \A j, k \in DOMAIN toSlave' :
            toSlave'[j].type \in Single /\ toSlave'[j].type = toSlave'[k].type => j = k
      /\ \A k \in DOMAIN toSlave' :
            /\ toSlave'[k].type = "data" => k = Len(toSlave')
            /\ toSlave'[k].type = "ask" => toSlave'[k].addr = In(1)
  BY <1>1, <1>3, Taken DEF Placed
<1>5. q = "ask"
  BY <1>2, <1>4 DEF At, InInv, InAt
<1>6. /\ slave'.asked = slave.asked \cup {In(1)} /\ slave'.sent = slave.sent
      /\ slave'.got = slave.got /\ slave'.left = slave.left
  BY <1>1, <1>3, <1>4 DEF SlaveSet
<1>7. /\ \A a : Came(a)' <=> Came(a)
      /\ \A type : Arrived(type)' <=> Arrived(type)
  BY <1>3 DEF Came, Arrived
<1>8. \A type \in {"data", "config", "report"} :
         (Queued(type)' <=> Queued(type)) /\ (Going(type)' <=> Going(type))
  BY <1>4, <1>7 DEF Single, Going
<1>9. QueueInv'
  <2>1. Len(inbox') <= 1 /\ (Queued("config")' \/ Queued("report")' => inbox' = <<>>)
    BY <1>3, <1>8 DEF Placed, QueueInv
  <2> QED BY <1>4, <2>1 DEF QueueInv
<1>10. OutInv(p)'
  <2>1. OutAt(p)'
    BY <1>1, <1>2, <1>7, <1>8 DEF At, OutInv, OutAt
  <2>2. \A k \in DOMAIN toSlave' : toSlave'[k].type = "data" =>
           toSlave'[k].packet.n = host'.sent /\ toSlave'[k].packet.left = host'.left
    BY <1>1, <1>2, <1>4 DEF At, OutInv
  <2> QED BY <1>1, <1>2, <1>6, <2>1, <2>2 DEF At, OutInv
<1>11. Spent' <=> Spent
  BY <1>1 DEF Spent
<1>12. InInv("asked")'
  <2>1. ~Queued("ask")'
    BY <1>4 DEF Single
  <2>2. InAt("asked")'
    BY <1>1, <1>2, <1>5, <1>6, <1>7, <1>11, <2>1 DEF At, InInv, InAt
  <2> QED BY <1>1, <1>2, <1>5, <1>6, <2>2 DEF At, InInv
<1>13. StorageInv(p, "asked")' /\ MouseInv(p, "asked")'
  BY <1>1, <1>2, <1>5, <1>6, <1>11 DEF At, StorageInv, MouseInv
<1>14. ControlInv("asked")'
  BY <1>1, <1>2, <1>5, <1>8 DEF At, ControlInv
<1>15. EnumerationInv(p, "asked")'
  BY <1>1, <1>2, <1>5, <1>8 DEF At, EnumerationInv, Ready
<1>16. SecondIdle'
  BY <1>1, <1>6, <1>7, Addressing DEF Placed, SecondIdle
<1>17. At(p, "asked")' /\ "asked" \in InPlaces
  BY <1>10, <1>12, <1>13, <1>14, <1>15 DEF At, InPlaces
<1> QED BY <1>1, <1>9, <1>16, <1>17 DEF Placed

\* Data: it is answered, and a question the device was asked is forgotten.
LEMMA TakeDataPlaces ==
    ASSUME SafeInv, kind \in Allowed, Placed, SlaveTake, Head(toSlave).type = "data"
    PROVE  Placed'
<1> DEFINE x == Head(toSlave)
           y == Message("packet", x.addr, NoPacket)
           n == IF x.packet.len = CommandLength /\ x.packet.left = 0 THEN MaxIn ELSE 0
<1>1. /\ kind' = kind /\ m' = m /\ turn' = turn /\ reset' = reset /\ bits' = bits /\ host' = host
      /\ toSlave # <<>> /\ toSlave' = Tail(toSlave) /\ inbox' = inbox \o <<y>>
      /\ slave' = [slave EXCEPT !.asked = {}, !.busy = TRUE, !.left = x.packet.left,
                                !.data = n, !.got = @ + 1, !.last = x.packet.n]
  BY DEF SlaveTake
<1>2. PICK p \in OutPlaces, q \in InPlaces : At(p, q)
  BY DEF Placed
<1>3. toSlave \in Seq(Sent) /\ inbox \in Seq(Received) /\ slave \in SlaveSet
  BY InboxKnown DEF SafeInv, Types
<1>4. /\ Queued("data") /\ toSlave' = <<>>
  BY <1>1, <1>3, Taken DEF Placed
<1>5. \A k \in DOMAIN toSlave' : FALSE
  BY <1>4
<1>6. \A type : ~Queued(type)'
  BY <1>5 DEF Queued
<1>7. x \in Sent /\ 1 \in DOMAIN toSlave /\ x = toSlave[1]
  BY <1>1, <1>3
<1>8. Len(toSlave) = 1
  BY <1>3, <1>7 DEF Placed, QueueInv
<1>9. x.addr = BulkOut /\ x.packet.n = host.sent /\ x.packet.left = host.left
  <2>1. x.addr = BulkOut
    BY <1>7 DEF Sent
  <2> QED BY <1>2, <1>7, <2>1 DEF At, OutInv
<1>10. p = "data" /\ kind = "storage"
  <2>1. p = "data"
    BY <1>2, <1>4 DEF At, OutInv, OutAt
  <2> QED BY <1>2, <2>1 DEF At, MouseInv, Allowed
<1>11. q \in {"none", "asked"}
  <2>1. q \notin {"packet", "buffer", "read"}
    BY <1>2, <1>10 DEF At, StorageInv
  <2>2. ~Queued("ask")
    <3>1. \A k \in DOMAIN toSlave : k = 1
      BY <1>3, <1>8
    <3> QED BY <1>7, <3>1 DEF Queued
  <2>3. q # "ask"
    BY <1>2, <2>2 DEF At, InInv, InAt
  <2> QED BY <2>1, <2>3 DEF InPlaces
<1>12. inbox = <<>>
  <2>1. ~Came(BulkOut) /\ ~Came(In(1)) /\ ~Came(In(2))
    BY <1>2, <1>10, <1>11 DEF At, OutInv, OutAt, InInv, InAt, Placed, SecondIdle
  <2>2. host.stage # "enumerating" /\ ~Going("report")
    BY <1>2, <1>10 DEF At, EnumerationInv, ControlInv
  <2>3. ~Arrived("config") /\ ~Arrived("report")
    BY <1>2, <2>2 DEF At, ControlInv, Going
  <2> QED BY <2>1, <2>3, InboxKnown
<1>13. inbox' = <<y>> /\ inbox'[1] = y /\ Len(inbox') = 1
  BY <1>1, <1>12
<1>14. /\ \A type : Arrived(type)' <=> type = "packet"
       /\ \A a : Came(a)' <=> a = BulkOut
  <2>1. inbox' # <<>> /\ y.type = "packet" /\ y.addr = BulkOut
    BY <1>9, <1>13 DEF Message
  <2> HIDE DEF y
  <2> QED BY <1>13, <2>1 DEF Arrived, Came
<1>15. ~Going("config")' /\ ~Going("report")'
  BY <1>6, <1>14 DEF Going
<1>16. QueueInv'
  BY <1>5, <1>6, <1>13 DEF QueueInv
<1>17. slave.got + 1 \in Nat /\ n \in 0..MaxIn
  BY <1>3, BoundFacts DEF SlaveSet
<1> HIDE DEF n, y, x
<1>18. /\ slave'.asked = {} /\ slave'.sent = slave.sent /\ slave'.got = slave.got + 1
       /\ slave'.left = host.left
  BY <1>1, <1>3, <1>9 DEF SlaveSet
<1>19. OutInv("back")'
  <2>1. OutAt("back")'
    BY <1>1, <1>2, <1>6, <1>10, <1>14 DEF At, OutInv, OutAt
  <2> QED BY <1>1, <1>2, <1>5, <1>10, <1>18, <2>1 DEF At, OutInv
<1>20. Spent' <=> Spent
  BY <1>1 DEF Spent
<1>21. InInv("none")'
  <2>1. InAt("none")'
    BY <1>1, <1>2, <1>6, <1>11, <1>14, <1>18, <1>20, Addressing DEF At, InInv, InAt
  <2> QED BY <1>1, <1>2, <1>11, <1>18, <2>1 DEF At, InInv
<1>22. StorageInv("back", "none")' /\ MouseInv("back", "none")'
  BY <1>1, <1>2, <1>10 DEF At, StorageInv, MouseInv
<1>23. ControlInv("none")'
  BY <1>15 DEF ControlInv
<1>24. EnumerationInv("back", "none")'
  <2>1. host.stage = "operating"
    <3>1. host \in HostSet
      BY DEF SafeInv, Types
    <3> QED BY <1>2, <1>10, <3>1 DEF At, EnumerationInv, HostSet
  <2>2. ~Going("config")
    BY <1>2, <2>1 DEF At, ControlInv
  <2> QED BY <1>1, <1>2, <1>15, <2>1, <2>2 DEF At, EnumerationInv, Ready
<1>25. SecondIdle'
  BY <1>1, <1>14, <1>18, Addressing DEF Placed, SecondIdle
<1>26. At("back", "none")' /\ "back" \in OutPlaces /\ "none" \in InPlaces
  BY <1>19, <1>21, <1>22, <1>23, <1>24 DEF At, InPlaces, OutPlaces
<1> QED BY <1>1, <1>16, <1>25, <1>26 DEF Placed

\* A control request, which is answered, or what the slave has only to know.
LEMMA TakeOtherPlaces ==
    ASSUME SafeInv, kind \in Allowed, Placed, SlaveTake, Head(toSlave).type \notin {"ask", "data"}
    PROVE  Placed'
<1> DEFINE x == Head(toSlave)
<1>1. /\ kind' = kind /\ m' = m /\ turn' = turn /\ reset' = reset /\ bits' = bits /\ host' = host
      /\ toSlave # <<>> /\ toSlave' = Tail(toSlave) /\ slave' = slave
      /\ inbox' = inbox \o (IF x.type \in {"config", "report"} THEN <<x>> ELSE <<>>)
  BY DEF SlaveTake
<1>2. PICK p \in OutPlaces, q \in InPlaces : At(p, q)
  BY DEF Placed
<1>3. toSlave \in Seq(Sent) /\ inbox \in Seq(Received)
  BY InboxKnown
<1>4. /\ \A type \in Single : Queued(type)' <=> Queued(type) /\ x.type # type
      /\ \A type : x.type = type => Queued(type)
      /\ \A k \in DOMAIN toSlave' : k + 1 \in DOMAIN toSlave /\ toSlave'[k] = toSlave[k+1]
      /\ \A j, k \in DOMAIN toSlave' :
            toSlave'[j].type \in Single /\ toSlave'[j].type = toSlave'[k].type => j = k
      /\ \A k \in DOMAIN toSlave' :
            /\ toSlave'[k].type = "data" => k = Len(toSlave')
            /\ toSlave'[k].type = "ask" => toSlave'[k].addr = In(1)
  BY <1>1, <1>3, Taken DEF Placed
<1> HIDE DEF x
<1>5. (Queued("data")' <=> Queued("data")) /\ (Queued("ask")' <=> Queued("ask"))
  BY <1>4 DEF Single, x
<1>6. /\ \A a : Came(a)' <=> Came(a)
      /\ \A type \in {"config", "report"} : Going(type)' <=> Going(type)
      /\ Len(inbox') <= 1 /\ (Queued("config")' \/ Queued("report")' => inbox' = <<>>)
      /\ inbox' = inbox \/ ~Came(In(1))
  <2>1. CASE x.type \in {"config", "report"}
    <3>1. inbox = <<>>
      BY <1>4, <2>1 DEF Placed, QueueInv
    <3>2. inbox' = <<x>> /\ inbox'[1] = x /\ inbox' # <<>> /\ Len(inbox') = 1
      BY <1>1, <2>1, <3>1
    <3>3. \A type : (Arrived(type)' <=> x.type = type) /\ ~Arrived(type)
      BY <3>1, <3>2 DEF Arrived
    <3>4. \A a : ~Came(a)' /\ ~Came(a)
      BY <2>1, <3>3 DEF Came
    <3>5. \A type \in {"config", "report"} : Going(type)' <=> Going(type)
      BY <1>4, <3>3 DEF Going, Single
    <3>6. ~(Going("config") /\ Going("report"))
      BY <1>2 DEF At, ControlInv
    <3>7. ~Queued("config")' /\ ~Queued("report")'
      BY <1>4, <2>1, <3>6 DEF Going, Single
    <3> QED BY <3>2, <3>4, <3>5, <3>7
  <2>2. CASE x.type \notin {"config", "report"}
    <3>1. inbox' = inbox
      BY <1>1, <1>3, <2>2
    <3>2. \A type : Arrived(type)' <=> Arrived(type)
      BY <3>1 DEF Arrived
    <3>3. \A a : Came(a)' <=> Came(a)
      BY <3>1, <3>2 DEF Came
    <3>4. \A type \in {"config", "report"} : Queued(type)' <=> Queued(type)
      BY <1>4, <2>2 DEF Single
    <3>5. \A type \in {"config", "report"} : Going(type)' <=> Going(type)
      BY <3>2, <3>4 DEF Going
    <3> QED BY <3>1, <3>3, <3>4, <3>5 DEF Placed, QueueInv
  <2> QED BY <2>1, <2>2
<1>7. QueueInv'
  BY <1>4, <1>6 DEF QueueInv
<1>8. OutInv(p)'
  <2>1. OutAt(p)'
    BY <1>1, <1>2, <1>5, <1>6 DEF At, OutInv, OutAt
  <2>2. \A k \in DOMAIN toSlave' : toSlave'[k].type = "data" =>
           toSlave'[k].packet.n = host'.sent /\ toSlave'[k].packet.left = host'.left
    BY <1>1, <1>2, <1>4 DEF At, OutInv
  <2> QED BY <1>1, <1>2, <2>1, <2>2 DEF At, OutInv
<1>9. InInv(q)' /\ (Spent' <=> Spent)
  <2>1. inbox' = inbox \/ q # "packet"
    BY <1>2, <1>6 DEF At, InInv, InAt
  <2> QED BY <1>1, <1>2, <1>5, <1>6, <2>1, InStays DEF At
<1>10. StorageInv(p, q)' /\ MouseInv(p, q)'
  BY <1>1, <1>2, <1>9 DEF At, StorageInv, MouseInv
<1>11. ControlInv(q)'
  BY <1>1, <1>2, <1>6 DEF At, ControlInv
<1>12. EnumerationInv(p, q)'
  BY <1>1, <1>2, <1>6 DEF At, EnumerationInv, Ready
<1>13. SecondIdle'
  BY <1>1, <1>6 DEF Placed, SecondIdle
<1> QED BY <1>1, <1>2, <1>7, <1>8, <1>9, <1>10, <1>11, <1>12, <1>13 DEF Placed, At

\* Whatever the message.
LEMMA SlaveTakePlaces ==
    ASSUME SafeInv, kind \in Allowed, Placed, SlaveTake
    PROVE  Placed'
  BY TakeAskPlaces, TakeDataPlaces, TakeOtherPlaces

-----------------------------------------------------------------------------
(* The host.                                                               *)

\* While no control request is going and no packet is on its way, the inbox is empty.
LEMMA InboxEmpty ==
    ASSUME SafeInv, Placed, ~ControlGoing, NEW p, NEW q, At(p, q),
           p # "back", q # "packet"
    PROVE  /\ inbox = <<>> /\ ~Going("config") /\ ~Going("report")
           /\ ~Queued("config") /\ ~Queued("report")
<1>1. ~Queued("config") /\ ~Queued("report")
  BY DEF ControlGoing, Queued, ToSet
<1>2. ~Arrived("config") /\ ~Arrived("report")
  <2>1. inbox # <<>> => 1 \in DOMAIN inbox
    BY InboxKnown
  <2> QED BY <2>1 DEF ControlGoing, Arrived, ToSet
<1>3. ~Came(BulkOut) /\ ~Came(In(1)) /\ ~Came(In(2))
  BY DEF At, OutInv, OutAt, InInv, InAt, Placed, SecondIdle
<1> QED BY <1>1, <1>2, <1>3, InboxKnown DEF Going

\* A control request of the kind type is sent.
LEMMA Requested ==
    ASSUME SafeInv, Placed, NEW type \in {"config", "report"}, Request(type),
           NEW p, NEW q, At(p, q), p \notin {"back", "data"}, q # "packet"
    PROVE  /\ kind' = kind /\ m' = m /\ turn' = turn /\ reset' = reset /\ bits' = bits
           /\ slave' = slave /\ inbox' = inbox /\ ~reset
           /\ ~Going("config") /\ ~Going("report") /\ QueueInv' /\ ~Queued("data")
           /\ \A t \in {"ask", "data"} : Queued(t)' <=> Queued(t)
           /\ \A t \in {"config", "report"} : Going(t)' <=> t = type
           /\ \A a : Came(a)' <=> Came(a)
<1> DEFINE x == Message(type, In(0), NoPacket)
<1>1. /\ kind' = kind /\ m' = m /\ turn' = turn /\ reset' = reset /\ bits' = bits
      /\ slave' = slave /\ inbox' = inbox /\ ~reset /\ toSlave' = Append(toSlave, x)
      /\ ~ControlGoing
  BY DEF Request
<1>2. /\ inbox = <<>> /\ ~Going("config") /\ ~Going("report")
      /\ ~Queued("config") /\ ~Queued("report")
  BY <1>1, InboxEmpty
<1>3. ~Queued("data")
  BY DEF At, OutInv, OutAt
<1>4. x \in Sent /\ x.type = type
  BY MessageFacts DEF Message
<1> HIDE DEF x
<1>5. /\ QueueInv' /\ Queued(type)'
      /\ \A t \in Single : t # type => (Queued(t)' <=> Queued(t))
  BY <1>1, <1>2, <1>3, <1>4, InboxKnown, Appended DEF Placed, Single
<1>6. \A t : ~Arrived(t)' /\ ~Arrived(t)
  BY <1>1, <1>2 DEF Arrived
<1>7. \A a : ~Came(a)' /\ ~Came(a)
  BY <1>6 DEF Came
<1>8. \A t \in {"config", "report"} : Going(t)' <=> t = type
  BY <1>2, <1>5, <1>6 DEF Going, Single
<1>9. \A t \in {"ask", "data"} : Queued(t)' <=> Queued(t)
  BY <1>5 DEF Single
<1> QED BY <1>1, <1>2, <1>3, <1>5, <1>7, <1>8, <1>9

\* The host reads the configuration.
LEMMA ReadConfigurationPlaces ==
    ASSUME Enough, SafeInv, kind \in Allowed, Placed, ReadConfiguration
    PROVE  Placed'
<1>1. PICK p \in OutPlaces, q \in InPlaces : At(p, q)
  BY DEF Placed
<1>2. host \in HostSet /\ m \in MasterSet
  BY DEF SafeInv, Types
<1>3. /\ host.stage = "enumerating" /\ Request("config")
      /\ host' = [host EXCEPT !.reads = @ + 1]
  BY DEF ReadConfiguration, Enough
<1>4. /\ p \in {"closed", "host"} /\ q = "none" /\ bits = {}
      /\ host.pid[BulkOut] = 0 /\ host.pid[In(1)] = 0
      /\ host.left = 0 /\ ~host.busy /\ ~host.described
  BY <1>1, <1>3 DEF At, EnumerationInv
<1>5. /\ kind' = kind /\ m' = m /\ turn' = turn /\ reset' = reset /\ bits' = bits
      /\ slave' = slave /\ inbox' = inbox /\ ~reset
      /\ ~Going("config") /\ ~Going("report") /\ QueueInv' /\ ~Queued("data")
      /\ \A t \in {"ask", "data"} : Queued(t)' <=> Queued(t)
      /\ \A t \in {"config", "report"} : Going(t)' <=> t = "config"
      /\ \A a : Came(a)' <=> Came(a)
  BY <1>1, <1>3, <1>4, Requested
<1>6. /\ host'.stage = host.stage /\ host'.reads = host.reads + 1 /\ host'.pid = host.pid
      /\ host'.left = host.left /\ host'.busy = host.busy /\ host'.described = host.described
      /\ host'.sent = host.sent /\ host'.got = host.got
  BY <1>2, <1>3 DEF HostSet
<1>7. OutInv(p)'
  BY <1>1, <1>5, <1>6, OutStays DEF At
<1>8. InInv(q)' /\ (Spent' <=> Spent)
  BY <1>1, <1>5, <1>6, InStays DEF At
<1>9. StorageInv(p, q)' /\ MouseInv(p, q)'
  BY <1>1, <1>5, <1>6, <1>8 DEF At, StorageInv, MouseInv
<1>10. ControlInv(q)'
  BY <1>3, <1>5, <1>6 DEF ControlInv
<1>11. EnumerationInv(p, q)'
  <2>1. m.next <= 4 * host.reads /\ m.next \in Nat /\ host.reads \in Nat
    BY <1>1, <1>2, <1>5, BoundFacts DEF At, EnumerationInv, MasterSet, HostSet
  <2>2. m.next + 4 <= 4 * (host.reads + 1)
    BY <2>1
  <2> QED BY <1>3, <1>4, <1>5, <1>6, <2>2 DEF EnumerationInv
<1>12. SecondIdle'
  BY <1>5 DEF Placed, SecondIdle
<1>13. At(p, q)'
  BY <1>7, <1>8, <1>9, <1>10, <1>11 DEF At
<1> QED BY <1>5, <1>12, <1>13 DEF Placed

\* The host reads the report descriptor.
LEMMA ReadReportPlaces ==
    ASSUME SafeInv, kind \in Allowed, Placed, ReadReport
    PROVE  Placed'
<1>1. PICK p \in OutPlaces, q \in InPlaces : At(p, q)
  BY DEF Placed
<1>2. host \in HostSet
  BY DEF SafeInv, Types
<1>3. /\ host.stage = "operating" /\ ~host.described /\ kind = "mouse" /\ Request("report")
      /\ host' = [host EXCEPT !.described = TRUE]
  BY DEF ReadReport, Allowed
<1>4. p = "closed" /\ q = "none"
  BY <1>1, <1>3 DEF At, MouseInv
<1>5. /\ kind' = kind /\ m' = m /\ turn' = turn /\ reset' = reset /\ bits' = bits
      /\ slave' = slave /\ inbox' = inbox /\ ~reset
      /\ ~Going("config") /\ ~Going("report") /\ QueueInv' /\ ~Queued("data")
      /\ \A t \in {"ask", "data"} : Queued(t)' <=> Queued(t)
      /\ \A t \in {"config", "report"} : Going(t)' <=> t = "report"
      /\ \A a : Came(a)' <=> Came(a)
  BY <1>1, <1>3, <1>4, Requested
<1>6. /\ host'.stage = host.stage /\ host'.reads = host.reads /\ host'.pid = host.pid
      /\ host'.left = host.left /\ host'.busy = host.busy /\ host'.described
      /\ host'.sent = host.sent /\ host'.got = host.got
  BY <1>2, <1>3 DEF HostSet
<1>7. OutInv(p)'
  BY <1>1, <1>5, <1>6, OutStays DEF At
<1>8. InInv(q)' /\ (Spent' <=> Spent)
  BY <1>1, <1>5, <1>6, InStays DEF At
<1>9. StorageInv(p, q)' /\ MouseInv(p, q)'
  BY <1>3, <1>4, <1>5 DEF StorageInv, MouseInv
<1>10. ControlInv(q)'
  BY <1>3, <1>4, <1>5, <1>6 DEF ControlInv
<1>11. EnumerationInv(p, q)'
  <2>1. ~Going("config") /\ ~Going("config")'
    BY <1>5
  <2>2. m'.next + (IF Going("config")' THEN 4 ELSE 0) <= 4 * host'.reads
    BY <1>1, <1>5, <1>6, <2>1 DEF At, EnumerationInv
  <2> QED BY <1>1, <1>3, <1>5, <1>6, <2>2 DEF At, EnumerationInv, Ready
<1>12. SecondIdle'
  BY <1>5 DEF Placed, SecondIdle
<1>13. At(p, q)'
  BY <1>7, <1>8, <1>9, <1>10, <1>11 DEF At
<1> QED BY <1>5, <1>12, <1>13 DEF Placed

\* The host resets the bus, or configures the device.
LEMMA StagePlaces ==
    ASSUME SafeInv, kind \in Allowed, Placed, HostReset \/ Configure
    PROVE  Placed'
<1>1. PICK p \in OutPlaces, q \in InPlaces : At(p, q)
  BY DEF Placed
<1>2. host \in HostSet /\ m \in MasterSet
  BY DEF SafeInv, Types
<1>3. /\ kind' = kind /\ m' = m /\ turn' = turn /\ bits' = bits
      /\ slave' = slave /\ inbox' = inbox /\ toSlave' = toSlave
      /\ host.stage = "enumerating" /\ ~ControlGoing /\ ~reset
  BY DEF HostReset, Configure
<1>4. /\ p \in {"closed", "host"} /\ q = "none" /\ bits = {}
      /\ host.pid[BulkOut] = 0 /\ host.pid[In(1)] = 0
      /\ host.left = 0 /\ ~host.busy /\ ~host.described
  BY <1>1, <1>3 DEF At, EnumerationInv
<1>5. ~Going("config") /\ ~Going("report")
  BY <1>1, <1>3, <1>4, InboxEmpty
<1>6. /\ \A type : (Queued(type)' <=> Queued(type)) /\ (Going(type)' <=> Going(type))
      /\ \A a : Came(a)' <=> Came(a)
      /\ QueueInv'
  BY <1>3, QueuesStay DEF Placed
<1>7. /\ host'.pid = host.pid /\ host'.left = host.left /\ host'.busy = host.busy
      /\ host'.described = host.described /\ host'.sent = host.sent /\ host'.got = host.got
  BY <1>2 DEF HostReset, Configure, HostSet
<1>8. OutInv(p)'
  BY <1>1, <1>3, <1>6, <1>7, OutStays DEF At
<1>9. InInv(q)' /\ (Spent' <=> Spent)
  BY <1>1, <1>3, <1>6, <1>7, InStays DEF At
<1>10. StorageInv(p, q)' /\ MouseInv(p, q)'
  BY <1>1, <1>3, <1>7, <1>9 DEF At, StorageInv, MouseInv
<1>11. ControlInv(q)'
  BY <1>5, <1>6 DEF ControlInv
<1>12. EnumerationInv(p, q)'
  <2>1. CASE HostReset
    <3>1. reset' = TRUE /\ host'.stage = "enumerating" /\ host'.reads = 0
      BY <1>2, <1>3, <2>1 DEF HostReset, HostSet
    <3> QED BY <1>3, <1>4, <1>7, <3>1 DEF EnumerationInv
  <2>2. CASE Configure
    <3>1. reset' = reset /\ host'.stage = "operating" /\ host'.reads = host.reads /\ host.reads > 0
      BY <1>2, <2>2 DEF Configure, HostSet
    <3>2. Ready /\ m.next <= 4 * host.reads /\ m.next \in Nat
      BY <1>1, <1>2, <1>3, <1>5, <3>1 DEF At, EnumerationInv, MasterSet
    <3>3. Ready'
      BY <1>3, <3>2 DEF Ready
    <3> QED BY <1>3, <1>5, <1>6, <3>1, <3>2, <3>3 DEF EnumerationInv
  <2> QED BY <2>1, <2>2
<1>13. SecondIdle'
  BY <1>3, <1>6 DEF Placed, SecondIdle
<1>14. At(p, q)'
  BY <1>8, <1>9, <1>10, <1>11, <1>12 DEF At
<1> QED BY <1>3, <1>6, <1>13, <1>14 DEF Placed

\* The buffer the host has filled.
LEMMA OutFilled ==
    ASSUME SafeInv, NEW len \in {CommandLength, FullLength}, NEW left \in 0..MaxOut, HostOut(len, left)
    PROVE  /\ kind' = kind /\ turn' = turn /\ reset' = reset /\ inbox' = inbox
           /\ toSlave' = toSlave /\ slave' = slave /\ bits' = bits \cup {BulkOut}
           /\ m.eps[BulkOut].buf.avail
           /\ m'.panic = m.panic /\ m'.driver = m.driver /\ m'.next = m.next
           /\ m'.permit = m.permit /\ m'.counted = m.counted
           /\ m'.eps[In(1)] = m.eps[In(1)] /\ m'.eps[In(2)] = m.eps[In(2)]
           /\ m'.eps[BulkOut].open = m.eps[BulkOut].open /\ m'.eps[BulkOut].pid = m.eps[BulkOut].pid
           /\ ~m'.eps[BulkOut].buf.avail /\ m'.eps[BulkOut].buf.full
           /\ m'.eps[BulkOut].buf.packet.n = host.sent + 1 /\ m'.eps[BulkOut].buf.packet.left = left
           /\ host'.sent = host.sent + 1 /\ host'.left = left /\ host'.busy
           /\ host'.pid[BulkOut] = 1 - host.pid[BulkOut] /\ host'.pid[In(1)] = host.pid[In(1)]
           /\ host'.got = host.got /\ host'.stage = host.stage /\ host'.reads = host.reads
           /\ host'.described = host.described /\ host'.last = host.last
<1> DEFINE p == Packet(host.sent + 1, len, left)
           old == m.eps[BulkOut].buf
           b == [old EXCEPT !.avail = FALSE, !.full = TRUE, !.packet = p]
           c == IF len = CommandLength THEN host.commands + 1 ELSE host.commands
           q == 1 - host.pid[BulkOut]
<1>1. host \in HostSet /\ m \in MasterSet /\ Held(m) /\ m.eps \in [Addresses -> EndpointSet]
  BY DEF SafeInv, Types, MasterSet
<1>2. old \in BufSet /\ host.sent + 1 \in Nat /\ host.pid \in [Addresses -> Pid]
  BY <1>1 DEF EndpointSet, Addresses, HostSet
<1>3. p \in PacketSet /\ p.left = left /\ p.n = host.sent + 1
  BY <1>2 DEF Packet, PacketSet
<1> HIDE DEF p
<1>4. b \in BufSet /\ ~b.avail /\ b.full /\ b.packet = p
  BY <1>2, <1>3 DEF BufSet
<1>5. m' = [m EXCEPT !.eps[BulkOut].buf = b]
  BY <1>1 DEF HostOut, MasterSet, p
<1>6. host' = [host EXCEPT !.sent = @ + 1, !.pid[BulkOut] = q, !.busy = TRUE, !.left = left,
                           !.commands = c]
  BY <1>1 DEF HostOut, HostSet
<1>7. /\ kind' = kind /\ turn' = turn /\ reset' = reset /\ inbox' = inbox /\ toSlave' = toSlave
      /\ slave' = slave /\ bits' = bits \cup {BulkOut} /\ old.avail
  BY DEF HostOut
<1> HIDE DEF b, c
<1>8. BufferAt(m, m', BulkOut, b)
  BY <1>1, <1>3, <1>4, <1>5, BufferUsed DEF Addresses
<1> HIDE DEF q
<1>9. /\ host'.sent = host.sent + 1 /\ host'.left = left /\ host'.busy
      /\ host'.pid = [host.pid EXCEPT ![BulkOut] = q]
      /\ host'.got = host.got /\ host'.stage = host.stage /\ host'.reads = host.reads
      /\ host'.described = host.described /\ host'.last = host.last
  BY <1>1, <1>6 DEF HostSet
<1>10. host'.pid[BulkOut] = q /\ host'.pid[In(1)] = host.pid[In(1)]
  BY <1>2, <1>9, Addressing DEF Addresses
<1>11. /\ m'.panic = m.panic /\ m'.driver = m.driver /\ m'.next = m.next
       /\ m'.permit = m.permit /\ m'.counted = m.counted
       /\ m'.eps[In(1)] = m.eps[In(1)] /\ m'.eps[In(2)] = m.eps[In(2)]
       /\ m'.eps[BulkOut].open = m.eps[BulkOut].open /\ m'.eps[BulkOut].pid = m.eps[BulkOut].pid
       /\ m'.eps[BulkOut].buf = b
  BY <1>8, Addressing DEF BufferAt, SameRest, Addresses
<1> QED BY <1>3, <1>4, <1>7, <1>9, <1>10, <1>11 DEF q

\* The host sends a command, or the data that follows it.
LEMMA HostOutPlaces ==
    ASSUME SafeInv, kind \in Allowed, Placed, NEW len \in {CommandLength, FullLength},
           NEW left \in 0..MaxOut, HostOut(len, left), host.stage = "operating",
           host.busy => host.left > 0
    PROVE  Placed'
<1>1. PICK p \in OutPlaces, q \in InPlaces : At(p, q)
  BY DEF Placed
<1>2. host \in HostSet
  BY DEF SafeInv, Types
<1>3. /\ kind' = kind /\ turn' = turn /\ reset' = reset /\ inbox' = inbox
      /\ toSlave' = toSlave /\ slave' = slave /\ bits' = bits \cup {BulkOut}
      /\ m.eps[BulkOut].buf.avail
      /\ m'.panic = m.panic /\ m'.driver = m.driver /\ m'.next = m.next
      /\ m'.permit = m.permit /\ m'.counted = m.counted
      /\ m'.eps[In(1)] = m.eps[In(1)] /\ m'.eps[In(2)] = m.eps[In(2)]
      /\ m'.eps[BulkOut].open = m.eps[BulkOut].open /\ m'.eps[BulkOut].pid = m.eps[BulkOut].pid
      /\ ~m'.eps[BulkOut].buf.avail /\ m'.eps[BulkOut].buf.full
      /\ m'.eps[BulkOut].buf.packet.n = host.sent + 1 /\ m'.eps[BulkOut].buf.packet.left = left
      /\ host'.sent = host.sent + 1 /\ host'.left = left /\ host'.busy
      /\ host'.pid[BulkOut] = 1 - host.pid[BulkOut] /\ host'.pid[In(1)] = host.pid[In(1)]
      /\ host'.got = host.got /\ host'.stage = host.stage /\ host'.reads = host.reads
      /\ host'.described = host.described
  BY OutFilled
<1>4. p = "host" /\ kind = "storage"
  <2>1. p = "host"
    BY <1>1, <1>3 DEF At, OutInv, OutAt
  <2> QED BY <1>1, <2>1 DEF At, MouseInv, Allowed
<1>5. q \in {"none", "ask", "asked"} /\ (q # "none" => slave.left > 0)
  <2>1. slave.left = host.left
    BY <1>1, <1>4 DEF At, OutInv
  <2> QED BY <1>1, <1>4, <2>1 DEF At, StorageInv, InPlaces
<1>6. /\ \A type : (Queued(type)' <=> Queued(type)) /\ (Going(type)' <=> Going(type))
      /\ \A a : Came(a)' <=> Came(a)
      /\ QueueInv'
  BY <1>3, QueuesStay DEF Placed
<1>7. OutInv("done")'
  <2>1. OutAt("done")'
    BY <1>1, <1>3, <1>4, <1>6 DEF At, OutInv, OutAt
  <2>2. \A k \in DOMAIN toSlave : toSlave[k].type # "data"
    BY <1>1, <1>4 DEF At, OutInv, OutAt, Queued
  <2> QED BY <1>1, <1>3, <1>4, <2>1, <2>2 DEF At, OutInv
<1>8. InInv(q)' /\ (Spent' <=> Spent)
  <2>1. In(1) \in bits' <=> In(1) \in bits
    BY <1>3, Addressing
  <2> QED BY <1>1, <1>3, <1>6, <2>1, InStays DEF At
<1>9. StorageInv("done", q)' /\ MouseInv("done", q)'
  BY <1>3, <1>4, <1>5 DEF StorageInv, MouseInv
<1>10. ControlInv(q)'
  BY <1>1, <1>3, <1>6 DEF At, ControlInv
<1>11. EnumerationInv("done", q)'
  BY <1>1, <1>3, <1>6 DEF At, EnumerationInv, Ready
<1>12. SecondIdle'
  BY <1>3, <1>6, Addressing DEF Placed, SecondIdle
<1>13. At("done", q)' /\ "done" \in OutPlaces
  BY <1>7, <1>8, <1>9, <1>10, <1>11 DEF At, OutPlaces
<1> QED BY <1>3, <1>6, <1>12, <1>13 DEF Placed

\* What the host has after it has read the buffer of a, whose packet it takes or drops.
LEMMA InRead ==
    ASSUME SafeInv, NEW a \in Addresses, m.eps[a].buf.avail,
           m' = [m EXCEPT !.eps[a].buf = [@ EXCEPT !.avail = FALSE, !.full = FALSE]],
           host' = IF m.eps[a].buf.pid # host.pid[a] THEN host
                   ELSE [host EXCEPT !.pid[a] = 1 - @, !.got = @ + 1, !.last = m.eps[a].buf.packet.n,
                                     !.busy = @ /\ m.eps[a].buf.packet.left > 0]
    PROVE  /\ m'.panic = m.panic /\ m'.driver = m.driver /\ m'.next = m.next
           /\ m'.permit = m.permit /\ m'.counted = m.counted
           /\ \A c \in Addresses : c # a => m'.eps[c] = m.eps[c]
           /\ m'.eps[a].open = m.eps[a].open /\ m'.eps[a].pid = m.eps[a].pid
           /\ ~m'.eps[a].buf.avail /\ ~m'.eps[a].buf.full
           /\ m'.eps[a].buf.packet = m.eps[a].buf.packet
           /\ host'.sent = host.sent /\ host'.left = host.left /\ host'.stage = host.stage
           /\ host'.reads = host.reads /\ host'.described = host.described
           /\ \A c \in Addresses : c # a => host'.pid[c] = host.pid[c]
           /\ m.eps[a].buf.pid = host.pid[a] =>
                 /\ host'.got = host.got + 1 /\ host'.last = m.eps[a].buf.packet.n
                 /\ host'.pid[a] = 1 - host.pid[a]
                 /\ host'.busy <=> host.busy /\ m.eps[a].buf.packet.left > 0
<1> DEFINE old == m.eps[a].buf
           b == [old EXCEPT !.avail = FALSE, !.full = FALSE]
           q == 1 - host.pid[a]
           y == host.busy /\ old.packet.left > 0
<1>1. host \in HostSet /\ m \in MasterSet /\ Held(m) /\ m.eps \in [Addresses -> EndpointSet]
  BY DEF SafeInv, Types, MasterSet
<1>2. old \in BufSet /\ host.got + 1 \in Nat /\ host.pid \in [Addresses -> Pid]
  BY <1>1 DEF EndpointSet, HostSet
<1>3. b \in BufSet /\ ~b.avail /\ ~b.full /\ b.packet = old.packet
  BY <1>2 DEF BufSet
<1>4. m' = [m EXCEPT !.eps[a].buf = b]
  BY <1>1 DEF MasterSet
<1>5. a = BulkOut => b.packet.left \in 0..MaxOut
  BY <1>1, <1>3 DEF Held, OutFits
<1>6. \/ host' = host /\ m.eps[a].buf.pid # host.pid[a]
      \/ host' = [host EXCEPT !.pid[a] = q, !.got = @ + 1, !.last = old.packet.n, !.busy = y]
  BY <1>1 DEF HostSet
<1>7. y \in BOOLEAN /\ (y <=> host.busy /\ old.packet.left > 0)
  BY <1>1 DEF HostSet
<1> HIDE DEF b, q, y
<1>8. BufferAt(m, m', a, b)
  BY <1>1, <1>3, <1>4, <1>5, BufferUsed
<1>9. /\ m'.panic = m.panic /\ m'.driver = m.driver /\ m'.next = m.next
      /\ m'.permit = m.permit /\ m'.counted = m.counted
      /\ \A c \in Addresses : c # a => m'.eps[c] = m.eps[c]
      /\ m'.eps[a].open = m.eps[a].open /\ m'.eps[a].pid = m.eps[a].pid
      /\ m'.eps[a].buf = b
  BY <1>8 DEF BufferAt, SameRest
<1>10. CASE host' = host /\ m.eps[a].buf.pid # host.pid[a]
  BY <1>3, <1>9, <1>10
<1>11. CASE host' = [host EXCEPT !.pid[a] = q, !.got = @ + 1, !.last = old.packet.n, !.busy = y]
  <2>1. /\ host'.sent = host.sent /\ host'.left = host.left /\ host'.stage = host.stage
        /\ host'.reads = host.reads /\ host'.described = host.described
        /\ host'.pid = [host.pid EXCEPT ![a] = q]
        /\ host'.got = host.got + 1 /\ host'.last = old.packet.n /\ host'.busy = y
    BY <1>1, <1>11 DEF HostSet
  <2>2. host'.pid[a] = q /\ \A c \in Addresses : c # a => host'.pid[c] = host.pid[c]
    BY <1>2, <2>1
  <2> QED BY <1>3, <1>7, <1>9, <2>1, <2>2 DEF q
<1> QED BY <1>6, <1>10, <1>11

\* The host reads the packet that waits for it.
LEMMA HostInPlaces ==
    ASSUME SafeInv, kind \in Allowed, Placed, HostIn
    PROVE  Placed'
<1>1. PICK a \in Addresses :
        LET buf == m.eps[a].buf
        IN  /\ a.in /\ buf.avail /\ host.stage = "operating"
            /\ m' = [m EXCEPT !.eps[a].buf = [@ EXCEPT !.avail = FALSE, !.full = FALSE]]
            /\ bits' = bits \cup {a}
            /\ host' = IF buf.pid # host.pid[a] THEN host
                       ELSE [host EXCEPT !.pid[a] = 1 - @, !.got = @ + 1, !.last = buf.packet.n,
                                         !.busy = @ /\ buf.packet.left > 0]
            /\ UNCHANGED <<kind, turn, reset, inbox, toSlave, slave>>
  BY DEF HostIn
<1>2. PICK p \in OutPlaces, q \in InPlaces : At(p, q)
  BY DEF Placed
<1>3. a = In(1)
  BY <1>1, Addressing DEF Placed, SecondIdle, Addresses
<1>4. q = "buffer" /\ m.eps[In(1)].buf.pid = host.pid[In(1)]
  <2>1. q = "buffer"
    BY <1>1, <1>2, <1>3 DEF At, InInv, InAt
  <2> QED BY <1>2, <2>1 DEF At, InInv
<1>5. /\ kind' = kind /\ turn' = turn /\ reset' = reset /\ inbox' = inbox
      /\ toSlave' = toSlave /\ slave' = slave /\ bits' = bits \cup {In(1)}
      /\ host.stage = "operating"
  BY <1>1, <1>3
<1>6. /\ m'.panic = m.panic /\ m'.driver = m.driver /\ m'.next = m.next
      /\ m'.permit = m.permit /\ m'.counted = m.counted
      /\ m'.eps[BulkOut] = m.eps[BulkOut] /\ m'.eps[In(2)] = m.eps[In(2)]
      /\ m'.eps[In(1)].open = m.eps[In(1)].open /\ m'.eps[In(1)].pid = m.eps[In(1)].pid
      /\ ~m'.eps[In(1)].buf.avail /\ ~m'.eps[In(1)].buf.full
      /\ m'.eps[In(1)].buf.packet = m.eps[In(1)].buf.packet
      /\ host'.sent = host.sent /\ host'.left = host.left /\ host'.stage = host.stage
      /\ host'.reads = host.reads /\ host'.described = host.described
      /\ host'.pid[BulkOut] = host.pid[BulkOut]
      /\ host'.got = host.got + 1 /\ host'.pid[In(1)] = 1 - host.pid[In(1)]
      /\ host'.busy <=> host.busy /\ m.eps[In(1)].buf.packet.left > 0
  BY <1>1, <1>3, <1>4, InRead, Addressing DEF Addresses
<1>7. /\ \A type : (Queued(type)' <=> Queued(type)) /\ (Going(type)' <=> Going(type))
      /\ \A b : Came(b)' <=> Came(b)
      /\ QueueInv'
  BY <1>5, QueuesStay DEF Placed
<1>8. PICK r \in {"none", "read"} : r = "read" <=> ~Spent'
  <2>1. CASE Spent'
    BY <2>1
  <2>2. CASE ~Spent'
    BY <2>2
  <2> QED BY <2>1, <2>2
<1>9. kind = "storage" => p = "host" /\ host.left = 0 /\ host.busy /\ m.permit /\ m.counted
                          /\ (m.eps[In(1)].buf.packet.left = 0 =>
                                 m.eps[In(1)].buf.packet.len = StatusLength)
  BY <1>2, <1>4 DEF At, InInv, StorageInv, Newest
<1>10. m.eps[In(1)].buf.packet.left \in Nat /\ host.pid[In(1)] \in Pid /\ host.got \in Nat
  <2>1. m.eps \in [Addresses -> EndpointSet] /\ host \in HostSet
    BY DEF SafeInv, Types, MasterSet
  <2>2. m.eps[In(1)].buf \in BufSet
    BY <2>1 DEF EndpointSet, Addresses
  <2>3. m.eps[In(1)].buf.packet \in PacketSet
    BY <2>2 DEF BufSet
  <2> QED BY <2>1, <2>3 DEF PacketSet, HostSet, Addresses
<1>11. OutInv(p)'
  <2>1. BulkOut \in bits' <=> BulkOut \in bits
    BY <1>5, Addressing
  <2> QED BY <1>2, <1>5, <1>6, <1>7, <2>1, OutStays DEF At
<1>12. InInv(r)'
  <2>1. InAt(r)'
    BY <1>2, <1>4, <1>5, <1>6, <1>7, <1>8 DEF At, InInv, InAt
  <2>2. slave'.sent = host'.got /\ m'.eps[In(1)].pid = host'.pid[In(1)]
    BY <1>2, <1>4, <1>5, <1>6 DEF At, InInv
  <2> QED BY <1>6, <1>8, <2>1, <2>2 DEF InInv
<1>13. StorageInv(p, r)'
  <2> SUFFICES ASSUME kind = "storage" PROVE StorageInv(p, r)'
    BY <1>5 DEF StorageInv
  <2>1. ~Spent' => host'.busy
    <3>1. ~Spent' => m.eps[In(1)].buf.packet.len # StatusLength
      BY <1>5, <1>6, <1>9 DEF Spent
    <3> QED BY <1>6, <1>9, <1>10, <3>1
  <2> QED BY <1>6, <1>8, <1>9, <2>1 DEF StorageInv
<1>14. MouseInv(p, r)'
  BY <1>2, <1>4, <1>5, <1>6 DEF At, MouseInv
<1>15. ControlInv(r)'
  BY <1>2, <1>4, <1>5, <1>6, <1>7 DEF At, ControlInv
<1>16. EnumerationInv(p, r)'
  BY <1>2, <1>5, <1>6, <1>7 DEF At, EnumerationInv, Ready
<1>17. SecondIdle'
  BY <1>5, <1>6, <1>7, Addressing DEF Placed, SecondIdle
<1>18. At(p, r)'
  BY <1>11, <1>12, <1>13, <1>14, <1>15, <1>16 DEF At
<1>19. r \in InPlaces
  BY DEF InPlaces
<1> QED BY <1>6, <1>7, <1>17, <1>18, <1>19 DEF Placed

-----------------------------------------------------------------------------
(* Core 0: messages of the slave.                                          *)

\* Core 0 takes the message that has arrived.
LEMMA Dequeued ==
    ASSUME SafeInv, Placed, NEW type, Dequeue(type)
    PROVE  /\ kind' = kind /\ reset' = reset /\ bits' = bits /\ slave' = slave /\ host' = host
           /\ turn = "event" /\ turn' = "irq" /\ inbox' = <<>>
           /\ Head(inbox) = inbox[1] /\ inbox[1] \in Received
           /\ \A t : (Arrived(t) <=> t = type) /\ ~Arrived(t)'
           /\ \A a : (Came(a) <=> type = "packet" /\ inbox[1].addr = a) /\ ~Came(a)'
           /\ ~Queued("config") /\ ~Queued("report")
<1>1. /\ kind' = kind /\ reset' = reset /\ bits' = bits /\ slave' = slave /\ host' = host
      /\ turn = "event" /\ turn' = "irq" /\ inbox # <<>> /\ Head(inbox).type = type
      /\ inbox' = Tail(inbox)
  BY DEF Dequeue, SlaveEvent
<1>2. inbox \in Seq(Received) /\ Len(inbox) <= 1
  BY InboxKnown DEF Placed, QueueInv
<1>3. inbox' = <<>> /\ Head(inbox) = inbox[1] /\ inbox[1] \in Received
  BY <1>1, <1>2
<1>4. \A t : (Arrived(t) <=> t = type) /\ ~Arrived(t)'
  BY <1>1, <1>3 DEF Arrived
<1>5. \A a : (Came(a) <=> type = "packet" /\ inbox[1].addr = a) /\ ~Came(a)'
  BY <1>4 DEF Came
<1>6. ~Queued("config") /\ ~Queued("report")
  BY <1>1 DEF Placed, QueueInv
<1> QED BY <1>1, <1>3, <1>4, <1>5, <1>6

\* An endpoint of a device that is allowed is opened if there is memory for it.
LEMMA OpensFor ==
    ASSUME NEW d, Held(d), ~d.panic, NEW a \in Addresses, NEW bulk \in BOOLEAN,
           Owner(a) \in {Storage, Mouse, Keyboard}, d.next + Blocks(bulk) <= MemUnits
    PROVE  LET e == Opened(d, OfEndpoint(a, bulk), Owner(a))
           IN  Held(e) /\ ~e.panic /\ NewlyOpen(d, e, a, Blocks(bulk))
<1> DEFINE e == Opened(d, OfEndpoint(a, bulk), Owner(a))
<1>1. Owner(a) # NoInterface /\ Owner(a).class \in {3, 8}
  BY InterfaceFacts
<1>2. /\ Held(e) /\ (~e.panic => NewlyOpen(d, e, a, Blocks(bulk)))
      /\ e.panic => d.panic \/ d.next + Blocks(bulk) > MemUnits \/ Owner(a).class \notin {3, 8}
  BY <1>1, OpenedKeeps
<1> HIDE DEF e
<1>3. d.next \in Nat /\ Blocks(bulk) \in Nat
  BY DEF Held, MasterSet, Blocks
<1>4. ~(d.next + Blocks(bulk) > MemUnits)
  BY <1>3, BoundFacts
<1> QED BY <1>1, <1>2, <1>4 DEF e

\* What core 0 holds after the configuration of a mass storage device or a mouse.
LEMMA Configured ==
    ASSUME NEW d, Held(d), ~d.panic, kind \in Allowed, d.next + 4 <= MemUnits
    PROVE  LET e == HandleConfiguration(d)
           IN  /\ ~e.panic /\ e.next \in Nat /\ e.next <= d.next + 4
               /\ e.permit = d.permit /\ e.counted = d.counted
               /\ e.eps[In(1)].open /\ e.eps[In(1)].buf = NoBuf /\ e.eps[In(1)].pid = 0
               /\ kind = "storage" =>
                     /\ e.eps[BulkOut].open /\ e.eps[BulkOut].pid = 1
                     /\ e.eps[BulkOut].buf.avail /\ e.eps[BulkOut].buf.pid = 0
                     /\ e.driver[Idx(BulkOut)] = "storage" /\ e.driver[Idx(In(1))] = "storage"
                     /\ e.eps[In(2)] = d.eps[In(2)]
               /\ kind = "mouse" =>
                     /\ e.eps[BulkOut] = d.eps[BulkOut] /\ e.driver[Idx(In(1))] = "hid"
                     /\ e.eps[In(2)].buf = NoBuf
<1> USE InterfaceFacts
<1>1. d.next \in Nat /\ BulkOut \in Addresses /\ In(1) \in Addresses /\ In(2) \in Addresses
  BY DEF Held, MasterSet, Addresses
<1>2. Blocks(TRUE) = 2 /\ Blocks(FALSE) = 1
  BY DEF Blocks
<1>3. CASE kind = "storage"
  <2> DEFINE c == Opened(d, OfEndpoint(BulkOut, TRUE), Storage)
             e == Opened(c, OfEndpoint(In(1), TRUE), Storage)
  <2>1. Owner(BulkOut) = Storage /\ Owner(In(1)) = Storage
    BY <1>3, OwnersOf
  <2>2. Held(c) /\ ~c.panic /\ NewlyOpen(d, c, BulkOut, 2)
    <3>1. d.next + Blocks(TRUE) <= MemUnits
      BY <1>1, BoundFacts DEF Blocks
    <3> QED BY <1>1, <1>2, <2>1, <3>1, OpensFor
  <2> HIDE DEF c
  <2>3. c.next = d.next + 2
    BY <2>2 DEF NewlyOpen
  <2>4. Held(e) /\ ~e.panic /\ NewlyOpen(c, e, In(1), 2)
    <3>1. c.next + Blocks(TRUE) <= MemUnits
      BY <1>1, <2>3, BoundFacts DEF Blocks
    <3> QED BY <1>1, <1>2, <2>1, <2>2, <3>1, OpensFor
  <2> HIDE DEF e
  <2>5. e.next = d.next + 4
    <3>1. e.next = c.next + 2
      BY <2>4 DEF NewlyOpen
    <3> QED BY <1>1, <2>3, <3>1
  <2>6. /\ c.eps[BulkOut].open /\ c.eps[BulkOut].pid = 1 /\ c.eps[BulkOut].buf.avail
        /\ c.eps[BulkOut].buf.pid = 0 /\ c.driver[Idx(BulkOut)] = "storage"
        /\ c.eps[In(2)] = d.eps[In(2)] /\ c.permit = d.permit /\ c.counted = d.counted
    BY <1>1, <2>1, <2>2, Addressing DEF NewlyOpen, FirstBuf, DriverOf
  <2>7. /\ e.eps[In(1)].open /\ e.eps[In(1)].pid = 0 /\ e.eps[In(1)].buf = NoBuf
        /\ e.driver[Idx(In(1))] = "storage" /\ e.permit = c.permit /\ e.counted = c.counted
        /\ e.eps[BulkOut] = c.eps[BulkOut] /\ e.eps[In(2)] = c.eps[In(2)]
        /\ e.driver[Idx(BulkOut)] = c.driver[Idx(BulkOut)]
    BY <1>1, <2>1, <2>4, Addressing DEF NewlyOpen, FirstBuf, DriverOf
  <2>8. HandleConfiguration(d) = e
    BY <1>3, Walked DEF e, c
  <2>9. e.next \in Nat /\ e.next <= d.next + 4
    BY <1>1, <2>5
  <2> QED BY <1>3, <2>4, <2>6, <2>7, <2>8, <2>9
<1>4. CASE kind = "mouse"
  <2> DEFINE c == Opened(d, OfEndpoint(In(1), FALSE), Mouse)
             e == Opened(c, OfEndpoint(In(2), FALSE), Keyboard)
  <2>1. Owner(In(1)) = Mouse /\ Owner(In(2)) = Keyboard
    BY <1>4, OwnersOf
  <2>2. Held(c) /\ ~c.panic /\ NewlyOpen(d, c, In(1), 1)
    <3>1. d.next + Blocks(FALSE) <= MemUnits
      BY <1>1, BoundFacts DEF Blocks
    <3> QED BY <1>1, <1>2, <2>1, <3>1, OpensFor
  <2> HIDE DEF c
  <2>3. c.next = d.next + 1
    BY <2>2 DEF NewlyOpen
  <2>4. Held(e) /\ ~e.panic /\ NewlyOpen(c, e, In(2), 1)
    <3>1. c.next + Blocks(FALSE) <= MemUnits
      BY <1>1, <2>3, BoundFacts DEF Blocks
    <3> QED BY <1>1, <1>2, <2>1, <2>2, <3>1, OpensFor
  <2> HIDE DEF e
  <2>5. e.next = d.next + 2
    <3>1. e.next = c.next + 1
      BY <2>4 DEF NewlyOpen
    <3> QED BY <1>1, <2>3, <3>1
  <2>6. /\ c.eps[In(1)].open /\ c.eps[In(1)].pid = 0 /\ c.eps[In(1)].buf = NoBuf
        /\ c.driver[Idx(In(1))] = "hid" /\ c.permit = d.permit /\ c.counted = d.counted
        /\ c.eps[BulkOut] = d.eps[BulkOut]
    BY <1>1, <2>1, <2>2, Addressing DEF NewlyOpen, FirstBuf, DriverOf
  <2>7. /\ e.eps[In(2)].buf = NoBuf /\ e.permit = c.permit /\ e.counted = c.counted
        /\ e.eps[BulkOut] = c.eps[BulkOut] /\ e.eps[In(1)] = c.eps[In(1)]
        /\ e.driver[Idx(In(1))] = c.driver[Idx(In(1))]
    BY <1>1, <2>1, <2>4, Addressing DEF NewlyOpen, FirstBuf, DriverOf
  <2>8. HandleConfiguration(d) = e
    BY <1>4, Walked DEF e, c
  <2>9. e.next \in Nat /\ e.next <= d.next + 4
    BY <1>1, <2>5
  <2> QED BY <1>4, <2>4, <2>6, <2>7, <2>8, <2>9
<1> QED BY <1>3, <1>4 DEF Allowed

\* The configuration was read: the endpoints are open.
LEMMA ConfigurationReadPlaces ==
    ASSUME Enough, SafeInv, kind \in Allowed, Placed, ConfigurationRead
    PROVE  Placed'
<1> DEFINE c == [m EXCEPT !.writing = TRUE]
           d == HandleConfiguration(c)
<1>1. PICK p \in OutPlaces, q \in InPlaces : At(p, q)
  BY DEF Placed
<1>2. Dequeue("config") /\ Enact(d)
  BY DEF ConfigurationRead
<1>3. /\ kind' = kind /\ reset' = reset /\ bits' = bits /\ slave' = slave /\ host' = host
      /\ inbox' = <<>> /\ \A t : (Arrived(t) <=> t = "config") /\ ~Arrived(t)'
      /\ \A a : ~Came(a)'
      /\ ~Queued("config") /\ ~Queued("report")
  BY <1>2, Dequeued
<1>4. host \in HostSet /\ m \in MasterSet /\ m.msgs = <<>> /\ kind \in Kinds
  BY DEF SafeInv, Types
<1>5. /\ host.stage = "enumerating" /\ ~reset /\ p \in {"closed", "host"} /\ q = "none"
      /\ bits = {} /\ host.pid[BulkOut] = 0 /\ host.pid[In(1)] = 0
      /\ host.left = 0 /\ ~host.busy /\ ~host.described
      /\ m.next + 4 <= 4 * host.reads
  <2>1. Going("config")
    BY <1>3 DEF Going
  <2>2. host.stage = "enumerating" /\ ~reset
    BY <1>1, <2>1 DEF At, ControlInv
  <2> QED BY <1>1, <2>1, <2>2 DEF At, EnumerationInv
<1>6. /\ Held(c) /\ c.panic = m.panic /\ c.eps = m.eps /\ c.msgs = m.msgs /\ c.next = m.next
      /\ c.permit = m.permit /\ c.counted = m.counted
  BY Writes DEF SafeInv
<1> HIDE DEF c
<1>7. m.next + 4 <= MemUnits /\ m.next \in Nat /\ host.reads \in Nat
  <2>1. host.reads \in Nat /\ host.reads <= MaxReads /\ m.next \in Nat /\ 4 * MaxReads <= MemUnits
    BY <1>4, BoundFacts DEF HostSet, MasterSet, Enough
  <2> QED BY <1>5, <2>1, BoundFacts
<1>8. Held(d) /\ Paired(d) /\ OnlyOpens(d)
  <2>1. OnlyOpens(c)
    BY <1>4, <1>6 DEF OnlyOpens
  <2> QED BY <1>4, <1>6, <2>1, HandleConfigurationKeeps
<1>9. /\ ~d.panic /\ d.next \in Nat /\ d.next <= m.next + 4
      /\ d.eps[In(1)].open /\ d.eps[In(1)].buf = NoBuf /\ d.eps[In(1)].pid = 0
      /\ kind = "storage" =>
            /\ d.eps[BulkOut].open /\ d.eps[BulkOut].pid = 1
            /\ d.eps[BulkOut].buf.avail /\ d.eps[BulkOut].buf.pid = 0
            /\ d.driver[Idx(BulkOut)] = "storage" /\ d.driver[Idx(In(1))] = "storage"
            /\ d.eps[In(2)] = m.eps[In(2)]
      /\ kind = "mouse" =>
            /\ d.eps[BulkOut] = m.eps[BulkOut] /\ d.driver[Idx(In(1))] = "hid"
            /\ d.eps[In(2)].buf = NoBuf
  BY <1>6, <1>7, Configured DEF Placed
<1> HIDE DEF d
<1>10. /\ m'.eps = d.eps /\ m'.driver = d.driver /\ m'.next = d.next /\ m'.panic = d.panic
       /\ toSlave' = toSlave \o d.msgs
  BY <1>2, <1>8, InboxKnown, Enacts
<1>11. ~Queued("data") /\ ~Queued("ask")
  BY <1>1, <1>5 DEF At, OutInv, OutAt, InInv, InAt
<1>12. QueueInv' /\ \A type \in Single : Queued(type)' <=> Queued(type)
  <2>1. d.msgs \in Seq(Sent) /\ \A k \in DOMAIN d.msgs : d.msgs[k].type \in {"open", "reset"}
    BY <1>8 DEF Held, MasterSet, OnlyOpens
  <2> QED BY <1>3, <1>10, <1>11, <2>1, InboxKnown, QuietlySent DEF Placed
<1>13. \A type \in Single : ~Queued(type)'
  BY <1>3, <1>11, <1>12 DEF Single
<1>14. ~Going("config")' /\ ~Going("report")'
  BY <1>3, <1>13 DEF Going, Single
<1>15. ~NoBuf.avail
  BY DEF NoBuf
<1>16. PICK r \in {"host", "closed"} :
         (kind = "storage" => r = "host") /\ (kind = "mouse" => r = "closed")
  BY DEF Allowed
<1>17. OutInv(r)'
  <2>1. host.sent = slave.got /\ slave.left = host.left
    BY <1>1, <1>5 DEF At, OutInv
  <2>2. ~Queued("data")' /\ \A k \in DOMAIN toSlave' : toSlave'[k].type # "data"
    BY <1>13 DEF Single, Queued
  <2>3. /\ m'.eps[BulkOut].buf.avail <=> r = "host"
        /\ m'.eps[BulkOut].pid = IF r = "host" THEN 1 ELSE 0
        /\ r = "host" => m'.eps[BulkOut].buf.pid = 0
    <3>1. CASE kind = "storage"
      BY <1>9, <1>10, <1>16, <3>1
    <3>2. CASE kind = "mouse"
      <4>1. p = "closed"
        BY <1>1, <3>2 DEF At, MouseInv
      <4>2. ~m.eps[BulkOut].buf.avail /\ m.eps[BulkOut].pid = 0
        BY <1>1, <1>5, <4>1 DEF At, OutInv, OutAt
      <4> QED BY <1>9, <1>10, <1>16, <3>2, <4>2
    <3> QED BY <3>1, <3>2 DEF Allowed
  <2>4. OutAt(r)'
    BY <1>3, <1>5, <2>2, <2>3 DEF OutAt
  <2> QED BY <1>3, <1>5, <2>1, <2>2, <2>3, <2>4 DEF OutInv
<1>18. InInv("none")'
  <2>1. ~Queued("ask")'
    BY <1>13 DEF Single
  <2>2. In(1) \notin slave.asked /\ slave.sent = host.got
    BY <1>1, <1>5 DEF At, InInv, InAt
  <2>3. InAt("none")'
    BY <1>3, <1>5, <1>9, <1>10, <1>15, <2>1, <2>2 DEF InAt
  <2> QED BY <1>3, <1>5, <1>9, <1>10, <2>2, <2>3 DEF InInv
<1>19. StorageInv(r, "none")' /\ MouseInv(r, "none")'
  BY <1>3, <1>5, <1>16 DEF StorageInv, MouseInv, Spent
<1>20. ControlInv("none")'
  BY <1>14 DEF ControlInv
<1>21. EnumerationInv(r, "none")'
  <2>1. Ready'
    BY <1>3, <1>9, <1>10 DEF Ready
  <2>2. m'.next <= 4 * host.reads /\ m'.next \in Nat
    BY <1>5, <1>7, <1>9, <1>10
  <2> QED BY <1>3, <1>5, <1>14, <2>1, <2>2 DEF EnumerationInv
<1>22. SecondIdle'
  <2>1. ~m'.eps[In(2)].buf.avail
    BY <1>9, <1>10, <1>15 DEF Placed, SecondIdle, Allowed
  <2> QED BY <1>3, <2>1 DEF Placed, SecondIdle
<1>23. At(r, "none")' /\ r \in OutPlaces /\ "none" \in InPlaces
  BY <1>17, <1>18, <1>19, <1>20, <1>21 DEF At, OutPlaces, InPlaces
<1> QED BY <1>9, <1>10, <1>12, <1>22, <1>23 DEF Placed

\* A question for an IN packet is sent.
LEMMA Questioned ==
    ASSUME toSlave \in Seq(Sent), QueueInv, ~Queued("data"), ~Queued("ask"), NEW t,
           t = Append(<<>>, Message("ask", In(1), NoPacket)), toSlave' = toSlave \o t,
           inbox' = inbox \/ inbox' = <<>>
    PROVE  QueueInv' /\ Queued("ask")' /\ \A type \in Single \ {"ask"} : Queued(type)' <=> Queued(type)
<1> DEFINE x == Message("ask", In(1), NoPacket)
<1>1. x \in Sent /\ x.type = "ask" /\ x.addr = In(1)
  BY MessageFacts DEF InAddresses, Message
<1> HIDE DEF x
<1>2. toSlave' = Append(toSlave, x)
  BY <1>1 DEF x
<1> QED BY <1>1, <1>2, Appended DEF Single

\* The report descriptor was read: the endpoint of the mouse is asked.
LEMMA ReportReadPlaces ==
    ASSUME SafeInv, kind \in Allowed, Placed, ReportRead
    PROVE  Placed'
<1> DEFINE c == [m EXCEPT !.writing = TRUE]
           d == Knock(c, In(1))
<1>1. PICK p \in OutPlaces, q \in InPlaces : At(p, q)
  BY DEF Placed
<1>2. Dequeue("report") /\ Enact(d)
  BY DEF ReportRead
<1>3. /\ kind' = kind /\ reset' = reset /\ bits' = bits /\ slave' = slave /\ host' = host
      /\ inbox' = <<>> /\ (\A t : (Arrived(t) <=> t = "report") /\ ~Arrived(t)')
      /\ (\A a : (Came(a) <=> FALSE) /\ ~Came(a)')
      /\ ~Queued("config") /\ ~Queued("report")
  <2>1. "report" # "packet"
    OBVIOUS
  <2> QED BY <1>2, <2>1, Dequeued
<1>4. m.msgs = <<>>
  BY DEF SafeInv, Types
<1>5. host.stage = "operating" /\ kind = "mouse" /\ host.described /\ q = "none" /\ p = "closed"
  <2>1. Going("report")
    BY <1>3 DEF Going
  <2> QED BY <1>1, <2>1 DEF At, ControlInv, MouseInv
<1>6. /\ Held(c) /\ c.panic = m.panic /\ c.eps = m.eps /\ c.msgs = m.msgs /\ c.next = m.next
      /\ c.permit = m.permit /\ c.counted = m.counted /\ c.driver = m.driver /\ c.other = m.other
  BY Writes DEF SafeInv
<1> HIDE DEF c
<1>7. /\ Held(d) /\ d.panic = m.panic /\ d.eps = m.eps /\ d.next = m.next /\ d.driver = m.driver
      /\ d.other = m.other /\ d.permit = m.permit /\ d.counted = m.counted
      /\ d.msgs = Append(<<>>, Message("ask", In(1), NoPacket))
  BY <1>4, <1>6, Asks DEF SameRest, Counting
<1> HIDE DEF d
<1>8. Paired(d)
  BY <1>7 DEF Paired, SafeInv
<1>9. /\ m'.eps = m.eps /\ m'.driver = m.driver /\ m'.next = m.next /\ m'.panic = m.panic
      /\ m'.permit = m.permit /\ m'.counted = m.counted
      /\ toSlave' = toSlave \o d.msgs
  BY <1>2, <1>7, <1>8, InboxKnown, Enacts
<1>10. ~Queued("data") /\ ~Queued("ask")
  BY <1>1, <1>5 DEF At, OutInv, OutAt, InInv, InAt
<1>11. /\ QueueInv' /\ Queued("ask")'
       /\ \A type \in Single \ {"ask"} : Queued(type)' <=> Queued(type)
  BY <1>3, <1>7, <1>9, <1>10, InboxKnown, Questioned DEF Placed
<1>12. ~Queued("data")' /\ ~Going("config")' /\ ~Going("report")' /\ ~Going("config")
  BY <1>3, <1>10, <1>11 DEF Single, Going
<1>13. OutInv(p)'
  BY <1>1, <1>3, <1>9, <1>10, <1>12, OutStays DEF At
<1>14. Spent' <=> Spent
  BY <1>3, <1>9 DEF Spent
<1>15. InInv("ask")'
  <2>1. InAt("ask")'
    BY <1>1, <1>3, <1>5, <1>9, <1>11, <1>14 DEF At, InInv, InAt
  <2> QED BY <1>1, <1>3, <1>5, <1>9, <2>1 DEF At, InInv
<1>16. StorageInv(p, "ask")' /\ MouseInv(p, "ask")'
  BY <1>3, <1>5 DEF StorageInv, MouseInv
<1>17. ControlInv("ask")'
  BY <1>12 DEF ControlInv
<1>18. EnumerationInv(p, "ask")'
  BY <1>1, <1>3, <1>5, <1>9, <1>12 DEF At, EnumerationInv, Ready
<1>19. SecondIdle'
  BY <1>3, <1>9 DEF Placed, SecondIdle
<1>20. At(p, "ask")' /\ "ask" \in InPlaces
  BY <1>13, <1>15, <1>16, <1>17, <1>18 DEF At, InPlaces
<1> QED BY <1>9, <1>11, <1>19, <1>20 DEF Placed

\* The slave has taken the OUT packet: the buffer is free, and an IN packet is asked for.
LEMMA OutAnsweredPlaces ==
    ASSUME SafeInv, kind \in Allowed, Placed, PacketReceived, Came(BulkOut)
    PROVE  Placed'
<1> DEFINE d == SlaveData(m, BulkOut, inbox[1].packet)
<1>1. PICK p \in OutPlaces, q \in InPlaces : At(p, q)
  BY DEF Placed
<1>2. Dequeue("packet")
  BY DEF PacketReceived
<1>3. /\ kind' = kind /\ reset' = reset /\ bits' = bits /\ slave' = slave /\ host' = host
      /\ turn' = "irq" /\ inbox' = <<>> /\ Head(inbox) = inbox[1] /\ inbox[1] \in Received
      /\ (\A t : (Arrived(t) <=> t = "packet") /\ ~Arrived(t)')
      /\ (\A a : (Came(a) <=> inbox[1].addr = a) /\ ~Came(a)')
      /\ ~Queued("config") /\ ~Queued("report")
  BY <1>2, Dequeued
<1>4. Enact(d) /\ inbox[1].packet \in PacketSet
  <2>1. inbox[1].addr = BulkOut
    BY <1>3
  <2> QED BY <1>3, <2>1 DEF PacketReceived, Received
<1>5. p = "back" /\ kind = "storage" /\ q = "none" /\ host.busy /\ host.stage = "operating"
  <2>1. p = "back"
    BY <1>1 DEF At, OutInv, OutAt
  <2>2. kind = "storage"
    BY <1>1, <2>1 DEF At, MouseInv, Allowed
  <2>3. host.stage \in {"enumerating", "operating"}
    BY DEF SafeInv, Types, HostSet
  <2> QED BY <1>1, <2>1, <2>2, <2>3 DEF At, StorageInv, EnumerationInv
<1>6. m.eps[BulkOut].open /\ m.driver[Idx(BulkOut)] = "storage" /\ Ready
  BY <1>1, <1>5 DEF At, EnumerationInv, Ready
<1>7. m.msgs = <<>> /\ Held(m) /\ Paired(m) /\ ~m.panic
  BY DEF SafeInv, Types, Placed
<1>8. /\ Held(d) /\ Filled(m, d, BulkOut, NoPacket) /\ Counting(m, d)
      /\ d.msgs = Append(<<>>, Message("ask", In(1), NoPacket))
  BY <1>4, <1>6, <1>7, OutAnswered
<1> HIDE DEF d
<1>9. Paired(d)
  BY <1>7, <1>8 DEF Paired, Filled, SameRest
<1>10. /\ m'.eps = d.eps /\ m'.driver = d.driver /\ m'.next = d.next /\ m'.panic = d.panic
       /\ m'.permit = d.permit /\ m'.counted = d.counted
       /\ toSlave' = toSlave \o d.msgs
  BY <1>4, <1>8, <1>9, InboxKnown, Enacts
<1>11. /\ m'.driver = m.driver /\ m'.next = m.next /\ m'.panic = m.panic
       /\ m'.permit = m.permit /\ m'.counted = m.counted
       /\ m'.eps[In(1)] = m.eps[In(1)] /\ m'.eps[In(2)] = m.eps[In(2)]
       /\ m'.eps[BulkOut].open = m.eps[BulkOut].open
       /\ m'.eps[BulkOut].pid = 1 - m.eps[BulkOut].pid
       /\ m'.eps[BulkOut].buf.avail /\ m'.eps[BulkOut].buf.pid = m.eps[BulkOut].pid
  BY <1>8, <1>10, Addressing DEF Filled, SameRest, Counting, Addresses
<1>12. ~Queued("data") /\ ~Queued("ask")
  BY <1>1, <1>5 DEF At, OutInv, OutAt, InInv, InAt
<1>13. /\ QueueInv' /\ Queued("ask")'
       /\ \A type \in Single \ {"ask"} : Queued(type)' <=> Queued(type)
  BY <1>3, <1>8, <1>10, <1>12, InboxKnown, Questioned DEF Placed
<1>14. ~Queued("data")' /\ ~Going("config")' /\ ~Going("report")' /\ ~Going("config")
  <2>1. ~Arrived("config")
    BY <1>3
  <2> QED BY <1>3, <1>12, <1>13, <2>1 DEF Single, Going
<1>15. OutInv("host")'
  <2>1. OutAt("host")'
    BY <1>1, <1>3, <1>5, <1>11, <1>14 DEF At, OutInv, OutAt
  <2>2. \A k \in DOMAIN toSlave' : toSlave'[k].type # "data"
    BY <1>14 DEF Queued
  <2> QED BY <1>1, <1>3, <1>5, <1>11, <2>1, <2>2 DEF At, OutInv
<1>16. Spent' <=> Spent
  BY <1>3, <1>11 DEF Spent
<1>17. InInv("ask")'
  <2>1. InAt("ask")'
    BY <1>1, <1>3, <1>5, <1>11, <1>13, <1>16 DEF At, InInv, InAt
  <2> QED BY <1>1, <1>3, <1>5, <1>11, <2>1 DEF At, InInv
<1>18. StorageInv("host", "ask")' /\ MouseInv("host", "ask")'
  BY <1>3, <1>5 DEF StorageInv, MouseInv
<1>19. ControlInv("ask")'
  BY <1>14 DEF ControlInv
<1>20. EnumerationInv("host", "ask")'
  BY <1>1, <1>3, <1>5, <1>11, <1>14 DEF At, EnumerationInv, Ready
<1>21. SecondIdle'
  BY <1>3, <1>11 DEF Placed, SecondIdle
<1>22. At("host", "ask")' /\ "ask" \in InPlaces /\ "host" \in OutPlaces
  BY <1>15, <1>17, <1>18, <1>19, <1>20 DEF At, InPlaces, OutPlaces
<1> QED BY <1>11, <1>13, <1>21, <1>22 DEF Placed

\* An IN packet has come: it waits for the host.
LEMMA InAnsweredPlaces ==
    ASSUME SafeInv, kind \in Allowed, Placed, PacketReceived, Came(In(1))
    PROVE  Placed'
<1> DEFINE x == inbox[1].packet
           d == SlaveData(m, In(1), x)
<1>1. PICK p \in OutPlaces, q \in InPlaces : At(p, q)
  BY DEF Placed
<1>2. Dequeue("packet")
  BY DEF PacketReceived
<1>3. /\ kind' = kind /\ reset' = reset /\ bits' = bits /\ slave' = slave /\ host' = host
      /\ turn = "event" /\ turn' = "irq" /\ inbox' = <<>> /\ Head(inbox) = inbox[1]
      /\ inbox[1] \in Received
      /\ (\A t : (Arrived(t) <=> t = "packet") /\ ~Arrived(t)')
      /\ (\A a : (Came(a) <=> inbox[1].addr = a) /\ ~Came(a)')
      /\ ~Queued("config") /\ ~Queued("report")
  BY <1>2, Dequeued
<1>4. Enact(d) /\ x \in PacketSet
  <2>1. inbox[1].addr = In(1)
    BY <1>3
  <2> QED BY <1>3, <2>1 DEF PacketReceived, Received
<1>5. q = "packet" /\ host.stage = "operating"
  <2>1. q = "packet"
    BY <1>1 DEF At, InInv, InAt
  <2>2. host.stage \in {"enumerating", "operating"}
    BY DEF SafeInv, Types, HostSet
  <2> QED BY <1>1, <2>1, <2>2 DEF At, EnumerationInv
<1>6. Ready
  BY <1>1, <1>5 DEF At, EnumerationInv
<1>7. m.msgs = <<>> /\ Held(m) /\ Paired(m) /\ ~m.panic
  BY DEF SafeInv, Types, Placed
<1>8. In(1) \notin bits /\ Newest(x)
  <2>1. Newest(x) /\ ~(In(1) \in bits /\ ~Spent)
    BY <1>1, <1>5 DEF At, InInv, InAt
  <2>2. ~Spent
    <3>1. Spent => turn = "irq"
      BY <1>1, <1>5 DEF At, StorageInv, Spent
    <3> QED BY <1>3, <3>1
  <2> QED BY <2>1, <2>2
<1>9. /\ Held(d) /\ Filled(m, d, In(1), x) /\ d.msgs = <<>>
      /\ kind = "storage" => d.permit /\ d.counted
  BY <1>4, <1>6, <1>7, InAnswered DEF Ready
<1> HIDE DEF d
<1>10. Paired(d)
  BY <1>7, <1>9 DEF Paired, Filled, SameRest
<1>11. /\ m'.eps = d.eps /\ m'.driver = d.driver /\ m'.next = d.next /\ m'.panic = d.panic
       /\ m'.permit = d.permit /\ m'.counted = d.counted
       /\ toSlave' = toSlave \o d.msgs
  BY <1>4, <1>9, <1>10, InboxKnown, Enacts
<1>12. /\ m'.driver = m.driver /\ m'.next = m.next /\ m'.panic = m.panic
       /\ m'.eps[BulkOut] = m.eps[BulkOut] /\ m'.eps[In(2)] = m.eps[In(2)]
       /\ m'.eps[In(1)].open = m.eps[In(1)].open
       /\ m'.eps[In(1)].pid = 1 - m.eps[In(1)].pid
       /\ m'.eps[In(1)].buf.avail /\ m'.eps[In(1)].buf.pid = m.eps[In(1)].pid
       /\ m'.eps[In(1)].buf.packet = x
  BY <1>9, <1>11, Addressing DEF Filled, SameRest, Addresses
<1>13. toSlave' = toSlave
  BY <1>9, <1>11, InboxKnown
<1>14. /\ \A type : Queued(type)' <=> Queued(type)
       /\ \A type \in {"config", "report"} : ~Going(type)' /\ ~Going(type)
  <2>1. \A type : Queued(type)' <=> Queued(type)
    BY <1>13 DEF Queued
  <2>2. ~Arrived("config") /\ ~Arrived("report")
    BY <1>3
  <2> QED BY <1>3, <2>1, <2>2 DEF Going
<1>15. QueueInv'
  <2>1. Len(inbox') <= 1
    BY <1>3
  <2> QED BY <1>3, <1>13, <1>14, <2>1 DEF Placed, QueueInv
<1>16. OutInv(p)'
  <2>1. ~Came(BulkOut)
    <3>1. inbox[1].addr = In(1)
      BY <1>3
    <3> QED BY <1>3, <3>1, Addressing
  <2> QED BY <1>1, <1>3, <1>12, <1>13, <1>14, <2>1, OutStays DEF At
<1>17. InInv("buffer")'
  <2>1. InAt("buffer")'
    BY <1>1, <1>3, <1>5, <1>8, <1>12, <1>14 DEF At, InInv, InAt
  <2>2. Newest(m.eps[In(1)].buf.packet)'
    BY <1>3, <1>8, <1>12 DEF Newest
  <2>3. m.eps[In(1)].pid = host.pid[In(1)] /\ slave.sent = host.got + 1
    BY <1>1, <1>5 DEF At, InInv
  <2> QED BY <1>3, <1>8, <1>9, <1>11, <1>12, <2>1, <2>2, <2>3 DEF InInv
<1>18. StorageInv(p, "buffer")' /\ MouseInv(p, "buffer")'
  <2>1. ~Spent'
    BY <1>3, <1>8 DEF Spent
  <2> QED BY <1>1, <1>3, <1>5, <2>1 DEF At, StorageInv, MouseInv
<1>19. ControlInv("buffer")'
  BY <1>14 DEF ControlInv
<1>20. EnumerationInv(p, "buffer")'
  BY <1>1, <1>3, <1>5, <1>12, <1>14 DEF At, EnumerationInv, Ready
<1>21. SecondIdle'
  BY <1>3, <1>12 DEF Placed, SecondIdle
<1>22. At(p, "buffer")' /\ "buffer" \in InPlaces
  BY <1>16, <1>17, <1>18, <1>19, <1>20 DEF At, InPlaces
<1> QED BY <1>7, <1>12, <1>15, <1>21, <1>22 DEF Placed

\* A packet of the slave.
LEMMA PacketReceivedPlaces ==
    ASSUME SafeInv, kind \in Allowed, Placed, PacketReceived
    PROVE  Placed'
<1>1. Dequeue("packet")
  BY DEF PacketReceived
<1>2. inbox[1] \in Received /\ Arrived("packet") /\ \A a : Came(a) <=> inbox[1].addr = a
  BY <1>1, Dequeued
<1>3. inbox[1].addr \in Addresses
  BY <1>2 DEF Received, Arrived
<1>4. Came(BulkOut) \/ Came(In(1))
  BY <1>2, <1>3 DEF Placed, SecondIdle, Addresses
<1> QED BY <1>4, OutAnsweredPlaces, InAnsweredPlaces

-----------------------------------------------------------------------------
(* Core 0: the poll.                                                       *)

\* A poll handles one buffer at most, d is what it comes to.
Polled(d) ==
    /\ Held(d) /\ Paired(d) /\ Enact(d)
    /\ kind' = kind /\ inbox' = inbox /\ slave' = slave /\ host' = host
    /\ turn' = "event" /\ reset' = FALSE /\ bits' = bits \ Due
    /\ reset => d = BusReset(m)
    /\ ~reset /\ BulkOut \in bits => d = BufferDone(m, BulkOut)
    /\ ~reset /\ BulkOut \notin bits /\ In(1) \in bits => d = BufferDone(m, In(1))
    /\ ~reset /\ BulkOut \notin bits /\ In(1) \notin bits => d = m

\* Without a reset or with no buffer done there is not much to it.
LEMMA Polls ==
    ASSUME SafeInv, Placed, Irq, reset => bits = {}
    PROVE  \E d : Polled(d)
<1> DEFINE Handle(d, a) == IF a \in Due /\ ~d.panic THEN BufferDone(d, a) ELSE d
           d0 == IF reset THEN BusReset(m) ELSE m
           d1 == Handle(d0, BulkOut)
           d2 == Handle(d1, In(1))
           d3 == Handle(d2, In(2))
<1>1. /\ Enact(d3)
      /\ kind' = kind /\ inbox' = inbox /\ slave' = slave /\ host' = host
      /\ turn' = "event" /\ reset' = FALSE /\ bits' = bits \ Due /\ ~m.panic
  BY DEF Irq, PollOf
<1>2. In(2) \notin Due /\ Due \subseteq bits /\ (BulkOut \in bits => In(1) \notin Due /\ BulkOut \in Due)
      /\ (BulkOut \notin bits => Due = bits)
  BY Addressing DEF Due, Placed, SecondIdle
<1>3. Held(d0) /\ Paired(d0)
  BY <1>1, BusResets DEF SafeInv
<1>4. Held(d1) /\ Paired(d1) /\ (BulkOut \notin Due => d1 = d0)
  <2> HIDE DEF d0
  <2> QED BY <1>3, HandleKeeps DEF Addresses
<1>5. Held(d2) /\ Paired(d2) /\ (In(1) \notin Due => d2 = d1)
  <2> HIDE DEF d1
  <2> QED BY <1>4, HandleKeeps DEF Addresses
<1>6. d3 = d2
  BY <1>2
<1>7. reset => d3 = BusReset(m)
  BY <1>2, <1>4, <1>5, <1>6
<1>8. ~reset => d0 = m
  OBVIOUS
<1>9. ~reset /\ BulkOut \in bits => d3 = BufferDone(m, BulkOut)
  BY <1>1, <1>2, <1>8
<1>10. ~reset /\ BulkOut \notin bits /\ In(1) \in bits => d3 = BufferDone(m, In(1))
  BY <1>1, <1>2, <1>8
<1>11. ~reset /\ BulkOut \notin bits /\ In(1) \notin bits => d3 = m
  BY <1>1, <1>2, <1>8
<1> HIDE DEF d0, d1, d2, d3
<1>12. Polled(d3)
  BY <1>1, <1>5, <1>6, <1>7, <1>9, <1>10, <1>11 DEF Polled
<1> QED BY <1>12

\* What the master holds after a poll, and what it has sent.
LEMMA PolledMaster ==
    ASSUME SafeInv, NEW d, Polled(d)
    PROVE  /\ m'.eps = d.eps /\ m'.driver = d.driver /\ m'.next = d.next /\ m'.panic = d.panic
           /\ m'.permit = d.permit /\ m'.counted = d.counted
           /\ toSlave' = toSlave \o d.msgs
           /\ toSlave \in Seq(Sent) /\ m.msgs = <<>> /\ Held(m) /\ Paired(m)
           /\ kind' = kind /\ inbox' = inbox /\ slave' = slave /\ host' = host
           /\ turn' = "event" /\ reset' = FALSE /\ bits' = bits \ Due
           /\ \A type : Arrived(type)' <=> Arrived(type)
           /\ \A a : Came(a)' <=> Came(a)
<1>1. toSlave \in Seq(Sent) /\ m.msgs = <<>> /\ Held(m) /\ Paired(m)
  BY DEF SafeInv, Types
<1>2. /\ m'.eps = d.eps /\ m'.driver = d.driver /\ m'.next = d.next /\ m'.panic = d.panic
      /\ m'.permit = d.permit /\ m'.counted = d.counted
      /\ toSlave' = toSlave \o d.msgs
  BY <1>1, Enacts DEF Polled
<1>3. /\ kind' = kind /\ inbox' = inbox /\ slave' = slave /\ host' = host
      /\ turn' = "event" /\ reset' = FALSE /\ bits' = bits \ Due
  BY DEF Polled
<1>4. \A type : Arrived(type)' <=> Arrived(type)
  BY <1>3 DEF Arrived
<1>5. \A a : Came(a)' <=> Came(a)
  BY <1>3, <1>4 DEF Came
<1> QED BY <1>1, <1>2, <1>3, <1>4, <1>5

\* A bus reset while the device is enumerated.
LEMMA ResetPlaces ==
    ASSUME SafeInv, kind \in Allowed, Placed, NEW d, Polled(d), reset
    PROVE  Placed'
<1>1. PICK p \in OutPlaces, q \in InPlaces : At(p, q)
  BY DEF Placed
<1>2. /\ host.stage = "enumerating" /\ host.reads = 0 /\ p \in {"closed", "host"} /\ q = "none"
      /\ bits = {} /\ host.pid[BulkOut] = 0 /\ host.pid[In(1)] = 0
      /\ host.left = 0 /\ ~host.busy /\ ~host.described
  BY <1>1 DEF At, EnumerationInv
<1>3. d = BusReset(m) /\ ~m.panic /\ Held(m) /\ Paired(m) /\ m.msgs = <<>>
  BY DEF Polled, Placed, SafeInv, Types
<1>4. /\ ~d.panic /\ d.eps = [a \in Addresses |-> ClosedEndpoint] /\ d.next = 0
      /\ d.msgs = Append(<<>>, Message("reset", In(0), NoPacket)) /\ Held(d)
  BY <1>3, BusResets
<1>5. /\ m'.eps = d.eps /\ m'.next = d.next /\ m'.panic = d.panic
      /\ toSlave' = toSlave \o d.msgs /\ toSlave \in Seq(Sent)
      /\ kind' = kind /\ inbox' = inbox /\ slave' = slave /\ host' = host
      /\ reset' = FALSE /\ bits' = {}
      /\ (\A type : Arrived(type)' <=> Arrived(type)) /\ (\A a : Came(a)' <=> Came(a))
  BY <1>2, PolledMaster
<1>6. \A a \in Addresses : ~m'.eps[a].buf.avail /\ m'.eps[a].pid = 0
  BY <1>4, <1>5, PacketFacts DEF ClosedEndpoint
<1>7. BulkOut \in Addresses /\ In(1) \in Addresses /\ In(2) \in Addresses
  BY DEF Addresses
<1>8. ~Queued("data") /\ ~Queued("ask")
  BY <1>1, <1>2 DEF At, OutInv, OutAt, InInv, InAt
<1>9. QueueInv' /\ \A type \in Single : Queued(type)' <=> Queued(type)
  <2> DEFINE x == Message("reset", In(0), NoPacket)
  <2>1. d.msgs \in Seq(Sent)
    BY <1>4 DEF Held, MasterSet
  <2>2. x.type = "reset" /\ d.msgs = Append(<<>>, x)
    BY <1>4 DEF Message
  <2> HIDE DEF x
  <2>3. \A k \in DOMAIN d.msgs : d.msgs[k].type \in {"open", "reset"}
    <3>1. \A k \in DOMAIN d.msgs : d.msgs[k] = x
      BY <2>2
    <3> QED BY <2>2, <3>1
  <2> QED BY <1>5, <1>8, <2>1, <2>3, QuietlySent DEF Placed
<1>10. /\ ~Queued("data")' /\ ~Queued("ask")'
       /\ \A type \in {"config", "report"} : Going(type)' <=> Going(type)
  BY <1>5, <1>8, <1>9 DEF Single, Going
<1>11. ~Going("config")
  BY <1>1 DEF At, ControlInv
<1>12. OutInv("closed")'
  <2>1. OutAt("closed")'
    BY <1>1, <1>2, <1>5, <1>6, <1>7, <1>10 DEF At, OutInv, OutAt
  <2>2. \A k \in DOMAIN toSlave' : toSlave'[k].type # "data"
    BY <1>10 DEF Queued
  <2> QED BY <1>1, <1>2, <1>5, <1>6, <1>7, <2>1, <2>2 DEF At, OutInv
<1>13. InInv("none")'
  <2>1. InAt("none")'
    BY <1>1, <1>2, <1>5, <1>6, <1>7, <1>10 DEF At, InInv, InAt
  <2> QED BY <1>1, <1>2, <1>5, <1>6, <1>7, <2>1 DEF At, InInv
<1>14. StorageInv("closed", "none")' /\ MouseInv("closed", "none")'
  BY <1>5 DEF StorageInv, MouseInv, Spent
<1>15. ControlInv("none")'
  BY <1>1, <1>2, <1>5, <1>10, <1>11 DEF At, ControlInv
<1>16. EnumerationInv("closed", "none")'
  BY <1>2, <1>4, <1>5, <1>10, <1>11 DEF EnumerationInv
<1>17. SecondIdle'
  BY <1>5, <1>6, <1>7 DEF Placed, SecondIdle
<1>18. At("closed", "none")' /\ "closed" \in OutPlaces /\ "none" \in InPlaces
  BY <1>12, <1>13, <1>14, <1>15, <1>16 DEF At, OutPlaces, InPlaces
<1> QED BY <1>4, <1>5, <1>9, <1>17, <1>18 DEF Placed

\* The OUT packet goes to the slave.
LEMMA OutPassedPlaces ==
    ASSUME SafeInv, kind \in Allowed, Placed, NEW d, Polled(d), BulkOut \in bits
    PROVE  Placed'
<1>1. PICK p \in OutPlaces, q \in InPlaces : At(p, q)
  BY DEF Placed
<1>2. p = "done" /\ kind = "storage" /\ host.busy /\ host.stage = "operating" /\ ~reset
  <2>1. p = "done"
    BY <1>1 DEF At, OutInv, OutAt
  <2>2. kind = "storage"
    BY <1>1, <2>1 DEF At, MouseInv, Allowed
  <2>3. host.stage \in {"enumerating", "operating"}
    BY DEF SafeInv, Types, HostSet
  <2> QED BY <1>1, <2>1, <2>2, <2>3 DEF At, StorageInv, EnumerationInv
<1>3. Ready
  BY <1>1, <1>2 DEF At, EnumerationInv
<1>4. d = BufferDone(m, BulkOut) /\ ~m.panic
  BY <1>2 DEF Polled, Placed
<1>5. m.eps[BulkOut].buf.full /\ m.driver[Idx(BulkOut)] = "storage"
  BY <1>1, <1>2, <1>3 DEF At, OutInv, Ready
<1> DEFINE b == m.eps[BulkOut].buf.packet
           x == Message("data", BulkOut, b)
<1>6. Held(m) /\ m.msgs = <<>>
  BY DEF SafeInv, Types
<1>7. /\ Held(d) /\ SameRest(m, d) /\ d.panic = m.panic /\ d.eps = m.eps
      /\ ~d.permit /\ ~d.counted /\ d.msgs = Append(<<>>, x)
  BY <1>4, <1>5, <1>6, OutPassed
<1>8. /\ m'.eps = m.eps /\ m'.driver = m.driver /\ m'.next = m.next /\ m'.panic = m.panic
      /\ ~m'.permit /\ ~m'.counted
      /\ toSlave' = toSlave \o d.msgs /\ toSlave \in Seq(Sent)
      /\ kind' = kind /\ inbox' = inbox /\ slave' = slave /\ host' = host
      /\ reset' = FALSE /\ bits' = bits \ Due
      /\ (\A type : Arrived(type)' <=> Arrived(type)) /\ (\A a : Came(a)' <=> Came(a))
  BY <1>7, PolledMaster DEF SameRest
<1>9. BulkOut \notin bits' /\ (In(1) \in bits' <=> In(1) \in bits) /\ In(2) \notin bits'
  BY <1>8, Addressing DEF Due, Placed, SecondIdle
<1>10. b.n = host.sent /\ b.left = host.left /\ ~Queued("data")
  BY <1>1, <1>2 DEF At, OutInv, OutAt
<1>11. x \in Sent /\ x.type = "data" /\ x.packet = b
  <2>1. m.eps \in [Addresses -> EndpointSet] /\ b.left \in 0..MaxOut
    BY <1>6 DEF Held, MasterSet, OutFits
  <2>2. m.eps[BulkOut].buf \in BufSet
    BY <2>1 DEF EndpointSet, Addresses
  <2>3. b \in PacketSet
    BY <2>2 DEF BufSet
  <2> QED BY <2>1, <2>3, MessageFacts DEF Message
<1> HIDE DEF b, x
<1>12. toSlave' = Append(toSlave, x)
  BY <1>7, <1>8, <1>11
<1>13. /\ QueueInv' /\ Queued("data")'
       /\ \A type \in Single : type # "data" => (Queued(type)' <=> Queued(type))
       /\ \A k \in DOMAIN toSlave' : toSlave'[k].type = "data" => toSlave'[k] = x
  BY <1>8, <1>10, <1>11, <1>12, Appended DEF Placed, Single
<1>14. /\ Queued("ask")' <=> Queued("ask")
       /\ \A type \in {"config", "report"} : Going(type)' <=> Going(type)
  BY <1>8, <1>13 DEF Single, Going
<1>15. OutInv("data")'
  <2>1. OutAt("data")'
    BY <1>1, <1>2, <1>8, <1>9, <1>13 DEF At, OutInv, OutAt
  <2>2. \A k \in DOMAIN toSlave' : toSlave'[k].type = "data" =>
           toSlave'[k].packet.n = host'.sent /\ toSlave'[k].packet.left = host'.left
    BY <1>8, <1>10, <1>11, <1>13
  <2> QED BY <1>1, <1>2, <1>8, <2>1, <2>2 DEF At, OutInv
<1>16. q \in {"none", "ask", "asked"} /\ (In(1) \in bits => Spent)
  <2>1. q \notin {"packet", "buffer", "read"}
    BY <1>1, <1>2 DEF At, StorageInv
  <2> QED BY <1>1, <2>1 DEF At, InInv, InAt, InPlaces
<1>17. InInv(q)'
  <2>1. In(1) \in bits => Spent'
    BY <1>2, <1>8, <1>9 DEF Spent
  <2>2. InAt(q)'
    BY <1>1, <1>8, <1>9, <1>14, <1>16, <2>1 DEF At, InInv, InAt
  <2> QED BY <1>1, <1>8, <1>9, <1>16, <2>2 DEF At, InInv
<1>18. StorageInv("data", q)' /\ MouseInv("data", q)'
  BY <1>1, <1>2, <1>8, <1>16 DEF At, StorageInv, MouseInv
<1>19. ControlInv(q)'
  BY <1>1, <1>2, <1>8, <1>14 DEF At, ControlInv
<1>20. EnumerationInv("data", q)'
  BY <1>1, <1>2, <1>8, <1>14 DEF At, EnumerationInv, Ready
<1>21. SecondIdle'
  BY <1>8, <1>9 DEF Placed, SecondIdle
<1>22. At("data", q)' /\ "data" \in OutPlaces
  BY <1>15, <1>17, <1>18, <1>19, <1>20 DEF At, OutPlaces
<1> QED BY <1>4, <1>8, <1>13, <1>21, <1>22 DEF Placed

\* A poll that asks for nothing.
LEMMA NothingDuePlaces ==
    ASSUME SafeInv, kind \in Allowed, Placed, Polled(m), ~reset, BulkOut \notin bits,
           In(1) \in bits => Spent
    PROVE  Placed'
<1>1. PICK p \in OutPlaces, q \in InPlaces : At(p, q)
  BY DEF Placed
<1>2. /\ m'.eps = m.eps /\ m'.driver = m.driver /\ m'.next = m.next /\ m'.panic = m.panic
      /\ m'.permit = m.permit /\ m'.counted = m.counted
      /\ toSlave' = toSlave \o m.msgs /\ toSlave \in Seq(Sent) /\ m.msgs = <<>>
      /\ kind' = kind /\ inbox' = inbox /\ slave' = slave /\ host' = host
      /\ reset' = FALSE /\ bits' = bits \ Due
  BY PolledMaster
<1>3. bits' = {}
  BY <1>2 DEF Due
<1>4. toSlave' = toSlave
  BY <1>2
<1>5. /\ \A type : (Queued(type)' <=> Queued(type)) /\ (Going(type)' <=> Going(type))
      /\ \A a : Came(a)' <=> Came(a)
      /\ QueueInv'
  BY <1>2, <1>4, QueuesStay DEF Placed
<1>6. OutInv(p)'
  BY <1>1, <1>2, <1>3, <1>4, <1>5, OutStays DEF At
<1>7. InInv(q)' /\ ~Spent'
  <2>1. ~Spent'
    BY <1>3 DEF Spent
  <2>2. InAt(q)'
    BY <1>1, <1>2, <1>3, <1>5, <2>1 DEF At, InInv, InAt
  <2>3. q = "packet" => Newest(inbox[1].packet)'
    BY <1>1, <1>2 DEF At, InInv, Newest
  <2>4. q = "buffer" => Newest(m.eps[In(1)].buf.packet)'
    BY <1>1, <1>2 DEF At, InInv, Newest
  <2> QED BY <1>1, <1>2, <1>3, <2>1, <2>2, <2>3, <2>4 DEF At, InInv
<1>8. StorageInv(p, q)' /\ MouseInv(p, q)'
  BY <1>1, <1>2, <1>7 DEF At, StorageInv, MouseInv
<1>9. ControlInv(q)'
  BY <1>1, <1>2, <1>5 DEF At, ControlInv
<1>10. EnumerationInv(p, q)'
  BY <1>1, <1>2, <1>3, <1>5 DEF At, EnumerationInv, Ready
<1>11. SecondIdle'
  BY <1>2, <1>3, <1>5 DEF Placed, SecondIdle
<1> QED BY <1>1, <1>2, <1>5, <1>6, <1>7, <1>8, <1>9, <1>10, <1>11 DEF Placed, At

\* The host has read the IN packet, and the next one is asked for.
LEMMA NextAskedPlaces ==
    ASSUME SafeInv, kind \in Allowed, Placed, Polled(Knock(m, In(1))), ~reset,
           BulkOut \notin bits, In(1) \in bits, ~Spent
    PROVE  Placed'
<1> DEFINE d == Knock(m, In(1))
<1>1. PICK p \in OutPlaces, q \in InPlaces : At(p, q)
  BY DEF Placed
<1>2. q = "read" /\ host.stage = "operating" /\ p \in {"host", "closed"}
  <2>1. q = "read"
    BY <1>1 DEF At, InInv, InAt
  <2>2. host.stage \in {"enumerating", "operating"}
    BY DEF SafeInv, Types, HostSet
  <2> QED BY <1>1, <2>1, <2>2 DEF At, EnumerationInv, StorageInv, MouseInv, Allowed
<1>3. kind = "storage" => p = "host" /\ host.busy
  BY <1>1, <1>2 DEF At, StorageInv
<1>4. Held(m) /\ m.msgs = <<>> /\ ~m.panic
  BY DEF SafeInv, Types, Placed
<1>5. /\ d.eps = m.eps /\ d.driver = m.driver /\ d.next = m.next /\ d.panic = m.panic
      /\ d.permit = m.permit /\ d.counted = m.counted
      /\ d.msgs = Append(<<>>, Message("ask", In(1), NoPacket))
  BY <1>4, Asks DEF SameRest, Counting
<1> HIDE DEF d
<1>6. Polled(d)
  BY DEF d
<1>7. /\ m'.eps = m.eps /\ m'.driver = m.driver /\ m'.next = m.next /\ m'.panic = m.panic
      /\ m'.permit = m.permit /\ m'.counted = m.counted
      /\ toSlave' = toSlave \o d.msgs /\ toSlave \in Seq(Sent)
      /\ kind' = kind /\ inbox' = inbox /\ slave' = slave /\ host' = host
      /\ reset' = FALSE /\ bits' = bits \ Due
      /\ (\A type : Arrived(type)' <=> Arrived(type)) /\ (\A a : Came(a)' <=> Came(a))
  BY <1>5, <1>6, PolledMaster
<1>8. bits' = {}
  BY <1>7 DEF Due
<1>9. ~Queued("data") /\ ~Queued("ask")
  BY <1>1, <1>2 DEF At, OutInv, OutAt, InInv, InAt
<1>10. /\ QueueInv' /\ Queued("ask")'
       /\ \A type \in Single \ {"ask"} : Queued(type)' <=> Queued(type)
  BY <1>5, <1>7, <1>9, Questioned DEF Placed
<1>11. /\ Queued("data")' <=> Queued("data")
       /\ \A type \in {"config", "report"} : Going(type)' <=> Going(type)
  BY <1>7, <1>10 DEF Single, Going
<1>12. ~Going("config") /\ ~Going("report")
  BY <1>1, <1>2 DEF At, ControlInv
<1>13. OutInv(p)'
  BY <1>1, <1>7, <1>8, <1>9, <1>11, OutStays DEF At
<1>14. InInv("ask")' /\ ~Spent'
  <2>1. ~Spent'
    BY <1>8 DEF Spent
  <2>2. InAt("ask")'
    BY <1>1, <1>2, <1>7, <1>8, <1>10, <2>1 DEF At, InInv, InAt
  <2> QED BY <1>1, <1>2, <1>7, <1>8, <2>1, <2>2 DEF At, InInv
<1>15. StorageInv(p, "ask")' /\ MouseInv(p, "ask")'
  BY <1>1, <1>2, <1>3, <1>7, <1>14 DEF At, StorageInv, MouseInv
<1>16. ControlInv("ask")'
  BY <1>11, <1>12 DEF ControlInv
<1>17. EnumerationInv(p, "ask")'
  BY <1>1, <1>2, <1>7, <1>11 DEF At, EnumerationInv, Ready
<1>18. SecondIdle'
  BY <1>7, <1>8 DEF Placed, SecondIdle
<1>19. At(p, "ask")' /\ "ask" \in InPlaces
  BY <1>13, <1>14, <1>15, <1>16, <1>17 DEF At, InPlaces
<1> QED BY <1>4, <1>7, <1>10, <1>18, <1>19 DEF Placed

\* A poll.
LEMMA IrqPlaces ==
    ASSUME SafeInv, kind \in Allowed, Placed, Irq
    PROVE  Placed'
<1>1. PICK p \in OutPlaces, q \in InPlaces : At(p, q)
  BY DEF Placed
<1>2. reset => bits = {}
  BY <1>1 DEF At, EnumerationInv
<1>3. PICK d : Polled(d)
  BY <1>2, Polls
<1>4. CASE reset
  BY <1>3, <1>4, ResetPlaces
<1>5. CASE BulkOut \in bits
  BY <1>3, <1>5, OutPassedPlaces
<1>6. CASE ~reset /\ BulkOut \notin bits /\ In(1) \notin bits
  <2>1. d = m
    BY <1>3, <1>6 DEF Polled
  <2> QED BY <1>3, <1>6, <2>1, NothingDuePlaces
<1>7. CASE ~reset /\ BulkOut \notin bits /\ In(1) \in bits
  <2>1. d = BufferDone(m, In(1))
    BY <1>3, <1>7 DEF Polled
  <2>2. host.stage \in {"enumerating", "operating"}
    BY DEF SafeInv, Types, HostSet
  <2>3. Ready /\ ~m.eps[In(1)].buf.full
    BY <1>1, <1>7, <2>2 DEF At, EnumerationInv, InInv
  <2>4. BufferDone(m, In(1)) = IF Onward(m) THEN Knock(m, In(1)) ELSE m
    BY <2>3, InPassed DEF SafeInv, Placed, Ready
  <2>5. Onward(m) <=> ~Spent
    BY <1>7 DEF Onward, Spent, Allowed
  <2>6. CASE Spent
    BY <1>3, <1>7, <2>1, <2>4, <2>5, <2>6, NothingDuePlaces
  <2>7. CASE ~Spent
    BY <1>3, <1>7, <2>1, <2>4, <2>5, <2>7, NextAskedPlaces
  <2> QED BY <2>6, <2>7
<1> QED BY <1>4, <1>5, <1>6, <1>7

-----------------------------------------------------------------------------
(* A device that is not allowed.                                           *)

\* Messages at the end of a queue that are not of the chain.
LEMMA SilentAppended ==
    ASSUME NEW S, NEW s \in Seq(S), NEW t \in Seq(S), Silent(t)
    PROVE  /\ Silent(s) => Silent(s \o t)
           /\ Alone(s) => Alone(s \o t)
<1> DEFINE u == s \o t
<1>1. \A k \in DOMAIN u : (k \in DOMAIN s /\ u[k] = s[k]) \/ ~Chain(u[k])
  <2>1. \A k \in DOMAIN u : \/ k \in DOMAIN s /\ u[k] = s[k]
                            \/ k - Len(s) \in DOMAIN t /\ u[k] = t[k - Len(s)]
    OBVIOUS
  <2> HIDE DEF u
  <2> QED BY <2>1 DEF Silent
<1> HIDE DEF u
<1>2. Silent(s) => Silent(u)
  BY <1>1 DEF Silent
<1>3. Alone(s) => Alone(u)
  BY <1>1 DEF Alone
<1> QED BY <1>2, <1>3 DEF u

\* One message of the chain at the end of a queue that has none.
LEMMA OneAppended ==
    ASSUME NEW S, NEW s \in Seq(S), NEW x \in S, Silent(s)
    PROVE  Alone(Append(s, x)) /\ (~Chain(x) => Silent(Append(s, x)))
<1> DEFINE u == Append(s, x)
<1>1. \A k \in DOMAIN u : (k \in DOMAIN s /\ u[k] = s[k]) \/ (k = Len(s) + 1 /\ u[k] = x)
  OBVIOUS
<1> HIDE DEF u
<1>2. \A k \in DOMAIN u : Chain(u[k]) => k = Len(s) + 1
  BY <1>1 DEF Silent
<1>3. Alone(u)
  BY <1>2 DEF Alone
<1>4. ~Chain(x) => Silent(u)
  BY <1>1 DEF Silent
<1> QED BY <1>3, <1>4 DEF u

\* The first message of a queue goes.
LEMMA FirstGone ==
    ASSUME NEW S, NEW s \in Seq(S), s # <<>>, Alone(s)
    PROVE  /\ Alone(Tail(s)) /\ (Chain(Head(s)) => Silent(Tail(s)) /\ ~Silent(s))
           /\ Silent(s) => Silent(Tail(s)) /\ ~Chain(Head(s))
<1> DEFINE u == Tail(s)
<1>1. /\ \A k \in DOMAIN u : k \in Nat /\ k >= 1 /\ k + 1 \in DOMAIN s /\ u[k] = s[k+1]
      /\ 1 \in DOMAIN s /\ Head(s) = s[1]
  OBVIOUS
<1> HIDE DEF u
<1>2. Silent(s) => Silent(u) /\ ~Chain(Head(s))
  BY <1>1 DEF Silent
<1>3. Alone(u)
  <2> SUFFICES ASSUME NEW j \in DOMAIN u, NEW k \in DOMAIN u, Chain(u[j]), Chain(u[k])
               PROVE  j = k
    BY DEF Alone
  <2>1. j + 1 = k + 1
    BY <1>1 DEF Alone
  <2> QED BY <1>1, <2>1
<1>4. Chain(Head(s)) => Silent(u)
  <2> SUFFICES ASSUME Chain(s[1]), NEW k \in DOMAIN u, Chain(u[k]) PROVE FALSE
    BY <1>1 DEF Silent
  <2>1. k + 1 = 1
    BY <1>1 DEF Alone
  <2> QED BY <1>1, <2>1
<1> QED BY <1>2, <1>3, <1>4 DEF u

\* A step that adds nothing to the chain.
LEMMA QuietStays ==
    ASSUME SafeInv, Quiet, NEW t \in Seq(Sent), Silent(t), toSlave' = toSlave \o t,
           inbox' = inbox \/ (inbox # <<>> /\ inbox' = Tail(inbox)),
           slave'.asked = slave.asked, host'.described = host.described
    PROVE  Quiet'
<1>1. toSlave \in Seq(Sent) /\ inbox \in Seq(Received)
  BY DEF SafeInv, Types
<1>2. Alone(toSlave) /\ Alone(inbox)
  BY DEF Quiet
<1>3. Alone(toSlave') /\ (Silent(toSlave) => Silent(toSlave'))
  BY <1>1, <1>2, SilentAppended
<1>4. Alone(inbox') /\ (Silent(inbox) => Silent(inbox'))
  BY <1>1, <1>2, FirstGone
<1>5. /\ Alone(toSlave)' /\ Alone(inbox)'
      /\ (Silent(toSlave) => Silent(toSlave)') /\ (Silent(inbox) => Silent(inbox)')
  BY <1>3, <1>4 DEF Alone, Silent
<1> QED BY <1>5 DEF Quiet

\* Core 0 sends nothing of the chain unless it has just read a report descriptor.
LEMMA CoreQuiet ==
    ASSUME SafeInv, Quiet, kind \notin Allowed,
           NothingReceived \/ SendUpstream \/ ConfigurationRead \/ PacketReceived \/ Irq
    PROVE  Quiet'
<1>1. kind \in Kinds /\ m.msgs = <<>> /\ inbox \in Seq(Received) /\ toSlave \in Seq(Sent)
  BY DEF SafeInv, Types
<1>2. CASE NothingReceived \/ SendUpstream
  <2>1. /\ inbox' = inbox /\ slave' = slave /\ host' = host /\ toSlave' = toSlave
    BY <1>2 DEF NothingReceived, SendUpstream, SlaveEvent
  <2>2. <<>> \in Seq(Sent) /\ toSlave' = toSlave \o <<>> /\ Silent(<<>>)
    BY <1>1, <2>1 DEF Silent
  <2> QED BY <2>1, <2>2, QuietStays
<1>3. CASE ConfigurationRead
  <2> DEFINE c == [m EXCEPT !.writing = TRUE]
             d == HandleConfiguration(c)
  <2>1. Held(c) /\ c.msgs = <<>>
    BY <1>1, Writes DEF SafeInv
  <2>2. /\ toSlave' = toSlave \o d.msgs /\ slave' = slave /\ host' = host
        /\ inbox # <<>> /\ inbox' = Tail(inbox)
    BY <1>3 DEF ConfigurationRead, Dequeue, SlaveEvent, Enact
  <2> HIDE DEF c
  <2>3. Held(d) /\ OnlyOpens(d)
    BY <1>1, <2>1, HandleConfigurationKeeps DEF OnlyOpens
  <2> HIDE DEF d
  <2>4. d.msgs \in Seq(Sent) /\ Silent(d.msgs)
    BY <2>3 DEF Held, MasterSet, OnlyOpens, Silent, Chain
  <2> QED BY <2>2, <2>4, QuietStays
<1>4. CASE PacketReceived
  <2> DEFINE x == Head(inbox)
             d == SlaveData(m, x.addr, x.packet)
  <2>1. /\ toSlave' = toSlave \o d.msgs /\ slave' = slave /\ host' = host
        /\ inbox # <<>> /\ inbox' = Tail(inbox) /\ ~m.panic /\ x.type = "packet"
    BY <1>4 DEF PacketReceived, Dequeue, SlaveEvent, Enact
  <2>2. x \in Received /\ x.addr = In(1)
    BY <1>1, <2>1 DEF SafeInv, NothingComes
  <2>3. x.addr \in Addresses /\ x.packet \in PacketSet
    BY <2>1, <2>2 DEF Received
  <2> HIDE DEF x
  <2>4. d.msgs = <<>>
    BY <1>1, <2>1, <2>2, <2>3, SlaveDataKeeps DEF SafeInv
  <2> HIDE DEF d
  <2>5. <<>> \in Seq(Sent) /\ Silent(<<>>)
    BY DEF Silent
  <2> QED BY <2>1, <2>4, <2>5, QuietStays
<1>5. CASE Irq
  <2> DEFINE d == IF reset THEN BusReset(m) ELSE m
  <2>1. Due = {} /\ ~m.panic
    BY <1>5 DEF SafeInv, NothingComes, Due, Irq, PollOf
  <2>2. /\ toSlave' = toSlave \o d.msgs /\ slave' = slave /\ host' = host /\ inbox' = inbox
    BY <1>5, <2>1 DEF Irq, PollOf, Enact
  <2>3. Held(d) /\ Silent(d.msgs)
    <3>1. CASE reset
      <4> DEFINE x == Message("reset", In(0), NoPacket)
      <4>1. Held(d) /\ d.msgs = Append(<<>>, x)
        BY <1>1, <2>1, <3>1, BusResets DEF SafeInv
      <4>2. ~Chain(x) /\ x \in Sent
        BY MessageFacts DEF Chain, Message
      <4> HIDE DEF x, d
      <4>3. \A k \in DOMAIN d.msgs : d.msgs[k] = x
        BY <4>1
      <4> QED BY <4>1, <4>2, <4>3 DEF Silent
    <3>2. CASE ~reset
      BY <1>1, <3>2 DEF SafeInv, Silent
    <3> QED BY <3>1, <3>2
  <2> HIDE DEF d
  <2>4. d.msgs \in Seq(Sent)
    BY <2>3 DEF Held, MasterSet
  <2> QED BY <2>2, <2>3, <2>4, QuietStays
<1> QED BY <1>2, <1>3, <1>4, <1>5

\* The report descriptor was read: the question takes the place of the request.
LEMMA ReportQuiet ==
    ASSUME SafeInv, Quiet, ReportRead
    PROVE  Quiet'
<1> DEFINE c == [m EXCEPT !.writing = TRUE]
           d == Knock(c, In(1))
           x == Message("ask", In(1), NoPacket)
<1>1. inbox \in Seq(Received) /\ toSlave \in Seq(Sent) /\ m.msgs = <<>>
  BY DEF SafeInv, Types
<1>2. /\ toSlave' = toSlave \o d.msgs /\ slave' = slave /\ host' = host
      /\ inbox # <<>> /\ inbox' = Tail(inbox) /\ Head(inbox).type = "report"
  BY DEF ReportRead, Dequeue, SlaveEvent, Enact
<1>3. d.msgs = Append(<<>>, x)
  <2>1. Held(c) /\ c.msgs = m.msgs
    BY Writes DEF SafeInv
  <2> HIDE DEF c
  <2> QED BY <1>1, <2>1, Asks
<1> HIDE DEF d
<1>4. x \in Sent
  BY MessageFacts DEF InAddresses
<1> HIDE DEF x
<1>5. toSlave' = Append(toSlave, x)
  BY <1>1, <1>2, <1>3, <1>4
<1>6. Alone(inbox') /\ Silent(inbox') /\ ~Silent(inbox)
  BY <1>1, <1>2, FirstGone DEF Quiet, Chain
<1>7. Silent(toSlave) /\ slave.asked = {} /\ host.described
  BY <1>6 DEF Quiet
<1>8. Alone(toSlave')
  BY <1>1, <1>4, <1>5, <1>7, OneAppended
<1>9. Alone(toSlave)' /\ Alone(inbox)' /\ Silent(inbox)'
  BY <1>6, <1>8 DEF Alone, Silent
<1> QED BY <1>2, <1>7, <1>9 DEF Quiet

\* The slave takes a message, and the chain goes on with it.
LEMMA TakeQuiet ==
    ASSUME SafeInv, Quiet, kind \notin Allowed, SlaveTake
    PROVE  Quiet'
<1> DEFINE x == Head(toSlave)
<1>1. /\ inbox \in Seq(Received) /\ toSlave \in Seq(Sent) /\ slave \in SlaveSet
      /\ host' = host /\ toSlave # <<>> /\ toSlave' = Tail(toSlave)
  BY DEF SafeInv, Types, SlaveTake
<1>2. x = toSlave[1] /\ 1 \in DOMAIN toSlave /\ x \in Sent
  BY <1>1
<1>3. x.type # "data" /\ (x.type = "ask" => x.addr = In(1))
  BY <1>2 DEF SafeInv, NothingComes
<1>4. /\ Alone(toSlave') /\ (Chain(x) => Silent(toSlave') /\ ~Silent(toSlave))
      /\ Silent(toSlave) => Silent(toSlave')
  BY <1>1, FirstGone DEF Quiet
<1>5. CASE x.type = "ask"
  <2>1. inbox' = inbox
    BY <1>1, <1>5 DEF SlaveTake
  <2>2. Silent(inbox) /\ host.described /\ Silent(toSlave')
    BY <1>4, <1>5 DEF Quiet, Chain
  <2>3. Alone(toSlave)' /\ Alone(inbox)' /\ Silent(inbox)' /\ Silent(toSlave)'
    BY <1>4, <2>1, <2>2 DEF Quiet, Alone, Silent
  <2> QED BY <1>1, <2>2, <2>3 DEF Quiet
<1>6. CASE x.type = "report"
  <2>1. inbox' = inbox \o <<x>> /\ slave' = slave
    BY <1>6 DEF SlaveTake
  <2>2. x \in Received
    BY <1>2, <1>6 DEF Sent, Received
  <2>3. Silent(inbox) /\ host.described /\ Silent(toSlave') /\ slave.asked = {}
    BY <1>4, <1>6 DEF Quiet, Chain
  <2> HIDE DEF x
  <2>4. inbox' = Append(inbox, x)
    BY <1>1, <2>1, <2>2
  <2>5. Alone(inbox')
    BY <1>1, <2>2, <2>3, <2>4, OneAppended
  <2>6. Alone(toSlave)' /\ Alone(inbox)' /\ Silent(toSlave)'
    BY <1>4, <2>3, <2>5 DEF Alone, Silent
  <2> QED BY <1>1, <2>1, <2>3, <2>6 DEF Quiet
<1>7. CASE x.type \notin {"ask", "report"}
  <2> DEFINE t == IF x.type = "config" THEN <<x>> ELSE <<>>
  <2>1. inbox' = inbox \o t /\ slave' = slave
    BY <1>1, <1>3, <1>7 DEF SlaveTake
  <2>2. t \in Seq(Received) /\ Silent(t)
    <3>1. CASE x.type = "config"
      <4>1. x \in Received
        BY <1>2, <3>1 DEF Sent, Received
      <4>2. ~Chain(x)
        BY <3>1 DEF Chain
      <4> HIDE DEF x
      <4> QED BY <3>1, <4>1, <4>2 DEF Silent
    <3>2. CASE x.type # "config"
      BY <3>2 DEF Silent
    <3> QED BY <3>1, <3>2
  <2> HIDE DEF t
  <2>3. Alone(inbox') /\ (Silent(inbox) => Silent(inbox'))
    BY <1>1, <2>1, <2>2, SilentAppended DEF Quiet
  <2>4. /\ Alone(toSlave)' /\ Alone(inbox)'
        /\ (Silent(toSlave) => Silent(toSlave)') /\ (Silent(inbox) => Silent(inbox)')
    BY <1>4, <2>3 DEF Alone, Silent
  <2> QED BY <1>1, <2>1, <2>4 DEF Quiet
<1> QED BY <1>5, <1>6, <1>7

\* The device answers its question; only In(1) was asked.
LEMMA ReturnQuiet ==
    ASSUME SafeInv, Quiet, kind \notin Allowed, DeviceReturn \/ DeviceReport
    PROVE  Quiet'
<1>1. slave \in SlaveSet /\ slave.asked \subseteq {In(1)} /\ inbox \in Seq(Received)
  BY DEF SafeInv, Types, NothingComes
<1>2. PICK a, p : Return(a, p) /\ slave'.asked = {}
  <2>1. CASE DeviceReturn
    <3>1. PICK p : Return(In(1), p) /\ slave'.asked = {}
      BY <1>1, <2>1 DEF DeviceReturn, SlaveSet
    <3> QED BY <3>1 DEF Addresses
  <2>2. CASE DeviceReport
    <3>1. PICK a \in Addresses :
            /\ Return(a, Packet(slave.sent + 1, ReportLength, 0))
            /\ slave' = [slave EXCEPT !.asked = @ \ {a}, !.sent = @ + 1]
      BY <2>2 DEF DeviceReport
    <3>2. slave'.asked = slave.asked \ {a} /\ a \in slave.asked
      BY <1>1, <3>1 DEF SlaveSet, Return
    <3> QED BY <1>1, <3>1, <3>2
  <2> QED BY <2>1, <2>2
<1> DEFINE x == Message("packet", a, p)
<1>3. /\ a \in slave.asked /\ inbox' = Append(inbox, x) /\ toSlave' = toSlave /\ host' = host
  BY <1>2 DEF Return
<1>4. Silent(toSlave) /\ Silent(inbox) /\ host.described
  BY <1>3 DEF Quiet
<1> HIDE DEF x
<1>5. Alone(inbox')
  <2>1. inbox \in Seq(Received \cup {x})
    <3>1. inbox \in [1..Len(inbox) -> Received \cup {x}] /\ Len(inbox) \in Nat
      BY <1>1
    <3> QED BY <3>1
  <2> QED BY <1>3, <1>4, <2>1, OneAppended
<1>6. Alone(toSlave)' /\ Alone(inbox)' /\ Silent(toSlave)'
  BY <1>3, <1>4, <1>5 DEF Quiet, Alone, Silent
<1> QED BY <1>2, <1>3, <1>4, <1>6 DEF Quiet

\* The host reads the report descriptor once; nothing else it does concerns the chain,
\* and no buffer is ever there for it.
LEMMA HostQuiet ==
    ASSUME SafeInv, Quiet, kind \notin Allowed, Host
    PROVE  Quiet'
<1>1. /\ inbox \in Seq(Received) /\ toSlave \in Seq(Sent) /\ host \in HostSet
      /\ \A a \in Addresses : ~m.eps[a].buf.avail
  BY DEF SafeInv, Types, Held, NothingOffered
<1>2. \A len, left : ~HostOut(len, left)
  BY <1>1 DEF HostOut, Addresses
<1>3. ~HostCommand /\ ~HostData /\ ~HostIn
  BY <1>1, <1>2 DEF HostCommand, HostData, HostIn
<1>4. CASE ReadConfiguration
  <2> DEFINE x == Message("config", In(0), NoPacket)
  <2>1. /\ toSlave' = Append(toSlave, x) /\ inbox' = inbox /\ slave' = slave
        /\ host'.described = host.described
    BY <1>1, <1>4 DEF ReadConfiguration, Request, HostSet
  <2>2. x \in Sent /\ ~Chain(x)
    BY MessageFacts DEF Message, Chain
  <2> HIDE DEF x
  <2>3. <<x>> \in Seq(Sent) /\ toSlave' = toSlave \o <<x>>
    BY <1>1, <2>1, <2>2
  <2>4. Silent(<<x>>)
    BY <2>2 DEF Silent
  <2> QED BY <2>1, <2>3, <2>4, QuietStays
<1>5. CASE HostReset \/ Configure
  <2>1. /\ toSlave' = toSlave /\ inbox' = inbox /\ slave' = slave
        /\ host'.described = host.described
    BY <1>1, <1>5 DEF HostReset, Configure, HostSet
  <2>2. <<>> \in Seq(Sent) /\ Silent(<<>>) /\ toSlave' = toSlave \o <<>>
    BY <1>1, <2>1 DEF Silent
  <2> QED BY <2>1, <2>2, QuietStays
<1>6. CASE ReadReport
  <2> DEFINE x == Message("report", In(0), NoPacket)
  <2>1. /\ toSlave' = Append(toSlave, x) /\ inbox' = inbox /\ slave' = slave
        /\ host'.described /\ ~host.described
    BY <1>1, <1>6 DEF ReadReport, Request, HostSet
  <2>2. x \in Sent
    BY MessageFacts
  <2> HIDE DEF x
  <2>3. slave.asked = {} /\ Silent(toSlave) /\ Silent(inbox)
    BY <2>1 DEF Quiet
  <2>4. Alone(toSlave')
    BY <1>1, <2>1, <2>2, <2>3, OneAppended
  <2>5. Alone(toSlave)' /\ Alone(inbox)' /\ Silent(inbox)'
    BY <2>1, <2>3, <2>4 DEF Quiet, Alone, Silent
  <2> QED BY <2>1, <2>3, <2>5 DEF Quiet
<1> QED BY <1>3, <1>4, <1>5, <1>6 DEF Host

-----------------------------------------------------------------------------
(* The invariant.                                                          *)

\* In the beginning nothing is anywhere.
LEMMA InitiallyOrdered ==
    ASSUME Init
    PROVE  OrderInv
<1>1. /\ m.eps = [a \in Addresses |-> ClosedEndpoint] /\ m.next = 0 /\ ~m.panic
      /\ ~reset /\ bits = {} /\ inbox = <<>> /\ toSlave = <<>>
      /\ slave.asked = {} /\ slave.sent = 0 /\ slave.got = 0 /\ slave.left = 0
      /\ host.stage = "enumerating" /\ host.reads = 0 /\ ~host.described /\ ~host.busy
      /\ host.left = 0 /\ host.sent = 0 /\ host.got = 0
      /\ host.pid = [a \in Addresses |-> 0]
  BY DEF Init
<1>2. /\ \A a \in Addresses : /\ ~m.eps[a].buf.avail /\ ~m.eps[a].buf.full
                              /\ m.eps[a].pid = 0 /\ host.pid[a] = 0
      /\ BulkOut \in Addresses /\ In(1) \in Addresses /\ In(2) \in Addresses
  BY <1>1 DEF ClosedEndpoint, NoBuf, Addresses
<1>3. /\ \A t : ~Queued(t) /\ ~Arrived(t) /\ ~Going(t)
      /\ \A a : ~Came(a)
  BY <1>1 DEF Queued, Arrived, Going, Came
<1>4. \A k \in DOMAIN toSlave : FALSE
  BY <1>1
<1>5. \A k \in DOMAIN inbox : FALSE
  BY <1>1
<1>6. QueueInv /\ SecondIdle
  <2>1. Len(inbox) <= 1
    BY <1>1
  <2> QED BY <1>1, <1>2, <1>3, <1>4, <2>1 DEF QueueInv, SecondIdle
<1>7. OutInv("closed")
  BY <1>1, <1>2, <1>3, <1>4 DEF OutInv, OutAt
<1>8. InInv("none")
  BY <1>1, <1>2, <1>3 DEF InInv, InAt
<1>9. /\ StorageInv("closed", "none") /\ MouseInv("closed", "none") /\ ControlInv("none")
      /\ EnumerationInv("closed", "none")
  <2>1. StorageInv("closed", "none") /\ MouseInv("closed", "none") /\ ControlInv("none")
    BY <1>1, <1>3 DEF StorageInv, Spent, MouseInv, ControlInv
  <2>2. m.next + (IF Going("config") THEN 4 ELSE 0) <= 4 * host.reads
    BY <1>1, <1>3
  <2>3. EnumerationInv("closed", "none")
    BY <1>1, <1>2, <1>3, <2>2 DEF EnumerationInv
  <2> QED BY <2>1, <2>3
<1>10. Placed
  <2>1. "closed" \in OutPlaces /\ "none" \in InPlaces
    BY DEF OutPlaces, InPlaces
  <2> QED BY <1>1, <1>6, <1>7, <1>8, <1>9, <2>1 DEF Placed, At
<1>11. Quiet
  BY <1>1, <1>4, <1>5 DEF Quiet, Alone, Silent
<1> QED BY <1>10, <1>11 DEF OrderInv

\* The device stays the same.
LEMMA SameKind ==
    ASSUME Next \/ UNCHANGED vars
    PROVE  kind' = kind
  BY DEF Next, Core0, Host, NothingReceived, SendUpstream, ConfigurationRead, ReportRead,
         PacketReceived, Dequeue, SlaveEvent, Irq, PollOf, SlaveTake, DeviceReturn, DeviceReport,
         Return, ReadConfiguration, HostReset, Configure, ReadReport, Request, HostCommand,
         HostData, HostOut, HostIn, vars

\* Every step of an allowed device's system keeps the places.
LEMMA PlacedKept ==
    ASSUME Enough, SafeInv, kind \in Allowed, Placed, Next
    PROVE  Placed'
<1>1. CASE NothingReceived \/ SendUpstream
  BY <1>1, IdlePlaces
<1>2. CASE ConfigurationRead
  BY <1>2, ConfigurationReadPlaces
<1>3. CASE ReportRead
  BY <1>3, ReportReadPlaces
<1>4. CASE PacketReceived
  BY <1>4, PacketReceivedPlaces
<1>5. CASE Irq
  BY <1>5, IrqPlaces
<1>6. CASE SlaveTake
  BY <1>6, SlaveTakePlaces
<1>7. CASE DeviceReturn
  BY <1>7, DeviceReturnPlaces
<1>8. CASE DeviceReport
  BY <1>8, DeviceReportPlaces
<1>9. CASE ReadConfiguration
  BY <1>9, ReadConfigurationPlaces
<1>10. CASE HostReset \/ Configure
  BY <1>10, StagePlaces
<1>11. CASE ReadReport
  BY <1>11, ReadReportPlaces
<1>12. CASE HostCommand
  <2>1. PICK left \in 0..MaxOut : HostOut(CommandLength, left)
    BY <1>12 DEF HostCommand
  <2> QED BY <1>12, <2>1, HostOutPlaces DEF HostCommand
<1>13. CASE HostData
  <2>1. host.left - 1 \in 0..MaxOut /\ HostOut(FullLength, host.left - 1)
    BY <1>13, BoundFacts DEF HostData, SafeInv, Types, HostSet
  <2>2. host.stage = "operating"
    <3>1. host \in HostSet /\ host.busy
      BY <1>13 DEF SafeInv, Types, HostData
    <3> QED BY <3>1 DEF Placed, At, EnumerationInv, HostSet
  <2>3. host.left > 0
    BY <1>13 DEF HostData
  <2> QED BY <2>1, <2>2, <2>3, HostOutPlaces
<1>14. CASE HostIn
  BY <1>14, HostInPlaces
<1> QED BY <1>1, <1>2, <1>3, <1>4, <1>5, <1>6, <1>7, <1>8, <1>9, <1>10, <1>11, <1>12, <1>13,
           <1>14 DEF Next, Core0, Host

\* Every step of a forbidden device's system keeps it quiet.
LEMMA QuietKept ==
    ASSUME SafeInv, kind \notin Allowed, Quiet, Next
    PROVE  Quiet'
  BY CoreQuiet, ReportQuiet, TakeQuiet, ReturnQuiet, HostQuiet DEF Next, Core0

\* Every step keeps the invariant.
LEMMA StepwiseOrdered ==
    ASSUME Enough, SafeInv, OrderInv, [Next]_vars
    PROVE  OrderInv'
<1>1. kind' = kind
  BY SameKind
<1>2. CASE Next
  <2>1. kind \in Allowed => Placed'
    BY <1>2, PlacedKept DEF OrderInv
  <2>2. kind \notin Allowed => Quiet'
    BY <1>2, QuietKept DEF OrderInv
  <2> QED BY <1>1, <2>1, <2>2 DEF OrderInv
<1>3. CASE UNCHANGED vars
  <2>1. UNCHANGED <<kind, m, turn, reset, bits, inbox, toSlave, slave, host>>
    BY <1>3 DEF vars
  <2> QED BY <2>1 DEF OrderInv, Placed, QueueInv, SecondIdle, At, OutInv, OutAt, InInv, InAt, StorageInv,
                 MouseInv, ControlInv, EnumerationInv, Ready, Spent, Newest, Going, Came, Arrived,
                 Queued, Quiet, Alone, Silent
<1> QED BY <1>2, <1>3

\* The invariant, if the memory is enough and is not used up by readings in operation.
THEOREM Ordered == Enough => (Spec => []OrderInv)
<1> SUFFICES ASSUME Enough PROVE Spec => []OrderInv
  OBVIOUS
<1>1. Init => OrderInv
  BY InitiallyOrdered
<1>2. SafeInv /\ OrderInv /\ [Next]_vars => OrderInv'
  BY StepwiseOrdered
<1> QED BY <1>1, <1>2, Invariance, PTL DEF Spec

-----------------------------------------------------------------------------
(* What the invariant implies.                                             *)

\* A mass storage device or a mouse never stops core 0: no assertion fails, no endpoint
\* is used that is not open, and the memory is enough, for any number of readings that
\* fit and any sequence of resets, commands and reports (dcd_rp2040.c:75).
THEOREM NeverStops == Enough => (Spec => []NoPanic)
<1>1. OrderInv => NoPanic
  BY DEF OrderInv, Placed, NoPanic
<1> QED BY <1>1, Ordered, PTL

\* How many messages of a kind there are for an endpoint.
Asking(a) == {k \in DOMAIN toSlave : toSlave[k].type = "ask" /\ toSlave[k].addr = a}
Packets(a) == {k \in DOMAIN inbox : inbox[k].type = "packet" /\ inbox[k].addr = a}

\* A set of positions that are all the same has one element or none.
LEMMA FewPositions ==
    ASSUME NEW s, \A j, k \in s : j = k
    PROVE  Cardinality(s) \in {0, 1} /\ (s = {} => Cardinality(s) = 0)
<1>1. CASE s = {}
  BY <1>1, FS_EmptySet
<1>2. CASE s # {}
  <2>1. PICK x : s = {x}
    BY <1>2
  <2> QED BY <1>2, <2>1, FS_Singleton
<1> QED BY <1>1, <1>2

\* For an endpoint that has at most one question in one of the four places.
LEMMA OnePlace ==
    ASSUME NEW a, \A j, k \in Asking(a) : j = k, \A j, k \in Packets(a) : j = k,
           NEW asked \in BOOLEAN, NEW waits \in BOOLEAN,
           Asking(a) # {} => Packets(a) = {} /\ ~asked /\ ~waits,
           Packets(a) # {} => ~asked /\ ~waits, ~asked \/ ~waits
    PROVE  Cardinality(Asking(a)) + Cardinality(Packets(a))
               + (IF asked THEN 1 ELSE 0) + (IF waits THEN 1 ELSE 0) <= 1
<1>1. /\ Cardinality(Asking(a)) \in {0, 1} /\ (Asking(a) = {} => Cardinality(Asking(a)) = 0)
      /\ Cardinality(Packets(a)) \in {0, 1} /\ (Packets(a) = {} => Cardinality(Packets(a)) = 0)
  BY FewPositions
<1> QED BY <1>1

\* For each IN endpoint there is one question at most, on its way to the device, asked,
\* answered, or waiting for the host (device_event_handlers.c:203, drivers.c:33, 74, 89).
THEOREM NeverAsksTwice == Enough => (Spec => []OneQuestion)
<1>1. SafeInv /\ OrderInv => OneQuestion
  <2> SUFFICES ASSUME SafeInv, OrderInv, NEW a \in InAddresses
               PROVE  Cardinality(Asking(a)) + Cardinality(Packets(a))
                        + (IF a \in slave.asked THEN 1 ELSE 0)
                        + (IF m.eps[a].buf.avail THEN 1 ELSE 0) <= 1
    <3>1. {b \in Addresses : b.in} = InAddresses
      BY Addressing DEF Addresses, InAddresses
    <3> QED BY <3>1 DEF OneQuestion, Asking, Packets
  <2>1. /\ inbox \in Seq(Received) /\ toSlave \in Seq(Sent)
        /\ (a \in slave.asked) \in BOOLEAN /\ m.eps[a].buf.avail \in BOOLEAN
    <3>1. m.eps \in [Addresses -> EndpointSet] /\ a \in Addresses
      BY DEF SafeInv, Types, MasterSet, InAddresses, Addresses
    <3>2. m.eps[a].buf \in BufSet
      BY <3>1 DEF EndpointSet
    <3> QED BY <3>2, InboxKnown DEF BufSet
  <2>2. CASE kind \in Allowed
    <3>1. PICK p \in OutPlaces, q \in InPlaces : At(p, q)
      BY <2>2 DEF OrderInv, Placed
    <3>2. Placed /\ QueueInv /\ SecondIdle
      BY <2>2 DEF OrderInv, Placed
    <3>3. \A j, k \in Asking(a) : j = k
      BY <3>2 DEF QueueInv, Asking, Single
    <3>4. DOMAIN inbox \subseteq {1}
      BY <2>1, <3>2 DEF QueueInv
    <3>5. \A j, k \in Packets(a) : j = k
      BY <3>4 DEF Packets
    <3>6. Packets(a) # {} => Came(a)
      <4>1. Packets(a) # {} => inbox # <<>> /\ 1 \in Packets(a)
        BY <3>4 DEF Packets
      <4> QED BY <4>1 DEF Packets, Came, Arrived
    <3>7. Asking(a) # {} => a = In(1) /\ Queued("ask")
      BY <3>2 DEF QueueInv, Asking, Queued
    <3>8. CASE a = In(1)
      <4>1. /\ Asking(a) # {} => q = "ask"
            /\ Packets(a) # {} => q = "packet"
            /\ a \in slave.asked => q = "asked"
            /\ m.eps[a].buf.avail => q = "buffer"
        BY <3>1, <3>6, <3>7, <3>8 DEF At, InInv, InAt
      <4> QED BY <2>1, <3>3, <3>5, <4>1, OnePlace
    <3>9. CASE a = In(2)
      <4>1. Asking(a) = {} /\ Packets(a) = {} /\ a \notin slave.asked /\ ~m.eps[a].buf.avail
        BY <3>2, <3>6, <3>7, <3>9, Addressing DEF SecondIdle
      <4> QED BY <2>1, <3>3, <3>5, <4>1, OnePlace
    <3> QED BY <3>8, <3>9 DEF InAddresses
  <2>3. CASE kind \notin Allowed
    <3>1. Quiet /\ ~m.eps[a].buf.avail
      BY <2>3 DEF OrderInv, SafeInv, Held, NothingOffered, InAddresses, Addresses
    <3>2. /\ \A k \in Asking(a) : k \in DOMAIN toSlave /\ Chain(toSlave[k])
          /\ \A k \in Packets(a) : k \in DOMAIN inbox /\ Chain(inbox[k])
      BY DEF Asking, Packets, Chain
    <3>3. \A j, k \in Asking(a) : j = k
      BY <3>1, <3>2 DEF Quiet, Alone
    <3>4. \A j, k \in Packets(a) : j = k
      BY <3>1, <3>2 DEF Quiet, Alone
    <3>5. /\ Asking(a) # {} => ~Silent(toSlave)
          /\ Packets(a) # {} => ~Silent(inbox)
      BY <3>2 DEF Silent
    <3>6. /\ Asking(a) # {} => Packets(a) = {} /\ a \notin slave.asked
          /\ Packets(a) # {} => a \notin slave.asked
      BY <3>1, <3>5 DEF Quiet
    <3> QED BY <2>1, <3>1, <3>3, <3>4, <3>6, OnePlace
  <2> QED BY <2>2, <2>3
<1> QED BY <1>1, Invariance, Ordered, PTL

-----------------------------------------------------------------------------
(* The two channels.                                                       *)

\* What a step does to the channels, by the counters of the host and the slave.
PipeCounters(hostSent, hostGot, hostLast, slaveSent, slaveGot, slaveLast) ==
    /\ host'.sent = hostSent /\ host'.got = hostGot /\ host'.last = hostLast
    /\ slave'.sent = slaveSent /\ slave'.got = slaveGot /\ slave'.last = slaveLast

\* Nothing, a packet is sent, or a packet is delivered.
LEMMA PipeStep ==
    ASSUME \/ PipeCounters(host.sent, host.got, host.last, slave.sent, slave.got, slave.last)
           \/ PipeCounters(host.sent + 1, host.got, host.last, slave.sent, slave.got, slave.last)
           \/ PipeCounters(host.sent, host.got, host.last, slave.sent + 1, slave.got, slave.last)
           \/ /\ host.got < slave.sent
              /\ PipeCounters(host.sent, host.got + 1, host.got + 1, slave.sent, slave.got, slave.last)
           \/ /\ slave.got < host.sent
              /\ PipeCounters(host.sent, host.got, host.last, slave.sent, slave.got + 1, slave.got + 1)
    PROVE  [Pipe!ChannelNext]_(Pipe!channelVars)
<1> DEFINE s == [master |-> host.sent, slave |-> slave.sent]
           d == [master |-> host.got, slave |-> slave.got]
           l == [master |-> host.last, slave |-> slave.last]
<1>1. /\ Pipe!Other("master") = "slave" /\ Pipe!Other("slave") = "master"
      /\ "master" \in Pipe!Board /\ "slave" \in Pipe!Board
  BY DEF Pipe!Other, Pipe!Board
<1>2. CASE PipeCounters(host.sent, host.got, host.last, slave.sent, slave.got, slave.last)
  BY <1>2 DEF PipeCounters, Pipe!channelVars
<1>3. CASE PipeCounters(host.sent + 1, host.got, host.last, slave.sent, slave.got, slave.last)
  <2>1. s' = [s EXCEPT !["master"] = @ + 1] /\ d' = d /\ l' = l
    BY <1>3 DEF PipeCounters
  <2>2. Pipe!Send("master")
    BY <2>1 DEF Pipe!Send
  <2> QED BY <1>1, <2>2 DEF Pipe!ChannelNext
<1>4. CASE PipeCounters(host.sent, host.got, host.last, slave.sent + 1, slave.got, slave.last)
  <2>1. s' = [s EXCEPT !["slave"] = @ + 1] /\ d' = d /\ l' = l
    BY <1>4 DEF PipeCounters
  <2>2. Pipe!Send("slave")
    BY <2>1 DEF Pipe!Send
  <2> QED BY <1>1, <2>2 DEF Pipe!ChannelNext
<1>5. CASE /\ host.got < slave.sent
           /\ PipeCounters(host.sent, host.got + 1, host.got + 1, slave.sent, slave.got, slave.last)
  <2>1. s' = s /\ d' = [d EXCEPT !["master"] = @ + 1] /\ d["master"] < s["slave"]
    BY <1>5 DEF PipeCounters
  <2>2. l' = [l EXCEPT !["master"] = host.got + 1]
    BY <1>5 DEF PipeCounters
  <2>3. d'["master"] = host.got + 1
    BY <1>5 DEF PipeCounters
  <2>4. Pipe!Deliver("master")
    BY <1>1, <2>1, <2>2, <2>3 DEF Pipe!Deliver
  <2> QED BY <1>1, <2>4 DEF Pipe!ChannelNext
<1>6. CASE /\ slave.got < host.sent
           /\ PipeCounters(host.sent, host.got, host.last, slave.sent, slave.got + 1, slave.got + 1)
  <2>1. s' = s /\ d' = [d EXCEPT !["slave"] = @ + 1] /\ d["slave"] < s["master"]
    BY <1>6 DEF PipeCounters
  <2>2. l' = [l EXCEPT !["slave"] = slave.got + 1]
    BY <1>6 DEF PipeCounters
  <2>3. d'["slave"] = slave.got + 1
    BY <1>6 DEF PipeCounters
  <2>4. Pipe!Deliver("slave")
    BY <1>1, <2>1, <2>2, <2>3 DEF Pipe!Deliver
  <2> QED BY <1>1, <2>4 DEF Pipe!ChannelNext
<1> QED BY <1>2, <1>3, <1>4, <1>5, <1>6

\* A command or data of the host is sent.
LEMMA HostOutPipe ==
    ASSUME SafeInv, NEW len \in {CommandLength, FullLength}, NEW left \in 0..MaxOut, HostOut(len, left)
    PROVE  PipeCounters(host.sent + 1, host.got, host.last, slave.sent, slave.got, slave.last)
  BY OutFilled DEF PipeCounters

\* What the device returns is sent.
LEMMA ReturnPipe ==
    ASSUME SafeInv, DeviceReturn \/ DeviceReport
    PROVE  PipeCounters(host.sent, host.got, host.last, slave.sent + 1, slave.got, slave.last)
<1>1. slave \in SlaveSet
  BY DEF SafeInv, Types
<1>2. host' = host /\ slave'.sent = slave.sent + 1 /\ slave'.got = slave.got /\ slave'.last = slave.last
  <2>1. CASE DeviceReturn
    BY <1>1, <2>1 DEF DeviceReturn, Return, SlaveSet
  <2>2. CASE DeviceReport
    BY <1>1, <2>2 DEF DeviceReport, Return, SlaveSet
  <2> QED BY <2>1, <2>2
<1> QED BY <1>2 DEF PipeCounters

\* The host reads the packet it has not had yet; no other waits.
LEMMA HostInPipe ==
    ASSUME SafeInv, OrderInv, HostIn
    PROVE  /\ host.got < slave.sent
           /\ PipeCounters(host.sent, host.got + 1, host.got + 1, slave.sent, slave.got, slave.last)
<1>1. PICK a \in Addresses :
        LET buf == m.eps[a].buf
        IN  /\ a.in /\ buf.avail
            /\ m' = [m EXCEPT !.eps[a].buf = [@ EXCEPT !.avail = FALSE, !.full = FALSE]]
            /\ host' = IF buf.pid # host.pid[a] THEN host
                       ELSE [host EXCEPT !.pid[a] = 1 - @, !.got = @ + 1, !.last = buf.packet.n,
                                         !.busy = @ /\ buf.packet.left > 0]
            /\ slave' = slave
  BY DEF HostIn
<1>2. Placed /\ kind \in Allowed
  BY <1>1 DEF SafeInv, Held, NothingOffered, OrderInv
<1>3. PICK p \in OutPlaces, q \in InPlaces : At(p, q)
  BY <1>2 DEF Placed
<1>4. a = In(1)
  BY <1>1, <1>2, Addressing DEF Placed, SecondIdle, Addresses
<1>5. /\ m.eps[a].buf.pid = host.pid[a]
      /\ m.eps[a].buf.packet.n = slave.sent /\ slave.sent = host.got + 1
  <2>1. q = "buffer"
    BY <1>1, <1>3, <1>4 DEF At, InInv, InAt
  <2> QED BY <1>3, <1>4, <2>1 DEF At, InInv, Newest
<1>6. host'.got = host.got + 1 /\ host'.last = m.eps[a].buf.packet.n /\ host'.sent = host.sent
  BY <1>1, <1>5, InRead
<1>7. host.got \in Nat
  BY DEF SafeInv, Types, HostSet
<1> QED BY <1>1, <1>5, <1>6, <1>7 DEF PipeCounters

\* The slave takes the data it has not had yet, or something else.
LEMMA SlaveTakePipe ==
    ASSUME SafeInv, OrderInv, SlaveTake
    PROVE  \/ PipeCounters(host.sent, host.got, host.last, slave.sent, slave.got, slave.last)
           \/ /\ slave.got < host.sent
              /\ PipeCounters(host.sent, host.got, host.last, slave.sent, slave.got + 1, slave.got + 1)
<1> DEFINE x == Head(toSlave)
<1>1. /\ toSlave \in Seq(Sent) /\ slave \in SlaveSet
      /\ host' = host /\ toSlave # <<>>
  BY DEF SafeInv, Types, SlaveTake
<1>2. x \in Sent /\ 1 \in DOMAIN toSlave /\ x = toSlave[1]
  BY <1>1
<1>3. CASE x.type = "data"
  <2>1. Placed
    BY <1>2, <1>3 DEF SafeInv, NothingComes, OrderInv
  <2>2. PICK p \in OutPlaces, q \in InPlaces : At(p, q)
    BY <2>1 DEF Placed
  <2>3. p = "data"
    BY <1>2, <1>3, <2>2 DEF At, OutInv, OutAt, Queued
  <2>4. x.packet.n = host.sent /\ host.sent = slave.got + 1
    BY <1>2, <1>3, <2>2, <2>3 DEF At, OutInv
  <2>5. slave'.got = slave.got + 1 /\ slave'.last = x.packet.n /\ slave'.sent = slave.sent
    <3> DEFINE n == IF x.packet.len = CommandLength /\ x.packet.left = 0 THEN MaxIn ELSE 0
               l == x.packet.left
               k == x.packet.n
    <3>1. slave' = [slave EXCEPT !.asked = {}, !.busy = TRUE, !.left = l, !.data = n,
                                 !.got = @ + 1, !.last = k]
      BY <1>3 DEF SlaveTake
    <3> HIDE DEF n, l, k
    <3>2. slave'.got = slave.got + 1 /\ slave'.last = k /\ slave'.sent = slave.sent
      BY <1>1, <3>1 DEF SlaveSet
    <3> QED BY <3>2 DEF k
  <2>6. slave.got \in Nat
    BY <1>1 DEF SlaveSet
  <2> HIDE DEF x
  <2> QED BY <1>1, <2>4, <2>5, <2>6 DEF PipeCounters
<1>4. CASE x.type # "data"
  <2>1. slave'.got = slave.got /\ slave'.last = slave.last /\ slave'.sent = slave.sent
    <3>1. slave' = slave \/ slave' = [slave EXCEPT !.asked = @ \cup {x.addr}]
      BY <1>4 DEF SlaveTake
    <3> QED BY <1>1, <3>1 DEF SlaveSet
  <2> QED BY <1>1, <2>1 DEF PipeCounters
<1> QED BY <1>3, <1>4

\* What core 0 does, and the control requests, concern no counter.
LEMMA OtherPipe ==
    ASSUME SafeInv, \/ Core0 \/ ReadConfiguration \/ HostReset \/ Configure \/ ReadReport
                    \/ UNCHANGED vars
    PROVE  PipeCounters(host.sent, host.got, host.last, slave.sent, slave.got, slave.last)
<1>1. host \in HostSet
  BY DEF SafeInv, Types
<1>2. CASE Core0 \/ UNCHANGED vars
  <2>1. host' = host /\ slave' = slave
    BY <1>2 DEF Core0, NothingReceived, SendUpstream, ConfigurationRead, ReportRead,
                PacketReceived, Dequeue, SlaveEvent, Irq, PollOf, vars
  <2> QED BY <2>1 DEF PipeCounters
<1>3. CASE ReadConfiguration \/ HostReset \/ Configure \/ ReadReport
  <2>1. slave' = slave /\ host'.sent = host.sent /\ host'.got = host.got /\ host'.last = host.last
    BY <1>1, <1>3 DEF ReadConfiguration, HostReset, Configure, ReadReport, Request, HostSet
  <2> QED BY <2>1 DEF PipeCounters
<1> QED BY <1>2, <1>3

\* Every packet arrives once, in order and unchanged, in both directions: the firewall
\* is two channels between the host and the device (drivers.c:45-90).
THEOREM PipeImplemented == Enough => (Spec => ImplementsPipe)
<1> SUFFICES ASSUME Enough PROVE Spec => ImplementsPipe
  OBVIOUS
<1>1. Init => Pipe!ChannelInit
  <2> SUFFICES ASSUME Init PROVE Pipe!ChannelInit
    OBVIOUS
  <2>1. /\ host.sent = 0 /\ host.got = 0 /\ host.last = 0
        /\ slave.sent = 0 /\ slave.got = 0 /\ slave.last = 0
    BY DEF Init
  <2> QED BY <2>1 DEF Pipe!ChannelInit, Pipe!Board
<1>2. SafeInv /\ OrderInv /\ [Next]_vars => [Pipe!ChannelNext]_(Pipe!channelVars)
  <2> SUFFICES ASSUME SafeInv, OrderInv, [Next]_vars
               PROVE  [Pipe!ChannelNext]_(Pipe!channelVars)
    OBVIOUS
  <2>1. CASE \/ Core0 \/ ReadConfiguration \/ HostReset \/ Configure \/ ReadReport
             \/ UNCHANGED vars
    BY <2>1, OtherPipe, PipeStep
  <2>2. CASE SlaveTake
    BY <2>2, SlaveTakePipe, PipeStep
  <2>3. CASE DeviceReturn \/ DeviceReport
    BY <2>3, ReturnPipe, PipeStep
  <2>4. CASE HostCommand
    <3>1. PICK left \in 0..MaxOut : HostOut(CommandLength, left)
      BY <2>4 DEF HostCommand
    <3> QED BY <3>1, HostOutPipe, PipeStep
  <2>5. CASE HostData
    <3>1. host.left - 1 \in 0..MaxOut /\ HostOut(FullLength, host.left - 1)
      BY <2>5, BoundFacts DEF HostData, SafeInv, Types, HostSet
    <3> QED BY <3>1, HostOutPipe, PipeStep
  <2>6. CASE HostIn
    BY <2>6, HostInPipe, PipeStep
  <2> QED BY <2>1, <2>2, <2>3, <2>4, <2>5, <2>6 DEF Next, Host
<1>3. Enough => (Spec => []OrderInv)
  BY Ordered
<1> QED BY <1>1, <1>2, <1>3, Invariance, PTL DEF Spec, ImplementsPipe, Pipe!ChannelSpec
=============================================================================
