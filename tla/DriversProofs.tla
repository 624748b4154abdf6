--------------------------- MODULE DriversProofs ---------------------------
(***************************************************************************)
(* Proofs about Drivers, for every device, every size of the packet memory *)
(* and any number of readings, resets, commands and reports: types, the    *)
(* packet memory, the interface a device is judged by, and that nothing    *)
(* forbidden reaches the host.                                             *)
(***************************************************************************)
EXTENDS Drivers, TLAPS

-----------------------------------------------------------------------------
(* Types that say a little more than TypeOK: which messages there are.     *)

InAddresses == {In(1), In(2)}
MessageAddresses == Addresses \cup {In(0)}
Names == {"none", "hid", "storage"}
Interfaces == {NoInterface, Storage, Mouse, Keyboard, Vendor}

BufSet == [avail : BOOLEAN, full : BOOLEAN, pid : Pid, packet : PacketSet]
EndpointSet == [open : BOOLEAN, at : Nat, size : 0..2, pid : Pid, buf : BufSet]

Sent ==
    {x \in [type : {"config", "report", "open", "reset", "ask", "data"},
            addr : MessageAddresses, packet : PacketSet] :
        /\ x.type = "ask" => x.addr \in InAddresses
        /\ x.type = "data" => x.addr = BulkOut /\ x.packet.left \in 0..MaxOut}

Received ==
    {x \in [type : {"config", "report", "packet"}, addr : MessageAddresses, packet : PacketSet] :
        x.type = "packet" => x.addr \in Addresses}

MasterSet ==
    [eps : [Addresses -> EndpointSet], next : Nat, driver : [Indexes -> Names],
     itf : [Indexes -> Interfaces], other : Addresses \cup {Address(0, FALSE)},
     permit : BOOLEAN, counted : BOOLEAN, writing : BOOLEAN, msgs : Seq(Sent), panic : BOOLEAN]

SlaveSet ==
    [asked : SUBSET InAddresses, busy : BOOLEAN, left : 0..MaxOut, data : 0..MaxIn,
     sent : Nat, got : Nat, last : Nat]

HostSet ==
    [stage : {"enumerating", "operating"}, reads : 0..MaxReads, resets : 0..MaxResets,
     described : BOOLEAN, commands : 0..MaxCommands, busy : BOOLEAN, left : 0..MaxOut,
     pid : [Addresses -> Pid], sent : Nat, got : Nat, last : Nat]

Types ==
    /\ kind \in Kinds
    /\ m \in MasterSet /\ m.msgs = <<>>
    /\ turn \in {"event", "irq"} /\ reset \in BOOLEAN /\ bits \subseteq Addresses
    /\ inbox \in Seq(Received) /\ toSlave \in Seq(Sent)
    /\ slave \in SlaveSet /\ host \in HostSet

-----------------------------------------------------------------------------
(* What holds of d, that which the master holds, also in the middle of a   *)
(* poll or of the walk over a configuration.                               *)

\* Open endpoints have their own part of the memory given away so far.
MemoryGiven(d) ==
    ~d.panic =>
        /\ d.next <= MemUnits
        /\ \A a \in Addresses : d.eps[a].open => d.eps[a].at + d.eps[a].size <= d.next
        /\ \A a, b \in Addresses :
              d.eps[a].open /\ d.eps[b].open /\ a # b =>
                  \/ d.eps[a].at + d.eps[a].size <= d.eps[b].at
                  \/ d.eps[b].at + d.eps[b].size <= d.eps[a].at

\* The interface before the endpoint a, if the device has one.
Owner(a) ==
    CASE kind = "storage"  /\ a # In(2)   -> Storage
      [] kind = "mouse"    /\ a = In(1)   -> Mouse
      [] kind = "mouse"    /\ a = In(2)   -> Keyboard
      [] kind = "keyboard" /\ a = In(1)   -> Keyboard
      [] kind = "keyboard" /\ a = In(2)   -> Mouse
      [] kind = "vendor"   /\ a = In(1)   -> Vendor
      [] OTHER -> NoInterface

\* An endpoint is judged by its owner, and only endpoints of the device have drivers.
Judged(d) ==
    \A a \in Addresses :
        /\ d.eps[a].open => Owner(a) # NoInterface /\ d.itf[Idx(a)] = Owner(a)
        /\ d.driver[Idx(a)] = "hid" => d.itf[Idx(a)] = Owner(a) /\ Owner(a).class = 3
        /\ d.driver[Idx(a)] = "storage" => d.itf[Idx(a)] = Owner(a) /\ Owner(a) = Storage

\* No buffer of a forbidden device is available.
NothingOffered(d) == kind \notin Allowed => \A a \in Addresses : ~d.eps[a].buf.avail

\* What passes through the OUT buffer can be passed on.
OutFits(d) == d.eps[BulkOut].buf.packet.left \in 0..MaxOut

Held(d) == d \in MasterSet /\ MemoryGiven(d) /\ Judged(d) /\ NothingOffered(d) /\ OutFits(d)

\* The mass storage driver knows its IN endpoint.
Paired(d) == ~d.panic /\ d.driver[Idx(BulkOut)] = "storage" => d.other = In(1)

-----------------------------------------------------------------------------
\* The host has nothing of a forbidden device, no data goes to it, and only its
\* first IN endpoint, which is a keyboard or has no driver, is ever asked.
NothingComes ==
    kind \notin Allowed =>
        /\ host.got = 0 /\ bits = {}
        /\ slave.asked \subseteq {In(1)}
        /\ \A k \in DOMAIN toSlave :
              toSlave[k].type # "data" /\ (toSlave[k].type = "ask" => toSlave[k].addr = In(1))
        /\ \A k \in DOMAIN inbox : inbox[k].type = "packet" => inbox[k].addr = In(1)

SafeInv == Types /\ Held(m) /\ Paired(m) /\ NothingComes

-----------------------------------------------------------------------------
(* Addresses, interfaces and packets.                                      *)

\* Addresses are told apart by number and direction, and each has an index.
LEMMA Addressing ==
    /\ BulkOut # In(1) /\ BulkOut # In(2) /\ In(1) # In(2)
    /\ ~BulkOut.in /\ In(1).in /\ In(2).in
    /\ Idx(BulkOut) = 2 /\ Idx(In(1)) = 17 /\ Idx(In(2)) = 18
    /\ Indexes = {2, 17, 18}
    /\ Address(0, FALSE) \notin Addresses /\ In(0) \notin Addresses
<1>1. /\ BulkOut.num = 2 /\ In(1).num = 1 /\ In(2).num = 2 /\ In(0).num = 0
      /\ Address(0, FALSE).num = 0
      /\ ~BulkOut.in /\ In(1).in /\ In(2).in /\ In(0).in
  BY DEF BulkOut, In, Address
<1>2. BulkOut # In(1) /\ BulkOut # In(2) /\ In(1) # In(2)
  BY <1>1
<1>3. Idx(BulkOut) = 2 /\ Idx(In(1)) = 17 /\ Idx(In(2)) = 18
  BY <1>1 DEF Idx
<1>4. Indexes = {2, 17, 18}
  BY <1>3 DEF Indexes, Addresses
<1>5. \A a \in Addresses : a.num # 0
  BY <1>1 DEF Addresses
<1>6. Address(0, FALSE) \notin Addresses /\ In(0) \notin Addresses
  BY <1>1, <1>5
<1> QED BY <1>1, <1>2, <1>3, <1>4, <1>6

\* Two addresses have two indexes.
LEMMA IndexOwn ==
    ASSUME NEW a \in Addresses
    PROVE  /\ Idx(a) \in Indexes /\ \A b \in Addresses : b # a => Idx(b) # Idx(a)
           /\ a.in \in BOOLEAN
<1>1. Idx(a) \in Indexes /\ \A b \in Addresses : b # a => Idx(b) # Idx(a)
  BY Addressing DEF Addresses
<1>2. BulkOut.in \in BOOLEAN /\ In(1).in \in BOOLEAN /\ In(2).in \in BOOLEAN
  BY DEF BulkOut, In, Address
<1>3. a.in \in BOOLEAN
  BY <1>2, Zenon DEF Addresses
<1> QED BY <1>1, <1>3

\* The interfaces by class and protocol.
LEMMA InterfaceFacts ==
    /\ Storage.class = 8 /\ Mouse.class = 3 /\ Keyboard.class = 3 /\ Vendor.class = 255
    /\ NoInterface.class = 0
    /\ Mouse.protocol = 2 /\ Keyboard.protocol = 1
    /\ Storage # NoInterface /\ Mouse # NoInterface /\ Keyboard # NoInterface
    /\ Vendor # NoInterface /\ Mouse # Storage /\ Keyboard # Storage /\ Vendor # Storage
    /\ ~Banned(Mouse) /\ ~Banned(Storage) /\ Banned(Keyboard)
<1>1. /\ Storage.class = 8 /\ Mouse.class = 3 /\ Keyboard.class = 3 /\ Vendor.class = 255
      /\ NoInterface.class = 0
      /\ Mouse.protocol = 2 /\ Keyboard.protocol = 1
  BY DEF Storage, Mouse, Keyboard, Vendor, NoInterface, Interface
<1> QED BY <1>1 DEF Banned

\* Packets are packets.
LEMMA PacketFacts ==
    /\ NoPacket \in PacketSet /\ NoPacket.left = 0 /\ NoBuf \in BufSet
    /\ ClosedEndpoint \in EndpointSet
    /\ ~ClosedEndpoint.open /\ ~ClosedEndpoint.buf.avail
    /\ ClosedEndpoint.buf.packet.left = 0
<1>1. NoPacket \in PacketSet /\ NoPacket.left = 0
  BY DEF NoPacket, Packet, PacketSet
<1>2. NoBuf \in BufSet /\ ~NoBuf.avail /\ NoBuf.packet = NoPacket
  BY <1>1 DEF NoBuf, BufSet, Pid
<1> QED BY <1>1, <1>2 DEF ClosedEndpoint, EndpointSet, Pid

\* The bounds are numbers.
LEMMA BoundFacts ==
    /\ MemUnits \in Nat /\ MaxReads \in Nat /\ MaxResets \in Nat /\ MaxOut \in Nat
    /\ MaxIn \in Nat /\ MaxCommands \in Nat /\ MaxReports \in Nat
    /\ 0 \in 0..MaxOut /\ 0 \in 0..MaxIn
<1>1. /\ MemUnits \in Nat /\ MaxReads \in Nat /\ MaxResets \in Nat /\ MaxOut \in Nat
      /\ MaxIn \in Nat /\ MaxCommands \in Nat /\ MaxReports \in Nat
  BY DriversAssumption
<1> QED BY <1>1

-----------------------------------------------------------------------------
(* What the functions of the driver keep.                                  *)

\* What is left alone by a function that turns d into e.
SameRest(d, e) ==
    /\ e.driver = d.driver /\ e.itf = d.itf /\ e.other = d.other
    /\ e.writing = d.writing /\ e.next = d.next

\* Sending appends a message and leaves the rest.
LEMMA Sends ==
    ASSUME NEW d, Held(d), NEW x \in Sent
    PROVE  /\ Held(Send(d, x)) /\ SameRest(d, Send(d, x))
           /\ Send(d, x).panic = d.panic /\ Send(d, x).eps = d.eps
           /\ Send(d, x).msgs = Append(d.msgs, x)
<1> DEFINE e == Send(d, x)
<1>1. d \in MasterSet /\ MemoryGiven(d) /\ Judged(d) /\ NothingOffered(d) /\ OutFits(d)
  BY DEF Held
<1>2. /\ e.driver = d.driver /\ e.itf = d.itf /\ e.other = d.other /\ e.writing = d.writing
      /\ e.next = d.next /\ e.panic = d.panic /\ e.eps = d.eps /\ e.msgs = Append(d.msgs, x)
  BY <1>1 DEF Send, MasterSet
<1>3. Append(d.msgs, x) \in Seq(Sent)
  BY <1>1 DEF MasterSet
<1>4. e \in MasterSet
  BY <1>1, <1>3 DEF Send, MasterSet
<1> HIDE DEF e
<1>5. MemoryGiven(e)
  BY <1>1, <1>2 DEF MemoryGiven
<1>6. Judged(e)
  BY <1>1, <1>2 DEF Judged
<1>7. NothingOffered(e) /\ OutFits(e)
  BY <1>1, <1>2 DEF NothingOffered, OutFits
<1>8. Held(e) /\ SameRest(d, e)
  BY <1>2, <1>4, <1>5, <1>6, <1>7 DEF Held, SameRest
<1> QED BY <1>2, <1>8 DEF e

\* A stopped core holds what it held.
LEMMA Panics ==
    ASSUME NEW d, Held(d)
    PROVE  /\ Held(Panic(d)) /\ SameRest(d, Panic(d)) /\ Panic(d).panic
           /\ Panic(d).eps = d.eps /\ Panic(d).msgs = d.msgs
<1> DEFINE e == Panic(d)
<1>1. d \in MasterSet /\ Judged(d) /\ NothingOffered(d) /\ OutFits(d)
  BY DEF Held
<1>2. /\ e.driver = d.driver /\ e.itf = d.itf /\ e.other = d.other /\ e.writing = d.writing
      /\ e.next = d.next /\ e.panic /\ e.eps = d.eps /\ e.msgs = d.msgs
  BY <1>1 DEF Panic, MasterSet
<1>4. e \in MasterSet
  BY <1>1 DEF Panic, MasterSet
<1> HIDE DEF e
<1>5. MemoryGiven(e)
  BY <1>2 DEF MemoryGiven
<1>6. Judged(e)
  BY <1>1, <1>2 DEF Judged
<1>7. NothingOffered(e) /\ OutFits(e)
  BY <1>1, <1>2 DEF NothingOffered, OutFits
<1>8. Held(e) /\ SameRest(d, e)
  BY <1>2, <1>4, <1>5, <1>6, <1>7 DEF Held, SameRest
<1> QED BY <1>2, <1>8 DEF e

\* What a buffer offered for packet p looks like, with the PID pid for the next one.
OfferedAt(d, e, a, p, pid) ==
    /\ SameRest(d, e) /\ e.permit = d.permit /\ e.counted = d.counted
    /\ e.panic = d.panic /\ e.msgs = d.msgs
    /\ e.eps = [d.eps EXCEPT ![a].buf = [avail |-> TRUE, full |-> a.in, pid |-> d.eps[a].pid,
                                         packet |-> p],
                             ![a].pid = pid]

\* An open endpoint takes a packet; the core stops if it is not open.
LEMMA Offers ==
    ASSUME NEW d, Held(d), NEW a \in Addresses, NEW p \in PacketSet, NEW pid \in Pid,
           a = BulkOut => p.left \in 0..MaxOut, kind \in Allowed
    PROVE  /\ Held(Offer(d, a, p, pid)) /\ SameRest(d, Offer(d, a, p, pid))
           /\ d.eps[a].open => OfferedAt(d, Offer(d, a, p, pid), a, p, pid)
           /\ ~d.eps[a].open => Offer(d, a, p, pid).panic
           /\ Offer(d, a, p, pid).msgs = d.msgs
<1> DEFINE e == Offer(d, a, p, pid)
<1>1. d \in MasterSet /\ MemoryGiven(d) /\ Judged(d) /\ NothingOffered(d) /\ OutFits(d)
  BY DEF Held
<1>2. CASE ~d.eps[a].open
  <2>1. e = Panic(d)
    BY <1>2 DEF Offer
  <2> QED BY <1>2, <2>1, Panics
<1>3. CASE d.eps[a].open
  <2> DEFINE b == [avail |-> TRUE, full |-> a.in, pid |-> d.eps[a].pid, packet |-> p]
  <2>1. e = [[d EXCEPT !.eps[a].buf = b] EXCEPT !.eps[a].pid = pid]
    BY <1>3 DEF Offer
  <2>2. d.eps \in [Addresses -> EndpointSet]
    BY <1>1 DEF MasterSet
  <2>3. a.in \in BOOLEAN
    BY IndexOwn
  <2>4. b \in BufSet
    <3>1. d.eps[a].pid \in Pid
      BY <2>2 DEF EndpointSet
    <3> QED BY <2>3, <3>1 DEF BufSet
  <2> HIDE DEF b
  <2> DEFINE f == [d.eps EXCEPT ![a].buf = b]
             g == [f EXCEPT ![a].pid = pid]
  <2>5. /\ f \in [Addresses -> EndpointSet] /\ g \in [Addresses -> EndpointSet]
        /\ \A c \in Addresses : c # a => g[c] = d.eps[c]
        /\ g[a].open = d.eps[a].open /\ g[a].at = d.eps[a].at /\ g[a].size = d.eps[a].size
        /\ g[a].buf = b /\ g[a].pid = pid
    BY <2>2, <2>4 DEF EndpointSet
  <2>6. e.eps = g
    BY <2>1, <1>1 DEF MasterSet
  <2>7. /\ e.driver = d.driver /\ e.itf = d.itf /\ e.other = d.other /\ e.writing = d.writing
        /\ e.next = d.next /\ e.panic = d.panic /\ e.msgs = d.msgs
        /\ e.permit = d.permit /\ e.counted = d.counted
    BY <2>1, <1>1 DEF MasterSet
  <2>8. e = [d EXCEPT !.eps = g]
    BY <2>1, <1>1 DEF MasterSet
  <2>9. e \in MasterSet
    BY <2>8, <2>5, <1>1 DEF MasterSet
  <2> HIDE DEF e, f, g
  <2>10. \A c \in Addresses : /\ e.eps[c].open = d.eps[c].open /\ e.eps[c].at = d.eps[c].at
                              /\ e.eps[c].size = d.eps[c].size
    BY <2>5, <2>6
  <2>11. MemoryGiven(e)
    BY <2>7, <2>10, <1>1 DEF MemoryGiven
  <2>12. Judged(e)
    BY <2>7, <2>10, <1>1 DEF Judged
  <2>13. OutFits(e)
    <3>1. CASE a = BulkOut
      BY <3>1, <2>5, <2>6 DEF OutFits, b
    <3>2. CASE a # BulkOut
      BY <3>2, <2>5, <2>6, <1>1 DEF OutFits, Addresses
    <3> QED BY <3>1, <3>2
  <2>14. Held(e) /\ SameRest(d, e)
    BY <2>7, <2>9, <2>11, <2>12, <2>13 DEF Held, SameRest, NothingOffered
  <2>15. g = [d.eps EXCEPT ![a].buf = b, ![a].pid = pid]
    BY DEF g, f
  <2>16. OfferedAt(d, e, a, p, pid)
    BY <2>6, <2>7, <2>14, <2>15 DEF OfferedAt, b
  <2> QED BY <1>3, <2>7, <2>14, <2>16 DEF e
<1> QED BY <1>2, <1>3

\* A new endpoint has the next part of the memory and nothing in its buffer.
OpenedAt(d, e, a, size) ==
    /\ e.driver = d.driver /\ e.itf = d.itf /\ e.other = d.other /\ e.writing = d.writing
    /\ e.permit = d.permit /\ e.counted = d.counted /\ e.msgs = d.msgs
    /\ e.next = d.next + size
    /\ e.panic <=> d.panic \/ d.next + size > MemUnits
    /\ e.eps = [d.eps EXCEPT ![a] = [open |-> TRUE, at |-> d.next, size |-> size, pid |-> 0,
                                     buf |-> NoBuf]]

\* d may have no owner's interface for a yet.
LEMMA Allocates ==
    ASSUME NEW d, Held(d), NEW a \in Addresses, NEW size \in {1, 2}
    PROVE  LET e == Allocate(d, a, size, size)
           IN  /\ OpenedAt(d, e, a, size)
               /\ e \in MasterSet /\ MemoryGiven(e) /\ NothingOffered(e) /\ OutFits(e)
<1> DEFINE e == Allocate(d, a, size, size)
           n == [open |-> TRUE, at |-> d.next, size |-> size, pid |-> 0, buf |-> NoBuf]
           g == [d.eps EXCEPT ![a] = n]
<1>1. d \in MasterSet /\ MemoryGiven(d) /\ Judged(d) /\ NothingOffered(d) /\ OutFits(d)
  BY DEF Held
<1>2. d.next \in Nat /\ d.eps \in [Addresses -> EndpointSet] /\ d.panic \in BOOLEAN
  BY <1>1 DEF MasterSet
<1>3. n \in EndpointSet /\ n.open /\ n.at = d.next /\ n.size = size /\ n.buf = NoBuf
  BY <1>2, PacketFacts DEF EndpointSet, Pid
<1>4. /\ g \in [Addresses -> EndpointSet] /\ g[a] = n
      /\ \A c \in Addresses : c # a => g[c] = d.eps[c]
  BY <1>2, <1>3
<1> DEFINE over == d.panic \/ d.next + size > MemUnits
<1> HIDE DEF n
<1>5. e = [[[d EXCEPT !.eps = g] EXCEPT !.next = d.next + size] EXCEPT !.panic = over]
  BY <1>1 DEF Allocate, MasterSet, n
<1>6. over \in BOOLEAN /\ d.next + size \in Nat
  BY <1>2
<1> HIDE DEF over, g
<1>7. /\ e \in MasterSet
      /\ e.eps = g /\ e.next = d.next + size /\ e.panic = over
      /\ e.driver = d.driver /\ e.itf = d.itf /\ e.other = d.other /\ e.writing = d.writing
      /\ e.permit = d.permit /\ e.counted = d.counted /\ e.msgs = d.msgs
  BY <1>1, <1>4, <1>5, <1>6 DEF MasterSet
<1>8. e.panic <=> d.panic \/ d.next + size > MemUnits
  BY <1>7 DEF over
<1> HIDE DEF e
<1>9. OpenedAt(d, e, a, size)
  BY <1>7, <1>8 DEF OpenedAt, g, n
<1>10. MemoryGiven(e)
  <2> SUFFICES ASSUME ~e.panic PROVE MemoryGiven(e)
    BY DEF MemoryGiven
  <2>1. ~d.panic /\ d.next + size <= MemUnits
    BY <1>8, <1>2, BoundFacts
  <2>2. \A c \in Addresses : d.eps[c].open => d.eps[c].at + d.eps[c].size <= d.next
    BY <2>1, <1>1 DEF MemoryGiven
  <2>3. \A c \in Addresses : /\ d.eps[c].at \in Nat /\ d.eps[c].size \in Nat
    BY <1>2 DEF EndpointSet
  <2>4. \A c \in Addresses : e.eps[c].open => e.eps[c].at + e.eps[c].size <= e.next
    BY <2>2, <2>3, <1>2, <1>3, <1>4, <1>7
  <2>5. ASSUME NEW b \in Addresses, NEW c \in Addresses, e.eps[b].open, e.eps[c].open, b # c
        PROVE  \/ e.eps[b].at + e.eps[b].size <= e.eps[c].at
               \/ e.eps[c].at + e.eps[c].size <= e.eps[b].at
    <3>1. CASE b = a
      BY <3>1, <2>5, <2>2, <1>3, <1>4, <1>7
    <3>2. CASE c = a
      BY <3>2, <2>5, <2>2, <1>3, <1>4, <1>7
    <3>3. CASE b # a /\ c # a
      BY <3>3, <2>5, <2>1, <1>1, <1>4, <1>7 DEF MemoryGiven
    <3> QED BY <3>1, <3>2, <3>3
  <2> QED BY <2>1, <2>4, <2>5, <1>7 DEF MemoryGiven
<1>11. NothingOffered(e)
  BY <1>1, <1>3, <1>4, <1>7, PacketFacts DEF NothingOffered, NoBuf
<1>12. OutFits(e)
  <2>1. NoBuf.packet.left = 0
    BY PacketFacts DEF NoBuf
  <2>2. CASE a = BulkOut
    BY <2>1, <2>2, <1>3, <1>4, <1>7, BoundFacts DEF OutFits
  <2>3. CASE a # BulkOut
    BY <2>3, <1>1, <1>4, <1>7 DEF OutFits, Addresses
  <2> QED BY <2>2, <2>3
<1> QED BY <1>7, <1>9, <1>10, <1>11, <1>12 DEF e

\* The mass storage driver counts, which nothing else depends on here.
LEMMA Counts ==
    ASSUME NEW d, Held(d), NEW v \in BOOLEAN
    PROVE  LET e == [d EXCEPT !.permit = v, !.counted = v]
           IN  /\ Held(e) /\ SameRest(d, e) /\ e.panic = d.panic /\ e.eps = d.eps
               /\ e.msgs = d.msgs /\ e.permit = v /\ e.counted = v
<1> DEFINE e == [d EXCEPT !.permit = v, !.counted = v]
<1>1. d \in MasterSet /\ MemoryGiven(d) /\ Judged(d) /\ NothingOffered(d) /\ OutFits(d)
  BY DEF Held
<1>2. /\ e \in MasterSet
      /\ e.driver = d.driver /\ e.itf = d.itf /\ e.other = d.other /\ e.writing = d.writing
      /\ e.next = d.next /\ e.panic = d.panic /\ e.eps = d.eps /\ e.msgs = d.msgs
      /\ e.permit = v /\ e.counted = v
  BY <1>1 DEF MasterSet
<1> HIDE DEF e
<1>3. MemoryGiven(e) /\ NothingOffered(e) /\ OutFits(e)
  BY <1>1, <1>2 DEF MemoryGiven, NothingOffered, OutFits
<1>4. Judged(e)
  BY <1>1, <1>2 DEF Judged
<1>5. Held(e) /\ SameRest(d, e)
  BY <1>2, <1>3, <1>4 DEF Held, SameRest
<1> QED BY <1>2, <1>5 DEF e

\* Between polls the master writes an answer upstream or does not.
LEMMA Writes ==
    ASSUME NEW d, Held(d), NEW v \in BOOLEAN
    PROVE  LET e == [d EXCEPT !.writing = v]
           IN  /\ Held(e) /\ e.panic = d.panic /\ e.eps = d.eps /\ e.msgs = d.msgs
               /\ e.driver = d.driver /\ e.itf = d.itf /\ e.other = d.other /\ e.next = d.next
               /\ e.permit = d.permit /\ e.counted = d.counted
<1> DEFINE e == [d EXCEPT !.writing = v]
<1>1. d \in MasterSet /\ MemoryGiven(d) /\ Judged(d) /\ NothingOffered(d) /\ OutFits(d)
  BY DEF Held
<1>2. /\ e \in MasterSet
      /\ e.driver = d.driver /\ e.itf = d.itf /\ e.other = d.other
      /\ e.next = d.next /\ e.panic = d.panic /\ e.eps = d.eps /\ e.msgs = d.msgs
      /\ e.permit = d.permit /\ e.counted = d.counted
  BY <1>1 DEF MasterSet
<1> HIDE DEF e
<1>3. MemoryGiven(e) /\ NothingOffered(e) /\ OutFits(e)
  BY <1>1, <1>2 DEF MemoryGiven, NothingOffered, OutFits
<1>4. Judged(e)
  BY <1>1, <1>2 DEF Judged
<1>5. Held(e)
  BY <1>2, <1>3, <1>4 DEF Held
<1> QED BY <1>2, <1>5 DEF e

\* The messages of the master.
LEMMA MessageFacts ==
    /\ \A a \in InAddresses : Message("ask", a, NoPacket) \in Sent
    /\ \A a \in Addresses : Message("open", a, NoPacket) \in Sent
    /\ Message("reset", In(0), NoPacket) \in Sent
    /\ Message("config", In(0), NoPacket) \in Sent
    /\ Message("report", In(0), NoPacket) \in Sent
    /\ \A p \in PacketSet : p.left \in 0..MaxOut => Message("data", BulkOut, p) \in Sent
  BY PacketFacts DEF Message, Sent, MessageAddresses, InAddresses, Addresses

\* A knock asks for a packet of an IN endpoint.
LEMMA Knocks ==
    ASSUME NEW d, Held(d), NEW a \in InAddresses
    PROVE  /\ Held(Knock(d, a)) /\ SameRest(d, Knock(d, a))
           /\ Knock(d, a).panic = d.panic /\ Knock(d, a).eps = d.eps
           /\ Knock(d, a).msgs = Append(d.msgs, Message("ask", a, NoPacket))
<1>1. Message("ask", a, NoPacket) \in Sent
  BY MessageFacts
<1> QED BY <1>1, Sends DEF Knock

\* A core that goes on keeps what pairs the endpoints.
LEMMA PairKept ==
    ASSUME NEW d, NEW e, Paired(d), ~d.panic, SameRest(d, e)
    PROVE  Paired(e)
  BY DEF Paired, SameRest

\* A transfer of a device that may have one.
LEMMA Transfers ==
    ASSUME NEW d, Held(d), NEW a \in Addresses, NEW p \in PacketSet,
           a = BulkOut => p.left \in 0..MaxOut, kind \in Allowed
    PROVE  /\ Held(Xfer(d, a, p)) /\ SameRest(d, Xfer(d, a, p))
           /\ d.eps[a].open => OfferedAt(d, Xfer(d, a, p), a, p, 1 - d.eps[a].pid)
           /\ ~d.eps[a].open => Xfer(d, a, p).panic
           /\ Xfer(d, a, p).msgs = d.msgs
<1>1. d.eps[a].pid \in Pid
  BY DEF Held, MasterSet, EndpointSet
<1>2. 1 - d.eps[a].pid \in Pid
  BY <1>1 DEF Pid
<1> QED BY <1>2, Offers DEF Xfer

\* msc_spi.
LEMMA MscSpiKeeps ==
    ASSUME NEW d, Held(d), Paired(d), ~d.panic, kind \in Allowed,
           NEW a \in Addresses, d.driver[Idx(a)] = "storage", NEW p \in PacketSet
    PROVE  Held(MscSpi(d, a, p)) /\ Paired(MscSpi(d, a, p))
<1>1. CASE a.in
  <2> DEFINE c == [d EXCEPT !.permit = TRUE, !.counted = TRUE]
  <2>1. Held(c) /\ SameRest(d, c) /\ c.panic = d.panic
    BY Counts
  <2>2. Paired(c)
    BY <2>1, PairKept
  <2> HIDE DEF c
  <2>3. a # BulkOut
    BY <1>1, Addressing
  <2>4. Held(Xfer(c, a, p)) /\ SameRest(c, Xfer(c, a, p))
    BY <2>1, <2>3, Transfers
  <2>5. MscSpi(d, a, p) = Xfer(c, a, p)
    BY <1>1 DEF MscSpi, c
  <2> QED BY <2>1, <2>2, <2>4, <2>5, PairKept
<1>2. CASE ~a.in
  <2>1. a = BulkOut
    BY <1>2, Addressing DEF Addresses
  <2>2. d.other = In(1)
    BY <2>1 DEF Paired
  <2> DEFINE c == Knock(d, d.other)
  <2>3. Held(c) /\ SameRest(d, c) /\ c.panic = d.panic
    BY <2>2, Knocks DEF InAddresses
  <2>4. Paired(c)
    BY <2>3, PairKept
  <2> HIDE DEF c
  <2>5. Held(Xfer(c, a, NoPacket)) /\ SameRest(c, Xfer(c, a, NoPacket))
    BY <2>3, PacketFacts, BoundFacts, Transfers
  <2>6. MscSpi(d, a, p) = Xfer(c, a, NoPacket)
    BY <1>2 DEF MscSpi, c
  <2> QED BY <2>3, <2>4, <2>5, <2>6, PairKept
<1> QED BY <1>1, <1>2

\* msc_xfer; the packet of an OUT endpoint must be one of a command.
LEMMA MscXferKeeps ==
    ASSUME NEW d, Held(d), Paired(d), ~d.panic,
           NEW a \in Addresses, NEW p \in PacketSet, a = BulkOut => p.left \in 0..MaxOut
    PROVE  Held(MscXfer(d, a, p)) /\ Paired(MscXfer(d, a, p))
<1>1. CASE ~a.in
  <2>1. a = BulkOut
    BY <1>1, Addressing DEF Addresses
  <2> DEFINE c == [d EXCEPT !.permit = FALSE, !.counted = FALSE]
  <2>2. Held(c) /\ SameRest(d, c) /\ c.panic = d.panic
    BY Counts
  <2>3. Paired(c)
    BY <2>2, PairKept
  <2> HIDE DEF c
  <2>4. Message("data", a, p) \in Sent
    BY <2>1, MessageFacts
  <2>5. Held(Send(c, Message("data", a, p))) /\ SameRest(c, Send(c, Message("data", a, p)))
    BY <2>2, <2>4, Sends
  <2>6. MscXfer(d, a, p) = Send(c, Message("data", a, p))
    BY <1>1 DEF MscXfer, c
  <2> QED BY <2>2, <2>3, <2>5, <2>6, PairKept
<1>2. CASE a.in
  <2>1. a \in InAddresses
    BY <1>2, Addressing DEF Addresses, InAddresses
  <2>2. Held(Knock(d, a)) /\ SameRest(d, Knock(d, a))
    BY <2>1, Knocks
  <2>3. MscXfer(d, a, p) = Knock(d, a) \/ MscXfer(d, a, p) = d
    BY <1>2 DEF MscXfer
  <2> QED BY <2>2, <2>3, PairKept
<1> QED BY <1>1, <1>2

\* What the owners are.
LEMMA OwnerFacts ==
    /\ Owner(BulkOut) \in {Storage, NoInterface}
    /\ \A a \in Addresses :
          /\ Owner(a) \in Interfaces
          /\ Owner(a) = Storage => kind = "storage" /\ kind \in Allowed
          /\ Owner(a).class = 3 => a \in InAddresses
          /\ kind \notin Allowed /\ kind \in Kinds => Owner(In(1)) = Keyboard \/ Owner(In(1)) = Vendor
<1>1. Owner(BulkOut) \in {Storage, NoInterface}
  BY Addressing DEF Owner
<1>2. \A a \in Addresses : Owner(a) \in Interfaces
  BY DEF Owner, Interfaces
<1>3. \A a \in Addresses : Owner(a) = Storage => kind = "storage" /\ kind \in Allowed
  BY InterfaceFacts DEF Owner, Allowed
<1>4. \A a \in Addresses : Owner(a).class = 3 => a # BulkOut
  BY <1>1, InterfaceFacts
<1>5. ASSUME kind \notin Allowed, kind \in Kinds
      PROVE  Owner(In(1)) = Keyboard \/ Owner(In(1)) = Vendor
  <2>1. kind = "keyboard" \/ kind = "vendor"
    BY <1>5, DriversAssumption DEF Allowed
  <2> QED BY <2>1, Addressing DEF Owner
<1> QED BY <1>1, <1>2, <1>3, <1>4, <1>5 DEF Addresses, InAddresses

\* hid_spi.
LEMMA HidSpiKeeps ==
    ASSUME NEW d, Held(d), Paired(d), ~d.panic, kind \in Allowed,
           NEW a \in Addresses, d.driver[Idx(a)] = "hid", NEW p \in PacketSet
    PROVE  Held(HidSpi(d, a, p)) /\ Paired(HidSpi(d, a, p))
<1>1. a # BulkOut
  <2>1. Owner(a).class = 3
    BY DEF Held, Judged
  <2> QED BY <2>1, OwnerFacts, Addressing DEF InAddresses
<1>2. Held(Xfer(d, a, p)) /\ SameRest(d, Xfer(d, a, p))
  BY <1>1, Transfers
<1> QED BY <1>2, PairKept DEF HidSpi

\* hid_xfer.
LEMMA HidXferKeeps ==
    ASSUME NEW d, Held(d), Paired(d), ~d.panic, NEW a \in Addresses, d.driver[Idx(a)] = "hid"
    PROVE  Held(HidXfer(d, a)) /\ Paired(HidXfer(d, a))
<1>1. a \in InAddresses
  BY OwnerFacts DEF Held, Judged
<1>2. Held(Knock(d, a)) /\ SameRest(d, Knock(d, a))
  BY <1>1, Knocks
<1> QED BY <1>2, PairKept DEF HidXfer

\* A stopped core pairs nothing.
LEMMA PanicKeeps ==
    ASSUME NEW d, Held(d)
    PROVE  Held(Panic(d)) /\ Paired(Panic(d))
  BY Panics DEF Paired

\* A packet of the slave is passed on by the driver of a device that is allowed, and
\* otherwise stops the core.
LEMMA SlaveDataKeeps ==
    ASSUME NEW d, Held(d), Paired(d), ~d.panic, kind \in Kinds,
           NEW a \in Addresses, NEW p \in PacketSet, kind \notin Allowed => a = In(1)
    PROVE  /\ Held(SlaveData(d, a, p)) /\ Paired(SlaveData(d, a, p))
           /\ kind \notin Allowed => SlaveData(d, a, p).msgs = d.msgs
<1>1. Judged(d)
  BY DEF Held
<1>2. CASE ~Banned(d.itf[Idx(a)]) /\ d.driver[Idx(a)] = "storage"
  <2>1. kind \in Allowed
    BY <1>1, <1>2, OwnerFacts DEF Judged
  <2>2. SlaveData(d, a, p) = MscSpi(d, a, p)
    BY <1>2 DEF SlaveData
  <2> QED BY <1>2, <2>1, <2>2, MscSpiKeeps
<1>3. CASE ~Banned(d.itf[Idx(a)]) /\ d.driver[Idx(a)] = "hid"
  <2>1. d.itf[Idx(a)] = Owner(a) /\ Owner(a).class = 3
    BY <1>1, <1>3 DEF Judged
  <2>2. kind \in Allowed
    <3> SUFFICES ASSUME kind \notin Allowed PROVE FALSE
      OBVIOUS
    <3>1. Owner(a) = Keyboard \/ Owner(a) = Vendor
      BY OwnerFacts
    <3> QED BY <1>3, <2>1, <3>1, InterfaceFacts
  <2>3. SlaveData(d, a, p) = HidSpi(d, a, p)
    BY <1>3 DEF SlaveData
  <2> QED BY <1>3, <2>2, <2>3, HidSpiKeeps
<1>4. CASE Banned(d.itf[Idx(a)]) \/ d.driver[Idx(a)] \notin {"storage", "hid"}
  <2>1. SlaveData(d, a, p) = Panic(d)
    BY <1>4 DEF SlaveData
  <2> QED BY <2>1, PanicKeeps, Panics
<1> QED BY <1>2, <1>3, <1>4

\* A completion is told to the driver.
LEMMA XferCompletedKeeps ==
    ASSUME NEW d, Held(d), Paired(d), ~d.panic,
           NEW a \in Addresses, NEW p \in PacketSet, a = BulkOut => p.left \in 0..MaxOut
    PROVE  Held(XferCompleted(d, a, p)) /\ Paired(XferCompleted(d, a, p))
<1>1. CASE d.driver[Idx(a)] = "storage"
  BY <1>1, MscXferKeeps DEF XferCompleted
<1>2. CASE d.driver[Idx(a)] = "hid"
  BY <1>2, HidXferKeeps DEF XferCompleted
<1>3. CASE d.driver[Idx(a)] \notin {"storage", "hid"}
  BY <1>3, PanicKeeps DEF XferCompleted
<1> QED BY <1>1, <1>2, <1>3

\* The buffer of an endpoint is done.
LEMMA BufferDoneKeeps ==
    ASSUME NEW d, Held(d), Paired(d), ~d.panic, NEW a \in Addresses
    PROVE  Held(BufferDone(d, a)) /\ Paired(BufferDone(d, a))
<1>1. d.eps[a].buf.packet \in PacketSet
  BY DEF Held, MasterSet, EndpointSet, BufSet
<1>2. a = BulkOut => d.eps[a].buf.packet.left \in 0..MaxOut
  BY DEF Held, OutFits
<1>3. Held(XferCompleted(d, a, d.eps[a].buf.packet)) /\ Paired(XferCompleted(d, a, d.eps[a].buf.packet))
  BY <1>1, <1>2, XferCompletedKeeps
<1> QED BY <1>3, PanicKeeps DEF BufferDone

-----------------------------------------------------------------------------
(* The walk over a configuration.                                          *)

\* The configuration of each device.
LEMMA ConfigFacts ==
    /\ kind = "storage" => Config(kind) = <<OfInterface(Storage), OfEndpoint(BulkOut, TRUE),
                                            OfEndpoint(In(1), TRUE)>>
    /\ kind = "mouse" => Config(kind) = <<OfInterface(Mouse), OfEndpoint(In(1), FALSE),
                                          OfInterface(Keyboard), OfEndpoint(In(2), FALSE)>>
    /\ kind = "keyboard" => Config(kind) = <<OfInterface(Keyboard), OfEndpoint(In(1), FALSE),
                                             OfInterface(Mouse), OfEndpoint(In(2), FALSE)>>
    /\ kind = "vendor" => Config(kind) = <<OfInterface(Vendor), OfEndpoint(In(1), FALSE)>>
  BY DEF Config, HidConfig

\* Where the walk is.
Place(d, i) == [d |-> d, itf |-> i]

\* The walk goes step by step.
LEMMA Walk ==
    ASSUME NEW d, NEW n \in 2..4, Len(Config(kind)) = n
    PROVE  \E at : /\ at[0] = Place(d, NoInterface)
                   /\ \A k \in 1..n : at[k] = AtDescriptor(at[k-1], Config(kind)[k])
                   /\ HandleConfiguration(d) = at[n].d
<1> DEFINE c == Config(kind)
           s == [d |-> d, itf |-> NoInterface]
           IsWalk(f) == f = [k \in 0..n |-> IF k = 0 THEN s ELSE AtDescriptor(f[k-1], c[k])]
           at == CHOOSE f : IsWalk(f)
<1>1. HandleConfiguration(d) = at[n].d
  BY DEF HandleConfiguration
<1>2. \E f : IsWalk(f)
  <2> DEFINE w1 == AtDescriptor(s, c[1])
             w2 == AtDescriptor(w1, c[2])
             w3 == AtDescriptor(w2, c[3])
             w4 == AtDescriptor(w3, c[4])
             f == [k \in 0..n |-> IF k = 0 THEN s ELSE IF k = 1 THEN w1 ELSE IF k = 2 THEN w2
                                  ELSE IF k = 3 THEN w3 ELSE w4]
             g == [k \in 0..n |-> IF k = 0 THEN s ELSE AtDescriptor(f[k-1], c[k])]
  <2> HIDE DEF c, s
  <2>1. f[0] = s /\ f[1] = w1 /\ f[2] = w2 /\ (3 <= n => f[3] = w3) /\ (4 <= n => f[4] = w4)
    OBVIOUS
  <2>2. ASSUME NEW k \in 0..n PROVE f[k] = g[k]
    <3>1. CASE k = 0
      BY <3>1
    <3>2. CASE k = 1
      BY <3>2
    <3>3. CASE k = 2
      BY <3>3
    <3>4. CASE k = 3
      BY <3>4
    <3>5. CASE k = 4
      BY <3>5
    <3> QED BY <3>1, <3>2, <3>3, <3>4, <3>5
  <2>3. f = g
    BY <2>2
  <2> QED BY <2>3
<1>3. IsWalk(at)
  BY <1>2
<1> HIDE DEF at
<1>4. at[0] = s /\ \A k \in 1..n : at[k] = AtDescriptor(at[k-1], c[k])
  BY <1>3
<1> QED BY <1>1, <1>4 DEF Place

\* An endpoint is opened unless the core has stopped.
Opened(d, e, itf) == IF d.panic THEN d ELSE OpenEndpoint(d, e, itf)

\* One step of the walk.
LEMMA WalkStep ==
    /\ \A d, i, j : AtDescriptor(Place(d, i), OfInterface(j)) = Place(d, j)
    /\ \A d, i, e : e.type = "endpoint" => AtDescriptor(Place(d, i), e) = Place(Opened(d, e, i), i)
    /\ \A a : OfEndpoint(a, TRUE).type = "endpoint" /\ OfEndpoint(a, FALSE).type = "endpoint"
    /\ \A d, i : Place(d, i).d = d
<1>1. ASSUME NEW d, NEW i, NEW j
      PROVE  AtDescriptor(Place(d, i), OfInterface(j)) = Place(d, j)
  BY DEF AtDescriptor, OfInterface, Place
<1>2. ASSUME NEW d, NEW i, NEW e, e.type = "endpoint"
      PROVE  AtDescriptor(Place(d, i), e) = Place(Opened(d, e, i), i)
  BY <1>2 DEF AtDescriptor, Opened, Place
<1>3. \A a : OfEndpoint(a, TRUE).type = "endpoint" /\ OfEndpoint(a, FALSE).type = "endpoint"
  BY DEF OfEndpoint
<1> QED BY <1>1, <1>2, <1>3 DEF Place

\* Which endpoints are opened for which interface.
LEMMA Walked ==
    ASSUME NEW d
    PROVE  /\ kind = "storage" => HandleConfiguration(d) =
                Opened(Opened(d, OfEndpoint(BulkOut, TRUE), Storage), OfEndpoint(In(1), TRUE), Storage)
           /\ kind = "mouse" => HandleConfiguration(d) =
                Opened(Opened(d, OfEndpoint(In(1), FALSE), Mouse), OfEndpoint(In(2), FALSE), Keyboard)
           /\ kind = "keyboard" => HandleConfiguration(d) =
                Opened(Opened(d, OfEndpoint(In(1), FALSE), Keyboard), OfEndpoint(In(2), FALSE), Mouse)
           /\ kind = "vendor" => HandleConfiguration(d) = Opened(d, OfEndpoint(In(1), FALSE), Vendor)
<1> DEFINE c == Config(kind)
           P(at, n) == /\ at[0] = Place(d, NoInterface)
                       /\ \A k \in 1..n : at[k] = AtDescriptor(at[k-1], Config(kind)[k])
                       /\ HandleConfiguration(d) = at[n].d
<1>1. ASSUME NEW i, NEW j, NEW a, NEW b, a.type = "endpoint", b.type = "endpoint",
             c = <<OfInterface(i), a, OfInterface(j), b>>
      PROVE  HandleConfiguration(d) = Opened(Opened(d, a, i), b, j)
  <2>1. /\ Len(c) = 4 /\ c[1] = OfInterface(i) /\ c[2] = a
        /\ c[3] = OfInterface(j) /\ c[4] = b
    BY <1>1
  <2>2. \E at : P(at, 4)
    BY <2>1, Walk
  <2>3. PICK at : P(at, 4)
    BY <2>2
  <2>4. /\ at[1] = AtDescriptor(at[0], c[1]) /\ at[2] = AtDescriptor(at[1], c[2])
        /\ at[3] = AtDescriptor(at[2], c[3]) /\ at[4] = AtDescriptor(at[3], c[4])
    BY <2>3
  <2>5. at[1] = Place(d, i)
    BY <1>1, <2>1, <2>3, <2>4, WalkStep
  <2>6. at[2] = Place(Opened(d, a, i), i)
    BY <1>1, <2>1, <2>4, <2>5, WalkStep
  <2>7. at[3] = Place(Opened(d, a, i), j)
    BY <1>1, <2>1, <2>4, <2>6, WalkStep
  <2>8. at[4] = Place(Opened(Opened(d, a, i), b, j), j)
    BY <1>1, <2>1, <2>4, <2>7, WalkStep
  <2> QED BY <2>3, <2>8, WalkStep
<1>2. ASSUME NEW i, NEW a, NEW b, a.type = "endpoint", b.type = "endpoint",
             c = <<OfInterface(i), a, b>>
      PROVE  HandleConfiguration(d) = Opened(Opened(d, a, i), b, i)
  <2>1. /\ Len(c) = 3 /\ c[1] = OfInterface(i) /\ c[2] = a
        /\ c[3] = b
    BY <1>2
  <2>2. \E at : P(at, 3)
    BY <2>1, Walk
  <2>3. PICK at : P(at, 3)
    BY <2>2
  <2>4. /\ at[1] = AtDescriptor(at[0], c[1]) /\ at[2] = AtDescriptor(at[1], c[2])
        /\ at[3] = AtDescriptor(at[2], c[3])
    BY <2>3
  <2>5. at[1] = Place(d, i)
    BY <1>2, <2>1, <2>3, <2>4, WalkStep
  <2>6. at[2] = Place(Opened(d, a, i), i)
    BY <1>2, <2>1, <2>4, <2>5, WalkStep
  <2>7. at[3] = Place(Opened(Opened(d, a, i), b, i), i)
    BY <1>2, <2>1, <2>4, <2>6, WalkStep
  <2> QED BY <2>3, <2>7, WalkStep
<1>3. ASSUME NEW i, NEW a, a.type = "endpoint", c = <<OfInterface(i), a>>
      PROVE  HandleConfiguration(d) = Opened(d, a, i)
  <2>1. Len(c) = 2 /\ c[1] = OfInterface(i) /\ c[2] = a
    BY <1>3
  <2>2. \E at : P(at, 2)
    BY <2>1, Walk
  <2>3. PICK at : P(at, 2)
    BY <2>2
  <2>4. at[1] = AtDescriptor(at[0], c[1]) /\ at[2] = AtDescriptor(at[1], c[2])
    BY <2>3
  <2>5. at[1] = Place(d, i)
    BY <1>3, <2>1, <2>3, <2>4, WalkStep
  <2>6. at[2] = Place(Opened(d, a, i), i)
    BY <1>3, <2>1, <2>4, <2>5, WalkStep
  <2> QED BY <2>3, <2>6, WalkStep
<1> QED BY <1>1, <1>2, <1>3, ConfigFacts, WalkStep

\* e is c with the owner of a and the driver name entered.
Entered(c, e, a, name) ==
    /\ Held(e) /\ e.eps = c.eps /\ e.next = c.next /\ e.panic = c.panic
    /\ e.msgs = c.msgs /\ e.other = c.other /\ e.writing = c.writing
    /\ e.permit = c.permit /\ e.counted = c.counted
    /\ e.driver = [c.driver EXCEPT ![Idx(a)] = name]
    /\ e.itf = [c.itf EXCEPT ![Idx(a)] = Owner(a)]

\* The interface and the driver of a are entered in the tables.
LEMMA Registers ==
    ASSUME NEW d, Judged(d), NEW a \in Addresses, NEW size \in {1, 2},
           NEW c, OpenedAt(d, c, a, size), c \in MasterSet,
           MemoryGiven(c), NothingOffered(c), OutFits(c), d.eps \in [Addresses -> EndpointSet],
           NEW name \in Names, Owner(a) # NoInterface,
           name = "hid" => Owner(a).class = 3, name = "storage" => Owner(a) = Storage
    PROVE  Entered(c, [c EXCEPT !.itf[Idx(a)] = Owner(a), !.driver[Idx(a)] = name], a, name)
<1> DEFINE e == [c EXCEPT !.itf[Idx(a)] = Owner(a), !.driver[Idx(a)] = name]
           t == [c.itf EXCEPT ![Idx(a)] = Owner(a)]
           r == [c.driver EXCEPT ![Idx(a)] = name]
<1>1. /\ c.itf \in [Indexes -> Interfaces] /\ c.driver \in [Indexes -> Names]
  BY DEF MasterSet
<1>2. Owner(a) \in Interfaces
  BY OwnerFacts
<1>3. /\ t \in [Indexes -> Interfaces] /\ r \in [Indexes -> Names]
      /\ t[Idx(a)] = Owner(a) /\ r[Idx(a)] = name
      /\ \A b \in Addresses : b # a => t[Idx(b)] = c.itf[Idx(b)] /\ r[Idx(b)] = c.driver[Idx(b)]
  BY <1>1, <1>2, IndexOwn
<1>4. e = [[c EXCEPT !.itf = t] EXCEPT !.driver = r]
  BY DEF MasterSet
<1> HIDE DEF t, r
<1>5. /\ e \in MasterSet
      /\ e.eps = c.eps /\ e.next = c.next /\ e.panic = c.panic /\ e.msgs = c.msgs
      /\ e.other = c.other /\ e.writing = c.writing /\ e.permit = c.permit
      /\ e.counted = c.counted /\ e.driver = r /\ e.itf = t
  BY <1>3, <1>4 DEF MasterSet
<1> HIDE DEF e
<1>6. MemoryGiven(e) /\ NothingOffered(e) /\ OutFits(e)
  BY <1>5 DEF MemoryGiven, NothingOffered, OutFits
<1>7. /\ c.driver = d.driver /\ c.itf = d.itf
      /\ \A b \in Addresses : b # a => c.eps[b] = d.eps[b]
  BY DEF OpenedAt
<1>8. Judged(e)
  <2> SUFFICES ASSUME NEW b \in Addresses
               PROVE  /\ e.eps[b].open => Owner(b) # NoInterface /\ e.itf[Idx(b)] = Owner(b)
                      /\ e.driver[Idx(b)] = "hid" => e.itf[Idx(b)] = Owner(b) /\ Owner(b).class = 3
                      /\ e.driver[Idx(b)] = "storage" => e.itf[Idx(b)] = Owner(b) /\ Owner(b) = Storage
    BY DEF Judged
  <2>1. CASE b = a
    BY <2>1, <1>3, <1>5
  <2>2. CASE b # a
    BY <2>2, <1>3, <1>5, <1>7 DEF Judged
  <2> QED BY <2>1, <2>2
<1>9. Held(e)
  BY <1>5, <1>6, <1>8 DEF Held
<1> QED BY <1>5, <1>9 DEF e, t, r, Entered

Blocks(bulk) == IF bulk THEN 2 ELSE 1

\* The driver for an endpoint whose owner has one.
DriverOf(a) == IF Owner(a) = Storage THEN "storage" ELSE "hid"

\* What the buffer of a has after it was opened.
FirstBuf(a) ==
    IF Owner(a) = Storage /\ ~a.in
    THEN [avail |-> TRUE, full |-> FALSE, pid |-> 0, packet |-> NoPacket] ELSE NoBuf

\* Endpoint a is open, has size blocks, a driver, and the slave will know.
NewlyOpen(d, e, a, size) ==
    /\ e.next = d.next + size
    /\ \A b \in Addresses : b # a => e.eps[b] = d.eps[b] /\ e.driver[Idx(b)] = d.driver[Idx(b)]
    /\ e.eps[a].open /\ e.eps[a].buf = FirstBuf(a)
    /\ e.eps[a].pid = (IF Owner(a) = Storage /\ ~a.in THEN 1 ELSE 0)
    /\ e.driver[Idx(a)] = DriverOf(a)
    /\ e.other = (IF Owner(a) = Storage /\ a.in THEN a ELSE d.other)
    /\ e.permit = d.permit /\ e.counted = d.counted /\ e.writing = d.writing
    /\ e.msgs = Append(d.msgs, Message("open", a, NoPacket))

\* All that is sent tells the slave to open an endpoint.
OnlyOpens(d) == \A k \in DOMAIN d.msgs : d.msgs[k].type = "open"

\* OpenEndpoint for an endpoint and its owner: the core stops if the memory is used up
\* or if the owner has no driver.
LEMMA Opens ==
    ASSUME NEW d, Held(d), ~d.panic, NEW a \in Addresses, NEW bulk \in BOOLEAN,
           Owner(a) # NoInterface
    PROVE  LET e == OpenEndpoint(d, OfEndpoint(a, bulk), Owner(a))
           IN  /\ Held(e)
               /\ ~e.panic => NewlyOpen(d, e, a, Blocks(bulk))
               /\ e.panic => d.next + Blocks(bulk) > MemUnits \/ Owner(a).class \notin {3, 8}
               /\ OnlyOpens(d) => OnlyOpens(e)
<1> DEFINE n == Blocks(bulk)
           c == Allocate(d, a, n, n)
           i == Owner(a)
           R(name) == [c EXCEPT !.itf[Idx(a)] = i, !.driver[Idx(a)] = name]
           r == RegisterDriver(c, a, i)
           e == OpenEndpoint(d, OfEndpoint(a, bulk), i)
<1>1. n \in {1, 2}
  BY DEF Blocks
<1>2. EdptOpen(d, OfEndpoint(a, bulk)) = c /\ OfEndpoint(a, bulk).addr = a
  BY DEF EdptOpen, OfEndpoint, Blocks
<1>3. e = IF r.panic THEN r ELSE Send(r, Message("open", a, NoPacket))
  BY <1>2 DEF OpenEndpoint
<1> HIDE DEF n
<1>4. /\ OpenedAt(d, c, a, n)
      /\ c \in MasterSet /\ MemoryGiven(c) /\ NothingOffered(c) /\ OutFits(c)
  BY <1>1, Allocates
<1>5. d \in MasterSet /\ Judged(d) /\ d.eps \in [Addresses -> EndpointSet] /\ d.next \in Nat
  BY DEF Held, MasterSet
<1>6. /\ c.next = d.next + n /\ (c.panic <=> d.next + n > MemUnits)
      /\ c.eps[a].open /\ c.eps[a].pid = 0 /\ c.eps[a].buf = NoBuf
      /\ \A b \in Addresses : b # a => c.eps[b] = d.eps[b]
      /\ c.driver = d.driver /\ c.itf = d.itf /\ c.other = d.other /\ c.writing = d.writing
      /\ c.permit = d.permit /\ c.counted = d.counted /\ c.msgs = d.msgs
  BY <1>4, <1>5 DEF OpenedAt
<1> HIDE DEF c
<1>7. c.driver \in [Indexes -> Names] /\ c.itf \in [Indexes -> Interfaces]
  BY <1>4 DEF MasterSet
\* What the driver's registration leaves.
<1> DEFINE Done(f) ==
             /\ Held(f) /\ f.next = d.next + n
             /\ \A b \in Addresses : b # a => f.eps[b] = d.eps[b] /\ f.driver[Idx(b)] = d.driver[Idx(b)]
             /\ f.eps[a].open /\ f.eps[a].buf = FirstBuf(a)
             /\ f.eps[a].pid = (IF i = Storage /\ ~a.in THEN 1 ELSE 0)
             /\ f.driver[Idx(a)] = DriverOf(a)
             /\ f.other = (IF i = Storage /\ a.in THEN a ELSE d.other)
             /\ f.permit = d.permit /\ f.counted = d.counted /\ f.writing = d.writing
             /\ f.msgs = d.msgs
             /\ f.panic <=> d.next + n > MemUnits
<1>8. ASSUME NEW name \in Names,
             name = "hid" => i.class = 3, name = "storage" => i = Storage
      PROVE  Entered(c, R(name), a, name)
  BY <1>1, <1>4, <1>5, <1>8, Registers
<1> HIDE DEF R
<1>9. ASSUME NEW f, NEW name \in Names, Entered(c, f, a, name)
      PROVE  /\ f.driver[Idx(a)] = name
             /\ \A b \in Addresses : b # a => f.driver[Idx(b)] = d.driver[Idx(b)]
  BY <1>6, <1>7, <1>9, IndexOwn DEF Entered
<1>10. ASSUME i.class = 3 PROVE Done(r)
  <2>1. r = R("hid")
    BY <1>10 DEF RegisterDriver, R
  <2>2. i # Storage
    BY <1>10, InterfaceFacts
  <2>3. Entered(c, r, a, "hid")
    BY <1>8, <1>10, <2>1 DEF Names
  <2> HIDE DEF r
  <2>4. /\ r.driver[Idx(a)] = "hid"
        /\ \A b \in Addresses : b # a => r.driver[Idx(b)] = d.driver[Idx(b)]
    BY <1>9, <2>3 DEF Names
  <2>5. FirstBuf(a) = NoBuf /\ DriverOf(a) = "hid"
    BY <2>2 DEF FirstBuf, DriverOf
  <2> QED BY <1>6, <2>2, <2>3, <2>4, <2>5 DEF Entered
<1>11. ASSUME i = Storage, ~a.in PROVE Done(r)
  <2> DEFINE g == R("storage")
  <2>1. r = Xfer(g, a, NoPacket)
    BY <1>11, InterfaceFacts DEF RegisterDriver, R
  <2>2. Entered(c, g, a, "storage")
    BY <1>8, <1>11, InterfaceFacts DEF Names
  <2> HIDE DEF g
  <2>3. Held(g) /\ g.eps = c.eps /\ g.eps[a].open /\ g.eps[a].pid = 0
    BY <1>6, <2>2 DEF Entered
  <2>4. kind \in Allowed
    BY <1>11, OwnerFacts
  <2>5. Held(r) /\ OfferedAt(g, r, a, NoPacket, 1)
    <3>1. NoPacket \in PacketSet /\ NoPacket.left \in 0..MaxOut
      BY PacketFacts, BoundFacts
    <3> QED BY <2>1, <2>3, <2>4, <3>1, Transfers
  <2> HIDE DEF r
  <2>6. /\ r.driver = g.driver /\ r.other = g.other /\ r.writing = g.writing
        /\ r.next = g.next /\ r.permit = g.permit /\ r.counted = g.counted
        /\ r.panic = g.panic /\ r.msgs = g.msgs
        /\ r.eps = [g.eps EXCEPT ![a].buf = [avail |-> TRUE, full |-> a.in, pid |-> g.eps[a].pid,
                                             packet |-> NoPacket],
                                 ![a].pid = 1]
    BY <2>5 DEF OfferedAt, SameRest
  <2>7. g.eps \in [Addresses -> EndpointSet] /\ r.eps \in [Addresses -> EndpointSet]
    BY <2>3, <2>5 DEF Held, MasterSet
  <2> DEFINE b1 == [avail |-> TRUE, full |-> a.in, pid |-> g.eps[a].pid, packet |-> NoPacket]
  <2>8. b1 = FirstBuf(a)
    <3>1. a.in = FALSE
      BY <1>11, IndexOwn
    <3> QED BY <1>11, <2>3, <3>1 DEF FirstBuf
  <2> HIDE DEF b1
  <2>9. r.eps = [[g.eps EXCEPT ![a].buf = b1] EXCEPT ![a].pid = 1]
    BY <2>6 DEF b1
  <2>10. /\ \A b \in Addresses : b # a => r.eps[b] = g.eps[b]
         /\ r.eps[a].open /\ r.eps[a].buf = b1 /\ r.eps[a].pid = 1
    BY <2>3, <2>7, <2>9 DEF EndpointSet
  <2>11. /\ r.driver[Idx(a)] = "storage"
         /\ \A b \in Addresses : b # a => r.driver[Idx(b)] = d.driver[Idx(b)]
    BY <1>9, <2>2, <2>6 DEF Names
  <2>12. DriverOf(a) = "storage"
    BY <1>11 DEF DriverOf
  <2>13. /\ r.next = d.next + n /\ (r.panic <=> d.next + n > MemUnits)
         /\ r.other = d.other /\ r.msgs = d.msgs
         /\ r.permit = d.permit /\ r.counted = d.counted /\ r.writing = d.writing
         /\ g.eps = c.eps
    BY <1>6, <2>2, <2>6 DEF Entered
  <2>14. \A b \in Addresses : b # a => r.eps[b] = d.eps[b]
    BY <1>6, <2>10, <2>13
  <2> QED BY <1>11, <2>5, <2>8, <2>10, <2>11, <2>12, <2>13, <2>14
<1>12. ASSUME i = Storage, a.in PROVE Done(r)
  <2> DEFINE g == R("storage")
  <2>1. r = [g EXCEPT !.other = a]
    BY <1>12, InterfaceFacts DEF RegisterDriver, R
  <2>2. Entered(c, g, a, "storage")
    BY <1>8, <1>12, InterfaceFacts DEF Names
  <2> HIDE DEF g
  <2>3. g \in MasterSet /\ Held(g)
    BY <2>2 DEF Entered, Held
  <2>4. /\ r \in MasterSet /\ r.eps = g.eps /\ r.next = g.next /\ r.panic = g.panic
        /\ r.msgs = g.msgs /\ r.other = a /\ r.writing = g.writing
        /\ r.permit = g.permit /\ r.counted = g.counted /\ r.driver = g.driver /\ r.itf = g.itf
    BY <2>1, <2>3 DEF MasterSet
  <2> HIDE DEF r
  <2>5. MemoryGiven(r) /\ NothingOffered(r) /\ OutFits(r)
    BY <2>3, <2>4 DEF Held, MemoryGiven, NothingOffered, OutFits
  <2>6. Judged(r)
    BY <2>3, <2>4 DEF Held, Judged
  <2>7. Held(r)
    BY <2>4, <2>5, <2>6 DEF Held
  <2>8. /\ r.driver[Idx(a)] = "storage"
        /\ \A b \in Addresses : b # a => r.driver[Idx(b)] = d.driver[Idx(b)]
    BY <1>9, <2>2, <2>4 DEF Names
  <2>9. FirstBuf(a) = NoBuf /\ DriverOf(a) = "storage"
    BY <1>12 DEF FirstBuf, DriverOf
  <2> QED BY <1>6, <1>12, <2>2, <2>4, <2>7, <2>8, <2>9 DEF Entered
<1>13. ASSUME i.class # 3, i # Storage
       PROVE  Held(r) /\ r.panic /\ i.class \notin {3, 8} /\ r.msgs = d.msgs
  <2> DEFINE g == [c EXCEPT !.itf[Idx(a)] = i]
  <2>1. i = Vendor
    BY <1>13, OwnerFacts, InterfaceFacts DEF Interfaces
  <2>2. r = Panic(g) /\ i.class \notin {3, 8}
    BY <2>1, InterfaceFacts DEF RegisterDriver
  <2>3. d.driver[Idx(a)] = "none"
    <3>1. d.driver[Idx(a)] \in Names
      BY <1>6, <1>7, IndexOwn
    <3> QED BY <1>5, <1>13, <3>1 DEF Judged, Names
  <2>4. g = R("none")
    <3>1. [c.driver EXCEPT ![Idx(a)] = "none"] = c.driver
      BY <1>6, <1>7, <2>3, IndexOwn
    <3>2. R("none") = [g EXCEPT !.driver = [c.driver EXCEPT ![Idx(a)] = "none"]]
      BY <1>4 DEF R, MasterSet
    <3> QED BY <1>4, <3>1, <3>2 DEF MasterSet
  <2>5. Held(g)
    BY <1>8, <2>4 DEF Names, Entered
  <2>6. g.msgs = d.msgs
    BY <1>6, <1>8, <2>4 DEF Names, Entered
  <2> QED BY <2>2, <2>5, <2>6, Panics
<1> HIDE DEF r
<1>14. ASSUME Done(r)
       PROVE  /\ Held(e) /\ (~e.panic => NewlyOpen(d, e, a, n))
              /\ e.panic => d.next + n > MemUnits
              /\ OnlyOpens(d) => OnlyOpens(e)
  <2>1. CASE r.panic
    BY <1>3, <1>14, <2>1 DEF OnlyOpens
  <2>2. CASE ~r.panic
    <3>1. e = Send(r, Message("open", a, NoPacket)) /\ Held(r)
      BY <1>3, <1>14, <2>2
    <3>2. Message("open", a, NoPacket) \in Sent
      BY MessageFacts
    <3> HIDE DEF e
    <3>3. /\ Held(e) /\ SameRest(r, e) /\ e.panic = r.panic /\ e.eps = r.eps
          /\ e.msgs = Append(r.msgs, Message("open", a, NoPacket))
      BY <3>1, <3>2, Sends
    <3>4. e.permit = r.permit /\ e.counted = r.counted
      BY <3>1 DEF Send, Held, MasterSet
    <3>5. NewlyOpen(d, e, a, n)
      BY <1>14, <3>3, <3>4 DEF NewlyOpen, SameRest
    <3>6. d.msgs \in Seq(Sent) /\ e.msgs = Append(d.msgs, Message("open", a, NoPacket))
      BY <1>5, <1>14, <3>3 DEF MasterSet
    <3>7. OnlyOpens(d) => OnlyOpens(e)
      <4>1. Message("open", a, NoPacket).type = "open"
        BY DEF Message
      <4> QED BY <3>6, <4>1 DEF OnlyOpens
    <3> QED BY <2>2, <3>3, <3>5, <3>7
  <2> QED BY <2>1, <2>2
<1>15. CASE Done(r)
  BY <1>14, <1>15 DEF n
<1>16. CASE i.class # 3 /\ i # Storage
  BY <1>3, <1>13, <1>16 DEF OnlyOpens
<1> QED BY <1>10, <1>11, <1>12, <1>15, <1>16

\* Unless the core stops, the endpoint is open.
LEMMA OpenedKeeps ==
    ASSUME NEW d, Held(d), NEW a \in Addresses, NEW bulk \in BOOLEAN, Owner(a) # NoInterface
    PROVE  LET e == Opened(d, OfEndpoint(a, bulk), Owner(a))
           IN  /\ Held(e)
               /\ ~e.panic => ~d.panic /\ NewlyOpen(d, e, a, Blocks(bulk))
               /\ e.panic => \/ d.panic \/ d.next + Blocks(bulk) > MemUnits
                             \/ Owner(a).class \notin {3, 8}
               /\ OnlyOpens(d) => OnlyOpens(e)
<1>1. CASE d.panic
  BY <1>1 DEF Opened
<1>2. CASE ~d.panic
  <2> DEFINE e == OpenEndpoint(d, OfEndpoint(a, bulk), Owner(a))
  <2>1. /\ Held(e) /\ (~e.panic => NewlyOpen(d, e, a, Blocks(bulk)))
        /\ e.panic => d.next + Blocks(bulk) > MemUnits \/ Owner(a).class \notin {3, 8}
        /\ OnlyOpens(d) => OnlyOpens(e)
    BY <1>2, Opens
  <2>2. Opened(d, OfEndpoint(a, bulk), Owner(a)) = e
    BY <1>2 DEF Opened
  <2> HIDE DEF e
  <2> QED BY <1>2, <2>1, <2>2
<1> QED BY <1>1, <1>2

\* The owners of each device.
LEMMA OwnersOf ==
    /\ kind = "storage" => Owner(BulkOut) = Storage /\ Owner(In(1)) = Storage
    /\ kind = "mouse" => Owner(In(1)) = Mouse /\ Owner(In(2)) = Keyboard
    /\ kind = "keyboard" => Owner(In(1)) = Keyboard /\ Owner(In(2)) = Mouse
    /\ kind = "vendor" => Owner(In(1)) = Vendor
    /\ kind # "storage" => Owner(BulkOut) = NoInterface
  BY Addressing DEF Owner

\* Whatever the device says of itself is entered as it says.
LEMMA HandleConfigurationKeeps ==
    ASSUME NEW d, Held(d), kind \in Kinds, OnlyOpens(d)
    PROVE  LET e == HandleConfiguration(d) IN Held(e) /\ Paired(e) /\ OnlyOpens(e)
<1> USE InterfaceFacts
<1>1. \A e : kind # "storage" /\ Held(e) => Paired(e)
  <2> SUFFICES ASSUME NEW e, kind # "storage", Held(e) PROVE Paired(e)
    OBVIOUS
  <2>1. e.driver[Idx(BulkOut)] # "storage"
    BY OwnersOf DEF Held, Judged, Addresses
  <2> QED BY <2>1 DEF Paired
<1>2. CASE kind = "storage"
  <2> DEFINE e == Opened(d, OfEndpoint(BulkOut, TRUE), Storage)
             f == Opened(e, OfEndpoint(In(1), TRUE), Storage)
  <2>1. HandleConfiguration(d) = f
    BY <1>2, Walked
  <2>2. Held(e) /\ OnlyOpens(e)
    BY <1>2, OwnersOf, OpenedKeeps DEF Addresses
  <2> HIDE DEF e
  <2>3. Held(f) /\ OnlyOpens(f) /\ (~f.panic => NewlyOpen(e, f, In(1), Blocks(TRUE)))
    BY <1>2, <2>2, OwnersOf, OpenedKeeps DEF Addresses
  <2> HIDE DEF f
  <2>4. ~f.panic => f.other = In(1)
    BY <1>2, <2>3, OwnersOf, Addressing DEF NewlyOpen
  <2> QED BY <2>1, <2>3, <2>4 DEF Paired
<1>3. CASE kind = "mouse"
  <2> DEFINE e == Opened(d, OfEndpoint(In(1), FALSE), Mouse)
             f == Opened(e, OfEndpoint(In(2), FALSE), Keyboard)
  <2>1. HandleConfiguration(d) = f
    BY <1>3, Walked
  <2>2. Held(e) /\ OnlyOpens(e)
    BY <1>3, OwnersOf, OpenedKeeps DEF Addresses
  <2> HIDE DEF e
  <2>3. Held(f) /\ OnlyOpens(f)
    BY <1>3, <2>2, OwnersOf, OpenedKeeps DEF Addresses
  <2> QED BY <1>1, <1>3, <2>1, <2>3
<1>4. CASE kind = "keyboard"
  <2> DEFINE e == Opened(d, OfEndpoint(In(1), FALSE), Keyboard)
             f == Opened(e, OfEndpoint(In(2), FALSE), Mouse)
  <2>1. HandleConfiguration(d) = f
    BY <1>4, Walked
  <2>2. Held(e) /\ OnlyOpens(e)
    BY <1>4, OwnersOf, OpenedKeeps DEF Addresses
  <2> HIDE DEF e
  <2>3. Held(f) /\ OnlyOpens(f)
    BY <1>4, <2>2, OwnersOf, OpenedKeeps DEF Addresses
  <2> QED BY <1>1, <1>4, <2>1, <2>3
<1>5. CASE kind = "vendor"
  <2> DEFINE f == Opened(d, OfEndpoint(In(1), FALSE), Vendor)
  <2>1. HandleConfiguration(d) = f
    BY <1>5, Walked
  <2>2. Held(f) /\ OnlyOpens(f)
    BY <1>5, OwnersOf, OpenedKeeps DEF Addresses
  <2> QED BY <1>1, <1>5, <2>1, <2>2
<1> QED BY <1>2, <1>3, <1>4, <1>5, DriversAssumption

\* A bus reset closes every endpoint and gives all memory back.
LEMMA BusResets ==
    ASSUME NEW d, Held(d), ~d.panic, Paired(d)
    PROVE  LET e == BusReset(d)
           IN  /\ Held(e) /\ Paired(e) /\ ~e.panic
               /\ e.eps = [a \in Addresses |-> ClosedEndpoint] /\ e.next = 0
               /\ e.driver = d.driver /\ e.other = d.other /\ e.permit = d.permit
               /\ e.counted = d.counted /\ e.writing = d.writing
               /\ e.msgs = Append(d.msgs, Message("reset", In(0), NoPacket))
<1> DEFINE c == [d EXCEPT !.eps = [a \in Addresses |-> ClosedEndpoint], !.next = 0]
           e == Send(c, Message("reset", In(0), NoPacket))
<1>1. BusReset(d) = e
  BY DEF BusReset
<1>2. d \in MasterSet /\ Judged(d)
  BY DEF Held
<1>3. /\ c \in MasterSet /\ c.eps = [a \in Addresses |-> ClosedEndpoint] /\ c.next = 0
      /\ c.driver = d.driver /\ c.itf = d.itf /\ c.other = d.other /\ c.permit = d.permit
      /\ c.counted = d.counted /\ c.writing = d.writing /\ c.msgs = d.msgs /\ c.panic = d.panic
  BY <1>2, PacketFacts DEF MasterSet
<1> HIDE DEF c
<1>4. \A a \in Addresses : ~c.eps[a].open /\ ~c.eps[a].buf.avail /\ c.eps[a].buf.packet.left = 0
  BY <1>3, PacketFacts
<1>5. MemoryGiven(c) /\ NothingOffered(c) /\ OutFits(c)
  BY <1>3, <1>4, BoundFacts DEF MemoryGiven, NothingOffered, OutFits, Addresses
<1>6. Judged(c)
  BY <1>2, <1>3, <1>4 DEF Judged
<1>7. Held(c)
  BY <1>3, <1>5, <1>6 DEF Held
<1>8. /\ Held(e) /\ SameRest(c, e) /\ e.panic = c.panic /\ e.eps = c.eps
      /\ e.msgs = Append(c.msgs, Message("reset", In(0), NoPacket))
  BY <1>7, MessageFacts, Sends
<1>9. e.permit = c.permit /\ e.counted = c.counted
  BY <1>3 DEF Send, MasterSet
<1> HIDE DEF e
<1>10. Paired(e)
  BY <1>3, <1>8, PairKept DEF Paired, SameRest
<1> QED BY <1>1, <1>3, <1>8, <1>9, <1>10 DEF SameRest

-----------------------------------------------------------------------------
(* The steps.                                                              *)

\* What the master holds at the end of a step, without the messages it sends.
LEMMA Enacts ==
    ASSUME NEW d, Held(d), Paired(d), Enact(d), toSlave \in Seq(Sent)
    PROVE  /\ Held(m') /\ Paired(m') /\ m' \in MasterSet /\ m'.msgs = <<>>
           /\ toSlave' \in Seq(Sent) /\ toSlave' = toSlave \o d.msgs
           /\ m'.eps = d.eps /\ m'.driver = d.driver /\ m'.other = d.other /\ m'.next = d.next
           /\ m'.panic = d.panic /\ m'.permit = d.permit /\ m'.counted = d.counted
           /\ m'.writing = d.writing
<1> DEFINE e == [d EXCEPT !.msgs = <<>>]
<1>1. d \in MasterSet /\ MemoryGiven(d) /\ Judged(d) /\ NothingOffered(d) /\ OutFits(d)
  BY DEF Held
<1>2. /\ e.eps = d.eps /\ e.driver = d.driver /\ e.itf = d.itf /\ e.other = d.other
      /\ e.next = d.next /\ e.panic = d.panic /\ e.permit = d.permit /\ e.counted = d.counted
      /\ e.writing = d.writing /\ e.msgs = <<>>
  BY <1>1 DEF MasterSet
<1>3. e \in MasterSet
  <2>1. <<>> \in Seq(Sent)
    OBVIOUS
  <2> QED BY <1>1, <2>1 DEF MasterSet
<1>4. m' = e /\ toSlave' = toSlave \o d.msgs
  BY DEF Enact
<1> HIDE DEF e
<1>5. MemoryGiven(e) /\ NothingOffered(e) /\ OutFits(e)
  BY <1>1, <1>2 DEF MemoryGiven, NothingOffered, OutFits
<1>6. Judged(e)
  BY <1>1, <1>2 DEF Judged
<1>7. Paired(e)
  BY <1>2 DEF Paired
<1>8. Held(e)
  BY <1>3, <1>5, <1>6 DEF Held
<1>9. toSlave' \in Seq(Sent)
  BY <1>1, <1>4 DEF MasterSet
<1> QED BY <1>2, <1>3, <1>4, <1>7, <1>8, <1>9

\* What the master holds does not depend on anything but the device.
LEMMA Later ==
    ASSUME Held(m'), Paired(m'), kind' = kind
    PROVE  Held(m)' /\ Paired(m)'
<1>1. m' \in MasterSet /\ MemoryGiven(m') /\ Judged(m') /\ NothingOffered(m') /\ OutFits(m')
  BY DEF Held
<1>2. \A a : Owner(a)' = Owner(a)
  BY DEF Owner
<1>3. Judged(m)'
  BY <1>1, <1>2 DEF Judged
<1>4. NothingOffered(m)'
  BY <1>1 DEF NothingOffered
<1> QED BY <1>1, <1>3, <1>4 DEF Held, MemoryGiven, OutFits, Paired, MasterSet

\* No request of a forbidden device is asked for or answered with data.
Harmless(x) == x.type # "data" /\ (x.type = "ask" => x.addr = In(1))

\* A step of core 0, which turns m into d and hands over d's messages.
LEMMA CoreStep ==
    ASSUME SafeInv, NEW d, Held(d), Paired(d), Enact(d),
           kind \notin Allowed => \A k \in DOMAIN d.msgs : Harmless(d.msgs[k]),
           kind' = kind, slave' = slave, host' = host,
           turn' \in {"event", "irq"}, reset' \in BOOLEAN, bits' \subseteq bits,
           inbox' = inbox \/ (inbox # <<>> /\ inbox' = Tail(inbox))
    PROVE  SafeInv'
<1>1. Types /\ Held(m) /\ NothingComes
  BY DEF SafeInv
<1>2. /\ Held(m') /\ Paired(m') /\ m' \in MasterSet /\ m'.msgs = <<>>
      /\ toSlave' \in Seq(Sent) /\ toSlave' = toSlave \o d.msgs
  BY <1>1, Enacts DEF Types
<1>3. inbox' \in Seq(Received)
  <2>1. inbox \in Seq(Received)
    BY <1>1 DEF Types
  <2>2. inbox # <<>> => Tail(inbox) \in Seq(Received)
    BY <2>1
  <2> QED BY <2>1, <2>2
<1>4. Types'
  BY <1>1, <1>2, <1>3 DEF Types
<1>5. Held(m)' /\ Paired(m)'
  BY <1>2, Later
<1>6. NothingComes'
  <2> SUFFICES ASSUME kind \notin Allowed PROVE NothingComes'
    BY DEF NothingComes
  <2>1. /\ host.got = 0 /\ bits = {} /\ slave.asked \subseteq {In(1)}
        /\ \A k \in DOMAIN toSlave : Harmless(toSlave[k])
        /\ \A k \in DOMAIN inbox : inbox[k].type = "packet" => inbox[k].addr = In(1)
    BY <1>1 DEF NothingComes, Harmless
  <2>2. d.msgs \in Seq(Sent) /\ toSlave \in Seq(Sent) /\ inbox \in Seq(Received)
    BY <1>1 DEF Held, MasterSet, Types
  <2>3. \A k \in DOMAIN toSlave' : Harmless(toSlave'[k])
    BY <1>2, <2>1, <2>2
  <2>4. \A k \in DOMAIN inbox' : inbox'[k].type = "packet" => inbox'[k].addr = In(1)
    <3>1. CASE inbox' = inbox
      BY <2>1, <3>1
    <3>2. CASE inbox # <<>> /\ inbox' = Tail(inbox)
      BY <2>1, <2>2, <3>2
    <3> QED BY <3>1, <3>2
  <2> QED BY <2>1, <2>3, <2>4 DEF NothingComes, Harmless
<1> QED BY <1>4, <1>5, <1>6 DEF SafeInv

\* Nothing to do.
LEMMA NothingReceivedKeeps ==
    ASSUME SafeInv, NothingReceived
    PROVE  SafeInv'
<1>1. /\ UNCHANGED <<kind, m, reset, bits, inbox, toSlave, slave, host>>
      /\ turn' \in {"event", "irq"}
  BY DEF NothingReceived, SlaveEvent
<1>2. Types'
  BY <1>1 DEF SafeInv, Types
<1>3. Held(m)' /\ Paired(m)'
  BY <1>1, Later DEF SafeInv
<1>4. NothingComes'
  BY <1>1 DEF SafeInv, NothingComes
<1> QED BY <1>2, <1>3, <1>4 DEF SafeInv

\* send_packet_upstream.
LEMMA SendUpstreamKeeps ==
    ASSUME SafeInv, SendUpstream
    PROVE  SafeInv'
<1> DEFINE e == [m EXCEPT !.writing = FALSE]
<1>1. /\ UNCHANGED <<kind, reset, bits, inbox, toSlave, slave, host>>
      /\ turn' \in {"event", "irq"} /\ m' = e
  BY DEF SendUpstream, SlaveEvent
<1>2. /\ Held(e) /\ e.msgs = m.msgs /\ e.panic = m.panic /\ e.driver = m.driver
      /\ e.other = m.other
  BY Writes DEF SafeInv
<1> HIDE DEF e
<1>3. Paired(e)
  BY <1>2 DEF Paired, SafeInv
<1>4. Types'
  BY <1>1, <1>2 DEF SafeInv, Types, Held
<1>5. Held(m)' /\ Paired(m)'
  BY <1>1, <1>2, <1>3, Later
<1>6. NothingComes'
  BY <1>1 DEF SafeInv, NothingComes
<1> QED BY <1>4, <1>5, <1>6 DEF SafeInv

\* A configuration was read.
LEMMA ConfigurationReadKeeps ==
    ASSUME SafeInv, ConfigurationRead
    PROVE  SafeInv'
<1> DEFINE c == [m EXCEPT !.writing = TRUE]
           d == HandleConfiguration(c)
<1>1. Held(c) /\ c.msgs = m.msgs
  BY Writes DEF SafeInv
<1>2. /\ Enact(d) /\ UNCHANGED <<kind, reset, bits, slave, host>>
      /\ turn' \in {"event", "irq"} /\ inbox # <<>> /\ inbox' = Tail(inbox)
  BY DEF ConfigurationRead, Dequeue, SlaveEvent
<1> HIDE DEF c
<1>3. kind \in Kinds /\ m.msgs = <<>> /\ reset \in BOOLEAN
  BY DEF SafeInv, Types
<1>4. Held(d) /\ Paired(d) /\ OnlyOpens(d)
  BY <1>1, <1>3, HandleConfigurationKeeps DEF OnlyOpens
<1> HIDE DEF d
<1>5. \A k \in DOMAIN d.msgs : Harmless(d.msgs[k])
  BY <1>4 DEF OnlyOpens, Harmless
<1> QED BY <1>2, <1>3, <1>4, <1>5, CoreStep

\* A report descriptor was read.
LEMMA ReportReadKeeps ==
    ASSUME SafeInv, ReportRead
    PROVE  SafeInv'
<1> DEFINE c == [m EXCEPT !.writing = TRUE]
           d == Knock(c, In(1))
<1>1. /\ Held(c) /\ c.msgs = m.msgs /\ c.panic = m.panic /\ c.driver = m.driver
      /\ c.other = m.other
  BY Writes DEF SafeInv
<1>2. /\ Enact(d) /\ UNCHANGED <<kind, reset, bits, slave, host>>
      /\ turn' \in {"event", "irq"} /\ inbox # <<>> /\ inbox' = Tail(inbox) /\ ~m.panic
  BY DEF ReportRead, Dequeue, SlaveEvent
<1> HIDE DEF c
<1>3. m.msgs = <<>> /\ reset \in BOOLEAN /\ Paired(c)
  BY <1>1 DEF SafeInv, Types, Paired
<1>4. Held(d) /\ SameRest(c, d) /\ d.msgs = Append(<<>>, Message("ask", In(1), NoPacket))
  BY <1>1, <1>3, Knocks DEF InAddresses
<1> HIDE DEF d
<1>5. Paired(d)
  BY <1>1, <1>2, <1>3, <1>4, PairKept
<1>6. \A k \in DOMAIN d.msgs : Harmless(d.msgs[k])
  BY <1>4 DEF Harmless, Message
<1> QED BY <1>2, <1>3, <1>4, <1>5, <1>6, CoreStep

\* A packet was received.
LEMMA PacketReceivedKeeps ==
    ASSUME SafeInv, PacketReceived
    PROVE  SafeInv'
<1> DEFINE x == Head(inbox)
           d == SlaveData(m, x.addr, x.packet)
<1>1. /\ Enact(d) /\ UNCHANGED <<kind, reset, bits, slave, host>>
      /\ turn' \in {"event", "irq"} /\ inbox # <<>> /\ inbox' = Tail(inbox) /\ ~m.panic
      /\ x.type = "packet"
  BY DEF PacketReceived, Dequeue, SlaveEvent
<1>2. kind \in Kinds /\ m.msgs = <<>> /\ reset \in BOOLEAN /\ inbox \in Seq(Received)
  BY DEF SafeInv, Types
<1>3. x \in Received
  BY <1>1, <1>2
<1>4. x.addr \in Addresses /\ x.packet \in PacketSet
  BY <1>1, <1>3 DEF Received
<1>5. kind \notin Allowed => x.addr = In(1)
  BY <1>1, <1>2 DEF SafeInv, NothingComes
<1> HIDE DEF x
<1>6. /\ Held(d) /\ Paired(d)
      /\ kind \notin Allowed => d.msgs = <<>>
  BY <1>1, <1>2, <1>4, <1>5, SlaveDataKeeps DEF SafeInv
<1> HIDE DEF d
<1>7. kind \notin Allowed => \A k \in DOMAIN d.msgs : Harmless(d.msgs[k])
  BY <1>6
<1> QED BY <1>1, <1>2, <1>6, <1>7, CoreStep

\* One buffer of a poll.
LEMMA HandleKeeps ==
    ASSUME NEW d, Held(d), Paired(d), NEW a \in Addresses, NEW buffers,
           NEW e, e = IF a \in buffers /\ ~d.panic THEN BufferDone(d, a) ELSE d
    PROVE  Held(e) /\ Paired(e) /\ (a \notin buffers => e = d)
<1>1. CASE a \in buffers /\ ~d.panic
  <2>1. Held(BufferDone(d, a)) /\ Paired(BufferDone(d, a))
    BY <1>1, BufferDoneKeeps
  <2> QED BY <1>1, <2>1
<1>2. CASE ~(a \in buffers /\ ~d.panic)
  BY <1>2
<1> QED BY <1>1, <1>2

\* A poll.
LEMMA IrqKeeps ==
    ASSUME SafeInv, Irq
    PROVE  SafeInv'
<1> DEFINE Handle(d, a) == IF a \in Due /\ ~d.panic THEN BufferDone(d, a) ELSE d
           d0 == IF reset THEN BusReset(m) ELSE m
           d1 == Handle(d0, BulkOut)
           d2 == Handle(d1, In(1))
           d3 == Handle(d2, In(2))
<1>1. /\ Enact(d3)
      /\ kind' = kind /\ inbox' = inbox /\ slave' = slave /\ host' = host
      /\ turn' \in {"event", "irq"} /\ reset' \in BOOLEAN /\ bits' \subseteq bits /\ ~m.panic
  BY DEF Irq, PollOf
<1>2. kind \in Kinds /\ m.msgs = <<>> /\ bits \subseteq Addresses
  BY DEF SafeInv, Types
<1>3. Held(d0) /\ Paired(d0) /\ \A k \in DOMAIN d0.msgs : Harmless(d0.msgs[k])
  <2>1. CASE reset
    <3>1. /\ Held(d0) /\ Paired(d0)
          /\ d0.msgs = Append(<<>>, Message("reset", In(0), NoPacket))
      BY <1>1, <1>2, <2>1, BusResets DEF SafeInv
    <3> QED BY <3>1 DEF Harmless, Message
  <2>2. CASE ~reset
    BY <1>2, <2>2 DEF SafeInv
  <2> QED BY <2>1, <2>2
<1> HIDE DEF d0
<1>4. Held(d1) /\ Paired(d1) /\ (BulkOut \notin Due => d1 = d0)
  BY <1>3, HandleKeeps DEF Addresses
<1> HIDE DEF d1
<1>5. Held(d2) /\ Paired(d2) /\ (In(1) \notin Due => d2 = d1)
  BY <1>4, HandleKeeps DEF Addresses
<1> HIDE DEF d2
<1>6. Held(d3) /\ Paired(d3) /\ (In(2) \notin Due => d3 = d2)
  BY <1>5, HandleKeeps DEF Addresses
<1> HIDE DEF d3
<1>7. kind \notin Allowed => \A k \in DOMAIN d3.msgs : Harmless(d3.msgs[k])
  <2> SUFFICES ASSUME kind \notin Allowed
               PROVE  \A k \in DOMAIN d3.msgs : Harmless(d3.msgs[k])
    OBVIOUS
  <2>1. Due = {}
    BY DEF SafeInv, NothingComes, Due
  <2> QED BY <1>3, <1>4, <1>5, <1>6, <2>1
<1> QED BY <1>1, <1>6, <1>7, CoreStep

-----------------------------------------------------------------------------
(* The slave, the device and the host.                                     *)

\* A step of a partner that leaves the master alone.
LEMMA MasterStays ==
    ASSUME SafeInv, m' = m, kind' = kind
    PROVE  Held(m)' /\ Paired(m)'
<1>1. Held(m') /\ Paired(m')
  BY DEF SafeInv
<1> QED BY <1>1, Later

\* The slave takes a message.
LEMMA SlaveTakeKeeps ==
    ASSUME SafeInv, SlaveTake
    PROVE  SafeInv'
<1> DEFINE x == Head(toSlave)
<1>1. /\ UNCHANGED <<kind, m, turn, reset, bits, host>>
      /\ toSlave # <<>> /\ toSlave' = Tail(toSlave)
  BY DEF SlaveTake
<1>2. Types /\ NothingComes
  BY DEF SafeInv
<1>3. x \in Sent /\ toSlave' \in Seq(Sent)
  BY <1>1, <1>2 DEF Types
<1>4. /\ x.packet \in PacketSet /\ x.packet.left \in Nat /\ x.packet.n \in Nat
      /\ x.addr \in MessageAddresses
      /\ x.type \in {"config", "report", "open", "reset", "ask", "data"}
      /\ x.type = "ask" => x.addr \in InAddresses
      /\ x.type = "data" => x.addr = BulkOut /\ x.packet.left \in 0..MaxOut
  BY <1>3 DEF Sent, PacketSet
<1>5. CASE x.type = "data"
  <2>1. /\ inbox' = inbox \o <<Message("packet", x.addr, NoPacket)>>
        /\ slave' = [slave EXCEPT !.asked = {}, !.busy = TRUE, !.left = x.packet.left,
                                  !.data = IF x.packet.len = CommandLength /\ x.packet.left = 0
                                           THEN MaxIn ELSE 0,
                                  !.got = @ + 1, !.last = x.packet.n]
    BY <1>5 DEF SlaveTake
  <2>2. Message("packet", x.addr, NoPacket) \in Received
    BY <1>4, <1>5, PacketFacts DEF Message, Received, MessageAddresses, Addresses
  <2>3. inbox' \in Seq(Received)
    BY <1>2, <2>1, <2>2 DEF Types
  <2>4. slave' \in SlaveSet
    <3>1. slave \in SlaveSet
      BY <1>2 DEF Types
    <3> DEFINE n == IF x.packet.len = CommandLength /\ x.packet.left = 0 THEN MaxIn ELSE 0
    <3>2. n \in 0..MaxIn
      BY BoundFacts
    <3> HIDE DEF n
    <3>3. /\ slave' = [slave EXCEPT !.asked = {}, !.busy = TRUE, !.left = x.packet.left, !.data = n,
                                    !.got = @ + 1, !.last = x.packet.n]
          /\ x.packet.left \in 0..MaxOut /\ x.packet.n \in Nat
      BY <1>4, <1>5, <2>1 DEF n
    <3> HIDE DEF x
    <3> DEFINE s1 == [slave EXCEPT !.asked = {}, !.busy = TRUE, !.left = x.packet.left]
    <3>4. s1 \in SlaveSet
      BY <3>1, <3>3 DEF SlaveSet
    <3>5. slave' = [s1 EXCEPT !.data = n, !.got = @ + 1, !.last = x.packet.n]
      BY <3>1, <3>3 DEF SlaveSet
    <3> HIDE DEF s1
    <3>6. s1.got \in Nat /\ s1.got + 1 \in Nat
      BY <3>4 DEF SlaveSet
    <3> QED BY <3>2, <3>3, <3>4, <3>5, <3>6 DEF SlaveSet
  <2>5. Types'
    BY <1>1, <1>2, <1>3, <2>3, <2>4 DEF Types
  <2>6. NothingComes'
    <3> SUFFICES ASSUME kind \notin Allowed PROVE FALSE
      BY <1>1 DEF NothingComes
    <3>1. toSlave[1].type # "data"
      BY <1>1, <1>2 DEF NothingComes, Types
    <3> QED BY <1>1, <1>2, <1>5, <3>1 DEF Types
  <2> QED BY <1>1, <2>5, <2>6, MasterStays DEF SafeInv
<1>6. CASE x.type = "ask"
  <2>1. inbox' = inbox /\ slave' = [slave EXCEPT !.asked = @ \cup {x.addr}]
    BY <1>2, <1>6 DEF SlaveTake, Types
  <2>2. slave' \in SlaveSet /\ slave'.asked = slave.asked \cup {x.addr}
    BY <1>2, <1>4, <1>6, <2>1 DEF Types, SlaveSet
  <2>3. Types'
    BY <1>1, <1>2, <1>3, <2>1, <2>2 DEF Types
  <2>4. NothingComes'
    <3> SUFFICES ASSUME kind \notin Allowed PROVE NothingComes'
      BY <1>1 DEF NothingComes
    <3>1. x.addr = In(1)
      BY <1>1, <1>2, <1>6 DEF NothingComes, Types
    <3>2. \A k \in DOMAIN toSlave' :
             toSlave'[k].type # "data" /\ (toSlave'[k].type = "ask" => toSlave'[k].addr = In(1))
      BY <1>1, <1>2 DEF NothingComes, Types
    <3> QED BY <1>1, <1>2, <2>1, <2>2, <3>1, <3>2 DEF NothingComes
  <2> QED BY <1>1, <2>3, <2>4, MasterStays DEF SafeInv
<1>7. CASE x.type \notin {"data", "ask"}
  <2>1. slave' = slave /\ (inbox' = inbox \/ (x.type \in {"config", "report"} /\ inbox' = inbox \o <<x>>))
    BY <1>2, <1>7 DEF SlaveTake, Types
  <2>2. x.type \in {"config", "report"} => x \in Received
    BY <1>3 DEF Sent, Received
  <2>3. inbox' \in Seq(Received)
    BY <1>2, <2>1, <2>2 DEF Types
  <2>4. Types'
    BY <1>1, <1>2, <1>3, <2>1, <2>3 DEF Types
  <2>5. NothingComes'
    <3> SUFFICES ASSUME kind \notin Allowed PROVE NothingComes'
      BY <1>1 DEF NothingComes
    <3>1. \A k \in DOMAIN toSlave' :
             toSlave'[k].type # "data" /\ (toSlave'[k].type = "ask" => toSlave'[k].addr = In(1))
      BY <1>1, <1>2 DEF NothingComes, Types
    <3>2. \A k \in DOMAIN inbox' : inbox'[k].type = "packet" => inbox'[k].addr = In(1)
      <4>1. CASE inbox' = inbox
        BY <1>2, <4>1 DEF NothingComes
      <4>2. CASE x.type \in {"config", "report"} /\ inbox' = inbox \o <<x>>
        BY <1>2, <4>2 DEF NothingComes, Types
      <4> QED BY <2>1, <4>1, <4>2
    <3> QED BY <1>1, <1>2, <2>1, <3>1, <3>2 DEF NothingComes
  <2> QED BY <1>1, <2>4, <2>5, MasterStays DEF SafeInv
<1> QED BY <1>5, <1>6, <1>7

\* A packet that an asked endpoint returns.
LEMMA Returns ==
    ASSUME SafeInv, NEW a \in InAddresses, NEW p \in PacketSet, Return(a, p),
           slave' \in SlaveSet, slave'.asked \subseteq slave.asked
    PROVE  SafeInv'
<1>1. /\ UNCHANGED <<kind, m, turn, reset, bits, toSlave, host>>
      /\ a \in slave.asked /\ inbox' = Append(inbox, Message("packet", a, p))
  BY DEF Return
<1>2. Types /\ NothingComes
  BY DEF SafeInv
<1>3. Message("packet", a, p) \in Received
  BY DEF Message, Received, MessageAddresses, InAddresses, Addresses
<1>4. inbox' \in Seq(Received)
  BY <1>1, <1>2, <1>3 DEF Types
<1>5. Types'
  BY <1>1, <1>2, <1>4 DEF Types
<1>6. NothingComes'
  <2> SUFFICES ASSUME kind \notin Allowed PROVE NothingComes'
    BY <1>1 DEF NothingComes
  <2>1. a = In(1)
    BY <1>1, <1>2 DEF NothingComes
  <2>2. Message("packet", a, p).addr = a
    BY DEF Message
  <2>3. \A k \in DOMAIN inbox' : inbox'[k].type = "packet" => inbox'[k].addr = In(1)
    BY <1>1, <1>2, <2>1, <2>2 DEF NothingComes, Types
  <2> QED BY <1>1, <1>2, <2>3 DEF NothingComes
<1> QED BY <1>1, <1>5, <1>6, MasterStays DEF SafeInv

\* Mass storage returns a packet.
LEMMA DeviceReturnKeeps ==
    ASSUME SafeInv, DeviceReturn
    PROVE  SafeInv'
<1>1. PICK over \in BOOLEAN, len \in DataLengths :
        /\ over \/ slave.data > 0
        /\ Return(In(1), Packet(slave.sent + 1, IF over THEN StatusLength ELSE len, IF over THEN 0 ELSE 1))
        /\ slave' = [slave EXCEPT !.asked = {}, !.busy = ~over, !.sent = @ + 1,
                                  !.data = IF over THEN 0 ELSE @ - 1]
  BY DEF DeviceReturn
<1>2. slave \in SlaveSet /\ slave.sent + 1 \in Nat
  BY DEF SafeInv, Types, SlaveSet
<1> DEFINE l == IF over THEN StatusLength ELSE len
           f == IF over THEN 0 ELSE 1
           n == IF over THEN 0 ELSE slave.data - 1
           b == ~over
<1>3. Packet(slave.sent + 1, l, f) \in PacketSet
  BY <1>2 DEF Packet, PacketSet
<1>4. n \in 0..MaxIn
  BY <1>1, <1>2, BoundFacts DEF SlaveSet
<1>5. b \in BOOLEAN
  OBVIOUS
<1>6. slave' = [slave EXCEPT !.asked = {}, !.busy = b, !.sent = @ + 1, !.data = n]
  BY <1>1, <1>2 DEF SlaveSet
<1> HIDE DEF n, b
<1>7. slave' \in SlaveSet /\ slave'.asked = {}
  BY <1>2, <1>4, <1>5, <1>6 DEF SlaveSet
<1> QED BY <1>1, <1>3, <1>7, Returns DEF InAddresses

\* A HID device returns a report.
LEMMA DeviceReportKeeps ==
    ASSUME SafeInv, DeviceReport
    PROVE  SafeInv'
<1>1. PICK a \in Addresses :
        /\ Return(a, Packet(slave.sent + 1, ReportLength, 0))
        /\ slave' = [slave EXCEPT !.asked = @ \ {a}, !.sent = @ + 1]
  BY DEF DeviceReport
<1>2. slave \in SlaveSet /\ slave.sent + 1 \in Nat
  BY DEF SafeInv, Types, SlaveSet
<1>3. a \in InAddresses
  BY <1>1, <1>2 DEF Return, SlaveSet
<1>4. Packet(slave.sent + 1, ReportLength, 0) \in PacketSet
  BY <1>2 DEF Packet, PacketSet
<1>5. slave' \in SlaveSet /\ slave'.asked \subseteq slave.asked
  BY <1>1, <1>2 DEF SlaveSet
<1> QED BY <1>1, <1>3, <1>4, <1>5, Returns

\* A step of the host that leaves the master and the queues alone, but for a control
\* request.
LEMMA HostStep ==
    ASSUME SafeInv, UNCHANGED <<kind, m, turn, bits, inbox, slave>>, reset' \in BOOLEAN,
           toSlave' = toSlave \/ (\E type \in {"config", "report"} :
                                    toSlave' = Append(toSlave, Message(type, In(0), NoPacket))),
           host' \in HostSet, host'.got = host.got
    PROVE  SafeInv'
<1>1. Types /\ NothingComes
  BY DEF SafeInv
<1>2. toSlave' \in Seq(Sent)
  <2>1. toSlave \in Seq(Sent)
    BY <1>1 DEF Types
  <2>2. \A type \in {"config", "report"} : Message(type, In(0), NoPacket) \in Sent
    BY MessageFacts
  <2> QED BY <2>1, <2>2
<1>3. Types'
  BY <1>1, <1>2 DEF Types
<1>4. NothingComes'
  <2> SUFFICES ASSUME kind \notin Allowed PROVE NothingComes'
    BY DEF NothingComes
  <2>1. \A k \in DOMAIN toSlave : Harmless(toSlave[k])
    BY <1>1 DEF NothingComes, Harmless
  <2>2. \A k \in DOMAIN toSlave' : Harmless(toSlave'[k])
    <3>1. CASE toSlave' = toSlave
      BY <2>1, <3>1
    <3>2. ASSUME NEW type \in {"config", "report"},
                 toSlave' = Append(toSlave, Message(type, In(0), NoPacket))
          PROVE  \A k \in DOMAIN toSlave' : Harmless(toSlave'[k])
      <4>1. Harmless(Message(type, In(0), NoPacket))
        BY DEF Harmless, Message
      <4> QED BY <1>1, <2>1, <3>2, <4>1 DEF Types
    <3> QED BY <3>1, <3>2
  <2> QED BY <1>1, <2>2 DEF NothingComes, Harmless
<1> QED BY <1>3, <1>4, MasterStays DEF SafeInv

\* The host reads a descriptor, resets the bus, or configures the device.
LEMMA ControlKeeps ==
    ASSUME SafeInv, ReadConfiguration \/ HostReset \/ Configure \/ ReadReport
    PROVE  SafeInv'
<1>1. host \in HostSet /\ reset \in BOOLEAN
  BY DEF SafeInv, Types
<1>2. CASE ReadConfiguration
  <2>1. /\ UNCHANGED <<kind, m, turn, reset, bits, inbox, slave>>
        /\ toSlave' = Append(toSlave, Message("config", In(0), NoPacket))
        /\ host' = [host EXCEPT !.reads = @ + 1] /\ host.reads < MaxReads
    BY <1>2 DEF ReadConfiguration, Request
  <2>2. host.reads + 1 \in 0..MaxReads
    BY <1>1, <2>1, BoundFacts DEF HostSet
  <2>3. host' \in HostSet /\ host'.got = host.got
    BY <1>1, <2>1, <2>2 DEF HostSet
  <2> QED BY <1>1, <2>1, <2>3, HostStep
<1>3. CASE HostReset
  <2>1. /\ UNCHANGED <<kind, m, turn, bits, inbox, toSlave, slave>> /\ reset' = TRUE
        /\ host' = [host EXCEPT !.resets = @ + 1, !.reads = 0] /\ host.resets < MaxResets
    BY <1>3 DEF HostReset
  <2>2. host.resets + 1 \in 0..MaxResets /\ 0 \in 0..MaxReads
    BY <1>1, <2>1, BoundFacts DEF HostSet
  <2>3. host' \in HostSet /\ host'.got = host.got
    BY <1>1, <2>1, <2>2 DEF HostSet
  <2> QED BY <1>1, <2>1, <2>3, HostStep
<1>4. CASE Configure
  <2>1. /\ UNCHANGED <<kind, m, turn, reset, bits, inbox, toSlave, slave>>
        /\ host' = [host EXCEPT !.stage = "operating"]
    BY <1>4 DEF Configure
  <2>2. host' \in HostSet /\ host'.got = host.got
    BY <1>1, <2>1 DEF HostSet
  <2> QED BY <1>1, <2>1, <2>2, HostStep
<1>5. CASE ReadReport
  <2>1. /\ UNCHANGED <<kind, m, turn, reset, bits, inbox, slave>>
        /\ toSlave' = Append(toSlave, Message("report", In(0), NoPacket))
        /\ host' = [host EXCEPT !.described = TRUE]
    BY <1>5 DEF ReadReport, Request
  <2>2. host' \in HostSet /\ host'.got = host.got
    BY <1>1, <2>1 DEF HostSet
  <2> QED BY <1>1, <2>1, <2>2, HostStep
<1> QED BY <1>2, <1>3, <1>4, <1>5

\* e is d with buffer b at endpoint a.
BufferAt(d, e, a, b) ==
    /\ SameRest(d, e) /\ e.permit = d.permit /\ e.counted = d.counted /\ e.panic = d.panic
    /\ e.msgs = d.msgs
    /\ \A c \in Addresses : c # a => e.eps[c] = d.eps[c]
    /\ e.eps[a].open = d.eps[a].open /\ e.eps[a].pid = d.eps[a].pid /\ e.eps[a].buf = b

\* The host uses a buffer up.
LEMMA BufferUsed ==
    ASSUME NEW d, Held(d), NEW a \in Addresses, NEW b \in BufSet, ~b.avail,
           a = BulkOut => b.packet.left \in 0..MaxOut
    PROVE  /\ Held([d EXCEPT !.eps[a].buf = b])
           /\ BufferAt(d, [d EXCEPT !.eps[a].buf = b], a, b)
<1> DEFINE e == [d EXCEPT !.eps[a].buf = b]
           g == [d.eps EXCEPT ![a].buf = b]
<1>1. d \in MasterSet /\ MemoryGiven(d) /\ Judged(d) /\ NothingOffered(d) /\ OutFits(d)
  BY DEF Held
<1>2. d.eps \in [Addresses -> EndpointSet]
  BY <1>1 DEF MasterSet
<1>3. /\ g \in [Addresses -> EndpointSet]
      /\ \A c \in Addresses : c # a => g[c] = d.eps[c]
      /\ g[a].open = d.eps[a].open /\ g[a].at = d.eps[a].at /\ g[a].size = d.eps[a].size
      /\ g[a].pid = d.eps[a].pid /\ g[a].buf = b
  BY <1>2 DEF EndpointSet
<1>4. e = [d EXCEPT !.eps = g]
  BY <1>1 DEF MasterSet
<1> HIDE DEF g
<1>5. /\ e \in MasterSet /\ e.eps = g
      /\ e.driver = d.driver /\ e.itf = d.itf /\ e.other = d.other /\ e.writing = d.writing
      /\ e.next = d.next /\ e.panic = d.panic /\ e.msgs = d.msgs
      /\ e.permit = d.permit /\ e.counted = d.counted
  BY <1>1, <1>3, <1>4 DEF MasterSet
<1> HIDE DEF e
<1>6. \A c \in Addresses : /\ e.eps[c].open = d.eps[c].open /\ e.eps[c].at = d.eps[c].at
                           /\ e.eps[c].size = d.eps[c].size
  BY <1>3, <1>5
<1>7. MemoryGiven(e)
  BY <1>1, <1>5, <1>6 DEF MemoryGiven
<1>8. Judged(e)
  BY <1>1, <1>5, <1>6 DEF Judged
<1>9. NothingOffered(e)
  BY <1>1, <1>3, <1>5 DEF NothingOffered
<1>10. OutFits(e)
  <2>1. CASE a = BulkOut
    BY <2>1, <1>3, <1>5 DEF OutFits
  <2>2. CASE a # BulkOut
    BY <2>2, <1>1, <1>3, <1>5 DEF OutFits, Addresses
  <2> QED BY <2>1, <2>2
<1>11. Held(e) /\ BufferAt(d, e, a, b)
  BY <1>3, <1>5, <1>7, <1>8, <1>9, <1>10 DEF Held, BufferAt, SameRest
<1> QED BY <1>11 DEF e

\* The host fills the OUT buffer.
LEMMA HostOutKeeps ==
    ASSUME SafeInv, NEW len \in {CommandLength, FullLength}, NEW left \in 0..MaxOut,
           HostOut(len, left), len = CommandLength => host.commands < MaxCommands
    PROVE  SafeInv'
<1> DEFINE p == Packet(host.sent + 1, len, left)
           old == m.eps[BulkOut].buf
           b == [old EXCEPT !.avail = FALSE, !.full = TRUE, !.packet = p]
           c == IF len = CommandLength THEN host.commands + 1 ELSE host.commands
           q == 1 - host.pid[BulkOut]
<1>1. Types /\ Held(m) /\ NothingComes
  BY DEF SafeInv
<1>2. host \in HostSet /\ host.sent + 1 \in Nat /\ m \in MasterSet /\ old \in BufSet
  <2>1. host \in HostSet /\ m \in MasterSet
    BY <1>1 DEF Types
  <2>2. m.eps \in [Addresses -> EndpointSet]
    BY <2>1 DEF MasterSet
  <2>3. old \in BufSet
    BY <2>2 DEF EndpointSet, Addresses
  <2>4. host.sent + 1 \in Nat
    BY <2>1 DEF HostSet
  <2> QED BY <2>1, <2>3, <2>4
<1>3. p \in PacketSet /\ p.left = left
  BY <1>2 DEF Packet, PacketSet
<1> HIDE DEF p
<1>4. b \in BufSet /\ ~b.avail /\ b.packet = p
  BY <1>2, <1>3 DEF BufSet
<1>5. m' = [m EXCEPT !.eps[BulkOut].buf = b]
  BY <1>2 DEF HostOut, MasterSet, p
<1>6. c \in 0..MaxCommands /\ q \in Pid
  BY <1>2, BoundFacts DEF HostSet, Pid, Addresses
<1>7. host' = [host EXCEPT !.sent = @ + 1, !.pid[BulkOut] = q, !.busy = TRUE, !.left = left,
                           !.commands = c]
  BY <1>2 DEF HostOut, HostSet
<1>8. /\ kind' = kind /\ turn' = turn /\ reset' = reset /\ inbox' = inbox /\ toSlave' = toSlave
      /\ slave' = slave /\ bits' = bits \cup {BulkOut} /\ old.avail
  BY DEF HostOut
<1> HIDE DEF b, c, q
<1>9. host' \in HostSet /\ host'.got = host.got
  <2> DEFINE h == [host EXCEPT !.pid = [host.pid EXCEPT ![BulkOut] = q]]
  <2>1. h \in HostSet /\ h.sent = host.sent /\ h.got = host.got
    BY <1>2, <1>6 DEF HostSet
  <2>2. host' = [h EXCEPT !.sent = host.sent + 1, !.busy = TRUE, !.left = left, !.commands = c]
    BY <1>2, <1>7 DEF HostSet
  <2> HIDE DEF h
  <2> QED BY <1>2, <1>6, <2>1, <2>2 DEF HostSet
<1>10. /\ Held(m') /\ BufferAt(m, m', BulkOut, b)
  BY <1>1, <1>3, <1>4, <1>5, BufferUsed DEF Addresses
<1>11. m' \in MasterSet /\ m'.msgs = <<>>
  BY <1>1, <1>10 DEF Held, Types, BufferAt
<1>12. Types'
  BY <1>1, <1>8, <1>9, <1>11 DEF Types, Addresses
<1>13. Paired(m')
  BY <1>10 DEF SafeInv, Paired, BufferAt, SameRest
<1>14. kind \in Allowed
  BY <1>1, <1>8 DEF Held, NothingOffered, Addresses
<1>15. NothingComes'
  BY <1>8, <1>14 DEF NothingComes
<1> QED BY <1>8, <1>10, <1>12, <1>13, <1>15, Later DEF SafeInv

\* The host reads an IN buffer.
LEMMA HostInKeeps ==
    ASSUME SafeInv, HostIn
    PROVE  SafeInv'
<1>1. Types /\ Held(m) /\ NothingComes
  BY DEF SafeInv
<1>2. PICK a \in Addresses :
        LET buf == m.eps[a].buf
        IN  /\ a.in /\ buf.avail
            /\ m' = [m EXCEPT !.eps[a].buf = [@ EXCEPT !.avail = FALSE, !.full = FALSE]]
            /\ bits' = bits \cup {a}
            /\ host' = IF buf.pid # host.pid[a] THEN host
                       ELSE [host EXCEPT !.pid[a] = 1 - @, !.got = @ + 1, !.last = buf.packet.n,
                                         !.busy = @ /\ buf.packet.left > 0]
            /\ UNCHANGED <<kind, turn, reset, inbox, toSlave, slave>>
  BY DEF HostIn
<1> DEFINE old == m.eps[a].buf
           b == [old EXCEPT !.avail = FALSE, !.full = FALSE]
           q == 1 - host.pid[a]
           y == host.busy /\ old.packet.left > 0
<1>3. host \in HostSet /\ host.got + 1 \in Nat /\ m \in MasterSet /\ old \in BufSet
  <2>1. host \in HostSet /\ m \in MasterSet
    BY <1>1 DEF Types
  <2>2. m.eps \in [Addresses -> EndpointSet]
    BY <2>1 DEF MasterSet
  <2>3. old \in BufSet
    BY <2>2 DEF EndpointSet
  <2>4. host.got + 1 \in Nat
    BY <2>1 DEF HostSet
  <2> QED BY <2>1, <2>3, <2>4
<1>4. b \in BufSet /\ ~b.avail /\ old.packet.n \in Nat
  BY <1>3 DEF BufSet, PacketSet
<1>5. m' = [m EXCEPT !.eps[a].buf = b]
  BY <1>2, <1>3 DEF MasterSet
<1>6. q \in Pid
  BY <1>3 DEF HostSet, Pid
<1>7. y \in BOOLEAN
  BY <1>3 DEF HostSet
<1>8. /\ kind' = kind /\ turn' = turn /\ reset' = reset /\ inbox' = inbox /\ toSlave' = toSlave
      /\ slave' = slave /\ bits' = bits \cup {a} /\ old.avail /\ a # BulkOut
  BY <1>2, Addressing
<1>9. \/ host' = host
      \/ host' = [host EXCEPT !.pid[a] = q, !.got = @ + 1, !.last = old.packet.n, !.busy = y]
  BY <1>2, <1>3 DEF HostSet
<1> HIDE DEF b, q, y
<1>10. host' \in HostSet
  <2>1. CASE host' = host
    BY <1>3, <2>1
  <2>2. CASE host' = [host EXCEPT !.pid[a] = q, !.got = @ + 1, !.last = old.packet.n, !.busy = y]
    <3> DEFINE h == [host EXCEPT !.pid = [host.pid EXCEPT ![a] = q]]
    <3>1. h \in HostSet /\ h.got = host.got
      BY <1>3, <1>6 DEF HostSet
    <3>2. host' = [h EXCEPT !.got = host.got + 1, !.last = old.packet.n, !.busy = y]
      BY <1>3, <2>2 DEF HostSet
    <3> HIDE DEF h
    <3> QED BY <1>3, <1>4, <1>7, <3>1, <3>2 DEF HostSet
  <2> QED BY <1>9, <2>1, <2>2
<1>11. Held(m') /\ BufferAt(m, m', a, b)
  BY <1>1, <1>4, <1>5, <1>8, BufferUsed
<1>12. m' \in MasterSet /\ m'.msgs = <<>>
  BY <1>1, <1>11 DEF Held, Types, BufferAt
<1>13. Types'
  BY <1>1, <1>8, <1>10, <1>12 DEF Types
<1>14. Paired(m')
  BY <1>11 DEF SafeInv, Paired, BufferAt, SameRest
<1>15. kind \in Allowed
  BY <1>1, <1>8 DEF Held, NothingOffered
<1>16. NothingComes'
  BY <1>8, <1>15 DEF NothingComes
<1> QED BY <1>8, <1>11, <1>13, <1>14, <1>16, Later DEF SafeInv

-----------------------------------------------------------------------------
(* The invariant and what it implies.                                      *)

\* In the beginning nothing is open and nothing is on its way.
LEMMA Initially ==
    ASSUME Init
    PROVE  SafeInv
<1>1. /\ m.eps = [a \in Addresses |-> ClosedEndpoint] /\ m.next = 0
      /\ m.driver = [i \in Indexes |-> "none"] /\ m.itf = [i \in Indexes |-> NoInterface]
      /\ m.msgs = <<>> /\ ~m.panic
  BY DEF Init
<1>2. m \in MasterSet
  <2>1. <<>> \in Seq(Sent)
    OBVIOUS
  <2> QED BY <2>1, PacketFacts DEF Init, MasterSet, Names, Interfaces
<1>3. slave \in SlaveSet /\ host \in HostSet
  BY BoundFacts DEF Init, SlaveSet, HostSet, Pid
<1>4. Types
  <2>1. <<>> \in Seq(Sent) /\ <<>> \in Seq(Received)
    OBVIOUS
  <2>2. /\ kind \in Kinds /\ turn = "event" /\ reset = FALSE /\ bits = {}
        /\ inbox = <<>> /\ toSlave = <<>>
    BY DEF Init
  <2> QED BY <1>1, <1>2, <1>3, <2>1, <2>2 DEF Types
<1>5. \A a \in Addresses : /\ ~m.eps[a].open /\ ~m.eps[a].buf.avail
                           /\ m.eps[a].buf.packet.left = 0 /\ m.driver[Idx(a)] = "none"
  BY <1>1, PacketFacts, IndexOwn
<1>6. MemoryGiven(m) /\ NothingOffered(m) /\ OutFits(m)
  BY <1>1, <1>5, BoundFacts DEF MemoryGiven, NothingOffered, OutFits, Addresses
<1>7. Judged(m)
  BY <1>5 DEF Judged
<1>8. Paired(m)
  BY <1>5 DEF Paired, Addresses
<1>9. NothingComes
  BY DEF Init, NothingComes
<1> QED BY <1>2, <1>4, <1>6, <1>7, <1>8, <1>9 DEF SafeInv, Held

\* Every step keeps the invariant.
LEMMA Stepwise ==
    ASSUME SafeInv, [Next]_vars
    PROVE  SafeInv'
<1>1. CASE NothingReceived
  BY <1>1, NothingReceivedKeeps
<1>2. CASE SendUpstream
  BY <1>2, SendUpstreamKeeps
<1>3. CASE ConfigurationRead
  BY <1>3, ConfigurationReadKeeps
<1>4. CASE ReportRead
  BY <1>4, ReportReadKeeps
<1>5. CASE PacketReceived
  BY <1>5, PacketReceivedKeeps
<1>6. CASE Irq
  BY <1>6, IrqKeeps
<1>7. CASE SlaveTake
  BY <1>7, SlaveTakeKeeps
<1>8. CASE DeviceReturn
  BY <1>8, DeviceReturnKeeps
<1>9. CASE DeviceReport
  BY <1>9, DeviceReportKeeps
<1>10. CASE ReadConfiguration \/ HostReset \/ Configure \/ ReadReport
  BY <1>10, ControlKeeps
<1>11. CASE HostCommand
  <2>1. PICK left \in 0..MaxOut : HostOut(CommandLength, left)
    BY <1>11 DEF HostCommand
  <2> QED BY <1>11, <2>1, HostOutKeeps DEF HostCommand
<1>12. CASE HostData
  <2>1. host.left - 1 \in 0..MaxOut /\ HostOut(FullLength, host.left - 1)
    BY <1>12, BoundFacts DEF HostData, SafeInv, Types, HostSet
  <2>2. FullLength # CommandLength
    BY DEF FullLength, CommandLength
  <2> QED BY <2>1, <2>2, HostOutKeeps
<1>13. CASE HostIn
  BY <1>13, HostInKeeps
<1>14. CASE UNCHANGED vars
  <2>1. UNCHANGED <<kind, m, turn, reset, bits, inbox, toSlave, slave, host>>
    BY <1>14 DEF vars
  <2>2. Types' /\ NothingComes'
    BY <2>1 DEF SafeInv, Types, NothingComes
  <2> QED BY <2>1, <2>2, MasterStays DEF SafeInv
<1> QED BY <1>1, <1>2, <1>3, <1>4, <1>5, <1>6, <1>7, <1>8, <1>9, <1>10, <1>11, <1>12, <1>13,
           <1>14 DEF Next, Core0, Host

\* The invariant.
THEOREM Invariance == Spec => []SafeInv
<1>1. Init => SafeInv
  BY Initially
<1>2. SafeInv /\ [Next]_vars => SafeInv'
  BY Stepwise
<1> QED BY <1>1, <1>2, PTL DEF Spec

\* Every variable has its type, for every size and every number of readings, resets,
\* commands and reports.
THEOREM TypeCorrect == Spec => []TypeOK
<1>1. SafeInv => TypeOK
  <2> SUFFICES ASSUME SafeInv PROVE TypeOK
    OBVIOUS
  <2>1. Types /\ Held(m)
    BY DEF SafeInv
  <2>2. kind \in Kinds /\ turn \in {"event", "irq"} /\ bits \subseteq Addresses /\ m.msgs = <<>>
    BY <2>1 DEF Types
  <2>3. \A a \in Addresses :
           m.eps[a] \in [open : BOOLEAN, at : Nat, size : 0..2, pid : Pid,
                         buf : [avail : BOOLEAN, full : BOOLEAN, pid : Pid, packet : PacketSet]]
    BY <2>1 DEF Held, MasterSet, EndpointSet, BufSet
  <2>4. /\ m.next \in Nat /\ m.other \in Addresses \cup {Address(0, FALSE)}
        /\ m.driver \in [Indexes -> {"none", "hid", "storage"}]
        /\ m.itf \in [Indexes -> {NoInterface, Storage, Mouse, Keyboard, Vendor}]
    BY <2>1 DEF Held, MasterSet, Names, Interfaces
  <2>5. {m.permit, m.counted, m.writing, m.panic, reset} \subseteq BOOLEAN
    BY <2>1 DEF Held, MasterSet, Types
  <2>6. \A x \in ToSet(inbox) : x.type \in {"config", "report", "packet"} /\ x.packet \in PacketSet
    BY <2>1 DEF Types, Received, ToSet
  <2>7. \A x \in ToSet(toSlave) :
           /\ x.type \in {"config", "report", "open", "reset", "ask", "data"}
           /\ x.packet \in PacketSet
    BY <2>1 DEF Types, Sent, ToSet
  <2>8. slave \in [asked : SUBSET Addresses, busy : BOOLEAN, left : 0..MaxOut, data : 0..MaxIn,
                   sent : Nat, got : Nat, last : Nat]
    BY <2>1 DEF Types, SlaveSet, InAddresses, Addresses
  <2>9. host \in [stage : {"enumerating", "operating"}, reads : 0..MaxReads, resets : 0..MaxResets,
                  described : BOOLEAN, commands : 0..MaxCommands, busy : BOOLEAN, left : 0..MaxOut,
                  pid : [Addresses -> Pid], sent : Nat, got : Nat, last : Nat]
    BY <2>1 DEF Types, HostSet
  <2> QED BY <2>2, <2>3, <2>4, <2>5, <2>6, <2>7, <2>8, <2>9 DEF TypeOK
<1> QED BY <1>1, Invariance, PTL

\* The packet memory of two open endpoints does not overlap and is there, in any size
\* of the memory and after any number of readings and resets (dcd_rp2040.c:70).
THEOREM MemoryNeverShared == Spec => []MemoryDisjoint
<1>1. SafeInv => MemoryDisjoint
  <2> SUFFICES ASSUME SafeInv, NEW a \in Addresses, NEW b \in Addresses,
                      m.eps[a].open, m.eps[b].open, a # b, ~m.panic
               PROVE  /\ \/ m.eps[a].at + m.eps[a].size <= m.eps[b].at
                         \/ m.eps[b].at + m.eps[b].size <= m.eps[a].at
                      /\ m.eps[a].at + m.eps[a].size <= MemUnits
    BY DEF MemoryDisjoint
  <2>1. /\ m.next <= MemUnits /\ m.eps[a].at + m.eps[a].size <= m.next
        /\ \/ m.eps[a].at + m.eps[a].size <= m.eps[b].at
           \/ m.eps[b].at + m.eps[b].size <= m.eps[a].at
    BY DEF SafeInv, Held, MemoryGiven
  <2>2. m.next \in Nat /\ m.eps[a].at \in Nat /\ m.eps[a].size \in Nat
    BY DEF SafeInv, Held, MasterSet, EndpointSet
  <2> QED BY <2>1, <2>2, BoundFacts
<1> QED BY <1>1, Invariance, PTL

\* Every open endpoint is judged by the interface that stands before it in the
\* configuration, also when a configuration is read again (device_event_handlers.c:163).
THEOREM AlwaysJudgedByOwner == Spec => []JudgedByOwner
<1>1. SafeInv => JudgedByOwner
  <2> SUFFICES ASSUME SafeInv, NEW i \in DOMAIN Config(kind), NEW j \in DOMAIN Config(kind),
                      i < j, Config(kind)[i].type = "interface", Config(kind)[j].type = "endpoint",
                      \A k \in i+1..j : Config(kind)[k].type = "endpoint",
                      m.eps[Config(kind)[j].addr].open
               PROVE  m.itf[Idx(Config(kind)[j].addr)] = Config(kind)[i].itf
    BY DEF JudgedByOwner
  <2> DEFINE a == Config(kind)[j].addr
  <2>1. ASSUME a \in Addresses, Owner(a) = Config(kind)[i].itf
        PROVE  m.itf[Idx(a)] = Config(kind)[i].itf
    BY <2>1 DEF SafeInv, Held, Judged
  <2>2. kind \in {"storage", "mouse", "keyboard", "vendor"}
    BY DriversAssumption DEF SafeInv, Types
  <2>3. a \in Addresses /\ Owner(a) = Config(kind)[i].itf
    <3> DEFINE c == Config(kind)
    <3>1. /\ \A x : OfInterface(x).type = "interface" /\ OfInterface(x).itf = x
          /\ \A b : /\ OfEndpoint(b, TRUE).type = "endpoint" /\ OfEndpoint(b, TRUE).addr = b
                   /\ OfEndpoint(b, FALSE).type = "endpoint" /\ OfEndpoint(b, FALSE).addr = b
      BY DEF OfInterface, OfEndpoint
    <3>2. ASSUME NEW x, NEW e, NEW f, Owner(e.addr) = x, Owner(f.addr) = x,
                 e.addr \in Addresses, f.addr \in Addresses,
                 e.type = "endpoint", f.type = "endpoint", c = <<OfInterface(x), e, f>>
          PROVE  a \in Addresses /\ Owner(a) = c[i].itf
      <4>1. DOMAIN c = 1..3 /\ c[1] = OfInterface(x) /\ c[2] = e /\ c[3] = f
        BY <3>2
      <4>2. i = 1 /\ j \in {2, 3}
        BY <3>1, <3>2, <4>1
      <4> QED BY <3>1, <3>2, <4>1, <4>2
    <3>3. ASSUME NEW x, NEW y, NEW e, NEW f, Owner(e.addr) = x, Owner(f.addr) = y,
                 e.addr \in Addresses, f.addr \in Addresses,
                 e.type = "endpoint", f.type = "endpoint",
                 c = <<OfInterface(x), e, OfInterface(y), f>>
          PROVE  a \in Addresses /\ Owner(a) = c[i].itf
      <4>1. /\ DOMAIN c = 1..4 /\ c[1] = OfInterface(x) /\ c[2] = e
            /\ c[3] = OfInterface(y) /\ c[4] = f
        BY <3>3
      <4>2. i \in {1, 3} /\ j \in {2, 4}
        BY <3>1, <3>3, <4>1
      <4>3. i = 1 /\ j = 4 => 3 \in i+1..j
        OBVIOUS
      <4>4. \/ i = 1 /\ j = 2
            \/ i = 3 /\ j = 4
        BY <3>1, <4>1, <4>2, <4>3
      <4> QED BY <3>1, <3>3, <4>1, <4>4
    <3>4. ASSUME NEW x, NEW e, Owner(e.addr) = x, e.addr \in Addresses, e.type = "endpoint",
                 c = <<OfInterface(x), e>>
          PROVE  a \in Addresses /\ Owner(a) = c[i].itf
      <4>1. DOMAIN c = 1..2 /\ c[1] = OfInterface(x) /\ c[2] = e
        BY <3>4
      <4>2. i = 1 /\ j = 2
        BY <3>1, <3>4, <4>1
      <4> QED BY <3>1, <3>4, <4>1, <4>2
    <3>5. BulkOut \in Addresses /\ In(1) \in Addresses /\ In(2) \in Addresses
      BY DEF Addresses
    <3>6. CASE kind = "storage"
      <4> DEFINE e == OfEndpoint(BulkOut, TRUE)
                 f == OfEndpoint(In(1), TRUE)
      <4>1. /\ e.addr = BulkOut /\ f.addr = In(1) /\ e.type = "endpoint" /\ f.type = "endpoint"
            /\ c = <<OfInterface(Storage), e, f>>
        BY <3>1, <3>6, ConfigFacts
      <4> HIDE DEF e, f
      <4> QED BY <3>2, <3>5, <3>6, <4>1, OwnersOf
    <3>7. CASE kind = "mouse" \/ kind = "keyboard"
      <4> DEFINE e == OfEndpoint(In(1), FALSE)
                 f == OfEndpoint(In(2), FALSE)
      <4>1. /\ e.addr = In(1) /\ f.addr = In(2) /\ e.type = "endpoint" /\ f.type = "endpoint"
            /\ \/ kind = "mouse" /\ c = <<OfInterface(Mouse), e, OfInterface(Keyboard), f>>
               \/ kind = "keyboard" /\ c = <<OfInterface(Keyboard), e, OfInterface(Mouse), f>>
        BY <3>1, <3>7, ConfigFacts
      <4> HIDE DEF e, f
      <4> QED BY <3>3, <3>5, <4>1, OwnersOf
    <3>8. CASE kind = "vendor"
      <4> DEFINE e == OfEndpoint(In(1), FALSE)
      <4>1. e.addr = In(1) /\ e.type = "endpoint" /\ c = <<OfInterface(Vendor), e>>
        BY <3>1, <3>8, ConfigFacts
      <4> HIDE DEF e
      <4> QED BY <3>4, <3>5, <3>8, <4>1, OwnersOf
    <3> QED BY <2>2, <3>6, <3>7, <3>8
  <2> QED BY <2>1, <2>3
<1> QED BY <1>1, Invariance, PTL

\* Nothing a keyboard or an unknown device says reaches the host or lies in a buffer the
\* host could read, however often it is asked, reset or configured (validator.c:14).
THEOREM ForbiddenNeverPass == Spec => []NothingForbidden
<1>1. SafeInv => NothingForbidden
  BY DEF SafeInv, Held, NothingOffered, NothingComes, NothingForbidden
<1> QED BY <1>1, Invariance, PTL

=============================================================================
