------------------------ MODULE HostEndpointsProofs ------------------------
(***************************************************************************)
(* What holds of HostEndpoints for every pool of at most 255 slots, every  *)
(* device and every setting of Apart, Paced and ShortReports: types, and   *)
(* where the endpoints are.  SlotInv says that the descriptors come in the *)
(* inbox in pairs (PairInv), that slots are taken one after the other and  *)
(* by the two endpoints in turn, and the last slot by whichever was opened *)
(* last once the pool is full (Taken), and that a device the drivers have  *)
(* configured is being told of its endpoints (Told).                       *)
(*                                                                         *)
(* A poll goes through all slots (Handled).  What each step of it keeps,   *)
(* the whole poll keeps, by the principle of the least element (Least).    *)
(***************************************************************************)
EXTENDS HostEndpoints, SequenceTheorems, WellFoundedInduction, TLAPS

USE HostEndpointsAssumption

-----------------------------------------------------------------------------
(* Induction over the slots of the pool.                                   *)

\* Every set of naturals that is not empty has a least element.
LEMMA Least ==
    ASSUME NEW S, S \subseteq Nat, S # {}
    PROVE  \E n \in S : \A m \in S : n <= m
<1> DEFINE R == {ss \in Nat \X Nat : ss[1] < ss[2]}
<1>1. IsWellFoundedOn(R, Nat)
  BY NatLessThanWellFounded DEF OpToRel
<1>2. \A x, y \in Nat : x < y => <<x, y>> \in R
  <2> TAKE x, y \in Nat
  <2> DEFINE q == <<x, y>>
  <2>1. q \in Nat \X Nat /\ q[1] = x /\ q[2] = y
    OBVIOUS
  <2> HIDE DEF q
  <2>2. x < y => q \in R
    BY <2>1
  <2> QED BY <2>2 DEF q
<1> HIDE DEF R
<1>3. PICK n \in S : \A m \in S : ~ (<<m, n>> \in R)
  BY <1>1, WFMin
<1>4. \A m \in S : n <= m
  <2> SUFFICES ASSUME NEW m \in S, ~(n <= m) PROVE FALSE
    OBVIOUS
  <2>1. m \in Nat /\ n \in Nat
    OBVIOUS
  <2>2. m < n
    BY <2>1
  <2>3. <<m, n>> \in R
    BY <1>2, <2>1, <2>2
  <2> QED BY <1>3, <2>3
<1> QED BY <1>3, <1>4

\* A set that has 0 and with each number below n the next one has all up to n.
LEMMA Climbing ==
    ASSUME NEW n \in Nat, NEW S, 0 \in S, \A i \in 0..(n-1) : i \in S => i + 1 \in S
    PROVE  0..n \subseteq S
<1> SUFFICES ASSUME (0..n) \ S # {} PROVE FALSE
  OBVIOUS
<1>1. (0..n) \ S \subseteq Nat
  OBVIOUS
<1>2. PICK i \in (0..n) \ S : \A j \in (0..n) \ S : i <= j
  BY <1>1, Least
<1>3. i # 0 /\ i - 1 \in 0..(n-1) /\ i - 1 \in S
  BY <1>2
<1>4. (i - 1) + 1 = i
  BY <1>2
<1> QED BY <1>2, <1>3, <1>4

\* The poll handles the slots one after the other.
LEMMA Handling ==
    ASSUME NEW d
    PROVE  /\ Handled(d)[0] = EpxBit(d)
           /\ \A i \in 1..Slots : Handled(d)[i] = SlotBit(Handled(d)[i-1], i)
<1> DEFINE Upto(g, n) == [i \in 0..n |-> IF i = 0 THEN EpxBit(d) ELSE SlotBit(g[i-1], i)]
           S == {n \in 0..Slots : \E g : g = Upto(g, n)}
<1>1. 0 \in S
  <2>1. [i \in 0..0 |-> EpxBit(d)] = Upto([i \in 0..0 |-> EpxBit(d)], 0)
    OBVIOUS
  <2>2. \E g : g = Upto(g, 0)
    BY <2>1
  <2> QED BY <2>2
<1>2. ASSUME NEW n \in 0..(Slots-1), n \in S PROVE n + 1 \in S
  <2>1. PICK g : g = Upto(g, n)
    BY <1>2
  <2> DEFINE h == [i \in 0..(n+1) |-> IF i <= n THEN g[i] ELSE SlotBit(g[n], n+1)]
  <2>2. h = Upto(h, n+1)
    <3>1. ASSUME NEW i \in 0..(n+1)
          PROVE  h[i] = IF i = 0 THEN EpxBit(d) ELSE SlotBit(h[i-1], i)
      <4>1. CASE i = 0
        BY <2>1, <4>1
      <4>2. CASE i # 0 /\ i <= n
        BY <2>1, <4>2
      <4>3. CASE i = n + 1
        BY <4>3
      <4> QED BY <4>1, <4>2, <4>3
    <3> QED BY <3>1
  <2> HIDE DEF h
  <2>3. \E f : f = Upto(f, n+1)
    BY <2>2
  <2> QED BY <2>3
<1>3. Slots \in S
  <2> HIDE DEF S
  <2>1. 0..Slots \subseteq S
    BY <1>1, <1>2, Climbing
  <2> QED BY <2>1
<1>4. PICK g : g = Upto(g, Slots)
  BY <1>3
<1>5. Handled(d) = CHOOSE f : f = Upto(f, Slots)
  BY DEF Handled, Then
<1>6. Handled(d) = Upto(Handled(d), Slots)
  BY <1>4, <1>5
<1> QED BY <1>6

-----------------------------------------------------------------------------
(* Types.                                                                  *)

EpSet == [addr : Addresses, pid : Pid, mps : Nat, conf : BOOLEAN,
          inum : 0..(Slots - 1) \cup {NotInterrupt}, rem : Nat, xfer : Nat, user : BOOLEAN]
BufSet == [avail : BOOLEAN, len : Nat, pid : Pid, full : BOOLEAN, last : BOOLEAN,
           src : Addresses]
PacketSet == [addr : Addresses, len : Nat, last : BOOLEAN, src : Addresses]
TransSet == [kind : {"none", "setup", "in", "out"}, num : 0..2]
DrvSet == [pool : [0..Slots -> EpSet], active : 0..Slots, level : 0..3, reads : BOOLEAN,
           bugger : Addresses, sie : {"base", "setup", "in", "out"}, trans : TransSet,
           bufs : [0..Slots -> BufSet], out : Seq(PacketSet), panic : BOOLEAN]
DescSet == [addr : Addresses, bulk : BOOLEAN, mps : Nat \ {0}]
MessageSet == [type : {"open"}, desc : DescSet] \cup [type : {"setup"}, reads : BOOLEAN]
              \cup [type : {"data"}, addr : Addresses, len : Nat]
DevSet == [stage : {"idle", "data", "status", "ack"}, pid : [Addresses -> Pid],
           busy : BOOLEAN, left : Int]
DriversSet == [control : BOOLEAN, configured : BOOLEAN, phase : {"idle", "sent", "asked"},
               want : SUBSET Addresses]

\* As TypeOK, with sequences, and with left an integer.
Types ==
    /\ device \in Devices
    /\ drv \in DrvSet /\ drv.out = <<>>
    /\ bits \subseteq 0..Slots /\ transDone \in BOOLEAN
    /\ inbox \in Seq(MessageSet) /\ outbox \in Seq(PacketSet)
    /\ dev \in DevSet /\ drivers \in DriversSet

\* The slots of the pool besides EPX have the endpoints they had.
SameSlots(d, e) ==
    \A i \in 1..Slots :
        /\ e.pool[i].addr = d.pool[i].addr /\ e.pool[i].mps = d.pool[i].mps
        /\ e.pool[i].inum = d.pool[i].inum /\ e.pool[i].conf = d.pool[i].conf

\* The addresses there are.
LEMMA Addressing ==
    /\ Control(TRUE) \in Addresses /\ Control(FALSE) \in Addresses
    /\ BulkOut \in Addresses /\ BulkIn \in Addresses
    /\ Address(1, TRUE) \in Addresses /\ Address(2, TRUE) \in Addresses
    /\ \A a \in Addresses : a.num \in 0..2 /\ a.in \in BOOLEAN
    /\ \A a \in Addresses : a.num = 0 => a \in {Control(TRUE), Control(FALSE)}
    /\ Control(TRUE).num = 0 /\ Control(FALSE).num = 0
    /\ BulkOut.num # 0 /\ BulkIn.num # 0
    /\ Address(1, TRUE).num # 0 /\ Address(2, TRUE).num # 0
    /\ Control(TRUE).in /\ ~Control(FALSE).in /\ ~BulkOut.in /\ BulkIn.in
    /\ Address(1, TRUE).in /\ Address(2, TRUE).in
    /\ BulkOut # BulkIn /\ Address(1, TRUE) # Address(2, TRUE)
  BY DEF Address, Control, BulkOut, BulkIn, Addresses

\* Min of two numbers.
LEMMA Two ==
    ASSUME NEW a \in Nat, NEW b \in Nat
    PROVE  Min({a, b}) = IF a <= b THEN a ELSE b
<1>1. \E x \in {a, b} : \A y \in {a, b} : x <= y
  OBVIOUS
<1>2. Min({a, b}) \in {a, b} /\ \A y \in {a, b} : Min({a, b}) <= y
  BY <1>1 DEF Min
<1> QED BY <1>2

\* Min of a set of numbers.
LEMMA Lowest ==
    ASSUME NEW S, S \subseteq Nat, S # {}
    PROVE  Min(S) \in S /\ \A n \in S : Min(S) <= n
  BY Least DEF Min

\* A pair is a sequence of two.
LEMMA Pairs ==
    ASSUME NEW S, NEW x \in S, NEW y \in S, NEW c, c = <<x, y>>
    PROVE  c \in Seq(S) /\ Len(c) = 2 /\ c[1] = x /\ c[2] = y /\ ToSet(c) = {x, y}
  BY DEF ToSet

\* What a device is.
DeviceFact(v) ==
    LET c == v.config
    IN  /\ Len(c) = 2 /\ c[1] \in DescSet /\ c[2] \in DescSet
        /\ c \in Seq(DescSet) /\ v.ask \in Nat \ {0}
        /\ c[1].addr # c[2].addr /\ c[1].addr.num # 0 /\ c[2].addr.num # 0
        /\ c[1].bulk = c[2].bulk
        /\ v # Storage => c[1].addr.in /\ c[2].addr.in
        /\ ToSet(c) = {c[1], c[2]}

\* Every device is described as DeviceFact says.
LEMMA DeviceFacts ==
    ASSUME NEW v \in Devices
    PROVE  DeviceFact(v)
<1>1. \A a \in Addresses, bulk \in BOOLEAN, m \in Nat \ {0} :
         LET e == Descriptor(a, bulk, m)
         IN  e \in DescSet /\ e.addr = a /\ e.bulk = bulk
  BY DEF Descriptor, DescSet
<1>2. CASE v = Storage
  <2> DEFINE x == Descriptor(BulkOut, TRUE, BulkSize)
             y == Descriptor(BulkIn, TRUE, BulkSize)
  <2>1. v.config = <<x, y>> /\ v.ask = BulkSize
    BY <1>2 DEF Storage
  <2>2. x \in DescSet /\ y \in DescSet /\ x.bulk /\ y.bulk /\ x.addr = BulkOut /\ y.addr = BulkIn
    BY <1>1, Addressing
  <2> HIDE DEF x, y
  <2>3. /\ v.config \in Seq(DescSet) /\ Len(v.config) = 2
        /\ v.config[1] = x /\ v.config[2] = y /\ ToSet(v.config) = {x, y}
    BY <2>1, <2>2, Pairs
  <2> QED BY <1>2, <2>1, <2>2, <2>3, Addressing DEF DeviceFact
<1>3. ASSUME NEW m1 \in InterruptSizes, NEW m2 \in InterruptSizes, NEW a \in Asks, v = Hid(m1, m2, a)
      PROVE  DeviceFact(v)
  <2> DEFINE x == Descriptor(Address(1, TRUE), FALSE, m1)
             y == Descriptor(Address(2, TRUE), FALSE, m2)
  <2>1. v.config = <<x, y>> /\ v.ask = a
    BY <1>3 DEF Hid
  <2>2. /\ x \in DescSet /\ y \in DescSet /\ ~x.bulk /\ ~y.bulk
        /\ x.addr = Address(1, TRUE) /\ y.addr = Address(2, TRUE)
    BY <1>1, Addressing
  <2> HIDE DEF x, y
  <2>3. /\ v.config \in Seq(DescSet) /\ Len(v.config) = 2
        /\ v.config[1] = x /\ v.config[2] = y /\ ToSet(v.config) = {x, y}
    BY <2>1, <2>2, Pairs
  <2>4. x.addr # y.addr /\ x.addr.num # 0 /\ y.addr.num # 0 /\ x.addr.in /\ y.addr.in
    BY <2>2, Addressing
  <2>5. x.bulk = y.bulk
    BY <2>2 DEF DescSet
  <2>6. v.ask \in Nat \ {0}
    BY <2>1
  <2> QED BY <2>2, <2>3, <2>4, <2>5, <2>6 DEF DeviceFact
<1>4. v = Storage \/ \E m1, m2 \in InterruptSizes, a \in Asks : v = Hid(m1, m2, a)
  BY DEF Devices
<1> QED BY <1>2, <1>3, <1>4

-----------------------------------------------------------------------------
(* What each function of the driver returns.                               *)

Keeps(d, e) == e \in DrvSet /\ SameSlots(d, e)

\* What two steps of the driver keep, both together keep.
LEMMA Keeping ==
    ASSUME NEW d, NEW e, NEW f, Keeps(d, e), Keeps(e, f)
    PROVE  Keeps(d, f)
  BY DEF Keeps, SameSlots

\* Every slot has a buffer.
LEMMA OwnBuf ==
    ASSUME NEW ep \in EpSet
    PROVE  BufOf(ep) \in 0..Slots
  BY DEF EpSet, BufOf

\* get_dev_ep finds a slot with the address it was asked for.
LEMMA Finds ==
    ASSUME NEW d \in DrvSet, NEW a \in Addresses, SlotsOf(d, a) # {}
    PROVE  /\ SlotOf(d, a) \in 0..Slots /\ (a.num = 0 <=> SlotOf(d, a) = 0)
           /\ a.num # 0 => d.pool[SlotOf(d, a)].addr = a
<1>1. SlotsOf(d, a) \subseteq Nat
  BY DEF SlotsOf
<1>2. SlotOf(d, a) \in SlotsOf(d, a)
  BY <1>1, Lowest DEF SlotOf
<1> QED BY <1>2 DEF SlotsOf

\* A buffer is offered.
LEMMA Offers ==
    ASSUME NEW d \in DrvSet, NEW i \in 0..Slots, NEW left \in Nat, NEW pid \in Pid
    PROVE  Keeps(d, Offer(d, i, left, pid)) /\ Offer(d, i, left, pid).out = d.out
<1> DEFINE ep == d.pool[i]
           b == BufOf(ep)
           old == d.bufs[b]
           e == Offer(d, i, left, pid)
<1>1. ep \in EpSet /\ b \in 0..Slots /\ old \in BufSet
  BY OwnBuf DEF DrvSet
<1>2. [ep EXCEPT !.rem = left, !.pid = pid] \in EpSet
  BY <1>1 DEF EpSet
<1>3. [old EXCEPT !.avail = TRUE, !.len = ep.rem, !.pid = ep.pid,
                  !.full = ~ep.addr.in, !.last = left = 0] \in BufSet
  BY <1>1, Addressing DEF EpSet, BufSet
<1>4. e \in DrvSet
  BY <1>1, <1>2, <1>3 DEF Offer, DrvSet
<1>5. SameSlots(d, e)
  <2> SUFFICES ASSUME NEW j \in 1..Slots
               PROVE  /\ e.pool[j].addr = d.pool[j].addr /\ e.pool[j].mps = d.pool[j].mps
                      /\ e.pool[j].inum = d.pool[j].inum /\ e.pool[j].conf = d.pool[j].conf
    BY DEF SameSlots
  <2>1. d.pool[j] \in EpSet /\ d.pool \in [0..Slots -> EpSet]
    BY DEF DrvSet
  <2>2. e.pool[j] = IF j = i THEN [ep EXCEPT !.rem = left, !.pid = pid] ELSE d.pool[j]
    <3>1. e.pool = [d.pool EXCEPT ![i] = [@ EXCEPT !.rem = left, !.pid = pid]]
      BY <2>1 DEF Offer, DrvSet
    <3> QED BY <2>1, <3>1
  <2> QED BY <1>1, <2>1, <2>2 DEF EpSet
<1>6. e.out = d.out
  BY DEF Offer, DrvSet
<1> QED BY <1>4, <1>5, <1>6 DEF Keeps

\* _hw_endpoint_start_next_buffer keeps the slots' endpoints.
LEMMA NextBuffers ==
    ASSUME NEW d \in DrvSet, NEW i \in 0..Slots
    PROVE  Keeps(d, StartNextBuffer(d, i)) /\ StartNextBuffer(d, i).out = d.out
<1> DEFINE ep == d.pool[i]
           n == Min({ep.rem, ep.mps})
           left == ep.rem - n
           turns == n = 0 \/ (1 + (left + n - 1) \div ep.mps) % 2 = 1
           pid == IF turns THEN 1 - ep.pid ELSE ep.pid
<1>1. ep \in EpSet
  BY DEF DrvSet
<1>2. left \in Nat
  BY <1>1, Two DEF EpSet
<1>3. pid \in Pid
  BY <1>1 DEF EpSet, Pid
<1>4. StartNextBuffer(d, i) = Offer(d, i, left, pid)
  BY DEF StartNextBuffer
<1> QED BY <1>2, <1>3, <1>4, Offers

\* A slot is written: the others stay.
LEMMA Writes ==
    ASSUME NEW d \in DrvSet, NEW e, NEW i \in 0..Slots, NEW ep \in EpSet,
           e.pool = [d.pool EXCEPT ![i] = ep],
           \/ i = 0
           \/ /\ ep.addr = d.pool[i].addr /\ ep.mps = d.pool[i].mps
              /\ ep.inum = d.pool[i].inum /\ ep.conf = d.pool[i].conf
    PROVE  e.pool \in [0..Slots -> EpSet] /\ SameSlots(d, e)
<1>1. d.pool \in [0..Slots -> EpSet]
  BY DEF DrvSet
<1>2. \A j \in 0..Slots : e.pool[j] = IF j = i THEN ep ELSE d.pool[j]
  BY <1>1
<1>3. SameSlots(d, e)
  BY <1>2 DEF SameSlots
<1> QED BY <1>1, <1>3

\* A step that leaves the pool alone.
LEMMA SamePool ==
    ASSUME NEW d, NEW e \in DrvSet, e.pool = d.pool
    PROVE  Keeps(d, e)
  BY DEF Keeps, SameSlots

\* hw_endpoint_xfer_start keeps them.
LEMMA Starts ==
    ASSUME NEW d \in DrvSet, NEW i \in 0..Slots, NEW len \in Nat
    PROVE  Keeps(d, XferStart(d, i, len)) /\ XferStart(d, i, len).out = d.out
<1> DEFINE ep == [d.pool[i] EXCEPT !.rem = len, !.xfer = 0, !.user = TRUE]
           e == [d EXCEPT !.pool[i] = ep]
<1>0. d.pool[i] \in EpSet
  BY DEF DrvSet
<1>1. /\ ep \in EpSet /\ ep.addr = d.pool[i].addr /\ ep.mps = d.pool[i].mps
      /\ ep.inum = d.pool[i].inum /\ ep.conf = d.pool[i].conf
  BY <1>0 DEF EpSet
<1> HIDE DEF ep
<1>2. e.pool = [d.pool EXCEPT ![i] = ep]
  BY DEF DrvSet
<1>3. e.pool \in [0..Slots -> EpSet] /\ SameSlots(d, e)
  BY <1>1, <1>2, Writes
<1>4. Keeps(d, e) /\ e.out = d.out
  BY <1>3 DEF DrvSet, Keeps
<1>5. XferStart(d, i, len) = StartNextBuffer(e, i)
  BY DEF XferStart, Then, ep
<1> HIDE DEF e
<1>6. Keeps(e, StartNextBuffer(e, i)) /\ StartNextBuffer(e, i).out = e.out
  BY <1>4, NextBuffers DEF Keeps
<1> QED BY <1>4, <1>5, <1>6, Keeping

\* _hw_endpoint_init.
LEMMA Inits ==
    ASSUME NEW ep \in EpSet, NEW a \in Addresses, NEW mps \in Nat
    PROVE  /\ EndpointInit(ep, a, mps) \in EpSet
           /\ EndpointInit(ep, a, mps).addr = a /\ EndpointInit(ep, a, mps).mps = mps
           /\ EndpointInit(ep, a, mps).conf /\ EndpointInit(ep, a, mps).inum = ep.inum
  BY DEF EndpointInit, EpSet, Pid

\* hcd_edpt_xfer keeps them, also where it turns EPX round.
LEMMA Transfers ==
    ASSUME NEW d \in DrvSet, NEW a \in Addresses, NEW len \in Nat
    PROVE  Keeps(d, EdptXfer(d, a, len)) /\ EdptXfer(d, a, len).out = d.out
<1>1. CASE SlotsOf(d, a) = {}
  <2>1. EdptXfer(d, a, len) = [d EXCEPT !.panic = TRUE]
    BY <1>1 DEF EdptXfer
  <2> QED BY <2>1 DEF DrvSet, Keeps, SameSlots
<1>2. CASE SlotsOf(d, a) # {}
  <2> DEFINE i == SlotOf(d, a)
             old == d.pool[i]
             ep == IF old.addr = a THEN old ELSE EndpointInit(old, a, old.mps)
             kind == IF a.in THEN "in" ELSE "out"
             e == [d EXCEPT !.active = i, !.pool[i] = ep, !.sie = kind,
                            !.trans = [kind |-> kind, num |-> a.num]]
  <2>1. i \in 0..Slots /\ (i # 0 => old.addr = a)
    BY <1>2, Finds
  <2>2. old \in EpSet
    BY <2>1 DEF DrvSet
  <2>3. ep \in EpSet /\ (i # 0 => ep = old)
    BY <2>1, <2>2, Inits DEF EpSet
  <2>4. EdptXfer(d, a, len) = XferStart(e, i, len)
    BY <1>2 DEF EdptXfer
  <2>5. kind \in {"in", "out"} /\ [kind |-> kind, num |-> a.num] \in TransSet
    BY Addressing DEF TransSet
  <2> HIDE DEF ep, old, i, kind
  <2>6. e.pool = [d.pool EXCEPT ![i] = ep]
    BY DEF DrvSet
  <2>7. e.pool \in [0..Slots -> EpSet] /\ SameSlots(d, e)
    BY <2>1, <2>3, <2>6, Writes DEF old
  <2>8. Keeps(d, e) /\ e.out = d.out
    BY <2>1, <2>5, <2>7 DEF Keeps, DrvSet
  <2> HIDE DEF e
  <2>9. Keeps(e, XferStart(e, i, len)) /\ XferStart(e, i, len).out = e.out
    BY <2>1, <2>8, Starts DEF Keeps
  <2> QED BY <2>4, <2>8, <2>9, Keeping
<1> QED BY <1>1, <1>2

\* hcd_setup_send keeps them: it sets up EPX only.
LEMMA SetupSends ==
    ASSUME NEW d \in DrvSet
    PROVE  Keeps(d, SetupSend(d)) /\ SetupSend(d).out = d.out
<1> DEFINE old == d.pool[0]
           ep == [EndpointInit(old, Control(FALSE), old.mps)
                     EXCEPT !.inum = NotInterrupt, !.rem = SetupLength]
           e == SetupSend(d)
<1>1. old \in EpSet /\ d.pool \in [0..Slots -> EpSet]
  BY DEF DrvSet
<1>2. ep \in EpSet
  <2> DEFINE init == EndpointInit(old, Control(FALSE), old.mps)
  <2>1. old.mps \in Nat
    BY <1>1 DEF EpSet
  <2>2. init \in EpSet
    BY <1>1, <2>1, Inits, Addressing
  <2> HIDE DEF init
  <2>3. [init EXCEPT !.inum = NotInterrupt, !.rem = SetupLength] \in EpSet
    BY <2>2 DEF EpSet, SetupLength
  <2> QED BY <2>3 DEF init
<1>3. e.pool = [d.pool EXCEPT ![0] = ep]
  BY DEF SetupSend, DrvSet
<1> HIDE DEF ep
<1>4. e.pool \in [0..Slots -> EpSet] /\ SameSlots(d, e)
  <2>1. 0 \in 0..Slots
    OBVIOUS
  <2> HIDE DEF e
  <2> QED BY <1>2, <1>3, <2>1, Writes
<1>5. [kind |-> "setup", num |-> 0] \in TransSet
  BY DEF TransSet
<1>6. e \in DrvSet
  <2>1. ASSUME NEW pool \in [0..Slots -> EpSet], NEW t \in TransSet
        PROVE  [d EXCEPT !.pool = pool, !.active = 0, !.sie = "setup", !.trans = t] \in DrvSet
    <3>1. 0 \in 0..Slots
      OBVIOUS
    <3> HIDE DEF e, old
    <3> QED BY <3>1 DEF DrvSet
  <2>2. e = [d EXCEPT !.pool = [d.pool EXCEPT ![0] = ep], !.active = 0, !.sie = "setup",
                      !.trans = [kind |-> "setup", num |-> 0]]
    BY DEF SetupSend, DrvSet, ep
  <2> HIDE DEF e
  <2> QED BY <1>3, <1>4, <1>5, <2>1, <2>2
<1>7. e.out = d.out
  BY DEF SetupSend, DrvSet
<1> QED BY <1>4, <1>6, <1>7 DEF Keeps

\* hcd_event_xfer_complete keeps them.
LEMMA Events ==
    ASSUME NEW d \in DrvSet, device \in Devices, NEW i \in 0..Slots, NEW n \in Nat,
           NEW done \in BOOLEAN
    PROVE  Keeps(d, XferEvent(d, i, n, done))
<1> DEFINE a == d.pool[i].addr
           len == IF d.reads THEN device.ask ELSE StatusLength
           packet == [addr |-> a, len |-> n, last |-> done, src |-> d.bugger]
           told == [d EXCEPT !.out = Append(@, packet)]
           begun == [d EXCEPT !.level = 1, !.panic = @ \/ n # 0 \/ ~done]
           over == [told EXCEPT !.level = 2]
<1>1. packet \in PacketSet /\ len \in Nat
  BY DeviceFacts DEF DeviceFact, DrvSet, EpSet, PacketSet, StatusLength
<1> HIDE DEF packet, len
<1>2. Keeps(d, d) /\ Keeps(d, told)
  <2>1. d.out \in Seq(PacketSet) /\ Append(d.out, packet) \in Seq(PacketSet)
    BY <1>1 DEF DrvSet
  <2>2. told \in DrvSet /\ told.pool = d.pool
    BY <2>1 DEF DrvSet
  <2> QED BY <2>2, SamePool
<1>3. Keeps(d, begun)
  <2>1. begun \in DrvSet /\ begun.pool = d.pool
    BY DEF DrvSet
  <2> QED BY <2>1, SamePool
<1>4. Keeps(told, over)
  <2>1. told \in DrvSet
    BY <1>2 DEF Keeps
  <2>2. ASSUME NEW f \in DrvSet
        PROVE  [f EXCEPT !.level = 2] \in DrvSet /\ [f EXCEPT !.level = 2].pool = f.pool
    <3>1. 2 \in 0..3
      OBVIOUS
    <3> QED BY <3>1 DEF DrvSet
  <2> HIDE DEF told
  <2>3. over \in DrvSet /\ over.pool = told.pool
    BY <2>1, <2>2
  <2> QED BY <2>3, SamePool
<1>5. Keeps(d, over)
  BY <1>2, <1>4, Keeping
<1>6. \A f \in DrvSet : /\ Keeps(f, EdptXfer(f, Control(TRUE), len))
                        /\ Keeps(f, EdptXfer(f, Control(FALSE), 0))
  BY <1>1, Transfers, Addressing
<1>7. /\ Keeps(d, EdptXfer(begun, Control(TRUE), len))
      /\ Keeps(d, EdptXfer(told, Control(TRUE), len))
      /\ Keeps(d, EdptXfer(over, Control(FALSE), 0))
  <2> HIDE DEF told, begun, over
  <2>1. told \in DrvSet /\ begun \in DrvSet /\ over \in DrvSet
    BY <1>2, <1>3, <1>5 DEF Keeps
  <2> QED BY <1>2, <1>3, <1>5, <1>6, <2>1, Keeping
<1>8. XferEvent(d, i, n, done) \in {d, told, over, EdptXfer(begun, Control(TRUE), len),
                                    EdptXfer(told, Control(TRUE), len),
                                    EdptXfer(over, Control(FALSE), 0)}
  BY DEF XferEvent, packet, len
<1> QED BY <1>2, <1>5, <1>7, <1>8

\* hw_xfer_complete keeps them.
LEMMA Completions ==
    ASSUME NEW d \in DrvSet, device \in Devices, NEW i \in 0..Slots, NEW done \in BOOLEAN
    PROVE  Keeps(d, XferComplete(d, i, done))
<1> DEFINE ep == [d.pool[i] EXCEPT !.rem = 0, !.xfer = 0, !.user = FALSE]
           e == IF done THEN [d EXCEPT !.pool[i] = ep] ELSE d
           n == d.pool[i].xfer
<1>0. d.pool[i] \in EpSet
  BY DEF DrvSet
<1>1. /\ ep \in EpSet /\ ep.addr = d.pool[i].addr /\ ep.mps = d.pool[i].mps
      /\ ep.inum = d.pool[i].inum /\ ep.conf = d.pool[i].conf /\ n \in Nat
  BY <1>0 DEF EpSet
<1>2. XferComplete(d, i, done) = XferEvent(e, i, n, done)
  BY DEF XferComplete, Then
<1> HIDE DEF ep, n
<1>3. Keeps(d, e)
  <2>1. CASE ~done
    BY <2>1 DEF Keeps, SameSlots
  <2>2. CASE done
    <3>1. e.pool = [d.pool EXCEPT ![i] = ep]
      BY <2>2 DEF DrvSet
    <3>2. e.pool \in [0..Slots -> EpSet] /\ SameSlots(d, e)
      BY <1>1, <3>1, Writes
    <3> QED BY <2>2, <3>2 DEF DrvSet, Keeps
  <2> QED BY <2>1, <2>2
<1> HIDE DEF e
<1>4. Keeps(e, XferEvent(e, i, n, done))
  BY <1>1, <1>3, Events DEF Keeps
<1> QED BY <1>2, <1>3, <1>4, Keeping

\* sync_ep_buffer keeps them.
LEMMA Syncs ==
    ASSUME NEW d \in DrvSet, NEW i \in 0..Slots
    PROVE  Keeps(d, SyncBuffer(d, i))
<1> DEFINE old == d.pool[i]
           buf == d.bufs[BufOf(old)]
           ep == [old EXCEPT !.xfer = @ + buf.len,
                             !.user = @ \/ (old.addr.in /\ buf.len > 0),
                             !.rem = IF buf.len < old.mps \/ old.mps = 0 THEN 0 ELSE @]
           e == SyncBuffer(d, i)
<1>1. old \in EpSet /\ buf \in BufSet
  BY OwnBuf DEF DrvSet
<1>2. /\ ep \in EpSet /\ ep.addr = old.addr /\ ep.mps = old.mps
      /\ ep.inum = old.inum /\ ep.conf = old.conf
  <2>1. /\ buf.len \in Nat /\ old.xfer + buf.len \in Nat
        /\ (IF buf.len < old.mps \/ old.mps = 0 THEN 0 ELSE old.rem) \in Nat
    BY <1>1 DEF EpSet, BufSet
  <2>2. (old.user \/ (old.addr.in /\ buf.len > 0)) \in BOOLEAN
    BY <1>1, <2>1, Addressing DEF EpSet
  <2> HIDE DEF old, buf
  <2> QED BY <1>1, <2>1, <2>2 DEF EpSet
<1>3. e.pool = [d.pool EXCEPT ![i] = ep]
  <2> DEFINE bugger == IF old.addr.in /\ old.user THEN buf.src ELSE d.bugger
             panic == d.panic \/ buf.full # old.addr.in
  <2>1. e = [d EXCEPT !.pool[i] = ep, !.bugger = bugger, !.panic = panic]
    BY DEF SyncBuffer, DrvSet
  <2> HIDE DEF ep, bugger, panic, e
  <2> QED BY <2>1 DEF DrvSet
<1> HIDE DEF ep
<1>4. e.pool \in [0..Slots -> EpSet] /\ SameSlots(d, e)
  BY <1>2, <1>3, Writes
<1>5. e \in DrvSet
  BY <1>1, <1>4 DEF SyncBuffer, DrvSet, BufSet
<1> QED BY <1>4, <1>5 DEF Keeps

\* hw_endpoint_xfer_continue keeps them.
LEMMA Bits ==
    ASSUME NEW d \in DrvSet, device \in Devices, NEW i \in 0..Slots
    PROVE  Keeps(d, BuffStatusBit(d, i))
<1> DEFINE e == SyncBuffer(d, i)
           f == StartNextBuffer(e, i)
<1>1. BuffStatusBit(d, i) \in {XferComplete(e, i, TRUE), XferComplete(f, i, FALSE)}
  BY DEF BuffStatusBit, Then
<1>2. Keeps(d, e)
  BY Syncs
<1> HIDE DEF e
<1>3. Keeps(e, f)
  BY <1>2, NextBuffers DEF Keeps
<1> HIDE DEF f
<1>4. Keeps(d, f)
  BY <1>2, <1>3, Keeping
<1>5. Keeps(e, XferComplete(e, i, TRUE)) /\ Keeps(f, XferComplete(f, i, FALSE))
  BY <1>2, <1>4, Completions DEF Keeps
<1>6. Keeps(d, XferComplete(e, i, TRUE)) /\ Keeps(d, XferComplete(f, i, FALSE))
  BY <1>2, <1>4, <1>5, Keeping
<1> QED BY <1>1, <1>6

\* So does the walk over all slots, and the end of a transaction.
LEMMA Polls ==
    ASSUME NEW d \in DrvSet, device \in Devices
    PROVE  Keeps(d, BuffStatus(d)) /\ Keeps(d, TransComplete(d))
<1>1. Keeps(d, d) /\ d.active \in 0..Slots
  BY DEF Keeps, SameSlots, DrvSet
<1>2. Keeps(d, Handled(d)[0])
  BY <1>1, Bits, Handling DEF EpxBit
<1> DEFINE S == {i \in 0..Slots : Keeps(d, Handled(d)[i])}
<1>3. ASSUME NEW i \in 0..(Slots-1), i \in S PROVE i + 1 \in S
  <2> DEFINE e == Handled(d)[i]
  <2>1. Handled(d)[i+1] = SlotBit(e, i+1)
    <3>1. i + 1 \in 1..Slots /\ (i + 1) - 1 = i
      OBVIOUS
    <3> QED BY <3>1, Handling
  <2>2. Keeps(d, e)
    BY <1>3
  <2> HIDE DEF e
  <2>3. Keeps(e, e)
    BY <2>2 DEF Keeps, SameSlots
  <2>4. Keeps(e, SlotBit(e, i+1))
    BY <2>2, <2>3, Bits DEF SlotBit, Keeps
  <2> QED BY <2>1, <2>2, <2>4, Keeping
<1>4. Slots \in S
  <2>1. 0 \in S
    BY <1>2
  <2> HIDE DEF S
  <2>2. 0..Slots \subseteq S
    BY <1>3, <2>1, Climbing
  <2> QED BY <2>2
<1>5. Keeps(d, TransComplete(d))
  <2>1. 0 \in 0..Slots /\ TRUE \in BOOLEAN
    OBVIOUS
  <2> QED BY <1>1, <2>1, Completions DEF TransComplete
<1> QED BY <1>4, <1>5 DEF BuffStatus

-----------------------------------------------------------------------------
(* The pool.                                                               *)

Open(e) == [type |-> "open", desc |-> e]

\* The endpoints of a configuration are opened one right after the other.
PairInv ==
    \A k \in DOMAIN inbox : inbox[k].type = "open" =>
        /\ inbox[k].desc \in {device.config[1], device.config[2]}
        /\ inbox[k].desc = device.config[1] =>
              k + 1 \in DOMAIN inbox /\ inbox[k+1] = Open(device.config[2])
        /\ inbox[k].desc = device.config[2] =>
              k = 1 \/ (k - 1 \in DOMAIN inbox /\ inbox[k-1] = Open(device.config[1]))

\* The first endpoint of a configuration is open, the second is next.
HalfOpen == inbox # <<>> /\ inbox[1] = Open(device.config[2])

\* Slot i of the pool p belongs to the endpoint e.
Belongs(p, i, e) ==
    /\ p[i].conf /\ p[i].addr = e.addr /\ p[i].mps = e.mps
    /\ p[i].inum = IF e.bulk THEN NotInterrupt ELSE i - 1

\* Slots 1 to n are taken, by the two endpoints in turn, and the last one by the endpoint
\* that was opened last.
Taken(p, half, n) ==
    /\ \A i \in 1..Slots : p[i].conf <=> i <= n
    /\ \A i \in 1..Slots : i < n => Belongs(p, i, device.config[IF i % 2 = 1 THEN 1 ELSE 2])
    /\ n > 0 => Belongs(p, n, device.config[IF half THEN 1 ELSE 2])
    /\ n < Slots => (half <=> n % 2 = 1)
    /\ n = 0 => ~half

\* Endpoints of a configuration that was read are open or about to be opened.
Told(n) == drivers.configured /\ n = 0 =>
               \E k \in DOMAIN inbox : inbox[k] = Open(device.config[1])

PoolInv == \E n \in 0..Slots : Taken(drv.pool, HalfOpen, n) /\ Told(n)

SlotInv == Types /\ PairInv /\ PoolInv

-----------------------------------------------------------------------------
(* What each action does to the driver, and that it keeps the types.       *)

\* The controller's own state is written.
LEMMA Controls ==
    ASSUME NEW d \in DrvSet, NEW t \in TransSet, NEW b \in 0..Slots, NEW buf \in BufSet,
           NEW panic \in BOOLEAN
    PROVE  Keeps(d, [d EXCEPT !.trans = t, !.bufs[b] = buf, !.panic = panic])
<1> DEFINE e == [d EXCEPT !.trans = t, !.bufs[b] = buf, !.panic = panic]
<1>1. e \in DrvSet
  BY DEF DrvSet
<1>2. e.pool = d.pool
  BY DEF DrvSet
<1> QED BY <1>1, <1>2, SamePool

\* The poll.
LEMMA PollActs ==
    ASSUME Types, Poll
    PROVE  Types' /\ SameSlots(drv, drv')
<1> DEFINE b == BuffStatus(drv)
           all == IF transDone THEN TransComplete(b) ELSE b
           e == [all EXCEPT !.out = <<>>]
<1>1. Keeps(drv, b)
  BY Polls DEF Types
<1>2. Keeps(drv, all)
  <2> HIDE DEF b
  <2>1. transDone => Keeps(b, TransComplete(b))
    BY <1>1, Polls DEF Types, Keeps
  <2> QED BY <1>1, <2>1, Keeping
<1>3. /\ drv' = e /\ outbox' = outbox \o all.out
      /\ bits' = bits \ bits /\ transDone' = FALSE
      /\ UNCHANGED <<device, inbox, dev, drivers>>
  BY DEF Poll, PollClearing, Then
<1> HIDE DEF all
<1>4. all.out \in Seq(PacketSet) /\ <<>> \in Seq(PacketSet)
  BY <1>2 DEF Keeps, DrvSet
<1>5. e \in DrvSet /\ e.pool = all.pool /\ e.out = <<>>
  BY <1>2, <1>4 DEF Keeps, DrvSet
<1>6. SameSlots(drv, e)
  BY <1>2, <1>5 DEF Keeps, SameSlots
<1>7. outbox' \in Seq(PacketSet)
  BY <1>3, <1>4 DEF Types
<1> QED BY <1>3, <1>5, <1>6, <1>7 DEF Types


\* The message at the head of the inbox.
LEMMA HeadFacts ==
    ASSUME Types, inbox # <<>>
    PROVE  /\ Head(inbox) \in MessageSet /\ Tail(inbox) \in Seq(MessageSet)
           /\ Head(inbox).type = "open" => Head(inbox).desc \in DescSet
           /\ Head(inbox).type = "setup" => Head(inbox).reads \in BOOLEAN
           /\ Head(inbox).type = "data" => Head(inbox).addr \in Addresses /\ Head(inbox).len \in Nat
<1>1. Head(inbox) \in MessageSet /\ Tail(inbox) \in Seq(MessageSet)
  BY DEF Types
<1> QED BY <1>1 DEF MessageSet

\* SETUP_DATA.
LEMMA SetupActs ==
    ASSUME Types, SetupData
    PROVE  Types' /\ SameSlots(drv, drv')
<1> DEFINE d == [drv EXCEPT !.reads = Head(inbox).reads, !.level = 0]
<1>1. /\ inbox # <<>> /\ Head(inbox).type = "setup" /\ inbox' = Tail(inbox)
      /\ drv' = SetupSend(d)
      /\ UNCHANGED <<device, bits, transDone, outbox, dev, drivers>>
  BY DEF SetupData, Dequeue
<1>2. d \in DrvSet /\ d.pool = drv.pool /\ d.out = drv.out
  <2>1. Head(inbox).reads \in BOOLEAN /\ 0 \in 0..3
    BY <1>1, HeadFacts
  <2> QED BY <2>1 DEF Types, DrvSet
<1> HIDE DEF d
<1>3. Keeps(drv, d)
  BY <1>2, SamePool
<1>4. Keeps(d, SetupSend(d)) /\ SetupSend(d).out = d.out
  BY <1>2, SetupSends
<1>5. Keeps(drv, drv') /\ drv'.out = drv.out
  BY <1>1, <1>2, <1>3, <1>4, Keeping
<1> QED BY <1>1, <1>5, HeadFacts DEF Types, Keeps

\* USB_DATA.
LEMMA DataActs ==
    ASSUME Types, UsbData
    PROVE  Types' /\ SameSlots(drv, drv')
<1> DEFINE x == Head(inbox)
           d == [drv EXCEPT !.level = 3, !.bugger = x.addr]
<1>1. /\ inbox # <<>> /\ x.type = "data" /\ inbox' = Tail(inbox)
      /\ drv' = EdptXfer(d, x.addr, x.len)
      /\ UNCHANGED <<device, bits, transDone, outbox, dev, drivers>>
  BY DEF UsbData, Dequeue
<1>2. x.addr \in Addresses /\ x.len \in Nat /\ Tail(inbox) \in Seq(MessageSet)
  BY <1>1, HeadFacts
<1> HIDE DEF x
<1>3. d \in DrvSet /\ d.pool = drv.pool /\ d.out = drv.out
  <2>1. 3 \in 0..3
    OBVIOUS
  <2> QED BY <1>2, <2>1 DEF Types, DrvSet
<1> HIDE DEF d
<1>4. Keeps(drv, d)
  BY <1>3, SamePool
<1>5. Keeps(d, EdptXfer(d, x.addr, x.len)) /\ EdptXfer(d, x.addr, x.len).out = d.out
  BY <1>2, <1>3, Transfers
<1>6. Keeps(drv, drv') /\ drv'.out = drv.out
  BY <1>1, <1>3, <1>4, <1>5, Keeping
<1> QED BY <1>1, <1>2, <1>6 DEF Types, Keeps

\* A transaction was done over buffer b.
LEMMA Dones ==
    ASSUME Types, NEW b \in 0..Slots, NEW a \in Addresses, NEW n \in Nat, Done(b, a, n),
           dev' \in DevSet
    PROVE  Types' /\ SameSlots(drv, drv')
<1> DEFINE t == IF b = 0 THEN NoTrans ELSE drv.trans
           buf == [drv.bufs[b] EXCEPT !.avail = FALSE, !.full = a.in, !.len = n, !.src = a]
           panic == drv.panic \/ (a.in /\ drv.bufs[b].pid # dev.pid[a])
<1>1. t \in TransSet /\ panic \in BOOLEAN
  BY DEF Types, DrvSet, NoTrans, TransSet
<1>2. buf \in BufSet
  <2>1. drv.bufs[b] \in BufSet /\ a.in \in BOOLEAN
    BY Addressing DEF Types, DrvSet
  <2> QED BY <2>1 DEF BufSet
<1>3. drv' = [drv EXCEPT !.trans = t, !.bufs[b] = buf, !.panic = panic]
  BY DEF Done, Types, DrvSet
<1>4. bits' \subseteq 0..Slots /\ transDone' \in BOOLEAN
  BY DEF Done, Types, DrvSet, BufSet
<1>5. UNCHANGED <<device, inbox, outbox, drivers>>
  BY DEF Done
<1> HIDE DEF t, buf, panic
<1>6. Keeps(drv, drv')
  BY <1>1, <1>2, <1>3, Controls DEF Types
<1>7. drv'.out = drv.out
  BY <1>3 DEF Types, DrvSet
<1> QED BY <1>4, <1>5, <1>6, <1>7 DEF Types, Keeps

\* The device's steps touch no slot's endpoint.
LEMMA DeviceActs ==
    ASSUME Types, Device \/ \E i \in 1..Slots : DeviceReport(i)
    PROVE  Types' /\ SameSlots(drv, drv') /\ UNCHANGED <<device, inbox, drivers>>
<1>0. 0 \in 0..Slots /\ 0 \in Nat /\ 1 \in Nat /\ BulkSize \in Nat
  OBVIOUS
<1>1. CASE DeviceSetup
  <2>1. dev' \in DevSet
    <3>1. dev.pid \in [Addresses -> Pid] /\ 1 \in Pid
      BY DEF Types, DevSet, Pid
    <3> QED BY <1>1, <3>1 DEF DeviceSetup, Types, DevSet
  <2>2. drv' = [drv EXCEPT !.trans = NoTrans]
    BY <1>1 DEF DeviceSetup
  <2>3. NoTrans \in TransSet
    BY DEF NoTrans, TransSet
  <2>4. drv' \in DrvSet /\ drv'.pool = drv.pool /\ drv'.out = drv.out
    BY <2>2, <2>3 DEF Types, DrvSet
  <2>5. SameSlots(drv, drv')
    BY <2>4 DEF SameSlots
  <2> QED BY <1>1, <2>1, <2>4, <2>5 DEF DeviceSetup, Types
<1>2. CASE DeviceAnswer
  <2>1. dev' \in DevSet
    BY <1>2 DEF DeviceAnswer, Types, DevSet
  <2>2. PICK n \in Nat : Done(0, Control(TRUE), n)
    BY <1>2 DEF DeviceAnswer
  <2>3. Types' /\ SameSlots(drv, drv')
    BY <1>0, <2>1, <2>2, Dones, Addressing
  <2> QED BY <2>2, <2>3 DEF Done
<1>3. CASE DeviceAck
  <2>1. dev' \in DevSet
    BY <1>3 DEF DeviceAck, Types, DevSet
  <2>2. Done(0, Control(FALSE), 0)
    BY <1>3 DEF DeviceAck
  <2> QED BY <1>0, <2>1, <2>2, Dones, Addressing DEF Done
<1>4. CASE DeviceBulkOut
  <2>1. dev' \in DevSet
    <3>1. CASE drv.bufs[0].pid # dev.pid[BulkOut]
      BY <1>4, <3>1 DEF DeviceBulkOut, Types
    <3>2. CASE drv.bufs[0].pid = dev.pid[BulkOut]
      <4>1. PICK n \in IF dev.busy THEN {dev.left - 1} ELSE OutPackets :
                dev' = [dev EXCEPT !.pid[BulkOut] = 1 - @, !.busy = TRUE, !.left = n]
        BY <1>4, <3>2 DEF DeviceBulkOut
      <4>2. n \in Int
        BY DEF Types, DevSet
      <4>3. 1 - dev.pid[BulkOut] \in Pid /\ dev.pid \in [Addresses -> Pid]
        BY Addressing DEF Types, DevSet, Pid
      <4> QED BY <4>1, <4>2, <4>3 DEF Types, DevSet
    <3> QED BY <3>1, <3>2
  <2>2. Done(0, BulkOut, drv.bufs[0].len)
    BY <1>4 DEF DeviceBulkOut
  <2>3. drv.bufs[0].len \in Nat
    BY <1>0 DEF Types, DrvSet, BufSet
  <2> QED BY <1>0, <2>1, <2>2, <2>3, Dones, Addressing DEF Done
<1>5. CASE DeviceBulkIn
  <2>1. dev' \in DevSet
    <3>1. 1 - dev.pid[BulkIn] \in Pid /\ dev.pid \in [Addresses -> Pid]
      BY Addressing DEF Types, DevSet, Pid
    <3>2. PICK over \in BOOLEAN : dev' = [dev EXCEPT !.pid[BulkIn] = 1 - @, !.busy = ~over]
      BY <1>5 DEF DeviceBulkIn
    <3>3. (~over) \in BOOLEAN
      <4>1. over = TRUE \/ over = FALSE
        OBVIOUS
      <4> QED BY <4>1
    <3> QED BY <3>1, <3>2, <3>3 DEF Types, DevSet
  <2>2. PICK n \in Nat : Done(0, BulkIn, n)
    BY <1>0, <1>5 DEF DeviceBulkIn
  <2>3. Types' /\ SameSlots(drv, drv')
    BY <1>0, <2>1, <2>2, Dones, Addressing
  <2> QED BY <2>2, <2>3 DEF Done
<1>6. ASSUME NEW i \in 1..Slots, DeviceReport(i)
      PROVE  Types' /\ SameSlots(drv, drv') /\ UNCHANGED <<device, inbox, drivers>>
  <2> DEFINE ep == drv.pool[i]
  <2>1. ep \in EpSet /\ BufOf(ep) \in 0..Slots /\ ep.addr \in Addresses
    <3>1. ep \in EpSet
      BY DEF Types, DrvSet
    <3> HIDE DEF ep
    <3> QED BY <3>1, OwnBuf DEF EpSet
  <2>2. dev' \in DevSet
    <3>1. dev' = [dev EXCEPT !.pid[ep.addr] = 1 - @]
      BY <1>6 DEF DeviceReport
    <3>2. 1 - dev.pid[ep.addr] \in Pid /\ dev.pid \in [Addresses -> Pid]
      BY <2>1 DEF Types, DevSet, Pid
    <3> HIDE DEF ep
    <3> QED BY <3>1, <3>2 DEF Types, DevSet
  <2>3. \E n \in Nat : Done(BufOf(ep), ep.addr, n)
    <3>1. Min({ep.mps, device.ask}) \in Nat
      <4>1. ep.mps \in Nat /\ device.ask \in Nat
        BY <2>1, DeviceFacts DEF Types, DeviceFact, EpSet
      <4> QED BY <4>1, Two
    <3> QED BY <1>6, <3>1 DEF DeviceReport
  <2> QED BY <2>1, <2>2, <2>3, Dones DEF Done
<1> QED BY <1>1, <1>2, <1>3, <1>4, <1>5, <1>6 DEF Device

Opens == [i \in 1..2 |-> Open(device.config[i])]

\* The master sends messages of other kinds, or opens the endpoints of a configuration.
SendsOther ==
    /\ drivers'.configured = drivers.configured
    /\ \E t \in Seq(MessageSet) : /\ inbox' = inbox \o t
                                  /\ \A k \in DOMAIN t : t[k].type # "open"
MasterActions ==
    \/ Masters \/ NewCommand \/ SendData
    \/ \E in \in BOOLEAN : NewControl(in)
    \/ \E a \in {e.addr : e \in ToSet(device.config)} : Knock(a)

\* The master sends a message that opens nothing.
LEMMA OneMessage ==
    ASSUME Types, NEW x \in MessageSet, x.type # "open",
           inbox' = inbox \o <<x>> \/ inbox' = Append(inbox, x),
           drivers'.configured = drivers.configured
    PROVE  SendsOther /\ inbox' \in Seq(MessageSet)
<1>1. inbox \in Seq(MessageSet)
  BY DEF Types
<1>2. Append(inbox, x) = inbox \o <<x>>
  BY <1>1
<1> DEFINE t == <<x>>
<1>3. t \in Seq(MessageSet) /\ \A k \in DOMAIN t : t[k].type # "open"
  OBVIOUS
<1>4. inbox' = inbox \o t /\ Append(inbox, x) \in Seq(MessageSet)
  BY <1>1, <1>2
<1> HIDE DEF t
<1>5. inbox \o t \in Seq(MessageSet)
  BY <1>1, <1>3
<1> QED BY <1>3, <1>4, <1>5 DEF SendsOther

\* The master sends none.
LEMMA NoMessage ==
    ASSUME Types, inbox' = inbox, drivers'.configured = drivers.configured
    PROVE  SendsOther
<1> DEFINE t == <<>>
<1>1. t \in Seq(MessageSet) /\ inbox' = inbox \o t /\ \A k \in DOMAIN t : t[k].type # "open"
  BY DEF Types
<1> HIDE DEF t
<1> QED BY <1>1 DEF SendsOther

\* The messages of the master.
LEMMA Messages ==
    /\ \A a \in Addresses, len \in Nat : Data(a, len) \in MessageSet /\ Data(a, len).type # "open"
    /\ \A in \in BOOLEAN : LET x == [type |-> "setup", reads |-> in]
                           IN  x \in MessageSet /\ x.type # "open"
  BY DEF Data, MessageSet

\* Each step of the master sends at most one message, or a configuration's two.
LEMMA MasterActs ==
    ASSUME Types, MasterActions
    PROVE  /\ Types' /\ UNCHANGED <<drv, device>>
           /\ SendsOther \/ (TakeControl /\ inbox' = inbox \o Opens)
<1>0. /\ device.ask \in Nat /\ DeviceFact(device)
      /\ \A a \in Addresses : Ask(a) \in MessageSet /\ Ask(a).type # "open"
  BY DeviceFacts, Messages DEF Types, DeviceFact, Ask
<1>1. ASSUME outbox # <<>> PROVE Head(outbox) \in PacketSet /\ Tail(outbox) \in Seq(PacketSet)
  BY <1>1 DEF Types
<1>2. CASE TakeControl
  <2>1. /\ outbox # <<>> /\ outbox' = Tail(outbox)
        /\ UNCHANGED <<device, drv, bits, transDone, dev>>
    BY <1>2 DEF TakeControl, Take
  <2>2. PICK opens \in BOOLEAN :
           /\ drivers' = [drivers EXCEPT !.control = FALSE, !.configured = @ \/ opens]
           /\ inbox' = IF ~opens THEN inbox ELSE inbox \o Opens
    BY <1>2 DEF TakeControl, Opens, Open
  <2>3. drivers' \in DriversSet /\ (~opens => drivers'.configured = drivers.configured)
    <3>1. (drivers.configured \/ opens) \in BOOLEAN
      BY DEF Types, DriversSet
    <3>2. drivers \in DriversSet
      BY DEF Types
    <3> QED BY <2>2, <3>1, <3>2 DEF DriversSet
  <2>4. Opens \in Seq(MessageSet)
    <3>1. \A i \in 1..2 : Open(device.config[i]) \in MessageSet
      BY <1>0 DEF DeviceFact, Open, MessageSet
    <3> QED BY <3>1 DEF Opens
  <2>5. Types'
    BY <1>1, <2>1, <2>2, <2>3, <2>4 DEF Types
  <2>6. ~opens => SendsOther
    BY <2>2, <2>3, NoMessage
  <2> QED BY <1>2, <2>1, <2>2, <2>5, <2>6
<1>3. CASE TakeOut
  <2>1. /\ outbox # <<>> /\ outbox' = Tail(outbox)
        /\ UNCHANGED <<device, drv, bits, transDone, dev>>
        /\ drivers' = [drivers EXCEPT !.phase = "asked", !.want = (@ \ {BulkOut}) \cup {BulkIn}]
        /\ inbox' = Append(inbox, Ask(BulkIn))
    BY <1>3 DEF TakeOut, Take
  <2>2. drivers' \in DriversSet /\ drivers'.configured = drivers.configured
    BY <2>1, Addressing DEF Types, DriversSet
  <2>3. SendsOther /\ inbox' \in Seq(MessageSet)
    BY <1>0, <2>1, <2>2, OneMessage, Addressing
  <2> QED BY <1>1, <2>1, <2>2, <2>3 DEF Types
<1>4. CASE TakeIn
  <2>1. /\ outbox # <<>> /\ outbox' = Tail(outbox)
        /\ UNCHANGED <<device, drv, bits, transDone, dev>>
        /\ drivers' = [drivers EXCEPT !.phase = IF dev.busy THEN "asked" ELSE "idle",
                                      !.want = IF dev.busy THEN @ ELSE @ \ {BulkIn}]
        /\ inbox' = IF dev.busy THEN Append(inbox, Ask(BulkIn)) ELSE inbox
    BY <1>4 DEF TakeIn, Take
  <2>2. drivers' \in DriversSet /\ drivers'.configured = drivers.configured
    BY <2>1 DEF Types, DriversSet
  <2>3. SendsOther /\ inbox' \in Seq(MessageSet)
    <3>1. CASE dev.busy
      BY <1>0, <2>1, <2>2, <3>1, OneMessage, Addressing
    <3>2. CASE ~dev.busy
      BY <2>1, <2>2, <3>2, NoMessage DEF Types
    <3> QED BY <3>1, <3>2
  <2> QED BY <1>1, <2>1, <2>2, <2>3 DEF Types
<1>5. CASE TakeReport
  <2>1. PICK p \in ToSet(outbox) :
           Take(p) /\ p.addr.num # 0 /\ drivers' = [drivers EXCEPT !.want = @ \ {p.addr}]
    BY <1>5 DEF TakeReport
  <2>2. drivers' \in DriversSet /\ drivers'.configured = drivers.configured
    BY <2>1 DEF Types, DriversSet
  <2>3. inbox' = inbox
    BY <1>5 DEF TakeReport
  <2>4. SendsOther
    BY <2>2, <2>3, NoMessage
  <2> QED BY <1>1, <2>1, <2>2, <2>3, <2>4 DEF Types, Take
<1>6. ASSUME NEW x \in MessageSet, x.type # "open", Enqueue(<<x>>),
             drivers' \in DriversSet, drivers'.configured = drivers.configured
      PROVE  Types' /\ UNCHANGED <<drv, device>> /\ SendsOther
  <2>1. SendsOther /\ inbox' \in Seq(MessageSet)
    BY <1>6, OneMessage DEF Enqueue
  <2> QED BY <1>6, <2>1 DEF Types, Enqueue
<1>7. CASE NewCommand \/ SendData
  <2>1. /\ drivers' = [drivers EXCEPT !.phase = "sent", !.want = @ \cup {BulkOut}]
        /\ Enqueue(<<Data(BulkOut, BulkSize)>>)
    BY <1>7 DEF NewCommand, SendData, SendOut
  <2>2. drivers' \in DriversSet /\ drivers'.configured = drivers.configured
    BY <2>1, Addressing DEF Types, DriversSet
  <2> QED BY <1>6, <2>1, <2>2, Messages, Addressing
<1>8. ASSUME NEW in \in BOOLEAN, NewControl(in)
      PROVE  Types' /\ UNCHANGED <<drv, device>> /\ SendsOther
  <2>1. /\ drivers' = [drivers EXCEPT !.control = TRUE]
        /\ Enqueue(<<[type |-> "setup", reads |-> in]>>)
    BY <1>8 DEF NewControl
  <2>2. drivers' \in DriversSet /\ drivers'.configured = drivers.configured
    BY <2>1 DEF Types, DriversSet
  <2> QED BY <1>6, <2>1, <2>2, Messages
<1>9. ASSUME NEW a \in {e.addr : e \in ToSet(device.config)}, Knock(a)
      PROVE  Types' /\ UNCHANGED <<drv, device>> /\ SendsOther
  <2>1. /\ drivers' = [drivers EXCEPT !.want = @ \cup {a}]
        /\ Enqueue(<<Ask(a)>>)
    BY <1>9 DEF Knock
  <2>2. a \in Addresses
    BY <1>0 DEF DeviceFact, DescSet
  <2>3. drivers' \in DriversSet /\ drivers'.configured = drivers.configured
    BY <2>1, <2>2 DEF Types, DriversSet
  <2> QED BY <1>0, <1>6, <2>1, <2>2, <2>3
<1> QED BY <1>2, <1>3, <1>4, <1>5, <1>7, <1>8, <1>9 DEF MasterActions, Masters

-----------------------------------------------------------------------------
(* The pool keeps its order.                                               *)

\* The two EDPT_OPEN messages of a device.
LEMMA OpenFacts ==
    ASSUME Types
    PROVE  /\ Open(device.config[1]) # Open(device.config[2])
           /\ \A e : Open(e).type = "open" /\ Open(e).desc = e
           /\ \A k \in DOMAIN inbox : inbox[k].type = "open" => inbox[k] = Open(inbox[k].desc)
<1>1. \A e : Open(e).type = "open" /\ Open(e).desc = e
  BY DEF Open
<1>2. device.config[1] # device.config[2]
  BY DeviceFacts DEF Types, DeviceFact
<1>3. \A x \in MessageSet : x.type = "open" => x = Open(x.desc)
  BY DEF MessageSet, Open
<1> QED BY <1>1, <1>2, <1>3 DEF Types

\* The slave takes a message.
LEMMA TakenMessage ==
    ASSUME Types, PairInv, inbox # <<>>, inbox' = Tail(inbox), device' = device
    PROVE  /\ PairInv'
           /\ HalfOpen' <=> Head(inbox) = Open(device.config[1])
           /\ Head(inbox).type = "open" =>
                 Head(inbox) = IF HalfOpen THEN Open(device.config[2]) ELSE Open(device.config[1])
           /\ \A x : (\E k \in DOMAIN inbox : inbox[k] = x) =>
                 Head(inbox) = x \/ \E k \in DOMAIN inbox' : inbox'[k] = x
<1> DEFINE s == inbox
           u == Tail(s)
           h == Head(s)
           x1 == Open(device.config[1])
           x2 == Open(device.config[2])
<1>1. /\ \A k \in DOMAIN u : k + 1 \in DOMAIN s /\ u[k] = s[k+1] /\ k \in Nat /\ k >= 1
      /\ \A k \in DOMAIN s : k = 1 \/ (k - 1 \in DOMAIN u /\ u[k-1] = s[k])
      /\ \A k \in DOMAIN s : k \in Nat
      /\ 1 \in DOMAIN s /\ h = s[1]
      /\ u # <<>> => 1 \in DOMAIN u
  BY DEF Types
<1> HIDE DEF u, h
<1>2. inbox' = u
  BY DEF u
<1>3. /\ \A k \in DOMAIN s : s[k].type = "open" =>
            /\ s[k] \in {x1, x2}
            /\ s[k] = x1 => k + 1 \in DOMAIN s /\ s[k+1] = x2
            /\ s[k] = x2 => k = 1 \/ (k - 1 \in DOMAIN s /\ s[k-1] = x1)
      /\ x1 # x2 /\ x1.type = "open" /\ x2.type = "open"
  BY OpenFacts DEF PairInv
<1>4. x1.desc = device.config[1] /\ x2.desc = device.config[2]
  BY DEF Open
<1> HIDE DEF x1, x2
<1>5. PairInv'
  <2> SUFFICES ASSUME NEW k \in DOMAIN u, u[k].type = "open"
               PROVE  /\ u[k].desc \in {device.config[1], device.config[2]}
                      /\ u[k].desc = device.config[1] => k + 1 \in DOMAIN u /\ u[k+1] = x2
                      /\ u[k].desc = device.config[2] =>
                            k = 1 \/ (k - 1 \in DOMAIN u /\ u[k-1] = x1)
    BY <1>2 DEF PairInv, x1, x2
  <2>1. k + 1 \in DOMAIN s /\ u[k] = s[k+1] /\ k \in Nat /\ k >= 1
    BY <1>1
  <2>2. u[k] \in {x1, x2}
    BY <1>3, <2>1
  <2>5. device.config[1] # device.config[2]
    BY <1>3, <1>4 DEF x1, x2
  <2>3. CASE u[k] = x1
    <3>1. (k + 1) + 1 \in DOMAIN s /\ s[(k + 1) + 1] = x2
      BY <1>3, <2>1, <2>3
    <3>2. ((k + 1) + 1) - 1 = k + 1 /\ (k + 1) + 1 # 1
      BY <2>1
    <3>3. k + 1 \in DOMAIN u /\ u[k+1] = x2
      BY <1>1, <3>1, <3>2
    <3>4. u[k].desc = device.config[1]
      BY <1>4, <2>3
    <3> QED BY <2>5, <3>3, <3>4
  <2>4. CASE u[k] = x2
    <3>1. (k + 1) - 1 = k /\ k + 1 # 1
      BY <2>1
    <3>2. k \in DOMAIN s /\ s[k] = x1
      BY <1>3, <2>1, <2>4, <3>1
    <3>3. k = 1 \/ (k - 1 \in DOMAIN u /\ u[k-1] = x1)
      BY <1>1, <3>2
    <3>4. u[k].desc = device.config[2]
      BY <1>4, <2>4
    <3>5. device.config[1] # device.config[2]
      BY <1>3, <1>4 DEF x1, x2
    <3> QED BY <3>3, <3>4, <3>5
  <2> QED BY <2>2, <2>3, <2>4
<1>6. HalfOpen' <=> h = x1
  <2>1. HalfOpen' <=> u # <<>> /\ u[1] = x2
    BY <1>2 DEF HalfOpen, x2
  <2>2. u # <<>> /\ u[1] = x2 => h = x1
    <3> SUFFICES ASSUME u # <<>>, u[1] = x2 PROVE h = x1
      OBVIOUS
    <3>1. 1 + 1 \in DOMAIN s /\ s[1+1] = x2
      BY <1>1
    <3>2. (1 + 1) - 1 = 1 /\ 1 + 1 # 1
      OBVIOUS
    <3> QED BY <1>1, <1>3, <3>1, <3>2
  <2>3. h = x1 => u # <<>> /\ u[1] = x2
    <3> SUFFICES ASSUME h = x1 PROVE u # <<>> /\ u[1] = x2
      OBVIOUS
    <3>1. 1 + 1 \in DOMAIN s /\ s[1+1] = x2
      BY <1>1, <1>3
    <3>2. (1 + 1) - 1 = 1 /\ 1 + 1 # 1
      OBVIOUS
    <3>3. 1 \in DOMAIN u /\ u[1] = x2
      BY <1>1, <3>1, <3>2
    <3> QED BY <3>3
  <2> QED BY <2>1, <2>2, <2>3
<1>7. h.type = "open" => h = IF HalfOpen THEN x2 ELSE x1
  BY <1>1, <1>3 DEF HalfOpen, x2
<1>8. \A x : (\E k \in DOMAIN s : s[k] = x) => h = x \/ \E k \in DOMAIN u : u[k] = x
  BY <1>1
<1> QED BY <1>2, <1>5, <1>6, <1>7, <1>8 DEF x1, x2, h

\* The master sends messages, which are not for the pool.
LEMMA OtherMessages ==
    ASSUME Types, PairInv, SendsOther, device' = device
    PROVE  /\ PairInv' /\ HalfOpen' = HalfOpen
           /\ \A k \in DOMAIN inbox : k \in DOMAIN inbox' /\ inbox'[k] = inbox[k]
<1> PICK t \in Seq(MessageSet) : inbox' = inbox \o t /\ \A k \in DOMAIN t : t[k].type # "open"
  BY DEF SendsOther
<1> DEFINE s == inbox
           u == s \o t
<1>1. /\ \A k \in DOMAIN s : k \in DOMAIN u /\ u[k] = s[k] /\ k \in Nat
      /\ \A k \in DOMAIN u : k \in DOMAIN s \/ u[k].type # "open"
      /\ s # <<>> => 1 \in DOMAIN s
      /\ u # <<>> => 1 \in DOMAIN u
      /\ s = <<>> => DOMAIN s = {}
  BY DEF Types
<1> HIDE DEF u
<1>2. inbox' = u
  BY DEF u
<1>3. PairInv'
  BY <1>1, <1>2 DEF PairInv
<1>4. HalfOpen' = HalfOpen
  <2>1. HalfOpen => HalfOpen'
    BY <1>1, <1>2 DEF HalfOpen
  <2>2. HalfOpen' => HalfOpen
    BY <1>1, <1>2, OpenFacts DEF HalfOpen
  <2> QED BY <2>1, <2>2 DEF HalfOpen
<1> QED BY <1>1, <1>2, <1>3, <1>4

\* A sequence with two more elements.
LEMMA TwoMore ==
    ASSUME NEW S, NEW s \in Seq(S), NEW o \in Seq(S), Len(o) = 2
    PROVE  /\ Len(s \o o) = Len(s) + 2 /\ DOMAIN (s \o o) = 1..(Len(s) + 2)
           /\ DOMAIN s = 1..Len(s) /\ Len(s) \in Nat
           /\ \A k \in 1..Len(s) : (s \o o)[k] = s[k]
           /\ (s \o o)[Len(s) + 1] = o[1] /\ (s \o o)[Len(s) + 2] = o[2]
<1> DEFINE n == Len(s)
<1>1. n \in Nat /\ DOMAIN s = 1..n /\ s \o o \in Seq(S)
  OBVIOUS
<1>2. /\ Len(s \o o) = n + 2
      /\ \A i \in 1..(n + 2) : (s \o o)[i] = IF i <= n THEN s[i] ELSE o[i - n]
  <2> DEFINE k == Len(o)
  <2>1. /\ Len(s \o o) = n + k
        /\ \A i \in 1..(n + k) : (s \o o)[i] = IF i <= n THEN s[i] ELSE o[i - n]
    BY ConcatProperties
  <2>2. k = 2
    OBVIOUS
  <2> HIDE DEF n, k
  <2> QED BY <2>1, <2>2
<1>3. DOMAIN (s \o o) = 1..(n + 2)
  BY <1>1, <1>2
<1> HIDE DEF n
<1>4. (s \o o)[n + 1] = o[1] /\ (s \o o)[n + 2] = o[2]
  <2>1. n + 1 \in 1..(n + 2) /\ n + 2 \in 1..(n + 2) /\ ~(n + 1 <= n) /\ ~(n + 2 <= n)
    BY <1>1
  <2>2. (n + 1) - n = 1 /\ (n + 2) - n = 2
    BY <1>1
  <2> QED BY <1>2, <2>1, <2>2
<1>5. \A k \in 1..n : (s \o o)[k] = s[k]
  BY <1>1, <1>2
<1> QED BY <1>1, <1>2, <1>3, <1>4, <1>5 DEF n

\* The master opens the endpoints of a configuration.
LEMMA OpenMessages ==
    ASSUME Types, PairInv, inbox' = inbox \o Opens, device' = device
    PROVE  /\ PairInv' /\ HalfOpen' = HalfOpen
           /\ \E k \in DOMAIN inbox' : inbox'[k] = Open(device.config[1])
<1> DEFINE s == inbox
           o == Opens
           u == s \o o
           n == Len(s)
           x1 == Open(device.config[1])
           x2 == Open(device.config[2])
<1>0. o \in Seq(MessageSet) /\ Len(o) = 2 /\ o[1] = x1 /\ o[2] = x2
  <2>1. \A i \in 1..2 : Open(device.config[i]) \in MessageSet
    BY DeviceFacts DEF Types, DeviceFact, Open, MessageSet
  <2> QED BY <2>1 DEF Opens
<1>1. /\ \A k \in DOMAIN s : k \in DOMAIN u /\ u[k] = s[k] /\ k \in Nat
      /\ \A k \in DOMAIN u : k \in DOMAIN s \/ k = n + 1 \/ k = n + 2
      /\ n \in Nat /\ n + 1 \in DOMAIN u /\ n + 2 \in DOMAIN u
      /\ u[n+1] = x1 /\ u[n+2] = x2
      /\ n > 0 => 1 \in DOMAIN s
      /\ n = 0 <=> s = <<>>
      /\ u # <<>>
  <2> HIDE DEF o, x1, x2
  <2>1. s \in Seq(MessageSet)
    BY DEF Types
  <2>2. /\ Len(u) = n + 2 /\ DOMAIN u = 1..(n + 2) /\ DOMAIN s = 1..n /\ n \in Nat
        /\ \A k \in 1..n : u[k] = s[k]
        /\ u[n+1] = o[1] /\ u[n+2] = o[2]
    BY <1>0, <2>1, TwoMore
  <2>5. n = 0 <=> s = <<>>
    BY <2>1
  <2>6. u # <<>>
    BY <2>2
  <2> HIDE DEF u, n
  <2> QED BY <1>0, <2>2, <2>5, <2>6
<1>2. x1 # x2 /\ x1.type = "open" /\ x2.type = "open"
      /\ x1.desc = device.config[1] /\ x2.desc = device.config[2]
  BY OpenFacts
<1> HIDE DEF u, x1, x2, n
<1>3. inbox' = u
  BY DEF u
<1>4. PairInv'
  <2> SUFFICES ASSUME NEW k \in DOMAIN u, u[k].type = "open"
               PROVE  /\ u[k].desc \in {device.config[1], device.config[2]}
                      /\ u[k].desc = device.config[1] => k + 1 \in DOMAIN u /\ u[k+1] = x2
                      /\ u[k].desc = device.config[2] =>
                            k = 1 \/ (k - 1 \in DOMAIN u /\ u[k-1] = x1)
    BY <1>3 DEF PairInv, x1, x2
  <2>1. CASE k \in DOMAIN s
    BY <1>1, <2>1 DEF PairInv, x1, x2
  <2>2. device.config[1] # device.config[2]
    BY <1>2 DEF x1, x2
  <2>3. CASE k = n + 1
    <3>1. (n + 1) + 1 = n + 2
      BY <1>1
    <3> QED BY <1>1, <1>2, <2>2, <2>3, <3>1
  <2>4. CASE k = n + 2
    <3>1. (n + 2) - 1 = n + 1
      BY <1>1
    <3> QED BY <1>1, <1>2, <2>2, <2>4, <3>1
  <2> QED BY <1>1, <2>1, <2>3, <2>4
<1>5. HalfOpen' = HalfOpen
  <2>1. CASE n = 0
    BY <1>1, <1>2, <1>3, <2>1 DEF HalfOpen, x2
  <2>2. CASE n > 0
    BY <1>1, <1>3, <2>2 DEF HalfOpen
  <2> QED BY <1>1, <2>1, <2>2
<1> QED BY <1>1, <1>3, <1>4, <1>5 DEF x1

\* With slots 1..n taken, the next endpoint gets slot n + 1, or the last.
LEMMA Free ==
    ASSUME drv \in DrvSet, NEW half, NEW n \in 0..Slots, Taken(drv.pool, half, n)
    PROVE  NextFreeSlot(drv) = IF n < Slots THEN n + 1 ELSE Slots
<1> DEFINE free == {i \in 1..Slots : ~drv.pool[i].conf}
<1>1. \A i \in 1..Slots : i \in free <=> i > n
  BY DEF Taken
<1>2. free \subseteq Nat /\ free \subseteq 1..Slots
  OBVIOUS
<1>3. NextFreeSlot(drv) = IF free = {} THEN Slots ELSE Min(free)
  BY DEF NextFreeSlot
<1> HIDE DEF free
<1>4. CASE n < Slots
  <2>1. n + 1 \in free /\ \A i \in free : n + 1 <= i
    BY <1>1, <1>2, <1>4
  <2>2. Min(free) \in free /\ \A i \in free : Min(free) <= i
    BY <1>2, <2>1, Lowest
  <2>3. Min(free) = n + 1
    <3>1. Min(free) <= n + 1 /\ n + 1 <= Min(free) /\ Min(free) \in Nat
      BY <1>2, <2>1, <2>2
    <3> QED BY <3>1
  <2> QED BY <1>3, <1>4, <2>1, <2>3
<1>5. CASE n = Slots
  <2>1. free = {}
    BY <1>1, <1>2, <1>5
  <2> QED BY <1>3, <1>5, <2>1
<1> QED BY <1>4, <1>5

\* EDPT_OPEN for the endpoint e.
LEMMA Opened ==
    ASSUME Types, NEW e \in DescSet, drv' = EdptOpen(drv, e), NEW i \in 1..Slots,
           i = NextFreeSlot(drv)
    PROVE  /\ drv' \in DrvSet /\ drv'.out = drv.out
           /\ \A j \in 1..Slots : j # i => drv'.pool[j] = drv.pool[j]
           /\ drv'.pool[i].conf /\ drv'.pool[i].addr = e.addr /\ drv'.pool[i].mps = e.mps
           /\ drv'.pool[i].inum = IF e.bulk THEN NotInterrupt
                                  ELSE IF drv.pool[i].conf THEN drv.pool[i].inum ELSE i - 1
<1> DEFINE old == drv.pool[i]
           inum == IF e.bulk THEN NotInterrupt ELSE IF old.conf THEN old.inum ELSE i - 1
           set == [old EXCEPT !.inum = inum]
           ep == EndpointInit(set, e.addr, e.mps)
           panic == drv.panic \/ (~e.bulk /\ inum = NotInterrupt)
<1>1. old \in EpSet /\ drv.pool \in [0..Slots -> EpSet] /\ drv \in DrvSet
  BY DEF Types, DrvSet
<1>2. set \in EpSet /\ set.inum = inum
  <2>1. inum \in 0..(Slots - 1) \cup {NotInterrupt}
    BY <1>1 DEF EpSet
  <2> HIDE DEF inum, old
  <2> QED BY <1>1, <2>1 DEF EpSet
<1>3. e.addr \in Addresses /\ e.mps \in Nat
  BY DEF DescSet
<1>4. drv' = [drv EXCEPT !.pool[i] = ep, !.panic = panic]
  BY DEF EdptOpen, OpenSlot
<1> HIDE DEF set
<1>5. ep \in EpSet /\ ep.addr = e.addr /\ ep.mps = e.mps /\ ep.conf /\ ep.inum = inum
  <2> HIDE DEF old, inum
  <2> QED BY <1>2, <1>3, Inits
<1>6. panic \in BOOLEAN
  BY <1>1 DEF DrvSet
<1> HIDE DEF ep, panic, inum
<1>7. drv'.pool = [drv.pool EXCEPT ![i] = ep]
  BY <1>1, <1>4 DEF DrvSet
<1>8. drv' \in DrvSet /\ drv'.out = drv.out
  <2> DEFINE pool == [drv.pool EXCEPT ![i] = ep]
  <2>1. pool \in [0..Slots -> EpSet]
    BY <1>1, <1>5
  <2>2. drv' = [drv EXCEPT !.pool = pool, !.panic = panic]
    BY <1>1, <1>4 DEF DrvSet
  <2> HIDE DEF pool
  <2> QED BY <1>1, <1>6, <2>1, <2>2 DEF DrvSet
<1> QED BY <1>1, <1>5, <1>7, <1>8 DEF inum

\* A step that opens nothing.
LEMMA PoolStays ==
    ASSUME Types, PoolInv, SameSlots(drv, drv'), HalfOpen' = HalfOpen, device' = device,
           (drivers.configured => \E k \in DOMAIN inbox : inbox[k] = Open(device.config[1]))
              => (drivers'.configured => \E k \in DOMAIN inbox' : inbox'[k] = Open(device.config[1]))
    PROVE  PoolInv'
<1> PICK n \in 0..Slots : Taken(drv.pool, HalfOpen, n) /\ Told(n)
  BY DEF PoolInv
<1>1. \A i \in 1..Slots : \A e : Belongs(drv.pool, i, e) => Belongs(drv'.pool, i, e)
  BY DEF Belongs, SameSlots
<1>2. Taken(drv'.pool, HalfOpen, n)
  BY <1>1 DEF Taken, SameSlots
<1>3. Taken(drv.pool, HalfOpen, n)'
  BY <1>2 DEF Taken, Belongs
<1>4. Told(n)'
  BY DEF Told
<1> QED BY <1>3, <1>4 DEF PoolInv

\* A step that neither opens nor sends.
LEMMA Quietly ==
    ASSUME SlotInv, Types', SameSlots(drv, drv'), UNCHANGED <<device, inbox, drivers>>
    PROVE  SlotInv'
<1>1. PairInv'
  BY DEF SlotInv, PairInv
<1>2. PoolInv'
  BY PoolStays DEF SlotInv, HalfOpen
<1> QED BY <1>1, <1>2 DEF SlotInv

\* The slave takes a message that opens nothing.
LEMMA Handles ==
    ASSUME SlotInv, SetupData \/ UsbData
    PROVE  SlotInv'
<1>1. Types' /\ SameSlots(drv, drv')
  BY SetupActs, DataActs DEF SlotInv
<1>2. /\ inbox # <<>> /\ Head(inbox).type # "open" /\ inbox' = Tail(inbox)
      /\ UNCHANGED <<device, drivers>>
  BY DEF SetupData, UsbData, Dequeue
<1>3. /\ Head(inbox) # Open(device.config[1]) /\ Head(inbox) # Open(device.config[2])
  BY <1>2 DEF Open
<1>4. /\ PairInv' /\ ~HalfOpen'
      /\ (\E k \in DOMAIN inbox : inbox[k] = Open(device.config[1])) =>
             \E k \in DOMAIN inbox' : inbox'[k] = Open(device.config[1])
  BY <1>2, <1>3, TakenMessage DEF SlotInv
<1>5. ~HalfOpen
  <2>1. inbox # <<>> => Head(inbox) = inbox[1]
    BY DEF SlotInv, Types
  <2> QED BY <1>3, <2>1 DEF HalfOpen
<1>6. PoolInv'
  <2>1. HalfOpen' = HalfOpen
    BY <1>4, <1>5 DEF HalfOpen
  <2> QED BY <1>1, <1>2, <1>4, <2>1, PoolStays DEF SlotInv
<1> QED BY <1>1, <1>4, <1>6 DEF SlotInv

\* Parity.
LEMMA Turns ==
    ASSUME NEW n \in Nat
    PROVE  /\ n % 2 \in {0, 1} /\ 0 % 2 = 0
           /\ (n + 1) % 2 = 1 <=> n % 2 # 1
  OBVIOUS

\* EDPT_OPEN takes the next slot, or the last one again.
LEMMA OpenActs ==
    ASSUME SlotInv, OpenEndpoint
    PROVE  SlotInv'
<1> DEFINE x == Head(inbox)
           e == x.desc
           i == NextFreeSlot(drv)
<1>1. /\ inbox # <<>> /\ x.type = "open" /\ inbox' = Tail(inbox) /\ drv' = EdptOpen(drv, e)
      /\ UNCHANGED <<device, bits, transDone, outbox, dev, drivers>>
  BY DEF OpenEndpoint, Dequeue
<1>2. /\ e \in DescSet /\ Tail(inbox) \in Seq(MessageSet)
  BY <1>1, HeadFacts DEF SlotInv
<1>3. PICK n \in 0..Slots : Taken(drv.pool, HalfOpen, n) /\ Told(n)
  BY DEF SlotInv, PoolInv
<1> DEFINE m == IF n < Slots THEN n + 1 ELSE Slots
<1>4. i = m /\ m \in 1..Slots
  BY <1>3, Free DEF SlotInv, Types
<1>5. /\ PairInv' /\ (HalfOpen' <=> x = Open(device.config[1]))
      /\ x = IF HalfOpen THEN Open(device.config[2]) ELSE Open(device.config[1])
      /\ Open(device.config[1]) # Open(device.config[2])
  BY <1>1, TakenMessage, OpenFacts DEF SlotInv
<1>6. (HalfOpen' <=> ~HalfOpen) /\ e = device.config[IF HalfOpen THEN 2 ELSE 1]
  BY <1>5, OpenFacts DEF SlotInv
<1> HIDE DEF x, i
<1>7. /\ drv' \in DrvSet /\ drv'.out = drv.out
      /\ \A j \in 1..Slots : j # m => drv'.pool[j] = drv.pool[j]
      /\ drv'.pool[m].conf /\ drv'.pool[m].addr = e.addr /\ drv'.pool[m].mps = e.mps
      /\ drv'.pool[m].inum = IF e.bulk THEN NotInterrupt
                             ELSE IF drv.pool[m].conf THEN drv.pool[m].inum ELSE m - 1
  BY <1>1, <1>2, <1>4, Opened DEF SlotInv, i
<1>8. Types'
  BY <1>1, <1>2, <1>7 DEF SlotInv, Types
<1> DEFINE c(k) == device.config[k]
<1>9. c(1).bulk = c(2).bulk
  BY DeviceFacts DEF SlotInv, Types, DeviceFact
<1>10. ~e.bulk /\ drv.pool[m].conf => drv.pool[m].inum = m - 1
  <2> SUFFICES ASSUME ~e.bulk, drv.pool[m].conf PROVE drv.pool[m].inum = m - 1
    OBVIOUS
  <2>1. n = Slots /\ m = n
    BY <1>3, <1>4 DEF Taken
  <2>2. Belongs(drv.pool, m, c(IF HalfOpen THEN 1 ELSE 2))
    BY <1>3, <1>4, <2>1 DEF Taken
  <2> QED BY <1>6, <1>9, <2>2 DEF Belongs
<1>11. Belongs(drv'.pool, m, e)
  BY <1>7, <1>10 DEF Belongs
<1>12. \A j \in 1..Slots : \A f : j # m /\ Belongs(drv.pool, j, f) => Belongs(drv'.pool, j, f)
  BY <1>7 DEF Belongs
<1>13. Taken(drv'.pool, ~HalfOpen, m)
  <2>1. \A j \in 1..Slots : drv'.pool[j].conf <=> j <= m
    BY <1>3, <1>4, <1>7 DEF Taken
  <2>2. \A j \in 1..Slots : j < m => Belongs(drv'.pool, j, c(IF j % 2 = 1 THEN 1 ELSE 2))
    <3> SUFFICES ASSUME NEW j \in 1..Slots, j < m
                 PROVE  Belongs(drv.pool, j, c(IF j % 2 = 1 THEN 1 ELSE 2))
      BY <1>12
    <3>1. CASE j < n
      BY <1>3, <3>1 DEF Taken
    <3>2. CASE j = n
      <4>1. n < Slots /\ n > 0
        BY <1>4, <3>2
      <4>2. Belongs(drv.pool, n, c(IF HalfOpen THEN 1 ELSE 2)) /\ (HalfOpen <=> n % 2 = 1)
        BY <1>3, <4>1 DEF Taken
      <4> QED BY <3>2, <4>2
    <3> QED BY <1>4, <3>1, <3>2
  <2>3. Belongs(drv'.pool, m, c(IF ~HalfOpen THEN 1 ELSE 2))
    BY <1>6, <1>11
  <2>4. m < Slots => (~HalfOpen <=> m % 2 = 1)
    <3> SUFFICES ASSUME m < Slots PROVE ~HalfOpen <=> m % 2 = 1
      OBVIOUS
    <3>1. m = n + 1 /\ n \in Nat /\ n < Slots
      BY <1>4
    <3> QED BY <1>3, <3>1, Turns DEF Taken
  <2> QED BY <1>4, <2>1, <2>2, <2>3, <2>4 DEF Taken
<1>14. Taken(drv.pool, HalfOpen, m)'
  <2>1. Taken(drv'.pool, HalfOpen', m)
    BY <1>6, <1>13 DEF Taken
  <2> QED BY <1>1, <2>1 DEF Taken, Belongs
<1>15. Told(m)'
  BY <1>4 DEF Told
<1>16. PoolInv'
  BY <1>4, <1>14, <1>15 DEF PoolInv
<1> QED BY <1>5, <1>8, <1>16 DEF SlotInv

\* Nothing is open at first.
LEMMA Initially == Init => SlotInv
<1> SUFFICES ASSUME Init PROVE SlotInv
  OBVIOUS
<1>1. device \in Devices /\ device.ask \in Nat
  BY DeviceFacts DEF Init, DeviceFact
<1>2. FreeSlot \in EpSet /\ ~FreeSlot.conf
  <2>1. 0 \in Pid /\ 0 \in 0..(Slots-1)
    BY DEF Pid
  <2> QED BY <2>1, Addressing DEF FreeSlot, EpSet
<1>3. [FreeSlot EXCEPT !.mps = device.ask, !.conf = TRUE, !.inum = NotInterrupt] \in EpSet
  BY <1>1, <1>2 DEF EpSet
<1>4. NoBuf \in BufSet /\ NoTrans \in TransSet
  BY Addressing DEF NoBuf, BufSet, NoTrans, TransSet, Pid
<1>5. /\ drv.pool \in [0..Slots -> EpSet]
      /\ \A i \in 1..Slots : drv.pool[i] = FreeSlot
  BY <1>2, <1>3 DEF Init
<1>6. drv \in DrvSet /\ drv.out = <<>>
  <2> DEFINE pool == drv.pool
             bufs == [i \in 0..Slots |-> NoBuf]
  <2>1. /\ pool \in [0..Slots -> EpSet] /\ bufs \in [0..Slots -> BufSet]
        /\ 0 \in 0..Slots /\ 2 \in 0..3 /\ <<>> \in Seq(PacketSet)
    BY <1>4, <1>5
  <2>2. drv = [pool |-> pool, active |-> 0, level |-> 2, reads |-> TRUE,
               bugger |-> Control(TRUE), sie |-> "base", trans |-> NoTrans,
               bufs |-> bufs, out |-> <<>>, panic |-> FALSE]
    BY DEF Init
  <2>3. Control(TRUE) \in Addresses
    BY Addressing
  <2> HIDE DEF pool, bufs
  <2> QED BY <1>4, <2>1, <2>2, <2>3 DEF DrvSet
<1>7. dev \in DevSet
  <2>1. \A a \in Addresses : (IF a.num = 0 THEN 1 ELSE 0) \in Pid
    BY DEF Pid
  <2> QED BY <2>1 DEF Init, DevSet
<1>8. drivers \in DriversSet
  BY DEF Init, DriversSet
<1>9. inbox = <<>> /\ outbox = <<>> /\ bits = {} /\ transDone = FALSE
  BY DEF Init
<1>10. Types
  <2>1. /\ <<>> \in Seq(MessageSet) /\ <<>> \in Seq(PacketSet)
        /\ {} \subseteq 0..Slots /\ FALSE \in BOOLEAN
    OBVIOUS
  <2> QED BY <1>1, <1>6, <1>7, <1>8, <1>9, <2>1 DEF Types
<1>11. PairInv
  BY <1>9 DEF PairInv
<1>12. Taken(drv.pool, HalfOpen, 0)
  <2>1. ~HalfOpen
    BY <1>9 DEF HalfOpen
  <2> QED BY <1>2, <1>5, <2>1, Turns DEF Taken
<1>13. Told(0)
  BY DEF Init, Told
<1> QED BY <1>10, <1>11, <1>12, <1>13 DEF SlotInv, PoolInv

\* The master's steps keep SlotInv.
LEMMA MasterStep ==
    ASSUME SlotInv, MasterActions
    PROVE  SlotInv'
<1>1. /\ Types' /\ UNCHANGED <<drv, device>>
      /\ SendsOther \/ (TakeControl /\ inbox' = inbox \o Opens)
  BY MasterActs DEF SlotInv
<1>2. SameSlots(drv, drv')
  BY <1>1 DEF SameSlots
<1>3. CASE SendsOther
  <2>1. /\ PairInv' /\ HalfOpen' = HalfOpen
        /\ \A k \in DOMAIN inbox : k \in DOMAIN inbox' /\ inbox'[k] = inbox[k]
    BY <1>1, <1>3, OtherMessages DEF SlotInv
  <2>2. drivers'.configured = drivers.configured
    BY <1>3 DEF SendsOther
  <2>3. PoolInv'
    BY <1>1, <1>2, <2>1, <2>2, PoolStays DEF SlotInv
  <2> QED BY <1>1, <2>1, <2>3 DEF SlotInv
<1>4. CASE inbox' = inbox \o Opens
  <2>1. /\ PairInv' /\ HalfOpen' = HalfOpen
        /\ \E k \in DOMAIN inbox' : inbox'[k] = Open(device.config[1])
    BY <1>1, <1>4, OpenMessages DEF SlotInv
  <2>2. PoolInv'
    BY <1>1, <1>2, <2>1, PoolStays DEF SlotInv
  <2> QED BY <1>1, <2>1, <2>2 DEF SlotInv
<1> QED BY <1>1, <1>3, <1>4

\* SlotInv is inductive.
LEMMA Stepwise == SlotInv /\ [Next]_vars => SlotInv'
<1> SUFFICES ASSUME SlotInv, [Next]_vars PROVE SlotInv'
  OBVIOUS
<1>1. CASE Poll
  <2>1. UNCHANGED <<device, inbox, drivers>>
    BY <1>1 DEF Poll, PollClearing
  <2> QED BY <1>1, <2>1, PollActs, Quietly DEF SlotInv
<1>2. CASE SlaveWork
  BY <1>2, Handles, OpenActs DEF SlaveWork
<1>3. CASE Device \/ \E i \in 1..Slots : DeviceReport(i)
  BY <1>3, DeviceActs, Quietly DEF SlotInv
<1>4. CASE MasterActions
  BY <1>4, MasterStep
<1>5. CASE UNCHANGED vars
  <2>1. Types'
    BY <1>5 DEF SlotInv, Types, vars
  <2>2. SameSlots(drv, drv')
    BY <1>5 DEF SameSlots, vars
  <2> QED BY <1>5, <2>1, <2>2, Quietly DEF vars
<1> QED BY <1>1, <1>2, <1>3, <1>4, <1>5 DEF Next, MasterActions

\* Types and the pool, for every device and pool, whatever control requests and data do.
THEOREM Invariance == Spec => []SlotInv
<1>1. Init => SlotInv
  BY Initially
<1>2. SlotInv /\ [Next]_vars => SlotInv'
  BY Stepwise
<1> QED BY <1>1, <1>2, PTL DEF Spec

\* The two endpoints of a device have slots of their own, the first ones, however often
\* the configuration is read and the last slot of the pool given away
\* (hcd_rp2040.c:233-269).
THEOREM EndpointsAlwaysKept == Spec => []EndpointsKept
<1>1. SlotInv => EndpointsKept
  <2> DEFINE c(k) == device.config[k]
  <2> SUFFICES ASSUME SlotInv, NEW e \in {c(1), c(2)}, drivers.configured,
                      \A k \in 1..Len(inbox) : inbox[k].type = "open" => inbox[k].desc # e
               PROVE  /\ SlotsOf(drv, e.addr) # {}
                      /\ LET ep == drv.pool[SlotOf(drv, e.addr)]
                         IN  ep.mps = e.mps /\ (ep.inum = NotInterrupt) = e.bulk
    <3>1. SlotInv => ToSet(device.config) = {c(1), c(2)}
      BY DeviceFacts DEF SlotInv, Types, DeviceFact
    <3> QED BY <3>1 DEF EndpointsKept
  <2>1. /\ c(1).addr # c(2).addr /\ e.addr.num # 0 /\ e.addr \in Addresses /\ e.bulk \in BOOLEAN
        /\ drv \in DrvSet
    BY DeviceFacts DEF SlotInv, Types, DeviceFact, DescSet
  <2>2. \A k \in DOMAIN inbox : inbox[k] # Open(e)
    <3>1. DOMAIN inbox = 1..Len(inbox)
      BY DEF SlotInv, Types
    <3> QED BY <3>1, OpenFacts DEF SlotInv
  <2>3. PICK n \in 0..Slots : Taken(drv.pool, HalfOpen, n) /\ Told(n)
    BY DEF SlotInv, PoolInv
  <2>4. ASSUME NEW i \in 1..Slots, drv.pool[i].conf, drv.pool[i].addr = e.addr
        PROVE  Belongs(drv.pool, i, e)
    <3>1. i <= n
      BY <2>3, <2>4 DEF Taken
    <3>2. \E f \in {c(1), c(2)} : Belongs(drv.pool, i, f)
      <4>1. CASE i < n
        BY <2>3, <4>1 DEF Taken
      <4>2. CASE i = n
        BY <2>3, <4>2 DEF Taken
      <4> QED BY <3>1, <4>1, <4>2
    <3> QED BY <2>1, <2>4, <3>2 DEF Belongs
  <2>5. \E i \in 1..Slots : Belongs(drv.pool, i, e)
    <3>1. n # 0
      <4> SUFFICES ASSUME n = 0 PROVE FALSE
        OBVIOUS
      <4>1. PICK k \in DOMAIN inbox : inbox[k] = Open(c(1))
        BY <2>3 DEF Told
      <4>2. k + 1 \in DOMAIN inbox /\ inbox[k+1] = Open(c(2))
        BY <4>1, OpenFacts DEF SlotInv, PairInv
      <4> QED BY <2>2, <4>1, <4>2
    <3>2. CASE e = c(1)
      <4>1. CASE n > 1
        <5>1. 1 \in 1..Slots /\ 1 % 2 = 1 /\ 1 < n
          BY <4>1, Turns
        <5> QED BY <2>3, <3>2, <5>1 DEF Taken
      <4>2. CASE n = 1
        <5>1. 1 % 2 = 1 /\ n < Slots /\ n > 0
          BY <4>2, Turns
        <5> QED BY <2>3, <3>2, <4>2, <5>1 DEF Taken
      <4> QED BY <3>1, <4>1, <4>2
    <3>3. CASE e = c(2)
      <4>1. ~HalfOpen
        <5>1. inbox # <<>> => 1 \in DOMAIN inbox
          BY DEF SlotInv, Types
        <5> QED BY <2>2, <3>3, <5>1 DEF HalfOpen
      <4> QED BY <2>3, <3>1, <3>3, <4>1 DEF Taken
    <3> QED BY <3>2, <3>3
  <2>6. SlotsOf(drv, e.addr) # {}
    BY <2>1, <2>5 DEF SlotsOf, Belongs
  <2> DEFINE i == SlotOf(drv, e.addr)
  <2>7. i \in 1..Slots /\ drv.pool[i].conf /\ drv.pool[i].addr = e.addr
    <3>1. SlotsOf(drv, e.addr) \subseteq Nat
      BY DEF SlotsOf
    <3>2. i \in SlotsOf(drv, e.addr)
      BY <2>6, <3>1, Lowest DEF SlotOf
    <3> QED BY <2>1, <3>2 DEF SlotsOf
  <2> HIDE DEF i
  <2>8. Belongs(drv.pool, i, e)
    BY <2>4, <2>7
  <2>9. i - 1 # NotInterrupt
    BY <2>7 DEF NotInterrupt
  <2>10. drv.pool[i].mps = e.mps /\ (drv.pool[i].inum = NotInterrupt) = e.bulk
    BY <2>1, <2>8, <2>9 DEF Belongs
  <2> QED BY <2>6, <2>10 DEF i
<1> QED BY <1>1, Invariance, PTL
=============================================================================
