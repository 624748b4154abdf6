---------------------------- MODULE SpiSyncOrder ----------------------------
(***************************************************************************)
(* Proofs, for every Capacity, MaxMsg and Knocks, of the second half of    *)
(* the inductive invariant of SpiSyncProps, the order of the messages, and *)
(* of what follows from it: the channel, the gridlock condition.           *)
(***************************************************************************)
EXTENDS SpiSyncProofs

\* The part of InOrder about one direction, as a predicate on the places a
\* message passes: taken = t, the receiver's queue r, its hand (h, hv), the first
\* k frames of the wire w, the sender's hand (s, sv), its queue q, core 0's
\* message (a, av) and added = n.
Order(t, r, h, hv, w, k, s, sv, q, a, av, n) ==
    /\ t + Len(r) + h + k + s + Len(q) + a = n
    /\ \A i \in 1..Len(r) : Is(r[i], t + i)
    /\ h = 1 => Is(hv, t + Len(r) + 1)
    /\ \A i \in 1..k : Is(w[i].id, t + Len(r) + h + i)
    /\ s = 1 => Is(sv, t + Len(r) + h + k + 1)
    /\ \A i \in 1..Len(q) : Is(q[i], t + Len(r) + h + k + s + i)
    /\ a = 1 => Is(av, n)

\* A dequeue takes the next message out of r.
LEMMA OrderDequeue ==
    ASSUME NEW t \in Nat, NEW r \in Seq(Nat), NEW h \in 0..1, NEW hv \in Nat,
           NEW w \in Seq(Frame), NEW k \in Nat, NEW s \in 0..1, NEW sv \in Nat,
           NEW q \in Seq(Nat), NEW a \in 0..1, NEW av \in Nat, NEW n \in Nat,
           Order(t, r, h, hv, w, k, s, sv, q, a, av, n),
           r # <<>>
    PROVE  /\ Is(Head(r), t + 1)
           /\ Order(t + 1, Tail(r), h, hv, w, k, s, sv, q, a, av, n)
  <1>1. /\ Head(r) = r[1] /\ Len(r) >= 1 /\ Len(r) \in Nat
        /\ Len(Tail(r)) = Len(r) - 1
        /\ \A i \in 1..Len(Tail(r)) : Tail(r)[i] = r[i + 1]
    BY QueueFacts
  <1>2. Is(Head(r), t + 1)
    BY <1>1 DEF Order
  <1>3. ASSUME NEW i \in 1..Len(Tail(r)) PROVE Is(Tail(r)[i], t + 1 + i)
    <2>1. i + 1 \in 1..Len(r) /\ t + (i + 1) = t + 1 + i
      BY <1>1
    <2> QED
      BY <1>1, <2>1 DEF Order
  <1>4. (t + 1) + Len(Tail(r)) = t + Len(r)
    BY <1>1
  <1> QED
    BY <1>2, <1>3, <1>4 DEF Order

\* Storing appends what the receiver holds to r.
LEMMA OrderStore ==
    ASSUME NEW t \in Nat, NEW r \in Seq(Nat), NEW h \in 0..1, NEW hv \in Nat,
           NEW w \in Seq(Frame), NEW k \in Nat, NEW s \in 0..1, NEW sv \in Nat,
           NEW q \in Seq(Nat), NEW a \in 0..1, NEW av \in Nat, NEW n \in Nat,
           Order(t, r, h, hv, w, k, s, sv, q, a, av, n),
           h = 1, NEW hv2 \in Nat
    PROVE  Order(t, Append(r, hv), 0, hv2, w, k, s, sv, q, a, av, n)
  <1>1. /\ Len(Append(r, hv)) = Len(r) + 1 /\ Len(r) \in Nat
        /\ \A i \in 1..Len(r) : Append(r, hv)[i] = r[i]
        /\ Append(r, hv)[Len(r) + 1] = hv
    BY QueueFacts
  <1>2. ASSUME NEW i \in 1..Len(Append(r, hv)) PROVE Is(Append(r, hv)[i], t + i)
    <2>1. CASE i = Len(r) + 1
      BY <1>1, <2>1 DEF Order
    <2>2. CASE i # Len(r) + 1
      <3>1. i \in 1..Len(r)
        BY <1>1, <2>2
      <3> QED
        BY <1>1, <3>1 DEF Order
    <2> QED
      BY <2>1, <2>2
  <1>3. t + Len(Append(r, hv)) + 0 = t + Len(r) + h
    BY <1>1
  <1> QED
    BY <1>2, <1>3 DEF Order

\* Receiving a data frame moves it from the head of the wire to the hand.
LEMMA OrderReceive ==
    ASSUME NEW t \in Nat, NEW r \in Seq(Nat), NEW h \in 0..1, NEW hv \in Nat,
           NEW w \in Seq(Frame), NEW k \in Nat, NEW s \in 0..1, NEW sv \in Nat,
           NEW q \in Seq(Nat), NEW a \in 0..1, NEW av \in Nat, NEW n \in Nat,
           Order(t, r, h, hv, w, k, s, sv, q, a, av, n),
           h = 0, k >= 1, k <= Len(w), w # <<>>
    PROVE  Order(t, r, 1, Head(w).id, Tail(w), k - 1, s, sv, q, a, av, n)
  <1>1. /\ Head(w) = w[1] /\ Len(w) \in Nat /\ Len(w) >= 1
        /\ Len(Tail(w)) = Len(w) - 1
    BY WireFacts
  <1>e. \A i \in 1..Len(Tail(w)) : Tail(w)[i] = w[i + 1]
    BY WireFacts
  <1>2. Len(r) \in Nat
    OBVIOUS
  <1>3. Is(Head(w).id, t + Len(r) + 1)
    BY <1>1, <1>2 DEF Order
  <1>4. t + Len(r) + 1 + (k - 1) = t + Len(r) + h + k
    BY <1>2
  <1>5. ASSUME NEW i \in 1..(k - 1)
        PROVE  Is(Tail(w)[i].id, t + Len(r) + 1 + i)
    <2>1. i + 1 \in 1..k /\ t + Len(r) + 1 + i = t + Len(r) + h + (i + 1)
      BY <1>2
    <2>2. Tail(w)[i] = w[i + 1]
      BY <1>1, <1>e
    <2> QED
      BY <2>1, <2>2 DEF Order
  <1> QED
    BY <1>3, <1>4, <1>5 DEF Order

\* Sending appends the sender's message to the data frames on the wire.
LEMMA OrderSend ==
    ASSUME NEW t \in Nat, NEW r \in Seq(Nat), NEW h \in 0..1, NEW hv \in Nat,
           NEW w \in Seq(Frame), NEW f \in Frame,
           NEW q \in Seq(Nat), NEW a \in 0..1, NEW av \in Nat, NEW n \in Nat,
           Order(t, r, h, hv, w, Len(w), 1, f.id, q, a, av, n)
    PROVE  Order(t, r, h, hv, Append(w, f), Len(w) + 1, 0, 0, q, a, av, n)
  <1> DEFINE k == Len(w)
  <1>1. /\ \A i \in 1..k : Append(w, f)[i] = w[i]
        /\ Append(w, f)[k + 1] = f
    BY WireFacts
  <1>2. Len(r) \in Nat /\ k \in Nat
    OBVIOUS
  <1>3. /\ t + Len(r) + h + k + 1 + Len(q) + a = n
        /\ \A i \in 1..k : Is(w[i].id, t + Len(r) + h + i)
        /\ Is(f.id, t + Len(r) + h + k + 1)
        /\ \A i \in 1..Len(q) : Is(q[i], t + Len(r) + h + k + 1 + i)
    BY DEF Order
  <1> HIDE DEF k
  <1>4. ASSUME NEW i \in 1..(k + 1)
        PROVE  Is(Append(w, f)[i].id, t + Len(r) + h + i)
    <2>1. CASE i = k + 1
      <3>1. t + Len(r) + h + k + 1 = t + Len(r) + h + i
        BY <1>2, <2>1
      <3> QED
        BY <1>1, <1>3, <2>1, <3>1
    <2>2. CASE i # k + 1
      <3>1. i \in 1..k
        BY <1>2, <2>2
      <3> QED
        BY <1>1, <1>3, <3>1
    <2> QED
      BY <2>1, <2>2
  <1>5. t + Len(r) + h + (k + 1) + 0 = t + Len(r) + h + k + 1
    BY <1>2
  <1> QED
    BY <1>3, <1>4, <1>5 DEF Order, k

\* Taking the head of the sender's queue.
LEMMA OrderTake ==
    ASSUME NEW t \in Nat, NEW r \in Seq(Nat), NEW h \in 0..1, NEW hv \in Nat,
           NEW w \in Seq(Frame), NEW k \in Nat, NEW s \in 0..1, NEW sv \in Nat,
           NEW q \in Seq(Nat), NEW a \in 0..1, NEW av \in Nat, NEW n \in Nat,
           Order(t, r, h, hv, w, k, s, sv, q, a, av, n),
           s = 0, q # <<>>
    PROVE  Order(t, r, h, hv, w, k, 1, Head(q), Tail(q), a, av, n)
  <1>1. /\ Head(q) = q[1] /\ Len(q) >= 1 /\ Len(q) \in Nat
        /\ Len(Tail(q)) = Len(q) - 1
        /\ \A i \in 1..Len(Tail(q)) : Tail(q)[i] = q[i + 1]
    BY QueueFacts
  <1>2. Len(r) \in Nat
    OBVIOUS
  <1>3. t + Len(r) + h + k + s + 1 = t + Len(r) + h + k + 1
    BY <1>2
  <1>4. Is(Head(q), t + Len(r) + h + k + 1)
    BY <1>1, <1>3 DEF Order
  <1>5. ASSUME NEW i \in 1..Len(Tail(q))
        PROVE  Is(Tail(q)[i], t + Len(r) + h + k + 1 + i)
    <2>1. /\ i + 1 \in 1..Len(q)
          /\ t + Len(r) + h + k + 1 + i = t + Len(r) + h + k + s + (i + 1)
      BY <1>1, <1>2
    <2> QED
      BY <1>1, <2>1 DEF Order
  <1>6. t + Len(r) + h + k + 1 + Len(Tail(q)) + a
          = t + Len(r) + h + k + s + Len(q) + a
    BY <1>1, <1>2
  <1> QED
    BY <1>4, <1>5, <1>6 DEF Order

\* Core 0 appends its message to the queue.
LEMMA OrderAdd ==
    ASSUME NEW t \in Nat, NEW r \in Seq(Nat), NEW h \in 0..1, NEW hv \in Nat,
           NEW w \in Seq(Frame), NEW k \in Nat, NEW s \in 0..1, NEW sv \in Nat,
           NEW q \in Seq(Nat), NEW a \in 0..1, NEW av \in Nat, NEW n \in Nat,
           Order(t, r, h, hv, w, k, s, sv, q, a, av, n),
           a = 1
    PROVE  Order(t, r, h, hv, w, k, s, sv, Append(q, av), 0, av, n)
  <1>1. /\ Len(Append(q, av)) = Len(q) + 1 /\ Len(q) \in Nat
        /\ \A i \in 1..Len(q) : Append(q, av)[i] = q[i]
        /\ Append(q, av)[Len(q) + 1] = av
    BY QueueFacts
  <1>2. Len(r) \in Nat
    OBVIOUS
  <1>3. t + Len(r) + h + k + s + (Len(q) + 1) = n
    BY <1>1, <1>2 DEF Order
  <1>4. ASSUME NEW i \in 1..Len(Append(q, av))
        PROVE  Is(Append(q, av)[i], t + Len(r) + h + k + s + i)
    <2>1. CASE i = Len(q) + 1
      BY <1>1, <1>3, <2>1 DEF Order
    <2>2. CASE i # Len(q) + 1
      <3>1. i \in 1..Len(q)
        BY <1>1, <2>2
      <3> QED
        BY <1>1, <3>1 DEF Order
    <2> QED
      BY <2>1, <2>2
  <1>5. t + Len(r) + h + k + s + Len(Append(q, av)) + 0 = n
    BY <1>1, <1>2, <1>3
  <1> QED
    BY <1>4, <1>5 DEF Order

\* Core 0 starts to add the next message.
LEMMA OrderEnqueue ==
    ASSUME NEW t \in Nat, NEW r \in Seq(Nat), NEW h \in 0..1, NEW hv \in Nat,
           NEW w \in Seq(Frame), NEW k \in Nat, NEW s \in 0..1, NEW sv \in Nat,
           NEW q \in Seq(Nat), NEW a \in 0..1, NEW av \in Nat, NEW n \in Nat,
           Order(t, r, h, hv, w, k, s, sv, q, a, av, n),
           a = 0, NEW av2 \in Nat, Is(av2, n + 1)
    PROVE  Order(t, r, h, hv, w, k, s, sv, q, 1, av2, n + 1)
  <1>1. Len(r) \in Nat /\ Len(q) \in Nat
    OBVIOUS
  <1>2. t + Len(r) + h + k + s + Len(q) + 1 = n + 1
    <2>1. t + Len(r) + h + k + s + Len(q) + a = n
      BY DEF Order
    <2> QED
      BY <1>1, <2>1
  <1> QED
    BY <1>2 DEF Order

\* What the order does not depend on: frames behind the data frames, and the
\* content of empty hands.
LEMMA OrderView ==
    ASSUME NEW t \in Nat, NEW r \in Seq(Nat), NEW h \in 0..1, NEW hv \in Nat,
           NEW w \in Seq(Frame), NEW k \in Nat, NEW s \in 0..1, NEW sv \in Nat,
           NEW q \in Seq(Nat), NEW a \in 0..1, NEW av \in Nat, NEW n \in Nat,
           Order(t, r, h, hv, w, k, s, sv, q, a, av, n),
           NEW w2, \A i \in 1..k : w2[i].id = w[i].id,
           NEW hv2, h = 1 => Is(hv2, t + Len(r) + 1), NEW sv2, s = 1 => sv2 = sv,
           NEW av2, a = 1 => av2 = av
    PROVE  Order(t, r, h, hv2, w2, k, s, sv2, q, a, av2, n)
  BY DEF Order

-----------------------------------------------------------------------------
(* The order in both directions.                                           *)

\* What core 1 of the master has taken out of tx to send.
SendHand == IF Sending("master") = 1 THEN hand["master"].id ELSE 0

\* Messages from the master to the slave, and from the slave to the master.
ToSlave ==
    Order(taken["slave"], rx["slave"], Holding("slave"), Held("slave"),
          wire["master"], DataOnWire("master"), Sending("master"), SendHand,
          tx["master"], Adding("master"), c0msg["master"], added["master"])
ToMaster ==
    Order(taken["master"], rx["master"], Holding("master"), Held("master"),
          wire["slave"], DataOnWire("slave"), 0, 0,
          tx["slave"], Adding("slave"), c0msg["slave"], added["slave"])

\* What each of them depends on.
ToSlaveView ==
    <<taken["slave"], rx["slave"], Holding("slave"), Held("slave"), wire["master"],
      DataOnWire("master"), Sending("master"), SendHand, tx["master"],
      Adding("master"), c0msg["master"], added["master"]>>
ToMasterView ==
    <<taken["master"], rx["master"], Holding("master"), Held("master"), wire["slave"],
      DataOnWire("slave"), tx["slave"], Adding("slave"), c0msg["slave"], added["slave"]>>

LEMMA SameOrder ==
    /\ ToSlave /\ UNCHANGED ToSlaveView => ToSlave'
    /\ ToMaster /\ UNCHANGED ToMasterView => ToMaster'
  BY DEF ToSlave, ToMaster, ToSlaveView, ToMasterView

LEMMA InOrderSplit == TypeOK => (InOrder <=> ToSlave /\ ToMaster)
  <1> SUFFICES ASSUME TypeOK PROVE InOrder <=> ToSlave /\ ToMaster
    OBVIOUS
  <1> QED
    BY DEF InOrder, NoneLost, InRx, InHand, OnWire, InTx, ToSlave, ToMaster, Order,
        Removed, Departed, Arrived, Stored, Other, Sending, SendHand,
        Held, One, Board

\* The values the lemmas on Order are applied to have the types they ask for.
LEMMA PlaceTypes ==
    ASSUME TypeOK, HandshakeInv
    PROVE  /\ \A b \in Board : /\ taken[b] \in Nat /\ rx[b] \in Seq(Nat) /\ tx[b] \in Seq(Nat)
                                /\ Holding(b) \in 0..1 /\ Held(b) \in Nat
                                /\ Sending(b) \in 0..1 /\ Adding(b) \in 0..1
                                /\ wire[b] \in Seq(Frame) /\ hand[b] \in Frame
                                /\ hand[b].id \in Nat /\ c0msg[b] \in Nat
                                /\ added[b] \in Nat /\ DataOnWire(b) \in Nat
                                /\ DataOnWire(b) <= Len(wire[b])
           /\ SendHand \in Nat /\ buf \in Frame /\ buf.id \in Nat
  <1>1. ASSUME NEW b \in Board
        PROVE  /\ taken[b] \in Nat /\ rx[b] \in Seq(Nat) /\ tx[b] \in Seq(Nat)
               /\ wire[b] \in Seq(Frame) /\ hand[b] \in Frame
               /\ c0msg[b] \in Nat /\ added[b] \in Nat /\ buf \in Frame
    BY DEF TypeOK, QueueTypes, FrameTypes, NumberTypes
  <1>2. ASSUME NEW b \in Board
        PROVE  hand[b].id \in Nat /\ buf.id \in Nat
    BY <1>1, FrameFacts
  <1>3. ASSUME NEW b \in Board
        PROVE  /\ Held(b) \in Nat
               /\ Holding(b) \in 0..1 /\ Sending(b) \in 0..1 /\ Adding(b) \in 0..1
    BY <1>2 DEF Held, Holding, Sending, Adding, One
  <1>s. SendHand \in Nat
    BY <1>2 DEF SendHand, Board
  <1>4. ASSUME NEW b \in Board
        PROVE  DataOnWire(b) \in Nat /\ DataOnWire(b) <= Len(wire[b])
    <2> DEFINE n == Len(wire[b])
               c == IF b = "master" THEN QueryOnWire ELSE CountOnWire
    <2>1. n \in Nat /\ DataOnWire(b) = n - One(c)
      BY <1>1 DEF DataOnWire
    <2>2. c => n # 0
      <3>1. b = "master" /\ QueryOnWire => wire[b] # <<>>
        BY DEF HandshakeInv, PhaseInv, MasterWire
      <3>2. b = "slave" /\ CountOnWire => wire[b] # <<>>
        BY DEF HandshakeInv, PhaseInv, SlaveWire
      <3> QED
        BY <3>1, <3>2, <1>1, EmptySeq DEF Board
    <2> HIDE DEF n, c
    <2>3. n - One(c) \in Nat /\ n - One(c) <= n
      BY <2>1, <2>2 DEF One
    <2> QED
      BY <2>1, <2>3 DEF n
  <1> QED
    BY <1>1, <1>2, <1>3, <1>s, <1>4 DEF Board

\* Core 1 of the master moves messages; it takes, sends, reads and stores them.
LEMMA OrderMaster ==
    TypeOK /\ HandshakeInv /\ ToSlave /\ ToMaster /\ MasterSync => ToSlave' /\ ToMaster'
  <1> SUFFICES ASSUME TypeOK, HandshakeInv, ToSlave, ToMaster, MasterSync
               PROVE  ToSlave' /\ ToMaster'
    OBVIOUS
  <1> "master" \in Board /\ "slave" \in Board
    BY DEF Board
  <1>t. /\ tx \in [Board -> Seq(Nat)] /\ rx \in [Board -> Seq(Nat)]
        /\ wire \in [Board -> Seq(Frame)] /\ hand \in [Board -> Frame]
        /\ pc \in [Board -> MasterPc \cup SlavePc]
        /\ pc["master"] \in MasterPc /\ pc["slave"] \in SlavePc
    BY DEF TypeOK, QueueTypes, FrameTypes, ControlTypes
  <1>i. PinPhase /\ MasterWire /\ SlaveWire
    BY DEF HandshakeInv, PhaseInv
  <1>0. UNCHANGED <<taken, core0, c0msg, added, Adding("master"), Adding("slave")>>
    BY DEF MasterSync, SyncStart, MasterTake, MasterQuery, MasterSend, MasterCount,
           ReadCount, MasterGather, MasterCopy, MasterStore, MasterRoundEnd, core0Vars,
           Adding
  <1>p. /\ taken["slave"] \in Nat /\ rx["slave"] \in Seq(Nat) /\ Holding("slave") \in 0..1
        /\ Held("slave") \in Nat /\ wire["master"] \in Seq(Frame)
        /\ DataOnWire("master") \in Nat /\ Sending("master") \in 0..1 /\ SendHand \in Nat
        /\ tx["master"] \in Seq(Nat) /\ Adding("master") \in 0..1
        /\ c0msg["master"] \in Nat /\ added["master"] \in Nat /\ hand["master"] \in Frame
    BY PlaceTypes
  <1>q. /\ taken["master"] \in Nat /\ rx["master"] \in Seq(Nat) /\ Holding("master") \in 0..1
        /\ Held("master") \in Nat /\ wire["slave"] \in Seq(Frame)
        /\ DataOnWire("slave") \in Nat /\ tx["slave"] \in Seq(Nat)
        /\ Adding("slave") \in 0..1 /\ c0msg["slave"] \in Nat /\ added["slave"] \in Nat
        /\ 0 \in Nat /\ 0 \in 0..1
    BY PlaceTypes
  <1>v. UNCHANGED ToSlaveView => ToSlave'
    BY SameOrder
  <1>w. UNCHANGED ToMasterView => ToMaster'
    BY SameOrder
  <1>1. CASE SyncStart
    <2>1. /\ pc["master"] = "check" /\ pc'["master"] = "drain" /\ pc'["slave"] = pc["slave"]
          /\ UNCHANGED <<tx, rx, wire, hand>>
      BY <1>1, <1>t DEF SyncStart, sharedVars
    <2>2. UNCHANGED ToSlaveView
      BY <1>0, <2>1
      DEF ToSlaveView, Holding, Held, Sending, SendHand, DataOnWire, QueryOnWire,
          Answering, One
    <2>3. UNCHANGED ToMasterView
      BY <1>0, <2>1 DEF ToMasterView, Holding, Held, DataOnWire, CountOnWire, One
    <2> QED
      BY <2>2, <2>3, <1>v, <1>w
  <1>2. CASE MasterTake
    <2>1. /\ pc["master"] = "drain" /\ pc'["master"] = "await" /\ pc'["slave"] = pc["slave"]
          /\ tx["master"] # <<>>
          /\ tx'["master"] = Tail(tx["master"]) /\ tx'["slave"] = tx["slave"]
          /\ hand'["master"] = Data(Head(tx["master"])) /\ hand'["slave"] = hand["slave"]
          /\ UNCHANGED <<rx, wire>>
      BY <1>2, <1>t DEF MasterTake
    <2>2. UNCHANGED <<Holding("slave"), Held("slave"), DataOnWire("master")>>
      BY <2>1 DEF Holding, Held, DataOnWire, QueryOnWire, Answering, One
    <2>3. /\ Sending("master") = 0 /\ Sending("master")' = 1
          /\ hand'["master"].id = Head(tx["master"])
      BY <2>1 DEF Sending, Data, One
    <2>4. ToSlave'
      <3>1. Order(taken["slave"], rx["slave"], Holding("slave"), Held("slave"),
                  wire["master"], DataOnWire("master"), 1, Head(tx["master"]),
                  Tail(tx["master"]), Adding("master"), c0msg["master"], added["master"])
        BY <2>1, <2>3, PlaceTypes, OrderTake DEF ToSlave
      <3> QED
        BY <1>0, <2>1, <2>2, <2>3, <3>1 DEF ToSlave, SendHand
    <2>5. UNCHANGED ToMasterView
      BY <1>0, <2>1 DEF ToMasterView, Holding, Held, DataOnWire, CountOnWire, One
    <2> QED
      BY <2>4, <2>5, <1>w
  <1>3. CASE MasterQuery
    <2>1. /\ pc["master"] = "drain" /\ pc'["master"] = "await" /\ pc'["slave"] = pc["slave"]
          /\ hand'["master"] = Query /\ hand'["slave"] = hand["slave"]
          /\ UNCHANGED <<tx, rx, wire>>
      BY <1>3, <1>t DEF MasterQuery, sharedVars
    <2>2. UNCHANGED ToSlaveView
      BY <1>0, <2>1
      DEF ToSlaveView, Holding, Held, Sending, SendHand, DataOnWire, QueryOnWire,
          Answering, One, Query
    <2>3. UNCHANGED ToMasterView
      BY <1>0, <2>1 DEF ToMasterView, Holding, Held, DataOnWire, CountOnWire, One
    <2> QED
      BY <2>2, <2>3, <1>v, <1>w
  <1>4. CASE MasterSend
    <2>1. /\ pc["master"] = "await" /\ waitingPin
          /\ pc'["master"] = IF hand["master"].type = "query" THEN "count" ELSE "drain"
          /\ pc'["slave"] = pc["slave"]
          /\ wire'["master"] = Append(wire["master"], hand["master"])
          /\ wire'["slave"] = wire["slave"]
          /\ UNCHANGED <<tx, rx, hand>>
      BY <1>4, <1>t DEF MasterSend, sharedVars
    <2>2. /\ ~Answering /\ pc["slave"] # "reply"
          /\ hand["master"].type \in {"data", "query"}
      BY <1>i, <2>1 DEF PinPhase, SlaveWire, Answering
    <2>3. UNCHANGED ToMasterView
      BY <1>0, <2>1, <2>2 DEF ToMasterView, Holding, Held, DataOnWire, CountOnWire, One
    <2>4. /\ Len(wire'["master"]) = Len(wire["master"]) + 1 /\ Len(wire["master"]) \in Nat
          /\ \A i \in 1..Len(wire["master"]) : wire'["master"][i] = wire["master"][i]
      BY <2>1, PlaceTypes, WireFacts
    <2>5. DataOnWire("master") = Len(wire["master"])
      BY <2>1, <2>4 DEF DataOnWire, QueryOnWire, One
    <2>6. UNCHANGED <<Holding("slave"), Held("slave")>>
      BY <2>1 DEF Holding, Held, One
    <2>7. CASE hand["master"].type = "data"
      <3>1. DataOnWire("master")' = DataOnWire("master") + 1
        BY <2>1, <2>4, <2>5, <2>7 DEF DataOnWire, QueryOnWire, One
      <3>2. /\ Sending("master") = 1 /\ Sending("master")' = 0
            /\ SendHand = hand["master"].id /\ SendHand' = 0
        BY <2>1, <2>7 DEF Sending, SendHand, One
      <3>3. Order(taken["slave"], rx["slave"], Holding("slave"), Held("slave"),
                  Append(wire["master"], hand["master"]), DataOnWire("master") + 1, 0, 0,
                  tx["master"], Adding("master"), c0msg["master"], added["master"])
        <4>1. Order(taken["slave"], rx["slave"], Holding("slave"), Held("slave"),
                    wire["master"], Len(wire["master"]), 1, hand["master"].id, tx["master"],
                    Adding("master"), c0msg["master"], added["master"])
          BY <2>5, <3>2 DEF ToSlave
        <4>2. Order(taken["slave"], rx["slave"], Holding("slave"), Held("slave"),
                    Append(wire["master"], hand["master"]), Len(wire["master"]) + 1, 0, 0,
                    tx["master"], Adding("master"), c0msg["master"], added["master"])
          BY <1>p, <4>1, OrderSend
        <4> QED
          BY <2>5, <4>2
      <3>4. ToSlave'
        BY <1>0, <2>1, <2>6, <3>1, <3>2, <3>3 DEF ToSlave
      <3> QED
        BY <2>3, <3>4, <1>w
    <2>8. CASE hand["master"].type = "query"
      <3>1. DataOnWire("master")' = DataOnWire("master")
        BY <2>1, <2>2, <2>4, <2>5, <2>8 DEF DataOnWire, QueryOnWire, Answering, One
      <3>2. /\ Sending("master") = 0 /\ Sending("master")' = 0
            /\ SendHand = 0 /\ SendHand' = 0
        BY <2>1, <2>8 DEF Sending, SendHand, One
      <3>3. \A i \in 1..DataOnWire("master") : wire'["master"][i].id = wire["master"][i].id
        BY <2>4, <2>5
      <3>4. ToSlave'
        BY <1>0, <2>1, <2>6, <3>1, <3>2, <3>3 DEF ToSlave, Order
      <3> QED
        BY <2>3, <3>4, <1>w
    <2> QED
      BY <2>2, <2>7, <2>8
  <1>5. CASE MasterCount
    <2>1. /\ pc["master"] = "count" /\ wire["slave"] # <<>>
          /\ pc'["master"] = "readcount" /\ pc'["slave"] = pc["slave"]
          /\ wire'["master"] = wire["master"] /\ wire'["slave"] = Tail(wire["slave"])
          /\ UNCHANGED <<tx, rx, hand>>
      BY <1>5, <1>t DEF MasterCount, sharedVars
    <2>2. pc["slave"] = "reply" /\ wire["slave"] = <<Count(recCount["slave"])>>
      BY <1>i, <2>1 DEF SlaveWire, CountOnWire
    <2>3. wire'["slave"] = <<>> /\ Len(wire["slave"]) = 1
      BY <2>1, <2>2
    <2>4. DataOnWire("slave") = 0 /\ DataOnWire("slave")' = 0
      BY <2>1, <2>2, <2>3 DEF DataOnWire, CountOnWire, One
    <2>5. UNCHANGED <<Holding("master"), Held("master")>>
      BY <2>1 DEF Holding, Held, One
    <2>6. ToMaster'
      BY <1>0, <2>1, <2>4, <2>5 DEF ToMaster, Order
    <2>7. UNCHANGED ToSlaveView
      BY <1>0, <2>1, <2>2
      DEF ToSlaveView, Holding, Held, Sending, SendHand, DataOnWire, QueryOnWire,
          Answering, One
    <2> QED
      BY <2>6, <2>7, <1>v
  <1>6. CASE ReadCount
    <2>1. /\ pc["master"] = "readcount" /\ pc'["master"] = "gather" /\ pc'["slave"] = pc["slave"]
          /\ UNCHANGED <<tx, rx, wire, hand>>
      BY <1>6, <1>t DEF ReadCount, sharedVars
    <2>2. UNCHANGED ToSlaveView
      BY <1>0, <2>1
      DEF ToSlaveView, Holding, Held, Sending, SendHand, DataOnWire, QueryOnWire,
          Answering, One
    <2>3. UNCHANGED ToMasterView
      BY <1>0, <2>1 DEF ToMasterView, Holding, Held, DataOnWire, CountOnWire, One
    <2> QED
      BY <2>2, <2>3, <1>v, <1>w
  <1>7. CASE MasterGather
    <2>1. /\ pc["master"] = "gather" /\ wire["slave"] # <<>>
          /\ pc'["master"] = "copy" /\ pc'["slave"] = pc["slave"]
          /\ wire'["master"] = wire["master"]
          /\ wire'["slave"] = Tail(wire["slave"]) /\ buf' = Head(wire["slave"])
          /\ UNCHANGED <<tx, rx, hand>>
      BY <1>7, <1>t DEF MasterGather, sharedVars
    <2>2. /\ Len(wire["slave"]) = 1 /\ Head(wire["slave"]) = wire["slave"][1]
          /\ Tail(wire["slave"]) = <<>> /\ Head(wire["slave"]).type = "data"
      <3>1. Len(wire["slave"]) <= 1 /\ wire["slave"][1].type = "data"
        BY <1>i, <2>1 DEF SlaveWire, CountOnWire
      <3> QED
        BY <2>1, <3>1, PlaceTypes, ReadSingle
    <2>3. DataOnWire("slave") = 1 /\ DataOnWire("slave")' = 0
      BY <2>1, <2>2 DEF DataOnWire, CountOnWire, One
    <2>4. /\ Holding("master") = 0 /\ Holding("master")' = 1
          /\ Held("master")' = Head(wire["slave"]).id
      BY <2>1, <2>2 DEF Holding, Held, One
    <2>5. Order(taken["master"], rx["master"], 1, Head(wire["slave"]).id,
                Tail(wire["slave"]), 1 - 1, 0, 0, tx["slave"], Adding("slave"),
                c0msg["slave"], added["slave"])
      <3>1. Order(taken["master"], rx["master"], 0, Held("master"), wire["slave"], 1, 0, 0,
                  tx["slave"], Adding("slave"), c0msg["slave"], added["slave"])
        BY <2>3, <2>4 DEF ToMaster
      <3>2. 1 \in Nat /\ 1 >= 1 /\ 1 <= Len(wire["slave"])
        BY <2>2
      <3> QED
        BY <1>q, <2>1, <3>1, <3>2, OrderReceive
    <2>6. ToMaster'
      BY <1>0, <2>1, <2>3, <2>4, <2>5 DEF ToMaster
    <2>7. UNCHANGED ToSlaveView
      BY <1>0, <2>1
      DEF ToSlaveView, Holding, Held, Sending, SendHand, DataOnWire, QueryOnWire,
          Answering, One
    <2> QED
      BY <2>6, <2>7, <1>v
  <1>8. CASE MasterCopy
    <2>1. /\ pc["master"] = "copy" /\ pc'["master"] = "store" /\ pc'["slave"] = pc["slave"]
          /\ hand'["slave"] = hand["slave"]
          /\ hand'["master"] = Data(IF buf.type = "data" THEN buf.id ELSE 0)
          /\ UNCHANGED <<tx, rx, wire>>
      BY <1>8, <1>t DEF MasterCopy, sharedVars
    <2>2. UNCHANGED ToMasterView
      BY <1>0, <2>1 DEF ToMasterView, Holding, Held, DataOnWire, CountOnWire, One, Data
    <2>3. UNCHANGED ToSlaveView
      BY <1>0, <2>1
      DEF ToSlaveView, Holding, Held, Sending, SendHand, DataOnWire, QueryOnWire,
          Answering, One
    <2> QED
      BY <2>2, <2>3, <1>v, <1>w
  <1>9. CASE MasterStore
    <2>1. /\ pc["master"] = "store" /\ pc'["master"] = "gather" /\ pc'["slave"] = pc["slave"]
          /\ rx'["master"] = Append(rx["master"], hand["master"].id)
          /\ rx'["slave"] = rx["slave"]
          /\ UNCHANGED <<tx, wire, hand>>
      BY <1>9, <1>t DEF MasterStore
    <2>2. /\ Holding("master") = 1 /\ Held("master") = hand["master"].id
          /\ Holding("master")' = 0 /\ Held("master")' = 0
      BY <2>1 DEF Holding, Held, One
    <2>3. DataOnWire("slave")' = DataOnWire("slave")
      BY <2>1 DEF DataOnWire, CountOnWire, One
    <2>4. Order(taken["master"], Append(rx["master"], Held("master")), 0, 0,
                wire["slave"], DataOnWire("slave"), 0, 0, tx["slave"], Adding("slave"),
                c0msg["slave"], added["slave"])
      BY <1>q, <2>2, OrderStore DEF ToMaster
    <2>5. ToMaster'
      BY <1>0, <2>1, <2>2, <2>3, <2>4 DEF ToMaster
    <2>6. UNCHANGED ToSlaveView
      BY <1>0, <2>1
      DEF ToSlaveView, Holding, Held, Sending, SendHand, DataOnWire, QueryOnWire,
          Answering, One
    <2> QED
      BY <2>5, <2>6, <1>v
  <1>10. CASE MasterRoundEnd
    <2>1. /\ pc["master"] = "gather" /\ pc'["master"] = "check" /\ pc'["slave"] = pc["slave"]
          /\ UNCHANGED <<tx, rx, wire, hand>>
      BY <1>10, <1>t DEF MasterRoundEnd, sharedVars
    <2>2. UNCHANGED ToSlaveView
      BY <1>0, <2>1
      DEF ToSlaveView, Holding, Held, Sending, SendHand, DataOnWire, QueryOnWire,
          Answering, One
    <2>3. UNCHANGED ToMasterView
      BY <1>0, <2>1 DEF ToMasterView, Holding, Held, DataOnWire, CountOnWire, One
    <2> QED
      BY <2>2, <2>3, <1>v, <1>w
  <1> QED
    BY <1>1, <1>2, <1>3, <1>4, <1>5, <1>6, <1>7, <1>8, <1>9, <1>10 DEF MasterSync

\* Core 1 of the slave reads and stores the master's messages and sends its own.
LEMMA OrderSlave ==
    TypeOK /\ HandshakeInv /\ ToSlave /\ ToMaster /\ SlaveSync => ToSlave' /\ ToMaster'
  <1> SUFFICES ASSUME TypeOK, HandshakeInv, ToSlave, ToMaster, SlaveSync
               PROVE  ToSlave' /\ ToMaster'
    OBVIOUS
  <1> "master" \in Board /\ "slave" \in Board
    BY DEF Board
  <1>t. /\ tx \in [Board -> Seq(Nat)] /\ rx \in [Board -> Seq(Nat)]
        /\ wire \in [Board -> Seq(Frame)] /\ hand \in [Board -> Frame]
        /\ pc \in [Board -> MasterPc \cup SlavePc]
        /\ pc["master"] \in MasterPc /\ pc["slave"] \in SlavePc
    BY DEF TypeOK, QueueTypes, FrameTypes, ControlTypes
  <1>i. PinPhase /\ MasterWire /\ SlaveWire
    BY DEF HandshakeInv, PhaseInv
  <1>0. UNCHANGED <<taken, core0, c0msg, added, buf, Adding("master"), Adding("slave")>>
    BY DEF SlaveSync, SlaveRaise, SlaveReceive, SlaveLower, SlaveStore, SlaveLevel,
           SlaveSend, SlaveRoundEnd, core0Vars, Adding
  <1>p. /\ taken["slave"] \in Nat /\ rx["slave"] \in Seq(Nat) /\ Holding("slave") \in 0..1
        /\ Held("slave") \in Nat /\ wire["master"] \in Seq(Frame)
        /\ DataOnWire("master") \in Nat /\ Sending("master") \in 0..1 /\ SendHand \in Nat
        /\ tx["master"] \in Seq(Nat) /\ Adding("master") \in 0..1
        /\ c0msg["master"] \in Nat /\ added["master"] \in Nat /\ hand["master"] \in Frame
    BY PlaceTypes
  <1>q. /\ taken["master"] \in Nat /\ rx["master"] \in Seq(Nat) /\ Holding("master") \in 0..1
        /\ Held("master") \in Nat /\ wire["slave"] \in Seq(Frame)
        /\ DataOnWire("slave") \in Nat /\ tx["slave"] \in Seq(Nat)
        /\ Adding("slave") \in 0..1 /\ c0msg["slave"] \in Nat /\ added["slave"] \in Nat
        /\ 0 \in Nat /\ 0 \in 0..1
    BY PlaceTypes
  <1>v. UNCHANGED ToSlaveView => ToSlave'
    BY SameOrder
  <1>w. UNCHANGED ToMasterView => ToMaster'
    BY SameOrder
  <1>1. CASE SlaveRaise
    <2>1. /\ pc["slave"] = "raise" /\ pc'["slave"] = "recv" /\ pc'["master"] = pc["master"]
          /\ UNCHANGED <<tx, rx, wire, hand>>
      BY <1>1, <1>t DEF SlaveRaise, sharedVars
    <2>2. UNCHANGED ToSlaveView
      BY <1>0, <2>1
      DEF ToSlaveView, Holding, Held, Sending, SendHand, DataOnWire, QueryOnWire,
          Answering, One
    <2>3. UNCHANGED ToMasterView
      BY <1>0, <2>1 DEF ToMasterView, Holding, Held, DataOnWire, CountOnWire, One
    <2> QED
      BY <2>2, <2>3, <1>v, <1>w
  <1>2. CASE SlaveReceive
    <2>1. /\ pc["slave"] = "recv" /\ pc'["slave"] = "lower" /\ pc'["master"] = pc["master"]
          /\ wire["master"] # <<>>
          /\ hand'["slave"] = Head(wire["master"]) /\ hand'["master"] = hand["master"]
          /\ wire'["master"] = Tail(wire["master"]) /\ wire'["slave"] = wire["slave"]
          /\ UNCHANGED <<tx, rx>>
      BY <1>2, <1>t DEF SlaveReceive, sharedVars
    <2>2. /\ Head(wire["master"]) = wire["master"][1]
          /\ Len(wire["master"]) \in Nat /\ Len(wire["master"]) >= 1
          /\ Len(wire'["master"]) = Len(wire["master"]) - 1
      BY <1>p, <2>1, WireFacts
    <2>3. UNCHANGED ToMasterView
      BY <1>0, <2>1 DEF ToMasterView, Holding, Held, DataOnWire, CountOnWire, One
    <2>4. Holding("slave") = 0 /\ Held("slave") = 0
      BY <2>1 DEF Holding, Held, One
    <2>5. Sending("master")' = Sending("master") /\ SendHand' = SendHand
      BY <2>1 DEF Sending, SendHand, One
    <2>6. CASE QueryOnWire /\ Len(wire["master"]) = 1
      <3>1. hand'["slave"].type = "query"
        BY <1>i, <2>1, <2>2, <2>6 DEF MasterWire
      <3>2. /\ DataOnWire("master") = 0 /\ DataOnWire("master")' = 0
            /\ Holding("slave")' = 0 /\ Held("slave")' = 0
        <4>1. ~QueryOnWire'
          BY <2>1, <3>1 DEF QueryOnWire, Answering
        <4>2. Len(wire'["master"]) = 0
          BY <2>2, <2>6
        <4>3. DataOnWire("master") = 0 /\ DataOnWire("master")' = 0
          <5>1. DataOnWire("master") = Len(wire["master"]) - 1
            BY <2>6 DEF DataOnWire, One
          <5>2. DataOnWire("master")' = Len(wire'["master"]) - 0
            BY <4>1 DEF DataOnWire, One
          <5> QED
            BY <2>6, <4>2, <5>1, <5>2
        <4>4. Holding("slave")' = 0 /\ Held("slave")' = 0
          BY <2>1, <3>1 DEF Holding, Held, One
        <4> QED
          BY <4>3, <4>4
      <3>3. ToSlave'
        BY <1>0, <2>1, <2>4, <2>5, <3>2 DEF ToSlave, Order
      <3> QED
        BY <2>3, <3>3, <1>w
    <2>7. CASE ~(QueryOnWire /\ Len(wire["master"]) = 1)
      <3>1. hand'["slave"].type = "data"
        <4>1. 1 \in 1..Len(wire["master"])
          BY <2>2
        <4> QED
          BY <1>i, <2>1, <2>2, <2>7, <4>1 DEF MasterWire
      <3>2. QueryOnWire' <=> QueryOnWire
        BY <2>1, <3>1 DEF QueryOnWire, Answering
      <3>3. /\ DataOnWire("master")' = DataOnWire("master") - 1
            /\ DataOnWire("master") >= 1
            /\ DataOnWire("master") <= Len(wire["master"])
        <4> DEFINE n == Len(wire["master"])
        <4>1. /\ DataOnWire("master") = n - One(QueryOnWire)
              /\ DataOnWire("master")' = n - 1 - One(QueryOnWire)
              /\ n \in Nat /\ n >= 1 /\ (QueryOnWire => n # 1)
          BY <2>2, <2>7, <3>2 DEF DataOnWire, One
        <4> HIDE DEF n
        <4>2. /\ DataOnWire("master")' = DataOnWire("master") - 1
              /\ DataOnWire("master") >= 1
              /\ DataOnWire("master") <= n
          BY <4>1 DEF One
        <4> QED
          BY <4>2 DEF n
      <3>4. /\ Holding("slave")' = 1
            /\ Held("slave")' = Head(wire["master"]).id
        BY <2>1, <3>1 DEF Holding, Held, One
      <3>5. Order(taken["slave"], rx["slave"], 0, Held("slave"), wire["master"],
                  DataOnWire("master"), Sending("master"), SendHand, tx["master"],
                  Adding("master"), c0msg["master"], added["master"])
        BY <2>4 DEF ToSlave
      <3>6. Order(taken["slave"], rx["slave"], 1, Head(wire["master"]).id,
                  Tail(wire["master"]), DataOnWire("master") - 1, Sending("master"),
                  SendHand, tx["master"], Adding("master"), c0msg["master"],
                  added["master"])
        BY <1>p, <1>q, <2>1, <3>3, <3>5, OrderReceive
      <3>7. ToSlave'
        BY <1>0, <2>1, <2>5, <3>3, <3>4, <3>6 DEF ToSlave
      <3> QED
        BY <2>3, <3>7, <1>w
    <2> QED
      BY <2>6, <2>7
  <1>3. CASE SlaveLower
    <2>1. /\ pc["slave"] = "lower" /\ pc'["master"] = pc["master"]
          /\ pc'["slave"] = IF hand["slave"].type = "query" THEN "level" ELSE "store"
          /\ UNCHANGED <<tx, rx, wire, hand>>
          /\ hand["slave"].type \in {"data", "query"}
      BY <1>3, <1>t, <1>i DEF SlaveLower, sharedVars, PinPhase
    <2>2. UNCHANGED ToSlaveView
      BY <1>0, <2>1
      DEF ToSlaveView, Holding, Held, Sending, SendHand, DataOnWire, QueryOnWire,
          Answering, One
    <2>3. UNCHANGED ToMasterView
      BY <1>0, <2>1 DEF ToMasterView, Holding, Held, DataOnWire, CountOnWire, One
    <2> QED
      BY <2>2, <2>3, <1>v, <1>w
  <1>4. CASE SlaveStore
    <2>1. /\ pc["slave"] = "store" /\ pc'["slave"] = "raise" /\ pc'["master"] = pc["master"]
          /\ rx'["slave"] = Append(rx["slave"], hand["slave"].id)
          /\ rx'["master"] = rx["master"]
          /\ UNCHANGED <<tx, wire, hand>>
      BY <1>4, <1>t DEF SlaveStore
    <2>2. /\ Holding("slave") = 1 /\ Held("slave") = hand["slave"].id
          /\ Holding("slave")' = 0 /\ Held("slave")' = 0
      BY <2>1 DEF Holding, Held, One
    <2>3. UNCHANGED <<DataOnWire("master"), Sending("master"), SendHand>>
      BY <2>1 DEF DataOnWire, QueryOnWire, Answering, Sending, SendHand, One
    <2>4. Order(taken["slave"], Append(rx["slave"], Held("slave")), 0, 0, wire["master"],
                DataOnWire("master"), Sending("master"), SendHand, tx["master"],
                Adding("master"), c0msg["master"], added["master"])
      BY <1>p, <1>q, <2>2, OrderStore DEF ToSlave
    <2>5. ToSlave'
      BY <1>0, <2>1, <2>2, <2>3, <2>4 DEF ToSlave
    <2>6. UNCHANGED ToMasterView
      BY <1>0, <2>1 DEF ToMasterView, Holding, Held, DataOnWire, CountOnWire, One
    <2> QED
      BY <2>5, <2>6, <1>w
  <1>5. CASE SlaveLevel
    <2>1. /\ pc["slave"] = "level" /\ pc'["slave"] = "reply" /\ pc'["master"] = pc["master"]
          /\ wire'["slave"] = Append(wire["slave"], Count(Len(tx["slave"])))
          /\ wire'["master"] = wire["master"]
          /\ UNCHANGED <<tx, rx, hand>>
      BY <1>5, <1>t DEF SlaveLevel, sharedVars
    <2>2. wire["slave"] = <<>> /\ pc["master"] = "count"
      BY <1>i, <2>1 DEF SlaveWire, Answering
    <2>3. Len(wire'["slave"]) = 1
      BY <2>1, <2>2
    <2>4. DataOnWire("slave") = 0 /\ DataOnWire("slave")' = 0
      BY <2>1, <2>2, <2>3 DEF DataOnWire, CountOnWire, One
    <2>5. UNCHANGED <<Holding("master"), Held("master")>>
      BY <1>0, <2>1 DEF Holding, Held, One
    <2>6. ToMaster'
      BY <1>0, <2>1, <2>4, <2>5 DEF ToMaster, Order
    <2>7. UNCHANGED ToSlaveView
      BY <1>0, <2>1
      DEF ToSlaveView, Holding, Held, Sending, SendHand, DataOnWire, QueryOnWire,
          Answering, One
    <2> QED
      BY <2>6, <2>7, <1>v
  <1>6. CASE SlaveSend
    <2>1. /\ pc["slave"] = "reply" /\ wire["slave"] = <<>> /\ tx["slave"] # <<>>
          /\ wire'["slave"] = Append(wire["slave"], Data(Head(tx["slave"])))
          /\ wire'["master"] = wire["master"]
          /\ tx'["slave"] = Tail(tx["slave"]) /\ tx'["master"] = tx["master"]
          /\ UNCHANGED <<pc, rx, hand>>
      BY <1>6, <1>t DEF SlaveSend
    <2>2. ~CountOnWire /\ ~CountOnWire'
      BY <1>i, <2>1 DEF SlaveWire, CountOnWire
    <2>3. /\ Len(wire["slave"]) = 0 /\ Len(wire'["slave"]) = 1
          /\ DataOnWire("slave") = 0 /\ DataOnWire("slave")' = 1
      BY <2>1, <2>2 DEF DataOnWire, One
    <2>4. UNCHANGED <<Holding("master"), Held("master")>>
      BY <1>0, <2>1 DEF Holding, Held, One
    <2>5. /\ Head(tx["slave"]) \in Nat /\ Tail(tx["slave"]) \in Seq(Nat)
          /\ Data(Head(tx["slave"])) \in Frame
          /\ Data(Head(tx["slave"])).id = Head(tx["slave"])
      BY <1>q, <2>1, QueueFacts, FrameFacts DEF Data
    <2>6. Order(taken["master"], rx["master"], Holding("master"), Held("master"),
                wire["slave"], Len(wire["slave"]), 1, Head(tx["slave"]),
                Tail(tx["slave"]), Adding("slave"), c0msg["slave"], added["slave"])
      <3>1. Order(taken["master"], rx["master"], Holding("master"), Held("master"),
                  wire["slave"], Len(wire["slave"]), 0, 0, tx["slave"],
                  Adding("slave"), c0msg["slave"], added["slave"])
        BY <2>3 DEF ToMaster
      <3> QED
        BY <1>q, <2>1, <2>3, <3>1, OrderTake
    <2>7. Order(taken["master"], rx["master"], Holding("master"), Held("master"),
                Append(wire["slave"], Data(Head(tx["slave"]))), Len(wire["slave"]) + 1,
                0, 0, Tail(tx["slave"]), Adding("slave"), c0msg["slave"], added["slave"])
      BY <1>q, <2>5, <2>6, OrderSend
    <2>8. ToMaster'
      BY <1>0, <2>1, <2>3, <2>4, <2>7 DEF ToMaster
    <2>9. UNCHANGED ToSlaveView
      BY <1>0, <2>1
      DEF ToSlaveView, Holding, Held, Sending, SendHand, DataOnWire, QueryOnWire,
          Answering, One
    <2> QED
      BY <2>8, <2>9, <1>v
  <1>7. CASE SlaveRoundEnd
    <2>1. /\ pc["slave"] = "reply" /\ wire["slave"] = <<>>
          /\ pc'["slave"] = "raise" /\ pc'["master"] = pc["master"]
          /\ UNCHANGED <<tx, rx, wire, hand>>
      BY <1>7, <1>t DEF SlaveRoundEnd, sharedVars
    <2>2. pc["master"] # "count"
      BY <1>i, <2>1 DEF SlaveWire, CountOnWire
    <2>3. UNCHANGED ToSlaveView
      BY <1>0, <2>1, <2>2
      DEF ToSlaveView, Holding, Held, Sending, SendHand, DataOnWire, QueryOnWire,
          Answering, One
    <2>4. UNCHANGED ToMasterView
      BY <1>0, <2>1, <2>2 DEF ToMasterView, Holding, Held, DataOnWire, CountOnWire, One
    <2> QED
      BY <2>3, <2>4, <1>v, <1>w
  <1> QED
    BY <1>1, <1>2, <1>3, <1>4, <1>5, <1>6, <1>7 DEF SlaveSync

\* Core 0 adds a message, takes one out, or clobbers the buffer of core 1.
LEMMA OrderCore0Shared ==
    ASSUME TypeOK, HandshakeInv, ToSlave, ToMaster, NEW b \in Board, Core0(b)
    PROVE  ToSlave' /\ ToMaster'
  <1> "master" \in Board /\ "slave" \in Board
    BY DEF Board
  <1>t. /\ tx \in [Board -> Seq(Nat)] /\ rx \in [Board -> Seq(Nat)]
        /\ core0 \in [Board -> {"run", "gate", "knock", "add"}]
        /\ c0msg \in [Board -> Nat] /\ added \in [Board -> Nat] /\ taken \in [Board -> Nat]
    BY DEF TypeOK, QueueTypes, ControlTypes, NumberTypes
  <1>0. UNCHANGED <<wire, pc, hand, buf, Holding("master"), Holding("slave"),
                    Held("master"), Held("slave"), DataOnWire("master"),
                    DataOnWire("slave"), Sending("master"), SendHand>>
    BY DEF Core0, Enqueue, QueueAdd, Dequeue, core1Vars, Holding, Held, DataOnWire,
           QueryOnWire, CountOnWire, Answering, Sending, SendHand
  <1>p. /\ taken["slave"] \in Nat /\ rx["slave"] \in Seq(Nat) /\ Holding("slave") \in 0..1
        /\ Held("slave") \in Nat /\ wire["master"] \in Seq(Frame)
        /\ DataOnWire("master") \in Nat /\ Sending("master") \in 0..1 /\ SendHand \in Nat
        /\ tx["master"] \in Seq(Nat) /\ Adding("master") \in 0..1
        /\ c0msg["master"] \in Nat /\ added["master"] \in Nat
    BY PlaceTypes
  <1>q. /\ taken["master"] \in Nat /\ rx["master"] \in Seq(Nat) /\ Holding("master") \in 0..1
        /\ Held("master") \in Nat /\ wire["slave"] \in Seq(Frame)
        /\ DataOnWire("slave") \in Nat /\ tx["slave"] \in Seq(Nat)
        /\ Adding("slave") \in 0..1 /\ c0msg["slave"] \in Nat /\ added["slave"] \in Nat
        /\ 0 \in Nat /\ 0 \in 0..1
    BY PlaceTypes
  <1>v. UNCHANGED ToSlaveView => ToSlave'
    BY SameOrder
  <1>w. UNCHANGED ToMasterView => ToMaster'
    BY SameOrder
  <1>1. CASE Enqueue(b)
    <2>1. /\ core0[b] = "run" /\ core0'[b] = "add" /\ added'[b] = added[b] + 1
          /\ c0msg'[b] = added[b] + 1
          /\ \A o \in Board \ {b} : /\ core0'[o] = core0[o] /\ added'[o] = added[o]
                                   /\ c0msg'[o] = c0msg[o]
          /\ UNCHANGED <<tx, rx, taken>>
      BY <1>1, <1>t DEF Enqueue, sharedVars
    <2>2. /\ Adding(b) = 0 /\ Adding(b)' = 1
          /\ \A o \in Board \ {b} : Adding(o)' = Adding(o)
      BY <2>1 DEF Adding, One
    <2>3. CASE b = "master"
      <3>1. UNCHANGED ToMasterView
        BY <1>0, <2>1, <2>2, <2>3 DEF ToMasterView
      <3>2. Order(taken["slave"], rx["slave"], Holding("slave"), Held("slave"),
                  wire["master"], DataOnWire("master"), Sending("master"), SendHand,
                  tx["master"], 1, added["master"] + 1, added["master"] + 1)
        <4>1. added["master"] + 1 \in Nat /\ Is(added["master"] + 1, added["master"] + 1)
          BY <1>p DEF Is
        <4> QED
          BY <1>p, <2>2, <2>3, <4>1, OrderEnqueue DEF ToSlave
      <3>3. ToSlave'
        BY <1>0, <2>1, <2>2, <2>3, <3>2 DEF ToSlave
      <3> QED
        BY <3>1, <3>3, <1>w
    <2>4. CASE b = "slave"
      <3>1. UNCHANGED ToSlaveView
        BY <1>0, <2>1, <2>2, <2>4 DEF ToSlaveView
      <3>2. Order(taken["master"], rx["master"], Holding("master"), Held("master"),
                  wire["slave"], DataOnWire("slave"), 0, 0,
                  tx["slave"], 1, added["slave"] + 1, added["slave"] + 1)
        <4>1. added["slave"] + 1 \in Nat /\ Is(added["slave"] + 1, added["slave"] + 1)
          BY <1>q DEF Is
        <4> QED
          <5>1. Order(taken["master"], rx["master"], Holding("master"), Held("master"),
                      wire["slave"], DataOnWire("slave"), 0, 0,
                      tx["slave"], 0, c0msg["slave"], added["slave"])
            BY <2>2, <2>4 DEF ToMaster
          <5> QED
            BY <1>q, <4>1, <5>1, OrderEnqueue
      <3>3. ToMaster'
        BY <1>0, <2>1, <2>2, <2>4, <3>2 DEF ToMaster
      <3> QED
        BY <3>1, <3>3, <1>v
    <2> QED
      BY <2>3, <2>4 DEF Board
  <1>2. CASE QueueAdd(b)
    <2>1. /\ core0[b] = "add" /\ core0'[b] = "run" /\ tx'[b] = Append(tx[b], c0msg[b])
          /\ \A o \in Board \ {b} : core0'[o] = core0[o] /\ tx'[o] = tx[o]
          /\ UNCHANGED <<c0msg, added, rx, taken>>
      BY <1>2, <1>t DEF QueueAdd
    <2>2. /\ Adding(b) = 1 /\ Adding(b)' = 0
          /\ \A o \in Board \ {b} : Adding(o)' = Adding(o)
      BY <2>1 DEF Adding, One
    <2>3. CASE b = "master"
      <3>1. UNCHANGED ToMasterView
        BY <1>0, <2>1, <2>2, <2>3 DEF ToMasterView
      <3>2. Order(taken["slave"], rx["slave"], Holding("slave"), Held("slave"),
                  wire["master"], DataOnWire("master"), Sending("master"), SendHand,
                  Append(tx["master"], c0msg["master"]), 0, c0msg["master"],
                  added["master"])
        BY <1>p, <2>2, <2>3, OrderAdd DEF ToSlave
      <3>3. ToSlave'
        BY <1>0, <2>1, <2>2, <2>3, <3>2 DEF ToSlave
      <3> QED
        BY <3>1, <3>3, <1>w
    <2>4. CASE b = "slave"
      <3>1. UNCHANGED ToSlaveView
        BY <1>0, <2>1, <2>2, <2>4 DEF ToSlaveView
      <3>2. Order(taken["master"], rx["master"], Holding("master"), Held("master"),
                  wire["slave"], DataOnWire("slave"), 0, 0,
                  Append(tx["slave"], c0msg["slave"]), 0, c0msg["slave"],
                  added["slave"])
        BY <1>q, <2>2, <2>4, OrderAdd DEF ToMaster
      <3>3. ToMaster'
        BY <1>0, <2>1, <2>2, <2>4, <3>2 DEF ToMaster
      <3> QED
        BY <3>1, <3>3, <1>v
    <2> QED
      BY <2>3, <2>4 DEF Board
  <1>3. CASE Dequeue(b)
    <2>1. /\ rx[b] # <<>> /\ rx'[b] = Tail(rx[b]) /\ taken'[b] = taken[b] + 1
          /\ \A o \in Board \ {b} : rx'[o] = rx[o] /\ taken'[o] = taken[o]
          /\ UNCHANGED <<c0msg, added, tx, core0>>
      BY <1>3, <1>t DEF Dequeue
    <2>2. UNCHANGED <<Adding("master"), Adding("slave")>>
      BY <2>1 DEF Adding
    <2>3. CASE b = "slave"
      <3>1. UNCHANGED ToMasterView
        BY <1>0, <2>1, <2>2, <2>3 DEF ToMasterView
      <3>2. Order(taken["slave"] + 1, Tail(rx["slave"]), Holding("slave"), Held("slave"),
                  wire["master"], DataOnWire("master"), Sending("master"), SendHand,
                  tx["master"], Adding("master"), c0msg["master"], added["master"])
        BY <1>p, <2>1, <2>3, OrderDequeue DEF ToSlave
      <3>3. ToSlave'
        BY <1>0, <2>1, <2>2, <2>3, <3>2 DEF ToSlave
      <3> QED
        BY <3>1, <3>3, <1>w
    <2>4. CASE b = "master"
      <3>1. UNCHANGED ToSlaveView
        BY <1>0, <2>1, <2>2, <2>4 DEF ToSlaveView
      <3>2. Order(taken["master"] + 1, Tail(rx["master"]), Holding("master"), Held("master"),
                  wire["slave"], DataOnWire("slave"), 0, 0,
                  tx["slave"], Adding("slave"), c0msg["slave"], added["slave"])
        BY <1>q, <2>1, <2>4, OrderDequeue DEF ToMaster
      <3>3. ToMaster'
        BY <1>0, <2>1, <2>2, <2>4, <3>2 DEF ToMaster
      <3> QED
        BY <3>1, <3>3, <1>v
    <2> QED
      BY <2>3, <2>4 DEF Board
  <1> QED
    BY <1>1, <1>2, <1>3 DEF Core0

\* The gate of the master's setup and bus-reset handlers, and the knocks.
LEMMA OrderMasterCore0 ==
    ASSUME TypeOK, HandshakeInv, KnockMine, ToSlave, ToMaster, MasterCore0
    PROVE  ToSlave' /\ ToMaster'
  <1> "master" \in Board /\ "slave" \in Board
    BY DEF Board
  <1>t. /\ core0 \in [Board -> {"run", "gate", "knock", "add"}]
        /\ c0msg \in [Board -> Nat] /\ added \in [Board -> Nat]
    BY DEF TypeOK, ControlTypes, NumberTypes
  <1>0. UNCHANGED <<tx, rx, taken, wire, pc, hand, Holding("master"), Holding("slave"),
                    Held("slave"), DataOnWire("master"),
                    DataOnWire("slave"), Sending("master"), SendHand>>
    <2>1. UNCHANGED <<tx, rx, taken, wire, pc, hand>>
      BY DEF MasterCore0, Gate, GateOpen, Knock, KnockCopy, core1Vars, sharedVars
    <2>2. UNCHANGED <<Holding("master"), Holding("slave"), Sending("master"), SendHand>>
      BY <2>1 DEF Holding, Sending, SendHand
    <2>3. UNCHANGED <<DataOnWire("master"), DataOnWire("slave")>>
      BY <2>1 DEF DataOnWire, QueryOnWire, CountOnWire, Answering
    <2>4. Held("slave")' = Held("slave")
      <3>1. pc["slave"] # "copy"
        BY DEF TypeOK, ControlTypes, SlavePc
      <3> QED
        BY <2>1, <2>2, <3>1 DEF Held
    <2> QED
      BY <2>1, <2>2, <2>3, <2>4
  <1>p. /\ taken["slave"] \in Nat /\ rx["slave"] \in Seq(Nat) /\ Holding("slave") \in 0..1
        /\ Held("slave") \in Nat /\ wire["master"] \in Seq(Frame)
        /\ DataOnWire("master") \in Nat /\ Sending("master") \in 0..1 /\ SendHand \in Nat
        /\ tx["master"] \in Seq(Nat) /\ Adding("master") \in 0..1
        /\ c0msg["master"] \in Nat /\ added["master"] \in Nat
    BY PlaceTypes
  <1>v. UNCHANGED ToSlaveView => ToSlave'
    BY SameOrder
  <1>w. UNCHANGED ToMasterView => ToMaster'
    BY SameOrder
  \* Both ways to the queue: the message added, or 0 for a lost knock.
  <1>5. ASSUME core0["master"] # "add", core0'["master"] = "add",
               core0'["slave"] = core0["slave"], added'["slave"] = added["slave"],
               c0msg'["slave"] = c0msg["slave"], buf' = buf,
               added'["master"] = added["master"] + 1,
               c0msg'["master"] \in Nat, Is(c0msg'["master"], added["master"] + 1)
        PROVE  ToSlave' /\ ToMaster'
    <2>1. Adding("master") = 0 /\ Adding("master")' = 1 /\ Adding("slave")' = Adding("slave")
      BY <1>5 DEF Adding, One
    <2>2. Held("master")' = Held("master")
      BY <1>0, <1>5 DEF Held
    <2>3. UNCHANGED ToMasterView
      BY <1>0, <1>5, <2>1, <2>2 DEF ToMasterView
    <2>4. Order(taken["slave"], rx["slave"], Holding("slave"), Held("slave"),
                wire["master"], DataOnWire("master"), Sending("master"), SendHand,
                tx["master"], 1, c0msg'["master"], added["master"] + 1)
      BY <1>p, <1>5, <2>1, OrderEnqueue DEF ToSlave
    <2>5. ToSlave'
      BY <1>0, <1>5, <2>1, <2>4 DEF ToSlave
    <2> QED
      BY <2>3, <2>5, <1>w
  <1>1. CASE Gate
    <2>1. /\ core0["master"] = "run" /\ core0'["master"] = "gate"
          /\ core0'["slave"] = core0["slave"] /\ UNCHANGED <<c0msg, added, buf>>
      BY <1>1, <1>t DEF Gate
    <2>2. UNCHANGED <<Adding("master"), Adding("slave"), Held("master")>>
      BY <1>0, <2>1 DEF Adding, Held, One
    <2> QED
      BY <1>0, <2>1, <2>2, <1>v, <1>w DEF ToSlaveView, ToMasterView
  <1>2. CASE GateOpen
    <2>1. /\ core0["master"] = "gate" /\ core0'["master"] = "add"
          /\ core0'["slave"] = core0["slave"] /\ added'["slave"] = added["slave"]
          /\ c0msg'["slave"] = c0msg["slave"] /\ buf' = buf
          /\ added'["master"] = added["master"] + 1
          /\ c0msg'["master"] = added["master"] + 1
      BY <1>2, <1>t DEF GateOpen
    <2>2. c0msg'["master"] \in Nat /\ Is(c0msg'["master"], added["master"] + 1)
      BY <1>p, <2>1 DEF Is
    <2> QED
      BY <2>1, <2>2, <1>5
  <1>3. CASE Knock
    <2>1. /\ Knocks /\ core0["master"] = "run" /\ core0'["master"] = "knock"
          /\ core0'["slave"] = core0["slave"] /\ UNCHANGED <<c0msg, added>>
          /\ buf'.type = "knock"
      BY <1>3, <1>t DEF Knock, Knocking
    <2>2. UNCHANGED <<Adding("master"), Adding("slave")>>
      BY <2>1 DEF Adding, One
    <2>3. Held("master")' = Held("master") \/ (Knocks /\ Held("master")' = 0)
      BY <1>0, <2>1 DEF Held
    <2>4. ToMaster'
      BY <1>0, <2>1, <2>2, <2>3 DEF ToMaster, Order, Is
    <2>5. UNCHANGED ToSlaveView
      BY <1>0, <2>1, <2>2 DEF ToSlaveView
    <2> QED
      BY <2>4, <2>5, <1>v
  <1>4. CASE KnockCopy
    <2>1. /\ core0["master"] = "knock" /\ core0'["master"] = "add"
          /\ core0'["slave"] = core0["slave"] /\ added'["slave"] = added["slave"]
          /\ c0msg'["slave"] = c0msg["slave"] /\ buf' = buf
          /\ added'["master"] = added["master"] + 1
          /\ c0msg'["master"] = IF buf.type = "knock" THEN buf.id ELSE 0
      BY <1>4, <1>t DEF KnockCopy
    <2>2. c0msg'["master"] \in Nat /\ Is(c0msg'["master"], added["master"] + 1)
      BY <1>p, <2>1 DEF Is, KnockMine
    <2> QED
      BY <2>1, <2>2, <1>5
  <1> QED
    BY <1>1, <1>2, <1>3, <1>4 DEF MasterCore0

\* Attach and detach move no message; neither does a stuttering step.
LEMMA OrderUntouched ==
    ASSUME ToSlave, ToMaster, SlaveCore0 \/ UNCHANGED vars
    PROVE  ToSlave' /\ ToMaster'
  <1>1. UNCHANGED <<tx, rx, taken, wire, pc, hand, buf, core0, c0msg, added>>
    BY DEF SlaveCore0, DeviceAttach, DeviceDetach, sharedVars, core1Vars, vars
  <1> QED
    BY <1>1, SameOrder
    DEF ToSlaveView, ToMasterView, Holding, Held, DataOnWire, QueryOnWire, CountOnWire,
        Answering, Sending, SendHand, Adding

\* A knock is what its sender wrote, or was overwritten by a frame of the slave.
LEMMA KnockMineStep ==
    TypeOK /\ HandshakeInv /\ KnockMine /\ [Next]_vars => KnockMine'
  <1> SUFFICES ASSUME TypeOK, HandshakeInv, KnockMine, [Next]_vars PROVE KnockMine'
    OBVIOUS
  <1> "master" \in Board /\ "slave" \in Board
    BY DEF Board
  <1>t. core0 \in [Board -> {"run", "gate", "knock", "add"}] /\ added \in [Board -> Nat]
    BY DEF TypeOK, ControlTypes, NumberTypes
  <1>1. CASE UNCHANGED <<core0, added>> /\ (UNCHANGED buf \/ buf'.type \in {"count", "data"})
    BY <1>1 DEF KnockMine
  <1>2. CASE Knock
    BY <1>2, <1>t DEF Knock, Knocking, KnockMine
  <1>3. CASE UNCHANGED buf /\ core0'["master"] # "knock"
    BY <1>3 DEF KnockMine
  <1>4. ASSUME MasterCount \/ MasterGather
        PROVE  UNCHANGED <<core0, added>> /\ buf'.type \in {"count", "data"}
    <2>1. /\ wire["slave"] # <<>> /\ buf' = Head(wire["slave"]) /\ UNCHANGED <<core0, added>>
      BY <1>4 DEF MasterCount, MasterGather, core0Vars
    <2>2. Len(wire["slave"]) <= 1 /\ wire["slave"] \in Seq(Frame)
      BY PlaceTypes DEF HandshakeInv, PhaseInv, SlaveWire
    <2>3. Head(wire["slave"]) = wire["slave"][1]
      BY <2>1, <2>2, ReadSingle
    <2>4. CASE CountOnWire
      BY <2>1, <2>3, <2>4 DEF HandshakeInv, PhaseInv, SlaveWire, Count
    <2>5. CASE ~CountOnWire
      BY <2>1, <2>3, <2>5 DEF HandshakeInv, PhaseInv, SlaveWire
    <2> QED
      BY <2>1, <2>4, <2>5
  <1>5. ASSUME NEW b \in Board, Core0(b)
        PROVE  /\ UNCHANGED buf
               /\ core0'["master"] # "knock" \/ UNCHANGED <<core0, added>>
                     \/ (core0'["master"] = core0["master"] /\ added'["master"] = added["master"])
    BY <1>5, <1>t DEF Core0, Enqueue, QueueAdd, Dequeue, Board
  <1>6. CASE MasterSync
    <2>1. CASE MasterCount \/ MasterGather
      BY <1>1, <1>4, <2>1
    <2>2. CASE ~(MasterCount \/ MasterGather)
      <3>1. UNCHANGED <<core0, added, buf>>
        BY <1>6, <2>2 DEF MasterSync, SyncStart, MasterTake, MasterQuery, MasterSend,
           ReadCount, MasterCopy, MasterStore, MasterRoundEnd, core0Vars
      <3> QED
        BY <3>1, <1>1
    <2> QED
      BY <2>1, <2>2
  <1>7. CASE SlaveSync
    <2>1. UNCHANGED <<core0, added, buf>>
      BY <1>7 DEF SlaveSync, SlaveRaise, SlaveReceive, SlaveLower, SlaveStore, SlaveLevel,
         SlaveSend, SlaveRoundEnd, core0Vars
    <2> QED
      BY <2>1, <1>1
  <1>8. CASE \E b \in Board : Core0(b)
    BY <1>5, <1>8 DEF KnockMine
  <1>9. CASE MasterCore0 /\ ~Knock
    BY <1>9, <1>t DEF MasterCore0, Gate, GateOpen, KnockCopy, KnockMine
  <1>10. CASE SlaveCore0 \/ UNCHANGED vars
    BY <1>10, <1>1 DEF SlaveCore0, DeviceAttach, DeviceDetach, vars
  <1> QED
    BY <1>2, <1>6, <1>7, <1>8, <1>9, <1>10 DEF Next, MasterCore0

-----------------------------------------------------------------------------
(* The inductive invariant.                                                *)

\* The part of the invariant that speaks of messages.
OrderInv == ToSlave /\ ToMaster /\ KnockMine /\ GotInOrder

LEMMA OrderInit == Init => OrderInv
  <1> SUFFICES ASSUME Init PROVE OrderInv
    OBVIOUS
  <1>1. /\ \A b \in Board : /\ Len(rx[b]) = 0 /\ Len(tx[b]) = 0 /\ Len(wire[b]) = 0
                            /\ taken[b] = 0 /\ added[b] = 0 /\ got[b] = 0
                            /\ core0[b] = "run"
        /\ pc["master"] = "check" /\ pc["slave"] = "raise"
    BY DEF Init, Board
  <1>2. /\ Holding("master") = 0 /\ Holding("slave") = 0
        /\ Sending("master") = 0 /\ Adding("master") = 0 /\ Adding("slave") = 0
        /\ DataOnWire("master") = 0 /\ DataOnWire("slave") = 0
    BY <1>1 DEF Holding, Sending, Adding, DataOnWire, QueryOnWire, CountOnWire, One, Board
  <1>3. ToSlave /\ ToMaster
    BY <1>1, <1>2 DEF ToSlave, ToMaster, Order, Board
  <1>4. KnockMine /\ GotInOrder
    BY <1>1 DEF KnockMine, GotInOrder, Is, Board
  <1> QED
    BY <1>3, <1>4 DEF OrderInv

\* What a dequeue takes out is the next message.
LEMMA NextTaken ==
    ASSUME TypeOK, HandshakeInv, ToSlave, ToMaster, NEW b \in Board, Dequeue(b)
    PROVE  /\ Is(got'[b], taken[b] + 1) /\ taken'[b] = taken[b] + 1
           /\ \A o \in Board \ {b} : got'[o] = got[o] /\ taken'[o] = taken[o]
  <1>1. /\ rx[b] # <<>> /\ got'[b] = Head(rx[b]) /\ taken'[b] = taken[b] + 1
        /\ \A o \in Board \ {b} : got'[o] = got[o] /\ taken'[o] = taken[o]
    BY DEF Dequeue, TypeOK, NumberTypes
  <1>2. /\ rx[b] \in Seq(Nat) /\ taken[b] \in Nat
        /\ \A i \in 1..Len(rx[b]) : Is(rx[b][i], taken[b] + i)
    BY PlaceTypes DEF ToSlave, ToMaster, Order, Board
  <1>3. Head(rx[b]) = rx[b][1] /\ 1 \in 1..Len(rx[b])
    BY <1>1, <1>2, QueueFacts
  <1> QED
    BY <1>1, <1>2, <1>3

LEMMA OrderStep == TypeOK /\ HandshakeInv /\ OrderInv /\ [Next]_vars => OrderInv'
  <1> SUFFICES ASSUME TypeOK, HandshakeInv, OrderInv, [Next]_vars PROVE OrderInv'
    OBVIOUS
  <1>i. ToSlave /\ ToMaster /\ KnockMine /\ GotInOrder
    BY DEF OrderInv
  <1>1. ToSlave' /\ ToMaster'
    BY <1>i, OrderMaster, OrderSlave, OrderCore0Shared, OrderMasterCore0, OrderUntouched
    DEF Next
  <1>2. KnockMine'
    BY <1>i, KnockMineStep
  <1>3. GotInOrder'
    <2>1. ASSUME NEW b \in Board, Dequeue(b) PROVE GotInOrder'
      BY <1>i, <2>1, NextTaken DEF GotInOrder
    <2>2. CASE UNCHANGED <<taken, got>>
      BY <1>i, <2>2 DEF GotInOrder
    <2> QED
      BY <2>1, <2>2, Footprint DEF vars
  <1> QED
    BY <1>1, <1>2, <1>3 DEF OrderInv

\* All of the invariant is inductive: it holds in every state of the message
\* layer, for every capacity and with or without knocks.
THEOREM Invariance == Spec => []IndInv
  <1>1. Init => TypeOK /\ HandshakeInv /\ OrderInv
    BY TypeInit, HandshakeInit, OrderInit
  <1>2. /\ TypeOK /\ HandshakeInv /\ OrderInv
        /\ [Next]_vars
        => (TypeOK /\ HandshakeInv /\ OrderInv)'
    BY TypeStep, HandshakeStep, OrderStep
  <1>3. TypeOK /\ HandshakeInv /\ OrderInv => IndInv
    BY InOrderSplit DEF IndInv, HandshakeInv, OrderInv
  <1> QED
    BY <1>1, <1>2, <1>3, PTL DEF Spec

-----------------------------------------------------------------------------
(* What follows from it.                                                   *)

\* The messages of a direction stand in the order of their enqueue along the
\* queues, the wire and the hands of the cores; none is lost or doubled.
THEOREM OrderCorrect == Spec => []InOrder
  BY Invariance, PTL DEF IndInv

\* sync()'s assertion on the answer to a query (messages.c:198) holds.
THEOREM AnswerCorrect == Spec => []AnswerIsCount
  <1>1. IndInv => AnswerIsCount
    <2> SUFFICES ASSUME IndInv, pc["master"] = "count", wire["slave"] # <<>>
                 PROVE  wire["slave"][1].type = "count"
      BY DEF AnswerIsCount
    <2>1. wire["slave"] = <<Count(recCount["slave"])>>
      BY DEF IndInv, PhaseInv, SlaveWire, CountOnWire
    <2> QED
      BY <2>1 DEF Count
  <1> QED
    BY <1>1, Invariance, PTL

\* The slave never waits for a message of its own in the middle of its answer: the
\* count it announces (messages.c:216-222) is covered by what is in tx.
THEOREM SlaveFed == Spec => []SlaveNeverStarves
  BY Invariance, PTL DEF IndInv, PhaseInv

\* Both boards count the messages of a round alike, so that neither reads a message
\* as something else.
THEOREM RoundCorrect == Spec => []CountAgreement
  BY Invariance, PTL DEF IndInv, PhaseInv

LEMMA TransitTypes ==
    ASSUME TypeOK, HandshakeInv, NEW b \in Board
    PROVE  /\ added[b] \in Nat /\ taken[b] \in Nat /\ Len(rx[b]) \in Nat
           /\ Len(tx[b]) \in Nat /\ Holding(b) \in 0..1 /\ Sending(b) \in 0..1
           /\ Adding(b) \in 0..1 /\ DataOnWire(b) \in Nat
  <1>1. tx[b] \in Seq(Nat) /\ rx[b] \in Seq(Nat)
    BY PlaceTypes
  <1>2. Len(tx[b]) \in Nat /\ Len(rx[b]) \in Nat
    BY <1>1
  <1> QED
    BY <1>2, PlaceTypes

\* What is on the way from b fits between what was taken out and what was added.
LEMMA Transit ==
    ASSUME TypeOK, HandshakeInv, InOrder, NEW b \in Board
    PROVE  added[b] >= taken[Other(b)] + Len(rx[Other(b)]) + Holding(Other(b))
                         + Len(tx[b]) + Adding(b)
  <1>o. Other(b) \in Board
    BY DEF Other, Board
  <1>1. /\ added[b] \in Nat /\ taken[Other(b)] \in Nat /\ Len(rx[Other(b)]) \in Nat
        /\ Len(tx[b]) \in Nat /\ Holding(Other(b)) \in 0..1 /\ Sending(b) \in 0..1
        /\ Adding(b) \in 0..1 /\ DataOnWire(b) \in Nat
    BY <1>o, TransitTypes
  <1> DEFINE n == added[b]
             t == taken[Other(b)]
             r == Len(rx[Other(b)])
             h == Holding(Other(b))
             d == DataOnWire(b)
             s == Sending(b)
             q == Len(tx[b])
             a == Adding(b)
  <1>2. added[b] = taken[Other(b)] + Len(rx[Other(b)]) + Holding(Other(b))
                     + DataOnWire(b) + Sending(b) + Len(tx[b]) + Adding(b)
    BY DEF InOrder, NoneLost, Removed, Departed, Arrived, Stored
  <1>3. /\ n \in Nat /\ t \in Nat /\ r \in Nat /\ h \in Nat /\ d \in Nat
        /\ s \in Nat /\ q \in Nat /\ a \in Nat /\ n = t + r + h + d + s + q + a
    BY <1>1, <1>2
  <1> HIDE DEF n, t, r, h, d, s, q, a
  <1>4. n >= t + r + h + q + a
    BY <1>3
  <1> QED
    BY <1>4 DEF n, t, r, h, q, a

\* A board with both cores blocked on full queues has more than Capacity
\* messages outstanding in each direction.
THEOREM GridlockCorrect == Spec => []GridlockNeedsBacklog
  <1>1. IndInv => GridlockNeedsBacklog
    <2> SUFFICES ASSUME IndInv, NEW b \in Board, Gridlock(b)
                 PROVE  /\ added[b] - taken[Other(b)] > Capacity
                        /\ added[Other(b)] - taken[b] > Capacity
      BY DEF GridlockNeedsBacklog
    <2>t. TypeOK /\ HandshakeInv /\ InOrder
      BY DEF IndInv, HandshakeInv
    <2>o. Other(b) \in Board /\ Other(Other(b)) = b
      BY DEF Other, Board
    <2>c. Capacity \in Nat
      BY SpiSyncAssumption
    <2>1. /\ added[b] \in Nat /\ added[Other(b)] \in Nat
          /\ taken[b] \in Nat /\ taken[Other(b)] \in Nat
          /\ Len(rx[Other(b)]) \in Nat /\ Len(tx[Other(b)]) \in Nat
          /\ Holding(Other(b)) \in 0..1 /\ Adding(Other(b)) \in 0..1
      BY <2>t, <2>o, TransitTypes
    <2>2. /\ added[b] >= taken[Other(b)] + Len(rx[Other(b)]) + Holding(Other(b))
                          + Len(tx[b]) + Adding(b)
          /\ added[Other(b)] >= taken[b] + Len(rx[b]) + Holding(b)
                                 + Len(tx[Other(b)]) + Adding(Other(b))
      BY <2>t, <2>o, Transit
    <2>3. /\ Adding(b) = 1 /\ Len(tx[b]) = Capacity
          /\ Holding(b) = 1 /\ Len(rx[b]) = Capacity
      BY DEF Gridlock, Adding, Holding, One
    <2>4. added[b] - taken[Other(b)] > Capacity
      BY <2>o, <2>c, <2>1, <2>2, <2>3
    <2>5. added[Other(b)] - taken[b] > Capacity
      BY <2>o, <2>c, <2>1, <2>2, <2>3
    <2> QED
      BY <2>4, <2>5
  <1> QED
    BY <1>1, Invariance, PTL

\* Without knocks the message layer implements the abstract channel: every step
\* is an enqueue, a dequeue of the next message unchanged, or a stutter.
THEOREM ChannelImplemented == ~Knocks => (Spec => ImplementsChannel)
  <1> SUFFICES ASSUME ~Knocks PROVE Spec => ImplementsChannel
    OBVIOUS
  <1>1. Init => Channel!ChannelInit
    BY DEF Init, Channel!ChannelInit, Channel!Board, Board
  <1>2. IndInv /\ [Next]_vars => [Channel!ChannelNext]_(Channel!channelVars)
    <2> SUFFICES ASSUME IndInv, [Next]_vars
                 PROVE  [Channel!ChannelNext]_(Channel!channelVars)
      OBVIOUS
    <2> USE DEF Channel!Board, Board, Channel!channelVars, Channel!Other, Other
    <2>t. /\ TypeOK /\ HandshakeInv /\ InOrder /\ ToSlave /\ ToMaster
          /\ added \in [Board -> Nat] /\ taken \in [Board -> Nat] /\ got \in [Board -> Nat]
      BY InOrderSplit DEF IndInv, HandshakeInv, TypeOK, NumberTypes
    <2>1. ASSUME NEW b \in Board, Enqueue(b)
          PROVE  Channel!Send(b)
      BY <2>1 DEF Enqueue, Channel!Send
    <2>2. ASSUME GateOpen PROVE Channel!Send("master")
      BY <2>2 DEF GateOpen, Channel!Send
    <2>3. ASSUME KnockCopy PROVE FALSE
      BY <2>3 DEF KnockCopy, IndInv, KnockMine
    <2>4. ASSUME NEW b \in Board, Dequeue(b)
          PROVE  Channel!Deliver(b)
      <3>1. taken[b] < added[Other(b)]
        <4>1. Len(rx[b]) \in Nat /\ Len(rx[b]) >= 1
          <5>1. rx[b] \in Seq(Nat) /\ rx[b] # <<>>
            BY <2>t, <2>4 DEF Dequeue, TypeOK, QueueTypes
          <5> QED
            BY <5>1, QueueFacts
        <4>2. Other(b) \in Board /\ Other(Other(b)) = b
          OBVIOUS
        <4>3. added[Other(b)] >= taken[b] + Len(rx[b]) + Holding(b)
                                 + Len(tx[Other(b)]) + Adding(Other(b))
          BY <2>t, <4>2, Transit
        <4>4. /\ added[Other(b)] \in Nat /\ taken[b] \in Nat /\ Holding(b) \in 0..1
              /\ Len(tx[Other(b)]) \in Nat /\ Adding(Other(b)) \in 0..1
          BY <2>t, <4>2, TransitTypes
        <4> DEFINE n == added[Other(b)]
                   t == taken[b]
                   r == Len(rx[b])
                   h == Holding(b)
                   q == Len(tx[Other(b)])
                   a == Adding(Other(b))
        <4>5. /\ n \in Nat /\ t \in Nat /\ r \in Nat /\ h \in Nat /\ q \in Nat
              /\ a \in Nat /\ r >= 1 /\ n >= t + r + h + q + a
          BY <4>1, <4>3, <4>4
        <4> HIDE DEF n, t, r, h, q, a
        <4>6. t < n
          BY <4>5
        <4> QED
          BY <4>6 DEF t, n
      <3>2. /\ taken' = [taken EXCEPT ![b] = @ + 1] /\ UNCHANGED added
            /\ got' = [got EXCEPT ![b] = Head(rx[b])]
        BY <2>4 DEF Dequeue
      <3>3. got'[b] = taken[b] + 1 /\ taken'[b] = taken[b] + 1
        BY <2>t, <2>4, NextTaken DEF Is
      <3>4. got' = [got EXCEPT ![b] = taken'[b]]
        BY <2>t, <3>2, <3>3
      <3> QED
        BY <3>1, <3>2, <3>4 DEF Channel!Deliver
    <2>5. CASE \E b \in Board : Enqueue(b) \/ Dequeue(b)
      BY <2>1, <2>4, <2>5 DEF Channel!ChannelNext
    <2>6. CASE GateOpen
      BY <2>2, <2>6 DEF Channel!ChannelNext
    <2>7. CASE UNCHANGED <<added, taken, got>>
      BY <2>7
    <2>8. CASE \E b \in Board : QueueAdd(b)
      BY <2>7, <2>8 DEF QueueAdd
    <2>9. CASE Gate \/ Knock
      BY <2>7, <2>9 DEF Gate, Knock
    <2>10. CASE UNCHANGED core0Vars \/ SlaveCore0 \/ UNCHANGED vars
      BY <2>7, <2>10 DEF core0Vars, SlaveCore0, DeviceAttach, DeviceDetach, vars
    <2>11. CASE MasterSync \/ SlaveSync
      <3>1. UNCHANGED core0Vars
        BY <2>11
        DEF MasterSync, SlaveSync, SyncStart, MasterTake, MasterQuery, MasterSend,
            MasterCount, ReadCount, MasterGather, MasterCopy, MasterStore, MasterRoundEnd,
            SlaveRaise, SlaveReceive, SlaveLower, SlaveStore, SlaveLevel, SlaveSend,
            SlaveRoundEnd
      <3> QED
        BY <3>1, <2>10
    <2> QED
      BY <2>3, <2>5, <2>6, <2>8, <2>9, <2>10, <2>11 DEF Next, Core0, MasterCore0
  <1> QED
    BY <1>1, <1>2, Invariance, PTL DEF Spec, ImplementsChannel, Channel!ChannelSpec
=============================================================================
