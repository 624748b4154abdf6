--------------------------- MODULE SpiSyncProofs ---------------------------
(***************************************************************************)
(* Proofs, for every Capacity, MaxMsg and Knocks, of the first half of the *)
(* inductive invariant of SpiSyncProps: the types and the handshake that   *)
(* core 1 of the boards runs.  SpiSyncOrder proves the order of messages.  *)
(***************************************************************************)
EXTENDS SpiSyncProps, SequenceTheorems, TLAPS

\* What Head, Tail and Append do to a sequence of natural numbers.
LEMMA QueueFacts ==
    ASSUME NEW q \in Seq(Nat), NEW x \in Nat
    PROVE  /\ Append(q, x) \in Seq(Nat)
           /\ Len(Append(q, x)) = Len(q) + 1
           /\ \A i \in 1..Len(q) : Append(q, x)[i] = q[i]
           /\ Append(q, x)[Len(q) + 1] = x
           /\ q # <<>> => /\ Head(q) \in Nat
                          /\ Head(q) = q[1]
                          /\ Tail(q) \in Seq(Nat)
                          /\ Len(q) >= 1
                          /\ Len(Tail(q)) = Len(q) - 1
                          /\ \A i \in 1..Len(Tail(q)) : Tail(q)[i] = q[i + 1]
  OBVIOUS

\* The same for a sequence of frames.
LEMMA WireFacts ==
    ASSUME NEW q \in Seq(Frame), NEW x \in Frame
    PROVE  /\ Append(q, x) \in Seq(Frame)
           /\ Len(Append(q, x)) = Len(q) + 1
           /\ \A i \in 1..Len(q) : Append(q, x)[i] = q[i]
           /\ Append(q, x)[Len(q) + 1] = x
           /\ q # <<>> => /\ Head(q) \in Frame
                          /\ Head(q) = q[1]
                          /\ Tail(q) \in Seq(Frame)
                          /\ Len(q) >= 1
                          /\ Len(Tail(q)) = Len(q) - 1
                          /\ \A i \in 1..Len(Tail(q)) : Tail(q)[i] = q[i + 1]
  OBVIOUS

\* A wire with a single frame is left empty by reading it.
LEMMA ReadSingle ==
    ASSUME NEW q \in Seq(Frame), q # <<>>, Len(q) <= 1
    PROVE  Head(q) = q[1] /\ Tail(q) = <<>> /\ Len(q) = 1
  <1>1. Len(q) = 1
    <2> DEFINE n == Len(q)
    <2>1. n \in Nat /\ n # 0 /\ n <= 1
      BY EmptySeq
    <2> HIDE DEF n
    <2>2. n = 1
      BY <2>1
    <2> QED
      BY <2>2 DEF n
  <1>h. Head(q) = q[1]
    OBVIOUS
  <1>2. Tail(q) \in Seq(Frame) /\ Len(Tail(q)) = 0
    BY <1>1
  <1>3. Tail(q) = <<>>
    BY <1>2, EmptySeq
  <1> QED
    BY <1>1, <1>h, <1>3

\* Frames and their fields.
LEMMA FrameFacts ==
    ASSUME NEW n \in Nat
    PROVE  /\ Data(n) \in Frame /\ Query \in Frame /\ Count(n) \in Frame
           /\ Knocking(n) \in Frame /\ NoFrame \in Frame
           /\ \A f \in Frame : f.id \in Nat
  BY DEF Data, Query, Count, Knocking, NoFrame, Frame

-----------------------------------------------------------------------------
(* Type correctness.                                                       *)

LEMMA TypeInit == Init => TypeOK
  <1> SUFFICES ASSUME Init PROVE TypeOK
    OBVIOUS
  <1>1. QueueTypes
    <2>1. \A b \in Board : Len(tx[b]) = 0 /\ Len(rx[b]) = 0
      BY DEF Init
    <2> QED
      BY <2>1, SpiSyncAssumption DEF Init, QueueTypes
  <1>2. FrameTypes
    BY FrameFacts DEF Init, FrameTypes
  <1>3. ControlTypes
    BY DEF Init, ControlTypes, Board, MasterPc, SlavePc
  <1>4. NumberTypes
    BY DEF Init, NumberTypes
  <1> QED
    BY <1>1, <1>2, <1>3, <1>4 DEF TypeOK

\* Which actions change which variables.
LEMMA Footprint ==
    ASSUME Next
    PROVE
      /\ \/ MasterTake \/ MasterStore \/ SlaveStore \/ SlaveSend
         \/ \E b \in Board : QueueAdd(b) \/ Dequeue(b)
         \/ UNCHANGED <<tx, rx>>
      /\ \/ MasterTake \/ MasterQuery \/ MasterCopy \/ SlaveReceive
         \/ UNCHANGED hand
      /\ \/ MasterSend \/ MasterCount \/ MasterGather \/ SlaveReceive
         \/ SlaveLevel \/ SlaveSend
         \/ UNCHANGED wire
      /\ MasterCount \/ MasterGather \/ Knock \/ UNCHANGED buf
      /\ ReadCount \/ MasterGather \/ SlaveLevel \/ SlaveSend \/ UNCHANGED recCount
      /\ SlaveRaise \/ SlaveLower \/ UNCHANGED waitingPin
      /\ DeviceAttach \/ DeviceDetach \/ UNCHANGED attachedPin
      /\ \/ MasterSync /\ UNCHANGED core0Vars
         \/ SlaveSync /\ UNCHANGED core0Vars
         \/ UNCHANGED pc
      /\ \/ \E b \in Board : Enqueue(b) \/ QueueAdd(b)
         \/ MasterCore0
         \/ UNCHANGED <<core0, c0msg, added>>
      /\ \/ \E b \in Board : Dequeue(b)
         \/ UNCHANGED <<taken, got>>
  BY DEF Next, MasterSync, SlaveSync, Core0, MasterCore0, SlaveCore0, sharedVars,
     core0Vars, core1Vars, SyncStart, MasterTake, MasterQuery, MasterSend,
     MasterCount, ReadCount, MasterGather, MasterCopy, MasterStore,
     MasterRoundEnd, SlaveRaise, SlaveReceive, SlaveLower, SlaveStore,
     SlaveLevel, SlaveSend, SlaveRoundEnd, Enqueue, QueueAdd, Gate, GateOpen,
     Knock, KnockCopy, Dequeue, DeviceAttach, DeviceDetach

\* Appending below the capacity and removing keep a queue a bounded queue.
LEMMA QueueUpdate ==
    ASSUME NEW f \in [Board -> Seq(Nat)],
           \A c \in Board : Len(f[c]) <= Capacity,
           NEW b \in Board, NEW x \in Nat, NEW g,
           \/ g = [f EXCEPT ![b] = Append(@, x)] /\ Len(f[b]) < Capacity
           \/ g = [f EXCEPT ![b] = Tail(@)] /\ f[b] # <<>>
    PROVE  /\ g \in [Board -> Seq(Nat)]
           /\ \A c \in Board : Len(g[c]) <= Capacity
  <1>1. f[b] \in Seq(Nat) /\ Len(f[b]) \in Nat /\ Len(f[b]) <= Capacity
    OBVIOUS
  <1>2. g[b] \in Seq(Nat) /\ Len(g[b]) <= Capacity /\ g = [f EXCEPT ![b] = g[b]]
    <2>1. CASE g = [f EXCEPT ![b] = Append(@, x)] /\ Len(f[b]) < Capacity
      BY <1>1, <2>1, QueueFacts, SpiSyncAssumption
    <2>2. CASE g = [f EXCEPT ![b] = Tail(@)] /\ f[b] # <<>>
      BY <1>1, <2>2, QueueFacts, SpiSyncAssumption
    <2> QED
      BY <2>1, <2>2
  <1> QED
    BY <1>2

LEMMA QueueTypesStep == TypeOK /\ Next => QueueTypes'
  <1> SUFFICES ASSUME TypeOK, Next PROVE QueueTypes'
    OBVIOUS
  <1> "master" \in Board /\ "slave" \in Board
    BY DEF Board
  <1>t. /\ tx \in [Board -> Seq(Nat)] /\ rx \in [Board -> Seq(Nat)]
        /\ \A b \in Board : Len(tx[b]) <= Capacity /\ Len(rx[b]) <= Capacity
        /\ c0msg \in [Board -> Nat]
        /\ hand \in [Board -> Frame]
    BY DEF TypeOK, QueueTypes, NumberTypes, FrameTypes
  <1>n. \A b \in Board : hand[b].id \in Nat
    BY <1>t, FrameFacts
  <1>1. CASE MasterTake
    BY <1>1, <1>t, QueueUpdate DEF MasterTake, QueueTypes
  <1>2. CASE MasterStore
    BY <1>2, <1>t, <1>n, QueueUpdate DEF MasterStore, QueueTypes
  <1>3. CASE SlaveStore
    BY <1>3, <1>t, <1>n, QueueUpdate DEF SlaveStore, QueueTypes
  <1>4. CASE SlaveSend
    BY <1>4, <1>t, QueueUpdate DEF SlaveSend, QueueTypes
  <1>5. ASSUME NEW b \in Board, QueueAdd(b) PROVE QueueTypes'
    BY <1>5, <1>t, QueueUpdate DEF QueueAdd, QueueTypes
  <1>6. ASSUME NEW b \in Board, Dequeue(b) PROVE QueueTypes'
    BY <1>6, <1>t, QueueUpdate DEF Dequeue, QueueTypes
  <1>7. CASE UNCHANGED <<tx, rx>>
    BY <1>7, <1>t DEF QueueTypes
  <1> QED
    BY <1>1, <1>2, <1>3, <1>4, <1>5, <1>6, <1>7, Footprint

LEMMA FrameTypesStep == TypeOK /\ Next => FrameTypes'
  <1> SUFFICES ASSUME TypeOK, Next PROVE FrameTypes'
    OBVIOUS
  <1> "master" \in Board /\ "slave" \in Board
    BY DEF Board
  <1>t. /\ tx \in [Board -> Seq(Nat)]
        /\ wire \in [Board -> Seq(Frame)]
        /\ hand \in [Board -> Frame]
        /\ buf \in Frame
        /\ recCount \in [Board -> Nat]
        /\ added["master"] \in Nat
    BY DEF TypeOK, QueueTypes, NumberTypes, FrameTypes
  <1>1. wire' \in [Board -> Seq(Frame)]
    <2>1. CASE MasterSend
      BY <2>1, <1>t, WireFacts DEF MasterSend
    <2>2. CASE MasterCount
      BY <2>2, <1>t, WireFacts DEF MasterCount
    <2>3. CASE MasterGather
      BY <2>3, <1>t, WireFacts DEF MasterGather
    <2>4. CASE SlaveReceive
      BY <2>4, <1>t, WireFacts DEF SlaveReceive
    <2>5. CASE SlaveLevel
      BY <2>5, <1>t, WireFacts, FrameFacts DEF SlaveLevel
    <2>6. CASE SlaveSend
      <3>1. Data(Head(tx["slave"])) \in Frame
        BY <2>6, <1>t, QueueFacts, FrameFacts DEF SlaveSend
      <3> QED
        BY <2>6, <3>1, <1>t, WireFacts DEF SlaveSend
    <2>7. CASE UNCHANGED wire
      BY <2>7, <1>t
    <2> QED
      BY <2>1, <2>2, <2>3, <2>4, <2>5, <2>6, <2>7, Footprint
  <1>2. hand' \in [Board -> Frame]
    <2>1. CASE MasterTake
      <3>1. Data(Head(tx["master"])) \in Frame
        BY <2>1, <1>t, QueueFacts, FrameFacts DEF MasterTake
      <3> QED
        BY <2>1, <3>1, <1>t DEF MasterTake
    <2>2. CASE MasterQuery
      BY <2>2, <1>t, FrameFacts DEF MasterQuery
    <2>3. CASE MasterCopy
      BY <2>3, <1>t, FrameFacts DEF MasterCopy
    <2>4. CASE SlaveReceive
      BY <2>4, <1>t, WireFacts DEF SlaveReceive
    <2>5. CASE UNCHANGED hand
      BY <2>5, <1>t
    <2> QED
      BY <2>1, <2>2, <2>3, <2>4, <2>5, Footprint
  <1>3. buf' \in Frame
    <2>1. CASE MasterCount
      BY <2>1, <1>t, WireFacts DEF MasterCount
    <2>2. CASE MasterGather
      BY <2>2, <1>t, WireFacts DEF MasterGather
    <2>3. CASE Knock
      BY <2>3, <1>t, FrameFacts DEF Knock
    <2> QED
      BY <2>1, <2>2, <2>3, <1>t, Footprint
  <1> QED
    BY <1>1, <1>2, <1>3 DEF FrameTypes

LEMMA ControlTypesStep == TypeOK /\ Next => ControlTypes'
  <1> SUFFICES ASSUME TypeOK, Next PROVE ControlTypes'
    OBVIOUS
  <1>t. ControlTypes
    BY DEF TypeOK
  <1>1. /\ pc' \in [Board -> MasterPc \cup SlavePc]
        /\ pc'["master"] \in MasterPc /\ pc'["slave"] \in SlavePc
    <2> USE <1>t DEF ControlTypes, Board, MasterPc, SlavePc
    <2>1. CASE MasterSync
      BY <2>1
      DEF MasterSync, SyncStart, MasterTake, MasterQuery, MasterSend, MasterCount,
          ReadCount, MasterGather, MasterCopy, MasterStore, MasterRoundEnd
    <2>2. CASE SlaveSync
      BY <2>2
      DEF SlaveSync, SlaveRaise, SlaveReceive, SlaveLower, SlaveStore, SlaveLevel,
          SlaveSend, SlaveRoundEnd
    <2> QED
      BY <2>1, <2>2, Footprint
  <1>2. /\ core0' \in [Board -> {"run", "gate", "knock", "add"}]
        /\ core0'["slave"] \in {"run", "add"}
    <2> USE <1>t DEF ControlTypes, Board
    <2>1. ASSUME NEW b \in Board, Enqueue(b) \/ QueueAdd(b)
          PROVE  core0' = [core0 EXCEPT ![b] = "add"] \/ core0' = [core0 EXCEPT ![b] = "run"]
      BY <2>1 DEF Enqueue, QueueAdd
    <2>2. CASE MasterCore0
      BY <2>2 DEF MasterCore0, Gate, GateOpen, Knock, KnockCopy
    <2> QED
      BY <2>1, <2>2, Footprint
  <1>3. waitingPin' \in BOOLEAN
    BY <1>t, Footprint DEF ControlTypes, SlaveRaise, SlaveLower
  <1>4. attachedPin' \in BOOLEAN
    BY <1>t, Footprint DEF ControlTypes, DeviceAttach, DeviceDetach
  <1> QED
    BY <1>1, <1>2, <1>3, <1>4 DEF ControlTypes

LEMMA NumberTypesStep == TypeOK /\ Next => NumberTypes'
  <1> SUFFICES ASSUME TypeOK, Next PROVE NumberTypes'
    OBVIOUS
  <1> "master" \in Board /\ "slave" \in Board
    BY DEF Board
  <1>t. NumberTypes /\ buf \in Frame /\ tx \in [Board -> Seq(Nat)] /\ rx \in [Board -> Seq(Nat)]
    BY DEF TypeOK, QueueTypes, FrameTypes
  <1>1. recCount' \in [Board -> Nat]
    <2>1. CASE ReadCount
      BY <2>1, <1>t, FrameFacts DEF ReadCount, NumberTypes
    <2>2. CASE MasterGather
      BY <2>2, <1>t DEF MasterGather, NumberTypes
    <2>3. CASE SlaveLevel
      BY <2>3, <1>t DEF SlaveLevel, NumberTypes
    <2>4. CASE SlaveSend
      BY <2>4, <1>t DEF SlaveSend, NumberTypes
    <2> QED
      BY <2>1, <2>2, <2>3, <2>4, <1>t, Footprint DEF NumberTypes
  <1>n. /\ c0msg \in [Board -> Nat] /\ added \in [Board -> Nat]
        /\ taken \in [Board -> Nat] /\ got \in [Board -> Nat]
        /\ buf.id \in Nat
    BY <1>t, FrameFacts DEF NumberTypes
  <1>2. added' \in [Board -> Nat]
    <2>1. ASSUME NEW b \in Board, Enqueue(b)
          PROVE  added' \in [Board -> Nat]
      BY <2>1, <1>n DEF Enqueue
    <2>2. ASSUME NEW b \in Board, QueueAdd(b)
          PROVE  added' \in [Board -> Nat]
      BY <2>2, <1>n DEF QueueAdd
    <2>3. CASE MasterCore0
      BY <2>3, <1>n DEF MasterCore0, Gate, GateOpen, Knock, KnockCopy
    <2> QED
      BY <2>1, <2>2, <2>3, <1>n, Footprint
  <1>3. c0msg' \in [Board -> Nat]
    BY <1>n, Footprint DEF Enqueue, QueueAdd, MasterCore0, Gate, GateOpen, Knock, KnockCopy
  <1>4. taken' \in [Board -> Nat]
    <2>1. ASSUME NEW b \in Board, Dequeue(b)
          PROVE  taken' \in [Board -> Nat]
      BY <2>1, <1>n DEF Dequeue
    <2> QED
      BY <2>1, <1>n, Footprint
  <1>5. got' \in [Board -> Nat]
    <2>1. ASSUME NEW b \in Board, Dequeue(b)
          PROVE  got' \in [Board -> Nat]
      <3>1. Head(rx[b]) \in Nat
        BY <2>1, <1>t, QueueFacts DEF Dequeue
      <3> QED
        BY <2>1, <3>1, <1>n DEF Dequeue
    <2> QED
      BY <2>1, <1>n, Footprint
  <1> QED
    BY <1>1, <1>2, <1>3, <1>4, <1>5 DEF NumberTypes

LEMMA TypeStep == TypeOK /\ [Next]_vars => TypeOK'
  <1> SUFFICES ASSUME TypeOK, [Next]_vars PROVE TypeOK'
    OBVIOUS
  <1>1. CASE Next
    BY <1>1, QueueTypesStep, FrameTypesStep, ControlTypesStep, NumberTypesStep DEF TypeOK
  <1>2. CASE UNCHANGED vars
    BY <1>2
    DEF vars, TypeOK, QueueTypes, FrameTypes, ControlTypes, NumberTypes
  <1> QED
    BY <1>1, <1>2

\* The queues of the message layer never exceed their capacity and every
\* variable keeps its type.
THEOREM TypeCorrect == Spec => []TypeOK
  BY TypeInit, TypeStep, PTL DEF Spec

-----------------------------------------------------------------------------
(* The phases of the handshake.                                            *)

\* The part of the invariant that speaks of core 1 of the boards and the wire.
HandshakeInv == PhaseInv /\ SlaveNeverStarves /\ BufferMine

LEMMA HandshakeInit == Init => HandshakeInv
  BY DEF Init, HandshakeInv, PhaseInv, SlaveNeverStarves, BufferMine, PinPhase,
     MasterWire, SlaveWire, CountAgreement, Gathering, Answering, QueryOnWire,
     CountOnWire, Owed, Board, NoFrame

LEMMA HandshakeMaster == TypeOK /\ HandshakeInv /\ MasterSync => HandshakeInv'
  <1> SUFFICES ASSUME TypeOK, HandshakeInv, MasterSync PROVE HandshakeInv'
    OBVIOUS
  <1> "master" \in Board /\ "slave" \in Board
    BY DEF Board
  <1>t. /\ tx \in [Board -> Seq(Nat)] /\ wire \in [Board -> Seq(Frame)]
        /\ hand \in [Board -> Frame] /\ buf \in Frame
        /\ recCount \in [Board -> Nat]
        /\ pc \in [Board -> MasterPc \cup SlavePc]
        /\ pc["master"] \in MasterPc /\ pc["slave"] \in SlavePc
    BY DEF TypeOK, QueueTypes, NumberTypes, FrameTypes, ControlTypes
  <1>i. PinPhase /\ MasterWire /\ SlaveWire /\ CountAgreement /\ SlaveNeverStarves /\ BufferMine
    BY DEF HandshakeInv, PhaseInv
  <1> USE DEF HandshakeInv, PhaseInv, Answering, QueryOnWire, CountOnWire, Gathering, Owed
  <1>1. CASE SyncStart
    <2>1. /\ pc["master"] = "check" /\ pc'["master"] = "drain" /\ pc'["slave"] = pc["slave"]
          /\ UNCHANGED <<tx, wire, hand, buf, recCount, waitingPin>>
      BY <1>1, <1>t DEF SyncStart, sharedVars
    <2> QED
      BY <1>i, <1>t, <2>1
      DEF PinPhase, MasterWire, SlaveWire, CountAgreement, SlaveNeverStarves, BufferMine
  <1>2. CASE MasterTake
    <2>1. /\ pc["master"] = "drain" /\ pc'["master"] = "await" /\ pc'["slave"] = pc["slave"]
          /\ hand'["master"] = Data(Head(tx["master"])) /\ hand'["slave"] = hand["slave"]
          /\ tx'["slave"] = tx["slave"]
          /\ UNCHANGED <<wire, buf, recCount, waitingPin>>
      BY <1>2, <1>t DEF MasterTake, sharedVars
    <2> QED
      BY <1>i, <1>t, <2>1
      DEF PinPhase, MasterWire, SlaveWire, CountAgreement, SlaveNeverStarves, BufferMine, Data
  <1>3. CASE MasterQuery
    <2>1. /\ pc["master"] = "drain" /\ pc'["master"] = "await" /\ pc'["slave"] = pc["slave"]
          /\ hand'["master"] = Query /\ hand'["slave"] = hand["slave"]
          /\ UNCHANGED <<tx, wire, buf, recCount, waitingPin>>
      BY <1>3, <1>t DEF MasterQuery, sharedVars
    <2> QED
      BY <1>i, <1>t, <2>1
      DEF PinPhase, MasterWire, SlaveWire, CountAgreement, SlaveNeverStarves, BufferMine, Query
  <1>4. CASE MasterSend
    <2>1. /\ pc["master"] = "await" /\ waitingPin
          /\ pc'["master"] = IF hand["master"].type = "query" THEN "count" ELSE "drain"
          /\ pc'["slave"] = pc["slave"]
          /\ wire'["master"] = Append(wire["master"], hand["master"])
          /\ wire'["slave"] = wire["slave"]
          /\ UNCHANGED <<tx, hand, buf, recCount, waitingPin>>
      BY <1>4, <1>t DEF MasterSend, sharedVars
    <2>2. /\ pc["slave"] \in {"recv", "lower"} /\ ~Answering /\ ~Answering'
          /\ wire["slave"] = <<>>
      BY <1>i, <1>t, <2>1 DEF PinPhase, SlaveWire
    <2>3. PinPhase'
      BY <1>i, <2>1 DEF PinPhase
    <2>4. MasterWire'
      <3>1. \A i \in 1..Len(wire["master"]) : wire["master"][i].type = "data"
        BY <1>i, <2>1 DEF MasterWire
      <3>2. /\ wire["master"] \in Seq(Frame) /\ hand["master"] \in Frame
            /\ hand["master"].type \in {"data", "query"}
        BY <1>i, <1>t, <2>1 DEF PinPhase
      <3>3. /\ Len(wire'["master"]) = Len(wire["master"]) + 1
            /\ wire'["master"] # <<>>
            /\ Len(wire["master"]) \in Nat
            /\ wire'["master"][Len(wire["master"]) + 1] = hand["master"]
            /\ \A i \in 1..Len(wire["master"]) : wire'["master"][i] = wire["master"][i]
        BY <2>1, <3>2, WireFacts
      <3>4. ASSUME NEW i \in 1..Len(wire'["master"])
            PROVE  wire'["master"][i].type =
                     IF QueryOnWire' /\ i = Len(wire'["master"]) THEN "query" ELSE "data"
        <4>1. CASE i = Len(wire'["master"])
          BY <2>1, <2>2, <3>2, <3>3, <4>1
        <4>2. CASE i # Len(wire'["master"])
          BY <3>1, <3>3, <4>2
        <4> QED
          BY <4>1, <4>2
      <3> QED
        BY <2>1, <2>2, <3>3, <3>4 DEF MasterWire
    <2>5. SlaveWire'
      BY <1>i, <2>1, <2>2 DEF SlaveWire
    <2>6. CountAgreement'
      BY <1>i, <2>1, <2>2 DEF CountAgreement
    <2>7. SlaveNeverStarves' /\ BufferMine'
      BY <1>i, <2>1 DEF SlaveNeverStarves, BufferMine
    <2> QED
      BY <2>3, <2>4, <2>5, <2>6, <2>7
  <1>5. CASE MasterCount
    <2>1. /\ pc["master"] = "count" /\ wire["slave"] # <<>>
          /\ pc'["master"] = "readcount" /\ pc'["slave"] = pc["slave"]
          /\ wire'["master"] = wire["master"]
          /\ wire'["slave"] = Tail(wire["slave"]) /\ buf' = Head(wire["slave"])
          /\ UNCHANGED <<tx, hand, recCount, waitingPin>>
      BY <1>5, <1>t DEF MasterCount, sharedVars
    <2>2. /\ pc["slave"] = "reply" /\ buf' = Count(recCount["slave"])
          /\ wire'["slave"] = <<>>
      BY <1>i, <1>t, <2>1, WireFacts DEF SlaveWire
    <2> QED
      BY <1>i, <1>t, <2>1, <2>2
      DEF PinPhase, MasterWire, SlaveWire, CountAgreement, SlaveNeverStarves, BufferMine, Count
  <1>6. CASE ReadCount
    <2>1. /\ pc["master"] = "readcount" /\ pc'["master"] = "gather" /\ pc'["slave"] = pc["slave"]
          /\ recCount'["master"] = IF buf.type = "count" THEN buf.id ELSE 0
          /\ recCount'["slave"] = recCount["slave"]
          /\ UNCHANGED <<tx, wire, hand, buf, waitingPin>>
      BY <1>6, <1>t DEF ReadCount, sharedVars
    <2> QED
      BY <1>i, <1>t, <2>1
      DEF PinPhase, MasterWire, SlaveWire, CountAgreement, SlaveNeverStarves, BufferMine
  <1>7. CASE MasterGather
    <2>1. /\ pc["master"] = "gather" /\ recCount["master"] > 0 /\ wire["slave"] # <<>>
          /\ pc'["master"] = "copy" /\ pc'["slave"] = pc["slave"]
          /\ recCount'["master"] = recCount["master"] - 1
          /\ recCount'["slave"] = recCount["slave"]
          /\ wire'["master"] = wire["master"]
          /\ wire'["slave"] = Tail(wire["slave"]) /\ buf' = Head(wire["slave"])
          /\ UNCHANGED <<tx, hand, waitingPin>>
      BY <1>7, <1>t DEF MasterGather, sharedVars
    <2>2. /\ pc["slave"] = "reply" /\ buf'.type = "data"
          /\ wire'["slave"] = <<>> /\ Len(wire["slave"]) = 1
      <3>1. wire["slave"] \in Seq(Frame) /\ Len(wire["slave"]) <= 1
        BY <1>i, <1>t DEF SlaveWire
      <3>2. /\ Len(wire["slave"]) = 1 /\ Head(wire["slave"]) = wire["slave"][1]
            /\ Tail(wire["slave"]) = <<>>
        BY <2>1, <3>1, ReadSingle
      <3> QED
        BY <1>i, <2>1, <3>2 DEF SlaveWire
    <2> QED
      BY <1>i, <1>t, <2>1, <2>2
      DEF PinPhase, MasterWire, SlaveWire, CountAgreement, SlaveNeverStarves, BufferMine
  <1>8. CASE MasterCopy
    <2>1. /\ pc["master"] = "copy" /\ pc'["master"] = "store" /\ pc'["slave"] = pc["slave"]
          /\ hand'["slave"] = hand["slave"]
          /\ UNCHANGED <<tx, wire, buf, recCount, waitingPin>>
      BY <1>8, <1>t DEF MasterCopy, sharedVars
    <2> QED
      BY <1>i, <1>t, <2>1
      DEF PinPhase, MasterWire, SlaveWire, CountAgreement, SlaveNeverStarves, BufferMine
  <1>9. CASE MasterStore
    <2>1. /\ pc["master"] = "store" /\ pc'["master"] = "gather" /\ pc'["slave"] = pc["slave"]
          /\ UNCHANGED <<tx, wire, hand, buf, recCount, waitingPin>>
      BY <1>9, <1>t DEF MasterStore
    <2> QED
      BY <1>i, <1>t, <2>1
      DEF PinPhase, MasterWire, SlaveWire, CountAgreement, SlaveNeverStarves, BufferMine
  <1>10. CASE MasterRoundEnd
    <2>1. /\ pc["master"] = "gather" /\ recCount["master"] = 0
          /\ pc'["master"] = "check" /\ pc'["slave"] = pc["slave"]
          /\ UNCHANGED <<tx, wire, hand, buf, recCount, waitingPin>>
      BY <1>10, <1>t DEF MasterRoundEnd, sharedVars
    <2> QED
      BY <1>i, <1>t, <2>1
      DEF PinPhase, MasterWire, SlaveWire, CountAgreement, SlaveNeverStarves, BufferMine
  <1> QED
    BY <1>1, <1>2, <1>3, <1>4, <1>5, <1>6, <1>7, <1>8, <1>9, <1>10 DEF MasterSync

LEMMA HandshakeSlave == TypeOK /\ HandshakeInv /\ SlaveSync => HandshakeInv'
  <1> SUFFICES ASSUME TypeOK, HandshakeInv, SlaveSync PROVE HandshakeInv'
    OBVIOUS
  <1> "master" \in Board /\ "slave" \in Board
    BY DEF Board
  <1>t. /\ tx \in [Board -> Seq(Nat)] /\ wire \in [Board -> Seq(Frame)]
        /\ hand \in [Board -> Frame] /\ buf \in Frame
        /\ recCount \in [Board -> Nat]
        /\ pc \in [Board -> MasterPc \cup SlavePc]
        /\ pc["master"] \in MasterPc /\ pc["slave"] \in SlavePc
    BY DEF TypeOK, QueueTypes, NumberTypes, FrameTypes, ControlTypes
  <1>i. PinPhase /\ MasterWire /\ SlaveWire /\ CountAgreement /\ SlaveNeverStarves /\ BufferMine
    BY DEF HandshakeInv, PhaseInv
  <1> USE DEF HandshakeInv, PhaseInv, Answering, QueryOnWire, CountOnWire, Gathering, Owed
  <1>1. CASE SlaveRaise
    <2>1. /\ pc["slave"] = "raise" /\ pc'["slave"] = "recv" /\ pc'["master"] = pc["master"]
          /\ waitingPin' = TRUE
          /\ UNCHANGED <<tx, wire, hand, buf, recCount>>
      BY <1>1, <1>t DEF SlaveRaise, sharedVars
    <2> QED
      BY <1>i, <1>t, <2>1
      DEF PinPhase, MasterWire, SlaveWire, CountAgreement, SlaveNeverStarves, BufferMine
  <1>2. CASE SlaveReceive
    <2>1. /\ pc["slave"] = "recv" /\ pc'["slave"] = "lower" /\ pc'["master"] = pc["master"]
          /\ wire["master"] # <<>>
          /\ hand'["slave"] = Head(wire["master"]) /\ hand'["master"] = hand["master"]
          /\ wire'["master"] = Tail(wire["master"]) /\ wire'["slave"] = wire["slave"]
          /\ UNCHANGED <<tx, buf, recCount, waitingPin>>
      BY <1>2, <1>t DEF SlaveReceive, sharedVars
    <2>2. /\ Head(wire["master"]) = wire["master"][1]
          /\ Len(wire["master"]) \in Nat /\ Len(wire["master"]) >= 1
          /\ Len(wire'["master"]) = Len(wire["master"]) - 1
          /\ \A i \in 1..Len(wire'["master"]) : wire'["master"][i] = wire["master"][i + 1]
          /\ wire'["master"] \in Seq(Frame)
      BY <1>t, <2>1, WireFacts
    <2>3. wire["slave"] = <<>>
      BY <1>i, <2>1 DEF SlaveWire
    <2>4. CASE QueryOnWire /\ Len(wire["master"]) = 1
      <3>1. hand'["slave"].type = "query"
        BY <1>i, <2>1, <2>2, <2>4 DEF MasterWire
      <3>2. wire'["master"] = <<>>
        BY <2>2, <2>4, EmptySeq
      <3> QED
        BY <1>i, <1>t, <2>1, <2>3, <2>4, <3>1, <3>2
        DEF PinPhase, MasterWire, SlaveWire, CountAgreement, SlaveNeverStarves, BufferMine
    <2>5. CASE ~(QueryOnWire /\ Len(wire["master"]) = 1)
      <3>1. hand'["slave"].type = "data"
        <4>1. 1 \in 1..Len(wire["master"])
          BY <2>2
        <4>2. ~(QueryOnWire /\ 1 = Len(wire["master"]))
          BY <2>5
        <4>3. wire["master"][1].type = "data"
          BY <1>i, <4>1, <4>2 DEF MasterWire
        <4> QED
          BY <2>1, <2>2, <4>3
      <3>2. ~Answering /\ ~Answering'
        BY <2>1, <3>1
      <3>3. ASSUME NEW i \in 1..Len(wire'["master"])
            PROVE  wire'["master"][i].type =
                     IF QueryOnWire' /\ i = Len(wire'["master"]) THEN "query" ELSE "data"
        <4>1. i + 1 \in 1..Len(wire["master"]) /\ wire'["master"][i] = wire["master"][i + 1]
          BY <2>2
        <4>2. i = Len(wire'["master"]) <=> i + 1 = Len(wire["master"])
          BY <2>2
        <4> QED
          BY <1>i, <2>1, <3>2, <4>1, <4>2 DEF MasterWire
      <3>4. QueryOnWire' => wire'["master"] # <<>>
        <4>1. QueryOnWire' => Len(wire'["master"]) >= 1
          <5> DEFINE n == Len(wire["master"])
          <5>1. QueryOnWire' => n # 1
            BY <2>1, <2>5, <3>2
          <5>2. n \in Nat /\ n >= 1 /\ Len(wire'["master"]) = n - 1
            BY <2>2
          <5> HIDE DEF n
          <5> QED
            BY <5>1, <5>2
        <4> QED
          BY <4>1, EmptySeq
      <3>5. MasterWire'
        BY <1>i, <2>1, <3>2, <3>3, <3>4 DEF MasterWire
      <3> QED
        BY <1>i, <1>t, <2>1, <2>3, <3>1, <3>2, <3>5
        DEF PinPhase, SlaveWire, CountAgreement, SlaveNeverStarves, BufferMine
    <2> QED
      BY <2>4, <2>5
  <1>3. CASE SlaveLower
    <2>1. /\ pc["slave"] = "lower" /\ pc'["master"] = pc["master"]
          /\ pc'["slave"] = IF hand["slave"].type = "query" THEN "level" ELSE "store"
          /\ waitingPin' = FALSE
          /\ UNCHANGED <<tx, wire, hand, buf, recCount>>
      BY <1>3, <1>t DEF SlaveLower, sharedVars
    <2> QED
      BY <1>i, <1>t, <2>1
      DEF PinPhase, MasterWire, SlaveWire, CountAgreement, SlaveNeverStarves, BufferMine
  <1>4. CASE SlaveStore
    <2>1. /\ pc["slave"] = "store" /\ pc'["slave"] = "raise" /\ pc'["master"] = pc["master"]
          /\ UNCHANGED <<tx, wire, hand, buf, recCount, waitingPin>>
      BY <1>4, <1>t DEF SlaveStore
    <2> QED
      BY <1>i, <1>t, <2>1
      DEF PinPhase, MasterWire, SlaveWire, CountAgreement, SlaveNeverStarves, BufferMine
  <1>5. CASE SlaveLevel
    <2>1. /\ pc["slave"] = "level" /\ pc'["slave"] = "reply" /\ pc'["master"] = pc["master"]
          /\ recCount'["slave"] = Len(tx["slave"]) /\ recCount'["master"] = recCount["master"]
          /\ wire'["slave"] = Append(wire["slave"], Count(Len(tx["slave"])))
          /\ wire'["master"] = wire["master"]
          /\ UNCHANGED <<tx, hand, buf, waitingPin>>
      BY <1>5, <1>t DEF SlaveLevel, sharedVars
    <2>2. wire["slave"] = <<>> /\ pc["master"] = "count"
      BY <1>i, <2>1 DEF SlaveWire
    <2>3. wire'["slave"] = <<Count(recCount'["slave"])>>
      BY <2>1, <2>2
    <2>4. Len(tx["slave"]) \in Nat
      BY <1>t
    <2> QED
      BY <1>i, <1>t, <2>1, <2>2, <2>3, <2>4
      DEF PinPhase, MasterWire, SlaveWire, CountAgreement, SlaveNeverStarves, BufferMine
  <1>6. CASE SlaveSend
    <2>1. /\ pc["slave"] = "reply" /\ wire["slave"] = <<>> /\ recCount["slave"] > 0
          /\ tx["slave"] # <<>>
          /\ recCount'["slave"] = recCount["slave"] - 1 /\ recCount'["master"] = recCount["master"]
          /\ wire'["slave"] = Append(wire["slave"], Data(Head(tx["slave"])))
          /\ wire'["master"] = wire["master"]
          /\ tx'["slave"] = Tail(tx["slave"])
          /\ UNCHANGED <<pc, hand, buf, waitingPin>>
      BY <1>6, <1>t DEF SlaveSend
    <2>2. wire'["slave"] = <<Data(Head(tx["slave"]))>>
      BY <2>1
    <2>3. Len(tx'["slave"]) = Len(tx["slave"]) - 1 /\ Len(tx["slave"]) \in Nat
      BY <1>t, <2>1, QueueFacts
    <2>4. ~CountOnWire
      BY <1>i, <2>1 DEF SlaveWire
    <2> QED
      BY <1>i, <1>t, <2>1, <2>2, <2>3, <2>4
      DEF PinPhase, MasterWire, SlaveWire, CountAgreement, SlaveNeverStarves, BufferMine, Data
  <1>7. CASE SlaveRoundEnd
    <2>1. /\ pc["slave"] = "reply" /\ wire["slave"] = <<>> /\ recCount["slave"] = 0
          /\ pc'["slave"] = "raise" /\ pc'["master"] = pc["master"]
          /\ UNCHANGED <<tx, wire, hand, buf, recCount, waitingPin>>
      BY <1>7, <1>t DEF SlaveRoundEnd, sharedVars
    <2>2. ~CountOnWire
      BY <1>i, <2>1 DEF SlaveWire
    <2> QED
      BY <1>i, <1>t, <2>1, <2>2
      DEF PinPhase, MasterWire, SlaveWire, CountAgreement, SlaveNeverStarves, BufferMine
  <1> QED
    BY <1>1, <1>2, <1>3, <1>4, <1>5, <1>6, <1>7 DEF SlaveSync

\* Core 0 disturbs the handshake only by adding to tx and, if it knocks, by
\* overwriting the master's bugger.
LEMMA HandshakeCore0 ==
    ASSUME TypeOK, HandshakeInv, Next, UNCHANGED pc, ~SlaveSync, ~MasterSync
    PROVE  HandshakeInv'
  <1> "master" \in Board /\ "slave" \in Board
    BY DEF Board
  <1>t. tx \in [Board -> Seq(Nat)] /\ c0msg \in [Board -> Nat]
    BY DEF TypeOK, QueueTypes, NumberTypes
  <1>1. UNCHANGED <<wire, hand, recCount, waitingPin>>
    BY Footprint DEF MasterSync, SlaveSync
  <1>2. Len(tx'["slave"]) >= Len(tx["slave"])
    <2>1. ASSUME NEW b \in Board, QueueAdd(b) PROVE Len(tx'["slave"]) >= Len(tx["slave"])
      BY <1>t, <2>1, QueueFacts DEF QueueAdd
    <2>2. ASSUME NEW b \in Board, Dequeue(b) PROVE UNCHANGED tx
      BY <2>2 DEF Dequeue
    <2>3. CASE UNCHANGED tx
      BY <1>t, <2>3
    <2> QED
      BY <2>1, <2>2, <2>3, Footprint DEF MasterSync, SlaveSync
  <1>3. UNCHANGED buf \/ (Knocks /\ buf'.type = "knock")
    BY Footprint DEF MasterSync, SlaveSync, Knock, Knocking
  <1>4. PinPhase' /\ MasterWire' /\ SlaveWire'
    BY <1>1
    DEF HandshakeInv, PhaseInv, PinPhase, MasterWire, SlaveWire, Answering,
        QueryOnWire, CountOnWire, Gathering
  <1>5. CountAgreement' /\ BufferMine'
    BY <1>1, <1>3
    DEF HandshakeInv, PhaseInv, CountAgreement, BufferMine, Gathering, Owed
  <1>6. SlaveNeverStarves'
    <2>1. recCount["slave"] \in Nat /\ Len(tx["slave"]) \in Nat /\ Len(tx'["slave"]) \in Nat
      <3>1. /\ recCount \in [Board -> Nat]
            /\ tx' \in [Board -> Seq(Nat)]
        BY QueueTypesStep DEF TypeOK, NumberTypes, QueueTypes
      <3> QED
        BY <1>t, <3>1
    <2> QED
      BY <1>1, <1>2, <2>1 DEF HandshakeInv, SlaveNeverStarves
  <1> QED
    BY <1>4, <1>5, <1>6 DEF HandshakeInv, PhaseInv

LEMMA HandshakeStep == TypeOK /\ HandshakeInv /\ [Next]_vars => HandshakeInv'
  <1> SUFFICES ASSUME TypeOK, HandshakeInv, [Next]_vars PROVE HandshakeInv'
    OBVIOUS
  <1>1. CASE Next
    BY <1>1, HandshakeMaster, HandshakeSlave, HandshakeCore0, Footprint
  <1>2. CASE UNCHANGED vars
    BY <1>2
    DEF vars, HandshakeInv, PhaseInv, SlaveNeverStarves, BufferMine, PinPhase,
        MasterWire, SlaveWire, CountAgreement, Gathering, Answering, QueryOnWire,
        CountOnWire, Owed
  <1> QED
    BY <1>1, <1>2

\* The handshake keeps its phases, the slave never announces more than it has
\* and the two loops over rec_count agree.
THEOREM HandshakeCorrect == Spec => [](TypeOK /\ HandshakeInv)
  BY TypeInit, TypeStep, HandshakeInit, HandshakeStep, PTL DEF Spec
=============================================================================
