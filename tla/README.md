# USBSEC in TLA+

USBSEC is a USB firewall made of two Raspberry Pi Pico boards. The *master* is
the USB device that the host sees, the *slave* is the USB host of the real
device. They are joined by SPI and two GPIO pins. Requests go from the master's
controller over SPI to the slave and to the device, answers the other way, and
the master may refuse what it does not want to pass on. This directory models
the firmware of both boards (`src/pico_firmware/src`), checks it with TLC on
small instances and proves every safety property of the runs that pass, for every
value of the constants that satisfies the stated assumptions, with TLAPS.
File names below are relative to `src/pico_firmware/src`.

## The system

Each board runs two loops (main.c): core 1 calls `sync()` forever, core 0
alternates between a poll of the USB controller and one message of the other
board. The poll functions have "irq" in their names but are called from the
loop; no code runs in an interrupt.

| component | state | operations | hard behaviour |
|---|---|---|---|
| message layer (lib/messages/messages.c) | queues `tx`, `rx` of 20 messages, the buffer `bugger`, the two pins | `enqueue_spi_message`, `dequeue_spi_message`, `knock_on_slave_edpt`, `sync` | two cores and two boards; blocking adds and removes; one wire with several kinds of frame; a buffer both cores write |
| SPI frames (lib/messages/spi_data.c) | `flag`, `dummy` | `spi_send_blocking`, `spi_receive_blocking` | the slave cannot slow the master down; the start of a frame is found by its value |
| slave request handler (host_event_handlers.c) | `setup_packet`, `level`, `dev_addr` | `slavework` (one case per message type), `hcd_event_xfer_complete`, attach and remove | completions are told apart by `level` only |
| slave host controller driver (hcd_rp2040.c) | the pool of endpoints, EPX first; `active_ep` | `hcd_edpt_open`, `hcd_edpt_xfer`, `hcd_setup_send`, the poll | direction and PID of a shared endpoint; a pool that is never freed |
| endpoint buffers (rp2040_usb.c) | `remaining_len`, `xferred_len`, `next_pid`, `wMaxPacketSize` | start, continue, synchronise, partial | short packets, PID parity, a packet size not yet known |
| master request handler (device_event_handlers.c) | `setup`, `setup_response_dir`, `bMaxPacketSize` | `handle_spi_slave_event`, setup received, transfer complete, bus reset | the answer comes in pieces while the host may do something else |
| setup response aggregator | `bugger`, `len` | register, send upstream | when `len` is cleared |
| master device controller driver (dcd_rp2040.c) | endpoints, `next_buffer_ptr` | the poll, open, transfer | order of the handling of events of one poll; packet memory |
| drivers, validator | a driver and an interface for each endpoint, MSC counters | completion and message of each driver, `check_comm` | knocks per packet, early end of a SCSI command, banned devices |
| debug, direction control | print flags; two pins | output, `error` | none; `error` stops core 0 |
| legacy/ | ring buffers, PIO programs | not built | |

What makes them correct:

- *message layer*: every message arrives once, in order, unchanged; the boards
  agree on whose turn it is and on how many messages a round has; nobody waits
  for something that cannot come.
- *slave control transfers*: every request is answered with all the bytes the
  device has; PID and address are those the device uses; a completion belongs to
  the request it is counted for.
- *master control transfers*: the host reads the answer to its own request in
  order and to the end; the address changes when the host changes it.
- *endpoints*: no endpoint takes another's place or memory; a packet is passed
  on under the address of the endpoint it came from; a request for a packet is
  answered exactly once.
- *drivers*: one request is outstanding for each IN endpoint; no packet is lost
  or repeated between host and device; a command comes to its end; a keyboard's
  packet never reaches the host.

The hazards, each at its line, are in PROJECT.json.

## Modules

| module | what it is |
|---|---|
| `MessageChannel` | abstract specification: one exactly-once, in-order channel per direction |
| `SpiSync` | the message layer: both boards, both cores of each |
| `SpiSyncProps` | its properties, the parts of the inductive invariant, the refinement mapping |
| `SpiSyncProofs` | typing and the phases of the handshake, proved |
| `SpiSyncOrder` | counts, order, contents and the refinement, proved |
| `HostControl` | the slave's control transfers, with the device and the master as environment |
| `HostControlProofs` | its safety properties, proved |
| `HostEndpoints` | all endpoints of the slave at once: the pool, EPX shared by control and bulk transfers |
| `HostEndpointsProofs` | its types and which slots the endpoints take, proved |
| `HostEndpointsOrder` | owners of packets, PIDs, one answer for each request, no failed assertion, proved |
| `DeviceControl` | the master's control transfers, with the host and the slave as environment |
| `DeviceControlProofs` | its safety properties, proved |
| `Drivers` | the master's other endpoints, the drivers for mass storage and HID, the validator |
| `DriversProofs` | its types, packet memory, the judging of endpoints and what is forbidden, proved |
| `DriversOrder` | one question at a time, core 0 goes on, both channels in order, proved |

The component modules meet at messages: `enqueue_spi_message` and
`dequeue_spi_message` of `SpiSync` are what the others call `inbox`, `outbox` and
`toSlave`, and `ImplementsChannel` is what allows them to use FIFO queues there.
`HostEndpoints` and `Drivers` are the two halves of a data transfer, each with
the other as environment. The slave of `Drivers` answers a request for a packet
with one packet of that endpoint and forgets a request for bulk data when data
for the OUT endpoint comes: `AnsweredOnce`, `PacketFromOwner` and the sharing of
EPX in `HostEndpoints`. The master of `HostEndpoints` asks again only when a
packet has come, and after an OUT packet is gone: `OneQuestion` in `Drivers`.

### SpiSync

`pc["master"]` and `pc["slave"]` are the places of core 1 in `sync()`; each
action is the code between two points at which the other core or the other board
can be noticed. `MasterTake`, `MasterSend` are the loop that empties `tx`,
`MasterQuery` ... `ReadCount` the query and its answer, `MasterGather`,
`MasterCopy`, `MasterStore` the loop over the count. `SlaveRaise`,
`SlaveReceive`, `SlaveLower`, `SlaveStore` are one turn of the slave's receive
loop, `SlaveLevel` and `SlaveSend` its answer. Core 0 has `Enqueue`/`QueueAdd`
(a call that may block between its two halves), `Dequeue`, `Gate`/`GateOpen`
(the spin for an attached device) and `Knock`/`KnockCopy`.

A message is its number, because the layer never looks into one. The number 0 is
a payload whose bytes were overwritten. The copy of a payload on core 0 of the
slave and the copy into a second buffer are one step, as nothing else writes
there; the copies out of the master's `bugger` are steps of their own, as both
cores write it.

The wire is lossless and keeps its order. This is an assumption: the slave's
SPI FIFO has 8 entries, and a message that comes while the slave is not in
`recieve_message` may lose bytes. The run `spi_sync_ready` shows that the
handshake does allow that to happen, so the theorems say what holds as long as
the slave's core catches up in time.

### HostControl

`ctl` is the driver's endpoint EPX, `level`, and what it wrote to the
controller; the operators from `EndpointInit` to `TransComplete` are the
driver's functions of those names. `Poll` is `hcd_rp2040_irq_new`; the actions
from `ResetUsb` to `ChangePacketSize` are the cases of `slavework`. A core 0 that
has called `error()`, or on which a `runtime_assert` has failed (a debug build),
takes no further step. Lengths are real lengths, so that short packets, exact
fits and PID parity come out as in the code, and `PacketSizes` and `Lengths` are
small.

The device answers transactions as USB prescribes: in the stage it is in, at its
address, with alternating PIDs from DATA1. Not modelled: stalls (the code calls
`error`), NAKs (a transaction just stays), packets longer than
`wMaxPacketSize`, OUT data stages (the master does not relay any), requests the
master abandons, and every endpoint but EPX, which is in `HostEndpoints`.

Assumptions about the partners are constants. `Patience`: "idle" means that the
next request comes after the device has acknowledged the last one, "answered"
that it may come as soon as the answer has been passed on. `ExactFits`: whether
a device may fill wLength with two or more whole packets. `Swaps`: whether
another packet size may come with another device.

### DeviceControl

`ctl` is the driver's state of endpoint 0 and the address register; `turn`
alternates the halves of `core0_loop`. `NothingReceived`, `SendUpstream`,
`Response` and `LastResponse` are the paths through `handle_spi_slave_event`,
`Irq` is `dcd_rp2040_irq_new` with its events in the order of the code. A packet
is the request it answers, its number and whether it is the last, so what the
host reads and what the aggregator holds can be compared with the request.
`Quick` assumes that core 0 polls before a partner does the next thing (the slave
sends its next packet only when the host has read the last one, the host begins
a request only when its last one has been handled). Requests that open
endpoints are in `Drivers`. The host resets the bus only between requests, and gives
up only on the two requests that the code never completes (DEVICE_QUALIFIER and
SET_REPORT).

### HostEndpoints

`drv` holds the pool (`ep_pool`, with EPX in slot 0), `active_ep`, `level` and what
was written to the controller; its operators are the functions of
`hcd_rp2040.c`, `rp2040_usb.c` and `hcd_event_xfer_complete`, for any slot.
`Poll` is `hcd_rp2040_irq_new` as a whole. `OpenEndpoint`, `SetupData` and
`UsbData` are the cases of `slavework` that concern endpoints. `bufs` are the
buffer control words of the controller: EPX and every bulk endpoint write word 0,
an interrupt endpoint its own. Bulk packets and the answers to control requests
are one packet each; interrupt endpoints have several packet sizes, smaller and
larger than what a knock asks for, which is the size of a control packet. The
shared buffer `bugger` is the endpoint whose data it holds.

Constants name what the code relies on. `Apart`: control requests and USB_DATA
keep apart, that is, a control request is made when no command is under way, no
report is being sent and no transfer is started during it; with FALSE, the
completion on EPX's buffer is booked on the endpoint of the latest transfer
(hcd_rp2040.c:106) and `PacketFromOwner` is violated. `Paced`: a device sends one
report for each knock; the code leaves the buffer of an interrupt endpoint
available after a transfer of several packets has gone on, and with FALSE
`PidAgrees` is violated. `ShortReports`: a short packet may end a request of
several packets (the PID was computed for all of them, rp2040_usb.c:190); with
TRUE `PidAgrees` is violated. `OutPackets`: the number of data packets a command
sends; each one cuts short an IN transfer whose PID has turned, so an odd number
leaves the IN endpoint with the wrong PID, and `PidAgrees` is violated for {0, 1}.
`Slots` is the size of the pool besides EPX, 15 in the code. With 2, a configuration
that is read again opens the first endpoint in the slot of the second, for a moment;
a report that has come there by then is passed on as one of the first, and
`PacketFromOwner` is violated.

### Drivers

`m` is the state of the master: its endpoints with their packet memory and
buffers, the tables of drivers and interfaces, and the three variables of the
mass storage driver. The operators are the functions of `drivers.c`,
`validator.c`, `dcd_rp2040.c` and `handle_setup_response`. The five actions of
`SlaveEvent` are the paths through `handle_spi_slave_event`, `Irq` is the poll. A
control request is one message that comes back from the slave: what endpoint 0 does
with it is in `DeviceControl`. The device is mass storage, a mouse, a keyboard or
one of a class without a driver; the two HID devices have a mouse and a keyboard
interface in either order. A packet is its number in its direction, its length,
which decides what the mass storage driver does, and how much follows it.

The host reads the configuration up to 14 times between bus resets, then
configures, reads the report descriptor of interface 1 once, sends commands and
reads packets; it keeps PIDs of its own. With `MaxReads` 15 the packet memory of
58 blocks is used up by mass storage, which takes 4 each time, and `NoPanic` is
violated. With `Rereads` TRUE, a configuration read in operation, `NoPanic` is
violated too: the endpoint is opened again while its completion waits
(dcd_rp2040.c:106), and sync_ep_buffer finds the buffer empty. `DataLengths` has
no 13: with it, `CommandEnds` is violated, because data of that length is taken for
the status. Not modelled: bus resets in operation, a device
exchanged for another, interrupt OUT endpoints, devices whose control packets are
shorter than the packets of their OUT endpoint (drivers.c:34 listens for that many
bytes only).

## Runs

| run | shows | bounds |
|---|---|---|
| `spi_sync` | types, agreement of both boards, order, gridlock, refinement of `MessageChannel`, delivery under fairness | capacity 2, 3 messages a direction: both queues fill, core 0 blocks with one more message |
| `spi_sync_knocks` | the inductive invariant, with knocks | capacity 1, 2 messages: every full queue, knocks at every point of a round |
| `spi_sync_ready` | violation: the master sends to a slave that does not listen | |
| `spi_sync_copies` | violation: a knock replaces a received message | |
| `host_control` | answers, PIDs, addresses, stages, progress | packets of 2 and 4, lengths 2, 3, 4, 5, 9: no, one, two and four full packets, with and without a short one; any sequence of requests, resets and exchanges for a like device |
| `host_control_exact` | violation: an answer that fills wLength with whole packets never ends | the same, exact fits |
| `host_control_late` | violation: a late status stage is taken for the next setup | the same, impatient master |
| `host_control_swap` | violation: the packet size of a device that is gone | the same, two sizes |
| `device_control` | answers, aggregator, PIDs, address, progress | 3 requests or resets, up to 3 packets an answer: a request before, in and after a change of address |
| `host_endpoints` | owners of packets, PIDs, the pool, answers exactly once, progress | 3 slots besides EPX for devices with 2 endpoints, so that a second reading of the configuration fills the pool and gives its last slot away; interrupt packets of 2 and 8, requests of 4 and 6: one packet, two or three; bulk packets of 4; commands with 0 or 2 data packets; any number of commands, reports and requests |
| `drivers` | packet memory, judging interfaces, what is forbidden, one request at a time, refinement of `MessageChannel` from host to device, progress | the real packet memory, 14 readings before and after a bus reset, every kind of device, 3 commands with up to 2 data packets in either direction, 3 reports |
| `device_control_race` | violation: the IN buffer is filled again before its completion is polled | 1 request of 2 packets |

`host_control` has no bound on the number of requests: its state space is finite
because each request overwrites the last one. Neither has `host_endpoints`. Deadlock is checked in `host_control`,
`host_endpoints` and `device_control`, where core 0 always has something to do or
the master may send. It is not checked in `drivers`, where `error()` stops core 0
of the master for good when the device is forbidden, nor in the runs of `SpiSync`, where the bound `MaxMsg` ends
the traffic and a gridlock is a state the code can reach: if both queues of a
board are full and each of its cores waits for the other, nothing goes on.
`GridlockNeedsBacklog` says how much traffic that takes, and `Delivery` is
conditional on its absence.

### What the violations mean

Each is described under "findings" in PROJECT.json with the line it contradicts.
The runs that pass exclude their causes by an assumption that is a constant:
`Knocks` (contents only; order is checked and proved with knocks too),
`ExactFits`, `Patience`, `Swaps`, `Quick`. So what passes is what the firmware
guarantees when the device never fills wLength with whole packets, hosts and
devices are slower than its loops, and a device is replaced by a like one. For
data, the assumptions are those named under `HostEndpoints` and `Drivers`; the code
promises nothing about them in a comment or a test, so they are constants to
change and not runs that expect a violation.

### Fairness

Each core runs its own endless loop on its own processor (main.c), so a step of
core 1 that can be taken is taken: weak fairness of `MasterSync` and `SlaveSync`,
and of the blocked halves of core 0 (`QueueAdd`, `GateOpen`, `KnockCopy`,
`Dequeue`). Nothing is assumed of enqueues, of attach and detach (`Delivery`
requires that the device is attached from some time on) or of new requests.
`HostControl`, `HostEndpoints`, `DeviceControl` and `Drivers` assume weak fairness
of core 0's loop, and of partners in the middle of a transfer: a device answers a
transaction of its stage, a host goes on with a request or a command, the slave
answers what it has taken. Commands and reports need not come: `MouseAsked` says
that a mouse can report, not that it does.

## Proofs

The theorems about the message layer hold for every capacity from 1 to 255 (the level of `tx` is sent in
one byte), every `MaxMsg` and, unless stated, with and without knocks; this is
`SpiSyncAssumption`. Those about `DeviceControl` hold for any number of requests,
any number of packets in an answer (`DeviceControlAssumption`), and under `Quick`.
Those about `HostControl` hold for any sets of positive packet sizes and lengths,
and under `Orderly`: `Patience` is "idle" and `Swaps` is FALSE; the runs
host_control_late and host_control_swap show what fails without. Those about
`Drivers` in `DriversProofs` hold for every set of kinds, every size of the packet
memory, all lengths and bounds, and with readings of the configuration in operation
(`DriversAssumption`); those in `DriversOrder` also assume `Enough`, that the
configuration is read in enumeration only and that four blocks for each reading fit
into the memory, for the reasons given under `Drivers`. The run `drivers` satisfies
it: 14 readings take 56 of the 58 blocks. Those about `HostEndpoints` in
`HostEndpointsProofs` hold for every
pool of 2 to 255 slots (`interrupt_num` is a byte and 255 is no interrupt endpoint),
all packet sizes, and whatever `Apart`, `Paced` and `ShortReports` are
(`HostEndpointsAssumption`); those in `HostEndpointsOrder` also assume `Orderly`, which
has five parts: `Apart`, `Paced`, not `ShortReports`, more than two slots, and an
even number of data packets in a command. The run `host_endpoints` satisfies it, and
with its constants but without any one of the five parts TLC finds `PacketFromOwner`
(`Apart`, two slots) or `PidAgrees` (the others) violated. Nothing else is assumed
besides the models themselves.

`IndInv` (SpiSyncProps) is the inductive invariant. None of the safety properties
is inductive alone:

- *`SlaveNeverStarves`* and *`CountAgreement`* need to know that only core 1
  removes from `tx` and that the frame on the wire when the master waits is the
  count; that needs `MasterWire` and `SlaveWire`, the kinds and the number of
  frames at each pair of places in `sync()`, and `PinPhase`, what a board holds at
  its place. These are `PhaseInv`.
- *`InOrder`* numbers the pipeline from `rx` of one board back to `tx` of the
  other and says that the message at each place is the next one, and that none is
  left over (`NoneLost`). With knocks a place may hold 0 instead; `KnockMine`
  and `BufferMine` say who may have written the buffer.
- *`GotInOrder`* carries the order to the message core 0 took, which the
  refinement needs.

`SpiSyncProofs` proves types (`TypeCorrect`) and phases (`HandshakeCorrect`), one
step per action and one lemma per part; `SpiSyncOrder` adds the counts and the
order (`Invariance`), from which `OrderCorrect`, `AnswerCorrect`, `SlaveFed`,
`RoundCorrect` and `GridlockCorrect` follow. `ChannelImplemented` maps initial states to initial
states and each step to `Send`, `Deliver` or a stutter: without knocks the layer
implements `MessageChannel`.

`DeviceControlProofs` proves every safety property of the run device_control. What
the host reads says nothing of the packet that comes next, so `IInv` says where it
is: nowhere yet (the request is in `toSlave`, `SentInv`), or in a message of the
slave, or in the buffer of endpoint 0 (`AnsweringInv`: exactly one packet more
than the host has was sent if one is on its way, else none). `AggregatorInv` ties
what was registered to what was sent, and says that the OUT buffer is not started
before the answer is whole; `PidInv` relates `next_pid` to the host's PID by
whether the IN buffer is waiting; `QuietInv` says that between two requests, and
until the poll has handled a setup packet, both buffers are empty and the slave
has nothing to answer, which is what lets `reset_ep0_pid` and the replacement of a
buffer go unnoticed. The proof has one lemma per action, from lemmas on what each
function of the driver returns (`XferStarted`, `Sent`, `SetupHandled`,
`Completion`). `Quick` is used where a partner begins (`SlaveAnswer`, `HostSetup`,
`HostReset`); without it the run device_control_race shows that `NoPanic` fails.

`HostControlProofs` proves every safety property of the run host_control. The
properties speak of the end of an answer, and what an end means depends on where
the request is: `level` alone does not tell, because the same completion is
counted as the setup stage, the data or the status. `IInv` is therefore a
disjunction of eight places of a request, each with what the driver, the device
and the queues hold there: `Quiet`; `SetupSent` and `SetupTaken`, before and after
the device has acknowledged the setup packet; `Awaited` and `Come`, the controller
waits for a packet of the answer or has one the poll has not seen; `Acking` and
`Acked`, the same for the status stage; and `Stuck`, the answer has filled wLength
with whole packets and the driver waits for another that never comes. PIDs meet
because the number of packets that went by has the parity of the number of bytes
rounded up to whole packets (`ParityTurns`, `ExactMultiple`): the driver computes
its PID in advance, for all the packets of a buffer, and the device turns its own
packet by packet. One lemma per place and action says which place comes next, from
lemmas on what the functions of the driver return (`Started`, `Transferred`,
`Synced`, `AfterMiddle`). All theorems but two hold with exact fits: `Stuck`
satisfies them. `CompleteUnlessExact` and `NeverAsksTooMuch` assume that there are
none, and host_control_exact ends in `Stuck`.

`DriversProofs` proves what holds of `Drivers` whatever the host does. A single
endpoint says little about memory or judging, because the tables are filled while
the configuration is walked and the poll goes through several buffers; so the
invariant is a predicate of the master's state, `Held(d)`, that every intermediate
state satisfies too. `MemoryGiven`: an open endpoint lies below the next free block
and no two overlap. `Judged`: the interface in the table is the one before the
endpoint in the configuration, and its driver is the one for that interface.
`NothingOffered` and `OutFits`: no buffer of a forbidden device is available, and an
OUT packet announces no more packets than a command has. With them `SafeInv` says
that the storage driver of an OUT endpoint has its IN endpoint (`Paired`), and for a
forbidden device that the host has nothing, no data goes out and only the first IN
endpoint is ever asked, whose packet core 0 does not survive (`NothingComes`). Each
function of the drivers keeps `Held` (one lemma each: `Allocates`, `MscSpiKeeps`,
`HidXferKeeps`, `Transfers`, ...); a configuration has at most four descriptors, and
`Walk` unfolds the walk over them.

`DriversOrder` follows the packets. There is one OUT packet and one question for an
IN packet, and `Placed` says where each is: the OUT endpoint is closed, its buffer
waits for the host, was filled, is a message, or the slave has answered
(`OutPlaces`); the question is not asked, a message, at the device, answered,
offered to the host, or read and due again (`InPlaces`). At each place `OutInv` and
`InInv` give the PIDs and the packet's number. `StorageInv` relates the two, as a
knock is sent after every OUT packet and replaced when more data comes; it needs
`Spent`, a packet after which the poll will ask for nothing, because between the
host's reading and the poll the buffer looks like one that will ask again.
`EnumerationInv` counts four blocks for each reading. A forbidden device gets one
question at most, when its report descriptor has been read, and the answer ends in
`error` (`Quiet`). One lemma per action says what the next places are, and
`NeverStops` and `NeverAsksTwice` follow. `PipeImplemented` maps the host's and the
device's packets to `Send`, their arrival at the other side to `Deliver` and
everything else to a stutter: the drivers implement `MessageChannel`.

`HostEndpointsProofs` proves where the endpoints of the slave are. The code takes
the first free slot, or the last one when there is none, and never closes any: that
an endpoint is still found after its configuration was read for the tenth time
depends on the order in which the slots were taken. `SlotInv` says that EDPT_OPEN
messages come in pairs (`PairInv`), that the slots up to some n are taken, in turn by
the first and the second endpoint, and that the last of them belongs to the one that
was opened last (`Taken`), in a full pool too; so a full pool forgets nothing, for the
first endpoint is always in slot 1 and the second in slot 2, or in the last slot when
there are only two and no half pair is open. `Told` says that drivers that are
configured wait for a message as long as no slot is taken. Everything else the slave
does keeps each slot's address, size and number (`SameSlots`), one lemma per function.
The poll walks over any number of slots: what one step of `Handled` keeps is kept by
the whole walk because a set of numbers that is not empty has a least element
(`Least`, from the library's theorem that < is well-founded, and `Climbing`).

`HostEndpointsOrder` proves the other safety properties of the run host_endpoints.
They speak of the message that is passed on, and whether it is the right one was
decided when a buffer was offered: which endpoint had EPX, with which PID, how much
was left. So `OrderInv` says where each transfer is, with what the driver, the
controller, the device and both queues hold there. A control transfer is in one of
eight places (`ControlInv`), from `Idle` over `AnswerAwaited` to `Acked`. Next to it
mass storage has a command in one of nine (`CommandInv`): none; the OUT packet in the
inbox, at the controller, gone, acknowledged (`OutQueued` ... `OutPassed`); the question
for IN data in the inbox, at the controller, answered, passed on (`InQueued` ...
`InPassed`). HID devices have a report of each interrupt endpoint in one of five
(`ReportInv`). PIDs meet for different reasons: an IN endpoint has turned its PID once
for each request, so it agrees with the device or not by the parity of the packets
the command still sends (`InPid`); a request for a report turns it for all the packets
it was computed for, which come to as many as the device sends only if none is short
(`Flips`, `Parity`). `InboxInv` says that there is one message for each endpoint and that
it is opened before it is asked, `OutboxInv` that there is one packet of each
endpoint, with its own data; both need the pool of `SlotInv`, so `Ordering` is proved
with the invariant of `HostEndpointsProofs`. There is one lemma per action and, for
the poll, one per place it finds the transfers in (`PollSetupKeeps`, `PollAnswerKeeps`,
`PollAckKeeps`, `PollOthersKeeps`, `PollBulkKeeps`), from lemmas on what the functions of
the driver return (`Offered`, `Begun`, `Transferred`, `Synced`, `Finished`).
`TypeCorrect` needs `OrderInv` too: the types in `SlotInv` lack one part of `TypeOK`, that
the device never sends more than it was asked for (`dev.left` is natural).

Only model-checked: `Delivery`, `Answered`, `Completed`, `CommandEnds` and
`MouseAsked`, as liveness and ENABLED are beyond the prover. Every other property of
every run that passes is stated by a theorem. No module has a RECURSIVE operator.

## Plan

1. Done: `MessageChannel`, `SpiSync`, `SpiSyncProps`, `HostControl`, `HostEndpoints`,
   `DeviceControl` and `Drivers`, and the proofs of their safety properties.
2. Left: bus resets in operation in `Drivers`, with the slots of `HostEndpoints` that
   survive them.

## Not modelled

- The bytes of a frame (spi_data.c): the search for 0xff and the slave's FIFO go
  wrong only when bytes are read too late, which is a matter of microseconds.
- Hosts that abandon a relayed request: the code cannot tell the packets of its
  answer from those of the next, so nothing holds afterwards but a bus reset, and
  that is modelled.
- The bytes of descriptors: the walk over a configuration
  (device_event_handlers.c:156-184) trusts the lengths the device states.
- legacy/: it is not built; the queues of an earlier version, PIO programs, and a
  registry nobody uses.
- Printing, the direction pins, clock and pin set-up, the build files and the
  register description in debug/.
