# Formal models of rs-jerry-driver

TLA+ models of the program in this repository, checked with TLC on small
instances and, for the safety properties, proved with TLAPS for every value of
the constants. Paths are relative to the repository; `dpdkSource.cc:359` is
line 359 of `src/dpdkSource/dpdkSource.cc`, `iqClient.cc`, `grpcClient.cc`,
`udpSource.cc` and `hrzrUdpTransmitter.cc` likewise.

    tlc -workers 4 -config MCDpdkStream.cfg MCDpdkStream.tla
    tlapm DpdkStreamProofs.tla

## 1. The system

rs-jerry-driver lets an application configure an MSR4 satellite receiver over
gRPC and read its IQ samples from HRZR/UDP packets, through DPDK or a socket.

| Part | State | Operations | Hard about it |
|---|---|---|---|
| `IqClient` (facade) | channel, norm, port id, dump mode, `sample_source`, `grpc_client` | setters, `SetMSR4ByJson`, `SetupDpdkSource`, `TeardownDpdkSource`, `SetupUdpSource`, `TeardownUdpSource`, `GetSamples`, `SendPayload` | a raw pointer that outlives its object; sequences of remote calls that stop half-way |
| `GrpcClient` | credentials, ip, login token | login, `Get...`, `Set...`: one remote call each | drops the status of every call but the login; no deadline |
| MSR4 (external) | settings of each channel | answers the calls, may reject | changes by other clients |
| `DpdkSource`: stream | mempool, receive queue of a port, ring | `RXThread` on an lcore, `getSamples` on the caller's thread | two threads poll one queue; nobody empties the ring |
| `DpdkSource`: counters | `total_packets`, `total_packets_lost`, last sequence number | counted for each frame by `RXThread` and `dumpThread` | shared by all streams, no lock; wrap of 12-bit numbers |
| `DpdkSource`: life cycle | EAL, ports, rings, workers, `quit` | constructor, `rte_eal_remote_launch`, `stopRXThread`, destructor | workers that outlive the object; unchecked results |
| dump mode | lists of headers, payload, metadata; one file | `dumpThread` | payload pushed and popped under different tests; the file is reopened |
| `UdpSource` | socket, buffer | `getSamples`: a blocking receive loop | skipped packets leave holes in the caller's array; one buffer for all callers |
| `HrzrParser`, `HrzrHeaderParser`, `HrzrMetadataParser` | norm | decoding of header, metadata, samples | control bits without a type throw |
| `HrzrUdpTransmitter` | socket, sequence number | `sendPacket` | sends host byte order; never looks at `send` |
| `JsonParser` | none | reads a file into structs | missing members become defaults, numbers too large throw |

How they interact: `IqClient` calls `GrpcClient` and one `ILinuxSource`
(`DpdkSource` or `UdpSource`) synchronously. `DpdkSource` starts one worker per
stream on an lcore; worker and caller share the port, `quit` and, across
streams, the counters, all as plain fields. Nothing is stored on disk but the
dump, so there is no crash recovery; remote calls may fail, be rejected, or
interleave with those of other clients; frames are lost but not reordered.

What makes each part correct: a packet buffer is in one place at a time, and
packets are parsed once and in order (stream); a gap is counted exactly where
packets are missing (counters); no worker runs before the set-up is complete or
after the teardown (life cycle); a setter changes what it says and reports what
happened (configuration); samples fill the caller's array without holes (UDP);
the file holds what was received (dump).

## 2. Modules

| Module | Models | Extended by |
|---|---|---|
| `SampleSource` | abstract: what `ILinuxSource::getSamples` promises | instantiated by `DpdkStream` and `UdpSource` |
| `DpdkStream` | one stream of `DpdkSource`, both threads | `MCDpdkStream`, `DpdkStreamProofs` |
| `LossCounters` | sequence numbers and packet counters of all streams | `MCLossCounters`, `LossCountersProofs` |
| `DpdkLifecycle` | constructor, workers, teardown of one process | `MCDpdkLifecycle`, `DpdkLifecycleProofs` |
| `DumpThread` | dump mode: the lists, the file and `quit` of all workers | `MCDumpThread`, `DumpThreadProofs` |
| `HrzrCodec` | the fields of headers and metadata, read and written | `UdpSource`, `HrzrCodecProofs` |
| `UdpSource` | sender, network, socket, `UdpSource`, several calling threads | `MCUdpSource`, `UdpSourceProofs` |
| `JsonFile` | `JsonParser`: what a file says, and what it does not | `Msr4Config` |
| `Msr4Config` | `IqClient` setters, `GrpcClient`, `SetMSR4ByJson`, the device | `MCMsr4Config`, `Msr4ConfigProofs` |

The four models of `DpdkSource` describe the same threads, each with the state
its properties are about. A definition introduced by "A mistake to detect" is
no part of any model: it is a plausible bug of the definition after it, kept to
show that the properties notice it.

### SampleSource

Packets are numbered as they arrive. Some are lost or thrown away; those that
are parsed are parsed once each, in the order of their arrival. Neither source
keeps two threads from entering it at once; from then on the promise is `void`.
`DpdkStream` implements it with `void <- overlapped` (two polls overlapped),
`UdpSource` with `void <- overlapped` (a thread received into the shared buffer
what another had yet to parse).

### DpdkStream

State: where each mbuf of the pool is (`free`, `armed` and `filled` in the
receive queue, in the hands of a thread, on the `ring`, or `leaked`), what was
last written to it (`kind`, `stamp`: its place in the order of arrival), and
where the two threads are. `rte_eth_rx_burst` is not safe to call twice at once
on a queue (its documentation requires one poller per queue), so a poll is two
steps, `PollBegin` reading which descriptors are filled and `PollEnd` taking
them and refilling the queue. `overlapped` records that two polls did overlap.
What the driver then does is undefined; the model takes the mildest form, that
both get the same packets, and the properties are about executions without it.

| Action | Code |
|---|---|
| `Arrive` | the NIC |
| `PollBegin`, `PollEnd` | `rte_eth_rx_burst` at dpdkSource.cc:361 and :216 |
| `RxEnqueue`, `RxEnqueueFails`, `RxDiscard` | :385-395 |
| `RxThrow` | hrzrHeaderParser.cc:46, uncaught |
| `RxClose` | :399-406 |
| `AppParse` | :218-227 |
| `Quit` | :410 |

Simplified: the protocol, port and length tests are one kind of packet,
`FOREIGN`; a packet is parsed in one step; the control bits of a frame are
looked at only when it passed the other tests.

### LossCounters

Each worker's loop over a frame is split at every access to a shared counter:
`TakeFrame` (and the read of `total_packets++`), `Count`, `ReadLost`, `AddLost`,
`ReadTotal`, `AddTotal`, `PrintRate`. The sender is `HrzrUdpTransmitter`'s
numbering. `Drop` is any packet the worker does not see, those that `getSamples`
took from the queue included. `added` and `addedLost` are what the counters
would be if no addition were lost; `overlapped` records that two workers were
between two frames' accesses at once.

### DpdkLifecycle

`main` walks through `SetupDpdkSource` (`Setup` ... `SetupDone`) and
`TeardownDpdkSource` (`Teardown` ... `Delete`), `i` being the loop variable of
the constructor. A worker runs until it reads `quit`, then closes its port. A
worker that reads `quit` in a freed object may read anything. Failures that the
code checks end the process; those it does not check (`rte_ring_create`,
`rte_eal_remote_launch`) go on with what they leave.

### HrzrCodec

Operators, no state: the parsers of `hrzrHeaderParser.cc` and
`hrzrMetadataParser.cc` as functions of the two bytes they look at, and the
senders: `DeviceWord` and `MetadataWord` are the layouts of README.md:199-236 and
345-450, `TransmitterWord` is `hrzrUdpTransmitter.cc`, which stores the number in
the byte order of the host. Arithmetic (`div`, `%`) stands for shifts and masks;
bytes are in the order of a little-endian host.

### UdpSource

| Action | Code |
|---|---|
| `Send` | the device, or `HrzrUdpTransmitter::sendPacket` of another process; the network and the socket's queue |
| `SetNorm`, `SetupUdpSource`, `SetupDies`, `TeardownUdpSource` | `IqClient::SetNorm`, the constructor of `UdpSource`, `connect`, `die`, the destructor |
| `Call` | entry of `UdpSource::getSamples` |
| `Receive`, `ReceiveDies` | `recv` and the tests of its result |
| `Parse` | header DATA: `HrzrParser::parsePayloadSamples` |
| `Ignore`, `Throw` | any other type; control bits of no type |
| `Return` | the end of the loop |

A word of a datagram is `<<datagram, index>>`, so that `buf` and the caller's
array say where each sample came from; `samples[c]` is a function from the
places the call has written to such words. What a call leaves alone is not in
its domain: the holes. `recv` copies a datagram in one step. Nothing keeps two
threads from calling `getSamples` of one source at once, `buf` being a member;
`overlapped` records that a thread received while another had yet to parse.
`TeardownUdpSource` is called only when no call is in progress; the socket is
never closed, so a second set-up in a process finds its address in use and
exits.

### JsonFile and Msr4Config

`JsonFile` takes a file as a function from the sections it has to functions from
the members they have to values. A member that is missing becomes 0 or the empty
string, a section that is missing leaves -1 in integers, and an integer beyond
32 bits throws.

The device keeps seven settings per channel, which travel in three messages:
`Udp` (port, destination, protocol, streaming), `Rf` (two frequencies) and the
bandwidth. A setter is `Call`, `Read`, `Write`; `Read` and `Write` are remote
calls, so other clients act in between; `buf` is what the call in progress has
read. `Setters` says which setters clients call by themselves, `Faults` which
calls may fail. `disturbed` records of each client whether, since its last call
began, another client changed the channel or its own `Get` failed. That is when
reading, changing and writing back a whole message goes wrong, by the design of
the protocol, and the properties are about calls that were not disturbed; all but
`HarmStaysInMessage`, which bounds what a disturbed one can do.
`SetMSR4ByJson` is `JsonThrows`, or `JsonLogin`, `JsonChannel`, `JsonStatus` and
then the setters of `Plan`, each begun by `Return` of the one before. When its
login fails the client may be left without a valid token, because it calls the
address that the file gave. Getters of `IqClient` change nothing and are not
modelled. That the device refuses changes while it streams is README.md:110.

### DumpThread

`dumpThread` runs in place of `RXThread` when dump mode is set. A packet is its
place in the order of arrival and its type; the lists hold places, 366 words of
payload or 10 of metadata standing for one. Time is `late`: 3 seconds have
passed since the worker's start, looked at for each packet.

| Action | Code |
|---|---|
| `Poll` | `rte_eth_rx_burst`, dpdkSource.cc:257 |
| `Take` (with `Keep`, `Open`) | one packet of the burst up to and including the opening of the file, :261-301 |
| `Throw` | hrzrHeaderParser.cc:46, uncaught, at :289 |
| `WriteLine` | one turn of the loop over the headers, :302-324 |
| `Done` | :325-327 |
| `ClosePort` | :332-340 |
| `StopRXThread` | :410 |

`front()` of an empty list is undefined and may return anything (`Front`).
What two files open at once leave on the disk depends on buffers and offsets; it
is not modelled, `mixed` records that it happened. The counters (:264-281) are
`LossCounters`'; `every_other` is 1, so its tests are always true.

## 3. Runs

| Run | Question | Result |
|---|---|---|
| `dpdk_stream` | all interleavings of the two threads, quit and close: ownership of buffers, content of the ring, order of what is parsed; is it a sample source; does every burst get handled and `quit` end the worker? | `TypeOK`, `ExclusiveOwnership`, `RingIntact`, `LeakOnlyWhenFull`, `IInv`, `DeliveredInOrder`, `StarvationIsFinal`, `SourceSpec` hold, and `BurstHandled`, `QuitStopsRxThread` unless the process has crashed |
| `dpdk_stream_starved` | do samples keep coming (README.md:126)? | no: the ring is never emptied and takes the whole pool |
| `dpdk_stream_race` | are polled buffers left alone? | no: overlapping polls give one buffer to both threads |
| `loss_counters` | two workers, wrap, losses, foreign frames | `GapsAreReal`, `InnerLossIsSeen`, `TotalIsSum`, `RateAtMostOne`, `OnlyLosesUpdates` hold |
| `dpdk_lifecycle` | set-up and teardown of three streams, two on one lcore, receiving or dumping | `SetUpBeforeLaunch`, `WaitedWorkerGone`, `EveryStreamServed`, `TeardownReturns`, `WaitedWorkersStop` hold |
| `dpdk_lifecycle_free` | is no worker left after teardown (README.md:129-133)? | no, if its lcore is not 1 |
| `msr4_config` | two clients of one channel that call setters and load files, good or not, a device that rejects changes while it streams, `Get` calls that may fail | `OkMeansApplied`, `JsonProgress`, `JsonComplete`, `SingleFieldChanges`, `HarmStaysInMessage` hold |
| `msr4_config_lost` | ... and a Set call may fail | code 0 for a setting that was not made |
| `udp_source` | two threads, at once or not, all orders of datagrams, losses, set-up and teardown: where samples land, what is counted, in which order | `CountIsPlaces`, `PrefixIfAllData`, `OrderInArray`, `NextHeaderReadable`, `SourceSpec`, `BlocksOnlyOnEmptySocket` hold |
| `udp_room` | does `GetSamples` store at most `number_of_samples` items (README.md:118)? | no: it stores whole packets, up to one more than that |
| `dump_thread` | two workers dump to one file, packets of all sorts | `FileIsRun`, `ListsSuffice`, `OwnContents`, `DumpStopsAll` hold |
| `dump_thread_kept` | does the file hold what was received (iqClient.h:61)? | no: the rest of the burst opens it again, which empties it |

What the properties leave open shows where the code is weaker than one might
think: `InnerLossIsSeen` says that a loss is seen if it does not touch the wrap
of the sequence number, and that what is added to `total_packets_lost` is then
one more than what was lost (`|seq - prev_seq|`, dpdkSource.cc:371). Losses of
packet 0 or right after 4095 are not seen at all (:369). `TotalIsSum` and
`RateAtMostOne` need `~overlapped`: with two workers adding at once the rate
printed may exceed 1. `BurstHandled` and `QuitStopsRxThread` end in `crashed`
when a header has control bits 9 or 11, which nobody catches. `OkMeansApplied`,
`JsonProgress`, `JsonComplete` and `SingleFieldChanges` need `~disturbed`: a
client that writes back a message undoes what another has changed in it since,
and one whose `Get` failed writes back defaults; `HarmStaysInMessage`, which has
no such condition, says that what is undone or reset is in the setter's own
message. `OwnContents` lets a line hold the payload of an earlier packet once a
packet came that is neither samples nor metadata: 366 words are kept of it
(dpdkSource.cc:293) that are never taken off the list (:306). The lists then are
too long, never too short. `FileIsRun` says "of one worker": a second worker's
dump replaces the first one's. `CountIsPlaces` says that what is counted is
stored, not that it stands at the beginning of the array: only `PrefixIfAllData`
does, and needs that no packet was skipped. `OrderInArray` needs `~overlapped`.
`JsonComplete` is about a channel that does not stream: while it does, the last
setter of a file may have been rejected unnoticed. `AsFileSays`, in
`JsonProgress` and `JsonComplete`, takes -1 or 0 for what a file does not give:
both are sent to the device.

### Bounds

* `MCDpdkStream`: a pool of 3 buffers, a ring of 2 usable slots and bursts of 2,
  as the program has 4096 buffers, 4095 usable slots and bursts of 32: the pool
  is one buffer larger than the ring, a burst may hold several packets and need
  not fit the ring. 3 arrivals use every buffer, 4 in the two violation runs,
  where the buffers are interchangeable (symmetry; not with liveness). The kinds
  `DATA`, `METADATA` and `UNMATCHED` are one for each path through `RXThread`.
* `MCLossCounters`: numbers modulo 5, 3 frames received in all, up to 2 packets
  missing in a row, so the numbers wrap. Two streams, interchangeable.
* `MCDpdkLifecycle`: 3 streams, lcores 1, 2, 1; every call, failure and order.
* `MCMsr4Config`: two interchangeable clients, one channel, values 0 (the
  default), 1, and -1 for what a file does not give; `IntMax` is 1. The files: a
  good one, one without a frequency and a protocol, one with a frequency beyond
  `IntMax`, none at all (no valid channel). Two setters are called by themselves,
  `streaming`, which shares its message with others and makes the device refuse
  changes, and `sat`, of another message; the files make the rest.
* `MCUdpSource`: two callers; 3 samples a packet (366) and 2 words of header, so
  that header, first and last samples differ; requests below one packet and of
  one packet, so that a call takes one or two datagrams; datagrams too short and
  whole; DATA, METADATA and a type that throws; a queue of 2 datagrams, 4 sent,
  so that a call may meet losses and a full queue. Numbers start where the
  device's wrap, and where the transmitter's begin to be read as types.
* `MCDumpThread`: bursts of up to 2 packets (32 in the program), 3 packets for
  one worker and 2 for the other, so that a burst may go on after the packet
  that ended the dump and a misplaced payload is followed by others. `COMMAND`
  and its responses are treated like `FLOW_CONTROL`, `DATA_END_OF_BURST` like
  `DATA`. `MaxPackets` bounds what is polled.

`CHECK_DEADLOCK FALSE` stands where the program may stop: after a crash or an
exit, when all arrivals are used up, when all workers are done.

### Fairness

`FairSpec` of `DpdkStream`: the worker and a `getSamples` call in progress are
scheduled by the operating system (weak fairness of each). Nothing makes the
device send, the application call `getSamples`, or anybody quit. `FairSpec` of
`DpdkLifecycle`: the thread inside a call goes on; a worker of a live object
reads `quit` again and again, and closes its port once it has seen it. No
fairness is assumed of a worker whose object is freed. `FairSpec` of
`DumpThread`: a worker with something to do other than polling goes on; packets
need not come, and 3 seconds need not pass. `FairSpec` of `UdpSource`: a call in
progress is scheduled, and `recv` returns when the socket has a datagram; nobody
need send, call, set up or tear down. `Msr4Config` claims no
liveness: no remote call has a deadline (grpcClient.cc:176-181).

## 4. Proofs

| Module | Theorem | Says |
|---|---|---|
| `DpdkStreamProofs` | `Invariance`, `Typing` | `IInv`, `TypeOK` |
| | `Ownership`, `RingIntegrity`, `LeakBound` | `ExclusiveOwnership`, `RingIntact`, `LeakOnlyWhenFull` |
| | `DeliveryOrder`, `StarvationTheorem` | the action properties `DeliveredInOrder`, `StarvationIsFinal` |
| | `ImplementsSource` | `Spec => SourceSpec` |
| | `DrainIsPermanent` | the ring only grows, what is on it or lost never comes back, and each sample packet `RXThread` deals with adds a buffer to it |
| | `PoolLasts` | `NeverStarved`, until as many packets have arrived as the pool has buffers |
| | `PolledStaysAlone` | `PolledBufferStays`, while no polls have overlapped |
| | `NoSamplesNoDrain`, `WellFormedNoCrash` | without sample packets the pool keeps its buffers; without control bits that name no type `RXThread` does not throw: both even when polls overlap |
| `LossCountersProofs` | `CountersTyping` | `TypeOK` |
| | `NoFalseAlarm`, `LossIsSeen` | `GapsAreReal`, for every modulus above 2; `InnerLossIsSeen` |
| | `LossAtWrap` | the losses that are missed touch the wrap; what is counted for those that cross it |
| | `NoLossNoReport` | on a network that loses nothing and carries nothing foreign, no loss is ever counted |
| | `SharedCounters` | `OnlyLosesUpdates` |
| | `UndisturbedCounters`, `RatePrinted` | `TotalIsSum`, `RateAtMostOne` |
| | `NoneLostAlone`, `OneStreamCounts` | no update is lost while no two workers add at once, hence never with one stream |
| `DpdkLifecycleProofs` | `LifecycleInvariance`, `LifecycleTyping` | the inductive invariant, `TypeOK` |
| | `LaunchOrder`, `WaitedWorkerEnds`, `StreamsServed` | `SetUpBeforeLaunch`, `WaitedWorkerGone`, `EveryStreamServed` |
| | `CleanTeardown` | `NoWorkerAfterTeardown`, if all streams have the lcore that is waited for |
| | `OwnLcores` | with lcores of their own all streams are served |
| | `WorkersRunOnce` | a worker is launched once and goes through its states one way |
| `DumpThreadProofs` | `DumpTyping`, `FileOfOneWorker` | `TypeOK`, `FileIsRun`, any number of workers and packets |
| | `ListsNeverShort`, `LinesAreTheirOwn` | `ListsSuffice`, `OwnContents` |
| | `KeptIfOpenedOnce` | `DumpIsKept`, when the file was opened once |
| | `OpenedForABurst` | with one stream the file is opened at most as often as a burst has packets, never twice at once |
| | `LinesOwnWithoutOthers`, `DumpDoesNotThrow` | if only samples and metadata arrive, a line has nothing of another packet; what `WellFormedNoCrash` says of `RXThread` |
| `HrzrCodecProofs` | `DeviceHeaders`, `MetadataFields` | headers and metadata of the device are read back, all values of all fields |
| | `ThrowsExactly` | which control bits throw |
| | `TransmitterHeaders` | as what type and number the parser takes a packet of the transmitter |
| `UdpSourceProofs` | `UdpTyping`, `UdpDivisor` | `TypeOK`, and `DivisorValid`: no step undoes the test of the norm |
| | `UdpCount`, `UdpPrefix` | `CountIsPlaces`, `PrefixIfAllData` |
| | `UdpOverrun`, `UdpRoom` | a call that received only DATA packets always writes beyond `number_of_samples`, none writes a whole packet beyond |
| | `UdpOrder`, `UdpOneCaller` | `OrderInArray`; with one caller `ArraysInOrder` always |
| | `UdpHeaders` | `NextHeaderReadable` |
| | `UdpWholePackets`, `UdpHeaderIsStored` | arrays are made of whole packets, each from its header on, and no end of a payload is in them, any number of threads at once |
| | `UdpStoredStays` | what a call has stored stays for the rest of it; no thread writes to another's array |
| | `UdpImplementsSource` | `Spec => SourceSpec` |
| `Msr4ConfigProofs` | `ConfigTyping` | `TypeOK`, any number of clients, any faults, any files |
| | `OneFieldOnly`, `HarmConfined` | `SingleFieldChanges`, `HarmStaysInMessage`, any number of clients, any faults |
| | `OkIsApplied`, `JsonStepsApplied` | `OkMeansApplied`, `JsonProgress`, any number of clients, if no Set call fails |
| | `JsonFollowed` | `JsonComplete`, if moreover the device rejects a change only where it streams |
| | `JsonStops` | a file that has been followed leaves its channel not streaming, if nothing fails |
| | `SetterAlone`, `ReturnsAlone` | for a single client, without `~disturbed`: what a call changes, and what its normal return means |

Assumptions are those named in the modules (`ConstantsAssumption`,
`CountersAssumption`, `LifecycleAssumption`, `DumpAssumption`, `UdpAssumption`,
`IntMaxAssumption`, `ConfigAssumption`), which say no more than what kind of
value each constant is. A theorem that needs more says so in its statement, and
says then what an application, a device or a network has to be like for the code
to be right: one client or caller (`OneClient`), a pool that is finite, lcores
that differ or that are all the waited one, kinds of packet that do not occur in
`Traffic`, faults that do not (`NoSetFails`, `NoGetFails`, `NoRejections`,
`NoFaults`), a network that loses nothing (`MaxMissing = 0`). Four of them state
the property of a `violation` run under the condition that the run breaks:
`PoolLasts`, `PolledStaysAlone`, `CleanTeardown` and `KeptIfOpenedOnce`. Two say
that the code departs from the documents in every instance and not only in the
one a run finds: `UdpOverrun`, of what `udp_room` shows, and `UdpHeaderIsStored`.
The latter is a defect (udpSource.cc:96): `getSamples` hands the whole packet to
the parser, where dpdkSource.cc:221 skips the header, so that the 8 bytes of each
header are stored as two samples and the last two samples of each packet are
lost, although definitions.h:11 counts the header apart from the payload. It
needs no particular order of events, so it is proved rather than searched for.

* Stream. `ExclusiveOwnership` is not inductive: that a poll returns only what
  is still in the queue needs `PollState` (what a poll in progress saw is filled
  and oldest), and the order needs `ArrivalOrder` (on the ring before in a
  thread's hands before in the queue). `IInv` joins them; one step per action.
  For `PoolLasts`, `BusyCounted`: no more buffers are in use than packets have
  arrived, because every step but an arrival moves or frees them. `KindsArrived`:
  a buffer holds what arrived, whoever has it.
* Sources. Both refinements are step by step: a step maps to `Receive`, `Deliver`,
  `Void` or a stutter, the invariants saying that what is delivered comes after
  what was.
* Counters. `InStep` relates the sender's next number to the worker's last one,
  `Distances` how far apart they are, with at most one wrap between them;
  `Covered` bounds the register of a worker between read and write; `Ledger`
  says where the counters stand at each place of the only busy worker. With
  `Distances` the wrap is a case analysis of where the two numbers lie.
* Life cycle. `Phases` ties `main`, the environment, the object and the pointer
  together; `Loops` says how far each loop has come; `WaitedGone` that the wait
  was for the worker that ran on the waited lcore.
* Configuration. `JsonRun` ties a setter to the step of the file it makes and
  to a valid token. `Fresh`: what an undisturbed client has read is what the
  device has; other clients' steps preserve it because each either disturbs the
  client or leaves its channel alone (`OthersDisturb`). `Reported` says that a
  code 0 and the steps of the file behind it are in the device; it needs that a
  code 0 comes from the device, hence `NoSetFails`. For the end of a file:
  `Complete`, of the last setter, which only a streaming channel rejects, and
  `Stopped`, of the first, which needs that nothing the client writes back makes
  the device refuse it (`StopAccepted`). `Calm`: a single client is undisturbed
  whenever it is logged in and in a call or back from one.
* Dump. `Numbered`: headers and bursts are runs that begin where writing and
  handling have got to. `Ownership`: once the file is opened, and if it never
  was twice at a time, it has an owner, the only worker that may be writing, who
  keeps nothing back between two writings; until then nobody has written.
  `Contents` takes the lists as sets: the metadata list holds just the waiting
  metadata packets, the payload list all the waiting samples, and what else it
  holds came with or after the first packet that had neither; both are
  increasing, so the front is what the first waiting header wants, or older.
  `OpeningsSeen`: before the second opening no two workers can have met in the
  file. `LastBurst`: a single worker that has opened the file is still writing, or
  has set `quit`, so it handles what is left of its burst and polls no more.
* UDP. `Stored`: the places a call has written are those of whole packets, as
  many as are counted, and below where the next packet goes. `InOrder`: what is
  in the queue is newer than what is in `buf` and in the arrays, and what a call
  that has received holds in `buf` is one packet, newer than its array, unless
  `overlapped`. `WholePackets` needs `BufWords`: whatever the threads do to each
  other, word w of `buf` is word w of some datagram.
* Codec. A word is put together from two bytes, a byte from two nibbles; a lemma
  for each takes them apart again, the rest is case analysis.

Model-checked only: the liveness properties `BurstHandled`,
`QuitStopsRxThread`, `TeardownReturns`, `WaitedWorkersStop`, `DumpStopsAll` and
`BlocksOnlyOnEmptySocket`, which are beyond the prover. Every other property of a
passing run is proved. Not proved for lack of induction over a set of streams:
how often several workers together open the dump's file (`OpenedForABurst` is
about one).

## 5. Not modelled

* The value of a sample: parsing divides by the norm in floating point, sending
  scales and converts. The models say which word of which packet goes where.
* Text: JSON syntax (the library's; `JsonFile` begins with sections and members),
  the wording of the dump's lines, what is printed.
* `SendPayload` as an operation of `IqClient`: `iqClient.h:16` declares a public
  `hrzr_udp_transmitter` that no constructor sets; only a test does
  (iqClientTest.cc:218). What it sends is `Send` of `UdpSource` and the numbering of
  `LossCounters`.
* `AutoLevel`, `GetNetworkStreamingSettings`, `SetNetworkStreamingSetting`,
  `GetUDPStatus`, `IsUDPStatusReady` of `GrpcClient`: single calls without state
  of their own that nothing in the repository uses.
* The address a client is connected to is not state of `Msr4Config`: all files
  mean the same device. `setIp` and `setPort` of `UdpSource` store what nothing
  reads; the transmitter binds its own port without `htons`
  (hrzrUdpTransmitter.cc:14), which is a matter of addresses alone.
* What a data race on `quit` does in a given build: the loops call the driver
  through a function pointer in every turn, which keeps a compiler from reading
  `quit` once, and the models read it every turn.
* Datagrams out of order: `UdpSource` never looks at sequence numbers, so a
  packet's place in the order is that of its arrival.
* Memory that is written by undefined behaviour after a buffer was freed.
* Unit tests, build files, example configuration, generated protobuf code. The
  schema `schema.json` allows a channel 0, which `SetMSR4ByJson` refuses.

## 6. What could follow

1. A composition of `DpdkStream` and `DpdkLifecycle`: several ports, workers and
   teardown in one module, with a theorem that each stream of it is a
   `DpdkStream`. Today the two share only their description of `quit`.
2. `LossCounters` on top of `DpdkStream`: the packets that `getSamples` takes
   from the worker are the ones its counters miss.
3. The sender of `UdpSource` as a process with its own state, for datagrams that
   are reordered or duplicated on the way.
