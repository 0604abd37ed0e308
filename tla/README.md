# A TLA+ verification of SwitchboardAdapter

SwitchboardAdapter exposes the TileLink ports of a Chisel design as Switchboard
queues (shared-memory FIFOs of 416-bit packets), so that a host program can
drive an RTL simulation with TileLink messages. It has three layers: a C++
library for the host side (`sb_sim/include`), the RTL adapter
(`src/main/scala`), and a Python module that builds the simulator and runs it
against the host program (`sim_build`). This directory models the parts of it
that hold state or do arithmetic that is easy to get wrong, checks them with
TLC and proves some of their properties with TLAPS.

## 1. Inventory

| component | state | operations | talks to |
|---|---|---|---|
| `ClientTLMemIfc` (memifc.hpp) | one mutex; loop variables of each call | `read_chunk`, `write_chunk`, `clear_chunk`; private `read`, `write`, `for_aligned_chunks` | `ClientTLAgent`; called by fesvr's ELF loader, from any thread |
| `TLAgent` (tilelinklib.hpp) | bundle parameters; the message a caller reuses | `set_TLBundleParams`, `put`, `putPartial`, `get`, `accessAck`, `accessAckData`, `alignMask` | fills the packets the agents send |
| `ClientTLAgent`, `ManagerTLAgent` | two Switchboard queues each | `send_a`/`recv_d`, `recv_a`/`send_d`, all blocking | queue files `<uri>_a.q`, `<uri>_d.q` |
| wire format (tilelinklib.h, Bundles.scala) | none | packed structs; `pack`, `unpack`, `fromTLA`, `toTLA`, ... | must agree byte for byte across C++ and RTL |
| `SwitchboardTLAdapter` | an 8-deep queue per channel and port | valid/ready transfers in both directions | Switchboard queues and the TileLink network |
| example designs and clients (Minimal, TLLoopback, TLMem) | the threads' loop counters, Minimal's 32-deep buffer | send and receive threads, their asserts, `main`'s joins | all of the above |
| `run_cosim`, build step | `rtl_build/` (binary, stamp), `build/` (filelist, lock file) | decide, build, stamp | Verilator; other runs in other directories |
| `run_cosim`, run step | two child processes, queue files, waveform | launch, `_wait`, `_stop` | simulator and client processes |
| interface and Verilator options, elaboration, test-suite | none | option lists | - |

What is hard:

* *Sharing one link.* All messages of `ClientTLMemIfc` carry source 0. Nothing
  but the mutex and the one-burst-at-a-time loops pairs a response with its
  request; one beat too many or too few poisons every later call.
* *Address arithmetic.* A range is cut into naturally aligned powers of two;
  sub-beat transfers are shifted to byte lanes, mask and payload separately.
* *Bounded, blocking channels.* `write` sends a whole burst before it receives
  anything. Whether that can wedge depends on what the far side does.
* *Three descriptions of one packet.* A packed C struct, `pack` and `unpack`
  cut the same 416 bits; nothing in either build relates them. The port then
  drops the high bits of every field that is wider than it.
* *Two threads on one link.* The testbenches send without waiting and match
  answers by counting, on a port with fewer source IDs than requests.
* *A cache shared by processes.* The stamp is taken before the lock, the
  binary is started after it is released, builds fail, runs get killed, and
  the RTL can be regenerated at any point.
* *Two children that may end in any order*, one of which hangs when the other
  dies, stopped by signals they may ignore, with a waveform that is only valid
  after an orderly exit.

What makes each component correct is stated as a property below (section 3);
`PROJECT.json` lists every hazard at its line with the properties that cover
it; four have none, for the reasons given there.

## 2. Modules

| module | models | state and actions |
|---|---|---|
| `AlignedChunks` | `floor_pow2`, the halving loop of `for_aligned_chunks`, the parameter limits of `set_TLBundleParams` | operators only |
| `ClientTLMemIfc` | memifc.hpp, with the messages of tilelinklib.hpp as records and the far side as a serial TileLink manager | one action per step of a thread (below) |
| `ChunkedMem` | the contract: an atomic memory for `read_chunk`/`write_chunk`, a block-by-block `clear_chunk` | `Invoke`, `Read`, `Write`, `ClearBlock`, `Return` |
| `MCClientTLMemIfc` | TLC instances of `ClientTLMemIfc` | the two buffers a writer may pass; thread symmetry |
| `TLAgent` | the message builders and the message a caller reuses | `set_TLBundleParams`, `put`, `putPartial`, `get`, the manager's two answers |
| `WireFormat` | the packed structs, `pack`, `unpack`, `toTLA`/`toTLD` and the narrowing at the port | operators only |
| `Fifo` | the contract of a channel: a bounded FIFO | `Put`, `Take` |
| `AdapterChannel` | one channel of `SwitchboardTLAdapter` with the agent at its host end | `HostSend`, `Enqueue`, `PortTakes`, or `PortGives`, `Dequeue`, `HostReceives` |
| `MCAdapterChannel` | a TLC instance of it: TLLoopback's port, messages too wide for it | - |
| `ExampleClients` | the three testbenches and the loops through their designs | `Send`, `Hop`, `DesignAnswers`, `ManagerReceives`, `ManagerAnswers`, `Receive` |
| `CosimBuild` | the build cache of `run_cosim` | one action per file operation |
| `CosimRun` | `run_cosim` after the build | one action per poll, signal and wait; the two processes |
| `ClientTLMemIfcProofs` | the invariants of `ClientTLMemIfc`, its step bound, and the lemmas about `AlignedChunks` they rest on | - |
| `ClientTLMemIfcRefinement` | `ClientTLMemIfc` implements `ChunkedMem` | - |
| `<module>Proofs` | the theorems about `CosimBuild`, `CosimRun`, `TLAgent`, `WireFormat`, `AdapterChannel` and `ExampleClients` | - |

How they fit together: `WireFormat` is the data path of `AdapterChannel`, which
implements `Fifo`. `Fifo` is what `ExampleClients` builds its three legs from
(by INSTANCE) and what `ClientTLMemIfc` assumes of its A and D channels.
`ClientTLMemIfc` implements `ChunkedMem`. `TLAgent` says what the beats contain
that the others only count. `CosimBuild` ends where `CosimRun` begins.

### ClientTLMemIfc

A thread is `idle`, in `clear_chunk`'s loop (`clear`), waiting for the mutex
(`lock`), in `for_aligned_chunks` (`walk`), in the send loop (`send`) or in the
receive loop (`recv`) of `read`/`write`. `call`, `clear` and `walk` are the
variables of the three stack frames; `dst` is the buffer a read fills, indexed
by beat, with `Blank` where nothing has been copied. `Lock` and `NextBurst`
contain the asserts of `read_chunk`/`write_chunk` and of
`validate_len_addr`/`read`/`write`/`get`/`put`: when one fails, `failed` becomes
its kind and the client does nothing more (`abort`). One can fail without any
denial: `set_TLBundleParams` accepts a `max_transfer_bytes` that is not a whole
number of beats, and `clear_chunk` then passes a block of that size to
`write_chunk`, which asserts whole beats (`RejectedBlock`). `Unlock` is the end
of a chunk, with `clear_chunk`'s `curr += len` when the chunk belongs to one.

Data is counted in beats, since every transfer is a whole number of them; `size`
stands for `1 << lg_size`. `source` is always 0 and the mask always a full beat,
so neither is a field. The A and D channels are FIFOs whose capacity is a
constant: Switchboard queue and adapter buffer in one. The manager (`Mgr*`) is
outside the repository: it serves requests one at a time, collects all beats of
a write burst before acknowledging once, answers a Get with one beat at a time,
and may deny, as TLRAM behind a crossbar does. A write it denies changes
nothing. Callers respect the documented preconditions (beat-aligned ranges of
at most `chunk_max_size()`, for `clear_chunk` of any length).

The refinement to `ChunkedMem` maps a write to the instant its thread gets the
mutex (the abstract memory is the concrete one with the holder's whole write
applied), a read to the arrival of its last beat, and each block of a clear to
the instant the chunk that carries it gets the mutex.

### TLAgent

`tl_a` is the message a testbench reuses and `ref` is what memory should hold
according to the calls. A manager writes the lanes of `mask` to the beat that
contains `address`. `putPartial` passes sub-beat masks relative to the
transfer, as its documentation says, and full-beat masks unchanged.
`SparseMasks` says whether callers pass sub-beat masks without their first byte.
`overrun` is set when a builder's `memcpy` goes past `data[]`; what the program
does from then on is undefined, and the model stops.
A caller sends nothing before `set_TLBundleParams`, as every builder asserts.

### WireFormat and AdapterChannel

A field's value is a number and a layout says which bits hold it. `Struct` is
the struct's members in order and `Concatenation` the operands of `pack`'s
`Cat`, both turned into bit ranges by adding widths (`Placed`); `BitsOfA` and
`BitsOfD` are the ranges `unpack` names. A packet remembers the layout it was
written with, and a field read at other bits is `Garbled`: the model does not
say which wrong value a wrong layout gives. `Narrow` keeps the low `PortWidth`
bits of every field.

`AdapterChannel` has one variable for the Switchboard queue and one for the
adapter's `Queue`; `ch` says which of the four channels a behaviour is about,
since they share nothing. Valid and ready of a `DecoupledIO` are a guard: a
transfer happens when both hold, in one step. `PortTakes` and `PortGives` are the
TileLink network at the other side of the port. The refinement maps both
queues, in order, to one FIFO whose capacity is their sum. A request is
narrowed when it enters the port's queue, so the abstract FIFO carries the
request as the port can have it; a response is what the port gave.

### ExampleClients

`tx`, `mid` and `rx` are the three legs of a loop. minimal's `mid` is its
32-deep buffer; tlmem's is what crossbar and RAMs are serving; tlloopback's is
the manager port with `manager_thread` at its end. `sent` and `got` are the loop
counters of the two threads, `taken` and `answered` those of the far side. The
asserts of the testbenches set `failed`. `Joined` is when `main` returns from
its joins; tlmem then gives the same agent to the ELF loader, which is
`ClientTLMemIfc`.

The RAMs and the crossbar are outside the repository: in tlmem all 32 requests
go to one RAM, which answers them in order. How many requests they hold is a
constant of its own (`MidCapacity`), not tied to the number of source IDs:
nothing in the repository limits the requests in flight to one per ID, and the
testbench matches answers by their order only.

### CosimBuild

`stamp`, `rebuild` and `seen` are a run's locals; `rtl` is the generation of
the RTL and stands for the mtime of `filelist.f`; a `binary` records what it
was built from: the configuration, the filelist and the RTL. `Configs` is the
part of the stamp compared for equality. A build reads (`BuildReads`), then
links (`BuildLinks`), and may fail at either point with the old binary or none
left, or, once it is linking, with the new one. A run can be killed at any step (`Crash`), which drops the
flock. A run slot is a directory: after a run has ended another can start in it.

### CosimRun

`pc` is the position in `run_cosim`/`_wait`/`_stop`. A process has a status, a
return code and the generation of queue files it mapped. `deaf` is the set of
processes that may ignore SIGINT and SIGTERM. The simulator may end at any time
with 0 or an error; the client may fail at any time, and succeeds once it has
been served through queue files the simulator has mapped too. Timeouts are
nondeterministic: a timed wait may expire whenever the process still runs,
except that `_STOP_TIMEOUT_S` is long enough for a process that reacts.

## 3. Runs

| run | instance | what it shows |
|---|---|---|
| `memifc_safety` | 2 threads, 4 beats of memory, bursts of at most 2 beats in chunks of at most 3, channels of 1 message | type correctness; with a largest burst of whole beats no assert can fail; the link is quiet between calls; every request belongs to the holder's range; beats are conserved, and each is the right one wherever it is; the holder and the manager never wait for each other and every step of theirs counts; `ClientTLMemIfc` implements `ChunkedMem` |
| `memifc_live` | 3 beats of memory, `max_transfer_bytes` of 2.5 beats, A holds 2 and D 1, the manager may deny | a call that holds the mutex returns or the client aborts; a denial always aborts; apart from it only a `clear_chunk` whose block is not whole beats does |
| `memifc_clear_blocks` | 4-byte beats, `max_transfer_bytes` of 6, 8 bytes of memory | violated: memifc.hpp:109-112 says that `clear_chunk` writes beat-sized blocks and asks for whole beats only; the code writes blocks of `max_transfer_bytes`, and `write_chunk` aborts on a block of 6 |
| `tlagent_lanes` | 4-byte beats, 8 bytes of memory of which the second beat is written, 2 byte values, a data array of exactly one beat | every byte of every put lands where the call says, whatever the message held before; no copy leaves the array; the mask of a Get selects the bytes asked for |
| `tlagent_sparse` | the same, writing only the last 2 bytes of memory, with sparse sub-beat masks | violated: `putPartial` copies to the lowest enabled lane rather than to the transfer's first lane, which puts wrong bytes in the enabled lanes and, at the end of a beat as wide as the array, writes past it |
| `cosim_build` | 2 directories, 2 configurations, 2 RTL generations, any number of calls, failures and kills | the stamp describes the binary; a build step ends with a current binary; every run ends |
| `cosim_build_launch` | the same | violated: between releasing the lock and `simulate()` another run may rebuild, so a run may start a simulator of another configuration (or none) |
| `cosim_run` | with waveform | no process is left running after an outcome; no outcome is due to a signal the runner sent; the waveform is this run's and readable; the client never maps dead queue files; only a process that ignores SIGINT and SIGTERM is killed, and only a killed one is waited for without a timeout; the run always ends |
| `cosim_sim_death` | without waveform | violated: a simulator that exits while the client is running is not reported when the client finishes before `_wait` looks again or within the grace period |
| `adapter_channel` | the four channels, both queues 2 deep, three messages of each kind with source and address wider than the port | a channel implements `Fifo`, with its liveness: nothing is lost, repeated, reordered or changed but by narrowing, and what is sent arrives |
| `example_clients` | the three testbenches, 8 packets, 2 source IDs, queues of 1, 2 and 3 | messages are accounted for and in order; no testbench assert fails; nothing is left on the link after the joins; nobody waits in a circle and every step counts; the threads are always joined |
| `tlmem_source_echo` | the same with 6 packets | violated: tilelinklib.h:119 says a response echoes the source of its request, but tlmem's sources do not fit its port (`tlmem/client.cc:17`) |

Every property of a passing run has a mutant in `PROJECT.json`: a plausible bug
in one definition, written next to it and marked *fault*, with which TLC finds
the property violated.

### Bounds

* `memifc_safety`: `max_transfer_bytes` is 3 beats of 2 bytes. The code asks
  only for at most 4096, and a value that is not a power of two makes every
  interesting case fit in 4 beats: chunks cut as 1+2 and 2+1, and a clear of
  the whole memory that takes a full block and a shorter one. One message per
  channel is the tightest case for blocking; the longest burst (2 beats) exceeds
  it. Two buffers whose neighbouring beats differ expose a swapped, lost or
  repeated beat. Two threads suffice for interference because calls exclude
  each other.
* `memifc_live`: no symmetry (liveness), one beat of memory less; the A channel
  holds a whole burst, the D channel does not. With 5 bytes on 2-byte beats a
  clear of all 6 bytes is rejected and one of 4 is not. Denial is chosen once
  per burst, for all its beats.
* `memifc_clear_blocks`: the smallest memory in which a block is cut off that is
  more than a beat and not whole beats.
* `tlagent_lanes`: one beat has all alignments of sizes 1, 2 and 4; the second
  beat of memory makes a slot computed from the whole address differ from one
  computed within the beat; the data array is exactly a beat, as `data[32]` is
  on the widest bus the code accepts, so a copy that goes too far leaves it.
* `adapter_channel`: two entries per queue give empty, full and wrap-around of
  both; source 17 and addresses above 16 bits exceed TLLoopback's port, and
  source 1 and 17 are equal after narrowing.
* `example_clients`: four requests per source ID (32 to 16 in the code), a middle
  leg that holds more requests than there are IDs, and queues of one message make
  every wait happen; a burst of tlloopback is longer
  than the leg it travels.
* `cosim_build`: each hazard needs two runs and one regeneration in between.
  `MaxRtl` is the only bound on behaviours: run slots are reused for ever.

### Deadlock and fairness

Deadlock is checked in `memifc_safety`, in `adapter_channel` and in the
`TLAgent` runs. `memifc_live` disables it because an aborted client stops;
`CosimRun`, `CosimBuild` and `ExampleClients` end, and for these the liveness
property (`RunEnds`, `EveryRunEnds`, `Joins`) says that they do not stop early.

* `ClientTLMemIfc`: weak fairness of the manager (the simulator keeps clocking)
  and of each thread inside a call (the host schedules it). None for starting
  calls, and none for *getting* the mutex: `std::mutex` is not fair, so that a
  waiting thread gets it is not claimed, only that a holder gives it back.
* `AdapterChannel`: weak fairness of the transfers between the two queues (the
  simulator keeps clocking) and of the receiving end, whose agent spins in
  `recv_blocking`. Nobody has to send. The fairness of `Fifo!Take` follows.
* `ExampleClients`: weak fairness of every thread and of the design's hops.
* `CosimRun`: weak fairness of the polling loop; of the client while it can
  proceed; of SIGKILL; of the other signals for processes not in `deaf`.
  Nothing forces a simulator to stay alive or a client without one to end.
* `CosimBuild`: weak fairness of a started run, strong fairness of its `flock`
  because the kernel queues waiters. Killing and regenerating are not fair.

## 4. Proofs

The theorems hold for every value of the constants that the modules' named
assumptions allow. Those about bus parameters are what `set_TLBundleParams`
accepts, with a power of two bytes per beat, as TileLink has it
(`BundleAssumption`, `AgentAssumption`). That callers pass aligned ranges inside
the memory is what memifc.hpp documents. The rest describes the environment and
asks for no more than queues of at least one message and non-empty sets. What the
code neither asserts nor documents is not assumed: a `max_transfer_bytes` of
whole beats, or at most one request per source ID.

### The memory interface

`ClientTLMemIfcProofs` starts with the arithmetic, for every beat size and every
`max_transfer_bytes` that `set_TLBundleParams` accepts. `ChunkIsLegalBurst`: the
next chunk of a range of whole beats is a power of two, at least a beat, at most
what remains, and divides its base address. The beat itself is a candidate, so
the maximum exists and is at least that.

It then proves, for any set of threads, memory, data, channel capacities, bus
width and `max_transfer_bytes` (`InterfaceAssumption` and `BundleAssumption`),
`[]TypeOK`, `[]AbortsExplained`, `[]QuietBetweenCalls`,
`[]RequestsWellFormed` and `[]BeatsAccounted`. None of them is inductive: that
a response has the right opcode depends on who sent the request, on how many of
its beats have been served, and on the arithmetic that chose its size. `IInv` is
the conjunction that is, and its parts are defined in `ClientTLMemIfc`:

* `MutexInv`: exactly the thread past `Lock` and before `Unlock` holds the mutex;
* `CallInv`: what a call was entered with satisfies `read_chunk`'s asserts or is
  a block of `clear_chunk` they reject (`RejectedBlock`), and `clear_chunk`'s
  remaining range stays in memory and on whole beats;
* `WalkInv`: `curr + remaining` is the end of the call, and a burst in progress
  is one `read`/`write` accept (from `ChunkIsLegalBurst`);
* `MgrInv`: the manager's burst is inside the memory and not complete;
* `ChannelInv`: the holder's burst is in one of the phases `Collecting`,
  `Acknowledging`, `Acknowledged` (write), `Asked`, `Answering` (read) or
  everything is `Quiet`; each phase says which messages are where and how many
  beats each side has counted;
* `DenyInv`: a manager that may not deny has no denied answer under way.

`Init => IInv` is `InitInv`; each conjunct has a step lemma (`TypeStep`,
`MutexStep`, `CallStep`, `WalkStep`, `MgrStep`, `ChannelStep`, `DenyStep`,
`AbortStep`) with one step per action, and `Invariance` puts them together.

*Progress.* `NoWedge` (`[]NeverWedged`) and `BoundedSteps` (`EveryStepCounts`)
are the part of "a call returns" that does not need fairness. `CanStep` lists
the guards of the holder's and the manager's actions. In each phase of
`ChannelInv` one of them holds: while a write is being sent the manager is
collecting, so a full A channel has a beat it can take; once it has been sent,
or a Get has, what is missing is on A, at the manager or on D. `Work` counts the
steps left: a beat needs at most six (cut, send, take, store, acknowledge or
answer, accept), and `StepsDone` is the number the burst in progress has behind
it. Its value in each phase (`CollectingNumbers`, `AnswerNumbers`) is arithmetic
over the lengths `IInv` fixes; every step of the holder or of the manager lowers
it, and it never leaves `0 .. 6 * Beats(nbytes)`. So a call of n beats gives
the mutex back within 6 n steps of the two, and for `HolderReturns` only the
fairness that makes them take those steps is left to TLC.

*Data.* `ClientTLMemIfcRefinement` adds two invariants to `IInv`. `FrameInv`
ties `clear_chunk`'s frame to the chunk it has called. `DataInv`
(`DataIntegrity`) says where each beat of the call in progress is: the beats on A
are the caller's, in order and ending just before `src_ptr`; those the manager
has stored are in memory at their addresses; those on D or in the buffer are
what memory holds there. It needs `ChannelInv` (which messages can be where) and
`WalkInv` (where the burst lies in the call); a burst carries one address for
all its beats, so the position of a beat is only its place in the queues.

*Refinement.* `Refinement` is `Spec => ImplementsContract`, that is, every
behaviour implements `ChunkedMem`. The mapping fixes the instants at which the
calls take effect:

* a write at `Lock`: from then on the abstract memory is the concrete one with
  the holder's whole range written, and no one else can look before `Unlock`,
  when by `WriteData` the concrete memory has caught up;
* a read when its last beat arrives (`Offset` is the end of the call): by
  `ReadData` the destination then holds the range as it is in memory, which no
  other thread can have changed;
* a clear block by block, each at the `Lock` of the chunk that carries it, at
  the cursor `FrameInv` says.

Calls and returns map to `Invoke` and `Return`. Every other action is a stutter
of `ChunkedMem`, among them every step of the manager: the beat it stores is inside the holder's range and has the value the
abstract memory has held since `Lock`. There is one lemma per action, and one
that states the mapping's value in each state of a thread.

### Messages, channels and testbenches

`TLAgentProofs` is about every bus width from 1 to 32 bytes, memory, data and
array length. `[]BytesLand` and `[]GetMaskSelects` are proved under the
hypothesis `SparseMasks = FALSE`: with sparse sub-beat masks memory no longer
holds what was asked for, as `tlagent_sparse` shows. `SparsePutSlides` says for
all widths, sizes, addresses and masks what `putPartial` does instead: the lane
of byte k gets the caller's byte k - j, where j is the lowest byte of the mask, so
the hypothesis is the one the code needs. `CopiesInBounds`
(`[]CopiesStayInside`) says when the slide can leave the array: never without
sparse masks, and with them only if the array leaves less than `BeatBytes / 2 - 1`
bytes to spare, which on the buses the code accepts is the 256-bit one alone.
`MessagesTyped` proves `[]TypeOK` with any masks, for the behaviours up to such a
write and together with `CopiesStayInside`. Its lemmas are about the
slot arithmetic (`SlotFacts`: an aligned transfer lies within a beat, and
`alignMask`'s slot times its size is its offset), then about each builder
(`FullPutFacts`, `PartialPutFacts`: a lane is enabled exactly when its byte was
asked for, and carries that byte). The invariant says that memory, with the put
in flight served, is what was asked for.

`WireFormatProofs` proves `OneLayout`: `LayoutsAgree`. It is a statement about
constants, so no run checks it as an invariant; TLC meets it in
`ImplementsFifo`, which a swapped field order breaks. The proof computes each
layout field by field.

`AdapterChannelProofs` proves `[]TypeOK` and `AdapterIsFifo` (`Spec =>
Channel!Spec`), for every port width, message set and queue depth. Each step is a
`Put`, a `Take` or leaves the abstract FIFO unchanged: `Enqueue` and `Dequeue` move
a beat across the seam, where `OneLayout` says that decoding undoes encoding.
The liveness half of `ImplementsFifo` is model-checked.

`ExampleClientsProofs` proves the invariants of `example_clients` for any
number of packets, ID bits and queue capacities. `InOrder` and `Accounted` are
inductive together with types and the asserts' flag; `QuietAfterJoin` then
follows because the counters of both ends meet. `NoWedge` (`[]NeverWedged`) follows from
`Accounted`: if every queue that someone wants to write is full and every one
someone wants to read is empty, the counters say that everything has been
received. `BoundedSteps` (`EveryStepCounts`) shows that each step lowers
`Left`, which starts at `3 ToSend + 2 ToReceive`; for `Joins` only the fairness
of the threads and of the design is left.

### run_cosim

`CosimBuildProofs` proves, for any set of runs and configurations and any bound
on regenerations (`BuildAssumption`), `[]TypeOK`, `[]StampDescribesBinary` and
`[]BinaryIsCurrent`. `StampDescribesBinary` alone is not inductive: that a
stamp written at the end describes the binary needs (1) that only the holder of
the lock touches the cache (`LockInv`), (2) that there is no stamp while it
builds (`NoStampWhileBuilding`, the `unlink` before `build()`), (3) that the
stamp was taken before the lock and is therefore no newer than the filelist and
RTL the build reads (`StampIsOld`), and (4) what the holder's binary was built
from once it is linked (`HolderHasBuilt`). `CacheInv` is their conjunction; the
step lemma has one case per action.

`CosimRunProofs` proves `[]TypeOK`, `[]NoOrphans`, `[]OutcomeIsEarned`,
`[]WaveformUsable`, `[]ClientOnLiveQueue` and `[]KillIsLastResort`, with and
without a waveform. The invariant adds what the loop knows without asking:
which process has been started and on which queue files (`Started`), that only
`_stop`'s target has been sent anything and only a deaf one more than SIGINT
(`Signalled`), that a signal's return code comes from a signal that was sent
(`Killed`), that the process which is *not* being stopped has exited (`Other`),
and in which states of the simulator the waveform can be open or torn (`Wave`).
`OutcomeIsEarned` follows because the client's code is not a signal's when it
was sent none. `KillIsLastResort`, which is what keeps the last, untimed wait
of `_stop` from hanging on a process that nobody has killed, needs a second
invariant on top of it: `Escalation` says that the target has been sent exactly
the first `level` signals of `StopSignals`, and more than one only if it is
deaf.

### Only model-checked

Every invariant and every action property of the passing runs is a theorem, and
so is the refinement of `ChunkedMem`. What stays with TLC is fairness, which
needs ENABLED: `HolderReturns`, `DenialStops`, `Joins`, `RunEnds`,
`EveryRunEnds`, and the liveness half of `ImplementsFifo`. The five findings
are counterexamples of TLC.

## 5. Not modelled

* The Switchboard library, the TileLink network (crossbar, TLRAM, diplomacy) and
  fesvr's ELF loader: not in the repository, modelled from how it uses them.
* Agents shared by more threads than the examples use: the two threads of tlmem
  touch different queues, and that is the only sharing the repository has.
* String formatting, printing, option lists, elaboration, ccache.
* Builds without assertions (`NDEBUG`) and beats marked `corrupt`.
* A Verilator child that outlives a killed run and keeps writing.
* `binary_run` raising after the simulator was started: the model follows the
  code (the simulator keeps running) but states nothing about it.

## 6. Plan

Done: every module of section 2, with the theorems of section 4. Left:

1. A child of a killed run that goes on writing (`CosimBuild`), and a
   `binary_run` that raises after `simulate` (`CosimRun`), should the code start
   to handle either.
2. A build with `NDEBUG` and beats marked `corrupt` (`ClientTLMemIfc`).
