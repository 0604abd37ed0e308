--------------------------- MODULE ClientTLMemIfc ---------------------------
(***************************************************************************)
(* ClientTLMemIfc (sb_sim/include/memifc.hpp): fesvr's chunked memory      *)
(* interface on top of a ClientTLAgent.  Several threads call read_chunk,  *)
(* write_chunk and clear_chunk; each chunk is cut into aligned bursts that *)
(* travel on the A channel and are answered on the D channel.              *)
(*                                                                         *)
(* The two channels are bounded FIFOs: a Switchboard queue followed by the *)
(* adapter's buffer.  The far side is a TileLink manager that serves one   *)
(* request at a time, in order, like the TLRAM banks of TLMem.             *)
(***************************************************************************)
EXTENDS AlignedChunks, Sequences

CONSTANTS
  Threads,      \* host threads that share the interface
  NoThread,     \* the mutex is free
  MemBytes,     \* bytes of the address range the callers use
  Data, Zero,   \* what one beat can hold; the beat clear_chunk writes
  Blank,        \* a destination beat nothing was copied into
  Buffers,      \* source buffers the callers of write_chunk pass
  ACapacity,    \* messages the A path holds
  DCapacity,    \* messages the D path holds
  MayDeny       \* whether the manager may answer denied = 1

Beats(n) == n \div BeatBytes
BufferIndex == 0 .. Beats(MaxTransferBytes) - 1
Buffer == [BufferIndex -> Data]

ASSUME InterfaceAssumption ==
  /\ NoThread \notin Threads
  /\ MemBytes \in Nat /\ Aligned(MemBytes)
  /\ Zero \in Data /\ Blank \notin Data
  /\ Buffers \subseteq Buffer
  /\ ACapacity \in Nat \ {0} /\ DCapacity \in Nat \ {0}
  /\ MayDeny \in BOOLEAN

VARIABLES
  lock_,    \* the std::mutex: the thread that holds it, or NoThread
  pc,       \* where each thread is
  call,     \* the read_chunk / write_chunk call a thread is in
  clear,    \* curr and remaining of clear_chunk's loop
  walk,     \* curr and remaining of for_aligned_chunks, burst length and beat
  dst,      \* the destination buffer of a read_chunk
  a, d,     \* the A and D channels
  mgr,      \* the request the manager is serving
  mem,      \* the manager's memory, one entry per beat
  failed    \* the kind of assert that aborted the client process, or "no"

frames == <<call, clear, walk, dst>>
device == <<mgr, mem>>
vars == <<lock_, pc, call, clear, walk, dst, a, d, mgr, mem, failed>>

MemIndex == 0 .. Beats(MemBytes) - 1
ZeroBuffer == [k \in BufferIndex |-> Zero]
BlankBuffer == [k \in BufferIndex |-> Blank]

NoCall == [op |-> "none", taddr |-> 0, nbytes |-> 0, src |-> ZeroBuffer]
NoClear == [curr |-> 0, remaining |-> 0]
WalkOver(addr, n) == [curr |-> addr, remaining |-> n, len |-> BeatBytes, i |-> 0]
NoWalk == WalkOver(0, 0)
Idle == [state |-> "idle", address |-> 0, size |-> BeatBytes, count |-> 0,
         denied |-> FALSE]

(***************************************************************************)
(* The A messages that get() and put() build and the D messages that come  *)
(* back.  size stands for 1 << lg_size; source is always 0 and the mask is *)
(* always the whole beat, because no burst is shorter than a beat.         *)
(***************************************************************************)
BeatSizedGet(addr, len) ==       \* fault: the size of a beat, not of the burst
  [opcode |-> "Get", address |-> addr, size |-> BeatBytes, data |-> Blank]

GetMsg(addr, len) ==
  [opcode |-> "Get", address |-> addr, size |-> len, data |-> Blank]

BeatSizedPut(addr, len, byte) == \* fault: likewise
  [opcode |-> "PutFullData", address |-> addr, size |-> BeatBytes,
   data |-> byte]

PutMsg(addr, len, byte) ==
  [opcode |-> "PutFullData", address |-> addr, size |-> len, data |-> byte]

DMsg(op, byte, den) == [opcode |-> op, data |-> byte, denied |-> den]

NumBeats(t) == Beats(walk[t].len)

LoopEndsEarly(t) == walk[t].i + 2 >= NumBeats(t) \* fault: i < num_beats - 1
LastBeat(t) == walk[t].i + 1 = NumBeats(t)

\* dst_ptr / src_ptr, which move by len after each burst, plus i beats.
PointerStays(t) == walk[t].i                     \* fault: they do not move
Offset(t) == Beats(walk[t].curr - call[t].taddr) + walk[t].i

NoMutex == TRUE                                  \* fault: no lock_guard
MutexFree == lock_ = NoThread

NoBackpressure == TRUE                           \* fault: a send on a full queue
RoomInA == Len(a) < ACapacity

Init ==
  /\ lock_ = NoThread
  /\ pc = [t \in Threads |-> "idle"]
  /\ call = [t \in Threads |-> NoCall]
  /\ clear = [t \in Threads |-> NoClear]
  /\ walk = [t \in Threads |-> NoWalk]
  /\ dst = [t \in Threads |-> BlankBuffer]
  /\ a = <<>> /\ d = <<>>
  /\ mgr = Idle
  /\ mem \in [MemIndex -> Data]
  /\ failed = "no"

Goto(t, label) == pc' = [pc EXCEPT ![t] = label]

(***************************************************************************)
(* The callers keep the documented contract: beat-aligned ranges inside    *)
(* the memory, and chunks of at most chunk_max_size() bytes.               *)
(***************************************************************************)
InMemory(addr, n) ==
  Aligned(addr) /\ Aligned(n) /\ addr + n <= MemBytes

EnterChunk(t, op, addr, n, src) ==
  /\ Goto(t, "lock")
  /\ call' = [call EXCEPT ![t] =
                [op |-> op, taddr |-> addr, nbytes |-> n, src |-> src]]

ReadChunk(t) ==
  /\ pc[t] = "idle"
  /\ \E addr \in 0 .. MemBytes, n \in BeatBytes .. MaxTransferBytes :
       InMemory(addr, n) /\ EnterChunk(t, "read", addr, n, ZeroBuffer)
  /\ UNCHANGED <<lock_, clear, walk, dst, a, d, device, failed>>

WriteChunk(t) ==
  /\ pc[t] = "idle"
  /\ \E addr \in 0 .. MemBytes, n \in BeatBytes .. MaxTransferBytes,
        src \in Buffers :
       InMemory(addr, n) /\ EnterChunk(t, "write", addr, n, src)
  /\ UNCHANGED <<lock_, clear, walk, dst, a, d, device, failed>>

ClearChunk(t) ==
  /\ pc[t] = "idle"
  /\ \E addr \in 0 .. MemBytes, n \in 0 .. MemBytes :
       /\ InMemory(addr, n)
       /\ clear' = [clear EXCEPT ![t] = [curr |-> addr, remaining |-> n]]
  /\ Goto(t, "clear")
  /\ UNCHANGED <<lock_, call, walk, dst, a, d, device, failed>>

\* One turn of clear_chunk's loop: write_chunk of at most chunk_max_size()
\* bytes, whole beats or not.
ClearBlock(t) ==
  /\ pc[t] = "clear"
  /\ clear[t].remaining > 0
  /\ EnterChunk(t, "write", clear[t].curr,
                Min({clear[t].remaining, MaxTransferBytes}), ZeroBuffer)
  /\ UNCHANGED <<lock_, clear, walk, dst, a, d, device, failed>>

ClearReturn(t) ==
  /\ pc[t] = "clear"
  /\ clear[t].remaining = 0
  /\ clear' = [clear EXCEPT ![t] = NoClear]
  /\ Goto(t, "idle")
  /\ UNCHANGED <<lock_, call, walk, dst, a, d, device, failed>>

\* An assert of the given kind fails: abort() ends the process.
Abort(kind) == failed' = kind /\ UNCHANGED <<pc, walk, dst>>

ChunkAsserts(c) ==
  /\ Aligned(c.taddr)
  /\ WholeBeats(c.nbytes) /\ c.nbytes <= MaxTransferBytes

\* lock_guard, the asserts, then for_aligned_chunks starts at taddr.  An assert
\* that fails here ends the process, and with it the mutex it has just locked.
Lock(t) ==
  /\ pc[t] = "lock"
  /\ MutexFree
  /\ IF ChunkAsserts(call[t])
     THEN /\ lock_' = t
          /\ walk' = [walk EXCEPT ![t] =
                         WalkOver(call[t].taddr, call[t].nbytes)]
          /\ Goto(t, "walk")
          /\ UNCHANGED <<dst, failed>>
     ELSE Abort("range") /\ UNCHANGED lock_
  /\ UNCHANGED <<call, clear, a, d, device>>

\* validate_len_addr, the assert that follows it in read() and write(), and
\* those on the size in get() and put() (tilelinklib.hpp:258-260, :288-290).
\* p_set holds: the constructor's get_TLBundleParams has asserted it.
BurstAsserts(addr, len) ==
  /\ len \in Sizes /\ addr % len = 0 /\ len >= BeatBytes
  /\ len <= MaxTransferBytes

NextBurst(t) ==
  /\ pc[t] = "walk"
  /\ walk[t].remaining > 0
  /\ LET chunk == AlignedChunk(walk[t].curr, walk[t].remaining)
     IN  IF BurstAsserts(walk[t].curr, chunk)
         THEN /\ walk' = [walk EXCEPT ![t].len = chunk, ![t].i = 0]
              /\ Goto(t, "send")
              /\ UNCHANGED <<dst, failed>>
         ELSE Abort("burst")
  /\ UNCHANGED <<lock_, call, clear, a, d, device>>

\* read(): one Get for the whole burst; send_a blocks while A is full.
SendGet(t) ==
  /\ pc[t] = "send" /\ call[t].op = "read"
  /\ RoomInA
  /\ a' = Append(a, GetMsg(walk[t].curr, walk[t].len))
  /\ Goto(t, "recv")
  /\ UNCHANGED <<lock_, frames, d, device, failed>>

\* write(): one PutFullData per beat, each with the burst's base address.
SendPut(t) ==
  /\ pc[t] = "send" /\ call[t].op = "write"
  /\ RoomInA
  /\ a' = Append(a, PutMsg(walk[t].curr, walk[t].len,
                           call[t].src[Offset(t)]))
  /\ walk' = [walk EXCEPT ![t].i = @ + 1]
  /\ IF LastBeat(t) THEN Goto(t, "recv") ELSE UNCHANGED pc
  /\ UNCHANGED <<lock_, call, clear, dst, d, device, failed>>

RepeatBurst(t) ==                \* fault: the loop does not move on
  walk' = [walk EXCEPT ![t].i = 0] /\ Goto(t, "walk")

\* The end of one fn(curr, chunk): curr += chunk, remaining -= chunk.
Advance(t) ==
  /\ walk' = [walk EXCEPT ![t].curr = @ + walk[t].len,
                          ![t].remaining = @ - walk[t].len,
                          ![t].i = 0]
  /\ Goto(t, "walk")

\* The asserts on the opcode and on denied, in the code's order.
DeniedIgnored(op) == Head(d).opcode = op         \* fault: denied not looked at
Accepted(op) == Head(d).opcode = op /\ ~Head(d).denied

ResponseAborts(op) ==
  ~Accepted(op) /\ Abort(IF Head(d).opcode = op THEN "denied" ELSE "opcode")

RecvData(t) ==
  /\ pc[t] = "recv" /\ call[t].op = "read"
  /\ d # <<>>
  /\ d' = Tail(d)
  /\ \/ /\ Accepted("AccessAckData")
        /\ dst' = [dst EXCEPT ![t][Offset(t)] = Head(d).data]
        /\ IF LastBeat(t)
           THEN Advance(t)
           ELSE walk' = [walk EXCEPT ![t].i = @ + 1] /\ UNCHANGED pc
        /\ UNCHANGED failed
     \/ ResponseAborts("AccessAckData")
  /\ UNCHANGED <<lock_, call, clear, a, device>>

RecvAck(t) ==
  /\ pc[t] = "recv" /\ call[t].op = "write"
  /\ d # <<>>
  /\ d' = Tail(d)
  /\ \/ Accepted("AccessAck") /\ Advance(t) /\ UNCHANGED <<dst, failed>>
     \/ ResponseAborts("AccessAck")
  /\ UNCHANGED <<lock_, call, clear, a, device>>

(***************************************************************************)
(* The chunk is complete: the guard unlocks and the frame is popped.  In   *)
(* clear_chunk the loop steps over the block just written.                 *)
(***************************************************************************)
Unlock(t) ==
  /\ pc[t] = "walk"
  /\ walk[t].remaining = 0
  /\ lock_' = NoThread
  /\ call' = [call EXCEPT ![t] = NoCall]
  /\ walk' = [walk EXCEPT ![t] = NoWalk]
  /\ dst' = [dst EXCEPT ![t] = BlankBuffer]
  /\ IF clear[t].remaining > 0
     THEN /\ clear' = [clear EXCEPT ![t].curr = @ + call[t].nbytes,
                                    ![t].remaining = @ - call[t].nbytes]
          /\ Goto(t, "clear")
     ELSE Goto(t, "idle") /\ UNCHANGED clear
  /\ UNCHANGED <<a, d, device, failed>>

(***************************************************************************)
(* The manager (outside src/): it takes a request when it serves none,     *)
(* collects every beat of a write burst before it acknowledges it once,    *)
(* and answers a Get with one beat of data per beat of the burst.          *)
(***************************************************************************)
MgrBeat == Beats(mgr.address) + mgr.count
MgrLast == mgr.count + 1 = Beats(mgr.size)

MgrTakeRequest ==
  /\ mgr.state = "idle"
  /\ a # <<>>
  /\ \E den \in IF MayDeny THEN BOOLEAN ELSE {FALSE} :
       mgr' = [state |-> IF Head(a).opcode = "Get" THEN "get" ELSE "put",
               address |-> Head(a).address, size |-> Head(a).size,
               count |-> 0, denied |-> den]
  /\ a' = IF Head(a).opcode = "Get" THEN Tail(a) ELSE a
  /\ UNCHANGED <<lock_, pc, frames, d, mem, failed>>

MgrTakeBeat ==
  /\ mgr.state = "put"
  /\ a # <<>>
  /\ a' = Tail(a)
  /\ mem' = IF mgr.denied THEN mem ELSE [mem EXCEPT ![MgrBeat] = Head(a).data]
  /\ mgr' = IF MgrLast THEN [mgr EXCEPT !.state = "ack", !.count = 0]
                       ELSE [mgr EXCEPT !.count = @ + 1]
  /\ UNCHANGED <<lock_, pc, frames, d, failed>>

MgrAck ==
  /\ mgr.state = "ack"
  /\ Len(d) < DCapacity
  /\ d' = Append(d, DMsg("AccessAck", Blank, mgr.denied))
  /\ mgr' = Idle
  /\ UNCHANGED <<lock_, pc, frames, a, mem, failed>>

MgrSendData ==
  /\ mgr.state = "get"
  /\ Len(d) < DCapacity
  /\ d' = Append(d, DMsg("AccessAckData", mem[MgrBeat], mgr.denied))
  /\ mgr' = IF MgrLast THEN Idle ELSE [mgr EXCEPT !.count = @ + 1]
  /\ UNCHANGED <<lock_, pc, frames, a, mem, failed>>

Manager == MgrTakeRequest \/ MgrTakeBeat \/ MgrAck \/ MgrSendData

\* What a thread does once it is inside a call.
InCall(t) ==
  \/ ClearBlock(t) \/ ClearReturn(t) \/ Lock(t) \/ NextBurst(t)
  \/ SendGet(t) \/ SendPut(t) \/ RecvData(t) \/ RecvAck(t) \/ Unlock(t)

Invoke(t) == ReadChunk(t) \/ WriteChunk(t) \/ ClearChunk(t)

Next ==
  \/ failed = "no" /\ \E t \in Threads : Invoke(t) \/ InCall(t)
  \/ Manager

Spec == Init /\ [][Next]_vars

(***************************************************************************)
(* The simulator keeps clocking and a thread inside a call keeps running;  *)
(* nobody is obliged to start a call.                                      *)
(***************************************************************************)
FairSpec ==
  /\ Spec
  /\ WF_vars(Manager)
  /\ \A t \in Threads : WF_vars(failed = "no" /\ InCall(t))

-----------------------------------------------------------------------------
(***************************************************************************)
(* Type invariant.                                                         *)
(***************************************************************************)
Addresses == 0 .. MemBytes
AMessages == [opcode : {"Get", "PutFullData"}, address : Addresses,
              size : Sizes, data : Data \cup {Blank}]
DMessages == [opcode : {"AccessAck", "AccessAckData"},
              data : Data \cup {Blank}, denied : BOOLEAN]

TypeOK ==
  /\ lock_ \in Threads \cup {NoThread}
  /\ pc \in [Threads -> {"idle", "clear", "lock", "walk", "send", "recv"}]
  /\ call \in [Threads -> [op : {"none", "read", "write"}, taddr : Addresses,
                           nbytes : Addresses, src : Buffer]]
  /\ clear \in [Threads -> [curr : Addresses, remaining : Addresses]]
  /\ walk \in [Threads -> [curr : Addresses, remaining : Addresses,
                           len : Sizes, i : Nat]]
  /\ dst \in [Threads -> [BufferIndex -> Data \cup {Blank}]]
  /\ a \in Seq(AMessages) /\ Len(a) <= ACapacity
  /\ d \in Seq(DMessages) /\ Len(d) <= DCapacity
  /\ mgr \in [state : {"idle", "get", "put", "ack"}, address : Addresses,
              size : Sizes, count : Nat, denied : BOOLEAN]
  /\ mem \in [MemIndex -> Data]
  /\ failed \in {"no", "range", "burst", "opcode", "denied"}

(***************************************************************************)
(* A block of clear_chunk that write_chunk's asserts reject: the largest   *)
(* burst, for want of whole beats in it.                                   *)
(***************************************************************************)
RejectedBlock(t) ==
  /\ pc[t] = "lock"
  /\ clear[t].remaining > MaxTransferBytes
  /\ call[t].nbytes = MaxTransferBytes /\ ~WholeBeats(MaxTransferBytes)

(***************************************************************************)
(* Of all asserts on a call's way only two can abort the client: the one   *)
(* on denied, if the manager denies, and write_chunk's on the size of a    *)
(* block (memifc.hpp:92-97), in a clear_chunk of more than max_transfer_   *)
(* bytes where that is not whole beats.  The splitting never produces a    *)
(* burst read(), write(), get() or put() rejects, and no thread receives a *)
(* response that was meant for another call (every message has source 0,   *)
(* so the mutex and the one-burst-at-a-time loop are all that pairs them). *)
(***************************************************************************)
AbortsExplained ==
  /\ failed \in {"no", "denied", "range"}
  /\ failed = "denied" => MayDeny
  /\ failed = "range" => \E t \in Threads : RejectedBlock(t)

(***************************************************************************)
(* When the mutex is free, nothing of the last call is left on the wire: a *)
(* beat left behind would be taken for the next caller's answer.           *)
(***************************************************************************)
QuietBetweenCalls == lock_ = NoThread => a = <<>> /\ d = <<>> /\ mgr = Idle

(***************************************************************************)
(* Every message on the A channel belongs to the call that holds the       *)
(* mutex: its kind, a naturally aligned burst of at least one beat and at  *)
(* most max_transfer_bytes, inside [taddr, taddr + nbytes).                *)
(***************************************************************************)
RequestsWellFormed ==
  \A k \in DOMAIN a :
    /\ lock_ \in Threads
    /\ a[k].opcode = IF call[lock_].op = "read" THEN "Get" ELSE "PutFullData"
    /\ a[k].size \in BeatBytes .. MaxTransferBytes
    /\ a[k].address % a[k].size = 0
    /\ a[k].address >= call[lock_].taddr
    /\ a[k].address + a[k].size <= call[lock_].taddr + call[lock_].nbytes

(***************************************************************************)
(* The beats of the burst in progress are accounted for: those sent are on *)
(* the A channel or with the manager, those answered on the D channel or   *)
(* received; none is lost, none is sent or answered twice.                 *)
(***************************************************************************)
OnTheWay(t) ==
  IF call[t].op = "read"
  THEN IF mgr.state = "get" THEN NumBeats(t) - mgr.count
                            ELSE Len(a) * NumBeats(t)
  ELSE Len(a) + (IF mgr.state = "ack" THEN NumBeats(t) ELSE mgr.count)

BeatsAccounted ==
  failed = "no" => \A t \in Threads :
    /\ pc[t] = "send" /\ call[t].op = "write" => OnTheWay(t) = walk[t].i
    /\ pc[t] = "recv" /\ call[t].op = "write" =>
         OnTheWay(t) + Len(d) * NumBeats(t) = NumBeats(t)
    /\ pc[t] = "recv" /\ call[t].op = "read" =>
         walk[t].i + Len(d) + OnTheWay(t) = NumBeats(t)

(***************************************************************************)
(* The steps a holder still needs: at most six for a beat that is not yet  *)
(* sent (a one-beat write is cut, sent, taken, stored, acknowledged and    *)
(* accepted), less those the burst in progress has behind it.              *)
(***************************************************************************)
StepsPerBeat == 6

StepsDone(t) ==
  CASE pc[t] = "walk" -> 0
    [] pc[t] # "walk" /\ call[t].op = "write" ->
         1 + walk[t].i + (CASE mgr.state = "put" -> 1 + mgr.count
                            [] mgr.state = "ack" -> 1 + NumBeats(t)
                            [] OTHER -> IF d = <<>> THEN 0 ELSE 2 + NumBeats(t))
    [] pc[t] = "send" /\ call[t].op # "write" -> 1
    [] OTHER ->
         2 + walk[t].i + IF a = <<>> THEN 1 + walk[t].i + Len(d) ELSE 0

Work(t) == StepsPerBeat * Beats(walk[t].remaining) - StepsDone(t)

(***************************************************************************)
(* The thread that holds the mutex, or the manager on its behalf, can take *)
(* a step, however small the two channels are: write() sends a whole burst *)
(* before it receives (memifc.hpp:236-248) and read() waits on D, and yet  *)
(* the two never wait for each other.  What is left to do is bounded.      *)
(***************************************************************************)
CanStep(t) ==
  \/ pc[t] = "walk"
  \/ pc[t] = "send" /\ RoomInA
  \/ pc[t] = "recv" /\ d # <<>>
  \/ mgr.state \in {"idle", "put"} /\ a # <<>>
  \/ mgr.state \in {"get", "ack"} /\ Len(d) < DCapacity

NeverWedged ==
  failed = "no" => \A t \in Threads : lock_ = t =>
    CanStep(t) /\ Work(t) \in 0 .. StepsPerBeat * Beats(call[t].nbytes)

(***************************************************************************)
(* No step of the holder or of the manager is in vain: each brings the end *)
(* of for_aligned_chunks nearer, so a call returns after a number of steps *)
(* its length bounds.                                                      *)
(***************************************************************************)
EveryStepCounts ==
  [][\A t \in Threads :
       /\ lock_ = t /\ lock_' = t /\ failed' = "no"
       /\ ~UNCHANGED <<pc[t], walk[t], a, d, mgr>>
       => Work(t)' < Work(t)]_vars

(***************************************************************************)
(* The inductive invariant behind these.  Who holds the mutex:             *)
(***************************************************************************)
Working == {"walk", "send", "recv"}

MutexInv == \A t \in Threads : pc[t] \in Working <=> lock_ = t

\* What a call was entered with, and how much of clear_chunk's range is left.
CallOK(t) ==
  /\ pc[t] \in Working \cup {"lock"} =>
       /\ call[t].op \in {"read", "write"} /\ Aligned(call[t].taddr)
       /\ ChunkAsserts(call[t]) \/ RejectedBlock(t)
       /\ call[t].taddr + call[t].nbytes <= MemBytes
       /\ clear[t].remaining > 0 => call[t].nbytes <= clear[t].remaining
  /\ InMemory(clear[t].curr, clear[t].remaining)
  /\ pc[t] = "idle" => clear[t].remaining = 0

CallInv == \A t \in Threads : CallOK(t)

\* The walk stays on beats inside the call; a burst is one the asserts accept.
WalkOK(t) ==
  /\ pc[t] \in Working =>
       /\ call[t].taddr <= walk[t].curr
       /\ walk[t].curr + walk[t].remaining = call[t].taddr + call[t].nbytes
       /\ Aligned(walk[t].curr) /\ Aligned(walk[t].remaining)
  /\ pc[t] \in {"send", "recv"} =>
       /\ BurstAsserts(walk[t].curr, walk[t].len)
       /\ walk[t].len <= walk[t].remaining
  /\ pc[t] = "send" =>
       /\ walk[t].i < NumBeats(t)
       /\ call[t].op = "read" => walk[t].i = 0
  /\ pc[t] = "recv" =>
       IF call[t].op = "write" THEN walk[t].i = NumBeats(t)
                               ELSE walk[t].i < NumBeats(t)

WalkInv == \A t \in Threads : WalkOK(t)

\* The manager serves a burst inside the memory.
MgrInv ==
  mgr.state \in {"get", "put"} =>
    /\ BurstAsserts(mgr.address, mgr.size)
    /\ mgr.address + mgr.size <= MemBytes
    /\ mgr.count < Beats(mgr.size)

\* Where the beats of the burst are, phase by phase.
Quiet == a = <<>> /\ d = <<>> /\ mgr = Idle
ThisBurst(m, t) == m.address = walk[t].curr /\ m.size = walk[t].len

Collecting(t) ==
  /\ d = <<>>
  /\ \A k \in DOMAIN a : a[k].opcode = "PutFullData" /\ ThisBurst(a[k], t)
                         /\ a[k].data \in Data
  /\ mgr = Idle \/ (mgr.state = "put" /\ ThisBurst(mgr, t))
  /\ Len(a) + mgr.count = walk[t].i

Acknowledging == a = <<>> /\ d = <<>> /\ mgr.state = "ack" /\ mgr.count = 0

Acknowledged ==
  a = <<>> /\ mgr = Idle /\ Len(d) = 1 /\ d[1].opcode = "AccessAck"

Asked(t) ==
  /\ Len(a) = 1 /\ a[1].opcode = "Get" /\ ThisBurst(a[1], t)
  /\ mgr = Idle /\ d = <<>> /\ walk[t].i = 0

Answering(t) ==
  /\ a = <<>>
  /\ \A k \in DOMAIN d : d[k].opcode = "AccessAckData" /\ d[k].data \in Data
  /\ \/ mgr = Idle /\ walk[t].i + Len(d) = NumBeats(t)
     \/ /\ mgr.state = "get" /\ ThisBurst(mgr, t)
        /\ walk[t].i + Len(d) = mgr.count

BurstPhase(t) ==
  CASE pc[t] = "walk" -> Quiet
    [] pc[t] = "send" -> IF call[t].op = "write" THEN Collecting(t) ELSE Quiet
    [] OTHER -> IF call[t].op = "write"
                THEN Collecting(t) \/ Acknowledging \/ Acknowledged
                ELSE Asked(t) \/ Answering(t)

ChannelInv ==
  /\ lock_ = NoThread => Quiet
  /\ failed = "no" => \A t \in Threads : lock_ = t => BurstPhase(t)
  /\ failed # "no" => a = <<>>

DenyInv == ~MayDeny => ~mgr.denied /\ \A k \in DOMAIN d : ~d[k].denied

IInv ==
  /\ TypeOK
  /\ MutexInv /\ CallInv /\ WalkInv /\ MgrInv /\ ChannelInv
  /\ DenyInv /\ AbortsExplained

(***************************************************************************)
(* What the refinement of ChunkedMem rests on besides IInv.  No chunk call *)
(* is open outside of a chunk, and a chunk of clear_chunk's loop writes    *)
(* zeros at the loop's cursor.                                             *)
(***************************************************************************)
FrameOK(t) ==
  /\ pc[t] \in {"idle", "clear"} => call[t].op = "none"
  /\ pc[t] = "walk" => walk[t].i = 0
  /\ pc[t] \in Working \cup {"lock"} /\ clear[t].remaining > 0 =>
       /\ call[t].op = "write" /\ call[t].src = ZeroBuffer
       /\ call[t].taddr = clear[t].curr

FrameInv == \A t \in Threads : FrameOK(t)

\* Beats of the finished bursts, and of the current one that are in memory.
Moved(t) == Beats(walk[t].curr - call[t].taddr)

Denied == mgr.denied \/ (d # <<>> /\ d[1].denied)

Landed(t) ==
  CASE Denied -> 0
    [] ~Denied /\ mgr.state = "put" -> mgr.count
    [] ~Denied /\ (mgr.state = "ack" \/ (mgr.state = "idle" /\ d # <<>>)) ->
         NumBeats(t)
    [] OTHER -> 0

CallBeat(t, k) == mem[Beats(call[t].taddr) + k]

WriteData(t) ==
  /\ \A k \in BufferIndex :
       k < Moved(t) + Landed(t) => CallBeat(t, k) = call[t].src[k]
  /\ \A k \in DOMAIN a : a[k].data = call[t].src[Offset(t) - Len(a) + k - 1]

ReadData(t) ==
  /\ \A k \in BufferIndex : k < Offset(t) => dst[t][k] = CallBeat(t, k)
  /\ \A k \in DOMAIN d : d[k].data = CallBeat(t, Offset(t) + k - 1)

CallData(t) == IF call[t].op = "write" THEN WriteData(t) ELSE ReadData(t)

(***************************************************************************)
(* Every beat of the call in progress is the right one, wherever it is: a  *)
(* beat on the A channel is the caller's beat of that position, the beats  *)
(* the manager has taken are in memory at their addresses, and a beat on   *)
(* the D channel or in the destination buffer is what memory holds at its  *)
(* address.  The beats of a burst carry no position of their own, only the *)
(* order of both channels and dst_ptr / src_ptr do (memifc.hpp:71-102).    *)
(***************************************************************************)
DataInv == failed = "no" => \A t \in Threads : lock_ = t => CallData(t)

(***************************************************************************)
(* A call that holds the mutex gives it back, unless the client aborts:    *)
(* neither channel's capacity can wedge the send-then-receive loops.       *)
(***************************************************************************)
HolderReturns ==
  \A t \in Threads : lock_ = t ~> lock_ # t \/ failed # "no"

(***************************************************************************)
(* A response with denied = 1 is never dropped or accepted in silence: the *)
(* client stops on it.                                                     *)
(***************************************************************************)
DenialStops == mgr.denied ~> failed = "denied"

(***************************************************************************)
(* What memifc.hpp:109-112 says of clear_chunk: it writes one beat-sized   *)
(* zero block at a time, and asks for a beat-aligned address and a         *)
(* multiple of chunk_align() bytes only.  Such a call is never aborted for *)
(* the size of a block.                                                    *)
(***************************************************************************)
ClearIsServed == failed # "range"

(***************************************************************************)
(* The interface implements ChunkedMem.  A write takes effect for the      *)
(* other callers when its thread gets the mutex, a read when its last beat *)
(* arrives, and a clear one write_chunk at a time.                         *)
(***************************************************************************)
Clears(t) == pc[t] = "clear" \/ clear[t].remaining > 0

Performed(t) ==
  IF pc[t] \in {"walk", "send", "recv"} THEN call[t].nbytes ELSE 0

AbsMem ==
  [k \in MemIndex |->
     IF /\ lock_ \in Threads
        /\ call[lock_].op = "write"
        /\ k - Beats(call[lock_].taddr) \in 0 .. Beats(call[lock_].nbytes) - 1
     THEN call[lock_].src[k - Beats(call[lock_].taddr)]
     ELSE mem[k]]

AbsRequest(t) ==
  LET first == Beats(call[t].taddr)
      n == Beats(call[t].nbytes)
      left == Beats(clear[t].remaining - Performed(t))
  IN  CASE Clears(t) /\ left > 0 ->
             [kind |-> "clear",
              first |-> Beats(clear[t].curr + Performed(t)), n |-> left]
        [] Clears(t) /\ left = 0 -> [kind |-> "done"]
        [] pc[t] = "idle" -> [kind |-> "idle"]
        [] ~Clears(t) /\ call[t].op = "write" ->
             IF lock_ = t THEN [kind |-> "done"]
             ELSE [kind |-> "write", first |-> first, n |-> n,
                   src |-> call[t].src]
        [] call[t].op = "read" ->
             IF pc[t] = "walk" /\ walk[t].remaining = 0
             THEN [kind |-> "answer", bytes |-> [k \in 0 .. n - 1 |-> dst[t][k]]]
             ELSE [kind |-> "read", first |-> first, n |-> n]

Contract == INSTANCE ChunkedMem WITH
  MemBeats <- Beats(MemBytes), MaxBeats <- Beats(MaxTransferBytes),
  amem <- AbsMem,
  req <- [t \in Threads |-> AbsRequest(t)]

ImplementsContract == Contract!Spec

=============================================================================
