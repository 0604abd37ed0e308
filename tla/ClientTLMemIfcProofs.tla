------------------------ MODULE ClientTLMemIfcProofs ------------------------
(***************************************************************************)
(* Proofs about ClientTLMemIfc for any threads, memory, channel capacities *)
(* and bus parameters.  IInv is inductive; every safety invariant that TLC *)
(* checks follows from it.  Each conjunct of IInv has a lemma of its own.  *)
(***************************************************************************)
EXTENDS ClientTLMemIfc, TLAPS

-----------------------------------------------------------------------------
(***************************************************************************)
(* The address arithmetic of memifc.hpp, for every bus width and transfer  *)
(* size the bundle parameters allow.                                       *)
(***************************************************************************)

\* floor_pow2 returns a power of two within a factor of two of its argument.
LEMMA FloorPow2Bounds ==
  \A n \in 1 .. LargestSize :
    FloorPow2(n) \in Sizes /\ FloorPow2(n) <= n /\ n < 2 * FloorPow2(n)
<1> SUFFICES ASSUME NEW n \in 1 .. LargestSize
             PROVE  FloorPow2(n) \in Sizes /\ FloorPow2(n) <= n
                    /\ n < 2 * FloorPow2(n)
  OBVIOUS
<1>1. \E p \in Sizes : p <= n /\ n < 2 * p
  BY DEF Sizes, LargestSize
<1> QED  BY <1>1 DEF FloorPow2

\* A nonempty set of transfer sizes has a largest element.
LEMMA LargestOfSizes ==
  ASSUME NEW S, S \subseteq Sizes, S # {}
  PROVE  Max(S) \in S /\ \A p \in S : p <= Max(S)
<1>1. \E m \in S : \A p \in S : m >= p
  <2> SUFFICES ASSUME \A m \in S : \E p \in S : ~(m >= p)
               PROVE  FALSE
    OBVIOUS
  <2>1. LargestSize \notin S /\ 2048 \notin S  BY DEF Sizes, LargestSize
  <2>2. 1024 \notin S /\ 512 \notin S  BY <2>1 DEF Sizes, LargestSize
  <2>3. 256 \notin S /\ 128 \notin S  BY <2>1, <2>2 DEF Sizes, LargestSize
  <2>4. 64 \notin S /\ 32 \notin S  BY <2>1, <2>2, <2>3 DEF Sizes, LargestSize
  <2>5. 16 \notin S /\ 8 \notin S  BY <2>1, <2>2, <2>3, <2>4 DEF Sizes, LargestSize
  <2>6. 4 \notin S /\ 2 \notin S  BY <2>1, <2>2, <2>3, <2>4, <2>5 DEF Sizes, LargestSize
  <2>7. 1 \notin S
    BY <2>1, <2>2, <2>3, <2>4, <2>5, <2>6 DEF Sizes, LargestSize
  <2>8. \A m \in Sizes : m \notin S
    BY <2>1, <2>2, <2>3, <2>4, <2>5, <2>6, <2>7 DEF Sizes, LargestSize
  <2> QED  BY <2>8
<1>2. \A p \in S : p \in Int
  BY DEF Sizes, LargestSize
<1> QED  BY <1>1, <1>2 DEF Max

\* A beat is one of the sizes, and divides every size that is not smaller.
LEMMA BeatDividesSizes ==
  /\ BeatBytes \in Sizes /\ BeatBytes \in 1 .. 32
  /\ \A p \in Sizes : p >= BeatBytes => Aligned(p)
BY BundleAssumption DEF BeatSizes, Sizes, LargestSize, Aligned

(***************************************************************************)
(* On a nonempty range of whole beats, the next chunk of the walk is a     *)
(* power of two, at least one beat and at most what remains, and its base  *)
(* is a multiple of its size: what validate_len_addr and the assert after  *)
(* it demand of every burst.                                               *)
(***************************************************************************)
THEOREM ChunkIsLegalBurst ==
  ASSUME NEW curr \in Nat, NEW remaining \in 1 .. LargestSize,
         Aligned(curr), Aligned(remaining)
  PROVE  LET chunk == AlignedChunk(curr, remaining)
         IN  /\ chunk \in Sizes /\ chunk \in BeatBytes .. remaining
             /\ curr % chunk = 0 /\ Aligned(chunk)
<1> DEFINE f == FloorPow2(remaining)
           S == {p \in Sizes : p <= f /\ curr % p = 0}
           chunk == Max(S)
<1>1. f \in Sizes /\ f <= remaining /\ remaining < 2 * f
  BY FloorPow2Bounds
<1> HIDE DEF f
<1>2. BeatBytes <= remaining
  BY BundleAssumption DEF BeatSizes, Aligned, LargestSize
<1>3. BeatBytes <= f
  BY <1>1, <1>2, BeatDividesSizes DEF Sizes, LargestSize
<1>4. BeatBytes \in S
  BY <1>3, BeatDividesSizes DEF Aligned
<1>5. S \subseteq Sizes
  OBVIOUS
<1>6. chunk \in S /\ \A p \in S : p <= chunk
  <2> HIDE DEF S
  <2> QED  BY <1>4, <1>5, LargestOfSizes
<1>7. chunk \in Sizes /\ BeatBytes <= chunk /\ chunk <= f /\ curr % chunk = 0
  <2> HIDE DEF chunk
  <2> QED  BY <1>4, <1>6
<1>8. chunk \in BeatBytes .. remaining
  <2> HIDE DEF chunk
  <2> QED  BY <1>1, <1>7, BeatDividesSizes DEF Sizes, LargestSize
<1>9. Aligned(chunk)
  <2> HIDE DEF chunk
  <2> QED  BY <1>7, BeatDividesSizes DEF Sizes, LargestSize
<1>10. chunk = AlignedChunk(curr, remaining)
  BY DEF AlignedChunk, f
<1> QED  BY <1>7, <1>8, <1>9, <1>10

\* Moving a beat-aligned address by whole beats keeps it aligned.
LEMMA AlignedSteps ==
  ASSUME NEW x \in Nat, NEW n \in Nat, Aligned(x), Aligned(n)
  PROVE  Aligned(x + n) /\ (n <= x => Aligned(x - n))
BY BundleAssumption DEF BeatSizes, Aligned, LargestSize

-----------------------------------------------------------------------------
(***************************************************************************)
(* Arithmetic of beats.                                                    *)
(***************************************************************************)

\* A burst of at least one beat has at least one beat.
LEMMA BeatsOfBurst ==
  ASSUME NEW len \in Sizes, len >= BeatBytes
  PROVE  Beats(len) \in Nat /\ Beats(len) >= 1 /\ Aligned(len)
<1>1. Aligned(len)
  BY BeatDividesSizes
<1>2. len \in Nat
  BY DEF Sizes, LargestSize
<1> QED  BY <1>1, <1>2, BundleAssumption DEF BeatSizes, Beats

\* Beat i of a burst at offset x is a beat of the buffer that holds them.
LEMMA BeatIndex ==
  ASSUME NEW x \in Nat, NEW len \in Nat, NEW total \in Nat, NEW i \in Nat,
         Aligned(x), Aligned(len), x + len <= total, i < Beats(len)
  PROVE  Beats(x) + i \in 0 .. Beats(total) - 1
BY BundleAssumption DEF BeatSizes, Beats, Aligned

\* Aligned addresses differ by whole beats, and a nonzero one has at least one.
LEMMA AlignedPositive ==
  ASSUME NEW n \in Nat, Aligned(n), n > 0
  PROVE  n >= BeatBytes
BY BundleAssumption DEF BeatSizes, Aligned

\* std::min of clear_chunk.
LEMMA MinOfTwo ==
  ASSUME NEW x \in Nat, NEW y \in Nat
  PROVE  Min({x, y}) = IF x <= y THEN x ELSE y
BY DEF Min

\* The parameters are numbers.
LEMMA Params ==
  /\ BeatBytes \in Nat /\ BeatBytes > 0
  /\ MaxTransferBytes \in Nat /\ Aligned(0)
  /\ MaxTransferBytes <= LargestSize /\ LargestSize \in Nat
  /\ MemBytes \in Nat /\ Aligned(MemBytes)
  /\ Sizes \subseteq Nat /\ BeatBytes \in Sizes
BY BundleAssumption, InterfaceAssumption
   DEF BeatSizes, Sizes, LargestSize, Aligned

-----------------------------------------------------------------------------
\* Sequences: what receiving one message leaves.
LEMMA TailFacts ==
  ASSUME NEW S, NEW s \in Seq(S), s # <<>>
  PROVE  /\ Head(s) = s[1] /\ Head(s) \in S /\ 1 \in DOMAIN s
         /\ Tail(s) \in Seq(S) /\ Len(Tail(s)) = Len(s) - 1 /\ Len(s) \in Nat
         /\ Len(s) >= 1
         /\ \A k \in DOMAIN Tail(s) : k + 1 \in DOMAIN s /\ Tail(s)[k] = s[k + 1]
OBVIOUS

\* What sending one message adds.
LEMMA AppendFacts ==
  ASSUME NEW S, NEW s \in Seq(S), NEW e \in S
  PROVE  /\ Append(s, e) \in Seq(S) /\ Len(Append(s, e)) = Len(s) + 1
         /\ Len(s) \in Nat
         /\ \A k \in DOMAIN Append(s, e) :
              Append(s, e)[k] = IF k \in DOMAIN s THEN s[k] ELSE e
OBVIOUS

LEMMA EmptySeq ==
  ASSUME NEW S, NEW s \in Seq(S)
  PROVE  s = <<>> <=> Len(s) = 0
OBVIOUS

-----------------------------------------------------------------------------
(***************************************************************************)
(* The initial states.                                                     *)
(***************************************************************************)
LEMMA InitInv == Init => IInv
<1> SUFFICES ASSUME Init PROVE IInv
  OBVIOUS
<1> USE Params, InterfaceAssumption
<1>1. TypeOK
  <2>1. ZeroBuffer \in Buffer /\ BlankBuffer \in [BufferIndex -> Data \cup {Blank}]
    BY DEF ZeroBuffer, BlankBuffer, Buffer
  <2>2. NoWalk \in [curr : Addresses, remaining : Addresses, len : Sizes, i : Nat]
    BY DEF NoWalk, WalkOver, Addresses
  <2>3. Idle \in [state : {"idle", "get", "put", "ack"}, address : Addresses,
                  size : Sizes, count : Nat, denied : BOOLEAN]
    BY DEF Idle, Addresses
  <2> QED  BY <2>1, <2>2, <2>3 DEF Init, TypeOK, NoCall, NoClear, Addresses
<1>2. MutexInv
  BY DEF Init, MutexInv, Working
<1>3. CallInv
  BY DEF Init, CallInv, CallOK, Working, NoClear, InMemory
<1>4. WalkInv
  BY DEF Init, WalkInv, WalkOK, Working
<1>5. MgrInv
  BY DEF Init, MgrInv, Idle
<1>6. ChannelInv
  BY DEF Init, ChannelInv, Quiet
<1>7. DenyInv
  BY DEF Init, DenyInv, Idle
<1> QED  BY <1>1, <1>2, <1>3, <1>4, <1>5, <1>6, <1>7 DEF IInv, AbortsExplained, Init

\* The types of a thread's variables, field by field.
LEMMA Locals ==
  ASSUME TypeOK, NEW t \in Threads
  PROVE  /\ call[t].op \in {"none", "read", "write"}
         /\ call[t].taddr \in 0 .. MemBytes /\ call[t].nbytes \in 0 .. MemBytes
         /\ call[t].src \in Buffer
         /\ clear[t].curr \in 0 .. MemBytes
         /\ clear[t].remaining \in 0 .. MemBytes
         /\ walk[t].curr \in 0 .. MemBytes
         /\ walk[t].remaining \in 0 .. MemBytes
         /\ walk[t].len \in Sizes /\ walk[t].i \in Nat
<1>1. /\ call[t] \in [op : {"none", "read", "write"}, taddr : Addresses,
                      nbytes : Addresses, src : Buffer]
      /\ clear[t] \in [curr : Addresses, remaining : Addresses]
      /\ walk[t] \in [curr : Addresses, remaining : Addresses, len : Sizes,
                      i : Nat]
  BY DEF TypeOK
<1> QED  BY <1>1 DEF Addresses

\* The same, as numbers.
LEMMA Numbers ==
  ASSUME TypeOK, NEW t \in Threads
  PROVE  /\ call[t].taddr \in Nat /\ call[t].nbytes \in Nat
         /\ clear[t].curr \in Nat /\ clear[t].remaining \in Nat
         /\ walk[t].curr \in Nat /\ walk[t].remaining \in Nat
         /\ walk[t].len \in Nat /\ walk[t].len \in Sizes /\ walk[t].i \in Nat
<1>1. 0 .. MemBytes \subseteq Nat
  BY Params
<1>2. Sizes \subseteq Nat
  BY Params
<1> QED  BY <1>1, <1>2, Locals, Zenon

\* A call that is past the mutex has passed the asserts of its chunk.
LEMMA HeldChunk ==
  ASSUME IInv, NEW t \in Threads, pc[t] \in Working
  PROVE  /\ call[t].op \in {"read", "write"}
         /\ Aligned(call[t].taddr) /\ Aligned(call[t].nbytes)
         /\ call[t].nbytes >= BeatBytes /\ call[t].nbytes <= MaxTransferBytes
         /\ call[t].taddr + call[t].nbytes <= MemBytes
         /\ clear[t].remaining > 0 => call[t].nbytes <= clear[t].remaining
<1>1. CallOK(t) /\ pc[t] # "lock"
  BY DEF IInv, CallInv, Working
<1>2. ChunkAsserts(call[t])
  BY <1>1 DEF CallOK, RejectedBlock
<1> QED  BY <1>1, <1>2 DEF CallOK, ChunkAsserts, WholeBeats

\* An assert that fails under the mutex leaves all but the abort as it was.
LEMMA RejectedLock ==
  ASSUME NEW t, Lock(t), ~ChunkAsserts(call[t])
  PROVE  /\ failed' = "range" /\ lock_ = NoThread
         /\ UNCHANGED <<lock_, pc, call, clear, walk, dst, a, d, mgr, mem>>
BY DEF Lock, Abort, MutexFree, device

(***************************************************************************)
(* The mutex: whoever is past Lock holds it.                               *)
(***************************************************************************)
LEMMA MutexStep == IInv /\ [Next]_vars => MutexInv'
<1> SUFFICES ASSUME IInv, [Next]_vars PROVE MutexInv'
  OBVIOUS
<1> USE InterfaceAssumption DEF IInv, TypeOK, MutexInv, Working, Goto
<1>1. ASSUME NEW t \in Threads, Invoke(t) PROVE MutexInv'
  BY <1>1 DEF Invoke, ReadChunk, WriteChunk, ClearChunk, EnterChunk
<1>2. ASSUME NEW t \in Threads, ClearBlock(t) \/ ClearReturn(t) PROVE MutexInv'
  BY <1>2 DEF ClearBlock, ClearReturn, EnterChunk
<1>3. ASSUME NEW t \in Threads, failed = "no", Lock(t) PROVE MutexInv'
  <2>1. CASE ChunkAsserts(call[t])
    BY <1>3, <2>1 DEF Lock, MutexFree
  <2>2. CASE ~ChunkAsserts(call[t])
    BY <1>3, <2>2, RejectedLock
  <2> QED  BY <2>1, <2>2
<1>4. ASSUME NEW t \in Threads, NextBurst(t) PROVE MutexInv'
  BY <1>4 DEF NextBurst, Abort
<1>5. ASSUME NEW t \in Threads, SendGet(t) \/ SendPut(t) PROVE MutexInv'
  BY <1>5 DEF SendGet, SendPut, frames
<1>6. ASSUME NEW t \in Threads, RecvData(t) PROVE MutexInv'
  BY <1>6 DEF RecvData, Advance, ResponseAborts, Abort
<1>7. ASSUME NEW t \in Threads, RecvAck(t) PROVE MutexInv'
  BY <1>7 DEF RecvAck, Advance, ResponseAborts, Abort
<1>8. ASSUME NEW t \in Threads, Unlock(t) PROVE MutexInv'
  <2>1. /\ lock_ = t /\ lock_' = NoThread
        /\ pc' = [pc EXCEPT ![t] = pc'[t]] /\ pc'[t] \notin {"walk", "send", "recv"}
    BY <1>8 DEF Unlock
  <2> QED  BY <2>1
<1>9. ASSUME Manager PROVE MutexInv'
  BY <1>9 DEF Manager, MgrTakeRequest, MgrTakeBeat, MgrAck, MgrSendData
<1>10. ASSUME UNCHANGED vars PROVE MutexInv'
  BY <1>10 DEF vars
<1> QED
  BY <1>1, <1>2, <1>3, <1>4, <1>5, <1>6, <1>7, <1>8, <1>9, <1>10
     DEF Next, InCall

(***************************************************************************)
(* What aborts: the asserts on bursts hold, the opcode of a response is    *)
(* the one its receiver expects, and a chunk is rejected for its size only *)
(* if clear_chunk cut it.                                                  *)
(***************************************************************************)

\* The burst of the next turn of for_aligned_chunks.
LEMMA NextBurstFacts ==
  ASSUME IInv, NEW t \in Threads, NextBurst(t)
  PROVE  LET chunk == AlignedChunk(walk[t].curr, walk[t].remaining)
         IN  /\ BurstAsserts(walk[t].curr, chunk)
             /\ chunk <= walk[t].remaining
             /\ walk' = [walk EXCEPT ![t].len = chunk, ![t].i = 0]
             /\ pc' = [pc EXCEPT ![t] = "send"]
             /\ UNCHANGED <<dst, failed>>
<1> DEFINE chunk == AlignedChunk(walk[t].curr, walk[t].remaining)
<1>1. /\ walk[t].curr \in Nat /\ walk[t].remaining \in Nat
      /\ call[t].taddr \in Nat /\ call[t].nbytes \in Nat
  BY Numbers DEF IInv
<1>2. /\ Aligned(walk[t].curr) /\ Aligned(walk[t].remaining)
      /\ walk[t].remaining > 0 /\ walk[t].remaining <= call[t].nbytes
  <2>1. WalkOK(t) /\ pc[t] = "walk" /\ walk[t].remaining > 0
    BY DEF NextBurst, IInv, WalkInv
  <2>2. /\ Aligned(walk[t].curr) /\ Aligned(walk[t].remaining)
        /\ call[t].taddr <= walk[t].curr
        /\ walk[t].curr + walk[t].remaining = call[t].taddr + call[t].nbytes
    BY <2>1 DEF WalkOK, Working
  <2> QED  BY <1>1, <2>1, <2>2
<1>3. call[t].nbytes <= MaxTransferBytes
  BY HeldChunk DEF NextBurst, Working
<1>4. walk[t].remaining \in 1 .. LargestSize
  BY <1>1, <1>2, <1>3, Params
<1>5. /\ chunk \in Sizes /\ chunk \in BeatBytes .. walk[t].remaining
      /\ walk[t].curr % chunk = 0
  BY <1>1, <1>2, <1>4, ChunkIsLegalBurst
<1> HIDE DEF chunk
<1>6. BurstAsserts(walk[t].curr, chunk) /\ chunk <= walk[t].remaining
  BY <1>1, <1>2, <1>3, <1>5, Params DEF BurstAsserts
<1> QED  BY <1>6 DEF NextBurst, chunk, Goto

\* A thread in its receive loop finds the beats of its own burst on D.
LEMMA DataForReader ==
  ASSUME IInv, failed = "no", NEW t \in Threads,
         pc[t] = "recv", call[t].op = "read", d # <<>>
  PROVE  /\ Answering(t) /\ lock_ = t
         /\ Head(d).opcode = "AccessAckData" /\ Head(d).data \in Data
<1>1. lock_ = t
  BY DEF IInv, MutexInv, Working
<1>2. Asked(t) \/ Answering(t)
  BY <1>1 DEF IInv, ChannelInv, BurstPhase
<1>3. Answering(t)
  BY <1>2 DEF Asked
<1>4. d \in Seq(DMessages)
  BY DEF IInv, TypeOK
<1> QED  BY <1>1, <1>3, <1>4, TailFacts DEF Answering

LEMMA AckForWriter ==
  ASSUME IInv, failed = "no", NEW t \in Threads,
         pc[t] = "recv", call[t].op = "write", d # <<>>
  PROVE  /\ Acknowledged /\ lock_ = t
         /\ Head(d).opcode = "AccessAck"
         /\ Tail(d) = <<>>
<1>1. lock_ = t
  BY DEF IInv, MutexInv, Working
<1>2. Collecting(t) \/ Acknowledging \/ Acknowledged
  BY <1>1 DEF IInv, ChannelInv, BurstPhase
<1>3. Acknowledged
  BY <1>2 DEF Collecting, Acknowledging
<1>4. d \in Seq(DMessages)
  BY DEF IInv, TypeOK
<1>5. Tail(d) \in Seq(DMessages) /\ Len(Tail(d)) = 0
  BY <1>3, <1>4, TailFacts DEF Acknowledged
<1> QED  BY <1>1, <1>3, <1>4, <1>5, TailFacts, EmptySeq DEF Acknowledged

\* The state of a D message's denied flag.
LEMMA HeadNotDenied ==
  ASSUME IInv, d # <<>>, ~MayDeny
  PROVE  ~Head(d).denied
<1>1. d \in Seq(DMessages) BY DEF IInv, TypeOK
<1> QED  BY <1>1, TailFacts DEF IInv, DenyInv

\* write_chunk's asserts reject nothing but a block of clear_chunk.
LEMMA AbortStep == IInv /\ [Next]_vars => AbortsExplained'
<1> SUFFICES ASSUME IInv, [Next]_vars PROVE AbortsExplained'
  OBVIOUS
<1>1. ASSUME UNCHANGED failed, failed = "no" PROVE AbortsExplained'
  BY <1>1 DEF AbortsExplained
<1>2. ASSUME UNCHANGED <<failed, pc, call, clear>> PROVE AbortsExplained'
  BY <1>2 DEF IInv, AbortsExplained, RejectedBlock
<1>3. ASSUME NEW t \in Threads, failed = "no", Lock(t) PROVE AbortsExplained'
  <2>1. CASE ChunkAsserts(call[t])
    BY <1>1, <1>3, <2>1 DEF Lock
  <2>2. CASE ~ChunkAsserts(call[t])
    <3>1. RejectedBlock(t)
      BY <1>3, <2>2 DEF Lock, IInv, CallInv, CallOK
    <3>2. failed' = "range" /\ UNCHANGED <<pc, call, clear>>
      BY <1>3, <2>2 DEF Lock, Abort
    <3>3. RejectedBlock(t)'
      BY <3>1, <3>2 DEF RejectedBlock
    <3> QED  BY <3>2, <3>3 DEF AbortsExplained
  <2> QED  BY <2>1, <2>2
<1>4. ASSUME NEW t \in Threads, failed = "no", NextBurst(t)
      PROVE  AbortsExplained'
  BY <1>1, <1>4, NextBurstFacts
<1>5. ASSUME failed' = "denied", MayDeny PROVE AbortsExplained'
  BY <1>5 DEF AbortsExplained
<1>6. ASSUME NEW t \in Threads, failed = "no", RecvData(t)
      PROVE  AbortsExplained'
  <2>1. Head(d).opcode = "AccessAckData" /\ (~MayDeny => ~Head(d).denied)
    BY <1>6, DataForReader, HeadNotDenied DEF RecvData
  <2> QED  BY <1>1, <1>5, <1>6, <2>1 DEF RecvData, Accepted, ResponseAborts, Abort
<1>7. ASSUME NEW t \in Threads, failed = "no", RecvAck(t)
      PROVE  AbortsExplained'
  <2>1. Head(d).opcode = "AccessAck" /\ (~MayDeny => ~Head(d).denied)
    BY <1>7, AckForWriter, HeadNotDenied DEF RecvAck
  <2> QED  BY <1>1, <1>5, <1>7, <2>1 DEF RecvAck, Accepted, ResponseAborts, Abort
<1>8. ASSUME NEW t \in Threads, Invoke(t) PROVE UNCHANGED failed
  BY <1>8 DEF Invoke, ReadChunk, WriteChunk, ClearChunk
<1>9. ASSUME NEW t \in Threads,
             ClearBlock(t) \/ ClearReturn(t) \/ SendGet(t) \/ SendPut(t)
             \/ Unlock(t)
      PROVE  UNCHANGED failed
  BY <1>9 DEF ClearBlock, ClearReturn, SendGet, SendPut, Unlock
<1>10. ASSUME Manager PROVE UNCHANGED <<failed, pc, call, clear>>
  BY <1>10 DEF Manager, MgrTakeRequest, MgrTakeBeat, MgrAck, MgrSendData, frames
<1> QED
  BY <1>1, <1>2, <1>3, <1>4, <1>6, <1>7, <1>8, <1>9, <1>10 DEF Next, InCall, vars

\* An address aligned to its burst is aligned to the beat.
LEMMA AlignedToBurst ==
  ASSUME NEW x \in Nat, NEW len \in Sizes, len >= BeatBytes, x % len = 0
  PROVE  Aligned(x)
<1>1. CASE BeatBytes \in {1, 2}
  BY <1>1 DEF Sizes, LargestSize, Aligned
<1>2. CASE BeatBytes \in {4, 8}
  BY <1>2 DEF Sizes, LargestSize, Aligned
<1>3. CASE BeatBytes \in {16, 32}
  BY <1>3 DEF Sizes, LargestSize, Aligned
<1> QED  BY <1>1, <1>2, <1>3, BundleAssumption DEF BeatSizes

\* The beat the manager serves next is in its memory.
LEMMA MgrBeatInMemory ==
  ASSUME IInv, mgr.state \in {"get", "put"}
  PROVE  MgrBeat \in MemIndex /\ mem[MgrBeat] \in Data
<1>1. /\ mgr.address \in Nat /\ mgr.size \in Sizes /\ mgr.count \in Nat
      /\ mem \in [MemIndex -> Data]
  BY Params DEF IInv, TypeOK, Addresses
<1>2. /\ mgr.address % mgr.size = 0 /\ mgr.size >= BeatBytes
      /\ mgr.address + mgr.size <= MemBytes /\ mgr.count < Beats(mgr.size)
  BY DEF IInv, MgrInv, BurstAsserts
<1>3. Aligned(mgr.address) /\ Aligned(mgr.size) /\ mgr.size \in Nat
  BY <1>1, <1>2, AlignedToBurst, BeatsOfBurst, Params
<1>4. MgrBeat \in MemIndex
  BY <1>1, <1>2, <1>3, Params, BeatIndex DEF MgrBeat, MemIndex
<1> QED  BY <1>1, <1>4

\* A manager that may not deny never does.
LEMMA DenyStep == IInv /\ [Next]_vars => DenyInv'
<1> SUFFICES ASSUME IInv, [Next]_vars, ~MayDeny
             PROVE  (~mgr.denied)' /\ (\A k \in DOMAIN d : ~d[k].denied)'
  BY DEF DenyInv
<1> USE DEF IInv, TypeOK, DenyInv
<1>1. ASSUME NEW t \in Threads, Invoke(t) PROVE UNCHANGED <<mgr, d>>
  BY <1>1 DEF Invoke, ReadChunk, WriteChunk, ClearChunk, device
<1>2. ASSUME NEW t \in Threads,
             ClearBlock(t) \/ ClearReturn(t) \/ Lock(t) \/ NextBurst(t)
             \/ SendGet(t) \/ SendPut(t) \/ Unlock(t)
      PROVE  UNCHANGED <<mgr, d>>
  BY <1>2 DEF ClearBlock, ClearReturn, Lock, NextBurst, SendGet, SendPut,
              Unlock, device
<1>3. ASSUME NEW t \in Threads, RecvData(t) \/ RecvAck(t)
      PROVE  UNCHANGED mgr /\ d # <<>> /\ d' = Tail(d)
  BY <1>3 DEF RecvData, RecvAck, device
<1>4. ASSUME UNCHANGED mgr, d # <<>>, d' = Tail(d)
      PROVE  (~mgr.denied)' /\ (\A k \in DOMAIN d : ~d[k].denied)'
  BY <1>4, TailFacts
<1>5. ASSUME MgrTakeRequest
      PROVE  (~mgr.denied)' /\ (\A k \in DOMAIN d : ~d[k].denied)'
  BY <1>5 DEF MgrTakeRequest
<1>6. ASSUME MgrTakeBeat
      PROVE  (~mgr.denied)' /\ (\A k \in DOMAIN d : ~d[k].denied)'
  BY <1>6 DEF MgrTakeBeat
<1>7. ASSUME NEW m \in DMessages, ~m.denied, d' = Append(d, m)
      PROVE  (\A k \in DOMAIN d : ~d[k].denied)'
  BY <1>7, AppendFacts
<1>8. ASSUME MgrAck
      PROVE  (~mgr.denied)' /\ (\A k \in DOMAIN d : ~d[k].denied)'
  <2> DEFINE m == DMsg("AccessAck", Blank, mgr.denied)
  <2>1. m \in DMessages /\ ~m.denied
    BY DEF DMsg, DMessages
  <2> QED  BY <1>7, <1>8, <2>1 DEF MgrAck, Idle
<1>9. ASSUME MgrSendData
      PROVE  (~mgr.denied)' /\ (\A k \in DOMAIN d : ~d[k].denied)'
  <2> DEFINE m == DMsg("AccessAckData", mem[MgrBeat], mgr.denied)
  <2>1. m \in DMessages /\ ~m.denied
    BY <1>9, MgrBeatInMemory DEF MgrSendData, DMsg, DMessages
  <2> QED  BY <1>7, <1>9, <2>1 DEF MgrSendData, Idle
<1> QED
  BY <1>1, <1>2, <1>3, <1>4, <1>5, <1>6, <1>8, <1>9
     DEF Next, InCall, Manager, vars

-----------------------------------------------------------------------------
(***************************************************************************)
(* Calls: what a thread was called with stays legal.                       *)
(***************************************************************************)
LEMMA CallKept ==
  ASSUME NEW u, CallOK(u), UNCHANGED <<pc[u], call[u], clear[u]>>
  PROVE  CallOK(u)'
BY DEF CallOK, Working, ChunkAsserts, WholeBeats, RejectedBlock, InMemory

\* Moving within a call whose asserts have passed.
LEMMA CallMoves ==
  ASSUME NEW u, CallOK(u), UNCHANGED <<call[u], clear[u]>>,
         pc[u] \in Working \/ (pc[u] = "lock" /\ ChunkAsserts(call[u])),
         pc'[u] \in Working
  PROVE  CallOK(u)'
<1>1. ChunkAsserts(call[u])
  BY DEF CallOK, RejectedBlock, Working
<1>2. ChunkAsserts(call[u])'
  BY <1>1 DEF ChunkAsserts, WholeBeats, Aligned
<1>3. /\ call[u].op \in {"read", "write"} /\ Aligned(call[u].taddr)
      /\ call[u].taddr + call[u].nbytes <= MemBytes
      /\ clear[u].remaining > 0 => call[u].nbytes <= clear[u].remaining
      /\ InMemory(clear[u].curr, clear[u].remaining)
  BY DEF CallOK
<1> QED  BY <1>2, <1>3 DEF CallOK, Working, InMemory, Aligned

\* What is left of a range after its first n bytes.
LEMMA RestInMemory ==
  ASSUME NEW x \in Nat, NEW r \in Nat, NEW n \in Nat, n <= r, Aligned(n),
         InMemory(x, r)
  PROVE  InMemory(x + n, r - n)
<1>1. Aligned(x + n) /\ Aligned(r - n)
  BY AlignedSteps DEF InMemory
<1> QED  BY <1>1, Params DEF InMemory

LEMMA CallStep == IInv /\ [Next]_vars => CallInv'
<1> SUFFICES ASSUME IInv, [Next]_vars, NEW u \in Threads PROVE CallOK(u)'
  BY DEF CallInv
<1> DEFINE Rest(t) == \A v \in Threads \ {t} :
                        UNCHANGED <<pc[v], call[v], clear[v]>>
<1>0. CallOK(u)
  BY DEF IInv, CallInv
<1>a. ASSUME NEW t \in Threads, Rest(t), u = t => CallOK(u)'
      PROVE  CallOK(u)'
  BY <1>0, <1>a, CallKept
<1> USE DEF IInv, TypeOK, Goto
<1>1. ASSUME NEW t \in Threads, NEW op \in {"read", "write"},
             NEW addr \in Nat, NEW n \in Nat, NEW src,
             EnterChunk(t, op, addr, n, src), UNCHANGED clear,
             Aligned(addr), addr + n <= MemBytes, n <= MaxTransferBytes,
             \/ WholeBeats(n)
             \/ /\ clear[t].remaining > MaxTransferBytes
                /\ n = MaxTransferBytes /\ ~WholeBeats(MaxTransferBytes),
             clear[t].remaining > 0 => n <= clear[t].remaining
      PROVE  CallOK(u)'
  <2>1. Rest(t)
    BY <1>1 DEF EnterChunk
  <2>2. pc'[t] = "lock" /\ clear'[t] = clear[t]
        /\ call'[t] = [op |-> op, taddr |-> addr, nbytes |-> n, src |-> src]
    BY <1>1 DEF EnterChunk
  <2>3. Aligned(call'[t].taddr) /\ (WholeBeats(n) => ChunkAsserts(call[t])')
    BY <1>1, <2>2 DEF ChunkAsserts, WholeBeats, Aligned
  <2>4. ChunkAsserts(call[t])' \/ RejectedBlock(t)'
    BY <1>1, <2>2, <2>3 DEF RejectedBlock
  <2>5. u = t => InMemory(clear'[t].curr, clear'[t].remaining)
    BY <1>0, <2>2 DEF CallOK
  <2>6. u = t => CallOK(u)'
    BY <1>1, <2>2, <2>3, <2>4, <2>5 DEF CallOK, InMemory, Aligned, Working
  <2> QED  BY <1>a, <2>1, <2>6
<1>2. ASSUME NEW t \in Threads, ReadChunk(t) \/ WriteChunk(t) PROVE CallOK(u)'
  <2>1. clear[t].remaining = 0
    BY <1>2 DEF ReadChunk, WriteChunk, CallInv, CallOK
  <2>2. PICK op \in {"read", "write"}, addr \in 0 .. MemBytes,
             n \in BeatBytes .. MaxTransferBytes, src \in Buffers \cup {ZeroBuffer} :
          EnterChunk(t, op, addr, n, src) /\ InMemory(addr, n)
    BY <1>2 DEF ReadChunk, WriteChunk
  <2>3. /\ addr \in Nat /\ n \in Nat /\ n >= BeatBytes /\ n <= MaxTransferBytes
        /\ UNCHANGED clear /\ ~(clear[t].remaining > 0)
    BY <1>2, <2>1, Params DEF ReadChunk, WriteChunk
  <2>4. Aligned(addr) /\ addr + n <= MemBytes /\ WholeBeats(n)
    BY <2>2, <2>3 DEF InMemory, WholeBeats
  <2> QED  BY <1>1, <2>2, <2>3, <2>4
<1>3. ASSUME NEW t \in Threads, ClearChunk(t) PROVE CallOK(u)'
  <2>1. Rest(t)
    BY <1>3 DEF ClearChunk
  <2>2. pc'[t] = "clear" /\ InMemory(clear'[t].curr, clear'[t].remaining)
    BY <1>3 DEF ClearChunk
  <2> QED  BY <1>a, <2>1, <2>2 DEF CallOK, Working, InMemory
<1>4. ASSUME NEW t \in Threads, ClearBlock(t) PROVE CallOK(u)'
  <2> DEFINE n == Min({clear[t].remaining, MaxTransferBytes})
  <2>1. /\ clear[t].remaining \in Nat /\ clear[t].curr \in Nat
        /\ clear[t].remaining > 0
    BY <1>4, Locals, Params DEF ClearBlock
  <2>2. n = IF clear[t].remaining <= MaxTransferBytes THEN clear[t].remaining
                                                      ELSE MaxTransferBytes
    BY <2>1, Params, MinOfTwo
  <2> HIDE DEF n
  <2>3. InMemory(clear[t].curr, clear[t].remaining)
    BY DEF CallInv, CallOK
  <2>4. n \in Nat /\ n <= clear[t].remaining /\ n <= MaxTransferBytes
    BY <2>1, <2>2, Params
  <2>5. Aligned(clear[t].curr) /\ clear[t].curr + n <= MemBytes
    BY <2>1, <2>3, <2>4, Params DEF InMemory
  <2>6. WholeBeats(clear[t].remaining)
    BY <2>1, <2>3, AlignedPositive DEF InMemory, WholeBeats
  <2>7. \/ WholeBeats(n)
        \/ /\ clear[t].remaining > MaxTransferBytes
           /\ n = MaxTransferBytes /\ ~WholeBeats(MaxTransferBytes)
    <3>1. CASE clear[t].remaining <= MaxTransferBytes
      BY <2>2, <2>6, <3>1
    <3>2. CASE ~(clear[t].remaining <= MaxTransferBytes)
      BY <2>1, <2>2, <3>2, Params
    <3> QED  BY <3>1, <3>2
  <2> QED  BY <1>1, <1>4, <2>1, <2>4, <2>5, <2>7 DEF ClearBlock, n
<1>5. ASSUME NEW t \in Threads, ClearReturn(t) PROVE CallOK(u)'
  <2>1. Rest(t)
    BY <1>5 DEF ClearReturn
  <2>2. pc'[t] = "idle" /\ clear'[t].curr = 0 /\ clear'[t].remaining = 0
    BY <1>5 DEF ClearReturn, NoClear
  <2>3. InMemory(clear'[t].curr, clear'[t].remaining)
    BY <2>2, Params DEF InMemory
  <2> QED  BY <1>a, <2>1, <2>2, <2>3 DEF CallOK, Working, InMemory
<1>6. ASSUME NEW t \in Threads, UNCHANGED <<call, clear>>,
             pc[t] \in Working, pc'[t] \in Working,
             \A v \in Threads \ {t} : pc'[v] = pc[v]
      PROVE  CallOK(u)'
  <2>1. u = t => CallOK(u)'
    BY <1>0, <1>6, CallMoves
  <2> QED  BY <1>6, <1>a, <2>1
<1>7. ASSUME NEW t \in Threads, Lock(t) PROVE CallOK(u)'
  <2>1. CASE ChunkAsserts(call[t])
    <3>1. /\ pc[t] = "lock" /\ pc'[t] = "walk" /\ UNCHANGED <<call, clear>>
          /\ \A v \in Threads \ {t} : pc'[v] = pc[v]
      BY <1>7, <2>1 DEF Lock
    <3>2. u = t => CallOK(u)'
      BY <1>0, <2>1, <3>1, CallMoves DEF Working
    <3> QED  BY <1>a, <3>1, <3>2
  <2>2. CASE ~ChunkAsserts(call[t])
    BY <1>0, <1>7, <2>2, RejectedLock, CallKept
  <2> QED  BY <2>1, <2>2
<1>8. ASSUME NEW t \in Threads, NextBurst(t) PROVE CallOK(u)'
  BY <1>6, <1>8, NextBurstFacts DEF NextBurst, Working
<1>9. ASSUME NEW t \in Threads, SendGet(t) \/ SendPut(t) PROVE CallOK(u)'
  BY <1>6, <1>9 DEF SendGet, SendPut, frames, Working
<1>10. ASSUME NEW t \in Threads, RecvData(t) PROVE CallOK(u)'
  BY <1>6, <1>10 DEF RecvData, ResponseAborts, Abort, Advance, Working
<1>11. ASSUME NEW t \in Threads, RecvAck(t) PROVE CallOK(u)'
  BY <1>6, <1>11 DEF RecvAck, ResponseAborts, Abort, Advance, Working
<1>12. ASSUME NEW t \in Threads, Unlock(t) PROVE CallOK(u)'
  <2>1. Rest(t)
    BY <1>12 DEF Unlock
  <2>2. CASE clear[t].remaining > 0
    <3>1. /\ pc'[t] = "clear"
          /\ clear'[t].curr = clear[t].curr + call[t].nbytes
          /\ clear'[t].remaining = clear[t].remaining - call[t].nbytes
      BY <1>12, <2>2 DEF Unlock
    <3>2. /\ call[t].nbytes <= clear[t].remaining /\ Aligned(call[t].nbytes)
          /\ InMemory(clear[t].curr, clear[t].remaining)
      BY <1>12, <2>2, HeldChunk DEF Unlock, CallInv, CallOK, Working
    <3>3. /\ clear[t].curr \in Nat /\ clear[t].remaining \in Nat
          /\ call[t].nbytes \in Nat
      BY Locals, Params
    <3>4. InMemory(clear'[t].curr, clear'[t].remaining)
      BY <3>1, <3>2, <3>3, RestInMemory
    <3> QED  BY <1>a, <2>1, <3>1, <3>4 DEF CallOK, Working, InMemory
  <2>3. CASE ~(clear[t].remaining > 0)
    <3>1. clear[t].remaining \in Nat
      BY Locals, Params
    <3>2. clear[t].remaining = 0
      BY <2>3, <3>1
    <3>3. pc'[t] = "idle" /\ UNCHANGED clear
      BY <1>12, <2>3 DEF Unlock
    <3> QED  BY <1>0, <1>a, <2>1, <3>2, <3>3 DEF CallOK, Working, InMemory
  <2> QED  BY <2>2, <2>3
<1>13. ASSUME Manager PROVE CallOK(u)'
  BY <1>0, <1>13, CallKept
     DEF Manager, MgrTakeRequest, MgrTakeBeat, MgrAck, MgrSendData, frames
<1>14. ASSUME UNCHANGED vars PROVE CallOK(u)'
  BY <1>0, <1>14, CallKept DEF vars
<1> QED
  BY <1>2, <1>3, <1>4, <1>5, <1>7, <1>8, <1>9, <1>10, <1>11, <1>12, <1>13, <1>14
     DEF Next, Invoke, InCall

-----------------------------------------------------------------------------
(***************************************************************************)
(* The walk: curr and remaining stay inside the call, on whole beats.      *)
(***************************************************************************)
LEMMA WalkKept ==
  ASSUME NEW u, WalkOK(u), UNCHANGED <<pc[u], call[u], walk[u]>>
  PROVE  WalkOK(u)'
BY DEF WalkOK, Working, BurstAsserts, NumBeats, Beats

LEMMA NoWalkOK ==
  ASSUME NEW u, pc'[u] \notin Working
  PROVE  WalkOK(u)'
BY DEF WalkOK, Working

\* The fields of a thread's walk after a burst.
LEMMA AdvanceFacts ==
  ASSUME TypeOK, NEW t \in Threads, Advance(t)
  PROVE  /\ pc' = [pc EXCEPT ![t] = "walk"]
         /\ walk'[t].curr = walk[t].curr + walk[t].len
         /\ walk'[t].remaining = walk[t].remaining - walk[t].len
         /\ walk'[t].len = walk[t].len /\ walk'[t].i = 0
         /\ \A v \in Threads \ {t} : walk'[v] = walk[v]
<1>1. /\ walk \in [Threads -> [curr : Addresses, remaining : Addresses,
                               len : Sizes, i : Nat]]
  BY DEF TypeOK
<1> QED  BY <1>1 DEF Advance, Goto

\* A burst that fits is followed by a walk over what is left.
LEMMA AdvanceWalk ==
  ASSUME IInv, NEW t \in Threads, pc[t] = "recv", Advance(t), UNCHANGED call
  PROVE  WalkOK(t)'
<1>1. /\ walk[t].curr \in Nat /\ walk[t].remaining \in Nat
      /\ walk[t].len \in Nat /\ walk[t].len \in Sizes
      /\ call[t].taddr \in Nat /\ call[t].nbytes \in Nat
  BY Numbers DEF IInv
<1>2. /\ call[t].taddr <= walk[t].curr /\ walk[t].len <= walk[t].remaining
      /\ walk[t].curr + walk[t].remaining = call[t].taddr + call[t].nbytes
      /\ Aligned(walk[t].curr) /\ Aligned(walk[t].remaining)
      /\ walk[t].len >= BeatBytes
  BY DEF IInv, WalkInv, WalkOK, Working, BurstAsserts
<1>3. Aligned(walk[t].len)
  BY <1>1, <1>2, BeatsOfBurst
<1>4. /\ pc'[t] = "walk"
      /\ walk'[t].curr = walk[t].curr + walk[t].len
      /\ walk'[t].remaining = walk[t].remaining - walk[t].len
  BY AdvanceFacts DEF IInv, TypeOK
<1>5. Aligned(walk'[t].curr) /\ Aligned(walk'[t].remaining)
  BY <1>1, <1>2, <1>3, <1>4, AlignedSteps
<1>6. /\ call[t].taddr <= walk'[t].curr
      /\ walk'[t].curr + walk'[t].remaining = call[t].taddr + call[t].nbytes
  BY <1>1, <1>2, <1>4
<1> QED  BY <1>4, <1>5, <1>6 DEF WalkOK, Working

LEMMA WalkStep == IInv /\ [Next]_vars => WalkInv'
<1> SUFFICES ASSUME IInv, [Next]_vars, NEW u \in Threads PROVE WalkOK(u)'
  BY DEF WalkInv
<1> DEFINE Rest(t) == \A v \in Threads \ {t} :
                        UNCHANGED <<pc[v], call[v], walk[v]>>
<1>0. WalkOK(u)
  BY DEF IInv, WalkInv
<1>a. ASSUME NEW t \in Threads, Rest(t), u = t => WalkOK(u)'
      PROVE  WalkOK(u)'
  BY <1>0, <1>a, WalkKept
<1>b. TypeOK
  BY DEF IInv
<1> USE DEF TypeOK, Goto
<1>1. ASSUME NEW t \in Threads, Invoke(t) PROVE WalkOK(u)'
  <2>1. Rest(t) /\ pc'[t] \in {"lock", "clear"}
    BY <1>1, <1>b DEF Invoke, ReadChunk, WriteChunk, ClearChunk, EnterChunk
  <2> QED  BY <1>a, <2>1, NoWalkOK DEF Working
<1>2. ASSUME NEW t \in Threads, ClearBlock(t) \/ ClearReturn(t)
      PROVE  WalkOK(u)'
  <2>1. Rest(t) /\ pc'[t] \in {"lock", "idle"}
    BY <1>2, <1>b DEF ClearBlock, ClearReturn, EnterChunk
  <2> QED  BY <1>a, <2>1, NoWalkOK DEF Working
<1>3. ASSUME NEW t \in Threads, Lock(t) PROVE WalkOK(u)'
  <2>1. CASE ChunkAsserts(call[t])
    <3>1. Rest(t) /\ pc'[t] = "walk" /\ UNCHANGED call
      BY <1>3, <1>b, <2>1 DEF Lock
    <3>2. walk'[t].curr = call[t].taddr /\ walk'[t].remaining = call[t].nbytes
      BY <1>3, <1>b, <2>1 DEF Lock, WalkOver
    <3>3. call[t].taddr \in Nat /\ call[t].nbytes \in Nat
      BY <1>b, Locals, Params
    <3>4. WalkOK(t)'
      BY <2>1, <3>1, <3>2, <3>3
         DEF WalkOK, Working, ChunkAsserts, WholeBeats, Aligned
    <3> QED  BY <1>a, <3>1, <3>4
  <2>2. CASE ~ChunkAsserts(call[t])
    BY <1>0, <1>3, <2>2, RejectedLock, WalkKept
  <2> QED  BY <2>1, <2>2
<1>4. ASSUME NEW t \in Threads, NextBurst(t) PROVE WalkOK(u)'
  <2> DEFINE chunk == AlignedChunk(walk[t].curr, walk[t].remaining)
  <2>1. BurstAsserts(walk[t].curr, chunk) /\ chunk <= walk[t].remaining
        /\ walk' = [walk EXCEPT ![t].len = chunk, ![t].i = 0]
        /\ pc' = [pc EXCEPT ![t] = "send"] /\ UNCHANGED call
    BY <1>4, NextBurstFacts DEF NextBurst
  <2> HIDE DEF chunk
  <2>2. Rest(t) /\ pc'[t] = "send" /\ walk'[t].curr = walk[t].curr
        /\ walk'[t].remaining = walk[t].remaining
        /\ walk'[t].len = chunk /\ walk'[t].i = 0
    BY <1>b, <2>1
  <2>3. chunk \in Sizes /\ Beats(chunk) >= 1 /\ Beats(chunk) \in Nat
    BY <2>1, BeatsOfBurst DEF BurstAsserts
  <2>4. WalkOK(t)'
    BY <1>4, <2>1, <2>2, <2>3
       DEF NextBurst, IInv, WalkInv, WalkOK, Working, NumBeats, BurstAsserts, Beats
  <2> QED  BY <1>a, <2>2, <2>4
<1>5. ASSUME NEW t \in Threads, SendGet(t) PROVE WalkOK(u)'
  <2>1. Rest(t) /\ pc'[t] = "recv" /\ UNCHANGED <<call, walk>>
        /\ pc[t] = "send" /\ call[t].op = "read"
    BY <1>5, <1>b DEF SendGet, frames
  <2>2. WalkOK(t)'
    BY <2>1 DEF IInv, WalkInv, WalkOK, Working, NumBeats, Beats, BurstAsserts
  <2> QED  BY <1>a, <2>1, <2>2
<1>6. ASSUME NEW t \in Threads, SendPut(t) PROVE WalkOK(u)'
  <2>1. Rest(t) /\ UNCHANGED call /\ pc[t] = "send" /\ call[t].op = "write"
        /\ pc'[t] = IF LastBeat(t) THEN "recv" ELSE "send"
    BY <1>6, <1>b DEF SendPut
  <2>2. /\ walk'[t].curr = walk[t].curr /\ walk'[t].remaining = walk[t].remaining
        /\ walk'[t].len = walk[t].len /\ walk'[t].i = walk[t].i + 1
    BY <1>6, <1>b DEF SendPut
  <2>3. /\ BurstAsserts(walk[t].curr, walk[t].len)
        /\ walk[t].i < NumBeats(t) /\ walk[t].i \in Nat
    BY <2>1, <1>b, Locals DEF IInv, WalkInv, WalkOK
  <2>4. NumBeats(t) \in Nat /\ NumBeats(t)' = NumBeats(t)
    BY <2>2, <2>3, BeatsOfBurst DEF NumBeats, BurstAsserts, Beats
  <2>5. IF LastBeat(t) THEN walk'[t].i = NumBeats(t)' ELSE walk'[t].i < NumBeats(t)'
    BY <2>2, <2>3, <2>4 DEF LastBeat
  <2>6. WalkOK(t)'
    BY <2>1, <2>2, <2>3, <2>5 DEF IInv, WalkInv, WalkOK, Working, BurstAsserts
  <2> QED  BY <1>a, <2>1, <2>6
<1>7. ASSUME NEW t \in Threads, RecvData(t) PROVE WalkOK(u)'
  <2> USE <1>7 DEF RecvData
  <2>1. CASE ResponseAborts("AccessAckData")
    BY <1>0, <2>1, WalkKept DEF ResponseAborts, Abort
  <2>2. CASE Accepted("AccessAckData") /\ Advance(t)
    <3>1. Rest(t)
      BY <1>b, <2>2, AdvanceFacts
    <3> QED  BY <1>a, <2>2, <3>1, AdvanceWalk
  <2>3. CASE ~LastBeat(t) /\ walk' = [walk EXCEPT ![t].i = @ + 1] /\ UNCHANGED pc
    <3>1. Rest(t)
      BY <1>b, <2>3
    <3>2. /\ walk'[t].curr = walk[t].curr
          /\ walk'[t].remaining = walk[t].remaining
          /\ walk'[t].len = walk[t].len /\ walk'[t].i = walk[t].i + 1
      BY <1>b, <2>3
    <3>3. /\ BurstAsserts(walk[t].curr, walk[t].len)
          /\ walk[t].i < NumBeats(t) /\ walk[t].i \in Nat
      BY <1>b, Locals DEF IInv, WalkInv, WalkOK
    <3>4. NumBeats(t) \in Nat /\ NumBeats(t)' = NumBeats(t)
      BY <3>2, <3>3, BeatsOfBurst DEF NumBeats, BurstAsserts, Beats
    <3>5. walk'[t].i < NumBeats(t)'
      BY <2>3, <3>2, <3>3, <3>4 DEF LastBeat
    <3>6. WalkOK(t)'
      BY <2>3, <3>2, <3>3, <3>5 DEF IInv, WalkInv, WalkOK, Working, BurstAsserts
    <3> QED  BY <1>a, <3>1, <3>6
  <2> QED  BY <2>1, <2>2, <2>3
<1>8. ASSUME NEW t \in Threads, RecvAck(t) PROVE WalkOK(u)'
  <2> USE <1>8 DEF RecvAck
  <2>1. CASE ResponseAborts("AccessAck")
    BY <1>0, <2>1, WalkKept DEF ResponseAborts, Abort
  <2>2. CASE Accepted("AccessAck") /\ Advance(t)
    <3>1. Rest(t)
      BY <1>b, <2>2, AdvanceFacts
    <3> QED  BY <1>a, <2>2, <3>1, AdvanceWalk
  <2> QED  BY <2>1, <2>2
<1>9. ASSUME NEW t \in Threads, Unlock(t) PROVE WalkOK(u)'
  <2>1. Rest(t) /\ pc'[t] \in {"idle", "clear"}
    BY <1>9, <1>b DEF Unlock
  <2> QED  BY <1>a, <2>1, NoWalkOK DEF Working
<1>10. ASSUME Manager PROVE WalkOK(u)'
  BY <1>0, <1>10, WalkKept
     DEF Manager, MgrTakeRequest, MgrTakeBeat, MgrAck, MgrSendData, frames
<1>11. ASSUME UNCHANGED vars PROVE WalkOK(u)'
  BY <1>0, <1>11, WalkKept DEF vars
<1> QED
  BY <1>1, <1>2, <1>3, <1>4, <1>5, <1>6, <1>7, <1>8, <1>9, <1>10, <1>11
     DEF Next, InCall

-----------------------------------------------------------------------------
(***************************************************************************)
(* Types.                                                                  *)
(***************************************************************************)

\* A burst that is being sent or received lies in the memory.
LEMMA BurstInMemory ==
  ASSUME IInv, NEW t \in Threads, pc[t] \in {"send", "recv"}
  PROVE  /\ BurstAsserts(walk[t].curr, walk[t].len)
         /\ walk[t].len <= walk[t].remaining
         /\ walk[t].curr + walk[t].len <= call[t].taddr + call[t].nbytes
         /\ call[t].taddr <= walk[t].curr
         /\ call[t].taddr + call[t].nbytes <= MemBytes
         /\ call[t].nbytes <= MaxTransferBytes
<1>1. /\ walk[t].curr \in Nat /\ walk[t].remaining \in Nat
      /\ walk[t].len \in Nat /\ call[t].taddr \in Nat /\ call[t].nbytes \in Nat
  BY Numbers DEF IInv
<1>2. /\ BurstAsserts(walk[t].curr, walk[t].len)
      /\ walk[t].len <= walk[t].remaining /\ call[t].taddr <= walk[t].curr
      /\ walk[t].curr + walk[t].remaining = call[t].taddr + call[t].nbytes
  BY DEF IInv, WalkInv, WalkOK, Working
<1>3. call[t].taddr + call[t].nbytes <= MemBytes /\ call[t].nbytes <= MaxTransferBytes
  BY HeldChunk DEF Working
<1> QED  BY <1>1, <1>2, <1>3

\* The distance of two aligned addresses is aligned.
LEMMA AlignedSubtract ==
  ASSUME NEW x \in Nat, NEW y \in Nat, y <= x, Aligned(x), Aligned(y)
  PROVE  x - y \in Nat /\ Aligned(x - y)
BY AlignedSteps

\* While the manager collects a burst, A holds beats of a write.
LEMMA BeatOfPut ==
  ASSUME IInv, MgrTakeBeat
  PROVE  /\ failed = "no" /\ lock_ \in Threads
         /\ call[lock_].op = "write" /\ pc[lock_] \in {"send", "recv"}
         /\ Collecting(lock_) /\ a[1].data \in Data
<1>1. mgr.state = "put" /\ a # <<>> /\ a \in Seq(AMessages) /\ mgr # Idle
  BY DEF MgrTakeBeat, IInv, TypeOK, Idle
<1>2. failed = "no" /\ lock_ \in Threads
  BY <1>1 DEF IInv, ChannelInv, Quiet, TypeOK
<1>3. BurstPhase(lock_) /\ pc[lock_] \in {"walk", "send", "recv"}
  BY <1>2 DEF IInv, ChannelInv, MutexInv, Working
<1>4. pc[lock_] # "walk"
  BY <1>1, <1>3 DEF BurstPhase, Quiet
<1>5. call[lock_].op = "write"
  BY <1>1, <1>3, <1>4 DEF BurstPhase, Quiet, Asked, Answering
<1>6. Collecting(lock_)
  BY <1>1, <1>3, <1>4, <1>5 DEF BurstPhase, Acknowledging, Acknowledged
<1>7. 1 \in DOMAIN a
  BY <1>1, TailFacts
<1> QED  BY <1>2, <1>3, <1>4, <1>5, <1>6, <1>7 DEF Collecting

\* The beat that write() sends is in the caller's buffer.
LEMMA OffsetInBuffer ==
  ASSUME IInv, NEW t \in Threads, pc[t] = "send", call[t].op = "write"
  PROVE  Offset(t) \in BufferIndex /\ call[t].src[Offset(t)] \in Data
<1>1. /\ walk[t].curr \in Nat /\ walk[t].i \in Nat
      /\ walk[t].len \in Nat /\ walk[t].len \in Sizes
      /\ call[t].taddr \in Nat /\ call[t].nbytes \in Nat
  BY Numbers DEF IInv
<1>2. /\ walk[t].len >= BeatBytes /\ call[t].nbytes <= MaxTransferBytes
      /\ walk[t].curr + walk[t].len <= call[t].taddr + call[t].nbytes
      /\ call[t].taddr <= walk[t].curr
  BY BurstInMemory DEF BurstAsserts
<1>3. /\ Aligned(walk[t].curr) /\ Aligned(call[t].taddr)
      /\ walk[t].i < Beats(walk[t].len)
  BY HeldChunk DEF IInv, WalkInv, WalkOK, Working, NumBeats
<1> DEFINE x == walk[t].curr - call[t].taddr
<1>4. x \in Nat /\ Aligned(x) /\ Aligned(walk[t].len)
      /\ x + walk[t].len <= MaxTransferBytes
  BY <1>1, <1>2, <1>3, AlignedSubtract, BeatsOfBurst, Params
<1>5. Beats(x) + walk[t].i \in 0 .. Beats(MaxTransferBytes) - 1
  <2> HIDE DEF x
  <2> QED  BY <1>1, <1>3, <1>4, BeatIndex, Params
<1>6. Offset(t) \in BufferIndex
  BY <1>5 DEF Offset, BufferIndex
<1>7. call[t].src \in Buffer
  BY Locals DEF IInv
<1> QED  BY <1>6, <1>7 DEF Buffer

(***************************************************************************)
(* Updates that keep the types of the records and tables they change.      *)
(***************************************************************************)
Calls == [op : {"none", "read", "write"}, taddr : Addresses,
          nbytes : Addresses, src : Buffer]
Ranges == [curr : Addresses, remaining : Addresses]
Walks == [curr : Addresses, remaining : Addresses, len : Sizes, i : Nat]
Requests == [state : {"idle", "get", "put", "ack"}, address : Addresses,
             size : Sizes, count : Nat, denied : BOOLEAN]

LEMMA WalkUpdates ==
  ASSUME NEW w \in [Threads -> Walks], NEW t \in Threads, NEW l \in Sizes
  PROVE  /\ [w EXCEPT ![t].len = l, ![t].i = 0] \in [Threads -> Walks]
         /\ [w EXCEPT ![t].i = @ + 1] \in [Threads -> Walks]
<1>1. [w EXCEPT ![t].len = l, ![t].i = 0] \in [Threads -> Walks]
  BY DEF Walks
<1>2. [w EXCEPT ![t].i = @ + 1] \in [Threads -> Walks]
  BY DEF Walks
<1> QED  BY <1>1, <1>2

LEMMA WalkMoves ==
  ASSUME NEW w \in [Threads -> Walks], NEW t \in Threads, NEW n,
         w[t].curr + n \in Addresses, w[t].remaining - n \in Addresses
  PROVE  [w EXCEPT ![t].curr = @ + n, ![t].remaining = @ - n, ![t].i = 0]
           \in [Threads -> Walks]
BY DEF Walks

LEMMA RangeMoves ==
  ASSUME NEW w \in [Threads -> Ranges], NEW t \in Threads, NEW n,
         w[t].curr + n \in Addresses, w[t].remaining - n \in Addresses
  PROVE  [w EXCEPT ![t].curr = @ + n, ![t].remaining = @ - n]
           \in [Threads -> Ranges]
BY DEF Ranges

LEMMA RequestUpdates ==
  ASSUME NEW m \in Requests
  PROVE  /\ [m EXCEPT !.state = "ack", !.count = 0] \in Requests
         /\ [m EXCEPT !.count = @ + 1] \in Requests
<1>1. [m EXCEPT !.state = "ack", !.count = 0] \in Requests
  BY DEF Requests
<1>2. [m EXCEPT !.count = @ + 1] \in Requests
  BY DEF Requests
<1> QED  BY <1>1, <1>2

LEMMA TableUpdate ==
  ASSUME NEW S, NEW T, NEW f \in [Threads -> [S -> T]], NEW t \in Threads,
         NEW k, NEW v \in T
  PROVE  [f EXCEPT ![t][k] = v] \in [Threads -> [S -> T]]
OBVIOUS

LEMMA TypeStep == IInv /\ [Next]_vars => TypeOK'
<1> SUFFICES ASSUME IInv, [Next]_vars PROVE TypeOK'
  OBVIOUS
<1>0. TypeOK
  BY DEF IInv
<1> USE <1>0, InterfaceAssumption DEF Goto
<1>m. MemBytes \in Nat /\ 0 \in Addresses
  BY Params DEF Addresses
<1>z. /\ ZeroBuffer \in Buffer /\ BlankBuffer \in [BufferIndex -> Data \cup {Blank}]
      /\ NoCall \in Calls /\ NoClear \in Ranges
      /\ NoWalk \in Walks
      /\ Idle \in Requests
  BY <1>m, Params
     DEF ZeroBuffer, BlankBuffer, Buffer, NoCall, NoClear, NoWalk, WalkOver, Idle,
         Calls, Ranges, Walks, Requests
<1>t. /\ pc \in [Threads -> {"idle", "clear", "lock", "walk", "send", "recv"}]
      /\ call \in [Threads -> Calls] /\ clear \in [Threads -> Ranges]
      /\ walk \in [Threads -> Walks]
      /\ dst \in [Threads -> [BufferIndex -> Data \cup {Blank}]]
      /\ mgr \in Requests
  BY DEF TypeOK, Calls, Ranges, Walks, Requests
<1>s. ASSUME lock_' \in Threads \cup {NoThread},
             (pc \in [Threads -> {"idle", "clear", "lock", "walk", "send", "recv"}])',
             call' \in [Threads -> Calls], clear' \in [Threads -> Ranges],
             walk' \in [Threads -> Walks],
             dst' \in [Threads -> [BufferIndex -> Data \cup {Blank}]],
             a' \in Seq(AMessages), Len(a') <= ACapacity,
             d' \in Seq(DMessages), Len(d') <= DCapacity,
             mgr' \in Requests, mem' \in [MemIndex -> Data],
             failed' \in {"no", "range", "burst", "opcode", "denied"}
      PROVE  TypeOK'
  BY <1>s DEF TypeOK, Calls, Ranges, Walks, Requests
<1>1. ASSUME NEW t \in Threads, NEW op \in {"read", "write"},
             NEW addr \in Addresses, NEW n \in Addresses, NEW src \in Buffer,
             EnterChunk(t, op, addr, n, src),
             UNCHANGED <<lock_, clear, walk, dst, a, d, device, failed>>
      PROVE  TypeOK'
  BY <1>1 DEF EnterChunk, TypeOK, device
<1>2. ASSUME NEW t \in Threads, ReadChunk(t) \/ WriteChunk(t) PROVE TypeOK'
  <2>1. PICK op \in {"read", "write"}, addr \in 0 .. MemBytes,
             n \in BeatBytes .. MaxTransferBytes, src \in Buffer :
               InMemory(addr, n) /\ EnterChunk(t, op, addr, n, src)
    BY <1>2, <1>z DEF ReadChunk, WriteChunk
  <2>2. addr \in Addresses /\ n \in Addresses
    BY <2>1, <1>m, Params DEF Addresses, InMemory
  <2> QED  BY <1>1, <1>2, <2>1, <2>2 DEF ReadChunk, WriteChunk
<1>3. ASSUME NEW t \in Threads, ClearChunk(t) PROVE TypeOK'
  <2>1. clear' \in [Threads -> Ranges]
    BY <1>3, <1>t DEF ClearChunk, Ranges, Addresses
  <2> QED  BY <1>3, <2>1, <1>t, <1>s DEF ClearChunk, TypeOK, device
<1>4. ASSUME NEW t \in Threads, ClearBlock(t) PROVE TypeOK'
  <2>1. /\ clear[t].curr \in Addresses /\ clear[t].remaining \in Addresses
        /\ clear[t].remaining \in Nat
    BY Locals, Numbers DEF Addresses
  <2>2. Min({clear[t].remaining, MaxTransferBytes}) \in Addresses
    BY <2>1, <1>m, MinOfTwo, Params DEF Addresses
  <2> QED  BY <1>1, <1>4, <1>z, <2>1, <2>2 DEF ClearBlock
<1>5. ASSUME NEW t \in Threads, ClearReturn(t) PROVE TypeOK'
  BY <1>5, <1>z DEF ClearReturn, TypeOK, Ranges, device
<1>6. ASSUME NEW t \in Threads, Lock(t) PROVE TypeOK'
  <2>1. CASE ChunkAsserts(call[t])
    <3>1. WalkOver(call[t].taddr, call[t].nbytes) \in Walks
      BY Locals, Params DEF WalkOver, Walks, Addresses
    <3>2. walk' \in [Threads -> Walks]
      BY <1>6, <1>t, <2>1, <3>1 DEF Lock
    <3>3. pc' \in [Threads -> {"idle", "clear", "lock", "walk", "send", "recv"}]
      BY <1>6, <1>t, <2>1 DEF Lock
    <3> QED  BY <1>6, <1>s, <1>t, <2>1, <3>2, <3>3 DEF Lock, TypeOK, device
  <2>2. CASE ~ChunkAsserts(call[t])
    BY <1>6, <2>2, RejectedLock DEF TypeOK
  <2> QED  BY <2>1, <2>2
<1>7. ASSUME NEW t \in Threads, NextBurst(t) PROVE TypeOK'
  <2>1. /\ AlignedChunk(walk[t].curr, walk[t].remaining) \in Sizes
        /\ walk' = [walk EXCEPT
                      ![t].len = AlignedChunk(walk[t].curr, walk[t].remaining),
                      ![t].i = 0]
        /\ pc' = [pc EXCEPT ![t] = "send"] /\ UNCHANGED <<dst, failed>>
    BY <1>7, NextBurstFacts DEF BurstAsserts
  <2>2. walk' \in [Threads -> Walks]
    BY <1>t, <2>1, WalkUpdates
  <2>3. pc' \in [Threads -> {"idle", "clear", "lock", "walk", "send", "recv"}]
    BY <1>t, <2>1
  <2> QED  BY <1>7, <1>s, <1>t, <2>1, <2>2, <2>3 DEF NextBurst, TypeOK, device
<1>8. ASSUME NEW t \in Threads, NEW m \in AMessages, RoomInA, a' = Append(a, m)
      PROVE  a' \in Seq(AMessages) /\ Len(a') <= ACapacity
  BY <1>8, AppendFacts DEF TypeOK, RoomInA
<1>9. ASSUME NEW t \in Threads, SendGet(t) PROVE TypeOK'
  <2>1. GetMsg(walk[t].curr, walk[t].len) \in AMessages
    BY Locals DEF GetMsg, AMessages, Addresses
  <2>2. a' \in Seq(AMessages) /\ Len(a') <= ACapacity
    BY <1>8, <1>9, <2>1 DEF SendGet
  <2>3. pc' \in [Threads -> {"idle", "clear", "lock", "walk", "send", "recv"}]
    BY <1>9, <1>t DEF SendGet
  <2> QED  BY <1>9, <1>s, <1>t, <2>2, <2>3 DEF SendGet, TypeOK, frames, device
<1>10. ASSUME NEW t \in Threads, SendPut(t) PROVE TypeOK'
  <2>1. PutMsg(walk[t].curr, walk[t].len, call[t].src[Offset(t)]) \in AMessages
    BY <1>10, Locals, OffsetInBuffer DEF SendPut, PutMsg, AMessages, Addresses
  <2>2. a' \in Seq(AMessages) /\ Len(a') <= ACapacity
    BY <1>8, <1>10, <2>1 DEF SendPut
  <2>3. walk' \in [Threads -> Walks]
    BY <1>10, <1>t, WalkUpdates, Locals DEF SendPut
  <2>4. pc' \in [Threads -> {"idle", "clear", "lock", "walk", "send", "recv"}]
    BY <1>10, <1>t DEF SendPut
  <2> QED  BY <1>10, <1>s, <1>t, <2>2, <2>3, <2>4 DEF SendPut, TypeOK, device
<1>11. ASSUME d # <<>>, d' = Tail(d)
       PROVE  d' \in Seq(DMessages) /\ Len(d') <= DCapacity
  BY <1>11, TailFacts DEF TypeOK
<1>12. ASSUME NEW t \in Threads, pc[t] = "recv", Advance(t)
       PROVE  /\ walk' \in [Threads -> Walks]
              /\ pc' \in [Threads -> {"idle", "clear", "lock", "walk", "send", "recv"}]
  <2>1. /\ walk[t].curr + walk[t].len \in Addresses
        /\ walk[t].remaining - walk[t].len \in Addresses
    BY <1>12, <1>m, BurstInMemory, Numbers, Locals DEF Addresses
  <2>2. walk' \in [Threads -> Walks]
    BY <1>12, <1>t, <2>1, WalkMoves DEF Advance
  <2> QED  BY <1>12, <1>t, <2>2 DEF Advance
<1>13. ASSUME NEW t \in Threads, RecvData(t), failed = "no" PROVE TypeOK'
  <2> USE <1>13 DEF RecvData
  <2>1. d' \in Seq(DMessages) /\ Len(d') <= DCapacity
    BY <1>11
  <2>2. CASE ResponseAborts("AccessAckData")
    BY <2>1, <2>2 DEF ResponseAborts, Abort, TypeOK, device
  <2>3. CASE ~ResponseAborts("AccessAckData")
    <3>1. Head(d).data \in Data \cup {Blank}
      BY DataForReader
    <3>2. dst' \in [Threads -> [BufferIndex -> Data \cup {Blank}]]
      <4>1. dst' = [dst EXCEPT ![t][Offset(t)] = Head(d).data]
        BY <2>3
      <4> QED  BY <1>t, <3>1, <4>1, TableUpdate
    <3>3. /\ walk' \in [Threads -> Walks]
          /\ pc' \in [Threads -> {"idle", "clear", "lock", "walk", "send", "recv"}]
      <4>1. CASE Advance(t)
        BY <1>12, <4>1
      <4>2. CASE walk' = [walk EXCEPT ![t].i = @ + 1] /\ UNCHANGED pc
        BY <1>t, <4>2, WalkUpdates, Locals
      <4> QED  BY <2>3, <4>1, <4>2
    <3> QED  BY <1>s, <1>t, <2>1, <2>3, <3>2, <3>3 DEF TypeOK, device
  <2> QED  BY <2>2, <2>3
<1>14. ASSUME NEW t \in Threads, RecvAck(t) PROVE TypeOK'
  <2> USE <1>14 DEF RecvAck
  <2>1. d' \in Seq(DMessages) /\ Len(d') <= DCapacity
    BY <1>11
  <2>2. CASE ResponseAborts("AccessAck")
    BY <2>1, <2>2 DEF ResponseAborts, Abort, TypeOK, device
  <2>3. CASE ~ResponseAborts("AccessAck")
    BY <1>12, <1>s, <1>t, <2>1, <2>3 DEF TypeOK, device
  <2> QED  BY <2>2, <2>3
<1>15. ASSUME NEW t \in Threads, Unlock(t) PROVE TypeOK'
  <2>1. /\ pc' \in [Threads -> {"idle", "clear", "lock", "walk", "send", "recv"}]
        /\ lock_' = NoThread
        /\ call' = [call EXCEPT ![t] = NoCall]
        /\ walk' = [walk EXCEPT ![t] = NoWalk]
        /\ dst' = [dst EXCEPT ![t] = BlankBuffer]
    BY <1>15 DEF Unlock, TypeOK
  <2>2. clear' \in [Threads -> Ranges]
    <3>1. CASE clear[t].remaining > 0
      <4>1. call[t].nbytes <= clear[t].remaining
            /\ clear[t].curr + clear[t].remaining <= MemBytes
        BY <1>15, <3>1 DEF Unlock, IInv, CallInv, CallOK, Working, InMemory
      <4>2. /\ clear[t].curr + call[t].nbytes \in Addresses
            /\ clear[t].remaining - call[t].nbytes \in Addresses
        BY <4>1, <1>m, Numbers DEF Addresses
      <4>3. clear' = [clear EXCEPT ![t].curr = @ + call[t].nbytes,
                                   ![t].remaining = @ - call[t].nbytes]
        BY <1>15, <3>1 DEF Unlock
      <4> QED  BY <1>t, <4>2, <4>3, RangeMoves
    <3>2. CASE ~(clear[t].remaining > 0)
      BY <1>15, <1>t, <3>2 DEF Unlock
    <3> QED  BY <3>1, <3>2
  <2>3. /\ call' \in [Threads -> Calls] /\ walk' \in [Threads -> Walks]
        /\ dst' \in [Threads -> [BufferIndex -> Data \cup {Blank}]]
    BY <1>t, <1>z, <2>1
  <2> QED  BY <1>15, <1>s, <1>t, <2>1, <2>2, <2>3 DEF Unlock, TypeOK, device
<1>16. ASSUME MgrTakeRequest PROVE TypeOK'
  <2>1. /\ Head(a) \in AMessages
        /\ Tail(a) \in Seq(AMessages) /\ Len(Tail(a)) <= ACapacity
    BY <1>16, TailFacts DEF MgrTakeRequest, TypeOK
  <2>2. mgr' \in Requests
    <3>1. PICK den \in BOOLEAN :
            mgr' = [state |-> IF Head(a).opcode = "Get" THEN "get" ELSE "put",
                    address |-> Head(a).address, size |-> Head(a).size,
                    count |-> 0, denied |-> den]
      BY <1>16 DEF MgrTakeRequest
    <3>2. Head(a).address \in Addresses /\ Head(a).size \in Sizes
      BY <2>1 DEF AMessages
    <3> QED  BY <3>1, <3>2 DEF Requests
  <2>3. a' \in Seq(AMessages) /\ Len(a') <= ACapacity
    BY <1>16, <2>1 DEF MgrTakeRequest, TypeOK
  <2> QED  BY <1>16, <1>s, <1>t, <2>2, <2>3 DEF MgrTakeRequest, TypeOK, frames
<1>17. ASSUME MgrTakeBeat, a[1].data \in Data PROVE TypeOK'
  <2>1. /\ Head(a) = a[1]
        /\ Tail(a) \in Seq(AMessages) /\ Len(Tail(a)) <= ACapacity
    BY <1>17, TailFacts DEF MgrTakeBeat, TypeOK
  <2>2. mem' \in [MemIndex -> Data]
    BY <1>17, <2>1 DEF MgrTakeBeat, TypeOK
  <2>3. mgr' \in Requests
    BY <1>17, <1>t, RequestUpdates DEF MgrTakeBeat
  <2> QED  BY <1>17, <1>s, <1>t, <2>1, <2>2, <2>3 DEF MgrTakeBeat, TypeOK, frames
<1>18. ASSUME NEW m \in DMessages, Len(d) < DCapacity, d' = Append(d, m)
       PROVE  d' \in Seq(DMessages) /\ Len(d') <= DCapacity
  BY <1>18, AppendFacts DEF TypeOK
<1>19. ASSUME MgrAck PROVE TypeOK'
  <2>1. DMsg("AccessAck", Blank, mgr.denied) \in DMessages
    BY DEF DMsg, DMessages, TypeOK
  <2> QED  BY <1>18, <1>19, <1>s, <1>t, <1>z, <2>1 DEF MgrAck, TypeOK, frames
<1>20. ASSUME MgrSendData PROVE TypeOK'
  <2>1. DMsg("AccessAckData", mem[MgrBeat], mgr.denied) \in DMessages
    BY <1>20, MgrBeatInMemory DEF MgrSendData, DMsg, DMessages, TypeOK
  <2>2. mgr' \in Requests
    BY <1>20, <1>t, <1>z, RequestUpdates DEF MgrSendData
  <2> QED  BY <1>18, <1>20, <1>s, <1>t, <2>1, <2>2 DEF MgrSendData, TypeOK, frames
<1>21. ASSUME UNCHANGED vars PROVE TypeOK'
  BY <1>21 DEF vars, TypeOK
<1>22. ASSUME MgrTakeBeat PROVE a[1].data \in Data
  BY <1>22, BeatOfPut
<1> QED
  BY <1>2, <1>3, <1>4, <1>5, <1>6, <1>7, <1>9, <1>10, <1>13, <1>14, <1>15,
     <1>16, <1>17, <1>19, <1>20, <1>21, <1>22
     DEF Next, Invoke, InCall, Manager

-----------------------------------------------------------------------------
(***************************************************************************)
(* The channels and the manager.                                           *)
(***************************************************************************)

\* Unless everything is quiet, some thread is in the middle of a burst.
LEMMA HolderPhase ==
  ASSUME IInv, failed = "no", ~Quiet
  PROVE  /\ lock_ \in Threads /\ pc[lock_] \in {"send", "recv"}
         /\ \/ call[lock_].op = "write" /\ Collecting(lock_)
            \/ /\ pc[lock_] = "recv" /\ call[lock_].op = "write"
               /\ Acknowledging \/ Acknowledged
            \/ /\ pc[lock_] = "recv" /\ call[lock_].op = "read"
               /\ Asked(lock_) \/ Answering(lock_)
<1>1. lock_ \in Threads
  BY DEF IInv, ChannelInv, TypeOK
<1>2. BurstPhase(lock_) /\ pc[lock_] \in {"walk", "send", "recv"}
  BY <1>1 DEF IInv, ChannelInv, MutexInv, Working
<1>3. pc[lock_] # "walk"
  BY <1>2 DEF BurstPhase
<1>4. call[lock_].op \in {"read", "write"}
  BY <1>1, <1>2 DEF IInv, CallInv, CallOK, Working
<1> QED  BY <1>1, <1>2, <1>3, <1>4 DEF BurstPhase

\* A message on A is part of the burst of the thread that holds the mutex.
LEMMA RequestFromHolder ==
  ASSUME IInv, a # <<>>
  PROVE  /\ failed = "no" /\ lock_ \in Threads /\ pc[lock_] \in {"send", "recv"}
         /\ \/ call[lock_].op = "write" /\ Collecting(lock_)
            \/ /\ pc[lock_] = "recv" /\ call[lock_].op = "read"
               /\ Asked(lock_)
         /\ \A k \in DOMAIN a :
              /\ ThisBurst(a[k], lock_)
              /\ a[k].opcode = IF call[lock_].op = "read" THEN "Get"
                                                          ELSE "PutFullData"
<1>1. failed = "no" /\ ~Quiet
  BY DEF IInv, ChannelInv, Quiet
<1>2. \/ call[lock_].op = "write" /\ Collecting(lock_)
      \/ /\ pc[lock_] = "recv" /\ call[lock_].op = "read"
         /\ Asked(lock_)
  BY <1>1, HolderPhase DEF Acknowledging, Acknowledged, Answering
<1>3. ASSUME call[lock_].op = "read", Asked(lock_), NEW k \in DOMAIN a
      PROVE  ThisBurst(a[k], lock_) /\ a[k].opcode = "Get"
  <2>1. a \in Seq(AMessages)
    BY DEF IInv, TypeOK
  <2>2. k = 1
    BY <1>3, <2>1 DEF Asked
  <2> QED  BY <1>3, <2>2 DEF Asked
<1>4. ASSUME call[lock_].op = "write", Collecting(lock_), NEW k \in DOMAIN a
      PROVE  ThisBurst(a[k], lock_) /\ a[k].opcode = "PutFullData"
  BY <1>4 DEF Collecting
<1> QED  BY <1>1, <1>2, <1>3, <1>4, HolderPhase

LEMMA MgrStep == IInv /\ [Next]_vars => MgrInv'
<1> SUFFICES ASSUME IInv, [Next]_vars PROVE MgrInv'
  OBVIOUS
<1>0. mgr \in Requests /\ MgrInv
  BY DEF IInv, TypeOK, Requests
<1>1. ASSUME UNCHANGED mgr PROVE MgrInv'
  BY <1>0, <1>1 DEF MgrInv, BurstAsserts, Beats
<1>2. ASSUME NEW t \in Threads, Invoke(t) PROVE UNCHANGED mgr
  BY <1>2 DEF Invoke, ReadChunk, WriteChunk, ClearChunk, device
<1>3. ASSUME NEW t \in Threads, InCall(t) PROVE UNCHANGED mgr
  BY <1>3 DEF InCall, ClearBlock, ClearReturn, Lock, NextBurst, SendGet,
              SendPut, RecvData, RecvAck, Unlock, device
<1>4. ASSUME MgrTakeRequest PROVE MgrInv'
  <2>1. a # <<>> /\ a \in Seq(AMessages) /\ 1 \in DOMAIN a /\ Head(a) = a[1]
    BY <1>4, TailFacts DEF MgrTakeRequest, IInv, TypeOK
  <2>2. /\ mgr'.address = Head(a).address /\ mgr'.size = Head(a).size
        /\ mgr'.count = 0
    BY <1>4 DEF MgrTakeRequest
  <2>3. lock_ \in Threads /\ pc[lock_] \in {"send", "recv"}
        /\ ThisBurst(Head(a), lock_)
    BY <2>1, RequestFromHolder
  <2>4. mgr'.address = walk[lock_].curr /\ mgr'.size = walk[lock_].len
    BY <2>2, <2>3 DEF ThisBurst
  <2>5. /\ BurstAsserts(walk[lock_].curr, walk[lock_].len)
        /\ walk[lock_].curr + walk[lock_].len <= MemBytes
    BY <2>3, BurstInMemory, Numbers, Params DEF IInv
  <2>6. 0 < Beats(walk[lock_].len)
    BY <2>5, BeatsOfBurst DEF BurstAsserts
  <2> QED  BY <2>2, <2>4, <2>5, <2>6 DEF MgrInv, BurstAsserts, Beats
<1>5. ASSUME mgr.state \in {"get", "put"},
             mgr' = [mgr EXCEPT !.count = @ + 1], ~MgrLast
      PROVE  MgrInv'
  <2>1. /\ mgr'.address = mgr.address /\ mgr'.size = mgr.size
        /\ mgr'.count = mgr.count + 1
    BY <1>0, <1>5 DEF Requests
  <2>2. /\ BurstAsserts(mgr.address, mgr.size)
        /\ mgr.address + mgr.size <= MemBytes
        /\ mgr.count < Beats(mgr.size)
        /\ mgr.count \in Nat
    BY <1>0, <1>5 DEF MgrInv, Requests
  <2>3. Beats(mgr.size) \in Nat
    BY <2>2, BeatsOfBurst DEF BurstAsserts
  <2>4. mgr.count + 1 < Beats(mgr.size)
    BY <1>5, <2>2, <2>3 DEF MgrLast
  <2> QED  BY <2>1, <2>2, <2>4 DEF MgrInv, BurstAsserts, Beats
<1>6. ASSUME MgrTakeBeat PROVE MgrInv'
  <2>1. CASE MgrLast
    <3>1. mgr'.state = "ack"
      BY <1>0, <1>6, <2>1 DEF MgrTakeBeat, Requests
    <3> QED  BY <3>1 DEF MgrInv
  <2>2. CASE ~MgrLast
    BY <1>5, <1>6, <2>2 DEF MgrTakeBeat
  <2> QED  BY <2>1, <2>2
<1>7. ASSUME MgrAck PROVE MgrInv'
  BY <1>7 DEF MgrAck, Idle, MgrInv
<1>8. ASSUME MgrSendData PROVE MgrInv'
  <2>1. CASE MgrLast
    BY <1>8, <2>1 DEF MgrSendData, Idle, MgrInv
  <2>2. CASE ~MgrLast
    BY <1>5, <1>8, <2>2 DEF MgrSendData
  <2> QED  BY <2>1, <2>2
<1> QED
  BY <1>1, <1>2, <1>3, <1>4, <1>6, <1>7, <1>8 DEF Next, Manager, vars

-----------------------------------------------------------------------------
(***************************************************************************)
(* Where the beats are: the holder's burst goes through its phases, and no *)
(* other thread touches the channels.                                      *)
(***************************************************************************)
LEMMA PhaseKept ==
  ASSUME NEW u, BurstPhase(u), UNCHANGED <<pc[u], call[u], walk[u], a, d, mgr>>
  PROVE  BurstPhase(u)'
BY DEF BurstPhase, Quiet, Collecting, Acknowledging, Acknowledged, Asked,
       Answering, ThisBurst, NumBeats, Beats

\* The phase a step leaves the holder in.
LEMMA PhaseNext ==
  ASSUME NEW u,
         \/ pc'[u] = "walk" /\ Quiet'
         \/ pc'[u] = "send" /\ call'[u].op = "write" /\ Collecting(u)'
         \/ pc'[u] = "send" /\ call'[u].op # "write" /\ Quiet'
         \/ /\ pc'[u] = "recv" /\ call'[u].op = "write"
            /\ Collecting(u)' \/ Acknowledging' \/ Acknowledged'
         \/ /\ pc'[u] = "recv" /\ call'[u].op # "write"
            /\ Asked(u)' \/ Answering(u)'
  PROVE  BurstPhase(u)'
BY DEF BurstPhase

\* One more beat of a read is answered.
LEMMA OneMoreAnswer ==
  ASSUME NEW i \in Nat, NEW count \in Nat, NEW n \in Nat, i + n = count
  PROVE  i + (n + 1) = count + 1
OBVIOUS

LEMMA ChannelStep == IInv /\ [Next]_vars => ChannelInv'
<1> SUFFICES ASSUME IInv, [Next]_vars PROVE ChannelInv'
  OBVIOUS
<1>0. TypeOK /\ MutexInv /\ WalkInv /\ ChannelInv
  BY DEF IInv
<1>t. /\ pc \in [Threads -> {"idle", "clear", "lock", "walk", "send", "recv"}]
      /\ call \in [Threads -> Calls]
      /\ walk \in [Threads -> Walks]
      /\ mgr \in Requests /\ a \in Seq(AMessages) /\ d \in Seq(DMessages)
  BY <1>0 DEF TypeOK, Calls, Walks, Requests
<1> USE InterfaceAssumption DEF Goto

\* Steps of a thread that does not hold the mutex.
<1>a. ASSUME NEW t \in Threads, lock_ # t,
             UNCHANGED <<lock_, a, d, mgr, failed>>,
             \A v \in Threads \ {t} : UNCHANGED <<pc[v], call[v], walk[v]>>
      PROVE  ChannelInv'
  BY <1>0, <1>a, PhaseKept DEF ChannelInv, Quiet
\* Steps that leave the holder in a phase.
<1>b. ASSUME NEW t \in Threads, lock_' = t, failed' = "no", BurstPhase(t)'
      PROVE  ChannelInv'
  BY <1>b DEF ChannelInv
\* Steps that abort the client.
<1>c. ASSUME NEW t \in Threads, lock_' = t, failed' # "no", a' = <<>>
      PROVE  ChannelInv'
  BY <1>c DEF ChannelInv
\* The holder's phase before the step.
<1>h. ASSUME NEW t \in Threads, pc[t] \in Working, failed = "no"
      PROVE  /\ lock_ = t
             /\ pc[t] = "walk" => Quiet
             /\ pc[t] = "send" /\ call[t].op = "write" => Collecting(t)
             /\ pc[t] = "send" /\ call[t].op = "read" => Quiet
  <2>1. lock_ = t
    BY <1>0, <1>h DEF MutexInv
  <2>2. BurstPhase(t)
    BY <1>0, <1>h, <2>1 DEF ChannelInv
  <2> QED  BY <1>h, <2>1, <2>2 DEF BurstPhase

<1>1. ASSUME NEW t \in Threads, Invoke(t) PROVE ChannelInv'
  <2>1. lock_ # t
    BY <1>0, <1>1 DEF Invoke, ReadChunk, WriteChunk, ClearChunk, MutexInv, Working
  <2> QED
    BY <1>1, <1>a, <1>t, <2>1
       DEF Invoke, ReadChunk, WriteChunk, ClearChunk, EnterChunk, device
<1>2. ASSUME NEW t \in Threads, ClearBlock(t) \/ ClearReturn(t)
      PROVE  ChannelInv'
  <2>1. lock_ # t
    BY <1>0, <1>2 DEF ClearBlock, ClearReturn, MutexInv, Working
  <2> QED
    BY <1>2, <1>a, <1>t, <2>1 DEF ClearBlock, ClearReturn, EnterChunk, device
<1>3. ASSUME NEW t \in Threads, failed = "no", Lock(t) PROVE ChannelInv'
  <2>1. CASE ChunkAsserts(call[t])
    <3>1. lock_' = t /\ pc'[t] = "walk" /\ UNCHANGED <<a, d, mgr, failed>>
      BY <1>3, <1>t, <2>1 DEF Lock, device
    <3>2. Quiet'
      BY <1>0, <1>3, <3>1 DEF Lock, MutexFree, ChannelInv, Quiet
    <3> QED  BY <1>3, <1>b, <3>1, <3>2, PhaseNext
  <2>2. CASE ~ChunkAsserts(call[t])
    <3>1. /\ lock_ = NoThread /\ failed' = "range"
          /\ UNCHANGED <<lock_, a, d, mgr>>
      BY <1>3, <2>2, RejectedLock
    <3>2. Quiet'
      BY <1>0, <3>1 DEF ChannelInv, Quiet
    <3> QED  BY <3>1, <3>2 DEF ChannelInv, Quiet
  <2> QED  BY <2>1, <2>2
<1>4. ASSUME NEW t \in Threads, failed = "no", NextBurst(t) PROVE ChannelInv'
  <2>1. /\ pc[t] = "walk" /\ pc'[t] = "send" /\ walk'[t].i = 0
        /\ UNCHANGED <<lock_, call, a, d, mgr, failed>>
    BY <1>4, <1>t, NextBurstFacts DEF NextBurst, device, Walks
  <2>2. Quiet /\ lock_ = t
    BY <1>4, <1>h, <2>1 DEF Working
  <2>3. Quiet' /\ Collecting(t)'
    BY <2>1, <2>2 DEF Quiet, Collecting, Idle
  <2> QED  BY <1>4, <1>b, <2>1, <2>2, <2>3, PhaseNext
<1>5. ASSUME NEW t \in Threads, failed = "no", SendGet(t) PROVE ChannelInv'
  <2> DEFINE m == GetMsg(walk[t].curr, walk[t].len)
  <2>1. /\ pc[t] = "send" /\ pc'[t] = "recv" /\ a' = Append(a, m)
        /\ call[t].op = "read"
        /\ UNCHANGED <<lock_, call, walk, d, mgr, failed>>
    BY <1>5, <1>t DEF SendGet, frames, device
  <2>2. Quiet /\ lock_ = t
    BY <1>5, <1>h, <2>1 DEF Working
  <2>3. walk[t].i = 0
    BY <1>0, <2>1 DEF WalkInv, WalkOK
  <2>4. Asked(t)'
    BY <2>1, <2>2, <2>3 DEF Quiet, Asked, GetMsg, ThisBurst
  <2> QED  BY <1>5, <1>b, <2>1, <2>2, <2>4, PhaseNext
<1>6. ASSUME NEW t \in Threads, failed = "no", SendPut(t) PROVE ChannelInv'
  <2> DEFINE m == PutMsg(walk[t].curr, walk[t].len, call[t].src[Offset(t)])
  <2>1. /\ pc[t] = "send" /\ pc'[t] \in {"send", "recv"}
        /\ call[t].op = "write" /\ a' = Append(a, m)
        /\ UNCHANGED <<lock_, call, d, mgr, failed>>
    BY <1>6, <1>t DEF SendPut, device
  <2>2. /\ walk'[t].curr = walk[t].curr /\ walk'[t].len = walk[t].len
        /\ walk'[t].i = walk[t].i + 1
    BY <1>6, <1>t DEF SendPut, Walks
  <2>3. Collecting(t) /\ lock_ = t
    BY <1>6, <1>h, <2>1 DEF Working
  <2>4. m \in AMessages /\ m.opcode = "PutFullData" /\ ThisBurst(m, t)
        /\ m.data \in Data
    BY <2>1, OffsetInBuffer, Locals, <1>0
       DEF PutMsg, AMessages, Addresses, ThisBurst
  <2> HIDE DEF m
  <2>5. Len(a') = Len(a) + 1 /\ Len(a) \in Nat
        /\ \A k \in DOMAIN a' : a'[k] = IF k \in DOMAIN a THEN a[k] ELSE m
    BY <1>t, <2>1, <2>4, AppendFacts
  <2>6. \A k \in DOMAIN a' : a'[k].opcode = "PutFullData"
          /\ (ThisBurst(a[k], t))' /\ a'[k].data \in Data
    BY <2>2, <2>3, <2>4, <2>5 DEF Collecting, ThisBurst
  <2>7. Len(a') + mgr'.count = walk'[t].i
    BY <1>t, <2>1, <2>2, <2>3, <2>5 DEF Collecting, Requests, Walks
  <2>8. d' = <<>> /\ (mgr' = Idle \/ (mgr'.state = "put" /\ ThisBurst(mgr, t)'))
    BY <2>1, <2>2, <2>3 DEF Collecting, ThisBurst
  <2>9. Collecting(t)'
    BY <2>6, <2>7, <2>8 DEF Collecting
  <2> QED  BY <1>6, <1>b, <2>1, <2>3, <2>9, PhaseNext
<1>7. ASSUME NEW t \in Threads, failed = "no", RecvData(t) PROVE ChannelInv'
  <2>1. /\ pc[t] = "recv" /\ call[t].op = "read" /\ d # <<>> /\ d' = Tail(d)
        /\ UNCHANGED <<lock_, call, a, mgr>>
    BY <1>7 DEF RecvData, device
  <2>2. Answering(t) /\ lock_ = t
    BY <1>7, <2>1, DataForReader
  <2>3. CASE ResponseAborts("AccessAckData")
    BY <1>c, <2>1, <2>2, <2>3 DEF ResponseAborts, Abort, Answering
  <2>4. /\ Tail(d) \in Seq(DMessages) /\ Len(Tail(d)) = Len(d) - 1
        /\ Len(d) \in Nat /\ Len(d) >= 1
        /\ \A k \in DOMAIN Tail(d) : k + 1 \in DOMAIN d /\ Tail(d)[k] = d[k + 1]
    BY <1>t, <2>1, TailFacts
  <2>5. walk[t].i \in Nat /\ NumBeats(t) \in Nat
    BY <1>0, <2>1, Numbers, BurstInMemory, BeatsOfBurst DEF NumBeats, BurstAsserts
  <2>6. CASE LastBeat(t) /\ Advance(t) /\ UNCHANGED failed
    <3>1. mgr = Idle
      <4>1. ASSUME mgr.state = "get", ThisBurst(mgr, t),
                   walk[t].i + Len(d) = mgr.count
            PROVE  FALSE
        <5>1. mgr.count < NumBeats(t)
          BY <4>1 DEF IInv, MgrInv, ThisBurst, NumBeats
        <5>2. mgr.count \in Nat
          BY <1>t DEF Requests
        <5> QED  BY <2>4, <2>5, <2>6, <4>1, <5>1, <5>2 DEF LastBeat
      <4> QED  BY <2>2, <4>1 DEF Answering
    <3>2. walk[t].i + Len(d) = NumBeats(t)
      BY <2>2, <3>1 DEF Answering, Idle
    <3>3. Len(Tail(d)) = 0
      BY <2>4, <2>5, <2>6, <3>2 DEF LastBeat
    <3>4. Quiet'
      BY <2>1, <2>2, <2>4, <3>1, <3>3, EmptySeq DEF Quiet, Answering
    <3>5. pc'[t] = "walk"
      BY <1>t, <2>6 DEF Advance
    <3> QED  BY <1>7, <1>b, <2>1, <2>2, <2>6, <3>4, <3>5, PhaseNext
  <2>7. CASE walk' = [walk EXCEPT ![t].i = @ + 1] /\ UNCHANGED <<pc, failed>>
    <3>1. /\ walk'[t].curr = walk[t].curr /\ walk'[t].len = walk[t].len
          /\ walk'[t].i = walk[t].i + 1
      BY <1>t, <2>7 DEF Walks
    <3>2. NumBeats(t)' = NumBeats(t)
      BY <3>1 DEF NumBeats, Beats
    <3>3. walk'[t].i + Len(d') = walk[t].i + Len(d)
      BY <2>1, <2>4, <2>5, <3>1
    <3>4. \A k \in DOMAIN d' : d'[k].opcode = "AccessAckData" /\ d'[k].data \in Data
      BY <2>1, <2>2, <2>4 DEF Answering
    <3>5. Answering(t)'
      BY <2>1, <2>2, <3>1, <3>2, <3>3, <3>4 DEF Answering, ThisBurst
    <3> QED  BY <1>7, <1>b, <2>1, <2>2, <2>7, <3>5, PhaseNext
  <2> QED  BY <1>7, <2>3, <2>6, <2>7 DEF RecvData
<1>8. ASSUME NEW t \in Threads, failed = "no", RecvAck(t) PROVE ChannelInv'
  <2>1. /\ pc[t] = "recv" /\ call[t].op = "write" /\ d # <<>> /\ d' = Tail(d)
        /\ UNCHANGED <<lock_, call, a, mgr>>
    BY <1>8 DEF RecvAck, device
  <2>2. Acknowledged /\ lock_ = t /\ d' = <<>>
    BY <1>8, <2>1, AckForWriter
  <2>3. CASE ResponseAborts("AccessAck")
    BY <1>c, <2>1, <2>2, <2>3 DEF ResponseAborts, Abort, Acknowledged
  <2>4. CASE Advance(t) /\ UNCHANGED failed
    <3>1. Quiet' /\ pc'[t] = "walk"
      BY <1>t, <2>1, <2>2, <2>4 DEF Quiet, Acknowledged, Advance
    <3> QED  BY <1>8, <1>b, <2>1, <2>2, <2>4, <3>1, PhaseNext
  <2> QED  BY <1>8, <2>3, <2>4 DEF RecvAck
<1>9. ASSUME NEW t \in Threads, failed = "no", Unlock(t) PROVE ChannelInv'
  <2>1. Quiet
    BY <1>9, <1>h DEF Unlock, Working
  <2>2. lock_' = NoThread /\ failed' = "no" /\ Quiet'
    BY <1>9, <2>1 DEF Unlock, device, Quiet
  <2> QED  BY <2>2 DEF ChannelInv
<1>10. ASSUME UNCHANGED vars PROVE ChannelInv'
  BY <1>0, <1>10, PhaseKept DEF vars, ChannelInv, Quiet

\* The manager's steps keep the holder's variables.
<1>m. ASSUME Manager
      PROVE  UNCHANGED <<lock_, pc, call, walk, failed>>
  BY <1>m DEF Manager, MgrTakeRequest, MgrTakeBeat, MgrAck, MgrSendData, frames
<1>11. ASSUME MgrTakeRequest PROVE ChannelInv'
  <2>0. /\ mgr'.state = IF Head(a).opcode = "Get" THEN "get" ELSE "put"
        /\ mgr'.address = Head(a).address /\ mgr'.size = Head(a).size
        /\ mgr'.count = 0
    BY <1>11 DEF MgrTakeRequest
  <2>1. /\ mgr.state = "idle" /\ a # <<>> /\ d' = d
        /\ a' = IF Head(a).opcode = "Get" THEN Tail(a) ELSE a
        /\ UNCHANGED <<lock_, pc, call, walk, failed>>
    BY <1>11 DEF MgrTakeRequest, frames
  <2>2. PICK t \in Threads :
        /\ t = lock_
        /\ failed = "no" /\ pc[t] \in {"send", "recv"}
        /\ \/ call[t].op = "write" /\ Collecting(t)
           \/ pc[t] = "recv" /\ call[t].op = "read" /\ Asked(t)
        /\ ThisBurst(Head(a), t)
        /\ Head(a).opcode = IF call[t].op = "read" THEN "Get" ELSE "PutFullData"
    BY <1>t, <2>1, RequestFromHolder, TailFacts
  <2>3. ThisBurst(mgr, t)'
    BY <2>0, <2>1, <2>2 DEF ThisBurst
  <2>4. CASE call[t].op = "write" /\ Collecting(t)
    <3>1. mgr = Idle
      BY <2>1, <2>4 DEF Collecting
    <3>2. Collecting(t)'
      BY <2>0, <2>1, <2>2, <2>3, <2>4, <3>1 DEF Collecting, ThisBurst, Idle
    <3> QED  BY <1>b, <2>1, <2>2, <2>4, <3>2, PhaseNext
  <2>5. CASE pc[t] = "recv" /\ call[t].op = "read" /\ Asked(t)
    <3>1. a' = <<>>
      BY <1>t, <2>1, <2>2, <2>5, TailFacts, EmptySeq DEF Asked
    <3>2. Answering(t)'
      BY <2>0, <2>1, <2>2, <2>3, <2>5, <3>1 DEF Asked, Answering
    <3> QED  BY <1>b, <2>1, <2>2, <2>5, <3>2, PhaseNext
  <2> QED  BY <2>2, <2>4, <2>5
<1>12. ASSUME MgrTakeBeat PROVE ChannelInv'
  <2>1. /\ mgr.state = "put" /\ a # <<>> /\ a' = Tail(a) /\ d' = d
        /\ UNCHANGED <<lock_, pc, call, walk, failed>>
    BY <1>12, <1>m DEF MgrTakeBeat, Manager
  <2>2. PICK t \in Threads :
        /\ t = lock_ /\ failed = "no" /\ call[t].op = "write"
        /\ pc[t] \in {"send", "recv"} /\ Collecting(t)
    BY <1>12, BeatOfPut
  <2>3. /\ ThisBurst(mgr, t) /\ Len(a) + mgr.count = walk[t].i
        /\ mgr.count \in Nat /\ walk[t].i \in Nat
    BY <1>t, <2>1, <2>2 DEF Collecting, Idle, Requests, Walks
  <2>4. /\ Tail(a) \in Seq(AMessages) /\ Len(Tail(a)) = Len(a) - 1
        /\ Len(a) \in Nat /\ Len(a) >= 1
        /\ \A k \in DOMAIN Tail(a) : k + 1 \in DOMAIN a /\ Tail(a)[k] = a[k + 1]
    BY <1>t, <2>1, TailFacts
  <2>5. CASE MgrLast
    <3>1. mgr'.state = "ack" /\ mgr'.count = 0
      BY <1>12, <1>t, <2>5 DEF MgrTakeBeat, Requests
    <3>2. mgr.count + 1 = NumBeats(t) /\ walk[t].i <= NumBeats(t)
          /\ (pc[t] = "send" => walk[t].i < NumBeats(t))
      <4>1. mgr.count + 1 = NumBeats(t)
        BY <2>3, <2>5 DEF MgrLast, ThisBurst, NumBeats
      <4>2. /\ pc[t] = "send" => walk[t].i < NumBeats(t)
            /\ pc[t] = "recv" => walk[t].i = NumBeats(t)
        BY <1>0, <2>2 DEF WalkInv, WalkOK
      <4> QED  BY <2>2, <2>3, <4>1, <4>2
    <3>3. Len(Tail(a)) = 0 /\ pc[t] = "recv"
      BY <2>2, <2>3, <2>4, <3>2
    <3>4. Acknowledging'
      BY <2>1, <2>2, <2>4, <3>1, <3>3, EmptySeq DEF Acknowledging, Collecting
    <3> QED  BY <1>b, <2>1, <2>2, <3>3, <3>4, PhaseNext
  <2>6. CASE ~MgrLast
    <3>1. /\ mgr'.state = "put" /\ mgr'.address = mgr.address
          /\ mgr'.size = mgr.size /\ mgr'.count = mgr.count + 1
      BY <1>12, <1>t, <2>1, <2>6 DEF MgrTakeBeat, Requests
    <3>2. \A k \in DOMAIN a' : a'[k].opcode = "PutFullData"
            /\ (ThisBurst(a[k], t))' /\ a'[k].data \in Data
      BY <2>1, <2>2, <2>4 DEF Collecting, ThisBurst
    <3>3. Len(a') + mgr'.count = walk'[t].i
      BY <2>1, <2>3, <2>4, <3>1
    <3>4. d' = <<>> /\ mgr'.state = "put" /\ ThisBurst(mgr, t)'
      BY <2>1, <2>2, <2>3, <3>1 DEF Collecting, ThisBurst
    <3>5. Collecting(t)'
      BY <3>2, <3>3, <3>4 DEF Collecting
    <3> QED  BY <1>b, <2>1, <2>2, <3>5, PhaseNext
  <2> QED  BY <2>5, <2>6
<1>13. ASSUME failed # "no", MgrAck \/ MgrSendData PROVE ChannelInv'
  BY <1>0, <1>13 DEF MgrAck, MgrSendData, ChannelInv, Quiet, Idle
<1>14. ASSUME failed = "no", MgrAck PROVE ChannelInv'
  <2> DEFINE t == lock_
  <2> DEFINE m == DMsg("AccessAck", Blank, mgr.denied)
  <2>1. /\ mgr.state = "ack" /\ mgr' = Idle /\ a' = a /\ d' = Append(d, m)
        /\ UNCHANGED <<lock_, pc, call, walk, failed>>
    BY <1>14, <1>m DEF MgrAck, Manager
  <2>2. /\ t \in Threads /\ pc[t] = "recv" /\ call[t].op = "write"
        /\ Acknowledging
    BY <1>14, <2>1, HolderPhase
       DEF Quiet, Idle, Collecting, Acknowledged, Asked, Answering
  <2>3. Acknowledged'
    BY <2>1, <2>2 DEF Acknowledging, Acknowledged, DMsg
  <2> QED  BY <1>14, <1>b, <2>1, <2>2, <2>3, PhaseNext
<1>15. ASSUME failed = "no", MgrSendData PROVE ChannelInv'
  <2> DEFINE m == DMsg("AccessAckData", mem[MgrBeat], mgr.denied)
  <2>1. /\ mgr.state = "get" /\ a' = a /\ d' = Append(d, m)
        /\ UNCHANGED <<lock_, pc, call, walk, failed>>
    BY <1>15, <1>m DEF MgrSendData, Manager
  <2>2. PICK t \in Threads :
        /\ t = lock_ /\ pc[t] = "recv" /\ call[t].op = "read"
        /\ Answering(t) /\ mgr # Idle
    BY <1>15, <2>1, HolderPhase
       DEF Quiet, Idle, Collecting, Acknowledging, Acknowledged, Asked
  <2>3. m \in DMessages /\ m.opcode = "AccessAckData" /\ m.data \in Data
    BY <1>t, <2>1, MgrBeatInMemory DEF DMsg, DMessages, Requests
  <2> HIDE DEF m
  <2>4. /\ Len(d') = Len(d) + 1 /\ Len(d) \in Nat
        /\ \A k \in DOMAIN d' : d'[k] = IF k \in DOMAIN d THEN d[k] ELSE m
    BY <1>t, <2>1, <2>3, AppendFacts
  <2>5. /\ ThisBurst(mgr, t) /\ walk[t].i + Len(d) = mgr.count
        /\ a = <<>>
    BY <2>2 DEF Answering
  <2>6. \A k \in DOMAIN d' : d'[k].opcode = "AccessAckData" /\ d'[k].data \in Data
    BY <2>2, <2>3, <2>4 DEF Answering
  <2>7. mgr.count \in Nat /\ walk[t].i \in Nat
    BY <1>t, <2>2 DEF Requests, Walks
  <2>8. NumBeats(t)' = NumBeats(t)
    BY <2>1 DEF NumBeats, Beats
  <2>s. walk'[t].i + Len(d') = mgr.count + 1
    <3>1. walk'[t].i = walk[t].i
      BY <2>1
    <3>2. Len(d') = Len(d) + 1 /\ Len(d) \in Nat
      BY <2>4
    <3>3. walk[t].i + Len(d) = mgr.count
      BY <2>5
    <3> QED  BY <2>7, <3>1, <3>2, <3>3, OneMoreAnswer
  <2>9. CASE MgrLast
    <3>1. mgr' = Idle
      BY <1>15, <2>9 DEF MgrSendData
    <3>2. walk'[t].i + Len(d') = NumBeats(t)'
      <4>1. mgr.count + 1 = NumBeats(t)
        BY <2>5, <2>9 DEF MgrLast, ThisBurst, NumBeats
      <4> QED  BY <2>s, <2>8, <4>1
    <3>3. Answering(t)'
      BY <2>1, <2>5, <2>6, <3>1, <3>2 DEF Answering
    <3> QED  BY <1>15, <1>b, <2>1, <2>2, <3>3, PhaseNext
  <2>10. CASE ~MgrLast
    <3>1. /\ mgr'.state = "get" /\ mgr'.address = mgr.address
          /\ mgr'.size = mgr.size /\ mgr'.count = mgr.count + 1
      BY <1>15, <1>t, <2>1, <2>10 DEF MgrSendData, Requests
    <3>2. walk'[t].i + Len(d') = mgr'.count /\ ThisBurst(mgr, t)'
      BY <2>s, <2>1, <2>5, <3>1 DEF ThisBurst
    <3>3. Answering(t)'
      BY <2>1, <2>5, <2>6, <3>1, <3>2 DEF Answering
    <3> QED  BY <1>15, <1>b, <2>1, <2>2, <3>3, PhaseNext
  <2> QED  BY <2>9, <2>10
<1> QED
  BY <1>1, <1>2, <1>3, <1>4, <1>5, <1>6, <1>7, <1>8, <1>9, <1>10, <1>11,
     <1>12, <1>13, <1>14, <1>15
     DEF Next, InCall, Manager

-----------------------------------------------------------------------------
(***************************************************************************)
(* The inductive invariant holds in every reachable state.                 *)
(***************************************************************************)
THEOREM Invariance == Spec => []IInv
<1>1. IInv /\ [Next]_vars => IInv'
  BY TypeStep, MutexStep, CallStep, WalkStep, MgrStep, ChannelStep, DenyStep,
     AbortStep
     DEF IInv
<1> QED  BY InitInv, <1>1, PTL DEF Spec

\* Every variable keeps its type, on any schedule and any answer.
THEOREM TypeCorrect == Spec => []TypeOK
<1>1. IInv => TypeOK
  BY DEF IInv
<1> QED  BY <1>1, Invariance, PTL

\* For every max_transfer_bytes, whole beats or not: no assert of read_chunk,
\* write_chunk, read() or write() fails except the one on denied, if the manager
\* denies, and write_chunk's on a block clear_chunk has cut at that size.
THEOREM EveryAbortExplained == Spec => []AbortsExplained
<1>1. IInv => AbortsExplained
  BY DEF IInv
<1> QED  BY <1>1, Invariance, PTL

\* Between calls no beat is on either channel or with the manager.
THEOREM Quiescence == Spec => []QuietBetweenCalls
<1>1. IInv => QuietBetweenCalls
  BY DEF IInv, ChannelInv, Quiet, QuietBetweenCalls
<1> QED  BY <1>1, Invariance, PTL

\* Every request is a naturally aligned burst inside the holder's call.
THEOREM WellFormedRequests == Spec => []RequestsWellFormed
<1>1. ASSUME IInv PROVE RequestsWellFormed
  <2> SUFFICES ASSUME NEW k \in DOMAIN a
               PROVE  /\ lock_ \in Threads
                      /\ a[k].opcode = IF call[lock_].op = "read" THEN "Get"
                                                        ELSE "PutFullData"
                      /\ a[k].size \in BeatBytes .. MaxTransferBytes
                      /\ a[k].address % a[k].size = 0
                      /\ a[k].address >= call[lock_].taddr
                      /\ a[k].address + a[k].size
                           <= call[lock_].taddr + call[lock_].nbytes
    BY DEF RequestsWellFormed
  <2>1. a # <<>>
    OBVIOUS
  <2>2. /\ lock_ \in Threads /\ pc[lock_] \in {"send", "recv"}
        /\ ThisBurst(a[k], lock_)
        /\ a[k].opcode = IF call[lock_].op = "read" THEN "Get" ELSE "PutFullData"
    BY <1>1, <2>1, RequestFromHolder
  <2>3. a[k].address = walk[lock_].curr /\ a[k].size = walk[lock_].len
    BY <2>2 DEF ThisBurst
  <2>4. /\ BurstAsserts(walk[lock_].curr, walk[lock_].len)
        /\ walk[lock_].curr + walk[lock_].len
             <= call[lock_].taddr + call[lock_].nbytes
        /\ call[lock_].taddr <= walk[lock_].curr
        /\ call[lock_].nbytes <= MaxTransferBytes
    BY <1>1, <2>2, BurstInMemory
  <2>5. /\ call[lock_].taddr \in Nat /\ call[lock_].nbytes \in Nat
        /\ walk[lock_].curr \in Nat /\ walk[lock_].len \in Nat
    BY <1>1, <2>2, Numbers DEF IInv
  <2>6. walk[lock_].len \in BeatBytes .. MaxTransferBytes
    BY <2>4, <2>5, Params DEF BurstAsserts
  <2>7. walk[lock_].curr % walk[lock_].len = 0
    BY <2>4 DEF BurstAsserts
  <2>8. walk[lock_].curr >= call[lock_].taddr
    BY <2>4, <2>5
  <2> QED  BY <2>2, <2>3, <2>4, <2>6, <2>7, <2>8
<1> QED  BY <1>1, Invariance, PTL

\* No beat of a burst is lost, sent twice or answered twice.
THEOREM BeatAccounting == Spec => []BeatsAccounted
<1>1. ASSUME IInv PROVE BeatsAccounted
  <2> SUFFICES ASSUME failed = "no", NEW t \in Threads
      PROVE  /\ pc[t] = "send" /\ call[t].op = "write" => OnTheWay(t) = walk[t].i
             /\ pc[t] = "recv" /\ call[t].op = "write" =>
                  OnTheWay(t) + Len(d) * NumBeats(t) = NumBeats(t)
             /\ pc[t] = "recv" /\ call[t].op = "read" =>
                  walk[t].i + Len(d) + OnTheWay(t) = NumBeats(t)
    BY DEF BeatsAccounted
  <2>t. mgr \in Requests /\ a \in Seq(AMessages) /\ d \in Seq(DMessages)
        /\ mgr.count \in Nat /\ Len(a) \in Nat /\ Len(d) \in Nat
        /\ walk[t].i \in Nat
    <3>0. TypeOK
      BY <1>1 DEF IInv
    <3>1. mgr \in Requests /\ a \in Seq(AMessages) /\ d \in Seq(DMessages)
      BY <3>0 DEF TypeOK, Requests
    <3>2. mgr.count \in Nat
      BY <3>1 DEF Requests
    <3>3. Len(a) \in Nat /\ Len(d) \in Nat
      BY <3>1
    <3> QED  BY <3>0, <3>1, <3>2, <3>3, Numbers
  <2>0. ASSUME pc[t] \in {"send", "recv"}
        PROVE  NumBeats(t) \in Nat /\ lock_ = t /\ BurstPhase(t)
    <3>1. lock_ = t /\ BurstPhase(t)
      BY <1>1, <2>0 DEF IInv, MutexInv, Working, ChannelInv
    <3>2. BurstAsserts(walk[t].curr, walk[t].len)
      BY <1>1, <2>0, BurstInMemory
    <3> QED  BY <3>1, <3>2, BeatsOfBurst DEF NumBeats, BurstAsserts
  <2>1. ASSUME call[t].op = "write", Collecting(t)
        PROVE  OnTheWay(t) = walk[t].i /\ Len(d) = 0
    BY <2>1, <2>t DEF Collecting, OnTheWay, Idle
  <2>2. ASSUME pc[t] = "send", call[t].op = "write"
        PROVE  OnTheWay(t) = walk[t].i
    BY <2>0, <2>1, <2>2 DEF BurstPhase
  <2>3. ASSUME pc[t] = "recv", call[t].op = "write"
        PROVE  OnTheWay(t) + Len(d) * NumBeats(t) = NumBeats(t)
    <3>1. CASE Collecting(t)
      <4>1. walk[t].i = NumBeats(t)
        BY <1>1, <2>3 DEF IInv, WalkInv, WalkOK
      <4> QED  BY <2>0, <2>1, <2>3, <3>1, <4>1
    <3>2. CASE Acknowledging
      <4>1. OnTheWay(t) = NumBeats(t) /\ Len(d) = 0
        BY <2>0, <2>3, <3>2 DEF Acknowledging, OnTheWay
      <4> QED  BY <2>0, <2>3, <4>1
    <3>3. CASE Acknowledged
      <4>1. OnTheWay(t) = 0 /\ Len(d) = 1
        BY <2>3, <3>3 DEF Acknowledged, OnTheWay, Idle
      <4> QED  BY <2>0, <2>3, <4>1
    <3> QED  BY <2>0, <2>3, <3>1, <3>2, <3>3 DEF BurstPhase
  <2>4. ASSUME pc[t] = "recv", call[t].op = "read"
        PROVE  walk[t].i + Len(d) + OnTheWay(t) = NumBeats(t)
    <3>1. CASE Asked(t)
      <4>1. OnTheWay(t) = 1 * NumBeats(t) /\ Len(d) = 0 /\ walk[t].i = 0
        BY <2>4, <3>1 DEF Asked, OnTheWay, Idle
      <4> QED  BY <2>0, <2>4, <4>1
    <3>2. CASE Answering(t) /\ mgr = Idle
      <4>1. OnTheWay(t) = 0 * NumBeats(t) /\ walk[t].i + Len(d) = NumBeats(t)
        BY <2>4, <3>2 DEF Answering, OnTheWay, Idle
      <4> QED  BY <2>0, <2>4, <4>1
    <3>3. CASE Answering(t) /\ mgr # Idle
      <4>1. OnTheWay(t) = NumBeats(t) - mgr.count
            /\ walk[t].i + Len(d) = mgr.count
        BY <2>4, <3>3 DEF Answering, OnTheWay
      <4> QED  BY <2>0, <2>4, <2>t, <4>1
    <3> QED  BY <2>0, <2>4, <3>1, <3>2, <3>3 DEF BurstPhase
  <2> QED  BY <2>2, <2>3, <2>4
<1> QED  BY <1>1, Invariance, PTL

-----------------------------------------------------------------------------
(***************************************************************************)
(* Beats of aligned numbers add up.                                        *)
(***************************************************************************)

LEMMA BeatsOfSum ==
  ASSUME NEW x \in Nat, NEW y \in Nat, Aligned(x), Aligned(y)
  PROVE  /\ Beats(x) \in Nat /\ Beats(x + y) = Beats(x) + Beats(y)
         /\ Aligned(x + y)
<1>1. BeatBytes \in {1, 2, 4, 8, 16, 32}
  BY BundleAssumption DEF BeatSizes
<1> QED  BY <1>1 DEF Beats, Aligned

LEMMA BeatsOfDifference ==
  ASSUME NEW x \in Nat, NEW y \in Nat, Aligned(x), Aligned(y), y <= x
  PROVE  /\ x - y \in Nat /\ Aligned(x - y)
         /\ Beats(x - y) = Beats(x) - Beats(y) /\ Beats(x - y) \in Nat
<1>1. x - y \in Nat /\ Aligned(x - y)
  BY AlignedSubtract
<1>2. Beats(x - y) \in Nat /\ Beats(y) \in Nat /\ Beats((x - y) + y) = Beats(x - y) + Beats(y)
  BY <1>1, BeatsOfSum
<1>3. (x - y) + y = x
  OBVIOUS
<1> QED  BY <1>1, <1>2, <1>3, BeatsOfSum

\* Only nothing has no beats.
LEMMA BeatsPositive ==
  ASSUME NEW x \in Nat, Aligned(x)
  PROVE  Beats(x) \in Nat /\ (Beats(x) = 0 <=> x = 0)
<1>1. BeatBytes \in {1, 2, 4, 8, 16, 32}
  BY BundleAssumption DEF BeatSizes
<1> QED  BY <1>1 DEF Beats, Aligned

\* The beats that fit into a number of bytes, whole beats or not.
LEMMA BeatsMonotone ==
  ASSUME NEW x \in Nat, NEW y \in Nat, x <= y
  PROVE  Beats(x) \in Nat /\ Beats(y) \in Nat /\ Beats(x) <= Beats(y)
<1>1. BeatBytes \in {1, 2, 4, 8, 16, 32}
  BY BundleAssumption DEF BeatSizes
<1> QED  BY <1>1 DEF Beats

(***************************************************************************)
(* The beats of the call that holds the mutex: those of the finished       *)
(* bursts, then those that remain, among them the burst in progress.       *)
(***************************************************************************)
LEMMA HolderBeats ==
  ASSUME IInv, NEW t \in Threads, pc[t] \in Working
  PROVE  /\ Moved(t) \in Nat /\ Beats(call[t].taddr) \in Nat
         /\ Beats(walk[t].remaining) \in Nat /\ Beats(call[t].nbytes) \in Nat
         /\ Beats(MaxTransferBytes) \in Nat /\ Beats(MemBytes) \in Nat
         /\ Beats(walk[t].curr) = Beats(call[t].taddr) + Moved(t)
         /\ Moved(t) + Beats(walk[t].remaining) = Beats(call[t].nbytes)
         /\ Beats(call[t].nbytes) >= 1
         /\ Beats(call[t].nbytes) <= Beats(MaxTransferBytes)
         /\ Beats(call[t].taddr) + Beats(call[t].nbytes) <= Beats(MemBytes)
         /\ walk[t].remaining = 0 <=> Beats(walk[t].remaining) = 0
         /\ pc[t] # "walk" => /\ NumBeats(t) \in Nat /\ NumBeats(t) >= 1
                              /\ NumBeats(t) <= Beats(walk[t].remaining)
                              /\ Aligned(walk[t].len)
<1>1. /\ walk[t].curr \in Nat /\ walk[t].remaining \in Nat
      /\ walk[t].len \in Nat /\ walk[t].len \in Sizes
      /\ call[t].taddr \in Nat /\ call[t].nbytes \in Nat
  BY Numbers DEF IInv
<1>2. /\ call[t].taddr <= walk[t].curr
      /\ walk[t].curr + walk[t].remaining = call[t].taddr + call[t].nbytes
      /\ Aligned(walk[t].curr) /\ Aligned(walk[t].remaining)
  BY DEF IInv, WalkInv, WalkOK
<1>3. /\ Aligned(call[t].taddr) /\ Aligned(call[t].nbytes)
      /\ call[t].nbytes >= BeatBytes /\ call[t].nbytes <= MaxTransferBytes
      /\ call[t].taddr + call[t].nbytes <= MemBytes
  BY HeldChunk
<1> DEFINE x == walk[t].curr - call[t].taddr
<1>4. x \in Nat /\ Aligned(x) /\ Moved(t) = Beats(x) /\ Moved(t) \in Nat
      /\ Moved(t) = Beats(walk[t].curr) - Beats(call[t].taddr)
      /\ x + walk[t].remaining = call[t].nbytes
  <2>1. /\ x \in Nat /\ Aligned(x) /\ Beats(x) \in Nat
        /\ Beats(x) = Beats(walk[t].curr) - Beats(call[t].taddr)
    BY <1>1, <1>2, <1>3, BeatsOfDifference
  <2>2. x + walk[t].remaining = call[t].nbytes
    BY <1>1, <1>2
  <2> QED  BY <2>1, <2>2 DEF Moved
<1> HIDE DEF x
<1>5. /\ Beats(call[t].taddr) \in Nat /\ Beats(walk[t].curr) \in Nat
      /\ Beats(walk[t].remaining) \in Nat /\ Beats(call[t].nbytes) \in Nat
      /\ Beats(MaxTransferBytes) \in Nat /\ Beats(MemBytes) \in Nat
      /\ walk[t].remaining = 0 <=> Beats(walk[t].remaining) = 0
  BY <1>1, <1>2, <1>3, Params, BeatsPositive, BeatsMonotone
<1>6. Moved(t) + Beats(walk[t].remaining) = Beats(call[t].nbytes)
  <2>1. Beats(x + walk[t].remaining) = Beats(x) + Beats(walk[t].remaining)
    BY <1>1, <1>2, <1>4, BeatsOfSum
  <2> QED  BY <1>4, <2>1
<1>7. Beats(call[t].nbytes) >= 1
  BY <1>1, <1>3, <1>5, Params, BeatsPositive
<1>8. Beats(call[t].nbytes) <= Beats(MaxTransferBytes)
  BY <1>1, <1>3, Params, BeatsMonotone
<1>9. Beats(call[t].taddr) + Beats(call[t].nbytes) <= Beats(MemBytes)
  <2> DEFINE last == call[t].taddr + call[t].nbytes
  <2>1. Beats(last) = Beats(call[t].taddr) + Beats(call[t].nbytes)
    BY <1>1, <1>3, BeatsOfSum
  <2>2. last \in Nat /\ last <= MemBytes
    BY <1>1, <1>3
  <2> HIDE DEF last
  <2>3. Beats(last) <= Beats(MemBytes)
    BY <2>2, Params, BeatsMonotone
  <2> QED  BY <2>1, <2>3
<1>10. ASSUME pc[t] # "walk"
       PROVE  /\ NumBeats(t) \in Nat /\ NumBeats(t) >= 1
              /\ NumBeats(t) <= Beats(walk[t].remaining) /\ Aligned(walk[t].len)
  <2>1. walk[t].len >= BeatBytes /\ walk[t].len <= walk[t].remaining
    BY <1>10, BurstInMemory DEF Working, BurstAsserts
  <2>2. /\ Aligned(walk[t].len)
        /\ Beats(walk[t].len) \in Nat /\ Beats(walk[t].len) >= 1
    BY <1>1, <2>1, BeatsOfBurst
  <2>3. Beats(walk[t].len) <= Beats(walk[t].remaining)
    BY <1>1, <1>2, <2>1, <2>2, BeatsMonotone
  <2> QED  BY <2>2, <2>3 DEF NumBeats
<1>11. Beats(walk[t].curr) = Beats(call[t].taddr) + Moved(t)
  BY <1>4, <1>5
<1> QED  BY <1>4, <1>5, <1>6, <1>7, <1>8, <1>9, <1>10, <1>11

-----------------------------------------------------------------------------
(***************************************************************************)
(* Progress: the steps the burst in progress has behind it, case by case.  *)
(***************************************************************************)
StepView(t) ==
  /\ pc[t] = "walk" => StepsDone(t) = 0
  /\ pc[t] # "walk" /\ call[t].op = "write" =>
       /\ mgr.state = "put" => StepsDone(t) = 1 + walk[t].i + (1 + mgr.count)
       /\ mgr.state = "ack" => StepsDone(t) = 1 + walk[t].i + (1 + NumBeats(t))
       /\ mgr.state = "idle" /\ d = <<>> => StepsDone(t) = 1 + walk[t].i + 0
       /\ mgr.state = "idle" /\ d # <<>> =>
            StepsDone(t) = 1 + walk[t].i + (2 + NumBeats(t))
  /\ pc[t] = "send" /\ call[t].op # "write" => StepsDone(t) = 1
  /\ pc[t] = "recv" /\ call[t].op # "write" =>
       /\ a # <<>> => StepsDone(t) = 2 + walk[t].i + 0
       /\ a = <<>> => StepsDone(t) = 2 + walk[t].i + (1 + walk[t].i + Len(d))

LEMMA StepViews == ASSUME NEW t \in Threads PROVE StepView(t) /\ StepView(t)'
<1>1. StepView(t)
  BY DEF StepView, StepsDone
<1>2. StepView(t)'
  BY DEF StepView, StepsDone
<1> QED  BY <1>1, <1>2

\* The state of the channels, the manager and the holder, as numbers.
LEMMA HolderNumbers ==
  ASSUME IInv, failed = "no", NEW t \in Threads, lock_ = t
  PROVE  /\ walk[t].i \in Nat /\ mgr.count \in Nat /\ Len(a) \in Nat /\ Len(d) \in Nat
         /\ (a = <<>> <=> Len(a) = 0) /\ (d = <<>> <=> Len(d) = 0)
         /\ ACapacity \in Nat /\ ACapacity >= 1 /\ DCapacity \in Nat /\ DCapacity >= 1
         /\ pc[t] \in Working /\ call[t].op \in {"read", "write"} /\ BurstPhase(t)
         /\ WalkOK(t)
<1>1. walk[t].i \in Nat
  BY Numbers DEF IInv
<1>2. mgr.count \in Nat /\ a \in Seq(AMessages) /\ d \in Seq(DMessages)
  BY DEF IInv, TypeOK
<1>3. pc[t] \in Working /\ BurstPhase(t) /\ WalkOK(t)
  BY DEF IInv, MutexInv, ChannelInv, WalkInv
<1>4. call[t].op \in {"read", "write"}
  BY <1>3 DEF IInv, CallInv, CallOK
<1> QED  BY <1>1, <1>2, <1>3, <1>4, InterfaceAssumption

\* A write's requests on A and the beats the manager counts belong to one burst.
LEMMA CollectingNumbers ==
  ASSUME IInv, failed = "no", NEW t \in Threads, lock_ = t, pc[t] # "walk",
         call[t].op = "write", Collecting(t)
  PROVE  /\ Len(a) + mgr.count = walk[t].i /\ walk[t].i <= NumBeats(t)
         /\ d = <<>>
         /\ \/ mgr.state = "idle" /\ mgr.count = 0
            \/ mgr.state = "put" /\ mgr.count < NumBeats(t)
<1>1. pc[t] \in {"send", "recv"} /\ walk[t].i \in Nat /\ WalkOK(t)
  BY HolderNumbers DEF Working
<1>2. NumBeats(t) \in Nat
  BY <1>1, HolderBeats DEF Working
<1>3. walk[t].i <= NumBeats(t)
  BY <1>1, <1>2 DEF WalkOK
<1>4. CASE mgr = Idle
  BY <1>3, <1>4 DEF Collecting, Idle
<1>5. CASE mgr.state = "put" /\ ThisBurst(mgr, t)
  <2>1. mgr.count < Beats(mgr.size) /\ mgr.size = walk[t].len
    BY <1>5 DEF IInv, MgrInv, ThisBurst
  <2> QED  BY <1>3, <1>5, <2>1 DEF Collecting, NumBeats
<1> QED  BY <1>4, <1>5 DEF Collecting

\* The beats of a read that are answered: received, or on D.
LEMMA AnswerNumbers ==
  ASSUME IInv, failed = "no", NEW t \in Threads, lock_ = t, pc[t] # "walk",
         Answering(t)
  PROVE  /\ a = <<>> /\ walk[t].i + Len(d) <= NumBeats(t)
         /\ \/ mgr.state = "idle" /\ walk[t].i + Len(d) = NumBeats(t)
            \/ mgr.state = "get"
<1>1. /\ walk[t].i \in Nat /\ mgr.count \in Nat /\ Len(d) \in Nat
      /\ NumBeats(t) \in Nat
  BY HolderNumbers, HolderBeats
<1>2. CASE mgr = Idle /\ walk[t].i + Len(d) = NumBeats(t)
  BY <1>1, <1>2 DEF Answering, Idle
<1>3. CASE mgr.state = "get" /\ ThisBurst(mgr, t) /\ walk[t].i + Len(d) = mgr.count
  <2>1. mgr.count < Beats(mgr.size) /\ mgr.size = walk[t].len
    BY <1>3 DEF IInv, MgrInv, ThisBurst
  <2> QED  BY <1>1, <1>3, <2>1 DEF Answering, NumBeats
<1> QED  BY <1>2, <1>3 DEF Answering

LEMMA StepSums ==
  ASSUME NEW i \in Nat, NEW c \in Nat, NEW n \in Nat, i <= n
  PROVE  /\ c < n => /\ 1 + i + (1 + c) \in Nat
                    /\ 1 + i + (1 + c) <= 2 * n + 3
         /\ i + c <= n /\ i < n => /\ 2 + i + (1 + i + c) \in Nat
                                  /\ 2 + i + (1 + i + c) <= 2 * n + 3
OBVIOUS

LEMMA FirstSteps ==
  ASSUME NEW i \in Nat, NEW n \in Nat, i <= n, n >= 1
  PROVE  /\ 1 + i + 0 \in Nat /\ 1 + i + 0 <= 2 * n + 3
         /\ 2 + i + 0 \in Nat /\ 2 + i + 0 <= 2 * n + 3
OBVIOUS

\* A burst takes fewer steps than six for each of its beats.
LEMMA StepsBounded ==
  ASSUME IInv, failed = "no", NEW t \in Threads, lock_ = t
  PROVE  /\ StepsDone(t) \in Nat
         /\ pc[t] = "walk" => StepsDone(t) = 0
         /\ pc[t] # "walk" => StepsDone(t) <= 2 * NumBeats(t) + 3
<1>1. /\ walk[t].i \in Nat /\ mgr.count \in Nat /\ Len(a) \in Nat /\ Len(d) \in Nat
      /\ pc[t] \in {"walk", "send", "recv"} /\ call[t].op \in {"read", "write"}
      /\ BurstPhase(t) /\ WalkOK(t)
  BY HolderNumbers DEF Working
<1>2. ASSUME pc[t] # "walk" PROVE NumBeats(t) \in Nat /\ NumBeats(t) >= 1
  BY <1>1, <1>2, HolderBeats DEF Working
<1>3. CASE pc[t] = "walk"
  BY <1>3, StepViews DEF StepView
<1>4. CASE pc[t] # "walk" /\ call[t].op = "write"
  <2>1. CASE Collecting(t)
    <3>1. /\ walk[t].i <= NumBeats(t) /\ d = <<>>
          /\ \/ mgr.state = "idle"
             \/ mgr.state = "put" /\ mgr.count < NumBeats(t)
      BY <1>4, <2>1, CollectingNumbers
    <3>2. CASE mgr.state = "idle"
      <4>1. StepsDone(t) = 1 + walk[t].i + 0
        BY <1>4, <3>1, <3>2, StepViews DEF StepView
      <4>2. NumBeats(t) \in Nat /\ NumBeats(t) >= 1
        BY <1>2, <1>4
      <4>3. 1 + walk[t].i + 0 \in Nat /\ 1 + walk[t].i + 0 <= 2 * NumBeats(t) + 3
        BY <1>1, <3>1, <4>2, FirstSteps
      <4> QED  BY <1>4, <4>1, <4>3
    <3>3. CASE mgr.state = "put" /\ mgr.count < NumBeats(t)
      <4>1. StepsDone(t) = 1 + walk[t].i + (1 + mgr.count)
        BY <1>4, <3>3, StepViews DEF StepView
      <4>2. /\ 1 + walk[t].i + (1 + mgr.count) \in Nat
            /\ 1 + walk[t].i + (1 + mgr.count) <= 2 * NumBeats(t) + 3
        BY <1>1, <1>2, <1>4, <3>1, <3>3, StepSums
      <4> QED  BY <1>4, <4>1, <4>2
    <3> QED  BY <3>1, <3>2, <3>3
  <2>2. CASE (Acknowledging \/ Acknowledged) /\ pc[t] = "recv"
    <3>1. walk[t].i = NumBeats(t)
      BY <1>1, <1>4, <2>2 DEF WalkOK
    <3>2. \/ StepsDone(t) = 1 + walk[t].i + (1 + NumBeats(t))
          \/ StepsDone(t) = 1 + walk[t].i + (2 + NumBeats(t))
      BY <1>1, <1>4, <2>2, StepViews, HolderNumbers
         DEF StepView, Acknowledging, Acknowledged, Idle
    <3> QED  BY <1>2, <1>4, <3>1, <3>2
  <2> QED  BY <1>1, <1>4, <2>1, <2>2 DEF BurstPhase
<1>5. CASE pc[t] # "walk" /\ call[t].op = "read"
  <2>1. CASE pc[t] = "send"
    <3>1. StepsDone(t) = 1
      BY <1>5, <2>1, StepViews DEF StepView
    <3> QED  BY <1>2, <1>5, <3>1
  <2>2. CASE pc[t] = "recv"
    <3>1. walk[t].i < NumBeats(t)
      BY <1>1, <1>5, <2>2 DEF WalkOK
    <3>2. CASE Asked(t)
      <4>1. a # <<>>
        BY <3>2, HolderNumbers DEF Asked
      <4>2. StepsDone(t) = 2 + walk[t].i + 0
        BY <1>5, <2>2, <4>1, StepViews DEF StepView
      <4>3. walk[t].i <= NumBeats(t) /\ NumBeats(t) \in Nat /\ NumBeats(t) >= 1
        BY <1>1, <1>2, <1>5, <3>1
      <4>4. 2 + walk[t].i + 0 \in Nat /\ 2 + walk[t].i + 0 <= 2 * NumBeats(t) + 3
        BY <1>1, <4>3, FirstSteps
      <4> QED  BY <1>5, <4>2, <4>4
    <3>3. CASE Answering(t)
      <4>1. walk[t].i + Len(d) <= NumBeats(t)
        BY <1>1, <1>2, <1>5, <3>3, AnswerNumbers
      <4>2. StepsDone(t) = 2 + walk[t].i + (1 + walk[t].i + Len(d))
        BY <1>5, <2>2, <3>3, StepViews DEF StepView, Answering
      <4>3. /\ 2 + walk[t].i + (1 + walk[t].i + Len(d)) \in Nat
            /\ 2 + walk[t].i + (1 + walk[t].i + Len(d)) <= 2 * NumBeats(t) + 3
        <5>1. walk[t].i <= NumBeats(t)
          BY <1>1, <1>2, <1>5, <3>1
        <5> QED  BY <1>1, <1>2, <1>5, <3>1, <4>1, <5>1, StepSums
      <4> QED  BY <1>5, <4>2, <4>3
    <3> QED  BY <1>1, <1>5, <2>2, <3>2, <3>3 DEF BurstPhase
  <2> QED  BY <1>1, <1>5, <2>1, <2>2
<1> QED  BY <1>1, <1>3, <1>4, <1>5


\* What is left to do is bounded by the length of the call.
LEMMA WorkBounded ==
  ASSUME IInv, failed = "no", NEW t \in Threads, lock_ = t
  PROVE  /\ Beats(walk[t].remaining) \in Nat /\ Beats(call[t].nbytes) \in Nat
         /\ Work(t) \in 0 .. StepsPerBeat * Beats(call[t].nbytes)
<1>1. pc[t] \in Working
  BY HolderNumbers
<1>2. /\ Beats(walk[t].remaining) \in Nat /\ Beats(call[t].nbytes) \in Nat
      /\ Beats(walk[t].remaining) <= Beats(call[t].nbytes)
      /\ pc[t] # "walk" => /\ NumBeats(t) \in Nat /\ NumBeats(t) >= 1
                           /\ NumBeats(t) <= Beats(walk[t].remaining)
  BY <1>1, HolderBeats
<1>3. StepsDone(t) \in Nat /\ StepsDone(t) <= 6 * Beats(walk[t].remaining)
  BY <1>2, StepsBounded
<1>4. Work(t) = 6 * Beats(walk[t].remaining) - StepsDone(t)
  BY DEF Work, StepsPerBeat
<1>5. Work(t) \in 0 .. 6 * Beats(call[t].nbytes)
  BY <1>2, <1>3, <1>4
<1> QED  BY <1>2, <1>5 DEF StepsPerBeat

\* In every phase of a burst one side has something to do and room to do it.
LEMMA HolderCanStep ==
  ASSUME IInv, failed = "no", NEW t \in Threads, lock_ = t
  PROVE  CanStep(t)
<1>1. /\ walk[t].i \in Nat /\ mgr.count \in Nat /\ Len(a) \in Nat /\ Len(d) \in Nat
      /\ (a = <<>> <=> Len(a) = 0) /\ (d = <<>> <=> Len(d) = 0)
      /\ ACapacity \in Nat /\ ACapacity >= 1 /\ DCapacity \in Nat /\ DCapacity >= 1
      /\ pc[t] \in {"walk", "send", "recv"} /\ call[t].op \in {"read", "write"}
      /\ BurstPhase(t) /\ WalkOK(t)
  BY HolderNumbers DEF Working
<1>2. CASE pc[t] = "walk"
  BY <1>2 DEF CanStep
<1>3. CASE pc[t] # "walk" /\ call[t].op = "write" /\ Collecting(t)
  <2>1. Len(a) + mgr.count = walk[t].i /\ mgr.state \in {"idle", "put"}
        /\ (mgr.count = 0 \/ mgr.count < NumBeats(t))
    BY <1>3, CollectingNumbers
  <2>2. CASE a # <<>>
    BY <2>1, <2>2 DEF CanStep
  <2>3. CASE a = <<>> /\ pc[t] = "send"
    BY <1>1, <2>3 DEF CanStep, RoomInA
  <2>4. CASE a = <<>> /\ pc[t] = "recv"
    <3>1. walk[t].i = NumBeats(t) /\ NumBeats(t) >= 1
      BY <1>1, <1>3, <2>4, HolderBeats DEF WalkOK, Working
    <3> QED  BY <1>1, <2>1, <2>4, <3>1
  <2> QED  BY <1>1, <1>3, <2>2, <2>3, <2>4
<1>4. CASE Acknowledging
  BY <1>1, <1>4 DEF Acknowledging, CanStep
<1>5. CASE pc[t] = "recv" /\ Acknowledged
  BY <1>1, <1>5 DEF Acknowledged, CanStep
<1>6. CASE pc[t] = "send" /\ call[t].op = "read"
  BY <1>1, <1>6 DEF BurstPhase, Quiet, CanStep, RoomInA
<1>7. CASE Asked(t)
  BY <1>1, <1>7 DEF Asked, CanStep, Idle
<1>8. CASE pc[t] = "recv" /\ call[t].op = "read" /\ Answering(t)
  <2>1. walk[t].i < NumBeats(t)
    BY <1>1, <1>8 DEF WalkOK
  <2>2. CASE d # <<>>
    BY <1>8, <2>2 DEF CanStep
  <2>3. CASE d = <<>> /\ mgr.state = "get"
    BY <1>1, <2>3 DEF CanStep
  <2>4. CASE d = <<>> /\ mgr.state # "get"
    <3>1. walk[t].i + Len(d) = NumBeats(t)
      BY <1>1, <1>8, <2>4, AnswerNumbers
    <3> QED  BY <1>1, <2>1, <2>4, <3>1
  <2> QED  BY <2>2, <2>3, <2>4
<1> QED  BY <1>1, <1>2, <1>3, <1>4, <1>5, <1>6, <1>7, <1>8 DEF BurstPhase

(***************************************************************************)
(* No capacity of the two channels can wedge a call: as long as a thread   *)
(* holds the mutex, it or the manager can take a step, and what is left to *)
(* do is bounded (the send loop of write(), memifc.hpp:236-248, and the    *)
(* receive loop of read()).                                                *)
(***************************************************************************)
THEOREM NoWedge == Spec => []NeverWedged
<1>1. IInv => NeverWedged
  BY WorkBounded, HolderCanStep DEF NeverWedged
<1> QED  BY <1>1, Invariance, PTL

-----------------------------------------------------------------------------
(***************************************************************************)
(* Each step of the holder or of the manager is one step less to do.       *)
(***************************************************************************)

\* A step within a burst.
LEMMA BurstGoesOn ==
  ASSUME IInv, failed = "no", NEW t \in Threads, lock_ = t,
         walk'[t].remaining = walk[t].remaining,
         StepsDone(t)' = StepsDone(t) + 1
  PROVE  Work(t)' < Work(t)
<1>1. Beats(walk[t].remaining) \in Nat /\ StepsDone(t) \in Nat
  BY WorkBounded, StepsBounded
<1>2. Beats(walk'[t].remaining) = Beats(walk[t].remaining)
  BY DEF Beats
<1>3. /\ Work(t) = 6 * Beats(walk[t].remaining) - StepsDone(t)
      /\ Work(t)' = 6 * Beats(walk'[t].remaining) - StepsDone(t)'
  BY DEF Work, StepsPerBeat, Beats
<1> QED  BY <1>1, <1>2, <1>3

\* The last step of a burst.
LEMMA BurstEnds ==
  ASSUME IInv, failed = "no", NEW t \in Threads, lock_ = t, pc[t] = "recv",
         Advance(t)
  PROVE  Work(t)' < Work(t)
<1>1. /\ Beats(walk[t].remaining) \in Nat /\ NumBeats(t) \in Nat /\ NumBeats(t) >= 1
      /\ Aligned(walk[t].len)
  BY HolderBeats DEF Working
<1>2. StepsDone(t) \in Nat /\ StepsDone(t) <= 2 * NumBeats(t) + 3
  BY StepsBounded
<1>3. pc'[t] = "walk" /\ walk'[t].remaining = walk[t].remaining - walk[t].len
  BY AdvanceFacts DEF IInv, TypeOK
<1>4. Beats(walk'[t].remaining) = Beats(walk[t].remaining) - NumBeats(t)
  <2>1. /\ walk[t].remaining \in Nat /\ walk[t].len \in Nat
        /\ Aligned(walk[t].remaining) /\ walk[t].len <= walk[t].remaining
    BY Numbers DEF IInv, WalkInv, WalkOK, Working
  <2> QED  BY <1>1, <1>3, <2>1, BeatsOfDifference DEF NumBeats
<1>5. StepsDone(t)' = 0
  BY <1>3, StepViews DEF StepView
<1>6. /\ Work(t) = 6 * Beats(walk[t].remaining) - StepsDone(t)
      /\ Work(t)' = 6 * Beats(walk'[t].remaining) - StepsDone(t)'
  BY DEF Work, StepsPerBeat, Beats
<1> QED  BY <1>1, <1>2, <1>4, <1>5, <1>6

LEMMA OneStepMore ==
  ASSUME NEW i \in Nat, NEW c \in Nat
  PROVE  /\ 1 + i + (1 + (c + 1)) = 1 + i + (1 + c) + 1
         /\ 2 + i + (1 + i + (c + 1)) = 2 + i + (1 + i + c) + 1
         /\ 2 + (i + 1) + (1 + (i + 1) + (c - 1)) = 2 + i + (1 + i + c) + 1
OBVIOUS

LEMMA OneAckMore ==
  ASSUME NEW i \in Nat, NEW n \in Nat
  PROVE  1 + i + (2 + n) = 1 + i + (1 + n) + 1
OBVIOUS

LEMMA HolderStepCounts ==
  ASSUME IInv, failed = "no", NEW t \in Threads, lock_ = t,
         \/ NextBurst(t) \/ SendGet(t) \/ SendPut(t) \/ RecvData(t) \/ RecvAck(t),
         failed' = "no"
  PROVE  Work(t)' < Work(t)
<1>1. /\ walk[t].i \in Nat /\ mgr.count \in Nat /\ Len(a) \in Nat /\ Len(d) \in Nat
      /\ call[t].op \in {"read", "write"} /\ BurstPhase(t)
  BY HolderNumbers
<1>t. /\ pc \in [Threads -> {"idle", "clear", "lock", "walk", "send", "recv"}]
      /\ walk \in [Threads -> Walks]
      /\ a \in Seq(AMessages) /\ d \in Seq(DMessages)
  BY DEF IInv, TypeOK, Walks
<1>2. CASE NextBurst(t)
  <2> DEFINE chunk == AlignedChunk(walk[t].curr, walk[t].remaining)
  <2>1. /\ pc[t] = "walk" /\ UNCHANGED <<call, a, d, mgr>>
        /\ walk' = [walk EXCEPT ![t].len = chunk, ![t].i = 0]
        /\ pc' = [pc EXCEPT ![t] = "send"]
    BY <1>2, NextBurstFacts DEF NextBurst, device
  <2> HIDE DEF chunk
  <2>2. pc'[t] = "send" /\ walk'[t].i = 0 /\ walk'[t].remaining = walk[t].remaining
    BY <1>t, <2>1 DEF Walks
  <2>3. d = <<>> /\ mgr.state = "idle"
    BY <1>1, <2>1 DEF BurstPhase, Quiet, Idle
  <2>4. StepsDone(t) = 0
    BY <2>1, StepViews DEF StepView
  <2>5. call'[t].op = "write" => StepsDone(t)' = 1 + walk'[t].i + 0
    BY <2>1, <2>2, <2>3, StepViews DEF StepView
  <2>6. call'[t].op # "write" => StepsDone(t)' = 1
    BY <2>2, StepViews DEF StepView
  <2> QED  BY <2>2, <2>4, <2>5, <2>6, BurstGoesOn
<1>3. CASE SendGet(t)
  <2> DEFINE m == GetMsg(walk[t].curr, walk[t].len)
  <2>1. /\ pc[t] = "send" /\ pc'[t] = "recv" /\ call[t].op = "read"
        /\ a' = Append(a, m) /\ UNCHANGED <<call, walk>>
    BY <1>3, <1>t DEF SendGet, frames, Goto
  <2> HIDE DEF m
  <2>2. a' # <<>> /\ walk[t].i = 0
    BY <1>t, <2>1 DEF IInv, WalkInv, WalkOK
  <2>3. StepsDone(t) = 1
    BY <2>1, StepViews DEF StepView
  <2>4. StepsDone(t)' = 2 + walk'[t].i + 0
    BY <2>1, <2>2, StepViews DEF StepView
  <2> QED  BY <2>1, <2>2, <2>3, <2>4, BurstGoesOn
<1>4. CASE SendPut(t)
  <2>1. /\ pc[t] = "send" /\ pc'[t] \in {"send", "recv"} /\ call[t].op = "write"
        /\ walk'[t].i = walk[t].i + 1 /\ walk'[t].remaining = walk[t].remaining
        /\ UNCHANGED <<call, d, mgr>>
    BY <1>4, <1>t DEF SendPut, Goto, Walks, device
  <2>2. d = <<>> /\ mgr.state \in {"idle", "put"}
    BY <1>1, <2>1, CollectingNumbers DEF BurstPhase
  <2>3. CASE mgr.state = "idle"
    <3>1. StepsDone(t) = 1 + walk[t].i + 0 /\ StepsDone(t)' = 1 + walk'[t].i + 0
      BY <2>1, <2>2, <2>3, StepViews DEF StepView
    <3> QED  BY <1>1, <2>1, <3>1, BurstGoesOn
  <2>4. CASE mgr.state = "put"
    <3>1. /\ StepsDone(t) = 1 + walk[t].i + (1 + mgr.count)
          /\ StepsDone(t)' = 1 + walk'[t].i + (1 + mgr'.count)
      BY <2>1, <2>4, StepViews DEF StepView
    <3>2. StepsDone(t)' = 1 + (walk[t].i + 1) + (1 + mgr.count)
      BY <2>1, <3>1
    <3> QED  BY <1>1, <2>1, <3>1, <3>2, BurstGoesOn
  <2> QED  BY <2>2, <2>3, <2>4
<1>5. CASE RecvData(t)
  <2>1. /\ pc[t] = "recv" /\ call[t].op = "read" /\ d # <<>> /\ d' = Tail(d)
        /\ UNCHANGED <<call, a, mgr>>
    BY <1>5 DEF RecvData, device
  <2>2. CASE Advance(t)
    BY <2>1, <2>2, BurstEnds
  <2>3. CASE walk' = [walk EXCEPT ![t].i = @ + 1] /\ UNCHANGED pc
    <3>1. /\ walk'[t].i = walk[t].i + 1 /\ walk'[t].remaining = walk[t].remaining
          /\ pc'[t] = "recv"
      BY <1>t, <2>1, <2>3 DEF Walks
    <3>2. a = <<>>
      BY <2>1, DataForReader DEF Answering
    <3>3. Len(d') = Len(d) - 1
      BY <1>t, <2>1, TailFacts
    <3>4. StepsDone(t) = 2 + walk[t].i + (1 + walk[t].i + Len(d))
      BY <2>1, <3>2, StepViews DEF StepView
    <3>5. StepsDone(t)' = 2 + walk'[t].i + (1 + walk'[t].i + Len(d'))
      BY <2>1, <3>1, <3>2, StepViews DEF StepView
    <3>6. StepsDone(t)' = 2 + (walk[t].i + 1) + (1 + (walk[t].i + 1) + (Len(d) - 1))
      BY <3>1, <3>3, <3>5
    <3>7. StepsDone(t)' = StepsDone(t) + 1
      <4>1. 2 + (walk[t].i + 1) + (1 + (walk[t].i + 1) + (Len(d) - 1))
              = 2 + walk[t].i + (1 + walk[t].i + Len(d)) + 1
        BY <1>1, OneStepMore
      <4> QED  BY <3>4, <3>6, <4>1
    <3> QED  BY <3>1, <3>7, BurstGoesOn
  <2> QED  BY <1>5, <2>2, <2>3 DEF RecvData, ResponseAborts, Abort
<1>6. CASE RecvAck(t)
  <2>1. pc[t] = "recv" /\ Advance(t)
    BY <1>6 DEF RecvAck, ResponseAborts, Abort
  <2> QED  BY <2>1, BurstEnds
<1> QED  BY <1>2, <1>3, <1>4, <1>5, <1>6

LEMMA ManagerStepCounts ==
  ASSUME IInv, failed = "no", NEW t \in Threads, lock_ = t, Manager
  PROVE  Work(t)' < Work(t)
<1>1. /\ walk[t].i \in Nat /\ mgr.count \in Nat /\ Len(a) \in Nat /\ Len(d) \in Nat
      /\ pc[t] \in {"walk", "send", "recv"} /\ call[t].op \in {"read", "write"}
      /\ BurstPhase(t)
  BY HolderNumbers DEF Working
<1>t. a \in Seq(AMessages) /\ d \in Seq(DMessages) /\ mgr \in Requests
  BY DEF IInv, TypeOK, Requests
<1>2. UNCHANGED <<pc, call, walk>>
  BY DEF Manager, MgrTakeRequest, MgrTakeBeat, MgrAck, MgrSendData, frames
<1>3. NumBeats(t)' = NumBeats(t)
  BY <1>2 DEF NumBeats, Beats
<1>n. pc[t] # "walk" => NumBeats(t) \in Nat
  BY <1>1, HolderBeats DEF Working
<1>4. CASE MgrTakeRequest
  <2>1. /\ mgr.state = "idle" /\ a # <<>> /\ mgr'.count = 0 /\ UNCHANGED d
        /\ mgr'.state = IF Head(a).opcode = "Get" THEN "get" ELSE "put"
        /\ a' = IF Head(a).opcode = "Get" THEN Tail(a) ELSE a
    BY <1>4, <1>t DEF MgrTakeRequest
  <2>2. /\ pc[t] \in {"send", "recv"}
        /\ \/ call[t].op = "write" /\ Collecting(t)
           \/ pc[t] = "recv" /\ call[t].op = "read" /\ Asked(t)
    BY <2>1, RequestFromHolder
  <2>3. Head(a).opcode = IF call[t].op = "read" THEN "Get" ELSE "PutFullData"
    BY <1>t, <2>1, RequestFromHolder, TailFacts
  <2>4. CASE call[t].op = "write" /\ Collecting(t)
    <3>1. d = <<>> /\ mgr'.state = "put"
      BY <2>1, <2>3, <2>4 DEF Collecting
    <3>2. StepsDone(t) = 1 + walk[t].i + 0
      BY <2>1, <2>2, <2>4, <3>1, StepViews DEF StepView
    <3>3. StepsDone(t)' = 1 + walk'[t].i + (1 + mgr'.count)
      BY <1>2, <2>2, <2>4, <3>1, StepViews DEF StepView
    <3>4. StepsDone(t) = 1 + walk[t].i + 0 /\ StepsDone(t)' = 1 + walk[t].i + (1 + 0)
      BY <1>2, <2>1, <3>2, <3>3
    <3>5. StepsDone(t)' = StepsDone(t) + 1
      BY <1>1, <3>4
    <3> QED  BY <1>2, <3>5, BurstGoesOn
  <2>5. CASE pc[t] = "recv" /\ call[t].op = "read" /\ Asked(t)
    <3>1. Len(a) = 1 /\ d = <<>> /\ Len(d) = 0 /\ walk[t].i = 0
      BY <2>5 DEF Asked
    <3>2. a' = <<>>
      BY <1>t, <2>1, <2>3, <2>5, <3>1, TailFacts, EmptySeq
    <3>3. StepsDone(t) = 2 + walk[t].i + 0
      BY <2>1, <2>5, StepViews DEF StepView
    <3>4. StepsDone(t)' = 2 + walk'[t].i + (1 + walk'[t].i + Len(d'))
      BY <1>2, <2>5, <3>2, StepViews DEF StepView
    <3>5. StepsDone(t)' = StepsDone(t) + 1
      BY <1>2, <2>1, <3>1, <3>3, <3>4
    <3> QED  BY <1>2, <3>5, BurstGoesOn
  <2> QED  BY <2>2, <2>4, <2>5
<1>5. CASE MgrTakeBeat
  <2>1. /\ mgr.state = "put" /\ a # <<>> /\ UNCHANGED d
        /\ mgr' = IF MgrLast THEN [mgr EXCEPT !.state = "ack", !.count = 0]
                             ELSE [mgr EXCEPT !.count = @ + 1]
    BY <1>5 DEF MgrTakeBeat
  <2>2. pc[t] \in {"send", "recv"} /\ call[t].op = "write" /\ Collecting(t)
    BY <2>1, RequestFromHolder DEF Asked, Idle
  <2>3. ThisBurst(mgr, t)
    BY <2>1, <2>2 DEF Collecting, Idle
  <2>4. StepsDone(t) = 1 + walk[t].i + (1 + mgr.count)
    BY <2>1, <2>2, StepViews DEF StepView
  <2>5. CASE MgrLast
    <3>1. mgr'.state = "ack"
      BY <1>t, <2>1, <2>5 DEF Requests
    <3>2. NumBeats(t) = mgr.count + 1
      BY <2>3, <2>5 DEF MgrLast, ThisBurst, NumBeats
    <3>3. StepsDone(t)' = 1 + walk'[t].i + (1 + NumBeats(t)')
      BY <1>2, <2>2, <3>1, StepViews DEF StepView
    <3>4. StepsDone(t)' = 1 + walk[t].i + (1 + (mgr.count + 1))
      BY <1>2, <1>3, <3>2, <3>3
    <3>5. 1 + walk[t].i + (1 + (mgr.count + 1))
            = 1 + walk[t].i + (1 + mgr.count) + 1
      BY <1>1, OneStepMore
    <3>6. StepsDone(t)' = StepsDone(t) + 1
      BY <2>4, <3>4, <3>5
    <3> QED  BY <1>2, <3>6, BurstGoesOn
  <2>6. CASE ~MgrLast
    <3>1. mgr'.state = "put" /\ mgr'.count = mgr.count + 1
      BY <1>t, <2>1, <2>6 DEF Requests
    <3>2. StepsDone(t)' = 1 + walk'[t].i + (1 + mgr'.count)
      BY <1>2, <2>2, <3>1, StepViews DEF StepView
    <3>3. StepsDone(t)' = 1 + walk[t].i + (1 + (mgr.count + 1))
      BY <1>2, <3>1, <3>2
    <3>4. 1 + walk[t].i + (1 + (mgr.count + 1))
            = 1 + walk[t].i + (1 + mgr.count) + 1
      BY <1>1, OneStepMore
    <3>5. StepsDone(t)' = StepsDone(t) + 1
      BY <2>4, <3>3, <3>4
    <3> QED  BY <1>2, <3>5, BurstGoesOn
  <2> QED  BY <2>5, <2>6
<1>6. CASE MgrAck
  <2> DEFINE m == DMsg("AccessAck", Blank, mgr.denied)
  <2>1. mgr.state = "ack" /\ mgr'.state = "idle" /\ d' = Append(d, m)
    BY <1>6 DEF MgrAck, Idle
  <2> HIDE DEF m
  <2>2. pc[t] = "recv" /\ call[t].op = "write"
    BY <2>1, HolderPhase
       DEF Quiet, Collecting, Acknowledging, Acknowledged, Asked, Answering, Idle
  <2>3. d' # <<>>
    BY <1>t, <2>1
  <2>4. StepsDone(t) = 1 + walk[t].i + (1 + NumBeats(t))
    BY <2>1, <2>2, StepViews DEF StepView
  <2>5. StepsDone(t)' = 1 + walk'[t].i + (2 + NumBeats(t)')
    BY <1>2, <2>1, <2>2, <2>3, StepViews DEF StepView
  <2>6. StepsDone(t)' = 1 + walk[t].i + (2 + NumBeats(t))
    BY <1>2, <1>3, <2>5
  <2>7. NumBeats(t) \in Nat
    BY <1>n, <2>2
  <2>8. 1 + walk[t].i + (2 + NumBeats(t))
          = 1 + walk[t].i + (1 + NumBeats(t)) + 1
    BY <1>1, <2>7, OneAckMore
  <2>9. StepsDone(t)' = StepsDone(t) + 1
    BY <2>4, <2>6, <2>8
  <2> QED  BY <1>2, <2>9, BurstGoesOn
<1>7. CASE MgrSendData
  <2> DEFINE m == DMsg("AccessAckData", mem[MgrBeat], mgr.denied)
  <2>1. mgr.state = "get" /\ d' = Append(d, m) /\ UNCHANGED a
    BY <1>7 DEF MgrSendData
  <2> HIDE DEF m
  <2>2. pc[t] = "recv" /\ call[t].op = "read" /\ Answering(t)
    BY <2>1, HolderPhase
       DEF Quiet, Collecting, Acknowledging, Acknowledged, Asked, Idle
  <2>3. Len(d') = Len(d) + 1
    BY <1>t, <2>1
  <2>4. a = <<>>
    BY <2>2 DEF Answering
  <2>5. StepsDone(t) = 2 + walk[t].i + (1 + walk[t].i + Len(d))
    BY <2>2, <2>4, StepViews DEF StepView
  <2>6. StepsDone(t)' = 2 + walk'[t].i + (1 + walk'[t].i + Len(d'))
    BY <1>2, <2>1, <2>2, <2>4, StepViews DEF StepView
  <2>7. StepsDone(t)' = 2 + walk[t].i + (1 + walk[t].i + (Len(d) + 1))
    BY <1>2, <2>3, <2>6
  <2>8. StepsDone(t)' = StepsDone(t) + 1
    <3>1. 2 + walk[t].i + (1 + walk[t].i + (Len(d) + 1))
            = 2 + walk[t].i + (1 + walk[t].i + Len(d)) + 1
      BY <1>1, OneStepMore
    <3> QED  BY <2>5, <2>7, <3>1
  <2> QED  BY <1>2, <2>8, BurstGoesOn
<1> QED  BY <1>4, <1>5, <1>6, <1>7 DEF Manager

(***************************************************************************)
(* Every step of the holder of the mutex and of the manager brings the     *)
(* holder's call nearer to its return: with NoWedge, a call of n beats     *)
(* gives the mutex back, or aborts, within 6 n of these steps.             *)
(***************************************************************************)
THEOREM BoundedSteps == Spec => EveryStepCounts
<1>1. ASSUME IInv, [Next]_vars, NEW t \in Threads,
             lock_ = t, lock_' = t, failed' = "no",
             ~UNCHANGED <<pc[t], walk[t], a, d, mgr>>
      PROVE  Work(t)' < Work(t)
  <2>t. /\ pc \in [Threads -> {"idle", "clear", "lock", "walk", "send", "recv"}]
        /\ pc[t] \in Working
    BY <1>1 DEF IInv, TypeOK, MutexInv
  <2>f. failed = "no" /\ ~UNCHANGED vars
    BY <1>1 DEF Next, Manager, MgrTakeRequest, MgrTakeBeat, MgrAck, MgrSendData, vars
  <2>1. ASSUME NEW u \in Threads, Invoke(u) \/ ClearBlock(u) \/ ClearReturn(u)
        PROVE  FALSE
    BY <1>1, <2>t, <2>1
       DEF Invoke, ReadChunk, WriteChunk, ClearChunk, ClearBlock, ClearReturn,
           EnterChunk, Goto, Working, device
  <2>2. ASSUME NEW u \in Threads, Lock(u) \/ Unlock(u)
        PROVE  FALSE
    BY <1>1, <2>2, InterfaceAssumption DEF Lock, MutexFree, Unlock
  <2>3. ASSUME NEW u \in Threads,
               NextBurst(u) \/ SendGet(u) \/ SendPut(u) \/ RecvData(u) \/ RecvAck(u)
        PROVE  Work(t)' < Work(t)
    <3>1. u = t
      BY <1>1, <2>3
         DEF NextBurst, SendGet, SendPut, RecvData, RecvAck, IInv, MutexInv, Working
    <3> QED  BY <1>1, <2>3, <2>f, <3>1, HolderStepCounts
  <2>4. CASE Manager
    BY <1>1, <2>4, <2>f, ManagerStepCounts
  <2> QED  BY <1>1, <2>f, <2>1, <2>2, <2>3, <2>4 DEF Next, InCall
<1>2. IInv /\ [Next]_vars =>
        [\A t \in Threads :
           /\ lock_ = t /\ lock_' = t /\ failed' = "no"
           /\ ~UNCHANGED <<pc[t], walk[t], a, d, mgr>>
           => Work(t)' < Work(t)]_vars
  BY <1>1
<1> QED  BY <1>2, Invariance, PTL DEF Spec, EveryStepCounts

=============================================================================
