---------------------- MODULE ClientTLMemIfcRefinement ----------------------
(***************************************************************************)
(* ClientTLMemIfc implements ChunkedMem, for any threads, memory, channel  *)
(* capacities and bus parameters, whether the manager may deny or not.     *)
(* FrameInv and DataInv are added to the inductive invariant IInv; then    *)
(* every step is the step of ChunkedMem that the refinement mapping says,  *)
(* or changes nothing a caller can see.                                    *)
(***************************************************************************)
EXTENDS ClientTLMemIfcProofs

-----------------------------------------------------------------------------
(***************************************************************************)
(* The frames.                                                             *)
(***************************************************************************)

LEMMA FrameKept ==
  ASSUME NEW u, FrameOK(u), UNCHANGED <<pc[u], call[u], clear[u], walk[u]>>
  PROVE  FrameOK(u)'
BY DEF FrameOK, Working

\* A step of the thread that is inside a chunk.
LEMMA FrameMoves ==
  ASSUME NEW u, FrameOK(u), UNCHANGED <<call[u], clear[u]>>,
         pc[u] \in Working \cup {"lock"}, pc'[u] \in Working,
         pc'[u] = "walk" => walk'[u].i = 0
  PROVE  FrameOK(u)'
BY DEF FrameOK, Working

LEMMA FrameInit == Init => FrameInv
BY DEF Init, FrameInv, FrameOK, Working, NoCall, NoWalk, NoClear, WalkOver

LEMMA FrameStep == IInv /\ FrameInv /\ [Next]_vars => FrameInv'
<1> SUFFICES ASSUME IInv, FrameInv, [Next]_vars, NEW u \in Threads
             PROVE  FrameOK(u)'
  BY DEF FrameInv
<1>0. FrameOK(u) /\ CallOK(u) /\ TypeOK
  BY DEF FrameInv, IInv, CallInv
<1>t. /\ pc \in [Threads -> {"idle", "clear", "lock", "walk", "send", "recv"}]
      /\ call \in [Threads -> Calls] /\ clear \in [Threads -> Ranges]
      /\ walk \in [Threads -> Walks]
  BY <1>0 DEF TypeOK, Calls, Ranges, Walks
<1> USE DEF Goto
<1>1. ASSUME NEW t \in Threads, Invoke(t) PROVE FrameOK(u)'
  <2>1. CASE u # t
    BY <1>0, <1>1, <1>t, <2>1, FrameKept
       DEF Invoke, ReadChunk, WriteChunk, ClearChunk, EnterChunk
  <2>2. CASE u = t
    <3>1. pc[t] = "idle" /\ clear[t].remaining = 0 /\ call[t].op = "none"
      BY <1>0, <1>1, <2>2 DEF Invoke, ReadChunk, WriteChunk, ClearChunk, CallOK, FrameOK
    <3>2. CASE ClearChunk(t)
      BY <1>t, <2>2, <3>1, <3>2 DEF ClearChunk, FrameOK, Working
    <3>3. CASE ReadChunk(t) \/ WriteChunk(t)
      <4>1. pc'[t] = "lock" /\ clear'[t].remaining = 0
        BY <1>t, <3>1, <3>3 DEF ReadChunk, WriteChunk, EnterChunk
      <4> QED  BY <2>2, <4>1 DEF FrameOK, Working
    <3> QED  BY <1>1, <3>2, <3>3 DEF Invoke
  <2> QED  BY <2>1, <2>2
<1>2. ASSUME NEW t \in Threads, ClearBlock(t) PROVE FrameOK(u)'
  <2>1. CASE u # t
    BY <1>0, <1>2, <1>t, <2>1, FrameKept DEF ClearBlock, EnterChunk
  <2>2. CASE u = t
    BY <1>2, <1>t, <2>2 DEF ClearBlock, EnterChunk, FrameOK, Working
  <2> QED  BY <2>1, <2>2
<1>3. ASSUME NEW t \in Threads, ClearReturn(t) PROVE FrameOK(u)'
  <2>1. CASE u # t
    BY <1>0, <1>3, <1>t, <2>1, FrameKept DEF ClearReturn
  <2>2. CASE u = t
    BY <1>0, <1>3, <1>t, <2>2 DEF ClearReturn, FrameOK, Working
  <2> QED  BY <2>1, <2>2
<1>4. ASSUME NEW t \in Threads, Lock(t) \/ NextBurst(t) \/ SendGet(t) \/ SendPut(t)
                                \/ RecvData(t) \/ RecvAck(t)
      PROVE  FrameOK(u)'
  <2>1. UNCHANGED <<call, clear>>
    BY <1>4 DEF Lock, NextBurst, SendGet, SendPut, RecvData, RecvAck, frames
  <2>2. ASSUME UNCHANGED <<pc, walk>> PROVE FrameOK(u)'
    BY <1>0, <2>1, <2>2, FrameKept
  <2>3. ASSUME u # t, pc'[u] = pc[u], walk'[u] = walk[u] PROVE FrameOK(u)'
    BY <1>0, <2>1, <2>3, FrameKept
  <2>4. CASE Lock(t)
    <3>1. CASE UNCHANGED <<pc, walk>>
      BY <2>2, <3>1
    <3>2. CASE /\ walk' = [walk EXCEPT ![t] = WalkOver(call[t].taddr, call[t].nbytes)]
               /\ pc' = [pc EXCEPT ![t] = "walk"]
      <4>1. u = t => pc[t] = "lock" /\ pc'[t] = "walk" /\ walk'[t].i = 0
        BY <1>t, <2>4, <3>2 DEF Lock, WalkOver
      <4> QED  BY <1>0, <1>t, <2>1, <2>3, <3>2, <4>1, FrameMoves DEF Working
    <3> QED  BY <2>4, <3>1, <3>2 DEF Lock, Abort
  <2>5. CASE NextBurst(t)
    <3>1. CASE UNCHANGED <<pc, walk>>
      BY <2>2, <3>1
    <3>2. CASE /\ pc' = [pc EXCEPT ![t] = "send"]
               /\ \A v \in Threads \ {t} : walk'[v] = walk[v]
      <4>1. u = t => pc[t] = "walk" /\ pc'[t] = "send"
        BY <1>t, <2>5, <3>2 DEF NextBurst
      <4> QED  BY <1>0, <1>t, <2>1, <2>3, <3>2, <4>1, FrameMoves DEF Working
    <3> QED  BY <1>t, <2>5, <3>1, <3>2 DEF NextBurst, Abort
  <2>6. CASE SendGet(t)
    <3>1. u = t => pc[t] = "send" /\ pc'[t] = "recv"
      BY <1>t, <2>6 DEF SendGet
    <3>2. u # t => pc'[u] = pc[u] /\ walk'[u] = walk[u]
      BY <1>t, <2>6 DEF SendGet, frames
    <3> QED  BY <1>0, <2>1, <2>3, <3>1, <3>2, FrameMoves DEF Working
  <2>7. CASE SendPut(t)
    <3>1. u = t => pc[t] = "send" /\ pc'[t] \in {"send", "recv"}
      BY <1>t, <2>7 DEF SendPut
    <3>2. u # t => pc'[u] = pc[u] /\ walk'[u] = walk[u]
      BY <1>t, <2>7 DEF SendPut
    <3> QED  BY <1>0, <2>1, <2>3, <3>1, <3>2, FrameMoves DEF Working
  <2>8. CASE RecvData(t) \/ RecvAck(t)
    <3>1. CASE UNCHANGED <<pc, walk>>
      BY <2>2, <3>1
    <3>2. CASE Advance(t)
      <4>1. /\ u = t => pc[t] = "recv" /\ pc'[t] = "walk" /\ walk'[t].i = 0
            /\ u # t => pc'[u] = pc[u] /\ walk'[u] = walk[u]
        BY <1>0, <1>t, <2>8, <3>2, AdvanceFacts DEF RecvData, RecvAck
      <4> QED  BY <1>0, <2>1, <2>3, <4>1, FrameMoves DEF Working
    <3>3. CASE walk' = [walk EXCEPT ![t].i = @ + 1] /\ UNCHANGED pc
      <4>1. /\ u = t => pc[t] = "recv" /\ pc'[t] = "recv"
            /\ u # t => pc'[u] = pc[u] /\ walk'[u] = walk[u]
        BY <1>t, <2>8, <3>3 DEF RecvData, RecvAck
      <4> QED  BY <1>0, <2>1, <2>3, <4>1, FrameMoves DEF Working
    <3> QED  BY <2>8, <3>1, <3>2, <3>3 DEF RecvData, RecvAck, ResponseAborts, Abort
  <2> QED  BY <1>4, <2>4, <2>5, <2>6, <2>7, <2>8
<1>5. ASSUME NEW t \in Threads, Unlock(t) PROVE FrameOK(u)'
  <2>1. CASE u # t
    <3>1. UNCHANGED <<pc[u], call[u], clear[u], walk[u]>>
      BY <1>5, <1>t, <2>1 DEF Unlock
    <3> QED  BY <1>0, <3>1, FrameKept
  <2>2. CASE u = t
    <3>1. pc'[t] \in {"idle", "clear"} /\ call'[t].op = "none"
      BY <1>5, <1>t DEF Unlock, NoCall
    <3> QED  BY <2>2, <3>1 DEF FrameOK, Working
  <2> QED  BY <2>1, <2>2
<1>6. CASE Manager
  BY <1>0, <1>6, FrameKept
     DEF Manager, MgrTakeRequest, MgrTakeBeat, MgrAck, MgrSendData, frames
<1>7. CASE UNCHANGED vars
  BY <1>0, <1>7, FrameKept DEF vars
<1> QED  BY <1>1, <1>2, <1>3, <1>4, <1>5, <1>6, <1>7 DEF Next, InCall

-----------------------------------------------------------------------------
(***************************************************************************)
(* The data.                                                               *)
(***************************************************************************)

\* The next beat of the burst is one of the caller's buffer.
LEMMA OffsetFacts ==
  ASSUME IInv, NEW t \in Threads, pc[t] \in Working
  PROVE  /\ Offset(t) = Moved(t) + walk[t].i /\ Offset(t) \in Nat
         /\ pc[t] # "walk" /\ walk[t].i < NumBeats(t) =>
              /\ Offset(t) \in BufferIndex
              /\ Offset(t) < Beats(call[t].nbytes)
<1>1. walk[t].i \in Nat
  BY Numbers DEF IInv
<1>2. Offset(t) = Moved(t) + walk[t].i
  BY DEF Offset, Moved
<1> QED  BY <1>1, <1>2, HolderBeats DEF BufferIndex

\* A finished burst moves the pointer by its beats.
LEMMA AdvanceMoves ==
  ASSUME IInv, NEW t \in Threads, pc[t] = "recv", Advance(t), UNCHANGED call
  PROVE  /\ Moved(t)' = Moved(t) + NumBeats(t)
         /\ Offset(t)' = Moved(t) + NumBeats(t)
<1>1. /\ walk'[t].curr = walk[t].curr + walk[t].len /\ walk'[t].i = 0
  BY AdvanceFacts DEF IInv
<1>2. /\ walk[t].curr \in Nat /\ walk[t].len \in Nat /\ call[t].taddr \in Nat
  BY Numbers DEF IInv
<1> DEFINE x == walk[t].curr - call[t].taddr
<1>3. /\ x \in Nat /\ Aligned(x) /\ Aligned(walk[t].len)
      /\ Moved(t) = Beats(x) /\ Moved(t) \in Nat /\ NumBeats(t) \in Nat
  <2>1. /\ call[t].taddr <= walk[t].curr /\ Aligned(walk[t].curr)
        /\ Aligned(call[t].taddr)
    BY HeldChunk DEF IInv, WalkInv, WalkOK, Working
  <2>2. Aligned(walk[t].len) /\ Moved(t) \in Nat /\ NumBeats(t) \in Nat
    BY HolderBeats DEF Working
  <2> QED  BY <1>2, <2>1, <2>2, AlignedSubtract DEF Moved
<1>4. walk'[t].curr - call'[t].taddr = x + walk[t].len
  BY <1>1, <1>2
<1> HIDE DEF x
<1>5. Beats(x + walk[t].len) = Moved(t) + NumBeats(t)
  <2>1. Beats(x + walk[t].len) = Beats(x) + Beats(walk[t].len)
    BY <1>2, <1>3, BeatsOfSum
  <2> QED  BY <1>3, <2>1 DEF NumBeats
<1>6. Moved(t)' = Beats(x + walk[t].len)
  BY <1>4 DEF Moved, Beats
<1>7. Moved(t)' = Moved(t) + NumBeats(t)
  BY <1>5, <1>6
<1>8. Offset(t)' = Moved(t)' + 0
  BY <1>1 DEF Offset, Moved, Beats
<1>9. Moved(t) + NumBeats(t) \in Nat
  BY <1>3
<1> QED  BY <1>7, <1>8, <1>9

LEMMA DataKept ==
  ASSUME NEW u, CallData(u),
         UNCHANGED <<call[u], walk[u], dst[u], a, d, mgr, mem>>
  PROVE  CallData(u)'
BY DEF CallData, WriteData, ReadData, CallBeat, Moved, Landed, Denied, Offset,
       NumBeats, Beats

LEMMA ReadDataKept ==
  ASSUME NEW u, ReadData(u), UNCHANGED <<call[u], dst[u], d, mem>>,
         Offset(u)' = Offset(u)
  PROVE  ReadData(u)'
BY DEF ReadData, CallBeat, Beats

LEMMA WriteDataKept ==
  ASSUME NEW u, WriteData(u), UNCHANGED <<call[u], a, mem>>,
         Moved(u)' + Landed(u)' = Moved(u) + Landed(u),
         a = <<>> \/ Offset(u)' = Offset(u)
  PROVE  WriteData(u)'
BY DEF WriteData, CallBeat, Beats

\* Nothing of a burst has landed before the manager takes its first beat.
LEMMA NothingLanded ==
  ASSUME NEW u, mgr = Idle, d = <<>>
  PROVE  Landed(u) = 0
BY DEF Landed, Denied, Idle

\* Which beats have landed once the manager has them all.
LEMMA AllLanded ==
  ASSUME NEW u, mgr.denied \in BOOLEAN, d # <<>> => d[1].denied \in BOOLEAN,
         mgr.state = "ack" \/ (mgr = Idle /\ d # <<>>)
  PROVE  Landed(u) = IF Denied THEN 0 ELSE NumBeats(u)
BY DEF Landed, Idle

LEMMA DataInit == Init => DataInv
BY InterfaceAssumption DEF Init, DataInv

\* The beats before the one that is being stored.
LEMMA BeforeNext ==
  ASSUME NEW k \in Nat, NEW m \in Nat, NEW c \in Nat,
         k < m + (c + 1), k # m + c
  PROVE  k < m + c
OBVIOUS

\* The manager stores one beat of a write.
LEMMA BeatLands ==
  ASSUME IInv, DataInv, MgrTakeBeat, NEW t \in Threads, lock_ = t
  PROVE  CallData(t)'
<1>0. TypeOK
  BY DEF IInv
<1>1. /\ failed = "no" /\ t \in Threads
      /\ call[t].op = "write" /\ pc[t] \in {"send", "recv"} /\ Collecting(t)
  BY BeatOfPut
<1>2. WriteData(t)
  BY <1>1 DEF DataInv, CallData
<1>3. /\ mgr.state = "put" /\ a # <<>> /\ a' = Tail(a)
      /\ UNCHANGED <<lock_, pc, call, walk, d>>
      /\ mem' = IF mgr.denied THEN mem ELSE [mem EXCEPT ![MgrBeat] = Head(a).data]
  BY DEF MgrTakeBeat, frames
<1>4. /\ a \in Seq(AMessages) /\ mgr \in Requests /\ mem \in [MemIndex -> Data]
  BY <1>0 DEF TypeOK, Requests
<1>5. /\ Head(a) = a[1] /\ 1 \in DOMAIN a /\ Len(a) \in Nat
      /\ Len(Tail(a)) = Len(a) - 1
      /\ \A k \in DOMAIN Tail(a) : k + 1 \in DOMAIN a /\ Tail(a)[k] = a[k + 1]
      /\ \A k \in DOMAIN Tail(a) : k \in Nat
  BY <1>3, <1>4, TailFacts
<1>6. /\ d = <<>> /\ ThisBurst(mgr, t) /\ Len(a) + mgr.count = walk[t].i
      /\ mgr.count \in Nat /\ mgr.denied \in BOOLEAN /\ walk[t].i \in Nat
  BY <1>1, <1>0, <1>3, <1>4, Numbers DEF Collecting, Idle, Requests
<1>7. /\ Moved(t) \in Nat /\ Beats(call[t].taddr) \in Nat
      /\ Beats(walk[t].curr) = Beats(call[t].taddr) + Moved(t)
      /\ Offset(t) = Moved(t) + walk[t].i
  BY <1>1, HolderBeats, OffsetFacts DEF Working
<1>8. /\ Moved(t)' = Moved(t) /\ Offset(t)' = Offset(t)
      /\ NumBeats(t)' = NumBeats(t) /\ Beats(call[t].taddr)' = Beats(call[t].taddr)
  BY <1>3 DEF Moved, Offset, NumBeats, Beats
<1>9. /\ MgrBeat = Beats(call[t].taddr) + (Moved(t) + mgr.count)
      /\ MgrBeat \in MemIndex
  BY <1>3, <1>6, <1>7, MgrBeatInMemory DEF MgrBeat, ThisBurst
<1>10. a[1].data = call[t].src[Moved(t) + mgr.count]
  <2>1. a[1].data = call[t].src[Offset(t) - Len(a) + 1 - 1]
    BY <1>2, <1>5 DEF WriteData
  <2>2. Offset(t) - Len(a) + 1 - 1 = Moved(t) + mgr.count
    BY <1>5, <1>6, <1>7
  <2> QED  BY <2>1, <2>2
<1>11. ASSUME NEW k \in DOMAIN a'
       PROVE  a'[k].data = call'[t].src[Offset(t)' - Len(a') + k - 1]
  <2>1. k + 1 \in DOMAIN a /\ a'[k] = a[k + 1] /\ k \in Nat
    BY <1>3, <1>5, <1>11
  <2>2. a[k + 1].data = call[t].src[Offset(t) - Len(a) + (k + 1) - 1]
    BY <1>2, <2>1 DEF WriteData
  <2>3. Offset(t)' - Len(a') + k - 1 = Offset(t) - Len(a) + (k + 1) - 1
    <3>1. Offset(t)' = Offset(t) /\ Offset(t) \in Nat
      BY <1>6, <1>7, <1>8
    <3>2. Len(a') = Len(a) - 1 /\ Len(a) \in Nat
      BY <1>3, <1>5
    <3> QED  BY <2>1, <3>1, <3>2
  <2> QED  BY <1>3, <2>1, <2>2, <2>3
<1>12. CASE mgr.denied
  <2>1. mgr'.denied = mgr.denied
    BY <1>4 DEF MgrTakeBeat, Requests
  <2>2. Landed(t) = 0 /\ Landed(t)' = 0
    BY <1>12, <2>1 DEF Landed, Denied
  <2>3. \A k \in BufferIndex : CallBeat(t, k)' = CallBeat(t, k)
    BY <1>3, <1>8, <1>12 DEF CallBeat
  <2> QED  BY <1>1, <1>2, <1>3, <1>8, <1>11, <2>2, <2>3 DEF CallData, WriteData
<1>13. CASE ~mgr.denied
  <2>1. ~Denied /\ Landed(t) = mgr.count
    BY <1>3, <1>6, <1>13 DEF Landed, Denied
  <2>2. Landed(t)' = mgr.count + 1
    <3>1. mgr'.denied = FALSE
      BY <1>4, <1>13 DEF MgrTakeBeat, Requests
    <3>2. ~Denied'
      BY <1>3, <1>6, <3>1 DEF Denied
    <3>3. CASE MgrLast
      <4>1. mgr'.state = "ack"
        BY <1>4, <3>3 DEF MgrTakeBeat, Requests
      <4>2. mgr.count + 1 = NumBeats(t)
        BY <1>6, <3>3 DEF MgrLast, ThisBurst, NumBeats
      <4> QED  BY <1>8, <3>2, <4>1, <4>2 DEF Landed
    <3>4. CASE ~MgrLast
      <4>1. mgr'.state = "put" /\ mgr'.count = mgr.count + 1
        BY <1>3, <1>4, <3>4 DEF MgrTakeBeat, Requests
      <4> QED  BY <3>2, <4>1 DEF Landed
    <3> QED  BY <3>3, <3>4
  <2>3. ASSUME NEW k \in BufferIndex, k < Moved(t) + (mgr.count + 1)
        PROVE  CallBeat(t, k)' = call[t].src[k]
    <3>1. CallBeat(t, k)' = mem'[Beats(call[t].taddr) + k] /\ k \in Nat
      BY <1>8, <1>3 DEF CallBeat, BufferIndex
    <3>2. CASE k = Moved(t) + mgr.count
      BY <1>3, <1>4, <1>5, <1>9, <1>10, <1>13, <3>1, <3>2
    <3>3. CASE k # Moved(t) + mgr.count
      <4>0. k \in Nat /\ Moved(t) \in Nat /\ mgr.count \in Nat
        BY <1>6, <1>7, <3>1
      <4>1. k < Moved(t) + mgr.count
        BY <2>3, <3>3, <4>0, BeforeNext
      <4>2. Beats(call[t].taddr) + k # MgrBeat
        <5>1. /\ Beats(call[t].taddr) \in Nat /\ Moved(t) + mgr.count \in Nat
              /\ MgrBeat = Beats(call[t].taddr) + (Moved(t) + mgr.count)
          BY <1>6, <1>7, <1>9
        <5> QED  BY <3>1, <3>3, <5>1
      <4>3. mem'[Beats(call[t].taddr) + k] = mem[Beats(call[t].taddr) + k]
        BY <1>3, <1>4, <1>13, <4>2
      <4>4. CallBeat(t, k) = call[t].src[k]
        BY <1>2, <2>1, <4>1 DEF WriteData
      <4> QED  BY <3>1, <4>3, <4>4 DEF CallBeat
    <3> QED  BY <3>2, <3>3
  <2> QED  BY <1>1, <1>3, <1>8, <1>11, <2>2, <2>3 DEF CallData, WriteData
<1> QED  BY <1>6, <1>12, <1>13

\* The manager takes a request, acknowledges a write, or answers a beat.
LEMMA ManagerKeepsData ==
  ASSUME IInv, DataInv, failed = "no", NEW t \in Threads, lock_ = t,
         MgrTakeRequest \/ MgrAck \/ MgrSendData
  PROVE  CallData(t)'
<1>0. TypeOK /\ CallData(t) /\ pc[t] \in Working
  BY DEF IInv, DataInv, MutexInv
<1>t. /\ a \in Seq(AMessages) /\ d \in Seq(DMessages) /\ mgr \in Requests
      /\ mem \in [MemIndex -> Data] /\ call[t].op \in {"read", "write"}
  BY <1>0 DEF TypeOK, Requests, IInv, CallInv, CallOK, Working
<1>u. UNCHANGED <<pc, call, walk, dst, mem>>
  BY DEF MgrTakeRequest, MgrAck, MgrSendData, frames
<1>o. Offset(t)' = Offset(t) /\ Moved(t)' = Moved(t) /\ NumBeats(t)' = NumBeats(t)
  BY <1>u DEF Offset, Moved, NumBeats, Beats
<1>1. CASE MgrTakeRequest
  <2>1. a # <<>> /\ mgr.state = "idle" /\ UNCHANGED d
    BY <1>1 DEF MgrTakeRequest
  <2>2. CASE call[t].op = "read"
    BY <1>0, <1>u, <1>o, <2>1, <2>2, ReadDataKept DEF CallData
  <2>3. CASE call[t].op = "write"
    <3>1. Collecting(t) /\ Head(a).opcode = "PutFullData"
      BY <1>t, <2>1, <2>3, RequestFromHolder, TailFacts
    <3>2. mgr = Idle /\ d = <<>>
      BY <2>1, <3>1 DEF Collecting
    <3>3. Landed(t) = 0
      BY <3>2, NothingLanded
    <3>4. a' = a /\ mgr'.state = "put" /\ mgr'.count = 0
      BY <1>1, <3>1 DEF MgrTakeRequest
    <3>5. Landed(t)' = 0
      BY <3>4 DEF Landed
    <3> QED  BY <1>0, <1>u, <1>o, <2>3, <3>3, <3>4, <3>5, WriteDataKept DEF CallData
  <2> QED  BY <1>t, <2>2, <2>3
<1>2. CASE MgrAck
  <2>1. mgr.state = "ack" /\ UNCHANGED a
    BY <1>2 DEF MgrAck
  <2>2. ~Quiet
    BY <2>1 DEF Quiet, Idle
  <2>3. call[t].op = "write" /\ Acknowledging
    BY <2>1, <2>2, HolderPhase DEF Collecting, Acknowledged, Asked, Answering, Idle
  <2> DEFINE m == DMsg("AccessAck", Blank, mgr.denied)
  <2>4. d = <<>> /\ d' = <<m>> /\ mgr' = Idle
    BY <1>2, <2>3 DEF MgrAck, Acknowledging
  <2>5. mgr.denied \in BOOLEAN
    BY <1>t DEF Requests
  <2>6. Landed(t) = IF mgr.denied THEN 0 ELSE NumBeats(t)
    BY <2>1, <2>4 DEF Landed, Denied
  <2>7. d' # <<>> /\ d'[1].denied = mgr.denied
    BY <2>4 DEF DMsg
  <2>8. Denied' <=> mgr.denied
    BY <2>4, <2>7 DEF Denied, Idle
  <2>9. Landed(t)' = IF mgr.denied THEN 0 ELSE NumBeats(t)
    BY <1>o, <2>4, <2>7, <2>8 DEF Landed, Idle
  <2> QED  BY <1>0, <1>u, <1>o, <2>1, <2>3, <2>6, <2>9, WriteDataKept DEF CallData
<1>3. CASE MgrSendData
  <2>1. mgr.state = "get"
    BY <1>3 DEF MgrSendData
  <2>2. ~Quiet
    BY <2>1 DEF Quiet, Idle
  <2>3. call[t].op = "read" /\ Answering(t)
    BY <2>1, <2>2, HolderPhase
       DEF Collecting, Acknowledging, Acknowledged, Asked, Idle
  <2>4. ThisBurst(mgr, t) /\ walk[t].i + Len(d) = mgr.count
    BY <2>1, <2>3 DEF Answering, Idle
  <2> DEFINE m == DMsg("AccessAckData", mem[MgrBeat], mgr.denied)
  <2>5. d' = Append(d, m)
    BY <1>3 DEF MgrSendData
  <2>6. m \in DMessages /\ m.data = mem[MgrBeat]
    <3>1. mem[MgrBeat] \in Data /\ mgr.denied \in BOOLEAN
      BY <1>t, <2>1, MgrBeatInMemory DEF Requests
    <3> HIDE DEF MgrBeat
    <3> QED  BY <3>1 DEF DMsg, DMessages
  <2> HIDE DEF m
  <2>7. Len(d') = Len(d) + 1 /\ Len(d) \in Nat
        /\ \A k \in DOMAIN d' : d'[k] = IF k \in DOMAIN d THEN d[k] ELSE m
    BY <1>t, <2>5, <2>6, AppendFacts
  <2>8. /\ Offset(t) = Moved(t) + walk[t].i /\ Moved(t) \in Nat /\ walk[t].i \in Nat
        /\ Beats(walk[t].curr) = Beats(call[t].taddr) + Moved(t)
        /\ Beats(call[t].taddr) \in Nat
    BY <1>0, OffsetFacts, HolderBeats, Numbers
  <2>9. MgrBeat = Beats(call[t].taddr) + (Offset(t) + (Len(d) + 1) - 1)
    <3>1. MgrBeat = Beats(walk[t].curr) + (walk[t].i + Len(d))
      BY <2>4 DEF MgrBeat, ThisBurst
    <3> QED  BY <2>7, <2>8, <3>1
  <2>10. ReadData(t)
    BY <1>0, <2>3 DEF CallData
  <2>11. \A k : CallBeat(t, k)' = CallBeat(t, k)
    BY <1>u DEF CallBeat, Beats
  <2>12. ASSUME NEW k \in DOMAIN d'
         PROVE  d'[k].data = CallBeat(t, Offset(t) + k - 1)
    <3>1. CASE k \in DOMAIN d
      BY <2>7, <2>10, <2>12, <3>1 DEF ReadData
    <3>2. CASE k \notin DOMAIN d
      <4>1. k = Len(d) + 1
        BY <1>t, <2>5, <2>6, <2>7, <2>12, <3>2, AppendFacts
      <4> QED  BY <2>6, <2>7, <2>9, <2>12, <3>2, <4>1 DEF CallBeat
    <3> QED  BY <3>1, <3>2
  <2>13. ReadData(t)'
    BY <1>u, <1>o, <2>10, <2>11, <2>12 DEF ReadData
  <2> QED  BY <1>u, <2>3, <2>13 DEF CallData
<1> QED  BY <1>1, <1>2, <1>3

\* write() sends the next beat of its buffer.
LEMMA SendKeepsData ==
  ASSUME IInv, NEW t \in Threads, SendPut(t), WriteData(t)
  PROVE  CallData(t)'
<1>0. /\ TypeOK /\ pc[t] \in Working
      /\ pc[t] = "send" /\ call[t].op = "write" /\ UNCHANGED <<call, d, mgr, mem>>
  BY DEF SendPut, IInv, Working, device
<1>t. a \in Seq(AMessages) /\ walk \in [Threads -> Walks]
  BY <1>0 DEF TypeOK, Walks
<1> DEFINE m == PutMsg(walk[t].curr, walk[t].len, call[t].src[Offset(t)])
<1>1. a' = Append(a, m)
  BY DEF SendPut
<1>2. /\ walk'[t].curr = walk[t].curr /\ walk'[t].len = walk[t].len
      /\ walk'[t].i = walk[t].i + 1
  BY <1>t DEF SendPut, Walks
<1>3. m \in AMessages /\ m.data = call[t].src[Offset(t)]
  <2>1. call[t].src[Offset(t)] \in Data /\ walk[t].curr \in Addresses
        /\ walk[t].len \in Sizes
    BY <1>0, OffsetInBuffer, Locals DEF Addresses
  <2> QED  BY <2>1 DEF PutMsg, AMessages
<1> HIDE DEF m
<1>4. Len(a') = Len(a) + 1 /\ Len(a) \in Nat
      /\ \A k \in DOMAIN a' : a'[k] = IF k \in DOMAIN a THEN a[k] ELSE m
  BY <1>t, <1>1, <1>3, AppendFacts
<1>5. Moved(t)' = Moved(t) /\ NumBeats(t)' = NumBeats(t)
  BY <1>0, <1>2 DEF Moved, NumBeats, Beats
<1>6. /\ Offset(t) \in Nat /\ Moved(t) \in Nat /\ walk[t].i \in Nat
      /\ Offset(t) = Moved(t) + walk[t].i
  BY <1>0, OffsetFacts, HolderBeats, Numbers
<1>7. Offset(t)' = Offset(t) + 1
  <2>1. Offset(t)' = Moved(t)' + (walk[t].i + 1)
    BY <1>2 DEF Offset, Moved, Beats
  <2> QED  BY <1>5, <1>6, <2>1
<1>8. Landed(t)' = Landed(t)
  BY <1>0, <1>5 DEF Landed, Denied
<1>9. ASSUME NEW k \in DOMAIN a'
      PROVE  a'[k].data = call[t].src[Offset(t)' - Len(a') + k - 1]
  <2>1. k \in Nat
    BY <1>t, <1>1, <1>3, <1>4, AppendFacts
  <2>2. Offset(t)' - Len(a') + k - 1 = Offset(t) - Len(a) + k - 1
    <3>1. Offset(t)' = Offset(t) + 1 /\ Offset(t) \in Nat
      BY <1>6, <1>7
    <3>2. Len(a') = Len(a) + 1 /\ Len(a) \in Nat
      BY <1>4
    <3> QED  BY <2>1, <3>1, <3>2
  <2>3. CASE k \in DOMAIN a
    BY <1>4, <1>9, <2>2, <2>3 DEF WriteData
  <2>4. CASE k \notin DOMAIN a
    <3>1. k = Len(a) + 1
      BY <1>t, <1>1, <1>3, <1>4, <1>9, <2>4, AppendFacts
    <3>2. Offset(t) - Len(a) + k - 1 = Offset(t)
      BY <1>4, <1>6, <3>1
    <3> QED  BY <1>3, <1>4, <1>9, <2>2, <2>4, <3>2
  <2> QED  BY <2>3, <2>4
<1> QED  BY <1>0, <1>5, <1>8, <1>9 DEF CallData, WriteData, CallBeat, Beats

\* read() copies a beat to where dst_ptr and the beat counter say.
LEMMA CopyKeepsData ==
  ASSUME IInv, failed = "no", NEW t \in Threads, RecvData(t), ReadData(t),
         failed' = "no"
  PROVE  /\ dst' = [dst EXCEPT ![t][Offset(t)] = CallBeat(t, Offset(t))]
         /\ Offset(t) \in BufferIndex /\ Offset(t)' = Offset(t) + 1
         /\ LastBeat(t) => Advance(t)
         /\ CallData(t)'
<1>0. /\ TypeOK /\ pc[t] = "recv" /\ call[t].op = "read" /\ d # <<>>
      /\ d' = Tail(d) /\ UNCHANGED <<lock_, call, a, mgr, mem>>
  BY DEF RecvData, IInv, device
<1>t. /\ d \in Seq(DMessages) /\ walk \in [Threads -> Walks]
      /\ dst \in [Threads -> [BufferIndex -> Data \cup {Blank}]]
  BY <1>0 DEF TypeOK, Walks
<1>1. /\ dst' = [dst EXCEPT ![t][Offset(t)] = Head(d).data]
      /\ IF LastBeat(t) THEN Advance(t)
         ELSE walk' = [walk EXCEPT ![t].i = @ + 1] /\ UNCHANGED pc
  BY DEF RecvData, ResponseAborts, Abort
<1>2. /\ Head(d) = d[1] /\ 1 \in DOMAIN d
      /\ \A k \in DOMAIN Tail(d) : /\ k + 1 \in DOMAIN d /\ Tail(d)[k] = d[k + 1]
                                  /\ k \in Nat
  BY <1>0, <1>t, TailFacts
<1>3. walk[t].i < NumBeats(t)
  BY <1>0 DEF IInv, WalkInv, WalkOK
<1>4. /\ Offset(t) \in BufferIndex /\ Offset(t) \in Nat
      /\ Offset(t) = Moved(t) + walk[t].i
      /\ Moved(t) \in Nat /\ walk[t].i \in Nat
  BY <1>0, <1>3, OffsetFacts, HolderBeats, Numbers DEF Working
<1>5. Head(d).data = CallBeat(t, Offset(t))
  <2>1. d[1].data = CallBeat(t, Offset(t) + 1 - 1)
    BY <1>2 DEF ReadData
  <2> QED  BY <1>2, <1>4, <2>1
<1>6. Offset(t)' = Offset(t) + 1
  <2>1. CASE LastBeat(t)
    <3>1. Offset(t)' = Moved(t) + NumBeats(t)
      BY <1>0, <1>1, <2>1, AdvanceMoves
    <3>2. NumBeats(t) = walk[t].i + 1
      BY <2>1 DEF LastBeat
    <3> QED  BY <1>4, <3>1, <3>2
  <2>2. CASE ~LastBeat(t)
    <3>1. walk'[t].curr = walk[t].curr /\ walk'[t].i = walk[t].i + 1
      BY <1>1, <1>t, <2>2 DEF Walks
    <3>2. Offset(t)' = Moved(t) + (walk[t].i + 1)
      BY <1>0, <3>1 DEF Offset, Moved, Beats
    <3> QED  BY <1>4, <3>2
  <2> QED  BY <2>1, <2>2
<1>7. \A k : CallBeat(t, k)' = CallBeat(t, k)
  BY <1>0 DEF CallBeat, Beats
<1>8. ASSUME NEW k \in BufferIndex, k < Offset(t) + 1
      PROVE  dst'[t][k] = CallBeat(t, k)
  <2>1. CASE k = Offset(t)
    BY <1>1, <1>t, <1>4, <1>5, <2>1
  <2>2. CASE k # Offset(t)
    <3>1. k < Offset(t)
      BY <1>4, <1>8, <2>2 DEF BufferIndex
    <3>2. dst'[t][k] = dst[t][k]
      BY <1>1, <1>t, <2>2
    <3> QED  BY <3>1, <3>2 DEF ReadData
  <2> QED  BY <2>1, <2>2
<1>9. ASSUME NEW k \in DOMAIN d'
      PROVE  d'[k].data = CallBeat(t, (Offset(t) + 1) + k - 1)
  <2>1. k + 1 \in DOMAIN d /\ d'[k] = d[k + 1] /\ k \in Nat
    BY <1>0, <1>2, <1>9
  <2>2. d[k + 1].data = CallBeat(t, Offset(t) + (k + 1) - 1)
    BY <2>1 DEF ReadData
  <2>3. Offset(t) + (k + 1) - 1 = (Offset(t) + 1) + k - 1
    BY <1>4, <2>1
  <2> QED  BY <2>1, <2>2, <2>3
<1>10. CallData(t)'
  BY <1>0, <1>6, <1>7, <1>8, <1>9 DEF CallData, ReadData
<1> QED  BY <1>1, <1>4, <1>5, <1>6, <1>10

\* write() accepts the acknowledgement: the whole burst is in memory.
LEMMA AckKeepsData ==
  ASSUME IInv, failed = "no", NEW t \in Threads, RecvAck(t), WriteData(t),
         failed' = "no"
  PROVE  CallData(t)'
<1>0. /\ TypeOK /\ pc[t] = "recv" /\ call[t].op = "write" /\ d # <<>>
      /\ d' = Tail(d) /\ UNCHANGED <<lock_, call, a, mgr, mem>>
  BY DEF RecvAck, IInv, device
<1>1. Accepted("AccessAck") /\ Advance(t)
  BY DEF RecvAck, ResponseAborts, Abort
<1>2. Acknowledged /\ Tail(d) = <<>>
  BY <1>0, AckForWriter
<1>3. Head(d) = d[1] /\ d[1].denied \in BOOLEAN
  <2>1. d \in Seq(DMessages)
    BY <1>0 DEF TypeOK
  <2>2. Head(d) = d[1] /\ Head(d) \in DMessages
    BY <1>0, <2>1, TailFacts
  <2> QED  BY <2>2 DEF DMessages
<1>4. ~Denied
  BY <1>1, <1>2, <1>3 DEF Accepted, Denied, Acknowledged, Idle
<1>5. Landed(t) = NumBeats(t)
  BY <1>0, <1>2, <1>4 DEF Landed, Acknowledged, Idle
<1>6. Landed(t)' = 0
  BY <1>0, <1>2 DEF Landed, Denied, Acknowledged, Idle
<1>7. Moved(t)' = Moved(t) + NumBeats(t)
  BY <1>0, <1>1, AdvanceMoves
<1>8. Moved(t) \in Nat /\ NumBeats(t) \in Nat
  BY <1>0, HolderBeats DEF Working
<1>9. Moved(t)' + Landed(t)' = Moved(t) + Landed(t)
  BY <1>5, <1>6, <1>7, <1>8
<1> QED  BY <1>0, <1>2, <1>9, WriteDataKept DEF Acknowledged, CallData

LEMMA DataStep == IInv /\ FrameInv /\ DataInv /\ [Next]_vars => DataInv'
<1> SUFFICES ASSUME IInv, FrameInv, DataInv, [Next]_vars, failed' = "no",
                    NEW u \in Threads, lock_' = u
             PROVE  CallData(u)'
  BY DEF DataInv
<1>0. TypeOK /\ MutexInv
  BY DEF IInv
<1>t. /\ pc \in [Threads -> {"idle", "clear", "lock", "walk", "send", "recv"}]
      /\ call \in [Threads -> Calls] /\ walk \in [Threads -> Walks]
  BY <1>0 DEF TypeOK, Calls, Walks
<1>f. failed = "no"
  BY DEF Next, Manager, MgrTakeRequest, MgrTakeBeat, MgrAck, MgrSendData, vars
<1>d. lock_ = u => CallData(u) /\ pc[u] \in Working
  BY <1>0, <1>f DEF DataInv, MutexInv
\* A thread outside the mutex leaves the holder's data alone.
<1>a. ASSUME NEW t \in Threads, pc[t] \notin Working,
             UNCHANGED <<lock_, walk, dst, a, d, mgr, mem>>,
             \A v \in Threads \ {t} : call'[v] = call[v]
      PROVE  CallData(u)'
  <2>1. lock_ = u /\ u # t
    BY <1>0, <1>a DEF MutexInv
  <2> QED  BY <1>a, <1>d, <2>1, DataKept
<1>1. ASSUME NEW t \in Threads, Invoke(t) PROVE CallData(u)'
  BY <1>1, <1>a, <1>t
     DEF Invoke, ReadChunk, WriteChunk, ClearChunk, EnterChunk, device, Working
<1>2. ASSUME NEW t \in Threads, ClearBlock(t) \/ ClearReturn(t) PROVE CallData(u)'
  BY <1>2, <1>a, <1>t DEF ClearBlock, ClearReturn, EnterChunk, device, Working
<1>3. ASSUME NEW t \in Threads, Lock(t) PROVE CallData(u)'
  <2>a. ChunkAsserts(call[t])
    BY <1>3, RejectedLock
  <2>1. u = t /\ lock_ = NoThread /\ UNCHANGED <<call, a, d, mgr, mem>>
    BY <1>3, <2>a DEF Lock, MutexFree, device
  <2>2. Quiet
    BY <2>1 DEF IInv, ChannelInv
  <2>3. walk' = [walk EXCEPT ![t] = WalkOver(call[t].taddr, call[t].nbytes)]
    BY <1>3, <2>a DEF Lock
  <2>4. walk'[t].curr = call[t].taddr /\ walk'[t].i = 0
    BY <1>t, <2>3 DEF WalkOver
  <2>5. call[t].taddr - call[t].taddr = 0 /\ Beats(0) = 0
    BY <1>0, Numbers, BeatsPositive, Params
  <2>6. Moved(t)' = 0
    BY <2>1, <2>4, <2>5 DEF Moved, Beats
  <2>7. Offset(t)' = Moved(t)' + walk'[t].i
    BY DEF Offset, Moved, Beats
  <2>8. Offset(t)' = 0
    BY <2>4, <2>6, <2>7
  <2>9. Landed(t)' = 0 /\ a' = <<>> /\ d' = <<>>
    BY <2>1, <2>2 DEF Quiet, Landed, Denied, Idle
  <2> QED
    BY <2>1, <2>6, <2>8, <2>9 DEF CallData, WriteData, ReadData, BufferIndex
<1>4. ASSUME NEW t \in Threads, NextBurst(t) PROVE CallData(u)'
  <2>1. pc[t] = "walk" /\ UNCHANGED <<lock_, call, dst, a, d, mgr, mem>>
    BY <1>4, NextBurstFacts DEF NextBurst, device
  <2>2. lock_ = t /\ u = t
    BY <1>0, <2>1 DEF MutexInv, Working
  <2>3. Quiet
    BY <1>f, <2>1, <2>2 DEF IInv, ChannelInv, BurstPhase
  <2>4. walk'[t].curr = walk[t].curr /\ walk'[t].i = 0 /\ walk[t].i = 0
    <3>1. walk[t].i = 0
      BY <2>1 DEF FrameInv, FrameOK
    <3> DEFINE chunk == AlignedChunk(walk[t].curr, walk[t].remaining)
    <3>2. walk' = [walk EXCEPT ![t].len = chunk, ![t].i = 0]
      BY <1>4, NextBurstFacts
    <3> HIDE DEF chunk
    <3> QED  BY <1>t, <3>1, <3>2 DEF Walks
  <2>5. Offset(t)' = Offset(t) /\ Moved(t)' = Moved(t)
    BY <2>1, <2>4 DEF Offset, Moved, Beats
  <2>6. Landed(t) = 0 /\ Landed(t)' = 0
    BY <2>1, <2>3 DEF Quiet, Landed, Denied, Idle
  <2> QED
    BY <1>d, <2>1, <2>2, <2>5, <2>6, ReadDataKept, WriteDataKept DEF CallData
<1>5. ASSUME NEW t \in Threads, SendGet(t) PROVE CallData(u)'
  <2>1. /\ pc[t] = "send" /\ call[t].op = "read"
        /\ UNCHANGED <<lock_, call, walk, dst, d, mem>>
    BY <1>5 DEF SendGet, frames, device
  <2>2. lock_ = t /\ u = t
    BY <1>0, <2>1 DEF MutexInv, Working
  <2>3. Offset(t)' = Offset(t)
    BY <2>1 DEF Offset, Beats
  <2> QED  BY <1>d, <2>1, <2>2, <2>3, ReadDataKept DEF CallData
<1>6. ASSUME NEW t \in Threads, SendPut(t) PROVE CallData(u)'
  <2>1. pc[t] = "send" /\ call[t].op = "write" /\ UNCHANGED lock_
    BY <1>6 DEF SendPut
  <2>2. lock_ = t /\ u = t
    BY <1>0, <2>1 DEF MutexInv, Working
  <2> QED  BY <1>6, <1>d, <2>1, <2>2, SendKeepsData DEF CallData
<1>7. ASSUME NEW t \in Threads, RecvData(t) PROVE CallData(u)'
  <2>1. pc[t] = "recv" /\ call[t].op = "read" /\ UNCHANGED lock_
    BY <1>7 DEF RecvData
  <2>2. lock_ = t /\ u = t
    BY <1>0, <2>1 DEF MutexInv, Working
  <2> QED  BY <1>7, <1>d, <1>f, <2>1, <2>2, CopyKeepsData DEF CallData
<1>8. ASSUME NEW t \in Threads, RecvAck(t) PROVE CallData(u)'
  <2>1. pc[t] = "recv" /\ call[t].op = "write" /\ UNCHANGED lock_
    BY <1>8 DEF RecvAck
  <2>2. lock_ = t /\ u = t
    BY <1>0, <2>1 DEF MutexInv, Working
  <2> QED  BY <1>8, <1>d, <1>f, <2>1, <2>2, AckKeepsData DEF CallData
<1>9. ASSUME NEW t \in Threads, Unlock(t) PROVE CallData(u)'
  BY <1>9, InterfaceAssumption DEF Unlock
<1>10. CASE MgrTakeBeat
  <2>1. lock_ = u
    BY <1>10 DEF MgrTakeBeat
  <2> QED  BY <1>10, <2>1, BeatLands
<1>11. CASE MgrTakeRequest \/ MgrAck \/ MgrSendData
  <2>1. lock_ = u
    BY <1>11 DEF MgrTakeRequest, MgrAck, MgrSendData
  <2> QED  BY <1>11, <1>f, <2>1, ManagerKeepsData
<1>12. CASE UNCHANGED vars
  BY <1>d, <1>12, DataKept DEF vars
<1> QED
  BY <1>1, <1>2, <1>3, <1>4, <1>5, <1>6, <1>7, <1>8, <1>9, <1>10, <1>11, <1>12
     DEF Next, InCall, Manager

(***************************************************************************)
(* Every beat of the call in progress is the right one, wherever it is: in *)
(* the channels, in memory or in the destination buffer (read() and write()*)
(* of memifc.hpp and the pointers that read_chunk and write_chunk move).   *)
(***************************************************************************)
THEOREM DataIntegrity == Spec => []DataInv
<1>1. Init => FrameInv /\ DataInv
  BY FrameInit, DataInit
<1>2. IInv /\ FrameInv /\ DataInv /\ [Next]_vars => (FrameInv /\ DataInv)'
  BY FrameStep, DataStep
<1> QED  BY Invariance, <1>1, <1>2, PTL DEF Spec

-----------------------------------------------------------------------------
(***************************************************************************)
(* What a caller sees of a state: the refinement mapping, case by case.    *)
(***************************************************************************)

MemView ==
  /\ lock_ = NoThread => AbsMem = mem
  /\ lock_ \in Threads /\ call[lock_].op # "write" => AbsMem = mem
  /\ lock_ \in Threads /\ call[lock_].op = "write" =>
       AbsMem = Contract!Overwrite(mem, Beats(call[lock_].taddr),
                                   Beats(call[lock_].nbytes), call[lock_].src)

RequestView(t) ==
  /\ pc[t] = "idle" => AbsRequest(t) = Contract!Idle
  /\ Clears(t) =>
       AbsRequest(t) = Contract!Clearing(Beats(clear[t].curr + Performed(t)),
                                         Beats(clear[t].remaining - Performed(t)))
  /\ ~Clears(t) /\ call[t].op = "write" =>
       AbsRequest(t) =
         IF pc[t] = "lock"
         THEN Contract!Writing(Beats(call[t].taddr), Beats(call[t].nbytes),
                               call[t].src)
         ELSE Contract!Done
  /\ call[t].op = "read" =>
       AbsRequest(t) =
         IF pc[t] = "walk" /\ walk[t].remaining = 0
         THEN Contract!Answer([k \in 0 .. Beats(call[t].nbytes) - 1 |-> dst[t][k]])
         ELSE Contract!Reading(Beats(call[t].taddr), Beats(call[t].nbytes))

LEMMA MemViews == IInv => MemView
<1> SUFFICES ASSUME IInv PROVE MemView
  OBVIOUS
<1>1. mem \in [MemIndex -> Data]
  BY DEF IInv, TypeOK
<1>2. lock_ = NoThread => AbsMem = mem
  BY <1>1, InterfaceAssumption DEF AbsMem
<1>3. lock_ \in Threads /\ call[lock_].op # "write" => AbsMem = mem
  BY <1>1 DEF AbsMem
<1>4. ASSUME lock_ \in Threads, call[lock_].op = "write"
      PROVE  AbsMem = Contract!Overwrite(mem, Beats(call[lock_].taddr),
                                   Beats(call[lock_].nbytes), call[lock_].src)
  <2> DEFINE first == Beats(call[lock_].taddr)
             n == Beats(call[lock_].nbytes)
  <2>1. first \in Nat /\ n \in Nat
    BY <1>4, HolderBeats DEF IInv, MutexInv
  <2>2. DOMAIN mem = MemIndex
    BY <1>1
  <2> HIDE DEF first, n
  <2>3. ASSUME NEW k \in MemIndex
        PROVE  k - first \in 0 .. n - 1 <=> k \in first .. first + n - 1
    BY <2>1 DEF MemIndex
  <2> QED  BY <1>4, <2>2, <2>3 DEF AbsMem, Contract!Overwrite, first, n
<1> QED  BY <1>2, <1>3, <1>4 DEF MemView

LEMMA RequestViews == IInv /\ FrameInv => \A t \in Threads : RequestView(t)
<1> SUFFICES ASSUME IInv, FrameInv, NEW t \in Threads PROVE RequestView(t)
  OBVIOUS
<1>0. TypeOK /\ CallOK(t) /\ FrameOK(t)
  BY DEF IInv, CallInv, FrameInv
<1>1. /\ pc[t] \in {"idle", "clear", "lock", "walk", "send", "recv"}
      /\ call[t].op \in {"none", "read", "write"}
      /\ clear[t].remaining \in Nat /\ clear[t].curr \in Nat
      /\ call[t].nbytes \in Nat
  BY <1>0, Numbers, Locals DEF TypeOK
<1>2. /\ pc[t] = "idle" => clear[t].remaining = 0
      /\ pc[t] \in {"idle", "clear"} <=> call[t].op = "none"
      /\ call[t].op = "read" => ~Clears(t)
      /\ pc[t] = "lock" => lock_ # t
      /\ pc[t] \in Working => lock_ = t
  BY <1>0, <1>1 DEF CallOK, FrameOK, Clears, Working, IInv, MutexInv
<1>3. Performed(t) \in Nat /\ (Performed(t) <= clear[t].remaining \/ ~Clears(t))
  BY <1>0, <1>1 DEF Performed, Clears, CallOK, Working
<1> DEFINE left == Beats(clear[t].remaining - Performed(t))
<1>4. Clears(t) => left \in Nat
  <2> SUFFICES ASSUME Clears(t) PROVE left \in Nat
    OBVIOUS
  <2>1. clear[t].remaining - Performed(t) \in Nat
    BY <1>1, <1>3
  <2> HIDE DEF Performed
  <2> QED  BY <2>1, Params DEF Beats
<1> HIDE DEF left
<1>5. pc[t] = "idle" => AbsRequest(t) = Contract!Idle
  BY <1>1, <1>2 DEF AbsRequest, Clears, Contract!Idle
<1>6. ASSUME Clears(t)
      PROVE  AbsRequest(t) = Contract!Clearing(Beats(clear[t].curr + Performed(t)), left)
  <2>1. CASE left = 0
    BY <1>2, <1>6, <2>1 DEF AbsRequest, Contract!Clearing, Contract!Done, left, Clears
  <2>2. CASE left > 0
    BY <1>2, <1>6, <2>2 DEF AbsRequest, Contract!Clearing, left, Clears
  <2> QED  BY <1>4, <1>6, <2>1, <2>2
<1>7. ASSUME ~Clears(t), call[t].op = "write"
      PROVE  AbsRequest(t) =
               IF pc[t] = "lock"
               THEN Contract!Writing(Beats(call[t].taddr), Beats(call[t].nbytes),
                                     call[t].src)
               ELSE Contract!Done
  BY <1>1, <1>2, <1>7 DEF AbsRequest, Contract!Writing, Contract!Done, Working
<1>8. ASSUME call[t].op = "read"
      PROVE  AbsRequest(t) =
         IF pc[t] = "walk" /\ walk[t].remaining = 0
         THEN Contract!Answer([k \in 0 .. Beats(call[t].nbytes) - 1 |-> dst[t][k]])
         ELSE Contract!Reading(Beats(call[t].taddr), Beats(call[t].nbytes))
  BY <1>1, <1>2, <1>8 DEF AbsRequest, Contract!Answer, Contract!Reading
<1> QED  BY <1>5, <1>6, <1>7, <1>8 DEF RequestView, left

-----------------------------------------------------------------------------
(***************************************************************************)
(* Each step is a step of ChunkedMem or one that no caller sees.           *)
(***************************************************************************)

\* The views hold in the state a step leads to as well.
LEMMA NextViews == IInv' /\ FrameInv' => MemView' /\ \A t \in Threads : RequestView(t)'
<1>1. (IInv => MemView)'
  BY MemViews, PTL
<1>2. (IInv /\ FrameInv => \A t \in Threads : RequestView(t))'
  BY RequestViews, PTL
<1> QED  BY <1>1, <1>2

\* A step of thread t leaves the calls of the others as they are.
OthersKept(t) ==
  \A v \in Threads \ {t} :
    /\ UNCHANGED <<pc[v], call[v], clear[v], walk[v], dst[v]>>
    /\ lock_ = v <=> lock_' = v

LEMMA RequestKept ==
  ASSUME NEW v, UNCHANGED <<pc[v], call[v], clear[v], walk[v], dst[v]>>,
         lock_ = v <=> lock_' = v
  PROVE  AbsRequest(v)' = AbsRequest(v)
BY DEF AbsRequest, Clears, Performed, Beats

LEMMA MemKept ==
  ASSUME UNCHANGED <<lock_, mem>>, lock_ \in Threads => call'[lock_] = call[lock_]
  PROVE  AbsMem' = AbsMem
BY DEF AbsMem, Beats

LEMMA OneRequest ==
  ASSUME NEW t \in Threads, OthersKept(t)
  PROVE  /\ Contract!Becomes(t, AbsRequest(t)')
         /\ AbsRequest(t)' = AbsRequest(t) =>
              \A v \in Threads : AbsRequest(v)' = AbsRequest(v)
<1>1. \A v \in Threads \ {t} : AbsRequest(v)' = AbsRequest(v)
  BY RequestKept DEF OthersKept
<1> QED  BY <1>1 DEF Contract!Becomes

\* A step that leaves the memory and every request as they are.
LEMMA Stutter ==
  ASSUME AbsMem' = AbsMem, \A v \in Threads : AbsRequest(v)' = AbsRequest(v)
  PROVE  UNCHANGED Contract!avars
BY DEF Contract!avars

\* A range inside the memory, in beats.
LEMMA RangeBeats ==
  ASSUME NEW addr \in Nat, NEW n \in Nat, InMemory(addr, n)
  PROVE  /\ Beats(addr) \in 0 .. Beats(MemBytes) /\ Beats(n) \in 0 .. Beats(MemBytes)
         /\ Beats(addr) + Beats(n) <= Beats(MemBytes)
         /\ n >= BeatBytes => Beats(n) >= 1
         /\ n <= MaxTransferBytes => Beats(n) <= Beats(MaxTransferBytes)
<1>1. Aligned(addr) /\ Aligned(n) /\ addr + n <= MemBytes
  BY DEF InMemory
<1>2. /\ Beats(addr) \in Nat /\ Beats(n) \in Nat /\ Beats(MemBytes) \in Nat
      /\ Beats(addr + n) = Beats(addr) + Beats(n) /\ Aligned(addr + n)
  BY <1>1, Params, BeatsOfSum, BeatsPositive
<1> DEFINE last == addr + n
<1>3. last \in Nat /\ Aligned(last) /\ last <= MemBytes
  BY <1>1, <1>2
<1>4. Beats(last) <= Beats(MemBytes)
  <2> HIDE DEF last
  <2> QED  BY <1>3, Params, BeatsMonotone
<1>5. n >= BeatBytes => Beats(n) >= 1
  BY <1>1, <1>2, Params, BeatsPositive
<1>6. n <= MaxTransferBytes => Beats(n) <= Beats(MaxTransferBytes)
  BY <1>1, Params, BeatsMonotone
<1> QED  BY <1>2, <1>4, <1>5, <1>6

\* read_chunk, write_chunk and clear_chunk are entered.
LEMMA InvokeSimulates ==
  ASSUME IInv, FrameInv, IInv', FrameInv', NEW t \in Threads, Invoke(t)
  PROVE  Contract!Invoke(t)
<1>0. TypeOK
  BY DEF IInv
<1>t. /\ pc \in [Threads -> {"idle", "clear", "lock", "walk", "send", "recv"}]
      /\ call \in [Threads -> Calls] /\ clear \in [Threads -> Ranges]
  BY <1>0 DEF TypeOK, Calls, Ranges
<1>1. pc[t] = "idle" /\ UNCHANGED <<lock_, walk, dst, mem>>
  BY DEF Invoke, ReadChunk, WriteChunk, ClearChunk, device
<1>2. lock_ # t /\ clear[t].remaining = 0
  BY <1>1 DEF IInv, MutexInv, CallInv, CallOK, Working
<1>3. OthersKept(t)
  BY <1>1, <1>t
     DEF OthersKept, Invoke, ReadChunk, WriteChunk, ClearChunk, EnterChunk, Goto
<1>4. AbsMem' = AbsMem
  <2>1. lock_ \in Threads => call'[lock_] = call[lock_]
    BY <1>2, <1>3 DEF OthersKept
  <2> QED  BY <1>1, <2>1, MemKept
<1>5. AbsRequest(t) = Contract!Idle
  BY <1>1, RequestViews DEF RequestView
<1>6. Contract!Becomes(t, AbsRequest(t)') /\ RequestView(t)'
  BY <1>3, OneRequest, NextViews
<1>7. CASE ReadChunk(t)
  <2>1. PICK addr \in 0 .. MemBytes, n \in BeatBytes .. MaxTransferBytes :
               InMemory(addr, n) /\ EnterChunk(t, "read", addr, n, ZeroBuffer)
    BY <1>7 DEF ReadChunk
  <2>2. /\ pc'[t] = "lock" /\ call'[t].op = "read"
        /\ call'[t].taddr = addr /\ call'[t].nbytes = n
    BY <1>t, <2>1 DEF EnterChunk, Goto
  <2>3. AbsRequest(t)' = Contract!Reading(Beats(addr), Beats(n))
    BY <1>6, <2>2 DEF RequestView, Beats
  <2>4. addr \in Nat /\ n \in Nat /\ n >= BeatBytes /\ n <= MaxTransferBytes
    BY Params
  <2>5. /\ Beats(addr) \in 0 .. Beats(MemBytes) /\ Beats(n) \in 0 .. Beats(MemBytes)
        /\ Beats(addr) + Beats(n) <= Beats(MemBytes)
        /\ Beats(n) \in 1 .. Beats(MaxTransferBytes)
    BY <2>1, <2>4, Params, RangeBeats, BeatsPositive
  <2> QED  BY <1>4, <1>5, <1>6, <2>3, <2>5 DEF Contract!Invoke
<1>8. CASE WriteChunk(t)
  <2>1. PICK addr \in 0 .. MemBytes, n \in BeatBytes .. MaxTransferBytes,
             src \in Buffers :
               InMemory(addr, n) /\ EnterChunk(t, "write", addr, n, src)
    BY <1>8 DEF WriteChunk
  <2>2. /\ pc'[t] = "lock" /\ call'[t].op = "write" /\ call'[t].src = src
        /\ call'[t].taddr = addr /\ call'[t].nbytes = n
    BY <1>t, <2>1 DEF EnterChunk, Goto
  <2>3. ~Clears(t)'
    BY <1>2, <1>8, <2>2 DEF WriteChunk, Clears
  <2>4. AbsRequest(t)' = Contract!Writing(Beats(addr), Beats(n), src)
    BY <1>6, <2>2, <2>3 DEF RequestView, Beats
  <2>5. addr \in Nat /\ n \in Nat /\ n >= BeatBytes /\ n <= MaxTransferBytes
    BY Params
  <2>6. /\ Beats(addr) \in 0 .. Beats(MemBytes) /\ Beats(n) \in 0 .. Beats(MemBytes)
        /\ Beats(addr) + Beats(n) <= Beats(MemBytes)
        /\ Beats(n) \in 1 .. Beats(MaxTransferBytes)
    BY <2>1, <2>5, Params, RangeBeats, BeatsPositive
  <2> QED  BY <1>4, <1>5, <1>6, <2>4, <2>6 DEF Contract!Invoke
<1>9. CASE ClearChunk(t)
  <2>1. PICK addr \in 0 .. MemBytes, n \in 0 .. MemBytes :
               /\ InMemory(addr, n)
               /\ clear' = [clear EXCEPT ![t] = [curr |-> addr, remaining |-> n]]
    BY <1>9 DEF ClearChunk
  <2>2. pc'[t] = "clear" /\ clear'[t].curr = addr /\ clear'[t].remaining = n
    BY <1>9, <1>t, <2>1 DEF ClearChunk, Goto
  <2>3. Clears(t)' /\ Performed(t)' = 0
    BY <2>2 DEF Clears, Performed
  <2>4. addr \in Nat /\ n \in Nat
    BY Params
  <2>5. AbsRequest(t)' = Contract!Clearing(Beats(addr), Beats(n))
    <3>1. AbsRequest(t)' = Contract!Clearing(Beats(clear'[t].curr + Performed(t)'),
                                     Beats(clear'[t].remaining - Performed(t)'))
      BY <1>6, <2>3 DEF RequestView, Beats
    <3> QED  BY <2>2, <2>3, <2>4, <3>1
  <2>6. /\ Beats(addr) \in 0 .. Beats(MemBytes) /\ Beats(n) \in 0 .. Beats(MemBytes)
        /\ Beats(addr) + Beats(n) <= Beats(MemBytes)
    BY <2>1, <2>4, RangeBeats
  <2> QED  BY <1>4, <1>5, <1>6, <2>5, <2>6 DEF Contract!Invoke
<1> QED  BY <1>7, <1>8, <1>9 DEF Invoke

(***************************************************************************)
(* A thread gets the mutex: a write takes effect at once for every other   *)
(* caller, because none of them can look before it is complete.            *)
(***************************************************************************)
LEMMA LockSimulates ==
  ASSUME IInv, FrameInv, IInv', FrameInv', NEW t \in Threads, Lock(t)
  PROVE  \/ Contract!Write(t) \/ Contract!ClearBlock(t)
         \/ UNCHANGED Contract!avars
<1>0. TypeOK /\ RequestView(t) /\ CallOK(t)
  BY RequestViews DEF IInv, CallInv
<1>t. /\ pc \in [Threads -> {"idle", "clear", "lock", "walk", "send", "recv"}]
      /\ walk \in [Threads -> Walks]
      /\ call[t].taddr \in Nat /\ call[t].nbytes \in Nat
      /\ clear[t].curr \in Nat /\ clear[t].remaining \in Nat
  BY <1>0, Numbers DEF TypeOK, Walks
<1>r. CASE ~ChunkAsserts(call[t])
  <2>1. AbsMem' = AbsMem /\ \A v \in Threads : AbsRequest(v)' = AbsRequest(v)
    BY <1>r, RejectedLock, RequestKept, MemKept
  <2> QED  BY <2>1, Stutter
<1> SUFFICES ASSUME ChunkAsserts(call[t])
             PROVE  \/ Contract!Write(t) \/ Contract!ClearBlock(t)
                    \/ UNCHANGED Contract!avars
  BY <1>r
<1>1. /\ pc[t] = "lock" /\ lock_ = NoThread /\ lock_' = t
      /\ UNCHANGED <<call, clear, mem>>
  BY DEF Lock, MutexFree, device
<1>2. /\ call[t].op \in {"read", "write"} /\ Aligned(call[t].nbytes)
      /\ call[t].nbytes >= BeatBytes /\ call[t].nbytes <= MaxTransferBytes
  BY <1>0, <1>1 DEF CallOK, ChunkAsserts, WholeBeats
<1>3. /\ walk' = [walk EXCEPT ![t] = WalkOver(call[t].taddr, call[t].nbytes)]
      /\ pc' = [pc EXCEPT ![t] = "walk"] /\ UNCHANGED dst
  BY DEF Lock, Goto
<1>4. pc'[t] = "walk" /\ walk'[t].remaining = call[t].nbytes
  BY <1>t, <1>3 DEF WalkOver
<1>5. OthersKept(t)
  BY <1>t, <1>1, <1>3, InterfaceAssumption DEF OthersKept
<1>6. Contract!Becomes(t, AbsRequest(t)') /\ RequestView(t)' /\ MemView'
  BY <1>5, OneRequest, NextViews
<1>7. AbsMem = mem
  BY <1>1, MemViews DEF MemView
<1> DEFINE first == Beats(call[t].taddr)
           n == Beats(call[t].nbytes)
<1>8. n \in 1 .. Beats(MaxTransferBytes) /\ first \in Nat
  <2>1. Beats(call[t].nbytes) \in Nat /\ Beats(call[t].nbytes) # 0
    BY <1>t, <1>2, Params, BeatsPositive
  <2>2. /\ Beats(MaxTransferBytes) \in Nat
        /\ Beats(call[t].nbytes) <= Beats(MaxTransferBytes)
    BY <1>t, <1>2, Params, BeatsMonotone
  <2>3. Beats(call[t].taddr) \in Nat
    BY <1>t, BeatsMonotone
  <2> QED  BY <2>1, <2>2, <2>3
<1>9. CASE call[t].op = "read"
  <2>1. AbsMem' = AbsMem
    BY <1>1, <1>6, <1>7, <1>9 DEF MemView
  <2>2. walk'[t].remaining # 0
    BY <1>t, <1>2, <1>4, Params
  <2>3. AbsRequest(t)' = AbsRequest(t)
    BY <1>0, <1>1, <1>4, <1>6, <1>9, <2>2 DEF RequestView, Beats
  <2> QED  BY <1>5, <2>1, <2>3, OneRequest, Stutter
<1>10. ASSUME call[t].op = "write"
       PROVE  AbsMem' = Contract!Overwrite(AbsMem, first, n, call[t].src)
  <2>1. AbsMem' = Contract!Overwrite(mem', Beats(call'[t].taddr),
                                     Beats(call'[t].nbytes), call'[t].src)
    BY <1>1, <1>6, <1>10 DEF MemView, Beats, Contract!Overwrite
  <2> QED  BY <1>1, <1>7, <2>1
<1>11. CASE call[t].op = "write" /\ ~Clears(t)
  <2>1. ~Clears(t)'
    BY <1>1, <1>4, <1>11 DEF Clears
  <2>2. AbsRequest(t) = Contract!Writing(first, n, call[t].src)
    BY <1>0, <1>1, <1>11 DEF RequestView
  <2>3. AbsRequest(t)' = Contract!Done
    BY <1>1, <1>4, <1>6, <1>11, <2>1 DEF RequestView
  <2> HIDE DEF first, n
  <2>4. Contract!Write(t)
    BY <1>6, <1>10, <1>11, <2>2, <2>3 DEF Contract!Write, Contract!Writing
  <2> QED  BY <2>4
<1>12. CASE call[t].op = "write" /\ Clears(t)
  <2>1. clear[t].remaining > 0
    BY <1>1, <1>12 DEF Clears
  <2>2. /\ call[t].src = ZeroBuffer /\ call[t].taddr = clear[t].curr
        /\ call[t].nbytes <= clear[t].remaining
        /\ InMemory(clear[t].curr, clear[t].remaining)
    BY <1>0, <1>1, <2>1 DEF FrameInv, FrameOK, CallOK
  <2> DEFINE left == Beats(clear[t].remaining)
  <2>3. Performed(t) = 0 /\ Performed(t)' = call[t].nbytes /\ Clears(t)'
    BY <1>1, <1>4, <2>1 DEF Performed, Clears
  <2>4. AbsRequest(t) = Contract!Clearing(first, left)
    <3>1. clear[t].curr + Performed(t) = call[t].taddr
          /\ clear[t].remaining - Performed(t) = clear[t].remaining
      BY <1>t, <2>2, <2>3
    <3> QED  BY <1>0, <1>12, <3>1 DEF RequestView
  <2>5. /\ left \in Nat /\ left > 0 /\ n <= left
        /\ Beats(clear[t].curr + call[t].nbytes) = first + n
        /\ Beats(clear[t].remaining - call[t].nbytes) = left - n
    <3>1. /\ Aligned(call[t].nbytes) /\ Aligned(clear[t].curr)
          /\ Aligned(clear[t].remaining)
      BY <1>2, <2>2 DEF InMemory
    <3>2. left \in Nat /\ left > 0
      BY <1>t, <2>1, <3>1, BeatsPositive
    <3>3. n <= left
      BY <1>t, <2>2, <3>1, BeatsMonotone
    <3>4. Beats(clear[t].curr + call[t].nbytes) = Beats(clear[t].curr) + n
      BY <1>t, <3>1, BeatsOfSum
    <3>5. Beats(clear[t].remaining - call[t].nbytes) = left - n
      BY <1>t, <2>2, <3>1, BeatsOfDifference
    <3> QED  BY <2>2, <3>2, <3>3, <3>4, <3>5
  <2>6. AbsRequest(t)' = Contract!Clearing(first + n, left - n)
    <3>1. AbsRequest(t)' = Contract!Clearing(Beats(clear'[t].curr + Performed(t)'),
                                     Beats(clear'[t].remaining - Performed(t)'))
      BY <1>6, <2>3 DEF RequestView, Beats
    <3> QED  BY <1>1, <2>3, <2>5, <3>1
  <2>7. /\ AbsRequest(t).kind = "clear" /\ AbsRequest(t).first = first
        /\ AbsRequest(t).n = left
    BY <2>4, <2>5 DEF Contract!Clearing
  <2>8. Contract!Overwrite(AbsMem, first, n, ZeroBuffer)
          = Contract!Overwrite(AbsMem, first, n, [k \in 0 .. n - 1 |-> Zero])
    <3> HIDE DEF first, n
    <3>1. DOMAIN AbsMem = MemIndex
      BY DEF AbsMem
    <3>2. ASSUME NEW k \in MemIndex, k \in first .. first + n - 1
          PROVE  /\ ZeroBuffer[k - first] = Zero
                 /\ [j \in 0 .. n - 1 |-> Zero][k - first] = Zero
      <4>1. k - first \in 0 .. n - 1
        BY <1>8, <3>2 DEF MemIndex
      <4>2. k - first \in BufferIndex
        BY <1>8, <4>1, Params, BeatsMonotone DEF BufferIndex, MemIndex
      <4> QED  BY <4>1, <4>2 DEF ZeroBuffer
    <3> QED  BY <3>1, <3>2 DEF Contract!Overwrite
  <2> HIDE DEF first, n, left
  <2>9. AbsMem' = Contract!Overwrite(AbsMem, first, n, [k \in 0 .. n - 1 |-> Zero])
    BY <1>10, <1>12, <2>2, <2>8
  <2>10. Contract!Becomes(t, Contract!Clearing(first + n, left - n))
    BY <1>6, <2>6
  <2>11. n \in 1 .. Beats(MaxTransferBytes) /\ n <= left
    BY <1>8, <2>5
  <2>12. Contract!ClearBlock(t)
    BY <2>7, <2>9, <2>10, <2>11 DEF Contract!ClearBlock
  <2> QED  BY <2>12
<1> QED  BY <1>2, <1>9, <1>11, <1>12

\* A read takes effect when its last beat arrives.
LEMMA ReadSimulates ==
  ASSUME IInv, FrameInv, DataInv, IInv', FrameInv', DataInv', failed = "no",
         NEW t \in Threads, RecvData(t)
  PROVE  Contract!Read(t) \/ UNCHANGED Contract!avars
<1>0. TypeOK /\ RequestView(t)
  BY RequestViews DEF IInv
<1>t. /\ pc \in [Threads -> {"idle", "clear", "lock", "walk", "send", "recv"}]
      /\ walk \in [Threads -> Walks]
      /\ dst \in [Threads -> [BufferIndex -> Data \cup {Blank}]]
      /\ walk[t].remaining \in Nat /\ walk[t].len \in Nat
  BY <1>0, Numbers DEF TypeOK, Walks
<1>1. /\ pc[t] = "recv" /\ call[t].op = "read"
      /\ UNCHANGED <<lock_, call, clear, mem>>
  BY DEF RecvData, device
<1>2. lock_ = t
  BY <1>1 DEF IInv, MutexInv, Working
<1>3. AbsMem = mem /\ AbsMem' = AbsMem
  BY <1>1, <1>2, MemViews, MemKept DEF MemView
<1>4. \/ UNCHANGED <<pc, walk, dst>>
      \/ /\ dst' = [dst EXCEPT ![t][Offset(t)] = Head(d).data]
         /\ Advance(t) /\ UNCHANGED failed
      \/ /\ dst' = [dst EXCEPT ![t][Offset(t)] = Head(d).data]
         /\ walk' = [walk EXCEPT ![t].i = @ + 1] /\ UNCHANGED pc
  BY DEF RecvData, ResponseAborts, Abort
<1>5. OthersKept(t)
  <2>1. CASE UNCHANGED <<pc, walk, dst>>
    BY <1>1, <2>1 DEF OthersKept
  <2>2. CASE dst' = [dst EXCEPT ![t][Offset(t)] = Head(d).data]
    <3>1. \A v \in Threads \ {t} : dst'[v] = dst[v]
      BY <1>t, <2>2
    <3>2. CASE Advance(t)
      <4>1. /\ \A v \in Threads \ {t} : walk'[v] = walk[v]
            /\ pc' = [pc EXCEPT ![t] = "walk"]
        BY <1>0, <3>2, AdvanceFacts
      <4> QED  BY <1>1, <1>t, <3>1, <4>1 DEF OthersKept
    <3>3. CASE walk' = [walk EXCEPT ![t].i = @ + 1] /\ UNCHANGED pc
      BY <1>1, <1>t, <3>1, <3>3 DEF OthersKept
    <3>4. CASE UNCHANGED <<pc, walk, dst>>
      BY <1>1, <3>4 DEF OthersKept
    <3> QED  BY <1>4, <3>2, <3>3, <3>4
  <2> QED  BY <1>4, <2>1, <2>2
<1>6. Contract!Becomes(t, AbsRequest(t)') /\ RequestView(t)'
  BY <1>5, OneRequest, NextViews
<1> DEFINE first == Beats(call[t].taddr)
           n == Beats(call[t].nbytes)
<1>7. AbsRequest(t) = Contract!Reading(first, n)
  BY <1>0, <1>1 DEF RequestView
<1>8. CASE ~(pc'[t] = "walk" /\ walk'[t].remaining = 0)
  <2>1. AbsRequest(t)' = Contract!Reading(first, n)
    BY <1>1, <1>6, <1>8 DEF RequestView, Beats
  <2>2. AbsRequest(t)' = AbsRequest(t)
    BY <1>7, <2>1
  <2> QED  BY <1>3, <1>5, <2>2, OneRequest, Stutter
<1>9. CASE pc'[t] = "walk" /\ walk'[t].remaining = 0
  <2>1. Advance(t) /\ UNCHANGED failed
    BY <1>1, <1>4, <1>9
  <2>2. walk[t].remaining = walk[t].len
    <3>1. walk'[t].remaining = walk[t].remaining - walk[t].len
      BY <1>0, <2>1, AdvanceFacts
    <3> QED  BY <1>t, <1>9, <3>1
  <2>3. Offset(t)' = n
    <3>1. Offset(t)' = Moved(t) + NumBeats(t)
      BY <1>1, <2>1, AdvanceMoves
    <3>2. NumBeats(t) = Beats(walk[t].remaining)
      BY <2>2 DEF NumBeats
    <3>3. Moved(t) + Beats(walk[t].remaining) = n
      BY <1>1, HolderBeats DEF Working
    <3> QED  BY <3>1, <3>2, <3>3
  <2>4. n \in Nat /\ n <= Beats(MaxTransferBytes) /\ Beats(MaxTransferBytes) \in Nat
    BY <1>1, HolderBeats DEF Working
  <2>5. ReadData(t)'
    BY <1>1, <1>2, <2>1 DEF DataInv, CallData
  <2>6. ASSUME NEW k \in 0 .. n - 1
        PROVE  dst'[t][k] = AbsMem[first + k]
    <3>1. k \in BufferIndex /\ k < n
      <4> HIDE DEF n
      <4> QED  BY <2>4 DEF BufferIndex
    <3>2. dst'[t][k] = CallBeat(t, k)'
      BY <2>3, <2>5, <3>1 DEF ReadData
    <3> QED  BY <1>1, <1>3, <3>2 DEF CallBeat, Beats
  <2>7. AbsRequest(t)' = Contract!Answer([k \in 0 .. n - 1 |-> dst'[t][k]])
    BY <1>1, <1>6, <1>9 DEF RequestView, Beats
  <2>8. [k \in 0 .. n - 1 |-> dst'[t][k]] = Contract!Slice(AbsMem, first, n)
    BY <2>6 DEF Contract!Slice
  <2>9. /\ AbsRequest(t).kind = "read" /\ AbsRequest(t).first = first
        /\ AbsRequest(t).n = n
    BY <1>7 DEF Contract!Reading
  <2>10. Contract!Becomes(t, Contract!Answer(Contract!Slice(AbsMem, first, n)))
    BY <1>6, <2>7, <2>8
  <2> HIDE DEF first, n
  <2>11. Contract!Read(t)
    BY <1>3, <2>9, <2>10 DEF Contract!Read
  <2> QED  BY <2>11
<1> QED  BY <1>8, <1>9

(***************************************************************************)
(* The mutex is released: the whole range of a write is in memory by then, *)
(* so what the others see does not change; a chunk that is a call of its   *)
(* own returns, one of clear_chunk's loop does not.                        *)
(***************************************************************************)
LEMMA UnlockSimulates ==
  ASSUME IInv, FrameInv, DataInv, IInv', FrameInv', failed = "no",
         NEW t \in Threads, Unlock(t)
  PROVE  Contract!Return(t) \/ UNCHANGED Contract!avars
<1>0. TypeOK /\ RequestView(t) /\ CallOK(t)
  BY RequestViews DEF IInv, CallInv
<1>t. /\ pc \in [Threads -> {"idle", "clear", "lock", "walk", "send", "recv"}]
      /\ call \in [Threads -> Calls] /\ walk \in [Threads -> Walks]
      /\ clear \in [Threads -> Ranges] /\ mem \in [MemIndex -> Data]
      /\ dst \in [Threads -> [BufferIndex -> Data \cup {Blank}]]
      /\ call[t].nbytes \in Nat
      /\ clear[t].curr \in Nat /\ clear[t].remaining \in Nat
  BY <1>0, Numbers DEF TypeOK, Walks, Calls, Ranges
<1>1. /\ pc[t] = "walk" /\ walk[t].remaining = 0 /\ lock_' = NoThread
      /\ UNCHANGED mem
  BY DEF Unlock, device
<1>2. lock_ = t /\ call[t].op \in {"read", "write"} /\ lock_ # NoThread
  BY <1>1, <1>0, InterfaceAssumption DEF IInv, MutexInv, CallOK, Working
<1>3. OthersKept(t)
  BY <1>t, <1>1, <1>2, InterfaceAssumption DEF OthersKept, Unlock, Goto
<1>4. Contract!Becomes(t, AbsRequest(t)') /\ RequestView(t)' /\ AbsMem' = mem
  BY <1>1, <1>3, OneRequest, NextViews DEF MemView
<1> DEFINE first == Beats(call[t].taddr)
           n == Beats(call[t].nbytes)
<1>5. AbsMem = mem
  <2>1. CASE call[t].op = "read"
    BY <1>2, <2>1, MemViews DEF MemView
  <2>2. CASE call[t].op = "write"
    <3>1. WriteData(t) /\ Quiet
      BY <1>1, <1>2, <2>2
         DEF DataInv, CallData, IInv, ChannelInv, BurstPhase
    <3>2. Landed(t) = 0
      BY <3>1, NothingLanded DEF Quiet
    <3>3. /\ Moved(t) = n /\ n \in Nat /\ first \in Nat
          /\ n <= Beats(MaxTransferBytes) /\ Beats(MaxTransferBytes) \in Nat
      BY <1>1, HolderBeats DEF Working
    <3>4. AbsMem = Contract!Overwrite(mem, first, n, call[t].src)
      BY <1>2, <2>2, MemViews DEF MemView
    <3> HIDE DEF first, n
    <3>5. ASSUME NEW k \in MemIndex, k \in first .. first + n - 1
          PROVE  call[t].src[k - first] = mem[k]
      <4> DEFINE j == k - first
      <4>1. j \in BufferIndex /\ j < n /\ first + j = k
        BY <3>3, <3>5 DEF BufferIndex, MemIndex
      <4> HIDE DEF j
      <4>2. j < Moved(t) + Landed(t)
        BY <3>2, <3>3, <4>1 DEF BufferIndex
      <4>3. CallBeat(t, j) = call[t].src[j]
        BY <3>1, <4>1, <4>2 DEF WriteData
      <4> QED  BY <4>1, <4>3 DEF CallBeat, first, j
    <3>6. Contract!Overwrite(mem, first, n, call[t].src) = mem
      BY <1>t, <3>5 DEF Contract!Overwrite
    <3> QED  BY <3>4, <3>6
  <2> QED  BY <1>2, <2>1, <2>2
<1>6. CASE clear[t].remaining > 0
  <2>1. /\ pc'[t] = "clear"
        /\ clear'[t].curr = clear[t].curr + call[t].nbytes
        /\ clear'[t].remaining = clear[t].remaining - call[t].nbytes
    BY <1>t, <1>6 DEF Unlock, Goto, Ranges
  <2>2. /\ Clears(t) /\ Clears(t)' /\ Performed(t) = call[t].nbytes
        /\ Performed(t)' = 0
    BY <1>1, <1>6, <2>1 DEF Clears, Performed
  <2>3. call[t].nbytes <= clear[t].remaining
    BY <1>0, <1>1, <1>6 DEF CallOK, Working
  <2>4. AbsRequest(t) = Contract!Clearing(Beats(clear[t].curr + call[t].nbytes),
                                  Beats(clear[t].remaining - call[t].nbytes))
    BY <1>0, <2>2 DEF RequestView
  <2>5. AbsRequest(t)' = Contract!Clearing(Beats(clear'[t].curr + Performed(t)'),
                                   Beats(clear'[t].remaining - Performed(t)'))
    BY <1>4, <2>2 DEF RequestView, Beats
  <2>6. /\ clear'[t].curr + Performed(t)' = clear[t].curr + call[t].nbytes
        /\ clear'[t].remaining - Performed(t)' = clear[t].remaining - call[t].nbytes
    BY <1>t, <2>1, <2>2, <2>3
  <2>7. AbsRequest(t)' = AbsRequest(t)
    BY <2>4, <2>5, <2>6
  <2> QED  BY <1>3, <1>4, <1>5, <2>7, OneRequest, Stutter
<1>7. CASE ~(clear[t].remaining > 0)
  <2>1. pc'[t] = "idle"
    BY <1>t, <1>7 DEF Unlock, Goto
  <2>2. AbsRequest(t)' = Contract!Idle
    BY <1>4, <2>1 DEF RequestView
  <2>3. AbsRequest(t).kind \in {"done", "answer"}
    <3>1. CASE call[t].op = "read"
      BY <1>0, <1>1, <3>1 DEF RequestView, Contract!Answer
    <3>2. CASE call[t].op = "write"
      <4>1. ~Clears(t)
        BY <1>1, <1>7 DEF Clears
      <4> QED  BY <1>0, <1>1, <3>2, <4>1 DEF RequestView, Contract!Done
    <3> QED  BY <1>2, <3>1, <3>2
  <2>4. Contract!Return(t)
    BY <1>4, <1>5, <2>2, <2>3 DEF Contract!Return
  <2> QED  BY <2>4
<1> QED  BY <1>6, <1>7

\* clear_chunk returns when nothing of its range is left.
LEMMA ClearReturnSimulates ==
  ASSUME IInv, FrameInv, IInv', FrameInv', NEW t \in Threads, ClearReturn(t)
  PROVE  Contract!Return(t)
<1>0. TypeOK /\ RequestView(t)
  BY RequestViews DEF IInv
<1>t. /\ pc \in [Threads -> {"idle", "clear", "lock", "walk", "send", "recv"}]
      /\ clear \in [Threads -> Ranges]
  BY <1>0 DEF TypeOK, Ranges
<1>1. /\ pc[t] = "clear" /\ clear[t].remaining = 0 /\ pc'[t] = "idle"
      /\ UNCHANGED <<lock_, call, walk, dst, mem>>
  BY <1>t DEF ClearReturn, Goto, device
<1>2. OthersKept(t)
  BY <1>t, <1>1 DEF OthersKept, ClearReturn, Goto
<1>3. Contract!Becomes(t, AbsRequest(t)') /\ RequestView(t)' /\ AbsMem' = AbsMem
  BY <1>1, <1>2, OneRequest, NextViews, MemKept
<1>4. AbsRequest(t)' = Contract!Idle
  BY <1>1, <1>3 DEF RequestView
<1>5. AbsRequest(t) = Contract!Done
  <2>1. Clears(t) /\ Performed(t) = 0 /\ clear[t].remaining - 0 = 0
    BY <1>1 DEF Clears, Performed
  <2>2. Beats(0) = 0
    BY Params, BeatsPositive
  <2> QED  BY <1>0, <1>1, <2>1, <2>2 DEF RequestView, Contract!Clearing
<1> QED  BY <1>3, <1>4, <1>5 DEF Contract!Return, Contract!Done

\* A thread that stays inside a chunk and has not finished a read.
LEMMA StillInside ==
  ASSUME NEW t, RequestView(t), RequestView(t)',
         UNCHANGED <<call[t], clear[t]>>, call[t].op \in {"read", "write"},
         pc[t] \in Working, pc'[t] \in Working,
         call[t].op = "read" => /\ ~(pc[t] = "walk" /\ walk[t].remaining = 0)
                               /\ ~(pc'[t] = "walk" /\ walk'[t].remaining = 0)
  PROVE  AbsRequest(t)' = AbsRequest(t)
<1>1. Performed(t)' = Performed(t) /\ (Clears(t)' <=> Clears(t))
  BY DEF Performed, Clears, Working
<1>2. pc[t] # "lock" /\ pc'[t] # "lock"
  BY DEF Working
<1>3. CASE Clears(t)
  <2>1. AbsRequest(t) = Contract!Clearing(Beats(clear[t].curr + Performed(t)),
                                  Beats(clear[t].remaining - Performed(t)))
    BY <1>3 DEF RequestView
  <2>2. AbsRequest(t)' = Contract!Clearing(Beats(clear'[t].curr + Performed(t)'),
                                   Beats(clear'[t].remaining - Performed(t)'))
    BY <1>1, <1>3 DEF RequestView, Beats
  <2> QED  BY <1>1, <2>1, <2>2
<1>4. CASE ~Clears(t) /\ call[t].op = "write"
  BY <1>1, <1>2, <1>4 DEF RequestView
<1>5. CASE call[t].op = "read"
  BY <1>5 DEF RequestView, Beats
<1> QED  BY <1>3, <1>4, <1>5

\* Taking a block, cutting a burst, sending and accepting an acknowledgement.
LEMMA HiddenStep ==
  ASSUME IInv, FrameInv, IInv', FrameInv', failed = "no", NEW t \in Threads,
         ClearBlock(t) \/ NextBurst(t) \/ SendGet(t) \/ SendPut(t) \/ RecvAck(t)
  PROVE  UNCHANGED Contract!avars
<1>0. TypeOK /\ RequestView(t) /\ CallOK(t)
  BY RequestViews DEF IInv, CallInv
<1>t. /\ pc \in [Threads -> {"idle", "clear", "lock", "walk", "send", "recv"}]
      /\ call \in [Threads -> Calls] /\ walk \in [Threads -> Walks]
      /\ call[t].op \in {"none", "read", "write"}
  BY <1>0, Locals DEF TypeOK, Walks, Calls
<1>1. CASE ClearBlock(t)
  <2>1. /\ pc[t] = "clear" /\ clear[t].remaining > 0 /\ pc'[t] = "lock"
        /\ UNCHANGED <<lock_, clear, walk, dst, mem>>
    BY <1>t, <1>1 DEF ClearBlock, EnterChunk, Goto, device
  <2>2. OthersKept(t)
    BY <1>t, <1>1 DEF OthersKept, ClearBlock, EnterChunk, Goto
  <2>3. lock_ # t
    BY <2>1 DEF IInv, MutexInv, Working
  <2>4. AbsMem' = AbsMem
    BY <2>1, <2>2, <2>3, MemKept DEF OthersKept
  <2>5. /\ Clears(t) /\ Clears(t)' /\ Performed(t) = 0 /\ Performed(t)' = 0
    BY <2>1 DEF Clears, Performed
  <2>6. RequestView(t)'
    BY NextViews
  <2>7. AbsRequest(t) = Contract!Clearing(Beats(clear[t].curr + Performed(t)),
                                  Beats(clear[t].remaining - Performed(t)))
    BY <1>0, <2>5 DEF RequestView
  <2>8. AbsRequest(t)' = Contract!Clearing(Beats(clear'[t].curr + Performed(t)'),
                                   Beats(clear'[t].remaining - Performed(t)'))
    BY <2>5, <2>6 DEF RequestView, Beats
  <2>9. AbsRequest(t)' = AbsRequest(t)
    BY <2>1, <2>5, <2>7, <2>8
  <2> QED  BY <2>2, <2>4, <2>9, OneRequest, Stutter
<1>2. CASE NextBurst(t) \/ SendGet(t) \/ SendPut(t) \/ RecvAck(t)
  <2>1. /\ pc[t] \in Working /\ UNCHANGED <<lock_, call, clear, mem>>
    BY <1>2 DEF NextBurst, SendGet, SendPut, RecvAck, frames, device, Working
  <2>2. call[t].op \in {"read", "write"}
    BY <1>0, <2>1 DEF CallOK
  <2>3. AbsMem' = AbsMem
    BY <2>1, MemKept
  <2>4. /\ OthersKept(t) /\ pc'[t] \in Working
        /\ call[t].op = "read" => /\ ~(pc[t] = "walk" /\ walk[t].remaining = 0)
                                  /\ ~(pc'[t] = "walk" /\ walk'[t].remaining = 0)
    <3>1. CASE NextBurst(t)
      <4> DEFINE chunk == AlignedChunk(walk[t].curr, walk[t].remaining)
      <4>1. /\ walk' = [walk EXCEPT ![t].len = chunk, ![t].i = 0]
            /\ pc' = [pc EXCEPT ![t] = "send"] /\ UNCHANGED dst
            /\ walk[t].remaining > 0
        BY <3>1, NextBurstFacts DEF NextBurst
      <4> HIDE DEF chunk
      <4> QED  BY <1>t, <2>1, <4>1 DEF OthersKept, Working
    <3>2. CASE SendGet(t)
      BY <1>t, <2>1, <3>2 DEF SendGet, frames, Goto, OthersKept, Working
    <3>3. CASE SendPut(t)
      BY <1>t, <2>1, <3>3 DEF SendPut, Goto, OthersKept, Working
    <3>4. CASE RecvAck(t)
      <4>1. pc[t] = "recv" /\ call[t].op = "write" /\ UNCHANGED dst
        BY <3>4 DEF RecvAck, ResponseAborts, Abort
      <4>2. CASE Advance(t)
        <5>1. /\ \A v \in Threads \ {t} : walk'[v] = walk[v]
              /\ pc' = [pc EXCEPT ![t] = "walk"]
          BY <1>0, <4>2, AdvanceFacts
        <5> QED  BY <1>t, <2>1, <4>1, <5>1 DEF OthersKept, Working
      <4>3. CASE UNCHANGED <<pc, walk>>
        BY <2>1, <4>1, <4>3 DEF OthersKept
      <4> QED  BY <3>4, <4>2, <4>3 DEF RecvAck, ResponseAborts, Abort
    <3> QED  BY <1>2, <3>1, <3>2, <3>3, <3>4
  <2>5. RequestView(t)'
    BY NextViews
  <2>6. AbsRequest(t)' = AbsRequest(t)
    BY <1>0, <2>1, <2>2, <2>4, <2>5, StillInside
  <2> QED  BY <2>3, <2>4, <2>6, OneRequest, Stutter
<1> QED  BY <1>1, <1>2

(***************************************************************************)
(* What the manager does is hidden: the beat it stores is inside the range *)
(* of the write that holds the mutex.                                      *)
(***************************************************************************)
LEMMA ManagerHidden ==
  ASSUME IInv, IInv', Manager
  PROVE  UNCHANGED Contract!avars
<1>1. UNCHANGED <<lock_, pc, call, clear, walk, dst>>
  BY DEF Manager, MgrTakeRequest, MgrTakeBeat, MgrAck, MgrSendData, frames
<1>2. \A v \in Threads : AbsRequest(v)' = AbsRequest(v)
  BY <1>1, RequestKept
<1>3. CASE UNCHANGED mem
  BY <1>1, <1>2, <1>3, MemKept, Stutter
<1>4. CASE MgrTakeBeat /\ mem' = [mem EXCEPT ![MgrBeat] = Head(a).data]
  <2>1. /\ lock_ \in Threads /\ call[lock_].op = "write"
        /\ pc[lock_] \in {"send", "recv"} /\ Collecting(lock_)
    BY <1>4, BeatOfPut
  <2> DEFINE first == Beats(call[lock_].taddr)
             n == Beats(call[lock_].nbytes)
  <2>2. /\ mgr.state = "put" /\ ThisBurst(mgr, lock_) /\ mgr.count \in Nat
        /\ mgr.count < NumBeats(lock_)
    <3>1. mgr.state = "put" /\ ThisBurst(mgr, lock_)
      BY <1>4, <2>1 DEF MgrTakeBeat, Collecting, Idle
    <3>2. mgr.count \in Nat
      BY DEF IInv, TypeOK
    <3> QED  BY <3>1, <3>2 DEF IInv, MgrInv, ThisBurst, NumBeats
  <2>3. MgrBeat \in MemIndex /\ MgrBeat - first \in 0 .. n - 1
    <3>1. /\ first \in Nat /\ Moved(lock_) \in Nat /\ n \in Nat
          /\ Beats(walk[lock_].curr) = first + Moved(lock_)
          /\ NumBeats(lock_) \in Nat
          /\ NumBeats(lock_) <= Beats(walk[lock_].remaining)
          /\ Beats(walk[lock_].remaining) \in Nat
          /\ Moved(lock_) + Beats(walk[lock_].remaining) = n
      BY <2>1, HolderBeats DEF Working
    <3>2. MgrBeat = Beats(walk[lock_].curr) + mgr.count
      BY <2>2 DEF MgrBeat, ThisBurst
    <3>3. MgrBeat \in MemIndex
      BY <2>2, MgrBeatInMemory
    <3> HIDE DEF first, n
    <3> QED  BY <2>2, <3>1, <3>2, <3>3
  <2>4. \A k \in MemIndex : k # MgrBeat => mem'[k] = mem[k]
    BY <1>4 DEF IInv, TypeOK
  <2>5. AbsMem' = AbsMem
    <3>1. ASSUME NEW k \in MemIndex
          PROVE  AbsMem'[k] = AbsMem[k]
      BY <1>1, <2>1, <2>3, <2>4 DEF AbsMem, Beats
    <3> QED  BY <3>1 DEF AbsMem
  <2> QED  BY <1>2, <2>5, Stutter
<1> QED
  BY <1>3, <1>4
     DEF Manager, MgrTakeRequest, MgrTakeBeat, MgrAck, MgrSendData

LEMMA StepSimulation ==
  IInv /\ FrameInv /\ DataInv /\ IInv' /\ FrameInv' /\ DataInv' /\ [Next]_vars
    => [Contract!Next]_(Contract!avars)
<1> SUFFICES ASSUME IInv, FrameInv, DataInv, IInv', FrameInv', DataInv', [Next]_vars
             PROVE  Contract!Next \/ UNCHANGED Contract!avars
  OBVIOUS
<1>1. ASSUME NEW t \in Threads, Invoke(t) PROVE Contract!Next
  BY <1>1, InvokeSimulates DEF Contract!Next
<1>2. ASSUME NEW t \in Threads, failed = "no", InCall(t)
      PROVE  Contract!Next \/ UNCHANGED Contract!avars
  <2>1. CASE Lock(t)
    BY <2>1, LockSimulates DEF Contract!Next
  <2>2. CASE RecvData(t)
    BY <1>2, <2>2, ReadSimulates DEF Contract!Next
  <2>3. CASE Unlock(t)
    BY <1>2, <2>3, UnlockSimulates DEF Contract!Next
  <2>4. CASE ClearReturn(t)
    BY <2>4, ClearReturnSimulates DEF Contract!Next
  <2>5. CASE ClearBlock(t) \/ NextBurst(t) \/ SendGet(t) \/ SendPut(t) \/ RecvAck(t)
    BY <1>2, <2>5, HiddenStep
  <2> QED  BY <1>2, <2>1, <2>2, <2>3, <2>4, <2>5 DEF InCall
<1>3. CASE Manager
  BY <1>3, ManagerHidden
<1>4. CASE UNCHANGED vars
  <2>1. \A v \in Threads : AbsRequest(v)' = AbsRequest(v)
    BY <1>4, RequestKept DEF vars
  <2> QED  BY <1>4, <2>1, MemKept, Stutter DEF vars
<1> QED  BY <1>1, <1>2, <1>3, <1>4 DEF Next

LEMMA InitSimulates == Init => Contract!Init
<1> SUFFICES ASSUME Init PROVE Contract!Init
  OBVIOUS
<1>1. IInv /\ FrameInv /\ pc = [t \in Threads |-> "idle"] /\ lock_ = NoThread
      /\ mem \in [MemIndex -> Data]
  BY InitInv, FrameInit DEF Init
<1>2. \A t \in Threads : AbsRequest(t) = Contract!Idle
  BY <1>1, RequestViews DEF RequestView
<1>3. AbsMem = mem
  BY <1>1, MemViews DEF MemView
<1> QED  BY <1>1, <1>2, <1>3 DEF Contract!Init, MemIndex

(***************************************************************************)
(* The memory interface implements ChunkedMem: read_chunk and write_chunk  *)
(* act on the memory at one instant between call and return, and           *)
(* clear_chunk zeroes its range block by block in address order, whatever  *)
(* the number of threads, the bus width, the transfer size and the         *)
(* capacities of the channels (memifc.hpp:60-119 and for_aligned_chunks).  *)
(***************************************************************************)
THEOREM Refinement == Spec => ImplementsContract
<1>1. Init => FrameInv /\ DataInv
  BY FrameInit, DataInit
<1>2. IInv /\ FrameInv /\ DataInv /\ [Next]_vars => (FrameInv /\ DataInv)'
  BY FrameStep, DataStep
<1>3. Spec => [](IInv /\ FrameInv /\ DataInv)
  BY Invariance, <1>1, <1>2, PTL DEF Spec
<1> QED
  BY InitSimulates, StepSimulation, <1>3, PTL
     DEF Spec, ImplementsContract, Contract!Spec

=============================================================================
