------------------------ MODULE AdapterChannelProofs ------------------------
(***************************************************************************)
(* An adapter channel implements a bounded FIFO, for any messages, port    *)
(* widths and queue depths.  The lemmas assume LayoutsAgree, which         *)
(* WireFormatProofs proves.                                                *)
(***************************************************************************)
EXTENDS AdapterChannel, WireFormatProofs, SequenceTheorems, TLAPS

-----------------------------------------------------------------------------
\* Moving the head of one queue to the end of the one before it.
LEMMA MoveKeepsConcat ==
  ASSUME NEW S, NEW b \in Seq(S), NEW c \in Seq(S), c # <<>>
  PROVE  Append(b, Head(c)) \o Tail(c) = b \o c
<1>1. c = <<Head(c)>> \o Tail(c)
  OBVIOUS
<1>2. Append(b, Head(c)) = b \o <<Head(c)>>
  BY HeadTailProperties, AppendIsConcat
<1>3. <<Head(c)>> \in Seq(S) /\ Tail(c) \in Seq(S)
  BY HeadTailProperties
<1> QED  BY <1>1, <1>2, <1>3, ConcatAssociative

\* Appending to a concatenation.
LEMMA AppendToConcat ==
  ASSUME NEW S, NEW b \in Seq(S), NEW c \in Seq(S), NEW x \in S
  PROVE  b \o Append(c, x) = Append(b \o c, x)
<1>1. Append(c, x) = c \o <<x>> /\ Append(b \o c, x) = (b \o c) \o <<x>>
  BY AppendIsConcat, ConcatProperties
<1> QED  BY <1>1, ConcatAssociative

\* The head of a concatenation is the head of its first part.
LEMMA TailOfConcat ==
  ASSUME NEW S, NEW b \in Seq(S), NEW c \in Seq(S), b # <<>>
  PROVE  b \o c # <<>> /\ Tail(b \o c) = Tail(b) \o c
OBVIOUS

\* The length of a concatenation.
LEMMA LengthOfConcat ==
  ASSUME NEW S, NEW b \in Seq(S), NEW c \in Seq(S)
  PROVE  Len(b \o c) = Len(b) + Len(c) /\ b \o c \in Seq(S)
OBVIOUS

\* A function applied to every element of a queue.
LEMMA MapFacts ==
  ASSUME NEW P, NEW T, NEW f \in [P -> T], NEW s \in Seq(P)
  PROVE  /\ [i \in 1 .. Len(s) |-> f[s[i]]] \in Seq(T)
         /\ Len([i \in 1 .. Len(s) |-> f[s[i]]]) = Len(s)
OBVIOUS

\* Mapping commutes with appending.
LEMMA MapAppend ==
  ASSUME NEW P, NEW T, NEW f \in [P -> T], NEW s \in Seq(P), NEW x \in P
  PROVE  [i \in 1 .. Len(Append(s, x)) |-> f[Append(s, x)[i]]]
           = Append([i \in 1 .. Len(s) |-> f[s[i]]], f[x])
OBVIOUS

\* Mapping commutes with taking head and tail.
LEMMA MapTail ==
  ASSUME NEW P, NEW T, NEW f \in [P -> T], NEW s \in Seq(P), s # <<>>
  PROVE  /\ [i \in 1 .. Len(s) |-> f[s[i]]] # <<>>
         /\ Head([i \in 1 .. Len(s) |-> f[s[i]]]) = f[Head(s)]
         /\ Tail([i \in 1 .. Len(s) |-> f[s[i]]])
              = [i \in 1 .. Len(Tail(s)) |-> f[Tail(s)[i]]]
OBVIOUS

-----------------------------------------------------------------------------
(***************************************************************************)
(* Conversions.                                                            *)
(***************************************************************************)
\* With agreeing layouts every reader finds the message that was written.
LEMMA DecodePacket ==
  ASSUME LayoutsAgree, TypeOK, NEW p \in Packets
  PROVE  /\ Decode(StructBits[Kind], p) = p.msg
         /\ Decode(UnpackBits[Kind], p) = p.msg
<1>1. Kind \in Kinds
  BY DEF Kind, Kinds
<1>2. p.bits = StructBits[Kind] \/ p.bits = PackBits[Kind]
  BY DEF Packets
<1>3. DOMAIN p.msg = Fields[Kind] /\ p.msg = [f \in Fields[Kind] |-> p.msg[f]]
  <2>1. CASE FromHost
    BY <1>1, <2>1, ChannelAssumption DEF Packets
  <2>2. CASE ~FromHost
    <3>1. PICK m \in Messages[Kind] : p.msg = Narrow(m)
      BY <2>2 DEF Packets, Beats
    <3>2. DOMAIN m = Fields[Kind]
      BY <1>1, ChannelAssumption
    <3> QED  BY <3>1, <3>2 DEF Narrow
  <2> QED  BY <2>1, <2>2
<1>4. \A f \in Fields[Kind] :
        p.bits[f] = StructBits[Kind][f] /\ p.bits[f] = UnpackBits[Kind][f]
  BY <1>1, <1>2 DEF LayoutsAgree
<1> QED  BY <1>3, <1>4 DEF Decode

\* What the queue holds are beats of the channel.
LEMMA MeaningFacts ==
  ASSUME LayoutsAgree, TypeOK, NEW p \in Packets
  PROVE  /\ Meaning(p) \in Beats(Kind)
         /\ Meaning(p) = IF FromHost THEN Narrow(p.msg) ELSE p.msg
<1>1. Meaning(p) = IF FromHost THEN Narrow(p.msg) ELSE p.msg
  BY DecodePacket DEF Meaning
<1>2. p.msg \in IF FromHost THEN Messages[Kind] ELSE Beats(Kind)
  BY DEF Packets
<1> QED  BY <1>1, <1>2 DEF Beats

\* What one Append to the queue, or one Tail of it, does to InQueue.
LEMMA QueueFacts ==
  ASSUME LayoutsAgree, TypeOK
  PROVE  /\ InQueue \in Seq(Beats(Kind)) /\ Len(InQueue) = Len(q)
         /\ q # <<>> => /\ InQueue # <<>>
                        /\ Head(InQueue) = Meaning(Head(q))
                        /\ Tail(InQueue)
                             = [i \in 1 .. Len(Tail(q)) |-> Meaning(Tail(q)[i])]
         /\ \A p \in Packets :
              [i \in 1 .. Len(Append(q, p)) |-> Meaning(Append(q, p)[i])]
                = Append(InQueue, Meaning(p))
<1> DEFINE f == [p \in Packets |-> Meaning(p)]
<1>1. f \in [Packets -> Beats(Kind)]
  BY MeaningFacts
<1>2. q \in Seq(Packets)
  BY DEF TypeOK
<1>3. InQueue = [i \in 1 .. Len(q) |-> f[q[i]]]
  BY <1>2 DEF InQueue
<1>4. /\ InQueue \in Seq(Beats(Kind)) /\ Len(InQueue) = Len(q)
  <2> HIDE DEF f
  <2> QED  BY <1>1, <1>2, <1>3, MapFacts
<1>5. ASSUME q # <<>>
      PROVE  /\ InQueue # <<>> /\ Head(InQueue) = Meaning(Head(q))
             /\ Tail(InQueue) = [i \in 1 .. Len(Tail(q)) |-> Meaning(Tail(q)[i])]
  <2>1. Tail(q) \in Seq(Packets) /\ Head(q) \in Packets
    BY <1>2, <1>5, HeadTailProperties
  <2>2. [i \in 1 .. Len(Tail(q)) |-> Meaning(Tail(q)[i])]
          = [i \in 1 .. Len(Tail(q)) |-> f[Tail(q)[i]]]
    BY <2>1
  <2>3. f[Head(q)] = Meaning(Head(q))
    BY <2>1
  <2> HIDE DEF f
  <2> QED  BY <1>1, <1>2, <1>3, <1>5, <2>2, <2>3, MapTail
<1>6. ASSUME NEW p \in Packets
      PROVE  [i \in 1 .. Len(Append(q, p)) |-> Meaning(Append(q, p)[i])]
               = Append(InQueue, Meaning(p))
  <2>1. Append(q, p) \in Seq(Packets)
    BY <1>2
  <2>2. [i \in 1 .. Len(Append(q, p)) |-> Meaning(Append(q, p)[i])]
          = [i \in 1 .. Len(Append(q, p)) |-> f[Append(q, p)[i]]]
    BY <2>1
  <2>3. f[p] = Meaning(p)
    OBVIOUS
  <2> HIDE DEF f
  <2> QED  BY <1>1, <1>2, <1>3, <2>2, <2>3, MapAppend
<1> QED  BY <1>4, <1>5, <1>6

-----------------------------------------------------------------------------
(***************************************************************************)
(* The type invariant.                                                     *)
(***************************************************************************)
\* Every packet an end writes is in Packets, and every beat in Beats.
LEMMA WrittenTypes ==
  ASSUME TypeOK
  PROVE  /\ Kind \in Kinds
         /\ FromHost => \A m \in Messages[Kind] :
                          Encode(StructBits[Kind], m) \in Packets
         /\ ~FromHost => \A m \in Beats(Kind) :
                           Encode(PackBits[Kind], m) \in Packets
BY DEF Kind, Kinds, Encode, Packets

\* The queues at the start.
LEMMA InitType == Init => TypeOK
BY ChannelAssumption DEF Init, TypeOK

\* No step takes a queue past its capacity or puts something else in it.
LEMMA TypeStep ==
  ASSUME LayoutsAgree, TypeOK, [Next]_vars
  PROVE  TypeOK'
<1> USE DEF TypeOK
<1>0. q \in Seq(Packets) /\ buf \in Seq(Beats(Kind)) /\ Kind \in Kinds
  BY WrittenTypes
<1>1. CASE UNCHANGED vars
  BY <1>1 DEF vars, Packets, Beats, Kind, FromHost
<1>2. ASSUME UNCHANGED ch
      PROVE  Packets' = Packets /\ Beats(Kind)' = Beats(Kind)
  BY <1>2 DEF Packets, Beats, Kind, FromHost
<1>3. CASE HostSend
  <2>1. PICK m \in Messages[Kind] : q' = Append(q, Encode(StructBits[Kind], m))
    BY <1>3 DEF HostSend
  <2>2. Encode(StructBits[Kind], m) \in Packets
    BY <1>3, WrittenTypes DEF HostSend
  <2>3. q' \in Seq(Packets) /\ Len(q') = Len(q) + 1
    BY <1>0, <2>1, <2>2
  <2> QED
    BY <1>2, <1>3, <2>3, ChannelAssumption DEF HostSend, RoomInQueue
<1>4. CASE Enqueue
  <2>1. Head(q) \in Packets /\ Tail(q) \in Seq(Packets)
        /\ Len(Tail(q)) = Len(q) - 1
    BY <1>0, <1>4, HeadTailProperties DEF Enqueue
  <2>2. Narrow(Decode(UnpackBits[Kind], Head(q))) \in Beats(Kind)
    <3>1. Head(q).msg \in Messages[Kind]
      BY <1>4, <2>1 DEF Enqueue, Packets
    <3> QED  BY <2>1, <3>1, DecodePacket DEF Beats
  <2>3. buf' \in Seq(Beats(Kind)) /\ Len(buf') = Len(buf) + 1
    BY <1>0, <1>4, <2>2 DEF Enqueue
  <2> QED
    BY <1>2, <1>4, <2>1, <2>3, ChannelAssumption DEF Enqueue, EnqReady
<1>5. CASE PortTakes
  <2>1. Tail(buf) \in Seq(Beats(Kind)) /\ Len(Tail(buf)) = Len(buf) - 1
    BY <1>0, <1>5, HeadTailProperties DEF PortTakes
  <2> QED  BY <1>2, <1>5, <2>1, ChannelAssumption DEF PortTakes
<1>6. CASE PortGives
  <2>1. PICK m \in Beats(Kind) : buf' = Append(buf, m)
    BY <1>6 DEF PortGives
  <2>2. buf' \in Seq(Beats(Kind)) /\ Len(buf') = Len(buf) + 1
    BY <1>0, <2>1
  <2> QED  BY <1>2, <1>6, <2>2, ChannelAssumption DEF PortGives, EnqReady
<1>7. CASE Dequeue
  <2>1. Head(buf) \in Beats(Kind) /\ Tail(buf) \in Seq(Beats(Kind))
        /\ Len(Tail(buf)) = Len(buf) - 1
    BY <1>0, <1>7, HeadTailProperties DEF Dequeue
  <2>2. Encode(PackBits[Kind], Head(buf)) \in Packets
    BY <1>7, <2>1, WrittenTypes DEF Dequeue
  <2>3. q' \in Seq(Packets) /\ Len(q') = Len(q) + 1
    BY <1>0, <1>7, <2>2 DEF Dequeue
  <2> QED
    BY <1>2, <1>7, <2>1, <2>3, ChannelAssumption
    DEF Dequeue, RoomInQueue
<1>8. CASE HostReceives
  <2>1. Tail(q) \in Seq(Packets) /\ Len(Tail(q)) = Len(q) - 1
    BY <1>0, <1>8, HeadTailProperties DEF HostReceives
  <2> QED  BY <1>2, <1>8, <2>1, ChannelAssumption DEF HostReceives
<1> QED  BY <1>1, <1>3, <1>4, <1>5, <1>6, <1>7, <1>8 DEF Next

(***************************************************************************)
(* No queue overflows and nothing garbled is ever in one                   *)
(* (SwitchboardTLAdapter's Decoupled handshakes and send_blocking).        *)
(***************************************************************************)
THEOREM QueuesBounded == Spec => []TypeOK
<1>1. TypeOK /\ [Next]_vars => TypeOK'
  BY TypeStep, OneLayout
<1> QED  BY InitType, <1>1, PTL DEF Spec

-----------------------------------------------------------------------------
(***************************************************************************)
(* The refinement.                                                         *)
(***************************************************************************)
\* What is on its way, as a sequence of beats.
LEMMA ContentsFacts ==
  ASSUME LayoutsAgree, TypeOK
  PROVE  /\ Contents \in Seq(Beats(Kind))
         /\ Len(Contents) = Len(q) + Len(buf)
         /\ buf \in Seq(Beats(Kind))
         /\ Beats(Kind) \subseteq Beats("A") \cup Beats("D")
<1>1. buf \in Seq(Beats(Kind)) /\ Len(buf) \in Nat
      /\ q \in Seq(Packets) /\ Len(q) \in Nat
  BY DEF TypeOK
<1>2. InQueue \in Seq(Beats(Kind)) /\ Len(InQueue) = Len(q)
  BY QueueFacts
<1>3. Beats(Kind) \subseteq Beats("A") \cup Beats("D")
  BY DEF Kind
<1> QED  BY <1>1, <1>2, <1>3, LengthOfConcat DEF Contents

\* A step that puts a beat at the end of the channel is the FIFO's Put.
LEMMA PutStep ==
  ASSUME LayoutsAgree, TypeOK, NEW x \in Beats(Kind),
         Len(q) + Len(buf) < QCapacity + Depth,
         Contents' = Append(Contents, x)
  PROVE  Channel!Next
BY ContentsFacts DEF Channel!Next, Channel!Put

\* A step that changes nothing the two ends can see.
LEMMA SilentStep ==
  ASSUME LayoutsAgree, TypeOK, Enqueue \/ Dequeue
  PROVE  Contents' = Contents
<1>0. buf \in Seq(Beats(Kind)) /\ q \in Seq(Packets)
      /\ InQueue \in Seq(Beats(Kind))
  BY QueueFacts DEF TypeOK
<1>1. ch' = ch /\ FromHost' = FromHost
  BY DEF Enqueue, Dequeue, FromHost
<1>2. \A p \in Packets : Meaning(p)' = Meaning(p)
  BY <1>1 DEF Meaning, Kind, FromHost
<1>3. CASE Enqueue
  <2>1. FromHost /\ q # <<>> /\ q' = Tail(q)
        /\ buf' = Append(buf, Narrow(Decode(UnpackBits[Kind], Head(q))))
    BY <1>3 DEF Enqueue
  <2>2. Head(q) \in Packets /\ Tail(q) \in Seq(Packets)
    BY <1>0, <2>1, HeadTailProperties
  <2>3. Narrow(Decode(UnpackBits[Kind], Head(q))) = Head(InQueue)
    BY <2>1, <2>2, DecodePacket, MeaningFacts, QueueFacts
  <2>4. InQueue' = Tail(InQueue)
    <3>1. InQueue' = [i \in 1 .. Len(Tail(q)) |-> Meaning(Tail(q)[i])]
      BY <1>1, <2>1, <2>2 DEF InQueue, Meaning, Kind, FromHost
    <3> QED  BY <2>1, <3>1, QueueFacts
  <2>5. InQueue # <<>>
    BY <2>1, QueueFacts
  <2>6. Append(buf, Head(InQueue)) \o Tail(InQueue) = buf \o InQueue
    BY <1>0, <2>5, MoveKeepsConcat
  <2> QED  BY <1>1, <2>1, <2>3, <2>4, <2>6 DEF Contents
<1>4. CASE Dequeue
  <2>1. ~FromHost /\ buf # <<>> /\ buf' = Tail(buf)
        /\ q' = Append(q, Encode(PackBits[Kind], Head(buf)))
    BY <1>4 DEF Dequeue
  <2>2. Head(buf) \in Beats(Kind)
    BY <1>0, <2>1, HeadTailProperties
  <2> DEFINE p == Encode(PackBits[Kind], Head(buf))
  <2>3. p \in Packets /\ p.msg = Head(buf)
    BY <2>1, <2>2, WrittenTypes DEF Encode
  <2>4. Meaning(p) = Head(buf)
    BY <2>1, <2>3, MeaningFacts
  <2>5. InQueue' = Append(InQueue, Head(buf))
    <3>1. InQueue' = [i \in 1 .. Len(Append(q, p)) |-> Meaning(Append(q, p)[i])]
      BY <1>1, <2>1 DEF InQueue, Meaning, Kind, FromHost
    <3> QED  BY <2>3, <2>4, <3>1, QueueFacts
  <2>6. Append(InQueue, Head(buf)) \o Tail(buf) = InQueue \o buf
    BY <1>0, <2>1, MoveKeepsConcat
  <2> QED  BY <1>1, <2>1, <2>5, <2>6 DEF Contents
<1> QED  BY <1>3, <1>4

\* Every step of the channel is a step of the FIFO or invisible.
LEMMA ChannelStep ==
  ASSUME LayoutsAgree, TypeOK, [Next]_vars
  PROVE  [Channel!Next]_Contents
<1>0. /\ buf \in Seq(Beats(Kind)) /\ q \in Seq(Packets)
      /\ InQueue \in Seq(Beats(Kind))
      /\ Len(q) \in Nat /\ Len(buf) \in Nat
      /\ Len(q) <= QCapacity /\ Len(buf) <= Depth
  BY QueueFacts DEF TypeOK
<1>1. ch' = ch
  BY DEF Next, vars, HostSend, Enqueue, PortTakes, PortGives, Dequeue,
         HostReceives
<1>2. FromHost' = FromHost /\ Kind' = Kind
  BY <1>1 DEF FromHost, Kind
<1>3. ASSUME UNCHANGED q PROVE InQueue' = InQueue
  BY <1>1, <1>3 DEF InQueue, Meaning, Kind, FromHost
<1>4. CASE UNCHANGED vars
  BY <1>2, <1>3, <1>4 DEF vars, Contents
<1>5. CASE HostSend
  <2>1. PICK m \in Messages[Kind] : q' = Append(q, Encode(StructBits[Kind], m))
    BY <1>5 DEF HostSend
  <2> DEFINE p == Encode(StructBits[Kind], m)
  <2>2. p \in Packets
    BY <1>5, WrittenTypes DEF HostSend
  <2>3. InQueue' = [i \in 1 .. Len(Append(q, p)) |-> Meaning(Append(q, p)[i])]
    BY <1>1, <2>1 DEF InQueue, Meaning, Kind, FromHost
  <2>4. InQueue' = Append(InQueue, Meaning(p))
    BY <2>2, <2>3, QueueFacts
  <2>5. Meaning(p) \in Beats(Kind)
    BY <2>2, MeaningFacts
  <2> HIDE DEF p
  <2>6. buf \o Append(InQueue, Meaning(p)) = Append(buf \o InQueue, Meaning(p))
    BY <1>0, <2>5, AppendToConcat
  <2>7. Contents' = Append(Contents, Meaning(p))
    BY <1>2, <1>5, <2>4, <2>6 DEF HostSend, Contents
  <2>8. Len(q) + Len(buf) < QCapacity + Depth
    BY <1>0, <1>5, ChannelAssumption DEF HostSend, RoomInQueue
  <2> QED  BY <2>5, <2>7, <2>8, PutStep
<1>6. CASE PortGives
  <2>1. PICK m \in Beats(Kind) : buf' = Append(buf, m)
    BY <1>6 DEF PortGives
  <2>2. Contents' = InQueue \o Append(buf, m)
    BY <1>2, <1>3, <1>6, <2>1 DEF PortGives, Contents
  <2>3. Contents = InQueue \o buf
    BY <1>6 DEF PortGives, Contents
  <2>4. Contents' = Append(Contents, m)
    BY <1>0, <2>2, <2>3, AppendToConcat
  <2>5. Len(q) + Len(buf) < QCapacity + Depth
    BY <1>0, <1>6, ChannelAssumption DEF PortGives, EnqReady
  <2> QED  BY <2>4, <2>5, PutStep
<1>7. CASE Enqueue \/ Dequeue
  BY <1>7, SilentStep
<1>8. CASE PortTakes
  <2>1. Contents = buf \o InQueue /\ Contents' = Tail(buf) \o InQueue
    BY <1>2, <1>3, <1>8 DEF PortTakes, Contents
  <2>2. Contents # <<>> /\ Contents' = Tail(Contents)
    BY <1>0, <1>8, <2>1, TailOfConcat DEF PortTakes
  <2> QED  BY <2>2 DEF Channel!Next, Channel!Take
<1>9. CASE HostReceives
  <2>1. ~FromHost /\ q # <<>> /\ q' = Tail(q) /\ UNCHANGED buf
    BY <1>9 DEF HostReceives
  <2>2. InQueue' = [i \in 1 .. Len(Tail(q)) |-> Meaning(Tail(q)[i])]
    BY <1>1, <2>1 DEF InQueue, Meaning, Kind, FromHost
  <2>3. InQueue # <<>> /\ InQueue' = Tail(InQueue)
    BY <2>1, <2>2, QueueFacts
  <2>4. Contents = InQueue \o buf /\ Contents' = Tail(InQueue) \o buf
    BY <1>2, <2>1, <2>3 DEF Contents
  <2>5. Contents # <<>> /\ Contents' = Tail(Contents)
    BY <1>0, <2>3, <2>4, TailOfConcat
  <2> QED  BY <2>5 DEF Channel!Next, Channel!Take
<1> QED  BY <1>4, <1>5, <1>6, <1>7, <1>8, <1>9 DEF Next

\* An idle adapter is an empty FIFO.
LEMMA ChannelInit == Init => Channel!Init
BY DEF Init, Channel!Init, Contents, InQueue

(***************************************************************************)
(* The safety part of ImplementsFifo: between send_a and the client port,  *)
(* the manager port and recv_a, and so for D, nothing is lost, duplicated, *)
(* reordered or changed, whatever the depths of the queues.                *)
(***************************************************************************)
THEOREM AdapterIsFifo == Spec => Channel!Spec
<1>1. TypeOK /\ [Next]_vars => [Channel!Next]_Contents
  BY ChannelStep, OneLayout
<1>2. Spec => []TypeOK
  BY QueuesBounded
<1> QED  BY ChannelInit, <1>1, <1>2, PTL DEF Spec, Channel!Spec
=============================================================================
