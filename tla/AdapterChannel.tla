--------------------------- MODULE AdapterChannel ---------------------------
(***************************************************************************)
(* One channel of SwitchboardTLAdapter: the Switchboard queue the host     *)
(* thread uses and the adapter's queue at the TileLink port.  A client     *)
(* port takes A from the host and gives it D; a manager port takes D from  *)
(* the host and gives it A.  The channels share no state, so a behaviour   *)
(* is about one of them.                                                   *)
(*                                                                         *)
(* The host calls send_a, recv_d, recv_a and send_d of ClientTLAgent and   *)
(* ManagerTLAgent, which copy the struct to or from a packet and spin      *)
(* while the queue is full or empty.                                       *)
(***************************************************************************)
EXTENDS WireFormat

CONSTANTS
  Messages,    \* for A and for D, the messages the host may send
  QCapacity,   \* packets a Switchboard queue holds
  Depth        \* beats the adapter's Queue holds (8 in the code)

ASSUME ChannelAssumption ==
  /\ \A k \in Kinds : Messages[k] \subseteq [Fields[k] -> Nat]
  /\ QCapacity \in Nat \ {0} /\ Depth \in Nat \ {0}

Channels == {"client_a", "client_d", "manager_a", "manager_d"}

VARIABLES
  ch,    \* the channel
  q,     \* the Switchboard queue: packets
  buf    \* clientABuf, clientDBuf, managerABuf or managerDBuf: beats

vars == <<ch, q, buf>>

Kind == IF ch \in {"client_a", "manager_a"} THEN "A" ELSE "D"
FromHost == ch \in {"client_a", "manager_d"}

Beats(k) == {Narrow(m) : m \in Messages[k]}

Init == ch \in Channels /\ q = <<>> /\ buf = <<>>

RoomInQueue == Len(q) < QCapacity
EnqReadyAlways == TRUE                     \* fault: x.ready not connected
EnqReady == Len(buf) < Depth

\* send_a, send_d: memcpy of the struct, then send_blocking.
HostSend ==
  /\ FromHost /\ RoomInQueue
  /\ \E m \in Messages[Kind] : q' = Append(q, Encode(StructBits[Kind], m))
  /\ UNCHANGED <<ch, buf>>

\* toTLA, toTLD and the Queue's enq: valid and ready in the same cycle.
Enqueue ==
  /\ FromHost /\ q # <<>> /\ EnqReady
  /\ buf' = Append(buf, Narrow(Decode(UnpackBits[Kind], Head(q))))
  /\ q' = Tail(q)
  /\ UNCHANGED ch

\* The port's other side takes a beat, or drives one.
PortTakes == FromHost /\ buf # <<>> /\ buf' = Tail(buf) /\ UNCHANGED <<ch, q>>

PortGives ==
  /\ ~FromHost /\ EnqReady
  /\ \E m \in Beats(Kind) : buf' = Append(buf, m)
  /\ UNCHANGED <<ch, q>>

\* fromTLA, fromTLD: the Queue's deq becomes a packet.
Dequeue ==
  /\ ~FromHost /\ buf # <<>> /\ RoomInQueue
  /\ q' = Append(q, Encode(PackBits[Kind], Head(buf)))
  /\ buf' = Tail(buf)
  /\ UNCHANGED ch

\* recv_d, recv_a: recv_blocking, then memcpy into the struct.
HostReceives == ~FromHost /\ q # <<>> /\ q' = Tail(q) /\ UNCHANGED <<ch, buf>>

Next ==
  \/ HostSend \/ Enqueue \/ PortTakes
  \/ PortGives \/ Dequeue \/ HostReceives

Spec == Init /\ [][Next]_vars

(***************************************************************************)
(* The simulator keeps clocking, so a transfer that can happen does; the   *)
(* receiving end keeps taking.  Nobody has to send.                        *)
(***************************************************************************)
FairSpec ==
  /\ Spec
  /\ WF_vars(Enqueue) /\ WF_vars(Dequeue)
  /\ WF_vars(PortTakes) /\ WF_vars(HostReceives)

-----------------------------------------------------------------------------
\* The packets the two ends write into the Switchboard queue.
Packets ==
  IF FromHost
  THEN [bits : {StructBits[Kind]}, msg : Messages[Kind]]
  ELSE [bits : {PackBits[Kind]}, msg : Beats(Kind)]

TypeOK ==
  /\ ch \in Channels
  /\ q \in Seq(Packets)
  /\ Len(q) <= QCapacity
  /\ buf \in Seq(Beats(Kind))
  /\ Len(buf) <= Depth

\* The message a packet is to the host; for a request, as the port can have it.
Meaning(packet) ==
  LET msg == Decode(StructBits[Kind], packet)
  IN  IF FromHost THEN Narrow(msg) ELSE msg

InQueue == [i \in 1 .. Len(q) |-> Meaning(q[i])]

Contents == IF FromHost THEN buf \o InQueue ELSE InQueue \o buf

Channel == INSTANCE Fifo WITH items <- Contents,
                              Item <- Beats("A") \cup Beats("D"),
                              Capacity <- QCapacity + Depth

(***************************************************************************)
(* The two queues, with the conversions between C struct, packet and port  *)
(* fields, are one bounded FIFO: no message is lost, duplicated, reordered *)
(* or changed except that a port keeps the low bits of a field, and every  *)
(* message that was sent comes out (SwitchboardTLAdapter.scala:109-141,    *)
(* Bundles.scala:183-227, tilelinklib.hpp:433-447 and :502-516).           *)
(***************************************************************************)
ImplementsFifo == Channel!FairSpec
=============================================================================
