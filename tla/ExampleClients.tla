--------------------------- MODULE ExampleClients ---------------------------
(***************************************************************************)
(* The three example designs and their testbenches (sb_sim/<example>/      *)
(* client.cc, src/main/scala/example).  Each is a loop through the RTL:    *)
(*                                                                         *)
(*   minimal     send_thread -> in.q -> buf -> out.q -> recv_thread        *)
(*   tlmem       send_thread -> A -> crossbar and RAM -> D -> recv_thread  *)
(*   tlloopback  client_thread -> A -> manager port -> manager_thread      *)
(*                             -> D -> client_thread                       *)
(*                                                                         *)
(* tx, mid and rx are the three legs, each a FIFO (AdapterChannel shows    *)
(* that a Switchboard queue with the adapter's buffer is one).  A behaviour*)
(* is a run of one of the examples.                                        *)
(***************************************************************************)
EXTENDS Integers, Sequences

CONSTANTS
  Packets,      \* what minimal and tlmem send (32 in the code)
  IdBits,       \* idBits of tlmem's and tlloopback's client port (4)
  NBytes,       \* bytes of a packet minimal fills and checks (32)
  TxCapacity, RxCapacity,   \* the two outer legs
  MidCapacity               \* minimal's buf (32), requests in tlmem's crossbar
                            \* and RAM, or tlloopback's way to the manager

Ids == 2^IdBits

(***************************************************************************)
(* minimal's byte i holds i & 0xff without wrapping.  Nothing relates the  *)
(* capacities to the number of source IDs: tlmem's client sends without    *)
(* waiting for an answer, so requests in flight may share a source ID.     *)
(***************************************************************************)
ASSUME ExampleAssumption ==
  /\ Packets \in Nat \ {0}
  /\ IdBits \in Nat /\ Ids \in Nat \ {0}
  /\ NBytes \in 1 .. 255
  /\ {TxCapacity, RxCapacity, MidCapacity} \subseteq Nat \ {0}

VARIABLES
  test,       \* which example
  tx, mid, rx,
  sent,       \* messages the sending thread has sent
  got,        \* answers the receiving thread has received
  taken,      \* messages taken from mid, by the design or manager_thread
  answered,   \* answers put in rx
  tl_a,       \* the beat manager_thread received last
  failed      \* an assert of the testbench has failed

vars == <<test, tx, mid, rx, sent, got, taken, answered, tl_a, failed>>

Tests == {"minimal", "tlmem", "tlloopback"}

Tx == INSTANCE Fifo WITH items <- tx, Item <- {}, Capacity <- TxCapacity
Mid == INSTANCE Fifo WITH items <- mid, Item <- {}, Capacity <- MidCapacity
Rx == INSTANCE Fifo WITH items <- rx, Item <- {}, Capacity <- RxCapacity

-----------------------------------------------------------------------------
\* tlloopback sends the two beats of one burst and waits for one answer.
ToSend == IF test = "tlloopback" THEN 2 ELSE Packets
ToReceive == IF test = "tlloopback" THEN 1 ELSE Packets

Bytes(first) == [i \in 0 .. NBytes - 1 |-> (i + first) % 256]

Put(source) == [opcode |-> "PutFullData", corrupt |-> 0, source |-> source]
Ack(source) == [opcode |-> "AccessAck", denied |-> 0, source |-> source]

\* The j-th message of the sending thread (j counts from 0).
Request(j) ==
  CASE test = "minimal" -> Bytes(0)
    [] test = "tlmem" -> Put(j)
    [] test = "tlloopback" -> Put(0)

\* What the port makes of it: fewer source bits.
HalfTheIds(m) ==                 \* fault: idBits - 1 bits of the source survive
  IF test = "minimal" THEN m ELSE [m EXCEPT !.source = @ % (Ids \div 2)]
AtPort(m) ==
  IF test = "minimal" THEN m ELSE [m EXCEPT !.source = @ % Ids]

\* minimal adds one to every byte on the way into buf.
BytesUnchanged(m) == m           \* fault: .map(i => i + 1.U) is missing
PlusOne(m) == [i \in DOMAIN m |-> (m[i] + 1) % 256]

IntoMid(m) == IF test = "minimal" THEN PlusOne(m) ELSE AtPort(m)

\* The RAM and manager_thread echo the source they were sent.
Answer(m) == IF test = "minimal" THEN m ELSE Ack(m.source)

\* The asserts of recv_thread and client_thread.
Expected(m) ==
  IF test = "minimal"
  THEN \A i \in 0 .. NBytes - 1 : m[i] = (i % 256) + 1
  ELSE m.opcode = "AccessAck" /\ m.denied = 0

Init ==
  /\ test \in Tests
  /\ tx = <<>> /\ mid = <<>> /\ rx = <<>>
  /\ sent = 0 /\ got = 0 /\ taken = 0 /\ answered = 0
  /\ tl_a = Put(0)
  /\ failed = FALSE

\* send_blocking, send_a.
Send ==
  /\ sent < ToSend
  /\ Tx!Put(Request(sent))
  /\ sent' = sent + 1
  /\ UNCHANGED <<test, mid, rx, got, taken, answered, tl_a, failed>>

StillThere(queue) == queue       \* fault: ready is not connected
Consumed(queue) == Tail(queue)

Hop ==
  /\ tx # <<>>
  /\ Mid!Put(IntoMid(Head(tx)))
  /\ tx' = Consumed(tx)
  /\ UNCHANGED <<test, rx, sent, got, taken, answered, tl_a, failed>>

\* minimal's buf empties into out.q; a RAM answers the write it has done.
DesignAnswers ==
  /\ test # "tlloopback"
  /\ mid # <<>>
  /\ Rx!Put(Answer(Head(mid)))
  /\ mid' = Tail(mid)
  /\ taken' = taken + 1 /\ answered' = answered + 1
  /\ UNCHANGED <<test, tx, sent, got, tl_a, failed>>

\* manager_thread: recv_a twice with its asserts, then one send_d.
ManagerReceives ==
  /\ test = "tlloopback" /\ taken < 2
  /\ Mid!Take
  /\ tl_a' = Head(mid)
  /\ failed' = (failed \/ tl_a'.opcode # "PutFullData" \/ tl_a'.corrupt # 0)
  /\ taken' = taken + 1
  /\ UNCHANGED <<test, tx, rx, sent, got, answered>>

AckPerBeat == answered < taken   \* fault: send_d after each recv_a
BurstComplete == answered = 0 /\ taken = 2

ManagerAnswers ==
  /\ test = "tlloopback" /\ BurstComplete
  /\ Rx!Put(Ack(tl_a.source))
  /\ answered' = answered + 1
  /\ UNCHANGED <<test, tx, mid, sent, got, taken, tl_a, failed>>

\* recv_thread; client_thread receives when it has sent everything.
ReceiveInTurn == sent = ToSend   \* fault: one thread sends, then receives
MayReceive == test = "tlloopback" => sent = ToSend

Receive ==
  /\ got < ToReceive /\ MayReceive
  /\ Rx!Take
  /\ failed' = (failed \/ ~Expected(Head(rx)))
  /\ got' = got + 1
  /\ UNCHANGED <<test, tx, mid, sent, taken, answered, tl_a>>

\* main() has joined its threads.
Joined ==
  /\ sent = ToSend /\ got = ToReceive
  /\ test = "tlloopback" => taken = 2 /\ answered > 0

Next ==
  \/ Send \/ Hop \/ DesignAnswers \/ ManagerReceives \/ ManagerAnswers
  \/ Receive

Spec == Init /\ [][Next]_vars

(***************************************************************************)
(* Every thread is scheduled and the simulator keeps clocking.             *)
(***************************************************************************)
FairSpec ==
  /\ Spec
  /\ WF_vars(Send) /\ WF_vars(Receive)
  /\ WF_vars(ManagerReceives) /\ WF_vars(ManagerAnswers)
  /\ WF_vars(Hop) /\ WF_vars(DesignAnswers)

-----------------------------------------------------------------------------
Requests == {Request(j) : j \in 0 .. ToSend - 1}
AtDesign == {IntoMid(m) : m \in Requests}
Answers == {Answer(m) : m \in AtDesign}

TypeOK ==
  /\ test \in Tests
  /\ tx \in Seq(Requests) /\ mid \in Seq(AtDesign) /\ rx \in Seq(Answers)
  /\ sent \in 0 .. ToSend /\ got \in 0 .. ToReceive
  /\ taken \in 0 .. ToSend /\ answered \in 0 .. ToReceive
  /\ Len(tx) <= TxCapacity /\ Len(mid) <= MidCapacity /\ Len(rx) <= RxCapacity
  /\ failed \in BOOLEAN

(***************************************************************************)
(* Nothing is lost or duplicated between the counters of the two threads,  *)
(* and a design answers a beat (tlloopback: a burst) once.                 *)
(***************************************************************************)
Accounted ==
  /\ sent = taken + Len(mid) + Len(tx)
  /\ answered = got + Len(rx)
  /\ IF test = "tlloopback" THEN answered > 0 => taken = 2 ELSE answered = taken

(***************************************************************************)
(* Each leg holds consecutive messages, in the order they were sent: the   *)
(* next answer recv_thread gets is the one to its next request, although   *)
(* neither thread matches source IDs (tlmem/client.cc:30-38) and the 32    *)
(* sources tlmem sends are cut to idBits on the way (:17), so that several *)
(* requests in the design may carry the same one.                          *)
(***************************************************************************)
InOrder ==
  /\ \A i \in 1 .. Len(tx) : tx[i] = Request(taken + Len(mid) + i - 1)
  /\ \A i \in 1 .. Len(mid) : mid[i] = IntoMid(Request(taken + i - 1))
  /\ \A i \in 1 .. Len(rx) : rx[i] = Answer(IntoMid(Request(got + i - 1)))
  /\ test = "tlloopback" => tl_a = Put(0)

(***************************************************************************)
(* minimal/client.cc:29-31, tlmem/client.cc:34-35, tlloopback/client.cc:   *)
(* 43-44 and :50-55: no assert of a testbench fails, in whatever order its *)
(* threads and the design run.                                             *)
(***************************************************************************)
ChecksPass == ~failed

(***************************************************************************)
(* When main() has joined its threads nothing is left in any queue.        *)
(* tlmem/client.cc:50-54 depends on it: the ELF loader that follows uses   *)
(* the same agent and would take a leftover response for its own.          *)
(***************************************************************************)
QuietAfterJoin == Joined => tx = <<>> /\ mid = <<>> /\ rx = <<>>

(***************************************************************************)
(* Until main() can join, some thread or the design can take a step,       *)
(* however small the queues are: nobody who waits for room waits for a     *)
(* thread that waits for an answer (minimal/client.cc:18 and :28).         *)
(***************************************************************************)
CanStep ==
  \/ sent < ToSend /\ Len(tx) < TxCapacity
  \/ tx # <<>> /\ Len(mid) < MidCapacity
  \/ test # "tlloopback" /\ mid # <<>> /\ Len(rx) < RxCapacity
  \/ test = "tlloopback" /\ taken < 2 /\ mid # <<>>
  \/ test = "tlloopback" /\ BurstComplete /\ Len(rx) < RxCapacity
  \/ got < ToReceive /\ MayReceive /\ rx # <<>>

NeverWedged == ~Joined => CanStep

(***************************************************************************)
(* A message is sent, hops into the design and is taken there; its answer  *)
(* is sent and received.  Each step does one of these that was still to be *)
(* done (the design takes and answers at once), so an example cannot go on *)
(* for more than 3 ToSend + 2 ToReceive steps.                             *)
(***************************************************************************)
Left ==
  (ToSend - sent) + (ToSend - (sent - Len(tx))) + (ToSend - taken)
  + (ToReceive - answered) + (ToReceive - got)

EveryStepCounts == [][Left' \in Nat /\ Left' < Left]_vars

(***************************************************************************)
(* Every example ends.                                                     *)
(***************************************************************************)
Joins == <>Joined

(***************************************************************************)
(* tilelinklib.h:119 says of TLMessageD::source: "Echoed source ID from    *)
(* the corresponding A-channel request."  The next answer recv_thread gets *)
(* is to Request(got), counted from 0.                                     *)
(***************************************************************************)
SourceEchoed ==
  test = "tlmem" /\ rx # <<>> => Head(rx).source = Request(got).source
=============================================================================
