------------------------ MODULE ExampleClientsProofs ------------------------
(***************************************************************************)
(* Proofs about ExampleClients for any number of packets, any source width *)
(* and any queue capacities.  IInv is inductive; every safety invariant    *)
(* that TLC checks follows from it.                                        *)
(***************************************************************************)
EXTENDS ExampleClients, TLAPS

IInv == TypeOK /\ Accounted /\ InOrder /\ ChecksPass

-----------------------------------------------------------------------------
\* Sequences: what one Put and one Take leave.
LEMMA TailFacts ==
  ASSUME NEW S, NEW s \in Seq(S), s # <<>>
  PROVE  /\ Len(s) \in Nat /\ Len(s) >= 1 /\ Head(s) = s[1] /\ s[1] \in S
         /\ Tail(s) \in Seq(S) /\ Len(Tail(s)) = Len(s) - 1
         /\ \A i \in 1 .. Len(s) - 1 : Tail(s)[i] = s[i + 1]
OBVIOUS

LEMMA AppendFacts ==
  ASSUME NEW S, NEW s \in Seq(S), NEW x \in S
  PROVE  /\ Len(s) \in Nat
         /\ Append(s, x) \in Seq(S) /\ Len(Append(s, x)) = Len(s) + 1
         /\ \A i \in 1 .. Len(s) : Append(s, x)[i] = s[i]
         /\ Append(s, x)[Len(s) + 1] = x
OBVIOUS

\* Arithmetic of source IDs.
LEMMA ModZero ==
  ASSUME NEW n \in Nat \ {0}
  PROVE  0 % n = 0
OBVIOUS

-----------------------------------------------------------------------------
\* The programs of the threads do not change while they run.
LEMMA Programs ==
  ASSUME UNCHANGED test
  PROVE  /\ ToSend' = ToSend /\ ToReceive' = ToReceive
         /\ Requests' = Requests /\ AtDesign' = AtDesign /\ Answers' = Answers
BY DEF ToSend, ToReceive, Requests, AtDesign, Answers, Request, IntoMid,
       AtPort, Answer

\* Nor does what a message becomes on its way.
LEMMA Messages ==
  ASSUME UNCHANGED test
  PROVE  /\ \A j : Request(j)' = Request(j)
         /\ \A m : IntoMid(m)' = IntoMid(m) /\ Answer(m)' = Answer(m)
BY DEF Request, IntoMid, AtPort, Answer

\* Every thread has something to do; tlloopback answers a burst once.
LEMMA ProgramLengths ==
  ASSUME TypeOK
  PROVE  /\ ToSend \in Nat \ {0} /\ ToReceive \in Nat \ {0}
         /\ test # "tlloopback" => ToReceive = ToSend
         /\ test = "tlloopback" => ToReceive = 1 /\ ToSend = 2
BY ExampleAssumption DEF TypeOK, ToSend, ToReceive

\* A request a thread may send, and what becomes of it, have their types.
LEMMA RequestFacts ==
  ASSUME NEW j \in 0 .. ToSend - 1
  PROVE  /\ Request(j) \in Requests
         /\ IntoMid(Request(j)) \in AtDesign
         /\ Answer(IntoMid(Request(j))) \in Answers
BY DEF Requests, AtDesign, Answers

\* Every answer passes the asserts of the receiving thread.
LEMMA AnswersExpected ==
  ASSUME TypeOK, NEW j \in Nat
  PROVE  Expected(Answer(IntoMid(Request(j))))
<1>1. CASE test = "minimal"
  <2>1. Bytes(0) = [i \in 0 .. NBytes - 1 |-> (i + 0) % 256]
    BY DEF Bytes
  <2>2. Answer(IntoMid(Request(j)))
          = [i \in 0 .. NBytes - 1 |-> (Bytes(0)[i] + 1) % 256]
    BY <1>1, <2>1 DEF Answer, IntoMid, Request, PlusOne
  <2>3. ASSUME NEW i \in 0 .. NBytes - 1
        PROVE  Answer(IntoMid(Request(j)))[i] = (i % 256) + 1
    <3>1. Bytes(0)[i] = (i + 0) % 256
      BY <2>1
    <3>2. Answer(IntoMid(Request(j)))[i] = (Bytes(0)[i] + 1) % 256
      BY <2>2
    <3>3. i \in 0 .. 254
      BY ExampleAssumption
    <3>4. (((i + 0) % 256) + 1) % 256 = (i % 256) + 1
      BY <3>3
    <3> QED  BY <3>1, <3>2, <3>4
  <2> QED  BY <1>1, <2>3 DEF Expected
<1>2. CASE test # "minimal"
  BY <1>2 DEF Expected, Answer, Ack
<1> QED  BY <1>1, <1>2

\* The beats of tlloopback's burst reach the manager as they were sent.
LEMMA BeatsReachManager ==
  ASSUME test = "tlloopback", NEW j \in Nat
  PROVE  IntoMid(Request(j)) = Put(0) /\ Answer(IntoMid(Request(j))) = Ack(0)
<1>1. 0 % Ids = 0
  BY ExampleAssumption, ModZero
<1>2. Request(j) = [opcode |-> "PutFullData", corrupt |-> 0, source |-> 0]
  BY DEF Request, Put
<1>3. IntoMid(Request(j)) = Put(0)
  BY <1>1, <1>2 DEF IntoMid, AtPort, Put
<1> QED  BY <1>3 DEF Answer, Put

-----------------------------------------------------------------------------
\* Nothing is on its way when the threads start.
LEMMA InitInv == Init => IInv
<1> SUFFICES ASSUME Init PROVE IInv
  OBVIOUS
<1>1. TypeOK
  <2>1. ToSend \in Nat \ {0} /\ ToReceive \in Nat \ {0}
    BY ExampleAssumption DEF ToSend, ToReceive
  <2>2. TxCapacity \in Nat /\ MidCapacity \in Nat /\ RxCapacity \in Nat
    BY ExampleAssumption
  <2>3. Len(<<>>) = 0
    OBVIOUS
  <2>4. tx \in Seq(Requests) /\ mid \in Seq(AtDesign) /\ rx \in Seq(Answers)
    BY DEF Init
  <2>5. failed \in BOOLEAN
    BY DEF Init
  <2>6. Len(tx) = 0 /\ Len(mid) = 0 /\ Len(rx) = 0
    BY <2>3 DEF Init
  <2>7. sent \in 0 .. ToSend /\ got \in 0 .. ToReceive
        /\ taken \in 0 .. ToSend /\ answered \in 0 .. ToReceive
    BY <2>1 DEF Init
  <2> QED  BY <2>2, <2>4, <2>5, <2>6, <2>7 DEF Init, TypeOK
<1>2. Accounted /\ InOrder /\ ChecksPass
  BY DEF Init, Accounted, InOrder, ChecksPass
<1> QED  BY <1>1, <1>2 DEF IInv

(***************************************************************************)
(* One lemma per action: IInv survives it.                                 *)
(***************************************************************************)
\* The new request follows those already in tx.
LEMMA SendInv ==
  ASSUME IInv, Send
  PROVE  IInv'
<1> USE DEF IInv
<1>1. /\ ToSend' = ToSend /\ ToReceive' = ToReceive
      /\ Requests' = Requests /\ AtDesign' = AtDesign /\ Answers' = Answers
  BY Programs DEF Send
<1>2. Request(sent) \in Requests /\ sent \in Nat /\ ToSend \in Nat
  BY RequestFacts, ProgramLengths DEF Send, TypeOK
<1>3. tx' = Append(tx, Request(sent)) /\ Len(tx) < TxCapacity
  BY DEF Send, Tx!Put
<1>4. tx \in Seq(Requests)
  BY DEF TypeOK
<1>5. /\ tx' \in Seq(Requests) /\ Len(tx') = Len(tx) + 1 /\ Len(tx) \in Nat
      /\ \A i \in 1 .. Len(tx) : tx'[i] = tx[i]
      /\ tx'[Len(tx) + 1] = Request(sent)
  BY <1>2, <1>3, <1>4, AppendFacts
<1>6. TypeOK'
  <2>1. Len(tx') <= TxCapacity
    BY <1>3, <1>5, ExampleAssumption
  <2>2. sent' \in 0 .. ToSend
    BY <1>2 DEF Send
  <2> QED  BY <1>1, <1>5, <2>1, <2>2 DEF Send, TypeOK
<1>7. Accounted'
  BY <1>2, <1>5 DEF Send, Accounted, TypeOK
<1>8. InOrder'
  <2>1. sent = taken + Len(mid) + Len(tx) /\ taken \in Nat /\ Len(mid) \in Nat
    BY <1>1, ProgramLengths DEF Accounted, TypeOK
  <2>2. ASSUME NEW i \in 1 .. Len(tx')
        PROVE  tx'[i] = Request(taken + Len(mid) + i - 1)
    <3>1. CASE i <= Len(tx)
      BY <1>5, <3>1 DEF InOrder
    <3>2. CASE i = Len(tx) + 1
      BY <1>5, <2>1, <3>2
    <3> QED  BY <1>5, <3>1, <3>2
  <2>3. /\ \A j : Request(j)' = Request(j)
        /\ \A m : IntoMid(m)' = IntoMid(m) /\ Answer(m)' = Answer(m)
    BY Messages DEF Send
  <2> QED  BY <2>2, <2>3 DEF Send, InOrder
<1>9. ChecksPass'
  BY DEF Send, ChecksPass
<1> QED  BY <1>6, <1>7, <1>8, <1>9

\* The message moved is the one after those in mid, and the rest close up.
LEMMA HopInv ==
  ASSUME IInv, Hop
  PROVE  IInv'
<1> USE DEF IInv
<1>1. /\ ToSend' = ToSend /\ ToReceive' = ToReceive
      /\ Requests' = Requests /\ AtDesign' = AtDesign /\ Answers' = Answers
  BY Programs DEF Hop
<1>2. tx \in Seq(Requests) /\ mid \in Seq(AtDesign) /\ tx # <<>>
  BY DEF TypeOK, Hop
<1>3. /\ Len(tx) \in Nat /\ Len(tx) >= 1 /\ Head(tx) = tx[1] /\ tx[1] \in Requests
      /\ tx' \in Seq(Requests) /\ Len(tx') = Len(tx) - 1
      /\ \A i \in 1 .. Len(tx) - 1 : tx'[i] = tx[i + 1]
  BY <1>2, TailFacts DEF Hop, Consumed
<1>4. mid' = Append(mid, IntoMid(tx[1])) /\ Len(mid) < MidCapacity
  BY <1>3 DEF Hop, Mid!Put
<1>5. IntoMid(tx[1]) \in AtDesign
  BY <1>3 DEF AtDesign
<1>6. /\ Len(mid) \in Nat /\ mid' \in Seq(AtDesign) /\ Len(mid') = Len(mid) + 1
      /\ \A i \in 1 .. Len(mid) : mid'[i] = mid[i]
      /\ mid'[Len(mid) + 1] = IntoMid(tx[1])
  BY <1>2, <1>4, <1>5, AppendFacts
<1>7. TypeOK'
  <2>1. Len(mid') <= MidCapacity /\ Len(tx') <= TxCapacity
    BY <1>3, <1>4, <1>6, ExampleAssumption DEF TypeOK
  <2> QED  BY <1>1, <1>3, <1>6, <2>1 DEF Hop, TypeOK
<1>8. Accounted'
  BY <1>3, <1>6, ProgramLengths DEF Hop, Accounted, TypeOK
<1>9. InOrder'
  <2>1. taken \in Nat /\ sent \in Nat
    BY ProgramLengths DEF TypeOK
  <2>2. ASSUME NEW i \in 1 .. Len(tx')
        PROVE  tx'[i] = Request(taken + Len(mid') + i - 1)
    <3>1. tx'[i] = tx[i + 1] /\ i + 1 \in 1 .. Len(tx)
      BY <1>3
    <3>2. tx[i + 1] = Request(taken + Len(mid) + (i + 1) - 1)
      BY <3>1 DEF InOrder
    <3>3. taken + Len(mid) + (i + 1) - 1 = taken + Len(mid') + i - 1
      BY <1>6, <2>1
    <3> QED  BY <3>1, <3>2, <3>3
  <2>3. ASSUME NEW i \in 1 .. Len(mid')
        PROVE  mid'[i] = IntoMid(Request(taken + i - 1))
    <3>1. CASE i <= Len(mid)
      BY <1>6, <3>1 DEF InOrder
    <3>2. CASE i = Len(mid) + 1
      <4>1. tx[1] = Request(taken + Len(mid) + 1 - 1)
        BY <1>3 DEF InOrder
      <4> QED  BY <1>6, <2>1, <3>2, <4>1
    <3> QED  BY <1>6, <3>1, <3>2
  <2>4. /\ \A j : Request(j)' = Request(j)
        /\ \A m : IntoMid(m)' = IntoMid(m) /\ Answer(m)' = Answer(m)
    BY Messages DEF Hop
  <2> QED  BY <2>2, <2>3, <2>4 DEF Hop, InOrder
<1>10. ChecksPass'
  BY DEF Hop, ChecksPass
<1> QED  BY <1>7, <1>8, <1>9, <1>10

\* An answer is to the oldest request in mid.
LEMMA DesignAnswersInv ==
  ASSUME IInv, DesignAnswers
  PROVE  IInv'
<1> USE DEF IInv
<1>1. /\ ToSend' = ToSend /\ ToReceive' = ToReceive
      /\ Requests' = Requests /\ AtDesign' = AtDesign /\ Answers' = Answers
  BY Programs DEF DesignAnswers
<1>2. mid \in Seq(AtDesign) /\ rx \in Seq(Answers) /\ mid # <<>>
  BY DEF TypeOK, DesignAnswers
<1>3. /\ Len(mid) \in Nat /\ Len(mid) >= 1 /\ Head(mid) = mid[1]
      /\ mid[1] \in AtDesign
      /\ mid' \in Seq(AtDesign) /\ Len(mid') = Len(mid) - 1
      /\ \A i \in 1 .. Len(mid) - 1 : mid'[i] = mid[i + 1]
  BY <1>2, TailFacts DEF DesignAnswers
<1>4. rx' = Append(rx, Answer(mid[1])) /\ Len(rx) < RxCapacity
  BY <1>3 DEF DesignAnswers, Rx!Put
<1>5. Answer(mid[1]) \in Answers
  BY <1>3 DEF Answers
<1>6. /\ Len(rx) \in Nat /\ rx' \in Seq(Answers) /\ Len(rx') = Len(rx) + 1
      /\ \A i \in 1 .. Len(rx) : rx'[i] = rx[i]
      /\ rx'[Len(rx) + 1] = Answer(mid[1])
  BY <1>2, <1>4, <1>5, AppendFacts
<1>7. /\ taken \in Nat /\ sent \in Nat /\ got \in Nat /\ answered = taken
      /\ sent <= ToSend /\ ToReceive = ToSend /\ ToSend \in Nat
      /\ sent = taken + Len(mid) + Len(tx) /\ Len(tx) \in Nat
      /\ answered = got + Len(rx)
  BY ProgramLengths DEF TypeOK, Accounted, DesignAnswers
<1>8. TypeOK'
  <2>1. Len(rx') <= RxCapacity /\ Len(mid') <= MidCapacity
    BY <1>3, <1>4, <1>6, ExampleAssumption DEF TypeOK
  <2>2. taken' \in 0 .. ToSend /\ answered' \in 0 .. ToReceive
    BY <1>3, <1>7 DEF DesignAnswers
  <2> QED  BY <1>1, <1>3, <1>6, <2>1, <2>2 DEF DesignAnswers, TypeOK
<1>9. Accounted'
  BY <1>3, <1>6, <1>7 DEF DesignAnswers, Accounted
<1>10. InOrder'
  <2>1. ASSUME NEW i \in 1 .. Len(tx)
        PROVE  tx[i] = Request(taken' + Len(mid') + i - 1)
    <3>1. taken' + Len(mid') + i - 1 = taken + Len(mid) + i - 1
      BY <1>3, <1>7 DEF DesignAnswers
    <3> QED  BY <3>1 DEF InOrder
  <2>2. ASSUME NEW i \in 1 .. Len(mid')
        PROVE  mid'[i] = IntoMid(Request(taken' + i - 1))
    <3>1. mid'[i] = mid[i + 1] /\ i + 1 \in 1 .. Len(mid)
      BY <1>3
    <3>2. mid[i + 1] = IntoMid(Request(taken + (i + 1) - 1))
      BY <3>1 DEF InOrder
    <3>3. taken + (i + 1) - 1 = taken' + i - 1
      BY <1>7 DEF DesignAnswers
    <3> QED  BY <3>1, <3>2, <3>3
  <2>3. ASSUME NEW i \in 1 .. Len(rx')
        PROVE  rx'[i] = Answer(IntoMid(Request(got + i - 1)))
    <3>1. CASE i <= Len(rx)
      BY <1>6, <3>1 DEF InOrder
    <3>2. CASE i = Len(rx) + 1
      <4>1. mid[1] = IntoMid(Request(taken + 1 - 1))
        BY <1>3 DEF InOrder
      <4>2. taken + 1 - 1 = got + i - 1
        BY <1>6, <1>7, <3>2
      <4> QED  BY <1>6, <3>2, <4>1, <4>2
    <3> QED  BY <1>6, <3>1, <3>2
  <2>4. /\ \A j : Request(j)' = Request(j)
        /\ \A m : IntoMid(m)' = IntoMid(m) /\ Answer(m)' = Answer(m)
    BY Messages DEF DesignAnswers
  <2> QED  BY <2>1, <2>2, <2>3, <2>4 DEF DesignAnswers, InOrder
<1>11. ChecksPass'
  BY DEF DesignAnswers, ChecksPass
<1> QED  BY <1>8, <1>9, <1>10, <1>11

\* manager_thread finds its asserts true.
LEMMA ManagerReceivesInv ==
  ASSUME IInv, ManagerReceives
  PROVE  IInv'
<1> USE DEF IInv
<1>1. /\ ToSend' = ToSend /\ ToReceive' = ToReceive
      /\ Requests' = Requests /\ AtDesign' = AtDesign /\ Answers' = Answers
  BY Programs DEF ManagerReceives
<1>2. mid \in Seq(AtDesign) /\ mid # <<>> /\ mid' = Tail(mid)
  BY DEF TypeOK, ManagerReceives, Mid!Take
<1>3. /\ Len(mid) \in Nat /\ Len(mid) >= 1 /\ Head(mid) = mid[1]
      /\ mid' \in Seq(AtDesign) /\ Len(mid') = Len(mid) - 1
      /\ \A i \in 1 .. Len(mid) - 1 : mid'[i] = mid[i + 1]
  BY <1>2, TailFacts
<1>4. /\ taken \in Nat /\ sent \in Nat /\ got \in Nat /\ answered \in Nat
      /\ ToSend = 2 /\ taken < 2 /\ taken' = taken + 1
      /\ sent = taken + Len(mid) + Len(tx) /\ Len(tx) \in Nat
      /\ answered = got + Len(rx) /\ answered = 0
  <2>1. test = "tlloopback" /\ taken < 2 /\ taken' = taken + 1
    BY DEF ManagerReceives
  <2>2. /\ taken \in Nat /\ sent \in Nat /\ got \in Nat /\ answered \in Nat
        /\ ToSend = 2 /\ Len(tx) \in Nat
    BY <2>1, ProgramLengths DEF TypeOK
  <2> QED  BY <2>1, <2>2 DEF Accounted
<1>5. tl_a' = Put(0)
  <2>1. mid[1] = IntoMid(Request(taken + 1 - 1))
    BY <1>3 DEF InOrder
  <2>2. taken + 1 - 1 \in Nat /\ test = "tlloopback" /\ tl_a' = Head(mid)
    BY <1>4 DEF ManagerReceives
  <2>3. IntoMid(Request(taken + 1 - 1)) = Put(0)
    BY <2>2, BeatsReachManager
  <2> QED  BY <1>3, <2>1, <2>2, <2>3
<1>6. failed' = FALSE
  <2>1. tl_a'.opcode = "PutFullData" /\ tl_a'.corrupt = 0
    BY <1>5 DEF Put
  <2> QED  BY <2>1, Zenon DEF ManagerReceives, ChecksPass
<1>7. TypeOK'
  <2>1. Len(mid') <= MidCapacity
    BY <1>3, ExampleAssumption DEF TypeOK
  <2>2. taken' \in 0 .. ToSend
    BY <1>4
  <2>3. failed' \in BOOLEAN
    BY <1>6
  <2> QED  BY <1>1, <1>3, <2>1, <2>2, <2>3 DEF ManagerReceives, TypeOK
<1>8. Accounted'
  BY <1>3, <1>4 DEF ManagerReceives, Accounted
<1>9. InOrder'
  <2>1. ASSUME NEW i \in 1 .. Len(tx)
        PROVE  tx[i] = Request(taken' + Len(mid') + i - 1)
    <3>1. taken' + Len(mid') + i - 1 = taken + Len(mid) + i - 1
      BY <1>3, <1>4
    <3> QED  BY <3>1 DEF InOrder
  <2>2. ASSUME NEW i \in 1 .. Len(mid')
        PROVE  mid'[i] = IntoMid(Request(taken' + i - 1))
    <3>1. mid'[i] = mid[i + 1] /\ i + 1 \in 1 .. Len(mid)
      BY <1>3
    <3>2. mid[i + 1] = IntoMid(Request(taken + (i + 1) - 1))
      BY <3>1 DEF InOrder
    <3>3. taken + (i + 1) - 1 = taken' + i - 1
      BY <1>4
    <3> QED  BY <3>1, <3>2, <3>3
  <2>3. /\ \A j : Request(j)' = Request(j)
        /\ \A m : IntoMid(m)' = IntoMid(m) /\ Answer(m)' = Answer(m)
    BY Messages DEF ManagerReceives
  <2>4. Put(0)' = Put(0)
    BY DEF Put
  <2> QED  BY <1>5, <2>1, <2>2, <2>3, <2>4 DEF ManagerReceives, InOrder
<1>10. ChecksPass'
  BY <1>6 DEF ChecksPass
<1> QED  BY <1>7, <1>8, <1>9, <1>10

\* The only answer of a burst is to its last beat.
LEMMA ManagerAnswersInv ==
  ASSUME IInv, ManagerAnswers
  PROVE  IInv'
<1> USE DEF IInv
<1>1. /\ ToSend' = ToSend /\ ToReceive' = ToReceive
      /\ Requests' = Requests /\ AtDesign' = AtDesign /\ Answers' = Answers
  BY Programs DEF ManagerAnswers
<1>2. /\ answered = 0 /\ taken = 2 /\ ToReceive = 1 /\ got \in Nat
      /\ answered = got + Len(rx) /\ rx \in Seq(Answers)
      /\ Len(rx) \in Nat /\ answered' = 1 /\ test = "tlloopback" /\ ToSend = 2
  BY ProgramLengths DEF ManagerAnswers, BurstComplete, TypeOK, Accounted
<1>3. Ack(tl_a.source) = Ack(0)
  BY <1>2 DEF InOrder, Put
<1>4. Answer(IntoMid(Request(0))) = Ack(0) /\ Ack(0) \in Answers
  BY <1>2, BeatsReachManager, RequestFacts
<1>5. rx' = Append(rx, Ack(0)) /\ Len(rx) < RxCapacity
  BY <1>3 DEF ManagerAnswers, Rx!Put
<1>6. /\ rx' \in Seq(Answers) /\ Len(rx') = Len(rx) + 1
      /\ \A i \in 1 .. Len(rx) : rx'[i] = rx[i]
      /\ rx'[Len(rx) + 1] = Ack(0)
  BY <1>2, <1>4, <1>5, AppendFacts
<1>7. TypeOK'
  <2>1. Len(rx') <= RxCapacity
    BY <1>2, <1>5, <1>6, ExampleAssumption
  <2>2. answered' \in 0 .. ToReceive
    BY <1>2
  <2> QED  BY <1>1, <1>6, <2>1, <2>2 DEF ManagerAnswers, TypeOK
<1>8. Accounted'
  BY <1>2, <1>6 DEF ManagerAnswers, Accounted
<1>9. InOrder'
  <2>1. Len(rx) = 0 /\ got = 0
    BY <1>2
  <2>2. ASSUME NEW i \in 1 .. Len(rx')
        PROVE  rx'[i] = Answer(IntoMid(Request(got + i - 1)))
    <3>1. i = 1 /\ got + i - 1 = 0
      BY <1>6, <2>1
    <3> QED  BY <1>4, <1>6, <2>1, <3>1
  <2>3. /\ \A j : Request(j)' = Request(j)
        /\ \A m : IntoMid(m)' = IntoMid(m) /\ Answer(m)' = Answer(m)
    BY Messages DEF ManagerAnswers
  <2> QED  BY <2>2, <2>3 DEF ManagerAnswers, InOrder
<1>10. ChecksPass'
  BY DEF ManagerAnswers, ChecksPass
<1> QED  BY <1>7, <1>8, <1>9, <1>10

\* The answer received next passes the asserts.
LEMMA ReceiveInv ==
  ASSUME IInv, Receive
  PROVE  IInv'
<1> USE DEF IInv
<1>1. /\ ToSend' = ToSend /\ ToReceive' = ToReceive
      /\ Requests' = Requests /\ AtDesign' = AtDesign /\ Answers' = Answers
  BY Programs DEF Receive
<1>2. rx \in Seq(Answers) /\ rx # <<>> /\ rx' = Tail(rx)
  BY DEF TypeOK, Receive, Rx!Take
<1>3. /\ Len(rx) \in Nat /\ Len(rx) >= 1 /\ Head(rx) = rx[1]
      /\ rx' \in Seq(Answers) /\ Len(rx') = Len(rx) - 1
      /\ \A i \in 1 .. Len(rx) - 1 : rx'[i] = rx[i + 1]
  BY <1>2, TailFacts
<1>4. /\ got \in Nat /\ got < ToReceive /\ got' = got + 1 /\ ToReceive \in Nat
      /\ answered = got + Len(rx)
  BY ProgramLengths DEF TypeOK, Accounted, Receive
<1>5. failed' = FALSE
  <2>1. rx[1] = Answer(IntoMid(Request(got + 1 - 1)))
    BY <1>3 DEF InOrder
  <2>2. Expected(rx[1])
    BY <1>4, <2>1, AnswersExpected
  <2> QED  BY <1>3, <2>2 DEF Receive, ChecksPass
<1>6. TypeOK'
  <2>1. Len(rx') <= RxCapacity
    BY <1>3, ExampleAssumption DEF TypeOK
  <2>2. got' \in 0 .. ToReceive
    BY <1>4
  <2>3. failed' \in BOOLEAN
    BY <1>5
  <2> QED  BY <1>1, <1>3, <2>1, <2>2, <2>3 DEF Receive, TypeOK
<1>7. Accounted'
  BY <1>3, <1>4 DEF Receive, Accounted
<1>8. InOrder'
  <2>1. ASSUME NEW i \in 1 .. Len(rx')
        PROVE  rx'[i] = Answer(IntoMid(Request(got' + i - 1)))
    <3>1. rx'[i] = rx[i + 1] /\ i + 1 \in 1 .. Len(rx)
      BY <1>3
    <3>2. rx[i + 1] = Answer(IntoMid(Request(got + (i + 1) - 1)))
      BY <3>1 DEF InOrder
    <3>3. got + (i + 1) - 1 = got' + i - 1
      BY <1>4
    <3> QED  BY <3>1, <3>2, <3>3
  <2>2. /\ \A j : Request(j)' = Request(j)
        /\ \A m : IntoMid(m)' = IntoMid(m) /\ Answer(m)' = Answer(m)
    BY Messages DEF Receive
  <2> QED  BY <2>1, <2>2 DEF Receive, InOrder
<1>9. ChecksPass'
  BY <1>5 DEF ChecksPass
<1> QED  BY <1>6, <1>7, <1>8, <1>9

-----------------------------------------------------------------------------
\* Whatever order the threads and the design run in, IInv holds.
THEOREM Invariance == Spec => []IInv
<1>1. Init => IInv
  BY InitInv
<1>2. IInv /\ [Next]_vars => IInv'
  <2> SUFFICES ASSUME IInv, [Next]_vars PROVE IInv'
    OBVIOUS
  <2>1. CASE UNCHANGED vars
    <3> USE <2>1 DEF vars
    <3>1. /\ ToSend' = ToSend /\ ToReceive' = ToReceive
          /\ Requests' = Requests /\ AtDesign' = AtDesign /\ Answers' = Answers
      BY Programs
    <3>2. /\ \A j : Request(j)' = Request(j)
          /\ \A m : IntoMid(m)' = IntoMid(m) /\ Answer(m)' = Answer(m)
      BY Messages
    <3>3. TypeOK'
      BY <3>1 DEF IInv, TypeOK
    <3>4. Accounted' /\ ChecksPass'
      BY DEF IInv, Accounted, ChecksPass
    <3>5. InOrder'
      BY <3>2 DEF IInv, InOrder, Put
    <3> QED  BY <3>3, <3>4, <3>5 DEF IInv
  <2>2. CASE Next
    BY <2>2, SendInv, HopInv, DesignAnswersInv, ManagerReceivesInv,
       ManagerAnswersInv, ReceiveInv DEF Next
  <2> QED  BY <2>1, <2>2
<1> QED  BY <1>1, <1>2, PTL DEF Spec

\* The counters and the queues have their types and stay within bounds.
THEOREM TypeCorrect == Spec => []TypeOK
<1>1. IInv => TypeOK
  BY DEF IInv
<1> QED  BY <1>1, Invariance, PTL

\* No message is lost or duplicated.
THEOREM AlwaysAccounted == Spec => []Accounted
<1>1. IInv => Accounted
  BY DEF IInv
<1> QED  BY <1>1, Invariance, PTL

\* No message is overtaken, so counting replaces matching source IDs.
THEOREM AlwaysInOrder == Spec => []InOrder
<1>1. IInv => InOrder
  BY DEF IInv
<1> QED  BY <1>1, Invariance, PTL

\* No assert of a testbench fails, for any number of packets.
THEOREM TestbenchesPass == Spec => []ChecksPass
<1>1. IInv => ChecksPass
  BY DEF IInv
<1> QED  BY <1>1, Invariance, PTL

(***************************************************************************)
(* After the joins every queue is empty: what was sent has been answered   *)
(* and every answer has been received.                                     *)
(***************************************************************************)
THEOREM LinkQuietAfterJoin == Spec => []QuietAfterJoin
<1>1. IInv => QuietAfterJoin
  <2> SUFFICES ASSUME IInv, Joined PROVE tx = <<>> /\ mid = <<>> /\ rx = <<>>
    BY DEF QuietAfterJoin
  <2>1. /\ tx \in Seq(Requests) /\ mid \in Seq(AtDesign) /\ rx \in Seq(Answers)
        /\ taken \in 0 .. ToSend /\ answered \in 0 .. ToReceive
        /\ sent = ToSend /\ got = ToReceive
        /\ sent = taken + Len(mid) + Len(tx) /\ answered = got + Len(rx)
    BY DEF IInv, TypeOK, Accounted, Joined
  <2>2. Len(tx) \in Nat /\ Len(mid) \in Nat /\ Len(rx) \in Nat
    BY <2>1
  <2>3. taken = ToSend /\ ToSend \in Nat /\ ToReceive \in Nat
    <3>1. CASE test = "tlloopback"
      <4>1. ToSend = 2 /\ ToReceive = 1
        BY <3>1, ProgramLengths DEF IInv
      <4>2. taken = 2
        BY <3>1 DEF Joined
      <4> QED  BY <4>1, <4>2
    <3>2. CASE test # "tlloopback"
      <4>1. answered = taken /\ ToReceive = ToSend /\ ToSend \in Nat
        BY <3>2, ProgramLengths DEF IInv, Accounted
      <4>2. answered >= ToReceive /\ answered <= ToReceive /\ answered \in Nat
        BY <2>1, <2>2, <4>1
      <4> QED  BY <4>1, <4>2
    <3> QED  BY <3>1, <3>2
  <2>4. Len(tx) = 0 /\ Len(mid) = 0 /\ Len(rx) = 0
    BY <2>1, <2>2, <2>3
  <2> QED  BY <2>1, <2>4
<1> QED  BY <1>1, Invariance, PTL

(***************************************************************************)
(* Progress, for any number of packets and any queue sizes.                *)
(***************************************************************************)

\* The counters and the lengths of the legs, as numbers.
LEMMA Numbers ==
  ASSUME IInv
  PROVE  /\ sent \in Nat /\ got \in Nat /\ taken \in Nat /\ answered \in Nat
         /\ ToSend \in Nat /\ ToReceive \in Nat
         /\ sent <= ToSend /\ got <= ToReceive /\ taken <= ToSend
         /\ answered <= ToReceive
         /\ Len(tx) \in Nat /\ Len(mid) \in Nat /\ Len(rx) \in Nat
         /\ (tx = <<>> <=> Len(tx) = 0) /\ (mid = <<>> <=> Len(mid) = 0)
         /\ (rx = <<>> <=> Len(rx) = 0)
         /\ sent = taken + Len(mid) + Len(tx) /\ answered = got + Len(rx)
<1>1. ToSend \in Nat /\ ToReceive \in Nat
  BY ProgramLengths DEF IInv
<1>2. /\ sent \in 0 .. ToSend /\ got \in 0 .. ToReceive
      /\ taken \in 0 .. ToSend /\ answered \in 0 .. ToReceive
      /\ tx \in Seq(Requests) /\ mid \in Seq(AtDesign) /\ rx \in Seq(Answers)
  BY DEF IInv, TypeOK
<1>3. sent = taken + Len(mid) + Len(tx) /\ answered = got + Len(rx)
  BY DEF IInv, Accounted
<1> QED  BY <1>1, <1>2, <1>3

\* What is left to do is a number of steps.
LEMMA LeftIsNat == IInv => Left \in Nat
<1> SUFFICES ASSUME IInv PROVE Left \in Nat
  OBVIOUS
<1>1. /\ sent \in Nat /\ ToSend \in Nat /\ Len(tx) \in Nat /\ sent <= ToSend
      /\ sent - Len(tx) \in Int
  BY Numbers
<1>2. ToSend - (sent - Len(tx)) \in Nat
  BY <1>1
<1>3. /\ taken \in Nat /\ answered \in Nat /\ got \in Nat /\ ToReceive \in Nat
      /\ taken <= ToSend /\ answered <= ToReceive /\ got <= ToReceive
  BY Numbers
<1>4. ToSend - sent \in Nat /\ ToSend - taken \in Nat
  BY <1>1, <1>3
<1>5. ToReceive - answered \in Nat /\ ToReceive - got \in Nat
  BY <1>3
<1> QED  BY <1>2, <1>4, <1>5 DEF Left

LEMMA StepCounts ==
  ASSUME IInv, Next
  PROVE  Left' < Left
<1>1. /\ sent \in Nat /\ got \in Nat /\ taken \in Nat /\ answered \in Nat
      /\ ToSend \in Nat /\ ToReceive \in Nat /\ Len(tx) \in Nat
  BY Numbers
<1>2. tx \in Seq(Requests)
  BY DEF IInv, TypeOK
<1>3. UNCHANGED test /\ ToSend' = ToSend /\ ToReceive' = ToReceive
  BY Programs
     DEF Next, Send, Hop, DesignAnswers, ManagerReceives, ManagerAnswers, Receive
<1>4. CASE Send
  <2>1. sent < ToSend /\ tx' = Append(tx, Request(sent))
    BY <1>4 DEF Send, Tx!Put
  <2>2. Request(sent) \in Requests
    BY <1>1, <2>1, RequestFacts
  <2>3. Len(tx') = Len(tx) + 1 /\ sent' = sent + 1
        /\ UNCHANGED <<taken, answered, got>>
    BY <1>2, <1>4, <2>1, <2>2, AppendFacts DEF Send
  <2>4. sent' - Len(tx') = sent - Len(tx)
    BY <1>1, <2>3
  <2> QED  BY <1>1, <1>3, <2>3, <2>4 DEF Left
<1>5. CASE Hop
  <2>1. Len(tx') = Len(tx) - 1 /\ UNCHANGED <<sent, taken, answered, got>>
    BY <1>2, <1>5, TailFacts DEF Hop, Consumed
  <2> QED  BY <1>1, <1>3, <2>1 DEF Left
<1>6. CASE DesignAnswers
  <2>1. /\ taken' = taken + 1 /\ answered' = answered + 1
        /\ UNCHANGED <<tx, sent, got>>
    BY <1>6 DEF DesignAnswers
  <2> QED  BY <1>1, <1>3, <2>1 DEF Left
<1>7. CASE ManagerReceives
  <2>1. taken' = taken + 1 /\ UNCHANGED <<tx, sent, answered, got>>
    BY <1>7 DEF ManagerReceives
  <2> QED  BY <1>1, <1>3, <2>1 DEF Left
<1>8. CASE ManagerAnswers
  <2>1. answered' = answered + 1 /\ UNCHANGED <<tx, sent, taken, got>>
    BY <1>8 DEF ManagerAnswers
  <2> QED  BY <1>1, <1>3, <2>1 DEF Left
<1>9. CASE Receive
  <2>1. got' = got + 1 /\ UNCHANGED <<tx, sent, taken, answered>>
    BY <1>9 DEF Receive
  <2> QED  BY <1>1, <1>3, <2>1 DEF Left
<1> QED  BY <1>4, <1>5, <1>6, <1>7, <1>8, <1>9 DEF Next

(***************************************************************************)
(* A full leg can empty into the next one or the next one is full too, and *)
(* the last leg can empty because it is read while requests are still sent *)
(* (tlloopback, which does not, sends no more than its legs hold).         *)
(***************************************************************************)
THEOREM NoWedge == Spec => []NeverWedged
<1>1. ASSUME IInv, ~Joined PROVE CanStep
  <2>n. /\ sent \in Nat /\ got \in Nat /\ taken \in Nat /\ answered \in Nat
        /\ ToSend \in Nat /\ ToReceive \in Nat /\ sent <= ToSend /\ got <= ToReceive
        /\ taken <= ToSend /\ answered <= ToReceive
        /\ Len(tx) \in Nat /\ Len(mid) \in Nat /\ Len(rx) \in Nat
        /\ (tx = <<>> <=> Len(tx) = 0) /\ (mid = <<>> <=> Len(mid) = 0)
        /\ (rx = <<>> <=> Len(rx) = 0)
        /\ sent = taken + Len(mid) + Len(tx) /\ answered = got + Len(rx)
    BY <1>1, Numbers
  <2>c. /\ TxCapacity \in Nat /\ TxCapacity >= 1 /\ MidCapacity \in Nat
        /\ MidCapacity >= 1 /\ RxCapacity \in Nat /\ RxCapacity >= 1
    BY ExampleAssumption
\* Something in mid can be taken, or rx is full and can be read.
  <2>1. ASSUME mid # <<>> PROVE CanStep
    <3>1. CASE test = "tlloopback"
      <4>1. ToSend = 2
        BY <1>1, <3>1, ProgramLengths DEF IInv
      <4>2. taken < 2
        BY <2>1, <2>n, <4>1
      <4> QED  BY <2>1, <3>1, <4>2 DEF CanStep
    <3>2. CASE test # "tlloopback" /\ Len(rx) < RxCapacity
      BY <2>1, <3>2 DEF CanStep
    <3>3. CASE test # "tlloopback" /\ ~(Len(rx) < RxCapacity)
      <4>1. rx # <<>> /\ MayReceive
        BY <2>c, <2>n, <3>3 DEF MayReceive
      <4>2. answered = taken /\ ToReceive = ToSend
        BY <1>1, <3>3, ProgramLengths DEF IInv, Accounted
      <4>3. got < ToReceive
        BY <2>1, <2>n, <4>2
      <4> QED  BY <4>1, <4>3 DEF CanStep
    <3> QED  BY <3>1, <3>2, <3>3
\* Something in tx can hop, or mid is full.
  <2>2. ASSUME tx # <<>> PROVE CanStep
    <3>1. CASE Len(mid) < MidCapacity
      BY <2>2, <3>1 DEF CanStep
    <3>2. CASE ~(Len(mid) < MidCapacity)
      BY <2>1, <2>c, <2>n, <3>2
    <3> QED  BY <3>1, <3>2
  <2>3. CASE sent < ToSend /\ tx = <<>>
    <3>1. Len(tx) < TxCapacity
      BY <2>3, <2>c, <2>n
    <3> QED  BY <2>3, <3>1 DEF CanStep
  <2>4. CASE sent = ToSend /\ tx = <<>> /\ mid = <<>>
    <3>1. taken = ToSend
      BY <2>4, <2>n
    <3>2. CASE test # "tlloopback"
      <4>1. answered = ToReceive
        BY <1>1, <3>1, <3>2, ProgramLengths DEF IInv, Accounted
      <4>2. got # ToReceive
        BY <1>1, <2>4, <3>2 DEF Joined
      <4>3. got < ToReceive /\ rx # <<>>
        BY <2>n, <4>1, <4>2
      <4> QED  BY <3>2, <4>3 DEF CanStep, MayReceive
    <3>3. CASE test = "tlloopback"
      <4>1. ToSend = 2 /\ ToReceive = 1 /\ taken = 2
        BY <1>1, <3>1, <3>3, ProgramLengths DEF IInv
      <4>2. CASE answered = 0
        <5>1. Len(rx) < RxCapacity
          BY <2>c, <2>n, <4>2
        <5> QED  BY <3>3, <4>1, <4>2, <5>1 DEF CanStep, BurstComplete
      <4>3. CASE answered > 0
        <5>1. got # ToReceive
          BY <1>1, <2>4, <4>1, <4>3 DEF Joined
        <5>2. got < ToReceive /\ rx # <<>>
          BY <2>n, <4>1, <4>3, <5>1
        <5> QED  BY <2>4, <5>2 DEF CanStep, MayReceive
      <4> QED  BY <2>n, <4>2, <4>3
    <3> QED  BY <3>2, <3>3
  <2> QED  BY <2>1, <2>2, <2>3, <2>4, <2>n
<1> QED  BY <1>1, Invariance, PTL DEF NeverWedged

(***************************************************************************)
(* With NoWedge: an example takes at most 3 ToSend + 2 ToReceive steps and *)
(* stops nowhere but where main() joins its threads.                       *)
(***************************************************************************)
THEOREM BoundedSteps == Spec => EveryStepCounts
<1>1. IInv /\ IInv' /\ [Next]_vars => [Left' \in Nat /\ Left' < Left]_vars
  <2>1. (IInv => Left \in Nat)'
    BY LeftIsNat, PTL
  <2> QED  BY <2>1, StepCounts
<1> QED  BY <1>1, Invariance, PTL DEF Spec, EveryStepCounts

=============================================================================
