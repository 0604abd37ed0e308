--------------------------- MODULE TLAgentProofs ---------------------------
(***************************************************************************)
(* The lane arithmetic of TLAgent, for every bus width, transfer size,     *)
(* address and memory: what put(), putPartial() and get() leave in a beat  *)
(* is what the caller asked for, when no sub-beat mask leaves out its      *)
(* first byte.  SparsePutSlides and CopiesInBounds say what happens        *)
(* otherwise, which is what TLAgentSparse.cfg finds.                       *)
(***************************************************************************)
EXTENDS TLAgent, TLAPS

-----------------------------------------------------------------------------
(***************************************************************************)
(* Slots: a naturally aligned transfer lies within one beat.               *)
(***************************************************************************)
Widths == {1, 2, 4, 8, 16, 32}

\* Slots of a given size in a beat of twice, four times ... that size.
LEMMA SlotArithmetic ==
  ASSUME NEW b \in Widths, NEW s \in Widths,
         s <= b, NEW x \in Nat, x % s = 0
  PROVE  /\ x % b \in 0 .. b - 1
         /\ ((x % b) \div s) * s = x % b
         /\ (x % b) + s <= b
<1>1. CASE s = 1
  BY <1>1 DEF Widths
<1>2. CASE s = 2
  BY <1>2 DEF Widths
<1>3. CASE s = 4
  BY <1>3 DEF Widths
<1>4. CASE s = 8
  BY <1>4 DEF Widths
<1>5. CASE s = 16
  BY <1>5 DEF Widths
<1>6. CASE s = 32
  BY <1>6 DEF Widths
<1> QED  BY <1>1, <1>2, <1>3, <1>4, <1>5, <1>6 DEF Widths

\* The sizes of the transfers within a beat.
LEMMA SizeFacts ==
  ASSUME NEW size \in Sizes
  PROVE  /\ size \in {1, 2, 4, 8, 16, 32} /\ size <= BeatBytes
         /\ BeatBytes \in {1, 2, 4, 8, 16, 32}
         /\ size \in Nat \ {0} /\ BeatBytes \in Nat \ {0}
         /\ DataLen \in Nat /\ BeatBytes <= DataLen
BY AgentAssumption DEF Sizes

\* Where an aligned transfer starts within its beat.
LEMMA SlotFacts ==
  ASSUME NEW size \in Sizes, NEW addr \in Nat, addr % size = 0
  PROVE  /\ addr % BeatBytes \in Nat
         /\ ((addr % BeatBytes) \div size) * size = addr % BeatBytes
         /\ (addr % BeatBytes) + size <= BeatBytes
         /\ BeatBase(addr) \in Int /\ BeatBase(addr) + (addr % BeatBytes) = addr
         /\ size = BeatBytes => addr % BeatBytes = 0
<1>1. /\ addr % BeatBytes \in 0 .. BeatBytes - 1
      /\ ((addr % BeatBytes) \div size) * size = addr % BeatBytes
      /\ (addr % BeatBytes) + size <= BeatBytes
  <2>1. size \in Widths /\ BeatBytes \in Widths /\ size <= BeatBytes
    BY SizeFacts DEF Widths
  <2> QED  BY <2>1, SlotArithmetic, Zenon
<1>2. PICK o \in Int : o = addr % BeatBytes
  BY <1>1
<1>3. BeatBase(addr) \in Int /\ BeatBase(addr) + o = addr
  BY <1>2 DEF BeatBase
<1>4. size = BeatBytes => addr % BeatBytes = 0
  OBVIOUS
<1>5. addr % BeatBytes \in Nat
  BY <1>1, SizeFacts
<1> QED  BY <1>1, <1>2, <1>3, <1>4, <1>5

\* alignMask moves lane k of a transfer to the lane of byte addr + k.
LEMMA ShiftedMaskFacts ==
  ASSUME NEW size \in Sizes, NEW addr \in Nat, addr % size = 0,
         NEW mask \in SUBSET (0 .. size - 1)
  PROVE  /\ ShiftedMask(mask, size, addr) = {(addr % BeatBytes) + k : k \in mask}
         /\ ShiftedMask(mask, size, addr) \subseteq Lanes
<1>1. ShiftedMask(mask, size, addr)
        = {((addr % BeatBytes) \div size) * size + k : k \in mask}
  BY DEF ShiftedMask
<1>2. PICK o \in Nat : /\ o = addr % BeatBytes
                       /\ ((addr % BeatBytes) \div size) * size = o
                       /\ o + size <= BeatBytes
  BY SlotFacts
<1>3. size \in Nat /\ BeatBytes \in Nat
  BY SizeFacts
<1>4. ShiftedMask(mask, size, addr) = {o + k : k \in mask}
  BY <1>1, <1>2
<1> QED  BY <1>2, <1>3, <1>4 DEF Lanes

\* The lanes of a whole transfer.
LEMMA AlignMaskFacts ==
  ASSUME NEW size \in Sizes, NEW addr \in Nat, addr % size = 0
  PROVE  /\ AlignMask(size, addr)
              = (addr % BeatBytes) .. (addr % BeatBytes) + size - 1
         /\ AlignMask(size, addr) \subseteq Lanes
<1>1. PICK o \in Nat : /\ o = addr % BeatBytes /\ o + size <= BeatBytes
                       /\ size = BeatBytes => o = 0
  BY SlotFacts
<1>2. size \in Nat \ {0} /\ BeatBytes \in Nat /\ size <= BeatBytes
  BY SizeFacts
<1>3. CASE size = BeatBytes
  BY <1>1, <1>2, <1>3 DEF AlignMask, Lanes
<1>4. CASE size < BeatBytes
  <2>1. AlignMask(size, addr) = ShiftedMask(0 .. size - 1, size, addr)
    BY <1>2, <1>4 DEF AlignMask
  <2>2. ShiftedMask(0 .. size - 1, size, addr) = {o + k : k \in 0 .. size - 1}
    <3>1. 0 .. size - 1 \in SUBSET (0 .. size - 1)
      OBVIOUS
    <3>2. ShiftedMask(0 .. size - 1, size, addr)
            = {(addr % BeatBytes) + k : k \in 0 .. size - 1}
      BY <3>1, ShiftedMaskFacts, Zenon
    <3> QED  BY <1>1, <3>2, Zenon
  <2>3. {o + k : k \in 0 .. size - 1} = o .. o + size - 1
    <3>1. ASSUME NEW l \in o .. o + size - 1
          PROVE  l \in {o + k : k \in 0 .. size - 1}
      <4>1. l - o \in 0 .. size - 1 /\ l = o + (l - o)
        BY <1>1, <1>2
      <4> QED  BY <4>1
    <3>2. ASSUME NEW k \in 0 .. size - 1
          PROVE  o + k \in o .. o + size - 1
      BY <1>1, <1>2
    <3> QED  BY <3>1, <3>2
  <2>4. o .. o + size - 1 \subseteq Lanes
    BY <1>1, <1>2 DEF Lanes
  <2> QED  BY <1>1, <2>1, <2>2, <2>3, <2>4
<1> QED  BY <1>2, <1>3, <1>4

\* The lowest lane of a set of lanes.
LEMMA LeastElement ==
  ASSUME NEW S \in SUBSET Int, NEW o \in S, \A y \in S : o <= y
  PROVE  first_bit_set_u32(S) = o
<1>1. \A x \in S : (\A y \in S : x <= y) => x = o
  OBVIOUS
<1> QED  BY <1>1 DEF first_bit_set_u32, Min

\* The lowest lane of a mask that includes the first byte of its transfer.
LEMMA FirstLane ==
  ASSUME NEW o \in Nat, NEW mask \in SUBSET Nat, 0 \in mask
  PROVE  first_bit_set_u32({o + k : k \in mask}) = o
<1> DEFINE S == {o + k : k \in mask}
<1>1. S \in SUBSET Int /\ o \in S /\ \A y \in S : o <= y
  <2>1. o \in S
    <3>1. o = o + 0
      OBVIOUS
    <3> QED  BY <3>1
  <2>2. ASSUME NEW y \in S PROVE y \in Int /\ o <= y
    <3>1. PICK k \in mask : y = o + k
      OBVIOUS
    <3>2. k \in Nat
      OBVIOUS
    <3> QED  BY <3>1, <3>2
  <2> QED  BY <2>1, <2>2
<1> HIDE DEF S
<1>2. first_bit_set_u32(S) = o
  BY <1>1, LeastElement
<1> QED  BY <1>2 DEF S

\* A set of lanes has a lowest one: first_bit_set_u32 finds it.
LEMMA LowestLane ==
  ASSUME NEW S \in SUBSET (0 .. 31), S # {}
  PROVE  first_bit_set_u32(S) \in S /\ \A y \in S : first_bit_set_u32(S) <= y
<1>1. PICK x \in S : \A y \in S : x <= y
  <2> SUFFICES ASSUME \A x \in S : \E y \in S : y < x PROVE FALSE
    OBVIOUS
  <2>1. \A x \in S : x >= 8
    OBVIOUS
  <2>2. \A x \in S : x >= 16
    BY <2>1
  <2>3. \A x \in S : x >= 24
    BY <2>2
  <2>4. \A x \in S : x >= 32
    BY <2>3
  <2>5. PICK x \in S : TRUE
    OBVIOUS
  <2> QED  BY <2>4, <2>5
<1>2. S \in SUBSET Int
  OBVIOUS
<1>3. first_bit_set_u32(S) = x
  BY <1>1, <1>2, LeastElement
<1> QED  BY <1>1, <1>3

\* The lowest lane of a mask shifted by o lanes.
LEMMA LowestShifted ==
  ASSUME NEW o \in Nat, NEW mask \in SUBSET (0 .. 31), mask # {}
  PROVE  first_bit_set_u32({o + k : k \in mask}) = o + first_bit_set_u32(mask)
<1> DEFINE S == {o + k : k \in mask}
<1>1. PICK j \in mask : j = first_bit_set_u32(mask) /\ \A k \in mask : j <= k
  BY LowestLane
<1>2. S \in SUBSET Int /\ o + j \in S /\ \A y \in S : o + j <= y
  <2>1. o + j \in S
    OBVIOUS
  <2>2. ASSUME NEW y \in S PROVE y \in Int /\ o + j <= y
    <3>1. PICK k \in mask : y = o + k
      OBVIOUS
    <3>2. k \in Int /\ j \in Int /\ j <= k
      BY <1>1
    <3> QED  BY <3>1, <3>2
  <2> QED  BY <2>1, <2>2
<1> HIDE DEF S
<1>3. first_bit_set_u32(S) = o + j
  BY <1>2, LeastElement
<1> QED  BY <1>1, <1>3 DEF S

-----------------------------------------------------------------------------
(***************************************************************************)
(* Builders.                                                               *)
(***************************************************************************)
Messages == [opcode : {"none", "PutFullData", "PutPartialData", "Get"},
             address : Nat, size : Nat, mask : SUBSET Lanes,
             data : [DataBytes -> Values]]

\* The bytes a memcpy moves, and the array it leaves.
LEMMA CopiedFacts ==
  ASSUME NEW old \in [DataBytes -> Values], NEW i \in Nat, NEW n \in Nat,
         NEW data \in [0 .. n - 1 -> Values]
  PROVE  /\ Copied(old, i, data, n) \in [DataBytes -> Values]
         /\ \A l \in DataBytes :
              l \in i .. i + n - 1 => Copied(old, i, data, n)[l] = data[l - i]
<1>1. DataBytes \subseteq Int
  BY DEF DataBytes
<1>2. ASSUME NEW l \in DataBytes, l \in i .. i + n - 1
      PROVE  l - i \in 0 .. n - 1
  BY <1>1, <1>2
<1> QED  BY <1>1, <1>2 DEF Copied

\* An address the caller uses.
LEMMA AddressFacts ==
  ASSUME NEW size \in Sizes, NEW addr \in Addresses(size)
  PROVE  /\ addr \in Nat /\ addr % size = 0
         /\ \A l \in Lanes : l \in DataBytes
<1>1. addr \in FirstByte .. MemBytes - 1 /\ addr % size = 0
  BY DEF Addresses
<1>2. FirstByte \in 0 .. MemBytes - 1 /\ MemBytes \in Nat
  BY AgentAssumption
<1>3. addr \in Nat
  BY <1>1, <1>2
<1>4. \A l \in Lanes : l \in DataBytes
  BY SizeFacts DEF Lanes, DataBytes
<1> QED  BY <1>1, <1>3, <1>4

\* put(): exactly the bytes of the transfer are enabled, each in its lane.
LEMMA FullPutFacts ==
  ASSUME NEW msg \in Messages, NEW size \in Sizes,
         NEW addr \in Addresses(size), NEW data \in Payloads(size),
         NEW m, m = FullPut(msg, addr, size, data)
  PROVE  /\ m \in Messages /\ m.opcode = "PutFullData" /\ m.address = addr
         /\ \A x \in Int :
              /\ x - BeatBase(addr) \in m.mask <=> x \in addr .. addr + size - 1
              /\ x - BeatBase(addr) \in m.mask
                   => m.data[x - BeatBase(addr)] = data[x - addr]
<1> DEFINE mask == AlignMask(size, addr)
<1>1. addr \in Nat /\ addr % size = 0 /\ \A l \in Lanes : l \in DataBytes
  BY AddressFacts
<1>2. PICK o \in Nat : /\ o = addr % BeatBytes /\ o + size <= BeatBytes
                       /\ BeatBase(addr) + o = addr /\ BeatBase(addr) \in Int
                       /\ size = BeatBytes => o = 0
  BY <1>1, SlotFacts
<1>3. size \in Nat \ {0} /\ BeatBytes \in Nat \ {0} /\ size <= BeatBytes
  BY SizeFacts
<1>4. mask = o .. o + size - 1 /\ mask \subseteq Lanes
  BY <1>1, <1>2, AlignMaskFacts
<1> HIDE DEF mask
<1>5. PutLane(size, addr) = o
  <2>1. CASE size < BeatBytes
    <3>1. mask \in SUBSET Int /\ o \in mask /\ \A y \in mask : o <= y
      <4>1. size \in Nat \ {0} /\ mask = o .. o + size - 1
        BY <1>3, <1>4
      <4> QED  BY <4>1
    <3>2. first_bit_set_u32(mask) = o
      BY <3>1, LeastElement
    <3> QED  BY <2>1, <3>2 DEF PutLane, mask
  <2>2. CASE ~(size < BeatBytes)
    BY <1>2, <1>3, <2>2 DEF PutLane
  <2> QED  BY <2>1, <2>2
<1>6. m = [msg EXCEPT !.opcode = "PutFullData", !.address = addr,
                      !.size = size, !.mask = mask,
                      !.data = Copied(msg.data, o, data, size)]
  BY <1>5 DEF FullPut, mask
<1>7. data \in [0 .. size - 1 -> Values] /\ msg.data \in [DataBytes -> Values]
  BY DEF Payloads, Messages
<1>8. /\ Copied(msg.data, o, data, size) \in [DataBytes -> Values]
      /\ \A l \in DataBytes :
           l \in o .. o + size - 1
             => Copied(msg.data, o, data, size)[l] = data[l - o]
  BY <1>3, <1>7, CopiedFacts
<1>9. /\ m \in Messages /\ m.opcode = "PutFullData" /\ m.address = addr
      /\ m.mask = mask /\ m.data = Copied(msg.data, o, data, size)
  BY <1>1, <1>3, <1>4, <1>6, <1>8 DEF Messages
<1>10. ASSUME NEW x \in Int
       PROVE  /\ x - BeatBase(addr) \in m.mask <=> x \in addr .. addr + size - 1
              /\ x - BeatBase(addr) \in m.mask
                   => m.data[x - BeatBase(addr)] = data[x - addr]
  <2>1. PICK l \in Int : l = x - BeatBase(addr) /\ l - o = x - addr
    BY <1>1, <1>2
  <2>2. l \in o .. o + size - 1 <=> x \in addr .. addr + size - 1
    BY <1>1, <1>2, <1>3, <2>1
  <2>3. l \in mask => l \in DataBytes
    BY <1>1, <1>4
  <2> QED  BY <1>4, <1>8, <1>9, <2>1, <2>2, <2>3
<1> QED  BY <1>9, <1>10

\* putPartial(): exactly the bytes of the mask are, if it has the first.
LEMMA PartialPutFacts ==
  ASSUME NEW msg \in Messages, NEW size \in Sizes,
         NEW addr \in Addresses(size), NEW data \in Payloads(size),
         NEW mask \in SUBSET (0 .. size - 1),
         size = BeatBytes \/ mask = {} \/ 0 \in mask,
         NEW m, m = PartialPut(msg, addr, size, mask, data)
  PROVE  /\ m \in Messages /\ m.opcode = "PutPartialData" /\ m.address = addr
         /\ \A x \in Int :
              /\ x - BeatBase(addr) \in m.mask <=> x - addr \in mask
              /\ x - BeatBase(addr) \in m.mask
                   => m.data[x - BeatBase(addr)] = data[x - addr]
<1>1. addr \in Nat /\ addr % size = 0 /\ \A l \in Lanes : l \in DataBytes
  BY AddressFacts
<1>2. PICK o \in Nat : /\ o = addr % BeatBytes /\ o + size <= BeatBytes
                       /\ BeatBase(addr) + o = addr /\ BeatBase(addr) \in Int
                       /\ size = BeatBytes => o = 0
  BY <1>1, SlotFacts
<1>3. size \in Nat \ {0} /\ BeatBytes \in Nat \ {0} /\ size <= BeatBytes
  BY SizeFacts
<1>4. msg.data \in [DataBytes -> Values] /\ data \in [0 .. size - 1 -> Values]
  BY DEF Messages, Payloads
<1>5. CASE mask = {}
  <2>1. m = [msg EXCEPT !.opcode = "PutPartialData", !.address = addr,
                        !.size = size, !.mask = {}, !.data = msg.data]
    BY <1>5 DEF PartialPut
  <2>2. /\ m \in Messages /\ m.opcode = "PutPartialData" /\ m.address = addr
        /\ m.mask = {}
    BY <1>1, <1>3, <1>4, <2>1 DEF Messages
  <2> QED  BY <1>5, <2>2
<1>6. CASE mask # {}
  <2> DEFINE lanes == PartialLanes(size, addr, mask)
  <2>1. lanes = {o + k : k \in mask} /\ lanes \subseteq Lanes
    <3>1. CASE size >= BeatBytes
      <4>1. o = 0 /\ size = BeatBytes /\ \A k \in mask : o + k = k /\ k \in Lanes
        BY <1>2, <1>3, <3>1 DEF Lanes
      <4>2. {o + k : k \in mask} = mask
        BY <4>1
      <4>3. mask \subseteq Lanes
        BY <4>1
      <4> QED  BY <3>1, <4>2, <4>3 DEF PartialLanes
    <3>2. CASE ~(size >= BeatBytes)
      <4>1. ShiftedMask(mask, size, addr) = {(addr % BeatBytes) + k : k \in mask}
            /\ ShiftedMask(mask, size, addr) \subseteq Lanes
        BY <1>1, ShiftedMaskFacts
      <4> QED  BY <1>2, <3>2, <4>1 DEF PartialLanes
    <3> QED  BY <3>1, <3>2
  <2>2. PartialLane(size, addr, mask) = o
    <3>1. CASE size >= BeatBytes
      BY <1>2, <1>3, <3>1 DEF PartialLane
    <3>2. CASE ~(size >= BeatBytes)
      <4>1. 0 \in mask /\ mask \in SUBSET Nat
        <5>1. size # BeatBytes
          BY <1>3, <3>2
        <5>2. 0 .. size - 1 \subseteq Nat
          OBVIOUS
        <5> QED  BY <1>6, <5>1, <5>2
      <4>2. first_bit_set_u32({o + k : k \in mask}) = o
        BY <4>1, FirstLane
      <4>3. lanes = {o + k : k \in mask}
        BY <2>1
      <4> HIDE DEF lanes
      <4>4. first_bit_set_u32(lanes) = o
        BY <4>2, <4>3
      <4> QED  BY <3>2, <4>4 DEF PartialLane, lanes
    <3> QED  BY <3>1, <3>2
  <2>3. m = [msg EXCEPT !.opcode = "PutPartialData", !.address = addr,
                        !.size = size, !.mask = lanes,
                        !.data = Copied(msg.data, o, data, size)]
    <3> DEFINE i == PartialLane(size, addr, mask)
    <3>1. m = [msg EXCEPT !.opcode = "PutPartialData", !.address = addr,
                          !.size = size,
                          !.mask = IF mask = {} THEN {} ELSE lanes,
                          !.data = IF mask = {} THEN @
                                   ELSE Copied(@, i, data, size)]
      BY DEF PartialPut
    <3>2. i = o
      BY <2>2
    <3> HIDE DEF i, lanes
    <3> QED  BY <1>6, <3>1, <3>2
  <2> HIDE DEF lanes
  <2>4. /\ Copied(msg.data, o, data, size) \in [DataBytes -> Values]
        /\ \A l \in DataBytes :
             l \in o .. o + size - 1
               => Copied(msg.data, o, data, size)[l] = data[l - o]
    <3>1. size \in Nat
      BY <1>3
    <3> QED  BY <1>4, <3>1, CopiedFacts, Zenon
  <2>5. /\ m \in Messages /\ m.opcode = "PutPartialData" /\ m.address = addr
        /\ m.mask = lanes /\ m.data = Copied(msg.data, o, data, size)
    BY <1>1, <1>3, <2>1, <2>3, <2>4 DEF Messages
  <2>6. ASSUME NEW x \in Int
        PROVE  /\ x - BeatBase(addr) \in m.mask <=> x - addr \in mask
               /\ x - BeatBase(addr) \in m.mask
                    => m.data[x - BeatBase(addr)] = data[x - addr]
    <3>1. PICK l \in Int : l = x - BeatBase(addr) /\ l - o = x - addr
                           /\ l = o + (x - addr)
      BY <1>1, <1>2
    <3>2. l \in lanes <=> x - addr \in mask
      <4>1. ASSUME NEW k \in mask, l = o + k PROVE k = x - addr
        BY <1>2, <3>1, <4>1
      <4> QED  BY <2>1, <3>1, <4>1
    <3>3. l \in lanes => l \in DataBytes
      BY <1>1, <2>1
    <3>4. x - addr \in mask => l \in o .. o + size - 1
      <4>1. ASSUME NEW k \in mask, k = x - addr
            PROVE  l \in o .. o + size - 1
        <5>1. k \in 0 .. size - 1
          OBVIOUS
        <5>2. l = o + k /\ size \in Nat
          BY <1>3, <3>1, <4>1
        <5> QED  BY <5>1, <5>2
      <4> QED  BY <4>1
    <3> QED  BY <2>4, <2>5, <3>1, <3>2, <3>3, <3>4
  <2> QED  BY <2>5, <2>6
<1> QED  BY <1>5, <1>6

\* Below a beat, with any mask: the lanes of the mask, and the lowest of them.
LEMMA SubBeatLanes ==
  ASSUME NEW size \in Sizes, NEW addr \in Addresses(size),
         NEW mask \in SUBSET (0 .. size - 1), mask # {}, size < BeatBytes,
         NEW o, o = addr % BeatBytes, NEW j, j = first_bit_set_u32(mask)
  PROVE  /\ o \in Nat /\ o + size <= BeatBytes
         /\ j \in mask /\ j \in Nat /\ \A k \in mask : j <= k
         /\ PartialLanes(size, addr, mask) = {o + k : k \in mask}
         /\ PartialLanes(size, addr, mask) \subseteq Lanes
         /\ PartialLane(size, addr, mask) = o + j
<1>1. addr \in Nat /\ addr % size = 0
  BY AddressFacts
<1>2. o \in Nat /\ o + size <= BeatBytes
  BY <1>1, SlotFacts
<1>3. /\ size \in Nat \ {0} /\ BeatBytes \in Nat /\ ~(size >= BeatBytes)
      /\ mask \in SUBSET (0 .. 31)
  BY SizeFacts
<1>4. j \in mask /\ j \in Nat /\ \A k \in mask : j <= k
  <2>1. j \in mask /\ \A k \in mask : j <= k
    BY <1>3, LowestLane, Zenon
  <2> QED  BY <1>3, <2>1
<1> DEFINE lanes == ShiftedMask(mask, size, addr)
<1>5. lanes = {o + k : k \in mask} /\ lanes \subseteq Lanes
  <2>1. /\ lanes = {(addr % BeatBytes) + k : k \in mask}
        /\ lanes \subseteq Lanes
    BY <1>1, ShiftedMaskFacts, Zenon
  <2> HIDE DEF lanes
  <2> QED  BY <2>1, Zenon
<1> HIDE DEF lanes
<1>6. PartialLanes(size, addr, mask) = lanes
  BY <1>3 DEF PartialLanes, lanes
<1>7. PartialLane(size, addr, mask) = first_bit_set_u32(lanes)
  BY <1>3, <1>6 DEF PartialLane
<1>8. first_bit_set_u32({o + k : k \in mask}) = o + j
  BY <1>2, <1>3, LowestShifted
<1> QED  BY <1>2, <1>4, <1>5, <1>6, <1>7, <1>8

\* putPartial() with any mask: the lanes of the mask are enabled, and the
\* caller's data starts at the lowest of them.
LEMMA PartialPutShape ==
  ASSUME NEW msg \in Messages, NEW size \in Sizes,
         NEW addr \in Addresses(size), NEW data \in Payloads(size),
         NEW mask \in SUBSET (0 .. size - 1), mask # {}, size < BeatBytes,
         NEW o, o = addr % BeatBytes, NEW j, j = first_bit_set_u32(mask),
         NEW m, m = PartialPut(msg, addr, size, mask, data)
  PROVE  /\ o \in Nat /\ j \in mask /\ \A k \in mask : j <= k
         /\ m \in Messages /\ m.opcode = "PutPartialData" /\ m.address = addr
         /\ m.mask = {o + k : k \in mask}
         /\ m.data = Copied(msg.data, o + j, data, size)
         /\ \A l \in DataBytes :
              l \in o + j .. o + j + size - 1 => m.data[l] = data[l - (o + j)]
<1>1. addr \in Nat /\ addr % size = 0 /\ \A l \in Lanes : l \in DataBytes
  BY AddressFacts
<1>2. o \in Nat
  BY <1>1, SlotFacts
<1>3. /\ size \in Nat \ {0} /\ BeatBytes \in Nat /\ ~(size >= BeatBytes)
      /\ mask \in SUBSET (0 .. 31)
  BY SizeFacts
<1>4. msg.data \in [DataBytes -> Values] /\ data \in [0 .. size - 1 -> Values]
  BY DEF Messages, Payloads
<1>5. /\ j \in mask /\ j \in Nat /\ \A k \in mask : j <= k
      /\ PartialLanes(size, addr, mask) = {o + k : k \in mask}
      /\ PartialLanes(size, addr, mask) \subseteq Lanes
      /\ PartialLane(size, addr, mask) = o + j
  <2>1. PICK p, q : p = addr % BeatBytes /\ q = first_bit_set_u32(mask)
    OBVIOUS
  <2>2. /\ q \in mask /\ q \in Nat /\ \A k \in mask : q <= k
        /\ PartialLanes(size, addr, mask) = {p + k : k \in mask}
        /\ PartialLanes(size, addr, mask) \subseteq Lanes
        /\ PartialLane(size, addr, mask) = p + q
    BY <2>1, SubBeatLanes, SMT
  <2> QED  BY <2>1, <2>2, Zenon
<1> DEFINE lanes == PartialLanes(size, addr, mask)
<1>6. lanes = {o + k : k \in mask} /\ lanes \subseteq Lanes
  BY <1>5
<1> HIDE DEF lanes
<1>7. PartialLane(size, addr, mask) = o + j
  BY <1>5
<1>8. m = [msg EXCEPT !.opcode = "PutPartialData", !.address = addr,
                      !.size = size, !.mask = lanes,
                      !.data = Copied(msg.data, o + j, data, size)]
  BY <1>7 DEF PartialPut, lanes
<1>9. /\ Copied(msg.data, o + j, data, size) \in [DataBytes -> Values]
      /\ \A l \in DataBytes :
           l \in o + j .. o + j + size - 1
             => Copied(msg.data, o + j, data, size)[l] = data[l - (o + j)]
  <2>1. PICK i \in Nat : i = o + j
    BY <1>2, <1>5
  <2>2. size \in Nat
    BY <1>3
  <2>3. /\ Copied(msg.data, i, data, size) \in [DataBytes -> Values]
        /\ \A l \in DataBytes :
             l \in i .. i + size - 1
               => Copied(msg.data, i, data, size)[l] = data[l - i]
    BY <1>4, <2>2, CopiedFacts, Zenon
  <2> QED  BY <2>1, <2>3
<1>10. /\ m \in Messages /\ m.opcode = "PutPartialData" /\ m.address = addr
       /\ m.mask = lanes /\ m.data = Copied(msg.data, o + j, data, size)
  <2>1. addr \in Nat /\ size \in Nat /\ lanes \in SUBSET Lanes
    BY <1>1, <1>3, <1>6
  <2> DEFINE d == Copied(msg.data, o + j, data, size)
  <2>2. d \in [DataBytes -> Values]
    BY <1>9
  <2>3. m = [msg EXCEPT !.opcode = "PutPartialData", !.address = addr,
                        !.size = size, !.mask = lanes, !.data = d]
    BY <1>8
  <2> HIDE DEF d
  <2>4. /\ m \in Messages /\ m.opcode = "PutPartialData" /\ m.address = addr
        /\ m.mask = lanes /\ m.data = d
    BY <2>1, <2>2, <2>3 DEF Messages
  <2> QED  BY <2>4 DEF d
<1> QED  BY <1>2, <1>5, <1>6, <1>9, <1>10

\* What putPartial() does with a mask that leaves out its first byte (see
\* PayloadPlaced in TLAgentSparse.cfg): below a beat, the lane of byte k of the
\* transfer carries the caller's byte k - j, where j is the mask's first byte.
\* So exactly the masks with byte 0 have every byte in its own lane.
THEOREM SparsePutSlides ==
  ASSUME NEW msg \in Messages, NEW size \in Sizes, size < BeatBytes,
         NEW addr \in Addresses(size), NEW data \in Payloads(size),
         NEW mask \in SUBSET (0 .. size - 1), mask # {},
         NEW k \in mask
  PROVE  /\ first_bit_set_u32(mask) \in 0 .. k
         /\ PartialPut(msg, addr, size, mask, data).data[(addr % BeatBytes) + k]
              = data[k - first_bit_set_u32(mask)]
<1>0. PICK o, j, m : /\ o = addr % BeatBytes
                     /\ j = first_bit_set_u32(mask)
                     /\ m = PartialPut(msg, addr, size, mask, data)
  OBVIOUS
<1>1. /\ o \in Nat /\ j \in mask /\ m \in Messages
      /\ j <= k /\ m.mask = {o + i : i \in mask}
      /\ \A l \in DataBytes :
           l \in o + j .. o + j + size - 1 => m.data[l] = data[l - (o + j)]
  BY <1>0, PartialPutShape
<1>2. j \in Nat /\ k \in Nat /\ j <= k /\ k <= size - 1 /\ size \in Nat
  BY <1>1, SizeFacts
<1>3. o + k \in DataBytes
  <2>1. o + k \in m.mask
    BY <1>1
  <2>2. m.mask \subseteq Lanes
    BY <1>1 DEF Messages
  <2>3. \A l \in Lanes : l \in DataBytes
    BY AddressFacts
  <2> QED  BY <2>1, <2>2, <2>3
<1>4. o + k \in o + j .. o + j + size - 1 /\ (o + k) - (o + j) = k - j
  BY <1>1, <1>2
<1>5. m.data[o + k] = data[k - j] /\ j \in 0 .. k
  BY <1>1, <1>2, <1>3, <1>4
<1> QED  BY <1>0, <1>5

\* get(): the message asks for its own bytes and no others.
LEMMA GetFacts ==
  ASSUME NEW msg \in Messages, NEW size \in Sizes, NEW addr \in Addresses(size),
         NEW m, m = GetOf(msg, addr, size)
  PROVE  /\ m \in Messages /\ m.opcode = "Get" /\ m.address = addr
         /\ m.size = size /\ m.mask = AlignMask(size, addr)
<1>1. addr \in Nat /\ AlignMask(size, addr) \subseteq Lanes /\ size \in Nat
  BY AddressFacts, AlignMaskFacts, SizeFacts
<1> QED  BY <1>1 DEF GetOf, Messages

-----------------------------------------------------------------------------
(***************************************************************************)
(* The inductive invariant.                                                *)
(***************************************************************************)
Memories == [0 .. MemBytes - 1 -> Values]

\* What memory will hold once the manager has served a put.
Served(m) ==
  [x \in 0 .. MemBytes - 1 |->
     IF x - BeatBase(m.address) \in m.mask THEN m.data[x - BeatBase(m.address)]
                                           ELSE mem[x]]

Typed == p_set \in BOOLEAN /\ tl_a \in Messages
         /\ mem \in Memories /\ ref \in Memories

Carried == a # None => a = tl_a /\ tl_d = None /\ tl_a.opcode # "none"

\* A Get in the message, sent or answered, is as get() has built it.
GetBuilt ==
  tl_a.opcode = "Get" =>
    /\ tl_a.size \in Sizes /\ tl_a.address % tl_a.size = 0
    /\ tl_a.mask = AlignMask(tl_a.size, tl_a.address)

Pending ==
  IF a # None /\ tl_a.opcode # "Get" THEN ref = Served(tl_a) ELSE mem = ref

Answered ==
  tl_d.opcode = "AccessAckData" =>
    /\ tl_a.opcode = "Get"
    /\ tl_d.data = [l \in Lanes |-> mem[BeatBase(tl_a.address) + l]]

IInv == Typed /\ Carried /\ GetBuilt /\ Pending /\ Answered

\* Nothing has been asked for.
LEMMA InitHolds == Init => IInv
<1> SUFFICES ASSUME Init PROVE IInv
  OBVIOUS
<1>1. PICK v \in Values :
        tl_a = [opcode |-> "none", address |-> 0, size |-> 1, mask |-> {},
                data |-> [l \in DataBytes |-> v]]
  BY DEF Init
<1>2. PICK w \in Values : mem = [x \in 0 .. MemBytes - 1 |-> w]
  BY DEF Init
<1>3. Typed
  BY <1>1, <1>2 DEF Typed, Messages, Memories, Init
<1>4. Carried /\ Pending
  BY DEF Carried, Pending, Init
<1>5. GetBuilt
  BY <1>1 DEF GetBuilt
<1>6. Answered
  BY DEF Answered, Init, None
<1> QED  BY <1>3, <1>4, <1>5, <1>6 DEF IInv

\* A message that carries bytes goes out, and asks for its own bytes only.
LEMMA PutIsPending ==
  ASSUME IInv, a = None, tl_d = None,
         UNCHANGED <<p_set, tl_d, mem>>,
         tl_a' \in Messages, a' = tl_a',
         tl_a'.opcode \in {"PutFullData", "PutPartialData"},
         NEW addr \in Nat, tl_a'.address = addr,
         NEW asked, NEW data,
         \A x \in 0 .. MemBytes - 1 :
           /\ x - BeatBase(addr) \in tl_a'.mask <=> x \in asked
           /\ x \in asked => /\ data[x - addr] \in Values
                             /\ tl_a'.data[x - BeatBase(addr)] = data[x - addr],
         ref' = [x \in DOMAIN ref |->
                   IF x \in asked THEN data[x - addr] ELSE ref[x]]
  PROVE  IInv'
<1>1. Typed /\ mem = ref /\ mem \in Memories /\ ref \in Memories
  BY DEF IInv, Pending, Typed
<1>2. ref' = [x \in 0 .. MemBytes - 1 |->
                IF x \in asked THEN data[x - addr] ELSE ref[x]]
  BY <1>1 DEF Memories
<1>3. ref' \in Memories
  BY <1>1, <1>2 DEF Memories
<1>4. Typed'
  BY <1>1, <1>3 DEF Typed
<1>5. Carried' /\ GetBuilt'
  BY DEF Carried, GetBuilt
<1>6. Served(tl_a)' = ref'
  <2>1. Served(tl_a)' =
          [x \in 0 .. MemBytes - 1 |->
             IF x - BeatBase(addr) \in tl_a'.mask
             THEN tl_a'.data[x - BeatBase(addr)] ELSE ref[x]]
    BY <1>1 DEF Served, BeatBase
  <2> QED  BY <1>2, <2>1
<1>7. Pending'
  <2>1. a' # None /\ tl_a'.opcode # "Get"
    BY DEF None
  <2> QED  BY <1>6, <2>1 DEF Pending
<1>8. Answered'
  BY DEF Answered, None
<1> QED  BY <1>4, <1>5, <1>7, <1>8 DEF IInv

\* put() leaves a message that asks for its own bytes.
LEMMA PutStep == ASSUME IInv, put PROVE IInv'
<1>1. PICK size \in Sizes : \E addr \in Addresses(size), data \in Payloads(size) :
        /\ Send(FullPut(tl_a, addr, size, data))
        /\ ref' = [x \in DOMAIN ref |->
                     IF x \in addr .. addr + size - 1 THEN data[x - addr]
                                                      ELSE ref[x]]
  BY DEF put
<1>2. PICK addr \in Addresses(size), data \in Payloads(size) :
        /\ Send(FullPut(tl_a, addr, size, data))
        /\ ref' = [x \in DOMAIN ref |->
                     IF x \in addr .. addr + size - 1 THEN data[x - addr]
                                                      ELSE ref[x]]
  BY <1>1
<1>3. /\ a = None /\ tl_d = None /\ a' = tl_a'
      /\ tl_a' = FullPut(tl_a, addr, size, data)
      /\ UNCHANGED <<p_set, tl_d, mem>>
  BY <1>2 DEF Send, put
<1>4. tl_a \in Messages
  BY DEF IInv, Typed
<1>5. /\ tl_a' \in Messages /\ tl_a'.opcode = "PutFullData"
      /\ tl_a'.address = addr
      /\ \A x \in Int :
           /\ x - BeatBase(addr) \in tl_a'.mask <=> x \in addr .. addr + size - 1
           /\ x - BeatBase(addr) \in tl_a'.mask
                => tl_a'.data[x - BeatBase(addr)] = data[x - addr]
  BY <1>3, <1>4, FullPutFacts
<1>6. addr \in Nat /\ size \in Nat
  BY AddressFacts, SizeFacts
<1>7. \A x \in addr .. addr + size - 1 : data[x - addr] \in Values
  <2>1. \A x \in addr .. addr + size - 1 : x - addr \in 0 .. size - 1
    BY <1>6
  <2> QED  BY <2>1 DEF Payloads
<1>8. \A x \in 0 .. MemBytes - 1 :
        LET asked == addr .. addr + size - 1 IN
        /\ x - BeatBase(addr) \in tl_a'.mask <=> x \in asked
        /\ x \in asked => /\ data[x - addr] \in Values
                          /\ tl_a'.data[x - BeatBase(addr)] = data[x - addr]
  BY <1>5, <1>7
<1> DEFINE asked == addr .. addr + size - 1
<1>9. /\ ref' = [x \in DOMAIN ref |->
                    IF x \in asked THEN data[x - addr] ELSE ref[x]]
      /\ \A x \in 0 .. MemBytes - 1 :
           /\ x - BeatBase(addr) \in tl_a'.mask <=> x \in asked
           /\ x \in asked => /\ data[x - addr] \in Values
                             /\ tl_a'.data[x - BeatBase(addr)] = data[x - addr]
  BY <1>2, <1>8
<1> HIDE DEF asked
<1>10. tl_a'.opcode \in {"PutFullData", "PutPartialData"}
  BY <1>5
<1> QED  BY <1>3, <1>5, <1>6, <1>9, <1>10, PutIsPending

\* putPartial() does too, since its mask has its first byte.
LEMMA PutPartialStep ==
  ASSUME SparseMasks = FALSE, IInv, putPartial PROVE IInv'
<1>1. PICK size \in Sizes :
        \E addr \in Addresses(size), data \in Payloads(size),
           mask \in SUBSET (0 .. size - 1) :
          /\ SparseMasks \/ size = BeatBytes \/ mask = {} \/ 0 \in mask
          /\ Send(PartialPut(tl_a, addr, size, mask, data))
          /\ ref' = [x \in DOMAIN ref |->
                       IF x - addr \in mask THEN data[x - addr] ELSE ref[x]]
  BY DEF putPartial
<1>2. PICK addr \in Addresses(size), data \in Payloads(size),
           mask \in SUBSET (0 .. size - 1) :
        /\ SparseMasks \/ size = BeatBytes \/ mask = {} \/ 0 \in mask
        /\ Send(PartialPut(tl_a, addr, size, mask, data))
        /\ ref' = [x \in DOMAIN ref |->
                     IF x - addr \in mask THEN data[x - addr] ELSE ref[x]]
  BY <1>1
<1>3. /\ a = None /\ tl_d = None /\ a' = tl_a'
      /\ tl_a' = PartialPut(tl_a, addr, size, mask, data)
      /\ UNCHANGED <<p_set, tl_d, mem>>
  BY <1>2 DEF Send, putPartial
<1>4. tl_a \in Messages
  BY DEF IInv, Typed
<1>5. size = BeatBytes \/ mask = {} \/ 0 \in mask
  BY <1>2
<1>6. /\ tl_a' \in Messages /\ tl_a'.opcode = "PutPartialData"
      /\ tl_a'.address = addr
      /\ \A x \in Int :
           /\ x - BeatBase(addr) \in tl_a'.mask <=> x - addr \in mask
           /\ x - BeatBase(addr) \in tl_a'.mask
                => tl_a'.data[x - BeatBase(addr)] = data[x - addr]
  <2>1. PICK m : m = PartialPut(tl_a, addr, size, mask, data)
    OBVIOUS
  <2>2. /\ m \in Messages /\ m.opcode = "PutPartialData" /\ m.address = addr
        /\ \A x \in Int :
             /\ x - BeatBase(addr) \in m.mask <=> x - addr \in mask
             /\ x - BeatBase(addr) \in m.mask
                  => m.data[x - BeatBase(addr)] = data[x - addr]
    BY <1>4, <1>5, <2>1, PartialPutFacts, SMT
  <2>3. tl_a' = m
    BY <1>3, <2>1
  <2> QED  BY <2>2, <2>3
<1>7. addr \in Nat
  BY AddressFacts
<1> DEFINE asked == {x \in 0 .. MemBytes - 1 : x - addr \in mask}
<1>8. ref' = [x \in DOMAIN ref |->
                IF x \in asked THEN data[x - addr] ELSE ref[x]]
  <2>1. DOMAIN ref = 0 .. MemBytes - 1
    BY DEF IInv, Typed, Memories
  <2>2. \A x \in 0 .. MemBytes - 1 : x \in asked <=> x - addr \in mask
    OBVIOUS
  <2> HIDE DEF asked
  <2> QED  BY <1>2, <2>1, <2>2
<1>9. \A x \in 0 .. MemBytes - 1 :
        /\ x - BeatBase(addr) \in tl_a'.mask <=> x \in asked
        /\ x \in asked => /\ data[x - addr] \in Values
                          /\ tl_a'.data[x - BeatBase(addr)] = data[x - addr]
  <2>1. \A k \in mask : data[k] \in Values
    BY DEF Payloads
  <2>2. \A x \in 0 .. MemBytes - 1 : x \in Int
    OBVIOUS
  <2>3. \A x \in 0 .. MemBytes - 1 : x \in asked <=> x - addr \in mask
    OBVIOUS
  <2> HIDE DEF asked
  <2> QED  BY <1>6, <2>1, <2>2, <2>3, Zenon
<1> HIDE DEF asked
<1>10. tl_a'.opcode \in {"PutFullData", "PutPartialData"}
  BY <1>6
<1> QED  BY <1>3, <1>6, <1>7, <1>8, <1>9, <1>10, PutIsPending

\* get() asks for nothing of memory.
LEMMA GetStep == ASSUME IInv, get PROVE IInv'
<1>1. PICK size \in Sizes : \E addr \in Addresses(size) :
        Send(GetOf(tl_a, addr, size))
  BY DEF get
<1>2. PICK addr \in Addresses(size) : Send(GetOf(tl_a, addr, size))
  BY <1>1
<1>3. /\ a = None /\ tl_d = None /\ a' = tl_a'
      /\ tl_a' = GetOf(tl_a, addr, size)
      /\ UNCHANGED <<p_set, tl_d, mem, ref>>
  BY <1>2 DEF Send, get
<1>4. Typed /\ tl_a \in Messages /\ mem = ref
  BY <1>3 DEF IInv, Typed, Pending
<1>5. /\ tl_a' \in Messages /\ tl_a'.opcode = "Get" /\ tl_a'.address = addr
      /\ tl_a'.size = size /\ tl_a'.mask = AlignMask(size, addr)
  BY <1>3, <1>4, GetFacts
<1>6. addr % size = 0
  BY AddressFacts
<1>7. Typed'
  BY <1>3, <1>4, <1>5 DEF Typed
<1>8. Carried'
  BY <1>3, <1>5 DEF Carried
<1>9. GetBuilt'
  BY <1>5, <1>6 DEF GetBuilt, AlignMask, ShiftedMask
<1>10. Pending'
  BY <1>3, <1>4, <1>5 DEF Pending
<1>11. Answered'
  BY <1>3 DEF Answered, None
<1> QED  BY <1>7, <1>8, <1>9, <1>10, <1>11 DEF IInv

\* A put that is served has done what its caller asked for.
LEMMA WritesStep == ASSUME IInv, ManagerWrites PROVE IInv'
<1>1. /\ a.opcode \in {"PutFullData", "PutPartialData"}
      /\ a' = None /\ tl_d' = AccessAck /\ UNCHANGED <<p_set, tl_a, ref>>
  BY DEF ManagerWrites
<1>2. a # None
  BY <1>1 DEF None
<1>3. a = tl_a /\ tl_a.opcode # "Get"
  BY <1>1, <1>2 DEF IInv, Carried
<1>4. ref = Served(tl_a) /\ Typed
  BY <1>2, <1>3 DEF IInv, Pending
<1>5. mem' = Served(tl_a)
  <2>1. DOMAIN mem = 0 .. MemBytes - 1
    BY <1>4 DEF Typed, Memories
  <2>2. mem' = [x \in DOMAIN mem |->
                  IF x - BeatBase(a.address) \in a.mask
                  THEN a.data[x - BeatBase(a.address)] ELSE mem[x]]
    BY DEF ManagerWrites, Base
  <2> QED  BY <1>3, <2>1, <2>2 DEF Served
<1>6. Typed'
  BY <1>1, <1>4, <1>5 DEF Typed
<1>7. Carried' /\ GetBuilt' /\ Pending'
  BY <1>1, <1>4, <1>5 DEF IInv, Carried, GetBuilt, Pending, AlignMask, ShiftedMask
<1>8. Answered'
  BY <1>1 DEF Answered, AccessAck
<1> QED  BY <1>6, <1>7, <1>8 DEF IInv

\* A Get is answered with the beat as it is in memory.
LEMMA ReadsStep == ASSUME IInv, ManagerReads PROVE IInv'
<1>1. /\ a.opcode = "Get" /\ a' = None /\ UNCHANGED <<p_set, tl_a, mem, ref>>
      /\ tl_d' = AccessAckData([l \in Lanes |-> mem[BeatBase(a.address) + l]])
  BY DEF ManagerReads, Base
<1>2. a # None
  BY <1>1 DEF None
<1>3. a = tl_a
  BY <1>2 DEF IInv, Carried
<1>4. mem = ref /\ Typed /\ GetBuilt
  BY <1>1, <1>3 DEF IInv, Pending
<1>5. Typed' /\ GetBuilt'
  BY <1>1, <1>4 DEF Typed, GetBuilt, AlignMask, ShiftedMask
<1>6. Carried' /\ Pending'
  BY <1>1, <1>4 DEF Carried, Pending
<1>7. Answered'
  <2>1. tl_d'.data = [l \in Lanes |-> mem[BeatBase(tl_a.address) + l]]
    BY <1>1, <1>3 DEF AccessAckData
  <2> QED  BY <1>1, <1>3, <2>1 DEF Answered, BeatBase
<1> QED  BY <1>5, <1>6, <1>7 DEF IInv

\* Neither the parameters nor a response taken changes a message or a byte.
LEMMA OtherStep ==
  ASSUME IInv, set_TLBundleParams \/ TakeResponse \/ UNCHANGED vars
  PROVE  IInv'
<1>1. UNCHANGED <<tl_a, a, mem, ref>> /\ (tl_d' = tl_d \/ tl_d' = None)
  BY DEF set_TLBundleParams, TakeResponse, vars
<1>2. p_set' \in BOOLEAN
  BY Zenon DEF set_TLBundleParams, TakeResponse, vars, IInv, Typed
<1>3. Typed'
  BY <1>1, <1>2 DEF IInv, Typed
<1>4. Carried' /\ GetBuilt' /\ Pending'
  BY <1>1 DEF IInv, Carried, GetBuilt, Pending, Served, AlignMask, ShiftedMask,
              BeatBase
<1>5. Answered'
  BY <1>1 DEF IInv, Answered, None, BeatBase
<1> QED  BY <1>3, <1>4, <1>5 DEF IInv

-----------------------------------------------------------------------------
(***************************************************************************)
(* What holds with any masks: messages and memories keep their types, and  *)
(* the packet on its way is the caller's message.                          *)
(***************************************************************************)
Shape == Typed /\ Carried

\* putPartial() builds a message whatever the mask.
LEMMA PartialPutTyped ==
  ASSUME NEW msg \in Messages, NEW size \in Sizes,
         NEW addr \in Addresses(size), NEW data \in Payloads(size),
         NEW mask \in SUBSET (0 .. size - 1),
         NEW m, m = PartialPut(msg, addr, size, mask, data)
  PROVE  m \in Messages /\ m.opcode = "PutPartialData"
<1>1. CASE size = BeatBytes \/ mask = {}
  BY <1>1, PartialPutFacts
<1>2. CASE size < BeatBytes /\ mask # {}
  <2>1. PICK o, j : o = addr % BeatBytes /\ j = first_bit_set_u32(mask)
    OBVIOUS
  <2> QED  BY <1>2, <2>1, PartialPutShape
<1>3. size < BeatBytes \/ size = BeatBytes
  BY SizeFacts
<1> QED  BY <1>1, <1>2, <1>3

\* A message that is built and sent.
LEMMA SendKeepsShape ==
  ASSUME Shape, NEW m \in Messages, m.opcode # "none", Send(m),
         UNCHANGED <<p_set, tl_d, mem>>, ref' \in Memories
  PROVE  Shape'
<1>1. tl_a' = m /\ a' = m /\ tl_d' = None
  BY DEF Send
<1>2. Typed'
  BY <1>1 DEF Shape, Typed
<1> QED  BY <1>1, <1>2 DEF Shape, Carried

\* put() builds one.
LEMMA PutKeepsShape == ASSUME Shape, put PROVE Shape'
<1>1. PICK size \in Sizes : \E addr \in Addresses(size), data \in Payloads(size) :
        /\ Send(FullPut(tl_a, addr, size, data))
        /\ ref' = [x \in DOMAIN ref |->
                     IF x \in addr .. addr + size - 1 THEN data[x - addr]
                                                      ELSE ref[x]]
  BY DEF put
<1>2. PICK addr \in Addresses(size), data \in Payloads(size) :
        /\ Send(FullPut(tl_a, addr, size, data))
        /\ ref' = [x \in DOMAIN ref |->
                     IF x \in addr .. addr + size - 1 THEN data[x - addr]
                                                      ELSE ref[x]]
  BY <1>1
<1>3. PICK m : m = FullPut(tl_a, addr, size, data)
  OBVIOUS
<1>4. m \in Messages /\ m.opcode = "PutFullData"
  BY <1>3, FullPutFacts DEF Shape, Typed
<1>5. ref' \in Memories
  <2>1. addr \in Nat /\ size \in Nat
    BY AddressFacts, SizeFacts
  <2>2. ASSUME NEW x \in 0 .. MemBytes - 1, x \in addr .. addr + size - 1
        PROVE  data[x - addr] \in Values
    <3>1. x - addr \in 0 .. size - 1
      BY <2>1, <2>2
    <3> QED  BY <3>1 DEF Payloads
  <2>3. ref \in [0 .. MemBytes - 1 -> Values]
    BY DEF Shape, Typed, Memories
  <2> QED  BY <1>2, <2>2, <2>3 DEF Memories
<1>6. UNCHANGED <<p_set, tl_d, mem>> /\ Send(m)
  BY <1>2, <1>3 DEF put
<1> QED  BY <1>4, <1>5, <1>6, SendKeepsShape

\* putPartial() does, with any mask.
LEMMA PutPartialKeepsShape == ASSUME Shape, putPartial PROVE Shape'
<1>1. PICK size \in Sizes :
        \E addr \in Addresses(size), data \in Payloads(size),
           mask \in SUBSET (0 .. size - 1) :
          /\ Send(PartialPut(tl_a, addr, size, mask, data))
          /\ ref' = [x \in DOMAIN ref |->
                       IF x - addr \in mask THEN data[x - addr] ELSE ref[x]]
  BY DEF putPartial
<1>2. PICK addr \in Addresses(size), data \in Payloads(size),
           mask \in SUBSET (0 .. size - 1) :
        /\ Send(PartialPut(tl_a, addr, size, mask, data))
        /\ ref' = [x \in DOMAIN ref |->
                     IF x - addr \in mask THEN data[x - addr] ELSE ref[x]]
  BY <1>1
<1>3. PICK m : m = PartialPut(tl_a, addr, size, mask, data)
  OBVIOUS
<1>4. m \in Messages /\ m.opcode = "PutPartialData"
  BY <1>3, PartialPutTyped DEF Shape, Typed
<1>5. ref' \in Memories
  <2>1. \A k \in mask : data[k] \in Values
    BY DEF Payloads
  <2>2. ref \in [0 .. MemBytes - 1 -> Values]
    BY DEF Shape, Typed, Memories
  <2> QED  BY <1>2, <2>1, <2>2 DEF Memories
<1>6. UNCHANGED <<p_set, tl_d, mem>> /\ Send(m)
  BY <1>2, <1>3 DEF putPartial
<1> QED  BY <1>4, <1>5, <1>6, SendKeepsShape

\* get() does, and asks nothing of memory.
LEMMA GetKeepsShape == ASSUME Shape, get PROVE Shape'
<1>1. PICK size \in Sizes : \E addr \in Addresses(size) :
        Send(GetOf(tl_a, addr, size))
  BY DEF get
<1>2. PICK addr \in Addresses(size) : Send(GetOf(tl_a, addr, size))
  BY <1>1
<1>3. PICK m : m = GetOf(tl_a, addr, size)
  OBVIOUS
<1>4. m \in Messages /\ m.opcode = "Get"
  BY <1>3, GetFacts DEF Shape, Typed
<1>5. UNCHANGED <<p_set, tl_d, mem>> /\ Send(m) /\ ref' \in Memories
  BY <1>2, <1>3 DEF get, Shape, Typed
<1> QED  BY <1>4, <1>5, SendKeepsShape

\* The manager writes the bytes of enabled lanes, which the message has.
LEMMA WriteKeepsShape == ASSUME Shape, ManagerWrites PROVE Shape'
<1>1. a' = None /\ UNCHANGED <<p_set, tl_a, ref>>
  BY DEF ManagerWrites
<1>2. a # None /\ a = tl_a
  BY DEF ManagerWrites, None, Shape, Carried
<1>3. \A l \in tl_a.mask : tl_a.data[l] \in Values
  <2>1. tl_a.mask \subseteq Lanes /\ tl_a.data \in [DataBytes -> Values]
    BY DEF Shape, Typed, Messages
  <2>2. Lanes \subseteq DataBytes
    BY AgentAssumption DEF Lanes, DataBytes
  <2> QED  BY <2>1, <2>2
<1>4. mem' \in Memories
  <2>1. mem \in [0 .. MemBytes - 1 -> Values]
    BY DEF Shape, Typed, Memories
  <2>2. mem' = [x \in DOMAIN mem |->
                  IF x - Base \in tl_a.mask THEN tl_a.data[x - Base] ELSE mem[x]]
    BY <1>2 DEF ManagerWrites
  <2> QED  BY <1>3, <2>1, <2>2 DEF Memories
<1>5. Typed'
  BY <1>1, <1>4 DEF Shape, Typed
<1> QED  BY <1>1, <1>5 DEF Shape, Carried

\* The other steps leave the caller's message and both memories alone.
LEMMA RestKeepsShape ==
  ASSUME Shape,
         \/ ManagerReads \/ set_TLBundleParams \/ TakeResponse
         \/ UNCHANGED vars
  PROVE  Shape'
<1>1. UNCHANGED <<tl_a, mem, ref>>
  BY DEF ManagerReads, set_TLBundleParams, TakeResponse, vars
<1>2. p_set' \in BOOLEAN
  BY Zenon DEF ManagerReads, set_TLBundleParams, TakeResponse, vars, Shape, Typed
<1>3. Typed'
  BY <1>1, <1>2 DEF Shape, Typed
<1>4. Carried'
  BY <1>1 DEF ManagerReads, set_TLBundleParams, TakeResponse, vars, Shape, Carried
<1> QED  BY <1>3, <1>4 DEF Shape

-----------------------------------------------------------------------------
(***************************************************************************)
(* How far the copies of a put reach.                                      *)
(***************************************************************************)
\* A sub-beat transfer is at most half a beat.
LEMMA HalfABeat ==
  ASSUME NEW size \in Sizes, size < BeatBytes
  PROVE  size <= BeatBytes \div 2
BY SizeFacts

\* put() copies to the lanes of its transfer.
LEMMA PutStaysInside ==
  ASSUME NEW size \in Sizes, NEW addr \in Addresses(size)
  PROVE  ~LeavesArray(PutLane(size, addr), size)
<1>1. addr \in Nat /\ addr % size = 0
  BY AddressFacts
<1>2. PICK o \in Nat : /\ o = addr % BeatBytes /\ o + size <= BeatBytes
                       /\ size = BeatBytes => o = 0
  BY <1>1, SlotFacts
<1>3. /\ size \in Nat \ {0} /\ BeatBytes \in Nat /\ size <= BeatBytes
      /\ DataLen \in Nat /\ BeatBytes <= DataLen
  BY SizeFacts
<1>4. PutLane(size, addr) = o
  <2>1. CASE size < BeatBytes
    <3>1. AlignMask(size, addr) = o .. o + size - 1
      BY <1>1, <1>2, AlignMaskFacts
    <3>2. first_bit_set_u32(o .. o + size - 1) = o
      <4>1. o .. o + size - 1 \in SUBSET Int /\ o \in o .. o + size - 1
            /\ \A y \in o .. o + size - 1 : o <= y
        BY <1>3
      <4> QED  BY <4>1, LeastElement
    <3> QED  BY <2>1, <3>1, <3>2 DEF PutLane
  <2>2. CASE ~(size < BeatBytes)
    BY <1>2, <1>3, <2>2 DEF PutLane
  <2> QED  BY <2>1, <2>2
<1> QED  BY <1>2, <1>3, <1>4 DEF LeavesArray

\* putPartial() leaves the array only below a beat, with a mask that lacks its
\* first byte, and never by half a beat.
LEMMA PartialPutReach ==
  ASSUME NEW size \in Sizes, NEW addr \in Addresses(size),
         NEW mask \in SUBSET (0 .. size - 1), mask # {},
         LeavesArray(PartialLane(size, addr, mask), size)
  PROVE  /\ size # BeatBytes /\ 0 \notin mask
         /\ DataLen < BeatBytes + (BeatBytes \div 2) - 1
<1>1. /\ size \in Nat \ {0} /\ BeatBytes \in Nat /\ size <= BeatBytes
      /\ DataLen \in Nat /\ BeatBytes <= DataLen
  BY SizeFacts
<1>2. size < BeatBytes
  <2> SUFFICES ASSUME size >= BeatBytes PROVE FALSE
    BY <1>1
  <2>1. PartialLane(size, addr, mask) = 0
    BY DEF PartialLane
  <2> QED  BY <1>1, <2>1 DEF LeavesArray
<1>3. PICK o, j : o = addr % BeatBytes /\ j = first_bit_set_u32(mask)
  OBVIOUS
<1>4. /\ o \in Nat /\ o + size <= BeatBytes
      /\ j \in mask /\ j \in Nat /\ \A k \in mask : j <= k
      /\ PartialLane(size, addr, mask) = o + j
  BY <1>2, <1>3, SubBeatLanes, SMT
<1>5. o + j + size > DataLen
  BY <1>4 DEF LeavesArray
<1>6. j <= size - 1
  BY <1>1, <1>4
<1>7. 0 \notin mask
  <2> SUFFICES ASSUME 0 \in mask PROVE FALSE
    OBVIOUS
  <2>1. j = 0
    BY <1>4
  <2> QED  BY <1>1, <1>4, <1>5, <2>1
<1>8. PICK h \in Int : h = BeatBytes \div 2
  BY <1>1
<1>9. size <= h
  BY <1>2, <1>8, HalfABeat
<1>10. DataLen < BeatBytes + h - 1
  BY <1>1, <1>4, <1>5, <1>6, <1>9
<1>11. DataLen < BeatBytes + (BeatBytes \div 2) - 1
  BY <1>8, <1>10, Zenon
<1>12. size # BeatBytes
  BY <1>1, <1>2
<1> QED  BY <1>7, <1>11, <1>12, Zenon

Reach == overrun \in BOOLEAN /\ CopiesStayInside

\* Every put says how far its copy has reached.
LEMMA PutReach == ASSUME Reach, put \/ putPartial PROVE Reach'
<1>1. CASE put
  <2>1. PICK size \in Sizes : \E addr \in Addresses(size) :
          overrun' = LeavesArray(PutLane(size, addr), size)
    BY <1>1 DEF put
  <2>2. PICK addr \in Addresses(size) :
          overrun' = LeavesArray(PutLane(size, addr), size)
    BY <2>1
  <2>3. overrun' = FALSE
    <3>1. ~LeavesArray(PutLane(size, addr), size)
      BY PutStaysInside
    <3>2. LeavesArray(PutLane(size, addr), size) \in BOOLEAN
      BY DEF LeavesArray
    <3> QED  BY <2>2, <3>1, <3>2, Zenon
  <2> QED  BY <2>3 DEF Reach, CopiesStayInside
<1>2. CASE putPartial
  <2>1. PICK size \in Sizes :
          \E addr \in Addresses(size), mask \in SUBSET (0 .. size - 1) :
            /\ SparseMasks \/ size = BeatBytes \/ mask = {} \/ 0 \in mask
            /\ overrun' = /\ mask # {}
                          /\ LeavesArray(PartialLane(size, addr, mask), size)
    BY <1>2 DEF putPartial
  <2>2. PICK addr \in Addresses(size), mask \in SUBSET (0 .. size - 1) :
          /\ SparseMasks \/ size = BeatBytes \/ mask = {} \/ 0 \in mask
          /\ overrun' = /\ mask # {}
                        /\ LeavesArray(PartialLane(size, addr, mask), size)
    BY <2>1
  <2>3. overrun' \in BOOLEAN
    BY <2>2, Zenon
  <2>4. ASSUME overrun'
        PROVE  SparseMasks /\ DataLen < BeatBytes + (BeatBytes \div 2) - 1
    <3>1. mask # {} /\ LeavesArray(PartialLane(size, addr, mask), size)
      BY <2>2, <2>4, Zenon
    <3>2. /\ size # BeatBytes /\ 0 \notin mask
          /\ DataLen < BeatBytes + (BeatBytes \div 2) - 1
      BY <3>1, PartialPutReach
    <3> QED  BY <2>2, <3>1, <3>2, Zenon
  <2> QED  BY <2>3, <2>4 DEF Reach, CopiesStayInside
<1> QED  BY <1>1, <1>2

\* No other step copies anything.
LEMMA ReachHolds == Spec => []Reach
<1>1. Init => Reach
  BY DEF Init, Reach, CopiesStayInside
<1>2. Reach /\ [Next]_vars => Reach'
  <2> SUFFICES ASSUME Reach, [Next]_vars PROVE Reach'
    OBVIOUS
  <2>1. CASE put \/ putPartial
    BY <2>1, PutReach
  <2>2. CASE ~(put \/ putPartial)
    <3>1. overrun' = overrun
      BY <2>2 DEF Next, vars, set_TLBundleParams, get, ManagerWrites,
                  ManagerReads, TakeResponse
    <3> QED  BY <3>1, Zenon DEF Reach, CopiesStayInside
  <2> QED  BY <2>1, <2>2
<1> QED  BY <1>1, <1>2, PTL DEF Spec

\* CopiesStayInside, whatever masks the callers pass: the copy of a put stays
\* in the message's array, except below a beat, with a mask that lacks its
\* first byte, on a bus for which the array has not room for a beat and a half
\* less one byte (tilelinklib.hpp:237; with data[32], a 256-bit bus).
THEOREM CopiesInBounds == Spec => []CopiesStayInside
<1>1. Reach => CopiesStayInside
  BY DEF Reach
<1> QED  BY <1>1, ReachHolds, PTL

\* TypeOK with any masks, sparse ones included, for as long as the program's
\* behaviour is defined: every mask stays within its beat, memory and the
\* message's array hold bytes, and CopiesStayInside says which puts would end
\* that by writing past the array.
THEOREM MessagesTyped == Spec => [](TypeOK /\ CopiesStayInside)
<1>1. Init => Shape
  BY InitHolds DEF IInv, Shape
<1>2. Shape /\ [Next]_vars => Shape'
  BY PutKeepsShape, PutPartialKeepsShape, GetKeepsShape, WriteKeepsShape,
     RestKeepsShape DEF Next
<1>3. Shape /\ overrun \in BOOLEAN => TypeOK
  <2> SUFFICES ASSUME Shape, overrun \in BOOLEAN PROVE TypeOK
    OBVIOUS
  <2>1. p_set \in BOOLEAN
    BY Zenon DEF Shape, Typed
  <2>2. tl_a.mask \subseteq Lanes /\ tl_a.data \in [DataBytes -> Values]
    BY DEF Shape, Typed, Messages
  <2>3. mem \in [0 .. MemBytes - 1 -> Values] /\ (a = None \/ a = tl_a)
    BY DEF Shape, Typed, Memories, Carried
  <2> QED  BY <2>1, <2>2, <2>3, Zenon DEF TypeOK
<1>4. Spec => []Shape
  BY <1>1, <1>2, PTL DEF Spec
<1>5. Shape /\ Reach => TypeOK /\ CopiesStayInside
  BY <1>3, Zenon DEF Reach
<1> QED  BY <1>4, <1>5, ReachHolds, PTL

-----------------------------------------------------------------------------
\* The invariant of every run in which no sub-beat mask leaves out its first
\* byte: what tilelinklib.hpp's callers do.
THEOREM LanesInvariant == ASSUME SparseMasks = FALSE PROVE Spec => []IInv
<1>1. Init => IInv
  BY InitHolds
<1>2. IInv /\ [Next]_vars => IInv'
  BY PutStep, PutPartialStep, GetStep, WritesStep, ReadsStep, OtherStep DEF Next
<1> QED  BY <1>1, <1>2, PTL DEF Spec

\* BytesLand: put() and putPartial() place every byte in its own lane, on a
\* bus of any width and for any aligned address (tilelinklib.hpp:209-211).
THEOREM BytesAlwaysLand == ASSUME SparseMasks = FALSE PROVE Spec => []BytesLand
<1>1. IInv => BytesLand
  BY DEF IInv, Pending, BytesLand
<1> QED  BY <1>1, LanesInvariant, PTL

\* GetMaskSelects: the mask of a Get picks its bytes out of the whole beat
\* that accessAckData() returns.
THEOREM MaskAlwaysSelects ==
  ASSUME SparseMasks = FALSE PROVE Spec => []GetMaskSelects
<1>1. IInv => GetMaskSelects
  <2> SUFFICES ASSUME IInv, tl_d.opcode = "AccessAckData"
               PROVE  /\ {BeatBase(tl_a.address) + l : l \in tl_a.mask}
                            = tl_a.address .. tl_a.address + tl_a.size - 1
                      /\ \A l \in tl_a.mask :
                           tl_d.data[l] = ref[BeatBase(tl_a.address) + l]
    BY DEF GetMaskSelects
  <2>1. tl_a.opcode = "Get" /\ tl_a \in Messages
        /\ tl_d.data = [l \in Lanes |-> mem[BeatBase(tl_a.address) + l]]
    BY DEF IInv, Answered, Typed
  <2>2. mem = ref
    BY <2>1 DEF IInv, Pending
  <2>3. PICK size \in Sizes, addr \in Nat :
          /\ size = tl_a.size /\ addr = tl_a.address /\ addr % size = 0
          /\ tl_a.mask = AlignMask(size, addr)
    BY <2>1 DEF IInv, GetBuilt, Messages
  <2>4. PICK o \in Nat : /\ o = addr % BeatBytes /\ BeatBase(addr) \in Int
                         /\ BeatBase(addr) + o = addr
    BY <2>3, SlotFacts
  <2>5. AlignMask(size, addr) = o .. o + size - 1
        /\ AlignMask(size, addr) \subseteq Lanes
    BY <2>3, <2>4, AlignMaskFacts
  <2>6. size \in Nat
    BY SizeFacts
  <2>7. {BeatBase(addr) + l : l \in o .. o + size - 1} = addr .. addr + size - 1
    <3>1. PICK base \in Int : base = BeatBase(addr) /\ base + o = addr
      BY <2>4
    <3>2. ASSUME NEW x \in addr .. addr + size - 1
          PROVE  x \in {base + l : l \in o .. o + size - 1}
      <4>1. x - base \in o .. o + size - 1 /\ x = base + (x - base)
        BY <2>6, <3>1
      <4> QED  BY <4>1
    <3>3. ASSUME NEW l \in o .. o + size - 1
          PROVE  base + l \in addr .. addr + size - 1
      BY <2>6, <3>1
    <3> QED  BY <3>1, <3>2, <3>3
  <2> QED  BY <2>1, <2>2, <2>3, <2>5, <2>7
<1> QED  BY <1>1, LanesInvariant, PTL
=============================================================================
