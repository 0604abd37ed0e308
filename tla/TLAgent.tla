------------------------------ MODULE TLAgent ------------------------------
(***************************************************************************)
(* The message builders of TLAgent (sb_sim/include/tilelinklib.hpp): where *)
(* the bytes a caller passes end up in a beat.  A testbench reuses one     *)
(* TLMessageA, fills it with put(), putPartial() or get(), and sends it    *)
(* through ClientTLAgent; a TileLink manager writes the enabled lanes to   *)
(* its memory and answers with accessAck(), or a Get with accessAckData(). *)
(*                                                                         *)
(* Every transfer is one beat or less; ClientTLMemIfc models bursts.  A    *)
(* mask is the set of its lanes, and size stands for 1 << lgSize.          *)
(***************************************************************************)
EXTENDS Integers, FiniteSetsExt

CONSTANTS
  BeatBytes,    \* data_bit_width / 8
  DataLen,      \* bytes of the data array of a message (32 in the code)
  MemBytes,     \* bytes of the manager's memory
  FirstByte,    \* the testbench writes from here to the end of the memory
  Values,       \* what a byte can hold
  SparseMasks   \* whether callers pass sub-beat masks without their first byte

ASSUME AgentAssumption ==
  /\ BeatBytes \in {1, 2, 4, 8, 16, 32}
  /\ MemBytes \in Nat \ {0} /\ MemBytes % BeatBytes = 0
  /\ FirstByte \in 0 .. MemBytes - 1
  /\ DataLen \in BeatBytes .. 32
  /\ Values # {}
  /\ SparseMasks \in BOOLEAN

VARIABLES
  p_set,  \* set_TLBundleParams has been called
  tl_a,   \* the message the caller reuses
  tl_d,   \* the last response received
  a,      \* the packet on its way, or none
  mem,    \* the manager's memory
  ref,    \* what the caller has asked memory to hold
  overrun \* a builder has written past the end of its message's data array

vars == <<p_set, tl_a, tl_d, a, mem, ref, overrun>>

Lanes == 0 .. BeatBytes - 1
DataBytes == 0 .. DataLen - 1        \* uint8_t data[32]
Sizes == {s \in {1, 2, 4, 8, 16, 32} : s <= BeatBytes}
Payloads(size) == [0 .. size - 1 -> Values]
None == [opcode |-> "none"]

-----------------------------------------------------------------------------
\* memcpy(&msg.data[i], data, n): what it leaves in the array, and whether it
\* goes on past the end, over what follows the message (see overrun).
Copied(old, i, data, n) ==
  [l \in DataBytes |-> IF l \in i .. i + n - 1 THEN data[l - i] ELSE old[l]]
LeavesArray(i, n) == i + n > DataLen

first_bit_set_u32(mask) == Min(mask)

UnshiftedMask(mask, size, byteAddress) == mask    \* fault: lane 0 always
SlotOfAddress(mask, size, byteAddress) ==         \* fault: offset not masked
  {byteAddress + k : k \in mask}

\* alignMask: shift a mask to the slot of its transfer within the beat.
ShiftedMask(mask, size, byteAddress) ==
  LET offset == byteAddress % BeatBytes
      slotId == offset \div size
  IN  {slotId * size + k : k \in mask}

AlignMask(size, byteAddress) ==
  IF size >= BeatBytes THEN Lanes
  ELSE ShiftedMask(0 .. size - 1, size, byteAddress)

FullPutAtLaneZero(msg, addr, size, data) ==       \* fault: bytes not shifted
  [msg EXCEPT !.opcode = "PutFullData", !.address = addr, !.size = size,
              !.mask = AlignMask(size, addr),
              !.data = Copied(msg.data, 0, data, size)]

\* The lane that put() copies to.
PutLane(size, addr) ==
  IF size < BeatBytes THEN first_bit_set_u32(AlignMask(size, addr)) ELSE 0

FullPut(msg, addr, size, data) ==
  [msg EXCEPT !.opcode = "PutFullData", !.address = addr, !.size = size,
              !.mask = AlignMask(size, addr),
              !.data = Copied(msg.data, PutLane(size, addr), data, size)]

\* The lanes that putPartial() enables and the one it copies to.  Below a beat
\* that is the lowest ENABLED lane: the transfer's first only if mask has 0.
PartialLanes(size, addr, mask) ==
  IF size >= BeatBytes THEN mask ELSE ShiftedMask(mask, size, addr)
PartialLane(size, addr, mask) ==
  IF size >= BeatBytes THEN 0
  ELSE first_bit_set_u32(PartialLanes(size, addr, mask))

\* Nothing is copied for an empty mask.
PartialPut(msg, addr, size, mask, data) ==
  [msg EXCEPT
     !.opcode = "PutPartialData", !.address = addr, !.size = size,
     !.mask = IF mask = {} THEN {} ELSE PartialLanes(size, addr, mask),
     !.data = IF mask = {} THEN @
              ELSE Copied(@, PartialLane(size, addr, mask), data, size)]

GetOf(msg, addr, size) ==
  [msg EXCEPT !.opcode = "Get", !.address = addr, !.size = size,
              !.mask = AlignMask(size, addr)]

\* accessAckData: the whole beat, whatever part of it was asked for.
AccessAckData(beat) ==
  [opcode |-> "AccessAckData", data |-> beat]

AccessAck == [opcode |-> "AccessAck"]

-----------------------------------------------------------------------------
\* TLMessageA tl_a; is not initialised.
Init ==
  /\ p_set = FALSE
  /\ \E v \in Values :
       tl_a = [opcode |-> "none", address |-> 0, size |-> 1, mask |-> {},
               data |-> [l \in DataBytes |-> v]]
  /\ tl_d = None
  /\ a = None
  /\ \E v \in Values : mem = [x \in 0 .. MemBytes - 1 |-> v]
  /\ ref = mem
  /\ overrun = FALSE

Addresses(size) == {x \in FirstByte .. MemBytes - 1 : x % size = 0}

\* Every builder asserts p_set; a second call of it fails its own assert.
set_TLBundleParams ==
  /\ ~p_set
  /\ p_set' = TRUE
  /\ UNCHANGED <<tl_a, tl_d, a, mem, ref, overrun>>

\* The caller builds a message and send_a copies it into a packet.
Send(msg) ==
  /\ p_set /\ a = None /\ tl_d = None
  /\ tl_a' = msg /\ a' = msg

put ==
  /\ \E size \in Sizes : \E addr \in Addresses(size), data \in Payloads(size) :
       /\ Send(FullPut(tl_a, addr, size, data))
       /\ ref' = [x \in DOMAIN ref |->
                    IF x \in addr .. addr + size - 1 THEN data[x - addr]
                                                     ELSE ref[x]]
       /\ overrun' = LeavesArray(PutLane(size, addr), size)
  /\ UNCHANGED <<p_set, tl_d, mem>>

putPartial ==
  /\ \E size \in Sizes :
       \E addr \in Addresses(size), data \in Payloads(size),
          mask \in SUBSET (0 .. size - 1) :
         /\ SparseMasks \/ size = BeatBytes \/ mask = {} \/ 0 \in mask
         /\ Send(PartialPut(tl_a, addr, size, mask, data))
         /\ ref' = [x \in DOMAIN ref |->
                      IF x - addr \in mask THEN data[x - addr] ELSE ref[x]]
         /\ overrun' = /\ mask # {}
                       /\ LeavesArray(PartialLane(size, addr, mask), size)
  /\ UNCHANGED <<p_set, tl_d, mem>>

get ==
  /\ \E size \in Sizes : \E addr \in Addresses(size) :
       Send(GetOf(tl_a, addr, size))
  /\ UNCHANGED <<p_set, tl_d, mem, ref, overrun>>

\* The manager: lane l of a beat is byte l of the aligned beat in memory.
BeatBase(address) == address - (address % BeatBytes)
Base == BeatBase(a.address)

ManagerWrites ==
  /\ a.opcode \in {"PutFullData", "PutPartialData"}
  /\ mem' = [x \in DOMAIN mem |->
               IF x - Base \in a.mask THEN a.data[x - Base] ELSE mem[x]]
  /\ tl_d' = AccessAck
  /\ a' = None
  /\ UNCHANGED <<p_set, tl_a, ref, overrun>>

ManagerReads ==
  /\ a.opcode = "Get"
  /\ tl_d' = AccessAckData([l \in Lanes |-> mem[Base + l]])
  /\ a' = None
  /\ UNCHANGED <<p_set, tl_a, mem, ref, overrun>>

\* The caller is done with the response it has received.
TakeResponse ==
  /\ tl_d # None
  /\ tl_d' = None
  /\ UNCHANGED <<p_set, tl_a, a, mem, ref, overrun>>

\* What a program does after it has written past an array is undefined: the
\* model stops there.
Next ==
  /\ ~overrun
  /\ \/ set_TLBundleParams \/ put \/ putPartial \/ get
     \/ ManagerWrites \/ ManagerReads \/ TakeResponse

Spec == Init /\ [][Next]_vars

-----------------------------------------------------------------------------
TypeOK ==
  /\ p_set \in BOOLEAN /\ overrun \in BOOLEAN
  /\ tl_a.mask \subseteq Lanes
  /\ tl_a.data \in [DataBytes -> Values]
  /\ mem \in [0 .. MemBytes - 1 -> Values]
  /\ a = None \/ a = tl_a

(***************************************************************************)
(* tilelinklib.hpp:209-211 and :258-260: the caller's data starts at its   *)
(* data[0] and is shifted to the right byte lanes.  Once a put has been    *)
(* served, memory holds exactly the bytes that all puts so far asked for:  *)
(* none lands in another lane, none is left over from the message's        *)
(* earlier uses, none outside the mask changes.                            *)
(***************************************************************************)
BytesLand == a = None => mem = ref

(***************************************************************************)
(* The mask of a Get selects, in the beat that comes back, the bytes that  *)
(* were asked for (what accessAckData's note asks its receiver to do).     *)
(***************************************************************************)
GetMaskSelects ==
  tl_d.opcode = "AccessAckData" =>
    /\ {BeatBase(tl_a.address) + l : l \in tl_a.mask}
         = tl_a.address .. tl_a.address + tl_a.size - 1
    /\ \A l \in tl_a.mask :
         tl_d.data[l] = ref[BeatBase(tl_a.address) + l]

(***************************************************************************)
(* The memcpy of a sub-beat transfer (tilelinklib.hpp:237, :270) stays in  *)
(* uint8_t data[32] as long as every mask has its first byte, and with any *)
(* mask if the array has room for a beat and a half less one byte: it can  *)
(* only be left on a 256-bit bus, by a mask without its first byte.        *)
(***************************************************************************)
CopiesStayInside ==
  overrun => SparseMasks /\ DataLen < BeatBytes + (BeatBytes \div 2) - 1

(***************************************************************************)
(* tilelinklib.hpp:209-211: putPartial() "shifts the bytes to the correct  *)
(* byte-lane in msg.data".  A put on its way carries in every enabled lane *)
(* the byte that the caller gave for it, and building it has written       *)
(* nothing outside msg.data.                                               *)
(***************************************************************************)
PayloadPlaced ==
  a.opcode \in {"PutFullData", "PutPartialData"} =>
    /\ ~overrun
    /\ \A l \in a.mask : a.data[l] = ref[Base + l]

=============================================================================
