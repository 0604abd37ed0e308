----------------------------- MODULE WireFormat -----------------------------
(***************************************************************************)
(* How a TileLink message travels in a 416-bit Switchboard packet.  The    *)
(* host copies a packed C struct into the packet (tilelinklib.h); the RTL  *)
(* adapter cuts the packet into fields (unpack) or concatenates fields     *)
(* into one (pack), and fits them to the port (Bundles.scala).             *)
(*                                                                         *)
(* The value of a field is a number; a layout says which bits hold it.  A  *)
(* packet remembers the layout it was written with, and a field that is    *)
(* looked up at other bits is Garbled.                                     *)
(***************************************************************************)
EXTENDS Integers, Sequences

CONSTANTS
  PortWidth,   \* bits of each field at the diplomatic TileLink port
  Garbled      \* what is read from bits that do not hold the field

Kinds == {"A", "D"}

Fields == [A |-> {"opcode", "param", "size", "corrupt", "source", "address",
                  "mask", "data"},
           D |-> {"opcode", "param", "size", "corrupt", "source", "sink",
                  "denied", "data"}]

\* validateAChannel, validateDChannel: no port field exceeds its wire field.
WireWidth == [opcode |-> 3, param |-> 3, size |-> 4, corrupt |-> 1,
              source |-> 32, address |-> 64, mask |-> 32, data |-> 256,
              sink |-> 32, denied |-> 1]

ASSUME WireAssumption ==
  /\ \A f \in DOMAIN WireWidth :
       PortWidth[f] \in Nat /\ PortWidth[f] <= WireWidth[f]
  /\ Garbled \notin Nat

\* The members of the packed structs, in order, with their bits.
Struct ==
  [A |-> << <<"opcode", 8>>, <<"param", 8>>, <<"size", 8>>, <<"corrupt", 8>>,
            <<"source", 32>>, <<"address", 64>>, <<"mask", 32>>,
            <<"data", 256>> >>,
   D |-> << <<"opcode", 8>>, <<"param", 8>>, <<"size", 8>>, <<"corrupt", 8>>,
            <<"source", 32>>, <<"sink", 32>>, <<"denied", 8>>,
            <<"data", 256>>, <<"reserved", 56>> >>]

\* The operands of pack's Cat, from the least significant up.
DeclaredOrder ==               \* fault: mask and corrupt as the class has them
  [Struct EXCEPT !.A =
     << <<"opcode", 8>>, <<"param", 8>>, <<"size", 8>>, <<"source", 32>>,
        <<"address", 64>>, <<"mask", 32>>, <<"corrupt", 8>>,
        <<"data", 256>> >>]

Concatenation ==
  [A |-> << <<"opcode", 8>>, <<"param", 8>>, <<"size", 8>>, <<"corrupt", 8>>,
            <<"source", 32>>, <<"address", 64>>, <<"mask", 32>>,
            <<"data", 256>> >>,
   D |-> << <<"opcode", 8>>, <<"param", 8>>, <<"size", 8>>, <<"corrupt", 8>>,
            <<"source", 32>>, <<"sink", 32>>, <<"denied", 8>>,
            <<"data", 256>> >>]

\* Where the fields start when they follow each other.
Starts(fields) ==
  LET lo[i \in 1 .. Len(fields)] ==
        IF i = 1 THEN 0 ELSE lo[i - 1] + fields[i - 1][2]
  IN  lo

\* The bits <<hi, lo>> of each field then.
Placed(fields) ==
  [f \in {fields[i][1] : i \in 1 .. Len(fields)} |->
     LET i == CHOOSE k \in 1 .. Len(fields) : fields[k][1] = f
     IN  <<Starts(fields)[i] + fields[i][2] - 1, Starts(fields)[i]>>]

\* The bit ranges unpack cuts out.
BitsOfA ==
  [opcode |-> <<7, 0>>, param |-> <<15, 8>>, size |-> <<23, 16>>,
   corrupt |-> <<31, 24>>, source |-> <<63, 32>>, address |-> <<127, 64>>,
   mask |-> <<159, 128>>, data |-> <<415, 160>>]

BitsOfD ==
  [opcode |-> <<7, 0>>, param |-> <<15, 8>>, size |-> <<23, 16>>,
   corrupt |-> <<31, 24>>, source |-> <<63, 32>>, sink |-> <<95, 64>>,
   denied |-> <<103, 96>>, data |-> <<359, 104>>]

UnpackBits == [A |-> BitsOfA, D |-> BitsOfD]

StructBits == [k \in Kinds |-> Placed(Struct[k])]
PackBits == [k \in Kinds |-> Placed(Concatenation[k])]

Encode(bits, msg) == [bits |-> bits, msg |-> msg]

Decode(bits, packet) ==
  [f \in DOMAIN packet.msg |->
     IF bits[f] = packet.bits[f] THEN packet.msg[f] ELSE Garbled]

\* toTLA/toTLD and the connection to the port keep the low bits of a field.
Narrow(msg) ==
  [f \in DOMAIN msg |->
     IF msg[f] = Garbled THEN Garbled ELSE msg[f] % 2^PortWidth[f]]

(***************************************************************************)
(* The C structs, pack and unpack put every field at the same bits, though *)
(* neither the field order of the Chisel classes nor a compiler relates    *)
(* them (tilelinklib.h:89-124, Bundles.scala:46-65 and :107-126).          *)
(***************************************************************************)
LayoutsAgree ==
  \A k \in Kinds : \A f \in Fields[k] :
    StructBits[k][f] = UnpackBits[k][f] /\ PackBits[k][f] = StructBits[k][f]
=============================================================================
