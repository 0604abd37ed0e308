-------------------------- MODULE MCAdapterChannel --------------------------
(***************************************************************************)
(* An instance of AdapterChannel with the port of TLLoopback (idBits = 4,  *)
(* 16-bit addresses), mask and data scaled down, and messages some of      *)
(* whose fields are too wide for it.                                       *)
(***************************************************************************)
EXTENDS AdapterChannel

LoopbackWidth ==
  [WireWidth EXCEPT !.source = 4, !.address = 16, !.mask = 1, !.data = 8,
                    !.sink = 1, !.size = 3]

Message(k, source, data) ==
  [f \in Fields[k] |-> CASE f = "source" -> source
                         [] f = "data" -> data
                         [] f = "address" -> 65536 + source
                         [] OTHER -> 1]

SomeMessages ==
  [k \in Kinds |-> {Message(k, 1, 0), Message(k, 17, 1), Message(k, 2, 255)}]
=============================================================================
