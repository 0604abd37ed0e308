-------------------------------- MODULE Fifo --------------------------------
(***************************************************************************)
(* What the two ends of a TileLink channel are promised: a bounded FIFO.   *)
(* ClientTLMemIfc and ExampleClients assume it of their channels;          *)
(* AdapterChannel shows that a Switchboard queue joined to the adapter's   *)
(* buffer provides it.                                                     *)
(***************************************************************************)
EXTENDS Naturals, Sequences

CONSTANTS Item, Capacity

VARIABLE items

Init == items = <<>>

Put(x) == Len(items) < Capacity /\ items' = Append(items, x)

Take == items # <<>> /\ items' = Tail(items)

Next == (\E x \in Item : Put(x)) \/ Take

Spec == Init /\ [][Next]_items

\* The receiver keeps receiving: nothing stays in the channel.
FairSpec == Spec /\ WF_items(Take)
=============================================================================
