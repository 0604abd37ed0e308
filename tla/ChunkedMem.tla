----------------------------- MODULE ChunkedMem -----------------------------
(***************************************************************************)
(* What a caller of ClientTLMemIfc may rely on, whatever the bus does:     *)
(* read_chunk and write_chunk act on the memory at one instant between     *)
(* call and return, and clear_chunk zeroes its range block by block, in    *)
(* address order, each block at one instant.  Memory is counted in beats.  *)
(***************************************************************************)
EXTENDS Naturals

CONSTANTS Threads, MemBeats, MaxBeats, Data, Zero, Buffers

VARIABLES
  amem,   \* the memory
  req     \* the call each thread is in

avars == <<amem, req>>

Idle == [kind |-> "idle"]
Done == [kind |-> "done"]
Answer(bytes) == [kind |-> "answer", bytes |-> bytes]

Slice(m, first, n) == [k \in 0 .. n - 1 |-> m[first + k]]

Overwrite(m, first, n, src) ==
  [k \in DOMAIN m |-> IF k \in first .. first + n - 1 THEN src[k - first]
                                                      ELSE m[k]]

Reading(first, n) == [kind |-> "read", first |-> first, n |-> n]
Writing(first, n, src) ==
  [kind |-> "write", first |-> first, n |-> n, src |-> src]
\* A clear with nothing left to zero is ready to return.
Clearing(first, n) ==
  IF n = 0 THEN Done ELSE [kind |-> "clear", first |-> first, n |-> n]

Init ==
  /\ amem \in [0 .. MemBeats - 1 -> Data]
  /\ req = [t \in Threads |-> Idle]

Becomes(t, r) == req' = [req EXCEPT ![t] = r]

Invoke(t) ==
  /\ req[t] = Idle
  /\ \E first, n \in 0 .. MemBeats :
       /\ first + n <= MemBeats
       /\ \/ n \in 1 .. MaxBeats /\ Becomes(t, Reading(first, n))
          \/ /\ n \in 1 .. MaxBeats
             /\ \E src \in Buffers : Becomes(t, Writing(first, n, src))
          \/ Becomes(t, Clearing(first, n))
  /\ UNCHANGED amem

Read(t) ==
  /\ req[t].kind = "read"
  /\ Becomes(t, Answer(Slice(amem, req[t].first, req[t].n)))
  /\ UNCHANGED amem

Write(t) ==
  /\ req[t].kind = "write"
  /\ amem' = Overwrite(amem, req[t].first, req[t].n, req[t].src)
  /\ Becomes(t, Done)

ClearBlock(t) ==
  /\ req[t].kind = "clear"
  /\ \E n \in 1 .. MaxBeats :
       /\ n <= req[t].n
       /\ amem' = Overwrite(amem, req[t].first, n, [k \in 0 .. n - 1 |-> Zero])
       /\ Becomes(t, Clearing(req[t].first + n, req[t].n - n))

Return(t) == req[t].kind \in {"done", "answer"} /\ Becomes(t, Idle) /\ UNCHANGED amem

Next == \E t \in Threads :
  Invoke(t) \/ Read(t) \/ Write(t) \/ ClearBlock(t) \/ Return(t)

Spec == Init /\ [][Next]_avars

=============================================================================
