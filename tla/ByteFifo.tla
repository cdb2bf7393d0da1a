------------------------------ MODULE ByteFifo ------------------------------
(***************************************************************************)
(* What a byte ring promises its users: a bounded first-in first-out queue *)
(* of bytes.  Bytes enter at the end only, leave at the front only, are    *)
(* never reordered, invented or duplicated, and a call that takes bytes    *)
(* out hands the caller the first of those it takes.                       *)
(***************************************************************************)
EXTENDS Integers, Sequences

CONSTANTS Cap,     \* the most bytes the queue holds
          Byte     \* the bytes

VARIABLES queue,   \* the bytes held, oldest first
          got      \* the bytes the last call handed to its caller

vars == <<queue, got>>

Chunk == UNION {[1..n -> Byte] : n \in 0..Cap}

Init == queue = <<>> /\ got = <<>>

Enqueue(s) ==
  /\ Len(queue) + Len(s) <= Cap
  /\ queue' = queue \o s
  /\ got' = <<>>

\* n bytes leave the queue, the first k of them reach the caller.
Dequeue(n, k) ==
  /\ k <= n
  /\ n <= Len(queue)
  /\ queue' = SubSeq(queue, n + 1, Len(queue))
  /\ got' = SubSeq(queue, 1, k)

Clear == queue' = <<>> /\ got' = <<>>

Next ==
  \/ \E s \in Chunk : Enqueue(s)
  \/ \E n, k \in 0..Cap : Dequeue(n, k)
  \/ Clear

Spec == Init /\ [][Next]_vars
=============================================================================
