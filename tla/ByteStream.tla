----------------------------- MODULE ByteStream -----------------------------
(***************************************************************************)
(* What SequentialBufferT promises its single writer and single reader: a *)
(* bounded FIFO of bytes.  A write appends all of its bytes or none; a     *)
(* read hands over a prefix of the stored bytes, in order.  A byte is      *)
(* named by its position in the stream, so out is 1, 2, 3, ... exactly    *)
(* when nothing was lost, duplicated or reordered.                         *)
(***************************************************************************)
EXTENDS Naturals, Sequences

CONSTANT Cap    \* the buffer's size in bytes

VARIABLES
  q,     \* bytes stored and not yet read
  out    \* bytes handed to the reader and committed, in order

Init == q = <<>> /\ out = <<>>

\* All n bytes are appended, numbered after everything written before.
Write(n) ==
  /\ n >= 1
  /\ Len(q) + n <= Cap
  /\ q' = q \o [i \in 1..n |-> Len(out) + Len(q) + i]
  /\ UNCHANGED out

\* The reader takes the first k stored bytes.
Read(k) ==
  /\ 1 <= k /\ k <= Len(q)
  /\ out' = out \o SubSeq(q, 1, k)
  /\ q' = SubSeq(q, k + 1, Len(q))

Next == \E n \in 1..Cap : Write(n) \/ Read(n)

Spec == Init /\ [][Next]_<<q, out>>

====
