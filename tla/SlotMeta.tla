------------------------------ MODULE SlotMeta ------------------------------
(***************************************************************************)
(* The recovery choice of SlotFS (most_recent_meta_data_block in          *)
(* src/lib_slotfs/slotfs.cpp): which of a slot's two metadata copies is    *)
(* authoritative, given their 8-bit revisions and whether each passed its  *)
(* CRC check.                                                              *)
(***************************************************************************)
EXTENDS Integers

\* Mutant: the difference of the revisions taken without abs().
DistNoAbs(a, b) == a - b

\* abs(md_a.revision - md_b.revision), the revisions promoted to int.
Dist(a, b) == IF a > b THEN a - b ELSE b - a

\* Index of the copy to trust (0 = A, 1 = B), -1 for CorruptData.  A gap
\* larger than 1 is read as a wrap of the counter: the smaller revision
\* is then the more recent one.
MostRecent(ma, va, mb, vb) ==
  CASE va /\ vb /\ Dist(ma.rev, mb.rev) > 1 -> IF ma.rev < mb.rev THEN 0 ELSE 1
    [] va /\ vb -> IF ma.rev < mb.rev THEN 1 ELSE 0
    [] va -> 0
    [] vb -> 1
    [] OTHER -> -1

\* Reference order: serial-number arithmetic on 8 bits (RFC 1982), under
\* which y is later than x when (y - x) mod 256 lies in 1..127.
SerialLater(x, y) == (y - x) % 256 \in 1..127
=============================================================================
