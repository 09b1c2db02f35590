------------------------------ MODULE MCSlotFS ------------------------------
(* SlotFS instantiated for TLC: the constants are given in the .cfg files. *)
EXTENDS SlotFS

\* The handles are interchangeable File objects.
HandleSym == Permutations(Handles)

\* most_recent_meta_data_block (slotfs.cpp:146-166) checked against serial-
\* number order for every pair of revisions sfs_file_flush leaves on the two
\* copies when every metadata write succeeds: r and r+1 (mod 256), in either
\* copy, the wrap from 255 to 0 included.  Recovery picks the later one.
\* TLC evaluates this assumption before every run of this module.
ASSUME
  \A r \in 0..255 :
    LET s == (r + 1) % 256
        Rev(x) == [rev |-> x]
    IN /\ SerialLater(r, s)
       /\ MostRecent(Rev(r), TRUE, Rev(s), TRUE) = 1
       /\ MostRecent(Rev(s), TRUE, Rev(r), TRUE) = 0
=============================================================================
