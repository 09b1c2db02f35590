---------------------------- MODULE MessageFrame ----------------------------
(***************************************************************************)
(* The frame message format (lib_message/message_frame.h): a 4-byte       *)
(* header (message_size, feature_mask) followed by the present feature     *)
(* structs in feature-id order.  FrameMessageBuilder copies each added     *)
(* struct to its fixed offset (FrameMessageOffset) in a 512-byte buffer,   *)
(* and finish compacts the buffer by moving everything after an absent     *)
(* feature left by its size, then writes the header.                       *)
(* get_frame_message_data walks the features of a received buffer.         *)
(*                                                                         *)
(* A feature is its index i in all_feature_ids (feature_id = 1 << i); the  *)
(* mask is the set of indexes whose bit is set.  A data byte is <<i, k>>,  *)
(* the k-th byte of feature i's struct; Zero is a zeroed byte.  The        *)
(* header's two uint16 fields are written as SizeByte(v) and MaskByte(b)   *)
(* over their two bytes each, b being the mask as an integer.              *)
(***************************************************************************)
EXTENDS Naturals, FiniteSetsExt

CONSTANTS
  BufSize,     \* sizeof(m_buffer): 512
  AddTwice,    \* whether a caller may add a struct already added
  MaxAdds      \* bound on add calls between two clears

ASSUME BufSize \in Nat /\ AddTwice \in BOOLEAN /\ MaxAdds \in Nat

VARIABLES
  mask,       \* m_feature_mask
  size,       \* m_size
  finished,   \* m_finished
  buf,        \* m_buffer
  adds,       \* add calls since the last clear
  ret         \* the last call's return value

vars == <<mask, size, finished, buf, adds, ret>>

Feature == 0..8

\* sizeof(FrameMessageHeader)
HeaderSize == 4

\* all_feature_sizes(): SensorMetaData, TimestampData, LowNoiseImuData,
\* HighRangeImuData, ExtremeRangeAccData, BarometerData, MagnetometerData,
\* FusionData, BatteryData.
FeatureSize(i) == <<8, 8, 24, 24, 12, 8, 12, 16, 4>>[i + 1]

\* Mutant: each offset adds the struct's own size instead of its
\* predecessor's.
RECURSIVE OffsetOwnSize(_)
OffsetOwnSize(i) ==
  IF i = 0 THEN HeaderSize ELSE FeatureSize(i) + OffsetOwnSize(i - 1)

\* FrameMessageOffset<T>::value: the header size for SensorMetaData, and the
\* predecessor's size plus its offset for every later struct.
RECURSIVE Offset(_)
Offset(i) ==
  IF i = 0 THEN HeaderSize ELSE FeatureSize(i - 1) + Offset(i - 1)

Zero == <<9, 0>>
SizeByte(v) == <<10, v>>
MaskByte(b) == <<11, b>>

\* Mutant: the feature ids start at bit 1.
MaskBitsFromOne(m) == MapThenSumSet(LAMBDA i : 2^(i + 1), m)

\* The uint16 feature_mask of a set of feature indexes: bit i for feature i.
MaskBits(m) == MapThenSumSet(LAMBDA i : 2^i, m)

\* hdr->feature_mask & features[i]
HasBit(b, i) == (b \div 2^i) % 2 = 1

IsByte(x) ==
  \/ x = Zero
  \/ x \in Feature \X (0..23)
  \/ x \in {SizeByte(0)[1]} \X (0..65535)
  \/ x \in {MaskByte(0)[1]} \X (0..511)

\* The constructor and clear(): no features, m_size = sizeof(header), the
\* buffer zeroed, not finished.
Init ==
  /\ mask = {} /\ size = HeaderSize /\ finished = FALSE
  /\ buf = [j \in 0..BufSize-1 |-> Zero]
  /\ adds = 0 /\ ret = 0

-----------------------------------------------------------------------------
(* The builder *)

\* add<T>: refused with -1 once finished; otherwise the bit is set, the
\* struct copied to its offset and sizeof(T) added to m_size.
Add(i) ==
  /\ adds < MaxAdds
  /\ AddTwice \/ i \notin mask
  /\ adds' = adds + 1
  /\ IF finished
       THEN /\ ret' = -1
            /\ UNCHANGED <<mask, size, finished, buf>>
       ELSE /\ mask' = mask \cup {i}
            /\ LET o == Offset(i) IN
               buf' = [j \in DOMAIN buf |->
                        IF o <= j /\ j < o + FeatureSize(i) THEN <<i, j - o>> ELSE buf[j]]
            /\ size' = size + FeatureSize(i)
            /\ ret' = 0
            /\ UNCHANGED finished

\* memmove(dst, from, n) within the buffer.
MemMove(b, dst, from, n) ==
  [j \in DOMAIN b |-> IF dst <= j /\ j < dst + n THEN b[from + (j - dst)] ELSE b[j]]

\* Mutant: an absent struct is skipped over instead of closed up.
RECURSIVE CompactSkipAbsent(_, _, _, _)
CompactSkipAbsent(b, m, i, src) ==
  IF i = 9 THEN b
  ELSE CompactSkipAbsent(b, m, i + 1, src + FeatureSize(i))

\* finish's loop: src_buffer_ptr passes over a present struct; for an absent
\* one the rest of the buffer, from the struct's end to the buffer's end, is
\* moved left onto it.
RECURSIVE Compact(_, _, _, _)
Compact(b, m, i, src) ==
  IF i = 9 THEN b
  ELSE IF i \in m THEN Compact(b, m, i + 1, src + FeatureSize(i))
  ELSE Compact(MemMove(b, src, src + FeatureSize(i), BufSize - (src + FeatureSize(i))),
               m, i + 1, src)

\* finish: returns 0 at once when already finished; otherwise compacts,
\* sets m_finished and copies the header (message_size is uint16) to the
\* front of the buffer.
Finish ==
  /\ ret' = 0
  /\ IF finished
       THEN UNCHANGED <<mask, size, finished, buf, adds>>
       ELSE LET c == Compact(buf, mask, 0, HeaderSize)
                hsize == SizeByte(size % 65536)
                hmask == MaskByte(MaskBits(mask))
            IN /\ buf' = [c EXCEPT ![0] = hsize, ![1] = hsize,
                                   ![2] = hmask, ![3] = hmask]
               /\ finished' = TRUE
               /\ UNCHANGED <<mask, size, adds>>

Clear ==
  /\ mask' = {} /\ size' = HeaderSize /\ finished' = FALSE
  /\ buf' = [j \in 0..BufSize-1 |-> Zero]
  /\ adds' = 0 /\ ret' = 0

Next == (\E i \in Feature : Add(i)) \/ Finish \/ Clear

Spec == Init /\ [][Next]_vars

-----------------------------------------------------------------------------
(* The reader *)

\* get_frame_message_data<T> on buffer b of buffer_size bs for struct t:
\* before each feature it returns -1 if the pointer has reached the end;
\* a feature set in the header's mask is either t, copied out, or skipped.
\* The result records the bytes read and where the read ended.
RECURSIVE ParseFrom(_, _, _, _, _)
ParseFrom(b, bs, t, i, ptr) ==
  IF i = 9 \/ ptr >= bs THEN [found |-> FALSE]
  ELSE IF ~HasBit(b[2][2], i) THEN ParseFrom(b, bs, t, i + 1, ptr)
  ELSE IF i = t
    THEN [found |-> TRUE, end |-> ptr + FeatureSize(i),
          data |-> [k \in 0..FeatureSize(i)-1 |-> b[ptr + k]]]
  ELSE ParseFrom(b, bs, t, i + 1, ptr + FeatureSize(i))

Parse(b, bs, t) == ParseFrom(b, bs, t, 0, HeaderSize)

-----------------------------------------------------------------------------
(* Properties *)

TypeOK ==
  /\ mask \subseteq Feature /\ size \in Nat /\ finished \in BOOLEAN
  /\ DOMAIN buf = 0..BufSize-1 /\ \A j \in DOMAIN buf : IsByte(buf[j])
  /\ adds \in 0..MaxAdds /\ ret \in {0, -1}

\* Where a struct lies in a finished message: after the header and every
\* present struct with a smaller feature id, whatever order add was called
\* in.
RefOffset(m, i) ==
  HeaderSize + MapThenSumSet(FeatureSize, {j \in m : j < i})

\* A finished frame is the header followed by exactly the added structs,
\* each at its place in feature-id order and with its own bytes, and the
\* header's message_size is the header plus those structs: the compaction
\* in finish moves every struct to the right place for every set of added
\* features.
FinishedLayout ==
  finished =>
    /\ buf[0] = SizeByte(RefOffset(mask, 9))
    /\ buf[2] = MaskByte(MaskBits(mask))
    /\ \A i \in mask : \A k \in 0..FeatureSize(i)-1 :
         buf[RefOffset(mask, i) + k] = <<i, k>>

\* A receiver calling get_frame_message_data on a finished frame, with
\* buffer_size the builder's get_size(), gets back every added struct with
\* its bytes, finds no struct that was not added, and reads nothing past the
\* end of the frame.
RoundTrip ==
  finished =>
    \A t \in Feature :
      LET p == Parse(buf, size, t) IN
      /\ p.found = (t \in mask)
      /\ p.found => /\ p.data = [k \in 0..FeatureSize(t)-1 |-> <<t, k>>]
                    /\ p.end <= size

\* get_frame_message_data never reads past buffer_size, also when the
\* buffer it is given is shorter than the frame.
ParseInBounds ==
  finished =>
    \A bs \in HeaderSize..size, t \in Feature :
      Parse(buf, bs, t).found => Parse(buf, bs, t).end <= bs

====
