------------------------------ MODULE PacketSync ------------------------------
(***************************************************************************)
(* PacketSyncClosest (lib_util/sync_packets.h): one vector of packets per  *)
(* stream.  push() appends a packet unless it is older than the stream's   *)
(* last one; pop() takes the first packet of stream 1 and, from every      *)
(* other stream that has packets, the one closest in time to it           *)
(* (find_closest_packet), erasing the packets before that one.            *)
(*                                                                         *)
(* A packet is its timestamp.  The five template streams are Streams, the  *)
(* first being PacketT1's; the others are handled alike.  pop() writes     *)
(* through the caller's pointers, which keep their value across calls     *)
(* (out).                                                                  *)
(*                                                                         *)
(* find_closest_packet reads std::prev(lower_it) when lower_it is begin()  *)
(* and *lower_it when it is end(): both are reads outside the vector, and  *)
(* the comparison with what they read can go either way.  Picking the     *)
(* element before begin() copies a packet that is not in the stream;      *)
(* picking end() fails the assert (the unit tests' build) and aborts.     *)
(***************************************************************************)
EXTENDS Naturals, Sequences, FiniteSets, FiniteSetsExt

CONSTANTS
  Streams,     \* 1..N; stream 1 is PacketT1's
  Times,       \* timestamps the producers use
  MaxCalls     \* bound: calls of push, pop and clear

ASSUME Streams = 1..Cardinality(Streams) /\ Times \subseteq Nat

Others == Streams \ {1}
\* What an out-of-bounds read copies: not a packet of the stream.
Garbage == -1

VARIABLES
  pkts,        \* m_packets_t1 .. m_packets_t5
  out,         \* the caller's packet_t1 .. packet_t5
  aborted,     \* the assert in find_closest_packet failed
  last,        \* ghost: stream 1's packet and the streams at the last pop
  calls

vars == <<pkts, out, aborted, last, calls>>

\* The object is default-constructed, and so are the caller's packets
\* (timestamp_us 0).
Init ==
  /\ pkts = [k \in Streams |-> <<>>]
  /\ out = [k \in Streams |-> 0]
  /\ aborted = FALSE
  /\ last = [ts |-> 0, before |-> [k \in Streams |-> <<>>]]
  /\ calls = 0

\* check_monotonic_timestamp: only the vector's last packet is compared.
CheckMonotonic(ts, s) == s = <<>> \/ s[Len(s)] <= ts

\* std::labs of the difference; the timestamps are far below 2^63.
Dist(a, b) == IF a >= b THEN a - b ELSE b - a

\* std::lower_bound: the first packet not older than ts, or end().
LowerBound(ts, s) ==
  LET geq == {i \in 1..Len(s) : s[i] >= ts}
  IN  IF geq = {} THEN Len(s) + 1 ELSE Min(geq)

\* Mutant: prev(lower_it) never considered.
OutcomesLowerOnly(ts, s) == {LowerBound(ts, s)}

\* find_closest_packet on a non-empty vector: the index it returns, 0 for
\* the element before begin() and Len(s) + 1 for end().  Where one side
\* of the comparison is read out of bounds, both results are possible.
Outcomes(ts, s) ==
  LET lo == LowerBound(ts, s)
  IN  IF lo = 1 THEN {0, 1}
      ELSE IF lo = Len(s) + 1 THEN {Len(s), Len(s) + 1}
      ELSE IF Dist(s[lo - 1], ts) < Dist(s[lo], ts) THEN {lo - 1} ELSE {lo}

\* m_packets_t1.erase(begin()).
EraseT1(s) == Tail(s)

\* A stream's result at index i: the copy into *packet_tk, and the erase
\* of the packets before it when it lies after begin().
Picked(s, i) == IF i = 0 THEN Garbage ELSE s[i]
Rest(s, i) == IF i > 1 THEN SubSeq(s, i, Len(s)) ELSE s

\* push(packet) on stream k.
Push(k, ts) ==
  /\ ~aborted /\ calls < MaxCalls
  /\ calls' = calls + 1
  /\ pkts' = IF CheckMonotonic(ts, pkts[k])
             THEN [pkts EXCEPT ![k] = Append(@, ts)] ELSE pkts
  /\ UNCHANGED <<out, aborted, last>>

\* clear().
Clear ==
  /\ ~aborted /\ calls < MaxCalls
  /\ calls' = calls + 1
  /\ pkts' = [k \in Streams |-> <<>>]
  /\ UNCHANGED <<out, aborted, last>>

\* pop() with stream 1 empty: returns -1.
PopEmpty ==
  /\ ~aborted /\ calls < MaxCalls /\ pkts[1] = <<>>
  /\ calls' = calls + 1
  /\ UNCHANGED <<pkts, out, aborted, last>>

\* pop(): stream 1's first packet, then find_closest_packet on every other
\* non-empty stream; an empty stream leaves *packet_tk as it was.
Pop ==
  /\ ~aborted /\ calls < MaxCalls /\ pkts[1] # <<>>
  /\ calls' = calls + 1
  /\ LET ts == Head(pkts[1])
         Full == {k \in Others : pkts[k] # <<>>}
     IN  \E pick \in [Full -> UNION {Outcomes(ts, pkts[k]) : k \in Full}] :
           /\ \A k \in Full : pick[k] \in Outcomes(ts, pkts[k])
           /\ IF \E k \in Full : pick[k] = Len(pkts[k]) + 1
                THEN /\ aborted' = TRUE
                     /\ UNCHANGED <<pkts, out, last>>
                ELSE /\ aborted' = FALSE
                     /\ out' = [k \in Streams |->
                                  IF k = 1 THEN ts
                                  ELSE IF k \in Full THEN Picked(pkts[k], pick[k])
                                  ELSE out[k]]
                     /\ pkts' = [k \in Streams |->
                                   IF k = 1 THEN EraseT1(pkts[1])
                                   ELSE IF k \in Full THEN Rest(pkts[k], pick[k])
                                   ELSE pkts[k]]
                     /\ last' = [ts |-> ts, before |-> pkts]

Next ==
  \/ \E k \in Streams, ts \in Times : Push(k, ts)
  \/ Clear
  \/ PopEmpty
  \/ Pop

Spec == Init /\ [][Next]_vars

-----------------------------------------------------------------------------

\* After every pop, each other stream that had packets yields one of the
\* packets closest in time to stream 1's packet, unless the
\* find_closest_packet read outside the vector decided it.
PopPicksClosest ==
  \A k \in Others :
    /\ last.before[k] # <<>>
    /\ out[k] # Garbage
    => \A i \in 1..Len(last.before[k]) :
         Dist(out[k], last.ts) <= Dist(last.before[k][i], last.ts)

\* pop never copies a packet from outside a vector and never aborts.
PopReadsInBounds == ~aborted /\ \A k \in Streams : out[k] # Garbage

\* pop succeeds only when every stream has a packet, as the unit test
\* "PacketSyncClosest not enough packages" states.
PopsOnlyComplete ==
  [][Pop => \A k \in Streams : pkts[k] # <<>>]_vars

=============================================================================
