-------------------------- MODULE SequentialBuffer --------------------------
(***************************************************************************)
(* SequentialBufferT (lib_util/sequential_buffer.h): a byte ring of N     *)
(* bytes with a read and a write offset and a free count, shared by one   *)
(* writer and one reader under a lock, with an event flag for the         *)
(* watermark.  The reader is the HTTP server sending a PayloadFile        *)
(* (http_payload_file.h, http_server.cpp write_http_response_to_socket):  *)
(* request_read, copy at most what it was handed into a packet,           *)
(* commit_read, until the file's size has been transferred.  The writer   *)
(* is the file I/O callback filling the buffer with the file in chunks.    *)
(*                                                                         *)
(* A byte is its position in the file stream (1, 2, ...), written into a  *)
(* cell of buf; 0 is a cell never written.  write checks the free count   *)
(* before it takes the lock, so it is split there.  request_read with a    *)
(* timeout waits on the event flag first; its locked part and the reader's *)
(* copy are separate steps, so the writer can run while the reader holds   *)
(* a pointer into the buffer.                                              *)
(***************************************************************************)
EXTENDS Naturals, Sequences, FiniteSets

CONSTANTS
  N,            \* the buffer size (PayloadFile uses 512*4)
  Sizes,        \* the chunk sizes the writer passes to write
  Marks,        \* watermarks set_watermark may be called with
  FileSize,     \* bound: the bytes of the file being sent
  Timeouts      \* timeout_ms > 0 or not, for request_read (PayloadFile: FALSE)

ASSUME N \in Nat \ {0} /\ Sizes \subseteq Nat /\ FileSize \in Nat
ASSUME Timeouts \subseteq BOOLEAN /\ Timeouts # {}

VARIABLES
  buf,      \* m_data: the stream position held by each cell
  r,        \* m_read_ptr - m_data
  w,        \* m_write_ptr - m_data
  free,     \* m_free
  ev,       \* m_watermark_event
  mark,     \* m_watermark_bytes
  wpc,      \* the writer: idle, or past the free check with n bytes
  rpc,      \* the reader: idle, waiting, locking, or holding avail bytes
  written,  \* ghost: bytes the writer has had accepted
  out,      \* ghost: the bytes the reader copied and committed, in order
  res       \* PayloadFile::commit_read's last result

vars == <<buf, r, w, free, ev, mark, wpc, rpc, written, out, res>>

Cell == 0..N-1

\* size(): distance(m_data, m_data_end) - m_free.
Stored == N - free

\* The stored bytes from the read offset on, in order.
Content == [i \in 1..Stored |-> buf[(r + i - 1) % N]]

\* The constructor's clear(): both offsets at m_data, all bytes free;
\* m_watermark_bytes(1).
Init ==
  /\ buf = [c \in Cell |-> 0]
  /\ r = 0 /\ w = 0 /\ free = N
  /\ ev = FALSE /\ mark = 1
  /\ wpc = [op |-> "idle"] /\ rpc = [op |-> "idle"]
  /\ written = 0 /\ out = <<>> /\ res = "incomplete"

-----------------------------------------------------------------------------
(* The writer *)

\* Mutant: the free check lets one byte too many through.
FitsOffByOne(n) == n <= free + 1

\* write: data_size != 0 && m_free >= data_size, read before the lock.
Fits(n) == n # 0 /\ n <= free

\* write rejected: the buffer is full (or data_size is 0); the readers are
\* notified and -1 returned.
WriteReject(n) ==
  /\ wpc.op = "idle"
  /\ written + n <= FileSize
  /\ ~Fits(n)
  /\ ev' = TRUE
  /\ UNCHANGED <<buf, r, w, free, mark, wpc, rpc, written, out, res>>

\* write passed the check and waits for the lock.
WriteStart(n) ==
  /\ wpc.op = "idle"
  /\ written + n <= FileSize
  /\ Fits(n)
  /\ wpc' = [op |-> "locked", n |-> n]
  /\ UNCHANGED <<buf, r, w, free, ev, mark, rpc, written, out, res>>

\* Mutant: the write offset is not reset at the end of the array before the
\* rest is written to the front.
WrapWriteNever(p) == p

\* if (m_write_ptr == m_data_end) m_write_ptr = m_data;
WrapWrite(p) == IF p = N THEN 0 ELSE p

\* The locked part of write.  With w >= r the bytes go up to the end of the
\* array and the rest to the front; otherwise they are copied at w, which
\* the code asserts stays at or below r.  Then the watermark is signalled.
WriteLocked ==
  LET n == wpc.n
      append == IF n < N - w THEN n ELSE N - w
      w1 == WrapWrite(w + append)
      \* the cell the i-th byte (0-based) of the chunk goes to
      at(i) == IF w >= r
                 THEN IF i < append THEN w + i ELSE w1 + (i - append)
                 ELSE w + i
      cells == {at(i) : i \in 0..n-1}
      byte(c) == CHOOSE i \in 0..n-1 : at(i) = c
  IN /\ wpc.op = "locked"
     /\ buf' = [c \in Cell |-> IF c \in cells THEN written + byte(c) + 1 ELSE buf[c]]
     /\ w' = IF w >= r THEN w1 + (n - append) ELSE w + n
     /\ free' = free - n
     /\ ev' = (ev \/ N - free' >= mark)
     /\ written' = written + n
     /\ wpc' = [op |-> "idle"]
     /\ UNCHANGED <<r, mark, rpc, out, res>>

\* set_watermark, from any thread, without the lock.
SetWatermark(m) ==
  /\ mark' = m
  /\ UNCHANGED <<buf, r, w, free, ev, wpc, rpc, written, out, res>>

-----------------------------------------------------------------------------
(* The reader: write_http_response_to_socket's packet fill loop *)

\* get_read_ptr calls request_read; with a timeout it first waits on the
\* watermark event.  A finished response is not read again.
RequestStart(timeout) ==
  /\ rpc.op = "idle"
  /\ res = "incomplete"
  /\ rpc' = [op |-> IF timeout THEN "wait" ELSE "lock"]
  /\ UNCHANGED <<buf, r, w, free, ev, mark, wpc, written, out, res>>

\* The event is set: wait_for consumes it and returns 0.
RequestWoken ==
  /\ rpc.op = "wait"
  /\ ev
  /\ ev' = FALSE
  /\ rpc' = [op |-> "lock"]
  /\ UNCHANGED <<buf, r, w, free, mark, wpc, written, out, res>>

\* wait_for times out; with nothing stored request_read returns -1,
\* otherwise it reads what there is.
RequestTimeout ==
  /\ rpc.op = "wait"
  /\ ~ev
  /\ rpc' = IF Stored = 0 THEN [op |-> "idle"] ELSE [op |-> "lock"]
  /\ UNCHANGED <<buf, r, w, free, ev, mark, wpc, written, out, res>>

\* Mutant: all stored bytes are handed out, past the end of the array.
AvailUnwrapped == Stored

\* Mutant: r == w is taken as empty, also when the buffer is full.
AvailFullAsEmpty == IF r <= w THEN w - r ELSE N - r

\* available_size: up to w if r < w; otherwise up to the end of the array
\* when anything is stored, else 0.
Avail ==
  IF r < w THEN w - r
  ELSE IF Stored > 0 THEN N - r ELSE 0

\* The locked part of request_read: the reader gets m_read_ptr and
\* available_size, or -1 when it is 0, which ends the fill loop.
RequestLocked ==
  /\ rpc.op = "lock"
  /\ rpc' = IF Avail > 0 THEN [op |-> "hold", avail |-> Avail] ELSE [op |-> "idle"]
  /\ UNCHANGED <<buf, r, w, free, ev, mark, wpc, written, out, res>>

\* Mutant: the read offset is not reset at the end of the array.
WrapReadNever(p) == p

\* if (m_read_ptr == m_data_end) m_read_ptr = m_data;
WrapRead(p) == IF p = N THEN 0 ELSE p

\* PayloadFile::commit_read: m_file.size() == m_transferred_bytes.
IsComplete(transferred) == transferred = FileSize

\* should_send_size = min(available, packet room) bytes are copied into the
\* packet, then PayloadFile::commit_read: m_buffer.commit_read advances the
\* read offset and the free count under the lock, m_transferred_bytes grows,
\* and the response is complete when it reaches the file's size.
Commit(k) ==
  /\ rpc.op = "hold"
  /\ k \in 1..rpc.avail
  /\ out' = out \o [i \in 1..k |-> buf[r + i - 1]]
  /\ r' = WrapRead(r + k)
  /\ free' = free + k
  /\ res' = IF IsComplete(Len(out')) THEN "complete" ELSE "incomplete"
  /\ rpc' = [op |-> "idle"]
  /\ UNCHANGED <<buf, w, ev, mark, wpc, written>>

-----------------------------------------------------------------------------

WriterStep == WriteLocked \/ \E n \in Sizes : WriteStart(n)

ReaderStep ==
  (\E t \in Timeouts : RequestStart(t)) \/ RequestWoken \/ RequestTimeout \/ RequestLocked
  \/ \E k \in 1..N : Commit(k)

Next ==
  \/ WriterStep
  \/ \E n \in Sizes : WriteReject(n)
  \/ \E m \in Marks : SetWatermark(m)
  \/ ReaderStep

\* The file I/O writer keeps writing the file, retrying a rejected chunk;
\* the TCP handler thread loops over write_http_response_to_socket while the
\* response is incomplete.
Spec == Init /\ [][Next]_vars /\ WF_vars(WriterStep) /\ WF_vars(ReaderStep)

-----------------------------------------------------------------------------
(* Properties *)

TypeOK ==
  /\ buf \in [Cell -> 0..FileSize]
  /\ r \in Cell /\ w \in Cell /\ free \in 0..N
  /\ ev \in BOOLEAN /\ mark \in Marks \cup {1}
  /\ written \in 0..FileSize /\ res \in {"complete", "incomplete"}

\* The free count write checks before it takes the lock is still enough
\* when it holds the lock, and the w < r branch's assertion
\* (m_write_ptr + data_size <= m_read_ptr) holds: only the reader's
\* commit_read changes m_free meanwhile.
WriteCheckStillValid ==
  wpc.op = "locked" =>
    /\ wpc.n <= free
    /\ (w < r => w + wpc.n <= r)

\* What request_read hands out stays inside the array and inside the
\* stored bytes while the reader holds it, so commit_read's assertion
\* (m_read_ptr <= m_data_end) holds and no unwritten byte is sent.
HandedOutValid ==
  rpc.op = "hold" =>
    /\ r + rpc.avail <= N
    /\ rpc.avail <= Stored

\* The buffer is a bounded FIFO: the stored bytes, read from the read
\* offset across the wrap, are the stream in order after what was read,
\* and the reader receives exactly the stream.  Writes that wrap, reads
\* that stop at the end of the array and the full/empty ambiguity of
\* r = w are all inside this.
Stream == INSTANCE ByteStream WITH Cap <- N, q <- Content, out <- out
ImplementsByteStream == Stream!Spec

\* The HTTP response of a file eventually completes: every byte the writer
\* puts in is sent, and the reader is never told "nothing to read" while
\* bytes are stored.
ResponseCompletes == <>(res = "complete")

====
