----------------------------- MODULE RbsServer -----------------------------
(***************************************************************************)
(* The reference broadcast sync server (lib_rbs/rbs_server.cpp) and its    *)
(* double-buffered sync table (rbs_sync_table.cpp).  The network stack's   *)
(* receive callback queues each UDP pulse (RtosQueue of 10); process(),    *)
(* called in a loop, pops a pulse, and when its table id differs from the  *)
(* active table's it copies the table into the buffer not in use and then  *)
(* points active_sync_table at it; it keeps the last three pulses as the   *)
(* history sent back to the daemon and gives the packet back to the       *)
(* stack.  calculate_synced_time, called from other threads (the LED timer *)
(* among them), reads the coefficients m and t of the active table.        *)
(*                                                                         *)
(* A table is [id, m, t]: each field holds the id of the table whose copy  *)
(* wrote it, so a half-copied buffer is visible.  The struct copy writes   *)
(* table_id before the rows, and a row's m before its t.                   *)
(***************************************************************************)
EXTENDS Naturals, Sequences, SequencesExt

CONSTANTS
  Tables,      \* table ids the daemon sends (0 is the zeroed table)
  QueueCap,    \* m_received_packets' capacity (10 in the code)
  MaxPkts,     \* bound: pulses the daemon sends
  Readers      \* threads calling calculate_synced_time

ASSUME Tables \subseteq Nat \ {0} /\ QueueCap \in Nat \ {0} /\ MaxPkts \in Nat

VARIABLES
  open,        \* m_udp_socket created (socket_magic_number != 0)
  queue,       \* m_received_packets
  table,       \* m_sync_table_buffer[0..1]
  active,      \* active_sync_table: the index of the buffer it points to
  suspended,   \* m_suspended
  history,     \* m_history
  proc,        \* where process() is
  stopping,    \* stop() is draining the queue
  rd,          \* where each reader is in calculate_synced_time
  sent,        \* ghost: pulses sent by the daemon
  held,        \* ghost: packets not yet given back to the stack
  adopted      \* ghost: the table of the last pulse handled while not suspended

vars == <<open, queue, table, active, suspended, history, proc, stopping, rd,
          sent, held, adopted>>

Buffer == 0..1
Field == {"id", "m", "t"}
ZeroTable == [f \in Field |-> 0]

\* A UDP packet: its sequence id, the table it carries, and whether
\* read_sync_packet accepts it (buffer_length >= 4).
Packet == [seq : 1..MaxPkts, table : Tables, valid : BOOLEAN]

\* The constructor and reset(): both buffers zeroed, the first one active,
\* the history cleared; m_suspended is false and the socket not created.
Init ==
  /\ open = FALSE /\ queue = <<>>
  /\ table = [b \in Buffer |-> ZeroTable] /\ active = 0
  /\ suspended = FALSE /\ history = <<>>
  /\ proc = [pc |-> "idle"] /\ stopping = FALSE
  /\ rd = [r \in Readers |-> [pc |-> "idle"]]
  /\ sent = 0 /\ held = {} /\ adopted = 0

-----------------------------------------------------------------------------
(* The network stack's thread *)

\* Mutant: the packet is deleted only on the valid-pulse path.
ReleasedIfValid(h, p) == IF p.valid THEN h \ {p.seq} ELSE h

\* wiced_packet_delete: the packet goes back to the stack.
Released(h, p) == h \ {p.seq}

\* start(): refused when the socket exists; otherwise the socket is created
\* and on_receive_packet registered.
Start ==
  /\ ~open /\ ~stopping
  /\ open' = TRUE
  /\ UNCHANGED <<queue, table, active, suspended, history, proc, stopping, rd,
                 sent, held, adopted>>

\* on_receive_packet: the packet is time-stamped and put on the queue
\* without waiting; when the queue is full it is deleted at once.
Receive(p) ==
  /\ open
  /\ sent < MaxPkts /\ p.seq = sent + 1
  /\ sent' = sent + 1
  /\ IF Len(queue) < QueueCap
       THEN queue' = Append(queue, p) /\ held' = held \cup {p.seq}
       ELSE UNCHANGED <<queue, held>>
  /\ UNCHANGED <<open, table, active, suspended, history, proc, stopping, rd,
                 adopted>>

\* stop(): pops and deletes every queued packet, then deletes the socket.
StopDrain ==
  /\ open /\ ~stopping
  /\ stopping' = TRUE
  /\ UNCHANGED <<open, queue, table, active, suspended, history, proc, rd,
                 sent, held, adopted>>

StopPop ==
  /\ stopping /\ queue # <<>>
  /\ queue' = Tail(queue)
  /\ held' = Released(held, Head(queue))
  /\ UNCHANGED <<open, table, active, suspended, history, proc, stopping, rd,
                 sent, adopted>>

StopClose ==
  /\ stopping /\ queue = <<>>
  /\ open' = FALSE /\ stopping' = FALSE
  /\ UNCHANGED <<queue, table, active, suspended, history, proc, rd,
                 sent, held, adopted>>

\* suspend(b), from any thread.
Suspend(b) ==
  /\ suspended' = b
  /\ UNCHANGED <<open, queue, table, active, history, proc, stopping, rd,
                 sent, held, adopted>>

-----------------------------------------------------------------------------
(* process() *)

\* Mutant: the received table is compared by daemon_id, which is the same
\* for every pulse of one daemon.
TableChangedDaemon(p) == FALSE

\* active_sync_table.load()->table_id != received_table.table_id
TableChanged(p) == table[active].id # p.table

\* Mutant: the history is trimmed only above 3 entries.
TrimAboveThree(h) == IF Len(h) > 3 THEN Tail(h) ELSE h

\* while (m_history.size() > 2) m_history.pop_front();  (it never holds
\* more than 3, so the loop runs at most once)
Trim(h) == IF Len(h) > 2 THEN Tail(h) ELSE h

\* The history update (drop from the front while more than 2, then append),
\* send_timestamps and wiced_packet_delete that end the handling of a
\* valid pulse.
Record(p) ==
  /\ history' = Append(Trim(history), [seq |-> p.seq])
  /\ held' = Released(held, p)
  /\ proc' = [pc |-> "idle"]

\* The loop pops a packet.  An invalid one is deleted.  A valid one with a
\* new table, while not suspended, starts the flip; otherwise the pulse is
\* recorded at once.
Pop ==
  LET p == Head(queue) IN
  /\ proc.pc = "idle" /\ queue # <<>>
  /\ queue' = Tail(queue)
  /\ \/ /\ ~p.valid
        /\ held' = Released(held, p)
        /\ UNCHANGED <<history, proc, adopted>>
     \/ /\ p.valid /\ TableChanged(p) /\ ~suspended
        /\ proc' = [pc |-> "copy", p |-> p, dst |-> 1 - active, left |-> <<"id", "m", "t">>]
        /\ adopted' = p.table
        /\ UNCHANGED <<history, held>>
     \/ /\ p.valid /\ ~(TableChanged(p) /\ ~suspended)
        /\ Record(p)
        /\ adopted' = IF suspended THEN adopted ELSE p.table
  /\ UNCHANGED <<open, table, active, suspended, stopping, rd, sent>>

\* flip_sync_tables: *table_not_in_use = new_table, one field at a time.
CopyField ==
  /\ proc.pc = "copy" /\ proc.left # <<>>
  /\ table' = [table EXCEPT ![proc.dst][Head(proc.left)] = proc.p.table]
  /\ proc' = [proc EXCEPT !.left = Tail(@)]
  /\ UNCHANGED <<open, queue, active, suspended, history, stopping, rd,
                 sent, held, adopted>>

\* Mutant: the pointer is flipped as soon as the copy starts.
CopiedEarly(pr) == pr.left # <<"id", "m", "t">>

\* The whole table has been copied.
Copied(pr) == pr.left = <<>>

\* active_sync_table = table_not_in_use; then the pulse is recorded.
Publish ==
  /\ proc.pc = "copy" /\ Copied(proc)
  /\ active' = proc.dst
  /\ Record(proc.p)
  /\ UNCHANGED <<open, queue, table, suspended, stopping, rd, sent, adopted>>

-----------------------------------------------------------------------------
(* calculate_synced_time on another thread *)

\* active_sync_table.load()
ReadLoad(r) ==
  /\ rd[r].pc = "idle"
  /\ rd' = [rd EXCEPT ![r] = [pc |-> "m", buf |-> active]]
  /\ UNCHANGED <<open, queue, table, active, suspended, history, proc, stopping,
                 sent, held, adopted>>

\* get_coeff: *m = rows[i].m
ReadM(r) ==
  /\ rd[r].pc = "m"
  /\ rd' = [rd EXCEPT ![r] = [pc |-> "t", buf |-> @.buf, m |-> table[@.buf].m]]
  /\ UNCHANGED <<open, queue, table, active, suspended, history, proc, stopping,
                 sent, held, adopted>>

\* get_coeff: *t = rows[i].t; the synced time is computed from (m, t).
ReadT(r) ==
  /\ rd[r].pc = "t"
  /\ rd' = [rd EXCEPT ![r] = [pc |-> "idle", m |-> @.m, t |-> table[@.buf].t]]
  /\ UNCHANGED <<open, queue, table, active, suspended, history, proc, stopping,
                 sent, held, adopted>>

-----------------------------------------------------------------------------

ProcStep == Pop \/ CopyField \/ Publish

ReaderStep(r) == ReadLoad(r) \/ ReadM(r) \/ ReadT(r)

Next ==
  \/ Start \/ StopDrain \/ StopPop \/ StopClose
  \/ \E p \in Packet : Receive(p)
  \/ \E b \in BOOLEAN : Suspend(b)
  \/ ProcStep
  \/ \E r \in Readers : ReaderStep(r)

\* process() is called in a loop and stop() runs to its end; packets,
\* start, stop and suspend come when they come.
Spec == Init /\ [][Next]_vars /\ WF_vars(ProcStep) /\ WF_vars(StopPop \/ StopClose)
-----------------------------------------------------------------------------
(* Properties *)

TypeOK ==
  /\ open \in BOOLEAN /\ suspended \in BOOLEAN /\ stopping \in BOOLEAN
  /\ queue \in Seq(Packet) /\ Len(queue) <= QueueCap
  /\ table \in [Buffer -> [Field -> Tables \cup {0}]] /\ active \in Buffer
  /\ Len(history) <= 3
  /\ held \subseteq 1..MaxPkts /\ sent \in 0..MaxPkts

\* The promise of the double buffering (rbs_sync_table.cpp:9-11): the
\* buffer active_sync_table points to always holds one whole table, never
\* a table half copied over another, because flip_sync_tables copies into
\* the other buffer and only then stores the pointer.
ActiveTableComplete ==
  table[active].m = table[active].id /\ table[active].t = table[active].id

\* When process() is between pulses, the active table is the one carried by
\* the last pulse it handled while not suspended: a new table id is always
\* adopted, a suspended server keeps its table, and the comparison with the
\* active table skips only copies that would change nothing.
AdoptsLatestTable ==
  proc.pc = "idle" => table[active].id = adopted

\* Every packet the stack hands to on_receive_packet is given back to it
\* (wiced_packet_delete): when the queue is full, after process() handles
\* it, valid or not, or when stop() drains the queue.
PacketsReleased ==
  \A s \in 1..MaxPkts : [](s \in held => <>(s \notin held))

\* A calculate_synced_time caller computes with m and t of one table.
ReaderConsistent ==
  \A r \in Readers : (rd[r].pc = "idle" /\ "m" \in DOMAIN rd[r]) => rd[r].m = rd[r].t

====
