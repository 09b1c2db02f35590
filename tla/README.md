# TLA+ models of sensor-libs

This directory holds TLA+ specifications of the stateful parts of the
sensor-libs libraries (`src/`). It also holds the TLC configurations that
check them. `PROJECT.json` lists the components, the runs, the mutants that
show each checked property can fail, the map from every definition to the
source lines it models, the findings and the hazards.

## The system and its parts

| Part | Source | Interacts with | Status |
|---|---|---|---|
| SlotFS file system | `lib_slotfs/slotfs.{h,cpp}` | a `BlockDevice` (SD/eMMC) | modelled |
| CommandQueue | `lib_util/command_queue.h`, `lib_util/event_flag_status.h` | producer threads, one worker thread | modelled |
| SequentialBuffer, PayloadFile | `lib_util/sequential_buffer.h`, `lib_http/http_payload_file.h` | one writer thread, the HTTP thread reading, an event flag | modelled |
| Message frame layout | `lib_message/message_frame.{h,cpp}` | sensor producers, the host parser | modelled |
| RBS time sync | `lib_rbs/*` | UDP peers; two sync tables flipped under readers | modelled, except the packet byte layout |
| RgbLed | `lib_util/rgb_led*.{h,cpp}` | callers at several priorities, the periodic update on the hardware IO worker thread | modelled; the driver is the pair it was last given |
| PacketSyncClosest | `lib_util/sync_packets.h` | five packet streams, one caller | modelled |
| Event trace | `lib_lw_event_trace/*` | any thread; a reserved buffer | `to_json` is modelled with `PayloadTraceEvent`; the logger itself is not (see below) |
| HTTP server | `lib_http/http_server.cpp`, `http_request.cpp`, `http_response.cpp`, `http_payload.{h,cpp}`, `http_payload_trace_event.h` | the WICED network thread (callbacks), the handler thread, a CommandQueue between them | modelled, except TLS, start/stop and `http_parser` (not in the repository; its callbacks are the environment) |
| Discovery | `lib_discovery/*` | a datagram transport | not modelled |
| Sensor config, battery drivers, small utilities | `lib_util/*` | I2C registers | not modelled: pure I/O or data |

### SlotFS

The device is split into a configuration block (block 0), two metadata
blocks per slot (copies A and B, each CRC-protected and carrying an 8-bit
revision), and equal data regions. A `File` handle buffers data in a
`BlockPage` of four blocks. A page is written whole, at the page-aligned
address of the cursor, when it fills (`sfs_file_write`) and on
`sfs_file_flush`. After the page, the flush re-reads both metadata copies
and overwrites the older one with the new size and revision. `sfs_file_close`
flushes a WriteCreate handle. `lock_counters` keep a WriteCreate open out of
a slot with any open handle.

### CommandQueue

`CommandQueue<QueueT, SIZE, STATUS>` lets other threads hand functions to a
worker thread. It holds `SIZE` function contexts, each with a reference
count, a `cancelled` flag, a scheduled time, a command id, an interval and a
status to wait on. There are two queues of context indices: `m_commands`
(run now) and `m_commands_later` (delayed and interval functions).
- `execute_async*` find a context with no references, reset and fill it,
  take a reference and put its index on a queue.
- `process()` first moves the due delayed commands to `m_commands`
  (`enqueue_delayed_commands`), then pops one and drops it if cancelled.
  Otherwise it calls the function. An interval function is put back on
  `m_commands_later`; any other sets the status and drops the reference.
- `cancel(id)` flags the first context with that id that has references.

The HTTP server (`http_server.h:119`) uses one with `EventFlagStatus`; the
unit tests use `IntStatus`.

### SequentialBuffer

`SequentialBufferT` is an N-byte ring with read and write pointers and a
free count, shared by one writer and one reader under a lock.
- `write` checks the free count before it takes the lock. It copies all
  the bytes or none, wrapping at the end of the array, then sets the
  watermark event.
- `request_read` hands the reader a pointer and a length. The length runs
  up to the write pointer, or up to the end of the array. With a timeout,
  it first waits on the event.
- `commit_read` advances the read pointer.

`PayloadFile` sends a file through one. The HTTP thread's packet fill loop
(`write_http_response_to_socket`) does request, copy into the packet and
commit until the file size has been transferred.

### Message frame

A frame is a 4-byte header (`message_size`, `feature_mask`) followed by the
structs that are present, in feature-id order. `FrameMessageBuilder::add`
copies a struct to its fixed offset (`FrameMessageOffset`, a recursive
template). `finish` closes up each absent struct by moving the rest of the
512-byte buffer left, then writes the header. `get_frame_message_data`
walks the mask of a received buffer to find one struct.

### RBS time sync

`RbsServer` answers the reference pulses of a sync daemon.
- The network stack's callback `on_receive_packet` queues each UDP pulse
  (a queue of 10) or deletes it when the queue is full.
- `process()`, called in a loop, pops the pulses. When a pulse carries a
  table id different from the active table's and the server is not
  suspended, `flip_sync_tables` copies the table into the buffer not in use
  and then points `active_sync_table` at it. The last three pulses are kept
  and sent back to the daemon, and every packet is deleted.
- `calculate_synced_time`, called from other threads (the LED timer among
  them), reads `m` and `t` of the active table without a lock.

### RgbLed

`RgbLed` keeps a pattern-colour pair per priority (IDLE, NETWORK, APP,
ERROR).
- `set()`, under `m_mutex`, stores a pair and makes the pair of the highest
  priority whose pattern is not DISABLED the active one.
- `set_from_hex()` converts a 24-bit colour and calls `set()` with the
  active pattern, which it reads without the mutex.
- `initialize()` resets every priority, one at a time and without the
  mutex, and registers a 100 ms timed event on the hardware IO worker
  thread; `set_update_interval()` re-registers
  it.
- The timed event `on_led_update` copies the active pair under the mutex
  (`get_active`) and then drives the PWM pins with its colour and a
  brightness chosen by its pattern and the time synced by
  `calculate_synced_time` (the RBS reader).

### PacketSyncClosest

`PacketSyncClosest` aligns five packet streams by timestamp for one caller.
- `push` appends a packet to its stream's vector unless it is older than
  the vector's last packet.
- `pop` takes stream 1's first packet and, from each other stream that has
  packets, the one closest in time (`find_closest_packet`: `lower_bound`,
  then the packet before it compared with the packet at it), and erases
  the packets before that one.
- `clear` empties every stream.

### HTTP server

The WICED network thread calls `client_connected_callback`,
`client_data_received_callback` and `client_disconnected_callback`. Each
hands a closure to the handler thread's CommandQueue with `execute_async`
and ignores its result, so a closure is dropped when no function context is
free. The handler thread (`tcp_handler_thread_main`) loops:
- `process(timeout)` runs at most one closure. It waits forever when no
  connection is active and 1 ms otherwise. The closures append a
  `TcpConnection` to `m_connected_sockets`, mark it active, or erase it
  and hand the socket back to the listener.
- One pass over `m_connected_sockets`. A connection without a request or
  response gets a request, which `read_http_request_from_socket` fills
  from the received packets. A complete request gets a response from its
  handler (or a 404), a bad one a 400. A response is written one packet per
  pass by `write_http_response_to_socket`. A packet whose send would block
  is kept as the dangling packet and sent first on a later pass. When the
  write no longer says Incomplete, the response is reset and the
  connection made inactive.

## Modules

- `SlotMeta.tla`: `most_recent_meta_data_block` as the operator
  `MostRecent`, including its wrap rule (an absolute revision difference
  above 1 means the smaller revision is the newer one).
- `SlotFS.tla`: the file system. The model's state and the code's:

  | Variable | In the code |
  |---|---|
  | `disk` | block address to content: `Blank`, `Corrupt` (CRC fails), the config record, a metadata record, or a data tag `[fid, off]` |
  | `up` | `sfs_init` has returned since the last power loss or `sfs_deinit` |
  | `lock` | `lock_counters` |
  | `file` | the `File` objects: md, mode, cursor, page and page offset |
  | `call` | the call in progress and where it continues |

  Ghost variables serve only the properties: `nextFid`, `skipped`, `acked`,
  `lastRead` and `begun`.

  Every state-changing function is an action:

  | Action | Function |
  |---|---|
  | `BootMounted` | `sfs_init` with the configuration found |
  | `BootFormat`, `FormatMeta` | `sfs_init` calling `sfs_format` |
  | `OpenRead` | `sfs_file_open(Mode_Read)` |
  | `OpenCreate`, `CreateSecondCopy` | `sfs_file_open(Mode_WriteCreate)`, one step per metadata copy |
  | `Write`, `WriteNoSpace`, `WriteStage`, `WritePage` | `sfs_file_write`, one step per loop iteration |
  | `Flush`, `CloseWrite`, `FlushMeta`, `FlushRejected` | `sfs_file_flush` and `sfs_file_close`; `AfterFlush` is where each caller of the flush continues |
  | `Allocate` | `sfs_file_allocate` |
  | `Read` | `sfs_file_read` (`ReadLoop` is its loop) |
  | `Seek` | `sfs_file_seek` |
  | `CloseRead` | close of a Read handle |
  | `Deinit` | `sfs_deinit` |
  | `PowerLoss` | power loss between device writes |

  A call is split into steps so that each step makes at most one device
  write. `DiskWrite` is `BlockDevice::write`, with three outcomes:
  - success;
  - a reported error, always when the range runs past the device;
  - a power loss during the write. The blocks before some index are
    written, and the block at that index is left old, or becomes `Corrupt`
    when `TornGarbage` is TRUE.

  Power loss clears RAM: handles, lock counters and the call in progress.
- `CommandQueue.tla`: the queue with `Producers` threads and one worker.

  | Variable | In the code |
  |---|---|
  | `ctx` | `m_func_contexts`: ref, func (a call id), cancelled, sched, cmd, interval, status; `left` is a ghost countdown of the delay |
  | `cmds`, `later` | `m_commands`, `m_commands_later`, as sequences of context indices |
  | `clock` | `nowMs()`, modulo `ClockMod` |
  | `pc` | where each producer thread is in its call |
  | `w` | where the worker is in `process()`, with the `now` it read |

  Ghost variables serve only the properties: `calls`, `oneShot`,
  `accepted`, `runs`, `dropped`, `revoked` and `lastRun`.

  | Action | Code |
  |---|---|
  | `Call` | `execute_async*` up to `find_available_func_context` |
  | `Setup` | reset, fill, `inc_ref_count` |
  | `Put` | the put, giving the reference back when the queue is full |
  | `WaitWoken`, `WaitTimeout` | `status.wait_for` in `execute_async(f, true)` |
  | `CancelFind`, `CancelSet` | `cancel`: the search, then the flag |
  | `Begin`, `EnqueueStep` | `process()` calling `enqueue_delayed_commands`, one step per loop iteration |
  | `Pop` | the pop and the `cancelled` check |
  | `Execute` | the call, then the interval re-put or the status set |
  | `Tick` | the clock advancing |

  A producer call is split wherever another thread can act in between.
  The constant `StatusTypes` gives the status types the run may start
  with (`status_t`, chosen in `Init`); `EventFlagStatus` is TRUE when it
  is that one. With it, a wait may time out and consume the flag.
  `WaitedCommandHasRun` states that a waited call returns only after its
  function ran, for `IntStatus`; `WaitedCommandHasRunAny` states it for
  both types and is checked only by `MCCommandQueue_timeout.cfg`. `ClockWraps` FALSE stops the clock at
  `ClockMod - 1`.
- `SequentialBuffer.tla`: the buffer with the HTTP reader and a file writer.

  | Variable | In the code |
  |---|---|
  | `buf` | `m_data`: each cell holds the position in the file of the byte in it |
  | `r`, `w`, `free` | `m_read_ptr`, `m_write_ptr` (as offsets), `m_free` |
  | `ev`, `mark` | `m_watermark_event`, `m_watermark_bytes` |
  | `wpc`, `rpc` | where the writer and the reader are in their calls |
  | `out`, `res` | ghost: the bytes the reader sent; `PayloadFile::commit_read`'s result |

  Actions:
  - `WriteReject`, `WriteStart` and `WriteLocked` are `write`, split at the
    unlocked check.
  - `RequestStart`, `RequestWoken`, `RequestTimeout` and `RequestLocked`
    are `get_read_ptr` / `request_read`.
  - `Commit(k)` is the copy of `k` bytes into the packet, then
    `PayloadFile::commit_read`.
  - `SetWatermark` is `set_watermark`.

  The writer (the file I/O callback) is outside `src/`. It is modelled as
  writing the file in chunks from `Sizes` and retrying rejected ones.
- `ByteStream.tla`: the bounded FIFO of bytes that the class comment
  promises. `SequentialBuffer` maps onto it. The stored bytes are read from
  `r` across the wrap as the queue, and the bytes the reader sent are its
  output. The run checks `ImplementsByteStream`, which is `ByteStream!Spec`
  under that mapping.
- `MessageFrame.tla`: the builder and the parser.

  | Definition | Code |
  |---|---|
  | `mask`, `size`, `finished`, `buf` | `m_feature_mask` (as a set of feature indexes), `m_size`, `m_finished`, `m_buffer` |
  | `Offset` (recursive) | `FrameMessageOffset<T>::value` |
  | `Add`, `Finish`, `Clear` | `add`, `finish`, `clear`; `ret` is the call's return value |
  | `Compact`, `MemMove` | `finish`'s loop and its `memmove` |
  | `ParseFrom`, `Parse` | `get_frame_message_data` |
  | `MaskBits`, `HasBit` | the mask as the `uint16` in the header, and the bit test |

  A data byte is `<<i, k>>`: byte `k` of struct `i`. The header bytes are
  tagged with their field's value. `RefOffset` is the reference layout:
  a struct comes after the header and every present struct with a smaller
  id. `FinishedLayout` compares `finish`'s result with it, and `RoundTrip`
  parses the result back.
- `RbsServer.tla`: the server, the two table buffers and reader threads.

  | Definition | Code |
  |---|---|
  | `queue`, `table`, `active` | `m_received_packets`, `m_sync_table_buffer`, `active_sync_table` (as a buffer index) |
  | `open`, `suspended`, `history` | the socket, `m_suspended`, `m_history` |
  | `Receive` | `on_receive_packet` |
  | `Pop`, `CopyField`, `Publish` | `process()`: the pop and comparison, the table copy one field at a time, the pointer store; `Record` is the history, reply and delete |
  | `Start`, `StopDrain`, `StopPop`, `StopClose`, `Suspend` | `start`, `stop` (drain, then socket delete), `suspend` |
  | `ReadLoad`, `ReadM`, `ReadT` | `calculate_synced_time`: pointer load, `get_coeff`'s reads of `m` and `t` |

  A packet is its sequence id, its table id and whether `read_sync_packet`
  accepts it. A table is one row. Each field of a buffer holds the id of the
  table whose copy wrote it, so a half-copied buffer is visible. Ghost
  variables `sent`, `held` and `adopted` serve the properties.
- `RgbLed.tla`: the LED, its callers and the timed event.

  | Definition | Code |
  |---|---|
  | `patterns`, `active` | `m_patterns`, `m_active_pattern` |
  | `timer`, `local`, `shown` | `led_timer` registered, `on_led_update`'s copy, the pair last given to `rgb_driver` |
  | `Set`, `Store` | `set()` (whole, under the mutex) |
  | `SetFromHexRead`, `SetFromHexSet` | `set_from_hex`: the conversion (`HexColour`) and unlocked read, then the `set()` call |
  | `InitializeStart`, `InitializeReset`, `InitializeRegister` | `initialize()`: driver init, one iteration of the reset loop, registering the timed event |
  | `SetUpdateInterval` | `set_update_interval()` |
  | `TimerGetActive`, `TimerDrive` | `on_led_update`: `get_active`, then `set_color` and `set_brightness` |

  A colour is three bytes. The synced time only sets the phase of a fade
  or blink and is left out. `initialize()` writes `m_patterns` without the
  mutex, one priority per step, so `set()` of another thread can run
  between two iterations (`cpc` is `"init"` with the next priority). `MCRgbLed.tla` gives the patterns DISABLED,
  SOLID and BLINK_SLOW, red and white for `set()` and 0x0000FF for
  `set_from_hex()`.
- `PacketSync.tla`: the streams (`pkts`), the caller's output packets
  (`out`), `Push`, `Clear`, `PopEmpty` and `Pop`; `Outcomes` is
  `find_closest_packet` and `CheckMonotonic` is
  `check_monotonic_timestamp`. A packet is its timestamp, and streams 2
  and 3 stand for the four identical non-first streams. The reads of
  `std::prev(begin())` and `*end()` are undefined; `Outcomes` lets the
  comparison with what they read go either way. The element before
  `begin()` is the value `Garbage`, and `end()` fails the assert (the
  unit tests' build), setting `aborted`. The ghost `last` (stream 1's
  packet and the streams at the last pop) serves the properties.
- `HttpServer.tla`: the network thread, the closure queue and the handler
  thread.

  | Definition | Code |
  |---|---|
  | `stack`, `rx` | each socket at the network stack (listening, open, closing) and its received packets |
  | `cmds`, `Enqueue` | the command queue's closures, `execute_async` dropping one when all `Cap` contexts are taken |
  | `conns`, `NewEntry` | `m_connected_sockets`, a `TcpConnection` (active, request, response with header and payload progress, dangling packet) |
  | `Connect`, `Send`, `Disconnect` | the three callbacks |
  | `RunConnect`, `RunData`, `RunDisconnect`, `Find`, `Erase` | their closures |
  | `Process`, `AnyActive` | `process(timeout)` after the `any_of` over `active`; `hpc` is 0 in it and 1 in the pass |
  | `ReadRequest`, `Verdict` | `read_http_request_from_socket` over `HttpRequest::read_from`'s verdicts |
  | `Write`, `Fill`, `SendDangling` | `write_http_response_to_socket`, its fill loop over `HttpResponse::get_read_ptr`/`commit_read`, `send_dangling_packet` |
  | `Serve`, `ServeFrom`, `ServeAll` | the `for_each` body, the loop, the whole pass |

  Data is counted in units: a header is `HdrLen` units and a packet holds
  `Room`. A request packet is named by what `read_from` says of it (part,
  last, bad). The pass is one step: only the handler thread changes the
  entries, and the network thread only appends packets, which the pass
  reads when it reaches the socket. In one pass one network call (chosen
  by `at` and `net`) may fail to allocate, block or fail; the others
  succeed. Ghost variables `left`, `got`, `want`, `lost`, `nconns` and
  `stalls` serve the properties.
- `HttpRequest.tla`: `HttpRequest` (`http_request.cpp`) fed by the parser,
  and the routing table with `find_http_handler`. `http_parser` is not in
  the repository, so the client and the parser are the environment: `Send`
  chooses a request (method, path, query pairs, headers, body) and turns
  it into the callbacks the parser makes, one per packet. URL and header
  names may be cut into two pieces at any byte, and query bytes may be
  sent as themselves or as `%XX` in either case. A packet may also be an
  error. The response side on the same connection follows: the handler
  fills an `HttpResponse` with a status and a payload, and
  `write_http_response_to_socket` sends it in packets whose size the
  network stack chooses (`Rooms`); a send may succeed, block (the packet
  dangles and is sent first on the next pass), fail, or find no packet.
  A header line is a record `[k, v]`, not its text; a payload byte is
  `[k |-> "byte", v |-> b]`.

  | Definition | Code |
  |---|---|
  | `req`, `NewReq` | the `HttpRequest` object: url, header fields, body, path, query, state |
  | `OnUrl`, `OnHeaderField`, `NewField`, `OnHeaderValue`, `OnBody` | the parser callbacks appending a piece |
  | `OnHeadersComplete`, `QueryLoop`, `Push`, `Decode`, `HexVal` | the split at `?`, the loop over `&` and `=`, `url_decode` |
  | `OnMessageComplete`, `Callback` | the state set to complete; the dispatch of one callback |
  | `ReadFrom` | `read_from`: one packet's callback, then Error, Complete or Incomplete |
  | `Respond` | `read_http_request_from_socket`'s use of the verdict: 400 or the handler |
  | `RouteLess`, `StrLess`, `RouteMap` | `HttpRoute::operator<` and the `std::map` order |
  | `TlsAdmits`, `PathMatches`, `Matches`, `FindHandler` | `find_http_handler` and its matching, 404 when nothing matches |
  | `PayloadEmpty`, `EmptyReadPtr`, `EmptyCommit` | `PayloadEmpty`: `Content-Length: 0`, no data, always Complete |
  | `PayloadJson`, `JsonHeaders`, `TextReadPtr`, `PosCommit` | `PayloadJson`'s constructors, `init_default_headers`, `get_read_ptr`, `commit_read` |
  | `PayloadBlob` | `PayloadBlob<SIZE>` (its headers put the type first) |
  | `PayloadTest`, `TestReadPtr` | `PayloadTest`: `size` bytes 0xAC handed out at most `sizeof(m_domain)` (`TestChunk`) at a time |
  | `ToJson`, `PayloadTraceEvent`, `TraceNext`, `TraceReadPtr`, `TraceCommit` | `to_json` and `PayloadTraceEvent`: Content-Length from `std::accumulate` at construction, each event's JSON made in `get_read_ptr`, `[` before the first, the last `,` made `]` |
  | `PayloadGet`, `PayloadReadPtr`, `PayloadCommit` | the virtual calls of `Payload` |
  | `resp`, `NewResponse`, `SetPayload` | `HttpResponse()`, `set_payload` (the payload's header fields) |
  | `BuildHeader`, `Prepared`, `GetReadPtr`, `ReadPtr`, `CommitRead` | `build_header_string` (no header for a status outside `StatusCodes::codes`), `get_read_ptr`, `commit_read` |
  | `Fill`, `WriteResponse` | `write_http_response_to_socket`'s fill loop and send |
  | `Serve`, `dangling`, `wres`, `got` | one pass of `tcp_handler_thread_main` over the connection with a response; `got` is what the client has received |

  Strings are sequences of byte values. A handler is application code:
  `Handlers` gives its status code and payload.
- `MCHttpRequest.tla`: the paths, query lists, header lists, bodies,
  routes and handlers the request runs use: a JSON `{}`, a one-byte blob,
  a three-byte `PayloadTest` answered 201, a trace of two events, and a
  bare 200 with the default `PayloadEmpty` (only on the shadow route).
- `MCSlotFS.tla`: the TLC instance, with a symmetry set of handles. Its
  assumption checks `MostRecent` for all 256 pairs of consecutive
  revisions against the serial-number order (`SerialLater`); TLC evaluates
  it before every SlotFS run.
- `MCHttpServer.tla`: the request shapes the HTTP runs use.

Abstractions:
- One block is one unit of data. The configuration starts at block 0.
- Data is a ghost tag naming the file and the offset the caller meant it
  for, so a misplaced or stale block is visible.
- Device reads always succeed.
- CRC checking is modelled by `Corrupt` and by metadata records being
  recognisable (`IsMeta`).

## Runs

| Run | Checks | Bounds | Result |
|---|---|---|---|
| crash | TypeOK, DurableContent, ReadReturnsWrittenData, AckedDurable, SingleWriter | 1 slot of 4 blocks, page 2, 2 handles, 2 creates, revisions < 3, 1 power loss | pass, about 173k states |
| faults | CallsReturn (liveness) | 2 slots, 2 handles, 1 create, 1 device error, 1 power loss that leaves the block corrupt, allocate to 3, writes through Read handles | pass, about 485k states, about 95 s |
| recreate | AckedNeverRolledBack | as crash | violation: see findings |
| rbs | TypeOK, ActiveTableComplete, AdoptsLatestTable, PacketsReleased (liveness) | 4 pulses, tables 1 and 2, valid or not, queue of 2, 1 reader | pass, about 71k states |
| seqbuf | TypeOK, WriteCheckStillValid, HandedOutValid, ImplementsByteStream, ResponseCompletes | 3-byte buffer, 8-byte file, chunks 0..3, watermarks 1 and 2, reads with and without timeout | pass, about 1k states |
| cq | TypeOK, RefCountMatches, OneShotRunsAtMostOnce, CancelHonoured, WaitedCommandHasRun, AcceptedRuns, WaiterReturns | 1 producer, 2 contexts, IntStatus and EventFlagStatus, delay 2, interval 1, one id, 3 calls, clock 0..2 | pass, about 1.05M states, about 2 min 15 s |
| request | TypeOK, HeadersAsSent, QueryAsSent, RoutedToMatch, ResponseAsBuilt | GET and POST, paths `/a` and `/v/x`, up to two query pairs with keys and values of at most one byte, bytes `a % & =`, up to two headers, a body of 0 or 1 byte, routes GET `/a` (any TLS, JSON), GET `/v/*` (no TLS, blob), POST `/a` (TLS only, test payload), POST `/v/*` (no TLS, trace events); packets of 2 or 3 units, every send outcome, `TestChunk` 2 | pass, about 548k states, about 30 s |
| http | TypeOK, EntriesMatchSockets, DeliveredMatchesCommitted, ClientServed (liveness) | 2 sockets, 2 connections, 2 contexts, requests of 2 packets or a bad one, payloads 0 and 2, header 1, packets of 2, 1 failed allocation or blocked send | pass, about 187k states, about 100 s |
| httpempty | ResponseFinishes (liveness) | 1 socket, a 2-packet request, empty payloads, no stalls | violation: see findings |
| led | TypeOK, LedFollows (liveness) | 2 callers, 3 calls, 4 priorities, 3 patterns, 2 colours and 1 hex colour | pass, about 25k states |
| sync | PopPicksClosest | 3 streams, timestamps 0..3, 6 calls | pass, about 141k states, 5 s |
| frame | TypeOK, FinishedLayout, RoundTrip | all 9 structs, each added at most once, in every order; finish, adds after finish, clear | pass, about 5.6k states |

Why the bounds are enough:
- A page of two blocks and a slot of four give a full page, a partial page
  and a second page.
- Two handles give a reader beside a writer and a second writer being
  refused.
- Two creates give re-creation over an existing file.
- Revisions up to 3 let both copies be overwritten at least once.
- One fault or one power loss reaches every device write of every call.
- CommandQueue: two contexts and three calls fill both queues. They also
  let a context be reused after it is released and let a delayed command
  wait behind another. A delay of 2 on a clock of 0..2 gives a command that
  is not yet due and then is due. With two producers and one context, every
  call races for the same context, which is where the reuse hazards are.
- SequentialBuffer: an 8-byte file through a 3-byte buffer wraps both
  pointers at least twice. It reaches `r = w` both empty and full, and
  chunks of up to 3 bytes are split at the end of the array. A chunk of 0
  covers the rejected `data_size == 0`.
- RBS: four pulses over two tables give two flips in a row, a flip back,
  and a history that has to drop its oldest pulse. A queue of 2 fills up
  and drops a pulse. One reader is enough to be caught between two flips.
- Sync: timestamps 0..3 and six calls give a stream with packets on both
  sides of stream 1's packet, only before it, only after it, equal to it
  and tied, a second pop that reuses a packet, and a clear between pops.
- LED: two callers let a `set()` fall between the read and the set of a
  `set_from_hex`, and three calls let a pattern be set, overridden and
  disabled, or initialize run after a set. The timer's copy can be taken
  before any call and driven after it.
- HTTP: two sockets and two connections let a socket be reused after its
  disconnect closure ran, or while it has not. A queue of two contexts is
  filled by a connect and a data closure, so the third closure is dropped.
  A two-packet request needs two reads; a bad one gives a 400. A header of
  1 and a payload of 2 in packets of 2 make a response span two packets,
  the second one shared by header and payload. One stall reaches a failed
  allocation, a blocked send and a blocked dangling send.
- HTTP request: the bytes `%`, `&` and `=` must be escaped and `a` need
  not be, so query values exercise both decode paths and both hex cases.
  Two-byte names and paths are cut at every place. Two query pairs reach
  the loop's second iteration; two headers reach a name appended to the
  previous field. The three routes cover an exact route, a wildcard, each
  TLS rule, the method as the first key, and a 404.
- HTTP response: the header is 6 or 7 lines (status, 2 or 3 fields, end),
  so packets of 2 and 3 units make it end inside a packet, where the
  payload goes on in the same packet, and at a packet's end. A two-unit
  `PayloadTest` chunk makes the three-byte test payload take two reads. The
  two trace events make a first object with `[` and a last one with `]`
  in separate `get_read_ptr` calls. A send that blocks, fails or finds no
  packet is possible at every pass.
- Message frame: all nine structs and all 512 subsets of them, each reached
  in every order of adds. The buffer has the code's 512 bytes.

More configurations reproduce further findings. They are not listed as runs
in `PROJECT.json`; the hazards there point to them:

| Cfg | Property violated | What it shows |
|---|---|---|
| `MCSlotFS_wrap.cfg` | AckedDurable | revision 255 wraps to 0 (516 steps) |
| `MCSlotFS_alloc.cfg` | DurableContent | allocate drops staged data |
| `MCSlotFS_slotrange.cfg` | DurableContent | slot == slot_count accepted |
| `MCSlotFS_tornpage.cfg` | DurableContent | a torn rewrite of a committed block |
| `MCSlotFS_readwrite.cfg` | ReadHandleNeverWrites | a write through a Read handle reaches the device |
| `MCSlotFS_reinit.cfg` | SingleWriter | deinit and init with handles open |
| `MCSlotFS_retry.cfg` | DurableContent | after a failed page write, the next write and flush overwrite committed data |
| `MCSlotFS_format.cfg` | MetaRecoverable | a power loss during `sfs_format` after the configuration block |
| `MCSlotFS_overflow.cfg` | DurableContent | a slot size that is not a multiple of the page: the last page of slot 0 overwrites slot 1 |
| `MCCommandQueue_wrap.cfg` | NotEarly | `nowMs() + delay` wraps past zero and the command runs at once |
| `MCCommandQueue_timeout.cfg` | WaitedCommandHasRun | `EventFlagStatus::wait_for` returns after 2000 ms before the function ran |
| `MCCommandQueue_wakeup.cfg` | WaiterReturns | a reuse of the context clears the status before the waiter sees it |
| `MCRbsServer_torn.cfg` | ReaderConsistent | a reader reads `m` and `t` of two tables across two flips |
| `MCMessageFrame_truncated.cfg` | ParseInBounds | `get_frame_message_data` on a buffer cut inside a struct copies the struct from past `buffer_size` |
| `MCSlotFS_torn.cfg` | none: AckedDurable holds | torn blocks, allocate and writes through Read handles never roll back an acknowledged state |
| `MCHttpServer_dangling.cfg` | ResponseFinishes | a response whose last packet was dangling is never finished |
| `MCMessageFrame_addtwice.cfg` | FinishedLayout | a struct added twice is counted twice in `message_size` |
| `MCCommandQueue_threads.cfg` | none: TypeOK, RefCountMatches, CancelHonoured hold | two producers and one context with EventFlagStatus (about 2.2M states, about 22 s) |
| `MCHttpRequest_emptyvalue.cfg` | HeadersAsSent | a header with an empty value: the next header's name is appended to its name |
| `MCSlotFS_flusherr.cfg` | AckedDurable | a close whose metadata write failed returns Success; a power loss then loses the acknowledged state |
| `MCCommandQueue_race.cfg` | OneShotRunsAtMostOnce | two threads in `execute_async` take the same free context |
| `MCPacketSync_ub.cfg` | PopReadsInBounds | `find_closest_packet` reads before `begin()` or at `end()` |
| `MCPacketSync_partial.cfg` | PopsOnlyComplete | `pop` returns 0 while another stream is empty |
| `MCRgbLed_off.cfg` | LedShowsRequest | the LED stays lit after every priority is DISABLED, or after `initialize()` |
| `MCRgbLed_initrace.cfg` | ActiveIsTop | a `set()` between two iterations of `initialize()`'s unlocked reset loop leaves a lower priority enabled under a stale active pair |
| `MCRgbLed_hexrace.cfg` | HexKeepsPattern | `set_from_hex` stores the pattern another thread's `set()` just replaced |
| `MCHttpRequest_shadow.cfg` | ExactRouteWins | a wildcard route sorts before an exact one (`'*'` is 42) and handles its requests |

## Fairness

`Spec` has weak fairness on `CallStep`, the steps of a call already in
progress. The code runs each call to its end on the caller's thread, with
no waiting except on the device. The caller's choice to make a call is not
fair: a caller may stop at any time. That is also why deadlock checking
passes: a booted file system can always accept another call. Power loss and
faults are not fair either.

`CommandQueue`'s `Spec` has weak fairness on the worker's steps
(`WorkerStep`), on the clock (`Tick`) and on each producer's steps inside a
call (`ProducerStep(p)`). The worker calls `process()` in a loop
(`http_server.cpp:183`); the clock is a hardware tick; a thread inside a
call is not blocked except in the wait, which `WaitWoken` needs enabled.
Starting a call (`Call`, `CancelFind`) is not fair.

`SequentialBuffer`'s `Spec` has weak fairness on the writer's steps
(`WriterStep`) and on the reader's (`ReaderStep`).
- The reader is the TCP handler thread. It loops while a response is
  incomplete (`http_server.cpp:172`).
- The writer is the file I/O callback. It is assumed to keep writing until
  the file is in the buffer. That callback is outside `src/`.

`RbsServer`'s `Spec` has weak fairness on `process()`'s steps, which the
application calls in a loop, and on `stop()`'s steps once it is called.
Pulses, readers, `start`, `stop` and `suspend` are not fair.

`HttpServer`'s `Spec` has weak fairness on `process()` and on the pass
over the connections: the handler thread loops over both while
`m_tcp_handler_thread_should_run` is set. The pass is enabled exactly when
the thread is in it, because a pass in which every call succeeds is always
possible, and it is the only step out of it. So its weak fairness is
written as `PassEnds`, `[](hpc = 1 => <>(hpc = 0))`, which TLC checks
without evaluating the pass on every transition. Clients connect, send and
disconnect when they choose; the network's answers are not fair, but
`MaxStalls` bounds the failures. Deadlock is not checked: once every
client has gone, the handler thread waits in `process()` for ever, as the
code does.

`RgbLed`'s `Spec` has weak fairness on the two steps of the timed event:
once registered, the worker thread runs `on_led_update` every interval,
and nothing deregisters it for good. Callers are not fair. Deadlock is not
checked: with no timed event registered and the calls made, nothing runs.

`PacketSync`'s `Spec` has no fairness: one caller drives it, and its run
checks invariants only. Deadlock is not checked, because the object does
nothing once the caller stops or the assert has aborted.

`MessageFrame`'s `Spec` has no fairness. Its runs check invariants only,
and the builder is driven by whatever the caller does.

## Findings (details in PROJECT.json)

1. A WriteCreate open over an existing file writes copy A first, whichever
   copy is newest. A power loss between the A and B writes rolls the slot
   back to an older revision than the acknowledged one.
2. `sfs_file_flush` ignores the metadata write's result, so close returns
   Success for a state that is not on the device.
3. Two threads in `execute_async` at once can take the same free context.
   One function then runs twice and the other never runs.
4. An HTTP response with an empty payload (404, 400, `PayloadEmpty`) is
   never finished. The fill loop calls `commit_read` only for more than 0
   bytes, and the unit test shows that an empty body completes through
   `commit_read(0)`. The connection stays active: the handler thread polls
   every 1 ms until the client closes, and never reads another request on
   it. A response whose last packet had to be kept as the dangling packet
   ends the same way (`MCHttpServer_dangling.cfg`).
5. When every LED priority is DISABLED, `set()` keeps the last active
   pattern, and `initialize()` resets the priorities without touching it:
   the LED stays lit (`MCRgbLed_off.cfg`).
6. `set_from_hex` reads the active pattern without the mutex; a `set()` by
   another thread in between makes it bring back the replaced pattern
   (`MCRgbLed_hexrace.cfg`).

7. `pop` checks only stream 1. The unit test's comment, and a condition
   left commented out at `sync_packets.h:61`, say it fails while any
   stream is empty. It returns 0 and leaves an empty stream's output
   packet stale (`MCPacketSync_partial.cfg`).
8. `find_closest_packet` reads `std::prev(begin())` when stream 1's packet
   is not after any packet of a stream, and `*end()` when it is after all
   of them; the unit tests' own pops do both. Depending on what is read,
   `pop` returns a packet that was never pushed, or the assert aborts
   (`MCPacketSync_ub.cfg`).
9. `initialize()` resets `m_patterns` in a loop without the mutex and
   never updates `m_active_pattern`. A `set(0, white)` after the loop's
   first iteration, with red active at priority 1, is followed by the
   reset of priority 1: white is the highest enabled pair while red stays
   active and shown (`MCRgbLed_initrace.cfg`).

Findings 2, 3, 5, 6, 7, 8 and 9 are shown by reproduction cfgs, not
registered runs.

Further disagreements are kept as reproduction cfgs and hazards:
- A slot size that is not a multiple of the page makes the last page write
  into the next slot (`MCSlotFS_overflow.cfg`).
- A power loss during `sfs_format` after the configuration block leaves the
  slot's metadata unreadable for good (`MCSlotFS_format.cfg`).
- A `calculate_synced_time` caller that loaded the table pointer before two
  table changes reads `m` of one table and `t` of another. The double
  buffering protects only against one flip during a read
  (`MCRbsServer_torn.cfg`).
- After a failed page write, the next write and flush overwrite data
  already committed (`MCSlotFS_retry.cfg`).
- `get_frame_message_data` reads past a truncated buffer, and a struct
  added twice makes `message_size` wrong (`MCMessageFrame_*.cfg`).
  Nothing under `src/` calls the builder.
- A header with an empty value (`h:`) makes `on_header_field` treat the
  next name as a continuation of `h`, because it tells a new name from the
  rest of a cut one only by the last field having a value
  (`MCHttpRequest_emptyvalue.cfg`).
- Routes are tried in `std::map` order, where `/v/*` comes before `/v/x`,
  so a wildcard route shadows an exact route it covers
  (`MCHttpRequest_shadow.cfg`).

## Not modelled, and the plan

- Device read errors and the `int8_t` lock counter overflow (128 handles).
- HTTP: TLS (the same callbacks on a second server), `start` and `stop`,
  and `http_parser` itself, which is not in the repository. `HttpServer`
  takes a packet as its verdict and a handler as a payload size;
  `HttpRequest` models what lies between. `PayloadFile` is modelled with
  `SequentialBuffer`. The run's handlers use only status codes in
  `StatusCodes::codes`; with any other code `build_header_string` fails,
  `get_read_ptr` returns -1 on every pass and the response is never
  finished. The trace logger is not modelled: `PayloadTraceEvent` keeps a
  reference to its vector and computes Content-Length once, and with
  `MOTESQUE_ENABLE_EVENT_TRACE` the fill loop's own `TRACE_EVENT0` scopes
  add events to that vector while it is sent, so the client would get
  more than Content-Length and a `]` in the middle. In the request run
  the events do not change while they are sent.
- Allocation past the end of a slot.
- `check_monotonic_timestamp` compares with the vector's last packet only,
  so once `pop` has emptied stream 1, a packet older than the ones already
  handed out is accepted and paired with packets pushed after the closer
  ones were erased. `PacketSync` has this behaviour, but no property states
  what the caller expects of it: the code states no promise beyond one
  vector.
- The LED's PWM duty cycles, the fade and blink phases and the synced time
  behind them: floating point, and a function of time only.
- The byte layout of the RBS packets. `read_sync_packet` has no bound on
  its row loop (see the hazards).
- Planned next:
  - An abstract `SlotStore` specification (per slot: the last acknowledged
    file) that SlotFS refines where the findings above do not apply.
- Further components will share runs and MC modules with the existing ones
  where their bounds allow.
