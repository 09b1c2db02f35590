----------------------------- MODULE HttpServer -----------------------------
(***************************************************************************)
(* The HTTP server (lib_http/http_server.cpp).  The WICED network worker   *)
(* thread calls client_connected/data_received/disconnected; each callback *)
(* hands a closure to m_tcp_handler_thread_command_queue (execute_async,   *)
(* which drops it when no function context is free).  The tcp handler      *)
(* thread loops: process() runs at most one closure, waiting forever when  *)
(* no connection is active and one tick otherwise; then every entry of     *)
(* m_connected_sockets is served: a request is read from the socket until *)
(* it completes or fails, a response is made for it, and the response is   *)
(* written one packet per pass, a packet that would block being kept as    *)
(* the dangling packet and sent first on a later pass.                     *)
(*                                                                         *)
(* Data is counted in units: the response header is HdrLen units, a packet *)
(* holds Room units.  A request packet is named by what                    *)
(* HttpRequest::read_from says of it: "part" (Incomplete), "last"          *)
(* (Complete) or "bad" (Error).  A client sends one request per            *)
(* connection (every response carries "Connection: close").               *)
(***************************************************************************)
EXTENDS Naturals, Sequences, SequencesExt

CONSTANTS
  Sockets,       \* the wiced_tcp_socket_t of the listening servers
  Cap,           \* function contexts of the command queue (10)
  Shapes,        \* the request packet sequences a client may send
  PayloadSizes,  \* payload sizes of the responses handlers make (0: 404/empty)
  HdrLen,        \* units of a response header
  Room,          \* units a TCP packet holds
  MaxConns,      \* bound: connections accepted
  MaxStalls      \* bound: packet allocations that fail and sends that would block

ASSUME Cap \in Nat \ {0} /\ HdrLen \in Nat \ {0} /\ Room \in Nat \ {0}
ASSUME PayloadSizes \subseteq Nat /\ MaxConns \in Nat /\ MaxStalls \in Nat

VARIABLES
  stack,    \* each socket at the network stack: "listen", "open", "closing"
  rx,       \* the packets received on each socket and not read yet
  cmds,     \* the closures in the command queue, oldest first
  conns,    \* m_connected_sockets
  hpc,      \* the handler thread: 0 in process(), 1 in the pass over conns
  left,     \* ghost: the request packets each client still has to send
  got,      \* ghost: response units each client has received
  want,     \* ghost: the size of the response made for each client (0: none yet)
  lost,     \* ghost: sockets a closure of whose connection was dropped
  nconns,   \* ghost: connections accepted
  stalls    \* ghost: failed allocations and blocked sends

vars == <<stack, rx, cmds, conns, hpc, left, got, want, lost, nconns, stalls>>

Kind == {"part", "last", "bad"}

\* The network's answers to a pass's sends: all succeed, or the one that
\* does not.  A send fails (not would-block) only on a broken connection.
NetAnswer == {"ok", "dangling_blocks", "alloc_fails", "send_blocks", "send_fails"}
Cmd == [kind : {"conn", "data", "disc"}, sock : Sockets]

\* The TcpConnection pushed by the connect closure: no request, no
\* response (resp FALSE), no dangling packet (0), not active.
NewEntry(s) ==
  [sock |-> s, active |-> FALSE, req |-> FALSE, resp |-> FALSE,
   hdr |-> 0, pos |-> 0, size |-> 0, dangling |-> 0]

Init ==
  /\ stack = [s \in Sockets |-> "listen"] /\ rx = [s \in Sockets |-> <<>>]
  /\ cmds = <<>> /\ conns = <<>> /\ hpc = 0
  /\ left = [s \in Sockets |-> <<>>] /\ got = [s \in Sockets |-> 0]
  /\ want = [s \in Sockets |-> 0] /\ lost = {} /\ nconns = 0 /\ stalls = 0

-----------------------------------------------------------------------------
(* The network worker thread *)

\* Mutant: the closure is queued whether or not a context is free.
EnqueueUnbounded(c, base) == cmds' = Append(cmds, c) /\ lost' = base

\* execute_async: with a free function context the closure is queued;
\* otherwise it returns -1, which the callbacks ignore.
Enqueue(c, base) ==
  IF Len(cmds) < Cap
    THEN cmds' = Append(cmds, c) /\ lost' = base
    ELSE lost' = base \cup {c.sock} /\ UNCHANGED cmds

\* A client connects on a listening socket: client_connected_callback.
Connect(s, shape) ==
  /\ stack[s] = "listen" /\ nconns < MaxConns
  /\ stack' = [stack EXCEPT ![s] = "open"]
  /\ left' = [left EXCEPT ![s] = shape]
  /\ got' = [got EXCEPT ![s] = 0] /\ want' = [want EXCEPT ![s] = 0]
  /\ nconns' = nconns + 1
  /\ Enqueue([kind |-> "conn", sock |-> s], lost \ {s})
  /\ UNCHANGED <<rx, conns, hpc, stalls>>

\* The client sends its next request packet: client_data_received_callback.
Send(s) ==
  /\ stack[s] = "open" /\ left[s] # <<>>
  /\ rx' = [rx EXCEPT ![s] = Append(@, Head(left[s]))]
  /\ left' = [left EXCEPT ![s] = Tail(@)]
  /\ Enqueue([kind |-> "data", sock |-> s], lost)
  /\ UNCHANGED <<stack, conns, hpc, got, want, nconns, stalls>>

\* The client closes the connection: client_disconnected_callback.
Disconnect(s) ==
  /\ stack[s] = "open"
  /\ stack' = [stack EXCEPT ![s] = "closing"]
  /\ Enqueue([kind |-> "disc", sock |-> s], lost)
  /\ UNCHANGED <<rx, conns, hpc, left, got, want, nconns, stalls>>

-----------------------------------------------------------------------------
(* The closures, run by process() on the tcp handler thread *)

\* The first entry for socket s (find_if), 0 when there is none.
Find(cs, s) == SelectInSeq(cs, LAMBDA e : e.sock = s)

\* Mutant: the entry is left in the list.
EraseNone(cs, s) == cs

\* m_connected_sockets.erase(it) when find_if found an entry.
Erase(cs, s) == IF Find(cs, s) > 0 THEN RemoveAt(cs, Find(cs, s)) ELSE cs

\* accept, keepalive, push_back a TcpConnection.
RunConnect(s) ==
  /\ conns' = Append(conns, NewEntry(s))
  /\ UNCHANGED <<stack, rx>>

\* it->active = true for the socket's entry, if any.
RunData(s) ==
  /\ conns' = IF Find(conns, s) > 0
                THEN [conns EXCEPT ![Find(conns, s)].active = TRUE]
                ELSE conns
  /\ UNCHANGED <<stack, rx>>

\* wiced_tcp_server_disconnect_socket (the socket listens again and its
\* received data is dropped), then the entry is erased.
RunDisconnect(s) ==
  /\ stack' = [stack EXCEPT ![s] = "listen"]
  /\ rx' = [rx EXCEPT ![s] = <<>>]
  /\ conns' = Erase(conns, s)

-----------------------------------------------------------------------------
(* The tcp handler thread *)

\* Mutant: the loop always waits forever for the next command.
AnyActiveNone(cs) == FALSE

\* std::any_of(..., tc.active): the timeout is 1 tick if so, else forever.
AnyActive(cs) == \E i \in 1..Len(cs) : cs[i].active

\* process(timeout): the oldest closure runs; when there is none, the wait
\* returns after the tick if a connection is active and blocks otherwise.
\* Then the loop goes over the connections.
Process ==
  /\ hpc = 0
  /\ \/ /\ cmds # <<>>
        /\ cmds' = Tail(cmds)
        /\ LET c == Head(cmds) IN
           \/ c.kind = "conn" /\ RunConnect(c.sock)
           \/ c.kind = "data" /\ RunData(c.sock)
           \/ c.kind = "disc" /\ RunDisconnect(c.sock)
     \/ /\ cmds = <<>> /\ AnyActive(conns)
        /\ UNCHANGED <<cmds, conns, stack, rx>>
  /\ hpc' = IF conns' = <<>> THEN 0 ELSE 1
  /\ UNCHANGED <<left, got, want, lost, nconns, stalls>>

\* read_from's verdict on a packet.
Verdict(k) ==
  CASE k = "part" -> "incomplete" [] k = "last" -> "complete" [] k = "bad" -> "error"

\* read_http_request_from_socket: packets are received and parsed until one
\* makes the request complete or bad, or none is left; Undefined if none
\* was there.
RECURSIVE ReadRequest(_, _)
ReadRequest(q, res) ==
  IF q = <<>> THEN [res |-> res, rest |-> q]
  ELSE IF Verdict(Head(q)) = "incomplete" THEN ReadRequest(Tail(q), "incomplete")
  ELSE [res |-> Verdict(Head(q)), rest |-> Tail(q)]

\* The packet fill loop: get_read_ptr hands out the rest of the header,
\* then the rest of the payload; commit_read advances the header and says
\* Incomplete, or advances the payload and says Complete at its end.  The
\* loop stops when nothing is handed out or the packet is full.
RECURSIVE Fill(_, _, _)
Fill(e, room, st) ==
  LET avail == IF e.hdr < HdrLen THEN HdrLen - e.hdr ELSE e.size - e.pos
      n == IF avail < room THEN avail ELSE room
  IN IF avail = 0 \/ room = 0 THEN [e |-> e, room |-> room, res |-> st]
     ELSE IF e.hdr = HdrLen
       THEN Fill([e EXCEPT !.pos = @ + n], room - n,
                 IF e.pos + n = e.size THEN "complete" ELSE "incomplete")
       ELSE Fill([e EXCEPT !.hdr = @ + n], room - n, "incomplete")

\* Mutant: the pointer is not cleared after the packet went out.
SendDanglingKeep(e, net) ==
  IF net # "dangling_blocks" THEN [e |-> e, sent |-> e.dangling] ELSE [e |-> e, sent |-> 0]

\* send_dangling_packet: on success the packet is gone.
SendDangling(e, net) ==
  IF net # "dangling_blocks" THEN [e |-> [e EXCEPT !.dangling = 0], sent |-> e.dangling]
  ELSE [e |-> e, sent |-> 0]

\* write_http_response_to_socket: a packet that cannot be allocated makes
\* it return Incomplete; an empty packet is deleted; a packet that would
\* block becomes the dangling one (Incomplete); another send error is
\* Error.  Otherwise the fill loop's last commit_read result is returned.
Write(e, net) ==
  IF net = "alloc_fails" THEN [e |-> e, sent |-> 0, res |-> "incomplete", stall |-> 1]
  ELSE LET f == Fill(e, Room, "incomplete")
           used == Room - f.room
       IN CASE used = 0 -> [e |-> f.e, sent |-> 0, res |-> f.res, stall |-> 0]
            [] net = "send_blocks" -> [e |-> [f.e EXCEPT !.dangling = used], sent |-> 0,
                                 res |-> "incomplete", stall |-> 1]
            [] net = "send_fails" -> [e |-> f.e, sent |-> 0, res |-> "error", stall |-> 0]
            [] OTHER -> [e |-> f.e, sent |-> used, res |-> f.res, stall |-> 0]

\* A new response of payload size n (0 for 404 and 400).
Respond(e, n) == [e EXCEPT !.req = FALSE, !.resp = TRUE, !.hdr = 0, !.pos = 0, !.size = n]

\* The for_each body for conns[i], on the pass state h (the entries, the
\* sockets' received packets and the ghosts): make a request if there is
\* neither a request nor a response; read it; on Complete a handler (or
\* 404) makes the response, on Error a 400; with a response, send the
\* dangling packet and, if none is left, write; a response that is no
\* longer Incomplete is reset and the connection made inactive.  p is the
\* handler's payload size; net names the one network call of the pass that
\* does not succeed, if any (each of them ends the pass's sending).
Serve(h, i, p, net) ==
  LET e0 == h.conns[i]
      s == e0.sock
      e1 == IF ~e0.req /\ ~e0.resp THEN [e0 EXCEPT !.req = TRUE] ELSE e0
      rd == IF e1.req THEN ReadRequest(h.rx[s], "undefined") ELSE [res |-> "none", rest |-> h.rx[s]]
      e2 == CASE rd.res = "complete" -> Respond(e1, p)
              [] rd.res = "error" -> Respond(e1, 0)
              [] OTHER -> e1
      d == IF e2.resp /\ e2.dangling > 0 THEN SendDangling(e2, net) ELSE [e |-> e2, sent |-> 0]
      w == IF d.e.resp /\ d.e.dangling = 0 THEN Write(d.e, net)
           ELSE [e |-> d.e, sent |-> 0, res |-> "incomplete", stall |-> 0]
      e4 == IF w.res # "incomplete"
              THEN [w.e EXCEPT !.resp = FALSE, !.active = FALSE, !.hdr = 0, !.pos = 0, !.size = 0]
              ELSE w.e
      blocked == IF e2.dangling > 0 /\ net = "dangling_blocks" THEN 1 ELSE 0
  IN [ok |-> h.ok /\ (net = "send_fails" => stack[s] # "open")
                  /\ h.stalls + blocked + w.stall <= MaxStalls,
      stalls |-> h.stalls + blocked + w.stall,
      conns |-> [h.conns EXCEPT ![i] = e4],
      rx |-> [h.rx EXCEPT ![s] = rd.rest],
      got |-> [h.got EXCEPT ![s] = @ + d.sent + w.sent],
      want |-> IF rd.res \in {"complete", "error"}
                 THEN [h.want EXCEPT ![s] = HdrLen + e2.size] ELSE h.want]

\* std::for_each over m_connected_sockets, from entry i on.
RECURSIVE ServeFrom(_, _, _, _, _)
ServeFrom(h, i, ps, at, net) ==
  IF i > Len(h.conns) THEN h
  ELSE ServeFrom(Serve(h, i, ps[i], IF i = at THEN net ELSE "ok"), i + 1, ps, at, net)

\* One pass of the loop over the connections, after process() returned.
\* Only the handler thread changes the entries, and the network thread
\* only appends to a socket's received packets, which the pass reads when
\* it reaches the socket's entry; so the pass is taken as one step.  The
\* network's answer net is given to entry at; the others' calls succeed.
ServeAll(ps, at, net) ==
  LET h == ServeFrom([ok |-> TRUE, stalls |-> stalls, conns |-> conns, rx |-> rx,
                      got |-> got, want |-> want], 1, ps, at, net)
  IN /\ hpc = 1
     /\ h.ok
     /\ stalls' = h.stalls /\ conns' = h.conns /\ rx' = h.rx
     /\ got' = h.got /\ want' = h.want
     /\ hpc' = 0
     /\ UNCHANGED <<stack, cmds, left, lost, nconns>>

-----------------------------------------------------------------------------

HandlerStep ==
  \/ Process
  \/ \E ps \in [1..Len(conns) -> PayloadSizes], at \in 1..Len(conns), net \in NetAnswer :
       ServeAll(ps, at, net)

NetworkStep ==
  \E s \in Sockets :
    \/ \E shape \in Shapes : Connect(s, shape)
    \/ Send(s)
    \/ Disconnect(s)

Next == NetworkStep \/ HandlerStep

\* The handler thread runs whenever it is not blocked in process(): weak
\* fairness of process() and of the pass.  The pass is enabled exactly when
\* the thread is in it (every call succeeding is always a possible pass)
\* and is the only step that leaves it, so its weak fairness is written as
\* what it amounts to, which TLC checks without evaluating the pass on
\* every transition.  Clients connect, send and disconnect when they choose.
PassEnds == [](hpc = 1 => <>(hpc = 0))

Spec == Init /\ [][Next]_vars /\ WF_vars(Process) /\ PassEnds

-----------------------------------------------------------------------------
(* Properties *)

Entry == [sock : Sockets, active : BOOLEAN, req : BOOLEAN, resp : BOOLEAN,
          hdr : 0..HdrLen, pos : Nat, size : PayloadSizes \cup {0}, dangling : 0..Room]

TypeOK ==
  /\ stack \in [Sockets -> {"listen", "open", "closing"}]
  /\ rx \in [Sockets -> Seq(Kind)]
  /\ cmds \in Seq(Cmd) /\ Len(cmds) <= Cap
  /\ conns \in Seq(Entry) /\ hpc \in 0..1
  /\ lost \subseteq Sockets /\ stalls \in 0..MaxStalls

\* m_connected_sockets holds at most one entry per socket, and only for a
\* socket the stack has connected and not yet handed back to the listener:
\* the closures run in the order the callbacks queued them, and the
\* disconnect closure both frees the socket and erases its entry.  Also
\* when a closure was dropped.
EntriesMatchSockets ==
  \A i \in 1..Len(conns) :
    /\ stack[conns[i].sock] # "listen"
    /\ \A j \in 1..Len(conns) : i # j => conns[i].sock # conns[j].sock

\* What the client has received of a response in progress, plus what the
\* dangling packet holds, is exactly what commit_read has consumed of the
\* header and payload: a packet that would block is sent later and once,
\* nothing is sent twice and nothing committed is lost.
DeliveredMatchesCommitted ==
  \A i \in 1..Len(conns) :
    conns[i].resp =>
      got[conns[i].sock] + conns[i].dangling = conns[i].hdr + conns[i].pos

\* A client that has sent its whole request, and none of whose callbacks
\* was dropped, receives the whole response (header and payload) unless it
\* disconnects: the handler thread keeps polling while the connection is
\* active, including after a send that would block.
ClientServed ==
  \A s \in Sockets :
    (stack[s] = "open" /\ left[s] = <<>> /\ s \notin lost)
      ~> (stack[s] # "open" \/ s \in lost \/ (want[s] > 0 /\ got[s] = want[s]))

\* Every response the handler starts is eventually finished: it is reset
\* and the connection made inactive, so the next request on the socket is
\* read (tcp_handler_thread_main resets it when write_http_response_to_socket
\* no longer says Incomplete).  tests/http_response.t.cpp shows an empty
\* body ending with commit_read(0), which returns Complete.
ResponseFinishes ==
  \A s \in Sockets :
    (\E i \in 1..Len(conns) : conns[i].sock = s /\ conns[i].resp)
      ~> ~(\E i \in 1..Len(conns) : conns[i].sock = s /\ conns[i].resp)

====
