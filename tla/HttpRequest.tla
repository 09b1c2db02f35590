---------------------------- MODULE HttpRequest ----------------------------
(***************************************************************************)
(* One connection's request side in the HTTP server: the handler thread    *)
(* gives every received packet to HttpRequest::read_from                   *)
(* (http_server.cpp read_http_request_from_socket); http_parser, which is  *)
(* not part of this repository, calls back on_url, on_header_field,        *)
(* on_header_value, on_headers_complete, on_body and on_message_complete   *)
(* (http_request.cpp), which build the request object.  A complete        *)
(* request is routed with find_http_handler, an erroneous one gets 400,    *)
(* and the connection later makes a fresh HttpRequest for the next one.    *)
(*                                                                         *)
(* A string is a sequence of byte values.  The environment is the client:  *)
(* Init and NewRequest choose the request it sends (the ghost sent), how   *)
(* its query is percent-encoded, and where TCP cuts header names, which    *)
(* http_parser hands over in two calls.  A packet is one callback.         *)
(*                                                                         *)
(* The handler fills an HttpResponse with a status code and a payload;     *)
(* each pass of the handler loop sends a dangling packet, then fills a     *)
(* packet from get_read_ptr/commit_read and sends it (http_response.cpp,   *)
(* http_payload.cpp, http_payload_trace_event.h, http_server.cpp).         *)
(***************************************************************************)
EXTENDS Naturals, Sequences, SequencesExt, TLC

CONSTANTS
  Methods,      \* http_method values (HTTP_GET = 1, HTTP_POST = 3)
  Paths,        \* request paths
  QueryLists,   \* the key/value pairs a client puts in the query
  QueryBytes,   \* bytes keys and values are made of
  HeaderLists,  \* the header name/value lists a client sends
  Bodies,       \* request bodies
  Routes,       \* the HttpHandlerMap: [method, path, tls, h] records
  Handlers,     \* what each handler puts in the response: [code, payload]
  StatusCodes,  \* the keys of StatusCodes::codes
  Rooms,        \* the sizes a packet wiced_packet_create_tcp_no_wait gives may have
  TestChunk,    \* sizeof(PayloadTest::m_domain)
  SendResults   \* outcomes of a send: "ok", "block", "fail", "nopacket"

\* '%', '&', '=', '?' and '*'
PCT == 37
AMP == 38
EQ == 61
QM == 63
STAR == 42

\* MethodPath's tls_match values
TLS_MATCH_NONE == 0
TLS_MATCH_ONLY == 1

VARIABLES
  sent,   \* ghost: the request the client sends
  pkts,   \* the parser callbacks still to come, one per packet
  req,    \* the HttpRequest object
  res,    \* what read_http_request_from_socket returned last
  status, \* the response's status: 0 none yet, 400, 404 or a handler id
  resp,   \* the HttpResponse object
  got,    \* ghost: what the client has received of the response
  dangling, \* tcp_dangling_packet
  wres    \* what write_http_response_to_socket returned last

vars == <<sent, pkts, req, res, status, resp, got, dangling, wres>>

NoResponse == [none |-> TRUE]

-----------------------------------------------------------------------------
(* The client *)

\* A byte as %XX, with upper or lower case hex digits.
HexDigit(v, up) == IF v < 10 THEN 48 + v ELSE (IF up THEN 55 ELSE 87) + v
Escaped(b) == {<<PCT, HexDigit(b \div 16, up), HexDigit(b % 16, up)>> : up \in BOOLEAN}

\* A byte is sent as itself unless it is '%', '&' or '=', or escaped.
ByteEnc(b) == (IF b \in {PCT, AMP, EQ} THEN {} ELSE {<<b>>}) \cup Escaped(b)

RECURSIVE Encodings(_)
Encodings(s) ==
  IF s = <<>> THEN {<<>>}
  ELSE {c \o t : c \in ByteEnc(Head(s)), t \in Encodings(Tail(s))}

\* key=value pairs joined by '&'.
RECURSIVE QueryStrings(_)
QueryStrings(ps) ==
  IF ps = <<>> THEN {<<>>}
  ELSE {k \o <<EQ>> \o v \o (IF Len(ps) = 1 THEN <<>> ELSE <<AMP>>) \o t :
          k \in Encodings(Head(ps)[1]), v \in Encodings(Head(ps)[2]),
          t \in QueryStrings(Tail(ps))}

\* A header name reaches on_header_field whole, or in two pieces.
NamePieces(n) == {<<n>>} \cup {<<SubSeq(n, 1, k), SubSeq(n, k + 1, Len(n))>> : k \in 1..Len(n)-1}

RECURSIVE HeaderEvents(_)
HeaderEvents(hs) ==
  IF hs = <<>> THEN {<<>>}
  ELSE {[i \in DOMAIN ps |-> [cb |-> "field", data |-> ps[i]]]
          \o <<[cb |-> "value", data |-> Head(hs)[2]]>> \o t :
          ps \in NamePieces(Head(hs)[1]), t \in HeaderEvents(Tail(hs))}

NoRequest == [none |-> TRUE]

Event(cb) == [cb |-> cb, data |-> <<>>]

Sent == [method : Methods, path : Paths, query : QueryLists,
         headers : HeaderLists, body : Bodies, tls : BOOLEAN, bad : BOOLEAN]

\* The callbacks http_parser makes for request s.  A bad request (a broken
\* request line, as in the unit test) fails after the url.
Events(s) ==
  UNION {{IF s.bad
            THEN <<[cb |-> "url", data |-> s.path \o q], Event("error")>>
            ELSE <<[cb |-> "url", data |-> s.path \o q]>> \o h
                   \o <<Event("headers")>> \o b \o <<Event("message")>>} :
           q \in {IF s.query = <<>> THEN <<>> ELSE <<QM>> \o qs : qs \in QueryStrings(s.query)},
           h \in HeaderEvents(s.headers),
           b \in {IF s.body = <<>> THEN <<>> ELSE <<[cb |-> "body", data |-> s.body]>>}}

-----------------------------------------------------------------------------
(* The request object (http_request.cpp) *)

\* HttpRequest(): no url, headers or query, m_state Incomplete.
NewReq == [url |-> <<>>, fields |-> <<>>, body |-> <<>>, path |-> <<>>,
           query |-> <<>>, state |-> "incomplete"]

\* Mutant: every piece of a field name starts a new header.
NewFieldAlways(r) == TRUE

\* on_header_field starts a new field when there is none or the last one
\* already has a value; otherwise the piece continues the last name.
NewField(r) == r.fields = <<>> \/ Last(r.fields)[2] # <<>>

OnHeaderField(r, d) ==
  IF NewField(r) THEN [r EXCEPT !.fields = Append(@, <<d, <<>>>>)]
  ELSE [r EXCEPT !.fields[Len(r.fields)][1] = @ \o d]

OnHeaderValue(r, d) == [r EXCEPT !.fields[Len(r.fields)][2] = @ \o d]

OnUrl(r, d) == [r EXCEPT !.url = @ \o d]

OnBody(r, d) == [r EXCEPT !.body = @ \o d]

IsXDigit(c) == c \in (48..57) \cup (65..70) \cup (97..102)

\* Mutant: lower case hex digits are taken as upper case ones.
HexValNoLower(c) == c - (IF c <= 57 THEN 48 ELSE 55)

\* sSource[i] -= sSource[i] <= '9' ? '0' : (sSource[i] <= 'F' ? 'A' : 'a') - 10
HexVal(c) == c - (IF c <= 57 THEN 48 ELSE IF c <= 70 THEN 55 ELSE 87)

\* decode_uri_escape_sequences: %XX with two hex digits becomes one byte,
\* everything else is copied.
RECURSIVE Decode(_)
Decode(s) ==
  IF s = <<>> THEN <<>>
  ELSE IF Head(s) = PCT /\ Len(s) >= 3 /\ IsXDigit(s[2]) /\ IsXDigit(s[3])
    THEN <<16 * HexVal(s[2]) + HexVal(s[3])>> \o Decode(SubSeq(s, 4, Len(s)))
    ELSE <<Head(s)>> \o Decode(Tail(s))

\* The kv pair decoded in place, as the code does before push_back.
Push(out, k, v) == Append(out, <<Decode(k), Decode(v)>>)

\* on_headers_complete's loop over the query: '=' ends the name, '&' ends
\* the value and pushes the pair; kv lives across pairs, so a pair without
\* '=' keeps the previous (decoded) name.  After the loop the last value
\* is assigned and pushed.
RECURSIVE QueryLoop(_, _, _, _, _)
QueryLoop(q, pos, cursor, k, out) ==
  IF pos > Len(q) THEN Push(out, k, SubSeq(q, cursor, Len(q)))
  ELSE IF q[pos] = EQ
    THEN QueryLoop(q, pos + 1, pos + 1, SubSeq(q, cursor, pos - 1), out)
  ELSE IF q[pos] = AMP
    THEN QueryLoop(q, pos + 1, pos + 1, Decode(k), Push(out, k, SubSeq(q, cursor, pos - 1)))
  ELSE QueryLoop(q, pos + 1, cursor, k, out)

\* http_parser_parse_url splits the url at its first '?'; the path is
\* assigned, and a present query is parsed.
OnHeadersComplete(r) ==
  LET i == SelectInSeq(r.url, LAMBDA c : c = QM)
  IN IF i = 0 THEN [r EXCEPT !.path = r.url]
     ELSE [r EXCEPT !.path = SubSeq(r.url, 1, i - 1),
                    !.query = QueryLoop(SubSeq(r.url, i + 1, Len(r.url)), 1, 1,
                                        <<>>, <<>>)]

OnMessageComplete(r) == [r EXCEPT !.state = "complete"]

Callback(r, e) ==
  CASE e.cb = "url"     -> OnUrl(r, e.data)
    [] e.cb = "field"   -> OnHeaderField(r, e.data)
    [] e.cb = "value"   -> OnHeaderValue(r, e.data)
    [] e.cb = "body"    -> OnBody(r, e.data)
    [] e.cb = "headers" -> OnHeadersComplete(r)
    [] e.cb = "message" -> OnMessageComplete(r)
    [] OTHER            -> r

-----------------------------------------------------------------------------
(* Routing *)

\* MethodPath's operator<: by method, then by path.  std::string compares
\* bytes lexicographically.
RECURSIVE StrLess(_, _)
StrLess(a, b) ==
  IF b = <<>> THEN FALSE
  ELSE IF a = <<>> THEN TRUE
  ELSE IF Head(a) # Head(b) THEN Head(a) < Head(b)
  ELSE StrLess(Tail(a), Tail(b))

RouteLess(a, b) == a.method < b.method \/ (a.method = b.method /\ StrLess(a.path, b.path))

\* The map iterates its routes in key order.
RouteMap == SortSeq(Routes, RouteLess)

\* Mutant: the TLS mode of a route is not checked.
TlsAdmitsAny(rt, tls) == TRUE

TlsAdmits(rt, tls) ==
  ~((rt.tls = TLS_MATCH_NONE /\ tls) \/ (rt.tls = TLS_MATCH_ONLY /\ ~tls))

\* Mutant: only a '*' at the first difference matches.
PathMatchesWildcardOnly(rp, p) ==
  LET d == {k \in 1..Len(rp) : rp[k] # p[k]}
      k == IF d = {} THEN Len(rp) + 1 ELSE Min(d)
  IN k <= Len(rp) /\ rp[k] = STAR

\* std::mismatch, then *first == *second || *first == '*'; at the end of a
\* string the dereference reads its terminating 0.
PathMatches(rp, p) ==
  LET d == {k \in 1..Len(rp) : rp[k] # p[k]}
      k == IF d = {} THEN Len(rp) + 1 ELSE Min(d)
      a == IF k > Len(rp) THEN 0 ELSE rp[k]
      b == IF k > Len(p) THEN 0 ELSE p[k]
  IN a = b \/ a = STAR

\* find_http_handler's find_if predicate.
Matches(rt, m, p, tls) ==
  /\ TlsAdmits(rt, tls)
  /\ ~(Len(rt.path) > Len(p) \/ rt.method # m)
  /\ PathMatches(rt.path, p)

\* The handler of the first matching route, or -1 (404 at the caller).
FindHandler(m, p, tls) ==
  LET i == SelectInSeq(RouteMap, LAMBDA rt : Matches(rt, m, p, tls))
  IN IF i = 0 THEN 404 ELSE RouteMap[i].h

-----------------------------------------------------------------------------
(* The response (http_response.cpp, http_payload.{h,cpp}).  The header is *)
(* a sequence of lines: the status line, one line per header field, the   *)
(* empty line; the payload a sequence of bytes.  A packet has room for a *)
(* number of them the network stack chooses.                              *)

Line(k, v) == [k |-> k, v |-> v]

\* A payload: its class, its content, m_pos (m_text_pos, m_size_pos) and
\* the m_headers its constructor pushed.
CL(n) == Line("Content-Length", n)
Close == Line("Connection", "close")

\* PayloadEmpty(): Content-Length 0, Connection close.
PayloadEmpty == [kind |-> "empty", data |-> <<>>, pos |-> 0, hdrs |-> <<CL(0), Close>>]

\* PayloadEmpty::get_read_ptr gives no data; commit_read is always Complete.
EmptyReadPtr(p) == <<>>
EmptyCommit(p, n) == [p |-> p, res |-> "complete"]

\* PayloadJson::init_default_headers: size() as Content-Length, then the
\* type and Connection close.
JsonHeaders(d) == <<CL(Len(d)), Line("Content-Type", "application/json"), Close>>

\* The PayloadJson constructors: the text, m_text_pos 0, the headers.
PayloadJson(d) == [kind |-> "json", data |-> d, pos |-> 0, hdrs |-> JsonHeaders(d)]

\* PayloadJson::get_read_ptr: the text from m_text_pos on.
TextReadPtr(p) == SubSeq(p.data, p.pos + 1, Len(p.data))

\* commit_read advances the position; Complete when it reaches the size.
PosCommit(p, n) ==
  LET q == [p EXCEPT !.pos = @ + n]
  IN [p |-> q, res |-> IF q.pos = Len(q.data) THEN "complete" ELSE "incomplete"]

\* PayloadTest(size): size copies of 0xAC, sent from the m_domain buffer.
PayloadTest(n) ==
  [kind |-> "test", data |-> [i \in 1..n |-> Line("byte", 172)], pos |-> 0,
   hdrs |-> <<CL(n), Line("Content-Type", "application/octet-stream"), Close>>]

\* PayloadTest::get_read_ptr: min(m_size - m_size_pos, sizeof(m_domain)).
TestReadPtr(p) == SubSeq(p.data, p.pos + 1, Min({Len(p.data), p.pos + TestChunk}))

\* PayloadBlob(data) and its init_default_headers (type first).
PayloadBlob(d) ==
  [kind |-> "blob", data |-> d, pos |-> 0,
   hdrs |-> <<Line("Content-Type", "application/octet-stream"), CL(Len(d)), Close>>]

\* '[', ',' and ']'
LBRACKET == Line("byte", 91)
COMMA == Line("byte", 44)
RBRACKET == Line("byte", 93)

\* lw_event_trace::to_json: one event as a JSON object followed by ','.
ToJson(e) == <<Line("event", e), COMMA>>

\* PayloadTraceEvent(events) keeps a reference to the logger's events
\* (data), m_cur_event_json (cur) with its cursor, and m_event_index (pos);
\* its Content-Length is 1 (the '[') plus std::accumulate of to_json's
\* sizes over the events at construction.
PayloadTraceEvent(es) ==
  [kind |-> "trace", data |-> es, pos |-> 0, cur |-> <<>>, cursor |-> 0,
   hdrs |-> <<Line("Content-Type", "application/json"),
              CL(1 + FoldLeft(LAMBDA a, e : a + Len(ToJson(e)), 0, es)), Close>>]

\* PayloadTraceEvent::get_read_ptr first makes the next event's JSON when
\* the current one is sent and events remain: '[' before the first, and
\* the last one's trailing ',' replaced by ']'.
TraceNext(p) ==
  IF p.cursor = Len(p.cur) /\ p.pos < Len(p.data)
    THEN LET j == ToJson(p.data[p.pos + 1])
             j1 == IF p.pos = 0 THEN <<LBRACKET>> \o j ELSE j
             j2 == IF p.pos = Len(p.data) - 1 THEN [j1 EXCEPT ![Len(j1)] = RBRACKET] ELSE j1
         IN [p EXCEPT !.cur = j2, !.cursor = 0, !.pos = @ + 1]
    ELSE p

\* ... and then hands out the rest of the current JSON.
TraceReadPtr(p) == SubSeq(p.cur, p.cursor + 1, Len(p.cur))

\* PayloadTraceEvent::commit_read: Complete when the current JSON is sent
\* and no event remains.
TraceCommit(p, n) ==
  LET q == [p EXCEPT !.cursor = @ + n]
  IN [p |-> q, res |-> IF q.cursor = Len(q.cur) /\ q.pos >= Len(q.data)
                         THEN "complete" ELSE "incomplete"]

\* The virtual calls of Payload, dispatched on the class.  Only
\* PayloadTraceEvent's get_read_ptr changes the payload (PayloadGet).
PayloadGet(p) == IF p.kind = "trace" THEN TraceNext(p) ELSE p

PayloadReadPtr(p) ==
  CASE p.kind = "empty" -> EmptyReadPtr(p)
    [] p.kind = "test"  -> TestReadPtr(p)
    [] p.kind = "trace" -> TraceReadPtr(p)
    [] OTHER            -> TextReadPtr(p)

PayloadCommit(p, n) ==
  CASE p.kind = "empty" -> EmptyCommit(p, n)
    [] p.kind = "trace" -> TraceCommit(p, n)
    [] OTHER            -> PosCommit(p, n)

\* HttpResponse(): status 0 and set_payload(PayloadEmpty).
NewResponse == [code |-> 0, fields |-> PayloadEmpty.hdrs,
                payload |-> PayloadEmpty, hdr |-> <<>>, hpos |-> 0]

\* set_payload replaces the header fields by the payload's.
SetPayload(r, p) == [r EXCEPT !.fields = p.hdrs, !.payload = p]

\* build_header_string: the status line, the fields, the empty line.
BuildHeader(r) == <<Line("status", r.code)>> \o r.fields \o <<Line("end", 0)>>

\* get_read_ptr builds m_header the first time, unless the status code is
\* not in StatusCodes::codes; m_header stays empty then.
Prepared(r) ==
  IF r.hdr = <<>> /\ r.code \in StatusCodes
    THEN [r EXCEPT !.hdr = BuildHeader(r), !.hpos = 0] ELSE r

\* get_read_ptr's effect on the response: the header is prepared and, once
\* it is sent, the payload's get_read_ptr is called.
GetReadPtr(r) ==
  LET p == Prepared(r)
  IN IF p.hdr # <<>> /\ p.hpos = Len(p.hdr)
       THEN [p EXCEPT !.payload = PayloadGet(@)] ELSE p

\* get_read_ptr on a prepared response: -1 without a header, then the rest
\* of the header, then the payload's data.
ReadPtr(r) ==
  IF r.hdr = <<>> THEN [rc |-> -1, data |-> <<>>]
  ELSE IF r.hpos < Len(r.hdr) THEN [rc |-> 0, data |-> SubSeq(r.hdr, r.hpos + 1, Len(r.hdr))]
  ELSE [rc |-> 0, data |-> PayloadReadPtr(r.payload)]

\* Mutant: the header's last commit already says Complete.
CommitReadHeaderEnd(r, n) ==
  IF r.hpos = Len(r.hdr) THEN LET c == PayloadCommit(r.payload, n)
                              IN [r |-> [r EXCEPT !.payload = c.p], res |-> c.res]
  ELSE [r |-> [r EXCEPT !.hpos = @ + n],
        res |-> IF r.hpos + n = Len(r.hdr) THEN "complete" ELSE "incomplete"]

\* commit_read: to the payload once the header is through, otherwise the
\* header position advances and the result is Incomplete.
CommitRead(r, n) ==
  IF r.hpos = Len(r.hdr) THEN LET c == PayloadCommit(r.payload, n)
                              IN [r |-> [r EXCEPT !.payload = c.p], res |-> c.res]
  ELSE [r |-> [r EXCEPT !.hpos = @ + n], res |-> "incomplete"]

\* Mutant: should_send_size is the whole of response_data_size.
RECURSIVE FillNoRoom(_, _, _, _)
FillNoRoom(r, room, pkt, st) ==
  LET p == GetReadPtr(r)
      d == ReadPtr(p).data
      c == CommitRead(p, Len(d))
  IN IF ReadPtr(p).rc = 0 /\ d # <<>> /\ room > 0
       THEN FillNoRoom(c.r, room - Len(d), pkt \o d, c.res)
       ELSE [r |-> p, pkt |-> pkt, res |-> st]

\* write_http_response_to_socket's fill loop: while get_read_ptr succeeds
\* with data and the packet has room, copy and commit what fits.
RECURSIVE Fill(_, _, _, _)
Fill(r, room, pkt, st) ==
  LET p == GetReadPtr(r)
      d == ReadPtr(p).data
      n == Min({Len(d), room})
      c == CommitRead(p, n)
  IN IF ReadPtr(p).rc = 0 /\ d # <<>> /\ room > 0
       THEN Fill(c.r, room - n, pkt \o SubSeq(d, 1, n), c.res)
       ELSE [r |-> p, pkt |-> pkt, res |-> st]

\* The rest of write_http_response_to_socket after a packet is allocated:
\* an empty packet is deleted; a full one is sent, kept as the dangling
\* packet when the send would block (Incomplete), or deleted when the send
\* fails (Error).
WriteResponse(r, room, s) ==
  LET f == Fill(r, room, <<>>, "incomplete")
  IN IF f.pkt = <<>> \/ s = "ok" THEN [r |-> f.r, sent |-> f.pkt, dang |-> <<>>, res |-> f.res]
     ELSE IF s = "block" THEN [r |-> f.r, sent |-> <<>>, dang |-> f.pkt, res |-> "incomplete"]
     ELSE [r |-> f.r, sent |-> <<>>, dang |-> <<>>, res |-> "error"]

-----------------------------------------------------------------------------
(* The connection *)

\* A connection before the client has sent anything: the handler loop has
\* made its HttpRequest.
Init ==
  /\ sent = NoRequest /\ pkts = <<>>
  /\ req = NewReq /\ res = "undefined" /\ status = 0
  /\ resp = NoResponse /\ got = <<>> /\ dangling = <<>> /\ wres = "undefined"

\* The client sends a request, which TCP delivers in packets.
Send ==
  /\ sent = NoRequest
  /\ sent' \in Sent
  /\ pkts' \in Events(sent')
  /\ UNCHANGED <<req, res, status, resp, got, dangling, wres>>

\* read_from on a packet: http_parser makes its callback; a parse error
\* returns Error (nparsed != data_size), otherwise m_state.  The loop stops
\* reading at Complete or Error, so read_from's early return on a request
\* that is no longer Incomplete is not reached from the server.
ReadFrom ==
  /\ pkts # <<>> /\ res \in {"undefined", "incomplete"}
  /\ LET e == Head(pkts) IN
     /\ req' = Callback(req, e)
     /\ res' = IF e.cb = "error" THEN "error" ELSE req'.state
  /\ pkts' = Tail(pkts)
  /\ UNCHANGED <<sent, status, resp, got, dangling, wres>>

\* The handler, application code: it sets the status code and a payload.
Handle(r, h) == SetPayload([r EXCEPT !.code = Handlers[h].code], Handlers[h].payload)

\* A complete request is routed to its handler, or answered 404 when none
\* matches; an erroneous one is answered 400.  The response is a new
\* HttpResponse; the request object is released.
Respond ==
  /\ res \in {"complete", "error"} /\ status = 0
  /\ LET h == FindHandler(sent.method, req.path, sent.tls)
     IN /\ status' = IF res = "error" THEN 400 ELSE h
        /\ resp' = IF res = "error" \/ h = 404
                     THEN [NewResponse EXCEPT !.code = status']
                     ELSE Handle(NewResponse, h)
  /\ res' = "undefined" /\ wres' = "incomplete"
  /\ UNCHANGED <<sent, pkts, req, got, dangling>>

\* One pass of the handler loop over the connection with a response: a
\* dangling packet is sent first (a send that fails again changes
\* nothing); without one a packet is allocated ("nopacket": it is not),
\* filled and sent.  A result other than Incomplete ends the response.
Serve ==
  /\ resp # NoResponse /\ wres = "incomplete"
  /\ \E s \in SendResults, room \in Rooms :
       LET w == IF s = "nopacket"
                  THEN [r |-> resp, sent |-> <<>>, dang |-> <<>>, res |-> "incomplete"]
                  ELSE WriteResponse(resp, room, s)
       IN /\ resp' = w.r /\ got' = got \o dangling \o w.sent
          /\ dangling' = w.dang /\ wres' = w.res
  /\ UNCHANGED <<sent, pkts, req, res, status>>

\* Once the response is done (tc.response.reset()) the loop makes a fresh
\* HttpRequest for the client's next request.
NewRequest ==
  /\ wres \in {"complete", "error"}
  /\ sent' = NoRequest /\ pkts' = <<>>
  /\ req' = NewReq /\ status' = 0
  /\ resp' = NoResponse /\ got' = <<>> /\ wres' = "undefined"
  /\ UNCHANGED <<res, dangling>>

Next == Send \/ ReadFrom \/ Respond \/ Serve \/ NewRequest

Spec == Init /\ [][Next]_vars

-----------------------------------------------------------------------------
(* Properties *)

Str == Seq(0..255)

TypeOK ==
  /\ sent \in Sent \cup {NoRequest}
  /\ req.url \in Str /\ req.path \in Str /\ req.body \in Str
  /\ \A i \in DOMAIN req.query : req.query[i] \in Str \X Str
  /\ \A i \in DOMAIN req.fields : req.fields[i] \in Str \X Str
  /\ res \in {"undefined", "incomplete", "complete", "error"}
  /\ status \in {0, 400, 404} \cup {rt.h : rt \in ToSet(Routes)}
  /\ wres \in {"undefined", "incomplete", "complete", "error"}
  /\ \E room \in Rooms : Len(dangling) <= room

\* However TCP cuts the header names, a complete request holds exactly the
\* headers the client sent, in order (on_header_field decides from the
\* last field's value whether a piece starts a new name).
HeadersAsSent ==
  res = "complete" => req.fields = sent.headers /\ req.body = sent.body

\* A complete request's query parameters are the pairs the client sent,
\* decoded, whichever way it percent-encoded them.
QueryAsSent ==
  res = "complete" => req.query = sent.query

\* The comment in find_http_handler: a route matches when its path equals
\* the request's, or has a '*' at the first place they differ.
CommentMatch(rt, m, p, tls) ==
  /\ TlsAdmits(rt, tls) /\ rt.method = m
  /\ \/ rt.path = p
     \/ \E k \in 1..Len(rt.path) :
          /\ rt.path[k] = STAR
          /\ SubSeq(rt.path, 1, k - 1) = SubSeq(p, 1, k - 1)
          /\ k > Len(p) \/ p[k] # STAR

\* A routed request goes to a route that matches it by method, TLS mode
\* and path, and a request whose path and method equal a route admitting
\* its connection never gets 404.
RoutedToMatch ==
  /\ status \notin {0, 400, 404} =>
       \E rt \in ToSet(Routes) : rt.h = status /\ CommentMatch(rt, sent.method, req.path, sent.tls)
  /\ status = 404 =>
       ~\E rt \in ToSet(Routes) :
          rt.method = sent.method /\ rt.path = req.path /\ TlsAdmits(rt, sent.tls)

\* The content a payload promises: its bytes, or for PayloadTraceEvent its
\* events as one JSON array, '[' then the objects separated by ',' then ']'.
Content(p) ==
  IF p.kind # "trace" THEN p.data
  ELSE <<LBRACKET>>
       \o FlattenSeq([i \in DOMAIN p.data |-> (IF i = 1 THEN <<>> ELSE <<COMMA>>)
                                              \o <<Line("event", p.data[i])>>])
       \o <<RBRACKET>>

\* What the client receives is always the start of the header that
\* build_header_string makes followed by the payload's content, and when
\* write_http_response_to_socket says Complete it has all of it, with a
\* Content-Length equal to the content it got: header and payload hand
\* over in commit_read, across packets, dangling packets, PayloadTest's
\* chunks and PayloadTraceEvent's objects made one at a time.
ResponseAsBuilt ==
  resp # NoResponse =>
    LET whole == BuildHeader(resp) \o Content(resp.payload)
    IN /\ IsPrefix(got, whole)
       /\ wres = "complete" =>
            /\ got = whole
            /\ Line("Content-Length", Len(Content(resp.payload))) \in ToSet(resp.fields)

\* A request whose path and method equal a route's is handled by that
\* route, not by a wildcard route that sorts before it.
ExactRouteWins ==
  status \notin {0, 400, 404} =>
    \A rt \in ToSet(Routes) :
      (rt.method = sent.method /\ rt.path = req.path /\ TlsAdmits(rt, sent.tls))
        => status = rt.h

====
