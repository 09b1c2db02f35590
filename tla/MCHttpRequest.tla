--------------------------- MODULE MCHttpRequest ---------------------------
(***************************************************************************)
(* Small requests for HttpRequest: paths "/a" and "/v/x", one or two       *)
(* query pairs over the bytes of QueryBytes, headers "h" and "hk" (the     *)
(* second may be cut in two), GET and POST, with and without TLS.  The     *)
(* routes are an exact GET "/a" for both TLS modes, a wildcard GET "/v/*"  *)
(* for plain connections, a POST "/a" for TLS only and a wildcard POST    *)
(* "/v/*" answered with trace events.                                      *)
(***************************************************************************)
EXTENDS HttpRequest

\* '/', 'a', 'v', 'x', 'h', 'k', 'e'
SL == 47
CA == 97
CV == 118
CX == 120
CH == 104
CK == 107
CE == 101

MCPaths == {<<SL, CA>>, <<SL, CV, SL, CX>>}

MCQueryBytes == {CA, PCT, AMP, EQ}

Pair == {<<k, v>> : k \in {<<CA>>, <<CK>>}, v \in {<<>>} \cup {<<b>> : b \in QueryBytes}}

MCQueryLists == {<<>>} \cup {<<p>> : p \in Pair} \cup {<<<<<<CK>>, <<CE>>>>, p>> : p \in Pair}

\* Header values are never empty here; MCHttpRequest_emptyvalue.cfg adds
\* an empty one.
MCHeaderLists == {<<>>, <<<<<<CH, CK>>, <<CV>>>>>>, <<<<<<CH>>, <<CV>>>>, <<<<CK>>, <<CV>>>>>>}

MCHeaderListsEmpty == MCHeaderLists \cup {<<<<<<CH>>, <<>>>>, <<<<CK>>, <<CV>>>>>>}

MCBodies == {<<>>, <<CX>>}

MCRoutes ==
  <<[method |-> 1, path |-> <<SL, CA>>, tls |-> 2, h |-> 1],
    [method |-> 1, path |-> <<SL, CV, SL, STAR>>, tls |-> TLS_MATCH_NONE, h |-> 2],
    [method |-> 3, path |-> <<SL, CA>>, tls |-> TLS_MATCH_ONLY, h |-> 3],
    [method |-> 3, path |-> <<SL, CV, SL, STAR>>, tls |-> TLS_MATCH_NONE, h |-> 5]>>

\* StatusCodes::codes (http_utils.cpp)
MCStatusCodes == {200, 201, 204, 206, 301, 400, 401, 403, 404, 408, 413, 415, 500, 501, 503}

Bytes(s) == [i \in DOMAIN s |-> Line("byte", s[i])]

\* The handlers behind the routes: a PayloadJson "{}", a one-byte
\* PayloadBlob, a three-byte PayloadTest with 201, and (route h4 of
\* MCRoutesShadow) a bare 200 with the default PayloadEmpty, and the
\* PayloadTraceEvent of two trace events.
MCHandlers ==
  [h \in 1..5 |->
     CASE h = 1 -> [code |-> 200, payload |-> PayloadJson(Bytes(<<123, 125>>))]
       [] h = 2 -> [code |-> 200, payload |-> PayloadBlob(Bytes(<<CX>>))]
       [] h = 3 -> [code |-> 201, payload |-> PayloadTest(3)]
       [] h = 4 -> [code |-> 200, payload |-> PayloadEmpty]
       [] h = 5 -> [code |-> 200, payload |-> PayloadTraceEvent(<<1, 2>>)]]

\* MCRoutes and an exact GET "/v/x", which sorts after "/v/*".
MCRoutesShadow ==
  Append(MCRoutes, [method |-> 1, path |-> <<SL, CV, SL, CX>>, tls |-> 2, h |-> 4])

====
