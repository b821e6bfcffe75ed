------------------------------ MODULE H2Request ------------------------------
(***************************************************************************)
(* One HTTP/2 request on its way from the Transport (encodeHeaders,        *)
(* writeHeaders and the trailers, http2/transport.go, with the sorted      *)
(* header of header.go) to the server's handler (newWriterAndRequest,      *)
(* http2/server.go).  A header is a function from keys to sequences of     *)
(* values; a value is a tuple of its parts (the crumbs of a cookie), <<>>  *)
(* being the empty string.  A field counts 1 towards the size of a list.   *)
(***************************************************************************)
EXTENDS Integers, Sequences, SequencesExt, FiniteSets

CONSTANTS MaxFrame,   \* fields in a frame: cc.maxFrameSize
          Limit,      \* the server's MAX_HEADER_LIST_SIZE
          Confs       \* [method, header, porder, body, trailers, path, knows, ops]

VARIABLE s

Here == s.m = "hreq"

(* The keys of the model in the order of their bytes, and strings.ToLower. *)
Keys == << ":protocol", "Accept-Encoding", "Connection", "Content-Length", "Cookie",
           "Header-Order:", "Host", "PHeader-Order:", "Range", "Transfer-Encoding",
           "User-Agent", "X-A", "X-B", "accept-encoding", "content-length", "x-c" >>
Lower == << ":protocol", "accept-encoding", "connection", "content-length", "cookie",
            "header-order:", "host", "pheader-order:", "range", "transfer-encoding",
            "user-agent", "x-a", "x-b", "accept-encoding", "content-length", "x-c" >>
at(k) == CHOOSE i \in DOMAIN Keys : Keys[i] = k
lower(k) == Lower[at(k)]

MagicKeys == {"Header-Order:", "PHeader-Order:"}
Value(h, k) == IF k \in DOMAIN h /\ h[k] # <<>> THEN h[k][1] ELSE <<>>
Set(h, k, vv) == [x \in DOMAIN h \cup {k} |-> IF x = k THEN vv ELSE h[x]]

(* checkConnHeaders.                                                       *)
checkConnHeaders(h) ==
    /\ \A k \in {"Transfer-Encoding", "Connection"} \cap DOMAIN h : Len(h[k]) <= 1
    /\ Value(h, "Transfer-Encoding") \in {<<>>, <<"chunked">>}
    /\ Value(h, "Connection") \in {<<>>, <<"close">>, <<"keep-alive">>}

(* commaSeparatedTrailers.                                                 *)
trailersValid(trailers) == trailers \cap {"Transfer-Encoding", "Trailer", "Content-Length"} = {}

(* actualContentLength: 0, the declared length, or -1 for unknown.         *)
actualContentLength(body) == CASE body = "none" -> 0 [] body = "known" -> 3 [] body = "unknown" -> -1

requestGzip(c, h) ==
    Value(h, "Accept-Encoding") = <<>> /\ Value(h, "Range") = <<>> /\ c.method # "HEAD"

shouldSendReqContentLength(method, cl) == cl > 0 \/ (cl = 0 /\ method \in {"POST", "PUT", "PATCH"})

isNormalConnect(c, h) == c.method = "CONNECT" /\ Value(h, ":protocol") = <<>>

(* SortedKeyValues and SortedKeyValuesBy: the keys an order names come     *)
(* first, in its order (the last mention counts), the others by their      *)
(* bytes.                                                                  *)
position(order, k) == LET P == {i \in DOMAIN order : order[i] = <<lower(k)>>}
                      IN  IF P = {} THEN 0 ELSE CHOOSE i \in P : \A j \in P : j <= i
less(order, a, b) ==
    LET i == position(order, a)
        j == position(order, b)
    IN  IF i = 0 /\ j = 0 THEN at(a) < at(b)
        ELSE IF i = 0 THEN FALSE ELSE IF j = 0 THEN TRUE ELSE i < j \/ (i = j /\ at(a) < at(b))
sortedKeys(h, order) ==
    LET rank(k) == Cardinality({j \in DOMAIN h : less(order, j, k)}) + 1
    IN  [i \in 1..Cardinality(DOMAIN h) |-> CHOOSE k \in DOMAIN h : rank(k) = i]

(* The pseudo-header fields, in the request's or the Transport's order.    *)
pseudoFields(c, h) ==
    LET own   == "PHeader-Order:" \in DOMAIN h
        order == IF own THEN h["PHeader-Order:"] ELSE c.porder
        names == IF own \/ order # <<>>
                 THEN SelectSeq(order, LAMBDA p :
                        \/ p \in {<<":authority">>, <<":method">>}
                        \/ p \in {<<":path">>, <<":scheme">>} /\ c.method # "CONNECT")
                 ELSE << <<":authority">>, <<":method">> >> \o
                      (IF isNormalConnect(c, h) THEN <<>> ELSE << <<":path">>, <<":scheme">> >>)
        value(p) == CASE p = ":authority" -> <<"host">> [] p = ":method" -> <<c.method>>
                      [] p = ":path" -> <<c.path>> [] p = ":scheme" -> <<"https">>
    IN  [i \in DOMAIN names |-> [name |-> names[i][1], value |-> value(names[i][1])]]

(* The header with the fields encodeHeaders adds, a copy of the request's  *)
(* own map.                                                                *)
withDefaults(c, h) ==
    LET cl == actualContentLength(c.body)
        a  == IF "content-length" \notin DOMAIN h /\ shouldSendReqContentLength(c.method, cl)
              THEN Set(h, "content-length", << <<"len", c.body>> >>) ELSE h
    IN  IF "accept-encoding" \notin DOMAIN a /\ requestGzip(c, h)
        THEN Set(a, "accept-encoding", << <<"gzip, deflate, br">> >>) ELSE a

(* The fields of one key: connection-specific ones are left out, a cookie  *)
(* is split at its semicolons, and at most one User-Agent is sent.         *)
fieldsOf(k, vv) ==
    LET each(q) == [i \in DOMAIN q |-> [name |-> k, value |-> q[i]]]
        l == lower(k)
    IN  IF l \in {"host", "connection", "transfer-encoding"} THEN <<>>
        ELSE IF l = "cookie"
        THEN LET crumbs == FlattenSeq(vv)
             IN  [i \in DOMAIN crumbs |-> [name |-> "Cookie", value |-> <<crumbs[i]>>]]
        ELSE IF l = "user-agent" /\ vv # <<>>
        THEN IF vv[1] = <<>> THEN <<>> ELSE each(<<vv[1]>>)
        ELSE each(vv)

(* didUA: the key, with at least one value, suppresses the default.        *)
didUA(h) == "User-Agent" \in DOMAIN h /\ h["User-Agent"] # <<>>

(* enumerateHeaders.                                                       *)
enumerateHeaders(c, h) ==
    LET hdrs  == withDefaults(c, h)
        order == IF "Header-Order:" \in DOMAIN h THEN h["Header-Order:"] ELSE <<>>
        kvs   == sortedKeys(hdrs, order)
    IN  pseudoFields(c, h)
        \o (IF c.trailers = {} THEN <<>>
            ELSE << [name |-> "Trailer", value |-> SetToSeq(c.trailers)] >>)
        \o FlattenSeq([i \in DOMAIN kvs |-> fieldsOf(kvs[i], hdrs[kvs[i]])])
        \o (IF didUA(h) THEN <<>> ELSE << [name |-> "User-Agent", value |-> <<"default">>] >>)

(* The second pass, over what the size was counted for in the first.       *)
written(fields) == SelectSeq(fields, LAMBDA f : f.name \notin MagicKeys)

pathValid(c, h) == isNormalConnect(c, h) \/ c.path \in {"/p", "*"}

\* fault: the size is not compared with the peer's limit
withinPeerLimitNot(c, fields) == TRUE

withinPeerLimit(c, fields) == c.knows => Len(fields) <= Limit

endStream(c) == c.body = "none" /\ c.trailers = {}

-----------------------------------------------------------------------------
Init ==
    \E c \in Confs :
      s = [m |-> "hreq", conf |-> c, phase |-> "call",
           block |-> <<>>, first |-> TRUE, wire |-> <<>>, read |-> 0, pings |-> 0,
           frag |-> <<>>, got |-> <<>>]

(* roundTrip up to the block: its early returns, and encodeHeaders.        *)
Encode ==
    /\ Here /\ s.phase = "call"
    /\ LET c == s.conf
           fields == enumerateHeaders(c, c.header)
           ok == /\ checkConnHeaders(c.header) /\ trailersValid(c.trailers)
                 /\ pathValid(c, c.header) /\ withinPeerLimit(c, fields)
       IN  s' = IF ok THEN [s EXCEPT !.phase = "headers", !.block = written(fields), !.first = TRUE]
                ELSE [s EXCEPT !.phase = "refused"]

(* writeHeaders: a HEADERS frame and CONTINUATION frames, under wmu.       *)
chunk(block) == SubSeq(block, 1, IF Len(block) > MaxFrame THEN MaxFrame ELSE Len(block))
WriteHeaders ==
    /\ Here /\ s.phase \in {"headers", "trailers"}
    /\ LET rest == SubSeq(s.block, Len(chunk(s.block)) + 1, Len(s.block))
           end  == s.phase = "trailers" \/ endStream(s.conf)
           f    == [kind |-> IF s.first THEN "HEADERS" ELSE "CONTINUATION", fields |-> chunk(s.block),
                    endHeaders |-> rest = <<>>, end |-> s.first /\ end]
       IN  s' = [s EXCEPT !.wire = Append(@, f), !.block = rest, !.first = FALSE,
                          !.phase = IF rest # <<>> THEN @ ELSE IF end THEN "sent"
                                    ELSE IF s.conf.body = "none" THEN "wait" ELSE "body"]

\* fault: the lock is given up between the frames of a block
wmuFreeAlways == TRUE

wmuFree == s.phase \notin {"headers", "trailers"} \/ s.first

(* Another goroutine of the connection writes a frame.                     *)
OtherWrites ==
    /\ Here /\ "ping" \in s.conf.ops /\ s.pings = 0 /\ wmuFree
    /\ s' = [s EXCEPT !.pings = 1,
                      !.wire = Append(@, [kind |-> "PING", fields |-> <<>>,
                                          endHeaders |-> FALSE, end |-> FALSE])]

(* writeRequestBody: the body's DATA, the last with END_STREAM unless      *)
(* trailers with values follow; encodeTrailers refuses a list too large.   *)
trailerFields(c) ==
    LET ts == SetToSeq(c.trailers) IN [i \in DOMAIN ts |-> [name |-> ts[i], value |-> <<"t">>]]
WriteBody ==
    /\ Here /\ s.phase = "body"
    /\ LET trls == trailerFields(s.conf)
           data(end) == [kind |-> "DATA", fields |-> <<>>, endHeaders |-> FALSE, end |-> end]
       IN  s' = IF trls = <<>> THEN [s EXCEPT !.phase = "sent", !.wire = Append(@, data(TRUE))]
                ELSE IF ~ withinPeerLimit(s.conf, trls)
                THEN [s EXCEPT !.phase = "aborted", !.wire = Append(@, data(FALSE))]
                ELSE [s EXCEPT !.phase = "trailers", !.block = trls, !.first = TRUE,
                               !.wire = Append(@, data(FALSE))]

-----------------------------------------------------------------------------
(* The server.  readMetaFrame keeps what fits its limit and refuses a      *)
(* pseudo field behind a regular one, or twice.                            *)
isPseudo(f) == f.name \in {":authority", ":method", ":path", ":scheme", ":protocol"}
fieldsValid(fields) ==
    /\ \A i, j \in DOMAIN fields : i < j /\ isPseudo(fields[j]) => isPseudo(fields[i])
    /\ \A i, j \in DOMAIN fields : isPseudo(fields[i]) /\ fields[i].name = fields[j].name => i = j
kept(fields) == SubSeq(fields, 1, IF Len(fields) > Limit THEN Limit ELSE Len(fields))

pseudoValue(fields, n) ==
    LET P == {i \in DOMAIN fields : fields[i].name = n}
    IN  IF P = {} THEN <<>> ELSE fields[CHOOSE i \in P : TRUE].value

values(fields, n) ==
    LET q == SelectSeq(fields, LAMBDA f : f.name = n) IN [i \in DOMAIN q |-> q[i].value]

(* newWriterAndRequest: the conditions on the pseudo fields, and the       *)
(* request the handler gets, its cookies joined and its trailers declared. *)
pseudosValid(fields, bodyOpen) ==
    LET v(n) == pseudoValue(fields, n)
    IN  IF v(":method") = <<"CONNECT">>
        THEN IF v(":protocol") = <<>> THEN v(":path") = <<>> /\ v(":scheme") = <<>> /\ v(":authority") # <<>>
             ELSE v(":path") # <<>>
        ELSE /\ v(":method") # <<>> /\ v(":path") # <<>> /\ v(":scheme") # <<>>
             /\ ~ (v(":method") = <<"HEAD">> /\ bodyOpen)
wireName(k) == CASE lower(k) = "content-length" -> "Content-Length"
                 [] lower(k) = "accept-encoding" -> "Accept-Encoding" [] OTHER -> k
canonical(fields) ==
    [i \in DOMAIN fields |->
       [fields[i] EXCEPT !.name = IF @ \in {"Trailer", ":authority", ":method", ":path", ":scheme"}
                                  THEN @ ELSE wireName(@)]]
newRequest(fields0, bodyOpen, truncated) ==
    LET fields == canonical(fields0)
        names  == {fields[i].name : i \in {j \in DOMAIN fields : ~ isPseudo(fields[j])}}
        trls   == values(fields, "Trailer")
        clens  == values(fields, "Content-Length")
    IN  [method  |-> pseudoValue(fields, ":method"), host |-> pseudoValue(fields, ":authority"),
         path    |-> pseudoValue(fields, ":path"),
         header  |-> [n \in names \ {"Trailer"} |->
                        IF n = "Cookie" THEN << FlattenSeq(values(fields, n)) >> ELSE values(fields, n)],
         trailer |-> [t \in UNION {Range(trls[i]) : i \in DOMAIN trls} |-> <<>>],
         cl      |-> IF ~ bodyOpen THEN <<"len", "none">>
                     ELSE IF clens = <<>> THEN <<"unknown">> ELSE clens[1],
         answer  |-> IF truncated THEN "431" ELSE "handler",
         ended   |-> ~ bodyOpen]

(* copyTrailersToHandlerRequest: only trailers that were declared.         *)
withTrailers(r, fields) ==
    [r EXCEPT !.trailer = [t \in DOMAIN @ |-> IF values(fields, t) # <<>>
                                              THEN <<"t">> ELSE @[t]], !.ended = TRUE]

Refused == [answer |-> "refused", ended |-> FALSE]

readBlock(got, fields, end) ==
    IF got = <<>> \/ Last(got).ended \/ Last(got).answer = "refused"
    THEN Append(got, IF fieldsValid(fields) /\ pseudosValid(fields, ~ end)
                     THEN newRequest(kept(fields), ~ end, Len(fields) > Limit)
                     ELSE Refused)
    ELSE [got EXCEPT ![Len(got)] = withTrailers(@, fields)]

Read ==
    /\ Here /\ s.read < Len(s.wire)
    /\ LET f    == s.wire[s.read + 1]
           open == s.frag # <<>>
           all  == (IF open THEN Last(s.frag).fields ELSE <<>>) \o f.fields
           end  == IF open THEN Last(s.frag).end ELSE f.end
           bad  == open # (f.kind = "CONTINUATION")
           next == [s EXCEPT !.read = @ + 1]
       IN  s' = IF bad THEN [next EXCEPT !.got = Append(@, Refused), !.frag = <<>>]
                ELSE IF f.kind = "PING" THEN next
                ELSE IF f.kind = "DATA" THEN [next EXCEPT !.got[Len(s.got)].ended = f.end]
                ELSE IF f.endHeaders THEN [next EXCEPT !.frag = <<>>, !.got = readBlock(@, all, end)]
                ELSE [next EXCEPT !.frag = << [fields |-> all, end |-> end] >>]

Finished == Here /\ s.phase \in {"refused", "sent", "aborted", "wait"} /\ s.read = Len(s.wire) /\ UNCHANGED s

Next == Here /\ (Encode \/ WriteHeaders \/ OtherWrites \/ WriteBody \/ Read \/ Finished)

-----------------------------------------------------------------------------
(* What the caller asked for, key by key: the values the server should see. *)
asked(k) ==
    LET h == s.conf.header
        vv(x) == IF x \in DOMAIN h THEN h[x] ELSE <<>>
        c == s.conf
    IN  CASE k = "Cookie" -> IF FlattenSeq(vv("Cookie")) = <<>> THEN <<>> ELSE << FlattenSeq(vv("Cookie")) >>
          [] k = "User-Agent" -> IF ~ didUA(h) THEN << <<"default">> >>
                                 ELSE IF vv(k)[1] = <<>> THEN <<>> ELSE << vv(k)[1] >>
          [] k \in {"Host", "Connection", "Transfer-Encoding"} \cup MagicKeys -> <<>>
          [] k = "Accept-Encoding" -> IF vv(k) \o vv("accept-encoding") # <<>>
                                      THEN vv(k) \o vv("accept-encoding")
                                      ELSE IF requestGzip(c, h) /\ "accept-encoding" \notin DOMAIN h
                                      THEN << <<"gzip, deflate, br">> >> ELSE <<>>
          [] OTHER -> vv(k)

(* The handler gets the request the caller made, or the caller an error:   *)
(* the method, host and path, every value of every end-to-end header key   *)
(* in its order and none else, cookies whole again, the body's length, the *)
(* declared trailers; the keys that carry the orders never arrive.         *)
RequestExact ==
    Here => \A i \in DOMAIN s.got :
      LET r == s.got[i]
          c == s.conf
      IN  /\ r.answer # "refused"
          /\ r.answer = "handler" =>
               /\ r.method = <<c.method>> /\ r.host = <<"host">>
               /\ r.path = IF isNormalConnect(c, c.header) THEN <<>> ELSE <<c.path>>
               /\ \A k \in Range(Keys) \ {":protocol", "accept-encoding", "content-length", "Content-Length"} :
                    asked(k) = IF k \in DOMAIN r.header THEN r.header[k] ELSE <<>>
               /\ r.cl = (IF c.body = "unknown" THEN <<"unknown">> ELSE <<"len", c.body>>)
               /\ r.ended => r.trailer = [t \in c.trailers |-> <<"t">>]

(* A client that knows the server's limit never has a request answered     *)
(* with 431: its count is never below the server's.                        *)
NeverTooLong == Here /\ s.conf.knows => \A i \in DOMAIN s.got : s.got[i].answer # "431"

(* The fork's purpose: on the wire the fields the caller ordered keep that *)
(* order, before every field that is not in the order; the default         *)
(* User-Agent and the trailers' names are the code's own.                  *)
OrderKept ==
    (Here /\ s.phase = "headers" /\ s.first) =>
      LET order == IF "Header-Order:" \in DOMAIN s.conf.header THEN s.conf.header["Header-Order:"] ELSE <<>>
          porder == IF "PHeader-Order:" \in DOMAIN s.conf.header THEN s.conf.header["PHeader-Order:"]
                    ELSE s.conf.porder
          place(f) == position(order, f.name)
          mine(f) == ~ isPseudo(f) /\ f.name \in Range(Keys) /\ f.value # <<"default">>
          q == SelectSeq(s.block, mine)
          p == SelectSeq(s.block, LAMBDA f : isPseudo(f) /\ f.name # ":protocol")
      IN  /\ \A i, j \in DOMAIN q : i < j /\ place(q[j]) # 0 =>
               place(q[i]) # 0 /\ place(q[i]) <= place(q[j])
          /\ (porder # <<>> /\ s.conf.method # "CONNECT") => [i \in DOMAIN p |-> <<p[i].name>>] = porder

(* A request that is sent ends its stream.                                 *)
RequestEnds == Here /\ s.phase \in {"sent", "wait"} /\ s.read = Len(s.wire) =>
                 Last(s.got).answer = "refused" \/ Last(s.got).ended

RequestSound == RequestExact /\ NeverTooLong /\ OrderKept /\ RequestEnds
=============================================================================
