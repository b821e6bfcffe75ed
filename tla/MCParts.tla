------------------------------ MODULE MCParts -------------------------------
(***************************************************************************)
(* The parts of the library that share no state, side by side: a behaviour *)
(* is a behaviour of one of them, the one that s.m names.                  *)
(***************************************************************************)
EXTENDS Integers, Sequences, SequencesExt, TLC

VARIABLE s      \* the state of the part the behaviour is about

-----------------------------------------------------------------------------
(* Instances of Hpack and H2Frame: a static table of three entries, a      *)
(* prefix code with short and long codes, frames over octets with four     *)
(* values.                                                                 *)
(* HPACK tables: fields of sizes 1 and 2 in tables of size 2 and 3. *)
Field(n, v, x) == [name |-> n, value |-> v, sensitive |-> x]
a1 == Field("a", "1", FALSE)
a2 == Field("a", "2", FALSE)
b1 == Field("b", "1", FALSE)
get == Field(":m", "G", FALSE)
secret == Field("a", "1", TRUE)
upper == Field("B", "1", FALSE)
StaticTable == <<[name |-> ":m", value |-> "G"], [name |-> ":m", value |-> "P"], [name |-> "b", value |-> ""]>>
FieldSize(f) == IF f = a2 THEN 2 ELSE 1

plain == [init |-> 2, own |-> 2, sizes |-> {}, many |-> FALSE, limits |-> {}, list |-> 9, ops |-> 4,
          fields |-> {a1, a2, b1}]
HpackConfs == {
    [plain EXCEPT !.list = 1, !.fields = {get, a1, b1, upper}],
    [plain EXCEPT !.sizes = {0, 2}, !.many = TRUE, !.ops = 5],
    [plain EXCEPT !.own = 3, !.sizes = {1, 3}, !.fields = @ \cup {secret}],
    [plain EXCEPT !.sizes = {2}, !.limits = {1, 2}, !.ops = 5]}
(* The table grows back before the block that announces both sizes. *)
Twice == {[plain EXCEPT !.init = 3, !.own = 3, !.sizes = {2, 3}, !.many = TRUE, !.ops = 5]}


(* Integers around the limits of one, two and three octets; a prefix code  *)
(* whose codes are up to ten bits long.                                    *)
Ones(n) == [k \in 1..n |-> 1]
PrefixCode ==
    ("a" :> <<0, 0>>) @@ ("b" :> <<0, 1, 0>>) @@ ("c" :> <<0, 1, 1>>) @@ ("d" :> <<1, 0>>)
    @@ ("e" :> <<1, 1, 0>>) @@ ("f" :> <<1, 1, 1, 0>>) @@ ("g" :> Ones(4) \o <<0>>)
    @@ ("h" :> Ones(5) \o <<0>>) @@ ("i" :> Ones(6) \o <<0>>) @@ ("j" :> Ones(7) \o <<0>>)
    @@ ("k" :> Ones(8) \o <<0, 0>>) @@ ("l" :> Ones(8) \o <<0, 1>>) @@ ("m" :> Ones(8) \o <<1, 0>>)

Fields == INSTANCE Hpack WITH
    Fields <- {get, a1, a2, b1, secret, upper}, Static <- StaticTable, Size <- FieldSize,
    Pseudo <- {":m"}, Request <- {":m"}, Known <- {":m"}, Invalid <- {"B"}, Uint32Max <- 99,
    TableConfs <- HpackConfs,
    Ints <- 0..20 \cup 120..135 \cup 250..260 \cup {1000, 16414, 16415, 16416, 70000, 2097151, 2097279},
    Widths <- {1, 4, 5, 6, 7, 8}, Codes <- PrefixCode,
    Words <- SeqOf({"a", "b", "g", "i", "j", "k", "m"}, 3),
    Strings <- SeqOf({0, 1, 7, 63, 64, 72, 95, 127, 128, 191, 192, 254, 255}, 3),
    MaxLens <- {0, 2}

(* Every Write method, frames that no Write method makes, and sequences of *)
(* frames around a header block.                                           *)
Sids == {0, 1, 3, 129}
Prios == [dep : {0, 5, 130}, excl : BOOLEAN, weight : {0, 3}]
Datas == {<<>>, <<1>>, <<0, 3>>}
Writes ==
    [w : {"data"}, sid : Sids, end : BOOLEAN, padded : {TRUE}, data : Datas,
     pad : {<<>>, <<0>>, <<0, 0, 0>>, <<0, 0, 0, 0>>, <<1>>}]
    \cup [w : {"data"}, sid : Sids, end : BOOLEAN, padded : {FALSE}, data : Datas, pad : {<<>>}]
    \cup [w : {"headers"}, sid : Sids, end : BOOLEAN, endHeaders : BOOLEAN, prio : Prios,
          frag : Datas \ {<<>>}, pad : 0..3]
    \cup [w : {"push"}, sid : Sids, promise : Sids, endHeaders : BOOLEAN, frag : Datas, pad : 0..3]
    \cup [w : {"cont"}, sid : Sids, endHeaders : BOOLEAN, frag : Datas]
    \cup [w : {"priority"}, sid : Sids, prio : Prios]
    \cup [w : {"rst"}, sid : Sids, code : {0, 7, 200}]
    \cup [w : {"window"}, sid : {0, 1}, incr : {0, 1, 127, 128, 200}]
    \cup [w : {"settings"}, settings : SeqOf([id : {1, 3}, val : {0, 100}], 2)]
    \cup [w : {"ack"}]
    \cup [w : {"ping"}, ack : BOOLEAN, data : {<<0, 1, 2, 3, 3, 2, 1, 0>>}]
    \cup [w : {"goaway"}, last : {0, 5}, code : {0, 2}, debug : Datas]
Others ==
    [type : {"DATA", "HEADERS", "PUSH_PROMISE", "SETTINGS", "WINDOW_UPDATE", "PING", "GOAWAY",
             "RST_STREAM", "PRIORITY", "CONTINUATION", "OTHER"},
     flags : SUBSET {"PADDED", "PRIORITY", "ACK"}, sid : {0, 1},
     payload : SeqOf({0, 2}, 6) \cup {<<3, 0, 0>>, <<3, 0, 0, 0, 1, 2, 2, 1, 1>>, [i \in 1..8 |-> 1],
                                     <<0, 3, 3, 3, 3, 3>>}]
Arrivals ==
    [type : {"HEADERS", "PUSH_PROMISE", "CONTINUATION", "DATA"}, sid : {1, 3}, end : BOOLEAN, bad : {"no"}]
    \cup [type : {"DATA"}, sid : {1}, end : {FALSE}, bad : {"conn"}]
(* A WINDOW_UPDATE of zero in the middle of a header block. *)
Interrupted == Arrivals \cup [type : {"WINDOW_UPDATE"}, sid : {1}, end : {FALSE}, bad : {"stream"}]

Frames == INSTANCE H2Frame WITH
    Base <- 4, MaxFrames <- 4, Inputs <- Writes, Raw <- Others, Incoming <- Arrivals

CodecsInit == Fields!TableInit \/ Fields!CodeInit \/ Frames!Init
CodecsNext == Fields!TableNext \/ Fields!CodeNext \/ Frames!Next

(* What is decoded is what was encoded: the tables of encoder and decoder  *)
(* stay in step, integers and strings come back, every frame the Framer    *)
(* writes is the frame it reads, and header blocks come whole.             *)
CodecsExact ==
    Fields!HpackInSync /\ Fields!CodesExact /\ Frames!FrameRoundTrip /\ Frames!WholeBlocks

-----------------------------------------------------------------------------
(* Instances of Transfer, H2DataBuffer and Decompress: bodies of up to     *)
(* three units, in reads and writes of one and two.                        *)
(* Requests and responses with every combination of what frames a body. *)
msg == [kind |-> "request", method |-> "POST", status |-> 200, v |-> 11, cl |-> 0, te |-> "none",
        body |-> "reader", n |-> 2, end |-> "eof", close |-> FALSE, trailer |-> "none"]
RequestMsgs ==
    {q \in {[msg EXCEPT !.method = method, !.cl = cl, !.te = te, !.body = body, !.n = n, !.end = end,
                        !.close = close, !.trailer = trailer] :
              method \in {"GET", "POST"}, cl \in {0, 2, 3}, te \in {"none", "chunked"},
              body \in {"nil", "none", "reader"}, n \in {0, 2, 3}, end \in {"eof", "err"},
              close \in BOOLEAN, trailer \in {"none", "trailer", "long"}} :
       /\ q.body # "reader" => q.n = 0 /\ q.end = "eof"
       /\ q.body = "none" => q.cl = 0
       /\ q.trailer # "none" => q.n = 2}
ResponseMsgs ==
    {[q EXCEPT !.kind = "response", !.v = v, !.cl = IF q.cl = 3 THEN -1 ELSE q.cl] :
       q \in {q \in RequestMsgs : q.body = "nil" => q.te = "none" /\ q.cl # 2}, v \in {10, 11}}
Bodyless ==
    {[msg EXCEPT !.kind = "response", !.method = method, !.status = status, !.body = body, !.n = 0] :
       method \in {"HEAD", "GET"}, status \in {204, 304, 200}, body \in {"none", "nil"}}
once(msgs) == [msgs |-> msgs, ops |-> {}, writes |-> 1]
TransferConfs == {
    once(RequestMsgs), once(ResponseMsgs \cup Bodyless),
    once({[msg EXCEPT !.cl = 2], msg, [msg EXCEPT !.method = "GET", !.n = 0]}),
    [msgs |-> {[msg EXCEPT !.cl = 2], [msg EXCEPT !.cl = 3, !.end = "err"]}, ops |-> {"retry"}, writes |-> 2]}
(* A request with a body of unknown length is sent again. *)
Retried == {[msgs |-> {msg}, ops |-> {"retry"}, writes |-> 2]}

Message == INSTANCE Transfer WITH MaxWrite <- 2, Confs <- TransferConfs

(* Two buffers that share the pools of two chunk sizes. *)
Buffer == INSTANCE H2DataBuffer WITH
    Buffers <- {1, 2}, dataChunkSizeClasses <- <<1, 2>>, MaxBytes <- 3, MaxChunks <- 3,
    Confs <- {[expected |-> 0, most |-> 2], [expected |-> 3, most |-> 2]}

(* Three bodies, two of them compressed with gzip. *)
Compressed == INSTANCE Decompress WITH
    Bodies <- {"b1", "b2", "b3"},
    Confs <- {[kind |-> [b1 |-> "gzip", b2 |-> "gzip", b3 |-> k], len |-> [b1 |-> 1, b2 |-> 2, b3 |-> l],
               reads |-> 5] : k \in {"gzip", "deflate", "zstd"}, l \in {1}}

BodiesInit == Message!Init \/ Buffer!Init \/ Compressed!Init
BodiesNext == Message!Next \/ Buffer!Next \/ Compressed!Next

(* A body arrives as it was sent: the receiver of a message finds the end  *)
(* the sender meant, a data buffer returns the bytes in order and no chunk *)
(* of another one, and a pooled gzip reader serves one body at a time.     *)
BodiesExact == Message!TransferExact /\ Buffer!BufferExact /\ Compressed!ReaderOwned

-----------------------------------------------------------------------------
(* Instances of H2Request, H2Response, H2cHandler and H2Priority: what is  *)
(* written on an HTTP/2 stream, and in which order.                        *)
(* Requests: header maps with and without orders, cookies, fields that are *)
(* left out, CONNECT, and lists at and above the server's limit.           *)
vals(x) == << <<x>> >>
Some == "X-A" :> << <<"1">>, <<"2">> >> @@ "X-B" :> vals("3") @@ "x-c" :> vals("4")
Order == "Header-Order:" :> << <<"x-c">>, <<"x-b">>, <<"accept-encoding">>, <<"content-length">> >>
Four == << <<":method">>, <<":authority">>, <<":scheme">>, <<":path">> >>
POrder == "PHeader-Order:" :> Four
WebSocket == ":protocol" :> vals("ws")
req == [method |-> "GET", header |-> Some, porder |-> <<>>, body |-> "none", trailers |-> {}, path |-> "/p",
        knows |-> TRUE, ops |-> {"ping"}]
Headers ==
    {Some, Some @@ Order, Some @@ POrder, Some @@ Order @@ POrder,
     "Cookie" :> << <<"a", "b">>, <<"c">> >> @@ "User-Agent" :> vals("u") @@ "Host" :> vals("h") @@ "X-A" :> vals("1"),
     "User-Agent" :> << <<>> >> @@ "Connection" :> vals("close") @@ "accept-encoding" :> vals("id"),
     "User-Agent" :> <<>> @@ "Accept-Encoding" :> vals("id") @@ "Transfer-Encoding" :> vals("chunked"),
     "User-Agent" :> << <<"u">>, <<"w">> >> @@ "Range" :> vals("r") @@ "Cookie" :> << <<>>, <<"c">> >> @@ Order,
     "Connection" :> vals("other")}
RequestConfs ==
    {[req EXCEPT !.method = b[1], !.body = b[2], !.trailers = b[3], !.header = h, !.porder = p] :
       b \in {<<"GET", "none", {}>>, <<"HEAD", "none", {}>>, <<"POST", "none", {}>>, <<"POST", "known", {}>>,
              <<"POST", "unknown", {"T"}>>, <<"POST", "known", {"T", "U"}>>, <<"POST", "known", {"Trailer"}>>},
       h \in Headers, p \in {<<>>, Four}}
    \cup {[req EXCEPT !.method = "CONNECT", !.header = h, !.path = p] :
            h \in {Some, WebSocket @@ Some, WebSocket}, p \in {"/p", "bad"}}
    \cup {[req EXCEPT !.method = "POST", !.body = "known", !.header = ("Cookie" :> c) @@ Some, !.knows = k,
                      !.trailers = {"T1", "T2"}] :
            k \in BOOLEAN, c \in {<< <<"a", "b", "c">>, <<"c">> >>, << <<"a", "b", "c">>, <<"c", "d", "e">> >>}}
(* A bodiless request with trailers; Content-Length given twice; extended  *)
(* CONNECT with orders; an incomplete order of pseudo fields.              *)
OddRequests ==
    {[req EXCEPT !.trailers = {"T"}],
     [req EXCEPT !.method = "POST", !.body = "known", !.header = "Content-Length" :> vals("9")],
     [req EXCEPT !.method = "CONNECT", !.header = WebSocket, !.porder = Four],
     [req EXCEPT !.method = "CONNECT", !.header = WebSocket @@ "X-A" :> vals("1") @@ "Header-Order:" :> vals("x-a")],
     [req EXCEPT !.porder = << <<":method">>, <<":authority">>, <<":scheme">> >>]}

Requests == INSTANCE H2Request WITH MaxFrame <- 4, Limit <- 13, Confs <- RequestConfs

(* Handlers that set headers and trailers, declare them, write and flush. *)
handler(method, expect, ops) == [method |-> method, expect |-> expect, ops |-> ops]
ResponseConfs == {
    handler("GET", FALSE, {"h", "t", "decl", "write", "flush", "code"}),
    handler("HEAD", FALSE, {"h", "cl", "write", "flush", "code"}),
    handler("GET", FALSE, {"t", "decl", "cl", "write", "flush"}),
    handler("POST", TRUE, {"read", "h", "write", "flush", "reset"}),
    handler("GET", FALSE, {"t", "nil", "write"}), handler("GET", FALSE, {"p", "write", "flush"})}

Responses == INSTANCE H2Response WITH BufSize <- 2, MaxOps <- 4, Confs <- ResponseConfs

(* Upgrades and prior knowledge, well-formed and not. *)
upgrade == [kind |-> "upgrade", settings |-> <<"one">>, fields |-> <<"a", "Connection", "Upgrade", "b">>,
            size |-> 3, max |-> 4, path |-> "plain", preface |-> "whole", ops |-> {}]
prior == [upgrade EXCEPT !.kind = "prior"]
UpgradeConfs ==
    {upgrade, prior, [prior EXCEPT !.preface = "other"], [prior EXCEPT !.preface = "cut"],
     [upgrade EXCEPT !.kind = "plain"], [upgrade EXCEPT !.preface = "cut"]}
    \cup {[upgrade EXCEPT !.settings = v1] : v1 \in {<<"undecodable">>, <<"ragged">>, <<>>}}
(* A header block longer than a frame, an escaped path. *)
OddUpgrades == {[upgrade EXCEPT !.size = 6], [upgrade EXCEPT !.path = "escaped"]}

Upgrades == INSTANCE H2cHandler WITH FrameHeader <- 2, Confs <- UpgradeConfs

(* Two or three streams that open, close, and change their parents. *)
tree == [streams |-> {1, 2}, maxClosed |-> 0, maxIdle |-> 0, throttle |-> FALSE, weights |-> {1},
         sizes |-> {0, 2}, ops |-> {"open", "close", "adjust", "push", "pop"}, n |-> 6]
TreeConfs == {
    [tree EXCEPT !.sizes = {2}, !.n = 7],
    [tree EXCEPT !.maxClosed = 1, !.maxIdle = 2],
    [tree EXCEPT !.streams = {1, 2, 3}, !.maxClosed = 3, !.maxIdle = 3, !.n = 5, !.sizes = {0},
                 !.ops = {"open", "adjust", "push"}],
    [tree EXCEPT !.throttle = TRUE, !.weights = {0, 1}, !.sizes = {3},
                 !.ops = {"open", "adjust", "push", "pop", "window"}]}
(* A parent of two children is removed; an idle node is evicted while it   *)
(* is being opened; a reset of a retained stream.                          *)
OddTrees == {[tree EXCEPT !.streams = {1, 2, 3}, !.sizes = {0}], [tree EXCEPT !.maxIdle = 1, !.sizes = {1}],
             [tree EXCEPT !.maxClosed = 1, !.ops = @ \cup {"rst"}]}

Tree == INSTANCE H2Priority WITH DefaultWeight <- 1, Unit <- 1, MaxInt32 <- 5, Confs <- TreeConfs

StreamsInit == Requests!Init \/ Responses!Init \/ Upgrades!Init \/ Tree!Init
StreamsNext == Requests!Next \/ Responses!Next \/ Upgrades!Next \/ Tree!Next


-----------------------------------------------------------------------------
(* Instances of ClientDo, TransportTrip and H2ClientPool: one or two       *)
(* requests, three attempts or connections each, two redirects.            *)
(* Redirects to a subdomain, to another host, to a bad and to no location. *)
url(host, tls) == [host |-> host, tls |-> tls]
answer(code, loc, u, set) == [code |-> code, loc |-> loc, url |-> u, set |-> set]
Answers == {
    answer(200, "empty", url(<<"a">>, TRUE), {}), answer(307, "empty", url(<<"a">>, TRUE), {}),
    answer(307, "ok", url(<<"sub", "a">>, TRUE), {"x"}), answer(303, "ok", url(<<"b">>, FALSE), {"y"}),
    answer(303, "ok", url(<<"a">>, TRUE), {"x"}), answer(303, "bad", url(<<"a">>, TRUE), {})}
post == [method |-> "POST", body |-> "none", cookies |-> {"x", "z"}, jar |-> TRUE, policy |-> "default",
         timeout |-> "none", url |-> url(<<"a">>, TRUE), resps |-> Answers, ops |-> {}]
DoConfs == {
    post, [post EXCEPT !.body = "once"], [post EXCEPT !.body = "get", !.timeout = "ctx", !.ops = {"getbody"}],
    [post EXCEPT !.timeout = "legacy"], [post EXCEPT !.policy = "error", !.body = "get"],
    [post EXCEPT !.policy = "last"], [post EXCEPT !.method = "HEAD", !.jar = FALSE],
    [post EXCEPT !.ops = {"nil"}], [post EXCEPT !.timeout = "legacy", !.ops = {"cancel"}],
    [post EXCEPT !.timeout = "sooner"]}
(* The policy stops after GetBody was called; the transport returns no     *)
(* response while the old timer runs.                                      *)
OddRedirects == {[post EXCEPT !.body = "get", !.policy = "last"], [post EXCEPT !.ops = {"nil"}, !.timeout = "legacy"]}

Redirects == INSTANCE ClientDo WITH MaxVia <- 2, Confs <- DoConfs

(* One dial of every kind; two dials through a proxy whose CONNECT header  *)
(* they share.                                                             *)
plan(proxy, scheme, target, custom, auth, nego) ==
    [proxy |-> proxy, scheme |-> scheme, target |-> target, custom |-> custom, auth |-> auth, nego |-> nego]
OneDial ==
    {[plan |-> [d1 |-> plan(proxy, scheme, "a", custom, FALSE, nego), d2 |-> plan("none", "http", "b", FALSE, FALSE, "")],
      header |-> "nil", timeout |-> TRUE, ops |-> {"ctx", "alt"}] :
       proxy \in {"none", "http", "https", "socks5"}, scheme \in {"http", "https"}, custom \in BOOLEAN,
       nego \in {"", "h1", "h2"}}
TwoDials ==
    {[plan |-> [d1 |-> plan("http", "https", "a", FALSE, auth, ""), d2 |-> plan("http", "https", "b", FALSE, auth, "")],
      header |-> header, timeout |-> FALSE, ops |-> {}] : auth \in BOOLEAN, header \in {"nil", "shared"}}

Trips == INSTANCE TransportTrip WITH
    MaxTries <- 3,
    TryConfs <- {[body |-> b, idem |-> i, alt |-> a, ops |-> {"bad", "ctx", "getbody"} \cup l] :
                b \in {"none", "once", "get"}, i \in BOOLEAN, a \in BOOLEAN, l \in {{}, {"left"}}},
    Dials <- {"d1", "d2"}, DialConfs <- OneDial \cup {c \in TwoDials : c.header = "nil" \/ c.plan["d1"].auth}

(* Two requests on up to three HTTP/2 connections that refuse streams, say *)
(* GOAWAY, die, go idle, or are brought by an upgrade.                     *)
two == [body |-> [r1 |-> "get", r2 |-> "none"], reqs |-> {"r1", "r2"}, retries |-> 0, own |-> {}, n |-> 2,
        ops |-> {"refuse", "goaway", "die"}]
PoolConfs == {
    [two EXCEPT !.ops = {"goaway"}], [two EXCEPT !.ops = {"die"}],
    [two EXCEPT !.ops = {"refuse", "die", "ctx"}, !.reqs = {"r1"}, !.retries = 1],
    [two EXCEPT !.ops = {"refuse"}],
    [two EXCEPT !.body = [r1 |-> "once", r2 |-> "get"], !.own = {"r2"}, !.ops = {"goaway", "die"}],
    [two EXCEPT !.ops = {"add", "noDial", "die", "idle"}],
    [two EXCEPT !.ops = {"idle"}, !.n = 3]}
(* A body that can be read once is refused; a connection dies before it is *)
(* in the pool.                                                            *)
OddPools == {[two EXCEPT !.body = [r1 |-> "once", r2 |-> "none"], !.ops = {"refuse"}],
             [two EXCEPT !.ops = {"die", "early"}]}

Pool == INSTANCE H2ClientPool WITH Reqs <- {"r1", "r2"}, Conns <- {1, 2, 3}, Confs <- PoolConfs

ClientSideInit == Redirects!Init \/ Trips!TryInit \/ Trips!DialInit \/ Pool!Init
ClientSideNext == Redirects!Next \/ Trips!TryNext \/ Trips!DialNext \/ Pool!Next


-----------------------------------------------------------------------------
(* Instances of ServerHandlers, RequestForm, HttpTest, HeaderWrite and     *)
(* Cookies: what a handler and its caller use.                             *)
(* Seven patterns; every path of up to three elements. *)
WithoutPort(h) == IF h = "h:80" THEN "h" ELSE h

Handled == INSTANCE ServerHandlers WITH
    MaxOps <- 3, Codes <- {200, 404},
    Patterns <- [host : {""}, path : {<<"">>, <<"a">>, <<"a", "">>, <<"a", "b", "">>, <<"b">>}]
                \cup [host : {"h"}, path : {<<"">>, <<"a", "">>}],
    Paths <- SeqOf({"a", "b", "", "..", "."}, 3), Hosts <- {"h", "h:80", ""}, Port <- WithoutPort

FormConfs ==
    {c \in [post : BOOLEAN, type : {"urlencoded", "multipart", "malformed", "other"},
            body : {"none", "fits", "large", "broken"}, limited : BOOLEAN, query : {"some", "none", "bad"}] :
       c.body = "large" \/ ~c.limited}

Form == INSTANCE RequestForm WITH MaxCalls <- 3, Confs <- FormConfs

Recorded == INSTANCE HttpTest WITH
    Conns <- {}, ServerConfs <- {}, MaxOps <- 3, RecorderConfs <- [new : BOOLEAN, declared : BOOLEAN]

(* Two writers that share the sorter pool. *)
job(keys, order, exclude) == [keys |-> keys, order |-> order, exclude |-> exclude]
plainJob == job({2, 3}, <<>>, {})
ordered == job({1, 2, 3}, <<3, 1>>, {})
excluding == job({1, 2, 3}, <<>>, {2})
twice == job({1, 2}, <<2, 1, 2>>, {})

Written == INSTANCE HeaderWrite WITH
    Writers <- {"w1", "w2"},
    Confs <- {[jobs |-> [w1 |-> <<x, excluding>>, w2 |-> <<y, twice>>]] :
                x \in {ordered, excluding, twice, plainJob}, y \in {ordered, excluding, twice, plainJob}}

(* Cookies with every value of up to three bytes of six kinds, domains of  *)
(* up to five, and every combination of the attributes.                    *)
cookie == [name |-> <<"a">>, value |-> <<"a">>, quoted |-> FALSE, path |-> <<>>, domain |-> <<>>, expires |-> "",
           age |-> 0, httponly |-> FALSE, secure |-> FALSE, samesite |-> "", unparsed |-> 0]
valid(v) == SelectSeq(v, LAMBDA b : b \notin {";", "b"})
Values ==       \* a value whose own quotes would be taken for the encoding's is left out (Quoted)
    {v \in SeqOf({"a", " ", "q", ";", "b", "="}, 3) :
       LET w == valid(v) IN
       Len(w) > 1 /\ w[1] = "q" /\ w[Len(w)] = "q" => Contains(v, " ")}
Domains == SeqOf({"a", "1", "-", "."}, 5) \cup SeqOf({"a", "^"}, 2)
one(c) == [cookies |-> <<c>>, filter |-> <<>>]
CookieConfs ==
    {one([cookie EXCEPT !.value = v, !.quoted = q]) : v \in Values, q \in BOOLEAN}
    \cup {one([cookie EXCEPT !.domain = d]) : d \in Domains}
    \cup {one([cookie EXCEPT !.path = p, !.age = a, !.expires = e, !.httponly = h, !.secure = x, !.samesite = y]) :
            p \in {<<>>, <<"a", ";", "a">>, <<"=">>}, a \in {-1, 0, 1}, e \in {"", "date", "early"},
            h \in BOOLEAN, x \in BOOLEAN, y \in {"", "default", "lax", "none"}}
    \cup {[cookies |-> <<[cookie EXCEPT !.value = v], [cookie EXCEPT !.name = n, !.quoted = TRUE], cookie>>, filter |-> f] :
            v \in {<<";">>, <<" ">>, <<"=", "a">>}, n \in {<<"a", "a">>, <<>>, <<"^">>}, f \in {<<>>, <<"a">>, <<"a", "a">>}}
Quoted == {one([cookie EXCEPT !.value = <<"q", "a", "q">>]), one([cookie EXCEPT !.path = <<"b">>])}


(* Hosts with a common parent, public suffixes, and cookies that expire. *)
Each(S) == {<<c>> : c \in S}
visit(h, p, x) == [host |-> h, path |-> p, https |-> x]
set == [name |-> "n", value |-> 1, domain |-> <<>>, path |-> <<>>, age |-> 0, expires |-> 0, secure |-> FALSE, quoted |-> FALSE]
A == <<"a", "com">>
W == <<"w", "a", "com">>
Parents == [
    until |-> 1, psl |-> {},
    urls |-> {visit(A, <<"/">>, FALSE), visit(W, <<"/", "x", "/", "y">>, TRUE), visit(<<"b", "com">>, <<"/">>, FALSE)},
    batches |-> Each({set, [set EXCEPT !.domain = <<"", "a", "com">>, !.value = 2],
                      [set EXCEPT !.domain = <<"com">>, !.path = <<"/">>],
                      [set EXCEPT !.path = <<"/", "x">>, !.secure = TRUE, !.value = 3]})]
PublicSuffixes == [
    until |-> 1, psl |-> {<<"com">>, <<"co", "uk">>},
    urls |-> {visit(h, <<"/">>, FALSE) : h \in {<<"a", "co", "uk">>, <<"w", "a", "co", "uk", "">>, <<"co", "uk">>, <<"ip">>}},
    batches |-> Each({set, [set EXCEPT !.domain = <<"co", "uk">>, !.value = 2], [set EXCEPT !.domain = <<"a", "co", "uk">>],
                      [set EXCEPT !.domain = <<"", "">>], [set EXCEPT !.domain = <<"a", "co", "uk", "">>]})]
Expiry == [
    until |-> 3, psl |-> {<<"com">>}, urls |-> {visit(A, <<"/", "x">>, FALSE), visit(W, <<"/", "x", "/">>, FALSE)},
    batches |-> Each({set, [set EXCEPT !.domain = A, !.age = 1], [set EXCEPT !.domain = A, !.age = -1, !.value = 2],
                      [set EXCEPT !.domain = A, !.expires = 2, !.value = 3],
                      [set EXCEPT !.domain = A, !.name = "m", !.path = <<"/", "x">>]})]
Batches == [Expiry EXCEPT !.batches = {
    <<[set EXCEPT !.domain = A, !.age = 1], [set EXCEPT !.domain = A, !.age = -1]>>, <<set, [set EXCEPT !.value = 2]>>}]

CookieParts == INSTANCE Cookies WITH
    MaxLabel <- 2, LineConfs <- CookieConfs, MaxOps <- 3, JarConfs <- {Parents, PublicSuffixes, Expiry, Batches}

HandlersInit ==
    \/ Handled!TimeoutInit \/ Handled!MuxInit \/ Form!Init \/ Recorded!RecorderInit
    \/ Written!Init \/ CookieParts!LineInit \/ CookieParts!JarInit
HandlersNext ==
    \/ Handled!TimeoutNext \/ Handled!MuxNext \/ Form!Next \/ Recorded!RecorderNext
    \/ Written!Next \/ CookieParts!LineNext \/ CookieParts!JarNext


-----------------------------------------------------------------------------
Init == CodecsInit \/ BodiesInit \/ StreamsInit \/ ClientSideInit \/ HandlersInit
Next == CodecsNext \/ BodiesNext \/ StreamsNext \/ ClientSideNext \/ HandlersNext
Spec == Init /\ [][Next]_s
=============================================================================
