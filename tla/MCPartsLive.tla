---------------------------- MODULE MCPartsLive -----------------------------
(***************************************************************************)
(* The parts whose goroutines wait for one another, side by side: a        *)
(* behaviour is a behaviour of one of them, the one that s.m names, under  *)
(* the fairness of its own goroutines.                                     *)
(***************************************************************************)
EXTENDS Integers, Sequences, SequencesExt, TLC

VARIABLE s      \* the state of the part the behaviour is about

-----------------------------------------------------------------------------
(* Instances of ServerLife and HttpTest: two connections, on one or two    *)
(* listeners, while the server is shut down or closed.                     *)
twoListeners == [lns |-> {"l1", "l2"}, on |-> [c1 |-> "l1", c2 |-> "none"], ops |-> {"shutdown"}]
LifeConfs == {
    [twoListeners EXCEPT !.ops = {"shutdown", "hijack", "ctx"}], [twoListeners EXCEPT !.ops = {"shutdown", "h2"}],
    [twoListeners EXCEPT !.ops = {"close"}], [twoListeners EXCEPT !.lns = {"l1"}, !.ops = {"shutdown", "keepalives"}],
    [lns |-> {"l1"}, on |-> [c1 |-> "l1", c2 |-> "l1"], ops |-> {"shutdown"}]}

Life == INSTANCE ServerLife WITH Conns <- {"c1", "c2"}, Lns <- {"l1", "l2"}, Confs <- LifeConfs

Test == INSTANCE HttpTest WITH
    MaxOps <- 0, RecorderConfs <- {},
    Conns <- 1..2,
    ServerConfs <- {[ops |-> {}, reqs |-> 2], [ops |-> {"hijack"}, reqs |-> 2], [ops |-> {"drop"}, reqs |-> 1],
              [ops |-> {"gone"}, reqs |-> 2]}

StopsInit == Life!Init \/ Test!ServerInit
StopsNext == Life!Next \/ Test!ServerNext

(* What stops a server waits for what it promises to wait for: no Serve    *)
(* accepts after it (doneChan and listeners are looked at under one lock), *)
(* Shutdown has seen every earlier connection closed or hijacked, and      *)
(* httptest's Close has seen every handler and connection end.             *)
(* (server.go: Serve, trackListener, Shutdown; httptest/server.go: Close)  *)
StopsWait == Life!ServeClosed /\ Life!ShutdownWaits /\ Test!CloseWaits

(* Shutdown, every Serve, and httptest's Close return. *)
StopsEnd == (Life!Due(1) \/ Test!Due(1)) ~> (Life!Met(1) \/ Test!Met(1))

-----------------------------------------------------------------------------
(* Instances of ReverseProxy, CgiHost, FcgiChild, FileServer, PersistPipe, *)
(* Dump and SocksDial: what stands between two ends and passes messages    *)
(* on.  Bodies have up to three units, pipes hold two.                     *)
(* Headers and trailers, flush intervals, and switched protocols. *)
forward == [header |-> {"X", "A"}, listed |-> {}, xff |-> "absent", status |-> 200, upgrade |-> FALSE, latency |-> 1,
            trailers |-> {}, late |-> {}, ops |-> {"gone", "break", "refuse", "tripfails"}]
switch == [forward EXCEPT !.header = {"X", "Connection", "Upgrade"}, !.listed = {"Upgrade"}, !.status = 101]
ProxyConfs ==
    {[forward EXCEPT !.latency = l, !.trailers = t, !.late = u] :
       l \in {-1, 0, 1}, t \in {{}, {"T"}}, u \in {{}, {"T"}, {"U"}}}
    \cup {[forward EXCEPT !.header = {"X", "A", "Connection", "Keep-Alive"} \cup h, !.listed = l, !.xff = x] :
            h \in {{"Te"}, {"Te*", "Upgrade"}}, l \in {{}, {"X"}, {"X", "Upgrade"}}, x \in {"nil", "absent"}}
    \cup {[switch EXCEPT !.upgrade = TRUE, !.ops = o] : o \in {{"gone"}, {"eof"}, {"eof", "gone"}, {"nohijack"}}}
    \cup {[switch EXCEPT !.upgrade = b] : b \in BOOLEAN}

Proxy == INSTANCE ReverseProxy WITH MaxBody <- 3, Confs <- ProxyConfs

(* Children that write every pair of header lines, and a child made of     *)
(* this package's own cgi.Serve.                                           *)
child == [header |-> [X |-> "x", PROXY |-> "p", CONTENT_TYPE |-> "t"], length |-> 0, own |-> <<>>, inherit |-> <<>>,
          lines |-> <<"type", "blank">>, body |-> 3, input |-> 0, redirect |-> FALSE, ops |-> {"gone"}]
Kinds == {"type", "status", "ok", "local", "abs", "bogus", "long", "badstatus", "blank"}
OwnChild == INSTANCE CgiHost WITH PipeSize <- 2, Confs <- {}     \* for its operator response
CgiConfs ==
    {[child EXCEPT !.lines = <<a, b, "blank">>, !.redirect = r, !.body = 1] : a \in Kinds, b \in Kinds, r \in BOOLEAN}
    \cup {[child EXCEPT !.lines = <<a>>, !.body = 0] : a \in Kinds}
    \cup {[child EXCEPT !.own = o, !.length = l, !.input = l] :
            o \in {<<>>, << <<"HTTP_X", "1">>, <<"HTTP_X", "2">>, <<"SERVER_NAME", "n">> >>}, l \in {0, 2}}
    \cup {[child EXCEPT !.lines = q, !.ops = {"gone", "endless"}, !.length = 2, !.input = 2] :
            q \in {<<"type", "blank">>, <<"long">>, <<"badstatus">>}}
    \cup {[child EXCEPT !.ops = o] : o \in {{"chunked"}, {"nostart"}}}
    \cup {[child EXCEPT !.lines = OwnChild!response(q).lines, !.body = OwnChild!response(q).body, !.ops = {"tls"},
                        !.inherit = << <<"PATH", "q">> >>] :
            q \in {<<>>, <<"write">>, <<"status", "ok", "write", "status", "write">>}}

Cgi == INSTANCE CgiHost WITH PipeSize <- 2, Confs <- CgiConfs

(* One request whose parameters come in pieces; two requests at once. *)
record == [ids |-> {1, 2}, keep |-> TRUE, pairs |-> << <<1, 2>> >>, chunks |-> 1, ops |-> {"write"}]
FcgiConfs ==
    {[record EXCEPT !.ids = {1}, !.pairs = p, !.keep = k, !.chunks = 2, !.ops = {"write", "values", "role"}] :
       p \in {<< <<1, 4>>, <<5, 0>>, <<3, 2>> >>, <<>>}, k \in BOOLEAN}
    \cup {record, [record EXCEPT !.ops = {"close"}], [record EXCEPT !.keep = FALSE, !.ops = {}],
          [record EXCEPT !.ops = {"abort"}, !.chunks = 0],
          [record EXCEPT !.keep = FALSE, !.ops = {"abort"}, !.chunks = 0],
          [record EXCEPT !.ids = {1}, !.ops = {"early"}, !.chunks = 2]}

Fcgi == INSTANCE FcgiChild WITH High <- 4, MaxReqs <- 2, Confs <- FcgiConfs

(* A tree of files and directories; ranges; conditions; a file that is     *)
(* replaced between two requests.                                          *)
name(segs, slash) == [segs |-> segs, slash |-> slash]
root == <<>> :> "dir"
tree == root @@ <<"f">> :> "file" @@ <<"d">> :> "dir" @@ <<"d", "index.html">> :> "file" @@ <<"e">> :> "dir"
        @@ <<"e", "index.html">> :> "dir" @@ <<"x">> :> "denied"
get == [method |-> "GET", match |-> <<>>, noneMatch |-> <<>>, unmodified |-> -1, since |-> -1,
        ifTag |-> "", ifDate |-> -1, ranges |-> <<>>]
file == [tree |-> root @@ <<"f">> :> "file", url |-> name(<<"f">>, FALSE), size |-> 3, etag |-> "none",
         reqs |-> {get}, mods |-> {}, ops |-> {"gone"}]
range(a, b) == [a |-> a, b |-> b]     \* -1: nothing is written there
RangeSpecs == {range(-1, -1), range(-1, 1), range(-1, 9), range(0, -1), range(0, 0), range(1, 2), range(2, 1),
               range(2, 9), range(3, -1)}
PairSpecs == {range(-1, 1), range(0, 0), range(1, 2), range(2, 1), range(2, 9), range(3, -1)}
ranged(q) == [get EXCEPT !.ranges = q]
FileConfs ==
    {[file EXCEPT !.tree = tree, !.url = name(q, slash), !.ops = {}] :
       q \in SeqOf({"f", "d", "e", "x", "index.html"}, 3), slash \in BOOLEAN}
    \cup {[file EXCEPT !.reqs = {ranged(<<a>>)}, !.ops = {}] : a \in RangeSpecs}
    \cup {[file EXCEPT !.reqs = {ranged(<<a, b>>)}] : a \in PairSpecs, b \in PairSpecs}
    \cup {[file EXCEPT !.reqs = {[ranged(<<range(0, 0), range(2, 2)>>) EXCEPT !.method = "HEAD"]}]}
    \cup {[file EXCEPT !.etag = e, !.mods = d, !.ops = {"gone", "resume", "revalidate"}] :
            e \in {"none", "strong", "weak"}, d \in {{0, 1}, {2}}}
    \cup {[file EXCEPT !.etag = e, !.ops = {},
                       !.reqs = {[get EXCEPT !.method = method, !.match = match, !.noneMatch = none, !.unmodified = since]}] :
            e \in {"none", "weak", "strong"}, method \in {"GET", "PUT"},
            match \in {<<>>, <<"v1">>, <<"v0", "*">>, <<"bad", "v1">>}, none \in {<<>>, <<"v0", "v1">>, <<"*">>},
            since \in {-1, 0, 2}}

Files == INSTANCE FileServer WITH MaxHops <- 4, MaxReqs <- 3, Confs <- FileConfs

(* Two pipelined requests over the deprecated ClientConn and ServerConn. *)
pair == [close |-> {}, rclose |-> {}, body |-> {1}, rbody |-> {1, 2}, ops |-> {}]

Pipeline == INSTANCE PersistPipe WITH
    N <- 2,
    Confs <- {pair, [pair EXCEPT !.ops = {"break"}], [pair EXCEPT !.close = {2}, !.ops = {"close"}],
              [pair EXCEPT !.rclose = {1}]}

Dumps == INSTANCE Dump WITH
    Confs <- {c \in [call : {"out", "request", "response"}, body : BOOLEAN, len : 0..2,
                     fault : {"none", "read", "early", "cancel", "short"}] :
                /\ c.fault \in {"early", "cancel", "short"} => c.call = "out"
                /\ c.fault = "short" => c.len > 0 /\ c.body}

(* Every address type and method a proxy may answer with, and every way a  *)
(* dial may end.                                                           *)
dialing == [ctx |-> "background", user |-> FALSE, method |-> "none", accepted |-> TRUE, reply |-> 0, atyp |-> "IPv4",
            ops |-> {}]
SocksConfs ==
    {[dialing EXCEPT !.ctx = c, !.atyp = a, !.ops = {"cancel"}] :
       c \in {"background", "cancel", "deadline"}, a \in {"IPv4", "IPv6", "FQDN", "other"}}
    \cup {[dialing EXCEPT !.ctx = "cancel", !.user = TRUE, !.method = method, !.accepted = accepted, !.ops = {"cancel"}] :
            method \in {"none", "password", "unacceptable", "other"}, accepted \in BOOLEAN}
    \cup {[dialing EXCEPT !.user = TRUE, !.method = "password", !.ops = {"credentials"}], [dialing EXCEPT !.reply = 1]}
    \cup {[dialing EXCEPT !.ops = {o}] : o \in {"badtarget", "unreachable", "hangup"}}

Socks == INSTANCE SocksDial WITH IPv4len <- 4, IPv6len <- 16, NameLen <- 3, Confs <- SocksConfs

RelaysInit ==
    Proxy!Init \/ Cgi!Init \/ Fcgi!Init \/ Files!Init \/ Pipeline!Init \/ Dumps!Init \/ Socks!Init
RelaysNext ==
    Proxy!Next \/ Cgi!Next \/ Fcgi!Next \/ Files!Next \/ Pipeline!Next \/ Dumps!Next \/ Socks!Next
RelaysProcess(k) ==
    \/ Proxy!Process(k) \/ Cgi!Process(k) \/ Fcgi!Process(k) \/ Files!Process(k) \/ Pipeline!Process(k)
    \/ Dumps!Process(k) \/ Socks!Process(k)


(* Every call of theirs ends, and so does every goroutine it started, *)
(* whichever end is gone or silent first.                             *)
RelaysEnd ==
    \A k \in 1..2 :
      (\/ Proxy!Due(k) \/ Cgi!Due(k) \/ Fcgi!Due(k) \/ Files!Due(k) \/ Pipeline!Due(k) \/ Dumps!Due(k) \/ Socks!Due(k))
      ~>
      (\/ Proxy!Met(k) \/ Cgi!Met(k) \/ Fcgi!Met(k) \/ Files!Met(k) \/ Pipeline!Met(k) \/ Dumps!Met(k) \/ Socks!Met(k))

-----------------------------------------------------------------------------
(* Instances of H2Inflow: two streams, an initial window of 4, frames of   *)
(* up to two units on the way.                                             *)
each(a, b) == <<a, b>>
reading == [setting |-> -1, conn |-> 8, small |-> TRUE, pad |-> 0, body |-> each(7, 3), decl |-> each(-1, -1),
            close |-> {}, cancel |-> {}, over |-> FALSE]
InflowConfs == {
    reading, [reading EXCEPT !.over = TRUE, !.body = each(5, 2)], [reading EXCEPT !.pad = 1, !.body = each(4, 3)],
    [reading EXCEPT !.decl = each(3, 4), !.body = each(5, 3)],
    [reading EXCEPT !.cancel = {1}, !.small = FALSE, !.setting = 3, !.body = each(4, 3)],
    [reading EXCEPT !.close = {1}, !.body = each(4, 2)]}

Inflow == INSTANCE H2Inflow WITH
    Streams <- {1, 2}, Default <- 4, Threshold <- 1, MinRefresh <- 0, MaxInt32 <- 20, MaxNet <- 2,
    Confs <- InflowConfs


(* A reader that goes on reading comes to the end of its body, as long as  *)
(* what is dropped with a stream is less than half of ConnectionFlow.      *)
(* (http2/transport.go:783 "... stalls the stream forever")                *)
BodyArrives == Inflow!BodyArrives

-----------------------------------------------------------------------------
Init == StopsInit \/ RelaysInit \/ Inflow!Init
Next == StopsNext \/ RelaysNext \/ Inflow!Next

(* The part of a behaviour never changes.  Fairness to the k-th process of *)
(* whichever part runs is therefore the conjunction of the parts' Fair,    *)
(* and a leads-to between disjunctions over the parts (StopsEnd,           *)
(* RelaysEnd) the conjunction of theirs.                                   *)
Process(k) == Life!Process(k) \/ Test!Process(k) \/ RelaysProcess(k) \/ Inflow!Process(k)
Spec == Init /\ [][Next]_s /\ SF_s(Life!Locks) /\ \A k \in 1..7 : WF_s(Process(k))

-----------------------------------------------------------------------------
(* H2Inflow with a first stream that its reader closes while four units of *)
(* it are on the way, and a second one longer than ConnectionFlow.         *)
Stall == INSTANCE H2Inflow WITH
    Streams <- {1, 2}, Default <- 4, Threshold <- 1, MinRefresh <- 0, MaxInt32 <- 20, MaxNet <- 2,
    Confs <- {[reading EXCEPT !.close = {1}, !.body = each(4, 13)]}

StallSpec == Stall!Init /\ [][Stall!Next]_s /\ \A k \in 1..7 : WF_s(Stall!Process(k))
=============================================================================
