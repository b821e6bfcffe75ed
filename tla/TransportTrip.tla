---------------------------- MODULE TransportTrip ---------------------------
(***************************************************************************)
(* The attempts of a request and the dials they need (src/transport.go).   *)
(***************************************************************************)
EXTENDS Naturals, FiniteSets, Sequences

CONSTANTS
    MaxTries,    \* bound on the attempts
    TryConfs        \* [body ("none", "once", "get"), idem, alt, ops]

CONSTANTS
    Dials,       \* calls of dialConn
    DialConfs        \* [plan: Dials -> plan, header ("nil", "shared"), timeout, ops]

VARIABLE s

-----------------------------------------------------------------------------
(* Transport.roundTrip (src/transport.go): one request, its attempts on    *)
(* connections and its body between them.  Connections fail in the ways    *)
(* persistConn.roundTrip and the alternate round trippers report.          *)
(*                                                                         *)
(* A body instance is numbered: 1 is the caller's, the others come from    *)
(* GetBody.  An attempt uses the current instance.                         *)
TryHere == s.m = "rt"
May(op) == op \in s.t.ops

TryInit ==
    \E t \in TryConfs :
      s = [m |-> "rt", t |-> t, at |-> "check", ret |-> "none", tries |-> 0, reused |-> FALSE,
           b |-> IF t.body = "none" THEN 0 ELSE 1,       \* the current instance, 0 for none
           made |-> IF t.body = "none" THEN {} ELSE {1}, read |-> {}, closed |-> {},
           wrote |-> FALSE,       \* an earlier attempt may have reached the server
           sentOld |-> FALSE]     \* an attempt was made with a body already read or closed

cls(x) == IF x.b = 0 THEN x ELSE [x EXCEPT !.closed = @ \cup {x.b}]
returns(x, r) == [x EXCEPT !.at = "done", !.ret = r]
reads(x) == IF x.b = 0 THEN x ELSE [x EXCEPT !.read = @ \cup {x.b}]

(* The checks before the loop (some of them after the alternate round      *)
(* tripper), and the context at its head                                   *)
refuse ==
    /\ TryHere /\ May("bad") /\ s.at \in {"check", "loop"} /\ s.tries = 0
    /\ s' = returns(cls(s), "error")
accept ==
    /\ TryHere /\ s.at = "check"
    /\ s' = [s EXCEPT !.at = IF s.t.alt THEN "alt" ELSE "loop"]
contextDone ==
    /\ TryHere /\ May("ctx") /\ s.at = "loop"
    /\ s' = returns(cls(s), "error")

(* rewindBody *)
dirty == s.b # 0 /\ (s.b \in s.read \/ s.b \in s.closed)
(* (Fault: only a body that was read is rewound.) *)
needNoneIfOnlyClosed == s.b = 0 \/ s.b \notin s.read
rewindNotNeeded == s.b = 0 \/ (s.b \notin s.read /\ s.b \notin s.closed)
rewound(x) ==
    IF rewindNotNeeded THEN {x}
    ELSE LET y == cls(x) IN
         IF s.t.body # "get" THEN {returns(y, "error")}
         ELSE {[y EXCEPT !.b = Cardinality(s.made) + 1, !.made = @ \cup {Cardinality(s.made) + 1}]}
              \cup (IF May("getbody") THEN {returns(y, "error")} ELSE {})

(* The alternate round tripper: answers, fails, or declines with           *)
(* ErrSkipAltProtocol, having closed the body or not touched it.           *)
altRoundTrip ==
    /\ TryHere /\ s.at = "alt"
    /\ \E r \in {"response", "error"} : s' = returns(cls(reads(s)), r)
skipAlt ==
    /\ TryHere /\ s.at = "alt"
    /\ s' \in rewound([s EXCEPT !.at = "loop"])
skipAltClosed ==
    /\ TryHere /\ s.at = "alt"
    /\ s' = [cls(s) EXCEPT !.at = "skipped"]
skipped ==
    /\ TryHere /\ s.at = "skipped"
    /\ s' \in rewound([s EXCEPT !.at = "loop"])

(* getConn; an attempt begins with the body as it is *)
noConn ==
    /\ TryHere /\ s.at = "loop"
    /\ s' = returns(cls(s), "error")
gotConn(reused) ==
    /\ TryHere /\ s.at = "loop" /\ s.tries < MaxTries
    /\ s' = [s EXCEPT !.at = "trip", !.tries = @ + 1, !.reused = reused, !.sentOld = @ \/ dirty]

answered ==
    /\ TryHere /\ s.at = "trip"
    /\ s' = returns(cls(reads(s)), "response")

(* The attempt fails: the error, whether the body was read and closed, and *)
(* whether anything reached the server.                                    *)
Failures == {[err |-> "noCachedConn", wrote |-> FALSE, read |-> FALSE], [err |-> "missingHost", wrote |-> FALSE, read |-> FALSE],
             [err |-> "nothingWritten", wrote |-> FALSE, read |-> TRUE], [err |-> "nothingWritten", wrote |-> FALSE, read |-> FALSE],
             [err |-> "canceled", wrote |-> FALSE, read |-> FALSE],
             [err |-> "readFromServer", wrote |-> TRUE, read |-> TRUE], [err |-> "serverClosedIdle", wrote |-> TRUE, read |-> TRUE],
             [err |-> "other", wrote |-> TRUE, read |-> TRUE]}

isReplayable == s.t.body # "once" /\ s.t.idem
(* (Fault: a fresh connection is retried too, or whatever the request is.) *)
retryAny(err) == err \in {"noCachedConn", "nothingWritten", "readFromServer", "serverClosedIdle"}
shouldRetryRequest(err) ==
    \/ err = "noCachedConn"
    \/ /\ s.reused
       /\ \/ err = "nothingWritten" /\ s.t.body # "once"
          \/ err \in {"readFromServer", "serverClosedIdle"} /\ isReplayable

(* The write loop closes the body of a request that failed.  An alternate  *)
(* that had no connection may leave it untouched; so does, under "left",   *)
(* a connection that is closed, or a request that is canceled, before the  *)
(* write loop takes the request.                                           *)
after(f) ==
    LET x == IF f.read THEN reads(s) ELSE s
        y == [x EXCEPT !.wrote = @ \/ f.wrote] IN
    IF f.err = "noCachedConn" \/ (May("left") /\ ~f.read) THEN {y, cls(y)} ELSE {cls(y)}
failed(f) ==
    /\ TryHere /\ s.at = "trip"
    /\ \E y \in after(f) :
         s' = IF shouldRetryRequest(f.err) THEN [y EXCEPT !.at = "retry"] ELSE returns(y, "error")
retry ==
    /\ TryHere /\ s.at = "retry"
    /\ s' \in rewound([s EXCEPT !.at = "loop"])

TryNext ==
    /\ TryHere
    /\ \/ refuse \/ accept \/ contextDone \/ altRoundTrip \/ skipAlt \/ skipAltClosed \/ skipped \/ noConn
       \/ answered \/ retry
       \/ \E reused \in BOOLEAN : gotConn(reused)
       \/ \E f \in Failures : failed(f)

-----------------------------------------------------------------------------
(* Every attempt has a whole body, unread and open; every body instance is *)
(* closed when RoundTrip has returned (but for "left"); a request that *)
(* may have reached the server is sent again only if it is replayable.     *)
AttemptsSound ==
    TryHere =>
      /\ ~s.sentOld
      /\ s.at = "done" /\ ~May("left") => s.made = s.closed
      /\ s.at \in {"retry", "loop", "trip"} /\ s.wrote => isReplayable

-----------------------------------------------------------------------------
(* Transport.dialConn (src/transport.go): dials that share a Transport,    *)
(* each through the TCP connection, the first hop's TLS, the proxy (SOCKS  *)
(* or CONNECT), the target's TLS and the protocol upgrade.  The handshake  *)
(* runs in a goroutine against a timer, the CONNECT exchange in another    *)
(* against the context.                                                    *)
(*                                                                         *)
(* A plan is [proxy ("none", "http", "https", "socks5"), scheme, target,   *)
(* custom, auth, nego ("", "h1", "h2")].                                   *)
DialHere == s.m = "dial"
MayDial(op) == op \in s.t.ops

DialInit ==
    \E t \in DialConfs :
      s = [m |-> "dial", t |-> t, host |-> "",        \* Host in Transport.ProxyConnectHeader
           at |-> [d \in Dials |-> "dial"], conn |-> [d \in Dials |-> "none"],
           layers |-> [d \in Dials |-> <<>>],         \* what has been set up on the connection
           tls |-> [d \in Dials |-> 0],               \* handshakes made
           hs |-> [d \in Dials |-> "none"],           \* the handshake goroutine
           errc |-> [d \in Dials |-> {}], timer |-> [d \in Dials |-> "none"],
           rt |-> [d \in Dials |-> "none"],           \* the CONNECT goroutine
           sentHost |-> [d \in Dials |-> ""], done |-> [d \in Dials |-> FALSE]]

P(d) == s.t.plan[d]
scheme(d) == IF P(d).proxy # "none" THEN P(d).proxy ELSE P(d).scheme

(* connectMethod.key: dials with the same key share connections *)
key(p) == [proxy |-> p.proxy, scheme |-> p.scheme, onlyH1 |-> p.nego = "h1",
           addr |-> IF p.proxy \in {"http", "https"} /\ p.scheme = "http" THEN "" ELSE p.target]

go(x, d, at) == [x EXCEPT !.at[d] = at]
layer(x, d, l) == [x EXCEPT !.layers[d] = Append(@, l)]
closeConn(x, d) == [x EXCEPT !.conn[d] = "closed"]
(* (Fault: an error return leaves the connection open.) *)
failOpen(x, d) == go(x, d, "failed")
fail(x, d) == go(closeConn(x, d), d, "failed")

-----------------------------------------------------------------------------
(* The first hop *)
afterHop(d) == IF P(d).proxy = "socks5" THEN "socks"
               ELSE IF P(d).proxy # "none" /\ P(d).scheme = "https" THEN "connect" ELSE "upgrade"

customDialTLS(d) ==
    /\ DialHere /\ s.at[d] = "dial" /\ scheme(d) = "https" /\ P(d).custom
    /\ \/ s' = go(s, d, "failed")
       \/ s' = go([s EXCEPT !.conn[d] = "open"], d, "custom")
customHandshake(d) ==
    /\ DialHere /\ s.at[d] = "custom"
    /\ \/ s' = fail(s, d)
       \/ s' = go(layer([s EXCEPT !.tls[d] = 1], d, "tls"), d, afterHop(d))
dial(d) ==
    /\ DialHere /\ s.at[d] = "dial" /\ ~(scheme(d) = "https" /\ P(d).custom)
    /\ \/ s' = go(s, d, "failed")
       \/ s' = go([s EXCEPT !.conn[d] = "open"], d, IF scheme(d) = "https" THEN "tls" ELSE afterHop(d))

-----------------------------------------------------------------------------
(* addTLS: the goroutine, the timer and the first result *)
addTLS(d) ==
    /\ DialHere /\ s.at[d] = "tls"
    /\ s' = go([s EXCEPT !.hs[d] = "running", !.errc[d] = {}, !.timer[d] = IF s.t.timeout THEN "armed" ELSE "none"],
               d, "handshake")
handshakeEnds(d) ==
    /\ DialHere /\ s.hs[d] = "running"
    /\ \E r \in IF s.conn[d] = "closed" THEN {"err"} ELSE {"ok", "err"} :
         s' = [s EXCEPT !.hs[d] = "ended", !.timer[d] = IF @ = "armed" THEN "stopped" ELSE @,
                        !.errc[d] = @ \cup {r}]
handshakeTimeout(d) ==
    /\ DialHere /\ s.timer[d] = "armed"
    /\ s' = [s EXCEPT !.timer[d] = "fired", !.errc[d] = @ \cup {"timeout"}]
handshakeDone(d) ==
    /\ DialHere /\ s.at[d] = "handshake"
    /\ \E r \in s.errc[d] :
         s' = IF r # "ok" THEN fail(s, d)
              ELSE go(layer([s EXCEPT !.tls[d] = @ + 1], d, "tls"), d,
                      IF s.tls[d] = 0 /\ scheme(d) = "https" THEN afterHop(d) ELSE "upgrade")

-----------------------------------------------------------------------------
(* The proxy *)
target(d) == IF P(d).scheme = "https" THEN "tls" ELSE "upgrade"

socks(d) ==
    /\ DialHere /\ s.at[d] = "socks"
    /\ \/ s' = fail(s, d)
       \/ s' = go(layer(s, d, "socks"), d, target(d))

(* The CONNECT request is written with the header of the Transport, or a   *)
(* copy of it: Request.write puts Host in the header it has, if it has     *)
(* none.                                                                   *)
connect(d) ==
    /\ DialHere /\ s.at[d] = "connect"
    /\ s' = go([s EXCEPT !.rt[d] = "write"], d, "wait")
connectWrite(d) ==
    LET shared == s.t.header = "shared" /\ ~P(d).auth
        host == IF s.t.header = "shared" /\ s.host # "" THEN s.host ELSE P(d).target IN
    /\ DialHere /\ s.rt[d] = "write"
    /\ s' = IF s.conn[d] = "closed" THEN [s EXCEPT !.rt[d] = "err"]
            ELSE [s EXCEPT !.rt[d] = "read", !.sentHost[d] = host, !.host = IF shared THEN host ELSE @]
connectRead(d) ==
    /\ DialHere /\ s.rt[d] = "read"
    /\ \E r \in IF s.conn[d] = "closed" THEN {"err"} ELSE {"200", "403", "err"} : s' = [s EXCEPT !.rt[d] = r]
connectDone(d) ==
    /\ DialHere /\ s.at[d] = "wait" /\ s.rt[d] \in {"200", "403", "err"}
    /\ s' = IF s.rt[d] = "200" THEN go(layer(s, d, "connect"), d, "tls") ELSE fail(s, d)
(* The context ends, or the minute that stands in for it *)
connectCtx(d) ==
    /\ DialHere /\ MayDial("ctx") /\ s.at[d] = "wait"
    /\ s' = go(closeConn(s, d), d, "unwind")
connectUnwound(d) ==
    /\ DialHere /\ s.at[d] = "unwind" /\ s.rt[d] \in {"200", "403", "err"}
    /\ s' = fail(s, d)

-----------------------------------------------------------------------------
(* TLSNextProto: the alternate takes the connection, or closes it and      *)
(* reports an error; otherwise the two loops start.                        *)
upgrade(d) ==
    /\ DialHere /\ s.at[d] = "upgrade"
    /\ \/ P(d).nego = "h2" /\ s.tls[d] > 0 /\ s' = go(s, d, "alt")
       \/ P(d).nego = "h2" /\ s.tls[d] > 0 /\ MayDial("alt") /\ s' = fail(s, d)
       \/ ~(P(d).nego = "h2" /\ s.tls[d] > 0) /\ s' = go(s, d, "ready")

DialNext ==
    /\ DialHere
    /\ \E d \in Dials :
         \/ customDialTLS(d) \/ customHandshake(d) \/ dial(d) \/ addTLS(d) \/ handshakeEnds(d)
         \/ handshakeTimeout(d) \/ handshakeDone(d) \/ socks(d) \/ connect(d) \/ connectWrite(d)
         \/ connectRead(d) \/ connectDone(d) \/ connectCtx(d) \/ connectUnwound(d) \/ upgrade(d)

-----------------------------------------------------------------------------
(* Who talks to whom, as the comment of connectMethod lists it *)
expected(p) ==
    (IF p.proxy = "https" THEN <<"tls">> ELSE IF p.proxy = "socks5" THEN <<"socks">> ELSE <<>>)
    \o (IF p.proxy \in {"http", "https"} /\ p.scheme = "https" THEN <<"connect">> ELSE <<>>)
    \o (IF p.scheme = "https" THEN <<"tls">> ELSE <<>>)

(* A dial that fails leaves no connection open, and no goroutine that      *)
(* still uses it succeeds; one that succeeds returns an open connection    *)
(* that has gone through exactly the hops its key stands for.  Dials with  *)
(* the same key have gone through the same hops.                           *)
DialSound ==
    DialHere =>
      /\ \A d \in Dials : s.at[d] = "failed" => s.conn[d] # "open" /\ s.rt[d] \notin {"write", "read"}
      /\ \A d \in Dials : s.at[d] \in {"ready", "alt"} =>
           s.conn[d] = "open" /\ s.layers[d] = expected(P(d)) /\ s.hs[d] # "running"
      /\ \A d, e \in Dials : s.at[d] \in {"ready", "alt"} /\ s.at[e] \in {"ready", "alt"} /\ key(P(d)) = key(P(e)) =>
           s.layers[d] = s.layers[e]

(* The CONNECT request names the target of its own dial. *)
ConnectHost == DialHere => \A d \in Dials : s.sentHost[d] \in {"", P(d).target}
=============================================================================
