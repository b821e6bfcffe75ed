----------------------------- MODULE H2cHandler -----------------------------
(***************************************************************************)
(* HTTP/2 without TLS (src/http2/h2c/h2c.go): an HTTP/1 request that       *)
(* begins an h2c connection is taken from the HTTP/1 server by Hijack and  *)
(* given to http2.Server.ServeConn through an rwConn, with prior knowledge *)
(* or after an upgrade.  The upgrade replays the request as HTTP/2 frames  *)
(* in front of what the client sends, and keeps the server's first         *)
(* SETTINGS acknowledgement, which answers the replayed SETTINGS, from the *)
(* client.  A length is counted in units; the header of a frame is two.    *)
(***************************************************************************)
EXTENDS Naturals, Sequences, SequencesExt

CONSTANTS
    FrameHeader,  \* units of a frame header
    Confs         \* [kind, settings, fields, size, max, path, preface, ops]:
                  \* kind: "prior", "upgrade" or "plain" (the request), settings: values of HTTP2-Settings,
                  \* fields: its other fields, size: units of the HPACK block, max: SETTINGS_MAX_FRAME_SIZE,
                  \* path: "plain" or "escaped", preface: what follows ("whole", "other" or "cut"), ops

VARIABLE s

Here == s.m = "h2c"

op(o) == o \in s.t.ops

(* The frames the HTTP/2 server writes, by kind and length.                *)
Out == <<[k |-> "settings", n |-> 3], [k |-> "ack", n |-> 2], [k |-> "data", n |-> 4], [k |-> "ack", n |-> 2]>>
units(f) == [j \in 1..Out[f].n |-> <<f, j>>]
Written == units(1) \o units(2) \o units(3) \o units(4)
ackEnd == Out[1].n + Out[2].n

Init ==
    \E t \in Confs :
      s = [m |-> "h2c", t |-> t, pc |-> "request",
           hijacked |-> FALSE, open |-> TRUE, h1 |-> "none",      \* the HTTP/1 handler and the state it ran in
           in |-> <<>>,                                          \* what ServeConn reads
           pos |-> 0, buf |-> <<>>, swallows |-> FALSE, didSwallow |-> FALSE,
           out |-> <<>>]                                         \* what the client is sent

(* isH2CUpgrade and getH2Settings: one HTTP2-Settings value, in base64.  A *)
(* value whose length is not a multiple of six is no settings at all.      *)
isH2CUpgrade == s.t.kind = "upgrade"
getH2Settings == IF Len(s.t.settings) # 1 \/ s.t.settings[1] = "undecodable" THEN {}
                 ELSE {IF s.t.settings[1] = "ragged" THEN <<>> ELSE <<"set">>}

(* The replayed request.  Its path is the decoded one.  The fields of the  *)
(* connection are left out.                                                *)
nonH2Headers == {"Connection", "Keep-Alive", "Proxy-Connection", "Transfer-Encoding", "Upgrade", "Http2-Settings"}
allHeaders(fields) == fields
isNonH2Header(f) == f \in nonH2Headers
h2Headers(fields) == SelectSeq(fields, LAMBDA f : ~isNonH2Header(f))
getH2HeaderBytes(t) == [path |-> IF t.path = "escaped" THEN "decoded" ELSE t.path, fields |-> h2Headers(t.fields)]

(* Its block on frames: HEADERS carries the whole of it, and CONTINUATION  *)
(* frames follow when it is not shorter than the frame size.  The slices   *)
(* headerBytes[i:maxFrameSize] in the middle are empty, or out of range.   *)
convertH1ReqToH2(n, max) ==
    LET block == [j \in 1..n |-> j]
        later(i) == IF n - i > max THEN [frag |-> <<>>, end |-> FALSE, panics |-> i > max]
                    ELSE [frag |-> SubSeq(block, i + 1, n), end |-> TRUE, panics |-> FALSE]
    IN  <<[frag |-> block, end |-> n < max, panics |-> FALSE]>> \o
        [k \in 1..((n - 1) \div max) |-> later(k * max)]

fragments(fs) == FoldLeft(LAMBDA acc, f : acc \o f.frag, <<>>, fs)

(* ServeHTTP.  With prior knowledge the rest of the preface is read and    *)
(* the whole of it is put back in front of the connection.                 *)
Prior ==
    /\ Here /\ s.pc = "request" /\ s.t.kind = "prior"
    /\ s' = [s EXCEPT !.pc = "priorPreface", !.hijacked = TRUE]

PriorServe ==
    /\ Here /\ s.pc = "priorPreface" /\ s.t.preface = "whole"
    /\ s' = [s EXCEPT !.pc = "serving", !.in = <<"preface", "client">>]

PriorWrong ==
    /\ Here /\ s.pc = "priorPreface" /\ s.t.preface = "other"
    /\ s' = [s EXCEPT !.pc = "returned", !.open = FALSE]

PriorCut ==
    /\ Here /\ s.pc = "priorPreface" /\ s.t.preface = "cut"
    /\ s' = [s EXCEPT !.pc = "returned"]

(* The upgrade: converted first, so that a request that cannot be is still *)
(* the HTTP/1 handler's.                                                   *)
Upgrade ==
    /\ Here /\ s.pc = "request" /\ isH2CUpgrade /\ getH2Settings # {}
    /\ s' = [s EXCEPT !.pc = "upgradePreface", !.hijacked = TRUE, !.out = <<"101">>]

UpgradeServe ==
    /\ Here /\ s.pc = "upgradePreface" /\ s.t.preface = "whole"
    /\ s' = [s EXCEPT !.pc = "serving", !.swallows = TRUE,
                      !.in = <<"preface", "settings", "headers", "client">>]

(* drainClientPreface failed: the request falls through to the HTTP/1      *)
(* handler.                                                                *)
UpgradeFails ==
    /\ Here /\ s.pc = "upgradePreface" /\ s.t.preface # "whole"
    /\ s' = [s EXCEPT !.pc = "returned", !.h1 = "afterHijack"]

Handler ==
    /\ Here /\ s.pc = "request" /\ s.t.kind # "prior" /\ (isH2CUpgrade => getH2Settings = {})
    /\ s' = [s EXCEPT !.pc = "returned", !.h1 = "served"]

(* settingsAckSwallowWriter.Write.  Bytes are collected until a frame is   *)
(* whole; the frame is forwarded, or dropped if it is the acknowledgement. *)
(* After it the loop goes on with what has been collected, but a frame of  *)
(* which only a part has been is not looked at again.                      *)
frameIn(b) == b[1][1]
whole(b) == Len(b) >= FrameHeader /\ Len(b) >= Out[frameIn(b)].n
rest(b) == SubSeq(b, Out[frameIn(b)].n + 1, Len(b))
forward(x) ==
    LET f == frameIn(x.buf)
    IN  IF Out[f].k = "ack" THEN [x EXCEPT !.didSwallow = TRUE, !.buf = rest(@)]
        ELSE [x EXCEPT !.out = @ \o units(f), !.buf = rest(@)]
forwardAll(x) ==
    FoldLeft(LAMBDA acc, f : IF whole(acc.buf) THEN forward(acc) ELSE acc, x, Out)
swallowEach(x, p) == forwardAll([x EXCEPT !.buf = @ \o p])
swallow(x, p) ==
    IF x.didSwallow THEN [x EXCEPT !.out = @ \o p]
    ELSE forwardAll([x EXCEPT !.buf = @ \o p])

(* rwConn.Write, as the buffered writer of the HTTP/2 server calls it: a   *)
(* call ends with a frame, or where the buffer was full.                   *)
boundary(p) == p \in {Out[1].n, ackEnd, ackEnd + Out[3].n, Len(Written)}
endsWell(p) == op("overflow") \/ p <= ackEnd \/ s.pos >= ackEnd \/ boundary(p)
together(p) == \A q \in (s.pos + 1)..p : q = ackEnd => p < Len(Written) \/ op("acks")
Write ==
    /\ Here /\ s.pc = "serving"
    /\ \E p \in (s.pos + 1)..Len(Written) :
         /\ endsWell(p) /\ together(p)
         /\ LET bytes == SubSeq(Written, s.pos + 1, p)
            IN  s' = IF s.swallows THEN [swallow(s, bytes) EXCEPT !.pos = p]
                     ELSE [s EXCEPT !.out = @ \o bytes, !.pos = p]

(* ServeConn returns and ServeHTTP's deferred Close runs.                  *)
ServeReturns ==
    /\ Here /\ s.pc = "serving" /\ s.pos = Len(Written)
    /\ s' = [s EXCEPT !.pc = "returned", !.open = FALSE]

Next ==
    /\ Here
    /\ \/ Prior \/ PriorServe \/ PriorWrong \/ PriorCut
       \/ Upgrade \/ UpgradeServe \/ UpgradeFails \/ Handler
       \/ Write \/ ServeReturns

-----------------------------------------------------------------------------

(* The frames the client is due: the first acknowledgement is for SETTINGS *)
(* it did not send as a frame.                                             *)
due == IF s.swallows THEN <<"101">> \o units(1) \o units(3) \o units(4) ELSE Written

(* However the server's writes are cut, the client is sent every frame but *)
(* the acknowledgement of the replayed SETTINGS, whole and in order.       *)
SwallowExact ==
    (Here /\ s.pc = "returned" /\ s.in # <<>>) => s.out = due

(* The replayed block is the request's own, once, and is ended.            *)
ReplayExact ==
    (Here /\ s.pc = "serving" /\ s.swallows) =>
      LET fs == convertH1ReqToH2(s.t.size, s.t.max)
      IN  /\ \A k \in 1..Len(fs) : ~fs[k].panics /\ (fs[k].end <=> k = Len(fs))
          /\ fragments(fs) = [j \in 1..s.t.size |-> j]
          /\ getH2HeaderBytes(s.t).path = s.t.path
          /\ \A k \in DOMAIN getH2HeaderBytes(s.t).fields : getH2HeaderBytes(s.t).fields[k] \notin nonH2Headers

(* A request is answered by one of the two servers; a connection given to  *)
(* the HTTP/2 server has been closed when ServeHTTP returns.               *)
TakenOnce ==
    (Here /\ s.pc = "returned") =>
      /\ s.h1 = "served" => ~s.hijacked
      /\ s.in # <<>> => s.hijacked /\ s.h1 = "none" /\ ~s.open

H2cExact == SwallowExact /\ ReplayExact /\ TakenOnce

(* A connection taken from the HTTP/1 server is never left open, nor given *)
(* to the HTTP/1 handler after all.                                        *)
HijackSettled ==
    (Here /\ s.pc = "returned" /\ s.hijacked) => ~s.open /\ s.h1 = "none"
==============================================================================
