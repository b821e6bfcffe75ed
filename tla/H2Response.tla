----------------------------- MODULE H2Response -----------------------------
(***************************************************************************)
(* One HTTP/2 response, from the handler's calls on the server's           *)
(* responseWriter (http2/server.go) through the frames it writes           *)
(* (http2/write.go) to the Response the Transport builds from them         *)
(* (http2/transport.go).  The bytes of the body are counted; a header      *)
(* field is "none" (no such key), "nil" (the key with no values) or a      *)
(* value.  Key h is an ordinary field, t a trailer the handler may declare *)
(* in its "Trailer" field (decl), and p the key "Trailer:U" which promotes *)
(* U to a trailer without a declaration.                                   *)
(***************************************************************************)
EXTENDS Integers, Sequences, SequencesExt

CONSTANTS BufSize,   \* size of the bufio.Writer in front of writeChunk
          MaxOps,    \* bound on the handler's calls
          Confs      \* [method, expect, ops] : the requests and the calls their handlers make

VARIABLE s

Here == s.m = "hres"

NoHeader == [h |-> "none", t |-> "none", p |-> "none", u |-> "none", decl |-> FALSE, cl |-> -1]

(* bodyAllowedForStatus of http2.go.                                       *)
bodyAllowedForStatus(code) == code \notin {204, 304} /\ ~ code \in 100 .. 199

(* The fields of a header as encodeHeaders puts them on the wire: all the  *)
(* keys, or the given ones; a key without values writes nothing, and the   *)
(* "Trailer:" key is no valid wire name.                                   *)
encodeHeaders(hdr, keys) == [k \in {x \in keys : hdr[x] \notin {"none", "nil"}} |-> hdr[k]]

(* writeResHeaders.writeFrame with splitHeaderBlock: the response's block  *)
(* always has a :status; the trailers' block may be empty, and then no     *)
(* frame is written.                                                       *)
writeResHeaders(r, hdr, clen, end) ==
    Append(r.out, [kind |-> "HEADERS", status |-> r.status, end |-> end, decl |-> hdr.decl,
                   cl |-> clen, fields |-> encodeHeaders(hdr, {"h", "t"})])
writeTrailers(r) ==
    LET fields == encodeHeaders(r.hh, r.trailers)
    IN  IF fields = <<>> THEN r.out
        ELSE Append(r.out, [kind |-> "HEADERS", status |-> 0, end |-> TRUE, decl |-> FALSE,
                            cl |-> -1, fields |-> fields])

\* fault: a later call changes the status again
writeHeaderAgain(r, code) == [r EXCEPT !.wroteHeader = TRUE, !.status = code, !.snap = r.hh]

(* responseWriterState.writeHeader: the first call fixes the status and    *)
(* takes a snapshot of the header map.                                     *)
writeHeader(r, code) ==
    IF r.wroteHeader THEN r
    ELSE [r EXCEPT !.wroteHeader = TRUE, !.status = code, !.snap = r.hh]

(* declareTrailer over the snapshot's Trailer field.                       *)
declared(hdr) == IF hdr.decl THEN {"t"} ELSE {}

(* promoteUndeclaredTrailers.                                              *)
promoteUndeclaredTrailers(r) ==
    IF r.hh.p = "none" THEN r
    ELSE [r EXCEPT !.trailers = @ \cup {"u"}, !.hh.u = r.hh.p]

hasNonemptyTrailers(r) == \E k \in r.trailers : r.hh[k] # "none"

\* fault: declared trailers forgotten when the body is empty
headersEndAlways(r, n) == (r.handlerDone /\ n = 0) \/ r.method = "HEAD"

(* The end of the stream in the response's own HEADERS frame.              *)
headersEnd(r, n) == (r.handlerDone /\ r.trailers = {} /\ n = 0) \/ r.method = "HEAD"

\* fault: the length of the first chunk taken for the length of the body
contentLengthEarly(r, n) ==
    IF r.snap.cl >= 0 THEN r.snap.cl
    ELSE IF bodyAllowedForStatus(r.status) /\ (n > 0 \/ r.method # "HEAD") THEN n ELSE -1

(* The Content-Length of the first chunk: the handler's own, or the length *)
(* of the only chunk of a handler that is done.                            *)
contentLength(r, n) ==
    IF r.snap.cl >= 0 THEN r.snap.cl
    ELSE IF r.handlerDone /\ bodyAllowedForStatus(r.status) /\ (n > 0 \/ r.method # "HEAD")
         THEN n ELSE -1

(* responseWriterState.writeChunk(p), len(p) = n: [r, n: bytes taken, err] *)
(* The response header goes first.  A stream the peer has reset refuses    *)
(* every frame, and marks the writer dirty.                                *)
sendHeader(r, n) ==
    LET a == [r EXCEPT !.sentHeader = TRUE, !.trailers = declared(r.snap),
                       !.sentContentLen = IF r.snap.cl >= 0 THEN r.snap.cl ELSE @]
    IN  IF r.reset THEN [a EXCEPT !.dirty = TRUE]
        ELSE [a EXCEPT !.out = writeResHeaders(r, r.snap, contentLength(r, n), headersEnd(a, n))]

sendBody(r, n) ==
    LET a   == IF r.handlerDone THEN promoteUndeclaredTrailers(r) ELSE r
        end == a.handlerDone /\ ~ hasNonemptyTrailers(a)
        b   == IF n > 0 \/ end
               THEN [a EXCEPT !.out = Append(@, [kind |-> "DATA", n |-> n, end |-> end])] ELSE a
    IN  IF r.reset THEN [r |-> [a EXCEPT !.dirty = TRUE], n |-> 0, err |-> TRUE]
        ELSE [r |-> IF b.handlerDone /\ ~ end THEN [b EXCEPT !.out = writeTrailers(b)] ELSE b,
              n |-> n, err |-> FALSE]

writeChunk(r0, n) ==
    LET r == writeHeader(r0, 200)
        a == IF r.sentHeader THEN r ELSE sendHeader(r, n)
    IN  IF ~ r.sentHeader /\ r.reset THEN [r |-> a, n |-> 0, err |-> TRUE]
        ELSE IF ~ r.sentHeader /\ headersEnd(a, n) THEN [r |-> a, n |-> 0, err |-> FALSE]
        ELSE IF a.method = "HEAD" THEN [r |-> a, n |-> n, err |-> FALSE]
        ELSE IF n = 0 /\ ~ a.handlerDone THEN [r |-> a, n |-> 0, err |-> FALSE]
        ELSE sendBody(a, n)

(* The bufio.Writer (external): Flush keeps what was not taken and the     *)
(* error, and a short write is an error.                                   *)
bwFlush(r) ==
    IF r.bwErr \/ r.buf = 0 THEN r
    ELSE LET c == writeChunk(r, r.buf)
         IN  [c.r EXCEPT !.buf = r.buf - c.n, !.bwErr = c.err \/ c.n < r.buf]
(* A write larger than an empty buffer goes straight to writeChunk, again  *)
(* while nothing of it is taken without an error.                          *)
bwDirect(r, n) ==
    LET c == writeChunk(r, n)
        d == IF c.n = 0 /\ ~ c.err THEN writeChunk(c.r, n) ELSE c
    IN  [d.r EXCEPT !.bwErr = d.err]
bwWrite(r, n) ==
    IF r.bwErr THEN r
    ELSE IF r.buf + n <= BufSize THEN [r EXCEPT !.buf = @ + n]
    ELSE IF r.buf = 0 THEN bwDirect(r, n)
    ELSE LET a    == bwFlush([r EXCEPT !.buf = BufSize])
             left == n - (BufSize - r.buf)
         IN  IF a.bwErr THEN a
             ELSE IF left > BufSize THEN bwDirect(a, left) ELSE [a EXCEPT !.buf = left]

(* responseWriter.write.                                                   *)
write(r0, n) ==
    LET r == writeHeader(r0, 200)
        w == r.wroteBytes + n
        a == bwWrite([r EXCEPT !.wroteBytes = w], n)
    IN  IF ~ bodyAllowedForStatus(r.status) THEN r
        ELSE IF r.sentContentLen # 0 /\ w > r.sentContentLen THEN [r EXCEPT !.wroteBytes = w]
        ELSE [a EXCEPT !.accepted = @ + (IF a.bwErr THEN 0 ELSE n)]

(* responseWriter.Flush.                                                   *)
Flush(r) == IF r.buf > 0 THEN bwFlush(r) ELSE writeChunk(r, 0).r

-----------------------------------------------------------------------------
(* The client's side of the stream: the response under construction.       *)
NoRes == [status |-> 0, cl |-> 0, header |-> <<>>, decl |-> {}, trailer |-> <<>>,
          body |-> 0, ended |-> FALSE, err |-> FALSE, num1xx |-> 0]

Init ==
    \E c \in Confs :
      s = [m |-> "hres", conf |-> c, ops |-> 0, got |-> 0, res |-> NoRes, said |-> NoHeader,
           needsContinue |-> c.expect,
           r |-> [method |-> c.method, hh |-> NoHeader, snap |-> NoHeader, trailers |-> {},
                  status |-> 0, wroteHeader |-> FALSE, sentHeader |-> FALSE,
                  handlerDone |-> FALSE, dirty |-> FALSE, sentContentLen |-> 0,
                  wroteBytes |-> 0, buf |-> 0, bwErr |-> FALSE, reset |-> FALSE,
                  accepted |-> 0, recycled |-> FALSE, out |-> <<>>]]

Handler(op) == Here /\ op \in s.conf.ops /\ ~ s.r.handlerDone /\ s.ops < MaxOps

Called(r) == s' = [s EXCEPT !.r = r, !.ops = @ + 1,
                            !.said = IF s.r.wroteHeader THEN @ ELSE s.r.hh]

SetField(k, v) == Handler(k) /\ s.r.hh[k] # v /\ Called([s.r EXCEPT !.hh[k] = v])

(* A handler declares its trailers, and its length, before it writes.      *)
SetHeader ==
    \/ \E k \in {"h", "t", "p"}, v \in {"v1", "v2"} : SetField(k, v)
    \/ Handler("nil") /\ SetField("t", "nil")
    \/ SetField("decl", TRUE)
    \/ SetField("cl", 2)

WriteHeader == Handler("code") /\ \E code \in {200, 204} : Called(writeHeader(s.r, code))

Write == \E n \in 1 .. BufSize + 1 : Handler("write") /\ Called(write(s.r, n))

HandlerFlush == Handler("flush") /\ Called(Flush(s.r))

(* requestBody.Read of a request with "Expect: 100-continue": the first    *)
(* read writes a HEADERS frame with status 100.                            *)
ReadBody ==
    /\ Handler("read") /\ s.needsContinue
    /\ ("late" \in s.conf.ops \/ ~ s.r.sentHeader)
    /\ s' = [s EXCEPT !.needsContinue = FALSE, !.ops = @ + 1,
                      !.r.out = IF s.r.reset THEN @
                                ELSE Append(@, [kind |-> "HEADERS", status |-> 100, end |-> FALSE,
                                                decl |-> FALSE, cl |-> -1, fields |-> <<>>])]

(* responseWriter.handlerDone.                                             *)
HandlerDone ==
    /\ Here /\ ~ s.r.handlerDone
    /\ s' = [s EXCEPT !.said = IF s.r.wroteHeader THEN @ ELSE s.r.hh,
                      !.r = [Flush([s.r EXCEPT !.handlerDone = TRUE])
                               EXCEPT !.recycled = ~ s.r.dirty]]

(* The peer resets the stream.                                             *)
Reset == Here /\ "reset" \in s.conf.ops /\ ~ s.r.reset /\ s' = [s EXCEPT !.r.reset = TRUE]

(* handleResponse: an informational response leaves the stream waiting for *)
(* its header.                                                             *)
handleResponse(c, f) ==
    IF f.status \in 100 .. 199 THEN [c EXCEPT !.num1xx = @ + 1]
    ELSE [c EXCEPT !.status = f.status, !.header = f.fields,
                   !.decl = IF f.decl THEN {"t"} ELSE {},
                   !.cl = IF ~ f.end \/ s.conf.method = "HEAD" THEN f.cl ELSE 0,
                   !.ended = f.end]

(* processTrailers with copyTrailers: no second block without END_STREAM.  *)
processTrailers(c, f) ==
    IF ~ f.end \/ f.status # 0 THEN [c EXCEPT !.err = TRUE]
    ELSE [c EXCEPT !.trailer = f.fields, !.ended = TRUE]

(* transportResponseBody.Read: more bytes than the declared length are an  *)
(* error, and so is an end before it; a HEAD response has no body.         *)
lengthKept(c) == \/ c.cl < 0 \/ s.conf.method = "HEAD" \/ c.status = 0
                 \/ c.body = c.cl \/ (c.body < c.cl /\ ~ c.ended)

process(c, f) ==
    IF f.kind = "DATA" THEN [c EXCEPT !.body = @ + f.n, !.ended = f.end]
    ELSE IF c.status = 0 THEN handleResponse(c, f) ELSE processTrailers(c, f)

Receive ==
    /\ Here /\ s.got < Len(s.r.out) /\ ~ s.res.err
    /\ LET c == process(s.res, s.r.out[s.got + 1])
       IN  s' = [s EXCEPT !.got = @ + 1, !.res = [c EXCEPT !.err = @ \/ ~ lengthKept(c)]]

Finished == Here /\ s.r.handlerDone /\ (s.res.err \/ s.got = Len(s.r.out)) /\ UNCHANGED s

Next ==
    /\ Here
    /\ \/ SetHeader \/ WriteHeader \/ Write \/ HandlerFlush \/ ReadBody \/ HandlerDone
       \/ Reset \/ Receive \/ Finished

-----------------------------------------------------------------------------
Ends(out) == {i \in DOMAIN out : out[i].end}

(* A handler that has returned has ended its stream, exactly once and with *)
(* its last frame, whatever it called and in whatever order: its header,   *)
(* its last DATA or its trailers carry END_STREAM.                         *)
EndedOnce ==
    LET out == s.r.out
    IN  Here /\ ~ s.r.reset =>
          Ends(out) = IF s.r.handlerDone THEN {Len(out)}
                      ELSE {i \in {Len(out)} : s.r.method = "HEAD" /\ s.r.sentHeader}

(* The client reads the response the handler wrote: the first status, the  *)
(* header as it was when the status was chosen (not as it was changed      *)
(* later), every byte Write accepted, a ContentLength that is the body's   *)
(* length or unknown, and the trailers as they were when the handler       *)
(* returned (the undeclared ones unless the header ended the stream).      *)
ResponseExact ==
    (Here /\ s.res.ended /\ ~ s.res.err /\ ~ s.r.reset) =>
      /\ s.res.status = s.r.status
      /\ s.res.header = encodeHeaders(s.said, {"h", "t"})
      /\ s.r.method # "HEAD" => s.res.body = s.r.accepted
      /\ s.r.method # "HEAD" => s.res.cl \in {-1, s.res.body}
      /\ (s.r.method # "HEAD" /\ s.r.handlerDone) =>
           s.res.trailer = encodeHeaders([s.r.hh EXCEPT !.u = s.r.hh.p],
                             s.res.decl \cup (IF Head(s.r.out).end THEN {} ELSE {"u"}))

(* The frames of a handler that keeps to its own Content-Length never make *)
(* the client refuse the response.                                         *)
NeverRefused == Here => (s.res.err => (s.said.cl >= 0 /\ s.r.accepted # s.said.cl))

(* What the server's responseWriter and the Transport together promise.    *)
ResponseSound == EndedOnce /\ ResponseExact /\ NeverRefused

(* The comment of TrailerPrefix: the values of a key with that prefix "are *)
(* sent in the trailers", also by a handler that writes no body.           *)
PrefixPromoted ==
    (Here /\ s.res.ended /\ ~ s.r.reset /\ s.r.method # "HEAD" /\ s.r.handlerDone
          /\ s.r.hh.p # "none") => "u" \in DOMAIN s.res.trailer

(* Issue 20704, as the comment in handlerDone has it: a writer a failed    *)
(* write has made dirty is not put back into the pool.                     *)
RecycledClean == Here /\ s.r.recycled => ~ s.r.dirty
=============================================================================
