------------------------------ MODULE Transfer ------------------------------
(***************************************************************************)
(* One HTTP/1 message from the writer's fields to the reader's body:       *)
(* transferWriter and transferReader (src/transfer.go), Request.write,     *)
(* Response.Write and ReadResponse, and the chunked coding                 *)
(* (src/internal/chunked.go).                                              *)
(*                                                                         *)
(* A message is [kind, method, status, v (10 or 11), cl, te, body, n, end, *)
(* close, trailer]: cl and te are the fields the caller sets, the body is  *)
(* "nil", "none" (NoBody) or a reader of n bytes (1..n) that ends with     *)
(* `end' ("eof" or "err").  What follows the head on the wire is a         *)
(* sequence of tokens; "head" is the first token of the next message.      *)
(***************************************************************************)
EXTENDS Integers, SequencesExt, FiniteSetsExt

CONSTANTS
    MaxWrite,     \* bytes that one Read of the caller's body returns
    Confs         \* sets of messages: [msgs, ops, writes]

VARIABLE s

Here == s.m = "transfer"
May(op) == op \in s.t.ops

tok(k, v) == [k |-> k, v |-> v]
Writer == [at |-> "new", cl |-> 0, r1 |-> 0, te |-> FALSE, nil |-> FALSE, close |-> FALSE, sent |-> 0, probe |-> "none"]
Reader == [at |-> "head", mode |-> "none", len |-> 0, got |-> <<>>, close |-> FALSE, chunk |-> -1,
           pos |-> 0, check |-> FALSE]
NoHead == [cl |-> <<>>, te |-> 0, close |-> FALSE, trailer |-> FALSE]

Init ==
    \E t \in Confs : \E x \in t.msgs :
      s = [m |-> "transfer", t |-> t, msg |-> x, w |-> Writer, r |-> Reader, writes |-> 1,
           hdr |-> NoHead,              \* the transfer fields in the caller's header map
           head |-> NoHead, wire |-> <<>>, eof |-> FALSE]

msg == s.msg
isReq == s.msg.kind = "request"

-----------------------------------------------------------------------------
(* newTransferWriter *)
outgoingLength == IF msg.body \in {"nil", "none"} THEN 0 ELSE IF msg.cl # 0 THEN msg.cl ELSE -1
requestMethodUsuallyLacksBody == msg.method \in {"GET", "HEAD"}
ResponseToHEAD == ~isReq /\ msg.method = "HEAD"
unknown == outgoingLength < 0 /\ msg.te = "none" /\ msg.method # "CONNECT"

(* The triple (Body, ContentLength, TransferEncoding), sanitized *)
sanitize(w, nil, cl, te, v11) ==
    LET te1 == te /\ (ResponseToHEAD \/ (v11 /\ ~nil)) IN
    [w EXCEPT !.at = "head", !.te = te1, !.nil = nil \/ ResponseToHEAD, !.close = msg.close,
              !.cl = IF te1 THEN -1 ELSE IF nil /\ ~ResponseToHEAD THEN 0 ELSE cl]

fails(x) == [x EXCEPT !.w.at = "failed", !.eof = TRUE]

newRequestWriter ==
    /\ Here /\ isReq /\ s.w.at = "new" /\ ~(unknown /\ requestMethodUsuallyLacksBody)
    /\ s' = IF msg.cl # 0 /\ msg.body = "nil" THEN fails(s)
            ELSE [s EXCEPT !.w = sanitize(@, msg.body = "nil", outgoingLength, msg.te = "chunked" \/ unknown, TRUE)]

(* probeRequestBody: the byte arrives in time, or after the timer *)
probeStart ==
    /\ Here /\ isReq /\ s.w.at = "new" /\ unknown /\ requestMethodUsuallyLacksBody
    /\ s' = [s EXCEPT !.w.at = "probe", !.w.probe = "reading"]
probeRead ==
    /\ Here /\ s.w.probe = "reading"
    /\ s' = [s EXCEPT !.w.probe = IF msg.n > 0 THEN "byte" ELSE msg.end]
probeInTime ==
    /\ Here /\ s.w.at = "probe" /\ s.w.probe # "reading"
    /\ s' = [s EXCEPT !.w = IF s.w.probe = "eof" THEN sanitize(@, TRUE, 0, FALSE, TRUE)
                            ELSE sanitize(@, FALSE, -1, TRUE, TRUE)]
probeTooSlow ==
    /\ Here /\ s.w.at = "probe"
    /\ s' = [s EXCEPT !.w = sanitize(@, FALSE, -1, TRUE, TRUE)]

(* Response.Write, up to newTransferWriter *)
newResponseWriter ==
    LET probed == msg.cl = 0 /\ msg.body # "nil"
        cl == IF probed /\ msg.body = "reader" /\ msg.n > 0 THEN -1 ELSE msg.cl
        te == msg.te = "chunked"
        eof == cl = -1 /\ ~msg.close /\ msg.v = 11 /\ ~te IN
    /\ Here /\ ~isReq /\ s.w.at = "new"
    /\ s' = IF probed /\ msg.body = "reader" /\ msg.n = 0 /\ msg.end = "err" THEN fails(s)
            ELSE [s EXCEPT !.w = [sanitize(@, msg.body = "nil", cl, te, msg.v = 11)
                                   EXCEPT !.close = msg.close \/ eof, !.r1 = cl]]

-----------------------------------------------------------------------------
(* addHeaders and writeHeader.  A request's fields are added to its header *)
(* map, which is then written; a response's are written next to it.        *)
bodyAllowedForStatus(status) == status \notin {101, 204, 304}

shouldSendContentLength(w) ==
    /\ ~w.te
    /\ \/ w.cl > 0
       \/ w.cl = 0 /\ (msg.method = "POST" \/ (msg.te = "identity" /\ ~w.nil /\ msg.method \notin {"GET", "HEAD"}))

fields(h, w) ==
    [cl |-> IF shouldSendContentLength(w) THEN Append(h.cl, w.cl) ELSE h.cl,
     te |-> IF w.te THEN h.te + 1 ELSE h.te, close |-> h.close \/ w.close,
     trailer |-> h.trailer \/ (w.te /\ msg.trailer # "none")]

zeroLength(h) == s.w.r1 = 0 /\ msg.te # "chunked" /\ h.cl = <<>> /\ bodyAllowedForStatus(msg.status)

addHeaders ==
    LET h == fields(s.hdr, s.w) IN
    /\ Here /\ isReq /\ s.w.at = "head"
    /\ s' = [s EXCEPT !.hdr = h, !.head = h, !.w.at = "body"]

writeHeader ==
    LET h == fields(NoHead, s.w) IN
    /\ Here /\ ~isReq /\ s.w.at = "head"
    /\ s' = [s EXCEPT !.head = IF zeroLength(h) THEN [h EXCEPT !.cl = <<0>>] ELSE h, !.w.at = "body"]

-----------------------------------------------------------------------------
(* writeBody.  One step is one Read of the source; a late probe's byte     *)
(* comes first.                                                            *)
put(x, toks) == [x EXCEPT !.wire = @ \o toks]
bytes(k) == [i \in 1..k |-> tok("data", s.w.sent + i)]
Rest == msg.n - s.w.sent

(* chunkedWriter.Write *)
chunk(k) == <<tok("size", k)>> \o bytes(k) \o <<tok("crlf", 0)>>

(* io.LimitReader(body, ContentLength); the rest is read and dropped *)
limit(k) == IF s.w.cl = -1 THEN k ELSE Min({k, Max({0, s.w.cl - s.w.sent})})

writeData ==
    /\ Here /\ s.w.at = "body" /\ ~s.w.nil /\ msg.body = "reader" /\ s.w.probe # "reading"
    /\ \E k \in 1..Min({MaxWrite, Rest}) :
          s' = [put(s, IF s.w.te THEN chunk(k) ELSE SubSeq(bytes(k), 1, limit(k))) EXCEPT !.w.sent = @ + k]

(* The end of the source, Close of the chunked writer, the length check,   *)
(* the trailer; then the connection ends or goes on.                       *)
writeEnd ==
    LET src == IF s.w.nil \/ msg.body # "reader" THEN "eof" ELSE msg.end
        closes == s.w.close \/ msg.v = 10
        short == ~ResponseToHEAD /\ s.w.cl # -1 /\ s.w.cl # s.w.sent
        zero == IF s.w.te /\ ~s.w.nil THEN <<tok("size", 0)>> ELSE <<>>
        tail == IF ~s.w.te THEN <<>>
                ELSE IF msg.trailer # "none" THEN <<tok(msg.trailer, 0)>> ELSE <<tok("crlf", 0)>> IN
    /\ Here /\ s.w.at = "body" /\ s.w.probe # "reading"
    /\ s.w.nil \/ msg.body # "reader" \/ Rest = 0
    /\ s' = IF src = "err" \/ short THEN fails(s)
            ELSE [put(s, zero \o tail \o (IF closes THEN <<>> ELSE <<tok("head", 0)>>))
                   EXCEPT !.w.at = "done", !.eof = closes]

(* The Transport writes the request again, on another connection, with a   *)
(* new body from GetBody (rewindBody)                                      *)
again ==
    /\ Here /\ May("retry") /\ isReq /\ s.w.at \in {"done", "failed"} /\ s.writes < s.t.writes
    /\ s' = [s EXCEPT !.w = Writer, !.r = Reader, !.writes = @ + 1, !.head = NoHead, !.wire = <<>>, !.eof = FALSE]

-----------------------------------------------------------------------------
(* readTransfer *)
shouldClose(h) == h.close \/ msg.v = 10
parseTransferEncoding(h) == IF h.te = 0 \/ (~isReq /\ msg.v = 10) THEN "none" ELSE IF h.te = 1 THEN "chunked" ELSE "error"

fixLength(h, te) ==
    IF Cardinality(ToSet(h.cl)) > 1 THEN "error"
    ELSE IF msg.method = "HEAD" THEN IF isReq /\ h.cl # <<>> /\ h.cl[1] # 0 THEN "error" ELSE "none"
    ELSE IF ~isReq /\ ~bodyAllowedForStatus(msg.status) THEN "none"
    ELSE IF te = "chunked" THEN "chunked"
    ELSE IF h.cl # <<>> THEN IF h.cl[1] = 0 THEN "none" ELSE "length"
    ELSE IF isReq THEN "none" ELSE "eof"

readTransfer ==
    LET te == parseTransferEncoding(s.head)
        l == fixLength(s.head, te)
        close == shouldClose(s.head) \/ (l = "eof" /\ te = "none")
        mode == IF te = "chunked" /\ l # "none" THEN "chunked" ELSE l IN
    /\ Here /\ s.r.at = "head" /\ s.w.at \in {"body", "done"}
    /\ s' = IF te = "error" \/ l = "error" THEN [s EXCEPT !.r.at = "error"]
            ELSE [s EXCEPT !.r.mode = mode, !.r.close = close, !.r.at = IF mode = "none" THEN "eof" ELSE "body",
                           !.r.len = IF mode = "length" THEN s.head.cl[1] ELSE -1]

-----------------------------------------------------------------------------
(* body.Read: one token of the wire *)
More == s.r.pos < Len(s.wire)
Tok == s.wire[s.r.pos + 1]
take(x) == [x EXCEPT !.r.pos = @ + 1]
ends(x, how) == [x EXCEPT !.r.at = how]
deliver(x, v) == [x EXCEPT !.r.got = Append(@, v)]

readLength ==
    /\ Here /\ s.r.at = "body" /\ s.r.mode = "length" /\ More
    /\ s' = [ends(deliver(take(s), Tok.v), IF s.r.len = 1 THEN "eof" ELSE "body") EXCEPT !.r.len = @ - 1]
readToEOF ==
    /\ Here /\ s.r.at = "body" /\ s.r.mode = "eof" /\ More
    /\ s' = deliver(take(s), Tok.v)

(* chunkedReader.Read: beginChunk, the data, the footer *)
readChunkLine == Tok.k = "size"
beginChunk ==
    /\ Here /\ s.r.at = "body" /\ s.r.mode = "chunked" /\ ~s.r.check /\ s.r.chunk <= 0 /\ More
    /\ s' = IF ~readChunkLine THEN ends(s, "error")
            ELSE [take(s) EXCEPT !.r.chunk = Tok.v, !.r.at = IF Tok.v = 0 THEN "trailer" ELSE "body"]
chunkData ==
    /\ Here /\ s.r.at = "body" /\ s.r.mode = "chunked" /\ s.r.chunk > 0 /\ More
    /\ s' = [deliver(take(s), Tok.v) EXCEPT !.r.chunk = @ - 1, !.r.check = s.r.chunk = 1]
checkEnd ==
    /\ Here /\ s.r.at = "body" /\ s.r.check /\ More
    /\ s' = IF Tok.k # "crlf" THEN ends(s, "error") ELSE [take(s) EXCEPT !.r.check = FALSE]

(* readTrailer *)
readTrailer ==
    /\ Here /\ s.r.at = "trailer" /\ More
    /\ s' = ends(take(s), IF Tok.k \in {"crlf", "trailer"} THEN "eof" ELSE "error")

(* The connection ended.  (Fault: a short body is a whole one.) *)
endedAnyway == "eof"
ended == IF s.r.mode = "eof" THEN "eof" ELSE "error"
unexpectedEOF ==
    /\ Here /\ s.r.at \in {"body", "trailer"} /\ ~More /\ s.eof
    /\ s' = ends(s, ended)

(* body.Close.  The server gives up a long body; otherwise the rest is     *)
(* read, unless the connection is about to close anyway.                   *)
close ==
    /\ Here /\ s.r.at = "body" /\ s.r.close /\ s.r.mode # "chunked"
    /\ s' = ends(s, "closed")

Next ==
    /\ Here
    /\ \/ newRequestWriter \/ probeStart \/ probeRead \/ probeInTime \/ probeTooSlow \/ newResponseWriter
       \/ addHeaders \/ writeHeader \/ writeData \/ writeEnd \/ again
       \/ readTransfer \/ readLength \/ readToEOF \/ beginChunk \/ chunkData \/ checkEnd \/ readTrailer
       \/ unexpectedEOF \/ close

-----------------------------------------------------------------------------
(* What the reader delivers is what the writer's body gave, in order; a    *)
(* body that ends is the whole body, and the reader then stands at the     *)
(* next message; a message written without an error is read without one,   *)
(* and a chunked body that the writer gave up never ends, nor does one     *)
(* that is short of its declared length.                                   *)
TransferExact ==
    Here =>
      /\ s.r.got = [i \in 1..Len(s.r.got) |-> i]
      /\ s.r.at = "eof" /\ s.w.at = "done" =>
           /\ ResponseToHEAD \/ Len(s.r.got) = IF msg.body = "reader" THEN msg.n ELSE 0
           /\ More => Tok.k = "head"
      /\ s.r.at = "error" => s.w.at # "done" \/ msg.trailer = "long"
      /\ s.w.at = "failed" /\ s.r.at = "eof" =>
           s.r.mode # "chunked" /\ (s.r.mode = "length" => Len(s.r.got) = s.head.cl[1])

(* RoundTrip "should not modify the request": a request that is written    *)
(* again, on another connection, is accepted as it was the first time.     *)
RetryAccepted == Here => ~(s.writes > 1 /\ s.w.at = "done" /\ s.r.at = "error")
=============================================================================
