----------------------------- MODULE ServerConn -----------------------------
(***************************************************************************)
(* One HTTP/1 connection of a Server (src/server.go): conn.serve, its      *)
(* connReader with the background read, the body of the request            *)
(* (src/transfer.go), the response with its buffers, 100 Continue, Hijack, *)
(* and what decides that the connection is used again.                     *)
(*                                                                         *)
(* The handler is arbitrary: one goroutine writes, flushes, closes the     *)
(* body, hijacks, panics or returns, another reads the body.  What the     *)
(* client sends is a sequence of tokens: three for a header (the first is  *)
(* one byte), one per unit of body, one for the last chunk and trailer.    *)
(***************************************************************************)
EXTENDS Integers, Sequences, FiniteSets, SequencesExt

CONSTANTS
    Confs,      \* configurations
    MaxPost,    \* maxPostHandlerReadBytes, in units of body
    MaxOps      \* bound: operations of a handler on its response

(* A configuration: the requests of the client; the headers a handler may  *)
(* set; what handlers do; what else happens; IdleTimeout is set.           *)
ASSUME ConnAssumption ==
    /\ MaxPost \in Nat /\ MaxOps \in Nat
    /\ \A d \in Confs :
         /\ d.idle \in BOOLEAN
         /\ \A i \in DOMAIN d.reqs : d.reqs[i].body \in Nat /\ d.reqs[i].minor \in {0, 1}

VARIABLES
    t,      \* the configuration
    c,      \* the conn and its connReader
    w,      \* the response
    b,      \* the body of the request, its wrappers, and its reader rd
    o,      \* what is written: bufw (conn.bufw), out (on the wire), werr
    n       \* the client: its requests (r, k), sent, in (on the way), gone

vars == <<t, c, w, b, o, n>>

None == "none"
May(e) == e \in t.env
Does(e) == e \in t.ops

-----------------------------------------------------------------------------
(* The client (external) *)
Tok(i, k) == [r |-> i, k |-> k]
Header(i) == <<Tok(i, "f"), Tok(i, "g"), Tok(i, "h")>>
Message(i) ==
    LET q == t.reqs[i] IN
    Header(i)
      \o [j \in 1 .. q.body |-> Tok(i, IF q.chunked /\ q.bad /\ j = q.body THEN "x" ELSE "b")]
      \o (IF q.chunked THEN <<Tok(i, IF q.bad /\ q.body = 0 THEN "y" ELSE "e")>> ELSE <<>>)

(* How a client reads what is on the wire: at (idle: between responses),   *)
(* left (of a Content-Length), done (responses), cont (100 Continue seen), *)
(* close (it was told so), ok (it makes sense).                            *)
Reader == [at |-> "idle", left |-> 0, done |-> 0, cont |-> {}, close |-> FALSE, ok |-> TRUE]
Complete(a) == [a EXCEPT !.at = "idle", !.done = @ + 1]
ReadToken(a, x) ==
    CASE x.t = "100" -> [a EXCEPT !.ok = @ /\ a.at = "idle", !.cont = @ \cup {a.done + 1}]
      [] x.t = "hdr" -> LET h == [a EXCEPT !.ok = @ /\ a.at = "idle" /\ ~(x.chunked /\ x.cl # -1),
                                           !.close = x.close] IN
           IF x.nobody \/ (x.cl = 0 /\ ~x.chunked) THEN Complete(h)
           ELSE IF x.chunked THEN [h EXCEPT !.at = "chunked"]
           ELSE IF x.cl > 0 THEN [h EXCEPT !.at = "length", !.left = x.cl]
           ELSE [h EXCEPT !.at = "close"]
      [] x.t = "data" ->
           IF a.at = "length" /\ a.left = 1 THEN Complete([a EXCEPT !.left = 0])
           ELSE [a EXCEPT !.ok = @ /\ a.at # "idle", !.left = IF a.at = "length" THEN @ - 1 ELSE @]
      [] x.t = "last" -> Complete([a EXCEPT !.ok = @ /\ a.at = "chunked"])
Seen == FoldLeft(ReadToken, Reader, o.out)

clientSend ==
    /\ ~n.gone /\ n.r <= Len(t.reqs)
    /\ LET m == Message(n.r)
           q == t.reqs[n.r] IN
       /\ IF n.k = 0 THEN n.r = 1 \/ May("pipeline") \/ (Seen.done = n.r - 1 /\ ~Seen.close)
          ELSE n.k < 3 \/ q.expect # "100" \/ n.r \in Seen.cont \/ May("timer")
       /\ n' = [n EXCEPT !.in = Append(@, m[n.k + 1]), !.sent = Append(@, m[n.k + 1]),
                         !.r = IF n.k + 1 = Len(m) THEN @ + 1 ELSE @,
                         !.k = IF n.k + 1 = Len(m) THEN 0 ELSE @ + 1]
    /\ UNCHANGED <<t, c, w, b, o>>

(* A final response came instead of 100 Continue: the body is not sent. *)
clientSkip ==
    /\ ~n.gone /\ n.r <= Len(t.reqs) /\ n.k = 3
    /\ t.reqs[n.r].expect = "100" /\ Seen.done >= n.r /\ n.r \notin Seen.cont
    /\ n' = [n EXCEPT !.r = @ + 1, !.k = 0]
    /\ UNCHANGED <<t, c, w, b, o>>

clientGone ==
    /\ May("gone") /\ ~n.gone
    /\ n' = [n EXCEPT !.gone = TRUE]
    /\ UNCHANGED <<t, c, w, b, o>>

(* SetKeepAlivesEnabled(false), or a Shutdown that finds the connection    *)
(* active.                                                                 *)
keepAlivesOff ==
    /\ May("noalive") /\ c.alive
    /\ c' = [c EXCEPT !.alive = FALSE]
    /\ UNCHANGED <<t, w, b, o, n>>

-----------------------------------------------------------------------------
(* connReader.  bufr (conn.bufr) holds what was read and not consumed,     *)
(* hasByte the byte of a background read; inRead is the read in progress:  *)
(* bg (background), fg (of the body), none.  touched: remain has changed.  *)
startBackgroundRead(d) ==
    IF d.inRead # None THEN [d EXCEPT !.panic = TRUE]
    ELSE IF d.hasByte # <<>> THEN d ELSE [d EXCEPT !.inRead = "bg"]

(* (Fault: the byte of a background read that was called off is dropped.) *)
dropIfAborted(d) == [d EXCEPT !.hasByte = IF d.aborted THEN <<>> ELSE <<Head(n.in)>>,
                              !.inRead = None, !.aborted = FALSE]
gotByte(d) == [d EXCEPT !.hasByte = <<Head(n.in)>>, !.inRead = None, !.aborted = FALSE]
backgroundRead ==
    /\ c.inRead = "bg" /\ n.in # <<>>
    /\ c' = gotByte(c)
    /\ n' = [n EXCEPT !.in = Tail(@)]
    /\ UNCHANGED <<t, w, b, o>>

(* The read fails: the context ends, unless abortPendingRead was the       *)
(* cause.  (Fault: then the goroutine just returns.)                       *)
readOverQuietly(d, cause) ==
    IF cause = "aborted" THEN d
    ELSE [d EXCEPT !.inRead = None, !.aborted = FALSE, !.ctx = TRUE]
readOver(d, cause) ==
    [d EXCEPT !.inRead = None, !.aborted = FALSE, !.ctx = @ \/ cause # "aborted"]
backgroundReadFails ==
    /\ c.inRead = "bg"
    /\ \E cause \in {"aborted", "gone"} :
         /\ IF cause = "aborted" THEN c.aborted ELSE c.closed \/ (n.gone /\ n.in = <<>>)
         /\ c' = readOver(c, cause)
    /\ UNCHANGED <<t, w, b, o, n>>

(* Read: the byte of the background read first, else what has arrived: one *)
(* token or all of them.                                                   *)
Sizes == IF c.hasByte # <<>> THEN {1} ELSE IF n.in = <<>> THEN {} ELSE {1, Len(n.in)}
CanFill == c.hasByte # <<>> \/ n.in # <<>>
Filled(d, k) ==
    IF d.hasByte # <<>> THEN [d EXCEPT !.bufr = @ \o d.hasByte, !.hasByte = <<>>]
    ELSE [d EXCEPT !.bufr = @ \o SubSeq(n.in, 1, k), !.touched = TRUE]
Rest(k) ==
    IF c.hasByte # <<>> THEN n ELSE [n EXCEPT !.in = SubSeq(@, k + 1, Len(@))]
ReadFails == ~CanFill /\ (n.gone \/ May("timeout"))
Used(d, k) == [d EXCEPT !.bufr = SubSeq(@, k + 1, Len(@)), !.used = @ + k]

(* abortPendingRead, up to its wait *)
abortPendingRead ==
    /\ c.pc \in {"abort", "hijack"} /\ c.inRead # None /\ ~c.aborted
    /\ c' = [c EXCEPT !.aborted = TRUE]
    /\ UNCHANGED <<t, w, b, o, n>>

-----------------------------------------------------------------------------
(* Requests *)
q == t.reqs[c.i]

newBody(r) ==
    [kind |-> IF r.chunked THEN (IF r.method = "HEAD" THEN None ELSE "chunked")
              ELSE IF r.body > 0 THEN "length" ELSE None,
     left |-> r.body, eof |-> FALSE, closed |-> FALSE, early |-> FALSE, err |-> FALSE,
     ecr |-> r.expect = "100" /\ r.minor = 1 /\ (r.chunked \/ r.body > 0), ecrEOF |-> FALSE,
     ecrClosed |-> FALSE, wrapped |-> FALSE, lim |-> 0, told |-> FALSE, rd |-> "idle"]

NoHead == [status |-> "ok", cl |-> -1, te |-> "", conn |-> "", trailer |-> FALSE]
newResponse(r, h) ==
    [head |-> h, wrote |-> FALSE, cl |-> -1, written |-> 0, buf |-> 0, cwWrote |-> FALSE,
     chunking |-> FALSE, closeAfter |-> FALSE, done |-> FALSE, canCont |-> newBody(r).ecr,
     wroteCont |-> FALSE, ops |-> 0]

Init ==
    /\ t \in Confs
    /\ c = [pc |-> "parse", op |-> None, i |-> 0, state |-> "new", bufr |-> <<>>, hasByte |-> <<>>,
            inRead |-> None, aborted |-> FALSE, touched |-> FALSE, alive |-> TRUE, ctx |-> FALSE,
            used |-> 0, closed |-> FALSE, panic |-> FALSE, desync |-> FALSE, quota |-> 0,
            bad |-> FALSE]
    /\ w = newResponse(t.reqs[1], NoHead) /\ b = newBody(t.reqs[1])
    /\ o = [bufw |-> <<>>, out |-> <<>>, werr |-> FALSE]
    /\ n = [r |-> 1, k |-> 0, in |-> <<>>, sent |-> <<>>, gone |-> FALSE]

(* checkConnErrorWriter: an error is noted. *)
flushed(p) ==
    IF n.gone THEN [p EXCEPT !.bufw = <<>>, !.werr = @ \/ p.bufw # <<>>]
    ELSE [p EXCEPT !.out = @ \o p.bufw, !.bufw = <<>>]
put(p, x) == [p EXCEPT !.bufw = Append(@, x)]

(* conn.serve returns: finalFlush, close, StateClosed *)
serveReturns(d) ==
    /\ c' = [d EXCEPT !.pc = "end", !.closed = TRUE, !.state = "closed"]
    /\ o' = flushed(o)

active(d) == [d EXCEPT !.state = IF d.touched THEN "active" ELSE @]
NextRequest(d) == [d EXCEPT !.pc = "parse", !.touched = FALSE]

(* readRequest and the Peek of an idle connection wait for input. *)
Wanted == IF c.pc = "parse" THEN 3 ELSE IF c.pc = "peek" THEN 2 ELSE 0
serveReads ==
    /\ Len(c.bufr) < Wanted
    /\ \E k \in Sizes : c' = Filled(c, k) /\ n' = Rest(k)
    /\ UNCHANGED <<t, w, b, o>>

serveReadFails ==
    /\ Len(c.bufr) < Wanted
    /\ ReadFails
    /\ serveReturns([(IF c.pc = "parse" THEN active(c) ELSE c) EXCEPT !.ctx = TRUE])
    /\ UNCHANGED <<t, w, b, n>>

servePeeked ==
    /\ c.pc = "peek" /\ Len(c.bufr) >= 2
    /\ c' = NextRequest(c)
    /\ UNCHANGED <<t, w, b, o, n>>

(* A request that cannot be read, or is not one, gets an error reply, on   *)
(* the net.Conn itself.                                                    *)
Refusal == [t |-> "hdr", nobody |-> FALSE, chunked |-> FALSE, cl |-> -1, close |-> TRUE]
ErrorReply == IF n.gone THEN o ELSE [o EXCEPT !.out = Append(@, Refusal)]
Astray == c.bufr[1].k # "f"         \* not at the beginning of a request
Refused(r) == ~r.chunked /\ IF r.body = 0 THEN r.bad ELSE r.method = "HEAD"

readRequestFails ==
    /\ c.pc = "parse" /\ c.bufr # <<>>
    /\ Astray \/ (Len(c.bufr) >= 3 /\ Refused(t.reqs[c.bufr[1].r]))
    /\ c' = [active(c) EXCEPT !.pc = "end", !.closed = TRUE, !.state = "closed", !.desync = Astray]
    /\ o' = ErrorReply
    /\ UNCHANGED <<t, w, b, n>>

(* (Fault: the background read starts with the body still to be read.) *)
watchAtOnce(d, r) == startBackgroundRead(d)
watch(d, r) == IF newBody(r).kind = None THEN startBackgroundRead(d) ELSE d

readRequest ==
    /\ c.pc = "parse" /\ Len(c.bufr) >= 3
    /\ LET i == c.bufr[1].r
           r == t.reqs[i]
           d == [active(Used(c, 3)) EXCEPT !.i = i] IN
       /\ ~Astray /\ ~Refused(r)
       /\ b' = newBody(r)
       /\ \/ /\ r.expect \in {"", "100"}
             /\ \E h \in t.heads : w' = newResponse(r, h)
             /\ c' = watch([d EXCEPT !.pc = "handler"], r)
          \* sendExpectationFailed
          \/ /\ r.expect = "other"
             /\ w' = [newResponse(r, [NoHead EXCEPT !.conn = "close"]) EXCEPT
                        !.wrote = TRUE, !.done = TRUE]
             /\ c' = [d EXCEPT !.pc = "hdr", !.op = "finish"]
    /\ UNCHANGED <<t, o, n>>

-----------------------------------------------------------------------------
(* The body.  A token of it: the units of a Content-Length, chunks, a      *)
(* malformed chunk (x), the end with its trailer (e), a bad trailer (y).   *)
afterToken(x) ==
    IF b.kind = "length" THEN [b EXCEPT !.left = @ - 1, !.eof = b.left = 1]
    ELSE CASE x.k = "e" -> [b EXCEPT !.eof = TRUE]
           [] x.k = "y" -> [b EXCEPT !.closed = TRUE, !.err = TRUE]
           [] x.k = "x" -> [b EXCEPT !.err = TRUE]
           [] OTHER -> b

(* The connection ends in the body: EOF, or another error. *)
afterFailure(eof) ==
    IF b.kind = "length" /\ eof THEN [b EXCEPT !.eof = TRUE] ELSE [b EXCEPT !.err = TRUE]

(* onHitEOF.  (Fault: it is not registered.) *)
hitEOFUnseen(d, a) == d
hitEOF(d, a) == IF a.eof THEN startBackgroundRead(d) ELSE d

(* Which type w.req.Body has now *)
BodyType == IF b.wrapped THEN "other" ELSE IF b.ecr THEN "ecr" ELSE "body"

requestTooLarge(v) ==
    [v EXCEPT !.closeAfter = TRUE,
              !.head.conn = IF v.wrote THEN @ ELSE "close"]

(* The goroutine of the handler that reads the body: expectContinueReader, *)
(* maxBytesReader and body.Read *)
InHandler ==
    c.pc = "handler" \/ (c.pc \in {"hdr", "drain"} /\ c.op \in {"write", "flush", "close"})

handlerRead ==
    /\ Does("read") /\ InHandler /\ b.rd = "idle" /\ b.kind # None /\ ~b.told
    /\ IF b.ecr /\ ~b.ecrClosed /\ ~w.wroteCont /\ w.canCont
         THEN w' = [w EXCEPT !.wroteCont = TRUE] /\ b' = [b EXCEPT !.rd = "cont"]
         ELSE w' = w /\ b' = [b EXCEPT !.rd = "want"]
    /\ UNCHANGED <<t, c, o, n>>

(* With writeContinueMu held *)
sendContinue ==
    /\ b.rd = "cont"
    /\ b' = [b EXCEPT !.rd = "want"]
    /\ IF w.canCont
         THEN o' = flushed(put(o, [t |-> "100"])) /\ w' = [w EXCEPT !.canCont = FALSE]
         ELSE UNCHANGED <<o, w>>
    /\ UNCHANGED <<t, c, n>>

(* A read returns: what the handler learns *)
readReturns(a, data) ==
    LET over == b.wrapped /\ data /\ b.lim = 0 IN
    /\ b' = [a EXCEPT !.rd = "idle", !.told = @ \/ a.eof \/ a.err \/ over \/ b.closed,
                      !.ecrEOF = @ \/ a.eof, !.lim = IF data /\ @ > 0 THEN @ - 1 ELSE @]
    /\ w' = IF over THEN requestTooLarge(w) ELSE w

(* b.mu is held while Close reads. *)
Unlocked == b.rd # "wire"
BodyFree == ~(c.pc = "drain" /\ c.op = "close")

bodyRead ==
    /\ b.rd = "want" /\ BodyFree
    /\ IF b.closed \/ b.ecrClosed \/ b.eof \/ b.err
         THEN readReturns([b EXCEPT !.told = TRUE], FALSE) /\ c' = c
         ELSE IF c.bufr # <<>>
         THEN LET a == afterToken(Head(c.bufr)) IN
              readReturns(a, Head(c.bufr).k = "b") /\ c' = hitEOF(Used(c, 1), a)
         ELSE /\ b' = [b EXCEPT !.rd = "wire"] /\ w' = w
              /\ c' = [c EXCEPT !.panic = @ \/ c.inRead # None, !.inRead = "fg"]
    /\ UNCHANGED <<t, o, n>>

wireRead ==
    /\ b.rd = "wire"
    /\ \E k \in Sizes :
         LET d == [Filled(c, k) EXCEPT !.inRead = None]
             a == afterToken(Head(d.bufr)) IN
         /\ readReturns(a, Head(d.bufr).k = "b")
         /\ c' = hitEOF(Used(d, 1), a)
         /\ n' = Rest(k)
    /\ UNCHANGED <<t, o>>

wireReadFails ==
    /\ b.rd = "wire" /\ ReadFails
    /\ \E eof \in {n.gone, FALSE} :
         LET a == afterFailure(eof) IN
         /\ readReturns(a, FALSE)
         /\ c' = hitEOF([c EXCEPT !.inRead = None, !.ctx = TRUE], a)
    /\ UNCHANGED <<t, o, n>>

(* r.Body = MaxBytesReader(w, r.Body, 1) *)
MaxBytesReader ==
    /\ Does("limit") /\ c.pc = "handler" /\ b.rd = "idle" /\ b.kind # None /\ ~b.wrapped
    /\ b' = [b EXCEPT !.wrapped = TRUE, !.lim = 1]
    /\ UNCHANGED <<t, c, w, o, n>>

-----------------------------------------------------------------------------
(* The discarding of what remains of a body: at most c.quota units, for    *)
(* the header of the response (c.op is the operation that needs it) or for *)
(* body.Close (c.op = close: of the handler, shut: of finishRequest).      *)
Closing == c.op \in {"close", "shut"}
DrainOver == c.quota = 0 \/ b.eof \/ b.err \/ (~Closing /\ b.closed)

drainRead ==
    /\ c.pc = "drain" /\ Unlocked /\ ~DrainOver /\ c.bufr # <<>>
    /\ LET a == afterToken(Head(c.bufr)) IN
       /\ b' = a
       /\ c' = [hitEOF(Used(c, 1), a) EXCEPT !.quota = IF Head(c.bufr).k = "b" THEN @ - 1 ELSE @,
                                             !.bad = a.err]
    /\ UNCHANGED <<t, w, o, n>>

drainFill ==
    /\ c.pc = "drain" /\ Unlocked /\ ~DrainOver /\ c.bufr = <<>>
    /\ \E k \in Sizes :
         c' = [Filled(c, k) EXCEPT !.panic = @ \/ c.inRead # None] /\ n' = Rest(k)
    /\ UNCHANGED <<t, w, b, o>>

drainFails ==
    /\ c.pc = "drain" /\ Unlocked /\ ~DrainOver /\ c.bufr = <<>> /\ ReadFails
    /\ \E eof \in {n.gone, FALSE} :
         LET a == afterFailure(eof) IN
         b' = a /\ c' = hitEOF([c EXCEPT !.ctx = TRUE, !.bad = TRUE], a)
    /\ UNCHANGED <<t, w, o, n>>

(* body.Close, with doEarlyClose *)
CloseStarts(op, next) ==
    /\ Unlocked
    /\ LET quiet == b.kind = None \/ b.closed \/ b.eof
           last == b.kind = "length" /\ (q.close \/ (q.minor = 0 /\ ~q.keep))
           far == b.kind = "length" /\ b.left > MaxPost IN
       IF quiet \/ last \/ far
         THEN /\ b' = [b EXCEPT !.closed = TRUE, !.early = @ \/ (far /\ ~quiet /\ ~last),
                                !.ecrClosed = @ \/ (op = "close")]
              /\ c' = [c EXCEPT !.pc = next]
         ELSE /\ b' = [b EXCEPT !.ecrClosed = @ \/ (op = "close")]
              /\ c' = [c EXCEPT !.pc = "drain", !.op = op, !.quota = MaxPost]

closeEnds ==
    /\ c.pc = "drain" /\ Closing /\ DrainOver
    /\ b' = [b EXCEPT !.closed = TRUE, !.early = @ \/ c.quota = 0]
    /\ c' = [c EXCEPT !.pc = IF c.op = "close" THEN "handler" ELSE "reuse"]
    /\ UNCHANGED <<t, w, o, n>>

-----------------------------------------------------------------------------
(* chunkWriter.writeHeader: what it decides before it looks at the body of *)
(* the request ...                                                         *)
isHEAD == q.method = "HEAD"
allowed == w.head.status = "ok"
wants10KeepAlive == q.minor = 0 /\ q.keep
autoLength ==
    /\ w.done /\ ~w.head.trailer /\ w.head.te = "" /\ allowed /\ w.head.cl = -1
    /\ isHEAD => w.buf > 0
Length == IF autoLength THEN w.buf ELSE w.cl
keeps10 == wants10KeepAlive /\ (isHEAD \/ Length # -1 \/ ~allowed)

(* (Fault: an unread body behind Expect is no reason to close.) *)
closesWithoutExpect ==
    \/ w.closeAfter /\ ~(wants10KeepAlive /\ c.alive /\ w.head.cl # -1 /\ w.head.conn = "keep-alive")
    \/ ~keeps10 /\ (q.minor = 0 \/ q.close)
    \/ w.head.conn = "close" \/ ~c.alive
closes ==
    \/ w.closeAfter /\ ~(wants10KeepAlive /\ c.alive /\ w.head.cl # -1 /\ w.head.conn = "keep-alive")
    \/ ~keeps10 /\ (q.minor = 0 \/ q.close)
    \/ w.head.conn = "close" \/ ~c.alive
    \/ BodyType = "ecr" /\ ~b.ecrEOF

(* ... what it does with that body ... *)
Looks == b.kind # None /\ ~closes
tooBig == BodyType = "body" /\ ~b.closed /\ b.kind = "length" /\ b.left >= MaxPost
discards ==
    CASE BodyType = "ecr" -> w.wroteCont
      [] BodyType = "body" -> ~b.closed /\ ~tooBig
      [] OTHER -> TRUE

(* ... and how the response is framed. *)
Framed(v) ==
    LET te == v.head.te
        length == v.cl # -1 /\ te \in {"", "identity"}
        silent == isHEAD \/ ~allowed
        chunking == ~silent /\ ~length /\ q.minor = 1 /\ te # "identity" IN
    [v EXCEPT !.cwWrote = TRUE, !.chunking = chunking,
              !.closeAfter = @ \/ (~silent /\ ~length /\ (q.minor = 0 \/ te = "identity"))]

(* The header on the wire *)
HeaderSent(v) ==
    LET x == IF autoLength THEN v.cl ELSE v.head.cl IN
    [t |-> "hdr", nobody |-> isHEAD \/ ~allowed, chunked |-> v.chunking,
     cl |-> IF v.chunking \/ ~allowed \/ (v.cl # -1 /\ v.head.te \notin {"", "identity"})
              THEN -1 ELSE x,
     close |-> IF q.minor = 1 THEN v.closeAfter
               ELSE ~(keeps10 \/ (v.head.conn = "keep-alive" /\ ~v.closeAfter))]

(* The operation that needed the header goes on: chunkWriter.Write, flush  *)
(* and close.                                                              *)
unit(p) == IF isHEAD THEN p ELSE put(p, [t |-> "data"])
buffered(v, p) == IF v.buf = 1 THEN unit(p) ELSE p
Effect(op, v, p) ==
    CASE op = "write" -> <<v, unit(p)>>
      [] op = "flush" -> <<[v EXCEPT !.buf = 0], flushed(buffered(v, p))>>
      [] op = "hijack" -> <<v, flushed(p)>>
      [] op = "finish" -> <<[v EXCEPT !.buf = 0],
           flushed(IF v.chunking THEN put(buffered(v, p), [t |-> "last"]) ELSE buffered(v, p))>>
Follows(op) == CASE op = "hijack" -> "hijack" [] op = "finish" -> "abort" [] OTHER -> "handler"

Proceed(op, v, p) ==
    /\ w' = Effect(op, v, p)[1] /\ o' = Effect(op, v, p)[2]
    /\ c' = [c EXCEPT !.pc = Follows(op)]

WriteOut(v) ==
    LET x == Framed(v) IN Proceed(c.op, x, put(o, HeaderSent(x)))

writeHeader ==
    /\ c.pc = "hdr" /\ ~(Looks /\ discards)
    /\ Looks /\ BodyType = "body" => Unlocked
    /\ LET v == [w EXCEPT !.cl = Length,
                          !.closeAfter = closes \/ (Looks /\ BodyType = "body" /\ b.closed /\ ~b.eof)] IN
       WriteOut(IF Looks /\ tooBig THEN requestTooLarge(v) ELSE v)
    /\ UNCHANGED <<t, b, n>>

discard ==
    /\ c.pc = "hdr" /\ Looks /\ discards
    /\ BodyType = "body" => Unlocked
    /\ w' = [w EXCEPT !.cl = Length, !.closeAfter = FALSE]
    /\ c' = [c EXCEPT !.pc = "drain", !.quota = MaxPost + 1, !.bad = FALSE]
    /\ UNCHANGED <<t, b, o, n>>

discarded ==
    /\ c.pc = "drain" /\ ~Closing /\ DrainOver /\ Unlocked
    /\ b' = [b EXCEPT !.closed = @ \/ (b.eof /\ ~c.bad /\ c.quota > 0)]
    /\ WriteOut(IF c.quota = 0 THEN requestTooLarge(w)
                ELSE IF c.bad \/ (b.err /\ ~b.closed) THEN [w EXCEPT !.closeAfter = TRUE] ELSE w)
    /\ UNCHANGED <<t, n>>

-----------------------------------------------------------------------------
(* The handler and its response *)
WriteHeader(v) ==
    IF v.wrote THEN v
    ELSE [v EXCEPT !.wrote = TRUE, !.cl = IF v.head.cl >= 0 THEN v.head.cl ELSE @]

(* An operation that goes through the chunkWriter *)
Through(op, v) ==
    IF v.cwWrote THEN Proceed(op, v, o)
    ELSE w' = v /\ o' = o /\ c' = [c EXCEPT !.pc = "hdr", !.op = op]

Turn(op) == c.pc = "handler" /\ Does(op) /\ w.ops < MaxOps
Counted(v) == [v EXCEPT !.ops = @ + 1]

(* response.write, of one unit; w.w holds one.  (Fault: the reader of the  *)
(* body may still write 100 Continue.)                                     *)
startWriteContinue(v) == WriteHeader(v)
startWrite(v) == WriteHeader([v EXCEPT !.canCont = FALSE])
handlerWrite ==
    /\ Turn("write")
    /\ LET v == Counted(startWrite(w))
           u == [v EXCEPT !.written = @ + 1] IN
       IF ~allowed THEN w' = v /\ UNCHANGED <<c, o>>
       ELSE IF v.cl # -1 /\ u.written > v.cl THEN w' = u /\ UNCHANGED <<c, o>>
       ELSE IF v.buf = 0 THEN w' = [u EXCEPT !.buf = 1] /\ UNCHANGED <<c, o>>
       ELSE Through("write", u)
    /\ UNCHANGED <<t, b, n>>

handlerFlush ==
    /\ Turn("flush")
    /\ Through("flush", Counted(WriteHeader(w)))
    /\ UNCHANGED <<t, b, n>>

handlerClose ==
    /\ Turn("close") /\ b.kind # None /\ ~b.closed
    /\ CloseStarts("close", "handler")
    /\ w' = Counted(w)
    /\ UNCHANGED <<t, o, n>>

(* The body is not to be used after Hijack. *)
handlerHijack ==
    /\ Turn("hijack") /\ b.rd = "idle"
    /\ IF w.wrote THEN Through("hijack", w)
       ELSE c' = [c EXCEPT !.pc = "hijack"] /\ UNCHANGED <<w, o>>
    /\ UNCHANGED <<t, b, n>>

(* hijackLocked, after abortPendingRead *)
hijackLocked ==
    /\ c.pc = "hijack" /\ c.inRead = None
    /\ c' = [c EXCEPT !.pc = "hijacked", !.state = "hijacked", !.bufr = @ \o c.hasByte,
                      !.hasByte = <<>>]
    /\ UNCHANGED <<t, w, b, o, n>>

handlerPanic ==
    /\ Turn("panic") /\ b.rd = "idle"
    /\ serveReturns(c)
    /\ UNCHANGED <<t, w, b, n>>

(* The handler returns; finishRequest *)
finishRequest ==
    /\ c.pc = "handler" /\ b.rd = "idle"
    /\ Through("finish", WriteHeader([w EXCEPT !.done = TRUE]))
    /\ UNCHANGED <<t, b, n>>

finishClose ==
    /\ c.pc = "abort" /\ c.inRead = None
    /\ CloseStarts("shut", "reuse")
    /\ UNCHANGED <<t, w, o, n>>

(* (Fault: how much of a declared Content-Length was written is not seen.) *)
closedRequestBodyEarly == b.kind # None /\ BodyType = "body" /\ b.early
reuseShort == ~w.closeAfter /\ ~o.werr /\ ~closedRequestBodyEarly
shouldReuseConnection ==
    /\ ~w.closeAfter
    /\ ~(~isHEAD /\ w.cl # -1 /\ allowed /\ w.cl # w.written)
    /\ ~o.werr /\ ~closedRequestBodyEarly

serveAgain ==
    /\ c.pc = "reuse" /\ shouldReuseConnection /\ c.alive
    /\ c' = IF t.idle THEN [c EXCEPT !.pc = "peek", !.state = "idle", !.op = None]
            ELSE NextRequest([c EXCEPT !.state = "idle", !.op = None])
    /\ UNCHANGED <<t, w, b, o, n>>

serveEnds ==
    /\ c.pc = "reuse" /\ ~(shouldReuseConnection /\ c.alive)
    /\ serveReturns(c)
    /\ UNCHANGED <<t, w, b, n>>

-----------------------------------------------------------------------------
Serve ==
    \/ backgroundRead \/ backgroundReadFails \/ abortPendingRead
    \/ serveReads \/ serveReadFails \/ servePeeked \/ readRequestFails \/ readRequest
    \/ sendContinue \/ bodyRead \/ wireRead \/ wireReadFails
    \/ drainRead \/ drainFill \/ drainFails \/ closeEnds
    \/ writeHeader \/ discard \/ discarded \/ hijackLocked
    \/ finishClose \/ serveAgain \/ serveEnds
Handler ==
    \/ handlerRead \/ MaxBytesReader \/ handlerWrite \/ handlerFlush \/ handlerClose
    \/ handlerHijack \/ handlerPanic \/ finishRequest
Client == clientSend \/ clientSkip \/ clientGone
Next == Serve \/ Handler \/ Client \/ keepAlivesOff

(* The scheduler runs every goroutine, and the network delivers; a handler *)
(* may take for ever, a client may stay connected for ever.                *)
Spec == Init /\ [][Next]_vars
FairSpec == Spec /\ WF_vars(Serve) /\ WF_vars(clientSend) /\ WF_vars(clientSkip)

-----------------------------------------------------------------------------
(* conn.serve parses a request only where one begins: what is left of the  *)
(* body before it, read or not, was taken off the wire first.              *)
InSync == ~c.desync

(* No byte is lost or moved between the client and conn.bufr, with the     *)
(* background read in between; this is also what Hijack hands over.        *)
WireOrder == c.bufr \o c.hasByte \o n.in = SubSeq(n.sent, c.used + 1, Len(n.sent))

(* Every byte a client sends is read once and taken for what it is: body,  *)
(* request, or what a hijacker gets.                                       *)
InputExact == InSync /\ WireOrder

(* What the client reads makes sense: each response has one framing, the   *)
(* bytes of its body fit it, no 100 Continue falls into a response; and    *)
(* when the connection waits for the next request, the response is         *)
(* complete.                                                               *)
Parses ==
    /\ Seen.ok
    /\ c.pc \in {"parse", "peek"} /\ ~n.gone => Seen.at = "idle" /\ Seen.done = c.i

(* connReader never runs two reads at once ("invalid concurrent Body.Read  *)
(* call"), although the handler, the background read, the discarding of    *)
(* the body and finishRequest all read.                                    *)
NoConcurrentRead == ~c.panic

(* A client that goes away while the handler runs is noticed, once the     *)
(* body has been read and nothing else was sent.                           *)
GoneNoticed ==
    [](n.gone /\ c.pc = "handler" /\ (b.kind = None \/ b.eof) /\ c.hasByte \o n.in = <<>>
         => <>(c.ctx \/ o.werr \/ c.pc # "handler"))

(* When the handler has returned, its connection gets to the next request  *)
(* or is closed.                                                           *)
Finishes == [](c.op = "finish" => <>(c.op # "finish" \/ c.pc = "end"))

(* The serve goroutine does not get stuck behind a handler, nor a handler  *)
(* behind a client that has gone.                                          *)
ServerMoves == GoneNoticed /\ Finishes

(* StateActive: set before a request enters the handler. *)
ActiveInHandler == c.pc = "handler" => c.state = "active"
=============================================================================
