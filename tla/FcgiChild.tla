------------------------------ MODULE FcgiChild ------------------------------
(***************************************************************************)
(* A FastCGI child (fcgi/child.go, fcgi/fcgi.go): the goroutine that reads *)
(* the records of one connection, and the goroutine of every request with  *)
(* its handler, its response stream and its pipe for the body.  A request  *)
(* is known by its index in begin order; the web server may give two       *)
(* requests the same id, one after the other.  An octet is a digit of base *)
(* 2 * High (256 in the code), the ones from High on mark a long size.     *)
(***************************************************************************)
EXTENDS Integers, Sequences, SequencesExt

CONSTANTS High,      \* 128: sizes from here on take four octets
          MaxReqs,   \* bound on the requests of the connection
          Confs      \* [ids, keep, pairs, chunks, ops]

VARIABLE s

Here == s.m = "fcgi"

\* fault: the first size of the long form is written in the short one
encodeSizeShort(n) ==
    LET B == 2 * High
    IN  IF n <= High THEN <<n>>
        ELSE <<High + ((n \div (B * B * B)) % High), (n \div (B * B)) % B, (n \div B) % B, n % B>>

encodeSize(n) ==
    LET B == 2 * High
    IN  IF n <= High - 1 THEN <<n>>
        ELSE <<High + ((n \div (B * B * B)) % High), (n \div (B * B)) % B, (n \div B) % B, n % B>>

(* readSize: the size and the octets it takes, <<0, 0>> when they are not  *)
(* all there.                                                              *)
readSize(t) ==
    LET B == 2 * High
    IN  IF t = <<>> THEN <<0, 0>>
        ELSE IF t[1] < High THEN <<t[1], 1>>
        ELSE IF Len(t) < 4 THEN <<0, 0>>
        ELSE <<(t[1] - High) * B * B * B + t[2] * B * B + t[3] * B + t[4], 4>>

(* writePairs: a pair is the two sizes, the key and the value.             *)
pairOctets(p) == encodeSize(p[1]) \o encodeSize(p[2]) \o [i \in 1 .. p[1] + p[2] |-> 0]

(* parseParams: the pairs up to the first that is not whole.  The model    *)
(* evaluates it where the handler sees its result.                         *)
RECURSIVE parseParams(_)
parseParams(t) ==
    LET k == readSize(t)
        u == SubSeq(t, k[2] + 1, Len(t))
        v == readSize(u)
        w == SubSeq(u, v[2] + 1, Len(u))
    IN  IF t = <<>> \/ k[2] = 0 \/ v[2] = 0 \/ k[1] + v[1] > Len(w) THEN {}
        ELSE {<<k[1], v[1]>>} \cup parseParams(SubSeq(w, k[1] + v[1] + 1, Len(w)))

-----------------------------------------------------------------------------
NewRequest(id) ==
    [id |-> id, keep |-> s.conf.keep, raw |-> <<>>, pw |-> "none", offer |-> 0,
     sent |-> 0, got |-> 0, all |-> FALSE, h |-> "none", wroteCGIHeader |-> FALSE, buf |-> 0]

Init ==
    \E c \in Confs :
      s = [m |-> "fcgi", conf |-> c, serve |-> "read", requests |-> [i \in c.ids |-> 0],
           reqs |-> <<>>, web |-> [i \in c.ids |-> "idle"], out |-> <<>>, closed |-> FALSE,
           starts |-> 0, octets |-> FlattenSeq([i \in DOMAIN c.pairs |-> pairOctets(c.pairs[i])])]

Reading == Here /\ s.serve = "read" /\ ~ s.closed
req(id) == s.requests[id]

(* conn.writeRecord, under the connection's mutex; a closed connection     *)
(* takes nothing.                                                          *)
writeRecord(x, k, id, type) ==
    IF x.closed THEN x ELSE [x EXCEPT !.out = Append(@, [req |-> k, id |-> id, type |-> type])]

(* typeBeginRequest.  An id in flight ends the connection; the web server  *)
(* of the model reuses one only after its EndRequest.                      *)
BeginRequest(id) ==
    /\ Reading /\ s.web[id] = "idle" /\ Len(s.reqs) < MaxReqs /\ req(id) = 0
    /\ s' = [s EXCEPT !.reqs = Append(@, NewRequest(id)), !.requests[id] = Len(s.reqs) + 1,
                      !.web[id] = "params"]

BeginUnknownRole(id) ==
    /\ Reading /\ "role" \in s.conf.ops /\ s.web[id] = "idle" /\ Len(s.out) = 0
    /\ s' = writeRecord(s, 0, id, "end")

(* typeParams: pieces are collected, a pair may straddle two of them; the  *)
(* empty record ends them.                                                 *)
Params(id) ==
    /\ Reading /\ s.web[id] = "params" /\ req(id) # 0
    /\ LET r == s.reqs[req(id)]
       IN  IF r.raw # s.octets
           THEN \E n \in {Len(r.raw) + 1, Len(s.octets)} :
                  s' = [s EXCEPT !.reqs[req(id)].raw = SubSeq(s.octets, 1, n)]
           ELSE s' = [s EXCEPT !.web[id] = "stdin"]

(* typeStdin.  The first record starts serveRequest, with a pipe or, when  *)
(* it is empty, an empty body; a write into the pipe blocks the reading    *)
(* goroutine until the handler has taken it.                               *)
Stdin(id) ==
    /\ Reading /\ s.web[id] = "stdin" /\ req(id) # 0
    /\ LET k == req(id)
           r == s.reqs[k]
           a == IF r.pw = "none" THEN [s EXCEPT !.reqs[k].h = "run", !.starts = @ + 1] ELSE s
           more == r.sent < s.conf.chunks
       IN  s' = IF more THEN [a EXCEPT !.reqs[k].pw = IF @ = "none" THEN "open" ELSE @,
                                       !.reqs[k].sent = @ + 1, !.reqs[k].offer = 1, !.serve = "write"]
                ELSE [a EXCEPT !.reqs[k].pw = IF @ = "open" THEN "eof" ELSE @, !.reqs[k].all = TRUE,
                               !.web[id] = "wait"]

(* The record is not the request's any more: it is ignored.                *)
Ignored(id) ==
    /\ Reading /\ s.web[id] = "stdin" /\ req(id) = 0
    /\ s' = [s EXCEPT !.web[id] = "wait"]

PipeWritten ==
    /\ Here /\ s.serve = "write" /\ \A k \in DOMAIN s.reqs : s.reqs[k].offer = 0
    /\ s' = [s EXCEPT !.serve = "read"]

(* typeAbortRequest: the request is forgotten and ended, and its pipe      *)
(* broken; without keepConn the connection ends.                           *)
AbortRequest(id) ==
    /\ Reading /\ "abort" \in s.conf.ops /\ req(id) # 0
    /\ ("late" \in s.conf.ops \/ s.reqs[req(id)].h = "none")
    /\ LET k == req(id)
           a == writeRecord([s EXCEPT !.requests[id] = 0, !.web[id] = "wait",
                                      !.reqs[k].pw = IF @ = "open" THEN "broken" ELSE @], k, id, "end")
       IN  s' = IF s.reqs[k].keep THEN a ELSE [a EXCEPT !.serve = "leave"]

(* typeGetValues and an unknown type are answered at once.                 *)
Management ==
    /\ Reading /\ "values" \in s.conf.ops /\ Len(s.out) = 0
    /\ \E t \in {"values", "unknown"} : s' = writeRecord(s, 0, 0, t)

(* The web server closes the connection, or a request's goroutine has:     *)
(* serve returns through cleanUp, which breaks the pipes of the requests   *)
(* it knows, and closes.                                                   *)
WebCloses ==
    /\ Here /\ s.serve = "read" /\ (s.closed \/ "close" \in s.conf.ops)
    /\ s' = [s EXCEPT !.serve = "leave"]

\* fault: the pipes are left alone
brokenNone(r) == r

broken(r) == [r EXCEPT !.pw = IF @ \in {"open", "eof"} THEN "broken" ELSE @]

cleanUp ==
    /\ Here /\ s.serve = "leave"
    /\ LET live == {s.requests[i] : i \in s.conf.ids} \ {0}
       IN  s' = [s EXCEPT !.serve = "done", !.closed = TRUE,
                          !.reqs = [k \in DOMAIN @ |-> IF k \in live THEN broken(@[k]) ELSE @[k]]]

-----------------------------------------------------------------------------
(* The goroutine of request k.  Its handler reads the body, writes, and    *)
(* returns, having read the whole body unless it is an "early" one.        *)
Body(k) == /\ Here /\ k \in DOMAIN s.reqs /\ s.reqs[k].h \in {"run", "drain"}
           /\ s.reqs[k].offer = 1
           /\ s' = [s EXCEPT !.reqs[k].offer = 0, !.reqs[k].got = @ + 1]

atEnd(r) == r.offer = 0 /\ r.pw \in {"none", "eof", "broken"}

Running(k) == Here /\ k \in DOMAIN s.reqs /\ s.reqs[k].h = "run"

(* response.Write: the CGI header first and flushed, then the buffer.      *)
Write(k) ==
    /\ Running(k) /\ s.reqs[k].buf = 0 /\ "write" \in s.conf.ops
    /\ LET r == s.reqs[k]
           a == IF r.wroteCGIHeader THEN s ELSE writeRecord(s, k, r.id, "header")
       IN  s' = [a EXCEPT !.reqs[k].wroteCGIHeader = TRUE, !.reqs[k].buf = 1]

(* The handler has returned: Write(nil), and Close flushes the stream and  *)
(* ends it with an empty record.                                           *)
CloseResponse(k) ==
    /\ Running(k) /\ (atEnd(s.reqs[k]) \/ "early" \in s.conf.ops)
    /\ LET r == s.reqs[k]
           a == IF r.wroteCGIHeader THEN s ELSE writeRecord(s, k, r.id, "header")
           b == IF r.buf > 0 THEN writeRecord(a, k, r.id, "stdout") ELSE a
       IN  s' = [writeRecord(b, k, r.id, "eof") EXCEPT !.reqs[k].h = "close"]

Delete(k) ==
    /\ Here /\ k \in DOMAIN s.reqs /\ s.reqs[k].h = "close"
    /\ s' = [s EXCEPT !.requests[s.reqs[k].id] = 0, !.reqs[k].h = "delete"]

EndRequest(k) ==
    /\ Here /\ k \in DOMAIN s.reqs /\ s.reqs[k].h = "delete"
    /\ s' = [writeRecord(s, k, s.reqs[k].id, "end") EXCEPT !.reqs[k].h = "drain"]

(* The rest of the body is consumed, and without keepConn the connection   *)
(* closed.                                                                 *)
Drained(k) ==
    /\ Here /\ k \in DOMAIN s.reqs /\ s.reqs[k].h = "drain" /\ atEnd(s.reqs[k])
    /\ s' = [s EXCEPT !.reqs[k].h = "ended", !.closed = @ \/ ~ s.reqs[k].keep]

(* The web server sees an EndRequest, and may reuse the id.                *)
ends(id) == Len(SelectSeq(s.out, LAMBDA e : e.id = id /\ e.type = "end" /\ e.req # 0))
begun(id) == Len(SelectSeq(s.reqs, LAMBDA r : r.id = id))
IdFree(id) ==
    /\ Here /\ s.web[id] = "wait" /\ ends(id) >= begun(id)
    /\ s' = [s EXCEPT !.web[id] = "idle"]

Next ==
    /\ Here
    /\ \/ \E id \in s.conf.ids : \/ BeginRequest(id) \/ BeginUnknownRole(id) \/ Params(id) \/ Stdin(id)
                                 \/ Ignored(id) \/ AbortRequest(id) \/ IdFree(id)
       \/ PipeWritten \/ Management \/ WebCloses \/ cleanUp
       \/ \E k \in 1 .. MaxReqs : \/ Body(k) \/ Write(k) \/ CloseResponse(k)
                                  \/ Delete(k) \/ EndRequest(k) \/ Drained(k)

(* The goroutines run, handlers read their bodies and return, and the web  *)
(* server sends what it has begun.                                         *)
Handler(k) == Body(k) \/ CloseResponse(k) \/ Delete(k) \/ EndRequest(k) \/ Drained(k)
Process(k) ==
    /\ Here
    /\ \/ k = 1 /\ (PipeWritten \/ cleanUp \/ (s.closed /\ WebCloses))
       \/ k = 2 /\ \E id \in s.conf.ids : Params(id) \/ Stdin(id) \/ Ignored(id)
       \/ k - 2 \in 1..MaxReqs /\ Handler(k - 2)
Fair == \A k \in 1..(2 + MaxReqs) : WF_s(Process(k))

-----------------------------------------------------------------------------
Of(k) == SelectSeq(s.out, LAMBDA e : e.req = k)
Shape(k) == LET q == Of(k) IN [i \in DOMAIN q |-> q[i].type]

(* Every request on the multiplexed connection is answered by its own      *)
(* well-formed stream: header, output, the empty record and one            *)
(* EndRequest, after which nothing of it follows; an id is not taken out   *)
(* of the table by the goroutine of an earlier request; and the handler    *)
(* starts once, with all the pairs however the records cut them, and gets  *)
(* the chunks of its own body.                                             *)
StreamsWhole ==
    Here =>
      /\ \A k \in DOMAIN s.reqs :
           /\ Shape(k) \in {<<>>, <<"header">>, <<"header", "eof">>, <<"header", "stdout", "eof">>,
                            <<"header", "eof", "end">>, <<"header", "stdout", "eof", "end">>, <<"end">>}
           /\ s.reqs[k].h # "none" => parseParams(s.reqs[k].raw) = Range(s.conf.pairs)
           /\ s.reqs[k].got <= s.reqs[k].sent
           /\ (s.reqs[k].h \in {"none", "run", "close"} /\ \A j \in DOMAIN s.out :
                 ~ (s.out[j].req = k /\ s.out[j].type = "end")) => s.requests[s.reqs[k].id] = k
      /\ s.starts <= Len(s.reqs)

(* A request whose handler has started is answered, on a connection that   *)
(* stays, and its goroutine ends - on one that does not stay as well: a    *)
(* handler that waits for its body is woken by cleanUp.  For a handler     *)
(* that returns before its body is there, see EarlyEnds.                   *)
Ended(k) == k \in DOMAIN s.reqs /\ s.reqs[k].h = "ended" /\ (s.closed \/ ends(s.reqs[k].id) > 0)
Started(k) == Here /\ k \in DOMAIN s.reqs /\ s.reqs[k].h = "run"
Due(k) == Started(k) /\ "early" \notin s.conf.ops
Met(k) == Here /\ Ended(k)
RequestsEnd == \A k \in 1 .. MaxReqs : Due(k) ~> Met(k)

(* The comment in serveRequest: it will "consume the entire body, so the   *)
(* host isn't still writing to us when we close the socket", also after a  *)
(* handler that did not read it.                                           *)
EarlyEnds == \A k \in 1 .. MaxReqs : Started(k) ~> (~ Here \/ Ended(k))
=============================================================================
