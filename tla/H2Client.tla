------------------------------ MODULE H2Client ------------------------------
(***************************************************************************)
(* One HTTP/2 ClientConn (src/http2/transport.go): the round trips that    *)
(* share it, their body writers, the readers of the response bodies, the   *)
(* goroutines that wait for a cancellation, readLoop, pushed streams, and  *)
(* the ways the connection is closed.                                      *)
(*                                                                         *)
(* A request has at most one stream here, so streams carry the name of     *)
(* their request (or push).  An action is one critical section of cc.mu,   *)
(* or one operation on a channel or a pipe.  cc.cond is the set parked of  *)
(* the goroutines in Wait; Broadcast empties it.  How much flow control    *)
(* allows is in module H2Inflow: here a stream has window tokens or not.     *)
(***************************************************************************)
EXTENDS Naturals, Sequences, FiniteSets

CONSTANTS
    Reqs, Pushes,   \* requests, and the streams the server may push
    Confs,          \* configurations
    Max1xx,         \* max1xxResponses (5 in the code)
    QMax            \* bound: frames in flight

(* A configuration: the requests, those with a body, those of them that wait for  *)
(* 100 Continue, those whose context may end (inBody: also after the       *)
(* response header); StrictMaxConcurrentStreams; whether the connection    *)
(* was dialed for one request; its first stream ID; the values of          *)
(* MAX_CONCURRENT_STREAMS (at first, changes); what else may happen; a     *)
(* bound on the frames the server sends.                                   *)
ASSUME ClientAssumption ==
    /\ Reqs \cap Pushes = {} /\ Max1xx \in Nat /\ QMax \in Nat \ {0}
    /\ \A c \in Confs :
         /\ c.reqs \subseteq Reqs /\ c.body \subseteq Reqs /\ c.expect \subseteq c.body /\ c.cancel \subseteq Reqs
         /\ {c.inBody, c.strict, c.single} \subseteq BOOLEAN /\ c.first \in Nat \ {0}
         /\ c.max \in Nat /\ c.maxes \subseteq Nat /\ c.frames \in Nat

VARIABLES
    q,      \* the round trips: at, out (result), written (bodyWritten), ctx, waitErr;
            \* their body writers: bw, res (bodyWriter.resc), shut (the body is closed)
    cs,     \* the streams (clientStream), with the goroutines that belong to them:
            \* rd (reader of the body), watch (awaitRequestCancel), push (HandlePush)
    cc,     \* the ClientConn; its field t is the configuration
    rl,     \* readLoop: at, its frame f, idle (closeWhenIdle), reply (gotReply)
    net     \* the server: inq (frames on their way), n (frames sent), sv (its side of
            \* each stream), last (the last stream of its GOAWAY)

vars == <<q, cs, cc, rl, net>>

Streams == Reqs \cup Pushes
May(e) == e \in cc.t.events
None == "none"
NoID == 1000                    \* larger than every stream ID

(* newStreamWithID.  done and peerReset count how often they are closed.   *)
(* The pipe: err, brk (breakErr), buf (it has a buffer), n (DATA frames in *)
(* it).  lost: data of the stream was thrown away.                         *)
newStream(id) ==
    [id |-> id, in |-> id > 0, resc |-> None, done |-> 0, peerReset |-> 0, didReset |-> FALSE,
     stop |-> None, started |-> FALSE, first |-> FALSE, past |-> FALSE, gotEnd |-> FALSE,
     n1xx |-> 0, tokens |-> 1, err |-> None, brk |-> FALSE, buf |-> FALSE, n |-> 0,
     lost |-> FALSE, rd |-> "off", watch |-> "off", push |-> "off"]

Init ==
    /\ q = [r \in Reqs |-> [at |-> "new", out |-> None, written |-> FALSE, ctx |-> FALSE,
                            waitErr |-> FALSE, bw |-> "off", res |-> None, shut |-> FALSE]]
    /\ cs = [s \in Streams |-> newStream(0)]
    /\ \E t \in Confs :
         /\ cc = [t |-> t, closed |-> FALSE, closing |-> FALSE, goAway |-> NoID,
                  maxConc |-> t.max, nextID |-> t.first, idleTimer |-> TRUE, parked |-> {},
                  werr |-> FALSE, cause |-> None]
         /\ rl = [at |-> "read", f |-> None, idle |-> t.single, reply |-> FALSE]
    /\ net = [inq |-> <<>>, n |-> 0, sv |-> [s \in Streams |-> "none"], last |-> NoID]

-----------------------------------------------------------------------------
(* Operators on the streams c.  Definitions marked "Fault" are variants    *)
(* with a bug; the mutation runs put them in the place of the definition   *)
(* that follows.                                                           *)
Open(c) == {s \in Streams : c[s].in}

(* A send with a default case: resc has room for one result. *)
trySend(c, s, v) == IF c[s].resc = None THEN [c EXCEPT ![s].resc = v] ELSE c

(* pipe.CloseWithError: the first error stays. *)
closePipe(c, s, e) == IF c[s].err = None THEN [c EXCEPT ![s].err = e] ELSE c

(* streamByID(id, true): only an open connection forgets its streams.      *)
(* (Fault: done is closed again when the stream is gone already.)          *)
removedTwice(c, s) ==
    IF ~cc.closed THEN [c EXCEPT ![s].in = FALSE, ![s].done = @ + 1] ELSE c
removed(c, s) ==
    IF c[s].in /\ ~cc.closed THEN [c EXCEPT ![s].in = FALSE, ![s].done = @ + 1] ELSE c

(* It starts the idle timer with the last stream, and broadcasts.  (Fault: *)
(* the waiters sleep on.)                                                  *)
noBroadcast(s) ==
    IF cs[s].in /\ ~cc.closed THEN [cc EXCEPT !.idleTimer = @ \/ Open(cs) = {s}] ELSE cc
afterRemoval(s) ==
    IF cs[s].in /\ ~cc.closed
      THEN [cc EXCEPT !.idleTimer = @ \/ Open(cs) = {s}, !.parked = {}] ELSE cc

forgetStreamID(s) == cs' = removed(cs, s) /\ cc' = afterRemoval(s)

(* idleStateLocked, canTakeNewRequestLocked *)
canTakeNewRequest ==
    /\ ~(cc.t.single /\ cc.nextID > 1)
    /\ cc.goAway = NoID /\ ~cc.closed /\ ~cc.closing
    /\ cc.t.strict \/ Cardinality(Open(cs)) + 1 < cc.maxConc

-----------------------------------------------------------------------------
(* roundTrip *)

(* It stops the idle timer before it takes cc.mu. *)
roundTripStart(r) ==
    /\ r \in cc.t.reqs /\ q[r].at = "new"
    /\ q' = [q EXCEPT ![r].at = "slot"]
    /\ cc' = [cc EXCEPT !.idleTimer = FALSE]
    /\ UNCHANGED <<cs, rl, net>>

(* awaitOpenSlotForRequest, on arrival and whenever it is woken, up to     *)
(* writeHeaders, all with cc.mu held.                                      *)
AtSlot(r) == q[r].at = "slot" \/ (q[r].at = "wait" /\ <<"slot", r>> \notin cc.parked)
SlotCanceled(r) == q[r].at = "wait" /\ q[r].waitErr

slotRefused(r) ==
    /\ AtSlot(r)
    /\ SlotCanceled(r) \/ ~canTakeNewRequest
    /\ q' = [q EXCEPT ![r].at = "done",
                      ![r].out = IF SlotCanceled(r) THEN "canceled" ELSE "unusable"]
    /\ UNCHANGED <<cs, cc, rl, net>>

slotFree == Cardinality(Open(cs)) + 1 <= cc.maxConc

slotWait(r) ==
    /\ AtSlot(r) /\ ~SlotCanceled(r) /\ canTakeNewRequest /\ ~slotFree
    /\ q' = [q EXCEPT ![r].at = "wait"]
    /\ cc' = [cc EXCEPT !.parked = @ \cup {<<"slot", r>>}]
    /\ UNCHANGED <<cs, rl, net>>

(* A request that cannot be encoded leaves with no stream. *)
encodeFails(r) ==
    /\ May("encode")
    /\ AtSlot(r) /\ ~SlotCanceled(r) /\ canTakeNewRequest /\ slotFree
    /\ q' = [q EXCEPT ![r].at = "done", ![r].out = "err"]
    /\ UNCHANGED <<cs, cc, rl, net>>

startStream(r) ==
    /\ AtSlot(r) /\ ~SlotCanceled(r) /\ canTakeNewRequest /\ slotFree
    /\ cs' = [cs EXCEPT ![r] = newStream(cc.nextID)]
    /\ cc' = [cc EXCEPT !.nextID = @ + 2]
    /\ IF cc.werr
         THEN /\ q' = [q EXCEPT ![r].at = "forget", ![r].out = "err", ![r].shut = r \in cc.t.body]
              /\ UNCHANGED net
         ELSE /\ q' = [q EXCEPT ![r].at = "select",
                                ![r].bw = IF r \in cc.t.expect THEN "armed"
                                          ELSE IF r \in cc.t.body THEN "read" ELSE "off"]
              /\ net' = [net EXCEPT !.sv[r] = "open"]
    /\ UNCHANGED rl

(* The goroutine that waits for a cancellation while r waits for a slot. *)
slotCancel(r) ==
    /\ q[r].at = "wait" /\ q[r].ctx /\ ~q[r].waitErr
    /\ q' = [q EXCEPT ![r].waitErr = TRUE]
    /\ cc' = [cc EXCEPT !.parked = {}]
    /\ UNCHANGED <<cs, rl, net>>

(* bodyWriter.cancel() and abortRequestBodyWrite(why): a delayed write is  *)
(* called off, one that has begun is told to stop.  x, c: the new q[r] and *)
(* cs.  (Fault: a writer in cond.Wait is not woken.)                       *)
calledOff(x) == IF x.bw = "armed" THEN [x EXCEPT !.bw = "off", !.res = "nil"] ELSE x
abortAsleep(r, why, x, c) ==
    /\ q' = [q EXCEPT ![r] = calledOff(x)]
    /\ cs' = [c EXCEPT ![r].stop = why]
    /\ UNCHANGED cc
abortRequestBodyWrite(r, why, x, c) ==
    /\ q' = [q EXCEPT ![r] = calledOff(x)]
    /\ cs' = [c EXCEPT ![r].stop = why]
    /\ cc' = [cc EXCEPT !.parked = {}]

Writing(r) == r \in cc.t.body /\ ~q[r].written

(* handleReadLoopResponse: an error, or a status over 299, ends the body,  *)
(* and roundTrip waits for its writer unless that is done (w).             *)
IsRes(v) == v \in {"res2xx", "res3xx"}
handleReadLoopResponse(r, w) ==
    LET v == cs[r].resc
        x == [q[r] EXCEPT !.out = IF IsRes(v) THEN "res" ELSE v,
                          !.at = IF v # "res2xx" /\ Writing(r) /\ ~w THEN "drain"
                                 ELSE IF IsRes(v) THEN "return" ELSE "forget",
                          !.written = @ \/ w,
                          !.res = IF w THEN None ELSE @]
        c == [cs EXCEPT ![r].resc = None,
                        ![r].rd = IF IsRes(v) /\ cs[r].watch # "off" THEN "open" ELSE @]
    IN  IF v # "res2xx" THEN abortRequestBodyWrite(r, "stop", x, c)
                        ELSE q' = [q EXCEPT ![r] = x] /\ cs' = c /\ UNCHANGED cc

roundTripResult(r) ==
    /\ q[r].at = "select" /\ cs[r].resc # None
    /\ handleReadLoopResponse(r, FALSE)
    /\ UNCHANGED <<rl, net>>

(* The context ends, Request.Cancel is closed, or the time for the         *)
(* response header, which starts when the body is written, is over.        *)
roundTripCanceled(r, why) ==
    /\ q[r].at = "select"
    /\ \/ why = "canceled" /\ q[r].ctx
       \/ why = "timeout" /\ May("timeout") /\ ~Writing(r)
    /\ IF Writing(r)
         THEN abortRequestBodyWrite(r, "cancel", [q[r] EXCEPT !.at = "drain", !.out = why], cs)
         ELSE /\ q' = [q EXCEPT ![r].at = "forget", ![r].out = why]
              /\ UNCHANGED <<cs, cc>>
    /\ UNCHANGED <<rl, net>>

(* It waits for the body writer before it returns. *)
roundTripDrain(r) ==
    /\ q[r].at = "drain" /\ q[r].res # None
    /\ q' = [q EXCEPT ![r].res = None,
                      ![r].at = IF q[r].out = "res" THEN "return" ELSE "forget"]
    /\ UNCHANGED <<cs, cc, rl, net>>

roundTripPeerReset(r) ==
    /\ q[r].at = "select" /\ cs[r].peerReset > 0
    /\ q' = [q EXCEPT ![r].at = "return", ![r].out = "reset"]
    /\ UNCHANGED <<cs, cc, rl, net>>

(* The body is written, or has failed; a response that is there already is *)
(* preferred.                                                              *)
roundTripWrote(r) ==
    /\ q[r].at = "select" /\ q[r].res # None
    /\ IF cs[r].resc # None
         THEN handleReadLoopResponse(r, TRUE)
         ELSE /\ q' = [q EXCEPT ![r].res = None, ![r].written = TRUE,
                                ![r].at = IF q[r].res = "nil" THEN @ ELSE "forget",
                                ![r].out = IF q[r].res = "nil" THEN @ ELSE q[r].res]
              /\ UNCHANGED <<cs, cc>>
    /\ UNCHANGED <<rl, net>>

roundTripForget(r) ==
    /\ q[r].at = "forget"
    /\ q' = [q EXCEPT ![r].at = "return"]
    /\ forgetStreamID(r)
    /\ UNCHANGED <<rl, net>>

(* closeForError: every stream is told, and dropped; done stays open. *)
ended(c, s, e) == IF c[s].in THEN closePipe(trySend(c, s, e), s, e)[s] ELSE c[s]
caused(why) == IF cc.closed \/ cc.cause # None THEN cc.cause ELSE why
closeForError(why) ==
    /\ cs' = [s \in Streams |-> [ended(cs, s, "connClosed") EXCEPT !.in = FALSE]]
    /\ cc' = [cc EXCEPT !.closed = TRUE, !.parked = {}, !.cause = caused(why)]

(* The deferred function closes a connection that cannot be written to. *)
roundTripReturn(r) ==
    /\ q[r].at = "return"
    /\ q' = [q EXCEPT ![r].at = "done"]
    /\ IF cc.werr THEN closeForError("werr") ELSE UNCHANGED <<cs, cc>>
    /\ UNCHANGED <<rl, net>>

-----------------------------------------------------------------------------
(* The body writer: writeRequestBody and awaitFlowControl *)

bodyTimer(r) ==                 \* no 100 Continue came in time
    /\ q[r].bw = "armed" /\ q' = [q EXCEPT ![r].bw = "read"]
    /\ UNCHANGED <<cs, cc, rl, net>>

(* writeRequestBody closes the body; its result goes to bodyWriter.resc.   *)
(* (Fault: it is closed after success only.)                               *)
closedOnSuccess(r, v) ==
    q' = [q EXCEPT ![r].bw = "off", ![r].res = v, ![r].shut = @ \/ v = "nil"]
bodyResult(r, v) == q' = [q EXCEPT ![r].bw = "off", ![r].res = v, ![r].shut = TRUE]

(* body.Read gives data; or the end (an empty DATA frame, or trailers, end *)
(* the stream); or it fails, or gives more than Content-Length.  Trailers  *)
(* that cannot be encoded are left out.                                    *)
bodyReadData(r) ==
    /\ q[r].bw = "read" /\ q' = [q EXCEPT ![r].bw = "flow"]
    /\ cs' = [cs EXCEPT ![r].started = TRUE]
    /\ UNCHANGED <<cc, rl, net>>
bodyReadEnd(r) ==
    /\ q[r].bw = "read"
    /\ \/ bodyResult(r, IF cc.werr THEN "err" ELSE "nil")
       \/ May("bodyErr") /\ bodyResult(r, "bodyErr")
    /\ cs' = [cs EXCEPT ![r].started = TRUE]
    /\ UNCHANGED <<cc, rl, net>>

(* Why awaitFlowControl gives up, in the order of its tests. *)
StopCause(r) ==
    IF cc.closed THEN "connClosed" ELSE IF cs[r].stop # None THEN "stopped"
    ELSE IF cs[r].peerReset > 0 THEN "reset" ELSE IF cs[r].done > 0 THEN "streamClosed" ELSE None

AtFlow(r) == q[r].bw = "flow" /\ <<"flow", r>> \notin cc.parked

awaitFlowControl(r) ==
    /\ AtFlow(r)
    /\ \/ /\ StopCause(r) # None
          /\ bodyResult(r, StopCause(r))
          /\ UNCHANGED <<cs, cc>>
       \/ /\ StopCause(r) = None /\ cs[r].tokens > 0
          /\ cs' = [cs EXCEPT ![r].tokens = @ - 1]
          /\ \/ bodyResult(r, IF cc.werr THEN "err" ELSE "nil")
             \/ ~cc.werr /\ q' = [q EXCEPT ![r].bw = "read"]
          /\ UNCHANGED cc
       \/ /\ StopCause(r) = None /\ cs[r].tokens = 0
          /\ cc' = [cc EXCEPT !.parked = @ \cup {<<"flow", r>>}]
          /\ UNCHANGED <<q, cs>>
    /\ UNCHANGED <<rl, net>>

-----------------------------------------------------------------------------
(* readLoop.  The first critical section of a frame's handler is joined    *)
(* with ReadFrame; at and f say what is left to do.                        *)

Frame(t) == rl.at = "read" /\ net.inq # <<>> /\ Head(net.inq).t = t
pop == net' = [net EXCEPT !.inq = Tail(@)]
goto(at, f) == rl' = [rl EXCEPT !.at = at, !.f = f]
(* After a frame that may leave the connection idle, closeIfIdle. *)
nextFrame == goto(IF rl.idle /\ rl.reply THEN "idle" ELSE "read", None)
connError(why) == goto("exit", None) /\ cc' = [cc EXCEPT !.cause = caused(why)]

(* A frame for a stream that is gone is ignored. *)
ignored ==
    /\ \E t \in {"headers", "data", "rst", "window", "bad"} : Frame(t)
    /\ ~cs[Head(net.inq).s].in
    /\ rl' = [rl EXCEPT !.at = IF rl.idle /\ (rl.reply \/ Frame("headers")) THEN "idle" ELSE @,
                        !.reply = @ \/ Frame("headers")]
    /\ pop /\ UNCHANGED <<q, cs, cc>>

(* processHeaders, up to the delivery of the response.  The stream ends    *)
(* before that if the request has no body, else after it.  A response      *)
(* without END_STREAM gets a pipe, and a goroutine that awaits             *)
(* cancellation.                                                           *)
processHeaders ==
    /\ Frame("headers")
    /\ LET f == Head(net.inq)
           s == f.s
           c == [cs EXCEPT ![s].first = TRUE, ![s].gotEnd = f.end, ![s].past = TRUE]
           late == f.end /\ s \in cc.t.body
       IN  /\ cs[s].in /\ ~cs[s].past /\ f.code \in {"2xx", "3xx"}
           /\ cs' = IF ~f.end THEN [c EXCEPT ![s].err = None, ![s].brk = FALSE, ![s].buf = TRUE,
                                             ![s].watch = "on"]
                    ELSE IF late THEN c ELSE removed(c, s)
           /\ cc' = IF f.end /\ ~late THEN afterRemoval(s) ELSE cc
           /\ rl' = [rl EXCEPT !.at = "deliver", !.reply = TRUE,
                               !.f = [s |-> s, v |-> IF f.code = "2xx" THEN "res2xx" ELSE "res3xx",
                                      forget |-> late]]
    /\ pop /\ UNCHANGED q

(* A malformed response, or one 1xx response too many: RST_STREAM. *)
processBadHeaders ==
    /\ Frame("headers")
    /\ LET s == Head(net.inq).s IN
         /\ cs[s].in /\ ~cs[s].past
         /\ Head(net.inq).code = "bad" \/ (Head(net.inq).code = "1xx" /\ cs[s].n1xx = Max1xx)
         /\ cs' = removed([cs EXCEPT ![s].first = TRUE, ![s].past = TRUE], s)
         /\ cc' = afterRemoval(s)
         /\ rl' = [rl EXCEPT !.at = "deliver", !.reply = TRUE,
                             !.f = [s |-> s, v |-> "err", forget |-> FALSE]]
    /\ pop /\ UNCHANGED q

(* A 1xx response; 100 Continue starts a body that waits (on100), or that  *)
(* cancel has called off before it began.                                  *)
process1xx ==
    /\ Frame("headers")
    /\ LET s == Head(net.inq).s IN
         /\ cs[s].in /\ ~cs[s].past /\ Head(net.inq).code = "1xx" /\ cs[s].n1xx < Max1xx
         /\ cs' = [cs EXCEPT ![s].first = TRUE, ![s].n1xx = @ + 1]
         /\ \E continue \in BOOLEAN :
              q' = [r \in Reqs |-> IF /\ r = s /\ continue /\ r \in cc.t.expect
                                      /\ q[r].bw \in {"armed", "off"} /\ ~q[r].shut
                                   THEN [q[r] EXCEPT !.bw = "read"] ELSE q[r]]
    /\ rl' = [rl EXCEPT !.reply = TRUE, !.at = IF rl.idle THEN "idle" ELSE "read"]
    /\ pop /\ UNCHANGED cc

(* cs.resc <- response: waits while resc is full. *)
deliver ==
    /\ rl.at = "deliver" /\ cs[rl.f.s].resc = None
    /\ cs' = [cs EXCEPT ![rl.f.s].resc = rl.f.v]
    /\ IF rl.f.forget THEN goto("forget", rl.f) ELSE nextFrame
    /\ UNCHANGED <<q, cc, net>>

deferredForget ==
    /\ rl.at = "forget"
    /\ forgetStreamID(rl.f.s)
    /\ nextFrame
    /\ UNCHANGED <<q, net>>

(* endStreamError: close the pipe, and tell a round trip that still waits. *)
endStream(c, s, e) == trySend(closePipe(c, s, e), s, e)

(* processTrailers: the second and last HEADERS frame of a stream. *)
processTrailers ==
    /\ Frame("headers")
    /\ LET f == Head(net.inq) IN
         /\ cs[f.s].in /\ cs[f.s].past
         /\ IF f.end /\ f.code = "trailers"
              THEN /\ cs' = endStream([cs EXCEPT ![f.s].gotEnd = TRUE], f.s, "EOF")
                   /\ rl' = [rl EXCEPT !.at = "forget", !.f = [s |-> f.s], !.reply = TRUE]
                   /\ UNCHANGED cc
              ELSE connError("protocol") /\ UNCHANGED cs
    /\ pop /\ UNCHANGED q

(* processData, in three steps: streamByID and didReset with cc.mu held,   *)
(* the write to the pipe, the end of the stream.                           *)
processData ==
    /\ Frame("data")
    /\ LET f == Head(net.inq)
           s == f.s
           c == IF f.end THEN removed([cs EXCEPT ![s].gotEnd = TRUE], s) ELSE cs
       IN  /\ cs[s].in
           /\ cc' = IF f.end THEN afterRemoval(s) ELSE cc
           /\ IF cs[s].first
                THEN /\ cs' = [c EXCEPT ![s].lost = @ \/ (f.full /\ cs[s].didReset)]
                     /\ goto(IF f.full /\ ~cs[s].didReset THEN "write" ELSE "dataEnd",
                             [s |-> s, end |-> f.end])
                ELSE cs' = endStream(c, s, "err") /\ nextFrame
    /\ pop /\ UNCHANGED q

(* pipe.Write: an error ends readLoop, and with it the connection. *)
dataWrite ==
    /\ rl.at = "write"
    /\ LET s == rl.f.s IN
         IF cs[s].err # None \/ (~cs[s].brk /\ ~cs[s].buf)
           THEN cs' = endStream(cs, s, "err") /\ connError("pipe")
           ELSE /\ cs' = IF cs[s].brk THEN cs ELSE [cs EXCEPT ![s].n = @ + 1]
                /\ goto("dataEnd", rl.f) /\ UNCHANGED cc
    /\ UNCHANGED <<q, net>>

dataEnd ==
    /\ rl.at = "dataEnd"
    /\ cs' = IF rl.f.end THEN endStream(cs, rl.f.s, "EOF") ELSE cs
    /\ nextFrame
    /\ UNCHANGED <<q, cc, net>>

(* processResetStream: streamByID closes done before peerReset is closed. *)
processResetStream ==
    /\ Frame("rst") /\ cs[Head(net.inq).s].in
    /\ forgetStreamID(Head(net.inq).s)
    /\ goto("peerReset", [s |-> Head(net.inq).s])
    /\ pop /\ UNCHANGED q
peerReset ==
    /\ rl.at = "peerReset"
    /\ LET s == rl.f.s IN
         /\ cs' = [closePipe(cs, s, "reset") EXCEPT ![s].peerReset = @ + 1]
         /\ cc' = [cc EXCEPT !.parked = {}]
    /\ nextFrame
    /\ UNCHANGED <<q, net>>

(* ReadFrame returns a StreamError: RST_STREAM. *)
streamError ==
    /\ Frame("bad")
    /\ LET s == Head(net.inq).s IN
         /\ cs[s].in
         /\ cs' = endStream(removed(cs, s), s, "err")
         /\ cc' = afterRemoval(s)
    /\ pop /\ UNCHANGED <<q, rl>>

(* processGoAway and setGoAway: the streams the server will not answer     *)
(* fail, but stay until their round trips have taken the error.  (Fault:   *)
(* the others fail too.)                                                   *)
goAwayAll ==
    /\ Frame("goaway")
    /\ cc' = [cc EXCEPT !.goAway = Head(net.inq).last]
    /\ cs' = [s \in Streams |-> IF cs[s].in THEN trySend(cs, s, "goaway")[s] ELSE cs[s]]
    /\ nextFrame /\ pop /\ UNCHANGED q
processGoAway ==
    /\ Frame("goaway")
    /\ LET last == Head(net.inq).last IN
         /\ cc' = [cc EXCEPT !.goAway = last]
         /\ cs' = [s \in Streams |-> IF cs[s].in /\ cs[s].id > last
                                     THEN trySend(cs, s, "goaway")[s] ELSE cs[s]]
    /\ nextFrame /\ pop /\ UNCHANGED q

(* processSettings (MAX_CONCURRENT_STREAMS) wakes nobody;                  *)
(* processWindowUpdate does.                                               *)
processSettings ==
    /\ Frame("settings")
    /\ cc' = [cc EXCEPT !.maxConc = Head(net.inq).max]
    /\ pop /\ UNCHANGED <<q, cs, rl>>
processWindowUpdate ==
    /\ Frame("window") /\ cs[Head(net.inq).s].in
    /\ cs' = [cs EXCEPT ![Head(net.inq).s].tokens = 1]
    /\ cc' = [cc EXCEPT !.parked = {}]
    /\ pop /\ UNCHANGED <<q, rl>>

(* processPushPromise: a push that does not belong to an open stream is a  *)
(* connection error; the StreamError of one that is not authoritative is   *)
(* returned from run, and ends readLoop as well.                           *)
processPushPromise ==
    /\ Frame("push")
    /\ LET f == Head(net.inq) s == Head(net.inq).s IN
         IF ~cs[s].in \/ cs[s].peerReset > 0 \/ cs[s].gotEnd
           THEN connError("protocol") /\ UNCHANGED cs
           ELSE \/ /\ cs' = [cs EXCEPT ![f.p] = [newStream(2) EXCEPT !.push = "run"]]
                   /\ UNCHANGED <<cc, rl>>
                \/ cs' = [cs EXCEPT ![f.p] = newStream(2)] /\ connError("push")
    /\ pop /\ UNCHANGED q

(* closeIfIdle, from readLoop or from the idle timer *)
closedIfIdle(c) == IF Open(cs) = {} THEN [c EXCEPT !.closed = TRUE, !.cause = caused("idle")] ELSE c
readLoopIdle ==
    /\ rl.at = "idle"
    /\ cc' = closedIfIdle(cc)
    /\ goto("read", None)
    /\ UNCHANGED <<q, cs, net>>
onIdleTimeout ==
    /\ cc.idleTimer /\ May("idle")
    /\ cc' = closedIfIdle([cc EXCEPT !.idleTimer = FALSE])
    /\ UNCHANGED <<q, cs, rl, net>>

(* The network connection ends, or the client has closed it. *)
readError ==
    /\ rl.at = "read" /\ (cc.closed \/ Frame("eof"))
    /\ connError("eof")
    /\ UNCHANGED <<q, cs, net>>

(* cleanup.  (Fault: the waiters are not woken.) *)
cleanedUp(s) == IF cs[s].in THEN [ended(cs, s, "connErr") EXCEPT !.done = @ + 1] ELSE cs[s]
cleanupSilent ==
    /\ rl.at = "exit" /\ goto("done", None)
    /\ cs' = [s \in Streams |-> cleanedUp(s)]
    /\ cc' = [cc EXCEPT !.closed = TRUE, !.idleTimer = FALSE]
    /\ UNCHANGED <<q, net>>
cleanup ==
    /\ rl.at = "exit" /\ goto("done", None)
    /\ cs' = [s \in Streams |-> cleanedUp(s)]
    /\ cc' = [cc EXCEPT !.closed = TRUE, !.idleTimer = FALSE, !.parked = {}]
    /\ UNCHANGED <<q, net>>

-----------------------------------------------------------------------------
(* The reader of a response body: transportResponseBody.Read and Close *)

bodyRead(s) ==
    /\ cs[s].rd = "open" /\ May("readers")
    /\ \/ cs[s].n > 0 /\ cs' = [cs EXCEPT ![s].n = @ - 1]
       \/ /\ cs[s].n = 0 /\ cs[s].err # None
          /\ cs' = [cs EXCEPT ![s].rd = IF cs[s].err = "EOF" THEN "EOF" ELSE "failed"]
    /\ UNCHANGED <<q, cc, rl, net>>

(* Close looks at the pipe, sends RST_STREAM unless the server has ended   *)
(* the stream, breaks the pipe (Fault: closes it), and forgets the stream. *)
bodyClose(s) ==
    /\ cs[s].rd \in {"open", "EOF", "failed"} /\ May("readers")
    /\ cs' = [cs EXCEPT ![s].rd = IF cs[s].err = "EOF" THEN "break" ELSE "reset"]
    /\ UNCHANGED <<q, cc, rl, net>>
bodyReset(s) ==
    /\ cs[s].rd = "reset"
    /\ cs' = [cs EXCEPT ![s].rd = "break", ![s].didReset = TRUE]
    /\ UNCHANGED <<q, cc, rl, net>>
breakCloses(s) ==
    /\ cs[s].rd = "break"
    /\ cs' = [closePipe(cs, s, "closed") EXCEPT ![s].rd = "forget"]
    /\ UNCHANGED <<q, cc, rl, net>>
bodyBreak(s) ==
    /\ cs[s].rd = "break"
    /\ cs' = [cs EXCEPT ![s].rd = "forget", ![s].brk = TRUE, ![s].n = 0]
    /\ UNCHANGED <<q, cc, rl, net>>
bodyForget(s) ==
    /\ cs[s].rd = "forget"
    /\ cs' = [removed(cs, s) EXCEPT ![s].rd = "closed"] /\ cc' = afterRemoval(s)
    /\ UNCHANGED <<q, rl, net>>

-----------------------------------------------------------------------------
(* cs.awaitRequestCancel, and cancelStream (which a push handler calls as  *)
(* well): only a stream that was reset before is reset and forgotten.      *)

watchDone(s) ==
    /\ cs[s].watch = "on" /\ cs[s].done > 0
    /\ cs' = [cs EXCEPT ![s].watch = "ended"]
    /\ UNCHANGED <<q, cc, rl, net>>
watchCancel(r) ==
    /\ cs[r].watch = "on" /\ q[r].ctx
    /\ cs' = [cs EXCEPT ![r].watch = IF cs[r].didReset THEN "forget" ELSE "close",
                        ![r].didReset = TRUE]
    /\ UNCHANGED <<q, cc, rl, net>>
watchForget(r) ==
    /\ cs[r].watch = "forget"
    /\ cs' = [removed(cs, r) EXCEPT ![r].watch = "close"] /\ cc' = afterRemoval(r)
    /\ UNCHANGED <<q, rl, net>>
watchClose(r) ==
    /\ cs[r].watch = "close"
    /\ cs' = [closePipe(cs, r, "canceled") EXCEPT ![r].watch = "canceled"]
    /\ UNCHANGED <<q, cc, rl, net>>

(* HandlePush calls ReadResponse, and returns at some time; the stream is  *)
(* canceled if it has not ended by then (handlePushEarlyReturnCancel).     *)
pushResult(p) ==
    /\ cs[p].push = "run"
    /\ \/ /\ cs[p].resc # None
          /\ cs' = IF IsRes(cs[p].resc)
                     THEN [cs EXCEPT ![p].push = "read", ![p].resc = None,
                                     ![p].rd = IF cs[p].watch # "off" THEN "open" ELSE @]
                     ELSE closePipe([cs EXCEPT ![p].push = "returned", ![p].resc = None,
                                               ![p].didReset = TRUE], p, "err")
       \/ cs[p].peerReset > 0 /\ cs' = [cs EXCEPT ![p].push = "returned"]
    /\ UNCHANGED <<q, cc, rl, net>>
pushReturns(p) ==
    /\ cs[p].push \in {"run", "read"} /\ cs' = [cs EXCEPT ![p].push = "returned"]
    /\ UNCHANGED <<q, cc, rl, net>>
pushCancel(p) ==
    /\ cs[p].push = "returned"
    /\ \/ cs' = [cs EXCEPT ![p].push = IF cs[p].didReset THEN "forget" ELSE "end",
                           ![p].didReset = TRUE]
       \/ cs[p].done > 0 /\ cs' = [cs EXCEPT ![p].push = "end"]
    /\ UNCHANGED <<q, cc, rl, net>>
pushForget(p) ==
    /\ cs[p].push = "forget"
    /\ cs' = [removed(cs, p) EXCEPT ![p].push = "end"] /\ cc' = afterRemoval(p)
    /\ UNCHANGED <<q, rl, net>>

-----------------------------------------------------------------------------
(* The owner of the connection *)

(* Close, or closeForLostPing after a health check got no answer. *)
Close(why) ==
    /\ why \in {"close", "ping"} \cap cc.t.events /\ ~cc.closed
    /\ closeForError(why)
    /\ UNCHANGED <<q, rl, net>>

(* Shutdown sends GOAWAY; then a goroutine waits for the streams to end. *)
Shutdown ==
    /\ May("shutdown") /\ ~cc.closing /\ ~cc.closed /\ ~cc.werr
    /\ cc' = [cc EXCEPT !.closing = TRUE]
    /\ UNCHANGED <<q, cs, rl, net>>
shutdownWait ==
    /\ cc.closing /\ <<"shutdown", None>> \notin cc.parked /\ ~cc.closed
    /\ cc' = IF Open(cs) = {} THEN [cc EXCEPT !.closed = TRUE, !.cause = caused("shutdown")]
                              ELSE [cc EXCEPT !.parked = @ \cup {<<"shutdown", None>>}]
    /\ UNCHANGED <<q, cs, rl, net>>

(* The caller's context ends, a write to the network fails. *)
cancel(r) ==
    /\ r \in cc.t.cancel /\ ~q[r].ctx /\ q[r].at # "new" /\ q[r].out \in {None, "res"}
    /\ cc.t.inBody \/ ~cs[r].past
    /\ q' = [q EXCEPT ![r].ctx = TRUE]
    /\ UNCHANGED <<cs, cc, rl, net>>
writeFails ==
    /\ May("write") /\ ~cc.werr /\ cc' = [cc EXCEPT !.werr = TRUE]
    /\ UNCHANGED <<q, cs, rl, net>>

-----------------------------------------------------------------------------
(* The server answers the streams it has seen, none above the last one of  *)
(* its GOAWAY, in the order the protocol asks for unless "badserver".      *)
serverSends(f, sv, last) ==
    /\ Len(net.inq) < QMax /\ net.n < cc.t.frames
    /\ \A i \in DOMAIN net.inq : net.inq[i].t # "eof"
    /\ net' = [inq |-> Append(net.inq, f), n |-> net.n + 1, sv |-> sv, last |-> last]
    /\ UNCHANGED <<q, cs, cc, rl>>
onStream(f, s, to) == serverSends(f, [net.sv EXCEPT ![s] = to], net.last)

Answer(s, code, end) == [t |-> "headers", s |-> s, code |-> code, end |-> end]
serverStream(s) ==
    /\ net.sv[s] \in {"open", "body"} /\ IF s \in Pushes THEN TRUE ELSE cs[s].id <= net.last
    /\ \/ \E end \in BOOLEAN, code \in {"2xx"} \cup (IF s \in cc.t.body THEN {"3xx"} ELSE {}) :
            /\ net.sv[s] = "open" \/ May("badserver")
            /\ onStream(Answer(s, code, end), s, IF end THEN "end" ELSE "body")
       \/ net.sv[s] = "open" /\ May("1xx") /\ onStream(Answer(s, "1xx", FALSE), s, "open")
       \/ net.sv[s] = "open" /\ May("bad") /\ onStream(Answer(s, "bad", FALSE), s, "end")
       \/ \E full, end \in BOOLEAN :
            /\ full \/ end
            /\ net.sv[s] = "body" \/ May("badserver")
            /\ onStream([t |-> "data", s |-> s, full |-> full, end |-> end], s,
                        IF end THEN "end" ELSE net.sv[s])
       \/ net.sv[s] = "body" /\ May("trailers") /\ onStream(Answer(s, "trailers", TRUE), s, "end")
       \/ May("rst") /\ onStream([t |-> "rst", s |-> s], s, "end")
       \/ May("bad") /\ onStream([t |-> "bad", s |-> s], s, "end")
       \/ s \in cc.t.body /\ May("window") /\ onStream([t |-> "window", s |-> s], s, net.sv[s])
       \/ \E p \in Pushes : /\ May("push") /\ s \in Reqs /\ net.sv[p] = "none"
                            /\ onStream([t |-> "push", s |-> s, p |-> p], p, "open")
serverConn ==
    \/ \E last \in {0} \cup {cs[r].id : r \in Reqs} :
         /\ May("goaway") /\ net.last = NoID
         /\ serverSends([t |-> "goaway", last |-> last], net.sv, last)
    \/ \E m \in cc.t.maxes : serverSends([t |-> "settings", max |-> m], net.sv, net.last)
    \/ May("eof") /\ serverSends([t |-> "eof"], net.sv, net.last)

-----------------------------------------------------------------------------
RoundTripStep(r) ==
    \/ roundTripStart(r) \/ slotRefused(r) \/ slotWait(r) \/ startStream(r) \/ slotCancel(r)
    \/ roundTripResult(r) \/ roundTripCanceled(r, "canceled") \/ roundTripDrain(r)
    \/ roundTripPeerReset(r) \/ roundTripWrote(r) \/ roundTripForget(r) \/ roundTripReturn(r)
WriterStep(r) == bodyReadData(r) \/ bodyReadEnd(r) \/ awaitFlowControl(r)
CancelStep(r) == watchCancel(r) \/ watchForget(r) \/ watchClose(r)
CloseStep(s) == bodyReset(s) \/ bodyBreak(s) \/ bodyForget(s)
PushStep(p) == pushCancel(p) \/ pushForget(p)
ReadLoopStep ==
    \/ ignored \/ processHeaders \/ processBadHeaders \/ process1xx \/ deliver \/ deferredForget
    \/ processTrailers \/ processData \/ dataWrite \/ dataEnd \/ processResetStream \/ peerReset
    \/ streamError \/ processGoAway \/ processSettings \/ processWindowUpdate
    \/ processPushPromise \/ readLoopIdle \/ readError \/ cleanup

Next ==
    \/ \E r \in Reqs :
          \/ RoundTripStep(r) \/ encodeFails(r) \/ roundTripCanceled(r, "timeout")
          \/ WriterStep(r) \/ bodyTimer(r) \/ CancelStep(r) \/ cancel(r)
    \/ \E s \in Streams : \/ watchDone(s) \/ bodyRead(s) \/ bodyClose(s) \/ CloseStep(s)
                          \/ serverStream(s)
    \/ \E p \in Pushes : pushResult(p) \/ pushReturns(p) \/ PushStep(p)
    \/ ReadLoopStep \/ onIdleTimeout \/ Close("close") \/ Close("ping")
    \/ Shutdown \/ shutdownWait \/ writeFails \/ serverConn

Spec == Init /\ [][Next]_vars

(* The goroutines of the client go on when they can, and a body's Read     *)
(* returns.  Nobody has to cancel, to read or close a response body, to    *)
(* return from HandlePush, or to answer.                                   *)
Fairness ==
    /\ \A r \in Reqs : /\ WF_vars(RoundTripStep(r))
                       /\ WF_vars(WriterStep(r))
    /\ \A s \in Streams : WF_vars(CloseStep(s))
    /\ WF_vars(ReadLoopStep) /\ WF_vars(shutdownWait)

FairSpec == Spec /\ Fairness

-----------------------------------------------------------------------------
(* No channel is closed twice (Go panics): streamByID, processResetStream  *)
(* and cleanup never meet on the same stream's done or peerReset.          *)
ClosedOnce == \A s \in Streams : cs[s].done <= 1 /\ cs[s].peerReset <= 1

(* As long as no context ends, what the users do with their bodies does    *)
(* not end the connection of the others: it ends because of the network,   *)
(* the server or its owner ("return nil from process* funcs to keep conn   *)
(* alive").                                                                *)
Isolation == (\A r \in Reqs : ~q[r].ctx) => cc.cause # "pipe"

(* readLoop, which serves all streams, never waits for a roundTrip that    *)
(* will not take its result.                                               *)
ReadLoopFree ==
    rl.at = "deliver" /\ rl.f.s \in Reqs /\ cs[rl.f.s].resc # None => q[rl.f.s].at = "select"

(* A body that reads to EOF has lost none of the data the server sent. *)
NotTruncated == \A s \in Streams : cs[s].rd = "EOF" => ~cs[s].lost

(* No request waits for a slot on a connection that is closed, or that has *)
(* a slot for it.                                                          *)
SlotWoken == \A r \in Reqs : <<"slot", r>> \in cc.parked => ~cc.closed /\ ~slotFree

(* awaitRequestCancel: "If the request is canceled, then cs will be        *)
(* canceled and closed": the stream leaves the connection.                 *)
CanceledForgotten == \A s \in Streams : cs[s].watch = "canceled" => cc.closed \/ ~cs[s].in

(* A request body is closed once roundTrip has returned and its writer is  *)
(* not at work ("RoundTrip must always close the body, including on        *)
(* errors"), if the request was sent.                                      *)
BodyClosed ==
    \A r \in cc.t.body \ cc.t.expect :
        q[r].at = "done" /\ q[r].bw = "off" /\ cs[r].id > 0 => q[r].shut

(* What a stream has to close is closed, and once: its channels and the    *)
(* body of its request.                                                    *)
ClosedProperly == ClosedOnce /\ BodyClosed

(* A round trip whose context ends returns, whatever it waits for. *)
CanceledReturns == \A r \in Reqs : q[r].ctx ~> q[r].at = "done"

(* When the connection is closed, everything on it ends. *)
ClosedEnds ==
    cc.closed ~> /\ rl.at = "done"
                 /\ \A r \in Reqs : q[r].at \in {"new", "done"} /\ q[r].bw \in {"off", "armed"}

(* Nobody waits for ever: neither for a request that was canceled nor on a *)
(* connection that is closed.                                              *)
ClientReturns == CanceledReturns /\ ClosedEnds
=============================================================================
