---------------------------- MODULE ReverseProxy ----------------------------
(***************************************************************************)
(* httputil/reverseproxy.go: one request through ReverseProxy.ServeHTTP,   *)
(* with the goroutines it starts: the watcher of the client's connection,  *)
(* the delayed flush of maxLatencyWriter, and for a 101 response the       *)
(* closer of the backend's connection and the two copiers.  Body bytes are *)
(* counted; a header is the set of its keys, "Te" having the value         *)
(* "trailers" and "Te*" any other.                                         *)
(***************************************************************************)
EXTENDS Integers, FiniteSets

CONSTANTS MaxBody,   \* chunks of a backend's body
          Confs      \* [header, listed, xff, status, upgrade, latency, trailers, late, ops]

VARIABLE s

Here == s.m = "proxy"

Hop == {"Connection", "Proxy-Connection", "Keep-Alive", "Te", "Te*", "Trailer",
        "Transfer-Encoding", "Upgrade"}

upgradeType(h, listed) == "Upgrade" \in h /\ "Connection" \in h /\ "Upgrade" \in listed

(* removeConnectionHeaders: the keys the Connection field lists, if there  *)
(* is one.                                                                 *)
removeConnectionHeaders(h, listed) == IF "Connection" \in h THEN h \ listed ELSE h

removeHop(h) == h \ (Hop \ {"Te"})

\* fault: the Connection field is removed before it is read
stripHopFirst(h, listed) == removeConnectionHeaders(removeHop(h), listed)

strip(h, listed) == removeHop(removeConnectionHeaders(h, listed))

(* The header sent to the backend: stripped, the fields of an upgrade put  *)
(* back, and the client's address appended unless the Director said nil.   *)
outHeader(c) ==
    LET up == upgradeType(c.header, c.listed)
    IN  strip(c.header, c.listed) \cup (IF up THEN {"Connection", "Upgrade"} ELSE {})
        \cup (IF c.xff = "nil" THEN {} ELSE {"X-Forwarded-For"})

-----------------------------------------------------------------------------
Init ==
    \E c \in Confs :
      s = [m |-> "proxy", conf |-> c, pc |-> "start", out |-> {}, gone |-> FALSE,
           watcher |-> "none", ctx |-> FALSE, body |-> "none", left |-> 0,
           reply |-> "none", written |-> 0, flushed |-> 0, trailers |-> {},
           pending |-> FALSE, timer |-> "none", cb |-> 0, lateFlush |-> FALSE,
           closer |-> "none", user |-> "open", toB |-> "none", fromB |-> "none", errc |-> 0]

(* ServeHTTP up to the RoundTrip.                                          *)
Forward ==
    /\ Here /\ s.pc = "start"
    /\ s' = [s EXCEPT !.pc = "trip", !.watcher = "wait", !.out = outHeader(s.conf)]

(* The ErrorHandler replies, and ServeHTTP returns: its deferred cancel    *)
(* runs.                                                                   *)
Return(x) == [x EXCEPT !.pc = "done", !.ctx = TRUE]
ErrorReply(x) == Return([x EXCEPT !.reply = IF @ = "none" THEN "502" ELSE "twice"])

TripFails == Here /\ s.pc = "trip" /\ (s.ctx \/ "tripfails" \in s.conf.ops) /\ s' = ErrorReply(s)

(* The backend answers; ModifyResponse may refuse the response, which is   *)
(* then closed.                                                            *)
TripDone ==
    /\ Here /\ s.pc = "trip" /\ ~ s.ctx
    /\ \E n \in 0 .. MaxBody :
         LET a == [s EXCEPT !.body = "open", !.left = n]
         IN  \/ "refuse" \in s.conf.ops /\ s' = ErrorReply([a EXCEPT !.body = "closed"])
             \/ s' = [a EXCEPT !.pc = IF s.conf.status = 101 THEN "upgrade" ELSE "header"]

(* The response's header, with the announced trailers; copyResponse puts a *)
(* maxLatencyWriter in front of the client when there is an interval.      *)
CopyHeader ==
    /\ Here /\ s.pc = "header"
    /\ s' = [s EXCEPT !.reply = "copied", !.pc = "copy",
                      !.pending = s.conf.latency # 0,
                      !.timer = IF s.conf.latency # 0 THEN "armed" ELSE "none"]

(* copyBuffer: one read of the backend and maxLatencyWriter.Write, which   *)
(* flushes at once, finds a flush pending, or arms the timer.              *)
latencyWrite(x) ==
    LET w == [x EXCEPT !.written = @ + 1]
    IN  CASE x.conf.latency = 0 -> w
          [] x.conf.latency < 0 -> [w EXCEPT !.flushed = w.written]
          [] x.conf.latency > 0 -> IF x.pending THEN w
                                   ELSE [w EXCEPT !.pending = TRUE, !.timer = "armed"]

CopyBody ==
    /\ Here /\ s.pc = "copy" /\ s.left > 0 /\ ~ s.ctx /\ ~ s.gone
    /\ s' = latencyWrite([s EXCEPT !.left = @ - 1])

\* fault: only the timer is stopped
stopTimerOnly(x) == [x EXCEPT !.timer = "none"]

(* maxLatencyWriter.stop: a callback that has already started sees that    *)
(* nothing is pending.                                                     *)
stop(x) == [x EXCEPT !.timer = "none", !.pending = FALSE]

(* The copy fails - the backend breaks off, the client is gone, or the     *)
(* context is done: the body is closed and the handler aborts.             *)
CopyFails ==
    /\ Here /\ s.pc = "copy" /\ (s.ctx \/ s.gone \/ "break" \in s.conf.ops)
    /\ s' = Return([stop(s) EXCEPT !.body = "closed", !.reply = "aborted"])

(* The end of the body: it is closed to get the trailers, the response is  *)
(* flushed if there are any, and they are sent under their own names when  *)
(* they are the announced ones, with TrailerPrefix otherwise.              *)
CopyDone ==
    /\ Here /\ s.pc = "copy" /\ s.left = 0
    /\ LET a == [stop(s) EXCEPT !.body = "closed"]
           t == s.conf.trailers \cup s.conf.late
           f == IF t # {} THEN [a EXCEPT !.flushed = a.written] ELSE a
       IN  s' = Return([f EXCEPT !.trailers = IF Cardinality(t) = Cardinality(s.conf.trailers)
                                              THEN {<<"", k>> : k \in t} ELSE {<<"Trailer:", k>> : k \in t}])

(* The timer fires; its goroutine then takes the lock: delayedFlush.       *)
TimerFires == Here /\ s.timer = "armed" /\ s' = [s EXCEPT !.timer = "none", !.cb = @ + 1]

delayedFlush ==
    /\ Here /\ s.cb > 0
    /\ s' = IF s.pending THEN [s EXCEPT !.cb = @ - 1, !.pending = FALSE, !.flushed = s.written,
                                        !.lateFlush = @ \/ s.pc = "done"]
            ELSE [s EXCEPT !.cb = @ - 1]

-----------------------------------------------------------------------------
(* The client closes its connection; the watcher cancels the context.      *)
ClientGone == Here /\ ~ s.gone /\ "gone" \in s.conf.ops /\ s.pc # "done" /\ s' = [s EXCEPT !.gone = TRUE]

Watch ==
    /\ Here /\ s.watcher = "wait" /\ (s.gone \/ s.ctx)
    /\ s' = [s EXCEPT !.watcher = "ended", !.ctx = TRUE]

(* handleUpgradeResponse: the protocols must agree; then the closer starts *)
(* and the client's connection is taken over.  A failed Hijack, or a       *)
(* failed write of the response, returns and lets the closer run.          *)
UpgradeRefused ==
    /\ Here /\ s.pc = "upgrade" /\ s.conf.upgrade # upgradeType(s.out, {"Upgrade"})
    /\ s' = ErrorReply(s)

Hijack ==
    /\ Here /\ s.pc = "upgrade" /\ s.conf.upgrade = upgradeType(s.out, {"Upgrade"})
    /\ \/ "nohijack" \in s.conf.ops /\ s' = ErrorReply([s EXCEPT !.closer = "told"])
       \/ s' = [s EXCEPT !.pc = "switch", !.closer = "wait"]

\* fault: the channel of the copiers has no room for the second result
errcRoomNone == 0

errcRoom == 1

WriteSwitch ==
    /\ Here /\ s.pc = "switch"
    /\ s' = IF s.gone THEN Return([s EXCEPT !.closer = "told", !.user = "closed", !.reply = "aborted"])
            ELSE [s EXCEPT !.pc = "copiers", !.reply = "101", !.toB = "copy", !.fromB = "copy"]

(* A copier ends when the connection it reads is at its end or either is   *)
(* closed, and then hands in its result.                                   *)
copierEnds(k) ==
    \/ s.user = "closed" \/ s.body = "closed"
    \/ k = "toB" /\ s.gone
    \/ k = "fromB" /\ "eof" \in s.conf.ops
CopierEnds(k) == Here /\ s[k] = "copy" /\ copierEnds(k) /\ s' = [s EXCEPT ![k] = "send"]
CopierSends(k) == Here /\ s[k] = "send" /\ s.errc < errcRoom /\ s' = [s EXCEPT ![k] = "ended", !.errc = @ + 1]

(* The handler takes the first result, from the channel or from a copier   *)
(* that waits, and returns: its deferred calls close the client's          *)
(* connection and tell the closer.                                         *)
TakeResult ==
    /\ Here /\ s.pc = "copiers"
    /\ LET r == Return([s EXCEPT !.user = "closed", !.closer = "told"])
       IN  \/ s.errc > 0 /\ s' = [r EXCEPT !.errc = @ - 1]
           \/ \E k \in {"toB", "fromB"} : s.errc = 0 /\ s[k] = "send" /\ s' = [r EXCEPT ![k] = "ended"]

CloseBackend ==
    /\ Here /\ \/ s.closer = "told"
               \/ s.closer = "wait" /\ s.ctx
    /\ s' = [s EXCEPT !.closer = "ended", !.body = "closed"]

Finished == Here /\ s.pc = "done" /\ s.watcher = "ended" /\ s.cb = 0 /\ UNCHANGED s

Next ==
    /\ Here
    /\ \/ Forward \/ TripFails \/ TripDone \/ CopyHeader \/ CopyBody \/ CopyFails \/ CopyDone
       \/ TimerFires \/ delayedFlush \/ ClientGone \/ Watch \/ UpgradeRefused \/ Hijack
       \/ WriteSwitch \/ (\E k \in {"toB", "fromB"} : CopierEnds(k) \/ CopierSends(k))
       \/ TakeResult \/ CloseBackend \/ Finished

(* Goroutines run and timers fire; the backend may stay silent for ever,   *)
(* and the client need not go.                                             *)
Process(k) ==
    /\ Here
    /\ \/ k = 1 /\ (TimerFires \/ delayedFlush)
       \/ k = 2 /\ (Watch \/ CloseBackend \/ TakeResult \/ WriteSwitch \/ Hijack \/ UpgradeRefused)
       \/ k = 3 /\ (CopierEnds("toB") \/ CopierSends("toB"))
       \/ k = 4 /\ (CopierEnds("fromB") \/ CopierSends("fromB"))
Fair == \A k \in 1..4 : WF_s(Process(k))

-----------------------------------------------------------------------------
(* What the backend gets: no hop-by-hop field of the client, neither the   *)
(* known ones nor those its Connection field lists, but for the Connection *)
(* and Upgrade of an upgrade and "TE: trailers"; every other field.        *)
HopFree ==
    (Here /\ s.pc # "start") =>
      LET c  == s.conf
          up == upgradeType(c.header, c.listed)
          listed == IF "Connection" \in c.header THEN c.listed ELSE {}
      IN  s.out \ {"X-Forwarded-For"} =
            (c.header \ ((Hop \ {"Te"}) \cup listed)) \cup (IF up THEN {"Connection", "Upgrade"} ELSE {})

(* ServeHTTP leaves nothing behind: after its return no delayed flush      *)
(* touches the ResponseWriter, the response of the backend is closed (a    *)
(* 101 response: see BackendClosed), and the client got exactly one        *)
(* answer, with every trailer of the backend, promoted unless announced.   *)
NothingLeft ==
    Here =>
      /\ ~ s.lateFlush /\ s.reply # "twice"
      /\ s.pc = "done" =>
           /\ (s.body = "open" /\ s.conf.status # 101) => s.closer \in {"told", "wait"}
           /\ s.reply # "none"
           /\ (s.reply = "copied") =>
                s.trailers = {<<IF s.conf.late \subseteq s.conf.trailers THEN "" ELSE "Trailer:", k>> :
                                k \in s.conf.trailers \cup s.conf.late}

(* The same of a 101 response: it is closed, or the closer is there to do  *)
(* it.  A refused upgrade returns before the closer is started.            *)
BackendClosed == (Here /\ s.pc = "done" /\ s.body = "open") => s.closer \in {"told", "wait"}

(* What ServeHTTP promises the backend and the client.                     *)
ProxySound == HopFree /\ NothingLeft

(* What is written to the client is flushed within the interval, even when *)
(* the backend falls silent; and once either side of a switched connection *)
(* ends, both are closed and both copiers end.                             *)
Due(k) ==
    Here /\ \/ k = 1 /\ s.conf.latency # 0 /\ s.flushed < s.written
            \/ k = 2 /\ s.pc = "copiers" /\ (s.gone \/ "eof" \in s.conf.ops)
Met(k) ==
    Here /\ \/ k = 1 /\ (s.flushed = s.written \/ s.pc = "done")
            \/ k = 2 /\ s.pc = "done" /\ s.body = "closed" /\ s.user = "closed" /\ s.toB = "ended" /\ s.fromB = "ended"
ProxyMoves == \A k \in 1..2 : Due(k) ~> Met(k)
=============================================================================
