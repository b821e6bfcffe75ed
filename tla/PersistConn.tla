---------------------------- MODULE PersistConn ----------------------------
(***************************************************************************)
(* One HTTP/1 persistConn (src/transport.go): its readLoop and writeLoop,  *)
(* the persistConn.roundTrip calls that use it one after the other, the    *)
(* readers of the response bodies, and cancellation.                       *)
(*                                                                         *)
(* The idle pool is the flag avail (module TransportPool has the pool):    *)
(* it may refuse the connection, hand it to the next request, or close it. *)
(* The server answers every request it has seen once, possibly before it   *)
(* has read all of it, sends nothing else, and may hang up at any time.    *)
(* Channels of capacity one are variables that hold None or a value; an    *)
(* unbuffered send is a joint step of both ends.                           *)
(***************************************************************************)
EXTENDS Naturals, Sequences, FiniteSets

CONSTANTS
    Reqs,                   \* the round trips
    None,
    ReqBody,                \* those with a request body
    Expect,                 \* those that wait for 100 Continue before the body
    Interim,                \* those the server sends 1xx responses to
    Replayable,             \* isReplayable(), and the body can be rewound
    Signals,                \* what may fire: "cancel" (Request.Cancel), "ctx"
    Cancelable,             \* the requests for which it may
    EarlyCancelRequest,     \* CancelRequest is also called during RoundTrip
    ResponseHeaderTimeout,  \* whether there is one
    Max1xx                  \* max1xxResponses (5 in the code)

ASSUME ConnAssumption ==
    /\ None \notin Reqs
    /\ Expect \subseteq ReqBody /\ ReqBody \subseteq Reqs /\ Replayable \subseteq Reqs
    /\ Interim \subseteq Reqs /\ Cancelable \subseteq Reqs
    /\ Signals \subseteq {"cancel", "ctx"}
    /\ EarlyCancelRequest \in BOOLEAN /\ ResponseHeaderTimeout \in BOOLEAN
    /\ Max1xx \in Nat

VARIABLES
    rt,          \* where each roundTrip is
    sel,         \* the local variables of its select loop
    start,       \* its startBytesWritten
    outcome,     \* what it returned: "ok" or the kind of error
    resp,        \* the request whose response it returned
    canceler,    \* Transport.reqCanceler: "none", "conn" (getConn's), "pc"
    calls,       \* cancelRequest calls between the delete and cancel(err)
    sig,         \* the cancellations asked for
    canceledErr, \* persistConn.canceledErr is set
    closed,      \* persistConn.closed: None or the kind of error
    closedFor,   \* the request that was canceled or timed out to close it
    numExpectedResponses,
    avail,       \* the connection is idle in the pool
    reused,      \* persistConn.reused
    writech, reqch, writeErrCh,
    wrch,        \* writeRequest.ch of each request
    continueCh,  \* "none", "open", "sent" or "closed"
    rl,          \* readLoop and its local variables
    wl,          \* writeLoop and its local variables
    reqErr,      \* transportRequest.err is set
    sent,        \* requests of which the server has seen a byte
    full,        \* requests it has seen to the end
    nwrite,      \* persistConn.nwrite
    inq,         \* responses on their way to readLoop
    answered,    \* requests with a final response
    srvEOF,      \* the server has hung up
    body,        \* what the reader of each response body does
    bodyRead,    \* waitForBodyRead of each response
    eofcClosed   \* readLoop has closed eofc

rtVars == <<rt, sel, start, outcome, resp>>
cancelVars == <<canceler, calls, sig, canceledErr>>
connVars == <<closed, closedFor, numExpectedResponses>>
poolVars == <<avail, reused>>
chanVars == <<writech, reqch, writeErrCh, wrch, continueCh>>
wireVars == <<reqErr, sent, full, nwrite, inq, answered, srvEOF>>
bodyVars == <<body, bodyRead, eofcClosed>>
vars == <<rtVars, cancelVars, connVars, poolVars, chanVars, rl, wl, wireVars, bodyVars>>

Init ==
    /\ rt = [r \in Reqs |-> "new"]
    /\ sel = [r \in Reqs |-> [cancelChan |-> TRUE, ctx |-> TRUE, pcClosed |-> TRUE,
                              canceled |-> FALSE, timer |-> FALSE, err |-> None]]
    /\ start = [r \in Reqs |-> 0]
    /\ outcome = [r \in Reqs |-> None]
    /\ resp = [r \in Reqs |-> None]
    /\ canceler = [r \in Reqs |-> "none"]
    /\ calls = {}
    /\ sig = [r \in Reqs |-> {}]
    /\ canceledErr = FALSE
    /\ closed = None /\ closedFor = None
    /\ numExpectedResponses = 0
    /\ avail = TRUE     \* dialed for the first request
    /\ reused = FALSE
    /\ writech = None /\ reqch = None /\ writeErrCh = None
    /\ wrch = [r \in Reqs |-> None]
    /\ continueCh = [r \in Reqs |-> IF r \in Expect THEN "open" ELSE "none"]
    /\ rl = [at |-> "peek", rc |-> None, err |-> None, alive |-> TRUE, sawEOF |-> FALSE,
             hasBody |-> FALSE, switch |-> FALSE, resp |-> None, num1xx |-> 0,
             replaced |-> FALSE, bodyEOF |-> FALSE]
    /\ wl = [at |-> "select", r |-> None, err |-> None, start |-> 0]
    /\ reqErr = {} /\ sent = {} /\ full = {} /\ nwrite = 0
    /\ inq = <<>> /\ answered = {} /\ srvEOF = FALSE
    /\ body = [r \in Reqs |-> "none"]
    /\ bodyRead = [r \in Reqs |-> None]
    /\ eofcClosed = FALSE

-----------------------------------------------------------------------------
(* Definitions marked "Fault" are variants with a bug; the mutation runs   *)
(* put them in the place of the definition that follows.                   *)

(* persistConn.close(err), on behalf of r if that is not None. *)
close(err, r) ==
    /\ closed' = IF closed = None THEN err ELSE closed
    /\ closedFor' = IF closed = None THEN r ELSE closedFor

(* persistConn.cancelRequest, called for r.  (Fault: it closes nothing.)   *)
cancelLeavesOpen(r) == canceledErr' = TRUE /\ UNCHANGED <<closed, closedFor>>
cancelRequest(r) == canceledErr' = TRUE /\ close("canceled", r)

(* closeLocked leaves the net.Conn open when the caller owns it. *)
netClosed == closed \notin {None, "callerOwns"}
InUse(r) == rt[r] \notin {"new", "done"}

(* transport.replaceReqCanceler(key, nil).  (Fault: the canceler stays.)   *)
replaceKeeps(r) == UNCHANGED canceler
replaceReqCanceler(r) == canceler' = [canceler EXCEPT ![r] = "none"]

-----------------------------------------------------------------------------
(* The pool gives the connection to r.  getConn has registered r's first   *)
(* canceler.                                                               *)
getConn(r) ==
    /\ rt[r] = "new" /\ avail /\ closed = None
    /\ avail' = FALSE
    /\ rt' = [rt EXCEPT ![r] = "enter"]
    /\ canceler' = [canceler EXCEPT ![r] = "conn"]
    /\ UNCHANGED <<sel, start, outcome, resp, calls, sig, canceledErr, connVars, reused,
                   chanVars, rl, wl, wireVars, bodyVars>>

(* The pool closes the connection: idle timer, CloseIdleConnections, LRU. *)
poolClose ==
    /\ avail
    /\ avail' = FALSE
    /\ close("other", None)
    /\ UNCHANGED <<rtVars, cancelVars, numExpectedResponses, reused, chanVars, rl, wl,
                   wireVars, bodyVars>>

return(r, what) ==
    /\ rt' = [rt EXCEPT ![r] = "done"]
    /\ outcome' = [outcome EXCEPT ![r] = what]

(* roundTrip finds the request canceled, and putOrCloseIdleConn. *)
roundTripRefused(r) ==
    /\ rt[r] = "enter" /\ canceler[r] = "none"
    /\ return(r, "notStarted")
    /\ \/ closed = None /\ avail' = TRUE /\ reused' = TRUE /\ UNCHANGED <<closed, closedFor>>
       \/ close("other", None) /\ UNCHANGED poolVars
    /\ UNCHANGED <<sel, start, resp, cancelVars, numExpectedResponses, chanVars, rl, wl,
                   wireVars, bodyVars>>

roundTripEnter(r) ==
    /\ rt[r] = "enter" /\ canceler[r] # "none"
    /\ canceler' = [canceler EXCEPT ![r] = "pc"]
    /\ numExpectedResponses' = numExpectedResponses + 1
    /\ rt' = [rt EXCEPT ![r] = "writech"]
    /\ UNCHANGED <<sel, start, outcome, resp, calls, sig, canceledErr, closed, closedFor,
                   poolVars, chanVars, rl, wl, wireVars, bodyVars>>

roundTripWrite(r) ==
    /\ rt[r] = "writech" /\ writech = None
    /\ start' = [start EXCEPT ![r] = nwrite]
    /\ writech' = r
    /\ rt' = [rt EXCEPT ![r] = "reqch"]
    /\ UNCHANGED <<sel, outcome, resp, cancelVars, connVars, poolVars, reqch, writeErrCh,
                   wrch, continueCh, rl, wl, wireVars, bodyVars>>

roundTripSend(r) ==
    /\ rt[r] = "reqch" /\ reqch = None
    /\ reqch' = r
    /\ rt' = [rt EXCEPT ![r] = "select"]
    /\ UNCHANGED <<sel, start, outcome, resp, cancelVars, connVars, poolVars, writech,
                   writeErrCh, wrch, continueCh, rl, wl, wireVars, bodyVars>>

(* The select of roundTrip: <-writeErrCh, a success ... *)
roundTripWrote(r) ==
    /\ rt[r] = "select" /\ wrch[r] = "ok"
    /\ wrch' = [wrch EXCEPT ![r] = None]
    /\ sel' = [sel EXCEPT ![r].timer = ResponseHeaderTimeout]
    /\ UNCHANGED <<rt, start, outcome, resp, cancelVars, connVars, poolVars, writech, reqch,
                   writeErrCh, continueCh, rl, wl, wireVars, bodyVars>>

(* ... or an error. *)
roundTripWriteErr(r) ==
    /\ rt[r] = "select" /\ wrch[r] \notin {None, "ok"}
    /\ wrch' = [wrch EXCEPT ![r] = None]
    /\ close("other", None)
    /\ sel' = [sel EXCEPT ![r].err = wrch[r]]
    /\ rt' = [rt EXCEPT ![r] = "map"]
    /\ UNCHANGED <<start, outcome, resp, cancelVars, numExpectedResponses, poolVars, writech,
                   reqch, writeErrCh, continueCh, rl, wl, wireVars, bodyVars>>

(* <-pcClosed.  If the canceler is gone, readLoop has the response or a    *)
(* cancellation is on its way, and roundTrip waits on.  (Fault: it does    *)
(* not.)                                                                   *)
closedReturnsAlways(r) == TRUE
closedReturns(r) == sel[r].canceled \/ canceler[r] # "none"
roundTripClosed(r) ==
    /\ rt[r] = "select" /\ sel[r].pcClosed /\ closed # None
    /\ sel' = [sel EXCEPT ![r].pcClosed = FALSE,
                          ![r].err = IF closedReturns(r) THEN closed ELSE @]
    /\ rt' = [rt EXCEPT ![r] = IF closedReturns(r) THEN "map" ELSE @]
    /\ canceler' = [canceler EXCEPT ![r] = IF sel[r].canceled THEN @ ELSE "none"]
    /\ UNCHANGED <<start, outcome, resp, calls, sig, canceledErr, connVars, poolVars,
                   chanVars, rl, wl, wireVars, bodyVars>>

(* <-respHeaderTimer.  The deferred function drops the canceler. *)
roundTripTimeout(r) ==
    /\ rt[r] = "select" /\ sel[r].timer
    /\ close("timeout", r)
    /\ return(r, "timeout")
    /\ canceler' = [canceler EXCEPT ![r] = "none"]
    /\ UNCHANGED <<sel, start, resp, calls, sig, canceledErr, numExpectedResponses, poolVars,
                   chanVars, rl, wl, wireVars, bodyVars>>

(* <-cancelChan and <-ctxDoneChan: transport.cancelRequest; what it finds  *)
(* in reqCanceler it calls in the next step.                               *)
roundTripCanceled(r, s) ==
    /\ rt[r] = "select" /\ s \in sig[r]
    /\ IF s = "ctx" THEN sel[r].ctx ELSE sel[r].cancelChan
    /\ sel' = [sel EXCEPT ![r].cancelChan = FALSE,
                          ![r].ctx = IF s = "ctx" THEN FALSE ELSE @,
                          ![r].canceled = canceler[r] # "none"]
    /\ rt' = [rt EXCEPT ![r] = IF canceler[r] # "none" THEN "cancel" ELSE @]
    /\ canceler' = [canceler EXCEPT ![r] = "none"]
    /\ UNCHANGED <<start, outcome, resp, calls, sig, canceledErr, connVars, poolVars,
                   chanVars, rl, wl, wireVars, bodyVars>>

roundTripCancel(r) ==
    /\ rt[r] = "cancel"
    /\ cancelRequest(r)
    /\ rt' = [rt EXCEPT ![r] = "select"]
    /\ UNCHANGED <<sel, start, outcome, resp, canceler, calls, sig, numExpectedResponses,
                   poolVars, chanVars, rl, wl, wireVars, bodyVars>>

(* mapRoundTripError, which waits for writeLoop to end.  (Fault: it does   *)
(* not.)                                                                   *)
mapNoWait(r) == TRUE
mapReady(r) == wl.at = "done"
mapped(r) ==
    LET err == sel[r].err
    IN  IF canceledErr THEN "canceled"
        ELSE IF r \in reqErr THEN "bodyErr"
        ELSE IF err \in {"srvClosedIdle", "readErr"} THEN err
        ELSE IF closed # None
             THEN (IF nwrite = start[r] THEN "nothing" ELSE "broken")
        ELSE err
mapRoundTripError(r) ==
    /\ rt[r] = "map" /\ mapReady(r)
    /\ return(r, mapped(r))
    /\ canceler' = [canceler EXCEPT ![r] = "none"]
    /\ UNCHANGED <<sel, start, resp, calls, sig, canceledErr, connVars, poolVars, chanVars,
                   rl, wl, wireVars, bodyVars>>

(* persistConn.shouldRetryRequest on what r returned. *)
shouldRetryRequest(r) ==
    /\ reused
    /\ \/ outcome[r] = "nothing" /\ (r \in ReqBody => r \in Replayable)
       \/ outcome[r] \in {"readErr", "srvClosedIdle"} /\ r \in Replayable

-----------------------------------------------------------------------------
(* CancelRequest is called from outside, as its comment asks after         *)
(* RoundTrip has returned; and Request.Cancel or the context fires.        *)
CancelRequest(r) ==
    /\ rt[r] = "done" \/ (EarlyCancelRequest /\ rt[r] # "new")
    /\ canceler[r] # "none"
    /\ sig' = [sig EXCEPT ![r] = @ \cup {"call"}]
    /\ calls' = IF canceler[r] = "pc" THEN calls \cup {r} ELSE calls
    /\ canceler' = [canceler EXCEPT ![r] = "none"]
    /\ UNCHANGED <<rtVars, canceledErr, connVars, poolVars, chanVars, rl, wl, wireVars,
                   bodyVars>>

CancelRequestCall(r) ==
    /\ r \in calls
    /\ calls' = calls \ {r}
    /\ cancelRequest(r)
    /\ UNCHANGED <<rtVars, canceler, sig, numExpectedResponses, poolVars, chanVars, rl, wl,
                   wireVars, bodyVars>>

fire(r, s) ==
    /\ r \in Cancelable /\ rt[r] # "new" /\ s \notin sig[r]
    /\ sig' = [sig EXCEPT ![r] = @ \cup {s}]
    /\ UNCHANGED <<rtVars, canceler, calls, canceledErr, connVars, poolVars, chanVars, rl,
                   wl, wireVars, bodyVars>>

-----------------------------------------------------------------------------
(* writeLoop. *)
writeLoopTake ==
    /\ wl.at = "select" /\ writech # None
    /\ wl' = [at |-> "write", r |-> writech, err |-> None, start |-> nwrite]
    /\ writech' = None
    /\ UNCHANGED <<rtVars, cancelVars, connVars, poolVars, reqch, writeErrCh, wrch,
                   continueCh, rl, wireVars, bodyVars>>

writeLoopExit ==
    /\ wl.at = "select" /\ closed # None
    /\ wl' = [wl EXCEPT !.at = "done"]
    /\ UNCHANGED <<rtVars, cancelVars, connVars, poolVars, chanVars, rl, wireVars, bodyVars>>

(* Request.write: the header reaches the server, and persistConnWriter     *)
(* counts it.                                                              *)
writeHeader ==
    /\ wl.at = "write" /\ ~netClosed
    /\ sent' = sent \cup {wl.r}
    /\ wl' = [wl EXCEPT !.at = "count"]
    /\ UNCHANGED <<rtVars, cancelVars, connVars, poolVars, chanVars, rl, reqErr, full, nwrite,
                   inq, answered, srvEOF, bodyVars>>

writeCount ==
    /\ wl.at = "count"
    /\ nwrite' = nwrite + 1
    /\ wl' = [wl EXCEPT !.at = IF wl.r \in Expect THEN "continue" ELSE "body"]
    /\ UNCHANGED <<rtVars, cancelVars, connVars, poolVars, chanVars, rl, reqErr, sent, full,
                   inq, answered, srvEOF, bodyVars>>

(* waitForContinue: a 100 or the timer send the body, a final response or  *)
(* a closed connection skip it.                                            *)
waitForContinue ==
    /\ wl.at = "continue"
    /\ \/ wl' = [wl EXCEPT !.at = "body"]     \* also <-timer.C
       \/ /\ continueCh[wl.r] = "closed" \/ closed # None
          /\ wl' = [wl EXCEPT !.at = "errch", !.err = "ok"]
    /\ UNCHANGED <<rtVars, cancelVars, connVars, poolVars, chanVars, rl, wireVars, bodyVars>>

(* The body and the final Flush. *)
writeBody ==
    /\ wl.at = "body" /\ ~netClosed
    /\ full' = full \cup {wl.r}
    /\ wl' = [wl EXCEPT !.at = "errch", !.err = "ok"]
    /\ UNCHANGED <<rtVars, cancelVars, connVars, poolVars, chanVars, rl, reqErr, sent, nwrite,
                   inq, answered, srvEOF, bodyVars>>

WriteErr == IF nwrite = wl.start THEN "nothing" ELSE "write"

(* The connection breaks, or the request body cannot be read. *)
writeFail ==
    /\ wl.at \in {"write", "body"} /\ (netClosed \/ srvEOF)
    /\ wl' = [wl EXCEPT !.at = "errch", !.err = WriteErr]
    /\ UNCHANGED <<rtVars, cancelVars, connVars, poolVars, chanVars, rl, wireVars, bodyVars>>

writeBodyReadError ==
    /\ wl.at = "body" /\ wl.r \in ReqBody
    /\ reqErr' = reqErr \cup {wl.r}
    /\ wl' = [wl EXCEPT !.at = "errch", !.err = WriteErr]
    /\ UNCHANGED <<rtVars, cancelVars, connVars, poolVars, chanVars, rl, sent, full, nwrite,
                   inq, answered, srvEOF, bodyVars>>

(* To the body reader, which might recycle the connection, and to          *)
(* roundTrip.                                                              *)
writeLoopErrCh ==
    /\ wl.at = "errch" /\ writeErrCh = None
    /\ writeErrCh' = wl.err
    /\ wl' = [wl EXCEPT !.at = "resch"]
    /\ UNCHANGED <<rtVars, cancelVars, connVars, poolVars, writech, reqch, wrch, continueCh,
                   rl, wireVars, bodyVars>>

writeLoopResult ==
    /\ wl.at = "resch"
    /\ wrch' = [wrch EXCEPT ![wl.r] = wl.err]
    /\ wl' = [wl EXCEPT !.at = IF wl.err = "ok" THEN "select" ELSE "close"]
    /\ UNCHANGED <<rtVars, cancelVars, connVars, poolVars, writech, reqch, writeErrCh,
                   continueCh, rl, wireVars, bodyVars>>

writeLoopClose ==
    /\ wl.at = "close"
    /\ close(wl.err, None)
    /\ wl' = [wl EXCEPT !.at = "done"]
    /\ UNCHANGED <<rtVars, cancelVars, numExpectedResponses, poolVars, chanVars, rl, wireVars,
                   bodyVars>>

-----------------------------------------------------------------------------
(* readLoop: Peek(1) at the top of the loop, then pc.mu. *)
readLoopPeek ==
    /\ rl.at = "peek"
    /\ \/ inq # <<>> /\ ~netClosed /\ rl' = [rl EXCEPT !.at = "check", !.err = None]
       \/ inq = <<>> /\ srvEOF /\ rl' = [rl EXCEPT !.at = "check", !.err = "EOF", !.sawEOF = TRUE]
       \/ netClosed /\ rl' = [rl EXCEPT !.at = "check", !.err = "other"]
    /\ UNCHANGED <<rtVars, cancelVars, connVars, poolVars, chanVars, wl, wireVars, bodyVars>>

(* Nothing is expected: readLoopPeekFailLocked. *)
readLoopPeekFail ==
    /\ rl.at = "check" /\ numExpectedResponses = 0
    /\ close(IF rl.err = "EOF" THEN "srvClosedIdle" ELSE "other", None)
    /\ rl' = [rl EXCEPT !.at = "exit"]
    /\ UNCHANGED <<rtVars, cancelVars, numExpectedResponses, poolVars, chanVars, wl, wireVars,
                   bodyVars>>

(* A response is expected.  (Fault: it is read before the request has come *)
(* over reqch.)                                                            *)
expectedAtOnce ==
    /\ rl.at = "check" /\ numExpectedResponses # 0
    /\ rl' = [rl EXCEPT !.at = IF rl.err = None THEN "read" ELSE "fail"]
    /\ UNCHANGED <<rtVars, cancelVars, connVars, poolVars, chanVars, wl, wireVars, bodyVars>>
readLoopExpected ==
    /\ rl.at = "check" /\ numExpectedResponses # 0
    /\ rl' = [rl EXCEPT !.at = "reqch"]
    /\ UNCHANGED <<rtVars, cancelVars, connVars, poolVars, chanVars, wl, wireVars, bodyVars>>

(* rc := <-pc.reqch. *)
readLoopRequest ==
    /\ rl.at = "reqch" /\ reqch # None
    /\ reqch' = None
    /\ rl' = [rl EXCEPT !.at = IF rl.err = None THEN "read" ELSE "fail", !.rc = reqch,
                        !.err = IF @ = None THEN None ELSE "readErr", !.num1xx = 0]
    /\ UNCHANGED <<rtVars, cancelVars, connVars, poolVars, writech, writeErrCh, wrch,
                   continueCh, wl, wireVars, bodyVars>>

(* readResponse, an informational response: too many are an error.         *)
(* (Fault: it is taken for the final one.)                                 *)
is1xxNever(code) == FALSE
is1xxNonTerminal(code) == code = 100
readResponse1xx ==
    /\ rl.at = "read" /\ ~netClosed
    /\ inq # <<>> /\ is1xxNonTerminal(Head(inq).code)
    /\ inq' = Tail(inq)
    /\ continueCh' = [continueCh EXCEPT ![rl.rc] = IF @ = "open" THEN "sent" ELSE @]
    /\ rl' = IF rl.num1xx < Max1xx THEN [rl EXCEPT !.num1xx = @ + 1]
             ELSE [rl EXCEPT !.at = "fail", !.err = "other"]
    /\ UNCHANGED <<rtVars, cancelVars, connVars, poolVars, writech, reqch, writeErrCh, wrch,
                   wl, reqErr, sent, full, nwrite, answered, srvEOF, bodyVars>>

(* readResponse, the final one: whether it allows keep-alive, has a body,  *)
(* or switches protocols; the bytes may end with the stream.               *)
readResponse(keep, hasBody, switch, eof) ==
    /\ rl.at = "read" /\ ~netClosed
    /\ inq # <<>> /\ ~is1xxNonTerminal(Head(inq).code)
    /\ eof => srvEOF
    /\ switch => ~hasBody /\ ~keep
    /\ inq' = Tail(inq)
    /\ continueCh' = [continueCh EXCEPT ![rl.rc] = IF @ = "open" /\ ~switch THEN "closed" ELSE @]
    /\ numExpectedResponses' = numExpectedResponses - 1
    /\ rl' = [rl EXCEPT !.at = IF hasBody THEN "deliver" ELSE "replace", !.alive = keep,
                        !.sawEOF = @ \/ eof, !.hasBody = hasBody, !.switch = switch,
                        !.resp = Head(inq).r, !.bodyEOF = FALSE]
    /\ UNCHANGED <<rtVars, cancelVars, closed, closedFor, poolVars, writech, reqch,
                   writeErrCh, wrch, wl, reqErr, sent, full, nwrite, answered, srvEOF,
                   bodyVars>>

readResponseErr ==
    /\ rl.at = "read"
    /\ netClosed \/ (srvEOF /\ inq = <<>>)
    /\ rl' = [rl EXCEPT !.at = "fail", !.err = "other"]
    /\ UNCHANGED <<rtVars, cancelVars, connVars, poolVars, chanVars, wl, wireVars, bodyVars>>

(* rc.ch <- responseAndError{err: err}, or <-rc.callerGone. *)
readLoopFail ==
    /\ rl.at = "fail"
    /\ rt[rl.rc] \in {"select", "done"}
    /\ IF rt[rl.rc] = "select"
       THEN /\ rt' = [rt EXCEPT ![rl.rc] = "map"]
            /\ sel' = [sel EXCEPT ![rl.rc].err = rl.err]
       ELSE UNCHANGED <<rt, sel>>
    /\ rl' = [rl EXCEPT !.at = "exit"]
    /\ UNCHANGED <<start, outcome, resp, cancelVars, connVars, poolVars, chanVars, wl,
                   wireVars, bodyVars>>

(* Where readLoop goes when it knows whether the connection lives on. *)
Loop(alive) == IF alive THEN "peek" ELSE "exit"
Settled(alive) ==
    [rl EXCEPT !.alive = alive,
               !.at = IF ~rl.hasBody THEN "deliver"
                      ELSE IF rl.bodyEOF THEN "eofc" ELSE Loop(alive)]

(* replaceReqCanceler(rc.cancelKey, nil), and the cheap conditions. *)
readLoopReplace ==
    /\ rl.at = "replace"
    /\ replaceReqCanceler(rl.rc)
    /\ rl' = IF rl.alive /\ (rl.hasBody => rl.bodyEOF) /\ ~rl.sawEOF
             THEN [rl EXCEPT !.at = "wrote", !.replaced = canceler[rl.rc] # "none"]
             ELSE Settled(FALSE)
    /\ UNCHANGED <<rtVars, calls, sig, canceledErr, connVars, poolVars, chanVars, wl, wireVars,
                   bodyVars>>

(* wroteRequest: the result of the write, or a timeout.  (Fault: a write   *)
(* that has not finished counts.)                                          *)
wroteUnfinished(res) == res \in {None, "ok"}
wroteOk(res) == res = "ok"
wroteRequest ==
    /\ rl.at = "wrote"
    /\ writeErrCh' = None
    /\ rl' = IF wroteOk(writeErrCh) /\ rl.replaced THEN [rl EXCEPT !.at = "put"]
             ELSE Settled(FALSE)
    /\ UNCHANGED <<rtVars, cancelVars, connVars, poolVars, writech, reqch, wrch, continueCh,
                   wl, wireVars, bodyVars>>

(* tryPutIdleConn: the pool may refuse, and refuses a broken connection. *)
readLoopPut ==
    /\ rl.at = "put"
    /\ \/ /\ closed = None
          /\ avail' = TRUE /\ reused' = TRUE
          /\ rl' = Settled(TRUE)
       \/ rl' = Settled(FALSE) /\ UNCHANGED poolVars
    /\ UNCHANGED <<rtVars, cancelVars, connVars, chanVars, wl, wireVars, bodyVars>>

(* rc.ch <- responseAndError{res: resp}, or <-rc.callerGone. *)
readLoopDeliver ==
    /\ rl.at = "deliver" /\ rt[rl.rc] = "select"
    /\ return(rl.rc, "ok")
    /\ resp' = [resp EXCEPT ![rl.rc] = rl.resp]
    /\ body' = [body EXCEPT ![rl.rc] = IF rl.hasBody THEN "open" ELSE @]
    /\ rl' = [rl EXCEPT !.at = IF rl.hasBody THEN "wait" ELSE Loop(rl.alive)]
    /\ UNCHANGED <<sel, start, cancelVars, connVars, poolVars, chanVars, wl, wireVars,
                   bodyRead, eofcClosed>>

readLoopCallerGone ==
    /\ rl.at = "deliver" /\ rt[rl.rc] = "done"
    /\ rl' = [rl EXCEPT !.at = "exit"]
    /\ UNCHANGED <<rtVars, cancelVars, connVars, poolVars, chanVars, wl, wireVars, bodyVars>>

(* The select that waits for the body to be read: the end of the body ...  *)
readLoopBodyRead ==
    /\ rl.at = "wait" /\ bodyRead[rl.rc] # None
    /\ rl' = [rl EXCEPT !.at = "replace", !.bodyEOF = bodyRead[rl.rc] = "EOF"]
    /\ UNCHANGED <<rtVars, cancelVars, connVars, poolVars, chanVars, wl, wireVars, bodyVars>>

(* ... or a cancellation.  For Request.Cancel it calls CancelRequest with  *)
(* the request of the attempt, which is not the key of reqCanceler when    *)
(* setupRewindBody has copied the request ...                              *)
readLoopCanceled(s) ==
    /\ rl.at = "wait" /\ s \in sig[rl.rc]
    /\ LET found == canceler[rl.rc] # "none" /\ (s = "cancel" => rl.rc \notin ReqBody)
       IN /\ canceler' = [canceler EXCEPT ![rl.rc] = IF found THEN "none" ELSE @]
          /\ rl' = [rl EXCEPT !.at = IF found THEN "cancel" ELSE "exit"]
    /\ UNCHANGED <<rtVars, calls, sig, canceledErr, connVars, poolVars, chanVars, wl, wireVars,
                   bodyVars>>

readLoopCancel ==
    /\ rl.at = "cancel"
    /\ cancelRequest(rl.rc)
    /\ rl' = [rl EXCEPT !.at = "exit"]
    /\ UNCHANGED <<rtVars, canceler, calls, sig, numExpectedResponses, poolVars, chanVars, wl,
                   wireVars, bodyVars>>

(* ... or the end of the connection.  (Fault: it is not waited for.)       *)
bodyIgnoresClose == FALSE
bodySeesClose == closed # None
readLoopClosed ==
    /\ rl.at = "wait" /\ bodySeesClose
    /\ rl' = [rl EXCEPT !.at = "exit"]
    /\ UNCHANGED <<rtVars, cancelVars, connVars, poolVars, chanVars, wl, wireVars, bodyVars>>

(* eofc <- struct{}{}: the reader of the body may return. *)
readLoopEOF ==
    /\ rl.at = "eofc" /\ body[rl.rc] = "EOF"
    /\ body' = [body EXCEPT ![rl.rc] = "done"]
    /\ rl' = [rl EXCEPT !.at = Loop(rl.alive)]
    /\ UNCHANGED <<rtVars, cancelVars, connVars, poolVars, chanVars, wl, wireVars, bodyRead,
                   eofcClosed>>

(* The deferred functions: close(eofc), then pc.close, then                *)
(* removeIdleConn.  (Fault: eofc is not closed.)                           *)
exitKeepsEofc ==
    /\ rl.at = "exit"
    /\ rl' = [rl EXCEPT !.at = "close"]
    /\ UNCHANGED <<rtVars, cancelVars, connVars, poolVars, chanVars, wl, wireVars, bodyVars>>
readLoopExit ==
    /\ rl.at = "exit"
    /\ eofcClosed' = TRUE
    /\ rl' = [rl EXCEPT !.at = "close"]
    /\ UNCHANGED <<rtVars, cancelVars, connVars, poolVars, chanVars, wl, wireVars, body,
                   bodyRead>>

readLoopClose ==
    /\ rl.at = "close"
    /\ close(IF rl.switch THEN "callerOwns" ELSE "other", None)
    /\ rl' = [rl EXCEPT !.at = "remove"]
    /\ UNCHANGED <<rtVars, cancelVars, numExpectedResponses, poolVars, chanVars, wl, wireVars,
                   bodyVars>>

readLoopRemove ==
    /\ rl.at = "remove"
    /\ avail' = FALSE
    /\ rl' = [rl EXCEPT !.at = "done"]
    /\ UNCHANGED <<rtVars, cancelVars, connVars, reused, chanVars, wl, wireVars, bodyVars>>

-----------------------------------------------------------------------------
(* bodyEOFSignal, as the caller uses it: Read returns EOF, an error of the *)
(* connection, or Close is called before EOF.                              *)
bodyReadEOF(r) ==
    /\ body[r] = "open"
    /\ bodyRead' = [bodyRead EXCEPT ![r] = "EOF"]
    /\ body' = [body EXCEPT ![r] = "EOF"]
    /\ UNCHANGED <<rtVars, cancelVars, connVars, poolVars, chanVars, rl, wl, wireVars,
                   eofcClosed>>

bodyReadErr(r) ==
    /\ body[r] = "open" /\ (netClosed \/ srvEOF)
    /\ bodyRead' = [bodyRead EXCEPT ![r] = "err"]
    /\ body' = [body EXCEPT ![r] = "failed"]
    /\ UNCHANGED <<rtVars, cancelVars, connVars, poolVars, chanVars, rl, wl, wireVars,
                   eofcClosed>>

bodyClose(r) ==
    /\ body[r] \in {"open", "failed"}
    /\ bodyRead' = [bodyRead EXCEPT ![r] = "err"]
    /\ body' = [body EXCEPT ![r] = "early"]
    /\ UNCHANGED <<rtVars, cancelVars, connVars, poolVars, chanVars, rl, wl, wireVars,
                   eofcClosed>>

(* <-eofc after readLoop has closed it. *)
bodyReturns(r) ==
    /\ body[r] \in {"EOF", "early"} /\ eofcClosed
    /\ body' = [body EXCEPT ![r] = "done"]
    /\ UNCHANGED <<rtVars, cancelVars, connVars, poolVars, chanVars, rl, wl, wireVars,
                   bodyRead, eofcClosed>>

-----------------------------------------------------------------------------
(* The server. *)
serverContinue(r) ==
    /\ r \in (sent \cap Interim) \ answered /\ ~srvEOF
    /\ Len(inq) <= Max1xx
    /\ inq' = Append(inq, [r |-> r, code |-> 100])
    /\ UNCHANGED <<rtVars, cancelVars, connVars, poolVars, chanVars, rl, wl, reqErr, sent, full,
                   nwrite, answered, srvEOF, bodyVars>>

serverAnswer(r) ==
    /\ r \in sent \ answered /\ ~srvEOF
    /\ inq' = Append(inq, [r |-> r, code |-> 200])
    /\ answered' = answered \cup {r}
    /\ UNCHANGED <<rtVars, cancelVars, connVars, poolVars, chanVars, rl, wl, reqErr, sent, full,
                   nwrite, srvEOF, bodyVars>>

serverHangsUp ==
    /\ ~srvEOF
    /\ srvEOF' = TRUE
    /\ UNCHANGED <<rtVars, cancelVars, connVars, poolVars, chanVars, rl, wl, reqErr, sent, full,
                   nwrite, inq, answered, bodyVars>>

-----------------------------------------------------------------------------
RoundTripStep(r) ==
    \/ roundTripRefused(r) \/ roundTripEnter(r) \/ roundTripWrite(r) \/ roundTripSend(r)
    \/ roundTripWrote(r) \/ roundTripWriteErr(r) \/ roundTripClosed(r)
    \/ (\E s \in Signals : roundTripCanceled(r, s))
    \/ roundTripCancel(r) \/ mapRoundTripError(r)

ReadLoopStep ==
    \/ readLoopPeek \/ readLoopPeekFail \/ readLoopExpected \/ readLoopRequest
    \/ readResponse1xx \/ readResponseErr
    \/ (\E keep, hasBody, switch, eof \in BOOLEAN : readResponse(keep, hasBody, switch, eof))
    \/ readLoopFail \/ readLoopReplace \/ wroteRequest \/ readLoopPut \/ readLoopDeliver
    \/ readLoopCallerGone \/ readLoopBodyRead \/ (\E s \in Signals : readLoopCanceled(s))
    \/ readLoopCancel \/ readLoopClosed \/ readLoopEOF
    \/ readLoopExit \/ readLoopClose \/ readLoopRemove

WriteLoopStep ==
    \/ writeLoopTake \/ writeLoopExit \/ writeCount \/ waitForContinue \/ writeFail
    \/ writeLoopErrCh \/ writeLoopResult \/ writeLoopClose

Next ==
    \/ \E r \in Reqs :
          \/ getConn(r) \/ RoundTripStep(r) \/ roundTripTimeout(r)
          \/ CancelRequest(r) \/ CancelRequestCall(r) \/ (\E s \in Signals : fire(r, s))
          \/ bodyReadEOF(r) \/ bodyReadErr(r) \/ bodyClose(r) \/ bodyReturns(r)
          \/ serverContinue(r) \/ serverAnswer(r)
    \/ ReadLoopStep
    \/ WriteLoopStep \/ writeHeader \/ writeBody \/ writeBodyReadError
    \/ poolClose \/ serverHangsUp

Spec == Init /\ [][Next]_vars

(* The goroutines of the code go on whenever they can.  A write that the   *)
(* peer does not take may block until the connection is closed, the server *)
(* need not answer, nobody has to read or close a body.                    *)
Fairness ==
    /\ \A r \in Reqs : /\ WF_vars(RoundTripStep(r)) /\ WF_vars(CancelRequestCall(r))
                       /\ WF_vars(bodyReturns(r))
    /\ WF_vars(ReadLoopStep)
    /\ WF_vars(WriteLoopStep)

FairSpec == Spec /\ Fairness

-----------------------------------------------------------------------------
ErrKinds == {"srvClosedIdle", "readErr", "nothing", "write", "other", "timeout", "canceled",
             "callerOwns"}

TypeOK ==
    /\ rt \in [Reqs -> {"new", "enter", "writech", "reqch", "select", "cancel", "map", "done"}]
    /\ outcome \in [Reqs -> {None, "ok", "notStarted", "bodyErr", "broken"} \cup ErrKinds]
    /\ resp \in [Reqs -> Reqs \cup {None}]
    /\ canceler \in [Reqs -> {"none", "conn", "pc"}]
    /\ closed \in {None} \cup ErrKinds /\ closedFor \in Reqs \cup {None}
    /\ numExpectedResponses \in 0..Cardinality(Reqs)
    /\ writech \in Reqs \cup {None} /\ reqch \in Reqs \cup {None}
    /\ rl.at \in {"peek", "check", "reqch", "read", "fail", "replace", "wrote", "put",
                  "deliver", "wait", "cancel", "eofc", "exit", "close", "remove", "done"}
    /\ rl.at \notin {"peek", "check", "reqch", "exit", "close", "remove", "done"} => rl.rc \in Reqs
    /\ wl.at \in {"select", "write", "count", "continue", "body", "errch", "resch", "close",
                  "done"}
    /\ nwrite \in 0..Cardinality(Reqs)

(* A request that is canceled closes the connection only while no other    *)
(* request depends on it: the canceler is dropped before the connection    *)
(* can return to the pool.                                                 *)
OwnClose ==
    [][closedFor' # closedFor /\ closed' # "timeout" =>
         \A s \in Reqs \ {closedFor'} : InUse(s) => rl.rc = s /\ rl.at = "deliver"]_vars

(* A response that readLoop still has in its hands when the connection is  *)
(* already somebody else's is not lost: its roundTrip waits for it even if *)
(* the connection is closed meanwhile, unless the time for it is over.     *)
ResponseKept ==
    rl.at = "deliver" /\ rl.alive /\ ~rl.hasBody =>
      rt[rl.rc] \notin {"map", "done"} \/ outcome[rl.rc] = "timeout"

(* No request is told that it was canceled when another one was. *)
OnlyOwnCancel == \A r \in Reqs : outcome[r] = "canceled" => sig[r] # {}

(* A cancellation reaches the request it is meant for and no other, in     *)
(* what roundTrip returns and in what becomes of the connection.           *)
CancelOwn == OwnClose /\ []OnlyOwnCancel

(* The response roundTrip returns answers its own request. *)
ResponseOwn == \A r \in Reqs : outcome[r] = "ok" => resp[r] = r

(* Every roundTrip gets its own response, and gets it if it came. *)
ResponseRight == ResponseOwn /\ ResponseKept

(* While the connection is offered to the next request, nothing of the     *)
(* earlier ones is left on it: no write in progress or waiting, no result  *)
(* of a write, no response expected or unread, no body being read.         *)
CleanReuse ==
    avail /\ closed = None =>
      /\ writech = None /\ reqch = None /\ writeErrCh = None
      /\ wl.at \in {"select", "resch"}
      /\ numExpectedResponses = 0 /\ inq = <<>>
      /\ \A r \in Reqs : body[r] \notin {"open", "failed", "early"}

(* A connection returns to the pool only when the server has been sent all *)
(* of the requests rs ("a check before recycling a connection that the     *)
(* previous write (from writeLoop above) happened and was successful").    *)
SentInFull(rs) == avail /\ closed = None => sent \cap rs \subseteq full

(* A connection is offered to the next request only when nothing of the    *)
(* earlier ones is left on it and all of them was sent, but for a body     *)
(* whose final response came instead of 100 Continue.                      *)
ReuseSafe == CleanReuse /\ SentInFull({r \in Reqs : continueCh[r] # "closed"})

(* Once roundTrip has returned an error, writeLoop neither reads nor will  *)
(* read that request ("to avoid data races on callers who mutate the       *)
(* request on failure").                                                   *)
WriterGone ==
    \A r \in Reqs : rt[r] = "done" /\ outcome[r] # "ok" =>
      /\ wl.r = r => wl.at \notin {"write", "count", "continue", "body"}
      /\ writech = r => wl.at = "done"

(* Only a request that can be replayed, or of which the server has seen    *)
(* nothing, is sent again.                                                 *)
RetrySafe ==
    \A r \in Reqs : rt[r] = "done" /\ shouldRetryRequest(r) => r \in Replayable \/ r \notin sent

(* A roundTrip that fails has left the request alone, so that it can be    *)
(* sent again, and says so only if that does no harm.                      *)
FailureSafe == WriterGone /\ RetrySafe

(* A canceled roundTrip returns ("the context controls cancellation"). *)
CanceledReturns == \A r \in Reqs : "ctx" \in sig[r] ~> rt[r] = "done"

(* readLoop and writeLoop end once the net.Conn is closed, whatever they   *)
(* were waiting for, and a reader of the body that waits for readLoop is   *)
(* let go.                                                                 *)
LoopsEnd == netClosed ~> rl.at = "done" /\ wl.at = "done"
BodyReturns == \A r \in Reqs : body[r] \in {"EOF", "early"} ~> body[r] = "done"
GoroutinesEnd == LoopsEnd /\ BodyReturns
=============================================================================
