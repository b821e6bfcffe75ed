------------------------------ MODULE HttpTest ------------------------------
(***************************************************************************)
(* The test server and the recorder (src/httptest).                        *)
(***************************************************************************)
EXTENDS Integers, FiniteSets, Sequences, SequencesExt

CONSTANTS
    Conns,        \* connections clients may open
    ServerConfs         \* [ops, reqs: requests a client sends on one connection]

CONSTANTS
    MaxOps,
    RecorderConfs     \* [new: made by NewRecorder, declared: "trailer" was declared before the first write]

VARIABLE s

-----------------------------------------------------------------------------
(* The test server (src/httptest/server.go): the hook wrap installs on the *)
(* http.Server's connection states, Close, and CloseClientConnections.     *)
(* The http.Server underneath (src/server.go) reports a connection's state *)
(* from the accepting goroutine (new) and then from the connection's own   *)
(* goroutine; every report takes s.mu.                                     *)
ServerHere == s.m = "tserver"

(* NewUnstartedServer, and Start or StartTLS: wrap, and goServe, which     *)
(* counts the serving goroutine in the wait group.                         *)
goServeUncounted == 0
goServe == 1
ServerInit ==
    \E t \in ServerConfs :
      s = [m |-> "tserver", t |-> t, listening |-> TRUE, serving |-> TRUE, closed |-> FALSE,
           keepAlives |-> TRUE, wg |-> goServe, closer |-> "none", dropper |-> "none",
           conns |-> [c \in Conns |-> "none"],        \* s.conns; "none" is no entry
           open |-> [c \in Conns |-> FALSE],          \* the net.Conn
           at |-> [c \in Conns |-> "none"],           \* the connection's goroutine
           reqs |-> [c \in Conns |-> 0],
           closing |-> {}, chan |-> 0, left |-> 0,     \* CloseClientConnections
           bad |-> FALSE]                             \* an invalid state transition, or a misused wait group

op(o) == o \in s.t.ops

(* The hook of wrap, by the state reported.                                *)
closeConn(x, c) == [x EXCEPT !.open[c] = FALSE]
forgetConn(x, c) ==
    IF x.conns[c] = "none" THEN x ELSE [x EXCEPT !.conns[c] = "none", !.wg = @ - 1]
leaveOpen(x, c) == x
closeIfClosed(x, c) == IF x.closed THEN closeConn(x, c) ELSE x
stateNew(x, c) ==
    closeIfClosed([x EXCEPT !.wg = @ + 1, !.conns[c] = "new",
                            !.bad = @ \/ x.conns[c] # "none" \/ x.wg = 0], c)
stateActive(x, c) ==
    IF x.conns[c] = "none" THEN x
    ELSE [x EXCEPT !.conns[c] = "active", !.bad = @ \/ x.conns[c] \notin {"new", "idle"}]
stateIdle(x, c) ==
    closeIfClosed(IF x.conns[c] = "none" THEN x
                  ELSE [x EXCEPT !.conns[c] = "idle", !.bad = @ \/ x.conns[c] # "active"], c)

(* Serve: a connection is accepted, reported, and given its goroutine.  A  *)
(* connection may have been accepted before the listener closed and be     *)
(* reported after.                                                         *)
Accept(c) ==
    /\ ServerHere /\ s.serving /\ s.listening /\ s.at[c] = "none" /\ \A d \in Conns : s.at[d] # "accepted"
    /\ s' = [s EXCEPT !.at[c] = "accepted", !.open[c] = TRUE]

Report(c) ==
    /\ ServerHere /\ s.at[c] = "accepted"
    /\ s' = stateNew([s EXCEPT !.at[c] = "reading"], c)

ServeReturns ==
    /\ ServerHere /\ s.serving /\ ~s.listening /\ \A d \in Conns : s.at[d] # "accepted"
    /\ s' = [s EXCEPT !.serving = FALSE, !.wg = @ - 1]

(* The goroutine of a connection: a request arrives and is reported, the   *)
(* handler runs, and the connection is kept if keep-alives were enabled    *)
(* when it looked.                                                         *)
Request(c) ==
    /\ ServerHere /\ s.at[c] = "reading" /\ s.open[c] /\ s.reqs[c] < s.t.reqs
    /\ s' = [s EXCEPT !.at[c] = "requested", !.reqs[c] = @ + 1]

(* With an IdleTimeout the http.Server does not report the state of a      *)
(* request that was pipelined behind another (see ServerConn).             *)
Handle(c) ==
    /\ ServerHere /\ s.at[c] = "requested"
    /\ LET x == [s EXCEPT !.at[c] = "handler"]
       IN  s' = IF op("idletimeout") /\ s.reqs[c] > 1 THEN x ELSE stateActive(x, c)

Hijack(c) ==
    /\ ServerHere /\ op("hijack") /\ s.at[c] = "handler"
    /\ s' = forgetConn([s EXCEPT !.at[c] = "hijacked"], c)

HandlerReturns(c) ==
    /\ ServerHere /\ s.at[c] = "handler"
    /\ s' = [s EXCEPT !.at[c] = IF s.keepAlives /\ s.open[c] THEN "keeping" ELSE "closing"]

Idle(c) ==
    /\ ServerHere /\ s.at[c] = "keeping"
    /\ s' = stateIdle([s EXCEPT !.at[c] = "reading"], c)

(* A read fails on a closed connection, or the client has gone.            *)
ReadFails(c) ==
    /\ ServerHere /\ s.at[c] = "reading" /\ (~s.open[c] \/ op("gone"))
    /\ s' = [s EXCEPT !.at[c] = "closing"]

Closed(c) ==
    /\ ServerHere /\ s.at[c] = "closing"
    /\ s' = forgetConn([s EXCEPT !.at[c] = "gone", !.open[c] = FALSE], c)

(* Close: under s.mu the listener is closed, keep-alives are disabled      *)
(* (which closes what the http.Server itself holds idle) and the new and   *)
(* idle connections are closed; then it waits.                             *)
notBusy(st) == st \in {"new", "idle"}
Close ==
    /\ ServerHere /\ s.closer = "none"
    /\ s' = [s EXCEPT !.closer = "waits", !.closed = TRUE, !.listening = FALSE, !.keepAlives = FALSE,
                      !.open = [c \in Conns |-> s.open[c] /\ ~notBusy(s.conns[c])]]

CloseReturns ==
    /\ ServerHere /\ s.closer = "waits" /\ s.wg = 0
    /\ s' = [s EXCEPT !.closer = "returned"]

(* CloseClientConnections: one goroutine per tracked connection closes it  *)
(* and sends on a channel with room for all of them; the caller waits for  *)
(* each, or for five seconds.                                              *)
CloseClientConnections ==
    /\ ServerHere /\ op("drop") /\ s.dropper = "none"
    /\ LET tracked == {c \in Conns : s.conns[c] # "none"}
       IN  s' = [s EXCEPT !.dropper = "waits", !.closing = tracked, !.left = Cardinality(tracked)]

closeConnChan(c) ==
    /\ ServerHere /\ c \in s.closing
    /\ s' = [closeConn(s, c) EXCEPT !.chan = @ + 1, !.closing = @ \ {c}]

Dropped ==
    /\ ServerHere /\ s.dropper = "waits" /\ s.left > 0 /\ s.chan > 0
    /\ s' = [s EXCEPT !.left = @ - 1, !.chan = @ - 1]

DropReturns ==
    /\ ServerHere /\ s.dropper = "waits" /\ s.left = 0
    /\ s' = [s EXCEPT !.dropper = "returned"]

DropGivesUp ==
    /\ ServerHere /\ s.dropper = "waits" /\ s.left > 0
    /\ s' = [s EXCEPT !.dropper = "returned"]

ConnStep(c) == Report(c) \/ Handle(c) \/ HandlerReturns(c) \/ Idle(c) \/ ReadFails(c) \/ Closed(c)

ServerNext ==
    /\ ServerHere
    /\ \/ \E c \in Conns : Accept(c) \/ ConnStep(c) \/ Request(c) \/ Hijack(c) \/ closeConnChan(c)
       \/ ServeReturns \/ Close \/ CloseReturns
       \/ CloseClientConnections \/ Dropped \/ DropReturns \/ DropGivesUp

(* Handlers return, a read of a closed connection fails, and Serve returns *)
(* once its listener is closed.                                            *)
Process(k) ==
    /\ ServerHere
    /\ \/ k = 1 /\ ServeReturns
       \/ k = 2 /\ CloseReturns
       \/ k - 2 \in Conns /\ ConnStep(k - 2)
Fair == \A k \in 1..(2 + Cardinality(Conns)) : WF_s(Process(k))

-----------------------------------------------------------------------------

(* No report is an invalid transition, none adds to a wait group that has  *)
(* come to zero, and when Close has returned no handler is running (a      *)
(* hijacked connection is its handler's) and nothing will be accepted.     *)
CloseWaits ==
    ServerHere =>
      /\ ~s.bad
      /\ s.closer = "returned" =>
           ~s.serving /\ \A c \in Conns : s.at[c] \in {"none", "gone", "hijacked"}

(* Close returns, whatever was connecting, being served or becoming idle   *)
(* when it was called.                                                     *)
Due(k) == k = 1 /\ ServerHere /\ s.closer = "waits"
Met(k) == k = 1 /\ ServerHere /\ s.closer = "returned"
CloseEnds == Due(1) ~> Met(1)

-----------------------------------------------------------------------------
(* The response a test sees (src/httptest/recorder.go): a handler and the  *)
(* test call the methods of a ResponseRecorder in any order.  A header is  *)
(* a function from some of Keys to versions: the handler sets each field   *)
(* to a value it has not used before.                                      *)
RecorderHere == s.m = "rec"

Keys == {"type", "field", "trailer", "prefixed"}     \* "prefixed": a key with TrailerPrefix
None == [k \in Keys |-> 0]                            \* version 0: not set
Nil == [nil |-> TRUE, h |-> None]
Map(h) == [nil |-> FALSE, h |-> h]

RecorderInit ==
    \E t \in RecorderConfs :
      s = [m |-> "rec", t |-> t, n |-> 0,
           Code |-> IF t.new THEN 200 ELSE 0, HeaderMap |-> IF t.new THEN Map(None) ELSE Nil,
           body |-> t.new, Body |-> <<>>, Flushed |-> FALSE,
           snap |-> Nil, wroteHeader |-> FALSE,
           result |-> [made |-> FALSE],
           first |-> [code |-> 0, at |-> "never", h |-> None]]      \* what the first write sent, for the property

ops == RecorderHere /\ s.n < MaxOps
tick(x) == [x EXCEPT !.n = @ + 1]

(* Header().Set of a field.                                                *)
Header(k) ==
    /\ ops
    /\ s' = tick([s EXCEPT !.HeaderMap = Map([@.h EXCEPT ![k] = s.n + 1])])

(* WriteHeader on x: only the first has an effect.                         *)
snapLive(x) == [x EXCEPT !.wroteHeader = TRUE]
snapTaken(x) == [x EXCEPT !.wroteHeader = TRUE, !.snap = Map(x.HeaderMap.h), !.HeaderMap.nil = FALSE]
writeHeader(x, code) ==
    IF x.wroteHeader THEN x
    ELSE [snapTaken(x) EXCEPT !.Code = code,
                               !.first = IF @.at = "never" THEN [code |-> code, at |-> "write", h |-> x.HeaderMap.h] ELSE @]

WriteHeader(code) ==
    /\ ops
    /\ s' = tick(writeHeader(s, code))

(* Write and WriteString: the type is detected if there is none.           *)
typed(x) ==
    IF x.wroteHeader THEN x
    ELSE [x EXCEPT !.HeaderMap = Map([@.h EXCEPT !["type"] = IF @ = 0 THEN s.n + 1 ELSE @])]
Write ==
    /\ ops
    /\ s' = tick([writeHeader(typed(s), 200) EXCEPT !.Body = IF s.body THEN Append(@, s.n) ELSE @])

Flush ==
    /\ ops
    /\ s' = tick([writeHeader(s, 200) EXCEPT !.Flushed = TRUE])

(* Result: made once; the trailers have the values of now.                 *)
again(x) == x.result.made
Result ==
    /\ ops
    /\ LET snap == IF s.snap.nil THEN s.HeaderMap ELSE s.snap
           trailer == (IF s.t.declared THEN {"trailer"} ELSE {}) \cup {"prefixed"}
       IN  s' = tick(IF again(s) THEN s
                     ELSE [s EXCEPT !.snap = snap,
                                    !.first = IF @.at = "never" THEN [code |-> s.Code, at |-> "result", h |-> snap.h] ELSE @,
                                    !.result = [made |-> TRUE, code |-> IF s.Code = 0 THEN 200 ELSE s.Code,
                                                h |-> snap.h, body |-> s.Body,
                                                trailer |-> [k \in Keys |-> IF k \in trailer THEN s.HeaderMap.h[k] ELSE 0]]])

RecorderNext ==
    /\ RecorderHere
    /\ \/ \E k \in Keys : Header(k)
       \/ \E code \in {200, 404} : WriteHeader(code)
       \/ Write \/ Flush \/ Result

-----------------------------------------------------------------------------
(* "The Response.Header is a snapshot of the headers at the time of the    *)
(* first write call, or at the time of this call, if the handler never did *)
(* a write": and so is the status; the body is the first part of what the  *)
(* handler wrote.  What it does after Result changes none of it.           *)
RecorderExact ==
    (RecorderHere /\ s.result.made) =>
      /\ s.result.h = s.first.h
      /\ s.result.code = IF s.first.code = 0 THEN 200 ELSE s.first.code
      /\ IsPrefix(s.result.body, s.Body)
      /\ s.first.at = "write" => s.snap.h = s.first.h
=============================================================================
