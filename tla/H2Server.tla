------------------------------ MODULE H2Server ------------------------------
(***************************************************************************)
(* One HTTP/2 server connection (src/http2/server.go): the serve loop with *)
(* its streams and its write scheduler, the goroutine that writes a frame, *)
(* and the handlers.                                                       *)
(*                                                                         *)
(* Everything the serve goroutine owns is the record sv; an operator of    *)
(* the shape f(S, ...) is a Go function that changes it.  A case of the    *)
(* select in serve is one step, followed by the steps of the loop in       *)
(* scheduleFrameWrite: called in the middle of a case it would do the      *)
(* same, because between two cases the queues hold only what flow control  *)
(* or a running write keeps there.  No other goroutine moves meanwhile:    *)
(* they share nothing with these steps.  The flush of the write buffer is  *)
(* part of the last write.  The frames of the client are chosen when they  *)
(* are read.                                                               *)
(***************************************************************************)
EXTENDS Integers, Sequences, FiniteSets, FiniteSetsExt

CONSTANTS
    Clients,        \* odd stream IDs of the client's requests
    Pushes,         \* even stream IDs
    Confs,          \* configurations
    ConnWindow,     \* the window the server gives, for the connection
    MaxQueued       \* maxQueuedControlFrames

Streams == Clients \cup Pushes

(* A configuration bounds what the client and the handlers do: ids, the    *)
(* client's streams; early, whether it begins before the preface or after  *)
(* the first SETTINGS frames; body, the requests with a body, and decl,    *)
(* the length that is declared for them (-1: none); reads, the handlers    *)
(* that read it to its end; max and maxPush, the streams at a time; window *)
(* and conn, what may be sent on a stream and on the connection; updates,  *)
(* frames and data, how many WINDOW_UPDATE, other connection frames and    *)
(* bytes of DATA the client sends; chunk, what a handler writes at once;   *)
(* events, what may happen.  The client keeps to the windows it is given.  *)
ASSUME ServerAssumption ==
    /\ Clients \subseteq Nat \ {0} /\ Pushes \subseteq Nat \ {0}
    /\ \A id \in Clients : id % 2 = 1
    /\ \A id \in Pushes : id % 2 = 0
    /\ \A t \in Confs : t.body \subseteq Clients /\ t.reads \subseteq Clients

VARIABLES
    t,      \* the configuration
    sv,     \* what the serve goroutine owns
    w,      \* writeFrameAsync: [f, at], at \in {"off", "write", "done"}
    want,   \* wantWriteFrameCh
    msgs,   \* serveMsgCh
    h,      \* the handlers
    cl,     \* the client: [n, st], st[id] \in {"none", "open", "end", "over", "rst"}
    wire    \* what has been written on each stream

vars == <<t, sv, w, want, msgs, h, cl, wire>>

May(e) == e \in t.events

Frame(k, id) == [k |-> k, id |-> id, n |-> 0, end |-> FALSE, wait |-> FALSE]
NoFrame == Frame("none", 0)
Data(id, n, end) == [Frame("data", id) EXCEPT !.n = n, !.end = end, !.wait = TRUE]
Header(id, end, wait) == [Frame("hdr", id) EXCEPT !.end = end, !.wait = wait]
Control(f) == f.k \in {"ping", "settings", "rst"} \/ (f.k = "wu" /\ f.id = 0)

NewStream == [s |-> "idle", rst |-> FALSE, trl |-> FALSE, hdrs |-> FALSE, body |-> FALSE,
              decl |-> -1, got |-> 0, n |-> 0, err |-> "none", brk |-> FALSE, flow |-> 0]
NewHandler == [at |-> "none", todo |-> <<>>, fin |-> FALSE, sent |-> FALSE, dirty |-> FALSE,
               dirty0 |-> FALSE, reply |-> "none", eof |-> FALSE, expect |-> FALSE, freed |-> FALSE,
               pushing |-> FALSE]

Init ==
    /\ t \in Confs
    /\ sv = [pc |-> IF t.early THEN "preface" ELSE "loop", rep |-> NoFrame, writing |-> FALSE, goAway |-> "none", need |-> FALSE,
             ack |-> FALSE, unacked |-> IF t.early THEN 1 ELSE 0, saw |-> ~t.early, push |-> TRUE, cur |-> 0, curP |-> 0,
             max |-> 0, maxP |-> 0, ctl |-> IF t.early THEN 1 ELSE 0,
             zero |-> IF t.early THEN <<Frame("settings", 0)>> ELSE <<>>,
             q |-> [id \in Streams |-> <<>>], st |-> [id \in Streams |-> NewStream],
             cin |-> ConnWindow, cflow |-> t.conn, timer |-> FALSE, idle |-> ~t.early, done |-> FALSE,
             last |-> -1, panic |-> FALSE, reader |-> "on"]
    /\ w = [f |-> NoFrame, at |-> "off"]
    /\ want = <<>> /\ msgs = <<>>
    /\ h = [id \in Streams |-> NewHandler]
    /\ cl = [n |-> 0, st |-> [id \in Streams |-> "none"], broken |-> FALSE, wu |-> 0, d |-> 0]
    /\ wire = [id \in Streams |-> <<>>]

-----------------------------------------------------------------------------
(* Streams and queues. *)

Set(S, id, r) == [S EXCEPT !.st[id] = r]
Panics(S) == [S EXCEPT !.panic = TRUE]

(* serverConn.state *)
state(S, id) ==
    IF S.st[id].s # "idle" THEN S.st[id].s
    ELSE IF id <= (IF id % 2 = 1 THEN S.max ELSE S.maxP) THEN "closed" ELSE "idle"

(* writeFrame *)
ignoreWrite(S, f) ==
    \/ f.id # 0 /\ state(S, f.id) = "closed" /\ f.k # "rst"
    \/ f.k = "100" /\ S.st[f.id].hdrs
queued(S, f) ==
    LET R == [S EXCEPT !.ctl = @ + IF Control(f) THEN 1 ELSE 0]
    IN  IF f.id = 0 THEN [R EXCEPT !.zero = Append(@, f)] ELSE [R EXCEPT !.q[f.id] = Append(@, f)]
writeFrame(S, f) ==
    LET R == IF f.k = "hdr" THEN [S EXCEPT !.st[f.id].hdrs = TRUE] ELSE S
    IN  IF ignoreWrite(S, f) THEN R ELSE queued(R, f)

resetStream(S, id) ==
    LET R == writeFrame(S, Frame("rst", id))
    IN  IF S.st[id].s \in {"open", "hcr", "hcl"} THEN [R EXCEPT !.st[id].rst = TRUE] ELSE R

sendWindowUpdate(S, id, n) ==
    IF n = 0 THEN S
    ELSE [writeFrame(S, [Frame("wu", id) EXCEPT !.n = n]) EXCEPT
             !.cin = @ + IF id = 0 THEN n ELSE 0]

(* goAway: the first reason stays. *)
goAway(S, code) ==
    IF S.goAway # "none" THEN S ELSE [S EXCEPT !.goAway = code, !.need = TRUE]

discard(S, id) == [S EXCEPT !.q[id] = <<>>]
uncountClient(S, id) == [S EXCEPT !.cur = IF id \in Clients THEN @ - 1 ELSE @]
uncount(S, id) == IF id \in Pushes THEN [S EXCEPT !.curP = @ - 1] ELSE [S EXCEPT !.cur = @ - 1]
NoneOpen(S) == \A i \in Streams : S.st[i].s \in {"idle", "closed"}
closeStream(S, id) ==
    LET P == IF S.st[id].s \in {"idle", "closed"} THEN Panics(S) ELSE S
        A == uncount([P EXCEPT !.st[id].s = "closed", !.st[id].rst = FALSE], id)
        B == IF NoneOpen(A) /\ May("nokeepalive") THEN goAway(A, "graceful") ELSE A
        I == IF NoneOpen(A) THEN [B EXCEPT !.idle = TRUE] ELSE B
        C == IF S.st[id].body
               THEN [sendWindowUpdate(I, 0, S.st[id].n) EXCEPT
                        !.st[id].err = IF @ = "none" THEN "err" ELSE @]
               ELSE I
    IN  discard(C, id)

newStream(S, id, s) ==
    [S EXCEPT !.st[id] = [NewStream EXCEPT !.s = s, !.flow = t.window],
              !.cur = @ + IF id \in Clients THEN 1 ELSE 0,
              !.curP = @ + IF id \in Pushes THEN 1 ELSE 0]

(* stream.endStream *)
endStream(S, id) ==
    [S EXCEPT !.st[id].s = "hcr",
              !.st[id].err = IF @ # "none" THEN @
                             ELSE IF S.st[id].decl \notin {-1, S.st[id].got} THEN "err" ELSE "eof"]

-----------------------------------------------------------------------------
(* Writing. *)

(* Random scheduler: control frames first, then any stream whose first     *)
(* frame flow control lets through, in part or whole.                      *)
sendable(S, id) ==
    /\ S.q[id] # <<>>
    /\ Head(S.q[id]).n = 0 \/ Head(S.q[id]).k # "data" \/ (S.st[id].flow > 0 /\ S.cflow > 0)
(* Consume.  (Fault: both parts end the stream.) *)
splitEnds(f, n) == <<[f EXCEPT !.n = n, !.wait = FALSE], [f EXCEPT !.n = @ - n]>>
split(f, n) == <<[f EXCEPT !.n = n, !.end = FALSE, !.wait = FALSE], [f EXCEPT !.n = @ - n]>>
allowed(S, id) == IF S.st[id].flow < S.cflow THEN S.st[id].flow ELSE S.cflow
popped(S, id) ==
    LET f == Head(S.q[id])
        a == allowed(S, id)
    IN  IF f.k # "data" \/ f.n = 0 THEN <<f, [S EXCEPT !.q[id] = Tail(@)]>>
        ELSE LET k == IF f.n > a THEN a ELSE f.n
                 R == [S EXCEPT !.st[id].flow = @ - k, !.cflow = @ - k]
             IN  IF f.n > a
                   THEN <<split(f, k)[1], [R EXCEPT !.q[id] = <<split(f, k)[2]>> \o Tail(@)]>>
                   ELSE <<f, [R EXCEPT !.q[id] = Tail(@)]>>

(* What Framer puts on the wire; a broken connection takes nothing. *)
written(f) ==
    IF f.id = 0 \/ cl.broken \/ f.k \in {"wu", "push"} THEN wire
    ELSE [wire EXCEPT ![f.id] = Append(@, <<f.k, f.end>>)]

(* wroteFrame up to the reply: a stream is closed before its handler is    *)
(* told.                                                                   *)
writeEndsStream(f) == f.k \in {"data", "hdr"} /\ f.end
afterWrite(S, f) ==
    IF writeEndsStream(f)
      THEN CASE S.st[f.id].s = "open" -> resetStream([S EXCEPT !.st[f.id].s = "hcl"], f.id)
             [] S.st[f.id].s = "hcr" -> closeStream(S, f.id)
             [] OTHER -> S
    ELSE IF f.k = "rst" /\ S.st[f.id].s \in {"open", "hcr", "hcl"} THEN closeStream(S, f.id)
    ELSE IF f.k = "panic" THEN closeStream(S, f.id)
    ELSE S

(* startFrameWrite: the assertions of the code, and the frame begins.      *)
(* Frames that fit into the buffer are written at once.                    *)
assertWritable(S, f) ==
    IF \/ S.writing
       \/ f.id # 0 /\ f.k # "rst" /\ S.st[f.id].s = "closed"
       \/ f.id # 0 /\ S.st[f.id].s = "hcl" /\ f.k \notin {"rst", "panic", "wu"}
    THEN Panics(S) ELSE S
staysWithinBuffer(f) == f.k \notin {"hdr", "push", "goaway"}
begin(S, f) == [assertWritable(S, f) EXCEPT !.writing = TRUE]

(* The end of a round of the loop in serve: too many control frames, and   *)
(* the timer that ends the connection after GOAWAY.  (Fault: it is not     *)
(* started after the last stream.)                                         *)
serveEnds(S) == [S EXCEPT !.pc = "ending"]
onlyErrors(S) == S.goAway = "error"
shutsDown(S) == S.goAway = "error" \/ S.cur + S.curP = 0
roundEnds(S) ==
    IF S.ctl > MaxQueued THEN serveEnds(S)
    ELSE [S EXCEPT !.pc = "loop",
             !.timer = @ \/ (S.goAway # "none" /\ ~S.need /\ ~S.writing /\ shutsDown(S))]

async(S, f) ==
    /\ ~staysWithinBuffer(f) \/ (f.k = "data" /\ May("async"))
    /\ sv' = roundEnds(begin(S, f))
    /\ w' = [f |-> f, at |-> "write"]
    /\ UNCHANGED <<h, wire>>
sync(S, f) ==
    /\ staysWithinBuffer(f)
    /\ LET R == [afterWrite([begin(S, f) EXCEPT !.writing = FALSE], f) EXCEPT
                    !.rep = IF f.wait THEN f ELSE NoFrame, !.pc = IF f.wait THEN "reply" ELSE "sched"]
       IN  sv' = R
    /\ wire' = written(f)
    /\ UNCHANGED <<w, h>>
startFrameWrite(S, f) == async(S, f) \/ sync(S, f)

(* The PUSH_PROMISE gets its stream when it is written. *)
startPromise(S, id) ==
    \/ /\ ~S.push \/ S.curP + 1 > t.maxPush \/ S.maxP + 2 \notin Pushes
       /\ sv' = [S EXCEPT !.pc = "sched"]
       /\ h' = [h EXCEPT ![id].reply = "err"]
       /\ UNCHANGED <<w, wire>>
    \/ /\ S.push /\ S.curP + 1 <= t.maxPush /\ S.maxP + 2 \in Pushes
       /\ LET p == S.maxP + 2
              R == newStream([S EXCEPT !.maxP = p], p, "hcr")
          IN  /\ sv' = roundEnds(begin(R, Frame("push", id)))
              /\ w' = [f |-> [Frame("push", id) EXCEPT !.wait = TRUE], at |-> "write"]
              /\ h' = [h EXCEPT ![p].at = "run"]
              /\ UNCHANGED wire

(* One round of scheduleFrameWrite. *)
sched(S) == sv.pc = "sched" /\ ~sv.writing
scheduleGoAway ==
    /\ sched(sv) /\ sv.need
    /\ async([sv EXCEPT !.need = FALSE], [Frame("goaway", 0) EXCEPT !.n = sv.max])
    /\ UNCHANGED <<t, want, msgs, cl>>
scheduleAck ==
    /\ sched(sv) /\ ~sv.need /\ sv.ack
    /\ sync([sv EXCEPT !.ack = FALSE], Frame("ack", 0))
    /\ UNCHANGED <<t, want, msgs, cl>>
Pops == sched(sv) /\ ~sv.need /\ ~sv.ack /\ sv.goAway # "error"
scheduleControl ==
    /\ Pops /\ sv.zero # <<>>
    /\ sync([sv EXCEPT !.zero = Tail(@), !.ctl = @ - IF Control(Head(sv.zero)) THEN 1 ELSE 0],
            Head(sv.zero))
    /\ UNCHANGED <<t, want, msgs, cl>>
scheduleStream(id) ==
    /\ Pops /\ sv.zero = <<>> /\ sendable(sv, id)
    /\ LET f == popped(sv, id)[1]
           R == [popped(sv, id)[2] EXCEPT !.ctl = @ - IF Control(f) THEN 1 ELSE 0]
       IN  IF f.k = "push" THEN startPromise(R, id) ELSE startFrameWrite(R, f)
    /\ UNCHANGED <<t, want, msgs, cl>>
Nothing == ~sv.need /\ ~sv.ack
           /\ (sv.goAway = "error" \/ (sv.zero = <<>> /\ \A id \in Streams : ~sendable(sv, id)))
loopEnd ==
    /\ sv.pc = "sched" /\ (sv.writing \/ Nothing)
    /\ sv' = roundEnds(sv)
    /\ UNCHANGED <<t, w, want, msgs, h, cl, wire>>

(* The writing goroutine. *)
writeFrameAsync ==
    /\ w.at = "write" /\ sv.pc # "sched"
    /\ w' = [w EXCEPT !.at = "done"]
    /\ wire' = written(w.f)
    /\ sv' = IF w.f.k = "goaway" THEN [sv EXCEPT !.last = w.f.n] ELSE sv
    /\ UNCHANGED <<t, want, msgs, h, cl>>
wroteFrame ==
    /\ sv.pc = "loop" /\ w.at = "done"
    /\ w' = [w EXCEPT !.at = "off"]
    /\ sv' = [afterWrite([sv EXCEPT !.writing = FALSE], w.f) EXCEPT
                 !.rep = IF w.f.wait THEN w.f ELSE NoFrame, !.pc = IF w.f.wait THEN "reply" ELSE "sched"]
    /\ UNCHANGED <<t, want, msgs, h, cl, wire>>
replyToWriter ==
    /\ sv.pc = "reply"
    /\ sv' = [sv EXCEPT !.pc = "sched", !.rep = NoFrame]
    /\ h' = [h EXCEPT ![sv.rep.id].reply = IF cl.broken THEN "err" ELSE "ok"]
    /\ UNCHANGED <<t, w, want, msgs, cl, wire>>

-----------------------------------------------------------------------------
(* serve: messages and frames. *)

Loop == sv.pc = "loop"
Step(S) == sv' = [S EXCEPT !.pc = "sched"]

(* The preface, and the settings frame with it. *)
readPreface ==
    /\ sv.pc = "preface"
    /\ \/ Step([sv EXCEPT !.idle = TRUE])
       \/ May("nopreface") /\ sv' = serveEnds(sv)
    /\ UNCHANGED <<t, w, want, msgs, h, cl, wire>>

takeWriteRequest ==
    /\ Loop /\ want # <<>>
    /\ Step(IF Head(want).k = "rst" THEN resetStream(sv, Head(want).id) ELSE writeFrame(sv, Head(want)))
    /\ want' = Tail(want)
    /\ UNCHANGED <<t, w, msgs, h, cl, wire>>

(* noteBodyRead: the handler waits until its message is taken. *)
noteBodyRead(id) ==
    /\ Loop /\ h[id].at = "note"
    /\ LET R == sendWindowUpdate(sv, 0, 1)
       IN  Step(IF R.st[id].s \in {"hcr", "closed"} THEN R ELSE sendWindowUpdate(R, id, 1))
    /\ h' = [h EXCEPT ![id].at = "run"]
    /\ UNCHANGED <<t, w, want, msgs, cl, wire>>

(* The messages of timers and of other goroutines. *)
timerFires ==
    /\ ~sv.done /\ Len(msgs) < 2
    /\ \/ May("settings") /\ ~sv.saw /\ sv.pc # "preface" /\ msgs' = Append(msgs, <<"settings", 0>>)
       \/ May("idle") /\ sv.idle /\ msgs' = Append(msgs, <<"idle", 0>>)
       \/ sv.timer /\ msgs' = Append(msgs, <<"shutdown", 0>>)
       \/ May("shutdown") /\ <<"graceful", 0>> \notin {msgs[i] : i \in DOMAIN msgs}
          /\ sv.goAway = "none" /\ sv.pc # "preface" /\ msgs' = Append(msgs, <<"graceful", 0>>)
    /\ sv.pc # "sched"
    /\ UNCHANGED <<t, sv, w, want, h, cl, wire>>
takeMessage ==
    /\ Loop /\ msgs # <<>>
    /\ msgs' = Tail(msgs)
    /\ LET m == Head(msgs)
           p == sv.st[m[2]]
       IN  IF m[1] = "push"
             THEN IF p.s \notin {"open", "hcr"} \/ ~sv.push
                    THEN h' = [h EXCEPT ![m[2]].reply = "err"] /\ Step(sv)
                    ELSE UNCHANGED h /\ Step(writeFrame(sv, [Frame("push", m[2]) EXCEPT !.wait = TRUE]))
             ELSE /\ UNCHANGED h
                  /\ IF m[1] \in {"settings", "shutdown"} THEN sv' = serveEnds(sv)
                     ELSE Step(goAway([sv EXCEPT !.idle = FALSE], "graceful"))
    /\ UNCHANGED <<t, w, want, cl, wire>>

(* A frame of the client is read, one at a time; the first is SETTINGS. *)
Reads == Loop /\ sv.reader = "on" /\ ~cl.broken /\ sv.saw
Spend == cl.n < t.frames
UNCH == UNCHANGED <<t, w, want, msgs, wire>>
streamError(id) == Step(resetStream(sv, id))
connError == Step(goAway(sv, "error"))

processSettings ==
    /\ Loop /\ sv.reader = "on" /\ ~cl.broken
    /\ \/ ~sv.saw /\ Step([sv EXCEPT !.saw = TRUE, !.ack = TRUE]) /\ UNCHANGED cl
       \/ sv.saw /\ sv.unacked = 1 /\ Step([sv EXCEPT !.unacked = 0]) /\ UNCHANGED cl
       \/ /\ sv.saw /\ Spend /\ May("window")
          /\ Step([sv EXCEPT !.ack = TRUE,
                      !.st = [id \in Streams |-> [@[id] EXCEPT !.flow =
                                 @ + IF sv.st[id].s \in {"idle", "closed"} THEN 0 ELSE 1]]])
          /\ cl' = [cl EXCEPT !.n = @ + 1]
       \/ sv.saw /\ Spend /\ May("nopush") /\ Step([sv EXCEPT !.ack = TRUE, !.push = FALSE])
          /\ cl' = [cl EXCEPT !.n = @ + 1]
    /\ UNCH /\ UNCHANGED h

processPing ==
    /\ Reads /\ Spend /\ May("ping")
    /\ Step(IF sv.goAway = "error" THEN sv ELSE writeFrame(sv, Frame("ping", 0)))
    /\ cl' = [cl EXCEPT !.n = @ + 1]
    /\ UNCH /\ UNCHANGED h

(* WINDOW_UPDATE for a stream and the connection at once. *)
processWindowUpdate(id) ==
    /\ Reads /\ cl.wu < t.updates /\ cl.st[id] # "none"
    /\ Step([sv EXCEPT !.cflow = @ + 1,
                       !.st[id].flow = @ + IF sv.st[id].s \in {"idle", "closed"} THEN 0 ELSE 1])
    /\ cl' = [cl EXCEPT !.wu = @ + 1]
    /\ UNCH /\ UNCHANGED h

(* processHeaders of a new stream; the header may be malformed (a priority *)
(* on itself, pseudo-header fields, a body for HEAD).  (Faults: GOAWAY is  *)
(* not looked at; the limit is not.)                                       *)
ignoresGoAway(S) == FALSE
ignoresHeaders(S) == S.goAway # "none"
noLimit(S) == FALSE
overLimit(S) == S.cur + 1 > t.max
newWriterAndRequest(S, id) ==
    [S EXCEPT !.st[id].body = id \in t.body, !.st[id].decl = IF id \in t.body THEN t.decl ELSE -1]
needsContinue(id) == id \in t.body /\ May("expect")
processHeaders(id) ==
    /\ Reads /\ id \in t.ids /\ cl.st[id] = "none" /\ \A i \in t.ids : i < id => cl.st[i] # "none"
    /\ cl' = [cl EXCEPT !.st[id] = IF id \in t.body THEN "open" ELSE "end"]
    /\ IF ignoresHeaders(sv) THEN Step(sv) /\ UNCHANGED h
       ELSE LET S == [sv EXCEPT !.max = id, !.idle = FALSE]
                R == newStream(S, id, IF id \in t.body THEN "open" ELSE "hcr")
            IN  IF overLimit(S) THEN Step(resetStream(S, id)) /\ UNCHANGED h
                ELSE \/ May("bad") /\ Step(resetStream(R, id)) /\ UNCHANGED h
                     \/ /\ Step(newWriterAndRequest(R, id))
                        /\ h' = [h EXCEPT ![id].at = "run", ![id].expect = needsContinue(id)]
    /\ UNCH

(* processTrailerHeaders, which processHeaders comes to only while there   *)
(* is no GOAWAY.                                                           *)
processTrailers(id) ==
    /\ Reads /\ May("trailers") /\ cl.st[id] \in {"open"} \cup (IF May("bad") THEN {"end"} ELSE {})
    /\ cl' = [cl EXCEPT !.st[id] = IF @ = "open" THEN "end" ELSE "over"]
    /\ LET s == sv.st[id]
       IN  IF ignoresHeaders(sv) \/ s.rst THEN Step(sv)
           ELSE IF s.s \in {"idle", "closed"} THEN connError
           ELSE IF s.s = "hcr" THEN streamError(id)
           ELSE IF s.trl THEN connError
           ELSE LET R == [sv EXCEPT !.st[id].trl = TRUE]
                IN  Step(endStream(R, id)) \/ (May("bad") /\ Step(resetStream(R, id)))
    /\ UNCH /\ UNCHANGED h

(* processData: a frame of one byte, or the empty one that ends a body. *)
processData(id, n, end) ==
    /\ Reads /\ cl.st[id] = "open"
    /\ n <= sv.cin /\ (n > 0 => cl.d < t.data)
    /\ cl' = [cl EXCEPT !.st[id] = IF end THEN "end" ELSE @, !.d = @ + n]
    /\ LET s == sv.st[id]
           T == [sv EXCEPT !.cin = @ - n]
       IN  IF sv.goAway = "error" THEN Step(sv)
           ELSE IF state(sv, id) = "idle" THEN connError
           ELSE IF s.s # "open" \/ s.trl \/ s.rst
             THEN LET R == sendWindowUpdate(T, 0, n)
                  IN  Step(IF s.rst THEN R ELSE resetStream(R, id))
           ELSE IF s.decl # -1 /\ s.got + n > s.decl
             THEN Step(resetStream([sv EXCEPT !.st[id].err = IF @ = "none" THEN "err" ELSE @], id))
           ELSE IF n > 0 /\ s.err # "none"
             THEN Step(resetStream(sendWindowUpdate(T, 0, n), id))
           ELSE LET R == [T EXCEPT !.st[id].n = @ + n, !.st[id].got = @ + n]
                IN  Step(IF end THEN endStream(R, id) ELSE R)
    /\ UNCH /\ UNCHANGED h

processResetStream(id) ==
    /\ Reads /\ May("rst") /\ cl.st[id] \in {"open", "end", "over"}
    /\ cl' = [cl EXCEPT !.st[id] = "rst"]
    /\ Step(IF state(sv, id) = "idle" THEN goAway(sv, "error")
            ELSE IF sv.st[id].s \in {"open", "hcr", "hcl"} THEN closeStream(sv, id) ELSE sv)
    /\ UNCH /\ UNCHANGED h

processGoAway ==
    /\ Reads /\ Spend /\ May("goaway")
    /\ Step([goAway(sv, "graceful") EXCEPT !.push = FALSE])
    /\ cl' = [cl EXCEPT !.n = @ + 1]
    /\ UNCH /\ UNCHANGED h

(* A connection error: of the frame, or of the reader, that then ends. *)
processBad ==
    /\ Reads /\ Spend /\ May("error")
    /\ \E r \in {"on", "off"} : Step([goAway(sv, "error") EXCEPT !.reader = r])
    /\ cl' = [cl EXCEPT !.n = @ + 1]
    /\ UNCH /\ UNCHANGED h

(* The client is gone. *)
clientGone ==
    /\ ~cl.broken /\ May("eof") /\ sv.pc # "sched"
    /\ cl' = [cl EXCEPT !.broken = TRUE]
    /\ UNCH /\ UNCHANGED <<h, sv>>
readEOF ==
    /\ Loop /\ cl.broken /\ sv.reader = "on"
    /\ sv' = serveEnds(sv)
    /\ UNCH /\ UNCHANGED <<h, cl>>

(* The deferred calls of serve, when its loop is left: doneServing, the    *)
(* streams, and the connection.                                            *)
serveReturns ==
    /\ sv.pc = "ending"
    /\ sv' = [sv EXCEPT !.pc = "end", !.done = TRUE,
                 !.st = [id \in Streams |-> IF @[id].s \in {"idle", "closed"} THEN @[id]
                            ELSE [@[id] EXCEPT !.s = "closed", !.err = IF @ = "none" THEN "err" ELSE @]],
                 !.q = [id \in Streams |-> <<>>], !.cur = 0, !.curP = 0]
    /\ cl' = [cl EXCEPT !.broken = TRUE]
    /\ UNCH /\ UNCHANGED h

-----------------------------------------------------------------------------
(* Handlers. *)

Aside == sv.pc # "sched" /\ UNCHANGED <<t, w, msgs, cl, wire>>
Closed(id) == sv.st[id].s = "closed"

(* writeChunk: the header first, then data, then trailers; nothing but the *)
(* header in answer to HEAD.  A handler that has set no header fields does *)
(* not wait for the header.                                                *)
chunk(id, n, fin, trl) ==
    LET over == (fin /\ n = 0 /\ ~trl) \/ May("head")
        hdr == IF h[id].sent THEN <<>> ELSE <<Header(id, over, ~May("plain"))>>
        dat == IF n > 0 \/ (fin /\ ~trl /\ h[id].sent) THEN <<Data(id, n, fin /\ ~trl)>> ELSE <<>>
        end == IF fin /\ trl THEN <<Header(id, TRUE, TRUE)>> ELSE <<>>
    IN  IF May("head") THEN hdr ELSE hdr \o dat \o end

handlerWrite(id) ==
    /\ h[id].at = "run" /\ ~h[id].fin /\ May("write") /\ ~h[id].sent
    /\ \E n \in 0..t.chunk :
         h' = [h EXCEPT ![id].at = "send", ![id].todo = chunk(id, n, FALSE, FALSE), ![id].sent = TRUE]
    /\ Aside /\ UNCHANGED <<sv, want>>

(* handlerDone: whether the writer was dirty is looked at before its last  *)
(* flush.                                                                  *)
handlerDone(id) ==
    /\ h[id].at = "run" /\ ~h[id].fin
    /\ id \in t.reads => h[id].eof
    /\ \E n \in 0..t.chunk, trl \in (IF May("trailers") THEN BOOLEAN ELSE {FALSE}) :
         h' = [h EXCEPT ![id].at = "send", ![id].todo = chunk(id, n, TRUE, trl), ![id].sent = TRUE,
                        ![id].fin = TRUE, ![id].dirty0 = h[id].dirty]
    /\ Aside /\ UNCHANGED <<sv, want>>

handlerPanics(id) ==
    /\ May("panic") /\ h[id].at = "run" /\ ~h[id].fin
    /\ h' = [h EXCEPT ![id].at = "send", ![id].todo = <<Frame("panic", id)>>, ![id].fin = TRUE,
                      ![id].dirty0 = TRUE]
    /\ Aside /\ UNCHANGED <<sv, want>>

(* writeFrameFromHandler; the call is over if serve has ended. *)
handlerSend(id) ==
    /\ h[id].at = "send" /\ h[id].todo # <<>>
    /\ \/ /\ ~sv.done /\ Len(want) < 2
          /\ want' = Append(want, Head(h[id].todo))
          /\ h' = IF Head(h[id].todo).wait THEN [h EXCEPT ![id].at = "await", ![id].reply = "none"]
                  ELSE [h EXCEPT ![id].todo = Tail(@)]
       \/ /\ sv.done
          /\ h' = [h EXCEPT ![id].todo = <<>>, ![id].dirty = TRUE]
          /\ UNCHANGED want
    /\ Aside /\ UNCHANGED sv

(* The wait for the frame: its result, the end of serve, or of the stream. *)
(* The result of a DATA frame is preferred to the end of its stream.       *)
handlerAwait(id) ==
    /\ h[id].at = "await"
    /\ LET f == Head(h[id].todo)
           fails == [h EXCEPT ![id].at = "send", ![id].reply = "none", ![id].todo = <<>>,
                              ![id].dirty = @ \/ f.k # "none"]
       IN  \/ /\ h[id].reply = "ok"
              /\ h' = [h EXCEPT ![id].at = "send", ![id].reply = "none", ![id].todo = Tail(@)]
           \/ h[id].reply = "err" /\ h' = fails
           \/ sv.done /\ h' = fails
           \/ Closed(id) /\ (f.k = "data" => h[id].reply = "none") /\ h' = fails
    /\ Aside /\ UNCHANGED <<sv, want>>

(* All is sent: back to the handler, or the writer goes to the pool. *)
handlerNext(id) ==
    /\ h[id].at = "send" /\ h[id].todo = <<>>
    /\ h' = [h EXCEPT ![id].at = IF h[id].fin THEN "gone" ELSE "run",
                      ![id].freed = h[id].fin /\ ~h[id].dirty0]
    /\ Aside /\ UNCHANGED <<sv, want>>

(* requestBody.Read *)
bodyRead(id) ==
    /\ h[id].at = "run" /\ ~h[id].fin /\ sv.st[id].body /\ ~h[id].eof
    /\ IF h[id].expect
         THEN /\ h' = [h EXCEPT ![id].expect = FALSE, ![id].at = "send", ![id].todo = <<Frame("100", id)>>]
              /\ UNCHANGED sv
         ELSE \/ /\ sv.st[id].n > 0
                 /\ sv' = [sv EXCEPT !.st[id].n = @ - 1]
                 /\ h' = [h EXCEPT ![id].at = "note"]
              \/ /\ sv.st[id].n = 0 /\ sv.st[id].err # "none"
                 /\ h' = [h EXCEPT ![id].eof = TRUE]
                 /\ UNCHANGED sv
    /\ Aside /\ UNCHANGED want
(* requestBody.Close *)
bodyClose(id) ==
    /\ May("close") /\ h[id].at = "run" /\ ~h[id].fin /\ sv.st[id].body /\ ~h[id].eof
    /\ sv' = [sv EXCEPT !.st[id].brk = TRUE]
    /\ h' = [h EXCEPT ![id].eof = TRUE]
    /\ Aside /\ UNCHANGED want
(* noteBodyReadFromHandler, when serve has ended.  (Fault: not looked at.) *)
noteStuck(id) == FALSE /\ UNCHANGED vars
noteGone(id) ==
    /\ h[id].at = "note" /\ sv.done
    /\ h' = [h EXCEPT ![id].at = "run"]
    /\ Aside /\ UNCHANGED <<sv, want>>

(* responseWriter.Push *)
handlerPush(id) ==
    /\ May("push") /\ id \in Clients /\ h[id].at = "run" /\ ~h[id].fin /\ ~h[id].pushing
    /\ ~sv.done /\ ~Closed(id) /\ Len(msgs) < 2 /\ sv.pc # "sched"
    /\ msgs' = Append(msgs, <<"push", id>>)
    /\ h' = [h EXCEPT ![id].at = "await", ![id].reply = "none", ![id].pushing = TRUE,
                      ![id].todo = <<NoFrame>>]
    /\ UNCHANGED <<t, sv, w, want, cl, wire>>

(* onWriteTimeout: the stream is reset, by way of wantWriteFrameCh. *)
onWriteTimeout(id) ==
    /\ May("timeout") /\ sv.st[id].s \in {"open", "hcr", "hcl"} /\ ~sv.st[id].rst /\ ~sv.done
    /\ Len(want) < 2 /\ Frame("rst", id) \notin {want[i] : i \in DOMAIN want}
    /\ want' = Append(want, Frame("rst", id))
    /\ Aside /\ UNCHANGED <<sv, h>>

-----------------------------------------------------------------------------
ServeStep ==
    \/ scheduleGoAway \/ scheduleAck \/ scheduleControl \/ (\E id \in Streams : scheduleStream(id))
    \/ loopEnd \/ replyToWriter \/ serveReturns
ReadStep ==
    \/ processSettings \/ processPing \/ processGoAway \/ processBad \/ readEOF
    \/ \E id \in Streams : \/ processWindowUpdate(id) \/ processHeaders(id) \/ processTrailers(id)
                           \/ processData(id, 1, FALSE) \/ processData(id, 0, TRUE)
                           \/ processResetStream(id)
HandlerStep(id) ==
    \/ handlerWrite(id) \/ handlerDone(id) \/ handlerPanics(id) \/ handlerSend(id) \/ handlerAwait(id)
    \/ handlerNext(id) \/ bodyRead(id) \/ bodyClose(id) \/ noteGone(id) \/ handlerPush(id)

Next ==
    \/ ServeStep \/ ReadStep \/ readPreface \/ takeWriteRequest \/ takeMessage \/ timerFires
    \/ writeFrameAsync \/ wroteFrame \/ clientGone
    \/ \E id \in Streams : HandlerStep(id) \/ noteBodyRead(id) \/ onWriteTimeout(id)

Spec == Init /\ [][Next]_vars

(* Every goroutine that can go on does; select takes each of its cases in  *)
(* the long run.  A handler ends its calls and, once its body is read or   *)
(* need not be, returns; the client ends its requests.                     *)
Fairness ==
    /\ WF_vars(ServeStep) /\ WF_vars(readPreface) /\ WF_vars(takeWriteRequest) /\ WF_vars(takeMessage)
    /\ WF_vars(wroteFrame) /\ WF_vars(writeFrameAsync) /\ WF_vars(readEOF) /\ WF_vars(processSettings)
    /\ WF_vars(timerFires)
    /\ \A id \in Streams :
         /\ WF_vars(noteBodyRead(id))
         /\ WF_vars(handlerSend(id) \/ handlerAwait(id) \/ handlerNext(id) \/ noteGone(id))
         /\ WF_vars(bodyRead(id)) /\ WF_vars(handlerDone(id))
         /\ WF_vars(processData(id, 0, TRUE) \/ processTrailers(id))
FairSpec == Spec /\ Fairness

-----------------------------------------------------------------------------
Open(id) == sv.st[id].s \in {"open", "hcr", "hcl"}


(* curClientStreams and curPushedStreams are the streams that are open,    *)
(* the client's never more than the limit that was advertised; and the     *)
(* idle timer runs only when there is none.                                *)
StreamsCounted ==
    /\ sv.cur = Cardinality({id \in Clients : Open(id)}) /\ sv.cur <= t.max
    /\ sv.curP = Cardinality({id \in Pushes : Open(id)})
    /\ sv.idle /\ ~sv.done => NoneOpen(sv)

(* What the client reads on a stream: interim headers, one header, data,   *)
(* at most one end of the stream; after it, and after a reset, nothing but *)
(* a reset; and no data is left behind when the stream is ended.           *)
WireLegal ==
    \A id \in Streams :
      LET s == wire[id]
      IN  /\ \A i, j \in DOMAIN s : i < j =>
            /\ s[i][2] \/ s[i][1] \in {"rst", "panic"} => s[j][1] \in {"rst", "panic"}
            /\ s[j][1] = "100" => s[i][1] = "100"
            /\ s[i][1] = "data" => \E k \in 1..(i - 1) : s[k][1] = "hdr"
          /\ \A i \in DOMAIN s : s[i][2] => \A j \in DOMAIN sv.q[id] : sv.q[id][j].k = "rst"

(* GOAWAY names the last stream that is handled: no handler ever runs for  *)
(* a later one, so that the client may repeat its request elsewhere.       *)
GoAwayHonest ==
    sv.last # -1 => \A id \in Clients : h[id].at # "none" => id <= sv.last

(* A responseWriterState goes back to its pool only when no frame that is  *)
(* being written refers to its buffer ("Only recycle the pool if all prior *)
(* Write calls to the serverConn goroutine completed successfully").       *)
BufferOwned == w.at = "write" /\ w.f.k = "data" => ~h[w.f.id].freed

(* queuedControlFrames is the number of "control frames in the writeSched  *)
(* queue".                                                                 *)
Controls(s) == Cardinality({i \in DOMAIN s : Control(s[i])})
ControlCount ==
    ~sv.done => sv.ctl = Controls(sv.zero) + MapThenSumSet(LAMBDA id : Controls(sv.q[id]), Streams)

(* The window of the connection is never given twice: what the client may  *)
(* send, and what it sent that no handler has read, never exceed it        *)
(* ("sent too many window updates without decrements?").                   *)
CreditOnce ==
    LET held(id) == (IF Open(id) THEN sv.st[id].n ELSE 0) + (IF h[id].at = "note" THEN 1 ELSE 0)
    IN  ~sv.done => sv.cin + MapThenSumSet(held, Streams) <= ConnWindow

(* No call of a handler outlives the connection. *)
EndFrees == sv.done ~> \A id \in Streams : h[id].at \notin {"send", "await", "note"}

(* A connection error that stops the reading of frames ends the connection *)
(* ("goAway will close the loop").                                         *)
ErrorEnds == (sv.reader = "off") ~> sv.done

(* After GOAWAY, when the client has ended its requests and the handlers   *)
(* have returned, the connection ends ("The connection isn't closed until  *)
(* all current streams are done").                                         *)
GoAwayEnds == (sv.goAway # "none") ~> sv.done

(* What has to end ends: the calls of the handlers with the connection,    *)
(* and the connection after GOAWAY.                                        *)
ServeEnds == EndFrees /\ GoAwayEnds

(* A write deadline ends the handler's wait for its frame. *)
TimeoutFrees == \A id \in Streams : (sv.st[id].rst /\ h[id].at = "await") ~> (h[id].at # "await")
=============================================================================
