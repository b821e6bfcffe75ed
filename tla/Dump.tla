-------------------------------- MODULE Dump --------------------------------
(***************************************************************************)
(* Dumping messages (src/httputil/dump.go).  DumpRequestOut sends the      *)
(* request through a Transport whose connection records what is written    *)
(* and hands it to a goroutine that replies once it has read all of it:    *)
(* the caller, the writeLoop and the readLoop of the Transport, and that   *)
(* goroutine.  The others read a body into memory and put a copy back.     *)
(*                                                                         *)
(* A message is its head, 0, and the parts 1, 2, ... of its body.  A part  *)
(* of the dummy body is negative.                                          *)
(***************************************************************************)
EXTENDS Integers, Sequences, SequencesExt

CONSTANTS
    Confs     \* [call: "out", "request" or "response", body: the argument, len: parts of the body,
              \*  fault: "none", "read" (the body fails), "early" (RoundTrip fails before it dials),
              \*         "cancel" (the context of the request ends), "short" (the body ends before its Content-Length) or "odd" (ReadRequest cannot parse it)]

VARIABLE s

Here == s.m = "dump"

parts(n) == [i \in 1..n |-> i]

Init ==
    \E t \in Confs :
      s = [m |-> "dump", t |-> t, pc |-> "start", body |-> parts(t.len),   \* req.Body: what it yields
           save |-> <<>>,
           todo |-> <<>>, wl |-> "none",             \* writeLoop: what it has to write; "none", "run", "pipe" or "end"
           rl |-> "none",                            \* readLoop: "none", "read" or "end"
           hp |-> "none", in |-> 0,                  \* the goroutine: "none", "read", "reply" or "end"; parts it read
           pipe |-> "open", quit |-> FALSE, c |-> "open", rt |-> "none",   \* pw; quitReadCh; dr.c; RoundTrip's outcome
           buf |-> <<>>, dump |-> <<>>, ret |-> "none"]

(* drainBody: two readers of the same bytes; when reading fails the body   *)
(* is left as it is.                                                       *)
drainNone(x) == [x EXCEPT !.save = <<>>]
drainBody(x) == [x EXCEPT !.save = x.body]
drained == s.t.body
drainFails == drained /\ s.t.fault = "read"

Fails ==
    /\ Here /\ s.pc = "start" /\ drainFails
    /\ s' = [s EXCEPT !.pc = "done", !.ret = "error", !.body = <<>>]

(* DumpRequest and DumpResponse: the dump is written in one go, and the    *)
(* body put back.  Without body, the request has none meanwhile, and the   *)
(* response one that fails with errNoBody, which is no error.              *)
DumpInMemory ==
    /\ Here /\ s.pc = "start" /\ s.t.call # "out" /\ ~drainFails
    /\ LET x == IF drained THEN drainBody(s) ELSE [s EXCEPT !.save = s.body]
       IN  s' = [x EXCEPT !.pc = "done", !.ret = "nil", !.body = x.save,
                          !.dump = <<0>> \o (IF drained THEN s.body ELSE <<>>)]

(* DumpRequestOut up to RoundTrip: a dummy body of the same length stands  *)
(* for one that is not to be dumped.                                       *)
dummyBody == ~s.t.body /\ s.t.len > 0
DumpRequestOut ==
    /\ Here /\ s.pc = "start" /\ s.t.call = "out" /\ ~drainFails
    /\ LET x == IF drained THEN drainBody(s) ELSE [s EXCEPT !.save = s.body]
           sent == IF dummyBody THEN [i \in 1..s.t.len |-> -i] ELSE s.body
       IN  s' = [x EXCEPT !.pc = "trip", !.hp = "read", !.todo = <<0>> \o sent, !.body = sent,
                          !.wl = IF s.t.fault = "early" THEN "none" ELSE "run",
                          !.rl = IF s.t.fault = "early" THEN "none" ELSE "read",
                          !.rt = IF s.t.fault = "early" THEN "error" ELSE "none"]

(* writeLoop: MultiWriter writes to the record, and then to the pipe,      *)
(* where the write waits until it was read or the pipe is closed.          *)
writeNext ==
    /\ Here /\ s.wl = "run" /\ s.todo # <<>>
    /\ s' = [s EXCEPT !.buf = Append(@, Head(s.todo)), !.todo = Tail(@), !.wl = "pipe"]

writeClosed ==
    /\ Here /\ s.wl = "pipe" /\ s.pipe = "closed"
    /\ s' = [s EXCEPT !.wl = "end"]

(* The last part was written; a body shorter than its Content-Length ends  *)
(* the round trip with an error.                                           *)
writeEnds ==
    /\ Here /\ s.wl = "run" /\ s.todo = <<>>
    /\ s' = [s EXCEPT !.wl = "end", !.rt = IF @ = "none" /\ s.t.fault = "short" THEN "error" ELSE @]

(* The context of the request ends while RoundTrip waits.                  *)
cancel ==
    /\ Here /\ s.pc = "trip" /\ s.rt = "none" /\ s.t.fault = "cancel"
    /\ s' = [s EXCEPT !.rt = "error"]

(* The goroutine: it reads from the pipe until the request is complete.    *)
readsHead == s.in >= 1
readsAll == s.in = 1 + s.t.len /\ s.t.fault # "short"
helperReads ==
    /\ Here /\ s.hp = "read" /\ s.wl = "pipe" /\ s.pipe = "open"
    /\ s' = [s EXCEPT !.in = @ + 1, !.wl = "run", !.hp = IF s.t.fault = "odd" THEN "reply" ELSE @]

helperHasAll ==
    /\ Here /\ s.hp = "read"
    /\ IF s.pipe = "closed" THEN TRUE ELSE readsAll
    /\ s' = [s EXCEPT !.hp = "reply"]

(* select: the reply for readLoop, which waits for it; or the end.         *)
reply ==
    /\ Here /\ s.hp = "reply" /\ s.rl = "read"
    /\ s' = [s EXCEPT !.hp = "end", !.rl = "end", !.rt = IF @ = "none" THEN "response" ELSE @]

quitUnheard == FALSE
quitHeard == s.quit
helperQuits ==
    /\ Here /\ s.hp = "reply" /\ quitHeard
    /\ s' = [s EXCEPT !.hp = "end", !.c = "closed"]

(* delegateReader.Read when the channel is closed.                         *)
readClosed ==
    /\ Here /\ s.rl = "read" /\ s.c = "closed"
    /\ s' = [s EXCEPT !.rl = "end"]

(* RoundTrip returned: the body is put back; on an error the pipe is       *)
(* closed and the goroutine told; a dummy body is cut off the record.      *)
RoundTripReturns ==
    /\ Here /\ s.pc = "trip" /\ s.rt # "none"
    /\ s' = [s EXCEPT !.pc = "done", !.body = s.save, !.pipe = "closed",
                      !.quit = s.rt = "error", !.ret = IF s.rt = "error" THEN "error" ELSE "nil",
                      !.dump = IF s.rt = "error" THEN <<>> ELSE IF dummyBody THEN <<0>> ELSE s.buf]

Transport == writeNext \/ writeClosed \/ writeEnds \/ readClosed
Helper == helperReads \/ helperHasAll \/ reply \/ helperQuits
Caller == Fails \/ DumpInMemory \/ DumpRequestOut \/ RoundTripReturns
Next == Here /\ (Transport \/ Helper \/ Caller \/ cancel)

(* Each goroutine goes on when it can.                                     *)
Process(k) == Here /\ ((k = 1 /\ Transport) \/ (k = 2 /\ Helper) \/ (k = 3 /\ Caller))
Fair == \A k \in 1..3 : WF_s(Process(k))

-----------------------------------------------------------------------------
(* A dump that succeeds has the head and, when asked for, every part of    *)
(* the body; and unless reading it failed the body of the message yields   *)
(* afterwards what it yielded before.                                      *)
DumpExact ==
    (Here /\ s.pc = "done") =>
      /\ s.ret = "nil" => s.dump = <<0>> \o (IF s.t.body THEN parts(s.t.len) ELSE <<>>)
      /\ s.t.fault # "read" => s.body = parts(s.t.len)

(* The call returns and leaves no goroutine behind ("We need this channel  *)
(* to ensure that the reader goroutine exits if t.RoundTrip returns an     *)
(* error").                                                                *)
Due(k) == k = 1 /\ Here
Met(k) == k = 1 /\ Here /\ s.pc = "done" /\ \A g \in {s.hp, s.wl, s.rl} : g \in {"none", "end"}
DumpReturns == Due(1) ~> Met(1)
=============================================================================
