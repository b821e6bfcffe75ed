----------------------------- MODULE PersistPipe -----------------------------
(***************************************************************************)
(* The pipelined connections of src/httputil/persist.go: a ClientConn on   *)
(* which every request is a goroutine calling Do, and at the other end a   *)
(* ServerConn whose program reads requests until Read fails, answers each  *)
(* one on a goroutine of its own, and then calls Close.  Both number their *)
(* exchanges with a textproto.Pipeline: one sequencer for the requests and *)
(* one for the responses, each letting the holder of its current number    *)
(* go.  A message on the wire is a head and, where it has one, a body.     *)
(***************************************************************************)
EXTENDS Naturals, Sequences, FiniteSets

CONSTANTS
    N,            \* requests 1..N
    Confs         \* [close: requests with Close set, rclose: answers with Close set,
                  \*  body: requests with a body, rbody: answers with a body, ops]

VARIABLE s

Here == s.m = "pipe"

Reqs == 1..N

(* One end (ClientConn, ServerConn): whether it still holds c and r, its   *)
(* sticky errors, the message whose body may be unread, the two counts,    *)
(* and its Pipeline: the next number and the two sequencers.               *)
end == [held |-> TRUE, re |-> FALSE, we |-> FALSE, lastbody |-> 0, nread |-> 0, nwritten |-> 0,
        next |-> 1, req |-> 1, resp |-> 1]

Init ==
    \E t \in Confs :
      s = [m |-> "pipe", t |-> t, cc |-> end, sc |-> end, broken |-> FALSE,
           up |-> <<>>, down |-> <<>>,                                  \* the two directions of the wire
           pc |-> [r \in Reqs |-> "idle"], id |-> [r \in Reqs |-> 0],    \* Do
           got |-> [r \in Reqs |-> 0],                                  \* the answer Do returned
           rd |-> "loop", rid |-> 0,                                    \* the server's Read
           at |-> [r \in Reqs |-> "none"], sid |-> [r \in Reqs |-> 0],   \* the server's Write
           garbled |-> FALSE]                                           \* a body was parsed as a head

message(r, bodies) == <<<<"head", r>>>> \o (IF r \in bodies THEN <<<<"body", r>>>> ELSE <<>>)
op(o) == o \in s.t.ops

(* The end of a call: EndRequest or EndResponse lets the next number go.   *)
endRequest(x) == [x EXCEPT !.req = @ + 1]
endResponse(x) == [x EXCEPT !.resp = @ + 1]

(* ClientConn.Write.  A failure found before the write returns without     *)
(* setting err, so the deferred function takes the call for a success: the *)
(* request keeps its number and the response sequencer is not moved.       *)
Number(r) ==
    /\ Here /\ s.pc[r] = "idle"
    /\ s' = [s EXCEPT !.pc[r] = "start", !.id[r] = s.cc.next, !.cc.next = @ + 1]

myRequest(r) == Here /\ s.pc[r] = "start" /\ s.cc.req = s.id[r]
refused == s.cc.re \/ s.cc.we \/ ~s.cc.held

WriteRefused(r) ==
    /\ myRequest(r) /\ refused
    /\ s' = [s EXCEPT !.pc[r] = "failed", !.cc = endRequest(@)]

WriteStart(r) ==
    /\ myRequest(r) /\ ~refused
    /\ s' = [s EXCEPT !.pc[r] = "writing", !.cc.we = r \in s.t.close]

WriteRequest(r) ==
    /\ Here /\ s.pc[r] = "writing" /\ ~s.broken
    /\ s' = [s EXCEPT !.pc[r] = "written", !.up = @ \o message(r, s.t.body),
                      !.cc = [endRequest(@) EXCEPT !.nwritten = @ + 1]]

WriteFails(r) ==
    /\ Here /\ s.pc[r] = "writing" /\ s.broken
    /\ s' = [s EXCEPT !.pc[r] = "skipping", !.cc = [endRequest(@) EXCEPT !.we = TRUE]]

(* A failed write passes its turn among the responses, once it has come.   *)
SkipResponse(r) ==
    /\ Here /\ s.pc[r] = "skipping" /\ s.cc.resp = s.id[r]
    /\ s' = [s EXCEPT !.pc[r] = "failed", !.cc = endResponse(@)]

(* ClientConn.Read, in its turn: the body of the answer before is closed,  *)
(* which discards what is left of it, and the next answer is read.  Either *)
(* fails at the end of a broken connection.                                *)
clientTurnAny(r) == s.pc[r] = "written"
clientTurn(r) == s.pc[r] = "written" /\ s.cc.resp = s.id[r]
ReadRefusedInTurn(r) ==
    /\ Here /\ clientTurn(r) /\ (s.cc.re \/ ~s.cc.held)
    /\ s' = [s EXCEPT !.pc[r] = "failed"]
ReadRefused(r) ==
    /\ Here /\ clientTurn(r) /\ (s.cc.re \/ ~s.cc.held)
    /\ s' = [s EXCEPT !.pc[r] = "failed", !.cc = endResponse(@)]

ReadStart(r) ==
    /\ Here /\ clientTurn(r) /\ ~(s.cc.re \/ ~s.cc.held)
    /\ s' = [s EXCEPT !.pc[r] = "reading"]

unread(x, wire) == Len(wire) > 0 /\ Head(wire) = <<"body", x.lastbody>>
discardedNone(x, wire) == wire
discarded(x, wire) == IF unread(x, wire) THEN Tail(wire) ELSE wire

ReadResponse(r) ==
    /\ Here /\ s.pc[r] = "reading" /\ discarded(s.cc, s.down) # <<>>
    /\ LET wire == discarded(s.cc, s.down)
           k == wire[1][2]
       IN  s' = [s EXCEPT !.pc[r] = "done", !.got[r] = k, !.down = Tail(wire),
                          !.garbled = @ \/ wire[1][1] = "body",
                          !.cc = [endResponse(@) EXCEPT !.lastbody = k, !.nread = @ + 1,
                                                        !.re = k \in s.t.rclose]]

ReadFails(r) ==
    /\ Here /\ s.pc[r] = "reading" /\ discarded(s.cc, s.down) = <<>> /\ s.broken
    /\ s' = [s EXCEPT !.pc[r] = "failed", !.cc = [endResponse(@) EXCEPT !.re = TRUE, !.lastbody = 0]]

(* The caller of Do may read the body of its answer, or leave it.          *)
ReadBody(r) ==
    /\ Here /\ s.pc[r] = "done" /\ s.cc.lastbody = r /\ unread(s.cc, s.down)
    /\ s' = [s EXCEPT !.down = Tail(@)]

(* ServerConn.Read.  A Read that returns no request passes its turn among  *)
(* the responses before it returns.                                        *)
ServerNumber ==
    /\ Here /\ s.rd = "loop"
    /\ s' = [s EXCEPT !.rd = "start", !.rid = s.sc.next, !.sc.next = @ + 1]

ServerReadRefused ==
    /\ Here /\ s.rd = "start" /\ (s.sc.we \/ s.sc.re \/ ~s.sc.held)
    /\ s' = [s EXCEPT !.rd = "skipping", !.sc = endRequest(@)]

ServerReadStart ==
    /\ Here /\ s.rd = "start" /\ ~(s.sc.we \/ s.sc.re \/ ~s.sc.held)
    /\ s' = [s EXCEPT !.rd = "reading"]

ReadRequest ==
    /\ Here /\ s.rd = "reading" /\ discarded(s.sc, s.up) # <<>>
    /\ LET wire == discarded(s.sc, s.up)
           r == wire[1][2]
       IN  s' = [s EXCEPT !.rd = IF r \in s.t.close THEN "ended" ELSE "loop",
                          !.up = Tail(wire), !.garbled = @ \/ wire[1][1] = "body",
                          !.at[r] = "read", !.sid[r] = s.rid,
                          !.sc = [endRequest(@) EXCEPT !.lastbody = r, !.nread = @ + 1,
                                                       !.re = @ \/ r \in s.t.close]]

ServerReadFails ==
    /\ Here /\ s.rd = "reading" /\ discarded(s.sc, s.up) = <<>> /\ s.broken
    /\ s' = [s EXCEPT !.rd = "skipping", !.sc = [endRequest(@) EXCEPT !.re = TRUE, !.lastbody = 0]]

ServerSkip ==
    /\ Here /\ s.rd = "skipping" /\ s.sc.resp = s.rid
    /\ s' = [s EXCEPT !.rd = "ended", !.sc = endResponse(@)]

ServerReadBody(r) ==
    /\ Here /\ s.at[r] = "read" /\ s.sc.lastbody = r /\ unread(s.sc, s.up)
    /\ s' = [s EXCEPT !.up = Tail(@)]

(* ServerConn.Write, in the turn of the request.                           *)
serverTurnAny(r) == s.at[r] = "read"
serverTurn(r) == s.at[r] = "read" /\ s.sc.resp = s.sid[r]
ServerWriteRefused(r) ==
    /\ Here /\ serverTurn(r) /\ (s.sc.we \/ ~s.sc.held \/ s.sc.nread <= s.sc.nwritten)
    /\ s' = [s EXCEPT !.at[r] = "failed", !.sc = endResponse(@)]

ServerWriteStart(r) ==
    /\ Here /\ serverTurn(r) /\ ~(s.sc.we \/ ~s.sc.held \/ s.sc.nread <= s.sc.nwritten)
    /\ s' = [s EXCEPT !.at[r] = "writing", !.sc.re = @ \/ r \in s.t.rclose]

WriteResponse(r) ==
    /\ Here /\ s.at[r] = "writing" /\ ~s.broken
    /\ s' = [s EXCEPT !.at[r] = "answered", !.down = @ \o message(r, s.t.rbody),
                      !.sc = [endResponse(@) EXCEPT !.nwritten = @ + 1]]

ServerWriteFails(r) ==
    /\ Here /\ s.at[r] = "writing" /\ s.broken
    /\ s' = [s EXCEPT !.at[r] = "failed", !.sc = [endResponse(@) EXCEPT !.we = TRUE]]

(* Close (Hijack and the close of the connection).                         *)
ServerClose ==
    /\ Here /\ s.rd = "ended" /\ s.sc.held
    /\ \A r \in Reqs : s.at[r] \notin {"read", "writing"}
    /\ s' = [s EXCEPT !.sc.held = FALSE, !.broken = TRUE]

ClientClose ==
    /\ Here /\ op("close") /\ s.cc.held
    /\ s' = [s EXCEPT !.cc.held = FALSE, !.broken = TRUE]

(* The connection breaks, and what was on its way is lost from some point. *)
Break ==
    /\ Here /\ op("break") /\ ~s.broken
    /\ \E i \in 0..Len(s.up), j \in 0..Len(s.down) :
         s' = [s EXCEPT !.broken = TRUE, !.up = SubSeq(@, 1, i), !.down = SubSeq(@, 1, j)]

DoStep(r) ==
    \/ Number(r) \/ WriteRefused(r) \/ WriteStart(r) \/ WriteRequest(r) \/ WriteFails(r)
    \/ SkipResponse(r) \/ ReadRefused(r) \/ ReadStart(r) \/ ReadResponse(r) \/ ReadFails(r)
ReaderStep ==
    \/ ServerNumber \/ ServerReadRefused \/ ServerReadStart \/ ReadRequest
    \/ ServerReadFails \/ ServerSkip \/ ServerClose
AnswerStep(r) ==
    ServerWriteRefused(r) \/ ServerWriteStart(r) \/ WriteResponse(r) \/ ServerWriteFails(r)

Next ==
    /\ Here
    /\ \/ \E r \in Reqs : DoStep(r) \/ AnswerStep(r) \/ ReadBody(r) \/ ServerReadBody(r)
       \/ ReaderStep \/ ClientClose \/ Break

(* Every call that can go on does: the goroutines of the two programs run. *)
Process(k) ==
    /\ Here
    /\ \/ k = 1 /\ ReaderStep
       \/ \E r \in Reqs : (k = 2 * r /\ DoStep(r)) \/ (k = 2 * r + 1 /\ AnswerStep(r))
Fair == \A k \in 1..(2 * N + 1) : WF_s(Process(k))

-----------------------------------------------------------------------------

(* However the answers are attempted and the bodies left unread, Do        *)
(* returns the answer to its own request, neither end takes a body for a   *)
(* head, and Pending counts the exchanges that are still open.             *)
PipelineExact ==
    Here =>
      /\ ~s.garbled
      /\ \A r \in Reqs : s.pc[r] = "done" => s.got[r] = r /\ s.at[r] = "answered"
      /\ s.sc.nread - s.sc.nwritten = Cardinality({r \in Reqs : s.at[r] \in {"read", "writing", "failed"}})
      /\ s.cc.nread = Cardinality({r \in Reqs : s.pc[r] = "done"})

(* Every Do returns, and so does every Write of the server: no goroutine   *)
(* waits for a turn that does not come.                                    *)
Waiting(k) == Here /\ \E r \in Reqs : \/ k = 1 /\ s.pc[r] \notin {"idle", "done", "failed"}
                                      \/ k = 2 /\ s.at[r] \in {"read", "writing"}
Due(k) == k \in 1..2 /\ Waiting(k)
Met(k) == k \in 1..2 /\ Here /\ ~Waiting(k)
PipelineReturns == \A k \in 1..2 : Due(k) ~> Met(k)
==============================================================================
