------------------------------ MODULE H2Inflow ------------------------------
(***************************************************************************)
(* Flow control of what an HTTP/2 client receives (src/http2/transport.go: *)
(* newClientConn, processData, transportResponseBody.Read and Close): the  *)
(* client's account of the windows it has given to the server, the bytes   *)
(* in the pipes, and the server's own account.                             *)
(*                                                                         *)
(* Amounts are in units of the order of 4 KB.  WINDOW_UPDATE frames reach  *)
(* the server at once, DATA frames take their time (net).  A stream that   *)
(* was closed is gone for the client while its DATA is still on its way.   *)
(***************************************************************************)
EXTENDS Integers, Sequences, FiniteSets, Functions

CONSTANTS
    MaxInt32,       \* 2^31 - 1; a smaller one shows the same edges
    Streams,
    Default,        \* the initial window of RFC 7540 (65535)
    Threshold,      \* aggressiveThreshold (16384)
    MinRefresh,     \* transportDefaultStreamMinRefresh (4096)
    MaxNet,         \* frames on their way
    Confs           \* [setting: SETTINGS_INITIAL_WINDOW_SIZE of the Transport (-1: none), conn: its ConnectionFlow,
                    \*  small: the peer's own initial window is below 1 MB, pad: most padding of a frame,
                    \*  body: units the server has for each stream, decl: what Content-Length says (-1: nothing),
                    \*  close, cancel: streams whose reader may give up, over: the server may ignore the windows]

VARIABLE s

Here == s.m = "inflow"

-----------------------------------------------------------------------------
(* A flow-control window (src/http2/flow.go): an int32 for a stream, that  *)
(* shares the one of its connection.                                       *)
Int32 == (-MaxInt32 - 1) .. MaxInt32

(* Two's complement: the sum of two int32 values. *)
wrap(x) ==
    IF x > MaxInt32 THEN x - 2 * (MaxInt32 + 1)
    ELSE IF x < -MaxInt32 - 1 THEN x + 2 * (MaxInt32 + 1) ELSE x

(* flow.available: n of the stream, conn of its connection. *)
available(n, conn) == IF conn < n THEN conn ELSE n

(* flow.add: whether the window can grow by k, and what it is then; a sum  *)
(* that does not fit leaves it as it was.                                  *)
canAdd(n, k) == (wrap(n + k) > k) <=> (n > 0)
add(n, k) == IF canAdd(n, k) THEN wrap(n + k) ELSE n

-----------------------------------------------------------------------------
(* newClientConn: the window the client counts with, and the one the       *)
(* server was told of.                                                     *)
ownDefault(t) == IF t.setting \in {-1, 0} THEN Default + Threshold ELSE t.setting
streamFlow(t) == IF t.setting \in {-1, 0} THEN Default ELSE t.setting
peerWindow(t) == IF t.setting = -1 THEN Default ELSE t.setting

Init ==
    \E t \in Confs :
      s = [m |-> "inflow", t |-> t,
           cin |-> add(0, wrap(t.conn + Default)), sin |-> [i \in Streams |-> streamFlow(t)],  \* inflow.n
           win |-> t.conn + Default, swin |-> [i \in Streams |-> peerWindow(t)],               \* as the server counts
           buf |-> [i \in Streams |-> 0],                   \* units in each pipe
           st |-> [i \in Streams |-> "open"],               \* "open", "reset" (didReset) or "gone"
           rd |-> [i \in Streams |-> "reading"],            \* its reader, or Close, or how it ended
           unread |-> [i \in Streams |-> 0],                \* what Close saw in the pipe
           rem |-> t.decl, left |-> t.body,                 \* bytesRemain; what the server has yet to send
           net |-> <<>>, dead |-> FALSE,
           drift |-> 0]                                     \* units added for streams that were gone

-----------------------------------------------------------------------------
(* The server sends what its windows allow, unless it is at fault, and     *)
(* pads if it likes.                                                       *)
serverData(i) ==
    /\ Here /\ ~s.dead /\ s.left[i] > 0 /\ Len(s.net) < MaxNet
    /\ \E n \in 1..s.left[i], pad \in 0..s.t.pad :
         /\ s.t.over \/ (n + pad <= s.win /\ n + pad <= s.swin[i])
         /\ s' = [s EXCEPT !.win = @ - n - pad, !.swin[i] = @ - n - pad, !.left[i] = @ - n,
                           !.net = Append(@, [s |-> i, n |-> n, pad |-> pad, end |-> s.left[i] = n])]

(* processData for a stream that is gone: the units are given back, and    *)
(* added to an account they were never taken from.                         *)
arrived == Here /\ ~s.dead /\ s.net # <<>>
frame == Head(s.net)
size(f) == f.n + f.pad
dataGone ==
    /\ arrived /\ s.st[frame.s] = "gone"
    /\ s' = [s EXCEPT !.cin = add(@, size(frame)), !.win = @ + size(frame), !.drift = @ + size(frame),
                      !.net = Tail(@)]

(* processData: more than the window allows ends the connection; padding,  *)
(* and all of it once the stream was reset, goes back at once; the rest    *)
(* goes into the pipe.                                                     *)
allowed(f) == available(s.sin[f.s], s.cin) >= size(f)
refund(f) == f.pad + IF s.st[f.s] = "reset" THEN f.n ELSE 0
dataRefused ==
    /\ arrived /\ s.st[frame.s] # "gone" /\ ~allowed(frame)
    /\ s' = [s EXCEPT !.dead = TRUE, !.net = Tail(@)]

processData ==
    /\ arrived /\ s.st[frame.s] # "gone" /\ allowed(frame)
    /\ LET f == frame
           open == s.st[f.s] = "open"
           back == IF open THEN refund(f) ELSE 0
       IN  s' = [s EXCEPT !.cin = add(@ - size(f), refund(f)), !.win = @ + refund(f),
                          !.sin[f.s] = add(@ - size(f), back), !.swin[f.s] = @ + back,
                          !.buf[f.s] = @ + IF open THEN f.n ELSE 0,
                          !.st[f.s] = IF f.end THEN "gone" ELSE @, !.net = Tail(@)]

(* transportResponseBody.Read of n units: what goes back to the connection *)
(* and to the stream.                                                      *)
connAdd == IF s.cin < s.t.conn \div 2 THEN s.t.conn - s.cin ELSE 0
unsentAll(i, n) == streamFlow(s.t) - available(s.sin[i], s.cin + connAdd)
unsent(i, n) == streamFlow(s.t) - available(s.sin[i], s.cin + connAdd) - (s.buf[i] - n)
isSmallWindow == s.t.small
refreshedAtEnd(k) == k > streamFlow(s.t)
refreshed(k) ==
    IF isSmallWindow THEN k > Threshold ELSE k > MinRefresh /\ k > streamFlow(s.t) \div 2
streamAdd(i, n) == IF refreshed(unsent(i, n)) THEN unsent(i, n) ELSE 0

Reading(i) == s.rd[i] \in {"reading", "canceled"}
tooMuch(i, n) == s.rem[i] # -1 /\ n > s.rem[i]
Read(i) ==
    /\ Here /\ Reading(i) /\ s.buf[i] > 0
    /\ \E n \in 1..s.buf[i] :
         s' = IF tooMuch(i, n) THEN [s EXCEPT !.buf[i] = @ - n, !.rd[i] = "err"]
              ELSE [s EXCEPT !.buf[i] = @ - n, !.rem[i] = IF @ = -1 THEN @ ELSE @ - n,
                             !.cin = add(@, connAdd), !.win = @ + connAdd,
                             !.sin[i] = add(@, streamAdd(i, n)), !.swin[i] = @ + streamAdd(i, n)]

endOf(i) == IF s.rem[i] > 0 THEN "err" ELSE "eof"
ReadEnd(i) ==
    /\ Here /\ s.buf[i] = 0 /\ s.rd[i] = "reading" /\ s.st[i] = "gone"
    /\ s' = [s EXCEPT !.rd[i] = endOf(i)]

ReadCanceled(i) ==
    /\ Here /\ s.buf[i] = 0 /\ s.rd[i] = "canceled"
    /\ s' = [s EXCEPT !.rd[i] = "err"]

(* The end of the connection is the end of every body.                     *)
ReadDead(i) ==
    /\ Here /\ s.buf[i] = 0 /\ s.rd[i] = "reading" /\ s.dead /\ s.st[i] # "gone"
    /\ s' = [s EXCEPT !.rd[i] = "err"]

(* Close: it looks at the pipe; with cc.mu it sends RST_STREAM and returns *)
(* the units it saw; then the pipe is broken and the stream forgotten.     *)
closeLook(i) ==
    /\ Here /\ i \in s.t.close /\ Reading(i)
    /\ s' = [s EXCEPT !.unread[i] = s.buf[i],
                      !.rd[i] = IF s.buf[i] > 0 \/ s.st[i] # "gone" \/ @ = "canceled" THEN "look" ELSE "reset"]

closeReset(i) ==
    /\ Here /\ s.rd[i] = "look"
    /\ s' = [s EXCEPT !.rd[i] = "reset", !.cin = add(@, s.unread[i]), !.win = @ + s.unread[i],
                      !.st[i] = IF @ = "open" THEN "reset" ELSE @]

closeForget(i) ==
    /\ Here /\ s.rd[i] = "reset"
    /\ s' = [s EXCEPT !.rd[i] = "off", !.buf[i] = 0, !.st[i] = "gone"]

(* cancelStream, when the context ends: the stream is marked as reset and  *)
(* stays; what is in the pipe can still be read.  (That the pipe is closed *)
(* a step later is in H2Client.)                                           *)
cancelStream(i) ==
    /\ Here /\ i \in s.t.cancel /\ s.st[i] = "open" /\ s.rd[i] = "reading"
    /\ s' = [s EXCEPT !.st[i] = "reset", !.rd[i] = "canceled"]

ReadLoop == dataGone \/ dataRefused \/ processData
Reader(i) == Read(i) \/ ReadEnd(i) \/ ReadCanceled(i) \/ ReadDead(i)
Close(i) == closeReset(i) \/ closeForget(i)
Next ==
    /\ Here
    /\ \/ ReadLoop
       \/ \E i \in Streams : serverData(i) \/ Reader(i) \/ closeLook(i) \/ Close(i) \/ cancelStream(i)

(* Everybody goes on: the server sends what it may, readLoop reads, the    *)
(* reader of a body reads.                                                 *)
Process(k) ==
    /\ Here
    /\ \/ k = 1 /\ ReadLoop
       \/ \E i \in Streams : \/ k = 3 * i - 1 /\ serverData(i)
                             \/ k = 3 * i /\ Reader(i)
                             \/ k = 3 * i + 1 /\ Close(i)
Fair == \A k \in 1..(3 * Cardinality(Streams) + 1) : WF_s(Process(k))

-----------------------------------------------------------------------------
InFlight(i) == SumFunction([k \in DOMAIN s.net |-> IF s.net[k].s = i THEN size(s.net[k]) ELSE 0])
InFlightAll == SumFunction([k \in DOMAIN s.net |-> size(s.net[k])])


(* A reader that goes on reading comes to the end of its body ("Claiming a *)
(* larger window than we advertised makes the refresh threshold below      *)
(* unreachable and stalls the stream forever"; "But at least return their  *)
(* flow control").                                                         *)
BodyArrives == (Here /\ \E i \in Streams : s.rd[i] = "reading") ~> (Here /\ \A i \in Streams : s.rd[i] # "reading")
=============================================================================
