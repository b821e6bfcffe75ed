------------------------------ MODULE H2Frame -------------------------------
(***************************************************************************)
(* The Framer (src/http2/frame.go): the frames its Write methods build and *)
(* its parsers take apart, and the order ReadFrame and readMetaFrame       *)
(* enforce.                                                                *)
(*                                                                         *)
(* An octet is a digit below Base; a uint32 is four of them, so that its   *)
(* high bit is Base^4 \div 2.  Flags are sets of names.                    *)
(***************************************************************************)
EXTENDS Integers, SequencesExt

CONSTANTS
    Base,        \* values of an octet
    Inputs,      \* calls of the Write methods, [w |-> method, ...its parameters]
    Raw,         \* frames from elsewhere, [type, flags, sid, payload]
    Incoming,    \* frames of the order machine, [type, sid, end, bad]
    MaxFrames    \* bound on the frames of the order machine

VARIABLE s

Here == s.m = "frame"

High == Base^4 \div 2
Mask(v) == v % High                                     \* v & (1<<31 - 1)
Uint32(v) == [k \in 1..4 |-> (v \div Base^(4 - k)) % Base]
Value(p) == FoldLeft(LAMBDA n, d : Base * n + d, 0, p)
Take(p, k) == SubSeq(p, 1, k)
Drop(p, k) == SubSeq(p, k + 1, Len(p))
Zeros(k) == [i \in 1..k |-> 0]
Flag(b, name) == IF b THEN {name} ELSE {}

-----------------------------------------------------------------------------
(* The Write methods: the frame, or no frame where they refuse. *)
validStreamID(id) == id # 0 /\ id < High
validStreamIDOrZero(id) == id < High

Frame(type, flags, sid, payload) == [type |-> type, flags |-> flags, sid |-> sid, payload |-> payload]
NoFrame == Frame("none", {}, 0, <<>>)

PriorityBytes(p) == Uint32(p.dep + (IF p.excl THEN High ELSE 0)) \o <<p.weight>>
IsZero(p) == p.dep = 0 /\ ~p.excl /\ p.weight = 0

WriteDataPadded(c) ==
    IF ~validStreamID(c.sid) \/ Len(c.pad) > Base - 1 \/ \E k \in DOMAIN c.pad : c.pad[k] # 0 THEN NoFrame
    ELSE Frame("DATA", Flag(c.end, "END_STREAM") \cup Flag(c.padded, "PADDED"), c.sid,
               (IF c.padded THEN <<Len(c.pad)>> ELSE <<>>) \o c.data \o c.pad)

WriteHeaders(c) ==
    IF ~validStreamID(c.sid) \/ (~IsZero(c.prio) /\ ~validStreamIDOrZero(c.prio.dep)) THEN NoFrame
    ELSE Frame("HEADERS",
               Flag(c.pad # 0, "PADDED") \cup Flag(c.end, "END_STREAM")
                 \cup Flag(c.endHeaders, "END_HEADERS") \cup Flag(~IsZero(c.prio), "PRIORITY"), c.sid,
               (IF c.pad # 0 THEN <<c.pad>> ELSE <<>>)
                 \o (IF IsZero(c.prio) THEN <<>> ELSE PriorityBytes(c.prio)) \o c.frag \o Zeros(c.pad))

WritePushPromise(c) ==
    IF ~validStreamID(c.sid) \/ ~validStreamID(c.promise) THEN NoFrame
    ELSE Frame("PUSH_PROMISE", Flag(c.pad # 0, "PADDED") \cup Flag(c.endHeaders, "END_HEADERS"), c.sid,
               (IF c.pad # 0 THEN <<c.pad>> ELSE <<>>) \o Uint32(c.promise) \o c.frag \o Zeros(c.pad))

WriteContinuation(c) ==
    IF ~validStreamID(c.sid) THEN NoFrame
    ELSE Frame("CONTINUATION", Flag(c.endHeaders, "END_HEADERS"), c.sid, c.frag)

WritePriority(c) ==
    IF ~validStreamID(c.sid) \/ ~validStreamIDOrZero(c.prio.dep) THEN NoFrame
    ELSE Frame("PRIORITY", {}, c.sid, PriorityBytes(c.prio))

WriteRSTStream(c) ==
    IF ~validStreamID(c.sid) THEN NoFrame ELSE Frame("RST_STREAM", {}, c.sid, Uint32(c.code))

WriteWindowUpdate(c) ==
    IF c.incr = 0 \/ c.incr >= High THEN NoFrame ELSE Frame("WINDOW_UPDATE", {}, c.sid, Uint32(c.incr))

WriteSettings(c) ==
    Frame("SETTINGS", {}, 0, FlattenSeq([k \in DOMAIN c.settings |->
                                           <<0, c.settings[k].id>> \o Uint32(c.settings[k].val)]))
WriteSettingsAck(c) == Frame("SETTINGS", {"ACK"}, 0, <<>>)
WritePing(c) == Frame("PING", Flag(c.ack, "ACK"), 0, c.data)
WriteGoAway(c) == Frame("GOAWAY", {}, 0, Uint32(Mask(c.last)) \o Uint32(c.code) \o c.debug)
WriteRawFrame(c) == c.f

(* endWrite refuses a payload whose length does not fit in three octets. *)
Written(c) ==
    LET f == CASE c.w = "data" -> WriteDataPadded(c) [] c.w = "headers" -> WriteHeaders(c)
               [] c.w = "push" -> WritePushPromise(c) [] c.w = "cont" -> WriteContinuation(c)
               [] c.w = "priority" -> WritePriority(c) [] c.w = "rst" -> WriteRSTStream(c)
               [] c.w = "window" -> WriteWindowUpdate(c) [] c.w = "settings" -> WriteSettings(c)
               [] c.w = "ack" -> WriteSettingsAck(c) [] c.w = "ping" -> WritePing(c)
               [] c.w = "goaway" -> WriteGoAway(c) [] c.w = "raw" -> WriteRawFrame(c) IN
    IF Len(f.payload) >= Base^3 THEN NoFrame ELSE f

-----------------------------------------------------------------------------
(* The parsers: what they read, or an error of the connection, of the      *)
(* stream or of the reader ("eof").  A slice out of range is a panic.      *)
Conn == [err |-> "conn"]
Stream == [err |-> "stream"]
Eof == [err |-> "eof"]
Panic == <<-1>>
Slice(p, k) == IF k \in 0..Len(p) THEN Take(p, k) ELSE Panic

(* The optional pad length: [pad, p], or eof. *)
readPad(f) == [pad |-> IF "PADDED" \in f.flags THEN Head(f.payload) ELSE 0,
               p |-> IF "PADDED" \in f.flags THEN Tail(f.payload) ELSE f.payload]
PadMissing(f) == "PADDED" \in f.flags /\ f.payload = <<>>
Prio(p) == [dep |-> Mask(Value(Take(p, 4))), excl |-> Value(Take(p, 4)) >= High, weight |-> p[5]]
NoPrio == [dep |-> 0, excl |-> FALSE, weight |-> 0]

(* (Fault: the padding may be longer than what it pads.) *)
padFitsAny(pad, p) == TRUE
padFits(pad, p) == pad <= Len(p)

parseDataFrame(f) ==
    IF f.sid = 0 THEN Conn ELSE IF PadMissing(f) THEN Eof
    ELSE LET r == readPad(f) IN
         IF ~padFits(r.pad, r.p) THEN Conn
         ELSE [w |-> "data", sid |-> f.sid, end |-> "END_STREAM" \in f.flags,
               data |-> Slice(r.p, Len(r.p) - r.pad)]

parseHeadersFrame(f) ==
    LET prio == "PRIORITY" \in f.flags IN
    IF f.sid = 0 THEN Conn ELSE IF PadMissing(f) THEN Eof
    ELSE LET r == readPad(f)
             rest == IF prio THEN Drop(r.p, 5) ELSE r.p IN
         IF prio /\ Len(r.p) < 5 THEN Eof
         ELSE IF Len(rest) - r.pad <= 0 THEN Stream
         ELSE [w |-> "headers", sid |-> f.sid, end |-> "END_STREAM" \in f.flags,
               endHeaders |-> "END_HEADERS" \in f.flags, prio |-> IF prio THEN Prio(r.p) ELSE NoPrio,
               frag |-> Slice(rest, Len(rest) - r.pad)]

parsePushPromise(f) ==
    IF f.sid = 0 THEN Conn ELSE IF PadMissing(f) THEN Eof
    ELSE LET r == readPad(f)
             rest == Drop(r.p, 4) IN
         IF Len(r.p) < 4 THEN Eof
         ELSE IF ~padFits(r.pad, rest) THEN Conn
         ELSE [w |-> "push", sid |-> f.sid, promise |-> Mask(Value(Take(r.p, 4))),
               endHeaders |-> "END_HEADERS" \in f.flags, frag |-> Slice(rest, Len(rest) - r.pad)]

parseContinuationFrame(f) ==
    IF f.sid = 0 THEN Conn
    ELSE [w |-> "cont", sid |-> f.sid, endHeaders |-> "END_HEADERS" \in f.flags, frag |-> f.payload]

parsePriorityFrame(f) ==
    IF f.sid = 0 \/ Len(f.payload) # 5 THEN Conn
    ELSE [w |-> "priority", sid |-> f.sid, prio |-> Prio(f.payload)]

parseRSTStreamFrame(f) ==
    IF Len(f.payload) # 4 \/ f.sid = 0 THEN Conn
    ELSE [w |-> "rst", sid |-> f.sid, code |-> Value(f.payload)]

parseWindowUpdateFrame(f) ==
    IF Len(f.payload) # 4 THEN Conn
    ELSE IF Mask(Value(f.payload)) = 0 THEN (IF f.sid = 0 THEN Conn ELSE Stream)
    ELSE [w |-> "window", sid |-> f.sid, incr |-> Mask(Value(f.payload))]

InitialWindowSize == 3
Setting(p, k) == [id |-> p[6 * k - 4], val |-> Value(SubSeq(p, 6 * k - 3, 6 * k))]
parseSettingsFrame(f) ==
    LET ack == "ACK" \in f.flags
        all == [k \in 1..Len(f.payload) \div 6 |-> Setting(f.payload, k)]
        sizes == {k \in DOMAIN all : all[k].id = InitialWindowSize} IN
    IF (ack /\ f.payload # <<>>) \/ f.sid # 0 \/ Len(f.payload) % 6 # 0 THEN Conn
    ELSE IF \E k \in sizes : all[k].val >= High /\ \A j \in sizes : k <= j THEN Conn
    ELSE IF ack THEN [w |-> "ack"] ELSE [w |-> "settings", settings |-> all]

parsePingFrame(f) ==
    IF Len(f.payload) # 8 \/ f.sid # 0 THEN Conn
    ELSE [w |-> "ping", ack |-> "ACK" \in f.flags, data |-> f.payload]

parseGoAwayFrame(f) ==
    IF f.sid # 0 \/ Len(f.payload) < 8 THEN Conn
    ELSE [w |-> "goaway", last |-> Mask(Value(Take(f.payload, 4))),
          code |-> Value(SubSeq(f.payload, 5, 8)), debug |-> Drop(f.payload, 8)]

parseUnknownFrame(f) == [w |-> "raw", f |-> f]

(* typeFrameParser; readFrameHeader clears the high bit of the stream. *)
Parsed(g) ==
    LET f == [g EXCEPT !.sid = Mask(@)] IN
    CASE f.type = "DATA" -> parseDataFrame(f) [] f.type = "HEADERS" -> parseHeadersFrame(f)
      [] f.type = "PUSH_PROMISE" -> parsePushPromise(f) [] f.type = "CONTINUATION" -> parseContinuationFrame(f)
      [] f.type = "PRIORITY" -> parsePriorityFrame(f) [] f.type = "RST_STREAM" -> parseRSTStreamFrame(f)
      [] f.type = "WINDOW_UPDATE" -> parseWindowUpdateFrame(f) [] f.type = "SETTINGS" -> parseSettingsFrame(f)
      [] f.type = "PING" -> parsePingFrame(f) [] f.type = "GOAWAY" -> parseGoAwayFrame(f)
      [] OTHER -> parseUnknownFrame(f)

-----------------------------------------------------------------------------
(* ReadFrame, with ReadMetaHeaders set: the frames of a header block must  *)
(* follow each other; `part' is the block as the decoder has it, and `out' *)
(* what ReadFrame returned.                                                *)
Header == {"HEADERS", "PUSH_PROMISE"}
Reading == Here /\ s.k = "order" /\ ~s.over /\ s.n < MaxFrames

(* (Fault: CONTINUATION may be of any stream.) *)
inOrderAnyStream(f) == (s.lastHeader # 0) = (f.type = "CONTINUATION")
inOrder(f) == IF s.lastHeader # 0 THEN f.type = "CONTINUATION" /\ f.sid = s.lastHeader
              ELSE f.type # "CONTINUATION"

(* An error of the parser comes before checkFrameOrder; only an error of   *)
(* the stream lets the caller read on.                                     *)
readFrameFails(f) ==
    /\ Reading /\ f.bad # "no"
    /\ s' = [s EXCEPT !.n = @ + 1, !.sent = Append(@, f), !.over = f.bad = "conn", !.inMeta = FALSE]

checkFrameOrder(f) ==
    /\ Reading /\ f.bad = "no" /\ ~inOrder(f)
    /\ s' = [s EXCEPT !.n = @ + 1, !.sent = Append(@, f), !.over = TRUE]

(* A frame in order: a header block goes to readMetaFrame, and ends there  *)
(* with the decoder's Close; a CONTINUATION that readMetaFrame does not    *)
(* wait for any more is returned by itself.                                *)
readFrame(f) ==
    LET block == f.type \in Header
        meta == block \/ (f.type = "CONTINUATION" /\ s.inMeta)
        part == IF meta THEN Append(s.part, s.n + 1) ELSE s.part IN
    /\ Reading /\ f.bad = "no" /\ inOrder(f)
    /\ s' = [s EXCEPT !.n = @ + 1, !.sent = Append(@, f),
                      !.lastHeader = IF f.type \notin Header \cup {"CONTINUATION"} THEN @
                                     ELSE IF f.end THEN 0 ELSE f.sid,
                      !.inMeta = meta /\ ~f.end,
                      !.part = IF meta /\ f.end THEN <<>> ELSE part,
                      !.out = IF meta /\ f.end THEN Append(@, part) ELSE @]

-----------------------------------------------------------------------------
Init ==
    \/ \E c \in Inputs : s = [m |-> "frame", k |-> "write", c |-> c, done |-> FALSE]
    \/ \E f \in Raw : s = [m |-> "frame", k |-> "raw", f |-> f, done |-> FALSE]
    \/ s = [m |-> "frame", k |-> "order", n |-> 0, lastHeader |-> 0, inMeta |-> FALSE, over |-> FALSE,
            sent |-> <<>>, part |-> <<>>, out |-> <<>>]

write ==
    /\ Here /\ s.k = "write" /\ ~s.done
    /\ s' = [m |-> "frame", k |-> "write", c |-> s.c, done |-> TRUE, f |-> Written(s.c)]
read ==
    /\ Here /\ s.k = "raw" /\ ~s.done
    /\ s' = [m |-> "frame", k |-> "raw", f |-> s.f, done |-> TRUE, r |-> Parsed(s.f)]

Next ==
    /\ Here
    /\ \/ write \/ read
       \/ \E f \in Incoming : readFrameFails(f) \/ checkFrameOrder(f) \/ readFrame(f)

-----------------------------------------------------------------------------
(* A frame that a Write method writes is read back as it was written: the  *)
(* same stream, flags, data, and nothing of the padding.  No frame makes a *)
(* parser panic.                                                           *)
Same(c, r) == \A x \in DOMAIN c \cap DOMAIN r : c[x] = r[x]
FrameRoundTrip ==
    Here /\ s.k \in {"write", "raw"} /\ s.done =>
      CASE s.k = "write" -> s.f # NoFrame => LET r == Parsed(s.f) IN "err" \notin DOMAIN r /\ Same(s.c, r)
        [] s.k = "raw" -> \A x \in DOMAIN s.r \cap {"data", "frag"} : s.r[x] # Panic

(* A header block that ReadFrame hands out is one HEADERS or PUSH_PROMISE  *)
(* frame and the CONTINUATION frames of its stream right behind it.        *)
WholeBlocks ==
    Here /\ s.k = "order" =>
      \A i \in DOMAIN s.out :
        LET b == s.out[i] IN
        /\ s.sent[b[1]].type \in Header
        /\ \A j \in 2..Len(b) : /\ b[j] = b[j - 1] + 1 /\ s.sent[b[j]].type = "CONTINUATION"
                                /\ s.sent[b[j]].sid = s.sent[b[1]].sid
=============================================================================
