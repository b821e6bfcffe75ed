--------------------------- MODULE ServerHandlers ---------------------------
(***************************************************************************)
(* Two handlers of the server (src/server.go).                             *)
(***************************************************************************)
EXTENDS Naturals, FiniteSets, SequencesExt, Sequences

CONSTANTS Patterns, Paths, Hosts, Port(_)     \* Port(h): h without its port

CONSTANTS MaxOps, Codes    \* bound on the handler's operations; statuses it sets

VARIABLE s

-----------------------------------------------------------------------------
(* ServeMux (src/server.go): patterns are registered one after another in  *)
(* any order; at every moment any request may be looked up.                *)
(*                                                                         *)
(* A path is the sequence of its elements: "/a/b" is <<"a","b">>, "/a/" is *)
(* <<"a","">>, "/" is <<"">> and the empty path is <<>>.  Elements other   *)
(* than "" have the same length.  A pattern is a host ("" for none) and a  *)
(* path.                                                                   *)
MuxHere == s.m = "mux"

MuxInit == s = [m |-> "mux", reg |-> {}, es |-> <<>>, hosts |-> FALSE]

-----------------------------------------------------------------------------
(* Handle *)
length(e) == 2 * Len(e.path) - (IF Last(e.path) = "" THEN 1 ELSE 0) + (IF e.host = "" THEN 0 ELSE 1)

(* (Fault: the entry goes to the end.) *)
appendLast(es, e) == Append(es, e)
appendSorted(es, e) ==
    InsertAt(es, Cardinality({i \in DOMAIN es : length(es[i]) >= length(e)}) + 1, e)

Handle(e) ==
    /\ MuxHere /\ e \notin s.reg                    \* otherwise it panics
    /\ s' = [s EXCEPT !.reg = @ \cup {e},
                      !.es = IF Last(e.path) = "" THEN appendSorted(@, e) ELSE @,
                      !.hosts = @ \/ e.host # ""]

-----------------------------------------------------------------------------
(* Handler *)
Clean(p) ==       \* path.Clean of a rooted path
    FoldLeft(LAMBDA np, x : IF x \in {"", "."} THEN np
                            ELSE IF x = ".." THEN (IF np = <<>> THEN np ELSE Front(np))
                            ELSE Append(np, x), <<>>, p)
cleanPath(p) ==
    LET np == Clean(p) IN
    IF np = <<>> THEN <<"">> ELSE IF Last(p) = "" THEN Append(np, "") ELSE np

Pattern(host, path) == [host |-> host, path |-> path]
NotFound == Pattern("", <<>>)

HasPrefix(path, e) == Len(e.path) <= Len(path) /\ Front(e.path) = SubSeq(path, 1, Len(e.path) - 1)
match(host, path) ==
    LET fits == {i \in DOMAIN s.es : s.es[i].host = host /\ HasPrefix(path, s.es[i])} IN
    IF Pattern(host, path) \in s.reg THEN Pattern(host, path)
    ELSE IF fits = {} THEN NotFound
    ELSE s.es[CHOOSE i \in fits : \A j \in fits : i <= j]

handler(host, path) ==
    LET specific == match(host, path) IN
    IF s.hosts /\ specific # NotFound THEN specific ELSE match("", path)

shouldRedirect(host, path) ==
    /\ \A h \in {"", host} : Pattern(h, path) \notin s.reg
    /\ path # <<>> /\ Last(path) # ""
    /\ \E h \in {"", host} : Pattern(h, Append(path, "")) \in s.reg

Answer(pattern) == [to |-> <<>>, pattern |-> pattern]
Redirect(path, pattern) == [to |-> path, pattern |-> pattern]

Handler(method, reqHost, reqPath) ==
    LET connect == method = "CONNECT"
        host == IF connect THEN reqHost ELSE Port(reqHost)
        path == IF connect THEN reqPath ELSE cleanPath(reqPath) IN
    IF shouldRedirect(host, path) THEN Redirect(Append(path, ""), Pattern("", Append(path, "")))
    ELSE IF path # reqPath THEN Redirect(path, handler(host, path))
    ELSE Answer(handler(host, path))

MuxNext == MuxHere /\ \E e \in Patterns : Handle(e)

-----------------------------------------------------------------------------
Fits(host, path) ==
    {e \in s.reg : e.host = host /\ (e.path = path \/ (Last(e.path) = "" /\ HasPrefix(path, e)))}
Longest(S) == IF S = {} THEN NotFound
              ELSE CHOOSE e \in S : \A f \in S : length(f) <= length(e)

(* Whatever the order of registration: a request that is answered goes to  *)
(* the longest pattern of its host or, if none of the host's patterns      *)
(* fits, to the longest generic one; a request that is redirected is       *)
(* answered at the next attempt.                                           *)
MuxSound ==
    MuxHere => \A method \in {"GET", "CONNECT"}, host \in Hosts, path \in Paths :
        LET r == Handler(method, host, path)
            h == IF method = "CONNECT" THEN host ELSE Port(host) IN
        IF r.to # <<>> THEN Handler(method, host, r.to).to = <<>>
        ELSE r.pattern = LET own == IF h = "" THEN {} ELSE Fits(h, path) IN
                         Longest(IF own # {} THEN own ELSE Fits("", path))

(* "in the case of internally-generated redirects, the pattern that will   *)
(* match after following the redirect"                                     *)
PatternPromised ==
    MuxHere => \A host \in Hosts, path \in Paths :
        LET r == Handler("GET", host, path) IN
        r.to # <<>> => Handler("GET", host, r.to).pattern = r.pattern

-----------------------------------------------------------------------------
(* timeoutHandler.ServeHTTP and its timeoutWriter (src/server.go): the     *)
(* wrapped handler runs in a goroutine of its own and goes on after the    *)
(* time limit.  A critical section of tw.mu is one action.  The handler    *)
(* does any MaxOps of the operations its ResponseWriter has.               *)
TimeoutHere == s.m = "timeout"

TimeoutInit ==
    s = [m |-> "timeout", h |-> "runs", n |-> 0, ctx |-> FALSE,
         tw |-> [hdr |-> 0, wroteHeader |-> FALSE, code |-> 0, wbuf |-> <<>>, timedOut |-> FALSE],
         w |-> [by |-> "nobody", hdr |-> 0, code |-> 0, body |-> <<>>, seen |-> 0],  \* the server's ResponseWriter
         ok |-> <<>>, late |-> FALSE]     \* writes that succeeded; Push came after ServeHTTP returned

Handling == TimeoutHere /\ s.h = "runs" /\ s.n < MaxOps
Step(t) == [s EXCEPT !.n = @ + 1, !.tw = t]

writeHeaderLocked(t, code) ==
    IF t.timedOut \/ t.wroteHeader THEN t ELSE [t EXCEPT !.wroteHeader = TRUE, !.code = code]

Header == Handling /\ s' = Step([s.tw EXCEPT !.hdr = s.n + 1])
WriteHeader(code) == Handling /\ s' = Step(writeHeaderLocked(s.tw, code))

(* (Fault: the handler is not told.) *)
writeAlways == TRUE
writeInTime == ~s.tw.timedOut
Write ==
    /\ Handling
    /\ s' = IF writeInTime
              THEN [Step([writeHeaderLocked(s.tw, 200) EXCEPT !.wbuf = Append(@, s.n)])
                      EXCEPT !.ok = Append(@, s.n)]
              ELSE Step(s.tw)

(* Push goes to the server's ResponseWriter without tw.mu. *)
Push == Handling /\ s' = [Step(s.tw) EXCEPT !.late = @ \/ s.w.by # "nobody"]

handlerEnds(how) == TimeoutHere /\ s.h = "runs" /\ s' = [s EXCEPT !.h = how]
contextDone == TimeoutHere /\ ~s.ctx /\ s' = [s EXCEPT !.ctx = TRUE]

Selects == TimeoutHere /\ s.w.by = "nobody"

finished(t) ==
    [by |-> "handler", hdr |-> t.hdr, code |-> IF t.wroteHeader THEN t.code ELSE 200, body |-> t.wbuf,
     seen |-> Len(s.ok)]
selectDone == Selects /\ s.h = "returned" /\ s' = [s EXCEPT !.w = finished(s.tw)]

selectPanic == Selects /\ s.h = "panicked" /\ s' = [s EXCEPT !.w.by = "panic"]

selectTimeout ==
    /\ Selects /\ s.ctx
    /\ s' = [s EXCEPT !.w = [by |-> "timeout", hdr |-> 0, code |-> 503, body |-> <<>>,
                                seen |-> Len(s.ok)],
                      !.tw.timedOut = TRUE]

TimeoutNext ==
    /\ TimeoutHere
    /\ \/ Header \/ Write \/ Push \/ contextDone \/ selectDone \/ selectPanic \/ selectTimeout
       \/ \E code \in Codes : WriteHeader(code)
       \/ \E how \in {"returned", "panicked"} : handlerEnds(how)

(* The reply is all of the handler's, with every byte whose Write returned *)
(* no error, or it is the 503; after either no Write succeeds.             *)
OneReply ==
    TimeoutHere /\ s.w.by \in {"handler", "timeout"} =>
      /\ Len(s.ok) = s.w.seen
      /\ s.w.by = "handler" => /\ s.w.body = s.ok /\ s.w.hdr = s.tw.hdr
                               /\ s.w.code = IF s.tw.wroteHeader THEN s.tw.code ELSE 200

(* No Push reaches the ResponseWriter after ServeHTTP has returned. *)
PushInTime == TimeoutHere => ~s.late
=============================================================================
