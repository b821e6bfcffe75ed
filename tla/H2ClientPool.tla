---------------------------- MODULE H2ClientPool ----------------------------
(***************************************************************************)
(* The pool of HTTP/2 client connections (src/http2/client_conn_pool.go)   *)
(* and Transport.RoundTripOpt over it (src/http2/transport.go): requests   *)
(* to one address that share dials and connections and are tried again.    *)
(* What happens on one connection is in module H2Client.                   *)
(*                                                                         *)
(* A critical section of p.mu is one action.  A body is <<r, g>>: the      *)
(* request and how often GetBody was called.  The goroutine that writes    *)
(* the body of an attempt starts when it is scheduled, which may be after  *)
(* roundTrip has returned.                                                 *)
(***************************************************************************)
EXTENDS Naturals, Sequences, FiniteSets, Functions

CONSTANTS
    Reqs, Conns,   \* Conns is 1..n: connections are made in this order
    Confs   \* [reqs |-> requests made, body |-> request -> "none", "once" or "get", own |-> requests
            \*  with Connection: close, n |-> connections that can be made, retries |-> the largest
            \*  retry that is followed by another (6 in the code), ops |-> what may happen]

VARIABLE s

Here == s.m = "cpool"
May(op) == Here /\ op \in s.t.ops
None == "none"

Init ==
    \E t \in Confs :
      s = [m |-> "cpool", t |-> t,
           r |-> [r \in Reqs |-> [at |-> IF r \in t.reqs THEN "get" ELSE "done", retry |-> 0, cc |-> 0, gen |-> 0, call |-> 0,
                                ret |-> None]],
           c |-> [c \in Conns |-> [up |-> FALSE, used |-> FALSE, goAway |-> FALSE, marked |-> FALSE]],
           conns |-> <<>>, keys |-> {}, dialing |-> 0, calls |-> <<>>,
           add |-> [c \in Conns |-> None], addOf |-> [c \in Conns |-> 0], addCall |-> 0, addErr |-> FALSE,
           writers |-> {}, reads |-> {},             \* <<request, attempt, body>>
           done |-> [r \in Reqs |-> 0]]              \* how often the server processed it

Free == {c \in 1..s.t.n : ~s.c[c].used /\ \A d \in 1..c - 1 : s.c[d].used}
Streams(x, c) == {r \in Reqs : x.r[r].at = "sent" /\ x.r[r].cc = c}
canTake(c) == s.c[c].up /\ ~s.c[c].goAway
Body(r) == <<r, s.r[r].gen>>
Opened(x, c) == [x EXCEPT !.c[c].up = TRUE, !.c[c].used = TRUE]

-----------------------------------------------------------------------------
(* getClientConn *)
getOwn(r) ==
    /\ Here /\ s.r[r].at = "get" /\ r \in s.t.own
    /\ s' \in {[s EXCEPT !.r[r].at = "done", !.r[r].ret = "dial"]} \cup
              {[Opened(s, c) EXCEPT !.r[r].at = "begin", !.r[r].cc = c] : c \in Free}

getShared(r) ==
    LET able == {i \in DOMAIN s.conns : canTake(s.conns[i])}
        first == s.conns[CHOOSE i \in able : \A j \in able : i <= j]
        new == [done |-> FALSE, res |-> 0] IN
    /\ Here /\ s.r[r].at = "get" /\ r \notin s.t.own
    /\ s' = IF able # {} THEN [s EXCEPT !.r[r].at = "begin", !.r[r].cc = first]
            ELSE IF "noDial" \in s.t.ops THEN [s EXCEPT !.r[r].at = "done", !.r[r].ret = "noCached"]
            ELSE IF s.dialing # 0 THEN [s EXCEPT !.r[r].at = "wait", !.r[r].call = s.dialing]
            ELSE [s EXCEPT !.calls = Append(@, new), !.dialing = Len(s.calls) + 1,
                           !.r[r].at = "wait", !.r[r].call = Len(s.calls) + 1]

(* dialCall.dial: those who wait are woken before the pool has the result. *)
dial(k) ==
    /\ Here /\ s.dialing = k /\ ~s.calls[k].done
    /\ s' \in {[s EXCEPT !.calls[k].done = TRUE]} \cup
              {[Opened(s, c) EXCEPT !.calls[k] = [done |-> TRUE, res |-> c]] : c \in Free}

addConnLocked(x, c) ==
    IF c \in Range(x.conns) THEN x ELSE [x EXCEPT !.conns = Append(@, c), !.keys = @ \cup {c}]

dialed(k) ==
    LET x == [s EXCEPT !.dialing = 0] IN
    /\ Here /\ s.dialing = k /\ s.calls[k].done
    /\ s' = IF s.calls[k].res = 0 THEN x ELSE addConnLocked(x, s.calls[k].res)

callDone(r) ==
    LET call == s.calls[s.r[r].call] IN
    /\ Here /\ s.r[r].at = "wait" /\ call.done
    /\ s' = IF call.res = 0 THEN [s EXCEPT !.r[r].at = "done", !.r[r].ret = "dial"]
            ELSE [s EXCEPT !.r[r].at = "begin", !.r[r].cc = call.res]

-----------------------------------------------------------------------------
(* addConnIfNeeded: the HTTP/1 Transport brings connections it has dialled. *)
addConnIfNeeded(c) ==
    /\ May("add") /\ s.add[c] = None /\ c \in Free
    /\ s' = LET x == [s EXCEPT !.c[c].used = TRUE] IN
            IF \E d \in Range(s.conns) : canTake(d) THEN [x EXCEPT !.add[c] = "unused"]
            ELSE IF s.addCall # 0 THEN [x EXCEPT !.add[c] = "waits", !.addOf[c] = s.addCall]
            ELSE [x EXCEPT !.add[c] = "waits", !.addOf[c] = c, !.addCall = c]

(* addConnCall.run: NewClientConn, and then with p.mu the rest. *)
newClientConn(c) ==
    /\ Here /\ s.addCall = c /\ ~s.c[c].up /\ ~s.c[c].marked
    /\ s' = [s EXCEPT !.c[c].up = TRUE]

addRun(c, ok) ==
    /\ Here /\ s.addCall = c /\ (ok => s.c[c].up \/ s.c[c].marked) /\ (~ok => ~s.c[c].up)
    /\ s' = LET x == IF ok THEN addConnLocked(s, c) ELSE s IN
            [x EXCEPT !.addCall = 0,
                      !.add = [d \in Conns |-> IF s.addOf[d] # c THEN @[d] ELSE IF ~ok THEN "error"
                                               ELSE IF d = c THEN "used" ELSE "unused"]]

-----------------------------------------------------------------------------
(* RoundTripOpt: roundTrip on the connection, and whether to try again *)
roundTrip(r) ==
    LET usable == canTake(s.r[r].cc) IN
    /\ Here /\ s.r[r].at = "begin"
    /\ s' = IF ~usable THEN [s EXCEPT !.r[r].at = "failed", !.r[r].ret = "unusable"]
            ELSE [s EXCEPT !.r[r].at = "sent",
                           !.writers = IF s.t.body[r] = "none" THEN @
                                       ELSE @ \cup {<<r, s.r[r].retry, Body(r)>>}]

bodyStarts(w) ==
    /\ Here /\ w \in s.writers
    /\ s' = [s EXCEPT !.writers = @ \ {w}, !.reads = @ \cup {w}]

Started(r) == \E w \in s.reads : w[1] = r /\ w[2] = s.r[r].retry
Writer(r) == {w \in s.writers : w[1] = r /\ w[2] = s.r[r].retry}

answered(r) ==
    /\ Here /\ s.r[r].at = "sent" /\ s.c[s.r[r].cc].up
    /\ s' = [s EXCEPT !.r[r].at = "done", !.r[r].ret = "response", !.done[r] = @ + 1]

(* RST_STREAM with REFUSED_STREAM: roundTrip does not wait for the writer. *)
refused(r) ==
    /\ May("refuse") /\ s.r[r].at = "sent" /\ s.c[s.r[r].cc].up
    /\ s' = [s EXCEPT !.r[r].at = "failed", !.r[r].ret = "refused"]

(* A response with an error, or none because the connection is gone; the   *)
(* server may have processed the request.  roundTrip waits for the writer. *)
lost(r, processed) ==
    /\ Here /\ s.r[r].at = "sent" /\ ~s.c[s.r[r].cc].up /\ Writer(r) = {}
    /\ s' = [s EXCEPT !.r[r].at = "failed", !.r[r].ret = "lost", !.done[r] = @ + processed]

(* GOAWAY: the streams above its last stream were not processed. *)
goAway(c, above) ==
    /\ May("goaway") /\ s.c[c].up /\ ~s.c[c].goAway
    /\ s' = [s EXCEPT !.c[c].goAway = TRUE,
                      !.r = [r \in Reqs |-> IF r \in above THEN [@[r] EXCEPT !.at = "drain"] ELSE @[r]]]
drained(r) ==
    /\ Here /\ s.r[r].at = "drain" /\ Writer(r) = {}
    /\ s' = [s EXCEPT !.r[r].at = "failed", !.r[r].ret = "goAway"]

(* (Fault: a request is tried again after any error.) *)
canRetryAny(err) == TRUE
canRetryError(err) == err \in {"unusable", "goAway", "refused"}

(* shouldRetryRequest: TRUE, and the body of the next attempt. *)
shouldRetryRequest(r) ==
    /\ canRetryError(s.r[r].ret)
    /\ s.t.body[r] \in {"none", "get"} \/ ~Started(r)
retry(r) ==
    /\ Here /\ s.r[r].at = "failed"
    /\ s' = IF s.r[r].retry <= s.t.retries /\ shouldRetryRequest(r)
              THEN [s EXCEPT !.r[r].at = IF s.r[r].retry = 0 THEN "get" ELSE "backoff",
                             !.r[r].retry = @ + 1, !.r[r].ret = None,
                             !.r[r].gen = IF s.t.body[r] = "get" THEN @ + 1 ELSE @]
              ELSE [s EXCEPT !.r[r].at = "done"]

backoff(r) == Here /\ s.r[r].at = "backoff" /\ s' = [s EXCEPT !.r[r].at = "get"]
contextDone(r) ==
    /\ May("ctx") /\ s.r[r].at = "backoff"
    /\ s' = [s EXCEPT !.r[r].at = "done", !.r[r].ret = "ctx"]

-----------------------------------------------------------------------------
(* A connection ends: the read loop's cleanup, and MarkDead at its end. *)
Pooled(c) == c \in Range(s.conns) \/ \E r \in s.t.own : s.r[r].cc = c
connEnds(c) ==
    /\ May("die") /\ s.c[c].up /\ ("early" \in s.t.ops \/ Pooled(c))
    /\ s' = [s EXCEPT !.c[c].up = FALSE]

deadLeft(c) == SelectSeq(s.conns, LAMBDA d : d # c)
MarkDead(c) ==
    /\ Here /\ s.c[c].used /\ ~s.c[c].up /\ ~s.c[c].marked /\ (s.add[c] = None \/ c \in s.keys)
    /\ s' = [s EXCEPT !.c[c].marked = TRUE, !.keys = @ \ {c},
                      !.conns = IF c \in s.keys THEN deadLeft(c) ELSE @]

closeIdleConnections ==
    /\ May("idle") /\ s.conns # <<>>
    /\ s' = [s EXCEPT !.c = [c \in Conns |->
                               IF c \in Range(s.conns) /\ Streams(s, c) = {} THEN [@[c] EXCEPT !.up = FALSE]
                               ELSE @[c]]]

Next ==
    /\ Here
    /\ \/ \E r \in Reqs : \/ getOwn(r) \/ getShared(r) \/ callDone(r) \/ roundTrip(r) \/ answered(r)
                          \/ refused(r) \/ drained(r) \/ retry(r) \/ backoff(r) \/ contextDone(r)
                          \/ \E n \in {0, 1} : lost(r, n)
       \/ \E k \in DOMAIN s.calls : dial(k) \/ dialed(k)
       \/ \E w \in s.writers : bodyStarts(w)
       \/ \E c \in Conns : \/ addConnIfNeeded(c) \/ newClientConn(c) \/ connEnds(c) \/ MarkDead(c)
                           \/ \E ok \in BOOLEAN : addRun(c, ok)
                           \/ \E above \in SUBSET Streams(s, c) : goAway(c, above)
       \/ closeIdleConnections

-----------------------------------------------------------------------------
(* However often a request is tried: the server processes it at most once, *)
(* no two attempts read the same body, and a response is reported only to  *)
(* a request that was processed.                                           *)
TriedSafely ==
    Here =>
      /\ \A r \in Reqs : s.done[r] <= 1 /\ (s.r[r].ret = "response" => s.done[r] = 1)
      /\ \A v, w \in s.reads : v[3] = w[3] => v = w

(* The pool forgets a dead connection for good; no connection is in it     *)
(* twice, or in it without its key.                                        *)
DeadForgotten ==
    Here =>
      /\ \A c \in Conns : s.c[c].marked => c \notin Range(s.conns)
      /\ Len(s.conns) = Cardinality(Range(s.conns)) /\ Range(s.conns) = s.keys
=============================================================================
