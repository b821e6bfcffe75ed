------------------------------ MODULE ClientDo ------------------------------
(***************************************************************************)
(* Client.Do (src/client.go): one call, its chain of redirects, the Client *)
(* timeout and the cookies.  The RoundTripper and the server are free.     *)
(*                                                                         *)
(* A hop is a request of the chain.  Its URL is [host, tls], a host the    *)
(* sequence of its labels.  The cookie names the caller put in the request are    *)
(* t.cookies; a hop sends the initial values `own' and the names `jar'.    *)
(***************************************************************************)
EXTENDS Naturals, SequencesExt

CONSTANTS
    MaxVia,       \* 10 in defaultCheckRedirect
    Confs         \* [method, body ("none", "once", "get"), cookies, jar, policy ("default", "last",
                  \*  "error"), timeout ("none", "sooner": the caller's context ends before, "ctx", "legacy"), url, resps, ops]

VARIABLE s

Here == s.m = "do"
May(op) == op \in s.t.ops
None == "none"
n == Len(s.hops)

NoResp == [code |-> 0, loc |-> None, url |-> [host |-> <<>>, tls |-> FALSE], set |-> {}]

Init ==
    \E t \in Confs :
      s = [m |-> "do", t |-> t, at |-> "send", ret |-> None, timeout |-> FALSE,
           hops |-> <<[method |-> t.method, url |-> t.url, body |-> t.body # "none", auth |-> TRUE,
                       own |-> t.cookies, jar |-> {}, ref |-> FALSE, past |-> {}]>>,
           icookies |-> t.cookies, jar |-> {}, resp |-> NoResp, trips |-> 0,
           set |-> {},                             \* cookies the responses have set so far
           open |-> {},                            \* hops whose response body is open
           bodies |-> IF t.body # "none" THEN {1} ELSE {}, shut |-> {},    \* request bodies; closed ones
           timer |-> <<None>>, expired |-> FALSE]

-----------------------------------------------------------------------------
(* send and setRequestCancel: the timer of a hop is the deadline of its    *)
(* context, or a goroutine with a channel of its own.  The deadline passes *)
(* at any time.                                                            *)
setRequestCancel ==
    /\ Here /\ s.at = "send"
    /\ s' = [s EXCEPT !.at = "trip", !.trips = n, !.hops[n].jar = IF s.t.jar THEN s.jar ELSE {},
                      !.timer[n] = IF s.t.timeout \in {"ctx", "legacy"} THEN "armed" ELSE None]

expire ==
    /\ Here /\ s.t.timeout # None /\ ~s.expired
    /\ s' = [s EXCEPT !.expired = TRUE]
(* The goroutine's select *)
fired(h) ==
    /\ Here /\ s.t.timeout = "legacy" /\ s.expired /\ s.timer[h] \in {"armed", "stop"}
    /\ s' = [s EXCEPT !.timer[h] = "fired"]
canceled(h) ==
    /\ Here /\ May("cancel") /\ s.t.timeout = "legacy" /\ s.timer[h] \in {"armed", "stop"}
    /\ s' = [s EXCEPT !.timer[h] = "canceled"]
stopped(h) ==
    /\ Here /\ s.timer[h] = "stop"
    /\ s' = [s EXCEPT !.timer[h] = "stopped"]

(* (Fault: the timer goes on.) *)
stopNot(x, h) == x
stopTimer(x, h) ==
    IF x.timer[h] # "armed" THEN x
    ELSE [x EXCEPT !.timer[h] = IF s.t.timeout = "legacy" THEN "stop" ELSE "stopped"]
didTimeout(h) == IF s.t.timeout = "legacy" THEN s.timer[h] = "fired" ELSE s.t.timeout = "ctx" /\ s.expired

closeBody(x, h) == IF h \in x.bodies THEN [x EXCEPT !.shut = @ \cup {h}] ELSE x
done(x, ret) == [x EXCEPT !.at = "done", !.ret = ret]
uerr(x, h) == done(closeBody(x, h), "error")

(* RoundTrip returns an error, or neither a response nor an error.  It     *)
(* closes the body in any case.                                            *)
sendFails ==
    /\ Here /\ s.at = "trip"
    /\ s' = [uerr(stopTimer(closeBody(s, n), n), n) EXCEPT !.timeout = didTimeout(n)]
nilResponse ==
    /\ Here /\ May("nil") /\ s.at = "trip"
    /\ s' = uerr(closeBody(s, n), n)

shouldRedirect(code) == code = 303 \/ (code = 307 /\ s.t.body # "once")
redirectMethod(method, code) == IF code = 303 /\ method # "HEAD" THEN "GET" ELSE method

sent(r) ==
    LET x == [closeBody(s, n) EXCEPT !.resp = r, !.open = @ \cup {n}, !.set = @ \cup r.set,
                                     !.jar = IF s.t.jar THEN @ \cup r.set ELSE @] IN
    /\ Here /\ s.at = "trip"
    /\ s' = IF shouldRedirect(r.code) THEN [x EXCEPT !.at = "next"] ELSE done(x, "response")

-----------------------------------------------------------------------------
(* The next hop *)
closeResp(x) == stopTimer([x EXCEPT !.open = @ \ {n}], n)

(* makeHeadersCopier.  (Fault: the initial values go on being sent.) *)
cookiesKept(set) == s.icookies
cookiesLeft(set) == IF s.t.jar THEN s.icookies \ set ELSE s.icookies

isDomainOrSubdomain(sub, parent) == IsSuffix(parent, sub)
shouldCopyHeaderOnRedirect(initial, dest) == isDomainOrSubdomain(dest.host, initial.host)
refererForURL(old, new) == ~(old.tls /\ ~new.tls)

nextHop ==
    LET old == s.hops[n]
        r == s.resp
        near == shouldCopyHeaderOnRedirect(old.url, r.url)
        body == r.code = 307 /\ s.t.body = "get" IN
    [method |-> redirectMethod(old.method, r.code), url |-> r.url, body |-> body,
     auth |-> near, own |-> IF near THEN cookiesLeft(r.set) ELSE {}, jar |-> {},
     ref |-> refererForURL(old.url, r.url), past |-> s.set]

followed == [s EXCEPT !.hops = Append(@, nextHop), !.icookies = cookiesLeft(s.resp.set),
                      !.bodies = IF nextHop.body THEN @ \cup {n + 1} ELSE @,
                      !.timer = Append(@, None)]

noLocation ==
    /\ Here /\ s.at = "next" /\ s.resp.loc = "empty"
    /\ s' = done(s, "response")
badLocation ==
    /\ Here /\ s.at = "next" /\ s.resp.loc = "bad"
    /\ s' = uerr(closeResp(s), n)
getBodyFails ==
    /\ Here /\ May("getbody") /\ s.at = "next" /\ s.resp.loc = "ok" /\ nextHop.body
    /\ s' = done(closeResp(s), "error")

defaultCheckRedirect == IF n >= MaxVia THEN "error" ELSE "ok"
checkRedirect == IF s.t.policy = "default" THEN defaultCheckRedirect ELSE s.t.policy

follow ==
    LET x == followed
        y == stopTimer([x EXCEPT !.open = @ \ {n}], n) IN
    /\ Here /\ s.at = "next" /\ s.resp.loc = "ok"
    /\ s' = CASE checkRedirect = "last" -> done(x, "response")
              [] checkRedirect = "error" -> uerr(y, n + 1)
              [] checkRedirect = "ok" -> [y EXCEPT !.at = "send", !.resp = NoResp]

-----------------------------------------------------------------------------
(* The caller and the body of the response: cancelTimerBody *)
last == CHOOSE h \in s.open : TRUE
bodyEnds ==
    /\ Here /\ s.at = "done" /\ s.open # {}
    /\ s' = stopTimer(s, last)
bodyClosed ==
    /\ Here /\ s.at = "done" /\ s.open # {}
    /\ s' = stopTimer([s EXCEPT !.open = {}], last)

Next ==
    /\ Here
    /\ \/ setRequestCancel \/ expire \/ sendFails \/ nilResponse \/ noLocation \/ badLocation
       \/ getBodyFails \/ follow \/ bodyEnds \/ bodyClosed
       \/ \E h \in 1..n : fired(h) \/ canceled(h) \/ stopped(h)
       \/ \E r \in s.t.resps : sent(r)

-----------------------------------------------------------------------------
(* Do returns with an error and no open response, or with one open         *)
(* response, that of the last request sent; its timer and those of the     *)
(* round trip in progress are the only ones running; a request body that   *)
(* was handed out is closed; the default policy bounds the requests.       *)
ChainSound ==
    Here =>
      /\ s.open \subseteq {s.trips}
      /\ s.ret = "error" => s.open = {}
      /\ \A h \in 1..n : s.timer[h] = "armed" => h \in s.open \/ (h = n /\ s.at = "trip")
      /\ s.at = "done" => s.bodies = s.shut
      /\ s.t.policy = "default" => n <= MaxVia + 1
      /\ s.timeout => s.expired

(* A cookie that a response of the chain has set is not sent again with    *)
(* the value it had at first.                                              *)
CookieFresh == Here /\ s.t.jar => \A h \in 1..n : s.hops[h].own \cap s.hops[h].past = {}

(* "a 301, 302, or 303 redirect causes subsequent requests to use HTTP     *)
(* method GET (or HEAD if the original request was HEAD), with no body"    *)
NoBodyLater ==
    Here => \A h \in 1..n : s.hops[h].body => s.hops[h].method = s.t.method
=============================================================================
