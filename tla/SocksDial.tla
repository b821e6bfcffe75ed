----------------------------- MODULE SocksDial -----------------------------
(***************************************************************************)
(* The SOCKS5 client of the Transport (src/socks_bundle.go): connect over  *)
(* a connection to the proxy, and beside it the goroutine that watches the *)
(* context and breaks the handshake off by a deadline in the past.  What   *)
(* the proxy sends is counted in bytes; the target's own bytes follow its  *)
(* last reply on the same connection.                                      *)
(***************************************************************************)
EXTENDS Naturals

CONSTANTS
    IPv4len, IPv6len, NameLen,   \* bytes of the addresses a proxy may answer with
    Confs         \* [ctx: "background", "cancel" or "deadline", user: credentials are set, method: the method the
                  \*  proxy chooses, accepted: it accepts them, reply: its code, atyp: of its address, ops]

VARIABLE s

Here == s.m = "socks"

op(o) == o \in s.t.ops

Init ==
    \E t \in Confs :
      s = [m |-> "socks", t |-> t, pc |-> "dial", open |-> FALSE, deadline |-> "none", done |-> FALSE,
           watcher |-> "none", errCh |-> "empty", ctxErr |-> "none",
           sent |-> 0, read |-> 0, target |-> FALSE,       \* the proxy's bytes, the bytes read, target bytes follow
           authed |-> FALSE, granted |-> FALSE,            \* what the proxy decided
           result |-> "none"]

(* Bytes of the proxy's replies, by the protocol.                          *)
addrLen(a) == CASE a = "IPv4" -> IPv4len [] a = "IPv6" -> IPv6len [] a = "FQDN" -> 1 + NameLen [] OTHER -> 0
replyLen(t) == 4 + addrLen(t.atyp) + 2

ends(x, err) == [x EXCEPT !.pc = "deferred", !.ctxErr = IF err THEN "error" ELSE "none"]

(* DialContext dials the proxy; DialWithConn is given a connection.  A     *)
(* target that is no target is refused before.                             *)
Refuse ==
    /\ Here /\ s.pc = "dial" /\ op("badtarget")
    /\ s' = [s EXCEPT !.pc = "ended", !.result = "error"]

Dial ==
    /\ Here /\ s.pc = "dial" /\ ~op("badtarget")
    /\ s' = [s EXCEPT !.pc = "greet", !.open = TRUE,
                      !.deadline = IF s.t.ctx = "deadline" THEN "set" ELSE "none",
                      !.watcher = IF s.t.ctx = "background" THEN "none" ELSE "waits"]

DialFails ==
    /\ Here /\ s.pc = "dial" /\ ~op("badtarget") /\ op("unreachable")
    /\ s' = [s EXCEPT !.pc = "ended", !.result = "error"]

(* The context ends, and the watcher sees it or the end of connect.        *)
CtxDone ==
    /\ Here /\ s.t.ctx # "background" /\ op("cancel") /\ ~s.done
    /\ s' = [s EXCEPT !.done = TRUE]

WatchDone ==
    /\ Here /\ s.watcher = "waits" /\ s.done
    /\ s' = [s EXCEPT !.watcher = "fired", !.deadline = "past"]

WatchSends ==
    /\ Here /\ s.watcher = "fired"
    /\ s' = [s EXCEPT !.watcher = "gone", !.errCh = "ctx"]

WatchClosed ==
    /\ Here /\ s.watcher = "waits" /\ s.pc \in {"waiting", "clear", "ended"}
    /\ s' = [s EXCEPT !.watcher = "gone", !.errCh = "nil"]

(* The handshake: what is written, and the proxy's answer to it.           *)
Write(pc, next, n, x) ==
    /\ Here /\ s.pc = pc /\ s.deadline # "past"
    /\ s' = [x EXCEPT !.pc = next, !.sent = @ + n]

(* Without credentials only AuthMethodNotRequired is offered; credentials  *)
(* that do not fit their length bytes are not sent.                        *)
Greet == Write("greet", "method", 2, s)
BadCredentials ==
    /\ Here /\ s.pc = "auth" /\ op("credentials")
    /\ s' = ends(s, TRUE)
Authenticate ==
    /\ Here /\ ~op("credentials")
    /\ Write("auth", "authReply", 2, [s EXCEPT !.authed = s.t.accepted])
Command ==
    Write("command", "reply", replyLen(s.t),
          [s EXCEPT !.granted = s.t.reply = 0, !.target = s.t.reply = 0])

(* A read of n bytes waits for them; a deadline in the past or a proxy     *)
(* that hangs up ends it, and a write after it.                            *)
available(n) == s.sent - s.read >= n \/ s.target
Fails ==
    /\ Here /\ s.pc \in {"greet", "method", "auth", "authReply", "command", "reply", "name", "address"}
    /\ s.deadline = "past" \/ op("hangup") \/ (s.t.ctx = "deadline" /\ s.done)
    /\ s' = ends(s, TRUE)

ReadMethod ==
    /\ Here /\ s.pc = "method" /\ available(2) /\ s.deadline # "past"
    /\ LET x == [s EXCEPT !.read = @ + 2]
       IN  s' = IF s.t.method = "unacceptable" THEN ends(x, TRUE)
                ELSE IF s.t.user /\ s.t.method = "password" THEN [x EXCEPT !.pc = "auth"]
                ELSE IF s.t.user /\ s.t.method # "none" THEN ends(x, TRUE)
                ELSE [x EXCEPT !.pc = "command"]

acceptedAny == TRUE
accepted == s.t.accepted
ReadAuth ==
    /\ Here /\ s.pc = "authReply" /\ available(2) /\ s.deadline # "past"
    /\ LET x == [s EXCEPT !.read = @ + 2]
       IN  s' = IF accepted THEN [x EXCEPT !.pc = "command"] ELSE ends(x, TRUE)

ReadReply ==
    /\ Here /\ s.pc = "reply" /\ available(4) /\ s.deadline # "past"
    /\ LET x == [s EXCEPT !.read = @ + 4]
       IN  s' = IF s.t.reply # 0 \/ addrLen(s.t.atyp) = 0 THEN ends(x, TRUE)
                ELSE [x EXCEPT !.pc = IF s.t.atyp = "FQDN" THEN "name" ELSE "address"]

ReadNameLen ==
    /\ Here /\ s.pc = "name" /\ available(1) /\ s.deadline # "past"
    /\ s' = [s EXCEPT !.read = @ + 1, !.pc = "address"]

(* l, the bytes of the address and the port.                               *)
addressBytesPort == 2 + IPv4len
addressBytes == 2 + (CASE s.t.atyp = "IPv4" -> IPv4len [] s.t.atyp = "IPv6" -> IPv6len [] OTHER -> NameLen)
ReadAddress ==
    /\ Here /\ s.pc = "address" /\ available(addressBytes) /\ s.deadline # "past"
    /\ s' = ends([s EXCEPT !.read = @ + addressBytes], FALSE)

waitsForWatcher == s.t.ctx # "background" /\ s.ctxErr = "none"
CloseDone ==
    /\ Here /\ s.pc = "deferred"
    /\ s' = [s EXCEPT !.pc = IF waitsForWatcher THEN "waiting" ELSE "clear"]

TakeErr ==
    /\ Here /\ s.pc = "waiting" /\ s.errCh # "empty"
    /\ s' = [s EXCEPT !.pc = "clear", !.ctxErr = IF s.errCh = "ctx" THEN "error" ELSE "none"]

(* The caller of connect closes the connection it cannot use.              *)
Return ==
    /\ Here /\ s.pc = "clear"
    /\ s' = [s EXCEPT !.pc = "ended", !.deadline = IF s.t.ctx = "deadline" THEN "none" ELSE @,
                      !.open = s.ctxErr = "none",
                      !.result = IF s.ctxErr = "none" THEN "conn" ELSE "error"]

Step == Dial \/ Greet \/ BadCredentials \/ Authenticate \/ Command \/ Fails \/ ReadMethod \/ ReadAuth
        \/ ReadReply \/ ReadNameLen \/ ReadAddress \/ CloseDone \/ TakeErr \/ Return
Watch == WatchDone \/ WatchSends \/ WatchClosed
Next == Here /\ (Refuse \/ DialFails \/ Step \/ CtxDone \/ Watch)

(* The two goroutines run; the proxy answers what it is sent.              *)
Process(k) == Here /\ ((k = 1 /\ Step) \/ (k = 2 /\ Watch))
Fair == \A k \in 1..2 : WF_s(Process(k))

-----------------------------------------------------------------------------

(* A connection that is handed on is one the proxy granted, to a client it *)
(* accepted if it asked for credentials; exactly the proxy's bytes have    *)
(* been read from it, so that the next byte is the target's; no deadline   *)
(* is set on it, and the watcher will not set one.  A failed dial leaves   *)
(* no open connection.                                                     *)
SocksSound ==
    (Here /\ s.pc = "ended") =>
      /\ s.result = "conn" =>
           /\ s.granted /\ s.read = s.sent /\ s.deadline = "none" /\ s.watcher \notin {"waits", "fired"}
           /\ s.t.method = "password" => s.authed
      /\ s.result = "error" => ~s.open

(* A dial ends, and so does the goroutine that watches its context.        *)
Due(k) == Here /\ ((k = 1 /\ s.pc = "greet") \/ (k = 2 /\ s.watcher = "waits"))
Met(k) == Here /\ ((k = 1 /\ s.pc = "ended") \/ (k = 2 /\ s.watcher = "gone"))
SocksEnds == \A k \in 1..2 : Due(k) ~> Met(k)
==============================================================================
