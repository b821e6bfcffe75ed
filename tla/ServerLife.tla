----------------------------- MODULE ServerLife -----------------------------
(***************************************************************************)
(* The life of a Server (src/server.go): Serve on its listeners, the       *)
(* connections it tracks and their states, Shutdown, Close and             *)
(* SetKeepAlivesEnabled(false), which run concurrently.                    *)
(*                                                                         *)
(* An action is one critical section of srv.mu or one step between two;    *)
(* closeIdleConns holds srv.mu for several.  The state of a connection is  *)
(* an atomic that changes without srv.mu.  What a connection does with its *)
(* requests is in module ServerConn.                                       *)
(***************************************************************************)
EXTENDS Naturals, FiniteSets

CONSTANTS
    Conns,      \* connections; on[c] is the listener that accepts c
    Lns,        \* listeners, each with one call of Serve
    Confs       \* configurations: [lns |-> listeners served, on |-> ..., ops |-> what happens]

VARIABLE s

None == "none"
Here == s.m = "life"
May(e) == e \in s.t.ops

Init ==
    \E t \in Confs :
      s = [m |-> "life", t |-> t, inShutdown |-> FALSE, done |-> FALSE, disable |-> FALSE,
           serve |-> [l \in Lns |-> IF l \in t.lns THEN "start" ELSE "returned"], ret |-> [l \in Lns |-> None],
           tracked |-> {}, open |-> Lns,
           at |-> [c \in Conns |-> None],       \* where c.serve is
           st |-> [c \in Conns |-> None],       \* c.curState
           up |-> {}, active |-> {}, old |-> {},  \* c.rwc is open; activeConn; over 5 seconds in StateNew
           down |-> None,                       \* Shutdown
           poll |-> None, todo |-> {}, cur |-> None, quiet |-> TRUE,    \* closeIdleConns
           had |-> {}]                          \* activeConn when Shutdown closed the listeners

Unlocked == s.poll = None /\ s.down # "locked"
doKeepAlives == ~s.disable /\ ~s.inShutdown

-----------------------------------------------------------------------------
(* Serve *)
trackListener(l) ==
    /\ Here /\ s.serve[l] = "start" /\ Unlocked
    /\ s' = IF s.inShutdown
              THEN [s EXCEPT !.serve[l] = "returned", !.ret[l] = "ErrServerClosed", !.open = @ \ {l}]
              ELSE [s EXCEPT !.serve[l] = "accept", !.tracked = @ \cup {l}]

accept(l, c) ==
    /\ Here /\ s.serve[l] = "accept" /\ l \in s.open
    /\ s.at[c] = None /\ s.t.on[c] = l
    /\ s' = [s EXCEPT !.serve[l] = "new", !.at[c] = "accepted", !.up = @ \cup {c}]

(* setState(StateNew), and the goroutine of the connection. *)
stateNew(l, c) ==
    /\ Here /\ s.serve[l] = "new" /\ s.at[c] = "accepted" /\ s.t.on[c] = l /\ Unlocked
    /\ s' = [s EXCEPT !.serve[l] = "accept", !.at[c] = "read", !.st[c] = "new",
                      !.active = @ \cup {c}]

(* Accept fails: what Serve returns depends on doneChan, read with srv.mu. *)
(* (Fault: it is read without.)                                            *)
lookUnlocked(l) == TRUE
look(l) == Unlocked
acceptFails(l) ==
    /\ Here /\ s.serve[l] = "accept" /\ l \notin s.open /\ look(l)
    /\ s' = [s EXCEPT !.serve[l] = "untrack",
                      !.ret[l] = IF s.done THEN "ErrServerClosed" ELSE "error"]

(* (Fault: the deferred call is missing.) *)
untrackedNot(l) == s.tracked
untracked(l) == s.tracked \ {l}
untrackListener(l) ==
    /\ Here /\ s.serve[l] = "untrack" /\ Unlocked
    /\ s' = [s EXCEPT !.serve[l] = "returned", !.tracked = untracked(l)]

-----------------------------------------------------------------------------
(* A connection (conn.serve) *)

(* A request arrives; then setState(StateActive), then the handler. *)
requestArrives(c) ==
    /\ Here /\ s.at[c] = "read" /\ c \in s.up
    /\ s' = [s EXCEPT !.at[c] = "got"]

stateActive(c) ==
    /\ Here /\ s.at[c] = "got"
    /\ s' = [s EXCEPT !.at[c] = "handler", !.st[c] = "active"]

(* TLS with a protocol of TLSNextProto; such a connection ends after       *)
(* RegisterOnShutdown's function has asked it to.                          *)
nextProto(c) ==
    /\ Here /\ May("h2") /\ s.at[c] = "read" /\ s.st[c] = "new" /\ c \in s.up
    /\ s' = [s EXCEPT !.at[c] = "h2", !.st[c] = "active"]

nextProtoEnds(c) ==
    /\ Here /\ s.at[c] = "h2" /\ (s.down # None \/ c \notin s.up)
    /\ s' = [s EXCEPT !.at[c] = "close"]

(* The handler returns: the reply is written, and the connection is used   *)
(* again if doKeepAlives holds then and after setState(StateIdle).         *)
handlerReturns(c) ==
    /\ Here /\ s.at[c] = "handler"
    /\ s' = IF doKeepAlives /\ c \in s.up
              THEN [s EXCEPT !.at[c] = "idle", !.st[c] = "idle"]
              ELSE [s EXCEPT !.at[c] = "close"]

idleAgain(c) ==
    /\ Here /\ s.at[c] = "idle"
    /\ s' = [s EXCEPT !.at[c] = IF doKeepAlives THEN "read" ELSE "close"]

hijack(c) ==
    /\ Here /\ May("hijack") /\ s.at[c] = "handler" /\ Unlocked
    /\ s' = [s EXCEPT !.at[c] = "hijacked", !.st[c] = "hijacked", !.active = @ \ {c}]

readFails(c) ==
    /\ Here /\ s.at[c] = "read" /\ c \notin s.up
    /\ s' = [s EXCEPT !.at[c] = "close"]

stateClosed(c) ==
    /\ Here /\ s.at[c] = "close" /\ Unlocked
    /\ s' = [s EXCEPT !.at[c] = "closed", !.st[c] = "closed", !.up = @ \ {c}, !.active = @ \ {c}]

fiveSeconds(c) ==
    /\ Here /\ s.st[c] = "new" /\ c \notin s.old
    /\ s' = [s EXCEPT !.old = @ \cup {c}]

-----------------------------------------------------------------------------
(* Shutdown: the flag, then with srv.mu the listeners and doneChan, then   *)
(* it polls.                                                               *)
Shutdown ==
    /\ Here /\ May("shutdown") /\ s.down = None
    /\ s' = [s EXCEPT !.down = "flag", !.inShutdown = TRUE]

closeListeners ==
    /\ Here /\ s.down = "flag" /\ Unlocked
    /\ s' = [s EXCEPT !.down = "locked", !.open = @ \ s.tracked, !.had = s.active]

closeDoneChan ==
    /\ Here /\ s.down = "locked"
    /\ s' = [s EXCEPT !.down = "poll", !.done = TRUE]

(* closeIdleConns, one connection at a time: getState, and then Close. *)
startPoll(who) ==
    /\ Here /\ Unlocked
    /\ IF who = "shutdown" THEN s.down = "poll" ELSE May("keepalives") /\ ~s.disable
    /\ s' = [s EXCEPT !.poll = who, !.todo = s.active, !.quiet = TRUE,
                      !.disable = @ \/ who = "keepalives"]

looksIdle(c) == s.st[c] = "idle" \/ (s.st[c] = "new" /\ c \in s.old)

(* (Fault: a connection that is not idle does not count.) *)
quietAnyway == s.quiet
quietIfBusy == FALSE
getState(c) ==
    /\ Here /\ s.poll # None /\ s.cur = None /\ c \in s.todo
    /\ s' = IF looksIdle(c) THEN [s EXCEPT !.cur = c, !.todo = @ \ {c}]
            ELSE [s EXCEPT !.todo = @ \ {c}, !.quiet = quietIfBusy]

closeIdle(c) ==
    /\ Here /\ s.cur = c
    /\ s' = [s EXCEPT !.cur = None, !.up = @ \ {c}, !.active = @ \ {c}]

polled ==
    /\ Here /\ s.poll # None /\ s.cur = None /\ s.todo = {}
    /\ s' = [s EXCEPT !.poll = None,
                      !.down = IF s.poll = "shutdown" /\ s.quiet THEN "count" ELSE @]

numListeners ==
    /\ Here /\ s.down = "count" /\ Unlocked
    /\ s' = [s EXCEPT !.down = IF s.tracked = {} THEN "nil" ELSE "poll"]

contextEnds ==
    /\ Here /\ May("ctx") /\ s.down = "poll" /\ Unlocked
    /\ s' = [s EXCEPT !.down = "error"]

Close ==
    /\ Here /\ May("close") /\ s.down = None /\ Unlocked
    /\ s' = [s EXCEPT !.inShutdown = TRUE, !.done = TRUE, !.open = @ \ s.tracked, !.down = "closed",
                      !.up = @ \ s.active, !.active = {}]

-----------------------------------------------------------------------------
Serve(l) ==
    \/ trackListener(l) \/ acceptFails(l) \/ untrackListener(l)
    \/ \E c \in Conns : accept(l, c) \/ stateNew(l, c)
Conn(c) ==
    \/ requestArrives(c) \/ stateActive(c) \/ nextProto(c) \/ nextProtoEnds(c) \/ handlerReturns(c)
    \/ idleAgain(c) \/ hijack(c) \/ readFails(c) \/ stateClosed(c) \/ fiveSeconds(c)
Down ==
    \/ Shutdown \/ closeListeners \/ closeDoneChan \/ polled \/ numListeners \/ contextEnds \/ Close
    \/ \E who \in {"shutdown", "keepalives"} : startPoll(who)
    \/ \E c \in Conns : getState(c) \/ closeIdle(c)
Next == Here /\ (Down \/ (\E l \in Lns : Serve(l)) \/ (\E c \in Conns : Conn(c)))

(* Every goroutine runs, and gets srv.mu if it wants it (a sync.Mutex is   *)
(* handed to a waiter that starves); handlers return, five seconds pass.   *)
(* Whether a client connects or sends a request, and whether Shutdown,     *)
(* Close or SetKeepAlivesEnabled is called, is free.  Once Shutdown has    *)
(* begun, only its polling can go on for ever, so that one condition for   *)
(* each of the three kinds of step is enough.                              *)
Locks ==
    \/ \E l \in Lns : \/ trackListener(l) \/ acceptFails(l) \/ untrackListener(l)
                      \/ \E c \in Conns : stateNew(l, c)
    \/ \E c \in Conns : stateClosed(c)
Works ==
    \E c \in Conns : \/ stateActive(c) \/ nextProtoEnds(c) \/ handlerReturns(c) \/ idleAgain(c)
                     \/ readFails(c) \/ fiveSeconds(c)
Polls ==
    \/ closeListeners \/ closeDoneChan \/ startPoll("shutdown") \/ polled \/ numListeners
    \/ \E c \in Conns : getState(c) \/ closeIdle(c)
Process(k) ==
    /\ Here
    /\ \/ k = 1 /\ Works
       \/ k = 2 /\ Polls
Fair == SF_s(Locks) /\ \A k \in 1..2 : WF_s(Process(k))

-----------------------------------------------------------------------------
(* "After Shutdown or Close, the returned error is ErrServerClosed": Serve *)
(* never returns the error of the listener that Shutdown or Close closed,  *)
(* nor goes on with a listener tracked too late.                           *)
ServeClosed == Here =>
    /\ \A l \in Lns : s.ret[l] # "error"
    /\ s.down \notin {None, "flag"} => s.tracked \cap s.open = {}

(* A Shutdown that returns nil has waited for every connection there was   *)
(* when it closed the listeners: each is closed or hijacked.               *)
ShutdownWaits == Here /\ s.down = "nil" => \A c \in s.had : c \notin s.up \/ s.st[c] = "hijacked"

(* Shutdown returns, and so does each Serve. *)
Due(k) == k = 1 /\ Here /\ s.down \notin {None, "closed"}
Met(k) == k = 1 /\ Here /\ s.down \in {"nil", "error"} /\ \A l \in Lns : s.serve[l] = "returned"
ShutdownReturns == Due(1) ~> Met(1)

(* "waiting indefinitely for connections to return to idle and then shut   *)
(* down": when Shutdown has returned nil, no connection is tracked.        *)
ShutdownQuiet == Here /\ s.down = "nil" => s.active = {}

(* "Close immediately closes all active net.Listeners and any connections  *)
(* in state StateNew, StateActive, or StateIdle."                          *)
CloseCloses == Here /\ s.down = "closed" => s.active = {}

(* "without interrupting any active connections" *)
NotInterrupted == Here => \A c \in Conns : s.down # None /\ s.at[c] = "handler" => c \in s.up
=============================================================================
