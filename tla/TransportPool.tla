--------------------------- MODULE TransportPool ---------------------------
(***************************************************************************)
(* The connection pool of Transport (src/transport.go): getConn, the idle  *)
(* lists and their LRU, the two wait queues, dialing under                 *)
(* MaxConnsPerHost, returning and closing connections.                     *)
(*                                                                         *)
(* A member of Wants is one call of getConn and the wantConn it allocates; *)
(* a member of Conns is one persistConn.  What happens on a connection     *)
(* while a request uses it is module PersistConn; here it is the choice    *)
(* between giving the connection back and losing it.                       *)
(*                                                                         *)
(* Every critical section of idleMu and of connsPerHostMu is one step; the *)
(* code between two of them is interleaved.  persistConn.mu is only taken  *)
(* inside one step (closeLocked), never across two.                        *)
(***************************************************************************)
EXTENDS Integers, Sequences, FiniteSets, Functions

CONSTANTS
    Wants,                \* calls of getConn
    Conns,                \* persistConns that dialing can produce
    Keys,                 \* connectMethodKeys
    NoConn,               \* the nil persistConn
    Err,                  \* wantConn.err set, no connection
    WKey,                 \* wantConn.key of each call
    HTTP2,                \* whether a dial may negotiate HTTP/2 (pconn.alt # nil)
    DisableKeepAlives,    \* Transport.DisableKeepAlives
    MaxIdleConns,         \* Transport.MaxIdleConns, 0 for no limit
    MaxIdleConnsPerHost,  \* the value of maxIdleConnsPerHost(), < 0 for no idling
    MaxConnsPerHost,      \* Transport.MaxConnsPerHost, 0 for no limit
    IdleConnTimeout       \* whether Transport.IdleConnTimeout > 0

ASSUME PoolAssumption ==
    /\ WKey \in [Wants -> Keys] /\ Keys # {}
    /\ NoConn \notin Conns /\ Err \notin Conns /\ Err # NoConn
    /\ HTTP2 \in BOOLEAN /\ DisableKeepAlives \in BOOLEAN
    /\ IdleConnTimeout \in BOOLEAN
    /\ MaxIdleConns \in Nat /\ MaxIdleConnsPerHost \in Int \ {0}
    /\ MaxConnsPerHost \in Nat

(* The operators on sequences the pool needs are written here, not taken   *)
(* from a library, since every obligation of the proofs carries all of it. *)
Contains(s, e) == \E i \in 1..Len(s) : s[i] = e
Last(s) == s[Len(s)]
Front(s) == SubSeq(s, 1, Len(s) - 1)
Min(S) == CHOOSE n \in S : \A m \in S : n <= m
RemoveFirst(s, e) ==
    LET I == {i \in 1..Len(s) : s[i] = e}
        k == Min(I)
    IN  IF I = {} THEN s ELSE SubSeq(s, 1, k - 1) \o SubSeq(s, k + 1, Len(s))

(* The goroutines that give connections back with tryPutIdleConn: the      *)
(* dialer of a wantConn, the request that had it, a connection's readLoop. *)
Dialer(w) == <<"dial", w>>
Caller(w) == <<"call", w>>
ReadLoop(c) == <<"loop", c>>
Putters == ({"dial", "call"} \X Wants) \cup ({"loop"} \X Conns)

VARIABLES
    wpc,              \* where each getConn call, and the request after it, is
    res,              \* wantConn.pc and .err: NoConn until the wantConn is ready
    dial,             \* the state of the dialConnFor goroutine of each wantConn
    conn,             \* persistConn.closed: "unborn", "open" or "closed"
    alt,              \* the HTTP/2 connections (persistConn.alt # nil)
    ckey,             \* persistConn.cacheKey
    reused,           \* persistConn.reused
    put,              \* the tryPutIdleConn in progress of each putter
    loopDone,         \* connections whose readLoop has returned
    idleConn,         \* Transport.idleConn, least recently used first
    idleLRU,          \* Transport.idleLRU, most recently added first
    idleConnWait,     \* Transport.idleConnWait
    closeIdle,        \* Transport.closeIdle
    connsPerHost,     \* Transport.connsPerHost
    connsPerHostWait, \* Transport.connsPerHostWait
    closing,          \* taken by CloseIdleConnections, not closed yet
    armed,            \* connections whose idleTimer is running
    firing,           \* closeConnIfStillIdle goroutines that wait for idleMu
    underflow         \* decConnsPerHost has panicked

idleVars == <<idleConn, idleLRU, idleConnWait, closeIdle>>
hostVars == <<connsPerHost, connsPerHostWait, underflow>>
connVars == <<conn, alt, ckey>>
vars == <<wpc, res, dial, conn, alt, ckey, reused, put, loopDone, idleConn,
          idleLRU, idleConnWait, closeIdle, connsPerHost, connsPerHostWait,
          closing, armed, firing, underflow>>

NoPut == [at |-> "no", c |-> NoConn]

Init ==
    /\ wpc = [w \in Wants |-> "new"]
    /\ res = [w \in Wants |-> NoConn]
    /\ dial = [w \in Wants |-> "no"]
    /\ conn = [c \in Conns |-> "unborn"]
    /\ alt = {}
    /\ ckey = [c \in Conns |-> CHOOSE k \in Keys : TRUE]  \* set by the dial
    /\ reused = {}
    /\ put = [p \in Putters |-> NoPut]
    /\ loopDone = {}
    /\ idleConn = [k \in Keys |-> <<>>]
    /\ idleLRU = <<>>
    /\ idleConnWait = [k \in Keys |-> <<>>]
    /\ closeIdle = FALSE
    /\ connsPerHost = [k \in Keys |-> 0]
    /\ connsPerHostWait = [k \in Keys |-> <<>>]
    /\ closing = {}
    /\ armed = {}
    /\ firing = {}
    /\ underflow = FALSE

-----------------------------------------------------------------------------
(* Definitions marked "Fault" are variants with a bug; the mutation runs   *)
(* put them in the place of the definition that follows.                   *)

(* wantConnQueue.  Index of the first wantConn of q still waiting under    *)
(* the results r, 0 if there is none: popFront until waiting().            *)
(* (Fault: only the front of the queue is looked at.)                      *)
FirstWaitingFrontOnly(q, r) == IF q # <<>> /\ r[q[1]] = NoConn THEN 1 ELSE 0
FirstWaiting(q, r) ==
    LET I == {i \in 1..Len(q) : r[q[i]] = NoConn} IN IF I = {} THEN 0 ELSE Min(I)

(* q after popFront of its first i elements. *)
PopThrough(q, i) == SubSeq(q, i + 1, Len(q))

(* wantConnQueue.cleanFront, then pushBack(w). *)
CleanAndPush(q, w) ==
    LET i == FirstWaiting(q, res)
    IN  IF i = 0 THEN <<w>> ELSE Append(PopThrough(q, i - 1), w)

(* wantConn.tryDeliver(x, err), where x is a connection or Err: what res   *)
(* becomes.  (Fault: the answer of an earlier delivery is overwritten.)    *)
tryDeliverAlways(w, x) == [res EXCEPT ![w] = x]
tryDeliver(w, x) == IF res[w] = NoConn THEN [res EXCEPT ![w] = x] ELSE res

(* decConnsPerHost(k) in a step that also makes dial the function d and    *)
(* res the function r: hand the count to the first wantConn still waiting  *)
(* to dial, or decrement it.  A zero count is the panic of the code.       *)
(* (Fault: nobody is handed the count.)                                    *)
decConnsPerHostNoHandover(k, d, r) ==
    /\ dial' = d
    /\ connsPerHost' = [connsPerHost EXCEPT ![k] = @ - 1]
    /\ UNCHANGED <<connsPerHostWait, underflow>>
decConnsPerHost(k, d, r) ==
    LET q == connsPerHostWait[k]
        i == FirstWaiting(q, r)
    IN  \/ /\ MaxConnsPerHost = 0
           /\ dial' = d
           /\ UNCHANGED hostVars
        \/ /\ MaxConnsPerHost # 0 /\ connsPerHost[k] = 0
           /\ underflow' = TRUE
           /\ dial' = d
           /\ UNCHANGED <<connsPerHost, connsPerHostWait>>
        \/ /\ MaxConnsPerHost # 0 /\ connsPerHost[k] # 0 /\ i # 0
           /\ dial' = [d EXCEPT ![q[i]] = "dialing"]
           /\ connsPerHostWait' = [connsPerHostWait EXCEPT ![k] = PopThrough(q, i)]
           /\ UNCHANGED <<connsPerHost, underflow>>
        \/ /\ MaxConnsPerHost # 0 /\ connsPerHost[k] # 0 /\ i = 0
           /\ dial' = d
           /\ connsPerHostWait' = [connsPerHostWait EXCEPT ![k] = <<>>]
           /\ connsPerHost' = [connsPerHost EXCEPT ![k] = @ - 1]
           /\ UNCHANGED underflow

(* persistConn.closeLocked: only the first close counts. *)
closeLocked(c, r) ==
    IF conn[c] = "open"
    THEN conn' = [conn EXCEPT ![c] = "closed"] /\ decConnsPerHost(ckey[c], dial, r)
    ELSE UNCHANGED <<conn, dial, hostVars>>

(* removeIdleConnLocked on the lists l and the LRU u. *)
ListsWithout(l, c) == [l EXCEPT ![ckey[c]] = RemoveFirst(@, c)]
removeIdleConnLocked(c) ==
    /\ idleConn' = ListsWithout(idleConn, c)
    /\ idleLRU' = RemoveFirst(idleLRU, c)
    /\ armed' = armed \ {c}

InLRU(c) == Contains(idleLRU, c)

(* queueForIdleConn, delivering list[i] of key k: what comes after it has  *)
(* been dropped; an HTTP/1 connection leaves the list and the LRU, an      *)
(* HTTP/2 one stays.  (Faults: an HTTP/1 one stays too; it stays in the    *)
(* LRU.)                                                                   *)
takeIdleShared(k, list, i) ==
    /\ idleConn' = [idleConn EXCEPT ![k] = SubSeq(list, 1, i)]
    /\ UNCHANGED idleLRU
takeIdleKeepLRU(k, list, i) ==
    /\ idleConn' = [idleConn EXCEPT ![k] = SubSeq(list, 1, i - 1)]
    /\ UNCHANGED idleLRU
takeIdle(k, list, i) ==
    IF list[i] \in alt
    THEN /\ idleConn' = [idleConn EXCEPT ![k] = SubSeq(list, 1, i)]
         /\ UNCHANGED idleLRU
    ELSE /\ idleConn' = [idleConn EXCEPT ![k] = SubSeq(list, 1, i - 1)]
         /\ idleLRU' = RemoveFirst(idleLRU, list[i])

-----------------------------------------------------------------------------
(* getConn up to queueForIdleConn.  The connections idle for longer than   *)
(* IdleConnTimeout are the first `old` of the list, which is in the order  *)
(* of idleAt.  The scan starts at the most recent one and drops the broken *)
(* and the old ones.                                                       *)
OldPrefixes(list) == IF IdleConnTimeout THEN 0..Len(list) ELSE {0}
Usable(list, old) == {i \in (old + 1)..Len(list) : conn[list[i]] = "open"}

(* It finds a connection to deliver ... *)
queueForIdleConnTake(w) ==
    /\ wpc[w] = "new" /\ res[w] = NoConn   \* getConn has just allocated w
    /\ ~DisableKeepAlives
    /\ closeIdle' = FALSE
    /\ wpc' = [wpc EXCEPT ![w] = "got"]
    /\ LET list == idleConn[WKey[w]] IN
       \E old \in OldPrefixes(list) : \E i \in Usable(list, old) :
          /\ \A j \in Usable(list, old) : j <= i
          /\ res' = tryDeliver(w, list[i])
          /\ takeIdle(WKey[w], list, i)
    /\ UNCHANGED <<dial, connVars, reused, put, loopDone, idleConnWait, hostVars,
                   closing, armed, firing>>

(* ... or none, and w is registered for the next one.  The old connections *)
(* are left to a closeConnIfStillIdle goroutine each.                      *)
queueForIdleConnWait(w) ==
    /\ wpc[w] = "new"
    /\ ~DisableKeepAlives
    /\ closeIdle' = FALSE
    /\ wpc' = [wpc EXCEPT ![w] = "queue"]
    /\ LET list == idleConn[WKey[w]] IN
       \E old \in OldPrefixes(list) :
          /\ Usable(list, old) = {}
          /\ firing' = firing \cup {list[i] : i \in 1..old}
    /\ idleConn' = [idleConn EXCEPT ![WKey[w]] = <<>>]
    /\ idleConnWait' = [idleConnWait EXCEPT ![WKey[w]] = CleanAndPush(@, w)]
    /\ UNCHANGED <<res, dial, connVars, reused, put, loopDone, idleLRU, hostVars,
                   closing, armed>>

(* The same call when DisableKeepAlives makes it return at once. *)
queueForIdleConnDisabled(w) ==
    /\ wpc[w] = "new"
    /\ DisableKeepAlives
    /\ wpc' = [wpc EXCEPT ![w] = "queue"]
    /\ UNCHANGED <<res, dial, connVars, reused, put, loopDone, idleVars, hostVars,
                   closing, armed, firing>>

(* queueForIdleConn delivers nothing. *)
queueForIdleConnNone(w) ==
    IF DisableKeepAlives THEN queueForIdleConnDisabled(w) ELSE queueForIdleConnWait(w)

(* queueForDial: dial at once, or wait for decConnsPerHost.  (Fault: one   *)
(* connection too many.)                                                   *)
dialAllowedTooMany(n) == n <= MaxConnsPerHost
dialAllowed(n) == n < MaxConnsPerHost

queueForDialNow(w) ==
    /\ wpc[w] = "queue"
    /\ MaxConnsPerHost = 0 \/ dialAllowed(connsPerHost[WKey[w]])
    /\ wpc' = [wpc EXCEPT ![w] = "select"]
    /\ dial' = [dial EXCEPT ![w] = "dialing"]
    /\ connsPerHost' = IF MaxConnsPerHost = 0 THEN connsPerHost
                       ELSE [connsPerHost EXCEPT ![WKey[w]] = @ + 1]
    /\ UNCHANGED <<res, connVars, reused, put, loopDone, idleVars, connsPerHostWait,
                   underflow, closing, armed, firing>>

queueForDialWait(w) ==
    /\ wpc[w] = "queue"
    /\ MaxConnsPerHost # 0 /\ ~dialAllowed(connsPerHost[WKey[w]])
    /\ wpc' = [wpc EXCEPT ![w] = "select"]
    /\ connsPerHostWait' = [connsPerHostWait EXCEPT ![WKey[w]] = CleanAndPush(@, w)]
    /\ UNCHANGED <<res, dial, connVars, reused, put, loopDone, idleVars, connsPerHost,
                   underflow, closing, armed, firing>>

(* The select of getConn: <-w.ready. *)
getConnReady(w) ==
    /\ wpc[w] = "select"
    /\ res[w] # NoConn
    /\ wpc' = [wpc EXCEPT ![w] = IF res[w] = Err THEN "done" ELSE "got"]
    /\ UNCHANGED <<res, dial, connVars, reused, put, loopDone, idleVars, hostVars,
                   closing, armed, firing>>

(* wantConn.cancel: what becomes of the connection x that w may have been  *)
(* delivered.  (Faults: it is forgotten; the test for nil is missing.)     *)
cancelForgets(w, x) == put
cancelUntested(w, x) == [put EXCEPT ![Caller(w)] = [at |-> "check", c |-> x]]
cancelGivesBack(w, x) ==
    IF x \in Conns THEN [put EXCEPT ![Caller(w)] = [at |-> "check", c |-> x]] ELSE put

(* The select of getConn: the request is canceled, and the deferred        *)
(* wantConn.cancel gives a connection that was already delivered back.     *)
getConnCancel(w) ==
    /\ wpc[w] = "select"
    /\ wpc' = [wpc EXCEPT ![w] = "done"]
    /\ res' = [res EXCEPT ![w] = Err]
    /\ put' = cancelGivesBack(w, res[w])
    /\ UNCHANGED <<dial, connVars, reused, loopDone, idleVars, hostVars, closing,
                   armed, firing>>

-----------------------------------------------------------------------------
(* dialConnFor(w) when dialConn succeeds.  A connection that w no longer   *)
(* wants, or that can be shared, goes to the idle pool.                    *)
dialConnForOk(w, c, h2) ==
    /\ dial[w] = "dialing"
    /\ conn[c] = "unborn"
    /\ conn' = [conn EXCEPT ![c] = "open"]
    /\ ckey' = [ckey EXCEPT ![c] = WKey[w]]
    /\ alt' = IF h2 THEN alt \cup {c} ELSE alt
    /\ dial' = [dial EXCEPT ![w] = "over"]
    /\ res' = tryDeliver(w, c)
    /\ put' = IF res[w] # NoConn \/ h2
              THEN [put EXCEPT ![Dialer(w)] = [at |-> "check", c |-> c]]
              ELSE put
    /\ UNCHANGED <<wpc, reused, loopDone, idleVars, hostVars, closing, armed, firing>>

(* dialConnFor(w) when dialConn fails; the count is given up afterwards. *)
dialConnForErr(w) ==
    /\ dial[w] = "dialing"
    /\ dial' = [dial EXCEPT ![w] = "failed"]
    /\ res' = tryDeliver(w, Err)
    /\ UNCHANGED <<wpc, connVars, reused, put, loopDone, idleVars, hostVars, closing,
                   armed, firing>>

dialConnForDec(w) ==
    /\ dial[w] = "failed"
    /\ decConnsPerHost(WKey[w], [dial EXCEPT ![w] = "over"], res)
    /\ UNCHANGED <<wpc, res, connVars, reused, put, loopDone, idleVars, closing, armed,
                   firing>>

-----------------------------------------------------------------------------
(* tryPutIdleConn before it takes idleMu.  An error makes the caller, in   *)
(* putOrCloseIdleConn and in readLoop alike, close the connection.         *)
refusedAtOnce(c) ==
    DisableKeepAlives \/ MaxIdleConnsPerHost < 0 \/ conn[c] # "open"

tryPutIdleConnCheck(p) ==
    /\ put[p].at = "check"
    /\ LET c == put[p].c
           refused == refusedAtOnce(c)
       IN /\ put' = [put EXCEPT ![p].at = IF refused THEN "close" ELSE "put"]
          /\ reused' = IF refused THEN reused ELSE reused \cup {c}
    /\ UNCHANGED <<wpc, res, dial, connVars, loopDone, idleVars, hostVars, closing,
                   armed, firing>>

(* tryPutIdleConn on the waiters of c: those that receive c and the queue  *)
(* that is left.  An HTTP/1 connection goes to the first that still waits, *)
(* an HTTP/2 one to all of them.  (Fault: the loop is an if.)              *)
deliveryOnce(c) ==
    LET q == idleConnWait[ckey[c]]
    IN  IF q = <<>> THEN [to |-> {}, rest |-> q]
        ELSE [to |-> {Head(q)} \cap {w \in Wants : res[w] = NoConn}, rest |-> Tail(q)]
delivery(c) ==
    LET q == idleConnWait[ckey[c]]
        i == FirstWaiting(q, res)
    IN  IF c \in alt
        THEN [to |-> {w \in Range(q) : res[w] = NoConn}, rest |-> <<>>]
        ELSE IF i = 0 THEN [to |-> {}, rest |-> <<>>]
        ELSE [to |-> {q[i]}, rest |-> PopThrough(q, i)]

deliver(c) ==
    /\ res' = [w \in Wants |-> IF w \in delivery(c).to THEN c ELSE res[w]]
    /\ idleConnWait' = [idleConnWait EXCEPT ![ckey[c]] = delivery(c).rest]

(* tryPutIdleConn under idleMu, its four ways out.                         *)
(* 1. An HTTP/2 connection that is still registered is merely "returned".  *)
tryPutIdleConnShared(p) ==
    /\ put[p].at = "put"
    /\ put[p].c \in alt /\ InLRU(put[p].c)
    /\ put' = [put EXCEPT ![p] = NoPut]
    /\ UNCHANGED <<wpc, res, dial, connVars, reused, loopDone, idleVars, hostVars,
                   closing, armed, firing>>

(* 2. An HTTP/1 connection goes to the first wantConn still waiting. *)
tryPutIdleConnDeliver(p) ==
    /\ put[p].at = "put"
    /\ put[p].c \notin alt
    /\ delivery(put[p].c).to # {}
    /\ deliver(put[p].c)
    /\ put' = [put EXCEPT ![p] = NoPut]
    /\ UNCHANGED <<wpc, dial, connVars, reused, loopDone, idleConn, idleLRU, closeIdle,
                   hostVars, closing, armed, firing>>

(* What is left to register after the deliveries. *)
Undelivered(c) ==
    /\ ~(c \in alt /\ InLRU(c))
    /\ c \in alt \/ delivery(c).to = {}

(* 3. The pool does not want it. *)
tryPutIdleConnRefuse(p) ==
    /\ put[p].at = "put"
    /\ LET c == put[p].c
           k == ckey[c]
       IN /\ Undelivered(c)
          /\ closeIdle \/ Len(idleConn[k]) >= MaxIdleConnsPerHost
          /\ deliver(c)
    /\ put' = [put EXCEPT ![p].at = "close"]
    /\ UNCHANGED <<wpc, dial, connVars, reused, loopDone, idleConn, idleLRU, closeIdle,
                   hostVars, closing, armed, firing>>

(* 4. It becomes idle.  More than MaxIdleConns in all evict the oldest,    *)
(* which is closed and removed at once.                                    *)
tryPutIdleConnAdd(p) ==
    /\ put[p].at = "put"
    /\ LET c == put[p].c
           k == ckey[c]
           lists == [idleConn EXCEPT ![k] = Append(@, c)]
           lru == <<c>> \o idleLRU
           oldest == Last(lru)
           timers == IF IdleConnTimeout /\ c \notin alt THEN armed \cup {c} ELSE armed
       IN /\ Undelivered(c)
          /\ ~closeIdle /\ Len(idleConn[k]) < MaxIdleConnsPerHost
          /\ deliver(c)
          /\ IF MaxIdleConns # 0 /\ Len(lru) > MaxIdleConns
             THEN /\ idleConn' = ListsWithout(lists, oldest)
                  /\ idleLRU' = Front(lru)
                  /\ armed' = timers \ {oldest}
                  /\ closeLocked(oldest, res')
             ELSE /\ idleConn' = lists
                  /\ idleLRU' = lru
                  /\ armed' = timers
                  /\ UNCHANGED <<conn, dial, hostVars>>
    /\ put' = [put EXCEPT ![p] = NoPut]
    /\ UNCHANGED <<wpc, alt, ckey, reused, loopDone, closeIdle, closing, firing>>

(* putOrCloseIdleConn, or readLoop, after tryPutIdleConn failed. *)
putOrCloseIdleConnClose(p) ==
    /\ put[p].at = "close"
    /\ closeLocked(put[p].c, res)
    /\ put' = [put EXCEPT ![p] = NoPut]
    /\ UNCHANGED <<wpc, res, alt, ckey, reused, loopDone, idleVars, closing, armed, firing>>

-----------------------------------------------------------------------------
(* The request that received a connection, in Transport.roundTrip.         *)
HTTP1(w) == wpc[w] = "got" /\ res[w] \notin alt
HTTP2Conn(w) == wpc[w] = "got" /\ res[w] \in alt

(* persistConn.roundTrip finds its canceler gone and gives the connection  *)
(* back before it is used.                                                 *)
roundTripCanceled(w) ==
    /\ HTTP1(w)
    /\ wpc' = [wpc EXCEPT ![w] = "done"]
    /\ put' = [put EXCEPT ![Caller(w)] = [at |-> "check", c |-> res[w]]]
    /\ UNCHANGED <<res, dial, connVars, reused, loopDone, idleVars, hostVars, closing,
                   armed, firing>>

(* The response has been read to its end, the connection can be reused,    *)
(* and readLoop puts it back.                                              *)
readLoopPut(w) ==
    /\ HTTP1(w)
    /\ res[w] \notin loopDone
    /\ put[ReadLoop(res[w])] = NoPut
    /\ wpc' = [wpc EXCEPT ![w] = "done"]
    /\ put' = [put EXCEPT ![ReadLoop(res[w])] = [at |-> "check", c |-> res[w]]]
    /\ UNCHANGED <<res, dial, connVars, reused, loopDone, idleVars, hostVars, closing,
                   armed, firing>>

(* The exchange ends with its connection: an error, a cancellation, a      *)
(* response that does not allow reuse, a protocol switch.                  *)
roundTripLost(w) ==
    /\ HTTP1(w)
    /\ conn[res[w]] = "closed"
    /\ wpc' = [wpc EXCEPT ![w] = "done"]
    /\ UNCHANGED <<res, dial, connVars, reused, put, loopDone, idleVars, hostVars,
                   closing, armed, firing>>

(* pconn.alt.RoundTrip returns a response or an error that is not retried. *)
altRoundTrip(w) ==
    /\ HTTP2Conn(w)
    /\ wpc' = [wpc EXCEPT ![w] = "done"]
    /\ UNCHANGED <<res, dial, connVars, reused, put, loopDone, idleVars, hostVars,
                   closing, armed, firing>>

(* pconn.alt.RoundTrip finds no cached connection: removeIdleConn, and     *)
(* decConnsPerHost when that removed something.                            *)
noCachedConn(w) ==
    /\ HTTP2Conn(w)
    /\ removeIdleConnLocked(res[w])
    /\ wpc' = [wpc EXCEPT ![w] =
                  IF Contains(idleConn[ckey[res[w]]], res[w]) THEN "dec" ELSE "done"]
    /\ UNCHANGED <<res, dial, connVars, reused, put, loopDone, idleConnWait, closeIdle,
                   hostVars, closing, firing>>

noCachedConnDec(w) ==
    /\ wpc[w] = "dec"
    /\ wpc' = [wpc EXCEPT ![w] = "done"]
    /\ decConnsPerHost(ckey[res[w]], dial, res)
    /\ UNCHANGED <<res, connVars, reused, put, loopDone, idleVars, closing, armed, firing>>

-----------------------------------------------------------------------------
(* An HTTP/1 connection is closed from its own side: readLoop reads an     *)
(* error or an unsolicited byte, writeLoop fails, a request is canceled or *)
(* times out, the response forbids reuse.                                  *)
persistConnClose(c) ==
    /\ c \notin alt
    /\ conn[c] = "open"
    /\ closeLocked(c, res)
    /\ UNCHANGED <<wpc, res, alt, ckey, reused, put, loopDone, idleVars, closing, armed,
                   firing>>

(* The deferred function of readLoop once the connection is closed. *)
readLoopExit(c) ==
    /\ c \notin alt /\ conn[c] = "closed" /\ c \notin loopDone
    /\ put[ReadLoop(c)] = NoPut
    /\ loopDone' = loopDone \cup {c}
    /\ removeIdleConnLocked(c)
    /\ UNCHANGED <<wpc, res, dial, connVars, reused, put, idleConnWait, closeIdle,
                   hostVars, closing, firing>>

(* CloseIdleConnections takes every idle list under idleMu and closes the  *)
(* connections afterwards.                                                 *)
CloseIdleConnections ==
    /\ closing = {}
    /\ closing' = UNION {Range(idleConn[k]) : k \in Keys}
    /\ idleConn' = [k \in Keys |-> <<>>]
    /\ idleLRU' = <<>>
    /\ closeIdle' = TRUE
    /\ UNCHANGED <<wpc, res, dial, connVars, reused, put, loopDone, idleConnWait,
                   hostVars, armed, firing>>

closeTaken(c) ==
    /\ c \in closing
    /\ closing' = closing \ {c}
    /\ closeLocked(c, res)
    /\ UNCHANGED <<wpc, res, alt, ckey, reused, put, loopDone, idleVars, armed, firing>>

(* The idle timer of c runs out ... *)
idleTimer(c) ==
    /\ c \in armed
    /\ armed' = armed \ {c}
    /\ firing' = firing \cup {c}
    /\ UNCHANGED <<wpc, res, dial, connVars, reused, put, loopDone, idleVars, hostVars,
                   closing>>

(* ... and its goroutine, or the one queueForIdleConn started, gets idleMu. *)
closeConnIfStillIdle(c) ==
    /\ c \in firing
    /\ firing' = firing \ {c}
    /\ IF InLRU(c)
       THEN removeIdleConnLocked(c) /\ closeLocked(c, res)
       ELSE UNCHANGED <<idleConn, idleLRU, armed, conn, dial, hostVars>>
    /\ UNCHANGED <<wpc, res, alt, ckey, reused, put, loopDone, idleConnWait, closeIdle,
                   closing>>

-----------------------------------------------------------------------------
(* The steps that follow one another without anybody's leave. *)
GetConnStep(w) ==
    \/ queueForDialNow(w) \/ queueForDialWait(w) \/ getConnReady(w)
    \/ (\E c \in Conns, h2 \in {FALSE, HTTP2} : dialConnForOk(w, c, h2))
    \/ dialConnForErr(w) \/ dialConnForDec(w)

PutStep(p) ==
    \/ tryPutIdleConnCheck(p) \/ tryPutIdleConnShared(p) \/ tryPutIdleConnDeliver(p)
    \/ tryPutIdleConnRefuse(p) \/ tryPutIdleConnAdd(p) \/ putOrCloseIdleConnClose(p)

UseStep(w) ==
    \/ roundTripCanceled(w) \/ readLoopPut(w) \/ roundTripLost(w)
    \/ altRoundTrip(w) \/ noCachedConn(w) \/ noCachedConnDec(w)

CloseStep(c) == readLoopExit(c) \/ closeTaken(c) \/ closeConnIfStillIdle(c)

Next ==
    \/ \E w \in Wants :
          \/ queueForIdleConnTake(w) \/ queueForIdleConnNone(w) \/ getConnCancel(w)
          \/ GetConnStep(w) \/ UseStep(w)
    \/ \E p \in Putters : PutStep(p)
    \/ \E c \in Conns : CloseStep(c) \/ persistConnClose(c) \/ idleTimer(c)
    \/ CloseIdleConnections

Spec == Init /\ [][Next]_vars

(* Goroutines that can run do run, dials end, and every request lets go of *)
(* the connection it got (its response body is read or closed, or it       *)
(* fails).  Nothing forces a new request, a cancellation, a lost           *)
(* connection, a timer or CloseIdleConnections.                            *)
Fairness ==
    /\ \A w \in Wants : WF_vars(GetConnStep(w)) /\ WF_vars(UseStep(w))
    /\ \A p \in Putters : WF_vars(PutStep(p))
    /\ \A c \in Conns : WF_vars(CloseStep(c))

FairSpec == Spec /\ Fairness

-----------------------------------------------------------------------------
Holding(w) == wpc[w] \in {"queue", "select", "got"} /\ res[w] \in Conns
Idle(c) == Contains(idleConn[ckey[c]], c)
Opened(k) == {c \in Conns : conn[c] = "open" /\ ckey[c] = k}
Dials(k) == {w \in Wants : dial[w] \in {"dialing", "failed"} /\ WKey[w] = k}
Live(k) == Cardinality(Opened(k)) + Cardinality(Dials(k))

(* Every variable keeps its type. *)
TypeOK ==
    /\ wpc \in [Wants -> {"new", "queue", "select", "got", "dec", "done"}]
    /\ res \in [Wants -> Conns \cup {NoConn, Err}]
    /\ \A w \in Wants : wpc[w] \in {"got", "dec"} => res[w] \in Conns
    /\ dial \in [Wants -> {"no", "dialing", "failed", "over"}]
    /\ conn \in [Conns -> {"unborn", "open", "closed"}]
    /\ alt \in SUBSET Conns
    /\ ckey \in [Conns -> Keys]
    /\ reused \in SUBSET Conns
    /\ put \in [Putters -> [at : {"no", "check", "put", "close"},
                            c : Conns \cup {NoConn}]]
    /\ \A p \in Putters : put[p].c \in Conns <=> put[p].at # "no"
    /\ loopDone \in SUBSET Conns
    /\ idleConn \in [Keys -> Seq(Conns)]
    /\ idleLRU \in Seq(Conns)
    /\ idleConnWait \in [Keys -> Seq(Wants)]
    /\ closeIdle \in BOOLEAN
    /\ connsPerHost \in [Keys -> Nat]
    /\ connsPerHostWait \in [Keys -> Seq(Wants)]
    /\ closing \in SUBSET Conns
    /\ armed \in SUBSET Conns
    /\ firing \in SUBSET Conns
    /\ underflow \in BOOLEAN

(* An HTTP/1 connection is in one place at a time: with one request, or    *)
(* with one goroutine that gives it back, or in one idle list, or taken by *)
(* CloseIdleConnections ("HTTP/1: only one client can use pconn").         *)
Exclusive ==
    \A c \in Conns \ alt :
      /\ \A w, v \in Wants :
            Holding(w) /\ Holding(v) /\ res[w] = c /\ res[v] = c => w = v
      /\ \A p, q \in Putters : put[p].c = c /\ put[q].c = c => p = q
      /\ \A w \in Wants : Holding(w) /\ res[w] = c =>
            (\A p \in Putters : put[p].c # c) /\ ~Idle(c) /\ c \notin closing
      /\ \A p \in Putters : put[p].c = c => ~Idle(c) /\ c \notin closing
      /\ Idle(c) => c \notin closing

(* Neither log.Fatalf("dup idle pconn") nor panic("persistConn was already *)
(* in LRU") can happen, no idle list is longer than MaxIdleConnsPerHost    *)
(* and no more than MaxIdleConns connections are registered.               *)
IdleListsSound ==
    /\ \A k \in Keys :
         /\ IsInjective(idleConn[k])
         /\ \A i \in 1..Len(idleConn[k]) :
               ckey[idleConn[k][i]] = k /\ InLRU(idleConn[k][i])
         /\ Len(idleConn[k]) > 0 => Len(idleConn[k]) <= MaxIdleConnsPerHost
    /\ IsInjective(idleLRU)
    /\ MaxIdleConns # 0 => Len(idleLRU) <= MaxIdleConns
    /\ \A p \in Putters : put[p].at = "put" /\ put[p].c \notin alt => ~InLRU(put[p].c)

(* A registered idle connection and a wantConn that waits for one never    *)
(* exist side by side: queueForIdleConn and tryPutIdleConn leave no gap in *)
(* which a waiter overlooks a connection ("late binding").                 *)
LateBinding ==
    \A k \in Keys : idleConn[k] # <<>> => FirstWaiting(idleConnWait[k], res) = 0

(* w waits for a dial of its own, or for a decConnsPerHost that is still   *)
(* to come; w is registered for a connection that becomes idle.            *)
WaitsDial(w) ==
    \/ dial[w] = "dialing"
    \/ /\ Contains(connsPerHostWait[WKey[w]], w)
       /\ connsPerHost[WKey[w]] = MaxConnsPerHost /\ MaxConnsPerHost > 0
WaitsIdle(w) == DisableKeepAlives \/ Contains(idleConnWait[WKey[w]], w)

(* Whoever waits in getConn has somebody to wait for: a dial of its own,   *)
(* or a place in connsPerHostWait while the host's count is used up, so    *)
(* that a decConnsPerHost is still to come; and it is registered for any   *)
(* connection that becomes idle first.                                     *)
NotStranded ==
    \A w \in Wants :
      wpc[w] = "select" /\ res[w] = NoConn => WaitsDial(w) /\ WaitsIdle(w)

(* connsPerHost counts exactly the connections that are open and the dials *)
(* in flight, and never exceeds MaxConnsPerHost ("limits the total number  *)
(* of connections per host, including connections in the dialing, active,  *)
(* and idle states").  HTTP/1 only.                                        *)
CountExact ==
    MaxConnsPerHost > 0 =>
      \A k \in Keys : connsPerHost[k] = Live(k) /\ Live(k) <= MaxConnsPerHost

(* No open HTTP/1 connection is forgotten: a request has it, somebody is   *)
(* about to put it back or to close it, or it is in an idle list where the *)
(* next request finds it.                                                  *)
NoLeak ==
    \A c \in Conns \ alt : conn[c] = "open" =>
      \/ \E w \in Wants : Holding(w) /\ res[w] = c
      \/ \E p \in Putters : put[p].c = c
      \/ Idle(c) \/ c \in closing
      \/ c \in firing /\ InLRU(c)

(* Every HTTP/1 connection is accounted for: it has one holder, it counts   *)
(* against MaxConnsPerHost from the dial to the close, and while it is open *)
(* somebody has it or will find it.                                         *)
ConnsAccounted == Exclusive /\ CountExact /\ NoLeak

(* With DisableKeepAlives a connection serves one request only, and no     *)
(* connection is kept.                                                     *)
SingleUse ==
    DisableKeepAlives =>
      /\ \A w, v \in Wants : res[w] \in Conns /\ res[w] = res[v] => w = v
      /\ idleLRU = <<>>

(* A wantConn is answered once: the answer never changes, except that a    *)
(* canceled call swaps the connection it got for the error, and then it    *)
(* gives that very connection back.                                        *)
AnsweredOnce ==
    [][\A w \in Wants : res[w] # NoConn /\ res'[w] # res[w] =>
          /\ res'[w] = Err
          /\ wpc'[w] = "done"
          /\ res[w] \in Conns => put'[Caller(w)].c = res[w]]_vars

(* getConn returns: it never waits for ever behind the per-host limit. *)
GetConnReturns ==
    \A w \in Wants : wpc[w] = "queue" ~> wpc[w] \in {"got", "done"}

(* The count never underflows ("Shouldn't happen"). *)
NoUnderflow == ~underflow
-----------------------------------------------------------------------------
(* What the proofs of the properties above need besides.                   *)

(* A call that waits is registered and has not been given a dial twice. *)
WaitersRegistered ==
    /\ \A w \in Wants :
         /\ wpc[w] \in {"got", "dec", "done"} => res[w] # NoConn
         /\ wpc[w] \in {"queue", "select"} /\ res[w] = NoConn => WaitsIdle(w)
         /\ wpc[w] = "select" /\ res[w] = NoConn => WaitsDial(w)
    /\ \A k \in Keys : connsPerHost[k] <= MaxConnsPerHost

(* w has c; no request, no putter and no CloseIdleConnections has c. *)
Has(w, c) == Holding(w) /\ res[w] = c
Unheld(c) ==
    /\ \A w \in Wants : ~Has(w, c)
    /\ \A p \in Putters : put[p].c # c
    /\ c \notin closing

(* An HTTP/1 connection has one holder, and none while the LRU has it. *)
HeldOnce(c) ==
    /\ \A w, v \in Wants : Has(w, c) /\ Has(v, c) => w = v
    /\ \A p, q \in Putters : put[p].c = c /\ put[q].c = c => p = q
    /\ \A w \in Wants, p \in Putters : Has(w, c) => put[p].c # c
    /\ c \in closing => \A w \in Wants : ~Has(w, c)
    /\ c \in closing => \A p \in Putters : put[p].c # c
    /\ InLRU(c) => Unheld(c)
OneHolder == \A c \in Conns \ alt : HeldOnce(c)

(* A connection that has not been dialed is nowhere. *)
UnbornNowhere ==
    \A c \in Conns : conn[c] = "unborn" =>
      /\ c \notin alt /\ Unheld(c) /\ ~InLRU(c)
      /\ \A w \in Wants : res[w] # c

(* The idle lists agree with the LRU, hold nothing twice and respect the   *)
(* limits.                                                                 *)
ListsInLRU ==
    /\ \A k \in Keys :
         /\ \A i \in 1..Len(idleConn[k]) :
               ckey[idleConn[k][i]] = k /\ InLRU(idleConn[k][i])
         /\ \A i, j \in 1..Len(idleConn[k]) : idleConn[k][i] = idleConn[k][j] => i = j
         /\ Len(idleConn[k]) > 0 => Len(idleConn[k]) <= MaxIdleConnsPerHost
    /\ \A i, j \in 1..Len(idleLRU) : idleLRU[i] = idleLRU[j] => i = j
    /\ MaxIdleConns # 0 => Len(idleLRU) <= MaxIdleConns

(* A call stands in connsPerHostWait once, under its key, and without a    *)
(* dial; until it has asked for a dial it has none, and at its start no    *)
(* answer either.                                                          *)
QueuedOnce ==
    /\ \A w \in Wants :
         /\ wpc[w] = "new" => res[w] = NoConn
         /\ wpc[w] \in {"new", "queue"} => dial[w] = "no"
    /\ \A k \in Keys :
         /\ \A i \in 1..Len(connsPerHostWait[k]) :
               LET w == connsPerHostWait[k][i]
               IN  WKey[w] = k /\ wpc[w] \notin {"new", "queue"} /\ dial[w] = "no"
         /\ \A i, j \in 1..Len(connsPerHostWait[k]) :
               connsPerHostWait[k][i] = connsPerHostWait[k][j] => i = j

(* Nobody gives two connections back at once, and only calls that have     *)
(* started wait for an idle connection.                                    *)
PuttersFree ==
    /\ \A w \in Wants :
         /\ wpc[w] # "done" => put[Caller(w)] = NoPut
         /\ dial[w] # "over" => put[Dialer(w)] = NoPut
    /\ \A k \in Keys : \A i \in 1..Len(idleConnWait[k]) : wpc[idleConnWait[k][i]] # "new"

(* Without HTTP/2 no connection is shared. *)
NoneShared == alt = {} /\ \A w \in Wants : wpc[w] # "dec"

(* Without IdleConnTimeout no timer runs. *)
NoTimers == armed = {} /\ firing = {}

-----------------------------------------------------------------------------
(* The pool as ConnOwner sees it (HTTP/1 only). *)
LentTo(c) == {w \in Wants : Holding(w) /\ res[w] = c}
ownerPlace ==
    [c \in Conns |-> IF conn[c] # "open" THEN conn[c]
                     ELSE IF LentTo(c) # {} THEN "lent"
                     ELSE IF Idle(c) THEN "idle" ELSE "pool"]
ownerUser ==
    [c \in Conns |-> IF conn[c] = "open" /\ LentTo(c) # {}
                     THEN CHOOSE w \in Wants : w \in LentTo(c) ELSE NoConn]
ownerAnswered == {w \in Wants : res[w] # NoConn}

Owner == INSTANCE ConnOwner WITH
    Requests <- Wants, None <- NoConn,
    place <- ownerPlace, user <- ownerUser, answered <- ownerAnswered

(* The pool implements ConnOwner: whatever the interleaving of getConn,    *)
(* dialConnFor, tryPutIdleConn, readLoop and CloseIdleConnections, a       *)
(* connection changes hands only through the pool.                         *)
ImplementsConnOwner == Owner!Spec
=============================================================================
