----------------------- MODULE TransportPoolAccounts -----------------------
(***************************************************************************)
(* No open connection of an HTTP/1 pool is forgotten (FoundInv), and the   *)
(* pool implements ConnOwner.                                              *)
(***************************************************************************)
EXTENDS TransportPoolLists, TransportPoolCounts

(* Where an open connection is found. *)
Found(c) ==
    \/ \E w \in Wants : Has(w, c)
    \/ \E p \in Putters : put[p].c = c
    \/ Idle(c)
    \/ c \in closing
FoundInv == \A c \in Conns : conn[c] = "open" => Found(c)

(* A call without an answer that has started is in its select. *)
LEMMA WaitingCall ==
  ASSUME TypeOK, WaitersRegistered, NEW w \in Wants, res[w] = NoConn, wpc[w] # "new"
  PROVE  wpc[w] \in {"queue", "select"}
BY DEF TypeOK, WaitersRegistered

LEMMA FoundGetConn ==
  ASSUME TypeOK, CallsInv, WaitersRegistered, FoundInv, ~IdleConnTimeout, NEW w \in Wants,
         \/ queueForIdleConnTake(w) \/ queueForIdleConnWait(w)
         \/ queueForIdleConnDisabled(w) \/ getConnCancel(w) \/ GetConnStep(w),
         NEW c \in Conns, conn'[c] = "open"
  PROVE  Found(c)'
<1> DEFINE k == WKey[w]
           list == idleConn[k]
<1>0. k \in Keys /\ list \in Seq(Conns) /\ Len(list) \in Nat
  BY PoolAssumption DEF TypeOK
<1>1. CASE queueForIdleConnTake(w) \/ queueForIdleConnWait(w)
  <2>1. /\ wpc[w] = "new" /\ UNCHANGED <<conn, ckey, put, closing>>
        /\ \A v \in Wants : v # w => wpc'[v] = wpc[v] /\ res'[v] = res[v]
    BY <1>1 DEF queueForIdleConnTake, queueForIdleConnWait, connVars, tryDeliver, TypeOK
  <2>2. Found(c)
    BY <2>1 DEF FoundInv
  <2>3. ASSUME NEW v \in Wants, Has(v, c) PROVE Has(v, c)'
    BY <2>1, <2>3 DEF Has, Holding
  <2>4. ASSUME Idle(c) PROVE Found(c)'
    <3>1. CASE ckey[c] # k
      <4>1. idleConn'[ckey[c]] = idleConn[ckey[c]]
        <5>1. CASE queueForIdleConnWait(w)
          BY <3>1, <5>1 DEF queueForIdleConnWait, TypeOK
        <5>2. CASE queueForIdleConnTake(w)
          <6>1. \E i : takeIdle(k, list, i)
            BY <5>2, TakenIndex
          <6> QED BY <3>1, <6>1 DEF takeIdle, TypeOK
        <5> QED BY <1>1, <5>1, <5>2
      <4> QED BY <2>1, <2>4, <4>1 DEF Found, Idle
    <3>2. CASE ckey[c] = k
      <4>1. PICK j \in 1..Len(list) : list[j] = c
        BY <2>4, <3>2 DEF Idle, Contains
      <4>2. j \in Usable(list, 0)
        BY <1>0, <2>1, <4>1 DEF Usable
      <4>3. OldPrefixes(list) = {0}
        BY DEF OldPrefixes
      <4>4. PICK i \in Usable(list, 0) :
              j <= i /\ res' = tryDeliver(w, list[i]) /\ takeIdle(k, list, i)
        BY <1>1, <4>2, <4>3 DEF queueForIdleConnTake, queueForIdleConnWait
      <4>5. i \in 1..Len(list) /\ res[w] = NoConn /\ wpc' = [wpc EXCEPT ![w] = "got"]
        <5>1. queueForIdleConnTake(w)
          BY <1>1, <4>2, <4>3 DEF queueForIdleConnWait
        <5> QED BY <5>1 DEF Usable, queueForIdleConnTake
      <4>6. CASE j = i
        <5>1. res'[w] = c /\ wpc'[w] = "got"
          BY <4>1, <4>4, <4>5, <4>6 DEF tryDeliver, TypeOK
        <5> QED BY <5>1 DEF Found, Has, Holding
      <4>7. CASE j # i
        <5>1. PICK n \in {i - 1, i} : idleConn' = [idleConn EXCEPT ![k] = SubSeq(list, 1, n)]
          BY <4>4 DEF takeIdle
        <5>2. n \in 0..Len(list) /\ j \in 1..n
          BY <4>4, <4>5, <4>7
        <5>3. idleConn'[k] = SubSeq(list, 1, n)
          BY <1>0, <5>1 DEF TypeOK
        <5>4. Len(idleConn'[k]) = n /\ idleConn'[k][j] = list[j]
          BY <1>0, <5>2, <5>3
        <5>5. Contains(idleConn'[k], c)
          BY <4>1, <5>2, <5>4 DEF Contains
        <5> QED BY <2>1, <3>2, <5>5 DEF Found, Idle
      <4> QED BY <4>6, <4>7
    <3> QED BY <3>1, <3>2
  <2> QED BY <2>1, <2>2, <2>3, <2>4 DEF Found
<1>2. CASE getConnCancel(w)
  <2>1. /\ wpc[w] = "select" /\ UNCHANGED <<conn, ckey, closing, idleConn>>
        /\ \A v \in Wants : v # w => wpc'[v] = wpc[v] /\ res'[v] = res[v]
        /\ put' = cancelGivesBack(w, res[w])
    BY <1>2 DEF getConnCancel, connVars, idleVars, TypeOK
  <2>2. put[Caller(w)] = NoPut /\ Caller(w) \in Putters
    BY <2>1, PuttersType DEF CallsInv, PuttersFree
  <2>3. \A p \in Putters : put[p].c = c => put'[p].c = c
    BY <2>1, <2>2, PoolAssumption DEF cancelGivesBack, NoPut, TypeOK
  <2>4. res[w] = c => put'[Caller(w)].c = c
    BY <2>1, <2>2 DEF cancelGivesBack, TypeOK
  <2> QED BY <2>1, <2>2, <2>3, <2>4 DEF FoundInv, Found, Has, Holding, Idle
<1>3. CASE \E d \in Conns, h2 \in {FALSE, HTTP2} : dialConnForOk(w, d, h2)
  <2>1. PICK d \in Conns, h2 \in {FALSE, HTTP2} : dialConnForOk(w, d, h2)
    BY <1>3, ZenonT(60)
  <2>2. /\ dial[w] = "dialing" /\ conn' = [conn EXCEPT ![d] = "open"]
        /\ ckey' = [ckey EXCEPT ![d] = k] /\ res' = tryDeliver(w, d)
        /\ put' = IF res[w] # NoConn \/ h2
                  THEN [put EXCEPT ![Dialer(w)] = [at |-> "check", c |-> d]] ELSE put
        /\ UNCHANGED <<wpc, closing, idleConn>>
    BY <2>1 DEF dialConnForOk, idleVars
  <2>3. put[Dialer(w)] = NoPut /\ Dialer(w) \in Putters
    BY <2>2, PuttersType DEF CallsInv, PuttersFree
  <2>4. \A p \in Putters : put[p].c = c => put'[p].c = c
    BY <2>2, <2>3, PoolAssumption DEF NoPut, TypeOK
  <2>5. \A v \in Wants : Has(v, c) => Has(v, c)'
    BY <2>2, PoolAssumption DEF Has, Holding, tryDeliver, TypeOK
  <2>6. CASE c # d
    <3>1. conn[c] = "open" /\ ckey'[c] = ckey[c]
      BY <2>2, <2>6 DEF TypeOK
    <3> QED BY <2>2, <2>4, <2>5, <3>1 DEF FoundInv, Found, Idle
  <2>7. CASE c = d /\ res[w] # NoConn
    <3>1. put'[Dialer(w)].c = c
      BY <2>2, <2>3, <2>7 DEF TypeOK
    <3> QED BY <2>3, <3>1 DEF Found
  <2>8. CASE c = d /\ res[w] = NoConn
    <3>1. wpc[w] # "new"
      BY <2>2 DEF CallsInv, QueuedOnce
    <3>2. wpc[w] \in {"queue", "select"}
      BY <2>8, <3>1, WaitingCall
    <3>3. res'[w] = c
      BY <2>2, <2>8 DEF tryDeliver, TypeOK
    <3> QED BY <2>2, <3>2, <3>3 DEF Found, Has, Holding
  <2> QED BY <2>6, <2>7, <2>8
<1>4. CASE \/ queueForIdleConnDisabled(w) \/ queueForDialNow(w) \/ queueForDialWait(w)
           \/ getConnReady(w) \/ dialConnForErr(w) \/ dialConnForDec(w)
  <2>1. UNCHANGED <<conn, ckey, put, closing, idleConn>>
    BY <1>4 DEF queueForIdleConnDisabled, queueForDialNow, queueForDialWait, getConnReady,
       dialConnForErr, dialConnForDec, connVars, idleVars
  <2>2. ASSUME NEW v \in Wants, Has(v, c) PROVE Has(v, c)'
    <3>1. CASE dialConnForErr(w)
      BY <2>2, <3>1, PoolAssumption DEF dialConnForErr, tryDeliver, Has, Holding, TypeOK
    <3>2. CASE \/ queueForIdleConnDisabled(w) \/ queueForDialNow(w) \/ queueForDialWait(w)
               \/ getConnReady(w) \/ dialConnForDec(w)
      BY <2>2, <3>2, PoolAssumption, ZenonT(60) DEF queueForIdleConnDisabled, queueForDialNow,
         queueForDialWait, getConnReady, dialConnForDec, Has, Holding, TypeOK
    <3> QED BY <1>4, <3>1, <3>2
  <2> QED BY <2>1, <2>2 DEF FoundInv, Found, Idle
<1> QED BY <1>1, <1>2, <1>3, <1>4, ZenonT(60) DEF GetConnStep

(* removeIdleConnLocked(e) leaves every other connection where it is. *)
LEMMA OthersStay ==
  ASSUME TypeOK, NEW L \in [Keys -> Seq(Conns)], NEW e \in Conns, NEW k \in Keys,
         NEW c, c # e, Contains(L[k], c)
  PROVE  Contains(ListsWithout(L, e)[k], c)
<1>1. ckey[e] \in Keys /\ L[k] \in Seq(Conns)
  BY DEF TypeOK
<1>2. Contains(RemoveFirst(L[k], e), c)
  BY <1>1, RemoveFirstProps
<1>3. ListsWithout(L, e)[k] = IF k = ckey[e] THEN RemoveFirst(L[k], e) ELSE L[k]
  BY <1>1 DEF ListsWithout
<1> QED BY <1>2, <1>3

LEMMA FoundAdd ==
  ASSUME TypeOK, NEW p \in Putters, tryPutIdleConnAdd(p), NEW c \in Conns,
         Idle(c) \/ c = put[p].c, conn'[c] = "open"
  PROVE  Idle(c)'
<1> DEFINE d == put[p].c
           h == ckey[d]
           lists == [idleConn EXCEPT ![h] = Append(idleConn[h], d)]
           oldest == Last(<<d>> \o idleLRU)
           k == ckey[c]
<1>1. d \in Conns /\ h \in Keys /\ k \in Keys /\ idleConn[h] \in Seq(Conns) /\ ckey' = ckey
  BY DEF tryPutIdleConnAdd, TypeOK
<1>2. oldest \in Conns
  BY <1>1, OldestIsConn
<1>3. \/ idleConn' = ListsWithout(lists, oldest) /\ closeLocked(oldest, res')
      \/ idleConn' = lists
  BY DEF tryPutIdleConnAdd
<1>4. lists \in [Keys -> Seq(Conns)]
  BY <1>1 DEF TypeOK
<1>5. Contains(lists[k], c)
  <2>1. CASE k # h
    <3>1. lists[k] = idleConn[k] /\ c # d
      BY <1>1, <2>1 DEF TypeOK
    <3> QED BY <3>1 DEF Idle
  <2>2. CASE k = h
    <3>1. lists[k] = Append(idleConn[h], d)
      BY <1>1, <2>2 DEF TypeOK
    <3> HIDE DEF lists, d, h, k
    <3>2. /\ Len(lists[k]) = Len(idleConn[h]) + 1 /\ lists[k][Len(idleConn[h]) + 1] = d
          /\ \A i \in 1..Len(idleConn[h]) : lists[k][i] = idleConn[h][i] /\ i \in 1..Len(lists[k])
          /\ Len(idleConn[h]) + 1 \in 1..Len(lists[k])
      BY <1>1, <3>1
    <3>3. CASE c = d
      BY <3>2, <3>3 DEF Contains
    <3>4. CASE Idle(c)
      BY <2>2, <3>2, <3>4 DEF Idle, Contains, k
    <3> QED BY <3>3, <3>4 DEF d
  <2> QED BY <2>1, <2>2
<1> HIDE DEF lists, oldest
<1>6. CASE idleConn' = lists
  BY <1>1, <1>5, <1>6 DEF Idle
<1>7. CASE idleConn' = ListsWithout(lists, oldest) /\ closeLocked(oldest, res')
  <2>1. c # oldest
    BY <1>2, <1>7 DEF closeLocked, TypeOK
  <2>2. Contains(idleConn'[k], c)
    BY <1>1, <1>2, <1>4, <1>5, <1>7, <2>1, OthersStay, ZenonT(60)
  <2> QED BY <1>1, <2>2 DEF Idle
<1> QED BY <1>3, <1>6, <1>7

(* A step closes connections and opens none, but for the dials. *)
LEMMA CloseOpens ==
  ASSUME TypeOK, NEW d \in Conns, NEW r, closeLocked(d, r)
  PROVE  conn'[d] # "open" /\ \A c \in Conns : conn'[c] = "open" => conn[c] = "open"
BY DEF closeLocked, TypeOK

LEMMA FoundPut ==
  ASSUME TypeOK, CallsInv, WaitersRegistered, NoneShared, FoundInv, NEW p \in Putters, PutStep(p),
         NEW c \in Conns, conn'[c] = "open"
  PROVE  Found(c)'
<1> DEFINE d == put[p].c
<1>0. /\ d \in Conns /\ alt = {} /\ UNCHANGED <<wpc, ckey, closing>>
  BY DEF PutStep, tryPutIdleConnCheck, tryPutIdleConnShared, tryPutIdleConnDeliver,
     tryPutIdleConnRefuse, tryPutIdleConnAdd, putOrCloseIdleConnClose, connVars, TypeOK, NoneShared
<1>1. /\ \A q \in Putters : q # p => put'[q] = put[q]
      /\ put'[p].c = d \/ tryPutIdleConnDeliver(p) \/ tryPutIdleConnAdd(p) \/ putOrCloseIdleConnClose(p)
  <2>1. /\ put' \in {[put EXCEPT ![p] = NoPut], [put EXCEPT ![p].at = "close"], [put EXCEPT ![p].at = "put"]}
        /\ \/ put' \in {[put EXCEPT ![p].at = "close"], [put EXCEPT ![p].at = "put"]}
           \/ tryPutIdleConnDeliver(p) \/ tryPutIdleConnAdd(p) \/ putOrCloseIdleConnClose(p)
    BY <1>0 DEF PutStep, tryPutIdleConnCheck, tryPutIdleConnShared, tryPutIdleConnDeliver,
       tryPutIdleConnRefuse, tryPutIdleConnAdd, putOrCloseIdleConnClose
  <2> QED BY <2>1 DEF TypeOK
<1>2. conn[c] = "open"
  <2>1. CASE tryPutIdleConnAdd(p)
    BY <1>0, <2>1, CloseOpens, OldestIsConn DEF tryPutIdleConnAdd
  <2>2. CASE putOrCloseIdleConnClose(p)
    BY <1>0, <2>2, CloseOpens DEF putOrCloseIdleConnClose
  <2> QED BY <2>1, <2>2 DEF PutStep, tryPutIdleConnCheck, tryPutIdleConnShared,
      tryPutIdleConnDeliver, tryPutIdleConnRefuse, connVars
<1>3. ASSUME NEW v \in Wants, Has(v, c) PROVE Has(v, c)'
  <2>1. res'[v] = res[v]
    <3>1. CASE deliver(d)
      BY <1>0, <1>3, <3>1, DeliveryProps, PoolAssumption DEF deliver, Has, Holding
    <3> QED BY <3>1 DEF PutStep, tryPutIdleConnCheck, tryPutIdleConnShared,
        tryPutIdleConnDeliver, tryPutIdleConnRefuse, tryPutIdleConnAdd, putOrCloseIdleConnClose
  <2> QED BY <1>0, <1>3, <2>1 DEF Has, Holding
<1>4. ASSUME Idle(c) PROVE Found(c)'
  <2>1. CASE tryPutIdleConnAdd(p)
    BY <1>4, <2>1, FoundAdd DEF Found
  <2>2. CASE idleConn' = idleConn
    BY <1>0, <1>4, <2>2 DEF Found, Idle
  <2> QED BY <2>1, <2>2 DEF PutStep, tryPutIdleConnCheck, tryPutIdleConnShared,
      tryPutIdleConnDeliver, tryPutIdleConnRefuse, putOrCloseIdleConnClose, idleVars
<1>5. CASE c = d
  <2>1. CASE tryPutIdleConnDeliver(p)
    <3>1. PICK v \in delivery(d).to : v \in Wants /\ res[v] = NoConn
      BY <1>0, <2>1, DeliveryProps DEF tryPutIdleConnDeliver
    <3>2. wpc[v] # "new"
      <4>1. Contains(idleConnWait[ckey[d]], v) /\ ckey[d] \in Keys
        BY <1>0, <3>1, DeliveryFrom DEF TypeOK
      <4> QED BY <4>1 DEF CallsInv, PuttersFree, Contains
    <3>3. wpc[v] \in {"queue", "select"}
      BY <3>1, <3>2, WaitingCall
    <3>4. res'[v] = c
      BY <1>5, <2>1, <3>1 DEF tryPutIdleConnDeliver, deliver
    <3> QED BY <1>0, <3>1, <3>3, <3>4 DEF Found, Has, Holding
  <2>2. CASE tryPutIdleConnAdd(p)
    BY <1>5, <2>2, FoundAdd DEF Found
  <2>3. CASE putOrCloseIdleConnClose(p)
    BY <1>0, <1>5, <2>3, CloseOpens DEF putOrCloseIdleConnClose
  <2>4. CASE put'[p].c = d
    BY <1>5, <2>4 DEF Found
  <2> QED BY <1>1, <2>1, <2>2, <2>3, <2>4
<1>6. CASE c # d
  BY <1>0, <1>1, <1>2, <1>3, <1>4, <1>6 DEF FoundInv, Found
<1> QED BY <1>5, <1>6

LEMMA FoundUse ==
  ASSUME TypeOK, CallsInv, NoneShared, FoundInv, NEW w \in Wants, UseStep(w),
         NEW c \in Conns, conn'[c] = "open"
  PROVE  Found(c)'
<1>1. ~HTTP2Conn(w) /\ wpc[w] # "dec"
  BY DEF NoneShared, HTTP2Conn
<1>2. /\ roundTripCanceled(w) \/ readLoopPut(w) \/ roundTripLost(w)
      /\ wpc[w] = "got" /\ wpc' = [wpc EXCEPT ![w] = "done"]
      /\ UNCHANGED <<res, conn, ckey, closing, idleConn>>
  BY <1>1 DEF UseStep, roundTripCanceled, readLoopPut, roundTripLost, altRoundTrip,
     noCachedConn, noCachedConnDec, HTTP1, connVars, idleVars
<1>3. \A v \in Wants : v # w => (Has(v, c) => Has(v, c)')
  BY <1>2 DEF Has, Holding, TypeOK
<1>4. CASE roundTripLost(w)
  <2>1. res[w] # c /\ put' = put
    BY <1>2, <1>4 DEF roundTripLost
  <2> QED BY <1>2, <1>3, <2>1 DEF FoundInv, Found, Has, Idle
<1>5. CASE roundTripCanceled(w) \/ readLoopPut(w)
  <2>1. PICK p \in Putters :
          put[p] = NoPut /\ put' = [put EXCEPT ![p] = [at |-> "check", c |-> res[w]]]
    <3>1. CASE roundTripCanceled(w)
      <4>1. put[Caller(w)] = NoPut /\ Caller(w) \in Putters
        BY <1>2, PuttersType DEF CallsInv, PuttersFree
      <4> QED BY <3>1, <4>1, ZenonT(60) DEF roundTripCanceled
    <3>2. CASE readLoopPut(w)
      <4>1. ReadLoop(res[w]) \in Putters
        BY <1>2, PuttersType DEF TypeOK
      <4> QED BY <3>2, <4>1, ZenonT(60) DEF readLoopPut
    <3> QED BY <1>5, <3>1, <3>2
  <2>2. /\ res[w] = c => put'[p].c = c
        /\ \A q \in Putters : put[q].c = c => put'[q].c = c
    BY <2>1, PoolAssumption DEF NoPut, TypeOK
  <2> QED BY <1>2, <1>3, <2>1, <2>2 DEF FoundInv, Found, Has, Idle
<1> QED BY <1>2, <1>4, <1>5

LEMMA FoundClose ==
  ASSUME TypeOK, NoTimers, FoundInv, NEW d \in Conns, NEW c \in Conns, conn'[c] = "open",
         CloseStep(d) \/ persistConnClose(d) \/ idleTimer(d)
  PROVE  Found(c)'
<1>1. readLoopExit(d) \/ closeTaken(d) \/ persistConnClose(d)
  BY DEF CloseStep, closeConnIfStillIdle, idleTimer, NoTimers
<1>2. UNCHANGED <<wpc, res, ckey, put>>
  BY <1>1 DEF readLoopExit, closeTaken, persistConnClose, connVars
<1>3. conn[c] = "open" /\ c # d
  <2>1. CASE readLoopExit(d)
    BY <2>1 DEF readLoopExit, connVars
  <2>2. CASE closeTaken(d) \/ persistConnClose(d)
    BY <2>2, CloseOpens DEF closeTaken, persistConnClose
  <2> QED BY <1>1, <2>1, <2>2
<1>4. Idle(c) => Idle(c)'
  <2>1. CASE readLoopExit(d)
    <3>1. idleConn' = ListsWithout(idleConn, d) /\ ckey[c] \in Keys
      BY <2>1 DEF readLoopExit, removeIdleConnLocked, TypeOK
    <3>2. idleConn \in [Keys -> Seq(Conns)]
      BY DEF TypeOK
    <3> QED BY <1>2, <1>3, <3>1, <3>2, OthersStay, ZenonT(60) DEF Idle
  <2>2. CASE closeTaken(d) \/ persistConnClose(d)
    BY <2>2 DEF closeTaken, persistConnClose, Idle, idleVars
  <2> QED BY <1>1, <2>1, <2>2
<1>5. c \in closing => c \in closing'
  BY <1>1, <1>3 DEF readLoopExit, closeTaken, persistConnClose
<1> QED BY <1>2, <1>3, <1>4, <1>5 DEF FoundInv, Found, Has, Holding

LEMMA FoundCloseIdle ==
  ASSUME TypeOK, FoundInv, CloseIdleConnections, NEW c \in Conns, conn'[c] = "open"
  PROVE  Found(c)'
<1>1. /\ UNCHANGED <<wpc, res, conn, ckey, put>> /\ closing = {}
      /\ closing' = UNION {Range(idleConn[k]) : k \in Keys}
  BY DEF CloseIdleConnections, connVars
<1>2. Idle(c) => c \in closing'
  <2>1. ckey[c] \in Keys /\ DOMAIN idleConn[ckey[c]] = 1..Len(idleConn[ckey[c]])
    BY DEF TypeOK
  <2>2. Idle(c) => c \in Range(idleConn[ckey[c]])
    BY <2>1 DEF Idle, Contains, Range
  <2> QED BY <1>1, <2>1, <2>2
<1> QED BY <1>1, <1>2 DEF FoundInv, Found, Has, Holding

(* Without IdleConnTimeout no timer runs. *)
LEMMA NoTimersHolds ==
  ASSUME ~IdleConnTimeout
  PROVE  Spec => []NoTimers
<1>1. Init => NoTimers
  BY DEF Init, NoTimers
<1>2. TypeOK /\ NoTimers /\ [Next]_vars => NoTimers'
  <2> SUFFICES ASSUME TypeOK, NoTimers, [Next]_vars PROVE NoTimers'
    OBVIOUS
  <2>0. armed = {} /\ firing = {}
    BY DEF NoTimers
  <2>1. ASSUME NEW w \in Wants, queueForIdleConnWait(w) PROVE NoTimers'
    <3>1. \A list : OldPrefixes(list) = {0}
      BY DEF OldPrefixes
    <3>2. 1..0 = {}
      OBVIOUS
    <3> QED BY <2>0, <2>1, <3>1, <3>2 DEF queueForIdleConnWait, NoTimers
  <2>2. ASSUME NEW w \in Wants,
               \/ queueForIdleConnTake(w) \/ queueForIdleConnDisabled(w) \/ getConnCancel(w)
               \/ GetConnStep(w) \/ UseStep(w)
        PROVE  NoTimers'
    BY <2>0, <2>2 DEF queueForIdleConnTake, queueForIdleConnDisabled, getConnCancel, GetConnStep,
       queueForDialNow, queueForDialWait, getConnReady, dialConnForOk, dialConnForErr,
       dialConnForDec, UseStep, roundTripCanceled, readLoopPut, roundTripLost, altRoundTrip,
       noCachedConn, noCachedConnDec, removeIdleConnLocked, NoTimers
  <2>3. ASSUME NEW p \in Putters, PutStep(p) PROVE NoTimers'
    BY <2>0, <2>3 DEF PutStep, tryPutIdleConnCheck, tryPutIdleConnShared, tryPutIdleConnDeliver,
       tryPutIdleConnRefuse, tryPutIdleConnAdd, putOrCloseIdleConnClose, NoTimers
  <2>4. ASSUME NEW c \in Conns, CloseStep(c) \/ persistConnClose(c) \/ idleTimer(c)
        PROVE  NoTimers'
    BY <2>0, <2>4 DEF CloseStep, readLoopExit, closeTaken, closeConnIfStillIdle,
       persistConnClose, idleTimer, removeIdleConnLocked, NoTimers
  <2>5. CASE CloseIdleConnections \/ UNCHANGED vars
    BY <2>0, <2>5 DEF CloseIdleConnections, vars, NoTimers
  <2> QED BY <2>1, <2>2, <2>3, <2>4, <2>5 DEF Next, queueForIdleConnNone
<1> QED BY <1>1, <1>2, TypeCorrect, PTL DEF Spec

LEMMA FoundInvariant ==
  ASSUME ~HTTP2, ~IdleConnTimeout
  PROVE  Spec => []FoundInv
<1>1. Init => FoundInv
  BY DEF Init, FoundInv
<1>2. /\ TypeOK /\ CallsInv /\ WaitersRegistered /\ NoneShared /\ NoTimers /\ FoundInv
      /\ [Next]_vars
      => FoundInv'
  <2>1. ASSUME TypeOK, CallsInv, WaitersRegistered, NoneShared, NoTimers, FoundInv, Next,
               NEW c \in Conns, conn'[c] = "open"
        PROVE  Found(c)'
    BY <2>1, FoundGetConn, FoundPut, FoundUse, FoundClose, FoundCloseIdle
    DEF Next, queueForIdleConnNone
  <2>2. ASSUME FoundInv, UNCHANGED vars PROVE FoundInv'
    BY <2>2 DEF FoundInv, Found, Has, Holding, Idle, vars
  <2> QED BY <2>1, <2>2 DEF FoundInv
<1> QED BY <1>1, <1>2, TypeCorrect, CallsInvariant, WaitersRegisteredHolds, NoneSharedHolds,
    NoTimersHolds, PTL DEF Spec

(* Every connection of an HTTP/1 pool is accounted for: it has one holder, *)
(* connsPerHost counts it from its dial to its close and stays within      *)
(* MaxConnsPerHost, and while it is open a request has it, a goroutine     *)
(* gives it back or closes it, or the next request finds it.  With         *)
(* IdleConnTimeout the last part is false of the code.                     *)
THEOREM ConnsAccountedHolds ==
  ~HTTP2 /\ ~IdleConnTimeout => (Spec => []ConnsAccounted)
<1> SUFFICES ASSUME ~HTTP2, ~IdleConnTimeout PROVE Spec => []ConnsAccounted
  OBVIOUS
<1>1. CountInv /\ WaitersRegistered => CountExact
  BY DEF CountInv, WaitersRegistered, CountExact, Live
<1>2. FoundInv => NoLeak
  BY DEF FoundInv, Found, NoLeak, Has
<1>3. CountInv /\ WaitersRegistered /\ FoundInv /\ Exclusive => ConnsAccounted
  BY <1>1, <1>2 DEF ConnsAccounted
<1> QED BY <1>3, CountInvariant, WaitersRegisteredHolds, FoundInvariant, ExclusiveHolds, PTL

-----------------------------------------------------------------------------
(* The pool implements ConnOwner.                                          *)

(* The refinement mapping, one connection at a time. *)
AnyOf(S) == CHOOSE w \in Wants : w \in S

LEMMA AnyOfProps ==
  ASSUME NEW S \in SUBSET Wants, S # {}
  PROVE  AnyOf(S) \in S
BY DEF AnyOf

LEMMA OwnerMap ==
  ASSUME NEW c \in Conns
  PROVE  /\ ownerPlace[c] = IF conn[c] # "open" THEN conn[c]
                            ELSE IF LentTo(c) # {} THEN "lent"
                            ELSE IF Idle(c) THEN "idle" ELSE "pool"
         /\ ownerUser[c] = IF conn[c] = "open" /\ LentTo(c) # {} THEN AnyOf(LentTo(c)) ELSE NoConn
         /\ ownerPlace'[c] = IF conn'[c] # "open" THEN conn'[c]
                             ELSE IF LentTo(c)' # {} THEN "lent"
                             ELSE IF Idle(c)' THEN "idle" ELSE "pool"
         /\ ownerUser'[c] = IF conn'[c] = "open" /\ LentTo(c)' # {} THEN AnyOf(LentTo(c)') ELSE NoConn
BY DEF ownerPlace, ownerUser, AnyOf

OwnerConn(c) ==
    Owner!Keep(c) \/ Owner!Lend(c) \/ Owner!Return(c) \/ Owner!Park(c) \/ Owner!Close(c)

LEMMA OwnerStep ==
  ASSUME TypeOK, TypeOK', CallsInv, PlacesInv, PlacesInv', NoneShared, NoneShared', Next,
         NEW c \in Conns
  PROVE  OwnerConn(c)
<1>1. conn[c] \in {"unborn", "open", "closed"} /\ ckey'[c] \in Keys /\ ckey[c] \in Keys
  BY DEF TypeOK
<1>2. \A w \in Wants : (w \in LentTo(c) <=> Has(w, c)) /\ (w \in LentTo(c)' <=> Has(w, c)')
  BY DEF LentTo, Has
<1>3. LentTo(c) \in SUBSET Wants /\ LentTo(c)' \in SUBSET Wants
  BY DEF LentTo
<1>4. HeldOnce(c) /\ HeldOnce(c)'
  BY DEF PlacesInv, OneHolder, NoneShared
<1>5. \A w \in Wants : Has(w, c)' /\ ~Has(w, c) => res[w] = NoConn /\ Loose(c)
  BY NewHolder
<1>6. \A w \in Wants : Has(w, c)' /\ ~Has(w, c) => w \in ownerAnswered' \ ownerAnswered
  <2>1. \A w \in Wants : Has(w, c)' => res'[w] # NoConn
    BY PoolAssumption DEF Has
  <2> QED BY <1>5, <2>1 DEF ownerAnswered
<1>7. Idle(c) => InLRU(c)
  BY <1>1, IdleInLRU DEF Idle, Contains, PlacesInv
<1>8. Idle(c)' => InLRU(c) \/ \E p \in Putters : put[p].c = c
  <2>1. Idle(c)' => Contains(idleConn'[ckey'[c]], c)
    BY DEF Idle
  <2>2. \A k \in Keys : Contains(idleConn[k], c) => InLRU(c)
    BY IdleInLRU DEF Contains, PlacesInv
  <2> QED BY <1>1, <2>1, <2>2, NewIdle
<1>9. LentTo(c) # {} => ~Loose(c) \/ conn[c] = "unborn"
  BY <1>2, <1>3, <1>4 DEF Loose, HeldOnce, Unheld
<1>10. CASE conn[c] = "unborn" /\ conn'[c] = "unborn"
  BY <1>10, OwnerMap DEF OwnerConn, Owner!Keep
<1>11. CASE conn[c] = "closed" /\ conn'[c] = "closed"
  BY <1>11, OwnerMap DEF OwnerConn, Owner!Keep
<1>12. CASE conn[c] = "open" /\ conn'[c] = "closed"
  <2>1. ownerPlace[c] # "unborn" /\ ownerPlace'[c] = "closed" /\ ownerUser'[c] = NoConn
    BY <1>12, OwnerMap
  <2> QED BY <2>1 DEF OwnerConn, Owner!Close
<1>13. CASE conn[c] = "unborn" /\ conn'[c] = "open"
  <2>1. ~InLRU(c) /\ (\A p \in Putters : put[p].c # c) /\ (\A w \in Wants : ~Has(w, c))
    BY <1>13 DEF PlacesInv, UnbornNowhere, Unheld
  <2>2. ownerPlace[c] = "unborn"
    BY <1>13, OwnerMap
  <2>3. CASE LentTo(c)' = {}
    <3>1. ownerPlace'[c] = "pool" /\ ownerUser'[c] = NoConn
      BY <1>8, <1>13, <2>1, <2>3, OwnerMap
    <3> QED BY <2>2, <3>1 DEF OwnerConn, Owner!Return
  <2>4. CASE LentTo(c)' # {}
    <3>1. AnyOf(LentTo(c)') \in LentTo(c)'
      BY <1>3, <2>4, AnyOfProps
    <3>2. ownerPlace'[c] = "lent" /\ ownerUser'[c] \in ownerAnswered' \ ownerAnswered
      BY <1>2, <1>3, <1>6, <1>13, <2>1, <2>4, <3>1, OwnerMap
    <3> QED BY <2>2, <3>2 DEF OwnerConn, Owner!Lend
  <2> QED BY <2>3, <2>4
<1>14. CASE conn[c] = "open" /\ conn'[c] = "open"
  <2>1. CASE LentTo(c) # {} /\ LentTo(c)' # {}
    <3>1. \A w \in Wants : Has(w, c)' => Has(w, c)
      BY <1>5, <1>9, <1>14, <2>1
    <3>2. LentTo(c)' = LentTo(c)
      BY <1>2, <1>3, <1>4, <2>1, <3>1 DEF HeldOnce
    <3>3. ownerPlace'[c] = ownerPlace[c]
      BY <1>14, <2>1, OwnerMap
    <3>4. ownerUser'[c] = ownerUser[c]
      BY <1>14, <3>2, OwnerMap, Zenon
    <3> QED BY <3>3, <3>4 DEF OwnerConn, Owner!Keep
  <2>2. CASE LentTo(c) # {} /\ LentTo(c)' = {}
    <3>1. ~Idle(c)'
      BY <1>8, <1>9, <1>14, <2>2 DEF Loose
    <3>2. ownerPlace[c] = "lent" /\ ownerPlace'[c] = "pool" /\ ownerUser'[c] = NoConn
      BY <1>14, <2>2, <3>1, OwnerMap
    <3> QED BY <3>2 DEF OwnerConn, Owner!Return
  <2>3. CASE LentTo(c) = {} /\ LentTo(c)' # {}
    <3>1. AnyOf(LentTo(c)') \in LentTo(c)'
      BY <1>3, <2>3, AnyOfProps
    <3>2. ownerPlace[c] \in {"pool", "idle"} /\ ownerPlace'[c] = "lent"
          /\ ownerUser'[c] \in ownerAnswered' \ ownerAnswered
      BY <1>2, <1>3, <1>6, <1>14, <2>3, <3>1, OwnerMap
    <3> QED BY <3>2 DEF OwnerConn, Owner!Lend
  <2>4. CASE LentTo(c) = {} /\ LentTo(c)' = {}
    <3>1. /\ ownerPlace[c] = IF Idle(c) THEN "idle" ELSE "pool"
          /\ ownerPlace'[c] = IF Idle(c)' THEN "idle" ELSE "pool"
          /\ ownerUser[c] = NoConn /\ ownerUser'[c] = NoConn
      BY <1>14, <2>4, OwnerMap
    <3> QED BY <3>1 DEF OwnerConn, Owner!Keep, Owner!Return, Owner!Park
  <2> QED BY <2>1, <2>2, <2>3, <2>4
<1> QED BY <1>1, <1>10, <1>11, <1>12, <1>13, <1>14, ConnMoves

(* An HTTP/1 pool implements ConnOwner: whatever the interleaving of       *)
(* getConn, dialConnFor, tryPutIdleConn, readLoop and                      *)
(* CloseIdleConnections, a connection is lent to one request at a time,    *)
(* comes back to the pool before it is lent again, and stays closed.       *)
THEOREM ImplementsConnOwnerHolds == ~HTTP2 => (Spec => ImplementsConnOwner)
<1> SUFFICES ASSUME ~HTTP2 PROVE Spec => ImplementsConnOwner
  OBVIOUS
<1>1. Init => Owner!Init
  <2> SUFFICES ASSUME Init PROVE Owner!Init
    OBVIOUS
  <2>1. \A c \in Conns : conn[c] = "unborn"
    BY DEF Init
  <2>2. ownerPlace = [c \in Conns |-> "unborn"]
    BY <2>1 DEF ownerPlace
  <2>3. ownerUser = [c \in Conns |-> NoConn]
    BY <2>1 DEF ownerUser
  <2>4. ownerAnswered = {}
    BY DEF Init, ownerAnswered
  <2> QED BY <2>2, <2>3, <2>4 DEF Owner!Init
<1>2. /\ TypeOK /\ TypeOK' /\ CallsInv /\ PlacesInv /\ PlacesInv' /\ NoneShared /\ NoneShared'
      /\ [Next]_vars
      => [Owner!Next]_(Owner!vars)
  <2>1. ASSUME TypeOK, TypeOK', CallsInv, PlacesInv, PlacesInv', NoneShared, NoneShared', Next
        PROVE  Owner!Next
    <3>1. ownerAnswered \subseteq ownerAnswered' /\ ownerAnswered' \subseteq Wants
      BY <2>1, BindingNext DEF Binding, AnswersKept, ownerAnswered
    <3>2. \A c \in Conns : OwnerConn(c)
      BY <2>1, OwnerStep
    <3>3. ASSUME NEW c \in Conns, ownerPlace'[c] = "lent"
          PROVE  res'[ownerUser'[c]] = c
      <4>1. conn'[c] = "open" /\ LentTo(c)' # {} /\ LentTo(c)' \in SUBSET Wants
        BY <2>1, <3>3, OwnerMap DEF TypeOK, LentTo
      <4>2. ownerUser'[c] \in LentTo(c)'
        BY <4>1, OwnerMap, AnyOfProps
      <4> QED BY <4>2 DEF LentTo
    <3>4. \A c, d \in Conns :
             ownerPlace'[c] = "lent" /\ ownerPlace'[d] = "lent" /\ ownerUser'[c] = ownerUser'[d]
             => c = d
      BY <3>3
    <3> QED BY <3>1, <3>2, <3>4 DEF OwnerConn, Owner!Next
  <2>2. ASSUME UNCHANGED vars PROVE UNCHANGED Owner!vars
    <3>1. UNCHANGED <<wpc, res, conn, ckey, idleConn>>
      BY <2>2 DEF vars
    <3>2. ownerPlace' = ownerPlace
      BY <3>1, SMTT(60) DEF ownerPlace, LentTo, Holding, Idle
    <3>3. ownerUser' = ownerUser
      BY <3>1, SMTT(60) DEF ownerUser, LentTo, Holding
    <3>4. ownerAnswered' = ownerAnswered
      BY <3>1 DEF ownerAnswered
    <3> QED BY <3>2, <3>3, <3>4 DEF Owner!vars
  <2> QED BY <2>1, <2>2
<1> QED BY <1>1, <1>2, TypeCorrect, CallsInvariant, PlacesInvariant, NoneSharedHolds, PTL
    DEF Spec, ImplementsConnOwner, Owner!Spec
=============================================================================
