------------------------ MODULE TransportPoolSafety ------------------------
(***************************************************************************)
(* Late binding and the absence of stranded requests, proved from the type *)
(* invariant of TransportPoolProofs.                                       *)
(***************************************************************************)
EXTENDS TransportPoolProofs

(* What a delivery leaves in the queue was there before. *)
LEMMA DeliveryRest ==
  ASSUME TypeOK, NEW c \in Conns
  PROVE  \A v : Contains(delivery(c).rest, v) => Contains(idleConnWait[ckey[c]], v)
<1> DEFINE q == idleConnWait[ckey[c]]
           f == FirstWaiting(q, res)
<1>1. q \in Seq(Wants)
  BY DEF TypeOK
<1>2. f \in 0..Len(q)
  BY <1>1, FirstWaitingProps
<1>3. CASE delivery(c).rest = <<>>
  BY <1>3 DEF Contains
<1>4. CASE delivery(c).rest = PopThrough(q, f)
  <2> HIDE DEF q, f
  <2>1. /\ Len(PopThrough(q, f)) = Len(q) - f
        /\ \A i \in 1..(Len(q) - f) : PopThrough(q, f)[i] = q[f + i]
    BY <1>1, <1>2, PopThroughProps
  <2>2. \A v : Contains(PopThrough(q, f), v) => Contains(q, v)
    <3> SUFFICES ASSUME NEW v, Contains(PopThrough(q, f), v) PROVE Contains(q, v)
      OBVIOUS
    <3>1. PICK i \in 1..(Len(q) - f) : q[f + i] = v
      BY <2>1 DEF Contains
    <3>2. f + i \in 1..Len(q)
      BY <1>1, <1>2, <3>1
    <3> QED BY <3>1, <3>2 DEF Contains
  <2> QED BY <1>4, <2>2 DEF q
<1> QED BY <1>3, <1>4 DEF delivery

-----------------------------------------------------------------------------
(* What every step does to the answers, the waiters and the idle lists:    *)
(* an answer is never taken back, nobody joins a wait queue whose list is  *)
(* not empty, and a list only becomes non-empty when nobody waits for it.  *)
AnswersKept == \A v \in Wants : res[v] # NoConn => res'[v] # NoConn
NoLateJoin ==
    \A k \in Keys, v \in Wants : Contains(idleConnWait'[k], v) =>
        Contains(idleConnWait[k], v) \/ idleConn'[k] = <<>>
NoEarlyIdle ==
    \A k \in Keys : idleConn'[k] # <<>> => idleConn[k] # <<>> \/ idleConnWait'[k] = <<>>
Binding == AnswersKept /\ NoLateJoin /\ NoEarlyIdle

(* The steps that touch none of them. *)
LEMMA BindingUnchanged ==
  ASSUME UNCHANGED <<res, idleConn, idleConnWait>>
  PROVE  Binding
BY DEF Binding, AnswersKept, NoLateJoin, NoEarlyIdle

(* The steps that only remove connections from the lists. *)
LEMMA BindingRemove ==
  ASSUME TypeOK, NEW c \in Conns, idleConn' = ListsWithout(idleConn, c),
         UNCHANGED <<res, idleConnWait>>
  PROVE  Binding
<1>1. Len(RemoveFirst(idleConn[ckey[c]], c)) <= Len(idleConn[ckey[c]])
  BY RemoveFirstProps DEF TypeOK
<1>2. ASSUME NEW k \in Keys, idleConn'[k] # <<>> PROVE idleConn[k] # <<>>
  <2>1. CASE k # ckey[c]
    BY <1>2, <2>1 DEF ListsWithout, TypeOK
  <2>2. CASE k = ckey[c]
    <3>1. idleConn'[k] = RemoveFirst(idleConn[k], c)
      BY <2>2 DEF ListsWithout, TypeOK
    <3>2. RemoveFirst(<<>>, c) = <<>>
      <4>1. <<>> \in Seq(Conns) /\ Len(<<>>) = 0
        OBVIOUS
      <4>2. RemoveFirst(<<>>, c) \in Seq(Conns) /\ Len(RemoveFirst(<<>>, c)) <= 0
        BY <4>1, RemoveFirstProps
      <4> QED BY <4>2
    <3> QED BY <1>2, <3>1, <3>2
  <2> QED BY <2>1, <2>2
<1> QED BY <1>2 DEF Binding, AnswersKept, NoLateJoin, NoEarlyIdle

(* Delivering c to the waiters of its key. *)
LEMMA BindingDeliver ==
  ASSUME TypeOK, NEW c \in Conns, deliver(c)
  PROVE  AnswersKept /\ NoLateJoin
<1>1. AnswersKept
  BY PoolAssumption DEF AnswersKept, deliver
<1>2. NoLateJoin
  <2> SUFFICES ASSUME NEW k \in Keys, NEW v \in Wants, Contains(idleConnWait'[k], v)
               PROVE  Contains(idleConnWait[k], v)
    BY DEF NoLateJoin
  <2>1. CASE k = ckey[c]
    BY <2>1, DeliveryRest DEF deliver, TypeOK
  <2>2. CASE k # ckey[c]
    BY <2>2 DEF deliver, TypeOK
  <2> QED BY <2>1, <2>2
<1> QED BY <1>1, <1>2

LEMMA BindingGetConn ==
  ASSUME TypeOK, NEW w \in Wants,
         \/ queueForIdleConnTake(w) \/ queueForIdleConnWait(w)
         \/ queueForIdleConnDisabled(w) \/ getConnCancel(w) \/ GetConnStep(w)
  PROVE  Binding
<1> DEFINE k == WKey[w]
           list == idleConn[k]
<1>0. k \in Keys
  BY PoolAssumption
<1>1. CASE queueForIdleConnTake(w)
  <2>1. PICK i \in 1..Len(list) : res' = tryDeliver(w, list[i]) /\ takeIdle(k, list, i)
    BY <1>1 DEF queueForIdleConnTake, OldPrefixes, Usable, TypeOK
  <2>2. list # <<>> /\ list[i] \in Conns
    BY <1>0, <2>1 DEF TypeOK
  <2>3. AnswersKept
    BY <2>1, <2>2, PoolAssumption DEF AnswersKept, tryDeliver, TypeOK
  <2>4. NoEarlyIdle
    BY <2>1, <2>2 DEF takeIdle, NoEarlyIdle, TypeOK
  <2> QED BY <1>1, <2>3, <2>4 DEF queueForIdleConnTake, Binding, NoLateJoin
<1>2. CASE queueForIdleConnWait(w)
  <2>1. /\ idleConn' = [idleConn EXCEPT ![k] = <<>>] /\ res' = res
        /\ idleConnWait' = [idleConnWait EXCEPT ![k] = CleanAndPush(@, w)]
    BY <1>2 DEF queueForIdleConnWait
  <2> HIDE DEF k
  <2> QED BY <2>1, <1>0 DEF Binding, AnswersKept, NoLateJoin, NoEarlyIdle, TypeOK
<1>3. CASE queueForIdleConnDisabled(w)
  BY <1>3, BindingUnchanged DEF queueForIdleConnDisabled, idleVars
<1>4. CASE getConnCancel(w)
  BY <1>4, PoolAssumption
  DEF getConnCancel, idleVars, Binding, AnswersKept, NoLateJoin, NoEarlyIdle, TypeOK
<1>5. CASE queueForDialNow(w) \/ queueForDialWait(w) \/ getConnReady(w) \/ dialConnForDec(w)
  BY <1>5, BindingUnchanged
  DEF queueForDialNow, queueForDialWait, getConnReady, dialConnForDec, idleVars
<1>6. CASE \E c \in Conns, h2 \in {FALSE, HTTP2} : dialConnForOk(w, c, h2)
  BY <1>6, PoolAssumption
  DEF dialConnForOk, tryDeliver, idleVars, Binding, AnswersKept, NoLateJoin, NoEarlyIdle, TypeOK
<1>7. CASE dialConnForErr(w)
  BY <1>7, PoolAssumption
  DEF dialConnForErr, tryDeliver, idleVars, Binding, AnswersKept, NoLateJoin, NoEarlyIdle, TypeOK
<1> QED BY <1>1, <1>2, <1>3, <1>4, <1>5, <1>6, <1>7, ZenonT(60) DEF GetConnStep

LEMMA BindingPut ==
  ASSUME TypeOK, NEW p \in Putters, PutStep(p)
  PROVE  Binding
<1> DEFINE c == put[p].c
           k == ckey[c]
<1>1. c \in Conns /\ k \in Keys
  BY DEF PutStep, tryPutIdleConnCheck, tryPutIdleConnShared, tryPutIdleConnDeliver,
         tryPutIdleConnRefuse, tryPutIdleConnAdd, putOrCloseIdleConnClose, TypeOK
<1>2. CASE tryPutIdleConnCheck(p) \/ tryPutIdleConnShared(p) \/ putOrCloseIdleConnClose(p)
  BY <1>2, BindingUnchanged
  DEF tryPutIdleConnCheck, tryPutIdleConnShared, putOrCloseIdleConnClose, idleVars
<1>3. CASE tryPutIdleConnDeliver(p) \/ tryPutIdleConnRefuse(p)
  <2>1. deliver(c) /\ idleConn' = idleConn
    BY <1>3 DEF tryPutIdleConnDeliver, tryPutIdleConnRefuse
  <2> QED BY <1>1, <2>1, BindingDeliver DEF Binding, NoEarlyIdle
<1>4. CASE tryPutIdleConnAdd(p)
  <2> DEFINE lists == [idleConn EXCEPT ![k] = Append(@, c)]
             oldest == Last(<<c>> \o idleLRU)
  <2>1. deliver(c) /\ Undelivered(c)
    BY <1>4 DEF tryPutIdleConnAdd
  <2>2. idleConnWait'[k] = <<>>
    <3>1. c \in alt \/ delivery(c).to = {}
      BY <2>1 DEF Undelivered
    <3>2. delivery(c).rest = <<>>
      BY <1>1, <3>1, DeliveryProps
    <3>3. idleConnWait' = [idleConnWait EXCEPT ![k] = delivery(c).rest]
      BY <2>1 DEF deliver
    <3> HIDE DEF c, k
    <3> QED BY <1>1, <3>2, <3>3 DEF TypeOK
  <2>3. idleConn' = lists \/ idleConn' = ListsWithout(lists, oldest)
    BY <1>4 DEF tryPutIdleConnAdd
  <2>4. \A j \in Keys : j # k /\ idleConn[j] = <<>> => idleConn'[j] = <<>>
    <3> SUFFICES ASSUME NEW j \in Keys, j # k, idleConn[j] = <<>> PROVE idleConn'[j] = <<>>
      OBVIOUS
    <3>1. lists \in [Keys -> Seq(Conns)] /\ lists[j] = <<>>
      BY <1>1 DEF TypeOK
    <3> HIDE DEF lists, oldest
    <3>2. RemoveFirst(<<>>, oldest) = <<>>
      <4>1. <<>> \in Seq(Conns) /\ Len(<<>>) = 0
        OBVIOUS
      <4>2. RemoveFirst(<<>>, oldest) \in Seq(Conns) /\ Len(RemoveFirst(<<>>, oldest)) <= 0
        BY <4>1, RemoveFirstProps
      <4> QED BY <4>2
    <3>3. ListsWithout(lists, oldest)[j] = <<>>
      BY <3>1, <3>2 DEF ListsWithout
    <3> QED BY <2>3, <3>1, <3>3
  <2> HIDE DEF c, k
  <2> QED BY <1>1, <2>1, <2>2, <2>4, BindingDeliver DEF Binding, NoEarlyIdle
<1> QED BY <1>2, <1>3, <1>4 DEF PutStep

LEMMA BindingNext ==
  ASSUME TypeOK, Next
  PROVE  Binding
<1>1. ASSUME NEW w \in Wants, UseStep(w) PROVE Binding
  <2>1. CASE noCachedConn(w)
    BY <2>1, BindingRemove DEF noCachedConn, HTTP2Conn, removeIdleConnLocked, TypeOK
  <2> QED BY <1>1, <2>1, BindingUnchanged
      DEF UseStep, roundTripCanceled, readLoopPut, roundTripLost, altRoundTrip,
          noCachedConnDec, idleVars
<1>2. ASSUME NEW c \in Conns, CloseStep(c) \/ persistConnClose(c) \/ idleTimer(c)
      PROVE  Binding
  <2>1. CASE readLoopExit(c) \/ (closeConnIfStillIdle(c) /\ InLRU(c))
    BY <2>1, BindingRemove DEF readLoopExit, closeConnIfStillIdle, removeIdleConnLocked
  <2>2. CASE closeConnIfStillIdle(c) /\ ~InLRU(c)
    BY <2>2, BindingUnchanged DEF closeConnIfStillIdle
  <2>3. CASE closeTaken(c) \/ persistConnClose(c) \/ idleTimer(c)
    BY <2>3, BindingUnchanged DEF closeTaken, persistConnClose, idleTimer, idleVars
  <2> QED BY <1>2, <2>1, <2>2, <2>3 DEF CloseStep
<1>3. ASSUME CloseIdleConnections PROVE Binding
  BY <1>3 DEF CloseIdleConnections, Binding, AnswersKept, NoLateJoin, NoEarlyIdle
<1> QED BY <1>1, <1>2, <1>3, BindingGetConn, BindingPut DEF Next, queueForIdleConnNone

(* LateBinding in terms of the members of the queue. *)
LEMMA LateBindingMembers ==
  ASSUME TypeOK
  PROVE  LateBinding <=>
           \A k \in Keys, v \in Wants :
              idleConn[k] # <<>> /\ Contains(idleConnWait[k], v) => res[v] # NoConn
<1>1. ASSUME NEW k \in Keys
      PROVE  FirstWaiting(idleConnWait[k], res) = 0 <=>
               \A v \in Wants : Contains(idleConnWait[k], v) => res[v] # NoConn
  <2>1. idleConnWait[k] \in Seq(Wants)
    BY DEF TypeOK
  <2>2. FirstWaiting(idleConnWait[k], res) = 0 <=>
          \A i \in 1..Len(idleConnWait[k]) : res[idleConnWait[k][i]] # NoConn
    BY <2>1, FirstWaitingProps
  <2> QED BY <2>1, <2>2 DEF Contains
<1> QED BY <1>1 DEF LateBinding

(* For every number of requests and connections and every limit, an idle   *)
(* connection and a request that could use it never coexist in the pool:   *)
(* queueForIdleConn and tryPutIdleConn never miss one another.             *)
THEOREM LateBindingHolds == Spec => []LateBinding
<1>1. Init => LateBinding
  BY InitType DEF Init, LateBinding
<1>2. TypeOK /\ TypeOK' /\ LateBinding /\ [Next]_vars => LateBinding'
  <2> SUFFICES ASSUME TypeOK, TypeOK', LateBinding, [Next]_vars PROVE LateBinding'
    OBVIOUS
  <2>1. Binding
    BY BindingNext, BindingUnchanged DEF vars
  <2>2. \A k \in Keys, v \in Wants :
           idleConn[k] # <<>> /\ Contains(idleConnWait[k], v) => res[v] # NoConn
    BY LateBindingMembers
  <2>3. \A k \in Keys, v \in Wants :
           idleConn'[k] # <<>> /\ Contains(idleConnWait'[k], v) => res'[v] # NoConn
    BY <2>1, <2>2 DEF Binding, AnswersKept, NoLateJoin, NoEarlyIdle, Contains
  <2>4. ASSUME NEW k \in Keys, idleConn'[k] # <<>>
        PROVE  FirstWaiting(idleConnWait[k], res)' = 0
    <3>1. idleConnWait'[k] \in Seq(Wants)
      BY DEF TypeOK
    <3>2. \A i \in 1..Len(idleConnWait'[k]) : res'[idleConnWait'[k][i]] # NoConn
      BY <2>3, <2>4, <3>1 DEF Contains
    <3> QED BY <3>1, <3>2, FirstWaitingProps
  <2> QED BY <2>4 DEF LateBinding
<1> QED BY <1>1, <1>2, TypeCorrect, PTL DEF Spec
-----------------------------------------------------------------------------
(* Nobody who still waits loses its place among the waiters for an idle    *)
(* connection.                                                             *)
IdleKept == \A v \in Wants : res'[v] = NoConn /\ WaitsIdle(v) => WaitsIdle(v)'

LEMMA IdleKeptDeliver ==
  ASSUME TypeOK, NEW c \in Conns, deliver(c)
  PROVE  IdleKept
<1> SUFFICES ASSUME NEW v \in Wants, res'[v] = NoConn, Contains(idleConnWait[WKey[v]], v)
             PROVE  Contains(idleConnWait'[WKey[v]], v)
  BY DEF IdleKept, WaitsIdle
<1>0. WKey[v] \in Keys
  BY PoolAssumption
<1>1. CASE WKey[v] # ckey[c]
  BY <1>0, <1>1 DEF deliver, TypeOK
<1>2. CASE WKey[v] = ckey[c]
  <2>1. v \notin delivery(c).to /\ res[v] = NoConn
    BY PoolAssumption DEF deliver
  <2>2. Contains(delivery(c).rest, v)
    BY <1>2, <2>1, DeliveryProps
  <2> QED BY <1>0, <1>2, <2>2 DEF deliver, TypeOK
<1> QED BY <1>1, <1>2

LEMMA IdleKeptNext ==
  ASSUME TypeOK, Next
  PROVE  IdleKept
<1>1. CASE UNCHANGED idleConnWait
  BY <1>1 DEF IdleKept, WaitsIdle
<1>2. ASSUME NEW w \in Wants, queueForIdleConnWait(w) PROVE IdleKept
  <2>1. /\ idleConnWait' = [idleConnWait EXCEPT ![WKey[w]] = CleanAndPush(@, w)]
        /\ res' = res /\ WKey[w] \in Keys
    BY <1>2, PoolAssumption DEF queueForIdleConnWait
  <2>2. \A v : res[v] = NoConn /\ Contains(idleConnWait[WKey[w]], v) =>
           Contains(CleanAndPush(idleConnWait[WKey[w]], w), v)
    BY <2>1, CleanAndPushProps DEF TypeOK
  <2> QED BY <2>1, <2>2, PoolAssumption DEF IdleKept, WaitsIdle, TypeOK
<1>3. ASSUME NEW p \in Putters,
             tryPutIdleConnDeliver(p) \/ tryPutIdleConnRefuse(p) \/ tryPutIdleConnAdd(p)
      PROVE  IdleKept
  BY <1>3, IdleKeptDeliver
  DEF tryPutIdleConnDeliver, tryPutIdleConnRefuse, tryPutIdleConnAdd, TypeOK
<1>4. ASSUME NEW w \in Wants, ~queueForIdleConnWait(w),
             \/ queueForIdleConnTake(w) \/ queueForIdleConnDisabled(w) \/ getConnCancel(w)
             \/ GetConnStep(w) \/ UseStep(w)
      PROVE  UNCHANGED idleConnWait
  BY <1>4 DEF queueForIdleConnTake, queueForIdleConnDisabled, getConnCancel,
     GetConnStep, queueForDialNow, queueForDialWait, getConnReady, dialConnForOk,
     dialConnForErr, dialConnForDec, UseStep, roundTripCanceled, readLoopPut,
     roundTripLost, altRoundTrip, noCachedConn, noCachedConnDec, idleVars
<1>5. ASSUME NEW p \in Putters,
             tryPutIdleConnCheck(p) \/ tryPutIdleConnShared(p) \/ putOrCloseIdleConnClose(p)
      PROVE  UNCHANGED idleConnWait
  BY <1>5 DEF tryPutIdleConnCheck, tryPutIdleConnShared, putOrCloseIdleConnClose, idleVars
<1>6. ASSUME NEW c \in Conns, CloseStep(c) \/ persistConnClose(c) \/ idleTimer(c)
      PROVE  UNCHANGED idleConnWait
  BY <1>6 DEF CloseStep, readLoopExit, closeTaken, closeConnIfStillIdle,
     persistConnClose, idleTimer, idleVars
<1>7. ASSUME CloseIdleConnections PROVE UNCHANGED idleConnWait
  BY <1>7 DEF CloseIdleConnections
<1> QED BY <1>1, <1>2, <1>3, <1>4, <1>5, <1>6, <1>7 DEF Next, queueForIdleConnNone, PutStep

-----------------------------------------------------------------------------
(* Nobody who still waits loses its dial or its place in connsPerHostWait, *)
(* and the count stays within the limit.                                   *)
DialKept == \A v \in Wants : res'[v] = NoConn /\ WaitsDial(v) => WaitsDial(v)'
CountWithin == \A k \in Keys : connsPerHost[k] <= MaxConnsPerHost

LEMMA DialKeptDec ==
  ASSUME TypeOK, CountWithin, NEW k \in Keys,
         NEW d \in [Wants -> {"no", "dialing", "failed", "over"}],
         \A v \in Wants : dial[v] = "dialing" /\ res'[v] = NoConn => d[v] = "dialing",
         decConnsPerHost(k, d, res')
  PROVE  DialKept /\ CountWithin'
<1> DEFINE q == connsPerHostWait[k]
           f == FirstWaiting(q, res')
<1>1. q \in Seq(Wants)
  BY DEF TypeOK
<1>2. CASE MaxConnsPerHost = 0 \/ connsPerHost[k] = 0
  BY <1>2 DEF decConnsPerHost, TypeOK, hostVars, DialKept, CountWithin, WaitsDial
<1>3. CASE MaxConnsPerHost # 0 /\ connsPerHost[k] # 0 /\ f # 0
  <2>1. /\ dial' = [d EXCEPT ![q[f]] = "dialing"]
        /\ connsPerHostWait' = [connsPerHostWait EXCEPT ![k] = PopThrough(q, f)]
        /\ connsPerHost' = connsPerHost
    BY <1>3 DEF decConnsPerHost
  <2>2. /\ f \in 1..Len(q) /\ q[f] \in Wants
        /\ \A i \in 1..(f - 1) : res'[q[i]] # NoConn
    <3>1. /\ f \in 0..Len(q)
          /\ \A i \in 1..(f - 1) : res'[q[i]] # NoConn
      BY <1>1, <1>3, FirstWaitingProps
    <3> HIDE DEF q, f
    <3>2. f \in 1..Len(q)
      BY <1>1, <1>3, <3>1
    <3> QED BY <1>1, <3>1, <3>2
  <2>3. ASSUME NEW v \in Wants, res'[v] = NoConn, Contains(q, v), v # q[f]
        PROVE  Contains(PopThrough(q, f), v)
    <3> HIDE DEF q, f
    <3>1. PICK i \in 1..Len(q) : q[i] = v
      BY <2>3 DEF Contains
    <3>2. i > f
      BY <2>2, <2>3, <3>1
    <3>3. f \in 0..Len(q) /\ Len(q) \in Nat
      BY <1>1, <2>2
    <3>4. /\ Len(PopThrough(q, f)) = Len(q) - f
          /\ \A j \in 1..(Len(q) - f) : PopThrough(q, f)[j] = q[f + j]
      BY <1>1, <3>3, PopThroughProps
    <3>5. i - f \in 1..(Len(q) - f) /\ PopThrough(q, f)[i - f] = v
      BY <2>2, <3>1, <3>2, <3>3, <3>4
    <3> QED BY <3>4, <3>5 DEF Contains
  <2>4. ASSUME NEW v \in Wants, res'[v] = NoConn, WaitsDial(v) PROVE WaitsDial(v)'
    <3>1. CASE v = q[f] \/ dial[v] = "dialing"
      <4> HIDE DEF q, f
      <4> QED BY <2>1, <2>2, <2>4, <3>1 DEF WaitsDial
    <3>2. CASE v # q[f] /\ dial[v] # "dialing" /\ WKey[v] = k
      <4>1. Contains(PopThrough(q, f), v)
        BY <2>3, <2>4, <3>2 DEF WaitsDial
      <4> HIDE DEF q, f
      <4> QED BY <2>1, <2>4, <3>2, <4>1 DEF WaitsDial, TypeOK
    <3>3. CASE v # q[f] /\ dial[v] # "dialing" /\ WKey[v] # k
      <4>1. WKey[v] \in Keys
        BY PoolAssumption
      <4> HIDE DEF q, f
      <4> QED BY <2>1, <2>4, <3>3, <4>1 DEF WaitsDial, TypeOK
    <3> QED BY <3>1, <3>2, <3>3
  <2> QED BY <2>1, <2>4 DEF DialKept, CountWithin
<1>4. CASE MaxConnsPerHost # 0 /\ connsPerHost[k] # 0 /\ f = 0
  <2>1. /\ dial' = d
        /\ connsPerHostWait' = [connsPerHostWait EXCEPT ![k] = <<>>]
        /\ connsPerHost' = [connsPerHost EXCEPT ![k] = @ - 1]
    BY <1>4 DEF decConnsPerHost
  <2>2. \A i \in 1..Len(q) : res'[q[i]] # NoConn
    BY <1>1, <1>4, FirstWaitingProps
  <2>3. \A v \in Wants : res'[v] = NoConn => ~Contains(q, v)
    BY <2>2 DEF Contains
  <2>4. CountWithin'
    BY <2>1, PoolAssumption DEF CountWithin, TypeOK
  <2>5. DialKept
    BY <2>1, <2>3, PoolAssumption DEF DialKept, WaitsDial, TypeOK
  <2> QED BY <2>4, <2>5
<1> QED BY <1>2, <1>3, <1>4

(* The same for a step that closes a connection. *)
LEMMA DialKeptClose ==
  ASSUME TypeOK, CountWithin, NEW c \in Conns, closeLocked(c, res')
  PROVE  DialKept /\ CountWithin'
<1>1. CASE conn[c] = "open"
  <2>1. decConnsPerHost(ckey[c], dial, res') /\ ckey[c] \in Keys
    BY <1>1 DEF closeLocked, TypeOK
  <2>2. dial \in [Wants -> {"no", "dialing", "failed", "over"}]
    BY DEF TypeOK
  <2> QED BY <2>1, <2>2, DialKeptDec
<1>2. CASE conn[c] # "open"
  BY <1>2 DEF closeLocked, hostVars, DialKept, CountWithin, WaitsDial
<1> QED BY <1>1, <1>2

LEMMA DialKeptNext ==
  ASSUME TypeOK, CountWithin, Next
  PROVE  DialKept /\ CountWithin'
<1>1. CASE UNCHANGED <<dial, hostVars>>
  BY <1>1 DEF hostVars, DialKept, CountWithin, WaitsDial
<1>2. ASSUME NEW w \in Wants, queueForDialNow(w) PROVE DialKept /\ CountWithin'
  <2> DEFINE k == WKey[w]
  <2>1. /\ k \in Keys /\ dial' = [dial EXCEPT ![w] = "dialing"]
        /\ connsPerHostWait' = connsPerHostWait
        /\ \/ connsPerHost' = connsPerHost
           \/ connsPerHost[k] < MaxConnsPerHost
              /\ connsPerHost' = [connsPerHost EXCEPT ![k] = @ + 1]
    BY <1>2, PoolAssumption DEF queueForDialNow, dialAllowed
  <2>0. connsPerHost \in [Keys -> Nat] /\ MaxConnsPerHost \in Nat
    BY PoolAssumption DEF TypeOK
  <2> HIDE DEF k
  <2>2. ASSUME NEW j \in Keys
        PROVE  /\ connsPerHost'[j] <= MaxConnsPerHost
               /\ connsPerHost[j] = MaxConnsPerHost => connsPerHost'[j] = MaxConnsPerHost
    <3>1. connsPerHost[j] <= MaxConnsPerHost /\ connsPerHost[j] \in Nat
      BY <2>0 DEF CountWithin
    <3>2. CASE connsPerHost' = connsPerHost
      BY <3>1, <3>2
    <3>3. CASE /\ connsPerHost[k] < MaxConnsPerHost
               /\ connsPerHost' = [connsPerHost EXCEPT ![k] = @ + 1]
      BY <2>0, <3>1, <3>3
    <3> QED BY <2>1, <3>2, <3>3
  <2>3. \A v \in Wants : connsPerHost[WKey[v]] = MaxConnsPerHost =>
           connsPerHost'[WKey[v]] = MaxConnsPerHost
    BY <2>2, PoolAssumption
  <2>4. DialKept
    BY <2>1, <2>3 DEF DialKept, WaitsDial, TypeOK
  <2> QED BY <2>2, <2>4 DEF CountWithin
<1>3. ASSUME NEW w \in Wants, queueForDialWait(w) PROVE DialKept /\ CountWithin'
  <2>1. /\ connsPerHostWait' = [connsPerHostWait EXCEPT ![WKey[w]] = CleanAndPush(@, w)]
        /\ UNCHANGED <<res, dial, connsPerHost>> /\ WKey[w] \in Keys
    BY <1>3, PoolAssumption DEF queueForDialWait
  <2>2. \A v : res[v] = NoConn /\ Contains(connsPerHostWait[WKey[w]], v) =>
           Contains(CleanAndPush(connsPerHostWait[WKey[w]], w), v)
    BY <2>1, CleanAndPushProps DEF TypeOK
  <2> QED BY <2>1, <2>2, PoolAssumption DEF DialKept, CountWithin, WaitsDial, TypeOK
<1>4. ASSUME NEW w \in Wants,
             (\E c \in Conns, h2 \in {FALSE, HTTP2} : dialConnForOk(w, c, h2)) \/ dialConnForErr(w)
      PROVE  DialKept /\ CountWithin'
  <2>1. /\ \A v \in Wants \ {w} : dial'[v] = dial[v]
        /\ res'[w] # NoConn /\ UNCHANGED hostVars
    <3>1. res \in [Wants -> Conns \cup {NoConn, Err}] /\ DOMAIN dial = Wants
      BY DEF TypeOK
    <3>2. \A x : x # NoConn => tryDeliver(w, x)[w] # NoConn
      BY <3>1 DEF tryDeliver
    <3>3. CASE dialConnForErr(w)
      BY <3>1, <3>2, <3>3, PoolAssumption DEF dialConnForErr
    <3>4. ASSUME NEW c \in Conns, NEW h2 \in {FALSE, HTTP2}, dialConnForOk(w, c, h2)
          PROVE  /\ \A v \in Wants \ {w} : dial'[v] = dial[v]
                 /\ res'[w] # NoConn /\ UNCHANGED hostVars
      BY <3>1, <3>2, <3>4, PoolAssumption DEF dialConnForOk
    <3> QED BY <1>4, <3>3, <3>4, ZenonT(60)
  <2> QED BY <2>1 DEF hostVars, DialKept, CountWithin, WaitsDial
<1>5. ASSUME NEW w \in Wants, dialConnForDec(w) PROVE DialKept /\ CountWithin'
  <2> DEFINE d == [dial EXCEPT ![w] = "over"]
  <2>1. /\ decConnsPerHost(WKey[w], d, res') /\ WKey[w] \in Keys /\ dial[w] = "failed"
    BY <1>5, PoolAssumption DEF dialConnForDec
  <2>2. /\ d \in [Wants -> {"no", "dialing", "failed", "over"}]
        /\ \A v \in Wants : dial[v] = "dialing" => d[v] = "dialing"
    BY <2>1 DEF TypeOK
  <2> HIDE DEF d
  <2> QED BY <2>1, <2>2, DialKeptDec
<1>6. ASSUME NEW w \in Wants, noCachedConnDec(w) PROVE DialKept /\ CountWithin'
  <2>1. /\ decConnsPerHost(ckey[res[w]], dial, res') /\ ckey[res[w]] \in Keys
        /\ dial \in [Wants -> {"no", "dialing", "failed", "over"}]
    BY <1>6 DEF noCachedConnDec, TypeOK
  <2> QED BY <2>1, DialKeptDec
<1>7. ASSUME NEW p \in Putters, PutStep(p) PROVE DialKept /\ CountWithin'
  <2>1. CASE putOrCloseIdleConnClose(p)
    BY <2>1, DialKeptClose DEF putOrCloseIdleConnClose, TypeOK
  <2>2. CASE tryPutIdleConnAdd(p)
    <3> DEFINE c == put[p].c
               lru == <<c>> \o idleLRU
    <3>1. c \in Conns /\ idleLRU \in Seq(Conns)
      BY <2>2 DEF tryPutIdleConnAdd, TypeOK
    <3>2. Last(lru) \in Conns
      <4>1. lru \in Seq(Conns) /\ Len(lru) = 1 + Len(idleLRU) /\ Len(idleLRU) \in Nat
        BY <3>1
      <4>2. Len(lru) \in 1..Len(lru)
        BY <4>1
      <4> HIDE DEF lru
      <4> QED BY <4>1, <4>2 DEF Last
    <3>3. closeLocked(Last(lru), res') \/ UNCHANGED <<dial, hostVars>>
      BY <2>2 DEF tryPutIdleConnAdd
    <3> QED BY <1>1, <3>2, <3>3, DialKeptClose
  <2> QED BY <1>1, <1>7, <2>1, <2>2
      DEF PutStep, tryPutIdleConnCheck, tryPutIdleConnShared, tryPutIdleConnDeliver,
          tryPutIdleConnRefuse
<1>8. ASSUME NEW c \in Conns, CloseStep(c) \/ persistConnClose(c) \/ idleTimer(c)
      PROVE  DialKept /\ CountWithin'
  <2>1. closeLocked(c, res') \/ UNCHANGED <<dial, hostVars>>
    BY <1>8 DEF CloseStep, readLoopExit, closeTaken, closeConnIfStillIdle,
       persistConnClose, idleTimer
  <2> QED BY <1>1, <2>1, DialKeptClose
<1>9. ASSUME NEW w \in Wants, ~noCachedConnDec(w),
             \/ queueForIdleConnTake(w) \/ queueForIdleConnWait(w)
             \/ queueForIdleConnDisabled(w) \/ getConnCancel(w)
             \/ getConnReady(w) \/ UseStep(w)
      PROVE  UNCHANGED <<dial, hostVars>>
  BY <1>9 DEF queueForIdleConnTake, queueForIdleConnWait, queueForIdleConnDisabled,
     getConnCancel, getConnReady, UseStep, roundTripCanceled, readLoopPut,
     roundTripLost, altRoundTrip, noCachedConn
<1>10. ASSUME CloseIdleConnections PROVE UNCHANGED <<dial, hostVars>>
  BY <1>10 DEF CloseIdleConnections
<1> QED BY <1>1, <1>2, <1>3, <1>4, <1>5, <1>6, <1>7, <1>8, <1>9, <1>10
    DEF Next, queueForIdleConnNone, GetConnStep

-----------------------------------------------------------------------------
(* How a call of getConn moves on: it registers before it waits, and it    *)
(* leaves with an answer.                                                  *)
Moves ==
    \A v \in Wants :
      /\ wpc'[v] = "queue" => wpc[v] = "queue" \/ WaitsIdle(v)'
      /\ wpc'[v] = "select" => wpc[v] = "select" \/ (wpc[v] = "queue" /\ WaitsDial(v)')
      /\ wpc'[v] \in {"got", "dec", "done"} =>
            wpc[v] \in {"got", "dec"} \/ wpc'[v] = wpc[v] \/ res'[v] # NoConn

LEMMA MovesNext ==
  ASSUME TypeOK, CountWithin, Next
  PROVE  Moves
<1>1. CASE UNCHANGED wpc
  BY <1>1 DEF Moves
<1>2. ASSUME NEW w \in Wants, queueForIdleConnTake(w) PROVE Moves
  <2>1. res'[w] # NoConn
    BY <1>2, GetConnType, PoolAssumption DEF queueForIdleConnTake, TypeOK
  <2> QED BY <1>2, <2>1 DEF queueForIdleConnTake, Moves, TypeOK
<1>3. ASSUME NEW w \in Wants, queueForIdleConnWait(w) PROVE Moves
  <2>1. WKey[w] \in Keys /\ Contains(CleanAndPush(idleConnWait[WKey[w]], w), w)
    BY PoolAssumption, CleanAndPushProps DEF TypeOK
  <2>2. WaitsIdle(w)'
    BY <1>3, <2>1 DEF queueForIdleConnWait, WaitsIdle, TypeOK
  <2> QED BY <1>3, <2>2 DEF queueForIdleConnWait, Moves, TypeOK
<1>4. ASSUME NEW w \in Wants, queueForIdleConnDisabled(w) PROVE Moves
  BY <1>4 DEF queueForIdleConnDisabled, Moves, WaitsIdle, TypeOK
<1>5. ASSUME NEW w \in Wants, queueForDialNow(w) PROVE Moves
  BY <1>5 DEF queueForDialNow, Moves, WaitsDial, TypeOK
<1>6. ASSUME NEW w \in Wants, queueForDialWait(w) PROVE Moves
  <2>1. WKey[w] \in Keys /\ Contains(CleanAndPush(connsPerHostWait[WKey[w]], w), w)
    BY PoolAssumption, CleanAndPushProps DEF TypeOK
  <2>2. connsPerHost[WKey[w]] = MaxConnsPerHost /\ MaxConnsPerHost > 0
    BY <1>6, <2>1, PoolAssumption DEF queueForDialWait, dialAllowed, CountWithin, TypeOK
  <2>3. WaitsDial(w)'
    BY <1>6, <2>1, <2>2 DEF queueForDialWait, WaitsDial, TypeOK
  <2> QED BY <1>6, <2>3 DEF queueForDialWait, Moves, TypeOK
<1>7. ASSUME NEW w \in Wants, getConnReady(w) \/ getConnCancel(w) PROVE Moves
  BY <1>7, PoolAssumption DEF getConnReady, getConnCancel, Moves, TypeOK
<1>8. ASSUME NEW w \in Wants, UseStep(w) PROVE Moves
  BY <1>8 DEF UseStep, roundTripCanceled, readLoopPut, roundTripLost, altRoundTrip,
     noCachedConn, noCachedConnDec, HTTP1, HTTP2Conn, Moves, TypeOK
<1>9. ASSUME NEW w \in Wants,
             \/ (\E c \in Conns, h2 \in {FALSE, HTTP2} : dialConnForOk(w, c, h2))
             \/ dialConnForErr(w) \/ dialConnForDec(w)
      PROVE  UNCHANGED wpc
  BY <1>9 DEF dialConnForOk, dialConnForErr, dialConnForDec
<1>10. ASSUME NEW p \in Putters, PutStep(p) PROVE UNCHANGED wpc
  BY <1>10 DEF PutStep, tryPutIdleConnCheck, tryPutIdleConnShared, tryPutIdleConnDeliver,
     tryPutIdleConnRefuse, tryPutIdleConnAdd, putOrCloseIdleConnClose
<1>11. ASSUME NEW c \in Conns, CloseStep(c) \/ persistConnClose(c) \/ idleTimer(c)
       PROVE  UNCHANGED wpc
  BY <1>11 DEF CloseStep, readLoopExit, closeTaken, closeConnIfStillIdle,
     persistConnClose, idleTimer
<1>12. ASSUME CloseIdleConnections PROVE UNCHANGED wpc
  BY <1>12 DEF CloseIdleConnections
<1> QED BY <1>1, <1>2, <1>3, <1>4, <1>5, <1>6, <1>7, <1>8, <1>9, <1>10, <1>11, <1>12, ZenonT(60)
    DEF Next, queueForIdleConnNone, GetConnStep

LEMMA WaitersRegisteredHolds == Spec => []WaitersRegistered
<1>1. Init => WaitersRegistered
  BY PoolAssumption DEF Init, WaitersRegistered
<1>2. TypeOK /\ TypeOK' /\ WaitersRegistered /\ [Next]_vars => WaitersRegistered'
  <2> SUFFICES ASSUME TypeOK, TypeOK', WaitersRegistered, [Next]_vars
               PROVE  WaitersRegistered'
    OBVIOUS
  <2>1. CASE UNCHANGED vars
    BY <2>1 DEF vars, WaitersRegistered, WaitsDial, WaitsIdle
  <2>2. CASE Next
    <3>1. CountWithin
      BY DEF WaitersRegistered, CountWithin
    <3>2. Moves /\ IdleKept /\ DialKept /\ AnswersKept /\ CountWithin'
      BY <2>2, <3>1, MovesNext, IdleKeptNext, DialKeptNext, BindingNext DEF Binding
    <3>3. ASSUME NEW w \in Wants
          PROVE  /\ wpc'[w] \in {"got", "dec", "done"} => res'[w] # NoConn
                 /\ wpc'[w] \in {"queue", "select"} /\ res'[w] = NoConn => WaitsIdle(w)'
                 /\ wpc'[w] = "select" /\ res'[w] = NoConn => WaitsDial(w)'
      BY <3>2 DEF Moves, IdleKept, DialKept, AnswersKept, WaitersRegistered
    <3> QED BY <3>2, <3>3 DEF WaitersRegistered, CountWithin
  <2> QED BY <2>1, <2>2
<1> QED BY <1>1, <1>2, TypeCorrect, PTL DEF Spec

(* Whoever waits in getConn can still be woken: it has a dial of its own   *)
(* or stands in connsPerHostWait while the host's count is used up, and it *)
(* is registered for a connection that becomes idle.  No interleaving of   *)
(* dials, returns, closes and cancellations strands a request.             *)
THEOREM NotStrandedHolds == Spec => []NotStranded
<1>1. WaitersRegistered => NotStranded
  BY DEF WaitersRegistered, NotStranded
<1> QED BY <1>1, WaitersRegisteredHolds, PTL
-----------------------------------------------------------------------------
(* Only a cancellation touches an answer. *)
LEMMA AnswerStays ==
  ASSUME TypeOK, Next, NEW v \in Wants, res[v] # NoConn, res'[v] # res[v]
  PROVE  getConnCancel(v)
<1>1. ASSUME NEW w \in Wants, getConnCancel(w) PROVE v = w
  BY <1>1 DEF getConnCancel, TypeOK
<1>2. ASSUME NEW c \in Conns, deliver(c) PROVE FALSE
  BY <1>2, DeliveryProps DEF deliver
<1>3. ASSUME UNCHANGED res PROVE FALSE
  BY <1>3
<1>4. ASSUME NEW w \in Wants, ~getConnCancel(w),
             \/ queueForIdleConnTake(w) \/ queueForIdleConnWait(w)
             \/ queueForIdleConnDisabled(w) \/ GetConnStep(w)
      PROVE  FALSE
  <2>1. res \in [Wants -> Conns \cup {NoConn, Err}]
    BY DEF TypeOK
  <2>2. ASSUME NEW x, res' = tryDeliver(w, x) PROVE FALSE
    BY <2>1, <2>2 DEF tryDeliver
  <2>3. CASE queueForIdleConnTake(w)
    BY <2>2, <2>3 DEF queueForIdleConnTake
  <2>4. CASE queueForIdleConnWait(w) \/ queueForIdleConnDisabled(w)
    BY <2>4 DEF queueForIdleConnWait, queueForIdleConnDisabled
  <2>5. CASE queueForDialNow(w) \/ queueForDialWait(w) \/ getConnReady(w)
    BY <2>5 DEF queueForDialNow, queueForDialWait, getConnReady
  <2>6. ASSUME NEW c \in Conns, NEW h2 \in {FALSE, HTTP2}, dialConnForOk(w, c, h2)
        PROVE  FALSE
    BY <2>2, <2>6 DEF dialConnForOk
  <2>7. CASE dialConnForErr(w) \/ dialConnForDec(w)
    BY <2>2, <2>7 DEF dialConnForErr, dialConnForDec
  <2> QED BY <1>4, <2>3, <2>4, <2>5, <2>6, <2>7 DEF GetConnStep
<1>5. ASSUME NEW w \in Wants, UseStep(w) PROVE FALSE
  BY <1>5 DEF UseStep, roundTripCanceled, readLoopPut, roundTripLost, altRoundTrip,
     noCachedConn, noCachedConnDec
<1>6. ASSUME NEW p \in Putters, PutStep(p) PROVE FALSE
  <2>1. UNCHANGED res \/ (put[p].c \in Conns /\ deliver(put[p].c))
    BY <1>6 DEF PutStep, tryPutIdleConnCheck, tryPutIdleConnShared, tryPutIdleConnDeliver,
       tryPutIdleConnRefuse, tryPutIdleConnAdd, putOrCloseIdleConnClose, TypeOK
  <2> QED BY <1>2, <1>3, <2>1
<1>7. ASSUME NEW c \in Conns, CloseStep(c) \/ persistConnClose(c) \/ idleTimer(c) PROVE FALSE
  BY <1>7 DEF CloseStep, readLoopExit, closeTaken, closeConnIfStillIdle,
     persistConnClose, idleTimer
<1>8. ASSUME CloseIdleConnections PROVE FALSE
  BY <1>8 DEF CloseIdleConnections
<1> QED BY <1>1, <1>4, <1>5, <1>6, <1>7, <1>8 DEF Next, queueForIdleConnNone

(* A wantConn is answered once, whatever the dialer, the pool and a        *)
(* cancellation do at the same time; a canceled call gives the connection  *)
(* it had already received to tryPutIdleConn.                              *)
THEOREM AnsweredOnceHolds == Spec => AnsweredOnce
<1> DEFINE Once == \A w \in Wants : res[w] # NoConn /\ res'[w] # res[w] =>
                      /\ res'[w] = Err
                      /\ wpc'[w] = "done"
                      /\ res[w] \in Conns => put'[Caller(w)].c = res[w]
<1>1. TypeOK /\ [Next]_vars => [Once]_vars
  <2> SUFFICES ASSUME TypeOK, Next PROVE Once
    BY DEF vars
  <2>1. ASSUME NEW w \in Wants, getConnCancel(w)
        PROVE  /\ res'[w] = Err /\ wpc'[w] = "done"
               /\ res[w] \in Conns => put'[Caller(w)].c = res[w]
    BY <2>1, PuttersType DEF getConnCancel, cancelGivesBack, TypeOK
  <2> QED BY <2>1, AnswerStays
<1> QED BY <1>1, TypeCorrect, PTL DEF Spec, AnsweredOnce
=============================================================================
