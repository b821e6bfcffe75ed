------------------------ MODULE TransportPoolCounts ------------------------
(***************************************************************************)
(* connsPerHost of an HTTP/1 pool counts the open connections and the      *)
(* dials in flight of each host (CountInv).                                *)
(***************************************************************************)
EXTENDS TransportPoolCalls, FiniteSetTheorems

(* Without HTTP/2 no connection is shared. *)
LEMMA NoneSharedHolds ==
  ASSUME ~HTTP2
  PROVE  Spec => []NoneShared
<1>1. Init => NoneShared
  BY DEF Init, NoneShared
<1>2. TypeOK /\ NoneShared /\ [Next]_vars => NoneShared'
  <2>1. ASSUME TypeOK, NoneShared, Next PROVE alt' = {}
    <3>1. ASSUME NEW w \in Wants, NEW c \in Conns, NEW h2 \in {FALSE, HTTP2},
                 dialConnForOk(w, c, h2)
          PROVE  alt' = alt
      <4>1. ~h2
        BY Zenon
      <4> QED BY <3>1, <4>1 DEF dialConnForOk
    <3>2. ASSUME NEW w \in Wants, UseStep(w) PROVE alt' = alt
      BY <3>2 DEF UseStep, roundTripCanceled, readLoopPut, roundTripLost, altRoundTrip,
         noCachedConn, noCachedConnDec, connVars
    <3>3. ASSUME NEW p \in Putters, PutStep(p) PROVE alt' = alt
      BY <3>3 DEF PutStep, tryPutIdleConnCheck, tryPutIdleConnShared, tryPutIdleConnDeliver,
         tryPutIdleConnRefuse, tryPutIdleConnAdd, putOrCloseIdleConnClose, connVars
    <3>4. ASSUME NEW c \in Conns, CloseStep(c) \/ persistConnClose(c) \/ idleTimer(c)
          PROVE  alt' = alt
      BY <3>4 DEF CloseStep, readLoopExit, closeTaken, closeConnIfStillIdle, persistConnClose,
         idleTimer, connVars
    <3>5. ASSUME CloseIdleConnections PROVE alt' = alt
      BY <3>5 DEF CloseIdleConnections, connVars
    <3>6. ASSUME NEW w \in Wants,
                 \/ queueForIdleConnTake(w) \/ queueForIdleConnWait(w)
                 \/ queueForIdleConnDisabled(w) \/ getConnCancel(w) \/ queueForDialNow(w)
                 \/ queueForDialWait(w) \/ getConnReady(w) \/ dialConnForErr(w)
                 \/ dialConnForDec(w)
          PROVE  alt' = alt
      BY <3>6 DEF queueForIdleConnTake, queueForIdleConnWait, queueForIdleConnDisabled,
         getConnCancel, queueForDialNow, queueForDialWait, getConnReady, dialConnForErr,
         dialConnForDec, connVars
    <3>7. alt' = alt
      BY <2>1, <3>1, <3>2, <3>3, <3>4, <3>5, <3>6, ZenonT(60) DEF Next, queueForIdleConnNone, GetConnStep
    <3> QED BY <2>1, <3>7 DEF NoneShared
  <2>2. ASSUME TypeOK, NoneShared, Next, NEW v \in Wants PROVE wpc'[v] # "dec"
    <3>1. ASSUME NEW w \in Wants, UseStep(w) PROVE wpc'[v] # "dec"
      <4>1. ~HTTP2Conn(w) /\ wpc[w] # "dec"
        BY <2>2 DEF HTTP2Conn, NoneShared
      <4>2. wpc' = [wpc EXCEPT ![w] = "done"]
        BY <3>1, <4>1 DEF UseStep, roundTripCanceled, readLoopPut, roundTripLost, altRoundTrip,
           noCachedConn, noCachedConnDec
      <4> QED BY <2>2, <4>2 DEF NoneShared, TypeOK
    <3>2. ASSUME NEW p \in Putters, PutStep(p) PROVE wpc' = wpc
      BY <3>2 DEF PutStep, tryPutIdleConnCheck, tryPutIdleConnShared, tryPutIdleConnDeliver,
         tryPutIdleConnRefuse, tryPutIdleConnAdd, putOrCloseIdleConnClose
    <3>3. ASSUME NEW c \in Conns, CloseStep(c) \/ persistConnClose(c) \/ idleTimer(c)
          PROVE  wpc' = wpc
      BY <3>3 DEF CloseStep, readLoopExit, closeTaken, closeConnIfStillIdle, persistConnClose,
         idleTimer
    <3>4. ASSUME CloseIdleConnections PROVE wpc' = wpc
      BY <3>4 DEF CloseIdleConnections
    <3>5. ASSUME NEW w \in Wants,
                 \/ queueForIdleConnTake(w) \/ queueForIdleConnWait(w)
                 \/ queueForIdleConnDisabled(w) \/ getConnCancel(w) \/ GetConnStep(w)
          PROVE  \/ wpc' = wpc
                 \/ \E a \in {"got", "queue", "select", "done"} : wpc' = [wpc EXCEPT ![w] = a]
      BY <3>5 DEF queueForIdleConnTake, queueForIdleConnWait, queueForIdleConnDisabled,
         getConnCancel, GetConnStep, queueForDialNow, queueForDialWait, getConnReady,
         dialConnForOk, dialConnForErr, dialConnForDec
    <3>6. wpc[v] # "dec"
      BY <2>2 DEF NoneShared
    <3>7. CASE \E w \in Wants :
                 \/ queueForIdleConnTake(w) \/ queueForIdleConnWait(w)
                 \/ queueForIdleConnDisabled(w) \/ getConnCancel(w) \/ GetConnStep(w)
      BY <2>2, <3>5, <3>6, <3>7, ZenonT(60) DEF TypeOK
    <3> QED BY <2>2, <3>1, <3>2, <3>3, <3>4, <3>6, <3>7 DEF Next, queueForIdleConnNone
  <2>3. ASSUME NoneShared, UNCHANGED vars PROVE NoneShared'
    BY <2>3 DEF NoneShared, vars
  <2> QED BY <2>1, <2>2, <2>3 DEF NoneShared
<1> QED BY <1>1, <1>2, TypeCorrect, PTL DEF Spec

-----------------------------------------------------------------------------
(* The count of a host. *)
DialsIn(d, k) == {w \in Wants : d[w] \in {"dialing", "failed"} /\ WKey[w] = k}

CountInv ==
    MaxConnsPerHost > 0 =>
      \A k \in Keys :
        /\ IsFiniteSet(Opened(k)) /\ IsFiniteSet(Dials(k))
        /\ connsPerHost[k] = Cardinality(Opened(k)) + Cardinality(Dials(k))

(* decConnsPerHost(k) when one of the k counted has just gone: the number  *)
(* left is a[h] connections and the dials of d.                            *)
LEMMA DecCount ==
  ASSUME TypeOK, QueuedOnce, MaxConnsPerHost > 0, NEW k \in Keys, NEW r,
         NEW d \in [Wants -> {"no", "dialing", "failed", "over"}],
         \A v \in Wants : dial[v] = "no" => d[v] = "no",
         decConnsPerHost(k, d, r),
         NEW a \in [Keys -> Nat],
         \A h \in Keys : IsFiniteSet(DialsIn(d, h)),
         \A h \in Keys : h # k => connsPerHost[h] = a[h] + Cardinality(DialsIn(d, h)),
         connsPerHost[k] = a[k] + Cardinality(DialsIn(d, k)) + 1
  PROVE  /\ \A h \in Keys : /\ IsFiniteSet(DialsIn(dial', h))
                            /\ connsPerHost'[h] = a[h] + Cardinality(DialsIn(dial', h))
         /\ underflow' = underflow
<1> DEFINE q == connsPerHostWait[k]
           f == FirstWaiting(q, r)
<1>1. \A h \in Keys : Cardinality(DialsIn(d, h)) \in Nat /\ a[h] \in Nat
  BY FS_CardinalityType
<1>2. connsPerHost[k] # 0
  BY <1>1
<1>3. connsPerHost \in [Keys -> Nat] /\ q \in Seq(Wants)
  BY DEF TypeOK
<1>4. CASE f # 0
  <2>1. /\ dial' = [d EXCEPT ![q[f]] = "dialing"] /\ UNCHANGED <<connsPerHost, underflow>>
    BY <1>2, <1>4 DEF decConnsPerHost
  <2>2. f \in 1..Len(q)
    BY <1>3, <1>4, FirstWaitingProps
  <2> DEFINE v == q[f]
  <2>3. v \in Wants /\ WKey[v] = k /\ d[v] = "no"
    BY <1>3, <2>2 DEF QueuedOnce
  <2> HIDE DEF v, f, q
  <2>4. dial' = [d EXCEPT ![v] = "dialing"]
    BY <2>1 DEF v
  <2>5. DialsIn(dial', k) = DialsIn(d, k) \cup {v} /\ v \notin DialsIn(d, k)
    BY <2>3, <2>4 DEF DialsIn
  <2>6. \A h \in Keys : h # k => DialsIn(dial', h) = DialsIn(d, h)
    BY <2>3, <2>4 DEF DialsIn
  <2>7. /\ IsFiniteSet(DialsIn(dial', k))
        /\ Cardinality(DialsIn(dial', k)) = Cardinality(DialsIn(d, k)) + 1
    BY <2>5, FS_AddElement
  <2>8. ASSUME NEW h \in Keys
        PROVE  /\ IsFiniteSet(DialsIn(dial', h))
               /\ connsPerHost[h] = a[h] + Cardinality(DialsIn(dial', h))
    <3>1. CASE h = k
      BY <1>1, <2>7, <3>1
    <3>2. CASE h # k
      BY <2>6, <3>2
    <3> QED BY <3>1, <3>2
  <2> QED BY <2>1, <2>8, ZenonT(60)
<1>5. CASE f = 0
  <2>1. /\ dial' = d /\ connsPerHost' = [connsPerHost EXCEPT ![k] = @ - 1]
        /\ UNCHANGED underflow
    BY <1>2, <1>5 DEF decConnsPerHost
  <2>2. /\ connsPerHost'[k] = connsPerHost[k] - 1
        /\ \A h \in Keys : h # k => connsPerHost'[h] = connsPerHost[h]
    BY <1>3, <2>1
  <2>3. connsPerHost'[k] = a[k] + Cardinality(DialsIn(d, k))
    BY <1>1, <2>2
  <2> QED BY <2>1, <2>2, <2>3
<1> QED BY <1>4, <1>5

LEMMA CountSame ==
  ASSUME CountInv, UNCHANGED <<conn, ckey, dial, connsPerHost>>
  PROVE  CountInv'
BY DEF CountInv, Opened, Dials

LEMMA CountClose ==
  ASSUME TypeOK, QueuedOnce, CountInv, NEW c \in Conns, NEW r, closeLocked(c, r), ckey' = ckey,
         MaxConnsPerHost > 0
  PROVE  CountInv' /\ underflow' = underflow
<1>1. CASE conn[c] # "open"
  BY <1>1, CountSame DEF closeLocked, hostVars
<1>2. CASE conn[c] = "open"
  <2> DEFINE a == [h \in Keys |-> Cardinality(Opened(h)')]
  <2>0. PICK k \in Keys : k = ckey[c]
    BY DEF TypeOK
  <2>1. k \in Keys /\ conn' = [conn EXCEPT ![c] = "closed"] /\ decConnsPerHost(k, dial, r)
    BY <1>2, <2>0 DEF closeLocked
  <2>2. dial \in [Wants -> {"no", "dialing", "failed", "over"}]
    BY DEF TypeOK
  <2>3. Opened(k)' = Opened(k) \ {c} /\ c \in Opened(k)
    BY <1>2, <2>0, <2>1 DEF Opened, TypeOK
  <2>4. \A h \in Keys : h # k => Opened(h)' = Opened(h)
    BY <2>0, <2>1 DEF Opened, TypeOK
  <2>5. \A h \in Keys : /\ IsFiniteSet(Opened(h)) /\ IsFiniteSet(DialsIn(dial, h))
                        /\ connsPerHost[h] = Cardinality(Opened(h)) + Cardinality(DialsIn(dial, h))
    BY DEF CountInv, Dials, DialsIn
  <2>6. /\ IsFiniteSet(Opened(k)')
        /\ Cardinality(Opened(k)') = Cardinality(Opened(k)) - 1
    <3>1. IsFiniteSet(Opened(k))
      BY <2>1, <2>5
    <3> QED BY <2>3, <3>1, FS_RemoveElement, Zenon
  <2>7. \A h \in Keys : IsFiniteSet(Opened(h)') /\ Cardinality(Opened(h)') \in Nat
    BY <2>4, <2>5, <2>6, FS_CardinalityType
  <2>8. a \in [Keys -> Nat]
    BY <2>7
  <2>9. /\ \A h \in Keys : h # k => connsPerHost[h] = a[h] + Cardinality(DialsIn(dial, h))
        /\ connsPerHost[k] = a[k] + Cardinality(DialsIn(dial, k)) + 1
    <3>1. \A h \in Keys : Cardinality(DialsIn(dial, h)) \in Nat /\ Cardinality(Opened(h)) \in Nat
      BY <2>5, FS_CardinalityType
    <3>2. ASSUME NEW h \in Keys, h # k
          PROVE  connsPerHost[h] = a[h] + Cardinality(DialsIn(dial, h))
      BY <2>4, <2>5, <3>2
    <3>3. connsPerHost[k] = Cardinality(Opened(k)) + Cardinality(DialsIn(dial, k))
      BY <2>1, <2>5
    <3>4. a[k] = Cardinality(Opened(k)) - 1
      BY <2>1, <2>6
    <3>5. Cardinality(DialsIn(dial, k)) \in Nat /\ Cardinality(Opened(k)) \in Nat
      BY <2>1, <3>1
    <3> HIDE DEF a
    <3>6. connsPerHost[k] = a[k] + Cardinality(DialsIn(dial, k)) + 1
      BY <3>3, <3>4, <3>5
    <3> QED BY <3>2, <3>6
  <2>10. \A h \in Keys : a[h] = Cardinality(Opened(h)')
    OBVIOUS
  <2> HIDE DEF a
  <2>11. /\ \A h \in Keys : /\ IsFiniteSet(DialsIn(dial', h))
                            /\ connsPerHost'[h] = a[h] + Cardinality(DialsIn(dial', h))
         /\ underflow' = underflow
    BY <2>1, <2>2, <2>5, <2>8, <2>9, DecCount
  <2>12. \A h \in Keys : Dials(h)' = DialsIn(dial', h)
    BY DEF Dials, DialsIn
  <2>13. ASSUME NEW h \in Keys
         PROVE  /\ IsFiniteSet(Opened(h)') /\ IsFiniteSet(Dials(h)')
                /\ connsPerHost'[h] = Cardinality(Opened(h)') + Cardinality(Dials(h)')
    BY <2>7, <2>10, <2>11, <2>12
  <2> QED BY <2>11, <2>13 DEF CountInv
<1> QED BY <1>1, <1>2

(* The dials. *)
LEMMA CountDial ==
  ASSUME TypeOK, QueuedOnce, CountInv, NEW w \in Wants, MaxConnsPerHost > 0,
         queueForDialNow(w)
  PROVE  CountInv'
<1> DEFINE k == WKey[w]
<1>1. k \in Keys /\ dial[w] = "no"
  BY PoolAssumption DEF queueForDialNow, QueuedOnce
<1>2. /\ dial' = [dial EXCEPT ![w] = "dialing"]
      /\ connsPerHost' = [connsPerHost EXCEPT ![k] = @ + 1] /\ UNCHANGED <<conn, ckey>>
  BY DEF queueForDialNow, connVars
<1>3. Dials(k)' = Dials(k) \cup {w} /\ w \notin Dials(k)
  BY <1>1, <1>2 DEF Dials, TypeOK
<1>4. \A h \in Keys : h # k => Dials(h)' = Dials(h)
  BY <1>1, <1>2 DEF Dials, TypeOK
<1>5. /\ connsPerHost'[k] = connsPerHost[k] + 1
      /\ \A h \in Keys : h # k => connsPerHost'[h] = connsPerHost[h]
  BY <1>1, <1>2 DEF TypeOK
<1>6. \A h \in Keys : Opened(h)' = Opened(h)
  BY <1>2 DEF Opened
<1>7. \A h \in Keys : /\ IsFiniteSet(Opened(h)) /\ IsFiniteSet(Dials(h))
                      /\ connsPerHost[h] = Cardinality(Opened(h)) + Cardinality(Dials(h))
                      /\ Cardinality(Opened(h)) \in Nat /\ Cardinality(Dials(h)) \in Nat
  BY FS_CardinalityType DEF CountInv
<1> HIDE DEF k
<1>8. IsFiniteSet(Dials(k)') /\ Cardinality(Dials(k)') = Cardinality(Dials(k)) + 1
  BY <1>1, <1>3, <1>7, FS_AddElement
<1>9. ASSUME NEW h \in Keys
      PROVE  /\ IsFiniteSet(Opened(h)') /\ IsFiniteSet(Dials(h)')
             /\ connsPerHost'[h] = Cardinality(Opened(h)') + Cardinality(Dials(h)')
  <2>1. CASE h = k
    BY <1>5, <1>6, <1>7, <1>8, <2>1
  <2>2. CASE h # k
    BY <1>4, <1>5, <1>6, <1>7, <2>2
  <2> QED BY <2>1, <2>2
<1> QED BY <1>9 DEF CountInv

LEMMA CountDialed ==
  ASSUME TypeOK, CountInv, NEW w \in Wants, NEW c \in Conns, NEW h2, dialConnForOk(w, c, h2),
         MaxConnsPerHost > 0
  PROVE  CountInv'
<1> DEFINE k == WKey[w]
<1>1. k \in Keys
  BY PoolAssumption
<1>2. /\ dial[w] = "dialing" /\ conn[c] = "unborn" /\ dial' = [dial EXCEPT ![w] = "over"]
      /\ conn' = [conn EXCEPT ![c] = "open"] /\ ckey' = [ckey EXCEPT ![c] = k]
      /\ connsPerHost' = connsPerHost
  BY DEF dialConnForOk, hostVars
<1>3. Dials(k)' = Dials(k) \ {w} /\ w \in Dials(k)
  BY <1>1, <1>2 DEF Dials, TypeOK
<1>4. \A h \in Keys : h # k => Dials(h)' = Dials(h)
  BY <1>1, <1>2 DEF Dials, TypeOK
<1>5. Opened(k)' = Opened(k) \cup {c} /\ c \notin Opened(k)
  BY <1>1, <1>2 DEF Opened, TypeOK
<1>6. \A h \in Keys : h # k => Opened(h)' = Opened(h)
  BY <1>1, <1>2 DEF Opened, TypeOK
<1>7. \A h \in Keys : /\ IsFiniteSet(Opened(h)) /\ IsFiniteSet(Dials(h))
                      /\ connsPerHost[h] = Cardinality(Opened(h)) + Cardinality(Dials(h))
                      /\ Cardinality(Opened(h)) \in Nat /\ Cardinality(Dials(h)) \in Nat
  BY FS_CardinalityType DEF CountInv
<1> HIDE DEF k
<1>8. IsFiniteSet(Dials(k)') /\ Cardinality(Dials(k)') = Cardinality(Dials(k)) - 1
  BY <1>1, <1>3, <1>7, FS_RemoveElement
<1>9. IsFiniteSet(Opened(k)') /\ Cardinality(Opened(k)') = Cardinality(Opened(k)) + 1
  BY <1>1, <1>5, <1>7, FS_AddElement
<1>10. ASSUME NEW h \in Keys
       PROVE  /\ IsFiniteSet(Opened(h)') /\ IsFiniteSet(Dials(h)')
              /\ connsPerHost'[h] = Cardinality(Opened(h)') + Cardinality(Dials(h)')
  <2>1. CASE h = k
    BY <1>2, <1>7, <1>8, <1>9, <2>1
  <2>2. CASE h # k
    BY <1>2, <1>4, <1>6, <1>7, <2>2
  <2> QED BY <2>1, <2>2
<1> QED BY <1>10 DEF CountInv

LEMMA CountFailed ==
  ASSUME TypeOK, QueuedOnce, CountInv, NEW w \in Wants, MaxConnsPerHost > 0, dialConnForDec(w)
  PROVE  CountInv' /\ underflow' = underflow
<1> DEFINE k == WKey[w]
           d == [dial EXCEPT ![w] = "over"]
           a == [h \in Keys |-> Cardinality(Opened(h))]
<1>1. k \in Keys /\ dial[w] = "failed" /\ decConnsPerHost(k, d, res) /\ UNCHANGED <<conn, ckey>>
  BY PoolAssumption DEF dialConnForDec, connVars
<1>2. /\ d \in [Wants -> {"no", "dialing", "failed", "over"}]
      /\ \A v \in Wants : dial[v] = "no" => d[v] = "no"
  BY <1>1 DEF TypeOK
<1>3. DialsIn(d, k) = Dials(k) \ {w} /\ w \in Dials(k)
  BY <1>1 DEF Dials, DialsIn, TypeOK
<1>4. \A h \in Keys : h # k => DialsIn(d, h) = Dials(h)
  BY <1>1 DEF Dials, DialsIn, TypeOK
<1>5. \A h \in Keys : /\ IsFiniteSet(Opened(h)) /\ IsFiniteSet(Dials(h))
                      /\ connsPerHost[h] = Cardinality(Opened(h)) + Cardinality(Dials(h))
                      /\ Cardinality(Opened(h)) \in Nat /\ Cardinality(Dials(h)) \in Nat
  BY FS_CardinalityType DEF CountInv
<1> HIDE DEF k, d
<1>6. IsFiniteSet(DialsIn(d, k)) /\ Cardinality(DialsIn(d, k)) = Cardinality(Dials(k)) - 1
  BY <1>1, <1>3, <1>5, FS_RemoveElement
<1>7. a \in [Keys -> Nat] /\ \A h \in Keys : a[h] = Cardinality(Opened(h))
  BY <1>5
<1> HIDE DEF a
<1>8. /\ \A h \in Keys : IsFiniteSet(DialsIn(d, h))
      /\ \A h \in Keys : h # k => connsPerHost[h] = a[h] + Cardinality(DialsIn(d, h))
      /\ connsPerHost[k] = a[k] + Cardinality(DialsIn(d, k)) + 1
  BY <1>1, <1>4, <1>5, <1>6, <1>7
<1>9. /\ \A h \in Keys : /\ IsFiniteSet(DialsIn(dial', h))
                         /\ connsPerHost'[h] = a[h] + Cardinality(DialsIn(dial', h))
      /\ underflow' = underflow
  BY <1>1, <1>2, <1>7, <1>8, DecCount
<1>10. \A h \in Keys : Dials(h)' = DialsIn(dial', h) /\ Opened(h)' = Opened(h)
  BY <1>1 DEF Dials, DialsIn, Opened
<1>11. ASSUME NEW h \in Keys
       PROVE  /\ IsFiniteSet(Opened(h)') /\ IsFiniteSet(Dials(h)')
              /\ connsPerHost'[h] = Cardinality(Opened(h)') + Cardinality(Dials(h)')
  BY <1>5, <1>7, <1>9, <1>10
<1> QED BY <1>9, <1>11 DEF CountInv

LEMMA CountErr ==
  ASSUME TypeOK, CountInv, NEW w \in Wants, dialConnForErr(w)
  PROVE  CountInv'
<1>1. /\ dial[w] = "dialing" /\ dial' = [dial EXCEPT ![w] = "failed"]
      /\ UNCHANGED <<conn, ckey, connsPerHost>>
  BY DEF dialConnForErr, connVars, hostVars
<1>2. \A h \in Keys : Dials(h)' = Dials(h) /\ Opened(h)' = Opened(h)
  BY <1>1 DEF Dials, Opened, TypeOK
<1> QED BY <1>1, <1>2 DEF CountInv

LEMMA CountNext ==
  ASSUME TypeOK, QueuedOnce, NoneShared, CountInv, MaxConnsPerHost > 0, Next
  PROVE  CountInv' /\ underflow' = underflow
<1>1. CASE UNCHANGED <<conn, ckey, dial, connsPerHost, underflow>>
  BY <1>1, CountSame
<1>2. ASSUME NEW w \in Wants,
             \/ queueForIdleConnTake(w) \/ queueForIdleConnWait(w)
             \/ queueForIdleConnDisabled(w) \/ getConnCancel(w) \/ GetConnStep(w)
      PROVE  CountInv' /\ underflow' = underflow
  <2>1. CASE queueForDialNow(w)
    BY <2>1, CountDial, ZenonT(60) DEF queueForDialNow
  <2>2. CASE \E c \in Conns, h2 \in {FALSE, HTTP2} : dialConnForOk(w, c, h2)
    BY <2>2, CountDialed, ZenonT(60) DEF dialConnForOk, hostVars
  <2>3. CASE dialConnForErr(w)
    BY <2>3, CountErr, ZenonT(60) DEF dialConnForErr, hostVars
  <2>4. CASE dialConnForDec(w)
    BY <2>4, CountFailed
  <2>5. CASE \/ queueForIdleConnTake(w) \/ queueForIdleConnWait(w)
             \/ queueForIdleConnDisabled(w) \/ getConnCancel(w) \/ queueForDialWait(w)
             \/ getConnReady(w)
    BY <1>1, <2>5 DEF queueForIdleConnTake, queueForIdleConnWait, queueForIdleConnDisabled,
       getConnCancel, queueForDialWait, getConnReady, connVars, hostVars
  <2> QED BY <1>2, <2>1, <2>2, <2>3, <2>4, <2>5 DEF GetConnStep
<1>3. ASSUME NEW p \in Putters, PutStep(p) PROVE CountInv' /\ underflow' = underflow
  <2>1. CASE tryPutIdleConnAdd(p)
    <3>1. put[p].c \in Conns /\ ckey' = ckey
      BY <2>1 DEF tryPutIdleConnAdd, TypeOK
    <3>2. Last(<<put[p].c>> \o idleLRU) \in Conns
      BY <3>1, OldestIsConn
    <3> QED BY <1>1, <2>1, <3>1, <3>2, CountClose DEF tryPutIdleConnAdd, hostVars
  <2>2. CASE putOrCloseIdleConnClose(p)
    <3>1. put[p].c \in Conns
      BY <2>2 DEF putOrCloseIdleConnClose, TypeOK
    <3> QED BY <2>2, <3>1, CountClose DEF putOrCloseIdleConnClose
  <2>3. CASE ~tryPutIdleConnAdd(p) /\ ~putOrCloseIdleConnClose(p)
    BY <1>1, <1>3, <2>3 DEF PutStep, tryPutIdleConnCheck, tryPutIdleConnShared,
       tryPutIdleConnDeliver, tryPutIdleConnRefuse, connVars, hostVars
  <2> QED BY <2>1, <2>2, <2>3
<1>4. ASSUME NEW w \in Wants, UseStep(w) PROVE CountInv' /\ underflow' = underflow
  <2>1. wpc[w] # "dec"
    BY DEF NoneShared
  <2> QED BY <1>1, <1>4, <2>1 DEF UseStep, roundTripCanceled, readLoopPut, roundTripLost,
      altRoundTrip, noCachedConn, noCachedConnDec, connVars, hostVars
<1>5. ASSUME NEW c \in Conns, CloseStep(c) \/ persistConnClose(c) \/ idleTimer(c)
      PROVE  CountInv' /\ underflow' = underflow
  BY <1>1, <1>5, CountClose DEF CloseStep, readLoopExit, closeTaken, closeConnIfStillIdle,
     persistConnClose, idleTimer, connVars, hostVars
<1>6. CASE CloseIdleConnections
  BY <1>1, <1>6 DEF CloseIdleConnections, connVars, hostVars
<1> QED BY <1>2, <1>3, <1>4, <1>5, <1>6 DEF Next, queueForIdleConnNone

(* Without MaxConnsPerHost nothing is counted. *)
LEMMA UnlimitedCount ==
  ASSUME MaxConnsPerHost = 0, Next
  PROVE  underflow' = underflow
<1>1. ASSUME NEW k, NEW d, NEW r, decConnsPerHost(k, d, r) PROVE underflow' = underflow
  BY <1>1 DEF decConnsPerHost, hostVars
<1>2. ASSUME NEW c, NEW r, closeLocked(c, r) PROVE underflow' = underflow
  BY <1>1, <1>2 DEF closeLocked, hostVars
<1>3. ASSUME NEW w \in Wants,
             \/ queueForIdleConnTake(w) \/ queueForIdleConnWait(w)
             \/ queueForIdleConnDisabled(w) \/ getConnCancel(w) \/ GetConnStep(w) \/ UseStep(w)
      PROVE  underflow' = underflow
  BY <1>1, <1>3 DEF queueForIdleConnTake, queueForIdleConnWait, queueForIdleConnDisabled,
     getConnCancel, GetConnStep, queueForDialNow, queueForDialWait, getConnReady, dialConnForOk,
     dialConnForErr, dialConnForDec, UseStep, roundTripCanceled, readLoopPut, roundTripLost,
     altRoundTrip, noCachedConn, noCachedConnDec, hostVars
<1>4. ASSUME NEW p \in Putters, PutStep(p) PROVE underflow' = underflow
  BY <1>2, <1>4 DEF PutStep, tryPutIdleConnCheck, tryPutIdleConnShared, tryPutIdleConnDeliver,
     tryPutIdleConnRefuse, tryPutIdleConnAdd, putOrCloseIdleConnClose, hostVars
<1>5. ASSUME NEW c \in Conns, CloseStep(c) \/ persistConnClose(c) \/ idleTimer(c)
      PROVE  underflow' = underflow
  BY <1>2, <1>5 DEF CloseStep, readLoopExit, closeTaken, closeConnIfStillIdle, persistConnClose,
     idleTimer, hostVars
<1>6. CASE CloseIdleConnections
  BY <1>6 DEF CloseIdleConnections, hostVars
<1> QED BY <1>3, <1>4, <1>5, <1>6 DEF Next, queueForIdleConnNone

LEMMA CountInvariant ==
  ASSUME ~HTTP2
  PROVE  Spec => [](CountInv /\ NoUnderflow)
<1>1. Init => CountInv /\ NoUnderflow
  <2> SUFFICES ASSUME Init PROVE CountInv /\ NoUnderflow
    OBVIOUS
  <2>1. \A k \in Keys : Opened(k) = {} /\ Dials(k) = {} /\ connsPerHost[k] = 0
    BY DEF Init, Opened, Dials
  <2>2. IsFiniteSet({}) /\ Cardinality({}) = 0
    BY FS_EmptySet
  <2>3. CountInv
    BY <2>1, <2>2 DEF CountInv
  <2>4. NoUnderflow
    BY DEF NoUnderflow, Init
  <2> QED BY <2>3, <2>4
<1>2. TypeOK /\ CallsInv /\ NoneShared /\ (CountInv /\ NoUnderflow) /\ [Next]_vars
        => (CountInv /\ NoUnderflow)'
  <2>1. ASSUME TypeOK, CallsInv, NoneShared, CountInv, NoUnderflow, Next
        PROVE  CountInv' /\ NoUnderflow'
    <3>1. CASE MaxConnsPerHost > 0
      BY <2>1, <3>1, CountNext DEF NoUnderflow, CallsInv
    <3>2. CASE ~(MaxConnsPerHost > 0)
      <4>1. CountInv'
        BY <3>2 DEF CountInv
      <4>2. MaxConnsPerHost = 0
        BY <3>2, PoolAssumption
      <4>3. underflow' = underflow
        BY <2>1, <4>2, UnlimitedCount
      <4> QED BY <2>1, <4>1, <4>3 DEF NoUnderflow
    <3> QED BY <3>1, <3>2
  <2>2. ASSUME CountInv, NoUnderflow, UNCHANGED vars PROVE CountInv' /\ NoUnderflow'
    BY <2>2, CountSame DEF vars, NoUnderflow
  <2> QED BY <2>1, <2>2
<1> QED BY <1>1, <1>2, TypeCorrect, CallsInvariant, NoneSharedHolds, PTL DEF Spec

(* connsPerHost never underflows in an HTTP/1 pool: the panic of           *)
(* decConnsPerHost, "Shouldn't happen", does not.                          *)
THEOREM NoUnderflowHolds == ~HTTP2 => (Spec => []NoUnderflow)
<1> SUFFICES ASSUME ~HTTP2 PROVE Spec => []NoUnderflow
  OBVIOUS
<1> QED BY CountInvariant, PTL

-----------------------------------------------------------------------------
(* What a step does to one connection.                                     *)

(* A connection is dialed once and closed once. *)
LEMMA ConnMoves ==
  ASSUME TypeOK, Next, NEW c \in Conns
  PROVE  \/ conn'[c] = conn[c]
         \/ conn[c] = "unborn" /\ conn'[c] = "open"
         \/ conn[c] = "open" /\ conn'[c] = "closed"
<1> DEFINE Goal == \/ conn'[c] = conn[c]
                   \/ conn[c] = "unborn" /\ conn'[c] = "open"
                   \/ conn[c] = "open" /\ conn'[c] = "closed"
<1>1. ASSUME NEW d \in Conns, NEW r, closeLocked(d, r) PROVE Goal
  BY <1>1 DEF closeLocked, TypeOK
<1>2. ASSUME NEW w \in Wants, NEW d \in Conns, NEW h2, dialConnForOk(w, d, h2) PROVE Goal
  BY <1>2 DEF dialConnForOk, TypeOK
<1>3. ASSUME NEW w \in Wants,
             \/ queueForIdleConnTake(w) \/ queueForIdleConnWait(w)
             \/ queueForIdleConnDisabled(w) \/ getConnCancel(w) \/ UseStep(w)
      PROVE  conn' = conn
  BY <1>3 DEF queueForIdleConnTake, queueForIdleConnWait, queueForIdleConnDisabled, getConnCancel,
     UseStep, roundTripCanceled, readLoopPut, roundTripLost, altRoundTrip, noCachedConn,
     noCachedConnDec, connVars
<1>4. ASSUME NEW w \in Wants, GetConnStep(w) PROVE Goal
  BY <1>2, <1>4 DEF GetConnStep, queueForDialNow, queueForDialWait, getConnReady, dialConnForErr,
     dialConnForDec, connVars
<1>5. ASSUME NEW p \in Putters, PutStep(p) PROVE Goal
  <2>1. CASE tryPutIdleConnAdd(p)
    <3>1. put[p].c \in Conns
      BY <2>1 DEF tryPutIdleConnAdd, TypeOK
    <3>2. Last(<<put[p].c>> \o idleLRU) \in Conns
      BY <3>1, OldestIsConn
    <3>3. conn' = conn \/ closeLocked(Last(<<put[p].c>> \o idleLRU), res')
      BY <2>1 DEF tryPutIdleConnAdd
    <3> QED BY <1>1, <3>2, <3>3
  <2>2. CASE putOrCloseIdleConnClose(p)
    <3>1. put[p].c \in Conns /\ closeLocked(put[p].c, res)
      BY <2>2 DEF putOrCloseIdleConnClose, TypeOK
    <3> QED BY <1>1, <3>1
  <2> QED BY <1>5, <2>1, <2>2 DEF PutStep, tryPutIdleConnCheck, tryPutIdleConnShared,
      tryPutIdleConnDeliver, tryPutIdleConnRefuse, connVars
<1>6. ASSUME NEW d \in Conns, CloseStep(d) \/ persistConnClose(d) \/ idleTimer(d) PROVE Goal
  <2>1. conn' = conn \/ closeLocked(d, res)
    BY <1>6 DEF CloseStep, readLoopExit, closeTaken, closeConnIfStillIdle, persistConnClose,
       idleTimer, connVars
  <2> QED BY <1>1, <2>1
<1>7. CASE CloseIdleConnections
  BY <1>7 DEF CloseIdleConnections, connVars
<1> QED BY <1>3, <1>4, <1>5, <1>6, <1>7 DEF Next, queueForIdleConnNone
=============================================================================
