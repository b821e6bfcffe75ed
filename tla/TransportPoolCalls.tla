------------------------- MODULE TransportPoolCalls -------------------------
(***************************************************************************)
(* The calls of getConn: each stands in connsPerHostWait at most once and  *)
(* without a dial, and every goroutine gives one connection back at a      *)
(* time.                                                                   *)
(***************************************************************************)
EXTENDS TransportPoolSafety

-----------------------------------------------------------------------------
(* cleanFront and pushBack bring nobody but w in, and a call that is not   *)
(* in the queue comes in once.                                             *)
LEMMA CleanAndPushFrom ==
  ASSUME NEW q \in Seq(Wants), NEW w \in Wants
  PROVE  LET u == CleanAndPush(q, w) IN
         /\ \A i \in 1..Len(u) : u[i] = w \/ \E j \in 1..Len(q) : u[i] = q[j]
         /\ (\A i \in 1..Len(q) : q[i] # w) /\ (\A i, j \in 1..Len(q) : q[i] = q[j] => i = j)
              => \A i, j \in 1..Len(u) : u[i] = u[j] => i = j
<1> DEFINE f == FirstWaiting(q, res)
           t == PopThrough(q, f - 1)
           u == CleanAndPush(q, w)
<1>1. CASE f = 0
  <2>1. u = <<w>>
    BY <1>1 DEF CleanAndPush
  <2> HIDE DEF u
  <2>2. Len(u) = 1 /\ u[1] = w
    BY <2>1
  <2> QED BY <2>2 DEF u
<1>2. CASE f # 0
  <2>1. f \in 1..Len(q)
    BY <1>2, FirstWaitingProps
  <2> HIDE DEF f
  <2> DEFINE n == f - 1
  <2>2. /\ t \in Seq(Wants) /\ Len(t) = Len(q) - n
        /\ \A i \in 1..Len(t) : t[i] = q[n + i]
    <3>1. n \in 0..Len(q)
      BY <2>1
    <3>2. t = PopThrough(q, n)
      OBVIOUS
    <3> HIDE DEF t, n
    <3>3. /\ t \in Seq(Wants) /\ Len(t) = Len(q) - n
          /\ \A i \in 1..(Len(q) - n) : t[i] = q[n + i]
      BY <3>1, <3>2, PopThroughProps, ZenonT(60)
    <3> QED BY <3>3
  <2>3. u = Append(t, w)
    BY <1>2 DEF CleanAndPush, f
  <2> HIDE DEF t, u
  <2>4. /\ Len(u) = Len(t) + 1 /\ u[Len(t) + 1] = w
        /\ \A i \in 1..Len(t) : u[i] = t[i]
    BY <2>2, <2>3
  <2>5. \A i \in 1..Len(t) : n + i \in 1..Len(q) /\ u[i] = q[n + i]
    BY <2>1, <2>2, <2>4
  <2>6. \A i \in 1..Len(u) : i = Len(t) + 1 \/ i \in 1..Len(t)
    BY <2>2, <2>4
  <2>7. \A i \in 1..Len(u) : u[i] = w \/ \E j \in 1..Len(q) : u[i] = q[j]
    BY <2>4, <2>5, <2>6
  <2>8. ASSUME \A i \in 1..Len(q) : q[i] # w, \A i, j \in 1..Len(q) : q[i] = q[j] => i = j,
               NEW i \in 1..Len(u), NEW j \in 1..Len(u), u[i] = u[j]
        PROVE  i = j
    <3> HIDE DEF n
    <3>1. n \in Nat
      BY <2>1 DEF n
    <3>2. \A k \in 1..Len(t) : u[k] # w
      BY <2>5, <2>8
    <3>3. CASE i \in 1..Len(t) /\ j \in 1..Len(t)
      <4>1. n + i = n + j
        BY <2>5, <2>8, <3>3, ZenonT(60)
      <4> QED BY <3>1, <4>1
    <3> QED BY <2>4, <2>6, <2>8, <3>2, <3>3
  <2> QED BY <2>7, <2>8 DEF u
<1> QED BY <1>1, <1>2

(* decConnsPerHost gives a dial to a call that stands in the queue, and    *)
(* takes it out.                                                           *)
LEMMA QueuedDec ==
  ASSUME TypeOK, QueuedOnce, NEW k \in Keys, NEW r,
         NEW d \in [Wants -> {"no", "dialing", "failed", "over"}],
         \A v \in Wants : dial[v] = "no" => d[v] = "no",
         \A v \in Wants : wpc[v] = "new" => res'[v] = NoConn,
         \A v \in Wants : wpc'[v] \in {"new", "queue"} => wpc'[v] = wpc[v],
         decConnsPerHost(k, d, r)
  PROVE  /\ QueuedOnce'
         /\ \A v \in Wants : dial'[v] = d[v] \/ (dial[v] = "no" /\ dial'[v] = "dialing")
<1> DEFINE q == connsPerHostWait[k]
           f == FirstWaiting(q, r)
<1>1. q \in Seq(Wants) /\ connsPerHostWait \in [Keys -> Seq(Wants)]
  BY DEF TypeOK
<1>2. CASE dial' = d /\ connsPerHostWait' = connsPerHostWait
  <2>1. \A j \in Keys : \A i \in 1..Len(connsPerHostWait[j]) :
          connsPerHostWait[j][i] \in Wants
    BY <1>1
  <2> QED BY <1>2, <2>1 DEF QueuedOnce
<1>3. CASE dial' = d /\ connsPerHostWait' = [connsPerHostWait EXCEPT ![k] = <<>>]
  <2>1. \A j \in Keys : connsPerHostWait'[j] = IF j = k THEN <<>> ELSE connsPerHostWait[j]
    BY <1>1, <1>3
  <2>2. \A j \in Keys : \A i \in 1..Len(connsPerHostWait'[j]) :
           j # k /\ connsPerHostWait'[j] = connsPerHostWait[j]
    BY <2>1
  <2>3. \A j \in Keys : \A i \in 1..Len(connsPerHostWait[j]) :
          connsPerHostWait[j][i] \in Wants
    BY <1>1
  <2> QED BY <1>3, <2>2, <2>3 DEF QueuedOnce
<1>4. CASE /\ f # 0 /\ dial' = [d EXCEPT ![q[f]] = "dialing"]
           /\ connsPerHostWait' = [connsPerHostWait EXCEPT ![k] = PopThrough(q, f)]
  <2>1. f \in 1..Len(q)
    BY <1>1, <1>4, FirstWaitingProps
  <2> HIDE DEF f
  <2> DEFINE t == PopThrough(q, f)
             x == q[f]
  <2>2. /\ t \in Seq(Wants) /\ Len(t) = Len(q) - f
        /\ \A i \in 1..Len(t) : t[i] = q[f + i]
    <3>1. f \in 0..Len(q)
      BY <2>1
    <3> QED BY <1>1, <3>1, PopThroughProps
  <2> HIDE DEF t
  <2>3. \A i \in 1..Len(t) : f + i \in 1..Len(q) /\ f + i # f
    BY <1>1, <2>1, <2>2
  <2>4. /\ x \in Wants /\ WKey[x] = k /\ wpc[x] \notin {"new", "queue"} /\ dial[x] = "no"
    BY <1>1, <2>1 DEF QueuedOnce
  <2>5. \A i \in 1..Len(t) : t[i] # x /\ t[i] \in Wants
    BY <2>1, <2>2, <2>3 DEF QueuedOnce
  <2>6. \A j \in Keys : connsPerHostWait'[j] = IF j = k THEN t ELSE connsPerHostWait[j]
    BY <1>1, <1>4 DEF t
  <2>7. \A j \in Keys : j # k => \A i \in 1..Len(connsPerHostWait[j]) :
          connsPerHostWait[j][i] # x /\ connsPerHostWait[j][i] \in Wants
    BY <1>1, <2>4 DEF QueuedOnce
  <2>8. /\ \A v \in Wants : v # x => dial'[v] = d[v]
        /\ dial'[x] = "dialing"
    BY <1>4, <2>4 DEF t
  <2>9. ASSUME NEW j \in Keys, NEW i \in 1..Len(connsPerHostWait'[j])
        PROVE  LET w == connsPerHostWait'[j][i]
               IN  WKey[w] = j /\ wpc'[w] \notin {"new", "queue"} /\ dial'[w] = "no"
    <3>1. CASE j = k
      <4>1. connsPerHostWait'[j][i] = t[i] /\ i \in 1..Len(t)
        BY <2>6, <3>1
      <4>2. t[i] = q[f + i] /\ f + i \in 1..Len(q)
        BY <2>2, <2>3, <4>1
      <4>3. WKey[t[i]] = k /\ wpc[t[i]] \notin {"new", "queue"} /\ dial[t[i]] = "no"
        BY <4>2 DEF QueuedOnce
      <4> QED BY <2>5, <2>8, <3>1, <4>1, <4>3
    <3>2. CASE j # k
      <4>1. connsPerHostWait'[j] = connsPerHostWait[j]
        BY <2>6, <3>2
      <4> QED BY <2>7, <2>8, <3>2, <4>1 DEF QueuedOnce
    <3> QED BY <3>1, <3>2
  <2>10. ASSUME NEW j \in Keys, NEW a \in 1..Len(connsPerHostWait'[j]),
                NEW b \in 1..Len(connsPerHostWait'[j]),
                connsPerHostWait'[j][a] = connsPerHostWait'[j][b]
         PROVE  a = b
    <3>1. CASE j = k
      <4>1. connsPerHostWait'[j] = t
        BY <2>6, <3>1
      <4>2. q[f + a] = q[f + b] /\ f + a \in 1..Len(q) /\ f + b \in 1..Len(q)
        BY <2>2, <2>3, <2>10, <4>1
      <4>3. f + a = f + b
        BY <4>2 DEF QueuedOnce
      <4> QED BY <2>1, <4>3
    <3>2. CASE j # k
      BY <2>6, <2>10, <3>2 DEF QueuedOnce
    <3> QED BY <3>1, <3>2
  <2>11. ASSUME NEW v \in Wants
         PROVE  /\ wpc'[v] = "new" => res'[v] = NoConn
                /\ wpc'[v] \in {"new", "queue"} => dial'[v] = "no"
    BY <2>4, <2>8 DEF QueuedOnce
  <2>12. \A v \in Wants : dial'[v] = d[v] \/ (dial[v] = "no" /\ dial'[v] = "dialing")
    BY <2>4, <2>8
  <2> QED BY <2>9, <2>10, <2>11, <2>12 DEF QueuedOnce
<1> QED BY <1>2, <1>3, <1>4 DEF decConnsPerHost, hostVars

(* Everybody to whom tryPutIdleConn delivers stands in idleConnWait. *)
LEMMA DeliveryFrom ==
  ASSUME TypeOK, NEW c \in Conns, NEW w \in delivery(c).to
  PROVE  Contains(idleConnWait[ckey[c]], w)
<1> DEFINE q == idleConnWait[ckey[c]]
           f == FirstWaiting(q, res)
<1>1. q \in Seq(Wants)
  BY DEF TypeOK
<1>2. CASE c \in alt
  <2>1. w \in Range(q)
    BY <1>2 DEF delivery
  <2> HIDE DEF q
  <2>2. \E i \in DOMAIN q : q[i] = w
    BY <2>1, Zenon DEF Range
  <2> QED BY <1>1, <2>2 DEF Contains, q
<1>3. CASE c \notin alt
  <2>1. f # 0 /\ w = q[f]
    BY <1>3 DEF delivery
  <2>2. f \in 1..Len(q)
    BY <1>1, <2>1, FirstWaitingProps
  <2> QED BY <2>1, <2>2 DEF Contains
<1> QED BY <1>2, <1>3

-----------------------------------------------------------------------------
(* A call is queued once and every goroutine gives back one connection at  *)
(* a time: an invariant of its own.                                        *)
CallsInv == QueuedOnce /\ PuttersFree

LEMMA PuttersDiffer ==
  \A w, v \in Wants :
    /\ Caller(w) # Dialer(v)
    /\ Caller(w) = Caller(v) => w = v
    /\ Dialer(w) = Dialer(v) => w = v
    /\ \A c \in Conns : Caller(w) # ReadLoop(c) /\ Dialer(w) # ReadLoop(c)
BY DEF Caller, Dialer, ReadLoop

(* The LRU that tryPutIdleConn makes, before and after its eviction. *)
LEMMA OldestIsConn ==
  ASSUME TypeOK, NEW d \in Conns
  PROVE  LET lru == <<d>> \o idleLRU
         IN  /\ lru \in Seq(Conns) /\ Len(lru) = 1 + Len(idleLRU) /\ Len(idleLRU) \in Nat
             /\ lru[1] = d /\ \A i \in 1..Len(idleLRU) : lru[i + 1] = idleLRU[i]
             /\ \A i \in 1..Len(lru) : i # 1 => i - 1 \in 1..Len(idleLRU) /\ lru[i] = idleLRU[i - 1]
             /\ Last(lru) = lru[Len(lru)] /\ Last(lru) \in Conns
             /\ Front(lru) \in Seq(Conns) /\ Len(Front(lru)) = Len(idleLRU)
             /\ \A i \in 1..Len(idleLRU) : Front(lru)[i] = lru[i]
<1> DEFINE lru == <<d>> \o idleLRU
<1>1. <<d>> \in Seq(Conns) /\ Len(<<d>>) = 1 /\ <<d>>[1] = d
  OBVIOUS
<1>2. idleLRU \in Seq(Conns) /\ Len(idleLRU) \in Nat
  BY DEF TypeOK
<1>3. lru \in Seq(Conns) /\ Len(lru) = 1 + Len(idleLRU)
  BY <1>1, <1>2
<1>4. lru[1] = d /\ \A i \in 1..Len(idleLRU) : lru[i + 1] = idleLRU[i]
  BY <1>1, <1>2
<1> HIDE DEF lru
<1>5. \A i \in 1..Len(lru) : i # 1 => i - 1 \in 1..Len(idleLRU) /\ lru[i] = idleLRU[i - 1]
  <2> SUFFICES ASSUME NEW i \in 1..Len(lru), i # 1
               PROVE  i - 1 \in 1..Len(idleLRU) /\ lru[i] = idleLRU[i - 1]
    OBVIOUS
  <2>1. i - 1 \in 1..Len(idleLRU) /\ (i - 1) + 1 = i
    BY <1>2, <1>3
  <2> QED BY <1>4, <2>1
<1>6. Last(lru) = lru[Len(lru)]
  BY DEF Last
<1>7. Last(lru) \in Conns
  BY <1>2, <1>3, <1>6
<1>8. Front(lru) = SubSeq(lru, 1, Len(lru) - 1) /\ Len(lru) - 1 = Len(idleLRU)
  BY <1>2, <1>3 DEF Front
<1>9. /\ Front(lru) \in Seq(Conns) /\ Len(Front(lru)) = Len(idleLRU)
      /\ \A i \in 1..Len(idleLRU) : Front(lru)[i] = lru[i]
  BY <1>2, <1>3, <1>8
<1> QED BY <1>2, <1>3, <1>4, <1>5, <1>6, <1>7, <1>9 DEF lru

(* What keeps QueuedOnce where the dials and their queue do not change. *)
LEMMA QueuedMoves ==
  ASSUME TypeOK, QueuedOnce, UNCHANGED connsPerHostWait,
         \A v \in Wants : wpc'[v] = "new" => wpc[v] = "new" /\ res'[v] = NoConn,
         \A v \in Wants : wpc'[v] = "queue" => wpc[v] \in {"new", "queue"},
         \A v \in Wants : dial[v] = "no" => dial'[v] = "no"
  PROVE  QueuedOnce'
<1>1. \A k \in Keys : \A i \in 1..Len(connsPerHostWait[k]) : connsPerHostWait[k][i] \in Wants
  BY DEF TypeOK
<1> QED BY <1>1 DEF QueuedOnce

(* Who waits for a dial is past queueForDial. *)
LEMMA QueuedPast ==
  ASSUME TypeOK, QueuedOnce
  PROVE  \A k \in Keys : \A i \in 1..Len(connsPerHostWait[k]) :
            connsPerHostWait[k][i] \in Wants /\ wpc[connsPerHostWait[k][i]] # "queue"
<1>1. \A k \in Keys : \A i \in 1..Len(connsPerHostWait[k]) : connsPerHostWait[k][i] \in Wants
  BY DEF TypeOK
<1> QED BY <1>1 DEF QueuedOnce

(* The same for a step of one call. *)
LEMMA QueuedCall ==
  ASSUME TypeOK, QueuedOnce, NEW w \in Wants, UNCHANGED <<dial, connsPerHostWait>>,
         \A v \in Wants : v # w => wpc'[v] = wpc[v] /\ res'[v] = res[v],
         wpc'[w] # "new", wpc'[w] = "queue" => wpc[w] = "new"
  PROVE  QueuedOnce'
<1>1. \A v \in Wants : wpc'[v] = "new" => wpc[v] = "new" /\ res'[v] = NoConn
  BY DEF QueuedOnce
<1>2. \A v \in Wants : wpc'[v] = "queue" => wpc[v] \in {"new", "queue"}
  OBVIOUS
<1> QED BY <1>1, <1>2, QueuedMoves

(* A step of a putter on its own record. *)
LEMMA PuttersMove ==
  ASSUME TypeOK, PuttersFree, NEW p \in Putters, put[p] # NoPut, NEW x,
         put' = [put EXCEPT ![p] = x], UNCHANGED wpc,
         \A v \in Wants : dial[v] = "over" => dial'[v] = "over"
  PROVE  \A w \in Wants : /\ wpc'[w] # "done" => put'[Caller(w)] = NoPut
                          /\ dial'[w] # "over" => put'[Dialer(w)] = NoPut
<1> TAKE w \in Wants
<1>1. Caller(w) \in Putters /\ Dialer(w) \in Putters
  BY PuttersType
<1>2. \A q \in Putters : q # p => put'[q] = put[q]
  BY DEF TypeOK
<1> QED BY <1>1, <1>2 DEF PuttersFree

LEMMA WaitersStarted ==
  ASSUME TypeOK, PuttersFree, NEW c \in Conns, deliver(c), UNCHANGED wpc
  PROVE  /\ \A v \in Wants : wpc[v] = "new" => res'[v] = res[v]
         /\ \A k \in Keys : \A i \in 1..Len(idleConnWait'[k]) : wpc'[idleConnWait'[k][i]] # "new"
<1>1. \A k \in Keys : \A v : Contains(idleConnWait[k], v) => wpc[v] # "new"
  BY DEF PuttersFree, Contains
<1>2. ckey[c] \in Keys
  BY DEF TypeOK
<1>3. \A v \in delivery(c).to : wpc[v] # "new"
  BY <1>1, <1>2, DeliveryFrom
<1>4. \A k \in Keys : \A v : Contains(idleConnWait'[k], v) => Contains(idleConnWait[k], v)
  BY <1>2, DeliveryRest, ZenonT(60) DEF deliver, TypeOK
<1>5. \A k \in Keys : \A i \in 1..Len(idleConnWait'[k]) :
         Contains(idleConnWait'[k], idleConnWait'[k][i])
  BY DEF Contains
<1>6. \A v \in Wants : wpc[v] = "new" => res'[v] = res[v]
  BY <1>3 DEF deliver
<1> QED BY <1>1, <1>4, <1>5, <1>6, ZenonT(60)

LEMMA QueuedClose ==
  ASSUME TypeOK, QueuedOnce, NEW c \in Conns, NEW r, closeLocked(c, r), UNCHANGED wpc,
         \A v \in Wants : wpc[v] = "new" => res'[v] = NoConn
  PROVE  QueuedOnce' /\ \A v \in Wants : dial[v] = "over" => dial'[v] = "over"
<1>1. CASE conn[c] = "open"
  <2>1. decConnsPerHost(ckey[c], dial, r) /\ ckey[c] \in Keys
    BY <1>1 DEF closeLocked, TypeOK
  <2>2. dial \in [Wants -> {"no", "dialing", "failed", "over"}]
    BY DEF TypeOK
  <2> QED BY <2>1, <2>2, QueuedDec
<1>2. CASE conn[c] # "open"
  <2>1. UNCHANGED <<dial, connsPerHostWait>>
    BY <1>2 DEF closeLocked, hostVars
  <2>2. QueuedOnce'
    BY <2>1, QueuedMoves
  <2> QED BY <2>1, <2>2
<1> QED BY <1>1, <1>2

LEMMA CallsGetConn ==
  ASSUME TypeOK, CallsInv, NEW w \in Wants,
         \/ queueForIdleConnTake(w) \/ queueForIdleConnWait(w)
         \/ queueForIdleConnDisabled(w) \/ getConnCancel(w) \/ GetConnStep(w)
  PROVE  CallsInv'
<1>0. QueuedOnce /\ PuttersFree /\ Caller(w) \in Putters /\ Dialer(w) \in Putters
  BY PuttersType DEF CallsInv
<1>1. CASE queueForIdleConnTake(w)
  <2>1. /\ wpc[w] = "new" /\ wpc' = [wpc EXCEPT ![w] = "got"] /\ \E x : res' = tryDeliver(w, x)
        /\ UNCHANGED <<dial, put, idleConnWait, connsPerHostWait>>
    BY <1>1 DEF queueForIdleConnTake, hostVars
  <2>2. QueuedOnce'
    <3>1. (\A v \in Wants : v # w => wpc'[v] = wpc[v] /\ res'[v] = res[v]) /\ wpc'[w] = "got"
      BY <2>1 DEF tryDeliver, TypeOK
    <3> QED BY <1>0, <2>1, <3>1, QueuedCall
  <2>3. PuttersFree'
    BY <1>0, <2>1 DEF PuttersFree, TypeOK
  <2> QED BY <2>2, <2>3 DEF CallsInv
<1>2. CASE queueForIdleConnWait(w) \/ queueForIdleConnDisabled(w)
  <2>1. /\ wpc[w] = "new" /\ wpc' = [wpc EXCEPT ![w] = "queue"]
        /\ UNCHANGED <<res, dial, put, connsPerHostWait>>
        /\ \/ idleConnWait' = idleConnWait
           \/ idleConnWait' = [idleConnWait EXCEPT ![WKey[w]] = CleanAndPush(@, w)]
    BY <1>2 DEF queueForIdleConnWait, queueForIdleConnDisabled, hostVars, idleVars
  <2>2. QueuedOnce'
    <3>1. \A v \in Wants : v # w => wpc'[v] = wpc[v] /\ res'[v] = res[v]
      BY <2>1 DEF TypeOK
    <3>2. wpc'[w] # "new" /\ (wpc'[w] = "queue" => wpc[w] = "new")
      BY <2>1 DEF TypeOK
    <3> QED BY <1>0, <2>1, <3>1, <3>2, QueuedCall
  <2>3. \A v \in Wants : /\ wpc'[v] # "done" => put'[Caller(v)] = NoPut
                         /\ dial'[v] # "over" => put'[Dialer(v)] = NoPut
    BY <1>0, <2>1 DEF PuttersFree, TypeOK
  <2>4. ASSUME NEW k \in Keys, NEW i \in 1..Len(idleConnWait'[k])
        PROVE  wpc'[idleConnWait'[k][i]] # "new"
    <3>1. idleConnWait[k] \in Seq(Wants) /\ \A j \in 1..Len(idleConnWait[k]) :
             idleConnWait[k][j] \in Wants /\ wpc[idleConnWait[k][j]] # "new"
      BY <1>0 DEF TypeOK, PuttersFree
    <3>2. idleConnWait'[k][i] = w \/ \E j \in 1..Len(idleConnWait[k]) :
             idleConnWait'[k][i] = idleConnWait[k][j]
      <4>1. idleConnWait'[k] \in {idleConnWait[k], CleanAndPush(idleConnWait[k], w)}
        BY <2>1 DEF TypeOK
      <4>2. \A j \in 1..Len(CleanAndPush(idleConnWait[k], w)) :
              \/ CleanAndPush(idleConnWait[k], w)[j] = w
              \/ \E n \in 1..Len(idleConnWait[k]) :
                   CleanAndPush(idleConnWait[k], w)[j] = idleConnWait[k][n]
        BY <3>1, CleanAndPushFrom
      <4> QED BY <4>1, <4>2
    <3> QED BY <2>1, <3>1, <3>2, ZenonT(60) DEF TypeOK
  <2> QED BY <2>2, <2>3, <2>4 DEF CallsInv, PuttersFree
<1>3. CASE getConnCancel(w)
  <2>1. /\ wpc[w] = "select" /\ wpc' = [wpc EXCEPT ![w] = "done"]
        /\ res' = [res EXCEPT ![w] = Err]
        /\ put' = cancelGivesBack(w, res[w])
        /\ UNCHANGED <<dial, idleConnWait, connsPerHostWait>>
    BY <1>3 DEF getConnCancel, hostVars, idleVars
  <2>2. QueuedOnce'
    <3>1. \A v \in Wants : v # w => wpc'[v] = wpc[v] /\ res'[v] = res[v]
      BY <2>1 DEF TypeOK
    <3>2. wpc'[w] # "new" /\ (wpc'[w] = "queue" => wpc[w] = "new")
      BY <2>1 DEF TypeOK
    <3> QED BY <1>0, <2>1, <3>1, <3>2, QueuedCall
  <2>3. \A q \in Putters : q # Caller(w) => put'[q] = put[q]
    BY <2>1 DEF cancelGivesBack, TypeOK
  <2>4. \A v \in Wants : /\ wpc'[v] # "done" => put'[Caller(v)] = NoPut
                         /\ dial'[v] # "over" => put'[Dialer(v)] = NoPut
    <3> TAKE v \in Wants
    <3>1. Caller(v) \in Putters /\ Dialer(v) \in Putters
      BY PuttersType
    <3>2. wpc'[w] = "done" /\ (v # w => wpc'[v] = wpc[v])
      BY <2>1 DEF TypeOK
    <3>3. put'[Dialer(v)] = put[Dialer(v)] /\ (v # w => put'[Caller(v)] = put[Caller(v)])
      BY <2>3, <3>1, PuttersDiffer
    <3> QED BY <1>0, <2>1, <3>2, <3>3 DEF PuttersFree
  <2>5. \A k \in Keys : \A i \in 1..Len(idleConnWait'[k]) : wpc'[idleConnWait'[k][i]] # "new"
    <3>1. \A k \in Keys : \A i \in 1..Len(idleConnWait[k]) : idleConnWait[k][i] \in Wants
      BY DEF TypeOK
    <3> QED BY <1>0, <2>1, <3>1 DEF PuttersFree, TypeOK
  <2>6. PuttersFree'
    BY <2>4, <2>5 DEF PuttersFree
  <2> QED BY <2>2, <2>6 DEF CallsInv
<1>4. CASE queueForDialNow(w)
  <2>1. /\ wpc[w] = "queue" /\ wpc' = [wpc EXCEPT ![w] = "select"]
        /\ dial' = [dial EXCEPT ![w] = "dialing"]
        /\ UNCHANGED <<res, put, idleConnWait, connsPerHostWait>>
    BY <1>4 DEF queueForDialNow, hostVars, idleVars
  <2>2. \A k \in Keys : \A i \in 1..Len(connsPerHostWait[k]) :
           connsPerHostWait[k][i] \in Wants /\ connsPerHostWait[k][i] # w
    BY <1>0, <2>1, QueuedPast
  <2>3. QueuedOnce'
    <3>1. /\ \A v \in Wants : v # w => wpc'[v] = wpc[v] /\ dial'[v] = dial[v]
          /\ wpc'[w] = "select"
      BY <2>1 DEF TypeOK
    <3>2. \A v \in Wants : /\ wpc'[v] = "new" => res'[v] = NoConn
                           /\ wpc'[v] \in {"new", "queue"} => dial'[v] = "no"
      BY <1>0, <2>1, <3>1 DEF QueuedOnce
    <3> QED BY <1>0, <2>1, <2>2, <3>1, <3>2 DEF QueuedOnce
  <2>4. \A k \in Keys : \A i \in 1..Len(idleConnWait[k]) : idleConnWait[k][i] \in Wants
    BY DEF TypeOK
  <2>5. dial[w] = "no"
    BY <1>0, <2>1 DEF QueuedOnce
  <2>6. PuttersFree'
    BY <1>0, <2>1, <2>4, <2>5 DEF PuttersFree, TypeOK
  <2> QED BY <2>3, <2>6 DEF CallsInv
<1>5. CASE queueForDialWait(w)
  <2> DEFINE k == WKey[w]
             u == CleanAndPush(connsPerHostWait[k], w)
  <2>1. /\ wpc[w] = "queue" /\ wpc' = [wpc EXCEPT ![w] = "select"]
        /\ connsPerHostWait' = [connsPerHostWait EXCEPT ![k] = u]
        /\ UNCHANGED <<res, dial, put, idleConnWait>>
    BY <1>5 DEF queueForDialWait, hostVars, idleVars
  <2>2. \A j \in Keys : \A i \in 1..Len(connsPerHostWait[j]) :
           connsPerHostWait[j][i] \in Wants /\ connsPerHostWait[j][i] # w
    BY <1>0, <2>1, QueuedPast
  <2>3. k \in Keys /\ connsPerHostWait[k] \in Seq(Wants) /\ dial[w] = "no"
    <3>1. k \in Keys
      BY PoolAssumption
    <3> QED BY <1>0, <2>1, <3>1 DEF QueuedOnce, TypeOK
  <2>4. /\ \A i \in 1..Len(u) : u[i] = w \/ \E j \in 1..Len(connsPerHostWait[k]) :
              u[i] = connsPerHostWait[k][j]
        /\ \A i, j \in 1..Len(u) : u[i] = u[j] => i = j
    <3>1. \A i, j \in 1..Len(connsPerHostWait[k]) :
             connsPerHostWait[k][i] = connsPerHostWait[k][j] => i = j
      BY <1>0, <2>3 DEF QueuedOnce
    <3> HIDE DEF k
    <3> QED BY <2>2, <2>3, <3>1, CleanAndPushFrom
  <2> HIDE DEF u
  <2>5. \A j \in Keys : connsPerHostWait'[j] = IF j = k THEN u ELSE connsPerHostWait[j]
    BY <2>1, <2>3 DEF TypeOK
  <2>6. \A v \in Wants : v # w => wpc'[v] = wpc[v]
    BY <2>1 DEF TypeOK
  <2>7. wpc'[w] = "select"
    BY <2>1 DEF TypeOK
  <2>8. ASSUME NEW j \in Keys, NEW i \in 1..Len(connsPerHostWait'[j])
        PROVE  LET v == connsPerHostWait'[j][i]
               IN  WKey[v] = j /\ wpc'[v] \notin {"new", "queue"} /\ dial'[v] = "no"
    <3>1. \/ j = k /\ connsPerHostWait'[j][i] = w
          \/ \E n \in 1..Len(connsPerHostWait[j]) :
               connsPerHostWait'[j][i] = connsPerHostWait[j][n]
      BY <2>4, <2>5
    <3> QED BY <1>0, <2>1, <2>2, <2>3, <2>6, <2>7, <3>1 DEF QueuedOnce
  <2>9. \A j \in Keys : \A a, b \in 1..Len(connsPerHostWait'[j]) :
           connsPerHostWait'[j][a] = connsPerHostWait'[j][b] => a = b
    <3> SUFFICES ASSUME NEW j \in Keys
                 PROVE  \A a, b \in 1..Len(connsPerHostWait'[j]) :
                          connsPerHostWait'[j][a] = connsPerHostWait'[j][b] => a = b
      OBVIOUS
    <3>1. CASE j = k
      <4>1. connsPerHostWait'[j] = u
        BY <2>5, <3>1
      <4> QED
        BY <2>4, <4>1
    <3>2. CASE j # k
      <4>1. connsPerHostWait'[j] = connsPerHostWait[j]
        BY <2>5, <3>2
      <4>2. \A a, b \in 1..Len(connsPerHostWait[j]) :
               connsPerHostWait[j][a] = connsPerHostWait[j][b] => a = b
        BY <1>0 DEF QueuedOnce
      <4> QED
        BY <4>1, <4>2
    <3> QED
      BY <3>1, <3>2
  <2>10. QueuedOnce'
    <3>1. \A v \in Wants : /\ wpc'[v] = "new" => res'[v] = NoConn
                           /\ wpc'[v] \in {"new", "queue"} => dial'[v] = "no"
      BY <1>0, <2>1, <2>6, <2>7 DEF QueuedOnce
    <3> QED BY <2>8, <2>9, <3>1, ZenonT(60) DEF QueuedOnce
  <2>11. \A j \in Keys : \A i \in 1..Len(idleConnWait[j]) : idleConnWait[j][i] \in Wants
    BY DEF TypeOK
  <2>12. PuttersFree'
    BY <1>0, <2>1, <2>6, <2>7, <2>11 DEF PuttersFree
  <2> QED BY <2>10, <2>12 DEF CallsInv
<1>6. CASE getConnReady(w)
  <2>1. /\ wpc[w] = "select" /\ wpc' = [wpc EXCEPT ![w] = IF res[w] = Err THEN "done" ELSE "got"]
        /\ UNCHANGED <<res, dial, put, idleConnWait, connsPerHostWait>>
    BY <1>6 DEF getConnReady, hostVars, idleVars
  <2>2. QueuedOnce'
    <3>1. \A v \in Wants : v # w => wpc'[v] = wpc[v] /\ res'[v] = res[v]
      BY <2>1 DEF TypeOK
    <3>2. wpc'[w] # "new" /\ (wpc'[w] = "queue" => wpc[w] = "new")
      BY <2>1 DEF TypeOK
    <3> QED BY <1>0, <2>1, <3>1, <3>2, QueuedCall
  <2>3. \A j \in Keys : \A i \in 1..Len(idleConnWait[j]) : idleConnWait[j][i] \in Wants
    BY DEF TypeOK
  <2>4. PuttersFree'
    BY <1>0, <2>1, <2>3 DEF PuttersFree, TypeOK
  <2> QED BY <2>2, <2>4 DEF CallsInv
<1>7. ASSUME NEW c \in Conns, NEW h2 \in {FALSE, HTTP2}, dialConnForOk(w, c, h2)
      PROVE  CallsInv'
  <2>1. /\ dial[w] = "dialing" /\ dial' = [dial EXCEPT ![w] = "over"]
        /\ res' = tryDeliver(w, c)
        /\ UNCHANGED <<wpc, idleConnWait, connsPerHostWait>>
    BY <1>7 DEF dialConnForOk, hostVars, idleVars
  <2>2. wpc[w] # "new"
    BY <1>0, <2>1 DEF QueuedOnce
  <2>3. QueuedOnce'
    <3>1. \A v \in Wants : v # w => res'[v] = res[v] /\ dial'[v] = dial[v]
      BY <2>1 DEF TypeOK, tryDeliver
    <3>2. \A v \in Wants : wpc[v] = "new" => res[v] = NoConn
      BY <1>0 DEF QueuedOnce
    <3> QED BY <1>0, <2>1, <2>2, <3>1, <3>2, QueuedMoves
  <2>4. \A q \in Putters : q # Dialer(w) => put'[q] = put[q]
    BY <1>7 DEF dialConnForOk, TypeOK
  <2>5. \A v \in Wants : /\ wpc'[v] # "done" => put'[Caller(v)] = NoPut
                         /\ dial'[v] # "over" => put'[Dialer(v)] = NoPut
    <3> TAKE v \in Wants
    <3>1. Caller(v) \in Putters /\ Dialer(v) \in Putters
      BY PuttersType
    <3> QED BY <1>0, <2>1, <2>4, <3>1, PuttersDiffer DEF PuttersFree, TypeOK
  <2> QED BY <1>0, <2>1, <2>3, <2>5 DEF CallsInv, PuttersFree
<1>8. CASE dialConnForErr(w)
  <2>1. /\ dial[w] = "dialing" /\ dial' = [dial EXCEPT ![w] = "failed"]
        /\ res' = tryDeliver(w, Err)
        /\ UNCHANGED <<wpc, put, idleConnWait, connsPerHostWait>>
    BY <1>8 DEF dialConnForErr, hostVars, idleVars
  <2>2. wpc[w] # "new"
    BY <1>0, <2>1 DEF QueuedOnce
  <2>3. QueuedOnce'
    <3>1. \A v \in Wants : v # w => res'[v] = res[v] /\ dial'[v] = dial[v]
      BY <2>1 DEF TypeOK, tryDeliver
    <3>2. \A v \in Wants : wpc[v] = "new" => res[v] = NoConn
      BY <1>0 DEF QueuedOnce
    <3> QED BY <1>0, <2>1, <2>2, <3>1, <3>2, QueuedMoves
  <2> QED BY <1>0, <2>1, <2>3 DEF CallsInv, PuttersFree, TypeOK
<1>9. CASE dialConnForDec(w)
  <2> DEFINE d == [dial EXCEPT ![w] = "over"]
  <2>1. /\ dial[w] = "failed" /\ decConnsPerHost(WKey[w], d, res) /\ WKey[w] \in Keys
        /\ UNCHANGED <<wpc, res, put, idleConnWait>>
    BY <1>9, PoolAssumption DEF dialConnForDec, idleVars
  <2>2. /\ d \in [Wants -> {"no", "dialing", "failed", "over"}]
        /\ \A v \in Wants : dial[v] \in {"no", "over"} => d[v] = dial[v]
    BY <2>1 DEF TypeOK
  <2>3. \A v \in Wants : wpc[v] = "new" => res'[v] = NoConn
    BY <1>0, <2>1 DEF QueuedOnce
  <2> HIDE DEF d
  <2>4. QueuedOnce' /\ \A v \in Wants : dial[v] = "over" => dial'[v] = "over"
    BY <1>0, <2>1, <2>2, <2>3, QueuedDec
  <2> QED BY <1>0, <2>1, <2>4 DEF CallsInv, PuttersFree
<1> QED BY <1>1, <1>2, <1>3, <1>4, <1>5, <1>6, <1>7, <1>8, <1>9, ZenonT(60) DEF GetConnStep

LEMMA CallsPut ==
  ASSUME TypeOK, CallsInv, NEW p \in Putters, PutStep(p)
  PROVE  CallsInv'
<1> DEFINE c == put[p].c
<1>0. QueuedOnce /\ PuttersFree
  BY DEF CallsInv
<1>1. /\ put[p] # NoPut /\ c \in Conns /\ \E x : put' = [put EXCEPT ![p] = x]
      /\ UNCHANGED wpc
  <2>1. put[p].at # "no" /\ UNCHANGED wpc
    BY DEF PutStep, tryPutIdleConnCheck, tryPutIdleConnShared, tryPutIdleConnDeliver,
       tryPutIdleConnRefuse, tryPutIdleConnAdd, putOrCloseIdleConnClose
  <2>2. \E x : put' = [put EXCEPT ![p] = x]
    BY DEF PutStep, tryPutIdleConnCheck, tryPutIdleConnShared, tryPutIdleConnDeliver,
       tryPutIdleConnRefuse, tryPutIdleConnAdd, putOrCloseIdleConnClose
  <2>3. put[p] # NoPut
    BY <2>1 DEF NoPut
  <2>4. c \in Conns
    BY <2>1 DEF TypeOK
  <2> QED BY <2>1, <2>2, <2>3, <2>4, ZenonT(60)
<1>2. /\ \A v \in Wants : wpc[v] = "new" => res'[v] = NoConn
      /\ \A k \in Keys : \A i \in 1..Len(idleConnWait'[k]) : wpc'[idleConnWait'[k][i]] # "new"
  <2>1. UNCHANGED <<res, idleConnWait>> \/ deliver(c)
    BY DEF PutStep, tryPutIdleConnCheck, tryPutIdleConnShared, tryPutIdleConnDeliver,
       tryPutIdleConnRefuse, tryPutIdleConnAdd, putOrCloseIdleConnClose, idleVars
  <2>2. CASE UNCHANGED <<res, idleConnWait>>
    BY <1>0, <1>1, <2>2 DEF QueuedOnce, PuttersFree
  <2>3. CASE deliver(c)
    BY <1>0, <1>1, <2>3, WaitersStarted DEF QueuedOnce
  <2> QED BY <2>1, <2>2, <2>3
<1>3. QueuedOnce' /\ \A v \in Wants : dial[v] = "over" => dial'[v] = "over"
  <2>1. UNCHANGED <<dial, connsPerHostWait>> \/ \E d \in Conns : \E r : closeLocked(d, r)
    <3>1. CASE tryPutIdleConnAdd(p)
      <4>1. CASE UNCHANGED <<conn, dial, hostVars>>
        BY <4>1 DEF hostVars
      <4>2. CASE closeLocked(Last(<<c>> \o idleLRU), res')
        <5>1. Last(<<c>> \o idleLRU) \in Conns
          <6> DEFINE lru == <<c>> \o idleLRU
          <6>1. lru \in Seq(Conns) /\ Len(lru) = 1 + Len(idleLRU) /\ Len(idleLRU) \in Nat
            <7>1. <<c>> \in Seq(Conns) /\ Len(<<c>>) = 1 /\ idleLRU \in Seq(Conns)
              BY <1>1 DEF TypeOK
            <7> QED BY <7>1
          <6>2. Len(lru) \in 1..Len(lru)
            BY <6>1
          <6> HIDE DEF lru
          <6>3. Last(lru) \in Conns
            BY <6>1, <6>2 DEF Last
          <6> QED BY <6>3 DEF lru
        <5> QED BY <4>2, <5>1
      <4> QED BY <3>1, <4>1, <4>2 DEF tryPutIdleConnAdd
    <3>2. CASE putOrCloseIdleConnClose(p)
      BY <1>1, <3>2 DEF putOrCloseIdleConnClose
    <3> QED BY <3>1, <3>2 DEF PutStep, tryPutIdleConnCheck, tryPutIdleConnShared,
        tryPutIdleConnDeliver, tryPutIdleConnRefuse, hostVars
  <2>2. CASE UNCHANGED <<dial, connsPerHostWait>>
    BY <1>0, <1>1, <1>2, <2>2, QueuedMoves
  <2>3. ASSUME NEW d \in Conns, NEW r, closeLocked(d, r)
        PROVE  QueuedOnce' /\ \A v \in Wants : dial[v] = "over" => dial'[v] = "over"
    BY <1>0, <1>1, <1>2, <2>3, QueuedClose
  <2> QED BY <2>1, <2>2, <2>3
<1>4. \A w \in Wants : /\ wpc'[w] # "done" => put'[Caller(w)] = NoPut
                       /\ dial'[w] # "over" => put'[Dialer(w)] = NoPut
  <2> HIDE DEF c
  <2> QED BY <1>0, <1>1, <1>3, PuttersMove, ZenonT(60)
<1> QED BY <1>2, <1>3, <1>4 DEF CallsInv, PuttersFree

LEMMA CallsUse ==
  ASSUME TypeOK, CallsInv, NEW w \in Wants, UseStep(w)
  PROVE  CallsInv'
<1>0. QueuedOnce /\ PuttersFree /\ wpc[w] \in {"got", "dec"} /\ res[w] \in Conns
  BY DEF CallsInv, UseStep, roundTripCanceled, readLoopPut, roundTripLost, altRoundTrip,
     noCachedConn, noCachedConnDec, HTTP1, HTTP2Conn, TypeOK
<1>1. UNCHANGED <<res, idleConnWait>>
  BY DEF UseStep, roundTripCanceled, readLoopPut, roundTripLost, altRoundTrip,
     noCachedConn, noCachedConnDec, idleVars
<1>2. /\ \E x \in {"dec", "done"} : wpc' = [wpc EXCEPT ![w] = x]
      /\ put' # put => wpc' = [wpc EXCEPT ![w] = "done"]
  BY DEF UseStep, roundTripCanceled, readLoopPut, roundTripLost, altRoundTrip,
     noCachedConn, noCachedConnDec
<1>3. /\ \A v \in Wants : v # w => wpc'[v] = wpc[v]
      /\ wpc'[w] \in {"dec", "done"}
      /\ put' # put => wpc'[w] = "done"
  BY <1>2 DEF TypeOK
<1>4. QueuedOnce' /\ \A v \in Wants : dial[v] = "over" => dial'[v] = "over"
  <2>1. CASE UNCHANGED <<dial, connsPerHostWait>>
    BY <1>0, <1>1, <1>3, <2>1, QueuedCall
  <2>2. CASE noCachedConnDec(w)
    <3>1. decConnsPerHost(ckey[res[w]], dial, res) /\ ckey[res[w]] \in Keys
      BY <1>0, <2>2 DEF noCachedConnDec, TypeOK
    <3>2. dial \in [Wants -> {"no", "dialing", "failed", "over"}]
      BY DEF TypeOK
    <3>3. \A v \in Wants : wpc[v] = "new" => res'[v] = NoConn
      BY <1>0, <1>1 DEF QueuedOnce
    <3>4. \A v \in Wants : wpc'[v] \in {"new", "queue"} => wpc'[v] = wpc[v]
      BY <1>3
    <3> QED BY <1>0, <3>1, <3>2, <3>3, <3>4, QueuedDec
  <2> QED BY <2>1, <2>2 DEF UseStep, roundTripCanceled, readLoopPut, roundTripLost,
      altRoundTrip, noCachedConn, hostVars
<1>5. \A p \in Putters : p # Caller(w) /\ (\A c \in Conns : p # ReadLoop(c)) => put'[p] = put[p]
  BY <1>0 DEF UseStep, roundTripCanceled, readLoopPut, roundTripLost, altRoundTrip,
     noCachedConn, noCachedConnDec, TypeOK
<1>6. ASSUME NEW v \in Wants
      PROVE  /\ wpc'[v] # "done" => put'[Caller(v)] = NoPut
             /\ dial'[v] # "over" => put'[Dialer(v)] = NoPut
  <2>1. Caller(v) \in Putters /\ Dialer(v) \in Putters
    BY PuttersType
  <2>2. put'[Dialer(v)] = put[Dialer(v)] /\ (v # w => put'[Caller(v)] = put[Caller(v)])
    BY <1>5, <2>1, PuttersDiffer
  <2> QED BY <1>0, <1>3, <1>4, <2>2 DEF PuttersFree
<1>7. \A k \in Keys : \A i \in 1..Len(idleConnWait'[k]) : wpc'[idleConnWait'[k][i]] # "new"
  <2>1. \A k \in Keys : \A i \in 1..Len(idleConnWait[k]) : idleConnWait[k][i] \in Wants
    BY DEF TypeOK
  <2> QED BY <1>0, <1>1, <1>3, <2>1 DEF PuttersFree
<1> QED BY <1>4, <1>6, <1>7 DEF CallsInv, PuttersFree

LEMMA CallsClose ==
  ASSUME TypeOK, CallsInv,
         \/ \E c \in Conns : CloseStep(c) \/ persistConnClose(c) \/ idleTimer(c)
         \/ CloseIdleConnections
  PROVE  CallsInv'
<1>1. UNCHANGED <<wpc, res, put, idleConnWait>>
  BY DEF CloseStep, readLoopExit, closeTaken, closeConnIfStillIdle, persistConnClose,
     idleTimer, CloseIdleConnections, idleVars
<1>2. UNCHANGED <<dial, connsPerHostWait>> \/ \E c \in Conns : closeLocked(c, res)
  BY DEF CloseStep, readLoopExit, closeTaken, closeConnIfStillIdle, persistConnClose,
     idleTimer, CloseIdleConnections, hostVars
<1>3. \A v \in Wants : wpc[v] = "new" => res'[v] = NoConn
  BY <1>1 DEF CallsInv, QueuedOnce
<1>4. QueuedOnce' /\ \A v \in Wants : dial[v] = "over" => dial'[v] = "over"
  BY <1>1, <1>2, <1>3, QueuedMoves, QueuedClose DEF CallsInv
<1> QED BY <1>1, <1>4 DEF CallsInv, PuttersFree

LEMMA CallsInvariant == Spec => []CallsInv
<1>1. Init => CallsInv
  <2> SUFFICES ASSUME Init PROVE CallsInv
    OBVIOUS
  <2>1. \A w \in Wants : put[Caller(w)] = NoPut /\ put[Dialer(w)] = NoPut
    BY PuttersType DEF Init
  <2> QED BY <2>1 DEF Init, CallsInv, QueuedOnce, PuttersFree
<1>2. TypeOK /\ CallsInv /\ [Next]_vars => CallsInv'
  <2>1. ASSUME TypeOK, CallsInv, Next PROVE CallsInv'
    BY <2>1, CallsGetConn, CallsPut, CallsUse, CallsClose DEF Next, queueForIdleConnNone
  <2>2. ASSUME CallsInv, UNCHANGED vars PROVE CallsInv'
    BY <2>2 DEF vars, CallsInv, QueuedOnce, PuttersFree
  <2> QED BY <2>1, <2>2
<1> QED BY <1>1, <1>2, TypeCorrect, PTL DEF Spec
=============================================================================
