------------------------ MODULE TransportPoolProofs ------------------------
(***************************************************************************)
(* Proofs about TransportPool, for every number of requests, connections   *)
(* and hosts and every setting of the limits.                              *)
(***************************************************************************)
EXTENDS TransportPool, TLAPS, WellFoundedInduction

(* A non-empty set of naturals has a least element, and Min is it. *)
LEMMA MinNat ==
  ASSUME NEW S \in SUBSET Nat, S # {}
  PROVE  Min(S) \in S /\ \A y \in S : Min(S) <= y
<1> DEFINE R == OpToRel(<, Nat)
<1>1. IsWellFoundedOn(R, Nat)
  BY NatLessThanWellFounded
<1>2. \A x, y \in Nat : <<y, x>> \in R <=> y < x
  BY DEF OpToRel
<1> HIDE DEF R
<1>3. PICK x \in S : \A y \in S : <<y, x>> \notin R
  BY <1>1, WFMin
<1>4. ASSUME NEW y \in S PROVE x <= y
  <2>1. <<y, x>> \notin R
    BY <1>3
  <2>2. ~(y < x)
    BY <2>1, <1>2
  <2> QED BY <2>2
<1> QED BY <1>4 DEF Min

(* RemoveFirst takes away one occurrence of e and nothing else. *)
LEMMA RemoveFirstProps ==
  ASSUME NEW S, NEW s \in Seq(S), NEW e
  PROVE  /\ RemoveFirst(s, e) \in Seq(S)
         /\ Len(RemoveFirst(s, e)) <= Len(s)
         /\ \A x : Contains(RemoveFirst(s, e), x) => Contains(s, x)
         /\ \A x : x # e /\ Contains(s, x) => Contains(RemoveFirst(s, e), x)
         /\ IsInjective(s) =>
              IsInjective(RemoveFirst(s, e)) /\ ~Contains(RemoveFirst(s, e), e)
<1> DEFINE I == {i \in 1..Len(s) : s[i] = e}
           k == Min(I)
           t == RemoveFirst(s, e)
<1>1. CASE ~ \E i \in 1..Len(s) : s[i] = e
  <2>1. I = {}
    BY <1>1
  <2>2. t = s
    BY <2>1 DEF RemoveFirst
  <2> QED BY <1>1, <2>2 DEF Contains, t
<1>2. CASE \E i \in 1..Len(s) : s[i] = e
  <2>1. I # {} /\ I \in SUBSET Nat
    BY <1>2
  <2>2. k \in 1..Len(s) /\ s[k] = e
    BY <2>1, MinNat
  <2> DEFINE a == SubSeq(s, 1, k - 1)
             b == SubSeq(s, k + 1, Len(s))
  <2>3. t = a \o b
    BY <2>1 DEF RemoveFirst
  <2> HIDE DEF k, I, t
  <2>4. a \in Seq(S) /\ Len(a) = k - 1 /\ \A i \in 1..(k - 1) : a[i] = s[i]
    BY <2>2
  <2>5. /\ b \in Seq(S) /\ Len(b) = Len(s) - k
        /\ \A i \in 1..(Len(s) - k) : b[i] = s[k + i]
    BY <2>2
  <2> HIDE DEF a, b
  <2>6. t \in Seq(S) /\ Len(t) = Len(s) - 1
    BY <2>2, <2>3, <2>4, <2>5
  <2>7. \A i \in 1..(k - 1) : t[i] = s[i]
    BY <2>2, <2>3, <2>4, <2>5
  <2>8. ASSUME NEW i \in k..(Len(s) - 1) PROVE t[i] = s[i + 1]
    <3>1. t[i] = b[i - (k - 1)]
      BY <2>2, <2>3, <2>4, <2>5
    <3>2. i - (k - 1) \in 1..(Len(s) - k)
      BY <2>2
    <3> QED BY <3>1, <3>2, <2>2, <2>5
  <2> DEFINE from(i) == IF i < k THEN i ELSE i + 1
  <2>9. \A i \in 1..Len(t) :
           from(i) \in 1..Len(s) /\ from(i) # k /\ t[i] = s[from(i)]
    BY <2>2, <2>6, <2>7, <2>8
  <2>10. ASSUME NEW x, Contains(t, x) PROVE Contains(s, x)
    <3>1. PICK i \in 1..Len(t) : t[i] = x
      BY <2>10 DEF Contains
    <3>2. from(i) \in 1..Len(s) /\ s[from(i)] = x
      BY <3>1, <2>9
    <3> HIDE DEF from
    <3> QED BY <3>2 DEF Contains
  <2>11. ASSUME NEW x, x # e, Contains(s, x) PROVE Contains(t, x)
    <3>1. PICK i \in 1..Len(s) : s[i] = x
      BY <2>11 DEF Contains
    <3>2. CASE i < k
      BY <3>1, <3>2, <2>2, <2>6, <2>7 DEF Contains
    <3>3. CASE i > k
      <4>1. i - 1 \in k..(Len(s) - 1) /\ t[i - 1] = s[i]
        BY <3>3, <2>2, <2>8
      <4> QED BY <4>1, <3>1, <2>2, <2>6 DEF Contains
    <3> QED BY <3>1, <3>2, <3>3, <2>2, <2>11
  <2>12. ASSUME IsInjective(s)
         PROVE  IsInjective(t) /\ ~Contains(t, e)
    <3>1. \A i, j \in 1..Len(s) : s[i] = s[j] => i = j
      BY <2>12 DEF IsInjective
    <3>2. ASSUME NEW i \in 1..Len(t) PROVE t[i] # e
      BY <3>1, <2>2, <2>9
    <3>3. \A i, j \in 1..Len(t) : t[i] = t[j] => i = j
      BY <3>1, <2>2, <2>6, <2>7, <2>8
    <3> QED BY <3>2, <3>3, <2>6 DEF IsInjective, Contains
  <2> QED BY <2>6, <2>10, <2>11, <2>12 DEF t
<1> QED BY <1>1, <1>2
-----------------------------------------------------------------------------
(* The three kinds of putters are putters. *)
LEMMA PuttersType ==
  /\ \A w \in Wants : Dialer(w) \in Putters /\ Caller(w) \in Putters
  /\ \A c \in Conns : ReadLoop(c) \in Putters
BY DEF Dialer, Caller, ReadLoop, Putters

(* FirstWaiting is the index of the first element that waits, or 0. *)
LEMMA FirstWaitingProps ==
  ASSUME NEW q \in Seq(Wants), NEW r
  PROVE  /\ FirstWaiting(q, r) \in 0..Len(q)
         /\ FirstWaiting(q, r) = 0 <=> \A i \in 1..Len(q) : r[q[i]] # NoConn
         /\ FirstWaiting(q, r) # 0 =>
              /\ r[q[FirstWaiting(q, r)]] = NoConn
              /\ \A i \in 1..(FirstWaiting(q, r) - 1) : r[q[i]] # NoConn
<1> DEFINE I == {i \in 1..Len(q) : r[q[i]] = NoConn}
           f == FirstWaiting(q, r)
<1>1. f = IF I # {} THEN Min(I) ELSE 0
  BY DEF FirstWaiting
<1>2. I # {} => Min(I) \in I /\ \A y \in I : Min(I) <= y
  <2>1. I \in SUBSET Nat
    OBVIOUS
  <2> HIDE DEF I
  <2> QED BY <2>1, MinNat
<1> HIDE DEF I, f
<1>3. f # 0 => f \in I /\ \A y \in I : f <= y
  BY <1>1, <1>2
<1>4. f = 0 <=> I = {}
  BY <1>1, <1>2 DEF I
<1>5. ASSUME f = 0 PROVE \A i \in 1..Len(q) : r[q[i]] # NoConn
  BY <1>5, <1>4 DEF I
<1>6. ASSUME f # 0
      PROVE  /\ f \in 1..Len(q) /\ r[q[f]] = NoConn
             /\ \A i \in 1..(f - 1) : r[q[i]] # NoConn
  BY <1>6, <1>3 DEF I
<1> QED BY <1>5, <1>6 DEF f

(* Popping the front of a queue leaves a queue, and what was behind. *)
LEMMA PopThroughProps ==
  ASSUME NEW q \in Seq(Wants), NEW n \in 0..Len(q)
  PROVE  /\ PopThrough(q, n) \in Seq(Wants)
         /\ Len(PopThrough(q, n)) = Len(q) - n
         /\ \A i \in 1..(Len(q) - n) : PopThrough(q, n)[i] = q[n + i]
BY DEF PopThrough

(* cleanFront and pushBack keep everyone who waits and add w. *)
LEMMA CleanAndPushProps ==
  ASSUME NEW q \in Seq(Wants), NEW w \in Wants
  PROVE  /\ CleanAndPush(q, w) \in Seq(Wants)
         /\ Contains(CleanAndPush(q, w), w)
         /\ \A v : res[v] = NoConn /\ Contains(q, v) => Contains(CleanAndPush(q, w), v)
<1> DEFINE f == FirstWaiting(q, res)
           t == PopThrough(q, f - 1)
<1>1. CASE f = 0
  BY <1>1, FirstWaitingProps DEF CleanAndPush, Contains
<1>2. CASE f # 0
  <2>1. f \in 1..Len(q) /\ \A i \in 1..(f - 1) : res[q[i]] # NoConn
    BY <1>2, FirstWaitingProps
  <2> HIDE DEF f
  <2>2. /\ t \in Seq(Wants) /\ Len(t) = Len(q) - (f - 1)
        /\ \A i \in 1..(Len(q) - (f - 1)) : t[i] = q[f - 1 + i]
    <3>1. f - 1 \in 0..Len(q)
      BY <2>1
    <3> QED BY <3>1, PopThroughProps
  <2> DEFINE u == Append(t, w)
  <2>3. CleanAndPush(q, w) = u
    BY <1>2 DEF CleanAndPush, f
  <2> HIDE DEF t
  <2>4. /\ u \in Seq(Wants) /\ Len(u) = Len(t) + 1 /\ u[Len(t) + 1] = w
        /\ \A i \in 1..Len(t) : u[i] = t[i]
    BY <2>2
  <2> HIDE DEF u
  <2>5. Contains(u, w)
    BY <2>2, <2>4 DEF Contains
  <2>6. ASSUME NEW v, res[v] = NoConn, Contains(q, v)
        PROVE  Contains(u, v)
    <3>1. PICK i \in 1..Len(q) : q[i] = v
      BY <2>6 DEF Contains
    <3>2. i >= f
      BY <3>1, <2>6, <2>1
    <3>3. i - (f - 1) \in 1..Len(t) /\ t[i - (f - 1)] = v
      BY <3>1, <3>2, <2>1, <2>2
    <3> QED BY <3>3, <2>2, <2>4 DEF Contains
  <2> QED BY <2>3, <2>4, <2>5, <2>6
<1> QED BY <1>1, <1>2
-----------------------------------------------------------------------------
(* decConnsPerHost keeps the types of what it changes. *)
LEMMA DecType ==
  ASSUME TypeOK, NEW k \in Keys, NEW d \in [Wants -> {"no", "dialing", "failed", "over"}],
         NEW r, decConnsPerHost(k, d, r)
  PROVE  /\ dial' \in [Wants -> {"no", "dialing", "failed", "over"}]
         /\ connsPerHost' \in [Keys -> Nat]
         /\ connsPerHostWait' \in [Keys -> Seq(Wants)]
         /\ underflow' \in BOOLEAN
<1> DEFINE q == connsPerHostWait[k]
           f == FirstWaiting(q, r)
<1>1. q \in Seq(Wants)
  BY DEF TypeOK
<1>2. f \in 0..Len(q)
  BY <1>1, FirstWaitingProps
<1>3. PopThrough(q, f) \in Seq(Wants)
  BY <1>1, <1>2, PopThroughProps
<1>4. f # 0 => q[f] \in Wants
  BY <1>1, <1>2
<1>5. CASE MaxConnsPerHost = 0 \/ connsPerHost[k] = 0
  BY <1>5 DEF decConnsPerHost, TypeOK, hostVars
<1>6. CASE MaxConnsPerHost # 0 /\ connsPerHost[k] # 0
  <2>1. CASE f # 0
    <3>1. /\ dial' = [d EXCEPT ![q[f]] = "dialing"]
          /\ connsPerHostWait' = [connsPerHostWait EXCEPT ![k] = PopThrough(q, f)]
          /\ UNCHANGED <<connsPerHost, underflow>>
      BY <1>6, <2>1 DEF decConnsPerHost
    <3> HIDE DEF q, f
    <3> QED BY <2>1, <3>1, <1>3, <1>4 DEF TypeOK
  <2>2. CASE f = 0
    <3>1. /\ dial' = d
          /\ connsPerHostWait' = [connsPerHostWait EXCEPT ![k] = <<>>]
          /\ connsPerHost' = [connsPerHost EXCEPT ![k] = @ - 1]
          /\ UNCHANGED underflow
      BY <1>6, <2>2 DEF decConnsPerHost
    <3> HIDE DEF q, f
    <3> QED BY <1>6, <3>1 DEF TypeOK
  <2> QED BY <2>1, <2>2
<1> QED BY <1>5, <1>6

LEMMA CloseType ==
  ASSUME TypeOK, NEW c \in Conns, NEW r, closeLocked(c, r)
  PROVE  /\ conn' \in [Conns -> {"unborn", "open", "closed"}]
         /\ dial' \in [Wants -> {"no", "dialing", "failed", "over"}]
         /\ connsPerHost' \in [Keys -> Nat]
         /\ connsPerHostWait' \in [Keys -> Seq(Wants)]
         /\ underflow' \in BOOLEAN
<1>1. CASE conn[c] = "open"
  <2>1. decConnsPerHost(ckey[c], dial, r) /\ ckey[c] \in Keys
    BY <1>1 DEF closeLocked, TypeOK
  <2>2. dial \in [Wants -> {"no", "dialing", "failed", "over"}]
    BY DEF TypeOK
  <2> QED BY <1>1, <2>1, <2>2, DecType DEF closeLocked, TypeOK
<1>2. CASE conn[c] # "open"
  BY <1>2 DEF closeLocked, TypeOK, hostVars
<1> QED BY <1>1, <1>2

LEMMA RemoveIdleType ==
  ASSUME TypeOK, NEW c \in Conns, removeIdleConnLocked(c)
  PROVE  /\ idleConn' \in [Keys -> Seq(Conns)]
         /\ idleLRU' \in Seq(Conns)
         /\ armed' \in SUBSET Conns
<1>1. RemoveFirst(idleConn[ckey[c]], c) \in Seq(Conns) /\ RemoveFirst(idleLRU, c) \in Seq(Conns)
  BY RemoveFirstProps DEF TypeOK
<1> QED BY <1>1 DEF removeIdleConnLocked, ListsWithout, TypeOK

(* A delivery hands c to waiters of its key and leaves a queue. *)
LEMMA DeliveryProps ==
  ASSUME TypeOK, NEW c \in Conns
  PROVE  /\ delivery(c).to \in SUBSET Wants
         /\ \A w \in delivery(c).to : res[w] = NoConn
         /\ delivery(c).rest \in Seq(Wants)
         /\ c \notin alt => \A w, v \in delivery(c).to : w = v
         /\ \A w \in Wants : res[w] = NoConn /\ Contains(idleConnWait[ckey[c]], w) =>
               w \in delivery(c).to \/ Contains(delivery(c).rest, w)
         /\ c \in alt \/ delivery(c).to = {} => delivery(c).rest = <<>>
<1> DEFINE q == idleConnWait[ckey[c]]
           f == FirstWaiting(q, res)
<1>1. q \in Seq(Wants)
  BY DEF TypeOK
<1>2. CASE c \in alt
  <2>1. delivery(c) = [to |-> {w \in Range(q) : res[w] = NoConn}, rest |-> <<>>]
    BY <1>2 DEF delivery
  <2>2. Range(q) \subseteq Wants /\ \A w : Contains(q, w) => w \in Range(q)
    BY <1>1 DEF Range, Contains
  <2> QED BY <1>2, <2>1, <2>2
<1>3. CASE c \notin alt /\ f = 0
  <2>1. delivery(c) = [to |-> {}, rest |-> <<>>]
    BY <1>3 DEF delivery
  <2>2. \A i \in 1..Len(q) : res[q[i]] # NoConn
    BY <1>3, <1>1, FirstWaitingProps
  <2> QED BY <2>1, <2>2 DEF Contains
<1>4. CASE c \notin alt /\ f # 0
  <2>1. delivery(c) = [to |-> {q[f]}, rest |-> PopThrough(q, f)]
    BY <1>4 DEF delivery
  <2>2. /\ f \in 1..Len(q) /\ res[q[f]] = NoConn /\ q[f] \in Wants
        /\ \A i \in 1..(f - 1) : res[q[i]] # NoConn
    BY <1>4, <1>1, FirstWaitingProps
  <2> HIDE DEF q, f
  <2>3. /\ PopThrough(q, f) \in Seq(Wants) /\ Len(PopThrough(q, f)) = Len(q) - f
        /\ \A i \in 1..(Len(q) - f) : PopThrough(q, f)[i] = q[f + i]
    <3>1. f \in 0..Len(q)
      BY <2>2
    <3> QED BY <1>1, <3>1, PopThroughProps
  <2>4. ASSUME NEW w \in Wants, res[w] = NoConn, Contains(q, w), w # q[f]
        PROVE  Contains(PopThrough(q, f), w)
    <3>1. PICK i \in 1..Len(q) : q[i] = w
      BY <2>4 DEF Contains
    <3>2. i > f
      BY <3>1, <2>2, <2>4
    <3>3. i - f \in 1..(Len(q) - f) /\ PopThrough(q, f)[i - f] = w
      BY <3>1, <3>2, <2>2, <2>3, <1>1
    <3> QED BY <3>3, <2>3 DEF Contains
  <2>5. delivery(c).to = {q[f]} /\ delivery(c).rest = PopThrough(q, f)
    BY <2>1
  <2>6. \A w \in Wants : res[w] = NoConn /\ Contains(idleConnWait[ckey[c]], w) =>
           w \in delivery(c).to \/ Contains(delivery(c).rest, w)
    BY <2>4, <2>5 DEF q
  <2> QED BY <1>4, <2>2, <2>3, <2>5, <2>6
<1> QED BY <1>2, <1>3, <1>4
LEMMA InitType == Init => TypeOK
<1> SUFFICES ASSUME Init PROVE TypeOK
  OBVIOUS
<1>1. (CHOOSE k \in Keys : TRUE) \in Keys
  BY PoolAssumption
<1>2. put \in [Putters -> [at : {"no", "check", "put", "close"}, c : Conns \cup {NoConn}]]
  BY DEF Init, NoPut
<1>3. \A p \in Putters : put[p].c \in Conns <=> put[p].at # "no"
  BY PoolAssumption DEF Init, NoPut
<1>4. /\ idleConn \in [Keys -> Seq(Conns)] /\ idleLRU \in Seq(Conns)
      /\ idleConnWait \in [Keys -> Seq(Wants)]
      /\ connsPerHostWait \in [Keys -> Seq(Wants)]
  BY DEF Init
<1>5. /\ wpc \in [Wants -> {"new", "queue", "select", "got", "dec", "done"}]
      /\ \A w \in Wants : wpc[w] \notin {"got", "dec"}
      /\ res \in [Wants -> Conns \cup {NoConn, Err}]
      /\ dial \in [Wants -> {"no", "dialing", "failed", "over"}]
      /\ conn \in [Conns -> {"unborn", "open", "closed"}]
      /\ connsPerHost \in [Keys -> Nat]
  BY DEF Init
<1>6. /\ ckey \in [Conns -> Keys] /\ closeIdle \in BOOLEAN /\ underflow \in BOOLEAN
      /\ {alt, reused, loopDone, closing, armed, firing} \subseteq SUBSET Conns
  BY <1>1 DEF Init
<1> QED BY <1>2, <1>3, <1>4, <1>5, <1>6 DEF TypeOK

(* Giving a putter a connection, or taking it away, keeps put well typed. *)
PutOK(u) ==
    /\ u \in [Putters -> [at : {"no", "check", "put", "close"}, c : Conns \cup {NoConn}]]
    /\ \A p \in Putters : u[p].c \in Conns <=> u[p].at # "no"

LEMMA PutGive ==
  ASSUME TypeOK, NEW p \in Putters, NEW c \in Conns, NEW a \in {"check", "put", "close"}
  PROVE  PutOK([put EXCEPT ![p] = [at |-> a, c |-> c]])
BY DEF TypeOK, PutOK

LEMMA PutDrop ==
  ASSUME TypeOK, NEW p \in Putters
  PROVE  PutOK([put EXCEPT ![p] = NoPut])
BY PoolAssumption DEF TypeOK, NoPut, PutOK

LEMMA PutMove ==
  ASSUME TypeOK, NEW p \in Putters, NEW a \in {"check", "put", "close"}, put[p].at # "no"
  PROVE  PutOK([put EXCEPT ![p].at = a])
<1> DEFINE u == [put EXCEPT ![p].at = a]
<1>1. PutOK(put)
  BY DEF TypeOK, PutOK
<1>2. u[p].at = a /\ u[p].c = put[p].c
  BY <1>1 DEF PutOK
<1>3. \A o \in Putters : o # p => u[o] = put[o]
  BY <1>1 DEF PutOK
<1>4. u \in [Putters -> [at : {"no", "check", "put", "close"}, c : Conns \cup {NoConn}]]
  BY <1>1 DEF PutOK
<1> HIDE DEF u
<1>5. PutOK(u)
  BY <1>1, <1>2, <1>3, <1>4 DEF PutOK
<1> QED BY <1>5 DEF u

LEMMA DeliverType ==
  ASSUME TypeOK, NEW c \in Conns, deliver(c)
  PROVE  /\ res' \in [Wants -> Conns \cup {NoConn, Err}]
         /\ \A w \in Wants : res[w] \in Conns => res'[w] \in Conns
         /\ idleConnWait' \in [Keys -> Seq(Wants)]
<1>1. delivery(c).rest \in Seq(Wants)
  BY DeliveryProps
<1> QED BY <1>1 DEF deliver, TypeOK

(* The calls of getConn keep the types. *)
LEMMA GetConnType ==
  ASSUME TypeOK, NEW w \in Wants,
         \/ queueForIdleConnTake(w) \/ queueForIdleConnWait(w)
         \/ queueForIdleConnDisabled(w) \/ getConnCancel(w) \/ GetConnStep(w)
  PROVE  TypeOK'
<1> DEFINE k == WKey[w]
           list == idleConn[k]
<1>1. k \in Keys /\ list \in Seq(Conns)
  BY PoolAssumption DEF TypeOK
<1>2. CASE queueForIdleConnTake(w)
  <2>1. PICK old \in OldPrefixes(list) : \E i \in Usable(list, old) :
          res' = tryDeliver(w, list[i]) /\ takeIdle(k, list, i)
    BY <1>2 DEF queueForIdleConnTake
  <2>2. PICK i \in Usable(list, old) :
          res' = tryDeliver(w, list[i]) /\ takeIdle(k, list, i)
    BY <2>1
  <2>3. i \in 1..Len(list) /\ list[i] \in Conns
    <3> HIDE DEF list, k
    <3>1. Len(list) \in Nat
      BY <1>1
    <3>2. old \in Nat
      BY <3>1 DEF OldPrefixes
    <3>3. i \in (old + 1)..Len(list)
      BY DEF Usable
    <3>4. i \in 1..Len(list)
      BY <3>1, <3>2, <3>3
    <3> QED BY <1>1, <3>4
  <2>4. RemoveFirst(idleLRU, list[i]) \in Seq(Conns)
    BY RemoveFirstProps DEF TypeOK
  <2>5. SubSeq(list, 1, i) \in Seq(Conns) /\ SubSeq(list, 1, i - 1) \in Seq(Conns)
    BY <1>1, <2>3
  <2>6. idleConn' \in [Keys -> Seq(Conns)] /\ idleLRU' \in Seq(Conns)
    BY <1>1, <2>2, <2>4, <2>5, ZenonT(60) DEF takeIdle, TypeOK
  <2>7. /\ res' \in [Wants -> Conns \cup {NoConn, Err}]
        /\ \A v \in Wants : wpc'[v] \in {"got", "dec"} => res'[v] \in Conns
    <3>1. /\ res[w] = NoConn
          /\ wpc' = [wpc EXCEPT ![w] = "got"]
      BY <1>2 DEF queueForIdleConnTake
    <3>2. res' = [res EXCEPT ![w] = list[i]]
      BY <2>2, <3>1 DEF tryDeliver
    <3> HIDE DEF list
    <3> QED BY <2>3, <3>1, <3>2 DEF TypeOK
  <2> HIDE DEF list, k
  <2> QED BY <1>2, <2>6, <2>7, ZenonT(60) DEF queueForIdleConnTake, TypeOK, connVars, hostVars
<1>3. CASE queueForIdleConnWait(w)
  <2>1. CleanAndPush(idleConnWait[k], w) \in Seq(Wants)
    BY <1>1, CleanAndPushProps DEF TypeOK
  <2>2. idleConnWait' \in [Keys -> Seq(Wants)]
    BY <1>3, <2>1, ZenonT(60) DEF queueForIdleConnWait, TypeOK
  <2>3. PICK old \in OldPrefixes(list) : firing' = firing \cup {list[i] : i \in 1..old}
    BY <1>3, Zenon DEF queueForIdleConnWait
  <2>4. firing' \in SUBSET Conns
    <3>1. 1..old \subseteq 1..Len(list)
      BY <1>1 DEF OldPrefixes
    <3>2. \A i \in 1..old : list[i] \in Conns
      BY <1>1, <3>1
    <3> HIDE DEF list
    <3> QED BY <2>3, <3>2 DEF TypeOK
  <2>5. idleConn' \in [Keys -> Seq(Conns)]
    <3>1. idleConn' = [idleConn EXCEPT ![k] = <<>>]
      BY <1>3 DEF queueForIdleConnWait
    <3>2. idleConn \in [Keys -> Seq(Conns)] /\ <<>> \in Seq(Conns)
      BY DEF TypeOK
    <3> HIDE DEF k, list
    <3> QED BY <3>1, <3>2, ZenonT(60)
  <2>6. /\ wpc' \in [Wants -> {"new", "queue", "select", "got", "dec", "done"}]
        /\ \A v \in Wants : wpc'[v] \in {"got", "dec"} => res'[v] \in Conns
    BY <1>3 DEF queueForIdleConnWait, TypeOK
  <2> HIDE DEF list, k
  <2> QED BY <1>3, <2>2, <2>4, <2>5, <2>6, ZenonT(60)
      DEF queueForIdleConnWait, TypeOK, connVars, hostVars
<1>4. CASE queueForIdleConnDisabled(w)
  BY <1>4 DEF queueForIdleConnDisabled, TypeOK, connVars, hostVars, idleVars
<1>5. CASE getConnCancel(w)
  <2>1. PutOK(put')
    BY <1>5, PutGive, PuttersType DEF getConnCancel, cancelGivesBack, PutOK, TypeOK
  <2> QED BY <1>5, <2>1 DEF getConnCancel, PutOK, TypeOK, connVars, hostVars, idleVars
<1>6. CASE queueForDialNow(w)
  BY <1>1, <1>6 DEF queueForDialNow, TypeOK, connVars, idleVars
<1>7. CASE queueForDialWait(w)
  <2>1. CleanAndPush(connsPerHostWait[k], w) \in Seq(Wants)
    BY <1>1, CleanAndPushProps DEF TypeOK
  <2>2. connsPerHostWait' \in [Keys -> Seq(Wants)]
    BY <1>7, <2>1, ZenonT(60) DEF queueForDialWait, TypeOK
  <2> QED BY <1>7, <2>2 DEF queueForDialWait, TypeOK, connVars, idleVars
<1>8. CASE getConnReady(w)
  BY <1>8 DEF getConnReady, TypeOK, connVars, hostVars, idleVars
<1>9. ASSUME NEW c \in Conns, NEW h2, dialConnForOk(w, c, h2)
      PROVE  TypeOK'
  <2>1. PutOK(put')
    BY <1>9, PutGive, PuttersType DEF dialConnForOk, PutOK, TypeOK
  <2>2. /\ res' \in [Wants -> Conns \cup {NoConn, Err}]
        /\ \A v \in Wants : res[v] \in Conns => res'[v] \in Conns
    BY <1>9, PoolAssumption DEF dialConnForOk, tryDeliver, TypeOK
  <2>3. ckey' \in [Conns -> Keys] /\ alt' \in SUBSET Conns
    BY <1>1, <1>9 DEF dialConnForOk, TypeOK
  <2> QED BY <1>9, <2>1, <2>2, <2>3 DEF dialConnForOk, PutOK, TypeOK, hostVars, idleVars
<1>10. CASE dialConnForErr(w)
  <2>1. /\ res' \in [Wants -> Conns \cup {NoConn, Err}]
        /\ \A v \in Wants : res[v] \in Conns => res'[v] \in Conns
    BY <1>10, PoolAssumption DEF dialConnForErr, tryDeliver, TypeOK
  <2> QED BY <1>10, <2>1, ZenonT(60) DEF dialConnForErr, TypeOK, connVars, hostVars, idleVars
<1>11. CASE dialConnForDec(w)
  <2>1. [dial EXCEPT ![w] = "over"] \in [Wants -> {"no", "dialing", "failed", "over"}]
    BY DEF TypeOK
  <2>2. decConnsPerHost(k, [dial EXCEPT ![w] = "over"], res)
    BY <1>11 DEF dialConnForDec
  <2>3. /\ dial' \in [Wants -> {"no", "dialing", "failed", "over"}]
        /\ connsPerHost' \in [Keys -> Nat]
        /\ connsPerHostWait' \in [Keys -> Seq(Wants)]
        /\ underflow' \in BOOLEAN
    BY <1>1, <2>1, <2>2, DecType, ZenonT(60)
  <2> QED BY <1>11, <2>3 DEF dialConnForDec, TypeOK, connVars, idleVars
<1> QED BY <1>2, <1>3, <1>4, <1>5, <1>6, <1>7, <1>8, <1>9, <1>10, <1>11 DEF GetConnStep
(* tryPutIdleConn and the close after it keep the types. *)
LEMMA PutStepType ==
  ASSUME TypeOK, NEW p \in Putters, PutStep(p)
  PROVE  TypeOK'
<1> DEFINE c == put[p].c
           k == ckey[c]
<1>1. put[p].at # "no" /\ c \in Conns /\ k \in Keys
  <2>1. put[p].at # "no"
    BY DEF PutStep, tryPutIdleConnCheck, tryPutIdleConnShared, tryPutIdleConnDeliver,
           tryPutIdleConnRefuse, tryPutIdleConnAdd, putOrCloseIdleConnClose
  <2> QED BY <2>1 DEF TypeOK
<1> HIDE DEF c
<1>2. CASE tryPutIdleConnCheck(p)
  <2>1. PutOK(put')
    BY <1>1, <1>2, PutMove DEF tryPutIdleConnCheck
  <2>2. reused' \in SUBSET Conns
    BY <1>1, <1>2 DEF tryPutIdleConnCheck, TypeOK, c
  <2> QED BY <1>2, <2>1, <2>2
          DEF tryPutIdleConnCheck, PutOK, TypeOK, connVars, hostVars, idleVars
<1>3. CASE tryPutIdleConnShared(p)
  <2>1. PutOK(put')
    BY <1>3, PutDrop, ZenonT(60) DEF tryPutIdleConnShared
  <2> QED BY <1>3, <2>1
          DEF tryPutIdleConnShared, PutOK, TypeOK, connVars, hostVars, idleVars
<1>4. CASE tryPutIdleConnDeliver(p)
  <2>1. PutOK(put')
    BY <1>4, PutDrop DEF tryPutIdleConnDeliver
  <2>2. deliver(c)
    BY <1>4 DEF tryPutIdleConnDeliver, c
  <2>3. /\ res' \in [Wants -> Conns \cup {NoConn, Err}]
        /\ \A w \in Wants : res[w] \in Conns => res'[w] \in Conns
        /\ idleConnWait' \in [Keys -> Seq(Wants)]
    BY <1>1, <2>2, DeliverType
  <2> QED BY <1>4, <2>1, <2>3 DEF tryPutIdleConnDeliver, PutOK, TypeOK, connVars, hostVars
<1>5. CASE tryPutIdleConnRefuse(p)
  <2>1. PutOK(put')
    BY <1>1, <1>5, PutMove, ZenonT(60) DEF tryPutIdleConnRefuse
  <2>2. deliver(c)
    BY <1>5 DEF tryPutIdleConnRefuse, c
  <2>3. /\ res' \in [Wants -> Conns \cup {NoConn, Err}]
        /\ \A w \in Wants : res[w] \in Conns => res'[w] \in Conns
        /\ idleConnWait' \in [Keys -> Seq(Wants)]
    BY <1>1, <2>2, DeliverType
  <2> QED BY <1>5, <2>1, <2>3 DEF tryPutIdleConnRefuse, PutOK, TypeOK, connVars, hostVars
<1>6. CASE tryPutIdleConnAdd(p)
  <2> DEFINE lists == [idleConn EXCEPT ![k] = Append(@, c)]
             lru == <<c>> \o idleLRU
             oldest == Last(lru)
             timers == IF IdleConnTimeout /\ c \notin alt THEN armed \cup {c} ELSE armed
  <2>1. PutOK(put')
    BY <1>6, PutDrop DEF tryPutIdleConnAdd
  <2>2. deliver(c)
    BY <1>6 DEF tryPutIdleConnAdd, c
  <2>3. /\ res' \in [Wants -> Conns \cup {NoConn, Err}]
        /\ \A w \in Wants : res[w] \in Conns => res'[w] \in Conns
        /\ idleConnWait' \in [Keys -> Seq(Wants)]
    BY <1>1, <2>2, DeliverType
  <2>4. lists \in [Keys -> Seq(Conns)]
    BY <1>1 DEF TypeOK
  <2>5. lru \in Seq(Conns) /\ Len(lru) > 0 /\ oldest \in Conns
    <3>1. lru \in Seq(Conns) /\ Len(lru) = 1 + Len(idleLRU) /\ Len(idleLRU) \in Nat
      <4>1. <<c>> \in Seq(Conns) /\ Len(<<c>>) = 1 /\ idleLRU \in Seq(Conns)
        BY <1>1 DEF TypeOK
      <4> QED BY <4>1
    <3>2. Len(lru) \in 1..Len(lru)
      BY <3>1
    <3> HIDE DEF lru
    <3> QED BY <3>1, <3>2 DEF Last
  <2>6. Front(lru) \in Seq(Conns)
    BY <2>5 DEF Front
  <2>7. timers \in SUBSET Conns
    BY <1>1 DEF TypeOK
  <2>8. RemoveFirst(lists[ckey[oldest]], oldest) \in Seq(Conns)
    <3>1. ckey[oldest] \in Keys
      BY <2>5 DEF TypeOK
    <3>2. lists[ckey[oldest]] \in Seq(Conns)
      BY <2>4, <3>1
    <3> QED BY <3>2, RemoveFirstProps, ZenonT(60)
  <2>9. ListsWithout(lists, oldest) \in [Keys -> Seq(Conns)]
    <3> HIDE DEF lists, oldest
    <3> QED BY <2>4, <2>8, ZenonT(60) DEF ListsWithout
  <2>10. \/ /\ idleConn' = ListsWithout(lists, oldest) /\ idleLRU' = Front(lru)
            /\ armed' = timers \ {oldest} /\ closeLocked(oldest, res')
         \/ /\ idleConn' = lists /\ idleLRU' = lru
            /\ armed' = timers /\ UNCHANGED <<conn, dial, hostVars>>
    BY <1>6 DEF tryPutIdleConnAdd, c
  <2>11. /\ conn' \in [Conns -> {"unborn", "open", "closed"}]
         /\ dial' \in [Wants -> {"no", "dialing", "failed", "over"}]
         /\ connsPerHost' \in [Keys -> Nat]
         /\ connsPerHostWait' \in [Keys -> Seq(Wants)]
         /\ underflow' \in BOOLEAN
    <3> HIDE DEF oldest, lists, lru, timers
    <3>1. CASE closeLocked(oldest, res')
      BY <3>1, <2>5, CloseType
    <3>2. CASE UNCHANGED <<conn, dial, hostVars>>
      BY <3>2 DEF TypeOK, hostVars
    <3> QED BY <2>10, <3>1, <3>2
  <2>12. /\ idleConn' \in [Keys -> Seq(Conns)] /\ idleLRU' \in Seq(Conns)
         /\ armed' \in SUBSET Conns
    <3> HIDE DEF oldest, lists, lru, timers
    <3> QED BY <2>4, <2>5, <2>6, <2>7, <2>9, <2>10
  <2> HIDE DEF oldest, lists, lru, timers
  <2> QED BY <1>6, <2>1, <2>3, <2>11, <2>12, ZenonT(60) DEF tryPutIdleConnAdd, PutOK, TypeOK
<1>7. CASE putOrCloseIdleConnClose(p)
  <2>1. PutOK(put')
    BY <1>7, PutDrop DEF putOrCloseIdleConnClose
  <2>2. closeLocked(c, res)
    BY <1>7 DEF putOrCloseIdleConnClose, c
  <2> QED BY <1>1, <1>7, <2>1, <2>2, CloseType
          DEF putOrCloseIdleConnClose, PutOK, TypeOK, idleVars
<1> QED BY <1>2, <1>3, <1>4, <1>5, <1>6, <1>7 DEF PutStep

(* Using and closing connections keeps the types. *)
LEMMA UseStepType ==
  ASSUME TypeOK, NEW w \in Wants, UseStep(w)
  PROVE  TypeOK'
<1> DEFINE c == res[w]
<1>1. wpc[w] \in {"got", "dec"} /\ c \in Conns /\ ckey[c] \in Keys
  BY DEF UseStep, roundTripCanceled, readLoopPut, roundTripLost, altRoundTrip, noCachedConn,
         noCachedConnDec, HTTP1, HTTP2Conn, TypeOK
<1>2. CASE roundTripCanceled(w)
  <2>1. PutOK(put')
    BY <1>1, <1>2, PutGive, PuttersType DEF roundTripCanceled
  <2> QED BY <1>2, <2>1 DEF roundTripCanceled, PutOK, TypeOK, connVars, hostVars, idleVars
<1>3. CASE readLoopPut(w)
  <2>1. PutOK(put')
    BY <1>1, <1>3, PutGive, PuttersType DEF readLoopPut
  <2> QED BY <1>3, <2>1 DEF readLoopPut, PutOK, TypeOK, connVars, hostVars, idleVars
<1>4. CASE roundTripLost(w)
  BY <1>4 DEF roundTripLost, TypeOK, connVars, hostVars, idleVars
<1>5. CASE altRoundTrip(w)
  BY <1>5 DEF altRoundTrip, TypeOK, connVars, hostVars, idleVars
<1>6. CASE noCachedConn(w)
  <2>1. removeIdleConnLocked(c)
    BY <1>6 DEF noCachedConn
  <2>2. /\ idleConn' \in [Keys -> Seq(Conns)] /\ idleLRU' \in Seq(Conns)
        /\ armed' \in SUBSET Conns
    BY <1>1, <2>1, RemoveIdleType
  <2>3. /\ wpc' \in [Wants -> {"new", "queue", "select", "got", "dec", "done"}]
        /\ \A v \in Wants : wpc'[v] \in {"got", "dec"} => res[v] \in Conns
    BY <1>1, <1>6 DEF noCachedConn, TypeOK
  <2> QED BY <1>6, <2>2, <2>3, ZenonT(60) DEF noCachedConn, TypeOK, connVars, hostVars
<1>7. CASE noCachedConnDec(w)
  <2>1. decConnsPerHost(ckey[c], dial, res)
    BY <1>7 DEF noCachedConnDec
  <2>2. dial \in [Wants -> {"no", "dialing", "failed", "over"}]
    BY DEF TypeOK
  <2>3. /\ dial' \in [Wants -> {"no", "dialing", "failed", "over"}]
        /\ connsPerHost' \in [Keys -> Nat]
        /\ connsPerHostWait' \in [Keys -> Seq(Wants)]
        /\ underflow' \in BOOLEAN
    BY <1>1, <2>1, <2>2, DecType
  <2> QED BY <1>7, <2>3 DEF noCachedConnDec, TypeOK, connVars, idleVars
<1> QED BY <1>2, <1>3, <1>4, <1>5, <1>6, <1>7 DEF UseStep

LEMMA CloseStepType ==
  ASSUME TypeOK, NEW c \in Conns,
         CloseStep(c) \/ persistConnClose(c) \/ idleTimer(c)
  PROVE  TypeOK'
<1>1. CASE readLoopExit(c)
  BY <1>1, RemoveIdleType DEF readLoopExit, TypeOK, connVars, hostVars
<1>2. CASE closeTaken(c)
  BY <1>2, CloseType, ZenonT(60) DEF closeTaken, TypeOK, idleVars
<1>3. CASE closeConnIfStillIdle(c)
  <2>1. CASE InLRU(c)
    BY <1>3, <2>1, CloseType, RemoveIdleType, ZenonT(60) DEF closeConnIfStillIdle, TypeOK
  <2>2. CASE ~InLRU(c)
    BY <1>3, <2>2 DEF closeConnIfStillIdle, TypeOK, hostVars
  <2> QED BY <2>1, <2>2
<1>4. CASE persistConnClose(c)
  BY <1>4, CloseType, ZenonT(60) DEF persistConnClose, TypeOK, idleVars
<1>5. CASE idleTimer(c)
  BY <1>5 DEF idleTimer, TypeOK, connVars, hostVars, idleVars
<1> QED BY <1>1, <1>2, <1>3, <1>4, <1>5 DEF CloseStep

LEMMA CloseIdleType ==
  ASSUME TypeOK, CloseIdleConnections
  PROVE  TypeOK'
<1>1. ASSUME NEW k \in Keys PROVE Range(idleConn[k]) \subseteq Conns
  <2> DEFINE s == idleConn[k]
  <2>1. s \in Seq(Conns)
    BY DEF TypeOK
  <2> HIDE DEF s
  <2>2. \A i \in DOMAIN s : s[i] \in Conns
    BY <2>1
  <2>3. Range(s) \subseteq Conns
    BY <2>2, Zenon DEF Range
  <2> QED BY <2>3 DEF s
<1>2. closing' \in SUBSET Conns
  BY <1>1 DEF CloseIdleConnections
<1>3. idleConn' \in [Keys -> Seq(Conns)] /\ idleLRU' \in Seq(Conns)
  BY DEF CloseIdleConnections
<1> QED BY <1>2, <1>3 DEF CloseIdleConnections, TypeOK, connVars, hostVars

(* Every variable of the pool keeps its type, and a request that has       *)
(* received a connection (wpc "got") really has one.                       *)
THEOREM TypeCorrect == Spec => []TypeOK
<1>1. TypeOK /\ [Next]_vars => TypeOK'
  <2> SUFFICES ASSUME TypeOK, [Next]_vars PROVE TypeOK'
    OBVIOUS
  <2>1. CASE UNCHANGED vars
    BY <2>1 DEF vars, TypeOK
  <2>2. CASE Next
    BY <2>2, GetConnType, PutStepType, UseStepType, CloseStepType, CloseIdleType
    DEF Next, queueForIdleConnNone
  <2> QED BY <2>1, <2>2
<1> QED BY InitType, <1>1, PTL DEF Spec
=============================================================================
