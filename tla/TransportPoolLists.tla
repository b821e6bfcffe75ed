------------------------- MODULE TransportPoolLists -------------------------
(***************************************************************************)
(* The idle lists and the LRU of TransportPool agree and keep to their     *)
(* limits (ListsInLRU), which completes PlacesInv, and what follows:       *)
(* IdleListsSound and Exclusive.                                           *)
(***************************************************************************)
EXTENDS TransportPoolPlaces

(* The idle lists L agree with the LRU U. *)
Agree(L, U) ==
    \A k \in Keys :
      /\ \A i \in 1..Len(L[k]) : ckey[L[k][i]] = k /\ Contains(U, L[k][i])
      /\ \A i, j \in 1..Len(L[k]) : L[k][i] = L[k][j] => i = j
Distinct(s) == \A i, j \in 1..Len(s) : s[i] = s[j] => i = j
Limited(L, U) ==
    /\ \A k \in Keys : Len(L[k]) > 0 => Len(L[k]) <= MaxIdleConnsPerHost
    /\ MaxIdleConns # 0 => Len(U) <= MaxIdleConns

LEMMA ListsAgree ==
  ListsInLRU <=> Agree(idleConn, idleLRU) /\ Distinct(idleLRU) /\ Limited(idleConn, idleLRU)
BY DEF ListsInLRU, Agree, Distinct, Limited, InLRU

(* removeIdleConnLocked on lists and LRU, whatever the way the connection  *)
(* e leaves the LRU.                                                       *)
LEMMA AgreeWithout ==
  ASSUME TypeOK, NEW L \in [Keys -> Seq(Conns)], NEW U, NEW V, NEW e \in Conns,
         Agree(L, U), \A x : x # e /\ Contains(U, x) => Contains(V, x)
  PROVE  /\ Agree(ListsWithout(L, e), V)
         /\ ListsWithout(L, e) \in [Keys -> Seq(Conns)]
         /\ \A k \in Keys : Len(ListsWithout(L, e)[k]) <= Len(L[k])
<1> DEFINE h == ckey[e]
           s == RemoveFirst(L[h], e)
           M == ListsWithout(L, e)
<1>1. h \in Keys /\ L[h] \in Seq(Conns)
  BY DEF TypeOK
<1>2. IsInjective(L[h])
  <2>1. DOMAIN L[h] = 1..Len(L[h])
    BY <1>1
  <2> QED BY <1>1, <2>1 DEF Agree, IsInjective
<1>3. /\ s \in Seq(Conns) /\ Len(s) <= Len(L[h]) /\ IsInjective(s) /\ ~Contains(s, e)
      /\ \A x : Contains(s, x) => Contains(L[h], x)
  BY <1>1, <1>2, RemoveFirstProps
<1>4. M = [L EXCEPT ![h] = s]
  BY DEF ListsWithout
<1> HIDE DEF s, M
<1>5. /\ M \in [Keys -> Seq(Conns)] /\ M[h] = s
      /\ \A k \in Keys : k # h => M[k] = L[k]
  BY <1>1, <1>3, <1>4
<1>6. \A k \in Keys : Len(M[k]) <= Len(L[k])
  <2> SUFFICES ASSUME NEW k \in Keys PROVE Len(M[k]) <= Len(L[k])
    OBVIOUS
  <2>1. Len(L[k]) \in Nat
    OBVIOUS
  <2>2. CASE k = h
    BY <1>3, <1>5, <2>2
  <2>3. CASE k # h
    BY <1>5, <2>1, <2>3
  <2> QED BY <2>2, <2>3
<1>7. ASSUME NEW i \in 1..Len(s) PROVE ckey[s[i]] = h /\ Contains(V, s[i])
  <2>1. Contains(s, s[i])
    BY DEF Contains
  <2>2. s[i] # e /\ Contains(L[h], s[i])
    BY <1>3, <2>1
  <2>3. PICK j \in 1..Len(L[h]) : L[h][j] = s[i]
    BY <2>2 DEF Contains
  <2> QED BY <1>1, <2>2, <2>3 DEF Agree
<1>8. \A i, j \in 1..Len(s) : s[i] = s[j] => i = j
  <2>1. DOMAIN s = 1..Len(s)
    BY <1>3
  <2> QED BY <1>3, <2>1 DEF IsInjective
<1>9. ASSUME NEW k \in Keys, k # h, NEW i \in 1..Len(L[k])
      PROVE  ckey[L[k][i]] = k /\ Contains(V, L[k][i])
  <2>1. ckey[L[k][i]] = k /\ Contains(U, L[k][i])
    BY DEF Agree
  <2> QED BY <1>9, <2>1
<1>10. ASSUME NEW k \in Keys
       PROVE  /\ \A i \in 1..Len(M[k]) : ckey[M[k][i]] = k /\ Contains(V, M[k][i])
              /\ \A i, j \in 1..Len(M[k]) : M[k][i] = M[k][j] => i = j
  <2>1. CASE k = h
    BY <1>5, <1>7, <1>8, <2>1
  <2>2. CASE k # h
    BY <1>5, <1>9, <2>2 DEF Agree
  <2> QED BY <2>1, <2>2
<1>11. Agree(M, V)
  BY <1>10 DEF Agree
<1> QED BY <1>5, <1>6, <1>11 DEF M

LEMMA ListsUnchanged ==
  ASSUME TypeOK, ListsInLRU, UNCHANGED <<idleConn, idleLRU>>,
         \A c \in Conns : InLRU(c) => ckey'[c] = ckey[c]
  PROVE  ListsInLRU'
<1>1. \A k \in Keys : \A i \in 1..Len(idleConn[k]) :
         /\ ckey'[idleConn[k][i]] = k /\ Contains(idleLRU', idleConn[k][i])
  BY IdleInLRU DEF InLRU
<1> QED BY <1>1 DEF ListsInLRU, InLRU

LEMMA ListsRemove ==
  ASSUME TypeOK, ListsInLRU, NEW e \in Conns, ckey' = ckey,
         idleConn' = ListsWithout(idleConn, e), idleLRU' = RemoveFirst(idleLRU, e)
  PROVE  ListsInLRU'
<1>0. idleLRU \in Seq(Conns) /\ DOMAIN idleLRU = 1..Len(idleLRU) /\ idleConn \in [Keys -> Seq(Conns)]
  BY DEF TypeOK
<1>1. Agree(idleConn, idleLRU) /\ Distinct(idleLRU) /\ Limited(idleConn, idleLRU)
  BY ListsAgree
<1>2. IsInjective(idleLRU)
  BY <1>0, <1>1 DEF Distinct, IsInjective
<1>3. /\ idleLRU' \in Seq(Conns) /\ Len(idleLRU') <= Len(idleLRU) /\ IsInjective(idleLRU')
      /\ \A x : x # e /\ Contains(idleLRU, x) => Contains(idleLRU', x)
  BY <1>0, <1>2, RemoveFirstProps
<1>4. /\ Agree(idleConn', idleLRU') /\ idleConn' \in [Keys -> Seq(Conns)]
      /\ \A k \in Keys : Len(idleConn'[k]) <= Len(idleConn[k])
  BY <1>0, <1>1, <1>3, AgreeWithout, ZenonT(60)
<1>5. Distinct(idleLRU')
  <2>1. DOMAIN idleLRU' = 1..Len(idleLRU')
    BY <1>3
  <2> QED BY <1>3, <2>1 DEF IsInjective, Distinct
<1>6. Limited(idleConn', idleLRU')
  <2>1. \A k \in Keys : Len(idleConn[k]) \in Nat /\ Len(idleConn'[k]) \in Nat
    BY <1>0, <1>4
  <2>2. Len(idleLRU) \in Nat /\ Len(idleLRU') \in Nat
    BY <1>0, <1>3
  <2>3. ASSUME NEW k \in Keys, Len(idleConn'[k]) > 0
        PROVE  Len(idleConn'[k]) <= MaxIdleConnsPerHost
    <3>1. Len(idleConn'[k]) <= Len(idleConn[k])
      BY <1>4
    <3>2. Len(idleConn[k]) > 0 => Len(idleConn[k]) <= MaxIdleConnsPerHost
      BY <1>1 DEF Limited
    <3> QED BY <2>1, <2>3, <3>1, <3>2, PoolAssumption
  <2>4. MaxIdleConns # 0 => Len(idleLRU') <= MaxIdleConns
    BY <1>1, <1>3, <2>2, PoolAssumption DEF Limited
  <2> QED BY <2>3, <2>4 DEF Limited
<1> QED BY <1>4, <1>5, <1>6 DEF ListsInLRU, Agree, Distinct, Limited, InLRU

(* queueForIdleConn keeps the first n connections of the list of k; those  *)
(* that leave the LRU are among the others.                                *)
LEMMA ListsPrefix ==
  ASSUME TypeOK, ListsInLRU, NEW k \in Keys, NEW n \in 0..Len(idleConn[k]), ckey' = ckey,
         idleConn' = [idleConn EXCEPT ![k] = SubSeq(idleConn[k], 1, n)],
         idleLRU' \in Seq(Conns), Distinct(idleLRU'), Len(idleLRU') <= Len(idleLRU),
         \A x \in Conns : InLRU(x) /\ ~InLRU(x)' =>
            \E i \in (n + 1)..Len(idleConn[k]) : x = idleConn[k][i]
  PROVE  ListsInLRU'
<1>0. /\ \A h \in Keys : idleConn[h] \in Seq(Conns) /\ Len(idleConn[h]) \in Nat
      /\ Len(idleLRU) \in Nat /\ Len(idleLRU') \in Nat
  BY DEF TypeOK
<1>1. /\ \A h \in Keys : h # k => idleConn'[h] = idleConn[h]
      /\ idleConn'[k] = SubSeq(idleConn[k], 1, n)
  BY DEF TypeOK
<1>2. Len(idleConn'[k]) = n /\ \A i \in 1..n : idleConn'[k][i] = idleConn[k][i]
  BY <1>0, <1>1
<1>3. /\ \A h \in Keys : \A i \in 1..Len(idleConn[h]) :
           /\ idleConn[h][i] \in Conns /\ InLRU(idleConn[h][i]) /\ ckey[idleConn[h][i]] = h
      /\ \A h \in Keys : \A i, j \in 1..Len(idleConn[h]) : idleConn[h][i] = idleConn[h][j] => i = j
      /\ \A h \in Keys : Len(idleConn[h]) > 0 => Len(idleConn[h]) <= MaxIdleConnsPerHost
      /\ MaxIdleConns # 0 => Len(idleLRU) <= MaxIdleConns
  BY IdleInLRU DEF ListsInLRU
<1>4. ASSUME NEW h \in Keys, h # k, NEW i \in 1..Len(idleConn[h])
      PROVE  Contains(idleLRU', idleConn[h][i])
  <2>1. \A j \in (n + 1)..Len(idleConn[k]) : j \in 1..Len(idleConn[k])
    BY <1>0
  <2>2. \A j \in (n + 1)..Len(idleConn[k]) : idleConn[h][i] # idleConn[k][j]
    <3>1. ckey[idleConn[h][i]] = h
      BY <1>3
    <3>2. \A j \in 1..Len(idleConn[k]) : ckey[idleConn[k][j]] = k
      BY <1>3
    <3> QED BY <1>4, <2>1, <3>1, <3>2
  <2> QED BY <1>3, <2>2 DEF InLRU
<1>5. ASSUME NEW i \in 1..n PROVE Contains(idleLRU', idleConn[k][i])
  <2>1. i \in 1..Len(idleConn[k])
    BY <1>0
  <2>2. \A j \in (n + 1)..Len(idleConn[k]) : j \in 1..Len(idleConn[k]) /\ i # j
    BY <1>0
  <2>3. \A j \in (n + 1)..Len(idleConn[k]) : idleConn[k][i] # idleConn[k][j]
    BY <1>3, <2>1, <2>2
  <2> QED BY <1>3, <2>1, <2>3 DEF InLRU
<1>6. ASSUME NEW h \in Keys
      PROVE  /\ \A i \in 1..Len(idleConn'[h]) :
                   ckey'[idleConn'[h][i]] = h /\ Contains(idleLRU', idleConn'[h][i])
             /\ \A i, j \in 1..Len(idleConn'[h]) : idleConn'[h][i] = idleConn'[h][j] => i = j
             /\ Len(idleConn'[h]) > 0 => Len(idleConn'[h]) <= MaxIdleConnsPerHost
  <2>1. CASE h # k
    BY <1>1, <1>3, <1>4, <2>1
  <2>2. CASE h = k
    <3>1. \A i \in 1..n : i \in 1..Len(idleConn[k])
      BY <1>0
    <3>2. n > 0 => n <= MaxIdleConnsPerHost
      <4>1. Len(idleConn[k]) > 0 => Len(idleConn[k]) <= MaxIdleConnsPerHost
        BY <1>3
      <4>2. Len(idleConn[k]) \in Nat
        BY <1>0
      <4> QED BY <4>1, <4>2, PoolAssumption
    <3>3. \A i \in 1..n : ckey'[idleConn'[k][i]] = k /\ Contains(idleLRU', idleConn'[k][i])
      BY <1>2, <1>3, <1>5, <3>1
    <3>4. \A i, j \in 1..n : idleConn'[k][i] = idleConn'[k][j] => i = j
      BY <1>2, <1>3, <3>1
    <3> QED BY <1>2, <2>2, <3>2, <3>3, <3>4
  <2> QED BY <2>1, <2>2
<1>7. MaxIdleConns # 0 => Len(idleLRU') <= MaxIdleConns
  BY <1>0, <1>3, PoolAssumption
<1> QED BY <1>6, <1>7 DEF ListsInLRU, Distinct, InLRU

LEMMA ListsQueue ==
  ASSUME TypeOK, ListsInLRU, NEW w \in Wants,
         queueForIdleConnTake(w) \/ queueForIdleConnWait(w)
  PROVE  ListsInLRU'
<1> DEFINE k == WKey[w]
           list == idleConn[k]
<1>0. k \in Keys /\ list \in Seq(Conns) /\ Len(list) \in Nat /\ idleLRU \in Seq(Conns)
  BY PoolAssumption DEF TypeOK
<1>1. ckey' = ckey /\ Len(idleLRU) \in Nat
  BY <1>0 DEF queueForIdleConnTake, queueForIdleConnWait, connVars
<1>2. CASE queueForIdleConnWait(w)
  <2>1. idleConn' = [idleConn EXCEPT ![k] = <<>>] /\ idleLRU' = idleLRU
    BY <1>2 DEF queueForIdleConnWait
  <2>2. SubSeq(list, 1, 0) = <<>> /\ 0 \in 0..Len(list)
    BY <1>0
  <2>3. Distinct(idleLRU') /\ Len(idleLRU') <= Len(idleLRU) /\ \A x : InLRU(x)' <=> InLRU(x)
    BY <1>1, <2>1, ListsAgree DEF InLRU
  <2> QED BY <1>0, <1>1, <2>1, <2>2, <2>3, ListsPrefix, ZenonT(60)
<1>3. CASE queueForIdleConnTake(w)
  <2>1. PICK i \in 1..Len(list) : takeIdle(k, list, i)
    BY <1>3, TakenIndex
  <2>2. list[i] \in Conns /\ i \in 0..Len(list) /\ i - 1 \in 0..Len(list)
    BY <1>0
  <2>3. CASE list[i] \in alt
    <3>1. idleConn' = [idleConn EXCEPT ![k] = SubSeq(list, 1, i)] /\ idleLRU' = idleLRU
      BY <2>1, <2>3 DEF takeIdle
    <3>2. Distinct(idleLRU') /\ Len(idleLRU') <= Len(idleLRU) /\ \A x : InLRU(x)' <=> InLRU(x)
      BY <1>1, <3>1, ListsAgree DEF InLRU
    <3> QED BY <1>0, <1>1, <2>2, <3>1, <3>2, ListsPrefix, ZenonT(60)
  <2>4. CASE list[i] \notin alt
    <3>1. /\ idleConn' = [idleConn EXCEPT ![k] = SubSeq(list, 1, i - 1)]
          /\ idleLRU' = RemoveFirst(idleLRU, list[i])
      BY <2>1, <2>4 DEF takeIdle
    <3>2. DOMAIN idleLRU = 1..Len(idleLRU)
      BY <1>0
    <3>3. IsInjective(idleLRU)
      BY <3>2, ListsAgree DEF Distinct, IsInjective
    <3>4. /\ idleLRU' \in Seq(Conns) /\ Len(idleLRU') <= Len(idleLRU) /\ IsInjective(idleLRU')
          /\ \A x : x # list[i] /\ InLRU(x) => InLRU(x)'
      BY <1>0, <3>1, <3>3, RemoveFirstProps DEF InLRU
    <3>5. Distinct(idleLRU')
      <4>1. DOMAIN idleLRU' = 1..Len(idleLRU')
        BY <3>4
      <4> QED BY <3>4, <4>1 DEF IsInjective, Distinct
    <3>6. i \in ((i - 1) + 1)..Len(list)
      BY <1>0
    <3>7. \A x \in Conns : InLRU(x) /\ ~InLRU(x)' => \E j \in ((i - 1) + 1)..Len(list) : x = list[j]
      BY <3>4, <3>6
    <3> QED BY <1>0, <1>1, <2>2, <3>1, <3>4, <3>5, <3>7, ListsPrefix, ZenonT(60)
  <2> QED BY <2>3, <2>4
<1> QED BY <1>2, <1>3

LEMMA ListsAdd ==
  ASSUME TypeOK, ListsInLRU, NEW p \in Putters, tryPutIdleConnAdd(p),
         put[p].c \in Conns, ~InLRU(put[p].c)
  PROVE  ListsInLRU'
<1> DEFINE d == put[p].c
           k == ckey[d]
           lists == [idleConn EXCEPT ![k] = Append(idleConn[k], d)]
           lru == <<d>> \o idleLRU
           oldest == Last(lru)
<1>0. d \in Conns /\ k \in Keys /\ idleConn[k] \in Seq(Conns) /\ Len(idleConn[k]) \in Nat
  BY DEF TypeOK
<1>1. /\ ckey' = ckey /\ Len(idleConn[k]) < MaxIdleConnsPerHost
      /\ \/ /\ MaxIdleConns # 0 /\ Len(lru) > MaxIdleConns
            /\ idleConn' = ListsWithout(lists, oldest) /\ idleLRU' = Front(lru)
         \/ /\ ~(MaxIdleConns # 0 /\ Len(lru) > MaxIdleConns)
            /\ idleConn' = lists /\ idleLRU' = lru
  BY DEF tryPutIdleConnAdd
<1>2. Agree(idleConn, idleLRU) /\ Distinct(idleLRU) /\ Limited(idleConn, idleLRU)
  BY ListsAgree
<1>3. /\ lru \in Seq(Conns) /\ Len(lru) = 1 + Len(idleLRU) /\ Len(idleLRU) \in Nat
      /\ lru[1] = d /\ \A i \in 1..Len(idleLRU) : lru[i + 1] = idleLRU[i]
      /\ \A i \in 1..Len(lru) : i # 1 => i - 1 \in 1..Len(idleLRU) /\ lru[i] = idleLRU[i - 1]
      /\ oldest = lru[Len(lru)] /\ oldest \in Conns
      /\ Front(lru) \in Seq(Conns) /\ Len(Front(lru)) = Len(idleLRU)
      /\ \A i \in 1..Len(idleLRU) : Front(lru)[i] = lru[i]
  BY <1>0, OldestIsConn
<1>4. /\ lists \in [Keys -> Seq(Conns)] /\ lists[k] = Append(idleConn[k], d)
      /\ \A h \in Keys : h # k => lists[h] = idleConn[h]
  BY <1>0 DEF TypeOK
<1> HIDE DEF oldest, lru, lists, k, d
<1>5. /\ Len(lists[k]) = Len(idleConn[k]) + 1 /\ lists[k][Len(idleConn[k]) + 1] = d
      /\ \A i \in 1..Len(idleConn[k]) : lists[k][i] = idleConn[k][i]
  BY <1>0, <1>4
<1>6. \A i \in 1..Len(idleLRU) : idleLRU[i] # d
  BY DEF InLRU, Contains, d
<1>7. Contains(lru, d) /\ \A x : Contains(idleLRU, x) => Contains(lru, x)
  <2>1. 1 \in 1..Len(lru) /\ \A i \in 1..Len(idleLRU) : i + 1 \in 1..Len(lru)
    BY <1>3
  <2> QED BY <1>3, <2>1 DEF Contains
<1>8. Distinct(lru)
  <2> SUFFICES ASSUME NEW i \in 1..Len(lru), NEW j \in 1..Len(lru), lru[i] = lru[j] PROVE i = j
    BY DEF Distinct
  <2>1. CASE i = 1 \/ j = 1
    BY <1>3, <1>6, <2>1, ZenonT(60)
  <2>2. CASE i # 1 /\ j # 1
    <3>1. /\ i - 1 \in 1..Len(idleLRU) /\ j - 1 \in 1..Len(idleLRU)
          /\ idleLRU[i - 1] = idleLRU[j - 1]
      BY <1>3, <2>2
    <3>2. i - 1 = j - 1
      BY <1>2, <3>1 DEF Distinct
    <3> QED BY <3>2
  <2> QED BY <2>1, <2>2
<1>9. \A i \in 1..Len(idleConn[k]) : idleConn[k][i] # d
  <2>1. \A i \in 1..Len(idleConn[k]) : Contains(idleLRU, idleConn[k][i])
    BY <1>0, <1>2 DEF Agree
  <2> QED BY <1>6, <2>1 DEF Contains
<1>10. ASSUME NEW h \in Keys
       PROVE  /\ \A i \in 1..Len(lists[h]) : ckey[lists[h][i]] = h /\ Contains(lru, lists[h][i])
              /\ \A i, j \in 1..Len(lists[h]) : lists[h][i] = lists[h][j] => i = j
              /\ Len(lists[h]) > 0 => Len(lists[h]) <= MaxIdleConnsPerHost
  <2>1. CASE h # k
    BY <1>2, <1>4, <1>7, <2>1 DEF Agree, Limited
  <2>2. CASE h = k
    <3>1. \A i \in 1..Len(lists[k]) : i \in 1..Len(idleConn[k]) \/ i = Len(idleConn[k]) + 1
      BY <1>0, <1>5
    <3>2. ASSUME NEW i \in 1..Len(lists[k])
          PROVE  ckey[lists[k][i]] = k /\ Contains(lru, lists[k][i])
      <4>1. CASE i \in 1..Len(idleConn[k])
        <5>1. ckey[idleConn[k][i]] = k /\ Contains(idleLRU, idleConn[k][i])
          BY <1>0, <1>2, <4>1 DEF Agree
        <5> QED BY <1>5, <1>7, <4>1, <5>1
      <4>2. CASE i = Len(idleConn[k]) + 1
        BY <1>5, <1>7, <4>2 DEF k
      <4> QED BY <3>1, <4>1, <4>2
    <3>3. ASSUME NEW i \in 1..Len(lists[k]), NEW j \in 1..Len(lists[k]), lists[k][i] = lists[k][j]
          PROVE  i = j
      <4>1. CASE i \in 1..Len(idleConn[k]) /\ j \in 1..Len(idleConn[k])
        BY <1>0, <1>2, <1>5, <3>3, <4>1 DEF Agree
      <4>2. CASE i = Len(idleConn[k]) + 1 \/ j = Len(idleConn[k]) + 1
        BY <1>5, <1>9, <3>1, <3>3, <4>2
      <4> QED BY <3>1, <4>1, <4>2
    <3>4. Len(lists[k]) <= MaxIdleConnsPerHost
      BY <1>0, <1>1, <1>5, PoolAssumption
    <3> QED BY <2>2, <3>2, <3>3, <3>4, ZenonT(60)
  <2> QED BY <2>1, <2>2
<1>11. Agree(lists, lru)
  BY <1>10 DEF Agree
<1>12. CASE ~(MaxIdleConns # 0 /\ Len(lru) > MaxIdleConns)
  <2>1. idleConn' = lists /\ idleLRU' = lru
    BY <1>1, <1>12
  <2>2. MaxIdleConns # 0 => Len(lru) <= MaxIdleConns
    BY <1>3, <1>12, PoolAssumption
  <2> QED BY <1>1, <1>8, <1>10, <2>1, <2>2 DEF ListsInLRU, Distinct, InLRU
<1>13. CASE MaxIdleConns # 0 /\ Len(lru) > MaxIdleConns
  <2>1. idleConn' = ListsWithout(lists, oldest) /\ idleLRU' = Front(lru)
    BY <1>1, <1>13
  <2>2. \A x : x # oldest /\ Contains(lru, x) => Contains(Front(lru), x)
    <3>1. \A i \in 1..Len(lru) : i # Len(lru) => i \in 1..Len(idleLRU)
      BY <1>3
    <3> QED BY <1>3, <3>1 DEF Contains
  <2>3. /\ Agree(idleConn', idleLRU') /\ idleConn' \in [Keys -> Seq(Conns)]
        /\ \A h \in Keys : Len(idleConn'[h]) <= Len(lists[h])
    BY <1>3, <1>4, <1>11, <2>1, <2>2, AgreeWithout, ZenonT(60)
  <2>4. \A h \in Keys : Len(idleConn'[h]) > 0 => Len(idleConn'[h]) <= MaxIdleConnsPerHost
    <3>1. \A h \in Keys : Len(lists[h]) \in Nat /\ Len(idleConn'[h]) \in Nat
      BY <1>4, <2>3
    <3> SUFFICES ASSUME NEW h \in Keys, Len(idleConn'[h]) > 0
                 PROVE  Len(idleConn'[h]) <= MaxIdleConnsPerHost
      OBVIOUS
    <3>2. Len(idleConn'[h]) <= Len(lists[h])
      BY <2>3
    <3>3. Len(lists[h]) > 0 => Len(lists[h]) <= MaxIdleConnsPerHost
      BY <1>10
    <3> QED BY <3>1, <3>2, <3>3, PoolAssumption
  <2>5. Distinct(idleLRU')
    <3>1. \A i \in 1..Len(idleLRU) : i \in 1..Len(lru)
      BY <1>3
    <3> QED BY <1>3, <1>8, <2>1, <3>1 DEF Distinct
  <2>6. MaxIdleConns # 0 => Len(idleLRU') <= MaxIdleConns
    BY <1>2, <1>3, <2>1 DEF Limited
  <2> QED BY <1>1, <2>3, <2>4, <2>5, <2>6 DEF ListsInLRU, Agree, Distinct, InLRU
<1> QED BY <1>12, <1>13

LEMMA ListsNext ==
  ASSUME TypeOK, PlacesInv, Next
  PROVE  ListsInLRU'
<1>0. ListsInLRU
  BY DEF PlacesInv
<1>1. CASE UNCHANGED <<idleConn, idleLRU, ckey>>
  BY <1>0, <1>1, ListsUnchanged
<1>2. ASSUME NEW w \in Wants, queueForIdleConnTake(w) \/ queueForIdleConnWait(w)
      PROVE  ListsInLRU'
  BY <1>0, <1>2, ListsQueue
<1>3. ASSUME NEW w \in Wants, NEW d \in Conns, NEW h2 \in {FALSE, HTTP2}, dialConnForOk(w, d, h2)
      PROVE  ListsInLRU'
  <2>1. /\ UNCHANGED <<idleConn, idleLRU>> /\ conn[d] = "unborn"
        /\ ckey' = [ckey EXCEPT ![d] = WKey[w]]
    BY <1>3 DEF dialConnForOk, idleVars
  <2>2. ~InLRU(d)
    BY <2>1 DEF PlacesInv, UnbornNowhere
  <2>3. \A c \in Conns : InLRU(c) => ckey'[c] = ckey[c]
    BY <2>1, <2>2 DEF TypeOK
  <2> QED BY <1>0, <2>1, <2>3, ListsUnchanged
<1>4. ASSUME NEW p \in Putters, tryPutIdleConnAdd(p) PROVE ListsInLRU'
  <2>1. put[p].c \in Conns /\ Undelivered(put[p].c)
    BY <1>4 DEF tryPutIdleConnAdd, TypeOK
  <2>2. ~InLRU(put[p].c)
    BY <2>1 DEF Undelivered, PlacesInv, OneHolder, HeldOnce, Unheld
  <2> QED BY <1>0, <1>4, <2>1, <2>2, ListsAdd
<1>5. ASSUME NEW w \in Wants, noCachedConn(w) PROVE ListsInLRU'
  <2>1. res[w] \in Conns /\ removeIdleConnLocked(res[w]) /\ ckey' = ckey
    BY <1>5 DEF noCachedConn, HTTP2Conn, connVars, TypeOK
  <2> QED BY <1>0, <2>1, ListsRemove DEF removeIdleConnLocked
<1>6. ASSUME NEW c \in Conns, readLoopExit(c) \/ closeConnIfStillIdle(c) PROVE ListsInLRU'
  <2>1. /\ ckey' = ckey
        /\ removeIdleConnLocked(c) \/ UNCHANGED <<idleConn, idleLRU>>
    BY <1>6 DEF readLoopExit, closeConnIfStillIdle, connVars
  <2> QED BY <1>0, <1>1, <2>1, ListsRemove DEF removeIdleConnLocked
<1>7. CASE CloseIdleConnections
  <2>1. (\A k \in Keys : idleConn'[k] = <<>>) /\ idleLRU' = <<>>
    BY <1>7 DEF CloseIdleConnections
  <2>2. Len(<<>>) = 0
    OBVIOUS
  <2> QED BY <2>1, <2>2, PoolAssumption DEF ListsInLRU
<1>8. ASSUME NEW w \in Wants, UseStep(w), ~noCachedConn(w)
      PROVE  UNCHANGED <<idleConn, idleLRU, ckey>>
  BY <1>8 DEF UseStep, roundTripCanceled, readLoopPut, roundTripLost, altRoundTrip,
     noCachedConnDec, connVars, idleVars
<1>9. ASSUME NEW p \in Putters, PutStep(p), ~tryPutIdleConnAdd(p)
      PROVE  UNCHANGED <<idleConn, idleLRU, ckey>>
  BY <1>9 DEF PutStep, tryPutIdleConnCheck, tryPutIdleConnShared, tryPutIdleConnDeliver,
     tryPutIdleConnRefuse, putOrCloseIdleConnClose, connVars, idleVars
<1>10. ASSUME NEW c \in Conns, closeTaken(c) \/ persistConnClose(c) \/ idleTimer(c)
       PROVE  UNCHANGED <<idleConn, idleLRU, ckey>>
  BY <1>10 DEF closeTaken, persistConnClose, idleTimer, connVars, idleVars
<1>11. ASSUME NEW w \in Wants,
              \/ queueForIdleConnDisabled(w) \/ getConnCancel(w) \/ queueForDialNow(w)
              \/ queueForDialWait(w) \/ getConnReady(w) \/ dialConnForErr(w) \/ dialConnForDec(w)
       PROVE  UNCHANGED <<idleConn, idleLRU, ckey>>
  BY <1>11 DEF queueForIdleConnDisabled, getConnCancel, queueForDialNow, queueForDialWait,
     getConnReady, dialConnForErr, dialConnForDec, connVars, idleVars
<1> QED BY <1>1, <1>2, <1>3, <1>4, <1>5, <1>6, <1>7, <1>8, <1>9, <1>10, <1>11, ZenonT(60)
    DEF Next, queueForIdleConnNone, GetConnStep, CloseStep

LEMMA PlacesInvariant == Spec => []PlacesInv
<1>1. Init => PlacesInv
  <2> SUFFICES ASSUME Init PROVE PlacesInv
    OBVIOUS
  <2>1. /\ \A w \in Wants : res[w] = NoConn /\ wpc[w] = "new"
        /\ \A p \in Putters : put[p].c = NoConn
        /\ closing = {} /\ alt = {} /\ idleLRU = <<>> /\ \A k \in Keys : idleConn[k] = <<>>
    BY DEF Init, NoPut
  <2>2. Len(<<>>) = 0
    OBVIOUS
  <2>3. \A c \in Conns : Unheld(c) /\ ~InLRU(c)
    BY <2>1, <2>2, PoolAssumption DEF Unheld, Has, Holding, InLRU, Contains
  <2>4. ListsInLRU
    BY <2>1, <2>2, PoolAssumption DEF ListsInLRU
  <2> QED BY <2>1, <2>3, <2>4, PoolAssumption
      DEF PlacesInv, OneHolder, HeldOnce, UnbornNowhere, Unheld
<1>2. TypeOK /\ CallsInv /\ PlacesInv /\ [Next]_vars => PlacesInv'
  <2>1. ASSUME TypeOK, CallsInv, PlacesInv, Next PROVE PlacesInv'
    BY <2>1, PlacesNext, ListsNext DEF PlacesInv
  <2>2. ASSUME PlacesInv, UNCHANGED vars PROVE PlacesInv'
    BY <2>2 DEF vars, PlacesInv, OneHolder, HeldOnce, UnbornNowhere, Unheld, Has, Holding,
       ListsInLRU, InLRU
  <2> QED BY <2>1, <2>2
<1> QED BY <1>1, <1>2, TypeCorrect, CallsInvariant, PTL DEF Spec

(* Neither log.Fatalf("dup idle pconn") nor panic("persistConn was already *)
(* in LRU") of tryPutIdleConn and connLRU.add can be reached, and the      *)
(* limits MaxIdleConns and MaxIdleConnsPerHost hold, whatever the calls,   *)
(* connections and settings of the Transport, HTTP/2 included.             *)
THEOREM IdleListsSoundHolds == Spec => []IdleListsSound
<1>1. TypeOK /\ PlacesInv => IdleListsSound
  <2> SUFFICES ASSUME TypeOK, PlacesInv PROVE IdleListsSound
    OBVIOUS
  <2>1. /\ \A k \in Keys : DOMAIN idleConn[k] = 1..Len(idleConn[k])
        /\ DOMAIN idleLRU = 1..Len(idleLRU)
    BY DEF TypeOK
  <2>2. (\A k \in Keys : IsInjective(idleConn[k])) /\ IsInjective(idleLRU)
    BY <2>1 DEF IsInjective, PlacesInv, ListsInLRU
  <2>3. \A p \in Putters : put[p].at = "put" /\ put[p].c \notin alt => ~InLRU(put[p].c)
    BY ZenonT(60) DEF TypeOK, PlacesInv, OneHolder, HeldOnce, Unheld
  <2> QED BY <2>2, <2>3 DEF IdleListsSound, PlacesInv, ListsInLRU
<1> QED BY <1>1, TypeCorrect, PlacesInvariant, PTL

(* An HTTP/1 connection is in one place at a time: with one request, with  *)
(* one goroutine that gives it back, in one idle list, or taken by         *)
(* CloseIdleConnections ("HTTP/1: only one client can use pconn").         *)
THEOREM ExclusiveHolds == Spec => []Exclusive
<1>1. TypeOK /\ PlacesInv => Exclusive
  <2> SUFFICES ASSUME TypeOK, PlacesInv PROVE Exclusive
    OBVIOUS
  <2>1. ASSUME NEW c \in Conns, Idle(c) PROVE InLRU(c)
    <3>1. ckey[c] \in Keys
      BY DEF TypeOK
    <3>2. PICK i \in 1..Len(idleConn[ckey[c]]) : idleConn[ckey[c]][i] = c
      BY <2>1 DEF Idle, Contains
    <3> QED BY <3>1, <3>2, IdleInLRU DEF PlacesInv
  <2>2. ASSUME NEW c \in Conns \ alt PROVE HeldOnce(c)
    BY DEF PlacesInv, OneHolder
  <2> QED BY <2>1, <2>2 DEF Exclusive, HeldOnce, Unheld, Has
<1> QED BY <1>1, TypeCorrect, PlacesInvariant, PTL

-----------------------------------------------------------------------------
(* Where the connections of the idle lists come from.                      *)

(* A connection comes into an idle list only from a putter. *)
LEMMA NewIdle ==
  ASSUME TypeOK, Next, NEW k \in Keys, NEW c \in Conns, Contains(idleConn'[k], c)
  PROVE  Contains(idleConn[k], c) \/ \E p \in Putters : put[p].c = c
<1> DEFINE Goal == Contains(idleConn[k], c) \/ \E p \in Putters : put[p].c = c
<1>0. idleConn \in [Keys -> Seq(Conns)] /\ \A h \in Keys : Len(idleConn[h]) \in Nat
  BY DEF TypeOK
<1>1. CASE idleConn' = idleConn
  BY <1>1
<1>2. ASSUME NEW L \in [Keys -> Seq(Conns)], NEW d \in Conns, idleConn' = ListsWithout(L, d)
      PROVE  Contains(L[k], c)
  <2>1. ckey[d] \in Keys /\ L[k] \in Seq(Conns)
    BY DEF TypeOK
  <2>2. idleConn'[k] = L[k] \/ idleConn'[k] = RemoveFirst(L[k], d)
    BY <1>2, <2>1 DEF ListsWithout
  <2> QED BY <2>1, <2>2, RemoveFirstProps
<1>3. ASSUME NEW w \in Wants, queueForIdleConnTake(w) \/ queueForIdleConnWait(w) PROVE Goal
  <2> DEFINE h == WKey[w]
             list == idleConn[h]
  <2>0. h \in Keys /\ list \in Seq(Conns) /\ Len(list) \in Nat
    BY <1>0, PoolAssumption
  <2>1. PICK n \in 0..Len(list) : idleConn' = [idleConn EXCEPT ![h] = SubSeq(list, 1, n)]
    <3>1. CASE queueForIdleConnWait(w)
      <4>1. SubSeq(list, 1, 0) = <<>> /\ 0 \in 0..Len(list)
        BY <2>0
      <4> QED BY <3>1, <4>1, ZenonT(60) DEF queueForIdleConnWait
    <3>2. CASE queueForIdleConnTake(w)
      <4>1. PICK i \in 1..Len(list) : takeIdle(h, list, i)
        BY <3>2, TakenIndex
      <4>2. \A m \in Nat : \A j \in 1..m : j \in 0..m /\ j - 1 \in 0..m
        OBVIOUS
      <4>3. i \in 0..Len(list) /\ i - 1 \in 0..Len(list)
        BY <2>0, <4>2
      <4> QED BY <4>1, <4>3 DEF takeIdle
    <3> QED BY <1>3, <3>1, <3>2
  <2>2. CASE k # h
    BY <1>0, <2>1, <2>2
  <2>3. CASE k = h
    <3>1. idleConn'[k] = SubSeq(list, 1, n)
      BY <1>0, <2>1, <2>3
    <3>2. Len(idleConn'[k]) = n /\ \A i \in 1..n : idleConn'[k][i] = list[i] /\ i \in 1..Len(list)
      BY <2>0, <3>1
    <3> QED BY <2>3, <3>2 DEF Contains
  <2> QED BY <2>2, <2>3
<1>4. ASSUME NEW p \in Putters, tryPutIdleConnAdd(p) PROVE Goal
  <2> DEFINE d == put[p].c
             h == ckey[d]
             lists == [idleConn EXCEPT ![h] = Append(idleConn[h], d)]
             oldest == Last(<<d>> \o idleLRU)
  <2>1. d \in Conns /\ h \in Keys /\ idleConn[h] \in Seq(Conns)
    BY <1>4 DEF tryPutIdleConnAdd, TypeOK
  <2>2. oldest \in Conns
    BY <2>1, OldestIsConn
  <2>3. idleConn' = ListsWithout(lists, oldest) \/ idleConn' = lists
    BY <1>4 DEF tryPutIdleConnAdd
  <2>4. lists \in [Keys -> Seq(Conns)]
    BY <2>1 DEF TypeOK
  <2>5. Contains(lists[k], c) => Contains(idleConn[k], c) \/ c = d
    <3>1. CASE k # h
      BY <1>0, <2>1, <3>1
    <3>2. CASE k = h
      <4>1. lists[k] = Append(idleConn[k], d)
        BY <1>0, <2>1, <3>2
      <4> HIDE DEF lists
      <4>2. /\ Len(lists[k]) = Len(idleConn[k]) + 1 /\ lists[k][Len(idleConn[k]) + 1] = d
            /\ \A i \in 1..Len(idleConn[k]) : lists[k][i] = idleConn[k][i]
        BY <1>0, <4>1
      <4>3. \A i \in 1..Len(lists[k]) : i \in 1..Len(idleConn[k]) \/ i = Len(idleConn[k]) + 1
        BY <1>0, <4>2
      <4> QED BY <4>2, <4>3 DEF Contains
    <3> QED BY <3>1, <3>2
  <2> HIDE DEF lists, oldest
  <2>6. Contains(lists[k], c)
    BY <1>2, <2>2, <2>3, <2>4
  <2> QED BY <2>5, <2>6
<1>5. ASSUME NEW w \in Wants,
             \/ queueForIdleConnDisabled(w) \/ getConnCancel(w) \/ GetConnStep(w) \/ UseStep(w)
      PROVE  Goal
  <2>1. CASE noCachedConn(w)
    <3>1. res[w] \in Conns /\ idleConn' = ListsWithout(idleConn, res[w])
      BY <2>1 DEF noCachedConn, HTTP2Conn, removeIdleConnLocked, TypeOK
    <3> QED BY <1>0, <1>2, <3>1
  <2> QED BY <1>1, <1>5, <2>1 DEF queueForIdleConnDisabled, getConnCancel, GetConnStep,
      queueForDialNow, queueForDialWait, getConnReady, dialConnForOk, dialConnForErr,
      dialConnForDec, UseStep, roundTripCanceled, readLoopPut, roundTripLost, altRoundTrip,
      noCachedConnDec, idleVars
<1>6. ASSUME NEW p \in Putters, PutStep(p), ~tryPutIdleConnAdd(p) PROVE idleConn' = idleConn
  BY <1>6 DEF PutStep, tryPutIdleConnCheck, tryPutIdleConnShared, tryPutIdleConnDeliver,
     tryPutIdleConnRefuse, putOrCloseIdleConnClose, idleVars
<1>7. ASSUME NEW d \in Conns, CloseStep(d) \/ persistConnClose(d) \/ idleTimer(d) PROVE Goal
  <2>1. idleConn' = idleConn \/ idleConn' = ListsWithout(idleConn, d)
    BY <1>7 DEF CloseStep, readLoopExit, closeTaken, closeConnIfStillIdle, persistConnClose,
       idleTimer, removeIdleConnLocked, idleVars
  <2> QED BY <1>0, <1>1, <1>2, <2>1
<1>8. CASE CloseIdleConnections
  <2>1. idleConn'[k] = <<>>
    BY <1>8 DEF CloseIdleConnections
  <2>2. Len(<<>>) = 0
    OBVIOUS
  <2> QED BY <2>1, <2>2 DEF Contains
<1> QED BY <1>1, <1>3, <1>4, <1>5, <1>6, <1>7, <1>8 DEF Next, queueForIdleConnNone
=============================================================================
