------------------------ MODULE TransportPoolPlaces ------------------------
(***************************************************************************)
(* Where a connection can be: an HTTP/1 connection has one holder, and the *)
(* idle lists agree with the LRU and with the limits.                      *)
(***************************************************************************)
EXTENDS TransportPoolCalls

PlacesInv == OneHolder /\ UnbornNowhere /\ ListsInLRU

(* c comes into nobody's hands. *)
Shrinks(c) ==
    /\ \A w \in Wants : Has(w, c)' => Has(w, c)
    /\ \A p \in Putters : put'[p].c = c => put[p].c = c
    /\ c \in closing' => c \in closing
    /\ InLRU(c)' => InLRU(c)

LEMMA ShrinksHeldOnce ==
  ASSUME NEW c \in Conns, HeldOnce(c), Shrinks(c)
  PROVE  HeldOnce(c)'
<1>1. \A w \in Wants : Has(w, c)' => Has(w, c)
  BY DEF Shrinks
<1>2. \A p \in Putters : put'[p].c = c => put[p].c = c
  BY DEF Shrinks
<1>3. (c \in closing' => c \in closing) /\ (InLRU(c)' => InLRU(c))
  BY DEF Shrinks
<1> QED BY <1>1, <1>2, <1>3 DEF HeldOnce, Unheld

(* What a step may do to the connection c: it stays where it is or is let  *)
(* go of; or it is, or becomes, a dialed one and has one holder again.     *)
PlacesStep(c) ==
    /\ conn'[c] = "unborn" => conn[c] = "unborn"
    /\ c \in alt => c \in alt'
    /\ \/ /\ Shrinks(c)
          /\ \A w \in Wants : res'[w] = c => res[w] = c
          /\ c \in alt' => c \in alt
       \/ /\ conn'[c] # "unborn"
          /\ c \notin alt' => HeldOnce(c)'

LEMMA PlacesFollow ==
  ASSUME OneHolder, UnbornNowhere, \A c \in Conns : PlacesStep(c)
  PROVE  OneHolder' /\ UnbornNowhere'
<1>1. ASSUME NEW c \in Conns, c \notin alt' PROVE HeldOnce(c)'
  <2>1. CASE Shrinks(c)
    BY <1>1, <2>1, ShrinksHeldOnce DEF PlacesStep, OneHolder
  <2> QED BY <1>1, <2>1 DEF PlacesStep
<1>2. ASSUME NEW c \in Conns, conn'[c] = "unborn"
      PROVE  /\ c \notin alt' /\ Unheld(c)' /\ ~InLRU(c)'
             /\ \A w \in Wants : res'[w] # c
  <2>1. /\ conn[c] = "unborn" /\ Shrinks(c)
        /\ \A w \in Wants : res'[w] = c => res[w] = c
        /\ c \in alt' => c \in alt
    BY <1>2 DEF PlacesStep
  <2>2. c \notin alt /\ Unheld(c) /\ ~InLRU(c) /\ \A w \in Wants : res[w] # c
    BY <2>1 DEF UnbornNowhere
  <2> QED BY <2>1, <2>2 DEF Shrinks, Unheld
<1> QED BY <1>1, <1>2 DEF OneHolder, UnbornNowhere

(* Closing a connection leaves everybody's hold on it as it is. *)
LEMMA CloseKeepsBorn ==
  ASSUME TypeOK, NEW d \in Conns, NEW r, closeLocked(d, r)
  PROVE  \A c \in Conns : (conn'[c] = "unborn") <=> (conn[c] = "unborn")
BY DEF closeLocked, TypeOK

LEMMA PlacesUnchanged ==
  ASSUME NEW c \in Conns, UNCHANGED <<wpc, res, alt, put, closing, idleLRU>>,
         (conn'[c] = "unborn") <=> (conn[c] = "unborn")
  PROVE  PlacesStep(c)
BY DEF PlacesStep, Shrinks, Has, Holding, InLRU

(* The LRU holds nothing twice, so that removing a connection from it      *)
(* removes it for good; a connection in an idle list is in the LRU.        *)
LEMMA LRUWithout ==
  ASSUME TypeOK, ListsInLRU, NEW d \in Conns, idleLRU' = RemoveFirst(idleLRU, d)
  PROVE  ~InLRU(d)' /\ \A c : InLRU(c)' => InLRU(c)
<1>0. idleLRU \in Seq(Conns) /\ DOMAIN idleLRU = 1..Len(idleLRU)
  BY DEF TypeOK
<1>1. IsInjective(idleLRU)
  BY <1>0 DEF ListsInLRU, IsInjective
<1> QED BY <1>0, <1>1, RemoveFirstProps DEF InLRU

LEMMA IdleInLRU ==
  ASSUME TypeOK, ListsInLRU, NEW k \in Keys, NEW i \in 1..Len(idleConn[k])
  PROVE  /\ idleConn[k][i] \in Conns /\ InLRU(idleConn[k][i])
         /\ ckey[idleConn[k][i]] = k
<1>1. idleConn[k] \in Seq(Conns)
  BY DEF TypeOK
<1> QED BY <1>1 DEF ListsInLRU, InLRU

(* The connection that queueForIdleConn takes is one of the list. *)
LEMMA TakenIndex ==
  ASSUME TypeOK, NEW w \in Wants, queueForIdleConnTake(w)
  PROVE  \E i \in 1..Len(idleConn[WKey[w]]) :
            /\ conn[idleConn[WKey[w]][i]] = "open"
            /\ res' = tryDeliver(w, idleConn[WKey[w]][i])
            /\ takeIdle(WKey[w], idleConn[WKey[w]], i)
<1>1. PICK list : list = idleConn[WKey[w]]
  OBVIOUS
<1>2. Len(list) \in Nat
  BY <1>1, PoolAssumption DEF TypeOK
<1>3. PICK old \in OldPrefixes(list) : \E i \in Usable(list, old) :
        res' = tryDeliver(w, list[i]) /\ takeIdle(WKey[w], list, i)
  BY <1>1 DEF queueForIdleConnTake
<1>4. old \in Nat
  BY <1>2 DEF OldPrefixes
<1>5. \A i \in Usable(list, old) : i \in 1..Len(list) /\ conn[list[i]] = "open"
  BY <1>2, <1>4 DEF Usable
<1> QED BY <1>1, <1>3, <1>5

(* The calls of getConn. *)
LEMMA PlacesTake ==
  ASSUME TypeOK, PlacesInv, NEW w \in Wants, queueForIdleConnTake(w), NEW c \in Conns
  PROVE  PlacesStep(c)
<1> DEFINE k == WKey[w]
           list == idleConn[k]
<1>0. k \in Keys
  BY PoolAssumption
<1>1. PICK i \in 1..Len(list) :
        conn[list[i]] = "open" /\ res' = tryDeliver(w, list[i]) /\ takeIdle(k, list, i)
  BY TakenIndex
<1> DEFINE d == list[i]
<1>2. d \in Conns /\ InLRU(d)
  BY <1>0, <1>1, IdleInLRU DEF PlacesInv
<1>3. /\ wpc[w] = "new" /\ res' = [res EXCEPT ![w] = d] /\ wpc' = [wpc EXCEPT ![w] = "got"]
      /\ UNCHANGED <<conn, alt, put, closing>>
  BY <1>1, ZenonT(60) DEF queueForIdleConnTake, tryDeliver, connVars
<1>4. \/ d \in alt /\ idleLRU' = idleLRU
      \/ d \notin alt /\ idleLRU' = RemoveFirst(idleLRU, d)
  BY <1>1 DEF takeIdle
<1>5. conn[d] = "open"
  BY <1>1
<1> HIDE DEF d, list, k
<1>6. \A e : InLRU(e)' => InLRU(e)
  BY <1>2, <1>4, LRUWithout DEF PlacesInv, InLRU
<1>7. \A v \in Wants : (v # w \/ c # d) => (Has(v, c)' => Has(v, c))
  BY <1>3 DEF Has, Holding, TypeOK
<1>8. CASE c # d
  BY <1>3, <1>6, <1>7, <1>8 DEF PlacesStep, Shrinks, TypeOK
<1>9. CASE c = d /\ d \in alt
  BY <1>3, <1>5, <1>9 DEF PlacesStep
<1>10. CASE c = d /\ d \notin alt
  <2>1. Unheld(c)
    BY <1>2, <1>10 DEF PlacesInv, OneHolder, HeldOnce
  <2>2. ~InLRU(c)'
    BY <1>4, <1>10, LRUWithout DEF PlacesInv
  <2>3. HeldOnce(c)'
    BY <1>3, <1>7, <2>1, <2>2 DEF HeldOnce, Unheld
  <2> QED BY <1>3, <1>5, <1>10, <2>3 DEF PlacesStep
<1> QED BY <1>8, <1>9, <1>10

LEMMA PlacesCancel ==
  ASSUME TypeOK, PlacesInv, NEW w \in Wants, getConnCancel(w), NEW c \in Conns
  PROVE  PlacesStep(c)
<1>1. /\ wpc[w] = "select" /\ wpc' = [wpc EXCEPT ![w] = "done"]
      /\ res' = [res EXCEPT ![w] = Err] /\ put' = cancelGivesBack(w, res[w])
      /\ UNCHANGED <<conn, alt, closing, idleLRU>>
  BY DEF getConnCancel, connVars, idleVars
<1>2. \A v \in Wants : (Has(v, c)' => Has(v, c)) /\ ~Has(w, c)'
  BY <1>1, PoolAssumption DEF Has, Holding, TypeOK
<1>3. \A v \in Wants : res'[v] = c => res[v] = c
  BY <1>1, PoolAssumption DEF TypeOK
<1>4. InLRU(c)' <=> InLRU(c)
  BY <1>1 DEF InLRU
<1>5. Caller(w) \in Putters
  BY PuttersType
<1>6. CASE res[w] # c
  <2>1. \A p \in Putters : put'[p].c = c => put[p].c = c
    BY <1>1, <1>5, <1>6 DEF cancelGivesBack, TypeOK
  <2> QED BY <1>1, <1>2, <1>3, <1>4, <2>1 DEF PlacesStep, Shrinks
<1>7. CASE res[w] = c
  <2>1. Has(w, c) /\ conn[c] # "unborn"
    BY <1>1, <1>7 DEF Has, Holding, PlacesInv, UnbornNowhere
  <2>2. \A p \in Putters : put'[p].c = c => p = Caller(w) \/ put[p].c = c
    BY <1>1, <1>5, <1>7 DEF cancelGivesBack, TypeOK
  <2>3. c \notin alt => HeldOnce(c) /\ HeldOnce(c)'
    BY <1>1, <1>2, <1>4, <2>1, <2>2 DEF HeldOnce, Unheld, PlacesInv, OneHolder
  <2> QED BY <1>1, <2>1, <2>3 DEF PlacesStep
<1> QED BY <1>6, <1>7

LEMMA PlacesDial ==
  ASSUME TypeOK, PlacesInv, NEW w \in Wants, NEW d \in Conns, NEW h2 \in {FALSE, HTTP2},
         dialConnForOk(w, d, h2), NEW c \in Conns
  PROVE  PlacesStep(c)
<1>1. /\ conn[d] = "unborn" /\ conn' = [conn EXCEPT ![d] = "open"]
      /\ alt' = (IF h2 THEN alt \cup {d} ELSE alt)
      /\ res' = tryDeliver(w, d)
      /\ put' = IF res[w] # NoConn \/ h2
                THEN [put EXCEPT ![Dialer(w)] = [at |-> "check", c |-> d]] ELSE put
      /\ UNCHANGED <<wpc, closing, idleLRU>>
  BY DEF dialConnForOk, idleVars
<1>2. Dialer(w) \in Putters
  BY PuttersType
<1>3. InLRU(c)' <=> InLRU(c)
  BY <1>1 DEF InLRU
<1>4. \A v \in Wants : (v # w \/ c # d \/ res[w] # NoConn) => (res'[v] = c => res[v] = c)
  BY <1>1, PoolAssumption DEF tryDeliver, TypeOK
<1>5. \A v \in Wants : (v # w \/ c # d \/ res[w] # NoConn) => (Has(v, c)' => Has(v, c))
  BY <1>1, <1>4, PoolAssumption, ZenonT(60) DEF Has, Holding, tryDeliver, TypeOK
<1>6. \A p \in Putters : (p # Dialer(w) \/ c # d \/ (res[w] = NoConn /\ ~h2)) =>
         (put'[p].c = c => put[p].c = c)
  BY <1>1, <1>2, PoolAssumption DEF TypeOK
<1>7. CASE c # d
  BY <1>1, <1>3, <1>4, <1>5, <1>6, <1>7 DEF PlacesStep, Shrinks, TypeOK
<1>8. CASE c = d
  <2>1. Unheld(c) /\ ~InLRU(c) /\ conn'[c] = "open" /\ c \notin alt
    BY <1>1, <1>8 DEF PlacesInv, UnbornNowhere, TypeOK
  <2>2. CASE h2
    BY <1>1, <1>8, <2>1, <2>2 DEF PlacesStep
  <2>3. CASE ~h2
    <3>1. HeldOnce(c)'
      BY <1>1, <1>3, <1>5, <1>6, <2>1, <2>3 DEF HeldOnce, Unheld
    <3> QED BY <2>1, <3>1 DEF PlacesStep
  <2> QED BY <2>2, <2>3
<1> QED BY <1>7, <1>8

LEMMA AddedToLRU ==
  ASSUME TypeOK, NEW p \in Putters, put[p].c \in Conns, tryPutIdleConnAdd(p)
  PROVE  \A e : InLRU(e)' => e = put[p].c \/ InLRU(e)
<1> DEFINE d == put[p].c
           lru == <<d>> \o idleLRU
<1>1. idleLRU' \in {lru, Front(lru)}
  BY DEF tryPutIdleConnAdd
<1>2. /\ Len(lru) = 1 + Len(idleLRU) /\ Len(idleLRU) \in Nat /\ lru[1] = d
      /\ \A i \in 1..Len(lru) : i # 1 => i - 1 \in 1..Len(idleLRU) /\ lru[i] = idleLRU[i - 1]
      /\ Len(Front(lru)) = Len(idleLRU) /\ \A i \in 1..Len(idleLRU) : Front(lru)[i] = lru[i]
  BY OldestIsConn
<1> HIDE DEF lru, d
<1>3. \A i \in 1..Len(idleLRU') : i \in 1..Len(lru) /\ idleLRU'[i] = lru[i]
  BY <1>1, <1>2
<1>4. \A i \in 1..Len(lru) : lru[i] = d \/ InLRU(lru[i])
  BY <1>2 DEF InLRU, Contains
<1> QED BY <1>3, <1>4 DEF InLRU, Contains, d

LEMMA PlacesGetConn ==
  ASSUME TypeOK, CallsInv, PlacesInv, NEW w \in Wants, NEW c \in Conns,
         \/ queueForIdleConnTake(w) \/ queueForIdleConnWait(w)
         \/ queueForIdleConnDisabled(w) \/ getConnCancel(w) \/ GetConnStep(w)
  PROVE  PlacesStep(c)
<1>1. CASE queueForIdleConnTake(w) \/ getConnCancel(w)
  BY <1>1, PlacesTake, PlacesCancel
<1>2. CASE \E d \in Conns, h2 \in {FALSE, HTTP2} : dialConnForOk(w, d, h2)
  BY <1>2, PlacesDial, ZenonT(60)
<1>3. CASE dialConnForDec(w)
  BY <1>3, PlacesUnchanged DEF dialConnForDec, connVars, idleVars
<1>4. ASSUME \A v \in Wants : Has(v, c)' => Has(v, c),
             \A v \in Wants : res'[v] = c => res[v] = c,
             UNCHANGED <<conn, alt, put, closing, idleLRU>>
      PROVE  PlacesStep(c)
  BY <1>4 DEF PlacesStep, Shrinks, InLRU
<1>5. CASE queueForIdleConnWait(w) \/ queueForIdleConnDisabled(w)
  <2>1. /\ wpc[w] = "new" /\ wpc' = [wpc EXCEPT ![w] = "queue"]
        /\ UNCHANGED <<res, conn, alt, put, closing, idleLRU>>
    BY <1>5 DEF queueForIdleConnWait, queueForIdleConnDisabled, connVars, idleVars
  <2>2. res[w] # c
    BY <2>1, PoolAssumption DEF CallsInv, QueuedOnce
  <2>3. \A v \in Wants : v # w => wpc'[v] = wpc[v]
    BY <2>1 DEF TypeOK
  <2> QED BY <1>4, <2>1, <2>2, <2>3 DEF Has, Holding
<1>6. CASE queueForDialNow(w) \/ queueForDialWait(w) \/ getConnReady(w)
  <2>1. /\ wpc[w] \in {"queue", "select"} /\ \A v \in Wants : v # w => wpc'[v] = wpc[v]
        /\ UNCHANGED <<res, conn, alt, put, closing, idleLRU>>
    BY <1>6 DEF queueForDialNow, queueForDialWait, getConnReady, connVars, idleVars, TypeOK
  <2> QED BY <1>4, <2>1 DEF Has, Holding
<1>7. CASE dialConnForErr(w)
  <2>1. /\ res' = tryDeliver(w, Err) /\ UNCHANGED <<wpc, conn, alt, put, closing, idleLRU>>
    BY <1>7 DEF dialConnForErr, connVars, idleVars
  <2>2. \A v \in Wants : res'[v] = c => res[v] = c
    BY <2>1, PoolAssumption DEF tryDeliver, TypeOK
  <2> QED BY <1>4, <2>1, <2>2 DEF Has, Holding
<1> QED BY <1>1, <1>2, <1>3, <1>5, <1>6, <1>7, ZenonT(60) DEF GetConnStep

(* Giving back and delivering. *)
LEMMA PlacesDelivered ==
  ASSUME TypeOK, NEW d \in Conns, deliver(d)
  PROVE  /\ \A v \in Wants : res'[v] # res[v] => v \in delivery(d).to /\ res'[v] = d
         /\ delivery(d).to = {} => \A v \in Wants : res'[v] = res[v]
BY DEF deliver

LEMMA PlacesPut ==
  ASSUME TypeOK, PlacesInv, NEW p \in Putters, PutStep(p), NEW c \in Conns
  PROVE  PlacesStep(c)
<1> DEFINE d == put[p].c
<1>0. /\ put[p].at # "no" /\ UNCHANGED <<wpc, alt, closing>>
  BY DEF PutStep, tryPutIdleConnCheck, tryPutIdleConnShared, tryPutIdleConnDeliver,
     tryPutIdleConnRefuse, tryPutIdleConnAdd, putOrCloseIdleConnClose, connVars
<1>1. d \in Conns /\ conn[d] # "unborn"
  <2>1. d \in Conns
    BY <1>0 DEF TypeOK
  <2> QED BY <2>1 DEF PlacesInv, UnbornNowhere, Unheld
<1>2. (conn'[c] = "unborn") <=> (conn[c] = "unborn")
  <2>1. CASE tryPutIdleConnAdd(p)
    BY <1>1, <2>1, CloseKeepsBorn, OldestIsConn DEF tryPutIdleConnAdd
  <2>2. CASE putOrCloseIdleConnClose(p)
    BY <1>1, <2>2, CloseKeepsBorn DEF putOrCloseIdleConnClose
  <2> QED BY <2>1, <2>2 DEF PutStep, tryPutIdleConnCheck, tryPutIdleConnShared,
      tryPutIdleConnDeliver, tryPutIdleConnRefuse, connVars
<1>3. /\ \A q \in Putters : q # p => put'[q] = put[q]
      /\ put'[p].c \in {d, NoConn}
      /\ tryPutIdleConnDeliver(p) \/ tryPutIdleConnAdd(p) => put'[p].c = NoConn
  <2>1. /\ put' \in {[put EXCEPT ![p] = NoPut], [put EXCEPT ![p].at = "close"], [put EXCEPT ![p].at = "put"]}
        /\ tryPutIdleConnDeliver(p) \/ tryPutIdleConnAdd(p) => put' = [put EXCEPT ![p] = NoPut]
    BY DEF PutStep, tryPutIdleConnCheck, tryPutIdleConnShared, tryPutIdleConnDeliver,
       tryPutIdleConnRefuse, tryPutIdleConnAdd, putOrCloseIdleConnClose
  <2> QED BY <2>1 DEF TypeOK, NoPut
<1>4. \A q \in Putters : put'[q].c = c => put[q].c = c
  BY <1>3, PoolAssumption
<1>5. CASE UNCHANGED <<res, idleLRU>>
  BY <1>0, <1>2, <1>4, <1>5 DEF PlacesStep, Shrinks, Has, Holding, InLRU
<1>6. CASE tryPutIdleConnDeliver(p) \/ tryPutIdleConnRefuse(p)
  <2>0. deliver(d) /\ idleLRU' = idleLRU
    BY <1>6 DEF tryPutIdleConnDeliver, tryPutIdleConnRefuse
  <2>1. CASE c # d \/ delivery(d).to = {}
    <3>1. \A v \in Wants : res'[v] = c => res[v] = c
      BY <1>1, <2>0, <2>1, PlacesDelivered
    <3> QED BY <1>0, <1>2, <1>4, <2>0, <3>1 DEF PlacesStep, Shrinks, Has, Holding, InLRU
  <2>2. CASE c = d /\ d \in alt
    BY <1>0, <1>1, <1>2, <2>2 DEF PlacesStep
  <2>3. CASE c = d /\ d \notin alt /\ tryPutIdleConnDeliver(p)
    <3>1. HeldOnce(c)
      BY <2>3 DEF PlacesInv, OneHolder
    <3>2. \A v \in Wants : Has(v, c)' => v \in delivery(d).to
      BY <1>0, <1>1, <2>0, <2>3, <3>1, PlacesDelivered DEF Has, Holding, HeldOnce
    <3>3. \A v, u \in delivery(d).to : v = u
      BY <1>1, <2>3, DeliveryProps
    <3>4. \A q \in Putters : put'[q].c # c
      BY <1>3, <1>4, <2>3, <3>1, PoolAssumption DEF HeldOnce
    <3>5. c \notin closing' /\ ~InLRU(c)'
      BY <1>0, <2>0, <2>3, <3>1 DEF HeldOnce, Unheld, InLRU
    <3>6. HeldOnce(c)'
      BY <3>2, <3>3, <3>4, <3>5 DEF HeldOnce
    <3> QED BY <1>0, <1>1, <1>2, <2>3, <3>6 DEF PlacesStep
  <2> QED BY <1>6, <2>1, <2>2, <2>3 DEF tryPutIdleConnRefuse, Undelivered
<1>7. CASE tryPutIdleConnAdd(p)
  <2>1. deliver(d) /\ Undelivered(d)
    BY <1>7 DEF tryPutIdleConnAdd
  <2>2. \A e : InLRU(e)' => e = d \/ InLRU(e)
    BY <1>1, <1>7, AddedToLRU
  <2>3. CASE c # d
    <3>1. \A v \in Wants : res'[v] = c => res[v] = c
      BY <1>1, <2>1, <2>3, PlacesDelivered
    <3> QED BY <1>0, <1>2, <1>4, <2>2, <2>3, <3>1 DEF PlacesStep, Shrinks, Has, Holding
  <2>4. CASE c = d /\ d \in alt
    BY <1>0, <1>1, <1>2, <2>4 DEF PlacesStep
  <2>5. CASE c = d /\ d \notin alt
    <3>1. HeldOnce(c)
      BY <2>5 DEF PlacesInv, OneHolder
    <3>2. \A v \in Wants : ~Has(v, c)'
      BY <1>0, <1>1, <2>1, <2>5, <3>1, PlacesDelivered DEF Has, Holding, HeldOnce, Undelivered
    <3>3. \A q \in Putters : put'[q].c # c
      BY <1>3, <1>4, <1>7, <2>5, <3>1, PoolAssumption DEF HeldOnce
    <3>4. c \notin closing'
      BY <1>0, <2>5, <3>1 DEF HeldOnce
    <3>5. HeldOnce(c)'
      BY <3>2, <3>3, <3>4 DEF HeldOnce, Unheld
    <3> QED BY <1>0, <1>1, <1>2, <2>5, <3>5 DEF PlacesStep
  <2> QED BY <2>3, <2>4, <2>5
<1> QED BY <1>5, <1>6, <1>7 DEF PutStep, tryPutIdleConnCheck, tryPutIdleConnShared,
    tryPutIdleConnDeliver, tryPutIdleConnRefuse, putOrCloseIdleConnClose, idleVars

(* The requests that have a connection. *)
LEMMA PlacesGive ==
  ASSUME TypeOK, PlacesInv, NEW w \in Wants, NEW p \in Putters, NEW c \in Conns, HTTP1(w),
         wpc' = [wpc EXCEPT ![w] = "done"],
         put' = [put EXCEPT ![p] = [at |-> "check", c |-> res[w]]],
         UNCHANGED <<res, conn, alt, closing, idleLRU>>
  PROVE  PlacesStep(c)
<1>1. \A v \in Wants : (Has(v, c)' => Has(v, c)) /\ ~Has(w, c)'
  BY DEF Has, Holding, TypeOK
<1>2. InLRU(c)' <=> InLRU(c)
  BY DEF InLRU
<1>3. \A q \in Putters : put'[q].c = c => put[q].c = c \/ (q = p /\ res[w] = c)
  BY DEF TypeOK
<1>4. CASE res[w] # c
  BY <1>1, <1>2, <1>3, <1>4 DEF PlacesStep, Shrinks
<1>5. CASE res[w] = c
  <2>1. Has(w, c) /\ c \notin alt /\ conn[c] # "unborn"
    BY <1>5 DEF Has, Holding, HTTP1, PlacesInv, UnbornNowhere
  <2>2. HeldOnce(c)
    BY <2>1 DEF PlacesInv, OneHolder
  <2>3. HeldOnce(c)'
    BY <1>1, <1>2, <1>3, <2>1, <2>2 DEF HeldOnce, Unheld
  <2> QED BY <2>1, <2>3 DEF PlacesStep
<1> QED BY <1>4, <1>5

LEMMA PlacesUse ==
  ASSUME TypeOK, PlacesInv, NEW w \in Wants, UseStep(w), NEW c \in Conns
  PROVE  PlacesStep(c)
<1>1. CASE roundTripCanceled(w)
  BY <1>1, PlacesGive, PuttersType, ZenonT(60) DEF roundTripCanceled, connVars, idleVars
<1>2. CASE readLoopPut(w)
  <2>1. ReadLoop(res[w]) \in Putters
    BY <1>2, PuttersType DEF readLoopPut, HTTP1, TypeOK
  <2> QED BY <1>2, <2>1, PlacesGive, ZenonT(60) DEF readLoopPut, connVars, idleVars
<1>3. CASE roundTripLost(w) \/ altRoundTrip(w) \/ noCachedConn(w) \/ noCachedConnDec(w)
  <2>1. /\ \A v \in Wants : Has(v, c)' => Has(v, c)
        /\ UNCHANGED <<res, conn, alt, put, closing>>
    BY <1>3 DEF roundTripLost, altRoundTrip, noCachedConn, noCachedConnDec, HTTP1, HTTP2Conn,
       connVars, Has, Holding, TypeOK
  <2>2. InLRU(c)' => InLRU(c)
    <3>1. CASE idleLRU' = idleLRU
      BY <3>1 DEF InLRU
    <3>2. CASE noCachedConn(w)
      <4>1. res[w] \in Conns /\ idleLRU' = RemoveFirst(idleLRU, res[w])
        BY <3>2 DEF noCachedConn, HTTP2Conn, removeIdleConnLocked, TypeOK
      <4> QED BY <4>1, LRUWithout DEF PlacesInv
    <3> QED BY <1>3, <3>1, <3>2 DEF roundTripLost, altRoundTrip, noCachedConnDec, idleVars
  <2> QED BY <2>1, <2>2 DEF PlacesStep, Shrinks
<1> QED BY <1>1, <1>2, <1>3 DEF UseStep

(* The connections themselves and CloseIdleConnections. *)
LEMMA PlacesClose ==
  ASSUME TypeOK, PlacesInv, NEW d \in Conns, NEW c \in Conns,
         CloseStep(d) \/ persistConnClose(d) \/ idleTimer(d)
  PROVE  PlacesStep(c)
<1>1. /\ UNCHANGED <<wpc, res, alt, put>>
      /\ c \in closing' => c \in closing
  BY DEF CloseStep, readLoopExit, closeTaken, closeConnIfStillIdle, persistConnClose, idleTimer,
     connVars
<1>2. (conn'[c] = "unborn") <=> (conn[c] = "unborn")
  BY CloseKeepsBorn DEF CloseStep, readLoopExit, closeTaken, closeConnIfStillIdle,
     persistConnClose, idleTimer, connVars
<1>3. idleLRU' = idleLRU \/ idleLRU' = RemoveFirst(idleLRU, d)
  BY DEF CloseStep, readLoopExit, closeTaken, closeConnIfStillIdle, persistConnClose, idleTimer,
     removeIdleConnLocked, idleVars
<1>4. InLRU(c)' => InLRU(c)
  BY <1>3, LRUWithout DEF PlacesInv, InLRU
<1> QED BY <1>1, <1>2, <1>4 DEF PlacesStep, Shrinks, Has, Holding

LEMMA PlacesCloseIdle ==
  ASSUME TypeOK, PlacesInv, CloseIdleConnections, NEW c \in Conns
  PROVE  PlacesStep(c)
<1>1. /\ UNCHANGED <<wpc, res, conn, alt, put>> /\ closing = {} /\ idleLRU' = <<>>
      /\ closing' = UNION {Range(idleConn[k]) : k \in Keys}
  BY DEF CloseIdleConnections, connVars
<1>2. ~InLRU(c)'
  <2>1. Len(<<>>) = 0
    OBVIOUS
  <2> QED BY <1>1, <2>1 DEF InLRU, Contains
<1>3. CASE c \notin closing'
  BY <1>1, <1>2, <1>3 DEF PlacesStep, Shrinks, Has, Holding
<1>4. CASE c \in closing'
  <2>1. PICK k \in Keys : c \in Range(idleConn[k])
    BY <1>1, <1>4
  <2>2. idleConn[k] \in Seq(Conns) /\ DOMAIN idleConn[k] = 1..Len(idleConn[k])
    BY DEF TypeOK
  <2>3. PICK i \in 1..Len(idleConn[k]) : c = idleConn[k][i]
    BY <2>1, <2>2 DEF Range
  <2>4. InLRU(c)
    BY <2>3, IdleInLRU DEF PlacesInv
  <2>5. conn[c] # "unborn"
    BY <2>4 DEF PlacesInv, UnbornNowhere
  <2>6. c \notin alt => HeldOnce(c)'
    <3> SUFFICES ASSUME c \notin alt PROVE HeldOnce(c)'
      OBVIOUS
    <3>1. Unheld(c)
      BY <2>4 DEF PlacesInv, OneHolder, HeldOnce
    <3>2. (\A v \in Wants : ~Has(v, c)') /\ \A q \in Putters : put'[q].c # c
      BY <1>1, <3>1 DEF Unheld, Has, Holding
    <3> QED BY <1>2, <3>2 DEF HeldOnce
  <2> QED BY <1>1, <2>5, <2>6 DEF PlacesStep
<1> QED BY <1>3, <1>4

LEMMA PlacesNext ==
  ASSUME TypeOK, CallsInv, PlacesInv, Next
  PROVE  OneHolder' /\ UnbornNowhere'
<1>1. ASSUME NEW c \in Conns PROVE PlacesStep(c)
  BY PlacesGetConn, PlacesPut, PlacesUse, PlacesClose, PlacesCloseIdle
  DEF Next, queueForIdleConnNone
<1> QED BY <1>1, PlacesFollow DEF PlacesInv

-----------------------------------------------------------------------------
(* Where the connection of an answer comes from.                           *)

(* Whoever newly has c has just been answered, and c came from the idle    *)
(* pool, from somebody who gave it back, or from its dial.                 *)
Loose(c) == InLRU(c) \/ (\E p \in Putters : put[p].c = c) \/ conn[c] = "unborn"

LEMMA NewHolder ==
  ASSUME TypeOK, CallsInv, PlacesInv, Next, NEW v \in Wants, NEW c \in Conns,
         Has(v, c)', ~Has(v, c)
  PROVE  res[v] = NoConn /\ Loose(c)
<1>1. CASE wpc' = wpc /\ res' = res
  BY <1>1 DEF Has, Holding
<1>2. ASSUME NEW w \in Wants,
             \/ queueForIdleConnTake(w) \/ queueForIdleConnWait(w)
             \/ queueForIdleConnDisabled(w) \/ getConnCancel(w) \/ GetConnStep(w)
      PROVE  res[v] = NoConn /\ Loose(c)
  <2>1. CASE queueForIdleConnTake(w)
    <3> DEFINE k == WKey[w]
               list == idleConn[k]
    <3>0. k \in Keys
      BY PoolAssumption
    <3>1. PICK i \in 1..Len(list) : res' = tryDeliver(w, list[i])
      BY <2>1, TakenIndex
    <3>2. InLRU(list[i])
      BY <3>0, IdleInLRU DEF PlacesInv
    <3>3. wpc[w] = "new" /\ res[w] = NoConn /\ wpc' = [wpc EXCEPT ![w] = "got"]
      BY <2>1 DEF queueForIdleConnTake
    <3>4. v = w /\ c = list[i]
      BY <3>1, <3>3, ZenonT(60) DEF Has, Holding, tryDeliver, TypeOK
    <3> QED BY <3>2, <3>3, <3>4 DEF Loose
  <2>2. CASE queueForIdleConnWait(w) \/ queueForIdleConnDisabled(w)
    <3>1. wpc[w] = "new" /\ wpc' = [wpc EXCEPT ![w] = "queue"] /\ res' = res
      BY <2>2 DEF queueForIdleConnWait, queueForIdleConnDisabled
    <3>2. res[w] = NoConn
      BY <3>1 DEF CallsInv, QueuedOnce
    <3> QED BY <3>1, <3>2, PoolAssumption DEF Has, Holding, TypeOK
  <2>3. CASE getConnCancel(w)
    BY <2>3, PoolAssumption DEF getConnCancel, Has, Holding, TypeOK
  <2>4. CASE queueForDialNow(w) \/ queueForDialWait(w) \/ getConnReady(w)
    <3>1. /\ wpc[w] \in {"queue", "select"} /\ res' = res
          /\ \A u \in Wants : u # w => wpc'[u] = wpc[u]
      BY <2>4 DEF queueForDialNow, queueForDialWait, getConnReady, TypeOK
    <3> QED BY <3>1 DEF Has, Holding
  <2>5. CASE \E d \in Conns, h2 \in {FALSE, HTTP2} : dialConnForOk(w, d, h2)
    <3>1. PICK d \in Conns, h2 \in {FALSE, HTTP2} : dialConnForOk(w, d, h2)
      BY <2>5, ZenonT(60)
    <3>2. conn[d] = "unborn" /\ wpc' = wpc /\ res' = tryDeliver(w, d)
      BY <3>1 DEF dialConnForOk
    <3>3. v = w /\ c = d /\ res[w] = NoConn
      BY <3>2 DEF tryDeliver, Has, Holding, TypeOK
    <3> QED BY <3>2, <3>3 DEF Loose
  <2>6. CASE dialConnForErr(w)
    BY <2>6, PoolAssumption DEF dialConnForErr, tryDeliver, Has, Holding, TypeOK
  <2>7. CASE dialConnForDec(w)
    BY <1>1, <2>7 DEF dialConnForDec
  <2> QED BY <1>2, <2>1, <2>2, <2>3, <2>4, <2>5, <2>6, <2>7, ZenonT(60) DEF GetConnStep
<1>3. ASSUME NEW p \in Putters, PutStep(p) PROVE res[v] = NoConn /\ Loose(c)
  <2>1. put[p].c \in Conns /\ wpc' = wpc
    BY <1>3 DEF PutStep, tryPutIdleConnCheck, tryPutIdleConnShared, tryPutIdleConnDeliver,
       tryPutIdleConnRefuse, tryPutIdleConnAdd, putOrCloseIdleConnClose, TypeOK
  <2>2. res' = res \/ deliver(put[p].c)
    BY <1>3 DEF PutStep, tryPutIdleConnCheck, tryPutIdleConnShared, tryPutIdleConnDeliver,
       tryPutIdleConnRefuse, tryPutIdleConnAdd, putOrCloseIdleConnClose
  <2>3. CASE deliver(put[p].c)
    <3>1. v \in delivery(put[p].c).to /\ c = put[p].c
      BY <2>1, <2>3 DEF deliver, Has, Holding
    <3> QED BY <2>1, <3>1, DeliveryProps DEF Loose
  <2> QED BY <1>1, <2>1, <2>2, <2>3
<1>4. ASSUME NEW w \in Wants, UseStep(w) PROVE FALSE
  <2>1. /\ wpc[w] \in {"got", "dec"} /\ wpc'[w] \in {"dec", "done"} /\ res' = res
        /\ \A u \in Wants : u # w => wpc'[u] = wpc[u]
    BY <1>4 DEF UseStep, roundTripCanceled, readLoopPut, roundTripLost, altRoundTrip,
       noCachedConn, noCachedConnDec, HTTP1, HTTP2Conn, TypeOK
  <2> QED BY <2>1 DEF Has, Holding
<1>5. ASSUME NEW d \in Conns, CloseStep(d) \/ persistConnClose(d) \/ idleTimer(d)
      PROVE  wpc' = wpc /\ res' = res
  BY <1>5 DEF CloseStep, readLoopExit, closeTaken, closeConnIfStillIdle, persistConnClose,
     idleTimer
<1>6. CASE CloseIdleConnections
  BY <1>1, <1>6 DEF CloseIdleConnections
<1> QED BY <1>1, <1>2, <1>3, <1>4, <1>5, <1>6 DEF Next, queueForIdleConnNone
=============================================================================
