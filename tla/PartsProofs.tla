---------------------------- MODULE PartsProofs ----------------------------
(***************************************************************************)
(* Theorems about parts of the system that are small enough for one proof  *)
(* each.  Every part has the variable s; the invariant of a part is its    *)
(* type and what relates the fields of s.                                  *)
(***************************************************************************)
EXTENDS Integers, Sequences, FiniteSetTheorems, TLAPS

VARIABLE s

-----------------------------------------------------------------------------
(* socks_bundle.go: module SocksDial. *)
CONSTANTS IPv4len, IPv6len, NameLen, SocksConfs

Socks == INSTANCE SocksDial WITH Confs <- SocksConfs

SocksSpec == Socks!Init /\ [][Socks!Next]_s

(* A proxy chooses among the methods it was offered. *)
SocksConf ==
    {t \in [ctx : {"background", "cancel", "deadline"}, user : BOOLEAN, method : STRING, accepted : BOOLEAN,
            reply : Nat, atyp : {"IPv4", "IPv6", "FQDN", "other"}, ops : SUBSET STRING] :
       t.method = "password" => t.user}

SocksState ==
          [m : {"socks"}, t : SocksConf,
           pc : {"dial", "greet", "method", "auth", "authReply", "command", "reply", "name", "address",
                 "deferred", "waiting", "clear", "ended"},
           open : BOOLEAN, deadline : {"none", "set", "past"}, done : BOOLEAN,
           watcher : {"none", "waits", "fired", "gone"}, errCh : {"empty", "ctx", "nil"},
           ctxErr : {"none", "error"}, sent : Nat, read : Nat, target : BOOLEAN, authed : BOOLEAN,
           granted : BOOLEAN, result : {"none", "conn", "error"}]
SocksType == s \in SocksState

(* The watcher and what it left on errCh. *)
SocksWatch ==
    /\ s.watcher # "gone" => s.errCh = "empty"
    /\ s.deadline = "past" => s.watcher = "fired" \/ s.errCh = "ctx"
    /\ s.t.ctx = "background" => s.watcher = "none"
    /\ s.t.ctx # "deadline" => s.deadline # "set"
    /\ s.pc = "dial" => s.watcher = "none" /\ ~s.open /\ s.ctxErr = "none"
    /\ s.pc \in {"clear", "ended"} /\ s.result # "error" /\ s.ctxErr = "none"
         => s.watcher \notin {"waits", "fired"} /\ s.errCh # "ctx"
    /\ s.pc = "waiting" => s.ctxErr = "none"
    /\ s.pc # "ended" => s.result = "none"
    /\ s.pc = "ended" => /\ s.result = "error" => ~s.open
                         /\ s.result = "conn" => s.ctxErr = "none" /\ s.deadline = "none"
                         /\ s.result # "none"
    /\ s.pc \in {"greet", "method", "auth", "authReply", "command", "reply", "name", "address"} => s.ctxErr = "none"

(* The bytes of the proxy not read yet, and what it decided. *)
SocksBytes ==
    /\ s.pc \in {"dial", "greet", "auth", "command"} => s.sent = s.read
    /\ s.pc \in {"method", "authReply"} => s.sent = s.read + 2
    /\ s.pc = "reply" => s.sent = s.read + Socks!replyLen(s.t) /\ (s.granted <=> s.t.reply = 0)
    /\ s.pc = "name" => s.sent = s.read + Socks!replyLen(s.t) - 4 /\ s.granted /\ s.t.atyp = "FQDN"
    /\ s.pc = "address" => s.sent = s.read + Socks!addressBytes /\ s.granted
    /\ s.pc \in {"deferred", "waiting", "clear", "ended"} /\ s.result # "error" /\ s.ctxErr = "none"
         => s.sent = s.read /\ s.granted
    /\ s.pc = "authReply" => (s.authed <=> s.t.accepted)
    /\ s.pc \notin {"dial", "greet", "method", "auth", "authReply"} /\ s.result # "error" /\ s.ctxErr = "none"
         => (s.t.method = "password" => s.authed)

SocksInv == SocksType /\ SocksWatch /\ SocksBytes

LEMMA SocksNext ==
  ASSUME SocksInv, Socks!Next, IPv4len \in Nat, IPv6len \in Nat, NameLen \in Nat
  PROVE  SocksInv'
<1>a. s.read \in Nat /\ s.sent \in Nat /\ \A n \in Nat : s.read + n \in Nat /\ s.sent + n \in Nat
  BY DEF SocksInv, SocksType, SocksState
<1>b. Socks!addressBytes \in Nat /\ Socks!replyLen(s.t) \in Nat
  BY DEF Socks!addressBytes, Socks!replyLen, Socks!addrLen
<1>c. 1 \in Nat /\ 2 \in Nat /\ 4 \in Nat
  OBVIOUS
<1>d. s.t.accepted \in BOOLEAN /\ (s.ctxErr = "none") \in BOOLEAN
  BY DEF SocksInv, SocksType, SocksState, SocksConf
<1>1. CASE Socks!Refuse
  <2>1. SocksType'
    BY <1>1 DEF Socks!Refuse, SocksInv, SocksType, SocksState
  <2>2. SocksWatch'
    BY <1>1 DEF Socks!Refuse, SocksInv, SocksType, SocksState, SocksWatch
  <2>3. SocksBytes'
    BY <1>1 DEF Socks!Refuse, SocksInv, SocksType, SocksState, SocksBytes
  <2> QED BY <2>1, <2>2, <2>3 DEF SocksInv
<1>2. CASE Socks!DialFails
  <2>1. SocksType'
    BY <1>2 DEF Socks!DialFails, SocksInv, SocksType, SocksState
  <2>2. SocksWatch'
    BY <1>2 DEF Socks!DialFails, SocksInv, SocksType, SocksState, SocksWatch
  <2>3. SocksBytes'
    BY <1>2 DEF Socks!DialFails, SocksInv, SocksType, SocksState, SocksBytes
  <2> QED BY <2>1, <2>2, <2>3 DEF SocksInv
<1>3. CASE Socks!Dial
  <2>1. SocksType'
    BY <1>3, ZenonT(60) DEF Socks!Dial, SocksInv, SocksType, SocksState
  <2>2. SocksWatch'
    BY <1>3 DEF Socks!Dial, SocksInv, SocksType, SocksState, SocksWatch
  <2>3. SocksBytes'
    BY <1>3 DEF Socks!Dial, SocksInv, SocksType, SocksState, SocksBytes
  <2> QED BY <2>1, <2>2, <2>3 DEF SocksInv
<1>4. CASE Socks!Greet
  <2>1. SocksType'
    BY <1>a, <1>c, <1>4 DEF Socks!Greet, Socks!Write, SocksInv, SocksType, SocksState
  <2>2. SocksWatch'
    BY <1>4 DEF Socks!Greet, Socks!Write, SocksInv, SocksType, SocksState, SocksWatch
  <2>3. SocksBytes'
    BY <1>4 DEF Socks!Greet, Socks!Write, SocksInv, SocksType, SocksState, SocksBytes
  <2> QED BY <2>1, <2>2, <2>3 DEF SocksInv
<1>5. CASE Socks!BadCredentials
  <2>1. SocksType'
    BY <1>5 DEF Socks!BadCredentials, Socks!ends, SocksInv, SocksType, SocksState
  <2>2. SocksWatch'
    BY <1>5 DEF Socks!BadCredentials, Socks!ends, SocksInv, SocksType, SocksState, SocksWatch
  <2>3. SocksBytes'
    BY <1>5 DEF Socks!BadCredentials, Socks!ends, SocksInv, SocksType, SocksState, SocksBytes
  <2> QED BY <2>1, <2>2, <2>3 DEF SocksInv
<1>6. CASE Socks!Authenticate
  <2>1. SocksType'
    BY <1>a, <1>c, <1>d, <1>6 DEF Socks!Authenticate, Socks!Write, SocksInv, SocksType, SocksState
  <2>2. SocksWatch'
    BY <1>6 DEF Socks!Authenticate, Socks!Write, SocksInv, SocksType, SocksState, SocksWatch
  <2>3. SocksBytes'
    BY <1>6 DEF Socks!Authenticate, Socks!Write, SocksInv, SocksType, SocksState, SocksBytes
  <2> QED BY <2>1, <2>2, <2>3 DEF SocksInv
<1>7. CASE Socks!Command
  <2>1. SocksType'
    BY <1>a, <1>b, <1>7 DEF Socks!Command, Socks!Write, SocksInv, SocksType, SocksState
  <2>2. SocksWatch'
    BY <1>7 DEF Socks!Command, Socks!Write, SocksInv, SocksType, SocksState, SocksWatch
  <2>3. SocksBytes'
    BY <1>7 DEF Socks!Command, Socks!Write, Socks!replyLen, Socks!addrLen, SocksInv, SocksType, SocksState, SocksBytes
  <2> QED BY <2>1, <2>2, <2>3 DEF SocksInv
<1>8. CASE Socks!Fails
  <2>1. SocksType'
    BY <1>8 DEF Socks!Fails, Socks!ends, SocksInv, SocksType, SocksState
  <2>2. SocksWatch'
    BY <1>8 DEF Socks!Fails, Socks!ends, SocksInv, SocksType, SocksState, SocksWatch
  <2>3. SocksBytes'
    BY <1>8 DEF Socks!Fails, Socks!ends, SocksInv, SocksType, SocksState, SocksBytes
  <2> QED BY <2>1, <2>2, <2>3 DEF SocksInv
<1>9. CASE Socks!ReadMethod
  <2>1. SocksType'
    BY <1>a, <1>c, <1>9 DEF Socks!ReadMethod, Socks!ends, SocksInv, SocksType, SocksState
  <2>2. SocksWatch'
    BY <1>9 DEF Socks!ReadMethod, Socks!ends, SocksInv, SocksType, SocksState, SocksWatch
  <2>3. SocksBytes'
    BY <1>9 DEF Socks!ReadMethod, Socks!ends, SocksConf, SocksInv, SocksType, SocksState, SocksBytes
  <2> QED BY <2>1, <2>2, <2>3 DEF SocksInv
<1>10. CASE Socks!ReadAuth
  <2>1. SocksType'
    BY <1>a, <1>c, <1>10 DEF Socks!ReadAuth, Socks!ends, Socks!accepted, SocksInv, SocksType, SocksState
  <2>2. SocksWatch'
    BY <1>10 DEF Socks!ReadAuth, Socks!ends, Socks!accepted, SocksInv, SocksType, SocksState, SocksWatch
  <2>3. SocksBytes'
    BY <1>10 DEF Socks!ReadAuth, Socks!ends, Socks!accepted, SocksInv, SocksType, SocksState, SocksBytes
  <2> QED BY <2>1, <2>2, <2>3 DEF SocksInv
<1>11. CASE Socks!ReadReply
  <2>1. SocksType'
    BY <1>a, <1>c, <1>11 DEF Socks!ReadReply, Socks!ends, SocksInv, SocksType, SocksState
  <2>2. SocksWatch'
    BY <1>11 DEF Socks!ReadReply, Socks!ends, SocksInv, SocksType, SocksState, SocksWatch
  <2>3. SocksBytes'
    BY <1>11 DEF Socks!ReadReply, Socks!ends, Socks!replyLen, Socks!addrLen, Socks!addressBytes, SocksInv, SocksType, SocksState, SocksBytes
  <2> QED BY <2>1, <2>2, <2>3 DEF SocksInv
<1>12. CASE Socks!ReadNameLen
  <2>1. SocksType'
    BY <1>a, <1>c, <1>12 DEF Socks!ReadNameLen, SocksInv, SocksType, SocksState
  <2>2. SocksWatch'
    BY <1>12 DEF Socks!ReadNameLen, SocksInv, SocksType, SocksState, SocksWatch
  <2>3. SocksBytes'
    BY <1>12 DEF Socks!ReadNameLen, Socks!replyLen, Socks!addrLen, Socks!addressBytes, SocksInv, SocksType, SocksState, SocksBytes
  <2> QED BY <2>1, <2>2, <2>3 DEF SocksInv
<1>13. CASE Socks!ReadAddress
  <2>1. SocksType'
    BY <1>a, <1>b, <1>13 DEF Socks!ReadAddress, Socks!ends, SocksInv, SocksType, SocksState
  <2>2. SocksWatch'
    BY <1>13 DEF Socks!ReadAddress, Socks!ends, SocksInv, SocksType, SocksState, SocksWatch
  <2>3. SocksBytes'
    BY <1>a, <1>b, <1>13 DEF Socks!ReadAddress, Socks!ends, SocksInv, SocksType, SocksState, SocksBytes, SocksWatch
  <2> QED BY <2>1, <2>2, <2>3 DEF SocksInv
<1>14. CASE Socks!CloseDone
  <2>1. SocksType'
    BY <1>14 DEF Socks!CloseDone, Socks!waitsForWatcher, SocksInv, SocksType, SocksState
  <2>2. SocksWatch'
    BY <1>14 DEF Socks!CloseDone, Socks!waitsForWatcher, SocksInv, SocksType, SocksState, SocksWatch
  <2>3. SocksBytes'
    BY <1>14 DEF Socks!CloseDone, Socks!waitsForWatcher, SocksInv, SocksType, SocksState, SocksBytes
  <2> QED BY <2>1, <2>2, <2>3 DEF SocksInv
<1>15. CASE Socks!TakeErr
  <2>1. SocksType'
    BY <1>15 DEF Socks!TakeErr, SocksInv, SocksType, SocksState
  <2>2. SocksWatch'
    BY <1>15 DEF Socks!TakeErr, SocksInv, SocksType, SocksState, SocksWatch
  <2>3. SocksBytes'
    BY <1>15 DEF Socks!TakeErr, SocksInv, SocksType, SocksState, SocksBytes, SocksWatch
  <2> QED BY <2>1, <2>2, <2>3 DEF SocksInv
<1>16. CASE Socks!Return
  <2>1. SocksType'
    <3>1. PICK d \in {"none", "set", "past"}, b \in BOOLEAN, r \in {"conn", "error"} :
            s' = [s EXCEPT !.pc = "ended", !.deadline = d, !.open = b, !.result = r]
      <4>1. s.deadline \in {"none", "set", "past"}
        BY DEF SocksInv, SocksType, SocksState
      <4> QED BY <1>d, <1>16, <4>1 DEF Socks!Return
    <3>2. PICK x : x = [s EXCEPT !.pc = "ended", !.result = r]
      OBVIOUS
    <3>3. x \in SocksState
      BY <3>2, ZenonT(60) DEF SocksInv, SocksType, SocksState
    <3>4. s' = [x EXCEPT !.deadline = d, !.open = b]
      BY <3>1, <3>2 DEF SocksInv, SocksType, SocksState
    <3> QED BY <3>3, <3>4 DEF SocksType, SocksState
  <2>2. SocksWatch'
    BY <1>16, ZenonT(60) DEF Socks!Return, SocksInv, SocksType, SocksState, SocksWatch
  <2>3. SocksBytes'
    BY <1>16 DEF Socks!Return, SocksInv, SocksType, SocksState, SocksBytes, SocksWatch
  <2> QED BY <2>1, <2>2, <2>3 DEF SocksInv
<1>17. CASE Socks!CtxDone
  <2>1. SocksType'
    BY <1>17 DEF Socks!CtxDone, SocksInv, SocksType, SocksState
  <2>2. SocksWatch'
    BY <1>17 DEF Socks!CtxDone, SocksInv, SocksType, SocksState, SocksWatch
  <2>3. SocksBytes'
    BY <1>17 DEF Socks!CtxDone, Socks!addressBytes, SocksInv, SocksType, SocksState, SocksBytes
  <2> QED BY <2>1, <2>2, <2>3 DEF SocksInv
<1>18. CASE Socks!WatchDone
  <2>1. SocksType'
    BY <1>18 DEF Socks!WatchDone, SocksInv, SocksType, SocksState
  <2>2. SocksWatch'
    BY <1>18 DEF Socks!WatchDone, SocksInv, SocksType, SocksState, SocksWatch
  <2>3. SocksBytes'
    BY <1>18 DEF Socks!WatchDone, Socks!addressBytes, SocksInv, SocksType, SocksState, SocksBytes
  <2> QED BY <2>1, <2>2, <2>3 DEF SocksInv
<1>19. CASE Socks!WatchSends
  <2>1. SocksType'
    BY <1>19 DEF Socks!WatchSends, SocksInv, SocksType, SocksState
  <2>2. SocksWatch'
    BY <1>19 DEF Socks!WatchSends, SocksInv, SocksType, SocksState, SocksWatch
  <2>3. SocksBytes'
    BY <1>19 DEF Socks!WatchSends, Socks!addressBytes, SocksInv, SocksType, SocksState, SocksBytes
  <2> QED BY <2>1, <2>2, <2>3 DEF SocksInv
<1>20. CASE Socks!WatchClosed
  <2>1. SocksType'
    BY <1>20 DEF Socks!WatchClosed, SocksInv, SocksType, SocksState
  <2>2. SocksWatch'
    BY <1>20 DEF Socks!WatchClosed, SocksInv, SocksType, SocksState, SocksWatch
  <2>3. SocksBytes'
    BY <1>20 DEF Socks!WatchClosed, Socks!addressBytes, SocksInv, SocksType, SocksState, SocksBytes
  <2> QED BY <2>1, <2>2, <2>3 DEF SocksInv
<1> QED BY <1>1, <1>2, <1>3, <1>4, <1>5, <1>6, <1>7, <1>8, <1>9, <1>10, <1>11, <1>12, <1>13, <1>14, <1>15, <1>16, <1>17, <1>18, <1>19, <1>20 DEF Socks!Next, Socks!Step, Socks!Watch

(* A connection that SOCKS5 connect hands on is one the proxy granted, to  *)
(* a client it accepted, with exactly the proxy's bytes read, no deadline  *)
(* set and no watcher left to set one, whenever the context ends; a failed *)
(* dial leaves no connection open.                                         *)
THEOREM SocksSoundHolds ==
  ASSUME SocksConfs \subseteq SocksConf, IPv4len \in Nat, IPv6len \in Nat, NameLen \in Nat
  PROVE  SocksSpec => []Socks!SocksSound
<1>1. Socks!Init => SocksInv
  <2> SUFFICES ASSUME Socks!Init PROVE SocksInv
    OBVIOUS
  <2>1. PICK t \in SocksConfs :
          s = [m |-> "socks", t |-> t, pc |-> "dial", open |-> FALSE, deadline |-> "none", done |-> FALSE,
               watcher |-> "none", errCh |-> "empty", ctxErr |-> "none", sent |-> 0, read |-> 0,
               target |-> FALSE, authed |-> FALSE, granted |-> FALSE, result |-> "none"]
    BY DEF Socks!Init
  <2>2. SocksType
    BY <2>1 DEF SocksType, SocksState
  <2>3. SocksWatch
    BY <2>1 DEF SocksWatch
  <2>4. SocksBytes
    BY <2>1 DEF SocksBytes
  <2> QED BY <2>2, <2>3, <2>4 DEF SocksInv
<1>2. SocksInv /\ [Socks!Next]_s => SocksInv'
  <2>1. ASSUME SocksInv, UNCHANGED s PROVE SocksInv'
    BY <2>1 DEF SocksInv, SocksType, SocksWatch, SocksBytes, Socks!addressBytes
  <2> QED BY <2>1, SocksNext
<1>3. SocksInv => Socks!SocksSound
  BY DEF SocksInv, SocksWatch, SocksBytes, Socks!SocksSound
<1> QED BY <1>1, <1>2, <1>3, PTL DEF SocksSpec

-----------------------------------------------------------------------------
(* The lazy decompressors of transport.go: module Decompress. *)
CONSTANTS Bodies, GzConfs

Gz == INSTANCE Decompress WITH Confs <- GzConfs

GzSpec == Gz!Init /\ [][Gz!Next]_s

GzConf == [kind : [Bodies -> {"gzip", "deflate", "zstd"}], len : [Bodies -> Nat], reads : Nat]
GzState ==
    [m : {"gz"}, t : GzConf, pool : SUBSET Nat, n : Nat,
     src : [1..Cardinality(Bodies) -> Bodies \cup {"none"}],
     zr : [Bodies -> Nat], zerr : [Bodies -> {"none", "err", "eof"}], at : [Bodies -> {"in", "out"}],
     left : [Bodies -> Nat], closed : SUBSET Bodies, reads : Nat, mixed : BOOLEAN]

(* The bodies that have asked for a decompressor. *)
GzAsked == {b \in Bodies : s.zr[b] # 0 \/ s.zerr[b] # "none"}

(* A decompressor is in the pool or reads one body, from the moment that   *)
(* body has it; a body asks for one once.                                  *)
GzOwned ==
    /\ s.pool \subseteq 1..s.n /\ s.n <= Cardinality(GzAsked)
    /\ \A b \in Bodies : s.zr[b] \in 0..s.n /\ s.zr[b] \notin s.pool
    /\ \A b, c \in Bodies : b # c /\ s.zr[b] # 0 => s.zr[b] # s.zr[c]
    /\ \A b \in Bodies : s.zr[b] # 0 => s.src[s.zr[b]] = b
    /\ \A b \in Bodies : s.at[b] = "in" => s.zr[b] # 0
    /\ ~s.mixed
GzInv == s \in GzState /\ GzOwned

LEMMA GzNext ==
  ASSUME IsFiniteSet(Bodies), GzInv, NEW b \in Bodies,
         \/ Gz!readAgain(b) \/ Gz!readPooled(b) \/ Gz!readNew(b) \/ Gz!readNext(b) \/ Gz!readData(b)
         \/ Gz!readEOF(b) \/ Gz!readFails(b) \/ Gz!close(b)
  PROVE  GzInv'
<1>0. /\ s.pool \in SUBSET Nat /\ s.n \in Nat /\ s.reads \in Nat /\ s.reads + 1 \in Nat
      /\ s.src \in [1..Cardinality(Bodies) -> Bodies \cup {"none"}]
      /\ s.zr \in [Bodies -> Nat] /\ s.zerr \in [Bodies -> {"none", "err", "eof"}]
      /\ s.at \in [Bodies -> {"in", "out"}] /\ s.left \in [Bodies -> Nat]
      /\ s.closed \in SUBSET Bodies
  BY DEF GzInv, GzState
<1>a. ASSUME NEW S \in SUBSET Bodies, NEW T \in SUBSET Bodies, S \subseteq T
      PROVE  /\ Cardinality(S) \in Nat /\ Cardinality(T) \in Nat
             /\ Cardinality(S) <= Cardinality(T) /\ IsFiniteSet(S)
  <2>1. IsFiniteSet(T) /\ IsFiniteSet(S)
    BY FS_Subset
  <2> QED BY <1>a, <2>1, FS_Subset, FS_CardinalityType
<1>b. GzAsked \in SUBSET Bodies /\ GzAsked' \in SUBSET Bodies /\ Cardinality(Bodies) \in Nat
  BY FS_CardinalityType DEF GzAsked
<1>c. s.n \in Nat /\ s.n <= Cardinality(GzAsked) /\ s.n <= Cardinality(Bodies)
  <2>1. Cardinality(GzAsked) \in Nat /\ Cardinality(GzAsked) <= Cardinality(Bodies)
    BY <1>a, <1>b
  <2> QED BY <1>0, <1>b, <2>1 DEF GzInv, GzOwned
<1>1. CASE Gz!readAgain(b)
  <2>1. s' = [s EXCEPT !.reads = s.reads + 1]
    BY <1>1 DEF Gz!readAgain, Gz!counted
  <2>2. s' \in GzState
    BY <1>0, <2>1 DEF GzInv, GzState
  <2>3. UNCHANGED <<s.pool, s.n, s.src, s.zr, s.zerr, s.at, s.mixed>>
    BY <2>1 DEF GzInv, GzState
  <2> QED BY <2>2, <2>3 DEF GzInv, GzOwned, GzAsked
<1>2. CASE Gz!readPooled(b)
  <2>1. PICK i \in s.pool :
          s' = Gz!counted(IF Gz!headerBad(b) THEN [s EXCEPT !.zerr[b] = "err", !.src[i] = b]
                          ELSE Gz!inside([s EXCEPT !.pool = @ \ {i}], b, i))
    BY <1>2 DEF Gz!readPooled
  <2>2. PICK src \in [1..Cardinality(Bodies) -> Bodies \cup {"none"}] : src = [s.src EXCEPT ![i] = b]
    BY <1>0
  <2>3. CASE Gz!headerBad(b)
    <3>1. PICK e \in [Bodies -> {"none", "err", "eof"}] : e = [s.zerr EXCEPT ![b] = "err"]
      BY <1>0
    <3>2. s' = [s EXCEPT !.zerr = e, !.src = src, !.reads = s.reads + 1]
      BY <2>1, <2>2, <2>3, <3>1 DEF Gz!counted, GzInv, GzState
    <3>3. s' \in GzState
      BY <1>0, <3>2 DEF GzInv, GzState
    <3>4. UNCHANGED <<s.pool, s.n, s.zr, s.at, s.mixed>> /\ s'.zerr = e /\ s'.src = src
      BY <3>2 DEF GzInv, GzState
    <3>5. s'.n <= Cardinality(GzAsked')
      <4>1. GzAsked \subseteq GzAsked'
        BY <1>0, <3>1, <3>4 DEF GzAsked
      <4> QED BY <1>a, <1>b, <1>c, <3>4, <4>1
    <3>6. \A c \in Bodies : s.zr[c] # 0 => src[s.zr[c]] = c
      BY <1>0, <2>2 DEF GzInv, GzOwned
    <3> QED BY <3>3, <3>4, <3>5, <3>6 DEF GzInv, GzOwned
  <2>4. CASE ~Gz!headerBad(b)
    <3>1. PICK zr \in [Bodies -> Nat], at \in [Bodies -> {"in", "out"}] :
            zr = [s.zr EXCEPT ![b] = i] /\ at = [s.at EXCEPT ![b] = "in"]
      BY <1>0
    <3>2. s' = [s EXCEPT !.pool = s.pool \ {i}, !.zr = zr, !.src = src, !.at = at, !.reads = s.reads + 1]
      BY <2>1, <2>2, <2>4, <3>1 DEF Gz!counted, Gz!inside, GzInv, GzState
    <3>3. s' \in GzState
      BY <1>0, <3>2 DEF GzInv, GzState
    <3>4. /\ UNCHANGED <<s.n, s.zerr, s.mixed>> /\ s'.zr = zr /\ s'.at = at /\ s'.src = src
          /\ s'.pool = s.pool \ {i}
      BY <3>2 DEF GzInv, GzState
    <3>5. s'.n <= Cardinality(GzAsked')
      <4>0. i # 0
        BY <1>0 DEF GzInv, GzOwned
      <4>1. GzAsked \subseteq GzAsked'
        BY <1>0, <3>1, <3>4, <4>0 DEF GzAsked
      <4> QED BY <1>a, <1>b, <1>c, <3>4, <4>1
    <3>6. i \in 1..s.n /\ i \in 1..Cardinality(Bodies) /\ src[i] = b
      BY <1>0, <1>b, <1>c, <2>2 DEF GzInv, GzOwned
    <3>7. \A c \in Bodies : c # b => zr[c] = s.zr[c] /\ zr[c] # i /\ at[c] = s.at[c] /\ (zr[c] # 0 => src[zr[c]] = c)
      BY <1>0, <2>2, <3>1 DEF GzInv, GzOwned
    <3>8. zr[b] = i /\ i # 0 /\ i \in 0..s.n
      BY <1>0, <1>c, <3>1, <3>6
    <3> QED BY <3>3, <3>4, <3>5, <3>6, <3>7, <3>8 DEF GzInv, GzOwned
  <2> QED BY <2>3, <2>4
<1>3. CASE Gz!readNew(b)
  <2>0. s.zr[b] = 0 /\ s.zerr[b] = "none"
    BY <1>3 DEF Gz!readNew
  <2>1. CASE s' = Gz!counted([s EXCEPT !.zerr[b] = "err"])
    <3>1. PICK e \in [Bodies -> {"none", "err", "eof"}] : e = [s.zerr EXCEPT ![b] = "err"]
      BY <1>0
    <3>2. s' = [s EXCEPT !.zerr = e, !.reads = s.reads + 1]
      BY <2>1, <3>1 DEF Gz!counted, GzInv, GzState
    <3>3. s' \in GzState
      BY <1>0, <3>2 DEF GzInv, GzState
    <3>4. UNCHANGED <<s.pool, s.n, s.zr, s.src, s.at, s.mixed>> /\ s'.zerr = e
      BY <3>2 DEF GzInv, GzState
    <3>5. s'.n <= Cardinality(GzAsked')
      <4>1. GzAsked \subseteq GzAsked'
        BY <1>0, <3>1, <3>4 DEF GzAsked
      <4> QED BY <1>a, <1>b, <1>c, <3>4, <4>1
    <3> QED BY <3>3, <3>4, <3>5 DEF GzInv, GzOwned
  <2>2. CASE s' = Gz!counted(Gz!inside([s EXCEPT !.n = @ + 1], b, s.n + 1))
    <3>0. PICK i : i = s.n + 1 /\ i \in Nat /\ i # 0
      BY <1>0
    <3>1. PICK zr \in [Bodies -> Nat], at \in [Bodies -> {"in", "out"}],
               src \in [1..Cardinality(Bodies) -> Bodies \cup {"none"}] :
            zr = [s.zr EXCEPT ![b] = i] /\ at = [s.at EXCEPT ![b] = "in"] /\ src = [s.src EXCEPT ![i] = b]
      BY <1>0, <3>0
    <3>2. s' = [s EXCEPT !.n = i, !.zr = zr, !.src = src, !.at = at, !.reads = s.reads + 1]
      BY <2>2, <3>0, <3>1 DEF Gz!counted, Gz!inside, GzInv, GzState
    <3>3. s' \in GzState
      BY <1>0, <3>0, <3>2 DEF GzInv, GzState
    <3>4. /\ UNCHANGED <<s.pool, s.zerr, s.mixed>> /\ s'.zr = zr /\ s'.at = at /\ s'.src = src /\ s'.n = i
      BY <3>2 DEF GzInv, GzState
    <3>5. i <= Cardinality(GzAsked')
      <4>1. b \notin GzAsked /\ GzAsked \cup {b} \subseteq GzAsked'
        BY <1>0, <2>0, <3>0, <3>1, <3>4 DEF GzAsked
      <4>2. Cardinality(GzAsked \cup {b}) = Cardinality(GzAsked) + 1
        BY <1>a, <1>b, <4>1, FS_AddElement
      <4>3. Cardinality(GzAsked \cup {b}) <= Cardinality(GzAsked')
        BY <1>a, <1>b, <4>1
      <4> QED BY <1>a, <1>b, <1>c, <3>0, <4>2, <4>3
    <3>6. i \in 1..Cardinality(Bodies)
      <4>1. Cardinality(GzAsked') \in Nat /\ Cardinality(GzAsked') <= Cardinality(Bodies)
        BY <1>a, <1>b
      <4> QED BY <1>b, <3>0, <3>5, <4>1
    <3>7. s.pool \subseteq 1..i /\ i \notin s.pool /\ \A c \in Bodies : s.zr[c] \in 0..i /\ s.zr[c] # i
      BY <1>0, <3>0 DEF GzInv, GzOwned
    <3>8. /\ zr[b] = i /\ src[zr[b]] = b
          /\ \A c \in Bodies : c # b => zr[c] = s.zr[c] /\ at[c] = s.at[c] /\ (zr[c] # 0 => src[zr[c]] = c)
      <4>1. zr[b] = i /\ src[i] = b /\ \A c \in Bodies : c # b => zr[c] = s.zr[c] /\ at[c] = s.at[c]
        BY <1>0, <3>1, <3>6
      <4>2. ASSUME NEW c \in Bodies, c # b, s.zr[c] # 0 PROVE src[s.zr[c]] = c
        <5>1. s.src[s.zr[c]] = c /\ s.zr[c] # i /\ s.zr[c] \in 0..s.n
          BY <3>7, <4>2 DEF GzInv, GzOwned
        <5>2. s.zr[c] \in 1..Cardinality(Bodies)
          BY <1>b, <1>c, <4>2, <5>1
        <5> QED BY <1>0, <3>1, <5>1, <5>2
      <4> QED BY <4>1, <4>2
    <3> QED BY <3>0, <3>3, <3>4, <3>5, <3>7, <3>8 DEF GzInv, GzOwned
  <2> QED BY <1>3, <2>1, <2>2 DEF Gz!readNew
<1>4. CASE Gz!readNext(b)
  <2>1. PICK at \in [Bodies -> {"in", "out"}] : at = [s.at EXCEPT ![b] = "in"]
    BY <1>0
  <2>2. s' = [s EXCEPT !.at = at, !.reads = s.reads + 1] /\ s.zr[b] # 0
    BY <1>4, <2>1 DEF Gz!readNext, Gz!counted, GzInv, GzState
  <2>3. s' \in GzState
    BY <1>0, <2>2 DEF GzInv, GzState
  <2>4. UNCHANGED <<s.pool, s.n, s.src, s.zr, s.zerr, s.mixed>> /\ s'.at = at
    BY <2>2 DEF GzInv, GzState
  <2> QED BY <1>0, <2>1, <2>2, <2>3, <2>4 DEF GzInv, GzOwned, GzAsked
<1>5. CASE Gz!readData(b) \/ Gz!readFails(b)
  <2>1. PICK at \in [Bodies -> {"in", "out"}] : at = [s.at EXCEPT ![b] = "out"]
    BY <1>0
  <2>2. ~(s.mixed \/ s.zr[b] = 0 \/ s.src[s.zr[b]] # b)
    BY <1>5 DEF Gz!readData, Gz!readFails, GzInv, GzOwned
  <2>3. CASE Gz!readFails(b)
    <3>1. s' = [s EXCEPT !.at = at]
      BY <2>1, <2>3 DEF Gz!readFails, GzInv, GzState
    <3>2. s' \in GzState /\ UNCHANGED <<s.pool, s.n, s.src, s.zr, s.zerr, s.mixed>> /\ s'.at = at
      BY <3>1 DEF GzInv, GzState
    <3> QED BY <1>0, <2>1, <3>2 DEF GzInv, GzOwned, GzAsked
  <2>4. CASE Gz!readData(b)
    <3>0. s.left[b] \in Nat /\ s.left[b] > 0
      BY <1>0, <2>4 DEF Gz!readData
    <3>1. PICK k \in Nat : k = s.left[b] - 1
      BY <3>0
    <3>2. PICK left \in [Bodies -> Nat] : left = [s.left EXCEPT ![b] = k]
      BY <1>0
    <3>3. (s.mixed \/ s.zr[b] = 0 \/ s.src[s.zr[b]] # b) = FALSE
      BY <2>2
    <3>4. PICK x \in GzState : x = [s EXCEPT !.at = at, !.left = left]
      BY <1>0 DEF GzInv, GzState
    <3>5. s' = [x EXCEPT !.mixed = FALSE]
      BY <2>1, <2>4, <3>1, <3>2, <3>3, <3>4 DEF Gz!readData, GzInv, GzState
    <3>6. s' \in GzState /\ s'.mixed = FALSE
      BY <3>4, <3>5 DEF GzState
    <3>7. UNCHANGED <<s.pool, s.n, s.src, s.zr, s.zerr>> /\ s'.at = at
      BY <3>4, <3>5 DEF GzInv, GzState
    <3> QED BY <1>0, <2>1, <3>6, <3>7 DEF GzInv, GzOwned, GzAsked
  <2> QED BY <1>5, <2>3, <2>4
<1>6. CASE Gz!readEOF(b)
  <2>1. PICK at \in [Bodies -> {"in", "out"}] : at = [s.at EXCEPT ![b] = "out"]
    BY <1>0
  <2>2. CASE Gz!kind(b) # "gzip"
    <3>1. s' = [s EXCEPT !.at = at]
      BY <1>6, <2>1, <2>2 DEF Gz!readEOF, Gz!atEOF, GzInv, GzState
    <3>2. s' \in GzState /\ UNCHANGED <<s.pool, s.n, s.src, s.zr, s.zerr, s.mixed>> /\ s'.at = at
      BY <3>1 DEF GzInv, GzState
    <3> QED BY <1>0, <2>1, <3>2 DEF GzInv, GzOwned, GzAsked
  <2>3. CASE Gz!kind(b) = "gzip"
    <3>1. PICK zr \in [Bodies -> Nat], e \in [Bodies -> {"none", "err", "eof"}], pool \in SUBSET Nat :
            zr = [s.zr EXCEPT ![b] = 0] /\ e = [s.zerr EXCEPT ![b] = "eof"] /\ pool = s.pool \cup {s.zr[b]}
      BY <1>0
    <3>2. s' = [s EXCEPT !.at = at, !.zr = zr, !.zerr = e, !.pool = pool]
      BY <1>6, <2>1, <2>3, <3>1 DEF Gz!readEOF, Gz!atEOF, Gz!kind, GzInv, GzState
    <3>3. s' \in GzState
      BY <3>2 DEF GzInv, GzState
    <3>4. UNCHANGED <<s.n, s.src, s.mixed>> /\ s'.at = at /\ s'.zr = zr /\ s'.zerr = e /\ s'.pool = pool
      BY <3>2 DEF GzInv, GzState
    <3>5. s'.n <= Cardinality(GzAsked')
      <4>1. GzAsked \subseteq GzAsked'
        BY <1>0, <3>1, <3>4 DEF GzAsked
      <4> QED BY <1>a, <1>b, <1>c, <3>4, <4>1
    <3>6. s.zr[b] # 0 /\ s.zr[b] \in 1..s.n
      BY <1>0, <1>6 DEF Gz!readEOF, GzInv, GzOwned
    <3>7. /\ pool \subseteq 1..s.n /\ 0 \notin pool
          /\ \A c \in Bodies : c # b => zr[c] = s.zr[c] /\ at[c] = s.at[c] /\ zr[c] \notin pool
      BY <1>0, <2>1, <3>1, <3>6 DEF GzInv, GzOwned
    <3>8. zr[b] = 0 /\ at[b] = "out" /\ 0 \in 0..s.n
      BY <1>0, <2>1, <3>1
    <3> QED BY <3>3, <3>4, <3>5, <3>7, <3>8 DEF GzInv, GzOwned
  <2> QED BY <2>2, <2>3
<1>7. CASE Gz!close(b)
  <2>1. s' = [s EXCEPT !.closed = s.closed \cup {b}]
    BY <1>7 DEF Gz!close, Gz!onClose
  <2>2. s' \in GzState /\ UNCHANGED <<s.pool, s.n, s.src, s.zr, s.zerr, s.at, s.mixed>>
    BY <1>0, <2>1 DEF GzInv, GzState
  <2> QED BY <2>2 DEF GzInv, GzOwned, GzAsked
<1> QED BY <1>1, <1>2, <1>3, <1>4, <1>5, <1>6, <1>7

(* Whatever the interleaving of the Reads and the Closes of the bodies, a  *)
(* pooled gzip.Reader is nobody's, no two bodies share a decompressor, and *)
(* a Read returns bytes of its own body only.                              *)
THEOREM ReaderOwnedHolds ==
  ASSUME IsFiniteSet(Bodies), GzConfs \subseteq GzConf
  PROVE  GzSpec => []Gz!ReaderOwned
<1>1. Gz!Init => GzInv
  <2> SUFFICES ASSUME Gz!Init PROVE GzInv
    OBVIOUS
  <2>1. PICK t \in GzConfs :
          s = [m |-> "gz", t |-> t, pool |-> {}, n |-> 0, src |-> [i \in 1..Cardinality(Bodies) |-> "none"],
               zr |-> [b \in Bodies |-> 0], zerr |-> [b \in Bodies |-> "none"],
               at |-> [b \in Bodies |-> "out"], left |-> t.len, closed |-> {}, reads |-> 0, mixed |-> FALSE]
    <3>1. Gz!Cardinality(Bodies) = Cardinality(Bodies)
      BY DEF Gz!Cardinality, Cardinality
    <3> QED BY <3>1, ZenonT(60) DEF Gz!Init
  <2>2. t \in GzConf /\ t.len \in [Bodies -> Nat]
    BY DEF GzConf
  <2>3. s \in GzState
    BY <2>1, <2>2 DEF GzState
  <2>4. Cardinality(GzAsked) \in Nat
    BY FS_Subset, FS_CardinalityType DEF GzAsked
  <2>5. GzOwned
    BY <2>1, <2>4 DEF GzOwned
  <2> QED BY <2>3, <2>5 DEF GzInv
<1>2. GzInv /\ [Gz!Next]_s => GzInv'
  <2>1. ASSUME GzInv, UNCHANGED s PROVE GzInv'
    BY <2>1 DEF GzInv, GzOwned, GzAsked
  <2>2. ASSUME GzInv, Gz!Next PROVE GzInv'
    BY <2>2, GzNext DEF Gz!Next
  <2> QED BY <2>1, <2>2
<1>3. GzInv => Gz!ReaderOwned
  BY DEF GzInv, GzOwned, Gz!ReaderOwned
<1> QED BY <1>1, <1>2, <1>3, PTL DEF GzSpec

-----------------------------------------------------------------------------
(* client_conn_pool.go and RoundTripOpt of http2: module H2ClientPool. *)
CONSTANTS Reqs, Conns, TryConfs

Tries == INSTANCE H2ClientPool WITH Confs <- TryConfs

TrySpec == Tries!Init /\ [][Tries!Next]_s

(* No server refuses a stream whose body can be read only once. *)
TryConf ==
    {t \in [reqs : SUBSET Reqs, body : [Reqs -> {"none", "once", "get"}], own : SUBSET Reqs, n : Nat,
            retries : Nat, ops : SUBSET STRING] :
       "refuse" \in t.ops => \A r \in Reqs : t.body[r] # "once"}

TryFields == {"m", "t", "r", "c", "conns", "keys", "dialing", "calls", "add", "addOf", "addCall", "addErr",
              "writers", "reads", "done"}
TryType ==
    /\ DOMAIN s = TryFields /\ s.m = "cpool" /\ s.t \in TryConf
    /\ DOMAIN s.r = Reqs /\ s.done \in [Reqs -> Nat]
    /\ \A r \in Reqs : /\ DOMAIN s.r[r] = {"at", "retry", "cc", "gen", "call", "ret"}
                       /\ s.r[r].retry \in Nat /\ s.r[r].gen \in Nat

(* A request that may still be sent was not processed. *)
TryOnce ==
    \A r \in Reqs :
      /\ s.done[r] <= 1
      /\ s.r[r].at \in {"get", "wait", "begin", "sent", "drain", "backoff"} => s.done[r] = 0
      /\ s.r[r].at = "failed" /\ s.r[r].ret # "lost" => s.done[r] = 0
      /\ s.r[r].ret = "response" => s.r[r].at = "done" /\ s.done[r] = 1

(* The body of an attempt is that attempt's, or the only one there is and  *)
(* then of the last attempt; an attempt that has not begun reads nothing.  *)
TryOf(w, r) ==
    \E n \in Nat, g \in Nat :
      /\ w = <<r, n, <<r, g>>>> /\ n <= s.r[r].retry
      /\ \/ s.t.body[r] = "get" /\ g = n
         \/ s.t.body[r] = "once" /\ g = 0 /\ n = s.r[r].retry
TryBodies ==
    /\ \A w \in s.writers \cup s.reads : \E r \in Reqs : TryOf(w, r)
    /\ \A r \in Reqs :
         /\ s.t.body[r] = "get" => s.r[r].gen = s.r[r].retry
         /\ s.t.body[r] = "once" => s.r[r].gen = 0
         /\ s.r[r].at \in {"get", "wait", "begin", "backoff"} =>
              \A w \in s.writers \cup s.reads : ~(w[1] = r /\ w[2] = s.r[r].retry)
         /\ s.r[r].at = "failed" /\ s.t.body[r] = "once" =>
              \A w \in s.writers : ~(w[1] = r /\ w[2] = s.r[r].retry)
TryInv == TryType /\ TryOnce /\ TryBodies

(* What a step of one request, or of none, leaves alone. *)
TryFrame == DOMAIN s' = TryFields /\ UNCHANGED <<s.m, s.t>>
TryOthers(r) ==
    /\ DOMAIN s'.r = Reqs /\ DOMAIN s'.r[r] = DOMAIN s.r[r]
    /\ \A q \in Reqs \ {r} : s'.r[q] = s.r[q]
TryMoves(r) ==
    TryFrame /\ TryOthers(r) /\ s'.r[r].retry = s.r[r].retry /\ s'.r[r].gen = s.r[r].gen

(* A step that moves r on, before or after its attempt, reads no body. *)
LEMMA TryMoved ==
  ASSUME TryInv, NEW r \in Reqs, TryMoves(r), UNCHANGED <<s.writers, s.reads, s.done>>,
         s'.r[r].ret # "response",
         \/ s'.r[r].at \in {"get", "wait", "begin"} /\ s.r[r].at \in {"get", "wait", "begin", "backoff"}
         \/ s'.r[r].at = "done" /\ s.r[r].at # "done"
         \/ s'.r[r].at = "drain" /\ s.r[r].at = "sent"
         \/ /\ s'.r[r].at = "failed" /\ s.r[r].at \in {"begin", "sent", "drain"} /\ s'.r[r].ret # "lost"
            /\ s.t.body[r] = "once" => \A w \in s.writers : ~(w[1] = r /\ w[2] = s.r[r].retry)
  PROVE  TryInv'
<1>1. TryType'
  BY DEF TryInv, TryType, TryMoves, TryFrame, TryOthers
<1>2. TryOnce'
  BY DEF TryInv, TryOnce, TryType, TryMoves, TryFrame, TryOthers
<1>3. ASSUME NEW w \in s.writers \cup s.reads PROVE \E q \in Reqs : TryOf(w, q)'
  <2>1. PICK q \in Reqs : TryOf(w, q)
    BY DEF TryInv, TryBodies
  <2>2. s'.r[q].retry = s.r[q].retry /\ s'.t = s.t
    BY DEF TryMoves, TryFrame, TryOthers
  <2> QED BY <2>1, <2>2 DEF TryOf
<1>4. TryBodies'
  BY <1>3 DEF TryInv, TryBodies, TryMoves, TryFrame, TryOthers
<1> QED BY <1>1, <1>2, <1>4 DEF TryInv

(* The pool, its dials and its connections are none of a body's business. *)
LEMMA TryPool ==
  ASSUME TryInv,
         \/ \E k \in DOMAIN s.calls : Tries!dial(k) \/ Tries!dialed(k)
         \/ \E c \in Conns : \/ Tries!addConnIfNeeded(c) \/ Tries!newClientConn(c) \/ Tries!connEnds(c)
                             \/ Tries!MarkDead(c) \/ \E ok \in BOOLEAN : Tries!addRun(c, ok)
         \/ Tries!closeIdleConnections
  PROVE  TryInv'
<1>0. DOMAIN s = TryFields
  BY DEF TryInv, TryType
<1> DEFINE Kept == DOMAIN s' = TryFields /\ UNCHANGED <<s.m, s.t, s.r, s.writers, s.reads, s.done>>
<1>1. Kept => TryInv'
  BY DEF TryInv, TryType, TryOnce, TryBodies, TryOf
<1>2. ASSUME NEW k, Tries!dial(k) PROVE Kept
  BY <1>0, <1>2 DEF Tries!dial, Tries!Opened, TryFields
<1>3. ASSUME NEW k, Tries!dialed(k) PROVE Kept
  BY <1>0, <1>3 DEF Tries!dialed, Tries!addConnLocked, TryFields
<1>4. ASSUME NEW c \in Conns, Tries!addConnIfNeeded(c) PROVE Kept
  BY <1>0, <1>4 DEF Tries!addConnIfNeeded, TryFields
<1>5. ASSUME NEW c \in Conns, Tries!newClientConn(c) \/ Tries!connEnds(c) \/ Tries!MarkDead(c) PROVE Kept
  BY <1>0, <1>5 DEF Tries!newClientConn, Tries!connEnds, Tries!MarkDead, TryFields
<1>6. ASSUME NEW c \in Conns, NEW ok \in BOOLEAN, Tries!addRun(c, ok) PROVE Kept
  BY <1>0, <1>6 DEF Tries!addRun, Tries!addConnLocked, TryFields
<1>7. CASE Tries!closeIdleConnections
  <2>1. Kept
    BY <1>0, <1>7 DEF Tries!closeIdleConnections, TryFields
  <2> QED BY <1>1, <2>1
<1> HIDE DEF Kept
<1> QED BY <1>1, <1>2, <1>3, <1>4, <1>5, <1>6, <1>7

(* The steps of a request that begin no attempt and end none with success. *)
LEMMA TryMove ==
  ASSUME TryInv, NEW r \in Reqs,
         \/ Tries!getOwn(r) \/ Tries!getShared(r) \/ Tries!callDone(r) \/ Tries!refused(r) \/ Tries!drained(r)
         \/ Tries!backoff(r) \/ Tries!contextDone(r)
  PROVE  TryInv'
<1>0. DOMAIN s = TryFields /\ DOMAIN s.r = Reqs /\ DOMAIN s.r[r] = {"at", "retry", "cc", "gen", "call", "ret"}
  BY DEF TryInv, TryType
<1> DEFINE Moved == TryMoves(r) /\ UNCHANGED <<s.writers, s.reads, s.done>>
           Before == s.r[r].at \in {"get", "wait", "begin", "backoff"}
<1>a. Before => s.r[r].ret # "response"
  BY DEF TryInv, TryOnce
<1>1. CASE Tries!getOwn(r)
  <2>1. Moved /\ Before /\ (\/ s'.r[r].at = "done" /\ s'.r[r].ret = "dial"
                            \/ s'.r[r].at = "begin" /\ s'.r[r].ret = s.r[r].ret)
    <3>0. Before
      BY <1>1 DEF Tries!getOwn
    <3>1. CASE s' = [s EXCEPT !.r[r].at = "done", !.r[r].ret = "dial"]
      BY <1>0, <3>0, <3>1 DEF TryMoves, TryFrame, TryOthers, TryFields
    <3>2. ASSUME NEW c, s' = [Tries!Opened(s, c) EXCEPT !.r[r].at = "begin", !.r[r].cc = c]
          PROVE  Moved /\ s'.r[r].at = "begin" /\ s'.r[r].ret = s.r[r].ret
      <4>1. PICK x : x = Tries!Opened(s, c)
        OBVIOUS
      <4>2. DOMAIN x = TryFields /\ x.m = s.m /\ x.t = s.t /\ x.r = s.r
            /\ x.writers = s.writers /\ x.reads = s.reads /\ x.done = s.done
        BY <1>0, <4>1 DEF Tries!Opened, TryFields
      <4> QED BY <1>0, <3>2, <4>1, <4>2 DEF TryMoves, TryFrame, TryOthers, TryFields
    <3> QED BY <1>1, <3>0, <3>1, <3>2 DEF Tries!getOwn
  <2> QED BY <1>a, <2>1, TryMoved
<1>2. CASE Tries!getShared(r)
  <2>1. Moved /\ Before /\ (\/ s'.r[r].at = "done" /\ s'.r[r].ret = "noCached"
                            \/ s'.r[r].at \in {"begin", "wait"} /\ s'.r[r].ret = s.r[r].ret)
    <3>0. Before
      BY <1>2 DEF Tries!getShared
    <3>1. CASE \E cc : s' = [s EXCEPT !.r[r].at = "begin", !.r[r].cc = cc]
      BY <1>0, <3>0, <3>1 DEF TryMoves, TryFrame, TryOthers, TryFields
    <3>2. CASE s' = [s EXCEPT !.r[r].at = "done", !.r[r].ret = "noCached"]
      BY <1>0, <3>0, <3>2 DEF TryMoves, TryFrame, TryOthers, TryFields
    <3>3. CASE \E k : s' = [s EXCEPT !.r[r].at = "wait", !.r[r].call = k]
      BY <1>0, <3>0, <3>3 DEF TryMoves, TryFrame, TryOthers, TryFields
    <3>4. CASE \E calls, d, k : s' = [s EXCEPT !.calls = calls, !.dialing = d, !.r[r].at = "wait", !.r[r].call = k]
      BY <1>0, <3>0, <3>4 DEF TryMoves, TryFrame, TryOthers, TryFields
    <3> QED BY <1>2, <3>1, <3>2, <3>3, <3>4 DEF Tries!getShared
  <2> QED BY <1>a, <2>1, TryMoved
<1>3. CASE Tries!callDone(r)
  <2>1. Moved /\ Before /\ (\/ s'.r[r].at = "done" /\ s'.r[r].ret = "dial"
                            \/ s'.r[r].at = "begin" /\ s'.r[r].ret = s.r[r].ret)
    BY <1>0, <1>3 DEF Tries!callDone, TryMoves, TryFrame, TryOthers, TryFields
  <2> QED BY <1>a, <2>1, TryMoved
<1>4. CASE Tries!refused(r)
  <2>1. Moved /\ s.r[r].at = "sent" /\ s'.r[r].at = "failed" /\ s'.r[r].ret = "refused"
    BY <1>0, <1>4 DEF Tries!refused, TryMoves, TryFrame, TryOthers, TryFields
  <2>2. s.t.body[r] # "once"
    BY <1>4 DEF Tries!refused, Tries!May, TryInv, TryType, TryConf
  <2> QED BY <2>1, <2>2, TryMoved
<1>5. CASE Tries!drained(r)
  <2>1. Moved /\ s.r[r].at = "drain" /\ s'.r[r].at = "failed" /\ s'.r[r].ret = "goAway"
    BY <1>0, <1>5 DEF Tries!drained, TryMoves, TryFrame, TryOthers, TryFields
  <2>2. \A w \in s.writers : ~(w[1] = r /\ w[2] = s.r[r].retry)
    BY <1>5 DEF Tries!drained, Tries!Writer
  <2> QED BY <2>1, <2>2, TryMoved
<1>6. CASE Tries!backoff(r)
  <2>1. Moved /\ Before /\ s'.r[r].at = "get" /\ s'.r[r].ret = s.r[r].ret
    BY <1>0, <1>6 DEF Tries!backoff, TryMoves, TryFrame, TryOthers, TryFields
  <2> QED BY <1>a, <2>1, TryMoved
<1>7. CASE Tries!contextDone(r)
  <2>1. Moved /\ Before /\ s'.r[r].at = "done" /\ s'.r[r].ret = "ctx"
    BY <1>0, <1>7 DEF Tries!contextDone, TryMoves, TryFrame, TryOthers, TryFields
  <2> QED BY <1>a, <2>1, TryMoved
<1> QED BY <1>1, <1>2, <1>3, <1>4, <1>5, <1>6, <1>7

LEMMA TrySends ==
  ASSUME TryInv, NEW r \in Reqs, Tries!roundTrip(r)
  PROVE  TryInv'
<1>0. DOMAIN s = TryFields /\ DOMAIN s.r = Reqs /\ DOMAIN s.r[r] = {"at", "retry", "cc", "gen", "call", "ret"}
  BY DEF TryInv, TryType
<1>1. CASE ~Tries!canTake(s.r[r].cc)
  <2>1. /\ TryMoves(r) /\ UNCHANGED <<s.writers, s.reads, s.done>>
        /\ s.r[r].at = "begin" /\ s'.r[r].at = "failed" /\ s'.r[r].ret = "unusable"
    BY <1>0, <1>1 DEF Tries!roundTrip, TryMoves, TryFrame, TryOthers, TryFields
  <2>2. \A w \in s.writers : ~(w[1] = r /\ w[2] = s.r[r].retry)
    BY <2>1 DEF TryInv, TryBodies
  <2> QED BY <2>1, <2>2, TryMoved
<1>2. CASE Tries!canTake(s.r[r].cc)
  <2>1. /\ TryMoves(r) /\ UNCHANGED <<s.reads, s.done>>
        /\ s.r[r].at = "begin" /\ s'.r[r].at = "sent" /\ s'.r[r].ret = s.r[r].ret
        /\ s'.writers = IF s.t.body[r] = "none" THEN s.writers
                        ELSE s.writers \cup {<<r, s.r[r].retry, <<r, s.r[r].gen>>>>}
    BY <1>0, <1>2 DEF Tries!roundTrip, Tries!Body, TryMoves, TryFrame, TryOthers, TryFields
  <2>2. TryType'
    BY <2>1 DEF TryInv, TryType, TryMoves, TryFrame, TryOthers
  <2>3. TryOnce'
    BY <2>1 DEF TryInv, TryOnce, TryType, TryMoves, TryFrame, TryOthers
  <2>4. /\ \A q \in Reqs : s'.r[q].retry = s.r[q].retry /\ s'.r[q].gen = s.r[q].gen
        /\ \A q \in Reqs \ {r} : s'.r[q].at = s.r[q].at
        /\ s'.t = s.t
    BY <2>1 DEF TryMoves, TryFrame, TryOthers
  <2>5. ASSUME NEW w \in s'.writers \cup s'.reads PROVE \E q \in Reqs : TryOf(w, q)'
    <3>1. CASE w \in s.writers \cup s.reads
      <4>1. PICK q \in Reqs : TryOf(w, q)
        BY <3>1 DEF TryInv, TryBodies
      <4> QED BY <2>4, <4>1 DEF TryOf
    <3>2. CASE w = <<r, s.r[r].retry, <<r, s.r[r].gen>>>> /\ s.t.body[r] # "none"
      <4>1. s.r[r].retry \in Nat /\ s.r[r].gen \in Nat /\ s.t.body[r] \in {"get", "once"}
        BY <3>2 DEF TryInv, TryType, TryConf
      <4>2. TryOf(w, r)'
        BY <2>4, <3>2, <4>1 DEF TryInv, TryBodies, TryOf
      <4> QED BY <4>2
    <3> QED BY <2>1, <3>1, <3>2
  <2>6. \A w \in (s'.writers \cup s'.reads) \ (s.writers \cup s.reads) : w[1] = r
    BY <2>1
  <2>7. TryBodies'
    <3>1. ASSUME NEW q \in Reqs, s'.r[q].at \in {"get", "wait", "begin", "backoff"},
                 NEW w \in s'.writers \cup s'.reads
          PROVE  ~(w[1] = q /\ w[2] = s'.r[q].retry)
      BY <2>1, <2>4, <2>6, <3>1 DEF TryInv, TryBodies
    <3>2. ASSUME NEW q \in Reqs, s'.r[q].at = "failed", s'.t.body[q] = "once", NEW w \in s'.writers
          PROVE  ~(w[1] = q /\ w[2] = s'.r[q].retry)
      BY <2>1, <2>4, <2>6, <3>2 DEF TryInv, TryBodies
    <3> QED BY <2>4, <2>5, <3>1, <3>2 DEF TryInv, TryBodies
  <2> QED BY <2>2, <2>3, <2>7 DEF TryInv
<1> QED BY <1>1, <1>2

LEMMA TryEnds ==
  ASSUME TryInv, NEW r \in Reqs, Tries!answered(r) \/ \E n \in {0, 1} : Tries!lost(r, n)
  PROVE  TryInv'
<1>0. DOMAIN s = TryFields /\ DOMAIN s.r = Reqs /\ DOMAIN s.r[r] = {"at", "retry", "cc", "gen", "call", "ret"}
  BY DEF TryInv, TryType
<1>1. PICK n \in {0, 1}, at \in {"done", "failed"}, ret \in {"response", "lost"} :
        /\ s.r[r].at = "sent" /\ s' = [s EXCEPT !.r[r].at = at, !.r[r].ret = ret, !.done[r] = @ + n]
        /\ ret = "response" => n = 1 /\ at = "done"
        /\ ret = "lost" => at = "failed" /\ \A w \in s.writers : ~(w[1] = r /\ w[2] = s.r[r].retry)
  <2>1. CASE Tries!answered(r)
    BY <2>1 DEF Tries!answered
  <2>2. ASSUME NEW n \in {0, 1}, Tries!lost(r, n) 
        PROVE  /\ s.r[r].at = "sent"
               /\ s' = [s EXCEPT !.r[r].at = "failed", !.r[r].ret = "lost", !.done[r] = @ + n]
               /\ \A w \in s.writers : ~(w[1] = r /\ w[2] = s.r[r].retry)
    BY <2>2 DEF Tries!lost, Tries!Writer
  <2> QED BY <2>1, <2>2
<1>2. /\ TryMoves(r) /\ UNCHANGED <<s.writers, s.reads>> /\ s'.r[r].at = at /\ s'.r[r].ret = ret
      /\ s'.done = [s.done EXCEPT ![r] = @ + n]
  BY <1>0, <1>1 DEF TryMoves, TryFrame, TryOthers, TryFields
<1>3. s.done[r] = 0 /\ s.done \in [Reqs -> Nat] /\ n \in Nat
  BY <1>1 DEF TryInv, TryOnce, TryType
<1>4. s'.done \in [Reqs -> Nat] /\ s'.done[r] = n /\ \A q \in Reqs \ {r} : s'.done[q] = s.done[q]
  BY <1>2, <1>3
<1>5. TryType'
  BY <1>2, <1>4 DEF TryInv, TryType, TryMoves, TryFrame, TryOthers
<1>6. TryOnce'
  BY <1>1, <1>2, <1>4 DEF TryInv, TryOnce, TryMoves, TryFrame, TryOthers
<1>7. ASSUME NEW w \in s.writers \cup s.reads PROVE \E q \in Reqs : TryOf(w, q)'
  <2>1. PICK q \in Reqs : TryOf(w, q)
    BY DEF TryInv, TryBodies
  <2>2. s'.r[q].retry = s.r[q].retry /\ s'.t = s.t
    BY <1>2 DEF TryMoves, TryFrame, TryOthers
  <2> QED BY <2>1, <2>2 DEF TryOf
<1>8. TryBodies'
  BY <1>1, <1>2, <1>7 DEF TryInv, TryBodies, TryMoves, TryFrame, TryOthers
<1> QED BY <1>5, <1>6, <1>8 DEF TryInv

LEMMA TryBodyStarts ==
  ASSUME TryInv, NEW w \in s.writers, Tries!bodyStarts(w)
  PROVE  TryInv'
<1>0. DOMAIN s = TryFields
  BY DEF TryInv, TryType
<1>1. /\ TryFrame /\ UNCHANGED <<s.r, s.done>>
      /\ s'.writers = s.writers \ {w} /\ s'.reads = s.reads \cup {w}
  BY <1>0 DEF Tries!bodyStarts, TryFrame, TryFields
<1>2. s'.writers \cup s'.reads = s.writers \cup s.reads /\ s'.writers \subseteq s.writers
  BY <1>1
<1>3. TryType' /\ TryOnce'
  BY <1>1 DEF TryInv, TryType, TryOnce, TryFrame
<1>4. TryBodies'
  BY <1>1, <1>2 DEF TryInv, TryBodies, TryFrame, TryOf
<1> QED BY <1>3, <1>4 DEF TryInv

LEMMA TryGoAway ==
  ASSUME TryInv, NEW c \in Conns, NEW above \in SUBSET Tries!Streams(s, c), Tries!goAway(c, above)
  PROVE  TryInv'
<1>0. DOMAIN s = TryFields /\ DOMAIN s.r = Reqs
      /\ \A r \in Reqs : DOMAIN s.r[r] = {"at", "retry", "cc", "gen", "call", "ret"}
  BY DEF TryInv, TryType
<1>1. \A r \in above : s.r[r].at = "sent"
  BY DEF Tries!Streams
<1>2. /\ TryFrame /\ UNCHANGED <<s.writers, s.reads, s.done>>
      /\ s'.r = [r \in Reqs |-> IF r \in above THEN [s.r[r] EXCEPT !.at = "drain"] ELSE s.r[r]]
  BY <1>0 DEF Tries!goAway, TryFrame, TryFields
<1>3. /\ DOMAIN s'.r = Reqs
      /\ \A r \in Reqs : /\ DOMAIN s'.r[r] = DOMAIN s.r[r] /\ s'.r[r].retry = s.r[r].retry
                         /\ s'.r[r].gen = s.r[r].gen /\ s'.r[r].ret = s.r[r].ret
                         /\ s'.r[r].at = IF r \in above THEN "drain" ELSE s.r[r].at
  BY <1>0, <1>2
<1>4. TryType'
  BY <1>2, <1>3 DEF TryInv, TryType, TryFrame
<1>5. TryOnce'
  BY <1>1, <1>2, <1>3 DEF TryInv, TryOnce, TryFrame
<1>6. TryBodies'
  BY <1>1, <1>2, <1>3 DEF TryInv, TryBodies, TryFrame, TryOf
<1> QED BY <1>4, <1>5, <1>6 DEF TryInv

(* shouldRetryRequest: a request is sent again only when the server has    *)
(* not processed it, and with a body nobody has read.                      *)
LEMMA TryAgain ==
  ASSUME TryInv, NEW r \in Reqs, Tries!retry(r)
  PROVE  TryInv'
<1>0. DOMAIN s = TryFields /\ DOMAIN s.r = Reqs /\ DOMAIN s.r[r] = {"at", "retry", "cc", "gen", "call", "ret"}
  BY DEF TryInv, TryType
<1>a. s.r[r].at = "failed" /\ s.r[r].retry \in Nat /\ s.r[r].gen \in Nat /\ s.r[r].ret # "response"
  BY DEF Tries!retry, TryInv, TryType, TryOnce
<1>1. CASE s' = [s EXCEPT !.r[r].at = "done"]
  <2>1. TryMoves(r) /\ UNCHANGED <<s.writers, s.reads, s.done>> /\ s'.r[r].at = "done" /\ s'.r[r].ret = s.r[r].ret
    BY <1>0, <1>1 DEF TryMoves, TryFrame, TryOthers, TryFields
  <2> QED BY <1>a, <2>1, TryMoved
<1>2. CASE s' # [s EXCEPT !.r[r].at = "done"]
  <2>1. Tries!shouldRetryRequest(r)
    BY <1>2 DEF Tries!retry
  <2>a. s.r[r].gen + 1 \in Nat
    BY <1>a
  <2>2. PICK at \in {"get", "backoff"}, gen \in Nat :
          /\ at = IF s.r[r].retry = 0 THEN "get" ELSE "backoff"
          /\ gen = IF s.t.body[r] = "get" THEN s.r[r].gen + 1 ELSE s.r[r].gen
    BY <1>a, <2>a
  <2>3. s' = [s EXCEPT !.r[r].at = at, !.r[r].retry = @ + 1, !.r[r].ret = "none", !.r[r].gen = gen]
    BY <1>2, <2>2 DEF Tries!retry, Tries!None
  <2>4. /\ TryFrame /\ TryOthers(r) /\ UNCHANGED <<s.writers, s.reads, s.done>>
        /\ s'.r[r].at = at /\ s'.r[r].ret = "none" /\ s'.r[r].retry = s.r[r].retry + 1 /\ s'.r[r].gen = gen
    BY <1>0, <2>3 DEF TryFrame, TryOthers, TryFields
  <2>5. s.done[r] = 0
    BY <1>a, <2>1 DEF Tries!shouldRetryRequest, Tries!canRetryError, TryInv, TryOnce
  <2>6. TryType'
    BY <1>a, <2>4 DEF TryInv, TryType, TryFrame, TryOthers
  <2>7. TryOnce'
    BY <2>4, <2>5 DEF TryInv, TryOnce, TryFrame, TryOthers
  <2>8. ASSUME s.t.body[r] = "once", NEW w \in s.writers \cup s.reads PROVE ~TryOf(w, r)
    <3>1. ~(w[1] = r /\ w[2] = s.r[r].retry)
      BY <1>a, <2>1, <2>8 DEF Tries!shouldRetryRequest, Tries!Started, TryInv, TryBodies
    <3> QED BY <2>8, <3>1 DEF TryOf
  <2>9. ASSUME NEW w \in s.writers \cup s.reads
        PROVE  (\E q \in Reqs : TryOf(w, q)') /\ ~(w[1] = r /\ w[2] = s'.r[r].retry)
    <3>1. PICK q \in Reqs : TryOf(w, q)
      BY DEF TryInv, TryBodies
    <3>2. s'.r[q].retry \in Nat /\ s.r[q].retry \in Nat /\ s.r[q].retry <= s'.r[q].retry /\ s'.t = s.t
      BY <1>a, <2>4 DEF TryInv, TryType, TryFrame, TryOthers
    <3>3. s.t.body[q] = "once" => s'.r[q].retry = s.r[q].retry
      BY <2>4, <2>8, <3>1 DEF TryOthers
    <3>4. TryOf(w, q)'
      BY <3>1, <3>2, <3>3 DEF TryOf
    <3>5. w[1] = q /\ w[2] <= s.r[q].retry /\ w[2] \in Nat
      BY <3>1 DEF TryOf
    <3> QED BY <1>a, <2>4, <3>4, <3>5
  <2>10. TryBodies'
    <3>1. ASSUME NEW q \in Reqs
          PROVE  /\ s'.t.body[q] = "get" => s'.r[q].gen = s'.r[q].retry
                 /\ s'.t.body[q] = "once" => s'.r[q].gen = 0
      BY <2>2, <2>4 DEF TryInv, TryBodies, TryFrame, TryOthers
    <3>2. ASSUME NEW q \in Reqs \ {r}
          PROVE  s'.r[q] = s.r[q] /\ s'.t = s.t
      BY <2>4 DEF TryFrame, TryOthers
    <3> QED BY <2>4, <2>9, <3>1, <3>2 DEF TryInv, TryBodies
  <2> QED BY <2>6, <2>7, <2>10 DEF TryInv
<1> QED BY <1>1, <1>2

(* However often RoundTripOpt sends a request, over whatever connections   *)
(* the pool gives it: the server processes it at most once, no two         *)
(* attempts read the same body, and a response is reported only to a       *)
(* request that was processed.                                             *)
THEOREM TriedSafelyHolds ==
  ASSUME TryConfs \subseteq TryConf
  PROVE  TrySpec => []Tries!TriedSafely
<1>1. Tries!Init => TryInv
  <2> SUFFICES ASSUME Tries!Init PROVE TryInv
    OBVIOUS
  <2>1. PICK t \in TryConfs :
          /\ DOMAIN s = TryFields /\ s.m = "cpool" /\ s.t = t /\ s.writers = {} /\ s.reads = {}
          /\ s.done = [r \in Reqs |-> 0]
          /\ s.r = [r \in Reqs |-> [at |-> IF r \in t.reqs THEN "get" ELSE "done", retry |-> 0, cc |-> 0, gen |-> 0,
                                    call |-> 0, ret |-> "none"]]
    BY DEF Tries!Init, Tries!None, TryFields
  <2>2. TryType
    BY <2>1 DEF TryType
  <2>3. TryOnce
    BY <2>1 DEF TryOnce
  <2>4. TryBodies
    BY <2>1 DEF TryBodies
  <2> QED BY <2>2, <2>3, <2>4 DEF TryInv
<1>2. TryInv /\ [Tries!Next]_s => TryInv'
  <2>1. ASSUME TryInv, UNCHANGED s PROVE TryInv'
    BY <2>1 DEF TryInv, TryType, TryOnce, TryBodies, TryOf
  <2>2. ASSUME TryInv, Tries!Next PROVE TryInv'
    BY <2>2, TryPool, TryMove, TrySends, TryEnds, TryBodyStarts, TryGoAway, TryAgain DEF Tries!Next
  <2> QED BY <2>1, <2>2
<1>3. TryInv => Tries!TriedSafely
  <2> SUFFICES ASSUME TryInv PROVE Tries!TriedSafely
    OBVIOUS
  <2>1. ASSUME NEW v \in s.reads, NEW w \in s.reads, v[3] = w[3] PROVE v = w
    <3>1. PICK p \in Reqs : TryOf(v, p)
      BY DEF TryInv, TryBodies
    <3>2. PICK q \in Reqs : TryOf(w, q)
      BY DEF TryInv, TryBodies
    <3> QED BY <2>1, <3>1, <3>2 DEF TryOf
  <2> QED BY <2>1 DEF TryInv, TryOnce, Tries!TriedSafely
<1> QED BY <1>1, <1>2, <1>3, PTL DEF TrySpec

-----------------------------------------------------------------------------
(* flow.go of http2: the windows of module H2Inflow. *)
CONSTANTS MaxInt32, Streams, Default, Threshold, MinRefresh, MaxNet, FlowConfs

Flow == INSTANCE H2Inflow WITH Confs <- FlowConfs

(* The sum of two int32 values leaves the range by less than its width, so *)
(* wrap brings it back in.                                                 *)
LEMMA WrapInRange ==
    ASSUME MaxInt32 \in Nat \ {0}, NEW n \in Flow!Int32, NEW k \in Flow!Int32
    PROVE  /\ Flow!wrap(n + k) \in Flow!Int32
           /\ n + k \in Flow!Int32 => Flow!wrap(n + k) = n + k
           /\ n + k > MaxInt32 => Flow!wrap(n + k) = n + k - 2 * (MaxInt32 + 1)
           /\ n + k < -MaxInt32 - 1 => Flow!wrap(n + k) = n + k + 2 * (MaxInt32 + 1)
BY DEF Flow!wrap, Flow!Int32

(* flow.add, for every width of the integers: its comparison               *)
(* (sum > n) == (f.n > 0) of the wrapped sum holds exactly when the sum    *)
(* did not overflow, in either direction.  So a window is changed by       *)
(* exactly what a WINDOW_UPDATE or a SETTINGS frame says, or left alone    *)
(* and reported.                                                           *)
THEOREM AddExact ==
    ASSUME MaxInt32 \in Nat \ {0}, NEW n \in Flow!Int32, NEW k \in Flow!Int32
    PROVE  /\ Flow!canAdd(n, k) <=> n + k \in Flow!Int32
           /\ Flow!add(n, k) \in Flow!Int32
           /\ Flow!add(n, k) # n => Flow!add(n, k) = n + k
<1>1. Flow!canAdd(n, k) <=> n + k \in Flow!Int32
  <2>1. CASE n + k \in Flow!Int32
    <3>1. Flow!wrap(n + k) = n + k
      BY <2>1, WrapInRange
    <3>2. (n + k > k) <=> (n > 0)
      BY DEF Flow!Int32
    <3> QED
      BY <2>1, <3>1, <3>2 DEF Flow!canAdd
  <2>2. CASE n + k > MaxInt32
    <3>1. Flow!wrap(n + k) = n + k - 2 * (MaxInt32 + 1)
      BY <2>2, WrapInRange
    <3>2. n > 0 /\ ~(n + k - 2 * (MaxInt32 + 1) > k)
      BY <2>2 DEF Flow!Int32
    <3> QED
      BY <2>2, <3>1, <3>2 DEF Flow!canAdd, Flow!Int32
  <2>3. CASE n + k < -MaxInt32 - 1
    <3>1. Flow!wrap(n + k) = n + k + 2 * (MaxInt32 + 1)
      BY <2>3, WrapInRange
    <3>2. ~(n > 0) /\ n + k + 2 * (MaxInt32 + 1) > k
      BY <2>3 DEF Flow!Int32
    <3> QED
      BY <2>3, <3>1, <3>2 DEF Flow!canAdd, Flow!Int32
  <2> QED
    BY <2>1, <2>2, <2>3 DEF Flow!Int32
<1>2. Flow!canAdd(n, k) => Flow!add(n, k) = n + k /\ n + k \in Flow!Int32
  BY <1>1, WrapInRange DEF Flow!add
<1>3. ~Flow!canAdd(n, k) => Flow!add(n, k) = n
  BY DEF Flow!add
<1> QED
  BY <1>1, <1>2, <1>3

-----------------------------------------------------------------------------
(* timeoutHandler of server.go: module ServerHandlers. *)
CONSTANTS Patterns, Paths, Hosts, Port(_), MaxOps, Codes

Handlers == INSTANCE ServerHandlers

TimeoutSpec == Handlers!TimeoutInit /\ [][Handlers!TimeoutNext]_s

TimeoutWriter == [hdr : Nat, wroteHeader : BOOLEAN, code : Nat, wbuf : Seq(Nat), timedOut : BOOLEAN]
ReplyWritten ==
    [by : {"nobody", "handler", "panic", "timeout"}, hdr : Nat, code : Nat, body : Seq(Nat), seen : Nat]
TimeoutState ==
    [m : {"timeout"}, h : {"runs", "returned", "panicked"}, n : Nat, ctx : BOOLEAN,
     tw : TimeoutWriter, w : ReplyWritten, ok : Seq(Nat), late : BOOLEAN]

(* The buffer holds the writes that succeeded; the handler's reply is sent *)
(* when it runs no more, the 503 once the buffer is closed for it.         *)
TimeoutSent ==
    /\ s.tw.wbuf = s.ok
    /\ s.w.by = "timeout" => s.tw.timedOut
    /\ s.w.by = "handler" => s.h = "returned"
    /\ s.w.by \in {"handler", "timeout"} => Len(s.ok) = s.w.seen
    /\ s.w.by = "handler" => /\ s.w.body = s.ok /\ s.w.hdr = s.tw.hdr
                             /\ s.w.code = IF s.tw.wroteHeader THEN s.tw.code ELSE 200
TimeoutInv == s \in TimeoutState /\ TimeoutSent

LEMMA TimeoutWriteHeader ==
  ASSUME NEW t \in TimeoutWriter, NEW code \in Nat
  PROVE  /\ Handlers!writeHeaderLocked(t, code) \in TimeoutWriter
         /\ Handlers!writeHeaderLocked(t, code).wbuf = t.wbuf
         /\ Handlers!writeHeaderLocked(t, code).timedOut = t.timedOut
<1>1. CASE t.timedOut \/ t.wroteHeader
  BY <1>1 DEF Handlers!writeHeaderLocked
<1>2. CASE ~(t.timedOut \/ t.wroteHeader)
  <2>1. PICK u \in TimeoutWriter : u = [t EXCEPT !.code = code]
    BY DEF TimeoutWriter
  <2>2. Handlers!writeHeaderLocked(t, code) = [u EXCEPT !.wroteHeader = TRUE]
    BY <1>2, <2>1 DEF Handlers!writeHeaderLocked, TimeoutWriter
  <2>3. [u EXCEPT !.wroteHeader = TRUE] \in TimeoutWriter
    BY DEF TimeoutWriter
  <2>4. [u EXCEPT !.wroteHeader = TRUE].wbuf = t.wbuf /\ [u EXCEPT !.wroteHeader = TRUE].timedOut = t.timedOut
    BY <2>1 DEF TimeoutWriter
  <2> QED BY <2>2, <2>3, <2>4
<1> QED BY <1>1, <1>2

LEMMA TimeoutNext ==
  ASSUME Codes \subseteq Nat, TimeoutInv, Handlers!TimeoutNext
  PROVE  TimeoutInv'
<1>0. /\ s.n \in Nat /\ s.n + 1 \in Nat /\ s.tw \in TimeoutWriter /\ s.w \in ReplyWritten /\ s.ok \in Seq(Nat)
      /\ s.h \in {"runs", "returned", "panicked"} /\ s.tw.timedOut \in BOOLEAN
  BY DEF TimeoutInv, TimeoutState, TimeoutWriter
<1>1. ASSUME NEW t \in TimeoutWriter, s' = Handlers!Step(t), s.h = "runs",
             t.wbuf = s.tw.wbuf, t.timedOut = s.tw.timedOut
      PROVE  TimeoutInv'
  <2>1. s' = [s EXCEPT !.n = s.n + 1, !.tw = t]
    BY <1>1 DEF Handlers!Step
  <2>2. s' \in TimeoutState
    BY <1>0, <2>1 DEF TimeoutInv, TimeoutState
  <2>3. s'.tw = t /\ UNCHANGED <<s.w, s.ok, s.h>>
    BY <2>1 DEF TimeoutInv, TimeoutState
  <2> QED BY <1>1, <2>2, <2>3 DEF TimeoutInv, TimeoutSent
<1>2. CASE Handlers!Header
  <2>1. PICK t : t = [s.tw EXCEPT !.hdr = s.n + 1]
    OBVIOUS
  <2>2. t \in TimeoutWriter /\ t.wbuf = s.tw.wbuf /\ t.timedOut = s.tw.timedOut
    BY <1>0, <2>1 DEF TimeoutWriter
  <2> QED BY <1>1, <1>2, <2>1, <2>2 DEF Handlers!Header, Handlers!Handling
<1>3. ASSUME NEW code \in Codes, Handlers!WriteHeader(code) PROVE TimeoutInv'
  <2>1. code \in Nat
    OBVIOUS
  <2> QED BY <1>0, <1>1, <1>3, <2>1, TimeoutWriteHeader DEF Handlers!WriteHeader, Handlers!Handling
<1>4. CASE Handlers!Write
  <2>1. CASE Handlers!writeInTime
    <3>1. PICK u \in TimeoutWriter : u = Handlers!writeHeaderLocked(s.tw, 200) /\ u.wbuf = s.tw.wbuf
      BY <1>0, TimeoutWriteHeader, ZenonT(60)
    <3>a. PICK k \in Nat, q \in Seq(Nat) : k = s.n /\ q = s.ok
      BY <1>0, ZenonT(60)
    <3>b. Append(q, k) \in Seq(Nat)
      OBVIOUS
    <3>2. PICK ok \in Seq(Nat) : ok = Append(s.ok, s.n)
      BY <3>a, <3>b, ZenonT(60)
    <3>3. PICK t \in TimeoutWriter : t = [u EXCEPT !.wbuf = ok]
      BY ZenonT(60) DEF TimeoutWriter
    <3>4. u.wbuf = s.ok /\ s.h = "runs" /\ s.w.by \notin {"handler", "timeout"}
      BY <1>4, <2>1, <3>1 DEF Handlers!Write, Handlers!Handling, Handlers!writeInTime, TimeoutInv, TimeoutSent
    <3>5. s' = [s EXCEPT !.n = s.n + 1, !.tw = t, !.ok = ok]
      BY <1>4, <2>1, <3>1, <3>2, <3>3, <3>4, ZenonT(60)
         DEF Handlers!Write, Handlers!Step, TimeoutInv, TimeoutState, TimeoutWriter
    <3>6. s' \in TimeoutState
      BY <1>0, <3>5, ZenonT(60) DEF TimeoutInv, TimeoutState
    <3>7. s'.tw = t /\ s'.ok = ok /\ t.wbuf = ok /\ UNCHANGED s.w
      BY <3>3, <3>5 DEF TimeoutInv, TimeoutState, TimeoutWriter
    <3> QED BY <3>4, <3>6, <3>7 DEF TimeoutInv, TimeoutSent
  <2>2. CASE ~Handlers!writeInTime
    BY <1>0, <1>1, <1>4, <2>2 DEF Handlers!Write, Handlers!Handling
  <2> QED BY <2>1, <2>2
<1>5. CASE Handlers!Push
  <2>1. PICK late \in BOOLEAN : late = (s.late \/ s.w.by # "nobody")
    OBVIOUS
  <2>2. PICK x \in TimeoutState : x = [s EXCEPT !.n = s.n + 1]
    BY <1>0 DEF TimeoutInv, TimeoutState
  <2>3. s' = [x EXCEPT !.late = late]
    BY <1>5, <2>1, <2>2 DEF Handlers!Push, Handlers!Step, TimeoutInv, TimeoutState
  <2>4. s' \in TimeoutState
    BY <2>2, <2>3 DEF TimeoutState
  <2>5. UNCHANGED <<s.tw, s.w, s.ok, s.h>>
    BY <2>2, <2>3 DEF TimeoutInv, TimeoutState
  <2> QED BY <2>4, <2>5 DEF TimeoutInv, TimeoutSent
<1>6. ASSUME NEW how \in {"returned", "panicked"}, Handlers!handlerEnds(how) PROVE TimeoutInv'
  <2>1. s' = [s EXCEPT !.h = how] /\ s.h = "runs"
    BY <1>6 DEF Handlers!handlerEnds
  <2>2. s' \in TimeoutState
    BY <2>1 DEF TimeoutInv, TimeoutState
  <2>3. UNCHANGED <<s.tw, s.w, s.ok>>
    BY <2>1 DEF TimeoutInv, TimeoutState
  <2> QED BY <2>1, <2>2, <2>3 DEF TimeoutInv, TimeoutSent
<1>7. CASE Handlers!contextDone
  <2>1. s' = [s EXCEPT !.ctx = TRUE]
    BY <1>7 DEF Handlers!contextDone
  <2>2. s' \in TimeoutState
    BY <2>1 DEF TimeoutInv, TimeoutState
  <2>3. UNCHANGED <<s.tw, s.w, s.ok, s.h>>
    BY <2>1 DEF TimeoutInv, TimeoutState
  <2> QED BY <2>2, <2>3 DEF TimeoutInv, TimeoutSent
<1>8. CASE Handlers!selectDone
  <2>1. PICK w : w = Handlers!finished(s.tw)
    OBVIOUS
  <2>2. s' = [s EXCEPT !.w = w] /\ s.h = "returned"
    BY <1>8, <2>1 DEF Handlers!selectDone
  <2>3. /\ w \in ReplyWritten /\ w.by = "handler" /\ w.body = s.tw.wbuf /\ w.hdr = s.tw.hdr /\ w.seen = Len(s.ok)
        /\ w.code = IF s.tw.wroteHeader THEN s.tw.code ELSE 200
    BY <1>0, <2>1 DEF Handlers!finished, ReplyWritten, TimeoutWriter
  <2>4. s' \in TimeoutState
    BY <2>2, <2>3 DEF TimeoutInv, TimeoutState
  <2>5. s'.w = w /\ UNCHANGED <<s.tw, s.ok, s.h>>
    BY <2>2 DEF TimeoutInv, TimeoutState
  <2> QED BY <2>2, <2>3, <2>4, <2>5 DEF TimeoutInv, TimeoutSent
<1>9. CASE Handlers!selectPanic
  <2>a. PICK w : w = [s.w EXCEPT !.by = "panic"]
    BY ZenonT(60)
  <2>1. w \in ReplyWritten /\ w.by = "panic"
    BY <1>0, <2>a, ZenonT(60) DEF ReplyWritten
  <2>2. s' = [s EXCEPT !.w = w]
    BY <1>9, <2>a DEF Handlers!selectPanic, TimeoutInv, TimeoutState
  <2>3. s' \in TimeoutState
    BY <2>1, <2>2 DEF TimeoutInv, TimeoutState
  <2>4. s'.w = w /\ UNCHANGED <<s.tw, s.ok, s.h>>
    BY <2>2 DEF TimeoutInv, TimeoutState
  <2> QED BY <2>1, <2>3, <2>4 DEF TimeoutInv, TimeoutSent
<1>10. CASE Handlers!selectTimeout
  <2>a. PICK w : w = [by |-> "timeout", hdr |-> 0, code |-> 503, body |-> <<>>, seen |-> Len(s.ok)]
    BY ZenonT(60)
  <2>b. Len(s.ok) \in Nat
    BY <1>0
  <2>1. w \in ReplyWritten /\ w.by = "timeout" /\ w.seen = Len(s.ok)
    BY <2>a, <2>b DEF ReplyWritten
  <2>2. PICK t \in TimeoutWriter : t = [s.tw EXCEPT !.timedOut = TRUE]
    BY <1>0, ZenonT(60) DEF TimeoutWriter
  <2>3. s' = [s EXCEPT !.w = w, !.tw = t]
    BY <1>10, <2>a, <2>2 DEF Handlers!selectTimeout, TimeoutInv, TimeoutState
  <2>4. s' \in TimeoutState
    BY <2>1, <2>3 DEF TimeoutInv, TimeoutState
  <2>5. s'.w = w /\ s'.tw = t /\ t.wbuf = s.tw.wbuf /\ t.timedOut /\ UNCHANGED <<s.ok, s.h>>
    BY <2>2, <2>3 DEF TimeoutInv, TimeoutState, TimeoutWriter
  <2> QED BY <2>1, <2>4, <2>5 DEF TimeoutInv, TimeoutSent
<1> QED BY <1>2, <1>3, <1>4, <1>5, <1>6, <1>7, <1>8, <1>9, <1>10 DEF Handlers!TimeoutNext

(* TimeoutHandler: whatever the wrapped handler does with its              *)
(* ResponseWriter, and whenever the time is up, the reply is all of the    *)
(* handler's, with every byte whose Write returned no error, or it is the  *)
(* 503; after either no Write succeeds.                                    *)
THEOREM OneReplyHolds ==
  ASSUME Codes \subseteq Nat
  PROVE  TimeoutSpec => []Handlers!OneReply
<1>1. Handlers!TimeoutInit => TimeoutInv
  <2> SUFFICES ASSUME Handlers!TimeoutInit PROVE TimeoutInv
    OBVIOUS
  <2>1. s \in TimeoutState
    BY DEF Handlers!TimeoutInit, TimeoutState, TimeoutWriter, ReplyWritten
  <2>2. s.tw.wbuf = s.ok /\ s.w.by = "nobody"
    BY DEF Handlers!TimeoutInit
  <2> QED BY <2>1, <2>2 DEF TimeoutInv, TimeoutSent
<1>2. TimeoutInv /\ [Handlers!TimeoutNext]_s => TimeoutInv'
  <2>1. ASSUME TimeoutInv, UNCHANGED s PROVE TimeoutInv'
    BY <2>1 DEF TimeoutInv, TimeoutSent
  <2> QED BY <2>1, TimeoutNext
<1>3. TimeoutInv => Handlers!OneReply
  BY DEF TimeoutInv, TimeoutSent, Handlers!OneReply
<1> QED BY <1>1, <1>2, <1>3, PTL DEF TimeoutSpec
=============================================================================
