----------------------------- MODULE Decompress -----------------------------
(***************************************************************************)
(* The lazy decompressors of response bodies (src/transport.go: gzipReader *)
(* and its pool, deflateReader, zstdReader).  A Read is a step that enters *)
(* and one that leaves; Close may run while a Read is inside, to unblock   *)
(* it.  The decompressor of a body is numbered; a number in the pool is    *)
(* free.                                                                   *)
(***************************************************************************)
EXTENDS Naturals, FiniteSets

CONSTANTS
    Bodies,       \* response bodies
    Confs         \* [kind: Bodies -> {"gzip", "deflate", "zstd"}, len: Bodies -> bytes of the body, reads]

VARIABLE s

Here == s.m = "gz"

Init ==
    \E t \in Confs :
      s = [m |-> "gz", t |-> t, pool |-> {}, n |-> 0,
           src |-> [i \in 1..Cardinality(Bodies) |-> "none"],     \* the body a decompressor reads
           zr |-> [b \in Bodies |-> 0], zerr |-> [b \in Bodies |-> "none"],
           at |-> [b \in Bodies |-> "out"], left |-> t.len, closed |-> {}, reads |-> 0,
           mixed |-> FALSE]                                       \* a Read returned another body's bytes

kind(b) == s.t.kind[b]
enters(b) == Here /\ s.at[b] = "out" /\ s.reads < s.t.reads
counted(x) == [x EXCEPT !.reads = @ + 1]

(* A sticky error *)
readAgain(b) ==
    /\ enters(b) /\ s.zerr[b] # "none"
    /\ s' = counted(s)

(* The first Read: a decompressor of the pool is reset to the body, or a   *)
(* new one is made; a header that cannot be read is a sticky error.        *)
inside(x, b, i) == [x EXCEPT !.zr[b] = i, !.src[i] = b, !.at[b] = "in"]
headerBad(b) == b \in s.closed \/ s.left[b] = 0

readPooled(b) ==
    /\ enters(b) /\ kind(b) = "gzip" /\ s.zerr[b] = "none" /\ s.zr[b] = 0
    /\ \E i \in s.pool :
         s' = counted(IF headerBad(b) THEN [s EXCEPT !.zerr[b] = "err", !.src[i] = b]
                      ELSE inside([s EXCEPT !.pool = @ \ {i}], b, i))
readNew(b) ==
    /\ enters(b) /\ s.zerr[b] = "none" /\ s.zr[b] = 0
    /\ kind(b) = "gzip" => s.pool = {}
    /\ s' = counted(IF headerBad(b) /\ kind(b) # "zstd" THEN [s EXCEPT !.zerr[b] = "err"]
                    ELSE inside([s EXCEPT !.n = @ + 1], b, s.n + 1))
readNext(b) ==
    /\ enters(b) /\ s.zerr[b] = "none" /\ s.zr[b] # 0
    /\ s' = counted([s EXCEPT !.at[b] = "in"])

(* Close closes the body only.  (Fault: it gives the decompressor back.)   *)
recycledOnClose(x, b) == [x EXCEPT !.zr[b] = 0, !.pool = IF kind(b) = "gzip" /\ x.zr[b] # 0 THEN @ \cup {x.zr[b]} ELSE @]
onClose(x, b) == x

(* The Read inside the decompressor ends.  The bytes are those of the body *)
(* it is set to; at the end it goes back to the pool.                      *)
atEOF(x, b) ==
    IF kind(b) # "gzip" THEN x
    ELSE [x EXCEPT !.zr[b] = 0, !.zerr[b] = "eof", !.pool = @ \cup {x.zr[b]}]

readData(b) ==
    /\ Here /\ s.at[b] = "in" /\ s.left[b] > 0 /\ b \notin s.closed
    /\ s' = [s EXCEPT !.at[b] = "out", !.left[b] = @ - 1, !.mixed = @ \/ s.zr[b] = 0 \/ s.src[s.zr[b]] # b]
readEOF(b) ==
    /\ Here /\ s.at[b] = "in" /\ s.left[b] = 0 /\ b \notin s.closed
    /\ s' = atEOF([s EXCEPT !.at[b] = "out"], b)
readFails(b) ==
    /\ Here /\ s.at[b] = "in" /\ b \in s.closed
    /\ s' = [s EXCEPT !.at[b] = "out"]

close(b) ==
    /\ Here /\ b \notin s.closed
    /\ s' = onClose([s EXCEPT !.closed = @ \cup {b}], b)

Next ==
    /\ Here
    /\ \E b \in Bodies :
         readAgain(b) \/ readPooled(b) \/ readNew(b) \/ readNext(b) \/ readData(b) \/ readEOF(b) \/ readFails(b) \/ close(b)

-----------------------------------------------------------------------------
(* A pooled decompressor is nobody's, no two bodies share one, and a Read  *)
(* returns bytes of its own body only.                                     *)
ReaderOwned ==
    Here =>
      /\ \A b \in Bodies : s.zr[b] \notin s.pool
      /\ \A b, c \in Bodies : b # c /\ s.zr[b] # 0 => s.zr[b] # s.zr[c]
      /\ \A b \in Bodies : s.at[b] = "in" => s.zr[b] # 0 /\ s.src[s.zr[b]] = b
      /\ ~s.mixed
=============================================================================
