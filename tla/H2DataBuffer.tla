---------------------------- MODULE H2DataBuffer ----------------------------
(***************************************************************************)
(* The buffers of HTTP/2 request bodies (src/http2/databuffer.go): lists   *)
(* of chunks that come from pools shared by all streams.  The pipe of a    *)
(* stream admits one call at a time to its buffer; the loops of the calls  *)
(* on different buffers interleave.  The k-th byte written to buffer b is  *)
(* the number 100 * b + k; an unused byte of a chunk is 0.                 *)
(***************************************************************************)
EXTENDS Naturals, Sequences, FiniteSets, SequencesExt

CONSTANTS
    Buffers,               \* numbers
    dataChunkSizeClasses,  \* increasing sizes
    MaxBytes,              \* written to a buffer
    MaxChunks,             \* chunks ever made
    Confs                  \* [expected: bytes each buffer expects, most: bytes of a call]

VARIABLE s

Here == s.m = "dbuf"

Init ==
    \E t \in Confs :
      s = [m |-> "dbuf", t |-> t, mem |-> <<>>, pool |-> {},     \* the chunks, and those in the pools
           buf |-> [b \in Buffers |-> [chunks |-> <<>>, r |-> 0, w |-> 0, size |-> 0, expected |-> t.expected]],
           pc |-> [b \in Buffers |-> "idle"],
           p |-> [b \in Buffers |-> 0],                          \* bytes the call has yet to write or to read
           put |-> [b \in Buffers |-> 0],                        \* bytes written so far
           got |-> [b \in Buffers |-> 0],                        \* bytes read so far
           wrong |-> FALSE]                                      \* a byte was read that was not the next one

least(m, n) == IF m < n THEN m ELSE n

(* getDataBufferChunk: the class of a chunk for so many bytes.             *)
class(size) ==
    LET fits == {i \in DOMAIN dataChunkSizeClasses : size <= dataChunkSizeClasses[i]}
    IN  dataChunkSizeClasses[IF fits = {} THEN Len(dataChunkSizeClasses)
                             ELSE CHOOSE i \in fits : \A j \in fits : i <= j]

(* Write: chunks are filled until all of p is copied.                      *)
WriteCall(b) ==
    /\ Here /\ s.pc[b] = "idle"
    /\ \E n \in 1..s.t.most :
         /\ s.put[b] + n <= MaxBytes
         /\ s' = [s EXCEPT !.pc[b] = "write", !.p[b] = n]

hasRoom(x) == x.chunks # <<>> /\ x.w < Len(s.mem[Last(x.chunks)])

(* copy(chunk[b.w:], p) into chunk c of x.                                 *)
copied(b, x, mem, c) ==
    LET n == least(Len(mem[c]) - x.w, s.p[b])
    IN  [s EXCEPT !.mem = [mem EXCEPT ![c] = [i \in DOMAIN @ |-> IF i > x.w /\ i <= x.w + n
                                                                  THEN 100 * b + s.put[b] + i - x.w ELSE @[i]]],
                  !.pool = @ \ {c}, !.put[b] = @ + n, !.p[b] = @ - n, !.pc[b] = IF n = s.p[b] THEN "idle" ELSE @,
                  !.buf[b] = [x EXCEPT !.w = @ + n, !.size = @ + n, !.expected = IF @ < n THEN 0 ELSE @ - n]]

WriteChunk(b) ==
    /\ Here /\ s.pc[b] = "write" /\ hasRoom(s.buf[b])
    /\ s' = copied(b, s.buf[b], s.mem, Last(s.buf[b].chunks))

(* lastChunkOrAlloc when the last chunk is full: one of the pool, or a new *)
(* one.                                                                    *)
want(b) == IF s.buf[b].expected > s.p[b] THEN s.buf[b].expected ELSE s.p[b]
WriteAlloc(b) ==
    /\ Here /\ s.pc[b] = "write" /\ ~hasRoom(s.buf[b])
    /\ LET size == class(want(b))
           new == Len(s.mem) + 1
           owned(c) == [s.buf[b] EXCEPT !.chunks = Append(@, c), !.w = 0]
       IN  \/ \E c \in s.pool : Len(s.mem[c]) = size /\ s' = copied(b, owned(c), s.mem, c)
           \/ /\ new <= MaxChunks
              /\ s' = copied(b, owned(new), Append(s.mem, [i \in 1..size |-> 0]), new)

(* Read: chunks are copied from until the caller's slice is full or        *)
(* nothing is left; a chunk that was read to its end goes to the pool.     *)
ReadCall(b) ==
    /\ Here /\ s.pc[b] = "idle" /\ s.buf[b].size > 0
    /\ \E n \in 1..s.t.most : s' = [s EXCEPT !.pc[b] = "read", !.p[b] = n]

bytesFromFirstChunk(x) == (IF Len(x.chunks) = 1 THEN x.w ELSE Len(s.mem[x.chunks[1]])) - x.r
consumedSoFar(x, r) == r = x.w
consumed(x, r) == r = Len(s.mem[x.chunks[1]])
ReadChunk(b) ==
    /\ Here /\ s.pc[b] = "read"
    /\ LET x == s.buf[b]
           n == least(s.p[b], bytesFromFirstChunk(x))
           whole == consumed(x, x.r + n)
           over == n = s.p[b] \/ n = x.size
       IN  s' = [s EXCEPT !.p[b] = IF over THEN 0 ELSE @ - n, !.pc[b] = IF over THEN "idle" ELSE @,
                          !.got[b] = @ + n,
                          !.wrong = @ \/ \E i \in 1..n : s.mem[x.chunks[1]][x.r + i] # 100 * b + s.got[b] + i,
                          !.pool = @ \cup (IF whole THEN {x.chunks[1]} ELSE {}),
                          !.buf[b] = [x EXCEPT !.size = @ - n, !.r = IF whole THEN 0 ELSE @ + n,
                                               !.chunks = IF whole THEN Tail(@) ELSE @]]

Next ==
    /\ Here
    /\ \E b \in Buffers :
         \/ WriteCall(b) \/ WriteChunk(b) \/ WriteAlloc(b)
         \/ ReadCall(b) \/ ReadChunk(b)

-----------------------------------------------------------------------------
(* Whatever other streams take from and give to the pools, a buffer gives  *)
(* back the bytes written to it in their order, its size is what has not   *)
(* been read, and each chunk belongs to one buffer or to the pools.        *)
BufferExact ==
    Here =>
      /\ ~s.wrong
      /\ \A b \in Buffers : s.buf[b].size = s.put[b] - s.got[b]
      /\ \A b, d \in Buffers : \A i \in DOMAIN s.buf[b].chunks : \A j \in DOMAIN s.buf[d].chunks :
           s.buf[b].chunks[i] = s.buf[d].chunks[j] => b = d /\ i = j
      /\ \A b \in Buffers : Range(s.buf[b].chunks) \cap s.pool = {}
=============================================================================
