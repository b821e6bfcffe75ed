-------------------------------- MODULE Hpack -------------------------------
(***************************************************************************)
(* Header compression (src/http2/hpack): the tables, and the octets.       *)
(***************************************************************************)
EXTENDS Integers, FiniteSets, SequencesExt

CONSTANTS
    Fields,      \* fields: [name, value, sensitive]
    Static,      \* the static table, a sequence of [name, value]
    Size(_),     \* HeaderField.Size
    Pseudo, Request,  \* names that begin with ':', those of requests
    Known, Invalid,   \* pseudo names that are known; names that are no header names
    Uint32Max,
    TableConfs        \* [init, own, list, fields, sizes, many, limits, ops]:
    \* the encoder's and the decoder's table sizes, MaxHeaderListSize, the fields written, the
    \* arguments of SetMaxDynamicTableSize (several times before a block if many) and of
    \* SetMaxDynamicTableSizeLimit, and how many calls there are

CONSTANTS
    Ints, Widths,         \* integers encoded, widths of the prefix
    Codes,                  \* symbol -> its code, a sequence of bits; no code is all ones
    Words, Strings,         \* strings of symbols; strings of octets
    MaxLens                 \* limits on the decoded length, 0 for none

VARIABLE s

-----------------------------------------------------------------------------
(* Header compression: an Encoder and the Decoder at the other end         *)
(* (src/http2/hpack), with the Framer's readMetaFrame that drives the      *)
(* decoder (src/http2/frame.go).  The two keep copies of one dynamic table *)
(* and agree on it only through the representations in the header blocks.  *)
(*                                                                         *)
(* A block is a sequence of octets that is cut into frames anywhere; an    *)
(* octet is [r, last]: the representation it belongs to, and whether it is *)
(* its last.  Strings are atomic: their Huffman form is in module          *)
(* HpackCodes.  The size of a field is Size(f), not less than 1.           *)
TableHere == s.m = "hpack"

-----------------------------------------------------------------------------
(* The tables (tables.go) *)
Names == {""} \cup {f.name : f \in Fields} \cup {Static[i].name : i \in DOMAIN Static}
Values == {""} \cup {f.value : f \in Fields} \cup {Static[i].value : i \in DOMAIN Static}
Entry(f) == [name |-> f.name, value |-> f.value]

NoTable == [ents |-> <<>>, evictCount |-> 0, byName |-> [n \in Names |-> 0],
            byNameValue |-> [p \in Names \X Values |-> 0]]

addEntry(t, f) ==
    LET id == Len(t.ents) + t.evictCount + 1 IN
    [t EXCEPT !.ents = Append(@, Entry(f)),
              !.byName = [@ EXCEPT ![f.name] = id],
              !.byNameValue = [@ EXCEPT ![<<f.name, f.value>>] = id]]

(* An id the maps hold is that of an evicted entry iff it is at most dead. *)
evictOldest(t, n) ==
    LET dead == t.evictCount + n
        kept(map) == [k \in DOMAIN map |-> IF map[k] <= dead THEN 0 ELSE map[k]] IN
    [ents |-> SubSeq(t.ents, n + 1, Len(t.ents)), evictCount |-> dead,
     byName |-> kept(t.byName), byNameValue |-> kept(t.byNameValue)]

Index(t, id) == Len(t.ents) - (id - t.evictCount - 1)       \* idToIndex
search(t, f) ==
    LET exact == t.byNameValue[<<f.name, f.value>>]
        byName == t.byName[f.name] IN
    IF ~f.sensitive /\ exact # 0 THEN [i |-> Index(t, exact), match |-> TRUE]
    ELSE IF byName # 0 THEN [i |-> Index(t, byName), match |-> FALSE]
    ELSE [i |-> 0, match |-> FALSE]

(* newStaticTable: the last entry of a name is the one byName has. *)
searchStatic(f) ==
    LET same == {i \in DOMAIN Static : Static[i].name = f.name}
        exact == {i \in same : Static[i].value = f.value}
        last(S) == CHOOSE i \in S : \A j \in S : j <= i IN
    IF ~f.sensitive /\ exact # {} THEN [i |-> last(exact), match |-> TRUE]
    ELSE [i |-> IF same = {} THEN 0 ELSE last(same), match |-> FALSE]

-----------------------------------------------------------------------------
(* dynamicTable (hpack.go) *)
Weight(ents) == FoldLeft(LAMBDA n, f : n + Size(f), 0, ents)

evict(d) ==
    LET fits(n) == Weight(SubSeq(d.table.ents, n + 1, Len(d.table.ents))) <= d.maxSize
        n == CHOOSE k \in 0..Len(d.table.ents) : fits(k) /\ \A j \in 0..k - 1 : ~fits(j) IN
    [d EXCEPT !.table = evictOldest(@, n)]
setMaxSize(d, v) == evict([d EXCEPT !.maxSize = v])
add(d, f) == evict([d EXCEPT !.table = addEntry(@, f)])

-----------------------------------------------------------------------------
(* The encoder (encode.go) *)

searchTable(e, f) ==
    LET st == searchStatic(f)
        dyn == search(e.table, f) IN
    IF st.match THEN st
    ELSE IF dyn.match \/ (st.i = 0 /\ dyn.i # 0)
      THEN [i |-> dyn.i + Len(Static), match |-> dyn.match]
    ELSE [st EXCEPT !.match = FALSE]

shouldIndex(e, f) == ~f.sensitive /\ Size(f) <= e.maxSize

SizeUpdate(v) == [k |-> "size", v |-> v]
SizeUpdates(e) ==
    IF ~e.update THEN <<>>
    ELSE (IF e.minSize < e.maxSize THEN <<SizeUpdate(e.minSize)>> ELSE <<>>) \o <<SizeUpdate(e.maxSize)>>

(* appendIndexed, appendNewName and appendIndexedName *)
Repr(e, f) ==
    LET at == searchTable(e, f) IN
    IF at.match THEN [k |-> "indexed", v |-> at.i]
    ELSE [k |-> "literal", v |-> at.i, name |-> IF at.i = 0 THEN f.name ELSE "", value |-> f.value,
          it |-> IF f.sensitive THEN "never" ELSE IF shouldIndex(e, f) THEN "true" ELSE "false"]

Octets(r) == IF r.k = "literal" THEN <<[r |-> r, last |-> FALSE], [r |-> r, last |-> TRUE]>>
             ELSE <<[r |-> r, last |-> TRUE]>>

TableInit ==
    \E t \in TableConfs :
      s = [m |-> "hpack", t |-> t, n |-> 0,
           e |-> [table |-> NoTable, maxSize |-> t.init, minSize |-> Uint32Max, limit |-> t.init,
                  update |-> FALSE],
           d |-> [table |-> NoTable, maxSize |-> t.own, allowed |-> t.own, buf |-> <<>>,
                  first |-> TRUE, emit |-> TRUE],
           changed |-> FALSE, block |-> <<>>, wire |-> <<>>, want |-> <<>>,
           mf |-> [fields |-> <<>>, remain |-> t.list, regular |-> FALSE, invalid |-> FALSE,
                   truncated |-> FALSE],
           at |-> "encode", err |-> "none"]

Encoding == TableHere /\ s.at = "encode" /\ s.n < s.t.ops

WriteField(f) ==
    LET r == Repr(s.e, f)
        e1 == [s.e EXCEPT !.update = FALSE, !.minSize = IF s.e.update THEN Uint32Max ELSE @] IN
    /\ Encoding
    /\ s' = [s EXCEPT !.n = @ + 1, !.changed = FALSE, !.want = Append(@, f),
                      !.block = @ \o FlattenSeq([i \in 1..Len(SizeUpdates(s.e)) |->
                                                    Octets(SizeUpdates(s.e)[i])]) \o Octets(r),
                      !.e = IF r.k = "literal" /\ shouldIndex(e1, f) THEN add(e1, f) ELSE e1]

(* The peer's SETTINGS_HEADER_TABLE_SIZE; never more than the decoder allows. *)
SetMaxDynamicTableSize(v) ==
    LET w == IF v > s.e.limit THEN s.e.limit ELSE v IN
    /\ Encoding /\ s.block = <<>> /\ (s.changed => s.t.many)
    /\ s' = [s EXCEPT !.n = @ + 1, !.changed = TRUE,
                      !.e = setMaxSize([@ EXCEPT !.update = TRUE,
                                                 !.minSize = IF w < @ THEN w ELSE @], w)]

SetMaxDynamicTableSizeLimit(v) ==
    /\ Encoding /\ s.block = <<>>
    /\ s' = [s EXCEPT !.n = @ + 1,
                      !.e = IF @.maxSize > v THEN setMaxSize([@ EXCEPT !.limit = v, !.update = TRUE], v)
                            ELSE [@ EXCEPT !.limit = v]]

blockWritten ==
    /\ TableHere /\ s.at = "encode" /\ s.block # <<>>
    /\ s' = [s EXCEPT !.at = "decode", !.wire = s.block, !.block = <<>>, !.d.emit = TRUE,
                      !.mf = [fields |-> <<>>, remain |-> s.t.list, regular |-> FALSE,
                              invalid |-> FALSE, truncated |-> FALSE]]

-----------------------------------------------------------------------------
(* The decoder (hpack.go) and the function readMetaFrame has it call.      *)
(* x is [d, mf, err].                                                      *)
at(d, i) ==
    IF i <= Len(Static) THEN Static[i] ELSE d.table.ents[Len(d.table.ents) - (i - Len(Static)) + 1]
InTable(d, i) == i >= 1 /\ i <= Len(Static) + Len(d.table.ents)

emitted(x, f) ==
    LET pseudo == f.name \in Pseudo
        bad == x.mf.invalid \/ (pseudo /\ x.mf.regular) \/ f.name \in Invalid
        mf1 == [x.mf EXCEPT !.regular = @ \/ ~pseudo, !.invalid = bad] IN
    IF bad THEN [x EXCEPT !.mf = mf1, !.d.emit = FALSE]
    ELSE IF Size(f) > mf1.remain
      THEN [x EXCEPT !.mf = [mf1 EXCEPT !.truncated = TRUE], !.d.emit = FALSE]
    ELSE [x EXCEPT !.mf = [mf1 EXCEPT !.remain = @ - Size(f), !.fields = Append(@, f)]]
callEmit(x, f) == IF x.d.emit THEN emitted(x, f) ELSE x

parseFieldIndexed(x, r) ==
    IF ~InTable(x.d, r.v) THEN [x EXCEPT !.err = "index"]
    ELSE LET f == at(x.d, r.v) IN
         callEmit(x, [name |-> f.name, value |-> f.value, sensitive |-> FALSE])

(* Strings that nobody wants are not decoded.  (Fault: not even those of a *)
(* field that is to be indexed.)                                           *)
wantEmit(d, it) == d.emit
wantStr(d, it) == d.emit \/ it = "true"
parseFieldLiteral(x, r) ==
    LET str(v) == IF wantStr(x.d, r.it) THEN v ELSE ""
        f == [name |-> IF r.v > 0 THEN at(x.d, r.v).name ELSE str(r.name), value |-> str(r.value),
              sensitive |-> r.it = "never"] IN
    IF r.v > 0 /\ ~InTable(x.d, r.v) THEN [x EXCEPT !.err = "index"]
    ELSE callEmit([x EXCEPT !.d = IF r.it = "true" THEN add(@, f) ELSE @], f)

parseDynamicTableSizeUpdate(x, r) ==
    IF (~x.d.first /\ Weight(x.d.table.ents) > 0) \/ r.v > x.d.allowed THEN [x EXCEPT !.err = "size"]
    ELSE [x EXCEPT !.d = setMaxSize(@, r.v)]

parseHeaderFieldRepr(x, r) ==
    IF x.err # "none" THEN x
    ELSE [CASE r.k = "indexed" -> parseFieldIndexed(x, r)
            [] r.k = "literal" -> parseFieldLiteral(x, r)
            [] r.k = "size" -> parseDynamicTableSizeUpdate(x, r) EXCEPT !.d.first = FALSE]

(* Decoder.Write with the octets of one frame: what is not complete is     *)
(* saved.                                                                  *)
Write(k) ==
    LET p == s.d.buf \o SubSeq(s.wire, 1, k)
        ends == {i \in DOMAIN p : p[i].last}
        whole == IF ends = {} THEN 0 ELSE CHOOSE i \in ends : \A j \in ends : j <= i
        reprs == [i \in 1..Cardinality(ends) |->
                     p[CHOOSE j \in ends : Cardinality({h \in ends : h <= j}) = i].r]
        x == FoldLeft(parseHeaderFieldRepr, [d |-> s.d, mf |-> s.mf, err |-> "none"], reprs) IN
    /\ TableHere /\ s.at = "decode" /\ k \in 1..Len(s.wire)
    /\ s' = [s EXCEPT !.wire = SubSeq(@, k + 1, Len(@)), !.mf = x.mf, !.err = x.err,
                      !.d = [x.d EXCEPT !.buf = SubSeq(p, whole + 1, Len(p))],
                      !.at = IF x.err = "none" THEN @ ELSE "failed"]

checkPseudos(fields) ==
    LET p == SelectSeq(fields, LAMBDA f : f.name \in Pseudo) IN
    /\ \A i \in DOMAIN p : p[i].name \in Known
    /\ \A i, j \in DOMAIN p : p[i].name = p[j].name => i = j
    /\ \A i, j \in DOMAIN p : p[i].name \in Request => p[j].name \in Request

(* END_HEADERS: Decoder.Close, and the end of readMetaFrame. *)
Close ==
    /\ TableHere /\ s.at = "decode" /\ s.wire = <<>>
    /\ s' = IF s.d.buf # <<>> THEN [s EXCEPT !.err = "truncated", !.at = "failed"]
            ELSE [s EXCEPT !.d.first = TRUE, !.at = "read",
                           !.mf.invalid = @ \/ ~checkPseudos(s.mf.fields)]

nextBlock ==
    /\ TableHere /\ s.at = "read"
    /\ s' = [s EXCEPT !.at = "encode", !.want = <<>>]

TableNext ==
    /\ TableHere
    /\ \/ blockWritten \/ Close \/ nextBlock
       \/ \E f \in s.t.fields : WriteField(f)
       \/ \E v \in s.t.sizes : SetMaxDynamicTableSize(v)
       \/ \E v \in s.t.limits : SetMaxDynamicTableSizeLimit(v)
       \/ \E k \in 1..Len(s.wire) : Write(k)

-----------------------------------------------------------------------------
(* The decoder understands every block the encoder writes, however it is   *)
(* cut into frames and however the table sizes change: it fails on none,   *)
(* the fields it hands out are the fields written, and after each block    *)
(* the entries of the encoder's table are the newest of the decoder's.     *)
HpackInSync ==
    TableHere =>
      /\ s.err = "none"
      /\ IsPrefix(s.mf.fields, s.want) \/ s.at = "encode"
      /\ s.at = "read" /\ ~s.mf.invalid /\ ~s.mf.truncated => s.mf.fields = s.want
      /\ s.at = "read" => IsSuffix(s.e.table.ents, s.d.table.ents)

-----------------------------------------------------------------------------
(* The octets of header compression (src/http2/hpack): integers with an    *)
(* n-bit prefix, and Huffman-coded strings, for any prefix code.  A        *)
(* behaviour encodes one input and decodes the result, or decodes octets   *)
(* that no encoder wrote.                                                  *)
CodeHere == s.m = "codes"

-----------------------------------------------------------------------------
(* Integers: appendVarInt and readVarInt *)
appendVarInt(n, i) ==
    LET k == 2^n - 1
        groups[j \in Nat] == IF j >= 128 THEN <<128 + (j % 128)>> \o groups[j \div 128] ELSE <<j>> IN
    IF i < k THEN <<i>> ELSE <<k>> \o groups[i - k]

Decoded(i, remain) == [i |-> i, remain |-> remain, err |-> "none"]
Undecoded(err) == [i |-> 0, remain |-> <<>>, err |-> err]

RECURSIVE moreGroups(_, _, _)
moreGroups(i, p, m) ==
    IF p = <<>> THEN Undecoded("needMore")
    ELSE LET i1 == i + (Head(p) % 128) * 2^m IN
         IF Head(p) < 128 THEN Decoded(i1, Tail(p))
         ELSE IF m + 7 >= 63 THEN Undecoded("overflow")
         ELSE moreGroups(i1, Tail(p), m + 7)

(* (Fault: an integer equal to the full prefix is taken for complete.) *)
completeFull(n, i) == i <= 2^n - 1
complete(n, i) == i < 2^n - 1
readVarInt(n, p) ==
    IF p = <<>> THEN Undecoded("needMore")
    ELSE LET i == Head(p) % 2^n IN
         IF complete(n, i) THEN Decoded(i, Tail(p)) ELSE moreGroups(i, Tail(p), 0)

-----------------------------------------------------------------------------
(* Huffman: AppendHuffmanString and HuffmanEncodeLength *)
Bits(octet) == [k \in 1..8 |-> (octet \div 2^(8 - k)) % 2]
Octet(bits) == FoldLeft(LAMBDA n, b : 2 * n + b, 0, bits)

CodeBits(w) == FlattenSeq([k \in DOMAIN w |-> Codes[w[k]]])
HuffmanEncodeLength(w) == (Len(CodeBits(w)) + 7) \div 8
AppendHuffmanString(w) ==
    LET n == HuffmanEncodeLength(w)
        bits == CodeBits(w) \o [k \in 1..8 * n - Len(CodeBits(w)) |-> 1] IN
    [k \in 1..n |-> Octet(SubSeq(bits, 8 * k - 7, 8 * k))]

(* children[octet] of the node that the octets in prefix lead to           *)
(* (addDecoderNode): a leaf, an inner node or nothing.                     *)
Child(prefix, bits) ==
    LET path == prefix \o bits
        leaf == {a \in DOMAIN Codes : /\ IsPrefix(prefix, Codes[a]) /\ prefix # Codes[a]
                                      /\ IsPrefix(Codes[a], path)} IN
    IF leaf # {} THEN [k |-> "leaf", sym |-> CHOOSE a \in leaf : TRUE]
    ELSE [k |-> IF \E a \in DOMAIN Codes : IsStrictPrefix(path, Codes[a]) THEN "inner" ELSE "nil",
          sym |-> "none"]
CodeLen(prefix, a) == Len(Codes[a]) - Len(prefix)

(* The state of huffmanDecode: the bits of cur that count, the octets that *)
(* led to the node n, sbits and the output.                                *)
Start == [cur |-> <<>>, n |-> <<>>, sbits |-> 0, out |-> <<>>, err |-> "none"]
Fail(h, err) == [h EXCEPT !.err = err]
Drop(bits, k) == SubSeq(bits, k + 1, Len(bits))
Symbol(h, a, maxLen) ==
    LET rest == Drop(h.cur, CodeLen(h.n, a)) IN
    IF maxLen # 0 /\ Len(h.out) = maxLen THEN Fail(h, "length")
    ELSE [h EXCEPT !.out = Append(@, a), !.cur = rest, !.n = <<>>, !.sbits = Len(rest)]

RECURSIVE wholeOctets(_, _)
wholeOctets(h, maxLen) ==
    IF h.err # "none" \/ Len(h.cur) < 8 THEN h
    ELSE LET c == Child(h.n, SubSeq(h.cur, 1, 8)) IN
         CASE c.k = "nil" -> Fail(h, "invalid")
           [] c.k = "leaf" -> wholeOctets(Symbol(h, c.sym, maxLen), maxLen)
           [] c.k = "inner" -> wholeOctets([h EXCEPT !.n = @ \o SubSeq(h.cur, 1, 8), !.cur = Drop(@, 8)], maxLen)

RECURSIVE lastBits(_, _)
lastBits(h, maxLen) ==
    IF h.err # "none" \/ h.cur = <<>> THEN h
    ELSE LET c == Child(h.n, h.cur \o [k \in 1..8 - Len(h.cur) |-> 0]) IN
         CASE c.k = "nil" -> Fail(h, "invalid")
           [] c.k = "leaf" /\ CodeLen(h.n, c.sym) <= Len(h.cur) -> lastBits(Symbol(h, c.sym, maxLen), maxLen)
           [] OTHER -> h

(* The padding.  (Fault: it may be longer than seven bits.) *)
padAny(h) == \A k \in DOMAIN h.cur : h.cur[k] = 1
padSound(h) == h.sbits <= 7 /\ \A k \in DOMAIN h.cur : h.cur[k] = 1
huffmanDecode(v, maxLen) ==
    LET octet(h, b) == IF h.err # "none" THEN h
                       ELSE wholeOctets([h EXCEPT !.cur = @ \o Bits(b), !.sbits = @ + 8], maxLen)
        h == lastBits(FoldLeft(octet, Start, v), maxLen) IN
    IF h.err = "none" /\ ~padSound(h) THEN Fail(h, "invalid") ELSE h

-----------------------------------------------------------------------------
CodeInit ==
    \/ \E i \in Ints, n \in Widths : s = [m |-> "codes", k |-> "int", n |-> n, in |-> i, done |-> FALSE]
    \/ \E w \in Words, n \in MaxLens : s = [m |-> "codes", k |-> "word", n |-> n, in |-> w, done |-> FALSE]
    \/ \E v \in Strings : s = [m |-> "codes", k |-> "octets", n |-> 0, in |-> v, done |-> FALSE]

CodeNext ==
    /\ CodeHere /\ ~s.done
    /\ s' = CASE s.k = "int" ->
                   [m |-> "codes", k |-> "int", n |-> s.n, in |-> s.in, done |-> TRUE,
                    wire |-> appendVarInt(s.n, s.in)]
              [] s.k = "word" ->
                   [m |-> "codes", k |-> "word", n |-> s.n, in |-> s.in, done |-> TRUE,
                    out |-> huffmanDecode(AppendHuffmanString(s.in), s.n)]
              [] s.k = "octets" ->
                   [m |-> "codes", k |-> "octets", n |-> 0, in |-> s.in, done |-> TRUE,
                    out |-> huffmanDecode(s.in, 0)]

(* What was encoded is what is decoded: an integer whatever follows it and *)
(* whatever is in the bits above its prefix, and never from a part of its  *)
(* octets; a string, unless it is too long.  The octets that decode to a   *)
(* string are the ones it is encoded to and no others.                     *)
CodesExact ==
    CodeHere /\ s.done =>
      CASE s.k = "int" ->
             /\ \A tail \in {<<>>, <<0>>, <<255, 7>>}, h \in 0..2^(8 - s.n) - 1 :
                  readVarInt(s.n, <<Head(s.wire) + h * 2^s.n>> \o Tail(s.wire) \o tail) = Decoded(s.in, tail)
             /\ \A k \in 0..Len(s.wire) - 1 : readVarInt(s.n, SubSeq(s.wire, 1, k)).err = "needMore"
        [] s.k = "word" ->
             IF s.n # 0 /\ Len(s.in) > s.n THEN s.out.err = "length"
             ELSE s.out.err = "none" /\ s.out.out = s.in
        [] s.k = "octets" -> s.out.err = "none" => AppendHuffmanString(s.out.out) = s.in
=============================================================================
