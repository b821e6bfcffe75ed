----------------------------- MODULE HeaderWrite -----------------------------
(***************************************************************************)
(* Writing headers in order (src/header.go: writeSubset and the sorters it *)
(* takes from headerSorterPool).  Goroutines write headers at the same     *)
(* time; a sorter carries its slice of keys and its order from one use to  *)
(* the next, and a writer reads the keys from the sorter's slice while it  *)
(* writes.  Keys are numbers, compared as numbers; two more stand for the  *)
(* magic keys of the order.                                                *)
(***************************************************************************)
EXTENDS Naturals, Sequences, FiniteSets, SequencesExt

CONSTANTS
    Writers,      \* goroutines
    Confs         \* [jobs: Writers -> sequence of [keys, order, exclude]]; order is <<>> where the header has none

VARIABLE s

Here == s.m = "header"

HeaderOrderKey == 100
PHeaderOrderKey == 101

Sorters == 1..Cardinality(Writers)
job(w) == s.t.jobs[w][s.at[w]]
hasOrder(h) == h.order # <<>>

Init ==
    \E t \in Confs :
      s = [m |-> "header", t |-> t, made |-> 0, pool |-> {},
           sorter |-> [i \in Sorters |-> [kvs |-> <<>>, order |-> <<>>]],
           pc |-> [w \in Writers |-> "idle"], at |-> [w \in Writers |-> 1],
           mine |-> [w \in Writers |-> 0], n |-> [w \in Writers |-> 0], wrote |-> [w \in Writers |-> <<>>]]

(* writeSubset: with an order, the keys to leave out are copied and the    *)
(* magic keys added to the copy.                                           *)
excluded(h) == h.exclude \cup (IF hasOrder(h) THEN {HeaderOrderKey, PHeaderOrderKey} ELSE {})
keysOf(h) == {k \in h.keys \cup (IF hasOrder(h) THEN {HeaderOrderKey} ELSE {}) : k \notin excluded(h)}

(* Less.  An order names a key by its last position in it; a key it names  *)
(* comes before one it does not, and others are compared as keys.          *)
index(order, k) == CHOOSE i \in DOMAIN order : order[i] = k /\ \A j \in DOMAIN order : order[j] = k => j <= i
named(order, k) == k \in Range(order)
Less(order, a, b) ==
    IF named(order, a) # named(order, b) THEN named(order, a)
    ELSE IF named(order, a) THEN index(order, a) < index(order, b)
    ELSE a < b
sorted(order, keys) ==
    [i \in 1..Cardinality(keys) |-> CHOOSE k \in keys : Cardinality({j \in keys : Less(order, j, k)}) = i - 1]

(* SortedKeyValues and SortedKeyValuesBy: a sorter of the pool or a new    *)
(* one; its order is the caller's, or none.                                *)
orderKept(old, h) == IF hasOrder(h) THEN h.order ELSE old
orderFor(old, h) == h.order
SortedKeyValues(w) ==
    /\ Here /\ s.pc[w] = "idle" /\ s.at[w] <= Len(s.t.jobs[w])
    /\ \E i \in s.pool \cup (IF s.pool = {} THEN {s.made + 1} ELSE {}) :
         LET h == job(w)
             order == orderFor(s.sorter[i].order, h)
         IN  s' = [s EXCEPT !.pc[w] = "writing", !.mine[w] = i, !.n[w] = 0, !.wrote[w] = <<>>,
                            !.pool = @ \ {i}, !.made = IF i > @ THEN i ELSE @,
                            !.sorter[i] = [kvs |-> sorted(order, keysOf(h)), order |-> order]]

(* One field is written, from the sorter's slice.                          *)
keysLeft(w) == s.n[w] < Cardinality(keysOf(job(w)))
WriteField(w) ==
    /\ Here /\ s.pc[w] = "writing" /\ keysLeft(w)
    /\ s' = [s EXCEPT !.n[w] = @ + 1,
                      !.wrote[w] = Append(@, s.sorter[s.mine[w]].kvs[s.n[w] + 1])]

(* The sorter goes back when the last field, or one that failed, has been  *)
(* written.                                                                *)
finishedAnyTime(w) == TRUE
finished(w) == ~keysLeft(w)
Put(w) ==
    /\ Here /\ s.pc[w] = "writing" /\ s.mine[w] \notin s.pool /\ finished(w)
    /\ s' = [s EXCEPT !.pool = @ \cup {s.mine[w]}, !.pc[w] = IF keysLeft(w) THEN "writing" ELSE "wrote"]

WriteFails(w) ==
    /\ Here /\ s.pc[w] = "writing" /\ keysLeft(w)
    /\ s' = [s EXCEPT !.pool = @ \cup {s.mine[w]}, !.pc[w] = "idle", !.at[w] = @ + 1]

Done(w) ==
    /\ Here /\ s.pc[w] = "wrote"
    /\ s' = [s EXCEPT !.pc[w] = "idle", !.at[w] = @ + 1]

Next == Here /\ \E w \in Writers : SortedKeyValues(w) \/ WriteField(w) \/ Put(w) \/ WriteFails(w) \/ Done(w)

-----------------------------------------------------------------------------

(* Whoever used a sorter before and whoever writes at the same time, a     *)
(* header is written with each of its own keys once, without the keys to   *)
(* leave out and the magic ones, in its own order: the keys its order      *)
(* names as it names them, and then the others by key.                     *)
HeaderExact ==
    Here =>
      \A w \in Writers : s.pc[w] = "wrote" =>
        LET h == job(w)
            due == h.keys \ h.exclude
        IN  /\ Range(s.wrote[w]) = due /\ Len(s.wrote[w]) = Cardinality(due)
            /\ \A i, j \in DOMAIN s.wrote[w] : i < j => Less(h.order, s.wrote[w][i], s.wrote[w][j])
==============================================================================
