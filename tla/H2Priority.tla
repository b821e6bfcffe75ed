----------------------------- MODULE H2Priority -----------------------------
(***************************************************************************)
(* The priority write scheduler (src/http2/writesched_priority.go): the    *)
(* tree of streams, the frames queued at its nodes, and the order in which *)
(* Pop hands them out.  Node 0 is the root.                                *)
(*                                                                         *)
(* kids[n] is the list of n's kids from its head on: the pointers kids,    *)
(* next and prev of the code.  A frame is its number of DATA bytes.        *)
(***************************************************************************)
EXTENDS Integers, FiniteSets, SequencesExt

CONSTANTS
    DefaultWeight, Unit, MaxInt32,   \* priorityDefaultWeight, 1024, math.MaxInt32
    Confs    \* [streams, maxClosed, maxIdle, throttle, weights, sizes, ops, n]: the configuration,
             \* what is called, and how often

VARIABLE s

Here == s.m = "prio"
May(op) == Here /\ s.n < s.t.n /\ op \in s.t.ops /\ ~s.panic

Nil == -1
Nodes == {0} \cup s.t.streams

Init ==
    \E t \in Confs :
      LET all == {0} \cup t.streams IN
      s = [m |-> "prio", t |-> t, n |-> 0, panic |-> FALSE,
           nodes |-> {0}, maxID |-> 0, parent |-> [i \in all |-> Nil], kids |-> [i \in all |-> <<>>],
           state |-> [i \in all |-> "unknown"], weight |-> [i \in all |-> 0],
           bytes |-> [i \in all |-> 0], subtree |-> [i \in all |-> 0], q |-> [i \in all |-> <<>>],
           closedNodes |-> <<>>, idleNodes |-> <<>>,
           limit |-> IF t.throttle THEN Unit ELSE MaxInt32,
           blocked |-> {}, was |-> {}, over |-> {},   \* streams without flow; ever opened; closed
           due |-> 0]                            \* frames pushed and neither popped nor discarded

-----------------------------------------------------------------------------
(* The tree; x is the whole state. *)
setParent(x, n, p) ==
    IF x.parent[n] = p THEN x
    ELSE LET old == x.parent[n]
             cut == IF old = Nil THEN x.kids
                    ELSE [x.kids EXCEPT ![old] = SelectSeq(@, LAMBDA k : k # n)] IN
         [x EXCEPT !.parent[n] = p,
                   !.kids = IF p = Nil THEN cut ELSE [cut EXCEPT ![p] = <<n>> \o @]]

RECURSIVE addBytes(_, _, _)
addBytes(x, n, b) == IF n = Nil THEN x ELSE addBytes([x EXCEPT !.subtree[n] = @ + b], x.parent[n], b)

RECURSIVE Above(_, _)      \* n and what is above it
Above(x, n) == IF n = Nil THEN {} ELSE {n} \cup Above(x, x.parent[n])

Next1(x, k) ==             \* k.next
    LET list == IF x.parent[k] = Nil THEN <<k>> ELSE x.kids[x.parent[k]]
        i == CHOOSE j \in DOMAIN list : list[j] = k IN
    IF i = Len(list) THEN Nil ELSE list[i + 1]

(* The loop of removeNode: k.next is read after k has been moved. *)
RECURSIVE moveKids(_, _, _)
moveKids(x, k, p) ==
    IF k = Nil THEN x ELSE LET y == setParent(x, k, p) IN moveKids(y, Next1(y, k), p)

kidsMoved(x, n) == IF x.kids[n] = <<>> THEN x ELSE moveKids(x, Head(x.kids[n]), x.parent[n])
removeNode(x, n) ==
    [setParent(kidsMoved(x, n), n, Nil) EXCEPT !.nodes = @ \ {n}, !.q[n] = <<>>, !.state[n] = "removed"]

addClosed(x, n) ==
    LET full == Len(x.closedNodes) = x.t.maxClosed
        y == IF full THEN removeNode(x, Head(x.closedNodes)) ELSE x IN
    [y EXCEPT !.closedNodes = Append(IF full THEN Tail(@) ELSE @, n)]
addIdle(x, n) ==
    LET full == Len(x.idleNodes) = x.t.maxIdle
        y == IF full THEN removeNode(x, Head(x.idleNodes)) ELSE x IN
    [y EXCEPT !.idleNodes = Append(IF full THEN Tail(@) ELSE @, n)]

newNode(x, n, st, p) ==
    setParent([x EXCEPT !.nodes = @ \cup {n}, !.state[n] = st, !.weight[n] = DefaultWeight,
                        !.maxID = IF n > @ THEN n ELSE @], n, p)

Step(x) == [x EXCEPT !.n = @ + 1]

-----------------------------------------------------------------------------
(* The operations *)
(* The identifiers of each side's streams grow; 2, 4, ... are pushed. *)
OpenStream(n) ==
    LET pusher == IF n % 2 = 0 THEN 1 ELSE 0 IN
    /\ May("open") /\ \A k \in s.was : k % 2 = n % 2 => k < n
    /\ s' = LET x == [Step(s) EXCEPT !.was = @ \cup {n}] IN
            IF n \in s.nodes
              THEN IF s.state[n] # "idle" THEN [x EXCEPT !.panic = TRUE] ELSE [x EXCEPT !.state[n] = "open"]
            ELSE newNode(x, n, "open", IF pusher \in s.nodes THEN pusher ELSE 0)

(* The server closes a stream it opened, once. *)
CloseStream(n) ==
    /\ May("close") /\ n \in s.was \ s.over
    /\ s' = IF n \notin s.nodes \/ s.state[n] # "open" THEN [Step(s) EXCEPT !.panic = TRUE]
            ELSE LET x == [addBytes(Step(s), n, -s.bytes[n])
                             EXCEPT !.over = @ \cup {n}, !.state[n] = "closed", !.bytes[n] = 0, !.q[n] = <<>>,
                                    !.due = @ - Len(s.q[n])] IN
                 IF s.t.maxClosed > 0 THEN addClosed(x, n) ELSE removeNode(x, n)

(* Adjusting: the node is made if it is unknown; a parent below it is      *)
(* moved up first.                                                         *)
parentMoved(x, n, p) == IF n \in Above(x, x.parent[p]) THEN setParent(x, p, x.parent[n]) ELSE x

kidsTaken(x, n, p) ==      \* exclusive: the other kids of p go below n
    FoldLeft(LAMBDA y, k : IF k = n THEN y ELSE setParent(y, k, n), x, x.kids[p])

AdjustStream(n, dep, excl, w) ==
    LET known == n \in s.nodes
        x == IF known THEN Step(s) ELSE addIdle(newNode(Step(s), n, "idle", 0), n) IN
    /\ May("adjust")
    /\ s' = IF ~known /\ (n <= s.maxID \/ s.t.maxIdle = 0) THEN Step(s)
            ELSE IF dep \notin x.nodes THEN [setParent(x, n, 0) EXCEPT !.weight[n] = DefaultWeight]
            ELSE IF dep = n THEN x
            ELSE LET y == parentMoved(x, n, dep)
                     z == IF excl THEN kidsTaken(y, n, dep) ELSE y IN
                 [setParent(z, n, dep) EXCEPT !.weight[n] = w]

(* A frame of stream n: DATA and HEADERS of an open stream, RST_STREAM of  *)
(* any.                                                                    *)
Push(n, size) ==
    LET to == IF n \in s.nodes THEN n ELSE 0 IN
    /\ May("push") /\ Len(s.q[to]) < 2
    /\ IF n \in s.nodes THEN s.state[n] = "open" \/ n = 0 \/ (size = 0 /\ "rst" \in s.t.ops)
       ELSE size = 0 \/ n \in s.was \ s.over
    /\ s' = IF n \notin s.nodes /\ size > 0 THEN [Step(s) EXCEPT !.panic = TRUE]
            ELSE [Step(s) EXCEPT !.q[to] = Append(@, size), !.due = @ + 1]

window(n) == May("window") /\ s' = [Step(s) EXCEPT !.blocked = (@ \ {n}) \cup ({n} \ @)]

-----------------------------------------------------------------------------
(* Pop: walkReadyInOrder.  A result is [x, at, size]: the state with kids  *)
(* sorted, the node popped or Nil, and the bytes.                          *)
Less(x, a, b) ==
    LET wa == x.weight[a] + 1  wb == x.weight[b] + 1
        ba == x.subtree[a]     bb == x.subtree[b] IN
    IF ba = 0 /\ bb = 0 THEN wa >= wb ELSE IF bb = 0 THEN FALSE ELSE IF bb > 0 THEN ba * wb <= wa * bb ELSE ba * wb >= wa * bb

RECURSIVE inserted(_, _, _)          \* one pass of the insertion sort of sort.Sort
inserted(x, done, k) ==
    IF done = <<>> THEN <<k>>
    ELSE IF Less(x, k, Last(done)) THEN Append(inserted(x, Front(done), k), Last(done))
    ELSE Append(done, k)
needSort(x, list) == \E i \in DOMAIN list : x.weight[list[i]] # x.weight[list[1]]
sortKids(x, n) ==
    IF x.kids[n] # <<>> /\ needSort(x, x.kids[n])
      THEN [x EXCEPT !.kids[n] = FoldLeft(LAMBDA done, k : inserted(x, done, k), <<>>, @)]
      ELSE x

(* writeQueue.consume: what may be sent of the first frame, 0 for nothing  *)
(* (a frame without bytes is always sent).                                 *)
allowed(x, n, limit) ==
    LET size == Head(x.q[n]) IN IF n \in x.blocked THEN 0 ELSE IF limit < size THEN limit ELSE size
Consumes(x, n, limit) == x.q[n] # <<>> /\ (Head(x.q[n]) = 0 \/ allowed(x, n, limit) > 0)

RECURSIVE walk(_, _, _), walkKids(_, _, _)
walk(x, n, openParent) ==
    IF Consumes(x, n, IF openParent THEN x.limit ELSE MaxInt32)
      THEN [x |-> x, at |-> n, open |-> openParent]
    ELSE LET y == sortKids(x, n) IN walkKids(y, y.kids[n], openParent \/ (n # 0 /\ x.state[n] = "open"))
walkKids(x, list, openParent) ==
    IF list = <<>> THEN [x |-> x, at |-> Nil, open |-> FALSE]
    ELSE LET r == walk(x, Head(list), openParent) IN
         IF r.at # Nil THEN r ELSE walkKids(r.x, Tail(list), openParent)

popped(r) ==
    LET n == r.at
        x == r.x
        size == IF Head(x.q[n]) = 0 THEN 0 ELSE allowed(x, n, IF r.open THEN x.limit ELSE MaxInt32)
        whole == size = Head(x.q[n])
        more == IF x.limit + Unit > MaxInt32 THEN MaxInt32 ELSE x.limit + Unit IN
    [addBytes(x, n, size) EXCEPT
       !.bytes[n] = @ + size,
       !.q[n] = IF whole THEN Tail(@) ELSE <<Head(@) - size>> \o Tail(@),
       !.due = IF whole THEN @ - 1 ELSE @,
       !.limit = IF r.open THEN more ELSE IF x.t.throttle THEN Unit ELSE @]

Pop ==
    LET r == walk(s, 0, FALSE) IN
    /\ May("pop") /\ s.due > 0
    /\ s' = IF r.at = Nil THEN Step(r.x) ELSE popped([r EXCEPT !.x = Step(r.x)])

Next ==
    /\ Here
    /\ \/ \E n \in s.t.streams : OpenStream(n) \/ CloseStream(n) \/ window(n)
       \/ \E n \in s.t.streams, dep \in Nodes, excl \in BOOLEAN, w \in s.t.weights :
            AdjustStream(n, dep, excl, w)
       \/ \E n \in Nodes, size \in s.t.sizes : Push(n, size)
       \/ Pop

-----------------------------------------------------------------------------
(* Whatever the priorities, and however streams are opened, closed and     *)
(* forgotten: no call panics, the tree is a tree with every open stream in *)
(* it, no frame is lost, and Pop finds a frame if one can be sent.         *)
InTree == {n \in s.nodes : 0 \in Above(s, n)}
Queued == FoldSet(LAMBDA n, k : Len(s.q[n]) + k, 0, InTree)
PriorityTree ==
    Here =>
      /\ ~s.panic
      /\ s.was \ s.over \subseteq s.nodes
      /\ InTree = s.nodes
      /\ \A n \in s.nodes : \A k \in s.nodes : s.parent[k] = n <=> k \in ToSet(s.kids[n])
      /\ Queued = s.due
      /\ walk(s, 0, FALSE).at = Nil => \A n \in s.nodes : s.q[n] # <<>> => n \in s.blocked /\ Head(s.q[n]) > 0

(* "sum(node.bytes) of all nodes in this subtree" *)
SubtreeBytes ==
    Here => \A n \in s.nodes :
      s.subtree[n] = FoldSet(LAMBDA k, b : s.bytes[k] + b, 0, {k \in s.nodes : n \in Above(s, k)})
=============================================================================
