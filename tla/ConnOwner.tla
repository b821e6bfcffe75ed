----------------------------- MODULE ConnOwner -----------------------------
(***************************************************************************)
(* What the HTTP/1 connection pool of src/transport.go promises, without   *)
(* its lists, queues and locks.  A connection is lent to one request at a  *)
(* time and comes back to the pool before it is lent again; a request is   *)
(* answered once, with a connection or without one; a closed connection    *)
(* stays closed.                                                           *)
(***************************************************************************)
CONSTANTS Requests, Conns, None

VARIABLES
    place,    \* "unborn", "lent", "pool" (in transit to or from it), "idle", "closed"
    user,     \* the request a lent connection is with, None otherwise
    answered  \* requests that have been answered

vars == <<place, user, answered>>

Init ==
    /\ place = [c \in Conns |-> "unborn"]
    /\ user = [c \in Conns |-> None]
    /\ answered = {}

(* What one step may do to one connection. *)
Keep(c) == place'[c] = place[c] /\ user'[c] = user[c]
Lend(c) ==
    /\ place[c] \in {"unborn", "pool", "idle"}
    /\ place'[c] = "lent"
    /\ user'[c] \in answered' \ answered
Return(c) ==
    /\ place[c] \in {"unborn", "lent", "idle"}
    /\ place'[c] = "pool" /\ user'[c] = None
Park(c) == place[c] = "pool" /\ place'[c] = "idle" /\ user'[c] = None
Close(c) == place[c] # "unborn" /\ place'[c] = "closed" /\ user'[c] = None

Next ==
    /\ answered \subseteq answered' /\ answered' \subseteq Requests
    /\ \A c \in Conns : Keep(c) \/ Lend(c) \/ Return(c) \/ Park(c) \/ Close(c)
    /\ \A c, d \in Conns :
         place'[c] = "lent" /\ place'[d] = "lent" /\ user'[c] = user'[d] => c = d

Spec == Init /\ [][Next]_vars
=============================================================================
