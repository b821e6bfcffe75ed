--------------------------- MODULE MCServerConn ---------------------------
(***************************************************************************)
(* Instances of ServerConn: two or three requests on a connection, each    *)
(* configuration with the few things that meet in it.                      *)
(***************************************************************************)
EXTENDS ServerConn

get == [method |-> "GET", minor |-> 1, keep |-> FALSE, close |-> FALSE, body |-> 0,
        chunked |-> FALSE, expect |-> "", bad |-> FALSE]
post == [get EXCEPT !.method = "POST", !.body = 1]
chunked(k) == [post EXCEPT !.chunked = TRUE, !.body = k]
expects == [post EXCEPT !.expect = "100"]
old == [get EXCEPT !.minor = 0, !.keep = TRUE]
sized(l) == [NoHead EXCEPT !.cl = l]

plain == [reqs |-> <<post, get>>, heads |-> {NoHead}, ops |-> {"write", "read", "flush"},
          env |-> {}, idle |-> FALSE]

Several == {
    \* framing: what handlers declare and write, for each kind of request
    [plain EXCEPT !.reqs = <<get, get>>, !.ops = {"write", "flush"},
        !.heads = {NoHead, sized(0), sized(1), sized(2), [NoHead EXCEPT !.status = "none"],
                   [sized(1) EXCEPT !.status = "none"], [NoHead EXCEPT !.te = "identity"],
                   [sized(1) EXCEPT !.te = "identity"], [sized(1) EXCEPT !.te = "gzip"],
                   [NoHead EXCEPT !.te = "chunked"], [NoHead EXCEPT !.conn = "close"],
                   [NoHead EXCEPT !.trailer = TRUE], sized(-2)}],
    [plain EXCEPT !.reqs = <<[get EXCEPT !.method = "HEAD"], get>>, !.ops = {"write", "flush"},
        !.heads = {NoHead, sized(1), [NoHead EXCEPT !.te = "chunked"]}],
    [plain EXCEPT !.reqs = <<old, old>>, !.ops = {"write", "flush"},
        !.heads = {NoHead, sized(1), [sized(1) EXCEPT !.conn = "keep-alive"],
                   [sized(1) EXCEPT !.te = "gzip"], [NoHead EXCEPT !.status = "none"]}],
    [plain EXCEPT !.reqs = <<[old EXCEPT !.keep = FALSE], get>>],
    [plain EXCEPT !.reqs = <<[post EXCEPT !.close = TRUE], get>>],
    \* bodies: read, closed, left alone; below, at and above MaxPost; malformed
    [plain EXCEPT !.reqs = <<post, get>>, !.ops = @ \cup {"close"}, !.env = {"pipeline"}],
    [plain EXCEPT !.reqs = <<[post EXCEPT !.body = 2], get>>, !.ops = @ \cup {"close"}, !.env = {"pipeline"}],
    [plain EXCEPT !.reqs = <<[post EXCEPT !.body = 3], get>>, !.ops = {"read", "close", "write"}, !.env = {"pipeline"}],
    [plain EXCEPT !.reqs = <<chunked(1), get>>, !.ops = @ \cup {"close"}, !.env = {"pipeline"}],
    [plain EXCEPT !.reqs = <<chunked(3), get>>, !.ops = {"read", "close", "write"}, !.env = {"pipeline"}],
    [plain EXCEPT !.reqs = <<[chunked(2) EXCEPT !.bad = TRUE], get>>, !.ops = @ \cup {"close"}, !.env = {"pipeline"}],
    [plain EXCEPT !.reqs = <<[chunked(0) EXCEPT !.bad = TRUE], get>>, !.ops = @ \cup {"close"}, !.env = {"pipeline"}],
    [plain EXCEPT !.reqs = <<[post EXCEPT !.body = 2], get>>, !.ops = {"read", "limit", "write"}, !.env = {"pipeline"}],
    \* 100 Continue
    [plain EXCEPT !.reqs = <<expects, get>>, !.ops = {"read", "write", "close"}],
    [plain EXCEPT !.reqs = <<expects, get>>, !.ops = {"read", "write"}, !.env = {"timer", "pipeline"}],
    [plain EXCEPT !.reqs = <<[expects EXCEPT !.minor = 0, !.keep = TRUE], get>>, !.ops = {"read", "write"}, !.env = {"timer"}],
    [plain EXCEPT !.reqs = <<[post EXCEPT !.expect = "other"], get>>],
    \* the background read: pipelined requests, clients that go, Hijack
    [plain EXCEPT !.reqs = <<get, get, get>>, !.ops = {"write", "hijack"}, !.env = {"pipeline", "gone"}],
    [plain EXCEPT !.reqs = <<post, get>>, !.ops = {"read", "write", "hijack", "panic"}, !.env = {"pipeline", "gone"}],
    [plain EXCEPT !.reqs = <<chunked(1), get>>, !.ops = {"read", "flush"}, !.env = {"gone", "timeout", "noalive"}],
    [plain EXCEPT !.reqs = <<get, [get EXCEPT !.bad = TRUE]>>, !.env = {"pipeline"}, !.idle = TRUE],
    [plain EXCEPT !.reqs = <<get, get>>, !.env = {"timeout", "noalive"}, !.idle = TRUE]}

(* A server with an IdleTimeout, a client that waits for each response. *)
Idle == {[plain EXCEPT !.reqs = <<get, get>>, !.ops = {}, !.idle = TRUE]}
(* A handler that limits the body, and closes it unread. *)
Wrapped == {[plain EXCEPT !.reqs = <<[post EXCEPT !.body = 3], get>>, !.ops = {"limit", "close"},
                          !.env = {"pipeline"}]}
(* A handler that limits the body of a client that waits for 100 Continue. *)
Waiting == {[plain EXCEPT !.reqs = <<expects, get>>, !.ops = {"limit"}]}
(* A handler that flushes its header before it reads such a body. *)
Early == {[plain EXCEPT !.reqs = <<expects, get>>, !.ops = {"read", "flush"}]}
(* A HEAD request with a chunked body. *)
HeadBody == {[plain EXCEPT !.reqs = <<[chunked(1) EXCEPT !.method = "HEAD"], get>>, !.ops = {}]}
===========================================================================
