---------------------------- MODULE MCH2Client ----------------------------
(***************************************************************************)
(* Instances of H2Client: two requests and, in one configuration, a pushed *)
(* stream.  Each configuration adds the few events that meet there, and    *)
(* bounds the frames of the server.                                        *)
(***************************************************************************)
EXTENDS H2Client

CONSTANTS r1, r2, p1

plain == [reqs |-> {r1, r2}, body |-> {}, expect |-> {}, cancel |-> {}, inBody |-> FALSE,
          strict |-> TRUE, single |-> FALSE, first |-> 1, max |-> 1, maxes |-> {}, events |-> {},
          frames |-> 2]
alone == [plain EXCEPT !.reqs = {r1}]

Several == {
    \* a request that waits for a slot, behind one with a body; cancellation
    [plain EXCEPT !.body = {r1}, !.cancel = {r1, r2}, !.frames = 1, !.events = {"rst"}],
    [plain EXCEPT !.body = {r1}, !.events = {"rst"}],
    [plain EXCEPT !.cancel = {r2}, !.events = {"rst"}],
    \* a body that waits for flow control
    [plain EXCEPT !.body = {r1}, !.cancel = {r1}, !.events = {"window"}, !.frames = 1],
    [alone EXCEPT !.body = {r1}, !.cancel = {r1}, !.events = {"window"}],
    \* 100 Continue, 1xx responses, malformed responses
    [alone EXCEPT !.body = {r1}, !.expect = {r1}, !.cancel = {r1}, !.strict = FALSE, !.max = 2,
                  !.events = {"1xx", "bad"}],
    \* two streams, GOAWAY, the end of the network connection
    [plain EXCEPT !.body = {r1}, !.max = 2, !.events = {"goaway", "eof"}],
    [plain EXCEPT !.cancel = {r2}, !.max = 2, !.events = {"goaway", "eof"}],
    \* readers that close their bodies while data arrives; the owner closes the connection
    [plain EXCEPT !.events = {"close"}, !.max = 2],
    [plain EXCEPT !.events = {"readers"}, !.max = 2],
    [plain EXCEPT !.events = {"close", "readers"}, !.max = 2, !.frames = 1],
    [alone EXCEPT !.events = {"close", "ping", "readers"}, !.frames = 3],
    \* a response header that takes too long
    [alone EXCEPT !.body = {r1}, !.events = {"timeout", "bodyErr"}],
    \* frames out of order; the server lowers MAX_CONCURRENT_STREAMS
    [plain EXCEPT !.events = {"badserver"}, !.max = 2, !.maxes = {1}],
    [plain EXCEPT !.events = {"shutdown", "idle", "encode", "trailers"}],
    [plain EXCEPT !.events = {"write"}, !.body = {r1}, !.frames = 1],
    \* a reader that closes its body, and a context that ends
    [alone EXCEPT !.cancel = {r1}, !.events = {"readers"}],
    \* a connection for one request
    [plain EXCEPT !.single = TRUE, !.frames = 3],
    [alone EXCEPT !.events = {"push", "bad", "rst", "readers"}, !.frames = 3]}

(* The context of a request ends while its response body is read. *)
Canceled == {[plain EXCEPT !.cancel = {r1}, !.inBody = TRUE, !.max = 2]}
(* The server raises MAX_CONCURRENT_STREAMS. *)
Raised == {[plain EXCEPT !.maxes = {2}]}
(* A response header that takes too long, on a connection that is closed. *)
Late == {[plain EXCEPT !.events = {"close", "timeout", "readers"}, !.max = 2]}
=============================================================================
