----------------------------- MODULE MCH2Server -----------------------------
(* Instances of H2Server: one or two requests and one pushed stream, in    *)
(* configurations that each let a few of the events happen.                *)
EXTENDS H2Server

Quiet == [ids |-> {1}, early |-> FALSE, body |-> {}, decl |-> -1, reads |-> {}, max |-> 2, maxPush |-> 1,
          window |-> 1, conn |-> 2, updates |-> 0, frames |-> 1, data |-> 2, chunk |-> 1, events |-> {}]

Several ==
    { \* flow control in both directions
      [Quiet EXCEPT !.body = {1}, !.events = {"write"}, !.reads = {1}, !.updates = 1, !.chunk = 2],
      \* push, and a server without keep-alives
      [Quiet EXCEPT !.ids = {1, 3}, !.events = {"push", "nopush", "nokeepalive"}, !.chunk = 0],
      \* HEAD
      [Quiet EXCEPT !.body = {1}, !.events = {"write", "head", "rst"}, !.data = 1],
      \* malformed and refused requests, resets
      [Quiet EXCEPT !.ids = {1, 3}, !.body = {1}, !.max = 1, !.events = {"bad", "rst", "plain"}, !.data = 1],
      \* resets and write timeouts during a write
      [Quiet EXCEPT !.body = {1}, !.chunk = 2, !.events = {"rst", "timeout", "async"}, !.data = 1],
      \* the start of a connection, and the ways to end it gracefully
      [Quiet EXCEPT !.early = TRUE, !.data = 0, !.events = {"settings", "idle", "nopreface", "goaway"}],
      [Quiet EXCEPT !.body = {1}, !.data = 0, !.events = {"trailers", "shutdown", "bad"}],
      \* the ways to end it otherwise
      [Quiet EXCEPT !.body = {1}, !.decl = 1, !.events = {"error", "eof", "expect"}],
      [Quiet EXCEPT !.body = {1}, !.data = 1, !.events = {"error", "panic", "ping", "close", "window"}] }

(* A connection error while the connection is shutting down. *)
Draining == {[Quiet EXCEPT !.body = {1}, !.reads = {1}, !.data = 0, !.events = {"error", "shutdown"}]}
(* Resets and timeouts while DATA is being written. *)
Resets == {[Quiet EXCEPT !.body = {1}, !.events = {"rst", "timeout", "async", "write"}, !.data = 1]}
=============================================================================
