------------------------------- MODULE CgiHost -------------------------------
(***************************************************************************)
(* A CGI request: cgi/host.go's Handler.ServeHTTP builds the environment,  *)
(* starts the child process, copies the request's body to it and reads its *)
(* response; cgi/child.go builds the request of the child from the         *)
(* environment.  The processes are the handler, the child, and the         *)
(* goroutine of exec.Cmd that copies the body.  An environment is a        *)
(* sequence of <<key, value>>; a line of the child's output is one of a    *)
(* few kinds; what the child writes waits in a pipe of limited size.       *)
(***************************************************************************)
EXTENDS Integers, Sequences, FiniteSets, SequencesExt

CONSTANTS PipeSize,   \* items the pipe from the child holds
          Confs       \* [header, length, own, inherit, lines, body, input, redirect, ops]

VARIABLE s

Here == s.m = "cgi"

(* The variables of a request: the fixed ones, one for each key of the     *)
(* header but Proxy, the length and type of the body, and the handler's    *)
(* own, which may repeat a key.                                            *)
baseEnv(c) ==
    << <<"REQUEST_METHOD", "m">>, <<"HTTP_HOST", "host">>, <<"SERVER_PROTOCOL", "HTTP/1.1">>,
       <<"REQUEST_URI", "uri">>, <<"REMOTE_ADDR", "ip">>, <<"REMOTE_PORT", "port">> >>
    \o (IF "tls" \in c.ops THEN << <<"HTTPS", "on">> >> ELSE <<>>)
headerEnv(c) ==
    LET ks == SetToSeq(DOMAIN c.header \ {"PROXY"})
    IN  [i \in DOMAIN ks |-> <<"HTTP_" \o ks[i], c.header[ks[i]]>>]
lengthEnv(c) == IF c.length > 0 THEN << <<"CONTENT_LENGTH", ToString(c.length)>> >> ELSE <<>>
typeEnv(c) == IF "CONTENT_TYPE" \in DOMAIN c.header
              THEN << <<"CONTENT_TYPE", c.header["CONTENT_TYPE"]>> >> ELSE <<>>

(* The entries of env at the places where keep holds.                      *)
entriesAt(env, keep(_)) ==
    LET at == SelectSeq([i \in DOMAIN env |-> i], keep)
    IN  [n \in DOMAIN at |-> env[at[n]]]

\* fault: the first of several definitions is kept
removeTrailingDuplicates(env) ==
    entriesAt(env, LAMBDA i : \A j \in 1 .. i - 1 : env[j][1] # env[i][1])

(* removeLeadingDuplicates: of several definitions of a key the last is    *)
(* kept.                                                                   *)
removeLeadingDuplicates(env) ==
    entriesAt(env, LAMBDA i : \A j \in i + 1 .. Len(env) : env[j][1] # env[i][1])

environment(c) ==
    removeLeadingDuplicates(baseEnv(c) \o headerEnv(c) \o lengthEnv(c) \o typeEnv(c)
                            \o << <<"PATH", "path">> >> \o c.inherit \o c.own)

(* RequestFromMap of the child: the variables back to a request, a header  *)
(* key being a sequence of values; without a method or with a bad protocol *)
(* it is refused.                                                          *)
value(env, k) == LET P == {i \in DOMAIN env : env[i][1] = k}
                 IN  IF P = {} THEN "" ELSE env[CHOOSE i \in P : TRUE][2]
RequestFromMap(env, keys) ==
    [ok |-> value(env, "REQUEST_METHOD") # "" /\ value(env, "SERVER_PROTOCOL") = "HTTP/1.1",
     tls |-> value(env, "HTTPS") = "on",
     method |-> value(env, "REQUEST_METHOD"), host |-> value(env, "HTTP_HOST"),
     uri |-> value(env, "REQUEST_URI"), length |-> value(env, "CONTENT_LENGTH"),
     header |-> [k \in keys |->
                   (IF k = "CONTENT_TYPE" /\ value(env, k) # "" THEN <<value(env, k)>> ELSE <<>>)
                   \o (IF value(env, "HTTP_" \o k) # "" THEN <<value(env, "HTTP_" \o k)>> ELSE <<>>)]]

(* A child written with cgi.Serve: what the calls of its handler put on    *)
(* stdout.  The first WriteHeader counts; the header is written by the     *)
(* first Write, the one after the handler at the latest.                   *)
response(calls) ==
    LET writes == {i \in DOMAIN calls : calls[i] = "write"}
        codes  == {i \in DOMAIN calls : calls[i] # "write" /\ \A w \in writes : i < w}
    IN  [lines |-> << (IF codes = {} THEN "ok" ELSE calls[CHOOSE i \in codes : \A j \in codes : i <= j]),
                      "type", "blank" >>,
         body  |-> Cardinality(writes)]

-----------------------------------------------------------------------------
Init ==
    \E c \in Confs :
      s = [m |-> "cgi", conf |-> c, pc |-> "start", env |-> <<>>, child |-> "none", at |-> 0,
           pipe |-> <<>>, open |-> TRUE, input |-> 0, copier |-> "none", gone |-> FALSE,
           code |-> 0, headers |-> {}, lines |-> 0, reply |-> "none", body |-> 0]

Reply(x, code) == [x EXCEPT !.reply = code]

(* A chunked body is refused.                                              *)
Refuse == /\ Here /\ s.pc = "start" /\ "chunked" \in s.conf.ops
          /\ s' = [Reply(s, "400") EXCEPT !.pc = "done"]

(* The environment, and cmd.Start; the body is the child's input.          *)
Start ==
    /\ Here /\ s.pc = "start" /\ "chunked" \notin s.conf.ops
    /\ LET a == [s EXCEPT !.env = environment(s.conf)]
       IN  \/ "nostart" \in s.conf.ops /\ s' = [Reply(a, "500") EXCEPT !.pc = "done"]
           \/ "nostart" \notin s.conf.ops
              /\ s' = [a EXCEPT !.pc = "header", !.child = "run",
                                !.copier = IF s.conf.length # 0 THEN "copy" ELSE "ended"]

(* The child writes its lines and its body, for ever if "endless", and     *)
(* exits; a pipe whose reader is closed ends it.                           *)
output(i) == IF i <= Len(s.conf.lines) THEN s.conf.lines[i] ELSE "data"
total == Len(s.conf.lines) + s.conf.body
wants == s.at < total \/ "endless" \in s.conf.ops
ChildWrites ==
    /\ Here /\ s.child = "run" /\ wants
    /\ s' = IF s.open THEN [s EXCEPT !.pipe = Append(@, output(s.at + 1)),
                                     !.at = IF @ < total THEN @ + 1 ELSE @]
            ELSE [s EXCEPT !.child = "exited"]
    /\ Len(s'.pipe) <= PipeSize
ChildExits == Here /\ s.child = "run" /\ ~ wants /\ s' = [s EXCEPT !.child = "exited"]

(* The client sends its body, or goes; the copier ends at the end of the   *)
(* body, with its error, or when the child is gone.                        *)
ClientSends == Here /\ ~ s.gone /\ s.input < s.conf.input /\ s.copier = "copy" /\ s' = [s EXCEPT !.input = @ + 1]
ClientGone == Here /\ ~ s.gone /\ "gone" \in s.conf.ops /\ s.pc # "done" /\ s' = [s EXCEPT !.gone = TRUE]
CopierEnds ==
    /\ Here /\ s.copier = "copy" /\ (s.input = s.conf.input \/ s.gone)
    /\ s' = [s EXCEPT !.copier = "ended"]

(* The header loop, one ReadLine at a time.  A returning handler closes    *)
(* its end of the pipe, and then waits.                                    *)
Leave(x) == [x EXCEPT !.pc = "close"]
afterLine(x, line) ==
    LET a == [x EXCEPT !.lines = @ + 1]
    IN  CASE line = "long"   -> Leave(Reply(x, "500"))
          [] line = "blank"  -> [x EXCEPT !.pc = "decide"]
          [] line = "status" -> [a EXCEPT !.code = 404]
          [] line = "ok"     -> [a EXCEPT !.code = 200]
          [] line = "badstatus" -> Leave(a)
          [] line \in {"bogus", "badname"} -> a
          [] line \in {"type", "local", "abs"} -> [a EXCEPT !.headers = @ \cup {line}]
ReadLine ==
    /\ Here /\ s.pc = "header" /\ s.pipe # <<>> /\ Head(s.pipe) # "data"
    /\ s' = afterLine([s EXCEPT !.pipe = Tail(@)], Head(s.pipe))
ReadEOF == /\ Here /\ s.pc = "header" /\ s.pipe = <<>> /\ s.child = "exited"
           /\ s' = Leave(Reply(s, "500"))

(* Another handler answers, with the header map untouched.                 *)
handleInternalRedirect(x) == Leave(Reply(x, "redirect"))

(* The status, or the handler of an internal redirect, or an error.        *)
Decide ==
    /\ Here /\ s.pc = "decide"
    /\ LET code == IF s.code # 0 THEN s.code ELSE IF {"local", "abs"} \cap s.headers # {} THEN 302 ELSE 0
       IN  s' = IF s.lines = 0 THEN Leave(Reply(s, "500"))
                ELSE IF "local" \in s.headers /\ s.conf.redirect THEN handleInternalRedirect(s)
                ELSE IF code = 0 /\ "type" \notin s.headers THEN Leave(Reply(s, "500"))
                ELSE [Reply(s, CASE code \in {0, 200} -> "200" [] code = 302 -> "302" [] code = 404 -> "404")
                        EXCEPT !.pc = "copy"]

(* io.Copy; an error of the client's side kills the child.                 *)
CopyBody ==
    /\ Here /\ s.pc = "copy" /\ s.pipe # <<>>
    /\ s' = IF s.gone THEN Leave([s EXCEPT !.child = "exited"])
            ELSE [s EXCEPT !.pipe = Tail(@), !.body = IF @ < s.conf.body THEN @ + 1 ELSE @]
CopyEOF == /\ Here /\ s.pc = "copy" /\ s.pipe = <<>> /\ s.child = "exited"
           /\ s' = Leave(s)

\* fault: the deferred calls the other way round
closeWaits(x) == x.child = "exited" /\ x.copier = "ended"

(* The deferred calls: stdoutRead.Close first, so that a child that still  *)
(* writes ends; then cmd.Wait.                                             *)
closeAtOnce(x) == TRUE
CloseStdout == Here /\ s.pc = "close" /\ closeAtOnce(s) /\ s' = [s EXCEPT !.pc = "wait", !.open = FALSE, !.pipe = <<>>]
Wait == /\ Here /\ s.pc = "wait" /\ s.child = "exited" /\ s.copier = "ended"
        /\ s' = [s EXCEPT !.pc = "done"]

Next ==
    /\ Here
    /\ \/ Refuse \/ Start \/ ChildWrites \/ ChildExits \/ ClientSends \/ ClientGone
       \/ CopierEnds \/ ReadLine \/ ReadEOF \/ Decide \/ CopyBody \/ CopyEOF \/ CloseStdout \/ Wait

(* The processes run; the client sends its body or goes.                   *)
Process(k) ==
    /\ Here
    /\ \/ k = 1 /\ (Refuse \/ Start \/ ReadLine \/ ReadEOF \/ Decide \/ CopyBody \/ CopyEOF \/ CloseStdout \/ Wait)
       \/ k = 2 /\ (ChildWrites \/ ChildExits)
       \/ k = 3 /\ ClientSends
       \/ k = 4 /\ CopierEnds
       \/ k = 5 /\ "endless" \in s.conf.ops /\ ClientGone
Fair == \A k \in 1..5 : WF_s(Process(k))

-----------------------------------------------------------------------------
(* The child sees the request of the client: every key of its environment  *)
(* is defined once, with the handler's own value before any other, and     *)
(* RequestFromMap gives back the method, host, length and header fields -  *)
(* but Proxy, which never reaches it (issue 16405).                        *)
EnvExact ==
    (Here /\ s.env # <<>>) =>
      LET c == s.conf
          r == RequestFromMap(s.env, DOMAIN c.header)
          own(k) == \E i \in DOMAIN c.own : c.own[i][1] = k
      IN  /\ \A i, j \in DOMAIN s.env : s.env[i][1] = s.env[j][1] => i = j
          /\ \A i \in DOMAIN c.own : ~ (\E j \in DOMAIN c.own : j > i /\ c.own[j][1] = c.own[i][1]) =>
               value(s.env, c.own[i][1]) = c.own[i][2]
          /\ r.ok /\ r.method = "m" /\ r.host = "host" /\ r.uri = "uri" /\ (r.tls <=> "tls" \in c.ops)
          /\ ~ own("CONTENT_LENGTH") => r.length = (IF c.length > 0 THEN ToString(c.length) ELSE "")
          /\ \A k \in DOMAIN c.header : ~ own("HTTP_" \o k) =>
               IF k = "PROXY" THEN r.header[k] = <<>>
               ELSE r.header[k] # <<>> /\ Range(r.header[k]) = {c.header[k]}

(* The reply the lines call for, the header block being the lines before   *)
(* the first blank one.                                                    *)
upTo(kinds) == {i \in DOMAIN s.conf.lines : \A j \in 1 .. i - 1 : s.conf.lines[j] \notin kinds}
block == {s.conf.lines[i] : i \in upTo({"blank", "long", "badstatus"})}
called ==
    CASE "long" \in block -> "500"
      [] "badstatus" \in block -> "none"
      [] OTHER -> IF "blank" \notin block \/ block = {"blank"} THEN "500"
                  ELSE IF "local" \in block /\ s.conf.redirect THEN "redirect"
                  ELSE IF {"ok", "status"} \cap block # {}
                       THEN IF s.conf.lines[CHOOSE i \in upTo({"blank"}) :
                                  /\ s.conf.lines[i] \in {"ok", "status"}
                                  /\ \A j \in upTo({"blank"}) : s.conf.lines[j] \in {"ok", "status"} => j <= i]
                               = "ok" THEN "200" ELSE "404"
                  ELSE IF {"local", "abs"} \cap block # {} THEN "302"
                  ELSE IF "type" \in block THEN "200" ELSE "500"

(* The client gets the reply the child's whole header block calls for, and *)
(* all of the body of a child that ends by itself.                         *)
ReplyExact ==
    (Here /\ s.pc \in {"close", "wait", "done"} /\ s.reply \notin {"400"} /\ "nostart" \notin s.conf.ops) =>
      /\ s.reply = called
      /\ (s.reply \in {"200", "302", "404"} /\ ~ s.gone) => s.body = s.conf.body

CgiExact == EnvExact /\ ReplyExact

(* The handler returns: once the child has written what it has, and even   *)
(* when it writes for ever and the client is gone.                         *)
Due(k) == k = 1 /\ Here /\ s.pc # "done"
Met(k) == k = 1 /\ Here /\ s.pc = "done"
CgiReturns == Due(1) ~> Met(1)
=============================================================================
