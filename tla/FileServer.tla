------------------------------ MODULE FileServer ------------------------------
(***************************************************************************)
(* fs.go behind filetransport.go: a client asks for a path, follows the    *)
(* redirects, and reads a file in pieces - conditional requests, one or    *)
(* several ranges, a download that breaks off and is resumed after the     *)
(* file was replaced.  The handler runs in the goroutine of                *)
(* fileTransport.RoundTrip and writes to the pipe of the response's body;  *)
(* several ranges are written by a goroutine of their own, through a       *)
(* second pipe.  A path is [segs, slash]; a byte of the file is            *)
(* <<version, position>>; times are half seconds.                          *)
(***************************************************************************)
EXTENDS Integers, Sequences, FiniteSets, SequencesExt

CONSTANTS MaxHops,   \* redirects a client follows
          MaxReqs,   \* requests for the content
          Confs      \* [tree, url, size, etag, reqs, mods, ops]

VARIABLE s

Here == s.m = "fs"

-----------------------------------------------------------------------------
(* Paths: Dir.Open with mapDirOpenError, and serveFile's redirects.        *)
Open(tree, segs) ==
    IF segs \in DOMAIN tree THEN tree[segs]
    ELSE IF \E k \in 0 .. Len(segs) - 1 : SubSeq(segs, 1, k) \in DOMAIN tree /\ tree[SubSeq(segs, 1, k)] = "denied"
    THEN "denied" ELSE "missing"   \* a file among the parents: not a directory, mapped to not exist

isIndex(url) == ~ url.slash /\ url.segs # <<>> /\ Last(url.segs) = "index.html"

\* fault: a file is served under its path with a slash as well
fileSlashIgnored(url) == FALSE

fileSlash(url) == url.slash
redirectTo(tree, url) ==
    LET d == Open(tree, url.segs)
    IN  IF isIndex(url) THEN {[segs |-> Front(url.segs), slash |-> TRUE]}
        ELSE IF d = "dir" /\ ~ url.slash THEN {[url EXCEPT !.slash = TRUE]}
        ELSE IF d = "file" /\ fileSlash(url) THEN {[url EXCEPT !.slash = url.segs = <<>>]}
        ELSE {}

(* The file whose content answers: the path, or the index of a directory.  *)
target(tree, url) ==
    LET index == Append(url.segs, "index.html")
    IN  IF Open(tree, url.segs) = "dir" /\ Open(tree, index) \in {"file", "dir"} THEN index ELSE url.segs

-----------------------------------------------------------------------------
(* Validators.  A list is a sequence of tags, "*" and "bad"; what follows  *)
(* a bad element is not read.                                              *)
scan(list, match(_)) ==
    \E i \in DOMAIN list : /\ \A j \in 1 .. i : list[j] # "bad"
                           /\ list[i] = "*" \/ match(list[i])
etagStrongMatch(a, f) == a = f.etag /\ f.etag # "" /\ ~ f.weak
etagWeakMatch(a, f) == a = f.etag
truncate(t) == t - (t % 2)

checkIfMatch(r, f) == IF r.match = <<>> THEN "none"
                      ELSE IF scan(r.match, LAMBDA a : etagStrongMatch(a, f)) THEN "true" ELSE "false"
checkIfUnmodifiedSince(r, f) == IF r.unmodified < 0 \/ f.mtime = 0 THEN "none"
                                ELSE IF truncate(f.mtime) <= r.unmodified THEN "true" ELSE "false"
checkIfNoneMatch(r, f) == IF r.noneMatch = <<>> THEN "none"
                          ELSE IF scan(r.noneMatch, LAMBDA a : etagWeakMatch(a, f)) THEN "false" ELSE "true"

\* fault: the modification time is compared with its fraction
modifiedFraction(r, f) == IF f.mtime <= r.since THEN "false" ELSE "true"

modifiedSince(r, f) == IF truncate(f.mtime) <= r.since THEN "false" ELSE "true"
checkIfModifiedSince(r, f) == IF r.method \notin {"GET", "HEAD"} \/ r.since < 0 \/ f.mtime = 0 THEN "none"
                              ELSE modifiedSince(r, f)

\* fault: If-Range is not looked at
ifRangeIgnored(r, f) == "none"

checkIfRange(r, f) ==
    IF r.method \notin {"GET", "HEAD"} \/ (r.ifTag = "" /\ r.ifDate < 0) THEN "none"
    ELSE IF r.ifTag # "" THEN (IF etagStrongMatch(r.ifTag, f) THEN "true" ELSE "false")
    ELSE IF f.mtime # 0 /\ truncate(f.mtime) = truncate(r.ifDate) THEN "true" ELSE "false"

(* checkPreconditions: the status that ends it, or 0, and the ranges left. *)
checkPreconditions(r, f) ==
    LET ch == IF checkIfMatch(r, f) # "none" THEN checkIfMatch(r, f) ELSE checkIfUnmodifiedSince(r, f)
        nm == checkIfNoneMatch(r, f)
        ranges == IF r.ranges # <<>> /\ checkIfRange(r, f) = "false" THEN <<>> ELSE r.ranges
    IN  IF ch = "false" THEN <<412, <<>> >>
        ELSE IF nm = "false" THEN << IF r.method \in {"GET", "HEAD"} THEN 304 ELSE 412, <<>> >>
        ELSE IF nm = "none" /\ checkIfModifiedSince(r, f) = "false" THEN <<304, <<>> >>
        ELSE <<0, ranges>>

(* parseRange: a spec is [a, b], -1 for a number that is not there; the    *)
(* result is "invalid", "noOverlap" or the ranges [start, length].         *)
rangeOf(ra, size) ==
    IF ra.a < 0 THEN LET i == IF ra.b > size THEN size ELSE ra.b IN [start |-> size - i, length |-> i]
    ELSE LET last == IF ra.b < 0 \/ ra.b >= size THEN size - 1 ELSE ra.b
         IN  [start |-> ra.a, length |-> last - ra.a + 1]
invalid(ra, size) == \/ ra.a < 0 /\ ra.b < 0
                     \/ ra.a >= 0 /\ ra.a < size /\ ra.b >= 0 /\ ra.a > ra.b
parseRange(specs, size) ==
    LET in == SelectSeq(specs, LAMBDA ra : ra.a < size)
    IN  [err    |-> IF \E i \in DOMAIN specs : invalid(specs[i], size) THEN "invalid"
                    ELSE IF specs # <<>> /\ in = <<>> THEN "noOverlap" ELSE "",
         ranges |-> [i \in DOMAIN in |-> rangeOf(in[i], size)]]
sumRangesSize(rs) == FoldLeft(LAMBDA n, ra : n + ra.length, 0, rs)

(* The multipart form of the ranges: a part's header, its bytes, and the   *)
(* closing boundary.                                                       *)
Boundary == <<0, 0>>
partUnits(f, ra) == <<Boundary>> \o [i \in 1 .. ra.length |-> <<f.ver, ra.start + i>>]
units(f, rs) == FlattenSeq([i \in DOMAIN rs |-> partUnits(f, rs[i])]) \o <<Boundary>>

\* fault: the closing boundary is not counted
rangesMIMESizeOpen(rs) == sumRangesSize(rs) + Len(rs)

rangesMIMESize(rs) == sumRangesSize(rs) + Len(rs) + 1

-----------------------------------------------------------------------------
File0(c) == [ver |-> 1, size |-> c.size, mtime |-> 2, etag |-> IF c.etag # "none" THEN "v1" ELSE "",
             weak |-> c.etag = "weak"]
NoReq == [method |-> "GET", match |-> <<>>, noneMatch |-> <<>>, unmodified |-> -1, since |-> -1,
          ifTag |-> "", ifDate |-> -1, ranges |-> <<>>]
Init ==
    \E c \in Confs :
      s = [m |-> "fs", conf |-> c, url |-> c.url, hops |-> 0, file |-> File0(c), reqs |-> 0,
           pc |-> "idle", req |-> NoReq, of |-> File0(c), code |-> 0, ranges |-> <<>>, size |-> 0, at |-> 0,
           sent |-> FALSE, taken |-> FALSE, gone |-> FALSE, out |-> <<>>,
           g |-> "none", gAt |-> 0, offer |-> FALSE, pr |-> "none",
           have |-> <<>>, join |-> FALSE, haveOf |-> [etag |-> "", mtime |-> 0, ver |-> 0]]

(* A request for a redirecting path; the client follows it.                *)
Redirect ==
    /\ Here /\ s.pc = "idle" /\ redirectTo(s.conf.tree, s.url) # {} /\ s.hops < MaxHops
    /\ s' = [s EXCEPT !.hops = @ + 1, !.url = CHOOSE u \in redirectTo(s.conf.tree, s.url) : TRUE]

served == target(s.conf.tree, s.url)

(* serveFile's error replies and directory lists.                          *)
toHTTPError(d) == CASE d = "missing" -> 404 [] d = "denied" -> 403
ServeOther ==
    /\ Here /\ s.pc = "idle" /\ redirectTo(s.conf.tree, s.url) = {} /\ Open(s.conf.tree, served) # "file"
    /\ LET d == Open(s.conf.tree, served)
       IN  s' = [s EXCEPT !.pc = "ended", !.code = IF d = "dir" THEN 200 ELSE toHTTPError(d)]

(* RoundTrip: the handler starts on the request.  A client that has a part *)
(* resumes, and one that has all revalidates, with the validators it got.  *)
resumed(r) == [r EXCEPT !.ranges = <<[a |-> Len(s.have), b |-> -1]>>,
                        !.ifTag = s.haveOf.etag,
                        !.ifDate = IF s.haveOf.etag = "" THEN truncate(s.haveOf.mtime) ELSE -1]
revalidated(r) == [r EXCEPT !.noneMatch = IF s.haveOf.etag # "" THEN <<s.haveOf.etag>> ELSE <<>>,
                            !.since = truncate(s.haveOf.mtime)]
Send(r) ==
    /\ Here /\ s.pc = "idle" /\ s.g \in {"none", "ended"} /\ s.reqs < MaxReqs
    /\ redirectTo(s.conf.tree, s.url) = {} /\ Open(s.conf.tree, served) = "file"
    /\ s' = [s EXCEPT !.pc = "serve", !.req = r, !.of = s.file, !.reqs = @ + 1, !.code = 0, !.ranges = <<>>,
                      !.at = 0, !.sent = FALSE, !.taken = FALSE, !.gone = FALSE, !.out = <<>>,
                      !.g = "none", !.pr = "none", !.offer = FALSE]
Request ==
    \/ \E r \in s.conf.reqs : Send(r)
    \/ "resume" \in s.conf.ops /\ s.have # <<>> /\ Len(s.have) < s.file.size /\ Send(resumed(NoReq))
    \/ "revalidate" \in s.conf.ops /\ s.have # <<>> /\ Send(revalidated(NoReq))

(* serveContent up to WriteHeader; an error reply is written at once.      *)
Header ==
    /\ Here /\ s.pc = "serve"
    /\ LET f   == s.of
           pre == checkPreconditions(s.req, f)
           p   == parseRange(pre[2], f.size)
           rs  == IF sumRangesSize(p.ranges) > f.size THEN <<>> ELSE p.ranges
           a   == [s EXCEPT !.pc = "copy", !.ranges = rs]
       IN  s' = IF pre[1] # 0 THEN [s EXCEPT !.pc = "finish", !.code = pre[1]]
                ELSE IF p.err # "" THEN [s EXCEPT !.pc = "finish", !.code = 416]
                ELSE IF Len(rs) = 0 THEN [a EXCEPT !.code = 200, !.size = f.size]
                ELSE IF Len(rs) = 1 THEN [a EXCEPT !.code = 206, !.size = rs[1].length]
                ELSE [a EXCEPT !.code = 206, !.size = rangesMIMESize(rs), !.g = "run", !.gAt = 0, !.pr = "open"]

(* populateResponse: the first write, or finish, gives the response to     *)
(* RoundTrip; a write waits for the reader of the body, or fails once it   *)
(* is closed.                                                              *)
Take == /\ Here /\ s.sent /\ ~ s.taken
        /\ s' = IF s.code = 200 /\ s.req.method = "GET"
                THEN [s EXCEPT !.taken = TRUE, !.join = TRUE, !.have = <<>>,
                               !.haveOf = [etag |-> s.of.etag, mtime |-> s.of.mtime, ver |-> s.of.ver]]
                ELSE [s EXCEPT !.taken = TRUE,
                               !.join = s.code = 206 /\ s.have # <<>> /\ Len(s.ranges) = 1
                                        /\ s.ranges[1].start = Len(s.have)]

Received(x, u) == [x EXCEPT !.out = Append(@, u), !.at = @ + 1,
                            !.have = IF x.join THEN Append(@, u) ELSE @]
next == IF Len(s.ranges) = 1 THEN <<s.of.ver, s.ranges[1].start + s.at + 1>> ELSE <<s.of.ver, s.at + 1>>
Copying == Here /\ s.pc = "copy" /\ s.req.method # "HEAD" /\ s.at < s.size

(* io.CopyN: the first write sends the response; each one waits for the    *)
(* client to read.                                                         *)
CopyStart == /\ Copying /\ ~ s.sent
             /\ Len(s.ranges) > 1 => s.offer
             /\ s' = [s EXCEPT !.sent = TRUE]
Copy ==
    /\ Copying /\ s.taken /\ ~ s.gone
    /\ IF Len(s.ranges) > 1
       THEN s.offer /\ s' = [Received(s, units(s.of, s.ranges)[s.at + 1]) EXCEPT !.offer = FALSE]
       ELSE s' = Received(s, next)
CopyEnds == /\ Here /\ s.pc = "copy" /\ (s.at = s.size \/ s.req.method = "HEAD" \/ (s.gone /\ s.sent))
            /\ s' = [s EXCEPT !.pc = "return"]

\* fault: the read end of the second pipe is left open
prLeft(x) == x

(* The deferred pr.Close, which makes the goroutine of the ranges fail.    *)
prClosed(x) == [x EXCEPT !.pr = IF @ = "open" THEN "closed" ELSE @, !.offer = FALSE]
Return == Here /\ s.pc = "return" /\ s' = [prClosed(s) EXCEPT !.pc = "finish"]

(* finish: a response not yet sent is sent now; the body ends.             *)
Finish == /\ Here /\ s.pc = "finish"
          /\ s' = IF s.sent THEN [s EXCEPT !.pc = "idle"] ELSE [s EXCEPT !.sent = TRUE]
          /\ s.sent => s.taken

(* The goroutine of several ranges.                                        *)
RangesWrite ==
    /\ Here /\ s.g = "run" /\ ~ s.offer
    /\ s' = IF s.pr = "closed" \/ s.gAt = Len(units(s.of, s.ranges)) THEN [s EXCEPT !.g = "ended"]
            ELSE [s EXCEPT !.offer = TRUE, !.gAt = @ + 1]

(* The client closes the body; the file is replaced, at once or later.     *)
CloseBody == Here /\ s.pc # "idle" /\ s.taken /\ ~ s.gone /\ "gone" \in s.conf.ops /\ s' = [s EXCEPT !.gone = TRUE]
Replace(dt) ==
    /\ Here /\ s.pc = "idle" /\ s.file.ver < 2
    /\ s' = [s EXCEPT !.file.ver = @ + 1, !.file.mtime = @ + dt,
                      !.file.etag = IF @ # "" THEN "v2" ELSE @]

Next ==
    /\ Here
    /\ \/ Redirect \/ ServeOther \/ Request \/ Header \/ Take \/ CopyStart \/ Copy \/ CopyEnds \/ Return
       \/ Finish \/ RangesWrite \/ CloseBody \/ \E dt \in s.conf.mods : Replace(dt)

(* The handler, the goroutine of the ranges and RoundTrip run; the client  *)
(* reads the body or closes it.                                            *)
Process(k) ==
    /\ Here
    /\ \/ k = 1 /\ (Header \/ Take \/ CopyStart \/ Copy \/ CopyEnds \/ Return \/ Finish)
       \/ k = 2 /\ RangesWrite
Fair == \A k \in 1..2 : WF_s(Process(k))

-----------------------------------------------------------------------------
(* Redirects settle: whatever the tree, a client that follows them gets to *)
(* an answer, except below a root that is a file itself.                   *)
RedirectsSettle == (Here /\ s.hops = MaxHops) => (redirectTo(s.conf.tree, s.url) = {} \/ Open(s.conf.tree, <<>>) = "file")
RootSettles == (Here /\ s.hops = MaxHops) => redirectTo(s.conf.tree, s.url) = {}
(* An answer is that of the named file: never its content under a path     *)
(* with a slash.                                                           *)
NamesExact == (Here /\ s.pc = "serve") => (s.url.slash => Open(s.conf.tree, s.url.segs) = "dir")

(* The bytes of a response are those it announces: its length, and for     *)
(* each satisfiable range asked for, every byte of the file between its    *)
(* ends - neither the file nor the multipart form cut short.               *)
bytesOf(ra) == {p \in 1 .. s.of.size :
                  IF ra.a < 0 THEN p > s.of.size - ra.b
                  ELSE p > ra.a /\ (ra.b < 0 \/ p <= ra.b + 1)}
wanted == IF s.code = 200 THEN 1 .. s.of.size
          ELSE UNION {bytesOf(s.req.ranges[i]) : i \in DOMAIN s.req.ranges}
RangesExact ==
    (Here /\ s.pc \in {"return", "finish"} /\ s.code \in {200, 206} /\ ~ s.gone /\ s.req.method # "HEAD") =>
      /\ Len(s.out) = s.size
      /\ {s.out[i] : i \in DOMAIN s.out} \ {Boundary} = {<<s.of.ver, p>> : p \in wanted}
      /\ Len(s.ranges) > 1 => s.out = units(s.of, s.ranges)

(* A download put together from several responses is one version of the    *)
(* file: If-Range resumes only what is unchanged - with a strong tag, or   *)
(* when a replacement is a second away.                                    *)
distinguished == (s.conf.etag = "strong" /\ s.haveOf.etag # "") \/ \A dt \in s.conf.mods : dt >= 2
OneVersion ==
    (Here /\ distinguished) =>
      \A i \in DOMAIN s.have : s.have[i] = <<s.haveOf.ver, i>>

(* A copy that is revalidated gets 304 when it is current, and only then.  *)
Current304 == (Here /\ s.code = 304 /\ s.pc = "finish" /\ s.req = revalidated(NoReq)
                 /\ (s.conf.etag # "none" \/ \A dt \in s.conf.mods : dt >= 2)) => s.haveOf.ver = s.of.ver
Unchanged304 == (Here /\ s.pc = "copy" /\ s.req = revalidated(NoReq)) => s.haveOf.ver # s.of.ver

FilesExact == RedirectsSettle /\ NamesExact /\ RangesExact /\ OneVersion /\ Current304 /\ Unchanged304

(* RoundTrip returns, the handler finishes and no goroutine of a           *)
(* multi-range response stays behind, when the client reads or closes the  *)
(* body.                                                                   *)
Due(k) == Here /\ ((k = 1 /\ s.pc = "serve") \/ (k = 2 /\ s.g = "run"))
Met(k) == Here /\ ((k = 1 /\ s.pc = "idle") \/ (k = 2 /\ s.g = "ended"))
FilesDone == \A k \in 1..2 : Due(k) ~> Met(k)

(* A satisfiable range is not empty: Content-Range has a last position     *)
(* that is not before the first.                                           *)
RangeNotEmpty == (Here /\ s.code = 206) => \A i \in DOMAIN s.ranges : s.ranges[i].length > 0
=============================================================================
