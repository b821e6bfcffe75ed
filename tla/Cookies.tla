------------------------------- MODULE Cookies ------------------------------
(***************************************************************************)
(* Cookies on the wire (src/cookie.go) and in a jar (src/cookiejar).       *)
(***************************************************************************)
EXTENDS Integers, Sequences, FiniteSets, SequencesExt

CONSTANTS MaxLabel,   \* 63, the longest label of a domain name
          LineConfs       \* [cookies, filter]

CONSTANTS MaxOps,    \* cookies set
          JarConfs      \* [psl, urls, batches, until]: psl is a set of suffixes, {} for none

VARIABLE s

-----------------------------------------------------------------------------
(* The two texts of a cookie, cookie.go: Cookie.String and readSetCookies  *)
(* for Set-Cookie, Request.AddCookie and ReadCookies for Cookie.  A text   *)
(* is a sequence of tokens: the name of an attribute is one token, a value *)
(* is spelled with one token per character class - "a" a letter, "1" a     *)
(* digit, "q" the double quote, "b" the backslash, "^" a new line, and the *)
(* separators themselves.  A behaviour writes the       *)
(* cookies of a configuration and reads them back.                         *)
LineHere == s.m = "cookie"

-----------------------------------------------------------------------------
(* Characters and sanitizing.                                              *)
validCookieValueByte(t) == t \notin {"^", ";", "b"}
validCookiePathByte(t) == t \notin {"^", ";"}
sanitizeOrWarn(v, valid(_)) == SelectSeq(v, valid)

\* fault: nothing is dropped
sanitizeNot(v) == v

sanitizeCookiePath(v) == sanitizeOrWarn(v, validCookiePathByte)
sanitizeValueBytes(v) == sanitizeOrWarn(v, validCookieValueByte)
sanitizeCookieValue(v, quoted) ==
    LET w == sanitizeValueBytes(v)
    IN  IF w # <<>> /\ (quoted \/ Contains(w, " ")) THEN <<"q">> \o w \o <<"q">> ELSE w
sanitizeCookieName(n) == [i \in DOMAIN n |-> IF n[i] = "^" THEN "-" ELSE n[i]]
isCookieNameValid(n) == n # <<>> /\ \A i \in DOMAIN n : n[i] \in {"a", "1", "-", "."}

(* isCookieDomainName: one pass over the characters, with the last one and *)
(* the length of the label.                                                *)
domainStep(x, c) ==
    CASE c = "a" -> [x EXCEPT !.ok = TRUE, !.part = @ + 1, !.last = c]
      [] c = "1" -> [x EXCEPT !.part = @ + 1, !.last = c]
      [] c = "-" -> IF x.last = "." THEN [x EXCEPT !.bad = TRUE] ELSE [x EXCEPT !.part = @ + 1, !.last = c]
      [] c = "." -> IF x.last \in {".", "-"} \/ x.part > MaxLabel \/ x.part = 0
                    THEN [x EXCEPT !.bad = TRUE] ELSE [x EXCEPT !.part = 0, !.last = c]
      [] OTHER   -> [x EXCEPT !.bad = TRUE]
undotted(d) == IF Head(d) = "." THEN Tail(d) ELSE d
isCookieDomainName(d) ==
    /\ d # <<>>
    /\ LET x == FoldLeft(domainStep, [bad |-> FALSE, ok |-> FALSE, last |-> ".", part |-> 0], undotted(d))
       IN  ~ x.bad /\ x.last # "-" /\ x.part <= MaxLabel /\ x.ok

-----------------------------------------------------------------------------
(* Cookie.String: the text of a cookie, <<>> for a bad name.               *)
attribute(name, v) == <<";", " ", name, "=">> \o v
flag(on, name) == IF on THEN <<";", " ", name>> ELSE <<>>
CookieString(c) ==
    IF ~ isCookieNameValid(c.name) THEN <<>>
    ELSE c.name \o <<"=">> \o sanitizeCookieValue(c.value, c.quoted)
         \o (IF c.path # <<>> THEN attribute("path", sanitizeCookiePath(c.path)) ELSE <<>>)
         \o (IF c.domain # <<>> /\ isCookieDomainName(c.domain)
             THEN attribute("domain", undotted(c.domain)) ELSE <<>>)
         \o (IF c.expires = "date" THEN attribute("expires", <<"date">>) ELSE <<>>)  \* not before 1601
         \o (IF c.age > 0 THEN attribute("max-age", <<"1">>)
             ELSE IF c.age < 0 THEN attribute("max-age", <<"0">>) ELSE <<>>)
         \o flag(c.httponly, "httponly") \o flag(c.secure, "secure")
         \o (IF c.samesite \in {"lax", "strict", "none"} THEN attribute("samesite", <<c.samesite>>) ELSE <<>>)

(* strings.Split at the semicolons, TrimString, and the cut at the first   *)
(* equals sign.                                                            *)
split(t) ==
    LET at == SelectSeq([i \in DOMAIN t |-> i], LAMBDA i : t[i] = ";")
        from(k) == IF k = 1 THEN 1 ELSE at[k - 1] + 1
        to(k)   == IF k > Len(at) THEN Len(t) ELSE at[k] - 1
    IN  [k \in 1 .. Len(at) + 1 |-> SubSeq(t, from(k), to(k))]
trim(t) ==
    LET P == {i \in DOMAIN t : t[i] # " "}
    IN  IF P = {} THEN <<>>
        ELSE SubSeq(t, CHOOSE i \in P : \A j \in P : i <= j, CHOOSE i \in P : \A j \in P : i >= j)
equals(t) == {i \in DOMAIN t : t[i] = "=" /\ \A j \in 1 .. i - 1 : t[j] # "="}
before(t) == IF equals(t) = {} THEN t ELSE SubSeq(t, 1, (CHOOSE i \in equals(t) : TRUE) - 1)
after(t) == IF equals(t) = {} THEN <<>> ELSE SubSeq(t, (CHOOSE i \in equals(t) : TRUE) + 1, Len(t))

(* parseCookieValue: <<value, quoted, ok>>.                                *)
parseCookieValue(raw, allowDoubleQuote) ==
    LET quoted == allowDoubleQuote /\ Len(raw) > 1 /\ raw[1] = "q" /\ raw[Len(raw)] = "q"
        v      == IF quoted THEN SubSeq(raw, 2, Len(raw) - 1) ELSE raw
    IN  <<v, quoted, \A i \in DOMAIN v : validCookieValueByte(v[i])>>

(* readSetCookies, one line: the cookie, or none.  What an attribute adds. *)
readAttribute(c, part) ==
    LET attr == before(part)
        pv   == parseCookieValue(after(part), FALSE)
        v    == pv[1]
        unparsed == [c EXCEPT !.unparsed = @ + 1]
    IN  IF part = <<>> THEN c
        ELSE IF ~ pv[3] THEN unparsed
        ELSE CASE attr = <<"samesite">> -> [c EXCEPT !.samesite = IF v = <<>> THEN "default" ELSE v[1]]
               [] attr = <<"secure">>   -> [c EXCEPT !.secure = TRUE]
               [] attr = <<"httponly">> -> [c EXCEPT !.httponly = TRUE]
               [] attr = <<"domain">>   -> [c EXCEPT !.domain = v]
               [] attr = <<"max-age">>  -> IF v = <<"1">> THEN [c EXCEPT !.age = 1]
                                           ELSE IF v = <<"0">> THEN [c EXCEPT !.age = -1] ELSE unparsed
               [] attr = <<"expires">>  -> IF v = <<"date">> THEN [c EXCEPT !.expires = "date"] ELSE unparsed
               [] attr = <<"path">>     -> [c EXCEPT !.path = v]
               [] OTHER                 -> unparsed
readSetCookie(line) ==
    LET parts == split(trim(line))
        first == trim(parts[1])
        pv    == parseCookieValue(after(first), TRUE)
        c     == [name |-> before(first), value |-> pv[1], quoted |-> pv[2], path |-> <<>>, domain |-> <<>>,
                  expires |-> "", age |-> 0, httponly |-> FALSE, secure |-> FALSE, samesite |-> "", unparsed |-> 0]
    IN  IF equals(first) = {} \/ ~ isCookieNameValid(before(first)) \/ ~ pv[3] THEN {}
        ELSE {FoldLeft(readAttribute, c, [i \in 1 .. Len(parts) - 1 |-> trim(parts[i + 1])])}

-----------------------------------------------------------------------------
(* AddCookie: one line, separated by semicolons; ReadCookies reads it.     *)
\* fault: the cookies follow each other without a separator
joinedBare(line, t) == line \o t

joined(line, t) == IF line = <<>> THEN t ELSE line \o <<";", " ">> \o t
AddCookie(line, c) == joined(line, sanitizeCookieName(c.name) \o <<"=">> \o sanitizeCookieValue(c.value, c.quoted))

readCookie(part, filter) ==
    LET t  == trim(part)
        pv == parseCookieValue(after(t), TRUE)
    IN  IF t = <<>> \/ ~ isCookieNameValid(before(t)) \/ (filter # <<>> /\ filter # before(t)) \/ ~ pv[3]
        THEN <<>> ELSE << [name |-> before(t), value |-> pv[1], quoted |-> pv[2]] >>
(* A rest that begins with a semicolon is taken as one part, whose name is *)
(* not valid: what follows two semicolons is lost.                         *)
ReadCookies(line, filter) ==
    LET parts == split(trim(line))
    IN  FlattenSeq([i \in DOMAIN parts |->
          IF \E j \in 1 .. i : parts[j] = <<>> THEN <<>> ELSE readCookie(parts[i], filter)])

-----------------------------------------------------------------------------
LineInit == \E c \in LineConfs : s = [m |-> "cookie", conf |-> c, line |-> <<>>, sent |-> 0, set |-> <<>>]

(* SetCookie of every cookie, and a Cookie line that grows with each.      *)
Write == /\ LineHere /\ s.sent < Len(s.conf.cookies)
         /\ LET c == s.conf.cookies[s.sent + 1]
            IN  s' = [s EXCEPT !.sent = @ + 1, !.line = AddCookie(@, c), !.set = Append(@, CookieString(c))]

LineNext == LineHere /\ Write

-----------------------------------------------------------------------------
(* A domain name as isCookieDomainName should know it: labels of letters,  *)
(* digits and inner hyphens, none empty but after a last dot, with a       *)
(* letter somewhere.                                                       *)
labelsOf(d) == LET u == undotted(d)
                   at == SelectSeq([i \in DOMAIN u |-> i], LAMBDA i : u[i] = ".")
               IN  [k \in 1 .. Len(at) + 1 |->
                      SubSeq(u, IF k = 1 THEN 1 ELSE at[k - 1] + 1, IF k > Len(at) THEN Len(u) ELSE at[k] - 1)]
DomainName(d) ==
    /\ d # <<>> /\ Contains(d, "a")
    /\ LET ls == labelsOf(d)
       IN  \A k \in DOMAIN ls :
             LET l == ls[k]
             IN  \/ l = <<>> /\ k = Len(ls) /\ k > 1
                 \/ /\ l # <<>> /\ Len(l) <= MaxLabel /\ l[1] # "-" /\ l[Len(l)] # "-"
                    /\ \A i \in DOMAIN l : l[i] \in {"a", "1", "-"}

kept(v) == SelectSeq(v, validCookieValueByte)
wasQuoted(c) == kept(c.value) # <<>> /\ (c.quoted \/ Contains(kept(c.value), " "))

(* Set-Cookie: a cookie with a valid name reaches the client whole - its   *)
(* value without the bytes that may not be sent, a domain only if it is a  *)
(* domain name, a negative age as one that deletes - and no value breaks   *)
(* out of its attribute; a cookie with a bad name is not sent.             *)
SetCookieExact ==
    LineHere => \A i \in DOMAIN s.set :
      LET c == s.conf.cookies[i]
      IN  IF ~ isCookieNameValid(c.name) THEN s.set[i] = <<>>
          ELSE readSetCookie(s.set[i]) =
                 { [name |-> c.name, value |-> kept(c.value), quoted |-> wasQuoted(c),
                    path |-> SelectSeq(c.path, validCookiePathByte),
                    domain |-> IF DomainName(c.domain) THEN undotted(c.domain) ELSE <<>>,
                    expires |-> IF c.expires = "date" THEN "date" ELSE "",
                    age |-> c.age, httponly |-> c.httponly, secure |-> c.secure,
                    samesite |-> IF c.samesite = "default" THEN "" ELSE c.samesite, unparsed |-> 0] }

(* Cookie: the server reads the cookies that were added, in their order,   *)
(* each with its value and whether it was quoted; with a filter, those of  *)
(* that name.                                                              *)
CookieLineExact ==
    LineHere =>
      LET name(c) == sanitizeCookieName(c.name)
          valid   == SelectSeq(SubSeq(s.conf.cookies, 1, s.sent), LAMBDA c :
                       isCookieNameValid(name(c)) /\ s.conf.filter \in {<<>>, name(c)})
      IN  ReadCookies(s.line, s.conf.filter) =
            [i \in DOMAIN valid |-> [name |-> name(valid[i]), value |-> kept(valid[i].value),
                                     quoted |-> wasQuoted(valid[i])]]

CookieExact == SetCookieExact /\ CookieLineExact

-----------------------------------------------------------------------------
(* cookiejar/jar.go: the entries, in one submap per registrable domain     *)
(* (jarKey); SetCookies, Cookies and the time that passes between them.    *)
(* Both methods hold j.mu throughout, so a call is one step.  A host is    *)
(* the sequence of its labels ("a.com." ends with an empty one), a path a  *)
(* sequence of characters.  log is history: the calls of SetCookies, with  *)
(* their time.                                                             *)
JarHere == s.m = "jar"

-----------------------------------------------------------------------------
hasDotSuffix(h, suffix) == Len(h) > Len(suffix) /\ SubSeq(h, Len(h) - Len(suffix) + 1, Len(h)) = suffix
isIP(host) == host = <<"ip">>
canonicalHost(host) == IF host[Len(host)] = "" THEN Front(host) ELSE host

(* The public suffix of a host: the longest one listed, or its last label. *)
PublicSuffix(psl, host) ==
    LET P == {x \in psl : x = host \/ hasDotSuffix(host, x)} \cup {<<Last(host)>>}
    IN  CHOOSE x \in P : \A y \in P : Len(x) >= Len(y)

lastLabels(host, n) == SubSeq(host, Len(host) - n + 1, Len(host))


(* jarKey: the public suffix and one label more; without a list, the last  *)
(* two labels.                                                             *)
jarKey(psl, host) ==
    IF isIP(host) \/ Len(host) = 1 THEN host
    ELSE IF psl = {} THEN lastLabels(host, 2)
    ELSE LET suffix == PublicSuffix(psl, host)
         IN  IF suffix = host THEN host ELSE lastLabels(host, Len(suffix) + 1)

defaultPath(path) ==
    LET at == {i \in DOMAIN path : path[i] = "/"}
    IN  IF path = <<>> \/ path[1] # "/" \/ at = {1} THEN <<"/">>
        ELSE SubSeq(path, 1, (CHOOSE i \in at : \A j \in at : i >= j) - 1)

(* domainAndType: <<domain, hostOnly, ok>>.                                *)
domainAndType(psl, host, domain) ==
    LET d   == IF domain[1] = "" THEN Tail(domain) ELSE domain
        bad == <<host, TRUE, FALSE>>
        isSuffix == psl # {} /\ ~ hasDotSuffix(d, PublicSuffix(psl, d))
    IN  IF domain = <<>> THEN <<host, TRUE, TRUE>>
        ELSE IF isIP(host) \/ d = <<>> \/ d[1] = "" \/ d[Len(d)] = "" THEN bad
        ELSE IF isSuffix THEN <<host, TRUE, host = d>>
        ELSE <<d, FALSE, host = d \/ hasDotSuffix(host, d)>>

(* newEntry: a removal when the cookie has expired already.                *)
newEntry(psl, c, now, host, defPath) ==
    LET dt   == domainAndType(psl, host, c.domain)
        path == IF c.path = <<>> \/ c.path[1] # "/" THEN defPath ELSE c.path
    IN  [name |-> c.name, path |-> path, domain |-> dt[1], hostOnly |-> dt[2], ok |-> dt[3],
         remove |-> c.age < 0 \/ (c.age = 0 /\ c.expires # 0 /\ c.expires <= now),
         persistent |-> c.age > 0 \/ c.expires # 0,
         expires |-> IF c.age > 0 THEN now + c.age ELSE c.expires,
         secure |-> c.secure, value |-> c.value, quoted |-> FALSE, creation |-> now, seqNum |-> 0]
id(e) == <<e.domain, e.path, e.name>>

domainMatch(e, host) == e.domain = host \/ (~ e.hostOnly /\ hasDotSuffix(host, e.domain))
pathMatch(e, path) ==
    \/ path = e.path
    \/ IsPrefix(e.path, path) /\ (e.path[Len(e.path)] = "/" \/ path[Len(e.path) + 1] = "/")
shouldSend(e, url) == domainMatch(e, canonicalHost(url.host)) /\ pathMatch(e, url.path) /\ (url.https \/ ~ e.secure)

expired(e, now) == e.persistent /\ e.expires <= now

-----------------------------------------------------------------------------
JarInit == \E c \in JarConfs : s = [m |-> "jar", conf |-> c, entries |-> <<>>, nextSeqNum |-> 0, now |-> 1, log |-> <<>>]

submap(x, key) == IF key \in DOMAIN x.entries THEN x.entries[key] ELSE {}
withSubmap(x, key, sub) ==
    LET others == [k \in DOMAIN x.entries \ {key} |-> x.entries[k]]
    IN  [x EXCEPT !.entries = IF sub = {} THEN others
                              ELSE [k \in DOMAIN others \cup {key} |-> IF k = key THEN sub ELSE others[k]]]

(* setCookies, one cookie: a removal, a replacement that keeps the         *)
(* creation time and the number, or a new entry.                           *)
setCookie(x, url, c) ==
    LET host == canonicalHost(url.host)
        key  == jarKey(x.conf.psl, host)
        e    == newEntry(x.conf.psl, c, x.now, host, defaultPath(url.path))
        old  == {o \in submap(x, key) : id(o) = id(e)}
        rest == submap(x, key) \ old
        new  == IF old = {} THEN [e EXCEPT !.seqNum = x.nextSeqNum]
                ELSE LET o == CHOOSE o \in old : TRUE
                     IN  [e EXCEPT !.creation = o.creation, !.seqNum = o.seqNum]
    IN  IF ~ e.ok THEN x
        ELSE IF e.remove THEN (IF old = {} THEN x ELSE withSubmap(x, key, rest))
        ELSE withSubmap([x EXCEPT !.nextSeqNum = IF old = {} THEN @ + 1 ELSE @], key, rest \cup {new})

(* SetCookies with the cookies of a response.                              *)
SetCookies(url, batch) ==
    /\ JarHere /\ Len(s.log) + Len(batch) <= MaxOps
    /\ LET x == FoldLeft(LAMBDA y, c : setCookie(y, url, c), s, batch)
       IN  s' = [x EXCEPT !.log = @ \o [i \in DOMAIN batch |-> [t |-> s.now, url |-> url, c |-> batch[i]]]]

(* What Cookies returns, sorted, and the sweep it leaves behind.           *)
less(e, f) == IF Len(e.path) # Len(f.path) THEN Len(e.path) > Len(f.path)
              ELSE IF e.creation # f.creation THEN e.creation < f.creation ELSE e.seqNum < f.seqNum
cookies(url) ==
    LET key == jarKey(s.conf.psl, canonicalHost(url.host))
        sel == {e \in submap(s, key) : ~ expired(e, s.now) /\ shouldSend(e, url)}
    IN  SetToSortSeq(sel, less)
Cookies(url) ==
    /\ JarHere
    /\ LET key == jarKey(s.conf.psl, canonicalHost(url.host))
           sub == submap(s, key)
       IN  /\ sub # {}
           /\ s' = withSubmap(s, key, {e \in sub : ~ expired(e, s.now)})

Tick == JarHere /\ s.now < s.conf.until /\ s' = [s EXCEPT !.now = @ + 1]

JarNext ==
    /\ JarHere
    /\ \/ \E url \in s.conf.urls : Cookies(url) \/ \E b \in s.conf.batches : SetCookies(url, b)
       \/ Tick

-----------------------------------------------------------------------------
(* The entries as the log calls for them: of the settings with one         *)
(* identity the last counts, if it is no removal and has not expired.      *)
entryOf(i) == LET g == s.log[i]
                  h == canonicalHost(g.url.host)
              IN  newEntry(s.conf.psl, g.c, g.t, h, defaultPath(g.url.path))
keyOf(i) == jarKey(s.conf.psl, canonicalHost(s.log[i].url.host))
(* With no list of suffixes a cookie for a whole top-level domain stays    *)
(* with the registrable domain that set it.                                *)
local(i) == IF Len(entryOf(i).domain) = 1 THEN keyOf(i) ELSE <<>>
Current == {i \in DOMAIN s.log :
              LET e == entryOf(i)
              IN  /\ e.ok /\ ~ e.remove /\ ~ expired(e, s.now)
                  /\ \A j \in i + 1 .. Len(s.log) : entryOf(j).ok => id(entryOf(j)) # id(e) \/ local(j) # local(i)}
reaches(i, url) ==
    /\ shouldSend(entryOf(i), url)
    /\ local(i) \in {<<>>, jarKey(s.conf.psl, canonicalHost(url.host))}
what(e) == <<id(e), e.value>>

(* A request carries exactly the cookies that were set for its host, path  *)
(* and scheme, whichever host of the domain set them, with the last value  *)
(* set for each; longer paths first.                                       *)
JarExact ==
    JarHere => \A url \in s.conf.urls :
      LET q == cookies(url)
      IN  /\ {what(q[i]) : i \in DOMAIN q} = {what(entryOf(i)) : i \in {k \in Current : reaches(k, url)}}
          /\ Len(q) = Cardinality({k \in Current : reaches(k, url)})
          /\ \A i, j \in DOMAIN q : i < j => Len(q[i].path) >= Len(q[j].path)

(* No empty submap stays behind, and an identity is held once, under the   *)
(* key of its domain.                                                      *)
SubmapsSound ==
    JarHere => \A k \in DOMAIN s.entries :
      /\ s.entries[k] # {}
      /\ \A e, f \in s.entries[k] : id(e) = id(f) => e = f
      /\ \A e \in s.entries[k] : Len(e.domain) > 1 => jarKey(s.conf.psl, e.domain) = k

JarSound == JarExact /\ SubmapsSound

(* The order among cookies of equal paths is that of their creation, a     *)
(* cookie set again after it expired being a new one.                      *)
CreationOrder ==
    JarHere => \A url \in s.conf.urls :
      LET q == cookies(url)
          born(e) == LET D == {i \in DOMAIN s.log : id(entryOf(i)) = id(e)
                                /\ \A j \in i .. Len(s.log) : id(entryOf(j)) = id(e) =>
                                     /\ ~ entryOf(j).remove
                                     /\ ~ \E k \in j + 1 .. Len(s.log) : id(entryOf(k)) = id(e) /\ expired(entryOf(j), s.log[k].t)}
                     IN  CHOOSE i \in D : \A j \in D : i <= j
      IN  \A i, j \in DOMAIN q : (i < j /\ Len(q[i].path) = Len(q[j].path)) => born(q[i]) < born(q[j])

(* The cookie a client sends is the one the server set, quotes included.   *)
QuotesKept ==
    JarHere => \A url \in s.conf.urls : LET q == cookies(url) IN
      \A i \in DOMAIN q : \E g \in Range(s.log) : g.c.name = q[i].name /\ g.c.quoted = q[i].quoted
=============================================================================
