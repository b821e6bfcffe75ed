----------------------------- MODULE RequestForm -----------------------------
(***************************************************************************)
(* The form of a request (src/request.go): ParseForm, ParseMultipartForm,  *)
(* MultipartReader, FormValue, PostFormValue and FormFile, called by a     *)
(* handler in any order and any number of times.  The form has one key;    *)
(* its values are told apart by where they come from.                      *)
(***************************************************************************)
EXTENDS Naturals, Sequences, SequencesExt

CONSTANTS
    MaxCalls,     \* calls of the handler
    Confs         \* [post: the method has a body form, type: of the body, body: "none", "fits", "large" or "broken",
                  \*  limited: Body is a maxBytesReader, query: "some", "none" or "bad"]

VARIABLE s

Here == s.m = "form"

Nil == [nil |-> TRUE, vals |-> <<>>]
Values(v) == [nil |-> FALSE, vals |-> v]

Init ==
    \E t \in Confs :
      s = [m |-> "form", t |-> t, calls |-> 0, Form |-> Nil, PostForm |-> Nil,
           MultipartForm |-> "nil",                            \* "nil", "byReader" or "parsed"
           reads |-> 0,                                       \* times the body was read for a form
           parsed |-> FALSE,                                  \* a call has parsed the multipart body
           ret |-> "none", of |-> "none", read |-> FALSE]      \* the last call and what it returned

(* parsePostForm: the values and whether there was an error.  Ten          *)
(* megabytes are the most it reads of a body nothing else limits.          *)
parsePostForm(t) ==
    IF t.body = "none" THEN [v |-> Nil, err |-> TRUE, read |-> 0]
    ELSE IF t.type # "urlencoded" THEN [v |-> Nil, err |-> t.type = "malformed", read |-> 0]
    ELSE IF t.body = "broken" \/ (t.body = "large" /\ ~t.limited) THEN [v |-> Nil, err |-> TRUE, read |-> 1]
    ELSE [v |-> Values(<<"body">>), err |-> FALSE, read |-> 1]

queryValues(t) == IF t.query = "none" THEN <<>> ELSE <<"query">>

(* ParseForm on x: [x, err].                                               *)
postParsed(x) ==
    LET p == parsePostForm(x.t)
    IN  IF ~x.PostForm.nil THEN [x |-> x, err |-> FALSE]
        ELSE IF ~x.t.post THEN [x |-> [x EXCEPT !.PostForm = Values(<<>>)], err |-> FALSE]
        ELSE [x |-> [x EXCEPT !.PostForm = Values(p.v.vals), !.reads = @ + p.read], err |-> p.err]
formNeverParsed(x) == TRUE
formParsed(x) == x.Form.nil
ParseForm(x) ==
    LET r == postParsed(x)
        y == r.x
    IN  IF formParsed(y)
        THEN [x |-> [y EXCEPT !.Form = Values(y.Form.vals \o y.PostForm.vals \o queryValues(y.t))],
              err |-> r.err \/ y.t.query = "bad"]
        ELSE r

(* ParseMultipartForm on x.  The parts are added after what Form holds.    *)
multipartAgain(x) == FALSE
multipartDone(x) == x.MultipartForm # "nil"
multipartRead(x) ==
    IF x.t.type # "multipart" \/ x.t.body = "none" THEN [x |-> x, err |-> TRUE]
    ELSE IF x.t.body = "broken" THEN [x |-> [x EXCEPT !.reads = @ + 1], err |-> TRUE]
    ELSE [x |-> [x EXCEPT !.Form.vals = Append(@, "part"), !.PostForm = Values(Append(@.vals, "part")),
                          !.MultipartForm = "parsed", !.parsed = TRUE, !.reads = @ + 1], err |-> FALSE]
ParseMultipartForm(x) ==
    LET r == IF x.Form.nil THEN ParseForm(x) ELSE [x |-> x, err |-> FALSE]
    IN  IF x.MultipartForm = "byReader" THEN [x |-> x, err |-> TRUE]
        ELSE IF r.err THEN r
        ELSE IF multipartDone(r.x) THEN [x |-> r.x, err |-> FALSE]
        ELSE multipartRead(r.x)

(* The calls of the handler.                                               *)
first(f) == IF f.vals = <<>> THEN "" ELSE f.vals[1]
returns(x, of, ret) == [x EXCEPT !.calls = @ + 1, !.of = of, !.ret = ret]
word(err) == IF err THEN "error" ELSE "nil"
calls == Here /\ s.calls < MaxCalls

CallParseForm ==
    /\ calls
    /\ LET r == ParseForm(s) IN s' = returns(r.x, "ParseForm", word(r.err))

CallParseMultipartForm ==
    /\ calls
    /\ LET r == ParseMultipartForm(s) IN s' = returns(r.x, "ParseMultipartForm", word(r.err))

MultipartReader ==
    /\ calls
    /\ s' = IF s.MultipartForm # "nil" THEN returns(s, "MultipartReader", "error")
            ELSE returns([s EXCEPT !.MultipartForm = "byReader", !.read = s.t.type = "multipart"],
                         "MultipartReader", word(s.t.type # "multipart"))

FormValue ==
    /\ calls
    /\ LET x == IF s.Form.nil THEN ParseMultipartForm(s).x ELSE s
       IN  s' = returns(x, "FormValue", first(x.Form))

PostFormValue ==
    /\ calls
    /\ LET x == IF s.PostForm.nil THEN ParseMultipartForm(s).x ELSE s
       IN  s' = returns(x, "PostFormValue", first(x.PostForm))

FormFile ==
    /\ calls
    /\ LET r == IF s.MultipartForm = "nil" THEN ParseMultipartForm(s) ELSE [x |-> s, err |-> FALSE]
       IN  s' = returns(r.x, "FormFile", IF r.err \/ r.x.MultipartForm # "parsed" THEN "error" ELSE "file")

Next ==
    /\ Here
    /\ \/ CallParseForm \/ CallParseMultipartForm \/ MultipartReader
       \/ FormValue \/ PostFormValue \/ FormFile

-----------------------------------------------------------------------------

count(v, f) == Len(SelectSeq(f.vals, LAMBDA w : w = v))

(* In whatever order the calls come, the values of a form are there once:  *)
(* each of the query's in Form, each of the body's in Form and in PostForm *)
(* and none of the query's in PostForm; a urlencoded body comes before the *)
(* query; the body is parsed once, and not after MultipartReader has given *)
(* it to the handler as a stream.                                          *)
FormExact ==
    Here =>
      /\ \A v \in {"query", "body", "part"} : count(v, s.Form) <= 1 /\ count(v, s.PostForm) <= 1
      /\ count("query", s.PostForm) = 0
      /\ (~s.Form.nil /\ s.t.query # "none") => count("query", s.Form) = 1
      /\ ~s.Form.nil => \A v \in {"body", "part"} : count(v, s.Form) = count(v, s.PostForm)
      /\ count("body", s.Form) = 1 => s.Form.vals[1] = "body"
      /\ s.read => ~s.parsed

(* FormValue: "POST and PUT body parameters take precedence over URL query *)
(* string values", whichever of the two encodings the body has.            *)
BodyFirst ==
    (Here /\ s.of = "FormValue" /\ ~s.PostForm.nil /\ s.PostForm.vals # <<>>) => s.ret # "query"

(* ParseMultipartForm: "After one call to ParseMultipartForm, subsequent   *)
(* calls have no effect."                                                  *)
SecondCallIdle ==
    [][(Here /\ s.of = "ParseMultipartForm" /\ s'.of = "ParseMultipartForm")
        => s'.Form = s.Form /\ s'.PostForm = s.PostForm]_s
==============================================================================
