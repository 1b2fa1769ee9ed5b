------------------------------- MODULE Adapter --------------------------------
(***************************************************************************)
(* The Lambda adapter (internal/lambdahttp) between what stands in front   *)
(* of the function and an http.Handler: an event becomes a request, the    *)
(* handler writes into a recorder in any order and may panic, and what is  *)
(* recorded becomes the response the front end understands.  One           *)
(* invocation.  The fronts: an HTTP API or a function URL (v2), a REST API *)
(* and a load balancer with multi-value headers on or off.                 *)
(*                                                                         *)
(* A header is a sequence of values, a body of pieces; a status is what    *)
(* the adapter treats differently.  Set-Cookie is not among Header: the    *)
(* adapter keeps it apart.                                                 *)
(***************************************************************************)
EXTENDS SequencesExt, Naturals

CONSTANTS
  Cookie,    \* name=value pairs
  Header,    \* other response headers
  Value,     \* their values
  MaxDeeds   \* bound on what a handler does

FrontEnd == {"v2", "rest", "albMulti", "albSingle"}

(* 1xx; any other but 200; 204 or 304; what is no status. *)
Status == {"processing", "found", "noContent", "outOfRange"}

Names == Header \cup {"Set-Cookie"}

splitsSetCookie == "Set-Cookie" \notin Header

None == [n \in Names |-> <<>>]

VARIABLES
  front,    \* which of the fronts
  sent,     \* history: the client's request
  stage,
  req,      \* the http.Request: its cookies, and X-Forwarded-Proto
  rec,      \* responseRecorder
  reply,    \* the event's response
  deeds     \* history: what the handler did

vars == <<front, sent, stage, req, rec, reply, deeds>>

(* The client's Cookie lines.  Behind HTTP/2 there may be several.         *)
CookieLines ==
  {<<>>} \cup {<<<<c>>>> : c \in Cookie}
    \cup {<<<<p[1]>>, <<p[2]>>>> : p \in {q \in Cookie \X Cookie : q[1] # q[2]}}

(* Its X-Forwarded-Proto lines: one scheme, or a proxy's list of them with *)
(* the client's first.                                                     *)
SchemeLines == {<<<<"https">>>>, <<<<"https", "http">>>>, <<<<"https">>, <<"http">>>>}

(* One of the two at a time in more than one line. *)
Requests ==
  {r \in [cookies: CookieLines, schemes: SchemeLines, method: {"GET", "HEAD"}, decodable: BOOLEAN] :
     r.cookies = <<>> \/ r.schemes = <<<<"https">>>>}

Recorder ==
  [header: [Header -> Seq(Value)], cookies: Seq(Cookie),
   code: Status \cup {"ok", "badRequest", "internal"}, wrote: BOOLEAN,
   body: Seq({"text", "binary"})]

newResponseRecorder ==
  [header |-> [n \in Header |-> <<>>], cookies |-> <<>>, code |-> "ok",
   wrote |-> FALSE, body |-> <<>>]

statusOnlyRecorder(code) ==
  [newResponseRecorder EXCEPT !.code = code, !.wrote = TRUE]

NoReply == [code |-> "ok", single |-> None, multi |-> None, cookies |-> <<>>,
            body |-> <<>>, base64 |-> FALSE]

TypeOK ==
  /\ front \in FrontEnd
  /\ stage \in {"event", "handler", "returned", "answered", "failed"}
  /\ req \in [cookies: Seq(Cookie), schemes: Seq(Seq({"https", "http"}))]
  /\ rec \in Recorder

Init ==
  /\ front \in FrontEnd
  /\ sent \in Requests
  /\ stage = "event"
  /\ req = [cookies |-> <<>>, schemes |-> <<>>]
  /\ rec = newResponseRecorder
  /\ reply = NoReply
  /\ deeds = <<>>

-----------------------------------------------------------------------------
(* What AWS makes of a header's lines: one value, joined by commas; the    *)
(* lines; or the last line.  Cookies come to v2 in an array of their own.  *)
Lines(lines) ==
  CASE lines = <<>> -> <<>>
    [] lines # <<>> /\ front = "v2" -> <<FlattenSeq(lines)>>
    [] lines # <<>> /\ front \in {"rest", "albMulti"} -> lines
    [] lines # <<>> /\ front = "albSingle" -> <<Last(lines)>>

Event ==
  [array   |-> IF front = "v2" THEN FlattenSeq(sent.cookies) ELSE <<>>,
   cookies |-> IF front = "v2" THEN <<>> ELSE Lines(sent.cookies),
   schemes |-> Lines(sent.schemes)]

(* Mutant: the array is taken for a repetition of the header. *)
HeaderOnly(event) == event.cookies

(* The Cookie header: as it came, or rebuilt as one line of all pairs.     *)
addCookieHeader(event) ==
  IF event.array = <<>> THEN event.cookies
  ELSE <<FlattenSeq(event.cookies) \o event.array>>

(* Mutant: values stay as they came. *)
AppendedWhole(lines) == lines

(* Of the headers in the split set: a value that is a list becomes values. *)
appendHeaderValue(lines) ==
  LET all == FlattenSeq(lines) IN [i \in DOMAIN all |-> <<all[i]>>]

(* A body that says it is base64 and is not: the handler is never called.  *)
NewRequest ==
  /\ stage = "event"
  /\ IF sent.decodable
       THEN /\ stage' = "handler"
            /\ req' = [cookies |-> FlattenSeq(addCookieHeader(Event)),
                       schemes |-> appendHeaderValue(Event.schemes)]
            /\ UNCHANGED rec
       ELSE /\ stage' = "returned"
            /\ rec' = statusOnlyRecorder("badRequest")
            /\ UNCHANGED req
  /\ UNCHANGED <<front, sent, reply, deeds>>

-----------------------------------------------------------------------------
Do(kind, of, what) ==
  /\ stage = "handler"
  /\ Len(deeds) < MaxDeeds
  /\ deeds' = Append(deeds, [kind |-> kind, of |-> of, what |-> what])

Recorded(new) == rec' = new /\ UNCHANGED <<front, sent, stage, req, reply>>

SetCookie(c) ==
  /\ Do("header", "Set-Cookie", c)
  /\ Recorded([rec EXCEPT !.cookies = Append(@, c)])

AddHeader(n, v) ==
  /\ Do("header", n, v)
  /\ Recorded([rec EXCEPT !.header[n] = Append(@, v)])

(* Only the first status counts, and 1xx are none. *)
Coded(r, code) ==
  IF r.wrote \/ code = "processing" THEN r
  ELSE [r EXCEPT !.code = IF code = "outOfRange" THEN "internal" ELSE code,
                 !.wrote = TRUE]

WriteHeader(code) ==
  /\ Do("status", "none", code)
  /\ Recorded(Coded(rec, code))

Write(b) ==
  /\ Do("write", "none", b)
  /\ LET r == Coded(rec, "ok") IN Recorded([r EXCEPT !.body = Append(@, b)])

(* bodyAllowed *)
BodyAllowed(method, code) ==
  method # "HEAD" /\ code # "noContent"

(* Headers stay: a refresh may set cookies on a 304. *)
dropForbiddenBody(r) ==
  IF BodyAllowed(sent.method, r.code) THEN r ELSE [r EXCEPT !.body = <<>>]

(* Mutant: what was written so far is kept. *)
StatusReplaced(r) == [r EXCEPT !.code = "internal", !.body = <<>>]

(* reset *)
Reset(r) == statusOnlyRecorder("internal")

Return ==
  /\ stage = "handler"
  /\ stage' = "returned"
  /\ rec' = dropForbiddenBody(rec)
  /\ UNCHANGED <<front, sent, req, reply, deeds>>

Panic ==
  /\ Do("panic", "none", "none")
  /\ stage' = "returned"
  /\ rec' = dropForbiddenBody(Reset(rec))
  /\ UNCHANGED <<front, sent, req, reply>>

-----------------------------------------------------------------------------
Headers(h, cookies) == [n \in Names |-> IF n = "Set-Cookie" THEN cookies ELSE h[n]]

Only(h, P(_)) == [n \in Names |-> IF P(n) THEN h[n] ELSE <<>>]

(* encodeBody: base64 unless it is text. *)
Rendered(single, multi, cookies) ==
  [code |-> rec.code, single |-> single, multi |-> multi, cookies |-> cookies,
   body |-> rec.body, base64 |-> Contains(rec.body, "binary")]

(* HandleAPIGatewayV2, HandleFunctionURL *)
V2Reply == Rendered(Headers(rec.header, <<>>), None, rec.cookies)

(* HandleAPIGatewayREST, splitHeaderMaps *)
RESTReply ==
  LET all == Headers(rec.header, rec.cookies)
      Single(n) == n # "Set-Cookie" /\ Len(all[n]) = 1
      Multi(n)  == ~Single(n)
  IN Rendered(Only(all, Single), Only(all, Multi), <<>>)

(* Mutant: single values go to the other map, as a REST API has it. *)
RepeatedOnly(h, cookies) ==
  [n \in Names |-> IF n = "Set-Cookie" THEN cookies ELSE IF Len(h[n]) > 1 THEN h[n] ELSE <<>>]

(* multiValueHeaderMap *)
MultiValueHeaderMap(h, cookies) == Headers(h, cookies)

ALBMultiReply == Rendered(None, MultiValueHeaderMap(rec.header, rec.cookies), <<>>)

(* singleHeaderMap *)
ALBSingleReply == Rendered(Headers(rec.header, rec.cookies), None, <<>>)

Repeated(h, cookies) == Len(cookies) > 1 \/ \E n \in Header : Len(h[n]) > 1

(* HandleALB fails where a header has a value too many.                    *)
Answer ==
  /\ stage = "returned"
  /\ \/ front = "v2" /\ stage' = "answered" /\ reply' = V2Reply
     \/ front = "rest" /\ stage' = "answered" /\ reply' = RESTReply
     \/ front = "albMulti" /\ stage' = "answered" /\ reply' = ALBMultiReply
     \/ /\ front = "albSingle"
        /\ ~Repeated(rec.header, rec.cookies)
        /\ stage' = "answered" /\ reply' = ALBSingleReply
     \/ /\ front = "albSingle"
        /\ Repeated(rec.header, rec.cookies)
        /\ stage' = "failed" /\ UNCHANGED reply
  /\ UNCHANGED <<front, sent, req, rec, deeds>>

Next ==
  \/ NewRequest \/ Return \/ Panic \/ Answer
  \/ \E c \in Cookie : SetCookie(c)
  \/ \E n \in Header, v \in Value : AddHeader(n, v)
  \/ \E code \in Status : WriteHeader(code)
  \/ \E b \in {"text", "binary"} : Write(b)

Spec == Init /\ [][Next]_vars

-----------------------------------------------------------------------------
(* What the client gets of a reply: an HTTP API takes the header map, of   *)
(* which it cannot tell a joined value from several, and the cookies; a    *)
(* REST API merges the maps; a load balancer reads one of them, where a    *)
(* single value that is two cookies is neither.                            *)
Received ==
  [code |-> reply.code,
   header |-> [n \in Header |->
     CASE front \in {"v2", "albSingle"} -> reply.single[n]
       [] front = "rest" -> reply.single[n] \o reply.multi[n]
       [] front = "albMulti" -> reply.multi[n]],
   cookies |-> CASE front = "v2" -> reply.cookies
                 [] front \in {"rest", "albMulti"} -> reply.multi["Set-Cookie"]
                 [] front = "albSingle" -> reply.single["Set-Cookie"],
   body |-> IF reply.base64 \/ ~Contains(reply.body, "binary") THEN reply.body
            ELSE <<"garbled">>]

(* What the deeds at I were, in their order: the j-th of them is the one   *)
(* that has j of them up to it.                                            *)
InOrder(s, I) ==
  [j \in 1..Cardinality(I) |->
     s[CHOOSE i \in I : Cardinality({x \in I : x <= i}) = j].what]

Adds(n) == {i \in DOMAIN deeds : deeds[i].kind = "header" /\ deeds[i].of = n}

Writes == {i \in DOMAIN deeds : deeds[i].kind = "write"}

Panics == {i \in DOMAIN deeds : deeds[i].kind = "panic"}

(* A status, or the first piece of a body, which stands for 200. *)
Statuses == Writes \cup {i \in DOMAIN deeds : deeds[i].kind = "status" /\ deeds[i].what # "processing"}

CodeOf(deed) ==
  IF deed.kind = "write" THEN "ok" ELSE IF deed.what = "outOfRange" THEN "internal" ELSE deed.what

FirstCode == IF Statuses = {} THEN "ok" ELSE CodeOf(deeds[Min(Statuses)])

Bare(code) == [code |-> code, header |-> [n \in Header |-> <<>>], cookies |-> <<>>, body |-> <<>>]

(* What the handler asked for: the first status, every header (also one    *)
(* set after the status) and cookie, and the body where there may be one.  *)
Meant ==
  IF ~sent.decodable THEN Bare("badRequest")
  ELSE IF Panics # {} THEN Bare("internal")
  ELSE [code |-> FirstCode,
        header |-> [n \in Header |-> InOrder(deeds, Adds(n))],
        cookies |-> InOrder(deeds, Adds("Set-Cookie")),
        body |-> IF BodyAllowed(sent.method, FirstCode) THEN InOrder(deeds, Writes) ELSE <<>>]

(* Whatever stands in front, the client gets what the handler meant, every *)
(* cookie of it, or nothing of it after a panic; and only a load balancer  *)
(* that has one value for a header makes the invocation fail, where there  *)
(* are more: "the invocation fails visibly instead of a login              *)
(* half-succeeding with two of its three cookies missing" (HandleALB).     *)
ArrivesWholeOrNotAtAll ==
  /\ stage = "answered" => Received = Meant
  /\ stage = "failed" => front = "albSingle" /\ Repeated(Meant.header, Meant.cookies)

(* The handler sees every cookie the client sent and the scheme it came by *)
(* ("breaks equality checks such as r.Header.Get("X-Forwarded-Proto") ==   *)
(* "https"", SplitHeaders), whatever stands in front, but for the lines    *)
(* that a load balancer with single values leaves out.                     *)
RequestIsSeen ==
  stage = "handler" =>
    LET Kept(lines) == IF front = "albSingle" /\ lines # <<>> THEN <<Last(lines)>> ELSE lines
    IN /\ req.cookies = FlattenSeq(Kept(sent.cookies))
       /\ Head(req.schemes) = <<Head(Head(Kept(sent.schemes)))>>
=============================================================================
