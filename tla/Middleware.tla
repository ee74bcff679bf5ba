----------------------------- MODULE Middleware ------------------------------
(***************************************************************************)
(* What the middlewares of src/middleware and the handlers they wrap do to *)
(* one request and its response.  A chain's element first runs its part    *)
(* before Next (Down) and either goes on or returns; on the way back it    *)
(* sees the response and the error of what it wrapped (Up).  Timeout, the  *)
(* one that starts a goroutine, is left to Dispatch; Cache has a module.   *)
(*                                                                         *)
(* A context's response is reached in two ways: directly (SendString, Send,*)
(* the fasthttp response), and through Writer(), whose header map is copied*)
(* into the response once, by the first Write or WriteHeader or else when  *)
(* the dispatch ends.  Headers are counted, values are left out; a body is *)
(* the sequence of what was written, or a stream read when it is sent.     *)
(***************************************************************************)
EXTENDS Naturals, Sequences

CONSTANTS
  Path,          \* request paths
  IconPath,      \* Favicon's URL
  RedirectRules, \* [exact |-> partial function, wild |-> set of partial functions]
  RewriteRules,  \* the same for Rewrite
  Strip,         \* the paths below Static's prefix, and what is left of them
  File,          \* the stripped paths that name a file
  AllowOrigins,  \* the origins CORS lets pass, "*" for all
  SignTokens,    \* CSRF's SignTokens
  PipeCap,       \* how many flushes fasthttp's pipe holds without a reader
  Flushes        \* how often a streaming handler flushes

ASSUME PathAssumption == IconPath \in Path /\ File \subseteq Path

\* Rewriting and stripping lead to paths.
ASSUME RewriteAssumption ==
  /\ \A p \in DOMAIN RewriteRules.exact : RewriteRules.exact[p] \in Path
  /\ \A w \in RewriteRules.wild : \A p \in DOMAIN w : w[p] \in Path
  /\ \A p \in DOMAIN Strip : Strip[p] \in Path

ASSUME FlushAssumption == Flushes \in Nat /\ PipeCap \in Nat

Header == {"rid", "cors", "cookie", "security", "icon", "location", "allow",
           "etag", "rtime", "encoding", "user"}

Content == {"text", "json", "error", "icon", "file", "denied", "encoded", "stream"}

Nothing == [h \in Header |-> 0]

\* A context with its response: the request's path; the response; the writer's
\* header map, whether it exists and whether it has been copied.
Context ==
  [path : Path, status : Nat, hdr : [Header -> Nat], body : Seq(Content),
   stream : Seq(Content), pend : [Header -> Nat], init : BOOLEAN, synced : BOOLEAN]

\* reset() and newResponseWriter.
Fresh(p) ==
  [path |-> p, status |-> 200, hdr |-> Nothing, body |-> <<>>, stream |-> <<>>,
   pend |-> Nothing, init |-> FALSE, synced |-> FALSE]

-----------------------------------------------------------------------------
(* The response writer                                                     *)

\* Writer().Header().Set and Add: the map exists from its first use on.
SetHeader(s, h) == [s EXCEPT !.init = TRUE, !.pend[h] = 1]
AddHeader(s, h) == [s EXCEPT !.init = TRUE, !.pend[h] = @ + 1]

\* Variant of SyncHeaders: without the test of headerSync.
SyncAgain(s) ==
  IF s.init THEN [s EXCEPT !.synced = TRUE, !.hdr = [h \in Header |-> @[h] + s.pend[h]]]
            ELSE s

\* syncHeaders: nothing if no map was made, or it was copied already.
SyncHeaders(s) ==
  IF s.init /\ ~s.synced
    THEN [s EXCEPT !.synced = TRUE, !.hdr = [h \in Header |-> @[h] + s.pend[h]]]
    ELSE s

Write(s, b) == [SyncHeaders(s) EXCEPT !.body = Append(@, b), !.stream = <<>>]
WriteHeader(s, code) == [SyncHeaders(s) EXCEPT !.status = code]

\* SendString and SendBytes bypass the writer and replace the body.
SendString(s, code, body) ==
  [s EXCEPT !.status = code, !.body = body, !.stream = <<>>]

\* headerAlreadyWritten: in the response or in the map not yet copied.
AlreadyWritten(s, h) == s.hdr[h] > 0 \/ (s.init /\ s.pend[h] > 0)

\* defaultErrorHandler: the error's code and message as a JSON body.
ErrorResponse(s, code) == SendString(s, code, <<"error">>)

\* What is on the wire: a body stream is read when the response is sent.
Answer(s) == [status |-> s.status, hdr |-> s.hdr,
              body |-> IF s.stream # <<>> THEN s.stream ELSE s.body]

-----------------------------------------------------------------------------
(* Before Next.  A step is [go, s, err]; err 0 is nil, else an HTTP status. *)

Go(s)        == [go |-> TRUE, s |-> s, err |-> 0]
Stop(s, err) == [go |-> FALSE, s |-> s, err |-> err]

SafeMethod(q) == q.method \in {"GET", "OPTIONS"}

RequestID(q, s) == {Go(SetHeader(s, "rid"))}
Helmet(q, s)    == {Go(SetHeader(s, "security"))}

AllowedOrigin(q) == q.origin # "none" /\ AllowOrigins \cap {"*", q.origin} # {}

\* No Origin or one that is not allowed: just go on.  Preflights end here.
CORS(q, s) ==
  LET t == SetHeader(s, "cors")
  IN  CASE ~AllowedOrigin(q) -> {Go(s)}
        [] AllowedOrigin(q) /\ q.method = "OPTIONS" -> {Stop(SendString(t, 204, <<>>), 0)}
        [] OTHER -> {Go(t)}

\* The cookie's token, if it is valid, must come back in the request; a new
\* token, made for a missing or a forged one, matches nothing.
CSRF(q, s) ==
  LET cookieValid == q.cookie = "good" \/ (q.cookie = "forged" /\ ~SignTokens)
  IN  IF SafeMethod(q) \/ (cookieValid /\ q.token = "same")
        THEN {Go(AddHeader(s, "cookie"))}
        ELSE {Stop(s, 403)}

EarlyData(q, s) == IF q.early /\ ~SafeMethod(q) THEN {Stop(s, 425)} ELSE {Go(s)}

\* Where rules send a path: the exact rule, else any wildcard rule whose prefix
\* it has, for Go's map iteration tries them in no order.
Targets(rules, p) ==
  IF p \in DOMAIN rules.exact
    THEN {rules.exact[p]}
    ELSE {w[p] : w \in {v \in rules.wild : p \in DOMAIN v}}

Redirect(q, s) ==
  IF Targets(RedirectRules, s.path) = {}
    THEN {Go(s)}
    ELSE {Stop(SendString(SetHeader(s, "location"), 302, <<>>), 0)}

Rewrite(q, s) ==
  IF Targets(RewriteRules, s.path) = {}
    THEN {Go(s)}
    ELSE {Go([s EXCEPT !.path = p]) : p \in Targets(RewriteRules, s.path)}

Favicon(q, s) ==
  IF s.path = IconPath /\ q.method = "GET"
    THEN {Stop(SendString(SetHeader(s, "icon"), 200, <<"icon">>), 0)}
    ELSE {Go(s)}

\* A file is served as a stream.  For none fasthttp resets the response and sets
\* 404, the middleware empties the body; stripped path and status remain.
Static(q, s) ==
  IF q.method # "GET" \/ s.path \notin DOMAIN Strip
    THEN {Go(s)}
    ELSE LET t == [s EXCEPT !.path = Strip[s.path]]
         IN  IF t.path \in File
               THEN {Stop([t EXCEPT !.status = 200, !.body = <<>>, !.stream = <<"file">>], 0)}
               ELSE {Go([t EXCEPT !.status = 404, !.hdr = Nothing, !.body = <<>>,
                                  !.stream = <<>>])}

\* WrapMiddleware around a net/http middleware that answers by itself or goes
\* on, without a look at the request: it is handed nil for that.
WrapDeny(q, s) == {Go(s), Stop(Write(WriteHeader(s, 403), "denied"), 0)}

\* The elements with nothing to do before Next: Recover, ETag, ResponseTime,
\* Compress, and any middleware Skip bypasses.
Down(k, q, s) ==
  CASE k = "requestid" -> RequestID(q, s)
    [] k = "helmet"    -> Helmet(q, s)
    [] k = "cors"      -> CORS(q, s)
    [] k = "csrf"      -> CSRF(q, s)
    [] k = "earlydata" -> EarlyData(q, s)
    [] k = "redirect"  -> Redirect(q, s)
    [] k = "rewrite"   -> Rewrite(q, s)
    [] k = "favicon"   -> Favicon(q, s)
    [] k = "static"    -> Static(q, s)
    [] k = "wrapped"   -> WrapDeny(q, s)
    [] OTHER           -> {Go(s)}

-----------------------------------------------------------------------------
(* After Next: the response and the error as the element leaves them.      *)

\* Body() reads a stream into the buffer.  A match replaces the response, and
\* the error, by a 304.
ETag(q, s, err) ==
  LET t == [s EXCEPT !.body = Answer(s).body, !.stream = <<>>]
      tagged == SetHeader(t, "etag")
      untagged == q.method # "GET" \/ s.status # 200 \/ t.body = <<>>
  IN  CASE untagged -> [s |-> s, err |-> err]
        [] ~untagged /\ q.match \in {<<"*">>, t.body} ->
             [s |-> [tagged EXCEPT !.body = <<>>, !.status = 304], err |-> 0]
        [] OTHER -> [s |-> tagged, err |-> err]

ResponseTime(q, s, err) == [s |-> SetHeader(s, "rtime"), err |-> err]

\* fasthttp's handler encodes the body there is, once, and says so directly in
\* the response; a stream is encoded while it is sent.
Compress(q, s, err) ==
  [s |-> IF q.gzip /\ s.hdr["encoding"] = 0 /\ Answer(s).body # <<>>
           THEN [s EXCEPT !.hdr["encoding"] = 1,
                          !.body = IF s.stream # <<>> THEN @ ELSE <<"encoded">>]
           ELSE s,
   err |-> err]

Up(k, q, s, err) ==
  CASE k = "etag"         -> ETag(q, s, err)
    [] k = "responsetime" -> ResponseTime(q, s, err)
    [] k = "compress"     -> Compress(q, s, err)
    [] OTHER              -> [s |-> s, err |-> err]

-----------------------------------------------------------------------------
(* The end of a chain: a step like Stop, or one of the strings below.      *)

\* Send(200, value) with a header the schema requires and the value leaves
\* empty: it must have been set by a middleware.
SendEcho(s) ==
  IF AlreadyWritten(s, "rid") THEN Stop(SendString(s, 200, <<"json">>), 0)
                              ELSE Stop(s, 500)

\* Send with a header of the schema and a value for it: Set in the response,
\* whatever waits in the writer's map.
SendOwn(s, h) == Stop(SendString([s EXCEPT !.hdr[h] = 1], 200, <<"json">>), 0)

\* ctx.Redirect to the path with or without its final slash.
SlashResponse(q, s) ==
  SendString([s EXCEPT !.hdr["location"] = 1], IF q.method = "GET" THEN 301 ELSE 308, <<>>)

NotFound(s)   == Stop(s, 404)
NotAllowed(s) == Stop(SetHeader(s, "allow"), 405)

Handlers == {"string", "echo", "own", "ownid", "write", "created", "fail", "writefail",
             "panic", "hang", "stream"}

\* What never calls Next: the handlers, the ends of a chain without a route, and a
\* wrapped net/http middleware that reads its request, nil, and panics.
Terminal == Handlers \cup {"notfound", "notallowed", "wrapreads"}
Panicking == {"panic", "wrapreads"}
Returning == Terminal \ (Panicking \cup {"hang", "stream"})

Kind == Terminal \cup
  {"requestid", "helmet", "cors", "csrf", "earlydata", "redirect", "rewrite", "favicon",
   "static", "wrapped", "etag", "responsetime", "compress", "recover", "skipped", "timeout"}

\* What the handlers return at once; those that panic, hang and stream do not.
Returns(k, s) ==
  CASE k = "string"     -> Stop(SendString(s, 200, <<"text">>), 0)
    [] k = "echo"       -> SendEcho(s)
    [] k = "own"        -> SendOwn(s, "user")
    [] k = "ownid"      -> SendOwn(s, "rid")
    [] k = "write"      -> Stop(Write(SetHeader(s, "user"), "text"), 0)
    [] k = "created"    -> Stop(Write(WriteHeader(s, 201), "text"), 0)
    [] k = "fail"       -> Stop(s, 422)
    [] k = "writefail"  -> Stop(Write(s, "text"), 500)
    [] k = "notfound"   -> NotFound(s)
    [] k = "notallowed" -> NotAllowed(s)

\* SendStream, once the writer function has returned.
Streamed(s) == [s EXCEPT !.status = 200, !.hdr["user"] = 1, !.body = <<>>,
                          !.stream = <<"stream">>]

-----------------------------------------------------------------------------
(* Timeout's copy                                                          *)

\* Copy clones the request; the response is new, and so is its writer.
Copied(s) == Fresh(s.path)

\* Response.CopyTo: all but the body stream and what the copy's writer has not
\* copied into its response yet.
CopyBack(s, copy) ==
  [s EXCEPT !.status = copy.status, !.hdr = copy.hdr, !.body = copy.body, !.stream = <<>>]
=============================================================================
