# gofi in TLA+

gofi is an HTTP and WebSocket framework for Go on top of fasthttp. This directory holds its
specifications, the TLC configurations that check them on small instances, and the theorems
TLAPS proves about them for every instance.

Run a model with `tlc -config MCCache.cfg MCCache`, check the proofs with `tlapm
CacheProofs.tla`. Paths below are relative to the repository (`src/`).

## 1. The system and its parts

A program builds a `serveMux` (routes, middlewares, schemas), then fasthttp calls
`handleFastHTTP` on one goroutine per connection. Registration is sequential and ends before
serving; serving is concurrent and shares the pools, the stores of the middlewares, and the
websocket registries.

| Part | State it keeps | Operations | What makes it correct | Model |
|---|---|---|---|---|
| Route tree, `tree.go` | a radix tree per method: paths, indices, priorities, handlers | `addRoute`, `insertChild`, `getValue` | every registered route is found, whatever the order of registration; no other handler runs; redirects for a slash end | `RouteTree` |
| Mux building, `mux.go`, `router.go`, `mux_options.go`, `handler.go`, `extras.go` | middlewares, inline middlewares, prefix, `routeMeta`, `schemaRules`, error handler; `With` copies the struct and shares slices and maps | `Use`, `With`, `Group`, `Route`, `Method`, `Static`, `Configure`, `RegisterValidator`, `Inject`, `Test` | a group's middlewares reach its routes only; nested blocks join their prefixes; registering or injecting never loses a route's schema | `Router` |
| Dispatch, `mux.go` | the handler chain and its index, status and headers | `handleFastHTTP`, `Next`, `runNotFound`, `allowedMethods` | one of route, redirect, 405 and 404 answers, once and whole; every path releases the context once, a hijacked one never | `Dispatch`, its promise in `Exchange`, the release paths in `RequestLifecycle` |
| Request context, `context.go`, `adapter.go`, `param.go` | pooled `*context`: options, parameters, stores, cached binding, adapters | `reset`, `Copy`, `acquireContext`, `releaseContext` | no state of one request is seen by another; copies outlive their request; the writer's headers arrive once | `RequestLifecycle`, the writer in `Middleware` |
| Binding, `requests.go`, `rules.go` | `bindedCacheResult`, a `schemaPool` per route | `Validate`, `ValidateAndBind`, whole or in part | a body passes exactly if its tags say so; the calls of a chain agree; values return to the pool of their type | `Binding`, pooling in `RequestLifecycle` |
| Body parsers, `bodyparser*.go`, `cont/` | a JSON parser per context | decode and validate a request, encode a response | what a schema refuses is refused whatever the nesting or the format | `Bodies` |
| Schema compiler, `compiler.go`, `schema.go`, `rules.go` | none after start | reflection over struct tags | rules say what the tags say | `Schema` |
| Responses, `responses.go`, `stream.go` | the fasthttp response | `Send`, header and cookie encoding, `SendStream` | what is sent satisfies its schema and is accepted back; a streamed response ends | `Binding`, `Middleware`, `Dispatch` |
| OpenAPI documents, `docs.go`, `fluid/` | documents built once | building and serving documents | pure data transformation | not modelled |
| Server, `fasthttpserver.go`, `mux.go` | `activeServer` under `serverMu` | `Listen*`, `Shutdown*` | a shutdown that succeeded left no request running; shutdowns end | `Server` |
| Cache middleware, `middleware/cache.go` | map, byte counter, RWMutex, a sweeping goroutine | lookup, store with eviction, sweep | bounds hold, hits are fresh and public, nobody blocks | `Cache` |
| Timeout middleware, `middleware/timeout.go` | a copy, a goroutine and a channel per request | run the chain beside a timer | the answer is the chain's or the timeout's, never a mixture; the late goroutine ends | `Dispatch`, its copy of pooled state in `RequestLifecycle` |
| CSRF, CORS, Helmet, ETag, Compress, Recover, Redirect, Rewrite, Favicon, Static, ... `middleware/` | none shared between requests | one function of request and response each | order of checks and effects, in any chain | `Middleware` |
| WebSocket sessions, `websocket/websocket.go` | registry: `draining`, a map of sessions | upgrade, `track`, `untrack`, `DrainContext`, reads and writes | no ghost, no lost session, drains end | `SessionRegistry` |
| WebSocket contracts, `websocket_contract.go` | `sync.Map` of struct validators | decode and validate by discriminator | an envelope gets the type of its discriminator; what one side may send the other may read | `WebSocketRoute` |
| Validators, `validators/`, `utils/` | none | pure functions | | those the binding treats specially, in `Schema` |

How they interact: `handleFastHTTP` asks the tree for a route, fills a pooled context and starts
the chain; middlewares call `Next` on the same context or, for Timeout, on a copy; a handler
binds its request with the rules and the value pool of its route, and the next `reset` of the
context gives the value back; the websocket handler copies the context, lets fasthttp hijack the
connection, and tracks a session in a registry that a shutdown drains; its frames are judged by
the contract of its route.

What is hard to test in it is listed under "hazards" in PROJECT.json, each at its line:
goroutines meeting at the registry's two locks or at a Timeout's channel, values recycled by a
later request, strings that alias a buffer that is read again, headers kept in two places, a
counter kept beside a map, trees that depend on the order of registration, and rules interpreted
again by every body format.

## 2. Modules

`X.tla` is a component, `MCX.tla` and `MCX*.cfg` its instances for TLC, `XProofs.tla` its
theorems. Each module begins with definitions of state, has an action per operation or per step
another goroutine can see, and ends with its properties. Above the actions, or beside the one
they change, are *variants*: the action with a plausible bug. No specification uses them; they
show that a property can fail (section 4).

**SessionRegistry** (`websocket/websocket.go`). A session has a program counter from the
draining check of its HTTP handler, through the upgrade and the hijack, to the deferred function
of its goroutine; a drain has one through `DrainContext`. `r.mu` guards a few map operations at
a time, so each critical section is one action. `draining` is an atomic that is read outside the
mutex: `TrackLoad` and `TrackInsert` are two actions, which is where a drain can pass between
them. `Disconnect` is the peer. Deadlines and read limits, which change when a handler's read
fails and not what the registry does, are left out, and so are the hooks.

**RequestLifecycle** (`mux.go`, `context.go`, `requests.go`, `rules.go`,
`middleware/timeout.go`, the copy in `websocket/websocket.go`). A `Conn` is a fasthttp
`RequestCtx`, with buffers that each request overwrites. A context keeps the *origin* of its
strings (`opts`: conn and method at the time); `AliasedMethod` says what such a string reads
later. `Recycle` is the first half of `reset`. `Get` is `sync.Pool.Get`, returning any pooled
value or a new one. The variables `pool`, `spool` hold what the pools may give; a pool may also
drop a value, which is the choice of a new one while others stay. Copies are `job`s that outlive
the handler. All routes share one pattern and differ by method; each has its own schema type. A
method name is reduced to its identity and its length, a request's data to its number.

**Cache** (`middleware/cache.go`). A request walks through lookup, stale deletion, the handler,
and the section that evicts and stores; the sweeper wakes up, locks and deletes. A section that
does one thing is an action; the eviction loop and the sweep are actions per turn with `lock`
held. `now` is read at the start of the request, and for the sweep before it asks for the mutex,
as in the code. Sizes are what the counter charges.

**RouteTree** (`tree.go`). A pattern is a sequence of tokens, a character or a whole wildcard.
`node` is the memory, from pointers to the records of `tree.go`, and `call` the registration
under way. `AddRoute` begins one; `Walk` has an action per branch of a turn of `addRoute`'s
loop, each of which first splits the edge if the path leaves it (`Edge`), and `InsertChild` one
per branch of `insertChild`'s loop. A panic ends the start of the program. A pointer is named by
the text above its node and the node's first token, so that memories that differ only in the
order of allocation are one state. `Lookup` is the loop of `getValue`, a turn at a time, which
changes no state and runs between registrations. What the tree is compared with is `Reading`,
which reads one pattern along a path and knows no tree.

**Router** (`mux.go`, `mux_options.go`). `With` copies the `serveMux` struct: trees, maps and
options are common to all copies, so `routes`, `rules` (the schema stored for a path and a
method) and `meta` are single variables; the middleware slice is a header over a backing array
in `heap`, and `AppendTo` is Go's `append`, which writes into the array when its capacity allows
and allocates one otherwise. Inline middlewares are copied to a full array each time and are
sequences. `scope`, `outer`, `depth`, `live` and `nested` are histories: they say which
middlewares and prefixes the blocks around a mux were given, and whether the program has used
its muxes as nested callbacks do. A path is a sequence of slashes and names. `Inject` is
modelled by what it leaves in the maps, since its request runs on no tree, and `RegisterTwice`
is the registration that the tree refuses after its schema has been stored; `replaced` is the
history of the keys where one of the two left a schema.

**Middleware** (`middleware/*.go`, `adapter.go`, `responses.go`, `context.go`). A library
without variables: what each middleware does to a context before `Next` (`Down`, which returns
the context and whether it went on) and after it (`Up`, which sees the response and the error),
and what a handler leaves. A context holds its path, the fasthttp response, and the header map
of its `Writer()`: `init` says whether the map has been made, `synced` whether `syncHeaders` has
copied it, which the first `Write`, `WriteHeader` or the end of the dispatch does. Headers are
counted and their values left out, so a lost and a doubled header are visible; a body is the
sequence of what was written. A handler's `Send` Sets the headers of its response's struct in
the response directly, which may be one that a middleware's header waits for in the map
(`ownid`). `Static` leaves a body stream, which a Timeout above it does not copy. A net/http
middleware that is wrapped by `WrapMiddleware` gets no request, and panics if it reads it
(`wrapreads`). Sets of outcomes stand for Go's map iteration in Redirect and Rewrite.

**Dispatch** (`mux.go`, `middleware/timeout.go`, `stream.go`). `handleFastHTTP` for one request:
how it is routed is part of the request, since the tree has its own module. The chain goes down
through `Next` and comes back up, an element per step; an error travels up, a panic unwinds to
the next Recover, to the deferred function of a Timeout's goroutine, or out of the process.
`StartTimeout` makes the copy and the goroutine; goroutine `d + 1` is the one the Timeout in
goroutine `d` starts and has the context `ctx[d + 1]`, so Timeouts nest. `Receive` and `Expire`
are the two cases of the select, in any order, `FinishLate` the send on the buffered channel.
`Reply` is the error handler, the last header copy and the release. A streaming handler is a
loop of flushes that a pipe without a reader holds only `PipeCap` of; its writer function may
return an error (`StreamFail`) or panic (`StreamPanic`), in a goroutine of fasthttp's that no
Recover covers.

**Exchange** is what `Dispatch` promises: an open request is answered in one step, with one of
the answers it may get, or the process crashes if one of its panics may go unrecovered, or,
before or after the answer, if a streaming handler is in the chain (`fatal`: its writer
function's panic waits for nobody); and it does not stay open if there is an answer (`Closes`).
**ChainRun** says which answers these are: it runs a chain by itself, as a recursive function
from the context an element starts in to the results it can come to; a Timeout contributes what
the elements below it make of a fresh copy, and its own error. `Dispatch` instantiates
`Exchange` with the answers of `ChainRun`; the refinement mapping hides the running chain in
`phase`.

**Server** (`mux.go`, `fasthttpserver.go`). Every `Listen` makes a server, records it as
`activeServer` under `serverMu`, then binds and serves; `With` copies the mux with whatever
`activeServer` and mutex it has at that moment, a held one included. A shutdown takes the mutex,
asks fasthttp's server to close and waits inside the mutex; `ShutdownWithContext` gives up when
its context does. Callers may be handlers.

**Schema** (`compiler.go`, `rules.go`, `validators/`, `utils/`). A Go type is a record of a
kind, an element type and fields with tags; `RuleDef` is what the compiler makes of it: which
rules are kept, where a default goes, which nested definitions there are. `Validated` runs rules
in the code's way, panics included, and `PrimitiveFromStr` reads texts as `strconv` does. Values
and documents share one representation of tagged records, with `Missing` (no node) apart from
`Nil` (null).

**Bodies** (`bodyparser_json.go`, `bodyparser_form.go`, `bodyparser_multipart.go`,
`cont/json.go`). `Walk` follows the JSON walk over a rule definition: absent fields, defaults,
pointers, structs, slices, maps and `any`, with the differences between an element that is bound
and one that is only validated; `Encode` is its counterpart for responses, and `DecodeForm` the
form walk, where a document is a function from key paths to texts and files. A pointer to a map
panics in the walk, as in the code. Integers have the width of their type. A result is a value,
an error or a panic.

**Binding** (`requests.go`, `responses.go`). One request through `Validate` and
`ValidateAndBind`, in any sequence a chain of middlewares and a handler may call them: `Begin`
looks up the kept result, `CheckPart` goes through headers, queries, path and cookies in the
code's order and stops after the first with errors, `CheckBody` and `TakeBody` end the call.
`Send` chooses the response field by the status and encodes; a header that somebody has already
written (`route.written`) keeps its value, and `Content-Type` is skipped. What the walks are
compared with is written beside the properties, from the documentation: `Holds` judges one field
by its tags as `docs/validations.md` reads, `Places` finds the fields of a document, and
`FormDoc` is the document that a form stands for. Where the code is known to differ is said by
four operators of their own, `Lenient` and `Stricter`, `FormLenient` and `FormStricter`, each
case with its line.

**WebSocketRoute** (`websocket_contract.go`, `websocket/websocket.go`). EXTENDS `Binding`: the
handshake is a request whose headers and queries the route validates, and frames follow only if
it was accepted. A contract is a discriminator and variants; `ReadJSON` tries the destination
itself, then the envelope, `WriteJSON` validates a message or the payload of an envelope,
`Arrive` is a frame of the peer. `dst` keeps the variables of the session from one read to the
next, since `json.Unmarshal` merges into what is there.

What composes what: `ChainRun` extends `Middleware`, `Dispatch` extends `ChainRun` and
instantiates `Exchange`; `Bodies` extends `Schema`, `Binding` extends `Bodies`, `WebSocketRoute`
extends `Binding`. The concurrent modules are joined by their boundary: where `Dispatch`
answers, `RequestLifecycle` takes `Finish`, and the session that `RequestLifecycle` hijacks is
the one `SessionRegistry` tracks.

## 3. Runs

| Run | Checks | Bounds |
|---|---|---|
| `session_registry` | no ghost entries, no session missing before a sweep, a swept snapshot is closed, refusal while draining, drains and the sessions they closed end | 2 sessions, 2 drains |
| `request_lifecycle` | contexts and values belong to one request, binding sees the request's own data, pools hold zeroed values, websocket copies stay intact | 2 conns, contexts and values, 1 goroutine, 3 requests, 3 methods of which two have names of one length |
| `copy_intact` | finding: a background copy changes under its goroutine | same |
| `dispatch` | each header once but in two named ways, headers set outside a Timeout delivered, no failure shown as a success, a result final once sent, late goroutines end, and the refinement of `Exchange` with its promise that a request is closed | 8 chains with every middleware, most on either side of a Timeout, Timeouts nested twice; requests by handler (11), by routing (4), by token, by path (9) |
| `allow_on_405` | finding: a 405 without its `Allow` | same |
| `stream_answered` | finding: a stream of 10 flushed events never answers | one request for a streaming handler without middlewares, a pipe of 4 |
| `server` | a shutdown without error left no request running, shutdowns end | 2 muxes, 2 listens, 2 callers, 2 requests |
| `binding` | JSON bodies and forms judged as the documentation reads but for the named differences, calls of a chain agree but on two kinds of body, responses accepted back, websocket messages judged like bodies, what is sent can be read | 14 body types with every document of absent, null, wrong, zero, small, limit and larger values; 7 form types; one route with all parts; one with headers that were written before; 3 calls in a row, whole or in part; 4 contracts, 7 message types, 2 reads |
| `cache` | entry bound, freshness of hits, nothing private, the counter never above the truth, live entries are not dropped, every request leaves | 2 keys, 2 requests, 1 entry, 3 bytes, responses of 1 and 4, clock to 2 |
| `bytes_bounded` | finding: the bytes exceed MaxBytes although each response fits | 2 keys, 2 requests |
| `route_tree` | tree shape, a route found with its parameters if and only if no other is preferred, no other handler, no redirect loop | 15 patterns in any order until one is refused, all paths of up to 6 characters from `/`, `a`, `b` without an empty segment |
| `router` | nested blocks give routes the middlewares around them and the joined path, a route's schema is its own | 3 muxes, 2 arrays, capacity 2 at the start, 3 middlewares, 2 methods, 2 routes, 2 schemas, 1 key where another registration or an `Inject` left its schema |

Why the bounds are enough. A race in the registry needs one session between the two halves of
`track` and one drain on either side; the second of each kind adds a session already in the
snapshot and two map replacements. Reuse in the pools needs a context's first request, a second
one that resets it and a third that gets the recycled value; two conns allow them to overlap.
The cache's counter goes wrong, or not, with one key replaced while another is present and one
entry of room, so that every store evicts; the response of 4 bytes is the one larger than
`MaxBytes`. The patterns cover every branch of `addRoute`: splits of static paths above and
below wildcards, parameters with equal and different names, a catch-all after each kind of node,
two wildcards in one segment, a catch-all that is not last; the paths are long enough for each
pattern and one segment more. Two muxes share an array after one `With`; the third is a sibling
or a grandchild. The code starts with a capacity of 15, the instance with 2, so that lists of
one and two middlewares fit, overflow, and are appended to a full, an empty and a shared array.
A route copies its chain, so one route, registered at any point, sees all middlewares; the
second shares its path with another method. With three middlewares only one stack can outgrow
its array, so two arrays are enough.

A middleware sees what its neighbours leave in the context, hence chains instead of pairs; two
nested Timeouts are the least in which the goroutine that gives up is itself one that was given
up. The stream's run leaves out all else, so that the only way not to answer is the pipe that is
full. Requests need no combination of handler and token, for example: what CSRF refuses reaches
no handler. In `binding` a rule is judged at its limit and one on either side, a type occurs in
each place that treats it differently (field, element, map value, behind a pointer, root), and
lists have up to two elements, the least for which an element can follow one that failed. The
forms have every tag of a scalar, a struct in a struct, and lists of scalars and of structs.
Three calls are one that fills the kept result, one that may use it and one that sees what the
second left. Two reads are the least in which a message meets what an earlier one left. Two
muxes and two listens have one copy of the mux that is older than a server and one that is
newer. `MaxTime`, `MaxReq`, `MaxListens`, `MaxTimeouts`, `MaxCalls`, `MaxReads`, `MaxRoutes`,
`MaxLeft` bound a clock or a counter: a higher bound repeats the same steps.

Deadlock is checked in `cache` and `bytes_bounded`, where a request can always begin. The other
instances stop: all sessions ended, `MaxReq` requests served, the request answered, both
shutdowns returned, the calls made, a registration that panicked, or a router for which no mux,
array or middleware is left.

### Fairness

`SessionRegistry!Fairness`: the Go scheduler runs every goroutine that can run, `r.mu` is never
held across a blocking call, so weak fairness for each step of a session and of a drain that has
been called. A user's handler returns only if its connection is closed, as the handlers of
`docs/websockets.md` do when a read fails. Nothing makes a client upgrade, a peer disconnect or
a context expire. `Cache!Fairness`: weak fairness for what runs without the mutex or inside it,
strong fairness for taking it, because another goroutine may hold it again and again and
`sync.RWMutex` lets neither readers nor writers starve. Handlers are assumed to return. No
request has to begin and the sweeper does not have to wake up. `Dispatch!Fairness`: each
goroutine that can run does, and a timer fires if its select still waits; a handler that hangs
(`"hang"`) is never forced to return. `Server!Fairness`: strong fairness for the steps of a
shutdown, which compete for a `sync.Mutex` that is released between them, weak for a deadline to
pass and for a handler to return, unless the handler is itself inside a shutdown. Nothing makes
a server bind or a request come.

## 4. What the runs show

What holds: the two-step `track` never leaves a ghost in the registry, although it may insert
after the map has been replaced; a session that slips past a drain is alive and in the new map,
although that drain will not close it. Contexts and values are never shared between requests,
also with Timeout and hijacked connections in between, because copies never give anything back.
The cache's second look at a stale entry protects a fresh one; a hit is never older than
`Expiration` although its clock is read early. Which of the routes that match a path is found
depends on the set of patterns alone, whatever the order of registration: the one that no other
is preferred to, read token by token, a character being preferred to a parameter, and no other.
That is less than the documentation promises (see below). A router used in nested blocks gives
each route its scope although all blocks write into one array, because a block that has ended is
not used again. A route's schema is its own, whatever is registered later for another method or
path, unless an `Inject` or a refused registration of the very same path and method leaves
another.

The dispatch gives one whole answer however timers and goroutines meet, and what it copies back
is final, because the channel is written after the chain's last step; the late goroutine needs
nobody to take its result. The two places of a header make it arrive twice in two ways and no
other (`Doubled`): a middleware's header that is also in the schema of the handler's response,
and an element that stands on both sides of a Timeout. A failing or panicking handler is never
answered as a success, with Recover, Timeout and ETag in any order. A shutdown that returned nil
and had a server to stop left nothing running, and two shutdowns end unless a handler waits for
itself or a mutex was copied while held. The JSON walk accepts a body only if every field of it
holds as `docs/validations.md` reads, or is one of the differences `Lenient` names, and refuses
it only if some field does not hold, or is one of `Stricter`'s: the two lists are complete for
the instance. The same is true of forms, with lists of their own, and what a form binds is what
the JSON walk binds of the document it stands for, but for missing fields with a default and
empty texts of pointers. Calls of one chain agree on whether a request passes and on what they
bind, but for two kinds of body: those that only a binding call looks at (forms), or that make
only a binding call panic (pointers to maps, missing lists and maps that must be present); and
lists of structs with rules, which a call that does not bind always refuses. What `Send` encodes
is accepted again, headers included. What a websocket route reads into an envelope is what a
request with that body would bind, and what one side may write the other reads back, into the
type of its variant and no other's that requires anything.

For each property PROJECT.json names a variant of one definition under which it fails.

What does not hold, each with a run that ends in the counterexample:

1. `Copy` is documented to be safe for background goroutines; it copies strings that alias the
   request buffer, and shares the bound value, which the next `reset` zeroes (`copy_intact`,
   `context.go:181`). For websocket sessions the promise holds.
2. An entry about to be replaced is subtracted from `totalBytes` and may be subtracted again by
   its eviction; the counter falls below the truth and `MaxBytes` no longer bounds the bytes
   (`bytes_bounded`, `middleware/cache.go:234`).
3. With Timeout among the global middlewares a 405 has no `Allow`: it is set through the writer
   of the copy, whose headers nobody copies into the copy's response (`allow_on_405`,
   `middleware/timeout.go:71`; `docs/routing.md:127`).
4. `SendStream` waits for the writer function before the response is read, so a stream with more
   flushes than fasthttp's pipe holds waits for ever (`stream_answered`, `stream.go:18`; the
   example of `README.md:666` and its 10 flushes).

### Known differences

Seen while modelling and kept in the models as the code has them, without a run of their own.

Routing and registration.

- One character is enough for a static child to be preferred, and the tree does not go back:
  with `/matches/live` and `/matches/:id` no route is found for `/matches/last`, which
  `docs/routing.md:60` gives to `/matches/:id` (`tree.go:290`). `RoutesFound` says when this
  happens.
- A catch-all takes what follows its slash (`tree.go:344`), while `docs/routing.md:13` and `:41`
  have the slash in its value; and it serves paths without that slash (`tree.go:334`).
- `/users/:id` and `/users/*rest`, the example of `docs/routing.md:33`, cannot both be
  registered: the second panics (`tree.go:128`). A pattern that does not begin with a slash is
  not refused; the model has none (`PatternAssumption`).
- `Static` in a block with a prefix joins the prefix twice, itself and in the registration it
  calls (`mux.go:351`), so its files are not where `README.md:601` has them. `PathsJoined`
  claims no names for these routes.
- A Router that `Group` or `Route` returned, used in turns with its parent, overwrites the
  parent's middlewares in the array both share (`mux.go:133`).
- A schema is stored by path and method before the tree is asked (`mux_options.go:78`, from
  `mux.go:739`), and by `Inject` (`mux.go:653`): an `Inject` of a registered path and method
  (what `README.md:792` offers for tests), or a second registration that panics and is
  recovered, replaces the route's schema. `RulesKept` excepts these keys. `Inject` takes its
  path without the prefix of the mux.
- `routeMeta[path] = v` drops the meta of the path's other methods (`mux.go:744`).
- `reset` looks up the rules by a method string that a released context has kept and the next
  request has overwritten, so a value may be put in another route's pool, where `Get().(*T)`
  panics (`context.go:111`).

Middlewares.

- ETag answers 304 for an error that follows a written body (`middleware/etag.go:48`), and an
  error after Compress keeps `Content-Encoding`.
- Static passes on with a stripped path and a 404 when there is no file
  (`middleware/static.go:99`). A file it finds is a body stream, which a Timeout above it does
  not copy: the answer is empty (`middleware/timeout.go:71`).
- Cache stores the empty response of a handler that returned an error, because its status is
  still 200 (`middleware/cache.go:217`); Logger too sees the status before the error handler.
- Headers set through `Writer()` after a first flush are lost. A header of the response's struct
  doubles that of a middleware (`responses.go:144` and `:175` Set it, `adapter.go:71` Adds the
  other), and so does one middleware on both sides of a Timeout around a handler that writes.
- `WrapMiddleware` hands a nil `*http.Request` to the net/http middleware (`adapter.go:333`),
  which panics if it reads it.
- A panic of the function given to `SendStream` is in fasthttp's goroutine, where no Recover
  catches it: it ends the process (`stream.go:16`).
- A slash redirect skips all middlewares. Redirect and Rewrite match prefixes without a segment
  boundary, in map order when several do. `FormValue` does not parse the form.

Server. A second `Listen` overwrites `activeServer`, after which nothing stops the first. A
shutdown before `Serve` is lost. After a shutdown that ran into its deadline, the next returns
nil while requests are still open. `With` copies a mutex that may be held. `DrainContext` is
documented to wait for its sessions and returns when it has closed their connections
(`websocket/websocket.go:190`, `:213`).

Binding of JSON bodies; the first three are `Lenient`, the next two `Stricter`.

- A struct's own tags and type count for nothing: a required one may be absent, and any value
  stands for an object whose fields demand nothing (`bodyparser_json.go:267`;
  `docs/validations.md:69`, `:241`).
- A number outside its width wraps and is judged as what is left of it (`cont/json.go:197`), and
  nulls are dropped from a list of scalars before it is judged (`cont/json.go:347`).
- The rules of a map are not checked (`bodyparser_json.go:326`).
- An `any` field refuses objects and lists (`cont/json.go:432`).
- A pointer to a map panics when it is bound (`bodyparser_json.go:337`).
- A call that binds panics for a missing list or map that must be present
  (`bodyparser_json.go:331`, `:378`, `:412`), even if the call did not select the body.
- `Validate` of a list of structs with rules always fails, and its error is kept for later calls
  that select everything, binding ones too (`requests.go:108`).

Binding of forms; the first two are `FormLenient`, the next three `FormStricter`.

- The rules of lists are not checked, below the fields of the body none but presence and type
  (`bodyparser_form.go:102`, `:258`).
- A text stands for a struct.
- An empty text for a string with rules is taken for none, so one that must be `present` or may
  be zero is refused (`utils/primitives.go:18`, `docs/validations.md:242`); an empty text leaves
  a pointer nil.
- Defaults are unknown: a missing required field is refused although it has one
  (`docs/schema-info.md:195`).
- Below the fields of the body a struct may not be missing if one of its fields must be there.
- A file answers for a required text field; `FormsAgree` leaves out forms with files.
- `Validate` checks nothing of a form, although `docs/validations.md:21` says it does.

Other parts and responses.

- A header, query, path parameter or cookie that is `present` by its tag may be missing
  (`requests.go:402`, `docs/validations.md:242`). Pointer headers and queries are not bound and
  pointer cookies panic.
- The size limit of a body is never taken from its option (`compiler.go:248`), and a body above
  it is cut silently.
- A 4xx without a field of its own falls to `Redirection` first (`rules.go:319`). Limits on
  pointer fields fail when a response is encoded.

WebSocket contracts. A destination of a variant's type accepts any object if nothing is required
of it or if it still holds an earlier message; its discriminator is not compared. A failed
direct attempt leaves its fields behind. Of two variants with one name the later decodes, and
the schema of either may be sent. Validators of nested structs are not run; an absent optional
field with a minimum is refused, other than in HTTP bodies; tags of the envelope itself are not
validated. `ReadJSON` and `WriteJSON` set no deadlines (`websocket/websocket.go:284`,
`docs/websockets.md:424`).

## 5. Proofs

The theorems hold for all values of the constants that satisfy the named assumptions beside
their declaration. The properties of states follow from inductive invariants, with a lemma for
the initial state, one per action or group of actions, and a temporal step at the end; those of
steps from the same invariants; those about a chain run by itself from an induction over its
elements.

*SessionRegistryProofs.* `TypeCorrect`; `NoGhost` needs only types: the program counter changes
together with the map. `Tracked` and `SweepCloses` need an invariant that relates the two sides:
a session in a snapshot has been accepted, what a sweep has done is closed and stays so because
`open` is set only once, before a session can be in any snapshot. `LateRefused` is temporal:
`draining` never goes back, so a request that meets it can only stay where it is or be refused.

*RequestLifecycleProofs.* `ContextsExclusive` and `ValuesExclusive` are parts of one invariant
that partitions ownership: a context is in the pool, or used by one conn, or lost to a hijack; a
value is cached by one context, or in one pool, or held by a handler or a copy alone.
`RequestsOwnData` and `PoolsZeroed` follow with the data each place may hold; both need that a
value leaves its pool when it is bound. `SessionsIntact` needs that the conn of a session serves
no request until the session ends and that the context the copy came from never returns.

*CacheProofs.* `EntriesStayBounded`: a request storing under the mutex adds one entry only after
the loop has made room, with cardinalities from the library. `HitsFresh`, `NothingPrivate` and
`LiveEntriesStay` rest on an invariant over the entries: an entry's key is its response's, it
expires no later than `Expiration` after the response was made, and who is evicting holds the
lock. `CounterNeverAhead` counts the bytes of the entries as a set: each entry owns as many as
its size, the sets of two entries are disjoint, and the counter is at most the cardinality of
their union, which an eviction shrinks by what the counter loses and a store grows by what it
gains.

*RouterProofs.* `BlocksScoped` is the reason why nested blocks are safe in shared arrays, for
any capacity, depth and number of muxes. Its invariant `Enclosed` says that as long as calls are
nested, at most one mux is live at each depth, and the stack of an outer one that shares its
array with an inner one is no longer than the inner's: an append by the innermost mux writes
beyond all others, and an append further out ends the blocks it could damage. `RulesStay` is
about what `rules` gives at the key of a route, where a later store could replace it. Its
invariant `RulesInv` adds that a schema is only where a route is or where one was left
(`Known`): so a registration that succeeds, whose key no route has, takes no other route's
schema and finds none but one that was left, and a store at the key of a route is one that
`replaced` remembers. `PathsStayJoined` says that every mux has the names of the blocks around
it in its prefix, and each route but those of a `Static` in a block with a prefix the names of
both; it needs that the names of joined paths are those of both whatever the slashes
(`NamesJoin`, by induction over the second path), and that what is joined has one slash between
two names if both parts have (`AlternatesJoin`). `SlashAssumption` is for that: `joinPath` does
not look inside the paths that callers give. The assumptions are those on muxes, arrays, lists,
methods and paths.

*RouteTreeProofs.* All four properties of the tree, for any set of patterns, registered in any
order, and any paths. The invariant `Inv` gives each node x a text `t[x]`, the tokens that stand
above it, and each route its way `T` down the tree. `Tree` says of every node that its children
begin where its own path ends, that indices, types and priorities fit them (`NodeOK`), that a
handler stands at the end of a node only where the texts spell the pattern it was registered
with (`DataOK`), and that no two nodes share a child (`Apart`). `Ways` says that each route has
its handler: its way starts at the root, and from a node on it goes on to a child, or ends there
with the handler. The properties alone are not inductive, because in the middle of a
registration they do not hold: then one node may be blank, the one that `insertChild` is about
to fill, and the way of the new pattern ends where the registration stands (`WalksAt`,
`InsertsAt`). A split leaves every text as it was and puts a node into the ways that pass the
edge; an insertion hangs nodes below one that no other way uses; a change of order keeps
children and indices side by side.

A lookup is a recursive function of the number of turns, and its turns take characters, so
induction over that number ends it in time. For `LookupMatches` the text of the node a turn is
at has been read along the path (`Reached`), and where it finds a handler the rest of the
pattern has been too (`Sound`). `RoutesFound` is two claims. If no route is preferred to one
that matches, the node of each turn is on its way (`Aims`): a character leads off that way only
if another route has it there (`LookupAims`). If another is preferred, the lookup leaves the way
at that token for good (`Strays`): where the two part there is a child for the character
(`CharacterThere`), and no node below it is on the way of a route that has a parameter there, so
what is found, if anything, is another route (`StrayStep`, `LookupStrays`). For `NoRedirectLoop`
the lookups of a path and of the one with a slash more stand at the same node until one has
found a handler or has recommended nothing, or the longer is about to find one (`Beside`,
`Settled`). Assumed are `TokenAssumption` (characters, ":name" and "*name" are told apart),
`PatternAssumption` (patterns begin with a slash and a wildcard ends where `findWildcard` ends
it), `PathAssumption` (so do paths) and, for the redirects, `NormalAssumption`: fasthttp has
removed empty segments from the path.

*DispatchProofs.* First what the modules about dispatch share: a lemma per middleware types what
it returns (`Down`, `Up`, `Returns` stay in `Context`), and `Run`, a recursive function, is what
its definition says (`RunUnfolds`). The library's induction theorems take an operator and cannot
be used; `SetInduction` and `Backwards` are instances for the *set* of the numbers that have a
property, from the fact that a nonempty set of numbers has a least one. Then `ResultsStable` and
`FailuresShown` for any chain, rules and number of Timeouts. `ResultsStable` rests on `InChain`
and `Sent`: a goroutine that has sent is done, and every place in the chain lies between the
goroutine's base and the chain's end, so that only the last step of a goroutine can send; and on
`NotBegun`, by which a Timeout starts only a goroutine that has not run before. `FailuresShown`
needs the invariant `Failed`: from the handler upwards a goroutine carries an error, in its
hand, as a panic or on its channel, since the middlewares named in `Passing` never drop one.
Assumed are `PathAssumption`, `RewriteAssumption`, `FlushAssumption`, `MaxTimeoutsAssumption`,
`RequestAssumption` and `ChainAssumption`: rules lead to paths, the numbers are natural,
requests and chains are made of the known handlers and middlewares.

*DispatchRefinement.* `Refines`: `Dispatch` implements `Exchange`, from the same assumptions.
Its invariant `Course` says of each goroutine that somebody waits for, the server or a Timeout
that has not given up, that whatever it may still come to leads to a result of the elements it
was started for (`OnTheWay`, with `Leads`: the elements still to be passed on the way up turn
each of these results into one of that set). A step down unfolds `Run` by one element, a step up
applies it; a Timeout that starts a goroutine gives it the results below as its goal, one that
receives takes its result, one that expires takes the timer's, and from then on nobody waits for
the goroutine, so nothing is claimed of it. `Placed` adds what a goroutine's mode says of the
element it stands at. When goroutine 0 comes out of the chain its result is one of `Results`,
and `AnswersOfChain` follows.

`fatal` is the exception to waiting: a writer function's panic ends the process from any
goroutine and at any time (`StreamPanicCourse`).

So `HeadersOnce` and `EarlyHeadersArrive` are about chains run by themselves, by induction from
the last element. For the first, `Clean(i, s)`: on the way down nothing is in the response, and
headers wait in the writer's map, each once and left there by an element above element i. Then
each result has each header that is not `Doubled` at most once, waiting and in the response
together (`Once`): the handler's Send sets a header that waits only if an element above left it
there, which is one of the two ways, and what the elements below a Timeout leave in the response
meets the same header waiting in the original's map only if an element above the Timeout left
it, which is the other (`Untouched` says that a header nobody there sets is not in a result).
For the second, `Holds`: a header in a map not yet copied; every result of an element that
starts with it carries it, in the map or in the response, because nothing takes a header out of
the map, what empties the response (`Static`) leaves the map alone, and a Timeout's copy
replaces the response only.

*ServerProofs.* `Drains` for any number of muxes, servers, callers and requests: a server is
closed once and accepts nothing afterwards, so the empty set of requests that the shutdown saw
stays empty. Only `ServerAssumption` is used.

Only model-checked: liveness (`DrainReturns`, `SnapshotEnds`, `RequestServed`, `Closes`,
`LateEnds`, `ShutdownReturns`), which the provers cannot reach, and the six properties of
`binding` (`BodyJudged`, `CallsAgree`, `RoundTrip`, `FormsAgree`, `EnvelopeReadsBody`,
`SentIsRead`): what they say of a schema and a document is an induction over both, through
`RECURSIVE` operators that close a module to the provers.

## 6. Not modelled

Wording, header values and the bytes of bodies, except where a property is about them. fasthttp
is modelled only from how gofi uses it: a `RequestCtx` serves one request at a time, the hijack
handler runs after the 101 response has been written, a body stream is read after the handler
returned, a shutdown waits for open connections. The OpenAPI documents and template pages are
one pass over the routes at start that nothing reads back. The validators beyond `required`,
`present`, `min` and `max` are predicates of one text, for which the repository's table tests
are the better tool; so are the helpers of `utils/`. Left out of `Bodies` and `Schema`: custom
formats, times, floats, `io.Reader` bodies and self-referencing types. Left out of the sessions:
deadlines, read limits and hooks. Memory-model effects of the aliased strings beyond reading old
or new contents, and the unsynchronised map writes of an `Inject` while serving, are left out:
the second aborts the process.

## 7. State of the plan

All parts of the first plan have their module: registry, contexts, cache, tree, router, then
dispatch with Timeout and streams, server, binding, websocket contracts. Every safety property
that a passing run checks is proved, but for those of `binding` (section 5). What further work
would add, in this order:

1. An abstract set of live sessions with an atomic drain mark that `SessionRegistry` implements,
   and an ownership table for `RequestLifecycle`; step by step both follow the invariants
   already proved.
2. Deadlines of websocket sessions, with the difference between frames and JSON messages.
