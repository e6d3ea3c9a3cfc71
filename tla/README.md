# A verification model of express-c

express-c is a web framework in C (with blocks and libdispatch) after the model of Express.js: an
epoll server, an application object with routers, middlewares, requests and responses, a Postgres
middleware with a query builder, models and JSON:API resources on a database pool, sessions,
templates and static files.  This directory holds TLA+ modules of its concurrent and stateful
parts, TLC configurations that check them on small instances, and proofs, checked by TLAPS, that
the safety properties of nine of the modules hold for instances of any size.  Paths below are
relative to the repository's root.

## 1. Inventory

**Client connections, Linux** (`src/client.c`).  State: the epoll descriptor and its
one-shot registrations, one `http_status_t` record per accepted connection (socket,
`reqStatus`, accept timer), the listening socket.  Operations: a pool of threads runs
`clientAcceptEventHandler` (accept loop, first event: cancel the timer, read, handle,
re-arm, close; second event: free the record); the accept timer's handler closes a
connection that stays silent.  Interacts with the kernel, the request parser, the
application's router, `server->close`.  Hard: threads and timers share the record
without a lock; descriptor numbers are reused; the listening socket is edge-triggered;
calls fail.  Correct when: records and timers are used while they live, a connection is
served once and gets its own response, and every connection is accepted and closed.

**Client connections, macOS** (`src/client.c` 239-325).  The same with dispatch
sources; compiled on macOS only.

**Server socket** (`src/server.c`).  Socket, epoll descriptor, queue; listen, close.

**Application object** (`src/express.c`).  Owns the base router and the server, installs
the default error handler; delegates to the router.

**Router dispatch** (`src/router.c` 88-150, 360-388).  State: none of its own, the response's
`didSend` and `err`, the request's cleanup blocks.  Operations: `handler` (recursive over
sub-routers), `runMiddleware`, `runParamHandlers`, `runErrorHandlers`, each continued by the
application's `next`.  Hard: continuation passing, with handlers that call `next` any number of
times, respond early, or report errors that are looked at while the recursion unwinds.  Correct
when: one response per request, which is what the handlers said last, or the 404 page if they said
nothing; handlers run in order inside their middlewares; errors reach the error handlers of their
own router.

**Router registration and matching** (`src/router.c`, `src/request.c` 81-226).  State: the routes
and children of each router, the base path that mounting gave it, the pattern of each route with
parameters.  Operations: `get` to `all`, `useRouter` with its recursive `mountTo`; for a request
`initReqParams` (the first pattern that matches), `routerMatchesRequest`, `matchRouteHandler`,
`req->params`.  Hard: routes and routers come in any order, and two searches have to agree.
Correct when: the route found is the first that matches method and path, and a parameter's value
is the path's.

**Request reading and parsing** (`src/request.c`).  Reads until the headers are
complete or 30 s have passed, waits for the body, parses headers, queries, cookies,
forms.  Hard: the stream is cut at arbitrary places; deadlines.

**Request lifetime** (`src/request.c` 579-606).  `freeRequest` runs the cleanup blocks
that middlewares registered, then frees the request and its arena.

**Response** (`src/response.c`).  `send` and its variants write once, guarded by
`didSend`; `error` stores an error; headers, cookies, redirect, files.

**Request memory arena** (`deps/memory-manager`).  A bump allocator with block copies
and cleanup handlers; everything of a request lives in it.

**Postgres pool of the models** (`src/db/adapter.c`).  State: a linked list of idle
connections, a semaphore, a serial queue.  Operations: `borrow`, `release`, `exec`,
`execParams`.  Correct when: a connection has one user, and the list is never empty
for a thread that the semaphore let in.

**Postgres middleware** (`src/middleware/postgres-middleware.c` 870-969).  A second pool:
an array of slots with a `used` flag, a semaphore and a serial queue.  The middleware
takes a slot for the rest of the request; a cleanup block gives it back.  Hard: the slot
is held across arbitrary handlers; a request may pass the middleware twice.

**SQL query builder** (same file, 48-870).  Accumulates clauses and parameters, numbers
placeholders, builds one statement, runs it.

**Model and model instances** (`src/model`).  State of an instance: its id and a list of
attribute records with a dirty flag.  Operations: `find`, `new`, `get`, `set`,
`validate`, `save` (UPDATE or INSERT of the dirty attributes, with callbacks before and
after), `destroy`, relations.  Hard: several requests hold instances of one row, the
callbacks run in the middle of `save`, statements fail.  Correct when: nothing that was
set is forgotten, a save touches no other column, a required column is never NULL.

**JSON:API resources** (`src/resource`).  State: the query string's tree, one scope (a
`query_t`) per resource, the instances made of its rows, the stats.  Operations: `all` and
`find`; both apply filters, sorts, page, fields and stats to a scope, run it, and do the same
for every resource to include, with a changed copy of the query string; then what was
included is put to the instances it belongs to.  Hard: every statement stands alone and other
requests write in between; what is asked of one type is carried on to others; a statement may
be refused.  Correct when: filters, stats, pages and fields mean what the client asked at every
level, and only rows that the models relate are put together.

**Memory sessions, cookie sessions** (`src/middleware/mem-session-middleware.c`,
`cookie-session-middleware.c`).  An array of stores shared by all threads; a store that
travels in the cookie.

**The rest**: static files; JWT, Mustache, Jansson, SQLite and resource middlewares
(adapters that put a library behind a request key); strings and collections; helpers and
status messages; the TodoMVC demo; the vendored libraries.

How they meet: a thread of `client.c` builds a request, calls the base router's handler
with it, frees response and request.  Middlewares reach the pools while the handler
runs, and give back what they took in cleanup blocks that `freeRequest` runs on the same
thread.  Models reach the database through the other pool, one statement at a time.

## 2. Modules

| Module | Models | Properties in |
|---|---|---|
| `ClientConnections` | `src/client.c` 70-238, `server->close` | itself |
| `AbstractPool` | abstract: exclusive, bounded borrowing | |
| `ConnectionPool` | `src/db/adapter.c` | itself; implements `AbstractPool` |
| `PostgresMiddleware` | slots, middleware and cleanup of `postgres-middleware.c` | itself; implements `AbstractPool` |
| `HttpExchange` | abstract: one response, cleanup afterwards | |
| `RouterDispatch` | the dispatch of `router.c`, `send`, `error`, `sendFile` of a missing file, `freeRequest` | itself; implements `HttpExchange` |
| `ModelInstance` | `model-instance.c`, `find` and `new` of `model.c` | itself |
| `QueryBuilder` | the query builder of `postgres-middleware.c` 34-820 | itself |
| `RouteMatching` | registration, mounting and matching of `router.c` and `request.c` | itself |
| `RequestRead` | the read loops of `buildRequest`, `request.c` 436-498 | itself |
| `ResourceQuery` | `src/resource` from the query string to the answer, on `QueryBuilder`'s operators | itself |
| `..._Proofs` | theorems about `ClientConnections`, `ConnectionPool`, `PostgresMiddleware`, `RouterDispatch`, `ModelInstance`, `QueryBuilder`, `ResourceQuery` | |
| `Request_Proofs` | theorems about `RequestRead` and `RouteMatching` | |
| `MC...` | instances for TLC | |

Operators called "Faulty variant" are changed copies of the definition that follows
them, the mistakes a property is meant to catch; no specification uses them.

### ClientConnections

A connection `c` stands for its socket and for its `http_status_t`.  `fd`, `status` and
`timer` are the record's fields and its timer; `owner` and `reg` are the kernel's view
of a descriptor number: whose socket it is now, and which record its registration points
to.  Every call on a number acts on the present owner, which is how a stale number is
felt.  A thread's `pc` goes through `clientAcceptEventHandler`: `EpollWait`, `NextEvent`,
the accept loop (`Accept`, `AcceptStops`, `FcntlFails`, `Add`, `AddFails`), the first
event of a record (`LookReading`, `ReadRequest` or `ReadFails`, `Handle`, `Rearm`,
`ShutdownConn`, `CloseConn`) and the second one (`LookEnded`).  When the headers announce a body
that did not come with them (`AwaitBody`), the thread asks for it until something arrives
(`TakeBody`), without a deadline and with the accept timer cancelled.  The timer's handler is
four steps beside the threads.  `faults` records a use after free, a double free, an
over-release or a wild pointer.

What the code does not exclude is not assumed away: a timer that fires while a thread has the
event of the same record in hand (`raced`), a failed `epoll_ctl`, after which the record is freed
under its armed timer (`ctlFailed`), and the closing server whose listening event is taken for a
record (`wild_pointer`).  The safety properties say that these are the only ways to touch freed
memory, to serve twice, to answer the wrong client, or to shut and close the socket of another
connection that got the number meanwhile (`HangsUpOnItsOwn`).  They do not catch the race itself
or the double free after a failed `epoll_ctl`, which the code has: a run in which one happened is
excepted as a whole.  A status record whose second event never comes is not freed; that leak is in
the model, and no property is about it.

### ConnectionPool and AbstractPool

`head` and `next` are the linked list, `permits` the semaphore, `queue` the thread whose
block the serial queue runs, `current` the local variable of `borrow`.  Each statement
of the two blocks is a step, so a queue that were concurrent would show.
`createPostgresPool` links `Size + 1` connections, one more than there are permits: the
assumption on the constants says so.  The refinement maps a connection to its holder
from the step that takes it out of the list until the step that puts it back.

### PostgresMiddleware

`used` are the slots' flags, `pg` the middleware's local, `blocks` the connections of the
cleanup blocks a request registered, `ran` how many of them ran, `builder` the request in
whose arena `pg->query` was built.  A request that has met the middleware must wait for
the semaphore (`Pass`, then `Wait`).  Each passage of a request through the middleware is
one caller of `AbstractPool`.

### RouterDispatch and HttpExchange

The recursion is an explicit `stack` of calls: `handler` of a router (with the index of the next
sub-router), a position of a `chain` (middlewares, then param handlers), a `route`, an `error`
handler.  Application code is arbitrary: while one of its calls is on top it may send, report an
error or a 404, send a file that is not there (`SendMissingFile`: `response.c:163` then reports a
404 of its own), register a cleanup block, call `next` up to `MaxNexts` times, and return.
`spoke` (history) is the last of what they sent or reported before the response was out, and what
the client must get (`AnsweredByTheLastWord`).  Which routers match and which have a route is
chosen at the start. Two facts the model makes visible: the routers mounted on a router run even
if the router's own middleware did not call `next`, and an error handler registered with the app
comes after the default one, which does not call `next`.  The base router is mounted on no other,
and has the default error handler: the assumption on the constants says so.

### ModelInstance

`attrs` are the attribute records in their order (`find` makes them in that of the columns,
`Order`), `pending` the values that `save` has
collected and not yet finished with, `rows` the table.  `save` is several steps: collecting
(`Save`), the callbacks (`CallbackSet`, `Refused`), the statement (`Insert`, `Update`,
`UpdateFails`, `InsertCrashes`), the clearing of flags.  Callbacks may call `set`; a
validation callback is taken to look only.  `modelInstanceGet`'s block lacks a `return`
and is taken to give back the value it calls for, as it does in practice.  A failed INSERT
ends the process (`strlen` of the NULL that `PQgetvalue` gives for a result without rows).
After a save whose statement failed, and for what a callback sets, the dirty flags are lost:
`UnsavedIsDirty` excepts these instances, and shows that there are no others.

### QueryBuilder

`query` is the `query_t` as far as binding and syntax go: the parameters collected, the
conditions of `where`, `whereIn`, `having` and `find`, each with the numbers its
placeholders got (`marks`) and, as history, the values that came with it (`given`), the
names selected and the columns to order by, the clauses that are there.  The operators
`With...` say what a call does to a query; the actions are the calls.  `Acceptable` is what
the server cannot but refuse: a number of parameters that the text does not mention, an
empty `IN` list, `ORDER BY` behind `LIMIT` or `OFFSET`.  A count or a stat takes its
aggregate out again, unless its statement fails (`AggregateFails`); one without a row ends
the process (`NoRow`).  `EndRequest` and `RunHandler` are the arena's cleanup handlers.  The
file has the builder twice in the same words, for the models' pool (lines 48-433) and for a
connection of the middleware (435-820); the map names lines of both.

### RouteMatching

A path is a sequence of segments, a segment a word or a parameter; joining strings is
joining sequences, and `Begins` says which word's characters begin another's.  The words of a
route with parameters go into its pattern unescaped, so `Reads` says which words each of them
matches as a regular expression ("a." matches "as"); routes and base paths without parameters are
compared.  That a "." may also stand for the "/" between two segments is left out.  `AddRoute`
and `UseRouter` come in any order.  `MountTo` is `mountTo`: where the code goes from a router to
those mounted on it, the model says what it gets there, for `r` and all `Below` it the base path
of the parent joined with the own mount path (a function on `Below`, so that it can be proved
about).  `Below` is the least set that holds a router and, with each of its members, the children.
`RouteFirst` is the order in which `collectRegexRouteHandlers` lists the routes: those of a router
before those of its children, a child's with all below it before the next child's.  `Receive` is
`initReqParams`, `Serve` what the routers make of the request: each that is reached picks a
route.  (Which handlers then run, and in which order, is `RouterDispatch`'s.)  The properties
compare with `Written`, the path of a route as the tree of routers reads, whenever it was
mounted.  Four things the model makes visible.  Patterns that read differently and match
the same path shadow each other: after `GET /:p`, a `POST /:q` is not found.  `req->params`
goes by the beginning of a name.  A route below a router whose base path has no parameters is
not reached by a path that only its pattern matches ("/as/x", of "/a." and "/:p"), since the
router compares.  And the pattern of a parameter, `[^\/\s]*`, is a bracket
expression of the POSIX kind in which a backslash stands for itself: it excludes "/", the
backslash and the letter s, so no parameter matches a word with an s.  `Unfit` stands for
such words.  A router is mounted once and never in a circle, and `regcomp` succeeds; methods
are compared whole.

### RequestRead

Of the bytes only the numbers count: `header` bytes of headers, `contentLength` more.  The
client sends any number of them at any time, may be malformed, stop, or close.  `pc` is the
loop `buildRequest` is in, `size` is `rawRequestSize`, `cuts` (history) where reads ended.
`BodyAwaited` is the comparison in line 485: it makes out a body that is still to come by
the length of the last read, so a body that comes in pieces, or after headers in pieces, is
handed on short, and one read of the headers' length that ends in the body is taken for the
headers (`Mistaken`): the thread then waits for more than the client sends.  A client that
announces a body and sends none holds the thread for as long as it likes.

### ResourceQuery

A request for a list (`all`) or for one resource (`find`), one step per filter and per statement,
with writes of other requests before each statement.  `stack` holds the calls under way: the base
and the nested includes, each with its copy of the query string; `scope` is the innermost call's
`query_t`, made with the operators of `QueryBuilder`, with the conditions as tests on rows;
`colls` are the collections made so far, by the places of their names in the nested includes;
`stats` what will stand in meta.  A query string is a function from places, in which its keys are
gone through, to leaves, a key's path with its values; `Parsed` says in closed form which leaves
the loop of `jansson-jsonapi-middleware.c` leaves, and where.  `ApplyFilter` is one callback of
`resource-default-filters.c`, called by `applyFiltersToScope`; in which order they are called
changes the text of the statement and which of two faulty filters crashes first, and is left open.
`Count`, `Measure` and their failures are the loop over the stats; `Statement` adds sorts, page
and fields; `Include` is `buildIncludedParams` and the call it is for; `Return` ends one call;
`IsRelated` is `addRelatedToResource`.  Texts are numbers, and `Like` says which of them LIKE and
LOWER take for equal; the order of rows is not modelled, so a page is any part of its size; a
stat's value is the set of rows it ranges over.  All stats of a resource share one record, which
has the resource's type if any key is of that type; of the stats below the type the last one is
made (`Asked`), and an empty one, or one with keys below it, has no name (`AskOf`).  Likewise an
operator of a filter with keys below it has no values (`FilterOf`).  Number and size of a page are
whatever `atoi` makes of them, negative ones included, and their product is wrapped as an `int` is
(`Wrapped`, by `IntLimit`, 2^31; a signed overflow is undefined in C, and this is what the build
does).  The assumptions say what the tables and requests are: no attribute has the name of a key
or of a type, ids are positive and of one row, ids in the query string are numbers or texts that
are not.  One form of key is left out, `filter[t][t]`, for which the code frees the object that it
is going through.

What the code does and a reader may not expect is named in the properties as an exception, and
checked to be the only one: an include without ids is unrestricted (`Unrestricted`); the includes
get the page of the base; `find` relates the rows it belongs to by its own id; a `count(*)` whose
statement failed stays selected; a sort together with a page is refused by the server, as `toSql`
puts `ORDER BY` last, and so is a page with a negative size or offset; a refused stat ends the
process, and so does one without a name; one included row that belongs to nobody makes the server
refuse the include of all.  What `find` relates, the include without ids and the count that stays
are so excepted, not caught.  That a type listed in `fields` behind another one shows nothing is
asserted as it is (`FieldsAsAsked`).  One more came out of the proof, as no model of the tests has
it (`Misread`): `addRelatedToResource` first looks for the key among the columns of the included
row, so where what a row belongs to has a column of that very name, the cell there is compared
with the row's id, and the relation is read off the wrong side.

## 3. Runs

| Run | Instance | What it shows |
|---|---|---|
| `client_safety` | 2 connections, 2 threads, 1 descriptor number, batches of 2, 1 failing call | Memory, one service per connection, responses to and hang-ups of their own clients, except in the cases named above |
| `client_liveness` | 2 connections, 1 thread, 2 sends per client, 1 failing call | Every accepted connection is closed, unless its own client withholds an announced body; every queued one is accepted, unless an accept loop broke off or such a client holds a thread |
| `client_accept_fails` | 1 connection, 2 threads, 1 failing call | *Violation*: a failing `accept` forgets the queue |
| `connection_pool` | 4 threads, 2 permits, 3 connections | Exclusive use, a well-formed list, a head that is never NULL, everybody returns and lets in who waits; refinement |
| `router_dispatch` | an app, two routers, a nested one; `next` twice, 2 cleanup blocks | One response, the handlers' last word or else the 404 page, order, error handlers; refinement |
| `postgres_middleware` | 3 requests, up to 2 passages, 4 slots | Slots found, given back and not mixed up, query builders in live memory, every request ends; refinement |
| `model_instance` | 2 instances, 2 columns (1 required), table of 0 or 1 row, room for 2, 5 calls of `set` | Nothing forgotten, no other column touched, required columns kept, one row per instance |
| `model_get_after_set` | the same | *Violation*: `get` after `set` returns NULL once the attribute has been NULL |
| `query_builder` | 2 conditions and 1 `having`, up to 2 placeholders each, 2 values, 2 statements | Placeholders stand for their own values, aggregates do not stay, conditions are freed once |
| `route_matching` | an app, 2 routers, 2 routes, 4 route, 4 mount and 8 request paths, 2 methods | Routes are found where the tree of routers puts them, with their own parameters, except in the cases named above |
| `request_read` | headers of 1 to 6 bytes, bodies of 0 to 3, a buffer of 5, a deadline of 2 | The headers' loop ends, what was sent is handled, bodies are whole unless cut; with the exceptions named above |
| `resource_query` | some 800 requests on two databases of teams, employees and notes, ints below 8; 1 write of others, 1 failing statement | Filters, stats, pages, fields and includes mean what was asked, at every level; refusals have a reason; with the exceptions named above |

Bounds.  In `client_safety` one number for two connections forces its reuse; two threads
and a timer are what it takes for any pair of control flows to meet in one record; one
failing call lets each error path be taken at any point.  `client_liveness` has a single
thread: with two, the check of liveness is out of reach, and the interleavings of two are
the subject of the safety run.  Two sends per client are one for the headers and one for the
body; a client may stop after the first.  Four threads for two
permits make borrowers wait at the semaphore and at the queue at once, with one idle
connection left over.  The routers' instance has a parent with middleware, param handler
and two error handlers, a child with two middlewares, and a sibling with only routes, so
that an error can unwind through another router; with `next` called twice a chain is
re-entered.  Four slots are one more than three requests can hold while each waits
for a second one: `RequestsEnd` says that fewer can deadlock.  Two instances with a row in
common, and five calls of `set`, cover overwriting, a second record, and a save between.
In `query_builder` two values tell placeholders apart, a condition of two placeholders is one
whose placeholders share a number, and two statements of one query are what it takes to see
what the first leaves behind; limit stands for offset too, group for joins and distinct.
Two routes are what it takes for one to hide the other or for two searches to disagree, two
routers below the app for one to be mounted before or after its parent is; the request paths
are matched by none, one, or several patterns.  `request_read` has headers that do not fill
the buffer, fill it, and do not fit, and bodies shorter than, as long as, and longer than the
headers and the room left.  `resource_query` has the tables of `test/resource`: a chain of two
relations gives includes to many, to one, nested, and back; ids of employees are not those of
their teams; somebody has nobody; each filter, sort, page, fields and stat comes alone with every
include, and those that meet in one statement come together; one write between two statements
is what it takes for two of them to disagree.

Type invariants are proved, and most are not checked again by a run; `RouteMatching` and
`ResourceQuery` have theirs in their runs, too, since a lookup that answers something else would
show there first.

Fairness.  `ClientConnections`: every thread, and every due timer, runs (weak fairness per
thread and timer), and the application's handlers return.  Of `buildRequest` the headers' loop is
taken to end, which `RequestRead` shows of its deadline (`HeadersEnd`); its wait for the body is
not, since nothing but the client ends it: `TakeBody` is enabled when the client sends more or hangs
up, and no fairness is assumed of clients.  So the properties name the connection whose client
withholds its body, and the thread it holds.  `ConnectionPool`: a thread inside `exec`
keeps running, and a serial dispatch queue runs its blocks in the order they are
submitted, so each waiting block gets its turn (strong fairness of entering); nothing is
assumed of the semaphore.  `PostgresMiddleware`: weak fairness per request; requests are
finitely many, so neither queue nor semaphore has to be fair.  `RequestRead`: the
thread runs and time passes; the client promises nothing.  `RouterDispatch`, `ModelInstance`,
`QueryBuilder`, `RouteMatching` and `ResourceQuery` are checked for safety alone.

Disagreements found.  (1) `src/client.c:107`: any error of `accept` ends the loop, and
with an edge-triggered listening socket the queue waits for the next client;
`test/express-mock-system-calls.c:74-76` notes "TODO: this hangs".  (2)
`src/model/model-instance.c:52`: `set` appends a second record to an attribute whose value
is NULL, and `get` keeps finding the first.

## 4. Proofs

Each module `M_Proofs` proves theorems of `M`'s specification, from nothing but the named
assumption on `M`'s constants; `Request_Proofs` does so for `RequestRead` and `RouteMatching`,
each with an invariant of its own (`ReadInv`, `RouteInv`).  All follow one plan: an invariant
`IInv`, that `Init` implies it (a lemma), that every step keeps it (a lemma per action or group of
actions), the theorem `Spec => []IInv`, and one theorem per property.

**ClientConnections** (any connections, threads, descriptors and bounds; `ClientAssumption`).
`ClientTypeOK`, `ClientMemorySafe`, `ClientServedOnce`, `ClientResponseToItsClient`,
`ClientEventsLeadToLiveRecords`, `ClientHangsUpOnItsOwn`.  None of these is inductive: whether a
`free` is harmless depends on who else can reach the record.  As long as no timer's handler has
overlapped an event of its record, `IInv` says of a connection what each thread that has it in
hand, or in its batch, may rely on (`Present`), what record, timer and registration agree on
(`Record`), that a number belongs to the connection whose record has it (`Descriptor`), and that
a connection's event, and the right to close it, are in one thread only (`Alone`); or else that
the process is gone (`Gone`).  Two lemmas (`SamePresent`, `SameRecord`) say what keeps a
connection undisturbed by a step on another, which is where a reused number could hurt.

**ConnectionPool** (any finite set of threads, any `Size`; `PoolAssumption`).  `PoolTypeOK`,
`PoolNeverEmpty`, `PoolListAndHoldersApart`, `PoolPermitsBacked`, and the refinement
`PoolImplementsAbstract`.  That a list is not empty depends on how many others are inside, so
`IInv` adds `BlocksExclusive` (a thread in a block owns the queue, and what it read of the head
is still the head), `PermitsBacked` (permits and threads inside add up to `Size`) and the layout
of the list: `n` idle connections and the holders are apart and add up to `Size + 1`.

**PostgresMiddleware** (any requests, passages and slots; `PgAssumption`).  `PgTypeOK`,
`PgSlotFound`, `PgFlagsMatchHolders`, `PgBuilderIsHolders`, and the refinement
`PgImplementsAbstract`.  `IInv` counts: permits, used slots and the requests between the two add
up to `PoolSize` (`PermitsBacked`), so whoever was let in finds a slot; a slot is used if and
only if a passage of a request holds it (`UsedIsHeld`), and one only (`HeldOnce`).

**RouterDispatch** (any tree of routers, numbers of handlers and bounds; `RouterAssumption`).
`DispatchTypeOK`, `DispatchAnsweredByTheLastWord`, `DispatchChainInOrder`,
`DispatchOwnErrorHandlersFirst`, and the refinement `DispatchImplementsExchange`.  `IInv` says
which calls may stand where on the stack (`StackFits`: the app's own handler is at the bottom),
that the stack runs empty only after something was sent (`Sent`), and that the answer, or as long
as there is none the error to be answered, is the handlers' last word (`Answered`).  The order of
the chain has an invariant of its own (`Ordered`: below a call at position p stand the p - 1
earlier ones of its chain), and so has the reporter's right to be asked first (`OwnFirst`).

**ModelInstance** (any instances, columns, values and bounds; `ModelAssumption`).
`ModelTypeOK`, `ModelInsertedOnce`, `ModelRequiredStored`, `ModelUnsavedIsDirty`,
`ModelOnlyOwnColumns`.  `IInv` says that ids are given out in order (`Numbered`), that an
attribute has a second record only where the first is NULL (`NullFirst`), that what is dirty or
collected is the application's own (`Own`), what `save` has collected (`Collected`), and, for
instances that neither a failed statement nor a callback has strayed, that the newest record of
an attribute is dirty or what the row holds (`Agrees`).

**QueryBuilder** (any columns, values and bounds; `QueryAssumption`).  `QueryTypeOK`,
`QueryBoundToOwnValue`, `QueryAggregatesDoNotStay`, `QueryConditionsFreedOnce`.  All placeholders
of a condition get the number of its first value, which is right for one value only; `Numbering`
shows why no accepted statement is wrong: a condition of several values leaves a
parameter that nothing mentions, which the server refuses, and no later call can mend that.

**ResourceQuery** (any types, relations, attributes, tables, LIKE and query strings, includes of
any depth; `TypesAssumption`, `StoredAssumption`, `RequestsAssumption`).  `TypesHold`,
`LinkageHolds`, `IncludesHold`, `FiltersHold`, `StatsHold`, `FieldsHold`, `RefusalsHold`.  The
properties are about the answer and the request; in between lie copies of copies of the query
string and several statements.  `IInv` closes that gap.  `IsCopy` says what every call's query
string has in common with the client's: fields and page are the same, the filters for a type are
the client's unless a call for that type above has consumed them, sorts are the client's, below
the base only those with a type (`QueriesOK`).  `IsPlace` says that every include stands below
collections already made, and `StackOK` that the stack is the chain of calls to the innermost one
and none has been made twice.  So what is asked at a place is a function of the request and of the
collections above (`FiltersOf`: the client's filters and the related ids); the tests and the
filters still to do make up just these (`ScopeOK`), the conditions of the `query_t` have their own
placeholders (`QueryOK`), and a collection or a stat holds what its tests select of the table as
its statement saw it (`CollsOK`, `StatsOK`). Of a stat's statement a refusal is traced to a
condition without values or a test with a text for a number (`Refusable`), of that for the rows to
its page, sorts and names too; all of these are the request's.  `PropertiesFollow` derives the
properties; `FiltersOfInclude` and `IncludedCopy` are the step from one query string to the next,
`AnswerStays` and `StatStays` say that later calls and others' writes change nothing that was
answered.  TLC has checked `IInv` on the run's instance.

**RequestRead** (any sizes and deadline; `ReadAssumption`).  `ReadTypeOK`,
`ReadWholeUnlessCut`: the loops have counted what they read (`Counted`), and wait for a body
from its start unless a read was cut (`BodyFromItsStart`).

**RouteMatching** (any routers, words, parameters, methods, paths and bounds;
`RouteAssumption`).  `RouteTypeOK`, `RouteRoutedAsWritten`, `RouteParamsAreTheRoutes`.  The
properties compare what is served with how the tree of routers reads; what is stored was made
piece by piece, in any order, and each piece only reached what was mounted by then.  `RouteInv`
says what that comes to at every moment: the routers are a forest (`IsForest`); a router has a
base path if and only if it is below the app, and it is its parent's joined with its own mount
path (`BasesOK`); a mounted router's routes have the pattern of their whole path if it has
parameters, unless they came late, and no other route has one (`RoutesOK`); a received request
holds the keys and values of a collected pattern that matches it, or none does (`RequestOK`).
Mounting is the step that could break it: `EdgeAdded` says what is below a router once a child is
added, and that nothing is below two; `BasesExist` that `mountTo` ends with a base path for every
router below, `BasesUnique` that these are the only ones, so that it does not matter when the
mounting was done (`WrittenIsFull`).  `FirstOfFound` shows that the order of collection is total
and has a first among any routes found; `PlacesInOrder` that keys and values are numbered alike.
`RoutedFollows` and `ParamsFollow` derive the properties: a router above a route that matches
matches itself (`MatchingReached`), unless the route's words read as others, so no reached route
is cut off; a route that is taken matches
(`TakenMatches`); one that matches is taken unless another pattern came first or it has none
(`MatchingTaken`).  Trees are handled without induction over data: what holds of a router, and of
children when it holds of the parent, holds of all `Below` it, by the definition of `Below`
(`BelowInduction`), and a function along the tree exists because a largest part of the tree that
has one is all of it.  TLC has checked `RouteInv` on the run's instance.

Left to TLC: liveness under fairness, everywhere (`EveryConnectionCloses`,
`QueuedConnectionsAreAccepted`, `BorrowersReturn`, `RequestsEnd`, `HeadersEnd`, `SentIsHandled`);
every other property that a passing run checks is stated by a theorem.  Induction over data is out
of the provers' reach; where a proof needs the first of several places in a query string or of
several routes, or the last of several stats, it takes the least element of a set of numbers
(`LeastOfNaturals`), which the library's well-founded orders give without induction.

## 5. Not modelled

The macOS variant; memory sessions (planned, below); the arena's bound (a request that needs more
than there is ends the process); parsing of headers, queries, cookies and forms; formatting of
responses and SQL, cookie and JWT contents, templates, static files, string helpers, the demo
(sequential code whose interest is in strings); vendored libraries.  In what is modelled: the
`REQUEST_TIMING` printouts, collections and validations an application adds of its own, the
resources' registration and their serialised text, `free` at the end of the process.

Behaviours that the models show and that no property is about, as the code does them and no
document says otherwise: the status record that leaks when no event follows the close; the
listening event that is taken for a record when the server closes meanwhile; the thread that
a withheld body holds for ever; sub-routers that
run although a middleware of their parent did not call `next`.

## 6. Plan

Order: what every request goes through first, then what it shares with others.

1. done: `ClientConnections`, `ConnectionPool` and `PostgresMiddleware` with `AbstractPool`,
   `RouterDispatch` with `HttpExchange`, `ModelInstance`, `QueryBuilder`, `RouteMatching`,
   `RequestRead`, `ResourceQuery`; proofs about all of them.
2. `MemSession`: find or create by several threads, on an array whose appends alone are
   queued; `MemoryManager`: the bound.
3. Proofs: `HeadersEnd` and the other liveness properties need a prover for fairness.
