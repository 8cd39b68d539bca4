# timax_http_server in TLA+

Models, model checks and machine-checked proofs for `timax_http_server`, an
asynchronous HTTP server in C++14 on Boost.Asio. Paths and line numbers below
refer to the repository's sources. The repository has no tests and its README is
two lines, so the code and its comments are the only reference.

## 1. Inventory

| part | source | state | operations | concurrency |
|---|---|---|---|---|
| `io_service_pool` | `io_service_pool.hpp` | `io_services_`, `work_`, `next_io_service_` | constructor, `get_io_service`, `start` (creates one thread per io_service, joins them), `stop`, destructor | one thread per io_service; `stop` from any thread |
| `server_t` | `server.hpp`, `server.cpp` | the pool, the acceptor, `conn_`, the router, `static_dir_` | constructor, `start`, `do_accept` and its handler, `stop`, destructor; `process_route` (nothing calls it) | the accept handler runs on io_service 0 |
| `connection` | `connection.hpp`, `connection.cpp` | `socket_`, `read_buf_`, its reference count | live: `start`, `read_head`, the write of `g_str`, `close`, destructor. Compiled but called by nothing live: `read_body`, `response`, `response_file`, `write` | handlers run on the io_service the connection was made with |
| `http_router`, `route` | `http_router.hpp`, `route.hpp` | `route_table_`, per route `expr`, `keys`, `hits` | `on_get`, `on_post`, ... at start-up; `match` (reached only from `process_route`) | `route_table_` is shared by all threads, without a lock |
| `path_to_regex` | `path_to_regex.cpp/.hpp` | none | `parse`, `tokens_to_keys`, `tokens_to_regex`, called by the constructor of every route | none |
| `request_t` | `request.hpp` | string views into the read buffer, headers, `body_len_` | `parse`, `has_keepalive_attr`, `has_close_attr`; calls commented out | none |
| `response_t` | `response.hpp/.cpp` | status, headers, buffers (filled in comments only) | `set_status`, `add_body`, `send_response` | lives as long as its write |
| `picohttpparser` | `picohttpparser.c/.h` | `phr_chunked_decoder` | vendored: `phr_parse_request`, `phr_parse_response`, `phr_parse_headers`, `phr_decode_chunked` | none |
| `method.hpp` | `method.hpp` | constant tables | lookups | none |
| `main` | `main.cpp` | | builds the server, registers three routes, calls `start()` | |
| `persistence/` | `json.hpp`, `reflection.hpp`, `xml.hpp`, `taits.hpp` | `reader_t`: cursor and token | vendored headers, included by nothing: `read_json`, `skip`, `render_json_value` | none |
| `static/` | | | pages, scripts and images | |

How the parts interact. `main` constructs the server, which constructs the pool
and takes its first io_service for the acceptor. `start()` arms the first
accept on the caller's thread and then runs the pool: one thread per io_service,
joined before `start()` returns. From then on everything happens in completion
handlers. The accept handler calls `conn_->start()`, which issues the only read
of the connection, and ends with `do_accept()`, which replaces `conn_` by a new
connection on the next io_service. The read handler closes the socket on an error
and otherwise writes the canned response; the write handler closes. Handlers of
different connections run at the same time on different threads. What keeps a
connection alive is the `self` its handlers capture, and `conn_`.

What is hard here, and what correctness means for each part:

- **pool**: `run()` must not return before `stop()`, although an io_service has
  nothing to do most of the time; `stop()` must end `start()` whenever it comes,
  even between the creation of two threads; the round-robin must wrap where the
  vector ends and spread connections evenly.
- **accept chain**: it lives only in its own handler. It must survive failed
  accepts, never fork, and its handler must start the connection it accepted
  although it looks at the member `conn_` instead.
- **connection**: every open socket needs exactly one outstanding operation that
  ends in `close()`; an object must live as long as its handlers and no longer;
  the response goes to the client that asked, once, before the close.
- **lifecycle**: the destructor releases connections without a lock. That is safe
  only when no thread runs any more.
- **connection, dormant half**: bodies, kept-alive connections and exceptions add
  ways through the handlers; each must still leave one operation or a closed socket,
  and no connection may be kept alive for a client that cannot be answered.
- **requests**: whether a head is complete, and how long its body is, must not depend
  on how the network split it.
- **routes**: a template is cut by a regular expression into pieces and put
  together again as another one; no text may be lost, and the groups of the result
  must be the keys in order, because `match()` pairs them by position.
- **router**: of the templates that fit a path the first registered must answer,
  whatever was asked before and whatever other threads ask for; `match()` writes to
  the shared table when a method has no entry.
- **JSON**: numbers that are written must be what is read, also as keys, and it must be
  clear which strings are; a reader that goes by the first character of a token must lose
  no element, and its loops must end on any text.
- **chunked bodies**: what a body decodes to must not depend on how it was cut, and the
  decoding in place must not overtake the reading.

The hazards behind these are listed in `PROJECT.json`, each at its line with the
properties that would catch it, or with the reason why none does yet.

## 2. Modules

| module | models | composed of |
|---|---|---|
| `IoServicePool` | the pool: one action per operation, one per iteration of the loop of `stop()` and per thread created | |
| `PoolRotation` | the pool with arbitrary callers of `get_io_service`, and a history of what they got | `IoServicePool` |
| `Tcp` | external: clients and the kernel | |
| `Connection` | ownership, read, write and close of connections | `Tcp` |
| `Server` | the accept chain, the handlers on their threads, the lifecycle | `IoServicePool`, `Connection` |
| `Exchange` | the dormant half of a connection: bodies, responses, keep-alive, exceptions | `Tcp` |
| `OneShotService` | abstract: what the server promises its clients | |
| `ServerRefinement` | the refinement mapping from `Server` to `OneShotService` | `Server` |
| `RouteTemplate` | abstract: route templates, the paths they stand for, the parameters they name | |
| `PathToRegex` | `path_to_regex` as a state machine over the pieces of a template | `RouteTemplate` |
| `RequestParser` | `phr_parse_request`, `phr_parse_response`, `phr_parse_headers` and the functions they call, on classes of bytes | |
| `RequestHead` | `request_t::parse`, and the other entries, called again for a buffer that grows | `RequestParser` |
| `HttpRouter` | registration of routes; `process_route` and `match` on several threads | `PathToRegex` |
| `ChunkedBody` | abstract: what a whole chunked body decodes to | |
| `ChunkedDecoder` | `phr_decode_chunked`, called for one piece after the other | `ChunkedBody` |
| `JsonLexer` | `reader_t`: the tokens of a text | |
| `JsonReader` | `read_json` and `skip` as a state machine, one token after the other | `JsonLexer` |
| `JsonWriter` | `render_json_value` | |
| `MCServer`, `MCPathToRegex`, `MCRequestHead`, `MCHttpRouter`, `MCJson` | instances for TLC | |
| `PoolRotationProofs`, `ServerProofs`, `ExchangeProofs`, `HttpRouterProofs`, `RequestHeadProofs`, `ChunkedDecoderProofs`, `JsonReaderProofs` | theorems | |
| `RecursionLemmas` | what the theorems need of induction, recursion, sequences and queues | |

### From the code to the state

- `next_io_service_`, `work_`, `conn_` have the names of the code. `stopped` is the
  set of io_services whose `stop()` was called; `thread[i]` is where the thread
  of io_service `i` is ("handler" only between the two halves of the accept
  handler, see below); `main` is where the thread in `server_t::start()` and the
  destructor is; `stopping` is the loop variable of a `stop()` on another thread.
- A connection object is a slot of `Conn`: storage the allocator may use again.
  `accepting`, `reading` and `writing` are the targets of outstanding operations,
  `peer[c]` the client the socket of `c` is open to, `svc[c]` its io_service.
  `Settle` is the reference counting: after every step, an object that neither
  `conn_` nor a read or write refers to is destroyed and its socket closed. The
  accept handler captures the server only and owns nothing.
- A completion handler is one action, except the accept handler. Handlers of a
  connection run on one thread and share no variable with other threads, so that
  nothing can come between their statements. The accept handler is two actions,
  `AcceptOk`/`AcceptError` and `Rearm`, because the read it issues can complete on
  another thread before it goes on to replace `conn_`.
- `ReadCompletes` keeps the branch of `connection.cpp:25-31`. With offset 0, the
  only one passed, `offset + bytes_transferred > 4096` cannot hold, and
  `ServerProofs` proves it (`ReceivedBounds`).
- The kernel is in `Tcp`: a backlog in order of arrival, unread bytes, and what a
  client did to its end (open, finished sending, reset). A reset may or may not
  discard what was received before. Accepting fails when `MaxOpen` sockets are
  open, and the client stays in the backlog, as with `EMFILE`.
- Bytes are counted in units; `ReadBuf` is the 4096 bytes of `read_buf_`.

### What the environment may do

Clients connect, send, finish, reset and come back as they like, except that a
client starts a new connection only after it dropped the old one (a client with
two connections at once is two clients). `stop()` is called at any time, any
number of times, from any thread. Two preconditions are explicit. The pool is
destroyed by the thread that ran `start()`, after it returned, and a concurrent
`stop()` has returned by then (`DestroyPool`): `stop()` walks over what the
destructor frees, and the source leaves it to its callers. And `PoolSize > 0`: the
constructor throws otherwise, which is what happens by default where
`hardware_concurrency()` is 0.

### The dormant half of a connection

`read_body`, `response` and `write` are compiled, and nothing calls the first two: their
callers are comments in `read_head` (`connection.cpp:33-88`). `HandOver` stands for these
callers and is external; that the canned response follows a read is the other
alternative of `HeadCompletes`, so that both halves are checked together. `Server` has
threads and slots; `Exchange` leaves them out, since a connection's handlers run one
after the other, and has one connection for each client instead.

`ops[k]` are the outstanding operations of the socket to `k`, each with what its handler
has captured (`need_close`, the length of the body), and `sock[k]` is that socket.
`Handled` is what a handler leaves: the operations it has started, or a closed socket,
because the object is destroyed with its last handler. `connection.cpp:96` reads a body
into `read_buf_` and as many bytes as the head says: `async_read` stops with the body or
with the buffer full, and the rest of a longer body stays in the socket. `response()` may
throw before its write is started, twice in `read_body`, whose handlers of the exception
call it again; an exception that leaves a handler leaves `run()`, and no thread
of the pool catches it (`Terminate`). `response_buffers_` is filled in comments, so that
a response has no bytes; `replies` counts it as answered when its write succeeds.

`write` shuts the socket down in both directions whether or not it is to be kept
alive (`:201`). What the client had sent before is still delivered, then end of
file; nothing can be sent any more. A connection that is kept alive is therefore read
again and again until the client pauses, answers nothing, and is closed.

### Route templates

A template is the sequence of pieces that `PATH_REGEXP` tells apart; the model
starts from the cut, and `WellCut` excludes sequences no template is cut into. The
model follows `parse()` match by match, with its locals `index`, `path` and `key`,
then `tokens_to_keys()`, then `tokens_to_regex()` token by token. The regex is a
sequence of elements. What such a regex matches, how groups are numbered and when
the constructor of `std::regex` throws is external and defined in `PathToRegex`
after the properties of ECMAScript regexes the code relies on. Options have their
defaults, since `route.hpp:16` passes none; case is not modelled.

### The router

`main` registers routes on one thread: each `on` inserts the entry of its method,
runs the steps of `PathToRegex` as the constructor of the route, and ends with
`emplace_back`, or with `RegexError` when the constructor of `std::regex` throws, which
`main` does not catch. `set_router` copies the router and `start()` follows, so that
registration is over when requests come. Nothing live calls `process_route`: the
model lets threads of the pool call it, as the commented call in
`connection.cpp:132` does from handlers.

`route_table_[method]` of a call is two points in time: where the lookup begins
(`process_route`) and where it ends (`Copy`, or `Insert` when the method has no entry).
If another thread inserts in between, the behaviour is undefined; the model
then lets the lookup find the routes, miss them, or miss them and leave an empty entry
that hides them (`TornLookup`); a crash, also possible, ends everything and adds no
state. The search runs on a copy and is one action. `hits` is
counted in the copy and lost with it, as in the code. What the handler does, and
whether it throws, is the caller's business: `Return` ends the call either way, and
clears what belongs to the request.
`std::smatch` is external: `Ways` are all ways in which a regex matches a path, of which
`std::regex` prefers one; the properties hold for each.

### Request heads

`request_t::parse` has no live caller: `read_head` and `main` keep its calls in
comments, both with the length of the buffer at the call before as `last_len`, and
that is how `RequestHead` calls it. The parser's functions are operators with the
names of the source; where the source returns a pointer, or null and a code, they
return a position or the code. Bytes are classes: line ends, blanks, colons, control
characters, the text `HTTP/1.x` as one unit, words, and the words the properties tell
apart (`CL` for `Content-Length`, `NUM` for digits). The views `method_`, `url_` and
`minor_version_` are left out, and so is the number that digits make.

`entry` says which of the parser's functions is called; only one for requests fills a
`request_t`. Status lines of responses and bare blocks of headers share `is_complete`
and `parse_headers` with requests, and `picohttpparser.h:51-61` promises the same of all
three. `parse_response` looks at a blank without asking for the end of the buffer
first; it may, because the number before it has stopped at a character.

### JSON

`persistence/json.hpp` is included by no source file, and cannot be as it is: it includes
`traits.hpp`, the file is called `taits.hpp`, and `:95` repeats the default template
argument of `:51`, which GCC refuses. `JsonLexer` has the positions of
`reader_t` on texts of classes of characters; a token is its type, its text by position
and length, and its value. `JsonReader` is the recursion of `read_json` over the type of
the value, and of `skip` over the text, made explicit: `frames` are the open containers,
`pc` what the innermost call does next, and each step but a return takes one token.
Texts end with a `NUL`, as the reader needs. A type is a sequence such as
`<<"map", "seq", "uint">>`; a `"map"` has unsigned integers for keys, read like values, so
that both `{"1":2}` and `{1:2}` are maps, and a `"dict"` has strings.

`JsonWriter` writes fewer types than the reader reads. `render_key` of a `std::string`
(`:45-48`) is a template whose parameter nothing determines, so that the call at `:80` never
finds it and a map with strings for keys cannot be rendered: keys are numbers, in quotes. A
map of sequences cannot be rendered either where names in templates are looked up in two
phases, because the overload for sequences (`:86`) is declared behind that for maps (`:75`);
maps of maps, sequences of maps and sequences of sequences can.

The reader is modelled as it is, and that is often not as JSON is. These are its
peculiarities; all are in the model, and the properties hold with them:

- a block comment that ends is an error, one that does not end swallows the rest of
  the text and leaves the token as it was, or undefined at the start (`:259-285`);
- a negative number begins with `'0' - '-'`, which is 3: `-5` is read as 35, and no
  number is ever negative (`:299`, `:734`);
- the character after `\uXXXX` is passed over unseen (`:464`, `:524`), the digit `f` is none
  (`:369`), and escapes shorten the token instead of being decoded (`:352`, `:474`);
- tokens are compared by their first character, so that a string that begins with a
  bracket or a comma is taken for one (`:888-898`);
- a line feed after a bare word is an error (`:493`);
- strings are rendered without quotes and escapes (`:32`), and so are read back only when
  they are bare words: `""`, `"1"`, `"a b"` and `"a,b"` are not, and the last of them becomes
  two elements without an error (`BareWord`, `RoundTrip`);
- `join()` dereferences the first element of what may be empty (`:15`): containers that are
  written have elements;
- `skip` never returns from an array the text ends in (`:618`).

`strtoull` on the text of a token is modelled with its blanks, its sign and its digits, and
without its saturation at 2^64, which takes twenty digits; what a `double` cannot hold of a
long number with a point is not lost in the model. No property is about such numbers.

### Chunked bodies

`phr_decode_chunked` has no caller in `src/`; `ChunkedDecoder` calls it as
`picohttpparser.h:71-79` tells applications to: with newly arrived data, as long as it
returns -2. One action is one turn of an inner loop or one block of data; `buf`, `src`
and `dst` are the locals, `Exit` the labels at its end with the move of the rest. The
size of a chunk is kept modulo `SixteenTo[HexDigits]`, as in a `size_t`. `ChunkedBody` says
what a whole body means, by positions of lines and without a state machine.

## 3. Runs

| run | instance | checks |
|---|---|---|
| `pool` | 3 io_services, 7 calls | `TypeOK`, `Balanced`, `WorkKeepsRunning`, `StopEndsStart` |
| `server_safety` | 2 threads, 3 clients, 2 descriptors, 4 slots | `TypeOK`, `AcceptChain`, `OneOperationPerSocket`, `QuietOnceReturned`, `NeighbouringServices` |
| `server_refinement` | 2 threads, 2 clients, 2 descriptors, 4 slots, requests of 2 units with a buffer of 1 | `ImplementsOneShotService`, `AtMostOneResponse` |
| `server_liveness` | 2 threads, 2 clients, 1 descriptor, 3 slots | `EveryRequestEnds`, `EveryClientAccepted`, `StopEndsServer` |
| `route_regex` | templates of up to 4 of 9 kinds of pieces, paths of up to 4 characters | `RegexMeansTemplate`, `ValuesFollowKeys` |
| `request_head` | heads of requests begun in eleven ways, of responses in four, blocks of headers in two, continued by up to 4 of 9 kinds of units, in reads of up to 3 | `SplitIndependent`, `VerdictStands`, `BodyFollowsFirstLength` |
| `empty_header_block` | a block without headers, in two reads | `CompleteIsReported`, violated |
| `exchange` | 2 clients, bodies of up to 3 units with a buffer of 2 | `TypeOK`, `OneOperation`, `KeptAliveIsClosed`, `FinishedIsClosed`, `ImplementsOneShotService` |
| `json` | values of 7 types in up to 4 layouts, read and skipped, with all strings of up to 3 of 11 characters; texts of up to 4 more characters after 19 beginnings | `RoundTrip`, `ElementsFitText`, `NoElementLost`, `SkipPassesOver` |
| `router` | 2 threads, 2 routes out of 6 templates for a known method or for unknown ones, 4 paths | `RouterTypeOK`, `FirstRegisteredAnswers`, `OnlyUnknownMethodsRace`, `ParametersGivePath` |
| `chunked_decoder` | bodies of up to 7 of 6 kinds of units in pieces of up to 4, sizes of 2 digits, with and without trailer | `DecodesWholeStream`, `UnreadIntact` |
| `route_parentheses` | templates with escaped parentheses | `ValuesFollowKeys`, violated |

What they show.

- `pool`: no io_service ever gets two connections more than another; a thread is in
  `run()` until its io_service is stopped; once the first io_service is stopped
  `start()` returns, in whatever order `stop()` and the creation of threads
  interleave. Three io_services make the wrap differ from every other step, and
  seven calls are two rounds and one more.
- `server_safety`: one accept is outstanding, always into `conn_`, whatever failed
  before; a socket is open exactly while one read or one write of it is
  outstanding; nothing moves once `start()` returned; consecutive connections are
  served by neighbouring threads. Three clients and two descriptors make accepts
  fail while both threads are busy.
- `server_refinement`: whatever the threads do, a client sees first come, first
  served, at most one response in a session, none unasked, and the end of the
  session with it. Requests larger than the buffer leave bytes unread at the close.
- `server_liveness`: a request ends in `close()`; a client in the backlog is
  accepted when descriptors become free again and again, although the chain spins on
  failing accepts meanwhile; `stop()` ends `start()`. One descriptor for two clients
  is the smallest instance in which one waits for the other.
- `route_regex`: the regex of a route matches exactly the paths its template stands
  for, and its groups are the keys. Four pieces are enough for every pair of
  neighbouring keys with text or a separator on both sides.
- `request_head`: parsing that resumes at `last_len - 3` gives the result of parsing
  the whole buffer, for every way to split it, except that an error may be reported
  only with the empty line that ends the head; the verdict on a buffer is the same
  whatever follows; the length of the body is that of the first `Content-Length`
  line. The request line is not counted: after an empty line it may look like one (the
  method `Content-Length:`), and the parser is right not to take it for a header.
  The beginnings place the four free units at each part of a head; `is_complete`
  looks back three bytes, so longer reads add nothing to those of up to three.
- `empty_header_block` refutes, for `phr_parse_headers`, "returns number of bytes consumed
  if successful, -2 if request is partial" (`picohttpparser.h:51`, "ditto" at `:60`): a
  block of no headers is one line end, and `is_complete()` waits for two, so that a
  block that came in two reads is partial for ever. `request_head` has every other block.
- `exchange`: whatever combination of bodies, keep-alive and exceptions, a socket has
  exactly one outstanding operation until it is closed; a client that left is closed, and so
  is a connection kept alive, as soon as its client pauses; and the sessions are
  those of `OneShotService`, as on the live path: nobody gets a second response in a
  session, kept alive or not. A body is cut off by the buffer at 2 of 3 units; two
  clients are enough for a handler to disturb another connection or to end both.
- `json`: containers of numbers are read back as they were written, with whatever blanks and
  comments between the tokens; containers of strings are exactly when each string is a bare
  word; `skip` stops right behind what can be read back. From good and bad texts alike, the
  reader loses and invents no element, and always ends. The values have containers in
  containers, and numbers of one and two digits, as keys too. The 11 characters of strings have
  every kind that the lexer tells apart but the `u` of `\uXXXX`, and three of them put each
  kind at the beginning, within and at the end.
- `router`: the route that answers is the first one registered, whatever was asked
  before and whichever method was registered in between; only an insertion that overlaps a lookup can lose a route, and that takes
  a request for a method without routes; put back into the template, the parameters
  give the path. Two routes are enough for one to come before another, two
  threads for one lookup to overlap another; requests follow one another without
  bound. The templates overlap on the paths, name a key twice and leave keys out.
- `chunked_decoder`: for every body and every way to cut it, data and verdict are those
  of the whole. Seven units hold two chunks, or a chunk and a trailer, with any
  line ends; two digits make a size of three wrap round within the bound.
- `route_parentheses` refutes the comment "First parameter/value is in res[1],
  second in res[2], and so on" (`http_router.hpp:63`): `parse()` strips the backslash
  of an escape and `tokens_to_regex()` does not put it back, so that literal
  parentheses become a group and the values of later parameters are taken from the
  wrong ones. In `"/a\\(b\\)/:id"`, `id` is given the value `b`.

**Bounds.** `MaxInbox` bounds unread units, `MaxHanded` the calls of
`get_io_service`, `MaxOpen` the descriptors, `MaxTemplate` and `MaxPath` the lengths
of templates and paths, `MaxMore` what arrives after the first read, `MaxRoutes` the
routes, `MaxPiece` and `MaxStream` pieces and bodies, `MaxBody` the lengths a head may
announce; `HexDigits` is 16 in the code, `UintRange` 2^32. Slots
are at least `MaxOpen + 2`: a server needs one for `conn_`, and one more for the new
connection before the old one is released (`MaxOpenAssumption`). Clients come back,
so that the runs are not bounded in the number of sessions.

**Symmetry.** Safety runs use symmetry over slots and clients, which no definition
tells apart. Symmetry is unsound for liveness, so the liveness run has none. There
`FirstSlot` fixes which free slot is allocated, which reduces the states: slots hold
nothing between two uses, so a behaviour is the same up to their names.

**Fairness.** The thread in `start()` and a thread in `stop()` run on; a thread whose
`run()` may return does; the accept chain takes its steps (weak fairness: nothing
else disables them except `stop()`). The handler of each connection is strongly
fair: failing accepts make the acceptor's thread alternate between loop and handler,
so that a read on the same io_service is enabled only now and then, but the queue of
an io_service is first in, first out and the read is at its head eventually. Nothing
is assumed of clients or of the callers of `stop()` and the destructor:
`EveryRequestEnds` asks only of clients that sent, closed or reset, and
`EveryClientAccepted` only when descriptors are free infinitely often, because the
code has no timeout and a silent client keeps its descriptor for ever. In `Exchange`
the handlers of each connection are weakly fair: a handler whose operation has completed
stays in the queue of its io_service until it is run. `JsonReader` is one call of a
sequential program, which goes on (`WF_vars(Next)`).

**Mutated forms.** A definition marked "Mutation" is a form of the definition below
it with a plausible bug. No specification uses it; with it in place of the original
a property fails, which shows that the property depends on that code. The pairs are
in `PROJECT.json`.

## 4. Proofs

All theorems hold for every value of the constants that satisfies the named
assumptions: any number of io_services, clients and descriptors, any buffer size.

- `PoolRotationProofs`: `Balanced` is not inductive, since it does not say who is
  ahead. `Round` does: after `q` full rounds exactly the io_services before
  `next_io_service_` have had one more. `RoundInvariant` proves it, `EvenDistribution`
  follows. `RunsUntilStopped` needs that work objects exist until the destructor and
  that `start()` returns only after the threads.
- `ServerProofs`: the invariant is `IInv`. `AcceptChain` and `OneOperationPerSocket`
  depend on each other (an accept opens the socket of `conn_`, which must not be
  in use; a handler closes a socket, which must not be that of `conn_`), on
  `Lifecycle` (no thread runs before `start()` or after it returned, so no handler
  can meet an empty `conn_`) and on the types. `Rotation` ties the next io_service
  to that of `conn_`, for `NeighbouringServices`. The client side adds that a client
  has one socket or one place in the backlog, not both. One lemma per kind of step
  says what it does to the sockets, and another that the invariant survives it.
  Every step of the server is a step of `OneShotService` under the mapping, or none
  (`ServerImplementsService`), from `IInv` and `InboxAsked` (bytes to read were sent
  in this session); `AtMostOneResponsePerSession` combines it with what every behaviour
  of the abstract service does (`AnsweredAtMostOnce`): the queue has to hold waiting
  clients, each once, for the head to be served only once.
- `ExchangeProofs`: the invariant is `IInv`. `OneOperation` says that the operation a handler
  belongs to is the only one, without which nothing is known of what remains when it
  ends; `BodyHasRoom` that a body that is read is not complete, so that a read of nothing
  is the end of file; `AnswersAsked` and `Heard` that who is answered has asked, which
  the refinement needs. `HandlerOutcome` reduces the handlers to three outcomes: one
  operation follows, the socket is closed, or the process ends; the invariant and the
  refinement (`ExchangeImplementsService`) are then proved of the outcomes.
- `RecursionLemmas`: the operators that parse are defined by recursive functions, and the
  induction theorems of the library take a predicate as a parameter, which no backend
  can instantiate. Here a set takes the place of the predicate: a set that contains a
  number whenever it contains those below it (above it, up to a bound) contains all
  (`InductionUpTo`, `InductionFromAbove`, from the well-foundedness of `<`); and a
  function with a decreasing measure has a solution of its equation
  (`RecursionByMeasure`, `RecursionAlong`), which says that a `CHOOSE` of such a function,
  as which a recursive function is defined, satisfies the equation.
- `HttpRouterProofs`, templates: the regex of a route means what its template says
  (`RegexMeansWhatTemplateSays`), and its groups are its keys in order
  (`GroupsFollowKeys`), for templates and paths of any length. `MeaningInv` says what each
  stage has done: there is a cut of the paths (`CutInto`), one set of paths for every
  number of tokens, that the tokens read so far describe and, with `path`, the pieces
  up to `index`; of which `tokens_to_regex` translates one token after the other.
  `NumberingInv` counts the groups of the tokens translated. The assumption
  is `TemplatesOfPieces`: templates are sequences of keys and of characters that mean
  themselves in a regex. Without it both are false (a dot, the parentheses of
  `route_parentheses`).
- `HttpRouterProofs`, routes: `RouterTypeCorrect` needs that every vector of routes, in the
  table or copied, has handlers of registered routes only (`Lists`), also when a lookup was
  torn. `RacesOnlyOnUnknownMethods` needs that a registered method never
  loses its entry and that nothing is looked up before `main` has finished.
  A lemma carries the meaning of regexes, proved for one template, through
  registration (`ConversionInv`), and with it `FirstRegisteredRouteAnswers` holds under
  `TemplatesOfPieces` alone. Its invariant is `OrderInv`: the
  entry of a method holds exactly the routes registered for it, in order (`EntryOf`,
  `Complete`), and what a thread searches is that entry (`Copies`), both as long
  as nothing raced.
- `HttpRouterProofs`, parameters: `ParametersGivePathAgain` says that what a handler finds
  in `params` gives the path again when it is put into the template, under
  `TemplatesOfPieces` alone and whether something raced or not. `RegexMeansTemplate` does
  not help here: regexes with the same paths may have their groups in other places.
  So `LayoutInv` follows where each piece of the template is in the regex, through
  `parse()` (`LaidOut`), the tokens (`LaidIn`) and the slash at the end, which is appended or
  replaces the last element (`Made`): a separator before a key adds nothing, any other
  piece one element, a key a group with its separator. The number of a group is then
  the rank of its key (`GroupOfKey`), and `res[n]` is taken from that group alone
  (`GroupFound`). A way to match gives a place in the path behind every element
  (`WaysAreWays`), hence behind every piece, and the places are the cut the property asks for
  (`CutsReached`): what a group has matched is the separator and the captured value, or the
  separator, or nothing (`Captured`), and of two keys of one name `emplace` keeps the first
  (`ValuesAre`). The invariant of the router is `ServedInv`: every entry of the table and of
  every copy was made from the template its route was registered with (`EntryFits`), which
  also holds of what a torn lookup finds.
- `RequestHeadProofs`: for heads of any length. What the parser reads as a complete head
  `is_complete` finds complete, and at the same unit (`ParsedIsComplete`): the parser
  passes over text without line ends, and line by line the counter of `is_complete` is
  where the parser is. As long as the verdict was "partial" no end was found before
  (`HeadInv`), so that a search that looks back three bytes finds what a search from
  the beginning finds (`ResumeFinds`). `SplitNeverMatters` and `CompleteHeadIsReported`
  assume that no block of bare headers is empty (`NoEmptyBlock`): that block is what
  `empty_header_block` refutes, and the proof shows that it is the only one. `VerdictsStand`
  has no assumption; each function of the parser, once it is not partial, returns the same
  of every longer buffer. `LengthOfBody`, without assumption either, walks down the header
  lines and shows that the fields made of them have the length the first of the
  remaining `Content-Length` lines says (`LengthFrom`): a header line ends with the first
  line break behind it, so that no such line is hidden in another. The first attempt at
  it failed on a request line that looks like a header, which the property then
  counted; the property was corrected, and the run has that beginning since.
- `ChunkedDecoderProofs`: `UnreadIntact` is inductive together with the types and with
  the piece being the end of the stream; `MovedBehind` says why `memmove` is harmless.
  `WholeStreamIsDecoded` is about bodies of any length in pieces of any length, for any
  number of digits. A body is decoded from its first chunk on, the definition in
  `ChunkedBody` recurs from its last; `Reaches` turns it round: however the body goes on,
  it decodes to the data of the chunks before and what the chunks from `i` on decode to.
  The invariant is `DecodingInv`: `Progress` says that the decoder's state and its two
  counters are what the units read behind `i` make of them (`Reading`, one case per state),
  and what was decoded is the data before `i` and the part of its data that was read.
  Each step keeps that, and a call ends where it determines the verdict: at the end of the
  piece the body is incomplete (`ReadingEnds`), more units change nothing of it
  (`ReadingMore`). On the way `NoOverflow`: a size of at most `HexDigits` digits is never cut
  by the width.
- `JsonReaderProofs`: for texts of any length. What `next()` comes to is, from the end of the
  text backwards, an error, the end, or a token behind the cursor (`NextMoves`; behind a
  line comment the loop starts again). `ElementsAlwaysFit` rests on `JsonInv`: before the
  cursor there is room for the elements of every open container and, unless the text
  has ended, for one that the token the reader is at may become (`Room`). Without the
  token the step that delivers an element and fails to move would break it; the reader
  never delivers there, because the end is no scalar and no bracket. `NoElementIsLost` is
  about sequences of scalars in texts without strings, comments and escapes, as the property
  is. `Pieces` says at each token how many commas were passed: behind a separator there are
  as many elements, with blanks only since the last of them, and behind an element
  one more; a bracket between would have closed the sequence. It needs that a bare word or a
  number holds none of the characters of `Control` (`NextInBareText`).

Only model-checked: all liveness (`EveryRequestEnds`, `EveryClientAccepted`,
`StopEndsServer`, `StopEndsStart`, `KeptAliveIsClosed`, `FinishedIsClosed`,
`SkipPassesOver`), since the prover has no fairness and no `ENABLED`; and of the safety
properties `RoundTrip`, which compares with what `render_json_value` writes, a `RECURSIVE`
operator on values inside values: that takes an induction over the values.

## 5. Not modelled

- `response_file`, which nothing calls, and the headers and the body of a `response_t`, which
  nothing live sets and no compiled line sends.
- Characters that mean something in a regex, as plain text of a template: the dot is
  in the model and matches any character, as in the code, and the templates of
  `route_regex` do without it; quantifiers and brackets are not in the model.
- Values of parameters behind parentheses in the text of a template; handlers that are
  null; registration while the server runs, which `server_t::router()` would allow.
- JSON of signed and floating-point numbers, booleans, enumerations, arrays of characters
  and structs, and maps with such keys. The readers of the scalars repeat the cases of `unsigned int` with another
  type; structs are read and written by what the macros of `reflection.hpp` generate,
  which is compile-time code without a state; `xml.hpp` only writes, and structs only.
- `method.hpp`: the tables of MIME types, constant data that nothing live reads.
- Failures of allocation (but for that of a response) or of the creation of threads, and exceptions from handlers;
  the code handles none of them.

## 6. Plan

Done: the pool, the server with its live connections and the dormant half of a
connection, the abstract service and two refinements of it, the translation of route
templates, the router, the parsing of heads, the decoding of chunked bodies, JSON, and
theorems about each of them.

1. `response_file` with `request_t::url` and the table of MIME types, once something calls
   it: what it writes after the head of a response, and which paths it opens.
2. Structs in JSON, as a third kind of container whose keys are known.
