# A TLA+ model of paleoserver

paleoserver is a WMS map server: a Boost.Asio HTTP server that renders images
with mapnik, one `io_service` and one thread per member of a pool, and in the
default build one `mapnik::Map` per `io_service`. No lock is taken anywhere.
What makes the program right is therefore spread over several files: which
connection is placed on which `io_service` with which map, which operation is
outstanding when, what a request leaves behind in a map, and in which order the
process is taken down. This directory models those parts, checks them with TLC
and proves the central ones with TLAPS.

Paths below are relative to the repository's root.

## Inventory

| Component | State | Operations | Talks to |
|---|---|---|---|
| `io_service_pool` (`src/io_service_pool.cpp`) | `io_services_`, `work_`, `map_services_`, two round-robin cursors | constructor, `run`, `stop`, `get_io_service`, `get_map_service` | its threads run the handlers of everything below |
| `server` (`src/server.cpp`) | acceptor, `new_connection_`, request handler | constructor, `start_accept`, `handle_accept`, `run`, `stop` | takes `io_service` and map from the pool, starts connections |
| `connection` (`src/connection.cpp`) | socket, buffer, request, parser, reply, map | `start`, `handle_read`, `handle_write` | calls parser and request handler; kept alive by its own operations |
| `request_parser` (`src/request_parser.cpp`) | parser state, and the request it fills in | `parse`, `consume` | called by `handle_read` |
| `request_handler` (`src/request_handler.cpp`) | shared by all threads; has no state of its own in the default build | `handle_request`, `url_decode` | decodes, queries, sets up the map, renders, fills in the reply |
| `wms_query` (`src/uri_parser.cpp`, `src/uri_grammer.hpp`, `src/map_utils.hpp`) | the pairs parsed, `params_` | constructor, grammar, getters, `parse_bbox_string`, `parse_layer_string` | called by `handle_request` |
| `mime_types` (`src/mime_types.cpp`) | a table | `type_to_extension` | called by `handle_request` |
| `reply` (`src/reply.cpp`) | status, headers, content | `stock_reply`, `reply_html`, `to_buffers` | filled in by the handler, sent by the connection |
| `main` (`src/posix_main.cpp`) | options, `config_errors`, signal masks, the thread `t` | read the command line and the configuration, register fonts and plugins, build and run the server, wait for a signal, stop, join | creates the server and the thread that runs it |

What is hard in it:

* **Interleaving.** Pool threads run handlers at the same time; a render makes
  four separate changes to its map before the renderer reads it; `handle_accept`
  starts a connection that another thread may finish before the acceptor's
  thread has replaced it; a signal comes before, during or after anything.
* **Lifetimes and order.** A connection lives as long as an operation refers to
  it; a reply must not change while it is written; the server must outlive every
  handler; shutdown is a chain of waits.
* **Partial input.** Reads cut a request at any byte.
* **Persistence.** The map keeps every setting of the request before.
* **Signals.** They may come before, between and after any two calls of `main`,
  which changes its mask three times, and go to any thread that does not block
  them.
* **Failure.** Reads, writes, accepts fail; a thread cannot be created; a server
  cannot be built; mapnik throws and nothing catches; an option is missing and
  is used all the same.

What makes each part correct is stated by the properties listed with the runs.

## Modules

| Module | Kind | What it is |
|---|---|---|
| `IoServicePool` | component | the pool, and what asio promises about a thread in `run()`; a library of actions without an Init of its own |
| `Server` | composition | pool, acceptor, connections, the accesses to the maps, main's shutdown |
| `PosixMain` | composition | `main` from the command line to the exit status, signals, and the pool's threads |
| `MapLease` | abstract | exclusive leases of maps, which `Server` implements |
| `ConnectionLife` | abstract | the life of a connection, which `Server` and `Connection` both implement |
| `HttpChar` | helper | classes of characters |
| `RequestParser` | component | the parser's table and `consume` |
| `Connection` | composition | a connection with its parser and a client |
| `HttpGrammar` | reference | what a request is and what it means: which positions of the bytes belong to its method, its URI and each name and value, and no state machine |
| `Exchange` | abstract | what a connection promises its client, in terms of the grammar |
| `UrlDecode` | component | `request_handler::url_decode`; a library of actions |
| `UriQuery` | composition | from a URI to `params_`, character by character: decoding, split, grammar, insertion |
| `WmsQuery` | pure | the query's values and their conversions, on tokens |
| `Reply` | pure | replies, the bytes on the wire, and what a client takes off it |
| `RequestHandler` | composition | `handle_request`, one request after the other on one map |
| `ServerProofs`, `ConnectionProofs`, `PosixMainProofs`, `UriQueryProofs`, `RequestHandlerProofs` | proofs | about the module in their name |
| `MeaningProofs`, `ExchangeProofs` | proofs | how the meaning of a request grows with its bytes; that `Connection` implements `Exchange` |
| `Least` | proofs | lemmas about the minimum and the maximum of a set, for the proofs about the grammars and the handler |
| `MCConnection`, `MCPosixMain`, `MCUriQuery`, `MCRequestHandler` | instances | inputs for TLC |

`IoServicePool` is the part that `Server` and `PosixMain` share: they differ in
what surrounds the pool's threads. `Server` has their handlers and a main that
only waits and stops; `PosixMain` has all of main and threads whose handlers are
left out except that one may throw. `ConnectionLife` ties the two models
of a connection: `Connection` shows byte by byte that it is what a connection
does, and `Server` that threads, accepts and shutdown do not change it.

A definition whose name is that of another one with a suffix after an
underscore (`Parse_WholeBuffer`, `GetMapService_Stuck`, ...) is a variation of
it with a plausible bug. It is used nowhere in the specifications; put in the
place of the original it must break the property it is meant for, which shows
that the property depends on the code.

### From the code to `Server` and `IoServicePool`

An `io_service` is an index of the pool's vector and stands for its thread as
well. `thread[i]` is how far that thread is, `running[i]` the handler it is in.
A handler that touches only its own connection is one step (`RunToEnd`); one
that others can observe half-way is a step that begins it, some inside it, and
one that ends it. So `handle_accept` is `HandleAccept` (`start()`) and
`ResetConnection` (`reset` and the next `async_accept`), and `handle_request`
is `HandleReadRequest`, then `SetSrs`, `SetActiveLayers`, `Resize`,
`ZoomToBox`, `Render` for its calls on the map, then `WriteImage`.

Connections are numbered in the order of their creation. A setting of a map is
the number of the connection that wrote it, so "the renderer sees only its own
request" is an equality. `conn_op[c]` is the operation that keeps connection
`c` alive; with none and outside its handlers, `c` is destroyed. What
is read is not modelled here: a read fails, leaves the request unfinished, leads
to a reply without a map, or to a render. `Connection` has the bytes.

`Build` is the preprocessor configuration of `scons_ext/core.py`:
`MAP_PER_IO` (the default), `MAP_REQUEST` (one shared map), or neither.

An exception (`RenderThrows`) ends the thread function and, through
`std::terminate`, the process: `aborted` stops every other action. `Signal` is
`sigwait` returning; `StopNext` is one iteration of `stop()`'s loop;
`JoinAndDestroy` is `t.join()` returning and the destructor of the server.
`SpawnThrows` is a thread of the pool that cannot be created: that exception
leaves `run()` on a thread of its own, so it ends the process too. The shutdown
properties accept `aborted` as an ending: what they exclude is a process that
neither ends nor goes on, not one that dies of an exception, of which the
repository promises only what `RunExitsOnlyWhenStopped` says.

### From the code to `Connection` and `RequestParser`

The bytes of a client are chosen at the start. A read delivers some of those
that are left, up to the size of the buffer; `Parse` is one turn of the loop in
`request_parser::parse`, over what this read delivered only; `ReadAgain`,
`HandleRequest` and `RefuseRequest` are the three branches after it. Every
`case` of `consume` is a set of rules: in this state, on these characters, go
there and add the character to that part of the request. Characters are those
the parser compares with by value and one for each other class it
distinguishes. `http_version_major` and `_minor` are not kept: no code reads
them.

### From the code to `UrlDecode` and `UriQuery`

Characters have their ASCII codes and everything after the decoding is about
bytes. One step of `url_decode` is one turn of its loop, including what
`istringstream >> std::hex` accepts of two characters. `handle_request` decodes
the whole URI before it looks for the `?`, so an escaped delimiter delimits:
`Split` works on the decoded bytes. `FirstPair` and `NextPair` are one `pair` of
the grammar each; its repetitions are greedy and never give anything back, as
in `qi`. `StopParsing` is the end of `qi::parse`, which succeeds wherever it
stops after a first pair. `Insert` is one iteration of the constructor's loop:
a pair without a value gives nothing, and `std::map::insert` leaves a key that is
there alone. What the result should be (`Meaning`) is defined by the parts
between ampersands, each read by itself, and by positions: where a part begins
and ends, how far the longest text at its front that conforms goes, and which of
the parts with the same key is the first.

### From the code to `WmsQuery`, `Reply` and `RequestHandler`

Here a query is the sequence of its parts between `&`s, a value the sequence of
its tokens between commas, and numbers are small integers. `stops` marks where
the grammar meets a character it has no rule for: `qi::parse` succeeds all the
same, and what follows is lost. `Refusal` is the sequence of early returns in
the code's order, `Render` all that comes after them, in one step, because
`Server` shows that nothing comes between on the same map. A map's settings are
the arguments of the calls; `unsigned` has `UnsignedBits` bits. Where the code uses
a value as one string (the format), `Text` makes one of it: the token if there is
one, else a text that no table has. Layer names are compared as in the code, those
of the query in lower case; the repository does not say how they should be.

`Reply` has the table of statuses with their words, the stock replies, and
`to_buffers`. Text is a sequence of tokens, a length counts tokens, and `Decimal`
prints it. Of a
page its heading is kept: that of 204 says "204 Content" (`src/reply.cpp:136`)
where the status line says "204 No Content". `Framed` is a client that looks for the
first empty line and trusts Content-Length.

### From the code to `PosixMain`

`pc` names the part of `main` that comes next, in the order of the file; each
part is one action, with its ways out. The command line is a record: how many
arguments, which flags, whether the file can be read, which options it lacks,
what `threads` and `max_extent` say. `reported` is the set of options that an
error message has asked for, `registered` the directories given to mapnik.

Dereferencing the empty optional of a missing directory is an assertion or
undefined behaviour: the process crashes, or goes on having registered nothing.
The construction of the server fails with no threads, and may fail otherwise (a
map that does not load, a port in use); so may the creation of a thread.

`mask[t]` is what thread `t` blocks; a new thread inherits it from its creator.
`Send` is a signal to the process: a thread that does not block it is killed
with all the others (`killed_by`), and otherwise it stays pending. `SetMask` is
`pthread_sigmask` in main, and delivers what it unblocks.

## Runs

| Run | Instance | Shows |
|---|---|---|
| `server_per_io` | 3 threads, 4 connection objects, default build | `MapConfined`: a map is only given to connections of one thread; `RenderIsolation`: a renderer reads only its own request's settings; `LeaseSpec`: no two requests use a map between the first call and the last; `LifeSpec`: every connection goes through the life of `ConnectionLife`; `HandlerOwnsConnection`, `AcceptsIntoFreshSocket`, `RoundRobinBalanced`, `RunsUntilStopped`, `DestroyedWhenQuiet` |
| `server_live` | 2 threads, 3 connection objects, fair | `ShutdownCompletes`: a signal ends the process; `RequestCompletes`: a request that renders is written and let go |
| `server_map_request` | `MAP_REQUEST`, 2 threads | violated: see Findings |
| `server_throw` | 1 thread, 2 connection objects | violated: see Findings |
| `connection` | 301 inputs, reads of one or two bytes, fair | `ExchangeSpec`: at most one answer, on exactly the first request the grammar finds, and `bad_request` only without one; `LifeSpec`; `NeverWaitsInVain`, `ReplyStaysPut`, `BackIsDefined`, `RequestAnswered` |
| `uri_query` | all URIs of up to 5 of 8 characters, all queries of up to 5 of 9 words | `DecodesValid`: a valid URI is decoded to the bytes it denotes; `ReadAsWritten`: a query means what its parts mean, whatever stands next to what |
| `url_decode_invalid` | URIs of up to 3 characters | violated: see Findings |
| `request_handler` | any sequence of 88 queries, 3 layers | `DrawnAsAsked`: an image shows the layers, srs, size and extent its own query asks for, whatever came before; `EncodedAsAsked`: it has the encoding of the format asked for, by its whole value, and is a PNG if that is none of the server's; `FramedForClient`: a client that knows only HTTP takes every reply off the wire as it was meant |
| `handler_size`, `handler_extent` | the same | violated: see Findings |
| `posix_main` | 2 pool threads, 43 command lines, 4 signals, 3 inherited masks, fair | `StopsInOrder`: once main waits, no signal to stop kills the process, and no thread of the server takes any signal; `NoThreadLeftBehind`: exit status 1 only before there is a thread, 0 only after all are joined; `ReportsAll`: a refused configuration is told of everything it lacks; `ServesOnlyConfigured`; `SignalEnds`: a signal to stop, whenever sent, ends the process |
| `posix_fonts` | the same, 1 pool thread | violated: see Findings |

That `MAP_REQUEST` isolates renders with a pool of one is not a run of its own:
the theorem `RendersAreIsolated` covers it.

### Bounds, and why they are enough

* `PoolSize = 3`, `MaxConn = 4`: the acceptor is on `io_service` 0, the first
  connection on 1, so the fourth connection is on 1 again and shares its map with
  the first, and the third shares `io_service` 0 with the acceptor. Two
  requests at the same time on one `io_service`, on two, and the wrap-around of
  both cursors all occur. The proofs cover all sizes.
* `PoolSize = 2`, `MaxConn = 3` for liveness: two threads to be stopped and
  joined in order, a connection on each.
* `BufferSize = 2`: reads of one or two bytes cut every input at every place,
  and two bytes make a read that spans the end of a request.
* The inputs of `MCConnection` are good and bad request lines, up to two header
  lines from ten (folded, empty, malformed), and ends that are complete, cut
  short, or followed by more; each rule of the table applies to some of them.
* The queries of `MCRequestHandler` are one that renders and its variants with
  one or two parts replaced, repeated, without value or cut off.
* `UnsignedBits = 4`: -1 becomes 15, a size none of the queries names.
* `MaxLength = 5`: an escape next to a second, incomplete one, and every pair
  of characters inside an escape. `MaxWords = 5`, over the words `f=`, `F`, `0`,
  `-`, `+`, `=`, `&`, `%26` and `?`: two pairs with the same key in either case,
  an empty and a missing value, two ampersands, and a byte that the grammar has
  no rule for in every place of a pair. The proofs cover URIs of every length.
* In `PosixMain`, `PoolSize = 2`: a thread created while another one runs, and
  two to be stopped and joined. The command lines are a complete one of each kind, each
  with one thing wrong, and files that lack any one or two of the seven options;
  the masks it inherits are empty, or hold SIGHUP, which main does not wait for,
  or that and SIGTERM, which it does. A signal may be sent at every step.

No run turns deadlock checking off: a state without a successor is modelled as
an explicit step (`Terminated`, `Gone`, `Done`).

### Fairness

Threads that can run do: `run()`, `stop()` and `join()` go on, a thread whose
`io_service` is stopped leaves `run()`, a request that is being handled
reaches its end (unless it throws). The end of a write is assumed under strong
fairness: it is enabled only between two handlers of its thread, but an
`io_service` runs its handlers in the order in which they became ready, so others
cannot overtake it for ever; that a write ends at all, with the client taking the
reply or breaking the connection, is an assumption about clients, as the code
has no timeouts. Nothing is assumed of reads, accepts, signals or exceptions:
the properties do not need a client to send, or a signal to come. In
`Connection` the client sends everything it has; it need not, and a read may fail
instead. In `PosixMain` threads that can run do, and the I/O of the start-up
returns, with success or without; nothing is assumed of signals or failures.

## Proofs

`ServerProofs` proves, for every `PoolSize`, `MaxConn` and `Build`:

* `TypeCorrect`, `HandlersOwnConnections`, `SocketsAreFresh`,
  `ThreadsRunUntilStopped`, `DestructionIsQuiet`, `MapsAreConfined`: the
  invariants of the run `server_per_io` with these names' properties;
* `RendersAreIsolated` and `ImplementsLease`: isolation of renders and the
  refinement of `MapLease`, assuming `OneThreadPerMap` (the default build, or a
  pool of one). The run `server_map_request` shows that the assumption is needed.

All follow from the inductive invariant `IInv` of module `Server`. `MapConfined`
alone is not inductive: it says nothing of the cursors. `CursorsInStep` does:
the connection's `io_service` is always the successor of its map's index, because
`get_io_service` was called once more, for the acceptor. From it two requests on
one map are on one `io_service`; `HandledOnOwnThread` says that a request being
handled is the handler its thread is in, and a thread is in one handler; so they
are the same request (`OneRequestPerMap`). `SettingsStay` then adds what
each stage has set. `ThreadsInOrder` (threads are joined only when they have
returned, handlers run only on running threads) gives `DestroyedWhenQuiet`;
`FreshUntilAccepted` gives `AcceptsIntoFreshSocket`. Each conjunct has a lemma
with one step per action. The refinement is a step lemma (`LeaseStep`): a request
acquires its map when `HandleReadRequest` begins, releases it in `WriteImage`,
and every other step stutters.

`ServerProofs` also proves `LoadIsBalanced` (`RoundRobinBalanced`): by
`LoadFollowsCursor`, the `io_service`s between the acceptor's and the cursor have
one connection more than the acceptor's, all others as many; a new connection
is placed on the first of those others, and the cursor moves past it. `ImplementsLife` is the refinement of `ConnectionLife`, with
one step per action that moves a connection; `ConnectionProofs` has the same
theorem for the byte level, where the phase is read off the outstanding operation.

`ConnectionProofs` proves, for every set of inputs and every buffer size,
`TypeCorrect`, `BackIsAlwaysDefined` and `RepliesStayPut`. The table of rules is
shown to be good once, as data: a rule that adds to the last header starts in a
state that needs one, and such a state is entered only from another, by adding a
header, or if there is one.

`ExchangeProofs` proves `NeverWaits` (`NeverWaitsInVain`) and
`ImplementsExchange` (`ExchangeSpec`), again for every input, every buffer and
every way to cut the input into reads. The core of the invariant `EInv` is
`AsTheGrammarReads`. It gives each of the parser's 20 states the shape of what has
been consumed of the current line, in the words of the grammar; from it a rule
of the table leads to the next shape (one lemma for the request line, one for
the version, one for the headers), the LF that the parser takes for the end is
where the grammar ends a request, and no state refuses a character with which
the grammar can still go on (`...GoesOn`), so `bad_request` is never given to a
client that sends a request. It also says that the request so far is the meaning
of the bytes so far. For this `Meaning` is defined by positions,
because what the grammar says of a position does not depend on what comes after
it: `MeaningProofs` shows that `Meaning(s, n)` is `Meaning(s, n - 1)` with at most
one character added, at the end of the part to which position `n` belongs, and
`RuleBelongs` that the table adds it there.

`PosixMainProofs` proves `TypeCorrect`, `SignalsReachMain` (`StopsInOrder`),
`ThreadsAreJoined` (`NoThreadLeftBehind`), `ReportIsComplete` (`ReportsAll`) and
`ConfiguredInFull` (`ServesOnlyConfigured`) for every size of the pool, every
set of command lines and signals and every inherited mask, from the inductive
invariant `MInv`. `ConfigInStep` relates `reported`, `registered` and
`config_errors` to the options asked for by the time main comes to `pc`.
`MasksInStep` follows the full mask through two generations: from main, which
has it while it creates `t`, to `t`, to the pool's threads, which may be created
after main has long restored its own. `ThreadsInStep` says who has been created
and joined.

`UriQueryProofs` proves `TypeCorrect`, `ValidIsDecoded` (`DecodesValid`) and
`QueryIsReadAsWritten` (`ReadAsWritten`) for URIs of every length. The positions of a URI that are not inside an escape are
the leading ones; `DecodedSoFar` says that the bytes written so far belong to the
leading positions passed so far, and that the loop stands on the next one. That
is preserved by a turn of the loop, whether it takes one character or three, and
at the end of a valid URI it is the definition of its decoding.

For the query the invariant is `QInv`. `ParsedSoFar` says that there are places
`st[1] < st[2] < ...` where parts begin, every one up to the last of them among
them, that pair `j` is what the grammar reads at `st[j]`, and that every part but
the last conforms to its end. A pair of the grammar is the longest text at its
place that conforms (`PairIsLongest`), so the greedy repetitions read what the
reference reads (`PartRead`), and the next ampersand is the end of the part only
if all of it was read (`PairParsed`). Where `qi::parse` stops, the reference
reads no further part either (`NoneBehind`). `InsertedSoFar` says that the map
has the keys of the pairs looked at, each with its first value.

`RequestHandlerProofs` proves `TypeCorrect`, `FormatIsAsAsked` (`EncodedAsAsked`),
`ImageIsAsAsked` (`DrawnAsAsked`) and `ClientReadsReply` (`FramedForClient`) for every set of queries and of layers. The
invariant `HIInv` needs no history of the map, although the map keeps every
setting: `Render` writes each setting that the renderer reads anew, from its own
query, which is what makes the requests independent of each other. For
`ClientReadsReply` every reply that is made (stock, page, image) is shown to be
framed: no header holds a line end, so the first empty line ends the headers,
even before an image whose bytes have one, and what follows is as long as
Content-Length says.

The assumptions, which TLC evaluates on every run of the module: a pool has at
least one thread; there is a connection and a build of the three; a buffer is
not empty; inputs and URIs are sequences of known characters; command lines are
well-formed and the three signals main waits for exist (`PosixMainAssumption`);
queries are sequences of parts, no token of a value is a line end (a value
consists of the bytes of the grammar's rule, `src/uri_grammer.hpp:45`), and every
layer of the map has a name (`HandlerAssumption`: the code takes an empty name for
no name).

Only model-checked: liveness (`ShutdownCompletes`, `RequestCompletes`,
`RequestAnswered`, `SignalEnds`), which needs ENABLED and so is out of the
prover's reach. Every invariant and every action property of a passing run, and
every refinement, is proved for every value of the constants: `RenderIsolation`
and `LeaseSpec` of the server under `OneThreadPerMap`, which they need.

## Findings

* `server_throw`: an exception in a handler (allocation, rendering, encoding)
  leaves the thread function and terminates the process; the comment on the work
  objects (`src/io_service_pool.cpp:61`) says that `run()` exits only when
  stopped.
* `server_map_request`: the `MAP_REQUEST` build is offered for a shared map
  (`scons_ext/core.py:38`), but srs, layers and size are still set on that map.
* `handler_size`: `width=-1` passes the check that "width and height must be > 0"
  (`src/request_handler.cpp:186`).
* `handler_extent`: `max_extent` limits nothing (`config.json:27`).
* `url_decode_invalid`: `%4g` and `%-4` are decoded although
  `src/request_handler.hpp:72` says that false is returned.
* `posix_fonts`: without `fonts` or `plugins`, main reports the option and then
  dereferences it all the same (`src/posix_main.cpp:260`, `:279`), before it
  looks at `config_errors`; `config.json:6` and `:9` call both required.

## Not modelled

* `win_main.cpp` calls a constructor that does not exist: there is no such
  program.
* `compatibility.hpp`, the build files apart from the two macros, the scripts
  and the demo have no state and no operation.
* `extension_to_type` (`src/mime_types.cpp`) is never called, nor is
  `reset()` of the parser.
* What mapnik draws and encodes; resolving, binding and listening, except that
  the construction of a server may fail.
* What is printed, apart from which options an error message asks for: the
  warning about fonts (`src/posix_main.cpp:145`), the line
  "ready: listening on", which precedes the construction of the server
  (`:297`), and log lines. Nothing in the repository says what they promise.
* Layout of the pages, and numbers other than small integers in a query: the
  conversions of `atoi` and `strtod` beyond sign and truncation.

## State of the development

Every component of the inventory that has state is modelled, each with its
composition: parser and connection, connections and pool, decoding and query,
handler and reply, main and pool. All safety properties of the passing runs
are proved, and liveness is model-checked.

What could come next: `handle_request` as one composition of `UriQuery` and
`RequestHandler`, with the tokens of `WmsQuery` defined from the bytes, so that
`ReadAsWritten` and `DrawnAsAsked` become one theorem; and for liveness, the
safety half of the argument: the invariants by which each of the fair steps
is enabled until it is taken.
