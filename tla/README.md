# Verification of web++

TLA+ models of the parts of web++ (`src/webpp`) that keep state between calls
or run concurrently, and of the readers and writers of text that decide what a
request means; the TLC configurations that check them on small instances, and
TLAPS proofs of theorems about them for every value of their constants.

Paths below are relative to `src/`; `beast_server.hpp:371` is short for
`webpp/beast/beast_server.hpp:371` where the directory is clear.

    tlc -workers 2 -config MCBeastServer.cfg MCBeastServer.tla   # a run
    tlapm BeastServerProofs.tla                                  # a module of proofs

## 1. The system

web++ is a header-only web framework: a *protocol* (Beast server, CGI,
FastCGI) receives requests and calls an *application*, usually a *router*
built from *valves*; requests and responses carry *headers* and a *body*;
around them are libraries: storage and caches, views, URI, unicode, IP,
databases, conversion.

| component | state it keeps | operations | interacts with |
|---|---|---|---|
| **Beast server** (`beast/beast.hpp`, `beast_server.hpp`) | list of `http_worker`s, each with an optional stream, buffer, parser; round-robin iterator; two mutexes; `io_context`; signal set | `operator()`, `async_accept`, `start_work`/`next_worker`, `async_read_request`, `call_app`, `async_write_response`, `reset`, `stop` | the application (a call under an optional mutex); Asio (completion handlers on several threads) |
| **cache, LRU strategy, memory gate** (`storage/cache.hpp`, `lru_cache.hpp`, `memory_gate.hpp`) | map of key to value and stamp; the next stamp | `get`, `get_ptr`, `set`, `emplace_get`, `emplace_get_ptr`, `operator[]` and its `cache_result` | the view manager keeps its templates in one |
| **directory gate** (`storage/directory_gate.hpp`) | one file per entry, shared with other processes, outliving this one | `get`, `set`, `set_options`, `erase_if`, iteration | the same LRU strategy; the file system |
| **dynamic router and valves** (`http/routes/`) | the list of routes; per request a context: path, traverser, response | operators `/ % >> - + * \|\| &&`, `+=`, `operator()(request)` | the protocol calls it; member functions and lambdas of the user |
| **static router, disabler, methods** (`http/routes/`) | a tuple of routes; a flag | fold over the routes, enable/disable | as above |
| **bodies** (`http/body.hpp`) | a variant of text, binary stream, C stream communicators | read, write, append, size, conversion | request and response; serialisers |
| **task manager** (`concurrency/task_manager.hpp`) | a queue with mutex and condition variable per thread; a round-robin index | `push`, `try_push`, `pop`, `try_pop`, `done`, `async_` | threads of the pool |
| **debounce** (`utils/debounce.hpp`) | a thread per call, time points | call, cancel; leading, trailing | threads |
| **async and io_uring** (`async/`, `io/`) | callback slots, submission queue | `set_callback`, `call_callback`, the loop | the kernel |
| **URI** (`uri/uri_string.hpp`, `uri/*.hpp`) | an object: the text and seven offsets that const getters fill in; the parsers: a place in the text and the parts found so far | `parse_uri` and a parser per part; getters, setters, `normalize`; percent-encoding | IP parsers for hosts; the path traverser of the router |
| **IP addresses** (`ip/`) | octets and a prefix | `inet_pton4/6`, `inet_ntop4/6`, `parse`, subnets | URI hosts, validators |
| **unicode** (`unicode/`) | none; works in place on code units | `next_code_point`, `swap_code_points`, `canonical_reorder`, compose, decompose, `normalize` | generated tables |
| **mustache view** (`views/mustache_view.hpp`) | the tree of a template; while rendering a line and a context | `parse`, `render` | its manager keeps templates in an LRU cache |
| **cookies** (`http/cookies/`) | a cookie's fields and attributes; jars | parsing of Cookie and Set-Cookie | headers |
| headers, codec, IDNA, strings, conversion, base64, time, validators | none between calls | parsers and formatters over characters | |
| database, sockets, CGI, FastCGI, JSON, logs, memory, traits, std, extensions | driver handles | wrappers of libraries and system calls, type-level code | |

### What is hard in it

* *Beast server.*  Completion handlers of all connections run on
  `hardware_concurrency() - 1` threads.  A strand keeps those of one
  connection apart (`beast.hpp:74`), none protects the list of workers.  The
  worker that will
  serve the next connection is chosen during the previous accept
  (`beast_server.hpp:361`), by a busy wait on other workers' state (`:374`)
  that only other handlers can change; the state it reads is an unlocked
  `std::optional`.  Timeouts, errors, a throwing `start_work` and SIGINT may
  arrive at any point.  It is correct if no live connection is ever replaced,
  no socket and no worker is lost, a handler always has its stream, the
  application is entered by one thread at a time when `synced`, each
  connection gets its own response, accepted connections end, and a shutdown
  completes.
* *Caches.*  The strategy never counts entries: it compares stamps
  (`lru_cache.hpp:42`), so that the size bound, the order of eviction and the
  survival of the entry just stored are all arithmetic on stamps that lookups
  use up too.  Over the directory gate a call is several file system
  operations; other processes act in between, each of them may fail, and a
  process may die between any two of them and starts counting again at 1.
* *Routing.*  What a route does depends on how a chain of overloaded operators
  flattens, rebinds and groups it (`valves.hpp`), and the routes of one
  request share one context.  It is correct if the first registered route
  whose parts hold for the path answers, whatever the way it was written.

* *Queue.*  Producers notify after they have released the mutex, `try_lock` may
  fail while somebody else holds it, waits end for no reason, and `done` may
  come at any time.  It is correct if it cannot be told from an atomic channel
  and nobody sleeps beside an item or after `done`.
* *Texts.*  The parsers walk over the text once and find out late what they
  have read: an `@` turns a host and port into a user and password, a dot a
  group of hexadecimal digits into an IPv4 tail, an end tag a line into one
  that is not printed.  A URI object answers from offsets that earlier
  questions left behind.  Unicode's canonical order moves code points of
  different lengths in place.  They are correct if what they say a text means
  is what a declarative definition of the format says.
* *Bodies.*  A response may be filled through three interfaces (text, bytes,
  stream), read and served more than once, with a Content-Length written
  before the last change.

`PROJECT.json` lists the hazards line by line with the properties that would
catch each, or why none does.

## 2. The modules

    BeastServer ---- MCBeastServer (5 cfgs)       LruContract
         |                                            ^  refinement
    BeastServerProofs                              LruCache ---- MCLruCache (2 cfgs)
         |                                             |
    BeastAnswersProofs                             LruCacheProofs

    DirectoryCache ---- MCDirectoryCache           Channel
         |                    |                       ^  refinement
    DirectoryCacheProofs      |                    NotificationQueue ---- MCNotificationQueue
         |____________________|                        |
    MCDirectoryCacheProofs                         NotificationQueueProofs

    Valves <- Routing <- MCRouting (2 cfgs)

    Ascii <- Ip <- Uri                      \
      ^---- Mustache, Cookies                \
      ^---- Percent <- UriString              > MCTexts
      ^---- UtfText <- Unicode               /
    Percent, UtfText <- TextReading         /
    Response                               /
       ^---- ResponseProofs <- TextsProofs -> UriString, TextReading

`<-` is EXTENDS or INSTANCE by the module on the right; `TextsProofs` extends
the modules it has theorems about.

### BeastServer

One state machine for the server, its runners (the threads inside
`io.run()`), its workers, the clients and the user who sends a signal.  A
handler is split where another runner can see or change what it uses.

| variable | in the code |
|---|---|
| `pc`, `hnd` | where each runner is, and the worker whose handler it executes |
| `acc`, `accConn` | the one chain of accepts: posted, armed, ready, in its handler; the socket it was given |
| `worker`, `lock` | `thread_worker::worker`, `worker_mutex` |
| `appLock` | `app_call_mutex` |
| `stream`, `buf`, `parser` | the members of `http_worker` |
| `dying` | the destructor of the worker's stream is executing |
| `op` | the asynchronous operation a worker waits for, or its outcome |
| `stopped`, `signal` | `io.stopped()`, the single `async_wait` of the signal set |
| `cst`, `inbox`, `nsent`, `answers` | the clients' side: external |

| action | in the code |
|---|---|
| `Boot`, `Leave` | `beast::operator()`, `get_thread` |
| `RunPosted`, `async_accept`, `RunAccept`, `StartWorkThrows` | `beast::async_accept` and its lambda |
| `start_work`, `next_worker`, `start` | `thread_worker::start_work`: the lock and `set_socket`; one turn of the search; `worker_ptr->start()` |
| `RunRead`, `call_app`, `AppReturns`, `async_write_response` | the lambda of `async_read_request`, `call_app`, `make_beast_response`, `async_write_response` |
| `RunWritten`, `reset`, `Disengage`, `Destroy` | the lambda of `async_write_response`, `reset()`; `stream.reset()` clears the flag, then destroys the value |
| `RunSignal`, `StopIo`, `StopTest`, `StopCancel` | the signal handler: `io.stop()`, then each worker's `stop()` |
| `ReadParse`, `ReadSome`, `ReadFails`, `WriteSucceeds`, `WriteFails`, `Accept` | Asio and Beast as the handlers see them: external |

Data is abstract: a request is a sequence of pieces of a byte stream tagged
with the connection that sent them, and only its last piece ends it.  This is
enough to tell whose bytes are answered where.

Two things the model shows about the code's shape: of `N` workers `N - 1`
serve at a time, because the accept handler gives the socket to a worker but
starts it only once it has found the next idle one; and an exception of
`start_work` ends the accept chain for good.

### LruCache and LruContract

`LruContract` is what a cache promises: it may forget entries, oldest use
first, never the one just stored, never more than asked for room left over
`max_size`; a lookup returns what was stored last and changes no value.
`LruCache` is the code: the memory gate's operators (`GateSet`, `GateGet`,
`GateSetOptions`, `GateEraseOlder`), the strategy's (`CleanUp`, `LruSet`) and
one action for every call of `cache`, of its strategy and of `cache_result`.
`ImplementsContract` is the refinement: `held` is the map without its stamps
and `before` compares the stamps.  `TrivialMove` tells value types that a move
leaves alone (`int`) from those it empties (`std::string`), because
`memory_gate::get` moves out of the map (`memory_gate.hpp:42`).

The contract lets the cache forget early.  It has to: a lookup uses a stamp up
(`lru_cache.hpp:79`), so an entry goes when `max_size` *uses* of others have
passed, though the cache has room.

### DirectoryCache

The same strategy over files, one file operation a step.  What belongs to a
process (`next_usage`, `pc`, `task`, `write`, `at`, `fd`, `size`, `todo`,
`call`) is lost when it dies (`Restart`), the files are not.

| variable | in the code and the file system |
|---|---|
| `dir`, `disk` | which file a name has, and the contents of the files it has had: who has a file open keeps it when the name is removed |
| `next_usage` | `strategy::next_usage` |
| `pc`, `task` | where a process is, and what it reads or writes for: `set`, the lookup of `get`, its `set_options`, or `erase_if` |
| `write` | the bundle that `set` will serialise |
| `at`, `fd`, `size` | the name and the file that are open; the size `read_to` has asked for |
| `todo` | what the directory iterator has still to visit |
| `call` | the key looked up and what was found |
| `clashed`, `failed`, `missed`, `everSet` | history: names whose file was open twice, once for writing, or was not read to its end; has a file not been read; has the last `clean_up` passed over a file; what was set |

| action | in the code |
|---|---|
| `set`, `Open`, `OpenFails`, `WritePart`, `Write` | `strategy::set` takes the stamp; the gate's `set`: the `ofstream` truncates, then writes at its own offset, in one or two writes; `Write` may lose what it writes, as errors are not looked at |
| `get`, `OpenToRead`, `ReadFile`, `ReadPart`, `CannotRead` | `has`, then `read_to`: open and ask for the size, then fill a buffer of that size; a read that breaks off leaves zeros |
| `has`, `HasThrows` | `set_options`, a second `has` and `get` followed by a `set` |
| `clean_up`, `ScanFile`, `Remove`, `RemoveFails`, `ListFails`, `ScanDone` | `clean_up` and `erase_if`: a list of names, `get_file` for each, `fs::remove` by name |

`LookedUp`, `ReadAgain` and `Scanned` are what the three callers of `get_file`
do with what it read.  Keys are not compared.  Contents are sequences of cells
cut where a write may end: a header (key and stamp with their newlines), one or
two pieces of a value, zeros.  Headers are taken to be of one length, so that
what one writer leaves behind the header of another is a piece of a value and
not a part of a number; exceptions for want of memory are left out.

### Valves and Routing

`Valves` has the operators an application writes routes with (`Slash`,
`Percent`, `Shift`, `Minus`, `Plus`, `Star`), each with the flattening and
rebinding of its overloads, and `Call`, what a valve does to a context.
`Routing` is the dynamic router: `Write` applies one more operator to the
route being written, `Register` is `+=`, `Receive` is a request, `CallRoute`
one turn of the loop, `NotFound` the error at its end.  The history variables
`written`, `chain` and `asked` keep what was written and requested; from them
`Meaning` says, by positions in the written chain and without building a
valve, what the reply must be.  The user's code is drawn from a handful of
handlers that between them return every kind of result the router
distinguishes: a text, an optional and a pointer with and without a value (a
string literal is a pointer, and counts as positive), a bool, a status, and
nothing after changing the context.

### NotificationQueue and Channel

`NotificationQueue` is `notification_queue` of `concurrency/task_manager.hpp`:
`q`, `done` and `mutex` are `_q`, `_done` and `_mutex`; each thread is idle,
wants the mutex, holds it, sleeps in `_ready.wait`, or has released the mutex
and is about to notify.  `Lock` and `TryLockFails` are the two outcomes of
taking the mutex, `Emplace`, `SetDone`, `Take` and `ReturnFalse` the bodies
under it, `notify_one` and `notify_all` wake sleepers, `SpuriousWakeup` wakes
one for no reason.  `Channel` is what it promises: a sequence that grows at one
end and shrinks at the other, and turns takers away only when closed and empty.
(`try_pop` may also come back without anything; it leaves what it was given
alone, which the channel cannot see.)

### The readers and writers of text

Characters are numbers, texts are sequences, as in the code.  A module has the
operators of the parser, named as in the code, and the definition of the
format that the parser is compared with; the two share no operator but the
character classes of `Ascii`.

| module | code | compared with |
|---|---|---|
| `Ip` | `inet_pton.hpp` (one operator per branch of the loop over characters), `inet_ntop.hpp`, `parse` and `string` of `ipv4.hpp`, `ipv6.hpp` | lists of canonical octets and of groups of at most four digits with at most one gap |
| `Uri` | `parse_uri` with the default options: `scheme`, `authority`, `credentials`, `host_ip`, `port`, `path`, `queries`, `fragment`, for both stores of parts, views and 32-bit offsets (`uri_components.hpp`) | the regular expression of RFC 3986, appendix B, with the authority split at its last `@` and the port; the numbers of an IPv4 address |
| `UriString` | `uri_string.hpp`: the text and the seven mutable offsets; a getter or setter is an action | the parts the object was put together from, changed by each setter |
| `Percent` | `encode_uri_component`, `decode_uri_component`, the character sets | decoding undoes encoding |
| `UtfText` | UTF-8 code points forwards and backwards, `swap_code_points` with the `swap_ranges` and `rotate` it calls | encoding of code points one after the other; the text with two code points exchanged, encoded anew |
| `Unicode` | `canonical_reorder`, composition, Hangul; tables are constants | stable sort by class between starters; equivalent texts have one normal form |
| `Mustache` | `parse` with its stack of open sections, `render` line by line, contexts, partials, escapes | cancellation of matching tags; the lines that the sections around them let through, with truth values as `is_false` has them |
| `Cookies` | `parse_SE_name/value`, the request jar, `parse_set_cookie` and its attributes | pieces between semicolons, cut at `=` |
| `Response` | the three communicators of `body.hpp`, `response.add/set`, default headers, and what `beast_server.hpp` and `cgi.hpp` send | a variable that remembers what the application has written |

`TextReading` has the state of a reader: a text that grows by pieces, and what
the readers of percent-encoding and UTF-8 promise of it; the constant `Readings`
has the pieces of every reader, and MCTexts makes the other readers grow the
same way.  `Ascii` defines `Chain(ps)`, the texts a loop has written after each
of the parts `ps`: the writers (`encode_uri_component`, `append`) are its last
text, and the theorems speak of the ones before.

The declarative side covers the texts whose reading the formats fix.  Where the
parsers do something else the property excludes those texts by name
(`WellFormed`, `LooksLikeIpv4`, `PathCutOff`...) and section 5 lists them.
Where the code reads memory it does not own (the two arrays of `cookie.hpp`
that are searched as C strings, `:152`, `:173`) what is read is a constant.

## 3. What the runs check

| run | instance | shows |
|---|---|---|
| `beast_safety` | 3 workers, 2 runners, 3 connections, one piece each, signals and a throwing `start_work`, synced | the reserved worker is idle whenever it is used; every accepted socket has exactly one owner; a handler has its stream to itself; no worker is lost; the accept chain neither forks nor breaks but by an exception; `enable_sync` excludes |
| `beast_pipelining` | 2 workers, 3 connections, the first client sends two pieces, signals | when a worker serves again: one response per connection; bytes of another connection are answered only in front, and only if their client sent more than one request, or one in parts of which a timeout or a disconnect cut off the rest; streams end only by their own `reset` |
| `beast_progress` | 2 workers, 2 connections, signals, fairness | accepted connections end unless the server is stopped; on shutdown every runner leaves, or searches for an idle worker |
| `lru_memory` | 3 keys, 2 values, `max_size` 2, 7 uses, values a move leaves alone | distinct stamps, the size bound, the refinement of `LruContract` |
| `dir` | together: 2 processes, 1 key, 2 values, one of them long, 2 stamps each, `max_size` 0; alone: 1 process, 3 keys, 1 value, 4 stamps, `max_size` 2, one death; any operation may fail | together: whatever is interleaved, a lookup returns the beginning of a value set for the key (all of it, a part, nothing), unless two had the file open at once, one of them for writing, or a read broke off: then a mixture of pieces of such values and zeros.  Alone: a lookup returns a value set for its key, also after a death; an empty or damaged one only after a read has failed.  Until the process dies, stamps are distinct at every step, and the size bound holds between calls unless the last `clean_up` could not list, read or remove a file |
| `queue` | 3 threads, 2 items, fairness | no sleeper is forgotten beside an item or after `done`; the refinement of `Channel`; every thread in `pop` leaves it after `done` |
| `texts` | every text of up to 4 to 8 pieces per reader, one setter and every order of getters, three characters of a body | the readers and writers against the definitions of their formats (table above) |
| `routes` | 2 slugs, paths of up to 2, 2 routes, 4 operators in all | every way to write the routes gives the reply of the first route whose parts hold |
| `beast_leftover` | as `beast_pipelining`, whole requests, no signal | *violated*: a response made of another connection's bytes (`buf` survives `reset`) |
| `beast_shutdown` | as `beast_progress`, not synced | *violated*: a runner searches an idle worker for ever after `io.stop()` |
| `lru_get_moves` | values that a move empties | *violated*: the second lookup finds an empty value |
| `routes_readme` | the routes of the README's first example | *violated*: a request for `/about` gets the 404 |

The four violations are the `findings` of `PROJECT.json`, each with the line
of the code and the sentence it disagrees with.  For two of them the passing
runs state what the code does guarantee instead (`ForeignBytesAreLeftovers`,
`ShutdownUnlessSpinning`).

### Bounds

* *Beast.*  Two workers serve one connection at a time, so `beast_safety` has
  three: two connections in service while a third has its worker and waits for
  the next idle one.  It uses no worker twice; `beast_pipelining`, with two
  workers and three connections, does.  (Four connections on three workers, both
  at once, sending whole requests, hold too, in a run too long to keep.)  Two runners
  make every pair of handlers overlap; every safety property relates at most
  two runners.  Requests arrive whole or in pieces, one piece per connection
  in `beast_safety`, two on the first in `beast_pipelining`.  Connections that
  behave alike are symmetric in the safety runs; the runs with liveness use no
  symmetry.
* *Caches.*  `MaxUsage` bounds the stamps of a run.  With `max_size` 2 and
  three keys, entries are evicted, stored again and evicted again within
  seven stamps; `clean_up()` depends on differences of stamps only.  In
  `dir`, together, `max_size` 0 makes every `clean_up` remove what is older
  than its own entry, and two stamps each let both processes write, read, write
  back and remove the one file at every offset of the other; no process dies
  there, because a torn file is already left by a write that fails, and the
  theorems cover any number of deaths.  Alone, values are written at once and
  four stamps fill the directory, evict and write again; one death is enough,
  since a second one starts from the same counter.
* *Routing.*  Four operators over two routes and paths of up to two segments
  reach every branch of the overloads after every kind of operand to their
  left, a first route that fails half way, and a path longer than a route.
* *Queue.*  Three threads make a notifier, a sleeper and a third that overtakes
  it; two items make one notification too few or too many matter.
* *Texts.*  A text grows by pieces, a character or a run of characters that
  takes a parser as a whole into a branch (`[::1]`, `%41`, `{{#a}}` and its line
  end, 256, a prefix), from starts that take it past its first groups.  Each
  branch of the parsers is reached by a text of at most the bound, and every
  order of two neighbouring pieces occurs; longer texts repeat loops that keep
  no more than the place, the parts and, for addresses, the number of groups.
  The URI object starts from 302 URIs and takes one setter and every sequence
  of getters; a second setter would start from a text the first one made and
  from the empty offsets it left.  The tables of `Unicode` have marks of four
  classes, two of them equal, a chain of two compositions and Hangul.

### Fairness

`FairSpec` assumes that a runner inside a handler goes on (the operating
system schedules threads; the application returns), that a ready handler is
eventually run if runners keep coming for work (strong fairness per handler,
because the queue of `io_context` is first in, first out), and that an
operation on a stream ends (Beast's timer, set before the read, ends it with an
error).  A client need not connect, send or close; the user need not send a
signal.  `AcceptedEnds` depends on a second runner: with
`hardware_concurrency() = 2` the only one searches an idle worker in
`next_worker` while the handler that would free one waits for it.

The queue's `FairSpec` assumes that a thread that holds the mutex or is about
to notify goes on, and that one that finds the mutex free again and again gets
it in the end (strong fairness of `Lock`).  Nobody need call anything, and
nobody need wake for no reason.

## 4. What is proved

`BeastServerProofs` (any number of workers, runners and connections, any
clients, synced or not; assumption: `BeastAssumption`, which only says what
kind of values the constants are and that there is at least one worker and one
runner):

* `TypeCorrect`, `ReservedWorkerIsIdle`, `HandlersOwnTheirStream`,
  `SyncedAppIsExclusive` for the invariants of the same meaning, and
  `StreamsEndByReset` for the action property `StreamReplacedOnlyByReset`.
* `HandlersOwnTheirStream` says more of a single runner (`Hardware = 2`):
  `OneRunnerOwnsAll`, that no stream is built in a worker whose last one is
  being destroyed, and that none goes between `stop()`'s test and its cancel.
  With more runners both happen (`beast_server.hpp:127`, `:315`), so that
  `HandlerOwnsStream` alone is what holds of them.
* None is inductive alone.  `IInv` joins them with `OneAcceptHandler` (at most
  one runner is in the accept handler, and then no accept is armed: without it
  two runners could search at once), `SocketAtHand` (the socket to hand over
  is there), `AppLockHeld` (who is in the application holds the mutex) and
  `ClosedBeforeDestroyed` (`reset` has closed what it destroys).  The reserved
  worker is the interesting one: it is idle when `next_worker` leaves the loop,
  and stays so because only `start_work` fills a stream, it fills the reserved
  one, and it moves to the search in the same step.
* There is one lemma per conjunct over all actions (`AcceptStep`,
  `SocketStep`, `AppLockStep`, `ReservedStep`, `HandlerStep`, `ClosedStep`,
  `TypeStep`), and `StreamStep` for the action property.  `Halves` and
  `NextStopTypes` are facts about sequences and operators used in them.

Its second half, on the sockets, and `BeastAnswersProofs` (the same generality,
the same assumption) prove the other invariants of the server:

* `AcceptedSocketsOwned`, `NoWorkerIsLost` and `AcceptChainHolds` state
  `OpenSocketsOwned`, `BusyWorkerProgresses` and `AcceptChain`.  They are
  inductive together and not apart: `SInv` joins `IInv`, the first two and
  `ChainKept` (a socket that was accepted waits for its handler or is in a
  runner's hands; the chain is off only before the start, after the end or
  after a throw).  A socket is handed on by two actions, `start_work` and
  `reset`; ownership holds there because the worker given the socket is idle
  (`ReservedWorkerIdle`) and the one reset has closed it
  (`ClosedBeforeDestroyed`).  `Owned` and `Apart` cut `OpenSocketsOwned` into
  the part about each connection and the part about two workers.
* `AnsweredOnce` states `AtMostOneAnswer`.  Its strengthening `Unanswered`
  says that a connection not yet accepted, in the accept handler, or with a
  worker that has still to write, has no answer; that is kept because no two
  workers share a connection and a closed one never comes back.
* `ForeignBytesAreLeftoversOnly` states `ForeignBytesAreLeftovers`.  `reset`
  renews the parser but not `buf`, so the invariant `PiecesInv` follows the
  bytes: all a worker holds, `All(w)`, the parser's bytes before the buffer's,
  came from connections it was given and no other worker has (`Origin`);
  foreign bytes stand before own ones (`ForeignFirst`); the end of a request
  stays in the buffer only behind an unfinished piece, or if its client sent
  more than one request, or until the read under way takes it (`Leftovers`);
  so a parser that starts with foreign bytes starts with such a leftover
  (`ParserStart`).  `ParserFresh`, `InboxOwn`, `ParserFed` and `StopsLast` say
  when a parser is empty and that what arrived was sent.  Seven actions move
  bytes (`PieceMoves`); each invariant has a lemma over those, every other
  action is `Quiet`.  `Cut`, `Joined`, `Held` and `Fed` are the facts about
  concatenation and prefixes.

`LruCacheProofs` (any sets of keys and values, any `max_size`, moves of either
kind; assumption: `LruAssumption`):

* `TypeCorrect`, `StampsAreDistinct`, `SizeBounded`.
* `Good(map, n)` says that stamps are distinct and smaller than `n`.  The size
  bound follows from it: `FewStamps` shows that entries with distinct stamps
  of an interval are at most as many as the interval has members, and after
  `clean_up()` all stamps lie in the last `max_size` (`StoreAndCleanUp`).
  Lookups keep the bound because they add no entry.
* The operators have lemmas of their own (`Touch`, `MoveOut`,
  `StoreAndCleanUp`), each action one lemma that cites them.

It also proves the refinement: `TrivialMove => (Spec =>
ImplementsContract)`.  The hypothesis is the value type that a move leaves
alone.  Without it the run `lru_get_moves` shows a lookup that changes a value;
with it `LookupsKeepValues` shows that none does.  The proof maps each call to
a lookup, a store or a modification of the contract, and needs the distinct
stamps: only then does comparing them give an order in which the
entries `clean_up()` removes come first (`Orders`, `TouchIsUse`).

`NotificationQueueProofs` (any finite set of threads, any items; assumption:
`QueueAssumption`):

* `TypeCorrect`, `MutexExcludes`, `WakeupsAreKept` (the property
  `NoLostWakeup`) and `Implementation`, the refinement of `Channel`.
* `IInv` joins the types, the mutual exclusion, `CallAtHand` (where a thread is
  tells its operation, and a push still has its item) and `NoLostWakeup`, which
  compares the number of queued items with the number of threads in `Alert`.
  `Exchange` has the facts about cardinalities: a `pop` that takes an item
  leaves `Alert` as the item leaves the queue, a push that adds one enters it,
  and `notify_one` exchanges itself for the thread it wakes.  The threads are
  finite, as threads are.

`DirectoryCacheProofs` (any processes, keys, values and paths, any `max_size`;
assumption: `DirectoryAssumption`):

* `TypeCorrect` needs no hypothesis: `TInv` adds to the types that a process
  has at hand what its place needs (`AtHand`: an entry to write, a name and a
  file that are open, a stamp left), and that a header stands only at the
  start of a file whose name its key has (`FilesInOrder`).
* `EInv` adds what being undisturbed means: who has a file open that is not
  `clashed` finds there what it wrote or measured (`Undisturbed`), because
  nobody else has it open for writing (`Holders`, `Writers`).  It rests on
  opens being recorded in `clashed` by whoever comes second; a process alone is
  `Exclusive` whatever `clashed` says.
* `OwnValueReturned` assumes `DistinctPaths`, a file for each key: `get` does
  not compare keys, so with a collision the property is false.  `ValuesOwn`
  says of files, of what processes are about to write and of what they found
  what the property says of results; `PutOwn` that pieces at any offsets stay
  own pieces, and the beginning of a value if nobody disturbs; `FoundOwn` the
  same of reading.
* `SetValueReturned`, for `OneProcess` and values that are written at once
  (`Long = {}`).  `EntryStays`: between the two reads of a lookup nobody removes
  the entry; `ValuesFull`: unless a read failed, no entry is empty and none
  is being written.
* `StampsAreDistinct` and `SizeIsBounded`, for `OneProcess`, also where keys
  collide, values are written in parts and operations fail.  `Newest` says that
  what is being written carries the last stamp taken; `Room` that unless
  `clean_up` passed over a file (`missed`) the entries are few at rest and
  during a lookup, counting the one about to be written again, and that while
  it runs what it will not visit is within the last `max_size` stamps
  (`Spared`).  A `clean_up` that succeeds makes up for earlier ones that did not.
  `FewStamps` and `FewerAreFew` do the counting.

`MCDirectoryCacheProofs` derives from these lemmas the five properties of the
run `dir` as the run states them, for any instance together and for the one
alone with any keys and values (assumption: `LonelyAssumption`, that the two do
not overlap).  Who has a `next_usage` tells which of the two runs, and stays as
it is (`SharedOrAlone`).

`ResponseProofs` (any set of pieces of text, any number of writes, reads and
servings, through beast and CGI; assumption: `ResponseAssumption`, that pieces
are texts that are not empty and without NUL):

* `TextIsServedWhole` and `NothingIsInvented` state the two action properties of
  the run, from `ResponseInductive`.  `ResponseInv` says for each kind of
  communicator what it keeps of the characters `given` to it since the body was
  emptied: a text has them in order, bytes have them all but the later ones
  first (`SameChars` counts), a stream has in its unread part only such; and no
  Content-Length was told if nothing was added, which makes the length right:
  the one that is sent is then computed from the body that is sent.
* A body of bytes that was read and then cleared has its index beyond its size
  (`Overread`), and the next read counts below zero (`body.hpp:74`): the
  program may end there (`EndsInRead`, `running`).  `NothingInvented` says that
  it ends in no other way.
* The extraction from a stream skips blanks and stops at one: `LeastMember`
  gives the places a search finds.

`TextsProofs` has theorems for every text:

* `AnswersAreSteady`: `SteadyAnswers`, the half of `AnswersDoNotAge` that does
  not depend on how a URI was put together, for every text and every order of
  getters and setters; and `FoundOffsetsLast`, that no getter moves an offset
  another one found.  `UriInv` is `Settled(data, cache)`: an offset that is not
  `Npos` is the one the text decides, and an offset whose search asks for
  others has brought them along.  Not provable, because false: the same of user
  info, host and port, which are cut at what is known of the end of the
  authority when they are asked for (`Unmistakable`, section 5).
* `PercentRoundTrip`: `decode_uri_component` undoes `encode_uri_component` for
  every text of octets, every policy and every set of characters that leaves
  out the percent sign; `PercentDecodesAll` is the run's `PercentDecodes`.
* `Utf8RoundTrip`: `Utf8Exact` for every sequence of code points, surrogates
  included (the code does not look at them): reading forwards and backwards,
  the length told by the first unit, and that a cut text is never read past its
  end.  `SwapsAreExact`: `SwapExact` for every sequence and every two places:
  `SwapRanges` and `Rotation` say what the two calls of the standard library do
  to three neighbouring stretches of units, `SwapTrades` that together they
  exchange the outer ones whichever is longer, and `PartsTraded` that the
  result is the encoding of the exchanged code points.  `CodePointsAllExact` is
  the run's `CodePointsExact`.
* The assumption, `TextsAssumption`, says that the texts consist of octets and of
  code points.

Recursion over a text.  The provers cannot instantiate a theorem of induction
over an operator.  The loops of `Response`, `Percent` and `UtfText` are recursive
functions or folds over positions, and for those a set does: `Counting` (a set
of numbers that has 0 and with every number the next is Nat, from the least
member of its complement), `CountingTo` (the same up to a bound) and
`TurnsExist` (a loop of N turns has its N + 1 states).  With them `ChainOnly`
says that what a writer's loop has written after each turn is determined, and
`PercentRoundTrip` and `Utf8RoundTrip` follow the reader's loop along it.

Only model-checked:

* `AcceptedEnds`, `ShutdownUnlessSpinning` and `DoneReleases`: liveness
  under fairness is out of the prover's reach.
* `Routing` (`TypeOK`, `FirstRouteAnswers`): `Call` recurs over the tree of the
  valve it is given (`RECURSIVE`), not over numbers.
* `Uri`, `Mustache` and the normal forms of `Unicode`: their loops call
  themselves with a place in the text and the parts found so far, and are
  written with `RECURSIVE`.  `Ip` and `Cookies`: no proof was attempted.
* `PartsAreRead` and the second half of `AnswersDoNotAge`, which depend on which
  URIs an object is put together from (`Unmistakable`).

## 5. What is not modelled, and why

* *In the modelled parts.*  Beast: the setters used before the start (address,
  ports, timeouts), SSL (a stub), logging, headers.  Cache: `clear()`, which
  either calls itself without end or visits nothing because
  `memory_gate::end()` returns `begin()` (`memory_gate.hpp:89`).  Directory
  gate: `erase`, `clear` and its iterator.  Routing: `!`, `&&`, sub-routers,
  the set-up of member functions, path normalisation; and the simplification
  of `||` and `&&` by C++ type (`valves.hpp:71`), since the model has no types
  of operands: the `or` valve is the one built for operands of different types.
* *Weaker than one might expect.*  `GetReturnsSetValue` is checked for one
  process, values written at once and a file per key only: a partial write, a
  collision of hashes (`directory_gate.hpp:348`) or a second process that
  removes an entry inside `set_options` (`:407`) makes a lookup return a value
  that was never set for its key, and two processes that have one file open at
  once (`:392`) even one that nobody ever set, as does a read that breaks off
  (`file.hpp:46`).  `SizeBound` of the directory holds until a restart, because
  stamps start again at 1 while the files keep the old ones, and not after a
  `clean_up` that could not list, read or remove a file (`:448`, `:453`,
  `:457`).  `BusyWorkerProgresses` and `AcceptedEnds` know no time.
* *Readers of text, what the properties leave out because the code does
  something else.*
  - `uri/`: an `@` in the host of a `file:` URI is read for ever; in an
    authority with credentials text before `[` is dropped; a host that is
    followed by a port is never taken for an IPv4 address, one character and
    digits are refused as a bad address, octal numbers may hold 8 and 9, and a
    sixth number is written past the address (`host_ip.hpp:112`); the store of
    offsets keeps a default port; a number above 65535 in a password is an
    invalid port; `"a:/b"` loses its slash and `"file:/x"` takes `x` as the
    host; `?%#` keeps the `#`; two characters behind every `%` are read
    unseen, past the end of the text.  Tabs, newlines and NUL do not occur.
  - `uri_string.hpp`: a path or query with `@`, `:` or `/` in places where an
    earlier part is searched (`Unmistakable`); the setters of user info and
    queries, which exchange their conditions; a port at the end of the text or
    over an existing one; a fragment set before it was looked up; and
    `resolve()`, which returns before it has joined the paths.
  - `ip/`: `"::1:/64"`, and addresses with an IPv4 tail in brackets.
  - `cookies/`: a comma in a jar, and a character that is no name in an
    attribute, loop for ever; a trailing `;` makes Set-Cookie fail, a flag
    followed by a space takes the next attribute with it, and an unknown flag
    gets the value of the attribute before it.  `response_cookie::to_string`
    does not compile (`append` of one character).
  - `views/`: blank lines, and lines with a section tag and text, are not
    printed; a string is false for a section, and so is `true`: `is_false` returns
    the value of a bool (`mustache_view.hpp:200`), so that `{{#a}}` shows what
    `{{^a}}` should.  The model and `RenderedExact` have the rule as the code
    has it.  Lambdas are not modelled.
  - `encoding.hpp`: `%gX` is decoded as `%0X` plus 240, so only encoded texts
    are decoded by the property; decoding in place (`:90`) is not modelled.
  - `unicode/`: the code points exchanged may overlap the precondition of
    `swap_ranges` (`unicode.hpp:620`); the model does what the loop does.
    U+11A7 counts as a trailing consonant (`hangul.hpp:265`), UTF-16 and the
    low-byte comparison of the composition table (`normalization.hpp:562`) are
    left out.
  - `http/`: `Content-Length` of a response whose body was set twice; the beast
    server sends the first word of a stream and CGI the length of a stream as
    `npos`: the two properties say what holds for text and bytes, and that
    nothing is sent that was never written.
* *Task system.*  The constructor of `task_system` replaces the `_count`
  queues of the member's initialiser by an empty vector
  (`task_manager.hpp:113`) and its threads index it modulo `_count`: its
  behaviour is undefined from the first step.
* *Debounce.*  The trailing form copies a debounce that owns a thread and cannot be
  instantiated; the leading form has nothing concurrent.
* *io_uring.*  The branch for callbacks that are not optimised calls a member
  the callback has not (`callback_ptr.data()`), and `run_wait` has no end.
* *Tables and functions of one value* (IDNA mapping, unicode data, base64,
  dates, number conversion, headers that are enumerations): their tests and
  tables are a better reference than an abstraction of them.
* *Wrappers and stubs* (sockets, databases, CGI's environment, JSON, logs,
  traits, memory; FastCGI, the thread pool, `file_gate`, `unified_caches`,
  `non_evicting_cache`): no control of their own, or unfinished.

## 6. Plan

Done: BeastServer with all its safety properties proved, LruContract, LruCache
and the proof of the refinement, DirectoryCache and its proofs,
NotificationQueue, Channel and the proof of the refinement, Valves, Routing,
the readers and writers of text, and the proofs about responses, a URI object's
offsets, percent-encoding and UTF-8.

Next, in this order:

1. `DirectoryCache`: `erase` and `clear` over the iterator, and what holds of
   stamps and size after a restart.
2. Routing: the static router's fold, the disabler, sub-routers, `!` and
   `&&`; path traversal and normalisation (`uri/path_traverser.hpp`).
3. Proofs about addresses (`inet_pton` against lists of groups) along the
   lines of `Utf8RoundTrip`.
