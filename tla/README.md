# A verification project for ScuffedRedis

TLA+ models of the C++ server in `src/src/`, checked with TLC on small
instances, and theorems about them proved with TLAPS. Paths below are relative
to the directory that holds `src/` and `tla/`; line numbers are in
`PROJECT.json`, which maps every definition to the code it models.

## The system

ScuffedRedis is a small Redis-like server with its own binary protocol, a
command-line client, and a demonstration around it (a Node middleware that
generates cache traffic and a web page that draws it).

| Component | State | Operations | Used by |
|---|---|---|---|
| `HashTable`, `ConcurrentHashTable` (`data/hashtable.*`) | vector of chains, `size_`, one `std::shared_mutex` | set, get, del, exists, keys, clear, size, resize | `KVStore` |
| `TTLManager` (`data/ttl_manager.*`) | array heap of deadlines, key-to-position map, one `std::mutex`, a callback, a checker thread | set_ttl(_ms), get_ttl(_ms), has_ttl, remove_ttl, check_expirations, clear, size, get_stats | tests; not wired into the store |
| `protocol::Message`, `Parser` (`protocol/*`) | a byte buffer | serialize, feed, has_message, parse_message | server and client |
| `CommandHandler` (`server/command_handler.*`) | one parser, shared by all connections; counters | handle_client, process_request, send_response | `TcpServer`, as its callback |
| `TcpServer`, `ClientConnection` (`network/tcp_server.*`) | listening socket, flags, one read buffer per connection | accept loop, read, write, close, stop | `main`, and its signal handler |
| `KVStore` (`server/kv_store.*`) | the table, command counters | ten commands | `CommandHandler` |
| `SortedSet`, `AVLTree` (`data/*`) | a tree and a map of scores | zadd, zrem, ranks and ranges | nothing yet |
| `RedisClient`, `TcpClient` (`client/*`, `network/tcp_client.*`) | a socket and a parser | send_command with a 5 s timeout | the command line |
| `EventLoop`, `ConnectionManager` (`event/*`) | two flags, sockets with callbacks under a mutex, connections under another | run, stop, add, remove, update, add_client, remove_client | nothing: not in the CMake targets |
| `simple_server.cpp` | a `Conn` per descriptor: two buffers, three flags; one map | a poll loop, GET, SET, PING | stand-alone program |
| Node middleware (`server/src/*.ts`) | one socket with listeners, hit counters, interval timers | sendCommand, getItem, start, stop | the web page |

How they interact. `main` gives `TcpServer::run_blocking` a callback made by
`make_command_handler`. The server accepts a connection and, in the same
thread, reads from it into its read buffer and calls the callback until the
connection ends. The callback feeds the read buffer to the one parser, executes
each message the parser yields against the store, and writes the reply.
Commands reach the table through its lock, so the table is the part written for
several threads; the TTL manager is the other.

What is hard here: results of a search used after it (`hashtable.cpp`), moving
nodes between two vectors while others wait, an index that mirrors an array
which is permuted all the time, loops under a lock, a clock that goes on
between reading it and using it, rotations that depend on everything before,
a byte stream cut anywhere, replies that come after a timeout, one parser and
one thread for all connections, writes that fail half-way through a batch,
clients that leave, a signal between any two steps, commands made of several
calls of the table, flags and buffers that must agree or an `assert` ends the
process, callbacks under a lock they want, and promises that take whatever comes
next for their reply.
`PROJECT.json` lists each as a hazard at its line.

What makes each part correct:

- table: a key is stored once and where its hash says; a search is still right
  when it is used; the load is bounded; each call is atomic; calls end;
- TTL manager: the index inverts the heap; no deadline is lost or changed by
  moving entries; nothing expires early; everything expired is found; calls end;
- protocol: messages come out equal, in order, once, and a parser that lost an
  array finds its place again;
- server: a client gets its own replies in order, and nothing else but replies to
  requests that a client which left had abandoned; a command runs once, a
  pipelined batch is drained, no client holds the thread after it has gone, a
  signal ends it;
- store: no key is deleted or counted twice, counts have a witness, counters
  agree;
- simple server: no order of events trips an assertion, replies are whole and in
  order, everything is answered;
- event loop: callbacks only of registered sockets, one at a time, and a stop
  that is heeded;
- sorted set: the tree is balanced and lists what the map holds; ranks and
  ranges are those of the sorted members, up to the bound a range makes up;
  replies add up;
- client: a command that was sent returns, with its own reply or an error until
  a timeout or the parser's losing its place;
- middleware: replies belong to their commands, a read fills the cache, reads
  end while the server answers.

## Modules

| Module | Models |
|---|---|
| `HashTable` | representation and private helpers of the table, as operators |
| `ConcurrentHashTable` | the calls of threads on the table, as steps under the lock |
| `AtomicMap` | abstract: a map on which each call acts at one instant |
| `ConcurrentHashTableProofs` | lemmas, invariants, refinement |
| `TTLManager` | heap, index, lock, clock, every method |
| `ExpiryMap` | abstract: a map from keys to deadlines |
| `TTLManagerProofs` | lemmas, invariants, refinement |
| `Protocol` | messages, their bytes, the parse functions, as operators |
| `Parser` | one stream of messages through one parser |
| `Framing` | the protocol as `Server` and `Client` use it: three operations as parameters, and what framing is |
| `Server` | `main`'s server: start, accept loop, connection, command handler, shared parser, stop |
| `KVStore` | the commands of several threads on one table |
| `SimpleServer` | the poll loop of `simple_server.cpp` and its clients |
| `EventLoop` | the select loop, its registrations and the threads around it |
| `AVLTree` | the tree and its entries, as operators |
| `SortedSet` | tree, score map and count, used by several threads |
| `Client` | `RedisClient` over `TcpClient`: connect, commands, timeouts |
| `Middleware` | the Node client of the server, `getItem`, the warm-up and the traffic timers |
| `ServerProofs`, `KVStoreProofs`, `SimpleServerProofs`, `EventLoopProofs`, `ClientProofs`, `MiddlewareProofs` | lemmas and invariants of these six |
| `MC...` | the instances TLC checks, with their `.cfg` files |

**ConcurrentHashTable.** `buckets` is a sequence of chains and a chain a
sequence of nodes; position 0 of a chain stands for `nullptr`. A call goes
through `pc`: `lock`, then for `set` the load test (`check`) and `resize` one
node at a time (`MoveNode`, `NextBucket`, `FinishResize`), the search (`find`),
its use (`apply`), for `keys` one bucket at a time (`scan`), and `unlock`. The
lock is the writer and the set of readers of a `shared_mutex`; any waiter may
get it. The hash function is any function from keys to numbers. The pattern of
`keys` is any set of keys: matching is left to a later module.

**TTLManager.** The heap is a sequence of entries, `key_to_index` gives a key's
position or 0. One turn of `heapify_up`, `heapify_down` or the loop of
`check_expirations` is a step; `Smallest` keeps the comparison of the code,
which prefers the later child. `relock` is where `set_ttl` with a duration of 0
calls `remove_ttl` and waits for the mutex it holds. The clock is `Tick`. The
ids are never read and are left out. `get_stats` returns the two counts; the
average, a floating-point number for display, is left out. A callback is a step
that changes nothing of the manager: no caller installs one.

**Protocol, Parser.** Bytes are numbers, because the properties are about
bytes: framing, signs and lengths. The parse functions return the message or
`NullPtr` and the buffer they leave, including what `parse_array` consumed
before it failed. `Parser` adds the stream, of which a read takes any number of
bytes. `has_message` looks at no more of an array than its header, so
`parse_message` may meet one that is not all there; `torn` records that it did.
The memory that `parse_array` reserves for the count it is told is not
modelled: a count too large for it throws, and nothing catches that.

**Framing.** `Server` and `Client` need of the protocol only `serialize`,
`has_message` and `parse_message`, and take them as parameters. Their runs give
them the operators of `Protocol` (`MCServer`, `MCClient`), so TLC checks the
byte parser of the code. Their proofs hold for every codec for which a whole
message is found at the front of a buffer and what follows it is left there
(`Framed`), and, for the client, the first bytes of a reply are no message and
stay in the buffer (`Awaited`), or are announced and then taken for none, as
those of an array (`Torn`). That `Protocol` has these properties is an
`ASSUME` of the two MC modules, `FramingOfRequests` and `FramingOfReplies`,
which TLC evaluates for the messages of the runs with every beginning of another
message behind them.

**Server.** One `pc` for the main thread: `begin`, `set` and `start` (the first
lines of `run_blocking`), `while`, `accept`, then for a client `read`, `feed`, `loop`,
`consume`, and `stopped`, or `killed`. Clients send, pipeline and hang up at any
moment, whatever they are owed. A write to a client that is gone may still
succeed, may fail (`ReplyFailed`), and may end the process (`ReplyKills`):
`Socket::send` passes no flags and `main` installs no handler for `SIGPIPE`. A
client that is gone may also make a read fail with bytes unread. A reply is
represented by the request it answers. `read_buffer` belongs to the connection,
`parser` to the handler, so it outlives the connection, and the requests of a
client that made a write fail are answered to the next one. `Cuts` says after which bytes of
a request a read may end: a byte on the wire carries whether one may (`stop`) and
whether it ends its request (`last`), and `cut` records that a read ended
elsewhere. Requests are pairwise different, which labels them; the code does not
look. `stop` is the signal
handler: it runs on the main thread between any two of its steps. `signal()`
restarts the calls it interrupts, so `accept` goes on with the closed socket and
fails, and `recv` goes on waiting.

**KVStore.** A call of the table is one step: that is what `Refinement` proves
of `ConcurrentHashTable`. A command is a sequence of them, after two steps that
count and dispatch it. `Requests` are argument vectors; one that is no array of
strings is empty, as `parse_command` makes it. What a `KEYS` pattern matches is
a set of keys. `balance`, `always`, `ever`, `raw` and `overlapped` are history
variables for the properties.

**SimpleServer.** Framing is by length, so a buffer of requests is the number of
bytes it holds, and a reply is two pieces, its length and its text, that writes
may separate. `poll_args` is what `poll` reported and the loop has not handled.
`up` tells how the process ended: by an `assert`, by `SIGPIPE`, for which it
has no handler, or by `die()` when `poll` fails. `fcntl` does not fail on a
descriptor just made, and `accept` failing for want of descriptors, upon which
the loop tries again at once, is left out. `accept` returns the lowest free descriptor, so that they are
used again. `g_map[key]` is `Empty` both for no value and for the empty one,
which the code does not tell apart in a reply.

**EventLoop.** Each thread may call any public function; inside `run` it is at
`starting`, `clearing`, `loop`, `setup`, `select`, `wait`, `process`,
`callbacks`, `leaving`, or in a handler; inside `stop`, between its test and its
request, it is at `stopping`. `fds` are its `fd_set`s as pairs of a descriptor
and an event. The callbacks are the handlers the class defines; they are private
and nothing installs them yet. A client's descriptor is open as long as its
connection exists, and `select` fails on a closed one (`SelectEnters`) or for
another reason while it waits, a signal for one (`SelectFails`). `relock` is a handler
that waits for the mutex of its own thread. `events_processed_` and `get_stats`
are for display and left out.

**AVLTree, SortedSet.** A node is a record and a tree a value: the code rewrites
nodes in place, but each has one parent, so replacing it is the same. The value
a node carries is always `true` and is left out. Members are numbers in the
order of the strings, with the empty string below all of them and `MaxString`
where the string `"\xff"` stands, some above that; scores are numbers or `NaN`,
which compares with nothing. A function that holds the mutex throughout is one
step. `zadd_multi` and `zrem_multi` take it once per item. `zrevrank` takes it
for the rank and reads `size_` without it. Queries that change nothing are
operators, and the properties ask them in every reachable state. `told` is a
history variable: what callers have been told so far.

**Client.** `send_command` is `pc`: `idle`, `send` (a blocking write that ends
when it does), `receive` (the 5 s wait for the first bytes), `loop` (the 100 ms
waits for more). `Reply(k)` is what the peer answers
to the k-th command; replies are pairwise different, again as labels. A receive may time out whenever it
waits, since bytes may be under way. `peer` is what the socket really is, next
to `connected`, what the library believes. The peer is external: it answers in
order or closes, perhaps in the middle of a reply. Writing to a peer that is
gone is an error (`SendFails`) or ends the process (`SendKills`), for it has no
handler for `SIGPIPE`. Two things make the parser lose its place, and `astray`
records them: `connect()` leaves the bytes of the connection before in it, and
an array parsed before it is all there is torn.

**Middleware.** Node runs one callback at a time, so an action is a stretch from
one `await` to the next; `/warmup` sends all its `GET`s in one. `commands` are
those whose replies have not come in full, and a listener is known by the place
of its command among them. A data event takes any number of pieces of the
replies under way, two to a reply, and calls every listener with what
`parseResponse` makes of the first. A reply is only a string or not. The server
answers in order, as `Server` shows of requests that no read cuts, until it
falls silent (`fallSilent`). It does so, and keeps the connection open, while
it serves another client first, when a read cuts a command or a batch, and when
an argument has more bytes than characters, since `buildCommand`
(`redis.ts:47`) sends `arg.length`. The `EX 60`
that `redisSet` adds is ignored by `handle_set`, so nothing in the cache
expires. A timer is `TRUE` as long as its ticks call `getItem`.

## Runs

| Run | Instance | Result |
|---|---|---|
| `hash_table` | 2 threads, 3 keys that collide, 1 value, 1 initial bucket, fairness | passes, 183,512 states |
| `ttl` | 2 threads, 3 keys, durations 0 and 1, second = 2 ticks, clock to 2 | passes, 890,581 states |
| `ttl_check_complete` | 1 thread, 3 keys, durations 1 and 2, clock to 3 | violated |
| `parser_stream` | 10 messages of all types, 2 sent, cuts at any byte, fairness | passes, 7,287 states |
| `server` | 2 clients, 2 pipelined requests each, whole or cut after the header, any of them abandoned, buffer of 22 bytes, a stop at any step, fairness | passes, 40,115 states |
| `server_fragments` | one request in several reads | violated |
| `kv_store` | 2 threads, 2 keys, 4 calls, every command | passes, 1,770,512 states |
| `simple_server` | 2 clients, 2 descriptors, requests up to one byte too long, reads of any size, fairness | passes, 250,640 states |
| `event_loop` | 2 threads, the listening socket and 1 client descriptor, 2 clients in turn, fairness | passes, 235,794 states |
| `sorted_set` | 2 threads, 5 members, one above `"\xff"`, 2 scores, lists of 3 and 2 items | passes, 41,422 states |
| `client_commands` | 3 commands, 2 connections, an array among the replies, cuts anywhere, fairness | passes, 52,535 states |
| `middleware` | 2 items, 3 reads or other requests, replies cut and joined anywhere, a silent server, a lost connection, fairness | passes, 365,628 states |

Why the bounds are enough. One initial bucket (the code starts with 16) makes
the table grow at the second and again at the third key, with k1 and k3 always
in one chain and k2 joining them until there are four buckets: chains of three,
splits, and a resize while others wait. Two threads give every pair of calls.
Three keys give a heap with two children, where the comparison of
`heapify_down` matters; a deadline before, at and after the clock. Two messages
on a stream give every boundary between messages, and bodies contain bytes that
look like types; two messages with an array in one give every way to tear it before or
behind another message. Two clients give every effect of one connection on the next.
Five members reach every rotation of insertion and removal, the even child of a
node out of balance included, and every position of an index; a removal that
rotates twice on its way up needs twelve keys and is out of reach. In `server` a cut command makes `parse_message` fail after
`has_message` said yes, a cut inline request leaves `has_message` false, and a
cut followed by a full read overflows the buffer; two requests in one read give
a batch whose second request stays in the parser when the write of the first
reply fails, with another client behind that gets its reply. Four calls of the store are two commands of each thread, or
one against three that create, delete and flush its keys. In `simple_server`
`k_max_msg` is 4 and the length one byte: lengths 3, 4 and 5 are the largest
that fits, the one that is admitted and does not fit, and the one that is
refused. One client descriptor, used by two clients in turn, gives every reuse
of a number in the event loop. Three replies of different types and lengths give
every way a read can cut across two of them, and the second connection every
state of the parser that `connect()` can find. Three requests of the middleware are a warm-up of two items beside a
read or another command: two commands that share a reply, and a third that is
behind or ahead of them.
One value for the table is enough to tell present from absent; that the right
one of several is returned is proved. Threads (and the keys of the TTL manager)
are interchangeable; the runs with liveness use no symmetry.

What the passing runs show: the properties above hold on these instances. The
properties are commented where they are defined. `Linearizable` and
`KeepsPromise` are refinements: the detailed specification implements
`AtomicMap` and `ExpiryMap`.

What the violated runs show, each a disagreement with a comment or a document:

1. `ttl_check_complete`: `heapify_down` compares with `>`, so the later child
   moves up. `check_expirations` then meets a top that has not expired and
   leaves an expired entry below it, although its comment says it checks all of
   them. The index stays right all the same (`IndexOK` is proved), and nothing
   expires early (`KeepsPromise`).
2. `server_fragments`: bytes of an incomplete message are kept both in the
   parser and in the read buffer, and fed twice. The run uses requests that are
   not arrays. A batch larger than one read (4096 bytes) is cut as well, since a
   read takes what fits. This is why `OwnReplies`, `WholeExecutedOnce` and
   `Answered` speak of the time before the first cut.

More of the kind, met at the edges of the instances above. Each is seen by
changing the constant named, or by the actions named; none has a run of its own.

- `torn` in `Parser`: a read that ends inside an array loses the bytes
  `parse_array` had consumed (`Conservation` without `torn` fails), although its
  comment says "Not enough data, restore buffer". `OnlyArraysTear` says that
  this is the only way into the case `command_handler.cpp:38` calls "shouldn't
  happen", and `Realigned`, `InOrder` and `Drained` that it costs the header and
  the elements up to the missing one and nothing more.
- `astray` in `Client`: `connect()` does not reset the parser, and the start of a
  reply the old connection cut off swallows the first reply of the new one; a
  torn array does the same to its successors (`PairedUntilLate` without `astray`
  fails without any timeout).
- `Under` in `Ranges` of `SortedSet`: `"\xff"`, "Max possible string", is not the
  greatest; a longer member that begins with that byte is missing from a range
  that ends at its score, where `sorted_set.hpp:110` says "Both bounds are
  inclusive.". `Ranges` says that nothing else is missing.
- `NaN` among the `Scores`: the tree takes different entries for the same one,
  and the set counts members it does not list (`Indexed` fails).
- `set_ttl(key, 0)`, which `ttl_manager.hpp:59` documents to remove the TTL,
  locks the mutex twice in one thread and never returns (`relock` of
  `TTLManager`). `std::mutex` makes this undefined; the model takes the outcome
  of the builds in use, which is to wait: the thread stays at `relock` with the
  mutex, and no other call gets in.
- After a timeout `RedisClient` keeps the connection, and replies are one command
  behind from then on (`Paired` in `Client_commands.cfg` fails). `NoReplyTwice`
  says that this is the worst of it while the parser keeps its place.
- `ReplyFailed` in `Server`: a client that pipelines two requests and leaves
  before the first reply may make its write fail; the second request stays in
  the shared parser, and the next client gets its reply before any of its own.
  No document says anything about it. `OwnReplies` says that this is all a
  client gets that it did not ask for.
- `ReplyKills` in `Server`, `SendKills` in `Client`: a write to a peer that is
  gone may end the process, for nothing handles `SIGPIPE`.
- A signal at `set` in `Server`, after `run_blocking` has found its socket open
  and before it sets `running_`: both flags are overwritten, the socket is
  closed, and the accept loop spins on failing accepts until a second signal.
  A client that is being served is not closed by `stop()`, although
  `tcp_server.hpp` says "Closes all connections": no code puts a connection into
  `connections_`.
- `kv_store.hpp:44` lists Z commands that `init_handlers` does not register:
  they are unknown commands. `EXISTS` may return a count that was true at no
  instant, INFO and `get_stats()` may show more GETs than commands, and a
  `clear()` beside a command leaves counters that never agree again
  (`CountersAgree` without `overlapped`).
- A request of `simple_server` that is `GET` or `SET` without its arguments sets
  `want_write` without a reply, and the `assert` of `handle_write` fails; a
  length from `k_max_msg - 3` to `k_max_msg` passes the check and fills the
  buffer, and the `assert` of `handle_read` fails; replies not yet written are
  lost when a later request of the same read is too long; and as `want_read`
  stays set, nothing bounds `outgoing`.
- In `EventLoop` two calls of `run()` that begin together both loop, and when
  one ends, `stop()` sees `running_` false and does nothing to the other; a stop
  between the two assignments of `run()` is lost; `remove_client` before
  `remove_socket` closes a descriptor `select` still watches, and its error ends
  the loop, where `event_loop.hpp:100` says "Runs until stop() is called."; a
  handler may use a connection another thread has just removed; and every
  handler that drops a client locks the mutex its thread holds.
- A removal between `ZRevRank` and `ZRevRankReturn`: `zrevrank` reads `size_`
  after its lock is gone and returns a negative rank.
- `connect` with `peer' = "refused"` and `connected'`: on POSIX a refused
  connection is readable, and `connect()` with a timeout takes that for success.
  The same test makes it report failure for a connection that was made.
- `start_background_checker` and `stop_background_checker` of
  `TTLManagerSingleton`, which nothing calls and no module models: two starts
  that overlap, or a start beside a stop that has not joined yet, assign to a
  joinable `std::thread`, which terminates the process.
- `Warmed` in `Middleware.cfg`: all commands in flight are resolved with the
  first reply that comes. When it is a string (the `OK` of a `FLUSHDB`, or the
  value of an item that is cached), every read of a warm-up takes it for a hit
  and stores nothing, where `docs/WORKSHOP_WALKTHROUGH.md` says "This
  pre-populates the cache with 50 items".
- `PauseStops` in `Middleware.cfg`: a start while a timer runs replaces the only
  reference to it, and a pause then stops the new timer alone, where
  `docs/WORKSHOP_QUICK_START.md` says "Use pause button to stop traffic during
  talking".
- `Middleware`: `getItem` may return the value of another item, or `OK`, as its
  own. Timers begun by `/workshop/traffic` or `/workshop/load-state` are given
  `global.getItem`, which nothing sets: after a pause, no start brings traffic
  back. When the server closes the connection, commands in flight and all later
  ones wait for ever. `DEL`, `EXISTS` and `DBSIZE` answer integers, which
  `parseResponse` makes null, and their results are always 0.
- Two clients, the first idle: the second waits as long as the first stays,
  where `docs/FEATURES.md` says "Handles 1000+ concurrent".

`zrevrange(start, stop)` is the ascending range turned round, where Redis counts
the ranks from the top; its comment ("Same as zrange but in descending order")
agrees with the code, so it is not a finding.

Fairness. A thread inside a method of the table keeps running (`WF` of its body), and a free
lock goes to some waiter (`WF` of the disjunction): `std::shared_mutex` promises
no more, so `CallsEnd` does not say that each waiter gets in. For the TTL
manager no fairness is stated: that its loops end is shown by a measure every
step lowers (`LoopsEnd`). It is a safety property, so TLC checks it with symmetry
and with the three keys that make `heapify_down` move entries. The parser's reader keeps reading and its loop parsing. The server's
thread takes a step whenever it can. A command of the client that has been sent goes
on, because `select()` returns when its time is over; the write before it is
blocking and is owed nothing. In `SimpleServer` writes
to a client have strong fairness: a client that stays reads, so a write that is
refused again and again succeeds in the end; `poll` need not fail. In `EventLoop` a thread inside
`run` keeps running and `select` times out; no socket has to become ready, so
`StopHeeded` does not lean on traffic. In `Middleware` the server
answers until it falls silent, which it may do at any time, the network goes on
while the connection lasts, and the `setTimeout` of the
simulated database fires. Callers, peers and clients owe nothing:
they may stop at any time.

Deadlock is checked for the table and the sorted set, where calls always end.
`CHECK_DEADLOCK FALSE` is set where the system may really stop: clients that
send no more, a server that has stopped or fallen, calls that are bounded, and
the self-deadlocks of `set_ttl` and of the event loop's handlers.

## Proofs

All theorems hold for every number of threads and clients, every set of keys,
values, requests and durations, every hash function, capacity and limit. The
assumptions are the named `ASSUME`s of the modules, which TLC evaluates in every
run. They give the types of the parameters and say that units are positive and
null values differ from real ones. Three say more about the program's
surroundings: the table's hash function is a function; a request to `KVStore` is
a sequence whose arguments are keys and values where the handlers take them for
such; and `SimpleServer` has a descriptor for every client, a length field of at
least one byte, and a limit that is larger than that field. The theorems on
replies of `Server` and `Client` have hypotheses of their own, named below.

- **`ConcurrentHashTableProofs`.** `Invariance` shows an inductive invariant;
  `TypeCorrect`, `StructureKept`, `SearchesValid` and `LoadKept` follow. The
  properties alone are not inductive. The strengthening says who is inside the
  mutex (the writer excludes everybody), what each `pc` knows about its call,
  that `new_buckets` is empty outside `resize`, that buckets already passed by
  `resize` are empty, and that the set of stored keys is finite. From mutual
  exclusion it follows that nobody changes the table between a thread's search
  and its use of it. The lemmas about chains come first: what prepending,
  updating, unlinking and taking the head do to the stored keys and to their
  being in the right bucket.
  `Refinement`: the table implements `AtomicMap`. The abstract map is read off
  both vectors, so the moves of `resize` are stutters; a call takes effect at its
  `apply` step; `keys` at its end, which needs the invariant that a partial walk
  has collected exactly the matching keys of the buckets it has passed.
- **`TTLManagerProofs`.** `Invariance`, then `TypeCorrect`, `IndexKept`,
  `CallbacksAfterRemoval` and `EveryLoopEnds`. The strengthening: the owner of the mutex is the one
  thread inside, positions in the heapify loops are inside the heap, `remove`
  is only reached by `remove_ttl` (the other way into it is the self-deadlock),
  and what a running check knows. The lemmas say that swapping, popping,
  appending and updating keep the index the inverse of the heap, whatever the
  order of the entries: that is why the faulty comparison does not harm it.
  `EveryLoopEnds` is about a measure of four numbers, compared from the left: the
  stage of the call, the entries in the heap (a check that goes on has removed
  one), the phase of the removal, and the turns left, the position in
  `heapify_up` and the distance to the end in `heapify_down`, whose child is
  always further on.
  `Refinement`: the manager implements `ExpiryMap`. The abstract map is read off
  the heap through the index, so the swaps are stutters: the lemmas on the index
  also say that they change no deadline. A call takes effect where it appends,
  updates or pops an entry. A key that a check has popped counts as expired from
  that step on, though the code adds it to its counters only after the heap is
  repaired and the callback called.
- **`ServerProofs`.** `TypeCorrect` without hypotheses. `OwnRepliesKept` and
  `ExecutedOnceKept` under one: the protocol frames the requests
  (`RequestsFramed(Seq(Byte))`, whatever bytes follow). Clients may leave any
  number of requests unanswered. The invariant (`Whole`) speaks of the time
  before the first cut and follows one queue, of every request that was ever fed
  to the parser, by whomever: the first `Len(executed)` of it are the commands
  executed, in order, and the bytes of the rest are what the parser holds, whole
  and one after the other (`Queue`, `Laid`, `Holds`). No request is in it twice.
  Its last `f` requests are the first `f` of the client being served, those before
  them that this client is answered belong to clients that left (`Mine`,
  `Members`), and its replies are what the queue says since it came; hence what
  they are (`OwnAfter`). Between two connections (`Idle`) the rest of
  the queue belongs to clients that are gone, and there is none unless a write
  has failed. The read buffer holds what was read and not fed (`InHand`).
  Requests as bytes are written with the places where they end, a function that
  exists, in place of a recursive concatenation. Parsing then never fails, and a
  request is executed when its bytes leave the parser, so once.
- **`ClientProofs`.** `PairedKept` and `ReturnedOnce`, when the protocol frames
  the replies (`RepliesFramed(Seq(Byte))`), over any number of connections; that
  hypothesis admits replies that are arrays. The invariant is about the time
  before the parser loses its place (`astray`): the parser, the wire and what
  the peer has still to write are together the replies `a + 1 .. m`, or a
  beginning of them once the peer has closed (`Begins`); `a` is the last reply
  returned or dropped, `m` the last one owed; and without a timeout `a` is the
  number of commands that have returned. A `connect()` that finds the parser empty
  begins a new such sequence at the commands that have returned. Reads and
  writes move bytes inside it and change nothing. A receive that gives
  up finds no whole reply, since the loop ends as soon as there is one, so
  unless it tears an array a timeout or the end of the connection never returns
  a reply and never drops a byte of one.
- **`KVStoreProofs`.** `KeysAccounted`, `CountsWitnessed`, `CountersTogether`.
  The strengthening: what each `pc` knows of its request and its place in it; that
  the stored keys are finitely many and, while a call is under way, contain its
  `always` and lie within its `ever`; that a call that reads
  several numbers has read fewer than it will; and, for the counters, that every command whose own
  counter is still to come (`Uncounted`) is counted already, since the two counts
  are steps apart. The number of such threads makes up the difference, so the
  proof follows how one thread enters or leaves a finite set. While `clear()` runs
  alone, the counters it has passed are 0.
- **`SimpleServerProofs`.** `TypeCorrect`, `FallsOnly`, `RepliesKeepOrder`. An
  assertion fails if a flag and a buffer disagree, so the invariant says how they
  agree: a connection that wants to write has something to write, unless some
  client sent a request that cannot be served; the bytes in `incoming` and on the
  wire are those of the requests that were sent and not consumed; and between two
  turns a buffer is full only after a request that cannot be served, because
  `try_one_request` has taken every whole one. Sums over requests are written as
  offsets that exist, in place of a recursive sum. What was received joined with
  `outgoing` is followed through every write that takes a part, and the order of
  `poll_args` and the freedom of the descriptors `accept` gives out show that an
  entry never meets the connection of another client.
- **`EventLoopProofs`.** `CallsRegistered`. The strengthening: `socket_mutex` is
  held by exactly the thread that is in its callbacks, and what is left of its
  sets is registered. Other threads change the registrations only with the mutex,
  and a callback that wants it waits for itself.
- **`MiddlewareProofs`.** `NeverListensLate`, `CachePopulated`. The
  strengthening: a listener's command is the one its call waits for, of the right
  kind and for the right item, and a reply that says an item is there belongs to
  an item that has been stored, at every place of the sequence. A data event moves
  all places down by the replies that are complete, and takes all listeners with
  it.

The inductive invariants of these modules hold on the instances of the runs too,
where TLC checked them. Steps about a number of things (keys, threads, descriptors) rest on
the library's facts on finite sets.

Only model-checked: liveness, which the prover does not do; everything about `Protocol`, whose operators are recursive (what
they compute for every input takes an induction the provers cannot do), and so
`Parser` (`Conservation`, `Realigned`, `InOrder`, `OnlyArraysTear`) and the framing that
`ServerProofs` and `ClientProofs` assume; `AVLTree` and `SortedSet` (`Balanced`,
`Indexed`, `Ranks`, `Ranges`, `Accounted`), recursive too; and the two violated
properties, which do not hold.

## Not modelled

The glob matcher, iterator and statistics of `HashTable`; `SortedSetManager`;
`TTLManagerSingleton` and its thread; `serialized_size`, which only reserves
room; the modes of the middleware that use another store, its hit counters, saved
states and events; the text calls of
`TcpClient`, the typed commands of `RedisClient`, which only build argument
vectors, and the command-line parser; `init` and `run_async` of the server (the
first runs before everything else, the second is not called); `get_stats` of the
event loop and of the command handler; and the components with status
`not_modelled` in `PROJECT.json`. The socket wrapper and the logger are pure
I/O. The web page has no protocol of its own. Lengths near 2^32, where the sums
of the parser wrap, are beyond TLC's integers.

## Plan

Done: the table and its refinement, the TTL manager, the protocol, the server
with its start and stop, the store, both stand-alone loops, the sorted set, the
client, the middleware, and the proofs about every module whose operators are not
recursive. Left:

1. `TTLManagerSingleton`: starts and stops of the checker thread by several
   callers; `SortedSetManager` (sets deleted while a caller holds them); the glob
   matcher against a reference; the iterator of `HashTable`.
2. An abstract request/reply channel that `Client` and `Middleware` should
   implement.
