# A TLA+ verification of redis-cpp

redis-cpp is a small Redis server in C++17: a thread per connection, a pool of
worker threads, a parser thread per request, an in-memory database with lazy
expiry, an RDB loader and master/replica replication. This directory holds
TLA+ models of its concurrent core, its start-up, its replication, its RDB
loader and its lock-free queue, the TLC runs that check them on small instances,
and TLAPS proofs of the most important safety properties for all instances.
`PROJECT.json` records which lines of the code each definition stands for.
Paths below are relative to the repository.

## 1. The system

| Component | State | Operations | Hard behaviour |
|---|---|---|---|
| `main` and the command line (`src/Server.cpp`, `src/utils.cpp`) | configuration, role, master's address, listening socket | read options (`--replicaof` connects at once), load RDB, open the port, handshake, accept loop | the order of options, a connection that failed, a peer that is gone, running out of descriptors |
| `ClientHandler`, connections and pool (`src/client_handler.cpp`) | `task_queue`, `mtx`, `cv`, `THREAD_POOL_SIZE` workers | `client_handler` (recv loop), `enqueueTask`, `worker_thread` | interleaving, lost wakeups, a task that never ends |
| `ClientHandler::response_handler` and `RedisParser`'s thread | three atomic flags, `response_buf` and its mutex, three condition variables | send loop; `enqueueMessage`, `wait_till_reponse_sent`, `communication_over` | waits without a predicate, stale flags, deleting an object its thread uses |
| `RedisParser` commands (`src/redis_parser.cpp`) | none of its own | ECHO PING SET GET CONFIG KEYS INFO REPLCONF PSYNC, unknown | pipelined commands, exceptions out of the thread |
| `DatabaseHandler` (`src/database_handler.cpp`) | map key -> (value, expiry), `database_mutex` | `set` (locked), `get` (unlocked, erases expired entries) | atomicity of find / read / erase |
| `ServerInfo` (`src/server_info.cpp`) | role, slave count, slave descriptors, master's address | getters, `update_connected_slaves`, `add_connected_slave`, `connect_to_master`, `send_handshake` | two unlocked fields that must agree; a handshake that waits for no reply |
| RDB loader (`src/read_file.cpp`) | reading position, the database | `RedisRDBParser` | integer widths, the end of the file |
| utilities (`src/utils.cpp`) | none | `parseBulkString`, `read_rdb_file_binary`, the clock | lengths that do not match the bytes, a word appended after a failed read, a clock that is set back |
| `NonBlockingQueue` (`include/redis/non_blocking_queue.hpp`) | linked list with atomic head and tail | `enqueue`, `dequeue`, `empty`, destructor | every interleaving of the compare-exchanges, nodes freed while another thread or `tail` points at them; the server never instantiates it |
| `scripts/rdb_parser.cpp` | - | prints an RDB file | a stand-alone copy of the loader |

How they interact. `main` accepts a connection and detaches a thread that loops
on `recv()`. Every chunk of bytes becomes a task; `enqueueTask` pushes it under
`mtx` and notifies a worker. The worker pops the task and runs
`response_handler` *with `mtx` still held*. `response_handler` creates a
`RedisParser`, starts its thread on the chunk, and loops: wait up to 5 ms for a
reply, send it, tell the parser thread, until the parser declares the
communication over; then it joins the thread and deletes the parser. The parser
thread executes commands against the process-wide `DatabaseHandler` and
`ServerInfo`. On a master, SET also sends the chunk to every registered slave;
PSYNC registers the connection it arrives on as a slave. A replica talks to its
master over one more connection that is served like any client's.

What makes the parts correct:

* pool: one task at a time; every chunk executed once, per connection in the
  order received; no task forgotten while workers sleep; progress unless a task
  hangs;
* response channel: replies sent once, in order, none left behind; the parser
  outlives its thread; every SET propagated; every task ends;
* database: GET answers the last value set, or nil; expiry never removes a newer
  value;
* replication, master's side: slave count and slave list agree; a slave gets the
  RDB file first, then every later SET once per registration and in the master's
  order;
* replication, both sides: when nothing is under way the replica has the master's
  value for every key set since it was registered; what a replica sends does no
  harm to the master; the handshake registers the replica;
* start-up: whatever the order of the options, no command is served before the
  RDB file named is loaded and the port named is open;
* RDB loader: what the file holds is loaded, up to where the file is cut;
* queue: values come out once, in the order they went in; no freed node is used
  between one producer and one consumer, none is freed twice, none left.

## 2. Modules

| Module | Models | Used by |
|---|---|---|
| `ResponseChannel` | one task: `response_handler` and the parser thread, statement by statement | `MCResponseChannel`, `ResponseChannelProofs` |
| `ClientHandler` | connection threads, task queue, workers; a task ends, hangs or crashes | `ClientHandlerProofs`, `RedisServer` |
| `RedisServer` | `ClientHandler` composed with the commands, the database and the slave list | `MCRedisServer`, `RedisServerProofs` |
| `Startup` | `main`, the command line, the connection to the master, the handshake | `Replication` |
| `Replication` | `Startup`'s process as a replica, composed with a master, its clients and the two byte streams between them | `MCReplication`, `ReplicationProofs`, `PropagationProofs` |
| `RdbLoader` | `RedisRDBParser` over the bytes of a file; `read_rdb_file_binary` | `RdbFormat`, `RdbLoaderProofs` |
| `RdbFormat` | the RDB format, as an encoder and as a condition on files: the reference for the loader (external) | `MCRdbLoader`, `RdbLoaderProofs` |
| `NonBlockingQueue` | the queue, one step per atomic access | `queue.cfg`, `NonBlockingQueueProofs` |
| `FifoQueue` | what a queue promises: the abstract specification `NonBlockingQueue` implements | `NonBlockingQueue` |
| `TaskContract` | what a task promises whoever runs it: implemented by `ResponseChannel`, kept by the tasks of `RedisServer` | `ResponseChannel`, `RedisServer` |
| `MC*` | the constants of the TLC runs | the `.cfg` files |
| `*Proofs` | theorems and proofs; `PropagationProofs` continues `ReplicationProofs` | |
| `Streams` | lemmas on sequences that grow at their end, and induction as a fact about sets of naturals | `RedisServerProofs`, `ReplicationProofs`, `RdbLoaderProofs` |

### ResponseChannel

`hpc` and `ppc` are the program counters of the two threads. Steps are cut where
the other thread can observe a difference: the test of a flag, the wait that
follows it, the store to a flag and the notify that follows the store are
separate actions, because the code does not put them under one lock.
`response_buf_mtx` is not a variable: the handler holds it exactly in the states
`HandlerHoldsBuf` (from the end of `wait_for` to the end of the loop body), and
the parser takes it only for the push, which is one action guarded by
`~HandlerHoldsBuf`. `wait_for` has a time-out, so `TakeReply` needs no notify.

The two waits of the parser thread have no predicate: `NotifyLoop` and
`NotifySent` move a thread that is already waiting and do nothing otherwise, and
`SpuriousWakeup` (switched by a constant) may end a wait at any time.

The input of a task is a sequence of segments: a command, text that does not
start with `*`, or bytes that make `std::stoi` or `parseBulkString` throw. Only
SET looks at what follows it, and recurses (`depth` counts the waiting frames);
after the innermost command has ended the communication each frame still
propagates. Replies are numbers in the order they were enqueued, so "once and in
order" can be stated. `send()` succeeds, fails (the rest of the reply is
dropped), or raises SIGPIPE. The effects of commands are counted (`applied`,
`forwarded`); `RedisServer` has them in full.

### TaskContract

`RedisServer` runs a command as one thread of control that hands its replies to
`send()`; the code has two threads, two flags and two waits for it. The contract
is what the first may assume of the second: the commands of a chunk run one after
the other, each after the reply of the one before; a single SET is propagated
after its reply; the task ends when every reply has been handed to `send()` and
every SET propagated. It may hang, before its first command, at a reply (the
client does not read) or after one (the wakeup is lost), or end the process.
`ResponseChannel!KeepsContract` maps the two threads to it: a command counts when
the parser executes it, a reply when `send()` returns, and a task has hung when
its parser waits for a notify that is past. `RedisServer!TasksKeepContract` maps
each worker's `lpc` and `answer` to it. With more than two replies the channel
breaks the contract: that is `channel_reply_lost`. Chunks of several commands are
the channel's subject, so only there does the contract see a second command.

### ClientHandler

One `rpc` per connection (recv, waiting for `mtx` in `enqueueTask`, about to
notify), one `wpc` per worker. `mtx` is owned by the worker that runs a task;
the short critical sections (push, evaluating the predicate of `cv.wait`) are
single actions that need `mtx` free. A chunk is numbered by connection, so
order, loss and duplication can be stated. `Hangup` ends the connection's thread
without closing the descriptor, as in the code, so descriptors are not reused.

`TaskHang` and `TaskCrash` are what a task can do besides ending: wait for ever
for a lost wakeup or a client that does not read, throw, or get SIGPIPE. Where
it can is in `TaskContract`, and in `FailTask` of `RedisServer`: a wakeup is lost
before the first command or right after a reply (`Replied`), never in the middle
of a command.

### RedisServer

`lpc` says where in its command a running task is. The handlers that touch
shared state are cut at every unlocked access: `get` is find, re-read and erase;
PSYNC is read the count, store the count, append the descriptor; the propagation
loop is one action per slave. Nothing in these steps assumes that tasks exclude
each other; that they do follows from the pool, and the mutant that releases
`mtx` before the task runs shows that `SlaveListConsistent` depends on it. `out[c]` is
everything handed to `send()` on a connection, replies and propagated commands, in
order; what becomes of it on the way is `Replication`'s subject.
`latest`, `gone`, `highest`, `setLog` and `since` are history variables used by
properties only. `since` has an element per registration, so that a connection
that sent PSYNC twice is covered: `Feed` says that it is sent each later SET
twice. `FeedComplete` says so whenever no SET is between its store and the end of
its propagation (`InSet`), also when some task hangs elsewhere. `now` is the wall clock, which `SetClockBack` may set back; `highest` is
the latest time it has shown, and "expired" in the properties means that the
clock has shown the expiry time at least once. An entry that expired and was not
read may come back when the clock is set back (`Live` looks at `now` only, as the
code does); `NilUntilSet` says that one whose expiry a GET has reported does not.

Chunks hold one command here; pipelining is `ResponseChannel`'s subject. KEYS is
answered with the matching keys in the map, expired ones included, as in the
code.
A stored value is never the string `$-1\r\n`, which the code uses as its
not-found marker.

### Startup

`main` in its order, one action per option and per step that another process can
see. `--replicaof` sets the role and connects while the options are still read; a
failed `connect()` is only logged, so `masterFd` may be `unconnected`. The
pattern for the master's address writes `\b` in a string literal, a backspace,
so that only `localhost` matches and an IP address leaves the address empty
(`MatchedAddress`). The thread that serves the master's connection starts before
the handshake is sent. A `send()` over a connection that is not there loses the
bytes or ends the process with SIGPIPE. `accept()` may fail at any time, for
want of descriptors for one, and ends `main` (`AcceptFails`).

### Replication

`Startup` extended with a master (`masterUp`, `master`, `mtask`), its clients and
the replica's service of the connection (`rtask`, `replica`). `up` and `down` are
the two directions of the TCP connection, as sequences of pieces: `recv()`
returns any non-empty prefix, so messages arrive together, alone or in parts. What
the master writes and `recv()` may cut is made of several pieces: a long SET of
three (up to its value, part of the value, the rest), the RDB file of two, the
second of which starts with the `*` inside the checksum of `empty.rdb`. What the
replica writes, the handshake and its answers, is cut where it is read
(`CutReplicaChunk`): `Cuts` says what the first part of a command may be, an array
cut before its first string (`HEAD`), one whose first string is not yet a command's
name (`OTHER`), or the command with an argument missing; the rest of the message
stays in `up` as text.

`AtArray`, `Throws`, `Stored`, `AfterSet` and `Answers` say what `parseRESPCommand`,
`parseBulkString` and `parseSETCommand` do with such a chunk: ignore it, execute its
first command and, after a SET, the next one, store a value that is cut or holds
bytes of the next command, or throw, which ends the process.

Both sides answer commands (`Replies`), and each takes an answer that is an array
for a command. A chunk with a KEYS or a CONFIG behind a SET is forwarded whole, so
the replica answers the array on the master's connection. The empty one (`EMPTY`,
of a KEYS that finds nothing) has no bulk string where the master looks for the
command's name: `parseBulkString` throws and the master ends, unless a bulk string
comes with it. Any other (`OTHER`) is a command the master does not know, which it
answers with `$-1` (`BULK`), on the connection to the replica and between two
forwarded chunks. ECHO, GET, INFO and commands the code does not know are `OTHER`
too: all are answered with a bulk string, and none changes anything.

When the last SET of a chunk has
returned, the master forwards the *whole* chunk, once per SET in it and per
registration. A chunk is taken when its task starts, which the order and mutual
exclusion proved of `ClientHandler` justify; tasks do not hang here.
Clients send commands and what a buffer cuts off them (`ClientPieces`), never
PSYNC: a second replica is one more connection, not a client. `fresh`,
`skipped` and `merged` are history variables. `skipped` becomes true when the
replica throws a SET away, or the remainder of a value that was cut, and when it
adds to a cut value bytes of another `send()` (`Padded`): the start of the next
chunk or an answer of the master.

### NonBlockingQueue

Each load and each `compare_exchange_weak` is an action; the latter may fail
without cause (`WeakFailures`), which matters where the result is not looked at:
`enqueue` may return with `tail` left behind. Node `n` belongs to the
`n`-th `enqueue` and stands for its value. `dequeue` frees the old head without
looking at `tail`. A thread that then reads the freed node, or compares with its
address where a node allocated since could answer, has no defined outcome: the
behaviour ends in `broken`. So addresses need not be reused in the model, and the
ABA problem counts as broken. `Delete`, which `dequeue` and the destructor share,
may meet a node that is freed: the behaviour then ends in `twice`. `empty()` is a
state predicate, for the thread that dequeues.

`lagged` is true from the last compare-exchange of an `enqueue` that failed although
`tail` was where it expected it, until somebody moves `tail`. In these states, which
`compare_exchange_weak` may produce on machines where it fails without cause, the
code is wrong in two ways that the properties state instead of excluding them:
`empty()` takes one value for none and, once that value is taken, none for some
(`EmptyExact`); and the next `enqueue` reads the node at `tail`, which `dequeue` may have
freed, also between one producer and one consumer (`SafeForOnePair`).

`FifoQueue` has a sequence and what the last `dequeue` of each consumer returned.
The refinement mapping of `IsFifo` takes the linked nodes that `head` has not
passed as the sequence: an `enqueue` takes effect at the compare-exchange that
links its node, a `dequeue` at the one that moves `head`, or at the load that
finds no next node.

### RdbLoader

The loader reads the file front to back; each action is one or two reads of the
code with what it decides on them. `Fetch` is `ifstream::read`: on a stream that
has failed, or fails half way, the target keeps what it held. The code tests
almost no read, so this matters: `nextByte` keeps its last value, a raw string
is padded with `'\0'`, and an uninitialised local is any byte of `Junk`. Wide
integers are byte sequences, which makes the widths exact: `uint8_t` keeps the
low byte of a table size, `time_sec*1000` is a product modulo 2^32, and integer
strings are widened with zeros. A string is its bytes, or the decimal form of a
number (`std::to_string`).

`RdbFormat` encodes databases the way Redis does. An image is the bytes of a
file with the entries it was made from and the offset at which each ends, so the
properties can compare the result with what the file says. The same is stated as
a condition, for the theorems: a layout `l` names the fields and entries of a file
and where each ends; `Written(l)` says that its bytes are what the encoder makes
of them one after the other, `Supported(l)` that they are what the code reads back
as it was written, and `ImageOf(img, l)` that `img` is that file or its first
bytes. `Supported` is where the code is narrower than the format: strings of less
than 64 bytes, integer strings from 0 to 2^31 - 1, seconds that fit in 32 bits as
milliseconds, up to 255 different keys, no empty name or value in a field, and
after the entries no byte 254 with a 251 behind it, which the loader could take
for a database. `rdb_basic` has files outside the first four of these limits, which
the code does not load as written. What follows
the entries is free otherwise, the tail of a full resync's payload included. Where
a file is cut, its keys are raw and end in a byte that is not `'\0'`
(`Plain`), because a cut key is padded with it and could replace an earlier one.

`ReadRdbFileBinary` is the payload of a full resync. The code reads words of
eight bytes until a read fails and appends the word of the failed read too, with
whatever that still held; the two byte swaps on the way cancel out. The 88 bytes
of `empty.rdb` are sent as 96. `SentImages` are files with this tail. A replica of this
code throws the payload away with the chunk it is in (`ReplicaIgnores`) and never
loads it; the images say what another program with this loader would make of it,
or a server started with the payload as its file. A loader like this one does not stop at the end marker: it reads the checksum and the tail
as indicators, and `LoadedExactly` says that this changes nothing in the database.

`Measure` counts the bytes left and, once the stream has failed, the steps the
code can still take without them; the largest is a table of 255 entries of
three steps. `LoaderProgresses` says that every step makes it smaller.

## 3. Runs

| Run | Question | Result |
|---|---|---|
| `channel_safety` | all kinds of input, spurious wakeups, failing sends, exceptions: replies once and in order, every SET forwarded, no use after delete | holds |
| `channel_tasks` | inputs with at most two replies: nothing left in the queue, the two threads implement `TaskContract`, and every task ends unless a wakeup is lost | holds |
| `channel_reply_lost` | is a reply never left in the queue, for *any* input? | violated |
| `channel_wakeup` | do the parser's waits end once the handler is in its loop, and once it has sent the reply? | violated |
| `server_shared` | SET with and without expiry, GET and PSYNC of two connections race on two workers, and the clock is set back: tasks exclude each other and keep their order, no lost wakeup, GET answers the current value and nil stays nil, slave list, RDB file before commands, complete and ordered feed, also when tasks hang | holds |
| `server_commands` | every command, on a slave: each task keeps `TaskContract`, and ends unless it hangs or dies | holds |
| `server_blocked_slave` | is SET non-blocking for the master? | violated |
| `replication` | set-up before service; a replica that threw no SET away and added nothing to one has the master's values; when it does either; what ends the master (`MasterDies`); the handshake registers the replica | holds |
| `replication_lost` | is every SET given to the master propagated? | violated |
| `queue` | a FIFO queue (`IsFifo`) up to the first use of a freed node; the one case in which one producer and one consumer reach such a use; when `empty()` is right; no node deleted twice; none left by the destructor | holds |
| `rdb_load` | whole files within the loader's limits are loaded exactly, also with the bytes PSYNC appends; of files cut anywhere the entries before the cut are; every step of the loader is progress and it always returns | holds |
| `rdb_basic` | are files of plain strings loaded as written, beyond these limits? | violated |

### What the violated ones show

* `channel_reply_lost`: `wait_till_reponse_sent` returns at once if
  `response_sent` is set and then leaves it set. When the handler is quick, the
  flag of reply 1 satisfies the wait for reply 2, and the parser runs ahead.
  With three pipelined commands it ends the communication while two replies are
  queued; the handler takes one and leaves. The comment at
  `src/redis_parser.cpp:222` promises the opposite.
* `channel_wakeup`: both waits of the parser are test-then-wait without a
  predicate. If the flag is set and notified in between, the wait never ends;
  the handler then loops for ever with the pool's `mtx`, which stops the server.
* `server_blocked_slave`: the README calls SET non-blocking for the master. The
  propagation loop's `send()` blocks on a slave that stopped reading, inside a
  task, with `mtx` held: later SETs of other clients are never acknowledged.
* `replication_lost`: the README says that any SET given to the master reaches
  the slaves. PSYNC registers the replica before it is answered, and the replica
  ignores a chunk that does not start with `*` as a whole; a SET that `recv()`
  returns together with FULLRESYNC, with the RDB file or with another answer of
  the handshake is thrown away, and nothing sends it again. `SkipsNeedMerging`
  and `PropagatedUnlessSkipped`, which hold, say that a SET is lost or changed only
  where a `recv()` did not return what one `send()` wrote.
* `rdb_basic`: four files, each of which violates the property alone: a negative
  integer (read unsigned), a string of 64 bytes (its two-byte length is not
  recognised), an expiry in seconds (multiplied in 32 bits; 3 * 2^29 s, in January
  2021, becomes "never"), and 256 keys (the size becomes 0). The README says that
  the server sets itself up with all the data in the file.

### Bounds

* `channel_*`: the input set has each shape of control once: no reply, one, two,
  nested after SET, text after SET, deeper nesting, SET then PSYNC, exceptions
  at once and after a SET. A command's identity does not matter beyond that.
  Tasks follow each other without bound, so a state left behind by one is seen
  by the next.
* `server_*`: two workers are enough for every pairwise race on `mtx` and for
  one to sleep while another runs; two connections race for it in `enqueueTask`;
  two chunks per connection are the least that can be reordered. One key, as keys
  do not interact; two values; a clock of two ticks with an expiry after one, so
  that an entry expires before, between and after the steps of a GET; a slave can
  register before, between and after SETs, and twice. `MaxChunks` and `MaxTime`
  are guards. `server_shared` also has the state constraint `FewCommands`: no
  more is explored once both connections have sent both their commands, so
  three commands race to the end and the fourth only arrives. Three are what the
  properties relate: a SET, an operation that meets it half way, and one that
  sees the result. The theorems cover any numbers. `server_shared` checks no
  liveness and uses the symmetry of connections and workers (both occur only as
  elements of sets); `server_commands` does, and uses none.
* `replication`: two keys, so that one SET may disturb another key; two chunks
  from clients (`MaxClientChunks`), each before, while or after the replica
  registers: what a chunk meets on its way is one other chunk, the handshake, the
  RDB file or an answer, and each of these may be cut or joined to it. Two are
  enough for a value in its two parts, for a SET over an earlier one, and for an
  answer of the master between two forwarded chunks; the theorems cover any number.
  Nine kinds of chunk (see `MCReplication`): SETs alone and in a row, with KEYS,
  CONFIG and a command answered by a bulk string behind one, a long SET whole and
  cut. The KEYS looks for one key while the chunk's SET is of the other, so that it
  finds a key in one order of the chunks and none in another. Six command lines (the same
  slave in three orders, an IP address, a master with an option without its value,
  a port that is no number).
* `queue`: two producers and two consumers, three nodes: one enqueue under way,
  one that overtakes it and one value to dequeue meanwhile. The use of a freed node
  by one pair takes two enqueues and a dequeue, two deletes of a node two consumers.
* `rdb_load`: the edges of every encoding the loader gets right: the empty
  database, strings of 0 and 63 bytes, 127/128/32767 and a 32-bit integer, a
  6-byte expiry, 63 and 255 keys, checksums with FA, FE and FE 00 FB in them; two
  files are cut at every byte. `Junk` has a byte for each branch it can take.
  Strings as keys are no numbers in the cut files: an uninitialised integer could
  equal any number. A checksum that spells out a non-empty table (FE 00 FB 01 00
  00 ...) would add a key; none is in the run.

Deadlock checking is off where the system may stop: clients that send nothing
more, a process that ended, a blocked pool, a loader that has returned. `channel_tasks`, where neither can
happen before a wakeup is lost and the handler's loop then keeps turning, leaves
it on.

### Fairness

* Threads are scheduled: weak fairness on each thread's steps (per connection
  and per worker in the server; per thread in the channel; some worker takes a
  queued task when `mtx` stays free).
* `replication`: weak fairness of `main` during start-up, of the tasks of both
  processes and of the threads that read the connection between them. Clients
  need not send and `accept()` need not fail.
* Strong fairness only for the parser's push. It competes for
  `response_buf_mtx` with a handler that holds it for most of its loop but
  releases it for up to 5 ms in every iteration; weak fairness would let the
  handler win for ever, which needs the scheduler to starve a runnable thread
  through unboundedly many 5 ms windows.
* The loader is sequential code: weak fairness of its next step.
* Weak fairness is enough for `enqueueTask`, because the number of chunks is
  bounded in the model, so `mtx` is eventually free for good or a task hangs.
* Nothing is assumed of clients, time, spurious wakeups or failures. In the
  channel `send()` to the client returns; a client that stops reading is the
  hang of a task at its reply in `RedisServer`.

## 4. Proofs

All theorems are for arbitrary constants: any number of connections, workers,
chunks, keys, values, slaves, threads and nodes, any set of inputs, chunks and
files of any length. They assume only the named assumptions of the modules: sets
are what they are called, the special values are not members, there is a worker,
no thread of the queue is both a producer and a consumer, a client of the master
sends no PSYNC. `NoneSkippedUnmerged` and `InSyncUnlessSkipped` have hypotheses
on the clients besides (`OrderlyClients`, `FramedClients`), which the run's clients
meet and TLC checks as assumptions of `MCReplication`; `LoadsExactly` and
`CutKeepsEntries` have one on the files (`ExpectedImages`), see below; `ContractKept` has one on
inputs and waits (`ShortTasks`), which the run `channel_tasks` meets. Every inductive invariant was checked by TLC on the
instances of the runs before it was proved.

`ResponseChannelProofs`
* `TypeCorrect`: `TypeOK` is inductive but for `todo - 1` in `Push`; `DataInv`
  adds that `todo` is not 0 before a push.
* `ParserOutlives`: `LifeInv` ties `hpc` to `ppc`: idle means no thread, joined
  means a finished one.
* `SetsForwarded`: `ForwardInv` counts at every program point:
  applied = forwarded + waiting frames + the SET being executed.
* `RepliesInOrder`: `OrderInv` says that the queue is the interval of replies
  ending at `pushed`, `response` the reply just before it, and what was sent is
  increasing and comes before both.
* `LastReplyTaken`: `NoReplyLost`. `OverInv`: after `is_communicating` is
  cleared the parser enqueues nothing more. `ReplyInv` (`CountInv`, `TakenInv`):
  an input of at most two replies enqueues them in turn, and before the second
  is enqueued the first has been taken, since the wait between them returns only
  if some reply was. So the queue never holds two, and a handler that holds
  `response_buf_mtx` has emptied it when it reads `is_communicating`.
* `ContractKept`: `KeepsContract`, the refinement of `TaskContract`, for any set of
  inputs of at most two replies when only a notify ends a wait (`ShortTasks`).
  `TaskInv` joins the invariants above to two more. `WaitInv`: a wait for
  `response_sent` that finds the flag set has lost its wakeup, and then nothing is
  left to send; whoever is past a wait has seen the first reply handed over.
  `CourseInv`: nothing is propagated before the last command was executed, and a
  single SET not before its reply. One lemma per kind of step: the handler's and
  the parser's inner steps are stutters, also on the stale flag (`HandlerQuiet`,
  `ParserQuiet`); `Run*`, `SendReply`, `Propagate`, `DeleteParser` and `StartTask`
  are Execute, Reply, Forward, End and Begin; the two waits are a stutter, or Hang
  when the notify is past (`ParserWaits`); and a task that has hung changes
  nothing the contract sees (`HungStep`).

`ClientHandlerProofs`
* `PoolTypeCorrect`; `PoolDataInv` adds that a busy worker has a task, and a
  connection's thread that is about to push a chunk.
* `OneTask`: `MutexInv`, a busy worker owns `mtx` and an owner is busy.
* `WakeupKept`: a queued task with `mtx` free has an awake worker or a pending
  notify. Inductive with `MutexInv`: a worker falls asleep only on an empty
  queue, and a worker that ends its task looks at the queue again.
* `TasksServedInOrder`: finished, running and queued tasks are one sequence,
  `Line`, to which pushes append and which no other action changes; `LineInv`
  adds that the chunk about to be pushed is the next one of its connection.

`RedisServerProofs`
* `ServerImplementsPool`: `Spec => PoolSpec`. Every step of the server is a step
  of the pool or leaves its variables alone, so the pool's theorems hold of
  the server; the others below start from it.
* `ServerTypeCorrect`; `ServerInv` joins the types to `PoolDataInv` and
  `MutexInv`, from which follows that the tasks of all other workers are idle
  while one takes a step (`Alone`).
* `SlaveListSafe`: `SlaveInv`, the count read by a PSYNC is still the count when
  it is stored, because no other task runs, and equals the length of the list.
* `FreshKeysKept`, `GetAnswersCurrent`, `NilStaysNil`: `StoreInv`, a GET between
  its find and its re-read finds the entry still there, and one that is about to
  erase has an entry that has expired and is the latest; `now <= highest`, so
  that what the clock shows again was seen before; and a key a GET has answered
  nil for is not in the database. They use `OneTask` through the pool; without it
  the erase of a GET would remove the value a SET has stored since.

* `RdbSentFirst`: `OutInv`. A descriptor in the slave list has the RDB file in its
  output, or the task whose PSYNC registered it is running and is about to write
  it (`Owes`). As only one task runs, no propagation comes between.
* `SlavesFedInOrder`: `FeedInv`. Outside of a propagation `FeedComplete` itself;
  inside one (`HalfFed`) each slave has its feed up to the SET before, followed by
  one copy for each of its registrations the loop has passed. A PSYNC cannot
  register a slave half way, because the SET's task excludes it, and it registers
  one with `since` at the present length of `setLog`. `Sent` is a cardinality, so
  the loop's step uses the library's theorems on finite sets.

* `TasksKept`: `TasksKeepContract`. `PhaseInv` says what the answer on its way is
  at each place of a command: FULLRESYNC or the RDB file exactly in a PSYNC, so
  that a reply is followed by a second one where the contract owes two. Each step
  of a worker is a step of its contract or a stutter; as `mtx` has one owner, no
  other worker has a task that could be affected, not even by a crash
  (`OthersAreFree`).

`ReplicationProofs`, for every set of command lines and client chunks
* `SetUpFirst`: `SetUpInv`, the file is loaded on the way to `listen` and the
  port opened on the way out of it, and neither the options nor the processes at
  work change them afterwards.
* `AnnouncedIsBound`: `StreamInv`, nothing in `up` announces a port before the
  port is open. All a replica writes is `ReplicaOps`, also when it executes what
  the master forwarded.
* `MasterDeaths`: `MasterDies`. `TaskInv`, a task on what the replica sent starts
  with one of `ReplicaOps` or with what a cut leaves of one (`HEAD`, only after a cut,
  so `merged`). Of these the parser throws on `HEAD` and on `EMPTY` alone, and none is
  a SET, the only command after which a task goes on to the next.

`PropagationProofs`, on the same specification
* `ReplicationTypeCorrect`: `PieceInv` says which pieces can be where: a task of
  the master is all a client's or all the replica's, and only a client's is
  forwarded. `PsyncInv` makes `slaves \in {0, 1}` inductive: one PSYNC is written
  in all, after `connect()` has succeeded, and it is in `up`, in the running task,
  executed, or lost in a cut, never twice.
* `NoneSkippedUnmerged`: if clients put no other command before a SET in a chunk
  that starts with one (`OrderlyClients`, which those of the run do), a replica
  throws a SET away or adds to one only if some `recv()` did not return what one
  `send()` wrote.
  `DeliveryInv`: until then `down` is a sequence of whole sends, each of them
  orderly, and `rtask` the rest of one; so when the parser has executed a SET, the
  next one of the chunk is what it finds next (`NextSetFound`). The induction is
  over the pieces between two SETs (`Streams!IntervalInduction`). Without the
  hypothesis the property is false: the parser takes the end of a PING for the
  end of the chunk.
* `InSyncUnlessSkipped`: `PropagatedUnlessSkipped`, for clients that also send whole
  commands, wherever `recv()` cuts their stream (`FramedClients`: the pieces of a
  long SET follow one another). `SyncInv`: for each fresh key, the master's value is
  that of the last SET of it among what the running task has executed of its chunk
  and has still to forward, or, if there is none, of the last SET of it in what
  the replica has not executed yet (`Stream`, that is `rtask` and then `down`), or,
  if there is none there either, the replica's. So `Due` moves from chunk to stream
  when the chunk is forwarded (`DueForwarded`, however often it is repeated), and
  from stream to database when the replica executes a SET (`ReplicaConsumes`). What
  a SET stores is decided by the piece two places behind it, on both sides
  (`ValueAt`). `FramedInv`: in the stream the first part of a value is followed by
  its remainder or is the last piece of its `send()`. So what comes after a cut
  value, the next chunk or an answer of the master (which may come between any two
  chunks, because the replica answers what is forwarded behind a SET with arrays the
  master answers), is in the stream as bytes of another `send()`; if the parser
  takes them for the end of the value, that is `Padded`, and counted in `skipped`.
  `RestInv`: after the first SET of a chunk the master's parser finds all the
  others. Answers hold no SET (`AnswersHoldNoSet`), so they change nothing that is
  due. Without `OrderlyClients` the master itself passes over a SET that it
  forwards; without `FramedClients` the remainder of a value could follow a chunk
  from which it had not been cut, and the replica would store a longer value.

`NonBlockingQueueProofs`, for any number of producers, consumers and nodes
* `QueueTypeCorrect`, `EmptyIsExact`, `NoDoubleFree`, `DestructorFreesAll`,
  `PairSafe`, `StrongPairSafe` follow from one inductive invariant, `IInv`. `ChainInv`: `linked` is the chain of `next` from
  the stub and `taken` the place of `head` in it. `NewInv`: every allocated node is
  linked or belongs to one `enqueue` under way, and its `next` is null until it is
  linked. `TailInv`: `tail` is the last node of the chain or the one before,
  and then the `enqueue` that linked the last one is about to advance it or has
  left it behind (`lagged`). So the place of `tail` is known when every call has
  returned, which is `EmptyIsExact`.
  `HeadInv`: what is freed is the chain before `head`, each of its nodes by the one
  `dequeue` that moved `head` past it, which has not deleted it before: no node is freed
  twice. `ClosingInv`: the destructor runs once all calls have returned, and frees the
  chain from `head` on. `PairInv`: with one producer and one consumer, the nodes
  they loaded as `tail` and `head` still are, and the producer does not find `tail`
  left behind unless `lagged`. `StrongPairSafe` adds that `lagged` needs a
  compare-exchange that fails without cause (`WeakFailures`); without such failures, as
  on x86, one producer and one consumer never use a freed node.
* `ImplementsFifo`: `Spec => IsFifo`, the refinement of `FifoQueue`. The initial
  states map to its initial state; linking a node maps to its enqueue, moving `head`
  or finding no next node to its dequeue, every other step to a stutter. That a
  linked node goes to the end of the mapped sequence (`AppendWaiting`) needs
  `ChainInv`: the node whose `next` is null is the last one.

`RdbLoaderProofs`, for every set of files
* `RdbTypeCorrect`: the stream's position stays in the file, `nextByte`, the sizes
  and every stored value keep their widths whatever `Fetch` leaves in its target.
* `LoaderAlwaysProgresses`: `Measure` is a natural number and every step makes it
  smaller, on any bytes; so no file makes the loader run for ever. `ReadsOn` and
  `Consumes` say of each reading operator that it never moves back, and that it
  moves on or fails the stream if the stream is good. `RdbInv` adds to the types
  that an entry is being read only while `i < tableSize`.
* `LoadsExactly` (`LoadedExactly`) and `CutKeepsEntries` (`EntriesBeforeCutKept`):
  the loader's result against the format. Their hypothesis, `ExpectedImages`, is
  that every file that promises something (it is whole, or an entry ends before
  the cut) has a layout with `Written`, `Supported` and `ImageOf`. Without it they
  are false: the bytes of a file could contradict the entries it is said to have.
  The assumption `LayoutsAssumption` of `MCRdbLoader` exhibits a layout of every
  file of `rdb_load` that promises something, whole, cut or sent, except those
  whose checksum has a 251, so the hypothesis is one that files meet.
  Neither property is inductive: both are about the end only. `FormatInv` says for
  some layout where the loader is: at the header, a field, a name, a value or a
  size (`InPrelude`), at the n-th entry, its key or its value with the first
  n - 1 loaded and nothing else (`InTable`), in what follows the entries, where it
  cannot open a non-empty table again (`InTail`), or past the end of a cut file
  (`Broken`). `Broken` is needed because the loader goes on after a failed read: it
  stores what it makes of its locals, and the invariant says that no such key is
  one of a complete entry (`OtherKey`). The proof has a lemma per encoder on
  what the reading operator makes of its bytes (`GoodLength`, `GoodString`,
  `ExpiryHas`), and one per action and place. TLC checked `FormatInv` on the whole and
  cut files of `rdb_load` that have a layout before it was proved.

Induction over data has no theorem with an operator parameter to call on, so
`Streams` proves it as a fact about sets of naturals (`SetInduction`), from the
pigeonhole principle of the library; the proofs cite it with the set of the
numbers for which the claim holds.

Only model-checked:
* the liveness properties (`FinishesUnlessWakeupLost`, `ServedUnlessHung`,
  `LoaderStops`, `HandshakeRegisters` and the two violated ones): fairness and
  ENABLED are out of the prover's reach. `LoaderAlwaysProgresses` is the part of
  `LoaderStops` that does not need them.
* `LoadedExactly` for files outside `Supported`: checksums in which 251 comes after
  254. `rdb_load` has one, which the loader takes for another database, an empty
  one.


## 5. Not modelled, and why

* The bytes of RESP. Lengths and numbers that do not match their bytes are one
  case, input that makes the thread throw (`ResponseChannel`); which part of a
  chunk is executed, cut or ignored is in `Replication`. The length `$4` that the
  handshake writes in front of any port is looked at by no master of this code,
  which answers every REPLCONF with `+OK`.
* Where exactly a short command is cut. What `recv()` can make of one of the
  replica's messages is in `Cuts`; of the commands of a chunk that is forwarded,
  only the long SET is cut on its way to the replica, behind its key and inside its
  value. Cut elsewhere a chunk ends the replica, which throws, or is answered as a
  command the code does not know and its rest thrown away.
* Keys, values and texts that hold protocol themselves: no key is the name of a
  command, so an array of keys is no command the code knows, and no cut leaves a
  text that starts with `*`, but for the checksum of the RDB file.
* A `send()` that writes less than it was given: its result is ignored in the
  propagation loop. On a blocking socket that takes a signal handler, of which the
  program has none, or an error of the connection, after which the replica is gone.
* A replica that is restarted, several replicas, and clients that write to a
  replica. The code handles no reconnection and keeps nothing on disk: a replica that is gone stays in the
  master's list, and a new one is one more connection.
* Tasks that hang in `Replication`; `ResponseChannel` and `RedisServer` have them.
* The exhaustion of descriptors as a count: `AcceptFails` may happen at any time.
* In the queue, reorderings its acquire and release operations allow beyond
  interleaving, and the reuse of addresses (see above).
* LZF strings and value types other than strings, which the loader rejects.
* `set_without_lock`: no caller.
* `scripts/rdb_parser.cpp`, which no build file names. `readMetaData`, which
  every file written by Redis reaches, and `readSizeEncoded` flow off their ends
  without returning a value, so that what the program does from there is
  undefined; the loader it was copied from is modelled.
* INFO's and CONFIG's formatting. What a KEYS pattern matches is the constant
  `Matches`; that `std::regex` throws on a malformed one is the crash of a task.

## 6. Plan

1. *Done:* `ResponseChannel`, `ClientHandler`, `RedisServer` and their proofs;
   `RdbLoader`, `RdbFormat` and the payload of a full resync; `Startup` and
   `Replication`; `NonBlockingQueue` and its refinement of `FifoQueue`.
2. *Done:* theorems of `NonBlockingQueue` with its refinement; types,
   `SkipsNeedMerging` and `PropagatedUnlessSkipped` of `Replication`;
   `RdbBeforeCommands` and `FeedComplete`; types and progress of `RdbLoader`.
3. *Done:* the contract between `ResponseChannel` and the tasks of `RedisServer`
   as a refinement on both sides; `RdbLoader` against the format.
