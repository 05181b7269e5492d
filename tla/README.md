# TLA+ models of isaac_ros_service

`isaac_ros_service` is the beginning of a bridge between ROS services and TCP
clients.  The repository holds the bridge's own building blocks (a locked queue,
a queue pair per service, a server that reads a service file and sizes a thread
pool) and, beside them, the programs its authors work from: a multi-threaded
HTTP server, an example of serialization over sockets, and small threading and
socket examples.  This directory models the parts that carry logic, checks them
with TLC on small instances and proves the most important facts with TLAPS for
all instances.  Source paths below are relative to the repository.

## 1. Inventory

| Component | State | Operations | Meets | What is hard | Correct when |
|---|---|---|---|---|---|
| `concurrent_queue` (`src/Connection.hpp:89-140`) | `_queue`, `_mutex`, `cond_var` | push, empty, try_pop, wait_and_pop, clear | used by `ServiceQueue` and the workers of `test/b_thread.cpp` | notify after unlock, spurious wake-ups, clear made of two critical sections | it behaves as one atomic FIFO and forgets no sleeper |
| `ServiceQueue`, `SrvMsg` (`:72-84, 147-186`) | two queues, `seq_req`, `queueSize` | req_pop_msg, rsp_pop_msg, destructor | owned by `ServiceBridge_Server::services` | `seq_req++` is unprotected and shared by requests and responses | messages are numbered uniquely, in order of delivery |
| `ServiceBridge_Server` (`test/test01_server.*`) | table of services, pool sizes, threads, scheduler | constructor, parse_service_file, init_server, main's two inspections, stop | `helpers`, `IP`, `ServiceQueue`, Boost threads and `io_service` | duplicates and bad lines, rounding of the pool, zero services, threads that race the inspection | one queue per name, every service staffed, main never hangs |
| HTTP server (`full_server/server.*`, `connection.*`, `posix_main.cpp`) | acceptor, pool, connections kept alive by shared_ptrs | accept, read, write, shutdown, stop | parser and handler | several threads run the handlers; lifetime; failures at any moment; shutdown, also while the pool is still being created | no leak, no dangling handler, keeps accepting, answers once, a signal ends it |
| request parser (`full_server/request_parser.*`) | `state_`, the request | parse, consume | fed by `connection::handle_read` | input cut anywhere | verdict is the one the grammar gives, on any cut |
| request handler, reply, MIME types (`full_server/request_handler.*`, `reply.*`, `mime_types.*`) | none between requests | handle_request, url_decode, stock_reply, to_buffers | called by `handle_read` | escapes, ends of strings and files | decodes, serves files below `doc_root_` whole, frames replies |
| `Connection` (`src/Connection.cpp`) | status, socket, byte counts | accept, is_closed, try_read_bytes, write | nobody constructs one | the file does not compile | not modelled |
| `IP` (`src/IP.cpp`) | none | get_host_address (or exit) | init_server | the exit | its two outcomes are modelled |
| helpers (`helpers/helper.*`) | none | trim, split_CSV_line, readlines, container_has | parse_service_file | blank and padded fields, the last field of a line | a line is split into its non-blank fields, trimmed and in order (the last field fails this: section 4) |
| workers (`test/b_thread.cpp`) | two `concurrent_queue`s | process_one | `concurrent_queue` | the test of `empty()` is stale when `wait_and_pop` is called | no payload is lost or processed twice, the workers are never all blocked |
| serialization example (`ex_serialization/`) | connection buffers | async_write, chained async_read, accept loop, endpoint retry | each other | framing on any cut of the stream, broken connections, failing accepts and connects | reader and writer agree, every client ends, a server that stops accepting exits |
| lock-free queue (`example/lockfree_queue.cpp`) | queue, two counters, `done` | producer, consumer, main | Boost's queue | the last drain races the flag | everything produced is consumed, the program ends |
| other examples and tests (`example/`, `test/srl_*`, ...) | see section 7 | | | | left out |

The hazards these components are exposed to, each at its line and with the
properties that would notice it, are listed in `PROJECT.json`.

## 2. Modules

| Module | Models | Used by |
|---|---|---|
| `FifoQueue` | what concurrent_queue promises: calls that take effect atomically on a FIFO | `ConcurrentQueue`, `Workers` (INSTANCE) |
| `ConcurrentQueue` | `concurrent_queue`, one step per access to shared state | run `queue` |
| `ConcurrentQueueProofs` | its theorems | TLAPS |
| `ServiceQueue`, `MCServiceQueue` | `ServiceQueue`, on top of atomic queues | run `service_queue` |
| `ServiceQueueProofs` | its theorems | TLAPS |
| `Workers` | workers of `test/b_thread.cpp`, composed with two instances of `FifoQueue` | run `workers` |
| `WorkersProofs` | its theorems | TLAPS |
| `ServiceFile` | string functions of `helpers/helper.cpp` | `ServiceBridge` (EXTENDS) |
| `ServiceBridge`, `MCServiceBridge` | `ServiceBridge_Server` and `main` of `test01_server.cpp` | runs `bridge`, `bridge_last_field`, `bridge_no_service` |
| `ServiceBridgeProofs` | its theorems | TLAPS |
| `HttpServer` | `server`, `connection`, `main` of `full_server/` | run `http` |
| `HttpServerProofs` | its theorems | TLAPS |
| `RequestParser` | `request_parser` | run `parser` |
| `RequestParserProofs` | its theorems | TLAPS |
| `RequestHandler`, `MCRequestHandler` | `request_handler`, `reply`, `mime_types` | runs `handler`, `handler_invalid_escape` |
| `RequestHandlerProofs` | its theorems | TLAPS |
| `Serialization` | `connection`, `server`, `client` of `ex_serialization/` | run `serialization` |
| `LockfreeQueue` | `example/lockfree_queue.cpp` | run `lockfree_queue` |
| `ExampleProofs` | the theorems of both examples | TLAPS |

Definitions carry the names of the functions they model; `PROJECT.json` maps
each of them to its lines.  Definitions introduced by a comment `Mutant:` are
plausible mistakes in the definition that follows them: each property is broken
by at least one of them, which shows that the property depends on the code.

### ConcurrentQueue

`pc[t]` is the place of thread `t` in the member function `fn[t]` it called:
`lock` (constructor of `scoped_lock`), `body` (test or push), `front` and `pop`
(the two halves of taking an item), `unlock`, `notify` (push, after it released
the mutex), `sleep` and `relock` (inside `cond_var.wait`).  `clear()` owns no
code of its own: `loop[t]` records which of its inner calls is next.  Every
thread is a most general client.  `notify_one` wakes an arbitrary sleeper, or
nobody; a sleeper may also wake without it.

### ServiceQueue

Calls on `Q_req` and `Q_rsp` are atomic here, which `ConcurrentQueue` justifies.
`seq_req++` is split into its read and its write, so that two threads can lose
an update, one of the outcomes of the data race in the code.  The histories
`raced` and `overlapped` record whether that, or two overlapping calls, ever
happened; the properties are conditional on them because the code promises
nothing otherwise.  `SrvMsg` expects a number of elements where the pop functions
hand it the item itself, and leaves `data` empty: an item is modelled as the
`size_t` it converts to, and a message keeps nothing else of it.  `queueSize` is
stored by the constructor and read by nothing, so the model has no such variable.

### Workers

Two instances of `FifoQueue`, `In` and `Out`, are the queues of a `Worker`: what
`ConcurrentQueue` was shown to implement is used here in place of its locks.  A
worker calls a member function, the call takes effect, the call returns, each a
step of its own, so that other workers act between `in.empty()` and
`in.wait_and_pop()`.  The source defines `Worker` and does not yet create one;
the model's workers may call `process_one` again or never, and an external feeder
may push payloads.  An array is the value it is filled with.  `b_thread.cpp` names
the `concurrent_queue` of `src/Connection.hpp` without including that header; the
effects of the calls are mapped to its member functions.

### ServiceFile

`ltrim`, `rtrim`, `trim` and `split_CSV_line` on sequences of one-character
strings, and `std::stoull` (external) as far as the server's use of it goes:
leading digits, at most nine, no sign.  The two loops of `split_CSV_line`,
`scanVec` and `rtrnVec`, are recursive functions.  `Fields`, `Field` and `Trimmed`
define the fields of a line by positions, without the scan.

### ServiceBridge

`main` walks through the constructor (for each line of the file, which is chosen
freely, `split_line` and `parse_line`), `init_server` (address, sizes, threads),
the first inspection of the threads, `scheduler.stop()`, the second inspection,
and the end of the program.  A line may have too few attributes, a number
`std::stoull` rejects (the exception ends the program), a name that exists, or
lengths beyond the maximum.  The pool's threads run `io_service::run`, external,
which has nothing to run and returns only after `stop()` because of the `work`
object (`dispatcher`).  The other abnormal ends (a port that is taken, `exit(1)` in
`get_host_address`, an exception from a thread's constructor) are modelled too.

### HttpServer

An asynchronous operation is `none`, `pending`, or completed (`ok`, `err`).  A
thread in `io_service::run` takes a completed operation and executes its handler
in several steps, between which other threads run: `handle_accept` starts the
connection, replaces `new_connection_`, and re-arms the acceptor; `handle_read`
parses, starts a write or another read, and lets go of its shared_ptr.
`refs[c]` is changed exactly where the code copies or drops a shared_ptr, and a
connection whose count reaches zero is destroyed and its socket closed; that the
count is the number of those who hold the connection (`new_connection_`, its
operations, the threads in its handlers) is a property.  Reads
and writes go through the strand, accepts do not.  The outcome of a parse is a
free choice here; `RequestParser` and `RequestHandler` say what it is.  The model
starts when the constructor of `server` has returned: `server::run` creates the
pool's threads one by one while main unblocks its signals and blocks three of
them again, and network and threads proceed meanwhile.  A signal before main has
blocked them kills the process, one after it is taken by `sigwait` and leads to
`stop()`, which may come before the last thread was created.  The process also
dies when a thread cannot be created, since the exception leaves the thread that
`server::run` runs in.

### RequestParser

The automaton is translated state by state (`NextState`), with the effects on
the request (`consume`); `parse` is its loop over the characters of one read.
Characters are classes: those the automaton names and
one representative for each other kind.  The representative of the digits is 9;
a version number that exceeds an `int` (`IntMax`, lowered so that three digits
do) is undefined from then on.
`IsRequest` defines a well-formed request from lines, without states;
`SampleRequests` are requests put together from their parts; `Completion` is the
rest of a request from each state on.

### RequestHandler

`handle_request` in steps: each turn of the loop of `url_decode`, which takes an
escape (`decode_escape`), takes a character or fails; check and complete the
path; open; each turn of the loop that reads a buffer; fill the headers.  Characters are codes, because `url_decode`
computes with them; `HexValue` is what extracting a hexadecimal `int` from two
characters does in C++, including the sign and the stop at the first character
that is no digit.  `Units` and `Encodes` define the encoding without the loop.

### Serialization

One server and several clients, each with a single thread, so that a handler is
one step.  The framing is computed on sequences of characters: `Hex` and `Format`
are `std::hex` and `std::setw`, `Outbound` the check of the width, `Parse` what
`is >> std::hex` makes of a header, whose digits stand for `Number`.  TCP is external: `transmit` takes a whole
write, `read_some` hands the reader any piece of it, `reset` loses the rest.  A
client is connected before the server accepts it (`queued`), and is dropped when
the server's process ends.  A client whose host name does not resolve is over from
the start.  The server's `io_service` runs out of work when neither an accept nor
an operation of a connection is outstanding.  The content of the archive is opaque.

### LockfreeQueue

Each step is one atomic operation: incrementing a counter, pushing, popping,
reading or setting `done`.  A consumer is at the test of `done`, in the first
drain, in the last one, or between a pop and its count.  `LQInit`, `LQNext` and
`LQSpec` carry a prefix because `ExampleProofs` extends both examples.

## 3. Runs

| Run | Bounds | Shows |
|---|---|---|
| `queue` | 3 threads, 2 values, 4 calls, 1 spurious wake-up | lock discipline, pops remove what they read, no lost wake-up, calls return, refinement of `FifoQueue` |
| `service_queue` | 2 threads, 3 items of 2 values | unique numbers, numbers in order of delivery |
| `bridge` | files of 0 to 3 lines out of 69 over 3 names, 1 or 2 threads per topic, unknown or 1 processor | splitting at commas, table, pool sizes, no thread dead before `stop()`, main ends |
| `bridge_last_field` (violated) | same | a last field of one character is lost |
| `bridge_no_service` (violated) | same | division by zero when no service was read |
| `workers` | 3 workers, 3 payloads | payloads in one place, some worker free, calls of `process_one` end, no deadlock |
| `http` | 2 threads, 3 connections, 1 incomplete read per connection | lifetime, exclusion, single answer, stable reply, shutdown, service |
| `parser` | 12 classes, reads of 1 or 2 characters, 2 characters of method and uri, 4 version digits, 6 variable characters in all | verdicts against the definition, no dead end, `back()` is safe |
| `handler` | uris of up to 4 of 13 pieces, file sizes 0, 511, 512, 513, 1025 | decoding, names opened, content, framing |
| `serialization` | 2 clients of up to 2 endpoints, headers of 2 binary digits, data of 1, 3 and 4 bytes | framing, clients end, a server that no longer accepts exits |
| `lockfree_queue` | 2 producers of 3 items, 2 consumers | nothing lost or left behind, the program ends |
| `handler_invalid_escape` (violated) | same | some invalid escapes are accepted |

Why the bounds suffice for the interesting cases: three threads are a producer
between its unlock and its notification, a sleeper and a second consumer, the
triangle in which wake-ups get lost; with four calls `clear()` meets concurrent
pushes.  Three lines and three names reach a duplicate next to two accepted
services, and up to three services with a limit of two threads reach the
greatest excess over it that `PoolBounded` allows (the theorem covers every
limit).  The 69 lines combine plain, padded and blank names, good and bad
numbers, and last fields of one digit, of one digit and a carriage return, and
longer ones, beside lines with empty fields, with too few, and without a comma.
Three workers are one that takes an item, one that had seen it and blocks, and
one that is free.  Three connections are one being accepted, one being served
and one being closed; two threads can be in `handle_accept` and in a handler of
the connection it just started.  The parser's minimal request line has three
variable characters; one more varies method and uri, two more make a version
number of three digits, of which `IntMax` holds two, and three in the headers
reach a folded line with a value.  Lengths of one digit,
of two, and of three, one more than the header holds, are every case of the
framing's width; base and header length are constants, as 16 and 8 are in the
code.  The shared bounds are
the CONSTANTS called `Max...`, named where they are declared.

Only `workers` checks for deadlock, where one worker can always go on.  In the
other models threads may rightly stop: consumers may wait for ever on a queue that
nobody fills, clients owe the server nothing, the other programs end.

### Fairness

`ConcurrentQueue` and `HttpServer` assume weak fairness for each thread that is
inside a function (the operating system schedules it), and for `main` in its
straight-line parts.  No fairness is assumed for calls, for clients, for the
network, for signals or for spurious wake-ups, and no strong fairness for a
contended mutex: calls are bounded, so contention ends.  `ServiceBridge` assumes
weak fairness for `main` and for the pool, `Workers` for each thread inside
`process_one` but neither for its next call nor for the feeder, `Serialization` for the server, for
each client and for the delivery of what was sent, `LockfreeQueue` for every
thread, which includes that a push finds memory in the end; failures are never obliged to
happen.

## 4. What the code does that its text does not say

* **Last field** (`bridge_last_field`).  `split_CSV_line` is documented to return
  the strings separated by commas.  It loses a last field of one character, so
  that a service whose response length has one digit (`name,1,2,3`) has three
  attributes and is skipped, while the same line with a trailing blank or carriage
  return is served.  It also cuts the last character off a line without a comma.
* **No service** (`bridge_no_service`).  `init_server` divides by the number of
  services.  The constructor ignores the result of `parse_service_file`, so an
  empty file, or one whose lines are all skipped, ends the program with SIGFPE.
* **Escapes** (`handler_invalid_escape`).  `url_decode` is documented to return
  false for an invalid encoding; it accepts one digit followed by any character,
  and a sign followed by a digit.

Some further facts follow from the properties as they are stated.  The pool may
exceed twice the number of processors, because the remainder of the division is
given to every service; `PoolBounded` says by how much.  The second inspection of
`main` may count fewer threads dead than `stop()` has released, and the server is
then destroyed with threads still inside it; nothing in the code waits for them
(an orderly exit is an open item of the comment at `test01_server.cpp:131-138`),
so no property forbids it.  The service file's second field is stored in
`queueSize` and never read: the queues are unbounded.  A worker may block in `wait_and_pop` although `empty()` said false; `SomeWorkerFree`
says that this never happens to all of them.  And the HTTP server does not shut
down in order on a signal that comes before main waits for it.

## 5. Proofs

All theorems hold for every value of the constants that satisfies the named
assumptions (finite sets of threads, positive numbers of threads per topic,
special values outside the sets they extend, lines that are sequences of
characters).

* `ConcurrentQueueProofs`.  `TypeCorrect`, `QueueMutuallyExclusive` and
  `PopsSafe` follow from one inductive invariant, `DataInv`.  None of the three
  is inductive alone: `CallShape` ties places to functions (a push still has its
  argument, only pops reach `front`), mutual exclusion keeps the front that a
  pop has copied from changing.  `WakeupsKept` counts: `Awake` is the set of
  producers that have yet to notify and consumers on their way to the queue; a
  push adds an item and a member, a notification trades the producer for the
  sleeper it wakes, a pop removes one of each.  `Linearizable` is the refinement:
  with `Phase` and `Transferred` as the mapping, each step is a step of
  `FifoQueue` or a stutter.
* `WorkersProofs`.  `WorkersNotAllStuck`: a worker is committed from the moment
  `empty()` has found an item until its `wait_and_pop` takes one.  If the queue
  is empty, some worker is not committed (`SomeoneUncommitted`): a test commits a
  worker only while there is an item, and the pop that empties the queue releases
  the worker that makes it.  `Calls` ties places in `process_one` to calls.
  `NoPayloadLostOrDoubled` says of every payload that it is with the feeder,
  in the input queue, with one worker or in the output queue (`Somewhere`), and
  not in two of these places (`NotTwice`); the second part needs that the items
  of a queue differ from one another and that two workers never hold the same.
* `ServiceQueueProofs`.  `NumbersAreUnique`: while nothing raced, the counter is
  the number of messages issued, the messages are numbered from 0 without a gap,
  and at most one thread is inside the increment, holding the current value
  (`Counting`).  `NumbersFollowDelivery` adds the list of pops (`InOrder`): while
  no two calls overlapped, it is one longer than the list of messages exactly
  when some thread is between its pop and its number.
* `ServiceBridgeProofs`.  `PoolArithmetic` is the arithmetic of `init_server`;
  `TableInv` connects it with the table, through the fact that names and queues
  are equally many, and yields `TableConsistent`, `ServicesStaffed`,
  `PoolHonoured` and `PoolExcessBounded`.  `PoolInv` follows main's inspections:
  the scheduler is up throughout the first one, and no thread has returned while
  it is, which gives `NoneJoinableBeforeStop`.  `SplitsEveryLine` is about lines of
  any length: from each comma on, the first loop delivers the fields that remain,
  the last one as this code cuts it (`Delivered`, `Scanned`, by what is left of the
  line; `CommaHere` and `NextComma` tie the scan to the reference's count of
  commas), `Trims` is what `trim` does, and the second loop keeps the tokens that
  are not blank at their rank among them (`Filtered`).  Every field that a comma
  ends is among them with its own rank (`SplitsEnded`).
* `HttpServerProofs`.  `ServerInv` is one inductive invariant for all seven
  theorems, because the properties hold each other up: a handler may touch its
  connection without a lock since the strand admits one thread (`Strands`) and an
  operation under way excludes a handler that has yet to start one (`Alone`);
  `handle_accept`, which is on no strand, may since nobody else has the
  connection before `start()` (`Fresh`, `Unborn`).  `Counted` then says that the
  count of references is the number of holders, and `ConnectionsLiveAsHeld`
  follows.  `ReplyUnchangedWhileWritten` is an action property: the only step
  that changes a reply is a parse, which `Alone` excludes during a write.
* `ExampleProofs`.  `AllConsumed`: numbers drawn are rounds finished plus
  producers that hold one, and also items counted, queued and in consumers' hands
  (`Conserved`); `Ending` says that a consumer in its second drain has seen
  `done`, after which nothing is pushed, so the queue it leaves empty stays so.
  `FramingAgreed` is about the stream of a client: what it has of the read under
  way, what is in the pipe and what was not sent yet, in this order (`Stream`).
  `FrameInv` says that this is the beginning of the message while the client reads
  the header, and of the archive while it reads the data, and that the client asks
  for the length of that part (`Framed`); that nothing is under way before the
  connection is accepted, which happens only while the client waits for the header
  (`Silent`); and the types (`Wired`).  Sending and reading move bytes along the
  stream, a broken connection cuts it short, and a header that is full is the
  whole header (`PartRead`), in which the reader finds the length of the archive.
  That is `HeaderRoundTrip`: `Parse(Format(n)) = n` for every number, base and
  width, since the digits that division leaves add up to the number
  (`HexNumber`).  A message whose length does not fit is never sent, so its
  client never has a full header.
* `RequestHandlerProofs`.  `DecodesEveryUri` and `RefusesOnlyInvalid`: `Decoding`
  is the loop invariant of `url_decode`, that the path made so far is right for
  the units that start before the index (`Correct`) and that a unit starts there;
  `EscapesDefined` shows that the reference, which chooses the escapes of a uri
  by a condition on its earlier ones, is defined for every uri.  `OpensUnderRoot`:
  a path that starts with a slash and has no two dots in a row (`Absolute`) keeps
  this under the completion with `index.html` and when the name ends at a zero
  character.  `SendsWholeFile` and `RepliesFramed` rest on `Replying`, what the
  reply holds at each step.
* `RequestParserProofs`.  `ParseInPieces`: parsing a concatenation is parsing its
  parts in turn, so reads may cut the input anywhere.  `ParserInv` types the
  parser and has a header wherever one is appended to (`AppendsToHeader`);
  `MoreDataCompletes` follows the rest of `Example` from each state.
  `ParsesRequests` is proved from `TextInv`, which says for each state what the
  text consumed so far is: a request line up to some part of it
  (`RequestLineInv`), then lines that are headers or continuations and the part
  of the current one (`HeaderInv`).  The definition of a request looks for line
  ends in the whole text, so the lemmas on lines (`SameLine`, `OldLines`,
  `LineEnds`) say how one more character changes them.  `AcceptsRequests` is the
  converse.  `Requests` builds requests from their parts, with header lines as
  the least set closed under adding a field or a folded line; each part leads the
  parser from one state to the next (the lemmas called `...Piece`), and a result
  once reached stays (`Settled`).  `AcceptsSamples` follows, since the samples
  are such requests.

Induction over data is not available as a rule here.  Two arguments take its
place: a set of counterexamples that is not empty has a least member
(`LeastNumber`, from the well-foundedness of the natural numbers), and a property
closed under the steps that build the header lines holds of the least closed set.
Recursive functions get their equations the same way: that a function with these
equations exists up to every length is shown by a least counterexample
(`RunExists`, `NinesExist`, `EscapesToExist`, `ScanExists`, `KeptExists`,
`HexExists`, `TotalExists`), and what CHOOSE picks is then one.

Model-checked only: everything under fairness (`CallsReturn`, `MainReturns`,
`SignalExits`, `ClientServed`, `ClientEnds`, `DeafServerExits`, `ProcessOneEnds`,
`Finishes`), which the provers do not support.  Every invariant and every safety
property of an action that a passing run checks is also a theorem.

## 6. Plan

1. The modules of section 2, their runs, and the proofs of section 5 (done).
2. Liveness stays with TLC: it needs fairness and ENABLED, which this prover does
   not handle.

## 7. Not modelled

* `Connection` of `src/Connection.cpp`: two of its functions end in incomplete
  calls, the file does not compile, and nothing uses the class.
* `accept_all` and `serve_loop` are stubs in the source; `test02_server.*` repeats
  `test01_server.*`, adds an unfinished `accept_one`, and is not built.
* Texts, log output and command-line handling.
* `example/thread_pool.cpp` (a gist), `example/server_blk.cpp` and
  `example/client_blk.cpp` (from Boost.Asio), third-party code kept for reference,
  and `example/lock_guard.cpp`, a demonstration of one lock.  The pattern of the
  thread pool is part of `ServiceBridge`; the sessions of the echo server share
  no state.
* `test/srl_*`, `test/shared.cpp`, `test/bus_routes.cpp` (a tutorial of
  Boost.Serialization): sequential demonstrations of libraries.
* `main`, `store_one` and `Sender` of `test/b_thread.cpp`: the threads it starts
  run an `io_service` without work and return at once, the others are empty.
* The functions of `helpers/helper.hpp` that print or convert containers.
