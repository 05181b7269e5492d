----------------------------- MODULE HttpServer -----------------------------
(***************************************************************************)
(* The HTTP server of full_server/: main (posix_main.cpp), class server    *)
(* with its pool of threads (server.cpp) and the connections they serve    *)
(* (connection.cpp).  A connection lives as long as shared_ptrs to it do;  *)
(* the count is kept here as the code changes it, step by step, and the    *)
(* pool's threads interleave between the steps of a handler.  The          *)
(* io_service, the sockets and the clients are external: an operation that *)
(* was started may complete with or without an error, and its handler is   *)
(* run by any idle thread, through the connection's strand for reads and   *)
(* writes.                                                                 *)
(***************************************************************************)
EXTENDS Integers, FiniteSets

CONSTANTS Threads,    \* the pool, thread_pool_size_ threads
          Conns,      \* connection objects that may be created
          NoConn,
          MaxReads    \* bound: reads of one connection that leave its request incomplete

ASSUME ConnsAssumption == IsFiniteSet(Conns) /\ Conns # {} /\ NoConn \notin Conns
ASSUME ThreadsAssumption == IsFiniteSet(Threads)
ASSUME BoundsAssumption == MaxReads \in Nat

VARIABLES main,       \* "start", "sigwait", "stop", "join", "exited" or "killed"
          service,    \* io_service_: "running" or "stopped"
          accept,     \* async_accept: "none", "pending", "ok" or "err" (completed)
          new_connection,
          at,         \* at[t]: "new", "run" (waiting in io_service::run), "left", or a step of a handler
          conn,       \* conn[t]: the connection whose handler t runs
          failed,     \* failed[t]: the error code of the handler t runs
          rd, wr,     \* rd[c], wr[c]: the read and write of c, as accept
          refs,       \* refs[c]: shared_ptrs to c; 0 before creation and after destruction
          born,       \* the connections created so far
          reply,      \* reply[c]: "none", "answer" (handle_request), "bad_request"
          socket,     \* socket[c]: "closed", "open", "shutdown"
          incomplete, \* incomplete[c]: reads that left the request incomplete
          deaf        \* history: an accept failed

vars == <<main, service, accept, new_connection, at, conn, failed, rd, wr, refs,
          born, reply, socket, incomplete, deaf>>

pool == <<at, conn, failed>>
io == <<rd, wr>>
object == <<reply, socket, incomplete>>

first == CHOOSE c \in Conns : TRUE

\* The constructor made the first connection and called async_accept; run() is
\* about to start the pool in a thread of its own.
Init ==
  /\ main = "start" /\ service = "running"
  /\ accept = "pending" /\ new_connection = first
  /\ at = [t \in Threads |-> "new"]
  /\ conn = [t \in Threads |-> NoConn]
  /\ failed = [t \in Threads |-> FALSE]
  /\ rd = [c \in Conns |-> "none"] /\ wr = [c \in Conns |-> "none"]
  /\ refs = [c \in Conns |-> IF c = first THEN 1 ELSE 0]
  /\ born = {first}
  /\ reply = [c \in Conns |-> "none"]
  /\ socket = [c \in Conns |-> "closed"]
  /\ incomplete = [c \in Conns |-> 0]
  /\ deaf = FALSE

-----------------------------------------------------------------------------
(* External: completion of asynchronous operations.                        *)

\* A client connects, or accept fails.  A client is accepted only while there
\* is a connection object left for the next one: a bound of the model.
accept_completes ==
  /\ accept = "pending" /\ service = "running"
  /\ \/ born # Conns /\ accept' = "ok" /\ socket' = [socket EXCEPT ![new_connection] = "open"]
     \/ accept' = "err" /\ UNCHANGED socket
  /\ UNCHANGED <<main, service, new_connection, pool, io, refs, born, reply, incomplete, deaf>>

read_completes(c) ==
  /\ rd[c] = "pending" /\ service = "running"
  /\ \E e \in {"ok", "err"} : rd' = [rd EXCEPT ![c] = e]
  /\ UNCHANGED <<main, service, accept, new_connection, pool, wr, refs, born, object, deaf>>

write_completes(c) ==
  /\ wr[c] = "pending" /\ service = "running"
  /\ \E e \in {"ok", "err"} : wr' = [wr EXCEPT ![c] = e]
  /\ UNCHANGED <<main, service, accept, new_connection, pool, rd, refs, born, object, deaf>>

-----------------------------------------------------------------------------
(* External: io_service::run in the threads of the pool.                   *)

Start(t, step, c, result) ==
  /\ at[t] = "run" /\ service = "running"
  /\ result \in {"ok", "err"}
  /\ at' = [at EXCEPT ![t] = step]
  /\ conn' = [conn EXCEPT ![t] = c]
  /\ failed' = [failed EXCEPT ![t] = (result = "err")]

run_accept(t) ==
  /\ Start(t, "start", NoConn, accept)
  /\ accept' = "none"
  /\ UNCHANGED <<main, service, new_connection, io, refs, born, object, deaf>>

\* strand_.wrap: no other thread runs a handler of c.
StrandFree(c) == \A u \in Threads : conn[u] # c

run_read(t, c) ==
  /\ StrandFree(c)
  /\ Start(t, "parse", c, rd[c])
  /\ rd' = [rd EXCEPT ![c] = "none"]
  /\ UNCHANGED <<main, service, accept, new_connection, wr, refs, born, object, deaf>>

run_write(t, c) ==
  /\ StrandFree(c)
  /\ Start(t, "shutdown", c, wr[c])
  /\ wr' = [wr EXCEPT ![c] = "none"]
  /\ UNCHANGED <<main, service, accept, new_connection, rd, refs, born, object, deaf>>

\* No operation outstanding and no handler running: run() has nothing to wait for.
OutOfWork ==
  /\ accept = "none"
  /\ \A c \in Conns : rd[c] = "none" /\ wr[c] = "none"
  /\ \A t \in Threads : at[t] \in {"new", "run", "left"}

\* run() returns, because of stop() or for lack of work; the latter stops the
\* service for every thread.
leave(t) ==
  /\ at[t] = "run"
  /\ service = "stopped" \/ OutOfWork
  /\ at' = [at EXCEPT ![t] = "left"]
  /\ service' = "stopped"
  /\ UNCHANGED <<main, accept, new_connection, conn, failed, io, refs, born, object, deaf>>

-----------------------------------------------------------------------------
(* server::handle_accept.                                                  *)

Goto(t, from, to) ==
  /\ at[t] = from
  /\ at' = [at EXCEPT ![t] = to]
  /\ UNCHANGED <<conn, failed>>

Begin(op, c) == [op EXCEPT ![c] = "pending"]

\* Mutant: start() binds `this' instead of shared_from_this().
handle_accept_start_raw(t) ==
  /\ \/ /\ failed[t]
        /\ Goto(t, "start", "run")
        /\ deaf' = TRUE
        /\ UNCHANGED rd
     \/ /\ ~failed[t]
        /\ Goto(t, "start", "reset")
        /\ rd' = Begin(rd, new_connection)
        /\ UNCHANGED deaf
  /\ UNCHANGED <<main, service, accept, new_connection, wr, refs, born, object>>

\* Mutant: async_accept is called before new_connection_ is replaced.
handle_accept_start_rearmed(t) ==
  /\ ~failed[t]
  /\ Goto(t, "start", "reset")
  /\ rd' = Begin(rd, new_connection)
  /\ refs' = [refs EXCEPT ![new_connection] = @ + 1]
  /\ accept' = "pending"
  /\ UNCHANGED <<main, service, new_connection, wr, born, object, deaf>>

\* new_connection_->start(): the read's handler holds a shared_ptr.
handle_accept_start(t) ==
  /\ \/ /\ failed[t]
        /\ Goto(t, "start", "run")
        /\ deaf' = TRUE
        /\ UNCHANGED <<rd, refs>>
     \/ /\ ~failed[t]
        /\ Goto(t, "start", "reset")
        /\ rd' = Begin(rd, new_connection)
        /\ refs' = [refs EXCEPT ![new_connection] = @ + 1]
        /\ UNCHANGED deaf
  /\ UNCHANGED <<main, service, accept, new_connection, wr, born, object>>

\* Dropping the last shared_ptr destroys the connection, which closes its socket.
Release(c) == IF refs[c] = 1 THEN [socket EXCEPT ![c] = "closed"] ELSE socket

\* new_connection_.reset(new connection(...)), with any unused name.
handle_accept_reset(t) ==
  /\ Goto(t, "reset", "rearm")
  /\ born # Conns
  /\ LET n == CHOOSE c \in Conns : c \notin born
     IN  /\ refs' = [refs EXCEPT ![new_connection] = @ - 1, ![n] = 1]
         /\ born' = born \cup {n}
         /\ new_connection' = n
  /\ socket' = Release(new_connection)
  /\ UNCHANGED <<main, service, accept, io, reply, incomplete, deaf>>

\* Mutant: the acceptor is not called again.
handle_accept_rearm_forgotten(t) ==
  /\ Goto(t, "rearm", "run")
  /\ UNCHANGED <<main, service, accept, new_connection, io, refs, born, object, deaf>>

\* acceptor_.async_accept, the last thing the handler does.
handle_accept_rearm(t) ==
  /\ Goto(t, "rearm", "run")
  /\ accept' = "pending"
  /\ UNCHANGED <<main, service, new_connection, io, refs, born, object, deaf>>

-----------------------------------------------------------------------------
(* connection::handle_read and connection::handle_write.                   *)

\* Mutant: a malformed request gets the stock reply and the connection reads on.
handle_read_parse_on(t) ==
  LET c == conn[t]
  IN  /\ at[t] = "parse" /\ ~failed[t] /\ incomplete[c] < MaxReads
      /\ Goto(t, "parse", "read")
      /\ reply' = [reply EXCEPT ![c] = "bad_request"]
      /\ incomplete' = [incomplete EXCEPT ![c] = @ + 1]
      /\ UNCHANGED <<main, service, accept, new_connection, io, refs, born, socket, deaf>>

\* The parser consumes the buffer.  A complete request is answered by
\* handle_request, a malformed one by the stock reply; otherwise read on.
handle_read_parse(t) ==
  LET c == conn[t]
  IN  /\ at[t] = "parse"
      /\ \/ failed[t] /\ Goto(t, "parse", "release") /\ UNCHANGED <<reply, incomplete>>
         \/ /\ ~failed[t] /\ Goto(t, "parse", "write")
            /\ \E r \in {"answer", "bad_request"} : reply' = [reply EXCEPT ![c] = r]
            /\ UNCHANGED incomplete
         \/ /\ ~failed[t] /\ incomplete[c] < MaxReads
            /\ Goto(t, "parse", "read")
            /\ incomplete' = [incomplete EXCEPT ![c] = @ + 1]
            /\ UNCHANGED reply
      /\ UNCHANGED <<main, service, accept, new_connection, io, refs, born, socket, deaf>>

\* Mutant: the next request is read while the reply is being written.
handle_read_write_and_read(t) ==
  /\ Goto(t, "write", "release")
  /\ wr' = Begin(wr, conn[t])
  /\ rd' = Begin(rd, conn[t])
  /\ refs' = [refs EXCEPT ![conn[t]] = @ + 2]
  /\ UNCHANGED <<main, service, accept, new_connection, born, object, deaf>>

\* async_write(socket_, reply_.to_buffers(), ...)
handle_read_write(t) ==
  /\ Goto(t, "write", "release")
  /\ wr' = Begin(wr, conn[t])
  /\ refs' = [refs EXCEPT ![conn[t]] = @ + 1]
  /\ UNCHANGED <<main, service, accept, new_connection, rd, born, object, deaf>>

\* Mutant: nothing is started for a request that is not complete.
handle_read_more_forgotten(t) ==
  /\ Goto(t, "read", "release")
  /\ UNCHANGED <<main, service, accept, new_connection, io, refs, born, object, deaf>>

\* async_read_some(...) for the rest of the request
handle_read_more(t) ==
  /\ Goto(t, "read", "release")
  /\ rd' = Begin(rd, conn[t])
  /\ refs' = [refs EXCEPT ![conn[t]] = @ + 1]
  /\ UNCHANGED <<main, service, accept, new_connection, wr, born, object, deaf>>

\* Graceful closure, unless the write failed.
handle_write(t) ==
  /\ Goto(t, "shutdown", "release")
  /\ socket' = IF failed[t] THEN socket ELSE [socket EXCEPT ![conn[t]] = "shutdown"]
  /\ UNCHANGED <<main, service, accept, new_connection, io, refs, born, reply, incomplete, deaf>>

\* Mutant: the handler gives its reference back twice.
handler_returns_twice(t) ==
  /\ at[t] = "release"
  /\ at' = [at EXCEPT ![t] = "run"]
  /\ conn' = [conn EXCEPT ![t] = NoConn]
  /\ refs' = [refs EXCEPT ![conn[t]] = @ - 2]
  /\ socket' = Release(conn[t])
  /\ UNCHANGED <<main, service, accept, new_connection, failed, io, born, reply, incomplete, deaf>>

\* Mutant: the handler leaves a fresh reply_ behind for the next request.
handler_returns_reset(t) ==
  /\ at[t] = "release"
  /\ at' = [at EXCEPT ![t] = "run"]
  /\ conn' = [conn EXCEPT ![t] = NoConn]
  /\ refs' = [refs EXCEPT ![conn[t]] = @ - 1]
  /\ reply' = [reply EXCEPT ![conn[t]] = "none"]
  /\ socket' = Release(conn[t])
  /\ UNCHANGED <<main, service, accept, new_connection, failed, io, born, incomplete, deaf>>

\* The handler object, with the shared_ptr bound into it, is destroyed.
handler_returns(t) ==
  /\ at[t] = "release"
  /\ at' = [at EXCEPT ![t] = "run"]
  /\ conn' = [conn EXCEPT ![t] = NoConn]
  /\ refs' = [refs EXCEPT ![conn[t]] = @ - 1]
  /\ socket' = Release(conn[t])
  /\ UNCHANGED <<main, service, accept, new_connection, failed, io, born, reply, incomplete, deaf>>

-----------------------------------------------------------------------------
(* main and the thread it runs server::run in.                             *)

\* One turn of the loop that creates the pool, possibly after stop().
create_thread(t) ==
  /\ at[t] = "new" /\ main # "killed"
  /\ at' = [at EXCEPT ![t] = "run"]
  /\ UNCHANGED <<main, service, accept, new_connection, conn, failed, io, refs, born, object, deaf>>

\* The process is gone.
terminate ==
  /\ main' = "killed" /\ service' = "stopped" /\ accept' = "none"
  /\ at' = [t \in Threads |-> "left"] /\ conn' = [t \in Threads |-> NoConn]
  /\ rd' = [c \in Conns |-> "none"] /\ wr' = [c \in Conns |-> "none"]
  /\ refs' = [c \in Conns |-> 0] /\ socket' = [c \in Conns |-> "closed"]
  /\ UNCHANGED <<new_connection, failed, born, reply, incomplete, deaf>>

\* The system has no thread left: the exception leaves server::run, which is the
\* function of a thread, so that no handler of main's catches it.
create_thread_throws ==
  /\ main # "killed" /\ \E t \in Threads : at[t] = "new"
  /\ terminate

\* The signals were blocked while the threads inherited the mask; main restores
\* them and blocks the three it waits for.
block_signals ==
  /\ main = "start"
  /\ main' = "sigwait"
  /\ UNCHANGED <<service, accept, new_connection, pool, io, refs, born, object, deaf>>

\* A signal that has arrived when the mask is restored, or comes before it is
\* blocked again, has its default action.
killed == main = "start" /\ terminate

signal ==
  /\ main = "sigwait"
  /\ main' = "stop"
  /\ UNCHANGED <<service, accept, new_connection, pool, io, refs, born, object, deaf>>

\* Mutant: main joins without stopping the service.
stop_forgotten ==
  /\ main = "stop"
  /\ main' = "join"
  /\ UNCHANGED <<service, accept, new_connection, pool, io, refs, born, object, deaf>>

stop ==
  /\ main = "stop"
  /\ main' = "join"
  /\ service' = "stopped"
  /\ UNCHANGED <<accept, new_connection, pool, io, refs, born, object, deaf>>

\* server::run has created every thread of the pool and joined it.
joined == \A t \in Threads : at[t] = "left"

One(p) == IF p THEN 1 ELSE 0

\* t.join(), which waits for server::run; then the server is destroyed, and with
\* it new_connection_ and the handlers that never ran.
exit ==
  /\ main = "join" /\ joined
  /\ main' = "exited"
  /\ accept' = "none"
  /\ rd' = [c \in Conns |-> "none"] /\ wr' = [c \in Conns |-> "none"]
  /\ refs' = [c \in Conns |-> refs[c] - (One(new_connection = c) + One(rd[c] # "none")
                                            + One(wr[c] # "none"))]
  /\ socket' = [c \in Conns |-> IF refs'[c] = 0 THEN "closed" ELSE socket[c]]
  /\ UNCHANGED <<service, new_connection, pool, born, reply, incomplete, deaf>>

-----------------------------------------------------------------------------

Handler(t) ==
  \/ run_accept(t)
  \/ \E c \in Conns : run_read(t, c) \/ run_write(t, c)
  \/ leave(t)
  \/ handle_accept_start(t)
  \/ handle_accept_reset(t)
  \/ handle_accept_rearm(t)
  \/ handle_read_parse(t)
  \/ handle_read_write(t)
  \/ handle_read_more(t)
  \/ handle_write(t)
  \/ handler_returns(t)

Network ==
  \/ accept_completes
  \/ \E c \in Conns : read_completes(c) \/ write_completes(c)

Next ==
  \/ Network
  \/ \E t \in Threads : Handler(t)
  \/ \E t \in Threads : create_thread(t)
  \/ create_thread_throws
  \/ block_signals
  \/ killed
  \/ signal
  \/ stop
  \/ exit

Spec == Init /\ [][Next]_vars

\* server::run, the pool's threads and main are scheduled; clients and signals
\* owe nothing.
FairSpec ==
  /\ Spec
  /\ WF_vars(stop) /\ WF_vars(exit)
  /\ \A t \in Threads : WF_vars(create_thread(t)) /\ WF_vars(Handler(t))

-----------------------------------------------------------------------------

Status == {"none", "pending", "ok", "err"}

\* Type invariant: server, pool and connections; no count of references is negative.
TypeOK ==
  /\ main \in {"start", "sigwait", "stop", "join", "exited", "killed"}
  /\ service \in {"running", "stopped"}
  /\ accept \in Status
  /\ new_connection \in Conns
  /\ at \in [Threads -> {"new", "run", "left", "start", "reset", "rearm", "parse", "write",
                         "read", "shutdown", "release"}]
  /\ conn \in [Threads -> Conns \cup {NoConn}]
  /\ failed \in [Threads -> BOOLEAN]
  /\ rd \in [Conns -> Status] /\ wr \in [Conns -> Status]
  /\ refs \in [Conns -> Nat]
  /\ born \subseteq Conns
  /\ reply \in [Conns -> {"none", "answer", "bad_request"}]
  /\ socket \in [Conns -> {"closed", "open", "shutdown"}]
  /\ incomplete \in [Conns -> 0..MaxReads]
  /\ deaf \in BOOLEAN

\* What refers to c: the server's new_connection_, the handlers of operations
\* under way, the handlers being run.
Serving(c) == {t \in Threads : conn[t] = c}
Holders(c) ==
  One(new_connection = c /\ main \notin {"exited", "killed"})
    + One(rd[c] # "none") + One(wr[c] # "none") + Cardinality(Serving(c))

\* The count of shared_ptrs is the number of holders: a connection that a
\* handler runs on or an operation will call back exists, and one that nobody
\* can reach any more has been destroyed and its socket closed, wherever the
\* accepting thread is between start(), reset() and async_accept.
NoLeakNoDangling ==
  \A c \in Conns :
    /\ refs[c] = Holders(c)
    /\ refs[c] = 0 => socket[c] = "closed"

Accepting(t) == at[t] \in {"start", "reset", "rearm"}

\* handle_accept uses new_connection_ without a lock or a strand: no two threads
\* are in it, and no accept is under way while one is.
AcceptExclusive ==
  \A t \in Threads : Accepting(t) =>
    /\ accept = "none"
    /\ \A u \in Threads : Accepting(u) => u = t

\* While the server runs it accepts, or is about to, unless an accept failed.
KeepsAccepting ==
  service = "running" /\ ~deaf => accept # "none" \/ \E t \in Threads : Accepting(t)

\* One thing at a time per connection: a read, a write, or one thread in one of
\* its handlers before that handler has started the next operation.
OneActivity ==
  \A c \in Conns :
    One(rd[c] # "none") + One(wr[c] # "none")
      + Cardinality({t \in Serving(c) : at[t] # "release"}) <= 1

\* A request is answered once: after the reply is made nothing more is read,
\* and only a connection whose reply was sent is shut down.
AnsweredOnce ==
  \A c \in Conns :
    /\ reply[c] # "none" => rd[c] = "none" /\ \A t \in Threads : conn[t] = c => at[t] \notin {"parse", "read"}
    /\ wr[c] # "none" \/ socket[c] = "shutdown" => reply[c] # "none"

\* "The reply object must remain valid and not be changed until the write
\* operation has completed": reply_ keeps its value while a write is under way.
ReplyStable ==
  [][\A c \in Conns : wr[c] # "none" => reply'[c] = reply[c]]_vars

\* A signal that main was waiting for ends the program: no thread of the pool
\* and no client can hold up stop() and join(), also if stop() comes before
\* server::run has created the pool.  (It dies instead if that fails.)
SignalExits == main = "stop" ~> main \in {"exited", "killed"}

\* A client whose bytes have arrived is not dropped: handle_read goes on to read
\* the rest of the request or to write a reply, although nothing but that operation
\* keeps the connection alive; and a reply that went out (after which nothing is
\* read or written: AnsweredOnce) ends in the graceful closure.  Only the end of
\* the service may come before.
ClientServed ==
  \A c \in Conns :
    rd[c] = "ok" \/ wr[c] = "ok" ~>
      rd[c] = "pending" \/ wr[c] = "pending" \/ socket[c] = "shutdown" \/ service = "stopped"
=============================================================================
