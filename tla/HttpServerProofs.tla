-------------------------- MODULE HttpServerProofs --------------------------
(***************************************************************************)
(* The lifetime and exclusion properties of the HTTP server, for any       *)
(* number of pool threads and connections.  ServerInv is the inductive     *)
(* invariant; its parts say what the handlers rely on without a lock.      *)
(***************************************************************************)
EXTENDS HttpServer, FiniteSetTheorems, TLAPS

Steps == {"parse", "write", "read", "shutdown", "release"}

\* A thread has a connection exactly while it runs a handler of one, and a
\* connection's strand lets one thread in.
Strands ==
  \A t \in Threads :
    /\ conn[t] # NoConn <=> at[t] \in Steps
    /\ conn[t] # NoConn => \A u \in Threads : conn[u] = conn[t] => u = t

\* A connection that was never created is in nobody's hands.
Unborn ==
  /\ new_connection \in born
  /\ \A c \in Conns \ born :
       /\ rd[c] = "none" /\ wr[c] = "none" /\ reply[c] = "none" /\ socket[c] = "closed"
       /\ \A t \in Threads : conn[t] # c

\* The service does not run once main is past stop(), and nothing is left of
\* the server when the process is gone.
Ended ==
  /\ main \in {"join", "exited", "killed"} => service = "stopped"
  /\ main \in {"exited", "killed"} => \A t \in Threads : at[t] \notin Steps /\ ~Accepting(t)

\* Until handle_accept has called start(), nobody but the server uses new_connection_.
Fresh ==
  main # "killed" /\ (\A t \in Threads : at[t] # "reset") =>
    /\ rd[new_connection] = "none" /\ wr[new_connection] = "none"
    /\ reply[new_connection] = "none" /\ socket[new_connection] # "shutdown"
    /\ \A t \in Threads : conn[t] # new_connection

\* An operation under way excludes the other one and a handler that has yet to
\* start an operation.
Alone ==
  \A c \in Conns :
    /\ rd[c] # "none" => wr[c] = "none"
    /\ rd[c] # "none" \/ wr[c] # "none" => \A t \in Threads : conn[t] = c => at[t] = "release"

\* What has been answered is neither read nor parsed; what is written or shut
\* down has been answered.
Answered ==
  /\ AnsweredOnce
  /\ \A t \in Threads : at[t] \in {"write", "shutdown"} => reply[conn[t]] # "none"

Busy(c) == \E t \in Threads : conn[t] = c

\* The count of references, with the one thread a strand admits as one holder.
Counted ==
  \A c \in Conns :
    /\ refs[c] = One(new_connection = c /\ main \notin {"exited", "killed"})
                   + One(rd[c] # "none") + One(wr[c] # "none") + One(Busy(c))
    /\ refs[c] = 0 => socket[c] = "closed"

ServerInv ==
  /\ TypeOK /\ Strands /\ Unborn /\ Ended /\ AcceptExclusive /\ KeepsAccepting
  /\ Fresh /\ Alone /\ Answered /\ Counted

-----------------------------------------------------------------------------

\* The constructor's connection is the server's alone.
LEMMA InitServer == Init => ServerInv
<1> SUFFICES ASSUME Init PROVE ServerInv
  OBVIOUS
<1>0. first \in Conns
  BY ConnsAssumption DEF first
<1> USE <1>0, ConnsAssumption DEF Init
<1>1. TypeOK
  <2>1. failed \in [Threads -> BOOLEAN] /\ deaf \in BOOLEAN
    BY Zenon
  <2>2. refs \in [Conns -> Nat] /\ incomplete \in [Conns -> 0..MaxReads]
    BY BoundsAssumption
  <2> QED BY <2>1, <2>2 DEF TypeOK, Status
<1>2. Strands
  BY DEF Strands, Steps
<1>3. Unborn
  BY DEF Unborn
<1>4. Ended /\ AcceptExclusive /\ KeepsAccepting
  BY DEF Ended, AcceptExclusive, KeepsAccepting, Accepting
<1>5. Fresh /\ Alone
  BY DEF Fresh, Alone
<1>6. Answered
  BY DEF Answered, AnsweredOnce
<1>7. Counted
  BY DEF Counted, One, Busy
<1> QED BY <1>1, <1>2, <1>3, <1>4, <1>5, <1>6, <1>7 DEF ServerInv

\* An accept completes: only new_connection_'s socket is touched, which is the
\* server's while the service runs.
LEMMA AcceptCompletes ==
  ASSUME ServerInv, accept_completes
  PROVE  ServerInv'
<1> USE DEF ServerInv, accept_completes, pool, io
<1>1. TypeOK'
  BY DEF TypeOK, Status
<1>2. Strands' /\ Ended' /\ Alone'
  BY DEF Strands, Ended, Alone, Accepting
<1>3. Unborn'
  BY DEF Unborn, TypeOK
<1>4. AcceptExclusive' /\ KeepsAccepting'
  BY DEF AcceptExclusive, KeepsAccepting, Accepting
<1>5. Fresh'
  BY DEF Fresh, TypeOK
<1>6. Answered'
  BY DEF Answered, AnsweredOnce, TypeOK
<1>7. Counted'
  BY DEF Counted, One, Busy, TypeOK, Ended
<1> QED BY <1>1, <1>2, <1>3, <1>4, <1>5, <1>6, <1>7

\* A read or a write completes: it is still under way, until its handler runs.
LEMMA OperationCompletes ==
  ASSUME ServerInv, NEW c \in Conns, read_completes(c) \/ write_completes(c)
  PROVE  ServerInv'
<1> USE DEF ServerInv, read_completes, write_completes, pool, object
<1>1. TypeOK'
  BY DEF TypeOK, Status
<1>2. Strands' /\ Ended' /\ AcceptExclusive' /\ KeepsAccepting'
  BY DEF Strands, Ended, AcceptExclusive, KeepsAccepting, Accepting
<1>3. Unborn'
  BY DEF Unborn, TypeOK
<1>4. Fresh'
  BY DEF Fresh, TypeOK
<1>5. Alone'
  BY DEF Alone, TypeOK
<1>6. Answered'
  BY DEF Answered, AnsweredOnce, TypeOK
<1>7. Counted'
  BY DEF Counted, One, Busy, TypeOK
<1> QED BY <1>1, <1>2, <1>3, <1>4, <1>5, <1>6, <1>7

\* The error code a handler is started with.
LEMMA StartTypes ==
  ASSUME TypeOK, NEW t \in Threads, NEW step, NEW c, NEW result, Start(t, step, c, result)
  PROVE  failed' \in [Threads -> BOOLEAN]
<1>1. (result = "err") \in BOOLEAN
  BY Zenon
<1> QED BY <1>1, Zenon DEF TypeOK, Start

\* A thread takes up handle_accept.
LEMMA RunAccept ==
  ASSUME ServerInv, NEW t \in Threads, run_accept(t)
  PROVE  ServerInv'
<1>0. failed' \in [Threads -> BOOLEAN]
  BY StartTypes DEF ServerInv, run_accept
<1> USE DEF ServerInv, run_accept, Start, io, object
<1>1. TypeOK'
  BY <1>0 DEF TypeOK, Status
<1>2. Strands'
  BY DEF Strands, Steps, TypeOK
<1>3. Unborn'
  BY ConnsAssumption DEF Unborn, TypeOK
<1>4. Ended'
  BY DEF Ended, TypeOK
<1>5. AcceptExclusive' /\ KeepsAccepting'
  BY DEF AcceptExclusive, KeepsAccepting, Accepting, TypeOK
<1>6. Fresh'
  BY DEF Fresh, TypeOK, Strands, Steps
<1>7. Alone'
  BY DEF Alone, TypeOK, Strands, Steps
<1>8. Answered'
  BY DEF Answered, AnsweredOnce, TypeOK, Strands, Steps
<1>9. Counted'
  BY DEF Counted, One, Busy, TypeOK, Strands, Steps
<1> QED BY <1>1, <1>2, <1>3, <1>4, <1>5, <1>6, <1>7, <1>8, <1>9

\* A thread takes up handle_read: the read is over, the thread is the one its
\* strand admits.
LEMMA RunRead ==
  ASSUME ServerInv, NEW t \in Threads, NEW c \in Conns, run_read(t, c)
  PROVE  ServerInv'
<1>0. failed' \in [Threads -> BOOLEAN]
  BY StartTypes DEF ServerInv, run_read
<1> USE ConnsAssumption DEF ServerInv, run_read, StrandFree, Start, object
<1>1. TypeOK'
  BY <1>0 DEF TypeOK, Status
<1>2. Strands'
  BY DEF Strands, Steps, TypeOK
<1>3. Unborn'
  BY DEF Unborn, TypeOK
<1>4. Ended' /\ AcceptExclusive' /\ KeepsAccepting'
  BY DEF Ended, AcceptExclusive, KeepsAccepting, Accepting, TypeOK
<1>5. Fresh'
  BY DEF Fresh, TypeOK
<1>6. Alone'
  BY DEF Alone, TypeOK
<1>7. Answered'
  BY DEF Answered, AnsweredOnce, TypeOK
<1>8. Counted'
  <2>1. \A d \in Conns : Busy(d)' <=> d = c \/ Busy(d)
    BY DEF Busy, TypeOK, Strands, Steps
  <2> QED BY <2>1 DEF Counted, One, Busy, TypeOK
<1> QED BY <1>1, <1>2, <1>3, <1>4, <1>5, <1>6, <1>7, <1>8

\* A thread takes up handle_write.
LEMMA RunWrite ==
  ASSUME ServerInv, NEW t \in Threads, NEW c \in Conns, run_write(t, c)
  PROVE  ServerInv'
<1>0. failed' \in [Threads -> BOOLEAN]
  BY StartTypes DEF ServerInv, run_write
<1> USE ConnsAssumption DEF ServerInv, run_write, StrandFree, Start, object
<1>1. TypeOK'
  BY <1>0 DEF TypeOK, Status
<1>2. Strands'
  BY DEF Strands, Steps, TypeOK
<1>3. Unborn'
  BY DEF Unborn, TypeOK
<1>4. Ended' /\ AcceptExclusive' /\ KeepsAccepting'
  BY DEF Ended, AcceptExclusive, KeepsAccepting, Accepting, TypeOK
<1>5. Fresh'
  BY DEF Fresh, TypeOK
<1>6. Alone'
  BY DEF Alone, TypeOK
<1>7. Answered'
  BY DEF Answered, AnsweredOnce, TypeOK
<1>8. Counted'
  <2>1. \A d \in Conns : Busy(d)' <=> d = c \/ Busy(d)
    BY DEF Busy, TypeOK, Strands, Steps
  <2> QED BY <2>1 DEF Counted, One, Busy, TypeOK
<1> QED BY <1>1, <1>2, <1>3, <1>4, <1>5, <1>6, <1>7, <1>8

\* A thread enters or leaves io_service::run.
LEMMA ThreadMoves ==
  ASSUME ServerInv, NEW t \in Threads, leave(t) \/ create_thread(t)
  PROVE  ServerInv'
<1> USE DEF ServerInv, leave, create_thread, io, object
<1>1. TypeOK'
  BY DEF TypeOK
<1>2. Strands' /\ Unborn'
  BY DEF Strands, Steps, Unborn, TypeOK
<1>3. Ended' /\ AcceptExclusive' /\ KeepsAccepting'
  BY DEF Ended, Steps, AcceptExclusive, KeepsAccepting, Accepting, TypeOK
<1>4. Fresh' /\ Alone'
  BY DEF Fresh, Alone, TypeOK, Strands, Steps
<1>5. Answered'
  BY DEF Answered, AnsweredOnce, TypeOK, Strands, Steps
<1>6. Counted'
  BY DEF Counted, One, Busy, TypeOK
<1> QED BY <1>1, <1>2, <1>3, <1>4, <1>5, <1>6

\* start() of new_connection_, which nobody else has yet; or the accept failed
\* and handle_accept returns without calling async_accept again.
LEMMA AcceptStarts ==
  ASSUME ServerInv, NEW t \in Threads, handle_accept_start(t)
  PROVE  ServerInv'
<1> USE DEF ServerInv, handle_accept_start, Goto, Begin, object
<1>0. new_connection \in Conns
  BY DEF TypeOK
<1>1. TypeOK'
  <2>1. deaf' \in BOOLEAN
    BY Zenon DEF TypeOK
  <2> QED BY <2>1 DEF TypeOK, Status
<1>2. Strands' /\ Unborn'
  BY DEF Strands, Steps, Unborn, TypeOK
<1>3. Ended' /\ AcceptExclusive' /\ KeepsAccepting'
  BY DEF Ended, Steps, AcceptExclusive, KeepsAccepting, Accepting, TypeOK
<1>4. main \notin {"exited", "killed"} /\ \A u \in Threads : at[u] # "reset"
  BY DEF Ended, AcceptExclusive, Accepting, TypeOK
<1>5. Fresh'
  BY <1>4 DEF Fresh, TypeOK
<1>6. Alone'
  BY <1>0, <1>4 DEF Fresh, Alone, TypeOK, Strands, Steps
<1>7. Answered'
  BY <1>0, <1>4 DEF Fresh, Answered, AnsweredOnce, TypeOK, Strands, Steps
<1>8. Counted'
  BY <1>0, <1>4 DEF Fresh, Counted, One, Busy, TypeOK
<1> QED BY <1>1, <1>2, <1>3, <1>5, <1>6, <1>7, <1>8

\* new_connection_.reset: the server lets go of the connection it started and
\* holds a fresh one.
LEMMA AcceptResets ==
  ASSUME ServerInv, NEW t \in Threads, handle_accept_reset(t)
  PROVE  ServerInv'
<1>0. PICK n \in Conns \ born :
        /\ refs' = [refs EXCEPT ![new_connection] = @ - 1, ![n] = 1]
        /\ born' = born \cup {n}
        /\ new_connection' = n
  BY DEF handle_accept_reset, ServerInv, TypeOK
<1>a. at[t] = "reset" /\ at' = [at EXCEPT ![t] = "rearm"] /\ socket' = Release(new_connection)
  BY DEF handle_accept_reset, Goto
<1>b. UNCHANGED <<main, service, accept, conn, failed, rd, wr, reply, incomplete, deaf>>
  BY DEF handle_accept_reset, Goto, io
<1>c. new_connection \in born /\ new_connection \in Conns /\ new_connection # n
  BY DEF ServerInv, Unborn, TypeOK
<1>d. main \notin {"exited", "killed"} /\ refs[new_connection] >= 1
  BY <1>a, <1>c DEF ServerInv, Ended, Accepting, Counted, One
<1>e. socket' \in [Conns -> {"closed", "open", "shutdown"}]
  BY <1>a, <1>c DEF Release, ServerInv, TypeOK
<1>f. \A c \in Conns : socket'[c] = socket[c] \/ socket'[c] = "closed"
  BY <1>a, <1>c DEF Release, ServerInv, TypeOK
<1> USE DEF ServerInv
<1>1. TypeOK'
  <2>1. refs' \in [Conns -> Nat]
    BY <1>0, <1>c, <1>d DEF TypeOK
  <2>2. born' \subseteq Conns /\ new_connection' \in Conns
    BY <1>0 DEF TypeOK
  <2>3. UNCHANGED <<main, service, accept, conn, failed, rd, wr, reply, incomplete, deaf>>
    BY <1>b
  <2> QED BY <1>a, <1>e, <2>1, <2>2, <2>3 DEF TypeOK
<1>2. Strands' /\ Ended'
  BY <1>a, <1>b, <1>d DEF Strands, Steps, Ended, TypeOK, Accepting
<1>3. Unborn'
  BY <1>0, <1>b, <1>f DEF Unborn, TypeOK
<1>4. AcceptExclusive' /\ KeepsAccepting'
  BY <1>a, <1>b DEF AcceptExclusive, KeepsAccepting, Accepting, TypeOK
<1>5. Fresh'
  BY <1>0, <1>b, <1>f DEF Fresh, Unborn, TypeOK
<1>6. Alone'
  BY <1>a, <1>b DEF Alone, TypeOK, Strands, Steps
<1>7. Answered'
  BY <1>a, <1>b, <1>f DEF Answered, AnsweredOnce, TypeOK, Strands, Steps
<1>8. Counted'
  <2>1. \A c \in Conns : Busy(c)' <=> Busy(c)
    BY <1>b DEF Busy
  <2>2. ~Busy(n) /\ rd[n] = "none" /\ wr[n] = "none"
    BY DEF Unborn, Busy
  <2>3. socket' = IF refs[new_connection] = 1
                    THEN [socket EXCEPT ![new_connection] = "closed"] ELSE socket
    BY <1>a DEF Release
  <2> QED BY <1>0, <1>b, <1>c, <1>d, <2>1, <2>2, <2>3 DEF Counted, One, TypeOK
<1> QED BY <1>1, <1>2, <1>3, <1>4, <1>5, <1>6, <1>7, <1>8

\* async_accept, the last thing handle_accept does.
LEMMA AcceptRearms ==
  ASSUME ServerInv, NEW t \in Threads, handle_accept_rearm(t)
  PROVE  ServerInv'
<1> USE DEF ServerInv, handle_accept_rearm, Goto, io, object
<1>1. TypeOK'
  BY DEF TypeOK, Status
<1>2. Strands' /\ Unborn'
  BY DEF Strands, Steps, Unborn, TypeOK
<1>3. Ended' /\ AcceptExclusive' /\ KeepsAccepting'
  BY DEF Ended, Steps, AcceptExclusive, KeepsAccepting, Accepting, TypeOK
<1>4. Fresh'
  BY DEF Fresh, AcceptExclusive, Accepting, TypeOK
<1>5. Alone'
  BY DEF Alone, TypeOK, Strands, Steps
<1>6. Answered'
  BY DEF Answered, AnsweredOnce, TypeOK, Strands, Steps
<1>7. Counted'
  BY DEF Counted, One, Busy, TypeOK
<1> QED BY <1>1, <1>2, <1>3, <1>4, <1>5, <1>6, <1>7

\* handle_read parses: a reply is made only where there was none.
LEMMA ReadParses ==
  ASSUME ServerInv, NEW t \in Threads, handle_read_parse(t)
  PROVE  ServerInv'
<1>0. conn[t] \in Conns
  BY DEF handle_read_parse, ServerInv, Strands, Steps, TypeOK
<1> USE <1>0, BoundsAssumption DEF ServerInv, handle_read_parse, Goto, io
<1>1. TypeOK'
  BY DEF TypeOK
<1>2. Strands' /\ Ended'
  BY DEF Strands, Steps, Ended, Accepting, TypeOK
<1>3. Unborn'
  BY DEF Unborn, TypeOK
<1>4. AcceptExclusive' /\ KeepsAccepting'
  BY DEF AcceptExclusive, KeepsAccepting, Accepting, TypeOK
<1>5. Fresh'
  BY DEF Fresh, TypeOK
<1>6. Alone'
  BY DEF Alone, TypeOK
<1>7. Answered'
  BY DEF Answered, AnsweredOnce, Alone, TypeOK, Strands, Steps
<1>8. Counted'
  BY DEF Counted, One, Busy, TypeOK
<1> QED BY <1>1, <1>2, <1>3, <1>4, <1>5, <1>6, <1>7, <1>8

\* handle_read starts the write of the reply, or the next read.
LEMMA OperationStarts ==
  ASSUME ServerInv, NEW t \in Threads, handle_read_write(t) \/ handle_read_more(t)
  PROVE  ServerInv'
<1>0. conn[t] \in Conns /\ conn[t] \in born
  BY DEF handle_read_write, handle_read_more, Goto, ServerInv, Strands, Steps, TypeOK, Unborn
<1>a. at[t] \in {"write", "read"} /\ at' = [at EXCEPT ![t] = "release"] /\ UNCHANGED conn
  BY DEF handle_read_write, handle_read_more, Goto
<1>b. rd[conn[t]] = "none" /\ wr[conn[t]] = "none"
  BY <1>0, <1>a DEF ServerInv, Alone
<1> USE <1>0 DEF ServerInv, handle_read_write, handle_read_more, Goto, Begin, object
<1>1. TypeOK'
  BY DEF TypeOK, Status
<1>2. Strands' /\ Ended'
  BY DEF Strands, Steps, Ended, Accepting, TypeOK
<1>3. Unborn'
  BY DEF Unborn, TypeOK
<1>4. AcceptExclusive' /\ KeepsAccepting'
  BY DEF AcceptExclusive, KeepsAccepting, Accepting, TypeOK
<1>5. Fresh'
  BY DEF Fresh, TypeOK
<1>6. Alone'
  BY <1>b, ConnsAssumption DEF Alone, TypeOK, Strands
<1>7. Answered'
  BY DEF Answered, AnsweredOnce, TypeOK, Strands, Steps
<1>8. Counted'
  BY <1>b DEF Counted, One, Busy, TypeOK
<1> QED BY <1>1, <1>2, <1>3, <1>4, <1>5, <1>6, <1>7, <1>8

\* handle_write shuts down a connection that has been answered.
LEMMA WriteShutsDown ==
  ASSUME ServerInv, NEW t \in Threads, handle_write(t)
  PROVE  ServerInv'
<1>0. conn[t] \in Conns /\ conn[t] \in born
  BY DEF handle_write, Goto, ServerInv, Strands, Steps, TypeOK, Unborn
<1>a. refs[conn[t]] # 0 /\ reply[conn[t]] # "none"
  BY <1>0 DEF handle_write, Goto, ServerInv, Counted, One, Busy, Answered
<1> USE <1>0 DEF ServerInv, handle_write, Goto, io
<1>1. TypeOK'
  BY DEF TypeOK
<1>2. Strands' /\ Ended'
  BY DEF Strands, Steps, Ended, Accepting, TypeOK
<1>3. Unborn'
  BY DEF Unborn, TypeOK
<1>4. AcceptExclusive' /\ KeepsAccepting'
  BY DEF AcceptExclusive, KeepsAccepting, Accepting, TypeOK
<1>5. Fresh'
  BY DEF Fresh, TypeOK
<1>6. Alone'
  BY DEF Alone, TypeOK, Strands
<1>7. Answered'
  BY <1>a DEF Answered, AnsweredOnce, TypeOK, Strands, Steps
<1>8. Counted'
  BY <1>a DEF Counted, One, Busy, TypeOK
<1> QED BY <1>1, <1>2, <1>3, <1>4, <1>5, <1>6, <1>7, <1>8

\* A handler is destroyed with the shared_ptr bound into it.
LEMMA HandlerReturns ==
  ASSUME ServerInv, NEW t \in Threads, handler_returns(t)
  PROVE  ServerInv'
<1>0. conn[t] \in Conns /\ \A u \in Threads : conn[u] = conn[t] => u = t
  BY DEF handler_returns, ServerInv, Strands, Steps, TypeOK
<1>a. refs[conn[t]] >= 1
  BY <1>0 DEF ServerInv, Counted, One, Busy
<1>b. socket' \in [Conns -> {"closed", "open", "shutdown"}]
  BY <1>0 DEF handler_returns, Release, ServerInv, TypeOK
<1>c. \A c \in Conns : socket'[c] = socket[c] \/ socket'[c] = "closed"
  BY <1>0 DEF handler_returns, Release, ServerInv, TypeOK
<1> USE ConnsAssumption DEF ServerInv, handler_returns, io
<1>1. TypeOK'
  BY <1>0, <1>a, <1>b DEF TypeOK
<1>2. Strands' /\ Ended'
  BY DEF Strands, Steps, Ended, Accepting, TypeOK
<1>3. Unborn'
  BY <1>c DEF Unborn, TypeOK
<1>4. AcceptExclusive' /\ KeepsAccepting'
  BY DEF AcceptExclusive, KeepsAccepting, Accepting, TypeOK
<1>5. Fresh'
  BY <1>c DEF Fresh, TypeOK
<1>6. Alone'
  BY DEF Alone, TypeOK
<1>7. Answered'
  BY <1>c DEF Answered, AnsweredOnce, TypeOK, Strands, Steps
<1>8. Counted'
  <2>1. \A c \in Conns : Busy(c)' <=> c # conn[t] /\ Busy(c)
    BY <1>0 DEF Busy, TypeOK
  <2>2. Busy(conn[t])
    BY DEF Busy
  <2> QED BY <1>0, <1>a, <2>1, <2>2 DEF Counted, One, TypeOK, Release
<1> QED BY <1>1, <1>2, <1>3, <1>4, <1>5, <1>6, <1>7, <1>8

\* Steps of main that leave the pool and the connections alone.
LEMMA MainMoves ==
  ASSUME ServerInv, block_signals \/ signal \/ stop
  PROVE  ServerInv'
<1> USE DEF ServerInv, block_signals, signal, stop, pool, io, object
<1>1. TypeOK'
  BY DEF TypeOK
<1>2. Strands' /\ Unborn' /\ Ended' /\ AcceptExclusive' /\ KeepsAccepting'
  BY DEF Strands, Unborn, Ended, AcceptExclusive, KeepsAccepting, Accepting
<1>3. Fresh' /\ Alone'
  BY DEF Fresh, Alone
<1>4. Answered' /\ Counted'
  BY DEF Answered, AnsweredOnce, Counted, One, Busy
<1> QED BY <1>1, <1>2, <1>3, <1>4

\* The process dies with everything it held.
LEMMA Terminates ==
  ASSUME ServerInv, terminate
  PROVE  ServerInv'
<1> USE ConnsAssumption DEF ServerInv, terminate
<1>1. TypeOK'
  BY DEF TypeOK, Status
<1>2. Strands' /\ Unborn'
  BY DEF Strands, Steps, Unborn, TypeOK
<1>3. Ended' /\ AcceptExclusive' /\ KeepsAccepting' /\ Fresh' /\ Alone'
  BY DEF Ended, Steps, AcceptExclusive, KeepsAccepting, Accepting, Fresh, Alone
<1>4. Answered'
  BY DEF Answered, AnsweredOnce
<1>5. Counted'
  BY DEF Counted, One, Busy, TypeOK
<1> QED BY <1>1, <1>2, <1>3, <1>4, <1>5

\* The pool has been joined: the server's references are the last ones.
LEMMA Exits ==
  ASSUME ServerInv, exit
  PROVE  ServerInv'
<1>0. \A t \in Threads : conn[t] = NoConn
  BY DEF ServerInv, exit, joined, Strands, Steps
<1>1. \A c \in Conns : refs'[c] = 0 /\ socket'[c] = "closed"
  BY <1>0, ConnsAssumption DEF ServerInv, exit, Counted, Busy, One
<1> USE ConnsAssumption DEF ServerInv, exit, pool
<1>2. TypeOK'
  <2>1. refs' \in [Conns -> Nat] /\ socket' \in [Conns -> {"closed", "open", "shutdown"}]
    BY <1>1
  <2> QED BY <2>1 DEF TypeOK, Status
<1>3. Strands' /\ Unborn'
  BY <1>1 DEF Strands, Steps, Unborn, TypeOK
<1>4. Ended' /\ AcceptExclusive' /\ KeepsAccepting'
  BY DEF Ended, Steps, AcceptExclusive, KeepsAccepting, Accepting, joined
<1>5. Fresh'
  BY <1>0, <1>1 DEF Fresh, joined, TypeOK
<1>6. Alone'
  BY DEF Alone
<1>7. Answered'
  BY <1>1 DEF Answered, AnsweredOnce, TypeOK
<1>8. Counted'
  BY <1>0, <1>1 DEF Counted, One, Busy
<1> QED BY <1>2, <1>3, <1>4, <1>5, <1>6, <1>7, <1>8
-----------------------------------------------------------------------------

\* Every step keeps the invariant.
LEMMA NextKeeps == ServerInv /\ [Next]_vars => ServerInv'
<1> SUFFICES ASSUME ServerInv, [Next]_vars PROVE ServerInv'
  OBVIOUS
<1>1. CASE Network
  BY <1>1, AcceptCompletes, OperationCompletes DEF Network
<1>2. ASSUME NEW t \in Threads, Handler(t) PROVE ServerInv'
  BY <1>2, RunAccept, RunRead, RunWrite, ThreadMoves, AcceptStarts, AcceptResets,
     AcceptRearms, ReadParses, OperationStarts, WriteShutsDown, HandlerReturns
  DEF Handler
<1>3. ASSUME NEW t \in Threads, create_thread(t) PROVE ServerInv'
  BY <1>3, ThreadMoves
<1>4. CASE block_signals \/ signal \/ stop
  BY <1>4, MainMoves
<1>5. CASE killed \/ create_thread_throws
  BY <1>5, Terminates DEF killed, create_thread_throws
<1>6. CASE exit
  BY <1>6, Exits
<1>7. CASE UNCHANGED vars
  <2> USE <1>7 DEF vars, ServerInv
  <2>1. TypeOK' /\ Strands' /\ Unborn' /\ Ended'
    BY DEF TypeOK, Strands, Unborn, Ended, Accepting
  <2>2. AcceptExclusive' /\ KeepsAccepting' /\ Fresh' /\ Alone'
    BY DEF AcceptExclusive, KeepsAccepting, Accepting, Fresh, Alone
  <2>3. Answered' /\ Counted'
    BY DEF Answered, AnsweredOnce, Counted, Busy, One
  <2> QED BY <2>1, <2>2, <2>3
<1> QED BY <1>1, <1>2, <1>3, <1>4, <1>5, <1>6, <1>7 DEF Next

\* ServerInv holds in every reachable state.
LEMMA ServerInvariant == Spec => []ServerInv
<1> QED BY InitServer, NextKeeps, PTL DEF Spec

\* A strand admits one thread, so the threads serving a connection are counted
\* by whether there is one.
LEMMA OneServes ==
  ASSUME TypeOK, Strands, NEW c \in Conns, NEW S \in SUBSET Serving(c)
  PROVE  Cardinality(S) = One(S # {})
<1>1. CASE S = {}
  BY <1>1, FS_EmptySet DEF One
<1>2. CASE S # {}
  <2>1. PICK t \in S : TRUE
    BY <1>2
  <2>2. \A u \in Serving(c) : u = t
    BY <2>1, ConnsAssumption DEF Serving, Strands
  <2>3. S = {t}
    BY <2>1, <2>2
  <2> QED BY <2>3, FS_Singleton DEF One
<1> QED BY <1>1, <1>2

\* Server, pool and connections stay well typed; in particular no count of
\* references is ever taken below zero.
THEOREM Typed == Spec => []TypeOK
<1>1. ServerInv => TypeOK
  BY DEF ServerInv
<1> QED BY <1>1, ServerInvariant, PTL

\* However many threads serve however many connections, the count of
\* shared_ptrs is the number of holders at every step of every handler, and a
\* connection whose count is zero has a closed socket.
THEOREM ConnectionsLiveAsHeld == Spec => []NoLeakNoDangling
<1>1. ServerInv => NoLeakNoDangling
  <2> SUFFICES ASSUME ServerInv, NEW c \in Conns
               PROVE  refs[c] = Holders(c) /\ (refs[c] = 0 => socket[c] = "closed")
    BY DEF NoLeakNoDangling
  <2>1. Cardinality(Serving(c)) = One(Serving(c) # {})
    BY OneServes DEF ServerInv
  <2>2. Serving(c) # {} <=> Busy(c)
    BY DEF Serving, Busy
  <2>3. One(Serving(c) # {}) = One(Busy(c))
    BY <2>2 DEF One
  <2> QED BY <2>1, <2>3 DEF ServerInv, Counted, Holders
<1> QED BY <1>1, ServerInvariant, PTL

\* No two threads are in handle_accept, which uses new_connection_ without a
\* lock, and no accept is under way while one is.
THEOREM HandleAcceptExclusive == Spec => []AcceptExclusive
<1>1. ServerInv => AcceptExclusive
  BY DEF ServerInv
<1> QED BY <1>1, ServerInvariant, PTL

\* A running server whose accepts did not fail has an accept under way or a
\* thread in handle_accept.
THEOREM ServerKeepsAccepting == Spec => []KeepsAccepting
<1>1. ServerInv => KeepsAccepting
  BY DEF ServerInv
<1> QED BY <1>1, ServerInvariant, PTL

\* A connection has one activity: a read, a write, or one thread in a handler
\* that has not started the next operation.
THEOREM OneActivityPerConnection == Spec => []OneActivity
<1>1. ServerInv => OneActivity
  <2> SUFFICES ASSUME ServerInv, NEW c \in Conns
               PROVE  One(rd[c] # "none") + One(wr[c] # "none")
                        + Cardinality({t \in Serving(c) : at[t] # "release"}) <= 1
    BY DEF OneActivity
  <2> DEFINE S == {t \in Serving(c) : at[t] # "release"}
  <2>1. Cardinality(S) = One(S # {})
    BY OneServes DEF ServerInv
  <2>2. rd[c] # "none" \/ wr[c] # "none" => S = {}
    BY DEF ServerInv, Alone, Serving
  <2>3. rd[c] # "none" => wr[c] = "none"
    BY DEF ServerInv, Alone
  <2> QED BY <2>1, <2>2, <2>3 DEF One
<1> QED BY <1>1, ServerInvariant, PTL

\* Nothing more is read from a connection that has its reply, and only an
\* answered connection is written to or shut down.
THEOREM RequestAnsweredOnce == Spec => []AnsweredOnce
<1>1. ServerInv => AnsweredOnce
  BY DEF ServerInv, Answered
<1> QED BY <1>1, ServerInvariant, PTL

\* "The reply object must remain valid and not be changed until the write
\* operation has completed": only handle_read_parse writes reply_, in a thread
\* that excludes a write of that connection.
THEOREM ReplyUnchangedWhileWritten == Spec => ReplyStable
<1> DEFINE Stable == \A c \in Conns : wr[c] # "none" => reply'[c] = reply[c]
<1>1. ServerInv /\ [Next]_vars => [Stable]_vars
  <2> SUFFICES ASSUME ServerInv, Next PROVE Stable
    OBVIOUS
  <2>1. CASE UNCHANGED reply
    BY <2>1
  <2>2. ASSUME NEW t \in Threads, handle_read_parse(t) PROVE Stable
    <3>1. conn[t] \in Conns /\ wr[conn[t]] = "none"
      BY <2>2 DEF handle_read_parse, ServerInv, Strands, Steps, TypeOK, Alone
    <3>2. \A c \in Conns : c # conn[t] => reply'[c] = reply[c]
      BY <2>2 DEF handle_read_parse, ServerInv, TypeOK
    <3> QED BY <3>1, <3>2
  <2>3. UNCHANGED reply \/ \E t \in Threads : handle_read_parse(t)
    <3>1. Network => UNCHANGED reply
      BY DEF Network, accept_completes, read_completes, write_completes, object
    <3>2. ASSUME NEW t \in Threads, Handler(t) PROVE UNCHANGED reply \/ handle_read_parse(t)
      BY <3>2 DEF Handler, run_accept, run_read, run_write, leave, handle_accept_start,
        handle_accept_reset, handle_accept_rearm, handle_read_write, handle_read_more,
        handle_write, handler_returns, object
    <3>3. block_signals \/ killed \/ create_thread_throws \/ signal \/ stop \/ exit
            \/ (\E t \in Threads : create_thread(t)) => UNCHANGED reply
      BY DEF block_signals, killed, create_thread_throws, terminate, signal, stop, exit,
        create_thread, object
    <3> QED BY <3>1, <3>2, <3>3 DEF Next
  <2> QED BY <2>1, <2>2, <2>3
<1> QED BY <1>1, ServerInvariant, PTL DEF Spec, ReplyStable
=============================================================================
