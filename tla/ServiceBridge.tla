--------------------------- MODULE ServiceBridge ---------------------------
(***************************************************************************)
(* ServiceBridge_Server of test/test01_server.cpp, from the constructor    *)
(* that parses the service file to the end of main: the table of services, *)
(* the sizing and creation of the thread pool, its two inspections by      *)
(* main, the stop of the scheduler and the destruction of the server.  The *)
(* pool's threads run io_service::run (external), which returns only after *)
(* stop() as long as `dispatcher', an io_service::work, exists.            *)
(***************************************************************************)
EXTENDS ServiceFile, FiniteSets

CONSTANTS Lines,       \* what a line of the service file may be
          MaxLines,    \* bound: lines of the service file
          PerTopic,    \* values of the constructor's nThreadP
          Cpus         \* values of hardware_concurrency(); 0 when unknown

ASSUME LinesAssumption == Lines \subseteq Seq(STRING)
ASSUME BoundsAssumption == MaxLines \in Nat
ASSUME PoolAssumption == PerTopic \subseteq Nat \ {0} /\ Cpus \subseteq Nat

VARIABLES unread,           \* how many lines of the file are still to be parsed
          line, servSpec,   \* the line being parsed and its attributes
          nThreadP,         \* constructor argument
          CPU_lim,          \* hardware_concurrency() * 2
          services,         \* names of `services', in order
          serviceNames,
          NthreadsPerTopic, MtotalThreads,
          threads,          \* threads[k]: "started", "running", "returned", "joined"
          scheduler,        \* "up", "stopped", "destroyed"
          main,             \* where main is
          i,                \* the thread main inspects
          dead,             \* dead[p]: threads that inspection p found dead
          pass              \* inspection 1 or 2

vars == <<unread, line, servSpec, nThreadP, CPU_lim, services, serviceNames, NthreadsPerTopic,
          MtotalThreads, threads, scheduler, main, i, dead, pass>>

file == <<unread, line, servSpec>>
pool == <<threads, scheduler>>
setup == <<nThreadP, CPU_lim>>
table == <<services, serviceNames>>
sizes == <<NthreadsPerTopic, MtotalThreads>>
probe == <<i, dead, pass>>

minAttrs == 4
maxElems == 32

\* The names a line with enough attributes can give a service.
Specs == {split_CSV_line(l) : l \in Lines}
Topics == {spec[1] : spec \in {spec \in Specs : Len(spec) >= minAttrs}}

\* How many lines the file has: none if it does not exist.
readlines == 0..MaxLines

\* The acceptor's constructor throws, and ends the program, when the port is taken.
Init ==
  /\ unread \in readlines /\ line = <<>> /\ servSpec = <<>>
  /\ nThreadP \in PerTopic
  /\ CPU_lim \in {2 * c : c \in Cpus}
  /\ services = <<>> /\ serviceNames = {}
  /\ NthreadsPerTopic = nThreadP /\ MtotalThreads = 0
  /\ threads = <<>>
  /\ scheduler = "up"
  /\ main \in {"parse", "terminated"}
  /\ i = 1 /\ dead = [p \in 1..2 |-> 0] /\ pass = 1

-----------------------------------------------------------------------------
(* The constructor.                                                        *)

container_has(container, element) == element \in container

Numbers(spec) == {stoull(spec[k]) : k \in 2..minAttrs}

\* The greater of reqLen and rspLen; the queue size is not looked at.
TooLong(spec) == Max({stoull(spec[3]), stoull(spec[4])}) > maxElems

\* Mutant: the name is not looked up before the service is added.
add_service_unchecked(spec) ==
  IF TooLong(spec) THEN UNCHANGED table
  ELSE /\ services' = Append(services, spec[1])
       /\ serviceNames' = serviceNames \cup {spec[1]}

add_service(spec) ==
  IF container_has(serviceNames, spec[1]) \/ TooLong(spec) THEN UNCHANGED table
  ELSE /\ services' = Append(services, spec[1])
       /\ serviceNames' = serviceNames \cup {spec[1]}

\* The loop over the file fetches a line and splits it.
split_line(l) ==
  /\ main = "parse" /\ unread > 0
  /\ unread' = unread - 1
  /\ line' = l /\ servSpec' = split_CSV_line(l)
  /\ main' = "spec"
  /\ UNCHANGED <<setup, table, sizes, pool, probe>>

\* The rest of the loop's body.  std::stoull throws through the constructor
\* and main, which ends the program.
parse_line ==
  /\ main = "spec"
  /\ \/ /\ Len(servSpec) < minAttrs
        /\ main' = "parse" /\ UNCHANGED table
     \/ /\ Len(servSpec) >= minAttrs /\ -1 \in Numbers(servSpec)
        /\ main' = "terminated" /\ UNCHANGED table
     \/ /\ Len(servSpec) >= minAttrs /\ -1 \notin Numbers(servSpec)
        /\ main' = "parse" /\ add_service(servSpec)
  /\ line' = <<>> /\ servSpec' = <<>>
  /\ UNCHANGED <<unread, setup, sizes, pool, probe>>

\* The result of parse_service_file, false for a file of fewer than minLines
\* lines, is ignored by the constructor.
parse_done ==
  /\ main = "parse" /\ unread = 0
  /\ main' = "address"
  /\ UNCHANGED <<file, setup, table, sizes, pool, probe>>

-----------------------------------------------------------------------------
(* init_server.                                                            *)

\* get_host_address calls exit(1) when the host name cannot be resolved.
get_local_ip_addr ==
  /\ main = "address"
  /\ main' \in {"size", "exited"}
  /\ UNCHANGED <<file, setup, table, sizes, pool, probe>>

\* The threads asked for, capped by CPU_lim when that is known.
Capped(N, S, lim) == IF lim > 0 /\ lim < N * S THEN lim ELSE N * S

\* Mutant: the remainder is not handed out.
PerService_floor(N, S, lim) == Capped(N, S, lim) \div S

\* Mutant: the cap is handed to each service.
PerService_cap(N, S, lim) ==
  (Capped(N, S, lim) \div S) + (IF S > 1 THEN Capped(N, S, lim) ELSE 0)

\* Threads per topic: the share of the capped total, plus its remainder.
PerService(N, S, lim) ==
  (Capped(N, S, lim) \div S) + (IF S > 1 THEN Capped(N, S, lim) % S ELSE 0)

size_pool ==
  LET numServices == Cardinality(serviceNames)
  IN  /\ main = "size"
      /\ \/ numServices = 0 /\ main' = "sigfpe" /\ UNCHANGED sizes
         \/ /\ numServices > 0
            /\ NthreadsPerTopic' = PerService(NthreadsPerTopic, numServices, CPU_lim)
            /\ MtotalThreads' = NthreadsPerTopic' * numServices
            /\ main' = "create"
      /\ UNCHANGED <<file, setup, table, pool, probe>>

\* One boost::thread; its constructor throws when the system has no thread left.
create_thread ==
  /\ main = "create" /\ Len(threads) < MtotalThreads
  /\ \/ threads' = Append(threads, "started") /\ UNCHANGED main
     \/ main' = "terminated" /\ UNCHANGED threads
  /\ UNCHANGED <<file, setup, table, sizes, scheduler, probe>>

init_server_returns ==
  /\ main = "create" /\ Len(threads) = MtotalThreads
  /\ main' = "probe"
  /\ UNCHANGED <<file, setup, table, sizes, pool, probe>>

-----------------------------------------------------------------------------
(* The rest of main.                                                       *)

\* Mutant: join() instead of try_join_for.
try_join_blocking ==
  /\ main = "probe" /\ i <= Len(threads)
  /\ threads[i] \in {"returned", "joined"}
  /\ threads' = [threads EXCEPT ![i] = "joined"]
  /\ dead' = [dead EXCEPT ![pass] = @ + 1]
  /\ i' = i + 1
  /\ UNCHANGED <<file, setup, table, sizes, scheduler, main, pass>>

\* try_join_for(1ns) succeeds when the thread has returned and gives up when
\* it has not; a thread already joined is not joinable and not counted.
try_join ==
  /\ main = "probe" /\ i <= Len(threads)
  /\ \/ /\ threads[i] = "returned"
        /\ threads' = [threads EXCEPT ![i] = "joined"]
        /\ dead' = [dead EXCEPT ![pass] = @ + 1]
     \/ threads[i] # "returned" /\ UNCHANGED <<threads, dead>>
  /\ i' = i + 1
  /\ UNCHANGED <<file, setup, table, sizes, scheduler, main, pass>>

\* scheduler.stop(), between the two inspections.
stop ==
  /\ main = "probe" /\ i > Len(threads) /\ pass = 1
  /\ scheduler' = "stopped"
  /\ pass' = 2 /\ i' = 1
  /\ UNCHANGED <<file, setup, table, sizes, threads, main, dead>>

\* main returns: the server is destroyed, its boost::threads are detached.
return ==
  /\ main = "probe" /\ i > Len(threads) /\ pass = 2
  /\ main' = "returned"
  /\ scheduler' = "destroyed"
  /\ UNCHANGED <<file, setup, table, sizes, threads, probe>>

-----------------------------------------------------------------------------
(* The pool (external: boost::thread and io_service::run).                 *)

Alive == main \notin {"terminated", "exited", "sigfpe", "ended"}

run(k) ==
  /\ Alive /\ k \in DOMAIN threads
  /\ threads[k] = "started"
  /\ threads' = [threads EXCEPT ![k] = "running"]
  /\ UNCHANGED <<file, setup, table, sizes, scheduler, main, probe>>

\* Mutant: the work object is missing.
dispatcher_missing == FALSE

\* There is work from the server's constructor to its destructor.
dispatcher == scheduler # "destroyed"

\* No handler is ever given to the scheduler, so run() is out of work at once
\* unless `dispatcher' keeps it.
run_returns(k) ==
  /\ Alive /\ k \in DOMAIN threads
  /\ threads[k] = "running" /\ (scheduler = "stopped" \/ ~dispatcher)
  /\ threads' = [threads EXCEPT ![k] = "returned"]
  /\ UNCHANGED <<file, setup, table, sizes, scheduler, main, probe>>

\* The process ends; detached threads end with it wherever they are.
process_ends ==
  /\ main = "returned"
  /\ main' = "ended"
  /\ UNCHANGED <<file, setup, table, sizes, pool, probe>>

Main ==
  \/ \E l \in Lines : split_line(l)
  \/ parse_line
  \/ parse_done
  \/ get_local_ip_addr
  \/ size_pool
  \/ create_thread
  \/ init_server_returns
  \/ try_join
  \/ stop
  \/ return
  \/ process_ends

Pool == \E k \in DOMAIN threads : run(k) \/ run_returns(k)

Next == Main \/ Pool

Spec == Init /\ [][Next]_vars

\* main and the pool's threads are scheduled by the operating system.
FairSpec == Spec /\ WF_vars(Main) /\ WF_vars(Pool)

-----------------------------------------------------------------------------

\* split_CSV_line returns every field that a comma ends and that is not blank,
\* trimmed and in order, however fields are padded or missing, and at most one
\* string more, for what follows the last comma.
SplitsAtCommas ==
  main = "spec" =>
    LET ended == Filled(line, Fields(line) - 1)
    IN  /\ Len(servSpec) - Cardinality(ended) \in {0, 1}
        /\ \A n \in ended : Trimmed(Field(line, n), servSpec[Cardinality(Filled(line, n))])

\* "Return a vector of strings separated by commas" (helper.cpp:26): of a line with
\* the four attributes of the file format (test01_server.cpp:30) each is returned,
\* the one after the last comma included.
EveryFieldReturned ==
  LET filled == Filled(line, Fields(line))
  IN  main = "spec" /\ Cardinality(filled) = minAttrs =>
        /\ Len(servSpec) = minAttrs
        /\ \A n \in filled : Trimmed(Field(line, n), servSpec[Cardinality(Filled(line, n))])

\* services and serviceNames stay two views of one table: every name has
\* exactly one queue, so how_many_services() is the numServices that
\* init_server divides by, whatever duplicates the file has.
OneQueuePerName ==
  /\ \A j, k \in DOMAIN services : services[j] = services[k] => j = k
  /\ serviceNames = {services[k] : k \in DOMAIN services}

Sized == main \in {"create", "probe", "returned", "ended"}

\* Capping the pool never leaves a service without a thread.
EveryServiceStaffed == Sized => NthreadsPerTopic >= 1 /\ MtotalThreads >= Len(services)

\* A pool that fits under the limit is created as the caller asked.
PoolAsAsked ==
  Sized /\ (CPU_lim = 0 \/ nThreadP * Len(services) <= CPU_lim)
    => NthreadsPerTopic = nThreadP

\* Handing the remainder of the capped total to every service exceeds the limit
\* by less than the square of the number of services, and never by more.
PoolBounded ==
  Sized /\ CPU_lim > 0
    => MtotalThreads <= CPU_lim + (Len(services) - 1) * (Len(services) - 1)

\* "they CANNOT be joined at this point" (test01_server.cpp:111): until stop() no
\* thread of the pool leaves io_service::run, although it has nothing to do, and
\* the first inspection finds none dead.
PoolAliveUntilStop ==
  /\ scheduler = "up" => \A k \in DOMAIN threads : threads[k] \in {"started", "running"}
  /\ dead[1] = 0

\* main never hangs on a thread of the pool.
MainReturns == <>(main \in {"ended", "terminated", "exited", "sigfpe"})

\* init_server gets the server ready without dividing by zero.
InitServerCompletes == main # "sigfpe"
=============================================================================
