------------------------ MODULE ServiceBridgeProofs ------------------------
(***************************************************************************)
(* Proofs about the service table and the sizing of the thread pool, for   *)
(* service files of any length and any number of topics and processors,    *)
(* and about the splitting of lines of any length.                         *)
(***************************************************************************)
EXTENDS ServiceBridge, FiniteSetTheorems, SequenceTheorems, WellFoundedInduction, TLAPS

\* Quotient and remainder.
LEMMA DivMod ==
  ASSUME NEW m \in Nat, NEW s \in Nat, s > 0
  PROVE  /\ m \div s \in Nat
         /\ m % s \in 0..(s - 1)
         /\ m = s * (m \div s) + (m % s)
<1>1. m \div s \in Nat
  OBVIOUS
<1>2. m % s \in 0..(s - 1)
  OBVIOUS
<1>3. m = s * (m \div s) + (m % s)
  OBVIOUS
<1> QED BY <1>1, <1>2, <1>3

\* A product of positive numbers is at least each factor.
LEMMA Product ==
  ASSUME NEW x \in Nat, NEW y \in Nat, x > 0, y > 0
  PROVE  x * y \in Nat /\ x * y >= 1 /\ x * y >= y
  OBVIOUS

\* Dividing a product by its factor.
LEMMA ProductDiv ==
  ASSUME NEW n \in Nat, NEW s \in Nat, s > 0
  PROVE  (n * s) \div s = n /\ (n * s) % s = 0
  OBVIOUS

\* The arithmetic of init_server: at least one thread for every service, what
\* was asked for if that fits, and a bounded excess over the limit.
LEMMA PoolArithmetic ==
  ASSUME NEW N \in Nat, NEW S \in Nat, NEW lim \in Nat, N > 0, S > 0
  PROVE  LET P == PerService(N, S, lim)
         IN  /\ P \in Nat /\ P >= 1
             /\ P * S \in Nat /\ P * S >= S
             /\ lim = 0 \/ N * S <= lim => P = N
             /\ lim > 0 => P * S <= lim + (S - 1) * (S - 1)
<1> DEFINE m == Capped(N, S, lim)
           P == PerService(N, S, lim)
           q == m \div S
           r == m % S
<1>1. m \in Nat /\ m >= 1 /\ (lim > 0 => m <= lim)
  BY Product DEF Capped
<1>2. (lim = 0 \/ N * S <= lim) => m = N * S
  BY Product DEF Capped
<1>3. P = q + (IF S > 1 THEN r ELSE 0)
  BY DEF PerService
<1> HIDE DEF m, P
<1>4. q \in Nat /\ r \in 0..(S - 1) /\ m = S * q + r
  BY <1>1, DivMod
<1>5. (lim = 0 \/ N * S <= lim) => q = N /\ r = 0
  BY <1>2, ProductDiv
<1> HIDE DEF q, r
<1>6. P = q + r
  BY <1>3, <1>4
<1>7. P \in Nat /\ P >= 1
  BY <1>1, <1>4, <1>6
<1>8. P * S \in Nat /\ P * S >= S
  BY <1>7, Product
<1>9. P * S <= m + (S - 1) * (S - 1)
  <2>1. P * S = S * q + r + r * (S - 1)
    BY <1>4, <1>6
  <2>2. r * (S - 1) <= (S - 1) * (S - 1)
    BY <1>4
  <2> QED BY <1>1, <1>4, <1>7, <2>1, <2>2
<1>10. (lim = 0 \/ N * S <= lim) => P = N
  BY <1>5, <1>6
<1>11. lim > 0 => P * S <= lim + (S - 1) * (S - 1)
  BY <1>1, <1>7, <1>9
<1> QED
  BY <1>7, <1>8, <1>10, <1>11 DEF P

-----------------------------------------------------------------------------
(* The inductive invariant, in two parts that do not depend on each other. *)

\* The table and the sizes computed from it.  The cardinality conjunct ties
\* numServices, which the code takes from serviceNames, to services.size().
TableInv ==
  /\ services \in Seq(Topics)
  /\ OneQueuePerName
  /\ IsFiniteSet(serviceNames) /\ Cardinality(serviceNames) = Len(services)
  /\ nThreadP \in Nat /\ nThreadP > 0 /\ CPU_lim \in Nat
  /\ main \in {"parse", "spec", "address", "size"} => NthreadsPerTopic = nThreadP
  /\ main = "spec" => servSpec \in Specs
  /\ Sized => /\ Len(services) > 0
              /\ NthreadsPerTopic = PerService(nThreadP, Len(services), CPU_lim)
              /\ MtotalThreads = NthreadsPerTopic * Len(services)

\* The pool and main's inspections: no thread has returned while the scheduler
\* is up, which it is throughout the first inspection.
PoolInv ==
  /\ threads \in Seq({"started", "running", "returned", "joined"})
  /\ i \in Nat /\ i >= 1
  /\ pass \in {1, 2}
  /\ dead \in [1..2 -> Nat]
  /\ dead[1] = 0
  /\ pass = 1 => scheduler = "up"
  /\ scheduler = "up" => \A k \in 1..Len(threads) : threads[k] \in {"started", "running"}

\* What emplace_back leaves of a sequence.
LEMMA AppendAt ==
  ASSUME NEW S, NEW s \in Seq(S), NEW e \in S
  PROVE  /\ Append(s, e) \in Seq(S)
         /\ Len(Append(s, e)) = Len(s) + 1
         /\ \A k \in 1..Len(s) : Append(s, e)[k] = s[k]
         /\ Append(s, e)[Len(s) + 1] = e
OBVIOUS

\* Appending a new element keeps the elements of a sequence distinct.
LEMMA AppendDistinct ==
  ASSUME NEW S, NEW s \in Seq(S), NEW x \in S,
         x \notin {s[k] : k \in DOMAIN s},
         \A j, k \in DOMAIN s : s[j] = s[k] => j = k
  PROVE  LET a == Append(s, x)
         IN  /\ \A j, k \in DOMAIN a : a[j] = a[k] => j = k
             /\ {a[k] : k \in DOMAIN a} = {s[k] : k \in DOMAIN s} \cup {x}
<1> DEFINE a == Append(s, x)
<1>1. /\ Len(s) \in Nat /\ DOMAIN s = 1..Len(s)
      /\ DOMAIN a = 1..(Len(s) + 1)
      /\ \A k \in 1..Len(s) : a[k] = s[k]
      /\ a[Len(s) + 1] = x
  BY AppendAt, LenProperties
<1> HIDE DEF a
<1>2. \A k \in 1..Len(s) : a[k] # x
  BY <1>1
<1>3. ASSUME NEW j \in DOMAIN a, NEW k \in DOMAIN a, a[j] = a[k] PROVE j = k
  BY <1>1, <1>2, <1>3
<1>4. {a[k] : k \in DOMAIN a} \subseteq {s[k] : k \in DOMAIN s} \cup {x}
  BY <1>1
<1>5. {s[k] : k \in DOMAIN s} \cup {x} \subseteq {a[k] : k \in DOMAIN a}
  BY <1>1
<1> QED BY <1>3, <1>4, <1>5 DEF a

\* The empty table is consistent.
LEMMA InitTable == Init => TableInv
<1> SUFFICES ASSUME Init PROVE TableInv
  OBVIOUS
<1>1. services \in Seq(Topics) /\ Len(services) = 0 /\ DOMAIN services = {}
  BY EmptySeq DEF Init
<1>2. IsFiniteSet(serviceNames) /\ Cardinality(serviceNames) = 0
  BY FS_EmptySet DEF Init
<1>3. nThreadP \in Nat /\ nThreadP > 0 /\ CPU_lim \in Nat
  BY PoolAssumption DEF Init
<1> QED
  BY <1>1, <1>2, <1>3 DEF Init, TableInv, OneQueuePerName, Sized

\* Adding a service keeps the two views of the table equal.
LEMMA AddKeepsTable ==
  ASSUME TableInv, Len(servSpec) >= minAttrs, add_service(servSpec),
         UNCHANGED <<setup, sizes>>, main = "spec", main' = "parse"
  PROVE  TableInv'
<1>1. CASE container_has(serviceNames, servSpec[1]) \/ TooLong(servSpec)
  BY <1>1 DEF add_service, table, setup, sizes, TableInv, OneQueuePerName, Sized
<1>2. CASE ~(container_has(serviceNames, servSpec[1]) \/ TooLong(servSpec))
  <2>0. servSpec[1] \notin serviceNames
    BY <1>2 DEF container_has
  <2>1. servSpec[1] \in Topics
    BY DEF TableInv, Topics
  <2>2. services' = Append(services, servSpec[1]) /\ serviceNames' = serviceNames \cup {servSpec[1]}
    BY <1>2 DEF add_service
  <2>3. services' \in Seq(Topics) /\ Len(services') = Len(services) + 1
    BY <2>1, <2>2, AppendAt DEF TableInv
  <2>4. OneQueuePerName'
    BY <2>0, <2>1, <2>2, AppendDistinct DEF TableInv, OneQueuePerName
  <2>5. IsFiniteSet(serviceNames') /\ Cardinality(serviceNames') = Cardinality(serviceNames) + 1
    BY <2>0, <2>2, FS_AddElement DEF TableInv
  <2> QED
    BY <2>3, <2>4, <2>5 DEF TableInv, Sized, setup, sizes
<1> QED BY <1>1, <1>2

\* Every step keeps the table consistent; only parse_line changes it.
LEMMA NextTable == TableInv /\ [Next]_vars => TableInv'
<1> SUFFICES ASSUME TableInv, [Next]_vars PROVE TableInv'
  OBVIOUS
<1> USE DEF file, setup, table, sizes
<1>0. ASSUME NEW l \in Lines, split_line(l) PROVE TableInv'
  BY <1>0 DEF split_line, TableInv, OneQueuePerName, Sized, Specs
<1>1. CASE parse_line
  <2>1. CASE Len(servSpec) >= minAttrs /\ -1 \notin Numbers(servSpec)
    <3>2. main = "spec" /\ main' = "parse" /\ UNCHANGED <<setup, sizes>>
      BY <1>1, <2>1 DEF parse_line
    <3>3. CASE UNCHANGED table
      BY <3>2, <3>3 DEF TableInv, OneQueuePerName, Sized
    <3>4. CASE add_service(servSpec)
      BY <2>1, <3>2, <3>4, AddKeepsTable
    <3> QED BY <1>1, <2>1, <3>3, <3>4 DEF parse_line
  <2>2. CASE ~(Len(servSpec) >= minAttrs /\ -1 \notin Numbers(servSpec))
    BY <1>1, <2>2 DEF parse_line, TableInv, OneQueuePerName, Sized
  <2> QED BY <2>1, <2>2
<1>2. CASE parse_done
  BY <1>2 DEF parse_done, TableInv, OneQueuePerName, Sized
<1>3. CASE get_local_ip_addr
  BY <1>3 DEF get_local_ip_addr, TableInv, OneQueuePerName, Sized
<1>4. CASE size_pool
  <2>1. Cardinality(serviceNames) = Len(services) /\ Len(services) \in Nat
    BY LenProperties DEF TableInv
  <2> QED BY <1>4, <2>1 DEF size_pool, TableInv, OneQueuePerName, Sized
<1>5. CASE create_thread
  BY <1>5 DEF create_thread, TableInv, OneQueuePerName, Sized
<1>6. CASE init_server_returns
  BY <1>6 DEF init_server_returns, TableInv, OneQueuePerName, Sized
<1>7. CASE try_join \/ stop \/ return \/ process_ends \/ Pool \/ UNCHANGED vars
  BY <1>7
  DEF try_join, stop, return, process_ends, Pool, run, run_returns, vars,
      TableInv, OneQueuePerName, Sized
<1> QED
  BY <1>0, <1>1, <1>2, <1>3, <1>4, <1>5, <1>6, <1>7 DEF Next, Main

-----------------------------------------------------------------------------

\* Without a thread there is nothing to show about the pool.
LEMMA InitPool == Init => PoolInv
<1> SUFFICES ASSUME Init PROVE PoolInv
  OBVIOUS
<1>1. threads \in Seq({"started", "running", "returned", "joined"}) /\ Len(threads) = 0
  BY EmptySeq DEF Init
<1> QED BY <1>1 DEF Init, PoolInv

\* A thread of the pool moves: what main has seen stays true.
LEMMA ThreadMoves ==
  ASSUME PoolInv, NEW k \in DOMAIN threads, NEW s \in {"running", "returned"},
         threads[k] # "joined", threads' = [threads EXCEPT ![k] = s],
         s = "returned" => scheduler # "up",
         UNCHANGED <<scheduler, main, probe>>
  PROVE  PoolInv'
<1>1. /\ DOMAIN threads = 1..Len(threads) /\ Len(threads) \in Nat
      /\ threads' \in Seq({"started", "running", "returned", "joined"})
      /\ Len(threads') = Len(threads)
      /\ \A j \in 1..Len(threads) : threads'[j] = IF j = k THEN s ELSE threads[j]
  BY LenProperties, ExceptSeq DEF PoolInv
<1> QED BY <1>1 DEF PoolInv, probe

\* Every step of main and of the pool keeps the pool invariant.
LEMMA NextPool == PoolInv /\ [Next]_vars => PoolInv'
<1> SUFFICES ASSUME PoolInv, [Next]_vars PROVE PoolInv'
  OBVIOUS
<1> USE DEF pool, probe
<1>0. DOMAIN threads = 1..Len(threads) /\ Len(threads) \in Nat
  BY LenProperties DEF PoolInv
<1>1. ASSUME NEW l \in Lines, split_line(l) PROVE PoolInv'
  BY <1>1 DEF split_line, PoolInv
<1>11. CASE parse_line
  BY <1>11 DEF parse_line, PoolInv
<1>2. CASE parse_done \/ get_local_ip_addr \/ size_pool
  BY <1>2 DEF parse_done, get_local_ip_addr, size_pool, PoolInv
<1>3. CASE create_thread
  <2>1. CASE threads' = threads
    BY <1>3, <2>1 DEF create_thread, PoolInv
  <2>2. CASE threads' = Append(threads, "started")
    <3>1. /\ threads' \in Seq({"started", "running", "returned", "joined"})
          /\ Len(threads') = Len(threads) + 1
          /\ \A k \in 1..Len(threads) : threads'[k] = threads[k]
          /\ threads'[Len(threads) + 1] = "started"
      BY <2>2, AppendAt DEF PoolInv
    <3>2. UNCHANGED <<scheduler, i, dead, pass>>
      BY <1>3 DEF create_thread
    <3> QED BY <1>0, <3>1, <3>2 DEF PoolInv
  <2> QED BY <1>3, <2>1, <2>2 DEF create_thread
<1>4. CASE init_server_returns
  BY <1>4 DEF init_server_returns, PoolInv
<1>5. CASE try_join
  <2>1. CASE threads[i] # "returned"
    <3>1. UNCHANGED <<threads, dead, scheduler, main, pass>> /\ i' = i + 1 /\ i <= Len(threads)
      BY <1>5, <2>1 DEF try_join
    <3> QED BY <1>0, <1>5, <3>1 DEF try_join, PoolInv
  <2>2. CASE threads[i] = "returned"
    <3>1. /\ i \in 1..Len(threads) /\ i' = i + 1
          /\ threads' = [threads EXCEPT ![i] = "joined"]
          /\ dead' = [dead EXCEPT ![pass] = dead[pass] + 1]
          /\ main = "probe"
          /\ UNCHANGED <<scheduler, main, pass>>
      BY <1>0, <1>5, <2>2 DEF try_join, PoolInv
    <3>2. scheduler # "up" /\ pass = 2
      BY <2>2, <3>1 DEF PoolInv
    <3>3. /\ threads' \in Seq({"started", "running", "returned", "joined"})
          /\ Len(threads') = Len(threads)
          /\ \A j \in 1..Len(threads) : threads'[j] = IF j = i THEN "joined" ELSE threads[j]
      BY <3>1, ExceptSeq DEF PoolInv
    <3>4. dead' \in [1..2 -> Nat] /\ dead'[1] = 0
      BY <3>1, <3>2 DEF PoolInv
    <3> QED BY <3>1, <3>2, <3>3, <3>4 DEF PoolInv
  <2> QED BY <2>1, <2>2
<1>6. CASE stop
  BY <1>0, <1>6 DEF stop, PoolInv
<1>7. CASE return
  BY <1>0, <1>7 DEF return, PoolInv
<1>8. CASE process_ends
  BY <1>8 DEF process_ends, PoolInv
<1>9. CASE Pool
  BY <1>9, ThreadMoves DEF Pool, run, run_returns, dispatcher
<1>10. CASE UNCHANGED vars
  BY <1>10 DEF vars, PoolInv
<1> QED
  BY <1>1, <1>2, <1>3, <1>4, <1>5, <1>6, <1>7, <1>8, <1>9, <1>10, <1>11 DEF Next, Main

-----------------------------------------------------------------------------

\* TableInv is an inductive invariant.
LEMMA TableInvariant == Spec => []TableInv
  BY InitTable, NextTable, PTL DEF Spec

\* PoolInv is an inductive invariant.
LEMMA PoolInvariant == Spec => []PoolInv
  BY InitPool, NextPool, PTL DEF Spec

\* parse_service_file keeps one queue per topic name, for every service file.
THEOREM TableConsistent == Spec => []OneQueuePerName
<1>1. TableInv => OneQueuePerName
  BY DEF TableInv
<1> QED BY <1>1, TableInvariant, PTL

\* init_server gives every service a thread, whatever the limit.
THEOREM ServicesStaffed == Spec => []EveryServiceStaffed
<1>1. TableInv => EveryServiceStaffed
  BY PoolArithmetic, LenProperties DEF TableInv, EveryServiceStaffed
<1> QED BY <1>1, TableInvariant, PTL

\* init_server creates the pool asked for when it fits under the limit.
THEOREM PoolHonoured == Spec => []PoolAsAsked
<1>1. TableInv => PoolAsAsked
  BY PoolArithmetic, LenProperties DEF TableInv, PoolAsAsked
<1> QED BY <1>1, TableInvariant, PTL

\* init_server exceeds the limit by at most the square of numServices - 1.
THEOREM PoolExcessBounded == Spec => []PoolBounded
<1>1. TableInv => PoolBounded
  BY PoolArithmetic, LenProperties DEF TableInv, PoolBounded
<1> QED BY <1>1, TableInvariant, PTL

\* The work object keeps every thread of the pool in io_service::run until main
\* stops the scheduler, so that none can be joined before.
THEOREM NoneJoinableBeforeStop == Spec => []PoolAliveUntilStop
<1>1. PoolInv => PoolAliveUntilStop
  <2> SUFFICES ASSUME PoolInv PROVE PoolAliveUntilStop
    OBVIOUS
  <2>1. DOMAIN threads = 1..Len(threads)
    BY LenProperties DEF PoolInv
  <2> QED BY <2>1 DEF PoolInv, PoolAliveUntilStop
<1> QED BY <1>1, PoolInvariant, PTL

-----------------------------------------------------------------------------
(* Numbers: what Min and Max pick.                                         *)

\* Every non-empty set of numbers has a least element.
LEMMA LeastNumber ==
  ASSUME NEW T \in SUBSET Nat, T # {}
  PROVE  \E x \in T : \A y \in T : x <= y
<1>1. \E x \in T : \A y \in T : ~ (<<y, x>> \in OpToRel(<, Nat))
  BY NatLessThanWellFounded, WFMin
<1>2. \E x \in T : \A y \in T : ~ (y < x)
  BY <1>1 DEF OpToRel
<1> QED BY <1>2

\* Min picks it.
LEMMA MinOf ==
  ASSUME NEW T \in SUBSET Nat, T # {}
  PROVE  Min(T) \in T /\ \A y \in T : Min(T) <= y
  BY LeastNumber DEF Min

\* A bounded set of numbers has a greatest element, which Max picks.
LEMMA MaxOf ==
  ASSUME NEW n \in Nat, NEW T \in SUBSET (0..n), T # {}
  PROVE  Max(T) \in T /\ \A y \in T : Max(T) >= y
<1> DEFINE B == {b \in Nat : \A y \in T : y <= b}
<1>1. n \in B
  OBVIOUS
<1>2. PICK b \in B : \A c \in B : b <= c
  BY <1>1, LeastNumber
<1>3. b \in T
  <2> SUFFICES ASSUME b \notin T PROVE FALSE
    OBVIOUS
  <2>1. \A y \in T : y \in Nat /\ y < b
    OBVIOUS
  <2>2. PICK x \in T : TRUE
    OBVIOUS
  <2>3. b - 1 \in B
    BY <2>1, <2>2
  <2> QED BY <1>2, <2>3
<1>4. \A y \in T : b >= y
  OBVIOUS
<1> QED BY <1>3, <1>4 DEF Max

-----------------------------------------------------------------------------
(* Commas and the fields between them.                                     *)

\* The count of commas grows along the line, exactly where there is one.
LEMMA CommasGrow ==
  ASSUME NEW S, NEW text \in Seq(S), NEW j \in 0..Len(text), NEW k \in j..Len(text)
  PROVE  /\ CommasUpTo(text, j) \in Nat /\ CommasUpTo(text, k) \in Nat
         /\ CommasUpTo(text, j) <= CommasUpTo(text, k)
         /\ CommasUpTo(text, j) = CommasUpTo(text, k) <=> \A c \in (j + 1)..k : text[c] # delimiter
<1> DEFINE J == {c \in 1..j : text[c] = delimiter}
           K == {c \in 1..k : text[c] = delimiter}
<1>0. Len(text) \in Nat
  BY LenProperties
<1>1. IsFiniteSet(K)
  <2>1. IsFiniteSet(1..k)
    BY <1>0, FS_Interval
  <2> QED BY <2>1, FS_Subset
<1>2. J \in SUBSET K
  BY <1>0
<1>3. IsFiniteSet(J) /\ Cardinality(J) <= Cardinality(K) /\ (Cardinality(K) = Cardinality(J) => K = J)
  BY <1>1, <1>2, FS_Subset
<1>4. Cardinality(J) \in Nat /\ Cardinality(K) \in Nat
  BY <1>1, <1>3, FS_CardinalityType
<1>5. J = K <=> \A c \in (j + 1)..k : text[c] # delimiter
  <2>1. ASSUME J = K, NEW c \in (j + 1)..k PROVE text[c] # delimiter
    <3>1. c \notin J
      BY <1>0
    <3>2. c \in 1..k
      BY <1>0
    <3> QED BY <2>1, <3>1, <3>2
  <2>2. ASSUME \A c \in (j + 1)..k : text[c] # delimiter, NEW d \in K PROVE d \in J
    BY <1>0, <2>2
  <2> QED BY <1>2, <2>1, <2>2
<1> QED BY <1>3, <1>4, <1>5 DEF CommasUpTo

\* Before the first character there is none.
LEMMA NoCommas ==
  ASSUME NEW text
  PROVE  CommasUpTo(text, 0) = 0
<1>1. {j \in 1..0 : text[j] = delimiter} = {}
  OBVIOUS
<1> QED BY <1>1, FS_EmptySet DEF CommasUpTo

\* A comma is one more than there were before it.
LEMMA OneComma ==
  ASSUME NEW S, NEW text \in Seq(S), NEW k \in 1..Len(text), text[k] = delimiter
  PROVE  CommasUpTo(text, k) = CommasUpTo(text, k - 1) + 1
<1> DEFINE J == {c \in 1..(k - 1) : text[c] = delimiter}
<1>0. Len(text) \in Nat
  BY LenProperties
<1>1. IsFiniteSet(J)
  <2>1. IsFiniteSet(1..(k - 1))
    BY <1>0, FS_Interval
  <2> QED BY <2>1, FS_Subset
<1>2. {c \in 1..k : text[c] = delimiter} = J \cup {k} /\ k \notin J
  BY <1>0
<1> QED BY <1>1, <1>2, FS_AddElement DEF CommasUpTo

\* The places where a field may start: the line's, and behind a comma.
Cuts(text) == {0} \cup {k \in 1..Len(text) : text[k] = delimiter}

\* The comma counted as the n-th is the n-th.
LEMMA CommaHere ==
  ASSUME NEW S, NEW text \in Seq(S), NEW last \in Cuts(text)
  PROVE  /\ CommasUpTo(text, last) \in Nat
         /\ CommasUpTo(text, last) < Fields(text)
         /\ CommaAt(text, CommasUpTo(text, last)) = last
         /\ last = 0 <=> CommasUpTo(text, last) = 0
<1>0. Len(text) \in Nat /\ DOMAIN text = 1..Len(text) /\ last \in 0..Len(text)
  BY LenProperties DEF Cuts
<1>1. CommasUpTo(text, last) \in Nat /\ CommasUpTo(text, last) < Fields(text)
  BY <1>0, CommasGrow DEF Fields
<1>2. CASE last = 0
  BY <1>1, <1>2, NoCommas DEF CommaAt
<1>3. CASE last # 0
  <2> DEFINE n == CommasUpTo(text, last)
  <2>1. last \in DOMAIN text /\ text[last] = delimiter
    BY <1>0, <1>3 DEF Cuts
  <2>2. n # 0
    <3>1. CommasUpTo(text, last - 1) \in Nat
      BY <1>0, <1>3, CommasGrow
    <3> QED BY <1>0, <1>3, <2>1, <3>1, OneComma
  <2>3. ASSUME NEW j \in DOMAIN text, NEW k \in DOMAIN text, text[k] = delimiter, j < k,
               CommasUpTo(text, j) = n, CommasUpTo(text, k) = n
        PROVE  FALSE
    <3>1. \A c \in (j + 1)..k : text[c] # delimiter
      BY <1>0, <2>3, CommasGrow
    <3> QED BY <1>0, <2>3, <3>1
  <2>4. \A k \in DOMAIN text : text[k] = delimiter /\ CommasUpTo(text, k) = n => k = last
    <3> SUFFICES ASSUME NEW k \in DOMAIN text, text[k] = delimiter, CommasUpTo(text, k) = n PROVE k = last
      OBVIOUS
    <3>1. k < last \/ last < k \/ k = last
      BY <1>0
    <3> QED BY <2>1, <2>3, <3>1
  <2>5. CommaAt(text, n) = CHOOSE k \in DOMAIN text : text[k] = delimiter /\ CommasUpTo(text, k) = n
    BY <1>1, <2>2 DEF CommaAt
  <2>6. CommaAt(text, n) = last
    <3> HIDE DEF n
    <3>1. CommasUpTo(text, last) = n
      BY DEF n
    <3> QED BY <2>1, <2>4, <2>5, <3>1
  <2> QED BY <1>1, <1>3, <2>2, <2>6
<1> QED BY <1>2, <1>3

\* find() from a cut: the next comma is the next to count, or it was the last.
LEMMA NextComma ==
  ASSUME NEW S, NEW text \in Seq(S), NEW last \in Cuts(text)
  PROVE  /\ After(text, last) = {} => CommasUpTo(text, last) + 1 = Fields(text)
         /\ After(text, last) # {} =>
              LET curr == Min(After(text, last))
              IN  /\ curr \in Cuts(text) /\ curr \in (last + 1)..Len(text)
                  /\ CommasUpTo(text, curr) = CommasUpTo(text, last) + 1
<1>0. Len(text) \in Nat /\ last \in 0..Len(text)
  BY LenProperties DEF Cuts
<1>1. ASSUME After(text, last) = {} PROVE CommasUpTo(text, last) + 1 = Fields(text)
  <2>1. \A c \in (last + 1)..Len(text) : text[c] # delimiter
    BY <1>1 DEF After
  <2> QED BY <1>0, <2>1, CommasGrow DEF Fields
<1>2. ASSUME After(text, last) # {}
      PROVE LET curr == Min(After(text, last))
            IN  /\ curr \in Cuts(text) /\ curr \in (last + 1)..Len(text)
                /\ CommasUpTo(text, curr) = CommasUpTo(text, last) + 1
  <2> DEFINE curr == Min(After(text, last))
  <2>1. After(text, last) \in SUBSET Nat
    BY <1>0 DEF After
  <2>2. curr \in After(text, last) /\ \A c \in After(text, last) : curr <= c
    BY <1>2, <2>1, MinOf
  <2> HIDE DEF curr
  <2>3. curr \in (last + 1)..Len(text) /\ text[curr] = delimiter
    BY <2>2 DEF After
  <2>4. \A c \in (last + 1)..(curr - 1) : text[c] # delimiter
    BY <1>0, <2>2, <2>3 DEF After
  <2>5. CommasUpTo(text, last) = CommasUpTo(text, curr - 1)
    <3>1. curr - 1 \in last..Len(text)
      BY <1>0, <2>3
    <3> QED BY <1>0, <2>4, <3>1, CommasGrow
  <2>6. CommasUpTo(text, curr) = CommasUpTo(text, curr - 1) + 1
    BY <1>0, <2>3, OneComma
  <2>7. curr \in Cuts(text)
    BY <1>0, <2>3 DEF Cuts
  <2> QED BY <2>3, <2>5, <2>6, <2>7 DEF curr
<1> QED BY <1>1, <1>2

-----------------------------------------------------------------------------
(* The scan.                                                               *)

\* A slice of a line.
LEMMA Slice ==
  ASSUME NEW S, NEW text \in Seq(S), NEW a \in 1..(Len(text) + 1), NEW b \in 0..Len(text)
  PROVE  /\ SubSeq(text, a, b) \in Seq(S)
         /\ Len(SubSeq(text, a, b)) = IF a <= b THEN b - a + 1 ELSE 0
         /\ \A k \in 1..(b - a + 1) : SubSeq(text, a, b)[k] = text[a + k - 1]
<1>1. Len(text) \in Nat
  BY LenProperties
<1>2. \A k \in a..b : text[k] \in S
  BY <1>1, ElementOfSeq
<1> QED BY <1>1, <1>2, SubSeqProperties

\* What the loop makes of the line from `last' on, given the rest.
ScanStep(from, text, last) ==
  IF After(text, last) = {} THEN LastToken(text, last)
  ELSE LET curr == Min(After(text, last))
       IN  <<substr(text, last, curr - last - 1)>> \o from[curr]

\* from[last] are the tokens after `last', from the m-th character on.
IsScan(from, text, m) == from = [last \in m..Len(text) |-> ScanStep(from, text, last)]

\* The loop goes forward.
LEMMA ScanForward ==
  ASSUME NEW S, NEW text \in Seq(S), NEW last \in 0..Len(text), After(text, last) # {}
  PROVE  Min(After(text, last)) \in (last + 1)..Len(text)
<1>1. After(text, last) \in SUBSET Nat
  BY LenProperties DEF After
<1>2. Min(After(text, last)) \in After(text, last)
  BY <1>1, MinOf
<1> QED BY <1>2 DEF After

\* So the tokens are defined from the end of the line back to any character.
LEMMA ScanExists ==
  ASSUME NEW S, NEW text \in Seq(S)
  PROVE  \A n \in 0..Len(text) : \E from : IsScan(from, text, Len(text) - n)
<1>0. Len(text) \in Nat
  BY LenProperties
<1> DEFINE T == {n \in Nat : n <= Len(text) /\ ~ \E from : IsScan(from, text, Len(text) - n)}
<1> SUFFICES ASSUME T # {} PROVE FALSE
  OBVIOUS
<1>1. PICK n \in T : \A m \in T : n <= m
  BY LeastNumber
<1>2. n # 0
  <2> SUFFICES ASSUME n = 0 PROVE FALSE
    OBVIOUS
  <2> DEFINE from == [last \in Len(text)..Len(text) |-> LastToken(text, Len(text))]
  <2>1. After(text, Len(text)) = {}
    BY <1>0 DEF After
  <2>2. \A last \in Len(text)..Len(text) : last = Len(text)
    BY <1>0
  <2>3. \A last \in Len(text)..Len(text) : ScanStep(from, text, last) = LastToken(text, Len(text))
    BY <2>1, <2>2 DEF ScanStep
  <2>4. IsScan(from, text, Len(text))
    BY <2>3 DEF IsScan
  <2>5. Len(text) - n = Len(text)
    BY <1>0
  <2> QED BY <2>4, <2>5
<1> DEFINE m == Len(text) - n
<1>3. m \in 0..(Len(text) - 1) /\ Len(text) - (n - 1) = m + 1
  BY <1>0, <1>1, <1>2
<1>4. PICK rest : IsScan(rest, text, m + 1)
  BY <1>0, <1>1, <1>2, <1>3
<1> HIDE DEF m
<1> DEFINE from == [last \in m..Len(text) |-> IF last = m THEN ScanStep(rest, text, m) ELSE rest[last]]
<1>5. ASSUME NEW last \in m..Len(text) PROVE from[last] = ScanStep(from, text, last)
  <2>1. ScanStep(from, text, last) = ScanStep(rest, text, last)
    <3>1. CASE After(text, last) = {}
      BY <3>1 DEF ScanStep
    <3>2. CASE After(text, last) # {}
      <4> DEFINE curr == Min(After(text, last))
      <4>1. curr \in (last + 1)..Len(text)
        BY <1>0, <1>3, <3>2, ScanForward
      <4> HIDE DEF curr
      <4>2. from[curr] = rest[curr]
        BY <1>0, <1>3, <4>1
      <4> QED BY <3>2, <4>2 DEF ScanStep, curr
    <3> QED BY <3>1, <3>2
  <2>2. CASE last = m
    BY <2>1, <2>2
  <2>3. CASE last # m
    <3>1. last \in (m + 1)..Len(text)
      BY <1>0, <1>3, <2>3
    <3>2. rest[last] = ScanStep(rest, text, last)
      BY <1>4, <3>1 DEF IsScan
    <3> QED BY <2>1, <2>3, <3>2
  <2> QED BY <2>2, <2>3
<1>6. IsScan(from, text, m)
  BY <1>5 DEF IsScan
<1> QED BY <1>1, <1>6 DEF m

\* scanVec is what the loop makes of the whole line.
LEMMA ScanOfLine ==
  ASSUME NEW S, NEW text \in Seq(S)
  PROVE  \E from : IsScan(from, text, 0) /\ scanVec(text) = from[0]
<1> DEFINE from == CHOOSE from : IsScan(from, text, 0)
<1>0. Len(text) \in Nat /\ Len(text) - Len(text) = 0
  BY LenProperties
<1>1. \E f : IsScan(f, text, 0)
  <2>1. \E f : IsScan(f, text, Len(text) - Len(text))
    BY <1>0, ScanExists
  <2> QED BY <1>0, <2>1
<1>2. IsScan(from, text, 0)
  BY <1>1
<1>3. scanVec(text) = from[0]
  BY DEF scanVec, IsScan, ScanStep
<1> QED BY <1>2, <1>3

\* Field n as this code delivers it: the one after the last comma only if it has
\* two characters or more, and a line without a comma without its last character.
Delivered(text, n) ==
  IF n < Fields(text) THEN Field(text, n)
  ELSE IF Len(Field(text, n)) < 2 THEN <<>>
  ELSE IF n > 1 THEN Field(text, n)
  ELSE SubSeq(text, 1, Len(text) - 1)

\* The fields that are returned.
Kept(text) == {n \in 1..Fields(text) : ~Blank(Delivered(text, n))}

\* The tokens are the fields of the line after the first n, as delivered; a
\* last one that is empty may be missing.
Scanned(S, text, tokens, n) ==
  /\ tokens \in Seq(Seq(S))
  /\ Len(tokens) \in {Fields(text) - n, Fields(text) - n - 1}
  /\ \A k \in 1..Len(tokens) : tokens[k] = Delivered(text, n + k)
  /\ Len(tokens) # Fields(text) - n => Delivered(text, Fields(text)) = <<>>

\* The end of the loop: the last field.
LEMMA ScansLast ==
  ASSUME NEW S, NEW text \in Seq(S), NEW last \in Cuts(text), After(text, last) = {}
  PROVE  Scanned(S, text, LastToken(text, last), CommasUpTo(text, last))
<1> DEFINE n == CommasUpTo(text, last)
<1>0. Len(text) \in Nat /\ last \in 0..Len(text)
  BY LenProperties DEF Cuts
<1>1. n \in Nat /\ n + 1 = Fields(text) /\ CommaAt(text, n) = last /\ (last = 0 <=> n = 0)
  BY CommaHere, NextComma
<1> HIDE DEF n
<1>2. CommaAt(text, n + 1) = Len(text) + 1
  BY <1>1 DEF CommaAt
<1>3. Field(text, n + 1) = SubSeq(text, last + 1, Len(text))
  BY <1>0, <1>1, <1>2 DEF Field
<1>4. Len(Field(text, n + 1)) = Len(text) - last /\ Field(text, n + 1) \in Seq(S)
  <2>1. last + 1 \in 1..(Len(text) + 1) /\ Len(text) \in 0..Len(text)
    BY <1>0
  <2>2. /\ SubSeq(text, last + 1, Len(text)) \in Seq(S)
        /\ Len(SubSeq(text, last + 1, Len(text)))
             = IF last + 1 <= Len(text) THEN Len(text) - (last + 1) + 1 ELSE 0
    BY <2>1, Slice
  <2>3. (IF last + 1 <= Len(text) THEN Len(text) - (last + 1) + 1 ELSE 0) = Len(text) - last
    BY <1>0
  <2> QED BY <1>3, <2>2, <2>3
<1>5. CASE last < Len(text) - 1
  <2>1. Min({last + (Len(text) - 1), Len(text)}) = IF last = 0 THEN Len(text) - 1 ELSE Len(text)
    <3> DEFINE ends == {last + (Len(text) - 1), Len(text)}
    <3>1. ends \in SUBSET Nat /\ ends # {}
      BY <1>0, <1>5
    <3>2. Min(ends) \in ends /\ \A y \in ends : Min(ends) <= y
      BY <3>1, MinOf
    <3>3. Min(ends) \in Nat /\ Min(ends) <= last + (Len(text) - 1) /\ Min(ends) <= Len(text)
      BY <3>1, <3>2
    <3>4. Min(ends) = last + (Len(text) - 1) \/ Min(ends) = Len(text)
      BY <3>2
    <3> HIDE DEF ends
    <3>5. Min(ends) = IF last = 0 THEN Len(text) - 1 ELSE Len(text)
      BY <1>0, <1>5, <3>3, <3>4
    <3> QED BY <3>5 DEF ends
  <2>2. substr(text, last, Len(text) - 1) = Delivered(text, n + 1)
    <3>1. CASE last = 0
      <4>1. substr(text, last, Len(text) - 1) = SubSeq(text, 1, Len(text) - 1)
        <5>1. last + 1 = 1 /\ Min({last + (Len(text) - 1), Len(text)}) = Len(text) - 1
          BY <2>1, <3>1
        <5> QED BY <5>1 DEF substr
      <4>2. Delivered(text, n + 1) = SubSeq(text, 1, Len(text) - 1)
        BY <1>0, <1>1, <1>4, <1>5, <3>1 DEF Delivered
      <4> QED BY <4>1, <4>2
    <3>2. CASE last # 0
      <4>1. substr(text, last, Len(text) - 1) = SubSeq(text, last + 1, Len(text))
        BY <2>1, <3>2 DEF substr
      <4>2. Delivered(text, n + 1) = Field(text, n + 1)
        BY <1>0, <1>1, <1>4, <1>5, <3>2 DEF Delivered
      <4> QED BY <1>3, <4>1, <4>2
    <3> QED BY <3>1, <3>2
  <2>3. Delivered(text, n + 1) \in Seq(S)
    BY <1>0, <1>1, <1>4, <1>5, Slice DEF Delivered
  <2>4. LastToken(text, last) = <<Delivered(text, n + 1)>>
    BY <1>5, <2>2 DEF LastToken
  <2>5. LastToken(text, last) \in Seq(Seq(S)) /\ Len(LastToken(text, last)) = 1
        /\ LastToken(text, last)[1] = Delivered(text, n + 1)
    BY <2>3, <2>4
  <2> QED BY <1>1, <2>5 DEF Scanned, n
<1>6. CASE ~ (last < Len(text) - 1)
  <2>1. LastToken(text, last) = <<>>
    BY <1>6 DEF LastToken
  <2>2. Delivered(text, n + 1) = <<>>
    BY <1>0, <1>1, <1>4, <1>6 DEF Delivered
  <2>3. <<>> \in Seq(Seq(S)) /\ Len(<<>>) = 0
    BY EmptySeq
  <2> QED BY <1>1, <2>1, <2>2, <2>3 DEF Scanned, n
<1> QED BY <1>5, <1>6

\* One turn of the loop: the field before the next comma.
LEMMA ScansOne ==
  ASSUME NEW S, NEW text \in Seq(S), NEW last \in Cuts(text), After(text, last) # {},
         NEW curr, curr = Min(After(text, last)),
         NEW tokens, Scanned(S, text, tokens, CommasUpTo(text, curr))
  PROVE  Scanned(S, text, <<substr(text, last, curr - last - 1)>> \o tokens, CommasUpTo(text, last))
<1> DEFINE n == CommasUpTo(text, last)
           token == substr(text, last, curr - last - 1)
           longer == <<token>> \o tokens
<1>0. Len(text) \in Nat /\ last \in 0..Len(text)
  BY LenProperties DEF Cuts
<1>1. n \in Nat /\ CommaAt(text, n) = last
  BY CommaHere
<1>2. /\ curr \in Cuts(text) /\ curr \in (last + 1)..Len(text) /\ CommasUpTo(text, curr) = n + 1
  BY NextComma
<1>3. n + 1 < Fields(text) /\ CommaAt(text, n + 1) = curr /\ Fields(text) \in Nat
  <2>1. Fields(text) \in Nat
    BY <1>0, CommasGrow DEF Fields
  <2> QED BY <1>2, <2>1, CommaHere
<1> HIDE DEF n
<1>4. token = Delivered(text, n + 1) /\ token \in Seq(S)
  <2>1. Min({last + (curr - last - 1), Len(text)}) = curr - 1
    <3>1. last + (curr - last - 1) = curr - 1 /\ curr - 1 \in Nat /\ curr - 1 < Len(text)
      BY <1>0, <1>2
    <3>2. {curr - 1, Len(text)} \in SUBSET Nat
      BY <1>0, <3>1
    <3>3. Min({curr - 1, Len(text)}) = curr - 1
      BY <1>0, <3>1, <3>2, MinOf
    <3> QED BY <3>1, <3>3
  <2>2. token = SubSeq(text, last + 1, curr - 1)
    BY <2>1 DEF substr
  <2>3. Delivered(text, n + 1) = Field(text, n + 1)
    BY <1>3 DEF Delivered
  <2>4. Field(text, n + 1) = SubSeq(text, last + 1, curr - 1)
    <3>1. (n + 1) - 1 = n
      BY <1>1
    <3> QED BY <1>1, <1>3, <3>1 DEF Field
  <2>5. SubSeq(text, last + 1, curr - 1) \in Seq(S)
    BY <1>0, <1>2, Slice
  <2> QED BY <2>2, <2>3, <2>4, <2>5
<1> HIDE DEF token
<1>5. /\ tokens \in Seq(Seq(S)) /\ Len(tokens) \in Nat
      /\ Len(tokens) \in {Fields(text) - (n + 1), Fields(text) - (n + 1) - 1}
      /\ \A k \in 1..Len(tokens) : tokens[k] = Delivered(text, (n + 1) + k)
      /\ Len(tokens) # Fields(text) - (n + 1) => Delivered(text, Fields(text)) = <<>>
  BY <1>2, LenProperties DEF Scanned
<1>6. /\ longer \in Seq(Seq(S)) /\ Len(longer) = Len(tokens) + 1
      /\ longer[1] = token /\ \A k \in 2..(Len(tokens) + 1) : longer[k] = tokens[k - 1]
  <2>1. <<token>> \in Seq(Seq(S)) /\ Len(<<token>>) = 1 /\ <<token>>[1] = token
    BY <1>4
  <2> QED BY <1>5, <2>1, ConcatProperties
<1> HIDE DEF longer
<1>7. ASSUME NEW k \in 1..Len(longer) PROVE longer[k] = Delivered(text, n + k)
  <2>1. CASE k = 1
    BY <1>4, <1>6, <2>1
  <2>2. CASE k # 1
    <3>1. k - 1 \in 1..Len(tokens) /\ (n + 1) + (k - 1) = n + k /\ k \in 2..(Len(tokens) + 1)
      BY <1>1, <1>5, <1>6, <2>2
    <3>2. tokens[k - 1] = Delivered(text, (n + 1) + (k - 1))
      BY <1>5, <3>1
    <3> QED BY <1>6, <3>1, <3>2
  <2> QED BY <2>1, <2>2
<1>8. Scanned(S, text, longer, n)
  BY <1>1, <1>3, <1>5, <1>6, <1>7 DEF Scanned
<1> QED BY <1>8 DEF longer, token, n

\* The loop from any cut on, by what is left of the line.
LEMMA ScansFields ==
  ASSUME NEW S, NEW text \in Seq(S), NEW from, IsScan(from, text, 0)
  PROVE  \A last \in Cuts(text) : Scanned(S, text, from[last], CommasUpTo(text, last))
<1>0. Len(text) \in Nat /\ Cuts(text) \subseteq 0..Len(text)
  BY LenProperties DEF Cuts
<1> DEFINE Bad(last) == last \in Cuts(text) /\ ~ Scanned(S, text, from[last], CommasUpTo(text, last))
           T == {n \in Nat : n <= Len(text) /\ Bad(Len(text) - n)}
<1> HIDE DEF Bad
<1>1. CASE T = {}
  <2> SUFFICES ASSUME NEW last \in Cuts(text) PROVE ~ Bad(last)
    BY DEF Bad
  <2>1. Len(text) - last \in Nat /\ Len(text) - last <= Len(text) /\ Len(text) - (Len(text) - last) = last
    BY <1>0
  <2> QED BY <1>1, <2>1
<1>2. CASE T # {}
  <2>1. PICK n \in T : \A m \in T : n <= m
    BY <1>2, LeastNumber
  <2> DEFINE last == Len(text) - n
  <2>2. Bad(last) /\ n \in Nat /\ n <= Len(text)
    BY <2>1
  <2>3. last \in Cuts(text) /\ last \in 0..Len(text)
    BY <1>0, <2>2 DEF Bad
  <2>4. from[last] = ScanStep(from, text, last)
    BY <2>3 DEF IsScan
  <2>5. After(text, last) # {}
    BY <2>2, <2>3, <2>4, ScansLast DEF ScanStep, Bad
  <2> DEFINE curr == Min(After(text, last))
  <2>6. curr \in Cuts(text) /\ curr \in (last + 1)..Len(text)
    BY <2>3, <2>5, NextComma
  <2>7. ~ Bad(curr)
    <3> HIDE DEF curr
    <3>1. Len(text) - curr \in Nat /\ Len(text) - curr < n /\ Len(text) - (Len(text) - curr) = curr
      BY <1>0, <2>2, <2>6
    <3>2. Len(text) - curr \notin T
      BY <2>1, <2>2, <3>1
    <3> QED BY <1>0, <2>2, <3>1, <3>2
  <2>8. Scanned(S, text, from[curr], CommasUpTo(text, curr))
    BY <2>6, <2>7 DEF Bad
  <2>9. from[last] = <<substr(text, last, curr - last - 1)>> \o from[curr]
    BY <2>4, <2>5 DEF ScanStep
  <2>10. Scanned(S, text, from[last], CommasUpTo(text, last))
    <3> HIDE DEF curr, last
    <3>1. curr = Min(After(text, last))
      BY DEF curr
    <3> QED BY <2>3, <2>5, <2>8, <2>9, <3>1, ScansOne
  <2> QED BY <2>2, <2>10 DEF Bad
<1> QED BY <1>1, <1>2

\* split_CSV_line cuts a line into its fields.
LEMMA ScansLine ==
  ASSUME NEW S, NEW text \in Seq(S)
  PROVE  Scanned(S, text, scanVec(text), 0) /\ Fields(text) \in Nat
<1>1. PICK from : IsScan(from, text, 0) /\ scanVec(text) = from[0]
  BY ScanOfLine
<1>2. 0 \in Cuts(text) /\ CommasUpTo(text, 0) = 0
  BY NoCommas DEF Cuts
<1>3. Scanned(S, text, from[0], CommasUpTo(text, 0))
  BY <1>1, <1>2, ScansFields
<1>4. Fields(text) \in Nat
  BY <1>2, CommasGrow, LenProperties DEF Fields
<1> QED BY <1>1, <1>2, <1>3, <1>4

-----------------------------------------------------------------------------
(* Trimming and filtering.                                                 *)

\* trim leaves nothing of a blank token, and takes the blanks around any other.
LEMMA Trims ==
  ASSUME NEW S, NEW s \in Seq(S)
  PROVE  /\ trim(s) \in Seq(S)
         /\ trim(s) = <<>> <=> Blank(s)
         /\ ~ Blank(s) => Trimmed(s, trim(s))
<1>0. Len(s) \in Nat /\ DOMAIN s = 1..Len(s) /\ NotBlank(s) \in SUBSET (0..Len(s))
      /\ NotBlank(s) \in SUBSET Nat /\ (NotBlank(s) = {} <=> Blank(s))
  BY LenProperties DEF NotBlank, Blank
<1>1. CASE Blank(s)
  <2>1. ltrim(s) = <<>>
    BY <1>0, <1>1 DEF ltrim
  <2>2. NotBlank(<<>>) = {}
    BY DEF NotBlank
  <2>3. trim(s) = <<>>
    BY <2>1, <2>2 DEF trim, rtrim
  <2> QED BY <1>1, <2>3, EmptySeq
<1>2. CASE ~ Blank(s)
  <2> DEFINE a == Min(NotBlank(s))
             z == Max(NotBlank(s))
             left == SubSeq(s, a, Len(s))
             token == SubSeq(left, 1, Max(NotBlank(left)))
  <2>1. a \in NotBlank(s) /\ z \in NotBlank(s) /\ \A k \in NotBlank(s) : a <= k /\ k <= z
    BY <1>0, <1>2, MinOf, MaxOf
  <2> HIDE DEF a, z
  <2>2. a \in 1..Len(s) /\ z \in a..Len(s) /\ s[a] \notin _WHITESPACE /\ s[z] \notin _WHITESPACE
        /\ \A k \in 1..Len(s) : k < a \/ k > z => s[k] \in _WHITESPACE
    BY <1>0, <2>1 DEF NotBlank
  <2>3. ltrim(s) = left
    BY <1>0, <1>2 DEF ltrim, a
  <2>4. /\ left \in Seq(S) /\ Len(left) = Len(s) - a + 1 /\ DOMAIN left = 1..Len(left)
        /\ \A k \in 1..(Len(s) - a + 1) : left[k] = s[a + k - 1]
    BY <1>0, <2>2, Slice, LenProperties
  <2> HIDE DEF left
  <2>5. Max(NotBlank(left)) = z - a + 1
    <3>1. z - a + 1 \in 1..Len(left) /\ left[z - a + 1] = s[z]
      BY <1>0, <2>2, <2>4
    <3>2. z - a + 1 \in NotBlank(left)
      BY <2>2, <2>4, <3>1 DEF NotBlank
    <3>3. ASSUME NEW k \in NotBlank(left) PROVE k <= z - a + 1
      <4>1. k \in 1..Len(left) /\ left[k] = s[a + k - 1] /\ s[a + k - 1] \notin _WHITESPACE
        BY <2>4 DEF NotBlank
      <4>2. a + k - 1 \in 1..Len(s)
        BY <1>0, <2>2, <2>4, <4>1
      <4>3. a + k - 1 <= z
        BY <1>0, <2>2, <4>1, <4>2
      <4> QED BY <1>0, <2>2, <4>1, <4>3
    <3>4. NotBlank(left) \in SUBSET (0..Len(left)) /\ Len(left) \in Nat
      BY <1>0, <2>2, <2>4 DEF NotBlank
    <3>5. Max(NotBlank(left)) \in NotBlank(left) /\ \A k \in NotBlank(left) : Max(NotBlank(left)) >= k
      BY <3>2, <3>4, MaxOf
    <3> QED BY <1>0, <2>2, <2>4, <3>2, <3>3, <3>4, <3>5
  <2>6. trim(s) = SubSeq(left, 1, z - a + 1)
    <3>1. NotBlank(left) # {}
      BY <1>0, <2>2, <2>4 DEF NotBlank
    <3> QED BY <2>3, <2>5, <3>1 DEF trim, rtrim
  <2>7. SubSeq(left, 1, z - a + 1) = SubSeq(s, a, z)
    <3>1. /\ SubSeq(left, 1, z - a + 1) \in Seq(S) /\ Len(SubSeq(left, 1, z - a + 1)) = z - a + 1
          /\ \A k \in 1..(z - a + 1) : SubSeq(left, 1, z - a + 1)[k] = left[k]
      BY <1>0, <2>2, <2>4, Slice
    <3>2. /\ SubSeq(s, a, z) \in Seq(S) /\ Len(SubSeq(s, a, z)) = z - a + 1
          /\ \A k \in 1..(z - a + 1) : SubSeq(s, a, z)[k] = s[a + k - 1]
      BY <1>0, <2>2, Slice
    <3>3. \A k \in 1..(z - a + 1) : left[k] = s[a + k - 1]
      <4>1. \A k \in 1..(z - a + 1) : k \in 1..(Len(s) - a + 1)
        BY <1>0, <2>2
      <4> QED BY <2>4, <4>1
    <3> QED BY <3>1, <3>2, <3>3, SeqEqual
  <2>8. /\ trim(s) \in Seq(S) /\ Len(trim(s)) = z - a + 1 /\ trim(s) = SubSeq(s, a, z)
        /\ trim(s)[1] = s[a] /\ trim(s)[Len(trim(s))] = s[z]
    <3>1. /\ SubSeq(s, a, z) \in Seq(S) /\ Len(SubSeq(s, a, z)) = z - a + 1
          /\ \A k \in 1..(z - a + 1) : SubSeq(s, a, z)[k] = s[a + k - 1]
      BY <1>0, <2>2, Slice
    <3>2. 1 \in 1..(z - a + 1) /\ z - a + 1 \in 1..(z - a + 1) /\ a + 1 - 1 = a /\ a + (z - a + 1) - 1 = z
      BY <1>0, <2>2
    <3>3. SubSeq(s, a, z)[1] = s[a + 1 - 1] /\ SubSeq(s, a, z)[z - a + 1] = s[a + (z - a + 1) - 1]
      BY <3>1, <3>2
    <3> QED BY <2>6, <2>7, <3>1, <3>2, <3>3
  <2>9. trim(s) # <<>>
    BY <1>0, <2>2, <2>8
  <2>10. Trimmed(s, trim(s))
    <3>1. ~ Blank(<<Head(trim(s))>>) /\ ~ Blank(<<trim(s)[Len(trim(s))]>>)
      <4>1. Head(trim(s)) = s[a]
        BY <2>8, <2>9
      <4>2. ASSUME NEW c, c \notin _WHITESPACE PROVE ~ Blank(<<c>>)
        BY <4>2 DEF Blank
      <4> QED BY <2>2, <2>8, <4>1, <4>2
    <3>2. a - 1 \in 0..Len(s) /\ Len(s) - z \in 0..Len(s) /\ (a - 1) + Len(trim(s)) + (Len(s) - z) = Len(s)
      BY <1>0, <2>2, <2>8
    <3>3. Blank(SubSeq(s, 1, a - 1))
      <4>1. /\ SubSeq(s, 1, a - 1) \in Seq(S) /\ Len(SubSeq(s, 1, a - 1)) = a - 1
            /\ \A k \in 1..(a - 1) : SubSeq(s, 1, a - 1)[k] = s[k]
        BY <1>0, <2>2, Slice
      <4>2. DOMAIN SubSeq(s, 1, a - 1) = 1..(a - 1)
        BY <4>1, LenProperties
      <4> QED BY <1>0, <2>2, <4>1, <4>2 DEF Blank
    <3>4. Blank(SubSeq(s, Len(s) - (Len(s) - z) + 1, Len(s)))
      <4>1. Len(s) - (Len(s) - z) + 1 = z + 1
        BY <1>0, <2>2
      <4>2. /\ SubSeq(s, z + 1, Len(s)) \in Seq(S) /\ Len(SubSeq(s, z + 1, Len(s))) = Len(s) - z
            /\ \A k \in 1..(Len(s) - z) : SubSeq(s, z + 1, Len(s))[k] = s[z + k]
        <5>1. /\ z + 1 \in 1..(Len(s) + 1) /\ Len(s) \in 0..Len(s) /\ Len(s) - (z + 1) + 1 = Len(s) - z
              /\ \A k \in 1..(Len(s) - z) : (z + 1) + k - 1 = z + k
              /\ (IF z + 1 <= Len(s) THEN Len(s) - (z + 1) + 1 ELSE 0) = Len(s) - z
          <6>1. z \in 1..Len(s)
            BY <1>0, <2>2
          <6>2. z + 1 \in 1..(Len(s) + 1) /\ Len(s) \in 0..Len(s) /\ Len(s) - (z + 1) + 1 = Len(s) - z
            BY <1>0, <6>1
          <6>3. \A k \in 1..(Len(s) - z) : (z + 1) + k - 1 = z + k
            BY <1>0, <6>1
          <6>4. (IF z + 1 <= Len(s) THEN Len(s) - (z + 1) + 1 ELSE 0) = Len(s) - z
            <7>1. Len(s) \in Nat /\ z \in Nat /\ z <= Len(s)
              BY <1>0, <6>1
            <7> QED BY <7>1
          <6> QED BY <6>2, <6>3, <6>4
        <5>2. /\ SubSeq(s, z + 1, Len(s)) \in Seq(S)
              /\ Len(SubSeq(s, z + 1, Len(s))) = IF z + 1 <= Len(s) THEN Len(s) - (z + 1) + 1 ELSE 0
              /\ \A k \in 1..(Len(s) - (z + 1) + 1) : SubSeq(s, z + 1, Len(s))[k] = s[(z + 1) + k - 1]
          BY <5>1, Slice
        <5> QED BY <5>1, <5>2
      <4>3. DOMAIN SubSeq(s, z + 1, Len(s)) = 1..(Len(s) - z)
        BY <4>2, LenProperties
      <4>4. \A k \in 1..(Len(s) - z) : s[z + k] \in _WHITESPACE
        BY <1>0, <2>2
      <4> QED BY <4>1, <4>2, <4>3, <4>4 DEF Blank
    <3>5. SubSeq(s, (a - 1) + 1, Len(s) - (Len(s) - z)) = trim(s)
      <4>1. (a - 1) + 1 = a /\ Len(s) - (Len(s) - z) = z
        BY <1>0, <2>2
      <4> QED BY <2>8, <4>1
    <3> QED BY <3>1, <3>2, <3>3, <3>4, <3>5 DEF Trimmed
  <2> QED BY <1>2, <2>8, <2>9, <2>10
<1> QED BY <1>1, <1>2

\* The tokens among the first n that are not blank.
Solid(scan, n) == {k \in 1..n : ~ Blank(scan[k])}

\* kept[k] is what rtrnVec has collected after k tokens.
IsKept(kept, scan, n) ==
  kept = [k \in 0..n |-> IF k = 0 THEN <<>>
                         ELSE IF trim(scan[k]) = <<>> THEN kept[k - 1]
                         ELSE Append(kept[k - 1], trim(scan[k]))]

\* The second loop is defined for any number of tokens.
LEMMA KeptExists ==
  ASSUME NEW scan
  PROVE  \A n \in Nat : \E kept : IsKept(kept, scan, n)
<1> DEFINE T == {n \in Nat : ~ \E kept : IsKept(kept, scan, n)}
<1> SUFFICES ASSUME T # {} PROVE FALSE
  OBVIOUS
<1>1. PICK n \in T : \A m \in T : n <= m
  BY LeastNumber
<1>2. n # 0
  <2>1. IsKept([k \in 0..0 |-> <<>>], scan, 0)
    BY DEF IsKept
  <2> QED BY <2>1
<1>3. PICK kept : IsKept(kept, scan, n - 1)
  BY <1>1, <1>2
<1> DEFINE last == IF trim(scan[n]) = <<>> THEN kept[n - 1] ELSE Append(kept[n - 1], trim(scan[n]))
           longer == [k \in 0..n |-> IF k = n THEN last ELSE kept[k]]
<1>4. IsKept(longer, scan, n)
  <2>1. \A k \in 0..(n - 1) : kept[k] = IF k = 0 THEN <<>>
                                        ELSE IF trim(scan[k]) = <<>> THEN kept[k - 1]
                                        ELSE Append(kept[k - 1], trim(scan[k]))
    BY <1>3 DEF IsKept
  <2>2. \A k \in 0..n : longer[k] = IF k = 0 THEN <<>>
                                    ELSE IF trim(scan[k]) = <<>> THEN longer[k - 1]
                                    ELSE Append(longer[k - 1], trim(scan[k]))
    BY <1>2, <2>1
  <2> QED BY <2>2 DEF IsKept
<1> QED BY <1>4

\* out holds the tokens among the first n that are not blank, trimmed and in order.
Filtered(S, scan, out, n) ==
  /\ out \in Seq(Seq(S))
  /\ Len(out) = Cardinality(Solid(scan, n))
  /\ \A k \in Solid(scan, n) : out[Cardinality(Solid(scan, k))] = trim(scan[k])

\* One turn of the second loop.
LEMMA FiltersOne ==
  ASSUME NEW S, NEW scan \in Seq(Seq(S)), NEW n \in 1..Len(scan), NEW out,
         Filtered(S, scan, out, n - 1)
  PROVE  Filtered(S, scan, IF trim(scan[n]) = <<>> THEN out ELSE Append(out, trim(scan[n])), n)
<1>0. Len(scan) \in Nat /\ scan[n] \in Seq(S)
  BY LenProperties, ElementOfSeq
<1>1. trim(scan[n]) \in Seq(S) /\ (trim(scan[n]) = <<>> <=> Blank(scan[n]))
  BY <1>0, Trims
<1>2. CASE Blank(scan[n])
  <2>1. Solid(scan, n) = Solid(scan, n - 1)
    BY <1>0, <1>2 DEF Solid
  <2> QED BY <1>1, <1>2, <2>1 DEF Filtered
<1>3. CASE ~ Blank(scan[n])
  <2> DEFINE longer == Append(out, trim(scan[n]))
  <2>1. Solid(scan, n) = Solid(scan, n - 1) \cup {n} /\ n \notin Solid(scan, n - 1)
    BY <1>0, <1>3 DEF Solid
  <2>2. IsFiniteSet(Solid(scan, n - 1))
    <3>1. 1 \in Int /\ n - 1 \in Int
      BY <1>0
    <3>2. IsFiniteSet(1..(n - 1))
      BY <3>1, FS_Interval
    <3> QED BY <3>2, FS_Subset DEF Solid
  <2>3. Cardinality(Solid(scan, n)) = Cardinality(Solid(scan, n - 1)) + 1
    BY <2>1, <2>2, FS_AddElement
  <2>4. /\ longer \in Seq(Seq(S)) /\ Len(longer) = Len(out) + 1 /\ Len(out) \in Nat
        /\ \A k \in 1..Len(out) : longer[k] = out[k]
        /\ longer[Len(out) + 1] = trim(scan[n])
    BY <1>1, AppendProperties, LenProperties DEF Filtered
  <2> HIDE DEF longer
  <2>5. ASSUME NEW k \in Solid(scan, n) PROVE longer[Cardinality(Solid(scan, k))] = trim(scan[k])
    <3>1. CASE k = n
      BY <2>3, <2>4, <3>1 DEF Filtered
    <3>2. CASE k # n
      <4>1. k \in Solid(scan, n - 1) /\ k \in 1..(n - 1)
        BY <1>0, <2>1, <3>2 DEF Solid
      <4>2. Solid(scan, k) \in SUBSET Solid(scan, n - 1) /\ k \in Solid(scan, k)
        BY <1>0, <4>1 DEF Solid
      <4>3. IsFiniteSet(Solid(scan, k)) /\ Cardinality(Solid(scan, k)) <= Cardinality(Solid(scan, n - 1))
        BY <2>2, <4>2, FS_Subset
      <4>4. Cardinality(Solid(scan, k)) \in Nat /\ Cardinality(Solid(scan, k)) # 0
        BY <4>2, <4>3, FS_CardinalityType, FS_EmptySet
      <4>5. Cardinality(Solid(scan, k)) \in 1..Len(out)
        BY <2>4, <4>3, <4>4 DEF Filtered
      <4> QED BY <2>4, <4>1, <4>5 DEF Filtered
    <3> QED BY <3>1, <3>2
  <2>6. Filtered(S, scan, longer, n)
    BY <2>3, <2>4, <2>5 DEF Filtered
  <2> QED BY <1>1, <1>3, <2>6 DEF longer
<1> QED BY <1>2, <1>3

\* rtrnVec filters all tokens.
LEMMA FiltersTokens ==
  ASSUME NEW S, NEW scan \in Seq(Seq(S))
  PROVE  Filtered(S, scan, rtrnVec(scan), Len(scan))
<1> DEFINE kept == CHOOSE kept : IsKept(kept, scan, Len(scan))
<1>0. Len(scan) \in Nat
  BY LenProperties
<1>1. IsKept(kept, scan, Len(scan))
  BY <1>0, KeptExists
<1>2. rtrnVec(scan) = kept[Len(scan)]
  BY DEF rtrnVec, IsKept
<1> HIDE DEF kept
<1>3. \A k \in 0..Len(scan) : kept[k] = IF k = 0 THEN <<>>
                                        ELSE IF trim(scan[k]) = <<>> THEN kept[k - 1]
                                        ELSE Append(kept[k - 1], trim(scan[k]))
  BY <1>1 DEF IsKept
<1> DEFINE T == {n \in Nat : n <= Len(scan) /\ ~ Filtered(S, scan, kept[n], n)}
<1>4. CASE T = {}
  <2>1. Len(scan) \notin T
    BY <1>4
  <2> QED BY <1>0, <1>2, <2>1
<1>5. CASE T # {}
  <2>1. PICK n \in T : \A m \in T : n <= m
    BY <1>5, LeastNumber
  <2>2. n # 0
    <3>1. Solid(scan, 0) = {}
      BY DEF Solid
    <3>2. kept[0] = <<>>
      BY <1>0, <1>3
    <3>3. Filtered(S, scan, kept[0], 0)
      BY <3>1, <3>2, EmptySeq, FS_EmptySet DEF Filtered
    <3> QED BY <3>3
  <2>3. n \in 1..Len(scan) /\ n - 1 \notin T /\ n - 1 \in Nat
    BY <1>0, <2>1, <2>2
  <2>4. Filtered(S, scan, kept[n - 1], n - 1)
    BY <1>0, <2>3
  <2>5. Filtered(S, scan, IF trim(scan[n]) = <<>> THEN kept[n - 1] ELSE Append(kept[n - 1], trim(scan[n])), n)
    BY <2>3, <2>4, FiltersOne
  <2>6. kept[n] = IF trim(scan[n]) = <<>> THEN kept[n - 1] ELSE Append(kept[n - 1], trim(scan[n]))
    BY <1>0, <1>3, <2>3
  <2>7. Filtered(S, scan, kept[n], n)
    BY <2>5, <2>6
  <2> QED BY <2>1, <2>7
<1> QED BY <1>4, <1>5

\* What split_CSV_line returns for a line of any length.
LEMMA SplitsLine ==
  ASSUME NEW S, NEW text \in Seq(S)
  PROVE  /\ Len(split_CSV_line(text)) = Cardinality(Kept(text))
         /\ \A n \in Kept(text) :
              Trimmed(Delivered(text, n), split_CSV_line(text)[Cardinality({m \in Kept(text) : m <= n})])
<1> DEFINE scan == scanVec(text)
           out == split_CSV_line(text)
<1>1. Scanned(S, text, scan, 0) /\ Fields(text) \in Nat
  BY ScansLine
<1> HIDE DEF scan
<1>2. /\ scan \in Seq(Seq(S)) /\ Len(scan) \in Nat /\ Len(scan) \in {Fields(text), Fields(text) - 1}
      /\ \A k \in 1..Len(scan) : scan[k] = Delivered(text, k) /\ scan[k] \in Seq(S)
      /\ Len(scan) # Fields(text) => Blank(Delivered(text, Fields(text)))
  <2>1. /\ scan \in Seq(Seq(S)) /\ Len(scan) \in {Fields(text) - 0, Fields(text) - 0 - 1}
        /\ \A k \in 1..Len(scan) : scan[k] = Delivered(text, 0 + k)
        /\ Len(scan) # Fields(text) - 0 => Delivered(text, Fields(text)) = <<>>
    BY <1>1 DEF Scanned
  <2>2. Len(scan) \in Nat /\ \A k \in 1..Len(scan) : scan[k] \in Seq(S) /\ 0 + k = k
    BY <2>1, LenProperties, ElementOfSeq
  <2>3. Blank(<<>>)
    BY DEF Blank
  <2>4. \A k \in 1..Len(scan) : scan[k] = Delivered(text, k)
    BY <2>1, <2>2
  <2>5. Fields(text) - 0 = Fields(text)
    BY <1>1
  <2> QED BY <2>1, <2>2, <2>3, <2>4, <2>5
<1>3. Filtered(S, scan, out, Len(scan))
  BY <1>2, FiltersTokens DEF split_CSV_line, scan
<1> HIDE DEF out
<1>4. Kept(text) = Solid(scan, Len(scan))
  BY <1>1, <1>2 DEF Kept, Solid
<1>5. ASSUME NEW n \in Kept(text) PROVE Trimmed(Delivered(text, n), out[Cardinality({m \in Kept(text) : m <= n})])
  <2>1. n \in Solid(scan, Len(scan)) /\ n \in 1..Len(scan) /\ ~ Blank(scan[n])
    BY <1>4 DEF Solid
  <2>2. {m \in Kept(text) : m <= n} = Solid(scan, n)
    BY <1>2, <1>4, <2>1 DEF Solid
  <2>3. out[Cardinality(Solid(scan, n))] = trim(scan[n])
    BY <1>3, <2>1 DEF Filtered
  <2>4. scan[n] \in Seq(S) /\ scan[n] = Delivered(text, n)
    BY <1>2, <2>1
  <2>5. Trimmed(scan[n], trim(scan[n]))
    BY <2>1, <2>4, Trims
  <2> QED BY <2>2, <2>3, <2>4, <2>5
<1> QED BY <1>3, <1>4, <1>5 DEF Filtered, out

\* The line that is parsed and what was made of it.
LineInv == main = "spec" => line \in Lines /\ servSpec = split_CSV_line(line)

\* Up to the last comma, the strings returned are the fields.
LEMMA SplitsEnded ==
  ASSUME NEW S, NEW text \in Seq(S)
  PROVE  LET ended == Filled(text, Fields(text) - 1)
             out == split_CSV_line(text)
         IN  /\ Len(out) - Cardinality(ended) \in {0, 1}
             /\ \A n \in ended : Trimmed(Field(text, n), out[Cardinality(Filled(text, n))])
<1> DEFINE F == Fields(text)
           ended == Filled(text, F - 1)
<1>1. F \in Nat
  BY ScansLine
<1> HIDE DEF F
<1>2. \A n \in 1..(F - 1) : Delivered(text, n) = Field(text, n)
  BY <1>1 DEF Delivered, F
<1>3. Kept(text) = {k \in 1..F : ~ Blank(Delivered(text, k))}
  BY DEF Kept, F
<1>4. ended = Kept(text) \ {F}
  BY <1>1, <1>2, <1>3 DEF Filled
<1>5. ASSUME NEW n \in ended
      PROVE  /\ n \in Kept(text) /\ Delivered(text, n) = Field(text, n)
             /\ {m \in Kept(text) : m <= n} = Filled(text, n)
  BY <1>1, <1>2, <1>3, <1>5 DEF Filled
<1>6. Len(split_CSV_line(text)) - Cardinality(ended) \in {0, 1}
  <2>1. IsFiniteSet(1..F)
    BY <1>1, FS_Interval
  <2>2. IsFiniteSet(Kept(text))
    BY <1>3, <2>1, FS_Subset
  <2>3. IsFiniteSet(ended)
    BY <1>4, <2>2, FS_Subset
  <2>4. CASE F \in Kept(text)
    <3>1. Kept(text) = ended \cup {F} /\ F \notin ended
      BY <1>4, <2>4
    <3> HIDE DEF ended
    <3>2. Cardinality(Kept(text)) = Cardinality(ended) + 1
      BY <2>3, <3>1, FS_AddElement
    <3>3. Len(split_CSV_line(text)) = Cardinality(ended) + 1 /\ Cardinality(ended) \in Nat
      BY <2>3, <3>2, FS_CardinalityType, SplitsLine
    <3> QED BY <3>3
  <2>5. CASE F \notin Kept(text)
    <3>1. ended = Kept(text)
      BY <1>4, <2>5
    <3> HIDE DEF ended
    <3>2. Len(split_CSV_line(text)) = Cardinality(ended) /\ Cardinality(ended) \in Nat
      BY <2>3, <3>1, FS_CardinalityType, SplitsLine
    <3> QED BY <3>2
  <2> QED BY <2>4, <2>5
<1>7. ASSUME NEW n \in ended
      PROVE  Trimmed(Field(text, n), split_CSV_line(text)[Cardinality(Filled(text, n))])
  <2>1. Trimmed(Delivered(text, n), split_CSV_line(text)[Cardinality({m \in Kept(text) : m <= n})])
    BY <1>5, SplitsLine
  <2> QED BY <1>5, <2>1
<1> QED BY <1>6, <1>7 DEF F

\* split_CSV_line cuts lines of every length at their commas.
THEOREM SplitsEveryLine == Spec => []SplitsAtCommas
<1>1. Init => LineInv
  BY DEF Init, LineInv
<1>2. LineInv /\ [Next]_vars => LineInv'
  <2> SUFFICES ASSUME LineInv, [Next]_vars PROVE LineInv'
    OBVIOUS
  <2>1. ASSUME NEW l \in Lines, split_line(l) PROVE LineInv'
    BY <2>1 DEF split_line, LineInv
  <2>2. CASE parse_line
    BY <2>2 DEF parse_line, LineInv
  <2>3. CASE parse_done \/ get_local_ip_addr \/ size_pool \/ create_thread \/ init_server_returns
             \/ try_join \/ stop \/ return \/ process_ends
    BY <2>3
    DEF parse_done, get_local_ip_addr, size_pool, create_thread, init_server_returns, try_join, stop,
        return, process_ends, LineInv
  <2>4. CASE Pool \/ UNCHANGED vars
    BY <2>4 DEF Pool, run, run_returns, file, vars, LineInv
  <2> QED BY <2>1, <2>2, <2>3, <2>4 DEF Next, Main
<1>3. LineInv => SplitsAtCommas
  <2> SUFFICES ASSUME LineInv, main = "spec" PROVE SplitsAtCommas
    BY DEF SplitsAtCommas
  <2>1. line \in Seq(STRING) /\ servSpec = split_CSV_line(line)
    BY LinesAssumption DEF LineInv
  <2> QED BY <2>1, SplitsEnded DEF SplitsAtCommas
<1> QED BY <1>1, <1>2, <1>3, PTL DEF Spec
=============================================================================
