--------------------------- MODULE WorkersProofs ---------------------------
(***************************************************************************)
(* The test in process_one never lets all workers block on an empty queue, *)
(* and no payload is lost or processed twice, for any number of workers    *)
(* and payloads.                                                           *)
(***************************************************************************)
EXTENDS Workers, FiniteSetTheorems, SequenceTheorems, TLAPS

\* Types of the queue `in'.
InTyped ==
  /\ in_items \in Seq(Payloads)
  /\ in_phase \in [WorkerThreads \cup {feeder} -> {"idle", "pending", "done"}]
  /\ in_fn \in [WorkerThreads \cup {feeder} -> {"push", "empty", "try_pop", "wait_and_pop"}]
  /\ in_val \in [WorkerThreads \cup {feeder} -> Payloads \cup {NoValue}]
  /\ in_ret \in [WorkerThreads \cup {feeder} -> BOOLEAN]
  /\ in_phase[feeder] = "pending" => in_val[feeder] \in Payloads
  /\ fed \in Nat

\* Which call on `in' a worker is in.
Calls ==
  /\ pc \in [WorkerThreads -> {"idle", "testing", "nonempty", "waiting", "popped", "pushing"}]
  /\ \A w \in WorkerThreads :
       /\ pc[w] \notin {"testing", "waiting"} => in_phase[w] = "idle"
       /\ pc[w] = "testing" => in_fn[w] = "empty"
       /\ pc[w] = "waiting" => in_fn[w] = "wait_and_pop"

\* Worker w has seen an item and not yet taken one.
Committed(w) ==
  \/ pc[w] = "testing" /\ in_phase[w] = "done" /\ ~in_ret[w]
  \/ pc[w] = "nonempty"
  \/ pc[w] = "waiting" /\ in_phase[w] = "pending"

\* Whoever takes the last item is not committed any more.
SomeoneUncommitted == in_items = <<>> => \E w \in WorkerThreads : ~Committed(w)

WorkersInv == InTyped /\ Calls /\ SomeoneUncommitted

\* Initially no worker has looked.
LEMMA InitWorkers == Init => WorkersInv
<1> SUFFICES ASSUME Init PROVE WorkersInv
  OBVIOUS
<1>1. InTyped
  BY EmptySeq, ThreadsAssumption DEF Init, In!Init, InTyped
<1>2. Calls
  BY DEF Init, In!Init, Calls
<1>3. SomeoneUncommitted
  BY ThreadsAssumption DEF Init, SomeoneUncommitted, Committed
<1> QED BY <1>1, <1>2, <1>3 DEF WorkersInv

\* Calls on `out' and their returns do not concern `in'.
LEMMA OutKeeps ==
  ASSUME WorkersInv, NEW w \in WorkerThreads,
         call_push(w) \/ push_returns(w) \/ out_effect(w)
  PROVE  WorkersInv'
<1>1. /\ UNCHANGED <<in_items, in_phase, in_fn, in_val, in_ret, fed>>
      /\ \/ UNCHANGED pc
         \/ Goto(w, "popped", "pushing")
         \/ Goto(w, "pushing", "idle")
  BY DEF call_push, push_returns, out_effect, in_vars
<1> QED
  BY <1>1 DEF WorkersInv, InTyped, Calls, SomeoneUncommitted, Committed, Goto

\* A worker calls empty or wait_and_pop, or one of them returns to it.
LEMMA WorkerCalls ==
  ASSUME WorkersInv, NEW w \in WorkerThreads,
         \/ call_empty(w) \/ empty_returns(w)
         \/ call_wait_and_pop(w) \/ wait_and_pop_returns(w)
  PROVE  WorkersInv'
<1> USE ThreadsAssumption
<1>1. CASE call_empty(w)
  <2>1. InTyped'
    BY <1>1 DEF call_empty, In!Invoke, WorkersInv, InTyped
  <2>2. Calls'
    BY <1>1 DEF call_empty, In!Invoke, WorkersInv, InTyped, Calls, Goto
  <2>3. SomeoneUncommitted'
    BY <1>1 DEF call_empty, In!Invoke, WorkersInv, InTyped, Calls, SomeoneUncommitted, Committed, Goto
  <2> QED BY <2>1, <2>2, <2>3 DEF WorkersInv
<1>2. CASE empty_returns(w)
  <2>1. InTyped'
    BY <1>2 DEF empty_returns, In!Return, WorkersInv, InTyped
  <2>2. Calls'
    BY <1>2 DEF empty_returns, In!Return, WorkersInv, InTyped, Calls, Goto
  <2>3. SomeoneUncommitted'
    BY <1>2 DEF empty_returns, In!Return, WorkersInv, InTyped, Calls, SomeoneUncommitted, Committed, Goto
  <2> QED BY <2>1, <2>2, <2>3 DEF WorkersInv
<1>3. CASE call_wait_and_pop(w)
  <2>1. InTyped'
    BY <1>3 DEF call_wait_and_pop, In!Invoke, WorkersInv, InTyped
  <2>2. Calls'
    BY <1>3 DEF call_wait_and_pop, In!Invoke, WorkersInv, InTyped, Calls, Goto
  <2>3. SomeoneUncommitted'
    BY <1>3 DEF call_wait_and_pop, In!Invoke, WorkersInv, InTyped, Calls, SomeoneUncommitted, Committed, Goto
  <2> QED BY <2>1, <2>2, <2>3 DEF WorkersInv
<1>4. CASE wait_and_pop_returns(w)
  <2>1. InTyped'
    BY <1>4 DEF wait_and_pop_returns, In!Return, WorkersInv, InTyped
  <2>2. Calls'
    BY <1>4 DEF wait_and_pop_returns, In!Return, WorkersInv, InTyped, Calls, Goto
  <2>3. SomeoneUncommitted'
    BY <1>4 DEF wait_and_pop_returns, In!Return, WorkersInv, InTyped, Calls, SomeoneUncommitted, Committed, Goto
  <2> QED BY <2>1, <2>2, <2>3 DEF WorkersInv
<1> QED BY <1>1, <1>2, <1>3, <1>4

\* The test or the pop takes effect: the test commits the worker only if there
\* is an item, and the pop that may empty the queue releases the worker.
LEMMA EffectKeeps ==
  ASSUME WorkersInv, NEW w \in WorkerThreads, in_effect(w)
  PROVE  WorkersInv'
<1> USE ThreadsAssumption
<1>0. UNCHANGED <<pc, fed>>
  BY DEF in_effect
<1>1. CASE In!Empty(w)
  <2>1. InTyped'
    BY <1>0, <1>1 DEF In!Empty, In!Effect, WorkersInv, InTyped
  <2>2. Calls'
    BY <1>0, <1>1 DEF In!Empty, In!Effect, WorkersInv, InTyped, Calls
  <2>3. SomeoneUncommitted'
    BY <1>0, <1>1
    DEF In!Empty, In!Effect, WorkersInv, InTyped, Calls, SomeoneUncommitted, Committed
  <2> QED BY <2>1, <2>2, <2>3 DEF WorkersInv
<1>2. CASE In!WaitAndPop(w)
  <2>1. /\ in_items # <<>>
        /\ in_items' = Tail(in_items)
        /\ in_val' = [in_val EXCEPT ![w] = Head(in_items)]
        /\ in_ret' = [in_ret EXCEPT ![w] = TRUE]
        /\ in_phase[w] = "pending" /\ in_fn[w] = "wait_and_pop"
        /\ in_phase' = [in_phase EXCEPT ![w] = "done"]
        /\ in_fn' = in_fn
    BY <1>2 DEF In!WaitAndPop, In!Take, In!Effect
  <2>2. Head(in_items) \in Payloads /\ Tail(in_items) \in Seq(Payloads)
    BY <2>1, HeadTailProperties DEF WorkersInv, InTyped
  <2>3. InTyped'
    BY <1>0, <2>1, <2>2 DEF WorkersInv, InTyped
  <2>4. Calls'
    BY <1>0, <2>1 DEF WorkersInv, InTyped, Calls
  <2>5. pc'[w] = "waiting" /\ in_phase'[w] = "done"
    BY <1>0, <2>1 DEF WorkersInv, InTyped, Calls
  <2>6. SomeoneUncommitted'
    BY <2>5 DEF SomeoneUncommitted, Committed
  <2> QED BY <2>3, <2>4, <2>6 DEF WorkersInv
<1> QED BY <1>1, <1>2 DEF in_effect

\* Feeding adds items and touches no worker.
LEMMA FeedKeeps ==
  ASSUME WorkersInv, feed \/ fed_push
  PROVE  WorkersInv'
<1> USE ThreadsAssumption
<1>1. CASE feed
  <2>1. fed' \in Payloads
    BY <1>1, PayloadsAssumption DEF feed, Payloads, WorkersInv, InTyped
  <2>2. InTyped'
    BY <1>1, <2>1 DEF feed, In!Invoke, WorkersInv, InTyped, Payloads
  <2>3. Calls'
    BY <1>1 DEF feed, In!Invoke, WorkersInv, InTyped, Calls
  <2>4. SomeoneUncommitted'
    BY <1>1 DEF feed, In!Invoke, WorkersInv, InTyped, Calls, SomeoneUncommitted, Committed
  <2> QED BY <2>2, <2>3, <2>4 DEF WorkersInv
<1>2. CASE In!Push(feeder) /\ UNCHANGED <<pc, fed>>
  <2>1. in_val[feeder] \in Payloads
    BY <1>2 DEF In!Push, In!Effect, WorkersInv, InTyped
  <2>2. in_items' \in Seq(Payloads) /\ in_items' # <<>>
    BY <1>2, <2>1 DEF In!Push, WorkersInv, InTyped
  <2>3. InTyped'
    BY <1>2, <2>2 DEF In!Push, In!Effect, WorkersInv, InTyped
  <2>4. Calls'
    BY <1>2 DEF In!Push, In!Effect, WorkersInv, InTyped, Calls
  <2> QED BY <2>2, <2>3, <2>4 DEF WorkersInv, SomeoneUncommitted
<1>3. CASE In!Return(feeder) /\ UNCHANGED <<pc, fed>>
  <2>1. InTyped'
    BY <1>3 DEF In!Return, WorkersInv, InTyped
  <2>2. Calls'
    BY <1>3 DEF In!Return, WorkersInv, InTyped, Calls
  <2>3. SomeoneUncommitted'
    BY <1>3 DEF In!Return, WorkersInv, InTyped, Calls, SomeoneUncommitted, Committed
  <2> QED BY <2>1, <2>2, <2>3 DEF WorkersInv
<1> QED BY <1>1, <1>2, <1>3 DEF fed_push

\* WorkersInv is inductive.
LEMMA NextWorkers == WorkersInv /\ [Next]_vars => WorkersInv'
<1> SUFFICES ASSUME WorkersInv, [Next]_vars PROVE WorkersInv'
  OBVIOUS
<1>1. CASE \E w \in WorkerThreads : Worker(w)
  BY <1>1, OutKeeps, WorkerCalls, EffectKeeps DEF Worker, process_one
<1>2. CASE feed \/ fed_push
  BY <1>2, FeedKeeps
<1>3. CASE UNCHANGED vars
  BY <1>3 DEF vars, in_vars, WorkersInv, InTyped, Calls, SomeoneUncommitted, Committed
<1> QED BY <1>1, <1>2, <1>3 DEF Next

\* However many workers share the queue, process_one never leaves all of them
\* blocked in wait_and_pop on an empty queue.
THEOREM WorkersNotAllStuck == Spec => []SomeWorkerFree
<1>1. WorkersInv => SomeWorkerFree
  <2> SUFFICES ASSUME WorkersInv PROVE SomeWorkerFree
    OBVIOUS
  <2>1. CASE in_items = <<>>
    BY <2>1 DEF WorkersInv, SomeoneUncommitted, Committed, SomeWorkerFree, Stuck
  <2>2. CASE in_items # <<>>
    BY <2>2, ThreadsAssumption DEF SomeWorkerFree, Stuck
  <2> QED BY <2>1, <2>2
<1> QED BY <1>1, InitWorkers, NextWorkers, PTL DEF Spec
-----------------------------------------------------------------------------
(* Where a payload is.                                                     *)

AtFeeder(v) == in_phase[feeder] = "pending" /\ in_val[feeder] = v
Queued(v) == \E k \in 1..Len(in_items) : in_items[k] = v
Has(w, v) ==
  \/ pc[w] = "waiting" /\ in_phase[w] = "done" /\ in_val[w] = v
  \/ pc[w] = "popped" /\ in_val[w] = v
  \/ pc[w] = "pushing" /\ out_phase[w] = "pending" /\ out_val[w] = mult_arr(v, 2)
Finished(v) == \E k \in 1..Len(out_items) : out_items[k] = mult_arr(v, 2)

\* Types of the queue `out', and what a worker holds on its way from one queue
\* to the other.
OutTyped ==
  /\ out_items \in Seq(Nat)
  /\ out_phase \in [WorkerThreads -> {"idle", "pending", "done"}]
  /\ out_fn \in [WorkerThreads -> {"push", "empty", "try_pop", "wait_and_pop"}]
  /\ out_val \in [WorkerThreads -> Nat \cup {NoValue}]
  /\ \A w \in WorkerThreads :
       /\ pc[w] # "pushing" => out_phase[w] = "idle"
       /\ pc[w] = "pushing" => out_fn[w] = "push" /\ \E v \in Payloads : out_val[w] = mult_arr(v, 2)
       /\ pc[w] = "popped" \/ (pc[w] = "waiting" /\ in_phase[w] = "done") => in_val[w] \in Payloads

\* A payload that has been fed is somewhere, and no other is anywhere.
Somewhere ==
  /\ fed <= MaxPayloads
  /\ \A v \in Payloads :
       v <= fed <=> \/ AtFeeder(v) \/ Queued(v) \/ Finished(v)
                   \/ \E w \in WorkerThreads : Has(w, v)

\* It is in no two of these places.
NotTwice ==
  /\ \A v \in Payloads :
       /\ AtFeeder(v) => ~Queued(v) /\ ~Finished(v) /\ \A w \in WorkerThreads : ~Has(w, v)
       /\ Queued(v) => ~Finished(v) /\ \A w \in WorkerThreads : ~Has(w, v)
       /\ Finished(v) => \A w \in WorkerThreads : ~Has(w, v)
       /\ \A w, u \in WorkerThreads : Has(w, v) /\ Has(u, v) => w = u
  /\ \A j, k \in 1..Len(in_items) : in_items[j] = in_items[k] => j = k
  /\ \A j, k \in 1..Len(out_items) : out_items[j] = out_items[k] => j = k

PlaceInv == WorkersInv /\ OutTyped /\ Somewhere /\ NotTwice

\* Initially no payload has been fed.
LEMMA InitPlaces == Init => PlaceInv
<1> SUFFICES ASSUME Init PROVE PlaceInv
  OBVIOUS
<1>0. in_items = <<>> /\ out_items = <<>> /\ fed = 0 /\ Len(<<>>) = 0
  BY EmptySeq DEF Init, In!Init, Out!Init
<1>1. OutTyped
  BY EmptySeq DEF Init, In!Init, Out!Init, OutTyped
<1>2. \A v \in Payloads : ~AtFeeder(v) /\ ~Queued(v) /\ ~Finished(v)
                          /\ \A w \in WorkerThreads : ~Has(w, v)
  BY <1>0, ThreadsAssumption DEF Init, In!Init, AtFeeder, Queued, Finished, Has
<1>3. Somewhere
  BY <1>0, <1>2, PayloadsAssumption DEF Somewhere, Payloads
<1>4. NotTwice
  BY <1>0, <1>2 DEF NotTwice
<1> QED BY <1>1, <1>3, <1>4, InitWorkers DEF PlaceInv

\* A step after which every payload is where it was.
LEMMA SamePlaces ==
  ASSUME PlaceInv, UNCHANGED <<in_items, out_items, fed>>,
         \A v \in Payloads : AtFeeder(v)' <=> AtFeeder(v),
         \A v \in Payloads, w \in WorkerThreads : Has(w, v)' <=> Has(w, v)
  PROVE  Somewhere' /\ NotTwice'
<1>1. \A v \in Payloads : (Queued(v)' <=> Queued(v)) /\ (Finished(v)' <=> Finished(v))
  BY DEF Queued, Finished
<1>2. Somewhere'
  BY <1>1 DEF PlaceInv, Somewhere
<1>3. NotTwice'
  BY <1>1 DEF PlaceInv, NotTwice
<1> QED BY <1>2, <1>3

\* A worker's calls and their returns, up to the call of push, leave what it
\* holds with it.
LEMMA CallsPlaces ==
  ASSUME PlaceInv, NEW w \in WorkerThreads,
         \/ call_empty(w) \/ empty_returns(w)
         \/ call_wait_and_pop(w) \/ wait_and_pop_returns(w)
  PROVE  OutTyped' /\ Somewhere' /\ NotTwice'
<1> USE ThreadsAssumption
    DEF PlaceInv, WorkersInv, InTyped, Calls, Goto, In!Invoke, In!Return,
        call_empty, empty_returns, call_wait_and_pop, wait_and_pop_returns, out_vars
<1>1. OutTyped'
  BY DEF OutTyped
<1>2. \A v \in Payloads : AtFeeder(v)' <=> AtFeeder(v)
  BY DEF AtFeeder
<1>3. \A v \in Payloads, u \in WorkerThreads : Has(u, v)' <=> Has(u, v)
  BY DEF Has
<1> QED BY <1>1, <1>2, <1>3, SamePlaces

\* The worker calls push with the doubled payload.
LEMMA PushCallPlaces ==
  ASSUME PlaceInv, NEW w \in WorkerThreads, call_push(w)
  PROVE  OutTyped' /\ Somewhere' /\ NotTwice'
<1>0. /\ pc \in [WorkerThreads -> {"idle", "testing", "nonempty", "waiting", "popped", "pushing"}]
      /\ pc[w] = "popped" /\ pc' = [pc EXCEPT ![w] = "pushing"]
      /\ UNCHANGED <<in_items, in_phase, in_val, out_items, fed>>
  BY DEF PlaceInv, WorkersInv, Calls, call_push, Goto, in_vars, Out!Invoke
<1>1. in_val[w] \in Payloads /\ mult_arr(in_val[w], 2) \in Nat
  BY <1>0, PayloadsAssumption DEF PlaceInv, OutTyped, Payloads, mult_arr
<1> DEFINE r == mult_arr(in_val[w], 2)
<1>2. /\ out_phase' = [out_phase EXCEPT ![w] = "pending"]
      /\ out_fn' = [out_fn EXCEPT ![w] = "push"]
      /\ out_val' = [out_val EXCEPT ![w] = r]
  BY DEF call_push, Out!Invoke
<1>3. \A v \in Payloads : r = mult_arr(v, 2) <=> in_val[w] = v
  BY <1>1, PayloadsAssumption DEF mult_arr, Payloads
<1>4. OutTyped'
  <2>1. r \in Nat /\ \E v \in Payloads : r = mult_arr(v, 2)
    BY <1>1
  <2> HIDE DEF r
  <2> QED BY <1>0, <1>2, <2>1 DEF PlaceInv, OutTyped
<1>5. \A v \in Payloads : AtFeeder(v)' <=> AtFeeder(v)
  BY <1>0 DEF AtFeeder
<1>6. \A v \in Payloads, u \in WorkerThreads : Has(u, v)' <=> Has(u, v)
  <2> HIDE DEF r
  <2> QED BY <1>0, <1>2, <1>3 DEF PlaceInv, OutTyped, Has
<1> QED BY <1>0, <1>4, <1>5, <1>6, SamePlaces

\* The call of push returns.
LEMMA PushReturnPlaces ==
  ASSUME PlaceInv, NEW w \in WorkerThreads, push_returns(w)
  PROVE  OutTyped' /\ Somewhere' /\ NotTwice'
<1> USE DEF PlaceInv, WorkersInv, InTyped, Calls, Goto, Out!Return, push_returns, in_vars
<1>1. OutTyped'
  BY DEF OutTyped
<1>2. \A v \in Payloads : AtFeeder(v)' <=> AtFeeder(v)
  BY DEF AtFeeder
<1>3. \A v \in Payloads, u \in WorkerThreads : Has(u, v)' <=> Has(u, v)
  BY DEF Has, OutTyped
<1> QED BY <1>1, <1>2, <1>3, SamePlaces

\* The test of `in' moves nothing.
LEMMA EmptyPlaces ==
  ASSUME PlaceInv, NEW w \in WorkerThreads, In!Empty(w), UNCHANGED <<out_vars, pc, fed>>
  PROVE  OutTyped' /\ Somewhere' /\ NotTwice'
<1> USE ThreadsAssumption
    DEF PlaceInv, WorkersInv, InTyped, Calls, In!Empty, In!Effect, out_vars
<1>1. OutTyped'
  BY DEF OutTyped
<1>2. \A v \in Payloads : AtFeeder(v)' <=> AtFeeder(v)
  BY DEF AtFeeder
<1>3. \A v \in Payloads, u \in WorkerThreads : Has(u, v)' <=> Has(u, v)
  BY DEF Has
<1> QED BY <1>1, <1>2, <1>3, SamePlaces

\* The pop moves the oldest payload from `in' to the worker.
LEMMA PopPlaces ==
  ASSUME PlaceInv, NEW w \in WorkerThreads, In!WaitAndPop(w), UNCHANGED <<out_vars, pc, fed>>
  PROVE  OutTyped' /\ Somewhere' /\ NotTwice'
<1> DEFINE h == Head(in_items)
<1>0. /\ in_items # <<>> /\ in_items \in Seq(Payloads)
      /\ in_items' = Tail(in_items)
      /\ in_val' = [in_val EXCEPT ![w] = h]
      /\ in_phase[w] = "pending" /\ in_fn[w] = "wait_and_pop"
      /\ in_phase' = [in_phase EXCEPT ![w] = "done"]
      /\ UNCHANGED <<out_items, out_phase, out_fn, out_val, pc, fed>>
  BY DEF In!WaitAndPop, In!Take, In!Effect, out_vars, PlaceInv, WorkersInv, InTyped
<1>1. pc[w] = "waiting"
  BY <1>0 DEF PlaceInv, WorkersInv, Calls
<1>2. /\ h \in Payloads /\ h = in_items[1] /\ 1 \in 1..Len(in_items)
      /\ Len(in_items') = Len(in_items) - 1
      /\ \A k \in 1..Len(in_items') : in_items'[k] = in_items[k + 1]
  BY <1>0, HeadTailProperties
<1> HIDE DEF h
<1>3. Len(in_items) \in Nat
  BY <1>0, LenProperties
<1>4. OutTyped'
  BY <1>0, <1>2, ThreadsAssumption DEF PlaceInv, OutTyped, WorkersInv, InTyped
<1>5. \A v \in Payloads : /\ AtFeeder(v)' <=> AtFeeder(v)
                          /\ Finished(v)' <=> Finished(v)
  BY <1>0, ThreadsAssumption DEF AtFeeder, Finished, PlaceInv, WorkersInv, InTyped
<1>6. \A v \in Payloads : Queued(v)' <=> Queued(v) /\ v # h
  <2> SUFFICES ASSUME NEW v \in Payloads PROVE Queued(v)' <=> Queued(v) /\ v # h
    OBVIOUS
  <2>1. ASSUME Queued(v)' PROVE Queued(v) /\ v # h
    <3>1. PICK k \in 1..Len(in_items') : in_items'[k] = v
      BY <2>1 DEF Queued
    <3>2. k + 1 \in 1..Len(in_items) /\ in_items[k + 1] = v /\ k + 1 # 1
      BY <1>2, <1>3, <3>1
    <3> QED BY <1>2, <3>2 DEF Queued, PlaceInv, NotTwice
  <2>2. ASSUME Queued(v), v # h PROVE Queued(v)'
    <3>1. PICK k \in 1..Len(in_items) : in_items[k] = v
      BY <2>2 DEF Queued
    <3>2. k # 1 /\ k - 1 \in 1..Len(in_items') /\ in_items'[k - 1] = in_items[(k - 1) + 1]
      BY <1>2, <1>3, <2>2, <3>1
    <3> QED BY <3>1, <3>2 DEF Queued
  <2> QED BY <2>1, <2>2
<1>7. \A v \in Payloads, u \in WorkerThreads : Has(u, v)' <=> Has(u, v) \/ (u = w /\ v = h)
  BY <1>0, <1>1, <1>2, ThreadsAssumption DEF Has, PlaceInv, WorkersInv, InTyped, Calls
<1>8. Queued(h)
  BY <1>2 DEF Queued
<1>9. Somewhere'
  BY <1>0, <1>2, <1>5, <1>6, <1>7, <1>8 DEF PlaceInv, Somewhere
<1>10. \A j, k \in 1..Len(in_items') : in_items'[j] = in_items'[k] => j = k
  BY <1>2, <1>3 DEF PlaceInv, NotTwice
<1>11. \A v \in Payloads :
         /\ AtFeeder(v)' => ~Queued(v)' /\ ~Finished(v)' /\ \A u \in WorkerThreads : ~Has(u, v)'
         /\ Queued(v)' => ~Finished(v)' /\ \A u \in WorkerThreads : ~Has(u, v)'
         /\ Finished(v)' => \A u \in WorkerThreads : ~Has(u, v)'
         /\ \A x, u \in WorkerThreads : Has(x, v)' /\ Has(u, v)' => x = u
  BY <1>2, <1>5, <1>6, <1>7, <1>8 DEF PlaceInv, NotTwice
<1> QED BY <1>0, <1>4, <1>9, <1>10, <1>11 DEF PlaceInv, NotTwice

\* The push moves the doubled payload from the worker to `out'.
LEMMA OutEffectPlaces ==
  ASSUME PlaceInv, NEW w \in WorkerThreads, out_effect(w)
  PROVE  OutTyped' /\ Somewhere' /\ NotTwice'
<1>0. /\ out_phase[w] = "pending"
      /\ out_phase' = [out_phase EXCEPT ![w] = "done"]
      /\ out_items' = Append(out_items, out_val[w])
      /\ UNCHANGED <<in_items, in_phase, in_val, out_fn, out_val, pc, fed>>
  BY DEF out_effect, Out!Push, Out!Effect, in_vars
<1>1. pc[w] = "pushing"
  BY <1>0 DEF PlaceInv, OutTyped
<1>2. PICK x \in Payloads : out_val[w] = mult_arr(x, 2)
  BY <1>1 DEF PlaceInv, OutTyped
<1>3. /\ out_val[w] \in Nat
      /\ \A v \in Payloads : out_val[w] = mult_arr(v, 2) <=> v = x
  BY <1>2, PayloadsAssumption DEF mult_arr, Payloads
<1>4. /\ out_items' \in Seq(Nat)
      /\ Len(out_items) \in Nat /\ Len(out_items') = Len(out_items) + 1
      /\ \A k \in 1..Len(out_items) : out_items'[k] = out_items[k]
      /\ out_items'[Len(out_items) + 1] = out_val[w]
  BY <1>0, <1>3, AppendProperties, LenProperties DEF PlaceInv, OutTyped
<1>5. OutTyped'
  BY <1>0, <1>4 DEF PlaceInv, OutTyped
<1>6. Has(w, x)
  BY <1>0, <1>1, <1>2 DEF Has
<1>7. \A v \in Payloads : /\ AtFeeder(v)' <=> AtFeeder(v)
                          /\ Queued(v)' <=> Queued(v)
                          /\ Finished(v)' <=> Finished(v) \/ v = x
  <2>1. \A v \in Payloads : (AtFeeder(v)' <=> AtFeeder(v)) /\ (Queued(v)' <=> Queued(v))
    BY <1>0 DEF AtFeeder, Queued
  <2>2. ASSUME NEW v \in Payloads PROVE Finished(v)' <=> Finished(v) \/ v = x
    BY <1>3, <1>4 DEF Finished
  <2> QED BY <2>1, <2>2
<1>8. \A v \in Payloads, u \in WorkerThreads : Has(u, v)' <=> Has(u, v) /\ u # w
  BY <1>0, <1>1 DEF Has, PlaceInv, OutTyped
<1>9. \A v \in Payloads : Has(w, v) <=> v = x
  BY <1>0, <1>1, <1>3 DEF Has
<1>10. Somewhere'
  BY <1>0, <1>7, <1>8, <1>9 DEF PlaceInv, Somewhere
<1>11. \A j, k \in 1..Len(out_items') : out_items'[j] = out_items'[k] => j = k
  <2>1. ~Finished(x)
    BY <1>6 DEF PlaceInv, NotTwice
  <2>2. \A k \in 1..Len(out_items) : out_items[k] # out_val[w]
    BY <1>2, <2>1 DEF Finished
  <2> QED BY <1>4, <2>2 DEF PlaceInv, NotTwice
<1>12. \A v \in Payloads :
         /\ AtFeeder(v)' => ~Queued(v)' /\ ~Finished(v)' /\ \A u \in WorkerThreads : ~Has(u, v)'
         /\ Queued(v)' => ~Finished(v)' /\ \A u \in WorkerThreads : ~Has(u, v)'
         /\ Finished(v)' => \A u \in WorkerThreads : ~Has(u, v)'
         /\ \A y, u \in WorkerThreads : Has(y, v)' /\ Has(u, v)' => y = u
  BY <1>6, <1>7, <1>8, <1>9 DEF PlaceInv, NotTwice
<1> QED BY <1>0, <1>5, <1>10, <1>11, <1>12 DEF PlaceInv, NotTwice

\* A payload is new when it is fed.
LEMMA FeedPlaces ==
  ASSUME PlaceInv, feed
  PROVE  OutTyped' /\ Somewhere' /\ NotTwice'
<1>0. /\ in_phase[feeder] = "idle" /\ fed < MaxPayloads /\ fed' = fed + 1 /\ fed \in Nat
      /\ in_phase' = [in_phase EXCEPT ![feeder] = "pending"]
      /\ in_val' = [in_val EXCEPT ![feeder] = fed']
      /\ UNCHANGED <<in_items, out_items, out_phase, out_fn, out_val, pc>>
  BY DEF feed, In!Invoke, out_vars, PlaceInv, WorkersInv, InTyped
<1>1. fed' \in Payloads
  BY <1>0, PayloadsAssumption DEF Payloads
<1>2. OutTyped'
  BY <1>0, ThreadsAssumption DEF PlaceInv, OutTyped, WorkersInv, InTyped
<1>3. \A v \in Payloads : /\ ~AtFeeder(v)
                          /\ AtFeeder(v)' <=> v = fed'
                          /\ Queued(v)' <=> Queued(v)
                          /\ Finished(v)' <=> Finished(v)
  BY <1>0, <1>1 DEF AtFeeder, Queued, Finished, PlaceInv, WorkersInv, InTyped
<1>4. \A v \in Payloads, u \in WorkerThreads : Has(u, v)' <=> Has(u, v)
  BY <1>0, ThreadsAssumption DEF Has, PlaceInv, WorkersInv, InTyped
<1>5. \A v \in Payloads : v <= fed' <=> v <= fed \/ v = fed'
  BY <1>0, PayloadsAssumption DEF Payloads
<1>6. Somewhere'
  BY <1>0, <1>3, <1>4, <1>5, PayloadsAssumption DEF PlaceInv, Somewhere
<1>7. /\ ~Queued(fed') /\ ~Finished(fed') /\ \A w \in WorkerThreads : ~Has(w, fed')
  BY <1>0, <1>1 DEF PlaceInv, Somewhere
<1>8. NotTwice'
  BY <1>0, <1>1, <1>3, <1>4, <1>7 DEF PlaceInv, NotTwice
<1> QED BY <1>2, <1>6, <1>8

\* The feeder's push takes effect, or returns.
LEMMA FedPushPlaces ==
  ASSUME PlaceInv, fed_push
  PROVE  OutTyped' /\ Somewhere' /\ NotTwice'
<1>0. UNCHANGED <<out_items, out_phase, out_fn, out_val, pc, fed, in_val>>
  BY DEF fed_push, out_vars, In!Push, In!Return
<1>1. CASE In!Return(feeder)
  <2>1. in_phase' = [in_phase EXCEPT ![feeder] = "idle"] /\ in_phase[feeder] = "done" /\ UNCHANGED in_items
    BY <1>1 DEF In!Return
  <2>2. OutTyped'
    BY <1>0, <2>1, ThreadsAssumption DEF PlaceInv, OutTyped, WorkersInv, InTyped
  <2>3. \A v \in Payloads : AtFeeder(v)' <=> AtFeeder(v)
    BY <1>0, <2>1 DEF AtFeeder, PlaceInv, WorkersInv, InTyped
  <2>4. \A v \in Payloads, u \in WorkerThreads : Has(u, v)' <=> Has(u, v)
    BY <1>0, <2>1, ThreadsAssumption DEF Has, PlaceInv, WorkersInv, InTyped
  <2> QED BY <1>0, <2>1, <2>2, <2>3, <2>4, SamePlaces
<1>2. CASE In!Push(feeder)
  <2> DEFINE x == in_val[feeder]
  <2>0. /\ in_phase[feeder] = "pending" /\ in_phase' = [in_phase EXCEPT ![feeder] = "done"]
        /\ in_items' = Append(in_items, x)
        /\ x \in Payloads /\ in_items \in Seq(Payloads)
    BY <1>2 DEF In!Push, In!Effect, PlaceInv, WorkersInv, InTyped
  <2> HIDE DEF x
  <2>1. /\ Len(in_items) \in Nat /\ Len(in_items') = Len(in_items) + 1
        /\ \A k \in 1..Len(in_items) : in_items'[k] = in_items[k]
        /\ in_items'[Len(in_items) + 1] = x
    BY <2>0, AppendProperties, LenProperties
  <2>2. OutTyped'
    BY <1>0, <2>0, ThreadsAssumption DEF PlaceInv, OutTyped, WorkersInv, InTyped
  <2>3. \A v \in Payloads : /\ AtFeeder(v) <=> v = x
                            /\ ~AtFeeder(v)'
                            /\ Finished(v)' <=> Finished(v)
    BY <1>0, <2>0 DEF x, AtFeeder, Finished, PlaceInv, WorkersInv, InTyped
  <2>4. ASSUME NEW v \in Payloads PROVE Queued(v)' <=> Queued(v) \/ v = x
    BY <2>1 DEF Queued
  <2>5. \A v \in Payloads, u \in WorkerThreads : Has(u, v)' <=> Has(u, v)
    BY <1>0, <2>0, ThreadsAssumption DEF Has, PlaceInv, WorkersInv, InTyped
  <2>6. Somewhere'
    BY <1>0, <2>3, <2>4, <2>5 DEF PlaceInv, Somewhere
  <2>7. \A j, k \in 1..Len(in_items') : in_items'[j] = in_items'[k] => j = k
    <3>1. ~Queued(x)
      BY <2>0, <2>3 DEF PlaceInv, NotTwice
    <3>2. \A k \in 1..Len(in_items) : in_items[k] # x
      BY <3>1 DEF Queued
    <3> QED BY <2>1, <3>2 DEF PlaceInv, NotTwice
  <2>8. NotTwice'
    BY <1>0, <2>0, <2>3, <2>4, <2>5, <2>7 DEF PlaceInv, NotTwice
  <2> QED BY <2>2, <2>6, <2>8
<1> QED BY <1>1, <1>2 DEF fed_push

\* PlaceInv is inductive.
LEMMA NextPlaces == PlaceInv /\ [Next]_vars => PlaceInv'
<1> SUFFICES ASSUME PlaceInv, [Next]_vars PROVE OutTyped' /\ Somewhere' /\ NotTwice'
  BY NextWorkers DEF PlaceInv
<1>1. ASSUME NEW w \in WorkerThreads, Worker(w) PROVE OutTyped' /\ Somewhere' /\ NotTwice'
  BY <1>1, CallsPlaces, PushCallPlaces, PushReturnPlaces, EmptyPlaces, PopPlaces, OutEffectPlaces
  DEF Worker, process_one, in_effect
<1>2. CASE feed \/ fed_push
  BY <1>2, FeedPlaces, FedPushPlaces
<1>3. CASE UNCHANGED vars
  <2>1. OutTyped'
    BY <1>3 DEF vars, in_vars, out_vars, PlaceInv, OutTyped
  <2>2. \A v \in Payloads : AtFeeder(v)' <=> AtFeeder(v)
    BY <1>3 DEF vars, in_vars, AtFeeder
  <2>3. \A v \in Payloads, u \in WorkerThreads : Has(u, v)' <=> Has(u, v)
    BY <1>3 DEF vars, in_vars, out_vars, Has
  <2>4. UNCHANGED <<in_items, out_items, fed>>
    BY <1>3 DEF vars, in_vars, out_vars
  <2> QED BY <2>1, <2>2, <2>3, <2>4, SamePlaces
<1> QED BY <1>1, <1>2, <1>3 DEF Next

\* However many workers race for however many payloads, each payload fed is in
\* exactly one place, and only its double reaches `out'.
THEOREM NoPayloadLostOrDoubled == Spec => []PayloadInOnePlace
<1>1. PlaceInv => PayloadInOnePlace
  <2> SUFFICES ASSUME PlaceInv, NEW v \in 1..fed PROVE Cardinality(Places(v)) = 1
    BY DEF PayloadInOnePlace
  <2> DEFINE A == {<<"feeder", t>> : t \in {t \in {feeder} : in_phase[t] = "pending" /\ in_val[t] = v}}
  <2> DEFINE I == {<<"in", k>> : k \in {k \in DOMAIN in_items : in_items[k] = v}}
  <2> DEFINE W == {<<"worker", w>> : w \in {w \in WorkerThreads : Has(w, v)}}
  <2> DEFINE O == {<<"out", k>> : k \in {k \in DOMAIN out_items : out_items[k] = mult_arr(v, 2)}}
  <2>0. Places(v) = A \cup I \cup W \cup O
    BY DEF Places, Has
  <2>1. v \in Payloads /\ v <= fed
    BY PayloadsAssumption DEF PlaceInv, WorkersInv, InTyped, Somewhere, Payloads
  <2>2. DOMAIN in_items = 1..Len(in_items) /\ DOMAIN out_items = 1..Len(out_items)
    BY LenProperties DEF PlaceInv, WorkersInv, InTyped, OutTyped
  <2>3. /\ ~AtFeeder(v) => A = {}
        /\ AtFeeder(v) => A = {<<"feeder", feeder>>}
    BY DEF AtFeeder
  <2>4. /\ ~Queued(v) => I = {}
        /\ Queued(v) => \E k : I = {<<"in", k>>}
    <3>1. ~Queued(v) => I = {}
      BY <2>2 DEF Queued
    <3>2. ASSUME Queued(v) PROVE \E k : I = {<<"in", k>>}
      <4>1. PICK k \in 1..Len(in_items) : in_items[k] = v
        BY <3>2 DEF Queued
      <4>2. {j \in DOMAIN in_items : in_items[j] = v} = {k}
        BY <2>2, <4>1 DEF PlaceInv, NotTwice
      <4> QED BY <4>2
    <3> QED BY <3>1, <3>2
  <2>5. /\ (\A w \in WorkerThreads : ~Has(w, v)) => W = {}
        /\ (\E w \in WorkerThreads : Has(w, v)) => \E w : W = {<<"worker", w>>}
    <3>1. (\A w \in WorkerThreads : ~Has(w, v)) => W = {}
      OBVIOUS
    <3>2. ASSUME NEW w \in WorkerThreads, Has(w, v) PROVE W = {<<"worker", w>>}
      <4>1. {u \in WorkerThreads : Has(u, v)} = {w}
        BY <2>1, <3>2 DEF PlaceInv, NotTwice
      <4> QED BY <4>1
    <3> QED BY <3>1, <3>2
  <2>6. /\ ~Finished(v) => O = {}
        /\ Finished(v) => \E k : O = {<<"out", k>>}
    <3>1. ~Finished(v) => O = {}
      BY <2>2 DEF Finished
    <3>2. ASSUME Finished(v) PROVE \E k : O = {<<"out", k>>}
      <4>1. PICK k \in 1..Len(out_items) : out_items[k] = mult_arr(v, 2)
        BY <3>2 DEF Finished
      <4>2. {j \in DOMAIN out_items : out_items[j] = mult_arr(v, 2)} = {k}
        BY <2>2, <4>1 DEF PlaceInv, NotTwice
      <4> QED BY <4>2
    <3> QED BY <3>1, <3>2
  <2> HIDE DEF A, I, W, O
  <2>7. \E x : Places(v) = {x}
    <3>1. CASE AtFeeder(v)
      <4>1. I = {} /\ W = {} /\ O = {} /\ A = {<<"feeder", feeder>>}
        BY <2>1, <2>3, <2>4, <2>5, <2>6, <3>1 DEF PlaceInv, NotTwice
      <4> QED BY <2>0, <4>1
    <3>2. CASE Queued(v)
      <4>1. A = {} /\ W = {} /\ O = {} /\ \E k : I = {<<"in", k>>}
        BY <2>1, <2>3, <2>4, <2>5, <2>6, <3>2 DEF PlaceInv, NotTwice
      <4> QED BY <2>0, <4>1
    <3>3. CASE Finished(v)
      <4>1. A = {} /\ I = {} /\ W = {} /\ \E k : O = {<<"out", k>>}
        BY <2>1, <2>3, <2>4, <2>5, <2>6, <3>3 DEF PlaceInv, NotTwice
      <4> QED BY <2>0, <4>1
    <3>4. CASE \E w \in WorkerThreads : Has(w, v)
      <4>1. A = {} /\ I = {} /\ O = {} /\ \E w : W = {<<"worker", w>>}
        BY <2>1, <2>3, <2>4, <2>5, <2>6, <3>4 DEF PlaceInv, NotTwice
      <4> QED BY <2>0, <4>1
    <3> QED BY <2>1, <3>1, <3>2, <3>3, <3>4 DEF PlaceInv, Somewhere
  <2> QED BY <2>7, FS_Singleton
<1> QED BY <1>1, InitPlaces, NextPlaces, PTL DEF Spec
=============================================================================
