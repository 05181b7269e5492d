--------------------------- MODULE LockfreeQueue ---------------------------
(***************************************************************************)
(* example/lockfree_queue.cpp: producers and consumers over one            *)
(* boost::lockfree::queue, two atomic counters and the atomic flag `done', *)
(* which main sets once the producers have been joined.  A step is one     *)
(* atomic operation of one thread.  The queue is external: push and pop    *)
(* are atomic.  A push that finds no memory is repeated and changes        *)
(* nothing, so it is no step of its own.                                   *)
(***************************************************************************)
EXTENDS Integers, Sequences, FiniteSets

CONSTANTS Producers, Consumers,   \* the two thread groups
          iterations              \* bound: items per producer

ASSUME GroupsAssumption ==
  IsFiniteSet(Producers) /\ IsFiniteSet(Consumers) /\ Consumers # {}
ASSUME IterationsAssumption == iterations \in Nat

VARIABLES producer_count, consumer_count, queue, done,
          i,         \* i[p]: rounds of the loop that p has finished
          value,     \* value[p]: what p is about to push, 0 for nothing
          pc,        \* pc[c]: where consumer c is
          main       \* where main is

LQvars == <<producer_count, consumer_count, queue, done, i, value, pc, main>>

LQInit ==
  /\ producer_count = 0 /\ consumer_count = 0
  /\ queue = <<>> /\ done = FALSE
  /\ i = [p \in Producers |-> 0] /\ value = [p \in Producers |-> 0]
  /\ pc = [c \in Consumers |-> "test"]
  /\ main = "join_producers"

-----------------------------------------------------------------------------
(* producer()                                                              *)

number(p) ==
  /\ i[p] # iterations /\ value[p] = 0
  /\ producer_count' = producer_count + 1
  /\ value' = [value EXCEPT ![p] = producer_count']
  /\ UNCHANGED <<consumer_count, queue, done, i, pc, main>>

push(p) ==
  /\ value[p] # 0
  /\ queue' = Append(queue, value[p])
  /\ value' = [value EXCEPT ![p] = 0]
  /\ i' = [i EXCEPT ![p] = @ + 1]
  /\ UNCHANGED <<producer_count, consumer_count, done, pc, main>>

-----------------------------------------------------------------------------
(* consumer()                                                              *)

\* Mutant: no second drain once done was seen.
test_done_leave(c) ==
  /\ pc[c] = "test"
  /\ pc' = [pc EXCEPT ![c] = IF done THEN "returned" ELSE "drain"]
  /\ UNCHANGED <<producer_count, consumer_count, queue, done, i, value, main>>

test_done(c) ==
  /\ pc[c] = "test"
  /\ pc' = [pc EXCEPT ![c] = IF done THEN "last_drain" ELSE "drain"]
  /\ UNCHANGED <<producer_count, consumer_count, queue, done, i, value, main>>

\* The value is popped; counting it is another atomic operation.
pop(c) ==
  /\ pc[c] \in {"drain", "last_drain"} /\ queue # <<>>
  /\ queue' = Tail(queue)
  /\ pc' = [pc EXCEPT ![c] = IF @ = "drain" THEN "count" ELSE "last_count"]
  /\ UNCHANGED <<producer_count, consumer_count, done, i, value, main>>

\* Mutant: the first drain waits for an item.
pop_fails_never(c) ==
  /\ pc[c] = "last_drain" /\ queue = <<>>
  /\ pc' = [pc EXCEPT ![c] = "returned"]
  /\ UNCHANGED <<producer_count, consumer_count, queue, done, i, value, main>>

\* The queue was empty: back to the test of done, or the end.
pop_fails(c) ==
  /\ pc[c] \in {"drain", "last_drain"} /\ queue = <<>>
  /\ pc' = [pc EXCEPT ![c] = IF @ = "drain" THEN "test" ELSE "returned"]
  /\ UNCHANGED <<producer_count, consumer_count, queue, done, i, value, main>>

count(c) ==
  /\ pc[c] \in {"count", "last_count"}
  /\ consumer_count' = consumer_count + 1
  /\ pc' = [pc EXCEPT ![c] = IF @ = "count" THEN "drain" ELSE "last_drain"]
  /\ UNCHANGED <<producer_count, queue, done, i, value, main>>

-----------------------------------------------------------------------------
(* main()                                                                  *)

\* producer_threads.join_all() and done = true.
join_producers ==
  /\ main = "join_producers"
  /\ \A p \in Producers : i[p] = iterations
  /\ done' = TRUE
  /\ main' = "join_consumers"
  /\ UNCHANGED <<producer_count, consumer_count, queue, i, value, pc>>

\* consumer_threads.join_all() and the report of both counts.
join_consumers ==
  /\ main = "join_consumers"
  /\ \A c \in Consumers : pc[c] = "returned"
  /\ main' = "reported"
  /\ UNCHANGED <<producer_count, consumer_count, queue, done, i, value, pc>>

-----------------------------------------------------------------------------

producer(p) == number(p) \/ push(p)

consumer(c) == test_done(c) \/ pop(c) \/ pop_fails(c) \/ count(c)

Main == join_producers \/ join_consumers

LQNext ==
  \/ \E p \in Producers : producer(p)
  \/ \E c \in Consumers : consumer(c)
  \/ Main

LQSpec == LQInit /\ [][LQNext]_LQvars

\* Every thread is scheduled, and a push finds memory in the end.
LQFairSpec ==
  /\ LQSpec
  /\ \A p \in Producers : WF_LQvars(producer(p))
  /\ \A c \in Consumers : WF_LQvars(consumer(c))
  /\ WF_LQvars(Main)

-----------------------------------------------------------------------------

Holding == {p \in Producers : value[p] # 0}
Counting == {c \in Consumers : pc[c] \in {"count", "last_count"}}

\* No item is lost or consumed twice on the way from ++producer_count to
\* ++consumer_count, and when main prints the counts everything produced has
\* been consumed: done, read before the queue was found empty, is enough for a
\* consumer to know that nothing can follow.
EverythingConsumed ==
  /\ producer_count =
       consumer_count + Len(queue) + Cardinality(Holding) + Cardinality(Counting)
  /\ main = "reported" =>
       /\ consumer_count = producer_count
       /\ producer_count = Cardinality(Producers) * iterations

\* The polling loops end: main reports, whichever consumer gets the items.
Finishes == <>(main = "reported")
=============================================================================
