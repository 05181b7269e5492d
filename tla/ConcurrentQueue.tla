-------------------------- MODULE ConcurrentQueue --------------------------
(***************************************************************************)
(* concurrent_queue<T> of src/Connection.hpp: a std::queue guarded by a    *)
(* boost::mutex, with a condition variable for consumers that wait.  Every *)
(* thread is a most general client: it calls any member function at any    *)
(* time, MaxCalls calls in all.  A step is one access to shared state:     *)
(* acquiring or releasing the mutex, testing the queue, copying its front, *)
(* popping it, notifying.                                                  *)
(***************************************************************************)
EXTENDS Naturals, Sequences, FiniteSets

CONSTANTS Threads,      \* the threads that share the queue
          Values,       \* what can be pushed
          NoValue,      \* value of a call that transfers nothing (yet)
          NoThread,     \* holder of the free mutex
          MaxCalls,     \* bound: calls the threads make together
          MaxSpurious   \* bound: wake-ups of cond_var.wait without a notify

ASSUME ThreadsAssumption == IsFiniteSet(Threads) /\ NoThread \notin Threads
ASSUME ValuesAssumption  == NoValue \notin Values
ASSUME BoundsAssumption  == MaxCalls \in Nat /\ MaxSpurious \in Nat

VARIABLES queue,     \* _queue
          mutex,     \* the thread that owns _mutex, or NoThread
          pc,        \* pc[t]: where t is in the function it runs
          fn,        \* fn[t]: the member function t called last
          loop,      \* loop[t]: where t is in clear(), "none" outside it
          val,       \* val[t]: the argument of push, or popped_value
          ret,       \* ret[t]: what empty or try_pop returns
          calls,     \* calls that may still be made
          spurious   \* spurious wake-ups that may still happen

vars == <<queue, mutex, pc, fn, loop, val, ret, calls, spurious>>

\* The threads blocked in cond_var.wait.
cond_var == {t \in Threads : pc[t] = "sleep"}

Init ==
  /\ queue = <<>>
  /\ mutex = NoThread
  /\ pc = [t \in Threads |-> "idle"]
  /\ fn = [t \in Threads |-> "empty"]
  /\ loop = [t \in Threads |-> "none"]
  /\ val = [t \in Threads |-> NoValue]
  /\ ret = [t \in Threads |-> FALSE]
  /\ calls = MaxCalls
  /\ spurious = MaxSpurious

-----------------------------------------------------------------------------
(* Calls.                                                                  *)

Enter(t, f, v) ==
  /\ pc[t] = "idle"
  /\ pc' = [pc EXCEPT ![t] = "lock"]
  /\ fn' = [fn EXCEPT ![t] = f]
  /\ val' = [val EXCEPT ![t] = v]
  /\ ret' = [ret EXCEPT ![t] = FALSE]
  /\ UNCHANGED <<queue, mutex, spurious>>

Call(t, f, v) ==
  /\ loop[t] = "none"
  /\ calls > 0
  /\ calls' = calls - 1
  /\ UNCHANGED loop
  /\ Enter(t, f, v)

\* clear() is a loop over the other member functions: each iteration calls
\* empty(), and try_pop() when that returned false.
clear(t) ==
  /\ pc[t] = "idle" /\ loop[t] = "none"
  /\ calls > 0
  /\ calls' = calls - 1
  /\ loop' = [loop EXCEPT ![t] = "test"]
  /\ UNCHANGED <<queue, mutex, pc, fn, val, ret, spurious>>

clear_iterate(t) ==
  /\ loop[t] # "none"
  /\ UNCHANGED <<loop, calls>>
  /\ Enter(t, IF loop[t] = "test" THEN "empty" ELSE "try_pop", NoValue)

-----------------------------------------------------------------------------
(* Steps inside the member functions.                                      *)

Move(t, from, to) ==
  /\ pc[t] = from
  /\ pc' = [pc EXCEPT ![t] = to]

\* boost::mutex::scoped_lock lock(_mutex)
scoped_lock(t) ==
  /\ Move(t, "lock", "body")
  /\ mutex = NoThread
  /\ mutex' = t
  /\ UNCHANGED <<queue, fn, loop, val, ret, calls, spurious>>

\* Mutant: push stores a default-constructed item instead of its argument.
push_default(t) ==
  /\ fn[t] = "push"
  /\ Move(t, "body", "unlock")
  /\ queue' = Append(queue, NoValue)
  /\ UNCHANGED <<mutex, fn, loop, val, ret, calls, spurious>>

push(t) ==
  /\ fn[t] = "push"
  /\ Move(t, "body", "unlock")
  /\ queue' = Append(queue, val[t])
  /\ UNCHANGED <<mutex, fn, loop, val, ret, calls, spurious>>

empty(t) ==
  /\ fn[t] = "empty"
  /\ Move(t, "body", "unlock")
  /\ ret' = [ret EXCEPT ![t] = (queue = <<>>)]
  /\ UNCHANGED <<queue, mutex, fn, loop, val, calls, spurious>>

try_pop(t) ==
  /\ fn[t] = "try_pop"
  /\ Move(t, "body", IF queue = <<>> THEN "unlock" ELSE "front")
  /\ UNCHANGED <<queue, mutex, fn, loop, val, ret, calls, spurious>>

\* Mutant: the wait keeps the mutex while it blocks.
wait_holding_mutex(t) ==
  /\ fn[t] = "wait_and_pop"
  /\ Move(t, "body", IF queue = <<>> THEN "sleep" ELSE "front")
  /\ UNCHANGED <<queue, mutex, fn, loop, val, ret, calls, spurious>>

\* The test of the while loop; cond_var.wait releases the mutex and blocks
\* in one step.
wait_and_pop(t) ==
  /\ fn[t] = "wait_and_pop"
  /\ \/ /\ queue = <<>>
        /\ Move(t, "body", "sleep")
        /\ mutex' = NoThread
     \/ /\ queue # <<>>
        /\ Move(t, "body", "front")
        /\ UNCHANGED mutex
  /\ UNCHANGED <<queue, fn, loop, val, ret, calls, spurious>>

\* Mutant: _queue.back() is copied, _queue.front() removed.
copy_back(t) ==
  /\ Move(t, "front", "pop")
  /\ val' = [val EXCEPT ![t] = queue[Len(queue)]]
  /\ UNCHANGED <<queue, mutex, fn, loop, ret, calls, spurious>>

\* popped_value = _queue.front()
copy_front(t) ==
  /\ Move(t, "front", "pop")
  /\ val' = [val EXCEPT ![t] = Head(queue)]
  /\ UNCHANGED <<queue, mutex, fn, loop, ret, calls, spurious>>

\* _queue.pop()
pop(t) ==
  /\ Move(t, "pop", "unlock")
  /\ queue' = Tail(queue)
  /\ ret' = [ret EXCEPT ![t] = TRUE]
  /\ UNCHANGED <<mutex, fn, loop, val, calls, spurious>>

\* Where clear() goes after the inner call it made has returned.
NextInClear(t) ==
  IF loop[t] = "pop" THEN "test"
  ELSE IF loop[t] = "test" /\ ~ret[t] THEN "pop" ELSE "none"

\* lock.unlock() in push, the destructor of scoped_lock elsewhere.
unlock(t) ==
  /\ Move(t, "unlock", IF fn[t] = "push" THEN "notify" ELSE "idle")
  /\ mutex' = NoThread
  /\ loop' = [loop EXCEPT ![t] = NextInClear(t)]
  /\ UNCHANGED <<queue, fn, val, ret, calls, spurious>>

\* Mutant: push forgets to notify.
notify_nobody(t) ==
  /\ Move(t, "notify", "idle")
  /\ UNCHANGED <<queue, mutex, fn, loop, val, ret, calls, spurious>>

\* cond_var.notify_one(): wakes one sleeper, if there is any.
notify_one(t) ==
  /\ pc[t] = "notify"
  /\ \/ /\ cond_var = {}
        /\ pc' = [pc EXCEPT ![t] = "idle"]
     \/ \E w \in cond_var : pc' = [pc EXCEPT ![t] = "idle", ![w] = "relock"]
  /\ UNCHANGED <<queue, mutex, fn, loop, val, ret, calls, spurious>>

\* cond_var.wait may return although nobody notified.
spurious_wakeup(t) ==
  /\ spurious > 0
  /\ spurious' = spurious - 1
  /\ Move(t, "sleep", "relock")
  /\ UNCHANGED <<queue, mutex, fn, loop, val, ret, calls>>

\* Mutant: wait returns without the mutex.
relock_unowned(t) ==
  /\ Move(t, "relock", "body")
  /\ UNCHANGED <<queue, mutex, fn, loop, val, ret, calls, spurious>>

\* Mutant: `if' in place of `while' around the wait.
relock_untested(t) ==
  /\ Move(t, "relock", "front")
  /\ mutex = NoThread
  /\ mutex' = t
  /\ UNCHANGED <<queue, fn, loop, val, ret, calls, spurious>>

\* A woken thread reacquires the mutex before wait returns to the loop test.
relock(t) ==
  /\ Move(t, "relock", "body")
  /\ mutex = NoThread
  /\ mutex' = t
  /\ UNCHANGED <<queue, fn, loop, val, ret, calls, spurious>>

-----------------------------------------------------------------------------

\* A thread inside a member function runs on; spurious wake-ups are not its doing.
Step(t) ==
  \/ clear_iterate(t)
  \/ scoped_lock(t)
  \/ push(t)
  \/ empty(t)
  \/ try_pop(t)
  \/ wait_and_pop(t)
  \/ copy_front(t)
  \/ pop(t)
  \/ unlock(t)
  \/ notify_one(t)
  \/ relock(t)

Next ==
  \E t \in Threads :
    \/ \E v \in Values : Call(t, "push", v)
    \/ \E f \in {"empty", "try_pop", "wait_and_pop"} : Call(t, f, NoValue)
    \/ clear(t)
    \/ spurious_wakeup(t)
    \/ Step(t)

Spec == Init /\ [][Next]_vars

\* A thread that can run eventually does; nobody has to make a call, and a
\* thread that competes for the mutex is not promised to win every time.
Fairness == \A t \in Threads : WF_vars(Step(t))

FairSpec == Spec /\ Fairness

-----------------------------------------------------------------------------
(* Properties.                                                             *)

Locations == {"idle", "lock", "body", "front", "pop", "unlock", "notify", "sleep", "relock"}

\* Type invariant: the lock, the queue and the state of every call of concurrent_queue.
TypeOK ==
  /\ queue \in Seq(Values)
  /\ mutex \in Threads \cup {NoThread}
  /\ pc \in [Threads -> Locations]
  /\ fn \in [Threads -> {"push", "empty", "try_pop", "wait_and_pop"}]
  /\ loop \in [Threads -> {"none", "test", "pop"}]
  /\ val \in [Threads -> Values \cup {NoValue}]
  /\ ret \in [Threads -> BOOLEAN]
  /\ calls \in Nat
  /\ spurious \in Nat

Critical == {"body", "front", "pop", "unlock"}

\* A thread that touches _queue owns _mutex, and the owner of _mutex is inside
\* one of the four stretches of code that touch _queue: no two threads access
\* the std::queue at once, and the mutex is never left locked behind a return.
MutualExclusion ==
  \A t \in Threads : pc[t] \in Critical <=> mutex = t

\* front() and pop() are only reached with an item in the queue (both are
\* undefined on an empty std::queue), and pop() removes exactly the item that
\* front() copied, whatever other threads did since the emptiness test.
PopsWhatItRead ==
  \A t \in Threads :
    /\ pc[t] \in {"front", "pop"} => queue # <<>>
    /\ pc[t] = "pop" => val[t] = Head(queue)

\* The threads that will still notify a sleeper or take an item themselves.
Awake ==
  {t \in Threads :
     \/ fn[t] = "push" /\ pc[t] \in {"unlock", "notify"}
     \/ fn[t] = "wait_and_pop" /\ pc[t] \in {"body", "front", "pop", "relock"}}

\* No lost wake-up: while a consumer sleeps in wait_and_pop, every item in the
\* queue is matched by a producer that has yet to call notify_one or by a
\* consumer already on its way to the queue, although push notifies after it
\* released the mutex and notify_one may reach a thread that finds no item.
NoLostWakeup ==
  cond_var # {} => Len(queue) <= Cardinality(Awake)

\* Every call returns, except wait_and_pop on an empty queue: a consumer that
\* sleeps while there is an item is woken or the item goes to somebody else, and
\* clear() ends although other threads push meanwhile.
CallsReturn ==
  \A t \in Threads :
    (pc[t] # "idle" \/ loop[t] # "none") ~>
       \/ pc[t] = "idle" /\ loop[t] = "none"
       \/ pc[t] = "sleep" /\ queue = <<>>

\* The abstract queue this code implements: push takes effect when the item is
\* in _queue, a pop when the item has left it, empty when it has looked.
Phase ==
  [t \in Threads |-> IF pc[t] = "idle" THEN "idle"
                    ELSE IF pc[t] \in {"unlock", "notify"} THEN "done" ELSE "pending"]

Transferred == [t \in Threads |-> IF pc[t] = "pop" THEN NoValue ELSE val[t]]

Abstract == INSTANCE FifoQueue WITH items <- queue, phase <- Phase, val <- Transferred

\* Each call of concurrent_queue takes effect atomically, first in first out.
ImplementsFifo == Abstract!Spec
=============================================================================
