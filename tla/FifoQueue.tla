----------------------------- MODULE FifoQueue -----------------------------
(***************************************************************************)
(* What concurrent_queue promises its callers (src/Connection.hpp, "a      *)
(* simple thread-safe multiple producer, multiple consumer queue"): every  *)
(* call takes effect at one instant between its invocation and its return, *)
(* on one first-in first-out list.  Locks, condition variable and the      *)
(* individual accesses to the list are absent here; ConcurrentQueue shows  *)
(* that the code implements this specification.                            *)
(***************************************************************************)
EXTENDS Sequences

CONSTANTS Threads,   \* the threads that share the queue
          Values,    \* what can be pushed
          NoValue    \* the value of a call that transfers nothing (yet)

VARIABLES items,     \* the list itself
          phase,     \* phase[t]: "idle", "pending" (called), "done" (took effect)
          fn,        \* fn[t]: the member function t called last
          val,       \* val[t]: the argument of push, or the value popped
          ret        \* ret[t]: the Boolean result of empty or try_pop

vars == <<items, phase, fn, val, ret>>

Functions == {"push", "empty", "try_pop", "wait_and_pop"}

Init ==
  /\ items = <<>>
  /\ phase = [t \in Threads |-> "idle"]
  /\ fn    = [t \in Threads |-> "empty"]
  /\ val   = [t \in Threads |-> NoValue]
  /\ ret   = [t \in Threads |-> FALSE]

Invoke(t, f, v) ==
  /\ phase[t] = "idle"
  /\ phase' = [phase EXCEPT ![t] = "pending"]
  /\ fn' = [fn EXCEPT ![t] = f]
  /\ val' = [val EXCEPT ![t] = v]
  /\ ret' = [ret EXCEPT ![t] = FALSE]
  /\ UNCHANGED items

Effect(t, f) ==
  /\ phase[t] = "pending"
  /\ fn[t] = f
  /\ phase' = [phase EXCEPT ![t] = "done"]
  /\ UNCHANGED fn

Push(t) ==
  /\ Effect(t, "push")
  /\ items' = Append(items, val[t])
  /\ UNCHANGED <<val, ret>>

Empty(t) ==
  /\ Effect(t, "empty")
  /\ ret' = [ret EXCEPT ![t] = (items = <<>>)]
  /\ UNCHANGED <<items, val>>

\* The oldest item leaves the list and becomes the caller's value.
Take(t) ==
  /\ items # <<>>
  /\ val' = [val EXCEPT ![t] = Head(items)]
  /\ items' = Tail(items)
  /\ ret' = [ret EXCEPT ![t] = TRUE]

TryPop(t) ==
  /\ Effect(t, "try_pop")
  /\ \/ Take(t)
     \/ items = <<>> /\ UNCHANGED <<items, val, ret>>

\* Blocks, without effect, while the list is empty.
WaitAndPop(t) ==
  /\ Effect(t, "wait_and_pop")
  /\ Take(t)

Return(t) ==
  /\ phase[t] = "done"
  /\ phase' = [phase EXCEPT ![t] = "idle"]
  /\ UNCHANGED <<items, fn, val, ret>>

Next ==
  \E t \in Threads :
    \/ \E v \in Values : Invoke(t, "push", v)
    \/ \E f \in Functions \ {"push"} : Invoke(t, f, NoValue)
    \/ Push(t)
    \/ Empty(t)
    \/ TryPop(t)
    \/ WaitAndPop(t)
    \/ Return(t)

Spec == Init /\ [][Next]_vars
=============================================================================
