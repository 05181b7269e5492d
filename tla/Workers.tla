------------------------------ MODULE Workers ------------------------------
(***************************************************************************)
(* The workers of test/b_thread.cpp: each takes payloads from the queue    *)
(* `in', doubles them and puts the results on the queue `out'.  Both are   *)
(* concurrent_queues, here two instances of FifoQueue: a worker calls a    *)
(* member function, the call takes effect, the call returns.  process_one  *)
(* looks whether `in' is empty before it makes the call that would block   *)
(* on an empty queue, but other workers act between the two calls.  The    *)
(* source creates no Worker yet: here each thread may call process_one     *)
(* again or never, and a feeder (external) may push the payloads.          *)
(***************************************************************************)
EXTENDS Integers, Sequences, FiniteSets

CONSTANTS WorkerThreads, feeder,
          NoValue,
          MaxPayloads   \* bound: payloads fed

ASSUME ThreadsAssumption == WorkerThreads # {} /\ feeder \notin WorkerThreads
ASSUME PayloadsAssumption == MaxPayloads \in Nat /\ NoValue \notin Nat

VARIABLES in_items, in_phase, in_fn, in_val, in_ret,        \* the queue `in'
          out_items, out_phase, out_fn, out_val, out_ret,   \* the queue `out'
          pc,    \* pc[w]: where worker w is in process_one
          fed    \* payloads 1..fed have been fed

in_vars == <<in_items, in_phase, in_fn, in_val, in_ret>>
out_vars == <<out_items, out_phase, out_fn, out_val, out_ret>>
vars == <<in_vars, out_vars, pc, fed>>

\* A payload is the value its array is filled with, and its name.
Payloads == 1..MaxPayloads

\* A new array, each element multiplied.
mult_arr(v, factor) == v * factor

In == INSTANCE FifoQueue WITH
  Threads <- WorkerThreads \cup {feeder}, Values <- Payloads,
  items <- in_items, phase <- in_phase, fn <- in_fn, val <- in_val, ret <- in_ret

Out == INSTANCE FifoQueue WITH
  Threads <- WorkerThreads, Values <- {mult_arr(v, 2) : v \in Payloads},
  items <- out_items, phase <- out_phase, fn <- out_fn, val <- out_val, ret <- out_ret

Init ==
  /\ In!Init /\ Out!Init
  /\ pc = [w \in WorkerThreads |-> "idle"]
  /\ fed = 0

-----------------------------------------------------------------------------
(* Worker::process_one.                                                    *)

Goto(w, from, to) == pc[w] = from /\ pc' = [pc EXCEPT ![w] = to]

\* Mutant: process_one does not look before it waits.
call_empty_skipped(w) ==
  /\ Goto(w, "idle", "waiting")
  /\ In!Invoke(w, "wait_and_pop", NoValue)
  /\ UNCHANGED <<out_vars, fed>>

call_empty(w) ==
  /\ Goto(w, "idle", "testing")
  /\ In!Invoke(w, "empty", NoValue)
  /\ UNCHANGED <<out_vars, fed>>

\* Mutant: a loop around the test, which asks again while the queue is empty.
empty_returns_spins(w) ==
  /\ pc[w] = "testing" /\ in_phase[w] = "done"
  /\ \/ /\ in_ret[w]
        /\ in_phase' = [in_phase EXCEPT ![w] = "pending"]
        /\ UNCHANGED <<in_items, in_fn, in_val, in_ret, pc>>
     \/ ~in_ret[w] /\ Goto(w, "testing", "nonempty") /\ In!Return(w)
  /\ UNCHANGED <<out_vars, fed>>

\* process_one is over if the queue was empty.
empty_returns(w) ==
  /\ Goto(w, "testing", IF in_ret[w] THEN "idle" ELSE "nonempty")
  /\ In!Return(w)
  /\ UNCHANGED <<out_vars, fed>>

call_wait_and_pop(w) ==
  /\ Goto(w, "nonempty", "waiting")
  /\ In!Invoke(w, "wait_and_pop", NoValue)
  /\ UNCHANGED <<out_vars, fed>>

wait_and_pop_returns(w) ==
  /\ Goto(w, "waiting", "popped")
  /\ In!Return(w)
  /\ UNCHANGED <<out_vars, fed>>

\* Mutant: the input is passed on instead of the result.
call_push_input(w) ==
  /\ Goto(w, "popped", "pushing")
  /\ Out!Invoke(w, "push", in_val[w])
  /\ UNCHANGED <<in_vars, fed>>

\* The factor is 2, whatever the worker's own factor is.
call_push(w) ==
  /\ Goto(w, "popped", "pushing")
  /\ Out!Invoke(w, "push", mult_arr(in_val[w], 2))
  /\ UNCHANGED <<in_vars, fed>>

push_returns(w) ==
  /\ Goto(w, "pushing", "idle")
  /\ Out!Return(w)
  /\ UNCHANGED <<in_vars, fed>>

\* The calls take effect.
in_effect(w) ==
  /\ In!Empty(w) \/ In!WaitAndPop(w)
  /\ UNCHANGED <<out_vars, pc, fed>>

out_effect(w) ==
  /\ Out!Push(w)
  /\ UNCHANGED <<in_vars, pc, fed>>

-----------------------------------------------------------------------------
(* Whoever fills `in' (external).                                          *)

feed ==
  /\ fed < MaxPayloads
  /\ fed' = fed + 1
  /\ In!Invoke(feeder, "push", fed')
  /\ UNCHANGED <<out_vars, pc>>

fed_push ==
  /\ In!Push(feeder) \/ In!Return(feeder)
  /\ UNCHANGED <<out_vars, pc, fed>>

-----------------------------------------------------------------------------

\* The rest of a call of process_one.
process_one(w) ==
  \/ empty_returns(w)
  \/ call_wait_and_pop(w)
  \/ wait_and_pop_returns(w)
  \/ call_push(w)
  \/ push_returns(w)
  \/ in_effect(w)
  \/ out_effect(w)

Worker(w) == call_empty(w) \/ process_one(w)

Next ==
  \/ \E w \in WorkerThreads : Worker(w)
  \/ feed
  \/ fed_push

Spec == Init /\ [][Next]_vars

\* A thread inside process_one is scheduled; nobody has to call process_one or to
\* feed the workers.
FairSpec == Spec /\ \A w \in WorkerThreads : WF_vars(process_one(w))

-----------------------------------------------------------------------------

\* Where payload v is: with the feeder, in one of the queues, with a worker.
Places(v) ==
  {<<"feeder", t>> : t \in {t \in {feeder} : in_phase[t] = "pending" /\ in_val[t] = v}}
    \cup {<<"in", k>> : k \in {k \in DOMAIN in_items : in_items[k] = v}}
    \cup {<<"worker", w>> : w \in {w \in WorkerThreads :
            \/ pc[w] = "waiting" /\ in_phase[w] = "done" /\ in_val[w] = v
            \/ pc[w] = "popped" /\ in_val[w] = v
            \/ pc[w] = "pushing" /\ out_phase[w] = "pending" /\ out_val[w] = mult_arr(v, 2)}}
    \cup {<<"out", k>> : k \in {k \in DOMAIN out_items : out_items[k] = mult_arr(v, 2)}}

\* No payload is lost or processed twice, however the workers interleave: each
\* one that was fed is in exactly one place, and what reaches `out' is doubled.
PayloadInOnePlace == \A v \in 1..fed : Cardinality(Places(v)) = 1

\* Worker w waits for an item although it has seen one: a rival took it.
Stuck(w) == pc[w] = "waiting" /\ in_phase[w] = "pending" /\ in_items = <<>>

\* The test in process_one does not keep a worker from blocking, but it keeps
\* all of them from it: whoever took the item is free to look again.  (A single
\* worker therefore never blocks.)
SomeWorkerFree == \E w \in WorkerThreads : ~Stuck(w)

\* A call of process_one returns, with or without a payload processed, unless a
\* rival leaves it waiting on an empty queue: whatever the other workers and the
\* feeder do or fail to do, nothing else can hold it up.
ProcessOneEnds ==
  \A w \in WorkerThreads : pc[w] # "idle" ~> pc[w] = "idle" \/ Stuck(w)
=============================================================================
