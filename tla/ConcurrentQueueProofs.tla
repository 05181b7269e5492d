----------------------- MODULE ConcurrentQueueProofs -----------------------
(***************************************************************************)
(* Proofs about concurrent_queue for any finite set of threads, any set of *)
(* values and any number of calls.                                         *)
(***************************************************************************)
EXTENDS ConcurrentQueue, FiniteSetTheorems, SequenceTheorems, TLAPS

\* What the location of a thread says about the call it is in: only
\* wait_and_pop sleeps, only the two pops reach front() and pop(), only push
\* notifies, push still has its argument, and a pop has received nothing
\* before front().
CallShape ==
  \A t \in Threads :
    /\ fn[t] = "push" => val[t] \in Values
    /\ pc[t] \in {"sleep", "relock"} => fn[t] = "wait_and_pop"
    /\ pc[t] \in {"front", "pop"} => fn[t] \in {"try_pop", "wait_and_pop"}
    /\ pc[t] = "notify" => fn[t] = "push"
    /\ fn[t] # "push" /\ pc[t] \in {"lock", "body", "front", "sleep", "relock"}
         => val[t] = NoValue

\* The inductive invariant of the queue's data: the type and the shape of calls
\* keep each other, mutual exclusion keeps what a pop has read.
DataInv == TypeOK /\ CallShape /\ MutualExclusion /\ PopsWhatItRead

-----------------------------------------------------------------------------

\* What push leaves of a queue: one item more, the same front.
LEMMA AppendFacts ==
  ASSUME NEW S, NEW s \in Seq(S), NEW e \in S
  PROVE  /\ Append(s, e) \in Seq(S)
         /\ Len(Append(s, e)) = Len(s) + 1
         /\ s # <<>> => Append(s, e) # <<>> /\ Head(Append(s, e)) = Head(s)
OBVIOUS

\* The fresh queue, with no thread in a call, satisfies the invariant.
LEMMA InitDataInv == Init => DataInv
  BY ThreadsAssumption, BoundsAssumption
  DEF Init, DataInv, TypeOK, CallShape, MutualExclusion, PopsWhatItRead, Critical, Locations

\* Every step of every thread preserves the type.
LEMMA NextTypeOK ==
  ASSUME DataInv, [Next]_vars
  PROVE  TypeOK'
<1> USE DEF TypeOK, Locations
<1>0. TypeOK /\ CallShape /\ MutualExclusion /\ PopsWhatItRead
  BY DEF DataInv
<1>1. ASSUME NEW t \in Threads, NEW v \in Values, Call(t, "push", v) PROVE TypeOK'
  BY <1>0, <1>1 DEF Call, Enter
<1>2. ASSUME NEW t \in Threads, NEW f \in {"empty", "try_pop", "wait_and_pop"}, Call(t, f, NoValue)
      PROVE TypeOK'
  BY <1>0, <1>2 DEF Call, Enter
<1>3. ASSUME NEW t \in Threads, clear(t) PROVE TypeOK'
  BY <1>0, <1>3 DEF clear
<1>4. ASSUME NEW t \in Threads, spurious_wakeup(t) PROVE TypeOK'
  BY <1>0, <1>4 DEF spurious_wakeup, Move
<1>5. ASSUME NEW t \in Threads, clear_iterate(t) PROVE TypeOK'
  BY <1>0, <1>5 DEF clear_iterate, Enter
<1>6. ASSUME NEW t \in Threads, scoped_lock(t) PROVE TypeOK'
  BY <1>0, <1>6 DEF scoped_lock, Move
<1>7. ASSUME NEW t \in Threads, push(t) PROVE TypeOK'
  <2>1. queue' \in Seq(Values)
    BY <1>0, <1>7, AppendFacts DEF push, CallShape
  <2> QED BY <1>0, <1>7, <2>1 DEF push, Move
<1>8. ASSUME NEW t \in Threads, empty(t) PROVE TypeOK'
  <2>1. ret' \in [Threads -> BOOLEAN]
    BY <1>0, <1>8, Zenon DEF empty
  <2> QED BY <1>0, <1>8, <2>1 DEF empty, Move
<1>9. ASSUME NEW t \in Threads, try_pop(t) PROVE TypeOK'
  BY <1>0, <1>9 DEF try_pop, Move
<1>10. ASSUME NEW t \in Threads, wait_and_pop(t) PROVE TypeOK'
  BY <1>0, <1>10 DEF wait_and_pop, Move
<1>11. ASSUME NEW t \in Threads, copy_front(t) PROVE TypeOK'
  <2>1. Head(queue) \in Values
    BY <1>0, <1>11, HeadTailProperties DEF copy_front, Move, PopsWhatItRead
  <2> QED BY <1>0, <1>11, <2>1 DEF copy_front, Move
<1>12. ASSUME NEW t \in Threads, pop(t) PROVE TypeOK'
  <2>1. Tail(queue) \in Seq(Values)
    BY <1>0, <1>12, HeadTailProperties DEF pop, Move, PopsWhatItRead
  <2> QED BY <1>0, <1>12, <2>1 DEF pop, Move
<1>13. ASSUME NEW t \in Threads, unlock(t) PROVE TypeOK'
  <2>1. NextInClear(t) \in {"none", "test", "pop"}
    BY DEF NextInClear
  <2> QED BY <1>0, <1>13, <2>1 DEF unlock, Move
<1>14. ASSUME NEW t \in Threads, notify_one(t) PROVE TypeOK'
  BY <1>0, <1>14 DEF notify_one, cond_var
<1>15. ASSUME NEW t \in Threads, relock(t) PROVE TypeOK'
  BY <1>0, <1>15 DEF relock, Move
<1>16. CASE UNCHANGED vars
  BY <1>0, <1>16 DEF vars
<1> QED
  BY <1>1, <1>2, <1>3, <1>4, <1>5, <1>6, <1>7, <1>8, <1>9, <1>10, <1>11,
     <1>12, <1>13, <1>14, <1>15, <1>16 DEF Next, Step

\* Every step preserves the shape of the calls.
LEMMA NextCallShape ==
  ASSUME DataInv, [Next]_vars
  PROVE  CallShape'
<1> USE DEF CallShape
<1>0. TypeOK /\ CallShape /\ MutualExclusion /\ PopsWhatItRead
  BY DEF DataInv
<1>1. ASSUME NEW t \in Threads, NEW v \in Values, Call(t, "push", v) PROVE CallShape'
  BY <1>0, <1>1 DEF TypeOK, Call, Enter
<1>2. ASSUME NEW t \in Threads, NEW f \in {"empty", "try_pop", "wait_and_pop"}, Call(t, f, NoValue)
      PROVE CallShape'
  BY <1>0, <1>2 DEF TypeOK, Call, Enter
<1>3. ASSUME NEW t \in Threads, clear(t) PROVE CallShape'
  BY <1>0, <1>3 DEF TypeOK, clear
<1>4. ASSUME NEW t \in Threads, spurious_wakeup(t) PROVE CallShape'
  BY <1>0, <1>4 DEF TypeOK, spurious_wakeup, Move
<1>5. ASSUME NEW t \in Threads, clear_iterate(t) PROVE CallShape'
  BY <1>0, <1>5 DEF TypeOK, clear_iterate, Enter
<1>6. ASSUME NEW t \in Threads, scoped_lock(t) PROVE CallShape'
  BY <1>0, <1>6 DEF TypeOK, scoped_lock, Move
<1>7. ASSUME NEW t \in Threads, push(t) PROVE CallShape'
  BY <1>0, <1>7 DEF TypeOK, push, Move
<1>8. ASSUME NEW t \in Threads, empty(t) PROVE CallShape'
  BY <1>0, <1>8 DEF TypeOK, empty, Move
<1>9. ASSUME NEW t \in Threads, try_pop(t) PROVE CallShape'
  BY <1>0, <1>9 DEF TypeOK, try_pop, Move
<1>10. ASSUME NEW t \in Threads, wait_and_pop(t) PROVE CallShape'
  BY <1>0, <1>10 DEF TypeOK, wait_and_pop, Move
<1>11. ASSUME NEW t \in Threads, copy_front(t) PROVE CallShape'
  BY <1>0, <1>11 DEF TypeOK, copy_front, Move
<1>12. ASSUME NEW t \in Threads, pop(t) PROVE CallShape'
  BY <1>0, <1>12 DEF TypeOK, pop, Move
<1>13. ASSUME NEW t \in Threads, unlock(t) PROVE CallShape'
  BY <1>0, <1>13 DEF TypeOK, unlock, Move
<1>14. ASSUME NEW t \in Threads, notify_one(t) PROVE CallShape'
  BY <1>0, <1>14 DEF TypeOK, notify_one, cond_var
<1>15. ASSUME NEW t \in Threads, relock(t) PROVE CallShape'
  BY <1>0, <1>15 DEF TypeOK, relock, Move
<1>16. CASE UNCHANGED vars
  BY <1>0, <1>16 DEF vars
<1> QED
  BY <1>1, <1>2, <1>3, <1>4, <1>5, <1>6, <1>7, <1>8, <1>9, <1>10, <1>11,
     <1>12, <1>13, <1>14, <1>15, <1>16 DEF Next, Step

\* Every step preserves mutual exclusion.
LEMMA NextMutualExclusion ==
  ASSUME DataInv, [Next]_vars
  PROVE  MutualExclusion'
<1> USE DEF MutualExclusion, Critical
<1>0. TypeOK /\ CallShape /\ MutualExclusion /\ PopsWhatItRead
  BY DEF DataInv
<1>1. ASSUME NEW t \in Threads, NEW v \in Values, Call(t, "push", v) PROVE MutualExclusion'
  BY <1>0, <1>1 DEF TypeOK, Call, Enter
<1>2. ASSUME NEW t \in Threads, NEW f \in {"empty", "try_pop", "wait_and_pop"}, Call(t, f, NoValue)
      PROVE MutualExclusion'
  BY <1>0, <1>2 DEF TypeOK, Call, Enter
<1>3. ASSUME NEW t \in Threads, clear(t) PROVE MutualExclusion'
  BY <1>0, <1>3 DEF TypeOK, clear
<1>4. ASSUME NEW t \in Threads, spurious_wakeup(t) PROVE MutualExclusion'
  BY <1>0, <1>4 DEF TypeOK, spurious_wakeup, Move
<1>5. ASSUME NEW t \in Threads, clear_iterate(t) PROVE MutualExclusion'
  BY <1>0, <1>5 DEF TypeOK, clear_iterate, Enter
<1>6. ASSUME NEW t \in Threads, scoped_lock(t) PROVE MutualExclusion'
  BY <1>0, <1>6, ThreadsAssumption DEF TypeOK, scoped_lock, Move
<1>7. ASSUME NEW t \in Threads, push(t) PROVE MutualExclusion'
  BY <1>0, <1>7 DEF TypeOK, push, Move
<1>8. ASSUME NEW t \in Threads, empty(t) PROVE MutualExclusion'
  BY <1>0, <1>8 DEF TypeOK, empty, Move
<1>9. ASSUME NEW t \in Threads, try_pop(t) PROVE MutualExclusion'
  BY <1>0, <1>9 DEF TypeOK, try_pop, Move
<1>10. ASSUME NEW t \in Threads, wait_and_pop(t) PROVE MutualExclusion'
  BY <1>0, <1>10, ThreadsAssumption DEF TypeOK, wait_and_pop, Move
<1>11. ASSUME NEW t \in Threads, copy_front(t) PROVE MutualExclusion'
  BY <1>0, <1>11 DEF TypeOK, copy_front, Move
<1>12. ASSUME NEW t \in Threads, pop(t) PROVE MutualExclusion'
  BY <1>0, <1>12 DEF TypeOK, pop, Move
<1>13. ASSUME NEW t \in Threads, unlock(t) PROVE MutualExclusion'
  BY <1>0, <1>13, ThreadsAssumption DEF TypeOK, unlock, Move
<1>14. ASSUME NEW t \in Threads, notify_one(t) PROVE MutualExclusion'
  BY <1>0, <1>14 DEF TypeOK, notify_one, cond_var
<1>15. ASSUME NEW t \in Threads, relock(t) PROVE MutualExclusion'
  BY <1>0, <1>15, ThreadsAssumption DEF TypeOK, relock, Move
<1>16. CASE UNCHANGED vars
  BY <1>0, <1>16 DEF vars
<1> QED
  BY <1>1, <1>2, <1>3, <1>4, <1>5, <1>6, <1>7, <1>8, <1>9, <1>10, <1>11,
     <1>12, <1>13, <1>14, <1>15, <1>16 DEF Next, Step

\* Only the owner of the mutex changes _queue, so what it read stays in front.
LEMMA NextPopsWhatItRead ==
  ASSUME DataInv, [Next]_vars
  PROVE  PopsWhatItRead'
<1> USE DEF PopsWhatItRead
<1>0. TypeOK /\ CallShape /\ MutualExclusion /\ PopsWhatItRead
  BY DEF DataInv
<1>1. ASSUME NEW t \in Threads, NEW v \in Values, Call(t, "push", v) PROVE PopsWhatItRead'
  BY <1>0, <1>1 DEF TypeOK, Call, Enter
<1>2. ASSUME NEW t \in Threads, NEW f \in {"empty", "try_pop", "wait_and_pop"}, Call(t, f, NoValue)
      PROVE PopsWhatItRead'
  BY <1>0, <1>2 DEF TypeOK, Call, Enter
<1>3. ASSUME NEW t \in Threads, clear(t) PROVE PopsWhatItRead'
  BY <1>0, <1>3 DEF TypeOK, clear
<1>4. ASSUME NEW t \in Threads, spurious_wakeup(t) PROVE PopsWhatItRead'
  BY <1>0, <1>4 DEF TypeOK, spurious_wakeup, Move
<1>5. ASSUME NEW t \in Threads, clear_iterate(t) PROVE PopsWhatItRead'
  BY <1>0, <1>5 DEF TypeOK, clear_iterate, Enter
<1>6. ASSUME NEW t \in Threads, scoped_lock(t) PROVE PopsWhatItRead'
  BY <1>0, <1>6 DEF TypeOK, scoped_lock, Move
<1>7. ASSUME NEW t \in Threads, push(t) PROVE PopsWhatItRead'
  <2>1. /\ queue # <<>> => queue' # <<>> /\ Head(queue') = Head(queue)
        /\ queue' # <<>>
    BY <1>0, <1>7, AppendFacts DEF TypeOK, CallShape, push
  <2> QED BY <1>0, <1>7, <2>1 DEF TypeOK, push, Move
<1>8. ASSUME NEW t \in Threads, empty(t) PROVE PopsWhatItRead'
  BY <1>0, <1>8 DEF TypeOK, empty, Move
<1>9. ASSUME NEW t \in Threads, try_pop(t) PROVE PopsWhatItRead'
  BY <1>0, <1>9 DEF TypeOK, try_pop, Move
<1>10. ASSUME NEW t \in Threads, wait_and_pop(t) PROVE PopsWhatItRead'
  BY <1>0, <1>10 DEF TypeOK, wait_and_pop, Move
<1>11. ASSUME NEW t \in Threads, copy_front(t) PROVE PopsWhatItRead'
  BY <1>0, <1>11 DEF TypeOK, copy_front, Move
<1>12. ASSUME NEW t \in Threads, pop(t) PROVE PopsWhatItRead'
  <2>1. \A s \in Threads : pc'[s] \notin {"front", "pop"}
    BY <1>0, <1>12 DEF TypeOK, MutualExclusion, Critical, pop, Move
  <2> QED BY <2>1
<1>13. ASSUME NEW t \in Threads, unlock(t) PROVE PopsWhatItRead'
  BY <1>0, <1>13 DEF TypeOK, unlock, Move
<1>14. ASSUME NEW t \in Threads, notify_one(t) PROVE PopsWhatItRead'
  BY <1>0, <1>14 DEF TypeOK, notify_one, cond_var
<1>15. ASSUME NEW t \in Threads, relock(t) PROVE PopsWhatItRead'
  BY <1>0, <1>15 DEF TypeOK, relock, Move
<1>16. CASE UNCHANGED vars
  BY <1>0, <1>16 DEF vars
<1> QED
  BY <1>1, <1>2, <1>3, <1>4, <1>5, <1>6, <1>7, <1>8, <1>9, <1>10, <1>11,
     <1>12, <1>13, <1>14, <1>15, <1>16 DEF Next, Step

-----------------------------------------------------------------------------

\* DataInv is an inductive invariant.
LEMMA DataInvariant == Spec => []DataInv
<1>1. DataInv /\ [Next]_vars => DataInv'
  BY NextTypeOK, NextCallShape, NextMutualExclusion, NextPopsWhatItRead DEF DataInv
<1> QED
  BY InitDataInv, <1>1, PTL DEF Spec

\* The type invariant holds in every reachable state; in particular what is in
\* the queue was the argument of some push.
THEOREM TypeCorrect == Spec => []TypeOK
  BY DataInvariant, PTL DEF DataInv

\* No two threads are ever inside the accesses to _queue, and a thread outside
\* them does not keep _mutex.
THEOREM QueueMutuallyExclusive == Spec => []MutualExclusion
  BY DataInvariant, PTL DEF DataInv

\* try_pop and wait_and_pop never call front() or pop() on an empty std::queue
\* and hand out exactly the item they remove.
THEOREM PopsSafe == Spec => []PopsWhatItRead
  BY DataInvariant, PTL DEF DataInv

-----------------------------------------------------------------------------
(* No lost wake-up.                                                        *)

\* The threads on their way to the queue can be counted.
LEMMA AwakeFinite ==
  /\ IsFiniteSet(Awake)
  /\ Cardinality(Awake) \in Nat
  BY ThreadsAssumption, FS_Subset, FS_CardinalityType DEF Awake

\* A step that removes no thread from Awake and adds no item to the queue keeps
\* the bound.
LEMMA AwakeGrows ==
  ASSUME DataInv, DataInv', NoLostWakeup, Awake \subseteq Awake',
         Len(queue') <= Len(queue), cond_var # {}
  PROVE  NoLostWakeup'
<1>1. IsFiniteSet(Awake') /\ Cardinality(Awake') \in Nat
  BY AwakeFinite, ThreadsAssumption, FS_Subset, FS_CardinalityType DEF Awake
<1>2. Cardinality(Awake) <= Cardinality(Awake')
  BY <1>1, FS_Subset
<1>3. Len(queue) \in Nat /\ Len(queue') \in Nat
  BY LenProperties DEF DataInv, TypeOK
<1> QED
  BY <1>1, <1>2, <1>3, AwakeFinite DEF NoLostWakeup

\* Every step preserves NoLostWakeup, given the data invariant.
LEMMA NextNoLostWakeup ==
  ASSUME DataInv, DataInv', NoLostWakeup, [Next]_vars
  PROVE  NoLostWakeup'
<1>0. /\ TypeOK /\ CallShape /\ PopsWhatItRead
      /\ TypeOK'
      /\ Len(queue) \in Nat /\ Len(queue') \in Nat
  BY LenProperties DEF DataInv, TypeOK
<1>a. IsFiniteSet(Awake') /\ Cardinality(Awake') \in Nat
  BY AwakeFinite, ThreadsAssumption, FS_Subset, FS_CardinalityType DEF Awake
<1>b. SUFFICES ASSUME cond_var' # {} PROVE NoLostWakeup'
  BY DEF NoLostWakeup
\* The step neither adds an item nor puts a thread to sleep or out of Awake.
<1>c. ASSUME queue' = queue, Awake \subseteq Awake', cond_var' \subseteq cond_var
      PROVE  NoLostWakeup'
  BY <1>0, <1>b, <1>c, AwakeGrows
<1>1. ASSUME NEW t \in Threads, NEW v \in Values, Call(t, "push", v) PROVE NoLostWakeup'
  BY <1>0, <1>c, <1>1 DEF TypeOK, CallShape, Awake, cond_var, Call, Enter
<1>2. ASSUME NEW t \in Threads, NEW f \in {"empty", "try_pop", "wait_and_pop"}, Call(t, f, NoValue)
      PROVE NoLostWakeup'
  BY <1>0, <1>c, <1>2 DEF TypeOK, CallShape, Awake, cond_var, Call, Enter
<1>3. ASSUME NEW t \in Threads, clear(t) PROVE NoLostWakeup'
  BY <1>0, <1>c, <1>3 DEF TypeOK, CallShape, Awake, cond_var, clear
<1>4. ASSUME NEW t \in Threads, spurious_wakeup(t) PROVE NoLostWakeup'
  BY <1>0, <1>c, <1>4 DEF TypeOK, CallShape, Awake, cond_var, spurious_wakeup, Move
<1>5. ASSUME NEW t \in Threads, clear_iterate(t) PROVE NoLostWakeup'
  BY <1>0, <1>c, <1>5 DEF TypeOK, CallShape, Awake, cond_var, clear_iterate, Enter
<1>6. ASSUME NEW t \in Threads, scoped_lock(t) PROVE NoLostWakeup'
  BY <1>0, <1>c, <1>6 DEF TypeOK, CallShape, Awake, cond_var, scoped_lock, Move
<1>7. ASSUME NEW t \in Threads, push(t) PROVE NoLostWakeup'
  <2>1. Awake' = Awake \cup {t} /\ t \notin Awake /\ cond_var' = cond_var
    BY <1>0, <1>7 DEF TypeOK, Awake, cond_var, push, Move
  <2>2. Len(queue') = Len(queue) + 1
    BY <1>0, <1>7, AppendFacts DEF TypeOK, CallShape, push
  <2>3. Cardinality(Awake') = Cardinality(Awake) + 1
    BY <2>1, AwakeFinite, FS_AddElement
  <2> QED BY <1>0, <1>b, <2>1, <2>2, <2>3, AwakeFinite DEF NoLostWakeup
<1>8. ASSUME NEW t \in Threads, empty(t) PROVE NoLostWakeup'
  BY <1>0, <1>c, <1>8 DEF TypeOK, CallShape, Awake, cond_var, empty, Move
<1>9. ASSUME NEW t \in Threads, try_pop(t) PROVE NoLostWakeup'
  BY <1>0, <1>c, <1>9 DEF TypeOK, CallShape, Awake, cond_var, try_pop, Move
<1>10. ASSUME NEW t \in Threads, wait_and_pop(t) PROVE NoLostWakeup'
  <2>1. CASE queue = <<>>
    BY <1>0, <1>a, <1>10, <2>1, EmptySeq DEF wait_and_pop, NoLostWakeup
  <2>2. CASE queue # <<>>
    BY <1>0, <1>c, <1>10, <2>2 DEF TypeOK, Awake, cond_var, wait_and_pop, Move
  <2> QED BY <2>1, <2>2
<1>11. ASSUME NEW t \in Threads, copy_front(t) PROVE NoLostWakeup'
  BY <1>0, <1>c, <1>11 DEF TypeOK, CallShape, Awake, cond_var, copy_front, Move
<1>12. ASSUME NEW t \in Threads, pop(t) PROVE NoLostWakeup'
  <2>1. Len(queue') = Len(queue) - 1
    BY <1>0, <1>12, HeadTailProperties DEF TypeOK, PopsWhatItRead, pop, Move
  <2>2. cond_var' = cond_var /\ Awake' = Awake \ {t}
    BY <1>0, <1>12 DEF TypeOK, CallShape, Awake, cond_var, pop, Move
  <2>3. Cardinality(Awake') >= Cardinality(Awake) - 1
    BY <2>2, AwakeFinite, FS_RemoveElement
  <2> QED BY <1>0, <1>a, <1>b, <2>1, <2>2, <2>3, AwakeFinite DEF NoLostWakeup
<1>13. ASSUME NEW t \in Threads, unlock(t) PROVE NoLostWakeup'
  BY <1>0, <1>c, <1>13 DEF TypeOK, CallShape, Awake, cond_var, unlock, Move
<1>14. ASSUME NEW t \in Threads, notify_one(t) PROVE NoLostWakeup'
  <2>1. CASE cond_var = {}
    BY <1>0, <1>b, <1>14, <2>1 DEF TypeOK, cond_var, notify_one
  <2>2. ASSUME NEW w \in cond_var, pc' = [pc EXCEPT ![t] = "idle", ![w] = "relock"]
        PROVE  NoLostWakeup'
    <3>1. w \in Threads /\ w # t /\ t \in Awake /\ w \notin Awake
      BY <1>0, <1>14, <2>2 DEF CallShape, Awake, cond_var, notify_one
    <3>2. Awake' = (Awake \ {t}) \cup {w}
      BY <1>0, <1>14, <2>2, <3>1 DEF TypeOK, CallShape, Awake, cond_var, notify_one
    <3>3. Cardinality(Awake') = Cardinality(Awake)
      <4> DEFINE Others == Awake \ {t}
      <4>1. IsFiniteSet(Others) /\ Cardinality(Others) = Cardinality(Awake) - 1
        BY <3>1, AwakeFinite, FS_RemoveElement
      <4>2. Cardinality(Others \cup {w}) = Cardinality(Others) + 1
        BY <3>1, <4>1, FS_AddElement
      <4> QED BY <3>2, <4>1, <4>2, AwakeFinite
    <3> QED BY <1>14, <2>2, <3>3 DEF NoLostWakeup, notify_one
  <2> QED BY <1>14, <2>1, <2>2 DEF notify_one
<1>15. ASSUME NEW t \in Threads, relock(t) PROVE NoLostWakeup'
  BY <1>0, <1>c, <1>15 DEF TypeOK, CallShape, Awake, cond_var, relock, Move
<1>16. CASE UNCHANGED vars
  BY <1>c, <1>16 DEF vars, Awake, cond_var
<1> QED
  BY <1>1, <1>2, <1>3, <1>4, <1>5, <1>6, <1>7, <1>8, <1>9, <1>10, <1>11,
     <1>12, <1>13, <1>14, <1>15, <1>16 DEF Next, Step

\* While a consumer sleeps in wait_and_pop, every item of the queue is matched
\* by a thread that will notify or will take it: push's notify_one after the
\* unlock loses no wake-up, whatever the number of producers and consumers.
THEOREM WakeupsKept == Spec => []NoLostWakeup
<1>1. Init => NoLostWakeup
  BY AwakeFinite, EmptySeq DEF Init, NoLostWakeup, cond_var
<1>2. DataInv /\ DataInv' /\ NoLostWakeup /\ [Next]_vars => NoLostWakeup'
  BY NextNoLostWakeup
<1> QED
  BY <1>1, <1>2, DataInvariant, PTL DEF Spec

-----------------------------------------------------------------------------
(* Refinement: each step of the code is a step of the abstract queue or    *)
(* leaves its state alone.                                                 *)

\* The fresh queue is the empty abstract queue.
LEMMA InitRefines == Init => Abstract!Init
  BY DEF Init, Abstract!Init, Phase, Transferred

\* Calls are Invoke steps; push, empty, the pop and the try_pop that finds
\* nothing are the effects; leaving a member function is Return.  Every other
\* step moves a thread within a phase and is a stutter.
LEMMA StepRefines ==
  ASSUME DataInv, DataInv', [Next]_vars
  PROVE  [Abstract!Next]_(Abstract!vars)
<1> DEFINE Seen == UNCHANGED <<queue, Phase, fn, Transferred, ret>>
<1>0. TypeOK /\ CallShape /\ MutualExclusion /\ PopsWhatItRead
  BY DEF DataInv
<1>s. Seen => UNCHANGED Abstract!vars
  BY DEF Abstract!vars
<1>1. ASSUME NEW t \in Threads, NEW v \in Values, Call(t, "push", v) PROVE Abstract!Next
  <2>1. Abstract!Invoke(t, "push", v)
    BY <1>0, <1>1 DEF TypeOK, Call, Enter, Abstract!Invoke, Phase, Transferred
  <2> QED BY <2>1 DEF Abstract!Next
<1>2. ASSUME NEW t \in Threads, NEW f \in {"empty", "try_pop", "wait_and_pop"}, Enter(t, f, NoValue)
      PROVE Abstract!Next
  <2>1. Abstract!Invoke(t, f, NoValue)
    BY <1>0, <1>2 DEF TypeOK, Enter, Abstract!Invoke, Phase, Transferred
  <2> QED BY <2>1 DEF Abstract!Next, Abstract!Functions
<1>3. ASSUME NEW t \in Threads, clear(t) PROVE Seen
  BY <1>3 DEF clear, Phase, Transferred
<1>4. ASSUME NEW t \in Threads, spurious_wakeup(t) PROVE Seen
  BY <1>0, <1>4 DEF TypeOK, spurious_wakeup, Move, Phase, Transferred
<1>6. ASSUME NEW t \in Threads, scoped_lock(t) PROVE Seen
  BY <1>0, <1>6 DEF TypeOK, scoped_lock, Move, Phase, Transferred
<1>7. ASSUME NEW t \in Threads, push(t) PROVE Abstract!Next
  <2>1. Abstract!Push(t)
    BY <1>0, <1>7 DEF TypeOK, push, Move, Abstract!Push, Abstract!Effect, Phase, Transferred
  <2> QED BY <2>1 DEF Abstract!Next
<1>8. ASSUME NEW t \in Threads, empty(t) PROVE Abstract!Next
  <2>1. Abstract!Empty(t)
    BY <1>0, <1>8 DEF TypeOK, empty, Move, Abstract!Empty, Abstract!Effect, Phase, Transferred
  <2> QED BY <2>1 DEF Abstract!Next
<1>9. ASSUME NEW t \in Threads, try_pop(t) PROVE Abstract!Next \/ Seen
  <2>1. CASE queue = <<>>
    <3>1. Abstract!TryPop(t)
      BY <1>0, <1>9, <2>1
      DEF TypeOK, try_pop, Move, Abstract!TryPop, Abstract!Effect, Phase, Transferred
    <3> QED BY <3>1 DEF Abstract!Next
  <2>2. CASE queue # <<>>
    BY <1>0, <1>9, <2>2 DEF TypeOK, try_pop, Move, Phase, Transferred
  <2> QED BY <2>1, <2>2
<1>10. ASSUME NEW t \in Threads, wait_and_pop(t) PROVE Seen
  BY <1>0, <1>10 DEF TypeOK, wait_and_pop, Move, Phase, Transferred
<1>11. ASSUME NEW t \in Threads, copy_front(t) PROVE Seen
  BY <1>0, <1>11 DEF TypeOK, CallShape, copy_front, Move, Phase, Transferred
<1>12. ASSUME NEW t \in Threads, pop(t) PROVE Abstract!Next
  <2>1. fn[t] \in {"try_pop", "wait_and_pop"} /\ queue # <<>> /\ val[t] = Head(queue)
    BY <1>0, <1>12 DEF CallShape, PopsWhatItRead, pop, Move
  <2>2. Abstract!Take(t)
    BY <1>0, <1>12, <2>1 DEF TypeOK, pop, Move, Abstract!Take, Transferred
  <2>3. Abstract!Effect(t, fn[t])
    BY <1>0, <1>12 DEF TypeOK, pop, Move, Abstract!Effect, Phase
  <2> QED BY <2>1, <2>2, <2>3 DEF Abstract!Next, Abstract!TryPop, Abstract!WaitAndPop
<1>13. ASSUME NEW t \in Threads, unlock(t) PROVE Abstract!Next \/ Seen
  <2>1. CASE fn[t] = "push"
    BY <1>0, <1>13, <2>1 DEF TypeOK, unlock, Move, Phase, Transferred
  <2>2. CASE fn[t] # "push"
    <3>1. Abstract!Return(t)
      BY <1>0, <1>13, <2>2 DEF TypeOK, unlock, Move, Abstract!Return, Phase, Transferred
    <3> QED BY <3>1 DEF Abstract!Next
  <2> QED BY <2>1, <2>2
<1>14. ASSUME NEW t \in Threads, notify_one(t) PROVE Abstract!Next
  <2>1. Abstract!Return(t)
    BY <1>0, <1>14 DEF TypeOK, notify_one, cond_var, Abstract!Return, Phase, Transferred
  <2> QED BY <2>1 DEF Abstract!Next
<1>15. ASSUME NEW t \in Threads, relock(t) PROVE Seen
  BY <1>0, <1>15 DEF TypeOK, relock, Move, Phase, Transferred
<1>16. CASE UNCHANGED vars
  BY <1>s, <1>16 DEF vars, Phase, Transferred
<1> QED
  BY <1>s, <1>1, <1>2, <1>3, <1>4, <1>6, <1>7, <1>8, <1>9, <1>10, <1>11, <1>12,
     <1>13, <1>14, <1>15, <1>16 DEF Next, Step, Call, clear_iterate

\* concurrent_queue is linearizable: each call takes effect at one instant on
\* one first-in first-out list, for any number of threads.
THEOREM Linearizable == Spec => ImplementsFifo
<1>1. DataInv /\ DataInv' /\ [Next]_vars => [Abstract!Next]_(Abstract!vars)
  BY StepRefines
<1> QED
  BY <1>1, InitRefines, DataInvariant, PTL DEF Spec, ImplementsFifo, Abstract!Spec
=============================================================================
