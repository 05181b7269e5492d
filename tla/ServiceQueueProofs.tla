------------------------- MODULE ServiceQueueProofs -------------------------
(***************************************************************************)
(* Proof that the messages of a service carry distinct numbers as long as  *)
(* the increments of seq_req do not overlap, and follow the order of       *)
(* delivery as long as the pop calls do not, for any threads and items.    *)
(***************************************************************************)
EXTENDS ServiceQueue, SequenceTheorems, TLAPS

\* While nothing raced, the counter is the number of messages numbered so far,
\* these are numbered 0, 1, 2, ... and at most one thread is inside seq_req++,
\* with the current value in its register.
Counting ==
  ~raced =>
    /\ seq_req = Len(issued)
    /\ \A i \in 1..Len(issued) : issued[i].sequence = i - 1
    /\ \A t \in Threads : pc[t] = "read" => reg[t] = seq_req
    /\ \A t, u \in Threads : pc[t] = "read" /\ pc[u] = "read" => t = u

Messages ==
  [type : {"REQUEST", "RESPONSE"}, status : {"VALID"}, sequence : Nat,
   payload_size : Nat, data : {<<>>}]

\* The part of the type the argument needs.
Shape ==
  /\ seq_req \in Nat
  /\ pc \in [Threads -> {"idle", "popped", "read"}]
  /\ reg \in [Threads -> Nat]
  /\ issued \in Seq(Messages)
  /\ type \in [Threads -> {"REQUEST", "RESPONSE"}]
  /\ data \in [Threads -> Nat]
  /\ Q_req \in Seq(Sizes) /\ Q_rsp \in Seq(Sizes)
  /\ raced \in BOOLEAN

CountingInv == Shape /\ Counting

\* What issuing one more message leaves of the history.
LEMMA AppendAt ==
  ASSUME NEW S, NEW s \in Seq(S), NEW e \in S
  PROVE  /\ Append(s, e) \in Seq(S)
         /\ Len(Append(s, e)) = Len(s) + 1
         /\ \A i \in 1..Len(s) : Append(s, e)[i] = s[i]
         /\ Append(s, e)[Len(s) + 1] = e
OBVIOUS

\* Before the first message the counter is zero.
LEMMA InitCounting == Init => CountingInv
<1> SUFFICES ASSUME Init PROVE CountingInv
  OBVIOUS
<1>1. <<>> \in Seq(Messages) /\ <<>> \in Seq(Sizes) /\ Len(<<>>) = 0
  BY EmptySeq
<1>2. Shape
  BY <1>1 DEF Init, Shape
<1>3. Counting
  BY <1>1 DEF Init, Counting
<1> QED BY <1>2, <1>3 DEF CountingInv

\* A queue without its front is a queue.
LEMMA RestIsSeq ==
  ASSUME NEW q \in Seq(Sizes)
  PROVE  Rest(q) \in Seq(Sizes)
  BY EmptySeq, HeadTailProperties DEF Rest

\* Popping an item changes nothing that Counting speaks of.
LEMMA PopCounting ==
  ASSUME CountingInv, NEW t \in Threads, NEW q \in Seq(Sizes),
         NEW typ \in {"REQUEST", "RESPONSE"}, PopFrom(t, typ, q),
         Q_req' \in Seq(Sizes), Q_rsp' \in Seq(Sizes)
  PROVE  CountingInv'
<1>1. q # <<>> => Head(q) \in Nat
  BY HeadTailProperties, SizesAssumption
<1>2. Shape'
  BY <1>1 DEF CountingInv, Shape, PopFrom
<1>3. UNCHANGED <<raced, seq_req, issued, reg>> /\ \A u \in Threads : pc'[u] = "read" => pc[u] = "read"
  BY DEF CountingInv, Shape, PopFrom
<1> QED BY <1>2, <1>3 DEF CountingInv, Counting

\* Every step keeps the counter and the history in step.
LEMMA NextCounting == CountingInv /\ [Next]_vars => CountingInv'
<1> SUFFICES ASSUME CountingInv, [Next]_vars PROVE CountingInv'
  OBVIOUS
<1>0. Shape /\ Counting
  BY DEF CountingInv
<1>1. ASSUME NEW N \in Sizes, push(N) PROVE CountingInv'
  <2>1. Append(Q_req, N) \in Seq(Sizes) /\ Append(Q_rsp, N) \in Seq(Sizes)
    BY <1>0, AppendAt DEF Shape
  <2> QED BY <1>0, <1>1, <2>1 DEF push, CountingInv, Shape, Counting
<1>2. ASSUME NEW t \in Threads, req_pop_msg(t) PROVE CountingInv'
  BY <1>0, <1>2, RestIsSeq, PopCounting DEF req_pop_msg, Shape
<1>3. ASSUME NEW t \in Threads, rsp_pop_msg(t) PROVE CountingInv'
  BY <1>0, <1>3, RestIsSeq, PopCounting DEF rsp_pop_msg, Shape
<1>4. ASSUME NEW t \in Threads, read_seq(t) PROVE CountingInv'
  <2>1. Shape'
    BY <1>0, <1>4 DEF read_seq, Shape
  <2>2. ASSUME ~raced' PROVE ~raced /\ \A u \in Threads : pc[u] # "read"
    BY <1>4, <2>2 DEF read_seq
  <2>3. Counting'
    BY <1>0, <1>4, <2>2 DEF read_seq, Counting, Shape
  <2> QED BY <2>1, <2>3 DEF CountingInv
<1>5. ASSUME NEW t \in Threads, write_seq(t) PROVE CountingInv'
  <2> DEFINE m == SrvMsg(type[t], "VALID", reg[t], data[t])
  <2>1. m \in Messages /\ m.sequence = reg[t]
    BY <1>0 DEF SrvMsg, Messages, Shape, DoubleSize
  <2>2. issued' = Append(issued, m) /\ Len(issued) \in Nat
    BY <1>0, <1>5, LenProperties DEF write_seq, Shape
  <2> HIDE DEF m
  <2>3. /\ issued' \in Seq(Messages)
        /\ Len(issued') = Len(issued) + 1
        /\ \A i \in 1..Len(issued) : issued'[i] = issued[i]
        /\ issued'[Len(issued) + 1] = m
    BY <1>0, <2>1, <2>2, AppendAt DEF Shape
  <2>4. Shape'
    BY <1>0, <1>5, <2>3 DEF write_seq, Shape
  <2>5. ASSUME ~raced' PROVE
          /\ seq_req' = Len(issued')
          /\ \A i \in 1..Len(issued') : issued'[i].sequence = i - 1
          /\ \A u \in Threads : pc'[u] # "read"
    <3>1. ~raced /\ reg[t] = seq_req /\ seq_req = Len(issued)
      BY <1>0, <1>5, <2>5 DEF write_seq, Counting
    <3>2. \A i \in 1..Len(issued') : issued'[i].sequence = i - 1
      BY <1>0, <2>1, <2>2, <2>3, <3>1 DEF Counting
    <3>3. seq_req' = Len(issued')
      BY <1>5, <2>3, <3>1 DEF write_seq
    <3>4. \A u \in Threads : pc'[u] # "read"
      BY <1>0, <1>5, <3>1 DEF write_seq, Counting, Shape
    <3> QED BY <3>2, <3>3, <3>4
  <2> QED BY <2>4, <2>5 DEF CountingInv, Counting
<1>6. CASE destroy
  BY <1>0, <1>6, EmptySeq DEF destroy, CountingInv, Shape, Counting
<1>7. CASE UNCHANGED vars
  BY <1>0, <1>7 DEF vars, CountingInv, Shape, Counting
<1> QED
  BY <1>1, <1>2, <1>3, <1>4, <1>5, <1>6, <1>7 DEF Next

\* Requests and responses of a service never share a number while no two
\* increments of seq_req overlap, whatever else the threads interleave.
THEOREM NumbersAreUnique == Spec => []NumbersUnique
<1>1. CountingInv => NumbersUnique
  <2> SUFFICES ASSUME CountingInv, ~raced, NEW i \in DOMAIN issued, NEW j \in DOMAIN issued, i # j
               PROVE  issued[i].sequence # issued[j].sequence
    BY DEF NumbersUnique
  <2>1. DOMAIN issued = 1..Len(issued) /\ Len(issued) \in Nat
    BY LenProperties DEF CountingInv, Shape
  <2> QED BY <2>1 DEF CountingInv, Counting
<1> QED
  BY <1>1, InitCounting, NextCounting, PTL DEF Spec
-----------------------------------------------------------------------------

Pops == [by : Threads, type : {"REQUEST", "RESPONSE"}]

\* While no two pop calls overlapped, at most one thread is in one, seq_req was
\* never raced for, and the messages issued are the items popped, in order and
\* of the same kind; the one item that may be ahead is that thread's.
InOrder ==
  ~overlapped =>
    /\ ~raced
    /\ \A t, u \in Threads : pc[t] # "idle" /\ pc[u] # "idle" => t = u
    /\ \A i \in 1..Len(issued) : issued[i].type = popped[i].type
    /\ Len(issued) <= Len(popped)
    /\ (\A t \in Threads : pc[t] = "idle") => Len(popped) = Len(issued)
    /\ \A t \in Threads : pc[t] # "idle" =>
         /\ Len(popped) = Len(issued) + 1
         /\ popped[Len(popped)].type = type[t]

OrderInv == CountingInv /\ popped \in Seq(Pops) /\ InOrder

\* Before the first call both histories are empty.
LEMMA InitOrder == Init => OrderInv
<1> SUFFICES ASSUME Init PROVE OrderInv
  OBVIOUS
<1>1. popped \in Seq(Pops) /\ Len(popped) = 0 /\ Len(issued) = 0
  BY EmptySeq DEF Init
<1>2. InOrder
  BY <1>1 DEF Init, InOrder
<1> QED BY <1>1, <1>2, InitCounting DEF OrderInv

\* A pop call that starts alone finds every earlier item numbered; its own item
\* is the next.
LEMMA PopOrder ==
  ASSUME OrderInv, NEW t \in Threads, NEW q, NEW typ \in {"REQUEST", "RESPONSE"},
         PopFrom(t, typ, q)
  PROVE  popped' \in Seq(Pops) /\ InOrder'
<1>0. Shape /\ popped \in Seq(Pops) /\ InOrder
  BY DEF OrderInv, CountingInv
<1> DEFINE p == [by |-> t, type |-> typ]
<1>1. p \in Pops /\ p.type = typ
  BY DEF Pops
<1> HIDE DEF p
<1>2. /\ Append(popped, p) \in Seq(Pops)
      /\ Len(Append(popped, p)) = Len(popped) + 1
      /\ \A i \in 1..Len(popped) : Append(popped, p)[i] = popped[i]
      /\ Append(popped, p)[Len(popped) + 1] = p
  BY <1>0, <1>1, AppendAt
<1>3. /\ UNCHANGED <<raced, issued>>
      /\ type' = [type EXCEPT ![t] = typ]
      /\ \/ popped' = popped /\ pc' = pc
         \/ popped' = Append(popped, p) /\ pc' = [pc EXCEPT ![t] = "popped"]
  BY DEF PopFrom, p
<1>4. ASSUME ~overlapped' PROVE ~overlapped /\ \A u \in Threads : pc[u] = "idle"
  BY <1>4 DEF PopFrom
<1>5. Len(issued) \in Nat /\ Len(popped) \in Nat
  BY <1>0, LenProperties DEF Shape
<1>6. InOrder'
  <2> SUFFICES ASSUME ~overlapped' PROVE InOrder'
    BY DEF InOrder
  <2>1. CASE popped' = popped /\ pc' = pc
    BY <1>0, <1>3, <1>4, <2>1 DEF InOrder
  <2>2. CASE popped' = Append(popped, p) /\ pc' = [pc EXCEPT ![t] = "popped"]
    <3>1. Len(popped) = Len(issued) /\ ~raced' /\ Len(popped') = Len(popped) + 1
      BY <1>0, <1>2, <1>3, <1>4, <2>2 DEF InOrder
    <3>2. \A i \in 1..Len(issued) : issued'[i].type = popped'[i].type
      BY <1>0, <1>2, <1>3, <1>4, <2>2, <3>1 DEF InOrder
    <3>3. popped'[Len(popped')] = p /\ type'[t] = typ
      BY <1>0, <1>2, <1>3, <2>2, <3>1 DEF Shape
    <3>4. \A u \in Threads : pc'[u] # "idle" <=> u = t
      BY <1>0, <1>4, <2>2 DEF Shape
    <3> QED BY <1>1, <1>3, <1>5, <3>1, <3>2, <3>3, <3>4 DEF InOrder
  <2> QED BY <1>3, <2>1, <2>2
<1> QED BY <1>0, <1>2, <1>3, <1>6

\* The thread that writes seq_req issues the item that was ahead.
LEMMA WriteOrder ==
  ASSUME OrderInv, NEW t \in Threads, write_seq(t)
  PROVE  InOrder'
<1>0. Shape /\ popped \in Seq(Pops) /\ InOrder
  BY DEF OrderInv, CountingInv
<1> DEFINE m == SrvMsg(type[t], "VALID", reg[t], data[t])
<1>1. m \in Messages /\ m.type = type[t]
  BY <1>0 DEF SrvMsg, Messages, Shape, DoubleSize
<1>2. issued' = Append(issued, m) /\ Len(issued) \in Nat /\ Len(popped) \in Nat
  BY <1>0, LenProperties DEF write_seq, Shape
<1> HIDE DEF m
<1>3. /\ Len(issued') = Len(issued) + 1
      /\ \A i \in 1..Len(issued) : issued'[i] = issued[i]
      /\ issued'[Len(issued) + 1] = m
  BY <1>0, <1>1, <1>2, AppendAt DEF Shape
<1> SUFFICES ASSUME ~overlapped' PROVE InOrder'
  BY DEF InOrder
<1>4. ~overlapped /\ pc[t] = "read" /\ UNCHANGED <<popped, raced, type>>
  BY DEF write_seq
<1>5. Len(popped) = Len(issued) + 1 /\ popped[Len(popped)].type = type[t] /\ ~raced'
  BY <1>0, <1>4 DEF InOrder
<1>6. \A u \in Threads : pc'[u] = "idle"
  BY <1>0, <1>4 DEF write_seq, InOrder, Shape
<1>7. \A i \in 1..Len(issued') : issued'[i].type = popped'[i].type
  BY <1>0, <1>1, <1>2, <1>3, <1>4, <1>5 DEF InOrder
<1> QED BY <1>2, <1>3, <1>4, <1>5, <1>6, <1>7 DEF InOrder

\* Every step keeps the two histories in order.
LEMMA NextOrder == OrderInv /\ [Next]_vars => OrderInv'
<1> SUFFICES ASSUME OrderInv, [Next]_vars PROVE popped' \in Seq(Pops) /\ InOrder'
  BY NextCounting DEF OrderInv
<1>0. Shape /\ popped \in Seq(Pops) /\ InOrder
  BY DEF OrderInv, CountingInv
<1>1. CASE UNCHANGED vars \/ destroy \/ \E N \in Sizes : push(N)
  BY <1>0, <1>1 DEF vars, destroy, push, InOrder
<1>2. ASSUME NEW t \in Threads, req_pop_msg(t) \/ rsp_pop_msg(t)
      PROVE  popped' \in Seq(Pops) /\ InOrder'
  BY <1>2, PopOrder DEF req_pop_msg, rsp_pop_msg
<1>3. ASSUME NEW t \in Threads, read_seq(t) PROVE popped' \in Seq(Pops) /\ InOrder'
  BY <1>0, <1>3 DEF read_seq, InOrder, Shape
<1>4. ASSUME NEW t \in Threads, write_seq(t) PROVE popped' \in Seq(Pops) /\ InOrder'
  BY <1>0, <1>4, WriteOrder DEF write_seq
<1> QED BY <1>1, <1>2, <1>3, <1>4 DEF Next

\* With one pop call at a time the numbers follow the order in which the items
\* left the two queues, without a gap, for any number of calling threads.
THEOREM NumbersFollowDelivery == Spec => []NumberedInOrder
<1>1. OrderInv => NumberedInOrder
  <2> SUFFICES ASSUME OrderInv, ~overlapped, NEW i \in DOMAIN issued
               PROVE  issued[i].sequence = i - 1 /\ issued[i].type = popped[i].type
    BY DEF NumberedInOrder
  <2>1. i \in 1..Len(issued)
    BY LenProperties DEF OrderInv, CountingInv, Shape
  <2> QED BY <2>1 DEF OrderInv, InOrder, CountingInv, Counting
<1> QED BY <1>1, InitOrder, NextOrder, PTL DEF Spec
=============================================================================
