---------------------------- MODULE ServiceQueue ----------------------------
(***************************************************************************)
(* ServiceQueue<T> of src/Connection.hpp: the request and the response     *)
(* queue of one service and the sequence numbers given to the messages     *)
(* popped from them.  Q_req and Q_rsp are concurrent_queues, whose calls   *)
(* are atomic (ConcurrentQueue refines FifoQueue).  seq_req++ is not: it   *)
(* is a read and a write of a plain size_t after try_pop has released the  *)
(* queue's mutex, and two threads that do it at once may lose an update.   *)
(* The code hands the popped item itself to SrvMsg where that expects the  *)
(* number of elements, a size_t: an item is modelled as the number it      *)
(* converts to, which is all that a message keeps of it.                   *)
(***************************************************************************)
EXTENDS Integers, Sequences

CONSTANTS Threads,     \* threads that pop messages
          Sizes,       \* items that are pushed, as numbers
          BAD_INDEX,   \* _BAD_INDEX, the largest size_t
          NoMsg,       \* no message popped yet
          MaxPushes    \* bound: items pushed on both queues together

ASSUME SizesAssumption  == Sizes \subseteq Nat
ASSUME BoundsAssumption == MaxPushes \in Nat

VARIABLES Q_req, Q_rsp, seq_req,
          alive,       \* between constructor and destructor
          pc,          \* pc[t]: "idle", "popped" (try_pop done), "read" (seq_req read)
          type,        \* type[t]: the kind of message t pops
          data,        \* data[t]: what try_pop stored
          reg,         \* reg[t]: the value of seq_req that t read
          msg,         \* msg[t]: the last message t returned
          pushes,      \* pushes still possible
          popped,      \* history: messages in the order of their try_pop
          issued,      \* history: VALID messages in the order they got a number
          raced,       \* history: a read of seq_req overlapped another's update
          overlapped   \* history: two pop calls overlapped

vars == <<Q_req, Q_rsp, seq_req, alive, pc, type, data, reg, msg, pushes,
          popped, issued, raced, overlapped>>

\* What size_t arithmetic multiplies a length by: sizeof(double).
DoubleSize == 8

SrvMsg(typ, stts, seq, N) ==
  [type |-> typ, status |-> stts, sequence |-> seq, payload_size |-> DoubleSize * N, data |-> <<>>]

Init ==
  /\ Q_req = <<>> /\ Q_rsp = <<>>
  /\ seq_req = 0
  /\ alive = TRUE
  /\ pc = [t \in Threads |-> "idle"]
  /\ type = [t \in Threads |-> "REQUEST"]
  /\ data = [t \in Threads |-> 0]
  /\ reg = [t \in Threads |-> 0]
  /\ msg = [t \in Threads |-> NoMsg]
  /\ pushes = MaxPushes
  /\ popped = <<>> /\ issued = <<>>
  /\ raced = FALSE /\ overlapped = FALSE

\* Users push on the public members Q_req and Q_rsp directly.
push(N) ==
  /\ alive /\ pushes > 0
  /\ pushes' = pushes - 1
  /\ \/ Q_req' = Append(Q_req, N) /\ UNCHANGED Q_rsp
     \/ Q_rsp' = Append(Q_rsp, N) /\ UNCHANGED Q_req
  /\ UNCHANGED <<seq_req, alive, pc, type, data, reg, msg, popped, issued, raced, overlapped>>

\* The call starts with try_pop; an empty queue makes an EMPTY message and
\* leaves the counter alone.
PopFrom(t, typ, queue) ==
  /\ alive /\ pc[t] = "idle"
  /\ type' = [type EXCEPT ![t] = typ]
  /\ overlapped' = (overlapped \/ \E u \in Threads : pc[u] # "idle")
  /\ \/ /\ queue = <<>>
        /\ msg' = [msg EXCEPT ![t] = SrvMsg(typ, "EMPTY", BAD_INDEX, 0)]
        /\ UNCHANGED <<pc, data, popped>>
     \/ /\ queue # <<>>
        /\ data' = [data EXCEPT ![t] = Head(queue)]
        /\ pc' = [pc EXCEPT ![t] = "popped"]
        /\ popped' = Append(popped, [by |-> t, type |-> typ])
        /\ UNCHANGED msg
  /\ UNCHANGED <<seq_req, alive, reg, pushes, issued, raced>>

Rest(queue) == IF queue = <<>> THEN <<>> ELSE Tail(queue)

req_pop_msg(t) ==
  /\ PopFrom(t, "REQUEST", Q_req)
  /\ Q_req' = Rest(Q_req)
  /\ UNCHANGED Q_rsp

rsp_pop_msg(t) ==
  /\ PopFrom(t, "RESPONSE", Q_rsp)
  /\ Q_rsp' = Rest(Q_rsp)
  /\ UNCHANGED Q_req

\* seq_req++ first reads the counter; both functions use seq_req.
read_seq(t) ==
  /\ pc[t] = "popped"
  /\ pc' = [pc EXCEPT ![t] = "read"]
  /\ reg' = [reg EXCEPT ![t] = seq_req]
  /\ raced' = (raced \/ \E u \in Threads : pc[u] = "read")
  /\ UNCHANGED <<Q_req, Q_rsp, seq_req, alive, type, data, msg, pushes, popped, issued, overlapped>>

\* Mutant: the message is numbered with the incremented counter (++seq_req).
write_seq_prefix(t) ==
  LET m == SrvMsg(type[t], "VALID", reg[t] + 1, data[t])
  IN  /\ pc[t] = "read"
      /\ pc' = [pc EXCEPT ![t] = "idle"]
      /\ seq_req' = reg[t] + 1
      /\ msg' = [msg EXCEPT ![t] = m]
      /\ issued' = Append(issued, m)
      /\ UNCHANGED <<Q_req, Q_rsp, alive, type, data, reg, pushes, popped, raced, overlapped>>

\* Mutant: the counter is not advanced by responses.
write_seq_requests(t) ==
  LET m == SrvMsg(type[t], "VALID", reg[t], data[t])
  IN  /\ pc[t] = "read"
      /\ pc' = [pc EXCEPT ![t] = "idle"]
      /\ seq_req' = IF type[t] = "REQUEST" THEN reg[t] + 1 ELSE reg[t]
      /\ msg' = [msg EXCEPT ![t] = m]
      /\ issued' = Append(issued, m)
      /\ UNCHANGED <<Q_req, Q_rsp, alive, type, data, reg, pushes, popped, raced, overlapped>>

\* ... then writes it back; the message carries the value before the increment
\* and a size made of the item, but not the item.
write_seq(t) ==
  LET m == SrvMsg(type[t], "VALID", reg[t], data[t])
  IN  /\ pc[t] = "read"
      /\ pc' = [pc EXCEPT ![t] = "idle"]
      /\ seq_req' = reg[t] + 1
      /\ msg' = [msg EXCEPT ![t] = m]
      /\ issued' = Append(issued, m)
      /\ UNCHANGED <<Q_req, Q_rsp, alive, type, data, reg, pushes, popped, raced, overlapped>>

\* ~ServiceQueue clears both queues; the last shared_ptr to it is gone, so no
\* thread is in a call.
destroy ==
  /\ alive /\ \A t \in Threads : pc[t] = "idle"
  /\ alive' = FALSE
  /\ Q_req' = <<>> /\ Q_rsp' = <<>>
  /\ UNCHANGED <<seq_req, pc, type, data, reg, msg, pushes, popped, issued, raced, overlapped>>

Next ==
  \/ \E N \in Sizes : push(N)
  \/ \E t \in Threads :
       \/ req_pop_msg(t)
       \/ rsp_pop_msg(t)
       \/ read_seq(t)
       \/ write_seq(t)
  \/ destroy

Spec == Init /\ [][Next]_vars

-----------------------------------------------------------------------------

\* As long as no two threads touch seq_req at once, no two messages of the
\* service carry the same number, requests and responses together, however the
\* calls to req_pop_msg and rsp_pop_msg interleave otherwise.
NumbersUnique ==
  ~raced => \A i, j \in DOMAIN issued :
              i # j => issued[i].sequence # issued[j].sequence

\* With one pop call at a time the k-th item to leave either queue is the
\* message numbered k: numbers follow the order of delivery, without a gap, and
\* an EMPTY message uses up none.
NumberedInOrder ==
  ~overlapped =>
    \A i \in DOMAIN issued :
      /\ issued[i].sequence = i - 1
      /\ issued[i].type = popped[i].type
=============================================================================
