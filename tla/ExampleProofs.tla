--------------------------- MODULE ExampleProofs ---------------------------
(***************************************************************************)
(* Proofs about two of the examples: everything produced is consumed by    *)
(* the lock-free queue's threads, for any two groups of threads and any    *)
(* number of items; reader and writer of the serialization example agree   *)
(* on the framing, for data of any length, headers of any length in any    *)
(* base, and any number of clients.                                        *)
(***************************************************************************)
EXTENDS LockfreeQueue, Serialization, FiniteSetTheorems, SequenceTheorems,
        WellFoundedInduction, TLAPS

(* The lock-free queue.                                                    *)

\* Types.  A producer that holds a number has a round to finish.
Typed ==
  /\ producer_count \in Nat /\ consumer_count \in Nat
  /\ queue \in Seq(Nat)
  /\ i \in [Producers -> 0..iterations]
  /\ value \in [Producers -> Nat]
  /\ \A p \in Producers : value[p] # 0 => i[p] # iterations
  /\ pc \in [Consumers -> {"test", "drain", "count", "last_drain", "last_count", "returned"}]

\* The rounds that have been finished, of all producers.
Pushed == {r \in Producers \X (1..iterations) : r[2] <= i[r[1]]}

\* Every number drawn was pushed or is held by a producer, and what was pushed
\* is in the queue, held by a consumer or counted.
Conserved ==
  /\ producer_count = Cardinality(Pushed) + Cardinality(Holding)
  /\ producer_count =
       consumer_count + Len(queue) + Cardinality(Holding) + Cardinality(Counting)

\* A consumer in its second drain has seen done, which main sets after the last
\* push; so the queue it leaves empty stays empty.
Ending ==
  /\ done <=> main # "join_producers"
  /\ done => \A p \in Producers : i[p] = iterations
  /\ \A c \in Consumers :
       /\ pc[c] \in {"last_drain", "last_count", "returned"} => done
       /\ pc[c] = "returned" => queue = <<>>
  /\ main = "reported" => \A c \in Consumers : pc[c] = "returned"

QueueInv == Typed /\ Conserved /\ Ending

\* A producer has `iterations' rounds.
LEMMA RoundsFinite == IsFiniteSet(1..iterations) /\ Cardinality(1..iterations) = iterations
<1>1. 1 \in Int /\ iterations \in Int /\ iterations >= 0
  BY IterationsAssumption
<1> QED BY <1>1, FS_Interval

\* The sets that are counted are finite.
LEMMA FiniteCounts ==
  /\ IsFiniteSet(Holding) /\ Cardinality(Holding) \in Nat
  /\ IsFiniteSet(Counting) /\ Cardinality(Counting) \in Nat
  /\ IsFiniteSet(Pushed) /\ Cardinality(Pushed) \in Nat
<1>1. IsFiniteSet(Producers \X (1..iterations))
  BY GroupsAssumption, RoundsFinite, FS_Product
<1>2. IsFiniteSet(Holding)
  BY GroupsAssumption, FS_Subset DEF Holding
<1>3. IsFiniteSet(Counting)
  BY GroupsAssumption, FS_Subset DEF Counting
<1>4. IsFiniteSet(Pushed)
  BY <1>1, FS_Subset DEF Pushed
<1> QED BY <1>2, <1>3, <1>4, FS_CardinalityType

\* Initially nothing has been produced.
LEMMA InitQueue == LQInit => QueueInv
<1> SUFFICES ASSUME LQInit PROVE QueueInv
  OBVIOUS
<1>1. Typed
  BY EmptySeq, IterationsAssumption DEF LQInit, Typed
<1>2. Ending
  BY DEF LQInit, Ending
<1>3. Holding = {} /\ Counting = {} /\ Pushed = {}
  BY DEF LQInit, Holding, Counting, Pushed
<1>4. Conserved
  BY <1>3, FS_EmptySet, EmptySeq DEF LQInit, Conserved
<1> QED BY <1>1, <1>2, <1>4 DEF QueueInv

\* ++producer_count: the number is p's.
LEMMA NumberKeeps ==
  ASSUME QueueInv, NEW p \in Producers, number(p)
  PROVE  QueueInv'
<1> USE DEF QueueInv, number
<1>1. Typed'
  BY DEF Typed
<1>2. Ending'
  BY DEF Ending
<1>3. Holding' = Holding \cup {p} /\ p \notin Holding
  BY DEF Holding, Typed
<1>4. Cardinality(Holding') = Cardinality(Holding) + 1
  BY <1>3, FS_AddElement, FiniteCounts
<1>5. UNCHANGED <<Counting, Pushed>>
  BY DEF Counting, Pushed
<1>6. Conserved'
  BY <1>4, <1>5, FiniteCounts, LenProperties DEF Conserved, Typed
<1> QED BY <1>1, <1>2, <1>6

\* The push finishes a round of p; none comes after done.
LEMMA PushKeeps ==
  ASSUME QueueInv, NEW p \in Producers, push(p)
  PROVE  QueueInv'
<1> USE DEF QueueInv, push
<1>0. i[p] \in 0..iterations /\ i[p] # iterations /\ value[p] \in Nat /\ queue \in Seq(Nat)
  BY DEF Typed
<1>1. Typed'
  <2>1. queue' \in Seq(Nat)
    BY <1>0, AppendProperties
  <2>2. i' \in [Producers -> 0..iterations]
    BY <1>0, IterationsAssumption DEF Typed
  <2> QED BY <2>1, <2>2 DEF Typed
<1>2. ~done
  BY <1>0 DEF Ending
<1>3. Ending'
  BY <1>2 DEF Ending
<1>4. Holding' = Holding \ {p} /\ p \in Holding
  BY DEF Holding, Typed
<1>5. Cardinality(Holding') = Cardinality(Holding) - 1
  BY <1>4, FS_RemoveElement, FiniteCounts
<1>6. Pushed' = Pushed \cup {<<p, i[p] + 1>>} /\ <<p, i[p] + 1>> \notin Pushed
  BY <1>0, IterationsAssumption DEF Pushed, Typed
<1>7. Cardinality(Pushed') = Cardinality(Pushed) + 1
  BY <1>6, FS_AddElement, FiniteCounts
<1>8. Len(queue') = Len(queue) + 1
  BY <1>0, AppendProperties
<1>9. UNCHANGED Counting
  BY DEF Counting
<1>10. Conserved'
  BY <1>5, <1>7, <1>8, <1>9, FiniteCounts, LenProperties DEF Conserved, Typed
<1> QED BY <1>1, <1>3, <1>10

\* A consumer tests done, or finds the queue empty.
LEMMA MoveKeeps ==
  ASSUME QueueInv, NEW c \in Consumers, test_done(c) \/ pop_fails(c)
  PROVE  QueueInv'
<1> USE DEF QueueInv, test_done, pop_fails
<1>1. Typed'
  BY DEF Typed
<1>2. Ending'
  BY DEF Ending, Typed
<1>3. UNCHANGED <<Holding, Counting, Pushed, queue, producer_count, consumer_count>>
  BY DEF Holding, Counting, Pushed, Typed
<1>4. Conserved'
  BY <1>3 DEF Conserved
<1> QED BY <1>1, <1>2, <1>4

\* A consumer takes an item.
LEMMA PopKeeps ==
  ASSUME QueueInv, NEW c \in Consumers, pop(c)
  PROVE  QueueInv'
<1> USE DEF QueueInv, pop
<1>0. Tail(queue) \in Seq(Nat) /\ Len(Tail(queue)) = Len(queue) - 1
  BY HeadTailProperties DEF Typed
<1>1. Typed'
  BY <1>0 DEF Typed
<1>2. Ending'
  BY DEF Ending, Typed
<1>3. Counting' = Counting \cup {c} /\ c \notin Counting
  BY DEF Counting, Typed
<1>4. Cardinality(Counting') = Cardinality(Counting) + 1
  BY <1>3, FS_AddElement, FiniteCounts
<1>5. UNCHANGED <<Holding, Pushed>>
  BY DEF Holding, Pushed
<1>6. Conserved'
  BY <1>0, <1>4, <1>5, FiniteCounts, LenProperties DEF Conserved, Typed
<1> QED BY <1>1, <1>2, <1>6

\* A consumer counts the item it took.
LEMMA CountKeeps ==
  ASSUME QueueInv, NEW c \in Consumers, count(c)
  PROVE  QueueInv'
<1> USE DEF QueueInv, count
<1>1. Typed'
  BY DEF Typed
<1>2. Ending'
  BY DEF Ending, Typed
<1>3. Counting' = Counting \ {c} /\ c \in Counting
  BY DEF Counting, Typed
<1>4. Cardinality(Counting') = Cardinality(Counting) - 1
  BY <1>3, FS_RemoveElement, FiniteCounts
<1>5. UNCHANGED <<Holding, Pushed>>
  BY DEF Holding, Pushed
<1>6. Conserved'
  BY <1>4, <1>5, FiniteCounts, LenProperties DEF Conserved, Typed
<1> QED BY <1>1, <1>2, <1>6

\* main's two joins.
LEMMA MainKeeps ==
  ASSUME QueueInv, Main
  PROVE  QueueInv'
<1> USE DEF QueueInv, Main, join_producers, join_consumers
<1>1. Typed'
  BY DEF Typed
<1>2. Ending'
  BY DEF Ending
<1>3. Conserved'
  BY DEF Conserved, Pushed, Holding, Counting
<1> QED BY <1>1, <1>2, <1>3

\* QueueInv holds in every reachable state.
LEMMA QueueInvariant == LQSpec => []QueueInv
<1>1. QueueInv /\ [LQNext]_LQvars => QueueInv'
  <2> SUFFICES ASSUME QueueInv, [LQNext]_LQvars PROVE QueueInv'
    OBVIOUS
  <2>1. ASSUME NEW p \in Producers, producer(p) PROVE QueueInv'
    BY <2>1, NumberKeeps, PushKeeps DEF producer
  <2>2. ASSUME NEW c \in Consumers, consumer(c) PROVE QueueInv'
    BY <2>2, MoveKeeps, PopKeeps, CountKeeps DEF consumer
  <2>3. CASE Main
    BY <2>3, MainKeeps
  <2>4. CASE UNCHANGED LQvars
    BY <2>4 DEF LQvars, QueueInv, Typed, Conserved, Ending, Pushed, Holding, Counting
  <2> QED BY <2>1, <2>2, <2>3, <2>4 DEF LQNext
<1> QED BY <1>1, InitQueue, PTL DEF LQSpec

\* No item is lost or counted twice, and when main reports, every item of every
\* producer has been consumed, whatever the sizes of the two groups and the
\* number of rounds.
THEOREM AllConsumed == LQSpec => []EverythingConsumed
<1>1. QueueInv => EverythingConsumed
  <2> SUFFICES ASSUME QueueInv, main = "reported"
               PROVE  /\ consumer_count = producer_count
                      /\ producer_count = Cardinality(Producers) * iterations
    BY DEF EverythingConsumed, QueueInv, Conserved
  <2>1. done /\ queue = <<>> /\ \A c \in Consumers : pc[c] = "returned"
    BY GroupsAssumption DEF QueueInv, Ending
  <2>2. \A p \in Producers : i[p] = iterations
    BY <2>1 DEF QueueInv, Ending
  <2>3. Holding = {} /\ Counting = {}
    BY <2>1, <2>2 DEF Holding, Counting, QueueInv, Typed
  <2>4. Pushed = Producers \X (1..iterations)
    BY <2>2, IterationsAssumption DEF Pushed
  <2>5. Cardinality(Pushed) = Cardinality(Producers) * iterations
    BY <2>4, FS_Product, RoundsFinite, GroupsAssumption
  <2>6. Len(queue) = 0 /\ Cardinality(Holding) = 0 /\ Cardinality(Counting) = 0
    BY <2>1, <2>3, FS_EmptySet, EmptySeq
  <2> QED BY <2>5, <2>6, FiniteCounts DEF QueueInv, Conserved, Typed
<1> QED BY <1>1, QueueInvariant, PTL

-----------------------------------------------------------------------------
(* The header.                                                             *)

\* Every non-empty set of numbers has a least element.
LEMMA LeastNumber ==
  ASSUME NEW T \in SUBSET Nat, T # {}
  PROVE  \E x \in T : \A y \in T : x <= y
<1>1. \E x \in T : \A y \in T : ~ (<<y, x>> \in OpToRel(<, Nat))
  BY NatLessThanWellFounded, WFMin
<1>2. \E x \in T : \A y \in T : ~ (y < x)
  BY <1>1 DEF OpToRel
<1> QED BY <1>2

\* Dividing by the base: a smaller number and a digit, from which the number is
\* made again.
LEMMA LastDigit ==
  ASSUME NEW m \in Nat
  PROVE  /\ m \div Base \in Nat
         /\ m % Base \in 0..(Base - 1)
         /\ m = (m \div Base) * Base + (m % Base)
         /\ m >= Base => m \div Base < m
<1>0. Base \in Nat /\ Base > 1
  BY FormatAssumption
<1>1. m \div Base \in Nat
  BY <1>0
<1>2. m % Base \in 0..(Base - 1)
  BY <1>0
<1>3. m = Base * (m \div Base) + (m % Base)
  BY <1>0
<1> DEFINE q == m \div Base
           r == m % Base
<1>4. q \in Nat /\ r \in Nat /\ m = Base * q + r /\ m = q * Base + r
  BY <1>0, <1>1, <1>2, <1>3
<1> HIDE DEF q, r
<1>5. m >= Base => q < m
  <2> SUFFICES ASSUME m >= Base, q >= m PROVE FALSE
    BY <1>4
  <2>1. Base * q >= 2 * q
    BY <1>0, <1>4
  <2>2. m >= 2 * q
    BY <1>0, <1>4, <2>1
  <2> QED BY <1>0, <1>4, <2>2
<1> QED BY <1>1, <1>2, <1>4, <1>5 DEF q, r

\* hex[m] is what std::hex writes for m, for every m up to n.
IsHex(hex, n) ==
  hex = [m \in 0..n |-> IF m < Base THEN <<m>> ELSE Append(hex[m \div Base], m % Base)]

\* The digits are defined for every number.
LEMMA HexExists == \A n \in Nat : \E hex : IsHex(hex, n)
<1> DEFINE T == {n \in Nat : ~ \E hex : IsHex(hex, n)}
<1> SUFFICES ASSUME T # {} PROVE FALSE
  OBVIOUS
<1>0. Base \in Nat /\ Base > 1
  BY FormatAssumption
<1>1. PICK n \in T : \A m \in T : n <= m
  BY LeastNumber
<1>2. n # 0
  <2>1. IsHex([m \in 0..0 |-> <<m>>], 0)
    BY <1>0 DEF IsHex
  <2> QED BY <2>1
<1>3. PICK hex : IsHex(hex, n - 1)
  BY <1>1, <1>2
<1> DEFINE last == IF n < Base THEN <<n>> ELSE Append(hex[n \div Base], n % Base)
           longer == [m \in 0..n |-> IF m = n THEN last ELSE hex[m]]
<1>4. IsHex(longer, n)
  <2>1. \A m \in 0..(n - 1) : hex[m] = IF m < Base THEN <<m>>
                                         ELSE Append(hex[m \div Base], m % Base)
    BY <1>3 DEF IsHex
  <2>2. ASSUME NEW m \in 0..n
        PROVE  longer[m] = IF m < Base THEN <<m>> ELSE Append(longer[m \div Base], m % Base)
    <3>1. CASE m < Base
      <4>1. CASE m = n
        BY <3>1, <4>1
      <4>2. CASE m # n
        <5>1. m \in 0..(n - 1) /\ longer[m] = hex[m]
          BY <4>2
        <5> QED BY <2>1, <3>1, <5>1
      <4> QED BY <4>1, <4>2
    <3>2. CASE m >= Base
      <4>1. m \div Base \in 0..n /\ m \div Base # n
        BY <1>0, <3>2, LastDigit
      <4>2. longer[m \div Base] = hex[m \div Base]
        BY <4>1
      <4>3. longer[m] = Append(hex[m \div Base], m % Base)
        <5>0. ~ (m < Base)
          BY <1>0, <3>2
        <5>1. CASE m = n
          BY <5>0, <5>1
        <5>2. CASE m # n
          <6>1. m \in 0..(n - 1) /\ longer[m] = hex[m]
            BY <5>2
          <6> QED BY <2>1, <5>0, <6>1
        <5> QED BY <5>1, <5>2
      <4>4. ~ (m < Base)
        BY <1>0, <3>2
      <4>5. longer[m] = Append(longer[m \div Base], m % Base)
        BY <4>2, <4>3
      <4> HIDE DEF longer
      <4> QED BY <4>4, <4>5
    <3> QED BY <1>0, <3>1, <3>2
  <2> QED BY <2>2 DEF IsHex
<1> QED BY <1>4

\* total[k] is the number that the first k digits stand for.
IsTotal(total, digits, n) ==
  total = [k \in 0..n |-> IF k = 0 THEN 0 ELSE total[k - 1] * Base + digits[k]]

\* The number is defined for any number of digits.
LEMMA TotalExists ==
  ASSUME NEW digits
  PROVE  \A n \in Nat : \E total : IsTotal(total, digits, n)
<1> DEFINE T == {n \in Nat : ~ \E total : IsTotal(total, digits, n)}
<1> SUFFICES ASSUME T # {} PROVE FALSE
  OBVIOUS
<1>1. PICK n \in T : \A m \in T : n <= m
  BY LeastNumber
<1>2. n # 0
  <2>1. IsTotal([k \in 0..0 |-> 0], digits, 0)
    BY DEF IsTotal
  <2> QED BY <2>1
<1>3. PICK total : IsTotal(total, digits, n - 1)
  BY <1>1, <1>2
<1> DEFINE longer == [k \in 0..n |-> IF k = n THEN total[n - 1] * Base + digits[n] ELSE total[k]]
<1>4. IsTotal(longer, digits, n)
  <2>1. \A k \in 0..(n - 1) : total[k] = IF k = 0 THEN 0 ELSE total[k - 1] * Base + digits[k]
    BY <1>3 DEF IsTotal
  <2>2. \A k \in 0..n : longer[k] = IF k = 0 THEN 0 ELSE longer[k - 1] * Base + digits[k]
    BY <1>2, <2>1
  <2> QED BY <2>2 DEF IsTotal
<1> QED BY <1>4

\* The first n digits are the same.
Same(s, t, n) == \A k \in 1..n : s[k] = t[k]

\* Digits that agree stand for the same number.
LEMMA TotalsAgree ==
  ASSUME NEW s, NEW t, NEW n \in Nat, NEW m \in Nat, n <= m,
         Same(s, t, n),
         NEW a, IsTotal(a, s, n), NEW b, IsTotal(b, t, m)
  PROVE  a[n] = b[n]
<1> DEFINE T == {k \in Nat : k <= n /\ a[k] # b[k]}
<1> SUFFICES ASSUME T # {} PROVE FALSE
  OBVIOUS
<1>1. PICK k \in T : \A j \in T : k <= j
  BY LeastNumber
<1>2. /\ \A j \in 0..n : a[j] = IF j = 0 THEN 0 ELSE a[j - 1] * Base + s[j]
      /\ \A j \in 0..m : b[j] = IF j = 0 THEN 0 ELSE b[j - 1] * Base + t[j]
  BY DEF IsTotal
<1>3. k # 0
  BY <1>2
<1>4. k - 1 \in 0..n /\ k - 1 \notin T /\ k \in 1..n
  BY <1>1, <1>3
<1>5. a[k - 1] = b[k - 1] /\ s[k] = t[k]
  BY <1>4 DEF Same
<1>6. a[k] = a[k - 1] * Base + s[k] /\ b[k] = b[k - 1] * Base + t[k]
  BY <1>2, <1>3, <1>4
<1> QED BY <1>5, <1>6

\* Number is the total of all digits.
LEMMA NumberTotal ==
  ASSUME NEW digits \in Seq(Nat)
  PROVE  \E total : IsTotal(total, digits, Len(digits)) /\ Number(digits) = total[Len(digits)]
<1> DEFINE chosen == CHOOSE total : IsTotal(total, digits, Len(digits))
<1>1. Len(digits) \in Nat
  BY LenProperties
<1>2. IsTotal(chosen, digits, Len(digits))
  BY <1>1, TotalExists
<1>3. Number(digits) = chosen[Len(digits)]
  BY DEF Number, IsTotal
<1> QED BY <1>2, <1>3

\* The empty sequence stands for 0, and one more digit for Base times as much
\* and the digit.
LEMMA NumberAppend ==
  /\ Number(<<>>) = 0
  /\ \A s \in Seq(Nat), d \in Nat : Number(Append(s, d)) = Number(s) * Base + d
<1>1. Number(<<>>) = 0
  <2>1. <<>> \in Seq(Nat) /\ Len(<<>>) = 0
    OBVIOUS
  <2>2. PICK total : IsTotal(total, <<>>, 0) /\ Number(<<>>) = total[0]
    BY <2>1, NumberTotal
  <2> QED BY <2>2 DEF IsTotal
<1>2. ASSUME NEW s \in Seq(Nat), NEW d \in Nat
      PROVE  Number(Append(s, d)) = Number(s) * Base + d
  <2> DEFINE t == Append(s, d)
  <2>1. /\ t \in Seq(Nat) /\ Len(s) \in Nat /\ Len(t) = Len(s) + 1
        /\ \A k \in 1..Len(s) : s[k] = t[k]
        /\ t[Len(s) + 1] = d
    BY AppendProperties, LenProperties
  <2> HIDE DEF t
  <2>2. PICK a : IsTotal(a, s, Len(s)) /\ Number(s) = a[Len(s)]
    BY NumberTotal
  <2>3. PICK b : IsTotal(b, t, Len(t)) /\ Number(t) = b[Len(t)]
    BY <2>1, NumberTotal
  <2>4. a[Len(s)] = b[Len(s)]
    <3>1. Len(s) \in Nat /\ Len(t) \in Nat /\ Len(s) <= Len(t)
      BY <2>1
    <3>2. Same(s, t, Len(s))
      BY <2>1 DEF Same
    <3> QED BY <2>2, <2>3, <3>1, <3>2, TotalsAgree
  <2>5. b[Len(s) + 1] = b[(Len(s) + 1) - 1] * Base + t[Len(s) + 1]
    <3>1. Len(s) + 1 \in 0..Len(t) /\ Len(s) + 1 # 0
      BY <2>1
    <3> QED BY <2>3, <3>1 DEF IsTotal
  <2>6. (Len(s) + 1) - 1 = Len(s)
    BY <2>1
  <2>7. Number(t) = Number(s) * Base + d
    BY <2>1, <2>2, <2>3, <2>4, <2>5, <2>6
  <2> QED BY <2>7 DEF t
<1> QED BY <1>1, <1>2

\* The digits of a number, of which there is at least one, stand for it.
LEMMA HexNumber ==
  ASSUME NEW n \in Nat
  PROVE  /\ Hex(n) \in Seq(0..(Base - 1))
         /\ Len(Hex(n)) >= 1
         /\ Number(Hex(n)) = n
<1>0. Base \in Nat /\ Base > 1
  BY FormatAssumption
<1> DEFINE chosen == CHOOSE hex : IsHex(hex, n)
           Right(h, m) == h \in Seq(0..(Base - 1)) /\ Len(h) >= 1 /\ Number(h) = m
<1>1. IsHex(chosen, n)
  BY HexExists
<1>2. Hex(n) = chosen[n]
  BY DEF Hex, IsHex
<1> HIDE DEF chosen
<1>3. \A m \in 0..n : chosen[m] = IF m < Base THEN <<m>> ELSE Append(chosen[m \div Base], m % Base)
  BY <1>1 DEF IsHex
<1>4. ASSUME NEW d \in 0..(Base - 1) PROVE Right(<<d>>, d)
  <2>1. <<d>> = Append(<<>>, d) /\ <<>> \in Seq(Nat) /\ d \in Nat
    BY <1>0
  <2>2. Number(<<d>>) = 0 * Base + d
    BY <2>1, NumberAppend
  <2>3. <<d>> \in Seq(0..(Base - 1)) /\ Len(<<d>>) >= 1
    OBVIOUS
  <2> QED BY <1>0, <2>1, <2>2, <2>3
<1>5. ASSUME NEW h, NEW q \in Nat, Right(h, q), NEW d \in 0..(Base - 1)
      PROVE  Right(Append(h, d), q * Base + d)
  <2>1. h \in Seq(Nat) /\ d \in Nat
    <3>1. 0..(Base - 1) \subseteq Nat
      BY <1>0
    <3>2. \A k \in 1..Len(h) : h[k] \in Nat
      BY <1>5, <3>1, ElementOfSeq
    <3>3. h = [k \in 1..Len(h) |-> h[k]] /\ Len(h) \in Nat
      BY <1>5, LenProperties
    <3> QED BY <3>1, <3>2, <3>3
  <2>2. Number(Append(h, d)) = Number(h) * Base + d
    BY <2>1, NumberAppend
  <2>3. Append(h, d) \in Seq(0..(Base - 1)) /\ Len(Append(h, d)) >= 1
    BY <1>5, AppendProperties, LenProperties
  <2> QED BY <1>5, <2>2, <2>3
<1> HIDE DEF Right
<1> DEFINE T == {m \in Nat : m <= n /\ ~ Right(chosen[m], m)}
<1>6. T = {}
  <2> SUFFICES ASSUME T # {} PROVE FALSE
    OBVIOUS
  <2>1. PICK m \in T : \A j \in T : m <= j
    BY LeastNumber
  <2>2. m >= Base
    <3> SUFFICES ASSUME m < Base PROVE FALSE
      BY <1>0
    <3>1. m \in 0..n /\ m \in 0..(Base - 1)
      BY <1>0
    <3>2. chosen[m] = <<m>>
      BY <1>3, <3>1
    <3> QED BY <1>4, <3>1, <3>2
  <2>3. /\ m \div Base \in Nat /\ m % Base \in 0..(Base - 1) /\ m \div Base < m
        /\ m = (m \div Base) * Base + (m % Base)
    BY <2>2, LastDigit
  <2>4. Right(chosen[m \div Base], m \div Base)
    BY <2>1, <2>3
  <2>5. Right(Append(chosen[m \div Base], m % Base), (m \div Base) * Base + (m % Base))
    BY <1>5, <2>3, <2>4
  <2>6. chosen[m] = Append(chosen[m \div Base], m % Base)
    <3>1. m \in 0..n /\ ~ (m < Base)
      BY <1>0, <2>2
    <3> QED BY <1>3, <3>1
  <2> QED BY <2>3, <2>5, <2>6
<1>7. Right(chosen[n], n)
  BY <1>6
<1> QED BY <1>2, <1>7 DEF Right

\* How many spaces the header of n starts with.
Padding(n) == IF Len(Hex(n)) <= header_length THEN header_length - Len(Hex(n)) ELSE 0

\* The characters of a header: spaces, then the digits.
LEMMA FormatShape ==
  ASSUME NEW n \in Nat
  PROVE  /\ Padding(n) \in Nat /\ Len(Hex(n)) \in Nat
         /\ Format(n) \in Seq(Nat)
         /\ Len(Format(n)) = Padding(n) + Len(Hex(n))
         /\ \A k \in 1..Padding(n) : Format(n)[k] = SP
         /\ \A k \in 1..Len(Hex(n)) : Format(n)[Padding(n) + k] = Hex(n)[k]
<1> DEFINE h == Hex(n)
           p == Padding(n)
           pad == [k \in 1..p |-> SP]
<1>0. Base \in Nat /\ Base > 1 /\ header_length \in Nat
  BY FormatAssumption
<1>1. h \in Seq(0..(Base - 1)) /\ Len(h) \in Nat
  BY HexNumber, LenProperties
<1>2. p \in Nat /\ 1..(header_length - Len(h)) = 1..p
  BY <1>0, <1>1 DEF Padding
<1>3. Format(n) = pad \o h
  BY <1>2 DEF Format
<1>4. h \in Seq(Nat)
  <2>1. \A k \in 1..Len(h) : h[k] \in 0..(Base - 1)
    BY <1>1, ElementOfSeq
  <2>2. \A k \in 1..Len(h) : h[k] \in Nat
    BY <1>0, <2>1
  <2>3. h = [k \in 1..Len(h) |-> h[k]]
    BY <1>1, LenProperties
  <2> QED BY <1>1, <2>2, <2>3
<1> HIDE DEF h, p
<1>5. pad \in Seq(Nat) /\ Len(pad) = p /\ \A k \in 1..p : pad[k] = SP
  BY <1>0, <1>2 DEF SP
<1> HIDE DEF pad
<1>6. /\ pad \o h \in Seq(Nat) /\ Len(pad \o h) = p + Len(h)
      /\ \A k \in 1..(p + Len(h)) : (pad \o h)[k] = IF k <= p THEN pad[k] ELSE h[k - p]
  BY <1>4, <1>5, ConcatProperties
<1>7. \A k \in 1..p : (pad \o h)[k] = SP
  BY <1>1, <1>2, <1>5, <1>6
<1>8. ASSUME NEW k \in 1..Len(h) PROVE (pad \o h)[p + k] = h[k]
  <2>1. p + k \in 1..(p + Len(h)) /\ ~ (p + k <= p) /\ (p + k) - p = k
    BY <1>1, <1>2
  <2> QED BY <1>6, <2>1
<1> QED BY <1>1, <1>2, <1>3, <1>6, <1>7, <1>8 DEF h, p

\* The reader finds in a header the number the writer put there: the spaces are
\* skipped and every digit is taken, whatever the base and the width, also when
\* the number is wider than the header.
THEOREM HeaderRoundTrip == \A n \in Nat : Parse(Format(n)) = n
<1> SUFFICES ASSUME NEW n \in Nat PROVE Parse(Format(n)) = n
  OBVIOUS
<1> DEFINE h == Hex(n)
           f == Format(n)
           p == Padding(n)
<1>0. Base \in Nat /\ Base > 1
  BY FormatAssumption
<1>1. /\ h \in Seq(0..(Base - 1)) /\ Len(h) >= 1 /\ Number(h) = n
      /\ \A k \in 1..Len(h) : h[k] \in 0..(Base - 1)
  BY HexNumber, ElementOfSeq
<1>2. /\ p \in Nat /\ Len(h) \in Nat
      /\ f \in Seq(Nat) /\ Len(f) = p + Len(h)
      /\ \A k \in 1..p : f[k] = SP
      /\ \A k \in 1..Len(h) : f[p + k] = h[k]
  BY FormatShape
<1> DEFINE first == SelectInSeq(f, LAMBDA ch : ch # SP)
           s == IF first = 0 THEN <<>> ELSE SubSeq(f, first, Len(f))
           stop == SelectInSeq(s, LAMBDA ch : ch >= Base)
           taken == IF stop = 0 THEN s ELSE SubSeq(s, 1, stop - 1)
<1>3. Parse(f) = IF taken = <<>> THEN -1 ELSE Number(taken)
  BY DEF Parse
<1> HIDE DEF h, f, p
<1>4. first = p + 1
  <2> DEFINE I == {k \in 1..Len(f) : f[k] # SP}
  <2>1. first = IF I # {} THEN Min(I) ELSE 0
    BY DEF SelectInSeq
  <2>2. p + 1 \in I
    <3>1. 1 \in 1..Len(h) /\ p + 1 \in 1..Len(f)
      BY <1>1, <1>2
    <3>2. f[p + 1] = h[1] /\ h[1] \in 0..(Base - 1)
      BY <1>1, <1>2, <3>1
    <3>3. f[p + 1] # SP
      BY <1>0, <3>2 DEF SP
    <3> QED BY <3>1, <3>3
  <2>3. \A k \in I : k \in Nat /\ p + 1 <= k
    BY <1>2
  <2> HIDE DEF I
  <2>4. Min(I) \in I /\ \A k \in I : Min(I) <= k
    BY <2>2, <2>3 DEF Min
  <2>5. Min(I) = p + 1
    BY <1>2, <2>2, <2>3, <2>4
  <2> QED BY <2>1, <2>2, <2>5
<1> HIDE DEF first
<1>5. s = h
  <2>1. s = SubSeq(f, p + 1, Len(f))
    <3>1. p + 1 # 0
      BY <1>2
    <3> QED BY <1>4, <3>1
  <2>2. \A k \in (p + 1)..Len(f) : f[k] \in Nat
    BY <1>2, ElementOfSeq
  <2>3. /\ SubSeq(f, p + 1, Len(f)) \in Seq(Nat)
        /\ Len(SubSeq(f, p + 1, Len(f))) = IF p + 1 <= Len(f) THEN Len(f) - (p + 1) + 1 ELSE 0
        /\ \A k \in 1..(Len(f) - (p + 1) + 1) : SubSeq(f, p + 1, Len(f))[k] = f[(p + 1) + k - 1]
    <3>1. p + 1 \in Int /\ Len(f) \in Int
      BY <1>2
    <3> QED BY <2>2, <3>1, SubSeqProperties
  <2>4. /\ (IF p + 1 <= Len(f) THEN Len(f) - (p + 1) + 1 ELSE 0) = Len(h)
        /\ Len(f) - (p + 1) + 1 = Len(h)
        /\ \A k \in 1..Len(h) : (p + 1) + k - 1 = p + k
    BY <1>1, <1>2
  <2>5. Len(SubSeq(f, p + 1, Len(f))) = Len(h)
    BY <2>3, <2>4
  <2>6. \A k \in 1..Len(h) : SubSeq(f, p + 1, Len(f))[k] = h[k]
    BY <1>2, <2>3, <2>4
  <2>7. h = [k \in 1..Len(h) |-> h[k]]
    BY <1>1, LenProperties
  <2>8. SubSeq(f, p + 1, Len(f)) = [k \in 1..Len(h) |-> SubSeq(f, p + 1, Len(f))[k]]
    BY <2>3, <2>5, LenProperties
  <2> QED BY <2>1, <2>6, <2>7, <2>8
<1> HIDE DEF s
<1>6. stop = 0
  <2>1. \A k \in 1..Len(s) : ~ (s[k] >= Base)
    BY <1>0, <1>1, <1>5
  <2> QED BY <2>1 DEF SelectInSeq
<1> HIDE DEF stop
<1>7. taken = h /\ h # <<>>
  <2>1. taken = h
    BY <1>5, <1>6
  <2>2. h # <<>>
    BY <1>1
  <2> QED BY <2>1, <2>2
<1> HIDE DEF taken
<1>8. Parse(f) = n
  BY <1>1, <1>3, <1>7
<1> QED BY <1>8 DEF f

\* The bytes of the archive, and what is sent of it.
LEMMA OutboundShape ==
  ASSUME NEW n \in Nat
  PROVE  /\ Archive(n) \in Seq(Nat) /\ Len(Archive(n)) = n
         /\ Outbound(n) \in Seq(Nat)
<1>1. Archive(n) \in Seq(Nat) /\ Len(Archive(n)) = n
  BY FormatAssumption DEF Archive
<1>2. Outbound(n) \in Seq(Nat)
  BY <1>1, FormatShape, ConcatProperties, EmptySeq DEF Outbound
<1> QED BY <1>1, <1>2

-----------------------------------------------------------------------------
(* The stream.                                                             *)

\* s is the beginning of t.
Begins(s, t) ==
  /\ s \in Seq(Nat) /\ t \in Seq(Nat)
  /\ Len(s) <= Len(t)
  /\ \A k \in 1..Len(s) : s[k] = t[k]

\* What client c has read of the message or of the part it is reading, and what
\* can still reach it.
Stream(c) == (inbound[c] \o pipe[c]) \o unsent[c]

\* Types.
Wired ==
  /\ size \in Sizes
  /\ conn \in [Clients -> {"none", "queued", "writing", "closed"}]
  /\ client \in [Clients -> {"connecting", "header", "data", "done"}]
  /\ inbound \in [Clients -> Seq(Nat)] /\ pipe \in [Clients -> Seq(Nat)]
  /\ unsent \in [Clients -> Seq(Nat)]
  /\ need \in [Clients -> Nat]
  /\ result \in [Clients -> {"none", "ok", "error"}]

\* Nothing is under way to a client before its connection is accepted.
Silent(c) ==
  /\ client[c] = "connecting" => conn[c] = "none"
  /\ conn[c] = "none" => client[c] \in {"connecting", "done"}
  /\ conn[c] = "queued" => client[c] = "header"
  /\ conn[c] \in {"none", "queued"} => inbound[c] = <<>> /\ pipe[c] = <<>> /\ unsent[c] = <<>>

\* What a client reads, and may still read, is the beginning of what it expects,
\* and it asks for as many bytes as the part it expects has.
Framed(c) ==
  /\ client[c] = "header" => need[c] = header_length /\ Begins(Stream(c), Outbound(size))
  /\ client[c] = "data" => need[c] = size /\ Begins(Stream(c), Archive(size))

FrameInv == Wired /\ \A c \in Clients : Silent(c) /\ Framed(c)

\* Where a stream is cut does not matter.
LEMMA Regroup ==
  ASSUME NEW a \in Seq(Nat), NEW b \in Seq(Nat), NEW d \in Seq(Nat)
  PROVE  (a \o b) \o d = a \o (b \o d)
BY ConcatAssociative

\* A stream cut short is still a beginning.
LEMMA CutShort ==
  ASSUME NEW a \in Seq(Nat), NEW b \in Seq(Nat), NEW t, Begins(a \o b, t)
  PROVE  Begins(a, t)
<1>1. /\ Len(a) \in Nat /\ Len(b) \in Nat /\ Len(a \o b) = Len(a) + Len(b)
      /\ \A k \in 1..(Len(a) + Len(b)) : (a \o b)[k] = IF k <= Len(a) THEN a[k] ELSE b[k - Len(a)]
  BY LenProperties, ConcatProperties
<1>2. /\ t \in Seq(Nat) /\ Len(t) \in Nat /\ Len(a) + Len(b) <= Len(t)
      /\ \A k \in 1..(Len(a) + Len(b)) : (a \o b)[k] = t[k]
  BY <1>1, LenProperties DEF Begins
<1>3. Len(a) <= Len(t)
  BY <1>1, <1>2
<1>4. ASSUME NEW k \in 1..Len(a) PROVE a[k] = t[k]
  <2>1. k \in 1..(Len(a) + Len(b)) /\ k <= Len(a)
    BY <1>1
  <2> QED BY <1>1, <1>2, <2>1
<1> QED BY <1>2, <1>3, <1>4 DEF Begins

\* A read that has all its bytes has the first part, and what is left is the
\* beginning of the second.
LEMMA PartRead ==
  ASSUME NEW a \in Seq(Nat), NEW b \in Seq(Nat), NEW u \in Seq(Nat), NEW v \in Seq(Nat),
         Begins(a \o b, u \o v), Len(a) = Len(u)
  PROVE  a = u /\ Begins(b, v)
<1>1. /\ Len(a) \in Nat /\ Len(b) \in Nat /\ Len(v) \in Nat
      /\ Len(a \o b) = Len(a) + Len(b) /\ Len(u \o v) = Len(a) + Len(v)
      /\ \A k \in 1..(Len(a) + Len(b)) : (a \o b)[k] = IF k <= Len(a) THEN a[k] ELSE b[k - Len(a)]
      /\ \A k \in 1..(Len(a) + Len(v)) : (u \o v)[k] = IF k <= Len(a) THEN u[k] ELSE v[k - Len(a)]
  <2>1. Len(a) \in Nat /\ Len(b) \in Nat /\ Len(v) \in Nat
    BY LenProperties
  <2>2. /\ Len(a \o b) = Len(a) + Len(b)
        /\ \A k \in 1..(Len(a) + Len(b)) : (a \o b)[k] = IF k <= Len(a) THEN a[k] ELSE b[k - Len(a)]
    BY ConcatProperties
  <2>3. /\ Len(u \o v) = Len(u) + Len(v)
        /\ \A k \in 1..(Len(u) + Len(v)) : (u \o v)[k] = IF k <= Len(u) THEN u[k] ELSE v[k - Len(u)]
    BY ConcatProperties
  <2> QED BY <2>1, <2>2, <2>3
<1>2. /\ Len(a) + Len(b) <= Len(a) + Len(v)
      /\ \A k \in 1..(Len(a) + Len(b)) : (a \o b)[k] = (u \o v)[k]
  BY <1>1 DEF Begins
<1>3. Len(b) <= Len(v)
  BY <1>1, <1>2
<1>4. ASSUME NEW k \in 1..Len(a) PROVE a[k] = u[k]
  <2>1. k \in 1..(Len(a) + Len(b)) /\ k \in 1..(Len(a) + Len(v)) /\ k <= Len(a)
    BY <1>1
  <2> QED BY <1>1, <1>2, <2>1
<1>5. ASSUME NEW k \in 1..Len(b) PROVE b[k] = v[k]
  <2> DEFINE j == Len(a) + k
  <2>1. j \in 1..(Len(a) + Len(b)) /\ j \in 1..(Len(a) + Len(v)) /\ ~ (j <= Len(a)) /\ j - Len(a) = k
    BY <1>1, <1>3
  <2> HIDE DEF j
  <2> QED BY <1>1, <1>2, <2>1
<1>6. a = u
  BY <1>4, SeqEqual
<1> QED BY <1>3, <1>5, <1>6 DEF Begins

\* A sequence in two pieces.
LEMMA CutInTwo ==
  ASSUME NEW s \in Seq(Nat), NEW n \in 1..Len(s)
  PROVE  /\ SubSeq(s, 1, n) \in Seq(Nat) /\ SubSeq(s, n + 1, Len(s)) \in Seq(Nat)
         /\ SubSeq(s, 1, n) \o SubSeq(s, n + 1, Len(s)) = s
<1> DEFINE a == SubSeq(s, 1, n)
           b == SubSeq(s, n + 1, Len(s))
<1>0. Len(s) \in Nat /\ n \in Nat /\ n <= Len(s) /\ n >= 1
  BY LenProperties
<1>1. /\ a \in Seq(Nat) /\ Len(a) = n
      /\ \A k \in 1..n : a[k] = s[k]
  <2>1. 1 \in Int /\ n \in Int /\ \A k \in 1..n : s[k] \in Nat
    BY <1>0, ElementOfSeq
  <2>2. /\ a \in Seq(Nat) /\ Len(a) = IF 1 <= n THEN n - 1 + 1 ELSE 0
        /\ \A k \in 1..(n - 1 + 1) : a[k] = s[1 + k - 1]
    BY <2>1, SubSeqProperties
  <2> HIDE DEF a
  <2> QED BY <1>0, <2>2
<1>2. /\ b \in Seq(Nat) /\ Len(b) = Len(s) - n
      /\ \A k \in 1..(Len(s) - n) : b[k] = s[n + k]
  <2>1. n + 1 \in Int /\ Len(s) \in Int /\ \A k \in (n + 1)..Len(s) : s[k] \in Nat
    BY <1>0, ElementOfSeq
  <2>2. /\ b \in Seq(Nat) /\ Len(b) = IF n + 1 <= Len(s) THEN Len(s) - (n + 1) + 1 ELSE 0
        /\ \A k \in 1..(Len(s) - (n + 1) + 1) : b[k] = s[(n + 1) + k - 1]
    BY <2>1, SubSeqProperties
  <2> HIDE DEF b
  <2>3. (IF n + 1 <= Len(s) THEN Len(s) - (n + 1) + 1 ELSE 0) = Len(s) - n
    BY <1>0
  <2>4. Len(s) - (n + 1) + 1 = Len(s) - n /\ \A k \in 1..(Len(s) - n) : (n + 1) + k - 1 = n + k
    BY <1>0
  <2> QED BY <2>2, <2>3, <2>4
<1> HIDE DEF a, b
<1>3. /\ a \o b \in Seq(Nat) /\ Len(a \o b) = Len(a) + Len(b)
      /\ \A k \in 1..(Len(a) + Len(b)) : (a \o b)[k] = IF k <= Len(a) THEN a[k] ELSE b[k - Len(a)]
  BY <1>1, <1>2, ConcatProperties
<1>4. Len(a) + Len(b) = Len(s)
  BY <1>0, <1>1, <1>2
<1>5. ASSUME NEW k \in 1..Len(s) PROVE (a \o b)[k] = s[k]
  <2>1. CASE k <= n
    <3>1. k \in 1..n
      BY <1>0, <2>1
    <3> QED BY <1>1, <1>3, <1>4, <2>1, <3>1
  <2>2. CASE ~ (k <= n)
    <3>1. k - n \in 1..(Len(s) - n) /\ n + (k - n) = k
      BY <1>0, <2>2
    <3>2. (a \o b)[k] = b[k - n]
      BY <1>1, <1>3, <1>4, <2>2
    <3> QED BY <1>2, <3>1, <3>2
  <2> QED BY <2>1, <2>2
<1>6. a \o b = s
  BY <1>3, <1>4, <1>5, SeqEqual
<1> QED BY <1>1, <1>2, <1>6 DEF a, b

\* No client, no bytes.
LEMMA InitFrames == Init => FrameInv
<1> SUFFICES ASSUME Init PROVE FrameInv
  OBVIOUS
<1>1. Wired
  BY EmptySeq DEF Init, Wired
<1>2. \A c \in Clients : Silent(c) /\ Framed(c)
  BY DEF Init, Silent, Framed
<1> QED BY <1>1, <1>2 DEF FrameInv

\* The sequences a client and its connection have.
LEMMA StreamTypes ==
  ASSUME FrameInv, NEW c \in Clients
  PROVE  /\ inbound[c] \in Seq(Nat) /\ pipe[c] \in Seq(Nat) /\ unsent[c] \in Seq(Nat)
         /\ inbound[c] \o pipe[c] \in Seq(Nat) /\ Stream(c) \in Seq(Nat)
         /\ size \in Nat /\ size > 0
         /\ Archive(size) \in Seq(Nat) /\ Len(Archive(size)) = size /\ Outbound(size) \in Seq(Nat)
<1>1. inbound[c] \in Seq(Nat) /\ pipe[c] \in Seq(Nat) /\ unsent[c] \in Seq(Nat)
  BY DEF FrameInv, Wired
<1>2. inbound[c] \o pipe[c] \in Seq(Nat)
  BY <1>1, ConcatProperties
<1>3. Stream(c) \in Seq(Nat)
  BY <1>1, <1>2, ConcatProperties DEF Stream
<1>4. size \in Nat /\ size > 0
  BY SizesAssumption DEF FrameInv, Wired
<1> QED BY <1>1, <1>2, <1>3, <1>4, OutboundShape

\* What concerns client d.
Of(d) == <<size, conn[d], client[d], inbound[d], pipe[d], unsent[d], need[d]>>

\* A step that concerns one client keeps what holds of the others.
LEMMA OneClient ==
  ASSUME FrameInv, NEW c \in Clients, Wired', Silent(c)', Framed(c)',
         \A d \in Clients : d # c => UNCHANGED Of(d)
  PROVE  FrameInv'
<1>1. ASSUME NEW d \in Clients, d # c PROVE Silent(d)' /\ Framed(d)'
  <2>1. UNCHANGED <<size, conn[d], client[d], inbound[d], pipe[d], unsent[d], need[d]>>
    BY <1>1 DEF Of
  <2>2. Silent(d) /\ Framed(d)
    BY DEF FrameInv
  <2>3. Silent(d)'
    BY <2>1, <2>2 DEF Silent
  <2>4. UNCHANGED Stream(d)
    BY <2>1 DEF Stream
  <2>5. Framed(d)'
    BY <2>1, <2>2, <2>4 DEF Framed
  <2> QED BY <2>3, <2>5
<1> QED BY <1>1 DEF FrameInv

\* A connection is accepted while its client waits for the header, so the stream
\* is then all of the message, or nothing if its length does not fit.
LEMMA AcceptKeeps ==
  ASSUME FrameInv, NEW c \in Clients, handle_accept(c)
  PROVE  FrameInv'
<1> USE DEF handle_accept, server, connecting, reading
<1>0. Outbound(size) \in Seq(Nat)
  BY StreamTypes
<1>1. Wired'
  BY <1>0 DEF FrameInv, Wired
<1>2. /\ client[c] = "header" /\ need[c] = header_length
      /\ inbound[c] = <<>> /\ pipe[c] = <<>>
  BY DEF FrameInv, Silent, Framed
<1>3. conn'[c] = "writing" /\ unsent'[c] = Outbound(size)
  BY DEF FrameInv, Wired
<1>4. Silent(c)'
  BY <1>2, <1>3 DEF Silent
<1>5. Stream(c)' = Outbound(size)
  <2>1. Stream(c)' = (<<>> \o <<>>) \o Outbound(size)
    BY <1>2, <1>3 DEF Stream
  <2>2. <<>> \o <<>> = <<>> /\ <<>> \o Outbound(size) = Outbound(size)
    BY <1>0, ConcatEmptySeq
  <2> QED BY <2>1, <2>2
<1>6. Begins(Outbound(size), Outbound(size))
  BY <1>0, LenProperties DEF Begins
<1>7. Framed(c)'
  BY <1>2, <1>5, <1>6 DEF Framed
<1>8. \A d \in Clients : d # c => UNCHANGED Of(d)
  BY DEF Of, FrameInv, Wired
<1> QED BY <1>1, <1>4, <1>7, <1>8, OneClient

\* Sending moves bytes along the stream.
LEMMA TransmitKeeps ==
  ASSUME FrameInv, NEW c \in Clients, transmit(c)
  PROVE  FrameInv'
<1> USE DEF transmit, server, connecting, reading
<1>0. /\ inbound[c] \in Seq(Nat) /\ pipe[c] \in Seq(Nat) /\ unsent[c] \in Seq(Nat)
      /\ pipe[c] \o unsent[c] \in Seq(Nat) /\ <<>> \in Seq(Nat)
  BY StreamTypes, ConcatProperties, EmptySeq
<1>1. Wired'
  BY <1>0 DEF FrameInv, Wired
<1>2. pipe'[c] = pipe[c] \o unsent[c] /\ unsent'[c] = <<>> /\ inbound'[c] = inbound[c]
  BY DEF FrameInv, Wired
<1>3. Stream(c)' = Stream(c)
  <2>1. Stream(c)' = (inbound[c] \o (pipe[c] \o unsent[c])) \o <<>>
    BY <1>2 DEF Stream
  <2>2. inbound[c] \o (pipe[c] \o unsent[c]) \in Seq(Nat)
    BY <1>0, ConcatProperties
  <2>3. (inbound[c] \o (pipe[c] \o unsent[c])) \o <<>> = inbound[c] \o (pipe[c] \o unsent[c])
    BY <2>2, ConcatEmptySeq
  <2>4. (inbound[c] \o pipe[c]) \o unsent[c] = inbound[c] \o (pipe[c] \o unsent[c])
    BY <1>0, Regroup
  <2> QED BY <2>1, <2>3, <2>4 DEF Stream
<1>4. Silent(c)'
  BY <1>2 DEF FrameInv, Silent
<1>5. Framed(c)'
  BY <1>3 DEF FrameInv, Framed
<1>6. \A d \in Clients : d # c => UNCHANGED Of(d)
  BY DEF Of, FrameInv, Wired
<1> QED BY <1>1, <1>4, <1>5, <1>6, OneClient

\* A broken connection cuts the stream short.
LEMMA ResetKeeps ==
  ASSUME FrameInv, NEW c \in Clients, reset(c)
  PROVE  FrameInv'
<1> USE DEF reset, server, connecting, reading
<1>0. /\ inbound[c] \in Seq(Nat) /\ pipe[c] \in Seq(Nat) /\ unsent[c] \in Seq(Nat)
      /\ inbound[c] \o pipe[c] \in Seq(Nat) /\ <<>> \in Seq(Nat)
  BY StreamTypes, EmptySeq
<1>1. Wired'
  BY <1>0 DEF FrameInv, Wired
<1>2. /\ pipe'[c] = <<>> /\ unsent'[c] = <<>> /\ inbound'[c] = inbound[c]
      /\ conn'[c] = IF conn[c] = "queued" THEN "closed" ELSE conn[c]
  BY DEF FrameInv, Wired
<1>3. Stream(c)' = inbound[c]
  <2>1. Stream(c)' = (inbound[c] \o <<>>) \o <<>>
    BY <1>2 DEF Stream
  <2>2. inbound[c] \o <<>> = inbound[c]
    BY <1>0, ConcatEmptySeq
  <2> QED BY <2>1, <2>2
<1>4. ASSUME NEW t, Begins(Stream(c), t) PROVE Begins(Stream(c)', t)
  <2>1. Begins(inbound[c] \o pipe[c], t)
    BY <1>0, <1>4, CutShort DEF Stream
  <2> QED BY <1>0, <1>3, <2>1, CutShort
<1>5. Silent(c)'
  BY <1>2 DEF FrameInv, Silent
<1>6. Framed(c)'
  BY <1>4 DEF FrameInv, Framed
<1>7. \A d \in Clients : d # c => UNCHANGED Of(d)
  BY DEF Of, FrameInv, Wired
<1> QED BY <1>1, <1>5, <1>6, <1>7, OneClient

\* Reading moves bytes along the stream, in pieces of any length.
LEMMA ReadKeeps ==
  ASSUME FrameInv, NEW c \in Clients, read_some(c)
  PROVE  FrameInv'
<1> USE DEF server, connecting
<1>1. PICK n \in 1..Len(pipe[c]) :
        /\ inbound' = [inbound EXCEPT ![c] = @ \o SubSeq(pipe[c], 1, n)]
        /\ pipe' = [pipe EXCEPT ![c] = SubSeq(@, n + 1, Len(@))]
  BY DEF read_some
<1>2. UNCHANGED <<size, conn, unsent, client, need, result>> /\ client[c] \in {"header", "data"}
  BY DEF read_some
<1> DEFINE a == SubSeq(pipe[c], 1, n)
           b == SubSeq(pipe[c], n + 1, Len(pipe[c]))
<1>3. /\ inbound[c] \in Seq(Nat) /\ pipe[c] \in Seq(Nat) /\ unsent[c] \in Seq(Nat)
      /\ a \in Seq(Nat) /\ b \in Seq(Nat) /\ a \o b = pipe[c]
  BY StreamTypes, CutInTwo
<1>4. inbound' = [inbound EXCEPT ![c] = @ \o a] /\ pipe' = [pipe EXCEPT ![c] = b]
  BY <1>1
<1> HIDE DEF a, b
<1>5. inbound[c] \o a \in Seq(Nat)
  BY <1>3, ConcatProperties
<1>6. Wired'
  BY <1>2, <1>3, <1>4, <1>5 DEF FrameInv, Wired
<1>7. inbound'[c] = inbound[c] \o a /\ pipe'[c] = b
  BY <1>4 DEF FrameInv, Wired
<1>8. Stream(c)' = Stream(c)
  <2>1. (inbound[c] \o a) \o b = inbound[c] \o (a \o b)
    BY <1>3, Regroup
  <2> QED BY <1>2, <1>3, <1>7, <2>1 DEF Stream
<1>9. conn[c] \notin {"none", "queued"}
  <2>1. pipe[c] # <<>>
    BY DEF read_some
  <2> QED BY <2>1 DEF FrameInv, Silent
<1>10. Silent(c)'
  BY <1>2, <1>9 DEF FrameInv, Silent
<1>11. Framed(c)'
  BY <1>2, <1>8 DEF FrameInv, Framed
<1>12. \A d \in Clients : d # c => UNCHANGED Of(d)
  BY <1>2, <1>4 DEF Of, FrameInv, Wired
<1> QED BY <1>6, <1>10, <1>11, <1>12, OneClient

\* A full header is the one that was sent: the client then asks for the bytes of
\* the archive, and they are what is left of the stream.
LEMMA HeaderKeeps ==
  ASSUME FrameInv, NEW c \in Clients, handle_read_header(c)
  PROVE  FrameInv'
<1> USE DEF server, network, connecting, reading
<1> DEFINE rest == pipe[c] \o unsent[c]
<1>0. /\ inbound[c] \in Seq(Nat) /\ pipe[c] \in Seq(Nat) /\ unsent[c] \in Seq(Nat)
      /\ size \in Nat /\ Archive(size) \in Seq(Nat) /\ <<>> \in Seq(Nat)
  BY StreamTypes, EmptySeq
<1>1. rest \in Seq(Nat) /\ Stream(c) = inbound[c] \o rest
  <2>1. rest \in Seq(Nat)
    BY <1>0, ConcatProperties
  <2>2. Stream(c) = inbound[c] \o rest
    BY <1>0, Regroup DEF Stream
  <2> QED BY <2>1, <2>2
<1> HIDE DEF rest
<1>2. /\ client[c] = "header" /\ Len(inbound[c]) = header_length
      /\ Begins(inbound[c] \o rest, Outbound(size))
  BY <1>1 DEF handle_read_header, FrameInv, Framed
<1>3. Len(Format(size)) = header_length
  <2> SUFFICES ASSUME Len(Format(size)) # header_length PROVE FALSE
    OBVIOUS
  <2>1. Outbound(size) = <<>>
    BY DEF Outbound
  <2>2. Begins(inbound[c], <<>>)
    BY <1>0, <1>1, <1>2, <2>1, CutShort
  <2>3. Len(<<>>) = 0
    OBVIOUS
  <2> QED BY <1>2, <2>2, <2>3, FormatAssumption DEF Begins
<1>4. inbound[c] = Format(size) /\ Begins(rest, Archive(size))
  <2>1. Format(size) \in Seq(Nat)
    BY <1>0, FormatShape
  <2>2. Outbound(size) = Format(size) \o Archive(size)
    BY <1>3 DEF Outbound
  <2> QED BY <1>0, <1>1, <1>2, <1>3, <2>1, <2>2, PartRead
<1>5. Parse(inbound[c]) = size
  BY <1>0, <1>4, HeaderRoundTrip
<1>6. /\ client' = [client EXCEPT ![c] = "data"]
      /\ inbound' = [inbound EXCEPT ![c] = <<>>]
      /\ need' = [need EXCEPT ![c] = size]
      /\ UNCHANGED <<size, conn, unsent, pipe, result>>
  <2>1. size # -1
    BY <1>0
  <2> QED BY <1>5, <2>1 DEF handle_read_header, ReadExactly
<1>7. Wired'
  BY <1>0, <1>6 DEF FrameInv, Wired
<1>8. client'[c] = "data" /\ inbound'[c] = <<>> /\ need'[c] = size
  BY <1>6 DEF FrameInv, Wired
<1>9. conn[c] \notin {"none", "queued"}
  <2>1. Len(<<>>) = 0
    OBVIOUS
  <2>2. inbound[c] # <<>>
    BY <1>2, <2>1, FormatAssumption
  <2> QED BY <2>2 DEF FrameInv, Silent
<1>10. Silent(c)'
  BY <1>6, <1>8, <1>9 DEF Silent
<1>11. Stream(c)' = rest
  <2>1. Stream(c)' = (<<>> \o pipe[c]) \o unsent[c]
    BY <1>6, <1>8 DEF Stream
  <2>2. <<>> \o pipe[c] = pipe[c]
    BY <1>0, ConcatEmptySeq
  <2> QED BY <2>1, <2>2 DEF rest
<1>12. Framed(c)'
  BY <1>4, <1>6, <1>8, <1>11 DEF Framed
<1>13. \A d \in Clients : d # c => UNCHANGED Of(d)
  BY <1>6 DEF Of, FrameInv, Wired
<1> QED BY <1>7, <1>10, <1>12, <1>13, OneClient

\* All bytes of the archive are the archive: it is not rejected.
LEMMA DataKeeps ==
  ASSUME FrameInv, NEW c \in Clients, handle_read_data(c)
  PROVE  FrameInv'
<1> USE DEF server, network, connecting, reading
<1> DEFINE rest == pipe[c] \o unsent[c]
<1>0. /\ inbound[c] \in Seq(Nat) /\ pipe[c] \in Seq(Nat) /\ unsent[c] \in Seq(Nat)
      /\ size \in Nat /\ size > 0 /\ Archive(size) \in Seq(Nat) /\ Len(Archive(size)) = size
      /\ <<>> \in Seq(Nat)
  BY StreamTypes, EmptySeq
<1>1. rest \in Seq(Nat) /\ Stream(c) = inbound[c] \o rest
  <2>1. rest \in Seq(Nat)
    BY <1>0, ConcatProperties
  <2>2. Stream(c) = inbound[c] \o rest
    BY <1>0, Regroup DEF Stream
  <2> QED BY <2>1, <2>2
<1> HIDE DEF rest
<1>2. /\ client[c] = "data" /\ Len(inbound[c]) = size
      /\ Begins(inbound[c] \o rest, Archive(size))
  BY <1>1 DEF handle_read_data, FrameInv, Framed
<1>3. inbound[c] = Archive(size)
  <2>1. Archive(size) \o <<>> = Archive(size)
    BY <1>0, ConcatEmptySeq
  <2>2. Begins(inbound[c] \o rest, Archive(size) \o <<>>)
    BY <1>2, <2>1
  <2> QED BY <1>0, <1>1, <1>2, <2>2, PartRead
<1>4. /\ client' = [client EXCEPT ![c] = "done"]
      /\ result' = [result EXCEPT ![c] = "ok"]
      /\ UNCHANGED <<size, conn, unsent, pipe, inbound, need>>
  BY <1>3 DEF handle_read_data, Finish
<1>5. Wired'
  BY <1>4 DEF FrameInv, Wired
<1>6. client'[c] = "done"
  BY <1>4 DEF FrameInv, Wired
<1>7. Silent(c)'
  BY <1>2, <1>4, <1>6 DEF FrameInv, Silent
<1>8. Framed(c)'
  BY <1>6 DEF Framed
<1>9. \A d \in Clients : d # c => UNCHANGED Of(d)
  BY <1>4 DEF Of, FrameInv, Wired
<1> QED BY <1>5, <1>7, <1>8, <1>9, OneClient

\* The connection is queued with nothing under way.
LEMMA ConnectKeeps ==
  ASSUME FrameInv, NEW c \in Clients, handle_connect(c)
  PROVE  FrameInv'
<1> USE DEF handle_connect, ReadExactly, server, connecting
<1>0. <<>> \in Seq(Nat) /\ header_length \in Nat
  BY EmptySeq, FormatAssumption
<1>1. Wired'
  BY <1>0 DEF FrameInv, Wired
<1>2. pipe[c] = <<>> /\ unsent[c] = <<>>
  BY DEF FrameInv, Silent
<1>3. client'[c] = "header" /\ inbound'[c] = <<>> /\ need'[c] = header_length /\ conn'[c] = "queued"
  BY DEF FrameInv, Wired
<1>4. Silent(c)'
  BY <1>2, <1>3 DEF Silent
<1>5. Stream(c)' = <<>>
  <2>1. Stream(c)' = (<<>> \o <<>>) \o <<>>
    BY <1>2, <1>3 DEF Stream
  <2>2. <<>> \o <<>> = <<>>
    BY <1>0, ConcatEmptySeq
  <2> QED BY <2>1, <2>2
<1>6. Begins(<<>>, Outbound(size))
  <2>1. Outbound(size) \in Seq(Nat) /\ Len(Outbound(size)) \in Nat /\ Len(<<>>) = 0
    BY StreamTypes, LenProperties
  <2> QED BY <1>0, <2>1 DEF Begins
<1>7. Framed(c)'
  BY <1>3, <1>5, <1>6 DEF Framed
<1>8. \A d \in Clients : d # c => UNCHANGED Of(d)
  BY DEF Of, FrameInv, Wired
<1> QED BY <1>1, <1>4, <1>7, <1>8, OneClient

\* A failed connect or read ends the client, or leaves all but the endpoint.
LEMMA ErrorKeeps ==
  ASSUME FrameInv, NEW c \in Clients, handle_connect_error(c) \/ handle_read_error(c)
  PROVE  FrameInv'
<1>1. UNCHANGED <<size, conn, unsent, pipe, inbound, need>>
  BY DEF handle_connect_error, handle_read_error, server, network, reading
<1>2. \/ UNCHANGED <<client, result>>
      \/ client' = [client EXCEPT ![c] = "done"] /\ result' = [result EXCEPT ![c] = "error"]
  BY DEF handle_connect_error, handle_read_error, Finish
<1>3. Wired'
  BY <1>1, <1>2 DEF FrameInv, Wired
<1>4. client'[c] = client[c] \/ client'[c] = "done"
  BY <1>2 DEF FrameInv, Wired
<1>5. Silent(c)'
  <2>1. conn[c] # "queued"
    BY DEF handle_connect_error, handle_read_error, FrameInv, Silent
  <2> QED BY <1>1, <1>4, <2>1 DEF FrameInv, Silent
<1>6. Framed(c)'
  <2>1. UNCHANGED Stream(c)
    BY <1>1 DEF Stream
  <2> QED BY <1>1, <1>4, <2>1 DEF FrameInv, Framed
<1>7. \A d \in Clients : d # c => UNCHANGED Of(d)
  BY <1>1, <1>2 DEF Of, FrameInv, Wired
<1> QED BY <1>3, <1>5, <1>6, <1>7, OneClient

\* The end of a write, of the accepting and of the server leaves the streams
\* alone; a client that is dropped from the queue has an empty one.
LEMMA ServerKeeps ==
  ASSUME FrameInv, \/ \E c \in Clients : handle_write(c)
                   \/ handle_accept_error
                   \/ run_returns
  PROVE  FrameInv'
<1>1. UNCHANGED <<size, unsent, pipe, inbound, need, client, result>>
  BY DEF handle_write, handle_accept_error, run_returns, server, network, connecting, reading
<1>2. /\ conn' \in [Clients -> {"none", "queued", "writing", "closed"}]
      /\ \A d \in Clients : conn'[d] = conn[d] \/ (conn'[d] = "closed" /\ conn[d] # "none")
  BY DEF handle_write, handle_accept_error, run_returns, network, FrameInv, Wired
<1>3. Wired'
  BY <1>1, <1>2 DEF FrameInv, Wired
<1>4. ASSUME NEW d \in Clients PROVE Silent(d)' /\ Framed(d)'
  <2>1. Silent(d) /\ Framed(d)
    BY DEF FrameInv
  <2>2. Silent(d)'
    BY <1>1, <1>2, <2>1 DEF Silent
  <2>3. UNCHANGED Stream(d)
    BY <1>1 DEF Stream
  <2> QED BY <1>1, <2>1, <2>2, <2>3 DEF Framed
<1> QED BY <1>3, <1>4 DEF FrameInv

\* FrameInv holds in every reachable state.
LEMMA FrameInvariant == Spec => []FrameInv
<1>1. FrameInv /\ [Next]_vars => FrameInv'
  <2> SUFFICES ASSUME FrameInv, [Next]_vars PROVE FrameInv'
    OBVIOUS
  <2>1. CASE Server \/ handle_accept_error
    BY <2>1, AcceptKeeps, ServerKeeps DEF Server
  <2>2. ASSUME NEW c \in Clients, Client(c) PROVE FrameInv'
    BY <2>2, ConnectKeeps, ErrorKeeps, ReadKeeps, HeaderKeeps, DataKeeps DEF Client
  <2>3. ASSUME NEW c \in Clients, transmit(c) \/ reset(c) PROVE FrameInv'
    BY <2>3, TransmitKeeps, ResetKeeps
  <2>4. CASE UNCHANGED vars
    BY <2>4 DEF vars, FrameInv, Wired, Silent, Framed, Stream
  <2> QED BY <2>1, <2>2, <2>3, <2>4 DEF Next
<1> QED BY <1>1, InitFrames, PTL DEF Spec

\* No client of this server is ever told invalid_argument, whatever the length of
\* the data and of the header, wherever TCP cuts or breaks the stream, and
\* whenever the server stops accepting.
THEOREM FramingAgreed == Spec => []FramesAgree
<1>1. FrameInv => FramesAgree
  BY DEF FrameInv, Wired, FramesAgree
<1> QED BY <1>1, FrameInvariant, PTL
=============================================================================
