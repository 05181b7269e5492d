------------------------ MODULE RequestHandlerProofs ------------------------
(***************************************************************************)
(* What request_handler promises for every uri the parser may deliver and  *)
(* for files of any size: url_decode against its reference, the names that *)
(* are opened, the content and the framing of the reply.                   *)
(***************************************************************************)
EXTENDS RequestHandler, FiniteSetTheorems, SequenceTheorems, WellFoundedInduction, TLAPS

Characters == 0..255

-----------------------------------------------------------------------------
(* The escapes of a uri.                                                   *)

\* Every non-empty set of numbers has a least element.
LEMMA LeastNumber ==
  ASSUME NEW T \in SUBSET Nat, T # {}
  PROVE  \E x \in T : \A y \in T : x <= y
<1>1. \E x \in T : \A y \in T : ~ (<<y, x>> \in OpToRel(<, Nat))
  BY NatLessThanWellFounded, WFMin
<1>2. \E x \in T : \A y \in T : ~ (y < x)
  BY <1>1 DEF OpToRel
<1> QED BY <1>2

\* S are the escapes among the first n characters of `in'.
EscapesTo(in, n, S) ==
  /\ S \subseteq {k \in DOMAIN in : in[k] = Percent} \cap 1..n
  /\ \A k \in DOMAIN in : in[k] = Percent /\ k <= n => (k \in S <=> {k - 1, k - 2} \cap S = {})

\* They exist for every n: a % is an escape or not, given the ones before it.
LEMMA EscapesToExist ==
  ASSUME NEW in \in Seq(Characters)
  PROVE  \A n \in Nat : \E S : EscapesTo(in, n, S)
<1> DEFINE T == {n \in Nat : ~ \E S : EscapesTo(in, n, S)}
<1>0. DOMAIN in = 1..Len(in) /\ Len(in) \in Nat
  BY LenProperties
<1> SUFFICES ASSUME T # {} PROVE FALSE
  OBVIOUS
<1>1. PICK n \in T : \A m \in T : n <= m
  BY LeastNumber
<1>2. n # 0
  <2>1. EscapesTo(in, 0, {})
    BY <1>0 DEF EscapesTo
  <2> QED BY <2>1
<1>3. PICK S : EscapesTo(in, n - 1, S)
  BY <1>1, <1>2
<1>4. CASE n \in DOMAIN in /\ in[n] = Percent /\ {n - 1, n - 2} \cap S = {}
  <2>1. EscapesTo(in, n, S \cup {n})
    BY <1>0, <1>2, <1>3, <1>4 DEF EscapesTo
  <2> QED BY <2>1
<1>5. CASE ~ (n \in DOMAIN in /\ in[n] = Percent /\ {n - 1, n - 2} \cap S = {})
  <2>1. EscapesTo(in, n, S)
    BY <1>0, <1>2, <1>3, <1>5 DEF EscapesTo
  <2> QED BY <2>1
<1> QED BY <1>4, <1>5

\* The reference's choice of escapes is well defined.
LEMMA EscapesDefined ==
  ASSUME NEW in \in Seq(Characters)
  PROVE  /\ Escapes(in) \subseteq {k \in DOMAIN in : in[k] = Percent}
         /\ \A k \in DOMAIN in : in[k] = Percent =>
              (k \in Escapes(in) <=> {k - 1, k - 2} \cap Escapes(in) = {})
<1> DEFINE percents == {k \in DOMAIN in : in[k] = Percent}
<1>1. DOMAIN in = 1..Len(in) /\ Len(in) \in Nat
  BY LenProperties
<1>2. PICK S : EscapesTo(in, Len(in), S)
  BY <1>1, EscapesToExist
<1>3. S \in SUBSET percents /\ \A k \in percents : k \in S <=> {k - 1, k - 2} \cap S = {}
  BY <1>1, <1>2 DEF EscapesTo
<1>4. /\ Escapes(in) \in SUBSET percents
      /\ \A k \in percents : k \in Escapes(in) <=> {k - 1, k - 2} \cap Escapes(in) = {}
  BY <1>3 DEF Escapes
<1> QED BY <1>4
-----------------------------------------------------------------------------
(* url_decode.                                                             *)

Typed ==
  /\ step \in {"parsed", "resolved", "reading", "sent"}
  /\ uri \in Seq(33..255)
  /\ i \in 1..Len(uri) + 1
  /\ request_path \in Seq(Characters)

\* The index where a character of the path starts, as a condition on it.
Starts(in, k) == {k - 1, k - 2} \cap Escapes(in) = {}

\* The characters of the path that have been decoded when the loop is at n.
Before(in, n) == {k \in Units(in) : k < n}

Correct(in, path, n) ==
  /\ Len(path) = Cardinality(Before(in, n))
  /\ \A k \in Before(in, n) : path[Cardinality({j \in Units(in) : j <= k})] = UnitValue(in, k)

\* The loop stands where a character of the path starts, and has decoded the
\* ones before it.
Decoding ==
  step = "parsed" => Starts(uri, i) /\ Correct(uri, request_path, i)

\* Characters of a uri are characters of a path.
LEMMA UriCharacters ==
  ASSUME NEW u \in Seq(33..255)
  PROVE  u \in Seq(Characters) /\ Len(u) \in Nat /\ DOMAIN u = 1..Len(u)
         /\ \A k \in 1..Len(u) : u[k] \in 33..255
  BY SeqMonotonic, LenProperties, ElementOfSeq DEF Characters

\* The path's characters that start before n are finitely many.
LEMMA BeforeFinite ==
  ASSUME NEW in \in Seq(Characters), NEW n \in Int
  PROVE  IsFiniteSet(Before(in, n))
<1>1. Len(in) \in Nat /\ DOMAIN in = 1..Len(in)
  BY LenProperties
<1>2. IsFiniteSet(1..Len(in))
  BY <1>1, FS_Interval
<1>3. Before(in, n) \in SUBSET (1..Len(in))
  BY <1>1 DEF Before, Units
<1> QED BY <1>2, <1>3, FS_Subset

\* Decoding one more character: the next unit starts at m, the path gets its value.
LEMMA OneMore ==
  ASSUME NEW in \in Seq(Characters), NEW path \in Seq(Characters),
         NEW n \in 1..Len(in), NEW m \in Int, n < m, Starts(in, n),
         \A k \in n + 1..m - 1 : ~ Starts(in, k),
         Correct(in, path, n), NEW v \in Characters, v = UnitValue(in, n)
  PROVE  Correct(in, Append(path, v), m)
<1>0. Len(in) \in Nat /\ DOMAIN in = 1..Len(in) /\ Len(path) \in Nat
  BY LenProperties
<1>1. n \in Units(in) /\ Units(in) \subseteq 1..Len(in)
  BY <1>0 DEF Units, Starts
<1>2. Before(in, m) = Before(in, n) \cup {n} /\ n \notin Before(in, n)
  BY <1>0, <1>1 DEF Before, Units, Starts
<1>3. Cardinality(Before(in, m)) = Cardinality(Before(in, n)) + 1
  <2>1. IsFiniteSet(Before(in, n))
    BY <1>0, BeforeFinite
  <2> QED BY <1>2, <2>1, FS_AddElement
<1>4. /\ Len(Append(path, v)) = Len(path) + 1
      /\ \A k \in 1..Len(path) : Append(path, v)[k] = path[k]
      /\ Append(path, v)[Len(path) + 1] = v
  BY AppendProperties
<1>5. ASSUME NEW k \in Before(in, m)
      PROVE  Append(path, v)[Cardinality({j \in Units(in) : j <= k})] = UnitValue(in, k)
  <2> DEFINE upto == {j \in Units(in) : j <= k}
  <2>1. CASE k = n
    <3>1. upto = Before(in, n) \cup {n}
      BY <1>1, <2>1 DEF Before
    <3> QED BY <1>2, <1>3, <1>4, <2>1, <3>1 DEF Correct
  <2>2. CASE k # n
    <3>1. k \in Before(in, n)
      BY <1>2, <2>2
    <3>2. upto \in SUBSET Before(in, n) /\ k \in upto
      BY <1>1, <3>1 DEF Before
    <3>3. IsFiniteSet(upto) /\ Cardinality(upto) <= Cardinality(Before(in, n))
      BY <3>2, BeforeFinite, FS_Subset
    <3>4. Cardinality(upto) \in Nat /\ Cardinality(upto) # 0
      BY <3>2, <3>3, FS_CardinalityType, FS_EmptySet
    <3>5. Cardinality(upto) \in 1..Len(path)
      BY <1>0, <3>3, <3>4 DEF Correct
    <3> QED BY <1>4, <3>1, <3>5 DEF Correct
  <2> QED BY <2>1, <2>2
<1> QED BY <1>0, <1>3, <1>4, <1>5 DEF Correct

\* What HexValue can be, and what makes it fail.
LEMMA HexRange ==
  ASSUME NEW a \in 33..255, NEW b \in 33..255
  PROVE  /\ HexValue(a, b) \in Int
         /\ IsHex(a) /\ IsHex(b) => HexValue(a, b) # -256
  BY DEF HexValue, Hex, IsHex, Plus, Minus

\* A step over an escape.
LEMMA EscapeStep ==
  ASSUME Typed, Decoding, decode_escape
  PROVE  Typed' /\ Decoding'
<1>0. /\ uri \in Seq(Characters) /\ Len(uri) \in Nat /\ DOMAIN uri = 1..Len(uri)
      /\ \A k \in 1..Len(uri) : uri[k] \in 33..255
  BY UriCharacters DEF Typed
<1>1. /\ step = "parsed" /\ i \in 1..Len(uri) /\ uri[i] = Percent
      /\ i + 2 <= Len(uri)
      /\ EscapeAt(i) = HexValue(uri[i + 1], uri[i + 2])
      /\ i' = i + 3 /\ UNCHANGED <<step, uri>>
      /\ request_path' = Append(request_path, EscapeAt(i) % 256)
  BY <1>0 DEF decode_escape, AtPercent, EscapeAt, Typed
<1>2. EscapeAt(i) % 256 \in Characters /\ EscapeAt(i) % 256 = UnitValue(uri, i)
  <2>1. i + 1 \in 1..Len(uri) /\ i + 2 \in 1..Len(uri)
    BY <1>0, <1>1
  <2>2. uri[i + 1] \in 33..255 /\ uri[i + 2] \in 33..255
    BY <1>0, <2>1
  <2>3. HexValue(uri[i + 1], uri[i + 2]) \in Int
    BY <2>2, HexRange
  <2>4. \A x \in Int : x % 256 \in 0..255
    OBVIOUS
  <2>5. EscapeAt(i) % 256 \in Characters
    BY <1>1, <2>3, <2>4 DEF Characters
  <2>6. EscapeAt(i) % 256 = UnitValue(uri, i)
    BY <1>1 DEF UnitValue
  <2> QED BY <2>5, <2>6
<1>3. Typed'
  BY <1>0, <1>1, <1>2, AppendProperties DEF Typed
<1>4. i \in Escapes(uri) /\ Starts(uri, i)
  BY <1>0, <1>1, EscapesDefined DEF Decoding, Starts
<1>5. i + 1 \notin Escapes(uri) /\ i + 2 \notin Escapes(uri)
  BY <1>0, <1>1, <1>4, EscapesDefined
<1>6. Starts(uri, i + 3) /\ \A k \in i + 1..(i + 3) - 1 : ~ Starts(uri, k)
  BY <1>1, <1>4, <1>5 DEF Starts
<1>7. Correct(uri, Append(request_path, EscapeAt(i) % 256), i + 3)
  <2>1. i < i + 3 /\ i + 3 \in Int
    BY <1>1
  <2> QED BY <1>0, <1>1, <1>2, <1>4, <1>6, <2>1, OneMore DEF Typed, Decoding
<1> QED BY <1>1, <1>3, <1>6, <1>7 DEF Decoding

\* A step over another character.
LEMMA CharStep ==
  ASSUME Typed, Decoding, decode_char
  PROVE  Typed' /\ Decoding'
<1> DEFINE v == IF uri[i] = Plus THEN Space ELSE uri[i]
<1>0. /\ uri \in Seq(Characters) /\ Len(uri) \in Nat /\ DOMAIN uri = 1..Len(uri)
      /\ \A k \in 1..Len(uri) : uri[k] \in 33..255
  BY UriCharacters DEF Typed
<1>1. /\ step = "parsed" /\ i \in 1..Len(uri) /\ uri[i] # Percent
      /\ i' = i + 1 /\ UNCHANGED <<step, uri>>
      /\ request_path' = Append(request_path, v)
  BY <1>0 DEF decode_char, AtOther, Typed
<1>2. v \in Characters /\ v = UnitValue(uri, i)
  <2>1. uri[i] \in 33..255
    BY <1>0, <1>1
  <2>2. v \in Characters
    BY <2>1 DEF Characters, Space
  <2>3. v = UnitValue(uri, i)
    BY <1>1 DEF UnitValue
  <2> QED BY <2>2, <2>3
<1> HIDE DEF v
<1>3. Typed'
  BY <1>0, <1>1, <1>2, AppendProperties DEF Typed
<1>4. i \notin Escapes(uri) /\ Starts(uri, i)
  BY <1>0, <1>1, EscapesDefined DEF Decoding
<1>5. Starts(uri, i + 1) /\ \A k \in i + 1..(i + 1) - 1 : ~ Starts(uri, k)
  BY <1>1, <1>4 DEF Starts
<1>6. Correct(uri, Append(request_path, v), i + 1)
  <2>1. i < i + 1 /\ i + 1 \in Int
    BY <1>1
  <2> QED BY <1>0, <1>1, <1>2, <1>4, <1>5, <2>1, OneMore DEF Typed, Decoding
<1> QED BY <1>1, <1>3, <1>5, <1>6 DEF Decoding

\* A loop that has come to the end has decoded the uri.
LEMMA DecodedEncodes ==
  ASSUME Typed, Decoding, Decoded
  PROVE  Encodes(uri, request_path)
<1>0. Len(uri) \in Nat /\ DOMAIN uri = 1..Len(uri)
  BY UriCharacters DEF Typed
<1>1. Before(uri, i) = Units(uri)
  BY <1>0 DEF Before, Units, Decoded, Typed
<1> QED BY <1>1 DEF Encodes, Decoding, Correct, Decoded
-----------------------------------------------------------------------------
(* The names that are opened.                                              *)

\* A path that starts with a slash and has no two adjacent dots.
Absolute(p) ==
  /\ p \in Seq(Characters) /\ Len(p) >= 1
  /\ p[1] = Slash
  /\ \A k \in 1..Len(p) - 1 : ~ (p[k] = Dot /\ p[k + 1] = Dot)

\* What is not refused as a path is one.
LEMMA AcceptableAbsolute ==
  ASSUME NEW p \in Seq(Characters), Acceptable(p)
  PROVE  Absolute(p)
<1>1. Len(p) \in Nat /\ DOMAIN p = 1..Len(p) /\ \A k \in 1..Len(p) : p[k] \in Characters
  BY LenProperties, ElementOfSeq
<1>2. Len(p) >= 1 /\ p[1] = Slash
  BY <1>1, EmptySeq DEF Acceptable
<1>3. ASSUME NEW k \in 1..Len(p) - 1, p[k] = Dot, p[k + 1] = Dot
      PROVE  FALSE
  <2>1. \A j \in k..k + 1 : p[j] \in Characters
    BY <1>1
  <2>2. /\ SubSeq(p, k, k + 1) \in Seq(Characters)
        /\ Len(SubSeq(p, k, k + 1)) = 2
        /\ \A j \in 1..2 : SubSeq(p, k, k + 1)[j] = p[k + j - 1]
    BY <1>1, <2>1, SubSeqProperties
  <2>3. SubSeq(p, k, k + 1)[1] = Dot /\ SubSeq(p, k, k + 1)[2] = Dot
    BY <1>3, <2>2
  <2>4. <<Dot, Dot>> \in Seq(Characters) /\ Len(<<Dot, Dot>>) = 2
    BY DEF Characters, Dot
  <2>5. SubSeq(p, k, k + 1) = <<Dot, Dot>>
    <3>1. \A j \in 1..2 : SubSeq(p, k, k + 1)[j] = <<Dot, Dot>>[j]
      BY <2>3
    <3> HIDE DEF Dot
    <3> QED BY <2>2, <2>4, <3>1, SeqEqual
  <2>6. k \in 1..(Len(p) - Len(<<Dot, Dot>>) + 1) /\ k + Len(<<Dot, Dot>>) - 1 = k + 1
    BY <1>1, <2>4
  <2>7. Find(p, <<Dot, Dot>>)
    BY <2>5, <2>6 DEF Find
  <2> QED BY <2>7 DEF Acceptable
<1> QED BY <1>2, <1>3 DEF Absolute

\* "index.html" after a slash makes no two adjacent dots.
LEMMA IndexAbsolute ==
  ASSUME NEW p, Absolute(p), p[Len(p)] = Slash
  PROVE  Absolute(p \o IndexHtml)
<1>1. /\ IndexHtml \in Seq(Characters) /\ Len(IndexHtml) = 10
      /\ \A k \in 1..9 : IndexHtml[k] = Dot => IndexHtml[k + 1] # Dot
  BY DEF IndexHtml, Characters, Dot
<1> DEFINE q == p \o IndexHtml
<1>2. p \in Seq(Characters) /\ Len(p) \in Nat /\ Len(p) >= 1
  BY LenProperties DEF Absolute
<1>3. /\ q \in Seq(Characters) /\ Len(q) = Len(p) + 10
      /\ \A k \in 1..Len(p) + 10 : q[k] = IF k <= Len(p) THEN p[k] ELSE IndexHtml[k - Len(p)]
  <2>1. /\ q \in Seq(Characters) /\ Len(q) = Len(p) + Len(IndexHtml)
        /\ \A k \in 1..Len(p) + Len(IndexHtml) :
             q[k] = IF k <= Len(p) THEN p[k] ELSE IndexHtml[k - Len(p)]
    BY <1>1, <1>2, ConcatProperties
  <2> HIDE DEF q
  <2> QED BY <1>1, <2>1
<1> HIDE DEF q
<1>4. ASSUME NEW k \in 1..Len(q) - 1, q[k] = Dot, q[k + 1] = Dot
      PROVE  FALSE
  <2>1. CASE k < Len(p)
    BY <1>2, <1>3, <1>4, <2>1 DEF Absolute
  <2>2. CASE k = Len(p)
    BY <1>2, <1>3, <1>4, <2>2 DEF Dot, Slash
  <2>3. CASE k > Len(p)
    <3>0. Len(q) = Len(p) + 10
      BY <1>3
    <3>1. k - Len(p) \in 1..9 /\ (k + 1) - Len(p) = (k - Len(p)) + 1
      BY <1>2, <2>3, <3>0
    <3>2. q[k] = IndexHtml[k - Len(p)] /\ q[k + 1] = IndexHtml[(k - Len(p)) + 1]
      BY <1>2, <1>3, <2>3, <3>1
    <3> QED BY <1>1, <1>4, <3>1, <3>2
  <2> QED BY <1>2, <1>3, <2>1, <2>2, <2>3
<1>5. Len(q) >= 1 /\ q[1] = Slash
  BY <1>2, <1>3 DEF Absolute
<1>6. Absolute(q)
  BY <1>3, <1>4, <1>5 DEF Absolute
<1> QED BY <1>6 DEF q

\* A path cut short stays one, as long as its slash is left.
LEMMA PrefixAbsolute ==
  ASSUME NEW p, Absolute(p), NEW m \in 1..Len(p)
  PROVE  Absolute(SubSeq(p, 1, m))
<1>1. /\ p \in Seq(Characters) /\ Len(p) \in Nat
      /\ \A k \in 1..Len(p) : p[k] \in Characters
  BY LenProperties, ElementOfSeq DEF Absolute
<1>2. m \in Int /\ 1 \in Int /\ \A k \in 1..m : p[k] \in Characters
  BY <1>1
<1>3. /\ SubSeq(p, 1, m) \in Seq(Characters) /\ Len(SubSeq(p, 1, m)) = m
      /\ \A k \in 1..m : SubSeq(p, 1, m)[k] = p[k]
  BY <1>1, <1>2, SubSeqProperties
<1> QED BY <1>1, <1>3 DEF Absolute

\* The name given to the file system: the path up to its first zero character,
\* which is not its first.
LEMMA OpenedAbsolute ==
  ASSUME Absolute(request_path)
  PROVE  Absolute(Opened)
<1> DEFINE zeros == {k \in 1..Len(request_path) : request_path[k] = 0}
           zero == SelectInSeq(request_path, LAMBDA c : c = 0)
<1>1. Len(request_path) \in Nat
  BY LenProperties DEF Absolute
<1>2. zero = IF zeros # {} THEN Min(zeros) ELSE 0
  BY DEF SelectInSeq
<1>3. CASE zeros = {}
  BY <1>2, <1>3 DEF Opened
<1>4. CASE zeros # {}
  <2>1. zeros \in SUBSET Nat
    BY <1>1
  <2>2. \E x \in zeros : \A y \in zeros : x <= y
    BY <1>4, <2>1, LeastNumber
  <2>3. zero \in zeros
    BY <1>2, <1>4, <2>2 DEF Min
  <2>4. zero \in 1..Len(request_path) /\ zero # 1
    BY <2>3 DEF Absolute, Slash
  <2>5. Opened = SubSeq(request_path, 1, zero - 1) /\ zero - 1 \in 1..Len(request_path)
    BY <1>1, <2>4 DEF Opened
  <2> QED BY <2>5, PrefixAbsolute
<1> QED BY <1>3, <1>4

\* Such a path has no component "..".
LEMMA NoParent ==
  ASSUME NEW p, Absolute(p)
  PROVE  <<Dot, Dot>> \notin Components(p)
<1> SUFFICES ASSUME <<Dot, Dot>> \in Components(p) PROVE FALSE
  OBVIOUS
<1>1. /\ p \in Seq(Characters) /\ Len(p) \in Nat /\ DOMAIN p = 1..Len(p)
      /\ \A k \in 1..Len(p) : p[k] \in Characters
  BY LenProperties, ElementOfSeq DEF Absolute
<1>2. PICK a \in 1..Len(p) + 1, b \in 1..Len(p) + 1 : a < b /\ SubSeq(p, a + 1, b - 1) = <<Dot, Dot>>
  <2> DEFINE ends == {k \in DOMAIN p : p[k] = Slash} \cup {Len(p) + 1}
  <2>1. PICK e \in ends \X ends : e[1] < e[2] /\ <<Dot, Dot>> = SubSeq(p, e[1] + 1, e[2] - 1)
    BY Zenon DEF Components
  <2>2. ends \subseteq 1..Len(p) + 1
    BY <1>1
  <2>3. e[1] \in 1..Len(p) + 1 /\ e[2] \in 1..Len(p) + 1
    BY <2>2
  <2> QED BY <2>1, <2>3
<1>3. a + 1 \in Int /\ b - 1 \in Int /\ \A k \in a + 1..b - 1 : p[k] \in Characters
  BY <1>1, <1>2
<1> DEFINE m == a + 1
           n == b - 1
<1>4. /\ Len(SubSeq(p, m, n)) = IF m <= n THEN n - m + 1 ELSE 0
      /\ \A k \in 1..n - m + 1 : SubSeq(p, m, n)[k] = p[m + k - 1]
  <2>1. m \in Int /\ n \in Int /\ \A k \in m..n : p[k] \in Characters
    BY <1>3
  <2> HIDE DEF m, n
  <2> QED BY <2>1, SubSeqProperties
<1>5. SubSeq(p, m, n) = <<Dot, Dot>>
  BY <1>2
<1>6. n - m + 1 = 2
  <2>1. Len(<<Dot, Dot>>) = 2
    OBVIOUS
  <2>2. (IF m <= n THEN n - m + 1 ELSE 0) = 2
    BY <1>4, <1>5, <2>1
  <2> QED BY <2>2
<1>7. p[a + 1] = Dot /\ p[a + 2] = Dot
  <2>1. SubSeq(p, m, n)[1] = p[m + 1 - 1] /\ SubSeq(p, m, n)[2] = p[m + 2 - 1]
    BY <1>4, <1>6
  <2>2. <<Dot, Dot>>[1] = Dot /\ <<Dot, Dot>>[2] = Dot
    OBVIOUS
  <2>3. m + 1 - 1 = a + 1 /\ m + 2 - 1 = a + 2
    OBVIOUS
  <2> QED BY <1>5, <2>1, <2>2, <2>3
<1>8. a + 1 \in 1..Len(p) - 1
  BY <1>1, <1>2, <1>6
<1> QED BY <1>1, <1>7, <1>8 DEF Absolute

-----------------------------------------------------------------------------
(* The inductive invariant.                                                *)

Resolving == step \in {"resolved", "reading"} => Absolute(request_path)

\* The reply is empty until a file is opened, then counts what has been read of
\* it; a reply that is sent has its two headers.
Replying ==
  /\ size \in Nat /\ error \in BOOLEAN
  /\ step \in {"parsed", "resolved"} => rep = reply
  /\ step = "reading" =>
       \E n \in 0..size : rep = [status |-> "ok", headers |-> <<>>, content |-> n]
  /\ step = "sent" =>
       /\ rep.status \in {"ok", "bad_request", "not_found"} /\ rep.content \in Nat
       /\ rep.headers = Headers(rep.content, rep.headers[2].value)

HandlerInv ==
  /\ Typed /\ Decoding /\ Resolving /\ Replying
  /\ RefusedOnlyInvalid /\ WholeFile

\* No character is decoded before the loop starts.
LEMMA HandlerInit ==
  ASSUME Init
  PROVE  HandlerInv
<1>0. uri \in Seq(33..255)
  BY UrisAssumption DEF Init
<1>1. /\ uri \in Seq(Characters) /\ Len(uri) \in Nat /\ DOMAIN uri = 1..Len(uri)
      /\ Escapes(uri) \subseteq 1..Len(uri)
  BY <1>0, UriCharacters, EscapesDefined
<1>2. Typed
  BY <1>0, <1>1, EmptySeq DEF Init, Typed
<1>3. Starts(uri, 1)
  BY <1>1 DEF Starts
<1>4. Before(uri, 1) = {}
  BY <1>1 DEF Before, Units
<1>5. Correct(uri, <<>>, 1)
  BY <1>4, FS_EmptySet DEF Correct
<1>6. Decoding
  BY <1>3, <1>5 DEF Decoding, Init
<1> QED BY <1>2, <1>6 DEF HandlerInv, Init, Resolving, Replying, RefusedOnlyInvalid, WholeFile

\* The stock replies that handle_request sends have their two headers.
LEMMA StockReply ==
  ASSUME NEW status \in {"bad_request", "not_found"}
  PROVE  /\ stock_reply(status).status = status /\ stock_reply(status).content \in Nat
         /\ stock_reply(status).headers
              = Headers(stock_reply(status).content, stock_reply(status).headers[2].value)
<1>1. StockSize["bad_request"] = 89 /\ StockSize["not_found"] = 85
      /\ "bad_request" \in DOMAIN StockSize /\ "not_found" \in DOMAIN StockSize
  BY DEF StockSize
<1>2. Known(status) = status /\ StockSize[status] \in Nat
  BY <1>1 DEF Known
<1> QED BY <1>2 DEF stock_reply, Headers

\* A step of url_decode's loop leaves the reply alone.
LEMMA DecodePreserves ==
  ASSUME HandlerInv, decode_escape \/ decode_char
  PROVE  HandlerInv'
<1>1. Typed' /\ Decoding'
  BY EscapeStep, CharStep DEF HandlerInv
<1>2. step = "parsed" /\ UNCHANGED <<step, uri, size, error, rep>>
  BY DEF decode_escape, decode_char, AtPercent, AtOther
<1> QED BY <1>1, <1>2 DEF HandlerInv, Resolving, Replying, RefusedOnlyInvalid, WholeFile

\* url_decode fails only at an escape that is not two hexadecimal digits.
LEMMA FailPreserves ==
  ASSUME HandlerInv, decode_fails
  PROVE  HandlerInv'
<1>0. /\ uri \in Seq(Characters) /\ Len(uri) \in Nat /\ DOMAIN uri = 1..Len(uri)
      /\ \A k \in 1..Len(uri) : uri[k] \in 33..255
  BY UriCharacters DEF HandlerInv, Typed
<1>1. /\ step = "parsed" /\ i \in 1..Len(uri) /\ uri[i] = Percent /\ EscapeAt(i) = -256
      /\ step' = "sent" /\ rep' = stock_reply("bad_request")
      /\ UNCHANGED <<uri, i, request_path, size, error>>
  BY <1>0 DEF decode_fails, AtPercent, Answer, HandlerInv, Typed
<1>2. i \in Units(uri)
  BY <1>0, <1>1 DEF Units, Starts, HandlerInv, Decoding
<1>3. ~ WellFormed(uri, i)
  <2> SUFFICES ASSUME {i + 1, i + 2} \subseteq 1..Len(uri), IsHex(uri[i + 1]), IsHex(uri[i + 2])
               PROVE  FALSE
    BY <1>0, <1>1 DEF WellFormed
  <2>1. uri[i + 1] \in 33..255 /\ uri[i + 2] \in 33..255
    BY <1>0
  <2>2. EscapeAt(i) = HexValue(uri[i + 1], uri[i + 2])
    BY <1>0, <1>1 DEF EscapeAt
  <2> QED BY <1>1, <2>1, <2>2, HexRange
<1>4. RefusedOnlyInvalid'
  BY <1>1, <1>2, <1>3 DEF RefusedOnlyInvalid
<1>5. Replying' /\ WholeFile'
  BY <1>1, StockReply DEF Replying, WholeFile, HandlerInv
<1> QED BY <1>1, <1>4, <1>5 DEF HandlerInv, Typed, Decoding, Resolving

\* A path is refused because it is not acceptable, and is what the uri encodes.
LEMMA ResolvePreserves ==
  ASSUME HandlerInv, resolve
  PROVE  HandlerInv'
<1>0. /\ step = "parsed" /\ Typed /\ Encodes(uri, request_path)
      /\ UNCHANGED <<uri, i, size, error>>
  BY DecodedEncodes DEF resolve, HandlerInv, Decoded
<1>1. CASE /\ ~Acceptable(request_path) /\ step' = "sent" /\ rep' = stock_reply("bad_request")
           /\ UNCHANGED request_path
  <2>1. RefusedOnlyInvalid'
    BY <1>0, <1>1 DEF RefusedOnlyInvalid
  <2>2. Replying' /\ WholeFile'
    BY <1>0, <1>1, StockReply DEF Replying, WholeFile, HandlerInv
  <2> QED BY <1>0, <1>1, <2>1, <2>2 DEF HandlerInv, Typed, Decoding, Resolving
<1>2. CASE /\ Acceptable(request_path) /\ step' = "resolved" /\ UNCHANGED rep
           /\ request_path' = IF request_path[Len(request_path)] = Slash
                              THEN request_path \o IndexHtml ELSE request_path
  <2>1. Absolute(request_path')
    BY <1>0, <1>2, AcceptableAbsolute, IndexAbsolute DEF Typed
  <2>2. Typed'
    BY <1>0, <1>2, <2>1 DEF Typed, Absolute
  <2>3. Replying'
    BY <1>0, <1>2 DEF Replying, HandlerInv
  <2> QED BY <1>0, <1>2, <2>1, <2>2, <2>3
          DEF HandlerInv, Decoding, Resolving, RefusedOnlyInvalid, WholeFile
<1> QED BY <1>1, <1>2 DEF resolve, Answer

\* A file is opened, or is not found.
LEMMA OpenPreserves ==
  ASSUME HandlerInv, open
  PROVE  HandlerInv'
<1>0. step = "resolved" /\ rep = reply /\ UNCHANGED <<uri, i, request_path, error>>
  BY DEF open, HandlerInv, Replying
<1>1. CASE step' = "sent" /\ rep' = stock_reply("not_found") /\ UNCHANGED size
  <2>1. Replying' /\ WholeFile' /\ RefusedOnlyInvalid'
    BY <1>0, <1>1, StockReply DEF Replying, WholeFile, RefusedOnlyInvalid, HandlerInv
  <2> QED BY <1>0, <1>1, <2>1 DEF HandlerInv, Typed, Decoding, Resolving
<1>2. CASE size' \in FileSizes /\ rep' = [rep EXCEPT !.status = "ok"] /\ step' = "reading"
  <2>1. size' \in Nat
    BY <1>2, SizesAssumption
  <2>2. rep' = [status |-> "ok", headers |-> <<>>, content |-> 0] /\ 0 \in 0..size'
    BY <1>0, <1>2, <2>1 DEF reply
  <2>3. Replying'
    BY <1>0, <1>2, <2>1, <2>2 DEF Replying, HandlerInv
  <2> QED BY <1>0, <1>2, <2>3
          DEF HandlerInv, Typed, Decoding, Resolving, WholeFile, RefusedOnlyInvalid
<1> QED BY <1>1, <1>2 DEF open, Answer

\* The loop reads no more than there is.
LEMMA ReadPreserves ==
  ASSUME HandlerInv, read
  PROVE  HandlerInv'
<1>0. step = "reading" /\ UNCHANGED <<step, uri, i, request_path, size>>
  BY DEF read
<1>1. PICK n \in 0..size : rep = [status |-> "ok", headers |-> <<>>, content |-> n]
  BY <1>0 DEF HandlerInv, Replying
<1>2. CASE rep' = [rep EXCEPT !.content = @ + Gcount(size - @)] /\ UNCHANGED error
  <2>1. n + Gcount(size - n) \in 0..size
    BY SizesAssumption DEF Gcount, HandlerInv, Replying
  <2>2. rep' = [status |-> "ok", headers |-> <<>>, content |-> n + Gcount(size - n)]
    BY <1>1, <1>2
  <2>3. Replying'
    BY <1>0, <1>2, <2>1, <2>2 DEF Replying, HandlerInv
  <2> QED BY <1>0, <2>3 DEF HandlerInv, Typed, Decoding, Resolving, WholeFile, RefusedOnlyInvalid
<1>3. CASE error' = TRUE /\ UNCHANGED rep
  BY <1>0, <1>3
     DEF HandlerInv, Typed, Decoding, Resolving, Replying, WholeFile, RefusedOnlyInvalid
<1> QED BY <1>2, <1>3 DEF read

\* The loop ends without an error only when all of the file is in the reply.
LEMMA FillPreserves ==
  ASSUME HandlerInv, fill_headers
  PROVE  HandlerInv'
<1> DEFINE type == extension_to_type(Extension(request_path))
<1>0. /\ step = "reading" /\ step' = "sent" /\ UNCHANGED <<uri, i, request_path, size, error>>
      /\ error \/ Gcount(size - rep.content) = 0
      /\ rep' = [rep EXCEPT !.headers = Headers(rep.content, type)]
  BY DEF fill_headers, Answer
<1> HIDE DEF type
<1>1. PICK n \in 0..size : rep = [status |-> "ok", headers |-> <<>>, content |-> n]
  BY <1>0 DEF HandlerInv, Replying
<1>2. rep' = [status |-> "ok", headers |-> Headers(n, type), content |-> n]
  BY <1>0, <1>1
<1>3. ~ error => n = size
  BY <1>0, <1>1, SizesAssumption DEF Gcount, HandlerInv, Replying
<1>4. Headers(n, type)[2].value = type
  BY DEF Headers
<1>5. n \in Nat
  BY DEF HandlerInv, Replying
<1>6. Replying' /\ WholeFile' /\ RefusedOnlyInvalid'
  BY <1>0, <1>2, <1>3, <1>4, <1>5 DEF Replying, WholeFile, RefusedOnlyInvalid, HandlerInv
<1> QED BY <1>0, <1>6 DEF HandlerInv, Typed, Decoding, Resolving

\* Every step of the handler keeps the invariant.
LEMMA HandlerStep ==
  ASSUME HandlerInv, [Next]_vars
  PROVE  HandlerInv'
<1>1. CASE UNCHANGED vars
  BY <1>1
     DEF vars, HandlerInv, Typed, Decoding, Decoded, Resolving, Replying, WholeFile, RefusedOnlyInvalid
<1> QED BY <1>1, DecodePreserves, FailPreserves, ResolvePreserves, OpenPreserves,
           ReadPreserves, FillPreserves DEF Next

\* The invariant holds of every run of the handler.
LEMMA HandlerInvariant == Spec => []HandlerInv
  BY HandlerInit, HandlerStep, PTL DEF Spec

-----------------------------------------------------------------------------
(* The properties.                                                         *)

\* url_decode inverts the encoding, for uris of any length.
THEOREM DecodesEveryUri == Spec => []DecodesUnits
<1>1. HandlerInv => DecodesUnits
  BY DecodedEncodes DEF HandlerInv, DecodesUnits
<1> QED BY <1>1, HandlerInvariant, PTL

\* A 400 is the answer to an invalid escape or path only.
THEOREM RefusesOnlyInvalid == Spec => []RefusedOnlyInvalid
<1>1. HandlerInv => RefusedOnlyInvalid
  BY DEF HandlerInv
<1> QED BY <1>1, HandlerInvariant, PTL

\* No name that is opened leaves doc_root_.
THEOREM OpensUnderRoot == Spec => []StaysUnderRoot
<1>1. HandlerInv => StaysUnderRoot
  <2> SUFFICES ASSUME HandlerInv, step \in {"resolved", "reading"}
               PROVE  Opened # <<>> /\ Opened[1] = Slash /\ <<Dot, Dot>> \notin Components(Opened)
    BY DEF StaysUnderRoot
  <2>1. Absolute(Opened)
    BY OpenedAbsolute DEF HandlerInv, Resolving
  <2>2. Opened # <<>>
    BY <2>1, EmptySeq DEF Absolute
  <2> QED BY <2>1, <2>2, NoParent DEF Absolute
<1> QED BY <1>1, HandlerInvariant, PTL

\* A file of any size is sent whole, whatever the size of the buffer.
THEOREM SendsWholeFile == Spec => []WholeFile
<1>1. HandlerInv => WholeFile
  BY DEF HandlerInv
<1> QED BY <1>1, HandlerInvariant, PTL

\* The twelve buffers of a reply with two headers, by what each of them is.
LEMMA TwoHeaders ==
  ASSUME NEW r, NEW type, r.headers = Headers(r.content, type)
  PROVE  LET sent == to_buffers(r)
         IN  /\ Len(sent) = 12
             /\ sent[1].is = "status" /\ sent[2] = crlf
             /\ sent[3] = [is |-> "name", of |-> "Content-Length"]
             /\ sent[4].is = "separator" /\ sent[5] = [is |-> "value", of |-> r.content]
             /\ sent[6] = crlf
             /\ sent[7] = [is |-> "name", of |-> "Content-Type"]
             /\ sent[8].is = "separator" /\ sent[9].is = "value" /\ sent[10] = crlf
             /\ sent[11] = crlf /\ sent[12] = [is |-> "content", of |-> r.content]
<1> DEFINE first == <<[is |-> "status", of |-> Known(r.status)], crlf>>
           middle == AllHeaderBuffers(r.headers)
           last == <<crlf, [is |-> "content", of |-> r.content]>>
           one == HeaderBuffers(r.headers[1])
           two == HeaderBuffers(r.headers[2])
           S == {first[1], crlf, last[2]} \cup {middle[k] : k \in 1..8}
<1>1. /\ Len(r.headers) = 2
      /\ r.headers[1] = [name |-> "Content-Length", value |-> r.content]
      /\ r.headers[2] = [name |-> "Content-Type", value |-> type]
  BY DEF Headers
<1>2. /\ one = <<[is |-> "name", of |-> "Content-Length"], [is |-> "separator", of |-> 2],
                 [is |-> "value", of |-> r.content], crlf>>
      /\ two = <<[is |-> "name", of |-> "Content-Type"], [is |-> "separator", of |-> 2],
                 [is |-> "value", of |-> type], crlf>>
  BY <1>1 DEF HeaderBuffers
<1>3. middle = [k \in 1..8 |-> HeaderBuffers(r.headers[(k + 3) \div 4])[((k - 1) % 4) + 1]]
  <2>1. 4 * Len(r.headers) = 8
    BY <1>1
  <2> QED BY <2>1, Zenon DEF AllHeaderBuffers
<1>4. /\ \A k \in 1..4 : (k + 3) \div 4 = 1 /\ ((k - 1) % 4) + 1 = k
      /\ \A k \in 5..8 : (k + 3) \div 4 = 2 /\ ((k - 1) % 4) + 1 = k - 4
  OBVIOUS
<1>5. /\ \A k \in 1..4 : middle[k] = one[k]
      /\ \A k \in 5..8 : middle[k] = two[k - 4]
  <2> HIDE DEF middle
  <2>1. \A k \in 1..8 : middle[k] = HeaderBuffers(r.headers[(k + 3) \div 4])[((k - 1) % 4) + 1]
    BY <1>3
  <2> QED BY <1>4, <2>1
<1>6. first \in Seq(S) /\ Len(first) = 2 /\ last \in Seq(S) /\ Len(last) = 2
  OBVIOUS
<1>7. middle \in Seq(S) /\ Len(middle) = 8
  <2>1. middle \in [1..8 -> S]
    BY <1>3
  <2> HIDE DEF middle, S
  <2>2. 8 \in Nat
    OBVIOUS
  <2>3. middle \in UNION {[1..n -> S] : n \in Nat}
    BY <2>1, <2>2, Zenon
  <2>4. middle \in Seq(S)
    BY <2>3, SeqDef, Zenon
  <2> QED BY <2>1, <2>4, LenProperties
<1> DEFINE head == first \o middle
           sent == head \o last
<1>8. /\ head \in Seq(S) /\ Len(head) = 10
      /\ \A k \in 1..10 : head[k] = IF k <= 2 THEN first[k] ELSE middle[k - 2]
  <2> HIDE DEF first, middle, S
  <2>1. /\ head \in Seq(S) /\ Len(head) = Len(first) + Len(middle)
        /\ \A k \in 1..Len(first) + Len(middle) :
             head[k] = IF k <= Len(first) THEN first[k] ELSE middle[k - Len(first)]
    BY <1>6, <1>7, ConcatProperties
  <2> HIDE DEF head
  <2> QED BY <1>6, <1>7, <2>1
<1>9. /\ Len(sent) = 12
      /\ \A k \in 1..12 : sent[k] = IF k <= 10 THEN head[k] ELSE last[k - 10]
  <2> HIDE DEF head, last, S
  <2>1. /\ Len(sent) = Len(head) + Len(last)
        /\ \A k \in 1..Len(head) + Len(last) :
             sent[k] = IF k <= Len(head) THEN head[k] ELSE last[k - Len(head)]
    BY <1>6, <1>8, ConcatProperties
  <2> HIDE DEF sent
  <2> QED BY <1>6, <1>8, <2>1
<1>10. sent = to_buffers(r)
  BY DEF to_buffers
<1>11. sent[1] = first[1] /\ sent[2] = first[2] /\ sent[11] = last[1] /\ sent[12] = last[2]
  <2> HIDE DEF sent, head, first, last
  <2> QED BY <1>8, <1>9
<1>12. /\ sent[3] = one[1] /\ sent[4] = one[2] /\ sent[5] = one[3] /\ sent[6] = one[4]
       /\ sent[7] = two[1] /\ sent[8] = two[2] /\ sent[9] = two[3] /\ sent[10] = two[4]
  <2> HIDE DEF sent, head, middle, one, two
  <2> QED BY <1>5, <1>8, <1>9
<1> HIDE DEF sent, head, middle
<1> QED BY <1>2, <1>9, <1>10, <1>11, <1>12

\* Every reply's first empty line is followed by its content alone, whose
\* length the Content-Length header says.
THEOREM RepliesFramed == Spec => []ReplyFramed
<1>1. HandlerInv => ReplyFramed
  <2> SUFFICES ASSUME HandlerInv, step = "sent" PROVE ReplyFramed
    BY DEF ReplyFramed
  <2> DEFINE sent == to_buffers(rep)
             blanks == {k \in 2..Len(sent) : sent[k] = crlf /\ sent[k - 1] = crlf}
             lengths == {k \in 3..Len(sent) : sent[k - 2].is = "name" /\ sent[k - 2].of = "Content-Length"}
  <2>1. /\ Len(sent) = 12
        /\ sent[1].is = "status" /\ sent[2] = crlf
        /\ sent[3] = [is |-> "name", of |-> "Content-Length"]
        /\ sent[4].is = "separator" /\ sent[5] = [is |-> "value", of |-> rep.content]
        /\ sent[6] = crlf
        /\ sent[7] = [is |-> "name", of |-> "Content-Type"]
        /\ sent[8].is = "separator" /\ sent[9].is = "value" /\ sent[10] = crlf
        /\ sent[11] = crlf /\ sent[12] = [is |-> "content", of |-> rep.content]
    BY TwoHeaders DEF HandlerInv, Replying
  <2> HIDE DEF sent
  <2>2. crlf.is = "crlf"
    BY DEF crlf
  <2> HIDE DEF crlf
  <2>3. /\ sent[1] # crlf /\ sent[3] # crlf /\ sent[4] # crlf /\ sent[5] # crlf /\ sent[7] # crlf
        /\ sent[8] # crlf /\ sent[9] # crlf /\ sent[12] # crlf
    BY <2>1, <2>2
  <2>4. blanks = {11}
    BY <2>1, <2>3
  <2>5. lengths = {5}
    BY <2>1, <2>2
  <2>6. sent[5].of = sent[12].of
    BY <2>1
  <2> QED BY <2>1, <2>4, <2>5, <2>6 DEF ReplyFramed, sent
<1> QED BY <1>1, HandlerInvariant, PTL
=============================================================================
