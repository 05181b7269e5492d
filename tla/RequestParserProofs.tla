------------------------- MODULE RequestParserProofs -------------------------
(***************************************************************************)
(* What request_parser promises for input of any length, cut into reads of *)
(* any length.                                                             *)
(***************************************************************************)
EXTENDS RequestParser, FiniteSetTheorems, SequenceTheorems, WellFoundedInduction, TLAPS

-----------------------------------------------------------------------------
(* parse, as the characters go by.                                         *)

\* Every non-empty set of numbers has a least element.
LEMMA LeastNumber ==
  ASSUME NEW T \in SUBSET Nat, T # {}
  PROVE  \E x \in T : \A y \in T : x <= y
<1>1. \E x \in T : \A y \in T : ~ (<<y, x>> \in OpToRel(<, Nat))
  BY NatLessThanWellFounded, WFMin
<1>2. \E x \in T : \A y \in T : ~ (y < x)
  BY <1>1 DEF OpToRel
<1> QED BY <1>2

\* The body of parse's loop.
Advance(q, ch) == IF q.result = "indeterminate" THEN consume(q, ch) ELSE q

\* run[k] is the parser after the first k characters of the chunk.
IsRun(run, p, chunk, n) ==
  run = [k \in 0..n |-> IF k = 0 THEN p ELSE Advance(run[k - 1], chunk[k])]

\* There is a run over any number of characters of a chunk.
LEMMA RunExists ==
  ASSUME NEW p, NEW chunk
  PROVE  \A n \in Nat : \E run : IsRun(run, p, chunk, n)
<1> DEFINE T == {n \in Nat : ~ \E run : IsRun(run, p, chunk, n)}
<1> SUFFICES ASSUME T # {} PROVE FALSE
  OBVIOUS
<1>1. PICK n \in T : \A m \in T : n <= m
  BY LeastNumber
<1>2. n # 0
  <2>1. IsRun([k \in 0..0 |-> p], p, chunk, 0)
    BY DEF IsRun
  <2> QED BY <2>1
<1>3. PICK run : IsRun(run, p, chunk, n - 1)
  BY <1>1, <1>2
<1> DEFINE longer == [k \in 0..n |-> IF k = n THEN Advance(run[n - 1], chunk[n]) ELSE run[k]]
<1>4. IsRun(longer, p, chunk, n)
  <2>1. \A k \in 0..n - 1 : run[k] = IF k = 0 THEN p ELSE Advance(run[k - 1], chunk[k])
    BY <1>3 DEF IsRun
  <2>2. \A k \in 0..n : longer[k] = IF k = 0 THEN p ELSE Advance(longer[k - 1], chunk[k])
    BY <1>2, <2>1
  <2> QED BY <2>2 DEF IsRun
<1> QED BY <1>4

\* parse is where the run over the chunk ends.
LEMMA ParseRun ==
  ASSUME NEW S, NEW p, NEW chunk \in Seq(S)
  PROVE  \E run : /\ IsRun(run, p, chunk, Len(chunk))
                  /\ parse(p, chunk) = run[Len(chunk)]
<1> DEFINE after == CHOOSE after : IsRun(after, p, chunk, Len(chunk))
<1>1. Len(chunk) \in Nat
  BY LenProperties
<1>2. IsRun(after, p, chunk, Len(chunk))
  BY <1>1, RunExists
<1>3. parse(p, chunk) = after[Len(chunk)]
  BY DEF parse, IsRun, Advance
<1> QED BY <1>2, <1>3

\* The l characters of a chunk after the m-th.
IsRest(rest, chunk, m, l) == \A k \in 1..l : rest[k] = chunk[m + k]

\* The rest of a run is the run over the rest of the characters.
LEMMA RunsAgree ==
  ASSUME NEW p, NEW chunk, NEW n \in Nat, NEW run, IsRun(run, p, chunk, n),
         NEW rest, NEW m \in Nat, NEW l \in Nat, m + l <= n, NEW tail, IsRun(tail, run[m], rest, l),
         IsRest(rest, chunk, m, l)
  PROVE  \A k \in 0..l : tail[k] = run[m + k]
<1> DEFINE T == {k \in Nat : k <= l /\ tail[k] # run[m + k]}
<1> SUFFICES ASSUME T # {} PROVE FALSE
  OBVIOUS
<1>1. PICK k \in T : \A j \in T : k <= j
  BY LeastNumber
<1>2. /\ \A j \in 0..l : tail[j] = IF j = 0 THEN run[m] ELSE Advance(tail[j - 1], rest[j])
      /\ \A j \in 0..n : run[j] = IF j = 0 THEN p ELSE Advance(run[j - 1], chunk[j])
  BY DEF IsRun
<1>3. k # 0
  BY <1>2
<1>4. k - 1 \in 0..l /\ k - 1 \notin T /\ m + k \in 1..n /\ (m + k) - 1 = m + (k - 1)
  BY <1>1, <1>3
<1>5. tail[k - 1] = run[(m + k) - 1]
  BY <1>4
<1>6. tail[k] = Advance(tail[k - 1], rest[k])
  BY <1>2, <1>3
<1>7. run[m + k] = Advance(run[(m + k) - 1], chunk[m + k])
  BY <1>2, <1>4
<1> QED BY <1>3, <1>5, <1>6, <1>7 DEF IsRest

\* How the input is cut into reads does not matter: parsing it in two pieces
\* is parsing it in one, also when the first piece settles the result.
THEOREM ParseInPieces ==
  ASSUME NEW S, NEW p, NEW a \in Seq(S), NEW b \in Seq(S)
  PROVE  parse(parse(p, a), b) = parse(p, a \o b)
<1> DEFINE ab == a \o b
           n == Len(ab)
<1>1. /\ Len(a) \in Nat /\ Len(b) \in Nat /\ ab \in Seq(S) /\ n = Len(a) + Len(b)
      /\ 0 \in Nat /\ n \in Nat /\ 0 + Len(a) <= n /\ Len(a) + Len(b) <= n
      /\ IsRest(a, ab, 0, Len(a)) /\ IsRest(b, ab, Len(a), Len(b))
  BY LenProperties, ConcatProperties DEF IsRest
<1> HIDE DEF ab
<1>2. PICK run : IsRun(run, p, ab, n) /\ parse(p, ab) = run[n]
  BY <1>1, ParseRun
<1> HIDE DEF n
<1>3. PICK first : IsRun(first, p, a, Len(a)) /\ parse(p, a) = first[Len(a)]
  BY ParseRun
<1>4. PICK second : IsRun(second, parse(p, a), b, Len(b)) /\ parse(parse(p, a), b) = second[Len(b)]
  BY ParseRun
<1>6. run[0] = p
  BY <1>1, <1>2 DEF IsRun
<1>7. first[Len(a)] = run[Len(a)]
  <2>1. IsRun(first, run[0], a, Len(a))
    BY <1>3, <1>6
  <2> DEFINE m == 0
  <2>2. m \in Nat /\ m + Len(a) <= n /\ IsRest(a, ab, m, Len(a)) /\ IsRun(first, run[m], a, Len(a))
    BY <1>1, <2>1
  <2> HIDE DEF m
  <2>3. \A k \in 0..Len(a) : first[k] = run[m + k]
    BY <1>1, <1>2, <2>2, RunsAgree
  <2> QED BY <1>1, <2>3 DEF m
<1>8. second[Len(b)] = run[Len(a) + Len(b)]
  <2>1. IsRun(second, run[Len(a)], b, Len(b))
    BY <1>3, <1>4, <1>7
  <2>2. \A k \in 0..Len(b) : second[k] = run[Len(a) + k]
    BY <1>1, <1>2, <2>1, RunsAgree
  <2> QED BY <1>1, <2>2
<1>9. parse(parse(p, a), b) = parse(p, ab)
  BY <1>1, <1>2, <1>4, <1>8
<1> QED BY <1>9 DEF ab

\* One character is one turn of the loop.
LEMMA ParseOne ==
  ASSUME NEW p, NEW ch
  PROVE  parse(p, <<ch>>) = Advance(p, ch)
<1>1. <<ch>> \in Seq({ch}) /\ Len(<<ch>>) = 1 /\ <<ch>>[1] = ch
  OBVIOUS
<1> DEFINE chunk == <<ch>>
<1> HIDE DEF chunk
<1>2. PICK run : IsRun(run, p, chunk, 1) /\ parse(p, chunk) = run[1]
  BY <1>1, ParseRun DEF chunk
<1>3. run[0] = p /\ run[1] = Advance(run[0], chunk[1])
  BY <1>2 DEF IsRun
<1> QED BY <1>1, <1>2, <1>3 DEF chunk

\* No character leaves the parser as it is.
LEMMA ParseNone ==
  ASSUME NEW p
  PROVE  parse(p, <<>>) = p
<1>1. <<>> \in Seq({}) /\ Len(<<>>) = 0
  OBVIOUS
<1>2. PICK run : IsRun(run, p, <<>>, 0) /\ parse(p, <<>>) = run[0]
  BY <1>1, ParseRun
<1> QED BY <1>2 DEF IsRun

-----------------------------------------------------------------------------
(* The automaton.                                                          *)

\* The states the parser can be in: uri_start is never entered.
RequestLineStates ==
  {"method_start", "method", "uri", "http_version_h", "http_version_t_1", "http_version_t_2",
   "http_version_p", "http_version_slash", "http_version_major_start", "http_version_major",
   "http_version_minor_start", "http_version_minor", "expecting_newline_1"}
HeaderStates == {"header_lws", "header_name", "space_before_header_value", "header_value"}
LineStates == {"header_line_start", "expecting_newline_2", "expecting_newline_3"}
States == RequestLineStates \cup HeaderStates \cup LineStates

Results == {"true", "false"}

HeaderFields == [name : Seq(Classes), value : Seq(Classes)]

\* consume only looks at the state and at whether there is a header.
LEMMA NextStates ==
  ASSUME NEW p, p.state \in States, NEW ch
  PROVE  /\ NextState(p, ch) \in States \cup Results
         /\ NextState(p, ch) \in HeaderStates =>
              \/ p.state \in HeaderStates
              \/ p.state = "header_line_start" /\ NextState(p, ch) = "header_lws" /\ p.headers # <<>>
              \/ p.state = "header_line_start" /\ NextState(p, ch) = "header_name"
<1>1. CASE p.state \in RequestLineStates
  <2>1. CASE p.state \in {"method_start", "method", "uri", "http_version_major_start"}
    BY <2>1 DEF NextState, RequestLineStates, HeaderStates, LineStates, States, Results
  <2>2. CASE p.state \in {"http_version_h", "http_version_t_1", "http_version_t_2"}
    BY <2>2 DEF NextState, Literal, RequestLineStates, HeaderStates, LineStates, States, Results
  <2>3. CASE p.state \in {"http_version_p", "http_version_slash", "expecting_newline_1"}
    BY <2>3 DEF NextState, Literal, RequestLineStates, HeaderStates, LineStates, States, Results
  <2>4. CASE p.state \in {"http_version_major", "http_version_minor_start", "http_version_minor"}
    BY <2>4 DEF NextState, RequestLineStates, HeaderStates, LineStates, States, Results
  <2> QED BY <1>1, <2>1, <2>2, <2>3, <2>4 DEF RequestLineStates
<1>2. CASE p.state \in HeaderStates
  BY <1>2 DEF NextState, Literal, RequestLineStates, HeaderStates, LineStates, States, Results
<1>3. CASE p.state \in LineStates
  BY <1>3 DEF NextState, Literal, Folds, RequestLineStates, HeaderStates, LineStates, States, Results
<1> QED BY <1>1, <1>2, <1>3 DEF States

\* The fields of the request that consume may call back() on.
ParserInv(p) ==
  /\ p.state \in States /\ p.result \in {"indeterminate"} \cup Results
  /\ p.headers \in Seq(HeaderFields)
  /\ p.state \in HeaderStates => p.headers # <<>>

\* push_back on a field of the last header.
LEMMA PushBackTyped ==
  ASSUME NEW headers \in Seq(HeaderFields), headers # <<>>, NEW ch \in Classes,
         NEW field \in {"name", "value"}
  PROVE  PushBack(headers, field, ch) \in Seq(HeaderFields) /\ PushBack(headers, field, ch) # <<>>
<1> DEFINE n == Len(headers)
           last == [headers[n] EXCEPT ![field] = Append(@, ch)]
<1>1. n \in Nat \ {0} /\ n \in 1..Len(headers)
  BY EmptySeq
<1>2. headers[n] \in HeaderFields
  BY <1>1, ElementOfSeq
<1>3. last \in HeaderFields
  <2>1. headers[n][field] \in Seq(Classes)
    BY <1>2 DEF HeaderFields
  <2>2. Append(headers[n][field], ch) \in Seq(Classes)
    BY <2>1, AppendProperties
  <2> QED BY <1>2, <2>2 DEF HeaderFields
<1>4. PushBack(headers, field, ch) = [headers EXCEPT ![n] = last]
  BY DEF PushBack
<1> HIDE DEF n, last
<1>5. /\ PushBack(headers, field, ch) \in Seq(HeaderFields)
      /\ Len(PushBack(headers, field, ch)) = Len(headers)
  BY <1>1, <1>3, <1>4, ExceptSeq
<1> QED BY <1>1, <1>5, EmptySeq DEF n

\* A character keeps the headers well-formed: there is one to append to.
LEMMA ConsumeInv ==
  ASSUME NEW p, ParserInv(p), NEW ch \in Classes
  PROVE  ParserInv(consume(p, ch))
<1> DEFINE n == NextState(p, ch)
           h == PushHeader(p.headers, p.state, n, ch)
<1>1. /\ n \in States \cup Results
      /\ n \in HeaderStates =>
           \/ p.state \in HeaderStates
           \/ p.state = "header_line_start" /\ n = "header_lws" /\ p.headers # <<>>
           \/ p.state = "header_line_start" /\ n = "header_name"
  BY NextStates DEF ParserInv
<1>2. /\ consume(p, ch).state = IF n \in Results THEN p.state ELSE n
      /\ consume(p, ch).result = IF n \in Results THEN n ELSE "indeterminate"
      /\ consume(p, ch).headers = h
  BY DEF consume, Results
<1> HIDE DEF n
<1>3. h \in Seq(HeaderFields) /\ (p.headers # <<>> => h # <<>>) /\ (n = "header_name" => h # <<>>)
  <2>1. CASE p.state = "header_line_start" /\ n = "header_name"
    <3>1. [name |-> <<ch>>, value |-> <<>>] \in HeaderFields
      BY DEF HeaderFields
    <3>2. h = Append(p.headers, [name |-> <<ch>>, value |-> <<>>])
      BY <2>1 DEF PushHeader
    <3>3. h \in Seq(HeaderFields) /\ Len(h) = Len(p.headers) + 1 /\ Len(p.headers) \in Nat
      BY <3>1, <3>2, AppendProperties, LenProperties DEF ParserInv
    <3> QED BY <3>3, EmptySeq
  <2>2. CASE p.state \in HeaderStates
    <3>1. p.headers # <<>> /\ p.headers \in Seq(HeaderFields)
      BY <2>2 DEF ParserInv
    <3>2. h = p.headers \/ \E field \in {"name", "value"} : h = PushBack(p.headers, field, ch)
      BY <2>2 DEF PushHeader, HeaderStates
    <3> QED BY <3>1, <3>2, PushBackTyped
  <2>3. CASE p.state \notin HeaderStates /\ ~ (p.state = "header_line_start" /\ n = "header_name")
    BY <1>1, <2>3 DEF PushHeader, ParserInv, HeaderStates
  <2> QED BY <2>1, <2>2, <2>3
<1> HIDE DEF h
<1>4. consume(p, ch).state \in HeaderStates => consume(p, ch).headers # <<>>
  BY <1>1, <1>2, <1>3 DEF ParserInv, HeaderStates
<1> QED BY <1>1, <1>2, <1>3, <1>4 DEF ParserInv

\* So does a read.
LEMMA ParseInv ==
  ASSUME NEW p, ParserInv(p), NEW chunk \in Seq(Classes)
  PROVE  ParserInv(parse(p, chunk))
<1>1. PICK run : IsRun(run, p, chunk, Len(chunk)) /\ parse(p, chunk) = run[Len(chunk)]
  BY ParseRun
<1>2. Len(chunk) \in Nat /\ \A k \in 1..Len(chunk) : chunk[k] \in Classes
  BY LenProperties, ElementOfSeq
<1>3. \A k \in 0..Len(chunk) : run[k] = IF k = 0 THEN p ELSE Advance(run[k - 1], chunk[k])
  BY <1>1 DEF IsRun
<1> DEFINE T == {k \in Nat : k <= Len(chunk) /\ ~ ParserInv(run[k])}
<1>4. T = {}
  <2> SUFFICES ASSUME T # {} PROVE FALSE
    OBVIOUS
  <2>1. PICK k \in T : \A j \in T : k <= j
    BY LeastNumber
  <2>2. k # 0
    BY <1>2, <1>3
  <2>3. ParserInv(run[k - 1]) /\ run[k] = Advance(run[k - 1], chunk[k]) /\ chunk[k] \in Classes
    BY <1>2, <1>3, <2>1, <2>2
  <2> QED BY <2>3, ConsumeInv DEF Advance
<1> QED BY <1>1, <1>2, <1>4

\* Each read delivers some characters of the alphabet.
LEMMA ChunkClasses ==
  ASSUME NEW chunk \in Chunks
  PROVE  chunk \in Seq(Classes)
<1>1. PICK n \in 1..MaxChunk : chunk \in [1..n -> Alphabet]
  BY DEF Chunks
<1>2. n \in Nat /\ chunk \in [1..n -> Classes]
  BY <1>1, AlphabetAssumption, BoundsAssumption
<1>3. chunk \in UNION {[1..m -> Classes] : m \in Nat}
  BY <1>2, Zenon
<1> QED BY <1>3, SeqDef, Zenon

\* The parser's invariant holds after every read.
LEMMA ParserInvariant == Spec => []ParserInv(parser)
<1>1. Init => ParserInv(parser)
  BY DEF Init, request_parser, ParserInv, States, RequestLineStates, HeaderStates, LineStates
<1>2. ParserInv(parser) /\ [Next]_vars => ParserInv(parser)'
  <2>1. ASSUME ParserInv(parser), NEW chunk \in Chunks, handle_read(chunk)
        PROVE  ParserInv(parser)'
    BY <2>1, ChunkClasses, ParseInv DEF handle_read
  <2>2. ASSUME ParserInv(parser), UNCHANGED vars
        PROVE  ParserInv(parser)'
    BY <2>2 DEF vars
  <2> QED BY <2>1, <2>2 DEF Next
<1> QED BY <1>1, <1>2, PTL DEF Spec

\* consume never calls back() on an empty list of headers, whatever the input
\* and its pieces: each of its states that appends to a header is reached
\* through one that has added it.
THEOREM AppendsToHeader == Spec => []HeaderToAppendTo
<1>1. ParserInv(parser) => HeaderToAppendTo
  BY DEF ParserInv, HeaderToAppendTo, HeaderStates
<1> QED BY <1>1, ParserInvariant, PTL

-----------------------------------------------------------------------------
(* A way to the end of the request from everywhere.                        *)

\* The states the parser may be in before the k-th character of Example.
At ==
  << {"method_start"}, {"method"}, {"uri"}, {"http_version_h"}, {"http_version_t_1"},
     {"http_version_t_2"}, {"http_version_p"}, {"http_version_slash"}, {"http_version_major_start"},
     {"http_version_major"}, {"http_version_minor_start"}, {"http_version_minor"},
     {"expecting_newline_1"}, {"header_line_start"}, {"header_name"}, {"space_before_header_value"},
     {"header_value", "header_lws"}, {"expecting_newline_2"}, {"header_line_start"},
     {"expecting_newline_3"}, {"true"} >>

\* Each character of Example takes the parser on.
LEMMA ExampleStep ==
  ASSUME NEW p, NEW k \in 1..20, p.state \in At[k]
  PROVE  NextState(p, Example[k]) \in At[k + 1]
<1>1. CASE k \in 1..3
  BY <1>1 DEF At, Example, NextState, Token, is_char, is_ctl, is_tspecial
<1>2. CASE k \in 4..8
  BY <1>2 DEF At, Example, NextState, Literal
<1>3. CASE k \in 9..13
  BY <1>3 DEF At, Example, NextState, Literal, is_digit
<1>4. CASE k \in 14..16
  BY <1>4 DEF At, Example, NextState, Literal, Folds, Token, is_char, is_ctl, is_tspecial
<1>5. CASE k \in 17..20
  BY <1>5 DEF At, Example, NextState, Literal
<1> QED BY <1>1, <1>2, <1>3, <1>4, <1>5

\* Every state has its place.
LEMMA PlaceOf ==
  ASSUME NEW s \in States
  PROVE  Place[s] \in 1..20 /\ s \in At[Place[s]]
<1>1. CASE s \in RequestLineStates
  BY <1>1 DEF RequestLineStates, Place, At
<1>2. CASE s \in HeaderStates \cup LineStates
  BY <1>2 DEF HeaderStates, LineStates, Place, At
<1> QED BY <1>1, <1>2 DEF States

\* From every state the rest of Example completes the request.
LEMMA Finishes ==
  ASSUME NEW p, p.state \in States, p.result = "indeterminate"
  PROVE  parse(p, Completion(p.state)).result = "true"
<1> DEFINE at == Place[p.state]
           chunk == SubSeq(Example, at, 20)
           n == 21 - at
<1>1. at \in 1..20 /\ p.state \in At[at]
  BY PlaceOf
<1>2. Example \in Seq(Classes) /\ Len(Example) = 20
  BY DEF Example, Classes
<1> HIDE DEF at
<1>3. /\ chunk \in Seq(Classes) /\ Len(chunk) = n
      /\ \A j \in 1..n : chunk[j] = Example[at + j - 1]
  <2>1. \A j \in at..20 : Example[j] \in Classes
    <3>1. \A j \in 1..Len(Example) : Example[j] \in Classes
      BY <1>2, ElementOfSeq
    <3> QED BY <1>1, <1>2, <3>1
  <2>2. at \in Int /\ 20 \in Int /\ at <= 20 /\ 20 - at + 1 = n
    BY <1>1
  <2> QED BY <2>1, <2>2, SubSeqProperties
<1>4. Completion(p.state) = chunk
  BY <1>2 DEF Completion, at
<1> HIDE DEF chunk
<1>5. PICK run : IsRun(run, p, chunk, n) /\ parse(p, chunk) = run[n]
  BY <1>3, ParseRun
<1>6. \A j \in 0..n : run[j] = IF j = 0 THEN p ELSE Advance(run[j - 1], chunk[j])
  BY <1>5 DEF IsRun
<1>7. ASSUME NEW j \in 1..n, run[j - 1].result = "indeterminate", run[j - 1].state \in At[at + j - 1]
      PROVE  LET next == NextState(run[j - 1], chunk[j])
             IN  /\ next \in At[at + j]
                 /\ run[j].result = IF next \in Results THEN next ELSE "indeterminate"
                 /\ next \notin Results => run[j].state = next
  <2>1. at + j - 1 \in 1..20 /\ (at + j - 1) + 1 = at + j
    BY <1>1
  <2>2. NextState(run[j - 1], chunk[j]) \in At[at + j]
    BY <1>3, <1>7, <2>1, ExampleStep
  <2>3. run[j] = consume(run[j - 1], chunk[j])
    BY <1>1, <1>6, <1>7 DEF Advance
  <2> QED BY <2>2, <2>3 DEF consume, Results
<1>8. \A k \in 2..20 : At[k] \cap Results = {}
  BY DEF At, Results
<1> DEFINE T == {j \in Nat : j < n /\ ~ (run[j].result = "indeterminate" /\ run[j].state \in At[at + j])}
<1>9. T = {}
  <2> SUFFICES ASSUME T # {} PROVE FALSE
    OBVIOUS
  <2>1. PICK j \in T : \A k \in T : j <= k
    BY LeastNumber
  <2>2. j # 0
    BY <1>1, <1>6
  <2>3. j \in 1..n /\ j - 1 \in Nat /\ j - 1 < n /\ at + (j - 1) = at + j - 1 /\ at + j \in 2..20
    BY <1>1, <2>2
  <2>4. run[j - 1].result = "indeterminate" /\ run[j - 1].state \in At[at + j - 1]
    BY <2>1, <2>3
  <2>5. NextState(run[j - 1], chunk[j]) \notin Results
    BY <1>7, <1>8, <2>3, <2>4
  <2> QED BY <1>7, <2>3, <2>4, <2>5
<1>10. run[n - 1].result = "indeterminate" /\ run[n - 1].state \in At[at + n - 1]
  <2>1. n - 1 \in Nat /\ n - 1 < n /\ at + (n - 1) = at + n - 1
    BY <1>1
  <2> QED BY <1>9, <2>1
<1>11. n \in 1..n /\ at + n = 21 /\ At[21] = {"true"}
  BY <1>1 DEF At
<1>12. run[n].result = "true"
  BY <1>7, <1>10, <1>11 DEF Results
<1> QED BY <1>4, <1>5, <1>12

\* A parser that asks for more data can still be given a complete request.
THEOREM MoreDataCompletes == Spec => []CanFinish
<1>1. ParserInv(parser) => CanFinish
  BY Finishes DEF ParserInv, CanFinish
<1> QED BY <1>1, ParserInvariant, PTL

-----------------------------------------------------------------------------
(* Version numbers.                                                        *)

IsNines(value, n) == value = [k \in 0..n |-> IF k = 0 THEN 0 ELSE 10 * value[k - 1] + 9]

\* Nines is well defined.
LEMMA NinesExist == \A n \in Nat : \E value : IsNines(value, n)
<1> DEFINE T == {n \in Nat : ~ \E value : IsNines(value, n)}
<1> SUFFICES ASSUME T # {} PROVE FALSE
  OBVIOUS
<1>1. PICK n \in T : \A m \in T : n <= m
  BY LeastNumber
<1>2. n # 0
  <2>1. IsNines([k \in 0..0 |-> 0], 0)
    BY DEF IsNines
  <2> QED BY <2>1
<1>3. PICK value : IsNines(value, n - 1)
  BY <1>1, <1>2
<1> DEFINE longer == [k \in 0..n |-> IF k = n THEN 10 * value[n - 1] + 9 ELSE value[k]]
<1>4. IsNines(longer, n)
  <2>1. \A k \in 0..n - 1 : value[k] = IF k = 0 THEN 0 ELSE 10 * value[k - 1] + 9
    BY <1>3 DEF IsNines
  <2>2. \A k \in 0..n : longer[k] = IF k = 0 THEN 0 ELSE 10 * longer[k - 1] + 9
    BY <1>2, <2>1
  <2> QED BY <2>2 DEF IsNines
<1> QED BY <1>4

\* Nines(n) is the last of such a sequence of numbers.
LEMMA NinesValue ==
  ASSUME NEW n \in Nat
  PROVE  \E value : IsNines(value, n) /\ Nines(n) = value[n]
<1> DEFINE value == CHOOSE value : IsNines(value, n)
<1>1. IsNines(value, n)
  BY NinesExist
<1>2. Nines(n) = value[n]
  BY DEF Nines, IsNines
<1> QED BY <1>1, <1>2

\* Two such sequences agree as far as both go.
LEMMA NinesAgree ==
  ASSUME NEW n \in Nat, NEW m \in Nat, n <= m, NEW v, NEW w, IsNines(v, n), IsNines(w, m)
  PROVE  \A k \in 0..n : v[k] = w[k] /\ v[k] \in Nat
<1> DEFINE T == {k \in Nat : k <= n /\ ~ (v[k] = w[k] /\ v[k] \in Nat)}
<1> SUFFICES ASSUME T # {} PROVE FALSE
  OBVIOUS
<1>1. PICK k \in T : \A j \in T : k <= j
  BY LeastNumber
<1>2. /\ \A j \in 0..n : v[j] = IF j = 0 THEN 0 ELSE 10 * v[j - 1] + 9
      /\ \A j \in 0..m : w[j] = IF j = 0 THEN 0 ELSE 10 * w[j - 1] + 9
  BY DEF IsNines
<1>3. k # 0
  BY <1>2
<1>4. v[k - 1] = w[k - 1] /\ v[k - 1] \in Nat
  BY <1>1, <1>3
<1>5. v[k] = 10 * v[k - 1] + 9 /\ w[k] = 10 * w[k - 1] + 9
  BY <1>2, <1>3
<1> QED BY <1>4, <1>5

\* One more nine.
LEMMA NinesStep ==
  ASSUME NEW n \in Nat
  PROVE  Nines(0) = 0 /\ Nines(n) \in Nat /\ Nines(n + 1) = 10 * Nines(n) + 9
<1>1. PICK v : IsNines(v, n) /\ Nines(n) = v[n]
  BY NinesValue
<1>2. PICK w : IsNines(w, n + 1) /\ Nines(n + 1) = w[n + 1]
  BY NinesValue
<1>3. v[n] = w[n] /\ v[n] \in Nat
  BY <1>1, <1>2, NinesAgree
<1>4. w[n + 1] = 10 * w[n] + 9
  BY <1>2 DEF IsNines
<1>5. Nines(0) = 0
  <2>1. PICK z : IsNines(z, 0) /\ Nines(0) = z[0]
    BY NinesValue
  <2> QED BY <2>1 DEF IsNines
<1> QED BY <1>1, <1>2, <1>3, <1>4, <1>5

\* The value of the digits so far, as far as an int can hold it.
Holds(n, v) == v \in Int /\ (Nines(n) + 48 <= IntMax => v = Nines(n))

\* PushDigit adds a digit to it.
LEMMA PushDigitHolds ==
  ASSUME NEW n \in Nat, NEW v, Holds(n, v)
  PROVE  Holds(n + 1, PushDigit(v))
<1>1. IntMax \in Nat
  BY BoundsAssumption
<1>2. Nines(n) \in Nat /\ Nines(n + 1) = 10 * Nines(n) + 9
  BY NinesStep
<1> DEFINE value == Nines(n)
<1> HIDE DEF value
<1> QED BY <1>1, <1>2 DEF Holds, PushDigit, Undefined, value

-----------------------------------------------------------------------------
(* The lines of the input, as it grows.                                    *)

\* A non-empty set of numbers up to n has a greatest element.
LEMMA GreatestNumber ==
  ASSUME NEW n \in Nat, NEW T \in SUBSET (0..n), T # {}
  PROVE  \E x \in T : \A y \in T : x >= y
<1> DEFINE U == {n - x : x \in T}
<1>1. U \in SUBSET Nat /\ U # {}
  <2>1. \A x \in T : n - x \in Nat
    OBVIOUS
  <2>2. U \in SUBSET Nat
    BY <2>1
  <2>3. PICK x : x \in T
    OBVIOUS
  <2>4. n - x \in U
    BY <2>3
  <2> QED BY <2>2, <2>4
<1>2. PICK u \in U : \A v \in U : u <= v
  BY <1>1, LeastNumber
<1>3. PICK x \in T : u = n - x
  OBVIOUS
<1>4. ASSUME NEW y \in T PROVE x >= y
  <2>1. n - y \in U
    OBVIOUS
  <2>2. n - x <= n - y
    BY <1>2, <1>3, <2>1
  <2> QED BY <2>2
<1> QED BY <1>4

\* What a slice of the input is made of.
LEMMA SliceTyped ==
  ASSUME NEW S, NEW s \in Seq(S), NEW a \in Nat \ {0}, NEW b \in Int, b <= Len(s)
  PROVE  /\ SubSeq(s, a, b) \in Seq(S)
         /\ Len(SubSeq(s, a, b)) = IF a <= b THEN b - a + 1 ELSE 0
         /\ \A k \in 1..b - a + 1 : SubSeq(s, a, b)[k] = s[a + k - 1]
<1>1. Len(s) \in Nat /\ \A k \in 1..Len(s) : s[k] \in S
  BY LenProperties, ElementOfSeq
<1>2. a \in Int /\ \A k \in a..b : s[k] \in S
  BY <1>1
<1> QED BY <1>2, SubSeqProperties

\* A slice of the input stays what it is when a character arrives.
LEMMA SliceKept ==
  ASSUME NEW S, NEW s \in Seq(S), NEW x \in S, NEW a \in Nat \ {0}, NEW b \in Int, b <= Len(s)
  PROVE  SubSeq(Append(s, x), a, b) = SubSeq(s, a, b)
<1> DEFINE t == Append(s, x)
<1>1. /\ Len(s) \in Nat /\ t \in Seq(S) /\ Len(t) = Len(s) + 1
      /\ \A k \in 1..Len(s) : t[k] = s[k]
  BY LenProperties, AppendProperties
<1> HIDE DEF t
<1>2. /\ SubSeq(s, a, b) \in Seq(S)
      /\ Len(SubSeq(s, a, b)) = IF a <= b THEN b - a + 1 ELSE 0
      /\ \A k \in 1..b - a + 1 : SubSeq(s, a, b)[k] = s[a + k - 1]
  BY SliceTyped
<1>3. /\ SubSeq(t, a, b) \in Seq(S)
      /\ Len(SubSeq(t, a, b)) = IF a <= b THEN b - a + 1 ELSE 0
      /\ \A k \in 1..b - a + 1 : SubSeq(t, a, b)[k] = t[a + k - 1]
  <2>1. b <= Len(t)
    BY <1>1
  <2> QED BY <1>1, <2>1, SliceTyped
<1>4. ASSUME NEW k \in 1..Len(SubSeq(s, a, b)) PROVE SubSeq(s, a, b)[k] = SubSeq(t, a, b)[k]
  <2>1. k \in 1..b - a + 1 /\ a + k - 1 \in 1..Len(s)
    BY <1>1, <1>2
  <2> QED BY <1>1, <1>2, <1>3, <2>1
<1>5. SubSeq(s, a, b) = SubSeq(t, a, b)
  BY <1>2, <1>3, <1>4, SeqEqual
<1> QED BY <1>5 DEF t

\* The last slice grows by it.
LEMMA SliceGrows ==
  ASSUME NEW S, NEW s \in Seq(S), NEW x \in S, NEW a \in 1..Len(s) + 1
  PROVE  SubSeq(Append(s, x), a, Len(s) + 1) = Append(SubSeq(s, a, Len(s)), x)
<1> DEFINE t == Append(s, x)
           n == Len(s)
           old == SubSeq(s, a, n)
           new == SubSeq(t, a, n + 1)
<1>1. /\ n \in Nat /\ t \in Seq(S) /\ Len(t) = n + 1
      /\ \A k \in 1..n : t[k] = s[k]
      /\ t[n + 1] = x
  BY LenProperties, AppendProperties
<1>2. /\ old \in Seq(S) /\ Len(old) = n - a + 1
      /\ \A k \in 1..n - a + 1 : old[k] = s[a + k - 1]
  <2>1. a \in Nat \ {0} /\ n \in Int /\ n <= Len(s) /\ (IF a <= n THEN n - a + 1 ELSE 0) = n - a + 1
    BY <1>1
  <2> HIDE DEF n
  <2> QED BY <2>1, SliceTyped
<1> HIDE DEF t
<1>3. /\ new \in Seq(S) /\ Len(new) = n - a + 2
      /\ \A k \in 1..n - a + 2 : new[k] = t[a + k - 1]
  <2>1. /\ a \in Nat \ {0} /\ n + 1 \in Int /\ n + 1 <= Len(t)
        /\ (IF a <= n + 1 THEN n + 1 - a + 1 ELSE 0) = n - a + 2 /\ n + 1 - a + 1 = n - a + 2
    BY <1>1
  <2> HIDE DEF n
  <2> QED BY <1>1, <2>1, SliceTyped
<1> HIDE DEF n, old, new
<1>4. /\ Append(old, x) \in Seq(S) /\ Len(Append(old, x)) = n - a + 2
      /\ \A k \in 1..n - a + 1 : Append(old, x)[k] = old[k]
      /\ Append(old, x)[n - a + 2] = x
  <2>1. /\ Append(old, x) \in Seq(S) /\ Len(Append(old, x)) = Len(old) + 1
        /\ \A k \in 1..Len(old) : Append(old, x)[k] = old[k]
        /\ Append(old, x)[Len(old) + 1] = x
    BY <1>2, AppendProperties
  <2>2. Len(old) + 1 = n - a + 2
    BY <1>1, <1>2
  <2> QED BY <1>2, <2>1, <2>2
<1>5. ASSUME NEW k \in 1..n - a + 2 PROVE new[k] = Append(old, x)[k]
  <2>0. a \in 1..n + 1
    BY DEF n
  <2>1. CASE k = n - a + 2
    <3>1. a + k - 1 = n + 1
      BY <1>1, <2>0, <2>1
    <3> QED BY <1>1, <1>3, <1>4, <2>1, <3>1
  <2>2. CASE k # n - a + 2
    <3>1. k \in 1..n - a + 1 /\ a + k - 1 \in 1..n
      BY <1>1, <2>0, <2>2
    <3> QED BY <1>1, <1>2, <1>3, <1>4, <3>1
  <2> QED BY <2>1, <2>2
<1>6. new = Append(old, x)
  BY <1>3, <1>4, <1>5, SeqEqual
<1> QED BY <1>6 DEF new, old, n, t

Earlier(s, k) == {e \in Ends(s) : e < k}
StartsBefore(s, k) == {1} \cup {j + 2 : j \in Earlier(s, k)}

\* Where the line that is still being read starts, and what has been read of it.
Start(s) == Max(StartsBefore(s, Len(s)))
Current(s) == SubSeq(s, Start(s), Len(s))

\* An end of line is before the last character.
LEMMA EndsTyped ==
  ASSUME NEW s \in Seq(Classes)
  PROVE  Len(s) \in Nat /\ Ends(s) \subseteq 1..Len(s) - 1 /\ IsFiniteSet(Ends(s))
<1>1. Len(s) \in Nat
  BY LenProperties
<1>2. Ends(s) \in SUBSET (1..Len(s) - 1)
  BY <1>1 DEF Ends
<1>3. IsFiniteSet(1..Len(s) - 1)
  BY <1>1, FS_Interval
<1> QED BY <1>1, <1>2, <1>3, FS_Subset

\* Lines start in the input or right after it.
LEMMA StartTyped ==
  ASSUME NEW s \in Seq(Classes), NEW k \in Int
  PROVE  LET m == Max(StartsBefore(s, k))
         IN  m \in 1..Len(s) + 1 /\ m \in StartsBefore(s, k) /\ \A x \in StartsBefore(s, k) : m >= x
<1>1. Len(s) \in Nat /\ Ends(s) \subseteq 1..Len(s) - 1
  BY EndsTyped
<1>2. StartsBefore(s, k) \subseteq 1..Len(s) + 1 /\ 1 \in StartsBefore(s, k)
  BY <1>1 DEF StartsBefore, Earlier
<1>3. \E x \in StartsBefore(s, k) : \A y \in StartsBefore(s, k) : x >= y
  <2>1. StartsBefore(s, k) \in SUBSET (0..Len(s) + 1) /\ StartsBefore(s, k) # {} /\ Len(s) + 1 \in Nat
    BY <1>1, <1>2
  <2> QED BY <2>1, GreatestNumber
<1>4. /\ Max(StartsBefore(s, k)) \in StartsBefore(s, k)
      /\ \A x \in StartsBefore(s, k) : Max(StartsBefore(s, k)) >= x
  BY <1>3 DEF Max
<1> QED BY <1>2, <1>4

\* A character that does not end a line belongs to the current one.
LEMMA SameLine ==
  ASSUME NEW s \in Seq(Classes), NEW ch \in Classes,
         ~ (ch = "LF" /\ s # <<>> /\ s[Len(s)] = "CR")
  PROVE  /\ Ends(Append(s, ch)) = Ends(s)
         /\ Start(Append(s, ch)) = Start(s)
         /\ Current(Append(s, ch)) = Append(Current(s), ch)
<1> DEFINE t == Append(s, ch)
           n == Len(s)
<1>1. /\ n \in Nat /\ Len(t) = n + 1 /\ t[n + 1] = ch
      /\ \A k \in 1..n : t[k] = s[k]
      /\ n # 0 => s # <<>>
  BY AppendProperties, LenProperties, EmptySeq
<1> HIDE DEF t
<1>2. Ends(t) = Ends(s)
  <2> HIDE DEF n
  <2>1. Ends(t) = {k \in 1..n + 1 : t[k] = "CR" /\ k < n + 1 /\ t[k + 1] = "LF"}
    BY <1>1 DEF Ends
  <2>2. Ends(s) = {k \in 1..n : s[k] = "CR" /\ k < n /\ s[k + 1] = "LF"}
    BY DEF Ends, n
  <2>3. ~ (n # 0 /\ ch = "LF" /\ s[n] = "CR")
    BY <1>1 DEF n
  <2>4. \A k \in 1..n : k \in Ends(t) <=> k \in Ends(s)
    BY <1>1, <2>1, <2>2, <2>3
  <2> QED BY <1>1, <2>1, <2>2, <2>4
<1>3. Start(t) = Start(s)
  <2>1. Ends(s) \subseteq 1..n - 1
    BY EndsTyped
  <2>2. Earlier(t, n + 1) = Earlier(s, n)
    BY <1>1, <1>2, <2>1 DEF Earlier
  <2> QED BY <1>1, <2>2 DEF Start, StartsBefore
<1>4. Start(s) \in 1..n + 1
  BY <1>1, StartTyped DEF Start
<1>5. SubSeq(Append(s, ch), Start(s), n + 1) = Append(SubSeq(s, Start(s), n), ch)
  BY <1>4, SliceGrows
<1>6. Current(t) = Append(Current(s), ch)
  BY <1>1, <1>3, <1>5 DEF Current, t
<1> QED BY <1>2, <1>3, <1>6 DEF t

\* The lines that have ended stay what they are.
LEMMA OldLines ==
  ASSUME NEW s \in Seq(Classes), NEW ch \in Classes, NEW k \in Ends(s)
  PROVE  /\ Earlier(Append(s, ch), k) = Earlier(s, k)
         /\ LineTo(Append(s, ch), k) = LineTo(s, k)
<1> DEFINE t == Append(s, ch)
           n == Len(s)
<1>1. /\ n \in Nat /\ Len(t) = n + 1 /\ t[n + 1] = ch
      /\ \A j \in 1..n : t[j] = s[j]
  BY AppendProperties, LenProperties
<1>2. k \in 1..n - 1
  BY EndsTyped
<1> HIDE DEF t, n
<1>3. Earlier(t, k) = Earlier(s, k)
  <2>1. Ends(t) = {j \in 1..n + 1 : t[j] = "CR" /\ j < n + 1 /\ t[j + 1] = "LF"}
    BY <1>1 DEF Ends
  <2>2. Ends(s) = {j \in 1..n : s[j] = "CR" /\ j < n /\ s[j + 1] = "LF"}
    BY DEF Ends, n
  <2>3. \A j \in 1..n - 1 : j \in Ends(t) <=> j \in Ends(s)
    BY <1>1, <2>1, <2>2
  <2> QED BY <1>1, <1>2, <2>1, <2>2, <2>3 DEF Earlier
<1>4. StartsBefore(t, k) = StartsBefore(s, k)
  BY <1>3 DEF StartsBefore
<1> DEFINE m == Max(StartsBefore(s, k))
<1>5. m \in Nat \ {0} /\ k - 1 \in Int /\ k - 1 <= n
  <2>1. m \in 1..n + 1
    BY <1>2, StartTyped DEF n
  <2> QED BY <1>1, <1>2, <2>1
<1> HIDE DEF m
<1>6. SubSeq(t, m, k - 1) = SubSeq(s, m, k - 1)
  BY <1>5, SliceKept DEF t, n
<1>7. LineTo(s, k) = SubSeq(s, m, k - 1) /\ LineTo(t, k) = SubSeq(t, m, k - 1)
  BY <1>4 DEF LineTo, StartsBefore, Earlier, m
<1> QED BY <1>3, <1>6, <1>7 DEF t

\* A CR LF ends the current line.
LEMMA LineEnds ==
  ASSUME NEW s \in Seq(Classes), s # <<>>, s[Len(s)] = "CR"
  PROVE  LET t == Append(s, "LF")
             n == Len(s)
         IN  /\ Ends(t) = Ends(s) \cup {n} /\ n \notin Ends(s)
             /\ Earlier(t, n) = Ends(s)
             /\ LineTo(t, n) = SubSeq(s, Start(s), n - 1)
             /\ Start(t) = n + 2 /\ Current(t) = <<>>
<1> DEFINE t == Append(s, "LF")
           n == Len(s)
<1>0. "LF" \in Classes
  BY DEF Classes
<1>1. /\ n \in Nat \ {0} /\ t \in Seq(Classes) /\ Len(t) = n + 1 /\ t[n + 1] = "LF"
      /\ \A j \in 1..n : t[j] = s[j]
  BY <1>0, AppendProperties, EmptySeq
<1> HIDE DEF t
<1>2. Ends(s) \subseteq 1..n - 1
  BY EndsTyped
<1>3. Ends(t) = Ends(s) \cup {n}
  <2> HIDE DEF n
  <2>1. Ends(t) = {j \in 1..n + 1 : t[j] = "CR" /\ j < n + 1 /\ t[j + 1] = "LF"}
    BY <1>1 DEF Ends
  <2>2. Ends(s) = {j \in 1..n : s[j] = "CR" /\ j < n /\ s[j + 1] = "LF"}
    BY DEF Ends, n
  <2>3. \A j \in 1..n - 1 : j \in Ends(t) <=> j \in Ends(s)
    BY <1>1, <2>1, <2>2
  <2>4. n \in Ends(t)
    BY <1>1, <2>1 DEF n
  <2> QED BY <1>1, <1>2, <2>1, <2>3, <2>4
<1>4. Earlier(t, n) = Ends(s) /\ Earlier(s, n) = Ends(s) /\ Earlier(t, n + 1) = Ends(t)
  BY <1>1, <1>2, <1>3 DEF Earlier
<1>5. LineTo(t, n) = SubSeq(s, Start(s), n - 1)
  <2> DEFINE m == Max(StartsBefore(s, n))
  <2>1. m = Start(s) /\ LineTo(t, n) = SubSeq(t, m, n - 1)
    BY <1>4 DEF LineTo, StartsBefore, Earlier, Start
  <2>2. m \in Nat \ {0} /\ n - 1 \in Int /\ n - 1 <= n
    <3>1. m \in 1..n + 1
      BY <1>1, StartTyped
    <3> QED BY <1>1, <3>1
  <2> HIDE DEF m
  <2>3. SubSeq(t, m, n - 1) = SubSeq(s, m, n - 1)
    BY <1>0, <2>2, SliceKept DEF t
  <2> QED BY <2>1, <2>3
<1>6. Start(t) = n + 2
  <2> HIDE DEF n
  <2>1. StartsBefore(t, n + 1) = {1} \cup {j + 2 : j \in Ends(s) \cup {n}}
    BY <1>3, <1>4 DEF StartsBefore
  <2>2. n + 2 \in StartsBefore(t, n + 1) /\ \A x \in StartsBefore(t, n + 1) : n + 2 >= x /\ x \in Int
    <3>1. \A j \in Ends(s) \cup {n} : j \in Int /\ j <= n
      BY <1>1, <1>2
    <3>2. n + 2 \in {j + 2 : j \in Ends(s) \cup {n}}
      OBVIOUS
    <3> QED BY <1>1, <2>1, <3>1, <3>2
  <2>3. Max(StartsBefore(t, n + 1)) \in StartsBefore(t, n + 1)
        /\ Max(StartsBefore(t, n + 1)) >= n + 2
    BY <1>1, <2>2, StartTyped
  <2> QED BY <1>1, <2>2, <2>3 DEF Start
<1>7. Current(t) = <<>>
  <2>1. SubSeq(t, n + 2, n + 1) \in Seq(Classes) /\ Len(SubSeq(t, n + 2, n + 1)) = 0
    <3> DEFINE a == n + 2
               b == n + 1
    <3>1. a \in Nat \ {0} /\ b \in Int /\ b <= Len(t) /\ ~ (a <= b)
      BY <1>1
    <3> HIDE DEF a, b
    <3>2. SubSeq(t, a, b) \in Seq(Classes) /\ Len(SubSeq(t, a, b)) = IF a <= b THEN b - a + 1 ELSE 0
      BY <1>1, <3>1, SliceTyped
    <3> QED BY <3>1, <3>2 DEF a, b
  <2>2. Current(t) = SubSeq(t, n + 2, n + 1)
    BY <1>1, <1>6 DEF Current
  <2> QED BY <2>1, <2>2, EmptySeq
<1> QED BY <1>1, <1>2, <1>3, <1>4, <1>5, <1>6, <1>7 DEF t

-----------------------------------------------------------------------------
(* What has been read when the parser is in a state.                       *)

Http == <<"H", "T", "T", "P", "/">>

\* d are the digits so far, v the number they have been added to.
Number(d, v) == Digits(d) /\ Holds(Len(d), v)

\* v is what has been read after the second space.
VersionInv(state, v, major, minor) ==
  /\ state = "http_version_h" => v = <<>>
  /\ state = "http_version_t_1" => v = <<"H">>
  /\ state = "http_version_t_2" => v = <<"H", "T">>
  /\ state = "http_version_p" => v = <<"H", "T", "T">>
  /\ state = "http_version_slash" => v = <<"H", "T", "T", "P">>
  /\ state = "http_version_major_start" => v = Http /\ major = 0 /\ minor = 0
  /\ state = "http_version_major" =>
       Len(v) >= 6 /\ SubSeq(v, 1, 5) = Http /\ Number(SubSeq(v, 6, Len(v)), major) /\ minor = 0
  /\ state = "http_version_minor_start" =>
       /\ Len(v) >= 7 /\ SubSeq(v, 1, 5) = Http /\ v[Len(v)] = "."
       /\ Number(SubSeq(v, 6, Len(v) - 1), major) /\ minor = 0
  /\ state = "http_version_minor" =>
       /\ Len(v) >= 7 /\ SubSeq(v, 1, 5) = Http
       /\ \E k \in 7..Len(v) :
            /\ v[k] = "." /\ Number(SubSeq(v, 6, k - 1), major)
            /\ Number(SubSeq(v, k + 1, Len(v)), minor)

Names(p) == Tokens(p.method) /\ Printable(p.uri) /\ ~Contains(p.uri, "SP")
Target(p) == p.method \o <<"SP">> \o p.uri
VersionStart(p) == Len(p.method) + Len(p.uri) + 3
VersionText(p) == SubSeq(p.seen, VersionStart(p), Len(p.seen))

VersionStates == RequestLineStates \ {"method_start", "method", "uri", "expecting_newline_1"}

RequestLineInv(p) ==
  /\ Ends(p.seen) = {} /\ p.headers = <<>>
  /\ p.state = "method_start" => p.seen = <<>> /\ p.method = <<>> /\ p.uri = <<>>
  /\ p.state = "method" => p.seen = p.method /\ Tokens(p.method) /\ p.uri = <<>>
  /\ p.state = "uri" => p.seen = Target(p) /\ Names(p)
  /\ p.state \in VersionStates =>
       /\ IsPrefix(Target(p) \o <<"SP">>, p.seen) /\ Names(p)
       /\ VersionInv(p.state, VersionText(p), p.major, p.minor)
  /\ p.state = "expecting_newline_1" =>
       /\ p.seen # <<>> /\ p.seen[Len(p.seen)] = "CR"
       /\ IsRequestLine(SubSeq(p.seen, 1, Len(p.seen) - 1), p)

\* A line of the header, with n lines before it.
FieldLine(line, n) == IsHeader(line) \/ (n > 1 /\ IsContinuation(line))

\* The lines that have ended are as they should be.
GoodLines(s, r) ==
  \A k \in Ends(s) :
    LET n == Cardinality(Earlier(s, k))
    IN  IF n = 0 THEN IsRequestLine(LineTo(s, k), r) ELSE FieldLine(LineTo(s, k), n)

HeaderInv(p) ==
  LET s == p.seen
      n == Cardinality(Ends(s))
  IN  /\ GoodLines(s, p) /\ n >= 1
      /\ p.state = "header_line_start" =>
           /\ Start(s) = Len(s) + 1 /\ (p.headers # <<>> => n > 1)
           /\ Len(s) >= 2 /\ s[Len(s) - 1] = "CR" /\ s[Len(s)] = "LF"
      /\ p.state = "header_lws" =>
           n > 1 /\ Current(s) # <<>> /\ \A k \in DOMAIN Current(s) : Current(s)[k] \in {"SP", "HT"}
      /\ p.state = "header_name" => Tokens(Current(s))
      /\ p.state = "space_before_header_value" =>
           /\ Current(s) # <<>> /\ Current(s)[Len(Current(s))] = ":"
           /\ Tokens(SubSeq(Current(s), 1, Len(Current(s)) - 1))
      /\ p.state = "header_value" => FieldLine(Current(s), n)
      /\ p.state = "expecting_newline_2" =>
           s # <<>> /\ s[Len(s)] = "CR" /\ FieldLine(SubSeq(s, Start(s), Len(s) - 1), n)
      /\ p.state = "expecting_newline_3" =>
           /\ Start(s) = Len(s) /\ Len(s) >= 3
           /\ s[Len(s) - 2] = "CR" /\ s[Len(s) - 1] = "LF" /\ s[Len(s)] = "CR"

TextInv(p) ==
  /\ p.seen \in Seq(Classes) /\ p.method \in Seq(Classes) /\ p.uri \in Seq(Classes)
  /\ p.result = "indeterminate" /\ p.state \in RequestLineStates => RequestLineInv(p)
  /\ p.result = "indeterminate" /\ p.state \notin RequestLineStates => HeaderInv(p)
  /\ p.result = "true" => IsRequest(p.seen, p)

-----------------------------------------------------------------------------
(* Adding a character to the parts of a request.                           *)

\* Names, values and numbers are made of their own kind of character.
LEMMA PartsGrow ==
  ASSUME NEW t \in Seq(Classes), NEW ch \in Classes
  PROVE  /\ Token(ch) /\ (t = <<>> \/ Tokens(t)) => Tokens(Append(t, ch))
         /\ is_digit(ch) /\ (t = <<>> \/ Digits(t)) => Digits(Append(t, ch))
         /\ ~is_ctl(ch) /\ Printable(t) => Printable(Append(t, ch))
<1>1. /\ Append(t, ch) \in Seq(Classes) /\ Append(t, ch) # <<>>
      /\ DOMAIN t = 1..Len(t) /\ DOMAIN Append(t, ch) = 1..Len(t) + 1 /\ Len(t) \in Nat
      /\ \A k \in 1..Len(t) : Append(t, ch)[k] = t[k]
      /\ Append(t, ch)[Len(t) + 1] = ch
  BY AppendProperties, LenProperties
<1>2. t = <<>> => Len(t) = 0
  BY EmptySeq
<1> DEFINE u == Append(t, ch)
<1> HIDE DEF u
<1>3. \A k \in 1..Len(t) + 1 : u[k] = IF k <= Len(t) THEN t[k] ELSE ch
  BY <1>1 DEF u
<1>4. u # <<>> /\ DOMAIN u = 1..Len(t) + 1
  BY <1>1 DEF u
<1>5. /\ Token(ch) /\ (t = <<>> \/ Tokens(t)) => Tokens(u)
      /\ is_digit(ch) /\ (t = <<>> \/ Digits(t)) => Digits(u)
      /\ ~is_ctl(ch) /\ Printable(t) => Printable(u)
  BY <1>1, <1>2, <1>3, <1>4 DEF Tokens, Digits, Printable
<1> QED BY <1>5 DEF u

\* The end of a line that has just begun is empty.
LEMMA EmptySlice ==
  ASSUME NEW s \in Seq(Classes), NEW a \in Nat \ {0}, NEW b \in Int, b <= Len(s), b < a
  PROVE  SubSeq(s, a, b) = <<>>
<1>1. SubSeq(s, a, b) \in Seq(Classes) /\ Len(SubSeq(s, a, b)) = 0
  BY SliceTyped
<1> QED BY <1>1, EmptySeq

\* A header field's value goes on.
LEMMA HeaderGrows ==
  ASSUME NEW l \in Seq(Classes), NEW ch \in Classes, ~is_ctl(ch), IsHeader(l)
  PROVE  IsHeader(Append(l, ch))
<1> DEFINE t == Append(l, ch)
           n == Len(l)
<1>1. n \in Nat /\ Len(t) = n + 1 /\ \A k \in 1..n : t[k] = l[k]
  BY AppendProperties, LenProperties
<1>2. PICK k \in 2..n : /\ Tokens(SubSeq(l, 1, k - 1)) /\ l[k] = ":"
                        /\ k < n /\ l[k + 1] = "SP"
                        /\ Printable(SubSeq(l, k + 2, n))
  BY DEF IsHeader
<1>3. SubSeq(t, 1, k - 1) = SubSeq(l, 1, k - 1)
  <2>1. 1 \in Nat \ {0} /\ k - 1 \in Int /\ k - 1 <= n
    BY <1>1
  <2> QED BY <2>1, SliceKept
<1>4. SubSeq(t, k + 2, n + 1) = Append(SubSeq(l, k + 2, n), ch)
  <2>1. k + 2 \in 1..n + 1
    BY <1>1, <1>2
  <2> QED BY <2>1, SliceGrows
<1>5. SubSeq(l, k + 2, n) \in Seq(Classes)
  <2>1. k + 2 \in Nat \ {0} /\ n \in Int /\ n <= Len(l)
    BY <1>1
  <2> QED BY <2>1, SliceTyped
<1>6. Printable(SubSeq(t, k + 2, n + 1))
  BY <1>2, <1>4, <1>5, PartsGrow
<1> HIDE DEF t, n
<1>7. /\ k \in 2..Len(t) /\ Tokens(SubSeq(t, 1, k - 1)) /\ t[k] = ":"
      /\ k < Len(t) /\ t[k + 1] = "SP" /\ Printable(SubSeq(t, k + 2, Len(t)))
  <2>1. k \in 2..Len(t) /\ t[k] = ":" /\ k < Len(t) /\ t[k + 1] = "SP"
    BY <1>1, <1>2
  <2> QED BY <1>1, <1>2, <1>3, <1>6, <2>1, Zenon
<1>8. IsHeader(t)
  BY <1>7, Zenon DEF IsHeader
<1> QED BY <1>8 DEF t

\* A folded line goes on.
LEMMA ContinuationGrows ==
  ASSUME NEW l \in Seq(Classes), NEW ch \in Classes, ~is_ctl(ch), IsContinuation(l)
  PROVE  IsContinuation(Append(l, ch))
<1> DEFINE t == Append(l, ch)
           n == Len(l)
<1>1. n \in Nat /\ Len(t) = n + 1 /\ \A k \in 1..n : t[k] = l[k]
  BY AppendProperties, LenProperties
<1>2. PICK k \in 1..n : /\ \A j \in 1..k : l[j] \in {"SP", "HT"}
                        /\ Printable(SubSeq(l, k + 1, n))
  BY DEF IsContinuation
<1>3. SubSeq(t, k + 1, n + 1) = Append(SubSeq(l, k + 1, n), ch)
  <2>1. k + 1 \in 1..n + 1
    BY <1>1, <1>2
  <2> QED BY <2>1, SliceGrows
<1>4. SubSeq(l, k + 1, n) \in Seq(Classes)
  <2>1. k + 1 \in Nat \ {0} /\ n \in Int /\ n <= Len(l)
    BY <1>1
  <2> QED BY <2>1, SliceTyped
<1>5. Printable(SubSeq(t, k + 1, n + 1))
  BY <1>2, <1>3, <1>4, PartsGrow
<1> HIDE DEF t, n
<1>6. k \in 1..Len(t) /\ \A j \in 1..k : t[j] \in {"SP", "HT"}
  BY <1>1, <1>2
<1> QED BY <1>1, <1>5, <1>6 DEF IsContinuation, t

\* White space alone is a folded line.
LEMMA BlankLine ==
  ASSUME NEW l \in Seq(Classes), l # <<>>, \A k \in DOMAIN l : l[k] \in {"SP", "HT"}
  PROVE  IsContinuation(l)
<1>1. Len(l) \in Nat \ {0} /\ DOMAIN l = 1..Len(l)
  BY EmptySeq, LenProperties
<1>2. SubSeq(l, Len(l) + 1, Len(l)) = <<>>
  <2>1. Len(l) + 1 \in Nat \ {0} /\ Len(l) \in Int /\ Len(l) <= Len(l) /\ Len(l) < Len(l) + 1
    BY <1>1
  <2> QED BY <2>1, EmptySlice
<1>3. Printable(<<>>)
  BY DEF Printable
<1>4. /\ Len(l) \in 1..Len(l) /\ \A j \in 1..Len(l) : l[j] \in {"SP", "HT"}
      /\ Printable(SubSeq(l, Len(l) + 1, Len(l)))
  <2>1. Len(l) \in 1..Len(l) /\ \A j \in 1..Len(l) : l[j] \in {"SP", "HT"}
    BY <1>1
  <2> QED BY <1>2, <1>3, <2>1, Zenon
<1> QED BY <1>4, Zenon DEF IsContinuation

\* The name, the colon and the space make a header field.
LEMMA HeaderBegins ==
  ASSUME NEW l \in Seq(Classes), l # <<>>, l[Len(l)] = ":", Tokens(SubSeq(l, 1, Len(l) - 1))
  PROVE  IsHeader(Append(l, "SP"))
<1> DEFINE t == Append(l, "SP")
           n == Len(l)
<1>0. "SP" \in Classes
  BY DEF Classes
<1>1. /\ n \in Nat \ {0} /\ t \in Seq(Classes) /\ Len(t) = n + 1 /\ \A k \in 1..n : t[k] = l[k]
      /\ t[n + 1] = "SP"
  BY <1>0, AppendProperties, EmptySeq
<1>2. n # 1
  <2>1. n = 1 => SubSeq(l, 1, n - 1) = <<>>
    BY EmptySlice
  <2> QED BY <2>1 DEF Tokens
<1>3. SubSeq(t, 1, n - 1) = SubSeq(l, 1, n - 1)
  <2>1. 1 \in Nat \ {0} /\ n - 1 \in Int /\ n - 1 <= n
    BY <1>1
  <2> QED BY <1>0, <2>1, SliceKept
<1>4. SubSeq(t, n + 2, n + 1) = <<>>
  <2>1. n + 2 \in Nat \ {0} /\ n + 1 \in Int /\ n + 1 <= Len(t) /\ n + 1 < n + 2
    BY <1>1
  <2> HIDE DEF t
  <2> QED BY <1>1, <2>1, EmptySlice
<1>5. Printable(<<>>)
  BY DEF Printable
<1>6. Tokens(SubSeq(t, 1, n - 1)) /\ l[n] = ":"
  BY <1>3
<1> HIDE DEF t, n
<1>7. /\ n \in 2..Len(t) /\ Tokens(SubSeq(t, 1, n - 1)) /\ t[n] = ":"
      /\ n < Len(t) /\ t[n + 1] = "SP" /\ Printable(SubSeq(t, n + 2, Len(t)))
  <2>1. n \in 2..Len(t) /\ t[n] = ":" /\ n < Len(t) /\ t[n + 1] = "SP"
    BY <1>1, <1>2, <1>6
  <2> QED BY <1>1, <1>4, <1>5, <1>6, <2>1, Zenon
<1>8. IsHeader(t)
  BY <1>7, Zenon DEF IsHeader
<1> QED BY <1>8 DEF t

-----------------------------------------------------------------------------
(* The header.                                                             *)

\* A line feed is accepted only at the end of a line.
LEMMA NoLineFeed ==
  ASSUME NEW p, p.state \in States, NextState(p, "LF") # "false"
  PROVE  p.state \in {"expecting_newline_1", "expecting_newline_2", "expecting_newline_3"}
<1>1. CASE p.state \in {"method_start", "method", "uri", "header_line_start"}
  BY <1>1 DEF NextState, Token, Folds, is_char, is_ctl, is_tspecial
<1>2. CASE p.state \in {"http_version_h", "http_version_t_1", "http_version_t_2", "http_version_p"}
  BY <1>2 DEF NextState, Literal
<1>3. CASE p.state \in {"http_version_slash", "http_version_major_start", "http_version_major",
                        "http_version_minor_start", "http_version_minor"}
  BY <1>3 DEF NextState, Literal, is_digit
<1>4. CASE p.state \in HeaderStates
  BY <1>4 DEF HeaderStates, NextState, Literal, Token, is_char, is_ctl, is_tspecial
<1> QED BY <1>1, <1>2, <1>3, <1>4 DEF States, RequestLineStates, HeaderStates, LineStates

\* The parser reads header lines until the end.
LEMMA NextHeaderStates ==
  ASSUME NEW p, p.state \in HeaderStates \cup LineStates, NEW ch
  PROVE  NextState(p, ch) \in HeaderStates \cup LineStates \cup Results
<1>1. CASE p.state \in HeaderStates
  BY <1>1 DEF NextState, Literal, HeaderStates, LineStates, Results
<1>2. CASE p.state \in LineStates
  BY <1>2 DEF NextState, Literal, Folds, HeaderStates, LineStates, Results
<1> QED BY <1>1, <1>2

\* Requests that agree on the request line.
SameRequest(q, r) ==
  q.method = r.method /\ q.uri = r.uri /\ q.major = r.major /\ q.minor = r.minor

\* The lines that have ended stay good within a line.
LEMMA GoodKept ==
  ASSUME NEW s \in Seq(Classes), NEW ch \in Classes, Ends(Append(s, ch)) = Ends(s),
         NEW r, NEW q, GoodLines(s, r), SameRequest(q, r)
  PROVE  GoodLines(Append(s, ch), q)
<1>1. ASSUME NEW l PROVE IsRequestLine(l, q) <=> IsRequestLine(l, r)
  BY DEF IsRequestLine, SameRequest
<1>2. ASSUME NEW k \in Ends(s)
      PROVE  LET n == Cardinality(Earlier(Append(s, ch), k))
             IN  IF n = 0 THEN IsRequestLine(LineTo(Append(s, ch), k), q)
                 ELSE FieldLine(LineTo(Append(s, ch), k), n)
  <2>1. Earlier(Append(s, ch), k) = Earlier(s, k) /\ LineTo(Append(s, ch), k) = LineTo(s, k)
    BY OldLines
  <2> QED BY <1>1, <2>1 DEF GoodLines
<1> QED BY <1>2 DEF GoodLines

\* They stay good when one more good line ends.
LEMMA GoodEnds ==
  ASSUME NEW s \in Seq(Classes), s # <<>>, s[Len(s)] = "CR", NEW r, NEW q,
         GoodLines(s, r), SameRequest(q, r),
         LET n == Cardinality(Ends(s))
             line == SubSeq(s, Start(s), Len(s) - 1)
         IN  IF n = 0 THEN IsRequestLine(line, r) ELSE FieldLine(line, n)
  PROVE  /\ GoodLines(Append(s, "LF"), q)
         /\ Cardinality(Ends(Append(s, "LF"))) = Cardinality(Ends(s)) + 1
<1> DEFINE t == Append(s, "LF")
<1>0. "LF" \in Classes
  BY DEF Classes
<1>1. /\ Ends(t) = Ends(s) \cup {Len(s)} /\ Len(s) \notin Ends(s)
      /\ Earlier(t, Len(s)) = Ends(s)
      /\ LineTo(t, Len(s)) = SubSeq(s, Start(s), Len(s) - 1)
  BY LineEnds
<1>2. ASSUME NEW l PROVE IsRequestLine(l, q) <=> IsRequestLine(l, r)
  BY DEF IsRequestLine, SameRequest
<1>3. ASSUME NEW k \in Ends(s)
      PROVE  LET n == Cardinality(Earlier(t, k))
             IN  IF n = 0 THEN IsRequestLine(LineTo(t, k), q) ELSE FieldLine(LineTo(t, k), n)
  <2>1. Earlier(t, k) = Earlier(s, k) /\ LineTo(t, k) = LineTo(s, k)
    BY <1>0, OldLines
  <2> QED BY <1>2, <2>1 DEF GoodLines
<1>4. LET n == Cardinality(Earlier(t, Len(s)))
      IN  IF n = 0 THEN IsRequestLine(LineTo(t, Len(s)), q) ELSE FieldLine(LineTo(t, Len(s)), n)
  BY <1>1, <1>2
<1> HIDE DEF t
<1>5. GoodLines(t, q)
  BY <1>1, <1>3, <1>4 DEF GoodLines
<1>6. Cardinality(Ends(t)) = Cardinality(Ends(s)) + 1
  BY <1>1, EndsTyped, FS_AddElement
<1> QED BY <1>5, <1>6 DEF t

\* What a character of the header changes.
LEMMA HeaderCharacter ==
  ASSUME NEW p, ParserInv(p), TextInv(p), p.state \in HeaderStates \cup LineStates, NEW ch \in Classes
  PROVE  LET q == consume(p, ch)
             next == NextState(p, ch)
         IN  /\ q.seen = Append(p.seen, ch) /\ q.seen \in Seq(Classes)
             /\ q.method \in Seq(Classes) /\ q.uri \in Seq(Classes) /\ SameRequest(q, p)
             /\ next \in HeaderStates \cup LineStates \cup Results
             /\ q.state = IF next \in Results THEN p.state ELSE next
             /\ q.result = IF next \in Results THEN next ELSE "indeterminate"
<1> DEFINE next == NextState(p, ch)
<1>1. next \in HeaderStates \cup LineStates \cup Results
  BY NextHeaderStates
<1>2. /\ next \notin {"method", "uri", "http_version_major", "http_version_minor"}
      /\ p.state # "http_version_slash"
  BY <1>1 DEF HeaderStates, LineStates, Results
<1>3. Append(p.seen, ch) \in Seq(Classes)
  BY AppendProperties DEF TextInv
<1> HIDE DEF next
<1>4. /\ consume(p, ch).seen = Append(p.seen, ch)
      /\ consume(p, ch).state = IF next \in Results THEN p.state ELSE next
      /\ consume(p, ch).result = IF next \in Results THEN next ELSE "indeterminate"
  BY DEF consume, Results, next
<1>5. SameRequest(consume(p, ch), p)
  BY <1>2 DEF consume, SameRequest, PushVersion, next
<1> QED BY <1>1, <1>3, <1>4, <1>5 DEF TextInv, SameRequest, next

\* A character within a line of the header.
LEMMA WithinLine ==
  ASSUME NEW p, ParserInv(p), TextInv(p), p.result = "indeterminate",
         p.state \in HeaderStates \cup {"header_line_start"}, NEW ch \in Classes
  PROVE  TextInv(consume(p, ch))
<1> DEFINE q == consume(p, ch)
           next == NextState(p, ch)
           s == p.seen
           n == Cardinality(Ends(s))
           cur == Current(s)
<1>0. p.state \in HeaderStates \cup LineStates /\ p.state \in States /\ p.state \notin RequestLineStates
  BY DEF HeaderStates, LineStates, RequestLineStates, States
<1>1. /\ q.seen = Append(s, ch) /\ q.seen \in Seq(Classes)
      /\ q.method \in Seq(Classes) /\ q.uri \in Seq(Classes) /\ SameRequest(q, p)
      /\ next \in HeaderStates \cup LineStates \cup Results
      /\ q.state = IF next \in Results THEN p.state ELSE next
      /\ q.result = IF next \in Results THEN next ELSE "indeterminate"
  BY <1>0, HeaderCharacter
<1>2. s \in Seq(Classes) /\ HeaderInv(p)
  BY <1>0 DEF TextInv
<1>3. p.state \notin RequestLineStates /\ next \notin RequestLineStates
  BY <1>1, <1>0 DEF HeaderStates, LineStates, RequestLineStates, Results
<1> SUFFICES TextInv(q)
  OBVIOUS
<1> HIDE DEF q
<1>4. CASE next \in Results
  <2>1. next = "false"
    BY <1>4 DEF next, NextState, Literal, Results, HeaderStates
  <2> QED BY <1>1, <2>1 DEF TextInv, Results
<1>5. CASE next \notin Results
  <2>1. ch # "LF"
    BY <1>0, <1>5, NoLineFeed DEF Results, HeaderStates
  <2>2. Ends(q.seen) = Ends(s) /\ Start(q.seen) = Start(s) /\ Current(q.seen) = Append(cur, ch)
    BY <1>1, <1>2, <2>1, SameLine
  <2>3. GoodLines(q.seen, q)
    BY <1>1, <1>2, <2>2, GoodKept DEF HeaderInv
  <2>4. n \in Nat /\ n >= 1
    BY <1>2, EndsTyped, FS_CardinalityType DEF HeaderInv
  <2>5. /\ Len(s) \in Nat /\ Len(q.seen) = Len(s) + 1 /\ q.seen # <<>>
        /\ q.seen[Len(s) + 1] = ch /\ \A k \in 1..Len(s) : q.seen[k] = s[k]
    BY <1>1, <1>2, AppendProperties, LenProperties
  <2>6. Start(s) \in 1..Len(s) + 1 /\ cur \in Seq(Classes) /\ Len(cur) \in Nat
    <3>1. Start(s) \in 1..Len(s) + 1
      BY <1>2, <2>5, StartTyped DEF Start
    <3>2. Start(s) \in Nat \ {0} /\ Len(s) \in Int /\ Len(s) <= Len(s)
      BY <2>5, <3>1
    <3>3. cur \in Seq(Classes)
      BY <1>2, <3>2, SliceTyped DEF Current
    <3> QED BY <3>1, <3>3, LenProperties
  <2>7. SubSeq(q.seen, Start(s), Len(s)) = cur
    <3>1. Start(s) \in Nat \ {0} /\ Len(s) \in Int /\ Len(s) <= Len(s)
      BY <2>5, <2>6
    <3>2. SubSeq(Append(s, ch), Start(s), Len(s)) = SubSeq(s, Start(s), Len(s))
      BY <1>2, <3>1, SliceKept
    <3> QED BY <1>1, <3>2 DEF Current
  <2> HIDE DEF cur, n
  <2>8. q.state = next /\ q.result = "indeterminate"
    BY <1>1, <1>5
  <2>9. SUFFICES HeaderInv(q)
    BY <1>1, <1>3, <2>8 DEF TextInv
  <2>10. Cardinality(Ends(q.seen)) = n
    BY <2>2 DEF n
  <2>11. CASE p.state = "header_line_start"
    <3>1. Start(s) = Len(s) + 1 /\ (p.headers # <<>> => n > 1)
          /\ Len(s) >= 2 /\ s[Len(s) - 1] = "CR" /\ s[Len(s)] = "LF"
      BY <1>2, <2>11 DEF HeaderInv, n
    <3>2. cur = <<>>
      <4>1. Len(s) + 1 \in Nat \ {0} /\ Len(s) \in Int /\ Len(s) <= Len(s) /\ Len(s) < Len(s) + 1
        BY <2>5
      <4> QED BY <1>2, <3>1, <4>1, EmptySlice DEF Current, cur
    <3>3. CASE next = "expecting_newline_3"
      <4>1. ch = "CR"
        BY <2>11, <3>3 DEF next, NextState
      <4>2. /\ Start(q.seen) = Len(q.seen) /\ Len(q.seen) >= 3
            /\ q.seen[Len(q.seen)] = "CR"
            /\ q.seen[Len(q.seen) - 1] = "LF" /\ q.seen[Len(q.seen) - 2] = "CR"
        <5>1. Len(q.seen) - 1 = Len(s) /\ Len(q.seen) - 2 = Len(s) - 1
          BY <2>5
        <5>2. Len(s) \in 1..Len(s) /\ Len(s) - 1 \in 1..Len(s)
          BY <2>5, <3>1
        <5>3. q.seen[Len(s)] = "LF" /\ q.seen[Len(s) - 1] = "CR" /\ q.seen[Len(s) + 1] = "CR"
          BY <2>5, <3>1, <4>1, <5>2
        <5>4. Len(q.seen) >= 3 /\ Start(q.seen) = Len(q.seen)
          BY <2>2, <2>5, <3>1
        <5> QED BY <2>5, <5>1, <5>3, <5>4
      <4> QED BY <2>3, <2>4, <2>8, <2>10, <3>3, <4>2 DEF HeaderInv
    <3>4. CASE next = "header_lws"
      <4>1. ch \in {"SP", "HT"} /\ p.headers # <<>>
        BY <2>11, <3>4 DEF next, NextState, Folds
      <4>2. Current(q.seen) # <<>> /\ \A k \in DOMAIN Current(q.seen) : Current(q.seen)[k] \in {"SP", "HT"}
        BY <2>2, <3>2, <4>1
      <4> QED BY <2>3, <2>4, <2>8, <2>10, <3>1, <3>4, <4>1, <4>2 DEF HeaderInv
    <3>5. CASE next = "header_name"
      <4>1. Token(ch)
        BY <2>11, <3>5 DEF next, NextState
      <4>2. Tokens(Current(q.seen))
        BY <2>2, <2>6, <3>2, <4>1, PartsGrow
      <4> QED BY <2>3, <2>4, <2>8, <2>10, <3>5, <4>2 DEF HeaderInv
    <3> QED BY <1>5, <2>11, <3>3, <3>4, <3>5 DEF next, NextState, Results
  <2>12. CASE p.state = "header_name"
    <3>1. Tokens(cur)
      BY <1>2, <2>12 DEF HeaderInv, cur
    <3>2. CASE next = "space_before_header_value"
      <4>1. ch = ":"
        BY <2>12, <3>2 DEF next, NextState
      <4>2. /\ Current(q.seen) # <<>> /\ Len(Current(q.seen)) = Len(cur) + 1
            /\ Current(q.seen)[Len(cur) + 1] = ":"
        BY <2>2, <2>6, <4>1, AppendProperties
      <4>3. SubSeq(Current(q.seen), 1, Len(cur)) = cur
        <5>1. 1 \in Nat \ {0} /\ Len(cur) \in Int /\ Len(cur) <= Len(cur)
          BY <2>6
        <5>2. SubSeq(Append(cur, ch), 1, Len(cur)) = SubSeq(cur, 1, Len(cur))
          BY <2>6, <5>1, SliceKept
        <5>3. SubSeq(cur, 1, Len(cur)) = cur
          BY <2>6, SubSeqFull
        <5> QED BY <2>2, <5>2, <5>3
      <4>4. Len(Current(q.seen)) - 1 = Len(cur)
        BY <2>6, <4>2
      <4>5. /\ Current(q.seen) # <<>> /\ Current(q.seen)[Len(Current(q.seen))] = ":"
            /\ Tokens(SubSeq(Current(q.seen), 1, Len(Current(q.seen)) - 1))
        BY <3>1, <4>2, <4>3, <4>4
      <4> QED BY <2>3, <2>4, <2>8, <2>10, <3>2, <4>5 DEF HeaderInv
    <3>3. CASE next = "header_name"
      <4>1. Token(ch)
        BY <2>12, <3>3 DEF next, NextState
      <4>2. Tokens(Current(q.seen))
        BY <2>2, <2>6, <3>1, <4>1, PartsGrow
      <4> QED BY <2>3, <2>4, <2>8, <2>10, <3>3, <4>2 DEF HeaderInv
    <3> QED BY <1>5, <2>12, <3>2, <3>3 DEF next, NextState, Results
  <2>13. CASE p.state = "space_before_header_value"
    <3>1. ch = "SP" /\ next = "header_value"
      BY <1>5, <2>13 DEF next, NextState, Literal, Results
    <3>2. cur # <<>> /\ cur[Len(cur)] = ":" /\ Tokens(SubSeq(cur, 1, Len(cur) - 1))
      BY <1>2, <2>13 DEF HeaderInv, cur
    <3>3. IsHeader(Current(q.seen))
      BY <2>2, <2>6, <3>1, <3>2, HeaderBegins
    <3> QED BY <2>3, <2>4, <2>8, <2>10, <3>1, <3>3 DEF HeaderInv, FieldLine
  <2>14. CASE p.state \in {"header_lws", "header_value"}
    <3>1. FieldLine(cur, n)
      <4>1. CASE p.state = "header_lws"
        <5>1. n > 1 /\ cur # <<>> /\ \A k \in DOMAIN cur : cur[k] \in {"SP", "HT"}
          BY <1>2, <4>1 DEF HeaderInv, cur, n
        <5> QED BY <2>6, <5>1, BlankLine DEF FieldLine
      <4>2. CASE p.state = "header_value"
        BY <1>2, <4>2 DEF HeaderInv, cur, n
      <4> QED BY <2>14, <4>1, <4>2
    <3>2. CASE next = "expecting_newline_2"
      <4>1. ch = "CR"
        BY <2>14, <3>2 DEF next, NextState
      <4>2. Len(q.seen) - 1 = Len(s)
        BY <2>5
      <4>3. FieldLine(SubSeq(q.seen, Start(q.seen), Len(q.seen) - 1), n) /\ q.seen[Len(q.seen)] = "CR"
        BY <2>2, <2>5, <2>7, <3>1, <4>1, <4>2
      <4> QED BY <2>3, <2>4, <2>5, <2>8, <2>10, <3>2, <4>3 DEF HeaderInv
    <3>3. CASE next = "header_value"
      <4>1. ~is_ctl(ch)
        BY <2>14, <3>3 DEF next, NextState
      <4>2. FieldLine(Current(q.seen), n)
        BY <2>2, <2>6, <3>1, <4>1, HeaderGrows, ContinuationGrows DEF FieldLine
      <4> QED BY <2>3, <2>4, <2>8, <2>10, <3>3, <4>2 DEF HeaderInv
    <3>4. CASE next = "header_lws"
      <4>1. p.state = "header_lws" /\ ch \in {"SP", "HT"}
        BY <2>14, <3>4 DEF next, NextState
      <4>2. n > 1 /\ cur # <<>> /\ \A k \in DOMAIN cur : cur[k] \in {"SP", "HT"}
        BY <1>2, <4>1 DEF HeaderInv, cur, n
      <4>3. Current(q.seen) # <<>> /\ \A k \in DOMAIN Current(q.seen) : Current(q.seen)[k] \in {"SP", "HT"}
        <5>1. /\ Append(cur, ch) # <<>> /\ DOMAIN cur = 1..Len(cur)
              /\ Append(cur, ch) \in Seq(Classes) /\ Len(Append(cur, ch)) = Len(cur) + 1
              /\ \A k \in 1..Len(cur) : Append(cur, ch)[k] = cur[k]
              /\ Append(cur, ch)[Len(cur) + 1] = ch
          BY <2>6, AppendProperties, LenProperties
        <5>2. DOMAIN Append(cur, ch) = 1..Len(cur) + 1
          BY <5>1, LenProperties
        <5> DEFINE new == Append(cur, ch)
        <5> HIDE DEF new
        <5>3. \A k \in 1..Len(cur) + 1 : new[k] \in {"SP", "HT"}
          BY <2>6, <4>1, <4>2, <5>1 DEF new
        <5> QED BY <2>2, <5>1, <5>2, <5>3 DEF new
      <4> QED BY <2>3, <2>4, <2>8, <2>10, <3>4, <4>2, <4>3 DEF HeaderInv
    <3> QED BY <1>5, <2>14, <3>2, <3>3, <3>4 DEF next, NextState, Results
  <2> QED BY <2>11, <2>12, <2>13, <2>14 DEF HeaderStates
<1> QED BY <1>4, <1>5

\* The line feed that ends a line.
LEMMA LineOver ==
  ASSUME NEW p, ParserInv(p), TextInv(p), p.result = "indeterminate",
         p.state \in {"expecting_newline_1", "expecting_newline_2"}, NEW ch \in Classes
  PROVE  TextInv(consume(p, ch))
<1> DEFINE q == consume(p, ch)
           s == p.seen
           n == Cardinality(Ends(s))
           line == SubSeq(s, Start(s), Len(s) - 1)
<1>1. NextState(p, ch) = IF ch = "LF" THEN "header_line_start" ELSE "false"
  BY DEF NextState, Literal
<1>2. /\ q.seen = Append(s, ch) /\ SameRequest(q, p) /\ q.headers = p.headers
      /\ q.state = IF ch = "LF" THEN "header_line_start" ELSE p.state
      /\ q.result = IF ch = "LF" THEN "indeterminate" ELSE "false"
  BY <1>1 DEF consume, SameRequest, PushVersion, PushHeader
<1>3. s \in Seq(Classes) /\ q.seen \in Seq(Classes) /\ q.method \in Seq(Classes) /\ q.uri \in Seq(Classes)
  BY <1>2, AppendProperties DEF TextInv, SameRequest
<1> SUFFICES TextInv(q)
  OBVIOUS
<1> HIDE DEF q
<1>4. CASE ch # "LF"
  BY <1>2, <1>3, <1>4 DEF TextInv
<1>5. CASE ch = "LF"
  <2>1. /\ s # <<>> /\ s[Len(s)] = "CR" /\ GoodLines(s, p) /\ n \in Nat
        /\ IF n = 0 THEN IsRequestLine(line, p) ELSE FieldLine(line, n)
        /\ q.headers # <<>> => n >= 1
    <3>0. n \in Nat
      BY <1>3, EndsTyped, FS_CardinalityType
    <3>1. CASE p.state = "expecting_newline_1"
      <4>1. p.state \in RequestLineStates
        BY <3>1 DEF RequestLineStates
      <4>2. /\ Ends(s) = {} /\ p.headers = <<>> /\ s # <<>> /\ s[Len(s)] = "CR"
            /\ IsRequestLine(SubSeq(s, 1, Len(s) - 1), p)
        BY <3>1, <4>1 DEF TextInv, RequestLineInv
      <4>3. n = 0
        BY <4>2, FS_EmptySet
      <4>4. Start(s) = 1
        <5>1. StartsBefore(s, Len(s)) = {1}
          BY <4>2 DEF StartsBefore, Earlier
        <5>2. Len(s) \in Int
          BY <1>3, EndsTyped
        <5> QED BY <1>3, <5>1, <5>2, StartTyped DEF Start
      <4>5. GoodLines(s, p)
        BY <4>2 DEF GoodLines
      <4> QED BY <1>2, <4>2, <4>3, <4>4, <4>5
    <3>2. CASE p.state = "expecting_newline_2"
      <4>1. p.state \notin RequestLineStates
        BY <3>2 DEF RequestLineStates
      <4>2. /\ s # <<>> /\ s[Len(s)] = "CR" /\ GoodLines(s, p)
            /\ n >= 1 /\ FieldLine(line, n)
        BY <3>2, <4>1 DEF TextInv, HeaderInv
      <4> QED BY <3>0, <4>2
    <3> QED BY <3>1, <3>2
  <2> HIDE DEF line
  <2>2. GoodLines(q.seen, q) /\ Cardinality(Ends(q.seen)) = n + 1
    BY <1>2, <1>3, <1>5, <2>1, GoodEnds DEF line
  <2> HIDE DEF n
  <2>3. /\ Len(s) \in Nat \ {0} /\ Len(q.seen) = Len(s) + 1 /\ q.seen[Len(s) + 1] = "LF"
        /\ q.seen[Len(s)] = s[Len(s)]
    <3>1. Len(s) \in Nat \ {0}
      BY <1>3, <2>1, EmptySeq
    <3>2. /\ Len(Append(s, ch)) = Len(s) + 1 /\ Append(s, ch)[Len(s) + 1] = ch
          /\ \A k \in 1..Len(s) : Append(s, ch)[k] = s[k]
      BY <1>3, AppendProperties
    <3> QED BY <1>2, <1>5, <3>1, <3>2
  <2>4. Start(q.seen) = Len(q.seen) + 1
    <3>1. Start(Append(s, "LF")) = Len(s) + 2
      BY <1>3, <2>1, LineEnds
    <3> QED BY <1>2, <1>5, <2>3, <3>1
  <2>5. HeaderInv(q)
    <3>1. Len(q.seen) >= 2 /\ q.seen[Len(q.seen) - 1] = "CR" /\ q.seen[Len(q.seen)] = "LF"
      <4>1. Len(q.seen) - 1 = Len(s) /\ Len(q.seen) >= 2
        BY <2>3
      <4> QED BY <2>1, <2>3, <4>1
    <3>2. n + 1 >= 1 /\ (q.headers # <<>> => n + 1 > 1)
      BY <2>1
    <3> QED BY <1>2, <1>5, <2>2, <2>4, <3>1, <3>2 DEF HeaderInv
  <2>6. q.state \notin RequestLineStates
    BY <1>2, <1>5 DEF RequestLineStates
  <2> QED BY <1>2, <1>3, <1>5, <2>5, <2>6 DEF TextInv
<1> QED BY <1>4, <1>5

\* The line feed that ends the request.
LEMMA RequestOver ==
  ASSUME NEW p, ParserInv(p), TextInv(p), p.result = "indeterminate",
         p.state = "expecting_newline_3", NEW ch \in Classes
  PROVE  TextInv(consume(p, ch))
<1> DEFINE q == consume(p, ch)
           s == p.seen
           l == Len(s)
           t == q.seen
<1>1. NextState(p, ch) = IF ch = "LF" THEN "true" ELSE "false"
  BY DEF NextState, Literal
<1>2. /\ t = Append(s, ch) /\ SameRequest(q, p)
      /\ q.result = IF ch = "LF" THEN "true" ELSE "false"
  BY <1>1 DEF consume, SameRequest, PushVersion
<1>3. s \in Seq(Classes) /\ t \in Seq(Classes) /\ q.method \in Seq(Classes) /\ q.uri \in Seq(Classes)
  BY <1>2, AppendProperties DEF TextInv, SameRequest
<1> SUFFICES TextInv(q)
  OBVIOUS
<1> HIDE DEF q
<1>4. CASE ch # "LF"
  BY <1>2, <1>3, <1>4 DEF TextInv
<1>5. CASE ch = "LF"
  <2>0. p.state \notin RequestLineStates
    BY DEF RequestLineStates
  <2>1. /\ GoodLines(s, p) /\ Cardinality(Ends(s)) >= 1 /\ Start(s) = l /\ l >= 3
        /\ s[l - 2] = "CR" /\ s[l - 1] = "LF" /\ s[l] = "CR"
    BY <2>0 DEF TextInv, HeaderInv
  <2>2. /\ l \in Nat /\ Len(t) = l + 1 /\ t[l + 1] = "LF"
        /\ \A k \in 1..l : t[k] = s[k]
    BY <1>2, <1>3, <1>5, AppendProperties, LenProperties
  <2>3. s # <<>>
    BY <2>1, EmptySeq
  <2>4. /\ Ends(t) = Ends(s) \cup {l} /\ Earlier(t, l) = Ends(s)
        /\ LineTo(t, l) = SubSeq(s, l, l - 1)
    BY <1>2, <1>3, <1>5, <2>1, <2>3, LineEnds
  <2>5. Ends(s) \subseteq 1..l - 1
    BY <1>3, EndsTyped
  <2>6. SubSeq(s, l, l - 1) = <<>>
    <3>1. l \in Nat \ {0} /\ l - 1 \in Int /\ l - 1 <= Len(s) /\ l - 1 < l
      BY <2>1, <2>2
    <3> QED BY <1>3, <3>1, EmptySlice
  <2> HIDE DEF t, l
  <2>7. Len(t) >= 4 /\ SubSeq(t, Len(t) - 3, Len(t)) = <<"CR", "LF", "CR", "LF">>
    <3>1. Len(t) >= 4 /\ Len(t) - 3 = l - 2 /\ Len(t) - 3 \in Nat \ {0} /\ Len(t) \in Int /\ Len(t) <= Len(t)
      BY <2>1, <2>2
    <3> DEFINE a == Len(t) - 3
               b == Len(t)
               end == SubSeq(t, a, b)
    <3>2. a \in Nat \ {0} /\ b \in Int /\ b <= Len(t) /\ a <= b /\ b - a + 1 = 4 /\ a = l - 2
      BY <3>1
    <3>3. end \in Seq(Classes) /\ Len(end) = 4 /\ \A k \in 1..4 : end[k] = t[a + k - 1]
      <4> HIDE DEF a, b
      <4>1. /\ end \in Seq(Classes) /\ Len(end) = IF a <= b THEN b - a + 1 ELSE 0
            /\ \A k \in 1..b - a + 1 : end[k] = t[a + k - 1]
        <5>1. t \in Seq(Classes)
          BY <1>3
        <5>2. a \in Nat \ {0} /\ b \in Int /\ b <= Len(t)
          BY <3>2
        <5> QED BY <5>1, <5>2, SliceTyped
      <4> QED BY <3>2, <4>1
    <3>4. a + 1 - 1 = l - 2 /\ a + 2 - 1 = l - 1 /\ a + 3 - 1 = l /\ a + 4 - 1 = l + 1
      BY <2>2, <3>2
    <3>5. t[l - 2] = "CR" /\ t[l - 1] = "LF" /\ t[l] = "CR"
      BY <2>1, <2>2
    <3> HIDE DEF end, a
    <3>6. end[1] = "CR" /\ end[2] = "LF" /\ end[3] = "CR" /\ end[4] = "LF"
      BY <2>2, <3>3, <3>4, <3>5
    <3> DEFINE crlfs == <<"CR", "LF", "CR", "LF">>
    <3>7. crlfs \in Seq(Classes) /\ Len(crlfs) = 4 /\ \A k \in 1..4 : end[k] = crlfs[k]
      BY <3>6 DEF Classes
    <3> HIDE DEF crlfs
    <3>8. end = crlfs
      BY <3>3, <3>7, SeqEqual
    <3> QED BY <3>1, <3>8 DEF end, a, crlfs
  <2>8. ASSUME NEW l2 PROVE IsRequestLine(l2, q) <=> IsRequestLine(l2, p)
    BY <1>2 DEF IsRequestLine, SameRequest
  <2>9. ASSUME NEW k \in Ends(t)
        PROVE  LET line == LineTo(t, k)
                   earlier == Cardinality(Earlier(t, k))
               IN  IF earlier = 0 THEN IsRequestLine(line, q)
                   ELSE IF k = Len(t) - 1 THEN line = <<>>
                   ELSE IsHeader(line) \/ (earlier > 1 /\ IsContinuation(line))
    <3>1. CASE k = l
      BY <2>1, <2>2, <2>4, <2>6, <3>1
    <3>2. CASE k # l
      <4>1. k \in Ends(s) /\ k # Len(t) - 1
        BY <2>2, <2>4, <3>2
      <4>2. Earlier(t, k) = Earlier(s, k) /\ LineTo(t, k) = LineTo(s, k)
        BY <1>2, <1>3, <4>1, OldLines DEF t
      <4> QED BY <2>1, <2>8, <4>1, <4>2 DEF GoodLines, FieldLine
    <3> QED BY <3>1, <3>2
  <2>10. IsRequest(t, q)
    BY <2>7, <2>9, Zenon DEF IsRequest, Earlier
  <2> QED BY <1>2, <1>3, <1>5, <2>10 DEF TextInv, t
<1> QED BY <1>4, <1>5

-----------------------------------------------------------------------------
(* The request line.                                                       *)

\* A digit is added to a number.
LEMMA NumberGrows ==
  ASSUME NEW d \in Seq(Classes), NEW ch \in Classes, is_digit(ch), NEW v,
         (d = <<>> /\ v = 0) \/ Number(d, v)
  PROVE  Number(Append(d, ch), PushDigit(v))
<1>1. Len(d) \in Nat /\ Len(Append(d, ch)) = Len(d) + 1 /\ (d = <<>> => Len(d) = 0)
  BY LenProperties, AppendProperties, EmptySeq
<1>2. Holds(Len(d), v)
  <2>1. Holds(0, 0)
    BY NinesStep DEF Holds
  <2> QED BY <1>1, <2>1 DEF Number
<1>3. Holds(Len(d) + 1, PushDigit(v))
  BY <1>1, <1>2, PushDigitHolds
<1>4. Digits(Append(d, ch))
  BY PartsGrow DEF Number
<1> QED BY <1>1, <1>3, <1>4 DEF Number

\* A sequence and its last element.
LEMMA LiteralGrows ==
  ASSUME NEW t \in Seq(Classes), NEW x \in Classes, NEW u \in Seq(Classes),
         Len(u) = Len(t) + 1, u[Len(t) + 1] = x, \A k \in 1..Len(t) : u[k] = t[k]
  PROVE  Append(t, x) = u
<1>1. /\ Append(t, x) \in Seq(Classes) /\ Len(Append(t, x)) = Len(u) /\ Len(t) \in Nat
      /\ Append(t, x)[Len(t) + 1] = x /\ \A k \in 1..Len(t) : Append(t, x)[k] = t[k]
  BY AppendProperties, LenProperties
<1> DEFINE w == Append(t, x)
<1> HIDE DEF w
<1>2. \A k \in 1..Len(t) + 1 : w[k] = u[k]
  BY <1>1 DEF w
<1>3. w = u
  BY <1>1, <1>2, SeqEqual DEF w
<1> QED BY <1>3 DEF w

\* The version, up to the digits of the major number.
LEMMA VersionBegins ==
  ASSUME NEW p, NEW ch \in Classes, NEW v, NEW major, NEW minor,
         p.state \in {"http_version_h", "http_version_t_1", "http_version_t_2", "http_version_p",
                      "http_version_slash"},
         VersionInv(p.state, v, major, minor), NextState(p, ch) # "false"
  PROVE  LET next == NextState(p, ch)
         IN  VersionInv(next, Append(v, ch), PushVersion(major, "http_version_major", p.state, next),
                                             PushVersion(minor, "http_version_minor", p.state, next))
<1>1. /\ Append(<<>>, "H") = <<"H">> /\ Append(<<"H">>, "T") = <<"H", "T">>
      /\ Append(<<"H", "T">>, "T") = <<"H", "T", "T">>
      /\ Append(<<"H", "T", "T">>, "P") = <<"H", "T", "T", "P">>
      /\ Append(<<"H", "T", "T", "P">>, "/") = Http
  <2>1. Append(<<>>, "H") = <<"H">>
    OBVIOUS
  <2>2. Append(<<"H">>, "T") = <<"H", "T">>
    <3> DEFINE t == <<"H">>
               u == <<"H", "T">>
    <3>1. /\ t \in Seq(Classes) /\ "T" \in Classes /\ u \in Seq(Classes)
          /\ Len(u) = Len(t) + 1 /\ u[Len(t) + 1] = "T" /\ \A k \in 1..Len(t) : u[k] = t[k]
      BY DEF Classes
    <3> HIDE DEF t, u
    <3>2. Append(t, "T") = u
      BY <3>1, LiteralGrows
    <3> QED BY <3>2 DEF t, u
  <2>3. Append(<<"H", "T">>, "T") = <<"H", "T", "T">>
    <3> DEFINE t == <<"H", "T">>
               u == <<"H", "T", "T">>
    <3>1. /\ t \in Seq(Classes) /\ "T" \in Classes /\ u \in Seq(Classes)
          /\ Len(u) = Len(t) + 1 /\ u[Len(t) + 1] = "T" /\ \A k \in 1..Len(t) : u[k] = t[k]
      BY DEF Classes
    <3> HIDE DEF t, u
    <3>2. Append(t, "T") = u
      BY <3>1, LiteralGrows
    <3> QED BY <3>2 DEF t, u
  <2>4. Append(<<"H", "T", "T">>, "P") = <<"H", "T", "T", "P">>
    <3> DEFINE t == <<"H", "T", "T">>
               u == <<"H", "T", "T", "P">>
    <3>1. /\ t \in Seq(Classes) /\ "P" \in Classes /\ u \in Seq(Classes)
          /\ Len(u) = Len(t) + 1 /\ u[Len(t) + 1] = "P" /\ \A k \in 1..Len(t) : u[k] = t[k]
      BY DEF Classes
    <3> HIDE DEF t, u
    <3>2. Append(t, "P") = u
      BY <3>1, LiteralGrows
    <3> QED BY <3>2 DEF t, u
  <2>5. Append(<<"H", "T", "T", "P">>, "/") = Http
    <3> DEFINE t == <<"H", "T", "T", "P">>
               u == Http
    <3>1. /\ t \in Seq(Classes) /\ "/" \in Classes /\ u \in Seq(Classes)
          /\ Len(u) = Len(t) + 1 /\ u[Len(t) + 1] = "/" /\ \A k \in 1..Len(t) : u[k] = t[k]
      BY DEF Classes, Http
    <3> HIDE DEF t, u
    <3>2. Append(t, "/") = u
      BY <3>1, LiteralGrows
    <3> QED BY <3>2 DEF t, u
  <2> QED BY <2>1, <2>2, <2>3, <2>4, <2>5, Zenon
<1>2. CASE p.state = "http_version_h"
  BY <1>1, <1>2 DEF NextState, Literal, VersionInv
<1>3. CASE p.state = "http_version_t_1"
  BY <1>1, <1>3 DEF NextState, Literal, VersionInv
<1>4. CASE p.state = "http_version_t_2"
  BY <1>1, <1>4 DEF NextState, Literal, VersionInv
<1>5. CASE p.state = "http_version_p"
  BY <1>1, <1>5 DEF NextState, Literal, VersionInv
<1>6. CASE p.state = "http_version_slash"
  BY <1>1, <1>6 DEF NextState, Literal, VersionInv, PushVersion
<1> QED BY <1>2, <1>3, <1>4, <1>5, <1>6

\* The digits and the dot.
LEMMA VersionGoesOn ==
  ASSUME NEW p, NEW ch \in Classes, NEW v \in Seq(Classes), NEW major, NEW minor,
         p.state \in {"http_version_major_start", "http_version_major", "http_version_minor_start",
                      "http_version_minor"},
         VersionInv(p.state, v, major, minor),
         NextState(p, ch) \notin {"false", "expecting_newline_1"}
  PROVE  LET next == NextState(p, ch)
         IN  VersionInv(next, Append(v, ch), PushVersion(major, "http_version_major", p.state, next),
                                             PushVersion(minor, "http_version_minor", p.state, next))
<1> DEFINE w == Append(v, ch)
           l == Len(v)
           next == NextState(p, ch)
<1>1. /\ l \in Nat /\ w \in Seq(Classes) /\ Len(w) = l + 1 /\ w[l + 1] = ch
      /\ \A k \in 1..l : w[k] = v[k]
  BY LenProperties, AppendProperties
<1>2. \A a \in Nat \ {0}, b \in Int : b <= l => SubSeq(w, a, b) = SubSeq(v, a, b)
  BY SliceKept
<1>3. \A a \in 1..l + 1 : SubSeq(w, a, l + 1) = Append(SubSeq(v, a, l), ch) /\ SubSeq(v, a, l) \in Seq(Classes)
  <2>1. \A a \in 1..l + 1 : SubSeq(w, a, l + 1) = Append(SubSeq(v, a, l), ch)
    BY SliceGrows
  <2>2. ASSUME NEW a \in 1..l + 1 PROVE SubSeq(v, a, l) \in Seq(Classes)
    <3>1. a \in Nat \ {0} /\ l \in Int /\ l <= Len(v)
      BY <1>1
    <3> QED BY <3>1, SliceTyped
  <2> QED BY <2>1, <2>2
<1>4. SubSeq(v, l + 1, l) = <<>>
  <2>1. l + 1 \in Nat \ {0} /\ l \in Int /\ l <= Len(v) /\ l < l + 1
    BY <1>1
  <2> QED BY <2>1, EmptySlice
<1>5. Http \in Seq(Classes) /\ Len(Http) = 5 /\ SubSeq(Http, 1, 5) = Http
  <2>1. Http \in Seq(Classes) /\ Len(Http) = 5
    BY DEF Http, Classes
  <2> QED BY <2>1, SubSeqFull
<1> HIDE DEF w
<1>6. CASE p.state = "http_version_major_start"
  <2>1. is_digit(ch) /\ next = "http_version_major"
    BY <1>6 DEF NextState
  <2>2. v = Http /\ major = 0 /\ minor = 0 /\ l = 5
    BY <1>5, <1>6 DEF VersionInv
  <2>3. SubSeq(w, 1, 5) = Http
    <3>1. 1 \in Nat \ {0} /\ 5 \in Int /\ 5 <= l
      BY <2>2
    <3>2. SubSeq(w, 1, 5) = SubSeq(v, 1, 5)
      BY <1>2, <3>1
    <3> QED BY <1>5, <2>2, <3>2
  <2>4. SubSeq(w, 6, Len(w)) = Append(<<>>, ch)
    <3>1. 6 \in 1..l + 1 /\ l + 1 = 6
      BY <2>2
    <3>2. SubSeq(w, l + 1, l + 1) = Append(SubSeq(v, l + 1, l), ch)
      BY <1>1, <1>3, <3>1
    <3> QED BY <1>1, <1>4, <3>1, <3>2
  <2>5. Number(Append(<<>>, ch), PushDigit(0))
    <3>1. <<>> \in Seq(Classes)
      OBVIOUS
    <3> QED BY <2>1, <3>1, NumberGrows
  <2>6. Len(w) >= 6
    BY <1>1, <2>2
  <2> HIDE DEF next
  <2>7. /\ PushVersion(major, "http_version_major", p.state, next) = PushDigit(0)
        /\ PushVersion(minor, "http_version_minor", p.state, next) = 0
    BY <1>6, <2>1, <2>2 DEF PushVersion
  <2>8. VersionInv(next, w, PushDigit(0), 0)
    BY <2>1, <2>3, <2>4, <2>5, <2>6 DEF VersionInv
  <2> QED BY <2>7, <2>8 DEF w, next
<1>7. CASE p.state = "http_version_major"
  <2>0. Len(v) >= 6 /\ SubSeq(v, 1, 5) = Http /\ Number(SubSeq(v, 6, l), major) /\ minor = 0
    BY <1>7 DEF VersionInv
  <2>1. Len(w) >= 7 /\ SubSeq(w, 1, 5) = Http
    <3>1. 1 \in Nat \ {0} /\ 5 \in Int /\ 5 <= l
      BY <1>1, <2>0
    <3>2. SubSeq(w, 1, 5) = SubSeq(v, 1, 5)
      BY <1>2, <3>1
    <3> QED BY <1>1, <2>0, <3>2
  <2>2. CASE next = "http_version_major"
    <3>1. is_digit(ch)
      BY <1>7, <2>2 DEF NextState
    <3>2. 6 \in 1..l + 1
      BY <1>1, <2>0
    <3>3. SubSeq(w, 6, Len(w)) = Append(SubSeq(v, 6, l), ch) /\ SubSeq(v, 6, l) \in Seq(Classes)
      BY <1>1, <1>3, <3>2
    <3>4. Number(SubSeq(w, 6, Len(w)), PushDigit(major))
      BY <2>0, <3>1, <3>3, NumberGrows
    <3>5. Len(w) >= 6
      BY <1>1, <2>1
    <3> HIDE DEF next
    <3>6. /\ PushVersion(major, "http_version_major", p.state, next) = PushDigit(major)
          /\ PushVersion(minor, "http_version_minor", p.state, next) = 0
      BY <1>7, <2>0, <2>2 DEF PushVersion
    <3>7. VersionInv(next, w, PushDigit(major), 0)
      BY <2>1, <2>2, <3>4, <3>5 DEF VersionInv
    <3> QED BY <3>6, <3>7 DEF w, next
  <2>3. CASE next = "http_version_minor_start"
    <3>1. ch = "."
      BY <1>7, <2>3 DEF NextState
    <3>2. w[Len(w)] = "." /\ Len(w) - 1 = l
      BY <1>1, <3>1
    <3>3. 6 \in Nat \ {0} /\ l \in Int /\ l <= l
      BY <1>1
    <3>4. SubSeq(w, 6, Len(w) - 1) = SubSeq(v, 6, l)
      BY <1>2, <3>2, <3>3
    <3>5. Number(SubSeq(w, 6, Len(w) - 1), major)
      BY <2>0, <3>4
    <3> HIDE DEF next
    <3>6. /\ PushVersion(major, "http_version_major", p.state, next) = major
          /\ PushVersion(minor, "http_version_minor", p.state, next) = 0
      BY <1>7, <2>0, <2>3 DEF PushVersion
    <3>7. VersionInv(next, w, major, 0)
      BY <2>1, <2>3, <3>2, <3>5 DEF VersionInv
    <3> QED BY <3>6, <3>7 DEF w, next
  <2> QED BY <1>7, <2>2, <2>3 DEF NextState
<1>8. CASE p.state \in {"http_version_minor_start", "http_version_minor"}
  <2>1. is_digit(ch) /\ next = "http_version_minor"
    BY <1>8 DEF NextState
  <2>2. PICK k \in 7..l : /\ Len(v) >= 7 /\ SubSeq(v, 1, 5) = Http /\ v[k] = "."
                          /\ Number(SubSeq(v, 6, k - 1), major)
                          /\ \/ k = l /\ minor = 0
                             \/ Number(SubSeq(v, k + 1, l), minor)
    <3>1. CASE p.state = "http_version_minor_start"
      BY <1>1, <3>1 DEF VersionInv
    <3>2. CASE p.state = "http_version_minor"
      BY <3>2 DEF VersionInv
    <3> QED BY <1>8, <3>1, <3>2
  <2>3. SubSeq(w, 1, 5) = Http /\ Len(w) >= 7
    <3>1. 1 \in Nat \ {0} /\ 5 \in Int /\ 5 <= l
      BY <1>1, <2>2
    <3>2. SubSeq(w, 1, 5) = SubSeq(v, 1, 5)
      BY <1>2, <3>1
    <3> QED BY <1>1, <2>2, <3>2
  <2>4. SubSeq(w, 6, k - 1) = SubSeq(v, 6, k - 1)
    <3>1. 6 \in Nat \ {0} /\ k - 1 \in Int /\ k - 1 <= l
      BY <1>1
    <3> QED BY <1>2, <3>1
  <2>5. SubSeq(w, k + 1, l + 1) = Append(SubSeq(v, k + 1, l), ch) /\ SubSeq(v, k + 1, l) \in Seq(Classes)
    <3>1. k + 1 \in 1..l + 1
      BY <1>1
    <3> QED BY <1>3, <3>1
  <2>6. Number(SubSeq(w, k + 1, Len(w)), PushDigit(minor))
    <3>1. k = l => SubSeq(v, k + 1, l) = <<>>
      BY <1>4
    <3> QED BY <1>1, <2>1, <2>2, <2>5, <3>1, NumberGrows
  <2>7. k \in 7..Len(w) /\ w[k] = "."
    BY <1>1, <2>2
  <2> HIDE DEF next
  <2>8. /\ PushVersion(major, "http_version_major", p.state, next) = major
        /\ PushVersion(minor, "http_version_minor", p.state, next) = PushDigit(minor)
    BY <1>8, <2>1 DEF PushVersion
  <2>9. Number(SubSeq(w, 6, k - 1), major)
    BY <2>2, <2>4
  <2>10. VersionInv(next, w, major, PushDigit(minor))
    BY <2>1, <2>3, <2>6, <2>7, <2>9 DEF VersionInv
  <2> QED BY <2>8, <2>10 DEF w, next
<1> QED BY <1>6, <1>7, <1>8

\* The method, the space and the uri, when the uri grows.
LEMMA TargetGrows ==
  ASSUME NEW m \in Seq(Classes), NEW u \in Seq(Classes), NEW ch \in Classes
  PROVE  LET t == m \o <<"SP">> \o u
         IN  /\ t \in Seq(Classes) /\ Len(t) = Len(m) + 1 + Len(u)
             /\ m \o <<"SP">> \o Append(u, ch) = Append(t, ch)
             /\ m \o <<"SP">> \o <<>> = Append(m, "SP")
<1> DEFINE sp == <<"SP">>
           c == <<ch>>
<1>1. "SP" \in Classes /\ sp \in Seq(Classes) /\ Len(sp) = 1 /\ c \in Seq(Classes)
  BY DEF Classes
<1>2. Append(m, "SP") = m \o sp
  BY <1>1, AppendIsConcat
<1>3. Append(u, ch) = u \o c
  BY AppendIsConcat
<1> HIDE DEF sp, c
<1>4. m \o sp \in Seq(Classes) /\ Len(m \o sp) = Len(m) + Len(sp)
  BY <1>1, ConcatProperties
<1> DEFINE a == m \o sp
<1> HIDE DEF a
<1>5. a \in Seq(Classes) /\ Len(a) = Len(m) + 1
  BY <1>1, <1>4 DEF a
<1>6. a \o u \in Seq(Classes) /\ Len(a \o u) = Len(a) + Len(u)
  BY <1>5, ConcatProperties
<1>7. Append(a \o u, ch) = (a \o u) \o c
  BY <1>6, AppendIsConcat DEF c
<1>8. (a \o u) \o c = a \o (u \o c)
  BY <1>1, <1>5, ConcatAssociative
<1>9. a \o <<>> = a
  BY <1>5, ConcatEmptySeq
<1>10. a \o u \in Seq(Classes) /\ Len(a \o u) = Len(m) + 1 + Len(u)
  BY <1>5, <1>6
<1>11. a \o Append(u, ch) = Append(a \o u, ch) /\ a \o <<>> = Append(m, "SP")
  BY <1>2, <1>3, <1>7, <1>8, <1>9 DEF a
<1> QED BY <1>10, <1>11 DEF a, sp

\* A prefix of the input stays one.
LEMMA PrefixKept ==
  ASSUME NEW a \in Seq(Classes), NEW s \in Seq(Classes), NEW ch \in Classes
  PROVE  /\ IsPrefix(a, a)
         /\ IsPrefix(a, s) => IsPrefix(a, Append(s, ch))
<1>1. Len(a) \in Nat /\ Len(s) \in Nat /\ Len(Append(s, ch)) = Len(s) + 1
  BY LenProperties, AppendProperties
<1>2. ASSUME Len(a) <= Len(s) PROVE SubSeq(Append(s, ch), 1, Len(a)) = SubSeq(s, 1, Len(a))
  <2>1. 1 \in Nat \ {0} /\ Len(a) \in Int
    BY <1>1
  <2> QED BY <1>2, <2>1, SliceKept
<1>3. Len(a) <= Len(a) /\ (Len(a) <= Len(s) => Len(a) <= Len(Append(s, ch)))
  BY <1>1
<1> QED BY <1>2, <1>3, Zenon DEF IsPrefix

\* The uri grows by characters other than the space.
LEMMA NoSpace ==
  ASSUME NEW u \in Seq(Classes), NEW ch \in Classes, ch # "SP", ~ Contains(u, "SP")
  PROVE  ~ Contains(Append(u, ch), "SP")
<1>1. /\ Len(u) \in Nat /\ Len(Append(u, ch)) = Len(u) + 1 /\ Append(u, ch)[Len(u) + 1] = ch
      /\ \A k \in 1..Len(u) : Append(u, ch)[k] = u[k]
  BY LenProperties, AppendProperties
<1> DEFINE w == Append(u, ch)
<1> HIDE DEF w
<1>2. \A k \in 1..Len(u) + 1 : w[k] # "SP"
  BY <1>1 DEF Contains, w
<1> QED BY <1>1, <1>2 DEF Contains, w

\* What a character before the end of the request line changes.
LEMMA RequestLineCharacter ==
  ASSUME NEW p, ParserInv(p), TextInv(p), p.result = "indeterminate",
         p.state \in RequestLineStates \ {"expecting_newline_1"}, NEW ch \in Classes
  PROVE  LET q == consume(p, ch)
             next == NextState(p, ch)
         IN  /\ q.seen = Append(p.seen, ch) /\ q.seen \in Seq(Classes)
             /\ q.method = IF next = "method" THEN Append(p.method, ch) ELSE p.method
             /\ q.uri = IF next = "uri" /\ p.state # "method" THEN Append(p.uri, ch) ELSE p.uri
             /\ q.major = PushVersion(p.major, "http_version_major", p.state, next)
             /\ q.minor = PushVersion(p.minor, "http_version_minor", p.state, next)
             /\ q.method \in Seq(Classes) /\ q.uri \in Seq(Classes)
             /\ next \in RequestLineStates \cup {"false"}
             /\ q.result = IF next = "false" THEN "false" ELSE "indeterminate"
             /\ next # "false" => q.state = next /\ Ends(q.seen) = {} /\ q.headers = <<>>
<1> DEFINE q == consume(p, ch)
           next == NextState(p, ch)
<1>1. next \in RequestLineStates \cup {"false"}
  <2>1. CASE p.state \in {"method_start", "method", "uri", "http_version_major_start"}
    BY <2>1 DEF NextState, RequestLineStates
  <2>2. CASE p.state \in {"http_version_h", "http_version_t_1", "http_version_t_2", "http_version_p",
                          "http_version_slash"}
    BY <2>2 DEF NextState, Literal, RequestLineStates
  <2>3. CASE p.state \in {"http_version_major", "http_version_minor_start", "http_version_minor"}
    BY <2>3 DEF NextState, RequestLineStates
  <2> QED BY <2>1, <2>2, <2>3 DEF RequestLineStates
<1>2. /\ p.seen \in Seq(Classes) /\ p.method \in Seq(Classes) /\ p.uri \in Seq(Classes)
      /\ Ends(p.seen) = {} /\ p.headers = <<>>
  BY DEF TextInv, RequestLineInv
<1>3. next # "false" => ch # "LF"
  BY NoLineFeed DEF ParserInv, RequestLineStates
<1>4. next # "false" => Ends(Append(p.seen, ch)) = {}
  BY <1>2, <1>3, SameLine
<1>5. /\ Append(p.seen, ch) \in Seq(Classes) /\ Append(p.method, ch) \in Seq(Classes)
      /\ Append(p.uri, ch) \in Seq(Classes)
  BY <1>2, AppendProperties
<1>6. next # "true"
  BY <1>1 DEF RequestLineStates
<1> HIDE DEF next
<1>7. /\ q.seen = Append(p.seen, ch)
      /\ q.method = IF next = "method" THEN Append(p.method, ch) ELSE p.method
      /\ q.uri = IF next = "uri" /\ p.state # "method" THEN Append(p.uri, ch) ELSE p.uri
      /\ q.major = PushVersion(p.major, "http_version_major", p.state, next)
      /\ q.minor = PushVersion(p.minor, "http_version_minor", p.state, next)
      /\ q.result = IF next = "false" THEN "false" ELSE "indeterminate"
      /\ next # "false" => q.state = next
      /\ q.headers = PushHeader(p.headers, p.state, next, ch)
  BY <1>6 DEF consume, next
<1>8. q.headers = p.headers
  BY <1>7 DEF PushHeader, RequestLineStates
<1> HIDE DEF q
<1>9. q.method \in Seq(Classes) /\ q.uri \in Seq(Classes)
  BY <1>2, <1>5, <1>7
<1>10. next # "false" => q.state = next /\ Ends(q.seen) = {} /\ q.headers = <<>>
  BY <1>2, <1>4, <1>7, <1>8
<1> QED BY <1>1, <1>5, <1>7, <1>9, <1>10 DEF q, next

\* The method, and the space after it.
LEMMA MethodRead ==
  ASSUME NEW p, ParserInv(p), TextInv(p), p.result = "indeterminate",
         p.state \in {"method_start", "method"}, NEW ch \in Classes, NextState(p, ch) # "false"
  PROVE  RequestLineInv(consume(p, ch))
<1> DEFINE q == consume(p, ch)
           next == NextState(p, ch)
<1>1. p.state \in RequestLineStates \ {"expecting_newline_1"}
  BY DEF RequestLineStates
<1>2. /\ q.seen = Append(p.seen, ch)
      /\ q.method = IF next = "method" THEN Append(p.method, ch) ELSE p.method
      /\ q.uri = IF next = "uri" /\ p.state # "method" THEN Append(p.uri, ch) ELSE p.uri
      /\ q.method \in Seq(Classes) /\ q.uri \in Seq(Classes)
      /\ q.state = next /\ Ends(q.seen) = {} /\ q.headers = <<>>
  BY <1>1, RequestLineCharacter
<1>3. /\ p.method \in Seq(Classes) /\ p.seen = p.method /\ p.uri = <<>>
      /\ p.method = <<>> \/ Tokens(p.method)
      /\ p.state = "method" => Tokens(p.method)
  BY <1>1 DEF TextInv, RequestLineInv
<1>4. \/ next = "method" /\ Token(ch)
      \/ next = "uri" /\ ch = "SP" /\ p.state = "method"
  BY DEF NextState
<1> SUFFICES RequestLineInv(q)
  OBVIOUS
<1> HIDE DEF q, next
<1>5. CASE next = "method" /\ Token(ch)
  <2>1. Tokens(Append(p.method, ch))
    BY <1>3, <1>5, PartsGrow
  <2>2. q.seen = q.method /\ Tokens(q.method) /\ q.uri = <<>>
    BY <1>2, <1>3, <1>5, <2>1
  <2> QED BY <1>2, <1>5, <2>2 DEF RequestLineInv, VersionStates, RequestLineStates
<1>6. CASE next = "uri" /\ ch = "SP" /\ p.state = "method"
  <2>1. Printable(<<>>) /\ ~ Contains(<<>>, "SP")
    BY DEF Printable, Contains
  <2>2. q.method = p.method /\ q.uri = <<>> /\ q.seen = Append(p.method, "SP")
    BY <1>2, <1>3, <1>6
  <2>3. p.method \o <<"SP">> \o <<>> = Append(p.method, "SP")
    BY <1>3, TargetGrows, EmptySeq
  <2>4. q.seen = Target(q)
    BY <2>2, <2>3 DEF Target
  <2>5. Names(q)
    BY <1>3, <1>6, <2>1, <2>2 DEF Names
  <2> QED BY <1>2, <1>6, <2>4, <2>5 DEF RequestLineInv, VersionStates
<1> QED BY <1>4, <1>5, <1>6

\* The uri, and the space after it.
LEMMA UriRead ==
  ASSUME NEW p, ParserInv(p), TextInv(p), p.result = "indeterminate", p.state = "uri",
         NEW ch \in Classes, NextState(p, ch) # "false"
  PROVE  RequestLineInv(consume(p, ch))
<1> DEFINE q == consume(p, ch)
           next == NextState(p, ch)
<1>1. p.state \in RequestLineStates \ {"expecting_newline_1"}
  BY DEF RequestLineStates
<1>2. /\ q.seen = Append(p.seen, ch) /\ q.seen \in Seq(Classes)
      /\ q.method = IF next = "method" THEN Append(p.method, ch) ELSE p.method
      /\ q.uri = IF next = "uri" /\ p.state # "method" THEN Append(p.uri, ch) ELSE p.uri
      /\ q.method \in Seq(Classes) /\ q.uri \in Seq(Classes)
      /\ q.state = next /\ Ends(q.seen) = {} /\ q.headers = <<>>
  BY <1>1, RequestLineCharacter
<1>3. /\ p.method \in Seq(Classes) /\ p.uri \in Seq(Classes) /\ p.seen = Target(p) /\ Names(p)
  BY <1>1 DEF TextInv, RequestLineInv
<1>4. \/ next = "uri" /\ ~ is_ctl(ch) /\ ch # "SP"
      \/ next = "http_version_h" /\ ch = "SP"
  BY DEF NextState
<1> SUFFICES RequestLineInv(q)
  OBVIOUS
<1> HIDE DEF q, next
<1>5. CASE next = "uri" /\ ~ is_ctl(ch) /\ ch # "SP"
  <2>1. q.method = p.method /\ q.uri = Append(p.uri, ch)
    BY <1>2, <1>5
  <2>2. q.seen = Target(q)
    <3>1. p.method \o <<"SP">> \o Append(p.uri, ch) = Append(p.method \o <<"SP">> \o p.uri, ch)
      BY <1>3, TargetGrows
    <3> QED BY <1>2, <1>3, <2>1, <3>1 DEF Target
  <2>3. Printable(Append(p.uri, ch)) /\ ~ Contains(Append(p.uri, ch), "SP")
    BY <1>3, <1>5, PartsGrow, NoSpace DEF Names
  <2>4. Names(q)
    BY <1>3, <2>1, <2>3 DEF Names
  <2> QED BY <1>2, <1>5, <2>2, <2>4 DEF RequestLineInv, VersionStates
<1>6. CASE next = "http_version_h" /\ ch = "SP"
  <2>1. q.method = p.method /\ q.uri = p.uri
    BY <1>2, <1>6
  <2>2. /\ p.seen \in Seq(Classes) /\ Len(p.seen) = Len(p.method) + 1 + Len(p.uri)
    BY <1>3, TargetGrows DEF Target
  <2>3. Append(p.seen, ch) = p.seen \o <<"SP">> /\ Len(Append(p.seen, ch)) = Len(p.seen) + 1
    <3>1. Append(p.seen, ch) = p.seen \o <<ch>>
      BY <2>2, AppendIsConcat
    <3>2. Len(Append(p.seen, ch)) = Len(p.seen) + 1
      BY <2>2, AppendProperties
    <3> QED BY <1>6, <3>1, <3>2
  <2>4. q.seen = Target(q) \o <<"SP">>
    BY <1>2, <1>3, <2>1, <2>3 DEF Target
  <2>5. IsPrefix(Target(q) \o <<"SP">>, q.seen)
    BY <1>2, <2>4, PrefixKept
  <2>6. VersionText(q) = <<>>
    <3>1. Len(p.method) \in Nat /\ Len(p.uri) \in Nat
      BY <1>3, LenProperties
    <3>2. VersionStart(q) = Len(q.seen) + 1 /\ Len(q.seen) \in Nat
      <4>1. Len(q.seen) = Len(p.method) + 1 + Len(p.uri) + 1
        BY <1>2, <2>2, <2>3
      <4>2. VersionStart(q) = Len(p.method) + Len(p.uri) + 3
        BY <2>1 DEF VersionStart
      <4> DEFINE m == Len(p.method)
                 u == Len(p.uri)
                 l == Len(q.seen)
                 v == VersionStart(q)
      <4>3. m \in Nat /\ u \in Nat /\ l = m + 1 + u + 1 /\ v = m + u + 3
        BY <3>1, <4>1, <4>2
      <4> HIDE DEF m, u, l, v
      <4>4. v = l + 1 /\ l \in Nat
        BY <4>3
      <4> QED BY <4>4 DEF l, v
    <3>3. /\ Len(q.seen) + 1 \in Nat \ {0} /\ Len(q.seen) \in Int /\ Len(q.seen) <= Len(q.seen)
          /\ Len(q.seen) < Len(q.seen) + 1
      BY <3>2
    <3> QED BY <1>2, <3>2, <3>3, EmptySlice DEF VersionText
  <2>7. Names(q)
    BY <1>3, <2>1 DEF Names
  <2>8. VersionInv("http_version_h", <<>>, q.major, q.minor)
    BY DEF VersionInv
  <2> QED BY <1>2, <1>6, <2>5, <2>6, <2>7, <2>8 DEF RequestLineInv
<1> QED BY <1>4, <1>5, <1>6

\* The automaton stays in the version until the carriage return.
LEMMA NextVersionStates ==
  ASSUME NEW p, p.state \in VersionStates, NEW ch
  PROVE  /\ NextState(p, ch) \in VersionStates \cup {"false", "expecting_newline_1"}
         /\ NextState(p, ch) = "expecting_newline_1" => p.state = "http_version_minor" /\ ch = "CR"
<1>1. CASE p.state \in {"http_version_h", "http_version_t_1", "http_version_t_2"}
  BY <1>1 DEF NextState, Literal, VersionStates, RequestLineStates
<1>2. CASE p.state \in {"http_version_p", "http_version_slash"}
  BY <1>2 DEF NextState, Literal, VersionStates, RequestLineStates
<1>3. CASE p.state \in {"http_version_major_start", "http_version_major"}
  BY <1>3 DEF NextState, VersionStates, RequestLineStates
<1>4. CASE p.state \in {"http_version_minor_start", "http_version_minor"}
  BY <1>4 DEF NextState, VersionStates, RequestLineStates
<1> QED BY <1>1, <1>2, <1>3, <1>4 DEF VersionStates, RequestLineStates

\* The version, and the carriage return after it.
LEMMA VersionRead ==
  ASSUME NEW p, ParserInv(p), TextInv(p), p.result = "indeterminate", p.state \in VersionStates,
         NEW ch \in Classes, NextState(p, ch) # "false"
  PROVE  RequestLineInv(consume(p, ch))
<1> DEFINE q == consume(p, ch)
           next == NextState(p, ch)
           s == p.seen
           line == Target(p) \o <<"SP">>
           text == VersionText(p)
<1>1. p.state \in RequestLineStates \ {"expecting_newline_1"} /\ p.state \notin {"method", "uri"}
  BY DEF RequestLineStates, VersionStates
<1>2. /\ q.seen = Append(s, ch) /\ q.seen \in Seq(Classes)
      /\ q.method = IF next = "method" THEN Append(p.method, ch) ELSE p.method
      /\ q.uri = IF next = "uri" /\ p.state # "method" THEN Append(p.uri, ch) ELSE p.uri
      /\ q.major = PushVersion(p.major, "http_version_major", p.state, next)
      /\ q.minor = PushVersion(p.minor, "http_version_minor", p.state, next)
      /\ q.state = next /\ Ends(q.seen) = {} /\ q.headers = <<>>
  BY <1>1, RequestLineCharacter
<1>3. /\ p.method \in Seq(Classes) /\ p.uri \in Seq(Classes) /\ s \in Seq(Classes)
      /\ IsPrefix(line, s) /\ Names(p)
      /\ VersionInv(p.state, text, p.major, p.minor)
  BY <1>1 DEF TextInv, RequestLineInv
<1>4. \/ next \in VersionStates
      \/ next = "expecting_newline_1" /\ p.state = "http_version_minor" /\ ch = "CR"
  BY NextVersionStates
<1>5. q.method = p.method /\ q.uri = p.uri /\ Target(q) = Target(p) /\ Names(q)
  <2>1. next \notin {"method", "uri"}
    BY <1>4 DEF VersionStates
  <2>2. q.method = p.method /\ q.uri = p.uri
    BY <1>2, <2>1
  <2> HIDE DEF q
  <2> QED BY <1>3, <2>2 DEF Target, Names
<1>6. line \in Seq(Classes) /\ Len(line) = Len(p.method) + Len(p.uri) + 2
  <2>1. Target(p) \in Seq(Classes) /\ Len(Target(p)) = Len(p.method) + 1 + Len(p.uri)
    BY <1>3, TargetGrows DEF Target
  <2>2. <<"SP">> \in Seq(Classes) /\ Len(<<"SP">>) = 1
    BY DEF Classes
  <2>3. line \in Seq(Classes) /\ Len(line) = Len(Target(p)) + Len(<<"SP">>)
    BY <2>1, <2>2, ConcatProperties
  <2>4. Len(p.method) \in Nat /\ Len(p.uri) \in Nat
    BY <1>3, LenProperties
  <2> DEFINE m == Len(p.method)
             u == Len(p.uri)
             t == Len(Target(p))
             l == Len(line)
  <2>5. m \in Nat /\ u \in Nat /\ t = m + 1 + u /\ l = t + 1
    BY <2>1, <2>2, <2>3, <2>4
  <2> HIDE DEF m, u, t, l
  <2>6. l = m + u + 2
    BY <2>5
  <2> QED BY <2>3, <2>6 DEF m, u, l
<1> SUFFICES RequestLineInv(q)
  OBVIOUS
<1> HIDE DEF q, next, line
<1>7. IsPrefix(line, q.seen)
  BY <1>2, <1>3, <1>6, PrefixKept
<1>8. /\ Len(s) \in Nat /\ Len(q.seen) = Len(s) + 1 /\ q.seen[Len(s) + 1] = ch
      /\ VersionStart(p) \in 1..Len(s) + 1
  <2>1. Len(s) \in Nat /\ Len(q.seen) = Len(s) + 1 /\ q.seen[Len(s) + 1] = ch
    BY <1>2, <1>3, LenProperties, AppendProperties
  <2>2. Len(p.method) \in Nat /\ Len(p.uri) \in Nat
    BY <1>3, LenProperties
  <2>3. Len(line) <= Len(s)
    BY <1>3 DEF IsPrefix
  <2> DEFINE m == Len(p.method)
             u == Len(p.uri)
             l == Len(s)
             v == VersionStart(p)
  <2>4. m \in Nat /\ u \in Nat /\ l \in Nat /\ m + u + 2 <= l /\ v = m + u + 3
    BY <1>6, <2>1, <2>2, <2>3 DEF VersionStart
  <2> HIDE DEF m, u, l, v
  <2>5. v \in 1..l + 1
    BY <2>4
  <2> QED BY <2>1, <2>5 DEF l, v
<1>9. text \in Seq(Classes)
  <2>1. VersionStart(p) \in Nat \ {0} /\ Len(s) \in Int /\ Len(s) <= Len(s)
    BY <1>8
  <2> QED BY <1>3, <2>1, SliceTyped DEF VersionText
<1>10. CASE next \in VersionStates
  <2>1. VersionText(q) = Append(text, ch)
    <3>1. VersionStart(q) = VersionStart(p)
      BY <1>5 DEF VersionStart
    <3>2. SubSeq(Append(s, ch), VersionStart(p), Len(s) + 1) = Append(SubSeq(s, VersionStart(p), Len(s)), ch)
      BY <1>3, <1>8, SliceGrows
    <3> QED BY <1>2, <1>8, <3>1, <3>2 DEF VersionText
  <2> HIDE DEF text
  <2>2. VersionInv(next, Append(text, ch), q.major, q.minor)
    <3>1. CASE p.state \in {"http_version_h", "http_version_t_1", "http_version_t_2", "http_version_p",
                            "http_version_slash"}
      <4>1. VersionInv(next, Append(text, ch), PushVersion(p.major, "http_version_major", p.state, next),
                                               PushVersion(p.minor, "http_version_minor", p.state, next))
        BY <1>3, <3>1, VersionBegins DEF next
      <4> QED BY <1>2, <4>1
    <3>2. CASE p.state \in {"http_version_major_start", "http_version_major",
                            "http_version_minor_start", "http_version_minor"}
      <4>1. next \notin {"false", "expecting_newline_1"}
        BY <1>10 DEF VersionStates, RequestLineStates
      <4>2. VersionInv(next, Append(text, ch), PushVersion(p.major, "http_version_major", p.state, next),
                                               PushVersion(p.minor, "http_version_minor", p.state, next))
        BY <1>3, <1>9, <3>2, <4>1, VersionGoesOn DEF next
      <4> QED BY <1>2, <4>2
    <3> QED BY <3>1, <3>2 DEF VersionStates, RequestLineStates
  <2>3. IsPrefix(Target(q) \o <<"SP">>, q.seen)
    BY <1>5, <1>7 DEF line
  <2>4. q.state \in VersionStates /\ q.state \notin {"method_start", "method", "uri", "expecting_newline_1"}
    BY <1>2, <1>10 DEF VersionStates
  <2> QED BY <1>2, <1>5, <2>1, <2>2, <2>3, <2>4, Zenon DEF RequestLineInv
<1>11. CASE next = "expecting_newline_1" /\ p.state = "http_version_minor" /\ ch = "CR"
  <2>1. SubSeq(q.seen, 1, Len(q.seen) - 1) = s
    <3>1. 1 \in Nat \ {0} /\ Len(s) \in Int /\ Len(s) <= Len(s)
      BY <1>8
    <3>2. SubSeq(Append(s, ch), 1, Len(s)) = SubSeq(s, 1, Len(s))
      BY <1>3, <3>1, SliceKept
    <3>3. SubSeq(s, 1, Len(s)) = s
      BY <1>3, SubSeqFull
    <3>4. Len(q.seen) - 1 = Len(s)
      BY <1>8
    <3> QED BY <1>2, <3>2, <3>3, <3>4
  <2>2. q.major = p.major /\ q.minor = p.minor
    BY <1>2, <1>11 DEF PushVersion
  <2>3. IsVersion(text, p.major, p.minor)
    <3> HIDE DEF text
    <3>1. Len(text) >= 7 /\ SubSeq(text, 1, 5) = Http
      BY <1>3, <1>11 DEF VersionInv
    <3>2. PICK k \in 7..Len(text) :
            /\ text[k] = "." /\ Number(SubSeq(text, 6, k - 1), p.major)
            /\ Number(SubSeq(text, k + 1, Len(text)), p.minor)
      BY <1>3, <1>11 DEF VersionInv
    <3>3. ASSUME NEW d, NEW v, Number(d, v) PROVE IsNumber(d, v)
      BY <3>3 DEF Number, Holds, IsNumber
    <3>4. IsNumber(SubSeq(text, 6, k - 1), p.major) /\ IsNumber(SubSeq(text, k + 1, Len(text)), p.minor)
      BY <3>2, <3>3
    <3>5. Len(text) >= 5
      BY <1>9, <3>1, LenProperties
    <3> QED BY <3>1, <3>2, <3>4, <3>5 DEF IsVersion, Http
  <2>4. IsRequestLine(s, q)
    <3>1. q.method \o <<"SP">> \o q.uri \o <<"SP">> = line
      BY <1>5 DEF line, Target
    <3>2. SubSeq(s, Len(q.method) + Len(q.uri) + 3, Len(s)) = text
      BY <1>5 DEF VersionText, VersionStart
    <3> HIDE DEF text
    <3> QED BY <1>3, <1>5, <2>2, <2>3, <3>1, <3>2, Zenon DEF IsRequestLine, Names
  <2>5. q.seen # <<>> /\ q.seen[Len(q.seen)] = "CR"
    <3>1. q.seen # <<>>
      BY <1>2, <1>3, AppendProperties
    <3> QED BY <1>8, <1>11, <3>1
  <2>6. q.state = "expecting_newline_1" /\ "expecting_newline_1" \notin VersionStates
    BY <1>2, <1>11 DEF VersionStates
  <2>7. q.state \notin {"method_start", "method", "uri"}
    BY <2>6
  <2> QED BY <1>2, <2>1, <2>4, <2>5, <2>6, <2>7, Zenon DEF RequestLineInv
<1> QED BY <1>4, <1>10, <1>11

\* A character before the end of the request line.
LEMMA RequestLine ==
  ASSUME NEW p, ParserInv(p), TextInv(p), p.result = "indeterminate",
         p.state \in RequestLineStates \ {"expecting_newline_1"}, NEW ch \in Classes
  PROVE  TextInv(consume(p, ch))
<1> DEFINE q == consume(p, ch)
           next == NextState(p, ch)
<1>1. /\ q.seen \in Seq(Classes) /\ q.method \in Seq(Classes) /\ q.uri \in Seq(Classes)
      /\ next \in RequestLineStates \cup {"false"}
      /\ q.result = IF next = "false" THEN "false" ELSE "indeterminate"
      /\ next # "false" => q.state = next
  BY RequestLineCharacter
<1>2. next # "false" => RequestLineInv(q)
  BY MethodRead, UriRead, VersionRead DEF VersionStates
<1> SUFFICES TextInv(q)
  OBVIOUS
<1> HIDE DEF q, next
<1> QED BY <1>1, <1>2 DEF TextInv

-----------------------------------------------------------------------------
(* The whole input.                                                        *)

\* What has been read fits the state the parser is in, and brings it there.
ReadInv(p) == ParserInv(p) /\ TextInv(p) /\ p = parse(request_parser, p.seen)

\* A character keeps it so.
LEMMA AdvanceInv ==
  ASSUME NEW p, ReadInv(p), NEW ch \in Classes
  PROVE  ReadInv(Advance(p, ch))
<1>1. CASE p.result # "indeterminate"
  BY <1>1 DEF Advance
<1>2. CASE p.result = "indeterminate"
  <2>1. p.state \in States
    BY DEF ReadInv, ParserInv
  <2>2. TextInv(consume(p, ch))
    <3>1. CASE p.state \in RequestLineStates \ {"expecting_newline_1"}
      BY <1>2, <3>1, RequestLine DEF ReadInv
    <3>2. CASE p.state \in HeaderStates \cup {"header_line_start"}
      BY <1>2, <3>2, WithinLine DEF ReadInv
    <3>3. CASE p.state \in {"expecting_newline_1", "expecting_newline_2"}
      BY <1>2, <3>3, LineOver DEF ReadInv
    <3>4. CASE p.state = "expecting_newline_3"
      BY <1>2, <3>4, RequestOver DEF ReadInv
    <3> QED BY <2>1, <3>1, <3>2, <3>3, <3>4 DEF States, LineStates
  <2>3. ParserInv(consume(p, ch))
    BY ConsumeInv DEF ReadInv
  <2>4. consume(p, ch) = parse(request_parser, consume(p, ch).seen)
    <3>1. p.seen \in Seq(Classes) /\ <<ch>> \in Seq(Classes)
      BY DEF ReadInv, TextInv
    <3>2. consume(p, ch).seen = p.seen \o <<ch>>
      BY <3>1, AppendIsConcat DEF consume
    <3>3. parse(parse(request_parser, p.seen), <<ch>>) = parse(request_parser, p.seen \o <<ch>>)
      <4> DEFINE c == <<ch>>
      <4>1. c \in Seq(Classes)
        BY <3>1
      <4> HIDE DEF c
      <4>2. parse(parse(request_parser, p.seen), c) = parse(request_parser, p.seen \o c)
        BY <3>1, <4>1, ParseInPieces
      <4> QED BY <4>2 DEF c
    <3>4. p = parse(request_parser, p.seen)
      BY DEF ReadInv
    <3>5. parse(p, <<ch>>) = parse(request_parser, p.seen \o <<ch>>)
      BY <3>3, <3>4, Zenon
    <3>6. parse(p, <<ch>>) = consume(p, ch)
      BY <1>2, ParseOne DEF Advance
    <3> QED BY <3>2, <3>5, <3>6, Zenon
  <2> QED BY <1>2, <2>2, <2>3, <2>4 DEF Advance, ReadInv
<1> QED BY <1>1, <1>2

\* So does a read.
LEMMA ReadKeeps ==
  ASSUME NEW p, ReadInv(p), NEW chunk \in Seq(Classes)
  PROVE  ReadInv(parse(p, chunk))
<1>1. PICK run : IsRun(run, p, chunk, Len(chunk)) /\ parse(p, chunk) = run[Len(chunk)]
  BY ParseRun
<1>2. Len(chunk) \in Nat /\ \A k \in 1..Len(chunk) : chunk[k] \in Classes
  BY LenProperties, ElementOfSeq
<1>3. \A k \in 0..Len(chunk) : run[k] = IF k = 0 THEN p ELSE Advance(run[k - 1], chunk[k])
  BY <1>1 DEF IsRun
<1> DEFINE T == {k \in Nat : k <= Len(chunk) /\ ~ ReadInv(run[k])}
<1>4. T = {}
  <2> SUFFICES ASSUME T # {} PROVE FALSE
    OBVIOUS
  <2>1. PICK k \in T : \A j \in T : k <= j
    BY LeastNumber
  <2>2. k # 0
    BY <1>2, <1>3
  <2>3. ReadInv(run[k - 1]) /\ run[k] = Advance(run[k - 1], chunk[k]) /\ chunk[k] \in Classes
    BY <1>2, <1>3, <2>1, <2>2
  <2> QED BY <2>3, AdvanceInv
<1> QED BY <1>1, <1>2, <1>4

\* It holds after every read.
LEMMA ReadInvariant == Spec => []ReadInv(parser)
<1>1. Init => ReadInv(parser)
  <2>1. Ends(<<>>) = {}
    BY DEF Ends
  <2>2. TextInv(request_parser)
    BY <2>1 DEF request_parser, TextInv, RequestLineInv, RequestLineStates, VersionStates
  <2>3. ParserInv(request_parser)
    BY DEF request_parser, ParserInv, States, RequestLineStates, HeaderStates, LineStates
  <2>4. request_parser.seen = <<>>
    BY DEF request_parser
  <2> QED BY <2>2, <2>3, <2>4, ParseNone DEF Init, ReadInv
<1>2. ReadInv(parser) /\ [Next]_vars => ReadInv(parser)'
  <2>1. ASSUME ReadInv(parser), NEW chunk \in Chunks, handle_read(chunk)
        PROVE  ReadInv(parser)'
    BY <2>1, ChunkClasses, ReadKeeps DEF handle_read
  <2>2. ASSUME ReadInv(parser), UNCHANGED vars
        PROVE  ReadInv(parser)'
    BY <2>2 DEF vars
  <2> QED BY <2>1, <2>2 DEF Next
<1> QED BY <1>1, <1>2, PTL DEF Spec

\* parse returns true only for a request: whatever the input, and however the
\* reads have cut it into pieces, the characters consumed are a request line,
\* header fields and folded lines, and the empty line; the request_ that
\* handle_read passes on has the method and the uri of that line, and its
\* version numbers as far as an int holds them.
THEOREM ParsesRequests == Spec => []TrueOnlyForRequests
<1>1. ReadInv(parser) => TrueOnlyForRequests
  BY DEF ReadInv, TextInv, TrueOnlyForRequests
<1> QED BY <1>1, ReadInvariant, PTL

-----------------------------------------------------------------------------
(* No request is refused.                                                 *)

\* Once the result is settled, parse changes nothing.
LEMMA Settled ==
  ASSUME NEW p, p.result # "indeterminate", NEW chunk \in Seq(Classes)
  PROVE  parse(p, chunk) = p
<1>1. PICK run : IsRun(run, p, chunk, Len(chunk)) /\ parse(p, chunk) = run[Len(chunk)]
  BY ParseRun
<1>2. Len(chunk) \in Nat
  BY LenProperties
<1>3. \A k \in 0..Len(chunk) : run[k] = IF k = 0 THEN p ELSE Advance(run[k - 1], chunk[k])
  BY <1>1 DEF IsRun
<1> DEFINE T == {k \in Nat : k <= Len(chunk) /\ run[k] # p}
<1>4. T = {}
  <2> SUFFICES ASSUME T # {} PROVE FALSE
    OBVIOUS
  <2>1. PICK k \in T : \A j \in T : k <= j
    BY LeastNumber
  <2>2. k # 0
    BY <1>2, <1>3
  <2>3. run[k - 1] = p /\ run[k] = Advance(run[k - 1], chunk[k])
    BY <1>2, <1>3, <2>1, <2>2
  <2> QED BY <2>1, <2>3 DEF Advance
<1> QED BY <1>1, <1>2, <1>4

\* What a line, and a request, are made of.  Unlike IsRequest, which takes the
\* input apart, this puts it together.
TokenChars == {ch \in Classes : Token(ch)}
UriChars == {ch \in Classes : ~ is_ctl(ch) /\ ch # "SP"}
DigitChars == {ch \in Classes : is_digit(ch)}
ValueChars == {ch \in Classes : ~ is_ctl(ch)}
White == {"SP", "HT"}

NonEmpty(S) == Seq(S) \ {<<>>}

VersionWord(major, minor) == Http \o major \o <<".">> \o minor
FieldText(name, value) == name \o <<":", "SP">> \o value
FoldedText(white, value) == white \o value

VersionWords ==
  {VersionWord(major, minor) : major \in NonEmpty(DigitChars), minor \in NonEmpty(DigitChars)}
FieldLines == {FieldText(name, value) : name \in NonEmpty(TokenChars), value \in Seq(ValueChars)}
FoldedLines == {FoldedText(white, value) : white \in NonEmpty(White), value \in Seq(ValueChars)}

\* A header starts with a field and goes on with fields and folded lines.
HeaderClosed(T) ==
  /\ \A l \in FieldLines : l \o CRLF \in T
  /\ \A h \in T, l \in FieldLines \cup FoldedLines : h \o l \o CRLF \in T
Headers == {h \in Seq(Classes) : \A T \in SUBSET Seq(Classes) : HeaderClosed(T) => h \in T}

Request(m, u, v, h) == m \o <<"SP">> \o u \o <<"SP">> \o v \o CRLF \o h \o CRLF

Requests ==
  {Request(m, u, v, h) : m \in NonEmpty(TokenChars), u \in Seq(UriChars), v \in VersionWords,
                         h \in {<<>>} \cup Headers}

\* They are made of the classes of characters.
LEMMA CharsAreClasses ==
  /\ {TokenChars, UriChars, DigitChars, ValueChars, White} \subseteq SUBSET Classes
  /\ \A S \in SUBSET Classes : Seq(S) \subseteq Seq(Classes)
<1>1. {TokenChars, UriChars, DigitChars, ValueChars, White} \subseteq SUBSET Classes
  BY DEF TokenChars, UriChars, DigitChars, ValueChars, White, Classes
<1>2. \A S \in SUBSET Classes : Seq(S) \subseteq Seq(Classes)
  BY SeqMonotonic
<1> QED BY <1>1, <1>2

\* The parser asks for more data, in one of some states.
In(p, S) == ParserInv(p) /\ p.result = "indeterminate" /\ p.state \in S

\* Characters of C lead from states in S to states in T.
Leads(S, C, T) == \A q, ch : q.state \in S /\ ch \in C => NextState(q, ch) \in T

\* A character the automaton accepts.
LEMMA Accepts ==
  ASSUME NEW p, NEW S, In(p, S), NEW ch \in Classes, NEW T, NextState(p, ch) \in T, T \cap Results = {}
  PROVE  In(Advance(p, ch), T)
<1>1. ParserInv(consume(p, ch))
  BY ConsumeInv DEF In
<1> DEFINE next == NextState(p, ch)
<1> HIDE DEF next
<1>2. next \in T /\ next \notin Results
  BY DEF next
<1>3. consume(p, ch).result = "indeterminate" /\ consume(p, ch).state = next
  BY <1>2 DEF consume, Results, next
<1>4. Advance(p, ch) = consume(p, ch)
  BY DEF Advance, In
<1> QED BY <1>1, <1>2, <1>3, <1>4 DEF In

\* One such character is a piece of the input.
LEMMA OneCharacter ==
  ASSUME NEW p, NEW S, In(p, S), NEW ch \in Classes, NEW T, Leads(S, {ch}, T), T \cap Results = {}
  PROVE  In(parse(p, <<ch>>), T)
<1>1. NextState(p, ch) \in T
  BY DEF In, Leads
<1> QED BY <1>1, Accepts, ParseOne

\* The next piece of the input is parsed from where the one before it ended.
LEMMA NextPiece ==
  ASSUME NEW p, NEW a \in Seq(Classes), NEW b \in Seq(Classes)
  PROVE  a \o b \in Seq(Classes) /\ parse(p, a \o b) = parse(parse(p, a), b)
BY ParseInPieces, ConcatProperties

\* In states that read on, a piece of their characters changes nothing.
LEMMA ReadsOn ==
  ASSUME NEW p, NEW S, In(p, S), S \cap Results = {}, NEW C \in SUBSET Classes, Leads(S, C, S),
         NEW chunk \in Seq(C)
  PROVE  In(parse(p, chunk), S)
<1>1. PICK run : IsRun(run, p, chunk, Len(chunk)) /\ parse(p, chunk) = run[Len(chunk)]
  BY ParseRun
<1>2. Len(chunk) \in Nat /\ \A k \in 1..Len(chunk) : chunk[k] \in C
  BY LenProperties, ElementOfSeq
<1>3. \A k \in 0..Len(chunk) : run[k] = IF k = 0 THEN p ELSE Advance(run[k - 1], chunk[k])
  BY <1>1 DEF IsRun
<1> DEFINE T == {k \in Nat : k <= Len(chunk) /\ ~ In(run[k], S)}
<1>4. T = {}
  <2> SUFFICES ASSUME T # {} PROVE FALSE
    OBVIOUS
  <2>1. PICK k \in T : \A j \in T : k <= j
    BY LeastNumber
  <2>2. k # 0
    BY <1>2, <1>3
  <2>3. In(run[k - 1], S) /\ run[k] = Advance(run[k - 1], chunk[k]) /\ chunk[k] \in C
    BY <1>2, <1>3, <2>1, <2>2
  <2>4. NextState(run[k - 1], chunk[k]) \in S /\ chunk[k] \in Classes
    BY <2>3 DEF In, Leads
  <2> QED BY <2>1, <2>3, <2>4, Accepts
<1> QED BY <1>1, <1>2, <1>4

\* A piece that is not empty may start in another state.
LEMMA StartsAndReadsOn ==
  ASSUME NEW p, NEW R, In(p, R), NEW S, S \cap Results = {}, NEW C \in SUBSET Classes,
         \A ch \in C : NextState(p, ch) \in S, Leads(S, C, S), NEW chunk \in NonEmpty(C)
  PROVE  In(parse(p, chunk), S)
<1> DEFINE first == <<chunk[1]>>
           rest == SubSeq(chunk, 2, Len(chunk))
<1>1. chunk \in Seq(C) /\ Len(chunk) \in Nat \ {0}
  BY EmptySeq DEF NonEmpty
<1>2. 1 \in 1..Len(chunk) /\ Len(chunk) \in 1..Len(chunk) /\ 1 + 1 = 2
  BY <1>1
<1>3. chunk = first \o rest
  <2>1. SubSeq(chunk, 1, Len(chunk)) = <<chunk[1]>> \o SubSeq(chunk, 1 + 1, Len(chunk))
    BY <1>1, <1>2, SubSeqRecursiveFirst
  <2>2. SubSeq(chunk, 1, Len(chunk)) = chunk
    BY <1>1, SubSeqFull
  <2> QED BY <2>1, <2>2, <1>2, Zenon
<1>4. rest \in Seq(C)
  <2>1. 2 \in Nat \ {0} /\ Len(chunk) \in Int /\ Len(chunk) <= Len(chunk)
    BY <1>1
  <2> QED BY <1>1, <2>1, SliceTyped
<1>5. chunk[1] \in C /\ chunk[1] \in Classes /\ first \in Seq(Classes)
  <2>1. chunk[1] \in C
    BY <1>1, <1>2, ElementOfSeq
  <2> QED BY <2>1
<1>6. In(parse(p, first), S)
  BY <1>5, Accepts, ParseOne
<1>7. rest \in Seq(Classes)
  BY <1>4, SeqMonotonic
<1> HIDE DEF first, rest
<1>8. In(parse(parse(p, first), rest), S)
  BY <1>4, <1>6, ReadsOn
<1>9. parse(p, first \o rest) = parse(parse(p, first), rest)
  BY <1>5, <1>7, NextPiece
<1> QED BY <1>3, <1>8, <1>9, Zenon

\* The method, the uri, and the spaces after them.
LEMMA TargetPiece ==
  ASSUME NEW p, In(p, {"method_start"}), NEW m \in NonEmpty(TokenChars), NEW u \in Seq(UriChars)
  PROVE  LET t == m \o <<"SP">> \o u \o <<"SP">>
         IN  t \in Seq(Classes) /\ In(parse(p, t), {"http_version_h"})
<1> DEFINE sp == <<"SP">>
<1>1. "SP" \in Classes /\ sp \in Seq(Classes)
  BY DEF Classes
<1>2. m \in Seq(Classes) /\ u \in Seq(Classes) /\ TokenChars \in SUBSET Classes /\ UriChars \in SUBSET Classes
  BY CharsAreClasses DEF NonEmpty
<1>3. In(parse(p, m), {"method"})
  <2>1. \A ch \in TokenChars : NextState(p, ch) \in {"method"}
    BY DEF TokenChars, In, NextState
  <2>2. Leads({"method"}, TokenChars, {"method"})
    BY DEF Leads, TokenChars, Token, is_tspecial, NextState
  <2>3. {"method"} \cap Results = {}
    BY DEF Results
  <2> QED BY <1>2, <2>1, <2>2, <2>3, StartsAndReadsOn
<1>4. ASSUME NEW q
      PROVE  /\ In(q, {"method"}) => In(parse(q, sp), {"uri"})
             /\ In(q, {"uri"}) => In(parse(q, sp), {"http_version_h"})
  <2>1. Leads({"method"}, {"SP"}, {"uri"}) /\ Leads({"uri"}, {"SP"}, {"http_version_h"})
    BY DEF Leads, NextState
  <2>2. {"uri"} \cap Results = {} /\ {"http_version_h"} \cap Results = {}
    BY DEF Results
  <2> QED BY <1>1, <2>1, <2>2, OneCharacter
<1>5. ASSUME NEW q, In(q, {"uri"}) PROVE In(parse(q, u), {"uri"})
  <2>1. Leads({"uri"}, UriChars, {"uri"})
    BY DEF Leads, UriChars, NextState
  <2>2. {"uri"} \cap Results = {}
    BY DEF Results
  <2> QED BY <1>2, <1>5, <2>1, <2>2, ReadsOn
<1> HIDE DEF sp
<1> DEFINE a == m \o sp
           b == a \o u
<1>6. a \in Seq(Classes) /\ In(parse(p, a), {"uri"})
  BY <1>1, <1>2, <1>3, <1>4, NextPiece
<1> HIDE DEF a
<1>7. b \in Seq(Classes) /\ In(parse(p, b), {"uri"})
  BY <1>2, <1>5, <1>6, NextPiece
<1> HIDE DEF b
<1>8. b \o sp \in Seq(Classes) /\ In(parse(p, b \o sp), {"http_version_h"})
  BY <1>1, <1>4, <1>7, NextPiece
<1> QED BY <1>8 DEF a, b, sp

\* The name of the protocol.
LEMMA HttpPiece ==
  ASSUME NEW p, In(p, {"http_version_h"})
  PROVE  Http \in Seq(Classes) /\ In(parse(p, Http), {"http_version_major_start"})
<1> DEFINE v == Http
<1>1. v \in Seq(Classes) /\ Len(v) = 5 /\ \A k \in 1..5 : v[k] \in Classes
  BY DEF Http, Classes
<1>2. v[1] = "H" /\ v[2] = "T" /\ v[3] = "T" /\ v[4] = "P" /\ v[5] = "/"
  BY DEF Http
<1> HIDE DEF v
<1>3. PICK run : IsRun(run, p, v, 5) /\ parse(p, v) = run[5]
  BY <1>1, ParseRun
<1>4. run[0] = p /\ \A k \in 1..5 : run[k] = Advance(run[k - 1], v[k])
  BY <1>3 DEF IsRun
<1>5. ASSUME NEW k \in 1..5, NEW S, NEW T, In(run[k - 1], S), Leads(S, {v[k]}, T), T \cap Results = {}
      PROVE  In(run[k], T)
  <2>1. NextState(run[k - 1], v[k]) \in T
    BY <1>5 DEF In, Leads
  <2> QED BY <1>1, <1>4, <1>5, <2>1, Accepts
<1>6. In(run[1], {"http_version_t_1"})
  <2>1. Leads({"http_version_h"}, {v[1]}, {"http_version_t_1"})
    BY <1>2 DEF Leads, NextState, Literal
  <2> QED BY <1>4, <1>5, <2>1 DEF Results
<1>7. In(run[2], {"http_version_t_2"})
  <2>1. Leads({"http_version_t_1"}, {v[2]}, {"http_version_t_2"})
    BY <1>2 DEF Leads, NextState, Literal
  <2> QED BY <1>5, <1>6, <2>1 DEF Results
<1>8. In(run[3], {"http_version_p"})
  <2>1. Leads({"http_version_t_2"}, {v[3]}, {"http_version_p"})
    BY <1>2 DEF Leads, NextState, Literal
  <2> QED BY <1>5, <1>7, <2>1 DEF Results
<1>9. In(run[4], {"http_version_slash"})
  <2>1. Leads({"http_version_p"}, {v[4]}, {"http_version_slash"})
    BY <1>2 DEF Leads, NextState, Literal
  <2> QED BY <1>5, <1>8, <2>1 DEF Results
<1>10. In(run[5], {"http_version_major_start"})
  <2>1. Leads({"http_version_slash"}, {v[5]}, {"http_version_major_start"})
    BY <1>2 DEF Leads, NextState, Literal
  <2> QED BY <1>5, <1>9, <2>1 DEF Results
<1> QED BY <1>1, <1>3, <1>10 DEF v

\* The version.
LEMMA VersionPiece ==
  ASSUME NEW p, In(p, {"http_version_h"}), NEW v \in VersionWords
  PROVE  v \in Seq(Classes) /\ In(parse(p, v), {"http_version_minor"})
<1> DEFINE dot == <<".">>
<1>1. PICK major \in NonEmpty(DigitChars), minor \in NonEmpty(DigitChars) : v = VersionWord(major, minor)
  BY DEF VersionWords
<1>2. "." \in Classes /\ dot \in Seq(Classes)
  BY DEF Classes
<1>3. major \in Seq(Classes) /\ minor \in Seq(Classes) /\ DigitChars \in SUBSET Classes
  BY CharsAreClasses DEF NonEmpty
<1>4. Http \in Seq(Classes) /\ In(parse(p, Http), {"http_version_major_start"})
  BY HttpPiece
<1>5. ASSUME NEW q, In(q, {"http_version_major_start"}) PROVE In(parse(q, major), {"http_version_major"})
  <2>1. \A ch \in DigitChars : NextState(q, ch) \in {"http_version_major"}
    BY <1>5 DEF In, NextState, DigitChars
  <2>2. Leads({"http_version_major"}, DigitChars, {"http_version_major"})
    BY DEF Leads, DigitChars, NextState, is_digit
  <2>3. {"http_version_major"} \cap Results = {}
    BY DEF Results
  <2> QED BY <1>3, <1>5, <2>1, <2>2, <2>3, StartsAndReadsOn
<1>6. ASSUME NEW q, In(q, {"http_version_major"}) PROVE In(parse(q, dot), {"http_version_minor_start"})
  <2>1. Leads({"http_version_major"}, {"."}, {"http_version_minor_start"})
    BY DEF Leads, NextState
  <2>2. {"http_version_minor_start"} \cap Results = {}
    BY DEF Results
  <2> QED BY <1>2, <1>6, <2>1, <2>2, OneCharacter
<1>7. ASSUME NEW q, In(q, {"http_version_minor_start"}) PROVE In(parse(q, minor), {"http_version_minor"})
  <2>1. \A ch \in DigitChars : NextState(q, ch) \in {"http_version_minor"}
    BY <1>7 DEF In, NextState, DigitChars
  <2>2. Leads({"http_version_minor"}, DigitChars, {"http_version_minor"})
    BY DEF Leads, DigitChars, NextState, is_digit
  <2>3. {"http_version_minor"} \cap Results = {}
    BY DEF Results
  <2> QED BY <1>3, <1>7, <2>1, <2>2, <2>3, StartsAndReadsOn
<1> HIDE DEF dot
<1> DEFINE a == Http \o major
           b == a \o dot
<1>8. a \in Seq(Classes) /\ In(parse(p, a), {"http_version_major"})
  BY <1>3, <1>4, <1>5, NextPiece
<1> HIDE DEF a
<1>9. b \in Seq(Classes) /\ In(parse(p, b), {"http_version_minor_start"})
  BY <1>2, <1>6, <1>8, NextPiece
<1> HIDE DEF b
<1>10. b \o minor \in Seq(Classes) /\ In(parse(p, b \o minor), {"http_version_minor"})
  BY <1>3, <1>7, <1>9, NextPiece
<1>11. v = b \o minor
  BY <1>1, Zenon DEF VersionWord, a, b, dot
<1> QED BY <1>10, <1>11

\* At the start of a header line, with a header before it.
AfterHeader(p) == In(p, {"header_line_start"}) /\ p.headers # <<>>

\* The states in which a header line may end.
ValueStates == {"header_value", "header_lws"}

\* The end of a line, and of the request.
LEMMA EndPiece ==
  ASSUME NEW p
  PROVE  /\ CRLF \in Seq(Classes)
         /\ In(p, {"http_version_minor"}) => In(parse(p, CRLF), {"header_line_start"})
         /\ In(p, ValueStates) => AfterHeader(parse(p, CRLF))
         /\ In(p, {"header_line_start"}) => parse(p, CRLF).result = "true"
<1> DEFINE v == CRLF
<1>1. v \in Seq(Classes) /\ Len(v) = 2 /\ v[1] = "CR" /\ v[2] = "LF" /\ "CR" \in Classes /\ "LF" \in Classes
  BY DEF CRLF, Classes
<1> HIDE DEF v
<1>2. PICK run : IsRun(run, p, v, 2) /\ parse(p, v) = run[2]
  BY <1>1, ParseRun
<1>3. run[0] = p /\ run[1] = Advance(p, "CR") /\ run[2] = Advance(run[1], "LF")
  BY <1>1, <1>2 DEF IsRun
<1>4. ASSUME In(p, {"http_version_minor"}) PROVE In(run[2], {"header_line_start"})
  <2>1. NextState(p, "CR") \in {"expecting_newline_1"}
    BY <1>4 DEF In, NextState
  <2>2. In(run[1], {"expecting_newline_1"})
    BY <1>1, <1>3, <1>4, <2>1, Accepts DEF Results
  <2>3. NextState(run[1], "LF") \in {"header_line_start"}
    BY <2>2 DEF In, NextState, Literal
  <2> QED BY <1>1, <1>3, <2>2, <2>3, Accepts DEF Results
<1>5. ASSUME In(p, ValueStates) PROVE AfterHeader(run[2])
  <2>1. NextState(p, "CR") \in {"expecting_newline_2"} /\ p.headers # <<>>
    BY <1>5 DEF In, ValueStates, NextState, ParserInv, HeaderStates
  <2>2. In(run[1], {"expecting_newline_2"})
    BY <1>1, <1>3, <1>5, <2>1, Accepts DEF Results
  <2>3. NextState(run[1], "LF") \in {"header_line_start"}
    BY <2>2 DEF In, NextState, Literal
  <2>4. In(run[2], {"header_line_start"})
    BY <1>1, <1>3, <2>2, <2>3, Accepts DEF Results
  <2>5. run[1].headers = p.headers
    BY <1>3, <1>5, <2>1 DEF Advance, consume, In, PushHeader
  <2>6. run[2].headers = run[1].headers
    BY <1>3, <2>2, <2>3 DEF Advance, consume, In, PushHeader
  <2> QED BY <2>1, <2>4, <2>5, <2>6 DEF AfterHeader
<1>6. ASSUME In(p, {"header_line_start"}) PROVE run[2].result = "true"
  <2>1. NextState(p, "CR") \in {"expecting_newline_3"}
    BY <1>6 DEF In, NextState
  <2>2. In(run[1], {"expecting_newline_3"})
    BY <1>1, <1>3, <1>6, <2>1, Accepts DEF Results
  <2>3. NextState(run[1], "LF") = "true"
    BY <2>2 DEF In, NextState, Literal
  <2> QED BY <1>3, <2>2, <2>3 DEF Advance, consume, In
<1> QED BY <1>1, <1>2, <1>4, <1>5, <1>6 DEF v

\* A header field.
LEMMA FieldPiece ==
  ASSUME NEW p, In(p, {"header_line_start"}), NEW l \in FieldLines
  PROVE  l \in Seq(Classes) /\ In(parse(p, l), ValueStates)
<1> DEFINE colon == <<":", "SP">>
<1>1. PICK name \in NonEmpty(TokenChars), value \in Seq(ValueChars) : l = FieldText(name, value)
  BY DEF FieldLines
<1>2. ":" \in Classes /\ "SP" \in Classes /\ colon \in Seq(Classes) /\ Len(colon) = 2 /\ colon[1] = ":" /\ colon[2] = "SP"
  BY DEF Classes
<1>3. /\ name \in Seq(Classes) /\ value \in Seq(Classes)
      /\ TokenChars \in SUBSET Classes /\ ValueChars \in SUBSET Classes
  BY CharsAreClasses DEF NonEmpty
<1> HIDE DEF colon
<1>4. In(parse(p, name), {"header_name"})
  <2>1. \A ch \in TokenChars : NextState(p, ch) \in {"header_name"}
    BY DEF In, NextState, Folds, TokenChars, Token, is_ctl, is_tspecial
  <2>2. Leads({"header_name"}, TokenChars, {"header_name"})
    BY DEF Leads, NextState, TokenChars, Token, is_tspecial
  <2>3. {"header_name"} \cap Results = {}
    BY DEF Results
  <2> QED BY <1>3, <2>1, <2>2, <2>3, StartsAndReadsOn
<1>5. ASSUME NEW q, In(q, {"header_name"}) PROVE In(parse(q, colon), {"header_value"})
  <2>1. PICK run : IsRun(run, q, colon, 2) /\ parse(q, colon) = run[2]
    BY <1>2, ParseRun
  <2>2. run[0] = q /\ run[1] = Advance(q, ":") /\ run[2] = Advance(run[1], "SP")
    BY <1>2, <2>1 DEF IsRun
  <2>3. NextState(q, ":") \in {"space_before_header_value"}
    BY <1>5 DEF In, NextState
  <2>4. In(run[1], {"space_before_header_value"})
    BY <1>2, <1>5, <2>2, <2>3, Accepts DEF Results
  <2>5. NextState(run[1], "SP") \in {"header_value"}
    BY <2>4 DEF In, NextState, Literal
  <2>6. In(run[2], {"header_value"})
    BY <1>2, <2>2, <2>4, <2>5, Accepts DEF Results
  <2> QED BY <2>1, <2>6
<1>6. ASSUME NEW q, In(q, {"header_value"}) PROVE In(parse(q, value), ValueStates)
  <2>1. Leads({"header_value"}, ValueChars, {"header_value"})
    BY DEF Leads, NextState, ValueChars, is_ctl
  <2>2. {"header_value"} \cap Results = {}
    BY DEF Results
  <2>3. In(parse(q, value), {"header_value"})
    BY <1>3, <1>6, <2>1, <2>2, ReadsOn
  <2> QED BY <2>3 DEF In, ValueStates
<1> DEFINE a == name \o colon
<1>7. a \in Seq(Classes) /\ In(parse(p, a), {"header_value"})
  BY <1>2, <1>3, <1>4, <1>5, NextPiece
<1> HIDE DEF a
<1>8. a \o value \in Seq(Classes) /\ In(parse(p, a \o value), ValueStates)
  BY <1>3, <1>6, <1>7, NextPiece
<1>9. l = a \o value
  BY <1>1, Zenon DEF FieldText, a, colon
<1> QED BY <1>8, <1>9

\* A folded line.
LEMMA FoldedPiece ==
  ASSUME NEW p, AfterHeader(p), NEW l \in FoldedLines
  PROVE  l \in Seq(Classes) /\ In(parse(p, l), ValueStates)
<1>1. PICK white \in NonEmpty(White), value \in Seq(ValueChars) : l = FoldedText(white, value)
  BY DEF FoldedLines
<1>2. /\ white \in Seq(Classes) /\ value \in Seq(Classes)
      /\ White \in SUBSET Classes /\ ValueChars \in SUBSET Classes
  BY CharsAreClasses DEF NonEmpty
<1>3. ValueStates \cap Results = {}
  BY DEF ValueStates, Results
<1>4. In(parse(p, white), ValueStates)
  <2>1. \A ch \in White : NextState(p, ch) \in {"header_lws"}
    BY DEF AfterHeader, In, NextState, Folds, White
  <2>2. Leads({"header_lws"}, White, {"header_lws"})
    BY DEF Leads, NextState, White
  <2>3. {"header_lws"} \cap Results = {}
    BY DEF Results
  <2>4. In(parse(p, white), {"header_lws"})
    BY <1>2, <2>1, <2>2, <2>3, StartsAndReadsOn DEF AfterHeader
  <2> QED BY <2>4 DEF In, ValueStates
<1>5. ASSUME NEW q, In(q, ValueStates) PROVE In(parse(q, value), ValueStates)
  <2>1. Leads(ValueStates, ValueChars, ValueStates)
    BY DEF Leads, NextState, ValueStates, ValueChars, is_ctl
  <2> QED BY <1>2, <1>3, <1>5, <2>1, ReadsOn
<1> QED BY <1>1, <1>2, <1>4, <1>5, NextPiece DEF FoldedText

\* A header ends where the next line starts.
LEMMA HeaderPiece ==
  ASSUME NEW p, In(p, {"header_line_start"}), NEW h \in Headers
  PROVE  AfterHeader(parse(p, h))
<1> DEFINE T == {x \in Seq(Classes) : AfterHeader(parse(p, x))}
<1>1. ASSUME NEW x \in Seq(Classes), In(parse(p, x), ValueStates) PROVE x \o CRLF \in T
  BY <1>1, NextPiece, EndPiece
<1>2. ASSUME NEW l \in FieldLines PROVE l \o CRLF \in T
  BY <1>1, FieldPiece
<1>3. ASSUME NEW x \in T, NEW l \in FieldLines \cup FoldedLines PROVE x \o l \o CRLF \in T
  <2>1. AfterHeader(parse(p, x)) /\ In(parse(p, x), {"header_line_start"})
    BY DEF AfterHeader
  <2>2. l \in Seq(Classes) /\ In(parse(parse(p, x), l), ValueStates)
    BY <2>1, FieldPiece, FoldedPiece
  <2>3. x \o l \in Seq(Classes) /\ parse(p, x \o l) = parse(parse(p, x), l)
    BY <2>2, NextPiece
  <2> QED BY <1>1, <2>2, <2>3
<1>4. T \in SUBSET Seq(Classes) /\ HeaderClosed(T)
  BY <1>2, <1>3 DEF HeaderClosed
<1> HIDE DEF T
<1>5. h \in T
  BY <1>4 DEF Headers
<1> QED BY <1>5 DEF T

\* A request is parsed to its end, and accepted there.
LEMMA RequestsAccepted ==
  ASSUME NEW r \in Requests
  PROVE  r \in Seq(Classes) /\ parse(request_parser, r).result = "true"
<1>1. PICK m \in NonEmpty(TokenChars), u \in Seq(UriChars), v \in VersionWords, h \in {<<>>} \cup Headers :
        r = Request(m, u, v, h)
  BY DEF Requests
<1> DEFINE p == request_parser
           t == m \o <<"SP">> \o u \o <<"SP">>
           a == t \o v
           b == a \o CRLF
           c == b \o h
<1>2. In(p, {"method_start"})
  BY DEF In, request_parser, ParserInv, States, RequestLineStates, HeaderStates, LineStates
<1> HIDE DEF p
<1>3. t \in Seq(Classes) /\ In(parse(p, t), {"http_version_h"})
  BY <1>2, TargetPiece
<1> HIDE DEF t
<1>4. a \in Seq(Classes) /\ In(parse(p, a), {"http_version_minor"})
  BY <1>3, NextPiece, VersionPiece
<1> HIDE DEF a
<1>5. b \in Seq(Classes) /\ In(parse(p, b), {"header_line_start"})
  BY <1>4, NextPiece, EndPiece
<1> HIDE DEF b
<1>6. c \in Seq(Classes) /\ In(parse(p, c), {"header_line_start"})
  <2>1. h \in Seq(Classes)
    BY EmptySeq DEF Headers
  <2>2. In(parse(parse(p, b), h), {"header_line_start"})
    BY <1>5, ParseNone, HeaderPiece DEF AfterHeader
  <2> QED BY <1>5, <2>1, <2>2, NextPiece
<1> HIDE DEF c
<1>7. c \o CRLF \in Seq(Classes) /\ parse(p, c \o CRLF).result = "true"
  BY <1>6, NextPiece, EndPiece
<1>8. r = c \o CRLF
  BY <1>1, Zenon DEF Request, c, b, a, t
<1> QED BY <1>7, <1>8 DEF p

\* parse returns false for no request, of any length, at any of its characters
\* and however the reads have cut it into pieces: a method of token characters,
\* any uri without spaces and controls, a version, and any number of header
\* fields and folded lines.
THEOREM AcceptsRequests ==
  Spec => [](parser.result = "false" => \A r \in Requests : ~ IsPrefix(parser.seen, r))
<1>1. ASSUME ReadInv(parser), parser.result = "false", NEW r \in Requests, IsPrefix(parser.seen, r)
      PROVE  FALSE
  <2> DEFINE s == parser.seen
             rest == SubSeq(r, Len(s) + 1, Len(r))
  <2>1. /\ s \in Seq(Classes) /\ r \in Seq(Classes) /\ Len(s) \in Nat /\ Len(r) \in Nat /\ Len(s) <= Len(r)
        /\ SubSeq(r, 1, Len(s)) = s
    <3>1. s \in Seq(Classes) /\ r \in Seq(Classes)
      BY <1>1, RequestsAccepted DEF ReadInv, TextInv
    <3>2. Len(s) <= Len(r) /\ SubSeq(s, 1, Len(s)) = SubSeq(r, 1, Len(s))
      BY <1>1 DEF IsPrefix
    <3>3. SubSeq(s, 1, Len(s)) = s
      BY <3>1, SubSeqFull
    <3> QED BY <3>1, <3>2, <3>3, LenProperties
  <2>2. s \o rest = r
    <3>1. 1 \in 1..Len(r) + 1 /\ Len(s) \in 1 - 1..Len(r) /\ Len(r) \in Len(s)..Len(r)
      BY <2>1
    <3>2. SubSeq(r, 1, Len(s)) \o SubSeq(r, Len(s) + 1, Len(r)) = SubSeq(r, 1, Len(r))
      BY <2>1, <3>1, ConcatAdjacentSubSeq
    <3> QED BY <2>1, <3>2, SubSeqFull
  <2>3. rest \in Seq(Classes)
    <3>1. Len(s) + 1 \in Nat \ {0} /\ Len(r) \in Int /\ Len(r) <= Len(r)
      BY <2>1
    <3> QED BY <2>1, <3>1, SliceTyped
  <2> HIDE DEF rest
  <2>4. parse(request_parser, s \o rest) = parse(parse(request_parser, s), rest)
    BY <2>1, <2>3, NextPiece
  <2>5. parser = parse(request_parser, s)
    BY <1>1 DEF ReadInv
  <2>6. parse(parser, rest) = parser
    BY <1>1, <2>3, Settled
  <2>7. parse(request_parser, r) = parser
    BY <2>2, <2>4, <2>5, <2>6, Zenon
  <2> QED BY <1>1, <2>7, RequestsAccepted
<1>2. ReadInv(parser) => (parser.result = "false" => \A r \in Requests : ~ IsPrefix(parser.seen, r))
  BY <1>1
<1> QED BY <1>2, ReadInvariant, PTL

\* Lines can be added to headers.
LEMMA HeadersClosed == HeaderClosed(Headers)
<1>1. FieldLines \subseteq Seq(Classes) /\ FoldedLines \subseteq Seq(Classes) /\ CRLF \in Seq(Classes)
  <2>1. CRLF \in Seq(Classes)
    BY DEF CRLF, Classes
  <2>2. ASSUME NEW l \in FieldLines PROVE l \in Seq(Classes)
    <3> DEFINE colon == <<":", "SP">>
    <3>1. PICK name \in NonEmpty(TokenChars), value \in Seq(ValueChars) : l = FieldText(name, value)
      BY DEF FieldLines
    <3>2. name \in Seq(Classes) /\ value \in Seq(Classes) /\ colon \in Seq(Classes)
      BY CharsAreClasses DEF NonEmpty, Classes
    <3> HIDE DEF colon
    <3>3. name \o colon \in Seq(Classes)
      BY <3>2, ConcatProperties
    <3>4. (name \o colon) \o value \in Seq(Classes)
      BY <3>2, <3>3, ConcatProperties
    <3> QED BY <3>1, <3>4, Zenon DEF FieldText, colon
  <2>3. ASSUME NEW l \in FoldedLines PROVE l \in Seq(Classes)
    <3>1. PICK white \in NonEmpty(White), value \in Seq(ValueChars) : l = FoldedText(white, value)
      BY DEF FoldedLines
    <3>2. white \in Seq(Classes) /\ value \in Seq(Classes)
      BY CharsAreClasses DEF NonEmpty
    <3>3. white \o value \in Seq(Classes)
      BY <3>2, ConcatProperties
    <3> QED BY <3>1, <3>3 DEF FoldedText
  <2> QED BY <2>1, <2>2, <2>3
<1>2. ASSUME NEW l \in FieldLines PROVE l \o CRLF \in Headers
  <2>1. l \o CRLF \in Seq(Classes)
    BY <1>1, ConcatProperties
  <2> QED BY <2>1 DEF Headers, HeaderClosed
<1>3. ASSUME NEW h \in Headers, NEW l \in FieldLines \cup FoldedLines PROVE h \o l \o CRLF \in Headers
  <2>1. h \in Seq(Classes) /\ l \in Seq(Classes)
    BY <1>1 DEF Headers
  <2>2. h \o l \in Seq(Classes)
    BY <2>1, ConcatProperties
  <2>3. (h \o l) \o CRLF \in Seq(Classes)
    BY <1>1, <2>2, ConcatProperties
  <2> QED BY <2>3 DEF Headers, HeaderClosed
<1> QED BY <1>2, <1>3 DEF HeaderClosed

\* The samples that the run tries are such requests.
LEMMA SamplesAreRequests == SampleRequests \subseteq Requests
<1> DEFINE Methods == {<<"H">>, <<"P", "9">>}
           Uris == {<<>>, <<"/">>, <<"high">>, <<":", ".">>}
<1>1. ASSUME NEW S, NEW x \in S, NEW y \in S
      PROVE  <<>> \in Seq(S) /\ <<x>> \in Seq(S) /\ <<x>> \in NonEmpty(S) /\ <<x, y>> \in NonEmpty(S)
             /\ <<x, y>> \in Seq(S)
  BY DEF NonEmpty
<1>2. {"H", "P", "T", "9"} \subseteq TokenChars /\ "9" \in DigitChars
  BY DEF TokenChars, DigitChars, is_digit, Token, is_char, is_ctl, is_tspecial, Classes
<1>3. {"/", "high", ":", "."} \subseteq UriChars /\ {"SP", "high"} \subseteq ValueChars /\ {"SP", "HT"} \subseteq White
  BY DEF UriChars, ValueChars, White, is_ctl, Classes
<1>4. Methods \subseteq NonEmpty(TokenChars)
  BY <1>1, <1>2
<1>5. Uris \subseteq Seq(UriChars)
  BY <1>1, <1>3
<1>6. Version \in VersionWords
  <2>1. Version = VersionWord(<<"9">>, <<"9">>)
    BY DEF Version, VersionWord, Http
  <2>2. <<"9">> \in NonEmpty(DigitChars)
    BY <1>1, <1>2
  <2>3. \A a \in NonEmpty(DigitChars), b \in NonEmpty(DigitChars) : VersionWord(a, b) \in VersionWords
    BY DEF VersionWords
  <2> QED BY <2>1, <2>2, <2>3, Zenon
<1>7. Field \in FieldLines /\ Field \o <<"SP">> \in FieldLines
  <2>1. Field = FieldText(<<"T">>, <<>>) /\ Field \o <<"SP">> = FieldText(<<"T">>, <<"SP">>)
    BY DEF Field, FieldText
  <2>2. <<"T">> \in NonEmpty(TokenChars) /\ <<>> \in Seq(ValueChars) /\ <<"SP">> \in Seq(ValueChars)
    BY <1>1, <1>2, <1>3
  <2>3. \A a \in NonEmpty(TokenChars), b \in Seq(ValueChars) : FieldText(a, b) \in FieldLines
    BY DEF FieldLines
  <2> QED BY <2>1, <2>2, <2>3, Zenon
<1>8. <<"HT">> \in FoldedLines /\ <<"SP", "high">> \in FoldedLines
  <2>1. <<"HT">> = FoldedText(<<"HT">>, <<>>) /\ <<"SP", "high">> = FoldedText(<<"SP">>, <<"high">>)
    BY DEF FoldedText
  <2>2. /\ <<"HT">> \in NonEmpty(White) /\ <<>> \in Seq(ValueChars) /\ <<"SP">> \in NonEmpty(White)
        /\ <<"high">> \in Seq(ValueChars)
    BY <1>1, <1>3
  <2>3. \A a \in NonEmpty(White), b \in Seq(ValueChars) : FoldedText(a, b) \in FoldedLines
    BY DEF FoldedLines
  <2> QED BY <2>1, <2>2, <2>3, Zenon
<1>9. SampleFields \subseteq {<<>>} \cup Headers
  <2> DEFINE f == Field
             fs == Field \o <<"SP">>
             ht == <<"HT">>
             high == <<"SP", "high">>
             c == CRLF
  <2>1. SampleFields = {<<>>, f \o c, fs \o c, f \o c \o ht \o c, f \o c \o high \o c, f \o c \o f \o c}
    BY Zenon DEF SampleFields
  <2>2. f \in FieldLines /\ fs \in FieldLines /\ ht \in FoldedLines /\ high \in FoldedLines
    BY <1>7, <1>8
  <2> HIDE DEF f, fs, ht, high, c
  <2> QED BY <2>1, <2>2, HeadersClosed DEF HeaderClosed, c
<1>10. ASSUME NEW r \in SampleRequests PROVE r \in Requests
  <2>1. PICK m \in Methods, u \in Uris, h \in SampleFields : r = Sample(m, u, h)
    BY DEF SampleRequests
  <2>2. Sample(m, u, h) = Request(m, u, Version, h)
    BY Zenon DEF Sample, Request
  <2>3. /\ m \in NonEmpty(TokenChars) /\ u \in Seq(UriChars) /\ Version \in VersionWords
        /\ h \in {<<>>} \cup Headers
    BY <1>4, <1>5, <1>6, <1>9
  <2>4. Request(m, u, Version, h) \in Requests
    BY <2>3 DEF Requests
  <2> QED BY <2>1, <2>2, <2>4
<1> QED BY <1>10

\* parse returns false for no sample of a request: what the run checks of its
\* few inputs holds for inputs of every length.
THEOREM AcceptsSamples == Spec => []FalseOnlyForInvalid
<1>1. (parser.result = "false" => \A r \in Requests : ~ IsPrefix(parser.seen, r)) => FalseOnlyForInvalid
  BY SamplesAreRequests DEF FalseOnlyForInvalid
<1> QED BY <1>1, AcceptsRequests, PTL
=============================================================================
