--------------------------- MODULE RequestParser ---------------------------
(***************************************************************************)
(* request_parser of full_server/: the character-by-character automaton    *)
(* that connection::handle_read feeds with whatever each read delivered,   *)
(* until it returns true or false.  A character is its class: the ones the *)
(* automaton names, and one representative of each remaining kind.         *)
(***************************************************************************)
EXTENDS Integers, Sequences, SequencesExt

CONSTANTS Alphabet,   \* the classes the input is made of
          IntMax,     \* the greatest int
          MaxChunk,   \* bound: characters one read delivers
          MaxTarget,  \* bound: characters of method and uri
          MaxVersion, \* bound: digits of the version numbers
          MaxInput    \* bound: those, and characters of names, values and white space in the headers

\* Of the characters not named in the automaton, "9" is any digit, "token"
\* any other token character, "special" a tspecial, "ctl" a control, "high" a negative char.
Classes ==
  {"H", "T", "P", "9", ".", "token", "/", ":", "special", "SP", "HT", "CR", "LF", "ctl", "high"}

ASSUME AlphabetAssumption == Alphabet \subseteq Classes
ASSUME BoundsAssumption == {IntMax, MaxChunk, MaxTarget, MaxVersion, MaxInput} \subseteq Nat

VARIABLE parser   \* state_ and the request_ it fills, the last result, the input consumed

vars == <<parser>>

is_char(ch) == ch # "high"

\* Mutant: a space counts as a control character.
is_ctl_space(ch) == ch \in {"CR", "LF", "HT", "SP", "ctl"}

is_ctl(ch) == ch \in {"CR", "LF", "HT", "ctl"}
is_tspecial(ch) == ch \in {"/", ":", "special", "SP", "HT"}
is_digit(ch) == ch = "9"

Token(ch) == is_char(ch) /\ ~is_ctl(ch) /\ ~is_tspecial(ch)

\* The value of an int that was not assigned, or whose computation overflowed.
Undefined == -1

request_parser ==
  [state |-> "method_start", method |-> <<>>, uri |-> <<>>, major |-> Undefined, minor |-> Undefined,
   headers |-> <<>>, result |-> "indeterminate", seen |-> <<>>,
   target |-> 0, version |-> 0, fields |-> 0]

-----------------------------------------------------------------------------
(* request_parser::consume.                                                *)

Literal(ch, expected, next) == IF ch = expected THEN next ELSE "false"

\* Mutant: white space folds a line even if there is no header yet.
Folds_always(headers, ch) == ch \in {"SP", "HT"}

\* A header line that starts with white space continues the header before it.
Folds(headers, ch) == headers # <<>> /\ ch \in {"SP", "HT"}

\* The next state_, or the result that ends the parse.
NextState(p, ch) ==
  CASE p.state = "method_start" -> IF Token(ch) THEN "method" ELSE "false"
    [] p.state = "method" ->
         IF ch = "SP" THEN "uri" ELSE IF Token(ch) THEN "method" ELSE "false"
    [] p.state = "uri_start" -> IF is_ctl(ch) THEN "false" ELSE "uri"
    [] p.state = "uri" ->
         IF ch = "SP" THEN "http_version_h" ELSE IF is_ctl(ch) THEN "false" ELSE "uri"
    [] p.state = "http_version_h" -> Literal(ch, "H", "http_version_t_1")
    [] p.state = "http_version_t_1" -> Literal(ch, "T", "http_version_t_2")
    [] p.state = "http_version_t_2" -> Literal(ch, "T", "http_version_p")
    [] p.state = "http_version_p" -> Literal(ch, "P", "http_version_slash")
    [] p.state = "http_version_slash" -> Literal(ch, "/", "http_version_major_start")
    [] p.state = "http_version_major_start" -> IF is_digit(ch) THEN "http_version_major" ELSE "false"
    [] p.state = "http_version_major" ->
         IF ch = "." THEN "http_version_minor_start"
         ELSE IF is_digit(ch) THEN "http_version_major" ELSE "false"
    [] p.state = "http_version_minor_start" -> IF is_digit(ch) THEN "http_version_minor" ELSE "false"
    [] p.state = "http_version_minor" ->
         IF ch = "CR" THEN "expecting_newline_1"
         ELSE IF is_digit(ch) THEN "http_version_minor" ELSE "false"
    [] p.state = "expecting_newline_1" -> Literal(ch, "LF", "header_line_start")
    [] p.state = "header_line_start" ->
         IF ch = "CR" THEN "expecting_newline_3"
         ELSE IF Folds(p.headers, ch) THEN "header_lws"
         ELSE IF Token(ch) THEN "header_name" ELSE "false"
    [] p.state = "header_lws" ->
         IF ch = "CR" THEN "expecting_newline_2"
         ELSE IF ch \in {"SP", "HT"} THEN "header_lws"
         ELSE IF is_ctl(ch) THEN "false" ELSE "header_value"
    [] p.state = "header_name" ->
         IF ch = ":" THEN "space_before_header_value"
         ELSE IF Token(ch) THEN "header_name" ELSE "false"
    [] p.state = "space_before_header_value" -> Literal(ch, "SP", "header_value")
    [] p.state = "header_value" ->
         IF ch = "CR" THEN "expecting_newline_2"
         ELSE IF is_ctl(ch) THEN "false" ELSE "header_value"
    [] p.state = "expecting_newline_2" -> Literal(ch, "LF", "header_line_start")
    [] p.state = "expecting_newline_3" -> Literal(ch, "LF", "true")

\* req.headers.back().name / .value .push_back(input)
PushBack(headers, field, ch) ==
  [headers EXCEPT ![Len(headers)][field] = Append(@, ch)]

\* The headers after the move from state s to n on input ch.
PushHeader(headers, s, n, ch) ==
  IF s = "header_line_start" /\ n = "header_name"
  THEN Append(headers, [name |-> <<ch>>, value |-> <<>>])
  ELSE IF s = "header_name" /\ n = "header_name" THEN PushBack(headers, "name", ch)
  ELSE IF s \in {"header_lws", "header_value"} /\ n = "header_value" THEN PushBack(headers, "value", ch)
  ELSE headers

\* Mutant: the digits are added up.
PushDigit_sum(v) == v + 9

\* v * 10 + input - '0', from left to right in int; the characters are 57 and 48.
PushDigit(v) ==
  IF v = Undefined \/ v * 10 + 57 > IntMax THEN Undefined ELSE v * 10 + 57 - 48

\* A version number after the move from state s to n: set to zero
\* by the slash, it grows in the states of its own part.
PushVersion(v, part, s, n) ==
  IF s = "http_version_slash" /\ n = "http_version_major_start" THEN 0
  ELSE IF n = part THEN PushDigit(v)
  ELSE v

\* The parts of variable length, by the state that reads on in them.
TargetParts == {"method", "uri"}
VersionParts == {"http_version_major", "http_version_minor"}
FieldParts == {"header_name", "header_lws", "header_value"}

\* How many characters the step from s to n adds to them: what bounds the input.
Count(s, n, parts) ==
  IF n \in parts /\ <<s, n>> \notin {<<"method", "uri">>, <<"space_before_header_value", "header_value">>}
  THEN 1 ELSE 0

consume(p, ch) ==
  LET n == NextState(p, ch)
      ended == n \in {"true", "false"}
  IN  [state   |-> IF ended THEN p.state ELSE n,
       method  |-> IF n = "method" THEN Append(p.method, ch) ELSE p.method,
       uri     |-> IF n = "uri" /\ p.state # "method" THEN Append(p.uri, ch) ELSE p.uri,
       major   |-> PushVersion(p.major, "http_version_major", p.state, n),
       minor   |-> PushVersion(p.minor, "http_version_minor", p.state, n),
       headers |-> PushHeader(p.headers, p.state, n, ch),
       result  |-> IF ended THEN n ELSE "indeterminate",
       seen    |-> Append(p.seen, ch),
       target  |-> p.target + Count(p.state, n, TargetParts),
       version |-> p.version + Count(p.state, n, VersionParts),
       fields  |-> p.fields + Count(p.state, n, FieldParts)]

\* Mutant: parse returns after one character.
parse_one(p, chunk) == consume(p, Head(chunk))

\* parse stops at the first character that settles the result; the rest of the
\* buffer is dropped.
parse(p, chunk) ==
  LET after[k \in 0..Len(chunk)] ==
        IF k = 0 THEN p
        ELSE LET q == after[k - 1]
             IN  IF q.result = "indeterminate" THEN consume(q, chunk[k]) ELSE q
  IN  after[Len(chunk)]

-----------------------------------------------------------------------------

Init == parser = request_parser

\* handle_read on the bytes of one read; another read follows only while the
\* result is indeterminate.
handle_read(chunk) ==
  /\ parser.result = "indeterminate"
  /\ parser' = parse(parser, chunk)
  /\ parser'.target <= MaxTarget /\ parser'.version <= MaxVersion
  /\ parser'.target + parser'.version + parser'.fields <= MaxInput

Chunks == UNION {[1..n -> Alphabet] : n \in 1..MaxChunk}

Next == \E chunk \in Chunks : handle_read(chunk)

Spec == Init /\ [][Next]_vars

-----------------------------------------------------------------------------
(* What a request is, said without the automaton.                          *)

Tokens(s) == s # <<>> /\ \A k \in DOMAIN s : Token(s[k])
Printable(s) == \A k \in DOMAIN s : ~is_ctl(s[k])
Digits(s) == s # <<>> /\ \A k \in DOMAIN s : is_digit(s[k])

\* The value of n nines.
Nines(n) ==
  LET value[k \in 0..n] == IF k = 0 THEN 0 ELSE 10 * value[k - 1] + 9 IN value[n]

\* s is a number, v its value unless it is out of the range of an int.
IsNumber(s, v) == Digits(s) /\ (Nines(Len(s)) + 48 <= IntMax => v = Nines(Len(s)))

IsVersion(s, major, minor) ==
  /\ Len(s) >= 5 /\ SubSeq(s, 1, 5) = <<"H", "T", "T", "P", "/">>
  /\ \E k \in 7..Len(s) :
       /\ s[k] = "."
       /\ IsNumber(SubSeq(s, 6, k - 1), major)
       /\ IsNumber(SubSeq(s, k + 1, Len(s)), minor)

IsRequestLine(s, r) ==
  /\ Tokens(r.method) /\ Printable(r.uri) /\ ~Contains(r.uri, "SP")
  /\ IsPrefix(r.method \o <<"SP">> \o r.uri \o <<"SP">>, s)
  /\ IsVersion(SubSeq(s, Len(r.method) + Len(r.uri) + 3, Len(s)), r.major, r.minor)

IsHeader(s) ==
  \E k \in 2..Len(s) :
    /\ Tokens(SubSeq(s, 1, k - 1)) /\ s[k] = ":"
    /\ k < Len(s) /\ s[k + 1] = "SP"
    /\ Printable(SubSeq(s, k + 2, Len(s)))

\* A folded line: white space, then the rest of the value.
IsContinuation(s) ==
  \E k \in 1..Len(s) :
    /\ \A j \in 1..k : s[j] \in {"SP", "HT"}
    /\ Printable(SubSeq(s, k + 1, Len(s)))

\* The lines of s between its CR LF pairs; s ends with one.
Ends(s) == {k \in 1..Len(s) : s[k] = "CR" /\ k < Len(s) /\ s[k + 1] = "LF"}
LineTo(s, k) ==
  LET starts == {1} \cup {j + 2 : j \in {e \in Ends(s) : e < k}}
  IN  SubSeq(s, Max(starts), k - 1)

\* s is a request, and r has its method, uri and version.
IsRequest(s, r) ==
  /\ Len(s) >= 4 /\ SubSeq(s, Len(s) - 3, Len(s)) = <<"CR", "LF", "CR", "LF">>
  /\ \A k \in Ends(s) :
       LET line == LineTo(s, k)
           earlier == Cardinality({e \in Ends(s) : e < k})
       IN  IF earlier = 0 THEN IsRequestLine(line, r)
           ELSE IF k = Len(s) - 1 THEN line = <<>>
           ELSE IsHeader(line) \/ (earlier > 1 /\ IsContinuation(line))

\* Some requests, with and without header fields and folded lines.
CRLF == <<"CR", "LF">>
Version == <<"H", "T", "T", "P", "/", "9", ".", "9">>
Field == <<"T", ":", "SP">>

Sample(m, u, h) == m \o <<"SP">> \o u \o <<"SP">> \o Version \o CRLF \o h \o CRLF

SampleFields ==
  {<<>>, Field \o CRLF, Field \o <<"SP">> \o CRLF, Field \o CRLF \o <<"HT">> \o CRLF,
   Field \o CRLF \o <<"SP", "high">> \o CRLF, Field \o CRLF \o Field \o CRLF}

SampleRequests ==
  {Sample(m, u, h) :
     m \in {<<"H">>, <<"P", "9">>}, u \in {<<>>, <<"/">>, <<"high">>, <<":", ".">>}, h \in SampleFields}

\* A request with a header field, and a place in it for each state.
Example ==
  <<"H", "SP", "SP", "H", "T", "T", "P", "/", "9", ".", "9", "CR", "LF",
    "T", ":", "SP", "CR", "LF", "CR", "LF">>

Place ==
  [method_start |-> 1, method |-> 2, uri |-> 3, http_version_h |-> 4, http_version_t_1 |-> 5,
   http_version_t_2 |-> 6, http_version_p |-> 7, http_version_slash |-> 8,
   http_version_major_start |-> 9, http_version_major |-> 10, http_version_minor_start |-> 11,
   http_version_minor |-> 12, expecting_newline_1 |-> 13, header_name |-> 15,
   space_before_header_value |-> 16, header_value |-> 17, header_lws |-> 17,
   expecting_newline_2 |-> 18, header_line_start |-> 19, expecting_newline_3 |-> 20]

\* One way on from each state to the end of the request.
Completion(state) == SubSeq(Example, Place[state], Len(Example))

-----------------------------------------------------------------------------

\* "true when a complete request has been parsed": whatever the reads cut the
\* input into, true means that what was consumed is a request with exactly this
\* method and uri, and these version numbers as far as an int can hold them.
TrueOnlyForRequests ==
  parser.result = "true" => IsRequest(parser.seen, parser)

\* "false if the data is invalid": no well-formed request is rejected, at any
\* of its characters.
FalseOnlyForInvalid ==
  parser.result = "false" => \A r \in SampleRequests : ~IsPrefix(parser.seen, r)

\* "indeterminate when more data is required": the parser is never in a state
\* from which no continuation completes the request.
CanFinish ==
  parser.result = "indeterminate" =>
    parse(parser, Completion(parser.state)).result = "true"

\* req.headers.back() is only called when there is a header: folded lines and
\* values are reached through a header's name.
HeaderToAppendTo ==
  parser.state \in {"header_lws", "header_name", "space_before_header_value", "header_value"}
    => parser.headers # <<>>
=============================================================================
