--------------------------- MODULE RequestHandler ---------------------------
(***************************************************************************)
(* request_handler and reply of full_server/: from the uri of a parsed     *)
(* request to the buffers that connection::handle_read sends.  Characters  *)
(* are their codes, because url_decode computes with them; contents are    *)
(* their sizes, because nothing looks at more of them.  The file system is *)
(* external: a file may be absent, have any of a few sizes, or fail to be  *)
(* read (as a directory does).                                             *)
(***************************************************************************)
EXTENDS Integers, Sequences, SequencesExt

CONSTANTS Uris,        \* uris the parser may deliver
          FileSizes,   \* sizes of files under doc_root_
          BufSize      \* sizeof(buf)

ASSUME SizesAssumption == FileSizes \subseteq Nat /\ BufSize \in Nat \ {0}
ASSUME UrisAssumption == \A u \in Uris : u \in Seq(33..255)

VARIABLES step,          \* "parsed", "resolved", "reading", "sent"
          uri,           \* req.uri
          i,             \* the index of url_decode's loop, from 1
          request_path,
          size,          \* history: size of the file opened
          error,         \* history: a read of the file failed
          rep            \* reply_

vars == <<step, uri, i, request_path, size, error, rep>>

Slash == 47
Dot == 46
Percent == 37
Plus == 43
Minus == 45
Space == 32

\* The constructor leaves status uninitialized; nothing is sent before it is set.
reply == [status |-> "unset", headers |-> <<>>, content |-> 0]

Init ==
  /\ step = "parsed"
  /\ uri \in Uris
  /\ i = 1
  /\ request_path = <<>>
  /\ size = 0 /\ error = FALSE
  /\ rep = reply

-----------------------------------------------------------------------------
(* reply.cpp.                                                              *)

\* The texts of stock_replies, by their length.
StockSize ==
  [ok |-> 0, created |-> 81, accepted |-> 83, no_content |-> 84, multiple_choices |-> 99,
   moved_permanently |-> 101, moved_temporarily |-> 101, not_modified |-> 91,
   bad_request |-> 89, unauthorized |-> 91, forbidden |-> 85, not_found |-> 85,
   internal_server_error |-> 109, not_implemented |-> 97, bad_gateway |-> 89,
   service_unavailable |-> 105]

Known(status) == IF status \in DOMAIN StockSize THEN status ELSE "internal_server_error"

\* headers[0] and headers[1] of every reply.
Headers(length, type) ==
  << [name |-> "Content-Length", value |-> length], [name |-> "Content-Type", value |-> type] >>

stock_reply(status) ==
  [status |-> status, content |-> StockSize[Known(status)],
   headers |-> Headers(StockSize[Known(status)], "text/html")]

\* Pieces of what is sent; a status line is followed by a crlf of its own.
crlf == [is |-> "crlf", of |-> 2]

HeaderBuffers(h) ==
  <<[is |-> "name", of |-> h.name], [is |-> "separator", of |-> 2], [is |-> "value", of |-> h.value], crlf>>

AllHeaderBuffers(headers) ==
  [k \in 1..4 * Len(headers) |-> HeaderBuffers(headers[(k + 3) \div 4])[((k - 1) % 4) + 1]]

\* Mutant: the blank line after the headers is missing.
to_buffers_no_blank(r) ==
  <<[is |-> "status", of |-> Known(r.status)], crlf>>
    \o AllHeaderBuffers(r.headers)
    \o <<[is |-> "content", of |-> r.content]>>

to_buffers(r) ==
  <<[is |-> "status", of |-> Known(r.status)], crlf>>
    \o AllHeaderBuffers(r.headers)
    \o <<crlf, [is |-> "content", of |-> r.content]>>

-----------------------------------------------------------------------------
(* url_decode.                                                             *)

IsHex(c) == c \in (48..57) \cup (65..70) \cup (97..102)

Hex(c) == IF c <= 57 THEN c - 48 ELSE IF c <= 70 THEN c - 55 ELSE c - 87

\* What `is >> std::hex >> value' extracts from two characters, neither of them
\* white space: at most a sign, then as many digits as there are; -256 for
\* failure.  "0x" fails, its prefix without a digit.
HexValue(a, b) ==
  IF IsHex(a)
  THEN IF IsHex(b) THEN 16 * Hex(a) + Hex(b)
       ELSE IF a = 48 /\ b \in {88, 120} THEN -256 ELSE Hex(a)
  ELSE IF a \in {Plus, Minus} /\ IsHex(b)
       THEN IF a = Minus THEN 0 - Hex(b) ELSE Hex(b)
       ELSE -256

\* Mutant: an escape at the end of the uri is taken for an incomplete one.
EscapeAt_short(k) ==
  IF k + 2 < Len(uri) THEN HexValue(uri[k + 1], uri[k + 2]) ELSE -256

\* The value of the escape that starts at index k, -256 if there is none.
EscapeAt(k) ==
  IF k + 2 <= Len(uri) THEN HexValue(uri[k + 1], uri[k + 2]) ELSE -256

\* The loop is at an escape, or at another character.
AtPercent == step = "parsed" /\ i <= Len(uri) /\ uri[i] = Percent
AtOther == step = "parsed" /\ i <= Len(uri) /\ uri[i] # Percent

\* Mutant: the index is moved past the first digit only.
decode_escape_skip ==
  /\ AtPercent /\ EscapeAt(i) # -256
  /\ request_path' = Append(request_path, EscapeAt(i) % 256)
  /\ i' = i + 2
  /\ UNCHANGED <<step, uri, size, error, rep>>

\* static_cast<char>, and past both digits.
decode_escape ==
  /\ AtPercent /\ EscapeAt(i) # -256
  /\ request_path' = Append(request_path, EscapeAt(i) % 256)
  /\ i' = i + 3
  /\ UNCHANGED <<step, uri, size, error, rep>>

decode_char ==
  /\ AtOther
  /\ request_path' = Append(request_path, IF uri[i] = Plus THEN Space ELSE uri[i])
  /\ i' = i + 1
  /\ UNCHANGED <<step, uri, size, error, rep>>

-----------------------------------------------------------------------------
(* handle_request.                                                         *)

Answer(r) == rep' = r /\ step' = "sent"

\* url_decode returns false.
decode_fails ==
  /\ AtPercent /\ EscapeAt(i) = -256
  /\ Answer(stock_reply("bad_request"))
  /\ UNCHANGED <<uri, i, request_path, size, error>>

\* url_decode returns true.
Decoded == step = "parsed" /\ i > Len(uri)

Find(s, p) == \E k \in 1..(Len(s) - Len(p) + 1) : SubSeq(s, k, k + Len(p) - 1) = p

\* Mutant: only a ".." between two slashes is noticed.
Acceptable_between(path) ==
  path # <<>> /\ path[1] = Slash /\ ~Find(path, <<Slash, Dot, Dot, Slash>>)

\* "Request path must be absolute and not contain ..".
Acceptable(path) == path # <<>> /\ path[1] = Slash /\ ~Find(path, <<Dot, Dot>>)

\* "index.html"
IndexHtml == <<105, 110, 100, 101, 120, Dot, 104, 116, 109, 108>>

resolve ==
  /\ Decoded
  /\ \/ /\ ~Acceptable(request_path)
        /\ Answer(stock_reply("bad_request"))
        /\ UNCHANGED request_path
     \/ /\ Acceptable(request_path)
        /\ request_path' = IF request_path[Len(request_path)] = Slash
                           THEN request_path \o IndexHtml ELSE request_path
        /\ step' = "resolved"
        /\ UNCHANGED rep
  /\ UNCHANGED <<uri, i, size, error>>

\* The file's name: c_str() ends at the first zero character.
Opened == LET zero == SelectInSeq(request_path, LAMBDA c : c = 0)
          IN  IF zero = 0 THEN request_path ELSE SubSeq(request_path, 1, zero - 1)

open ==
  /\ step = "resolved"
  /\ \/ /\ Answer(stock_reply("not_found"))
        /\ UNCHANGED size
     \/ /\ size' \in FileSizes
        /\ rep' = [rep EXCEPT !.status = "ok"]
        /\ step' = "reading"
  /\ UNCHANGED <<uri, i, request_path, error>>

\* Mutant: the loop tests the stream instead of gcount, and drops the last,
\* incomplete buffer.
Gcount_whole(left) == IF left < BufSize THEN 0 ELSE BufSize

\* What is.read(buf, sizeof(buf)) delivers when `left' bytes are left.
Gcount(left) == IF left < BufSize THEN left ELSE BufSize

\* An iteration of the loop that reads the file.
read ==
  /\ step = "reading" /\ ~error
  /\ Gcount(size - rep.content) > 0
  /\ \/ rep' = [rep EXCEPT !.content = @ + Gcount(size - @)] /\ UNCHANGED error
     \/ error' = TRUE /\ UNCHANGED rep
  /\ UNCHANGED <<step, uri, i, request_path, size>>

\* The mime_types of mappings[].
MimeTypes ==
  { <<<<103, 105, 102>>, "image/gif">>, <<<<104, 116, 109>>, "text/html">>,
    <<<<104, 116, 109, 108>>, "text/html">>, <<<<106, 112, 103>>, "image/jpeg">>,
    <<<<112, 110, 103>>, "image/png">> }

extension_to_type(extension) ==
  IF \E m \in MimeTypes : m[1] = extension
  THEN (CHOOSE m \in MimeTypes : m[1] = extension)[2]
  ELSE "text/plain"

Extension(path) ==
  LET dot == SelectLastInSeq(path, LAMBDA c : c = Dot)
      slash == SelectLastInSeq(path, LAMBDA c : c = Slash)
  IN  IF dot # 0 /\ dot > slash THEN SubSeq(path, dot + 1, Len(path)) ELSE <<>>

\* Nothing more can be read: the headers are filled in.
fill_headers ==
  /\ step = "reading"
  /\ error \/ Gcount(size - rep.content) = 0
  /\ Answer([rep EXCEPT !.headers = Headers(rep.content, extension_to_type(Extension(request_path)))])
  /\ UNCHANGED <<uri, i, request_path, size, error>>

Next ==
  \/ decode_escape
  \/ decode_char
  \/ decode_fails
  \/ resolve
  \/ open
  \/ read
  \/ fill_headers

Spec == Init /\ [][Next]_vars

-----------------------------------------------------------------------------
(* What the encoding of a path is, said without the loop.                  *)

\* The % that start an escape: those which are not part of an earlier one.
Escapes(in) ==
  LET percents == {k \in DOMAIN in : in[k] = Percent}
  IN  CHOOSE S \in SUBSET percents :
        \A k \in percents : k \in S <=> {k - 1, k - 2} \cap S = {}

\* The indices where a character of the path starts.
Units(in) == LET E == Escapes(in) IN {k \in DOMAIN in : {k - 1, k - 2} \cap E = {}}

UnitValue(in, k) ==
  IF in[k] = Percent THEN HexValue(in[k + 1], in[k + 2]) % 256
  ELSE IF in[k] = Plus THEN Space ELSE in[k]

WellFormed(in, k) == in[k] = Percent => {k + 1, k + 2} \subseteq DOMAIN in /\ IsHex(in[k + 1]) /\ IsHex(in[k + 2])

Encodes(in, path) ==
  LET units == Units(in)
  IN  /\ Len(path) = Cardinality(units)
      /\ \A k \in units : path[Cardinality({j \in units : j <= k})] = UnitValue(in, k)

\* The components of a path: what is between two slashes, or after the last.
Components(path) ==
  LET slashes == {k \in DOMAIN path : path[k] = Slash} \cup {Len(path) + 1}
  IN  {SubSeq(path, e[1] + 1, e[2] - 1) : e \in
         {e \in slashes \X slashes : e[1] < e[2] /\ \A m \in slashes : m <= e[1] \/ m >= e[2]}}

-----------------------------------------------------------------------------

\* url_decode inverts the encoding: the path it makes has one character for
\* each escape, each + and each other character of the uri, in their order,
\* whatever an escape yields (a % included) and wherever the uri ends.
DecodesUnits == Decoded => Encodes(uri, request_path)

\* Nothing valid is refused: a 400 means an escape that is not two hexadecimal
\* digits, or a path that is not absolute or contains "..".
RefusedOnlyInvalid ==
  step = "sent" /\ rep.status = "bad_request" =>
    \/ \E k \in Units(uri) : ~WellFormed(uri, k)
    \/ Encodes(uri, request_path) /\ ~Acceptable(request_path)

\* The name opened, doc_root_ followed by Opened, stays below doc_root_: it is
\* absolute and none of its components is "..", however the uri spelled them
\* and although the name may end before the path does.
StaysUnderRoot ==
  step \in {"resolved", "reading"} =>
    Opened # <<>> /\ Opened[1] = Slash /\ <<Dot, Dot>> \notin Components(Opened)

\* A file is sent whole, whatever its size is as a multiple of the buffer's.
WholeFile == step = "sent" /\ rep.status = "ok" /\ ~error => rep.content = size

\* A client can tell where a reply ends: the first empty line of what is sent
\* is followed by the content alone, which is as long as Content-Length says.
ReplyFramed ==
  step = "sent" =>
    LET sent == to_buffers(rep)
        blanks == {k \in 2..Len(sent) : sent[k] = crlf /\ sent[k - 1] = crlf}
        lengths == {k \in 3..Len(sent) : sent[k - 2].is = "name" /\ sent[k - 2].of = "Content-Length"}
    IN  \E b \in blanks, n \in lengths :
          /\ blanks = {b} /\ lengths = {n} /\ n < b
          /\ b = Len(sent) - 1 /\ sent[n].of = sent[b + 1].of

\* "Returns false if the encoding was invalid": a uri that is decoded has two
\* hexadecimal digits after each % that starts an escape.
InvalidEncodingRefused ==
  Decoded => \A k \in Units(uri) : WellFormed(uri, k)
=============================================================================
