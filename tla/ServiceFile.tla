---------------------------- MODULE ServiceFile ----------------------------
(***************************************************************************)
(* How a line of the service file becomes the attributes of a service: the *)
(* string functions of helpers/helper.cpp, on sequences of one-character   *)
(* strings.  Positions count from 1, so `last' is the number of characters *)
(* up to and including the last comma found (last + 1 in the source).      *)
(***************************************************************************)
EXTENDS Integers, Sequences, FiniteSetsExt

\* "\v" and "\f" are the vertical tab and the form feed.
_WHITESPACE == {" ", "\n", "\r", "\t", "\f", "\\v"}

NotBlank(s) == {k \in DOMAIN s : s[k] \notin _WHITESPACE}

\* substr(pos, count), with at least pos characters; it stops at the end.
substr(s, pos, count) == SubSeq(s, pos + 1, Min({pos + count, Len(s)}))

ltrim(s) ==
  IF NotBlank(s) = {} THEN <<>> ELSE SubSeq(s, Min(NotBlank(s)), Len(s))

\* Mutant: the position of the last character is taken for a length.
rtrim_end(s) ==
  IF NotBlank(s) = {} THEN <<>> ELSE SubSeq(s, 1, Max(NotBlank(s)) - 1)

rtrim(s) ==
  IF NotBlank(s) = {} THEN <<>> ELSE SubSeq(s, 1, Max(NotBlank(s)))

trim(s) == rtrim(ltrim(s))

\* The default, which parse_service_file leaves as it is.
delimiter == ","

\* The commas that find() can still see.
After(line, last) == {k \in (last + 1)..Len(line) : line[k] = delimiter}

\* What follows the last comma, unless it is a single character.  The count is
\* the length of the line less one, which is too small only without a comma.
LastToken(line, last) ==
  IF last < Len(line) - 1 THEN <<substr(line, last, Len(line) - 1)>> ELSE <<>>

\* The line cut at its commas.
scanVec(line) ==
  LET from[last \in 0..Len(line)] ==
        IF After(line, last) = {} THEN LastToken(line, last)
        ELSE LET curr == Min(After(line, last))
             IN  <<substr(line, last, curr - last - 1)>> \o from[curr]
  IN  from[0]

\* Step 2 of the source: the tokens that are not blank, trimmed.
rtrnVec(scan) ==
  LET kept[k \in 0..Len(scan)] ==
        IF k = 0 THEN <<>>
        ELSE IF trim(scan[k]) = <<>> THEN kept[k - 1]
        ELSE Append(kept[k - 1], trim(scan[k]))
  IN  kept[Len(scan)]

split_CSV_line(line) == rtrnVec(scanVec(line))

-----------------------------------------------------------------------------
(* std::stoull (external): the digits a token starts with, at most nine of *)
(* them here and without a sign; -1 if it throws for want of a digit.      *)

DigitValue == [c \in {"0", "1", "2", "3", "4", "5", "6", "7", "8", "9"} |->
  CASE c = "0" -> 0 [] c = "1" -> 1 [] c = "2" -> 2 [] c = "3" -> 3 [] c = "4" -> 4
    [] c = "5" -> 5 [] c = "6" -> 6 [] c = "7" -> 7 [] c = "8" -> 8 [] c = "9" -> 9]

stoull(token) ==
  LET Digits(n) == \A k \in 1..n : token[k] \in DOMAIN DigitValue
      len == Max({n \in 0..Len(token) : Digits(n)})
      value[n \in 0..len] == IF n = 0 THEN 0 ELSE 10 * value[n - 1] + DigitValue[token[n]]
  IN  IF len = 0 THEN -1 ELSE value[len]

-----------------------------------------------------------------------------
(* The fields of a line, by position and without a scan.                   *)

CommasUpTo(line, k) == Cardinality({j \in 1..k : line[j] = delimiter})
Fields(line) == CommasUpTo(line, Len(line)) + 1

\* Where the n-th comma is, with one imagined at either end.
CommaAt(line, n) ==
  IF n = 0 THEN 0
  ELSE IF n = Fields(line) THEN Len(line) + 1
  ELSE CHOOSE k \in DOMAIN line : line[k] = delimiter /\ CommasUpTo(line, k) = n

Field(line, n) == SubSeq(line, CommaAt(line, n - 1) + 1, CommaAt(line, n) - 1)

Blank(s) == \A k \in DOMAIN s : s[k] \in _WHITESPACE

\* The fields among the first n that are not blank.
Filled(line, n) == {k \in 1..n : ~Blank(Field(line, k))}

\* token is s without the blanks around it.
Trimmed(s, token) ==
  /\ ~Blank(<<Head(token)>>) /\ ~Blank(<<token[Len(token)]>>)
  /\ \E a \in 0..Len(s), b \in 0..Len(s) :
       /\ a + Len(token) + b = Len(s)
       /\ Blank(SubSeq(s, 1, a)) /\ Blank(SubSeq(s, Len(s) - b + 1, Len(s)))
       /\ SubSeq(s, a + 1, Len(s) - b) = token
=============================================================================
