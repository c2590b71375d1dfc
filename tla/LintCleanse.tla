---------------------------- MODULE LintCleanse ----------------------------
(***************************************************************************)
(* cpplint.py: how the lines are freed of comments, strings and characters  *)
(* before nearly all of the checks look at them (clean_lines.elided).  A    *)
(* line is a sequence of characters.  Blanks, which only decide what blanks *)
(* are left, and backslashes at the end of a line are left out, and so are  *)
(* #include lines, which keep their quotes.                                 *)
(***************************************************************************)
EXTENDS Integers, SequencesExt

DQ == "\""
SQ == "'"
BS == "\\"
Digits == {"1"}
WordChars == Digits \cup {"a", "R"}

(* What \b(?:0[bBxX]?|[1-9])[0-9a-fA-F]*$ may consist of.                   *)
HexDigits == Digits \cup {"a"}

(* What may follow a backslash to be an escape.                             *)
Escapes == {"a", DQ, SQ, BS} \cup Digits

At(line, i) == IF i \in DOMAIN line THEN line[i] ELSE "none"
Two(line, i, a, b) == At(line, i) = a /\ At(line, i + 1) = b
From(line, i) == SubSeq(line, i, Len(line))
Upto(line, i) == SubSeq(line, 1, i)

(* The least element of S, 0 if there is none: as find(), from 1.           *)
First(S) == IF S = {} THEN 0 ELSE CHOOSE i \in S : \A j \in S : i <= j

Finds(line, x, from) == First({i \in from .. Len(line) : line[i] = x})
FindsTwo(line, a, b, from) == First({i \in from .. Len(line) - 1 : Two(line, i, a, b)})
-----------------------------------------------------------------------------
(* FindNextMultiLineCommentStart, ...End, of a line.                        *)
StartsComment(line) == Two(line, 1, "/", "*") /\ FindsTwo(line, "*", "/", 3) = 0
EndsComment(line) == Two(line, Len(line) - 1, "*", "/")

(* RemoveMultiLineComments from a line on: the lines, and where there is a  *)
(* comment without an end (0 if nowhere), when the rest is left as it is.   *)
RECURSIVE RemoveFrom(_, _)
RemoveFrom(lines, from) ==
  LET begin == First({i \in from .. Len(lines) : StartsComment(lines[i])})
      end == First({i \in begin .. Len(lines) : EndsComment(lines[i])})
      cleared == [i \in DOMAIN lines |->
                    IF i \in begin .. end THEN <<"/", "*", "*", "/">> ELSE lines[i]]
  IN
  IF begin = 0 THEN [lines |-> lines, unclosed |-> 0]
  ELSE IF end = 0 THEN [lines |-> lines, unclosed |-> begin]
  ELSE RemoveFrom(cleared, end + 1)

RemoveMultiLineComments(lines) == RemoveFrom(lines, 1)
-----------------------------------------------------------------------------
(* The line up to i is split into single characters and whole literals.     *)
RECURSIVE Splits(_, _)
Splits(line, i) ==
  LET quote == line[i]
      ends == {j \in i + 1 .. Len(line) :
                 /\ line[j] = quote
                 /\ \A k \in i + 1 .. j - 1 : line[k] = quote => line[k - 1] = BS}
  IN
  \/ Two(line, i, "/", "/")
  \/ i <= Len(line) /\ quote \notin {DQ, SQ} /\ Splits(line, i + 1)
  \/ i <= Len(line) /\ quote \in {DQ, SQ} /\ \E j \in ends : Splits(line, j + 1)

(* A raw string starts at i, with its ( at p.                               *)
OpensRaw(line, i, p) ==
  /\ Two(line, i, "R", DQ) /\ At(line, i - 1) \notin WordChars
  /\ p > i + 1 /\ At(line, p) = "("
  /\ \A k \in i + 2 .. p - 1 : line[k] \notin {BS, "(", ")"}

RawAt(line, i) == First({p \in i .. Len(line) : OpensRaw(line, i, p)})

(* Where the line has )delimiter" from position from on.                    *)
FindsEnd(line, delimiter, from) ==
  First({i \in from .. Len(line) : IsPrefix(delimiter, From(line, i))})

NoDelimiter == <<>>

(* CleanseRawStrings, one line: inside is the delimiter of the raw string   *)
(* that it begins in.                                                       *)
RECURSIVE CleanseRaw(_, _)
CleanseRaw(line, inside) ==
  LET start == First({i \in DOMAIN line : RawAt(line, i) > 0})
      p == RawAt(line, start)
      delimiter == <<")">> \o SubSeq(line, start + 2, p - 1) \o <<DQ>>
      commented == Splits(Upto(line, start - 1), 1)
      resumed == FindsEnd(line, inside, 1)
      end == FindsEnd(line, delimiter, p + 1)
      empty == Upto(line, start - 1) \o <<DQ, DQ>>
  IN
  IF inside # NoDelimiter
  THEN IF resumed = 0 THEN [line |-> <<DQ, DQ>>, inside |-> inside]
       ELSE CleanseRaw(<<DQ, DQ>> \o From(line, resumed + Len(inside)), NoDelimiter)
  ELSE IF start = 0 \/ commented THEN [line |-> line, inside |-> NoDelimiter]
  ELSE IF end = 0 THEN [line |-> empty, inside |-> delimiter]
  ELSE CleanseRaw(empty \o From(line, end + Len(delimiter)), NoDelimiter)

CleanseRawStrings(lines) ==
  FoldLeft(LAMBDA acc, line :
             LET r == CleanseRaw(line, acc.inside)
             IN  [lines |-> Append(acc.lines, r.line), inside |-> r.inside],
           [lines |-> <<>>, inside |-> NoDelimiter], lines).lines
-----------------------------------------------------------------------------
(* Mutant: escapes are left in.                                             *)
EscapesLeft(line) == line

(* _RE_PATTERN_CLEANSE_LINE_ESCAPES                                         *)
RECURSIVE DropEscapes(_)
DropEscapes(line) ==
  LET i == First({k \in 1 .. Len(line) - 1 : line[k] = BS /\ line[k + 1] \in Escapes})
      digits == {k \in i + 1 .. Len(line) : \A j \in i + 1 .. k : line[j] \in Digits}
  IN
  IF i = 0 THEN line
  ELSE Upto(line, i - 1)
       \o DropEscapes(From(line, IF digits = {} THEN i + 2 ELSE i + 1 + Cardinality(digits)))

(* The part before a quote ends with a number.                              *)
EndsInNumber(head) ==
  \E i \in DOMAIN head :
    /\ head[i] \in Digits /\ At(head, i - 1) \notin WordChars
    /\ \A k \in i .. Len(head) : head[k] \in HexDigits

(* How much of a line that starts with a quote belongs to the number.       *)
RECURSIVE NumberLength(_)
NumberLength(tail) ==
  CASE At(tail, 1) \in WordChars -> 1 + NumberLength(From(tail, 2))
    [] At(tail, 1) = SQ /\ At(tail, 2) \in WordChars -> 2 + NumberLength(From(tail, 3))
    [] OTHER -> 0

(* The loop of _CollapseStrings.                                            *)
RECURSIVE Collapse(_)
Collapse(line) ==
  LET q == First({i \in DOMAIN line : line[i] \in {DQ, SQ}})
      head == Upto(line, q - 1)
      second == Finds(line, line[q], q + 1)
      n == NumberLength(From(line, q))
      number == SelectSeq(SubSeq(line, q, q + n - 1), LAMBDA x : x # SQ)
      rest == From(line, q + n)
  IN
  IF q = 0 THEN line
  ELSE IF line[q] = SQ /\ EndsInNumber(head) /\ n > 0
  THEN head \o number \o Collapse(rest)
  ELSE IF second = 0 THEN line
  ELSE head \o <<line[q], line[q]>> \o Collapse(From(line, second + 1))

CollapseStrings(line) == Collapse(DropEscapes(line))
-----------------------------------------------------------------------------
(* IsCppString                                                              *)
IsCppString(line) ==
  LET escaped(i) == \E k \in 1 .. i - 1 :
                      /\ (i - k) % 2 = 1 /\ \A j \in k .. i - 1 : line[j] = BS
                      /\ At(line, k - 1) # BS
      quotes == {i \in DOMAIN line : line[i] = DQ /\ ~escaped(i)}
      chars == {i \in quotes : At(line, i - 1) = SQ /\ At(line, i + 1) = SQ}
  IN (Cardinality(quotes) - Cardinality(chars)) % 2 = 1

(* Comments that end in their line.                                         *)
RECURSIVE DropComments(_)
DropComments(line) ==
  LET begin == First({i \in DOMAIN line : Two(line, i, "/", "*")
                                          /\ FindsTwo(line, "*", "/", i + 2) > 0})
      end == FindsTwo(line, "*", "/", begin + 2)
  IN IF begin = 0 THEN line
     ELSE Upto(line, begin - 1) \o DropComments(From(line, end + 2))

(* CleanseComments: of // only the first is looked at.                      *)
CleanseComments(line) ==
  LET p == FindsTwo(line, "/", "/", 1)
      comment == p > 0 /\ ~IsCppString(Upto(line, p - 1))
  IN DropComments(IF comment THEN Upto(line, p - 1) ELSE line)

(* CleansedLines.elided of a file, after RemoveMultiLineComments.           *)
Elided(lines) ==
  LET raw == CleanseRawStrings(RemoveMultiLineComments(lines).lines)
  IN [i \in DOMAIN raw |-> CleanseComments(CollapseStrings(raw[i]))]

(* CheckForMultilineCommentsAndStrings reports the line.                    *)
LeftOpen(line) ==
  LET pairs(a, b) == Cardinality({i \in DOMAIN line : Two(line, i, a, b)})
      quotes == Cardinality({i \in DOMAIN line : line[i] = DQ})
  IN \/ pairs("/", "*") > pairs("*", "/")
     \/ (quotes - pairs(BS, DQ)) % 2 = 1
=============================================================================
