---------------------------- MODULE LintBrackets ----------------------------
(***************************************************************************)
(* cpplint.py: finding the other end of a bracket, forwards and backwards.  *)
(* A text is a sequence of tokens without comments and strings; the end of  *)
(* a line is the token "nl", a blank is "sp", the word operator is          *)
(* "operator".  A stack holds the brackets that are open; where the code    *)
(* returns a position in a line, these have one in the text, 0 for none.    *)
(***************************************************************************)
EXTENDS Integers, SequencesExt

Openers == {"(", "[", "{"}
Closers == {")", "]", "}"}

Closer(open) == CASE open = "(" -> ")" [] open = "[" -> "]" [] open = "{" -> "}"
Pairs(open, close) == open \in Openers /\ close = Closer(open)

Brackets == Openers \cup Closers

(* With partner every bracket at a position in S has another there, and     *)
(* what is between two partners has its partner between them, too.          *)
Matches(text, S, partner) ==
  \A r \in S : text[r] \in Brackets =>
    LET s == partner[r] IN
    /\ partner[s] = r
    /\ \/ r < s /\ Pairs(text[r], text[s])
       \/ s < r /\ Pairs(text[s], text[r])
    /\ \A k \in S : text[k] \in Brackets /\ r < k /\ k < s =>
         r < partner[k] /\ partner[k] < s

(* The round, square and curly brackets at p and q are a pair: all between  *)
(* them can be matched.  Angle brackets do not count.                       *)
Pair(text, p, q) ==
  LET S == p + 1 .. q - 1 IN
  /\ p < q /\ Pairs(text[p], text[q])
  /\ \E partner \in [S -> S] : Matches(text, S, partner)

(* The tokens of one character.                                             *)
Signs == Openers \cup Closers \cup {"<", ">", ";", "=", "-", ".", "sp"}

Before(text, i) == IF i = 1 THEN "nl" ELSE text[i - 1]

(* \boperator\s*$ matches what precedes position i in its line.             *)
OperatorBefore(text, i) ==
  \E j \in 1 .. i - 1 : /\ text[j] = "operator"
                        /\ \A k \in j + 1 .. i - 1 : text[k] = "sp"

(* The same for a slice that lacks one character more, as it is taken for   *)
(* a > going forwards: operator> is not recognised, operator > is.          *)
OperatorBeforeLast(text, i) ==
  Before(text, i) \in Signs /\ OperatorBefore(text, i - 1)

Open(stack) == [stack |-> stack, found |-> FALSE, failed |-> FALSE, at |-> 0,
                skip |-> FALSE]
FoundAt(p) == [Open(<<>>) EXCEPT !.found = TRUE, !.at = p]
Failed == [Open(<<>>) EXCEPT !.failed = TRUE]

(* Mutant: pending angles are kept.                                         *)
WithoutNone(stack, angle) == stack

(* Pending < (or >, going backwards) turned out to be operators.            *)
Without(stack, angle) ==
  SubSeq(stack, 1, Max({0} \cup {i \in DOMAIN stack : stack[i] # angle}))

Pop(stack, p) == IF Len(stack) = 1 THEN FoundAt(p) ELSE Open(Front(stack))
Tops(stack, x) == stack # <<>> /\ Last(stack) = x

(* FindEndOfExpressionInLine, one token, and the end of a line in           *)
(* CloseExpression, where an empty stack ends the search.                   *)
Forward(text, acc, i) ==
  LET c == text[i]
      stack == acc.stack
      rest == Without(stack, "<")
  IN
  IF acc.found \/ acc.failed THEN acc ELSE
  CASE c \in Openers -> Open(Append(stack, c))
    [] c = "<" /\ Before(text, i) = "<" ->
         IF ~Tops(stack, "<") THEN acc
         ELSE IF Len(stack) = 1 THEN Failed ELSE Open(Front(stack))
    [] c = "<" /\ Before(text, i) # "<" ->
         IF OperatorBefore(text, i) THEN acc ELSE Open(Append(stack, c))
    [] c \in Closers ->
         IF rest = <<>> \/ ~Pairs(Last(rest), c) THEN Failed ELSE Pop(rest, i + 1)
    [] c = ">" ->
         IF Before(text, i) = "-" \/ OperatorBeforeLast(text, i) \/ ~Tops(stack, "<")
         THEN acc ELSE Pop(stack, i + 1)
    [] c = ";" -> IF rest = <<>> THEN Failed ELSE Open(rest)
    [] c = "nl" -> IF stack = <<>> THEN Failed ELSE acc
    [] OTHER -> acc

(* The position after the bracket that closes the one at pos.               *)
CloseExpression(text, pos) ==
  LET n == Len(text) IN
  IF \/ text[pos] \notin Openers \cup {"<"}
     \/ text[pos] = "<" /\ pos < n /\ text[pos + 1] \in {"<", "="}
  THEN 0
  ELSE FoldLeft(LAMBDA acc, i : Forward(text, acc, i), Open(<<>>),
                [i \in 1 .. n - pos + 1 |-> pos + i - 1]).at
-----------------------------------------------------------------------------
(* \s>=\s around the > at position i; Python strips no blanks, so that one  *)
(* is needed on either side, in the same line.                              *)
SpacedGe(text, i) ==
  /\ Before(text, i) = "sp" /\ i + 2 <= Len(text)
  /\ text[i + 1] = "=" /\ text[i + 2] = "sp"

(* FindStartOfExpressionInLine, one token, and the start of a line.  skip:  *)
(* the token was read together with the one after it.                       *)
Backward(text, acc, i) ==
  LET c == text[i]
      stack == acc.stack
      rest == Without(stack, ">")
  IN
  IF acc.found \/ acc.failed THEN acc ELSE
  CASE acc.skip -> [acc EXCEPT !.skip = FALSE]
    [] ~acc.skip /\ c \in Closers -> Open(Append(stack, c))
    [] ~acc.skip /\ c = ">" ->
         IF Before(text, i) = "-" \/ SpacedGe(text, i) \/ OperatorBefore(text, i)
         THEN [acc EXCEPT !.skip = TRUE] ELSE Open(Append(stack, c))
    [] ~acc.skip /\ c = "<" ->
         IF Before(text, i) = "<" THEN [acc EXCEPT !.skip = TRUE]
         ELSE IF Tops(stack, ">") THEN Pop(stack, i) ELSE acc
    [] ~acc.skip /\ c \in Openers ->
         IF rest = <<>> \/ ~Pairs(c, Last(rest)) THEN Failed ELSE Pop(rest, i)
    [] ~acc.skip /\ c = ";" -> IF rest = <<>> THEN Failed ELSE Open(rest)
    [] ~acc.skip /\ c = "nl" -> IF stack = <<>> THEN Failed ELSE acc
    [] OTHER -> acc

(* The position of the bracket that opens the one at pos.                   *)
ReverseCloseExpression(text, pos) ==
  IF text[pos] \notin Closers \cup {">"} THEN 0
  ELSE FoldLeft(LAMBDA acc, i : Backward(text, acc, i), Open(<<>>),
                [i \in 1 .. pos |-> pos - i + 1]).at
=============================================================================
