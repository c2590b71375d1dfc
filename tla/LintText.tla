------------------------------ MODULE LintText ------------------------------
(***************************************************************************)
(* What cpplint.py makes of a text, for every text up to a bound, against   *)
(* what it is in C++: which brackets are pairs, and what is code.  A text   *)
(* is typed token by token.                                                 *)
(***************************************************************************)
EXTENDS LintBrackets, LintCleanse

CONSTANTS
  Alphabets  \* sets of tokens, each with a bound on the length of the texts
             \* that are written in it, and whether they are as LintBrackets
             \* has them ("brackets") or sequences of characters ("chars")

VARIABLES
  alphabet, code

Init == alphabet \in Alphabets /\ code = <<>>

Type ==
  \E t \in alphabet.tokens :
    /\ Len(code) < alphabet.max
    /\ code' = Append(code, t)
    /\ UNCHANGED alphabet

Spec == Init /\ [][Type]_<<alphabet, code>>
-----------------------------------------------------------------------------
(* The angle brackets at p and q are: and no statement ends between them,   *)
(* except inside of other brackets, where angle brackets are operators.     *)
RECURSIVE AnglePair(_, _)
AnglePair(p, q) ==
  LET inside == p + 1 .. q - 1
      shallow == {r \in inside : \A s, t \in inside : s < r /\ r < t => ~Pair(code, s, t)}
  IN
  /\ p < q /\ code[p] = "<" /\ code[q] = ">"
  /\ \A r \in inside :
       code[r] \in Brackets => \E s \in inside : Pair(code, r, s) \/ Pair(code, s, r)
  /\ \A r \in shallow :
       /\ code[r] # ";"
       /\ code[r] \in {"<", ">"} =>
            \E s \in shallow : AnglePair(r, s) \/ AnglePair(s, r)

(* No shift, no comparison, no arrow and no operator function.              *)
AnglesAreBrackets ==
  \A i \in DOMAIN code :
    /\ code[i] = "<" => Before(code, i) # "<"
    /\ code[i] = "<" /\ i < Len(code) => code[i + 1] # "="
    /\ code[i] = ">" => Before(code, i) # "-" /\ ~SpacedGe(code, i)
    /\ code[i] # "operator"

(* Searching forwards from a round, square or curly bracket and backwards   *)
(* from its partner agree, and find what is a pair, whatever stands between *)
(* them; for angle brackets so in a text where they are not operators.      *)
(* (CloseExpression, ReverseCloseExpression)                                *)
BracketsPair ==
  alphabet.of = "brackets" =>
    \A p, q \in DOMAIN code :
      /\ code[p] \in Openers =>
           (CloseExpression(code, p) = q + 1 <=> Pair(code, p, q))
      /\ code[q] \in Closers =>
           (ReverseCloseExpression(code, q) = p <=> Pair(code, p, q))
      /\ AnglesAreBrackets /\ code[p] = "<" =>
           (CloseExpression(code, p) = q + 1 <=> AnglePair(p, q))
      /\ AnglesAreBrackets /\ code[q] = ">" =>
           (ReverseCloseExpression(code, q) = p <=> AnglePair(p, q))
-----------------------------------------------------------------------------
(* What a C++ compiler makes of the characters.  mode: code, a literal, a   *)
(* comment, or bad; skip: how many characters are read already; number: a   *)
(* number is being read; lines: the code, without what is in literals, of   *)
(* which a raw one may be in several lines; long: a comment began in an     *)
(* earlier line; misread: there is something that cpplint.py cannot read:   *)
(* a quote or backslash in a comment, a comment as "/" "*" "/" or just      *)
(* after a "*", one over several lines with code behind it, or a string of  *)
(* which an R is the end and ( is next.                                     *)
Chars == FlattenSeq(code)

Emit(lines, x) == Append(Front(lines), Last(lines) \o x)

NewLine(s) == [s EXCEPT !.lines = Append(@, <<>>), !.number = FALSE]
To(s, mode, skip) == [s EXCEPT !.mode = mode, !.skip = skip, !.number = FALSE]
Bad(s) == [s EXCEPT !.mode = "bad"]

LexCode(s, x, i) ==
  LET c == x[i]
      next == At(x, i + 1)
      p == RawAt(x, i)
      number == IF s.number THEN c \in WordChars \cup {SQ}
                ELSE c \in Digits /\ At(x, i - 1) \notin WordChars
  IN
  CASE c = "nl" -> NewLine(s)
    [] c = "/" /\ next = "/" -> To(s, "line", 1)
    [] c = "/" /\ next = "*" ->
         [To(s, "block", 1) EXCEPT
            !.long = FALSE,
            !.misread = @ \/ At(x, i - 1) = "*" \/ At(x, i + 2) = "/"]
    [] p > 0 -> [To(s, "raw", p - i) EXCEPT
                   !.delimiter = <<")">> \o SubSeq(x, i + 2, p - 1) \o <<DQ>>,
                   !.lines = Emit(@, <<DQ, DQ>>)]
    [] c = DQ -> [To(s, "str", 0) EXCEPT !.lines = Emit(@, <<DQ, DQ>>)]
    [] c = SQ /\ s.number /\ next \in WordChars -> s
    [] c = SQ /\ ~(s.number /\ next \in WordChars) ->
         [To(s, "chr", 0) EXCEPT !.lines = Emit(@, <<SQ, SQ>>)]
    [] c = BS \/ (c = "*" /\ next = "/" /\ At(x, i + 2) \notin {"*", "/"}) -> Bad(s)
    [] OTHER -> [s EXCEPT !.lines = Emit(@, <<c>>), !.number = number]

Lex(s, x, i) ==
  LET c == x[i]
      next == At(x, i + 1)
  IN
  CASE s.mode = "bad" -> s
    [] s.mode # "bad" /\ s.skip > 0 -> [s EXCEPT !.skip = @ - 1]
    [] s.mode = "code" /\ s.skip = 0 -> LexCode(s, x, i)
    [] s.mode \in {"str", "chr"} /\ s.skip = 0 ->
         CASE c = "nl" -> Bad(s)
           [] c = BS -> IF next \in Escapes THEN [s EXCEPT !.skip = 1] ELSE Bad(s)
           [] c = (IF s.mode = "str" THEN DQ ELSE SQ) -> To(s, "code", 0)
           [] OTHER -> [s EXCEPT !.misread = @ \/ RawAt(x, i) > 0]
    [] s.mode = "line" /\ s.skip = 0 ->
         IF c = "nl" THEN NewLine(To(s, "code", 0)) ELSE s
    [] s.mode = "block" /\ s.skip = 0 ->
         CASE c = "nl" -> [NewLine(s) EXCEPT !.long = TRUE]
           [] c = "*" /\ next = "/" ->
                [To(s, "code", 1) EXCEPT
                   !.misread = @ \/ (s.long /\ At(x, i + 2) \notin {"nl", "none"})]
           [] c \in {DQ, SQ, BS} -> [s EXCEPT !.misread = TRUE]
           [] OTHER -> s
    [] s.mode = "raw" /\ s.skip = 0 ->
         CASE c = "nl" -> [NewLine(s) EXCEPT !.lines = Emit(@, <<DQ, DQ>>)]
           [] IsPrefix(s.delimiter, From(x, i)) ->
                To(s, "code", Len(s.delimiter) - 1)
           [] OTHER -> s

Lexed(x) ==
  FoldLeft(LAMBDA s, i : Lex(s, x, i),
           [mode |-> "code", skip |-> 0, number |-> FALSE, delimiter |-> <<>>,
            long |-> FALSE, misread |-> FALSE, lines |-> << <<>> >>],
           [i \in DOMAIN x |-> i])

LinesOf(x) ==
  FoldLeft(LAMBDA ls, c : IF c = "nl" THEN Append(ls, <<>>) ELSE Emit(ls, <<c>>),
           << <<>> >>, x)

(* The lines without comments and literals are the code, for a text that    *)
(* is C++ and has nothing that is misread; where they are not, that line or *)
(* one before it has been reported as a comment or string that is not       *)
(* closed.  (RemoveMultiLineComments, CleansedLines)                        *)
ElidedIsCode ==
  alphabet.of = "chars" =>
    LET x == Chars
        true == Lexed(x)
        lines == LinesOf(x)
        elided == Elided(lines)
        unclosed == RemoveMultiLineComments(lines).unclosed
    IN
    true.mode \in {"code", "line"} /\ ~true.misread =>
      \A l \in DOMAIN lines :
        \/ elided[l] = true.lines[l]
        \/ \E m \in 1 .. l : LeftOpen(elided[m]) \/ unclosed = m
=============================================================================
