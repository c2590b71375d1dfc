------------------------------ MODULE LintFile ------------------------------
(***************************************************************************)
(* cpplint.py on one file, line by line: the nesting of the blocks, the     *)
(* included headers and the length of the functions, which ProcessLine      *)
(* keeps from line to line, and what is checked after the last one.  All    *)
(* errors are collected; LintRun is about which are printed.                *)
(***************************************************************************)
EXTENDS LintNesting, LintIncludes

CONSTANTS
  Inputs,         \* the files: a text, which is a sequence of lines, and its
                  \* name, with the headers that can be opened (disk)
  NormalTrigger,  \* the lines that a function may have with verbosity 0
  TestTrigger,    \* ... if it is a test
  Verbose         \* the verbosity

ASSUME LintFileAssumption ==
  /\ \A i \in Inputs : /\ i.text \in Seq(Range(i.text))
                       /\ \A l \in Range(i.text) : l.toks \in Seq(Range(l.toks))
                       /\ \A k, l \in Range(i.text) :
                            /\ k.pp = "include" /\ l.pp = "include"
                            /\ k.inc.name = l.inc.name
                            => /\ k.inc.dir = l.inc.dir /\ k.inc.base = l.inc.base
                               /\ k.inc.ext = l.inc.ext
  /\ NormalTrigger \in Nat \ {0} /\ TestTrigger \in Nat \ {0}
  /\ Verbose \in 0 .. 5

VARIABLES
  text, file,
  line,      \* the line that is next
  nesting,   \* nesting_state
  includes,  \* include_state
  function,  \* function_state
  errors,    \* the errors found
  skipped    \* history: the lines in assembly blocks

vars == <<text, file, line, nesting, includes, function, errors, skipped>>

FnSize == <<"readability", "fn", "size">>

NoFunction == [in |-> FALSE, lines |-> 0, test |-> FALSE]

Init ==
  /\ \E i \in Inputs : text = i.text /\ file = i.file
  /\ line = 1
  /\ nesting = NewNesting /\ includes = NewIncludes /\ function = NoFunction
  /\ errors = {} /\ skipped = {}
-----------------------------------------------------------------------------
(* The number of words that a line starts with, before a parenthesis; 0 if  *)
(* it does not start like that.                                             *)
Words == ClassHeads \cup Namespaces \cup {"w", "TEST", "MACRO", "asm"}

NameAt(l) ==
  LET open == SelectInSeq(text[l].toks, LAMBDA x : x = "(") IN
  IF /\ text[l].indent = 0 /\ open > 1
     /\ \A i \in 1 .. open - 1 : text[l].toks[i] \in Words
  THEN open - 1 ELSE 0

StartsFunction(l) == NameAt(l) > 0 /\ text[l].toks[NameAt(l)] # "MACRO"
EndsFunction(l) == text[l].toks = <<"}">> /\ text[l].indent = 0
Has(l, tokens) == Range(text[l].toks) \cap tokens # {}

(* The search for the body reads the strings too.                           *)
Shows(l, tokens) == Has(l, tokens) \/ text[l].strings \cap tokens # {}

Log2(n) == CHOOSE k \in 0 .. n : 2^k <= n /\ n < 2^(k + 1)
Base(test) == IF test THEN TestTrigger ELSE NormalTrigger
Trigger(test) == Base(test) * 2^Verbose

(* Mutant: as many lines as are allowed are too many.                       *)
CheckLengthEarly(fn, l) ==
  IF fn.in /\ fn.lines >= Trigger(fn.test)
  THEN Err(l, FnSize, Min({5, Log2(fn.lines \div Base(fn.test))})) ELSE {}

(* _FunctionState.Check                                                     *)
CheckLength(fn, l) ==
  IF fn.in /\ fn.lines > Trigger(fn.test)
  THEN Err(l, FnSize, Min({5, Log2(fn.lines \div Base(fn.test))})) ELSE {}

(* CheckForFunctionLengths: the body of a function is looked for at once,   *)
(* and has begun where it starts; a declaration, or a body in one line, has *)
(* none.  It ends with a brace of its own in the first column.              *)
CheckForFunctionLengths(fn, l) ==
  LET ends == {k \in l .. Len(text) : Shows(k, {"{", "}", ";"})}
      body == ends # {} /\ ~Shows(Min(ends), {"}", ";"})
      test == text[l].toks[NameAt(l)] = "TEST"
  IN
  CASE StartsFunction(l) /\ ends = {} -> [fn |-> fn, errors |-> Err(l, FnSize, 5)]
    [] StartsFunction(l) /\ ends # {} ->
         [fn |-> IF body THEN [in |-> TRUE, lines |-> 0, test |-> test] ELSE fn,
          errors |-> {}]
    [] ~StartsFunction(l) /\ EndsFunction(l) ->
         [fn |-> [fn EXCEPT !.in = FALSE], errors |-> CheckLength(fn, l)]
    [] OTHER ->
         [fn |-> IF fn.in /\ text[l].toks # <<>> THEN [fn EXCEPT !.lines = @ + 1] ELSE fn,
          errors |-> {}]
-----------------------------------------------------------------------------
(* ProcessLine                                                              *)
ProcessLine ==
  LET n == Update(nesting, text, line)
      inside == InAsmBlock(n.stack)
      f == CheckForFunctionLengths(function, line)
      i == TakeDirective(includes, file, text, line)
  IN
  /\ line <= Len(text)
  /\ line' = line + 1
  /\ nesting' = [stack |-> n.stack, pp |-> n.pp]
  /\ IF inside THEN UNCHANGED <<function, includes>> /\ skipped' = skipped \cup {line}
     ELSE function' = f.fn /\ includes' = i.inc /\ UNCHANGED skipped
  /\ errors' = errors \cup n.errors
                 \cup CheckForNamespaceIndentation(nesting.stack, n.stack, text, line)
                 \cup (IF inside THEN {} ELSE f.errors \cup i.errors)
  /\ UNCHANGED <<text, file>>

(* ProcessFileData after the last line.                                     *)
FinishFile ==
  /\ line = Len(text) + 1
  /\ line' = line + 1
  /\ errors' = errors
       \cup CheckCompletedBlocks(nesting.stack)
       \cup CheckForIncludeWhatYouUse(includes, file, text, file.disk)
       \cup (IF IsSource(file) THEN CheckHeaderFileIncluded(includes, file) ELSE {})
  /\ UNCHANGED <<text, file, nesting, includes, function, skipped>>

Next == ProcessLine \/ FinishFile

Spec == Init /\ [][Next]_vars

Finished == line = Len(text) + 2
-----------------------------------------------------------------------------
(* The conditionals of a text, as a preprocessor has them.                  *)
PP(a, b, pp) == Cardinality({k \in a .. b : text[k].pp = pp})
Ifs == {j \in DOMAIN text : text[j].pp = "if"}

EndOf(j) ==
  LET ends == {m \in j .. Len(text) : PP(j, m, "if") = PP(j, m, "endif")}
  IN IF ends = {} THEN Len(text) + 1 ELSE Min(ends)

(* The conditional j has line k; the innermost that has it; and the branch  *)
(* of j that it is in.                                                      *)
Holds(j, k) == j \in Ifs /\ j <= k /\ k < EndOf(j)
Innermost(j, k) == Holds(j, k) /\ \A i \in Ifs : i > j => ~Holds(i, k)
Branch(j, k) == Cardinality({e \in j .. k : text[e].pp = "else" /\ Innermost(j, e)})

(* The lines up to i of which the stack after line i is made: of every      *)
(* conditional that is over the first branch, of the others the one of i.   *)
Path(i) ==
  {k \in 1 .. i : \A j \in Ifs :
     Holds(j, k) => Branch(j, k) = IF Holds(j, i) THEN Branch(j, i) ELSE 0}

(* The stack after those of the first n lines that are on the path.         *)
StackOf(lines, path, n) ==
  FoldLeft(LAMBDA s, k : IF k \in path THEN UpdateStack(s, lines, k).stack ELSE s,
           <<>>, [k \in 1 .. n |-> k])

(* The stack after a line is that of a text without conditionals that has   *)
(* just the lines of the path: no other branch leaves anything behind.      *)
(* (NestingState.UpdatePreprocessor)                                        *)
StackIsOfPath ==
  line \in 2 .. Len(text) + 1 => nesting.stack = StackOf(text, Path(line - 1), line - 1)

(* The tokens of the path, with their lines; t is such a sequence below.    *)
PathCode(i) ==
  LET path == SetToSortSeq(Path(i), <)
      of(k) == << <<"nl", k>> >>
               \o [n \in DOMAIN text[k].toks |-> <<text[k].toks[n], k>>]
  IN FlattenSeq([n \in DOMAIN path |-> of(path[n])])

HowMany(t, n, x) == Cardinality({k \in 1 .. n : t[k][1] = x})

(* The heads: of namespaces at the start of a line or after the brace of    *)
(* one, of classes there too unless they are parameters of a template.      *)
HeadsOf(t) ==
  LET start(q) == Max({k \in 1 .. q : t[k][1] = "nl"})
      first(q) == \A k \in start(q) + 1 .. q - 1 :
                    IF (k - start(q)) % 2 = 1 THEN t[k][1] \in Namespaces ELSE t[k][1] = "{"
      odd(q) == (q - start(q)) % 2 = 1
  IN {q \in DOMAIN t :
        /\ t[q][1] \in Namespaces \cup ClassHeads /\ odd(q) /\ first(q)
        /\ t[q][1] \in ClassHeads => HowMany(t, q, "<") = HowMany(t, q, ">")}

Ends == {"{", "}", ";", ")"}

(* Every head is followed by a brace, or, if it is a class's, the end of a  *)
(* statement or a parenthesis, before another class or a closing brace;     *)
(* angle brackets are closed in between, and no parenthesis is open where a *)
(* line has braces or starts with a head.                                   *)
Regular(t) ==
  LET heads == HeadsOf(t)
      next(q) == {k \in q + 1 .. Len(t) :
                    k \in heads \/ t[k][1] \in ClassHeads \cup Ends}
      even(k, x, y) == HowMany(t, k, x) = HowMany(t, k, y)
      starts == {k \in DOMAIN t : t[k][1] = "nl"}
      touches(k) == \E q \in k + 1 .. Len(t) :
                      /\ t[q][2] = t[k][2]
                      /\ t[q][1] \in {"{", "}"} \/ q \in heads
  IN
  /\ \A q \in heads : next(q) # {} =>
       t[Min(next(q))][1] \in {"{"} \cup (IF t[q][1] \in Namespaces THEN {} ELSE {";", ")"})
  /\ \A k \in DOMAIN t : t[k][1] \in Ends => even(k, "<", ">")
  /\ \A k \in DOMAIN t : HowMany(t, k, "<") >= HowMany(t, k, ">")
  /\ \A k \in starts : touches(k) => even(k, "(", ")")
  /\ \A k \in starts : k > 1 /\ (\E q \in starts : q < k /\ touches(q) /\ t[q][2] = t[k - 1][2])
                         => even(k, "(", ")")

(* The braces that are open at the end of t.                                *)
OpenBraces(t) ==
  FoldLeft(LAMBDA s, k : IF t[k][1] = "{" THEN Append(s, k)
                         ELSE IF t[k][1] = "}" /\ s # <<>> THEN Front(s) ELSE s,
           <<>>, [k \in DOMAIN t |-> k])

(* The kind and the line of the block that the brace at p opens.            *)
BlockAt(t, p) ==
  LET heads == HeadsOf(t)
      before == {q \in 1 .. p - 1 : q \in heads \/ t[q][1] \in Ends}
      q == Max(before)
  IN IF before = {} THEN <<"other", t[p][2]>>
     ELSE IF q \notin heads THEN <<"other", t[p][2]>>
     ELSE <<IF t[q][1] \in Namespaces THEN "namespace" ELSE "class", t[q][2]>>

KindOf(b) == IF b.kind \in {"class", "namespace"} THEN b.kind ELSE "other"

BlocksMatch(t) ==
  LET open == OpenBraces(t)
      blocks == SelectSeq(nesting.stack, LAMBDA b : b.seen)
  IN [n \in DOMAIN blocks |-> <<KindOf(blocks[n]), blocks[n].line>>]
       = [n \in DOMAIN open |-> BlockAt(t, open[n])]

(* That the search of TakeClass begins too far to the left does no harm: it *)
(* meets a brace before anything that could be of a template.               *)
SearchedRight(l) ==
  LET back == text[l].back IN
  \A k \in DOMAIN back :
    back[k] \in {"<", ">", "=", "[", "]", "."} => \E n \in 1 .. k - 1 : back[n] = "{"

(* In a regular text the blocks on the stack are those of the braces that   *)
(* are open: each of a class or namespace where its head precedes it, of    *)
(* another kind otherwise; a declaration, an argument and a parameter of a  *)
(* template leave none.  Not so where the search for the end of a template  *)
(* begins within one: its class is not put on the stack.                    *)
(* (NestingState.Update)                                                    *)
BlocksAreBraces ==
  line \in 2 .. Len(text) + 1 /\ (\A l \in Path(line - 1) : SearchedRight(l)) =>
    LET t == PathCode(line - 1) IN Regular(t) => BlocksMatch(t)
-----------------------------------------------------------------------------
(* Line k of the function from s to e is in an assembly block: one with     *)
(* parentheses up to the line that closes them, one with braces up to the   *)
(* line before.                                                             *)
Sum(a, b, x, y) ==
  Count(FlattenSeq([n \in 1 .. b - a + 1 |-> text[a + n - 1].toks]), x)
  - Count(FlattenSeq([n \in 1 .. b - a + 1 |-> text[a + n - 1].toks]), y)

InAsm(s, k) ==
  \E a \in s + 1 .. k :
    /\ StartsAsm(text[a].toks) /\ Sum(s, a - 1, "(", ")") = 0
    /\ \/ text[a].toks[2] = "(" /\ \A m \in a .. k - 1 : Sum(a, m, "(", ")") > 0
          /\ Sum(a, a, "(", ")") > 0
       \/ text[a].toks[2] = "{" /\ \A m \in a .. k : Sum(a, m, "{", "}") > 0

(* From s to e there is a function that is laid out as it should be, with   *)
(* no string in its head that looks like the end of a declaration.          *)
Laid(s, e) ==
  /\ s < e /\ StartsFunction(s) /\ Has(s, {"{"}) /\ ~Shows(s, {"}", ";"})
  /\ EndsFunction(e) /\ Sum(s, e, "{", "}") = 0
  /\ \A k \in s .. e - 1 : Sum(s, k, "{", "}") > 0
  /\ \A k \in s .. e - 1 : Sum(s, k, "(", ")") >= 0
  /\ Sum(s, e - 1, "(", ")") = 0
  /\ \A k \in s + 1 .. e - 1 : ~StartsFunction(k) /\ ~EndsFunction(k)

Size(s, e) ==
  Cardinality({k \in s + 1 .. e - 1 : text[k].toks # <<>> /\ ~InAsm(s, k)})

NoAssembly == \A l \in DOMAIN text : ~Has(l, {"asm"})

(* A function's length is reported at its end if its lines, without blank   *)
(* ones and those of assembly, are more than the verbosity lets pass, and   *)
(* with a confidence that the verbosity lets through; if the text has       *)
(* conditionals, where it has no assembly.  (CheckForFunctionLengths,       *)
(* _FunctionState)                                                          *)
FunctionsMeasured ==
  \A s, e \in DOMAIN text : line > e /\ Laid(s, e) /\ (Ifs = {} \/ NoAssembly) =>
    LET test == text[s].toks[NameAt(s)] = "TEST"
        found == {x \in errors : x.line = e /\ x.cat = FnSize}
    IN
    /\ found # {} <=> Size(s, e) > Trigger(test)
    /\ \A x \in found : x.conf >= Verbose /\ Base(test) * 2^x.conf <= Size(s, e)
-----------------------------------------------------------------------------
Reported(i, cat) == \E x \in errors : x.line = i /\ x.cat = cat

(* The lines that include a header, which is nobody else's.                 *)
Foreign(h) == h.ext = "cc" /\ h.dir # file.dir
Includes ==
  {i \in DOMAIN text : /\ text[i].pp = "include"
                       /\ ~text[i].inc.third /\ ~Foreign(text[i].inc)}
Named(i) == text[i].inc.name
Kind(i) == ClassifyInclude(file, text[i].inc)

Again(i) == Says(i, "again") \subseteq errors

Exclusive(i, j) ==
  \E c \in Ifs : Holds(c, i) /\ Holds(c, j) /\ Branch(c, i) # Branch(c, j)

(* Whenever line i is compiled, j is.                                       *)
Implies(i, j) == \A c \in Ifs : Holds(c, j) => Holds(c, i) /\ Branch(c, i) = Branch(c, j)

Nested == \E c, d \in Ifs : c # d /\ Holds(c, d)

(* An #else without an #if.                                                 *)
Stray == \E e \in DOMAIN text : text[e].pp = "else" /\ \A j \in Ifs : ~Holds(j, e)

Same(i) == {j \in Includes : j < i /\ Named(j) = Named(i)}

IfIn(a, b) == \E m \in a .. b : text[m].pp = "if"

(* Of the #if and #else after line j, the first is an #else, before line i. *)
Dropped(j, i) == \E e \in j + 1 .. i - 1 : text[e].pp = "else" /\ ~IfIn(j, e)

(* Twice the same header is reported unless every one before is followed by *)
(* an #else with no #if between: nothing else makes the code forget one,    *)
(* nested conditionals and stray #else included.                            *)
DuplicatesFound ==
  \A i \in Includes : i < line => (Again(i) <=> \E j \in Same(i) : ~Dropped(j, i))

(* It is reported where both are compiled if the second is; and, without    *)
(* nested conditionals, only where both can be.                             *)
DuplicatesJudged ==
  \A i \in Includes : i < line =>
    /\ (\E j \in Same(i) : Implies(i, j)) => Again(i)
    /\ Again(i) /\ ~Nested => \E j \in Same(i) : ~Exclusive(i, j)

(* The includes before i, since the last directive, that are not reported   *)
(* as duplicates.                                                           *)
Stretch(i) ==
  {j \in Includes : /\ j < i /\ ~Again(j)
                    /\ \A k \in j .. i : text[k].pp \notin {"if", "else", "endif"}}

Rank(j) ==
  CASE Kind(j) = "c" -> C
    [] Kind(j) = "cpp" -> Cpp
    [] Kind(j) = "other" -> OtherH
    [] OTHER -> IF \E k \in Stretch(j) : Kind(k) \in {"c", "cpp", "other"}
                THEN OtherH ELSE MyH

(* A system header is reported as out of order if one of a later section    *)
(* has been included since the last directive; no other header is.          *)
OrderJudged ==
  \A i \in Includes : i < line =>
    (Reported(i, IncludeOrder) <=>
       /\ Kind(i) \in {"c", "cpp"} /\ ~Again(i)
       /\ \E j \in Stretch(i) : Rank(j) > Rank(i))

(* Line j includes, unconditionally, the header of this file, and it can be *)
(* opened.                                                                  *)
OwnHeader(j) ==
  /\ \A c \in Ifs : ~Holds(c, j)
  /\ FilesBelongToSameModule(file, text[j].inc) /\ Named(j) \in DOMAIN file.disk

(* No header is asked for that is included unconditionally; one that is     *)
(* included nowhere is, in a .cc file at least if its header is known.      *)
UsesJudged ==
  LET needed == {l \in DOMAIN text : text[l].needs # {} /\ text[l].pp = "none"}
      everywhere == {Named(j) : j \in {k \in Includes : \A c \in Ifs : ~Holds(c, k)}}
      somewhere == {Named(j) : j \in Includes} \cup UNION Range(file.disk)
      last(n, l) == n \in text[l].needs /\ \A k \in needed : k > l => n \notin text[k].needs
  IN
  Finished =>
    \A l \in needed :
      /\ Reported(l, IncludeWhatYouUse) => \E n \in text[l].needs \ everywhere : last(n, l)
      /\ /\ file.ext # "cc" \/ \E j \in Includes : OwnHeader(j)
         /\ \E n \in text[l].needs \ somewhere : last(n, l)
         => Reported(l, IncludeWhatYouUse)

(* What is said of the headers a file includes, too often, in what order    *)
(* and too few, is right, if no directive is in assembly, where the code    *)
(* does not look at it.  (_IncludeState, CheckIncludeLine,                  *)
(* CheckForIncludeWhatYouUse)                                               *)
IncludesJudged ==
  (\A l \in skipped : text[l].pp \in {"none", "define"}) =>
    OrderJudged /\ DuplicatesFound /\ (~Stray => DuplicatesJudged /\ UsesJudged)
=============================================================================
