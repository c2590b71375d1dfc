---------------------------- MODULE LintNesting ----------------------------
(***************************************************************************)
(* cpplint.py: NestingState, the stack of the namespaces, classes and other *)
(* blocks around a line, updated line by line, and the checks that use it.  *)
(*                                                                          *)
(* A text is a sequence of lines without comments and strings:              *)
(*   pp       "if", "else", "endif", "define", "include" or "none"          *)
(*   toks     its tokens, "#" and what follows the directive if it is one:  *)
(*            those of LintBrackets; "class" and "struct", standing for     *)
(*            class X and struct X with what may precede them in a head; a  *)
(*            member of Namespaces; "access:" for public: and its like;     *)
(*            "asm", "extern" (extern with its string), and other words     *)
(*   strings  the braces and semicolons in its string literals              *)
(*   back     where a class follows namespaces on the line, the tokens      *)
(*            before the end of its head from which TakeClass looks on      *)
(*   indent   how many blanks it starts with                                *)
(*   comment  the member of Namespaces that its comment names, or "none"    *)
(*   joined   whether it ends with a backslash                              *)
(***************************************************************************)
EXTENDS LintErrors, LintBrackets

CONSTANTS
  Namespaces,    \* "namespace" with a name or without
  LongNamespace  \* the lines from which on a namespace's end needs a comment

ClassHeads == {"class", "struct"}

Namespace == <<"readability", "namespace">>
Indent == <<"whitespace", "indent">>
IndentationNamespace == <<"runtime", "indentation", "namespace">>
BuildClass == <<"build", "class">>
BuildNamespaces == <<"build", "namespaces">>

Err(line, cat, conf) == {[line |-> line, cat |-> cat, conf |-> conf]}

(* _BlockInfo and the classes derived from it.  name is a namespace's,      *)
(* indent a class's.                                                        *)
Block(kind, line, seen) ==
  [kind |-> kind, line |-> line, seen |-> seen, parens |-> 0, asm |-> "no",
   name |-> "none", indent |-> 0]

NewNesting == [stack |-> <<>>, pp |-> <<>>]

SeenOpenBrace(stack) == stack = <<>> \/ Last(stack).seen
TopIs(stack, kind) == stack # <<>> /\ Last(stack).kind = kind
InNamespaceBody(stack) == TopIs(stack, "namespace")
InClassDeclaration(stack) == TopIs(stack, "class")
InAsmBlock(stack) == stack # <<>> /\ Last(stack).asm # "no"

SetTop(stack, block) == Append(Front(stack), block)

Count(toks, t) == Cardinality({i \in DOMAIN toks : toks[i] = t})

(* The text from the token after position k of line l, as LintBrackets has  *)
(* it.                                                                      *)
TextFrom(text, l, k) ==
  SubSeq(text[l].toks, k + 1, Len(text[l].toks))
  \o FlattenSeq([i \in 1 .. Len(text) - l |-> <<"nl">> \o text[l + i].toks])

(* Mutant: it is never one.                                                 *)
InNoTemplateArgumentList(code) == FALSE

(* InTemplateArgumentList, of what follows a class X.                       *)
InTemplateArgumentList(code) ==
  LET says == {"{", "}", ";", "=", "[", "]", ".", ">", "<"}
      step(acc, i) ==
        IF acc.known \/ i < acc.from \/ code[i] \notin says THEN acc
        ELSE IF code[i] # "<"
        THEN [acc EXCEPT !.known = TRUE, !.in = code[i] \notin {"{", "}", ";"}]
        ELSE LET next == CloseExpression(code, i) IN
             IF next = 0 THEN [acc EXCEPT !.known = TRUE]
             ELSE [acc EXCEPT !.from = next]
  IN FoldLeft(step, [known |-> FALSE, in |-> FALSE, from |-> 1],
              [i \in DOMAIN code |-> i]).in
-----------------------------------------------------------------------------
(* Mutant: the stack of an #else is kept after #endif.                      *)
UpdatePreprocessorKept(st, pp) ==
  LET top == Last(st.pp) IN
  CASE pp = "if" ->
         [st EXCEPT !.pp = Append(@, [beforeIf |-> st.stack, beforeElse |-> <<>>,
                                      seenElse |-> FALSE])]
    [] pp = "else" /\ st.pp # <<>> -> [st EXCEPT !.stack = top.beforeIf]
    [] pp = "endif" /\ st.pp # <<>> -> [st EXCEPT !.pp = Front(@)]
    [] OTHER -> st

(* UpdatePreprocessor: #else (and #elif) go on from before the #if, #endif  *)
(* from before the first #else.                                             *)
UpdatePreprocessor(st, pp) ==
  LET top == Last(st.pp) IN
  CASE pp = "if" ->
         [st EXCEPT !.pp = Append(@, [beforeIf |-> st.stack, beforeElse |-> <<>>,
                                      seenElse |-> FALSE])]
    [] pp = "else" /\ st.pp # <<>> ->
         [stack |-> top.beforeIf,
          pp |-> IF top.seenElse THEN st.pp
                 ELSE SetTop(st.pp, [top EXCEPT !.seenElse = TRUE,
                                                !.beforeElse = st.stack])]
    [] pp = "endif" /\ st.pp # <<>> ->
         [stack |-> IF top.seenElse THEN top.beforeElse ELSE st.stack,
          pp |-> Front(st.pp)]
    [] OTHER -> st

StartsAsm(toks) == Len(toks) > 1 /\ toks[1] = "asm" /\ toks[2] \in {"(", "{"}

(* Update counts the parentheses of the innermost block, and with them      *)
(* enters and leaves an assembly block: it is left after the line that ends *)
(* it.                                                                      *)
CountParentheses(stack, toks) ==
  LET top == Last(stack)
      change == Count(toks, "(") - Count(toks, ")")
      parens == top.parens + change
      asm == CASE top.asm \in {"no", "end"} ->
                    IF change # 0 /\ parens = 1 /\ StartsAsm(toks) THEN "inside"
                    ELSE "no"
               [] top.asm = "inside" /\ parens = 0 -> "end"
               [] OTHER -> top.asm
  IN IF stack = <<>> THEN stack
     ELSE SetTop(stack, [top EXCEPT !.parens = parens, !.asm = asm])

(* Update consumes the namespaces at the start of the line: from is the     *)
(* token after the last.  All up to the next brace, wherever it is, is      *)
(* taken for the head of the namespace.                                     *)
TakeNamespace(acc, toks, i, l) ==
  LET brace == {k \in i + 1 .. Len(toks) : toks[k] = "{"}
      end == IF brace = {} THEN i ELSE Min(brace)
      block == [Block("namespace", l, brace # {}) EXCEPT !.name = toks[i]]
  IN IF i # acc.from \/ toks[i] \notin Namespaces THEN acc
     ELSE [stack |-> Append(acc.stack, block), from |-> end + 1]

TakeNamespaces(stack, toks, l) ==
  LET taken == FoldLeft(LAMBDA acc, i : TakeNamespace(acc, toks, i, l),
                        [stack |-> stack, from |-> 1], [i \in DOMAIN toks |-> i])
  IN [stack |-> taken.stack, rest |-> SubSeq(toks, taken.from, Len(toks))]

(* ... and then a class, unless it is an argument of a template or of a     *)
(* function.  The place where its head ends is counted from the end of the  *)
(* namespaces but used from the start of the line, so that after namespaces *)
(* the search begins too far to the left.                                   *)
TakeClass(stack, rest, text, l) ==
  LET k == Len(text[l].toks) - Len(rest) + 1
      back == IF rest = text[l].toks THEN <<>> ELSE text[l].back
      block == [Block("class", l, FALSE) EXCEPT !.indent = text[l].indent]
  IN
  IF /\ rest # <<>> /\ Head(rest) \in ClassHeads
     /\ stack = <<>> \/ Last(stack).parens = 0
     /\ ~InTemplateArgumentList(back \o TextFrom(text, l, k))
  THEN [stack |-> Append(stack, block), rest |-> Tail(rest)]
  ELSE [stack |-> stack, rest |-> rest]

(* Update: the indentation of public: and its like.                         *)
AccessErrors(stack, line, rest, l) ==
  IF /\ InClassDeclaration(stack) /\ rest = line.toks
     /\ Count(rest, "access:") = 1 /\ Head(rest) = "access:"
     /\ line.indent # Last(stack).indent + 1
  THEN Err(l, Indent, 3) ELSE {}

(* The comment after the closing brace of a namespace: it counts if there   *)
(* is nothing but braces and semicolons before it.                          *)
EndComment(line) ==
  IF line.toks # <<>> /\ Head(line.toks) = "}" /\ Range(Tail(line.toks)) \subseteq {";"}
  THEN line.comment ELSE "none"

(* CheckEnd of a namespace and of a class.                                  *)
CheckEnd(block, line, l) ==
  CASE block.kind = "namespace" ->
         IF \/ l - block.line < LongNamespace /\ EndComment(line) = "none"
            \/ EndComment(line) = block.name
         THEN {} ELSE Err(l, Namespace, 5)
    [] block.kind = "class" ->
         IF line.toks[1] = "}" /\ line.indent # block.indent
         THEN Err(l, Indent, 3) ELSE {}
    [] OTHER -> {}

(* Update consumes what is left of the line; from is the token after the    *)
(* one that was consumed last.                                              *)
OpenBrace(stack, line, rest, from, i, l) ==
  LET asm == StartsAsm(SubSeq(rest, from, Len(rest)))
      block == [Block("block", l, TRUE) EXCEPT !.asm = IF asm THEN "block" ELSE "no"]
  IN
  IF ~SeenOpenBrace(stack)
  THEN SetTop(stack, [Last(stack) EXCEPT !.seen = TRUE])
  ELSE IF rest = line.toks /\ line.indent = 0 /\ i = 2 /\ rest[1] = "extern"
  THEN Append(stack, Block("extern", l, TRUE))
  ELSE Append(stack, block)

Consume(acc, line, rest, i, l) ==
  LET stack == acc.stack IN
  CASE rest[i] = "{" ->
         [acc EXCEPT !.from = i + 1,
                     !.stack = OpenBrace(stack, line, rest, acc.from, i, l)]
    [] rest[i] \in {";", ")"} ->
         [acc EXCEPT !.from = i + 1,
                     !.stack = IF SeenOpenBrace(stack) THEN stack ELSE Front(stack)]
    [] rest[i] = "}" ->
         IF stack = <<>> THEN [acc EXCEPT !.from = i + 1]
         ELSE [stack |-> Front(stack), from |-> i + 1,
               errors |-> acc.errors \cup CheckEnd(Last(stack), line, l)]
    [] OTHER -> acc

(* What Update does to the stack after UpdatePreprocessor.                  *)
UpdateStack(stack, text, l) ==
  LET line == text[l]
      ns == TakeNamespaces(CountParentheses(stack, line.toks), line.toks, l)
      head == TakeClass(ns.stack, ns.rest, text, l)
  IN FoldLeft(LAMBDA acc, i : Consume(acc, line, head.rest, i, l),
              [stack |-> head.stack, from |-> 1,
               errors |-> AccessErrors(head.stack, line, head.rest, l)],
              [i \in DOMAIN head.rest |-> i])

(* Update: the new state, and the errors.                                   *)
Update(st, text, l) ==
  LET p == UpdatePreprocessor(st, text[l].pp)
      u == UpdateStack(p.stack, text, l)
  IN [stack |-> u.stack, pp |-> p.pp, errors |-> u.errors]

(* CheckCompletedBlocks                                                     *)
CheckCompletedBlocks(stack) ==
  UNION {CASE stack[i].kind = "class" -> Err(stack[i].line, BuildClass, 5)
           [] stack[i].kind = "namespace" -> Err(stack[i].line, BuildNamespaces, 5)
           [] OTHER -> {} : i \in DOMAIN stack}
-----------------------------------------------------------------------------
IsForwardClassDeclaration(toks) == IsSuffix(<<"class", ";">>, toks)

IsMacroDefinition(text, l) ==
  (text[l].pp = "define" /\ text[l].indent = 0) \/ (l > 1 /\ text[l - 1].joined)

ShouldCheckNamespaceIndentation(stack, begun, text, l) ==
  LET forward == IsForwardClassDeclaration(text[l].toks) IN
  /\ begun \/ forward
  /\ ~IsMacroDefinition(text, l)
  /\ forward => InNamespaceBody(stack)

(* A class or namespace that was begun in this line, directly in a          *)
(* namespace, or the declaration of a class there, is not to be indented.   *)
(* old is the stack before the line.                                        *)
CheckForNamespaceIndentation(old, stack, text, l) ==
  LET begun == /\ Len(stack) = Len(old) + 1 /\ Last(stack).line = l
               /\ Last(stack).kind \in {"class", "namespace"}
               /\ InNamespaceBody(old)
  IN
  IF ShouldCheckNamespaceIndentation(stack, begun, text, l) /\ text[l].indent > 0
  THEN Err(l, IndentationNamespace, 4) ELSE {}
=============================================================================
