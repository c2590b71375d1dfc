----------------------------- MODULE MCLintFile -----------------------------
(* Bounds for LintFile: texts of a few lines, for the blocks, the           *)
(* functions and the headers each from lines of their own.                  *)
EXTENDS LintFile

MCNamespaces == {"namespace a", "namespace"}
MCCpp == {"map"}

Plain(indent, toks) ==
  [pp |-> "none", toks |-> toks, indent |-> indent, comment |-> "none",
   joined |-> FALSE, inc |-> NoHeader, needs |-> {}, strings |-> {}, back |-> <<>>]

Directive(pp) == [Plain(0, <<"#">>) EXCEPT !.pp = pp]
Conditional == {Directive("if"), Directive("else"), Directive("endif")}

(* #if defined(X)                                                           *)
IfDefined == [Plain(0, <<"#", "w", "(", ")">>) EXCEPT !.pp = "if"]

Of(S, n) == [1 .. n -> S]

(* Blocks in conditionals.                                                  *)
Branches ==
  Conditional \cup {Plain(0, <<"class", "{">>), Plain(0, <<"}">>)}

(* Heads of all kinds.                                                      *)
Heads ==
  {Plain(2, <<"class">>), Plain(0, <<"struct", "w", ";">>),
   Plain(0, <<"{">>), Plain(2, <<"w", "(">>),
   Plain(0, <<"template", "<", "class", "w">>), Plain(0, <<"class", ">">>),
   Plain(0, <<"}", ";">>),
   Plain(1, <<"access:">>), IfDefined,
   Plain(2, <<"struct", "w", "(", ")", "{">>)}

(* Namespaces, linkage and their ends.                                      *)
Spaces ==
  {Plain(0, <<"namespace a", "{", "namespace", "{">>), Plain(2, <<"namespace">>),
   Plain(0, <<"extern", "{">>), Plain(0, <<"{">>), Plain(2, <<"class", ";">>),
   [Plain(0, <<"}">>) EXCEPT !.comment = "namespace a"],
   [Plain(0, <<"#", "w">>) EXCEPT !.pp = "define", !.joined = TRUE],
   Plain(1, <<"class", "{", "access:", "w", ";", "}", ";">>), Plain(0, <<"}", "}">>)}

OneLine == [Plain(0, <<"namespace a", "{", "class", "{">>) EXCEPT !.back = <<"w", "{", "class">>]

(* namespace a {template <class T> class X {                                *)
Templates ==
  {[Plain(0, <<"namespace a", "{", "class", "{">>) EXCEPT !.back = <<"w", ">", "class">>],
   Plain(0, <<"class", "{">>), Plain(0, <<"}">>)}

(* Functions, with assembly.                                                *)
Starts == {Plain(0, <<"w", "w", "(", ")", "{">>), Plain(0, <<"TEST", "(", "w", ")", "{">>)}

Bodies ==
  {Plain(2, <<"w", ";">>), Plain(0, <<>>), Plain(2, <<"asm", "(">>), Plain(2, <<")", ";">>),
   Plain(2, <<"asm", "{">>), Plain(2, <<"}">>), Plain(0, <<"}">>)}

(* In conditionals, and with strings.                                       *)
Parts ==
  {Directive("if"), Directive("else"), Directive("endif"), Plain(2, <<"w", ";">>),
   Plain(0, <<"}">>)}

Quoted(s) == [Plain(0, <<"w", "(", "w", ")", "{">>) EXCEPT !.strings = s]

Stubs ==
  {[Plain(0, <<"w", "(", ")">>) EXCEPT !.strings = {"{"}], Quoted({";"}), Quoted({"{"}),
   Plain(0, <<"w", "(", ")">>), Plain(0, <<"MACRO", "(", ")">>), Plain(0, <<"{">>),
   Plain(0, <<"w", "(", ")", ";">>), Plain(2, <<"w">>), Plain(0, <<"}">>)}

H(sys, dir, base, ext, canon, third) ==
  [sys |-> sys, dir |-> dir, base |-> base, ext |-> ext, canon |-> canon, third |-> third,
   name |-> IF ext = "" THEN base[1] ELSE ToString(<<dir, base>>)]

Inc(indent, h) ==
  [Plain(indent, <<"#">>) EXCEPT !.pp = "include", !.inc = h]

Own == H(FALSE, <<"d">>, <<"f">>, "h", 5, FALSE)

Including ==
  Conditional \cup
  {Inc(0, Own), Inc(0, H(TRUE, <<>>, <<"map">>, "", 6, FALSE)),
   [Plain(2, <<"w">>) EXCEPT !.needs = {"map"}]}

Public == H(FALSE, <<"public">>, <<"f">>, "h", 3, FALSE)
Internal == H(FALSE, <<"d", "internal">>, <<"f">>, "h", 7, FALSE)

Odd ==
  {Inc(0, H(FALSE, <<>>, <<"lua">>, "h", 2, TRUE)),
   Inc(0, H(FALSE, <<>>, <<"b">>, "h", 1, FALSE)),
   Inc(0, H(FALSE, <<"e">>, <<"k">>, "cc", 9, FALSE)),
   Inc(2, Public), Inc(0, Internal),
   Inc(0, H(FALSE, <<"e">>, <<"f", "x">>, "h", 8, FALSE)),
   Inc(0, H(TRUE, <<>>, <<"map">>, "", 6, FALSE)),
   Inc(0, H(TRUE, <<>>, <<"errno">>, "h", 4, FALSE)),
   [Plain(2, <<"w">>) EXCEPT !.needs = {"map", "set"}]}

Lines(first, t, last) == <<first>> \o t \o <<last>>

MCTexts ==
  {<<Directive("if")>> \o t : t \in Of(Branches, 5)}
  \cup Of(Branches, 5) \cup Of(Heads, 4) \cup Of(Spaces, 4)
  \cup Of(Spaces \cup {OneLine}, 3) \cup Of(Templates, 3)
  \cup {Lines(first, t, Plain(0, <<"}">>)) : first \in Starts, t \in Of(Bodies, 4)}
  \cup {Lines(first, t, Plain(0, <<"}">>)) :
          first \in Starts \cup {Quoted({"}"})}, t \in Of(Parts, 4)}
  \cup Of(Starts \cup Bodies, 3)
  \cup {Append(t, Plain(0, <<"}">>)) : t \in Of(Stubs, 3)}

(* The headers matter to a .cc file more than to others.                    *)
MCIncluding == Of(Including, 4) \cup Of(Odd, 3)

F(ext, test, hasHeader, disk) ==
  [dir |-> <<"d">>, base |-> <<"f">>, ext |-> ext, test |-> test,
   hasHeader |-> hasHeader, disk |-> disk]

MCSource ==
  F("cc", FALSE, TRUE, Own.name :> {"set"} @@ Public.name :> {"map"} @@ Internal.name :> {"set"})
MCHeader == F("h", FALSE, FALSE, <<>>)

MCInputs ==
  [text : MCTexts \cup Of(Including, 5), file : {MCSource}]
  \cup [text : MCIncluding, file : {MCSource, MCHeader}]
=============================================================================
