----------------------------- MODULE MCLintText -----------------------------
(* Bounds for LintText.  Brackets: short texts with every bracket, longer   *)
(* ones with fewer, and the operators that look like brackets.  Characters: *)
(* comments over lines, comments with literals and escapes, numbers with    *)
(* separators, and raw strings.                                             *)
EXTENDS LintText

MCBrackets ==
  {[of |-> "brackets", max |-> 4,
    tokens |-> {"(", ")", "[", "]", "<", ">", ";", "-", "nl"}],
   [of |-> "brackets", max |-> 5, tokens |-> {"(", "}", "]", "{", "[", "<"}],
   [of |-> "brackets", max |-> 6, tokens |-> {"(", ")", "<", ">", ";"}],
   [of |-> "brackets", max |-> 5,
    tokens |-> {"(", ")", "<", ">", "=", "sp", "operator"}]}

MCChars ==
  {[of |-> "chars", max |-> 7, tokens |-> {<<"/">>, <<"*">>, <<"a">>, <<"nl">>}],
   [of |-> "chars", max |-> 5,
    tokens |-> {<<"/", "*">>, <<"*", "/">>, <<"/", "/">>, <<DQ>>, <<SQ>>, <<BS>>, <<"a">>}],
   [of |-> "chars", max |-> 6,
    tokens |-> {<<"1">>, <<"a">>, <<SQ>>, <<DQ>>, <<"/", "/">>}],
   [of |-> "chars", max |-> 6,
    tokens |-> {<<"R", DQ, "(">>, <<")", DQ>>, <<DQ>>, <<"a">>, <<"/", "/">>, <<"nl">>}]}

MCAlphabets == MCBrackets \cup MCChars
=============================================================================
