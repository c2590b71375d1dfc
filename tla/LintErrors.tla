----------------------------- MODULE LintErrors -----------------------------
(***************************************************************************)
(* cpplint.py, the style checker behind `make lint`: how it decides whether *)
(* an error is printed.  Three things can stop one: a NOLINT comment, its   *)
(* confidence and the filters.                                              *)
(*                                                                          *)
(* A category is the sequence of the parts of its name: build/include_alpha *)
(* is <<"build", "include", "alpha">>, so that the prefixes that filters    *)
(* are about are prefixes here as well.  A filter is [on, of]: "+" or "-"   *)
(* and a prefix.                                                            *)
(***************************************************************************)
EXTENDS Integers, SequencesExt

(* Every category, for NOLINT without one or with a star: the key None.     *)
All == <<>>

Copyright == <<"legal", "copyright">>
HeaderGuard == <<"build", "header", "guard">>
Comment == <<"readability", "multiline", "comment">>
Nolint == <<"readability", "nolint">>
LineLength == <<"whitespace", "line", "length">>
Newline == <<"whitespace", "newline">>
Tab == <<"whitespace", "tab">>
Casting == <<"readability", "casting">>
IncludeOrder == <<"build", "include", "order">>
IncludeAlpha == <<"build", "include", "alpha">>
Streams == <<"readability", "streams">>

(* _ERROR_CATEGORIES, as far as the model uses them.                        *)
Categories == {Copyright, HeaderGuard, Comment, Nolint, LineLength, Newline,
               Tab, Casting, IncludeOrder, IncludeAlpha}

(* Accepted in NOLINT, and not reported any more.                           *)
LegacyCategories == {Streams}

(* _DEFAULT_FILTERS                                                         *)
DefaultFilters == <<[on |-> "-", of |-> IncludeAlpha]>>

(* What a LINT_C_FILE or a LINT_KERNEL_FILE comment turns off.              *)
MarkSuppresses(mark) ==
  CASE mark = "c" -> {Casting}
    [] mark = "kernel" -> {Tab}
    [] OTHER -> {}
-----------------------------------------------------------------------------
(* Suppressions: pairs of a category or All and a line, and the categories  *)
(* that are off in the whole file.                                          *)
NoSuppressions == [lines |-> {}, file |-> {}]

(* The NOLINT comment of a line: none, or what it names and whether it is   *)
(* NOLINTNEXTLINE.                                                          *)
NoNote == [in |-> FALSE]
Note(what, next) == [in |-> TRUE, what |-> what, next |-> next]

(* ParseNolintSuppressions: what a comment adds.                            *)
Parsed(supp, note, line) ==
  IF note.in /\ note.what \in Categories \cup {All}
  THEN [supp EXCEPT !.lines = @ \cup
          {<<note.what, IF note.next THEN line + 1 ELSE line>>}]
  ELSE supp

(* ... and the error it reports of a category that does not exist.          *)
UnknownNote(note, line) ==
  IF note.in /\ note.what \notin Categories \cup LegacyCategories \cup {All}
  THEN {[line |-> line, cat |-> Nolint, conf |-> 5]}
  ELSE {}

(* IsErrorSuppressedByNolint                                                *)
Suppressed(supp, e) ==
  \/ e.cat \in supp.file
  \/ <<e.cat, e.line>> \in supp.lines
  \/ <<All, e.line>> \in supp.lines

(* The loop over the filters in _ShouldPrintError: each that matches        *)
(* overrides those before it.                                               *)
Filtered(filters, cat) ==
  FoldLeft(LAMBDA off, f : IF IsPrefix(f.of, cat) THEN f.on = "-" ELSE off,
           FALSE, filters)

(* _ShouldPrintError                                                        *)
ShouldPrint(supp, verbose, filters, e) ==
  /\ ~Suppressed(supp, e)
  /\ e.conf >= verbose
  /\ ~Filtered(filters, e.cat)

(* AddFilters appends, then dies of any filter without a sign.              *)
FiltersOK(filters) == \A i \in DOMAIN filters : filters[i].on \in {"+", "-"}
-----------------------------------------------------------------------------
(* IncrementErrorCount: the key an error is counted under, if at all.       *)
CountKey(counting, cat) == IF counting = "detailed" THEN cat ELSE <<Head(cat)>>

CountsByCategory(counting) == counting \in {"toplevel", "detailed"}

(* The errors of S that are counted under key k.                            *)
CountedAs(k, counting, S) == {e \in S : CountKey(counting, e.cat) = k}

(* Mutant: a category's first error is not counted.                         *)
CountedFromZero(counts, counting, S) ==
  IF ~CountsByCategory(counting) THEN counts
  ELSE [k \in DOMAIN counts \cup {CountKey(counting, e.cat) : e \in S} |->
          (IF k \in DOMAIN counts THEN counts[k] ELSE -1)
          + Cardinality(CountedAs(k, counting, S))]

(* errors_by_category after the errors of S.                                *)
Counted(counts, counting, S) ==
  IF ~CountsByCategory(counting) THEN counts
  ELSE [k \in DOMAIN counts \cup {CountKey(counting, e.cat) : e \in S} |->
          (IF k \in DOMAIN counts THEN counts[k] ELSE 0)
          + Cardinality(CountedAs(k, counting, S))]
=============================================================================
