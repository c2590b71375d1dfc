---------------------------- MODULE LintIncludes ----------------------------
(***************************************************************************)
(* cpplint.py: the headers that a file includes.  _IncludeState has the     *)
(* section the includes have got to, which every directive starts again,    *)
(* and the headers, in a list for each #if that was seen.                   *)
(*                                                                          *)
(* A header is what an #include has: sys (in angle brackets) and name, of   *)
(* which dir, base (its words, without a suffix as -inl) and ext are parts; *)
(* canon, its place in the alphabetical order; third, if it looks like one  *)
(* of a third party.  A line has one, or NoHeader, and needs: the names of  *)
(* the headers whose templates it uses.                                     *)
(***************************************************************************)
EXTENDS LintErrors

CONSTANT CppHeaders  \* the names of the headers of the C++ library

NoHeader == [name |-> "none"]

Include == <<"build", "include">>
IncludeWhatYouUse == <<"build", "include", "what", "you", "use">>

Wrong(line, cat) == {[line |-> line, cat |-> cat, conf |-> 4]}

(* The messages of build/include, of which a line may have several.         *)
Says(line, what) == {[line |-> line, cat |-> Include, conf |-> 4, what |-> what]}

(* The sections.                                                            *)
Initial == 0
MyH == 1
C == 2
Cpp == 3
OtherH == 4

(* last: _last_header; 0 is the empty string.                               *)
NewIncludes == [section |-> Initial, last |-> 0, list |-> << <<>> >>]

(* FindHeader                                                               *)
Included(inc, name) == \E i \in DOMAIN inc.list : \E x \in Range(inc.list[i]) : x.name = name

(* Mutant: #else keeps the headers of the #if.                              *)
ResetSectionKept(inc, pp) ==
  [section |-> Initial, last |-> 0,
   list |-> IF pp = "if" THEN Append(inc.list, <<>>) ELSE inc.list]

(* ResetSection                                                             *)
ResetSection(inc, pp) ==
  [section |-> Initial, last |-> 0,
   list |-> CASE pp = "if" -> Append(inc.list, <<>>)
              [] pp = "else" -> Append(Front(inc.list), <<>>)
              [] OTHER -> inc.list]
-----------------------------------------------------------------------------
(* A file has dir, base, ext; test, if its base has a suffix as _test; and  *)
(* hasHeader, if there is a .h beside it.                                   *)
IsSource(file) == file.ext \in {"c", "cc", "cpp", "cxx"}

(* _ClassifyInclude                                                         *)
ClassifyInclude(file, h) ==
  CASE h.sys /\ h.name \in CppHeaders -> "cpp"
    [] h.sys /\ h.name \notin CppHeaders -> "c"
    [] ~h.sys /\ h.base = file.base
         /\ h.dir \in {file.dir} \cup (IF file.dir = <<>> THEN {}
                                       ELSE {Append(Front(file.dir), "public")}) -> "likely"
    [] OTHER -> IF Head(h.base) = Head(file.base) THEN "possible" ELSE "other"

(* CheckNextIncludeOrder: the section after a header, and if it is out of   *)
(* order, when the section stays as it is.                                  *)
Section(section, kind) ==
  CASE kind = "c" -> Max({section, C})
    [] kind = "cpp" -> Max({section, Cpp})
    [] kind \in {"likely", "possible"} -> IF section <= MyH THEN MyH ELSE OtherH
    [] OTHER -> OtherH

OutOfOrder(section, kind) ==
  (kind = "c" /\ section > C) \/ (kind = "cpp" /\ section > Cpp)

(* CheckIncludeLine for a header that is neither a duplicate nor a third    *)
(* party's.                                                                 *)
Judge(inc, file, text, l) ==
  LET h == text[l].inc
      kind == ClassifyInclude(file, h)
      next == Section(inc.section, kind)
      out == OutOfOrder(inc.section, kind)
      last == IF out \/ next # inc.section THEN 0 ELSE inc.last
  IN
  [inc |-> [section |-> next, last |-> h.canon,
            list |-> Append(Front(inc.list),
                            Append(Last(inc.list), [name |-> h.name, line |-> l, of |-> h]))],
   errors |-> (IF out THEN Wrong(l, IncludeOrder) ELSE {})
              \cup (IF last > h.canon /\ l > 1 /\ text[l - 1].pp = "include"
                    THEN Wrong(l, IncludeAlpha) ELSE {})]

(* CheckIncludeLine                                                         *)
CheckIncludeLine(inc, file, text, l) ==
  LET h == text[l].inc
      bare == IF /\ ~h.sys /\ h.dir = <<>> /\ h.ext = "h" /\ ~h.third
                 /\ text[l].indent = 0
              THEN Says(l, "bare") ELSE {}
      judged == Judge(inc, file, text, l)
  IN
  IF Included(inc, h.name) THEN [inc |-> inc, errors |-> bare \cup Says(l, "again")]
  ELSE IF h.ext = "cc" /\ h.dir # file.dir
  THEN [inc |-> inc, errors |-> bare \cup Says(l, "foreign")]
  ELSE IF h.third THEN [inc |-> inc, errors |-> bare]
  ELSE [inc |-> judged.inc, errors |-> bare \cup judged.errors]

(* The part of CheckLanguage that is about directives.                      *)
TakeDirective(inc, file, text, l) ==
  CASE text[l].pp = "include" -> CheckIncludeLine(inc, file, text, l)
    [] text[l].pp \in {"if", "else", "endif"} ->
         [inc |-> ResetSection(inc, text[l].pp), errors |-> {}]
    [] OTHER -> [inc |-> inc, errors |-> {}]
-----------------------------------------------------------------------------
Listed(inc) == UNION {Range(inc.list[i]) : i \in DOMAIN inc.list}

(* FilesBelongToSameModule: "/public/" becomes "/", and then "/internal/".  *)
(* A slash is used once, so that of two such directories the second stays;  *)
(* and the first of a header has none before it, unlike that of the file,   *)
(* whose path is absolute.                                                  *)
WithoutDir(dir, word, rooted) ==
  LET step(acc, i) ==
        IF dir[i] = word /\ acc.slash THEN [acc EXCEPT !.slash = FALSE]
        ELSE [path |-> Append(acc.path, dir[i]), slash |-> TRUE]
  IN FoldLeft(step, [path |-> <<>>, slash |-> rooted], [i \in DOMAIN dir |-> i]).path

InModule(dir, rooted) == WithoutDir(WithoutDir(dir, "public", rooted), "internal", rooted)

FilesBelongToSameModule(file, h) ==
  /\ IsSource(file) /\ h.ext = "h"
  /\ IF h.dir = <<>> THEN IsSuffix(h.base, file.base)
     ELSE h.base = file.base /\ IsSuffix(InModule(h.dir, FALSE), InModule(file.dir, TRUE))

(* CheckForIncludeWhatYouUse, with UpdateIncludeState: the headers that are *)
(* not included, each at the last line that uses it.  disk has what can be  *)
(* opened of the headers of the same module, and what it includes.  A .cc   *)
(* file of which none can is not judged.                                    *)
CheckForIncludeWhatYouUse(inc, file, text, disk) ==
  LET opened == {x \in Listed(inc) : FilesBelongToSameModule(file, x.of)
                                     /\ x.name \in DOMAIN disk}
      names == {x.name : x \in Listed(inc)} \cup UNION {disk[x.name] : x \in opened}
      uses == {l \in DOMAIN text : text[l].needs # {} /\ text[l].pp = "none"}
  IN
  IF file.ext = "cc" /\ opened = {} THEN {}
  ELSE UNION {Wrong(Max({l \in uses : n \in text[l].needs}), IncludeWhatYouUse) :
                n \in (UNION {text[l].needs : l \in uses}) \ names}

(* CheckHeaderFileIncluded: any header of which the path of the file's own  *)
(* is a part, or that is a part of it, will do.                             *)
CheckHeaderFileIncluded(inc, file) ==
  LET own == file.dir \o file.base
      first == FlattenSeq(inc.list)
  IN
  IF \/ file.test \/ ~file.hasHeader
     \/ \E x \in Listed(inc) :
          /\ x.of.ext = "h"
          /\ LET path == x.of.dir \o x.of.base
             IN  IsSuffix(path, own) \/ IsSuffix(own, path)
  THEN {}
  ELSE {[line |-> IF first = <<>> THEN 0 ELSE first[1].line, cat |-> Include, conf |-> 5]}
=============================================================================
