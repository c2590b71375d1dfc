------------------------------ MODULE LintRun ------------------------------
(***************************************************************************)
(* cpplint.py from main() to the error count: the command line, and for     *)
(* each file the configuration files above it, its NOLINT comments and the  *)
(* errors that are printed.  Options, filters, suppressions and counts are  *)
(* globals of the program that all the files share.  What is found in a     *)
(* line is given (faults); LintFile and LintText are about finding it.      *)
(***************************************************************************)
EXTENDS LintGuard

CONSTANTS
  Inputs,  \* records of a command line (options, in order, and the names of
           \* files), a tree (a function from directories to their
           \* CPPLINT.cfg) and a disk (a function from names to files)
  Width    \* the _line_length at start

(* A file has a name, the last part of its path, and each of its lines a    *)
(* finite number of faults, of categories that exist.                       *)
IsFile(f) ==
  /\ f.path \in Seq(STRING) \ {<<>>}
  /\ f.readable \in BOOLEAN
  /\ f.lines \in Seq(Range(f.lines))
  /\ \A l \in DOMAIN f.lines :
       /\ IsFiniteSet(f.lines[l].faults)
       /\ \A x \in f.lines[l].faults : x.cat \in Categories
  /\ f.guard.ifndef \in Nat /\ f.guard.endif \in Nat /\ f.unclosed \in Nat

(* Options, or the lines of a configuration: the value of a filter is a     *)
(* list.                                                                    *)
AreSettings(s) ==
  /\ s \in Seq(Range(s))
  /\ \A i \in DOMAIN s : s[i].name = "filter" => s[i].val \in Seq(Range(s[i].val))

IsConfig(c) == c.readable \in BOOLEAN /\ AreSettings(c.settings)

ASSUME InputsAssumption ==
  \A i \in Inputs :
    /\ i.cmd.files \in Seq(DOMAIN i.disk) /\ AreSettings(i.cmd.options)
    /\ \A d \in DOMAIN i.tree : IsConfig(i.tree[d])
    /\ \A n \in DOMAIN i.disk : IsFile(i.disk[n])

VARIABLES
  pc,
  cmd, tree, disk,  \* the inputs
  state,    \* _cpplint_state: verbosity, quiet, counting
  opt,      \* _line_length, _root, _hpp_headers, _valid_extensions
  filters, backup,
  todo,     \* the files that are left; the first is being processed
  row,      \* the option, or the line of a configuration, that is next
  at,       \* ProcessConfigOverrides: the path whose directory is next
  keep,     \* keep_looking
  found,    \* cfg_filters
  supp,     \* _error_suppressions and _global_error_suppressions
  line,     \* the line that is next
  old,      \* old_errors
  count, counts,  \* error_count, errors_by_category
  log,      \* history: the errors printed
  used,     \* history: the options each file was checked with
  said,     \* standard output: files done, and the total
  exit      \* the exit status, or Running

inputs == <<cmd, tree, disk>>
stats == <<count, counts, log>>
config == <<row, at, keep, found>>
vars == <<pc, inputs, state, opt, filters, backup, todo, config, supp, line, old,
          stats, used, said, exit>>

Running == -1
Stdin == "-"
DefaultExts == {"cc", "h", "cpp", "cu", "cuh"}

(* A setting or an option that is not a number.                             *)
NotNumber == -1

Number == Len(cmd.files) - Len(todo) + 1  \* which file this is
File == disk[Head(todo)]

Init ==
  /\ \E i \in Inputs : cmd = i.cmd /\ tree = i.tree /\ disk = i.disk
  /\ pc = "args"
  /\ state = [verbose |-> 1, quiet |-> FALSE, counting |-> "total"]
  /\ opt = [width |-> Width, root |-> NoRoot, headers |-> {"h"},
            exts |-> DefaultExts]
  /\ filters = DefaultFilters /\ backup = DefaultFilters
  /\ todo = cmd.files
  /\ row = 1 /\ at = <<>> /\ keep = TRUE /\ found = <<>>
  /\ supp = NoSuppressions /\ line = 0 /\ old = 0
  /\ count = 0 /\ counts = <<>> /\ log = {} /\ used = <<>> /\ said = <<>>
  /\ exit = Running
-----------------------------------------------------------------------------
Quits(status) == pc' = "end" /\ exit' = status

(* Options that PrintUsage or int() end the program for.                    *)
Refuses(o) ==
  \/ o.name = "help"
  \/ o.name \in {"verbose", "linelength"} /\ o.val = NotNumber
  \/ o.name = "counting" /\ o.val \notin {"total", "toplevel", "detailed"}

(* --filter= without filters: PrintCategories.                              *)
Lists(o) == o.name = "filter" /\ o.val = <<>>

(* --headers adds to the valid extensions; --extensions replaces them.      *)
WithHeaders(o, exts) == [o EXCEPT !.headers = exts, !.exts = @ \cup exts]

WithOption(o) ==
  CASE o.name = "linelength" -> [opt EXCEPT !.width = o.val]
    [] o.name = "root" -> [opt EXCEPT !.root = o.val]
    [] o.name = "extensions" -> [opt EXCEPT !.exts = o.val]
    [] o.name = "headers" -> WithHeaders(opt, o.val)
    [] OTHER -> opt

(* The loop of ParseArguments.  What it keeps in locals until its end is    *)
(* set at once: nothing runs in between.                                    *)
TakeOption ==
  LET o == cmd.options[row] IN
  /\ pc = "args" /\ row <= Len(cmd.options)
  /\ IF Refuses(o) \/ Lists(o)
     THEN /\ Quits(IF Lists(o) THEN 0 ELSE 1)
          /\ UNCHANGED <<row, state, filters, opt>>
     ELSE /\ row' = row + 1
          /\ state' = IF o.name \in DOMAIN state
                      THEN [state EXCEPT ![o.name] = o.val] ELSE state
          /\ filters' = IF o.name = "filter" THEN DefaultFilters \o o.val
                        ELSE filters
          /\ opt' = WithOption(o)
          /\ UNCHANGED <<pc, exit>>
  /\ UNCHANGED <<inputs, backup, todo, at, keep, found, supp, line, old, stats,
                 used, said>>

(* The end of ParseArguments: there must be a file, then SetFilters.        *)
ParseArguments ==
  /\ pc = "args" /\ row > Len(cmd.options)
  /\ IF todo = <<>> \/ ~FiltersOK(filters) THEN Quits(1)
     ELSE pc' = "file" /\ UNCHANGED exit
  /\ UNCHANGED <<inputs, state, opt, filters, backup, todo, config, supp, line,
                 old, stats, used, said>>
-----------------------------------------------------------------------------
(* ProcessFile: BackupFilters.                                              *)
BeginFile ==
  /\ pc = "file" /\ todo # <<>>
  /\ pc' = "config"
  /\ backup' = filters
  /\ old' = count
  /\ at' = File.path /\ keep' = TRUE /\ found' = <<>>
  /\ UNCHANGED <<inputs, state, opt, filters, todo, row, supp, line, stats, used,
                 said, exit>>

Restored == filters' = backup
NextFile == pc' = "file" /\ todo' = Tail(todo)

(* The directory that ProcessConfigOverrides looks into, and the lines of   *)
(* its CPPLINT.cfg.                                                         *)
Dir == Front(at)
Opens(d) == d \in DOMAIN tree /\ tree[d].readable
Lines == tree[Dir].settings

LookUp ==
  /\ pc = "config" /\ keep /\ at # <<>>
  /\ IF Opens(Dir) THEN pc' = "settings" /\ row' = 1 /\ UNCHANGED <<at, keep>>
     ELSE at' = Dir /\ keep' = (Dir \notin DOMAIN tree) /\ UNCHANGED <<pc, row>>
  /\ UNCHANGED <<inputs, state, opt, filters, backup, todo, found, supp, line, old,
                 stats, used, said, exit>>

(* exclude_files is about the part of the path below the directory.         *)
Excludes(s) == s.name = "exclude" /\ Last(at) \in s.val

Exclude ==
  /\ pc = "settings" /\ row <= Len(Lines) /\ Excludes(Lines[row])
  /\ NextFile /\ Restored
  /\ UNCHANGED <<inputs, state, opt, backup, config, supp, line, old, stats, used,
                 said, exit>>

WithSetting(s) ==
  CASE s.name = "linelength" /\ s.val # NotNumber -> [opt EXCEPT !.width = s.val]
    [] s.name = "root" -> [opt EXCEPT !.root = Root(TRUE, Dir \o s.val)]
    [] s.name = "headers" -> WithHeaders(opt, s.val)
    [] OTHER -> opt

(* Mutant: set noparent does not stop the search.                           *)
TakeSettingOn ==
  LET s == Lines[row] IN
  /\ pc = "settings" /\ row <= Len(Lines) /\ ~Excludes(s)
  /\ row' = row + 1
  /\ found' = IF s.name = "filter" THEN Append(found, s.val) ELSE found
  /\ opt' = WithSetting(s)
  /\ UNCHANGED <<pc, inputs, state, filters, backup, todo, at, keep, supp, line,
                 old, stats, used, said, exit>>

(* Any other line of a configuration.                                       *)
TakeSetting ==
  LET s == Lines[row] IN
  /\ pc = "settings" /\ row <= Len(Lines) /\ ~Excludes(s)
  /\ row' = row + 1
  /\ keep' = (keep /\ s.name # "noparent")
  /\ found' = IF s.name = "filter" THEN Append(found, s.val) ELSE found
  /\ opt' = WithSetting(s)
  /\ UNCHANGED <<pc, inputs, state, filters, backup, todo, at, supp, line, old,
                 stats, used, said, exit>>

CloseConfig ==
  /\ pc = "settings" /\ row > Len(Lines)
  /\ pc' = "config" /\ at' = Dir
  /\ UNCHANGED <<inputs, state, opt, filters, backup, todo, row, keep, found, supp,
                 line, old, stats, used, said, exit>>

(* The filters found are added, those of the topmost directory first.       *)
ApplyFilters ==
  LET all == filters \o FlattenSeq(Reverse(found)) IN
  /\ pc = "config" /\ (~keep \/ at = <<>>)
  /\ filters' = all
  /\ IF FiltersOK(all) THEN pc' = "read" /\ UNCHANGED exit ELSE Quits(1)
  /\ UNCHANGED <<inputs, state, opt, backup, todo, config, supp, line, old, stats,
                 used, said>>
-----------------------------------------------------------------------------
(* "Done processing", unless it would be the only output of --quiet.        *)
SaysDone ==
  said' = IF ~state.quiet \/ old # count' THEN Append(said, Number) ELSE said

(* Mutant: filters stay as they are.                                        *)
UnreadableUnrestored ==
  /\ pc = "read" /\ ~File.readable
  /\ NextFile
  /\ UNCHANGED <<inputs, state, opt, filters, backup, config, supp, line, old,
                 stats, used, said, exit>>

(* The file cannot be read: no "Done processing".                           *)
Unreadable ==
  /\ pc = "read" /\ ~File.readable
  /\ NextFile /\ Restored
  /\ UNCHANGED <<inputs, state, opt, backup, config, supp, line, old, stats, used,
                 said, exit>>

Checked == Head(todo) = Stdin \/ File.ext \in opt.exts

(* The file's extension is not one of those that are checked.               *)
Ignored ==
  /\ pc = "read" /\ File.readable /\ ~Checked
  /\ NextFile /\ Restored
  /\ UNCHANGED <<inputs, state, opt, backup, config, supp, line, old, stats, used,
                 exit>>
  /\ SaysDone

(* The errors of S that are printed under suppressions s.                   *)
Printed(s, S) == {e \in S : ShouldPrint(s, state.verbose, filters, e)}

(* The errors of S as they are printed for the n-th file.                   *)
Logged(n, S) == {[file |-> n, line |-> e.line, cat |-> e.cat, conf |-> e.conf,
                  by |-> e.by] : e \in S}

(* Error() for each of the errors in S, already found to be printed.        *)
Reports(S) ==
  /\ count' = count + Cardinality(S)
  /\ counts' = Counted(counts, state.counting, S)
  /\ log' = log \cup Logged(Number, S)

By(who, S) ==
  {[line |-> e.line, cat |-> e.cat, conf |-> e.conf, by |-> who] : e \in S}

NoteOf(f, l) == IF l \in DOMAIN f.lines THEN f.lines[l].note ELSE NoNote

Marks(f) == UNION {MarkSuppresses(f.lines[l].mark) : l \in DOMAIN f.lines}

CopyrightErrors(f) ==
  IF f.copyright THEN {} ELSE {[line |-> 0, cat |-> Copyright, conf |-> 5]}

CommentErrors(f) ==
  IF f.unclosed = 0 THEN {}
  ELSE {[line |-> f.unclosed + 1, cat |-> Comment, conf |-> 5]}

(* The whole file is let off by a NOLINT of just this category.             *)
GuardExcused(f) ==
  \E l \in DOMAIN f.lines : f.lines[l].note = Note(HeaderGuard, FALSE)

GuardChecked(f) == f.ext \in opt.headers /\ ~GuardExcused(f)

(* ProcessFileData before the first line: what the checks of the whole      *)
(* file print, and the suppressions they leave.  Those of a line count for  *)
(* an error only if the line was parsed before it.                          *)
Start(f) ==
  LET none == NoSuppressions
      file == [none EXCEPT !.file = Marks(f)]
      name == GuardName(f.path, opt.root)
      g == f.guard
      wrong == IfndefErrors(g, name) # {}
      one == IF wrong THEN Parsed(file, NoteOf(f, g.ifndef), g.ifndef) ELSE file
      two == Parsed(one, NoteOf(f, g.endif), g.endif)
      early == Printed(none, By("copyright", CopyrightErrors(f)))
               \cup Printed(file, By("comment", CommentErrors(f)))
  IN
  IF ~GuardChecked(f) THEN [supp |-> file, errors |-> early]
  ELSE IF g.ifndef = 0
  THEN [supp |-> file,
        errors |-> early \cup Printed(file, By("guard", GuardError(0, 5)))]
  ELSE [supp |-> two,
        errors |->
          early
          \cup (IF wrong THEN Printed(file, By("guardnote",
                            UnknownNote(NoteOf(f, g.ifndef), g.ifndef))) ELSE {})
          \cup Printed(one, By("guard", IfndefErrors(g, name))
                            \cup By("guardnote", UnknownNote(NoteOf(f, g.endif), g.endif)))
          \cup Printed(two, By("endif", EndifErrors(g, name)))]

StartFile ==
  /\ pc = "read" /\ File.readable /\ Checked
  /\ pc' = "lines" /\ line' = 1
  /\ supp' = Start(File).supp
  /\ Reports(Start(File).errors)
  /\ used' = Append(used, [file |-> Number, opt |-> opt])
  /\ UNCHANGED <<inputs, state, opt, filters, backup, todo, config, old, said,
                 exit>>

(* What the checks of one line find, the length of the line among it.       *)
LineErrors(f, l, width) ==
  {[line |-> l, cat |-> x.cat, conf |-> x.conf] :
     x \in {y \in f.lines[l].faults : ~y.late}}
  \cup (IF f.lines[l].width > width
        THEN {[line |-> l, cat |-> LineLength, conf |-> 2]} ELSE {})

(* ProcessLine: first the line's comment, then its checks.                  *)
ProcessLine ==
  /\ pc = "lines" /\ line <= Len(File.lines)
  /\ LET note == File.lines[line].note
         s == Parsed(supp, note, line)
     IN
     /\ supp' = s
     /\ Reports(Printed(supp, By("note", UnknownNote(note, line)))
                \cup Printed(s, By("line", LineErrors(File, line, opt.width))))
  /\ line' = line + 1
  /\ UNCHANGED <<pc, inputs, state, opt, filters, backup, todo, config, old, used,
                 said, exit>>

(* The checks at the end, of what the lines have and of their ends.         *)
LateErrors(f) ==
  UNION {{[line |-> l, cat |-> x.cat, conf |-> x.conf] :
            x \in {y \in f.lines[l].faults : y.late}} : l \in DOMAIN f.lines}

MixedEnds(f) ==
  LET cr == {l \in DOMAIN f.lines : f.lines[l].cr} IN
  IF cr = DOMAIN f.lines THEN {}
  ELSE {[line |-> l, cat |-> Newline, conf |-> 1] : l \in cr}

(* Mutant: the count is compared before the errors are counted.             *)
FinishFileEarly ==
  /\ pc = "lines" /\ line = Len(File.lines) + 1
  /\ Reports(Printed(supp, By("late", LateErrors(File))
                           \cup By("ends", MixedEnds(File))))
  /\ said' = IF ~state.quiet \/ old # count THEN Append(said, Number) ELSE said
  /\ NextFile /\ Restored
  /\ UNCHANGED <<inputs, state, opt, backup, config, supp, line, old, used, exit>>

FinishFile ==
  /\ pc = "lines" /\ line = Len(File.lines) + 1
  /\ Reports(Printed(supp, By("late", LateErrors(File))
                           \cup By("ends", MixedEnds(File))))
  /\ SaysDone
  /\ NextFile /\ Restored
  /\ UNCHANGED <<inputs, state, opt, backup, config, supp, line, old, used, exit>>

(* main(): the total and the exit status.                                   *)
Total == Len(cmd.files) + 1

Finish ==
  /\ pc = "file" /\ todo = <<>>
  /\ said' = IF ~state.quiet \/ count > 0 THEN Append(said, Total) ELSE said
  /\ Quits(IF count > 0 THEN 1 ELSE 0)
  /\ UNCHANGED <<inputs, state, opt, filters, backup, todo, config, supp, line,
                 old, stats, used>>

Next ==
  \/ TakeOption \/ ParseArguments
  \/ BeginFile \/ LookUp \/ Exclude \/ TakeSetting \/ CloseConfig \/ ApplyFilters
  \/ Unreadable \/ Ignored \/ StartFile \/ ProcessLine \/ FinishFile \/ Finish

Spec == Init /\ [][Next]_vars
-----------------------------------------------------------------------------
(* What the command line and the tree say of a file, read from the file up  *)
(* and not from the globals.                                                *)

(* The last --filter option counts.                                         *)
GivenFilters ==
  LET given == {i \in DOMAIN cmd.options : cmd.options[i].name = "filter"}
  IN  IF given = {} THEN <<>> ELSE cmd.options[Max(given)].val

Settings(d) ==
  IF d \in DOMAIN tree /\ tree[d].readable THEN tree[d].settings ELSE <<>>

Has(d, name) == \E i \in DOMAIN Settings(d) : Settings(d)[i].name = name

Blocks(d) == d \in DOMAIN tree /\ (tree[d].readable => Has(d, "noparent"))

(* The directories whose configuration counts for a path.                   *)
Ruling(path) ==
  {d \in Prefixes(Front(path)) :
     ~\E e \in Prefixes(Front(path)) : Len(e) > Len(d) /\ Blocks(e)}

Excluded(path) ==
  \E d \in Ruling(path) : \E i \in DOMAIN Settings(d) :
    Settings(d)[i].name = "exclude" /\ path[Len(d) + 1] \in Settings(d)[i].val

(* The extensions that the options of N make valid: those of the last       *)
(* --extensions and of each --headers after it.                             *)
ExtsOf(N) ==
  LET own == {i \in N : cmd.options[i].name = "extensions"}
      adds == {i \in N : cmd.options[i].name = "headers" /\ \A j \in own : j < i}
      last == {i \in own : \A j \in own : j <= i}
  IN  (IF own = {} THEN DefaultExts ELSE {})
      \cup UNION {cmd.options[i].val : i \in adds \cup last}

GivenExts == ExtsOf(DOMAIN cmd.options)

(* Those that a configuration adds, and those above a file.                 *)
HeadersOf(d) ==
  UNION {Settings(d)[i].val : i \in {j \in DOMAIN Settings(d) : Settings(d)[j].name = "headers"}}

HeadersAbove(path) == UNION {HeadersOf(d) : d \in Ruling(path)}

(* What the first k files may leave valid: the extensions are a global.     *)
ExtsUpTo(k) ==
  GivenExts \cup UNION {HeadersAbove(disk[cmd.files[j]].path) : j \in 1..k}

(* A list of filters says something of a category; its last word is no.     *)
Says(fs, cat) == \E i \in DOMAIN fs : IsPrefix(fs[i].of, cat)

TurnsOff(fs, cat) ==
  \E i \in DOMAIN fs :
    /\ fs[i].on = "-" /\ IsPrefix(fs[i].of, cat)
    /\ \A j \in DOMAIN fs : j > i => ~IsPrefix(fs[j].of, cat)

FilterLines(d, cat) ==
  {i \in DOMAIN Settings(d) :
     Settings(d)[i].name = "filter" /\ Says(Settings(d)[i].val, cat)}

(* The strongest list that says anything of the category decides: the first *)
(* in the nearest directory, or the command line's, or the default.         *)
Off(path, cat) ==
  \/ \E d \in Ruling(path) : \E i \in FilterLines(d, cat) :
       /\ \A e \in Ruling(path) : Len(e) > Len(d) => FilterLines(e, cat) = {}
       /\ \A j \in FilterLines(d, cat) : i <= j
       /\ TurnsOff(Settings(d)[i].val, cat)
  \/ /\ \A d \in Ruling(path) : FilterLines(d, cat) = {}
     /\ IF Says(GivenFilters, cat) THEN TurnsOff(GivenFilters, cat)
        ELSE TurnsOff(DefaultFilters, cat)

(* The comments in the lines of N speak of line l and category c.           *)
Quieted(f, l, c, N) ==
  \/ c \in Marks(f)
  \/ \E m \in N \cap {l, l - 1} :
       LET n == NoteOf(f, m)
       IN  n.in /\ n.what \in {All, c} /\ (n.next <=> m = l - 1)

(* The errors of S that nothing turns off; those that no comment in the     *)
(* lines of N is about.                                                     *)
Shown(f, S) == {e \in S : e.conf >= state.verbose /\ ~Off(f.path, e.cat)}
Heard(f, S, N) == {e \in Shown(f, S) : ~Quieted(f, e.line, e.cat, N)}

(* The lines whose comments are heard early: that of an #ifndef that is     *)
(* wrong and then that of the #endif.                                       *)
IfndefLine(f, u) ==
  IF IfndefErrors(f.guard, GuardName(f.path, u.root)) = {} THEN {} ELSE {f.guard.ifndef}

GuardShown(f, u) ==
  LET name == GuardName(f.path, u.root)
      g == f.guard
      early == IfndefLine(f, u)
      note(l) == By("guardnote", UnknownNote(NoteOf(f, l), l))
  IN
  IF f.ext \notin u.headers \/ GuardExcused(f) THEN {}
  ELSE IF g.ifndef = 0 THEN Heard(f, By("guard", GuardError(0, 5)), {})
  ELSE Heard(f, UNION {note(l) : l \in early}, {})
       \cup Heard(f, By("guard", IfndefErrors(g, name)) \cup note(g.endif), early)
       \cup Heard(f, By("endif", EndifErrors(g, name)), early \cup {g.endif})

(* What is found in the lines of L, and at the end.                         *)
LineFindings(f, u, L) ==
  By("line", UNION {LineErrors(f, l, u.width) : l \in L})
  \cup By("note", UNION {UnknownNote(NoteOf(f, l), l) : l \in L})

EndFindings(f) == By("late", LateErrors(f)) \cup By("ends", MixedEnds(f))

(* The errors to be printed of a file checked with options u.               *)
OpeningShown(f, u) ==
  Shown(f, By("copyright", CopyrightErrors(f)))
  \cup Heard(f, By("comment", CommentErrors(f)), {})
  \cup GuardShown(f, u)

Expected(f, u) ==
  LET all == DOMAIN f.lines
  IN  OpeningShown(f, u)
      \cup Heard(f, LineFindings(f, u, all), all)
      \cup Heard(f, EndFindings(f), all)

(* The files that have been dealt with.                                     *)
Done == 1..(Number - 1)
-----------------------------------------------------------------------------
TypeOK ==
  /\ pc \in {"args", "file", "config", "settings", "read", "lines", "end"}
  /\ count \in Nat /\ old \in 0..count
  /\ exit \in {Running, 0, 1}
  /\ pc \in {"config", "settings", "read", "lines"} => todo # <<>>
  /\ pc = "end" <=> exit # Running

(* What is printed of a file depends on the command line, on the            *)
(* configuration above the file and on the file, never on the files before  *)
(* it: filters and suppressions are globals, but whichever way a file is    *)
(* left (excluded, unreadable, ignored, checked) nothing of them remains,   *)
(* and a nested directory's filters override its parent's.  (Not so the     *)
(* line length, the root and the header extensions: these are as in used.)  *)
ReportsAreOwn ==
  \A k \in Done :
    {e \in log : e.file = k} =
      UNION {Logged(k, Expected(disk[cmd.files[k]], u.opt)) :
               u \in {x \in Range(used) : x.file = k}}

(* A file is checked if it can be read, no configuration above it that      *)
(* counts excludes it, and its extension is one of those of the command     *)
(* line or of the configurations above it; standard input is whatever its   *)
(* extension.  No other file is, except that the configurations of the      *)
(* files before it may have made its extension valid too.                   *)
CheckedAreIncluded ==
  \A k \in Done :
    LET f == disk[cmd.files[k]]
        was == \E i \in DOMAIN used : used[i].file = k
        stdin == cmd.files[k] = Stdin
        free == f.readable /\ ~Excluded(f.path)
    IN  /\ was => free /\ (stdin \/ f.ext \in ExtsUpTo(k))
        /\ free /\ (stdin \/ f.ext \in GivenExts \cup HeadersAbove(f.path)) => was

(* The counts are those of the errors printed, in all three styles, and     *)
(* the exit status is 0 only if there are none: `make lint` may rely on it. *)
CountsAgree ==
  /\ count = Cardinality(log)
  /\ \A k \in DOMAIN counts :
       counts[k] = Cardinality(CountedAs(k, state.counting, log))
  /\ CountsByCategory(state.counting) =>
       \A e \in log : CountKey(state.counting, e.cat) \in DOMAIN counts
  /\ exit = 0 => log = {}

(* With --quiet, "Done processing" is printed of just the files that have   *)
(* errors, and nothing at all if no file has one; without it, of each file  *)
(* that was neither excluded nor unreadable.                                *)
QuietIsQuiet ==
  /\ \A k \in Done :
       k \in Range(said) <=>
         /\ disk[cmd.files[k]].readable /\ ~Excluded(disk[cmd.files[k]].path)
         /\ state.quiet => \E e \in log : e.file = k
  /\ state.quiet /\ log = {} => said = <<>>

(* The usage text: "CPPLINT.cfg has an effect on files in the same          *)
(* directory and all sub-directories, unless overridden by a nested         *)
(* configuration file."  So a file's line length is that of the nearest     *)
(* configuration that sets one, or else the command line's.                 *)
NearestWidth(path) ==
  LET sets(d) == SelectSeq(Settings(d), LAMBDA s : s.name = "linelength" /\ s.val # NotNumber)
      D == {d \in Ruling(path) : sets(d) # <<>>}
      d == CHOOSE x \in D : \A y \in D : Len(x) >= Len(y)
      given == SelectSeq(cmd.options, LAMBDA o : o.name = "linelength")
  IN  IF D # {} THEN Last(sets(d)).val
      ELSE IF given # <<>> THEN Last(given).val
      ELSE Width

WidthOfNearest ==
  \A i \in DOMAIN used :
    used[i].opt.width = NearestWidth(disk[cmd.files[used[i].file]].path)
=============================================================================
