--------------------------- MODULE LintRunProofs ---------------------------
(***************************************************************************)
(* What the run of LintRun checks for two directories and three files,      *)
(* proved for any tree, any command line and any files: the counts are      *)
(* those of what is printed, the files that are checked are those that no   *)
(* configuration excludes, --quiet says nothing of a clean file, and, in    *)
(* the second half, nothing of one file shows in the report on another.     *)
(***************************************************************************)
EXTENDS LintRun, SequenceTheorems, FiniteSetTheorems, WellFoundedInduction, TLAPS

(* While a file is being processed.                                         *)
Busy == {"config", "settings", "read", "lines"}

InputInv ==
  /\ cmd.files \in Seq(DOMAIN disk)
  /\ \A d \in DOMAIN tree : IsConfig(tree[d])
  /\ \A n \in DOMAIN disk : IsFile(disk[n])

(* The files that are left are the last of those of the command line.       *)
TodoInv ==
  /\ todo \in Seq(DOMAIN disk)
  /\ Len(todo) <= Len(cmd.files)
  /\ \A i \in 1..Len(todo) : todo[i] = cmd.files[Number + i - 1]
  /\ pc \in {"args", "file", "end"} \cup Busy
  /\ pc \in Busy => todo # <<>>
  /\ pc = "args" => todo = cmd.files /\ counts = <<>> /\ said = <<>>
  /\ exit \in {Running, 0, 1}
  /\ pc = "end" <=> exit # Running

(* An error of this file is of what the file begins with or of a line that  *)
(* was processed, so the one that is found next is another.                 *)
Openers == {"copyright", "comment", "guard", "guardnote", "endif"}

LogInv ==
  /\ \A e \in log :
       /\ e.file \in 1..Number
       /\ e.file = Number =>
            /\ pc = "lines"
            /\ \/ e.by \in Openers
               \/ e.by \in {"note", "line"} /\ e.line \in 1..(line - 1)
  /\ pc = "lines" => line \in 1..Len(File.lines) + 1

CountInv ==
  /\ IsFiniteSet(log)
  /\ CountsAgree
  /\ old \in 0..count
  /\ ~CountsByCategory(state.counting) => counts = <<>>
  /\ pc \in Busy => old = Cardinality({e \in log : e.file # Number})

(* The path's first n parts, and what is said there of it.                  *)
Up(path, n) == SubSeq(path, 1, n)
Above(path) == 0..(Len(path) - 1)

ExcludedBy(path, n, i) ==
  /\ Settings(Up(path, n))[i].name = "exclude"
  /\ path[n + 1] \in Settings(Up(path, n))[i].val
ExcludedIn(path, n) ==
  \E i \in DOMAIN Settings(Up(path, n)) : ExcludedBy(path, n, i)

(* The directories below the one that is next were looked into; none        *)
(* excludes the file, and none but the last stops the search.               *)
Searched(path, n) ==
  /\ n \in 0..Len(path) /\ at = Up(path, n)
  /\ \A j \in Above(path) : j >= n => ~ExcludedIn(path, j)
  /\ \A j \in Above(path) : j > n => ~Blocks(Up(path, j))
  /\ keep <=> (n = Len(path) \/ ~Blocks(Up(path, n)))

(* So were the lines before this one.                                       *)
Reading(path, n) ==
  /\ n \in 1..Len(path) /\ at = Up(path, n)
  /\ Opens(Up(path, n - 1))
  /\ \A j \in Above(path) : j >= n => ~ExcludedIn(path, j) /\ ~Blocks(Up(path, j))
  /\ row \in 1..(Len(Settings(Up(path, n - 1))) + 1)
  /\ \A i \in 1..(row - 1) : ~ExcludedBy(path, n - 1, i)
  /\ keep <=> \A i \in 1..(row - 1) : Settings(Up(path, n - 1))[i].name # "noparent"

LookInv ==
  /\ pc = "config" => \E n \in 0..Len(File.path) : Searched(File.path, n)
  /\ pc = "settings" => \E n \in 1..Len(File.path) : Reading(File.path, n)
  /\ pc \in {"read", "lines"} => ~Excluded(File.path)
  /\ pc = "lines" => File.readable

(* What was checked was not to be left out; standard input is checked       *)
(* whatever extensions are valid.                                           *)
Included ==
  \A k \in Done :
    LET f == disk[cmd.files[k]]
        was == \E i \in DOMAIN used : used[i].file = k
    IN  /\ was => ~Excluded(f.path) /\ f.readable
        /\ f.readable /\ ~Excluded(f.path) /\ cmd.files[k] = Stdin => was

UsedInv ==
  /\ used \in Seq(Range(used))
  /\ \A u \in Range(used) : u.file \in Done \/ (u.file = Number /\ pc = "lines")
  /\ pc = "lines" => \E u \in Range(used) : u.file = Number
  /\ Included

SaidInv ==
  /\ said \in Seq(Range(said))
  /\ \A n \in Range(said) : n \in Done \/ (n = Total /\ pc = "end")
  /\ QuietIsQuiet

IInv == InputInv /\ TodoInv /\ LogInv /\ CountInv /\ LookInv /\ UsedInv /\ SaidInv
-----------------------------------------------------------------------------
(* Sequences: what Append adds to a range, and the parts of a path.         *)
LEMMA AppendRange ==
  ASSUME NEW s, s \in Seq(Range(s)), NEW x
  PROVE  /\ Append(s, x) \in Seq(Range(Append(s, x)))
         /\ Range(Append(s, x)) = Range(s) \cup {x}
<1> DEFINE S == Range(s) \cup {x}
           t == Append(s, x)
<1>1. s \in Seq(S)
  BY SeqMonotonic
<1>2. /\ t \in Seq(S) /\ Len(t) = Len(s) + 1
      /\ \A i \in 1..Len(s) : t[i] = s[i]
      /\ t[Len(s) + 1] = x
  <2> x \in S
    OBVIOUS
  <2> QED
    BY <1>1, AppendProperties
<1>3. DOMAIN s = 1..Len(s) /\ DOMAIN t = 1..(Len(s) + 1) /\ Len(s) \in Nat
  BY <1>1, <1>2, LenProperties
<1>4. Range(t) = S
  <2>1. \A i \in DOMAIN t : t[i] \in S
    BY <1>2, <1>3 DEF Range
  <2>2. \A i \in DOMAIN s : i \in DOMAIN t /\ t[i] = s[i]
    BY <1>2, <1>3
  <2>3. Len(s) + 1 \in DOMAIN t
    BY <1>3
  <2> HIDE DEF t
  <2> QED
    BY <2>1, <2>2, <2>3, <1>2 DEF Range
<1> QED
  BY <1>2, <1>4

(* A part of a path: its length, the directory above it and its last name. *)
LEMMA Ups ==
  ASSUME NEW path \in Seq(STRING), NEW n \in 0..Len(path)
  PROVE  /\ Up(path, n) \in Seq(STRING)
         /\ Len(Up(path, n)) = n
         /\ n # 0 => /\ Up(path, n) # <<>>
                     /\ Front(Up(path, n)) = Up(path, n - 1)
                     /\ Last(Up(path, n)) = path[n]
<1>1. Len(path) \in Nat /\ \A i \in 1..Len(path) : path[i] \in STRING
  BY LenProperties, ElementOfSeq
<1>2. /\ Up(path, n) \in Seq(STRING)
      /\ Len(Up(path, n)) = n
      /\ \A i \in 1..n : Up(path, n)[i] = path[i]
  BY <1>1, SubSeqProperties DEF Up
<1>3. ASSUME n # 0
      PROVE  Front(Up(path, n)) = Up(path, n - 1)
  <2>1. CASE n = 1
    BY <2>1, <1>1, <1>2, SubSeqEmpty DEF Front, Up
  <2>2. CASE n > 1
    <3>1. SubSeq(SubSeq(path, 1, n), 1, n - 1) = SubSeq(path, 1, n - 1)
      BY <2>2, <1>1, SubSeqOfSubSeq
    <3> QED
      BY <3>1, <1>2 DEF Front, Up
  <2> QED
    BY <2>1, <2>2, <1>3, <1>1
<1>4. n # 0 => Last(Up(path, n)) = path[n] /\ Up(path, n) # <<>>
  BY <1>1, <1>2, EmptySeq DEF Last
<1> QED
  BY <1>2, <1>3, <1>4

(* The whole path is what is looked at first.                               *)
LEMMA UpWhole ==
  ASSUME NEW path \in Seq(STRING)
  PROVE  Up(path, Len(path)) = path
BY SubSeqFull DEF Up
-----------------------------------------------------------------------------
(* The file that is being processed is of the command line.                 *)
LEMMA ThisFile ==
  ASSUME InputInv, TodoInv, todo # <<>>
  PROVE  /\ Number \in 1..Len(cmd.files)
         /\ Len(cmd.files) \in Nat /\ Len(todo) \in Nat \ {0}
         /\ Head(todo) = cmd.files[Number]
         /\ File = disk[cmd.files[Number]]
         /\ IsFile(File)
<1>1. Len(cmd.files) \in Nat /\ Len(todo) \in Nat \ {0}
  BY LenProperties, EmptySeq DEF InputInv, TodoInv
<1>2. Head(todo) = todo[1] /\ Head(todo) \in DOMAIN disk
  <2>1. Head(todo) \in DOMAIN disk
    BY HeadTailProperties DEF TodoInv
  <2>2. Head(todo) = todo[1]
    BY DEF TodoInv
  <2> QED
    BY <2>1, <2>2
<1>3. todo[1] = cmd.files[Number + 1 - 1]
  BY <1>1 DEF TodoInv
<1>4. Number \in 1..Len(cmd.files)
  BY <1>1 DEF TodoInv, Number
<1>5. Number + 1 - 1 = Number
  BY <1>4
<1> QED
  BY <1>1, <1>2, <1>3, <1>4, <1>5 DEF File, InputInv

(* A file that is left behind is one more that is done.                     *)
LEMMA LeftBehind ==
  ASSUME InputInv, TodoInv, pc \in Busy, NextFile, UNCHANGED <<inputs, exit>>
  PROVE  /\ TodoInv'
         /\ Number' = Number + 1
         /\ Done' = Done \cup {Number} /\ Number \notin Done
<1>1. todo # <<>> /\ pc' = "file" /\ todo' = Tail(todo) /\ cmd' = cmd /\ disk' = disk
  BY DEF TodoInv, NextFile, inputs
<1>2. /\ Number \in 1..Len(cmd.files) /\ Len(cmd.files) \in Nat
      /\ Len(todo) \in Nat \ {0}
  BY <1>1, ThisFile
<1>3. /\ todo' \in Seq(DOMAIN disk) /\ Len(todo') = Len(todo) - 1
      /\ \A i \in 1..Len(todo') : todo'[i] = todo[i + 1]
  BY <1>1, HeadTailProperties DEF TodoInv
<1>4. Number' = Number + 1
  BY <1>1, <1>2, <1>3 DEF Number
<1>5. ASSUME NEW i \in 1..Len(todo')
      PROVE  todo'[i] = cmd.files[Number' + i - 1]
  <2>1. i + 1 \in 1..Len(todo) /\ Number + (i + 1) - 1 = Number' + i - 1
    BY <1>2, <1>3, <1>4
  <2>2. todo[i + 1] = cmd.files[Number + (i + 1) - 1]
    BY <2>1 DEF TodoInv
  <2> QED
    BY <2>1, <2>2, <1>3
<1>6. exit = Running /\ exit' = exit
  BY DEF TodoInv, Busy
<1>7. TodoInv'
  BY <1>1, <1>2, <1>3, <1>5, <1>6 DEF TodoInv, Busy
<1> QED
  BY <1>2, <1>4, <1>7 DEF Done
-----------------------------------------------------------------------------
(* Finite sets of errors by checks of ws, as Reports expects them.          *)
Found(S, ws) ==
  /\ IsFiniteSet(S)
  /\ \A e \in S : /\ e = [line |-> e.line, cat |-> e.cat, conf |-> e.conf, by |-> e.by]
                  /\ e.by \in ws

(* Errors of one check are found as its own.                               *)
LEMMA FoundBy ==
  ASSUME NEW S, IsFiniteSet(S), NEW ws, NEW who \in ws
  PROVE  Found(By(who, S), ws)
<1> DEFINE f == [e \in S |-> [line |-> e.line, cat |-> e.cat, conf |-> e.conf, by |-> who]]
<1>1. f \in Surjection(S, By(who, S))
  BY DEF By, Surjection
<1>2. IsFiniteSet(By(who, S))
  BY <1>1, FS_Surjection
<1>3. ASSUME NEW e \in By(who, S)
      PROVE  /\ e = [line |-> e.line, cat |-> e.cat, conf |-> e.conf, by |-> e.by]
             /\ e.by \in ws
  <2>1. PICK x \in S : e = [line |-> x.line, cat |-> x.cat, conf |-> x.conf, by |-> who]
    BY DEF By
  <2> QED
    BY <2>1
<1> QED
  BY <1>2, <1>3 DEF Found

(* So are those of two checks together.                                    *)
LEMMA FoundUnion ==
  ASSUME NEW ws, NEW S, Found(S, ws), NEW T, Found(T, ws)
  PROVE  Found(S \cup T, ws)
BY FS_Union DEF Found

(* So are those of them that are printed.                                  *)
LEMMA FoundPrinted ==
  ASSUME NEW ws, NEW S, Found(S, ws), NEW s
  PROVE  Found(Printed(s, S), ws)
<1>1. Printed(s, S) \in SUBSET S
  BY DEF Printed
<1> QED
  BY <1>1, FS_Subset DEF Found

(* No error is found by any.                                               *)
LEMMA FoundNone == ASSUME NEW ws PROVE Found({}, ws)
BY FS_EmptySet DEF Found

(* What the checks find is finite.                                          *)
LEMMA Singles ==
  /\ \A f : IsFiniteSet(CopyrightErrors(f)) /\ IsFiniteSet(CommentErrors(f))
  /\ \A l, c : IsFiniteSet(GuardError(l, c))
  /\ \A g, name : IsFiniteSet(IfndefErrors(g, name)) /\ IsFiniteSet(EndifErrors(g, name))
  /\ \A note, l : IsFiniteSet(UnknownNote(note, l))
<1>1. \A x : IsFiniteSet({x})
  BY FS_Singleton
<1>2. IsFiniteSet({})
  BY FS_EmptySet
<1>3. \A l, c : IsFiniteSet(GuardError(l, c))
  BY <1>1 DEF GuardError
<1>4. \A f : IsFiniteSet(CopyrightErrors(f)) /\ IsFiniteSet(CommentErrors(f))
  BY <1>1, <1>2 DEF CopyrightErrors, CommentErrors
<1>5. \A g, name : IsFiniteSet(IfndefErrors(g, name)) /\ IsFiniteSet(EndifErrors(g, name))
  BY <1>2, <1>3 DEF IfndefErrors, EndifErrors
<1>6. \A note, l : IsFiniteSet(UnknownNote(note, l))
  BY <1>1, <1>2 DEF UnknownNote
<1> QED
  BY <1>3, <1>4, <1>5, <1>6

(* The errors of a line are of that line.                                   *)
LEMMA OfTheLine ==
  ASSUME NEW f, IsFile(f), NEW l \in DOMAIN f.lines, NEW w
  PROVE  /\ IsFiniteSet(LineErrors(f, l, w))
         /\ \A e \in LineErrors(f, l, w) : e.line = l
<1> DEFINE Y == {y \in f.lines[l].faults : ~y.late}
           X == {[line |-> l, cat |-> x.cat, conf |-> x.conf] : x \in Y}
           W == IF f.lines[l].width > w
                THEN {[line |-> l, cat |-> LineLength, conf |-> 2]} ELSE {}
           g == [x \in Y |-> [line |-> l, cat |-> x.cat, conf |-> x.conf]]
<1>1. IsFiniteSet(Y)
  BY FS_Subset DEF IsFile
<1>2. IsFiniteSet(X)
  <2>1. g \in Surjection(Y, X)
    BY DEF Surjection
  <2> HIDE DEF g, X, Y
  <2> QED
    BY <1>1, <2>1, FS_Surjection
<1>3. IsFiniteSet(W)
  BY FS_EmptySet, FS_Singleton
<1>4. LineErrors(f, l, w) = X \cup W
  BY DEF LineErrors
<1>5. \A e \in X \cup W : e.line = l
  OBVIOUS
<1> HIDE DEF X, W
<1> QED
  BY <1>2, <1>3, <1>4, <1>5, FS_Union

(* The errors at the end are finitely many.                                *)
LEMMA OfTheEnd ==
  ASSUME NEW f, IsFile(f)
  PROVE  IsFiniteSet(LateErrors(f)) /\ IsFiniteSet(MixedEnds(f))
<1> DEFINE D == DOMAIN f.lines
           Y(l) == {y \in f.lines[l].faults : y.late}
           X(l) == {[line |-> l, cat |-> x.cat, conf |-> x.conf] : x \in Y(l)}
           G == {X(l) : l \in D}
           C == {l \in D : f.lines[l].cr}
           M == {[line |-> l, cat |-> Newline, conf |-> 1] : l \in C}
<1>1. IsFiniteSet(D)
  <2>1. D = 1..Len(f.lines) /\ Len(f.lines) \in Nat
    BY LenProperties DEF IsFile
  <2> QED
    BY <2>1, FS_Interval
<1>2. ASSUME NEW l \in D PROVE IsFiniteSet(X(l))
  <2> DEFINE g == [x \in Y(l) |-> [line |-> l, cat |-> x.cat, conf |-> x.conf]]
  <2>1. IsFiniteSet(Y(l))
    BY FS_Subset DEF IsFile
  <2>2. g \in Surjection(Y(l), X(l))
    BY DEF Surjection
  <2> HIDE DEF g, X, Y
  <2> QED
    BY <2>1, <2>2, FS_Surjection
<1>3. IsFiniteSet(G)
  <2> DEFINE g == [l \in D |-> X(l)]
  <2>1. g \in Surjection(D, G)
    BY Zenon DEF Surjection
  <2> HIDE DEF g, G, D
  <2> QED
    BY <1>1, <2>1, FS_Surjection
<1>4. IsFiniteSet(LateErrors(f))
  <2>1. \A T \in G : IsFiniteSet(T)
    BY <1>2, Zenon
  <2>2. LateErrors(f) = UNION G
    BY Zenon DEF LateErrors
  <2> HIDE DEF G
  <2> QED
    BY <1>3, <2>1, <2>2, FS_UNION
<1>5. IsFiniteSet(M)
  <2> DEFINE g == [l \in C |-> [line |-> l, cat |-> Newline, conf |-> 1]]
  <2>1. g \in Surjection(C, M)
    BY DEF Surjection
  <2>2. IsFiniteSet(C)
    BY <1>1, FS_Subset
  <2> HIDE DEF g, C, M
  <2> QED
    BY <2>1, <2>2, FS_Surjection
<1>6. MixedEnds(f) = IF C = D THEN {} ELSE M
  BY Zenon DEF MixedEnds
<1> QED
  BY <1>4, <1>5, <1>6, FS_EmptySet

(* ProcessFileData before the lines: what it reports is of its openers.     *)
LEMMA OfTheStart ==
  ASSUME NEW f
  PROVE  Found(Start(f).errors, Openers)
<1> DEFINE none == NoSuppressions
           file == [none EXCEPT !.file = Marks(f)]
           name == GuardName(f.path, opt.root)
           g == f.guard
           wrong == IfndefErrors(g, name) # {}
           one == IF wrong THEN Parsed(file, NoteOf(f, g.ifndef), g.ifndef) ELSE file
           two == Parsed(one, NoteOf(f, g.endif), g.endif)
           first == By("guardnote", UnknownNote(NoteOf(f, g.ifndef), g.ifndef))
           second == By("guard", IfndefErrors(g, name))
                     \cup By("guardnote", UnknownNote(NoteOf(f, g.endif), g.endif))
           early == Printed(none, By("copyright", CopyrightErrors(f)))
                    \cup Printed(file, By("comment", CommentErrors(f)))
           lone == Printed(file, By("guard", GuardError(0, 5)))
           p == IF wrong THEN Printed(file, first) ELSE {}
           q == Printed(one, second)
           r == Printed(two, By("endif", EndifErrors(g, name)))
<1>1. /\ Found(By("copyright", CopyrightErrors(f)), Openers)
      /\ Found(By("comment", CommentErrors(f)), Openers)
      /\ Found(By("guard", GuardError(0, 5)), Openers)
      /\ Found(By("guard", IfndefErrors(g, name)), Openers)
      /\ Found(By("endif", EndifErrors(g, name)), Openers)
      /\ Found(first, Openers)
      /\ Found(By("guardnote", UnknownNote(NoteOf(f, g.endif), g.endif)), Openers)
  <2>1. /\ "copyright" \in Openers /\ "comment" \in Openers /\ "guard" \in Openers
        /\ "guardnote" \in Openers /\ "endif" \in Openers
    BY DEF Openers
  <2> HIDE DEF name, g
  <2> QED
    BY <2>1, FoundBy, Singles
<1> HIDE DEF first
<1>2. Found(early, Openers)
  <2> HIDE DEF none, file
  <2> QED
    BY <1>1, FoundPrinted, FoundUnion
<1>3. Found(lone, Openers)
  <2> HIDE DEF file
  <2> QED
    BY <1>1, FoundPrinted
<1>4. Found(second, Openers)
  BY <1>1, FoundUnion
<1> HIDE DEF second
<1>5. Found(p, Openers) /\ Found(q, Openers) /\ Found(r, Openers)
  <2> HIDE DEF wrong, file, one, two, name, g
  <2> QED
    BY <1>1, <1>4, FoundPrinted, FoundNone
<1>6. \/ Start(f).errors = early
      \/ Start(f).errors = early \cup lone
      \/ Start(f).errors = early \cup p \cup q \cup r
  BY Zenon DEF Start, first, second
<1> HIDE DEF early, lone, p, q, r
<1>7. /\ Found(early \cup lone, Openers)
      /\ Found(early \cup p, Openers)
  BY <1>2, <1>3, <1>5, FoundUnion
<1>8. Found(early \cup p \cup q, Openers)
  BY <1>7, <1>5, FoundUnion
<1>9. Found(early \cup p \cup q \cup r, Openers)
  BY <1>8, <1>5, FoundUnion
<1> QED
  BY <1>2, <1>6, <1>7, <1>9
-----------------------------------------------------------------------------
(* As many errors are logged as are found.                                  *)
LEMMA LoggedCard ==
  ASSUME NEW n, NEW ws, NEW S, Found(S, ws)
  PROVE  /\ IsFiniteSet(Logged(n, S)) /\ Cardinality(Logged(n, S)) = Cardinality(S)
         /\ \A e \in Logged(n, S) :
              e.file = n /\ \E x \in S : e.line = x.line /\ e.cat = x.cat /\ e.by = x.by
<1> DEFINE f == [e \in S |-> [file |-> n, line |-> e.line, cat |-> e.cat,
                              conf |-> e.conf, by |-> e.by]]
<1>1. f \in Surjection(S, Logged(n, S))
  BY DEF Surjection, Logged
<1>2. ASSUME NEW x \in S, NEW y \in S, f[x] = f[y] PROVE x = y
  <2>1. /\ x.line = y.line /\ x.cat = y.cat /\ x.conf = y.conf /\ x.by = y.by
    <3>1. /\ f[x].line = x.line /\ f[x].cat = x.cat /\ f[x].conf = x.conf /\ f[x].by = x.by
          /\ f[y].line = y.line /\ f[y].cat = y.cat /\ f[y].conf = y.conf /\ f[y].by = y.by
      OBVIOUS
    <3> QED
      BY <3>1, <1>2
  <2>2. /\ x = [line |-> x.line, cat |-> x.cat, conf |-> x.conf, by |-> x.by]
        /\ y = [line |-> y.line, cat |-> y.cat, conf |-> y.conf, by |-> y.by]
    BY DEF Found
  <2> HIDE DEF f
  <2> QED
    BY <2>1, <2>2
<1>3. f \in Injection(S, Logged(n, S))
  <2>1. f \in [S -> Logged(n, S)]
    BY <1>1 DEF Surjection
  <2> HIDE DEF f
  <2> QED
    BY <1>2, <2>1 DEF Injection, IsInjective
<1>4. \A e \in Logged(n, S) :
        e.file = n /\ \E x \in S : e.line = x.line /\ e.cat = x.cat /\ e.by = x.by
  BY DEF Logged
<1> HIDE DEF f
<1> QED
  BY <1>1, <1>3, <1>4, FS_Surjection DEF Found

(* Errors under one key are some of those found.                           *)
LEMMA CountedPart ==
  ASSUME NEW k, NEW c, NEW ws, NEW S, Found(S, ws)
  PROVE  Found(CountedAs(k, c, S), ws) /\ CountedAs(k, c, S) \subseteq S
<1>1. CountedAs(k, c, S) \in SUBSET S
  BY DEF CountedAs
<1> QED
  BY <1>1, FS_Subset DEF Found

(* Logging an error keeps its key.                                         *)
LEMMA CountedLogged ==
  ASSUME NEW k, NEW c, NEW n, NEW S
  PROVE  CountedAs(k, c, Logged(n, S)) = Logged(n, CountedAs(k, c, S))
BY DEF CountedAs, Logged

(* New errors are counted once, in all styles.                              *)
LEMMA ReportsCounted ==
  ASSUME NEW ws, NEW S, Found(S, ws), Reports(S),
         IsFiniteSet(log), CountsAgree,
         ~CountsByCategory(state.counting) => counts = <<>>,
         Logged(Number, S) \cap log = {},
         exit = Running, UNCHANGED <<state, exit>>
  PROVE  /\ IsFiniteSet(log') /\ CountsAgree'
         /\ count \in Nat /\ count' \in Nat /\ count <= count'
         /\ ~CountsByCategory(state.counting') => counts' = <<>>
<1> DEFINE L == Logged(Number, S)
           c == state.counting
           keys == {CountKey(c, e.cat) : e \in S}
<1>1. /\ count' = count + Cardinality(S)
      /\ counts' = Counted(counts, c, S)
      /\ log' = log \cup L
  BY DEF Reports
<1>2. /\ IsFiniteSet(L) /\ Cardinality(L) = Cardinality(S)
      /\ \A e \in L : \E x \in S : e.cat = x.cat
  BY LoggedCard
<1>3. Cardinality(S) \in Nat /\ Cardinality(log) \in Nat
  BY FS_CardinalityType DEF Found
<1>4. IsFiniteSet(log') /\ count' = Cardinality(log')
  <2>1. Cardinality(log \cap L) = 0
    BY FS_EmptySet
  <2>2. Cardinality(log \cup L) = Cardinality(log) + Cardinality(L) - Cardinality(log \cap L)
    BY <1>2, FS_Union
  <2>3. IsFiniteSet(log \cup L)
    BY <1>2, FS_Union
  <2> QED
    BY <1>1, <1>2, <1>3, <2>1, <2>2, <2>3 DEF CountsAgree
<1>5. ASSUME NEW k
      PROVE  /\ Cardinality(CountedAs(k, c, log')) =
                  Cardinality(CountedAs(k, c, log)) + Cardinality(CountedAs(k, c, S))
             /\ Cardinality(CountedAs(k, c, S)) \in Nat
             /\ Cardinality(CountedAs(k, c, log)) \in Nat
             /\ k \notin keys => Cardinality(CountedAs(k, c, S)) = 0
  <2> DEFINE A == CountedAs(k, c, log)
             B == CountedAs(k, c, L)
             T == CountedAs(k, c, S)
  <2>1. CountedAs(k, c, log') = A \cup B
    BY <1>1 DEF CountedAs
  <2>2. A \in SUBSET log /\ B \in SUBSET L
    BY DEF CountedAs
  <2>3. IsFiniteSet(A) /\ IsFiniteSet(B)
    BY <1>2, <2>2, FS_Subset
  <2>4. Found(T, ws)
    BY CountedPart
  <2>5. Cardinality(B) = Cardinality(T)
    BY <2>4, LoggedCard, CountedLogged
  <2>6. A \cap B = {}
    BY <2>2
  <2>7. IsFiniteSet(T)
    BY <2>4 DEF Found
  <2>8. Cardinality(A) \in Nat /\ Cardinality(T) \in Nat
    BY <2>3, <2>7, FS_CardinalityType
  <2>9. Cardinality(A \cap B) = 0
    BY <2>6, FS_EmptySet
  <2>10. Cardinality(A \cup B) = Cardinality(A) + Cardinality(B) - Cardinality(A \cap B)
    <3> HIDE DEF A, B
    <3> QED
      BY <2>3, FS_Union
  <2>11. k \notin keys => T = {}
    BY DEF CountedAs
  <2>12. k \notin keys => Cardinality(T) = 0
    BY <2>11, FS_EmptySet
  <2> HIDE DEF A, B, T, keys
  <2> QED
    BY <2>1, <2>5, <2>8, <2>9, <2>10, <2>12 DEF A, T
<1>6. c' = c /\ count \in Nat /\ count' \in Nat /\ count <= count'
  BY <1>1, <1>3 DEF CountsAgree
<1>7. CASE CountsByCategory(c)
  <2>1. /\ DOMAIN counts' = DOMAIN counts \cup keys
        /\ \A k \in DOMAIN counts' : counts'[k] =
             (IF k \in DOMAIN counts THEN counts[k] ELSE 0) + Cardinality(CountedAs(k, c, S))
    BY <1>1, <1>7 DEF Counted
  <2>2. ASSUME NEW k \in DOMAIN counts'
        PROVE  counts'[k] = Cardinality(CountedAs(k, c, log'))
    <3>1. CASE k \in DOMAIN counts
      <4>1. counts[k] = Cardinality(CountedAs(k, c, log))
        BY <3>1 DEF CountsAgree
      <4> QED
        BY <2>1, <3>1, <4>1, <1>5
    <3>2. CASE k \notin DOMAIN counts
      <4>1. \A e \in log : CountKey(c, e.cat) # k
        BY <3>2, <1>7 DEF CountsAgree
      <4>2. CountedAs(k, c, log) = {}
        BY <4>1 DEF CountedAs
      <4>3. Cardinality(CountedAs(k, c, log)) = 0
        BY <4>2, FS_EmptySet
      <4> QED
        BY <2>1, <3>2, <4>3, <1>5
    <3> QED
      BY <3>1, <3>2
  <2>3. ASSUME NEW e \in log'
        PROVE  CountKey(c, e.cat) \in DOMAIN counts'
    <3>1. CASE e \in log
      BY <3>1, <2>1, <1>7 DEF CountsAgree
    <3>2. CASE e \in L
      <4>1. PICK x \in S : e.cat = x.cat
        BY <3>2, <1>2
      <4>2. CountKey(c, x.cat) \in keys
        OBVIOUS
      <4> QED
        BY <4>1, <4>2, <2>1
    <3> QED
      BY <3>1, <3>2, <1>1
  <2>4. exit' # 0
    BY DEF Running
  <2> HIDE DEF c, keys, L
  <2> QED
    BY <1>4, <1>6, <1>7, <2>2, <2>3, <2>4 DEF CountsAgree, c
<1>8. CASE ~CountsByCategory(c)
  <2>1. counts' = counts
    BY <1>1, <1>8 DEF Counted
  <2>2. counts = <<>>
    BY <1>8
  <2>3. exit' # 0 /\ \A k : k \notin DOMAIN <<>>
    BY DEF Running
  <2> HIDE DEF c
  <2> QED
    BY <1>4, <1>6, <1>8, <2>1, <2>2, <2>3 DEF CountsAgree, c
<1> QED
  BY <1>7, <1>8
-----------------------------------------------------------------------------
(* A directory above a file rules it unless a nearer one blocks.            *)
Unblocked(path, n) == \A j \in Above(path) : j > n => ~Blocks(Up(path, j))

(* The directories above a file are the shorter parts of its path.         *)
LEMMA PathParts ==
  ASSUME NEW path \in Seq(STRING) \ {<<>>}
  PROVE  /\ Len(path) \in Nat \ {0}
         /\ Prefixes(Front(path)) = {Up(path, n) : n \in Above(path)}
         /\ \A n \in Above(path) : Len(Up(path, n)) = n
<1>1. Len(path) \in Nat \ {0}
  BY LenProperties, EmptySeq
<1>2. /\ Front(path) = Up(path, Len(path) - 1)
      /\ Front(path) \in Seq(STRING) /\ Len(Front(path)) = Len(path) - 1
  <2>1. Len(path) - 1 \in 0..Len(path)
    BY <1>1
  <2> QED
    BY <1>1, <2>1, Ups DEF Front, Up
<1>3. ASSUME NEW n \in Above(path)
      PROVE  SubSeq(Front(path), 1, n) = Up(path, n) /\ Len(Up(path, n)) = n
  <2>1. n \in 0..Len(path)
    BY <1>1 DEF Above
  <2>2. CASE n = 0
    BY <2>1, <2>2, Ups, SubSeqEmpty DEF Up
  <2>3. CASE n > 0
    <3>1. SubSeq(SubSeq(path, 1, Len(path) - 1), 1, n) = SubSeq(path, 1, n)
      <4>1. 1 \in 1..Len(path) /\ Len(path) - 1 \in 1..Len(path) /\ n \in 1..(Len(path) - 1)
        BY <1>1, <2>3 DEF Above
      <4> QED
        BY <1>1, <4>1, SubSeqOfSubSeq
    <3> QED
      BY <2>1, <3>1, Ups DEF Front, Up
  <2> QED
    BY <2>1, <2>2, <2>3
<1>4. 0..Len(Front(path)) = Above(path)
  BY <1>2 DEF Above
<1>5. Prefixes(Front(path)) = {Up(path, n) : n \in Above(path)}
  BY <1>3, <1>4 DEF Prefixes
<1> QED
  BY <1>1, <1>3, <1>5

(* Those of them that rule it are not blocked below.                        *)
LEMMA RulingAt ==
  ASSUME NEW path \in Seq(STRING) \ {<<>>}
  PROVE  /\ \A n \in Above(path) : Up(path, n) \in Ruling(path) <=> Unblocked(path, n)
         /\ \A d \in Ruling(path) : \E n \in Above(path) : d = Up(path, n)
<1> DEFINE P == Prefixes(Front(path))
<1>1. P = {Up(path, n) : n \in Above(path)}
  BY PathParts
<1>2. \A n \in Above(path) : Len(Up(path, n)) = n
  BY PathParts
<1>3. ASSUME NEW n \in Above(path)
      PROVE  Up(path, n) \in Ruling(path) <=> Unblocked(path, n)
  <2>1. Up(path, n) \in P
    BY <1>1
  <2>2. (\E e \in P : Len(e) > Len(Up(path, n)) /\ Blocks(e)) <=> ~Unblocked(path, n)
    BY <1>1, <1>2 DEF Unblocked
  <2> HIDE DEF P
  <2> QED
    BY <2>1, <2>2 DEF Ruling, P
<1>4. Ruling(path) \subseteq P
  BY DEF Ruling
<1> QED
  BY <1>1, <1>3, <1>4

(* A file is excluded when a directory above it, not blocked below, says   *)
(* so.                                                                     *)
LEMMA ExcludedAt ==
  ASSUME NEW path \in Seq(STRING) \ {<<>>}
  PROVE  Excluded(path) <=>
           \E n \in Above(path) : ExcludedIn(path, n) /\ Unblocked(path, n)
<1>1. ASSUME NEW n \in Above(path)
      PROVE  ExcludedIn(path, n) <=>
               \E i \in DOMAIN Settings(Up(path, n)) :
                 /\ Settings(Up(path, n))[i].name = "exclude"
                 /\ path[Len(Up(path, n)) + 1] \in Settings(Up(path, n))[i].val
  <2>1. Len(Up(path, n)) = n
    BY PathParts
  <2> QED
    BY <2>1 DEF ExcludedIn, ExcludedBy
<1> QED
  BY <1>1, RulingAt DEF Excluded

(* What a configuration says is what its lines say.                         *)
LEMMA ConfigLines ==
  ASSUME InputInv, NEW d, Opens(d)
  PROVE  /\ Settings(d) = tree[d].settings
         /\ Len(Settings(d)) \in Nat
         /\ DOMAIN Settings(d) = 1..Len(Settings(d))
         /\ Blocks(d) <=> \E i \in 1..Len(Settings(d)) : Settings(d)[i].name = "noparent"
<1>1. /\ d \in DOMAIN tree /\ tree[d].readable
      /\ tree[d].settings \in Seq(Range(tree[d].settings))
  BY DEF Opens, InputInv, IsConfig, AreSettings
<1>2. Settings(d) = tree[d].settings
  BY <1>1 DEF Settings
<1>3. Len(Settings(d)) \in Nat /\ DOMAIN Settings(d) = 1..Len(Settings(d))
  BY <1>1, <1>2, LenProperties
<1> QED
  BY <1>1, <1>2, <1>3 DEF Blocks, Has

(* A directory without a readable CPPLINT.cfg says nothing; one that       *)
(* cannot be read ends the search.                                         *)
LEMMA NoConfig ==
  ASSUME InputInv, NEW d, ~Opens(d)
  PROVE  Settings(d) = <<>> /\ (Blocks(d) <=> d \in DOMAIN tree)
BY DEF Opens, Settings, Blocks
-----------------------------------------------------------------------------
(* Looking for configurations, from the file up.                            *)
LEMMA SearchSteps ==
  ASSUME InputInv, NEW path \in Seq(STRING) \ {<<>>},
         NEW n \in 0..Len(path), Searched(path, n), LookUp
  PROVE  \/ pc' = "settings" /\ n # 0 /\ Reading(path, n)'
         \/ pc' = "config" /\ n # 0 /\ Searched(path, n - 1)'
<1>1. Len(path) \in Nat \ {0}
  BY PathParts
<1>2. n # 0
  <2>1. n = 0 => at = <<>>
    BY SubSeqEmpty DEF Searched, Up
  <2> QED
    BY <2>1 DEF LookUp
<1>3. Dir = Up(path, n - 1)
  BY <1>2, Ups DEF Dir, Searched
<1>4. /\ keep /\ tree' = tree
      /\ n = Len(path) \/ ~Blocks(Up(path, n))
  BY DEF LookUp, Searched, inputs
<1>5. \A j \in Above(path) : j >= n => ~ExcludedIn(path, j) /\ ~Blocks(Up(path, j))
  BY <1>1, <1>4 DEF Searched, Above
<1>6. CASE Opens(Dir)
  <2>1. pc' = "settings" /\ row' = 1 /\ at' = at /\ keep' = keep
    BY <1>6 DEF LookUp
  <2>2. Len(Settings(Dir)) \in Nat
    BY <1>6, ConfigLines
  <2>3. Reading(path, n)'
    BY <1>1, <1>2, <1>3, <1>4, <1>5, <1>6, <2>1, <2>2
    DEF Reading, Searched, ExcludedIn, ExcludedBy, Blocks, Has, Settings, Opens
  <2> QED
    BY <2>1, <2>3, <1>2
<1>7. CASE ~Opens(Dir)
  <2>1. pc' = "config" /\ at' = Dir /\ keep' = (Dir \notin DOMAIN tree)
    BY <1>7 DEF LookUp
  <2>2. Settings(Dir) = <<>> /\ (Blocks(Dir) <=> Dir \in DOMAIN tree)
    BY <1>7, NoConfig
  <2>3. ~ExcludedIn(path, n - 1)
    BY <1>3, <2>2 DEF ExcludedIn
  <2>4. /\ \A j \in Above(path) : j >= n - 1 => ~ExcludedIn(path, j)
        /\ \A j \in Above(path) : j > n - 1 => ~Blocks(Up(path, j))
    BY <1>1, <1>5, <2>3 DEF Above
  <2>5. /\ n - 1 \in 0..Len(path) /\ n - 1 # Len(path)
        /\ keep' <=> ~Blocks(Up(path, n - 1))
    <3>1. n - 1 \in 0..Len(path) /\ n - 1 # Len(path)
      BY <1>1, <1>2
    <3>2. keep' <=> Dir \notin DOMAIN tree
      BY <2>1
    <3> QED
      BY <1>3, <2>2, <3>1, <3>2
  <2>6. /\ \A j : ExcludedIn(path, j)' <=> ExcludedIn(path, j)
        /\ \A j : Blocks(Up(path, j))' <=> Blocks(Up(path, j))
    BY <1>4 DEF ExcludedIn, ExcludedBy, Blocks, Has, Settings
  <2>7. Searched(path, n - 1)'
    BY <1>3, <2>1, <2>4, <2>5, <2>6 DEF Searched
  <2> QED
    BY <2>1, <2>7, <1>2
<1> QED
  BY <1>6, <1>7

(* The lines being read are those of the directory above at.               *)
LEMMA ReadingHere ==
  ASSUME InputInv, NEW path \in Seq(STRING) \ {<<>>},
         NEW n \in 1..Len(path), Reading(path, n)
  PROVE  /\ Dir = Up(path, n - 1) /\ Last(at) = path[n]
         /\ Lines = Settings(Dir) /\ Len(Lines) \in Nat /\ DOMAIN Lines = 1..Len(Lines)
         /\ n - 1 \in Above(path)
         /\ row <= Len(Lines) => (Excludes(Lines[row]) <=> ExcludedBy(path, n - 1, row))
<1>1. Len(path) \in Nat \ {0}
  BY PathParts
<1>2. Dir = Up(path, n - 1) /\ Last(at) = path[n]
  BY <1>1, Ups DEF Dir, Reading
<1>3. Lines = Settings(Dir) /\ Len(Lines) \in Nat /\ DOMAIN Lines = 1..Len(Lines)
  BY <1>2, ConfigLines DEF Reading, Lines
<1> QED
  BY <1>1, <1>2, <1>3 DEF Above, Excludes, ExcludedBy

(* A line that does not exclude the file is one more read.                 *)
LEMMA ReadingSteps ==
  ASSUME InputInv, NEW path \in Seq(STRING) \ {<<>>},
         NEW n \in 1..Len(path), Reading(path, n), TakeSetting
  PROVE  Reading(path, n)'
<1>1. /\ row <= Len(Lines) /\ ~Excludes(Lines[row])
      /\ row' = row + 1 /\ keep' = (keep /\ Lines[row].name # "noparent")
      /\ at' = at /\ tree' = tree
  BY DEF TakeSetting, inputs
<1>2. /\ Dir = Up(path, n - 1) /\ Lines = Settings(Dir) /\ Len(Lines) \in Nat
      /\ ~ExcludedBy(path, n - 1, row)
  BY <1>1, ReadingHere
<1>3. row \in 1..(Len(Settings(Up(path, n - 1))) + 1)
  BY DEF Reading
<1>4. row' \in 1..(Len(Settings(Up(path, n - 1))) + 1)
  BY <1>1, <1>2, <1>3
<1>5. \A i \in 1..(row' - 1) : i \in 1..(row - 1) \/ i = row
  BY <1>1, <1>3, <1>2
<1>6. \A i \in 1..(row - 1) : i \in 1..(row' - 1)
  BY <1>1, <1>3, <1>2
<1>7. row \in 1..(row' - 1)
  BY <1>1, <1>3, <1>2
<1>8. \A i \in 1..(row' - 1) : ~ExcludedBy(path, n - 1, i)
  BY <1>2, <1>5 DEF Reading
<1>9. keep' <=> \A i \in 1..(row' - 1) : Settings(Up(path, n - 1))[i].name # "noparent"
  BY <1>1, <1>2, <1>5, <1>6, <1>7 DEF Reading
<1>10. /\ n \in 1..Len(path) /\ at = Up(path, n)
       /\ Opens(Up(path, n - 1))
       /\ \A j \in Above(path) : j >= n => ~ExcludedIn(path, j) /\ ~Blocks(Up(path, j))
  BY DEF Reading
<1> QED
  BY <1>1, <1>4, <1>8, <1>9, <1>10
  DEF Reading, ExcludedIn, ExcludedBy, Blocks, Has, Settings, Opens

(* After the last line the search goes on one directory up, unless one was *)
(* set noparent.                                                           *)
LEMMA ReadingEnds ==
  ASSUME InputInv, NEW path \in Seq(STRING) \ {<<>>},
         NEW n \in 1..Len(path), Reading(path, n), CloseConfig
  PROVE  Searched(path, n - 1)'
<1>1. Len(path) \in Nat \ {0}
  BY PathParts
<1>2. row > Len(Lines) /\ at' = Dir /\ keep' = keep /\ tree' = tree
  BY DEF CloseConfig, inputs
<1>3. /\ Dir = Up(path, n - 1) /\ Lines = Settings(Dir) /\ Len(Lines) \in Nat
      /\ DOMAIN Lines = 1..Len(Lines)
  BY ReadingHere
<1>4. row - 1 = Len(Lines)
  BY <1>2, <1>3 DEF Reading
<1>5. ~ExcludedIn(path, n - 1)
  BY <1>3, <1>4 DEF Reading, ExcludedIn
<1>6. Blocks(Dir) <=> \E i \in 1..Len(Lines) : Lines[i].name = "noparent"
  BY <1>3, ConfigLines DEF Reading
<1>7. keep <=> ~Blocks(Dir)
  BY <1>3, <1>4, <1>6 DEF Reading
<1>8. /\ \A j \in Above(path) : j >= n - 1 => ~ExcludedIn(path, j)
      /\ \A j \in Above(path) : j > n - 1 => ~Blocks(Up(path, j))
  BY <1>1, <1>5 DEF Above, Reading
<1>9. n - 1 \in 0..Len(path) /\ n - 1 # Len(path)
  BY <1>1
<1> QED
  BY <1>2, <1>3, <1>7, <1>8, <1>9
  DEF Searched, ExcludedIn, ExcludedBy, Blocks, Has, Settings

(* It ends with a file that is excluded, or that is not.                    *)
LEMMA ExclusionFound ==
  ASSUME InputInv, NEW path \in Seq(STRING) \ {<<>>},
         NEW n \in 1..Len(path), Reading(path, n), Exclude
  PROVE  Excluded(path)
<1>1. row <= Len(Lines) /\ Excludes(Lines[row])
  BY DEF Exclude
<1>2. ExcludedBy(path, n - 1, row) /\ n - 1 \in Above(path)
  BY <1>1, ReadingHere
<1>3. row \in DOMAIN Settings(Up(path, n - 1))
  BY <1>1, ReadingHere DEF Reading
<1>4. Unblocked(path, n - 1)
  BY PathParts DEF Reading, Unblocked, Above
<1> QED
  BY <1>2, <1>3, <1>4, ExcludedAt DEF ExcludedIn

(* A search that has ended found no exclusion.                             *)
LEMMA NoExclusionFound ==
  ASSUME InputInv, NEW path \in Seq(STRING) \ {<<>>},
         NEW n \in 0..Len(path), Searched(path, n), ~keep \/ at = <<>>
  PROVE  ~Excluded(path)
<1>1. Len(path) \in Nat \ {0}
  BY PathParts
<1>2. SUFFICES ASSUME NEW m \in Above(path), ExcludedIn(path, m), Unblocked(path, m)
               PROVE  FALSE
  BY ExcludedAt
<1>3. m < n
  BY <1>1, <1>2 DEF Searched, Above
<1>4. CASE ~keep
  BY <1>1, <1>2, <1>3, <1>4 DEF Searched, Unblocked, Above
<1>5. CASE at = <<>>
  <2>1. n = 0
    BY <1>5, Ups DEF Searched
  <2> QED
    BY <2>1, <1>3, <1>1 DEF Above
<1> QED
  BY <1>4, <1>5
-----------------------------------------------------------------------------
(* IInv holds at the start.                                                *)
LEMMA Initially == Init => IInv
<1> SUFFICES ASSUME Init PROVE IInv
  OBVIOUS
<1>1. PICK i \in Inputs : cmd = i.cmd /\ tree = i.tree /\ disk = i.disk
  BY DEF Init
<1>2. InputInv
  BY <1>1, InputsAssumption DEF InputInv
<1>3. /\ pc = "args" /\ todo = cmd.files /\ counts = <<>> /\ said = <<>> /\ used = <<>>
      /\ log = {} /\ count = 0 /\ old = 0 /\ exit = Running
  BY DEF Init
<1>4. Len(todo) \in Nat /\ Number = 1
  BY <1>2, <1>3, LenProperties DEF InputInv, Number
<1>5. TodoInv
  BY <1>2, <1>3, <1>4 DEF InputInv, TodoInv, Busy
<1>6. Done = {}
  BY <1>4 DEF Done
<1>7. LogInv
  BY <1>3 DEF LogInv
<1>8. CountInv
  <2>1. IsFiniteSet(log) /\ count = Cardinality(log)
    BY <1>3, FS_EmptySet
  <2>2. DOMAIN counts = {}
    BY <1>3
  <2> QED
    BY <1>3, <2>1, <2>2 DEF CountInv, CountsAgree, Busy
<1>9. LookInv
  BY <1>3 DEF LookInv
<1>10. UsedInv /\ SaidInv
  <2>1. Range(<<>>) = {} /\ <<>> \in Seq({})
    BY DEF Range
  <2> QED
    BY <1>3, <1>6, <2>1 DEF UsedInv, SaidInv, Included, QuietIsQuiet, Range
<1> QED
  BY <1>2, <1>5, <1>7, <1>8, <1>9, <1>10 DEF IInv
-----------------------------------------------------------------------------
(* Steps that leave the files, the errors and what was said as they are.    *)
LEMMA Still ==
  ASSUME IInv, pc \notin {"lines", "end"}, pc' # "lines",
         UNCHANGED <<inputs, todo, stats, used, said>>
  PROVE  /\ InputInv' /\ LogInv' /\ UsedInv'
         /\ state' = state => SaidInv'
<1>1. /\ cmd' = cmd /\ tree' = tree /\ disk' = disk /\ todo' = todo
      /\ log' = log /\ used' = used /\ said' = said
  BY DEF inputs, stats
<1>2. InputInv'
  BY <1>1 DEF IInv, InputInv
<1>3. Number' = Number /\ Done' = Done
  BY <1>1 DEF Number, Done
<1>4. LogInv'
  BY <1>1, <1>3 DEF IInv, LogInv
<1>5. \A path : Excluded(path)' <=> Excluded(path)
  BY <1>1 DEF Excluded, Ruling, Blocks, Has, Settings
<1>6. UsedInv'
  <2>1. Included'
    BY <1>1, <1>3, <1>5 DEF IInv, UsedInv, Included
  <2> QED
    BY <1>1, <1>3, <2>1 DEF IInv, UsedInv
<1>7. ASSUME state' = state PROVE SaidInv'
  <2>1. QuietIsQuiet'
    BY <1>1, <1>3, <1>5, <1>7 DEF IInv, SaidInv, QuietIsQuiet
  <2>2. \A n \in Range(said) : n \in Done
    BY DEF IInv, SaidInv
  <2> QED
    BY <1>1, <1>3, <2>1, <2>2 DEF IInv, SaidInv
<1> QED
  BY <1>2, <1>4, <1>6, <1>7

(* A step without errors leaves the counts right.                          *)
LEMMA StillCounted ==
  ASSUME CountInv, UNCHANGED <<stats, todo, inputs, state, old>>,
         exit' # 0 \/ log = {}, pc' \in Busy => pc \in Busy
  PROVE  CountInv'
<1>1. log' = log /\ count' = count /\ counts' = counts /\ Number' = Number
  BY DEF stats, inputs, Number
<1>2. CountsAgree'
  BY <1>1 DEF CountInv, CountsAgree
<1> QED
  BY <1>1, <1>2 DEF CountInv

(* While options are read nothing was printed.                             *)
LEMMA NothingYet ==
  ASSUME IInv, pc = "args"
  PROVE  Number = 1 /\ Done = {} /\ log = {} /\ said = <<>>
<1>1. Len(todo) \in Nat /\ todo = cmd.files /\ said = <<>>
  BY LenProperties DEF IInv, TodoInv
<1>2. Number = 1 /\ Done = {}
  BY <1>1 DEF Number, Done
<1>3. \A e \in log : FALSE
  BY <1>2 DEF IInv, LogInv
<1> QED
  BY <1>1, <1>2, <1>3

(* An option keeps IInv.                                                   *)
LEMMA OptionsKeep == ASSUME IInv, TakeOption PROVE IInv'
<1>1. /\ pc = "args"
      /\ \/ pc' = "end" /\ exit' \in {0, 1}
         \/ pc' = "args" /\ exit' = exit
      /\ UNCHANGED <<inputs, todo, stats, used, said, old>>
  <2>1. pc = "args" /\ UNCHANGED <<inputs, todo, stats, used, said, old>>
    BY DEF TakeOption
  <2>2. \/ Quits(IF Lists(cmd.options[row]) THEN 0 ELSE 1)
        \/ UNCHANGED <<pc, exit>>
    BY Zenon DEF TakeOption
  <2>3. \A status : Quits(status) => pc' = "end" /\ exit' = status
    BY DEF Quits
  <2>4. (IF Lists(cmd.options[row]) THEN 0 ELSE 1) \in {0, 1}
    OBVIOUS
  <2> QED
    BY <2>1, <2>2, <2>3, <2>4
<1>2. Number = 1 /\ Done = {} /\ log = {} /\ said = <<>> /\ counts = <<>>
  BY <1>1, NothingYet DEF IInv, TodoInv
<1>3. InputInv' /\ LogInv' /\ UsedInv'
  BY <1>1, Still
<1>4. TodoInv'
  BY <1>1 DEF IInv, TodoInv, Busy, inputs, stats, Number, Running
<1>5. /\ log' = {} /\ count' = count /\ counts' = <<>> /\ said' = <<>>
  BY <1>1, <1>2 DEF stats
<1>6. CountInv'
  <2>1. IsFiniteSet(log) /\ count = Cardinality(log) /\ old \in 0..count
    BY DEF IInv, CountInv, CountsAgree
  <2>2. DOMAIN <<>> = {}
    OBVIOUS
  <2>3. CountsAgree'
    BY <1>2, <1>5, <2>1, <2>2 DEF CountsAgree
  <2> QED
    BY <1>1, <1>2, <1>5, <2>1, <2>3 DEF CountInv, Busy
<1>7. LookInv'
  BY <1>1 DEF LookInv
<1>8. SaidInv'
  <2>1. Done' = Done
    BY <1>1 DEF Done, Number, inputs
  <2>2. Range(<<>>) = {} /\ <<>> \in Seq({})
    BY DEF Range
  <2> QED
    BY <1>2, <1>5, <2>1, <2>2 DEF SaidInv, QuietIsQuiet
<1> QED
  BY <1>3, <1>4, <1>6, <1>7, <1>8 DEF IInv

(* The end of ParseArguments keeps it.                                     *)
LEMMA ParseKeeps == ASSUME IInv, ParseArguments PROVE IInv'
<1>1. /\ pc = "args"
      /\ \/ pc' = "end" /\ exit' = 1
         \/ pc' = "file" /\ exit' = exit
      /\ UNCHANGED <<inputs, todo, stats, used, said, state, old>>
  BY DEF ParseArguments, Quits, config
<1>2. InputInv' /\ LogInv' /\ UsedInv' /\ SaidInv'
  BY <1>1, Still
<1>3. TodoInv'
  BY <1>1 DEF IInv, TodoInv, Busy, inputs, stats, Number, Running
<1>4. CountInv'
  <2>1. exit' # 0
    BY <1>1 DEF IInv, TodoInv, Running
  <2> QED
    BY <1>1, <2>1, StillCounted DEF IInv, Busy
<1>5. LookInv'
  BY <1>1 DEF LookInv
<1> QED
  BY <1>2, <1>3, <1>4, <1>5 DEF IInv

(* BackupFilters keeps it, and the search begins with the whole path.      *)
LEMMA BeginKeeps == ASSUME IInv, BeginFile PROVE IInv'
<1>1. /\ pc = "file" /\ todo # <<>> /\ pc' = "config"
      /\ UNCHANGED <<inputs, todo, stats, used, said, state, exit>>
      /\ old' = count /\ at' = File.path /\ keep' = TRUE
  BY DEF BeginFile
<1>2. InputInv' /\ LogInv' /\ UsedInv' /\ SaidInv'
  BY <1>1, Still
<1>3. TodoInv'
  BY <1>1 DEF IInv, TodoInv, Busy, inputs, stats, Number, Running
<1>4. IsFile(File)
  BY <1>1, ThisFile DEF IInv
<1>5. CountInv'
  <2>1. log' = log /\ count' = count /\ counts' = counts /\ Number' = Number
    BY <1>1 DEF stats, inputs, Number
  <2>2. {e \in log : e.file # Number} = log
    BY <1>1 DEF IInv, LogInv
  <2>3. CountsAgree'
    BY <1>1, <2>1 DEF IInv, CountInv, CountsAgree
  <2>4. old' \in 0..count'
    <3>1. count \in Nat
      BY FS_CardinalityType DEF IInv, CountInv, CountsAgree
    <3> QED
      BY <1>1, <2>1, <3>1
  <2> QED
    BY <1>1, <2>1, <2>2, <2>3, <2>4 DEF IInv, CountInv, CountsAgree
<1>6. LookInv'
  <2>1. PICK path \in Seq(STRING) \ {<<>>} : path = File.path
    BY <1>4 DEF IsFile
  <2>2. File' = File
    BY <1>1 DEF File, inputs
  <2>3. at' = path
    BY <1>1, <2>1
  <2>4. Searched(path, Len(path))'
    <3>1. Len(path) \in Nat \ {0} /\ Up(path, Len(path)) = path
      BY PathParts, UpWhole
    <3> QED
      BY <1>1, <2>3, <3>1 DEF Searched, Above
  <2>5. Len(path) \in 0..Len(path)
    BY PathParts
  <2>6. \E n \in 0..Len(path) : Searched(path, n)'
    BY <2>4, <2>5
  <2>7. (\E n \in 0..Len(File.path) : Searched(File.path, n))'
    BY <2>1, <2>2, <2>6 DEF Searched
  <2> QED
    BY <1>1, <2>7 DEF LookInv
<1> QED
  BY <1>2, <1>3, <1>5, <1>6 DEF IInv
-----------------------------------------------------------------------------
(* The path that is searched for configurations stays the same.             *)
LEMMA SamePath ==
  ASSUME IInv, pc \in Busy, UNCHANGED <<inputs, todo>>
  PROVE  /\ File' = File
         /\ \E path \in Seq(STRING) \ {<<>>} : path = File.path
<1>1. IsFile(File)
  BY ThisFile DEF IInv, TodoInv
<1> QED
  BY <1>1 DEF IsFile, File, inputs

(* The search for configurations keeps it.                                 *)
LEMMA SearchKeeps ==
  ASSUME IInv, LookUp \/ TakeSetting \/ CloseConfig
  PROVE  IInv'
<1>1. /\ pc \in {"config", "settings"} /\ pc' \in {"config", "settings"}
      /\ UNCHANGED <<inputs, todo, stats, used, said, state, exit, old>>
  BY DEF LookUp, TakeSetting, CloseConfig
<1>2. InputInv' /\ LogInv' /\ UsedInv' /\ SaidInv'
  BY <1>1, Still
<1>3. TodoInv'
  BY <1>1 DEF IInv, TodoInv, Busy, inputs, stats, Number, Running
<1>4. CountInv'
  <2>1. exit' # 0
    BY <1>1 DEF IInv, TodoInv, Running
  <2> QED
    BY <1>1, <2>1, StillCounted DEF IInv, Busy
<1>5. PICK path \in Seq(STRING) \ {<<>>} : path = File.path
  BY <1>1, SamePath DEF Busy
<1>6. File' = File
  BY <1>1, SamePath DEF Busy
<1>7. /\ pc' = "config" => \E n \in 0..Len(path) : Searched(path, n)'
      /\ pc' = "settings" => \E n \in 1..Len(path) : Reading(path, n)'
  <2>1. Len(path) \in Nat \ {0}
    BY PathParts
  <2>2. CASE LookUp
    <3>1. PICK n \in 0..Len(path) : Searched(path, n)
      BY <1>5, <2>2 DEF IInv, LookInv, LookUp
    <3>2. n # 0 => n \in 1..Len(path) /\ n - 1 \in 0..Len(path)
      BY <2>1
    <3> QED
      BY <2>2, <3>1, <3>2, SearchSteps DEF IInv
  <2>3. CASE TakeSetting
    <3>1. PICK n \in 1..Len(path) : Reading(path, n)
      BY <1>5, <2>3 DEF IInv, LookInv, TakeSetting
    <3>2. pc' = "settings"
      BY <2>3 DEF TakeSetting
    <3> QED
      BY <2>3, <3>1, <3>2, ReadingSteps DEF IInv
  <2>4. CASE CloseConfig
    <3>1. PICK n \in 1..Len(path) : Reading(path, n)
      BY <1>5, <2>4 DEF IInv, LookInv, CloseConfig
    <3>2. pc' = "config" /\ n - 1 \in 0..Len(path)
      BY <2>1, <2>4 DEF CloseConfig
    <3> QED
      BY <2>4, <3>1, <3>2, ReadingEnds DEF IInv
  <2> QED
    BY <2>2, <2>3, <2>4
<1>8. LookInv'
  BY <1>1, <1>5, <1>6, <1>7 DEF LookInv, Searched, Reading
<1> QED
  BY <1>2, <1>3, <1>4, <1>8 DEF IInv

(* The end of the search keeps it: the file is not excluded.               *)
LEMMA ApplyKeeps == ASSUME IInv, ApplyFilters PROVE IInv'
<1>1. /\ pc = "config" /\ (~keep \/ at = <<>>)
      /\ \/ pc' = "end" /\ exit' = 1
         \/ pc' = "read" /\ exit' = exit
      /\ UNCHANGED <<inputs, todo, stats, used, said, state, old>>
  BY DEF ApplyFilters, Quits
<1>2. InputInv' /\ LogInv' /\ UsedInv' /\ SaidInv'
  BY <1>1, Still
<1>3. TodoInv'
  BY <1>1 DEF IInv, TodoInv, Busy, inputs, stats, Number, Running
<1>4. CountInv'
  <2>1. exit' # 0
    BY <1>1 DEF IInv, TodoInv, Running
  <2> QED
    BY <1>1, <2>1, StillCounted DEF IInv, Busy
<1>5. LookInv'
  <2>1. PICK path \in Seq(STRING) \ {<<>>} : path = File.path
    BY <1>1, SamePath DEF Busy
  <2>2. File' = File
    BY <1>1, SamePath DEF Busy
  <2>3. PICK n \in 0..Len(path) : Searched(path, n)
    BY <1>1, <2>1 DEF IInv, LookInv
  <2>4. ~Excluded(path)
    BY <1>1, <2>3, NoExclusionFound DEF IInv
  <2>5. ~Excluded(path)'
    BY <1>1, <2>4 DEF Excluded, Ruling, Blocks, Has, Settings, inputs
  <2>6. ~Excluded(File.path)'
    BY <2>1, <2>2, <2>5 DEF Excluded, Ruling
  <2> QED
    BY <1>1, <2>6 DEF LookInv
<1> QED
  BY <1>2, <1>3, <1>4, <1>5 DEF IInv
-----------------------------------------------------------------------------
(* Ways to leave a file.                                                    *)
LEMMA SameExclusions ==
  ASSUME UNCHANGED inputs
  PROVE  /\ \A path : Excluded(path)' <=> Excluded(path)
         /\ disk' = disk /\ cmd' = cmd /\ tree' = tree
BY DEF Excluded, Ruling, Blocks, Has, Settings, inputs

(* A file that is left was checked exactly if it was to be.                *)
LEMMA LeavesUsed ==
  ASSUME IInv, pc \in Busy, NextFile, UNCHANGED <<inputs, exit, used>>,
         \/ pc = "lines"
         \/ Excluded(File.path) \/ ~File.readable \/ Head(todo) # Stdin
  PROVE  UsedInv'
<1>1. /\ Number' = Number + 1 /\ Done' = Done \cup {Number} /\ Number \notin Done
  BY LeftBehind DEF IInv
<1>2. /\ File = disk[cmd.files[Number]] /\ Head(todo) = cmd.files[Number]
  BY ThisFile DEF IInv, TodoInv
<1>3. pc' = "file"
  BY DEF NextFile
<1>4. \A u \in Range(used) : u.file \in Done \cup {Number}
  BY DEF IInv, UsedInv
<1>5. /\ (\E i \in DOMAIN used : used[i].file = Number) <=> pc = "lines"
  BY <1>1 DEF IInv, UsedInv, Range
<1>6. pc = "lines" => ~Excluded(File.path) /\ File.readable
  BY DEF IInv, LookInv
<1>7. Included'
  BY <1>1, <1>2, <1>5, <1>6, SameExclusions DEF IInv, UsedInv, Included
<1> QED
  BY <1>1, <1>3, <1>4, <1>7 DEF IInv, UsedInv

(* "Done processing" was printed of it exactly if it was to be.            *)
LEMMA LeavesSaid ==
  ASSUME IInv, pc \in Busy, NextFile, UNCHANGED <<inputs, exit, state>>,
         NEW S, log' = log \cup Logged(Number, S),
         \/ said' = said /\ (~File.readable \/ Excluded(File.path))
         \/ /\ SaysDone /\ File.readable /\ ~Excluded(File.path)
            /\ old # count' <=> \E e \in log' : e.file = Number
            /\ old # count' => log' # {}
  PROVE  SaidInv'
<1>1. /\ Number' = Number + 1 /\ Done' = Done \cup {Number} /\ Number \notin Done
  BY LeftBehind DEF IInv
<1>2. /\ File = disk[cmd.files[Number]]
  BY ThisFile DEF IInv, TodoInv
<1>3. pc' = "file" /\ pc # "end"
  BY DEF NextFile, Busy
<1>4. \A n \in Range(said) : n \in Done
  BY <1>3 DEF IInv, SaidInv
<1>5. /\ said' \in Seq(Range(said'))
      /\ \/ said' = said
         \/ Range(said') = Range(said) \cup {Number}
  <2>1. said \in Seq(Range(said))
    BY DEF IInv, SaidInv
  <2>2. said' = said \/ said' = Append(said, Number)
    BY DEF SaysDone
  <2>3. /\ Append(said, Number) \in Seq(Range(Append(said, Number)))
        /\ Range(Append(said, Number)) = Range(said) \cup {Number}
    BY <2>1, AppendRange
  <2>4. CASE said' = said
    BY <2>1, <2>4
  <2>5. CASE said' = Append(said, Number)
    BY <2>3, <2>5
  <2> QED
    BY <2>2, <2>4, <2>5
<1>6. \A e \in Logged(Number, S) : e.file = Number
  BY DEF Logged
<1>7. \A k \in Done : (\E e \in log' : e.file = k) <=> (\E e \in log : e.file = k)
  BY <1>1, <1>6
<1>8. \A k \in Done : k \in Range(said') <=> k \in Range(said)
  BY <1>1, <1>5
<1>9. Number \in Range(said') <=>
        /\ File.readable /\ ~Excluded(File.path)
        /\ state.quiet => \E e \in log' : e.file = Number
  <2>1. CASE said' = said /\ (~File.readable \/ Excluded(File.path))
    BY <2>1, <1>1, <1>4
  <2>2. CASE /\ SaysDone /\ File.readable /\ ~Excluded(File.path)
             /\ old # count' <=> \E e \in log' : e.file = Number
    <3>1. CASE ~state.quiet \/ old # count'
      <4>1. said' = Append(said, Number)
        BY <2>2, <3>1 DEF SaysDone
      <4>2. Number \in Range(said')
        BY <4>1, AppendRange DEF IInv, SaidInv
      <4> QED
        BY <2>2, <3>1, <4>2
    <3>2. CASE ~(~state.quiet \/ old # count')
      <4>1. said' = said
        BY <2>2, <3>2 DEF SaysDone
      <4> QED
        BY <2>2, <3>2, <4>1, <1>1, <1>4
    <3> QED
      BY <3>1, <3>2
  <2> QED
    BY <2>1, <2>2
<1>10. state.quiet /\ log' = {} => said' = <<>>
  BY DEF IInv, SaidInv, QuietIsQuiet, SaysDone
<1>11. QuietIsQuiet'
  <2>1. state' = state
    OBVIOUS
  <2>2. \A k \in Done : k \in Range(said') <=>
         /\ disk[cmd.files[k]].readable /\ ~Excluded(disk[cmd.files[k]].path)
         /\ state.quiet => \E e \in log' : e.file = k
    BY <1>7, <1>8 DEF IInv, SaidInv, QuietIsQuiet
  <2>3. \A k \in Done' : k \in Range(said') <=>
         /\ disk[cmd.files[k]].readable /\ ~Excluded(disk[cmd.files[k]].path)
         /\ state.quiet => \E e \in log' : e.file = k
    BY <1>1, <1>2, <1>9, <2>2
  <2> QED
    BY <2>1, <2>3, <1>10, SameExclusions DEF QuietIsQuiet
<1> QED
  BY <1>1, <1>3, <1>4, <1>5, <1>11 DEF SaidInv

(* The errors logged are of this file and of those before it.              *)
LEMMA LeavesLog ==
  ASSUME IInv, pc \in Busy, NextFile, UNCHANGED <<inputs, exit>>,
         NEW S, log' = log \cup Logged(Number, S)
  PROVE  LogInv' /\ LookInv' /\ InputInv'
<1>1. /\ Number' = Number + 1 /\ Number \in 1..Len(cmd.files) /\ Len(cmd.files) \in Nat
  BY LeftBehind, ThisFile DEF IInv, TodoInv
<1>2. pc' = "file"
  BY DEF NextFile
<1>3. \A e \in log' : e.file \in 1..Number
  BY <1>1 DEF IInv, LogInv, Logged
<1>4. InputInv'
  BY SameExclusions DEF IInv, InputInv
<1> QED
  BY <1>1, <1>2, <1>3, <1>4 DEF LogInv, LookInv

(* A file left without being checked keeps IInv.                           *)
LEMMA LeaveKeeps ==
  ASSUME IInv, Exclude \/ Unreadable \/ Ignored
  PROVE  IInv'
<1>1. /\ pc \in Busy /\ NextFile
      /\ UNCHANGED <<inputs, exit, used, state, stats, old>>
  BY DEF Exclude, Unreadable, Ignored, Busy
<1>2. log' = log \cup Logged(Number, {}) /\ log' = log
  BY <1>1 DEF stats, Logged
<1>3. TodoInv'
  BY <1>1, LeftBehind DEF IInv
<1>4. LogInv' /\ LookInv' /\ InputInv'
  BY <1>1, <1>2, LeavesLog
<1>5. CountInv'
  <2>1. exit = Running
    BY <1>1 DEF IInv, TodoInv, Busy
  <2>2. CountsAgree'
    BY <1>1, <2>1 DEF IInv, CountInv, CountsAgree, stats
  <2> QED
    BY <1>1, <2>2 DEF IInv, CountInv, stats, NextFile, Busy
<1>6. PICK path \in Seq(STRING) \ {<<>>} : path = File.path
  <2>1. IsFile(File)
    BY <1>1, ThisFile DEF IInv, TodoInv
  <2> QED
    BY <2>1 DEF IsFile
<1>7. Exclude => Excluded(File.path)
  <2> SUFFICES ASSUME Exclude PROVE Excluded(path)
    BY <1>6
  <2>1. PICK n \in 1..Len(path) : Reading(path, n)
    BY <1>6 DEF IInv, LookInv, Exclude
  <2> QED
    BY <2>1, ExclusionFound DEF IInv
<1>8. UsedInv'
  BY <1>1, <1>7, LeavesUsed DEF Unreadable, Ignored, Checked
<1>9. SaidInv'
  <2>1. CASE Exclude
    <3>1. said' = said
      BY <2>1 DEF Exclude
    <3> QED
      BY <1>1, <1>2, <1>7, <2>1, <3>1, LeavesSaid
  <2>2. CASE Unreadable
    <3>1. said' = said /\ ~File.readable
      BY <2>2 DEF Unreadable
    <3> QED
      BY <1>1, <1>2, <3>1, LeavesSaid
  <2>3. CASE Ignored
    <3>1. SaysDone /\ File.readable /\ pc = "read" /\ count' = count
      BY <2>3 DEF Ignored, stats
    <3>2. ~Excluded(File.path)
      BY <3>1 DEF IInv, LookInv
    <3>3. ~\E e \in log : e.file = Number
      BY <3>1 DEF IInv, LogInv
    <3>4. {e \in log : e.file # Number} = log
      BY <3>3
    <3>5. old = count'
      BY <3>1, <3>4 DEF IInv, CountInv, CountsAgree, Busy
    <3> QED
      BY <1>1, <1>2, <3>1, <3>2, <3>3, <3>5, LeavesSaid
  <2> QED
    BY <2>1, <2>2, <2>3
<1> QED
  BY <1>3, <1>4, <1>5, <1>8, <1>9 DEF IInv
-----------------------------------------------------------------------------
(* Steps that report errors: each is new, so each is counted once.          *)
LEMMA ReportsKeep ==
  ASSUME IInv, pc \in Busy, UNCHANGED <<inputs, todo, state, exit, old>>,
         NEW ws, NEW S, Found(S, ws), Reports(S),
         \A e \in log : e.file = Number => ~\E x \in S : e.by = x.by /\ e.line = x.line
  PROVE  CountInv' /\ log' = log \cup Logged(Number, S)
<1>1. log' = log \cup Logged(Number, S) /\ Number' = Number
  BY DEF Reports, Number, inputs
<1>2. \A e \in Logged(Number, S) :
        e.file = Number /\ \E x \in S : e.line = x.line /\ e.by = x.by
  BY DEF Logged
<1>3. Logged(Number, S) \cap log = {}
  BY <1>2
<1>4. exit = Running
  BY DEF IInv, TodoInv, Busy
<1>5. /\ IsFiniteSet(log') /\ CountsAgree'
      /\ ~CountsByCategory(state.counting') => counts' = <<>>
      /\ count \in Nat /\ count' \in Nat /\ count <= count'
  BY <1>3, <1>4, ReportsCounted DEF IInv, CountInv
<1>6. {e \in log' : e.file # Number} = {e \in log : e.file # Number}
  BY <1>1, <1>2
<1>7. old = Cardinality({e \in log : e.file # Number})
  BY DEF IInv, CountInv
<1>8. old' \in 0..count'
  BY <1>5 DEF IInv, CountInv
<1> QED
  BY <1>1, <1>5, <1>6, <1>7, <1>8 DEF CountInv

(* The errors counted since the file began are those of the file.           *)
LEMMA CountedSince ==
  ASSUME NEW L, IsFiniteSet(L), NEW n, NEW before,
         before = Cardinality({e \in L : e.file # n})
  PROVE  before # Cardinality(L) <=> \E e \in L : e.file = n
<1> DEFINE T == {e \in L : e.file # n}
<1>1. T \in SUBSET L /\ (T = L <=> ~\E e \in L : e.file = n)
  OBVIOUS
<1>2. Cardinality(L) = Cardinality(T) <=> L = T
  <2> HIDE DEF T
  <2> QED
    BY <1>1, FS_Subset
<1> QED
  BY <1>1, <1>2

(* What is reported before the first line is new in the log.               *)
LEMMA StartKeeps == ASSUME IInv, StartFile PROVE IInv'
<1> DEFINE S == Start(File).errors
<1>1. /\ pc = "read" /\ pc' = "lines" /\ line' = 1 /\ File.readable
      /\ UNCHANGED <<inputs, todo, state, exit, old, said>>
      /\ used' = Append(used, [file |-> Number, opt |-> opt])
      /\ Reports(S)
  BY DEF StartFile
<1>2. /\ Found(S, Openers)
  BY OfTheStart
<1>3. \A e \in log : e.file # Number
  BY <1>1 DEF IInv, LogInv
<1>4. CountInv' /\ log' = log \cup Logged(Number, S)
  <2> HIDE DEF S
  <2> QED
    BY <1>1, <1>2, <1>3, ReportsKeep DEF Busy
<1>5. /\ \A e \in Logged(Number, S) : e.file = Number /\ e.by \in Openers
  BY <1>2 DEF Logged, Found
<1>6. Number' = Number /\ Done' = Done /\ File' = File /\ Number \in Nat \ {0}
  <2>1. Number \in Nat \ {0}
    BY <1>1, ThisFile DEF IInv, TodoInv, Busy
  <2> QED
    BY <1>1, <2>1 DEF Number, Done, File, inputs
<1>7. InputInv' /\ TodoInv'
  BY <1>1 DEF IInv, InputInv, TodoInv, Busy, inputs, Number
<1>8. LogInv'
  <2>1. Len(File.lines) \in Nat
    BY <1>1, ThisFile, LenProperties DEF IInv, TodoInv, Busy, IsFile
  <2>2. line' \in 1..Len(File'.lines) + 1
    BY <1>1, <1>6, <2>1
  <2>3. ASSUME NEW e \in log'
        PROVE  /\ e.file \in 1..Number
               /\ e.file = Number => e.by \in Openers
    BY <1>3, <1>4, <1>5, <1>6 DEF IInv, LogInv
  <2> QED
    BY <1>1, <1>6, <2>2, <2>3 DEF LogInv
<1>9. LookInv'
  <2>1. ~Excluded(File.path)
    BY <1>1 DEF IInv, LookInv
  <2>2. ~Excluded(File.path)'
    BY <1>1, <1>6, <2>1 DEF Excluded, Ruling, Blocks, Has, Settings, inputs
  <2> QED
    BY <1>1, <1>6, <2>2 DEF LookInv
<1>10. UsedInv'
  <2>1. /\ used' \in Seq(Range(used'))
        /\ Range(used') = Range(used) \cup {[file |-> Number, opt |-> opt]}
    BY <1>1, AppendRange DEF IInv, UsedInv
  <2>2. \A k : (\E i \in DOMAIN used' : used'[i].file = k)
                 <=> k = Number \/ \E i \in DOMAIN used : used[i].file = k
    <3> DEFINE new == [file |-> Number, opt |-> opt]
    <3>1. /\ \A k : (\E i \in DOMAIN used' : used'[i].file = k)
                    <=> \E x \in Range(used') : x.file = k
          /\ \A k : (\E i \in DOMAIN used : used[i].file = k)
                    <=> \E x \in Range(used) : x.file = k
      BY DEF Range
    <3>2. new.file = Number
      OBVIOUS
    <3> HIDE DEF new
    <3>3. \A k : (\E x \in Range(used') : x.file = k)
                 <=> k = Number \/ \E x \in Range(used) : x.file = k
      BY <2>1, <3>2 DEF new
    <3> QED
      BY <3>1, <3>3
  <2>3. Number \notin Done
    BY <1>6 DEF Done
  <2>4. Included'
    BY <1>1, <1>6, <2>2, <2>3, SameExclusions DEF IInv, UsedInv, Included
  <2> QED
    BY <1>1, <1>6, <2>1, <2>4 DEF IInv, UsedInv
<1>11. SaidInv'
  <2>1. \A k \in Done : (\E e \in log' : e.file = k) <=> (\E e \in log : e.file = k)
    BY <1>4, <1>5, <1>6 DEF Done
  <2>2. log' = {} => log = {}
    BY <1>4
  <2>3. QuietIsQuiet'
    BY <1>1, <1>6, <2>1, <2>2, SameExclusions DEF IInv, SaidInv, QuietIsQuiet
  <2>4. \A n \in Range(said) : n \in Done
    BY <1>1 DEF IInv, SaidInv
  <2> QED
    BY <1>1, <1>6, <2>3, <2>4 DEF IInv, SaidInv
<1> QED
  BY <1>4, <1>7, <1>8, <1>9, <1>10, <1>11 DEF IInv

(* So is what a line reports.                                              *)
LEMMA LineKeeps == ASSUME IInv, ProcessLine PROVE IInv'
<1> DEFINE note == File.lines[line].note
           s == Parsed(supp, note, line)
           A == UnknownNote(note, line)
           B == LineErrors(File, line, opt.width)
           S == Printed(supp, By("note", A)) \cup Printed(s, By("line", B))
           ws == {"note", "line"}
<1>1. /\ pc = "lines" /\ pc' = "lines" /\ line' = line + 1 /\ line <= Len(File.lines)
      /\ UNCHANGED <<inputs, todo, state, exit, old, said, used>>
      /\ Reports(S)
  BY DEF ProcessLine
<1>2. IsFile(File) /\ Len(File.lines) \in Nat /\ DOMAIN File.lines = 1..Len(File.lines)
  BY <1>1, ThisFile, LenProperties DEF IInv, TodoInv, Busy, IsFile
<1>3. line \in 1..Len(File.lines)
  BY <1>1, <1>2 DEF IInv, LogInv
<1>4. /\ IsFiniteSet(A) /\ IsFiniteSet(B)
      /\ \A e \in A \cup B : e.line = line
  <2>1. \A e \in A : e.line = line
    BY DEF UnknownNote
  <2>2. IsFiniteSet(B) /\ \A e \in B : e.line = line
    <3> HIDE DEF B
    <3> QED
      BY <1>2, <1>3, OfTheLine DEF B
  <2>3. IsFiniteSet(A)
    BY Singles
  <2> QED
    BY <2>1, <2>2, <2>3
<1>5. Found(S, ws)
  <2>1. Found(By("note", A), ws) /\ Found(By("line", B), ws)
    <3> HIDE DEF A, B
    <3> QED
      BY <1>4, FoundBy
  <2> HIDE DEF A, B, s, ws
  <2> QED
    BY <2>1, FoundPrinted, FoundUnion
<1>6. \A e \in S : e.line = line
  <2>1. S \subseteq By("note", A) \cup By("line", B)
    BY DEF Printed
  <2>2. \A e \in By("note", A) \cup By("line", B) : e.line = line
    <3> HIDE DEF A, B
    <3> QED
      BY <1>4 DEF By
  <2> QED
    BY <2>1, <2>2
<1>7. \A x \in S : x.by \in ws
  BY <1>5 DEF Found
<1> HIDE DEF S, A, B, s, note
<1>8. \A e \in log : e.file = Number => ~\E x \in S : e.by = x.by /\ e.line = x.line
  BY <1>3, <1>6, <1>7 DEF IInv, LogInv, Openers
<1>9. CountInv' /\ log' = log \cup Logged(Number, S)
  BY <1>1, <1>5, <1>8, ReportsKeep DEF Busy
<1>10. \A e \in Logged(Number, S) : e.file = Number /\ e.by \in ws /\ e.line = line
  BY <1>6, <1>7 DEF Logged
<1>11. Number' = Number /\ Done' = Done /\ File' = File /\ Number \in Nat \ {0}
  <2>1. Number \in Nat \ {0}
    BY <1>1, ThisFile DEF IInv, TodoInv, Busy
  <2> QED
    BY <1>1, <2>1 DEF Number, Done, File, inputs
<1>12. InputInv' /\ TodoInv'
  BY <1>1 DEF IInv, InputInv, TodoInv, Busy, inputs, Number
<1>13. LogInv'
  <2>1. line' \in 1..Len(File'.lines) + 1
    BY <1>1, <1>2, <1>3, <1>11
  <2>2. ASSUME NEW e \in log'
        PROVE  /\ e.file \in 1..Number
               /\ e.file = Number =>
                    \/ e.by \in Openers
                    \/ e.by \in {"note", "line"} /\ e.line \in 1..(line' - 1)
    <3>1. CASE e \in log
      <4>1. /\ e.file \in 1..Number
            /\ e.file = Number =>
                 \/ e.by \in Openers
                 \/ e.by \in {"note", "line"} /\ e.line \in 1..(line - 1)
        BY <3>1 DEF IInv, LogInv
      <4>2. \A l \in 1..(line - 1) : l \in 1..(line' - 1)
        BY <1>1, <1>3
      <4> QED
        BY <4>1, <4>2
    <3>2. CASE e \in Logged(Number, S)
      BY <3>2, <1>1, <1>3, <1>10, <1>11
    <3> QED
      BY <3>1, <3>2, <1>9
  <2> QED
    BY <1>1, <1>11, <2>1, <2>2 DEF LogInv
<1>14. LookInv'
  <2>1. ~Excluded(File.path) /\ File.readable
    BY <1>1 DEF IInv, LookInv
  <2>2. ~Excluded(File.path)'
    BY <1>1, <1>11, <2>1 DEF Excluded, Ruling, Blocks, Has, Settings, inputs
  <2> QED
    BY <1>1, <1>11, <2>1, <2>2 DEF LookInv
<1>15. UsedInv'
  <2>1. Included'
    BY <1>1, <1>11, SameExclusions DEF IInv, UsedInv, Included
  <2> QED
    BY <1>1, <1>11, <2>1 DEF IInv, UsedInv
<1>16. SaidInv'
  <2>1. \A k \in Done : (\E e \in log' : e.file = k) <=> (\E e \in log : e.file = k)
    BY <1>9, <1>10, <1>11 DEF Done
  <2>2. log' = {} => log = {}
    BY <1>9
  <2>3. QuietIsQuiet'
    BY <1>1, <1>11, <2>1, <2>2, SameExclusions DEF IInv, SaidInv, QuietIsQuiet
  <2>4. \A n \in Range(said) : n \in Done
    BY <1>1 DEF IInv, SaidInv
  <2> QED
    BY <1>1, <1>11, <2>3, <2>4 DEF IInv, SaidInv
<1> QED
  BY <1>9, <1>12, <1>13, <1>14, <1>15, <1>16 DEF IInv
(* So is what the end of a file reports, and the file is done.             *)
LEMMA FinishFileKeeps == ASSUME IInv, FinishFile PROVE IInv'
<1> DEFINE A == LateErrors(File)
           B == MixedEnds(File)
           both == By("late", A) \cup By("ends", B)
           S == Printed(supp, both)
           ws == {"late", "ends"}
<1>1. /\ pc = "lines" /\ NextFile
      /\ UNCHANGED <<inputs, state, exit, old, used>>
      /\ Reports(S) /\ SaysDone
  BY DEF FinishFile
<1>2. Found(S, ws)
  <2>1. IsFiniteSet(A) /\ IsFiniteSet(B)
    BY <1>1, ThisFile, OfTheEnd DEF IInv, TodoInv, Busy
  <2>2. Found(By("late", A), ws) /\ Found(By("ends", B), ws)
    <3> HIDE DEF A, B
    <3> QED
      BY <2>1, FoundBy
  <2>3. Found(both, ws)
    <3> HIDE DEF A, B, ws
    <3> QED
      BY <2>2, FoundUnion
  <2> HIDE DEF both
  <2> QED
    BY <2>3, FoundPrinted
<1>3. \A x \in S : x.by \in ws
  BY <1>2 DEF Found
<1> HIDE DEF S, A, B, both
<1>4. log' = log \cup Logged(Number, S)
  BY <1>1 DEF Reports
<1>5. \A e \in Logged(Number, S) : e.file = Number /\ e.by \in ws
  BY <1>3 DEF Logged
<1>6. Logged(Number, S) \cap log = {}
  BY <1>5 DEF IInv, LogInv, Openers
<1>7. exit = Running
  BY <1>1 DEF IInv, TodoInv
<1>8. /\ IsFiniteSet(log') /\ CountsAgree'
      /\ ~CountsByCategory(state.counting') => counts' = <<>>
      /\ count \in Nat /\ count' \in Nat /\ count <= count'
  BY <1>1, <1>2, <1>6, <1>7, ReportsCounted DEF IInv, CountInv
<1>9. CountInv'
  <2>1. old' \in 0..count'
    BY <1>1, <1>8 DEF IInv, CountInv
  <2> QED
    BY <1>1, <1>8, <2>1 DEF CountInv, NextFile, Busy
<1>10. TodoInv'
  BY <1>1, LeftBehind DEF IInv, Busy
<1>11. InputInv' /\ LogInv' /\ LookInv'
  BY <1>1, <1>4, LeavesLog DEF Busy
<1>12. UsedInv'
  BY <1>1, LeavesUsed DEF Busy
<1>13. SaidInv'
  <2>1. File.readable /\ ~Excluded(File.path)
    BY <1>1 DEF IInv, LookInv
  <2>2. count' = Cardinality(log')
    BY <1>8 DEF CountsAgree
  <2>3. {e \in log' : e.file # Number} = {e \in log : e.file # Number}
    BY <1>4, <1>5
  <2>4. old = Cardinality({e \in log' : e.file # Number})
    BY <1>1, <2>3 DEF IInv, CountInv, Busy
  <2>5. old # count' <=> \E e \in log' : e.file = Number
    BY <1>8, <2>2, <2>4, CountedSince
  <2>6. old # count' => log' # {}
    BY <2>5
  <2> QED
    BY <1>1, <1>4, <2>1, <2>5, <2>6, LeavesSaid DEF Busy
<1> QED
  BY <1>9, <1>10, <1>11, <1>12, <1>13 DEF IInv

(* The total keeps IInv.                                                   *)
LEMMA FinishKeeps == ASSUME IInv, Finish PROVE IInv'
<1>1. /\ pc = "file" /\ pc' = "end" /\ todo = <<>>
      /\ exit' \in {0, 1} /\ (exit' = 0 => ~(count > 0))
      /\ UNCHANGED <<inputs, todo, stats, used, state, old>>
      /\ \/ said' = said
         \/ said' = Append(said, Total) /\ (~state.quiet \/ count > 0)
  <2>1. pc = "file" /\ todo = <<>> /\ UNCHANGED <<inputs, todo, stats, used, state, old>>
    BY DEF Finish
  <2>2. pc' = "end" /\ exit' = IF count > 0 THEN 1 ELSE 0
    BY DEF Finish, Quits
  <2>3. \/ said' = said
        \/ said' = Append(said, Total) /\ (~state.quiet \/ count > 0)
    BY DEF Finish
  <2> QED
    BY <2>1, <2>2, <2>3
<1>2. /\ cmd' = cmd /\ tree' = tree /\ disk' = disk /\ todo' = todo
      /\ log' = log /\ used' = used /\ count' = count /\ counts' = counts
  BY <1>1 DEF inputs, stats
<1>3. Number' = Number /\ Done' = Done /\ Total' = Total
  BY <1>2 DEF Number, Done, Total
<1>4. InputInv' /\ TodoInv'
  BY <1>1, <1>2, <1>3 DEF IInv, InputInv, TodoInv, Busy, Running
<1>5. LogInv' /\ LookInv'
  BY <1>1, <1>2, <1>3 DEF IInv, LogInv, LookInv
<1>6. IsFiniteSet(log) /\ count = Cardinality(log)
  BY DEF IInv, CountInv, CountsAgree
<1>7. count \in Nat /\ (count > 0 <=> log # {})
  <2>1. count \in Nat
    BY <1>6, FS_CardinalityType
  <2> QED
    BY <1>6, <2>1, FS_EmptySet
<1>8. CountInv'
  <2>1. exit' = 0 => log = {}
    BY <1>1, <1>7
  <2> QED
    BY <1>1, <1>2, <2>1 DEF IInv, CountInv, CountsAgree, Busy
<1>9. UsedInv'
  <2>1. Included'
    BY <1>1, <1>3, SameExclusions DEF IInv, UsedInv, Included
  <2> QED
    BY <1>1, <1>2, <1>3, <2>1 DEF IInv, UsedInv
<1>10. SaidInv'
  <2>1. Total \notin Done
    <3>1. Len(cmd.files) \in Nat /\ Len(todo) = 0
      BY <1>1, LenProperties DEF IInv, InputInv
    <3> QED
      BY <3>1 DEF Total, Done, Number
  <2>2. \A n \in Range(said) : n \in Done
    BY <1>1 DEF IInv, SaidInv
  <2>3. said \in Seq(Range(said))
    BY DEF IInv, SaidInv
  <2>4. /\ said' \in Seq(Range(said'))
        /\ Range(said') = Range(said) \/ Range(said') = Range(said) \cup {Total}
    <3>1. /\ Append(said, Total) \in Seq(Range(Append(said, Total)))
          /\ Range(Append(said, Total)) = Range(said) \cup {Total}
      BY <2>3, AppendRange
    <3>2. CASE said' = said
      BY <2>3, <3>2
    <3>3. CASE said' = Append(said, Total)
      BY <3>1, <3>3
    <3> QED
      BY <1>1, <3>2, <3>3
  <2>5. \A k \in Done : k \in Range(said') <=> k \in Range(said)
    BY <2>1, <2>4
  <2>6. state.quiet /\ log = {} => said' = <<>>
    BY <1>1, <1>7 DEF IInv, SaidInv, QuietIsQuiet
  <2>7. QuietIsQuiet'
    BY <1>1, <1>2, <1>3, <2>5, <2>6, SameExclusions DEF IInv, SaidInv, QuietIsQuiet
  <2> QED
    BY <1>1, <1>3, <2>2, <2>4, <2>7 DEF SaidInv
<1> QED
  BY <1>4, <1>5, <1>8, <1>9, <1>10 DEF IInv

(* So does a step that changes nothing.                                    *)
LEMMA StutterKeeps == ASSUME IInv, UNCHANGED vars PROVE IInv'
<1>1. /\ pc' = pc /\ cmd' = cmd /\ tree' = tree /\ disk' = disk /\ state' = state
      /\ todo' = todo /\ row' = row /\ at' = at /\ keep' = keep /\ line' = line /\ old' = old
      /\ count' = count /\ counts' = counts /\ log' = log /\ used' = used /\ said' = said
      /\ exit' = exit
  BY DEF vars, inputs, stats, config
<1>2. Number' = Number /\ Done' = Done /\ Total' = Total /\ File' = File
  BY <1>1 DEF Number, Done, Total, File
<1>3. UNCHANGED inputs
  BY <1>1 DEF inputs
<1>4. InputInv' /\ TodoInv' /\ LogInv'
  BY <1>1, <1>2 DEF IInv, InputInv, TodoInv, LogInv
<1>5. CountInv'
  BY <1>1, <1>2 DEF IInv, CountInv, CountsAgree
<1>6. LookInv'
  BY <1>1, <1>2, <1>3, SameExclusions
  DEF IInv, LookInv, Searched, Reading, ExcludedIn, ExcludedBy, Blocks, Has, Settings, Opens,
      Excluded, Ruling
<1>7. UsedInv'
  BY <1>1, <1>2, <1>3, SameExclusions DEF IInv, UsedInv, Included
<1>8. SaidInv'
  BY <1>1, <1>2, <1>3, SameExclusions DEF IInv, SaidInv, QuietIsQuiet
<1> QED
  BY <1>4, <1>5, <1>6, <1>7, <1>8 DEF IInv
-----------------------------------------------------------------------------
(* The invariant holds in every state of every run of cpplint.              *)
THEOREM Invariance == Spec => []IInv
<1>1. IInv /\ [Next]_vars => IInv'
  <2> SUFFICES ASSUME IInv, [Next]_vars PROVE IInv'
    OBVIOUS
  <2>1. CASE TakeOption
    BY <2>1, OptionsKeep
  <2>2. CASE ParseArguments
    BY <2>2, ParseKeeps
  <2>3. CASE BeginFile
    BY <2>3, BeginKeeps
  <2>4. CASE LookUp \/ TakeSetting \/ CloseConfig
    BY <2>4, SearchKeeps
  <2>5. CASE Exclude \/ Unreadable \/ Ignored
    BY <2>5, LeaveKeeps
  <2>6. CASE ApplyFilters
    BY <2>6, ApplyKeeps
  <2>7. CASE StartFile
    BY <2>7, StartKeeps
  <2>8. CASE ProcessLine
    BY <2>8, LineKeeps
  <2>9. CASE FinishFile
    BY <2>9, FinishFileKeeps
  <2>10. CASE Finish
    BY <2>10, FinishKeeps
  <2>11. CASE UNCHANGED vars
    BY <2>11, StutterKeeps
  <2> QED
    BY <2>1, <2>2, <2>3, <2>4, <2>5, <2>6, <2>7, <2>8, <2>9, <2>10, <2>11 DEF Next
<1> QED
  BY <1>1, Initially, PTL DEF Spec

(* The variables have their types: errors are never uncounted again, and    *)
(* the program has a status exactly when it has ended.                      *)
THEOREM TypeCorrect == Spec => []TypeOK
<1>1. IInv => TypeOK
  <2> SUFFICES ASSUME IInv PROVE TypeOK
    OBVIOUS
  <2>1. IsFiniteSet(log) /\ count = Cardinality(log) /\ count \in Nat
    BY FS_CardinalityType DEF IInv, CountInv, CountsAgree
  <2>2. old \in 0..count /\ TodoInv
    BY DEF IInv, CountInv
  <2> QED
    BY <2>1, <2>2 DEF TodoInv, Busy, TypeOK
<1> QED
  BY <1>1, Invariance, PTL

(* Every error that is printed is counted, once, in the total and under its *)
(* category, and status 0 means that none was.                              *)
THEOREM CountsAreRight == Spec => []CountsAgree
<1>1. IInv => CountsAgree
  BY DEF IInv, CountInv
<1> QED
  BY <1>1, Invariance, PTL

(* "Done processing" is printed of the files it should be printed of.       *)
THEOREM QuietRunsAreQuiet == Spec => []QuietIsQuiet
<1>1. IInv => QuietIsQuiet
  BY DEF IInv, SaidInv
<1> QED
  BY <1>1, Invariance, PTL
-----------------------------------------------------------------------------
(* The filters of one file are no other's: those of the command line are    *)
(* backed up when the first file begins, that backup never changes, and     *)
(* they are as in it whenever the next file may begin.                      *)
FiltersInv == pc = "file" /\ Number # 1 => filters = backup
OneBackup == [][Number # 1 => backup' = backup]_vars

(* Filters are backed up when a file begins and put back when it ends.     *)
LEMMA FiltersKeep ==
  ASSUME IInv, FiltersInv, [Next]_vars
  PROVE  FiltersInv' /\ (Number # 1 => backup' = backup)
<1>1. CASE TakeOption
  <2>1. pc = "args" /\ pc' \in {"args", "end"} /\ backup' = backup
    <3>1. pc = "args" /\ UNCHANGED backup
      BY <1>1 DEF TakeOption
    <3>2. \/ Quits(IF Lists(cmd.options[row]) THEN 0 ELSE 1)
          \/ UNCHANGED <<pc, exit>>
      BY <1>1, Zenon DEF TakeOption
    <3>3. \A status : Quits(status) => pc' = "end"
      BY DEF Quits
    <3> QED
      BY <3>1, <3>2, <3>3
  <2> QED
    BY <2>1 DEF FiltersInv
<1>2. CASE ParseArguments
  <2>1. pc = "args" /\ UNCHANGED <<inputs, todo, backup>>
    BY <1>2 DEF ParseArguments
  <2>2. Number' = Number
    BY <2>1 DEF Number, inputs
  <2>3. Number = 1
    BY <2>1, NothingYet
  <2> QED
    BY <2>1, <2>2, <2>3 DEF FiltersInv
<1>3. CASE BeginFile
  <2>1. pc = "file" /\ pc' = "config" /\ backup' = filters
    BY <1>3 DEF BeginFile
  <2> QED
    BY <2>1 DEF FiltersInv
<1>4. CASE LookUp \/ TakeSetting \/ CloseConfig \/ ApplyFilters \/ StartFile \/ ProcessLine \/ Finish
  <2>1. pc' # "file" /\ backup' = backup
    BY <1>4 DEF LookUp, TakeSetting, CloseConfig, ApplyFilters, StartFile, ProcessLine, Finish,
                Quits
  <2> QED
    BY <2>1 DEF FiltersInv
<1>5. CASE Exclude \/ Unreadable \/ Ignored \/ FinishFile
  <2>1. filters' = backup /\ backup' = backup
    BY <1>5 DEF Exclude, Unreadable, Ignored, FinishFile, Restored
  <2> QED
    BY <2>1 DEF FiltersInv
<1>6. CASE UNCHANGED vars
  BY <1>6 DEF vars, inputs, FiltersInv, Number
<1> QED
  BY <1>1, <1>2, <1>3, <1>4, <1>5, <1>6 DEF Next

(* Whichever way a file is left, RestoreFilters has been called, so each   *)
(* file begins with the filters of the command line.                       *)
THEOREM FiltersAreRestored == Spec => []FiltersInv /\ OneBackup
<1>1. Init => FiltersInv
  BY DEF Init, FiltersInv
<1>2. IInv /\ FiltersInv /\ [Next]_vars => FiltersInv'
  BY FiltersKeep
<1>3. IInv /\ FiltersInv /\ [Next]_vars => [Number # 1 => backup' = backup]_vars
  BY FiltersKeep
<1>4. Spec => []FiltersInv
  BY <1>1, <1>2, Invariance, PTL DEF Spec
<1> QED
  BY <1>3, <1>4, Invariance, PTL DEF Spec, OneBackup
-----------------------------------------------------------------------------
(* That the nearest configuration decides and that a report is of its own   *)
(* file alone is about filters and NOLINT comments.                         *)

(* The --filter options before the n-th option.                             *)
GivenBefore(n) ==
  LET given == {i \in 1..(n - 1) : cmd.options[i].name = "filter"}
  IN  IF given = {} THEN <<>> ELSE cmd.options[Max(given)].val

(* The filters of the command line, as each file begins with them.          *)
Base == DefaultFilters \o GivenFilters

BaseInv ==
  /\ AreSettings(cmd.options)
  /\ pc = "args" => /\ row \in 1..(Len(cmd.options) + 1)
                    /\ filters = DefaultFilters \o GivenBefore(row)
  /\ pc \in {"file", "config", "settings"} => filters = Base
  /\ pc \in Busy => backup = Base

(* Before line r of the configuration above the n-th part of a path was     *)
(* read, line i of the j-th was.                                            *)
Before(j, i, n, r) == j >= n \/ (j = n - 1 /\ i < r)

(* No list stronger than line i of the j-th configuration says anything.    *)
Strongest(path, j, i, c) ==
  \A m \in Above(path) : \A l \in FilterLines(Up(path, m), c) :
    m < j \/ (m = j /\ i <= l)

(* What was gathered says of a category what the strongest list says that   *)
(* was read so far.                                                         *)
Gathered(path, n, r, c) ==
  \/ /\ \A j \in Above(path) : \A i \in FilterLines(Up(path, j), c) : ~Before(j, i, n, r)
     /\ \A k \in DOMAIN found : ~Says(found[k], c)
  \/ \E j \in Above(path) : \E i \in FilterLines(Up(path, j), c) :
       /\ Before(j, i, n, r) /\ Strongest(path, j, i, c)
       /\ \E k \in DOMAIN found :
            /\ found[k] = Settings(Up(path, j))[i].val
            /\ \A m \in DOMAIN found : m < k => ~Says(found[m], c)

FoundInv ==
  /\ pc \in {"config", "settings"} =>
       /\ found \in Seq(Range(found))
       /\ \A k \in DOMAIN found : found[k] \in Seq(Range(found[k]))
  /\ pc = "config" =>
       \A path \in {File.path}, n \in {Len(at)}, c \in Categories : Gathered(path, n, 0, c)
  /\ pc = "settings" =>
       \A path \in {File.path}, n \in {Len(at)}, r \in {row}, c \in Categories :
         Gathered(path, n, r, c)

OffInv ==
  pc \in {"read", "lines"} =>
    \A path \in {File.path}, fs \in {filters}, c \in Categories :
      Filtered(fs, c) <=> Off(path, c)

(* The suppressions are the marks of the file and the comments in lines N.  *)
NamedIn(f, N) ==
  {m \in N : NoteOf(f, m).in /\ NoteOf(f, m).what \in Categories \cup {All}}

Hushes(s, f, N) ==
  s = [lines |-> {<<NoteOf(f, m).what, IF NoteOf(f, m).next THEN m + 1 ELSE m>> :
                    m \in NamedIn(f, N)},
       file |-> Marks(f)]

(* The lines whose comments are parsed before the first line is processed.  *)
EarlyLines(f, u) ==
  IF f.ext \notin u.headers \/ GuardExcused(f) \/ f.guard.ifndef = 0 THEN {}
  ELSE IfndefLine(f, u) \cup {f.guard.endif}

SuppInv ==
  pc = "lines" => Hushes(supp, File, EarlyLines(File, opt) \cup 1..(line - 1))

(* What is to be printed of a file before its l-th line.                    *)
ShownBefore(f, u, l) ==
  OpeningShown(f, u) \cup Heard(f, LineFindings(f, u, 1..(l - 1)), DOMAIN f.lines)

(* Of the file that is being checked, that is what was printed.             *)
OwnLog ==
  pc = "lines" =>
    /\ \A u \in Range(used) : u.file = Number => u.opt = opt
    /\ {e \in log : e.file = Number} = Logged(Number, ShownBefore(File, opt, line))

OwnInv ==
  IInv /\ BaseInv /\ FoundInv /\ OffInv /\ SuppInv /\ OwnLog /\ ReportsAreOwn
-----------------------------------------------------------------------------
(* A nonempty set of natural numbers has a least, and one that is bounded   *)
(* a greatest, which is its Max.                                            *)
LEMMA Least ==
  ASSUME NEW T \in SUBSET Nat, T # {}
  PROVE  \E n \in T : \A m \in T : n <= m
<1> DEFINE R == {ss \in Nat \X Nat : ss[1] < ss[2]}
<1>1. IsWellFoundedOn(R, Nat)
  BY NatLessThanWellFounded DEF OpToRel
<1>2. PICK n \in T : \A m \in T : <<m, n>> \notin R
  <2> HIDE DEF R
  <2> QED
    BY <1>1, WFMin
<1>3. ASSUME NEW m \in T PROVE n <= m
  <2>1. <<m, n>> \in Nat \X Nat /\ <<m, n>>[1] = m /\ <<m, n>>[2] = n
    OBVIOUS
  <2>2. ~(m < n)
    BY <1>2, <2>1
  <2> QED
    BY <2>2
<1> QED
  BY <1>3

LEMMA MaxIs ==
  ASSUME NEW S \in SUBSET Int, NEW x \in S, \A y \in S : y <= x
  PROVE  Max(S) = x
<1>1. \A y \in S : x >= y
  OBVIOUS
<1>2. \A z \in S : (\A y \in S : z >= y) => z = x
  OBVIOUS
<1> QED
  BY <1>1, <1>2 DEF Max

LEMMA Greatest ==
  ASSUME NEW n \in Nat, NEW S \in SUBSET (1..n), S # {}
  PROVE  Max(S) \in S /\ \A y \in S : y <= Max(S)
<1> DEFINE T == {m \in 0..n : n - m \in S}
<1>1. \A y \in S : n - y \in T
  OBVIOUS
<1>2. T \in SUBSET Nat /\ T # {}
  <2>1. T \in SUBSET Nat
    OBVIOUS
  <2>2. PICK y \in S : TRUE
    OBVIOUS
  <2> HIDE DEF T
  <2> QED
    BY <1>1, <2>1, <2>2
<1>3. PICK t \in T : \A m \in T : t <= m
  BY <1>2, Least
<1>4. n - t \in S /\ \A y \in S : y <= n - t
  <2>1. n - t \in S /\ t \in 0..n
    OBVIOUS
  <2>2. \A y \in S : t <= n - y /\ y \in 1..n
    BY <1>1, <1>3
  <2> QED
    BY <2>1, <2>2
<1>5. S \in SUBSET Int
  OBVIOUS
<1> HIDE DEF T
<1> QED
  BY <1>4, <1>5, MaxIs
-----------------------------------------------------------------------------
(* Of the filters that match, the last decides.                             *)
LEMMA LastDecides ==
  ASSUME NEW fs, fs \in Seq(Range(fs)), NEW c
  PROVE  Filtered(fs, c) = TurnsOff(fs, c)
<1> DEFINE D == DOMAIN fs
           M(i) == IsPrefix(fs[i].of, c)
           N(i) == fs[i].on = "-"
           Kept(S) == \E i \in S : N(i) /\ M(i) /\ \A j \in S : j > i => ~M(j)
           Steps(h) == h = [S \in SUBSET D |->
                              IF S = {} THEN FALSE
                              ELSE LET x == Max(S) IN IF M(x) THEN N(x) ELSE h[S \ {x}]]
           iter == CHOOSE h : Steps(h)
<1>1. Filtered(fs, c) = iter[D]
  BY Zenon DEF Filtered, FoldLeft, MapThenFoldSet
<1>2. D = 1..Len(fs) /\ Len(fs) \in Nat
  BY LenProperties
<1>3. Steps([S \in SUBSET D |-> Kept(S)])
  <2> DEFINE H == [S \in SUBSET D |-> Kept(S)]
  <2>1. ASSUME NEW S \in SUBSET D, S # {}
        PROVE  Kept(S) = IF M(Max(S)) THEN N(Max(S)) ELSE H[S \ {Max(S)}]
    <3>1. Max(S) \in S /\ \A y \in S : y <= Max(S)
      BY <1>2, <2>1, Greatest
    <3>2. H[S \ {Max(S)}] = Kept(S \ {Max(S)})
      OBVIOUS
    <3> DEFINE x == Max(S)
    <3>3. S \in SUBSET Int /\ x \in S /\ \A y \in S : y <= x
      BY <1>2, <3>1
    <3> HIDE DEF x, M, N, H, D
    <3>4. Kept(S) = IF M(x) THEN N(x) ELSE Kept(S \ {x})
      <4>1. CASE M(x)
        <5>1. Kept(S) => N(x)
          <6> SUFFICES ASSUME NEW i \in S, N(i) /\ M(i), \A j \in S : j > i => ~M(j)
                       PROVE  N(x)
            OBVIOUS
          <6>1. ~(x > i) /\ i <= x
            BY <3>3, <4>1
          <6>2. i = x
            BY <6>1, <3>3
          <6> QED
            BY <6>2
        <5>2. N(x) => Kept(S)
          <6>1. \A j \in S : ~(j > x)
            BY <3>3
          <6> QED
            BY <6>1, <3>3, <4>1
        <5>3. N(x) \in BOOLEAN
          BY DEF N
        <5> QED
          BY <4>1, <5>1, <5>2, <5>3
      <4>2. CASE ~M(x)
        BY <3>3, <4>2
      <4> QED
        BY <4>1, <4>2
    <3> QED
      BY <3>2, <3>4 DEF x
  <2>2. Kept({}) = FALSE
    OBVIOUS
  <2>3. \A S \in SUBSET D : H[S] = IF S = {} THEN FALSE
                              ELSE LET x == Max(S) IN IF M(x) THEN N(x) ELSE H[S \ {x}]
    <3> HIDE DEF M, N
    <3> QED
      BY <2>1, <2>2
  <2> HIDE DEF D, M, N
  <2> QED
    BY <2>3
<1>4. Steps(iter)
  <2> HIDE DEF Steps
  <2> QED
    BY <1>3
<1>5. /\ iter[{}] = FALSE
      /\ \A S \in SUBSET D : S # {} =>
           iter[S] = IF M(Max(S)) THEN N(Max(S)) ELSE iter[S \ {Max(S)}]
  <2> HIDE DEF iter, D, M, N
  <2> QED
    BY <1>4
<1> HIDE DEF iter, M, N
<1>6. \A n \in 0..Len(fs) : iter[1..n] = Kept(1..n)
  <2> DEFINE T == {n \in 0..Len(fs) : iter[1..n] # Kept(1..n)}
  <2> SUFFICES ASSUME T # {} PROVE FALSE
    OBVIOUS
  <2>1. T \in SUBSET Nat
    <3>1. 0..Len(fs) \in SUBSET Nat
      BY <1>2
    <3> QED
      BY <3>1
  <2>2. PICK n \in T : \A m \in T : n <= m
    BY <2>1, Least
  <2>3. CASE n = 0
    <3>1. 1..n = {}
      BY <2>3
    <3> QED
      BY <3>1, <1>5
  <2>4. CASE n # 0
    <3>1. n - 1 \in 0..Len(fs) /\ n - 1 \notin T
      <4>1. n \in 0..Len(fs)
        OBVIOUS
      <4>2. n - 1 \in 0..Len(fs) /\ ~(n <= n - 1)
        BY <4>1, <1>2, <2>4
      <4> QED
        BY <4>2, <2>2
    <3>2. 1..n \in SUBSET D /\ 1..n # {} /\ n \in 1..n /\ n \in 1..Len(fs)
      <4>1. n \in 0..Len(fs)
        OBVIOUS
      <4>2. n \in 1..n /\ n \in 1..Len(fs) /\ \A i \in 1..n : i \in 1..Len(fs)
        BY <4>1, <1>2, <2>4
      <4> QED
        BY <4>2, <1>2
    <3>3. Max(1..n) = n
      <4>1. 1..n \in SUBSET Int /\ \A y \in 1..n : y <= n
        BY <1>2
      <4> QED
        BY <3>2, <4>1, MaxIs
    <3>4. (1..n) \ {n} = 1..(n - 1)
      BY <1>2
    <3>5. iter[1..n] = IF M(n) THEN N(n) ELSE Kept(1..(n - 1))
      BY <1>5, <3>1, <3>2, <3>3, <3>4
    <3>6. Kept(1..n) = IF M(n) THEN N(n) ELSE Kept(1..(n - 1))
      <4>1. \A j \in 1..n : j \in 1..(n - 1) \/ j = n
        BY <1>2
      <4>2. \A j \in 1..(n - 1) : j \in 1..n /\ n > j /\ ~(j > n)
        BY <1>2
      <4>3. N(n) \in BOOLEAN
        BY DEF N
      <4>4. \A j \in 1..n : ~(j > n)
        BY <1>2
      <4>5. CASE M(n)
        <5>1. Kept(1..n) <=> N(n)
          BY <4>1, <4>2, <4>4, <4>5, <3>2
        <5> QED
          BY <4>3, <4>5, <5>1
      <4>6. CASE ~M(n)
        <5>1. Kept(1..n) <=> Kept(1..(n - 1))
          BY <4>1, <4>2, <4>6
        <5> QED
          BY <4>6, <5>1
      <4> QED
        BY <4>5, <4>6
    <3> QED
      BY <3>5, <3>6
  <2> QED
    BY <2>3, <2>4
<1>7. iter[D] = Kept(D)
  <2>1. Len(fs) \in 0..Len(fs)
    BY <1>2
  <2>2. iter[1..Len(fs)] = Kept(1..Len(fs))
    BY <2>1, <1>6
  <2> QED
    BY <1>2, <2>2
<1>8. Kept(D) = TurnsOff(fs, c)
  BY DEF TurnsOff, M, N
<1> QED
  BY <1>1, <1>7, <1>8
(* Two lists in a row: the second has the last word where it says anything. *)
LEMMA Joined ==
  ASSUME NEW a, a \in Seq(Range(a)), NEW b, b \in Seq(Range(b)), NEW c
  PROVE  /\ a \o b \in Seq(Range(a \o b))
         /\ Says(a \o b, c) <=> Says(a, c) \/ Says(b, c)
         /\ TurnsOff(a \o b, c) <=> IF Says(b, c) THEN TurnsOff(b, c) ELSE TurnsOff(a, c)
<1> DEFINE S == Range(a) \cup Range(b)
           t == a \o b
           M(s, i) == IsPrefix(s[i].of, c)
           N(s, i) == s[i].on = "-"
<1>1. a \in Seq(S) /\ b \in Seq(S)
  BY SeqMonotonic
<1>2. /\ t \in Seq(S) /\ Len(t) = Len(a) + Len(b)
      /\ Len(a) \in Nat /\ Len(b) \in Nat
      /\ DOMAIN a = 1..Len(a) /\ DOMAIN b = 1..Len(b) /\ DOMAIN t = 1..(Len(a) + Len(b))
  <2> HIDE DEF S
  <2>1. t \in Seq(S) /\ Len(t) = Len(a) + Len(b)
    BY <1>1, ConcatProperties
  <2> HIDE DEF t
  <2> QED
    BY <1>1, <2>1, LenProperties
<1>3. \A i \in DOMAIN t : t[i] = IF i <= Len(a) THEN a[i] ELSE b[i - Len(a)]
  BY <1>1, <1>2, ConcatProperties
<1>4. t \in Seq(Range(t))
  <2>1. t = [i \in DOMAIN t |-> t[i]]
    BY <1>2, LenProperties
  <2>2. \A i \in DOMAIN t : t[i] \in Range(t)
    BY DEF Range
  <2> HIDE DEF t
  <2>3. t \in [1..Len(t) -> Range(t)] /\ Len(t) \in Nat
    BY <2>1, <2>2, <1>2
  <2> QED
    BY <2>3
<1>5. /\ \A i \in DOMAIN a : i \in DOMAIN t /\ t[i] = a[i]
      /\ \A i \in DOMAIN b : i + Len(a) \in DOMAIN t /\ t[i + Len(a)] = b[i]
      /\ \A i \in DOMAIN t : i \in DOMAIN a \/ i - Len(a) \in DOMAIN b
      /\ \A i \in DOMAIN a, j \in DOMAIN b : j + Len(a) > i
  <2> HIDE DEF t
  <2>1. \A i \in DOMAIN a : i \in DOMAIN t /\ i <= Len(a)
    BY <1>2
  <2>2. \A i \in DOMAIN b : i + Len(a) \in DOMAIN t /\ ~(i + Len(a) <= Len(a))
                            /\ (i + Len(a)) - Len(a) = i
    BY <1>2
  <2>3. \A i \in DOMAIN t : i \in DOMAIN a \/ i - Len(a) \in DOMAIN b
    BY <1>2
  <2>4. \A i \in DOMAIN a, j \in DOMAIN b : j + Len(a) > i
    BY <1>2
  <2> QED
    BY <2>1, <2>2, <2>3, <2>4, <1>3
<1> HIDE DEF t
<1>6. \A i \in DOMAIN t : i \in DOMAIN a \/ \E j \in DOMAIN b : i = j + Len(a)
  BY <1>2, <1>5
<1>7. Says(t, c) <=> Says(a, c) \/ Says(b, c)
  <2>1. Says(t, c) => Says(a, c) \/ Says(b, c)
    BY <1>5, <1>6 DEF Says
  <2>2. Says(a, c) => Says(t, c)
    BY <1>5 DEF Says
  <2>3. Says(b, c) => Says(t, c)
    BY <1>5 DEF Says
  <2> QED
    BY <2>1, <2>2, <2>3
<1>8. TurnsOff(t, c) <=> \E i \in DOMAIN t : N(t, i) /\ M(t, i)
                           /\ \A j \in DOMAIN t : j > i => ~M(t, j)
  BY DEF TurnsOff
<1>9. /\ TurnsOff(a, c) <=> \E i \in DOMAIN a : N(a, i) /\ M(a, i)
                           /\ \A j \in DOMAIN a : j > i => ~M(a, j)
      /\ TurnsOff(b, c) <=> \E i \in DOMAIN b : N(b, i) /\ M(b, i)
                           /\ \A j \in DOMAIN b : j > i => ~M(b, j)
      /\ Says(b, c) <=> \E i \in DOMAIN b : M(b, i)
  BY DEF TurnsOff, Says
<1>10. /\ \A i \in DOMAIN a : (N(t, i) <=> N(a, i)) /\ (M(t, i) <=> M(a, i))
       /\ \A i \in DOMAIN b : /\ N(t, i + Len(a)) <=> N(b, i)
                              /\ M(t, i + Len(a)) <=> M(b, i)
  BY <1>5
<1> HIDE DEF M, N
<1>11. ASSUME Says(b, c)
       PROVE  TurnsOff(t, c) <=> TurnsOff(b, c)
  <2>1. PICK k \in DOMAIN b : M(b, k)
    BY <1>9, <1>11
  <2>2. ASSUME TurnsOff(t, c) PROVE TurnsOff(b, c)
    <3>1. PICK i \in DOMAIN t : N(t, i) /\ M(t, i) /\ \A j \in DOMAIN t : j > i => ~M(t, j)
      BY <1>8, <2>2
    <3>2. i \notin DOMAIN a
      <4>1. M(t, k + Len(a)) /\ k + Len(a) \in DOMAIN t
        BY <2>1, <1>5, <1>10
      <4> QED
        BY <3>1, <4>1, <1>5
    <3>3. PICK m \in DOMAIN b : i = m + Len(a)
      BY <3>2, <1>6
    <3>4. \A j \in DOMAIN b : j > m => j + Len(a) > i
      BY <3>3, <1>2
    <3>5. \A j \in DOMAIN b : j > m => ~M(b, j)
      BY <3>1, <3>4, <1>5, <1>10
    <3> QED
      BY <3>1, <3>3, <3>5, <1>9, <1>10
  <2>3. ASSUME TurnsOff(b, c) PROVE TurnsOff(t, c)
    <3>1. PICK m \in DOMAIN b : N(b, m) /\ M(b, m) /\ \A j \in DOMAIN b : j > m => ~M(b, j)
      BY <1>9, <2>3
    <3>2. \A j \in DOMAIN t : j > m + Len(a) => ~M(t, j)
      <4> SUFFICES ASSUME NEW j \in DOMAIN t, j > m + Len(a) PROVE ~M(t, j)
        OBVIOUS
      <4>1. j \notin DOMAIN a
        BY <1>2
      <4>2. PICK l \in DOMAIN b : j = l + Len(a)
        BY <4>1, <1>6
      <4>3. l > m
        BY <4>2, <1>2
      <4> QED
        BY <3>1, <4>2, <4>3, <1>10
    <3> QED
      BY <3>1, <3>2, <1>5, <1>8, <1>10
  <2> QED
    BY <2>2, <2>3
<1>12. ASSUME ~Says(b, c)
       PROVE  TurnsOff(t, c) <=> TurnsOff(a, c)
  <2>1. \A i \in DOMAIN b : ~M(b, i) /\ ~M(t, i + Len(a))
    BY <1>9, <1>10, <1>12
  <2>2. ASSUME TurnsOff(t, c) PROVE TurnsOff(a, c)
    <3>1. PICK i \in DOMAIN t : N(t, i) /\ M(t, i) /\ \A j \in DOMAIN t : j > i => ~M(t, j)
      BY <1>8, <2>2
    <3>2. i \in DOMAIN a
      BY <3>1, <2>1, <1>6
    <3> QED
      BY <3>1, <3>2, <1>5, <1>9, <1>10
  <2>3. ASSUME TurnsOff(a, c) PROVE TurnsOff(t, c)
    <3>1. PICK m \in DOMAIN a : N(a, m) /\ M(a, m) /\ \A j \in DOMAIN a : j > m => ~M(a, j)
      BY <1>9, <2>3
    <3>2. \A j \in DOMAIN t : j > m => ~M(t, j)
      BY <3>1, <2>1, <1>6, <1>10
    <3> QED
      BY <3>1, <3>2, <1>5, <1>8, <1>10
  <2> QED
    BY <2>2, <2>3
<1> QED
  BY <1>4, <1>7, <1>11, <1>12 DEF t
-----------------------------------------------------------------------------
(* FlattenSeq joins one list after the other.                               *)
LEMMA Flattening ==
  ASSUME NEW s, s \in Seq(Range(s)), Len(s) # 0
  PROVE  \E g : /\ FlattenSeq(s) = g[Len(s)] /\ g[1] = s[1]
                /\ \A i \in 2..Len(s) : g[i] = g[i - 1] \o s[i]
<1> DEFINE Ok(n, g) == g = [i \in 1..n |-> IF i = 1 THEN s[i] ELSE g[i - 1] \o s[i]]
           T == {n \in 0..Len(s) : ~\E g : Ok(n, g)}
           flatten == CHOOSE g : Ok(Len(s), g)
<1>1. Len(s) \in Nat \ {0}
  BY LenProperties
<1>2. FlattenSeq(s) = flatten[Len(s)]
  BY Zenon, <1>1 DEF FlattenSeq
<1>3. T = {}
  <2> SUFFICES ASSUME T # {} PROVE FALSE
    OBVIOUS
  <2>1. T \in SUBSET Nat
    <3>1. 0..Len(s) \in SUBSET Nat
      BY <1>1
    <3> QED
      BY <3>1
  <2>2. PICK n \in T : \A m \in T : n <= m
    BY <2>1, Least
  <2>3. n \in 0..Len(s) /\ ~\E g : Ok(n, g)
    OBVIOUS
  <2>4. CASE n = 0
    <3> DEFINE g == [i \in 1..0 |-> 0]
    <3>1. Ok(0, g)
      OBVIOUS
    <3> HIDE DEF g, Ok
    <3> QED
      BY <2>3, <2>4, <3>1
  <2>5. CASE n # 0
    <3>1. n \in Nat \ {0} /\ n - 1 \in 0..Len(s) /\ ~(n <= n - 1)
      BY <1>1, <2>3, <2>5
    <3>2. PICK g : Ok(n - 1, g)
      BY <2>2, <3>1
    <3> DEFINE new == IF n = 1 THEN s[n] ELSE g[n - 1] \o s[n]
               h == [i \in 1..n |-> IF i = n THEN new ELSE g[i]]
    <3>3. h[n] = new
      BY <3>1
    <3>4. ASSUME NEW i \in 1..n
          PROVE  h[i] = IF i = 1 THEN s[i] ELSE h[i - 1] \o s[i]
      <4>1. CASE i = n
        <5>1. n # 1 => h[n - 1] = g[n - 1]
          BY <3>1
        <5> QED
          BY <4>1, <5>1, <3>3
      <4>2. CASE i # n
        <5>1. i \in 1..(n - 1) /\ h[i] = g[i]
          BY <3>1, <4>2
        <5>2. i # 1 => i - 1 \in 1..n /\ i - 1 # n
          BY <3>1, <5>1
        <5>3. i # 1 => h[i - 1] = g[i - 1]
          BY <5>2
        <5>4. g[i] = IF i = 1 THEN s[i] ELSE g[i - 1] \o s[i]
          BY <3>2, <5>1
        <5> QED
          BY <5>1, <5>3, <5>4
      <4> QED
        BY <4>1, <4>2
    <3>5. Ok(n, h)
      <4>1. h = [i \in 1..n |-> h[i]]
        OBVIOUS
      <4> HIDE DEF h
      <4> QED
        BY <3>4, <4>1
    <3> HIDE DEF h, Ok
    <3> QED
      BY <2>3, <3>5
  <2> QED
    BY <2>4, <2>5
<1>4. \E g : Ok(Len(s), g)
  <2>1. Len(s) \in 0..Len(s)
    BY <1>1
  <2> HIDE DEF Ok
  <2> QED
    BY <1>3, <2>1
<1>5. Ok(Len(s), flatten)
  <2> HIDE DEF Ok
  <2> QED
    BY <1>4
<1> HIDE DEF flatten
<1>6. \A i \in 1..Len(s) : flatten[i] = IF i = 1 THEN s[i] ELSE flatten[i - 1] \o s[i]
  BY <1>5
<1>7. flatten[1] = s[1]
  <2>1. 1 \in 1..Len(s)
    BY <1>1
  <2> QED
    BY <1>6, <2>1
<1>8. \A i \in 2..Len(s) : flatten[i] = flatten[i - 1] \o s[i]
  <2>1. \A i \in 2..Len(s) : i \in 1..Len(s) /\ i # 1
    BY <1>1
  <2> QED
    BY <1>6, <2>1
<1> QED
  BY <1>2, <1>7, <1>8

(* The last list that says anything of a category has the last word in all. *)
LEMMA FlatSays ==
  ASSUME NEW s, s \in Seq(Range(s)), NEW c,
         \A k \in DOMAIN s : s[k] \in Seq(Range(s[k]))
  PROVE  /\ FlattenSeq(s) \in Seq(Range(FlattenSeq(s)))
         /\ (\A k \in DOMAIN s : ~Says(s[k], c)) => ~Says(FlattenSeq(s), c)
         /\ \A k \in DOMAIN s :
              Says(s[k], c) /\ (\A l \in DOMAIN s : l > k => ~Says(s[l], c))
              => /\ Says(FlattenSeq(s), c)
                 /\ TurnsOff(FlattenSeq(s), c) <=> TurnsOff(s[k], c)
<1>1. Len(s) \in Nat /\ DOMAIN s = 1..Len(s)
  BY LenProperties
<1>2. CASE Len(s) = 0
  <2>1. FlattenSeq(s) = s /\ DOMAIN s = {}
    BY <1>1, <1>2 DEF FlattenSeq
  <2> QED
    BY <2>1 DEF Says
<1>3. CASE Len(s) # 0
  <2>1. PICK g : /\ FlattenSeq(s) = g[Len(s)] /\ g[1] = s[1]
                 /\ \A i \in 2..Len(s) : g[i] = g[i - 1] \o s[i]
    BY <1>3, Flattening
  <2> DEFINE P(n) ==
               /\ g[n] \in Seq(Range(g[n]))
               /\ (\A k \in 1..n : ~Says(s[k], c)) => ~Says(g[n], c)
               /\ \A k \in 1..n :
                    Says(s[k], c) /\ (\A l \in 1..n : l > k => ~Says(s[l], c))
                    => Says(g[n], c) /\ (TurnsOff(g[n], c) <=> TurnsOff(s[k], c))
             T == {n \in 1..Len(s) : ~P(n)}
  <2>2. P(1)
    <3>1. 1 \in DOMAIN s /\ \A k \in 1..1 : k = 1
      BY <1>1, <1>3
    <3>2. 1 \in 1..1
      OBVIOUS
    <3> QED
      BY <2>1, <3>1, <3>2
  <2>3. ASSUME NEW n \in 2..Len(s), P(n - 1)
        PROVE  P(n)
    <3>1. /\ n \in 1..Len(s) /\ n \in 1..n /\ n - 1 \in Nat
          /\ \A k \in 1..n : k \in 1..(n - 1) \/ k = n
          /\ \A k \in 1..(n - 1) : k \in 1..n /\ n > k
          /\ \A l \in 1..n : ~(l > n)
      BY <1>1
    <3>2. g[n] = g[n - 1] \o s[n] /\ s[n] \in Seq(Range(s[n]))
      BY <1>1, <2>1, <3>1
    <3>3. /\ g[n] \in Seq(Range(g[n]))
          /\ Says(g[n], c) <=> Says(g[n - 1], c) \/ Says(s[n], c)
          /\ TurnsOff(g[n], c) <=> IF Says(s[n], c) THEN TurnsOff(s[n], c)
                                   ELSE TurnsOff(g[n - 1], c)
      BY <2>3, <3>2, Joined
    <3>4. ASSUME \A k \in 1..n : ~Says(s[k], c)
          PROVE  ~Says(g[n], c)
      BY <2>3, <3>1, <3>3, <3>4
    <3>5. ASSUME NEW k \in 1..n, Says(s[k], c), \A l \in 1..n : l > k => ~Says(s[l], c)
          PROVE  Says(g[n], c) /\ (TurnsOff(g[n], c) <=> TurnsOff(s[k], c))
      <4>1. CASE k = n
        BY <3>3, <3>5, <4>1
      <4>2. CASE k # n
        <5>1. k \in 1..(n - 1) /\ ~Says(s[n], c)
          BY <3>1, <3>5, <4>2
        <5>2. \A l \in 1..(n - 1) : l > k => ~Says(s[l], c)
          BY <3>1, <3>5
        <5>3. Says(g[n - 1], c) /\ (TurnsOff(g[n - 1], c) <=> TurnsOff(s[k], c))
          BY <2>3, <3>5, <5>1, <5>2
        <5> QED
          BY <3>3, <5>1, <5>3
      <4> QED
        BY <4>1, <4>2
    <3> QED
      BY <3>3, <3>4, <3>5
  <2> HIDE DEF P
  <2>4. T = {}
    <3> SUFFICES ASSUME T # {} PROVE FALSE
      OBVIOUS
    <3>1. T \in SUBSET Nat
      <4>1. 1..Len(s) \in SUBSET Nat
        BY <1>1
      <4> QED
        BY <4>1
    <3>2. PICK n \in T : \A m \in T : n <= m
      BY <3>1, Least
    <3>3. n \in 1..Len(s) /\ ~P(n)
      OBVIOUS
    <3>4. n \in 2..Len(s) /\ n - 1 \in 1..Len(s) /\ ~(n <= n - 1)
      BY <1>1, <2>2, <3>3
    <3>5. P(n - 1)
      BY <3>2, <3>4
    <3> QED
      BY <2>3, <3>3, <3>4, <3>5
  <2>5. P(Len(s))
    <3>1. Len(s) \in 1..Len(s)
      BY <1>1, <1>3
    <3> QED
      BY <2>4, <3>1
  <2> QED
    BY <1>1, <2>1, <2>5 DEF P
<1> QED
  BY <1>2, <1>3

(* The filters of the configurations, added in reverse: the first that was  *)
(* found and says anything has the last word.                               *)
LEMMA PiledUp ==
  ASSUME found \in Seq(Range(found)), NEW c,
         \A k \in DOMAIN found : found[k] \in Seq(Range(found[k]))
  PROVE  LET all == FlattenSeq(Reverse(found)) IN
         /\ all \in Seq(Range(all))
         /\ (\A k \in DOMAIN found : ~Says(found[k], c)) => ~Says(all, c)
         /\ \A k \in DOMAIN found :
              Says(found[k], c) /\ (\A m \in DOMAIN found : m < k => ~Says(found[m], c))
              => Says(all, c) /\ (TurnsOff(all, c) <=> TurnsOff(found[k], c))
<1> DEFINE s == Reverse(found)
           n == Len(found)
<1>1. n \in Nat /\ DOMAIN found = 1..n
  BY LenProperties
<1>2. /\ s \in Seq(Range(s)) /\ DOMAIN s = 1..n
      /\ \A k \in 1..n : s[k] = found[(n - k) + 1]
  <2>1. s = [i \in 1..n |-> found[(n - i) + 1]]
    BY DEF Reverse
  <2> HIDE DEF s
  <2>2. DOMAIN s = 1..n /\ \A k \in 1..n : s[k] \in Range(s)
    BY <2>1 DEF Range
  <2>3. s \in [1..n -> Range(s)]
    BY <2>1, <2>2
  <2>4. s \in Seq(Range(s))
    BY <1>1, <2>3
  <2> QED
    BY <2>1, <2>2, <2>4
<1>3. \A k \in 1..n : /\ (n - k) + 1 \in 1..n /\ (n - ((n - k) + 1)) + 1 = k
                      /\ \A l \in 1..n : l > (n - k) + 1 => (n - l) + 1 < k
  BY <1>1
<1>4. \A k \in 1..n : found[k] = s[(n - k) + 1]
  BY <1>2, <1>3
<1>5. \A k \in DOMAIN s : s[k] \in Seq(Range(s[k]))
  BY <1>1, <1>2, <1>3
<1> HIDE DEF s, n
<1>6. /\ FlattenSeq(s) \in Seq(Range(FlattenSeq(s)))
      /\ (\A k \in DOMAIN s : ~Says(s[k], c)) => ~Says(FlattenSeq(s), c)
      /\ \A k \in DOMAIN s :
           Says(s[k], c) /\ (\A l \in DOMAIN s : l > k => ~Says(s[l], c))
           => /\ Says(FlattenSeq(s), c)
              /\ TurnsOff(FlattenSeq(s), c) <=> TurnsOff(s[k], c)
  BY <1>2, <1>5, FlatSays
<1>7. ASSUME \A k \in DOMAIN found : ~Says(found[k], c)
      PROVE  ~Says(FlattenSeq(s), c)
  <2>1. ASSUME NEW k \in DOMAIN s PROVE ~Says(s[k], c)
    <3>1. s[k] = found[(n - k) + 1] /\ (n - k) + 1 \in DOMAIN found
      BY <1>1, <1>2, <1>3
    <3> QED
      BY <1>7, <3>1
  <2> QED
    BY <1>6, <2>1
<1>8. ASSUME NEW k \in DOMAIN found, Says(found[k], c),
             \A m \in DOMAIN found : m < k => ~Says(found[m], c)
      PROVE  Says(FlattenSeq(s), c) /\ (TurnsOff(FlattenSeq(s), c) <=> TurnsOff(found[k], c))
  <2> DEFINE j == (n - k) + 1
  <2>1. j \in DOMAIN s /\ s[j] = found[k]
    BY <1>1, <1>2, <1>3, <1>4
  <2>2. \A l \in DOMAIN s : l > j => ~Says(s[l], c)
    <3> SUFFICES ASSUME NEW l \in DOMAIN s, l > j PROVE ~Says(s[l], c)
      OBVIOUS
    <3>1. (n - l) + 1 \in DOMAIN found /\ (n - l) + 1 < k /\ s[l] = found[(n - l) + 1]
      BY <1>1, <1>2, <1>3
    <3> QED
      BY <1>8, <3>1
  <2> HIDE DEF j
  <2> QED
    BY <1>6, <1>8, <2>1, <2>2
<1> QED
  BY <1>6, <1>7, <1>8 DEF s
-----------------------------------------------------------------------------
(* The last of the options before the n-th, one option later.               *)
LEMMA OneOption ==
  ASSUME AreSettings(cmd.options), NEW n \in 1..Len(cmd.options)
  PROVE  GivenBefore(n + 1) = IF cmd.options[n].name = "filter" THEN cmd.options[n].val
                              ELSE GivenBefore(n)
<1> DEFINE G(m) == {i \in 1..(m - 1) : cmd.options[i].name = "filter"}
<1>1. Len(cmd.options) \in Nat
  BY LenProperties DEF AreSettings
<1>2. \A i \in 1..((n + 1) - 1) : i \in 1..(n - 1) \/ i = n
  BY <1>1
<1>3. n \in 1..((n + 1) - 1) /\ \A i \in 1..(n - 1) : i \in 1..((n + 1) - 1)
  BY <1>1
<1>4. CASE cmd.options[n].name = "filter"
  <2>1. G(n + 1) \in SUBSET Int /\ n \in G(n + 1) /\ \A y \in G(n + 1) : y <= n
    BY <1>1, <1>3, <1>4
  <2> HIDE DEF G
  <2>2. Max(G(n + 1)) = n /\ G(n + 1) # {}
    BY <2>1, MaxIs
  <2> QED
    BY <1>4, <2>2 DEF GivenBefore, G
<1>5. CASE cmd.options[n].name # "filter"
  <2>1. G(n + 1) = G(n)
    BY <1>2, <1>3, <1>5
  <2> QED
    BY <1>5, <2>1 DEF GivenBefore
<1> QED
  BY <1>4, <1>5

(* Before the first there is none; after the last it is the one given, and *)
(* a list like all the others.                                              *)
LEMMA AllOptions ==
  ASSUME AreSettings(cmd.options)
  PROVE  /\ GivenBefore(1) = <<>>
         /\ GivenBefore(Len(cmd.options) + 1) = GivenFilters
         /\ GivenFilters \in Seq(Range(GivenFilters))
         /\ Len(cmd.options) \in Nat
<1>1. Len(cmd.options) \in Nat /\ DOMAIN cmd.options = 1..Len(cmd.options)
  BY LenProperties DEF AreSettings
<1>2. GivenBefore(1) = <<>>
  <2>1. {i \in 1..(1 - 1) : cmd.options[i].name = "filter"} = {}
    OBVIOUS
  <2> QED
    BY <2>1 DEF GivenBefore
<1> DEFINE G == {i \in DOMAIN cmd.options : cmd.options[i].name = "filter"}
<1>3. GivenBefore(Len(cmd.options) + 1) = GivenFilters
  <2>1. (Len(cmd.options) + 1) - 1 = Len(cmd.options)
    BY <1>1
  <2> QED
    BY <1>1, <2>1 DEF GivenBefore, GivenFilters
<1>4. GivenFilters \in Seq(Range(GivenFilters))
  <2>1. CASE G = {}
    <3>1. GivenFilters = <<>>
      BY <2>1 DEF GivenFilters
    <3> QED
      BY <3>1, EmptySeq
  <2>2. CASE G # {}
    <3>1. G \in SUBSET (1..Len(cmd.options))
      BY <1>1
    <3>2. Max(G) \in G
      <4> HIDE DEF G
      <4> QED
        BY <1>1, <2>2, <3>1, Greatest
    <3>3. GivenFilters = cmd.options[Max(G)].val
      BY <2>2 DEF GivenFilters
    <3> QED
      BY <3>2, <3>3 DEF AreSettings
  <2> QED
    BY <2>1, <2>2
<1> QED
  BY <1>1, <1>2, <1>3, <1>4

(* The default filters are one list.                                       *)
LEMMA DefaultIsSeq ==
  DefaultFilters \in Seq(Range(DefaultFilters)) /\ DefaultFilters \o <<>> = DefaultFilters
<1>1. DefaultFilters \in Seq(Range(DefaultFilters))
  <2> DEFINE d == [on |-> "-", of |-> IncludeAlpha]
  <2>1. DefaultFilters = <<d>> /\ <<d>>[1] = d /\ DOMAIN <<d>> = {1}
    BY DEF DefaultFilters
  <2> HIDE DEF d
  <2>2. d \in Range(DefaultFilters)
    BY <2>1 DEF Range
  <2>3. <<d>> \in Seq(Range(DefaultFilters))
    BY <2>2
  <2> QED
    BY <2>1, <2>3
<1> QED
  BY <1>1, ConcatEmptySeq

(* Each file begins with the filters of the command line.                   *)
LEMMA BaseInit == ASSUME Init PROVE BaseInv
<1>1. PICK i \in Inputs : cmd = i.cmd
  BY DEF Init
<1>2. AreSettings(cmd.options)
  BY <1>1, InputsAssumption
<1>3. pc = "args" /\ row = 1 /\ filters = DefaultFilters
  BY DEF Init
<1>4. 1 \in 1..(Len(cmd.options) + 1)
  BY <1>2, AllOptions
<1> QED
  BY <1>2, <1>3, <1>4, AllOptions, DefaultIsSeq DEF BaseInv, Busy

LEMMA BaseKeeps == ASSUME BaseInv, [Next]_vars PROVE BaseInv'
<1>1. cmd' = cmd
  BY DEF Next, TakeOption, ParseArguments, BeginFile, LookUp, Exclude, TakeSetting,
         CloseConfig, ApplyFilters, Unreadable, Ignored, StartFile, ProcessLine,
         FinishFile, Finish, vars, inputs
<1>2. AreSettings(cmd.options)' /\ Base' = Base /\ \A n : GivenBefore(n)' = GivenBefore(n)
  BY <1>1 DEF BaseInv, AreSettings, Base, GivenFilters, GivenBefore
<1>3. Len(cmd.options) \in Nat
  BY AllOptions DEF BaseInv
<1>4. CASE TakeOption
  <2> DEFINE o == cmd.options[row]
  <2>1. pc = "args" /\ row \in 1..Len(cmd.options)
    BY <1>3, <1>4 DEF BaseInv, TakeOption
  <2>2. CASE Refuses(o) \/ Lists(o)
    <3>1. pc' = "end"
      BY <1>4, <2>2 DEF TakeOption, Quits
    <3> QED
      BY <1>2, <3>1 DEF BaseInv, Busy
  <2>3. CASE ~(Refuses(o) \/ Lists(o))
    <3>1. /\ pc' = pc /\ row' = row + 1
          /\ filters' = IF o.name = "filter" THEN DefaultFilters \o o.val ELSE filters
      BY <1>4, <2>3 DEF TakeOption
    <3>2. GivenBefore(row + 1) = IF o.name = "filter" THEN o.val ELSE GivenBefore(row)
      BY <2>1, OneOption DEF BaseInv
    <3>3. filters = DefaultFilters \o GivenBefore(row)
      BY <2>1 DEF BaseInv
    <3>4. filters' = DefaultFilters \o GivenBefore(row')
      BY <3>1, <3>2, <3>3
    <3>5. row' \in 1..(Len(cmd.options) + 1)
      BY <1>3, <2>1, <3>1
    <3>6. (pc = "args" => /\ row \in 1..(Len(cmd.options) + 1)
                          /\ filters = DefaultFilters \o GivenBefore(row))'
      <4>1. GivenBefore(row)' = GivenBefore(row')
        BY <1>1 DEF GivenBefore
      <4> QED
        BY <1>1, <3>4, <3>5, <4>1
    <3> QED
      BY <1>2, <2>1, <3>1, <3>6 DEF BaseInv, Busy
  <2> QED
    BY <2>2, <2>3
<1>5. CASE ParseArguments
  <2>1. /\ pc = "args" /\ row > Len(cmd.options) /\ filters' = filters
        /\ pc' \in {"end", "file"}
    BY <1>5 DEF ParseArguments, Quits
  <2>2. row = Len(cmd.options) + 1
    BY <1>3, <2>1 DEF BaseInv
  <2>3. filters = Base
    BY <2>1, <2>2, AllOptions DEF BaseInv, Base
  <2> QED
    BY <1>2, <2>1, <2>3 DEF BaseInv, Busy
<1>6. CASE BeginFile
  <2>1. pc = "file" /\ pc' = "config" /\ filters' = filters /\ backup' = filters
    BY <1>6 DEF BeginFile
  <2> QED
    BY <1>2, <2>1 DEF BaseInv
<1>7. CASE LookUp \/ TakeSetting \/ CloseConfig
  <2>1. /\ pc \in {"config", "settings"} /\ pc' \in {"config", "settings"}
        /\ filters' = filters /\ backup' = backup
    BY <1>7 DEF LookUp, TakeSetting, CloseConfig
  <2> QED
    BY <1>2, <2>1 DEF BaseInv, Busy
<1>8. CASE Exclude \/ Unreadable \/ Ignored \/ FinishFile
  <2>1. pc \in Busy /\ pc' = "file" /\ filters' = backup
    BY <1>8 DEF Exclude, Unreadable, Ignored, FinishFile, NextFile, Restored, Busy
  <2> QED
    BY <1>2, <2>1 DEF BaseInv, Busy
<1>9. CASE ApplyFilters \/ StartFile \/ ProcessLine
  <2>1. pc \in Busy /\ pc' \in {"read", "lines", "end"} /\ backup' = backup
    BY <1>9 DEF ApplyFilters, StartFile, ProcessLine, Quits, Busy
  <2> QED
    BY <1>2, <2>1 DEF BaseInv, Busy
<1>10. CASE Finish
  <2>1. pc' = "end"
    BY <1>10 DEF Finish, Quits
  <2> QED
    BY <1>2, <2>1 DEF BaseInv, Busy
<1>11. CASE UNCHANGED vars
  <2>1. pc' = pc /\ row' = row /\ filters' = filters /\ backup' = backup
    BY <1>11 DEF vars, config
  <2>2. GivenBefore(row)' = GivenBefore(row)
    BY <1>1, <2>1 DEF GivenBefore
  <2> QED
    BY <1>1, <1>2, <2>1, <2>2 DEF BaseInv, Busy
<1> QED
  BY <1>4, <1>5, <1>6, <1>7, <1>8, <1>9, <1>10, <1>11 DEF Next
-----------------------------------------------------------------------------
(* What depends on the tree, the options and the verbosity only.            *)
LEMMA SameSayings ==
  ASSUME UNCHANGED inputs
  PROVE  /\ \A d : Settings(d)' = Settings(d) /\ (Blocks(d)' <=> Blocks(d))
         /\ \A d, c : FilterLines(d, c)' = FilterLines(d, c)
         /\ \A path : Ruling(path)' = Ruling(path)
         /\ \A path, c : Off(path, c)' <=> Off(path, c)
<1>1. cmd' = cmd /\ tree' = tree
  BY DEF inputs
<1>2. \A d : Settings(d)' = Settings(d) /\ (Blocks(d)' <=> Blocks(d))
  BY <1>1 DEF Settings, Blocks, Has
<1>3. \A d, c : FilterLines(d, c)' = FilterLines(d, c)
  BY <1>2 DEF FilterLines
<1>4. \A path : Ruling(path)' = Ruling(path)
  BY <1>2 DEF Ruling
<1>5. GivenFilters' = GivenFilters
  BY <1>1 DEF GivenFilters
<1>6. \A path, c : Off(path, c)' <=> Off(path, c)
  BY <1>2, <1>3, <1>4, <1>5 DEF Off
<1> QED
  BY <1>2, <1>3, <1>4, <1>6

(* The lines of a configuration that speak of a category.                   *)
LEMMA FilterLine ==
  ASSUME InputInv, NEW d, NEW c
  PROVE  /\ FilterLines(d, c) \subseteq 1..Len(Settings(d))
         /\ Len(Settings(d)) \in Nat
         /\ ~Opens(d) => FilterLines(d, c) = {}
         /\ \A i \in DOMAIN Settings(d) :
              Settings(d)[i].name = "filter" =>
                Settings(d)[i].val \in Seq(Range(Settings(d)[i].val))
<1>1. CASE Opens(d)
  <2>1. d \in DOMAIN tree /\ AreSettings(tree[d].settings) /\ Settings(d) = tree[d].settings
    BY <1>1, ConfigLines DEF Opens, InputInv, IsConfig
  <2> QED
    BY <1>1, <2>1, ConfigLines DEF FilterLines, AreSettings
<1>2. CASE ~Opens(d)
  <2>1. Settings(d) = <<>> /\ Len(<<>>) = 0 /\ DOMAIN <<>> = {}
    BY <1>2, NoConfig
  <2> QED
    BY <2>1 DEF FilterLines
<1> QED
  BY <1>1, <1>2

(* Nothing is gathered by a step that reads no filter.                      *)
LEMMA SameGathered ==
  ASSUME UNCHANGED inputs, found' = found, NEW path, NEW c, NEW n, NEW r, NEW m, NEW q,
         Gathered(path, n, r, c),
         \A j \in Above(path) : \A i \in FilterLines(Up(path, j), c) :
           Before(j, i, n, r) <=> Before(j, i, m, q)
  PROVE  Gathered(path, m, q, c)'
<1>1. Gathered(path, m, q, c)
  BY DEF Gathered
<1>2. /\ \A d : Settings(d)' = Settings(d)
      /\ \A d : FilterLines(d, c)' = FilterLines(d, c)
  BY SameSayings
<1>3. \A j, i : Strongest(path, j, i, c)' <=> Strongest(path, j, i, c)
  BY <1>2 DEF Strongest, Above, Up
<1> HIDE DEF Before
<1> QED
  BY <1>1, <1>2, <1>3 DEF Gathered, Above, Up, Says

(* A line of a configuration: a filter is found, and is weaker than those   *)
(* found before.                                                            *)
LEMMA TakenGathered ==
  ASSUME InputInv, NEW path \in Seq(STRING) \ {<<>>}, NEW n \in 1..Len(path),
         Reading(path, n), TakeSetting, NEW c, found \in Seq(Range(found)),
         NEW r, r = row, Gathered(path, n, r, c)
  PROVE  Gathered(path, n, r + 1, c)'
<1> DEFINE s == Lines[r]
           d == Up(path, n - 1)
<1>1. /\ r <= Len(Lines) /\ UNCHANGED inputs
      /\ found' = IF s.name = "filter" THEN Append(found, s.val) ELSE found
  BY DEF TakeSetting
<1>2. /\ Lines = Settings(d) /\ Len(Lines) \in Nat /\ DOMAIN Lines = 1..Len(Lines)
      /\ n - 1 \in Above(path) /\ Len(path) \in Nat
  BY ReadingHere, PathParts
<1>3. r \in DOMAIN Settings(d) /\ r \in Nat
  BY <1>1, <1>2 DEF Reading
<1>4. \A j \in Above(path), i \in Int :
        Before(j, i, n, r + 1) <=> Before(j, i, n, r) \/ (j = n - 1 /\ i = r)
  BY <1>2, <1>3 DEF Before
<1>5. \A j : FilterLines(Up(path, j), c) \subseteq Int
  BY FilterLine
<1>6. r \in FilterLines(d, c) <=> s.name = "filter" /\ Says(s.val, c)
  BY <1>2, <1>3 DEF FilterLines
<1>7. CASE r \notin FilterLines(d, c) /\ s.name # "filter"
  <2>1. found' = found
    BY <1>1, <1>7
  <2>2. \A j \in Above(path) : \A i \in FilterLines(Up(path, j), c) :
           Before(j, i, n, r) <=> Before(j, i, n, r + 1)
    BY <1>4, <1>5, <1>7
  <2> QED
    BY <1>1, <2>1, <2>2, SameGathered
<1>8. CASE s.name = "filter"
  <2>1. found' = Append(found, s.val)
    BY <1>1, <1>8
  <2>2. /\ Len(found) \in Nat /\ DOMAIN found = 1..Len(found)
        /\ DOMAIN found' = 1..(Len(found) + 1)
        /\ \A k \in DOMAIN found : found'[k] = found[k]
        /\ found'[Len(found) + 1] = s.val
    <3> DEFINE S == Range(found) \cup {s.val}
    <3>1. found \in Seq(S) /\ s.val \in S
      BY SeqMonotonic
    <3> HIDE DEF S, s
    <3>2. /\ Append(found, s.val) \in Seq(S) /\ Len(Append(found, s.val)) = Len(found) + 1
          /\ \A k \in 1..Len(found) : Append(found, s.val)[k] = found[k]
          /\ Append(found, s.val)[Len(found) + 1] = s.val
      BY <3>1, AppendProperties
    <3>3. /\ DOMAIN found = 1..Len(found) /\ Len(found) \in Nat
          /\ DOMAIN Append(found, s.val) = 1..Len(Append(found, s.val))
      BY <3>1, <3>2, LenProperties
    <3> QED
      BY <2>1, <3>2, <3>3
  <2>3. /\ \A x : Settings(x)' = Settings(x)
        /\ \A x : FilterLines(x, c)' = FilterLines(x, c)
    BY <1>1, SameSayings
  <2>4. \A j, i : Strongest(path, j, i, c)' <=> Strongest(path, j, i, c)
    BY <2>3 DEF Strongest, Above, Up
  <2> DEFINE None(q) == \A j \in Above(path) : \A i \in FilterLines(Up(path, j), c) :
                          ~Before(j, i, n, q)
             One(j, i, q) == Before(j, i, n, q) /\ Strongest(path, j, i, c)
             Val(j, i) == Settings(Up(path, j))[i].val
  <2>5. ASSUME \/ None(r + 1) /\ \A k \in DOMAIN found' : ~Says(found'[k], c)
               \/ \E j \in Above(path) : \E i \in FilterLines(Up(path, j), c) :
                    /\ One(j, i, r + 1)
                    /\ \E k \in DOMAIN found' :
                         /\ found'[k] = Val(j, i)
                         /\ \A m \in DOMAIN found' : m < k => ~Says(found'[m], c)
        PROVE  Gathered(path, n, r + 1, c)'
    <3> HIDE DEF Before
    <3> QED
      BY <2>3, <2>4, <2>5 DEF Gathered, Above, Up, Says
  <2>6. CASE None(r) /\ \A k \in DOMAIN found : ~Says(found[k], c)
    <3>1. CASE Says(s.val, c)
      <4>1. r \in FilterLines(Up(path, n - 1), c)
        BY <1>6, <1>8, <3>1
      <4>2. Strongest(path, n - 1, r, c)
        <5> SUFFICES ASSUME NEW m \in Above(path), NEW l \in FilterLines(Up(path, m), c)
                     PROVE  m < n - 1 \/ (m = n - 1 /\ r <= l)
          BY DEF Strongest
        <5>1. ~Before(m, l, n, r) /\ l \in Int /\ m \in Int
          BY <2>6, <1>5 DEF Above
        <5> QED
          BY <5>1, <1>2, <1>3 DEF Before
      <4>3. Before(n - 1, r, n, r + 1)
        BY <1>1, <1>2, <1>3, <1>4
      <4>4. Len(found) + 1 \in DOMAIN found' /\ found'[Len(found) + 1] = Val(n - 1, r)
        BY <1>2, <2>2
      <4>5. \A m \in DOMAIN found' : m < Len(found) + 1 => ~Says(found'[m], c)
        <5>1. \A m \in DOMAIN found' : m < Len(found) + 1 => m \in DOMAIN found
          BY <2>2
        <5> QED
          BY <2>2, <2>6, <5>1
      <4> HIDE DEF Val
      <4> QED
        BY <1>2, <2>5, <4>1, <4>2, <4>3, <4>4, <4>5
    <3>2. CASE ~Says(s.val, c)
      <4>1. None(r + 1)
        BY <1>1, <1>4, <1>5, <1>6, <2>6, <3>2
      <4>2. \A k \in DOMAIN found' : ~Says(found'[k], c)
        <5>1. \A k \in DOMAIN found' : k \in DOMAIN found \/ k = Len(found) + 1
          BY <2>2
        <5> QED
          BY <2>2, <2>6, <3>2, <5>1
      <4> QED
        BY <2>5, <4>1, <4>2
    <3> QED
      BY <3>1, <3>2
  <2>7. CASE \E j \in Above(path) : \E i \in FilterLines(Up(path, j), c) :
               /\ One(j, i, r)
               /\ \E k \in DOMAIN found :
                    /\ found[k] = Val(j, i)
                    /\ \A m \in DOMAIN found : m < k => ~Says(found[m], c)
    <3> DEFINE First(j, i) == \E k \in DOMAIN found :
                 /\ found[k] = Val(j, i)
                 /\ \A m \in DOMAIN found : m < k => ~Says(found[m], c)
    <3>1. PICK j \in Above(path) :
            \E i \in FilterLines(Up(path, j), c) : One(j, i, r) /\ First(j, i)
      BY <2>7
    <3>2. PICK i \in FilterLines(Up(path, j), c) : One(j, i, r) /\ First(j, i)
      BY <3>1
    <3>3. PICK k \in DOMAIN found :
            /\ found[k] = Val(j, i)
            /\ \A m \in DOMAIN found : m < k => ~Says(found[m], c)
      BY <3>2
    <3>4. One(j, i, r + 1)
      BY <1>1, <1>4, <1>5, <3>2
    <3>5. k \in DOMAIN found' /\ found'[k] = Val(j, i)
      BY <2>2, <3>3
    <3>6. \A m \in DOMAIN found' : m < k => ~Says(found'[m], c)
      <4>1. \A m \in DOMAIN found' : m < k => m \in DOMAIN found
        BY <2>2
      <4> QED
        BY <2>2, <3>3, <4>1
    <3> HIDE DEF One, Val
    <3> QED
      BY <2>5, <3>4, <3>5, <3>6
  <2> QED
    BY <2>6, <2>7 DEF Gathered
<1> QED
  BY <1>6, <1>7, <1>8
-----------------------------------------------------------------------------
(* At the end of the search, the filters of the command line with what was  *)
(* found added turn off what the nearest configuration turns off.           *)
LEMMA Decided ==
  ASSUME InputInv, BaseInv, NEW path \in Seq(STRING) \ {<<>>}, NEW n \in 0..Len(path),
         Searched(path, n), ~keep \/ at = <<>>, NEW c, Gathered(path, n, 0, c),
         found \in Seq(Range(found)),
         \A k \in DOMAIN found : found[k] \in Seq(Range(found[k]))
  PROVE  Filtered(Base \o FlattenSeq(Reverse(found)), c) <=> Off(path, c)
<1> DEFINE all == FlattenSeq(Reverse(found))
           Val(j, i) == Settings(Up(path, j))[i].val
           Fits(j) == FilterLines(Up(path, j), c)
           base == IF Says(GivenFilters, c) THEN TurnsOff(GivenFilters, c)
                   ELSE TurnsOff(DefaultFilters, c)
<1>1. /\ Len(path) \in Nat \ {0}
      /\ \A j \in Above(path) : Len(Up(path, j)) = j
      /\ Above(path) \subseteq Nat
  BY PathParts DEF Above
<1>2. /\ all \in Seq(Range(all))
      /\ (\A k \in DOMAIN found : ~Says(found[k], c)) => ~Says(all, c)
      /\ \A k \in DOMAIN found :
           Says(found[k], c) /\ (\A m \in DOMAIN found : m < k => ~Says(found[m], c))
           => Says(all, c) /\ (TurnsOff(all, c) <=> TurnsOff(found[k], c))
  BY PiledUp
<1> HIDE DEF all
<1>3. Filtered(Base \o all, c) <=> IF Says(all, c) THEN TurnsOff(all, c) ELSE base
  <2>1. /\ Base \in Seq(Range(Base))
        /\ TurnsOff(Base, c) <=> base
    BY Joined, AllOptions, DefaultIsSeq DEF BaseInv, Base
  <2>2. /\ Base \o all \in Seq(Range(Base \o all))
        /\ TurnsOff(Base \o all, c) <=> IF Says(all, c) THEN TurnsOff(all, c)
                                        ELSE TurnsOff(Base, c)
    BY <1>2, <2>1, Joined
  <2>3. Filtered(Base \o all, c) = TurnsOff(Base \o all, c)
    BY <2>2, LastDecides
  <2> QED
    BY <2>1, <2>2, <2>3
<1>4. ASSUME NEW j \in Above(path)
      PROVE  /\ Unblocked(path, j) => j >= n
             /\ j >= n => Unblocked(path, j)
  <2>1. Unblocked(path, j) => j >= n
    <3>1. CASE at = <<>>
      <4>1. n = 0
        BY <3>1, Ups DEF Searched
      <4> QED
        BY <4>1, <1>1
    <3>2. CASE ~keep
      <4>1. n # Len(path) /\ Blocks(Up(path, n))
        BY <3>2 DEF Searched
      <4>2. n \in Above(path)
        BY <1>1, <4>1 DEF Above
      <4> QED
        BY <1>1, <4>1, <4>2 DEF Unblocked
    <3> QED
      BY <3>1, <3>2
  <2>2. j >= n => Unblocked(path, j)
    BY <1>1 DEF Searched, Unblocked
  <2> QED
    BY <2>1, <2>2
<1>5. /\ \A j \in Above(path) : Up(path, j) \in Ruling(path) <=> j >= n
      /\ \A d \in Ruling(path) : \E j \in Above(path) : d = Up(path, j)
  BY <1>4, RulingAt
<1>6. CASE /\ \A j \in Above(path) : \A i \in FilterLines(Up(path, j), c) : ~Before(j, i, n, 0)
           /\ \A k \in DOMAIN found : ~Says(found[k], c)
  <2>1. ASSUME NEW d \in Ruling(path) PROVE FilterLines(d, c) = {}
    <3>1. PICK j \in Above(path) : d = Up(path, j)
      BY <1>5
    <3>2. j >= n
      BY <1>5, <3>1
    <3> QED
      BY <1>6, <3>1, <3>2 DEF Before
  <2>2. Off(path, c) <=> base
    BY <2>1 DEF Off
  <2>3. ~Says(all, c)
    BY <1>2, <1>6
  <2> QED
    BY <1>3, <2>2, <2>3 DEF all
<1>7. ASSUME NEW j \in Above(path), NEW i \in Fits(j),
             Before(j, i, n, 0), Strongest(path, j, i, c),
             \E k \in DOMAIN found :
               /\ found[k] = Val(j, i)
               /\ \A m \in DOMAIN found : m < k => ~Says(found[m], c)
      PROVE  Filtered(Base \o all, c) <=> Off(path, c)
  <2>1. /\ Fits(j) \subseteq Nat \ {0}
        /\ Says(Val(j, i), c)
    <3>1. Fits(j) \subseteq 1..Len(Settings(Up(path, j))) /\ Len(Settings(Up(path, j))) \in Nat
      BY FilterLine
    <3>2. Fits(j) \subseteq Nat \ {0}
      BY <3>1
    <3>3. Says(Val(j, i), c)
      BY DEF FilterLines
    <3> QED
      BY <3>2, <3>3
  <2>2. Says(all, c) /\ (TurnsOff(all, c) <=> TurnsOff(Val(j, i), c))
    BY <1>2, <1>7, <2>1
  <2>3. j >= n
    BY <1>7, <2>1 DEF Before
  <2>4. Up(path, j) \in Ruling(path) /\ Len(Up(path, j)) = j
    BY <1>1, <1>5, <2>3
  <2>5. \A e \in Ruling(path) : Len(e) > j => FilterLines(e, c) = {}
    <3> SUFFICES ASSUME NEW e \in Ruling(path), Len(e) > j, NEW l \in FilterLines(e, c)
                 PROVE  FALSE
      OBVIOUS
    <3>1. PICK m \in Above(path) : e = Up(path, m)
      BY <1>5
    <3>2. m < j \/ m = j
      BY <1>7, <3>1 DEF Strongest
    <3> QED
      BY <1>1, <3>1, <3>2
  <2>6. \A l \in Fits(j) : i <= l
    <3>1. ~(j < j)
      BY <1>1
    <3> QED
      BY <1>7, <3>1 DEF Strongest
  <2>7. TurnsOff(Val(j, i), c) => Off(path, c)
    BY <2>4, <2>5, <2>6 DEF Off
  <2>8. ASSUME Off(path, c) PROVE TurnsOff(Val(j, i), c)
    <3>1. ~\A d \in Ruling(path) : FilterLines(d, c) = {}
      BY <2>4
    <3>2. PICK d \in Ruling(path) : \E l \in FilterLines(d, c) :
            /\ \A e \in Ruling(path) : Len(e) > Len(d) => FilterLines(e, c) = {}
            /\ \A k \in FilterLines(d, c) : l <= k
            /\ TurnsOff(Settings(d)[l].val, c)
      BY <2>8, <3>1 DEF Off
    <3>3. PICK l \in FilterLines(d, c) :
            /\ \A e \in Ruling(path) : Len(e) > Len(d) => FilterLines(e, c) = {}
            /\ \A k \in FilterLines(d, c) : l <= k
            /\ TurnsOff(Settings(d)[l].val, c)
      BY <3>2
    <3>4. PICK m \in Above(path) : d = Up(path, m)
      BY <1>5
    <3>5. Len(d) = m /\ ~(m > j) /\ ~(j > m)
      BY <1>1, <2>4, <2>5, <3>3, <3>4
    <3>6. m = j
      BY <1>1, <3>4, <3>5
    <3>7. l \in Fits(j) /\ i <= l /\ l <= i
      BY <2>6, <3>3, <3>4, <3>6
    <3>8. l = i
      BY <2>1, <3>7
    <3> QED
      BY <3>3, <3>4, <3>6, <3>8
  <2> QED
    BY <1>3, <2>2, <2>7, <2>8
<1>8. CASE \E j \in Above(path) : \E i \in Fits(j) :
             /\ Before(j, i, n, 0) /\ Strongest(path, j, i, c)
             /\ \E k \in DOMAIN found :
                  /\ found[k] = Val(j, i)
                  /\ \A m \in DOMAIN found : m < k => ~Says(found[m], c)
  <2> HIDE DEF Val, Fits
  <2> QED
    BY <1>7, <1>8 DEF all
<1> QED
  BY <1>6, <1>8 DEF Gathered

(* The path that is searched.                                               *)
LEMMA SearchedPath ==
  ASSUME IInv, pc \in {"config", "settings"}
  PROVE  \E path \in Seq(STRING) \ {<<>>} :
           /\ path = File.path /\ at \in Seq(STRING) /\ Len(at) \in 0..Len(path)
           /\ pc = "config" => Searched(path, Len(at))
           /\ pc = "settings" => Len(at) \in 1..Len(path) /\ Reading(path, Len(at))
<1>1. pc \in Busy
  BY DEF Busy
<1>2. PICK path \in Seq(STRING) \ {<<>>} : path = File.path
  <2>1. IsFile(File)
    BY <1>1, ThisFile DEF IInv, TodoInv
  <2> QED
    BY <2>1 DEF IsFile
<1>3. Len(path) \in Nat
  BY PathParts
<1>4. CASE pc = "config"
  <2>1. PICK n \in 0..Len(path) : Searched(path, n)
    BY <1>2, <1>4 DEF IInv, LookInv
  <2>2. Len(at) = n /\ at \in Seq(STRING)
    BY <2>1, Ups DEF Searched
  <2> QED
    BY <1>2, <1>4, <2>1, <2>2
<1>5. CASE pc = "settings"
  <2>1. PICK n \in 1..Len(path) : Reading(path, n)
    BY <1>2, <1>5 DEF IInv, LookInv
  <2>2. n \in 0..Len(path)
    BY <1>3
  <2>3. Len(at) = n /\ at \in Seq(STRING)
    BY <2>1, <2>2, Ups DEF Reading
  <2> QED
    BY <1>2, <1>5, <2>1, <2>2, <2>3
<1> QED
  BY <1>4, <1>5

(* The search begins with nothing, and gathers.                             *)
LEMMA FoundKeeps == ASSUME IInv, FoundInv, [Next]_vars PROVE FoundInv'
<1>1. CASE pc' \notin {"config", "settings"}
  BY <1>1 DEF FoundInv
<1>2. CASE BeginFile
  <2>1. /\ pc' = "config" /\ todo # <<>> /\ UNCHANGED inputs /\ todo' = todo
        /\ at' = File.path /\ found' = <<>>
    BY <1>2 DEF BeginFile
  <2>2. IsFile(File) /\ File' = File
    BY <2>1, ThisFile DEF IInv, File, inputs
  <2>3. PICK path \in Seq(STRING) \ {<<>>} : path = File.path
    BY <2>2 DEF IsFile
  <2>4. <<>> \in Seq(Range(<<>>)) /\ DOMAIN <<>> = {}
    BY EmptySeq
  <2>5. ASSUME NEW c PROVE Gathered(path, Len(path), 0, c)'
    <3>1. \A j \in Above(path) : \A i \in FilterLines(Up(path, j), c) : ~Before(j, i, Len(path), 0)
      <4> SUFFICES ASSUME NEW j \in Above(path), NEW i \in FilterLines(Up(path, j), c)
                   PROVE  ~Before(j, i, Len(path), 0)
        OBVIOUS
      <4>1. Len(path) \in Nat /\ i \in 1..Len(Settings(Up(path, j)))
        BY PathParts, FilterLine DEF IInv
      <4> QED
        BY <4>1 DEF Before, Above
    <3>2. \A d : FilterLines(d, c)' = FilterLines(d, c)
      BY <2>1, SameSayings
    <3> HIDE DEF Before
    <3>3. \A k \in DOMAIN found' : ~Says(found'[k], c)
      BY <2>1, <2>4
    <3> QED
      BY <3>1, <3>2, <3>3 DEF Gathered, Above, Up, Says
  <2>6. File'.path = path /\ Len(at') = Len(path) /\ pc' # "settings"
    BY <2>1, <2>2, <2>3
  <2> QED
    BY <2>1, <2>4, <2>5, <2>6 DEF FoundInv
<1>3. CASE LookUp \/ TakeSetting \/ CloseConfig
  <2>1. /\ pc \in {"config", "settings"} /\ UNCHANGED inputs /\ todo' = todo
        /\ found \in Seq(Range(found))
        /\ \A k \in DOMAIN found : found[k] \in Seq(Range(found[k]))
    BY <1>3 DEF LookUp, TakeSetting, CloseConfig, FoundInv
  <2>2. PICK path \in Seq(STRING) \ {<<>>} :
           /\ path = File.path /\ at \in Seq(STRING) /\ Len(at) \in 0..Len(path)
           /\ pc = "config" => Searched(path, Len(at))
           /\ pc = "settings" => Len(at) \in 1..Len(path) /\ Reading(path, Len(at))
    BY <2>1, SearchedPath
  <2>3. File'.path = path
    BY <2>1, <2>2 DEF File, inputs
  <2>4. PICK n : n = Len(at)
    OBVIOUS
  <2>5. n \in 0..Len(path) /\ at = Up(path, n) /\ Len(path) \in Nat
    BY <2>1, <2>2, <2>4, PathParts DEF Searched, Reading
  <2>6. CASE LookUp
    <3>1. pc = "config" /\ Searched(path, n) /\ found' = found
      BY <2>2, <2>4, <2>6 DEF LookUp
    <3>2. n # 0 /\ Dir = Up(path, n - 1) /\ n - 1 \in Above(path)
      <4>1. n # 0
        <5>1. n = 0 => at = <<>>
          BY <2>5, SubSeqEmpty DEF Up
        <5> QED
          BY <2>6, <5>1 DEF LookUp
      <4>2. Front(Up(path, n)) = Up(path, n - 1)
        BY <2>5, <4>1, Ups
      <4> QED
        BY <2>5, <4>1, <4>2 DEF Dir, Above
    <3>3. ASSUME NEW j \in Above(path), NEW c, NEW i \in FilterLines(Up(path, j), c)
          PROVE  i \in Int /\ i >= 1 /\ j \in Int
      BY FilterLine DEF IInv, Above
    <3>4. CASE Opens(Dir)
      <4>1. pc' = "settings" /\ row' = 1 /\ at' = at
        BY <2>6, <3>4 DEF LookUp
      <4>2. ASSUME NEW c \in Categories PROVE Gathered(path, n, 1, c)'
        <5>1. Gathered(path, n, 0, c)
          BY <2>2, <2>4, <3>1 DEF FoundInv
        <5>2. \A j \in Above(path) : \A i \in FilterLines(Up(path, j), c) :
                Before(j, i, n, 0) <=> Before(j, i, n, 1)
          BY <3>3 DEF Before
        <5> QED
          BY <2>1, <3>1, <5>1, <5>2, SameGathered
      <4> QED
        BY <2>1, <2>3, <2>4, <3>1, <4>1, <4>2 DEF FoundInv
    <3>5. CASE ~Opens(Dir)
      <4>1. pc' = "config" /\ at' = Dir /\ Len(at') = n - 1
        <5>1. pc' = "config" /\ at' = Dir
          BY <2>6, <3>5 DEF LookUp
        <5>2. Len(Up(path, n - 1)) = n - 1
          BY <3>2, PathParts
        <5> QED
          BY <3>2, <5>1, <5>2
      <4>2. ASSUME NEW c \in Categories PROVE Gathered(path, n - 1, 0, c)'
        <5>1. Gathered(path, n, 0, c)
          BY <2>2, <2>4, <3>1 DEF FoundInv
        <5>2. \A j \in Above(path) : \A i \in FilterLines(Up(path, j), c) :
                Before(j, i, n, 0) <=> Before(j, i, n - 1, 0)
          <6> SUFFICES ASSUME NEW j \in Above(path), NEW i \in FilterLines(Up(path, j), c)
                       PROVE  Before(j, i, n, 0) <=> Before(j, i, n - 1, 0)
            OBVIOUS
          <6>1. j # n - 1
            BY <3>2, <3>5, FilterLine DEF IInv
          <6> QED
            BY <2>5, <3>3, <6>1 DEF Before
        <5> QED
          BY <2>1, <3>1, <5>1, <5>2, SameGathered
      <4> QED
        BY <2>1, <2>3, <3>1, <4>1, <4>2 DEF FoundInv
    <3> QED
      BY <3>4, <3>5
  <2>7. CASE TakeSetting
    <3>1. /\ pc = "settings" /\ pc' = "settings" /\ row' = row + 1 /\ at' = at
          /\ Reading(path, n) /\ n \in 1..Len(path) /\ row <= Len(Lines)
          /\ found' = IF Lines[row].name = "filter" THEN Append(found, Lines[row].val) ELSE found
      BY <2>2, <2>4, <2>7 DEF TakeSetting
    <3>2. PICK r : r = row
      OBVIOUS
    <3>3. ASSUME NEW c \in Categories PROVE Gathered(path, n, r + 1, c)'
      <4>1. Gathered(path, n, r, c)
        BY <2>2, <2>4, <3>1, <3>2 DEF FoundInv
      <4> QED
        BY <2>1, <2>7, <3>1, <3>2, <4>1, TakenGathered DEF IInv
    <3>4. /\ found' \in Seq(Range(found'))
          /\ \A k \in DOMAIN found' : found'[k] \in Seq(Range(found'[k]))
      <4> DEFINE v == Lines[row].val
      <4>1. CASE found' = found
        BY <2>1, <4>1
      <4>2. CASE Lines[row].name = "filter" /\ found' = Append(found, v)
        <5>1. row \in DOMAIN Settings(Dir) /\ Lines = Settings(Dir)
          BY <3>1, ReadingHere DEF IInv, Reading
        <5>2. v \in Seq(Range(v))
          BY <4>2, <5>1, FilterLine DEF IInv
        <5>3. /\ found' \in Seq(Range(found')) /\ Range(found') = Range(found) \cup {v}
          <6> HIDE DEF v
          <6> QED
            BY <2>1, <4>2, AppendRange
        <5>4. \A x \in Range(found') : x \in Seq(Range(x))
          <6>1. \A x \in Range(found) : x \in Seq(Range(x))
            BY <2>1 DEF Range
          <6> HIDE DEF v
          <6> QED
            BY <5>2, <5>3, <6>1
        <5> QED
          BY <5>3, <5>4 DEF Range
      <4> QED
        BY <3>1, <4>1, <4>2
    <3> QED
      BY <2>4, <2>3, <3>1, <3>2, <3>3, <3>4 DEF FoundInv
  <2>8. CASE CloseConfig
    <3>1. /\ pc = "settings" /\ pc' = "config" /\ at' = Dir /\ found' = found
          /\ Reading(path, n) /\ n \in 1..Len(path) /\ row > Len(Lines)
      BY <2>2, <2>4, <2>8 DEF CloseConfig
    <3>2. /\ Dir = Up(path, n - 1) /\ Lines = Settings(Dir) /\ Len(Lines) \in Nat
          /\ n - 1 \in Above(path) /\ Len(Up(path, n - 1)) = n - 1
          /\ row \in Int
      <4>1. /\ Dir = Up(path, n - 1) /\ Lines = Settings(Dir) /\ Len(Lines) \in Nat
            /\ n - 1 \in Above(path)
        BY <3>1, ReadingHere DEF IInv
      <4>2. Len(Up(path, n - 1)) = n - 1
        BY <4>1, PathParts
      <4>3. row \in Int
        BY <3>1, <4>1 DEF Reading
      <4> QED
        BY <4>1, <4>2, <4>3
    <3>3. ASSUME NEW c \in Categories PROVE Gathered(path, n - 1, 0, c)'
      <4>1. PICK r : r = row
        OBVIOUS
      <4>2. Gathered(path, n, r, c)
        BY <2>2, <2>4, <3>1, <4>1 DEF FoundInv
      <4>3. ASSUME NEW j \in Above(path), NEW i \in FilterLines(Up(path, j), c)
            PROVE  Before(j, i, n, r) <=> Before(j, i, n - 1, 0)
        <5>1. /\ i \in 1..Len(Settings(Up(path, j))) /\ Len(Settings(Up(path, j))) \in Nat
              /\ j \in Int
          BY FilterLine DEF IInv, Above
        <5>2. j = n - 1 => i < r
          BY <3>1, <3>2, <4>1, <5>1
        <5> QED
          BY <2>5, <5>1, <5>2 DEF Before
      <4> QED
        BY <2>1, <3>1, <4>2, <4>3, SameGathered
    <3>4. Len(at') = n - 1
      BY <3>1, <3>2
    <3> QED
      BY <2>1, <2>3, <3>1, <3>3, <3>4 DEF FoundInv
  <2> QED
    BY <1>3, <2>6, <2>7, <2>8
<1>4. CASE UNCHANGED vars
  <2>1. File' = File /\ UNCHANGED <<inputs, pc, row, at, found>>
    BY <1>4 DEF vars, config, File, inputs
  <2>2. \A path, n, r, c : Gathered(path, n, r, c) => Gathered(path, n, r, c)'
    BY <2>1, SameGathered
  <2> QED
    BY <2>1, <2>2 DEF FoundInv
<1>5. CASE \/ TakeOption \/ ParseArguments \/ Exclude \/ ApplyFilters \/ Unreadable
           \/ Ignored \/ StartFile \/ ProcessLine \/ FinishFile \/ Finish
  <2>1. pc' \notin {"config", "settings"}
    <3>1. CASE TakeOption
      <4>1. pc = "args" /\ (Quits(IF Lists(cmd.options[row]) THEN 0 ELSE 1) \/ pc' = pc)
        BY <3>1, Zenon DEF TakeOption
      <4>2. \A status : Quits(status) => pc' = "end"
        BY DEF Quits
      <4> QED
        BY <4>1, <4>2
    <3>2. CASE \/ ParseArguments \/ Exclude \/ ApplyFilters \/ Unreadable
               \/ Ignored \/ StartFile \/ ProcessLine \/ FinishFile \/ Finish
      BY <3>2 DEF ParseArguments, Exclude, ApplyFilters, Unreadable, Ignored, StartFile,
                  ProcessLine, FinishFile, Finish, Quits, NextFile
    <3> QED
      BY <1>5, <3>1, <3>2
  <2> QED
    BY <1>1, <2>1
<1> QED
  BY <1>2, <1>3, <1>4, <1>5 DEF Next

(* What is turned off in a file is what the nearest configuration turns     *)
(* off, from the end of the search to that of the file.                     *)
LEMMA OffKeeps ==
  ASSUME IInv, BaseInv, FoundInv, OffInv, [Next]_vars
  PROVE  OffInv'
<1>1. CASE ApplyFilters
  <2>1. /\ pc = "config" /\ (~keep \/ at = <<>>) /\ UNCHANGED inputs /\ todo' = todo
        /\ filters' = filters \o FlattenSeq(Reverse(found))
        /\ filters = Base
        /\ found \in Seq(Range(found))
        /\ \A k \in DOMAIN found : found[k] \in Seq(Range(found[k]))
        /\ \A path \in {File.path}, n \in {Len(at)}, c \in Categories : Gathered(path, n, 0, c)
    BY <1>1 DEF ApplyFilters, BaseInv, FoundInv
  <2>2. PICK path \in Seq(STRING) \ {<<>>} :
          path = File.path /\ Len(at) \in 0..Len(path) /\ Searched(path, Len(at))
    BY <2>1, SearchedPath
  <2>3. File' = File
    BY <2>1 DEF File, inputs
  <2>4. PICK n : n = Len(at)
    OBVIOUS
  <2>5. PICK fs : fs = filters'
    OBVIOUS
  <2>6. ASSUME NEW c \in Categories PROVE Filtered(fs, c) <=> Off(path, c)
    BY <2>1, <2>2, <2>4, <2>5, Decided DEF IInv
  <2>7. \A c \in Categories : Filtered(fs, c) <=> Off(path, c)'
    BY <2>1, <2>6, SameSayings
  <2> QED
    BY <2>2, <2>3, <2>5, <2>7 DEF OffInv
<1>2. CASE StartFile \/ ProcessLine
  <2>1. /\ pc \in {"read", "lines"} /\ UNCHANGED inputs /\ todo' = todo /\ filters' = filters
    BY <1>2 DEF StartFile, ProcessLine
  <2>2. File' = File
    BY <2>1 DEF File, inputs
  <2> QED
    BY <2>1, <2>2, SameSayings DEF OffInv
<1>3. CASE UNCHANGED vars
  <2>1. File' = File /\ UNCHANGED <<inputs, pc, filters>>
    BY <1>3 DEF vars, File, inputs
  <2> QED
    BY <2>1, SameSayings DEF OffInv
<1>4. CASE \/ TakeOption \/ ParseArguments \/ BeginFile \/ LookUp \/ Exclude \/ TakeSetting
           \/ CloseConfig \/ Unreadable \/ Ignored \/ FinishFile \/ Finish
  <2>1. pc' \notin {"read", "lines"}
    <3>1. CASE TakeOption
      <4>1. pc = "args" /\ (Quits(IF Lists(cmd.options[row]) THEN 0 ELSE 1) \/ pc' = pc)
        BY <3>1, Zenon DEF TakeOption
      <4>2. \A status : Quits(status) => pc' = "end"
        BY DEF Quits
      <4> QED
        BY <4>1, <4>2
    <3>2. CASE \/ ParseArguments \/ BeginFile \/ LookUp \/ Exclude \/ TakeSetting
               \/ CloseConfig \/ Unreadable \/ Ignored \/ FinishFile \/ Finish
      BY <3>2 DEF ParseArguments, BeginFile, LookUp, Exclude, TakeSetting, CloseConfig,
                  Unreadable, Ignored, FinishFile, Finish, Quits, NextFile
    <3> QED
      BY <1>4, <3>1, <3>2
  <2> QED
    BY <2>1 DEF OffInv
<1> QED
  BY <1>1, <1>2, <1>3, <1>4 DEF Next
-----------------------------------------------------------------------------
(* Errors of categories that exist, each of a line.                         *)
Placed(S) == \A e \in S : e.cat \in Categories /\ e.line \in Int

(* Suppressions that are the comments of N turn off what those are about.   *)
LEMMA Quieting ==
  ASSUME NEW f, NEW N \in SUBSET Int, NEW s, Hushes(s, f, N),
         NEW e, e.cat \in Categories, e.line \in Int
  PROVE  Suppressed(s, e) <=> Quieted(f, e.line, e.cat, N)
<1> DEFINE note(m) == NoteOf(f, m)
           at0(m) == IF note(m).next THEN m + 1 ELSE m
           P == {<<note(m).what, at0(m)>> : m \in NamedIn(f, N)}
<1>1. s.file = Marks(f) /\ s.lines = P
  BY DEF Hushes
<1>2. \A m \in NamedIn(f, N) : m \in N /\ note(m).in /\ note(m).what \in Categories \cup {All}
  BY DEF NamedIn
<1>3. ASSUME NEW x \in {e.cat, All}, <<x, e.line>> \in P
      PROVE  Quieted(f, e.line, e.cat, N)
  <2>1. PICK m \in NamedIn(f, N) : <<x, e.line>> = <<note(m).what, at0(m)>>
    BY <1>3
  <2>2. x = note(m).what /\ e.line = at0(m)
    BY <2>1
  <2>3. m \in N \cap {e.line, e.line - 1} /\ (note(m).next <=> m = e.line - 1)
    <3>1. m \in N /\ m \in Int
      BY <1>2
    <3>2. CASE note(m).next
      <4>1. e.line = m + 1
        BY <2>2, <3>2
      <4> QED
        BY <3>1, <3>2, <4>1
    <3>3. CASE ~note(m).next
      <4>1. e.line = m
        BY <2>2, <3>3
      <4> QED
        BY <3>1, <3>3, <4>1
    <3> QED
      BY <3>2, <3>3
  <2> QED
    BY <1>2, <2>2, <2>3 DEF Quieted
<1>4. ASSUME NEW m \in N \cap {e.line, e.line - 1}, note(m).in, note(m).what \in {All, e.cat},
             note(m).next <=> m = e.line - 1
      PROVE  \E x \in {e.cat, All} : <<x, e.line>> \in P
  <2>1. m \in NamedIn(f, N)
    BY <1>4 DEF NamedIn
  <2>2. at0(m) = e.line
    BY <1>4
  <2>3. <<note(m).what, at0(m)>> \in P
    BY <2>1
  <2> QED
    BY <1>4, <2>2, <2>3
<1> HIDE DEF P, note
<1>5. Suppressed(s, e) => Quieted(f, e.line, e.cat, N)
  BY <1>1, <1>3 DEF Suppressed, Quieted
<1>6. Quieted(f, e.line, e.cat, N) => Suppressed(s, e)
  BY <1>1, <1>4 DEF Suppressed, Quieted, note
<1> QED
  BY <1>5, <1>6

(* Only comments on the line and on the one above it count.                 *)
LEMMA QuietedHere ==
  ASSUME NEW f, NEW l, NEW c, NEW N, NEW M,
         \A m \in {l, l - 1} :
           NoteOf(f, m).in /\ NoteOf(f, m).what \in {All, c} => (m \in N <=> m \in M)
  PROVE  Quieted(f, l, c, N) <=> Quieted(f, l, c, M)
BY DEF Quieted

(* So what is printed under them is what is to be heard.                    *)
LEMMA PrintedHeard ==
  ASSUME OffInv, pc \in {"read", "lines"}, NEW f, f = File,
         NEW N \in SUBSET Int, NEW s, Hushes(s, f, N), NEW S, Placed(S)
  PROVE  Printed(s, S) = Heard(f, S, N)
<1>1. ASSUME NEW e \in S
      PROVE  ShouldPrint(s, state.verbose, filters, e)
               <=> e \in Heard(f, S, N)
  <2>1. Suppressed(s, e) <=> Quieted(f, e.line, e.cat, N)
    BY Quieting DEF Placed
  <2>2. Filtered(filters, e.cat) <=> Off(f.path, e.cat)
    BY DEF OffInv, Placed
  <2> QED
    BY <2>1, <2>2 DEF ShouldPrint, Heard, Shown
<1> QED
  BY <1>1 DEF Printed, Heard, Shown

(* Before anything of the file is known, only filters count.                *)
LEMMA PrintedShown ==
  ASSUME OffInv, pc \in {"read", "lines"}, NEW f, f = File, NEW S, Placed(S)
  PROVE  Printed(NoSuppressions, S) = Shown(f, S)
<1>1. ASSUME NEW e \in S
      PROVE  ShouldPrint(NoSuppressions, state.verbose, filters, e) <=> e \in Shown(f, S)
  <2>1. ~Suppressed(NoSuppressions, e)
    BY DEF Suppressed, NoSuppressions
  <2>2. Filtered(filters, e.cat) <=> Off(f.path, e.cat)
    BY DEF OffInv, Placed
  <2> QED
    BY <2>1, <2>2 DEF ShouldPrint, Shown
<1> QED
  BY <1>1 DEF Printed, Shown

(* A comment that is parsed is one more that is heard of.                   *)
LEMMA ParsedHushes ==
  ASSUME NEW f, NEW N, NEW s, Hushes(s, f, N), NEW m
  PROVE  Hushes(Parsed(s, NoteOf(f, m), m), f, N \cup {m})
<1> DEFINE pair(k) == <<NoteOf(f, k).what, IF NoteOf(f, k).next THEN k + 1 ELSE k>>
           P(K) == {pair(k) : k \in NamedIn(f, K)}
<1>1. s = [lines |-> P(N), file |-> Marks(f)]
  BY Zenon DEF Hushes
<1>2. CASE NoteOf(f, m).in /\ NoteOf(f, m).what \in Categories \cup {All}
  <2>1. NamedIn(f, N \cup {m}) = NamedIn(f, N) \cup {m}
    BY <1>2 DEF NamedIn
  <2>2. P(N \cup {m}) = P(N) \cup {pair(m)}
    <3> HIDE DEF pair
    <3> QED
      BY <2>1
  <2>3. Parsed(s, NoteOf(f, m), m) = [s EXCEPT !.lines = @ \cup {pair(m)}]
    BY <1>2, Zenon DEF Parsed
  <2>4. [s EXCEPT !.lines = @ \cup {pair(m)}]
          = [lines |-> P(N) \cup {pair(m)}, file |-> Marks(f)]
    <3> HIDE DEF pair, P
    <3> QED
      BY <1>1
  <2>5. Parsed(s, NoteOf(f, m), m) = [lines |-> P(N \cup {m}), file |-> Marks(f)]
    <3> HIDE DEF pair, P
    <3> QED
      BY <2>2, <2>3, <2>4
  <2> QED
    BY <2>5, Zenon DEF Hushes
<1>3. CASE ~(NoteOf(f, m).in /\ NoteOf(f, m).what \in Categories \cup {All})
  <2>1. NamedIn(f, N \cup {m}) = NamedIn(f, N)
    BY <1>3 DEF NamedIn
  <2>2. Parsed(s, NoteOf(f, m), m) = s
    BY <1>3, Zenon DEF Parsed
  <2>3. P(N \cup {m}) = P(N)
    BY <2>1
  <2> QED
    BY <1>1, <2>2, <2>3, Zenon DEF Hushes
<1> QED
  BY <1>2, <1>3

(* The marks of the file alone.                                             *)
LEMMA MarksHush ==
  ASSUME NEW f
  PROVE  Hushes([NoSuppressions EXCEPT !.file = Marks(f)], f, {})
<1>1. NamedIn(f, {}) = {}
  BY DEF NamedIn
<1>2. [NoSuppressions EXCEPT !.file = Marks(f)] = [lines |-> {}, file |-> Marks(f)]
  BY DEF NoSuppressions
<1> QED
  BY <1>1, <1>2 DEF Hushes
-----------------------------------------------------------------------------
(* Each check finds errors of categories that exist.                        *)
LEMMA PlacedBy ==
  ASSUME NEW S, Placed(S), NEW who
  PROVE  Placed(By(who, S))
BY DEF Placed, By

LEMMA PlacedUnion ==
  ASSUME NEW S, Placed(S), NEW T, Placed(T)
  PROVE  Placed(S \cup T)
BY DEF Placed

LEMMA PlacedOpeners ==
  ASSUME NEW f, IsFile(f), NEW name
  PROVE  /\ Placed(CopyrightErrors(f)) /\ Placed(CommentErrors(f))
         /\ Placed(GuardError(0, 5))
         /\ Placed(IfndefErrors(f.guard, name)) /\ Placed(EndifErrors(f.guard, name))
<1>1. /\ Copyright \in Categories /\ Comment \in Categories /\ HeaderGuard \in Categories
  BY DEF Categories
<1>2. f.guard.ifndef \in Nat /\ f.guard.endif \in Nat /\ f.unclosed \in Nat
  BY DEF IsFile
<1>3. \A l \in Nat : \A c : Placed(GuardError(l, c))
  BY <1>1 DEF Placed, GuardError
<1>4. Placed(CopyrightErrors(f)) /\ Placed(CommentErrors(f))
  BY <1>1, <1>2 DEF Placed, CopyrightErrors, CommentErrors
<1>5. Placed({})
  BY DEF Placed
<1>6. Placed(IfndefErrors(f.guard, name)) /\ Placed(EndifErrors(f.guard, name))
  BY <1>2, <1>3, <1>5 DEF IfndefErrors, EndifErrors
<1> QED
  BY <1>3, <1>4, <1>6

LEMMA PlacedNote ==
  ASSUME NEW l \in Int, NEW note
  PROVE  Placed(UnknownNote(note, l)) /\ \A e \in UnknownNote(note, l) : e.line = l /\ e.cat = Nolint
<1>1. Nolint \in Categories
  BY DEF Categories
<1> QED
  BY <1>1 DEF Placed, UnknownNote

LEMMA PlacedLine ==
  ASSUME NEW f, IsFile(f), NEW l \in DOMAIN f.lines, NEW w
  PROVE  /\ l \in Int
         /\ Placed(LineErrors(f, l, w)) /\ \A e \in LineErrors(f, l, w) : e.line = l
<1>1. LineLength \in Categories
  BY DEF Categories
<1>2. l \in Int
  BY LenProperties DEF IsFile
<1>3. \A x \in f.lines[l].faults : x.cat \in Categories
  BY DEF IsFile
<1> QED
  BY <1>1, <1>2, <1>3 DEF Placed, LineErrors

LEMMA PlacedEnd ==
  ASSUME NEW f, IsFile(f)
  PROVE  /\ Placed(LateErrors(f)) /\ \A e \in LateErrors(f) : e.line \in DOMAIN f.lines
         /\ Placed(MixedEnds(f)) /\ \A e \in MixedEnds(f) : e.line \in DOMAIN f.lines
<1>1. Newline \in Categories
  BY DEF Categories
<1>2. \A l \in DOMAIN f.lines : l \in Int
  BY LenProperties DEF IsFile
<1>3. \A l \in DOMAIN f.lines : \A x \in f.lines[l].faults : x.cat \in Categories
  BY DEF IsFile
<1> QED
  BY <1>1, <1>2, <1>3 DEF Placed, LateErrors, MixedEnds
-----------------------------------------------------------------------------
(* What is heard of two sets of errors, is found by a check of them, or is  *)
(* logged of them, is that of the one and of the other.                     *)
LEMMA HeardUnion ==
  ASSUME NEW f, NEW S, NEW T, NEW N
  PROVE  /\ Heard(f, S \cup T, N) = Heard(f, S, N) \cup Heard(f, T, N)
         /\ Heard(f, {}, N) = {}
BY DEF Heard, Shown

LEMMA HeardHere ==
  ASSUME NEW f, NEW S, NEW N, NEW M,
         \A e \in S : Quieted(f, e.line, e.cat, N) <=> Quieted(f, e.line, e.cat, M)
  PROVE  Heard(f, S, N) = Heard(f, S, M)
BY DEF Heard, Shown

LEMMA ByUnion ==
  ASSUME NEW who, NEW S, NEW T
  PROVE  /\ By(who, S \cup T) = By(who, S) \cup By(who, T)
         /\ By(who, {}) = {}
BY DEF By

LEMMA LoggedUnion ==
  ASSUME NEW n, NEW S, NEW T
  PROVE  /\ Logged(n, S \cup T) = Logged(n, S) \cup Logged(n, T)
         /\ Logged(n, {}) = {}
BY DEF Logged

(* A line without a comment is no matter to NOLINT.                         *)
LEMMA Quiet ==
  ASSUME NEW f, NEW m, NoteOf(f, m).in
  PROVE  m \in DOMAIN f.lines
<1>1. ~NoNote.in
  BY DEF NoNote
<1> QED
  BY <1>1 DEF NoteOf

(* What is to be printed depends on the inputs and the verbosity.           *)
LEMMA SameHeard ==
  ASSUME UNCHANGED <<inputs, state>>
  PROVE  /\ \A f, S, N : Heard(f, S, N)' = Heard(f, S, N)
         /\ \A f, u : OpeningShown(f, u)' = OpeningShown(f, u)
         /\ \A f, u : Expected(f, u)' = Expected(f, u)
         /\ \A f, u, l : ShownBefore(f, u, l)' = ShownBefore(f, u, l)
<1>1. \A f, S : Shown(f, S)' = Shown(f, S)
  BY SameSayings DEF Shown
<1>2. \A f, S, N : Heard(f, S, N)' = Heard(f, S, N)
  BY <1>1 DEF Heard, Quieted
<1>3. \A f, u : GuardShown(f, u)' = GuardShown(f, u)
  BY <1>2 DEF GuardShown
<1>4. \A f, u : OpeningShown(f, u)' = OpeningShown(f, u)
  BY <1>1, <1>2, <1>3 DEF OpeningShown
<1>5. \A f, u : Expected(f, u)' = Expected(f, u)
  BY <1>2, <1>4 DEF Expected
<1>6. \A f, u, l : ShownBefore(f, u, l)' = ShownBefore(f, u, l)
  BY <1>2, <1>4 DEF ShownBefore
<1> QED
  BY <1>2, <1>4, <1>5, <1>6
-----------------------------------------------------------------------------
(* ProcessFileData before the first line: the header guard is judged with   *)
(* the comments on its own lines parsed early, one after the other.         *)
LEMMA StartHeard ==
  ASSUME OffInv, pc = "read", NEW f, f = File, IsFile(f), NEW u, u = opt
  PROVE  /\ Start(f).errors = OpeningShown(f, u)
         /\ Hushes(Start(f).supp, f, EarlyLines(f, u))
<1> DEFINE none == NoSuppressions
           file == [none EXCEPT !.file = Marks(f)]
           name == GuardName(f.path, u.root)
           g == f.guard
           wrong == IfndefErrors(g, name) # {}
           one == IF wrong THEN Parsed(file, NoteOf(f, g.ifndef), g.ifndef) ELSE file
           two == Parsed(one, NoteOf(f, g.endif), g.endif)
           note(l) == By("guardnote", UnknownNote(NoteOf(f, l), l))
           early == IfndefLine(f, u)
           cr == By("copyright", CopyrightErrors(f))
           co == By("comment", CommentErrors(f))
           lone == By("guard", GuardError(0, 5))
           second == By("guard", IfndefErrors(g, name)) \cup note(g.endif)
           third == By("endif", EndifErrors(g, name))
           opening == Printed(none, cr) \cup Printed(file, co)
<1>1. g.ifndef \in Nat /\ g.endif \in Nat
  BY DEF IsFile
<1>2. /\ Placed(cr) /\ Placed(co) /\ Placed(lone) /\ Placed(third)
      /\ Placed(note(g.ifndef)) /\ Placed(second)
  <2>1. /\ Placed(CopyrightErrors(f)) /\ Placed(CommentErrors(f))
        /\ Placed(GuardError(0, 5))
        /\ Placed(IfndefErrors(g, name)) /\ Placed(EndifErrors(g, name))
    <3> HIDE DEF name
    <3> QED
      BY PlacedOpeners
  <2>2. \A l \in Nat : Placed(note(l))
    BY PlacedNote, PlacedBy
  <2>3. Placed(By("guard", IfndefErrors(g, name)))
    <3> HIDE DEF name, g
    <3> QED
      BY <2>1, PlacedBy
  <2>4. Placed(note(g.endif))
    BY <1>1, <2>2
  <2>5. Placed(second)
    <3> HIDE DEF note, name, g
    <3> QED
      BY <2>3, <2>4, PlacedUnion
  <2> QED
    BY <1>1, <2>1, <2>2, <2>5, PlacedBy
<1>3. /\ Hushes(file, f, {}) /\ Hushes(one, f, early) /\ Hushes(two, f, early \cup {g.endif})
      /\ early \in SUBSET Int /\ {} \in SUBSET Int /\ early \cup {g.endif} \in SUBSET Int
      /\ early = IF wrong THEN {g.ifndef} ELSE {}
  <2>1. early = IF wrong THEN {g.ifndef} ELSE {}
    BY DEF IfndefLine
  <2>2. Hushes(file, f, {})
    BY MarksHush
  <2> HIDE DEF file, early, wrong
  <2>3. Hushes(one, f, early)
    <3>1. CASE wrong
      <4>1. Hushes(Parsed(file, NoteOf(f, g.ifndef), g.ifndef), f, {} \cup {g.ifndef})
        BY <2>2, ParsedHushes
      <4>2. {} \cup {g.ifndef} = early
        BY <2>1, <3>1
      <4> QED
        BY <3>1, <4>1, <4>2
    <3>2. CASE ~wrong
      BY <2>1, <2>2, <3>2
    <3> QED
      BY <3>1, <3>2
  <2> HIDE DEF one
  <2>4. Hushes(two, f, early \cup {g.endif})
    BY <2>3, ParsedHushes
  <2>5. early \in SUBSET Int
    BY <1>1, <2>1
  <2> QED
    BY <1>1, <2>1, <2>2, <2>3, <2>4, <2>5
<1>4. /\ Printed(none, cr) = Shown(f, cr)
      /\ Printed(file, co) = Heard(f, co, {})
      /\ Printed(file, lone) = Heard(f, lone, {})
      /\ Printed(file, note(g.ifndef)) = Heard(f, note(g.ifndef), {})
      /\ Printed(one, second) = Heard(f, second, early)
      /\ Printed(two, third) = Heard(f, third, early \cup {g.endif})
  <2>1. Printed(none, cr) = Shown(f, cr)
    <3> HIDE DEF cr
    <3> QED
      BY <1>2, PrintedShown
  <2> HIDE DEF file, one, two, early, cr, co, lone, second, third, note, g
  <2>2. /\ Printed(file, co) = Heard(f, co, {})
        /\ Printed(file, lone) = Heard(f, lone, {})
        /\ Printed(file, note(g.ifndef)) = Heard(f, note(g.ifndef), {})
    BY <1>2, <1>3, PrintedHeard
  <2>3. Printed(one, second) = Heard(f, second, early)
    BY <1>2, <1>3, PrintedHeard
  <2>4. Printed(two, third) = Heard(f, third, early \cup {g.endif})
    BY <1>2, <1>3, PrintedHeard
  <2> QED
    BY <2>1, <2>2, <2>3, <2>4
<1>5. CASE ~GuardChecked(f)
  <2>1. Start(f) = [supp |-> file, errors |-> opening]
    BY <1>5, Zenon DEF Start
  <2>2. GuardShown(f, u) = {} /\ EarlyLines(f, u) = {}
    BY <1>5 DEF GuardShown, EarlyLines, GuardChecked
  <2>3. OpeningShown(f, u) = Shown(f, cr) \cup Heard(f, co, {})
    BY <2>2 DEF OpeningShown
  <2> HIDE DEF file, cr, co
  <2> QED
    BY <1>3, <1>4, <2>1, <2>2, <2>3
<1>6. CASE GuardChecked(f) /\ g.ifndef = 0
  <2>1. Start(f) = [supp |-> file, errors |-> opening \cup Printed(file, lone)]
    BY <1>6, Zenon DEF Start
  <2>2. GuardShown(f, u) = Heard(f, lone, {}) /\ EarlyLines(f, u) = {}
    BY <1>6 DEF GuardShown, EarlyLines, GuardChecked
  <2>3. OpeningShown(f, u) = Shown(f, cr) \cup Heard(f, co, {}) \cup Heard(f, lone, {})
    BY <2>2 DEF OpeningShown
  <2> HIDE DEF file, cr, co, lone
  <2> QED
    BY <1>3, <1>4, <2>1, <2>2, <2>3
<1>7. CASE GuardChecked(f) /\ g.ifndef # 0
  <2>1. Start(f) = [supp |-> two,
                    errors |-> opening
                      \cup (IF wrong THEN Printed(file, note(g.ifndef)) ELSE {})
                      \cup Printed(one, second)
                      \cup Printed(two, third)]
    BY <1>7, Zenon DEF Start
  <2>2. /\ GuardShown(f, u) = Heard(f, UNION {note(l) : l \in early}, {})
                              \cup Heard(f, second, early)
                              \cup Heard(f, third, early \cup {g.endif})
        /\ EarlyLines(f, u) = early \cup {g.endif}
    BY <1>7, Zenon DEF GuardShown, EarlyLines, GuardChecked
  <2>3. OpeningShown(f, u) = Shown(f, cr) \cup Heard(f, co, {}) \cup GuardShown(f, u)
    BY DEF OpeningShown
  <2>4. Heard(f, UNION {note(l) : l \in early}, {})
          = IF wrong THEN Heard(f, note(g.ifndef), {}) ELSE {}
    <3> HIDE DEF wrong, note, early
    <3>1. UNION {note(l) : l \in early} = IF wrong THEN note(g.ifndef) ELSE {}
      BY <1>3
    <3> QED
      BY <3>1, HeardUnion
  <2>5. (IF wrong THEN Printed(file, note(g.ifndef)) ELSE {})
          = Heard(f, UNION {note(l) : l \in early}, {})
    <3> HIDE DEF wrong, note, early, file
    <3> QED
      BY <1>4, <2>4
  <2>6. opening = Shown(f, cr) \cup Heard(f, co, {})
    BY <1>4, Zenon
  <2> DEFINE all == UNION {note(l) : l \in early}
             p == IF wrong THEN Printed(file, note(g.ifndef)) ELSE {}
  <2>7. Start(f).errors = OpeningShown(f, u) /\ Start(f).supp = two
    <3>1. /\ Start(f).supp = two
          /\ Start(f).errors = opening \cup p \cup Printed(one, second) \cup Printed(two, third)
      <4> HIDE DEF p, opening, second, third, one, two
      <4> QED
        BY <2>1 DEF p
    <3>2. p = Heard(f, all, {})
      BY <2>5, Zenon
    <3> HIDE DEF p, opening, second, third, one, two, all, early, cr, co
    <3> QED
      BY <1>4, <2>2, <2>3, <2>6, <3>1, <3>2 DEF all
  <2> HIDE DEF two, early
  <2> QED
    BY <1>3, <2>2, <2>7
<1> QED
  BY <1>5, <1>6, <1>7

(* The lines whose comments are parsed early have numbers.                  *)
LEMMA EarlyAreLines ==
  ASSUME NEW f, IsFile(f), NEW u
  PROVE  EarlyLines(f, u) \in SUBSET Int
<1>1. f.guard.ifndef \in Int /\ f.guard.endif \in Int
  BY DEF IsFile
<1>2. IfndefLine(f, u) \in SUBSET Int
  BY <1>1 DEF IfndefLine
<1> QED
  BY <1>1, <1>2 DEF EarlyLines

(* The comment of a line is parsed after those of the lines before.         *)
LEMMA LineHushes ==
  ASSUME NEW f, IsFile(f), NEW u, NEW l, l \in DOMAIN f.lines,
         NEW s, Hushes(s, f, EarlyLines(f, u) \cup 1..(l - 1))
  PROVE  Hushes(Parsed(s, f.lines[l].note, l), f, EarlyLines(f, u) \cup 1..l)
<1> DEFINE E == EarlyLines(f, u)
           N == E \cup 1..(l - 1)
<1>1. l \in Nat \ {0}
  BY LenProperties DEF IsFile
<1>2. NoteOf(f, l) = f.lines[l].note
  BY DEF NoteOf
<1>3. N \cup {l} = E \cup 1..l
  BY <1>1
<1> HIDE DEF E
<1>4. Hushes(s, f, N)
  BY DEF E
<1> HIDE DEF N
<1>5. Hushes(Parsed(s, NoteOf(f, l), l), f, N \cup {l})
  BY <1>4, ParsedHushes
<1> QED
  BY <1>2, <1>3, <1>5 DEF E

(* ProcessLine: only comments on the line and above it are about its errors, *)
(* and these were parsed.                                                   *)
LEMMA LineHeard ==
  ASSUME OffInv, pc = "lines", NEW f, f = File, IsFile(f), NEW u,
         NEW l, l \in DOMAIN f.lines,
         NEW s, Hushes(s, f, EarlyLines(f, u) \cup 1..(l - 1)),
         NEW A, A = By("note", UnknownNote(f.lines[l].note, l)),
         NEW B, B = By("line", LineErrors(f, l, u.width)),
         NEW t, t = Parsed(s, f.lines[l].note, l)
  PROVE  /\ Printed(s, A) = Heard(f, A, DOMAIN f.lines)
         /\ Printed(t, B) = Heard(f, B, DOMAIN f.lines)
<1> DEFINE D == DOMAIN f.lines
           E == EarlyLines(f, u)
           w == u.width
<1>1. D = 1..Len(f.lines) /\ Len(f.lines) \in Nat /\ l \in 1..Len(f.lines)
  BY LenProperties DEF IsFile
<1>2. E \in SUBSET Int /\ 1..(l - 1) \in SUBSET Int /\ 1..l \in SUBSET Int
  <2>1. E \in SUBSET Int
    BY EarlyAreLines
  <2> QED
    BY <2>1, <1>1
<1>3. NoteOf(f, l) = f.lines[l].note
  BY DEF NoteOf
<1>4. Placed(A) /\ \A e \in A : e.line = l /\ e.cat = Nolint /\ e.cat \in Categories
                                /\ NoteOf(f, l).what \notin {All, e.cat}
  <2>1. Nolint \in Categories
    BY DEF Categories
  <2>2. Placed(UnknownNote(f.lines[l].note, l))
    BY <1>1, PlacedNote
  <2>3. \A e \in UnknownNote(f.lines[l].note, l) :
          e.line = l /\ e.cat = Nolint /\ f.lines[l].note.what \notin Categories \cup {All}
    BY DEF UnknownNote
  <2>4. \A e \in A : e.line = l /\ e.cat = Nolint /\ f.lines[l].note.what \notin Categories \cup {All}
    BY <2>3 DEF By
  <2>5. Placed(A)
    BY <2>2, PlacedBy
  <2> QED
    BY <1>3, <2>1, <2>4, <2>5
<1>5. Placed(B) /\ \A e \in B : e.line = l
  <2>1. Placed(LineErrors(f, l, w)) /\ \A e \in LineErrors(f, l, w) : e.line = l
    BY PlacedLine
  <2>2. \A e \in B : e.line = l
    <3> DEFINE T == LineErrors(f, l, w)
    <3>1. \A e \in By("line", T) : \E x \in T : e.line = x.line
      BY DEF By
    <3> QED
      BY <2>1, <3>1
  <2>3. Placed(B)
    BY <2>1, PlacedBy
  <2> QED
    BY <2>2, <2>3
<1>6. Hushes(t, f, E \cup 1..l)
  BY LineHushes
<1> HIDE DEF E, D
<1>7. Printed(s, A) = Heard(f, A, E \cup 1..(l - 1))
  BY <1>2, <1>4, PrintedHeard DEF E
<1>8. Printed(t, B) = Heard(f, B, E \cup 1..l)
  BY <1>2, <1>5, <1>6, PrintedHeard
<1>9. Heard(f, A, E \cup 1..(l - 1)) = Heard(f, A, D)
  <2>1. PICK N : N = E \cup 1..(l - 1)
    OBVIOUS
  <2> SUFFICES ASSUME NEW e \in A
               PROVE  Quieted(f, l, e.cat, N) <=> Quieted(f, l, e.cat, D)
    <3>1. \A e \in A : Quieted(f, e.line, e.cat, N) <=> Quieted(f, e.line, e.cat, D)
      BY <1>4
    <3>2. Heard(f, A, N) = Heard(f, A, D)
      BY <3>1, HeardHere
    <3> QED
      BY <2>1, <3>2
  <2>2. ASSUME NEW m \in {l, l - 1}, NoteOf(f, m).in, NoteOf(f, m).what \in {All, e.cat}
        PROVE  m \in N <=> m \in D
    <3>1. m # l
      BY <1>4, <2>2
    <3>2. m \in D
      BY <2>2, Quiet DEF D
    <3>3. m \in 1..(l - 1)
      BY <1>1, <3>1, <3>2
    <3> QED
      BY <2>1, <3>2, <3>3
  <2> QED
    BY <2>2, QuietedHere
<1>10. Heard(f, B, E \cup 1..l) = Heard(f, B, D)
  <2>1. PICK N : N = E \cup 1..l
    OBVIOUS
  <2> SUFFICES ASSUME NEW e \in B
               PROVE  Quieted(f, l, e.cat, N) <=> Quieted(f, l, e.cat, D)
    <3>1. \A e \in B : Quieted(f, e.line, e.cat, N) <=> Quieted(f, e.line, e.cat, D)
      BY <1>5
    <3>2. Heard(f, B, N) = Heard(f, B, D)
      BY <3>1, HeardHere
    <3> QED
      BY <2>1, <3>2
  <2>2. ASSUME NEW m \in {l, l - 1}, NoteOf(f, m).in, NoteOf(f, m).what \in {All, e.cat}
        PROVE  m \in N <=> m \in D
    <3>1. m \in D
      BY <2>2, Quiet DEF D
    <3>2. m \in 1..l
      BY <1>1, <3>1
    <3> QED
      BY <2>1, <3>1, <3>2
  <2> QED
    BY <2>2, QuietedHere
<1> QED
  BY <1>7, <1>8, <1>9, <1>10 DEF D, E

(* FinishFile: all comments were parsed.                                    *)
LEMMA EndHeard ==
  ASSUME OffInv, pc = "lines", NEW f, f = File, IsFile(f), NEW u,
         NEW s, Hushes(s, f, EarlyLines(f, u) \cup 1..Len(f.lines))
  PROVE  Printed(s, EndFindings(f)) = Heard(f, EndFindings(f), DOMAIN f.lines)
<1> DEFINE D == DOMAIN f.lines
           N == EarlyLines(f, u) \cup 1..Len(f.lines)
           S == EndFindings(f)
<1>1. D = 1..Len(f.lines) /\ Len(f.lines) \in Nat
  BY LenProperties DEF IsFile
<1>2. N \in SUBSET Int
  BY <1>1, EarlyAreLines
<1>3. Placed(S)
  BY PlacedEnd, PlacedBy, PlacedUnion DEF EndFindings
<1> HIDE DEF S
<1>4. Printed(s, S) = Heard(f, S, N)
  <2> HIDE DEF N
  <2> QED
    BY <1>2, <1>3, PrintedHeard DEF N
<1>5. Heard(f, S, N) = Heard(f, S, D)
  <2> SUFFICES ASSUME NEW e \in S
               PROVE  Quieted(f, e.line, e.cat, N) <=> Quieted(f, e.line, e.cat, D)
    BY DEF Heard, Shown
  <2>1. ASSUME NEW m, NoteOf(f, m).in
        PROVE  m \in N /\ m \in D
    BY <1>1, <2>1, Quiet
  <2> HIDE DEF N, D
  <2> QED
    BY <2>1, QuietedHere
<1> QED
  BY <1>4, <1>5 DEF S
-----------------------------------------------------------------------------
(* The findings of the lines up to one are those of the lines before, with  *)
(* its own.                                                                 *)
LEMMA OneLine ==
  ASSUME NEW f, NEW u, NEW l \in Nat \ {0}
  PROVE  /\ LineFindings(f, u, 1..l)
              = LineFindings(f, u, 1..(l - 1))
                \cup (By("note", UnknownNote(NoteOf(f, l), l))
                      \cup By("line", LineErrors(f, l, u.width)))
         /\ LineFindings(f, u, {}) = {}
<1> DEFINE A(m) == UnknownNote(NoteOf(f, m), m)
           B(m) == LineErrors(f, m, u.width)
<1>1. 1..l = 1..(l - 1) \cup {l}
  OBVIOUS
<1>2. \A L : LineFindings(f, u, L) = By("line", UNION {B(m) : m \in L})
                                     \cup By("note", UNION {A(m) : m \in L})
  BY Zenon DEF LineFindings
<1> HIDE DEF A, B
<1>3. /\ UNION {A(m) : m \in 1..l} = (UNION {A(m) : m \in 1..(l - 1)}) \cup A(l)
      /\ UNION {B(m) : m \in 1..l} = (UNION {B(m) : m \in 1..(l - 1)}) \cup B(l)
  <2> DEFINE AA(n) == {A(m) : m \in 1..n}
             BB(n) == {B(m) : m \in 1..n}
  <2>1. AA(l) = AA(l - 1) \cup {A(l)} /\ BB(l) = BB(l - 1) \cup {B(l)}
    BY <1>1
  <2>2. \A X, y : UNION (X \cup {y}) = (UNION X) \cup y
    OBVIOUS
  <2> HIDE DEF AA, BB
  <2>3. /\ UNION AA(l) = (UNION AA(l - 1)) \cup A(l)
        /\ UNION BB(l) = (UNION BB(l - 1)) \cup B(l)
    BY <2>1, <2>2
  <2> QED
    BY <2>3 DEF AA, BB
<1>4. UNION {A(m) : m \in {}} = {} /\ UNION {B(m) : m \in {}} = {}
  OBVIOUS
<1>5. LineFindings(f, u, {}) = {}
  BY <1>2, <1>4, ByUnion
<1>6. LineFindings(f, u, 1..l)
        = LineFindings(f, u, 1..(l - 1)) \cup (By("note", A(l)) \cup By("line", B(l)))
  <2> DEFINE AA(n) == UNION {A(m) : m \in 1..n}
             BB(n) == UNION {B(m) : m \in 1..n}
  <2>1. AA(l) = AA(l - 1) \cup A(l) /\ BB(l) = BB(l - 1) \cup B(l)
    BY <1>3
  <2>2. \A n : LineFindings(f, u, 1..n) = By("line", BB(n)) \cup By("note", AA(n))
    BY <1>2
  <2> HIDE DEF AA, BB
  <2>3. /\ By("line", BB(l)) = By("line", BB(l - 1)) \cup By("line", B(l))
        /\ By("note", AA(l)) = By("note", AA(l - 1)) \cup By("note", A(l))
    BY <2>1, ByUnion
  <2> QED
    BY <2>2, <2>3
<1> QED
  BY <1>5, <1>6 DEF A, B
-----------------------------------------------------------------------------
(* The file that is being checked, while its lines are next.                *)
LEMMA CheckedFile ==
  ASSUME IInv, pc \in Busy
  PROVE  /\ IsFile(File) /\ Number \in Nat \ {0} /\ Number \notin Done
         /\ Len(File.lines) \in Nat /\ DOMAIN File.lines = 1..Len(File.lines)
         /\ pc = "lines" => line \in 1..(Len(File.lines) + 1)
<1>1. IsFile(File) /\ Number \in 1..Len(cmd.files)
  BY ThisFile DEF IInv, TodoInv
<1>2. Number \in Nat \ {0} /\ Number \notin Done
  BY <1>1 DEF Done
<1>3. Len(File.lines) \in Nat /\ DOMAIN File.lines = 1..Len(File.lines)
  BY <1>1, LenProperties DEF IsFile
<1>4. pc = "lines" => line \in 1..(Len(File.lines) + 1)
  BY DEF IInv, LogInv
<1> QED
  BY <1>1, <1>2, <1>3, <1>4

(* Every other step ends the checking or leaves it alone.                   *)
LEMMA Elsewhere ==
  ASSUME [Next]_vars, ~StartFile, ~ProcessLine, pc' = "lines"
  PROVE  UNCHANGED vars
<1>1. CASE TakeOption
  <2>1. pc = "args" /\ (Quits(IF Lists(cmd.options[row]) THEN 0 ELSE 1) \/ pc' = pc)
    BY <1>1, Zenon DEF TakeOption
  <2>2. \A status : Quits(status) => pc' = "end"
    BY DEF Quits
  <2> QED
    BY <2>1, <2>2
<1>2. CASE \/ ParseArguments \/ BeginFile \/ LookUp \/ Exclude \/ TakeSetting
           \/ CloseConfig \/ ApplyFilters \/ Unreadable \/ Ignored \/ FinishFile \/ Finish
  BY <1>2 DEF ParseArguments, BeginFile, LookUp, Exclude, TakeSetting, CloseConfig,
              ApplyFilters, Unreadable, Ignored, FinishFile, Finish, Quits, NextFile
<1> QED
  BY <1>1, <1>2 DEF Next

(* The suppressions are those of the file, and nothing of the file before.  *)
LEMMA SuppKeeps ==
  ASSUME IInv, OffInv, SuppInv, [Next]_vars
  PROVE  SuppInv'
<1>1. CASE StartFile
  <2>1. /\ pc = "read" /\ line' = 1 /\ supp' = Start(File).supp
        /\ UNCHANGED <<inputs, todo, opt>>
    BY <1>1 DEF StartFile
  <2>2. IsFile(File) /\ File' = File
    BY <2>1, CheckedFile DEF Busy, File, inputs
  <2>3. PICK f, u : f = File /\ u = opt
    OBVIOUS
  <2>4. Hushes(Start(f).supp, f, EarlyLines(f, u))
    BY <2>1, <2>2, <2>3, StartHeard
  <2>5. EarlyLines(f, u) \cup 1..(line' - 1) = EarlyLines(f, u)
    BY <2>1
  <2>6. Hushes(supp', f, EarlyLines(f, u) \cup 1..(line' - 1))
    BY <2>1, <2>3, <2>4, <2>5
  <2> QED
    BY <2>1, <2>2, <2>3, <2>6 DEF SuppInv
<1>2. CASE ProcessLine
  <2>1. /\ pc = "lines" /\ line' = line + 1 /\ line <= Len(File.lines)
        /\ supp' = Parsed(supp, File.lines[line].note, line)
        /\ UNCHANGED <<inputs, todo, opt>>
    BY <1>2 DEF ProcessLine
  <2>2. IsFile(File) /\ File' = File /\ line \in DOMAIN File.lines
    BY <2>1, CheckedFile DEF Busy, File, inputs
  <2>3. PICK f, u, l, s : f = File /\ u = opt /\ l = line /\ s = supp
    OBVIOUS
  <2>4. Hushes(s, f, EarlyLines(f, u) \cup 1..(l - 1))
    BY <2>1, <2>3 DEF SuppInv
  <2>5. Hushes(Parsed(s, f.lines[l].note, l), f, EarlyLines(f, u) \cup 1..l)
    BY <2>2, <2>3, <2>4, LineHushes
  <2>6. line' - 1 = l
    BY <2>1, <2>2, <2>3, CheckedFile DEF Busy
  <2>7. Hushes(supp', f, EarlyLines(f, u) \cup 1..(line' - 1))
    BY <2>1, <2>3, <2>5, <2>6
  <2> QED
    BY <2>1, <2>2, <2>3, <2>7 DEF SuppInv
<1>3. CASE pc' = "lines" /\ ~StartFile /\ ~ProcessLine
  <2>1. UNCHANGED vars
    BY <1>3, Elsewhere
  <2>2. File' = File /\ UNCHANGED <<pc, supp, opt, line>>
    BY <2>1 DEF vars, File, inputs
  <2> QED
    BY <2>2 DEF SuppInv
<1>4. CASE pc' # "lines"
  BY <1>4 DEF SuppInv
<1> QED
  BY <1>1, <1>2, <1>3, <1>4

(* The errors of one file, when errors of one are printed.                  *)
LEMMA LogOf ==
  ASSUME NEW n, NEW S, NEW T, log' = log \cup Logged(n, S),
         {e \in log : e.file = n} = Logged(n, T)
  PROVE  {e \in log' : e.file = n} = Logged(n, T \cup S)
<1>1. \A e \in Logged(n, S) : e.file = n
  BY DEF Logged
<1>2. {e \in log' : e.file = n} = {e \in log : e.file = n} \cup Logged(n, S)
  BY <1>1
<1> QED
  BY <1>2, LoggedUnion

LEMMA LogOfOthers ==
  ASSUME NEW n, NEW S, log' = log \cup Logged(n, S), NEW k, k # n
  PROVE  {e \in log' : e.file = k} = {e \in log : e.file = k}
<1>1. \A e \in Logged(n, S) : e.file = n
  BY DEF Logged
<1> QED
  BY <1>1

(* The errors printed of the file that is being checked are those found so  *)
(* far that neither filters nor comments turn off.                          *)
LEMMA LogKeeps ==
  ASSUME IInv, OffInv, SuppInv, OwnLog, [Next]_vars
  PROVE  OwnLog'
<1>1. CASE StartFile
  <2>1. /\ pc = "read" /\ line' = 1 /\ log' = log \cup Logged(Number, Start(File).errors)
        /\ used' = Append(used, [file |-> Number, opt |-> opt])
        /\ UNCHANGED <<inputs, todo, opt, state>>
    BY <1>1 DEF StartFile, Reports
  <2>2. /\ IsFile(File) /\ Number \notin Done
        /\ File' = File /\ Number' = Number
    BY <2>1, CheckedFile DEF Busy, File, Number, inputs
  <2>3. PICK f, u, n : f = File /\ u = opt /\ n = Number
    OBVIOUS
  <2>4. \A x \in Range(used') : x.file = n => x.opt = u
    <3>1. Range(used') = Range(used) \cup {[file |-> n, opt |-> u]}
      BY <2>1, <2>3, AppendRange DEF IInv, UsedInv
    <3>2. \A x \in Range(used) : x.file \in Done
      BY <2>1 DEF IInv, UsedInv
    <3> QED
      BY <2>2, <2>3, <3>1, <3>2
  <2>5. PICK S : S = OpeningShown(f, u)
    OBVIOUS
  <2>6. {e \in log' : e.file = n} = Logged(n, S)
    <3>1. Start(f).errors = S
      BY <2>1, <2>2, <2>3, <2>5, StartHeard
    <3>2. {e \in log : e.file = n} = Logged(n, {})
      BY <2>1, <2>3, LoggedUnion DEF IInv, LogInv
    <3>3. log' = log \cup Logged(n, S)
      BY <2>1, <2>3, <3>1
    <3>4. {} \cup S = S
      OBVIOUS
    <3> QED
      BY <3>2, <3>3, <3>4, LogOf
  <2>7. ShownBefore(f, u, line') = S
    <3>1. 1..(line' - 1) = {} /\ 1 \in Nat \ {0}
      BY <2>1
    <3>2. LineFindings(f, u, {}) = {}
      BY <3>1, OneLine
    <3>3. Heard(f, {}, DOMAIN f.lines) = {}
      BY HeardUnion
    <3> QED
      BY <2>1, <2>5, <3>1, <3>2, <3>3 DEF ShownBefore
  <2>8. {e \in log' : e.file = n} = Logged(n, ShownBefore(f, u, 1)')
    BY <2>1, <2>6, <2>7, SameHeard
  <2> QED
    BY <2>1, <2>2, <2>3, <2>4, <2>8 DEF OwnLog
<1>2. CASE ProcessLine
  <2> DEFINE note == File.lines[line].note
             s == Parsed(supp, note, line)
             S == Printed(supp, By("note", UnknownNote(note, line)))
                  \cup Printed(s, By("line", LineErrors(File, line, opt.width)))
  <2>1. /\ pc = "lines" /\ line' = line + 1 /\ line <= Len(File.lines)
        /\ log' = log \cup Logged(Number, S)
        /\ UNCHANGED <<inputs, todo, opt, state, used>>
    BY <1>2 DEF ProcessLine, Reports
  <2>2. /\ IsFile(File) /\ line \in DOMAIN File.lines /\ line \in Nat \ {0}
        /\ File' = File /\ Number' = Number
    BY <2>1, CheckedFile DEF Busy, File, Number, inputs
  <2>3. PICK f, u, n, l, q, r : /\ f = File /\ u = opt /\ n = Number /\ l = line
                                /\ q = supp /\ r = Parsed(q, f.lines[l].note, l)
    OBVIOUS
  <2>4. PICK A, B : /\ A = By("note", UnknownNote(f.lines[l].note, l))
                    /\ B = By("line", LineErrors(f, l, u.width))
    OBVIOUS
  <2> DEFINE D == DOMAIN f.lines
             before == LineFindings(f, u, 1..(l - 1))
             after == LineFindings(f, u, 1..l)
  <2>5. S = Heard(f, A, D) \cup Heard(f, B, D)
    <3>1. Hushes(q, f, EarlyLines(f, u) \cup 1..(l - 1))
      BY <2>1, <2>3 DEF SuppInv
    <3>2. S = Printed(q, A) \cup Printed(r, B)
      BY <2>3, <2>4
    <3>3. Printed(q, A) = Heard(f, A, D) /\ Printed(r, B) = Heard(f, B, D)
      <4>1. /\ IsFile(f) /\ l \in DOMAIN f.lines /\ f = File /\ pc = "lines"
            /\ r = Parsed(q, f.lines[l].note, l)
        BY <2>1, <2>2, <2>3
      <4> QED
        BY <2>4, <3>1, <4>1, LineHeard
    <3> HIDE DEF S, D
    <3> QED
      BY <3>2, <3>3
  <2>6. after = before \cup (A \cup B)
    <3>1. NoteOf(f, l) = f.lines[l].note
      BY <2>2, <2>3 DEF NoteOf
    <3>2. after = before \cup (By("note", UnknownNote(NoteOf(f, l), l))
                             \cup By("line", LineErrors(f, l, u.width)))
      BY <2>2, <2>3, OneLine
    <3> QED
      BY <2>4, <3>1, <3>2
  <2> HIDE DEF S, D, before, after
  <2>7. Heard(f, after, D) = Heard(f, before, D) \cup S
    <3>1. Heard(f, A \cup B, D) = S
      BY <2>5, HeardUnion
    <3> QED
      BY <2>6, <3>1, HeardUnion
  <2>8. PICK T, V : T = ShownBefore(f, u, l) /\ V = S
    OBVIOUS
  <2>9. {e \in log' : e.file = n} = Logged(n, T \cup V)
    <3>1. {e \in log : e.file = n} = Logged(n, T)
      BY <2>1, <2>3, <2>8 DEF OwnLog
    <3>2. log' = log \cup Logged(n, V)
      BY <2>1, <2>3, <2>8
    <3> QED
      BY <3>1, <3>2, LogOf
  <2>10. T \cup V = ShownBefore(f, u, l + 1)
    <3>1. (l + 1) - 1 = l
      BY <2>2, <2>3
    <3> QED
      BY <2>7, <2>8, <3>1 DEF ShownBefore, before, after, D
  <2>11. {e \in log' : e.file = n} = Logged(n, ShownBefore(f, u, l + 1)')
    BY <2>1, <2>9, <2>10, SameHeard
  <2> QED
    BY <2>1, <2>2, <2>3, <2>11 DEF OwnLog
<1>3. CASE pc' = "lines" /\ ~StartFile /\ ~ProcessLine
  <2>1. UNCHANGED vars
    BY <1>3, Elsewhere
  <2>2. /\ File' = File /\ Number' = Number
        /\ UNCHANGED <<inputs, state, pc, opt, line, used, log>>
    BY <2>1 DEF vars, stats, File, Number, inputs
  <2>3. ShownBefore(File, opt, line)' = ShownBefore(File, opt, line)
    BY <2>2, SameHeard
  <2> QED
    BY <2>2, <2>3 DEF OwnLog
<1>4. CASE pc' # "lines"
  BY <1>4 DEF OwnLog
<1> QED
  BY <1>1, <1>2, <1>3, <1>4
-----------------------------------------------------------------------------
(* The report on the k-th file is as it should be.                          *)
OwnReport(k) ==
  {e \in log : e.file = k} =
    UNION {Logged(k, Expected(disk[cmd.files[k]], u.opt)) :
             u \in {x \in Range(used) : x.file = k}}

(* A step that is about another file leaves it so.                          *)
LEMMA SameReport ==
  ASSUME UNCHANGED <<inputs, state>>, NEW k,
         {e \in log' : e.file = k} = {e \in log : e.file = k},
         {x \in Range(used') : x.file = k} = {x \in Range(used) : x.file = k},
         OwnReport(k)
  PROVE  OwnReport(k)'
<1>1. disk' = disk /\ cmd' = cmd
  BY DEF inputs
<1>2. \A u : Expected(disk[cmd.files[k]], u)' = Expected(disk[cmd.files[k]], u)
  BY <1>1, SameHeard
<1> QED
  BY <1>2 DEF OwnReport

(* What is to be printed of the whole file.                                 *)
LEMMA WholeFile ==
  ASSUME NEW f, NEW u, NEW n, DOMAIN f.lines = 1..n, NEW l, l - 1 = n
  PROVE  Expected(f, u) = ShownBefore(f, u, l) \cup Heard(f, EndFindings(f), DOMAIN f.lines)
BY DEF Expected, ShownBefore

(* When the checking of a file ends, its report is as it should be.         *)
LEMMA OwnAtEnd ==
  ASSUME IInv, OffInv, SuppInv, OwnLog, FinishFile, NEW n, n = Number
  PROVE  OwnReport(n)' /\ log' = log \cup Logged(n, Printed(supp, EndFindings(File)))
<1>1. /\ pc = "lines" /\ line = Len(File.lines) + 1
      /\ log' = log \cup Logged(Number, Printed(supp, EndFindings(File)))
      /\ UNCHANGED <<inputs, state, used>>
  BY DEF FinishFile, Reports, EndFindings
<1>2. /\ IsFile(File) /\ Len(File.lines) \in Nat /\ DOMAIN File.lines = 1..Len(File.lines)
      /\ File = disk[cmd.files[Number]]
  BY <1>1, CheckedFile, ThisFile DEF Busy, IInv, TodoInv
<1>3. PICK f, u, q : f = File /\ u = opt /\ n = Number /\ q = supp
  OBVIOUS
<1>4. PICK S, T : S = Heard(f, EndFindings(f), DOMAIN f.lines) /\ T = ShownBefore(f, u, line)
  OBVIOUS
<1>5. Printed(q, EndFindings(f)) = S
  <2>1. Hushes(q, f, EarlyLines(f, u) \cup 1..(line - 1))
    BY <1>1, <1>3 DEF SuppInv
  <2>2. line - 1 = Len(f.lines)
    BY <1>1, <1>2, <1>3
  <2>3. Hushes(q, f, EarlyLines(f, u) \cup 1..Len(f.lines))
    BY <2>1, <2>2
  <2> QED
    BY <1>1, <1>2, <1>3, <1>4, <2>3, EndHeard
<1>6. Expected(f, u) = T \cup S
  <2>1. line - 1 = Len(f.lines) /\ DOMAIN f.lines = 1..Len(f.lines)
    BY <1>1, <1>2, <1>3
  <2> QED
    BY <1>4, <2>1, WholeFile
<1>7. {e \in log' : e.file = n} = Logged(n, T \cup S)
  <2>1. log' = log \cup Logged(n, S)
    BY <1>1, <1>3, <1>5
  <2>2. {e \in log : e.file = n} = Logged(n, T)
    BY <1>1, <1>3, <1>4 DEF OwnLog
  <2> QED
    BY <2>1, <2>2, LogOf
<1>8. \A x : x \in {y \in Range(used) : y.file = n} => x.opt = u
  BY <1>1, <1>3 DEF OwnLog
<1>9. PICK x \in Range(used) : x.file = n
  BY <1>1, <1>3 DEF IInv, UsedInv
<1>10. OwnReport(n)'
  <2>1. disk'[cmd'.files[n]] = f /\ used' = used
    BY <1>1, <1>2, <1>3 DEF inputs
  <2>2. Expected(f, u)' = T \cup S
    BY <1>1, <1>6, SameHeard
  <2>3. PICK g, L : g = disk'[cmd'.files[n]] /\ L = Logged(n, T \cup S)
    OBVIOUS
  <2>4. \A y \in {z \in Range(used) : z.file = n} :
          Logged(n, Expected(disk[cmd.files[n]], y.opt))' = L
    BY <1>8, <2>1, <2>2, <2>3
  <2>5. UNION {Logged(n, Expected(disk[cmd.files[n]], y.opt))' :
                 y \in {z \in Range(used) : z.file = n}} = L
    BY <1>9, <2>4
  <2> QED
    BY <1>7, <2>1, <2>3, <2>5 DEF OwnReport
<1> QED
  BY <1>1, <1>3, <1>10

(* The report on each file that is done is as it should be.                 *)
LEMMA OwnKeeps ==
  ASSUME IInv, OffInv, SuppInv, OwnLog, ReportsAreOwn, [Next]_vars
  PROVE  ReportsAreOwn'
<1>1. ReportsAreOwn <=> \A k \in Done : OwnReport(k)
  BY Zenon DEF ReportsAreOwn, OwnReport
<1>2. (\A k \in Done : OwnReport(k))' => ReportsAreOwn'
  BY Zenon DEF ReportsAreOwn, OwnReport
<1>3. CASE FinishFile
  <2>1. /\ pc \in Busy /\ NextFile /\ UNCHANGED <<inputs, exit, state, used>>
    BY <1>3 DEF FinishFile, Busy
  <2>2. Done' = Done \cup {Number} /\ Number \notin Done
    BY <2>1, LeftBehind DEF IInv
  <2>3. PICK n, S : n = Number /\ S = Printed(supp, EndFindings(File))
    OBVIOUS
  <2>4. OwnReport(n)' /\ log' = log \cup Logged(n, S)
    BY <1>3, <2>3, OwnAtEnd
  <2>5. ASSUME NEW k \in Done PROVE OwnReport(k)'
    <3>1. k # n
      BY <2>2, <2>3
    <3>2. {e \in log' : e.file = k} = {e \in log : e.file = k}
      BY <2>4, <3>1, LogOfOthers
    <3> QED
      BY <1>1, <2>1, <3>2, SameReport
  <2> QED
    BY <1>2, <2>2, <2>3, <2>4, <2>5
<1>4. CASE Exclude \/ Unreadable \/ Ignored
  <2>1. /\ pc \in Busy /\ pc # "lines" /\ NextFile
        /\ UNCHANGED <<inputs, exit, state, used, log>>
    BY <1>4 DEF Exclude, Unreadable, Ignored, Busy, stats
  <2>2. Done' = Done \cup {Number} /\ Number \notin Done
    BY <2>1, LeftBehind DEF IInv
  <2>3. OwnReport(Number)
    <3>1. {e \in log : e.file = Number} = {}
      BY <2>1 DEF IInv, LogInv
    <3>2. {x \in Range(used) : x.file = Number} = {}
      BY <2>1, <2>2 DEF IInv, UsedInv
    <3> QED
      BY <3>1, <3>2 DEF OwnReport
  <2>4. ASSUME NEW k \in Done \cup {Number} PROVE OwnReport(k)'
    <3>1. OwnReport(k)
      BY <1>1, <2>3
    <3> QED
      BY <2>1, <3>1, SameReport
  <2> QED
    BY <1>2, <2>2, <2>4
<1>5. CASE TakeOption \/ ParseArguments
  <2>1. pc = "args" /\ UNCHANGED <<inputs, todo>>
    BY <1>5 DEF TakeOption, ParseArguments
  <2>2. Done' = Done /\ Done = {}
    BY <2>1, NothingYet DEF Done, Number, inputs
  <2> QED
    BY <1>2, <2>2
<1>6. CASE StartFile \/ ProcessLine
  <2>1. /\ pc \in Busy /\ UNCHANGED <<inputs, todo, state>>
        /\ \E S : log' = log \cup Logged(Number, S)
        /\ used' = used \/ used' = Append(used, [file |-> Number, opt |-> opt])
    BY <1>6 DEF StartFile, ProcessLine, Reports, Busy
  <2>2. Done' = Done /\ Number \notin Done
    BY <2>1, CheckedFile DEF Done, Number, inputs
  <2>3. PICK n, S : n = Number /\ log' = log \cup Logged(n, S)
    BY <2>1
  <2>4. ASSUME NEW k \in Done PROVE OwnReport(k)'
    <3>1. k # n
      BY <2>2, <2>3
    <3>2. {e \in log' : e.file = k} = {e \in log : e.file = k}
      BY <2>3, <3>1, LogOfOthers
    <3>3. {x \in Range(used') : x.file = k} = {x \in Range(used) : x.file = k}
      <4>1. CASE used' = used
        BY <4>1
      <4>2. CASE used' = Append(used, [file |-> Number, opt |-> opt])
        <5>1. Range(used') = Range(used) \cup {[file |-> Number, opt |-> opt]}
          BY <4>2, AppendRange DEF IInv, UsedInv
        <5> QED
          BY <2>3, <3>1, <5>1
      <4> QED
        BY <2>1, <4>1, <4>2
    <3> QED
      BY <1>1, <2>1, <3>2, <3>3, SameReport
  <2> QED
    BY <1>2, <2>2, <2>4
<1>7. CASE \/ BeginFile \/ LookUp \/ TakeSetting \/ CloseConfig \/ ApplyFilters
           \/ Finish \/ UNCHANGED vars
  <2>1. UNCHANGED <<inputs, todo, state, used, log>>
    BY <1>7 DEF BeginFile, LookUp, TakeSetting, CloseConfig, ApplyFilters, Finish, vars, stats
  <2>2. Done' = Done
    BY <2>1 DEF Done, Number, inputs
  <2>3. ASSUME NEW k \in Done PROVE OwnReport(k)'
    BY <1>1, <2>1, SameReport
  <2> QED
    BY <1>2, <2>2, <2>3
<1> QED
  BY <1>3, <1>4, <1>5, <1>6, <1>7 DEF Next
-----------------------------------------------------------------------------
(* Nothing was found, parsed or printed at the start.                       *)
LEMMA OwnInit == ASSUME Init, IInv PROVE OwnInv
<1>1. pc = "args"
  BY DEF Init
<1>2. BaseInv
  BY BaseInit
<1>3. ReportsAreOwn
  BY <1>1, NothingYet DEF ReportsAreOwn
<1> QED
  BY <1>1, <1>2, <1>3 DEF OwnInv, FoundInv, OffInv, SuppInv, OwnLog

(* The command line's filters and those of the configurations above a file  *)
(* are combined for that file as TurnsOff and Ruling say, whatever was      *)
(* processed before: the step from one file to the next restores them.      *)
THEOREM NearestDecides == Spec => []OffInv
<1>1. Init /\ IInv => BaseInv /\ FoundInv /\ OffInv
  BY OwnInit DEF OwnInv
<1>2. IInv /\ BaseInv /\ FoundInv /\ OffInv /\ [Next]_vars => (BaseInv /\ FoundInv /\ OffInv)'
  BY BaseKeeps, FoundKeeps, OffKeeps
<1> QED
  BY <1>1, <1>2, Invariance, PTL DEF Spec

(* What is printed of a file is what the command line, the configurations   *)
(* above it and its own NOLINT comments say, whichever way and with         *)
(* whatever settings the files before it were left.                         *)
THEOREM ReportsAreTheirOwn == Spec => []ReportsAreOwn
<1>1. Init /\ IInv => OwnInv
  BY OwnInit
<1>2. IInv' /\ OwnInv /\ [Next]_vars => OwnInv'
  BY BaseKeeps, FoundKeeps, OffKeeps, SuppKeeps, LogKeeps, OwnKeeps DEF OwnInv
<1>3. OwnInv => ReportsAreOwn
  BY DEF OwnInv
<1> QED
  BY <1>1, <1>2, <1>3, Invariance, PTL DEF Spec
-----------------------------------------------------------------------------
(* The valid extensions: those that the command line gives, and what the    *)
(* configurations add that were read for the files so far.                  *)
HeadersRead(path, n, r) ==
  \A j \in Above(path) : \A i \in DOMAIN Settings(Up(path, j)) :
    Settings(Up(path, j))[i].name = "headers" /\ Before(j, i, n, r) =>
      Settings(Up(path, j))[i].val \subseteq opt.exts

WasChecked(k) == \E i \in DOMAIN used : used[i].file = k

InScope(k) ==
  LET f == disk[cmd.files[k]] IN
  /\ WasChecked(k) => cmd.files[k] = Stdin \/ f.ext \in ExtsUpTo(k)
  /\ /\ f.readable /\ ~Excluded(f.path)
     /\ f.ext \in GivenExts \cup HeadersAbove(f.path)
     => WasChecked(k)

(* The files whose configurations may have been read.                       *)
Reached == IF pc \in Busy THEN Number ELSE Number - 1

ValidInv ==
  /\ DOMAIN opt = {"width", "root", "headers", "exts"}
  /\ pc = "args" => opt.exts = ExtsOf(1..(row - 1))
  /\ pc \notin {"args", "end"} =>
       GivenExts \subseteq opt.exts /\ opt.exts \subseteq ExtsUpTo(Reached)

ReadInv ==
  /\ pc = "config" => \A path \in {File.path}, n \in {Len(at)} : HeadersRead(path, n, 0)
  /\ pc = "settings" =>
       \A path \in {File.path}, n \in {Len(at)}, r \in {row} : HeadersRead(path, n, r)
  /\ pc \in {"read", "lines"} => HeadersAbove(File.path) \subseteq opt.exts
  /\ pc = "lines" => Checked

ScopeInv == \A k \in Done : InScope(k)

ExtsInv == ValidInv /\ ReadInv /\ ScopeInv

(* All of them depend on the inputs only.                                   *)
LEMMA SameExts ==
  ASSUME UNCHANGED inputs
  PROVE  /\ GivenExts' = GivenExts /\ \A N : ExtsOf(N)' = ExtsOf(N)
         /\ \A path : HeadersAbove(path)' = HeadersAbove(path)
         /\ \A k : ExtsUpTo(k)' = ExtsUpTo(k)
         /\ \A d : Settings(d)' = Settings(d)
<1>1. cmd' = cmd /\ tree' = tree /\ disk' = disk
  BY DEF inputs
<1>2. \A N : ExtsOf(N)' = ExtsOf(N)
  BY <1>1 DEF ExtsOf
<1>3. GivenExts' = GivenExts
  BY <1>1 DEF GivenExts, ExtsOf
<1>4. \A d : Settings(d)' = Settings(d)
  BY SameSayings
<1>5. \A d : HeadersOf(d)' = HeadersOf(d)
  BY <1>4 DEF HeadersOf
<1>6. \A path : Ruling(path)' = Ruling(path)
  BY SameSayings
<1>7. \A path : HeadersAbove(path)' = HeadersAbove(path)
  BY <1>5, <1>6 DEF HeadersAbove
<1>8. \A k : ExtsUpTo(k)' = ExtsUpTo(k)
  BY <1>1, <1>3, <1>7 DEF ExtsUpTo
<1> QED
  BY <1>2, <1>3, <1>4, <1>7, <1>8

(* One more option.                                                         *)
LEMMA OptionExts ==
  ASSUME AreSettings(cmd.options), NEW n \in 1..Len(cmd.options),
         DOMAIN opt = {"width", "root", "headers", "exts"},
         opt.exts = ExtsOf(1..(n - 1))
  PROVE  /\ WithOption(cmd.options[n]).exts = ExtsOf(1..n)
         /\ DOMAIN WithOption(cmd.options[n]) = DOMAIN opt
<1> DEFINE o == cmd.options[n]
           own(N) == {i \in N : cmd.options[i].name = "extensions"}
           adds(N) == {i \in N : cmd.options[i].name = "headers" /\ \A j \in own(N) : j < i}
           last(N) == {i \in own(N) : \A j \in own(N) : j <= i}
           less == 1..(n - 1)
           more == 1..n
<1>1. /\ n \in Int /\ more = less \cup {n} /\ \A i \in less : i < n /\ i \in Int
  BY LenProperties DEF AreSettings
<1>2. \A N : ExtsOf(N) = (IF own(N) = {} THEN DefaultExts ELSE {})
                         \cup UNION {cmd.options[i].val : i \in adds(N) \cup last(N)}
  BY DEF ExtsOf
<1>3. CASE o.name = "extensions"
  <2>1. WithOption(o).exts = o.val /\ DOMAIN WithOption(o) = DOMAIN opt
    BY <1>3 DEF WithOption
  <2>2. n \in own(more) /\ \A j \in own(more) : j <= n
    BY <1>1, <1>3
  <2>3. last(more) = {n}
    <3>1. n \in last(more)
      BY <2>2
    <3>2. ASSUME NEW i \in last(more) PROVE i = n
      BY <2>2, <1>1
    <3> QED
      BY <3>1, <3>2
  <2>4. adds(more) = {}
    BY <1>1, <1>3, <2>2
  <2>5. own(more) # {}
    BY <2>2
  <2>6. ExtsOf(more) = UNION {cmd.options[i].val : i \in {n}}
    <3> HIDE DEF own, adds, last, more
    <3> QED
      BY <1>2, <2>3, <2>4, <2>5
  <2>7. UNION {cmd.options[i].val : i \in {n}} = cmd.options[n].val
    OBVIOUS
  <2> HIDE DEF own, adds, last
  <2> QED
    BY <2>1, <2>6, <2>7
<1>4. CASE o.name = "headers"
  <2>1. WithOption(o).exts = opt.exts \cup o.val /\ DOMAIN WithOption(o) = DOMAIN opt
    BY <1>4 DEF WithOption, WithHeaders
  <2>2. own(more) = own(less)
    BY <1>1, <1>4
  <2>3. last(more) = last(less)
    BY <2>2
  <2>4. adds(more) = adds(less) \cup {n}
    <3>1. n \in adds(more)
      BY <1>1, <1>4, <2>2
    <3>2. \A i \in less : i \in adds(more) <=> i \in adds(less)
      BY <1>1, <2>2
    <3> QED
      BY <1>1, <3>1, <3>2
  <2>5. ExtsOf(more) = ExtsOf(less) \cup cmd.options[n].val
    <3> HIDE DEF own, adds, last, more, less
    <3> QED
      BY <1>2, <2>2, <2>3, <2>4
  <2> QED
    BY <2>1, <2>5
<1>5. CASE o.name \notin {"extensions", "headers"}
  <2>1. WithOption(o).exts = opt.exts /\ DOMAIN WithOption(o) = DOMAIN opt
    BY <1>5 DEF WithOption
  <2>2. own(more) = own(less)
    BY <1>1, <1>5
  <2>3. last(more) = last(less)
    BY <2>2
  <2>4. adds(more) = adds(less)
    BY <1>1, <1>5, <2>2
  <2>5. ExtsOf(more) = ExtsOf(less)
    <3> HIDE DEF own, adds, last, more, less
    <3> QED
      BY <1>2, <2>2, <2>3, <2>4
  <2> QED
    BY <2>1, <2>5
<1> QED
  BY <1>3, <1>4, <1>5

(* One more file.                                                           *)
LEMMA MoreExts ==
  ASSUME NEW k \in Nat, NEW m \in Nat, k <= m
  PROVE  ExtsUpTo(k) \subseteq ExtsUpTo(m)
<1>1. \A j \in 1..k : j \in 1..m
  OBVIOUS
<1> QED
  BY <1>1 DEF ExtsUpTo

(* What a directory that counts adds is added for the file.                 *)
LEMMA RulingAdds ==
  ASSUME NEW path \in Seq(STRING) \ {<<>>}, NEW j \in Above(path), Unblocked(path, j),
         NEW i \in DOMAIN Settings(Up(path, j)), Settings(Up(path, j))[i].name = "headers"
  PROVE  Settings(Up(path, j))[i].val \subseteq HeadersAbove(path)
<1>1. Up(path, j) \in Ruling(path)
  BY RulingAt
<1>2. Settings(Up(path, j))[i].val \subseteq HeadersOf(Up(path, j))
  BY DEF HeadersOf
<1> QED
  BY <1>1, <1>2 DEF HeadersAbove

(* A search that has ended read all that counts.                            *)
LEMMA AllRead ==
  ASSUME NEW path \in Seq(STRING) \ {<<>>}, NEW n \in 0..Len(path), Searched(path, n),
         ~keep \/ at = <<>>, HeadersRead(path, n, 0)
  PROVE  HeadersAbove(path) \subseteq opt.exts
<1>1. Len(path) \in Nat \ {0}
  BY PathParts
<1>2. SUFFICES ASSUME NEW m \in Above(path), Unblocked(path, m)
               PROVE  HeadersOf(Up(path, m)) \subseteq opt.exts
  BY RulingAt DEF HeadersAbove
<1>3. m >= n
  <2> SUFFICES ASSUME m < n PROVE FALSE
    BY <1>1 DEF Above
  <2>1. CASE ~keep
    BY <1>1, <1>2, <2>1 DEF Searched, Unblocked, Above
  <2>2. CASE at = <<>>
    <3>1. n = 0
      BY <2>2, Ups DEF Searched
    <3> QED
      BY <3>1, <1>1 DEF Above
  <2> QED
    BY <2>1, <2>2
<1>4. \A i \in DOMAIN Settings(Up(path, m)) :
        Settings(Up(path, m))[i].name = "headers" =>
          Settings(Up(path, m))[i].val \subseteq opt.exts
  BY <1>3 DEF HeadersRead, Before
<1> QED
  BY <1>4 DEF HeadersOf

(* Nothing is read by a step that leaves the extensions as they are, or     *)
(* adds to them.                                                            *)
LEMMA SameRead ==
  ASSUME UNCHANGED inputs, opt.exts \subseteq opt.exts', NEW path, NEW n, NEW r, NEW m, NEW q,
         HeadersRead(path, n, r),
         \A j \in Above(path) : \A i \in DOMAIN Settings(Up(path, j)) :
           /\ Settings(Up(path, j))[i].name = "headers"
           /\ Before(j, i, m, q) /\ ~Before(j, i, n, r)
           => Settings(Up(path, j))[i].val \subseteq opt.exts'
  PROVE  HeadersRead(path, m, q)'
<1>1. \A d : Settings(d)' = Settings(d)
  BY SameExts
<1>2. SUFFICES ASSUME NEW j \in Above(path), NEW i \in DOMAIN Settings(Up(path, j)),
                      Settings(Up(path, j))[i].name = "headers", Before(j, i, m, q)
               PROVE  Settings(Up(path, j))[i].val \subseteq opt.exts'
  BY <1>1 DEF HeadersRead, Above, Up, Before
<1> HIDE DEF Before
<1>3. CASE Before(j, i, n, r)
  <2>1. Settings(Up(path, j))[i].val \subseteq opt.exts
    BY <1>2, <1>3 DEF HeadersRead
  <2> QED
    BY <2>1
<1>4. CASE ~Before(j, i, n, r)
  BY <1>2, <1>4
<1> QED
  BY <1>3, <1>4

(* What a line of a configuration adds.                                     *)
LEMMA SettingExts ==
  ASSUME DOMAIN opt = {"width", "root", "headers", "exts"}, NEW s
  PROVE  /\ DOMAIN WithSetting(s) = DOMAIN opt
         /\ WithSetting(s).exts = IF s.name = "headers" THEN opt.exts \cup s.val ELSE opt.exts
<1>1. CASE s.name = "headers"
  BY <1>1 DEF WithSetting, WithHeaders
<1>2. CASE s.name # "headers"
  BY <1>2 DEF WithSetting
<1> QED
  BY <1>1, <1>2
-----------------------------------------------------------------------------
(* The valid extensions stay as they should be.                             *)
LEMMA ValidKeeps ==
  ASSUME IInv, BaseInv, ValidInv, [Next]_vars
  PROVE  ValidInv'
<1>1. CASE TakeOption
  <2> DEFINE o == cmd.options[row]
  <2>1. pc = "args" /\ row \in 1..Len(cmd.options) /\ UNCHANGED inputs
    BY <1>1, AllOptions DEF BaseInv, TakeOption
  <2>2. CASE Refuses(o) \/ Lists(o)
    <3>1. pc' = "end" /\ opt' = opt
      BY <1>1, <2>2 DEF TakeOption, Quits
    <3> QED
      BY <3>1 DEF ValidInv
  <2>3. CASE ~(Refuses(o) \/ Lists(o))
    <3>1. pc' = "args" /\ row' = row + 1 /\ opt' = WithOption(o)
      BY <1>1, <2>1, <2>3 DEF TakeOption
    <3>2. row' - 1 = row
      BY <2>1, <3>1, AllOptions DEF BaseInv
    <3>3. opt'.exts = ExtsOf(1..row) /\ DOMAIN opt' = {"width", "root", "headers", "exts"}
      BY <2>1, <3>1, OptionExts DEF BaseInv, ValidInv
    <3>4. opt'.exts = ExtsOf(1..(row - 1))'
      BY <2>1, <3>2, <3>3, SameExts
    <3> QED
      BY <3>1, <3>3, <3>4 DEF ValidInv
  <2> QED
    BY <2>2, <2>3
<1>2. CASE ParseArguments
  <2>1. /\ pc = "args" /\ row > Len(cmd.options) /\ UNCHANGED <<inputs, todo, opt>>
        /\ pc' \in {"end", "file"}
    BY <1>2 DEF ParseArguments, Quits
  <2>2. row - 1 = Len(cmd.options) /\ DOMAIN cmd.options = 1..Len(cmd.options)
    <3>1. cmd.options \in Seq(Range(cmd.options)) /\ Len(cmd.options) \in Nat
      BY AllOptions DEF BaseInv, AreSettings
    <3>2. DOMAIN cmd.options = 1..Len(cmd.options)
      BY <3>1, LenProperties
    <3> QED
      BY <2>1, <3>1, <3>2 DEF BaseInv
  <2>3. opt.exts = GivenExts
    BY <2>1, <2>2 DEF ValidInv, GivenExts
  <2>4. GivenExts' \subseteq opt'.exts /\ opt'.exts \subseteq ExtsUpTo(Reached)'
    <3>1. GivenExts' = opt'.exts
      BY <2>1, <2>3, SameExts
    <3>2. GivenExts' \subseteq ExtsUpTo(Reached)'
      BY DEF ExtsUpTo
    <3> QED
      BY <3>1, <3>2
  <2> QED
    BY <2>1, <2>4 DEF ValidInv
<1>3. CASE BeginFile \/ LookUp \/ CloseConfig \/ ApplyFilters \/ StartFile \/ ProcessLine
  <2>1. /\ pc \in Busy \cup {"file"} /\ pc' \in Busy \cup {"end"}
        /\ UNCHANGED <<inputs, todo, opt>>
    BY <1>3 DEF BeginFile, LookUp, CloseConfig, ApplyFilters, StartFile, ProcessLine, Quits, Busy
  <2>2. todo # <<>>
    BY <1>3, <2>1 DEF BeginFile, LookUp, CloseConfig, ApplyFilters, StartFile, ProcessLine, Busy,
                      IInv, TodoInv
  <2>3. Number' = Number /\ Number \in Nat \ {0}
    <3>1. Number \in 1..Len(cmd.files)
      BY <2>2, ThisFile DEF IInv
    <3> QED
      BY <2>1, <3>1 DEF Number, inputs
  <2>4. ASSUME pc' # "end"
        PROVE  GivenExts' \subseteq opt'.exts /\ opt'.exts \subseteq ExtsUpTo(Reached)'
    <3>1. pc \notin {"args", "end"}
      BY <2>1 DEF Busy
    <3>2. Reached' = Number /\ Reached \in Nat /\ Reached <= Number
      BY <2>1, <2>3, <2>4 DEF Reached, Busy
    <3>3. ExtsUpTo(Reached) \subseteq ExtsUpTo(Number)
      BY <2>3, <3>2, MoreExts
    <3>4. ExtsUpTo(Reached)' = ExtsUpTo(Number)
      <4>1. ExtsUpTo(Reached)' = ExtsUpTo(Reached')
        BY <2>1, SameExts
      <4> QED
        BY <3>2, <4>1
    <3> QED
      BY <2>1, <3>1, <3>3, <3>4, SameExts DEF ValidInv
  <2>5. pc' # "args"
    BY <2>1 DEF Busy
  <2> QED
    BY <2>1, <2>4, <2>5 DEF ValidInv
<1>4. CASE TakeSetting
  <2>1. /\ pc = "settings" /\ pc' = "settings" /\ UNCHANGED <<inputs, todo>>
        /\ row <= Len(Lines) /\ opt' = WithSetting(Lines[row])
    BY <1>4 DEF TakeSetting
  <2>2. PICK path \in Seq(STRING) \ {<<>>} :
          /\ path = File.path
          /\ \E n \in 1..Len(path) : Reading(path, n)
    BY <2>1, SearchedPath
  <2> PICK n \in 1..Len(path) : Reading(path, n)
    BY <2>2
  <2>3. /\ Number' = Number /\ File = disk[cmd.files[Number]] /\ Number \in Nat \ {0}
    BY <2>1, ThisFile DEF Number, inputs, IInv, TodoInv, Busy
  <2>4. Reached = Number /\ Reached' = Number
    BY <2>1, <2>3 DEF Reached, Busy
  <2>5. Lines[row].name = "headers" => Lines[row].val \subseteq ExtsUpTo(Number)
    <3> SUFFICES ASSUME Lines[row].name = "headers" PROVE Lines[row].val \subseteq ExtsUpTo(Number)
      OBVIOUS
    <3>1. /\ Lines = Settings(Up(path, n - 1)) /\ n - 1 \in Above(path)
          /\ row \in DOMAIN Settings(Up(path, n - 1))
      <4>1. /\ Dir = Up(path, n - 1) /\ Lines = Settings(Dir) /\ Len(Lines) \in Nat
            /\ DOMAIN Lines = 1..Len(Lines) /\ n - 1 \in Above(path)
        BY ReadingHere DEF IInv
      <4>2. row \in Int /\ row >= 1
        <5>1. row \in 1..(Len(Settings(Up(path, n - 1))) + 1)
          BY DEF Reading
        <5> QED
          BY <4>1, <5>1
      <4> QED
        BY <2>1, <4>1, <4>2
    <3>2. Unblocked(path, n - 1)
      BY <2>2, PathParts DEF Reading, Unblocked, Above
    <3>3. Lines[row].val \subseteq HeadersAbove(path)
      BY <3>1, <3>2, RulingAdds
    <3>4. HeadersAbove(path) \subseteq ExtsUpTo(Number)
      <4>1. Number \in 1..Number
        BY <2>3
      <4> QED
        BY <2>2, <2>3, <4>1 DEF ExtsUpTo
    <3> QED
      BY <3>3, <3>4
  <2>6. /\ DOMAIN opt' = DOMAIN opt
        /\ opt'.exts = IF Lines[row].name = "headers" THEN opt.exts \cup Lines[row].val
                       ELSE opt.exts
    BY <2>1, SettingExts DEF ValidInv
  <2>7. GivenExts \subseteq opt.exts /\ opt.exts \subseteq ExtsUpTo(Number)
    BY <2>1, <2>4 DEF ValidInv
  <2>8. ExtsUpTo(Reached)' = ExtsUpTo(Number)
    <3>1. ExtsUpTo(Reached)' = ExtsUpTo(Reached')
      BY <2>1, SameExts
    <3> QED
      BY <2>4, <3>1
  <2> QED
    BY <2>1, <2>5, <2>6, <2>7, <2>8, SameExts DEF ValidInv
<1>5. CASE Exclude \/ Unreadable \/ Ignored \/ FinishFile
  <2>1. pc \in Busy /\ NextFile /\ UNCHANGED <<inputs, exit, opt>>
    BY <1>5 DEF Exclude, Unreadable, Ignored, FinishFile, Busy
  <2>2. Number' = Number + 1 /\ Number \in Nat
    <3>1. Number \in 1..Len(cmd.files)
      BY <2>1, ThisFile DEF IInv, TodoInv
    <3> QED
      BY <2>1, <3>1, LeftBehind DEF IInv
  <2>3. pc' = "file" /\ Reached = Number /\ Reached' = Number
    BY <2>1, <2>2 DEF Reached, NextFile, Busy
  <2>4. ExtsUpTo(Reached)' = ExtsUpTo(Reached)
    <3>1. ExtsUpTo(Reached)' = ExtsUpTo(Reached')
      BY <2>1, SameExts
    <3> QED
      BY <2>3, <3>1
  <2>5. pc \notin {"args", "end"}
    BY <2>1 DEF Busy
  <2> QED
    BY <2>1, <2>3, <2>4, <2>5, SameExts DEF ValidInv
<1>6. CASE Finish
  <2>1. pc' = "end" /\ opt' = opt
    BY <1>6 DEF Finish, Quits
  <2> QED
    BY <2>1 DEF ValidInv
<1>7. CASE UNCHANGED vars
  <2>1. UNCHANGED <<inputs, pc, opt, todo, row>>
    BY <1>7 DEF vars, config
  <2>2. ExtsOf(1..(row - 1))' = ExtsOf(1..(row - 1))
    <3>1. ExtsOf(1..(row - 1))' = ExtsOf(1..(row' - 1))
      BY <2>1, SameExts
    <3> QED
      BY <2>1, <3>1
  <2>3. ExtsUpTo(Reached)' = ExtsUpTo(Reached)
    <3>1. Reached' = Reached
      BY <2>1 DEF Reached, Number, inputs
    <3>2. ExtsUpTo(Reached)' = ExtsUpTo(Reached')
      BY <2>1, SameExts
    <3> QED
      BY <3>1, <3>2
  <2> QED
    BY <2>1, <2>2, <2>3, SameExts DEF ValidInv
<1> QED
  BY <1>1, <1>2, <1>3, <1>4, <1>5, <1>6, <1>7 DEF Next

(* So does what was read of the configurations above the file.              *)
LEMMA ReadKeeps ==
  ASSUME IInv, ValidInv, ReadInv, [Next]_vars
  PROVE  ReadInv'
<1>1. CASE pc' \notin Busy
  BY <1>1 DEF ReadInv, Busy
<1>2. CASE BeginFile
  <2>1. /\ pc' = "config" /\ todo # <<>> /\ UNCHANGED <<inputs, todo>> /\ at' = File.path
    BY <1>2 DEF BeginFile
  <2>2. IsFile(File) /\ File' = File
    BY <2>1, ThisFile DEF IInv, File, inputs
  <2>3. PICK path \in Seq(STRING) \ {<<>>} : path = File.path
    BY <2>2 DEF IsFile
  <2>4. HeadersRead(path, Len(path), 0)'
    <3>1. Len(path) \in Nat /\ \A d : Settings(d)' = Settings(d)
      BY <2>1, PathParts, SameExts
    <3>2. ASSUME NEW j \in Above(path), NEW i \in DOMAIN Settings(Up(path, j))
          PROVE  ~Before(j, i, Len(path), 0)
      <4>1. i \in Int /\ i > 0
        <5>1. CASE Opens(Up(path, j))
          BY <5>1, ConfigLines DEF IInv
        <5>2. CASE ~Opens(Up(path, j))
          <6>1. DOMAIN Settings(Up(path, j)) = {}
            BY <5>2, NoConfig DEF IInv
          <6> QED
            BY <6>1
        <5> QED
          BY <5>1, <5>2
      <4> QED
        BY <3>1, <4>1 DEF Before, Above
    <3> HIDE DEF Before
    <3> QED
      BY <3>1, <3>2 DEF HeadersRead, Above, Up, Before
  <2>5. File'.path = path /\ Len(at') = Len(path)
    BY <2>1, <2>2, <2>3
  <2> QED
    BY <2>1, <2>4, <2>5 DEF ReadInv
<1>3. CASE LookUp \/ TakeSetting \/ CloseConfig
  <2>1. pc \in {"config", "settings"} /\ UNCHANGED <<inputs, todo>>
    BY <1>3 DEF LookUp, TakeSetting, CloseConfig
  <2>2. PICK path \in Seq(STRING) \ {<<>>} :
           /\ path = File.path /\ at \in Seq(STRING) /\ Len(at) \in 0..Len(path)
           /\ pc = "config" => Searched(path, Len(at))
           /\ pc = "settings" => Len(at) \in 1..Len(path) /\ Reading(path, Len(at))
    BY <2>1, SearchedPath
  <2>3. File'.path = path
    BY <2>1, <2>2 DEF File, inputs
  <2>4. PICK n : n = Len(at)
    OBVIOUS
  <2>5. n \in 0..Len(path) /\ at = Up(path, n) /\ Len(path) \in Nat
    BY <2>1, <2>2, <2>4, PathParts DEF Searched, Reading
  <2>6. ASSUME NEW j \in Above(path), NEW i \in DOMAIN Settings(Up(path, j))
        PROVE  /\ i \in 1..Len(Settings(Up(path, j))) /\ Len(Settings(Up(path, j))) \in Nat
               /\ j \in Int /\ Opens(Up(path, j))
    <3>1. CASE Opens(Up(path, j))
      BY <3>1, ConfigLines DEF IInv, Above
    <3>2. CASE ~Opens(Up(path, j))
      <4>1. DOMAIN Settings(Up(path, j)) = {}
        BY <3>2, NoConfig DEF IInv
      <4> QED
        BY <4>1
    <3> QED
      BY <3>1, <3>2
  <2>7. CASE LookUp
    <3>1. pc = "config" /\ Searched(path, n) /\ opt' = opt /\ HeadersRead(path, n, 0)
      BY <2>2, <2>4, <2>7 DEF LookUp, ReadInv
    <3>2. n # 0 /\ Dir = Up(path, n - 1) /\ n - 1 \in Above(path)
      <4>1. n # 0
        <5>1. n = 0 => at = <<>>
          BY <2>5, SubSeqEmpty DEF Up
        <5> QED
          BY <2>7, <5>1 DEF LookUp
      <4>2. Front(Up(path, n)) = Up(path, n - 1)
        BY <2>5, <4>1, Ups
      <4> QED
        BY <2>5, <4>1, <4>2 DEF Dir, Above
    <3>3. CASE Opens(Dir)
      <4>1. pc' = "settings" /\ row' = 1 /\ at' = at
        BY <2>7, <3>3 DEF LookUp
      <4>2. \A j \in Above(path) : \A i \in DOMAIN Settings(Up(path, j)) :
              Before(j, i, n, 1) => Before(j, i, n, 0)
        BY <2>6 DEF Before
      <4>3. HeadersRead(path, n, 1)'
        BY <2>1, <3>1, <4>2, SameRead
      <4> QED
        BY <2>3, <2>4, <4>1, <4>3 DEF ReadInv
    <3>4. CASE ~Opens(Dir)
      <4>1. pc' = "config" /\ at' = Dir
        BY <2>7, <3>4 DEF LookUp
      <4>2. Len(at') = n - 1
        BY <3>2, <4>1, PathParts
      <4>3. \A j \in Above(path) : \A i \in DOMAIN Settings(Up(path, j)) :
              Before(j, i, n - 1, 0) => Before(j, i, n, 0)
        <5> SUFFICES ASSUME NEW j \in Above(path), NEW i \in DOMAIN Settings(Up(path, j)),
                            Before(j, i, n - 1, 0)
                     PROVE  Before(j, i, n, 0)
          OBVIOUS
        <5>1. j # n - 1
          BY <2>6, <3>2, <3>4
        <5> QED
          BY <2>5, <2>6, <5>1 DEF Before
      <4>4. HeadersRead(path, n - 1, 0)'
        BY <2>1, <3>1, <4>3, SameRead
      <4> QED
        BY <2>3, <4>1, <4>2, <4>4 DEF ReadInv
    <3> QED
      BY <3>3, <3>4
  <2>8. CASE TakeSetting
    <3>1. /\ pc = "settings" /\ pc' = "settings" /\ row' = row + 1 /\ at' = at
          /\ Reading(path, n) /\ n \in 1..Len(path) /\ row <= Len(Lines)
          /\ opt' = WithSetting(Lines[row])
      BY <2>2, <2>4, <2>8 DEF TakeSetting
    <3>2. PICK r : r = row
      OBVIOUS
    <3>3. HeadersRead(path, n, r)
      BY <2>2, <2>4, <3>1, <3>2 DEF ReadInv
    <3>4. /\ Lines = Settings(Up(path, n - 1)) /\ r \in Int
          /\ opt'.exts = IF Lines[r].name = "headers" THEN opt.exts \cup Lines[r].val
                         ELSE opt.exts
      <4>1. /\ Dir = Up(path, n - 1) /\ Lines = Settings(Dir) /\ Len(Lines) \in Nat
        BY <3>1, ReadingHere DEF IInv
      <4>2. row \in 1..(Len(Settings(Up(path, n - 1))) + 1)
        BY <3>1 DEF Reading
      <4>3. r \in Int
        BY <3>2, <4>1, <4>2
      <4>4. opt'.exts = IF Lines[r].name = "headers" THEN opt.exts \cup Lines[r].val
                       ELSE opt.exts
        BY <3>1, <3>2, SettingExts DEF ValidInv
      <4> QED
        BY <4>1, <4>3, <4>4
    <3>5. ASSUME NEW j \in Above(path), NEW i \in DOMAIN Settings(Up(path, j)),
                 Settings(Up(path, j))[i].name = "headers",
                 Before(j, i, n, r + 1), ~Before(j, i, n, r)
          PROVE  Settings(Up(path, j))[i].val \subseteq opt.exts'
      <4>1. j = n - 1 /\ i = r
        BY <2>6, <3>4, <3>5 DEF Before
      <4> QED
        BY <3>4, <3>5, <4>1
    <3>6. HeadersRead(path, n, r + 1)'
      <4>1. opt.exts \subseteq opt.exts'
        BY <3>4
      <4> HIDE DEF Before
      <4> QED
        BY <2>1, <3>3, <3>5, <4>1, SameRead
    <3> QED
      BY <2>3, <2>4, <3>1, <3>2, <3>6 DEF ReadInv
  <2>9. CASE CloseConfig
    <3>1. /\ pc = "settings" /\ pc' = "config" /\ at' = Dir /\ opt' = opt
          /\ Reading(path, n) /\ n \in 1..Len(path) /\ row > Len(Lines)
      BY <2>2, <2>4, <2>9 DEF CloseConfig
    <3>2. PICK r : r = row
      OBVIOUS
    <3>3. HeadersRead(path, n, r)
      BY <2>2, <2>4, <3>1, <3>2 DEF ReadInv
    <3>4. /\ Dir = Up(path, n - 1) /\ Lines = Settings(Dir) /\ Len(Lines) \in Nat
          /\ n - 1 \in Above(path) /\ r > Len(Lines) /\ r \in Int
      BY <3>1, <3>2, ReadingHere DEF IInv, Reading
    <3>5. Len(at') = n - 1
      BY <3>1, <3>4, PathParts
    <3>6. \A j \in Above(path) : \A i \in DOMAIN Settings(Up(path, j)) :
            Before(j, i, n - 1, 0) => Before(j, i, n, r)
      <4> SUFFICES ASSUME NEW j \in Above(path), NEW i \in DOMAIN Settings(Up(path, j)),
                          Before(j, i, n - 1, 0)
                   PROVE  Before(j, i, n, r)
        OBVIOUS
      <4>1. j = n - 1 => i < r
        BY <2>6, <3>4
      <4> QED
        BY <2>5, <2>6, <4>1 DEF Before
    <3>7. HeadersRead(path, n - 1, 0)'
      BY <2>1, <3>1, <3>3, <3>6, SameRead
    <3> QED
      BY <2>3, <3>1, <3>5, <3>7 DEF ReadInv
  <2> QED
    BY <1>3, <2>7, <2>8, <2>9
<1>4. CASE ApplyFilters
  <2>1. /\ pc = "config" /\ (~keep \/ at = <<>>) /\ pc' \in {"read", "end"}
        /\ UNCHANGED <<inputs, todo, opt>>
    BY <1>4 DEF ApplyFilters, Quits
  <2>2. PICK path \in Seq(STRING) \ {<<>>} :
           /\ path = File.path /\ Len(at) \in 0..Len(path) /\ Searched(path, Len(at))
    BY <2>1, SearchedPath
  <2>3. HeadersRead(path, Len(at), 0)
    BY <2>1, <2>2 DEF ReadInv
  <2>4. HeadersAbove(path) \subseteq opt.exts
    BY <2>1, <2>2, <2>3, AllRead
  <2>5. HeadersAbove(File.path)' = HeadersAbove(path)
    <3>1. File'.path = path
      BY <2>1, <2>2 DEF File, inputs
    <3>2. HeadersAbove(File.path)' = HeadersAbove(File'.path)
      BY <2>1, SameExts
    <3> QED
      BY <3>1, <3>2
  <2> QED
    BY <2>1, <2>4, <2>5 DEF ReadInv
<1>5. CASE StartFile \/ ProcessLine \/ UNCHANGED vars
  <2>1. UNCHANGED <<inputs, todo, opt>>
    BY <1>5 DEF StartFile, ProcessLine, vars
  <2>2. File' = File /\ (Checked' <=> Checked)
    BY <2>1 DEF File, Checked, inputs
  <2>3. HeadersAbove(File.path)' = HeadersAbove(File.path)
    <3>1. HeadersAbove(File.path)' = HeadersAbove(File'.path)
      BY <2>1, SameExts
    <3> QED
      BY <2>2, <3>1
  <2>4. CASE StartFile \/ ProcessLine
    <3>1. pc \in {"read", "lines"} /\ pc' = "lines" /\ (pc = "read" => Checked)
      BY <2>4 DEF StartFile, ProcessLine
    <3> QED
      BY <2>1, <2>2, <2>3, <3>1 DEF ReadInv
  <2>5. CASE UNCHANGED vars
    <3>1. pc' = pc /\ row' = row /\ at' = at
      BY <2>5 DEF vars, config
    <3>2. \A path, n, r : HeadersRead(path, n, r) => HeadersRead(path, n, r)'
      BY <2>1, SameRead
    <3> QED
      BY <2>1, <2>2, <2>3, <3>1, <3>2 DEF ReadInv
  <2> QED
    BY <1>5, <2>4, <2>5
<1>6. CASE \/ TakeOption \/ ParseArguments \/ Exclude \/ Unreadable \/ Ignored
           \/ FinishFile \/ Finish
  <2>1. pc' \notin Busy
    <3>1. CASE TakeOption
      <4>1. pc = "args" /\ (Quits(IF Lists(cmd.options[row]) THEN 0 ELSE 1) \/ pc' = pc)
        BY <3>1, Zenon DEF TakeOption
      <4>2. \A status : Quits(status) => pc' = "end"
        BY DEF Quits
      <4> QED
        BY <4>1, <4>2 DEF Busy
    <3>2. CASE \/ ParseArguments \/ Exclude \/ Unreadable \/ Ignored \/ FinishFile \/ Finish
      BY <3>2 DEF ParseArguments, Exclude, Unreadable, Ignored, FinishFile, Finish, Quits,
                  NextFile, Busy
    <3> QED
      BY <1>6, <3>1, <3>2
  <2> QED
    BY <1>1, <2>1
<1> QED
  BY <1>2, <1>3, <1>4, <1>5, <1>6 DEF Next

(* A file that is left was in scope exactly if it was checked.              *)
LEMMA LeftScope ==
  ASSUME IInv, ValidInv, ReadInv, ScopeInv, pc \in Busy, NextFile,
         UNCHANGED <<inputs, exit, used>>,
         \/ pc = "lines" \/ Excluded(File.path) \/ ~File.readable
         \/ pc = "read" /\ ~Checked
  PROVE  ScopeInv'
<1>1. /\ Done' = Done \cup {Number} /\ Number \notin Done
      /\ File = disk[cmd.files[Number]] /\ Head(todo) = cmd.files[Number]
  BY LeftBehind, ThisFile DEF IInv, TodoInv
<1>2. WasChecked(Number) <=> pc = "lines"
  BY <1>1 DEF IInv, UsedInv, WasChecked, Range
<1>3. Reached = Number /\ pc \notin {"args", "end"}
  BY DEF Reached, Busy
<1>4. GivenExts \subseteq opt.exts /\ opt.exts \subseteq ExtsUpTo(Number)
  BY <1>3 DEF ValidInv
<1>5. InScope(Number)
  <2>1. CASE pc = "lines"
    <3>1. Head(todo) = Stdin \/ File.ext \in opt.exts
      BY <2>1 DEF ReadInv, Checked
    <3> QED
      BY <1>1, <1>2, <1>4, <2>1, <3>1 DEF InScope
  <2>2. CASE pc # "lines" /\ (Excluded(File.path) \/ ~File.readable)
    BY <1>1, <1>2, <2>2 DEF InScope
  <2>3. CASE pc = "read" /\ ~Checked
    <3>1. HeadersAbove(File.path) \subseteq opt.exts /\ File.ext \notin opt.exts
      BY <2>3 DEF ReadInv, Checked
    <3> QED
      BY <1>1, <1>2, <1>4, <2>3, <3>1 DEF InScope
  <2> QED
    BY <2>1, <2>2, <2>3
<1>6. \A k : InScope(k)' <=> InScope(k)
  BY SameExts, SameExclusions DEF InScope, WasChecked
<1> QED
  BY <1>1, <1>5, <1>6 DEF ScopeInv

(* Every file that is done was in scope exactly if it was checked.          *)
LEMMA ScopeKeeps ==
  ASSUME IInv, ValidInv, ReadInv, ScopeInv, [Next]_vars
  PROVE  ScopeInv'
<1>1. CASE Exclude \/ Unreadable \/ Ignored \/ FinishFile
  <2>1. /\ pc \in Busy /\ NextFile /\ UNCHANGED <<inputs, exit, used>>
    BY <1>1 DEF Exclude, Unreadable, Ignored, FinishFile, Busy
  <2>2. Exclude => Excluded(File.path)
    <3> SUFFICES ASSUME Exclude PROVE Excluded(File.path)
      OBVIOUS
    <3>1. pc = "settings" /\ row <= Len(Lines) /\ Excludes(Lines[row])
      BY DEF Exclude
    <3>2. PICK path \in Seq(STRING) \ {<<>>} :
            /\ path = File.path
            /\ \E n \in 1..Len(path) : Reading(path, n)
      BY <3>1, SearchedPath
    <3>3. PICK n \in 1..Len(path) : Reading(path, n)
      BY <3>2
    <3>4. Excluded(path)
      BY <3>1, <3>3, ExclusionFound DEF IInv
    <3> QED
      BY <3>2, <3>4
  <2>3. \/ pc = "lines" \/ Excluded(File.path) \/ ~File.readable
        \/ pc = "read" /\ ~Checked
    BY <1>1, <2>2 DEF Unreadable, Ignored, FinishFile
  <2> QED
    BY <2>1, <2>3, LeftScope
<1>2. CASE TakeOption \/ ParseArguments
  <2>1. pc = "args" /\ UNCHANGED <<inputs, todo>>
    BY <1>2 DEF TakeOption, ParseArguments
  <2>2. Done' = Done /\ Done = {}
    BY <2>1, NothingYet DEF Done, Number, inputs
  <2> QED
    BY <2>2 DEF ScopeInv
<1>3. CASE \/ BeginFile \/ LookUp \/ TakeSetting \/ CloseConfig \/ ApplyFilters \/ StartFile
           \/ ProcessLine \/ Finish \/ UNCHANGED vars
  <2>1. UNCHANGED <<inputs, todo>>
    BY <1>3 DEF BeginFile, LookUp, TakeSetting, CloseConfig, ApplyFilters, StartFile,
                ProcessLine, Finish, vars
  <2>2. Done' = Done
    BY <2>1 DEF Done, Number, inputs
  <2>3. \A k \in Done : WasChecked(k)' <=> WasChecked(k)
    <3>1. CASE StartFile
      <4>1. /\ used' = Append(used, [file |-> Number, opt |-> opt]) /\ pc \in Busy
        BY <3>1 DEF StartFile, Busy
      <4>2. Range(used') = Range(used) \cup {[file |-> Number, opt |-> opt]}
        BY <4>1, AppendRange DEF IInv, UsedInv
      <4>3. Number \notin Done
        BY <4>1, CheckedFile
      <4>4. \A k : WasChecked(k) <=> \E x \in Range(used) : x.file = k
        BY DEF WasChecked, Range
      <4>5. \A k : WasChecked(k)' <=> \E x \in Range(used') : x.file = k
        BY DEF WasChecked, Range
      <4>6. [file |-> Number, opt |-> opt].file = Number
        OBVIOUS
      <4> QED
        BY <4>2, <4>3, <4>4, <4>5, <4>6
    <3>2. CASE ~StartFile
      <4>1. used' = used
        BY <1>3, <3>2 DEF BeginFile, LookUp, TakeSetting, CloseConfig, ApplyFilters,
                          ProcessLine, Finish, vars
      <4> QED
        BY <4>1 DEF WasChecked
    <3> QED
      BY <3>1, <3>2
  <2>4. \A k \in Done : InScope(k)' <=> InScope(k)
    <3>1. \A path : Excluded(path)' <=> Excluded(path)
      BY <2>1, SameExclusions
    <3>2. disk' = disk /\ cmd' = cmd
      BY <2>1, SameExclusions
    <3> QED
      BY <2>1, <2>3, <3>1, <3>2, SameExts DEF InScope
  <2> QED
    BY <2>2, <2>4 DEF ScopeInv
<1> QED
  BY <1>1, <1>2, <1>3 DEF Next

(* exclude_files, set noparent and the extensions decide which files are    *)
(* checked, for any tree of configurations, any depth of a file in it and   *)
(* whatever the files before it left of the globals.                        *)
THEOREM ExclusionIsObeyed == Spec => []CheckedAreIncluded
<1>1. Init /\ IInv => BaseInv /\ ExtsInv
  <2> SUFFICES ASSUME Init, IInv PROVE BaseInv /\ ExtsInv
    OBVIOUS
  <2>1. pc = "args" /\ row = 1 /\ opt.exts = DefaultExts
        /\ DOMAIN opt = {"width", "root", "headers", "exts"}
    BY DEF Init
  <2>2. ExtsOf(1..(1 - 1)) = DefaultExts
    <3>1. 1..(1 - 1) = {}
      OBVIOUS
    <3>2. \A x : x \in ExtsOf({}) <=> x \in DefaultExts
      BY DEF ExtsOf
    <3>3. ExtsOf({}) = DefaultExts
      BY <3>2
    <3> QED
      BY <3>1, <3>3
  <2>3. ValidInv /\ ReadInv
    BY <2>1, <2>2 DEF ValidInv, ReadInv
  <2>4. ScopeInv
    BY <2>1, NothingYet DEF ScopeInv
  <2> QED
    BY <2>3, <2>4, BaseInit DEF ExtsInv
<1>2. IInv /\ BaseInv /\ ExtsInv /\ [Next]_vars => (BaseInv /\ ExtsInv)'
  BY BaseKeeps, ValidKeeps, ReadKeeps, ScopeKeeps DEF ExtsInv
<1>3. IInv /\ ExtsInv => CheckedAreIncluded
  BY DEF IInv, UsedInv, Included, ExtsInv, ScopeInv, InScope, WasChecked, CheckedAreIncluded
<1> QED
  BY <1>1, <1>2, <1>3, Invariance, PTL DEF Spec
=============================================================================
