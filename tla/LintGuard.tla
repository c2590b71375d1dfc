----------------------------- MODULE LintGuard -----------------------------
(***************************************************************************)
(* cpplint.py: the name a header guard must have, and what is wrong with    *)
(* the guard of a header.  A path is the sequence of its parts, and a       *)
(* macro's name is the path it is made of: FOO_BAR_H_ is <<"foo", "bar.h">>. *)
(***************************************************************************)
EXTENDS LintErrors

CONSTANTS
  Cwd,      \* the working directory
  SvnDirs,  \* the directories that have a .svn
  VcsDirs   \* those that have a .git, a .hg or a .svn

ASSUME GuardAssumption == SvnDirs \subseteq VcsDirs

Abs(path) == <<"/">> \o path
IsDir(d, path) == d # <<>> /\ IsStrictPrefix(d, path)

(* FileInfo.RepositoryName: the path below the root of the checkout.  With  *)
(* .svn that is the top of an unbroken chain of directories, otherwise the  *)
(* topmost directory that has one of the three; without one the full path.  *)
RepositoryName(path) ==
  LET unbroken(d) == \A e \in Prefixes(Front(path)) :
                       IsPrefix(d, e) => e \in SvnDirs
      roots == IF Front(path) \in SvnDirs
               THEN {d \in SvnDirs : IsPrefix(d, Front(path)) /\ unbroken(d)}
               ELSE {d \in VcsDirs : IsDir(d, path)}
  IN  IF roots = {} THEN Abs(path)
      ELSE LET n == Min({Len(d) : d \in roots})
           IN  SubSeq(path, n + 1, Len(path))

(* --root, or the root of a CPPLINT.cfg, which is joined to its directory.  *)
NoRoot == [given |-> FALSE]
Root(abs, dirs) == [given |-> TRUE, abs |-> abs, dirs |-> dirs]

SplitRoot(root) == IF root.abs THEN Abs(root.dirs) ELSE root.dirs

(* os.path.abspath                                                          *)
AbsRoot(root) ==
  Abs(FoldLeft(LAMBDA d, x : IF x # ".." THEN Append(d, x)
                             ELSE IF d = <<>> THEN d ELSE Front(d),
               IF root.abs THEN <<>> ELSE Cwd, root.dirs))

(* StripListPrefix: what follows the prefix; nothing if it is not one.      *)
StripListPrefix(s, prefix) ==
  IF IsPrefix(prefix, s) THEN SubSeq(s, Len(prefix) + 1, Len(s)) ELSE <<>>

(* GetHeaderGuardCPPVariable and its FixupPathFromRoot                      *)
GuardName(path, root) ==
  LET name == RepositoryName(path)
      below == StripListPrefix(name, SplitRoot(root))
      outer == StripListPrefix(Abs(path), AbsRoot(root))
  IN  IF ~root.given THEN name
      ELSE IF below # <<>> THEN below
      ELSE IF outer # <<>> THEN outer
      ELSE name
-----------------------------------------------------------------------------
(* What a header has: the line of its #ifndef and the name in it, if the    *)
(* #define has the same name (line 0 if not); the line of the last #endif   *)
(* (0 if there is none), the name and the kind of the comment on it; if     *)
(* the name ends in two underscores; if there is a // comment anywhere.     *)
NoGuard == [ifndef |-> 0, name |-> <<>>, twice |-> FALSE, endif |-> 0,
            tag |-> <<>>, style |-> "//", tagTwice |-> FALSE, slashes |-> TRUE]

GuardError(line, conf) == {[line |-> line, cat |-> HeaderGuard, conf |-> conf]}

(* The #ifndef: two underscores at the end are let pass with confidence 0.  *)
IfndefErrors(g, name) ==
  IF g.name # name THEN GuardError(g.ifndef, 5)
  ELSE IF g.twice THEN GuardError(g.ifndef, 0)
  ELSE {}

(* The comment on the last #endif, which may be of the C kind only where    *)
(* the file has no other kind.                                              *)
EndifErrors(g, name) ==
  IF g.endif = 0 \/ g.tag # name \/ (g.style = "/*" /\ g.slashes)
  THEN GuardError(g.endif, 5)
  ELSE IF g.tagTwice THEN GuardError(g.endif, 0)
  ELSE {}
=============================================================================
