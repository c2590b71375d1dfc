----------------------------- MODULE MCLintRun -----------------------------
(* Bounds for LintRun: a project /p with a directory /p/q, whose files are  *)
(* linted in one or the other order; configurations with one or two lines   *)
(* in the two directories; files of two or three lines.                     *)
EXTENDS LintRun

P == <<"p">>
Q == <<"p", "q">>

MCCwd == P
MCSvn == {}
MCVcs == {P}

F(on, of) == [on |-> on, of |-> of]
Set(name, val) == [name |-> name, val |-> val]
Cfg(settings) == [readable |-> TRUE, settings |-> settings]

Cmd(options, files) == [options |-> options, files |-> files]

Both == <<"a.cc", "b.h">>
Back == <<"b.h", "a.cc">>

MCCommands ==
  {Cmd(<<>>, Both), Cmd(<<>>, Back),
   Cmd(<<Set("quiet", TRUE), Set("counting", "toplevel")>>, Both),
   Cmd(<<Set("filter", <<F("-", <<"build">>), F("+", IncludeAlpha)>>),
         Set("counting", "detailed")>>, Back),
   Cmd(<<Set("filter", <<F("-", All), F("+", <<"whitespace">>)>>),
         Set("verbose", 2), Set("quiet", TRUE)>>, <<"b.h", "a.cc", "x.py">>),
   Cmd(<<Set("headers", {"hpp"}), Set("extensions", {"cc"}),
         Set("linelength", 9)>>, Both),
   Cmd(<<Set("extensions", {"h"}), Set("headers", {"py"})>>, <<"a.cc", "x.py", "b.h">>),
   Cmd(<<Set("root", Root(FALSE, <<"q">>))>>, <<Stdin, "b.h">>)}

(* Command lines that end at once.                                          *)
MCRefused ==
  {Cmd(<<Set("help", TRUE)>>, Both), Cmd(<<Set("filter", <<>>)>>, Both),
   Cmd(<<Set("linelength", NotNumber)>>, Both), Cmd(<<>>, <<>>),
   Cmd(<<Set("counting", "most")>>, Both),
   Cmd(<<Set("filter", <<F("?", Tab)>>)>>, Both)}

TopSettings ==
  {<<>>, <<Set("filter", <<F("-", <<"whitespace">>)>>), Set("linelength", 5)>>,
   <<Set("exclude", {"q"}), Set("filter", <<F("-", Tab)>>)>>,
   <<Set("filter", <<F("+", IncludeAlpha)>>), Set("filter", <<F("-", IncludeAlpha)>>)>>,
   <<Set("headers", {"cc"}), Set("root", <<"q">>)>>}

NestedSettings ==
  {<<Set("filter", <<F("+", <<"whitespace">>), F("-", Newline)>>)>>,
   <<Set("noparent", TRUE), Set("linelength", 7)>>,
   <<Set("linelength", NotNumber), Set("exclude", {"b.h"})>>,
   <<Set("other", "x"), Set("filter", <<F("?", Tab)>>)>>}

MCTrees ==
  {(P :> Cfg(t)) : t \in TopSettings}
  \cup {(P :> Cfg(t)) @@ (Q :> Cfg(n)) : t \in TopSettings, n \in NestedSettings}
  \cup {(P :> Cfg(t)) @@ (Q :> [readable |-> FALSE, settings |-> <<>>]) : t \in TopSettings}

Fault(cat, conf, late) == [cat |-> cat, conf |-> conf, late |-> late]

L(note, width, cr, faults, mark) ==
  [note |-> note, width |-> width, cr |-> cr, faults |-> faults, mark |-> mark]

Unclean == {Fault(Tab, 1, FALSE), Fault(IncludeAlpha, 4, FALSE),
            Fault(Casting, 4, TRUE)}

File1(path, ext, lines, guard) ==
  [path |-> path, ext |-> ext, readable |-> TRUE, copyright |-> FALSE,
   unclosed |-> 0, lines |-> lines, guard |-> guard]

Notes == {NoNote, Note(All, FALSE), Note(All, TRUE), Note(Tab, TRUE),
          Note(Streams, FALSE), Note(<<"no", "such">>, FALSE)}

(* a.cc                                                                     *)
Source(note, mark) ==
  File1(P \o <<"a.cc">>, "cc",
        <<L(note, 6, FALSE, Unclean, mark), L(NoNote, 10, TRUE, Unclean, "none")>>,
        NoGuard)

(* b.h: an #ifndef in line 1, an #endif in line 2, guards right or wrong.   *)
Header(note, guard) ==
  [File1(Q \o <<"b.h">>, "h",
         <<L(note, 3, FALSE, {}, "none"),
          L(Note(HeaderGuard, note # NoNote), 6, FALSE, Unclean, "none")>>,
         guard) EXCEPT !.copyright = TRUE, !.unclosed = IF note.in THEN 1 ELSE 0]

Guards ==
  {NoGuard,
   [NoGuard EXCEPT !.ifndef = 1, !.name = <<"q", "b.h">>, !.endif = 2, !.tag = <<"q", "b.h">>],
   [NoGuard EXCEPT !.ifndef = 1, !.name = <<"b.h">>, !.endif = 2, !.tag = <<"b.h">>,
                   !.style = "/*", !.slashes = FALSE],
   [NoGuard EXCEPT !.ifndef = 1, !.name = <<"q", "b.h">>, !.twice = TRUE, !.endif = 2]}

Other(path, ext, readable) ==
  [File1(path, ext, <<L(NoNote, 6, FALSE, Unclean, "none")>>, NoGuard)
     EXCEPT !.readable = readable]

Disk(a, b) ==
  ("a.cc" :> a) @@ ("b.h" :> b)
    @@ ("x.py" :> Other(P \o <<"x.py">>, "py", TRUE))
    @@ (Stdin :> Other(P \o <<Stdin>>, Stdin, TRUE))

Sources ==
  {Source(n, "none") : n \in Notes}
  \cup {Source(Note(Tab, FALSE), "c"), Source(NoNote, "kernel"),
        [Source(NoNote, "none") EXCEPT !.readable = FALSE]}

Headers ==
  {Header(n, g) : g \in Guards,
     n \in {NoNote, Note(All, FALSE), Note(All, TRUE), Note(<<"no">>, TRUE)}}

MCDisks == {Disk(a, b) : a \in Sources, b \in Headers}

Plain == Disk(Source(NoNote, "none"), Header(NoNote, NoGuard))
Noted == Disk(Source(Note(All, TRUE), "c"),
              Header(Note(All, FALSE), CHOOSE g \in Guards : g.twice))
Broken == Disk(Source(NoNote, "kernel"),
               [Header(Note(All, TRUE), NoGuard) EXCEPT !.readable = FALSE])

In(C, T, D) == [cmd : C, tree : T, disk : D]

(* Every command under every tree, for three disks; every disk, for some    *)
(* commands and trees.                                                      *)
MCInputs ==
  In(MCCommands, MCTrees, {Plain, Noted, Broken})
  \cup In(MCRefused, {<<>>}, {Plain})
  \cup In({c \in MCCommands : c.files \in {Back} \/ c.options = <<>>},
          {P :> Cfg(<<Set("filter", <<F("+", IncludeAlpha)>>)>>),
           (P :> Cfg(<<Set("filter", <<F("-", <<"build">>)>>), Set("root", <<"q">>)>>))
             @@ (Q :> Cfg(<<Set("linelength", 5)>>))},
          MCDisks)

(* For the scope of the line length.                                        *)
MCWidths ==
  In({Cmd(<<>>, Both), Cmd(<<>>, Back)},
     {(P :> Cfg(t)) @@ (Q :> Cfg(n)) :
        t, n \in {<<>>, <<Set("linelength", 5)>>, <<Set("linelength", 7)>>}},
     {Plain})
=============================================================================
