------------------------------ MODULE Respond ------------------------------
(***************************************************************************)
(* Server::handle: what one exchange with a client does, from the request  *)
(* line to the response and to the globals route and responseCode, for a   *)
(* request line of three words.  It is the same in every concurrency mode; *)
(* LinearServer composes it with the loop that keeps the statistics and    *)
(* the log.                                                                *)
(*                                                                         *)
(* An exchange is a request together with what it meets in the file system.*)
(* Names and contents are abstracted to what the tests in handle(),        *)
(* file_finder() and HttpResponse::to_string() tell apart.                 *)
(***************************************************************************)
EXTENDS Integers

CONSTANTS
  Sizes,    \* sizes of a file, a listing or a program's output
  Garbage   \* what an uninitialised HttpResponse::len may hold

ASSUME RespondAssumption == Sizes \subseteq Nat /\ Garbage \subseteq Nat

(* What the name begins with.  "logsx" is any name that begins with /logs  *)
(* and goes on; "module" is a name under /cgi-bin with ".so" in it.        *)
Names == {"cgi", "module", "stats", "logs", "logsx", "page"}

(* deep: a second '/' somewhere; query: a '?'; found: what stat() says of  *)
(* the file, or the directory, with or without an index.html; for a        *)
(* program or a module, "absent" is one that cannot be run.                *)
Uris ==
  {u \in [name : Names, deep : BOOLEAN, query : BOOLEAN,
          found : {"file", "indexed", "dir", "absent"}] :
     /\ u.name \in {"stats", "logs"} =>
          ~u.deep /\ ~u.query /\ u.found = "file"
     /\ u.name = "logsx" => u.deep \/ u.query
     /\ u.name \in {"cgi", "module"} => u.deep /\ u.found \in {"file", "absent"}}

(* What to_string() and handle() take for something else than data: the    *)
(* strings "~@NF@~", "WWW-Authenticate: ..." and "~@!HACK!@~", and for a   *)
(* program "loadable" and "~!@#ERR#@!~".                                   *)
Texts == {"data", "NF", "AUTH", "HACK", "loadable", "ERR"}

Exchanges ==
  [kind : {"request"}, method : {"GET", "other"},
   auth : {"none", "wrong", "right"}, uri : Uris, text : Texts, size : Sizes]

(* The client closes the connection before it sends a line.                *)
Empty == [kind |-> "empty"]

(* The status of a response, the Content-Length it announces, if any, and  *)
(* the bytes that follow its header.                                       *)
Reply(status, length, body) == [status |-> status, length |-> length, body |-> body]
NoLength == -1

(* Nothing is written to the socket by handle().                           *)
Silence == Reply("none", NoLength, 0)
-----------------------------------------------------------------------------
(* file_finder(): the route, and whether fopen() succeeds.                 *)
FinderRoute(u) ==
  IF u.name = "stats" THEN "/stats"
  ELSE IF u.name = "logs" THEN "/logs" ELSE "/htdocs"

FinderOpens(u) == u.found \in {"file", "indexed"}

(* Which part of handle() builds the message body.  The order of the tests *)
(* is the code's: a name in the root, or one that begins with /logs, never *)
(* reaches dirHtmlBuild(), and one with a '?' reaches it before stat().    *)
Part(x) ==
  LET u == x.uri IN
  IF x.auth # "right" THEN "challenge"
  ELSE IF x.method # "GET" THEN "nothing"
  ELSE IF u.name \in {"cgi", "module"} THEN u.name
  ELSE IF u.name \in {"stats", "logs", "logsx"} \/ ~u.deep THEN "finder"
  ELSE IF u.query \/ u.found \in {"indexed", "dir"} THEN "listing"
  ELSE IF u.found = "file" THEN "finder" ELSE "nothing"

(* handle_cgi_bin(): a module's result is a string, as a program's is.     *)
CgiText(x) ==
  IF x.uri.name = "module" THEN IF x.uri.found = "file" THEN "loadable" ELSE "ERR"
  ELSE IF x.uri.found = "absent" THEN "data" ELSE x.text

(* message_body when to_string() is called, as to_string() reads it.       *)
BodyText(x) ==
  IF Part(x) = "challenge" THEN "AUTH"
  ELSE IF Part(x) = "finder" /\ FinderOpens(x.uri) THEN x.text
  ELSE IF Part(x) = "listing" THEN "data"
  ELSE IF Part(x) \in {"cgi", "module"} THEN CgiText(x) ELSE "NF"

(* A program that cannot be run prints nothing.                            *)
BodySize(x) == IF Part(x) = "cgi" /\ x.uri.found = "absent" THEN 0 ELSE x.size

(* Mutant: more than the trailer that is sent.                             *)
LengthsTooLong(x) ==
  IF Part(x) = "finder" /\ FinderOpens(x.uri) THEN {x.size + 5} ELSE {0}

(* The values of resp.len at that time: ftell() + 1 for a file, the length *)
(* of a listing, 0 if file_finder() fails, and never set on other paths.   *)
Lengths(x) ==
  IF Part(x) = "finder" THEN {IF FinderOpens(x.uri) THEN x.size + 1 ELSE 0}
  ELSE IF Part(x) = "listing" THEN {x.size} ELSE Garbage

(* The CRLF CRLF that to_string() adds after the body, and the challenge,  *)
(* which it sends as a header and again as the body.                       *)
Trailer == 4
Challenge == 45

(* HttpResponse::to_string() for x, with len in resp.len.                  *)
ToString(x, len) ==
  LET text == BodyText(x) IN
  IF Part(x) = "cgi" THEN Reply("200", NoLength, BodySize(x))
  ELSE IF text = "NF" THEN Reply("404", len, 0)
  ELSE IF text = "AUTH" THEN Reply("401", NoLength, Challenge + Trailer)
  ELSE IF text = "HACK" THEN Reply("403", NoLength, 0)
  ELSE Reply("200", len, BodySize(x) + Trailer)

(* The early returns of handle() for a module and for its errors.          *)
ReturnsEarly(x) ==
  Part(x) \in {"cgi", "module"} /\ CgiText(x) \in {"loadable", "ERR"}

(* What handle() may write to the socket for x.                            *)
Replies(x) ==
  IF x = Empty \/ ReturnsEarly(x) THEN {Silence}
  ELSE {ToString(x, len) : len \in Lengths(x)}

(* route when handle() returns: set to /logs at its start.                 *)
RouteAfter(x) ==
  IF x = Empty THEN "/logs"
  ELSE IF Part(x) \in {"cgi", "module"} THEN "/cgi-bin"
  ELSE IF Part(x) = "finder" THEN FinderRoute(x.uri) ELSE "/logs"

(* Mutant: responseCode is not set for modules.                            *)
CodeKept(x, reply, before) ==
  IF x = Empty \/ Part(x) = "challenge" \/ ReturnsEarly(x) THEN before
  ELSE reply.status

(* responseCode when handle() returns: the status taken from to_string(),  *)
(* unless handle() returned before that.                                   *)
CodeAfter(x, reply, before) ==
  IF x = Empty \/ Part(x) = "challenge" THEN before
  ELSE IF ~ReturnsEarly(x) THEN reply.status
  ELSE IF CgiText(x) = "ERR" THEN "404" ELSE "200"
=============================================================================
