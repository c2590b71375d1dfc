--------------------------- MODULE MCLinearServer ---------------------------
(* Bounds for LinearServer: three loads.  Timing has two pages and a client   *)
(* that sends nothing, three times, after short and long waits.  Mixed has  *)
(* one exchange for each way through handle() that leaves something         *)
(* different behind, and after it every exchange that is let through to the *)
(* tests of the URI, and for one URI those that are not; the text varies    *)
(* where handle() sends it.  Secure is served with -s.                      *)
EXTENDS LinearServer

CONSTANTS c1, c2

Page(deep, query, found) ==
  [name |-> "page", deep |-> deep, query |-> query, found |-> found]

Get(uri, auth, text) ==
  [kind |-> "request", method |-> "GET", auth |-> auth, uri |-> uri,
   text |-> text, size |-> 2]

Module(found) == [name |-> "module", deep |-> TRUE, query |-> FALSE, found |-> found]

Visit(client, exchange, wait, time) ==
  [client |-> client, exchange |-> exchange, wait |-> wait, time |-> time]

MCTiming ==
  [n \in 1..3 |->
     {Visit(c1, x, wait, time) :
        x \in {Empty, Get(Page(FALSE, FALSE, "file"), "right", "data"),
                      Get(Page(TRUE, FALSE, "file"), "right", "data")},
        wait \in {0, 5}, time \in {0, 2}}]

MCMixed ==
  <<{Visit(c, x, 0, 0) : c \in Clients, x \in
       {Empty, Get(Page(FALSE, FALSE, "file"), "right", "data"),
               Get(Page(FALSE, FALSE, "file"), "none", "data"),
               Get(Page(TRUE, FALSE, "dir"), "right", "data"),
               Get(Page(TRUE, FALSE, "absent"), "right", "data"),
               Get(Module("absent"), "right", "data"),
               Get(Module("file"), "right", "data")}},
    {Visit(c, x, 0, 0) : c \in Clients, x \in
       {y \in Exchanges :
          /\ y.text = "data" \/ Part(y) \in {"finder", "cgi"}
          /\ \/ y.auth = "right" /\ y.method = "GET"
             \/ y.uri = Page(FALSE, FALSE, "file")}}>>

MCSecure ==
  [n \in 1..2 |->
     {Visit(c, Get(Page(FALSE, FALSE, "file"), "right", "data"), 0, 0) : c \in Clients}]

MCLoads == <<MCTiming, MCMixed, MCSecure>>
MCHttps == {3}
MCNone == {}
MCTwo == <<SubSeq(MCTiming, 1, 2)>>
=============================================================================
