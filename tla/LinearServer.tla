---------------------------- MODULE LinearServer ----------------------------
(***************************************************************************)
(* myhttpd without a concurrency option: Server::run_linear.  One process   *)
(* accepts, handles, updates the statistics file and appends to the log,    *)
(* in this order, for one connection at a time.  This is the only mode      *)
(* that keeps statistics and a log.  A crash or SIGINT ends the process     *)
(* between any two of these steps, or in the middle of a line of the log;    *)
(* when it is started again the files are still there and the variables     *)
(* are not.                                                                 *)
(*                                                                          *)
(* Times are in microseconds; a wait is the time from the top of the loop   *)
(* to the end of accept(), a duration the time spent in handle().           *)
(***************************************************************************)
EXTENDS Integers, Sequences, FiniteSetsExt, Functions, Respond

CONSTANTS
  Clients,    \* IP addresses of clients
  Loads,      \* what is asked of the server: Loads[i][n] has the visits that
              \* the n-th connection of load i may be; a visit is a client,
              \* its exchange, the wait for it and the time in handle()
  Milli,      \* the microseconds in a millisecond
  IntSpan,    \* the number of values of an int
  Https,      \* the loads that are served with -s
  Unwritten,  \* the content of loghelp before its first use
  NoFile,     \* or there is no such file
  Unset,      \* the globals at start: empty strings
  MaxStarts   \* bound: processes started

ASSUME LinearAssumption ==
  /\ \A l \in Range(Loads) :
       l \in Seq(SUBSET [client : Clients, exchange : Exchanges \cup {Empty},
                         wait : Nat, time : Nat])
  /\ Milli \in Nat \ {0} /\ IntSpan \in Nat \ {0}
  /\ Https \subseteq DOMAIN Loads
  /\ MaxStarts \in Nat \ {0}

VARIABLES
  pc,        \* the statement of the loop that is next, or "down"
  load,      \* which of Loads; its length bounds the connections
  cur,       \* the visit that is being served
  glob,      \* the globals a, m, s, route and responseCode
  ctr, low, high,  \* ctr; min and min1; max and max1
  took,      \* diff and diff1 of this iteration
  stat,      \* what stat.txt says
  log,       \* what the calls of logProcess have to write to myhttpd.log,
             \* and how many of its parts each has written; a torn line
             \* has no newline, and the next one goes on behind it
  loghelp,   \* the address in http-root-dir/loghelp
  served,    \* history: the connections whose handle() returned
  since,     \* history: how many of them earlier processes served
  lasts,     \* history: the last of them when a process was started
  starts     \* history: the number of processes started

vars == <<pc, load, cur, glob, ctr, low, high, took, stat, log, loghelp,
          served, since, lasts, starts>>

(* int arithmetic: duration_cast's 64-bit count is assigned to an int.      *)
ToInt(n) == ((n + IntSpan \div 2) % IntSpan) - IntSpan \div 2

Zero == [ms |-> 0, us |-> 0]
NoOne == [client |-> Unset, exchange |-> Empty, wait |-> 0, time |-> 0]

(* updateStat(start, total, high, low, onMax, onMin, ...): its parameter a  *)
(* is printed on the line of the maximum and b on that of the minimum.      *)
StatFile(total, hi, lo, a, b) ==
  [total |-> total, max |-> hi, maxUri |-> a, min |-> lo, minUri |-> b]

Globals == [a |-> Unset, m |-> Unset, s |-> Unset, route |-> Unset, code |-> Unset]

StartsAfresh ==
  /\ pc' = "top" /\ cur' = NoOne
  /\ glob' = Globals
  /\ ctr' = 1 /\ low' = Zero /\ high' = Zero /\ took' = Zero

Init ==
  /\ pc = "top" /\ load \in DOMAIN Loads /\ cur = NoOne
  /\ glob = Globals
  /\ ctr = 1 /\ low = Zero /\ high = Zero /\ took = Zero
  /\ stat = StatFile(0, Zero, Zero, Unset, Unset)
  /\ log = <<>> /\ loghelp \in {Unwritten, NoFile}
  /\ served = <<>> /\ since = 0 /\ lasts = {} /\ starts = 1
-----------------------------------------------------------------------------
(* updateStat() at the top of the loop.                                     *)
Top ==
  /\ pc = "top" /\ pc' = "accept"
  /\ stat' = StatFile(ctr, high, low, glob.m, glob.s)
  /\ UNCHANGED <<load, cur, glob, ctr, low, high, took, log, loghelp,
                 served, since, lasts, starts>>

(* Mutant: loghelp is written once only.                                    *)
AcceptUnnoted(v) ==
  /\ pc = "accept" /\ pc' = "handle"
  /\ cur' = v
  /\ loghelp' = IF loghelp \in Clients THEN loghelp ELSE v.client
  /\ UNCHANGED <<load, glob, ctr, low, high, took, stat, log, served, since,
                 lasts, starts>>

(* accept_connection(): the constructor of TCPSocket writes loghelp, that   *)
(* of TLSSocket does not.                                                   *)
Accept(v) ==
  /\ pc = "accept" /\ pc' = "handle"
  /\ cur' = v
  /\ loghelp' = IF load \in Https THEN loghelp ELSE v.client
  /\ UNCHANGED <<load, glob, ctr, low, high, took, stat, log, served, since,
                 lasts, starts>>

(* handle(sock) returns, and the end time is taken.                         *)
HandleReturns ==
  LET x == cur.exchange
      time == cur.wait + cur.time
  IN
  \E reply \in Replies(x) :
    /\ pc = "handle" /\ pc' = "stats"
    /\ glob' = [glob EXCEPT !.a = IF x = Empty THEN @ ELSE x.uri,
                            !.route = RouteAfter(x),
                            !.code = CodeAfter(x, reply, @)]
    /\ took' = [ms |-> ToInt(time \div Milli), us |-> ToInt(time)]
    /\ served' = Append(served, [client |-> cur.client, exchange |-> x,
                                 reply |-> reply, time |-> time])
    /\ UNCHANGED <<load, cur, ctr, low, high, stat, log, loghelp, since, lasts,
                   starts>>

(* Mutant: min and max have no first value.                                 *)
FirstNever == FALSE

(* The first time measured, or what the code takes for it.                  *)
First == low.ms = 0 /\ high.ms = 0

NewFirst ==
  /\ First
  /\ low' = took /\ high' = took
  /\ glob' = [glob EXCEPT !.m = glob.a, !.s = glob.a]
  /\ stat' = StatFile(ctr, took, took, glob.a, glob.a)

NewLow ==
  /\ ~First /\ took.ms < low.ms
  /\ low' = took
  /\ glob' = [glob EXCEPT !.m = glob.a]
  /\ stat' = StatFile(ctr, high, low', glob'.m, glob'.s)
  /\ UNCHANGED high

(* Mutant: max1 is not written.                                             *)
NewHighKeepsMicros ==
  /\ ~First /\ took.ms >= low.ms /\ took.ms > high.ms
  /\ high' = [high EXCEPT !.ms = took.ms]
  /\ glob' = [glob EXCEPT !.s = glob.a]
  /\ stat' = StatFile(ctr, high', low, glob'.m, glob'.s)
  /\ UNCHANGED low

NewHigh ==
  /\ ~First /\ took.ms >= low.ms /\ took.ms > high.ms
  /\ high' = took
  /\ glob' = [glob EXCEPT !.s = glob.a]
  /\ stat' = StatFile(ctr, high', low, glob'.m, glob'.s)
  /\ UNCHANGED low

NeitherNew ==
  /\ ~First /\ took.ms >= low.ms /\ took.ms <= high.ms
  /\ UNCHANGED <<low, high, stat, glob>>

(* The update of min, max, m and s, and of the file when one changed.       *)
Stats ==
  /\ pc = "stats" /\ pc' = "log"
  /\ NewFirst \/ NewLow \/ NewHigh \/ NeitherNew
  /\ UNCHANGED <<load, cur, ctr, took, log, loghelp, served, since, lasts,
                 starts>>

(* Mutant: the address is not read.                                         *)
LineUri ==
  [conn |-> Len(served), ip |-> glob.a, route |-> glob.route, code |-> glob.code,
   written |-> 0]

(* A line before any of its parts is written: the time, the address, the    *)
(* route, the code and the newline.  conn is history: whose line it is.     *)
Line ==
  [conn |-> Len(served), ip |-> loghelp, route |-> glob.route, code |-> glob.code,
   written |-> 0]

Parts == 5
Whole(line) == line.written = Parts
HasAddress(line) == line.written >= 2
HasCode(line) == line.written >= 4

(* logProcess() opens both files.                                           *)
LogOpens ==
  /\ pc = "log" /\ pc' = "write"
  /\ log' = Append(log, Line)
  /\ UNCHANGED <<load, cur, glob, ctr, low, high, took, stat, loghelp, served,
                 since, lasts, starts>>

(* It writes the next part.  It does not test what fopen() returned: fgetc()*)
(* of NULL ends the process when loghelp does not exist.                    *)
LogWrites ==
  /\ pc = "write"
  /\ ~Whole(log[Len(log)])
  /\ log[Len(log)].written = 1 => loghelp # NoFile
  /\ log' = [log EXCEPT ![Len(log)].written = @ + 1]
  /\ UNCHANGED <<pc, load, cur, glob, ctr, low, high, took, stat, loghelp, served,
                 since, lasts, starts>>

(* Mutant: the request is not counted.                                      *)
CountsNot ==
  /\ pc = "write" /\ pc' = "top"
  /\ Whole(log[Len(log)])
  /\ cur' = NoOne
  /\ UNCHANGED <<load, glob, ctr, low, high, took, stat, log, loghelp, served,
                 since, lasts, starts>>

(* ctr++, and the end of the iteration.                                     *)
Counts ==
  /\ pc = "write" /\ pc' = "top"
  /\ Whole(log[Len(log)])
  /\ ctr' = ctr + 1
  /\ cur' = NoOne
  /\ UNCHANGED <<load, glob, low, high, took, stat, log, loghelp, served, since,
                 lasts, starts>>

(* SIGINT, or an exception or a signal that ends handle() or logProcess().  *)
Dies ==
  /\ pc # "down" /\ pc' = "down"
  /\ UNCHANGED <<load, cur, glob, ctr, low, high, took, stat, log, loghelp,
                 served, since, lasts, starts>>

(* The operator starts the server again.                                    *)
Restart ==
  /\ pc = "down" /\ starts < MaxStarts
  /\ StartsAfresh
  /\ since' = Len(served) /\ lasts' = lasts \cup {Len(served)}
  /\ starts' = starts + 1
  /\ UNCHANGED <<load, stat, log, loghelp, served>>
-----------------------------------------------------------------------------
Accepts ==
  /\ pc = "accept" /\ Len(served) < Len(Loads[load])
  /\ \E v \in Loads[load][Len(served) + 1] : Accept(v)

Next ==
  \/ Top \/ Accepts \/ HandleReturns \/ Stats \/ LogOpens \/ LogWrites \/ Counts
  \/ Dies \/ Restart

Spec == Init /\ [][Next]_vars
-----------------------------------------------------------------------------
TypeOK ==
  /\ pc \in {"top", "accept", "handle", "stats", "log", "write", "down"}
  /\ cur = NoOne \/ \E visits \in Range(Loads[load]) : cur \in visits
  /\ DOMAIN glob = DOMAIN Globals
  /\ ctr \in Nat
  /\ {low, high, took} \subseteq [ms : Int, us : Int]
  /\ DOMAIN stat = DOMAIN StatFile(0, Zero, Zero, Unset, Unset)
  /\ \A i \in DOMAIN log : HasAddress(log[i]) => log[i].ip \in Clients \cup {Unwritten}
  /\ loghelp \in Clients \cup {Unwritten, NoFile}
  /\ {served[i].client : i \in DOMAIN served} \subseteq Clients
  /\ since \in 0..Len(served) /\ lasts \subseteq 0..Len(served)
  /\ starts \in 1..MaxStarts

(* The connections of the running process, and those the statistics count.  *)
Recent == SubSeq(served, since + 1, Len(served))
Counted == IF pc = "stats" THEN SubSeq(Recent, 1, Len(Recent) - 1) ELSE Recent

Millis(r) == r.time \div Milli
MaxTime == Max({0} \cup {Millis(Counted[i]) : i \in DOMAIN Counted})

(* No time counted overflows an int of milliseconds (25 days).              *)
MillisFit == \A i \in DOMAIN Counted : Millis(Counted[i]) < IntSpan \div 2

(* The code's test for the first time, min == 0 && max == 0, skips the      *)
(* times below one millisecond that come before any other.  From the first  *)
(* longer one on, min is the minimum and max the maximum.                   *)
StatsTrackExtremes ==
  pc # "down" /\ MillisFit =>
    LET late == {i \in DOMAIN Counted : \E j \in 1..i : Millis(Counted[j]) > 0}
    IN /\ high.ms = MaxTime
       /\ low.ms = IF late = {} THEN 0 ELSE Min({Millis(Counted[i]) : i \in late})

(* The two figures of the maximum, and of the minimum, belong to the same   *)
(* connection, each cut to an int of its own: for a long one the            *)
(* microseconds are wrapped and the milliseconds are not.                   *)
BothUnitsAgree ==
  pc # "down" /\ Counted # <<>> =>
    \A figure \in {low, high} :
      \E i \in DOMAIN Counted :
        figure.us = ToInt(Counted[i].time) /\ figure.ms = ToInt(Millis(Counted[i]))

(* While a connection is awaited or handled, so for every reader of         *)
(* /stats, stat.txt has the figures of all the connections before and a     *)
(* total that counts the present one.                                       *)
StatFileFresh ==
  pc \in {"accept", "handle"} =>
    /\ stat.total = Len(Recent) + 1 /\ stat.min = low
    /\ MillisFit => stat.max.ms = MaxTime

(* A crash loses or tears the line of one connection at most, the one its   *)
(* process served last: every other connection has a whole line.  The lines *)
(* are in the order of the connections, and one that has an address has     *)
(* that of its client.  (Over TLS no constructor writes loghelp, and the    *)
(* lines have what somebody else left there.)                               *)
LogNamesClients ==
  /\ \A n \in DOMAIN served \ lasts :
       n < Len(served) \/ pc \in {"top", "accept", "handle"} =>
         \E i \in DOMAIN log : log[i].conn = n /\ Whole(log[i])
  /\ \A i, j \in DOMAIN log : i < j => log[i].conn < log[j].conn
  /\ load \notin Https =>
       \A i \in DOMAIN log : HasAddress(log[i]) => log[i].ip = served[log[i].conn].client

(* For a connection with the right credentials the log has the status that  *)
(* was sent.  Where handle() returned before it sent one, it has 200 if the *)
(* module ran or the program printed "loadable", and 404 otherwise.         *)
Runs(x) ==
  /\ x.uri.found = "file"
  /\ x.uri.name = "cgi" => x.text = "loadable"
  /\ x.uri.name \in {"cgi", "module"}

StatusOf(r) ==
  IF r.reply # Silence THEN r.reply.status ELSE IF Runs(r.exchange) THEN "200" ELSE "404"

Authorized(r) == r.exchange # Empty /\ r.exchange.auth = "right"

CodeOfAuthorized ==
  \A i \in DOMAIN log :
    LET r == served[log[i].conn]
    IN HasCode(log[i]) /\ Authorized(r) => log[i].code = StatusOf(r)

(* A client that reads as many bytes as a 200 announces gets them all, and  *)
(* a file or a listing is only sent for the right credentials.              *)
NeverShort ==
  \A i \in DOMAIN served :
    LET r == served[i]
    IN r.reply.status = "200" =>
         r.reply.length <= r.reply.body /\ r.exchange.auth = "right"
-----------------------------------------------------------------------------
(* What a comment in server.cc says and the code does not do: violated.     *)
(* "Updating the min. & max. service time": min is the least time.          *)
MinIsMinimum ==
  pc # "down" /\ Counted # <<>> =>
    low.ms = Min({Millis(Counted[i]) : i \in DOMAIN Counted})
=============================================================================
