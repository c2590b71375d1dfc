------------------------- MODULE LinearServerProofs -------------------------
(***************************************************************************)
(* What the run of LinearServer checks for two loads of two or three       *)
(* connections, proved for any loads, waits and times, any width of int    *)
(* and any number of starts.                                               *)
(***************************************************************************)
EXTENDS LinearServer, SequenceTheorems, TLAPS

(* One exchange, as Respond has it. *)

Routes == {"/logs", "/stats", "/htdocs", "/cgi-bin"}
Statuses == {"200", "404", "401", "403", "none"}
ReplyType == [status : Statuses, length : Int, body : Int]

(* A reply has the fields it is built from.                                *)
LEMMA ReplyIs ==
  ASSUME NEW status \in Statuses, NEW length \in Int, NEW body \in Int
  PROVE  /\ Reply(status, length, body) \in ReplyType
         /\ Reply(status, length, body).status = status
         /\ Reply(status, length, body).length = length
         /\ Reply(status, length, body).body = body
BY DEF Reply, ReplyType

(* An exchange without a reply.                                            *)
LEMMA SilenceIs == Silence \in ReplyType /\ Silence.status = "none"
<1>1. "none" \in Statuses /\ NoLength \in Int /\ 0 \in Int
  BY DEF Statuses, NoLength
<1> QED
  BY <1>1, ReplyIs DEF Silence

(* What to_string() makes of a body of each kind. *)
IsReply(reply, x, len) ==
  /\ reply \in ReplyType /\ reply.status # "none"
  /\ Part(x) = "cgi" => reply.length <= reply.body
  /\ Part(x) # "cgi" /\ BodyText(x) \in {"NF", "AUTH", "HACK"} =>
       reply.status # "200"
  /\ reply.status = "200" /\ len <= BodySize(x) + Trailer =>
       reply.length <= reply.body

(* to_string(), test by test.                                              *)
LEMMA ToStringIs ==
  ASSUME NEW x, NEW len \in Nat, BodySize(x) \in Nat
  PROVE  IsReply(ToString(x, len), x, len)
<1>a. NoLength \in Int /\ NoLength < 0 /\ Challenge \in Nat /\ Trailer \in Nat
  BY DEF NoLength, Challenge, Trailer
<1>b. /\ "200" \in Statuses /\ "404" \in Statuses
      /\ "401" \in Statuses /\ "403" \in Statuses
  BY DEF Statuses
<1>1. CASE Part(x) = "cgi"
  <2>1. ToString(x, len) = Reply("200", NoLength, BodySize(x))
    BY <1>1 DEF ToString
  <2>2. IsReply(Reply("200", NoLength, BodySize(x)), x, len)
    BY <1>a, <1>b, <1>1, ReplyIs DEF IsReply
  <2> QED
    BY <2>1, <2>2
<1>2. CASE Part(x) # "cgi" /\ BodyText(x) = "NF"
  <2>1. ToString(x, len) = Reply("404", len, 0)
    BY <1>2 DEF ToString
  <2>2. IsReply(Reply("404", len, 0), x, len)
    BY <1>a, <1>b, <1>2, ReplyIs DEF IsReply
  <2> QED
    BY <2>1, <2>2
<1>3. CASE Part(x) # "cgi" /\ BodyText(x) = "AUTH"
  <2>1. ToString(x, len) = Reply("401", NoLength, Challenge + Trailer)
    BY <1>3 DEF ToString
  <2>2. IsReply(Reply("401", NoLength, Challenge + Trailer), x, len)
    BY <1>a, <1>b, <1>3, ReplyIs DEF IsReply
  <2> QED
    BY <2>1, <2>2
<1>4. CASE Part(x) # "cgi" /\ BodyText(x) = "HACK"
  <2>1. ToString(x, len) = Reply("403", NoLength, 0)
    BY <1>4 DEF ToString
  <2>2. IsReply(Reply("403", NoLength, 0), x, len)
    BY <1>a, <1>b, <1>4, ReplyIs DEF IsReply
  <2> QED
    BY <2>1, <2>2
<1>5. CASE Part(x) # "cgi" /\ BodyText(x) \notin {"NF", "AUTH", "HACK"}
  <2>1. ToString(x, len) = Reply("200", len, BodySize(x) + Trailer)
    BY <1>5 DEF ToString
  <2>2. IsReply(Reply("200", len, BodySize(x) + Trailer), x, len)
    BY <1>a, <1>b, <1>5, ReplyIs DEF IsReply
  <2> QED
    BY <2>1, <2>2
<1> QED
  BY <1>1, <1>2, <1>3, <1>4, <1>5

(* What handle() does for a request that is let through: a 200 is as long  *)
(* as it says or longer, for every size and every content of len.          *)
LEMMA RepliesOf ==
  ASSUME NEW x \in Exchanges, NEW reply \in Replies(x)
  PROVE  /\ reply \in ReplyType
         /\ reply.status = "200" => reply.length <= reply.body /\ x.auth = "right"
         /\ reply = Silence <=> ReturnsEarly(x)
<1>1. x.size \in Nat /\ x # Empty
  <2>1. x.size \in Sizes /\ x.kind = "request"
    BY DEF Exchanges
  <2>2. Empty.kind = "empty"
    BY DEF Empty
  <2> QED
    BY <2>1, <2>2, RespondAssumption
<1>2. CASE ReturnsEarly(x)
  <2>1. reply = Silence
    BY <1>2 DEF Replies
  <2> QED
    BY <1>2, <2>1, SilenceIs
<1>3. CASE ~ReturnsEarly(x)
  <2>1. PICK len \in Lengths(x) : reply = ToString(x, len)
    BY <1>1, <1>3 DEF Replies
  <2>2. BodySize(x) \in Nat
    BY <1>1 DEF BodySize
  <2>3. len \in Nat
    BY <1>1, RespondAssumption DEF Lengths
  <2>4. IsReply(reply, x, len) /\ reply # Silence
    <3>1. IsReply(reply, x, len)
      BY <2>1, <2>2, <2>3, ToStringIs
    <3> QED
      BY <3>1, SilenceIs DEF IsReply
  <2>5. CASE Part(x) = "challenge"
    <3>1. BodyText(x) = "AUTH" /\ Part(x) # "cgi"
      BY <2>5 DEF BodyText
    <3> QED
      BY <1>3, <2>4, <3>1 DEF IsReply
  <2>6. CASE Part(x) # "challenge"
    <3>1. x.auth = "right"
      BY <2>6 DEF Part
    <3>2. CASE Part(x) = "cgi"
      BY <1>3, <2>4, <3>1, <3>2 DEF IsReply
    <3>3. CASE \/ Part(x) = "finder" /\ ~FinderOpens(x.uri)
               \/ Part(x) \in {"nothing", "module"}
      <4>1. BodyText(x) = "NF" /\ Part(x) # "cgi"
        BY <1>3, <3>3 DEF BodyText, ReturnsEarly, CgiText, Part
      <4> QED
        BY <1>3, <2>4, <4>1 DEF IsReply
    <3>4. CASE \/ Part(x) = "finder" /\ FinderOpens(x.uri)
               \/ Part(x) = "listing"
      <4>1. len <= BodySize(x) + Trailer
        BY <1>1, <3>4 DEF Lengths, BodySize, Trailer
      <4> QED
        BY <1>3, <2>4, <3>1, <4>1 DEF IsReply
    <3> QED
      BY <3>2, <3>3, <3>4, <2>6 DEF Part
  <2> QED
    BY <2>5, <2>6
<1> QED
  BY <1>2, <1>3
(* What handle() leaves in route.                                          *)
LEMMA RouteTyped ==
  ASSUME NEW x
  PROVE  RouteAfter(x) \in Routes
BY DEF RouteAfter, FinderRoute, Routes

(* What it leaves in responseCode.                                         *)
LEMMA CodeTyped ==
  ASSUME NEW S, NEW x, NEW reply, NEW before \in S, reply.status \in S,
         {"200", "404"} \subseteq S
  PROVE  CodeAfter(x, reply, before) \in S
BY DEF CodeAfter
-----------------------------------------------------------------------------
(* Types. *)

VisitType == [client : Clients, exchange : Exchanges \cup {Empty}, wait : Nat, time : Nat]
FigureType == [ms : Int, us : Int]
UriType == Uris \cup {Unset}
GlobType == [a : UriType, m : UriType, s : UriType,
             route : Routes \cup {Unset}, code : Statuses \cup {Unset}]
StatType == [total : Nat, max : FigureType, maxUri : UriType,
             min : FigureType, minUri : UriType]
Outcome == [client : Clients, exchange : Exchanges \cup {Empty},
            reply : ReplyType, time : Nat]
Address == Clients \cup {Unwritten, NoFile}
LineType == [conn : Nat \ {0}, ip : Address, route : Routes \cup {Unset},
             code : Statuses \cup {Unset}, written : 0..Parts]

(* The lines are those of connections that were handled; one that is being   *)
(* written is the last connection's.                                        *)
LinesAreOfServed ==
  /\ log \in Seq(LineType)
  /\ \A i \in DOMAIN log :
       /\ log[i].conn \in DOMAIN served
       /\ HasAddress(log[i]) => log[i].ip # NoFile
  /\ pc = "write" =>
       Len(log) > 0 /\ log[Len(log)].conn = Len(served) /\ log[Len(log)].ip = loghelp

(* What the types add to TypeOK: a connection is handled for a visit of the  *)
(* load, and the statistics are updated after it was served.                *)
TypeInv ==
  /\ pc \in {"top", "accept", "handle", "stats", "log", "write", "down"}
  /\ load \in DOMAIN Loads
  /\ cur \in VisitType \cup {NoOne}
  /\ cur = NoOne \/ \E visits \in Range(Loads[load]) : cur \in visits
  /\ pc = "handle" => cur \in VisitType
  /\ glob \in GlobType
  /\ ctr \in Nat
  /\ low \in FigureType /\ high \in FigureType /\ took \in FigureType
  /\ stat \in StatType
  /\ loghelp \in Address
  /\ served \in Seq(Outcome)
  /\ since \in 0..Len(served) /\ lasts \subseteq 0..Len(served)
  /\ starts \in 1..MaxStarts
  /\ pc \in {"stats", "log", "write"} => since < Len(served)
  /\ LinesAreOfServed

(* The conversion to int yields a number.                                  *)
LEMMA ToIntTyped ==
  ASSUME NEW n \in Nat
  PROVE  ToInt(n) \in Int
BY LinearAssumption DEF ToInt

(* The connections of a load are visits.                                   *)
LEMMA LoadsAreVisits ==
  ASSUME load \in DOMAIN Loads, NEW n \in 1..Len(Loads[load]), NEW v \in Loads[load][n]
  PROVE  v \in VisitType /\ \E visits \in Range(Loads[load]) : v \in visits
<1>1. Loads[load] \in Seq(SUBSET VisitType)
  BY LinearAssumption DEF Range, VisitType
<1>2. Loads[load][n] \in SUBSET VisitType /\ n \in DOMAIN Loads[load]
  BY <1>1
<1> QED
  BY <1>2 DEF Range

(* TypeInv holds at the start.                                             *)
LEMMA TypeInit == Init => TypeInv
<1> SUFFICES ASSUME Init PROVE TypeInv
  OBVIOUS
<1>1. Zero \in FigureType /\ 0 \in 0..0 /\ Globals \in GlobType
  BY DEF Zero, FigureType, Globals, GlobType, UriType
<1>2. StatFile(0, Zero, Zero, Unset, Unset) \in StatType
  BY <1>1 DEF StatFile, StatType, UriType
<1>3. <<>> \in Seq(LineType) /\ <<>> \in Seq(Outcome) /\ Len(<<>>) = 0
  OBVIOUS
<1>4. 1 \in 1..MaxStarts
  BY LinearAssumption
<1> QED
  BY <1>1, <1>2, <1>3, <1>4 DEF Init, TypeInv, LinesAreOfServed, Address

(* updateStat() at the top keeps it.                                       *)
LEMMA TypeTop ==
  ASSUME TypeInv, Top
  PROVE  TypeInv'
<1>1. stat' \in StatType
  BY DEF TypeInv, Top, StatFile, StatType, GlobType
<1> QED
  BY <1>1 DEF TypeInv, LinesAreOfServed, Top

(* accept_connection() keeps it.                                           *)
LEMMA TypeAccepts ==
  ASSUME TypeInv, Accepts
  PROVE  TypeInv'
<1>1. PICK v \in Loads[load][Len(served) + 1] : Accept(v)
  BY DEF Accepts
<1>2. load \in DOMAIN Loads /\ Len(served) \in Nat /\ Len(served) < Len(Loads[load])
  BY DEF TypeInv, Accepts
<1>3. Loads[load] \in Seq(SUBSET VisitType)
  BY <1>2, LinearAssumption DEF Range, VisitType
<1>4. Len(served) + 1 \in 1..Len(Loads[load])
  BY <1>2, <1>3
<1>5. v \in VisitType /\ \E visits \in Range(Loads[load]) : v \in visits
  BY <1>2, <1>4, LoadsAreVisits
<1>6. loghelp' \in Address
  BY <1>1, <1>5 DEF Accept, TypeInv, VisitType, Address
<1> QED
  BY <1>1, <1>5, <1>6 DEF TypeInv, LinesAreOfServed, Accept

(* What HandleReturns adds to the history, for the reply that was sent.      *)
Returned(reply) ==
  [client |-> cur.client, exchange |-> cur.exchange, reply |-> reply,
   time |-> cur.wait + cur.time]

(* handle() serves one more connection, leaves the earlier ones, and sets  *)
(* its globals.                                                            *)
LEMMA HandleIs ==
  ASSUME TypeInv, HandleReturns
  PROVE  /\ pc = "handle" /\ pc' = "stats" /\ cur \in VisitType
         /\ UNCHANGED <<load, cur, ctr, low, high, stat, log, loghelp, since, lasts, starts>>
         /\ \E reply \in Replies(cur.exchange) :
              /\ reply \in ReplyType /\ Returned(reply) \in Outcome
              /\ served' = Append(served, Returned(reply))
              /\ served' \in Seq(Outcome) /\ Len(served') = Len(served) + 1
              /\ \A i \in 1..Len(served) : served'[i] = served[i]
              /\ served'[Len(served')] = Returned(reply)
              /\ glob' = [glob EXCEPT !.a = IF cur.exchange = Empty THEN @
                                           ELSE cur.exchange.uri,
                                      !.route = RouteAfter(cur.exchange),
                                      !.code = CodeAfter(cur.exchange, reply, @)]
              /\ took' = [ms |-> ToInt((cur.wait + cur.time) \div Milli),
                          us |-> ToInt(cur.wait + cur.time)]
<1>1. PICK reply \in Replies(cur.exchange) :
        /\ pc = "handle" /\ pc' = "stats"
        /\ glob' = [glob EXCEPT !.a = IF cur.exchange = Empty THEN @
                                     ELSE cur.exchange.uri,
                                !.route = RouteAfter(cur.exchange),
                                !.code = CodeAfter(cur.exchange, reply, @)]
        /\ took' = [ms |-> ToInt((cur.wait + cur.time) \div Milli),
                    us |-> ToInt(cur.wait + cur.time)]
        /\ served' = Append(served, Returned(reply))
        /\ UNCHANGED <<load, cur, ctr, low, high, stat, log, loghelp, since, lasts, starts>>
  BY DEF HandleReturns, Returned
<1>2. cur \in VisitType
  BY <1>1 DEF TypeInv
<1>3. reply \in ReplyType /\ Returned(reply) \in Outcome
  <2>1. reply \in ReplyType
    BY <1>2, RepliesOf, SilenceIs DEF Replies, VisitType
  <2> QED
    BY <1>2, <2>1 DEF Returned, Outcome, VisitType
<1>4. served \in Seq(Outcome)
  BY DEF TypeInv
<1>5. /\ served' \in Seq(Outcome) /\ Len(served') = Len(served) + 1
      /\ \A i \in 1..Len(served) : served'[i] = served[i]
      /\ served'[Len(served')] = Returned(reply)
  BY <1>1, <1>3, <1>4, AppendProperties
<1> QED
  BY <1>1, <1>2, <1>3, <1>5

(* So it keeps TypeInv.                                                    *)
LEMMA TypeHandleReturns ==
  ASSUME TypeInv, HandleReturns
  PROVE  TypeInv'
<1> DEFINE x == cur.exchange
           time == cur.wait + cur.time
<1>1. PICK reply \in Replies(x) :
        /\ reply \in ReplyType
        /\ served' \in Seq(Outcome) /\ Len(served') = Len(served) + 1
        /\ glob' = [glob EXCEPT !.a = IF x = Empty THEN @ ELSE x.uri,
                                !.route = RouteAfter(x),
                                !.code = CodeAfter(x, reply, @)]
        /\ took' = [ms |-> ToInt(time \div Milli), us |-> ToInt(time)]
  BY HandleIs
<1>2. x \in Exchanges \cup {Empty} /\ time \in Nat
  <2>1. cur \in VisitType
    BY HandleIs
  <2> QED
    BY <2>1 DEF VisitType
<1>3. glob' \in GlobType
  <2>1. x # Empty => x.uri \in UriType
    BY <1>2 DEF Exchanges, UriType
  <2>2. glob.code \in Statuses \cup {Unset} /\ reply.status \in Statuses
    BY <1>1 DEF TypeInv, GlobType, ReplyType
  <2>3. CodeAfter(x, reply, glob.code) \in Statuses \cup {Unset}
    BY <2>2, CodeTyped DEF Statuses
  <2> QED
    BY <1>1, <2>1, <2>3, RouteTyped DEF TypeInv, GlobType
<1>4. took' \in FigureType
  <2>1. time \div Milli \in Nat
    BY <1>2, LinearAssumption
  <2> QED
    BY <1>1, <1>2, <2>1, ToIntTyped DEF FigureType
<1>5. Len(served) \in Nat /\ since \in 0..Len(served) /\ lasts \subseteq 0..Len(served)
  BY DEF TypeInv
<1>6. pc' = "stats" /\ UNCHANGED <<load, cur, ctr, low, high, stat, log, loghelp, since,
                                  lasts, starts>>
  BY HandleIs
<1>7. LinesAreOfServed'
  BY <1>1, <1>5, <1>6 DEF TypeInv, LinesAreOfServed
<1>8. lasts' \subseteq 0..Len(served') /\ since' \in 0..Len(served') /\ since' < Len(served')
  BY <1>1, <1>5, <1>6
<1> QED
  BY <1>1, <1>3, <1>4, <1>6, <1>7, <1>8 DEF TypeInv

(* The update of the extremes keeps it.                                    *)
LEMMA TypeStats ==
  ASSUME TypeInv, Stats
  PROVE  TypeInv'
<1>1. glob' \in GlobType /\ low' \in FigureType /\ high' \in FigureType
  BY DEF TypeInv, Stats, NewFirst, NewLow, NewHigh, NeitherNew, GlobType
<1>2. stat' \in StatType
  BY <1>1 DEF TypeInv, Stats, NewFirst, NewLow, NewHigh, NeitherNew, StatFile, StatType,
              GlobType
<1> QED
  BY <1>1, <1>2 DEF TypeInv, LinesAreOfServed, Stats

(* A new line, of which nothing is written.                                *)
LEMMA OpensIs ==
  ASSUME TypeInv, LogOpens
  PROVE  /\ pc = "log" /\ pc' = "write"
         /\ UNCHANGED <<load, cur, glob, ctr, low, high, took, stat, loghelp, served,
                        since, lasts, starts>>
         /\ Len(served) > 0 /\ Line \in LineType
         /\ log' \in Seq(LineType) /\ Len(log') = Len(log) + 1
         /\ \A i \in 1..Len(log) : log'[i] = log[i]
         /\ log'[Len(log) + 1] = Line
<1>1. Len(served) > 0 /\ Len(served) \in Nat
  BY DEF TypeInv, LogOpens
<1>2. Line \in LineType
  BY <1>1 DEF TypeInv, GlobType, Line, LineType, Parts
<1>3. log \in Seq(LineType)
  BY DEF TypeInv, LinesAreOfServed
<1> QED
  BY <1>1, <1>2, <1>3, AppendProperties DEF LogOpens

(* So it keeps TypeInv.                                                    *)
LEMMA TypeLogOpens ==
  ASSUME TypeInv, LogOpens
  PROVE  TypeInv'
<1>1. /\ pc = "log" /\ pc' = "write" /\ UNCHANGED <<served, loghelp>>
      /\ log' \in Seq(LineType) /\ Len(log') = Len(log) + 1
      /\ \A i \in 1..Len(log) : log'[i] = log[i]
      /\ log'[Len(log) + 1] = Line
  BY OpensIs
<1>2. /\ log \in Seq(LineType) /\ served \in Seq(Outcome) /\ Len(served) > 0
      /\ \A i \in DOMAIN log :
           log[i].conn \in DOMAIN served /\ (HasAddress(log[i]) => log[i].ip # NoFile)
  BY OpensIs DEF TypeInv, LinesAreOfServed
<1>3. Line.conn = Len(served) /\ Line.ip = loghelp /\ ~HasAddress(Line)
  BY DEF Line, HasAddress
<1>4. LinesAreOfServed'
  <2>1. DOMAIN log' = 1 .. Len(log) + 1 /\ DOMAIN log = 1..Len(log) /\ Len(log) \in Nat
    BY <1>1, <1>2
  <2>2. ASSUME NEW i \in DOMAIN log'
        PROVE  log'[i].conn \in DOMAIN served /\ (HasAddress(log'[i]) => log'[i].ip # NoFile)
    <3>1. CASE i \in 1..Len(log)
      BY <1>1, <1>2, <2>1, <3>1
    <3>2. CASE i = Len(log) + 1
      BY <1>1, <1>2, <1>3, <3>2
    <3> QED
      BY <2>1, <3>1, <3>2
  <2> QED
    BY <1>1, <1>3, <2>1, <2>2 DEF LinesAreOfServed, HasAddress
<1> QED
  BY <1>4 DEF TypeInv, LogOpens

(* One more part of the last line is written.                              *)
LEMMA WritesIs ==
  ASSUME TypeInv, LogWrites
  PROVE  /\ UNCHANGED <<pc, load, cur, glob, ctr, low, high, took, stat, loghelp, served,
                        since, lasts, starts>>
         /\ pc = "write" /\ log \in Seq(LineType) /\ Len(log) > 0
         /\ log' \in Seq(LineType) /\ Len(log') = Len(log)
         /\ \A i \in 1..Len(log) :
              /\ log'[i].conn = log[i].conn /\ log'[i].ip = log[i].ip
              /\ log'[i].code = log[i].code
              /\ Whole(log[i]) => Whole(log'[i])
              /\ i # Len(log) => log'[i] = log[i]
<1> DEFINE n == Len(log)
<1>1. log \in Seq(LineType) /\ n > 0 /\ n \in DOMAIN log /\ DOMAIN log = 1..n
  BY DEF TypeInv, LinesAreOfServed, LogWrites
<1>2. log[n] \in LineType /\ log[n].written # Parts
  BY <1>1 DEF LogWrites, Whole
<1>3. log[n].written + 1 \in 0..Parts
  BY <1>2 DEF LineType, Parts
<1>4. [log[n] EXCEPT !.written = @ + 1] \in LineType
  BY <1>2, <1>3 DEF LineType
<1>5. log' = [log EXCEPT ![n] = [log[n] EXCEPT !.written = @ + 1]]
  BY DEF LogWrites
<1>6. log' \in Seq(LineType) /\ Len(log') = n
  BY <1>1, <1>4, <1>5, ExceptSeq
<1>7. /\ log'[n].conn = log[n].conn /\ log'[n].ip = log[n].ip /\ log'[n].code = log[n].code
      /\ \A i \in 1..n : i # n => log'[i] = log[i]
  BY <1>1, <1>2, <1>5 DEF LineType
<1> QED
  BY <1>1, <1>2, <1>6, <1>7 DEF LogWrites, Whole

(* The address only if there is one.                                       *)
LEMMA TypeLogWrites ==
  ASSUME TypeInv, LogWrites
  PROVE  TypeInv'
<1> DEFINE n == Len(log)
<1>1. /\ UNCHANGED <<pc, served, loghelp>>
      /\ pc = "write" /\ log \in Seq(LineType) /\ n > 0
      /\ log' \in Seq(LineType) /\ Len(log') = n
      /\ \A i \in 1..n :
           /\ log'[i].conn = log[i].conn /\ log'[i].ip = log[i].ip
           /\ i # n => log'[i] = log[i]
  BY WritesIs
<1>2. /\ \A i \in 1..n :
           log[i].conn \in DOMAIN served /\ (HasAddress(log[i]) => log[i].ip # NoFile)
      /\ log[n].conn = Len(served) /\ log[n].ip = loghelp
  BY <1>1 DEF TypeInv, LinesAreOfServed
<1>3. HasAddress(log'[n]) => log[n].ip # NoFile
  <2>1. n \in DOMAIN log /\ log[n] \in LineType
    BY <1>1
  <2>2. log[n] \in LineType /\ log'[n].written = log[n].written + 1
    BY <2>1 DEF LogWrites, LineType
  <2>3. CASE log[n].written = 1
    BY <1>2, <2>3 DEF LogWrites
  <2>4. CASE log[n].written # 1
    <3>1. log[n].written \in Nat
      BY <2>2 DEF LineType, Parts
    <3> QED
      BY <1>1, <1>2, <2>2, <2>4, <3>1 DEF HasAddress
  <2> QED
    BY <2>3, <2>4
<1>4. n \in 1..n
  BY <1>1
<1>5. LinesAreOfServed'
  <2>1. ASSUME NEW i \in 1..n
        PROVE  log'[i].conn \in DOMAIN served /\ (HasAddress(log'[i]) => log'[i].ip # NoFile)
    <3>1. CASE i = n
      BY <1>1, <1>2, <1>3, <1>4, <3>1
    <3>2. CASE i # n
      BY <1>1, <1>2, <3>2
    <3> QED
      BY <3>1, <3>2
  <2> QED
    BY <1>1, <1>2, <1>4, <2>1 DEF LinesAreOfServed, HasAddress
<1> QED
  BY <1>5 DEF TypeInv, LogWrites

(* ctr++ keeps it.                                                         *)
LEMMA TypeCounts ==
  ASSUME TypeInv, Counts
  PROVE  TypeInv'
BY DEF TypeInv, LinesAreOfServed, Counts

(* The end of the process keeps it.                                        *)
LEMMA TypeDies ==
  ASSUME TypeInv, Dies
  PROVE  TypeInv'
BY DEF TypeInv, LinesAreOfServed, Dies

(* A new start keeps it.                                                   *)
LEMMA TypeRestart ==
  ASSUME TypeInv, Restart
  PROVE  TypeInv'
<1>1. Zero \in FigureType /\ Globals \in GlobType
  BY DEF Zero, FigureType, Globals, GlobType, UriType
<1>2. Len(served) \in Nat /\ starts + 1 \in 1..MaxStarts
  BY LinearAssumption DEF TypeInv, Restart
<1>3. since' \in 0..Len(served') /\ lasts' \subseteq 0..Len(served')
  <2>1. /\ since' = Len(served) /\ lasts' = lasts \cup {Len(served)}
        /\ served' = served /\ lasts \subseteq 0..Len(served)
    BY DEF TypeInv, Restart
  <2>2. Len(served) \in 0..Len(served)
    BY <1>2
  <2> QED
    BY <2>1, <2>2
<1>4. LinesAreOfServed'
  BY DEF TypeInv, LinesAreOfServed, Restart, StartsAfresh
<1> QED
  BY <1>1, <1>2, <1>3, <1>4 DEF TypeInv, Restart, StartsAfresh

(* Every step keeps it.                                                    *)
LEMMA TypeStep == TypeInv /\ [Next]_vars => TypeInv'
<1> SUFFICES ASSUME TypeInv, [Next]_vars PROVE TypeInv'
  OBVIOUS
<1>1. CASE UNCHANGED vars
  BY <1>1 DEF TypeInv, LinesAreOfServed, vars
<1> QED
  BY <1>1, TypeTop, TypeAccepts, TypeHandleReturns, TypeStats, TypeLogOpens, TypeLogWrites,
     TypeCounts, TypeDies, TypeRestart DEF Next

(* The types hold in every state, for every load. *)
THEOREM TypeCorrect == Spec => []TypeOK
<1>1. TypeInv => TypeOK
  <2> SUFFICES ASSUME TypeInv PROVE TypeOK
    OBVIOUS
  <2>1. DOMAIN glob = DOMAIN Globals
    BY DEF TypeInv, GlobType, Globals
  <2>2. DOMAIN stat = DOMAIN StatFile(0, Zero, Zero, Unset, Unset)
    BY DEF TypeInv, StatType, StatFile
  <2>3. \A i \in DOMAIN log : HasAddress(log[i]) => log[i].ip \in Clients \cup {Unwritten}
    <3> SUFFICES ASSUME NEW i \in DOMAIN log, HasAddress(log[i])
                 PROVE  log[i].ip \in Clients \cup {Unwritten}
      OBVIOUS
    <3>1. log[i] \in LineType /\ log[i].ip # NoFile
      BY DEF TypeInv, LinesAreOfServed
    <3> QED
      BY <3>1 DEF LineType, Address
  <2>4. {served[i].client : i \in DOMAIN served} \subseteq Clients
    <3> SUFFICES ASSUME NEW i \in DOMAIN served
                 PROVE  served[i].client \in Clients
      OBVIOUS
    <3>1. served[i] \in Outcome
      BY DEF TypeInv
    <3> QED
      BY <3>1 DEF Outcome
  <2> QED
    BY <2>1, <2>2, <2>3, <2>4 DEF TypeInv, TypeOK, FigureType, Address
<1> QED
  BY <1>1, TypeInit, TypeStep, PTL DEF Spec
-----------------------------------------------------------------------------
(* What was sent, and what the log says of it. *)

(* Only handle() serves a connection, and its reply is one of Replies.     *)
LEMMA ShortStep ==
  ASSUME TypeInv, NeverShort, [Next]_vars
  PROVE  NeverShort'
<1>1. CASE HandleReturns
  <2>1. PICK reply \in Replies(cur.exchange) :
          /\ served' \in Seq(Outcome) /\ Len(served') = Len(served) + 1
          /\ \A i \in 1..Len(served) : served'[i] = served[i]
          /\ served'[Len(served')] = Returned(reply)
    BY <1>1, HandleIs
  <2>2. served \in Seq(Outcome)
    BY DEF TypeInv
  <2>3. reply.status = "200" => reply.length <= reply.body /\ cur.exchange.auth = "right"
    <3>1. CASE cur.exchange = Empty
      BY <3>1, SilenceIs DEF Replies
    <3>2. CASE cur.exchange # Empty
      BY <1>1, <3>2, HandleIs, RepliesOf DEF VisitType
    <3> QED
      BY <3>1, <3>2
  <2> SUFFICES ASSUME NEW i \in DOMAIN served', served'[i].reply.status = "200"
               PROVE  /\ served'[i].reply.length <= served'[i].reply.body
                      /\ served'[i].exchange.auth = "right"
    BY DEF NeverShort
  <2>4. CASE i \in 1..Len(served)
    BY <2>1, <2>2, <2>4 DEF NeverShort
  <2>5. CASE i = Len(served')
    BY <2>1, <2>3, <2>5 DEF Returned
  <2> QED
    BY <2>1, <2>2, <2>4, <2>5
<1>2. CASE UNCHANGED served
  BY <1>2 DEF NeverShort
<1> QED
  BY <1>1, <1>2 DEF Next, vars, Top, Accepts, Accept, Stats, LogOpens, LogWrites, Counts,
                     Dies, Restart

(* A 200 is never shorter than it says, and only sent for credentials.       *)
THEOREM NothingIsCutShort == Spec => []NeverShort
<1>1. Init => NeverShort
  BY DEF Init, NeverShort
<1> QED
  BY <1>1, TypeInit, TypeStep, ShortStep, PTL DEF Spec

(* CodeOfAuthorized, with what makes it inductive: the line that is next     *)
(* gets the code of the last connection.                                    *)
CodeInv ==
  /\ pc \in {"stats", "log"} /\ Authorized(served[Len(served)]) =>
       glob.code = StatusOf(served[Len(served)])
  /\ \A i \in DOMAIN log :
       Authorized(served[log[i].conn]) => log[i].code = StatusOf(served[log[i].conn])

(* responseCode is the status of the exchange just over.                   *)
LEMMA CodeIsStatus ==
  ASSUME TypeInv, HandleReturns, Authorized(served'[Len(served')])
  PROVE  glob'.code = StatusOf(served'[Len(served')])
<1> DEFINE x == cur.exchange
<1>1. PICK reply \in Replies(x) :
        /\ served'[Len(served')] = Returned(reply)
        /\ glob' = [glob EXCEPT !.a = IF x = Empty THEN @ ELSE x.uri,
                                !.route = RouteAfter(x),
                                !.code = CodeAfter(x, reply, @)]
  BY HandleIs
<1>2. x # Empty /\ x.auth = "right" /\ x \in Exchanges
  <2>1. x \in Exchanges \cup {Empty}
    BY HandleIs DEF VisitType
  <2>2. Returned(reply).exchange = x
    BY DEF Returned
  <2> QED
    BY <1>1, <2>1, <2>2 DEF Authorized
<1>3. glob'.code = CodeAfter(x, reply, glob.code)
  BY <1>1 DEF TypeInv, GlobType
<1>4. reply = Silence <=> ReturnsEarly(x)
  BY <1>2, RepliesOf
<1>5. Part(x) # "challenge"
  BY <1>2 DEF Part
<1>6. StatusOf(Returned(reply)) =
        IF reply # Silence THEN reply.status ELSE IF Runs(x) THEN "200" ELSE "404"
  BY DEF StatusOf, Returned
<1>7. CASE ~ReturnsEarly(x)
  BY <1>1, <1>2, <1>3, <1>4, <1>5, <1>6, <1>7 DEF CodeAfter
<1>8. CASE ReturnsEarly(x)
  <2>1. glob'.code = IF CgiText(x) = "ERR" THEN "404" ELSE "200"
    BY <1>2, <1>3, <1>5, <1>8 DEF CodeAfter
  <2>2. Part(x) \in {"cgi", "module"} /\ CgiText(x) \in {"loadable", "ERR"}
    BY <1>8 DEF ReturnsEarly
  <2>3. x.uri.name = Part(x) /\ x.uri.found \in {"file", "absent"}
    <3>1. x.uri \in Uris
      BY <1>2 DEF Exchanges
    <3>2. x.uri.name = Part(x)
      BY <2>2 DEF Part
    <3> QED
      BY <2>2, <3>1, <3>2 DEF Uris
  <2>4. CgiText(x) = "loadable" <=> Runs(x)
    BY <2>2, <2>3 DEF CgiText, Runs
  <2> QED
    BY <1>1, <1>4, <1>6, <1>8, <2>1, <2>2, <2>4
<1> QED
  BY <1>7, <1>8

(* Only handle() writes responseCode, and nothing is served before the line *)
(* has it.                                                                 *)
LEMMA CodeStep ==
  ASSUME TypeInv, CodeInv, [Next]_vars
  PROVE  CodeInv'
<1>1. \A i \in DOMAIN log : log[i].conn \in 1..Len(served)
  BY DEF TypeInv, LinesAreOfServed
<1>2. CASE HandleReturns
  <2>1. \A i \in 1..Len(served) : served'[i] = served[i]
    BY <1>2, HandleIs
  <2>2. UNCHANGED log
    BY <1>2, HandleIs
  <2> QED
    BY <1>1, <1>2, <2>1, <2>2, CodeIsStatus DEF CodeInv
<1>3. CASE Stats
  <2>1. glob'.code = glob.code
    BY <1>3 DEF TypeInv, GlobType, Stats, NewFirst, NewLow, NewHigh, NeitherNew
  <2> QED
    BY <1>3, <2>1 DEF CodeInv, Stats
<1>4. CASE LogOpens
  <2>1. /\ pc = "log" /\ pc' = "write" /\ UNCHANGED <<served, glob>>
        /\ log' \in Seq(LineType) /\ Len(log') = Len(log) + 1
        /\ \A i \in 1..Len(log) : log'[i] = log[i]
        /\ log'[Len(log) + 1] = Line
    BY <1>4, OpensIs
  <2>2. Line.conn = Len(served) /\ Line.code = glob.code
    BY DEF Line
  <2>3. log \in Seq(LineType)
    BY DEF TypeInv, LinesAreOfServed
  <2>4. ASSUME NEW i \in DOMAIN log', Authorized(served[log'[i].conn])
        PROVE  log'[i].code = StatusOf(served[log'[i].conn])
    <3>1. CASE i \in 1..Len(log)
      BY <2>1, <2>3, <2>4, <3>1 DEF CodeInv
    <3>2. CASE i = Len(log) + 1
      BY <2>1, <2>2, <2>4, <3>2 DEF CodeInv
    <3> QED
      BY <2>1, <2>3, <3>1, <3>2
  <2> QED
    BY <2>1, <2>4 DEF CodeInv
<1>5. CASE LogWrites
  <2>1. /\ UNCHANGED <<pc, served>> /\ pc = "write"
        /\ log \in Seq(LineType) /\ log' \in Seq(LineType) /\ Len(log') = Len(log)
        /\ \A i \in 1..Len(log) : log'[i].conn = log[i].conn /\ log'[i].code = log[i].code
    BY <1>5, WritesIs
  <2> QED
    BY <2>1 DEF CodeInv
<1>6. CASE UNCHANGED <<served, log>> /\ (pc' \notin {"stats", "log"} \/ UNCHANGED <<pc, glob>>)
  BY <1>6 DEF CodeInv
<1> QED
  BY <1>2, <1>3, <1>4, <1>5, <1>6 DEF Next, vars, Top, Accepts, Accept, Counts, Dies, Restart,
                                      StartsAfresh

(* For the right credentials the line has the status that was sent, and      *)
(* where none was sent, whether the module ran.                             *)
THEOREM LogHasTheStatus == Spec => []CodeOfAuthorized
<1>1. Init => CodeInv
  BY DEF Init, CodeInv
<1>2. CodeInv => CodeOfAuthorized
  BY DEF CodeInv, CodeOfAuthorized
<1> QED
  BY <1>1, <1>2, TypeInit, TypeStep, CodeStep, PTL DEF Spec

(* LogNamesClients, with what makes it inductive: the connection whose line  *)
(* is next has none yet, and loghelp has its address.                       *)
Due(n) == n \notin lasts /\ (n < Len(served) \/ pc \in {"top", "accept", "handle"})
HasLine(n) == \E i \in DOMAIN log : log[i].conn = n /\ Whole(log[i])

LogInv ==
  /\ \A n \in DOMAIN served : Due(n) => HasLine(n)
  /\ \A i, j \in DOMAIN log : i < j => log[i].conn < log[j].conn
  /\ pc \in {"stats", "log"} => \A i \in DOMAIN log : log[i].conn < Len(served)
  /\ load \notin Https =>
       /\ pc = "handle" => loghelp = cur.client
       /\ pc \in {"stats", "log"} => loghelp = served[Len(served)].client
       /\ \A i \in DOMAIN log : log[i].ip = served[log[i].conn].client

(* LogInv holds at the start.                                              *)
LEMMA LogInit == Init => LogInv
<1> SUFFICES ASSUME Init PROVE LogInv
  OBVIOUS
<1>1. log = <<>> /\ served = <<>> /\ pc = "top"
  BY DEF Init
<1> QED
  BY <1>1 DEF LogInv

(* After handle() the connection is the last one, and its line is not due.  *)
LEMMA LogHandleReturns ==
  ASSUME TypeInv, LogInv, HandleReturns
  PROVE  LogInv'
<1>1. PICK reply \in Replies(cur.exchange) :
        /\ served' \in Seq(Outcome) /\ Len(served') = Len(served) + 1
        /\ \A i \in 1..Len(served) : served'[i] = served[i]
        /\ served'[Len(served')] = Returned(reply)
  BY HandleIs
<1>2. pc = "handle" /\ pc' = "stats" /\ UNCHANGED <<log, loghelp, load, lasts>>
  BY HandleIs
<1>3. served \in Seq(Outcome) /\ \A i \in DOMAIN log : log[i].conn \in 1..Len(served)
  BY DEF TypeInv, LinesAreOfServed
<1>4. \A n \in DOMAIN served' : Due(n)' => HasLine(n)'
  <2> SUFFICES ASSUME NEW n \in DOMAIN served', n \notin lasts, n < Len(served')
               PROVE  HasLine(n)
    BY <1>2 DEF Due, HasLine, Whole
  <2>1. n \in DOMAIN served
    BY <1>1, <1>3
  <2> QED
    BY <1>2, <2>1 DEF LogInv, Due
<1>5. \A i \in DOMAIN log : log[i].conn < Len(served')
  BY <1>1, <1>3
<1>6. ASSUME load \notin Https
      PROVE  /\ loghelp = served'[Len(served')].client
             /\ \A i \in DOMAIN log : log[i].ip = served'[log[i].conn].client
  BY <1>1, <1>2, <1>3, <1>6 DEF LogInv, Returned
<1> QED
  BY <1>2, <1>4, <1>5, <1>6 DEF LogInv

(* The new line is the last connection's, and has its address.              *)
LEMMA LogLogOpens ==
  ASSUME TypeInv, LogInv, LogOpens
  PROVE  LogInv'
<1>1. /\ pc = "log" /\ pc' = "write" /\ UNCHANGED <<load, loghelp, served, lasts>>
      /\ log' \in Seq(LineType) /\ Len(log') = Len(log) + 1
      /\ \A i \in 1..Len(log) : log'[i] = log[i]
      /\ log'[Len(log) + 1] = Line
  BY OpensIs
<1>2. Line.conn = Len(served) /\ Line.ip = loghelp
  BY DEF Line
<1>3. /\ log \in Seq(LineType) /\ Len(log) \in Nat
      /\ DOMAIN log = 1..Len(log) /\ DOMAIN log' = 1 .. Len(log) + 1
  BY <1>1 DEF TypeInv, LinesAreOfServed
<1>4. \A i \in DOMAIN log' : i \in DOMAIN log \/ i = Len(log) + 1
  BY <1>3
<1>5. \A n \in DOMAIN served' : Due(n)' => HasLine(n)'
  <2> SUFFICES ASSUME NEW n \in DOMAIN served, Due(n)'
               PROVE  \E i \in DOMAIN log' : log'[i].conn = n /\ Whole(log'[i])
    BY <1>1 DEF HasLine, Whole
  <2>1. Due(n)
    BY <1>1 DEF Due
  <2>2. PICK i \in DOMAIN log : log[i].conn = n /\ Whole(log[i])
    BY <2>1 DEF LogInv, HasLine
  <2> QED
    BY <1>1, <1>3, <2>2
<1>6. ASSUME NEW i \in DOMAIN log', NEW j \in DOMAIN log', i < j
      PROVE  log'[i].conn < log'[j].conn
  <2>1. i \in DOMAIN log
    BY <1>3, <1>4, <1>6
  <2>2. CASE j \in DOMAIN log
    BY <1>1, <1>3, <1>6, <2>1, <2>2 DEF LogInv
  <2>3. CASE j = Len(log) + 1
    BY <1>1, <1>2, <1>3, <2>1, <2>3 DEF LogInv
  <2> QED
    BY <1>4, <2>2, <2>3
<1>7. ASSUME load \notin Https, NEW i \in DOMAIN log'
      PROVE  log'[i].ip = served[log'[i].conn].client
  <2>1. CASE i \in DOMAIN log
    BY <1>1, <1>3, <1>7, <2>1 DEF LogInv
  <2>2. CASE i = Len(log) + 1
    BY <1>1, <1>2, <1>7, <2>2 DEF LogInv
  <2> QED
    BY <1>4, <2>1, <2>2
<1> QED
  BY <1>1, <1>5, <1>6, <1>7 DEF LogInv

(* Writing goes on in the line of the last connection.                     *)
LEMMA LogLogWrites ==
  ASSUME TypeInv, LogInv, LogWrites
  PROVE  LogInv'
<1>1. /\ UNCHANGED <<pc, load, loghelp, served, lasts>>
      /\ pc = "write" /\ log \in Seq(LineType) /\ log' \in Seq(LineType)
      /\ Len(log') = Len(log)
      /\ \A i \in 1..Len(log) :
           /\ log'[i].conn = log[i].conn /\ log'[i].ip = log[i].ip
           /\ Whole(log[i]) => Whole(log'[i])
  BY WritesIs
<1>2. DOMAIN log = 1..Len(log) /\ DOMAIN log' = 1..Len(log)
  BY <1>1
<1>3. \A n \in DOMAIN served' : Due(n)' => HasLine(n)'
  <2> SUFFICES ASSUME NEW n \in DOMAIN served, Due(n)
               PROVE  \E i \in DOMAIN log' : log'[i].conn = n /\ Whole(log'[i])
    BY <1>1 DEF Due, HasLine, Whole
  <2>1. PICK i \in DOMAIN log : log[i].conn = n /\ Whole(log[i])
    BY DEF LogInv, HasLine
  <2> QED
    BY <1>1, <1>2, <2>1
<1> QED
  BY <1>1, <1>2, <1>3 DEF LogInv

(* ctr++ comes after the whole line.                                       *)
LEMMA LogCounts ==
  ASSUME TypeInv, LogInv, Counts
  PROVE  LogInv'
<1>1. /\ pc = "write" /\ pc' = "top" /\ Whole(log[Len(log)])
      /\ UNCHANGED <<log, served, lasts, load>>
  BY DEF Counts
<1>2. /\ log \in Seq(LineType) /\ served \in Seq(Outcome)
      /\ Len(log) \in DOMAIN log /\ log[Len(log)].conn = Len(served)
  BY <1>1 DEF TypeInv, LinesAreOfServed
<1>3. \A n \in DOMAIN served' : Due(n)' => HasLine(n)'
  <2> SUFFICES ASSUME NEW n \in DOMAIN served, n \notin lasts
               PROVE  HasLine(n)
    BY <1>1 DEF Due, HasLine, Whole
  <2>1. CASE n = Len(served)
    BY <1>1, <1>2, <2>1 DEF HasLine
  <2>2. CASE n < Len(served)
    BY <2>2 DEF LogInv, Due
  <2> QED
    BY <1>2, <2>1, <2>2
<1> QED
  BY <1>1, <1>3 DEF LogInv

(* A line is written for the last connection served, with the address of   *)
(* its accept().                                                           *)
LEMMA LogStep ==
  ASSUME TypeInv, LogInv, [Next]_vars
  PROVE  LogInv'
<1>1. CASE Accepts
  <2>1. PICK v \in Loads[load][Len(served) + 1] : Accept(v)
    BY <1>1 DEF Accepts
  <2> QED
    BY <2>1 DEF LogInv, Due, HasLine, Whole, Accept
<1>2. CASE Top
  BY <1>2 DEF LogInv, Due, HasLine, Whole, Top
<1>3. CASE Stats
  <2>1. /\ pc = "stats" /\ pc' = "log"
        /\ UNCHANGED <<cur, log, loghelp, load, served, lasts>>
    BY <1>3 DEF Stats
  <2> QED
    BY <2>1 DEF LogInv, Due, HasLine, Whole
<1>4. CASE Dies
  BY <1>4 DEF LogInv, Due, HasLine, Whole, Dies
<1>5. CASE Restart
  <2>1. /\ pc = "down" /\ pc' = "top" /\ lasts' = lasts \cup {Len(served)}
        /\ UNCHANGED <<log, loghelp, load, served>>
    BY <1>5 DEF Restart, StartsAfresh
  <2>2. \A n \in DOMAIN served : n < Len(served) \/ n = Len(served)
    BY DEF TypeInv
  <2> QED
    BY <2>1, <2>2 DEF LogInv, Due, HasLine, Whole
<1>6. CASE UNCHANGED vars
  BY <1>6 DEF LogInv, Due, HasLine, Whole, vars
<1> QED
  BY <1>1, <1>2, <1>3, <1>4, <1>5, <1>6, LogHandleReturns, LogLogOpens, LogLogWrites, LogCounts
     DEF Next

(* A crash costs or tears the line of one connection at most; the others are *)
(* whole, in order, with their clients.                                     *)
THEOREM LogIsComplete == Spec => []LogNamesClients
<1>1. LogInv => LogNamesClients
  BY DEF LogInv, Due, HasLine, LogNamesClients
<1> QED
  BY <1>1, TypeInit, TypeStep, LogInit, LogStep, PTL DEF Spec
-----------------------------------------------------------------------------
(* The connections that the statistics count. *)

IsCounted ==
  /\ Counted \in Seq(Outcome)
  /\ Len(Counted) = Len(served) - since - (IF pc = "stats" THEN 1 ELSE 0)
  /\ \A i \in 1..Len(Counted) : Counted[i] = served[since + i]

(* Counted as a part of what was served.                                   *)
LEMMA CountedIs == TypeInv => IsCounted
<1> SUFFICES ASSUME TypeInv
             PROVE  IsCounted
  OBVIOUS
<1>1. served \in Seq(Outcome) /\ since \in 0..Len(served) /\ Len(served) \in Nat
  BY DEF TypeInv
<1>2. \A i \in since + 1 .. Len(served) : served[i] \in Outcome
  BY <1>1
<1>3. /\ Recent \in Seq(Outcome) /\ Len(Recent) = Len(served) - since
      /\ \A i \in 1..Len(Recent) : Recent[i] = served[since + i]
  <2>1. /\ Recent \in Seq(Outcome)
        /\ Len(Recent) = IF since + 1 <= Len(served) THEN Len(served) - (since + 1) + 1 ELSE 0
        /\ \A i \in 1 .. Len(served) - (since + 1) + 1 : Recent[i] = served[since + 1 + i - 1]
    BY <1>1, <1>2, SubSeqProperties DEF Recent
  <2> QED
    BY <1>1, <2>1
<1>4. CASE pc # "stats"
  BY <1>1, <1>3, <1>4 DEF Counted, IsCounted
<1>5. CASE pc = "stats"
  <2>1. Len(Recent) \in Nat /\ Len(Recent) >= 1
    BY <1>1, <1>3, <1>5 DEF TypeInv
  <2>2. Counted = SubSeq(Recent, 1, Len(Recent) - 1)
    BY <1>5 DEF Counted
  <2>3. \A i \in 1 .. Len(Recent) - 1 : Recent[i] \in Outcome
    BY <1>3
  <2>4. /\ Counted \in Seq(Outcome)
        /\ Len(Counted) = IF 1 <= Len(Recent) - 1 THEN (Len(Recent) - 1) - 1 + 1 ELSE 0
        /\ \A i \in 1 .. (Len(Recent) - 1) - 1 + 1 : Counted[i] = Recent[1 + i - 1]
    BY <2>1, <2>2, <2>3, SubSeqProperties
  <2>5. Len(Counted) = Len(Recent) - 1
    <3>1. CASE Len(Recent) > 1
      BY <2>1, <2>4, <3>1
    <3>2. CASE Len(Recent) = 1
      BY <2>1, <2>4, <3>2
    <3>3. Len(Recent) > 1 \/ Len(Recent) = 1
      BY <2>1
    <3> QED
      BY <3>1, <3>2, <3>3
  <2>6. \A i \in 1..Len(Counted) : Counted[i] = Recent[i]
    BY <2>1, <2>4, <2>5
  <2>7. Len(Counted) = Len(served) - since - 1
    BY <1>1, <1>3, <2>5
  <2>8. \A i \in 1..Len(Counted) : i \in 1..Len(Recent)
    BY <1>1, <1>3, <2>1, <2>5
  <2> QED
    BY <1>3, <1>5, <2>4, <2>6, <2>7, <2>8 DEF IsCounted
<1> QED
  BY <1>4, <1>5

(* All steps but Stats and Restart leave what is counted, and the          *)
(* extremes.                                                               *)
LEMMA CountedKept ==
  ASSUME TypeInv, TypeInv', [Next]_vars, ~Stats, ~Restart, pc' # "down"
  PROVE  Counted' = Counted /\ UNCHANGED <<low, high>>
<1>1. CASE HandleReturns
  <2>1. /\ Len(served') = Len(served) + 1
        /\ \A i \in 1..Len(served) : served'[i] = served[i]
        /\ pc = "handle" /\ pc' = "stats" /\ UNCHANGED <<low, high, since>>
    BY <1>1, HandleIs
  <2>2. served \in Seq(Outcome) /\ since \in 0..Len(served)
    BY DEF TypeInv
  <2>3. /\ Counted \in Seq(Outcome) /\ Counted' \in Seq(Outcome)
        /\ Len(Counted) = Len(served) - since /\ Len(Counted') = Len(served) - since
        /\ \A i \in 1..Len(Counted) : Counted[i] = served[since + i]
        /\ \A i \in 1..Len(Counted') : Counted'[i] = served'[since + i]
    <3>1. /\ Counted \in Seq(Outcome) /\ Len(Counted) = Len(served) - since
          /\ \A i \in 1..Len(Counted) : Counted[i] = served[since + i]
      BY <2>1, <2>2, CountedIs DEF IsCounted
    <3>2. /\ Counted' \in Seq(Outcome) /\ Len(Counted') = Len(served') - since - 1
          /\ \A i \in 1..Len(Counted') : Counted'[i] = served'[since + i]
      <4>1. IsCounted'
        BY CountedIs, PTL
      <4> QED
        BY <2>1, <2>2, <4>1 DEF IsCounted
    <3> QED
      BY <2>1, <2>2, <3>1, <3>2
  <2>4. ASSUME NEW i \in 1..Len(Counted) PROVE Counted[i] = Counted'[i]
    <3>1. i \in 1..Len(Counted') /\ since + i \in 1..Len(served)
      BY <2>2, <2>3
    <3> QED
      BY <2>1, <2>3, <3>1
  <2> QED
    BY <2>1, <2>3, <2>4, SeqEqual
<1>2. CASE UNCHANGED <<served, since, low, high>> /\ (pc' = "stats" <=> pc = "stats")
  BY <1>2 DEF Counted, Recent
<1> QED
  BY <1>1, <1>2 DEF Next, Top, Accepts, Accept, LogOpens, LogWrites, Counts, Dies, vars

(* Stats counts one more.                                                  *)
LEMMA CountedGrows ==
  ASSUME TypeInv, TypeInv', Stats
  PROVE  /\ served \in Seq(Outcome) /\ Len(served) > 0
         /\ Counted' = Append(Counted, served[Len(served)])
<1> DEFINE r == served[Len(served)]
<1>1. /\ pc = "stats" /\ pc' = "log" /\ UNCHANGED <<served, since>>
      /\ served \in Seq(Outcome) /\ since \in 0..Len(served) /\ since < Len(served)
  BY DEF TypeInv, Stats
<1>2. r \in Outcome
  BY <1>1
<1>3. /\ Counted \in Seq(Outcome) /\ Counted' \in Seq(Outcome)
      /\ Len(Counted) = Len(served) - since - 1 /\ Len(Counted') = Len(served) - since
      /\ \A i \in 1..Len(Counted) : Counted[i] = served[since + i]
      /\ \A i \in 1..Len(Counted') : Counted'[i] = served[since + i]
  <2>1. /\ Counted \in Seq(Outcome) /\ Len(Counted) = Len(served) - since - 1
        /\ \A i \in 1..Len(Counted) : Counted[i] = served[since + i]
    BY <1>1, CountedIs DEF IsCounted
  <2>2. /\ Counted' \in Seq(Outcome) /\ Len(Counted') = Len(served) - since
        /\ \A i \in 1..Len(Counted') : Counted'[i] = served[since + i]
    <3>1. IsCounted'
      BY CountedIs, PTL
    <3> QED
      BY <1>1, <3>1 DEF IsCounted
  <2> QED
    BY <2>1, <2>2
<1> DEFINE t == Append(Counted, r)
<1>4. /\ t \in Seq(Outcome) /\ Len(t) = Len(Counted) + 1
      /\ \A i \in 1..Len(Counted) : t[i] = Counted[i]
      /\ t[Len(Counted) + 1] = r
  BY <1>2, <1>3, AppendProperties
<1>5. Len(Counted') = Len(t) /\ \A i \in 1..Len(t) : Counted'[i] = t[i]
  <2> HIDE DEF t
  <2>1. Len(Counted') = Len(t)
    BY <1>1, <1>3, <1>4
  <2>2. ASSUME NEW i \in 1..Len(t) PROVE Counted'[i] = t[i]
    <3>1. CASE i \in 1..Len(Counted)
      <4>1. i \in 1..Len(Counted')
        BY <1>1, <1>3, <3>1
      <4>2. Counted[i] = served[since + i]
        BY <1>3, <3>1
      <4>3. Counted'[i] = served[since + i]
        BY <1>3, <4>1
      <4> QED
        BY <1>4, <3>1, <4>2, <4>3
    <3>2. CASE i = Len(Counted) + 1
      <4>1. Counted'[i] = served[since + i] /\ since + i = Len(served)
        BY <1>1, <1>3, <3>2
      <4> QED
        BY <1>4, <3>2, <4>1
    <3> QED
      BY <1>1, <1>3, <1>4, <3>1, <3>2
  <2> QED
    BY <2>1, <2>2
<1>6. Counted' = t
  <2> HIDE DEF t
  <2> QED
    BY <1>3, <1>4, <1>5, SeqEqual
<1> QED
  BY <1>1, <1>6

(* A new start counts from nothing.                                        *)
LEMMA CountedAfresh ==
  ASSUME TypeInv, TypeInv', Restart
  PROVE  Counted' = <<>>
<1>1. IsCounted'
  BY CountedIs, PTL
<1>2. Counted' \in Seq(Outcome) /\ Len(Counted') = 0
  BY <1>1 DEF IsCounted, TypeInv, Restart, StartsAfresh
<1> QED
  BY <1>2
-----------------------------------------------------------------------------
(* The minimum and the maximum. *)

(* The number that Max chooses.                                            *)
LEMMA MaxIs ==
  ASSUME NEW S \in SUBSET Int, NEW m \in S, \A y \in S : m >= y
  PROVE  Max(S) = m
<1>1. Max(S) \in S /\ \A y \in S : Max(S) >= y
  BY DEF Max
<1>2. Max(S) \in Int /\ m \in Int /\ Max(S) >= m /\ m >= Max(S)
  BY <1>1
<1> QED
  BY <1>2

(* The number that Min chooses.                                            *)
LEMMA MinIs ==
  ASSUME NEW S \in SUBSET Int, NEW m \in S, \A y \in S : m <= y
  PROVE  Min(S) = m
<1>1. Min(S) \in S /\ \A y \in S : Min(S) <= y
  BY DEF Min
<1>2. Min(S) \in Int /\ m \in Int /\ Min(S) <= m /\ m <= Min(S)
  BY <1>1
<1> QED
  BY <1>2

Fit(s) == \A i \in DOMAIN s : Millis(s[i]) < IntSpan \div 2
Late(s) == {i \in DOMAIN s : \E j \in 1..i : Millis(s[j]) > 0}

(* lo and hi are right for the connections of s: hi is 0 or the longest of   *)
(* their times, lo the shortest of those from the first above 0 on.         *)
Highest(s, hi) ==
  /\ \A i \in DOMAIN s : Millis(s[i]) <= hi
  /\ hi = 0 \/ \E i \in DOMAIN s : Millis(s[i]) = hi
Lowest(s, lo) ==
  /\ Late(s) = {} => lo = 0
  /\ Late(s) # {} => \E i \in Late(s) : Millis(s[i]) = lo
  /\ \A i \in Late(s) : lo <= Millis(s[i])

(* Milliseconds are fewer than microseconds.                               *)
LEMMA MillisTyped ==
  ASSUME NEW r \in Outcome
  PROVE  r.time \in Nat /\ Millis(r) \in Nat /\ Millis(r) <= r.time
<1>1. r.time \in Nat
  BY DEF Outcome
<1>2. r.time \div Milli \in Nat /\ r.time \div Milli <= r.time
  BY <1>1, LinearAssumption
<1> QED
  BY <1>1, <1>2 DEF Millis

(* The conversion keeps a number that fits.                                *)
LEMMA ToIntFits ==
  ASSUME NEW n \in Nat, n < IntSpan \div 2
  PROVE  ToInt(n) = n
<1>1. IntSpan \in Nat /\ IntSpan > 0
  BY LinearAssumption
<1>2. PICK h \in Int : h = IntSpan \div 2 /\ 0 <= h /\ 2 * h <= IntSpan
  BY <1>1
<1>3. n + h \in 0 .. IntSpan - 1
  BY <1>1, <1>2
<1>4. (n + h) % IntSpan = n + h
  BY <1>1, <1>3
<1> QED
  BY <1>2, <1>4 DEF ToInt

(* One more connection is served. *)
LEMMA HighestGrows ==
  ASSUME NEW s \in Seq(Outcome), NEW r \in Outcome,
         NEW hi \in Nat, Highest(s, hi)
  PROVE  /\ Millis(r) >= hi => Highest(Append(s, r), Millis(r))
         /\ Millis(r) <= hi => Highest(Append(s, r), hi)
<1>1. PICK t : t = Append(s, r)
  OBVIOUS
<1>2. /\ t \in Seq(Outcome) /\ Len(t) = Len(s) + 1 /\ t[Len(s) + 1] = r
      /\ \A i \in 1..Len(s) : t[i] = s[i]
  BY <1>1, AppendProperties
<1>3. /\ DOMAIN s = 1..Len(s) /\ DOMAIN t = 1 .. Len(s) + 1
      /\ \A i \in DOMAIN t : i \in DOMAIN s \/ i = Len(s) + 1
  BY <1>2
<1>4. \A i \in DOMAIN s : Millis(s[i]) \in Nat /\ Millis(t[i]) = Millis(s[i])
  BY <1>2, <1>3, MillisTyped
<1>5. Millis(r) \in Nat /\ Millis(t[Len(s) + 1]) = Millis(r) /\ Len(s) + 1 \in DOMAIN t
  BY <1>2, <1>3, MillisTyped
<1>6. ASSUME Millis(r) >= hi PROVE Highest(t, Millis(r))
  BY <1>3, <1>4, <1>5, <1>6 DEF Highest
<1>7. ASSUME Millis(r) <= hi PROVE Highest(t, hi)
  BY <1>3, <1>4, <1>5, <1>7 DEF Highest
<1> QED
  BY <1>1, <1>6, <1>7

(* The least time, from the first of a millisecond or more on.             *)
LEMMA LowestGrows ==
  ASSUME NEW s \in Seq(Outcome), NEW r \in Outcome,
         NEW lo \in Int, Lowest(s, lo)
  PROVE  /\ Late(s) = {} \/ Millis(r) <= lo => Lowest(Append(s, r), Millis(r))
         /\ Late(s) # {} /\ lo <= Millis(r) => Lowest(Append(s, r), lo)
<1>1. PICK t : t = Append(s, r)
  OBVIOUS
<1>2. /\ t \in Seq(Outcome) /\ Len(t) = Len(s) + 1 /\ t[Len(s) + 1] = r
      /\ \A i \in 1..Len(s) : t[i] = s[i]
  BY <1>1, AppendProperties
<1>3. /\ DOMAIN s = 1..Len(s) /\ DOMAIN t = 1 .. Len(s) + 1
      /\ \A i \in DOMAIN t : i \in DOMAIN s \/ i = Len(s) + 1
      /\ Len(s) \in Nat /\ Len(s) + 1 \notin DOMAIN s
  BY <1>2
<1>4. \A i \in DOMAIN s : Millis(s[i]) \in Nat /\ Millis(t[i]) = Millis(s[i])
  BY <1>2, <1>3, MillisTyped
<1>5. Millis(r) \in Nat /\ Millis(t[Len(s) + 1]) = Millis(r) /\ Len(s) + 1 \in DOMAIN t
  BY <1>2, <1>3, MillisTyped
<1>6. \A i \in DOMAIN s : i \in Late(t) <=> i \in Late(s)
  BY <1>3, <1>4 DEF Late
<1>7. Len(s) + 1 \in Late(t) <=> Late(s) # {} \/ Millis(r) > 0
  BY <1>3, <1>4, <1>5 DEF Late
<1>8. Late(s) \subseteq DOMAIN s /\ Late(t) \subseteq DOMAIN t
  BY DEF Late
<1>9. \A i \in Late(t) : i \in Late(s) \/ i = Len(s) + 1
  BY <1>3, <1>6, <1>8
<1>10. \A i \in Late(s) : i \in Late(t) /\ Millis(t[i]) = Millis(s[i]) /\ Millis(s[i]) \in Nat
  BY <1>4, <1>6, <1>8
<1>11. ASSUME Late(s) = {} PROVE Lowest(t, Millis(r))
  BY <1>5, <1>7, <1>9, <1>11 DEF Lowest
<1>12. ASSUME Late(s) # {}, Millis(r) <= lo PROVE Lowest(t, Millis(r))
  BY <1>5, <1>7, <1>9, <1>10, <1>12 DEF Lowest
<1>13. ASSUME Late(s) # {}, lo <= Millis(r) PROVE Lowest(t, lo)
  BY <1>5, <1>7, <1>9, <1>10, <1>13 DEF Lowest
<1> QED
  BY <1>1, <1>11, <1>12, <1>13
-----------------------------------------------------------------------------
(* StatsTrackExtremes and BothUnitsAgree, with what makes them inductive:    *)
(* the time that is measured belongs to the last connection.                *)

TookInv ==
  pc = "stats" =>
    took = [ms |-> ToInt(Millis(served[Len(served)])), us |-> ToInt(served[Len(served)].time)]

ExtremesInv ==
  pc # "down" /\ MillisFit => Highest(Counted, high.ms) /\ Lowest(Counted, low.ms)

(* diff and diff1 are the time of the connection served last.              *)
LEMMA TookStep ==
  ASSUME TypeInv, TookInv, [Next]_vars
  PROVE  TookInv'
<1>1. CASE HandleReturns
  <2>1. PICK reply \in Replies(cur.exchange) :
          /\ served'[Len(served')] = Returned(reply)
          /\ took' = [ms |-> ToInt((cur.wait + cur.time) \div Milli),
                      us |-> ToInt(cur.wait + cur.time)]
    BY <1>1, HandleIs
  <2>2. Returned(reply).time = cur.wait + cur.time
    BY DEF Returned
  <2> QED
    BY <2>1, <2>2 DEF TookInv, Millis
<1>2. CASE pc' # "stats" \/ UNCHANGED vars
  BY <1>2 DEF TookInv, vars
<1> QED
  BY <1>1, <1>2 DEF Next, Top, Accepts, Accept, Stats, LogOpens, LogWrites, Counts, Dies,
                     Restart, StartsAfresh

(* Stats takes the figures of the last connection for the least or the       *)
(* longest time as the code's tests say.                                    *)
LEMMA StatsIs ==
  ASSUME TypeInv, TookInv, Stats
  PROVE  LET r == served[Len(served)] IN
         /\ r \in Outcome
         /\ took.ms = ToInt(Millis(r)) /\ took.us = ToInt(r.time)
         /\ \/ First /\ low' = took /\ high' = took
            \/ ~First /\ took.ms < low.ms /\ low' = took /\ high' = high
            \/ ~First /\ took.ms >= low.ms /\ took.ms > high.ms /\ low' = low /\ high' = took
            \/ ~First /\ took.ms >= low.ms /\ took.ms <= high.ms /\ low' = low /\ high' = high
<1>1. pc = "stats" /\ served[Len(served)] \in Outcome
  BY DEF TypeInv, Stats
<1>2. /\ took.ms = ToInt(Millis(served[Len(served)]))
      /\ took.us = ToInt(served[Len(served)].time)
  BY <1>1 DEF TookInv
<1> QED
  BY <1>1, <1>2 DEF Stats, NewFirst, NewLow, NewHigh, NeitherNew

(* The longest time is a number.                                           *)
LEMMA HighestTyped ==
  ASSUME NEW s \in Seq(Outcome), NEW hi, Highest(s, hi)
  PROVE  hi \in Nat
BY MillisTyped DEF Highest

(* The least is one too, no longer than that, and both are 0 together.     *)
LEMMA LowestTyped ==
  ASSUME NEW s \in Seq(Outcome), NEW lo, NEW hi \in Nat, Lowest(s, lo), Highest(s, hi)
  PROVE  /\ lo \in Nat /\ lo <= hi
         /\ hi = 0 <=> Late(s) = {}
<1>1. \A i \in DOMAIN s : Millis(s[i]) \in Nat /\ Millis(s[i]) <= hi
  BY MillisTyped DEF Highest
<1>2. Late(s) \subseteq DOMAIN s
  BY DEF Late
<1>3. lo \in Nat /\ lo <= hi
  BY <1>1, <1>2 DEF Lowest
<1>4. ASSUME hi = 0 PROVE Late(s) = {}
  <2>1. \A i \in DOMAIN s : \A j \in 1..i : j \in DOMAIN s
    OBVIOUS
  <2> QED
    BY <1>1, <1>4, <2>1 DEF Late
<1>5. ASSUME hi # 0 PROVE Late(s) # {}
  <2>1. PICK i \in DOMAIN s : Millis(s[i]) = hi
    BY <1>5 DEF Highest
  <2>2. i \in 1..i /\ Millis(s[i]) > 0
    BY <1>5, <2>1
  <2> QED
    BY <2>2 DEF Late
<1> QED
  BY <1>3, <1>4, <1>5

(* Every step keeps the extremes those of what is counted.                 *)
LEMMA ExtremesStep ==
  ASSUME TypeInv, TypeInv', TookInv, ExtremesInv, [Next]_vars
  PROVE  ExtremesInv'
<1> SUFFICES ASSUME pc' # "down", MillisFit'
             PROVE  Highest(Counted', high'.ms) /\ Lowest(Counted', low'.ms)
  BY DEF ExtremesInv, Highest, Lowest, Late, Millis
<1>1. CASE Stats
  <2> DEFINE r == served[Len(served)]
             t == Append(Counted, r)
  <2>1. Counted' = t /\ Counted \in Seq(Outcome)
    BY <1>1, CountedGrows, CountedIs DEF IsCounted
  <2>2. r \in Outcome /\ Millis(r) \in Nat
    BY <1>1, StatsIs, MillisTyped
  <2>3. /\ t \in Seq(Outcome) /\ Len(t) = Len(Counted) + 1
        /\ \A i \in 1..Len(Counted) : t[i] = Counted[i]
        /\ t[Len(Counted) + 1] = r
    BY <2>1, <2>2, AppendProperties
  <2>4. \A i \in DOMAIN t : Millis(t[i]) < IntSpan \div 2
    BY <2>1 DEF MillisFit, Millis
  <2> HIDE DEF t
  <2>5. MillisFit /\ Millis(r) < IntSpan \div 2
    <3>1. \A i \in 1..Len(Counted) : i \in DOMAIN t
      BY <2>1, <2>3
    <3>2. Len(Counted) + 1 \in DOMAIN t
      BY <2>1, <2>3
    <3> QED
      BY <2>1, <2>3, <2>4, <3>1, <3>2 DEF MillisFit
  <2>6. took.ms = Millis(r)
    BY <1>1, <2>2, <2>5, StatsIs, ToIntFits
  <2>7. Highest(Counted, high.ms) /\ Lowest(Counted, low.ms)
    BY <1>1, <2>5 DEF ExtremesInv, Stats
  <2>8. high.ms \in Nat /\ low.ms \in Nat /\ low.ms <= high.ms
        /\ (high.ms = 0 <=> Late(Counted) = {})
    BY <2>1, <2>7, HighestTyped, LowestTyped
  <2>9. /\ Millis(r) >= high.ms => Highest(t, Millis(r))
        /\ Millis(r) <= high.ms => Highest(t, high.ms)
    BY <2>1, <2>2, <2>7, <2>8, HighestGrows DEF t
  <2>10. /\ Late(Counted) = {} \/ Millis(r) <= low.ms => Lowest(t, Millis(r))
         /\ Late(Counted) # {} /\ low.ms <= Millis(r) => Lowest(t, low.ms)
    BY <2>1, <2>2, <2>7, <2>8, LowestGrows DEF t
  <2>11. \/ First /\ low' = took /\ high' = took
         \/ ~First /\ took.ms < low.ms /\ low' = took /\ high' = high
         \/ ~First /\ took.ms >= low.ms /\ took.ms > high.ms /\ low' = low /\ high' = took
         \/ ~First /\ took.ms >= low.ms /\ took.ms <= high.ms /\ low' = low /\ high' = high
    BY <1>1, StatsIs
  <2>12. First <=> Late(Counted) = {}
    BY <2>7, <2>8 DEF First, Lowest
  <2> QED
    BY <2>1, <2>2, <2>6, <2>8, <2>9, <2>10, <2>11, <2>12
<1>2. CASE Restart
  <2>1. Counted' = <<>> /\ high'.ms = 0 /\ low'.ms = 0
    BY <1>2, CountedAfresh DEF Restart, StartsAfresh, Zero
  <2> QED
    BY <2>1 DEF Highest, Lowest, Late
<1>3. CASE ~Stats /\ ~Restart
  <2>1. Counted' = Counted /\ UNCHANGED <<low, high>>
    BY <1>3, CountedKept
  <2>2. pc # "down"
    BY <1>3 DEF Next, Top, Accepts, Accept, HandleReturns, LogOpens, LogWrites, Counts,
                Dies, vars
  <2>3. MillisFit
    BY <2>1 DEF MillisFit, Millis
  <2> QED
    BY <2>1, <2>2, <2>3 DEF ExtremesInv
<1> QED
  BY <1>1, <1>2, <1>3
(* At the start nothing is counted.                                        *)
LEMMA ExtremesInit == Init => TookInv /\ ExtremesInv
<1> SUFFICES ASSUME Init PROVE TookInv /\ ExtremesInv
  OBVIOUS
<1>1. TookInv
  BY DEF Init, TookInv
<1>2. Counted = <<>>
  BY SubSeqEmpty DEF Init, Counted, Recent
<1>3. high.ms = 0 /\ low.ms = 0
  BY DEF Init, Zero
<1> QED
  BY <1>1, <1>2, <1>3 DEF ExtremesInv, Highest, Lowest, Late

(* The sets that the properties speak of are sets of numbers. *)
LEMMA MaxTimeIs ==
  ASSUME TypeInv, NEW hi, Highest(Counted, hi)
  PROVE  hi = MaxTime
<1>1. Counted \in Seq(Outcome)
  BY CountedIs DEF IsCounted
<1>2. hi \in Nat /\ \A i \in DOMAIN Counted : Millis(Counted[i]) \in Nat
  BY <1>1, HighestTyped, MillisTyped
<1> DEFINE S == {0} \cup {Millis(Counted[i]) : i \in DOMAIN Counted}
<1>3. S \in SUBSET Int /\ hi \in S /\ \A y \in S : hi >= y
  BY <1>2 DEF Highest
<1> QED
  BY <1>3, MaxIs DEF MaxTime

(* So min and max are the numbers that the property names.                 *)
LEMMA ExtremesTracked ==
  TypeInv /\ ExtremesInv => StatsTrackExtremes
<1> SUFFICES ASSUME TypeInv, ExtremesInv, pc # "down", MillisFit
             PROVE  /\ high.ms = MaxTime
                    /\ low.ms = IF Late(Counted) = {} THEN 0
                                ELSE Min({Millis(Counted[i]) : i \in Late(Counted)})
  BY DEF StatsTrackExtremes, Late
<1>1. Highest(Counted, high.ms) /\ Lowest(Counted, low.ms)
  BY DEF ExtremesInv
<1>2. Counted \in Seq(Outcome) /\ Late(Counted) \subseteq DOMAIN Counted
  BY CountedIs DEF IsCounted, Late
<1>3. \A i \in Late(Counted) : Millis(Counted[i]) \in Nat
  BY <1>2, MillisTyped
<1>4. ASSUME Late(Counted) # {}
      PROVE  low.ms = Min({Millis(Counted[i]) : i \in Late(Counted)})
  <2> DEFINE S == {Millis(Counted[i]) : i \in Late(Counted)}
  <2>1. S \in SUBSET Int /\ low.ms \in S /\ \A y \in S : low.ms <= y
    BY <1>1, <1>3, <1>4 DEF Lowest
  <2> QED
    BY <2>1, MinIs
<1> QED
  BY <1>1, <1>4, MaxTimeIs DEF Lowest

(* From the first time of a millisecond or more on, min and max are the      *)
(* least and the greatest of the times.                                     *)
THEOREM ExtremesAreRight == Spec => []StatsTrackExtremes
BY TypeInit, TypeStep, ExtremesInit, TookStep, ExtremesStep, ExtremesTracked, PTL DEF Spec

Shows(figure, s) ==
  \E i \in DOMAIN s : figure.us = ToInt(s[i].time) /\ figure.ms = ToInt(Millis(s[i]))
UnitsInv ==
  pc # "down" /\ Counted # <<>> => Shows(low, Counted) /\ Shows(high, Counted)

(* Both units are set together, from one connection.                       *)
LEMMA UnitsStep ==
  ASSUME TypeInv, TypeInv', TookInv, ExtremesInv, UnitsInv, [Next]_vars
  PROVE  UnitsInv'
<1> SUFFICES ASSUME pc' # "down", Counted' # <<>>
             PROVE  Shows(low', Counted') /\ Shows(high', Counted')
  BY DEF UnitsInv, Shows, Millis, ToInt
<1>1. CASE Stats
  <2> DEFINE r == served[Len(served)]
             t == Append(Counted, r)
  <2>1. Counted' = t /\ Counted \in Seq(Outcome)
    BY <1>1, CountedGrows, CountedIs DEF IsCounted
  <2>2. r \in Outcome /\ took.ms = ToInt(Millis(r)) /\ took.us = ToInt(r.time)
    BY <1>1, StatsIs
  <2>3. /\ t \in Seq(Outcome) /\ Len(t) = Len(Counted) + 1
        /\ \A i \in 1..Len(Counted) : t[i] = Counted[i]
        /\ t[Len(Counted) + 1] = r
    BY <2>1, <2>2, AppendProperties
  <2> HIDE DEF t
  <2>4. \A i \in DOMAIN Counted : i \in DOMAIN t /\ t[i] = Counted[i]
    BY <2>1, <2>3
  <2>5. Len(Counted) + 1 \in DOMAIN t
    BY <2>1, <2>3
  <2>6. Shows(took, t)
    BY <2>2, <2>3, <2>5 DEF Shows
  <2>7. ASSUME NEW figure, Shows(figure, Counted) PROVE Shows(figure, t)
    BY <2>4, <2>7 DEF Shows
  <2>8. \/ First /\ low' = took /\ high' = took
        \/ ~First /\ took.ms < low.ms /\ low' = took /\ high' = high
        \/ ~First /\ took.ms >= low.ms /\ took.ms > high.ms /\ low' = low /\ high' = took
        \/ ~First /\ took.ms >= low.ms /\ took.ms <= high.ms /\ low' = low /\ high' = high
    BY <1>1, StatsIs
  <2>9. CASE Counted = <<>>
    <3>1. MillisFit /\ Late(Counted) = {}
      BY <2>9 DEF MillisFit, Late
    <3>2. Highest(Counted, high.ms) /\ Lowest(Counted, low.ms)
      BY <1>1, <3>1 DEF ExtremesInv, Stats
    <3>3. First
      BY <2>9, <3>1, <3>2 DEF First, Highest, Lowest
    <3> QED
      BY <2>1, <2>6, <2>8, <3>3
  <2>10. CASE Counted # <<>>
    <3>1. Shows(low, Counted) /\ Shows(high, Counted)
      BY <1>1, <2>10 DEF UnitsInv, Stats
    <3> QED
      BY <2>1, <2>6, <2>7, <2>8, <3>1
  <2> QED
    BY <2>9, <2>10
<1>2. CASE Restart
  BY <1>2, CountedAfresh
<1>3. CASE ~Stats /\ ~Restart
  <2>1. Counted' = Counted /\ UNCHANGED <<low, high>>
    BY <1>3, CountedKept
  <2>2. pc # "down"
    BY <1>3 DEF Next, Top, Accepts, Accept, HandleReturns, LogOpens, LogWrites, Counts,
                Dies, vars
  <2> QED
    BY <2>1, <2>2 DEF UnitsInv
<1> QED
  BY <1>1, <1>2, <1>3

(* The two figures of an extreme are those of one connection. *)
THEOREM UnitsAreOfOne == Spec => []BothUnitsAgree
<1>1. Init => UnitsInv
  <2> SUFFICES ASSUME Init PROVE Counted = <<>>
    BY DEF UnitsInv
  <2> QED
    BY SubSeqEmpty DEF Init, Counted, Recent
<1>2. UnitsInv => BothUnitsAgree
  BY DEF UnitsInv, BothUnitsAgree, Shows
<1> QED
  BY <1>1, <1>2, TypeInit, TypeStep, ExtremesInit, TookStep, ExtremesStep, UnitsStep, PTL
     DEF Spec

(* StatFileFresh, with what makes it inductive: ctr counts the connections   *)
(* of this process, and at the top of the loop the next one as well.        *)
FileInv ==
  /\ pc \in {"top", "accept", "handle"} => ctr = Len(served) - since + 1
  /\ pc \in {"stats", "log", "write"} => ctr = Len(served) - since
  /\ pc \in {"accept", "handle"} =>
       stat.total = ctr /\ stat.min = low /\ stat.max = high

(* The total and the figures are written at the top and kept until after   *)
(* handle().                                                               *)
LEMMA FileStep ==
  ASSUME TypeInv, FileInv, [Next]_vars
  PROVE  FileInv'
<1>1. Len(served) \in Nat /\ since \in Nat /\ ctr \in Nat
  BY DEF TypeInv
<1>2. CASE Top
  BY <1>2 DEF FileInv, Top, StatFile
<1>3. CASE Accepts
  BY <1>3 DEF FileInv, Accepts, Accept
<1>4. CASE HandleReturns
  <2>1. Len(served') = Len(served) + 1 /\ pc = "handle" /\ pc' = "stats"
        /\ UNCHANGED <<ctr, since>>
    BY <1>4, HandleIs
  <2> QED
    BY <1>1, <2>1 DEF FileInv
<1>5. CASE Stats
  BY <1>5 DEF FileInv, Stats
<1>6. CASE LogOpens \/ LogWrites \/ Counts
  BY <1>1, <1>6 DEF FileInv, LogOpens, LogWrites, Counts
<1>7. CASE Dies
  BY <1>7 DEF FileInv, Dies
<1>8. CASE Restart
  BY <1>1, <1>8 DEF FileInv, Restart, StartsAfresh
<1>9. CASE UNCHANGED vars
  BY <1>9 DEF FileInv, vars
<1> QED
  BY <1>2, <1>3, <1>4, <1>5, <1>6, <1>7, <1>8, <1>9 DEF Next

(* Who reads /stats reads the figures of all the connections before his.     *)
THEOREM FileIsFresh == Spec => []StatFileFresh
<1>1. Init => FileInv
  BY DEF Init, FileInv
<1>2. TypeInv /\ ExtremesInv /\ FileInv => StatFileFresh
  <2> SUFFICES ASSUME TypeInv, ExtremesInv, FileInv, pc \in {"accept", "handle"}
               PROVE  /\ stat.total = Len(Recent) + 1 /\ stat.min = low
                      /\ MillisFit => stat.max.ms = MaxTime
    BY DEF StatFileFresh
  <2>1. Len(Recent) = Len(served) - since
    <3>1. Counted = Recent
      BY DEF Counted
    <3>2. Len(Counted) = Len(served) - since
      BY CountedIs DEF IsCounted, TypeInv
    <3> QED
      BY <3>1, <3>2
  <2>2. MillisFit => high.ms = MaxTime
    BY MaxTimeIs DEF ExtremesInv
  <2> QED
    BY <2>1, <2>2 DEF FileInv
<1> QED
  BY <1>1, <1>2, TypeInit, TypeStep, ExtremesInit, TookStep, ExtremesStep, FileStep, PTL
     DEF Spec
=============================================================================
