--------------------------- MODULE SocketsProofs ---------------------------
(***************************************************************************)
(* Facts about the backlog and about the steps of clients, for the proofs  *)
(* about the three servers that extend Sockets.                            *)
(***************************************************************************)
EXTENDS Sockets, TLAPS

(* Taking the oldest of a sequence without repetitions leaves a sequence   *)
(* without repetitions that it is not in.                                  *)
LEMMA OldestLeaves ==
  ASSUME NEW S, NEW s \in Seq(S), s # <<>>, IsInjective(s)
  PROVE  /\ Head(s) \in S /\ Tail(s) \in Seq(S)
         /\ Head(s) \in Range(s) /\ Head(s) \notin Range(Tail(s))
         /\ Range(Tail(s)) = Range(s) \ {Head(s)}
         /\ IsInjective(Tail(s))
<1>1. /\ Head(s) \in S /\ Tail(s) \in Seq(S) /\ Len(s) \in Nat \ {0}
      /\ DOMAIN s = 1..Len(s) /\ DOMAIN Tail(s) = 1..(Len(s) - 1)
      /\ Head(s) = s[1]
      /\ \A i \in 1..(Len(s) - 1) : Tail(s)[i] = s[i + 1]
  OBVIOUS
<1>2. \A i \in DOMAIN Tail(s) : i + 1 \in DOMAIN s /\ i + 1 # 1
  BY <1>1
<1>3. Head(s) \in Range(s) /\ Range(Tail(s)) \subseteq Range(s)
  BY <1>1, <1>2 DEF Range
<1>4. ASSUME NEW e \in Range(s), e # Head(s)
      PROVE  e \in Range(Tail(s))
  <2>1. PICK i \in DOMAIN s : s[i] = e
    BY DEF Range
  <2>2. i - 1 \in 1..(Len(s) - 1) /\ (i - 1) + 1 = i
    BY <1>1, <1>4, <2>1
  <2>3. Tail(s)[i - 1] = e
    BY <1>1, <2>1, <2>2
  <2> QED
    BY <1>1, <2>2, <2>3 DEF Range
<1>5. Head(s) \notin Range(Tail(s))
  BY <1>1, <1>2 DEF Range, IsInjective
<1>6. ASSUME NEW i \in DOMAIN Tail(s), NEW j \in DOMAIN Tail(s), Tail(s)[i] = Tail(s)[j]
      PROVE  i = j
  <2>1. s[i + 1] = s[j + 1]
    BY <1>1, <1>6
  <2>2. i + 1 = j + 1
    BY <1>2, <2>1 DEF IsInjective
  <2> QED
    BY <1>1, <2>2
<1>7. IsInjective(Tail(s))
  BY <1>6 DEF IsInjective
<1> QED
  BY <1>1, <1>3, <1>5, <1>7, <1>4

(* A new element at the end.                                               *)
LEMMA NewestJoins ==
  ASSUME NEW S, NEW s \in Seq(S), NEW e \in S, e \notin Range(s), IsInjective(s)
  PROVE  /\ Append(s, e) \in Seq(S)
         /\ Range(Append(s, e)) = Range(s) \cup {e}
         /\ IsInjective(Append(s, e))
<1> DEFINE t == Append(s, e)
<1>1. /\ t \in Seq(S) /\ Len(s) \in Nat
      /\ DOMAIN s = 1..Len(s) /\ DOMAIN t = 1..(Len(s) + 1)
      /\ t[Len(s) + 1] = e
      /\ \A i \in 1..Len(s) : t[i] = s[i]
  OBVIOUS
<1>2. ASSUME NEW i \in DOMAIN t
      PROVE  i \in DOMAIN s \/ i = Len(s) + 1
  BY <1>1
<1>3. Range(t) = Range(s) \cup {e}
  <2>1. Range(t) \subseteq Range(s) \cup {e}
    BY <1>1, <1>2 DEF Range
  <2>2. Range(s) \cup {e} \subseteq Range(t)
    BY <1>1 DEF Range
  <2> QED
    BY <2>1, <2>2
<1>4. IsInjective(t)
  BY <1>1, <1>2 DEF Range, IsInjective
<1> QED
  BY <1>1, <1>3, <1>4
-----------------------------------------------------------------------------
(* A connection that is not open is not in the server's hands.             *)
UnopenedOK ==
  \A c \in Conns :
    link[c] = "none" => holders[c] = {} /\ copies[c] = {} /\ handled[c] = 0

(* Whoever accepts has the listening socket, and so has every program.     *)
ListeningOK == up \/ Programs # {} => listening

SocketsInv(P) == SocketsTypeOK(P) /\ BacklogOK /\ UnopenedOK /\ ListeningOK

(* The processes or threads with a program, by the connections it has.     *)
LEMMA ProgramsAre ==
  ASSUME NEW P, SocketsTypeOK(P)
  PROVE  /\ Programs \subseteq P
         /\ \A p : p \in Programs <=> \E c \in Conns : p \in copies[c]
BY DEF SocketsTypeOK, Programs, Range

(* The same after a step.                                                  *)
LEMMA ProgramsBecome ==
  ASSUME NEW P, SocketsTypeOK(P)'
  PROVE  /\ Programs' \subseteq P
         /\ \A p : p \in Programs' <=> \E c \in Conns : p \in copies'[c]
BY DEF SocketsTypeOK, Programs, Range

(* It holds at the start.                                                  *)
LEMMA SocketsInitially ==
  ASSUME NEW P, SocketsInit
  PROVE  SocketsInv(P)
<1>1. Range(backlog) = {} /\ backlog \in Seq(Conns) /\ IsInjective(backlog)
  BY DEF SocketsInit, Range, IsInjective
<1> QED
  BY <1>1 DEF SocketsInit, SocketsInv, SocketsTypeOK, BacklogOK, UnopenedOK,
              ListeningOK, Links, Progress

(* The backlog holds connections.                                          *)
LEMMA BacklogOfConns ==
  ASSUME NEW P, SocketsTypeOK(P)
  PROVE  Range(backlog) \subseteq Conns
BY DEF SocketsTypeOK, Range

(* Clients keep it.                                                        *)
LEMMA ClientsKeepSockets ==
  ASSUME NEW CONSTANT P, SocketsInv(P), NEW c \in Conns, ClientStep(c)
  PROVE  SocketsInv(P)'
<1> USE DEF SocketsInv, SocketsTypeOK, Links, Progress
<1>1. ListeningOK'
  BY DEF ClientStep, Connect, Shake, Send, StopsReading, Resumes, Shutdown, Reset,
         Depart, ListeningOK, Programs
<1>2. CASE Connect(c)
  <2>1. c \notin Range(backlog)
    BY <1>2 DEF Connect, BacklogOK
  <2>2. /\ backlog' \in Seq(Conns)
        /\ Range(backlog') = Range(backlog) \cup {c}
        /\ IsInjective(backlog')
    BY <1>2, <2>1, NewestJoins DEF Connect, BacklogOK
  <2>3. SocketsTypeOK(P)'
    BY <1>2, <2>2 DEF Connect
  <2>4. BacklogOK' /\ UnopenedOK'
    BY <1>2, <2>2 DEF Connect, BacklogOK, UnopenedOK
  <2> QED
    BY <1>1, <2>3, <2>4
<1>3. CASE Shake(c)
  BY <1>3, <1>1 DEF Shake, BacklogOK, UnopenedOK
<1>4. CASE Send(c)
  BY <1>4, <1>1 DEF Send, BacklogOK, UnopenedOK
<1>5. CASE Shutdown(c)
  BY <1>5, <1>1 DEF Shutdown, BacklogOK, UnopenedOK
<1>6. CASE Reset(c)
  BY <1>6, <1>1 DEF Reset, BacklogOK, UnopenedOK
<1>7. CASE StopsReading(c) \/ Resumes(c)
  <2>1. CASE StopsReading(c)
    BY <1>1, <2>1 DEF StopsReading, BacklogOK, UnopenedOK
  <2>2. CASE Resumes(c)
    BY <1>1, <2>2 DEF Resumes, BacklogOK, UnopenedOK
  <2> QED
    BY <1>7, <2>1, <2>2
<1>8. CASE Depart(c)
  BY <1>8, <1>1 DEF Depart, Closed, Queued, BacklogOK, UnopenedOK
<1> QED
  BY <1>2, <1>3, <1>4, <1>5, <1>6, <1>7, <1>8, <1>1 DEF ClientStep

(* accept() keeps it.                                                      *)
LEMMA AcceptKeepsSockets ==
  ASSUME NEW CONSTANT P, SocketsInv(P), NEW CONSTANT p \in P, AcceptBy(p)
  PROVE  /\ SocketsInv(P)'
         /\ Head(backlog) \in Conns /\ Queued(Head(backlog))
         /\ Head(backlog) \notin Range(backlog')
         /\ Range(backlog') \subseteq Range(backlog)
<1> USE DEF SocketsInv, SocketsTypeOK, BacklogOK, AcceptBy, Queued
<1>1. /\ Head(backlog) \in Conns /\ backlog' \in Seq(Conns)
      /\ Head(backlog) \in Range(backlog) /\ Head(backlog) \notin Range(backlog')
      /\ Range(backlog') \subseteq Range(backlog)
      /\ IsInjective(backlog')
  BY OldestLeaves
<1>2. SocketsTypeOK(P)'
  BY <1>1
<1>3. BacklogOK' /\ UnopenedOK' /\ ListeningOK'
  BY <1>1 DEF UnopenedOK, ListeningOK, Programs
<1> QED
  BY <1>1, <1>2, <1>3

(* A client does no more than its manners allow.                           *)
MannersInv ==
  \A c \in Conns :
    /\ link[c] = "reset" \/ prog[c] = "garbled" => c \in Faulty
    /\ link[c] \in {"eof", "deaf"} => c \notin Prompt

(* Clients keep to that.                                                   *)
LEMMA ClientsKeepManners ==
  ASSUME NEW P, SocketsTypeOK(P), MannersInv, NEW c \in Conns, ClientStep(c)
  PROVE  MannersInv'
BY DEF SocketsTypeOK, MannersInv, ClientStep, Connect, Shake, Send, StopsReading,
       Resumes, Shutdown, Reset, Depart
-----------------------------------------------------------------------------
(* Steps of the connections as steps of Service, under the mapping Status. *)

Opened(c) == holders[c] # {} \/ copies[c] # {}

(* What a status says of the link, the backlog and who has it open.        *)
LEMMA StatusIs ==
  ASSUME NEW c \in Conns, BacklogOK, UnopenedOK
  PROVE  /\ Status(c) = "none" <=> link[c] = "none"
         /\ Status(c) = "queued" <=> Queued(c)
         /\ Status(c) = "open" <=> Opened(c)
         /\ Status(c) \in {"none", "queued", "open", "closed"}
BY DEF Status, Queued, Closed, Opened, BacklogOK, UnopenedOK

(* The same after a step.                                                  *)
LEMMA StatusBecomes ==
  ASSUME NEW c \in Conns, BacklogOK', UnopenedOK'
  PROVE  /\ Status(c)' = "none" <=> link'[c] = "none"
         /\ Status(c)' = "queued" <=> Queued(c)'
         /\ Status(c)' = "open" <=> Opened(c)'
         /\ Status(c)' \in {"none", "queued", "open", "closed"}
BY DEF Status, Queued, Closed, Opened, BacklogOK, UnopenedOK

(* The initial states map to Service's.                                    *)
LEMMA InitRefines == SocketsInit => Svc!Init
<1> SUFFICES ASSUME SocketsInit PROVE Svc!Init
  OBVIOUS
<1>1. SocketsInv({})
  BY SocketsInitially
<1>2. \A c \in Conns : Status(c) = "none"
  BY <1>1, StatusIs DEF SocketsInit, SocketsInv
<1>3. \A c \in Conns : Served(c) = FALSE
  BY DEF SocketsInit, Served
<1> QED
  BY <1>2, <1>3 DEF SocketsInit, Svc!Init

(* What Service cannot see.                                                *)
LEMMA HiddenRefines ==
  ASSUME UNCHANGED <<backlog, holders, copies, handled, up, listening>>,
         \A c \in Conns : link'[c] = "none" <=> link[c] = "none"
  PROVE  UNCHANGED Svc!vars
<1>1. \A c \in Conns : Status(c)' = Status(c)
  BY DEF Status, Queued, Closed
<1>2. \A c \in Conns : Served(c)' = Served(c)
  BY DEF Served
<1> QED
  BY <1>1, <1>2 DEF Svc!vars

(* A client's step.                                                        *)
LEMMA ClientRefines ==
  ASSUME NEW CONSTANT P, SocketsInv(P), NEW c \in Conns, ClientStep(c)
  PROVE  [Svc!Next]_Svc!vars
<1>1. SocketsInv(P)'
  BY ClientsKeepSockets
<1>2. CASE Connect(c)
  <2>1. c \notin Range(backlog) /\ link[c] = "none"
    BY <1>2 DEF Connect, SocketsInv, BacklogOK
  <2>2. Range(backlog') = Range(backlog) \cup {c}
    BY <1>2, <2>1, NewestJoins DEF Connect, SocketsInv, SocketsTypeOK, BacklogOK
  <2>3. Status(c) = "none" /\ Status(c)' = "queued"
    BY <1>1, <2>1, <2>2, StatusIs, StatusBecomes DEF Queued, SocketsInv
  <2>4. \A d \in Conns \ {c} : Status(d)' = Status(d)
    BY <1>2, <2>2 DEF Connect, Status, Queued, Closed, SocketsInv, SocketsTypeOK
  <2>5. \A d \in Conns : Served(d)' = Served(d)
    BY <1>2 DEF Connect, Served
  <2>6. Svc!Connect(c)
    BY <1>2, <2>3, <2>4, <2>5 DEF Connect, Svc!Connect
  <2> QED
    BY <2>6 DEF Svc!Next
<1>3. CASE Depart(c)
  <2>1. Status(c) = "closed" /\ Status(c)' = "none"
    BY <1>1, <1>3, StatusIs, StatusBecomes DEF Depart, Closed, Opened, SocketsInv, SocketsTypeOK
  <2>2. \A d \in Conns \ {c} : Status(d)' = Status(d) /\ Served(d)' = Served(d)
    BY <1>3 DEF Depart, Status, Queued, Closed, Served, SocketsInv, SocketsTypeOK
  <2>3. Served(c)' = FALSE
    BY <1>3 DEF Depart, Served, SocketsInv, SocketsTypeOK
  <2>4. Svc!Depart(c)
    BY <1>3, <2>1, <2>2, <2>3 DEF Depart, Svc!Depart
  <2> QED
    BY <2>4 DEF Svc!Next
<1>4. CASE Shake(c) \/ Send(c) \/ StopsReading(c) \/ Resumes(c) \/ Shutdown(c) \/ Reset(c)
  <2>1. UNCHANGED <<backlog, holders, copies, handled, up, listening>>
    BY <1>4 DEF Shake, Send, StopsReading, Resumes, Shutdown, Reset
  <2>2. \A d \in Conns : link'[d] = "none" <=> link[d] = "none"
    BY <1>4 DEF Shake, Send, StopsReading, Resumes, Shutdown, Reset, SocketsInv,
                SocketsTypeOK
  <2> QED
    BY <2>1, <2>2, HiddenRefines
<1> QED
  BY <1>2, <1>3, <1>4 DEF ClientStep

(* accept().                                                               *)
LEMMA AcceptRefines ==
  ASSUME NEW CONSTANT P, SocketsInv(P), NEW CONSTANT p \in P, AcceptBy(p), up
  PROVE  Svc!Next
<1>1. Head(backlog) \in Conns
  BY AcceptKeepsSockets
<1> PICK h \in Conns : h = Head(backlog)
  BY <1>1
<1>2. /\ Queued(h) /\ h \notin Range(backlog')
      /\ Range(backlog') \subseteq Range(backlog) /\ SocketsInv(P)'
  BY AcceptKeepsSockets
<1>3. Range(backlog) \subseteq Range(backlog') \cup {h}
  BY OldestLeaves DEF SocketsInv, SocketsTypeOK, BacklogOK, AcceptBy
<1>4. \A c \in Conns \ {h} : Queued(c)' <=> Queued(c)
  BY <1>2, <1>3 DEF Queued
<1>5. holders'[h] = {p} /\ \A c \in Conns \ {h} : holders'[c] = holders[c]
  BY <1>2 DEF AcceptBy, SocketsInv, SocketsTypeOK
<1>6. Status(h)' = "open"
  BY <1>2, <1>5, StatusBecomes DEF SocketsInv, Opened
<1>7. \A c \in Conns \ {h} : Status(c)' = Status(c)
  BY <1>4, <1>5 DEF Status, Closed, AcceptBy
<1>8. \A c \in Conns : Served(c)' = Served(c)
  BY DEF AcceptBy, Served
<1>9. Svc!Accept
  BY <1>2, <1>6, <1>7, <1>8 DEF AcceptBy, Svc!Accept
<1> QED
  BY <1>9 DEF Svc!Next

(* handle() returns for a connection that somebody holds.                  *)
LEMMA HandleRefines ==
  ASSUME NEW CONSTANT P, SocketsInv(P), NEW c \in Conns,
         holders[c] # {}, handled[c] = 0,
         handled' = [handled EXCEPT ![c] = @ + 1],
         UNCHANGED <<link, backlog, holders, copies, up, listening>>
  PROVE  Svc!Next
<1>1. Status(c) = "open"
  BY StatusIs DEF SocketsInv, Opened
<1>2. \A d \in Conns : Status(d)' = Status(d)
  BY DEF Status, Queued, Closed
<1>3. /\ Served(c)' = TRUE /\ Served(c) = FALSE
      /\ \A d \in Conns \ {c} : Served(d)' = Served(d)
  BY DEF Served, SocketsInv, SocketsTypeOK
<1>4. Svc!Handle(c)
  BY <1>1, <1>2, <1>3 DEF Svc!Handle
<1> QED
  BY <1>4 DEF Svc!Next

(* Descriptors of open connections are duplicated, passed on or closed,    *)
(* and processes end; nothing that was closed is open again.               *)
Releases ==
  /\ \A c \in Conns : Opened(c)' => Opened(c)
  /\ up' \in {up, FALSE}
  /\ listening' \in {listening, FALSE} /\ (up' => listening')
  /\ backlog' = IF listening' THEN backlog ELSE <<>>
  /\ UNCHANGED link

(* Such a step keeps the backlog and what is not open as they should be.   *)
LEMMA ReleaseKeeps ==
  ASSUME NEW CONSTANT P, SocketsInv(P), Releases, UNCHANGED handled
  PROVE  BacklogOK' /\ UnopenedOK' /\ backlog' \in Seq(Conns)
<1>1. Range(backlog') \subseteq Range(backlog) /\ IsInjective(backlog') /\ backlog' \in Seq(Conns)
  BY DEF Releases, SocketsInv, SocketsTypeOK, BacklogOK, Range, IsInjective
<1>2. Range(backlog) \subseteq Conns
  BY DEF SocketsInv, SocketsTypeOK, Range
<1> QED
  BY <1>1, <1>2 DEF Releases, Opened, SocketsInv, BacklogOK, UnopenedOK

(* And is a step of Service: the last close() closes the connection.       *)
LEMMA ReleaseRefines ==
  ASSUME NEW CONSTANT P, SocketsInv(P), Releases, UNCHANGED handled
  PROVE  Svc!Next
<1> DEFINE S == {c \in Conns : Opened(c) /\ ~Opened(c)'}
<1>1. BacklogOK' /\ UnopenedOK'
  BY ReleaseKeeps
<1>2. S \in SUBSET {c \in Conns : Status(c) = "open"}
  BY StatusIs DEF SocketsInv
<1>3. \A c \in Conns : Served(c)' = Served(c)
  BY DEF Served
<1>4. \A c \in Conns : Queued(c)' <=> Queued(c) /\ listening'
  BY DEF Queued, Releases, Range
<1>5. ASSUME NEW c \in Conns
      PROVE  Status(c)' = IF c \in S \/ (Status(c) = "queued" /\ ~listening')
                          THEN "closed" ELSE Status(c)
  <2>1. CASE Status(c) = "none"
    BY <1>2, <2>1, <1>1, StatusIs, StatusBecomes DEF SocketsInv, Releases
  <2>2. CASE Status(c) = "queued"
    <3>1. ~Opened(c)' /\ link'[c] # "none" /\ c \notin S
      BY <2>2, <1>2, StatusIs DEF SocketsInv, Releases
    <3>2. CASE listening'
      BY <1>1, <1>4, <2>2, <3>1, <3>2, StatusIs, StatusBecomes DEF SocketsInv
    <3>3. CASE ~listening'
      BY <1>1, <1>4, <2>2, <3>1, <3>3, StatusBecomes DEF SocketsInv
    <3> QED
      BY <3>2, <3>3
  <2>3. CASE Status(c) = "open"
    <3>1. link'[c] # "none" /\ ~Queued(c)' /\ Opened(c)
      BY <2>3, <1>4, StatusIs DEF SocketsInv, Releases
    <3>2. CASE Opened(c)'
      BY <1>1, <2>3, <3>1, <3>2, StatusBecomes
    <3>3. CASE ~Opened(c)'
      BY <1>1, <2>3, <3>1, <3>3, StatusBecomes
    <3> QED
      BY <3>2, <3>3
  <2>4. CASE Status(c) = "closed"
    <3>1. ~Opened(c)' /\ link'[c] # "none" /\ ~Queued(c)'
      BY <2>4, <1>4, StatusIs DEF SocketsInv, Releases
    <3> QED
      BY <1>1, <2>4, <3>1, StatusBecomes
  <2> QED
    BY <2>1, <2>2, <2>3, <2>4, StatusIs DEF SocketsInv
<1>6. Svc!Close(S)
  BY <1>3, <1>5 DEF Svc!Close, Releases
<1> QED
  BY <1>2, <1>6 DEF Svc!Next
-----------------------------------------------------------------------------
(* The steps of programs. *)

(* handle() forks while its process has S open.                            *)
LEMMA StartReleases ==
  ASSUME NEW CONSTANT P, SocketsInv(P), NEW CONSTANT p \in P, NEW S,
         listening, \A c \in S \cap Conns : holders[c] # {}, StartProgram(p, S)
  PROVE  SocketsInv(P)' /\ Releases
<1> USE DEF SocketsInv
<1>1. Releases
  BY DEF StartProgram, Releases, Opened, ListeningOK
<1>2. BacklogOK' /\ UnopenedOK'
  BY <1>1, ReleaseKeeps DEF StartProgram
<1>3. SocketsTypeOK(P)'
  BY DEF StartProgram, SocketsTypeOK
<1>4. ListeningOK'
  BY DEF StartProgram, ListeningOK
<1> QED
  BY <1>1, <1>2, <1>3, <1>4

(* What p started ends.                                                    *)
LEMMA StopReleases ==
  ASSUME NEW CONSTANT P, SocketsInv(P), NEW CONSTANT p \in P,
         UNCHANGED <<link, prog, holders, handled, up>>,
         copies' = [c \in Conns |-> copies[c] \ {p}],
         listening' \in {listening, FALSE},
         up \/ Programs \ {p} # {} => listening',
         backlog' = IF listening' THEN backlog ELSE <<>>
  PROVE  SocketsInv(P)' /\ Releases
<1> USE DEF SocketsInv
<1>1. Releases
  BY DEF Releases, Opened, SocketsTypeOK
<1>2. BacklogOK' /\ UnopenedOK' /\ backlog' \in Seq(Conns)
  BY <1>1, ReleaseKeeps
<1>3. SocketsTypeOK(P)'
  BY <1>2 DEF SocketsTypeOK
<1>4. Programs' \subseteq Programs \ {p}
  BY <1>3, ProgramsAre, ProgramsBecome
<1>5. ListeningOK'
  BY <1>4 DEF ListeningOK
<1> QED
  BY <1>1, <1>2, <1>3, <1>5

(* The server process ends.                                                *)
LEMMA DeathReleases ==
  ASSUME NEW CONSTANT P, SocketsInv(P), ProcessDies
  PROVE  SocketsInv(P)' /\ Releases
<1> USE DEF SocketsInv
<1>1. Releases
  BY DEF ProcessDies, Listens, Releases, Opened, ListeningOK, SocketsTypeOK
<1>2. BacklogOK' /\ UnopenedOK' /\ backlog' \in Seq(Conns)
  BY <1>1, ReleaseKeeps DEF ProcessDies
<1>3. SocketsTypeOK(P)'
  BY <1>2 DEF ProcessDies, Listens, SocketsTypeOK
<1>4. ListeningOK'
  BY DEF ProcessDies, Listens, ListeningOK, Programs
<1> QED
  BY <1>1, <1>2, <1>3, <1>4
=============================================================================
