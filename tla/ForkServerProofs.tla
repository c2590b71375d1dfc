-------------------------- MODULE ForkServerProofs --------------------------
(***************************************************************************)
(* What the runs of ForkServer check for two or three connections and two  *)
(* children, proved for any number of them: no zombie is forgotten, only   *)
(* SIGINT and a broken handshake end the parent, a connection is handled   *)
(* once, and nobody keeps a descriptor of a connection it does not work on.*)
(***************************************************************************)
EXTENDS ForkServer, SocketsProofs

Procs == Pids \cup {Main}

(* Who has a connection open: the two halves of OwnDescriptorsOnly.        *)
HolderInv ==
  \A c \in Conns :
    holders[c] = {p \in Pids : Alive(p) /\ job[p] = c}
                   \cup (IF up /\ cur = c THEN {Main} ELSE {})

CopyInv ==
  \A c \in Conns :
    /\ copies[c] \subseteq Pids
    /\ \A p \in copies[c] :
         /\ \A d \in Conns : p \in copies[d] => d = c
         /\ Alive(p) => job[p] = c /\ pstate[p] = "run"

(* Every child has the listening socket.                                   *)
ListenInv == \A p \in Pids : Alive(p) => listening

(* The parent has a connection exactly when it is not in accept().         *)
CurInv == cur = None <=> pc = "accept"

(* A child lives for a connection, and no two for the same one, which it   *)
(* handles once.                                                           *)
ChildInv ==
  /\ \A p \in Pids : Alive(p) => job[p] \in Conns
  /\ \A p, q \in Pids : Alive(p) /\ Alive(q) /\ job[p] = job[q] => p = q
  /\ \A p \in Pids, c \in Conns : Handling(p, c) => handled[c] = 0
  /\ \A c \in Conns : handled[c] <= 1

(* What the parent accepted has no child before fork() returns.            *)
OfferedInv ==
  \A c \in Conns : Offered(c) =>
    handled[c] = 0 /\ ~Queued(c) /\ \A p \in Pids : Alive(p) => job[p] # c

IInv ==
  /\ TypeOK /\ BacklogOK /\ UnopenedOK /\ ListeningOK
  /\ CurInv /\ HolderInv /\ CopyInv /\ ListenInv /\ ChildInv /\ OfferedInv

(* What the lemmas about connections ask for.                              *)
LEMMA SocketsHold ==
  ASSUME IInv
  PROVE  /\ SocketsInv(Procs) /\ Main \in Procs /\ Pids \subseteq Procs
         /\ \A p : p \in Programs <=> \E c \in Conns : p \in copies[c]
         /\ Programs \subseteq Pids
<1>1. SocketsInv(Procs)
  BY DEF IInv, TypeOK, SocketsInv, Procs
<1>2. \A p : p \in Programs <=> \E c \in Conns : p \in copies[c]
  BY <1>1, ProgramsAre DEF SocketsInv
<1> QED
  BY <1>1, <1>2 DEF Procs, IInv, CopyInv
-----------------------------------------------------------------------------
(* It holds at the start.                                                  *)
LEMMA Initially == Init => IInv
<1> SUFFICES ASSUME Init PROVE IInv
  OBVIOUS
<1>1. SocketsInv(Procs)
  BY SocketsInitially DEF Init
<1>2. TypeOK /\ BacklogOK /\ UnopenedOK /\ ListeningOK
  BY <1>1, ForkAssumption DEF Init, SocketsInv, TypeOK, Procs, Active
<1>3. \A p \in Pids : ~Alive(p)
  BY DEF Init, Alive, Active
<1>4. CurInv /\ OfferedInv
  BY ForkAssumption DEF Init, CurInv, OfferedInv, Offered
<1>5. HolderInv /\ CopyInv /\ ListenInv
  BY <1>3, ForkAssumption DEF Init, SocketsInit, HolderInv, CopyInv, ListenInv
<1>6. ChildInv
  BY <1>3 DEF Init, SocketsInit, ChildInv, Handling, Alive, Active
<1> QED
  BY <1>2, <1>4, <1>5, <1>6 DEF IInv

(* The connection the parent accepts is new to everybody.                  *)
LEMMA AcceptKeeps ==
  ASSUME IInv, Accept PROVE IInv'
<1> DEFINE h == Head(backlog)
<1>1. SocketsInv(Procs) /\ Main \in Procs
  BY SocketsHold
<1>2. AcceptBy(Main)
  BY DEF Accept
<1>3. /\ SocketsInv(Procs)'
      /\ h \in Conns /\ h \in Range(backlog) /\ h \notin Range(backlog')
      /\ Range(backlog') \subseteq Range(backlog)
  BY <1>1, <1>2, AcceptKeepsSockets DEF Queued
<1>4. TypeOK' /\ BacklogOK' /\ UnopenedOK' /\ ListeningOK'
  BY <1>3 DEF IInv, TypeOK, SocketsInv, Procs, Accept
<1>5. CurInv'
  BY <1>3, ForkAssumption DEF Accept, CurInv
<1>6. holders[h] = {} /\ handled[h] = 0
  BY <1>3 DEF IInv, BacklogOK
<1>7. \A p \in Pids : Alive(p) => job[p] # h
  BY <1>3, <1>6 DEF IInv, HolderInv, Alive
<1>8. HolderInv'
  <2> SUFFICES ASSUME NEW c \in Conns
               PROVE  holders'[c] = {p \in Pids : pstate'[p] \in Active /\ job'[p] = c}
                                      \cup (IF up' /\ cur' = c THEN {Main} ELSE {})
    BY DEF HolderInv, Alive
  <2>1. CASE c = h
    BY <2>1, <1>2, <1>3, <1>7 DEF Accept, AcceptBy, IInv, TypeOK, SocketsTypeOK, Alive
  <2>2. CASE c # h
    <3>1. cur = None /\ cur # c /\ cur' # c
      BY <2>2, ForkAssumption DEF Accept, IInv, CurInv
    <3> QED
      BY <2>2, <3>1, <1>2 DEF Accept, AcceptBy, IInv, HolderInv, Alive,
                              TypeOK, SocketsTypeOK
  <2> QED
    BY <2>1, <2>2
<1>9. ChildInv'
  BY <1>2 DEF Accept, AcceptBy, IInv, ChildInv, Alive, Handling
<1>10. OfferedInv'
  BY <1>2, <1>3, <1>6, <1>7 DEF Accept, AcceptBy, OfferedInv, Offered, Queued, Alive
<1>11. CopyInv' /\ ListenInv'
  BY <1>2 DEF Accept, AcceptBy, IInv, CopyInv, ListenInv, Alive
<1> QED
  BY <1>4, <1>5, <1>8, <1>9, <1>10, <1>11 DEF IInv

(* fork() gives the parent's one connection to the child.                  *)
LEMMA ForkKeeps ==
  ASSUME IInv, NEW p \in Pids, Fork(p) PROVE IInv'
<1>1. /\ cur \in Conns /\ Offered(cur) /\ ~Alive(p)
      /\ \A q \in Pids : Alive(q) => job[q] # cur
  BY DEF Fork, IInv, TypeOK, CurInv, OfferedInv, Offered, Alive, Active
<1>2. /\ pstate' = [pstate EXCEPT ![p] = "read"] /\ job' = [job EXCEPT ![p] = cur]
      /\ UNCHANGED <<link, prog, backlog, copies, handled, up, listening, cur>>
      /\ up /\ pc' = "close" /\ ~Running(p)
  BY DEF Fork
<1>3. \A q \in Pids : /\ Alive(q)' <=> Alive(q) \/ q = p
                      /\ job'[q] = IF q = p THEN cur ELSE job[q]
  BY <1>2 DEF IInv, TypeOK, Alive, Active
<1>4. \A c \in Conns : holders'[c] = IF c = cur THEN holders[c] \cup {p} ELSE holders[c]
  BY <1>1, <1>2, ForkAssumption DEF Fork, IInv, HolderInv
<1>5. TypeOK'
  BY <1>1, <1>2, <1>4 DEF Fork, IInv, TypeOK, SocketsTypeOK, Active
<1>6. link[cur] # "none" /\ ~Queued(cur)
  BY <1>1, <1>2 DEF IInv, HolderInv, UnopenedOK, OfferedInv
<1>7. BacklogOK' /\ UnopenedOK' /\ ListeningOK'
  <2>1. Range(backlog) \subseteq Conns
    BY BacklogOfConns DEF IInv, TypeOK
  <2>2. BacklogOK'
    BY <2>1, <1>2, <1>4, <1>6 DEF IInv, BacklogOK, Queued
  <2>3. UnopenedOK'
    BY <1>2, <1>4, <1>6 DEF IInv, UnopenedOK
  <2>4. ListeningOK'
    BY <1>2 DEF IInv, ListeningOK, Programs
  <2> QED
    BY <2>2, <2>3, <2>4
<1>8. CurInv' /\ OfferedInv'
  BY <1>1, <1>2, ForkAssumption DEF CurInv, OfferedInv, Offered
<1>9. HolderInv'
  <2> SUFFICES ASSUME NEW c \in Conns
               PROVE  holders'[c] = {q \in Pids : Alive(q)' /\ job'[q] = c}
                                      \cup (IF up' /\ cur' = c THEN {Main} ELSE {})
    BY DEF HolderInv
  <2>1. holders[c] = {q \in Pids : Alive(q) /\ job[q] = c}
                       \cup (IF up /\ cur = c THEN {Main} ELSE {})
    BY DEF IInv, HolderInv
  <2>2. CASE c = cur
    <3>1. {q \in Pids : Alive(q)' /\ job'[q] = c} = {p}
      BY <2>2, <1>1, <1>3
    <3>2. {q \in Pids : Alive(q) /\ job[q] = c} = {}
      BY <2>2, <1>1
    <3> QED
      BY <2>1, <2>2, <3>1, <3>2, <1>1, <1>2, <1>4
  <2>3. CASE c # cur
    <3>1. {q \in Pids : Alive(q)' /\ job'[q] = c} = {q \in Pids : Alive(q) /\ job[q] = c}
      BY <2>3, <1>1, <1>3
    <3> QED
      BY <2>1, <2>3, <3>1, <1>2, <1>4
  <2> QED
    BY <2>2, <2>3
<1>10. ChildInv'
  <2>1. /\ \A q \in Pids : Alive(q)' => job'[q] \in Conns
        /\ \A q, r \in Pids : Alive(q)' /\ Alive(r)' /\ job'[q] = job'[r] => q = r
    BY <1>1, <1>3 DEF IInv, ChildInv
  <2>2. \A q \in Pids, c \in Conns : Handling(q, c)' => handled'[c] = 0
    BY <1>1, <1>2 DEF IInv, TypeOK, ChildInv, OfferedInv, Handling
  <2> QED
    BY <1>2, <2>1, <2>2 DEF IInv, ChildInv
<1>11. CopyInv'
  <2>1. \A c \in Conns : p \notin copies[c]
    BY <1>2, SocketsHold DEF Running
  <2>2. \A q \in Pids \ {p} : pstate'[q] = pstate[q] /\ job'[q] = job[q]
    BY <1>2 DEF IInv, TypeOK
  <2> QED
    BY <1>2, <2>1, <2>2 DEF IInv, CopyInv, Alive
<1>12. ListenInv'
  BY <1>2, <1>3 DEF IInv, ListenInv, ListeningOK
<1> QED
  BY <1>5, <1>7, <1>8, <1>9, <1>10, <1>11, <1>12 DEF IInv

(* The end of the iteration, when only the child keeps the connection.     *)
LEMMA CloseSockKeeps ==
  ASSUME IInv, CloseSock PROVE IInv'
<1>1. cur \in Conns /\ up /\ pc = "close" /\ pc' = "accept" /\ cur' = None
  BY DEF CloseSock, IInv, TypeOK, CurInv
<1>2. UNCHANGED <<link, prog, backlog, copies, handled, up, listening, pstate, job>>
  BY DEF CloseSock
<1>3. \A c \in Conns : holders'[c] = IF c = cur THEN holders[c] \ {Main} ELSE holders[c]
  BY <1>1 DEF CloseSock, IInv, TypeOK, SocketsTypeOK
<1>4. TypeOK'
  BY <1>1, <1>2, <1>3 DEF CloseSock, IInv, TypeOK, SocketsTypeOK, Active
<1>5. BacklogOK' /\ UnopenedOK' /\ ListeningOK'
  <2>1. Range(backlog) \subseteq Conns
    BY BacklogOfConns DEF IInv, TypeOK
  <2> QED
    BY <2>1, <1>2, <1>3 DEF IInv, BacklogOK, UnopenedOK, ListeningOK, Programs
<1>6. CurInv' /\ OfferedInv'
  BY <1>1, ForkAssumption DEF CurInv, OfferedInv, Offered
<1>7. HolderInv'
  <2> SUFFICES ASSUME NEW c \in Conns
               PROVE  holders'[c] = {p \in Pids : Alive(p) /\ job[p] = c}
    BY <1>1, <1>2, ForkAssumption DEF HolderInv, Alive
  <2>1. holders[c] = {p \in Pids : Alive(p) /\ job[p] = c}
                       \cup (IF up /\ cur = c THEN {Main} ELSE {})
    BY DEF IInv, HolderInv
  <2> QED
    BY <2>1, <1>1, <1>3, ForkAssumption
<1>8. ChildInv' /\ CopyInv' /\ ListenInv'
  BY <1>2 DEF IInv, ChildInv, CopyInv, ListenInv, Alive, Handling
<1> QED
  BY <1>4, <1>5, <1>6, <1>7, <1>8 DEF IInv

(* The parent's end takes its descriptors, and the backlog if nobody else  *)
(* has the listening socket.                                               *)
LEMMA ParentDiesReleases ==
  ASSUME IInv, up, ParentDies PROVE Releases
BY DEF ParentDies, Listens, Releases, Opened, IInv, TypeOK, SocketsTypeOK, ListeningOK,
       ListenInv

LEMMA ParentDiesKeeps ==
  ASSUME IInv, up, ParentDies, UNCHANGED <<pc, cur, job, sigchld, hnd>> PROVE IInv'
<1>1. \A p \in Pids : /\ Alive(p)' <=> Alive(p)
                      /\ Alive(p) => pstate'[p] = pstate[p]
  BY DEF ParentDies, IInv, TypeOK, Alive, Active
<1>2. BacklogOK' /\ UnopenedOK' /\ backlog' \in Seq(Conns)
  BY SocketsHold, ParentDiesReleases, ReleaseKeeps DEF ParentDies
<1>3. TypeOK'
  BY <1>2 DEF ParentDies, Listens, IInv, TypeOK, SocketsTypeOK, Active
<1>4. ListeningOK' /\ ListenInv'
  BY <1>1 DEF ParentDies, Listens, ListeningOK, ListenInv, Programs
<1>5. CurInv'
  BY DEF IInv, CurInv
<1>6. OfferedInv' /\ CopyInv'
  BY <1>1 DEF ParentDies, IInv, OfferedInv, Offered, CopyInv
<1>7. HolderInv'
  <2> SUFFICES ASSUME NEW c \in Conns
               PROVE  holders'[c] = {p \in Pids : Alive(p)' /\ job'[p] = c}
    BY DEF HolderInv, ParentDies
  <2>1. {p \in Pids : Alive(p)' /\ job'[p] = c} = {p \in Pids : Alive(p) /\ job[p] = c}
    BY <1>1
  <2>2. holders[c] \ {Main} = {p \in Pids : Alive(p) /\ job[p] = c}
    BY ForkAssumption DEF IInv, HolderInv
  <2> QED
    BY <2>1, <2>2 DEF ParentDies
<1>8. ChildInv'
  <2>1. \A p \in Pids, c \in Conns : Handling(p, c)' => Handling(p, c)
    BY <1>1 DEF Handling, Alive, Active
  <2> QED
    BY <2>1, <1>1 DEF ParentDies, IInv, ChildInv
<1> QED
  BY <1>2, <1>3, <1>4, <1>5, <1>6, <1>7, <1>8 DEF IInv

(* handle() returns in a child.                                            *)
LEMMA ReturnsKeeps ==
  ASSUME IInv, NEW p \in Pids, pstate[p] \in {"read", "run", "reply"}, ~Running(p),
         Returns(p)
  PROVE  IInv'
<1>1. /\ job[p] \in Conns /\ Alive(p) /\ Handling(p, job[p])
      /\ handled[job[p]] = 0
  BY DEF IInv, ChildInv, Alive, Active, Handling
<1>2. /\ UNCHANGED <<link, prog, backlog, holders, copies, up, listening, pc, cur, job>>
      /\ \A q \in Pids : pstate'[q] = IF q = p THEN "exit" ELSE pstate[q]
      /\ \A c \in Conns : handled'[c] = IF c = job[p] THEN 1 ELSE handled[c]
  BY <1>1 DEF Returns, IInv, TypeOK, SocketsTypeOK
<1>3. \A q \in Pids : Alive(q)' <=> Alive(q)
  BY <1>1, <1>2 DEF Alive, Active
<1>4. TypeOK'
  BY <1>1, <1>2 DEF Returns, IInv, TypeOK, SocketsTypeOK, Active
<1>5. p \in holders[job[p]]
  BY <1>1 DEF IInv, HolderInv
<1>6. BacklogOK' /\ UnopenedOK' /\ ListeningOK'
  <2>1. Range(backlog) \subseteq Conns
    BY BacklogOfConns DEF IInv, TypeOK
  <2> QED
    BY <2>1, <1>2, <1>5 DEF IInv, BacklogOK, UnopenedOK, ListeningOK, Programs
<1>7. CurInv' /\ HolderInv' /\ ListenInv'
  BY <1>2, <1>3 DEF IInv, CurInv, HolderInv, ListenInv
<1>8. CopyInv'
  <2>1. \A c \in Conns : p \notin copies[c]
    BY SocketsHold DEF Running
  <2> QED
    BY <1>2, <1>3, <2>1 DEF IInv, CopyInv
<1>9. OfferedInv'
  BY <1>1, <1>2, <1>3 DEF IInv, OfferedInv, Offered, Queued
<1>10. ChildInv'
  <2>1. \A q \in Pids, c \in Conns : Handling(q, c)' => handled'[c] = 0
    <3> SUFFICES ASSUME NEW q \in Pids, NEW c \in Conns, Handling(q, c)'
                 PROVE  handled'[c] = 0
      OBVIOUS
    <3>1. q # p /\ Handling(q, c) /\ Alive(q) /\ job[q] = c
      BY <1>2 DEF Handling, Alive, Active
    <3>2. c # job[p]
      BY <3>1, <1>1 DEF IInv, ChildInv
    <3> QED
      BY <3>1, <3>2, <1>2 DEF IInv, ChildInv
  <2>2. \A c \in Conns : handled'[c] <= 1
    BY <1>2 DEF IInv, ChildInv
  <2> QED
    BY <2>1, <2>2, <1>2, <1>3 DEF IInv, ChildInv
<1> QED
  BY <1>4, <1>6, <1>7, <1>8, <1>9, <1>10 DEF IInv

(* A child ends, and what it had open is closed.                           *)
LEMMA DiesReleases ==
  ASSUME IInv, NEW p \in Pids, Dies(p) PROVE Releases
BY DEF Dies, Listens, Releases, Opened, IInv, TypeOK, SocketsTypeOK, ListeningOK, ListenInv

LEMMA DiesKeeps ==
  ASSUME IInv, NEW p \in Pids, Alive(p), Dies(p) PROVE IInv'
<1>1. /\ UNCHANGED <<link, prog, copies, handled, up, pc, cur>>
      /\ \A q \in Pids : q # p => pstate'[q] = pstate[q] /\ job'[q] = job[q]
      /\ ~Alive(p)'
      /\ \A c \in Conns : holders'[c] = holders[c] \ {p}
  BY DEF Dies, IInv, TypeOK, Alive, Active
<1>2. \A q \in Pids : Alive(q)' <=> Alive(q) /\ q # p
  BY <1>1 DEF Alive
<1>3. BacklogOK' /\ UnopenedOK' /\ backlog' \in Seq(Conns)
  BY <1>1, SocketsHold, DiesReleases, ReleaseKeeps
<1>4. TypeOK'
  BY <1>3 DEF Dies, Listens, IInv, TypeOK, SocketsTypeOK, Active
<1>5. CurInv' /\ OfferedInv'
  <2>1. \A c \in Conns : Queued(c)' => Queued(c)
    BY DEF Dies, Listens, Queued, Range
  <2> QED
    BY <1>1, <1>2, <2>1 DEF IInv, CurInv, OfferedInv, Offered
<1>6. HolderInv'
  <2> SUFFICES ASSUME NEW c \in Conns
               PROVE  holders'[c] = {q \in Pids : Alive(q)' /\ job'[q] = c}
                                      \cup (IF up' /\ cur' = c THEN {Main} ELSE {})
    BY DEF HolderInv
  <2>1. holders[c] = {q \in Pids : Alive(q) /\ job[q] = c}
                       \cup (IF up /\ cur = c THEN {Main} ELSE {})
    BY DEF IInv, HolderInv
  <2>2. {q \in Pids : Alive(q)' /\ job'[q] = c}
          = {q \in Pids : Alive(q) /\ job[q] = c} \ {p}
    BY <1>1, <1>2
  <2> QED
    BY <2>1, <2>2, <1>1, ForkAssumption
<1>7. ChildInv'
  <2>1. \A q \in Pids, c \in Conns : Handling(q, c)' => Handling(q, c)
    BY <1>1 DEF Handling, Alive, Active
  <2> QED
    BY <2>1, <1>1, <1>2 DEF IInv, ChildInv
<1>8. CopyInv'
  BY <1>1, <1>2 DEF IInv, CopyInv
<1>9. ListeningOK' /\ ListenInv'
  <2>1. listening' <=> up \/ Programs # {} \/ \E q \in Pids \ {p} : Alive(q)
    BY DEF Dies, Listens
  <2>2. Programs' = Programs
    BY <1>1 DEF Programs
  <2> QED
    BY <1>1, <1>2, <2>1, <2>2 DEF ListeningOK, ListenInv
<1> QED
  BY <1>3, <1>4, <1>5, <1>6, <1>7, <1>8, <1>9 DEF IInv

(* A child forks in its turn.  It has one connection, so its program has.  *)
LEMMA ChildForksKeeps ==
  ASSUME IInv, NEW p \in Pids, ChildForks(p) PROVE IInv' /\ Releases
<1> DEFINE S == {c \in Conns : p \in holders[c]}
<1>1. /\ Alive(p) /\ listening /\ StartProgram(p, S)
      /\ UNCHANGED <<link, prog, backlog, holders, handled, up, listening, pc, cur, job>>
      /\ \A q \in Pids : pstate'[q] = IF q = p THEN "run" ELSE pstate[q]
  BY DEF ChildForks, StartProgram, Alive, Active, IInv, ListenInv, TypeOK
<1>2. SocketsInv(Procs)' /\ Releases
  BY <1>1, SocketsHold, StartReleases
<1>3. TypeOK' /\ BacklogOK' /\ UnopenedOK' /\ ListeningOK'
  BY <1>2 DEF ChildForks, IInv, TypeOK, SocketsInv, Procs, Active
<1>4. \A q \in Pids : Alive(q)' <=> Alive(q)
  BY <1>1 DEF Alive, Active
<1>5. CurInv' /\ HolderInv' /\ ListenInv' /\ OfferedInv'
  BY <1>1, <1>4 DEF IInv, CurInv, HolderInv, ListenInv, OfferedInv, Offered, Queued
<1>6. ChildInv'
  <2>1. \A q \in Pids, c \in Conns : Handling(q, c)' => Handling(q, c)
    BY <1>1 DEF ChildForks, Handling
  <2> QED
    BY <2>1, <1>1, <1>4 DEF IInv, ChildInv
<1>7. CopyInv'
  <2>1. job[p] \in Conns /\ S = {job[p]}
    BY <1>1, ForkAssumption DEF IInv, ChildInv, HolderInv
  <2>2. \A c \in Conns : p \notin copies[c]
    BY <1>1 DEF ChildForks, IInv, CopyInv
  <2>3. \A c \in Conns : copies'[c] = IF c = job[p] THEN copies[c] \cup {p} ELSE copies[c]
    BY <1>1, <2>1 DEF StartProgram
  <2>4. ASSUME NEW c \in Conns, NEW q \in copies'[c]
        PROVE  /\ q \in Pids
               /\ \A d \in Conns : q \in copies'[d] => d = c
               /\ Alive(q)' => job'[q] = c /\ pstate'[q] = "run"
    <3>1. CASE q = p
      BY <3>1, <1>1, <2>1, <2>2, <2>3, <2>4
    <3>2. CASE q # p
      <4>1. q \in copies[c] /\ \A d \in Conns : q \in copies'[d] => q \in copies[d]
        BY <3>2, <2>3, <2>4
      <4> QED
        BY <4>1, <3>2, <1>1, <1>4 DEF IInv, CopyInv
    <3> QED
      BY <3>1, <3>2
  <2> QED
    BY <2>4 DEF CopyInv
<1> QED
  BY <1>2, <1>3, <1>5, <1>6, <1>7 DEF IInv

(* A program ends.                                                         *)
LEMMA ProgramEndsKeeps ==
  ASSUME IInv, NEW p \in Pids, ProgramEnds(p) PROVE IInv' /\ Releases
<1>1. /\ UNCHANGED <<link, prog, holders, handled, up>> /\ UNCHANGED procVars
      /\ copies' = [c \in Conns |-> copies[c] \ {p}]
      /\ backlog' = IF listening' THEN backlog ELSE <<>>
      /\ listening' <=> up \/ (\E q \in Pids : Alive(q)) \/ Programs \ {p} # {}
      /\ listening' \in BOOLEAN
  BY DEF ProgramEnds, StopProgram, Listens
<1>2. SocketsInv(Procs)' /\ Releases
  <2>1. listening' \in {listening, FALSE}
    BY <1>1, SocketsHold DEF IInv, ListenInv, ListeningOK, TypeOK, SocketsTypeOK
  <2> QED
    BY <1>1, <2>1, SocketsHold, StopReleases
<1>3. TypeOK' /\ BacklogOK' /\ UnopenedOK' /\ ListeningOK'
  BY <1>1, <1>2 DEF IInv, TypeOK, SocketsInv, Procs, procVars
<1>4. /\ UNCHANGED <<link, prog, holders, handled, up, pc, cur, pstate, job>>
      /\ \A c \in Conns : copies'[c] = copies[c] \ {p}
      /\ \A c \in Conns : Queued(c)' => Queued(c)
  BY <1>1 DEF procVars, Queued, Range
<1>5. CurInv' /\ HolderInv' /\ OfferedInv' /\ ChildInv' /\ CopyInv'
  BY <1>4 DEF IInv, CurInv, HolderInv, OfferedInv, Offered, ChildInv, CopyInv, Alive,
              Handling
<1>6. ListenInv'
  BY <1>1, <1>4 DEF ListenInv, Alive
<1> QED
  BY <1>2, <1>3, <1>5, <1>6 DEF IInv

(* A client's step: it leaves alone what is in the server's hands.         *)
LEMMA ClientKeeps ==
  ASSUME IInv, NEW c \in Conns, Client(c) PROVE IInv'
<1>1. SocketsInv(Procs)' /\ UNCHANGED procVars
  BY SocketsHold, ClientsKeepSockets DEF Client
<1>2. TypeOK' /\ BacklogOK' /\ UnopenedOK' /\ ListeningOK'
  BY <1>1 DEF IInv, TypeOK, SocketsInv, Procs, procVars
<1>3. UNCHANGED <<holders, copies, up, listening>>
  BY DEF Client, ClientStep, Connect, Shake, Send, StopsReading,
         Resumes, Shutdown, Reset, Depart
<1>4. \A d \in Conns : \/ handled'[d] = handled[d]
                       \/ handled'[d] = 0 /\ holders[d] = {}
  BY DEF Client, ClientStep, Connect, Shake, Send, StopsReading,
         Resumes, Shutdown, Reset, Depart, Closed,
         IInv, TypeOK, SocketsTypeOK
<1>5. CurInv' /\ HolderInv' /\ CopyInv' /\ ListenInv'
  BY <1>1, <1>3 DEF IInv, CurInv, HolderInv, CopyInv, ListenInv, Alive, procVars
<1>6. ChildInv'
  BY <1>1, <1>4 DEF IInv, ChildInv, Alive, Handling, procVars
<1>7. OfferedInv'
  <2> SUFFICES ASSUME NEW d \in Conns, Offered(d)
               PROVE  handled'[d] = 0 /\ ~Queued(d)'
    BY <1>1, <1>3 DEF IInv, OfferedInv, Offered, Alive, procVars
  <2>1. handled'[d] = 0
    BY <1>4 DEF IInv, OfferedInv
  <2>2. CASE Connect(c)
    <3>1. d # c
      BY <2>2 DEF Connect, IInv, UnopenedOK, HolderInv, Offered
    <3>2. Range(backlog') = Range(backlog) \cup {c}
      BY <2>2, NewestJoins DEF Connect, IInv, TypeOK, SocketsTypeOK, BacklogOK
    <3> QED
      BY <2>1, <3>1, <3>2 DEF IInv, OfferedInv, Queued
  <2>3. CASE ~Connect(c)
    <3>1. backlog' = backlog
      BY <2>3 DEF Client, ClientStep, Shake, Send, StopsReading, Resumes, Shutdown,
                  Reset, Depart
    <3> QED
      BY <2>1, <3>1 DEF IInv, OfferedInv, Queued
  <2> QED
    BY <2>2, <2>3
<1> QED
  BY <1>2, <1>5, <1>6, <1>7 DEF IInv

(* A step that changes neither the connections nor who lives.              *)
LEMMA QuietKeeps ==
  ASSUME IInv, TypeOK', UNCHANGED <<sockVars, cur, job>>,
         \A p \in Pids : Alive(p)' <=> Alive(p),
         \A p \in Pids : pstate'[p] \in {"read", "run", "reply"} =>
                           pstate[p] \in {"read", "run", "reply"},
         \A p \in Programs : Alive(p) => pstate'[p] = pstate[p],
         pc' = "accept" <=> pc = "accept",
         pc' \in {"shake", "fork"} => pc \in {"shake", "fork"}
  PROVE  IInv'
<1>1. BacklogOK' /\ UnopenedOK' /\ ListeningOK' /\ CurInv'
  BY DEF IInv, sockVars, BacklogOK, UnopenedOK, ListeningOK, Programs, CurInv
<1>2. HolderInv' /\ ListenInv'
  BY DEF IInv, sockVars, HolderInv, ListenInv
<1>5. CopyInv'
  <2>1. \A c \in Conns : \A p \in copies[c] : Alive(p) => pstate'[p] = pstate[p]
    BY SocketsHold
  <2> QED
    BY <2>1 DEF IInv, sockVars, CopyInv
<1>3. ChildInv'
  BY DEF IInv, sockVars, ChildInv, Handling
<1>4. OfferedInv'
  BY DEF IInv, sockVars, OfferedInv, Offered, Queued
<1> QED
  BY <1>1, <1>2, <1>5, <1>3, <1>4 DEF IInv

(* A child at another point of handle() than waitpid() has no program.     *)
LEMMA NoProgram ==
  ASSUME IInv, NEW p \in Pids, pstate[p] \in {"read", "reply"} PROVE ~Running(p)
BY SocketsHold DEF Running, IInv, CopyInv, Alive, Active
-----------------------------------------------------------------------------
(* Every step keeps IInv.                                                  *)
LEMMA Inductive == IInv /\ [Next]_vars => IInv'
<1> SUFFICES ASSUME IInv, [Next]_vars PROVE IInv'
  OBVIOUS
<1> USE DEF Active
<1>1. CASE Parent
  <2>1. CASE Accept
    BY <2>1, AcceptKeeps
  <2>2. CASE AcceptReturns
    <3>1. TypeOK'
      BY <2>2 DEF AcceptReturns, IInv, TypeOK, SocketsTypeOK, sockVars
    <3> QED
      BY <2>2, <3>1, QuietKeeps DEF AcceptReturns, Alive
  <2>3. CASE AcceptBreaks
    BY <2>3, ParentDiesKeeps DEF AcceptBreaks
  <2>4. CASE \E p \in Pids : Fork(p)
    BY <2>4, ForkKeeps
  <2>5. CASE ForkFails
    <3>1. TypeOK'
      BY <2>5 DEF ForkFails, IInv, TypeOK, SocketsTypeOK, sockVars
    <3> QED
      BY <2>5, <3>1, QuietKeeps DEF ForkFails, Alive
  <2>6. CASE CloseSock
    BY <2>6, CloseSockKeeps
  <2> QED
    BY <1>1, <2>1, <2>2, <2>3, <2>4, <2>5, <2>6 DEF Parent
<1>2. ASSUME NEW p \in Pids, Child(p) PROVE IInv'
  <2>1. ASSUME pstate' = [pstate EXCEPT ![p] = "reply"], ~Running(p),
               pstate[p] \in {"read", "run"},
               UNCHANGED <<sockVars, pc, cur, job, sigchld, hnd>>
        PROVE  IInv'
    <3>1. TypeOK'
      BY <2>1 DEF IInv, TypeOK, SocketsTypeOK, sockVars
    <3>2. \A q \in Pids : /\ Alive(q)' <=> Alive(q)
                          /\ pstate'[q] \in {"read", "run", "reply"} =>
                               pstate[q] \in {"read", "run", "reply"}
                          /\ q # p => pstate'[q] = pstate[q]
      BY <2>1 DEF IInv, TypeOK, Alive
    <3> QED
      BY <2>1, <3>1, <3>2, QuietKeeps, SocketsHold DEF Running
  <2>2. CASE ChildReads(p)
    BY <2>1, <2>2, NoProgram DEF ChildReads
  <2>3. CASE ChildReadsNothing(p)
    BY <2>3, ReturnsKeeps, NoProgram DEF ChildReadsNothing
  <2>4. CASE ChildReplies(p)
    BY <2>4, ReturnsKeeps, NoProgram DEF ChildReplies
  <2>5. CASE ChildForks(p)
    BY <2>5, ChildForksKeeps
  <2>6. CASE ChildHasWaited(p)
    BY <2>1, <2>6, ReturnsKeeps DEF ChildHasWaited
  <2>7. CASE ChildForkFails(p)
    BY <2>7, ReturnsKeeps, DiesKeeps, NoProgram DEF ChildForkFails, Alive
  <2>8. CASE ChildExits(p)
    BY <2>8, DiesKeeps DEF ChildExits, Alive
  <2>9. CASE ChildCrashes(p)
    BY <2>9, DiesKeeps DEF ChildCrashes, Alive
  <2> QED
    BY <1>2, <2>2, <2>3, <2>4, <2>5, <2>6, <2>7, <2>8, <2>9 DEF Child
<1>3. CASE Handler
  <2>1. CASE Deliver
    <3>1. TypeOK'
      BY <2>1 DEF Deliver, IInv, TypeOK, SocketsTypeOK, sockVars
    <3> QED
      BY <2>1, <3>1, QuietKeeps DEF Deliver, Alive
  <2>2. ASSUME NEW p \in Pids, Reap(p) PROVE IInv'
    <3>1. TypeOK'
      BY <2>2 DEF Reap, IInv, TypeOK, SocketsTypeOK, sockVars
    <3>2. \A q \in Pids : /\ Alive(q)' <=> Alive(q)
                          /\ pstate'[q] \in {"read", "run", "reply"} =>
                               pstate[q] \in {"read", "run", "reply"}
                          /\ Alive(q) => pstate'[q] = pstate[q]
      BY <2>2 DEF Reap, IInv, TypeOK, Alive
    <3> QED
      BY <2>2, <3>1, <3>2, QuietKeeps, SocketsHold DEF Reap
  <2>3. CASE ReapEnds
    <3>1. TypeOK'
      BY <2>3 DEF ReapEnds, IInv, TypeOK, SocketsTypeOK, sockVars
    <3> QED
      BY <2>3, <3>1, QuietKeeps DEF ReapEnds, Alive
  <2>4. CASE HandlerReturns
    <3>1. UNCHANGED <<sockVars, pstate, pc, cur, job, sigchld>> /\ hnd' = "off"
      BY <2>4 DEF HandlerReturns, RestartsCalls
    <3>2. TypeOK'
      BY <3>1 DEF IInv, TypeOK, SocketsTypeOK, sockVars
    <3> QED
      BY <3>1, <3>2, QuietKeeps DEF Alive
  <2> QED
    BY <1>3, <2>1, <2>2, <2>3, <2>4 DEF Handler
<1>4. CASE Interrupt
  BY <1>4, ParentDiesKeeps DEF Interrupt
<1>5. ASSUME NEW p \in Pids, ProgramEnds(p) PROVE IInv'
  BY <1>5, ProgramEndsKeeps
<1>6. ASSUME NEW p \in Pids, ChildInterrupt(p) PROVE IInv'
  BY <1>6, DiesKeeps DEF ChildInterrupt
<1>7. ASSUME NEW c \in Conns, Client(c) PROVE IInv'
  BY <1>7, ClientKeeps
<1>8. CASE UNCHANGED vars
  <2>1. TypeOK'
    BY <1>8 DEF vars, IInv, TypeOK, SocketsTypeOK, sockVars
  <2> QED
    BY <1>8, <2>1, QuietKeeps DEF vars, Alive
<1> QED
  BY <1>1, <1>2, <1>3, <1>4, <1>5, <1>6, <1>7, <1>8 DEF Next

(* What the connections and the processes are throughout: the invariant    *)
(* the theorems below rest on.                                             *)
THEOREM Invariance == Spec => []IInv
<1>1. Init => IInv
  BY Initially
<1>2. IInv /\ [Next]_vars => IInv'
  BY Inductive
<1> QED
  BY <1>1, <1>2, PTL DEF Spec

(* Type correctness, for any number of connections and processes.          *)
THEOREM TypeCorrect == Spec => []TypeOK
<1>1. IInv => TypeOK
  BY DEF IInv
<1> QED
  BY <1>1, Invariance, PTL

(* After fork() the descriptors are where they should be, always.          *)
THEOREM DescriptorsOwned == Spec => []OwnDescriptorsOnly
<1>1. IInv => OwnDescriptorsOnly
  BY DEF IInv, HolderInv, CopyInv, OwnDescriptorsOnly
<1> QED
  BY <1>1, Invariance, PTL

(* No connection is handled twice, or by two children.                     *)
THEOREM HandledOnce == Spec => []ServedOnce
<1>1. IInv => ServedOnce
  <2> SUFFICES ASSUME IInv, NEW c \in Conns
               PROVE  /\ handled[c] <= 1
                      /\ \A p, q \in Pids : Handling(p, c) /\ Handling(q, c) => p = q
                      /\ \A p \in Pids : Handling(p, c) =>
                           handled[c] = 0 /\ ~Offered(c) /\ ~Queued(c)
                      /\ Offered(c) => handled[c] = 0 /\ ~Queued(c)
                      /\ Queued(c) => handled[c] = 0
    BY DEF ServedOnce
  <2>1. \A p \in Pids : Handling(p, c) => Alive(p) /\ job[p] = c /\ p \in holders[c]
    BY DEF IInv, HolderInv, Handling, Alive, Active
  <2>2. Queued(c) => holders[c] = {} /\ handled[c] = 0
    BY DEF IInv, BacklogOK, Queued
  <2>3. /\ handled[c] <= 1
        /\ \A p, q \in Pids : Handling(p, c) /\ Handling(q, c) => p = q
        /\ \A p \in Pids : Handling(p, c) => handled[c] = 0
    BY <2>1 DEF IInv, ChildInv
  <2>4. Offered(c) => handled[c] = 0 /\ ~Queued(c)
    BY DEF IInv, OfferedInv
  <2>5. \A p \in Pids : Handling(p, c) => ~Offered(c)
    BY <2>1 DEF IInv, OfferedInv
  <2> QED
    BY <2>1, <2>2, <2>3, <2>4, <2>5
<1> QED
  BY <1>1, Invariance, PTL
-----------------------------------------------------------------------------
(* Zombies exist only while the parent does, and then will be reaped: what *)
(* makes NoLostZombie inductive.                                           *)
ZombieInv ==
  /\ NoLostZombie
  /\ (\E p \in Pids : pstate[p] = "zombie") => up

(* zomb() reaps in a loop, and SIGCHLD is pending again for a child that   *)
(* dies after the loop: no coalesced signal leaves a zombie behind.        *)
LEMMA ZombieInductive == TypeOK /\ ZombieInv /\ [Next]_vars => ZombieInv'
<1> SUFFICES ASSUME TypeOK, ZombieInv, [Next]_vars PROVE ZombieInv'
  OBVIOUS
<1> USE DEF ZombieInv, NoLostZombie
<1>1. ASSUME UNCHANGED <<up, sigchld, hnd>>,
             \A p \in Pids : pstate'[p] = "zombie" => pstate[p] = "zombie"
      PROVE  ZombieInv'
  BY <1>1
<1>2. CASE Parent
  <2>1. CASE AcceptBreaks
    BY <2>1 DEF AcceptBreaks, ParentDies, TypeOK
  <2>2. CASE ~AcceptBreaks
    <3>1. UNCHANGED <<up, sigchld, hnd>>
      BY <1>2, <2>2 DEF Parent, Accept, AcceptBy, AcceptReturns, Fork, ForkFails,
                        CloseSock, sockVars
    <3>2. \A p \in Pids : pstate'[p] = "zombie" => pstate[p] = "zombie"
      BY <1>2, <2>2 DEF Parent, Accept, AcceptReturns, Fork, ForkFails, CloseSock, TypeOK
    <3> QED
      BY <1>1, <3>1, <3>2
  <2> QED
    BY <2>1, <2>2
<1>3. ASSUME NEW p \in Pids, Child(p) \/ ProgramEnds(p) \/ ChildInterrupt(p)
      PROVE  ZombieInv'
  <2>1. CASE \/ ChildReads(p) \/ ChildReadsNothing(p) \/ ChildReplies(p)
             \/ ChildForks(p) \/ ChildHasWaited(p) \/ ProgramEnds(p) \/ Returns(p)
    <3>1. UNCHANGED <<up, sigchld, hnd>>
      BY <2>1 DEF ChildReads, ChildReadsNothing, ChildReplies, ChildForks, StartProgram,
                  ChildHasWaited, ProgramEnds, StopProgram, Returns, sockVars, procVars
    <3>2. \A q \in Pids : pstate'[q] = "zombie" => pstate[q] = "zombie"
      BY <2>1 DEF ChildReads, ChildReadsNothing, ChildReplies, ChildForks, ChildHasWaited,
                  ProgramEnds, Returns, procVars, TypeOK
    <3> QED
      BY <1>1, <3>1, <3>2
  <2>2. CASE Dies(p)
    <3>1. sigchld' = up /\ up' = up /\ hnd' = hnd
      BY <2>2 DEF Dies
    <3>2. ~up => \A q \in Pids : pstate'[q] # "zombie"
      BY <2>2 DEF Dies, TypeOK
    <3> QED
      BY <3>1, <3>2
  <2> QED
    BY <1>3, <2>1, <2>2 DEF Child, ChildExits, ChildCrashes, ChildForkFails, ChildInterrupt
<1>4. CASE Handler
  <2>1. CASE Deliver
    BY <2>1 DEF Deliver, sockVars
  <2>2. ASSUME NEW p \in Pids, Reap(p) PROVE ZombieInv'
    <3>1. UNCHANGED <<up, sigchld, hnd>>
      BY <2>2 DEF Reap, sockVars
    <3>2. \A q \in Pids : pstate'[q] = "zombie" => pstate[q] = "zombie"
      BY <2>2 DEF Reap, TypeOK
    <3> QED
      BY <1>1, <3>1, <3>2
  <2>3. CASE ReapEnds
    BY <2>3 DEF ReapEnds, sockVars
  <2>4. CASE HandlerReturns
    BY <2>4 DEF HandlerReturns, RestartsCalls, sockVars
  <2> QED
    BY <1>4, <2>1, <2>2, <2>3, <2>4 DEF Handler
<1>5. CASE Interrupt
  BY <1>5 DEF Interrupt, ParentDies, TypeOK
<1>6. ASSUME NEW c \in Conns, Client(c) PROVE ZombieInv'
  <2>1. UNCHANGED <<up, sigchld, hnd, pstate>>
    BY <1>6 DEF Client, ClientStep, Connect, Shake, Send, StopsReading,
         Resumes, Shutdown, Reset, Depart,
                procVars
  <2> QED
    BY <1>1, <2>1
<1>7. CASE UNCHANGED vars
  BY <1>7 DEF vars, sockVars
<1> QED
  BY <1>2, <1>3, <1>4, <1>5, <1>6, <1>7 DEF Next

(* A zombie has a SIGCHLD pending, or the handler is in its loop.          *)
THEOREM ZombiesNotLost == Spec => []NoLostZombie
<1>1. Init => ZombieInv
  BY DEF Init, ZombieInv, NoLostZombie
<1>2. TypeOK /\ ZombieInv /\ [Next]_vars => ZombieInv'
  BY ZombieInductive
<1>3. ZombieInv => NoLostZombie
  BY DEF ZombieInv
<1> QED
  BY <1>1, <1>2, <1>3, TypeCorrect, PTL DEF Spec

(* Nothing but SIGINT and a broken handshake ends the parent: no child, no *)
(* program, no SIGCHLD during accept().                                    *)
THEOREM ParentEndsInTwoWays == Spec => ParentSurvives
<1>1. [Next]_vars =>
        [up /\ ~up' => \/ Main \in Sigint
                      \/ (Https /\ pc = "shake" /\ link[cur] = "reset")]_vars
  <2> SUFFICES ASSUME Next, up, ~up'
               PROVE  \/ Main \in Sigint
                      \/ (Https /\ pc = "shake" /\ link[cur] = "reset")
    OBVIOUS
  <2>1. CASE Parent
    BY <2>1 DEF Parent, Accept, AcceptBy, AcceptReturns, AcceptBreaks, HandshakeBreaks,
                Fork, ForkFails, CloseSock, sockVars
  <2>2. ASSUME NEW p \in Pids, Child(p) \/ ProgramEnds(p) \/ ChildInterrupt(p)
        PROVE  FALSE
    BY <2>2 DEF Child, ChildReads, ChildReadsNothing, ChildReplies, ChildForks,
                StartProgram, ChildHasWaited, ChildForkFails, Returns, ChildExits,
                ChildCrashes, Dies, ProgramEnds, StopProgram, ChildInterrupt, sockVars
  <2>3. CASE Handler
    BY <2>3 DEF Handler, Deliver, Reap, ReapEnds, HandlerReturns, RestartsCalls, sockVars
  <2>4. CASE Interrupt
    BY <2>4 DEF Interrupt
  <2>5. ASSUME NEW c \in Conns, Client(c) PROVE FALSE
    BY <2>5 DEF Client, ClientStep, Connect, Shake, Send, StopsReading, Resumes,
                Shutdown, Reset, Depart
  <2> QED
    BY <2>1, <2>2, <2>3, <2>4, <2>5 DEF Next
<1> QED
  BY <1>1, PTL DEF Spec, ParentSurvives
-----------------------------------------------------------------------------
(* Every step is one that Service allows, or one that it cannot see.       *)

(* A step of the parent is one of Service, or changes nothing in it.       *)
LEMMA ParentRefines ==
  ASSUME IInv, Parent PROVE [Svc!Next]_Svc!vars
<1>1. SocketsInv(Procs) /\ Main \in Procs
  BY SocketsHold
<1>2. CASE Accept
  BY <1>1, <1>2, AcceptRefines DEF Accept
<1>3. CASE AcceptReturns \/ ForkFails
  BY <1>3, HiddenRefines DEF AcceptReturns, ForkFails, sockVars
<1>4. ASSUME NEW p \in Pids, Fork(p) PROVE [Svc!Next]_Svc!vars
  <2>1. Releases
    BY <1>4 DEF Fork, Releases, Opened, IInv, TypeOK, SocketsTypeOK, ListeningOK
  <2> QED
    BY <1>1, <1>4, <2>1, ReleaseRefines DEF Fork
<1>5. CASE CloseSock
  <2>1. Releases
    BY <1>5 DEF CloseSock, Releases, Opened, IInv, TypeOK, SocketsTypeOK, ListeningOK
  <2> QED
    BY <1>1, <1>5, <2>1, ReleaseRefines DEF CloseSock
<1>6. CASE AcceptBreaks
  BY <1>1, <1>6, ParentDiesReleases, ReleaseRefines DEF AcceptBreaks, ParentDies
<1> QED
  BY <1>2, <1>3, <1>4, <1>5, <1>6 DEF Parent

(* So is a step of a child, or of its program.                             *)
LEMMA ChildRefines ==
  ASSUME IInv, NEW p \in Pids, Child(p) \/ ProgramEnds(p) \/ ChildInterrupt(p)
  PROVE  [Svc!Next]_Svc!vars
<1>1. SocketsInv(Procs)
  BY SocketsHold
<1>2. ASSUME pstate[p] \in {"read", "run", "reply"}, Returns(p)
      PROVE  [Svc!Next]_Svc!vars
  <2>1. job[p] \in Conns /\ p \in holders[job[p]] /\ handled[job[p]] = 0
    BY <1>2 DEF IInv, ChildInv, HolderInv, Handling, Alive, Active
  <2> QED
    BY <1>1, <1>2, <2>1, HandleRefines DEF Returns
<1>3. ASSUME Dies(p) PROVE [Svc!Next]_Svc!vars
  BY <1>1, <1>3, DiesReleases, ReleaseRefines DEF Dies
<1>4. ASSUME UNCHANGED sockVars PROVE [Svc!Next]_Svc!vars
  BY <1>4, HiddenRefines DEF sockVars
<1>5. CASE ChildForks(p)
  BY <1>1, <1>5, ChildForksKeeps, ReleaseRefines DEF ChildForks, StartProgram
<1>6. CASE ProgramEnds(p)
  BY <1>1, <1>6, ProgramEndsKeeps, ReleaseRefines DEF ProgramEnds, StopProgram
<1>7. CASE ChildReads(p) \/ ChildReadsNothing(p) \/ ChildReplies(p) \/ ChildHasWaited(p)
  BY <1>2, <1>4, <1>7 DEF ChildReads, ChildReadsNothing, ChildReplies, ChildHasWaited
<1>8. CASE ChildForkFails(p) \/ ChildExits(p) \/ ChildCrashes(p) \/ ChildInterrupt(p)
  BY <1>2, <1>3, <1>8 DEF ChildForkFails, ChildExits, ChildCrashes, ChildInterrupt
<1> QED
  BY <1>5, <1>6, <1>7, <1>8 DEF Child

(* So is every step.                                                       *)
LEMMA StepRefines == IInv /\ [Next]_vars => [Svc!Next]_Svc!vars
<1> SUFFICES ASSUME IInv, [Next]_vars PROVE [Svc!Next]_Svc!vars
  OBVIOUS
<1>1. SocketsInv(Procs)
  BY SocketsHold
<1>2. CASE Parent
  BY <1>2, ParentRefines
<1>3. ASSUME NEW p \in Pids, Child(p) \/ ProgramEnds(p) \/ ChildInterrupt(p)
      PROVE  [Svc!Next]_Svc!vars
  BY <1>3, ChildRefines
<1>4. CASE Handler
  <2>1. UNCHANGED sockVars
    BY <1>4 DEF Handler, Deliver, Reap, ReapEnds, HandlerReturns, RestartsCalls
  <2> QED
    BY <2>1, HiddenRefines DEF sockVars
<1>5. CASE Interrupt
  BY <1>1, <1>5, ParentDiesReleases, ReleaseRefines DEF Interrupt, ParentDies
<1>6. ASSUME NEW c \in Conns, Client(c) PROVE [Svc!Next]_Svc!vars
  BY <1>1, <1>6, ClientRefines DEF Client
<1>7. CASE UNCHANGED vars
  BY <1>7, HiddenRefines DEF vars, sockVars
<1> QED
  BY <1>2, <1>3, <1>4, <1>5, <1>6, <1>7 DEF Next

(* Fork mode implements Service: with any number of clients and children,  *)
(* connections are accepted in order, handled at most once while open, and *)
(* closed when the last process that has them closes them.                 *)
THEOREM ForkImplements == Spec => ImplementsService
<1>1. Init => Svc!Init
  BY InitRefines DEF Init
<1>2. IInv /\ [Next]_vars => [Svc!Next]_Svc!vars
  BY StepRefines
<1> QED
  BY <1>1, <1>2, Invariance, PTL DEF Spec, ImplementsService, Svc!Spec
=============================================================================
